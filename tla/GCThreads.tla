----------------------------- MODULE GCThreads -----------------------------
(***************************************************************************)
(* The rendezvous of a parallel collection.  The Task that wins requestSync *)
(* leads; the owners of the other Capabilities become collector threads in  *)
(* gcWorkerThread, are let in and out through two spin locks and a flag,    *)
(* share the scavenging, and find out together that it is done.  The leader *)
(* resets pending_sync before it collects, so the next collection may be    *)
(* asked for while it still lets the collectors of this one go.            *)
(*                                                                         *)
(* Objects are counted: those a thread has evacuated and not scavenged yet, *)
(* and the blocks of them in its todo_q, which others may steal (WSDeque    *)
(* has the deque itself).  A disabled Capability is free: a leader that     *)
(* finds it so does its work, and one that does not waits for it.          *)
(***************************************************************************)
EXTENDS Integers, FiniteSets

CONSTANTS GcCaps,            \* capabilities[0 .. n_capabilities-1]
          Scenarios,         \* those that setNumCapabilities has disabled, with a bound on collections
          MaxEvacuated,      \* bound: objects found beside the roots, in a collection
          MaxWeakRounds      \* bound: times traverseWeakPtrList finds something alive

ASSUME GCThreadsAssumption ==
  /\ IsFiniteSet(GcCaps) /\ GcCaps = 0..(Cardinality(GcCaps) - 1)
  /\ Scenarios \subseteq [off : SUBSET (GcCaps \ {0}), collections : Nat]
  /\ {MaxEvacuated, MaxWeakRounds} \subseteq Nat

VARIABLES gct,      \* each gc_thread, and where the Task is that runs it
          cols      \* pending_sync, gc_running_threads and the bounds

gcVars == <<gct, cols>>

Free == -1
GcAt(i, pc) == gct[i].pc = pc
GcGoto(i, pc) == gct' = [gct EXCEPT ![i].pc = pc]
NextCap(i, k) == IF k + 1 = i THEN k + 2 ELSE k + 1       \* the loops leave out the leader
FirstCap(i) == NextCap(i, -1)
AllSeen(k) == k \notin GcCaps

----------------------------------------------------------------------------
(* Starting a collection: scheduleDoGC up to GarbageCollect                *)

\* requestSync: cas(&pending_sync, 0, SYNC_GC_PAR)
WinSync(i) ==
  /\ GcAt(i, "mutator") /\ ~cols.pending /\ cols.left > 0
  /\ cols' = [cols EXCEPT !.pending = TRUE, !.left = @ - 1]
  /\ GcGoto(i, "grab")

\* tryGrabCapability on the disabled ones
GrabIdle(i) ==
  /\ GcAt(i, "grab")
  /\ LET grabbed == {k \in cols.off \ {i} : gct[k].owner = Free}
     IN gct' = [k \in GcCaps |->
                  IF k = i THEN [gct[k] EXCEPT !.pc = "flag", !.grabbed = grabbed]
                  ELSE IF k \in grabbed THEN [gct[k] EXCEPT !.owner = i] ELSE gct[k]]
  /\ UNCHANGED cols

SetIdle(i) ==
  /\ GcAt(i, "flag")
  /\ gct' = [k \in GcCaps |-> [gct[k] EXCEPT !.idle = k \in gct[i].grabbed,
                                             !.pc = IF k = i THEN "wait" ELSE @]]
  /\ UNCHANGED cols

StandingBy(k) == gct[k].idle \/ gct[k].wakeup = "standing_by"

\* waitForGcThreads prods an idle Capability, which gets a worker
Prod(i, k) ==
  /\ GcAt(i, "wait") /\ k # i /\ ~StandingBy(k) /\ gct[k].owner = Free
  /\ gct' = [gct EXCEPT ![k].owner = k, ![k].pc = "mutator"]
  /\ UNCHANGED cols

\* yieldCapability of a worker that finds nothing to run, not asked to collect yet
GiveUp(i) == i \in cols.off /\ GcAt(i, "mutator") /\ ~cols.pending /\ GcGoto(i, "leaving") /\ UNCHANGED cols

GivenUp(i) ==
  /\ GcAt(i, "leaving")
  /\ gct' = [gct EXCEPT ![i].owner = Free, ![i].pc = "none"]
  /\ UNCHANGED cols

\* All stand by.  pending_sync is reset, and the leader counts itself as running.
StartGC(i) ==
  /\ GcAt(i, "wait") /\ \A k \in GcCaps \ {i} : StandingBy(k)
  /\ cols' = [cols EXCEPT !.pending = FALSE, !.running = 1, !.unseen = MaxEvacuated, !.weak = MaxWeakRounds]
  /\ gct' = [gct EXCEPT ![i].pc = "wake", ![i].next = FirstCap(i)]

\* wakeup_gc_threads, one thread at a time: let it out of gc_spin, keep it in mut_spin
NotYet(r) == r
OneMore(r) == r + 1

WakeGcThread(i) ==
  LET k == gct[i].next IN
  /\ GcAt(i, "wake") /\ ~AllSeen(k)
  /\ IF gct[k].idle
     THEN gct' = [gct EXCEPT ![i].next = NextCap(i, k)] /\ UNCHANGED cols
     ELSE IF gct[k].wakeup # "standing_by" THEN GcGoto(i, "barf") /\ UNCHANGED cols
     ELSE /\ cols' = [cols EXCEPT !.running = OneMore(@)]
          /\ gct' = [gct EXCEPT ![k].wakeup = "running", ![i].pc = "let_in"]

LetIn(i) ==
  LET k == gct[i].next IN
  /\ GcAt(i, "let_in") /\ ~gct[k].mutSpin
  /\ gct' = [gct EXCEPT ![k].mutSpin = TRUE, ![k].gcSpin = FALSE,
                        ![i].pc = "wake", ![i].next = NextCap(i, k)]
  /\ UNCHANGED cols

\* the leader's roots, with those of the idle Capabilities
LeaderRoots(i) ==
  /\ GcAt(i, "wake") /\ AllSeen(gct[i].next)
  /\ gct' = [gct EXCEPT ![i].pc = "scavenge", ![i].leads = TRUE,
                        ![i].local = 1 + Cardinality({k \in GcCaps : gct[k].idle})]
  /\ UNCHANGED cols

----------------------------------------------------------------------------
(* gcWorkerThread, from yieldCapability                                    *)

EnterWorker(i) ==
  /\ GcAt(i, "mutator") /\ cols.pending
  /\ gct' = [gct EXCEPT ![i].mutSpin = FALSE, ![i].pc = "enter"]
  /\ UNCHANGED cols

StandBy(i) ==
  /\ GcAt(i, "enter")
  /\ gct' = [gct EXCEPT ![i].wakeup = "standing_by", ![i].pc = "stand_by"]
  /\ UNCHANGED cols

WorkerRoots(i) ==
  /\ GcAt(i, "stand_by") /\ ~gct[i].gcSpin
  /\ gct' = [gct EXCEPT ![i].gcSpin = TRUE, ![i].pc = "scavenge", ![i].local = 1]
  /\ UNCHANGED cols

WorkerLeaves(i) ==
  /\ GcAt(i, "done") /\ ~gct[i].leads
  /\ gct' = [gct EXCEPT ![i].gcSpin = FALSE, ![i].pc = "leave"]
  /\ UNCHANGED cols

WaitToContinue(i) ==
  /\ GcAt(i, "leave")
  /\ gct' = [gct EXCEPT ![i].wakeup = "waiting", ![i].pc = "continue"]
  /\ UNCHANGED cols

Continue(i) ==
  /\ GcAt(i, "continue") /\ ~gct[i].mutSpin
  /\ gct' = [gct EXCEPT ![i].mutSpin = TRUE, ![i].pc = "mutator"]
  /\ UNCHANGED cols

----------------------------------------------------------------------------
(* scavenge_until_all_done                                                 *)

\* scavenge an object: others may be evacuated, and a full block goes to todo_q
Scavenge(i) ==
  /\ GcAt(i, "scavenge") /\ gct[i].local > 0
  /\ \E found \in 0..cols.unseen :
       /\ cols' = [cols EXCEPT !.unseen = @ - found]
       /\ \E pushed \in 0..found :
            gct' = [gct EXCEPT ![i].local = @ - 1 + found - pushed, ![i].todo = @ + pushed]

GrabLocal(i) ==
  /\ GcAt(i, "scavenge") /\ gct[i].local = 0 /\ gct[i].todo > 0
  /\ gct' = [gct EXCEPT ![i].local = 1, ![i].todo = @ - 1]
  /\ UNCHANGED cols

LooksAt(i, pc, k) == GcAt(i, pc) /\ gct[i].next = k /\ k \in GcCaps

OutOfWork(i) ==
  /\ GcAt(i, "scavenge") /\ gct[i].local = 0 /\ gct[i].todo = 0
  /\ gct' = [gct EXCEPT ![i].pc = "steal", ![i].next = FirstCap(i)]
  /\ UNCHANGED cols

\* steal_todo_block
StealTodo(i, k) ==
  /\ LooksAt(i, "steal", k)
  /\ gct' = IF gct[k].todo > 0
            THEN [gct EXCEPT ![k].todo = @ - 1, ![i].local = 1, ![i].pc = "scavenge"]
            ELSE [gct EXCEPT ![i].next = NextCap(i, k)]
  /\ UNCHANGED cols

DecRunning(i) ==
  /\ GcAt(i, "steal") /\ AllSeen(gct[i].next)
  /\ cols' = [cols EXCEPT !.running = @ - 1]
  /\ GcGoto(i, "idle")

\* while (gc_running_threads != 0) ... any_work()
StillRunning(i) ==
  /\ GcAt(i, "idle")
  /\ gct' = IF cols.running = 0 THEN [gct EXCEPT ![i].pc = "done"]
            ELSE [gct EXCEPT ![i].pc = "any_work", ![i].next = FirstCap(i)]
  /\ UNCHANGED cols

AnyWork(i, k) ==
  /\ LooksAt(i, "any_work", k)
  /\ gct' = IF gct[k].todo > 0 THEN [gct EXCEPT ![i].pc = "again"] ELSE [gct EXCEPT ![i].next = NextCap(i, k)]
  /\ UNCHANGED cols

NoWork(i) == GcAt(i, "any_work") /\ AllSeen(gct[i].next) /\ GcGoto(i, "idle") /\ UNCHANGED cols

IncRunning(i) ==
  /\ GcAt(i, "again")
  /\ cols' = [cols EXCEPT !.running = @ + 1]
  /\ GcGoto(i, "scavenge")

----------------------------------------------------------------------------
(* The leader, once all is scavenged                                       *)

TraverseWeak(i) ==
  /\ GcAt(i, "done") /\ gct[i].leads
  /\ IF cols.weak > 0
     THEN \/ \E pushed \in 0..1 :
               /\ gct' = [gct EXCEPT ![i].local = 1 - pushed, ![i].todo = pushed, ![i].pc = "again"]
               /\ cols' = [cols EXCEPT !.weak = @ - 1]
          \/ cols' = [cols EXCEPT !.weak = 0] /\ UNCHANGED gct
     ELSE gct' = [gct EXCEPT ![i].pc = "shutdown"] /\ UNCHANGED cols

\* shutdown_gc_threads
NoNeedToWait(i) == TRUE
AllWaiting(i) == \A k \in GcCaps \ {i} : gct[k].idle \/ gct[k].wakeup = "waiting"

Shutdown(i) ==
  /\ GcAt(i, "shutdown") /\ AllWaiting(i)
  /\ gct' = [gct EXCEPT ![i].pc = "release", ![i].leads = FALSE, ![i].next = FirstCap(i)]
  /\ UNCHANGED cols

\* releaseGCThreads
ReleaseGcThread(i) ==
  LET k == gct[i].next IN
  /\ GcAt(i, "release") /\ ~AllSeen(k)
  /\ gct' = IF gct[k].idle THEN [gct EXCEPT ![i].next = NextCap(i, k)]
            ELSE IF gct[k].wakeup # "waiting" THEN [gct EXCEPT ![i].pc = "barf"]
            ELSE [gct EXCEPT ![k].wakeup = "inactive", ![i].pc = "let_out"]
  /\ UNCHANGED cols

LetOut(i) ==
  LET k == gct[i].next IN
  /\ GcAt(i, "let_out") /\ ~gct[k].gcSpin
  /\ gct' = [gct EXCEPT ![k].gcSpin = TRUE, ![k].mutSpin = FALSE,
                        ![i].pc = "release", ![i].next = NextCap(i, k)]
  /\ UNCHANGED cols

\* the grabbed Capabilities, by idle_cap[], which is the leader's own
ReleaseIdle(i) ==
  /\ GcAt(i, "release") /\ AllSeen(gct[i].next)
  /\ gct' = [k \in GcCaps |->
               IF k = i THEN [gct[k] EXCEPT !.pc = "mutator", !.grabbed = {}]
               ELSE IF k \in gct[i].grabbed THEN [gct[k] EXCEPT !.owner = Free] ELSE gct[k]]
  /\ UNCHANGED cols

----------------------------------------------------------------------------
GCInit ==
  /\ \E scenario \in Scenarios, busy \in SUBSET GcCaps :
     LET free == scenario.off \ busy IN
     /\ busy \subseteq scenario.off
     /\ gct = [i \in GcCaps |->
              [pc |-> IF i \in free THEN "none" ELSE "mutator", owner |-> IF i \in free THEN Free ELSE i,
               wakeup |-> "inactive", gcSpin |-> TRUE, mutSpin |-> FALSE, idle |-> FALSE,
               local |-> 0, todo |-> 0, next |-> 0, leads |-> FALSE, grabbed |-> {}]]
     /\ cols = [pending |-> FALSE, running |-> 0, unseen |-> 0, weak |-> 0,
                off |-> scenario.off, left |-> scenario.collections]

GCStep(i) ==
  \/ WinSync(i) \/ GrabIdle(i) \/ SetIdle(i) \/ GiveUp(i) \/ GivenUp(i) \/ StartGC(i)
  \/ WakeGcThread(i) \/ LetIn(i) \/ LeaderRoots(i)
  \/ EnterWorker(i) \/ StandBy(i) \/ WorkerRoots(i) \/ WorkerLeaves(i) \/ WaitToContinue(i) \/ Continue(i)
  \/ Scavenge(i) \/ GrabLocal(i) \/ OutOfWork(i) \/ DecRunning(i) \/ StillRunning(i) \/ NoWork(i) \/ IncRunning(i)
  \/ TraverseWeak(i) \/ Shutdown(i) \/ ReleaseGcThread(i) \/ LetOut(i) \/ ReleaseIdle(i)
  \/ \E k \in GcCaps : Prod(i, k) \/ StealTodo(i, k) \/ AnyWork(i, k)

GCNext == \E i \in GcCaps : GCStep(i)
GCSpec == GCInit /\ [][GCNext]_gcVars

----------------------------------------------------------------------------
(* Properties *)

(* "invariant is that everything is fully scavenged at this point" (GC.c): *)
(* when the leader looks at the weak pointers, no thread has an object left *)
(* to scavenge or roots to evacuate, and after the last look none gets any. *)
FullyScavenged ==
  \A i \in GcCaps : (GcAt(i, "done") /\ gct[i].leads) \/ GcAt(i, "shutdown") \/ GcAt(i, "release") =>
    \A k \in GcCaps : gct[k].local = 0 /\ gct[k].todo = 0

(* wakeup_gc_threads finds every thread it wakes standing by, and           *)
(* releaseGCThreads every thread it lets go waiting to continue, as the     *)
(* barfs say.  Between two collections "the gc_thread[]->idle flags are     *)
(* invalid as soon as we release any threads after GC" (Schedule.c).       *)
NeverBarfs == \A i \in GcCaps : ~GcAt(i, "barf")

(* While somebody leads a collection, from the reset of pending_sync to the *)
(* last collector's done, no other owner of a Capability runs Haskell code: *)
(* the others are inside gcWorkerThread, or the leader owns them.          *)
Leading(i) == gct[i].leads \/ gct[i].pc \in {"wake", "let_in"}
WorldStands ==
  \A i, k \in GcCaps : Leading(i) /\ k # i =>
    gct[k].pc \notin {"mutator", "leaving", "none"} \/ gct[k].owner = i

(* The world stands while it is collected; the threads are where wakeup and *)
(* release expect them; and a collection that is over leaves nobody behind, *)
(* in a spin lock or waiting for somebody who will not come.               *)
Rendezvous ==
  /\ WorldStands
  /\ NeverBarfs
  /\ ~ENABLED GCNext => ~cols.pending /\ \A i \in GcCaps : gct[i].pc \in {"mutator", "none"}
=============================================================================
