----------------------------- MODULE BlackHole -----------------------------
(***************************************************************************)
(* Lazy evaluation shared between Capabilities: a thunk is entered, claimed *)
(* by threadPaused (lazy black-holing), waited for by messageBlackHole and  *)
(* blocking queues, updated, and handed back by raiseAsync as an AP_STACK.  *)
(*                                                                         *)
(* A thunk is claimed only when its evaluator is paused, so two threads may *)
(* evaluate one thunk, neither knowing of the other.  Each step reads or    *)
(* writes one word that another Capability may write: the header (info) or *)
(* the indirectee of a thunk.  What belongs to a thread is only touched by  *)
(* the Capability the thread is on.  A message is a slot that is used again *)
(* once nothing refers to it; an inbox delivers in any order.              *)
(***************************************************************************)
EXTENDS Integers, SequencesExt, BagsExt

CONSTANTS Caps, Tsos,
          NThunks,                   \* the program's thunks; one only ever needs thunks after it
          MaxClosures,               \* bound: thunks and AP_STACKs
          MaxMsgs,                   \* bound: MSG_BLACKHOLEs in use at once
          Budgets,                   \* bound: how often threads are preempted, moved and killed
          Nobody

ASSUME BlackHoleAssumption ==
  /\ Nobody \notin Tsos \cup Caps
  /\ NThunks \in Nat \ {0} /\ MaxClosures \in Nat /\ NThunks <= MaxClosures /\ MaxMsgs \in Nat
  /\ Budgets \subseteq [preempt : Nat, move : Nat, kill : Nat]

Closures == 1..MaxClosures
Msgs == 1..MaxMsgs

VARIABLES bh,       \* the heap: closures, messages, threads, inboxes
          at,       \* where each Capability is
          budget

bhVars == <<bh, at, budget>>

Value == [is |-> "value"]          \* a tagged pointer
Tso(t) == [is |-> "tso", tso |-> t]
Queue == [is |-> "bq"]             \* the thunk's own BLOCKING_QUEUE
ApStack(y) == [is |-> "ap", ap |-> y]
Junk == [is |-> "junk"]            \* the word before anything is written to it

Idle == [pc |-> "sched", tso |-> Nobody, x |-> 0, msg |-> 0, v |-> Junk, i |-> 0]

----------------------------------------------------------------------------
(* Messages and wake-ups *)

Mail(h, d, m) == [h EXCEPT !.inbox[d] = BagAdd(@, m)]
TryWakeupMail(t) == [type |-> "wakeup", of |-> t]
BlackHoleMail(m) == [type |-> "blackhole", of |-> m]

\* tryWakeupThread: a thread blocked on a black hole just runs, and looks again
WakeTso(h, c, t) ==
  IF h.tso[t].home # c THEN Mail(h, h.tso[t].home, TryWakeupMail(t))
  ELSE IF h.tso[t].why = "NotBlocked" THEN h
  ELSE [h EXCEPT !.tso[t].why = "NotBlocked", !.tso[t].msg = 0]

\* wakeBlockingQueue, for the BLOCKING_QUEUE of closure x
WakeBlockingQueue(h, c, x) ==
  LET live == SelectSeq(h.clo[x].queue, LAMBDA m : ~h.msg[m].revoked)
      woken == FoldLeft(LAMBDA g, m : WakeTso(g, c, h.msg[m].tso), h, live)
  IN  [woken EXCEPT !.clo[x].bq = "ind", !.clo[x].queue = <<>>]

NeverChecked(h, c, t) == h
\* checkBlockingQueues, over tso->bq
CheckBlockingQueues(h, c, t) ==
  LET orphans == {x \in Closures : /\ h.clo[x].bq = "bq" /\ h.clo[x].owner = t
                                   /\ h.clo[x].info = "BLACKHOLE" => h.clo[x].indirectee # Queue}
  IN  FoldFunctionOnSet(LAMBDA x, g : WakeBlockingQueue(g, c, x), h, [x \in Closures |-> x], orphans)

\* the end of updateThunk: v is what the thunk referred to before the update
AfterUpdate(h, c, t, x, v) ==
  CASE v = Tso(t) -> h
    [] v = Queue /\ h.clo[x].owner = t /\ h.clo[x].bq = "bq" -> WakeBlockingQueue(h, c, x)
    [] OTHER -> CheckBlockingQueues(h, c, t)

InUse(h, m) ==
  \/ \E x \in Closures : Contains(h.clo[x].queue, m)
  \/ \E t \in Tsos : h.tso[t].msg = m
  \/ \E c \in Caps : BagIn(BlackHoleMail(m), h.inbox[c]) \/ at[c].msg = m

----------------------------------------------------------------------------
(* raiseAsync: each update frame above the stop frame updates its thunk    *)
(* with an AP_STACK, the frozen piece of stack above it, which goes on by  *)
(* entering what was on top.                                               *)

FreeClosures(h) == {y \in Closures : h.clo[y].info = "free"}
KeepsBlackHole(r, c, t, frame) == r
FreezeTo(r, c, t, frame) ==
  LET y == CHOOSE y \in FreeClosures(r.h) : \A z \in FreeClosures(r.h) : y <= z
      x == frame.x
      v == r.h.clo[x].indirectee
      updated == [r.h EXCEPT !.clo[y].info = "THUNK", !.clo[y].fun = r.top, !.clo[y].rank = r.h.clo[x].rank,
                             !.clo[x].indirectee = ApStack(y), !.clo[x].info = "BLACKHOLE"]
  IN  [top |-> y,
       h |-> IF r.h.clo[x].info = "THUNK" THEN updated ELSE AfterUpdate(updated, c, t, x, v)]

CanFreeze(h, t, stop) == Cardinality(FreeClosures(h)) >= Len(h.tso[t].stack) - stop
RaiseAsyncTo(h, c, t, stop) ==
  LET frames == Reverse(SubSeq(h.tso[t].stack, stop + 1, Len(h.tso[t].stack)))
      frozen == FoldLeft(LAMBDA r, f : FreezeTo(r, c, t, f), [h |-> h, top |-> h.tso[t].enter], frames)
  IN  [frozen.h EXCEPT !.tso[t].stack = SubSeq(@, 1, stop), !.tso[t].why = "NotBlocked", !.tso[t].msg = 0]

----------------------------------------------------------------------------
(* A running thread *)

Goto(c, pc) == at' = [at EXCEPT ![c].pc = pc]
Runs(c) == at[c].pc = "run"
Me(c) == bh.tso[at[c].tso]
Code(c) == Runs(c) /\ Me(c).enter = 0          \* the code of the top frame runs

Run(c, t) ==
  /\ at[c].pc = "sched" /\ bh.tso[t].home = c /\ bh.tso[t].why = "NotBlocked" /\ ~bh.tso[t].done
  /\ at' = [at EXCEPT ![c] = [Idle EXCEPT !.pc = "run", !.tso = t]]
  /\ UNCHANGED <<bh, budget>>

\* the code needs a thunk
Need(c, x) ==
  /\ Code(c) /\ Me(c).stack # <<>>
  /\ x <= NThunks /\ x > bh.clo[Last(Me(c).stack).x].rank /\ bh.clo[x].indirectee # Value
  /\ bh' = [bh EXCEPT !.tso[at[c].tso].enter = x]
  /\ UNCHANGED <<at, budget>>

\* a thunk or AP_STACK: push an update frame, and for the latter its piece of stack
EnterThunk(c) ==
  /\ Runs(c) /\ Me(c).enter # 0
  /\ LET x == Me(c).enter IN
     /\ bh.clo[x].info = "THUNK"
     /\ bh' = [bh EXCEPT !.tso[at[c].tso].stack = Append(@, [x |-> x, marked |-> FALSE]),
                         !.tso[at[c].tso].enter = bh.clo[x].fun]
  /\ UNCHANGED <<at, budget>>

\* stg_BLACKHOLE; a WHITEHOLE, and a queue that has just become an IND, are looked at again
EnterBlackHole(c) ==
  /\ Runs(c) /\ Me(c).enter # 0
  /\ LET x == Me(c).enter
         p == bh.clo[x].indirectee
     IN
     /\ bh.clo[x].info = "BLACKHOLE"
     /\ \/ p = Value /\ bh' = [bh EXCEPT !.tso[at[c].tso].enter = 0] /\ UNCHANGED at
        \/ p.is = "ap" /\ bh' = [bh EXCEPT !.tso[at[c].tso].enter = p.ap] /\ UNCHANGED at
        \/ /\ p.is = "tso" \/ (p = Queue /\ bh.clo[x].bq = "bq")
           /\ \E m \in Msgs :
                /\ ~InUse(bh, m) /\ \A n \in 1..(m - 1) : InUse(bh, n)
                /\ bh' = [bh EXCEPT !.msg[m] = [tso |-> at[c].tso, bh |-> x, revoked |-> FALSE]]
                /\ at' = [at EXCEPT ![c].pc = "message", ![c].msg = m]
  /\ UNCHANGED budget

----------------------------------------------------------------------------
(* messageBlackHole, called by the thread that entered the black hole or   *)
(* for a message in the inbox                                              *)

InThread(c) == at[c].tso # Nobody
NotBlockedAfterAll(c, h) ==
  IF InThread(c) THEN bh' = h /\ at' = [at EXCEPT ![c].pc = "run", ![c].msg = 0]
  ELSE bh' = WakeTso(h, c, h.msg[at[c].msg].tso) /\ at' = [at EXCEPT ![c] = Idle]
StaysBlocked(c, h) ==
  IF InThread(c)
  THEN /\ bh' = [h EXCEPT !.tso[at[c].tso].why = "BlackHole", !.tso[at[c].tso].msg = at[c].msg]
       /\ at' = [at EXCEPT ![c].pc = "pause", ![c].msg = 0, ![c].i = Len(Me(c).stack)]
  ELSE bh' = h /\ at' = [at EXCEPT ![c] = Idle]

OwnQueueOnly(c, owner) == FALSE
Elsewhere(c, owner) == bh.tso[owner].home # c

MessageBlackHole(c) ==
  /\ at[c].pc = "message"
  /\ LET m == at[c].msg
         x == bh.msg[m].bh
         p == bh.clo[x].indirectee
         Forward(owner) == StaysBlocked(c, Mail(bh, bh.tso[owner].home, BlackHoleMail(m)))
     IN
     \/ p.is \in {"value", "ap"} /\ NotBlockedAfterAll(c, bh)
     \/ p.is = "tso" /\ Elsewhere(c, p.tso) /\ Forward(p.tso)
     \/ /\ p.is = "tso" /\ ~Elsewhere(c, p.tso)
        /\ bh' = [bh EXCEPT !.clo[x].bq = "bq", !.clo[x].queue = <<m>>, !.clo[x].owner = p.tso]
        /\ Goto(c, "link")
     \/ /\ p = Queue /\ bh.clo[x].bq = "bq"
        /\ IF Elsewhere(c, bh.clo[x].owner) THEN Forward(bh.clo[x].owner)
           ELSE StaysBlocked(c, [bh EXCEPT !.clo[x].queue = <<m>> \o @])
  /\ UNCHANGED budget

\* point to the BLOCKING_QUEUE from the BLACKHOLE
LinkQueue(c) ==
  /\ at[c].pc = "link"
  /\ StaysBlocked(c, [bh EXCEPT !.clo[bh.msg[at[c].msg].bh].indirectee = Queue])
  /\ UNCHANGED budget

ExecuteMail(c) ==
  /\ at[c].pc = "sched"
  /\ \E mail \in BagToSet(bh.inbox[c]) :
       LET taken == [bh EXCEPT !.inbox[c] = BagRemove(@, mail)] IN
       CASE mail.type = "wakeup" -> bh' = WakeTso(taken, c, mail.of) /\ UNCHANGED at
         [] mail.type = "blackhole" ->
              /\ bh' = taken
              /\ IF bh.msg[mail.of].revoked THEN UNCHANGED at
                 ELSE at' = [at EXCEPT ![c] = [Idle EXCEPT !.pc = "message", !.msg = mail.of]]
  /\ UNCHANGED budget

----------------------------------------------------------------------------
(* The code of the top frame returns a value: stg_upd_frame,               *)
(* stg_marked_upd_frame                                                    *)

Pop(h, c) == [h EXCEPT !.tso[at[c].tso].stack = Front(@)]

\* updateWithIndirection writes the indirectee, then the header
UpdateUnmarked(c) ==
  /\ Code(c) /\ Me(c).stack # <<>> /\ ~Last(Me(c).stack).marked
  /\ LET x == Last(Me(c).stack).x IN
     /\ bh' = [Pop(bh, c) EXCEPT !.clo[x].indirectee = Value]
     /\ at' = [at EXCEPT ![c].pc = "info", ![c].x = x]
  /\ UNCHANGED budget

SetInfo(c) ==
  /\ at[c].pc = "info"
  /\ bh' = [bh EXCEPT !.clo[at[c].x].info = "BLACKHOLE"]
  /\ at' = [at EXCEPT ![c].pc = "run", ![c].x = 0]
  /\ UNCHANGED budget

UpdateMarked(c) ==
  /\ Code(c) /\ Me(c).stack # <<>> /\ Last(Me(c).stack).marked
  /\ LET x == Last(Me(c).stack).x
         v == bh.clo[x].indirectee
     IN IF v = Value THEN bh' = CheckBlockingQueues(Pop(bh, c), c, at[c].tso) /\ UNCHANGED at
        ELSE /\ bh' = Pop(bh, c)
             /\ at' = [at EXCEPT ![c].pc = IF v = Tso(at[c].tso) THEN "update" ELSE "thunk",
                                 ![c].x = x, ![c].v = v]
  /\ UNCHANGED budget

UpdateThunk(c) ==
  /\ at[c].pc = "thunk"
  /\ at' = [at EXCEPT ![c].pc = "update", ![c].v = bh.clo[at[c].x].indirectee]
  /\ UNCHANGED <<bh, budget>>

UpdateWithIndirection(c) ==
  /\ at[c].pc = "update"
  /\ bh' = [bh EXCEPT !.clo[at[c].x].indirectee = Value]
  /\ Goto(c, "updated")
  /\ UNCHANGED budget

Updated(c) ==
  /\ at[c].pc = "updated"
  /\ bh' = AfterUpdate(bh, c, at[c].tso, at[c].x, at[c].v)
  /\ at' = [at EXCEPT ![c].pc = "run", ![c].x = 0, ![c].v = Junk]
  /\ UNCHANGED budget

Finished(c) ==
  /\ Code(c) /\ Me(c).stack = <<>>
  /\ bh' = [bh EXCEPT !.tso[at[c].tso].done = TRUE]
  /\ at' = [at EXCEPT ![c] = Idle]
  /\ UNCHANGED budget

----------------------------------------------------------------------------
(* threadPaused: claim the thunks under evaluation, from the top frame     *)
(* down to the first that is marked already                                *)

Spend(what) == budget[what] > 0 /\ budget' = [budget EXCEPT ![what] = @ - 1]

Preempted(c) ==
  /\ Runs(c) /\ Me(c).stack # <<>> /\ Spend("preempt")
  /\ at' = [at EXCEPT ![c].pc = "pause", ![c].i = Len(Me(c).stack)]
  /\ UNCHANGED bh

PauseEnds(c) ==
  /\ at[c].pc = "pause" /\ (at[c].i # 0 => Me(c).stack[at[c].i].marked)
  /\ at' = [at EXCEPT ![c] = Idle]
  /\ UNCHANGED <<bh, budget>>

Frame(c) == Me(c).stack[at[c].i]
\* claimed or being claimed by another thread
SomebodyElses(c, x) == bh.clo[x].info \in {"WHITEHOLE", "BLACKHOLE"} /\ bh.clo[x].indirectee # Tso(at[c].tso)

Claim(c) ==
  /\ at[c].pc = "pause" /\ at[c].i # 0 /\ ~Frame(c).marked /\ ~SomebodyElses(c, Frame(c).x)
  /\ bh' = [bh EXCEPT !.tso[at[c].tso].stack[at[c].i].marked = TRUE, !.clo[Frame(c).x].info = "WHITEHOLE"]
  /\ Goto(c, "claim")
  /\ UNCHANGED budget

SetOwner(c) ==
  /\ at[c].pc = "claim"
  /\ bh' = [bh EXCEPT !.clo[Frame(c).x].indirectee = Tso(at[c].tso)]
  /\ Goto(c, "claimed")
  /\ UNCHANGED budget

SetBlackHole(c) ==
  /\ at[c].pc = "claimed"
  /\ bh' = [bh EXCEPT !.clo[Frame(c).x].info = "BLACKHOLE"]
  /\ at' = [at EXCEPT ![c].pc = "pause", ![c].i = @ - 1]
  /\ UNCHANGED budget

\* suspendComputation: duplicate work is frozen, and the thread will wait for the other one
Suspend(c) ==
  /\ at[c].pc = "pause" /\ at[c].i # 0 /\ ~Frame(c).marked /\ SomebodyElses(c, Frame(c).x)
  /\ CanFreeze(bh, at[c].tso, at[c].i)
  /\ LET suspended == RaiseAsyncTo(bh, c, at[c].tso, at[c].i)
     IN bh' = [suspended EXCEPT !.tso[at[c].tso].stack = SubSeq(@, 1, at[c].i - 1),
                                !.tso[at[c].tso].enter = Frame(c).x]
  /\ at' = [at EXCEPT ![c].i = @ - 1]
  /\ UNCHANGED budget

----------------------------------------------------------------------------
(* Exceptions that nobody catches, and migration *)

Killed(c) ==
  /\ Runs(c) /\ CanFreeze(bh, at[c].tso, 0) /\ Spend("kill")
  /\ bh' = [RaiseAsyncTo(bh, c, at[c].tso, 0) EXCEPT !.tso[at[c].tso].done = TRUE]
  /\ at' = [at EXCEPT ![c] = Idle]

\* throwToMsg; the message of a thread blocked on a black hole is overwritten with an IND
Kill(c, t) ==
  /\ at[c].pc = "sched" /\ bh.tso[t].home = c /\ bh.tso[t].why # "Migrating" /\ ~bh.tso[t].done
  /\ CanFreeze(bh, t, 0) /\ Spend("kill")
  /\ LET m == bh.tso[t].msg
         revoked == IF m = 0 THEN bh ELSE [bh EXCEPT !.msg[m].revoked = TRUE]
     IN bh' = [RaiseAsyncTo(revoked, c, t, 0) EXCEPT !.tso[t].done = TRUE]
  /\ UNCHANGED at

\* migrateThread, and schedulePushWork to a Capability that is idle
Move(c, d, t) ==
  /\ at[c].pc = "sched" /\ bh.tso[t].home = c /\ d # c
  /\ bh.tso[t].why = "NotBlocked" /\ ~bh.tso[t].done /\ Spend("move")
  /\ \/ bh' = Mail([bh EXCEPT !.tso[t].why = "Migrating", !.tso[t].home = d], d, TryWakeupMail(t))
     \/ at[d].pc = "sched" /\ bh' = [bh EXCEPT !.tso[t].home = d]
  /\ UNCHANGED at

----------------------------------------------------------------------------
BHStart(home, root) ==
  /\ bh = [tso |-> [t \in Tsos |-> [home |-> home[t], why |-> "NotBlocked", msg |-> 0, stack |-> <<>>,
                                    enter |-> root[t], done |-> FALSE]],
           clo |-> [x \in Closures |-> [info |-> IF x <= NThunks THEN "THUNK" ELSE "free", rank |-> x,
                                        indirectee |-> Junk, fun |-> 0,
                                        bq |-> "none", queue |-> <<>>, owner |-> Nobody]],
           msg |-> [m \in Msgs |-> [tso |-> Nobody, bh |-> 0, revoked |-> FALSE]],
           inbox |-> [c \in Caps |-> EmptyBag]]
  /\ at = [c \in Caps |-> Idle]

BHInit ==
  /\ \E home \in [Tsos -> Caps], root \in [Tsos -> 1..NThunks] : BHStart(home, root)
  /\ budget \in Budgets

BHStep(c) ==
  \/ \E t \in Tsos : Run(c, t) \/ Kill(c, t) \/ \E d \in Caps : Move(c, d, t)
  \/ \E x \in Closures : Need(c, x)
  \/ EnterThunk(c) \/ EnterBlackHole(c) \/ MessageBlackHole(c) \/ LinkQueue(c) \/ ExecuteMail(c)
  \/ UpdateUnmarked(c) \/ SetInfo(c) \/ UpdateMarked(c) \/ UpdateThunk(c)
  \/ UpdateWithIndirection(c) \/ Updated(c) \/ Finished(c)
  \/ Preempted(c) \/ PauseEnds(c) \/ Claim(c) \/ SetOwner(c) \/ SetBlackHole(c) \/ Suspend(c)
  \/ Killed(c)

BHNext == \E c \in Caps : BHStep(c)
BHSpec == BHInit /\ [][BHNext]_bhVars

----------------------------------------------------------------------------
(* Properties *)

\* A thread that has claimed x will update it, or is doing so.
Evaluates(t, x) ==
  \/ \E i \in DOMAIN bh.tso[t].stack : bh.tso[t].stack[i] = [x |-> x, marked |-> TRUE]
  \/ \E c \in Caps : at[c].tso = t /\ at[c].x = x /\ at[c].pc \in {"thunk", "update", "updated"}

(* A black hole that is not updated has an owner that will update it:      *)
(* whoever enters it and waits does not wait for nobody, whichever of two   *)
(* evaluators is suspended, killed or overtaken by the other.              *)
BlackHolesOwned ==
  \A x \in Closures : LET p == bh.clo[x].indirectee IN
    /\ p.is = "tso" => Evaluates(p.tso, x)
    /\ p = Queue => Evaluates(bh.clo[x].owner, x)

(* A thread that waits has its message under way, or in a queue that its   *)
(* owner will wake: the one that the thunk refers to, or one that the       *)
(* owner will find orphaned.                                               *)
WaitersKept ==
  \A t \in Tsos : LET m == bh.tso[t].msg IN
    bh.tso[t].why = "BlackHole" =>
      \/ \E c \in Caps : \/ BagIn(TryWakeupMail(t), bh.inbox[c]) \/ BagIn(BlackHoleMail(m), bh.inbox[c])
                         \/ at[c].msg = m
      \/ LET x == bh.msg[m].bh IN Contains(bh.clo[x].queue, m) /\ Evaluates(bh.clo[x].owner, x)

\* Every Capability is idle, with no message left and nothing to run.
Quiet ==
  /\ \A c \in Caps : at[c].pc = "sched" /\ bh.inbox[c] = EmptyBag
  /\ \A t \in Tsos : bh.tso[t].why = "NotBlocked" => bh.tso[t].done

(* "the current thread will become deadlocked on itself" (#5226), or on     *)
(* others: nobody waits in vain, and when all is quiet, all threads are     *)
(* done.  No wake-up is lost and no threads wait for each other, though     *)
(* each may evaluate what the other waits for.                             *)
NobodyWaitsInVain == WaitersKept /\ (Quiet => \A t \in Tsos : bh.tso[t].done)
=============================================================================
