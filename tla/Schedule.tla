------------------------------- MODULE Schedule -------------------------------
(***************************************************************************)
(* The scheduler loop of kernel/rts/Schedule.c over Capability.tla: how a  *)
(* Task that owns a Capability finds and runs a Haskell thread, gives the  *)
(* Capability up, shares its run queue, makes a safe foreign call, wakes a *)
(* thread of another Capability by message, and stops every other Task to  *)
(* collect garbage or to fork.                                             *)
(*                                                                         *)
(* The run queue and the locals of a Task belong to the owner, so a stretch*)
(* of the loop that touches nothing else is one step.  Running a Haskell   *)
(* thread is one step per thing it may do that the runtime sees.           *)
(***************************************************************************)
EXTENDS Capability, SequencesExt

CONSTANTS Locked,      \* unbound threads made by forkOn, which stay put
          CallKinds,   \* what call-ins do: "eval", "gc", "fork"
          ThreadKinds  \* what threads do: "yield", "block", "call", "gc", "fork",
                       \* "again": wake a thread that has been woken already

ASSUME ScheduleAssumption ==
    /\ Locked \subseteq Unbound
    /\ CallKinds \subseteq {"eval", "gc", "fork"}
    /\ ThreadKinds \subseteq {"yield", "block", "call", "gc", "fork", "again"}

VARIABLES
    cur,       \* the thread a Task runs, or suspended for a foreign call
    tst,       \* each thread: "none", "live", or its why_blocked
    tsoCap,    \* tso->cap
    scan,      \* the Capability a loop over all of them has come to
    grabbed,   \* free_caps[] of schedulePushWork
    deal,      \* the locals of its loop over the run queue (NewDeal)
    msgs,      \* the messages scheduleProcessInbox has taken
    after,     \* where scheduleDoGC returns to
    kind       \* what a Task entered Haskell for

threadVars == <<cur, tst, tsoCap>>
loopVars   == <<scan, grabbed, deal, msgs, after, kind>>
queueVars  == <<runq, inbox>>
vars == <<capVars, runq, inbox, suspended, pendingSync, lastFree, taskVars, bound,
          threadVars, loopVars>>

NoThread == NoTask

(* Where a deal begins: at the second thread of the run queue, with the    *)
(* first grabbed Capability, and no thread under way.                      *)
NewDeal == [pos |-> 2, turn |-> 0, moved |-> <<>>]

Init ==
    /\ CapabilityInit
    /\ cur = [t \in Tasks |-> NoThread]
    /\ tst = [th \in Threads |-> "none"]
    /\ tsoCap = [th \in Threads |-> 0]
    /\ scan = [t \in Tasks |-> 0]
    /\ grabbed = [t \in Tasks |-> <<>>]
    /\ deal = [t \in Tasks |-> NewDeal]
    /\ msgs = [t \in Tasks |-> <<>>]
    /\ after = [t \in Tasks |-> "sched"]
    /\ kind = [t \in Tasks |-> IF t \in Callers THEN "none" ELSE "eval"]

At(t, p) == pc[t] = p
Step(t, p) == pc' = Goto(t, p)

(* scheduleDoGC begins, and will return to p. *)
DoGC(t, p) ==
    /\ Step(t, "sync")
    /\ after' = [after EXCEPT ![t] = p]

-------------------------------------------------------------------------------
(* Entering and leaving: rts_lock, scheduleWaitThread, rts_unlock.         *)

(* newBoundTask, then the unlocked search of waitForReturnCapability: the  *)
(* last Capability known to be free, or any that a look at its             *)
(* running_task finds free.                                                *)
Enter(t, k) ==
    /\ At(t, "out")
    /\ \E c \in {lastFree} \cup {d \in Caps : Free(d)} :
         /\ tcap' = [tcap EXCEPT ![t] = c]
         /\ cap' = [cap EXCEPT ![t] = c]
         /\ want' = [want EXCEPT ![t] = c]
    /\ call' = [call EXCEPT ![t] = "enter"]
    /\ kind' = [kind EXCEPT ![t] = k]
    /\ Step(t, "return_lock")
    /\ UNCHANGED <<capVars, queueVars, suspended, pendingSync, lastFree, wakeup,
                   bound, threadVars, scan, grabbed, deal, msgs, after>>

(* The call-in owns a Capability: its thread starts, or the collection or  *)
(* the fork it asked for.                                                  *)
StartCall(t) ==
    /\ At(t, "entered")
    /\ \/ /\ kind[t] = "eval"
          /\ bound' = [bound EXCEPT ![t] = TRUE]
          /\ runq' = [runq EXCEPT ![cap[t]] = Append(@, t)]
          /\ tst' = [tst EXCEPT ![t] = "live"]
          /\ tsoCap' = [tsoCap EXCEPT ![t] = cap[t]]
          /\ Step(t, "sched")
          /\ UNCHANGED after
       \/ /\ kind[t] # "eval"
          /\ DoGC(t, "leave")
          /\ UNCHANGED <<bound, runq, tst, tsoCap>>
    /\ call' = [call EXCEPT ![t] = "none"]
    /\ UNCHANGED <<capVars, inbox, suspended, pendingSync, lastFree, tcap, wakeup,
                   cap, want, cur, scan, grabbed, deal, msgs, kind>>

(* The Task is back in the program; its locals mean nothing any more. *)
Outside(t) ==
    [Now EXCEPT !.pc[t] = "out", !.tcap[t] = 0, !.cap[t] = 0, !.want[t] = 0]

(* releaseCapability_ and boundTaskExiting, under cap->lock. *)
Leave(t) ==
    /\ At(t, "leave")
    /\ Release(cap[t], As(cap[t]), Outside(t))
    /\ kind' = [kind EXCEPT ![t] = "none"]
    /\ UNCHANGED <<returning, spare, queueVars, suspended, pendingSync, bound, call,
                   threadVars, scan, grabbed, deal, msgs, after>>

-------------------------------------------------------------------------------
(* The loop: scheduleFindWork, schedulePushWork, scheduleYield.            *)

(* scheduleProcessInbox: take the whole inbox.  When the nursery is full a *)
(* collection comes first.                                                 *)
TakeInbox(t) ==
    /\ At(t, "sched")
    /\ inbox[cap[t]] # <<>>
    /\ \/ /\ inbox' = [inbox EXCEPT ![cap[t]] = <<>>]
          /\ msgs' = [msgs EXCEPT ![t] = inbox[cap[t]]]
          /\ Step(t, "inbox")
          /\ UNCHANGED after
       \/ /\ "gc" \in ThreadKinds
          /\ DoGC(t, "sched")
          /\ UNCHANGED <<inbox, msgs>>
    /\ UNCHANGED <<capVars, runq, suspended, pendingSync, lastFree, tcap, wakeup, cap,
                   want, call, bound, threadVars, scan, grabbed, deal, kind>>

(* sendMessage.  A free Capability is taken for the instant it takes to    *)
(* release it again, so that somebody is woken; its inbox is not empty.    *)
SendMessage(d, th) ==
    /\ inbox' = [inbox EXCEPT ![d] = <<th>> \o @]
    /\ \/ Free(d) /\ Release(d, [As(d) EXCEPT !.inbox = <<th>> \o @], Now)
       \/ ~Free(d) /\ UNCHANGED <<running, lastFree, tcap, wakeup, pc, cap, want>>

AppendTo(c, th) ==
    /\ runq' = [runq EXCEPT ![c] = Append(@, th)]
    /\ UNCHANGED <<inbox, running, lastFree, tcap, wakeup, pc, cap, want>>

(* tryWakeupThread by the owner of c: a message to the Capability the      *)
(* thread belongs to, or the run queue, or nothing when it is not blocked. *)
WakesEvenLive(th) == TRUE                                \* mutant: not idempotent
Wakes(th) == tst[th] \in {"blocked", "migrating"}

TryWakeup(c, th) ==
    \/ /\ tsoCap[th] # c
       /\ SendMessage(tsoCap[th], th)
       /\ UNCHANGED <<runq, tst>>
    \/ /\ tsoCap[th] = c /\ Wakes(th)
       /\ AppendTo(c, th)
       /\ tst' = [tst EXCEPT ![th] = "live"]
    \/ /\ tsoCap[th] = c /\ ~Wakes(th)
       /\ UNCHANGED <<runq, inbox, tst, running, lastFree, tcap, wakeup, pc, cap, want>>

(* executeMessage on each, and back to look at the inbox again. *)
ExecuteMessage(t) ==
    /\ At(t, "inbox") /\ msgs[t] # <<>>
    /\ TryWakeup(cap[t], Head(msgs[t]))
    /\ msgs' = [msgs EXCEPT ![t] = Tail(@)]
    /\ UNCHANGED <<returning, spare, suspended, pendingSync, call, bound, cur, tsoCap,
                   scan, grabbed, deal, after, kind>>

InboxDone(t) ==
    /\ At(t, "inbox") /\ msgs[t] = <<>>
    /\ Step(t, "sched")
    /\ UNCHANGED <<capVars, queueVars, suspended, pendingSync, lastFree, tcap, wakeup, cap,
                   want, call, bound, threadVars, loopVars>>

(* The inbox is empty, or another Task is holding cap->lock just now.      *)
(* schedulePushWork has something to share when two threads are queued.    *)
FindWorkDone(t) ==
    /\ At(t, "sched")
    /\ Step(t, IF Len(runq[cap[t]]) >= 2 THEN "push" ELSE "detect")
    /\ scan' = [scan EXCEPT ![t] = 0]
    /\ UNCHANGED <<capVars, queueVars, suspended, pendingSync, lastFree, tcap, wakeup,
                   cap, want, call, bound, threadVars, grabbed, deal, msgs, after, kind>>

(* On to the next Capability of the loop, or past the end of it.           *)
Advance(t) == scan' = [scan EXCEPT ![t] = IF @ + 1 < NCaps THEN @ + 1 ELSE 0]

AfterScanShort(t, again, done) ==                        \* mutant: one too few
    IF scan[t] + 2 < NCaps THEN again ELSE done
AfterScan(t, again, done) == IF scan[t] + 1 < NCaps THEN again ELSE done

(* tryGrabCapability on each of the others. *)
PushGrab(t) ==
    /\ At(t, "push")
    /\ LET d == scan[t] IN
       \/ /\ d # cap[t] /\ Free(d)
          /\ running' = [running EXCEPT ![d] = t]
          /\ tcap' = [tcap EXCEPT ![t] = d]
          /\ Step(t, "push_look")
          /\ UNCHANGED scan
       \/ /\ d = cap[t] \/ ~Free(d)
          /\ Advance(t)
          /\ Step(t, AfterScan(t, "push", "push_share"))
          /\ UNCHANGED <<running, tcap>>
    /\ UNCHANGED <<returning, spare, queueVars, suspended, pendingSync, lastFree, wakeup,
                   cap, want, call, bound, threadVars, grabbed, deal, msgs, after, kind>>

(* A Capability with work of its own was grabbed at the wrong moment.      *)
PushLook(t) ==
    /\ At(t, "push_look")
    /\ LET d == scan[t]
           next == [Now EXCEPT !.pc[t] = AfterScan(t, "push", "push_share")]
           busy == runq[d] # <<>> \/ returning[d] # <<>> \/ inbox[d] # <<>>
       IN
       \/ /\ busy
          /\ Release(d, As(d), next)
          /\ UNCHANGED grabbed
       \/ /\ ~busy
          /\ grabbed' = [grabbed EXCEPT ![t] = Append(@, d)]
          /\ Set(next)
          /\ UNCHANGED <<running, lastFree>>
    /\ Advance(t)
    /\ UNCHANGED <<returning, spare, queueVars, suspended, pendingSync, call,
                   bound, threadVars, deal, msgs, after, kind>>

(* The threads behind the first are dealt out in turn: one to each grabbed *)
(* Capability, then one kept.  The Task's own bound thread and the locked  *)
(* threads stay.                                                           *)
Stays(t, th) == th = t \/ th \in Locked
ToDeal(t) == grabbed[t] # <<>> /\ deal[t].pos <= Len(runq[cap[t]])
Dealt(t) == runq[cap[t]][deal[t].pos]
Goes(t) == ~Stays(t, Dealt(t)) /\ deal[t].turn < Len(grabbed[t])

(* Queued again behind the one before it; the turns begin anew when this   *)
(* one is kept for us.                                                     *)
PushKeep(t) ==
    /\ At(t, "push_share") /\ ToDeal(t) /\ ~Goes(t)
    /\ deal' = [deal EXCEPT ![t].pos = @ + 1,
                           ![t].turn = IF Stays(t, Dealt(t)) THEN @ ELSE 0]
    /\ UNCHANGED <<capVars, queueVars, suspended, pendingSync, lastFree, taskVars, bound,
                   threadVars, scan, grabbed, msgs, after, kind>>

(* appendToRunQueue, which only owners see, and t->bound->task->cap, which *)
(* is set without task->lock while that Task may be waking up.             *)
TaskStays(th, d) == tcap                                 \* mutant: task->cap not set
TaskFollows(th, d) == IF th \in Callers THEN [tcap EXCEPT ![th] = d] ELSE tcap

PushGive(t) ==
    /\ At(t, "push_share") /\ ToDeal(t) /\ Goes(t)
    /\ LET th == Dealt(t)
           d  == grabbed[t][deal[t].turn + 1]
       IN
       /\ runq' = [runq EXCEPT ![cap[t]] = RemoveAt(@, deal[t].pos), ![d] = Append(@, th)]
       /\ tcap' = TaskFollows(th, d)
       /\ deal' = [deal EXCEPT ![t].moved = <<th, d>>]
    /\ Step(t, "push_home")
    /\ UNCHANGED <<capVars, inbox, suspended, pendingSync, lastFree, wakeup, cap, want,
                   call, bound, threadVars, scan, grabbed, msgs, after, kind>>

(* t->cap follows, in a second assignment.  Until then wake-ups for the    *)
(* thread go to the Capability it has left.                                *)
PushHome(t) ==
    /\ At(t, "push_home")
    /\ tsoCap' = [tsoCap EXCEPT ![deal[t].moved[1]] = deal[t].moved[2]]
    /\ deal' = [deal EXCEPT ![t].turn = @ + 1, ![t].moved = <<>>]
    /\ Step(t, "push_share")
    /\ UNCHANGED <<capVars, queueVars, suspended, pendingSync, lastFree, tcap, wakeup, cap,
                   want, call, bound, cur, tst, scan, grabbed, msgs, after, kind>>

PushDone(t) ==
    /\ At(t, "push_share") /\ ~ToDeal(t)
    /\ deal' = [deal EXCEPT ![t] = NewDeal]
    /\ \/ /\ grabbed[t] # <<>>
          /\ Step(t, "push_release")
          /\ UNCHANGED tcap
       \/ /\ grabbed[t] = <<>>
          /\ tcap' = [tcap EXCEPT ![t] = cap[t]]
          /\ Step(t, "detect")
    /\ UNCHANGED <<capVars, queueVars, suspended, pendingSync, lastFree, wakeup, cap, want,
                   call, bound, threadVars, scan, grabbed, msgs, after, kind>>

(* releaseAndWakeupCapability on each grabbed one. *)
PushRelease(t) ==
    /\ At(t, "push_release")
    /\ LET d == Head(grabbed[t])
           last == Len(grabbed[t]) = 1
       IN Release(d, [As(d) EXCEPT !.always = TRUE],
                  [Now EXCEPT !.tcap[t] = IF last THEN cap[t] ELSE d,
                              !.pc[t] = IF last THEN "detect" ELSE "push_release"])
    /\ grabbed' = [grabbed EXCEPT ![t] = Tail(@)]
    /\ UNCHANGED <<returning, spare, queueVars, suspended, pendingSync, call,
                   bound, threadVars, scan, deal, msgs, after, kind>>

(* The next thread of the queue is not one this Task can run.              *)
WrongThread(t) ==
    /\ runq[cap[t]] # <<>>
    /\ IF bound[t] THEN Head(runq[cap[t]]) # t ELSE BoundHead(runq[cap[t]])

YieldToNobody(t) == WrongThread(t)                       \* mutant: two cases dropped
ShouldYield(t) ==
    \/ pendingSync # "none"
    \/ returning[cap[t]] # <<>>
    \/ WrongThread(t)

YieldFor(t, reason) ==
    /\ call' = [call EXCEPT ![t] = reason]
    /\ Step(t, "yield")

(* popRunQueue; a thread this Task cannot run goes back to the front.      *)
Pick(t) ==
    LET c == cap[t] IN
    IF runq[c] = <<>> \/ WrongThread(t)
      THEN Step(t, "sched") /\ UNCHANGED <<runq, cur>>
      ELSE /\ cur' = [cur EXCEPT ![t] = Head(runq[c])]
           /\ runq' = [runq EXCEPT ![c] = Tail(@)]
           /\ Step(t, "run")

(* scheduleDetectDeadlock does nothing; scheduleYield goes on if nobody    *)
(* needs the Capability and there is work.                                 *)
Decide(t) ==
    /\ pc[t] \in {"detect", "decide"}
    /\ LET goOn == ~ShouldYield(t) /\ (runq[cap[t]] # <<>> \/ inbox[cap[t]] # <<>>) IN
       \/ goOn /\ Pick(t) /\ UNCHANGED call
       \/ ~goOn /\ YieldFor(t, "sched") /\ UNCHANGED <<runq, cur>>
    /\ UNCHANGED <<capVars, inbox, suspended, pendingSync, lastFree, tcap, wakeup, cap,
                   want, bound, tst, tsoCap, loopVars>>

(* Awake with a Capability again: yield once more, or go on.               *)
YieldedSched(t) ==
    /\ At(t, "yielded") /\ call[t] = "sched"
    /\ \/ /\ ShouldYield(t)
          /\ Step(t, "yield")
          /\ UNCHANGED <<call, runq, cur>>
       \/ /\ ~ShouldYield(t)
          /\ Pick(t)
          /\ call' = [call EXCEPT ![t] = "none"]
    /\ UNCHANGED <<capVars, inbox, suspended, pendingSync, lastFree, tcap, wakeup, cap,
                   want, bound, tst, tsoCap, loopVars>>

-------------------------------------------------------------------------------
(* Running a thread: schedule() after run_thread, by what the thread       *)
(* returns with, and what Haskell code asks of the runtime meanwhile.      *)

Running(t) == At(t, "run")

(* A wake-up for the thread is on its way already. *)
Woken(th) == (\E c \in Caps : Contains(inbox[c], th)) \/ (\E u \in Tasks : Contains(msgs[u], th))

(* ThreadYielding: to the back of the queue after a timer tick, to the     *)
(* front after an interrupt.  A thread out of heap is put back the same    *)
(* way, and the Task goes on to collect.                                   *)
PutBack(t) ==
    /\ \E back \in BOOLEAN :
         runq' = [runq EXCEPT ![cap[t]] = IF back THEN Append(@, cur[t]) ELSE <<cur[t]>> \o @]
    /\ cur' = [cur EXCEPT ![t] = NoThread]
    /\ UNCHANGED <<capVars, inbox, suspended, pendingSync, lastFree, tcap, wakeup, cap,
                   want, call, bound, tst, tsoCap, scan, grabbed, deal, msgs, kind>>

(* scheduleDetectDeadlock: nothing to run, and no activity for a whole     *)
(* timeslice.                                                              *)
IdleGC(t) ==
    /\ At(t, "detect") /\ "gc" \in ThreadKinds
    /\ runq[cap[t]] = <<>>
    /\ DoGC(t, "decide")
    /\ UNCHANGED <<capVars, queueVars, suspended, pendingSync, lastFree, tcap, wakeup, cap,
                   want, call, bound, threadVars, scan, grabbed, deal, msgs, kind>>

ThreadYields(t) == Running(t) /\ PutBack(t) /\ Step(t, "sched") /\ UNCHANGED after
HeapOverflows(t) == Running(t) /\ PutBack(t) /\ DoGC(t, "sched")

(* ThreadBlocked: the thread is on some other queue already. *)
ThreadBlocks(t) ==
    /\ Running(t)
    /\ tst' = [tst EXCEPT ![cur[t]] = "blocked"]
    /\ cur' = [cur EXCEPT ![t] = NoThread]
    /\ Step(t, "sched")
    /\ UNCHANGED <<capVars, queueVars, suspended, pendingSync, lastFree, tcap, wakeup,
                   cap, want, call, bound, tsoCap, loopVars>>

(* scheduleHandleThreadFinished: a bound thread lets its Task go. *)
ThreadFinishes(t) ==
    /\ Running(t)
    /\ tst' = [tst EXCEPT ![cur[t]] = "none"]
    /\ tsoCap' = [tsoCap EXCEPT ![cur[t]] = 0]
    /\ cur' = [cur EXCEPT ![t] = NoThread]
    /\ bound' = [bound EXCEPT ![t] = FALSE]
    /\ Step(t, IF cur[t] = t THEN "leave" ELSE "sched")
    /\ UNCHANGED <<capVars, queueVars, suspended, pendingSync, lastFree, tcap, wakeup,
                   cap, want, call, loopVars>>

(* suspendThread, and resumeThread as far as its wait. *)
SafeCall(t) ==
    /\ Running(t)
    /\ suspended' = [suspended EXCEPT ![cap[t]] = @ \cup {t}]
    /\ Release(cap[t], As(cap[t]), [Now EXCEPT !.pc[t] = "calling"])
    /\ UNCHANGED <<returning, spare, queueVars, pendingSync, call, bound,
                   threadVars, loopVars>>

(* It comes back to the Capability it left. *)
ReturnToFree(t) == lastFree                              \* mutant: as a new call-in does
ReturnTo(t) == cap[t]

CallReturns(t) ==
    /\ At(t, "calling")
    /\ tcap' = [tcap EXCEPT ![t] = ReturnTo(t)]
    /\ cap' = [cap EXCEPT ![t] = ReturnTo(t)]
    /\ want' = [want EXCEPT ![t] = ReturnTo(t)]
    /\ call' = [call EXCEPT ![t] = "resume"]
    /\ Step(t, "return_lock")
    /\ UNCHANGED <<capVars, queueVars, suspended, pendingSync, lastFree, wakeup,
                   bound, threadVars, loopVars>>

(* recoverSuspendedTask. *)
CallRecovered(t) ==
    /\ At(t, "resumed")
    /\ suspended' = [suspended EXCEPT ![cap[t]] = @ \ {t}]
    /\ call' = [call EXCEPT ![t] = "none"]
    /\ Step(t, "run")
    /\ UNCHANGED <<capVars, queueVars, pendingSync, lastFree, tcap, wakeup, cap, want,
                   bound, threadVars, loopVars>>

(* A thread wakes another one, or one that is awake already.  Bound: one   *)
(* wake-up for a thread is under way at a time.                            *)
Wake(t, th) ==
    /\ Running(t) /\ th # cur[t] /\ ~Woken(th)
    /\ \/ tst[th] = "blocked"
       \/ "again" \in ThreadKinds /\ tst[th] = "live" /\ tsoCap[th] # cap[t]
    /\ TryWakeup(cap[t], th)
    /\ UNCHANGED <<returning, spare, suspended, pendingSync, call, bound, cur, tsoCap, loopVars>>

(* forkIO, and forkOn with migrateThread for another Capability. *)
Fork(t, th, d) ==
    /\ Running(t) /\ tst[th] = "none"
    /\ th \in Locked \/ d = cap[t]
    /\ tsoCap' = [tsoCap EXCEPT ![th] = d]
    /\ \/ /\ d = cap[t]
          /\ AppendTo(d, th)
          /\ tst' = [tst EXCEPT ![th] = "live"]
       \/ /\ d # cap[t]
          /\ SendMessage(d, th)
          /\ tst' = [tst EXCEPT ![th] = "migrating"]
          /\ UNCHANGED runq
    /\ UNCHANGED <<returning, spare, suspended, pendingSync, call, bound, cur,
                   loopVars>>

-------------------------------------------------------------------------------
(* Stopping every other Task: requestSync, acquireAllCapabilities, the     *)
(* collection or the fork, releaseAllCapabilities.                         *)

SyncType(t) == IF kind[t] = "fork" THEN "other" ELSE "seq"

(* cas(&pending_sync, 0, sync_type); interruptAllCapabilities makes the    *)
(* others return to the scheduler, which they may do at any time here.     *)
RequestSync(t) ==
    /\ At(t, "sync")
    /\ \/ /\ pendingSync = "none"
          /\ pendingSync' = SyncType(t)
          /\ scan' = [scan EXCEPT ![t] = 0]
          /\ Step(t, "acquire")
          /\ UNCHANGED call
       \/ /\ pendingSync # "none"
          /\ YieldFor(t, pendingSync)
          /\ UNCHANGED <<pendingSync, scan>>
    /\ UNCHANGED <<capVars, queueVars, suspended, lastFree, tcap, wakeup, cap, want,
                   bound, threadVars, grabbed, deal, msgs, after, kind>>

(* Yielding to the other synchronisation until it is over.  If that was a  *)
(* collection, scheduleDoGC need not do another; otherwise, and for a      *)
(* fork, ask again.                                                        *)
YieldedSync(t) ==
    /\ At(t, "yielded") /\ call[t] # "sched"
    /\ LET collected == call[t] = "seq" /\ SyncType(t) = "seq" IN
       \/ /\ pendingSync # "none"
          /\ Step(t, "yield")
          /\ UNCHANGED <<call, after>>
       \/ /\ pendingSync = "none" /\ collected
          /\ Step(t, after[t])
          /\ after' = [after EXCEPT ![t] = "sched"]
          /\ call' = [call EXCEPT ![t] = "none"]
       \/ /\ pendingSync = "none" /\ ~collected
          /\ Step(t, "sync")
          /\ call' = [call EXCEPT ![t] = "none"]
          /\ UNCHANGED after
    /\ UNCHANGED <<capVars, queueVars, suspended, pendingSync, lastFree, tcap, wakeup,
                   cap, want, bound, threadVars, scan, grabbed, deal, msgs, kind>>

(* The loop of acquireAllCapabilities, through waitForReturnCapability.    *)
Acquire(t) ==
    /\ At(t, "acquire")
    /\ LET d == scan[t] IN
       \/ /\ d # cap[t]
          /\ tcap' = [tcap EXCEPT ![t] = d]
          /\ want' = [want EXCEPT ![t] = d]
          /\ call' = [call EXCEPT ![t] = "acquire"]
          /\ Step(t, "return_lock")
          /\ UNCHANGED scan
       \/ /\ d = cap[t]
          /\ Advance(t)
          /\ Step(t, AfterScan(t, "acquire", "stopped"))
          /\ UNCHANGED <<tcap, want, call>>
    /\ UNCHANGED <<capVars, queueVars, suspended, pendingSync, lastFree, wakeup, cap,
                   bound, threadVars, grabbed, deal, msgs, after, kind>>

Acquired(t) ==
    /\ At(t, "acquired")
    /\ want' = [want EXCEPT ![t] = cap[t]]
    /\ call' = [call EXCEPT ![t] = "none"]
    /\ Advance(t)
    /\ Step(t, AfterScan(t, "acquire", "stopped"))
    /\ UNCHANGED <<capVars, queueVars, suspended, pendingSync, lastFree, tcap, wakeup,
                   cap, bound, threadVars, grabbed, deal, msgs, after, kind>>

(* Every Capability is held.  pending_sync is reset before the collection  *)
(* and before the fork.                                                    *)
Collect(t) ==
    /\ At(t, "stopped")
    /\ pendingSync' = "none"
    /\ tcap' = [tcap EXCEPT ![t] = cap[t]]
    /\ Step(t, "release_all")
    /\ UNCHANGED <<capVars, queueVars, suspended, lastFree, wakeup, cap, want, call,
                   bound, threadVars, loopVars>>

(* releaseAllCapabilities keeps the Task's own Capability.  The parent of  *)
(* a fork releases that one too, and its call is over.                     *)
ReleaseAll(t) ==
    /\ At(t, "release_all")
    /\ LET d == scan[t]
           last == d + 1 = NCaps
           forked == kind[t] = "fork"
           next == IF last THEN after[t] ELSE "release_all"
           home == IF last THEN cap[t] ELSE d
       IN
       /\ \/ /\ ~forked /\ d # cap[t]
             /\ Release(d, As(d), [Now EXCEPT !.pc[t] = next, !.tcap[t] = home])
          \/ /\ ~forked /\ d = cap[t]
             /\ Set([Now EXCEPT !.pc[t] = next, !.tcap[t] = IF last THEN cap[t] ELSE @])
             /\ UNCHANGED <<running, lastFree>>
          \/ /\ forked
             /\ Release(d, As(d), IF last THEN Outside(t) ELSE Now)
       /\ after' = IF last THEN [after EXCEPT ![t] = "sched"] ELSE after
       /\ kind' = IF last /\ forked THEN [kind EXCEPT ![t] = "none"] ELSE kind
    /\ Advance(t)
    /\ UNCHANGED <<returning, spare, queueVars, suspended, pendingSync, call,
                   bound, threadVars, grabbed, deal, msgs>>

-------------------------------------------------------------------------------
Wait(t) ==
    /\ WaitReturnLock(t) \/ WaitWake(t) \/ WaitReturnCheck(t) \/ Yield(t) \/ YieldCheck(t)
    /\ UNCHANGED <<threadVars, loopVars>>

Loop(t) ==
    \/ StartCall(t) \/ Leave(t)
    \/ TakeInbox(t) \/ ExecuteMessage(t) \/ InboxDone(t) \/ FindWorkDone(t)
    \/ PushGrab(t) \/ PushLook(t) \/ PushKeep(t) \/ PushGive(t) \/ PushHome(t)
    \/ PushDone(t) \/ PushRelease(t)
    \/ IdleGC(t) \/ Decide(t) \/ YieldedSched(t)
    \/ CallRecovered(t)
    \/ RequestSync(t) \/ YieldedSync(t) \/ Acquire(t) \/ Acquired(t)
    \/ Collect(t) \/ ReleaseAll(t)

ThreadStops(t) ==
    \/ ThreadFinishes(t)
    \/ "yield" \in ThreadKinds /\ ThreadYields(t)
    \/ "block" \in ThreadKinds /\ ThreadBlocks(t)
    \/ "gc" \in ThreadKinds /\ HeapOverflows(t)

ThreadActs(t) ==
    \/ ThreadStops(t)
    \/ "call" \in ThreadKinds /\ SafeCall(t)
    \/ \E th \in Threads : Wake(t, th)
    \/ "fork" \in ThreadKinds /\ \E th \in Unbound, d \in Caps : Fork(t, th, d)

Next == \E t \in Tasks :
    \/ \E k \in CallKinds : Enter(t, k)
    \/ Wait(t) \/ Loop(t) \/ ThreadActs(t) \/ CallReturns(t)

Spec == Init /\ [][Next]_vars

(* The system schedules every OS thread, and the timer, or the interrupt   *)
(* of a Task that wants to collect, brings every Haskell thread back to    *)
(* the scheduler.  Nothing makes a foreign call return, a blocked thread   *)
(* wake up or the program call in.                                         *)
FairSpec ==
    /\ Spec
    /\ \A t \in Tasks : WF_vars(Wait(t) \/ Loop(t)) /\ WF_vars(ThreadStops(t))

-------------------------------------------------------------------------------
(* Every variable keeps its range.  In particular no loop over the         *)
(* Capabilities runs past the last.                                        *)
TypeOK ==
    /\ running \in [Caps -> Tasks \cup {NoTask}]
    /\ returning \in [Caps -> Seq(Tasks)] /\ spare \in [Caps -> Seq(Tasks)]
    /\ runq \in [Caps -> Seq(Threads)] /\ inbox \in [Caps -> Seq(Threads)]
    /\ suspended \in [Caps -> SUBSET Tasks]
    /\ pendingSync \in {"none", "seq", "other"} /\ lastFree \in Caps
    /\ tcap \in [Tasks -> Caps] /\ cap \in [Tasks -> Caps] /\ want \in [Tasks -> Caps]
    /\ wakeup \in [Tasks -> BOOLEAN] /\ bound \in [Tasks -> BOOLEAN]
    /\ cur \in [Tasks -> Threads \cup {NoThread}]
    /\ tst \in [Threads -> {"none", "live", "blocked", "migrating"}]
    /\ tsoCap \in [Threads -> Caps]
    /\ scan \in [Tasks -> Caps]
    /\ grabbed \in [Tasks -> Seq(Caps)] /\ msgs \in [Tasks -> Seq(Threads)]
    /\ deal \in [Tasks -> [pos : Nat \ {0}, turn : Nat, moved : {<<>>} \cup (Threads \X Caps)]]

(* The Capabilities the code of a Task takes itself to hold where it is.   *)
HoldsOwn == {"entered", "resumed", "run", "leave", "sched", "inbox", "push", "push_look",
             "push_share", "push_home", "push_release", "detect", "decide", "yield", "yielded", "sync", "acquire",
             "acquired", "stopped"}
Acquiring(t) == call[t] = "acquire" /\ pc[t] \in {"return_lock", "return_wait", "return_check"}

Holding(t) ==
    {c \in Caps :
        \/ c = cap[t] /\ (pc[t] \in HoldsOwn \/ Acquiring(t))
        \/ Contains(grabbed[t], c)
        \/ pc[t] = "push_look" /\ c = scan[t]
        \/ (pc[t] \in {"acquire", "acquired"} \/ Acquiring(t)) /\ c < scan[t]
        \/ pc[t] = "acquired" /\ c = scan[t]
        \/ pc[t] = "stopped"
        \/ pc[t] = "release_all" /\ (c >= scan[t] \/ (c = cap[t] /\ kind[t] # "fork"))}

(* A Capability's running_task is the one Task whose code acts as its      *)
(* owner: nobody touches a run queue, a nursery or a suspended_ccalls list *)
(* without owning it, no Capability is ever owned by a Task that has       *)
(* forgotten it, and acquireAllCapabilities never gets "the wrong          *)
(* capability".                                                            *)
OwnersAgree ==
    \A c \in Caps, t \in Tasks : running[c] = t <=> c \in Holding(t)

(* A Task that is going to look at Capability c with no further help.      *)
Waiting(t) == pc[t] \in {"return_wait", "return_check", "yield_wait", "yield_check"}
Coming(t, c) ==
    \/ Waiting(t) /\ wakeup[t] /\ tcap[t] = c
    \/ pc[t] \in {"return_lock", "return_check"} /\ want[t] = c
    \/ pc[t] = "yield_check" /\ want[t] = c /\ tcap[t] = c

Unserved(c) ==
    \/ returning[c] # <<>>
    \/ pendingSync = "none" /\ (runq[c] # <<>> \/ inbox[c] # <<>>)

(* "We must ensure a Capability never goes idle if the inbox is non-empty" *)
(* (scheduleProcessInbox), nor with a thread to run or a Task waiting to   *)
(* return: somebody is on the way to every such Capability.                *)
NoLostWakeup ==
    \A c \in Caps : Free(c) /\ Unserved(c) => \E t \in Tasks : Coming(t, c)

(* A Task waits in exactly the queue of the Capability its task->cap names *)
(* (the assertion of giveCapabilityToTask), and in no queue otherwise.     *)
QueuedRight ==
    \A t \in Tasks, c \in Caps :
        /\ Contains(returning[c], t) <=>
             pc[t] \in {"return_wait", "return_check"} /\ tcap[t] = c
        /\ Contains(spare[c], t) <=>
             ~bound[t] /\ pc[t] \in {"yield_wait", "yield_check"} /\ tcap[t] = c

(* Owners and sleepers together: running_task, the queues and task->cap    *)
(* say the same as the place where every Task's code is.                   *)
TasksInPlace == OwnersAgree /\ QueuedRight

(* A bound thread is only ever queued where its Task will be found: on the *)
(* Capability the Task owns, or on the one it sleeps on, however often the *)
(* two were migrated.                                                      *)
BoundTaskFound ==
    \A b \in Callers, c \in Caps :
        Contains(runq[c], b) => running[c] = b \/ tcap[b] = c

(* The assertions of schedule() about the thread it is going to run, and   *)
(* of recoverSuspendedTask.                                                *)
RunsAtHome ==
    \A t \in Tasks :
        /\ Running(t) => tcap[t] = cap[t] /\ tsoCap[cur[t]] = cap[t]
        /\ At(t, "resumed") => t \in suspended[cap[t]]

(* No thread is lost and none is queued twice: a live thread is on one run *)
(* queue or with one Task, a thread that is not live is on none, and one   *)
(* that migrates is named by a message.                                    *)
QueuePlaces(th) == UNION {{<<c, i>> : i \in {j \in DOMAIN runq[c] : runq[c][j] = th}} : c \in Caps}
Carriers(th) == {t \in Tasks : cur[t] = th}

EveryThreadOnce ==
    \A th \in Threads :
        /\ Cardinality(QueuePlaces(th)) + Cardinality(Carriers(th)) =
             IF tst[th] = "live" THEN 1 ELSE 0
        /\ tst[th] = "migrating" => Woken(th)

(* No worker is started while there is one to spare, so there are never    *)
(* more than one for each Capability, and one more for each Capability and *)
(* thread it may have seen leave for a foreign call.  (The number of       *)
(* Workers of an instance is larger, so no release ever lacks one.)        *)
Started == {w \in Workers : pc[w] # "none"}
FewWorkers ==
    LET outside == IF "call" \in ThreadKinds THEN Cardinality(Unbound) ELSE 0
    IN Cardinality(Started) <= NCaps * (1 + outside)

(* While one Task has stopped the world no other runs Haskell code, or is  *)
(* past the point where it may begin to.                                   *)
WorldStopped ==
    \A t, u \in Tasks :
        pc[t] = "stopped" /\ u # t => pc[u] \notin HoldsOwn

(* A Task that has won the right to stop the world does stop it.           *)
SyncEnds == \A t \in Tasks : At(t, "acquire") ~> At(t, "stopped")

(* A Task returning to Haskell gets a Capability.                          *)
ReturnServed == \A t \in Tasks : At(t, "return_wait") ~> pc[t] \in {"entered", "resumed", "acquired"}

(* "This call will return when we have ownership of the Task and a         *)
(* Capability": a call-in that only asks for a collection is over some day.*)
CollectionReturns ==
    \A b \in Callers : kind[b] = "gc" ~> kind[b] # "gc"
===============================================================================
