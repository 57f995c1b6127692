------------------------------ MODULE Threads ------------------------------
(***************************************************************************)
(* Blocking and interrupting threads across Capabilities: MVars            *)
(* (PrimOps.cmm), throwTo (RaiseAsync.c, Exception.cmm), the messages that  *)
(* carry wake-ups and exceptions (Messages.c) and tryWakeupThread.         *)
(*                                                                         *)
(* The heap's closures are one record, so that a handler is the            *)
(* composition of the functions it calls.  A closure is locked by          *)
(* exchanging its header for WHITEHOLE: locker names the Capability that   *)
(* did so, and to wait for a lock is to spin.  A lock that is taken and    *)
(* given back in one stretch of code that waits for nothing is one step.   *)
(* A Capability runs any of its runnable threads next, and a thread may be *)
(* preempted between operations.  balance, raised and told are history.    *)
(***************************************************************************)
EXTENDS Integers, SequencesExt

CONSTANTS Capabilities, Threads, MVars,
          None,
          Programs,       \* bound: what the threads may call, each a sequence of primitives
          Catches,        \* the catch frames the threads may start with
          MaxMessages     \* bound: calls of throwTo

ASSUME ThreadsAssumption ==
  /\ None \notin Threads \cup MVars \cup Capabilities \cup (1..MaxMessages)
  /\ MVars \cap (1..MaxMessages) = {} /\ MaxMessages \in Nat
  /\ IsFiniteSet(Threads) /\ IsFiniteSet(MVars)
  /\ Programs \subseteq [Threads -> Seq(STRING)]
  /\ Catches \subseteq {"none", "unmasked", "interruptible", "uninterruptible"}

Messages == 1..MaxMessages     \* a message is its address: throwToMsg compares them

VARIABLES heap,     \* the closures and the inboxes
          batch,    \* the messages a Capability took from its inbox and has not executed
          pc,       \* where a Capability is: in the scheduler or in one of its calls
          curTso,   \* the running thread, None while executing a message
          curMsg,   \* the message throwToMsg deals with
          program

threadVars == <<heap, batch, pc, curTso, curMsg, program>>

Masks == {"none", "interruptible", "uninterruptible"}   \* TSO_BLOCKEX, TSO_INTERRUPTIBLE

----------------------------------------------------------------------------
(* Threads and their wake-up *)

Wakeup(t) == [type |-> "wakeup", of |-> t]
ThrowTo(m) == [type |-> "throwto", of |-> m]

\* sendMessage: the inbox is a list, the newest in front
SendMessage(h, c, x) == [h EXCEPT !.inbox[c] = <<x>> \o @]

\* The thread goes on: what its operation left on the stack is now its own.
Resume(h, t) ==
  [h EXCEPT !.tso[t].why = "NotBlocked", !.tso[t].stack = "idle",
            !.balance = @ + CASE h.tso[t].stack = "put" -> 1 [] h.tso[t].stack = "took" -> -1 [] OTHER -> 0]

Returned(h, m) == [h EXCEPT !.msg[m].told = "returned"]

\* tryWakeupThread
TryWakeup(h, c, t) ==
  LET u == h.tso[t] IN
  CASE u.home # c -> SendMessage(h, u.home, Wakeup(t))
    [] u.home = c /\ u.why = "MVar" /\ ~u.link -> Resume([h EXCEPT !.tso[t].info = None], t)
    [] u.home = c /\ u.why = "MsgThrowTo" /\ h.msg[u.info].info = "null" -> Returned(Resume(h, t), u.info)
    [] u.home = c /\ u.why = "Migrating" -> [h EXCEPT !.tso[t].why = "NotBlocked"]
    [] OTHER -> h

\* ... which spins while the message of a thread blocked in throwTo is locked
WakeupWaits(h, c, t) ==
  h.tso[t].home = c /\ h.tso[t].why = "MsgThrowTo" /\ h.msg[h.tso[t].info].info = "locked"

UnlockMsg(h, m, info) == [h EXCEPT !.msg[m].info = info, !.msg[m].locker = None]
NotRevoked(h, m) == UnlockMsg(h, m, "throwto")
DoneWithMsgThrowTo(h, m) == UnlockMsg(h, m, "null")

----------------------------------------------------------------------------
(* MVars *)

Live(queue) == {i \in DOMAIN queue : queue[i].info = "queue"}
First(queue) == CHOOSE i \in Live(queue) : \A j \in Live(queue) : i <= j

\* the MVAR_TSO_QUEUE that a blocked thread's _link points to is taken out, or marked where it cannot be
RemoveFromMVar(h, t) ==
  LET mv == h.tso[t].info
      q  == h.mvar[mv].queue
      at == CHOOSE i \in Live(q) : q[i].tso = t
      rest == CASE at = 1 -> Tail(q)
                [] at # 1 /\ at = Len(q) -> [q EXCEPT ![at].info = "null"]
                [] OTHER -> [q EXCEPT ![at].info = "ind"]
  IN  IF ~h.tso[t].link THEN h
      ELSE [h EXCEPT !.mvar[mv].queue = rest, !.tso[t].link = FALSE]

\* append to the queue and block, with the MVar still locked
BlockOnMVar(h, c, t, mv, doing) ==
  [h EXCEPT !.mvar[mv].queue = Append(@, [tso |-> t, info |-> "queue"]), !.mvar[mv].locker = c,
            !.tso[t].link = TRUE, !.tso[t].info = mv, !.tso[t].why = "MVar", !.tso[t].stack = doing]

\* PerformTake, PerformPut: complete the operation of the first thread in the queue and wake it
HandOver(h, c, mv, done) ==
  LET q == h.mvar[mv].queue
      t == q[First(q)].tso
  IN  TryWakeup([h EXCEPT !.mvar[mv].queue = SubSeq(q, First(q) + 1, Len(q)),
                          !.tso[t].link = FALSE, !.tso[t].stack = done], c, t)

Running(c, t) == pc[c] = "sched" /\ heap.tso[t].home = c /\ heap.tso[t].why = "NotBlocked"
Calls(c, t, primitive) ==
  /\ Running(c, t) /\ heap.tso[t].what = "run" /\ program[t] # <<>>
  /\ Head(program[t]) = primitive
  /\ program' = [program EXCEPT ![t] = Tail(@)]

\* The thread blocks: threadPaused comes before the lock is given up.
Blocks(c, t, h) ==
  /\ heap' = h
  /\ pc' = [pc EXCEPT ![c] = "pause"] /\ curTso' = [curTso EXCEPT ![c] = t]
Continues(h) == heap' = h /\ UNCHANGED <<pc, curTso>>

TakeMVar(c, t, mv) ==
  /\ Calls(c, t, "take") /\ heap.mvar[mv].locker = None
  /\ CASE ~heap.mvar[mv].full -> Blocks(c, t, BlockOnMVar(heap, c, t, mv, "taking"))
       [] heap.mvar[mv].full /\ Live(heap.mvar[mv].queue) = {} ->
            Continues([heap EXCEPT !.mvar[mv].full = FALSE, !.balance = @ - 1])
       [] OTHER -> Continues([HandOver(heap, c, mv, "put") EXCEPT !.balance = @ - 1])
  /\ UNCHANGED <<batch, curMsg>>

PutMVar(c, t, mv) ==
  /\ Calls(c, t, "put") /\ heap.mvar[mv].locker = None
  /\ CASE heap.mvar[mv].full -> Blocks(c, t, BlockOnMVar(heap, c, t, mv, "putting"))
       [] ~heap.mvar[mv].full /\ Live(heap.mvar[mv].queue) = {} ->
            Continues([heap EXCEPT !.mvar[mv].full = TRUE, !.balance = @ + 1])
       [] OTHER -> Continues([HandOver(heap, c, mv, "took") EXCEPT !.balance = @ + 1])
  /\ UNCHANGED <<batch, curMsg>>

----------------------------------------------------------------------------
(* Exceptions *)

StaysQueued(h, t) ==
  IF h.tso[t].why = "MsgThrowTo"
  THEN [DoneWithMsgThrowTo(h, h.tso[t].info) EXCEPT !.msg[h.tso[t].info].told = "interrupted"] ELSE h
\* removeFromQueues
RemoveFromQueues(h, t) ==
  CASE h.tso[t].why = "MVar" -> RemoveFromMVar(h, t)
    [] h.tso[t].why = "MsgThrowTo" ->
         [DoneWithMsgThrowTo(h, h.tso[t].info) EXCEPT !.msg[h.tso[t].info].told = "interrupted"]
    [] OTHER -> h

\* raiseAsync strips the stack down to the catch frame, or to nothing, and makes the thread runnable.
\* The interruptible flag follows the mask state of the frame until the exception is entered.
RaiseAsync(h, t) ==
  LET u == h.tso[t] IN
  [h EXCEPT !.tso[t] =
     [u EXCEPT !.why = "NotBlocked", !.stack = "idle",
               !.what = IF u.catch = "none" THEN "killed" ELSE "raise",
               !.mask = CASE u.catch = "none" -> u.mask
                          [] u.catch = "interruptible" -> "interruptible"
                          [] OTHER -> "uninterruptible"]]

Interrupt(h, t, m) ==
  LET r == RaiseAsync(RemoveFromQueues(h, t), t) IN [r EXCEPT !.msg[m].raised = @ + 1]

Dead(h, t) == h.tso[t].what \in {"killed", "finished"}
AlwaysInterruptible(h, t) == TRUE
Interruptible(h, t) == h.tso[t].why \in {"MVar", "MsgThrowTo"}
MayRaise(h, t) ==
  \/ h.tso[t].mask = "none"
  \/ h.tso[t].mask = "interruptible" /\ Interruptible(h, t)

OnlyTheLast(h, m) == [h EXCEPT !.tso[h.msg[m].target].blocked = <<m>>]
\* blockedThrowTo
BlockedThrowTo(h, m) == [h EXCEPT !.tso[h.msg[m].target].blocked = <<m>> \o @]

\* One turn of maybePerformBlockedException: the first message that was not revoked is performed.
PerformsBlocked(h, t) == h.tso[t].blocked # <<>> /\ MayRaise(h, t)
PerformBlocked(h, c, t) ==
  LET m == Head(h.tso[t].blocked)
      popped == [h EXCEPT !.tso[t].blocked = Tail(@)]
  IN  IF h.msg[m].info = "null" THEN popped
      ELSE TryWakeup(DoneWithMsgThrowTo(Interrupt(popped, t, m), m), c, h.msg[m].source)

\* killThread#, throwTo: the message is created locked.
KillThread(c, t, target) ==
  /\ Calls(c, t, "throw") /\ target # t
  /\ \E m \in Messages :
       /\ heap.msg[m].info = "free"
       /\ heap' = [heap EXCEPT !.msg[m] = [@ EXCEPT !.info = "locked", !.locker = c, !.source = t, !.target = target]]
       /\ curMsg' = [curMsg EXCEPT ![c] = m]
  /\ pc' = [pc EXCEPT ![c] = "throw"] /\ curTso' = [curTso EXCEPT ![c] = t]
  /\ UNCHANGED <<batch>>

\* throwTo to the thread itself, whatever its mask: throwToSingleThreaded
KillSelf(c, t) ==
  /\ Calls(c, t, "self")
  /\ heap' = RaiseAsync(heap, t)
  /\ UNCHANGED <<batch, pc, curTso, curMsg>>

\* What the caller of throwToMsg does with its result: throwTo or executeMessage.
InPrimop(c) == curTso[c] # None
Succeeds(c, h) ==
  LET m == curMsg[c] IN
  /\ heap' = IF InPrimop(c) THEN Returned(UnlockMsg(h, m, "done"), m)
             ELSE TryWakeup(DoneWithMsgThrowTo(h, m), c, h.msg[m].source)
  /\ pc' = [pc EXCEPT ![c] = "sched"]
  /\ curMsg' = [curMsg EXCEPT ![c] = None] /\ curTso' = [curTso EXCEPT ![c] = None]
Blocked(c, h) ==
  LET m == curMsg[c]
      t == curTso[c]
  IN
  /\ heap' = IF InPrimop(c)
             THEN [h EXCEPT !.tso[t].why = "MsgThrowTo", !.tso[t].info = m, !.tso[t].stack = "throwing"]
             ELSE UnlockMsg(h, m, "throwto")
  /\ pc' = [pc EXCEPT ![c] = IF InPrimop(c) THEN "pause" ELSE "sched"]
  /\ curMsg' = [curMsg EXCEPT ![c] = None] /\ UNCHANGED curTso
Retries(h) == heap' = h /\ UNCHANGED <<pc, curMsg, curTso>>

\* ... to a thread that is itself in throwTo: its message n must be locked to revoke it.  Only the
\* one whose target's message is at the lower address may spin; the other tries once and starts again.
AllSpin(n, m) == TRUE
MaySpin(n, m) == n < m
ThrowToThrower(c, m, t, n) ==
  CASE heap.msg[n].info = "locked" ->
         ~MaySpin(n, m) /\ Blocked(c, SendMessage(heap, c, ThrowTo(m)))
    [] heap.msg[n].info = "null" -> Retries(TryWakeup(heap, c, t))
    [] OTHER -> IF MayRaise(heap, t) THEN Succeeds(c, Interrupt(heap, t, m))
                ELSE Blocked(c, BlockedThrowTo(heap, m))

\* throwToMsg from check_target
ThrowToMsg(c) ==
  /\ pc[c] = "throw"
  /\ LET m == curMsg[c]
         t == heap.msg[m].target
         u == heap.tso[t]
     IN
     \/ Dead(heap, t) /\ Succeeds(c, heap)
     \/ ~Dead(heap, t) /\ u.home # c /\ Blocked(c, SendMessage(heap, u.home, ThrowTo(m)))
     \/ /\ ~Dead(heap, t) /\ u.home = c
        /\ \/ /\ u.why = "NotBlocked"
              /\ IF MayRaise(heap, t) THEN Succeeds(c, Interrupt(heap, t, m))
                 ELSE Blocked(c, BlockedThrowTo(heap, m))
           \/ u.why = "MsgThrowTo" /\ ThrowToThrower(c, m, t, u.info)
           \/ /\ u.why = "MVar"
              /\ pc' = [pc EXCEPT ![c] = "throw_mvar"] /\ UNCHANGED <<heap, curMsg, curTso>>
           \/ u.why = "Migrating" /\ Retries(TryWakeup(heap, c, t))
  /\ UNCHANGED <<batch, program>>

NeverCompleted(h, t) == FALSE
Completed(h, t) == ~h.tso[t].link
\* ... once the MVar the target waits for is locked
ThrowToWaiter(c) ==
  /\ pc[c] = "throw_mvar"
  /\ LET m == curMsg[c]
         t == heap.msg[m].target
     IN
     /\ heap.mvar[heap.tso[t].info].locker = None
     /\ \/ /\ Completed(heap, t)
           /\ heap' = TryWakeup(heap, c, t)
           /\ pc' = [pc EXCEPT ![c] = "throw"] /\ UNCHANGED <<curMsg, curTso>>
        \/ /\ ~Completed(heap, t)
           /\ IF MayRaise(heap, t) THEN Succeeds(c, Interrupt(heap, t, m))
              ELSE Blocked(c, BlockedThrowTo(heap, m))
  /\ UNCHANGED <<batch, program>>

----------------------------------------------------------------------------
(* The scheduler's part *)

\* threadPaused, and the code fragment that unlocks what the thread blocks on
UnlocksIfBlocked(h, t) ==
  IF h.tso[t].why = "MVar" THEN [h EXCEPT !.mvar[h.tso[t].info].locker = None]
  ELSE IF h.tso[t].why = "MsgThrowTo" THEN UnlockMsg(h, h.tso[t].info, "throwto") ELSE h
Unlock(h, t) ==
  LET x == h.tso[t].info IN
  IF x \in MVars THEN [h EXCEPT !.mvar[x].locker = None]
  ELSE IF h.msg[x].info = "locked" THEN UnlockMsg(h, x, "throwto") ELSE h
ToScheduler(c) == pc' = [pc EXCEPT ![c] = "sched"] /\ curTso' = [curTso EXCEPT ![c] = None]
Stays(c) == UNCHANGED <<pc, curTso>>

\* one turn of maybePerformBlockedException; a revoked message leads to another
Performs(c, pausing) ==
  LET t == curTso[c]
      After(h) == IF pausing THEN Unlock(h, t) ELSE h
  IN
  IF ~PerformsBlocked(heap, t) THEN heap' = After(heap) /\ ToScheduler(c)
  ELSE LET m == Head(heap.tso[t].blocked) IN
       /\ heap.msg[m].info # "locked"
       /\ IF heap.msg[m].info = "null" THEN heap' = PerformBlocked(heap, c, t) /\ Stays(c)
          ELSE heap' = After(PerformBlocked(heap, c, t)) /\ ToScheduler(c)

ThreadPaused(c) ==
  /\ pc[c] = "pause" /\ Performs(c, TRUE)
  /\ UNCHANGED <<batch, curMsg, program>>

SetMask(c, t, mask) ==
  /\ Calls(c, t, mask)
  /\ heap' = [heap EXCEPT !.tso[t].mask = mask]
  /\ IF mask = "none" /\ heap.tso[t].blocked # <<>>
     THEN pc' = [pc EXCEPT ![c] = "unmask"] /\ curTso' = [curTso EXCEPT ![c] = t]
     ELSE UNCHANGED <<pc, curTso>>
  /\ UNCHANGED <<batch, curMsg>>

Unmasked(c) ==
  /\ pc[c] = "unmask" /\ Performs(c, FALSE)
  /\ UNCHANGED <<batch, curMsg, program>>

\* raise#: the handler runs masked, interruptibly unless the frame was pushed in an uninterruptible state
EnterHandler(c, t) ==
  /\ Running(c, t) /\ heap.tso[t].what = "raise"
  /\ heap' = [heap EXCEPT !.tso[t].what = "run", !.tso[t].catch = "none",
                          !.tso[t].mask = IF heap.tso[t].catch = "uninterruptible" THEN @ ELSE "interruptible"]
  /\ UNCHANGED <<batch, pc, curTso, curMsg, program>>

\* scheduleHandleThreadFinished: every thread that still waits to interrupt this one is woken
Finish(c, t) ==
  /\ Running(c, t)
  /\ \/ heap.tso[t].what = "killed"
     \/ heap.tso[t].what = "run" /\ program[t] = <<>>
  /\ heap' = [heap EXCEPT !.tso[t].what = "finished"]
  /\ pc' = [pc EXCEPT ![c] = "finish"] /\ curTso' = [curTso EXCEPT ![c] = t]
  /\ UNCHANGED <<batch, curMsg, program>>

AwakenBlockedExceptionQueue(c) ==
  /\ pc[c] = "finish"
  /\ LET t == curTso[c]
         m == Head(heap.tso[t].blocked)
         popped == [heap EXCEPT !.tso[t].blocked = Tail(@)]
     IN IF heap.tso[t].blocked = <<>> THEN ToScheduler(c) /\ UNCHANGED heap
        ELSE /\ heap.msg[m].info # "locked"
             /\ heap' = IF heap.msg[m].info = "null" THEN popped
                        ELSE TryWakeup(DoneWithMsgThrowTo(popped, m), c, heap.msg[m].source)
             /\ Stays(c)
  /\ UNCHANGED <<batch, curMsg, program>>

\* scheduleProcessInbox and executeMessage
TakeInbox(c) ==
  /\ pc[c] = "sched" /\ batch[c] = <<>> /\ heap.inbox[c] # <<>>
  /\ batch' = [batch EXCEPT ![c] = heap.inbox[c]]
  /\ heap' = [heap EXCEPT !.inbox[c] = <<>>]
  /\ UNCHANGED <<pc, curTso, curMsg, program>>

ExecuteMessage(c) ==
  /\ pc[c] = "sched" /\ batch[c] # <<>>
  /\ LET x == Head(batch[c]) IN
     \/ /\ x.type = "wakeup" /\ ~WakeupWaits(heap, c, x.of)
        /\ heap' = TryWakeup(heap, c, x.of) /\ UNCHANGED <<pc, curMsg>>
     \/ /\ x.type = "throwto" /\ heap.msg[x.of].info = "throwto"
        /\ heap' = [heap EXCEPT !.msg[x.of].info = "locked", !.msg[x.of].locker = c]
        /\ pc' = [pc EXCEPT ![c] = "throw"] /\ curMsg' = [curMsg EXCEPT ![c] = x.of]
     \/ x.type = "throwto" /\ heap.msg[x.of].info = "null" /\ UNCHANGED <<heap, pc, curMsg>>
  /\ batch' = [batch EXCEPT ![c] = Tail(@)]
  /\ UNCHANGED <<curTso, program>>

\* A "move" in a program: the scheduler migrates the thread here.  migrateThread, and schedulePushWork to a Capability that is idle
Migrate(c, d, t) ==
  /\ Calls(c, t, "move") /\ d # c
  /\ \/ heap' = SendMessage([heap EXCEPT !.tso[t].why = "Migrating", !.tso[t].home = d], d, Wakeup(t))
     \/ pc[d] = "sched" /\ batch[d] = <<>> /\ heap' = [heap EXCEPT !.tso[t].home = d]
  /\ UNCHANGED <<batch, pc, curTso, curMsg>>

ThreadsStart(home, catch) ==
  /\ heap = [tso |-> [t \in Threads |->
                       [home |-> home[t], why |-> "NotBlocked", info |-> None, link |-> FALSE,
                        what |-> "run", mask |-> "none", catch |-> catch[t],
                        stack |-> "idle", blocked |-> <<>>]],
             msg |-> [m \in Messages |-> [info |-> "free", locker |-> None, source |-> None, target |-> None,
                                         raised |-> 0, told |-> "waiting"]],
             mvar |-> [mv \in MVars |-> [full |-> FALSE, queue |-> <<>>, locker |-> None]],
             inbox |-> [c \in Capabilities |-> <<>>], balance |-> 0]
  /\ batch = [c \in Capabilities |-> <<>>] /\ pc = [c \in Capabilities |-> "sched"]
  /\ curTso = [c \in Capabilities |-> None] /\ curMsg = [c \in Capabilities |-> None]

ThreadsInit ==
  /\ \E home \in [Threads -> Capabilities], catch \in [Threads -> Catches] : ThreadsStart(home, catch)
  /\ program \in Programs

Thread(c, t) ==
  \/ \E mv \in MVars : TakeMVar(c, t, mv) \/ PutMVar(c, t, mv)
  \/ \E u \in Threads : KillThread(c, t, u)
  \/ KillSelf(c, t)
  \/ \E mask \in Masks : SetMask(c, t, mask)
  \/ \E d \in Capabilities : Migrate(c, d, t)
  \/ EnterHandler(c, t) \/ Finish(c, t)

Goes(c) ==
  \/ ThrowToMsg(c) \/ ThrowToWaiter(c) \/ ThreadPaused(c) \/ Unmasked(c)
  \/ AwakenBlockedExceptionQueue(c) \/ TakeInbox(c) \/ ExecuteMessage(c)

ThreadsNext ==
  \E c \in Capabilities :
    \/ Goes(c)
    \/ batch[c] = <<>> /\ \E t \in Threads : Thread(c, t)

ThreadsSpec == ThreadsInit /\ [][ThreadsNext]_threadVars

----------------------------------------------------------------------------
(* Properties *)

(* Every field keeps its range.                                            *)
ThreadsTypeOK ==
  /\ \A t \in Threads : LET u == heap.tso[t] IN
       /\ u.home \in Capabilities /\ u.why \in {"NotBlocked", "MVar", "MsgThrowTo", "Migrating"}
       /\ u.info \in {None} \cup MVars \cup Messages /\ u.link \in BOOLEAN
       /\ u.what \in {"run", "raise", "killed", "finished"} /\ u.mask \in Masks
       /\ u.stack \in {"idle", "taking", "putting", "took", "put", "throwing"}
       /\ u.blocked \in Seq(Messages)
  /\ \A m \in Messages : heap.msg[m].info \in {"free", "locked", "throwto", "null", "done"}
  /\ \A mv \in MVars : heap.mvar[mv].locker \in Capabilities \cup {None}
  /\ pc \in [Capabilities -> {"sched", "throw", "throw_mvar", "pause", "unmask", "finish"}]

Stacked(doing) == {t \in Threads : heap.tso[t].stack = doing}

(* A value put into an MVar is in it, on its way to a thread whose take is *)
(* complete, or received, once: an exception never undoes a take or a put  *)
(* that another thread has completed, nor completes one it has undone.     *)
ValuesKept ==
  heap.balance + Cardinality(Stacked("put")) =
    Cardinality({mv \in MVars : heap.mvar[mv].full}) + Cardinality(Stacked("took"))

(* PrimOps.cmm:1320-1321: whom a take or put finds in the queue is blocked *)
(* on this MVar; and who is blocked there, with his operation pending, is  *)
(* in its queue, once.                                                     *)
QueueHoldsWaiters ==
  \A mv \in MVars : LET q == heap.mvar[mv].queue IN
    /\ \A i \in Live(q) : LET u == heap.tso[q[i].tso] IN u.why = "MVar" /\ u.info = mv /\ u.link
    /\ \A t \in Threads : heap.tso[t].why = "MVar" /\ heap.tso[t].info = mv /\ heap.tso[t].link
         => Cardinality({i \in Live(q) : q[i].tso = t}) = 1

InMail(x) == \E c \in Capabilities : \E i \in DOMAIN heap.inbox[c] : heap.inbox[c][i] = x
InBatch(x) == \E c \in Capabilities : \E i \in DOMAIN batch[c] : batch[c][i] = x

(* "tryWakeupThread ... it is not safe in general to omit a call": whoever *)
(* may go on, since his MVar operation is complete, his exception was      *)
(* thrown or he has arrived where he migrated to, has a wake-up under way. *)
WakeupUnderWay ==
  \A t \in Threads : LET u == heap.tso[t] IN
    \/ u.why = "MVar" /\ ~u.link
    \/ u.why = "MsgThrowTo" /\ heap.msg[u.info].info = "null"
    \/ u.why = "Migrating"
    => InMail(Wakeup(t)) \/ InBatch(Wakeup(t))

(* Who is blocked can be found by whoever completes what he waits for, and *)
(* who has been found is told.                                             *)
BlockedAreFound == QueueHoldsWaiters /\ WakeupUnderWay

(* A thread blocked in throwTo has its message in somebody's hands: being  *)
(* dealt with, under way, or queued at a target that is not gone.  No      *)
(* exception is forgotten, and the source will be woken.                   *)
ThrowIsPending ==
  \A t \in Threads : LET m == heap.tso[t].info IN
    heap.tso[t].why = "MsgThrowTo" /\ heap.msg[m].info \in {"throwto", "locked"} =>
      \/ InMail(ThrowTo(m)) \/ InBatch(ThrowTo(m))
      \/ \E c \in Capabilities : curMsg[c] = m
      \/ \E i \in DOMAIN heap.tso[heap.msg[m].target].blocked :
           /\ heap.tso[heap.msg[m].target].blocked[i] = m
           /\ \/ heap.tso[heap.msg[m].target].what # "finished"
              \/ \E c \in Capabilities : pc[c] = "finish" /\ curTso[c] = heap.msg[m].target

(* What throwTo tells its caller is true: it returns when the exception    *)
(* has been raised in the target, once, or the target is dead; a throwTo   *)
(* that was itself interrupted has not raised its exception and never will. *)
ThrowToHonest ==
  \A m \in Messages :
    /\ heap.msg[m].raised <= 1
    /\ heap.msg[m].told = "returned" => heap.msg[m].raised = 1 \/ Dead(heap, heap.msg[m].target)
    /\ heap.msg[m].told = "interrupted" => heap.msg[m].raised = 0

(* throwTo, #6103: "otherwise we leave a WHITEHOLE in the heap".  A lock   *)
(* is held by a Capability inside the call that took it, also when the     *)
(* call ends with an exception in the thread that made it; and a closure   *)
(* is never unlocked by one that did not lock it.                          *)
LocksGivenBack ==
  /\ \A m \in Messages : heap.msg[m].info = "locked" <=> heap.msg[m].locker \in Capabilities
  /\ \A m \in Messages : heap.msg[m].locker # None => pc[heap.msg[m].locker] \in {"throw", "throw_mvar", "pause"}
  /\ \A mv \in MVars : heap.mvar[mv].locker # None => pc[heap.mvar[mv].locker] = "pause"

(* Who spins on whose lock *)
Spins(c, d) ==
  \/ /\ pc[c] = "throw"
     /\ LET u == heap.tso[heap.msg[curMsg[c]].target] IN
        /\ ~Dead(heap, heap.msg[curMsg[c]].target) /\ u.home = c /\ u.why = "MsgThrowTo"
        /\ MaySpin(u.info, curMsg[c]) /\ heap.msg[u.info].locker = d
  \/ pc[c] = "throw_mvar" /\ heap.mvar[heap.tso[heap.msg[curMsg[c]].target].info].locker = d
  \/ /\ pc[c] \in {"pause", "unmask", "finish"} /\ heap.tso[curTso[c]].blocked # <<>>
     /\ pc[c] # "finish" => PerformsBlocked(heap, curTso[c])
     /\ heap.msg[Head(heap.tso[curTso[c]].blocked)].locker = d
  \/ /\ pc[c] = "sched" /\ batch[c] # <<>>
     /\ LET x == Head(batch[c]) IN
        \/ x.type = "throwto" /\ heap.msg[x.of].locker = d
        \/ x.type = "wakeup" /\ WakeupWaits(heap, c, x.of) /\ heap.msg[heap.tso[x.of].info].locker = d

(* RaiseAsync.c:245: "There's a possibility of a deadlock if two threads   *)
(* are both trying to throwTo each other": no Capabilities spin in a ring, *)
(* whatever combination of message and MVar locks they hold.               *)
NoSpinningRing ==
  ~ \E ring \in (SUBSET Capabilities) \ {{}} : \A c \in ring : \E d \in ring : Spins(c, d)

(* An exception reaches a thread that masks exceptions only while it is    *)
(* blocked in an interruptible operation that has not been completed; one  *)
(* thrown to itself apart.                                                 *)
MaskRespected ==
  [][\A t \in Threads :
       heap.tso[t].what = "run" /\ heap'.tso[t].what \in {"raise", "killed"} /\ program' = program =>
         \/ heap.tso[t].mask = "none"
         \/ heap.tso[t].mask = "interruptible" /\ heap.tso[t].stack \in {"taking", "putting", "throwing"}
    ]_threadVars
============================================================================
