------------------------------ MODULE Capability ------------------------------
(***************************************************************************)
(* Capabilities and the Tasks that own them: kernel/rts/Capability.c and   *)
(* Task.c, threaded build.                                                 *)
(*                                                                         *)
(* A Task is an operating-system thread inside the runtime.  It may touch  *)
(* a Capability only while the Capability's running_task names it.  Tasks  *)
(* without one sleep on their condition variable and are woken through the *)
(* sticky flag task->wakeup.  Each region under cap->lock, and each region *)
(* under task->lock outside one, is one step; so is each read of shared    *)
(* state made with no lock.  Giving a Capability to a Task takes its       *)
(* task->lock inside cap->lock and only raises the flag, so it belongs to  *)
(* the enclosing step.                                                     *)
(*                                                                         *)
(* A call-in is made by a Task of Callers; the thread it evaluates, bound  *)
(* to that Task, has the Task's own name.  Every other thread is unbound   *)
(* and runs on the Workers.                                                *)
(***************************************************************************)
EXTENDS Integers, Sequences, FiniteSets

CONSTANTS NCaps,       \* n_capabilities
          Callers,     \* OS threads of the program that call in
          Workers,     \* OS threads the runtime starts
          Unbound,     \* Haskell threads with no bound Task
          MaxSpare,    \* MAX_SPARE_WORKERS
          Spurious,    \* condition variables may wake with no signal
          NoTask       \* NULL

ASSUME CapabilityAssumption ==
    /\ NCaps \in Nat \ {0}
    /\ MaxSpare \in Nat
    /\ Spurious \in BOOLEAN
    /\ Callers \cap Workers = {} /\ Callers \cap Unbound = {} /\ Workers \cap Unbound = {}
    /\ NoTask \notin Callers \cup Workers \cup Unbound

Caps    == 0..(NCaps - 1)
Tasks   == Callers \cup Workers
Threads == Callers \cup Unbound

VARIABLES
    \* struct Capability
    running,      \* running_task
    returning,    \* returning_tasks_hd .. returning_tasks_tl
    spare,        \* spare_workers, the head first; its length is n_spare_workers
    runq,         \* run_queue_hd .. run_queue_tl
    inbox,        \* inbox, newest first: the threads to wake up
    suspended,    \* suspended_ccalls
    \* globals
    pendingSync,  \* pending_sync
    lastFree,     \* last_free_capability
    \* struct Task
    tcap,         \* task->cap
    wakeup,       \* task->wakeup
    bound,        \* task->incall->tso # NULL
    \* locals of each OS thread
    pc,           \* where it is; "none": there is no such thread
    cap,          \* the Capability its code holds or last held
    want,         \* the one it waits for: cap itself except in acquireAllCapabilities
    call          \* what it does when the wait is over

capVars  == <<running, returning, spare>>
taskVars == <<tcap, wakeup, pc, cap, want, call>>

(* initCapabilities leaves every Capability free; startWorkerTasks then    *)
(* starts a worker on each but the first.                                  *)
CapabilityInit ==
    \E starter \in {f \in [1..(NCaps - 1) -> Workers] :
                      \A c, d \in DOMAIN f : f[c] = f[d] => c = d} :
      LET Started(t) == \E c \in DOMAIN starter : starter[c] = t
          CapOf(t) == IF Started(t) THEN CHOOSE c \in DOMAIN starter : starter[c] = t ELSE 0
      IN
      /\ running = [c \in Caps |-> IF c = 0 THEN NoTask ELSE starter[c]]
      /\ returning = [c \in Caps |-> <<>>]
      /\ spare = [c \in Caps |-> <<>>]
      /\ runq = [c \in Caps |-> <<>>]
      /\ inbox = [c \in Caps |-> <<>>]
      /\ suspended = [c \in Caps |-> {}]
      /\ pendingSync = "none" /\ lastFree = 0
      /\ tcap = [t \in Tasks |-> CapOf(t)]
      /\ wakeup = [t \in Tasks |-> FALSE]
      /\ bound = [t \in Tasks |-> FALSE]
      /\ pc = [t \in Tasks |-> IF Started(t) THEN "sched" ELSE IF t \in Callers THEN "out" ELSE "none"]
      /\ cap = [t \in Tasks |-> CapOf(t)]
      /\ want = [t \in Tasks |-> CapOf(t)]
      /\ call = [t \in Tasks |-> "none"]

(* A worker structure startWorkerTask can allocate. *)
Fresh == {w \in Workers : pc[w] = "none"}

-------------------------------------------------------------------------------
(* releaseCapability_ *)

TrustedFree(c) == c = lastFree \/ running[c] = NoTask   \* mutant: the hint believed
Free(c) == running[c] = NoTask

Leads(t, q) == q # <<>> /\ Head(q) = t

(* A thread the queue would start next is bound: to which Task. *)
BoundHead(q) == q # <<>> /\ Head(q) \in Callers

(* What releaseCapability_ looks at: the queues of the Capability as the   *)
(* step leaves them, and always_wakeup.                                    *)
As(c) == [runq |-> runq[c], inbox |-> inbox[c], spare |-> spare[c], always |-> FALSE]

(* There is something to do for a worker. *)
NoInboxWork(as) == as.always \/ as.runq # <<>>          \* mutant: inbox forgotten
WorkFor(as) == as.always \/ as.runq # <<>> \/ as.inbox # <<>>

(* No worker is left to give it to. *)
AlwaysOneMore(as) == as.spare = <<>> \/ as.always        \* mutant: spare ones forgotten
NeedsWorker(as) == as.spare = <<>>

(* The heir that does not exist yet: startWorkerTask makes it.             *)
NewWorker == "new_worker"

ASSUME NewWorkerAssumption == NewWorker \notin Tasks \cup {NoTask}

(* Whom it hands the Capability to: the first returning Task, nobody while *)
(* a synchronisation is pending, the Task the next thread is bound to, a   *)
(* new worker when none is spare, the first spare worker when there is     *)
(* anything to do, and otherwise nobody.                                   *)
Heir(c, as) ==
    CASE returning[c] # <<>> -> Head(returning[c])
      [] returning[c] = <<>> /\ pendingSync # "none" -> NoTask
      [] returning[c] = <<>> /\ pendingSync = "none" ->
           IF BoundHead(as.runq) THEN Head(as.runq)
           ELSE IF NeedsWorker(as) THEN NewWorker
           ELSE IF WorkFor(as) THEN Head(as.spare)
           ELSE NoTask

(* What a release does to the Tasks, on top of the caller's own changes.   *)
Now == [tcap |-> tcap, wakeup |-> wakeup, pc |-> pc, cap |-> cap, want |-> want]

Set(ts) ==
    /\ tcap' = ts.tcap /\ wakeup' = ts.wakeup
    /\ pc' = ts.pc /\ cap' = ts.cap /\ want' = ts.want

(* releaseCapability_ on c by a step that itself leaves its queues as as   *)
(* and the Tasks as ts.  startWorkerTask gives the Capability to the new   *)
(* worker itself; every other heir is only told to come and take it        *)
(* (giveCapabilityToTask).                                                 *)
Release(c, as, ts) ==
    LET heir == Heir(c, as) IN
    \/ /\ heir = NewWorker
       /\ \E w \in Fresh :
            /\ running' = [running EXCEPT ![c] = w]
            /\ Set([ts EXCEPT !.tcap[w] = c, !.cap[w] = c, !.want[w] = c, !.pc[w] = "sched"])
       /\ UNCHANGED lastFree
    \/ /\ heir \in Tasks
       /\ running' = [running EXCEPT ![c] = NoTask]
       /\ Set([ts EXCEPT !.wakeup[heir] = TRUE])
       /\ UNCHANGED lastFree
    \/ /\ heir = NoTask
       /\ running' = [running EXCEPT ![c] = NoTask]
       /\ Set(ts)
       /\ lastFree' = c

Goto(t, p) == [pc EXCEPT ![t] = p]

-------------------------------------------------------------------------------
(* waitForReturnCapability: a Task wants the Capability want[t].  call     *)
(* says what it is for: a call-in, the end of a foreign call, or one of    *)
(* the Capabilities acquireAllCapabilities collects.                       *)

Resume(t) == CASE call[t] = "enter"   -> "entered"
               [] call[t] = "resume"  -> "resumed"
               [] call[t] = "acquire" -> "acquired"

(* Free, or queue up behind the other returning Tasks. *)
WaitReturnLock(t) ==
    /\ pc[t] = "return_lock"
    /\ \/ /\ Free(want[t])
          /\ running' = [running EXCEPT ![want[t]] = t]
          /\ pc' = Goto(t, Resume(t))
          /\ UNCHANGED returning
       \/ /\ ~Free(want[t])
          /\ returning' = [returning EXCEPT ![want[t]] = Append(@, t)]
          /\ pc' = Goto(t, "return_wait")
          /\ UNCHANGED running
    /\ UNCHANGED <<spare, runq, inbox, suspended, pendingSync, lastFree, tcap,
                   wakeup, bound, cap, want, call>>

(* Woken up: consume the flag and read task->cap, under task->lock. *)
WaitWake(t) ==
    /\ pc[t] \in {"return_wait", "yield_wait"}
    /\ wakeup[t] \/ Spurious
    /\ wakeup' = [wakeup EXCEPT ![t] = FALSE]
    /\ want' = [want EXCEPT ![t] = tcap[t]]
    /\ cap' = IF call[t] = "acquire" THEN cap ELSE [cap EXCEPT ![t] = tcap[t]]
    /\ pc' = Goto(t, IF pc[t] = "return_wait" THEN "return_check" ELSE "yield_check")
    /\ UNCHANGED <<capVars, runq, inbox, suspended, pendingSync, lastFree, tcap,
                   bound, call>>

(* Back under cap->lock: take the Capability if it is free and this Task   *)
(* is the first in line; if another one is, pass the hint on.              *)
WaitReturnCheck(t) ==
    /\ pc[t] = "return_check"
    /\ LET c == want[t] IN
       \/ /\ ~Free(c)
          /\ pc' = Goto(t, "return_wait")
          /\ UNCHANGED <<running, returning, wakeup>>
       \/ /\ Free(c) /\ ~Leads(t, returning[c])
          /\ wakeup' = [wakeup EXCEPT ![Head(returning[c])] = TRUE]
          /\ pc' = Goto(t, "return_wait")
          /\ UNCHANGED <<running, returning>>
       \/ /\ Free(c) /\ Leads(t, returning[c])
          /\ running' = [running EXCEPT ![c] = t]
          /\ returning' = [returning EXCEPT ![c] = Tail(@)]
          /\ pc' = Goto(t, Resume(t))
          /\ UNCHANGED wakeup
    /\ UNCHANGED <<spare, runq, inbox, suspended, pendingSync, lastFree, tcap,
                   bound, cap, want, call>>

-------------------------------------------------------------------------------
(* yieldCapability, with no parallel collection to join. *)

(* releaseCapabilityAndQueueWorker.  A Task with no bound thread queues as *)
(* a spare worker, or stops for good when there are enough of them.        *)
Yield(t) ==
    /\ pc[t] = "yield"
    /\ LET c == cap[t]
           asleep == [Now EXCEPT !.wakeup[t] = FALSE, !.pc[t] = "yield_wait"]
           gone == [Now EXCEPT !.wakeup[t] = FALSE, !.pc[t] = "none",
                               !.tcap[t] = 0, !.cap[t] = 0, !.want[t] = 0]
       IN
       \/ /\ bound[t]
          /\ Release(c, As(c), asleep)
          /\ UNCHANGED <<spare, call>>
       \/ /\ ~bound[t] /\ Len(spare[c]) < MaxSpare
          /\ spare' = [spare EXCEPT ![c] = <<t>> \o @]
          /\ Release(c, [As(c) EXCEPT !.spare = <<t>> \o @], asleep)
          /\ UNCHANGED call
       \/ /\ ~bound[t] /\ Len(spare[c]) >= MaxSpare
          /\ Release(c, As(c), gone)
          /\ call' = [call EXCEPT ![t] = "none"]
          /\ UNCHANGED spare
    /\ UNCHANGED <<returning, runq, inbox, suspended, pendingSync, bound>>

(* A worker leaves the spare workers; a bound Task is not among them. *)
PopSpare(t, c) == IF bound[t] THEN spare ELSE [spare EXCEPT ![c] = Tail(@)]

YieldCheck(t) ==
    /\ pc[t] = "yield_check"
    /\ LET c == want[t]
           mine == Free(c) /\ tcap[t] = c
       IN
       \/ /\ ~mine
          /\ pc' = Goto(t, "yield_wait")
          /\ UNCHANGED <<running, spare, wakeup>>
       \/ /\ mine /\ ~bound[t] /\ ~Leads(t, spare[c])
          /\ wakeup' = [wakeup EXCEPT ![Head(spare[c])] = TRUE]
          /\ pc' = Goto(t, "yield_wait")
          /\ UNCHANGED <<running, spare>>
       \/ /\ mine /\ (bound[t] \/ Leads(t, spare[c]))
          /\ running' = [running EXCEPT ![c] = t]
          /\ spare' = PopSpare(t, c)
          /\ pc' = Goto(t, "yielded")
          /\ UNCHANGED wakeup
    /\ UNCHANGED <<returning, runq, inbox, suspended, pendingSync, lastFree, tcap,
                   bound, cap, want, call>>

===============================================================================
