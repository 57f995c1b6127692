-------------------------------- MODULE Timer ---------------------------------
(***************************************************************************)
(* recent_activity, the flag over which the timer signal and the scheduler  *)
(* agree when to stop the timer: handle_tick (Timer.c) moves it towards     *)
(* ACTIVITY_INACTIVE while nothing happens, a collection then moves it to   *)
(* ACTIVITY_DONE_GC and stops the timer, and the next thread to run starts  *)
(* it again (Schedule.c).  Reads, writes and the two halves of startTimer   *)
(* and stopTimer, the counter and the ticker, are steps of their own.       *)
(*                                                                         *)
(* A Task with nothing to run sleeps and looks at recent_activity no more:  *)
(* handle_tick wakes the I/O manager through its pipe, and the Capability   *)
(* on which that thread's Task returns has an awake Task again.  The pipe   *)
(* is there: base has called setIOManagerWakeupFd.  The thread itself is    *)
(* Haskell code of base; it only reads the pipe and goes back to wait.      *)
(*                                                                         *)
(* The rendezvous before a collection or a fork is one step here: it is in  *)
(* Schedule and GCThreads.  One signal handler runs at a time.              *)
(***************************************************************************)
EXTENDS Integers

CONSTANTS TimerCaps,      \* Capabilities
          IdleGC,         \* RtsFlags.GcFlags.doIdleGC
          Delay,          \* idleGCDelayTime / tickInterval
          Tick            \* the signal handler, as an actor beside the Capabilities

ASSUME TimerAssumption ==
  IdleGC \in BOOLEAN /\ Delay \in Nat /\ Tick \notin TimerCaps

VARIABLES at,           \* where each Capability's Task, and the handler, is
          activity,     \* recent_activity
          ticksToGc,    \* ticks_to_gc
          disabled,     \* timer_disabled
          ticker,       \* the interval timer is armed
          signal,       \* a tick is pending
          pipe,         \* io_manager_wakeup_fd holds a byte
          asked         \* why each Capability stops the others, or "io": it runs the I/O manager

flag == <<activity, ticksToGc>>
timer == <<disabled, ticker, signal>>
tmVars == <<at, activity, ticksToGc, disabled, ticker, signal, pipe, asked>>

Actors == TimerCaps \cup {Tick}
Goto(a, where) == at' = [at EXCEPT ![a] = where]

(* After initTimer and startTimer; no collection has been asked for.       *)
TimerStart(places) ==
  /\ at \in [Actors -> places \cup {"none"}] /\ \A a \in Actors : at[a] = "none" <=> a = Tick
  /\ activity = "yes" /\ ticksToGc = 0
  /\ disabled = 0 /\ ticker = TRUE /\ signal = FALSE /\ pipe = FALSE
  /\ asked = [c \in TimerCaps |-> "none"]
TimerInit == TimerStart({"idle", "running"})

----------------------------------------------------------------------------
(* startTimer, stopTimer                                                   *)

(* Where a caller of startTimer or stopTimer goes on.                      *)
Started(c) == IF asked[c] = "fork" THEN "release" ELSE "running"
Stopped(a) == IF a = Tick THEN "none" ELSE IF asked[a] = "fork" THEN "fork" ELSE "release"

(* Mutant: the counter is compared before it is lowered.                   *)
StartTimerEarly(c) ==
  /\ at[c] = "start"
  /\ disabled' = disabled - 1
  /\ Goto(c, IF disabled = 0 THEN "arm" ELSE Started(c))
  /\ UNCHANGED <<flag, ticker, signal, pipe, asked>>

StartTimer(c) ==
  /\ at[c] = "start"
  /\ disabled' = disabled - 1
  /\ Goto(c, IF disabled = 1 THEN "arm" ELSE Started(c))
  /\ UNCHANGED <<flag, ticker, signal, pipe, asked>>

StartTicker(c) ==
  /\ at[c] = "arm"
  /\ ticker' = TRUE /\ Goto(c, Started(c))
  /\ UNCHANGED <<flag, disabled, signal, pipe, asked>>

StopTimer(a) ==
  /\ at[a] = "stop"
  /\ disabled' = disabled + 1
  /\ Goto(a, IF disabled = 0 THEN "disarm" ELSE Stopped(a))
  /\ UNCHANGED <<flag, ticker, signal, pipe, asked>>

StopTicker(a) ==
  /\ at[a] = "disarm"
  /\ ticker' = FALSE /\ Goto(a, Stopped(a))
  /\ UNCHANGED <<flag, disabled, signal, pipe, asked>>

----------------------------------------------------------------------------
(* The timer signal                                                        *)

(* The interval is over; the signal may be taken after the timer is stopped. *)
Fire ==
  /\ ticker /\ ~signal
  /\ signal' = TRUE
  /\ UNCHANGED <<at, flag, disabled, ticker, pipe, asked>>

(* handle_tick reads recent_activity ...                                   *)
HandleTick ==
  /\ at[Tick] = "none" /\ signal
  /\ signal' = FALSE
  /\ Goto(Tick, IF activity = "yes" THEN "set_maybe"
                ELSE IF activity # "maybe_no" \/ ticksToGc > 0 THEN "none"
                ELSE IF IdleGC THEN "set_inactive" ELSE "set_done")
  /\ ticksToGc' = IF activity = "maybe_no" /\ ticksToGc > 0 THEN ticksToGc - 1 ELSE ticksToGc
  /\ UNCHANGED <<activity, disabled, ticker, pipe, asked>>

(* ... and writes what it has made of it.                                  *)
SetMaybe ==
  /\ at[Tick] = "set_maybe"
  /\ activity' = "maybe_no" /\ ticksToGc' = Delay /\ Goto(Tick, "none")
  /\ UNCHANGED <<timer, pipe, asked>>

(* Mutant: nobody is told.                                                 *)
SetInactiveSilently ==
  /\ at[Tick] = "set_inactive"
  /\ activity' = "inactive" /\ Goto(Tick, "none")
  /\ UNCHANGED <<ticksToGc, timer, pipe, asked>>

SetInactive ==
  /\ at[Tick] = "set_inactive"
  /\ activity' = "inactive" /\ Goto(Tick, "wake")
  /\ UNCHANGED <<ticksToGc, timer, pipe, asked>>

WakeUpRts ==
  /\ at[Tick] = "wake"
  /\ pipe' = TRUE /\ Goto(Tick, "none")
  /\ UNCHANGED <<flag, timer, asked>>

SetDoneWithoutGC ==
  /\ at[Tick] = "set_done"
  /\ activity' = "done_gc" /\ Goto(Tick, "stop")
  /\ UNCHANGED <<ticksToGc, timer, pipe, asked>>

----------------------------------------------------------------------------
(* The scheduler                                                           *)

(* It holds every Capability.                                              *)
Alone(c) ==
  \/ at[c] \in {"stop", "disarm", "collect", "set_done", "reset", "fork", "release"}
  \/ at[c] \in {"start", "arm"} /\ asked[c] = "fork"
Unstopped == \A d \in TimerCaps : ~Alone(d)

(* schedule() is about to run a thread: it reads recent_activity ...       *)
Runs(c) ==
  Goto(c, CASE activity = "done_gc" -> "xchg" [] activity = "inactive" -> "running" [] OTHER -> "set_yes")

(* ... for a thread of the run queue, or one that brings a Task with it: a  *)
(* wake-up, a call in or a return from a foreign call;                     *)
RunThread(c) ==
  /\ at[c] \in {"idle", "asleep"} /\ Unstopped
  /\ Runs(c)
  /\ UNCHANGED <<flag, timer, pipe, asked>>

(* or for the I/O manager's, which waits in a foreign call for its pipe:   *)
(* a Task that returns goes before those that would go on.                 *)
IOManagerWakes(c) ==
  /\ pipe /\ \A d \in TimerCaps : asked[d] # "io"
  /\ at[c] \in {"yield", "asleep"} /\ Unstopped
  /\ Runs(c) /\ asked' = [asked EXCEPT ![c] = "io"]
  /\ UNCHANGED <<flag, timer, pipe>>

IOManagerWaits(c) ==
  /\ at[c] = "running" /\ asked[c] = "io"
  /\ pipe' = FALSE
  /\ Goto(c, "idle") /\ asked' = [asked EXCEPT ![c] = "none"]
  /\ UNCHANGED <<flag, timer>>

(* ... and, unless an idle collection is due, resets it; whoever finds the *)
(* timer off starts it.                                                    *)
Exchange(c) ==
  /\ at[c] = "xchg"
  /\ activity' = "yes" /\ Goto(c, IF activity = "done_gc" THEN "start" ELSE "running")
  /\ UNCHANGED <<ticksToGc, timer, pipe, asked>>

SetYes(c) ==
  /\ at[c] = "set_yes"
  /\ activity' = "yes" /\ Goto(c, "running")
  /\ UNCHANGED <<ticksToGc, timer, pipe, asked>>

(* The thread stops; it may have filled the heap, or called for a major    *)
(* collection or a fork.                                                   *)
ThreadReturns(c) ==
  /\ at[c] = "running" /\ asked[c] # "io"
  /\ \/ Goto(c, "idle") /\ UNCHANGED asked
     \/ Goto(c, "sync") /\ \E why \in {"heap", "major", "fork"} : asked' = [asked EXCEPT ![c] = why]
  /\ UNCHANGED <<flag, timer, pipe>>

(* scheduleDetectDeadlock, with nothing to run: for idleGCDelayTime ...    *)
DetectDeadlock(c) ==
  /\ at[c] = "idle" /\ Unstopped
  /\ \/ activity = "inactive" /\ Goto(c, "sync") /\ asked' = [asked EXCEPT ![c] = "major"]
     \/ activity # "inactive" /\ Goto(c, "yield") /\ UNCHANGED asked
  /\ UNCHANGED <<flag, timer, pipe>>

(* ... or not yet: releaseCapability_ asks once more (globalWorkToDo), but  *)
(* for who waits to stop the others, and the Task sleeps.                  *)
Yield(c) ==
  /\ at[c] = "yield"
  /\ \/ activity = "inactive" /\ Goto(c, "idle")
     \/ (activity # "inactive" \/ \E d \in TimerCaps : at[d] = "sync") /\ Goto(c, "asleep")
  /\ UNCHANGED <<flag, timer, pipe, asked>>

(* It has every Capability.                                                *)
StopWorld(c) ==
  /\ at[c] = "sync" /\ \A d \in TimerCaps \ {c} : at[d] \in {"idle", "asleep", "sync"}
  /\ Goto(c, IF asked[c] = "fork" THEN "stop" ELSE "collect")
  /\ UNCHANGED <<flag, timer, pipe, asked>>

(* After GarbageCollect, scheduleDoGC reads recent_activity ...            *)
AfterGC(c) ==
  /\ at[c] = "collect"
  /\ Goto(c, CASE activity = "inactive" /\ asked[c] = "major" -> "set_done"
               [] activity \in {"inactive", "maybe_no"} /\ ~(activity = "inactive" /\ asked[c] = "major") -> "reset"
               [] OTHER -> "release")
  /\ UNCHANGED <<flag, timer, pipe, asked>>

(* ... records that it has collected for idleness and stops the timer, or  *)
(* forgets the ticks of a long collection.                                 *)
SetDone(c) ==
  /\ at[c] = "set_done"
  /\ activity' = "done_gc" /\ Goto(c, "stop")
  /\ UNCHANGED <<ticksToGc, timer, pipe, asked>>

ResetActivity(c) ==
  /\ at[c] = "reset"
  /\ activity' = "yes" /\ Goto(c, "release")
  /\ UNCHANGED <<ticksToGc, timer, pipe, asked>>

(* forkProcess, in the parent.                                             *)
Fork(c) ==
  /\ at[c] = "fork" /\ Goto(c, "start")
  /\ UNCHANGED <<flag, timer, pipe, asked>>

(* Who waited to collect finds it done, who waited to fork tries again, and *)
(* a Capability that is free is given to a worker that looks for deadlock. *)
ReleaseWorld(c) ==
  /\ at[c] = "release"
  /\ LET served == {d \in TimerCaps : d = c \/ (at[d] = "sync" /\ asked[d] # "fork")}
         woken == {d \in TimerCaps : at[d] = "asleep" /\ activity = "inactive"}
     IN  /\ at' = [a \in Actors |-> IF a \in served \cup woken THEN "idle" ELSE at[a]]
         /\ asked' = [d \in TimerCaps |-> IF d \in served THEN "none" ELSE asked[d]]
  /\ UNCHANGED <<flag, timer, pipe>>

----------------------------------------------------------------------------
TickStep ==
  \/ HandleTick \/ SetMaybe \/ SetInactive \/ WakeUpRts
  \/ SetDoneWithoutGC \/ StopTimer(Tick) \/ StopTicker(Tick)

CapStep(c) ==
  \/ StartTimer(c) \/ StartTicker(c) \/ StopTimer(c) \/ StopTicker(c)
  \/ Exchange(c) \/ SetYes(c) \/ IOManagerWaits(c) \/ DetectDeadlock(c) \/ Yield(c) \/ StopWorld(c) \/ AfterGC(c)
  \/ SetDone(c) \/ ResetActivity(c) \/ Fork(c) \/ ReleaseWorld(c)

IOManagerReturns == \E c \in TimerCaps : IOManagerWakes(c)

TimerNext ==
  \/ Fire \/ TickStep \/ IOManagerReturns
  \/ \E c \in TimerCaps : CapStep(c) \/ RunThread(c) \/ ThreadReturns(c)

(* The write of a Task that no tick has overtaken since its read.          *)
SetYesInTime == \E c \in TimerCaps : SetYes(c) /\ activity # "inactive"

(* The timer fires while it is armed; the handler goes on; a Task that is   *)
(* awake goes on, and one asleep only when it is woken; the I/O manager's  *)
(* foreign call returns once its pipe holds a byte, and its Task gets a    *)
(* Capability.  Who stops the others waits in their queues of returning    *)
(* Tasks, and gets them; the last tick of a delay does not for ever fall   *)
(* between a Task's read and its write.  A thread of the program need      *)
(* neither come nor return.                                                *)
TimerFairness ==
  /\ WF_tmVars(Fire) /\ WF_tmVars(TickStep) /\ WF_tmVars(IOManagerReturns)
  /\ \A c \in TimerCaps : WF_tmVars(CapStep(c)) /\ SF_tmVars(StopWorld(c))
  /\ SF_tmVars(SetYesInTime)

TimerSpec == TimerInit /\ [][TimerNext]_tmVars
FairTimer == TimerSpec /\ TimerFairness

----------------------------------------------------------------------------
(* Properties *)

(* Where Haskell code runs the timer is on, or somebody is starting it:    *)
(* without it, a thread that never blocks is never preempted.              *)
PreemptionOn ==
  \A c \in TimerCaps : at[c] = "running" => ticker \/ \E d \in TimerCaps : at[d] \in {"start", "arm"}

(* "If we've been inactive for idleGCDelayTime, tell the scheduler to wake *)
(* up and do a GC, to check for threads that are deadlocked": for ever and  *)
(* again threads of the program run, or a major collection is made, or one *)
(* was and nothing has happened since.                                     *)
DeadlockFound ==
  []<>(\/ activity = "done_gc"
       \/ \E c \in TimerCaps : at[c] = "running" /\ asked[c] # "io"
       \/ \E c \in TimerCaps : at[c] = "collect" /\ asked[c] = "major")
=============================================================================
