------------------------------ MODULE TimerProofs ------------------------------
(***************************************************************************)
(* Theorems about Timer, for any number of Capabilities and any delay: with *)
(* the idle collection on, the timer runs wherever Haskell code runs.      *)
(***************************************************************************)
EXTENDS Timer, TLAPS

Activities == {"yes", "maybe_no", "inactive", "done_gc"}
Switching == {"stop", "disarm", "fork", "start", "arm"}
CapPlaces ==
  {"idle", "yield", "asleep", "running", "xchg", "set_yes", "sync", "collect", "set_done", "reset", "release"}
    \cup Switching
TickPlaces == {"none", "set_maybe", "set_inactive", "wake"}

(* The types of Timer's variables; the handler never stops the timer.      *)
TimerTypeOK ==
  /\ at \in [Actors -> CapPlaces \cup TickPlaces]
  /\ at[Tick] \in TickPlaces /\ \A c \in TimerCaps : at[c] \in CapPlaces
  /\ activity \in Activities /\ ticksToGc \in Nat
  /\ disabled \in {0, 1, 2} /\ ticker \in BOOLEAN /\ signal \in BOOLEAN /\ pipe \in BOOLEAN
  /\ asked \in [TimerCaps -> {"none", "io", "heap", "major", "fork"}]

(* The timer has been stopped for idleness.                                *)
Off == activity = "done_gc"
Offs == IF Off THEN 1 ELSE 0
Special(c) == at[c] \in Switching

(* Why each Capability stops the others, where it does; or what it runs.   *)
AskedInv ==
  \A c \in TimerCaps :
    /\ at[c] \in {"idle", "yield", "asleep"} => asked[c] = "none"
    /\ at[c] \in {"running", "xchg", "set_yes"} => asked[c] \in {"none", "io"}
    /\ at[c] \in {"collect", "set_done", "reset"} => asked[c] # "fork"
    /\ at[c] = "fork" => asked[c] = "fork"
    /\ at[c] \in {"start", "arm"} => asked[c] \in {"none", "io", "fork"}

(* Who holds every Capability is alone; one at a time switches the timer.  *)
AloneInv ==
  \A c, d \in TimerCaps : c # d =>
    /\ Alone(c) => at[d] \in {"idle", "asleep", "sync"}
    /\ Special(c) => ~Special(d)

(* What the handler and the scheduler have read is still so, as far as it  *)
(* matters: nobody writes over ACTIVITY_DONE_GC but who then starts the    *)
(* timer.                                                                  *)
FlagInv ==
  /\ at[Tick] = "set_maybe" => activity = "yes"
  /\ at[Tick] = "set_inactive" => activity \in {"yes", "maybe_no"}
  /\ \A c \in TimerCaps :
       /\ at[c] = "set_done" => activity = "inactive"
       /\ at[c] \in {"set_yes", "reset", "running"} => ~Off

(* timer_disabled counts the idleness and the fork, and the ticker goes     *)
(* with it, but for who is between the two.                                *)
CounterInv ==
  /\ (\A c \in TimerCaps : ~Special(c)) => disabled = Offs /\ (ticker <=> ~Off)
  /\ \A c \in TimerCaps :
       /\ at[c] = "stop" => IF asked[c] = "fork" THEN disabled = Offs /\ (ticker <=> ~Off)
                                               ELSE disabled = 0 /\ ticker /\ Off
       /\ at[c] = "disarm" => disabled = 1 /\ ticker /\ (asked[c] = "fork" <=> ~Off)
       /\ at[c] = "fork" => disabled = 1 + Offs /\ ~ticker
       /\ at[c] = "start" => ~ticker /\ disabled = 1 + Offs /\ (asked[c] # "fork" => ~Off)
       /\ at[c] = "arm" => ~ticker /\ disabled = 0 /\ ~Off

TimerIInv == TimerTypeOK /\ AskedInv /\ AloneInv /\ FlagInv /\ CounterInv

----------------------------------------------------------------------------
(* The invariant *)

(* The handler is no Capability.                                           *)
LEMMA ActorsApart ==
  Tick \in Actors /\ Tick \notin TimerCaps /\ \A c \in TimerCaps : c \in Actors /\ c # Tick
BY TimerAssumption DEF Actors

(* A step of a Capability keeps it, action by action.                      *)
LEMMA CapKeeps ==
  ASSUME IdleGC = TRUE, NEW c \in TimerCaps, TimerIInv,
         CapStep(c) \/ RunThread(c) \/ ThreadReturns(c) \/ IOManagerWakes(c)
  PROVE  TimerIInv'
<1> USE ActorsApart DEF TimerIInv
<1>1. CASE StartTimer(c)
  <2>1. TimerTypeOK'
    BY <1>1 DEF StartTimer, TimerTypeOK, CapPlaces, Switching, CounterInv, Offs, flag, Goto,
       Started
  <2>2. AskedInv'
    BY <1>1 DEF StartTimer, AskedInv, Goto, Started
  <2>3. AloneInv'
    BY <1>1 DEF StartTimer, Switching, AloneInv, Alone, Special, Goto, Started
  <2>4. FlagInv'
    BY <1>1 DEF StartTimer, FlagInv, CounterInv, Off, flag, Goto, Started
  <2>5. CounterInv'
    BY <1>1 DEF StartTimer, TimerTypeOK, Switching, AloneInv, Special, CounterInv, Off,
       Offs, flag, Goto, Started
  <2> QED BY <2>1, <2>2, <2>3, <2>4, <2>5
<1>2. CASE StartTicker(c)
  <2>1. TimerTypeOK'
    BY <1>2 DEF StartTicker, TimerTypeOK, CapPlaces, flag, Goto, Started
  <2>2. AskedInv'
    BY <1>2 DEF StartTicker, AskedInv, Goto, Started
  <2>3. AloneInv'
    BY <1>2 DEF StartTicker, Switching, AloneInv, Alone, Special, Goto, Started
  <2>4. FlagInv'
    BY <1>2 DEF StartTicker, FlagInv, CounterInv, Off, flag, Goto, Started
  <2>5. CounterInv'
    BY <1>2 DEF StartTicker, TimerTypeOK, Switching, AloneInv, Special, CounterInv, Off,
       Offs, flag, Goto, Started
  <2> QED BY <2>1, <2>2, <2>3, <2>4, <2>5
<1>3. CASE StopTimer(c)
  <2>1. TimerTypeOK'
    BY <1>3 DEF StopTimer, TimerTypeOK, CapPlaces, Switching, CounterInv, Offs, flag, Goto,
       Stopped
  <2>2. AskedInv'
    BY <1>3 DEF StopTimer, AskedInv, Goto, Stopped
  <2>3. AloneInv'
    BY <1>3 DEF StopTimer, Switching, AloneInv, Alone, Special, Goto, Stopped
  <2>4. FlagInv'
    BY <1>3 DEF StopTimer, FlagInv, Off, flag, Goto, Stopped
  <2>5. CounterInv'
    BY <1>3 DEF StopTimer, TimerTypeOK, Switching, AloneInv, Special, CounterInv, Off, Offs,
       flag, Goto, Stopped
  <2> QED BY <2>1, <2>2, <2>3, <2>4, <2>5
<1>4. CASE StopTicker(c)
  <2>1. TimerTypeOK'
    BY <1>4 DEF StopTicker, TimerTypeOK, CapPlaces, Switching, flag, Goto, Stopped
  <2>2. AskedInv'
    BY <1>4 DEF StopTicker, AskedInv, Goto, Stopped
  <2>3. AloneInv'
    BY <1>4 DEF StopTicker, Switching, AloneInv, Alone, Special, Goto, Stopped
  <2>4. FlagInv'
    BY <1>4 DEF StopTicker, FlagInv, Off, flag, Goto, Stopped
  <2>5. CounterInv'
    BY <1>4 DEF StopTicker, TimerTypeOK, Switching, AloneInv, Special, CounterInv, Off,
       Offs, flag, Goto, Stopped
  <2> QED BY <2>1, <2>2, <2>3, <2>4, <2>5
<1>5. CASE Exchange(c)
  <2>1. TimerTypeOK'
    BY <1>5 DEF Exchange, TimerTypeOK, Activities, CapPlaces, Switching, timer, Goto
  <2>2. AskedInv'
    BY <1>5 DEF Exchange, AskedInv, Goto
  <2>3. AloneInv'
    BY <1>5 DEF Exchange, Switching, AskedInv, AloneInv, Alone, Special, CounterInv, Off, Goto
  <2>4. FlagInv'
    BY <1>5 DEF Exchange, AloneInv, Alone, FlagInv, Off, Goto
  <2>5. CounterInv'
    BY <1>5 DEF Exchange, TimerTypeOK, Switching, AloneInv, Alone, Special, CounterInv, Off,
       Offs, timer, Goto
  <2> QED BY <2>1, <2>2, <2>3, <2>4, <2>5
<1>6. CASE SetYes(c)
  <2>1. TimerTypeOK'
    BY <1>6 DEF SetYes, TimerTypeOK, Activities, CapPlaces, timer, Goto
  <2>2. AskedInv'
    BY <1>6 DEF SetYes, AskedInv, Goto
  <2>3. AloneInv'
    BY <1>6 DEF SetYes, Switching, AloneInv, Alone, Special, Goto
  <2>4. FlagInv'
    BY <1>6 DEF SetYes, AloneInv, Alone, FlagInv, Off, Goto
  <2>5. CounterInv'
    BY <1>6 DEF SetYes, Switching, Special, FlagInv, CounterInv, Off, Offs, timer, Goto
  <2> QED BY <2>1, <2>2, <2>3, <2>4, <2>5
<1>7. CASE DetectDeadlock(c)
  <2>1. TimerTypeOK'
    BY <1>7 DEF DetectDeadlock, TimerTypeOK, CapPlaces, flag, timer, Goto, Unstopped
  <2>2. AskedInv'
    BY <1>7 DEF DetectDeadlock, TimerTypeOK, AskedInv, Goto, Unstopped
  <2>3. AloneInv'
    BY <1>7 DEF DetectDeadlock, TimerTypeOK, Switching, AloneInv, Alone, Special, Goto, Unstopped
  <2>4. FlagInv'
    BY <1>7 DEF DetectDeadlock, TimerTypeOK, FlagInv, Off, flag, Goto, Unstopped
  <2>5. CounterInv'
    BY <1>7 DEF DetectDeadlock, TimerTypeOK, Switching, Special, CounterInv, Off, Offs, flag, timer,
       Goto, Unstopped
  <2> QED BY <2>1, <2>2, <2>3, <2>4, <2>5
<1>8. CASE StopWorld(c)
  <2>1. TimerTypeOK'
    BY <1>8 DEF StopWorld, TimerTypeOK, CapPlaces, Switching, flag, timer, Goto
  <2>2. AskedInv'
    BY <1>8 DEF StopWorld, AskedInv, Goto
  <2>3. AloneInv'
    BY <1>8 DEF StopWorld, Switching, AloneInv, Alone, Special, Goto
  <2>4. FlagInv'
    BY <1>8 DEF StopWorld, FlagInv, flag, Goto
  <2>5. CounterInv'
    BY <1>8 DEF StopWorld, Switching, Special, CounterInv, Off, Offs, flag, timer, Goto
  <2> QED BY <2>1, <2>2, <2>3, <2>4, <2>5
<1>9. CASE AfterGC(c)
  <2>1. TimerTypeOK'
    BY <1>9 DEF AfterGC, TimerTypeOK, CapPlaces, flag, timer, Goto
  <2>2. AskedInv'
    BY <1>9 DEF AfterGC, AskedInv, Goto
  <2>3. AloneInv'
    BY <1>9 DEF AfterGC, Switching, AloneInv, Alone, Special, Goto
  <2>4. FlagInv'
    BY <1>9 DEF AfterGC, FlagInv, Off, flag, Goto
  <2>5. CounterInv'
    BY <1>9 DEF AfterGC, Switching, Special, CounterInv, Off, Offs, flag, timer, Goto
  <2> QED BY <2>1, <2>2, <2>3, <2>4, <2>5
<1>10. CASE SetDone(c)
  <2>1. TimerTypeOK'
    BY <1>10 DEF SetDone, TimerTypeOK, Activities, CapPlaces, Switching, timer, Goto
  <2>2. AskedInv'
    BY <1>10 DEF SetDone, AskedInv, Goto
  <2>3. AloneInv'
    BY <1>10 DEF SetDone, Switching, AloneInv, Alone, Special, Goto
  <2>4. FlagInv'
    BY <1>10 DEF SetDone, TimerTypeOK, AloneInv, Alone, FlagInv, Goto
  <2>5. CounterInv'
    BY <1>10 DEF SetDone, TimerTypeOK, Switching, AskedInv, AloneInv, Alone, Special,
       FlagInv, CounterInv, Off, Offs, timer, Goto
  <2> QED BY <2>1, <2>2, <2>3, <2>4, <2>5
<1>11. CASE ResetActivity(c)
  <2>1. TimerTypeOK'
    BY <1>11 DEF ResetActivity, TimerTypeOK, Activities, CapPlaces, timer, Goto
  <2>2. AskedInv'
    BY <1>11 DEF ResetActivity, AskedInv, Goto
  <2>3. AloneInv'
    BY <1>11 DEF ResetActivity, Switching, AloneInv, Alone, Special, Goto
  <2>4. FlagInv'
    BY <1>11 DEF ResetActivity, AloneInv, Alone, FlagInv, Off, Goto
  <2>5. CounterInv'
    BY <1>11 DEF ResetActivity, Switching, Special, FlagInv, CounterInv, Off, Offs, timer, Goto
  <2> QED BY <2>1, <2>2, <2>3, <2>4, <2>5
<1>12. CASE Fork(c)
  <2>1. TimerTypeOK'
    BY <1>12 DEF Fork, TimerTypeOK, CapPlaces, Switching, flag, timer, Goto
  <2>2. AskedInv'
    BY <1>12 DEF Fork, AskedInv, Goto
  <2>3. AloneInv'
    BY <1>12 DEF Fork, Switching, AloneInv, Alone, Special, Goto
  <2>4. FlagInv'
    BY <1>12 DEF Fork, FlagInv, Off, flag, Goto
  <2>5. CounterInv'
    BY <1>12 DEF Fork, Switching, AskedInv, Special, CounterInv, Off, Offs, flag, timer, Goto
  <2> QED BY <2>1, <2>2, <2>3, <2>4, <2>5
<1>13. CASE ReleaseWorld(c)
  <2>1. TimerTypeOK'
    BY <1>13 DEF ReleaseWorld, TimerTypeOK, CapPlaces, flag, timer
  <2>2. AskedInv'
    BY <1>13 DEF ReleaseWorld, AskedInv
  <2>3. AloneInv'
    BY <1>13 DEF ReleaseWorld, Switching, AloneInv, Alone, Special
  <2>4. FlagInv'
    BY <1>13 DEF ReleaseWorld, FlagInv, Off, flag
  <2>5. CounterInv'
    BY <1>13 DEF ReleaseWorld, Switching, Special, CounterInv, Off, Offs, flag, timer
  <2> QED BY <2>1, <2>2, <2>3, <2>4, <2>5
<1>14. CASE RunThread(c)
  <2>1. TimerTypeOK'
    BY <1>14 DEF RunThread, TimerTypeOK, CapPlaces, flag, timer, Goto, Runs, Unstopped
  <2>2. AskedInv'
    BY <1>14 DEF RunThread, AskedInv, Goto, Runs, Unstopped
  <2>3. AloneInv'
    BY <1>14 DEF RunThread, Switching, AloneInv, Alone, Special, Goto, Runs, Unstopped
  <2>4. FlagInv'
    BY <1>14 DEF RunThread, FlagInv, Off, flag, Goto, Runs, Unstopped
  <2>5. CounterInv'
    BY <1>14 DEF RunThread, Switching, Special, CounterInv, Off, Offs, flag, timer, Goto, Runs, Unstopped
  <2> QED BY <2>1, <2>2, <2>3, <2>4, <2>5
<1>15. CASE ThreadReturns(c)
  <2>1. TimerTypeOK'
    BY <1>15 DEF ThreadReturns, TimerTypeOK, CapPlaces, flag, timer, Goto
  <2>2. AskedInv'
    BY <1>15 DEF ThreadReturns, TimerTypeOK, AskedInv, Goto
  <2>3. AloneInv'
    BY <1>15 DEF ThreadReturns, TimerTypeOK, Switching, AloneInv, Alone, Special, Goto
  <2>4. FlagInv'
    BY <1>15 DEF ThreadReturns, TimerTypeOK, FlagInv, Off, flag, Goto
  <2>5. CounterInv'
    BY <1>15 DEF ThreadReturns, TimerTypeOK, Switching, Special, CounterInv, Off, Offs,
       flag, timer, Goto
  <2> QED BY <2>1, <2>2, <2>3, <2>4, <2>5
<1>16. CASE IOManagerWakes(c)
  <2>1. TimerTypeOK'
    BY <1>16 DEF IOManagerWakes, TimerTypeOK, CapPlaces, flag, timer, Goto, Runs, Unstopped
  <2>2. AskedInv'
    BY <1>16 DEF IOManagerWakes, TimerTypeOK, AskedInv, Goto, Runs, Unstopped
  <2>3. AloneInv'
    BY <1>16 DEF IOManagerWakes, TimerTypeOK, Switching, AloneInv, Alone, Special, Goto, Runs, Unstopped
  <2>4. FlagInv'
    BY <1>16 DEF IOManagerWakes, TimerTypeOK, FlagInv, Off, flag, Goto, Runs, Unstopped
  <2>5. CounterInv'
    BY <1>16 DEF IOManagerWakes, TimerTypeOK, Switching, Special, CounterInv, Off, Offs, flag, timer,
       Goto, Runs, Unstopped
  <2> QED BY <2>1, <2>2, <2>3, <2>4, <2>5
<1>17. CASE IOManagerWaits(c)
  <2>1. TimerTypeOK'
    BY <1>17 DEF IOManagerWaits, TimerTypeOK, CapPlaces, flag, timer, Goto
  <2>2. AskedInv'
    BY <1>17 DEF IOManagerWaits, TimerTypeOK, AskedInv, Goto
  <2>3. AloneInv'
    BY <1>17 DEF IOManagerWaits, TimerTypeOK, Switching, AloneInv, Alone, Special, Goto
  <2>4. FlagInv'
    BY <1>17 DEF IOManagerWaits, TimerTypeOK, FlagInv, Off, flag, Goto
  <2>5. CounterInv'
    BY <1>17 DEF IOManagerWaits, TimerTypeOK, Switching, Special, CounterInv, Off, Offs, flag, timer, Goto
  <2> QED BY <2>1, <2>2, <2>3, <2>4, <2>5
<1>18. CASE Yield(c)
  <2>1. TimerTypeOK'
    BY <1>18 DEF Yield, TimerTypeOK, CapPlaces, flag, timer, Goto
  <2>2. AskedInv'
    BY <1>18 DEF Yield, TimerTypeOK, AskedInv, Goto
  <2>3. AloneInv'
    BY <1>18 DEF Yield, TimerTypeOK, Switching, AloneInv, Alone, Special, Goto
  <2>4. FlagInv'
    BY <1>18 DEF Yield, TimerTypeOK, FlagInv, Off, flag, Goto
  <2>5. CounterInv'
    BY <1>18 DEF Yield, TimerTypeOK, Switching, Special, CounterInv, Off, Offs, flag, timer, Goto
  <2> QED BY <2>1, <2>2, <2>3, <2>4, <2>5
<1> QED BY <1>1, <1>2, <1>3, <1>4, <1>5, <1>6, <1>7, <1>8, <1>9, <1>10, <1>11, <1>12, <1>13,
   <1>14, <1>15, <1>16, <1>17, <1>18 DEF CapStep

(* So does the signal, while the handler leaves the timer alone.           *)
LEMMA TickKeeps ==
  ASSUME IdleGC = TRUE, TimerIInv, Fire \/ TickStep
  PROVE  TimerIInv'
<1> USE ActorsApart DEF TimerIInv
<1>0. ~SetDoneWithoutGC /\ ~StopTimer(Tick) /\ ~StopTicker(Tick)
  BY DEF SetDoneWithoutGC, StopTimer, StopTicker, TimerTypeOK, TickPlaces
<1>1. CASE Fire
  <2>1. TimerTypeOK'
    BY <1>1 DEF Fire, TimerTypeOK, flag
  <2>2. AskedInv'
    BY <1>1 DEF Fire, AskedInv
  <2>3. AloneInv'
    BY <1>1 DEF Fire, AloneInv, Alone, Special
  <2>4. FlagInv'
    BY <1>1 DEF Fire, FlagInv, Off, flag
  <2>5. CounterInv'
    BY <1>1 DEF Fire, Special, CounterInv, Off, Offs, flag
  <2> QED BY <2>1, <2>2, <2>3, <2>4, <2>5
<1>2. CASE HandleTick
  <2>1. TimerTypeOK'
    <3>1. ticksToGc' \in Nat
      BY <1>2, TimerAssumption DEF HandleTick, TimerTypeOK
    <3>2. at' = [at EXCEPT ![Tick] = at'[Tick]] /\ at'[Tick] \in TickPlaces
      BY <1>2 DEF HandleTick, Goto, TimerTypeOK, TickPlaces
    <3> QED BY <1>2, <3>1, <3>2 DEF HandleTick, TimerTypeOK
  <2>2. AskedInv'
    BY <1>2 DEF HandleTick, AskedInv, Goto
  <2>3. AloneInv'
    BY <1>2 DEF HandleTick, AloneInv, Alone, Special, Goto
  <2>4. FlagInv'
    BY <1>2 DEF HandleTick, FlagInv, Off, Goto
  <2>5. CounterInv'
    BY <1>2 DEF HandleTick, Special, CounterInv, Off, Offs, Goto
  <2> QED BY <2>1, <2>2, <2>3, <2>4, <2>5
<1>3. CASE SetMaybe
  <2>1. TimerTypeOK'
    BY <1>3, TimerAssumption DEF SetMaybe, TimerTypeOK, Activities, TickPlaces, timer, Goto
  <2>2. AskedInv'
    BY <1>3 DEF SetMaybe, AskedInv, Goto
  <2>3. AloneInv'
    BY <1>3 DEF SetMaybe, AloneInv, Alone, Special, Goto
  <2>4. FlagInv'
    BY <1>3 DEF SetMaybe, TimerTypeOK, FlagInv, Off, Goto
  <2>5. CounterInv'
    BY <1>3 DEF SetMaybe, Special, FlagInv, CounterInv, Off, Offs, timer, Goto
  <2> QED BY <2>1, <2>2, <2>3, <2>4, <2>5
<1>4. CASE SetInactive
  <2>1. TimerTypeOK'
    BY <1>4 DEF SetInactive, TimerTypeOK, Activities, TickPlaces, timer, Goto
  <2>2. AskedInv'
    BY <1>4 DEF SetInactive, AskedInv, Goto
  <2>3. AloneInv'
    BY <1>4 DEF SetInactive, AloneInv, Alone, Special, Goto
  <2>4. FlagInv'
    BY <1>4 DEF SetInactive, TimerTypeOK, FlagInv, Off, Goto
  <2>5. CounterInv'
    BY <1>4 DEF SetInactive, Special, FlagInv, CounterInv, Off, Offs, timer, Goto
  <2> QED BY <2>1, <2>2, <2>3, <2>4, <2>5
<1>5. CASE WakeUpRts
  <2>1. TimerTypeOK'
    BY <1>5 DEF WakeUpRts, TimerTypeOK, TickPlaces, flag, timer, Goto
  <2>2. AskedInv'
    BY <1>5 DEF WakeUpRts, AskedInv, Goto
  <2>3. AloneInv'
    BY <1>5 DEF WakeUpRts, AloneInv, Alone, Special, Goto
  <2>4. FlagInv'
    BY <1>5 DEF WakeUpRts, TimerTypeOK, FlagInv, Off, flag, Goto
  <2>5. CounterInv'
    BY <1>5 DEF WakeUpRts, Special, CounterInv, Off, Offs, flag, timer, Goto
  <2> QED BY <2>1, <2>2, <2>3, <2>4, <2>5
<1> QED BY <1>0, <1>1, <1>2, <1>3, <1>4, <1>5 DEF TickStep

LEMMA TimerInductive == IdleGC = TRUE => (TimerSpec => []TimerIInv)
<1> SUFFICES ASSUME IdleGC = TRUE PROVE TimerSpec => []TimerIInv
  OBVIOUS
<1>1. ASSUME TimerInit PROVE TimerIInv
  <2>1. /\ at \in [Actors -> CapPlaces \cup TickPlaces] /\ at[Tick] = "none"
        /\ \A c \in TimerCaps : at[c] \in {"idle", "running"}
    BY <1>1, ActorsApart DEF TimerInit, TimerStart, CapPlaces, TickPlaces
  <2>2. activity = "yes" /\ ticksToGc = 0 /\ disabled = 0 /\ ticker = TRUE /\ signal = FALSE /\ pipe = FALSE
    BY <1>1 DEF TimerInit, TimerStart
  <2>3. asked = [c \in TimerCaps |-> "none"]
    BY <1>1 DEF TimerInit, TimerStart
  <2>4. \A c \in TimerCaps : at[c] \in CapPlaces /\ ~Alone(c) /\ ~Special(c)
    BY <2>1 DEF Alone, Special, Switching, CapPlaces
  <2>5. TimerTypeOK
    BY <2>1, <2>2, <2>3, <2>4 DEF TimerTypeOK, TickPlaces, Activities
  <2>6. AskedInv /\ AloneInv /\ FlagInv
    BY <2>1, <2>2, <2>3, <2>4 DEF AskedInv, AloneInv, FlagInv, Off
  <2>7. CounterInv
    BY <2>2, <2>4 DEF CounterInv, Special, Switching, Off, Offs
  <2> QED BY <2>5, <2>6, <2>7 DEF TimerIInv
<1>2. ASSUME TimerIInv, [TimerNext]_tmVars PROVE TimerIInv'
  <2>1. CASE TimerNext
    BY <1>2, <2>1, CapKeeps, TickKeeps DEF TimerNext, IOManagerReturns
  <2>2. CASE UNCHANGED tmVars
    BY <1>2, <2>2 DEF tmVars, TimerIInv, TimerTypeOK, AskedInv, AloneInv, FlagInv,
       CounterInv, Alone, Special, Off, Offs
  <2> QED BY <1>2, <2>1, <2>2
<1> QED BY <1>1, <1>2, PTL DEF TimerSpec

----------------------------------------------------------------------------
(* Theorems *)

(* The types; timer_disabled is at most one for the idleness and one for a *)
(* fork, and never wraps below zero.                                       *)
THEOREM TimerTypeCorrect == IdleGC = TRUE => (TimerSpec => []TimerTypeOK)
<1> SUFFICES ASSUME IdleGC = TRUE PROVE TimerSpec => []TimerTypeOK
  OBVIOUS
<1>1. TimerSpec => []TimerIInv
  BY TimerInductive
<1>2. TimerIInv => TimerTypeOK
  BY DEF TimerIInv
<1> QED BY <1>1, <1>2, PTL

(* Where Haskell code runs the timer is on, or somebody is starting it.    *)
THEOREM TimerIsOn == IdleGC = TRUE => (TimerSpec => []PreemptionOn)
<1> SUFFICES ASSUME IdleGC = TRUE PROVE TimerSpec => []PreemptionOn
  OBVIOUS
<1>1. TimerSpec => []TimerIInv
  BY TimerInductive
<1>2. TimerIInv => PreemptionOn
  <2> SUFFICES ASSUME TimerIInv, NEW c \in TimerCaps, at[c] = "running",
                      \A d \in TimerCaps : at[d] \notin {"start", "arm"}
               PROVE  ticker
    BY DEF PreemptionOn
  <2>1. \A d \in TimerCaps : ~Special(d)
    BY DEF TimerIInv, AloneInv, Alone, Special, Switching
  <2>2. ~Off
    BY DEF TimerIInv, FlagInv
  <2> QED BY <2>1, <2>2 DEF TimerIInv, CounterInv
<1> QED BY <1>1, <1>2, PTL
================================================================================
