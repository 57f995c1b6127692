------------------------------- MODULE MCScheduleGC -----------------------------
(***************************************************************************)
(* What a collection finds and what it leaves: the scheduler as it stops    *)
(* the world, and the spark pools as they are filled, robbed and pruned.    *)
(* The two share no state, and each is explored on its own.                *)
(***************************************************************************)
EXTENDS MCSchedule, Sparks

CONSTANTS heap1, caf1   \* closures, one of them static

VARIABLE explored

collectVars == <<vars, spVars, explored>>

CollectInit == explored \in {"threads", "sparks"} /\ Init /\ SparksInit
Scheduling == explored = "threads" /\ Next /\ UNCHANGED <<spVars, explored>>
Sparking == explored = "sparks" /\ SparksNext /\ UNCHANGED <<vars, explored>>

CollectSpec == CollectInit /\ [][Scheduling \/ Sparking]_collectVars
===============================================================================
