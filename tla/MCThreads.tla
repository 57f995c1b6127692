------------------------------ MODULE MCThreads ------------------------------
(***************************************************************************)
(* What threads wait for, in small instances: MVars and exceptions, and     *)
(* black holes.  The two share no state, and each is explored on its own.   *)
(* Threads and Capabilities are interchangeable.                           *)
(***************************************************************************)
EXTENDS Threads, BlackHole

CONSTANTS c1, c2, t1, t2, t3, mvar1, MaxOps

VARIABLE waitFor      \* what is explored

Scripts ==
  { <<>>, <<"take">>, <<"put">>, <<"throw">>, <<"throw", "throw">>, <<"take", "put">>,
    <<"self">>, <<"interruptible", "take", "none">>, <<"interruptible", "throw">>,
    <<"uninterruptible", "take">>, <<"uninterruptible", "throw", "none">>, <<"interruptible", "put", "none">>,
    <<"move", "take">>, <<"interruptible", "move">> }
(* One operation more than MaxOps if a thread has a masked script of three. *)
Scripted ==
  { p \in [Threads -> Scripts] :
      LET ops == FoldFunction(LAMBDA s, n : n + Len(s), 0, p)
      IN ops <= MaxOps \/ (ops = MaxOps + 1 /\ \E t \in Threads : Len(p[t]) = 3) }

SomeBudgets == {[preempt |-> 2, move |-> 0, kill |-> 0], [preempt |-> 1, move |-> 1, kill |-> 0], [preempt |-> 1, move |-> 0, kill |-> 1]}

Symmetry == Permutations(Threads) \cup Permutations(Capabilities)

waitVars == <<threadVars, bhVars, waitFor>>

(* The part that is not explored has its threads on no Capability.         *)
WaitInit ==
  \/ /\ waitFor = "mvars" /\ ThreadsInit
     /\ BHStart([t \in Tsos |-> Nobody], [t \in Tsos |-> 1]) /\ budget = [preempt |-> 0, move |-> 0, kill |-> 0]
  \/ /\ waitFor = "thunks" /\ BHInit
     /\ ThreadsStart([t \in Threads |-> None], [t \in Threads |-> "unmasked"]) /\ program = [t \in Threads |-> <<>>]

Exchanges == waitFor = "mvars" /\ ThreadsNext /\ UNCHANGED <<bhVars, waitFor>>
Evaluation == waitFor = "thunks" /\ BHNext /\ UNCHANGED <<threadVars, waitFor>>

WaitSpec == WaitInit /\ [][Exchanges \/ Evaluation]_waitVars
==============================================================================
