------------------------------- MODULE MCWSDeque -------------------------------
(* Model-checking instance of WSDeque.  Size is what newWSDeque makes of a *)
(* request for a deque of MaxLocalSparks elements: with 3 of them it is 4, *)
(* the deque holds three elements, and the fifth item offered reuses the   *)
(* slot of the first.                                                      *)
EXTENDS WSDeque

CONSTANTS MaxLocalSparks,
          DiscardAfter,      \* bound: how many items have been offered when the owner may discard
          MaxDiscards        \* bound: how often it does

MCSize == RoundUp2[MaxLocalSparks]

(* The rounding keeps room for the elements asked for, although one slot   *)
(* of the array is never used.                                             *)
ASSUME RoundingLeavesRoom ==
    \A n \in 1..200 : RoundUp2[n] > n /\ RoundUp2[n] \div 2 <= n

VARIABLE discards
mcVars == <<vars, discards>>

(* Items differ by nothing but their identity: they are offered in order.  *)
InOrder == pushed' = pushed \/ \E n \in Items : pushed' = 1..n

Owns == OwnerStep /\ InOrder /\ UNCHANGED discards
Discards ==
    /\ discards < MaxDiscards /\ pushed = 1..DiscardAfter
    /\ DiscardElements /\ discards' = discards + 1
Steals == (\E t \in Thieves : StealBegin(t) \/ ThiefStep(t)) /\ UNCHANGED discards

MCInit == Init /\ discards = 0
MCSpec == MCInit /\ [][Owns \/ Discards \/ Steals]_mcVars /\ Fairness
===============================================================================
