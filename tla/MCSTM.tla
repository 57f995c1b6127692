------------------------------- MODULE MCSTM -------------------------------
(* Small instances of STM: threads of a kind, and TVars, are interchangeable. *)
EXTENDS STM

Symmetry == Permutations(Threads \ Plain) \cup Permutations(Plain) \cup Permutations(TVars)
=============================================================================
