------------------------------ MODULE MCSchedule ------------------------------
(* Instances of the scheduler for TLC: two Capabilities.  Workers are      *)
(* interchangeable, in Init too, so the safety runs use their symmetry.    *)
EXTENDS Schedule

CONSTANTS w1, w2, w3, w4, w5,   \* workers
          b1, b2,               \* OS threads of the program
          u1                    \* an unbound Haskell thread

Symmetry == Permutations(Workers)
===============================================================================
