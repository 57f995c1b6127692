------------------------------- MODULE WorkPool -------------------------------
(***************************************************************************)
(* What a work-stealing deque promises its clients: a bounded double-ended *)
(* queue.  The owner adds and removes at the back, thieves remove at the   *)
(* front, and everything that was added leaves at most once.  Each         *)
(* operation is a single step here; WSDeque shows that the unsynchronised  *)
(* reads and writes of rts/WSDeque.c implement it.                         *)
(***************************************************************************)
EXTENDS Naturals, Sequences

CONSTANTS Items,      \* what is put into the pool, each at most once
          Capacity    \* the most the pool ever holds

VARIABLES queue,      \* front at index 1, back at index Len(queue)
          takes       \* how often each item has been handed to a caller

Init == /\ queue = <<>>
        /\ takes = [i \in Items |-> 0]

Handed(i) == takes' = [takes EXCEPT ![i] = @ + 1]

Push(i) == /\ Len(queue) < Capacity
           /\ takes[i] = 0
           /\ \A k \in 1..Len(queue) : queue[k] # i
           /\ queue' = Append(queue, i)
           /\ UNCHANGED takes

PopBack == /\ queue # <<>>
           /\ Handed(queue[Len(queue)])
           /\ queue' = SubSeq(queue, 1, Len(queue) - 1)

StealFront == /\ queue # <<>>
              /\ Handed(queue[1])
              /\ queue' = Tail(queue)

Discard == /\ queue' = <<>>
           /\ UNCHANGED takes

Next == \/ \E i \in Items : Push(i)
        \/ PopBack
        \/ StealFront
        \/ Discard

Spec == Init /\ [][Next]_<<queue, takes>>
===============================================================================
