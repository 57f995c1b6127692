-------------------------------- MODULE WSDeque --------------------------------
(***************************************************************************)
(* The Chase-Lev work-stealing deque of kernel/rts/WSDeque.c.              *)
(*                                                                         *)
(* One owner pushes and pops at bottom without a lock; any number of       *)
(* thieves advance top with a compare-and-swap.  Every access to a field   *)
(* that another thread may touch at the same time is a step of its own, in *)
(* the order the barriers of the code impose (store_load_barrier in        *)
(* popWSDeque, load_load_barrier in stealWSDeque_, write_barrier in        *)
(* pushWSDeque), so the steps interleave sequentially consistently.        *)
(*                                                                         *)
(* top and bottom are words that grow without bound; the code compares     *)
(* their signed difference and assumes they never wrap (WSDeque.c:17-20),  *)
(* so they are integers here, and the -1 that popWSDeque stores in an      *)
(* empty deque is the integer -1.  A local of the owner or of a thief is 0 *)
(* or NoItem where the code will not read it again.                        *)
(***************************************************************************)
EXTENDS Integers, Sequences, FiniteSets

CONSTANTS Size,      \* q->size, a power of two
          Thieves,   \* threads that steal
          Items,     \* closures pushed, each counted once
          NoItem     \* NULL, and a slot that was never written

ASSUME WSDequeAssumption ==
    /\ Size \in Nat /\ Size >= 2
    /\ NoItem \notin Items

VARIABLES
    top, bottom, topBound,   \* q->top, q->bottom, q->topBound
    elements,                \* q->elements
    opc, ot, pushing,        \* the owner: where it is, its local t, its argument
    tpc, st, stolen,         \* each thief: where it is, its locals t and stolen
    pushed, takes            \* history: items offered, times handed out

ownerVars == <<opc, ot, pushing>>
thiefVars == <<tpc, st, stolen>>
histVars  == <<pushed, takes>>
vars == <<top, bottom, topBound, elements, ownerVars, thiefVars, histVars>>

(* The rounding newWSDeque applies to the size it is asked for: the power  *)
(* of two strictly above it, because the loop shifts once for the top bit. *)
RoundUp2[val \in Nat] ==
    IF val \div 2 = 0 THEN 2 ELSE 2 * RoundUp2[val \div 2]

ModuloSize == Size - 1
Slot(n) == n % Size          \* n & q->moduloSize

OwnerStates == {"idle", "push_top", "push_elem", "push_bottom",
                "pop_top", "pop_reset", "pop_cas", "pop_fix"}
ThiefStates == {"idle", "steal_top", "steal_bottom", "steal_elem", "steal_cas",
                "empty_top", "empty_bottom"}

Init ==
    /\ top = 0 /\ bottom = 0 /\ topBound = 0
    /\ elements = [n \in 0..ModuloSize |-> NoItem]
    /\ opc = "idle" /\ ot = 0 /\ pushing = NoItem
    /\ tpc = [t \in Thieves |-> "idle"]
    /\ st = [t \in Thieves |-> 0]
    /\ stolen = [t \in Thieves |-> NoItem]
    /\ pushed = {}
    /\ takes = [i \in Items |-> 0]

(* CASTOP(&q->top, old, old + 1) succeeds. *)
CasBlind(old) == TRUE                            \* mutant: a plain store
CasTop(old) == top = old

(* With t for top, no element can be pushed. *)
NeverFull(t) == FALSE                            \* mutant: the test dropped
IsFull(t) == bottom - t >= ModuloSize

(* After the decrement, the element at bottom is not the only one left. *)
OneOrMoreLeft == bottom - top >= 0               \* mutant: off by one
MoreLeft == bottom - top > 0

LooksEmpty(t) == bottom - t <= 0

(* An item leaves the deque for good, into the hands of a caller. *)
Take(i) == takes' = [takes EXCEPT ![i] = @ + 1]

-------------------------------------------------------------------------------
(* pushWSDeque *)

PushBegin(i) ==
    /\ opc = "idle"
    /\ i \notin pushed
    /\ pushed' = pushed \cup {i}
    /\ pushing' = i
    /\ opc' = IF IsFull(topBound) THEN "push_top" ELSE "push_elem"
    /\ UNCHANGED <<top, bottom, topBound, elements, ot, thiefVars, takes>>

(* The cached bound says full: look at the real top, and give up with     *)
(* rtsFalse when the deque really is full (DISCARD_NEW).                   *)
PushReadTop ==
    /\ opc = "push_top"
    /\ topBound' = top
    /\ IF IsFull(top)
         THEN opc' = "idle" /\ pushing' = NoItem
         ELSE opc' = "push_elem" /\ UNCHANGED pushing
    /\ UNCHANGED <<top, bottom, elements, ot, thiefVars, histVars>>

PushWriteElement ==
    /\ opc = "push_elem"
    /\ elements' = [elements EXCEPT ![Slot(bottom)] = pushing]
    /\ opc' = "push_bottom"
    /\ UNCHANGED <<top, bottom, topBound, ot, pushing, thiefVars, histVars>>

PushWriteBottom ==
    /\ opc = "push_bottom"
    /\ bottom' = bottom + 1
    /\ opc' = "idle" /\ pushing' = NoItem
    /\ UNCHANGED <<top, topBound, elements, ot, thiefVars, histVars>>

-------------------------------------------------------------------------------
(* popWSDeque *)

PopDecrement ==
    /\ opc = "idle"
    /\ bottom' = bottom - 1
    /\ opc' = "pop_top"
    /\ UNCHANGED <<top, topBound, elements, ot, pushing, thiefVars, histVars>>

(* The read of top decides: empty, more than one element left, or the last *)
(* one.  Only the owner writes elements and topBound, so reading the       *)
(* element is part of the same step.                                       *)
PopReadTop ==
    /\ opc = "pop_top"
    /\ topBound' = top
    /\ \/ /\ bottom - top < 0
          /\ ot' = top /\ opc' = "pop_reset"
          /\ UNCHANGED takes
       \/ /\ MoreLeft
          /\ opc' = "idle" /\ UNCHANGED ot
          /\ Take(elements[Slot(bottom)])
       \/ /\ bottom = top
          /\ ot' = top /\ opc' = "pop_cas"
          /\ UNCHANGED takes
    /\ UNCHANGED <<top, bottom, elements, pushing, thiefVars, pushed>>

PopReset ==
    /\ opc = "pop_reset"
    /\ bottom' = ot
    /\ opc' = "idle" /\ ot' = 0
    /\ UNCHANGED <<top, topBound, elements, pushing, thiefVars, histVars>>

PopCas ==
    /\ opc = "pop_cas"
    /\ IF CasTop(ot)
         THEN top' = ot + 1 /\ Take(elements[Slot(bottom)])
         ELSE UNCHANGED <<top, takes>>
    /\ opc' = "pop_fix"
    /\ UNCHANGED <<bottom, topBound, elements, ot, pushing, thiefVars, pushed>>

\* mutant: bottom is left where the decrement put it
PopFixNoBottom ==
    /\ opc = "pop_fix"
    /\ topBound' = ot + 1
    /\ opc' = "idle" /\ ot' = 0
    /\ UNCHANGED <<top, bottom, elements, pushing, thiefVars, histVars>>

PopFix ==
    /\ opc = "pop_fix"
    /\ bottom' = ot + 1
    /\ topBound' = ot + 1
    /\ opc' = "idle" /\ ot' = 0
    /\ UNCHANGED <<top, elements, pushing, thiefVars, histVars>>

(* discardElements: one store to top, of a bottom only the owner writes. *)
DiscardElements ==
    /\ opc = "idle"
    /\ top' = bottom
    /\ UNCHANGED <<bottom, topBound, elements, ownerVars, thiefVars, histVars>>

-------------------------------------------------------------------------------
(* stealWSDeque: stealWSDeque_ repeated until it succeeds or the deque     *)
(* looks empty.                                                            *)

Goto(t, pc) == tpc' = [tpc EXCEPT ![t] = pc]

StealReadTop(t) ==
    /\ st' = [st EXCEPT ![t] = top]
    /\ Goto(t, "steal_bottom")
    /\ UNCHANGED <<top, bottom, topBound, elements, ownerVars, stolen, histVars>>

StealBegin(t) == tpc[t] = "idle" /\ StealReadTop(t)
StealRetry(t) == tpc[t] = "steal_top" /\ StealReadTop(t)

StealReadBottom(t) ==
    /\ tpc[t] = "steal_bottom"
    /\ IF LooksEmpty(st[t])
         THEN Goto(t, "empty_top") /\ st' = [st EXCEPT ![t] = 0]
         ELSE Goto(t, "steal_elem") /\ UNCHANGED st
    /\ UNCHANGED <<top, bottom, topBound, elements, ownerVars, stolen, histVars>>

StealReadElement(t) ==
    /\ tpc[t] = "steal_elem"
    /\ stolen' = [stolen EXCEPT ![t] = elements[Slot(st[t])]]
    /\ Goto(t, "steal_cas")
    /\ UNCHANGED <<top, bottom, topBound, elements, ownerVars, st, histVars>>

StealCas(t) ==
    /\ tpc[t] = "steal_cas"
    /\ IF CasTop(st[t])
         THEN top' = st[t] + 1 /\ Take(stolen[t]) /\ Goto(t, "idle")
         ELSE UNCHANGED <<top, takes>> /\ Goto(t, "empty_top")
    /\ stolen' = [stolen EXCEPT ![t] = NoItem]
    /\ st' = [st EXCEPT ![t] = 0]
    /\ UNCHANGED <<bottom, topBound, elements, ownerVars, pushed>>

(* looksEmptyWSDeque: dequeElements reads top, then bottom. *)
LooksEmptyReadTop(t) ==
    /\ tpc[t] = "empty_top"
    /\ st' = [st EXCEPT ![t] = top]
    /\ Goto(t, "empty_bottom")
    /\ UNCHANGED <<top, bottom, topBound, elements, ownerVars, stolen, histVars>>

\* mutant: a deque with nothing in it does not look empty
NeverEmptyReadBottom(t) ==
    /\ tpc[t] = "empty_bottom"
    /\ Goto(t, IF bottom - st[t] < 0 THEN "idle" ELSE "steal_top")
    /\ UNCHANGED <<top, bottom, topBound, elements, ownerVars, st, stolen, histVars>>

LooksEmptyReadBottom(t) ==
    /\ tpc[t] = "empty_bottom"
    /\ Goto(t, IF LooksEmpty(st[t]) THEN "idle" ELSE "steal_top")
    /\ st' = [st EXCEPT ![t] = 0]
    /\ UNCHANGED <<top, bottom, topBound, elements, ownerVars, stolen, histVars>>

-------------------------------------------------------------------------------
OwnerStep ==
    \/ \E i \in Items : PushBegin(i)
    \/ PushReadTop \/ PushWriteElement \/ PushWriteBottom
    \/ PopDecrement \/ PopReadTop \/ PopReset \/ PopCas \/ PopFix

OwnerNext == OwnerStep \/ DiscardElements

ThiefStep(t) ==
    \/ StealRetry(t) \/ StealReadBottom(t) \/ StealReadElement(t) \/ StealCas(t)
    \/ LooksEmptyReadTop(t) \/ LooksEmptyReadBottom(t)

Next == OwnerNext \/ \E t \in Thieves : StealBegin(t) \/ ThiefStep(t)

Spec == Init /\ [][Next]_vars

(* A thread that has started a steal keeps running. *)
Fairness == \A t \in Thieves : WF_vars(ThiefStep(t))
FairSpec == Spec /\ Fairness

-------------------------------------------------------------------------------
(* What the deque holds.  Between its store to bottom and the end of the   *)
(* pop the owner has only reserved the last element: it still belongs to   *)
(* the deque until the pop, or a thief, claims it.                         *)
Popping == opc \in {"pop_top", "pop_reset", "pop_cas", "pop_fix"}
Back == IF Popping THEN bottom + 1 ELSE bottom
Held(n) == elements[Slot(n)]
Window == top..(Back - 1)

Pool == INSTANCE WorkPool
          WITH Capacity <- ModuloSize,
               queue <- [k \in 1..(Back - top) |-> Held(top + k - 1)]

TypeOK ==
    /\ top \in Nat /\ topBound \in Nat /\ ot \in Nat
    /\ bottom \in Int /\ bottom >= -1
    /\ elements \in [0..ModuloSize -> Items \cup {NoItem}]
    /\ opc \in OwnerStates
    /\ pushing \in Items \cup {NoItem}
    /\ tpc \in [Thieves -> ThiefStates]
    /\ st \in [Thieves -> Nat]
    /\ stolen \in [Thieves -> Items \cup {NoItem}]
    /\ pushed \subseteq Items
    /\ takes \in [Items -> Nat]

(* No closure is handed out twice: a spark is run at most once however     *)
(* pops and steals interleave (popWSDeque, stealWSDeque_).                 *)
HandedOnce == \A i \in Items : takes[i] <= 1

(* The assertions of WSDeque.h:57 and WSDeque.c:166, between operations of *)
(* the owner: the cached top is never ahead of top, and bottom is back at  *)
(* or above top after every pop.                                           *)
OwnerAssertions ==
    /\ topBound <= top
    /\ opc = "idle" => bottom >= top

(* A thief reads the element before it knows it has won.  If its           *)
(* compare-and-swap would succeed now, what it read is still the front     *)
(* element: the owner has neither overwritten the slot nor popped it.      *)
ThiefHoldsFront ==
    \A t \in Thieves :
        tpc[t] = "steal_cas" /\ st[t] = top =>
            top < Back /\ stolen[t] = Held(top)

(* The split, lock-free operations implement the atomic bounded deque.     *)
ImplementsWorkPool == Pool!Spec

(* A steal ends: stealWSDeque only goes round again when another thread    *)
(* has taken an element or the owner has added one.                        *)
StealEnds == \A t \in Thieves : tpc[t] # "idle" ~> tpc[t] = "idle"
===============================================================================
