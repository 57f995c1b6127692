----------------------------- MODULE WSDequeProofs -----------------------------
(***************************************************************************)
(* Proofs about WSDeque, for every array size, every set of thieves and    *)
(* every set of items.                                                     *)
(***************************************************************************)
EXTENDS WSDeque, SequenceTheorems, TLAPS

USE WSDequeAssumption DEF CasTop, IsFull, MoreLeft, LooksEmpty

Pushing == opc \in {"push_top", "push_elem", "push_bottom"}

(* The owner's part: the window never outgrows the array, and each         *)
(* intermediate state of a pop pins bottom to the top it has read.         *)
OwnerInv ==
    /\ topBound <= top
    /\ top <= Back /\ Back - top <= ModuloSize
    /\ opc \in {"push_elem", "push_bottom"} => bottom - topBound < ModuloSize
    /\ opc = "pop_reset" => bottom + 1 = top /\ ot = top
    /\ opc = "pop_cas" => bottom = ot /\ ot <= top
    /\ opc = "pop_fix" => bottom = ot /\ top = ot + 1

(* The thieves' part: a thief that passed the emptiness test with the      *)
(* current top is looking at an element the deque still holds.             *)
ThiefInv ==
    \A t \in Thieves :
        /\ st[t] <= top
        /\ tpc[t] \in {"steal_elem", "steal_cas"} /\ st[t] = top => top < Back
        /\ tpc[t] = "steal_cas" /\ st[t] = top => stolen[t] = Held(top)

(* The contents: what the window holds was pushed, is there once, and has  *)
(* not been handed out.                                                    *)
ItemInv ==
    /\ \A n \in Window : Held(n) \in pushed /\ takes[Held(n)] = 0
    /\ \A m, n \in Window : m # n => Held(m) # Held(n)
    /\ Pushing => /\ pushing \in pushed /\ takes[pushing] = 0
                  /\ \A n \in Window : Held(n) # pushing
    /\ opc = "push_bottom" => Held(bottom) = pushing
    /\ \A i \in Items \ pushed : takes[i] = 0
    /\ HandedOnce

IInv == TypeOK /\ OwnerInv /\ ThiefInv /\ ItemInv

-------------------------------------------------------------------------------
(* Positions of the window fall into different slots of the array.         *)
LEMMA SlotRange == \A n \in Nat : Slot(n) \in 0..ModuloSize
  BY DEF Slot, ModuloSize

LEMMA SlotDistinct ==
    ASSUME NEW m \in Nat, NEW n \in Nat, m < n, n - m < Size
    PROVE  Slot(m) # Slot(n)
  <1> DEFINE qm == m \div Size
             qn == n \div Size
  <1>1. qm \in Int /\ qn \in Int /\ m = Size * qm + (m % Size) /\ n = Size * qn + (n % Size)
    OBVIOUS
  <1>2. m % Size \in Int /\ n % Size \in Int
    OBVIOUS
  <1> HIDE DEF qm, qn
  <1>3. SUFFICES ASSUME m % Size = n % Size PROVE FALSE
    BY DEF Slot
  <1>4. n - m = Size * qn - Size * qm
    BY <1>1, <1>2, <1>3
  <1>5. CASE qn <= qm
    <2>1. Size * qn <= Size * qm
      BY <1>1, <1>5
    <2>2. QED
      BY <1>1, <1>4, <2>1
  <1>6. CASE qn >= qm + 1
    <2>1. Size * qn >= Size * qm + Size
      BY <1>1, <1>6
    <2>2. QED
      BY <1>1, <1>4, <2>1
  <1>7. QED
    BY <1>1, <1>5, <1>6

(* The same fact in the form the proofs of the actions use it.             *)
LEMMA WindowSlots ==
    ASSUME NEW m \in Nat, NEW n \in Nat, m # n,
           m - n < Size, n - m < Size
    PROVE  Slot(m) # Slot(n)
  <1>1. CASE m < n
    BY <1>1, SlotDistinct
  <1>2. CASE n < m
    BY <1>2, SlotDistinct
  <1>3. QED
    BY <1>1, <1>2

-------------------------------------------------------------------------------
LEMMA InitInv == Init => IInv
  BY DEF Init, IInv, TypeOK, OwnerInv, ThiefInv, ItemInv, OwnerStates, ThiefStates,
         Back, Popping, Pushing, Window, ModuloSize, HandedOnce

(* Steps of the owner.                                                     *)
LEMMA PushBeginInv ==
    ASSUME IInv, NEW i \in Items, PushBegin(i) PROVE IInv'
  <1> USE DEF IInv, PushBegin, ModuloSize, thiefVars
  <1>1. TypeOK'
    BY DEF TypeOK, OwnerStates
  <1>2. OwnerInv'
    BY DEF OwnerInv, TypeOK, Back, Popping
  <1>3. ThiefInv'
    BY DEF ThiefInv, Back, Popping, Held, Slot
  <1>4. ItemInv'
    BY ZenonT(60) DEF ItemInv, TypeOK, Window, Back, Popping, Held, Slot, Pushing, HandedOnce
  <1>5. QED
    BY <1>1, <1>2, <1>3, <1>4

LEMMA PushReadTopInv ==
    ASSUME IInv, PushReadTop PROVE IInv'
  <1> USE DEF IInv, PushReadTop, ModuloSize, thiefVars, histVars
  <1>1. TypeOK'
    BY DEF TypeOK, OwnerStates
  <1>2. OwnerInv'
    BY DEF OwnerInv, TypeOK, Back, Popping
  <1>3. ThiefInv'
    BY DEF ThiefInv, Back, Popping, Held, Slot
  <1>4. ItemInv'
    BY ZenonT(60) DEF ItemInv, TypeOK, Window, Back, Popping, Held, Slot, Pushing, HandedOnce
  <1>5. QED
    BY <1>1, <1>2, <1>3, <1>4

LEMMA PushWriteElementInv ==
    ASSUME IInv, PushWriteElement PROVE IInv'
  <1> USE DEF IInv, PushWriteElement, ModuloSize, thiefVars, histVars
  <1>0. /\ bottom \in Nat /\ Back = bottom /\ Back' = bottom /\ Window' = Window
        /\ Window \subseteq Nat /\ top \in Nat
    BY DEF TypeOK, OwnerInv, Back, Popping, Window
  <1>a. \A n \in Window : Slot(n) # Slot(bottom)
    <2> SUFFICES ASSUME NEW n \in Window PROVE Slot(n) # Slot(bottom)
      OBVIOUS
    <2>1. n \in Nat /\ n < bottom /\ bottom - n < Size
      BY <1>0 DEF Window, OwnerInv, TypeOK
    <2>2. QED
      BY <1>0, <2>1, SlotDistinct
  <1>b. \A n \in Window : Held(n)' = Held(n)
    <2> SUFFICES ASSUME NEW n \in Window PROVE Held(n)' = Held(n)
      OBVIOUS
    <2>1. Slot(n) \in 0..ModuloSize
      BY <1>0, SlotRange
    <2>2. QED
      BY <1>a, <2>1 DEF Held, TypeOK, Slot
  <1>c. Held(bottom)' = pushing
    BY <1>0, SlotRange DEF Held, TypeOK, Slot
  <1>1. TypeOK'
    BY <1>0, SlotRange DEF TypeOK, OwnerStates
  <1>2. OwnerInv'
    BY DEF OwnerInv, TypeOK, Back, Popping
  <1>3. ThiefInv'
    <2> SUFFICES ASSUME NEW t \in Thieves
                 PROVE  /\ st[t] <= top
                        /\ tpc[t] \in {"steal_elem", "steal_cas"} /\ st[t] = top => top < Back
                        /\ tpc[t] = "steal_cas" /\ st[t] = top => stolen[t] = Held(top)'
      BY <1>0 DEF ThiefInv
    <2>1. top < Back => top \in Window
      BY <1>0 DEF Window, TypeOK
    <2>2. QED
      BY <1>b, <2>1 DEF ThiefInv
  <1>4. ItemInv'
    BY <1>0, <1>b, <1>c DEF ItemInv, Pushing, HandedOnce
  <1>5. QED
    BY <1>1, <1>2, <1>3, <1>4

LEMMA PushWriteBottomInv ==
    ASSUME IInv, PushWriteBottom PROVE IInv'
  <1> USE DEF IInv, PushWriteBottom, ModuloSize, thiefVars, histVars
  <1>1. TypeOK'
    BY DEF TypeOK, OwnerStates
  <1>2. OwnerInv'
    BY DEF OwnerInv, TypeOK, Back, Popping
  <1>3. ThiefInv'
    BY DEF ThiefInv, TypeOK, Back, Popping, Held, Slot
  <1>4. ItemInv'
    <2>1. Window' = Window \cup {bottom} /\ bottom \notin Window
      BY DEF Window, Back, Popping, OwnerInv, TypeOK
    <2>2. \A n : Held(n)' = Held(n)
      BY DEF Held, Slot
    <2>3. QED
      BY <2>1, <2>2 DEF ItemInv, Pushing, HandedOnce
  <1>5. QED
    BY <1>1, <1>2, <1>3, <1>4

LEMMA PopDecrementInv ==
    ASSUME IInv, PopDecrement PROVE IInv'
  <1> USE DEF IInv, PopDecrement, ModuloSize, thiefVars, histVars
  <1>0. Back' = Back /\ Window' = Window
    BY DEF Back, Popping, TypeOK, Window
  <1>1. TypeOK'
    BY DEF TypeOK, OwnerStates, OwnerInv, Back, Popping
  <1>2. OwnerInv'
    BY <1>0 DEF OwnerInv, TypeOK, Back, Popping
  <1>3. ThiefInv'
    BY <1>0 DEF ThiefInv, Held, Slot
  <1>4. ItemInv'
    BY <1>0 DEF ItemInv, TypeOK, Held, Slot, Pushing, HandedOnce
  <1>5. QED
    BY <1>1, <1>2, <1>3, <1>4

(* The step that settles a pop: the owner may keep the element at bottom   *)
(* without synchronising, because a thief could only win it with a top     *)
(* equal to bottom, and top is still below.                                *)
LEMMA PopReadTopInv ==
    ASSUME IInv, PopReadTop PROVE IInv'
  <1> USE DEF IInv, PopReadTop, ModuloSize, thiefVars
  <1>0. top \in Nat /\ bottom \in Int /\ Back = bottom + 1
    BY DEF TypeOK, Back, Popping
  <1>1. CASE bottom - top < 0
    <2>1. Back' = Back /\ Window' = Window
      BY <1>0, <1>1 DEF Back, Popping, Window
    <2>2. TypeOK'
      BY <1>0, <1>1 DEF TypeOK, OwnerStates
    <2>3. OwnerInv'
      BY <1>0, <1>1, <2>1 DEF OwnerInv, TypeOK
    <2>4. ThiefInv' /\ ItemInv'
      BY <1>0, <1>1, <2>1 DEF ThiefInv, ItemInv, TypeOK, Held, Slot, Pushing, HandedOnce
    <2>5. QED
      BY <2>2, <2>3, <2>4
  <1>2. CASE bottom - top > 0
    <2>1. Back' = bottom /\ Window = Window' \cup {bottom} /\ bottom \notin Window'
      BY <1>0, <1>2 DEF Back, Popping, Window
    <2>2. Held(bottom) \in pushed /\ takes[Held(bottom)] = 0 /\ Held(bottom) \in Items
      BY <2>1 DEF ItemInv, TypeOK
    <2>3. takes' = [takes EXCEPT ![Held(bottom)] = @ + 1] /\ opc' = "idle"
      BY <1>0, <1>2 DEF Take, Held
    <2>4. TypeOK'
      BY <1>0, <2>2, <2>3 DEF TypeOK, OwnerStates
    <2>5. OwnerInv'
      BY <1>0, <1>2, <2>1, <2>3 DEF OwnerInv, TypeOK
    <2>6. ThiefInv'
      BY <1>0, <1>2, <2>1 DEF ThiefInv, Held, Slot, TypeOK
    <2>7. ItemInv'
      <3>1. \A n : Held(n)' = Held(n)
        BY DEF Held, Slot
      <3>2. \A i \in Items : i # Held(bottom) => takes'[i] = takes[i]
        BY <2>3 DEF TypeOK
      <3>3. takes'[Held(bottom)] = 1
        BY <2>2, <2>3 DEF TypeOK
      <3>4. QED
        BY <2>1, <2>2, <2>3, <3>1, <3>2, <3>3 DEF ItemInv, TypeOK, Pushing, HandedOnce
    <2>8. QED
      BY <2>4, <2>5, <2>6, <2>7
  <1>3. CASE bottom = top
    <2>1. Back' = Back /\ Window' = Window
      BY <1>0, <1>3 DEF Back, Popping, Window
    <2>2. TypeOK'
      BY <1>0, <1>3 DEF TypeOK, OwnerStates
    <2>3. OwnerInv'
      BY <1>0, <1>3, <2>1 DEF OwnerInv, TypeOK
    <2>4. ThiefInv' /\ ItemInv'
      BY <1>0, <1>3, <2>1 DEF ThiefInv, ItemInv, TypeOK, Held, Slot, Pushing, HandedOnce
    <2>5. QED
      BY <2>2, <2>3, <2>4
  <1>4. QED
    BY <1>0, <1>1, <1>2, <1>3

LEMMA PopResetInv ==
    ASSUME IInv, PopReset PROVE IInv'
  <1> USE DEF IInv, PopReset, ModuloSize, thiefVars, histVars
  <1>0. Back' = Back /\ Window' = Window
    BY DEF Back, Popping, Window, OwnerInv, TypeOK
  <1>1. TypeOK' /\ OwnerInv'
    BY <1>0 DEF TypeOK, OwnerInv, OwnerStates, Back, Popping
  <1>2. ThiefInv' /\ ItemInv'
    BY <1>0 DEF ThiefInv, ItemInv, TypeOK, Held, Slot, Pushing, HandedOnce
  <1>3. QED
    BY <1>1, <1>2

LEMMA PopCasInv ==
    ASSUME IInv, PopCas PROVE IInv'
  <1> USE DEF IInv, PopCas, ModuloSize, thiefVars
  <1>0. top \in Nat /\ bottom = ot /\ ot \in Nat /\ Back = ot + 1 /\ Back' = ot + 1
        /\ top \in {ot, ot + 1}
    BY DEF TypeOK, OwnerInv, Back, Popping
  <1>a. \A n : Held(n)' = Held(n)
    BY DEF Held, Slot
  <1>1. CASE top = ot
    <2>1. Window = {ot} /\ Window' = {} /\ top' = ot + 1
      BY <1>0, <1>1 DEF Window
    <2>2. Held(ot) \in Items /\ takes[Held(ot)] = 0 /\ Held(ot) \in pushed
      BY <2>1 DEF ItemInv, TypeOK
    <2>3. takes' = [takes EXCEPT ![Held(ot)] = 1]
      BY <1>0, <1>1, <2>2 DEF Take, Held, TypeOK
    <2>4. TypeOK'
      BY <1>0, <2>1, <2>2, <2>3 DEF TypeOK, OwnerStates
    <2>5. OwnerInv'
      BY <1>0, <2>1 DEF OwnerInv, TypeOK
    <2>6. ThiefInv'
      BY <1>0, <1>1, <2>1 DEF ThiefInv, TypeOK
    <2>7. ItemInv'
      BY <2>1, <2>2, <2>3, <1>a DEF ItemInv, TypeOK, Pushing, HandedOnce
    <2>8. QED
      BY <2>4, <2>5, <2>6, <2>7
  <1>2. CASE top # ot
    <2>1. Window' = Window /\ top = ot + 1
      BY <1>0, <1>2 DEF Window
    <2>2. TypeOK' /\ OwnerInv'
      BY <1>0, <1>2, <2>1 DEF TypeOK, OwnerInv, OwnerStates
    <2>3. ThiefInv' /\ ItemInv'
      BY <1>0, <1>2, <1>a, <2>1 DEF ThiefInv, ItemInv, TypeOK, Pushing, HandedOnce
    <2>4. QED
      BY <2>2, <2>3
  <1>3. QED
    BY <1>1, <1>2

LEMMA PopFixInv ==
    ASSUME IInv, PopFix PROVE IInv'
  <1> USE DEF IInv, PopFix, ModuloSize, thiefVars, histVars
  <1>0. Back' = Back /\ Window' = Window
    BY DEF Back, Popping, Window, OwnerInv, TypeOK
  <1>1. TypeOK' /\ OwnerInv'
    BY <1>0 DEF TypeOK, OwnerInv, OwnerStates, Back, Popping
  <1>2. ThiefInv' /\ ItemInv'
    BY <1>0 DEF ThiefInv, ItemInv, TypeOK, Held, Slot, Pushing, HandedOnce
  <1>3. QED
    BY <1>1, <1>2

LEMMA DiscardElementsInv ==
    ASSUME IInv, DiscardElements PROVE IInv'
  <1> USE DEF IInv, DiscardElements, ModuloSize, ownerVars, thiefVars, histVars
  <1>0. Back' = Back /\ Back = bottom /\ Window' = {} /\ top <= bottom /\ top' = bottom
    BY DEF Back, Popping, Window, OwnerInv, TypeOK
  <1>1. TypeOK' /\ OwnerInv'
    BY <1>0 DEF TypeOK, OwnerInv, OwnerStates
  <1>2. ThiefInv' /\ ItemInv'
    BY <1>0 DEF ThiefInv, ItemInv, TypeOK, Held, Slot, Pushing, HandedOnce
  <1>3. QED
    BY <1>1, <1>2

-------------------------------------------------------------------------------
(* Steps of a thief.                                                       *)
LEMMA ThiefReadInv ==
    ASSUME IInv, NEW t \in Thieves,
           \/ StealBegin(t) \/ StealRetry(t) \/ StealReadBottom(t)
           \/ LooksEmptyReadTop(t) \/ LooksEmptyReadBottom(t)
    PROVE  IInv'
  <1> USE DEF IInv, StealBegin, StealRetry, StealReadTop, StealReadBottom,
              LooksEmptyReadTop, LooksEmptyReadBottom, Goto, ownerVars, histVars
  <1>0. Back' = Back /\ Window' = Window /\ UNCHANGED <<top, bottom, elements, stolen>>
    BY DEF Back, Popping, Window
  <1>1. TypeOK'
    <2>1. st' \in [Thieves -> Nat]
      BY DEF TypeOK
    <2>2. tpc' \in [Thieves -> ThiefStates]
      BY DEF TypeOK, ThiefStates
    <2>3. QED
      BY <2>1, <2>2 DEF TypeOK
  <1>2. OwnerInv'
    BY <1>0 DEF OwnerInv
  <1>3. ThiefInv'
    BY <1>0 DEF ThiefInv, TypeOK, ThiefStates, Held, Slot, Back, Popping
  <1>4. ItemInv'
    BY <1>0 DEF ItemInv, Held, Slot, Pushing, HandedOnce
  <1>5. QED
    BY <1>1, <1>2, <1>3, <1>4

LEMMA StealReadElementInv ==
    ASSUME IInv, NEW t \in Thieves, StealReadElement(t) PROVE IInv'
  <1> USE DEF IInv, StealReadElement, Goto, ownerVars, histVars
  <1>0. Back' = Back /\ Window' = Window /\ UNCHANGED <<top, bottom, elements>>
    BY DEF Back, Popping, Window
  <1>1. TypeOK'
    <2>1. Slot(st[t]) \in 0..ModuloSize
      BY SlotRange DEF TypeOK
    <2>2. QED
      BY <2>1 DEF TypeOK, ThiefStates
  <1>2. OwnerInv'
    BY <1>0 DEF OwnerInv
  <1>3. ThiefInv'
    BY <1>0 DEF ThiefInv, TypeOK, Held, Slot
  <1>4. ItemInv'
    BY <1>0 DEF ItemInv, Held, Slot, Pushing, HandedOnce
  <1>5. QED
    BY <1>1, <1>2, <1>3, <1>4

LEMMA StealCasInv ==
    ASSUME IInv, NEW t \in Thieves, StealCas(t) PROVE IInv'
  <1> USE DEF IInv, StealCas, Goto, ownerVars
  <1>0. Back' = Back /\ bottom' = bottom /\ \A n : Held(n)' = Held(n)
    BY DEF Back, Popping, Held, Slot
  <1>1. CASE top = st[t]
    <2>1. top < Back /\ stolen[t] = Held(top) /\ top' = top + 1
      BY <1>1 DEF ThiefInv
    <2>2. Window = Window' \cup {top} /\ top \notin Window' /\ top \in Window
      BY <1>0, <2>1 DEF Window, TypeOK, Back, Popping
    <2>3. stolen[t] \in pushed /\ stolen[t] \in Items /\ takes[stolen[t]] = 0
      BY <2>1, <2>2 DEF ItemInv, TypeOK
    <2>4. takes' = [takes EXCEPT ![stolen[t]] = 1]
      BY <1>1, <2>3 DEF Take, TypeOK
    <2>5. TypeOK'
      <3>1. top' \in Nat
        BY <2>1 DEF TypeOK
      <3>2. takes' \in [Items -> Nat]
        BY <2>4 DEF TypeOK
      <3>3. tpc' \in [Thieves -> ThiefStates]
        BY <1>1 DEF TypeOK, ThiefStates
      <3>4. stolen' \in [Thieves -> Items \cup {NoItem}]
        BY DEF TypeOK
      <3>5. QED
        BY <3>1, <3>2, <3>3, <3>4 DEF TypeOK
    <2>6. OwnerInv'
      <3>1. top \in Nat /\ top' = top + 1 /\ Back \in Int /\ top < Back
            /\ topBound \in Nat /\ UNCHANGED <<opc, ot, bottom, topBound>>
        BY <2>1 DEF TypeOK, Back, Popping
      <3>2. QED
        BY <1>0, <3>1 DEF OwnerInv, TypeOK, Back, Popping, ModuloSize
    <2>7. ThiefInv'
      BY <1>0, <1>1, <2>1 DEF ThiefInv, TypeOK
    <2>8. ItemInv'
      BY <1>0, <2>1, <2>2, <2>3, <2>4 DEF ItemInv, TypeOK, Pushing, HandedOnce
    <2>9. QED
      BY <2>5, <2>6, <2>7, <2>8
  <1>2. CASE top # st[t]
    <2>1. UNCHANGED <<top, takes>> /\ Window' = Window
      BY <1>0, <1>2 DEF Window
    <2>2. TypeOK'
      BY <1>2, <2>1 DEF TypeOK, ThiefStates
    <2>3. OwnerInv'
      BY <1>0, <2>1 DEF OwnerInv
    <2>4. ThiefInv'
      BY <1>0, <1>2, <2>1 DEF ThiefInv, TypeOK
    <2>5. ItemInv'
      BY <1>0, <2>1 DEF ItemInv, Pushing, HandedOnce
    <2>6. QED
      BY <2>2, <2>3, <2>4, <2>5
  <1>3. QED
    BY <1>1, <1>2

-------------------------------------------------------------------------------
LEMMA NextInv == IInv /\ [Next]_vars => IInv'
  <1> SUFFICES ASSUME IInv, [Next]_vars PROVE IInv'
    OBVIOUS
  <1>1. ASSUME NEW i \in Items, PushBegin(i) PROVE IInv'
    BY <1>1, PushBeginInv
  <1>2. CASE PushReadTop \/ PushWriteElement \/ PushWriteBottom
    BY <1>2, PushReadTopInv, PushWriteElementInv, PushWriteBottomInv
  <1>3. CASE PopDecrement \/ PopReadTop \/ PopReset \/ PopCas \/ PopFix
    BY <1>3, PopDecrementInv, PopReadTopInv, PopResetInv, PopCasInv, PopFixInv
  <1>4. CASE DiscardElements
    BY <1>4, DiscardElementsInv
  <1>5. ASSUME NEW t \in Thieves, StealBegin(t) \/ ThiefStep(t) PROVE IInv'
    BY <1>5, ThiefReadInv, StealReadElementInv, StealCasInv DEF ThiefStep
  <1>6. CASE UNCHANGED vars
    BY <1>6 DEF vars, ownerVars, thiefVars, histVars, IInv, TypeOK, OwnerInv, ThiefInv,
                ItemInv, Back, Popping, Pushing, Window, Held, Slot, HandedOnce
  <1>7. QED
    BY <1>1, <1>2, <1>3, <1>4, <1>5, <1>6 DEF Next, OwnerNext, OwnerStep

(* The inductive invariant holds in every reachable state.                 *)
THEOREM Inductive == Spec => []IInv
  BY InitInv, NextInv, PTL DEF Spec

(* Every variable of the deque keeps its type: in particular bottom never  *)
(* goes below the -1 that popWSDeque stores in an empty deque.             *)
THEOREM TypeCorrect == Spec => []TypeOK
  BY Inductive, PTL DEF IInv

(* No interleaving of popWSDeque and stealWSDeque hands a closure out      *)
(* twice, for any array size and any number of thieves.                    *)
THEOREM AtMostOnce == Spec => []HandedOnce
  <1>1. IInv => HandedOnce
    BY DEF IInv, ItemInv
  <1>2. QED
    BY <1>1, Inductive, PTL

(* A thief whose compare-and-swap is about to succeed holds the front      *)
(* element (stealWSDeque_ reads it before the CAS).                        *)
THEOREM ThiefIsRight == Spec => []ThiefHoldsFront
  <1>1. IInv => ThiefHoldsFront
    BY DEF IInv, ThiefInv, ThiefHoldsFront
  <1>2. QED
    BY <1>1, Inductive, PTL

(* The owner's assertions of WSDeque.h and of popWSDeque never fail.       *)
THEOREM AssertionsHold == Spec => []OwnerAssertions
  <1>1. IInv => OwnerAssertions
    BY DEF IInv, TypeOK, OwnerInv, OwnerAssertions, Back, Popping
  <1>2. QED
    BY <1>1, Inductive, PTL

-------------------------------------------------------------------------------
(* The refinement of WorkPool: the steps that claim an element are its      *)
(* operations, every other step is a stutter.                              *)

(* The queue that the mapping of Pool gives it, front first.               *)
Queue == [k \in 1..(Back - top) |-> Held(top + k - 1)]

LEMMA QueueShape ==
    ASSUME IInv
    PROVE  /\ Back \in Nat /\ top \in Nat /\ Back - top \in Nat
           /\ Queue \in Seq(Items) /\ Len(Queue) = Back - top
           /\ \A k \in 1..(Back - top) : Queue[k] = Held(top + k - 1) /\ top + k - 1 \in Window
  <1>1. Back \in Nat /\ top \in Nat /\ Back - top \in Nat
    BY DEF IInv, TypeOK, OwnerInv, Back, Popping
  <1>2. \A k \in 1..(Back - top) : top + k - 1 \in Window
    BY <1>1 DEF Window
  <1>3. \A k \in 1..(Back - top) : Held(top + k - 1) \in Items
    BY <1>2 DEF IInv, ItemInv, TypeOK
  <1>4. Queue \in Seq(Items) /\ Len(Queue) = Back - top
    BY <1>1, <1>3 DEF Queue
  <1>5. QED
    BY <1>1, <1>2, <1>4 DEF Queue

(* The abstract operations on a sequence given by its elements.            *)
LEMMA ShapeOfAppend ==
    ASSUME NEW S, NEW q \in Seq(S), NEW e \in S, NEW f,
           f = [k \in 1..(Len(q) + 1) |-> IF k <= Len(q) THEN q[k] ELSE e]
    PROVE  f = Append(q, e)
  <1>1. f \in Seq(S) /\ Len(f) = Len(q) + 1
    OBVIOUS
  <1>2. \A i \in 1..(Len(q) + 1) : f[i] = Append(q, e)[i]
    BY AppendProperties
  <1>3. Append(q, e) \in Seq(S) /\ Len(Append(q, e)) = Len(q) + 1
    BY AppendProperties
  <1>4. QED
    BY <1>1, <1>2, <1>3, SeqEqual

LEMMA ShapeOfEmpty ==
    ASSUME NEW f, f = [k \in 1..0 |-> f[k]]
    PROVE  f = <<>>
  <1>1. f \in Seq({}) /\ Len(f) = 0
    OBVIOUS
  <1>2. QED
    BY <1>1, EmptySeq

LEMMA ShapeOfFront ==
    ASSUME NEW S, NEW q \in Seq(S), q # <<>>, NEW f,
           f = [k \in 1..(Len(q) - 1) |-> q[k]]
    PROVE  f = SubSeq(q, 1, Len(q) - 1)
  <1>1. f \in Seq(S) /\ Len(f) = Len(q) - 1
    OBVIOUS
  <1>2. QED
    BY <1>1, SeqEqual, SubSeqProperties

LEMMA ShapeOfTail ==
    ASSUME NEW S, NEW q \in Seq(S), q # <<>>, NEW f,
           f = [k \in 1..(Len(q) - 1) |-> q[k + 1]]
    PROVE  f = Tail(q)
  <1>1. f \in Seq(S) /\ Len(f) = Len(q) - 1
    OBVIOUS
  <1>2. QED
    BY <1>1, SeqEqual, HeadTailProperties

LEMMA SameQueue ==
    ASSUME IInv, Back' = Back, top' = top, \A n \in Window : Held(n)' = Held(n)
    PROVE  Queue' = Queue
  <1>1. \A k \in 1..(Back - top) : Held(top + k - 1)' = Held(top + k - 1)
    BY QueueShape
  <1>2. \A k \in 1..(Back - top) : Queue'[k] = Queue[k]
    BY <1>1 DEF Queue, Held
  <1>3. QED
    BY <1>1 DEF Queue, Held

-------------------------------------------------------------------------------
(* The steps that change neither end of the deque, nor what it holds.      *)
LEMMA LocalStutters ==
    ASSUME IInv,
           \/ \E i \in Items : PushBegin(i)
           \/ PushReadTop \/ PushWriteElement \/ PopDecrement \/ PopReset \/ PopFix
           \/ \E t \in Thieves :
                 \/ StealBegin(t) \/ StealRetry(t) \/ StealReadBottom(t)
                 \/ StealReadElement(t) \/ LooksEmptyReadTop(t) \/ LooksEmptyReadBottom(t)
    PROVE  UNCHANGED <<Queue, takes>>
  <1> USE DEF thiefVars, histVars, ownerVars
  <1>1. CASE PushWriteElement
    <2>1. Back' = Back /\ top' = top /\ takes' = takes /\ Back = bottom
      BY <1>1 DEF PushWriteElement, Back, Popping
    <2>2. \A n \in Window : Held(n)' = Held(n)
      <3> SUFFICES ASSUME NEW n \in Window PROVE Held(n)' = Held(n)
        OBVIOUS
      <3>1. n \in Nat /\ bottom \in Nat /\ n < bottom /\ bottom - n < Size
        BY <2>1, QueueShape, WSDequeAssumption DEF IInv, TypeOK, OwnerInv, Window, ModuloSize
      <3>2. Slot(n) # Slot(bottom)
        BY <3>1, SlotDistinct
      <3>3. QED
        BY <1>1, <3>1, <3>2, SlotRange DEF PushWriteElement, Held, Slot, IInv, TypeOK
    <2>3. QED
      BY <2>1, <2>2, SameQueue
  <1>2. CASE \/ \E i \in Items : PushBegin(i)
             \/ PushReadTop \/ PopDecrement \/ PopReset \/ PopFix
    <2>1. /\ Back' = Back /\ UNCHANGED <<top, elements, takes>>
      BY <1>2 DEF PushBegin, PushReadTop, PopDecrement, PopReset, PopFix, Back, Popping,
                  IInv, TypeOK, OwnerInv
    <2>2. QED
      BY <2>1, SameQueue DEF Held, Slot
  <1>3. ASSUME NEW t \in Thieves,
               \/ StealBegin(t) \/ StealRetry(t) \/ StealReadBottom(t)
               \/ StealReadElement(t) \/ LooksEmptyReadTop(t) \/ LooksEmptyReadBottom(t)
        PROVE  UNCHANGED <<Queue, takes>>
    <2>1. UNCHANGED <<top, bottom, opc, elements, takes>>
      BY <1>3 DEF StealBegin, StealRetry, StealReadTop, StealReadBottom, StealReadElement,
                  LooksEmptyReadTop, LooksEmptyReadBottom
    <2>2. QED
      BY <2>1, SameQueue DEF Held, Slot, Back, Popping
  <1>4. QED
    BY <1>1, <1>2, <1>3

(* The store to bottom is where an element is added.                       *)
LEMMA PushWriteBottomRefines ==
    ASSUME IInv, PushWriteBottom PROVE Pool!Push(pushing)
  <1>1. /\ Back = bottom /\ Back' = bottom + 1 /\ bottom \in Nat
        /\ UNCHANGED <<top, elements, takes>> /\ top \in Nat /\ top <= bottom
    BY QueueShape DEF PushWriteBottom, thiefVars, histVars, Back, Popping, IInv, OwnerInv
  <1>2. /\ pushing \in Items /\ takes[pushing] = 0 /\ Held(bottom) = pushing
        /\ \A n \in Window : Held(n) # pushing
    BY DEF PushWriteBottom, IInv, ItemInv, Pushing, TypeOK
  <1>3. Len(Queue) < ModuloSize
    <2>1. bottom - topBound < ModuloSize /\ topBound <= top /\ topBound \in Nat
      BY DEF PushWriteBottom, IInv, OwnerInv, TypeOK
    <2>2. Len(Queue) = bottom - top
      BY <1>1, QueueShape
    <2>3. QED
      BY <1>1, <2>1, <2>2, WSDequeAssumption DEF ModuloSize
  <1>4. \A k \in 1..Len(Queue) : Queue[k] # pushing
    BY <1>2, QueueShape
  <1>5. Queue' = Append(Queue, pushing)
    <2>1. Queue' = [k \in 1..(bottom + 1 - top) |-> Held(top + k - 1)]
      BY <1>1 DEF Queue, Held, Slot
    <2>2. bottom + 1 - top = Len(Queue) + 1 /\ top + (Len(Queue) + 1) - 1 = bottom
      BY <1>1, QueueShape
    <2>3. /\ Queue' = [k \in 1..(Len(Queue) + 1) |-> Held(top + k - 1)]
          /\ Held(top + (Len(Queue) + 1) - 1) = pushing
      BY <1>2, <2>1, <2>2
    <2>4. Queue' = [k \in 1..(Len(Queue) + 1) |-> IF k <= Len(Queue) THEN Queue[k] ELSE pushing]
      BY <2>3, QueueShape
    <2>5. pushing \in Items /\ Queue \in Seq(Items)
      BY <1>2, QueueShape
    <2>6. QED
      BY <2>4, <2>5, ShapeOfAppend
  <1>6. QED
    BY <1>1, <1>2, <1>3, <1>4, <1>5 DEF Pool!Push, Queue

(* The owner takes the last element: because the read of top leaves it     *)
(* more than one, or by its compare-and-swap.                              *)
LEMMA PopRefines ==
    ASSUME IInv, PopReadTop \/ PopCas
    PROVE  Pool!PopBack \/ UNCHANGED <<Queue, takes>>
  <1> USE DEF thiefVars, MoreLeft, CasTop
  <1>0. Back = bottom + 1 /\ Back \in Nat /\ top \in Nat /\ bottom \in Int /\ \A n : Held(n)' = Held(n)
    BY QueueShape DEF PopReadTop, PopCas, Back, Popping, Held, Slot, IInv, TypeOK
  <1>1. CASE Back' = Back /\ UNCHANGED <<top, takes>>
    BY <1>0, <1>1, SameQueue
  <1>2. CASE /\ top <= bottom /\ Take(Held(bottom))
             /\ \/ top' = top /\ Back' = bottom
                \/ top = bottom /\ top' = top + 1 /\ Back' = top + 1
    <2>1. Len(Queue) = Back - top /\ Len(Queue) >= 1 /\ Queue[Len(Queue)] = Held(bottom)
      BY <1>0, <1>2, QueueShape
    <2>2. Queue' = SubSeq(Queue, 1, Len(Queue) - 1)
      <3>1. CASE top' = top /\ Back' = bottom
        <4>1. Queue' = [k \in 1..(Len(Queue) - 1) |-> Queue[k]]
          BY <1>0, <2>1, <3>1, QueueShape DEF Queue
        <4>2. QED
          BY <4>1, <2>1, QueueShape, ShapeOfFront
      <3>2. CASE top = bottom /\ top' = top + 1 /\ Back' = top + 1
        <4>1. 1..(Back' - top') = 1..0 /\ Len(Queue) = 1
          BY <1>0, <2>1, <3>2
        <4>2. Queue' = [k \in 1..0 |-> Queue'[k]]
          BY <4>1 DEF Queue
        <4>3. QED
          BY <4>1, <4>2, ShapeOfEmpty, SubSeqEmpty
      <3>3. QED
        BY <1>2, <3>1, <3>2
    <2>3. Queue # <<>> /\ Take(Queue[Len(Queue)])
      BY <1>2, <2>1, QueueShape
    <2>4. Pool!PopBack
      BY <2>2, <2>3 DEF Pool!PopBack, Pool!Handed, Take, Queue
    <2>5. QED
      BY <2>4
  <1>3. CASE PopReadTop
    BY <1>0, <1>1, <1>2, <1>3 DEF PopReadTop, Back, Popping, Held
  <1>4. CASE PopCas
    <2>1. ot = bottom /\ ot <= top /\ top <= bottom + 1
      BY <1>0, <1>4 DEF PopCas, IInv, OwnerInv
    <2>2. QED
      BY <1>0, <1>1, <1>2, <1>4, <2>1 DEF PopCas, Back, Popping, Held
  <1>5. QED
    BY <1>3, <1>4

LEMMA DiscardRefines ==
    ASSUME IInv, DiscardElements PROVE Pool!Discard
  <1>1. Back' = bottom /\ top' = bottom /\ takes' = takes /\ bottom \in Int
    BY DEF DiscardElements, ownerVars, thiefVars, histVars, Back, Popping, IInv, TypeOK
  <1>2. Queue' = <<>>
    <2>1. 1..(Back' - top') = 1..0
      BY <1>1
    <2>2. Queue' = [k \in 1..0 |-> Queue'[k]]
      BY <2>1 DEF Queue
    <2>3. QED
      BY <2>2, ShapeOfEmpty
  <1>3. QED
    BY <1>1, <1>2 DEF Pool!Discard, Queue

(* A thief takes the first element by its compare-and-swap.                *)
LEMMA StealCasRefines ==
    ASSUME IInv, NEW t \in Thieves, StealCas(t)
    PROVE  Pool!StealFront \/ UNCHANGED <<Queue, takes>>
  <1> USE DEF CasTop, ownerVars
  <1>0. Back' = Back /\ \A n : Held(n)' = Held(n)
    BY DEF StealCas, Back, Popping, Held, Slot
  <1>1. CASE top # st[t]
    BY <1>0, <1>1, SameQueue DEF StealCas
  <1>2. CASE top = st[t]
    <2>1. top < Back /\ stolen[t] = Held(top) /\ top' = top + 1 /\ Take(stolen[t])
      BY <1>2 DEF StealCas, IInv, ThiefInv
    <2>2. Len(Queue) = Back - top /\ Queue # <<>> /\ Queue[1] = Held(top)
      BY <2>1, QueueShape
    <2>3. Queue' = Tail(Queue)
      <3>1. Queue' = [k \in 1..(Back - (top + 1)) |-> Held((top + 1) + k - 1)]
        BY <1>0, <2>1 DEF Queue
      <3>2. \A k \in 1..(Len(Queue) - 1) : Queue[k + 1] = Held((top + 1) + k - 1)
        BY <2>2, QueueShape
      <3>3. Queue' = [k \in 1..(Len(Queue) - 1) |-> Queue[k + 1]]
        BY <3>1, <3>2, <2>2, QueueShape
      <3>4. QED
        BY <3>3, <2>2, QueueShape, ShapeOfTail
    <2>4. Pool!StealFront
      BY <2>1, <2>2, <2>3 DEF Pool!StealFront, Pool!Handed, Take, Queue
    <2>5. QED
      BY <2>4
  <1>3. QED
    BY <1>1, <1>2

LEMMA NextRefines ==
    IInv /\ [Next]_vars => Pool!Next \/ UNCHANGED <<Queue, takes>>
  <1> SUFFICES ASSUME IInv, [Next]_vars
               PROVE  Pool!Next \/ UNCHANGED <<Queue, takes>>
    OBVIOUS
  <1>1. CASE PushWriteBottom
    BY <1>1, PushWriteBottomRefines DEF Pool!Next, PushWriteBottom, IInv, ItemInv, TypeOK, Pushing
  <1>2. CASE PopReadTop \/ PopCas
    BY <1>2, PopRefines DEF Pool!Next
  <1>3. CASE DiscardElements
    BY <1>3, DiscardRefines DEF Pool!Next
  <1>4. ASSUME NEW t \in Thieves, StealCas(t) PROVE Pool!Next \/ UNCHANGED <<Queue, takes>>
    BY <1>4, StealCasRefines DEF Pool!Next
  <1>5. CASE UNCHANGED vars
    BY <1>5, SameQueue DEF vars, ownerVars, thiefVars, histVars, Back, Popping, Held, Slot
  <1>6. QED
    BY <1>1, <1>2, <1>3, <1>4, <1>5, LocalStutters DEF Next, OwnerNext, OwnerStep, ThiefStep

LEMMA InitRefines == Init => Pool!Init
  BY DEF Init, Pool!Init, Back, Popping

(* Every behaviour of the lock-free operations is one of the atomic        *)
(* bounded deque: a push takes effect at the store to bottom, a pop at the *)
(* read of top or at its compare-and-swap, a steal at its compare-and-swap. *)
THEOREM DequeIsWorkPool == Spec => ImplementsWorkPool
  <1>1. IInv /\ [Next]_vars => [Pool!Next]_<<Queue, takes>>
    BY NextRefines
  <1>2. QED
    BY InitRefines, Inductive, <1>1, PTL DEF Spec, ImplementsWorkPool, Pool!Spec, Queue
===============================================================================
