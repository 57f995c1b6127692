--------------------------- MODULE GCThreadsProofs ---------------------------
(***************************************************************************)
(* For any number of Capabilities, of collections and of objects: when the  *)
(* leader stops, everything is scavenged; and the world stands still while  *)
(* it is collected.  Both from an inductive invariant, IInv.               *)
(*                                                                         *)
(* Termination detection works because gc_running_threads is never below    *)
(* the number of threads that may hold work (CountInv): a thread is counted *)
(* by the leader before it is let in, and counts itself again before it     *)
(* takes work.  An uncounted thread that comes back after the count was     *)
(* zero finds nothing (WorkInv, OverInv).  That it holds across collections *)
(* needs the spin locks to let a thread in and out once each (SpinInv,      *)
(* LetInv), and the idle flags to be right when a leader relies on them     *)
(* (IdleInv), though not later: GCThreads!NeverBarfs fails.                *)
(***************************************************************************)
EXTENDS GCThreads, FiniteSetTheorems, TLAPS

(* The invariant *)

(* A Task in any of these has got past requestSync and not yet begun.      *)
Wants(i) == gct[i].pc \in {"grab", "flag", "wait"}
(* From the reset of pending_sync until the last collector is let go.      *)
Conducts(i) == gct[i].leads \/ gct[i].pc \in {"wake", "let_in", "release", "let_out"}

Searching == {"scavenge", "steal", "idle", "any_work", "again", "done"}
LeaderPcs == Searching \cup {"shutdown"}
GcPcs == LeaderPcs \cup {"none", "mutator", "leaving", "grab", "flag", "wait", "wake", "let_in", "release",
                         "let_out", "barf", "enter", "stand_by", "leave", "continue"}

(* Woken, counted by the leader, and still in gc_spin.                     *)
Fresh(k) == GcAt(k, "stand_by") /\ gct[k].wakeup = "running"
Counted == {k \in GcCaps : gct[k].pc \in {"wake", "let_in", "scavenge", "steal"} \/ Fresh(k)}
HasWork(k) == gct[k].local > 0 \/ gct[k].todo > 0

Thread == [pc : GcPcs, owner : GcCaps \cup {Free},
           wakeup : {"inactive", "standing_by", "running", "waiting"},
           gcSpin : BOOLEAN, mutSpin : BOOLEAN, idle : BOOLEAN, local : Nat, todo : Nat,
           next : Int, leads : BOOLEAN, grabbed : SUBSET GcCaps]
Cols == [pending : BOOLEAN, running : Int, unseen : Nat, weak : Nat, off : SUBSET GcCaps, left : Nat]
GCTypeOK == gct \in [GcCaps -> Thread] /\ cols \in Cols

(* One Task wants to collect, and one does.                                *)
OneWants ==
  /\ \A i \in GcCaps : Wants(i) => cols.pending
  /\ \A i, k \in GcCaps : Wants(i) /\ Wants(k) => i = k
OneConducts ==
  /\ \A i, k \in GcCaps : Conducts(i) /\ Conducts(k) => i = k
  /\ \A i \in GcCaps : (gct[i].leads => gct[i].pc \in LeaderPcs) /\ (GcAt(i, "shutdown") => gct[i].leads)

(* An idle flag may be trusted by the leader that waits: it holds the      *)
(* Capability, and nobody has come to run there.                           *)
IdleInv ==
  /\ \A k \in GcCaps : gct[k].owner = Free => GcAt(k, "none")
  /\ \A i, k \in GcCaps : k \in gct[i].grabbed => gct[k].owner = i /\ GcAt(k, "none")
  /\ \A i, k \in GcCaps : GcAt(i, "wait") /\ gct[k].idle => k \in gct[i].grabbed

(* The spin locks and the flag let a collector thread in once, when it is  *)
(* counted, and out once.                                                  *)
SpinAt(k) ==
  /\ gct[k].wakeup = "standing_by" => GcAt(k, "stand_by")
  /\ gct[k].wakeup = "waiting" => GcAt(k, "continue") /\ gct[k].mutSpin
  /\ ~gct[k].gcSpin => (Fresh(k) /\ gct[k].mutSpin) \/ gct[k].pc \in {"leave", "continue"}
  /\ gct[k].pc \in Searching => gct[k].leads \/ gct[k].mutSpin
  /\ GcAt(k, "leave") => gct[k].mutSpin
  /\ GcAt(k, "continue") => gct[k].mutSpin \/ gct[k].gcSpin
SpinInv == \A k \in GcCaps : SpinAt(k)
LetAt(i) ==
  /\ gct[i].pc \in {"let_in", "let_out"} => gct[i].next \in GcCaps
  /\ \A k \in GcCaps : gct[i].next = k =>
       /\ GcAt(i, "let_in") => Fresh(k) /\ gct[k].gcSpin
       /\ GcAt(i, "let_out") => GcAt(k, "continue") /\ gct[k].wakeup = "inactive" /\ gct[k].mutSpin
LetInv == \A i \in GcCaps : LetAt(i)

(* Until the leader lets them go, the others are collectors, or grabbed.    *)
StoppedFor(i, k) ==
  \/ gct[k].pc \in Searching \cup {"stand_by", "leave"}
  \/ GcAt(k, "continue") /\ gct[k].mutSpin
  \/ GcAt(k, "none") /\ gct[k].owner = i
StoppedInv == \A i, k \in GcCaps : Leading(i) /\ k # i => StoppedFor(i, k)

(* gc_running_threads counts everybody who may have work, but for the      *)
(* leader that has just found some among the weak pointers.                *)
CountInv == Cardinality(Counted) <= cols.running
WorkInv == \A k \in GcCaps : HasWork(k) => GcAt(k, "scavenge") \/ (GcAt(k, "again") /\ gct[k].leads)

(* When the leader has seen the count at zero, nobody will get work.       *)
Over(i) == (GcAt(i, "done") /\ gct[i].leads) \/ gct[i].pc \in {"shutdown", "release", "let_out"}
OverInv == \A i \in GcCaps : Over(i) => \A k \in GcCaps : ~HasWork(k) /\ ~Fresh(k)

IInv ==
  /\ GCTypeOK /\ OneWants /\ OneConducts /\ IdleInv
  /\ SpinInv /\ LetInv /\ StoppedInv
  /\ CountInv /\ WorkInv /\ OverInv

----------------------------------------------------------------------------
(* Lemmas *)

(* The Capabilities are numbered.                                          *)
LEMMA Caps == GcCaps \subseteq Nat
<1>1. Cardinality(GcCaps) \in Nat /\ GcCaps = 0..(Cardinality(GcCaps) - 1)
  BY FS_CardinalityType, GCThreadsAssumption
<1> DEFINE n == Cardinality(GcCaps)
<1>2. \A i \in 0..(n - 1) : i \in Nat
  BY <1>1
<1> QED BY <1>1, <1>2

Same(k) == gct'[k] = gct[k]
SameOwner(k) == gct'[k].owner = gct[k].owner /\ gct'[k].idle = gct[k].idle /\ gct'[k].grabbed = gct[k].grabbed
SameSpins(k) == gct'[k].wakeup = gct[k].wakeup /\ gct'[k].gcSpin = gct[k].gcSpin /\ gct'[k].mutSpin = gct[k].mutSpin
SameWork(k) == gct'[k].local = gct[k].local /\ gct'[k].todo = gct[k].todo
SameLead(k) == gct'[k].next = gct[k].next /\ gct'[k].leads = gct[k].leads

(* What the steps below need of the types.                                 *)
LEMMA Typed == ASSUME IInv PROVE gct \in [GcCaps -> Thread] /\ cols \in Cols /\ \A k \in GcCaps : gct[k] \in Thread
  BY DEF IInv, GCTypeOK, Thread, Cols

(* Every set of Capabilities has a size.                                   *)
LEMMA CapsFinite == \A S \in SUBSET GcCaps : IsFiniteSet(S) /\ Cardinality(S) \in Nat
  BY FS_Subset, FS_CardinalityType, GCThreadsAssumption

(* Only Capabilities are counted.                                          *)
LEMMA CountedFinite == IsFiniteSet(Counted)
  BY FS_Subset, GCThreadsAssumption DEF Counted

(* The bound on the count survives when nobody is newly counted,           *)
LEMMA CountedShrinks ==
  ASSUME IInv, Counted' \subseteq Counted, cols'.running = cols.running
  PROVE  CountInv'
<1>1. Cardinality(Counted) \in Nat /\ Cardinality(Counted') \in Nat /\ Cardinality(Counted') <= Cardinality(Counted)
  BY FS_Subset, CountedFinite, FS_CardinalityType
<1> QED BY <1>1, Typed DEF IInv, CountInv, Cols

(* when inc_running comes with one more,                                   *)
LEMMA CountedGrows ==
  ASSUME IInv, NEW k \in GcCaps, Counted' = Counted \cup {k}, k \notin Counted, cols'.running = cols.running + 1
  PROVE  CountInv'
<1>1. Cardinality(Counted) \in Nat /\ Cardinality(Counted') = Cardinality(Counted) + 1
  BY FS_AddElement, CountedFinite, FS_CardinalityType
<1> QED BY <1>1 DEF IInv, CountInv, GCTypeOK, Cols

(* and when dec_running comes with one less.                               *)
LEMMA CountedLess ==
  ASSUME IInv, NEW k \in GcCaps, Counted' = Counted \ {k}, k \in Counted, cols'.running = cols.running - 1
  PROVE  CountInv'
<1>1. Cardinality(Counted) \in Nat /\ Cardinality(Counted') = Cardinality(Counted) - 1
  BY FS_RemoveElement, CountedFinite, FS_CardinalityType
<1> QED BY <1>1 DEF IInv, CountInv, GCTypeOK, Cols

(* The loops over gc_threads[] stay among the integers.                    *)
LEMMA NextCapType == ASSUME NEW i \in GcCaps PROVE FirstCap(i) \in Int /\ \A k \in Int : NextCap(i, k) \in Int
  BY Caps DEF FirstCap, NextCap

(* The roots of the idle Capabilities can be counted.                      *)
LEMMA IdleType == Cardinality({k \in GcCaps : gct[k].idle}) \in Nat
  BY CapsFinite

(* A step that changes nothing the invariant speaks of.                    *)
LEMMA Unmoved ==
  ASSUME IInv, gct' = gct, cols' \in Cols, cols'.running = cols.running, cols'.pending = cols.pending
  PROVE  IInv'
<1>1. GCTypeOK' /\ OneWants' /\ OneConducts' /\ IdleInv'
  BY DEF IInv, GCTypeOK, OneWants, Wants, OneConducts, Conducts, IdleInv, GcAt
<1>2. SpinInv' /\ LetInv'
  BY DEF IInv, SpinInv, SpinAt, LetInv, LetAt, Fresh, GcAt
<1>3. Counted' = Counted /\ CountInv'
  BY DEF IInv, CountInv, Counted, Fresh, GcAt
<1>4. WorkInv' /\ OverInv' /\ StoppedInv'
  BY DEF IInv, WorkInv, HasWork, OverInv, Over, Fresh, StoppedInv, StoppedFor, Leading, GcAt
<1> QED BY <1>1, <1>2, <1>3, <1>4 DEF IInv

(* The reset at the start of a collection keeps the types.                 *)
LEMMA ColsReset ==
  ASSUME NEW c \in Cols, NEW n \in Int, NEW a \in Nat, NEW b \in Nat
  PROVE  [c EXCEPT !.pending = FALSE, !.running = n, !.unseen = a, !.weak = b] \in Cols
  BY DEF Cols

(* No Capability is owned by nobody's number.                              *)
LEMMA FreeIsNobody == \A i \in GcCaps : i # Free
  BY Caps DEF Free

(* gc_running_threads = 0 means nobody scavenges, steals or has been woken to. *)
LEMMA CountedZero ==
  ASSUME IInv, cols.running = 0 PROVE Counted = {}
<1>1. IsFiniteSet(Counted) /\ Cardinality(Counted) \in Nat
  BY CountedFinite, FS_CardinalityType
<1> QED BY <1>1, FS_EmptySet DEF IInv, CountInv

----------------------------------------------------------------------------
(* Starting a collection                                                  *)

(* One Task wins requestSync.                                              *)
LEMMA WinSyncStep ==
  ASSUME IInv, NEW i \in GcCaps, WinSync(i)
  PROVE  IInv'
<1> USE DEF Same, SameOwner, SameSpins, SameWork, SameLead, GcAt
<1>1. gct \in [GcCaps -> Thread] /\ cols \in Cols /\ gct[i] \in Thread
  BY DEF IInv, GCTypeOK
<1>2. gct[i].pc = "mutator" /\ ~cols.pending /\ cols.left - 1 \in Nat
  BY <1>1 DEF WinSync, Cols, GcGoto
<1>3. gct' = [gct EXCEPT ![i] = [gct[i] EXCEPT !.pc = "grab"]]
  BY <1>1, <1>2, <1>1 DEF WinSync, Cols, GcGoto
<1>4. [gct[i] EXCEPT !.pc = "grab"] \in Thread
  BY <1>1, <1>2 DEF Thread, GcPcs, LeaderPcs, Searching
<1>5. gct' \in [GcCaps -> Thread] /\ gct'[i] = [gct[i] EXCEPT !.pc = "grab"]
  BY <1>1, <1>2, <1>3, <1>4
<1>6. /\ \A a \in GcCaps \ {i} : Same(a)
      /\ gct'[i].pc = "grab"
      /\ SameOwner(i)
      /\ SameSpins(i)
      /\ SameWork(i)
      /\ SameLead(i)
  BY <1>1, <1>3, <1>5 DEF Thread
<1>7. cols' \in Cols /\ cols'.running = cols.running /\ cols'.pending
  BY <1>1, <1>2, <1>1 DEF WinSync, Cols, Cols
<1>8. GCTypeOK'
  BY <1>1, <1>5, <1>7 DEF GCTypeOK
<1>9. OneWants' /\ OneConducts' /\ IdleInv'
  BY <1>2, <1>6, <1>7, <1>1 DEF IInv, OneWants, Wants, OneConducts, Conducts, LeaderPcs,
     Searching, IdleInv, Free
<1>10. SpinInv' /\ LetInv'
  BY <1>2, <1>6, <1>1 DEF IInv, SpinInv, SpinAt, LetInv, LetAt, Fresh, Searching
<1>11. WorkInv' /\ OverInv'
  BY <1>2, <1>6, <1>1 DEF IInv, WorkInv, OverInv, Over, HasWork, Fresh
<1>12. StoppedInv'
  BY <1>2, <1>6, <1>1 DEF IInv, StoppedInv, StoppedFor, Leading, Searching
<1>13. CountInv'
  <2>1. Counted' \subseteq Counted
    BY <1>2, <1>6, <1>7, <1>1 DEF Counted, Fresh
  <2> QED BY <2>1, <1>7, CountedShrinks
<1> QED BY <1>8, <1>9, <1>10, <1>11, <1>12, <1>13 DEF IInv

(* Free Capabilities are grabbed, and no others.                           *)
LEMMA GrabIdleStep ==
  ASSUME IInv, NEW i \in GcCaps, GrabIdle(i)
  PROVE  IInv'
<1> USE DEF SameSpins, SameWork, SameLead, GcAt
<1> DEFINE g == {k \in cols.off \ {i} : gct[k].owner = Free}
<1>1. gct \in [GcCaps -> Thread] /\ cols \in Cols /\ \A k \in GcCaps : gct[k] \in Thread
  BY DEF IInv, GCTypeOK
<1>2. gct[i].pc = "grab" /\ cols' = cols
  BY DEF GrabIdle
<1>3. gct' = [k \in GcCaps |-> IF k = i THEN [gct[k] EXCEPT !.pc = "flag", !.grabbed = g]
                               ELSE IF k \in g THEN [gct[k] EXCEPT !.owner = i] ELSE gct[k]]
  BY DEF GrabIdle
<1>4. g \in SUBSET (GcCaps \ {i}) /\ \A k \in g : gct[k].owner = Free
  BY <1>1 DEF Cols
<1> HIDE DEF g
<1>5. /\ gct'[i] = [gct[i] EXCEPT !.pc = "flag", !.grabbed = g]
      /\ \A k \in GcCaps \ {i} : gct'[k] = IF k \in g THEN [gct[k] EXCEPT !.owner = i] ELSE gct[k]
  BY <1>3, Zenon
<1>6. gct' \in [GcCaps -> Thread]
  <2>1. gct[i] \in Thread
    BY <1>1
  <2>2. [gct[i] EXCEPT !.pc = "flag", !.grabbed = g] \in Thread
    BY <1>4, <2>1 DEF Thread, GcPcs
  <2>3. \A k \in GcCaps : [gct[k] EXCEPT !.owner = i] \in Thread
    BY <1>1 DEF Thread
  <2>4. DOMAIN gct' = GcCaps /\ gct' = [k \in GcCaps |-> gct'[k]]
    BY <1>3
  <2>5. \A k \in GcCaps : gct'[k] \in Thread
    BY <1>1, <1>5, <2>2, <2>3
  <2> QED BY <2>4, <2>5
<1>7. /\ gct'[i].pc = "flag" /\ gct'[i].grabbed = g /\ gct'[i].owner = gct[i].owner /\ gct'[i].idle = gct[i].idle
      /\ SameSpins(i) /\ SameWork(i) /\ SameLead(i)
  <2>1. gct[i] \in Thread /\ gct'[i] = [gct[i] EXCEPT !.pc = "flag", !.grabbed = g]
    BY <1>1, <1>5
  <2> QED BY <2>1 DEF Thread
<1>8. \A k \in GcCaps \ {i} :
        /\ gct'[k].pc = gct[k].pc /\ gct'[k].grabbed = gct[k].grabbed /\ gct'[k].idle = gct[k].idle
        /\ gct'[k].owner = IF k \in g THEN i ELSE gct[k].owner
        /\ SameSpins(k) /\ SameWork(k) /\ SameLead(k)
  <2> TAKE k \in GcCaps \ {i}
  <2>1. gct[k] \in Thread
    BY <1>1
  <2>2. CASE k \in g
    <3>1. gct'[k] = [gct[k] EXCEPT !.owner = i]
      BY <1>5, <2>2
    <3> QED BY <2>1, <2>2, <3>1 DEF Thread
  <2>3. CASE k \notin g
    <3>1. gct'[k] = gct[k]
      BY <1>5, <2>3
    <3> QED BY <2>3, <3>1
  <2> QED BY <2>2, <2>3
<1>9. GCTypeOK'
  BY <1>1, <1>2, <1>6 DEF GCTypeOK
<1>10. OneWants' /\ OneConducts'
  BY <1>2, <1>7, <1>8, <1>2 DEF IInv, OneWants, Wants, OneConducts, Conducts, LeaderPcs, Searching
<1>11. IdleInv'
  BY <1>2, <1>7, <1>8, <1>4, FreeIsNobody DEF IInv, IdleInv
<1>12. SpinInv' /\ LetInv'
  BY <1>2, <1>7, <1>8 DEF IInv, SpinInv, SpinAt, LetInv, LetAt, Fresh, Searching
<1>13. WorkInv' /\ OverInv'
  BY <1>2, <1>7, <1>8 DEF IInv, WorkInv, OverInv, Over, HasWork, Fresh
<1>14. StoppedInv'
  <2>1. \A a \in GcCaps : ~Leading(a)
    BY <1>2 DEF IInv, StoppedInv, StoppedFor, OneConducts, Leading, LeaderPcs, Searching
  <2> QED BY <2>1, <1>2, <1>7, <1>8 DEF StoppedInv, StoppedFor, Leading
<1>15. CountInv'
  <2>1. Counted' \subseteq Counted
    BY <1>2, <1>7, <1>8 DEF Counted, Fresh
  <2> QED BY <2>1, <1>2, CountedShrinks
<1> QED BY <1>9, <1>10, <1>11, <1>12, <1>13, <1>14, <1>15 DEF IInv

(* The flags of those it holds, and only theirs, are set.                  *)
LEMMA SetIdleStep ==
  ASSUME IInv, NEW i \in GcCaps, SetIdle(i)
  PROVE  IInv'
<1> USE DEF SameSpins, SameWork, SameLead, GcAt
<1>1. gct \in [GcCaps -> Thread] /\ cols \in Cols /\ \A k \in GcCaps : gct[k] \in Thread
  BY DEF IInv, GCTypeOK
<1>2. gct[i].pc = "flag" /\ cols' = cols
  BY DEF SetIdle
<1>3. gct' = [k \in GcCaps |-> [gct[k] EXCEPT !.idle = k \in gct[i].grabbed, !.pc = IF k = i THEN "wait" ELSE @]]
  BY DEF SetIdle
<1>4. \A k \in GcCaps : \E b \in BOOLEAN, p \in GcPcs :
        /\ gct'[k] = [gct[k] EXCEPT !.idle = b, !.pc = p] /\ (b => k \in gct[i].grabbed)
        /\ p = IF k = i THEN "wait" ELSE gct[k].pc
  <2> TAKE k \in GcCaps
  <2> DEFINE b == k \in gct[i].grabbed
  <2> DEFINE p == IF k = i THEN "wait" ELSE gct[k].pc
  <2>1. gct'[k] = [gct[k] EXCEPT !.idle = b, !.pc = p]
    BY <1>3, Zenon
  <2>2. b \in BOOLEAN /\ (b => k \in gct[i].grabbed)
    OBVIOUS
  <2>3. p \in GcPcs
    BY <1>1 DEF Thread, GcPcs
  <2> HIDE DEF b
  <2> QED BY <2>1, <2>2, <2>3
<1>5. \A k \in GcCaps :
        /\ gct'[k] \in Thread
        /\ gct'[k].idle => k \in gct[i].grabbed
        /\ gct'[k].pc = (IF k = i THEN "wait" ELSE gct[k].pc) /\ gct'[k].grabbed = gct[k].grabbed
        /\ gct'[k].owner = gct[k].owner
        /\ SameSpins(k) /\ SameWork(k) /\ SameLead(k)
  <2> TAKE k \in GcCaps
  <2>1. PICK b \in BOOLEAN, p \in GcPcs :
          /\ gct'[k] = [gct[k] EXCEPT !.idle = b, !.pc = p] /\ (b => k \in gct[i].grabbed)
          /\ p = IF k = i THEN "wait" ELSE gct[k].pc
    BY <1>4
  <2>2. gct[k] \in Thread
    BY <1>1
  <2>3. [gct[k] EXCEPT !.idle = b, !.pc = p] \in Thread
    BY <2>2 DEF Thread
  <2> QED BY <2>1, <2>2, <2>3 DEF Thread
<1>6. gct' \in [GcCaps -> Thread]
  <2>1. gct' = [k \in GcCaps |-> gct'[k]]
    BY <1>3
  <2> QED BY <1>5, <2>1
<1>9. GCTypeOK'
  BY <1>1, <1>2, <1>6 DEF GCTypeOK
<1>10. OneWants' /\ OneConducts'
  BY <1>2, <1>5, <1>2 DEF IInv, OneWants, Wants, OneConducts, Conducts, LeaderPcs, Searching
<1>11. IdleInv'
  BY <1>2, <1>5 DEF IInv, IdleInv, OneWants, Wants
<1>12. SpinInv' /\ LetInv'
  BY <1>2, <1>5 DEF IInv, SpinInv, SpinAt, LetInv, LetAt, Fresh, Searching
<1>13. WorkInv' /\ OverInv'
  BY <1>2, <1>5 DEF IInv, WorkInv, OverInv, Over, HasWork, Fresh
<1>14. StoppedInv'
  <2>1. \A a \in GcCaps : ~Leading(a)
    BY <1>2 DEF IInv, StoppedInv, StoppedFor, OneConducts, Leading, LeaderPcs, Searching
  <2> QED BY <2>1, <1>2, <1>5 DEF StoppedInv, StoppedFor, Leading
<1>15. CountInv'
  <2>1. Counted' \subseteq Counted
    BY <1>2, <1>5 DEF Counted, Fresh
  <2> QED BY <2>1, <1>2, CountedShrinks
<1> QED BY <1>9, <1>10, <1>11, <1>12, <1>13, <1>14, <1>15 DEF IInv

(* Only a free Capability is prodded, which is nobody's and which no leader trusts. *)
LEMMA ProdStep ==
  ASSUME IInv, NEW i \in GcCaps, NEW k \in GcCaps, Prod(i, k)
  PROVE  IInv'
<1> USE DEF Same, SameOwner, SameSpins, SameWork, SameLead, GcAt
<1>1. gct \in [GcCaps -> Thread] /\ cols \in Cols /\ gct[k] \in Thread
  BY DEF IInv, GCTypeOK
<1>2. gct[i].pc = "wait" /\ gct[k].owner = Free /\ k # i
  BY DEF Prod
<1>3. \A a \in GcCaps : ~Leading(a)
  BY <1>2 DEF IInv, StoppedInv, StoppedFor, OneConducts, Leading, LeaderPcs, Searching
<1>4. k # Free
  BY FreeIsNobody
<1>5. gct[k].pc = "none" /\ \A a \in GcCaps : k \notin gct[a].grabbed
  BY <1>1, <1>2, FreeIsNobody DEF IInv, IdleInv
<1>6. gct' = [gct EXCEPT ![k] = [gct[k] EXCEPT !.owner = k, !.pc = "mutator"]]
  BY <1>1, <1>2 DEF Prod
<1>7. [gct[k] EXCEPT !.owner = k, !.pc = "mutator"] \in Thread
  BY <1>1, <1>2, <1>3, <1>4, <1>5 DEF Thread, GcPcs, LeaderPcs, Searching
<1>8. gct' \in [GcCaps -> Thread] /\ gct'[k] = [gct[k] EXCEPT !.owner = k, !.pc = "mutator"]
  BY <1>1, <1>2, <1>6, <1>7
<1>9. /\ \A a \in GcCaps \ {k} : Same(a)
      /\ gct'[k].owner = k
      /\ gct'[k].pc = "mutator"
      /\ gct'[k].idle = gct[k].idle
      /\ gct'[k].grabbed = gct[k].grabbed
      /\ SameSpins(k)
      /\ SameWork(k)
      /\ SameLead(k)
  BY <1>1, <1>6, <1>8 DEF Thread
<1>10. cols' = cols
  BY <1>1 DEF Prod, Cols
<1>11. GCTypeOK'
  BY <1>1, <1>8, <1>10 DEF GCTypeOK
<1>12. OneWants' /\ OneConducts' /\ IdleInv'
  BY <1>2, <1>3, <1>4, <1>5, <1>9, <1>10 DEF IInv, OneWants, Wants, OneConducts, Conducts,
     LeaderPcs, Searching, IdleInv, Free
<1>13. SpinInv' /\ LetInv'
  BY <1>2, <1>3, <1>4, <1>5, <1>9 DEF IInv, SpinInv, SpinAt, LetInv, LetAt, Fresh, Searching
<1>14. WorkInv' /\ OverInv'
  BY <1>2, <1>3, <1>4, <1>5, <1>9 DEF IInv, WorkInv, OverInv, Over, HasWork, Fresh
<1>15. StoppedInv'
  BY <1>2, <1>3, <1>4, <1>5, <1>9 DEF IInv, StoppedInv, StoppedFor, Leading, Searching
<1>16. CountInv'
  <2>1. Counted' \subseteq Counted
    BY <1>2, <1>3, <1>4, <1>5, <1>9, <1>10 DEF Counted, Fresh
  <2> QED BY <2>1, <1>10, CountedShrinks
<1> QED BY <1>11, <1>12, <1>13, <1>14, <1>15, <1>16 DEF IInv

(* A worker leaves.                                                        *)
LEMMA GiveUpStep ==
  ASSUME IInv, NEW i \in GcCaps, GiveUp(i)
  PROVE  IInv'
<1> USE DEF Same, SameOwner, SameSpins, SameWork, SameLead, GcAt
<1>1. gct \in [GcCaps -> Thread] /\ cols \in Cols /\ gct[i] \in Thread
  BY DEF IInv, GCTypeOK
<1>2. gct[i].pc = "mutator"
  BY DEF GiveUp, GcGoto
<1>3. gct' = [gct EXCEPT ![i] = [gct[i] EXCEPT !.pc = "leaving"]]
  BY <1>1, <1>2 DEF GiveUp, GcGoto
<1>4. [gct[i] EXCEPT !.pc = "leaving"] \in Thread
  BY <1>1, <1>2 DEF Thread, GcPcs, LeaderPcs, Searching
<1>5. gct' \in [GcCaps -> Thread] /\ gct'[i] = [gct[i] EXCEPT !.pc = "leaving"]
  BY <1>1, <1>2, <1>3, <1>4
<1>6. /\ \A a \in GcCaps \ {i} : Same(a)
      /\ gct'[i].pc = "leaving"
      /\ SameOwner(i)
      /\ SameSpins(i)
      /\ SameWork(i)
      /\ SameLead(i)
  BY <1>1, <1>3, <1>5 DEF Thread
<1>7. cols' = cols
  BY <1>1 DEF GiveUp, Cols
<1>8. GCTypeOK'
  BY <1>1, <1>5, <1>7 DEF GCTypeOK
<1>9. OneWants' /\ OneConducts' /\ IdleInv'
  BY <1>2, <1>6, <1>7 DEF IInv, OneWants, Wants, OneConducts, Conducts, LeaderPcs, Searching,
     IdleInv, Free
<1>10. SpinInv' /\ LetInv'
  BY <1>2, <1>6 DEF IInv, SpinInv, SpinAt, LetInv, LetAt, Fresh, Searching
<1>11. WorkInv' /\ OverInv'
  BY <1>2, <1>6 DEF IInv, WorkInv, OverInv, Over, HasWork, Fresh
<1>12. StoppedInv'
  BY <1>2, <1>6 DEF IInv, StoppedInv, StoppedFor, Leading, Searching
<1>13. CountInv'
  <2>1. Counted' \subseteq Counted
    BY <1>2, <1>6, <1>7 DEF Counted, Fresh
  <2> QED BY <2>1, <1>7, CountedShrinks
<1> QED BY <1>8, <1>9, <1>10, <1>11, <1>12, <1>13 DEF IInv

(* It has left, and no leader had grabbed its Capability.                  *)
LEMMA GivenUpStep ==
  ASSUME IInv, NEW i \in GcCaps, GivenUp(i)
  PROVE  IInv'
<1> USE DEF Same, SameOwner, SameSpins, SameWork, SameLead, GcAt
<1>1. gct \in [GcCaps -> Thread] /\ cols \in Cols /\ gct[i] \in Thread
  BY DEF IInv, GCTypeOK
<1>2. gct[i].pc = "leaving"
  BY DEF GivenUp
<1>3. gct' = [gct EXCEPT ![i] = [gct[i] EXCEPT !.owner = Free, !.pc = "none"]]
  BY <1>1, <1>2 DEF GivenUp
<1>4. [gct[i] EXCEPT !.owner = Free, !.pc = "none"] \in Thread
  BY <1>1, <1>2 DEF Thread, GcPcs, LeaderPcs, Searching
<1>5. gct' \in [GcCaps -> Thread] /\ gct'[i] = [gct[i] EXCEPT !.owner = Free, !.pc = "none"]
  BY <1>1, <1>2, <1>3, <1>4
<1>6. /\ \A a \in GcCaps \ {i} : Same(a)
      /\ gct'[i].owner = Free
      /\ gct'[i].pc = "none"
      /\ gct'[i].idle = gct[i].idle
      /\ gct'[i].grabbed = gct[i].grabbed
      /\ SameSpins(i)
      /\ SameWork(i)
      /\ SameLead(i)
  BY <1>1, <1>3, <1>5 DEF Thread
<1>7. cols' = cols
  BY <1>1 DEF GivenUp, Cols
<1>8. GCTypeOK'
  BY <1>1, <1>5, <1>7 DEF GCTypeOK
<1>9. OneWants' /\ OneConducts' /\ IdleInv'
  BY <1>2, <1>6, <1>7 DEF IInv, OneWants, Wants, OneConducts, Conducts, LeaderPcs, Searching,
     IdleInv, Free
<1>10. SpinInv' /\ LetInv'
  BY <1>2, <1>6 DEF IInv, SpinInv, SpinAt, LetInv, LetAt, Fresh, Searching
<1>11. WorkInv' /\ OverInv'
  BY <1>2, <1>6 DEF IInv, WorkInv, OverInv, Over, HasWork, Fresh
<1>12. StoppedInv'
  BY <1>2, <1>6 DEF IInv, StoppedInv, StoppedFor, Leading, Searching
<1>13. CountInv'
  <2>1. Counted' \subseteq Counted
    BY <1>2, <1>6, <1>7 DEF Counted, Fresh
  <2> QED BY <2>1, <1>7, CountedShrinks
<1> QED BY <1>8, <1>9, <1>10, <1>11, <1>12, <1>13 DEF IInv

(* All stand by, so nobody is counted but the leader, and no other collection is on. *)
LEMMA StartGCStep ==
  ASSUME IInv, NEW i \in GcCaps, StartGC(i)
  PROVE  IInv'
<1> USE DEF Same, SameOwner, SameSpins, SameWork, SameLead, GcAt
<1>1. gct \in [GcCaps -> Thread] /\ cols \in Cols /\ gct[i] \in Thread
  BY DEF IInv, GCTypeOK
<1>2. gct[i].pc = "wait" /\ \A k \in GcCaps \ {i} : StandingBy(k)
  BY DEF StartGC
<1>3. MaxEvacuated \in Nat /\ MaxWeakRounds \in Nat
  BY GCThreadsAssumption
<1>4. cols' = [cols EXCEPT !.pending = FALSE, !.running = 1, !.unseen = MaxEvacuated, !.weak = MaxWeakRounds]
  BY DEF StartGC
<1>5. FirstCap(i) \in Int
  BY NextCapType
<1>6. \A k \in GcCaps \ {i} : \/ gct[k].pc = "none" /\ gct[k].owner = i
                              \/ gct[k].pc = "stand_by" /\ gct[k].wakeup = "standing_by"
  BY <1>2 DEF IInv, IdleInv, SpinInv, SpinAt, StandingBy
<1>7. \A k \in GcCaps : ~Conducts(k) /\ ~Over(k)
  BY <1>2, <1>6 DEF IInv, OneConducts, Conducts, Over, LeaderPcs, Searching
<1>8. gct' = [gct EXCEPT ![i] = [gct[i] EXCEPT !.pc = "wake", !.next = FirstCap(i)]]
  BY <1>1, <1>2 DEF StartGC
<1>9. [gct[i] EXCEPT !.pc = "wake", !.next = FirstCap(i)] \in Thread
  BY <1>1, <1>2, <1>3, <1>4, <1>5, <1>6, <1>7 DEF Thread, GcPcs, LeaderPcs, Searching
<1>10. gct' \in [GcCaps -> Thread] /\ gct'[i] = [gct[i] EXCEPT !.pc = "wake", !.next = FirstCap(i)]
  BY <1>1, <1>2, <1>8, <1>9
<1>11. /\ \A a \in GcCaps \ {i} : Same(a)
      /\ gct'[i].pc = "wake"
      /\ gct'[i].next = FirstCap(i)
      /\ gct'[i].leads = gct[i].leads
      /\ SameOwner(i)
      /\ SameSpins(i)
      /\ SameWork(i)
  BY <1>1, <1>8, <1>10 DEF Thread
<1>12. cols' \in Cols /\ cols'.running = 1
  <2>1. cols \in Cols
    BY <1>1
  <2>2. [cols EXCEPT !.pending = FALSE, !.running = 1, !.unseen = MaxEvacuated, !.weak = MaxWeakRounds] \in Cols
    BY <2>1, <1>3, 1 \in Int, ColsReset, Zenon
  <2> QED BY <2>1, <2>2, <1>4 DEF Cols
<1>13. GCTypeOK'
  BY <1>1, <1>10, <1>12 DEF GCTypeOK
<1>14. OneWants' /\ OneConducts' /\ IdleInv'
  BY <1>2, <1>6, <1>7, <1>11, <1>12 DEF IInv, OneWants, Wants, OneConducts, Conducts, LeaderPcs,
     Searching, IdleInv, Free
<1>15. SpinInv' /\ LetInv'
  BY <1>2, <1>6, <1>7, <1>11 DEF IInv, SpinInv, SpinAt, LetInv, LetAt, Fresh, Searching
<1>16. WorkInv' /\ OverInv'
  BY <1>2, <1>6, <1>7, <1>11 DEF IInv, WorkInv, OverInv, Over, HasWork, Fresh
<1>17. StoppedInv'
  BY <1>2, <1>6, <1>7, <1>11 DEF IInv, StoppedInv, StoppedFor, Leading, Searching
<1>18. CountInv'
  <2>1. Counted' = {i}
    BY <1>2, <1>6, <1>7, <1>11, <1>12 DEF Counted, Fresh
  <2> QED BY <2>1, <1>12, FS_Singleton DEF CountInv
<1> QED BY <1>13, <1>14, <1>15, <1>16, <1>17, <1>18 DEF IInv

(* A thread is counted, and then woken.                                    *)
LEMMA WakeGcThreadStep ==
  ASSUME IInv, NEW i \in GcCaps, WakeGcThread(i)
  PROVE  IInv'
<1>0. PICK k \in GcCaps : k = gct[i].next
  BY DEF WakeGcThread, AllSeen
<1>1. CASE gct[gct[i].next].idle
  <2> USE DEF Same, SameOwner, SameSpins, SameWork, SameLead, GcAt
  <2>1. gct \in [GcCaps -> Thread] /\ cols \in Cols /\ gct[i] \in Thread
    BY DEF IInv, GCTypeOK
  <2>2. gct[i].pc = "wake" /\ gct[i].next \in GcCaps
    BY <1>1 DEF WakeGcThread, AllSeen, GcGoto
  <2>3. NextCap(i, gct[i].next) \in Int
    BY <2>1, NextCapType DEF Thread
  <2>4. gct' = [gct EXCEPT ![i] = [gct[i] EXCEPT !.next = NextCap(i, gct[i].next)]]
    BY <2>1, <2>2, <1>1 DEF WakeGcThread, AllSeen, GcGoto
  <2>5. [gct[i] EXCEPT !.next = NextCap(i, gct[i].next)] \in Thread
    BY <2>1, <2>2, <2>3 DEF Thread, GcPcs, LeaderPcs, Searching
  <2>6. gct' \in [GcCaps -> Thread] /\ gct'[i] = [gct[i] EXCEPT !.next = NextCap(i, gct[i].next)]
    BY <2>1, <2>2, <2>4, <2>5
  <2>7. /\ \A a \in GcCaps \ {i} : Same(a)
        /\ gct'[i].next = NextCap(i, gct[i].next)
        /\ gct'[i].leads = gct[i].leads
        /\ gct'[i].pc = gct[i].pc
        /\ SameOwner(i)
        /\ SameSpins(i)
        /\ SameWork(i)
    BY <2>1, <2>4, <2>6 DEF Thread
  <2>8. cols' = cols
    BY <2>1, <2>2, <1>1 DEF WakeGcThread, AllSeen, Cols
  <2>9. GCTypeOK'
    BY <2>1, <2>6, <2>8 DEF GCTypeOK
  <2>10. OneWants' /\ OneConducts' /\ IdleInv'
    BY <2>2, <2>7, <2>8, <1>1 DEF IInv, OneWants, Wants, OneConducts, Conducts, LeaderPcs,
       Searching, IdleInv, Free
  <2>11. SpinInv' /\ LetInv'
    BY <2>2, <2>7, <1>1 DEF IInv, SpinInv, SpinAt, LetInv, LetAt, Fresh, Searching
  <2>12. WorkInv' /\ OverInv'
    BY <2>2, <2>7, <1>1 DEF IInv, WorkInv, OverInv, Over, HasWork, Fresh
  <2>13. StoppedInv'
    BY <2>2, <2>7, <1>1 DEF IInv, StoppedInv, StoppedFor, Leading, Searching
  <2>14. CountInv'
    <3>1. Counted' \subseteq Counted
      BY <2>2, <2>7, <2>8, <1>1 DEF Counted, Fresh
    <3> QED BY <3>1, <2>8, CountedShrinks
  <2> QED BY <2>9, <2>10, <2>11, <2>12, <2>13, <2>14 DEF IInv
<1>2. CASE ~gct[gct[i].next].idle /\ gct[gct[i].next].wakeup # "standing_by"
  <2> USE DEF Same, SameOwner, SameSpins, SameWork, SameLead, GcAt
  <2>1. gct \in [GcCaps -> Thread] /\ cols \in Cols /\ gct[i] \in Thread
    BY DEF IInv, GCTypeOK
  <2>2. gct[i].pc = "wake"
    BY <1>2 DEF WakeGcThread, GcGoto
  <2>3. gct' = [gct EXCEPT ![i] = [gct[i] EXCEPT !.pc = "barf"]]
    BY <2>1, <2>2, <1>2 DEF WakeGcThread, GcGoto
  <2>4. [gct[i] EXCEPT !.pc = "barf"] \in Thread
    BY <2>1, <2>2 DEF Thread, GcPcs, LeaderPcs, Searching
  <2>5. gct' \in [GcCaps -> Thread] /\ gct'[i] = [gct[i] EXCEPT !.pc = "barf"]
    BY <2>1, <2>2, <2>3, <2>4
  <2>6. /\ \A a \in GcCaps \ {i} : Same(a)
        /\ gct'[i].pc = "barf"
        /\ SameOwner(i)
        /\ SameSpins(i)
        /\ SameWork(i)
        /\ SameLead(i)
    BY <2>1, <2>3, <2>5 DEF Thread
  <2>7. cols' = cols
    BY <2>1, <2>2, <1>2 DEF WakeGcThread, Cols
  <2>8. GCTypeOK'
    BY <2>1, <2>5, <2>7 DEF GCTypeOK
  <2>9. OneWants' /\ OneConducts' /\ IdleInv'
    BY <2>2, <2>6, <2>7, <1>2 DEF IInv, OneWants, Wants, OneConducts, Conducts, LeaderPcs,
       Searching, IdleInv, Free
  <2>10. SpinInv' /\ LetInv'
    BY <2>2, <2>6, <1>2 DEF IInv, SpinInv, SpinAt, LetInv, LetAt, Fresh, Searching
  <2>11. WorkInv' /\ OverInv'
    BY <2>2, <2>6, <1>2 DEF IInv, WorkInv, OverInv, Over, HasWork, Fresh
  <2>12. StoppedInv'
    BY <2>2, <2>6, <1>2 DEF IInv, StoppedInv, StoppedFor, Leading, Searching
  <2>13. CountInv'
    <3>1. Counted' \subseteq Counted
      BY <2>2, <2>6, <2>7, <1>2 DEF Counted, Fresh
    <3> QED BY <3>1, <2>7, CountedShrinks
  <2> QED BY <2>8, <2>9, <2>10, <2>11, <2>12, <2>13 DEF IInv
<1>3. CASE ~gct[gct[i].next].idle /\ gct[gct[i].next].wakeup = "standing_by"
  <2> USE DEF Same, SameOwner, SameSpins, SameWork, SameLead, GcAt
  <2>1. gct \in [GcCaps -> Thread] /\ cols \in Cols /\ gct[k] \in Thread /\ gct[i] \in Thread
    BY DEF IInv, GCTypeOK
  <2>2. gct[i].pc = "wake" /\ gct[i].next = k /\ k # i /\ gct[k].pc = "stand_by" /\ gct[k].wakeup = "standing_by"
    BY <1>0, <1>3 DEF WakeGcThread, IInv, SpinInv, SpinAt
  <2>3. \A a \in GcCaps : ~Over(a)
    BY <2>2 DEF IInv, OneConducts, Conducts, Over
  <2>4. \A a \in GcCaps \ {i} : ~Conducts(a)
    BY <2>2 DEF IInv, OneConducts, Conducts
  <2>5. gct[k].gcSpin
    BY <2>1, <2>2, <1>3 DEF IInv, SpinInv, SpinAt, Fresh, Thread
  <2>6. gct' = [gct EXCEPT ![k] = [gct[k] EXCEPT !.wakeup = "running"], ![i] = [gct[i] EXCEPT !.pc = "let_in"]]
    BY <2>1, <2>2, <1>3 DEF WakeGcThread, AllSeen, OneMore, GcGoto
  <2>7. [gct[k] EXCEPT !.wakeup = "running"] \in Thread /\ [gct[i] EXCEPT !.pc = "let_in"] \in Thread
    BY <2>1, <2>2, <2>3, <2>4, <2>5 DEF Thread, GcPcs, LeaderPcs, Searching
  <2>8. /\ gct' \in [GcCaps -> Thread]
        /\ gct'[k] = [gct[k] EXCEPT !.wakeup = "running"]
        /\ gct'[i] = [gct[i] EXCEPT !.pc = "let_in"]
    BY <2>1, <2>2, <2>6, <2>7
  <2>9. /\ \A a \in GcCaps \ {k, i} : Same(a)
        /\ gct'[k].wakeup = "running"
        /\ gct'[k].gcSpin = gct[k].gcSpin
        /\ gct'[k].mutSpin = gct[k].mutSpin
        /\ gct'[k].pc = gct[k].pc
        /\ SameOwner(k)
        /\ SameWork(k)
        /\ SameLead(k)
        /\ gct'[i].pc = "let_in"
        /\ SameOwner(i)
        /\ SameSpins(i)
        /\ SameWork(i)
        /\ SameLead(i)
    BY <2>1, <2>6, <2>8 DEF Thread
  <2>10. cols' \in Cols /\ cols'.running = cols.running + 1 /\ cols'.pending = cols.pending
    BY <2>1, <2>2, <1>3 DEF WakeGcThread, AllSeen, OneMore, Cols
  <2>11. GCTypeOK'
    BY <2>1, <2>8, <2>10 DEF GCTypeOK
  <2>12. OneWants'
    BY <2>2, <2>3, <2>4, <2>5, <2>9, <2>10 DEF IInv, OneWants, Wants
  <2>13. OneConducts'
    BY <2>2, <2>3, <2>4, <2>5, <2>9 DEF IInv, OneConducts, Conducts, LeaderPcs, Searching
  <2>14. IdleInv'
    BY <2>2, <2>3, <2>4, <2>5, <2>9 DEF IInv, IdleInv, Free
  <2>15. SpinInv'
    <3>1. SpinAt(k)'
      BY <2>2, <2>3, <2>4, <2>5, <2>9 DEF IInv, SpinInv, SpinAt, Fresh, Searching
    <3>2. SpinAt(i)'
      BY <2>2, <2>3, <2>4, <2>5, <2>9 DEF IInv, SpinInv, SpinAt, Fresh, Searching
    <3>3. \A a \in GcCaps \ {k, i} : SpinAt(a)'
      BY <2>2, <2>3, <2>4, <2>5, <2>9 DEF IInv, SpinInv, SpinAt, Fresh, Searching
    <3> QED BY <3>1, <3>2, <3>3 DEF SpinInv
  <2>16. LetInv'
    <3>1. LetAt(k)'
      BY <2>2, <2>3, <2>4, <2>5, <2>9 DEF IInv, LetInv, LetAt, Fresh, Conducts
    <3>2. LetAt(i)'
      <4>1. gct'[i].next = k /\ Fresh(k)' /\ gct'[k].gcSpin
        BY <2>2, <2>3, <2>4, <2>5, <2>9 DEF Fresh
      <4> QED BY <4>1, <2>9 DEF LetAt
    <3>3. \A a \in GcCaps \ {k, i} : LetAt(a)'
      BY <2>2, <2>3, <2>4, <2>5, <2>9 DEF IInv, LetInv, LetAt, Fresh, Conducts
    <3> QED BY <3>1, <3>2, <3>3 DEF LetInv
  <2>17. WorkInv'
    BY <2>2, <2>3, <2>4, <2>5, <2>9 DEF IInv, WorkInv, HasWork
  <2>18. OverInv'
    BY <2>2, <2>3, <2>4, <2>5, <2>9 DEF IInv, OverInv, Over, HasWork, Fresh
  <2>19. StoppedInv'
    BY <2>2, <2>3, <2>4, <2>5, <2>9 DEF IInv, StoppedInv, StoppedFor, Leading, Searching
  <2>20. CountInv'
    <3>1. Counted' = Counted \cup {k} /\ k \notin Counted
      BY <2>2, <2>3, <2>4, <2>5, <2>9, <2>10 DEF Counted, Fresh
    <3> QED BY <3>1, <2>10, <2>2, CountedGrows
  <2> QED BY <2>11, <2>12, <2>13, <2>14, <2>15, <2>16, <2>17, <2>18, <2>19, <2>20 DEF IInv
<1> QED BY <1>1, <1>2, <1>3

(* The thread that is let in is the one just counted.                      *)
LEMMA LetInStep ==
  ASSUME IInv, NEW i \in GcCaps, LetIn(i)
  PROVE  IInv'
<1> USE DEF Same, SameOwner, SameSpins, SameWork, SameLead, GcAt
<1>0. PICK k \in GcCaps : k = gct[i].next
  BY DEF IInv, LetInv, LetAt, LetIn
<1>1. gct \in [GcCaps -> Thread] /\ cols \in Cols /\ gct[k] \in Thread /\ gct[i] \in Thread
  BY DEF IInv, GCTypeOK
<1>2. gct[i].pc = "let_in" /\ gct[i].next = k /\ Fresh(k) /\ k # i
  BY <1>0 DEF LetIn, IInv, LetInv, LetAt, Fresh
<1>3. NextCap(i, k) \in Int
  BY Caps, NextCapType
<1>4. \A a \in GcCaps \ {i} : ~Conducts(a)
  BY <1>2 DEF IInv, OneConducts, Conducts
<1>5. gct' = [gct EXCEPT ![k] = [gct[k] EXCEPT !.mutSpin = TRUE, !.gcSpin = FALSE],
                         ![i] = [gct[i] EXCEPT !.pc = "wake", !.next = NextCap(i, k)]]
  BY <1>1, <1>2, <1>4 DEF LetIn
<1>6. /\ [gct[k] EXCEPT !.mutSpin = TRUE, !.gcSpin = FALSE] \in Thread
      /\ [gct[i] EXCEPT !.pc = "wake", !.next = NextCap(i, k)] \in Thread
  BY <1>1, <1>3, <1>4 DEF Thread, GcPcs, LeaderPcs, Searching
<1>7. /\ gct' \in [GcCaps -> Thread]
      /\ gct'[k] = [gct[k] EXCEPT !.mutSpin = TRUE, !.gcSpin = FALSE]
      /\ gct'[i] = [gct[i] EXCEPT !.pc = "wake", !.next = NextCap(i, k)]
  BY <1>1, <1>2, <1>5, <1>6
<1>8. /\ \A a \in GcCaps \ {k, i} : Same(a)
      /\ gct'[k].mutSpin = TRUE
      /\ gct'[k].gcSpin = FALSE
      /\ gct'[k].wakeup = gct[k].wakeup
      /\ gct'[k].pc = gct[k].pc
      /\ SameOwner(k)
      /\ SameWork(k)
      /\ SameLead(k)
      /\ gct'[i].pc = "wake"
      /\ gct'[i].next = NextCap(i, k)
      /\ gct'[i].leads = gct[i].leads
      /\ SameOwner(i)
      /\ SameSpins(i)
      /\ SameWork(i)
  BY <1>1, <1>5, <1>7 DEF Thread
<1>9. cols' = cols
  BY <1>1 DEF LetIn, Fresh, Cols
<1>10. GCTypeOK'
  BY <1>1, <1>7, <1>9 DEF GCTypeOK
<1>11. OneWants'
  BY <1>2, <1>4, <1>8, <1>9 DEF IInv, OneWants, Wants
<1>12. OneConducts'
  BY <1>2, <1>4, <1>8 DEF IInv, OneConducts, Conducts, LeaderPcs, Searching
<1>13. IdleInv'
  BY <1>2, <1>4, <1>8 DEF IInv, IdleInv, Free
<1>14. SpinInv'
  <2>1. SpinAt(k)'
    BY <1>2, <1>4, <1>8 DEF IInv, SpinInv, SpinAt, Fresh, Searching
  <2>2. SpinAt(i)'
    BY <1>2, <1>4, <1>8 DEF IInv, SpinInv, SpinAt, Fresh, Searching
  <2>3. \A a \in GcCaps \ {k, i} : SpinAt(a)'
    BY <1>2, <1>4, <1>8 DEF IInv, SpinInv, SpinAt, Fresh, Searching
  <2> QED BY <2>1, <2>2, <2>3 DEF SpinInv
<1>15. LetInv'
  <2>1. LetAt(k)'
    BY <1>2, <1>4, <1>8 DEF IInv, LetInv, LetAt, Fresh, Conducts
  <2>2. LetAt(i)'
    BY <1>2, <1>4, <1>8 DEF IInv, LetInv, LetAt, Fresh, Conducts
  <2>3. \A a \in GcCaps \ {k, i} : LetAt(a)'
    BY <1>2, <1>4, <1>8 DEF IInv, LetInv, LetAt, Fresh, Conducts
  <2> QED BY <2>1, <2>2, <2>3 DEF LetInv
<1>16. WorkInv'
  BY <1>2, <1>4, <1>8 DEF IInv, WorkInv, HasWork
<1>17. OverInv'
  BY <1>2, <1>4, <1>8 DEF IInv, OverInv, Over, HasWork, Fresh
<1>18. StoppedInv'
  BY <1>2, <1>4, <1>8 DEF IInv, StoppedInv, StoppedFor, Leading, Searching
<1>19. CountInv'
  <2>1. Counted' \subseteq Counted
    BY <1>2, <1>4, <1>8, <1>9 DEF Counted, Fresh
  <2> QED BY <2>1, <1>9, CountedShrinks
<1> QED BY <1>10, <1>11, <1>12, <1>13, <1>14, <1>15, <1>16, <1>17, <1>18, <1>19 DEF IInv

(* The leader is counted already.                                          *)
LEMMA LeaderRootsStep ==
  ASSUME IInv, NEW i \in GcCaps, LeaderRoots(i)
  PROVE  IInv'
<1> USE DEF Same, SameOwner, SameSpins, SameWork, SameLead, GcAt
<1> DEFINE n == 1 + Cardinality({k \in GcCaps : gct[k].idle})
<1>1. gct \in [GcCaps -> Thread] /\ cols \in Cols /\ gct[i] \in Thread
  BY DEF IInv, GCTypeOK
<1>2. gct[i].pc = "wake"
  BY DEF LeaderRoots
<1>3. \A a \in GcCaps : ~Over(a)
  BY <1>2 DEF IInv, OneConducts, Conducts, Over
<1>4. n \in Nat
  BY IdleType
<1>5. gct' = [gct EXCEPT ![i] = [gct[i] EXCEPT !.pc = "scavenge", !.leads = TRUE, !.local = n]]
  BY <1>1, <1>2 DEF LeaderRoots
<1> HIDE DEF n
<1>6. [gct[i] EXCEPT !.pc = "scavenge", !.leads = TRUE, !.local = n] \in Thread
  BY <1>1, <1>2, <1>3, <1>4 DEF Thread, GcPcs, LeaderPcs, Searching
<1>7. gct' \in [GcCaps -> Thread] /\ gct'[i] = [gct[i] EXCEPT !.pc = "scavenge", !.leads = TRUE, !.local = n]
  BY <1>1, <1>2, <1>5, <1>6
<1>8. /\ \A a \in GcCaps \ {i} : Same(a)
      /\ gct'[i].pc = "scavenge"
      /\ gct'[i].leads = TRUE
      /\ gct'[i].local = n
      /\ gct'[i].todo = gct[i].todo
      /\ gct'[i].next = gct[i].next
      /\ SameOwner(i)
      /\ SameSpins(i)
  BY <1>1, <1>5, <1>7 DEF Thread
<1>9. cols' = cols
  BY <1>1 DEF LeaderRoots, Cols
<1>10. GCTypeOK'
  BY <1>1, <1>7, <1>9 DEF GCTypeOK
<1>11. OneWants' /\ OneConducts' /\ IdleInv'
  BY <1>2, <1>3, <1>8, <1>9 DEF IInv, OneWants, Wants, OneConducts, Conducts, LeaderPcs,
     Searching, IdleInv, Free
<1>12. SpinInv' /\ LetInv'
  BY <1>2, <1>3, <1>8 DEF IInv, SpinInv, SpinAt, LetInv, LetAt, Fresh, Searching
<1>13. WorkInv' /\ OverInv'
  BY <1>2, <1>3, <1>8 DEF IInv, WorkInv, OverInv, Over, HasWork, Fresh
<1>14. StoppedInv'
  BY <1>2, <1>3, <1>8 DEF IInv, StoppedInv, StoppedFor, Leading, Searching
<1>15. CountInv'
  <2>1. Counted' \subseteq Counted
    BY <1>2, <1>3, <1>8, <1>9 DEF Counted, Fresh
  <2> QED BY <2>1, <1>9, CountedShrinks
<1> QED BY <1>10, <1>11, <1>12, <1>13, <1>14, <1>15 DEF IInv

----------------------------------------------------------------------------
(* The collector threads                                                  *)

(* mut_spin is taken before anybody may lead.                              *)
LEMMA EnterWorkerStep ==
  ASSUME IInv, NEW i \in GcCaps, EnterWorker(i)
  PROVE  IInv'
<1> USE DEF Same, SameOwner, SameSpins, SameWork, SameLead, GcAt
<1>1. gct \in [GcCaps -> Thread] /\ cols \in Cols /\ gct[i] \in Thread
  BY DEF IInv, GCTypeOK
<1>2. gct[i].pc = "mutator"
  BY DEF EnterWorker
<1>3. gct' = [gct EXCEPT ![i] = [gct[i] EXCEPT !.mutSpin = FALSE, !.pc = "enter"]]
  BY <1>1, <1>2 DEF EnterWorker
<1>4. [gct[i] EXCEPT !.mutSpin = FALSE, !.pc = "enter"] \in Thread
  BY <1>1, <1>2 DEF Thread, GcPcs, LeaderPcs, Searching
<1>5. gct' \in [GcCaps -> Thread] /\ gct'[i] = [gct[i] EXCEPT !.mutSpin = FALSE, !.pc = "enter"]
  BY <1>1, <1>2, <1>3, <1>4
<1>6. /\ \A a \in GcCaps \ {i} : Same(a)
      /\ gct'[i].mutSpin = FALSE
      /\ gct'[i].pc = "enter"
      /\ gct'[i].wakeup = gct[i].wakeup
      /\ gct'[i].gcSpin = gct[i].gcSpin
      /\ SameOwner(i)
      /\ SameWork(i)
      /\ SameLead(i)
  BY <1>1, <1>3, <1>5 DEF Thread
<1>7. cols' = cols
  BY <1>1 DEF EnterWorker, Cols
<1>8. GCTypeOK'
  BY <1>1, <1>5, <1>7 DEF GCTypeOK
<1>9. OneWants' /\ OneConducts' /\ IdleInv'
  BY <1>2, <1>6, <1>7 DEF IInv, OneWants, Wants, OneConducts, Conducts, LeaderPcs, Searching,
     IdleInv, Free
<1>10. SpinInv' /\ LetInv'
  BY <1>2, <1>6 DEF IInv, SpinInv, SpinAt, LetInv, LetAt, Fresh, Searching
<1>11. WorkInv' /\ OverInv'
  BY <1>2, <1>6 DEF IInv, WorkInv, OverInv, Over, HasWork, Fresh
<1>12. StoppedInv'
  BY <1>2, <1>6 DEF IInv, StoppedInv, StoppedFor, Leading, Searching
<1>13. CountInv'
  <2>1. Counted' \subseteq Counted
    BY <1>2, <1>6, <1>7 DEF Counted, Fresh
  <2> QED BY <2>1, <1>7, CountedShrinks
<1> QED BY <1>8, <1>9, <1>10, <1>11, <1>12, <1>13 DEF IInv

(* A thread that stands by is not counted.                                 *)
LEMMA StandByStep ==
  ASSUME IInv, NEW i \in GcCaps, StandBy(i)
  PROVE  IInv'
<1> USE DEF Same, SameOwner, SameSpins, SameWork, SameLead, GcAt
<1>1. gct \in [GcCaps -> Thread] /\ cols \in Cols /\ gct[i] \in Thread
  BY DEF IInv, GCTypeOK
<1>2. gct[i].pc = "enter"
  BY DEF StandBy
<1>3. gct' = [gct EXCEPT ![i] = [gct[i] EXCEPT !.wakeup = "standing_by", !.pc = "stand_by"]]
  BY <1>1, <1>2 DEF StandBy
<1>4. [gct[i] EXCEPT !.wakeup = "standing_by", !.pc = "stand_by"] \in Thread
  BY <1>1, <1>2 DEF Thread, GcPcs, LeaderPcs, Searching
<1>5. gct' \in [GcCaps -> Thread] /\ gct'[i] = [gct[i] EXCEPT !.wakeup = "standing_by", !.pc = "stand_by"]
  BY <1>1, <1>2, <1>3, <1>4
<1>6. /\ \A a \in GcCaps \ {i} : Same(a)
      /\ gct'[i].wakeup = "standing_by"
      /\ gct'[i].pc = "stand_by"
      /\ gct'[i].gcSpin = gct[i].gcSpin
      /\ gct'[i].mutSpin = gct[i].mutSpin
      /\ SameOwner(i)
      /\ SameWork(i)
      /\ SameLead(i)
  BY <1>1, <1>3, <1>5 DEF Thread
<1>7. cols' = cols
  BY <1>1 DEF StandBy, Cols
<1>8. GCTypeOK'
  BY <1>1, <1>5, <1>7 DEF GCTypeOK
<1>9. OneWants' /\ OneConducts' /\ IdleInv'
  BY <1>2, <1>6, <1>7 DEF IInv, OneWants, Wants, OneConducts, Conducts, LeaderPcs, Searching,
     IdleInv, Free
<1>10. SpinInv' /\ LetInv'
  BY <1>2, <1>6 DEF IInv, SpinInv, SpinAt, LetInv, LetAt, Fresh, Searching
<1>11. WorkInv' /\ OverInv'
  BY <1>2, <1>6 DEF IInv, WorkInv, OverInv, Over, HasWork, Fresh
<1>12. StoppedInv'
  BY <1>2, <1>6 DEF IInv, StoppedInv, StoppedFor, Leading, Searching
<1>13. CountInv'
  <2>1. Counted' \subseteq Counted
    BY <1>2, <1>6, <1>7 DEF Counted, Fresh
  <2> QED BY <2>1, <1>7, CountedShrinks
<1> QED BY <1>8, <1>9, <1>10, <1>11, <1>12, <1>13 DEF IInv

(* A thread that passes gc_spin was counted, so the collection is not over. *)
LEMMA WorkerRootsStep ==
  ASSUME IInv, NEW i \in GcCaps, WorkerRoots(i)
  PROVE  IInv'
<1> USE DEF Same, SameOwner, SameSpins, SameWork, SameLead, GcAt
<1>1. gct \in [GcCaps -> Thread] /\ cols \in Cols /\ gct[i] \in Thread
  BY DEF IInv, GCTypeOK
<1>2. gct[i].pc = "stand_by" /\ ~gct[i].gcSpin
  BY DEF WorkerRoots
<1>3. Fresh(i) /\ \A k \in GcCaps : ~Over(k)
  BY <1>2 DEF IInv, SpinInv, SpinAt, OverInv, Fresh
<1>4. gct' = [gct EXCEPT ![i] = [gct[i] EXCEPT !.gcSpin = TRUE, !.pc = "scavenge", !.local = 1]]
  BY <1>1, <1>2 DEF WorkerRoots
<1>5. [gct[i] EXCEPT !.gcSpin = TRUE, !.pc = "scavenge", !.local = 1] \in Thread
  BY <1>1, <1>2, <1>3 DEF Thread, GcPcs, LeaderPcs, Searching
<1>6. gct' \in [GcCaps -> Thread] /\ gct'[i] = [gct[i] EXCEPT !.gcSpin = TRUE, !.pc = "scavenge", !.local = 1]
  BY <1>1, <1>2, <1>4, <1>5
<1>7. /\ \A a \in GcCaps \ {i} : Same(a)
      /\ gct'[i].gcSpin = TRUE
      /\ gct'[i].pc = "scavenge"
      /\ gct'[i].local = 1
      /\ gct'[i].wakeup = gct[i].wakeup
      /\ gct'[i].mutSpin = gct[i].mutSpin
      /\ gct'[i].todo = gct[i].todo
      /\ SameOwner(i)
      /\ SameLead(i)
  BY <1>1, <1>4, <1>6 DEF Thread
<1>8. cols' = cols
  BY <1>1 DEF WorkerRoots, Cols
<1>9. GCTypeOK'
  BY <1>1, <1>6, <1>8 DEF GCTypeOK
<1>10. OneWants' /\ OneConducts' /\ IdleInv'
  BY <1>2, <1>3, <1>7, <1>8 DEF IInv, OneWants, Wants, OneConducts, Conducts, LeaderPcs,
     Searching, IdleInv, Free
<1>11. SpinInv' /\ LetInv'
  BY <1>2, <1>3, <1>7 DEF IInv, SpinInv, SpinAt, LetInv, LetAt, Fresh, Searching
<1>12. WorkInv' /\ OverInv'
  BY <1>2, <1>3, <1>7 DEF IInv, WorkInv, OverInv, Over, HasWork, Fresh
<1>13. StoppedInv'
  BY <1>2, <1>3, <1>7 DEF IInv, StoppedInv, StoppedFor, Leading, Searching
<1>14. CountInv'
  <2>1. Counted' \subseteq Counted
    BY <1>2, <1>3, <1>7, <1>8 DEF Counted, Fresh
  <2> QED BY <2>1, <1>8, CountedShrinks
<1> QED BY <1>9, <1>10, <1>11, <1>12, <1>13, <1>14 DEF IInv

(* It keeps mut_spin when it gives up gc_spin.                             *)
LEMMA WorkerLeavesStep ==
  ASSUME IInv, NEW i \in GcCaps, WorkerLeaves(i)
  PROVE  IInv'
<1> USE DEF Same, SameOwner, SameSpins, SameWork, SameLead, GcAt
<1>1. gct \in [GcCaps -> Thread] /\ cols \in Cols /\ gct[i] \in Thread
  BY DEF IInv, GCTypeOK
<1>2. gct[i].pc = "done" /\ ~gct[i].leads
  BY DEF WorkerLeaves
<1>3. gct' = [gct EXCEPT ![i] = [gct[i] EXCEPT !.gcSpin = FALSE, !.pc = "leave"]]
  BY <1>1, <1>2 DEF WorkerLeaves
<1>4. [gct[i] EXCEPT !.gcSpin = FALSE, !.pc = "leave"] \in Thread
  BY <1>1, <1>2 DEF Thread, GcPcs, LeaderPcs, Searching
<1>5. gct' \in [GcCaps -> Thread] /\ gct'[i] = [gct[i] EXCEPT !.gcSpin = FALSE, !.pc = "leave"]
  BY <1>1, <1>2, <1>3, <1>4
<1>6. /\ \A a \in GcCaps \ {i} : Same(a)
      /\ gct'[i].gcSpin = FALSE
      /\ gct'[i].pc = "leave"
      /\ gct'[i].wakeup = gct[i].wakeup
      /\ gct'[i].mutSpin = gct[i].mutSpin
      /\ SameOwner(i)
      /\ SameWork(i)
      /\ SameLead(i)
  BY <1>1, <1>3, <1>5 DEF Thread
<1>7. cols' = cols
  BY <1>1 DEF WorkerLeaves, Cols
<1>8. GCTypeOK'
  BY <1>1, <1>5, <1>7 DEF GCTypeOK
<1>9. OneWants' /\ OneConducts' /\ IdleInv'
  BY <1>2, <1>6, <1>7 DEF IInv, OneWants, Wants, OneConducts, Conducts, LeaderPcs, Searching,
     IdleInv, Free
<1>10. SpinInv' /\ LetInv'
  BY <1>2, <1>6 DEF IInv, SpinInv, SpinAt, LetInv, LetAt, Fresh, Searching
<1>11. WorkInv' /\ OverInv'
  BY <1>2, <1>6 DEF IInv, WorkInv, OverInv, Over, HasWork, Fresh
<1>12. StoppedInv'
  BY <1>2, <1>6 DEF IInv, StoppedInv, StoppedFor, Leading, Searching
<1>13. CountInv'
  <2>1. Counted' \subseteq Counted
    BY <1>2, <1>6, <1>7 DEF Counted, Fresh
  <2> QED BY <2>1, <1>7, CountedShrinks
<1> QED BY <1>8, <1>9, <1>10, <1>11, <1>12, <1>13 DEF IInv

(* It still does.                                                          *)
LEMMA WaitToContinueStep ==
  ASSUME IInv, NEW i \in GcCaps, WaitToContinue(i)
  PROVE  IInv'
<1> USE DEF Same, SameOwner, SameSpins, SameWork, SameLead, GcAt
<1>1. gct \in [GcCaps -> Thread] /\ cols \in Cols /\ gct[i] \in Thread
  BY DEF IInv, GCTypeOK
<1>2. gct[i].pc = "leave" /\ gct[i].mutSpin
  BY DEF WaitToContinue, IInv, SpinInv, SpinAt
<1>3. gct' = [gct EXCEPT ![i] = [gct[i] EXCEPT !.wakeup = "waiting", !.pc = "continue"]]
  BY <1>1, <1>2 DEF WaitToContinue
<1>4. [gct[i] EXCEPT !.wakeup = "waiting", !.pc = "continue"] \in Thread
  BY <1>1, <1>2 DEF Thread, GcPcs, LeaderPcs, Searching
<1>5. gct' \in [GcCaps -> Thread] /\ gct'[i] = [gct[i] EXCEPT !.wakeup = "waiting", !.pc = "continue"]
  BY <1>1, <1>2, <1>3, <1>4
<1>6. /\ \A a \in GcCaps \ {i} : Same(a)
      /\ gct'[i].wakeup = "waiting"
      /\ gct'[i].pc = "continue"
      /\ gct'[i].gcSpin = gct[i].gcSpin
      /\ gct'[i].mutSpin = gct[i].mutSpin
      /\ SameOwner(i)
      /\ SameWork(i)
      /\ SameLead(i)
  BY <1>1, <1>3, <1>5 DEF Thread
<1>7. cols' = cols
  BY <1>1 DEF WaitToContinue, Cols
<1>8. GCTypeOK'
  BY <1>1, <1>5, <1>7 DEF GCTypeOK
<1>9. OneWants'
  BY <1>2, <1>6, <1>7 DEF IInv, OneWants, Wants
<1>10. OneConducts'
  BY <1>2, <1>6 DEF IInv, OneConducts, Conducts, LeaderPcs, Searching
<1>11. IdleInv'
  BY <1>2, <1>6 DEF IInv, IdleInv, Free
<1>12. SpinInv'
  <2>1. SpinAt(i)'
    BY <1>2, <1>6 DEF IInv, SpinInv, SpinAt, Fresh, Searching
  <2>2. \A a \in GcCaps \ {i} : SpinAt(a)'
    BY <1>2, <1>6 DEF IInv, SpinInv, SpinAt, Fresh, Searching
  <2> QED BY <2>1, <2>2 DEF SpinInv
<1>13. LetInv'
  BY <1>2, <1>6 DEF IInv, LetInv, LetAt, Fresh, Conducts
<1>14. WorkInv'
  BY <1>2, <1>6 DEF IInv, WorkInv, HasWork
<1>15. OverInv'
  BY <1>2, <1>6 DEF IInv, OverInv, Over, HasWork, Fresh
<1>16. StoppedInv'
  <2>1. \A a \in GcCaps : StoppedFor(a, i)'
    BY <1>2, <1>6 DEF StoppedFor
  <2>2. \A a \in GcCaps, k \in GcCaps \ {i} : StoppedFor(a, k) => StoppedFor(a, k)'
    BY <1>6 DEF StoppedFor
  <2>3. \A a \in GcCaps : Leading(a)' => Leading(a)
    BY <1>2, <1>6 DEF Leading
  <2> QED BY <2>1, <2>2, <2>3 DEF IInv, StoppedInv
<1>17. CountInv'
  <2>1. Counted' \subseteq Counted
    BY <1>2, <1>6, <1>7 DEF Counted, Fresh
  <2> QED BY <2>1, <1>7, CountedShrinks
<1> QED BY <1>8, <1>9, <1>10, <1>11, <1>12, <1>13, <1>14, <1>15, <1>16, <1>17 DEF IInv

(* It passes mut_spin after it has been let out, when nobody leads.        *)
LEMMA ContinueStep ==
  ASSUME IInv, NEW i \in GcCaps, Continue(i)
  PROVE  IInv'
<1> USE DEF Same, SameOwner, SameSpins, SameWork, SameLead, GcAt
<1>1. gct \in [GcCaps -> Thread] /\ cols \in Cols /\ gct[i] \in Thread
  BY DEF IInv, GCTypeOK
<1>2. gct[i].pc = "continue" /\ ~gct[i].mutSpin
  BY DEF Continue
<1>3. gct' = [gct EXCEPT ![i] = [gct[i] EXCEPT !.mutSpin = TRUE, !.pc = "mutator"]]
  BY <1>1, <1>2 DEF Continue
<1>4. [gct[i] EXCEPT !.mutSpin = TRUE, !.pc = "mutator"] \in Thread
  BY <1>1, <1>2 DEF Thread, GcPcs, LeaderPcs, Searching
<1>5. gct' \in [GcCaps -> Thread] /\ gct'[i] = [gct[i] EXCEPT !.mutSpin = TRUE, !.pc = "mutator"]
  BY <1>1, <1>2, <1>3, <1>4
<1>6. /\ \A a \in GcCaps \ {i} : Same(a)
      /\ gct'[i].mutSpin = TRUE
      /\ gct'[i].pc = "mutator"
      /\ gct'[i].wakeup = gct[i].wakeup
      /\ gct'[i].gcSpin = gct[i].gcSpin
      /\ SameOwner(i)
      /\ SameWork(i)
      /\ SameLead(i)
  BY <1>1, <1>3, <1>5 DEF Thread
<1>7. cols' = cols
  BY <1>1 DEF Continue, Cols
<1>8. GCTypeOK'
  BY <1>1, <1>5, <1>7 DEF GCTypeOK
<1>9. OneWants' /\ OneConducts' /\ IdleInv'
  BY <1>2, <1>6, <1>7 DEF IInv, OneWants, Wants, OneConducts, Conducts, LeaderPcs, Searching,
     IdleInv, Free
<1>10. SpinInv' /\ LetInv'
  BY <1>2, <1>6 DEF IInv, SpinInv, SpinAt, LetInv, LetAt, Fresh, Searching
<1>11. WorkInv' /\ OverInv'
  BY <1>2, <1>6 DEF IInv, WorkInv, OverInv, Over, HasWork, Fresh
<1>12. StoppedInv'
  BY <1>2, <1>6 DEF IInv, StoppedInv, StoppedFor, Leading, Searching
<1>13. CountInv'
  <2>1. Counted' \subseteq Counted
    BY <1>2, <1>6, <1>7 DEF Counted, Fresh
  <2> QED BY <2>1, <1>7, CountedShrinks
<1> QED BY <1>8, <1>9, <1>10, <1>11, <1>12, <1>13 DEF IInv

----------------------------------------------------------------------------
(* Sharing the work, and stopping                                         *)

(* Who has work is counted, so the collection is not over.                 *)
LEMMA ScavengeStep ==
  ASSUME IInv, NEW i \in GcCaps, Scavenge(i)
  PROVE  IInv'
<1> USE DEF Same, SameOwner, SameSpins, SameWork, SameLead, GcAt
<1>1. gct \in [GcCaps -> Thread] /\ cols \in Cols /\ gct[i] \in Thread
  BY DEF IInv, GCTypeOK
<1>2. gct[i].pc = "scavenge" /\ gct[i].local > 0
  BY DEF Scavenge
<1>3. \A a \in GcCaps : ~Over(a)
  BY <1>2 DEF IInv, OverInv, HasWork
<1>4. PICK found \in 0..cols.unseen : /\ cols' = [cols EXCEPT !.unseen = @ - found]
             /\ \E pushed \in 0..found : gct' = [gct EXCEPT ![i].local = @ - 1 + found - pushed, ![i].todo = @ + pushed]
  BY DEF Scavenge
<1>5. PICK pushed \in 0..found : gct' = [gct EXCEPT ![i].local = @ - 1 + found - pushed, ![i].todo = @ + pushed]
  BY <1>4
<1> DEFINE n == gct[i].local - 1 + found - pushed
<1> DEFINE m == gct[i].todo + pushed
<1>6. cols' \in Cols /\ cols'.running = cols.running /\ cols'.pending = cols.pending
  BY <1>1, <1>4 DEF Cols
<1>7. n \in Nat /\ m \in Nat
  BY <1>1, <1>2 DEF Thread, Cols
<1>8. gct' = [gct EXCEPT ![i] = [gct[i] EXCEPT !.local = n, !.todo = m]]
  BY <1>1, <1>5
<1> HIDE DEF n, m
<1>9. [gct[i] EXCEPT !.local = n, !.todo = m] \in Thread
  BY <1>1, <1>2, <1>3, <1>4, <1>5, <1>6, <1>7 DEF Thread, GcPcs, LeaderPcs, Searching
<1>10. gct' \in [GcCaps -> Thread] /\ gct'[i] = [gct[i] EXCEPT !.local = n, !.todo = m]
  BY <1>1, <1>2, <1>8, <1>9
<1>11. /\ \A a \in GcCaps \ {i} : Same(a)
      /\ gct'[i].local = n
      /\ gct'[i].todo = m
      /\ gct'[i].pc = gct[i].pc
      /\ SameOwner(i)
      /\ SameSpins(i)
      /\ SameLead(i)
  BY <1>1, <1>8, <1>10 DEF Thread
<1>12. cols' \in Cols /\ cols'.running = cols.running /\ cols'.pending = cols.pending
  BY <1>1, <1>6 DEF Scavenge, Cols
<1>13. GCTypeOK'
  BY <1>1, <1>10, <1>12 DEF GCTypeOK
<1>14. OneWants' /\ OneConducts' /\ IdleInv'
  BY <1>2, <1>3, <1>6, <1>7, <1>11, <1>12 DEF IInv, OneWants, Wants, OneConducts, Conducts,
     LeaderPcs, Searching, IdleInv, Free
<1>15. SpinInv' /\ LetInv'
  BY <1>2, <1>3, <1>6, <1>7, <1>11 DEF IInv, SpinInv, SpinAt, LetInv, LetAt, Fresh, Searching
<1>16. WorkInv' /\ OverInv'
  BY <1>2, <1>3, <1>6, <1>7, <1>11 DEF IInv, WorkInv, OverInv, Over, HasWork, Fresh
<1>17. StoppedInv'
  BY <1>2, <1>3, <1>6, <1>7, <1>11 DEF IInv, StoppedInv, StoppedFor, Leading, Searching
<1>18. CountInv'
  <2>1. Counted' \subseteq Counted
    BY <1>2, <1>3, <1>6, <1>7, <1>11, <1>12 DEF Counted, Fresh
  <2> QED BY <2>1, <1>12, CountedShrinks
<1> QED BY <1>13, <1>14, <1>15, <1>16, <1>17, <1>18 DEF IInv

(* A block of its own.                                                     *)
LEMMA GrabLocalStep ==
  ASSUME IInv, NEW i \in GcCaps, GrabLocal(i)
  PROVE  IInv'
<1> USE DEF Same, SameOwner, SameSpins, SameWork, SameLead, GcAt
<1>1. gct \in [GcCaps -> Thread] /\ cols \in Cols /\ gct[i] \in Thread
  BY DEF IInv, GCTypeOK
<1>2. gct[i].pc = "scavenge" /\ gct[i].todo > 0
  BY DEF GrabLocal
<1>3. gct[i].todo - 1 \in Nat
  BY <1>1, <1>2 DEF Thread
<1>4. gct' = [gct EXCEPT ![i] = [gct[i] EXCEPT !.local = 1, !.todo = gct[i].todo - 1]]
  BY <1>1, <1>2 DEF GrabLocal
<1>5. [gct[i] EXCEPT !.local = 1, !.todo = gct[i].todo - 1] \in Thread
  BY <1>1, <1>2, <1>3 DEF Thread, GcPcs, LeaderPcs, Searching
<1>6. gct' \in [GcCaps -> Thread] /\ gct'[i] = [gct[i] EXCEPT !.local = 1, !.todo = gct[i].todo - 1]
  BY <1>1, <1>2, <1>4, <1>5
<1>7. /\ \A a \in GcCaps \ {i} : Same(a)
      /\ gct'[i].local = 1
      /\ gct'[i].todo = gct[i].todo - 1
      /\ gct'[i].pc = gct[i].pc
      /\ SameOwner(i)
      /\ SameSpins(i)
      /\ SameLead(i)
  BY <1>1, <1>4, <1>6 DEF Thread
<1>8. cols' = cols
  BY <1>1 DEF GrabLocal, Cols
<1>9. GCTypeOK'
  BY <1>1, <1>6, <1>8 DEF GCTypeOK
<1>10. OneWants' /\ OneConducts' /\ IdleInv'
  BY <1>2, <1>3, <1>7, <1>8 DEF IInv, OneWants, Wants, OneConducts, Conducts, LeaderPcs,
     Searching, IdleInv, Free
<1>11. SpinInv' /\ LetInv'
  BY <1>2, <1>3, <1>7 DEF IInv, SpinInv, SpinAt, LetInv, LetAt, Fresh, Searching
<1>12. WorkInv' /\ OverInv'
  BY <1>2, <1>3, <1>7 DEF IInv, WorkInv, OverInv, Over, HasWork, Fresh
<1>13. StoppedInv'
  BY <1>2, <1>3, <1>7 DEF IInv, StoppedInv, StoppedFor, Leading, Searching
<1>14. CountInv'
  <2>1. Counted' \subseteq Counted
    BY <1>2, <1>3, <1>7, <1>8 DEF Counted, Fresh
  <2> QED BY <2>1, <1>8, CountedShrinks
<1> QED BY <1>9, <1>10, <1>11, <1>12, <1>13, <1>14 DEF IInv

(* It still counts itself while it steals.                                 *)
LEMMA OutOfWorkStep ==
  ASSUME IInv, NEW i \in GcCaps, OutOfWork(i)
  PROVE  IInv'
<1> USE DEF Same, SameOwner, SameSpins, SameWork, SameLead, GcAt
<1>1. gct \in [GcCaps -> Thread] /\ cols \in Cols /\ gct[i] \in Thread
  BY DEF IInv, GCTypeOK
<1>2. gct[i].pc = "scavenge" /\ gct[i].local = 0 /\ gct[i].todo = 0
  BY DEF OutOfWork
<1>3. FirstCap(i) \in Int
  BY NextCapType
<1>4. gct' = [gct EXCEPT ![i] = [gct[i] EXCEPT !.pc = "steal", !.next = FirstCap(i)]]
  BY <1>1, <1>2 DEF OutOfWork
<1>5. [gct[i] EXCEPT !.pc = "steal", !.next = FirstCap(i)] \in Thread
  BY <1>1, <1>2, <1>3 DEF Thread, GcPcs, LeaderPcs, Searching
<1>6. gct' \in [GcCaps -> Thread] /\ gct'[i] = [gct[i] EXCEPT !.pc = "steal", !.next = FirstCap(i)]
  BY <1>1, <1>2, <1>4, <1>5
<1>7. /\ \A a \in GcCaps \ {i} : Same(a)
      /\ gct'[i].pc = "steal"
      /\ gct'[i].next = FirstCap(i)
      /\ gct'[i].leads = gct[i].leads
      /\ SameOwner(i)
      /\ SameSpins(i)
      /\ SameWork(i)
  BY <1>1, <1>4, <1>6 DEF Thread
<1>8. cols' = cols
  BY <1>1 DEF OutOfWork, Cols
<1>9. GCTypeOK'
  BY <1>1, <1>6, <1>8 DEF GCTypeOK
<1>10. OneWants' /\ OneConducts' /\ IdleInv'
  BY <1>2, <1>7, <1>8 DEF IInv, OneWants, Wants, OneConducts, Conducts, LeaderPcs, Searching,
     IdleInv, Free
<1>11. SpinInv' /\ LetInv'
  BY <1>2, <1>7 DEF IInv, SpinInv, SpinAt, LetInv, LetAt, Fresh, Searching
<1>12. WorkInv' /\ OverInv'
  BY <1>2, <1>7 DEF IInv, WorkInv, OverInv, Over, HasWork, Fresh
<1>13. StoppedInv'
  BY <1>2, <1>7 DEF IInv, StoppedInv, StoppedFor, Leading, Searching
<1>14. CountInv'
  <2>1. Counted' \subseteq Counted
    BY <1>2, <1>7, <1>8 DEF Counted, Fresh
  <2> QED BY <2>1, <1>8, CountedShrinks
<1> QED BY <1>9, <1>10, <1>11, <1>12, <1>13, <1>14 DEF IInv

(* A thief is counted, and so is its victim.                               *)
LEMMA StealTodoStep ==
  ASSUME IInv, NEW i \in GcCaps, NEW k \in GcCaps, StealTodo(i, k)
  PROVE  IInv'
<1>1. CASE gct[k].todo > 0
  <2> USE DEF Same, SameOwner, SameSpins, SameWork, SameLead, GcAt
  <2>1. gct \in [GcCaps -> Thread] /\ cols \in Cols /\ gct[k] \in Thread /\ gct[i] \in Thread
    BY DEF IInv, GCTypeOK
  <2>2. gct[i].pc = "steal" /\ k # i /\ gct[k].todo > 0
    BY <1>1 DEF StealTodo, LooksAt, IInv, WorkInv, HasWork
  <2>3. gct[k].todo - 1 \in Nat
    BY <2>1, <2>2 DEF Thread
  <2>4. \A a \in GcCaps : ~Over(a)
    BY <2>2 DEF IInv, OverInv, HasWork
  <2>5. gct' = [gct EXCEPT ![k] = [gct[k] EXCEPT !.todo = gct[k].todo - 1],
                           ![i] = [gct[i] EXCEPT !.local = 1, !.pc = "scavenge"]]
    BY <2>1, <2>2, <1>1 DEF StealTodo
  <2>6. /\ [gct[k] EXCEPT !.todo = gct[k].todo - 1] \in Thread
        /\ [gct[i] EXCEPT !.local = 1, !.pc = "scavenge"] \in Thread
    BY <2>1, <2>2, <2>3, <2>4 DEF Thread, GcPcs, LeaderPcs, Searching
  <2>7. /\ gct' \in [GcCaps -> Thread]
        /\ gct'[k] = [gct[k] EXCEPT !.todo = gct[k].todo - 1]
        /\ gct'[i] = [gct[i] EXCEPT !.local = 1, !.pc = "scavenge"]
    BY <2>1, <2>2, <2>5, <2>6
  <2>8. /\ \A a \in GcCaps \ {k, i} : Same(a)
        /\ gct'[k].todo = gct[k].todo - 1
        /\ gct'[k].local = gct[k].local
        /\ gct'[k].pc = gct[k].pc
        /\ SameOwner(k)
        /\ SameSpins(k)
        /\ SameLead(k)
        /\ gct'[i].local = 1
        /\ gct'[i].pc = "scavenge"
        /\ gct'[i].todo = gct[i].todo
        /\ SameOwner(i)
        /\ SameSpins(i)
        /\ SameLead(i)
    BY <2>1, <2>5, <2>7 DEF Thread
  <2>9. cols' = cols
    BY <2>1, <2>2, <1>1 DEF StealTodo, Cols
  <2>10. GCTypeOK'
    BY <2>1, <2>7, <2>9 DEF GCTypeOK
  <2>11. OneWants' /\ OneConducts' /\ IdleInv'
    BY <2>2, <2>3, <2>4, <2>8, <2>9, <1>1 DEF IInv, OneWants, Wants, OneConducts, Conducts,
       LeaderPcs, Searching, IdleInv, Free
  <2>12. SpinInv' /\ LetInv'
    BY <2>2, <2>3, <2>4, <2>8, <1>1 DEF IInv, SpinInv, SpinAt, LetInv, LetAt, Fresh, Searching
  <2>13. WorkInv' /\ OverInv'
    BY <2>2, <2>3, <2>4, <2>8, <1>1 DEF IInv, WorkInv, OverInv, Over, HasWork, Fresh
  <2>14. StoppedInv'
    BY <2>2, <2>3, <2>4, <2>8, <1>1 DEF IInv, StoppedInv, StoppedFor, Leading, Searching
  <2>15. CountInv'
    <3>1. Counted' \subseteq Counted
      BY <2>2, <2>3, <2>4, <2>8, <2>9, <1>1 DEF Counted, Fresh
    <3> QED BY <3>1, <2>9, CountedShrinks
  <2> QED BY <2>10, <2>11, <2>12, <2>13, <2>14, <2>15 DEF IInv
<1>2. CASE ~(gct[k].todo > 0)
  <2> USE DEF Same, SameOwner, SameSpins, SameWork, SameLead, GcAt
  <2>1. gct \in [GcCaps -> Thread] /\ cols \in Cols /\ gct[i] \in Thread
    BY DEF IInv, GCTypeOK
  <2>2. gct[i].pc = "steal"
    BY <1>2 DEF StealTodo, LooksAt
  <2>3. NextCap(i, k) \in Int
    BY <2>1, Caps, NextCapType DEF Thread
  <2>4. gct' = [gct EXCEPT ![i] = [gct[i] EXCEPT !.next = NextCap(i, k)]]
    BY <2>1, <2>2, <1>2 DEF StealTodo
  <2>5. [gct[i] EXCEPT !.next = NextCap(i, k)] \in Thread
    BY <2>1, <2>2, <2>3 DEF Thread, GcPcs, LeaderPcs, Searching
  <2>6. gct' \in [GcCaps -> Thread] /\ gct'[i] = [gct[i] EXCEPT !.next = NextCap(i, k)]
    BY <2>1, <2>2, <2>4, <2>5
  <2>7. /\ \A a \in GcCaps \ {i} : Same(a)
        /\ gct'[i].next = NextCap(i, k)
        /\ gct'[i].leads = gct[i].leads
        /\ gct'[i].pc = gct[i].pc
        /\ SameOwner(i)
        /\ SameSpins(i)
        /\ SameWork(i)
    BY <2>1, <2>4, <2>6 DEF Thread
  <2>8. cols' = cols
    BY <2>1, <2>2, <1>2 DEF StealTodo, Cols
  <2>9. GCTypeOK'
    BY <2>1, <2>6, <2>8 DEF GCTypeOK
  <2>10. OneWants' /\ OneConducts' /\ IdleInv'
    BY <2>2, <2>7, <2>8, <1>2 DEF IInv, OneWants, Wants, OneConducts, Conducts, LeaderPcs,
       Searching, IdleInv, Free
  <2>11. SpinInv' /\ LetInv'
    BY <2>2, <2>7, <1>2 DEF IInv, SpinInv, SpinAt, LetInv, LetAt, Fresh, Searching
  <2>12. WorkInv' /\ OverInv'
    BY <2>2, <2>7, <1>2 DEF IInv, WorkInv, OverInv, Over, HasWork, Fresh
  <2>13. StoppedInv'
    BY <2>2, <2>7, <1>2 DEF IInv, StoppedInv, StoppedFor, Leading, Searching
  <2>14. CountInv'
    <3>1. Counted' \subseteq Counted
      BY <2>2, <2>7, <2>8, <1>2 DEF Counted, Fresh
    <3> QED BY <3>1, <2>8, CountedShrinks
  <2> QED BY <2>9, <2>10, <2>11, <2>12, <2>13, <2>14 DEF IInv
<1> QED BY <1>1, <1>2

(* It has nothing, and counts itself out.                                  *)
LEMMA DecRunningStep ==
  ASSUME IInv, NEW i \in GcCaps, DecRunning(i)
  PROVE  IInv'
<1> USE DEF Same, SameOwner, SameSpins, SameWork, SameLead, GcAt
<1>1. gct \in [GcCaps -> Thread] /\ cols \in Cols /\ gct[i] \in Thread
  BY DEF IInv, GCTypeOK
<1>2. gct[i].pc = "steal"
  BY DEF DecRunning, GcGoto
<1>3. gct' = [gct EXCEPT ![i] = [gct[i] EXCEPT !.pc = "idle"]]
  BY <1>1, <1>2 DEF DecRunning, GcGoto
<1>4. [gct[i] EXCEPT !.pc = "idle"] \in Thread
  BY <1>1, <1>2 DEF Thread, GcPcs, LeaderPcs, Searching
<1>5. gct' \in [GcCaps -> Thread] /\ gct'[i] = [gct[i] EXCEPT !.pc = "idle"]
  BY <1>1, <1>2, <1>3, <1>4
<1>6. /\ \A a \in GcCaps \ {i} : Same(a)
      /\ gct'[i].pc = "idle"
      /\ SameOwner(i)
      /\ SameSpins(i)
      /\ SameWork(i)
      /\ SameLead(i)
  BY <1>1, <1>3, <1>5 DEF Thread
<1>7. cols' \in Cols /\ cols'.running = cols.running - 1 /\ cols'.pending = cols.pending
  BY <1>1 DEF DecRunning, Cols
<1>8. GCTypeOK'
  BY <1>1, <1>5, <1>7 DEF GCTypeOK
<1>9. OneWants' /\ OneConducts' /\ IdleInv'
  BY <1>2, <1>6, <1>7 DEF IInv, OneWants, Wants, OneConducts, Conducts, LeaderPcs, Searching,
     IdleInv, Free
<1>10. SpinInv' /\ LetInv'
  BY <1>2, <1>6 DEF IInv, SpinInv, SpinAt, LetInv, LetAt, Fresh, Searching
<1>11. WorkInv' /\ OverInv'
  BY <1>2, <1>6 DEF IInv, WorkInv, OverInv, Over, HasWork, Fresh
<1>12. StoppedInv'
  BY <1>2, <1>6 DEF IInv, StoppedInv, StoppedFor, Leading, Searching
<1>13. CountInv'
  <2>1. Counted' = Counted \ {i} /\ i \in Counted
    BY <1>2, <1>6, <1>7 DEF Counted, Fresh
  <2> QED BY <2>1, <1>7, CountedLess
<1> QED BY <1>8, <1>9, <1>10, <1>11, <1>12, <1>13 DEF IInv

(* At zero nobody has work: the leader is done.                            *)
LEMMA StillRunningStep ==
  ASSUME IInv, NEW i \in GcCaps, StillRunning(i)
  PROVE  IInv'
<1>1. CASE cols.running = 0
  <2> USE DEF Same, SameOwner, SameSpins, SameWork, SameLead, GcAt
  <2>1. gct \in [GcCaps -> Thread] /\ cols \in Cols /\ gct[i] \in Thread
    BY DEF IInv, GCTypeOK
  <2>2. gct[i].pc = "idle"
    BY <1>1 DEF StillRunning
  <2>3. Counted = {}
    BY <1>1, CountedZero
  <2>4. \A a \in GcCaps : ~Fresh(a) /\ (HasWork(a) => gct[a].leads /\ gct[a].pc = "again")
    BY <2>2, <2>3 DEF IInv, Counted, WorkInv, GcAt
  <2>5. gct[i].leads => \A a \in GcCaps : ~HasWork(a)
    BY <2>2, <2>3, <2>4 DEF IInv, OneConducts, Conducts
  <2>6. gct' = [gct EXCEPT ![i] = [gct[i] EXCEPT !.pc = "done"]]
    BY <2>1, <2>2, <1>1 DEF StillRunning
  <2>7. [gct[i] EXCEPT !.pc = "done"] \in Thread
    BY <2>1, <2>2, <2>3, <2>4, <2>5 DEF Thread, GcPcs, LeaderPcs, Searching
  <2>8. gct' \in [GcCaps -> Thread] /\ gct'[i] = [gct[i] EXCEPT !.pc = "done"]
    BY <2>1, <2>2, <2>6, <2>7
  <2>9. /\ \A a \in GcCaps \ {i} : Same(a)
        /\ gct'[i].pc = "done"
        /\ SameOwner(i)
        /\ SameSpins(i)
        /\ SameWork(i)
        /\ SameLead(i)
    BY <2>1, <2>6, <2>8 DEF Thread
  <2>10. cols' = cols
    BY <2>1, <2>2, <1>1 DEF StillRunning, Cols
  <2>11. GCTypeOK'
    BY <2>1, <2>8, <2>10 DEF GCTypeOK
  <2>12. OneWants' /\ OneConducts' /\ IdleInv'
    BY <2>2, <2>3, <2>4, <2>5, <2>9, <2>10, <1>1 DEF IInv, OneWants, Wants, OneConducts, Conducts,
       LeaderPcs, Searching, IdleInv, Free
  <2>13. SpinInv' /\ LetInv'
    BY <2>2, <2>3, <2>4, <2>5, <2>9, <1>1 DEF IInv, SpinInv, SpinAt, LetInv, LetAt, Fresh, Searching
  <2>14. WorkInv' /\ OverInv'
    BY <2>2, <2>3, <2>4, <2>5, <2>9, <1>1 DEF IInv, WorkInv, OverInv, Over, HasWork, Fresh
  <2>15. StoppedInv'
    BY <2>2, <2>3, <2>4, <2>5, <2>9, <1>1 DEF IInv, StoppedInv, StoppedFor, Leading, Searching
  <2>16. CountInv'
    <3>1. Counted' \subseteq Counted
      BY <2>2, <2>3, <2>4, <2>5, <2>9, <2>10, <1>1 DEF Counted, Fresh
    <3> QED BY <3>1, <2>10, CountedShrinks
  <2> QED BY <2>11, <2>12, <2>13, <2>14, <2>15, <2>16 DEF IInv
<1>2. CASE cols.running # 0
  <2> USE DEF Same, SameOwner, SameSpins, SameWork, SameLead, GcAt
  <2>1. gct \in [GcCaps -> Thread] /\ cols \in Cols /\ gct[i] \in Thread
    BY DEF IInv, GCTypeOK
  <2>2. gct[i].pc = "idle"
    BY <1>2 DEF StillRunning
  <2>3. FirstCap(i) \in Int
    BY NextCapType
  <2>4. gct' = [gct EXCEPT ![i] = [gct[i] EXCEPT !.pc = "any_work", !.next = FirstCap(i)]]
    BY <2>1, <2>2, <1>2 DEF StillRunning
  <2>5. [gct[i] EXCEPT !.pc = "any_work", !.next = FirstCap(i)] \in Thread
    BY <2>1, <2>2, <2>3 DEF Thread, GcPcs, LeaderPcs, Searching
  <2>6. gct' \in [GcCaps -> Thread] /\ gct'[i] = [gct[i] EXCEPT !.pc = "any_work", !.next = FirstCap(i)]
    BY <2>1, <2>2, <2>4, <2>5
  <2>7. /\ \A a \in GcCaps \ {i} : Same(a)
        /\ gct'[i].pc = "any_work"
        /\ gct'[i].next = FirstCap(i)
        /\ gct'[i].leads = gct[i].leads
        /\ SameOwner(i)
        /\ SameSpins(i)
        /\ SameWork(i)
    BY <2>1, <2>4, <2>6 DEF Thread
  <2>8. cols' = cols
    BY <2>1, <2>2, <1>2 DEF StillRunning, Cols
  <2>9. GCTypeOK'
    BY <2>1, <2>6, <2>8 DEF GCTypeOK
  <2>10. OneWants' /\ OneConducts' /\ IdleInv'
    BY <2>2, <2>7, <2>8, <1>2 DEF IInv, OneWants, Wants, OneConducts, Conducts, LeaderPcs,
       Searching, IdleInv, Free
  <2>11. SpinInv' /\ LetInv'
    BY <2>2, <2>7, <1>2 DEF IInv, SpinInv, SpinAt, LetInv, LetAt, Fresh, Searching
  <2>12. WorkInv' /\ OverInv'
    BY <2>2, <2>7, <1>2 DEF IInv, WorkInv, OverInv, Over, HasWork, Fresh
  <2>13. StoppedInv'
    BY <2>2, <2>7, <1>2 DEF IInv, StoppedInv, StoppedFor, Leading, Searching
  <2>14. CountInv'
    <3>1. Counted' \subseteq Counted
      BY <2>2, <2>7, <2>8, <1>2 DEF Counted, Fresh
    <3> QED BY <3>1, <2>8, CountedShrinks
  <2> QED BY <2>9, <2>10, <2>11, <2>12, <2>13, <2>14 DEF IInv
<1> QED BY <1>1, <1>2

(* It comes back uncounted, with nothing.                                  *)
LEMMA AnyWorkStep ==
  ASSUME IInv, NEW i \in GcCaps, NEW k \in GcCaps, AnyWork(i, k)
  PROVE  IInv'
<1>1. CASE gct[k].todo > 0
  <2> USE DEF Same, SameOwner, SameSpins, SameWork, SameLead, GcAt
  <2>1. gct \in [GcCaps -> Thread] /\ cols \in Cols /\ gct[i] \in Thread
    BY DEF IInv, GCTypeOK
  <2>2. gct[i].pc = "any_work"
    BY <1>1 DEF AnyWork, LooksAt
  <2>3. gct' = [gct EXCEPT ![i] = [gct[i] EXCEPT !.pc = "again"]]
    BY <2>1, <2>2, <1>1 DEF AnyWork
  <2>4. [gct[i] EXCEPT !.pc = "again"] \in Thread
    BY <2>1, <2>2 DEF Thread, GcPcs, LeaderPcs, Searching
  <2>5. gct' \in [GcCaps -> Thread] /\ gct'[i] = [gct[i] EXCEPT !.pc = "again"]
    BY <2>1, <2>2, <2>3, <2>4
  <2>6. /\ \A a \in GcCaps \ {i} : Same(a)
        /\ gct'[i].pc = "again"
        /\ SameOwner(i)
        /\ SameSpins(i)
        /\ SameWork(i)
        /\ SameLead(i)
    BY <2>1, <2>3, <2>5 DEF Thread
  <2>7. cols' = cols
    BY <2>1, <2>2, <1>1 DEF AnyWork, Cols
  <2>8. GCTypeOK'
    BY <2>1, <2>5, <2>7 DEF GCTypeOK
  <2>9. OneWants' /\ OneConducts' /\ IdleInv'
    BY <2>2, <2>6, <2>7, <1>1 DEF IInv, OneWants, Wants, OneConducts, Conducts, LeaderPcs,
       Searching, IdleInv, Free
  <2>10. SpinInv' /\ LetInv'
    BY <2>2, <2>6, <1>1 DEF IInv, SpinInv, SpinAt, LetInv, LetAt, Fresh, Searching
  <2>11. WorkInv' /\ OverInv'
    BY <2>2, <2>6, <1>1 DEF IInv, WorkInv, OverInv, Over, HasWork, Fresh
  <2>12. StoppedInv'
    BY <2>2, <2>6, <1>1 DEF IInv, StoppedInv, StoppedFor, Leading, Searching
  <2>13. CountInv'
    <3>1. Counted' \subseteq Counted
      BY <2>2, <2>6, <2>7, <1>1 DEF Counted, Fresh
    <3> QED BY <3>1, <2>7, CountedShrinks
  <2> QED BY <2>8, <2>9, <2>10, <2>11, <2>12, <2>13 DEF IInv
<1>2. CASE ~(gct[k].todo > 0)
  <2> USE DEF Same, SameOwner, SameSpins, SameWork, SameLead, GcAt
  <2>1. gct \in [GcCaps -> Thread] /\ cols \in Cols /\ gct[i] \in Thread
    BY DEF IInv, GCTypeOK
  <2>2. gct[i].pc = "any_work"
    BY <1>2 DEF AnyWork, LooksAt
  <2>3. NextCap(i, k) \in Int
    BY <2>1, Caps, NextCapType DEF Thread
  <2>4. gct' = [gct EXCEPT ![i] = [gct[i] EXCEPT !.next = NextCap(i, k)]]
    BY <2>1, <2>2, <1>2 DEF AnyWork
  <2>5. [gct[i] EXCEPT !.next = NextCap(i, k)] \in Thread
    BY <2>1, <2>2, <2>3 DEF Thread, GcPcs, LeaderPcs, Searching
  <2>6. gct' \in [GcCaps -> Thread] /\ gct'[i] = [gct[i] EXCEPT !.next = NextCap(i, k)]
    BY <2>1, <2>2, <2>4, <2>5
  <2>7. /\ \A a \in GcCaps \ {i} : Same(a)
        /\ gct'[i].next = NextCap(i, k)
        /\ gct'[i].leads = gct[i].leads
        /\ gct'[i].pc = gct[i].pc
        /\ SameOwner(i)
        /\ SameSpins(i)
        /\ SameWork(i)
    BY <2>1, <2>4, <2>6 DEF Thread
  <2>8. cols' = cols
    BY <2>1, <2>2, <1>2 DEF AnyWork, Cols
  <2>9. GCTypeOK'
    BY <2>1, <2>6, <2>8 DEF GCTypeOK
  <2>10. OneWants' /\ OneConducts' /\ IdleInv'
    BY <2>2, <2>7, <2>8, <1>2 DEF IInv, OneWants, Wants, OneConducts, Conducts, LeaderPcs,
       Searching, IdleInv, Free
  <2>11. SpinInv' /\ LetInv'
    BY <2>2, <2>7, <1>2 DEF IInv, SpinInv, SpinAt, LetInv, LetAt, Fresh, Searching
  <2>12. WorkInv' /\ OverInv'
    BY <2>2, <2>7, <1>2 DEF IInv, WorkInv, OverInv, Over, HasWork, Fresh
  <2>13. StoppedInv'
    BY <2>2, <2>7, <1>2 DEF IInv, StoppedInv, StoppedFor, Leading, Searching
  <2>14. CountInv'
    <3>1. Counted' \subseteq Counted
      BY <2>2, <2>7, <2>8, <1>2 DEF Counted, Fresh
    <3> QED BY <3>1, <2>8, CountedShrinks
  <2> QED BY <2>9, <2>10, <2>11, <2>12, <2>13, <2>14 DEF IInv
<1> QED BY <1>1, <1>2

(* It looks again.                                                         *)
LEMMA NoWorkStep ==
  ASSUME IInv, NEW i \in GcCaps, NoWork(i)
  PROVE  IInv'
<1> USE DEF Same, SameOwner, SameSpins, SameWork, SameLead, GcAt
<1>1. gct \in [GcCaps -> Thread] /\ cols \in Cols /\ gct[i] \in Thread
  BY DEF IInv, GCTypeOK
<1>2. gct[i].pc = "any_work"
  BY DEF NoWork, GcGoto
<1>3. gct' = [gct EXCEPT ![i] = [gct[i] EXCEPT !.pc = "idle"]]
  BY <1>1, <1>2 DEF NoWork, GcGoto
<1>4. [gct[i] EXCEPT !.pc = "idle"] \in Thread
  BY <1>1, <1>2 DEF Thread, GcPcs, LeaderPcs, Searching
<1>5. gct' \in [GcCaps -> Thread] /\ gct'[i] = [gct[i] EXCEPT !.pc = "idle"]
  BY <1>1, <1>2, <1>3, <1>4
<1>6. /\ \A a \in GcCaps \ {i} : Same(a)
      /\ gct'[i].pc = "idle"
      /\ SameOwner(i)
      /\ SameSpins(i)
      /\ SameWork(i)
      /\ SameLead(i)
  BY <1>1, <1>3, <1>5 DEF Thread
<1>7. cols' = cols
  BY <1>1 DEF NoWork, Cols
<1>8. GCTypeOK'
  BY <1>1, <1>5, <1>7 DEF GCTypeOK
<1>9. OneWants' /\ OneConducts' /\ IdleInv'
  BY <1>2, <1>6, <1>7 DEF IInv, OneWants, Wants, OneConducts, Conducts, LeaderPcs, Searching,
     IdleInv, Free
<1>10. SpinInv' /\ LetInv'
  BY <1>2, <1>6 DEF IInv, SpinInv, SpinAt, LetInv, LetAt, Fresh, Searching
<1>11. WorkInv' /\ OverInv'
  BY <1>2, <1>6 DEF IInv, WorkInv, OverInv, Over, HasWork, Fresh
<1>12. StoppedInv'
  BY <1>2, <1>6 DEF IInv, StoppedInv, StoppedFor, Leading, Searching
<1>13. CountInv'
  <2>1. Counted' \subseteq Counted
    BY <1>2, <1>6, <1>7 DEF Counted, Fresh
  <2> QED BY <2>1, <1>7, CountedShrinks
<1> QED BY <1>8, <1>9, <1>10, <1>11, <1>12, <1>13 DEF IInv

(* It counts itself in before it takes work.                               *)
LEMMA IncRunningStep ==
  ASSUME IInv, NEW i \in GcCaps, IncRunning(i)
  PROVE  IInv'
<1> USE DEF Same, SameOwner, SameSpins, SameWork, SameLead, GcAt
<1>1. gct \in [GcCaps -> Thread] /\ cols \in Cols /\ gct[i] \in Thread
  BY DEF IInv, GCTypeOK
<1>2. gct[i].pc = "again"
  BY DEF IncRunning, GcGoto
<1>3. gct' = [gct EXCEPT ![i] = [gct[i] EXCEPT !.pc = "scavenge"]]
  BY <1>1, <1>2 DEF IncRunning, GcGoto
<1>4. [gct[i] EXCEPT !.pc = "scavenge"] \in Thread
  BY <1>1, <1>2 DEF Thread, GcPcs, LeaderPcs, Searching
<1>5. gct' \in [GcCaps -> Thread] /\ gct'[i] = [gct[i] EXCEPT !.pc = "scavenge"]
  BY <1>1, <1>2, <1>3, <1>4
<1>6. /\ \A a \in GcCaps \ {i} : Same(a)
      /\ gct'[i].pc = "scavenge"
      /\ SameOwner(i)
      /\ SameSpins(i)
      /\ SameWork(i)
      /\ SameLead(i)
  BY <1>1, <1>3, <1>5 DEF Thread
<1>7. cols' \in Cols /\ cols'.running = cols.running + 1 /\ cols'.pending = cols.pending
  BY <1>1 DEF IncRunning, Cols
<1>8. GCTypeOK'
  BY <1>1, <1>5, <1>7 DEF GCTypeOK
<1>9. OneWants' /\ OneConducts' /\ IdleInv'
  BY <1>2, <1>6, <1>7 DEF IInv, OneWants, Wants, OneConducts, Conducts, LeaderPcs, Searching,
     IdleInv, Free
<1>10. SpinInv' /\ LetInv'
  BY <1>2, <1>6 DEF IInv, SpinInv, SpinAt, LetInv, LetAt, Fresh, Searching
<1>11. WorkInv' /\ OverInv'
  BY <1>2, <1>6 DEF IInv, WorkInv, OverInv, Over, HasWork, Fresh
<1>12. StoppedInv'
  BY <1>2, <1>6 DEF IInv, StoppedInv, StoppedFor, Leading, Searching
<1>13. CountInv'
  <2>1. Counted' = Counted \cup {i} /\ i \notin Counted
    BY <1>2, <1>6, <1>7 DEF Counted, Fresh
  <2> QED BY <2>1, <1>7, <1>2, CountedGrows
<1> QED BY <1>8, <1>9, <1>10, <1>11, <1>12, <1>13 DEF IInv

----------------------------------------------------------------------------
(* The end of a collection                                                *)

(* The leader finds work again, or the collection is over.                 *)
LEMMA TraverseWeakStep ==
  ASSUME IInv, NEW i \in GcCaps, TraverseWeak(i)
  PROVE  IInv'
<1>1. CASE cols.weak > 0 /\ gct' # gct
  <2> USE DEF Same, SameOwner, SameSpins, SameWork, SameLead, GcAt
  <2>0. PICK pushed \in 0..1 : gct' = [gct EXCEPT ![i].local = 1 - pushed, ![i].todo = pushed, ![i].pc = "again"]
    BY <1>1 DEF TraverseWeak
  <2>1. gct \in [GcCaps -> Thread] /\ cols \in Cols /\ gct[i] \in Thread
    BY DEF IInv, GCTypeOK
  <2>2. gct[i].pc = "done" /\ gct[i].leads
    BY <1>1 DEF TraverseWeak
  <2>3. 1 - pushed \in Nat /\ pushed \in Nat
    OBVIOUS
  <2>4. \A a \in GcCaps : Over(a) => a = i
    BY <2>2 DEF IInv, OneConducts, Conducts, Over
  <2>5. gct' = [gct EXCEPT ![i] = [gct[i] EXCEPT !.pc = "again", !.local = 1 - pushed, !.todo = pushed]]
    BY <2>1, <2>0
  <2>6. [gct[i] EXCEPT !.pc = "again", !.local = 1 - pushed, !.todo = pushed] \in Thread
    BY <2>1, <2>2, <2>3, <2>4 DEF Thread, GcPcs, LeaderPcs, Searching
  <2>7. gct' \in [GcCaps -> Thread] /\ gct'[i] = [gct[i] EXCEPT !.pc = "again", !.local = 1 - pushed, !.todo = pushed]
    BY <2>1, <2>2, <2>5, <2>6
  <2>8. /\ \A a \in GcCaps \ {i} : Same(a)
        /\ gct'[i].pc = "again"
        /\ gct'[i].local = 1 - pushed
        /\ gct'[i].todo = pushed
        /\ SameOwner(i)
        /\ SameSpins(i)
        /\ SameLead(i)
    BY <2>1, <2>5, <2>7 DEF Thread
  <2>9. cols' \in Cols /\ cols'.running = cols.running /\ cols'.pending = cols.pending
    BY <2>1, <2>2, <1>1 DEF TraverseWeak, Cols
  <2>10. GCTypeOK'
    BY <2>1, <2>7, <2>9 DEF GCTypeOK
  <2>11. OneWants'
    BY <2>2, <2>4, <2>8, <2>9 DEF IInv, OneWants, Wants
  <2>12. OneConducts'
    BY <2>2, <2>4, <2>8 DEF IInv, OneConducts, Conducts, LeaderPcs, Searching
  <2>13. IdleInv'
    BY <2>2, <2>4, <2>8 DEF IInv, IdleInv, Free
  <2>14. SpinInv'
    <3>1. SpinAt(i)'
      BY <2>2, <2>4, <2>8 DEF IInv, SpinInv, SpinAt, Fresh, Searching
    <3>2. \A a \in GcCaps \ {i} : SpinAt(a)'
      BY <2>2, <2>4, <2>8 DEF IInv, SpinInv, SpinAt, Fresh, Searching
    <3> QED BY <3>1, <3>2 DEF SpinInv
  <2>15. LetInv'
    BY <2>2, <2>4, <2>8 DEF IInv, LetInv, LetAt, Fresh, Conducts
  <2>16. WorkInv'
    BY <2>2, <2>4, <2>8 DEF IInv, WorkInv, HasWork
  <2>17. OverInv'
    BY <2>2, <2>4, <2>8 DEF IInv, OverInv, Over, HasWork, Fresh
  <2>18. StoppedInv'
    BY <2>2, <2>4, <2>8 DEF IInv, StoppedInv, StoppedFor, Leading, Searching
  <2>19. CountInv'
    <3>1. Counted' \subseteq Counted
      BY <2>2, <2>4, <2>8, <2>9 DEF Counted, Fresh
    <3> QED BY <3>1, <2>9, CountedShrinks
  <2> QED BY <2>10, <2>11, <2>12, <2>13, <2>14, <2>15, <2>16, <2>17, <2>18, <2>19 DEF IInv
<1>2. CASE cols.weak > 0 /\ gct' = gct
  <2>1. cols' \in Cols /\ cols'.running = cols.running /\ cols'.pending = cols.pending
    BY <1>2 DEF TraverseWeak, IInv, GCTypeOK, Cols
  <2> QED BY <1>2, <2>1, Unmoved
<1>3. CASE ~(cols.weak > 0)
  <2> USE DEF Same, SameOwner, SameSpins, SameWork, SameLead, GcAt
  <2>1. gct \in [GcCaps -> Thread] /\ cols \in Cols /\ gct[i] \in Thread
    BY DEF IInv, GCTypeOK
  <2>2. gct[i].pc = "done" /\ gct[i].leads
    BY <1>3 DEF TraverseWeak
  <2>3. \A a \in GcCaps \ {i} : ~Leading(a)
    BY <2>2 DEF IInv, OneConducts, Conducts, Leading
  <2>4. gct' = [gct EXCEPT ![i] = [gct[i] EXCEPT !.pc = "shutdown"]]
    BY <2>1, <2>2, <1>3 DEF TraverseWeak
  <2>5. [gct[i] EXCEPT !.pc = "shutdown"] \in Thread
    BY <2>1, <2>2, <2>3 DEF Thread, GcPcs, LeaderPcs, Searching
  <2>6. gct' \in [GcCaps -> Thread] /\ gct'[i] = [gct[i] EXCEPT !.pc = "shutdown"]
    BY <2>1, <2>2, <2>4, <2>5
  <2>7. /\ \A a \in GcCaps \ {i} : Same(a)
        /\ gct'[i].pc = "shutdown"
        /\ SameOwner(i)
        /\ SameSpins(i)
        /\ SameWork(i)
        /\ SameLead(i)
    BY <2>1, <2>4, <2>6 DEF Thread
  <2>8. cols' = cols
    BY <2>1, <2>2, <1>3 DEF TraverseWeak, Cols
  <2>9. GCTypeOK'
    BY <2>1, <2>6, <2>8 DEF GCTypeOK
  <2>10. OneWants'
    BY <2>2, <2>3, <2>7, <2>8 DEF IInv, OneWants, Wants
  <2>11. OneConducts'
    BY <2>2, <2>3, <2>7 DEF IInv, OneConducts, Conducts, LeaderPcs, Searching
  <2>12. IdleInv'
    BY <2>2, <2>3, <2>7 DEF IInv, IdleInv, Free
  <2>13. SpinInv'
    <3>1. SpinAt(i)'
      BY <2>2, <2>3, <2>7 DEF IInv, SpinInv, SpinAt, Fresh, Searching
    <3>2. \A a \in GcCaps \ {i} : SpinAt(a)'
      BY <2>2, <2>3, <2>7 DEF IInv, SpinInv, SpinAt, Fresh, Searching
    <3> QED BY <3>1, <3>2 DEF SpinInv
  <2>14. LetInv'
    BY <2>2, <2>3, <2>7 DEF IInv, LetInv, LetAt, Fresh, Conducts
  <2>15. WorkInv'
    BY <2>2, <2>3, <2>7 DEF IInv, WorkInv, HasWork
  <2>16. OverInv'
    BY <2>2, <2>3, <2>7 DEF IInv, OverInv, Over, HasWork, Fresh
  <2>17. StoppedInv'
    BY <2>2, <2>3, <2>7 DEF IInv, StoppedInv, StoppedFor, Leading, Searching
  <2>18. CountInv'
    <3>1. Counted' \subseteq Counted
      BY <2>2, <2>3, <2>7, <2>8 DEF Counted, Fresh
    <3> QED BY <3>1, <2>8, CountedShrinks
  <2> QED BY <2>9, <2>10, <2>11, <2>12, <2>13, <2>14, <2>15, <2>16, <2>17, <2>18 DEF IInv
<1> QED BY <1>1, <1>2, <1>3

(* It leads no more, and still conducts.                                   *)
LEMMA ShutdownStep ==
  ASSUME IInv, NEW i \in GcCaps, Shutdown(i)
  PROVE  IInv'
<1> USE DEF Same, SameOwner, SameSpins, SameWork, SameLead, GcAt
<1>1. gct \in [GcCaps -> Thread] /\ cols \in Cols /\ gct[i] \in Thread
  BY DEF IInv, GCTypeOK
<1>2. gct[i].pc = "shutdown"
  BY DEF Shutdown
<1>3. FirstCap(i) \in Int
  BY NextCapType
<1>4. gct' = [gct EXCEPT ![i] = [gct[i] EXCEPT !.pc = "release", !.leads = FALSE, !.next = FirstCap(i)]]
  BY <1>1, <1>2 DEF Shutdown
<1>5. [gct[i] EXCEPT !.pc = "release", !.leads = FALSE, !.next = FirstCap(i)] \in Thread
  BY <1>1, <1>2, <1>3 DEF Thread, GcPcs, LeaderPcs, Searching
<1>6. gct' \in [GcCaps -> Thread] /\ gct'[i] = [gct[i] EXCEPT !.pc = "release", !.leads = FALSE, !.next = FirstCap(i)]
  BY <1>1, <1>2, <1>4, <1>5
<1>7. /\ \A a \in GcCaps \ {i} : Same(a)
      /\ gct'[i].pc = "release"
      /\ gct'[i].leads = FALSE
      /\ gct'[i].next = FirstCap(i)
      /\ SameOwner(i)
      /\ SameSpins(i)
      /\ SameWork(i)
  BY <1>1, <1>4, <1>6 DEF Thread
<1>8. cols' = cols
  BY <1>1 DEF Shutdown, Cols
<1>9. GCTypeOK'
  BY <1>1, <1>6, <1>8 DEF GCTypeOK
<1>10. OneWants' /\ OneConducts' /\ IdleInv'
  BY <1>2, <1>7, <1>8 DEF IInv, OneWants, Wants, OneConducts, Conducts, LeaderPcs, Searching,
     IdleInv, Free
<1>11. SpinInv' /\ LetInv'
  BY <1>2, <1>7 DEF IInv, SpinInv, SpinAt, LetInv, LetAt, Fresh, Searching
<1>12. WorkInv' /\ OverInv'
  BY <1>2, <1>7 DEF IInv, WorkInv, OverInv, Over, HasWork, Fresh
<1>13. StoppedInv'
  BY <1>2, <1>7 DEF IInv, StoppedInv, StoppedFor, Leading, Searching
<1>14. CountInv'
  <2>1. Counted' \subseteq Counted
    BY <1>2, <1>7, <1>8 DEF Counted, Fresh
  <2> QED BY <2>1, <1>8, CountedShrinks
<1> QED BY <1>9, <1>10, <1>11, <1>12, <1>13, <1>14 DEF IInv

(* The thread to be let out is in mut_spin.                                *)
LEMMA ReleaseGcThreadStep ==
  ASSUME IInv, NEW i \in GcCaps, ReleaseGcThread(i)
  PROVE  IInv'
<1>0. PICK k \in GcCaps : k = gct[i].next
  BY DEF ReleaseGcThread, AllSeen
<1>1. CASE gct[gct[i].next].idle
  <2> USE DEF Same, SameOwner, SameSpins, SameWork, SameLead, GcAt
  <2>1. gct \in [GcCaps -> Thread] /\ cols \in Cols /\ gct[i] \in Thread
    BY DEF IInv, GCTypeOK
  <2>2. gct[i].pc = "release" /\ gct[i].next \in GcCaps
    BY <1>1 DEF ReleaseGcThread, AllSeen
  <2>3. NextCap(i, gct[i].next) \in Int
    BY <2>1, NextCapType DEF Thread
  <2>4. gct' = [gct EXCEPT ![i] = [gct[i] EXCEPT !.next = NextCap(i, gct[i].next)]]
    BY <2>1, <2>2, <1>1 DEF ReleaseGcThread, AllSeen
  <2>5. [gct[i] EXCEPT !.next = NextCap(i, gct[i].next)] \in Thread
    BY <2>1, <2>2, <2>3 DEF Thread, GcPcs, LeaderPcs, Searching
  <2>6. gct' \in [GcCaps -> Thread] /\ gct'[i] = [gct[i] EXCEPT !.next = NextCap(i, gct[i].next)]
    BY <2>1, <2>2, <2>4, <2>5
  <2>7. /\ \A a \in GcCaps \ {i} : Same(a)
        /\ gct'[i].next = NextCap(i, gct[i].next)
        /\ gct'[i].leads = gct[i].leads
        /\ gct'[i].pc = gct[i].pc
        /\ SameOwner(i)
        /\ SameSpins(i)
        /\ SameWork(i)
    BY <2>1, <2>4, <2>6 DEF Thread
  <2>8. cols' = cols
    BY <2>1, <2>2, <1>1 DEF ReleaseGcThread, AllSeen, Cols
  <2>9. GCTypeOK'
    BY <2>1, <2>6, <2>8 DEF GCTypeOK
  <2>10. OneWants' /\ OneConducts' /\ IdleInv'
    BY <2>2, <2>7, <2>8, <1>1 DEF IInv, OneWants, Wants, OneConducts, Conducts, LeaderPcs,
       Searching, IdleInv, Free
  <2>11. SpinInv' /\ LetInv'
    BY <2>2, <2>7, <1>1 DEF IInv, SpinInv, SpinAt, LetInv, LetAt, Fresh, Searching
  <2>12. WorkInv' /\ OverInv'
    BY <2>2, <2>7, <1>1 DEF IInv, WorkInv, OverInv, Over, HasWork, Fresh
  <2>13. StoppedInv'
    BY <2>2, <2>7, <1>1 DEF IInv, StoppedInv, StoppedFor, Leading, Searching
  <2>14. CountInv'
    <3>1. Counted' \subseteq Counted
      BY <2>2, <2>7, <2>8, <1>1 DEF Counted, Fresh
    <3> QED BY <3>1, <2>8, CountedShrinks
  <2> QED BY <2>9, <2>10, <2>11, <2>12, <2>13, <2>14 DEF IInv
<1>2. CASE ~gct[gct[i].next].idle /\ gct[gct[i].next].wakeup # "waiting"
  <2> USE DEF Same, SameOwner, SameSpins, SameWork, SameLead, GcAt
  <2>1. gct \in [GcCaps -> Thread] /\ cols \in Cols /\ gct[i] \in Thread
    BY DEF IInv, GCTypeOK
  <2>2. gct[i].pc = "release"
    BY <1>2 DEF ReleaseGcThread
  <2>3. gct' = [gct EXCEPT ![i] = [gct[i] EXCEPT !.pc = "barf"]]
    BY <2>1, <2>2, <1>2 DEF ReleaseGcThread
  <2>4. [gct[i] EXCEPT !.pc = "barf"] \in Thread
    BY <2>1, <2>2 DEF Thread, GcPcs, LeaderPcs, Searching
  <2>5. gct' \in [GcCaps -> Thread] /\ gct'[i] = [gct[i] EXCEPT !.pc = "barf"]
    BY <2>1, <2>2, <2>3, <2>4
  <2>6. /\ \A a \in GcCaps \ {i} : Same(a)
        /\ gct'[i].pc = "barf"
        /\ SameOwner(i)
        /\ SameSpins(i)
        /\ SameWork(i)
        /\ SameLead(i)
    BY <2>1, <2>3, <2>5 DEF Thread
  <2>7. cols' = cols
    BY <2>1, <2>2, <1>2 DEF ReleaseGcThread, Cols
  <2>8. GCTypeOK'
    BY <2>1, <2>5, <2>7 DEF GCTypeOK
  <2>9. OneWants' /\ OneConducts' /\ IdleInv'
    BY <2>2, <2>6, <2>7, <1>2 DEF IInv, OneWants, Wants, OneConducts, Conducts, LeaderPcs,
       Searching, IdleInv, Free
  <2>10. SpinInv' /\ LetInv'
    BY <2>2, <2>6, <1>2 DEF IInv, SpinInv, SpinAt, LetInv, LetAt, Fresh, Searching
  <2>11. WorkInv' /\ OverInv'
    BY <2>2, <2>6, <1>2 DEF IInv, WorkInv, OverInv, Over, HasWork, Fresh
  <2>12. StoppedInv'
    BY <2>2, <2>6, <1>2 DEF IInv, StoppedInv, StoppedFor, Leading, Searching
  <2>13. CountInv'
    <3>1. Counted' \subseteq Counted
      BY <2>2, <2>6, <2>7, <1>2 DEF Counted, Fresh
    <3> QED BY <3>1, <2>7, CountedShrinks
  <2> QED BY <2>8, <2>9, <2>10, <2>11, <2>12, <2>13 DEF IInv
<1>3. CASE ~gct[gct[i].next].idle /\ gct[gct[i].next].wakeup = "waiting"
  <2> USE DEF Same, SameOwner, SameSpins, SameWork, SameLead, GcAt
  <2>1. gct \in [GcCaps -> Thread] /\ cols \in Cols /\ gct[k] \in Thread /\ gct[i] \in Thread
    BY DEF IInv, GCTypeOK
  <2>2. gct[i].pc = "release" /\ gct[i].next = k /\ k # i /\ gct[k].pc = "continue" /\ gct[k].mutSpin
    BY <1>0, <1>3 DEF ReleaseGcThread, IInv, SpinInv, SpinAt
  <2>3. \A a \in GcCaps \ {i} : ~Conducts(a)
    BY <2>2 DEF IInv, OneConducts, Conducts
  <2>4. \A a \in GcCaps : ~Leading(a)
    BY <2>2 DEF IInv, StoppedInv, StoppedFor, OneConducts, Leading, LeaderPcs, Searching
  <2>5. gct' = [gct EXCEPT ![k] = [gct[k] EXCEPT !.wakeup = "inactive"], ![i] = [gct[i] EXCEPT !.pc = "let_out"]]
    BY <2>1, <2>2, <1>3 DEF ReleaseGcThread, AllSeen
  <2>6. [gct[k] EXCEPT !.wakeup = "inactive"] \in Thread /\ [gct[i] EXCEPT !.pc = "let_out"] \in Thread
    BY <2>1, <2>2, <2>3, <2>4 DEF Thread, GcPcs, LeaderPcs, Searching
  <2>7. /\ gct' \in [GcCaps -> Thread]
        /\ gct'[k] = [gct[k] EXCEPT !.wakeup = "inactive"]
        /\ gct'[i] = [gct[i] EXCEPT !.pc = "let_out"]
    BY <2>1, <2>2, <2>5, <2>6
  <2>8. /\ \A a \in GcCaps \ {k, i} : Same(a)
        /\ gct'[k].wakeup = "inactive"
        /\ gct'[k].gcSpin = gct[k].gcSpin
        /\ gct'[k].mutSpin = gct[k].mutSpin
        /\ gct'[k].pc = gct[k].pc
        /\ SameOwner(k)
        /\ SameWork(k)
        /\ SameLead(k)
        /\ gct'[i].pc = "let_out"
        /\ SameOwner(i)
        /\ SameSpins(i)
        /\ SameWork(i)
        /\ SameLead(i)
    BY <2>1, <2>5, <2>7 DEF Thread
  <2>9. cols' = cols
    BY <2>1, <2>2, <1>3 DEF ReleaseGcThread, AllSeen, Cols
  <2>10. GCTypeOK'
    BY <2>1, <2>7, <2>9 DEF GCTypeOK
  <2>11. OneWants'
    BY <2>2, <2>3, <2>4, <2>8, <2>9 DEF IInv, OneWants, Wants
  <2>12. OneConducts'
    BY <2>2, <2>3, <2>4, <2>8 DEF IInv, OneConducts, Conducts, LeaderPcs, Searching
  <2>13. IdleInv'
    BY <2>2, <2>3, <2>4, <2>8 DEF IInv, IdleInv, Free
  <2>14. SpinInv'
    <3>1. SpinAt(k)'
      BY <2>2, <2>3, <2>4, <2>8 DEF IInv, SpinInv, SpinAt, Fresh, Searching
    <3>2. SpinAt(i)'
      BY <2>2, <2>3, <2>4, <2>8 DEF IInv, SpinInv, SpinAt, Fresh, Searching
    <3>3. \A a \in GcCaps \ {k, i} : SpinAt(a)'
      BY <2>2, <2>3, <2>4, <2>8 DEF IInv, SpinInv, SpinAt, Fresh, Searching
    <3> QED BY <3>1, <3>2, <3>3 DEF SpinInv
  <2>15. LetInv'
    <3>1. LetAt(k)'
      BY <2>2, <2>3, <2>4, <2>8 DEF IInv, LetInv, LetAt, Fresh, Conducts
    <3>2. LetAt(i)'
      <4>1. gct'[i].next = k /\ gct'[k].pc = "continue" /\ gct'[k].wakeup = "inactive" /\ gct'[k].mutSpin
        BY <2>2, <2>3, <2>4, <2>8 DEF Fresh
      <4> QED BY <4>1, <2>8 DEF LetAt
    <3>3. \A a \in GcCaps \ {k, i} : LetAt(a)'
      BY <2>2, <2>3, <2>4, <2>8 DEF IInv, LetInv, LetAt, Fresh, Conducts
    <3> QED BY <3>1, <3>2, <3>3 DEF LetInv
  <2>16. WorkInv'
    BY <2>2, <2>3, <2>4, <2>8 DEF IInv, WorkInv, HasWork
  <2>17. OverInv'
    BY <2>2, <2>3, <2>4, <2>8 DEF IInv, OverInv, Over, HasWork, Fresh
  <2>18. StoppedInv'
    BY <2>2, <2>3, <2>4, <2>8 DEF IInv, StoppedInv, StoppedFor, Leading, Searching
  <2>19. CountInv'
    <3>1. Counted' \subseteq Counted
      BY <2>2, <2>3, <2>4, <2>8, <2>9 DEF Counted, Fresh
    <3> QED BY <3>1, <2>9, CountedShrinks
  <2> QED BY <2>10, <2>11, <2>12, <2>13, <2>14, <2>15, <2>16, <2>17, <2>18, <2>19 DEF IInv
<1> QED BY <1>1, <1>2, <1>3

(* It is let out once.                                                     *)
LEMMA LetOutStep ==
  ASSUME IInv, NEW i \in GcCaps, LetOut(i)
  PROVE  IInv'
<1> USE DEF Same, SameOwner, SameSpins, SameWork, SameLead, GcAt
<1>0. PICK k \in GcCaps : k = gct[i].next
  BY DEF IInv, LetInv, LetAt, LetOut
<1>1. gct \in [GcCaps -> Thread] /\ cols \in Cols /\ gct[k] \in Thread /\ gct[i] \in Thread
  BY DEF IInv, GCTypeOK
<1>2. gct[i].pc = "let_out" /\ gct[i].next = k /\ gct[k].pc = "continue" /\ gct[k].wakeup = "inactive" /\ k # i
  BY <1>0 DEF LetOut, IInv, LetInv, LetAt
<1>3. NextCap(i, k) \in Int
  BY Caps, NextCapType
<1>4. \A a \in GcCaps : ~Leading(a)
  BY <1>2 DEF IInv, StoppedInv, StoppedFor, OneConducts, Leading, LeaderPcs, Searching
<1>5. \A a \in GcCaps \ {i} : ~Conducts(a)
  BY <1>2 DEF IInv, OneConducts, Conducts
<1>6. gct' = [gct EXCEPT ![k] = [gct[k] EXCEPT !.gcSpin = TRUE, !.mutSpin = FALSE],
                         ![i] = [gct[i] EXCEPT !.pc = "release", !.next = NextCap(i, k)]]
  BY <1>1, <1>2, <1>4, <1>5 DEF LetOut
<1>7. /\ [gct[k] EXCEPT !.gcSpin = TRUE, !.mutSpin = FALSE] \in Thread
      /\ [gct[i] EXCEPT !.pc = "release", !.next = NextCap(i, k)] \in Thread
  BY <1>1, <1>2, <1>3, <1>4, <1>5 DEF Thread, GcPcs, LeaderPcs, Searching
<1>8. /\ gct' \in [GcCaps -> Thread]
      /\ gct'[k] = [gct[k] EXCEPT !.gcSpin = TRUE, !.mutSpin = FALSE]
      /\ gct'[i] = [gct[i] EXCEPT !.pc = "release", !.next = NextCap(i, k)]
  BY <1>1, <1>2, <1>6, <1>7
<1>9. /\ \A a \in GcCaps \ {k, i} : Same(a)
      /\ gct'[k].gcSpin = TRUE
      /\ gct'[k].mutSpin = FALSE
      /\ gct'[k].wakeup = gct[k].wakeup
      /\ gct'[k].pc = gct[k].pc
      /\ SameOwner(k)
      /\ SameWork(k)
      /\ SameLead(k)
      /\ gct'[i].pc = "release"
      /\ gct'[i].next = NextCap(i, k)
      /\ gct'[i].leads = gct[i].leads
      /\ SameOwner(i)
      /\ SameSpins(i)
      /\ SameWork(i)
  BY <1>1, <1>6, <1>8 DEF Thread
<1>10. cols' = cols
  BY <1>1 DEF LetOut, Cols
<1>11. GCTypeOK'
  BY <1>1, <1>8, <1>10 DEF GCTypeOK
<1>12. OneWants'
  BY <1>2, <1>4, <1>5, <1>9, <1>10 DEF IInv, OneWants, Wants
<1>13. OneConducts'
  BY <1>2, <1>4, <1>5, <1>9 DEF IInv, OneConducts, Conducts, LeaderPcs, Searching
<1>14. IdleInv'
  BY <1>2, <1>4, <1>5, <1>9 DEF IInv, IdleInv, Free
<1>15. SpinInv'
  <2>1. SpinAt(k)'
    BY <1>2, <1>4, <1>5, <1>9 DEF IInv, SpinInv, SpinAt, Fresh, Searching
  <2>2. SpinAt(i)'
    BY <1>2, <1>4, <1>5, <1>9 DEF IInv, SpinInv, SpinAt, Fresh, Searching
  <2>3. \A a \in GcCaps \ {k, i} : SpinAt(a)'
    BY <1>2, <1>4, <1>5, <1>9 DEF IInv, SpinInv, SpinAt, Fresh, Searching
  <2> QED BY <2>1, <2>2, <2>3 DEF SpinInv
<1>16. LetInv'
  <2>1. LetAt(k)'
    BY <1>2, <1>4, <1>5, <1>9 DEF IInv, LetInv, LetAt, Fresh, Conducts
  <2>2. LetAt(i)'
    BY <1>2, <1>4, <1>5, <1>9 DEF IInv, LetInv, LetAt, Fresh, Conducts
  <2>3. \A a \in GcCaps \ {k, i} : LetAt(a)'
    BY <1>2, <1>4, <1>5, <1>9 DEF IInv, LetInv, LetAt, Fresh, Conducts
  <2> QED BY <2>1, <2>2, <2>3 DEF LetInv
<1>17. WorkInv'
  BY <1>2, <1>4, <1>5, <1>9 DEF IInv, WorkInv, HasWork
<1>18. OverInv'
  BY <1>2, <1>4, <1>5, <1>9 DEF IInv, OverInv, Over, HasWork, Fresh
<1>19. StoppedInv'
  BY <1>2, <1>4, <1>5, <1>9 DEF IInv, StoppedInv, StoppedFor, Leading, Searching
<1>20. CountInv'
  <2>1. Counted' \subseteq Counted
    BY <1>2, <1>4, <1>5, <1>9, <1>10 DEF Counted, Fresh
  <2> QED BY <2>1, <1>10, CountedShrinks
<1> QED BY <1>11, <1>12, <1>13, <1>14, <1>15, <1>16, <1>17, <1>18, <1>19, <1>20 DEF IInv

(* It releases the Capabilities it grabbed, which are still its own.       *)
LEMMA ReleaseIdleStep ==
  ASSUME IInv, NEW i \in GcCaps, ReleaseIdle(i)
  PROVE  IInv'
<1> USE DEF SameSpins, SameWork, SameLead, GcAt
<1> DEFINE g == gct[i].grabbed
<1>1. gct \in [GcCaps -> Thread] /\ cols \in Cols /\ \A k \in GcCaps : gct[k] \in Thread
  BY DEF IInv, GCTypeOK
<1>2. gct[i].pc = "release" /\ cols' = cols
  BY DEF ReleaseIdle
<1>3. gct' = [k \in GcCaps |-> IF k = i THEN [gct[k] EXCEPT !.pc = "mutator", !.grabbed = {}]
                               ELSE IF k \in g THEN [gct[k] EXCEPT !.owner = Free] ELSE gct[k]]
  BY DEF ReleaseIdle
<1>4. g \in SUBSET (GcCaps \ {i}) /\ \A k \in g : gct[k].owner = i /\ gct[k].pc = "none"
  BY <1>1, <1>2 DEF Thread, IInv, IdleInv
<1> HIDE DEF g
<1>5. /\ gct'[i] = [gct[i] EXCEPT !.pc = "mutator", !.grabbed = {}]
      /\ \A k \in GcCaps \ {i} : gct'[k] = IF k \in g THEN [gct[k] EXCEPT !.owner = Free] ELSE gct[k]
  BY <1>3, Zenon
<1>6. gct' \in [GcCaps -> Thread]
  <2>1. gct[i] \in Thread
    BY <1>1
  <2>2. [gct[i] EXCEPT !.pc = "mutator", !.grabbed = {}] \in Thread
    BY <2>1 DEF Thread, GcPcs
  <2>3. \A k \in GcCaps : [gct[k] EXCEPT !.owner = Free] \in Thread
    BY <1>1 DEF Thread
  <2>4. DOMAIN gct' = GcCaps /\ gct' = [k \in GcCaps |-> gct'[k]]
    BY <1>3
  <2>5. \A k \in GcCaps : gct'[k] \in Thread
    BY <1>1, <1>5, <2>2, <2>3
  <2> QED BY <2>4, <2>5
<1>7. /\ gct'[i].pc = "mutator" /\ gct'[i].grabbed = {} /\ gct'[i].owner = gct[i].owner /\ gct'[i].idle = gct[i].idle
      /\ SameSpins(i) /\ SameWork(i) /\ SameLead(i)
  <2>1. gct[i] \in Thread /\ gct'[i] = [gct[i] EXCEPT !.pc = "mutator", !.grabbed = {}]
    BY <1>1, <1>5
  <2> QED BY <2>1 DEF Thread
<1>8. \A k \in GcCaps \ {i} :
        /\ gct'[k].pc = gct[k].pc /\ gct'[k].grabbed = gct[k].grabbed /\ gct'[k].idle = gct[k].idle
        /\ gct'[k].owner = IF k \in g THEN Free ELSE gct[k].owner
        /\ SameSpins(k) /\ SameWork(k) /\ SameLead(k)
  <2> TAKE k \in GcCaps \ {i}
  <2>1. gct[k] \in Thread
    BY <1>1
  <2>2. CASE k \in g
    <3>1. gct'[k] = [gct[k] EXCEPT !.owner = Free]
      BY <1>5, <2>2
    <3> QED BY <2>1, <2>2, <3>1 DEF Thread
  <2>3. CASE k \notin g
    <3>1. gct'[k] = gct[k]
      BY <1>5, <2>3
    <3> QED BY <2>3, <3>1
  <2> QED BY <2>2, <2>3
<1>9. GCTypeOK'
  BY <1>1, <1>2, <1>6 DEF GCTypeOK
<1>10. OneWants' /\ OneConducts'
  BY <1>2, <1>7, <1>8, <1>2 DEF IInv, OneWants, Wants, OneConducts, Conducts, LeaderPcs, Searching
<1>11. IdleInv'
  BY <1>2, <1>7, <1>8, <1>4 DEF IInv, IdleInv
<1>12. SpinInv' /\ LetInv'
  BY <1>2, <1>7, <1>8 DEF IInv, SpinInv, SpinAt, LetInv, LetAt, Fresh, Searching
<1>13. WorkInv' /\ OverInv'
  BY <1>2, <1>7, <1>8 DEF IInv, WorkInv, OverInv, Over, HasWork, Fresh
<1>14. StoppedInv'
  <2>1. \A a \in GcCaps : ~Leading(a)
    BY <1>2 DEF IInv, StoppedInv, StoppedFor, OneConducts, Leading, LeaderPcs, Searching
  <2> QED BY <2>1, <1>2, <1>7, <1>8 DEF StoppedInv, StoppedFor, Leading
<1>15. CountInv'
  <2>1. Counted' \subseteq Counted
    BY <1>2, <1>7, <1>8 DEF Counted, Fresh
  <2> QED BY <2>1, <1>2, CountedShrinks
<1> QED BY <1>9, <1>10, <1>11, <1>12, <1>13, <1>14, <1>15 DEF IInv

----------------------------------------------------------------------------
(* The theorems                                                           *)

(* Everybody runs Haskell code or is disabled, and nothing is counted.     *)
LEMMA InitInv == GCInit => IInv
<1> SUFFICES ASSUME GCInit PROVE IInv
  OBVIOUS
<1> USE DEF GcAt
<1>1. PICK scenario \in Scenarios, busy \in SUBSET GcCaps :
        LET free == scenario.off \ busy IN
        /\ gct = [i \in GcCaps |->
              [pc |-> IF i \in free THEN "none" ELSE "mutator", owner |-> IF i \in free THEN Free ELSE i,
               wakeup |-> "inactive", gcSpin |-> TRUE, mutSpin |-> FALSE, idle |-> FALSE,
               local |-> 0, todo |-> 0, next |-> 0, leads |-> FALSE, grabbed |-> {}]]
        /\ cols = [pending |-> FALSE, running |-> 0, unseen |-> 0, weak |-> 0,
                   off |-> scenario.off, left |-> scenario.collections]
  BY DEF GCInit
<1>2. scenario.off \subseteq GcCaps /\ scenario.collections \in Nat
  BY GCThreadsAssumption
<1>3. \A i \in GcCaps : gct[i] \in Thread
  BY <1>1 DEF Thread, GcPcs, LeaderPcs, Searching
<1>4. GCTypeOK
  <2>1. DOMAIN gct = GcCaps /\ gct = [i \in GcCaps |-> gct[i]]
    BY <1>1
  <2>2. cols \in Cols
    BY <1>1, <1>2 DEF Cols
  <2> QED BY <1>3, <2>1, <2>2 DEF GCTypeOK
<1>5. \A i \in GcCaps : /\ gct[i].pc \in {"none", "mutator"} /\ (gct[i].owner = Free => gct[i].pc = "none")
                         /\ gct[i].wakeup = "inactive" /\ gct[i].gcSpin /\ ~gct[i].leads
                         /\ gct[i].local = 0 /\ gct[i].todo = 0 /\ gct[i].grabbed = {}
  BY <1>1, FreeIsNobody
<1>6. OneWants /\ OneConducts /\ IdleInv
  BY <1>5 DEF OneWants, Wants, OneConducts, Conducts, LeaderPcs, IdleInv
<1>7. SpinInv /\ LetInv /\ StoppedInv
  BY <1>5 DEF SpinInv, SpinAt, LetInv, LetAt, StoppedInv, Leading, Searching
<1>8. CountInv
  <2>1. Counted = {}
    BY <1>5 DEF Counted, Fresh
  <2> QED BY <1>1, <2>1, FS_EmptySet DEF CountInv
<1>9. WorkInv /\ OverInv
  BY <1>5 DEF WorkInv, OverInv, Over, HasWork, Fresh
<1> QED BY <1>4, <1>6, <1>7, <1>8, <1>9 DEF IInv

(* Every step keeps the invariant.                                         *)
LEMMA NextInv == IInv /\ [GCNext]_gcVars => IInv'
<1> SUFFICES ASSUME IInv, [GCNext]_gcVars PROVE IInv'
  OBVIOUS
<1>1. ASSUME NEW i \in GcCaps, GCStep(i) PROVE IInv'
  <2>1. CASE WinSync(i) BY <2>1, WinSyncStep
  <2>2. CASE GrabIdle(i) BY <2>2, GrabIdleStep
  <2>3. CASE SetIdle(i) BY <2>3, SetIdleStep
  <2>4. CASE GiveUp(i) BY <2>4, GiveUpStep
  <2>5. CASE GivenUp(i) BY <2>5, GivenUpStep
  <2>6. CASE StartGC(i) BY <2>6, StartGCStep
  <2>7. CASE WakeGcThread(i) BY <2>7, WakeGcThreadStep
  <2>8. CASE LetIn(i) BY <2>8, LetInStep
  <2>9. CASE LeaderRoots(i) BY <2>9, LeaderRootsStep
  <2>10. CASE EnterWorker(i) BY <2>10, EnterWorkerStep
  <2>11. CASE StandBy(i) BY <2>11, StandByStep
  <2>12. CASE WorkerRoots(i) BY <2>12, WorkerRootsStep
  <2>13. CASE WorkerLeaves(i) BY <2>13, WorkerLeavesStep
  <2>14. CASE WaitToContinue(i) BY <2>14, WaitToContinueStep
  <2>15. CASE Continue(i) BY <2>15, ContinueStep
  <2>16. CASE Scavenge(i) BY <2>16, ScavengeStep
  <2>17. CASE GrabLocal(i) BY <2>17, GrabLocalStep
  <2>18. CASE OutOfWork(i) BY <2>18, OutOfWorkStep
  <2>19. CASE DecRunning(i) BY <2>19, DecRunningStep
  <2>20. CASE StillRunning(i) BY <2>20, StillRunningStep
  <2>21. CASE NoWork(i) BY <2>21, NoWorkStep
  <2>22. CASE IncRunning(i) BY <2>22, IncRunningStep
  <2>23. CASE TraverseWeak(i) BY <2>23, TraverseWeakStep
  <2>24. CASE Shutdown(i) BY <2>24, ShutdownStep
  <2>25. CASE ReleaseGcThread(i) BY <2>25, ReleaseGcThreadStep
  <2>26. CASE LetOut(i) BY <2>26, LetOutStep
  <2>27. CASE ReleaseIdle(i) BY <2>27, ReleaseIdleStep
  <2>28. ASSUME NEW k \in GcCaps, Prod(i, k) PROVE IInv' BY <2>28, ProdStep
  <2>29. ASSUME NEW k \in GcCaps, StealTodo(i, k) PROVE IInv' BY <2>29, StealTodoStep
  <2>30. ASSUME NEW k \in GcCaps, AnyWork(i, k) PROVE IInv' BY <2>30, AnyWorkStep
  <2> QED BY <1>1, <2>1, <2>2, <2>3, <2>4, <2>5, <2>6, <2>7, <2>8, <2>9, <2>10, <2>11, <2>12,
        <2>13, <2>14, <2>15, <2>16, <2>17, <2>18, <2>19, <2>20, <2>21, <2>22, <2>23, <2>24, <2>25,
        <2>26, <2>27, <2>28, <2>29, <2>30 DEF GCStep
<1>2. CASE UNCHANGED gcVars
  BY <1>2, Unmoved, Typed DEF gcVars
<1> QED BY <1>1, <1>2 DEF GCNext

(* The invariant of the rendezvous and of scavenge_until_all_done.          *)
THEOREM GCInductive == GCSpec => []IInv
  BY InitInv, NextInv, PTL DEF GCSpec

(* The threads, the flags and the counters stay of their types, whatever    *)
(* the number of Capabilities, and gc_running_threads never misses a thread *)
(* that scavenges, steals or has been woken to (inc_running, dec_running).  *)
THEOREM GCTypeCorrect == GCSpec => [](GCTypeOK /\ CountInv)
<1>1. IInv => GCTypeOK /\ CountInv
  BY DEF IInv
<1> QED BY <1>1, GCInductive, PTL

(* "invariant is that everything is fully scavenged at this point" (GC.c):  *)
(* scavenge_until_all_done of the leader returns when nobody has work, and  *)
(* after the last look at the weak pointers nobody gets any.               *)
THEOREM NothingLeft == GCSpec => []FullyScavenged
<1>1. IInv => FullyScavenged
  <2> SUFFICES ASSUME IInv, NEW i \in GcCaps, NEW k \in GcCaps,
                      (GcAt(i, "done") /\ gct[i].leads) \/ GcAt(i, "shutdown") \/ GcAt(i, "release")
               PROVE  gct[k].local = 0 /\ gct[k].todo = 0
    BY DEF FullyScavenged
  <2>1. ~HasWork(k)
    BY DEF IInv, OverInv, Over, GcAt
  <2>2. gct[k].local \in Nat /\ gct[k].todo \in Nat
    BY Typed DEF Thread
  <2> QED BY <2>1, <2>2 DEF HasWork
<1> QED BY <1>1, GCInductive, PTL

(* Between the reset of pending_sync and the release of the collectors the  *)
(* Task that collects is alone: every other Capability is its own, or its   *)
(* owner is inside gcWorkerThread (waitForGcThreads, releaseGCThreads).    *)
THEOREM WorldStopped == GCSpec => []WorldStands
<1>1. IInv => WorldStands
  BY DEF IInv, StoppedInv, StoppedFor, WorldStands, Searching, GcAt
<1> QED BY <1>1, GCInductive, PTL
==============================================================================
