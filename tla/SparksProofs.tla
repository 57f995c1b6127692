------------------------------ MODULE SparksProofs ------------------------------
(***************************************************************************)
(* Proofs about Sparks, for every number of Capabilities, every size of    *)
(* the pools and any number of sparks and collections.                     *)
(***************************************************************************)
EXTENDS Sparks, FiniteSetTheorems, TLAPS

Spark == Sparkable \cup {NoSpark}
Closure == {"thunk", "value", "freed"}
PoolRec == [top : Nat, bottom : Nat, elements : [Slots -> Spark]]
FinderRec == [pc : {"none", "steal", "cas", "got", "missed", "next"}, robbed : Nat, retry : BOOLEAN,
              top : Nat, spark : Spark]
PrunerRec == [on : BOOLEAN, curr : Slots, old : Slots, bot : Slots, before : Seq(Spark), kept : Seq(Spark)]

TypeInv ==
  /\ pools \in [SparkCaps -> PoolRec] /\ closure \in [Sparkable -> Closure]
  /\ finder \in [SparkCaps -> FinderRec]
  /\ counts \in [created : Nat, dud : Nat, gone : Nat]
  /\ pruning \in [phase : {"none", "trace", "shutdown"}, reached : SUBSET Sparkable, idle : SUBSET SparkCaps,
                  done : SUBSET SparkCaps, left : Nat, at : [SparkCaps -> PrunerRec]]

(* The array is never full, so that a pool that looks empty is.            *)
PoolInv == \A c \in SparkCaps : Size(c) \in 0..(PoolSize - 1)

(* A thief that has read something read it at or below top.                *)
FinderInv ==
  \A c \in SparkCaps : LET f == finder[c] IN
    /\ f.pc \in {"steal", "cas", "got", "missed"} => f.robbed \in SparkCaps
    /\ f.pc = "cas" => f.top <= pools[f.robbed].top /\ f.top < pools[f.robbed].bottom
    /\ pruning.phase # "none" => f.pc = "none"

Around(i) == IF i < PoolSize THEN i ELSE i - PoolSize
At(c, i) == pools[c].elements[Around(i)]

(* Half way through: what is left to look at follows curr, up to old; what *)
(* was kept follows old, up to bot; there is room between bot and curr.    *)
CompactInv(c) == LET at == pruning.at[c] IN
  /\ Len(at.before) + Len(at.kept) < PoolSize
  /\ at.old = Around(at.curr + Len(at.before)) /\ at.bot = Around(at.old + Len(at.kept))
  /\ \A n \in 1..Len(at.before) : At(c, at.curr + n - 1) = at.before[n]
  /\ \A n \in 1..Len(at.kept) : At(c, at.old + n - 1) = at.kept[n]

(* A pool before, while and after it is pruned.                            *)
PrunerInv(c) ==
  /\ pruning.at[c].on => c \notin pruning.done /\ CompactInv(c)
  /\ c \in pruning.done => Contents(c) = pruning.at[c].kept
  /\ pruning.at[c].on \/ c \in pruning.done =>
       \A n \in 1..Len(pruning.at[c].kept) : Survives(pruning.at[c].kept[n])

PruneInv ==
  /\ pruning.phase = "none" => pruning.done = {} /\ \A c \in SparkCaps : ~pruning.at[c].on
  /\ \A c \in SparkCaps : PrunerInv(c)

(* Between collections the pools hold closures that are there.             *)
LiveInv ==
  pruning.phase = "none" => \A c \in SparkCaps : \A n \in 1..Size(c) :
    Contents(c)[n] \in Sparkable /\ closure[Contents(c)[n]] # "freed"

(* The sparks a pool accounts for, also while it is compacted.             *)
Held(c) == IF pruning.at[c].on THEN Len(pruning.at[c].before) + Len(pruning.at[c].kept) ELSE Size(c)
Tokens(h) == {x \in SparkCaps \X (1..PoolSize) : x[2] <= h[x[1]]}
HeldAll == [c \in SparkCaps |-> Held(c)]
CountInv == counts.created = counts.gone + Cardinality(Tokens(HeldAll)) + InHand

IInv == TypeInv /\ PoolInv /\ FinderInv /\ PruneInv /\ LiveInv /\ CountInv

----------------------------------------------------------------------------
(* Slots of the array *)

(* Around is the remainder, where it is used.                              *)
LEMMA AroundIs ==
  ASSUME NEW x \in Nat, NEW k \in 0..PoolSize
  PROVE  /\ x % PoolSize \in Slots
         /\ k < PoolSize => (x + k) % PoolSize = Around((x % PoolSize) + k)
<1>1. PoolSize \in Nat /\ PoolSize > 1
  BY SparksAssumption
<1> DEFINE q == x \div PoolSize
           r == x % PoolSize
<1>2. q \in Nat /\ r \in 0..(PoolSize - 1) /\ x = PoolSize * q + r
  BY <1>1
<1> HIDE DEF q
<1>3. \A y \in 0..(PoolSize - 1), m \in Nat : (PoolSize * m + y) % PoolSize = y
  BY <1>1
<1>4. ASSUME k < PoolSize, r + k >= PoolSize
      PROVE  (x + k) % PoolSize = r + k - PoolSize
  <2>1. x + k = PoolSize * (q + 1) + (r + k - PoolSize)
    BY <1>1, <1>2
  <2>2. q + 1 \in Nat /\ r + k - PoolSize \in 0..(PoolSize - 1)
    BY <1>1, <1>2, <1>4
  <2> HIDE DEF r
  <2> QED BY <1>3, <2>1, <2>2
<1>5. ASSUME r + k < PoolSize
      PROVE  (x + k) % PoolSize = r + k
  <2>1. x + k = PoolSize * q + (r + k)
    BY <1>1, <1>2
  <2>2. r + k \in 0..(PoolSize - 1)
    BY <1>1, <1>2, <1>5
  <2> HIDE DEF r
  <2> QED BY <1>2, <1>3, <2>1, <2>2
<1> QED BY <1>1, <1>2, <1>4, <1>5 DEF Slots, Around

(* The slots of a pool's positions differ.                                 *)
LEMMA SlotsDiffer ==
  ASSUME NEW a \in Slots, NEW i \in 0..PoolSize, NEW j \in 0..PoolSize, i # j,
         i - j < PoolSize, j - i < PoolSize
  PROVE  Around(a + i) # Around(a + j) /\ Around(a + i) \in Int /\ (i < PoolSize => Around(a + i) \in Slots)
  BY SparksAssumption DEF Slots, Around

(* The contents, by the slots they are in.                                 *)
LEMMA ContentsIs ==
  ASSUME TypeInv, PoolInv, NEW c \in SparkCaps
  PROVE  /\ Contents(c) \in Seq(Spark) /\ Len(Contents(c)) = Size(c) /\ Size(c) \in 0..(PoolSize - 1)
         /\ pools[c].top \in Nat /\ pools[c].bottom = pools[c].top + Size(c)
         /\ pools[c].top % PoolSize \in Slots
         /\ pools[c].bottom % PoolSize = Around((pools[c].top % PoolSize) + Size(c))
         /\ \A n \in 1..Size(c) : Contents(c)[n] = At(c, (pools[c].top % PoolSize) + n - 1)
<1>1. pools[c].top \in Nat /\ pools[c].bottom \in Nat /\ pools[c].elements \in [Slots -> Spark]
  BY DEF TypeInv, PoolRec
<1>2. Size(c) \in 0..(PoolSize - 1) /\ pools[c].bottom = pools[c].top + Size(c)
  BY <1>1 DEF PoolInv, Size
<1>3. PoolSize \in Nat /\ PoolSize > 1
  BY SparksAssumption
<1>4. \A k \in 0..PoolSize : k < PoolSize =>
        (pools[c].top + k) % PoolSize = Around((pools[c].top % PoolSize) + k)
  BY <1>1, AroundIs
<1>5. pools[c].top % PoolSize \in Slots
  BY <1>1, <1>3 DEF Slots
<1>6. \A n \in 1..Size(c) : (pools[c].top + n - 1) % PoolSize = Around((pools[c].top % PoolSize) + n - 1)
  <2> SUFFICES ASSUME NEW n \in 1..Size(c)
               PROVE  (pools[c].top + n - 1) % PoolSize = Around((pools[c].top % PoolSize) + n - 1)
    OBVIOUS
  <2>1. n - 1 \in 0..PoolSize /\ n - 1 < PoolSize
    BY <1>2, <1>3
  <2>2. pools[c].top + (n - 1) = pools[c].top + n - 1 /\ (pools[c].top % PoolSize) + (n - 1) = (pools[c].top % PoolSize) + n - 1
    BY <1>1, <1>5, <2>1 DEF Slots
  <2> QED BY <1>4, <2>1, <2>2
<1>7. \A n \in 1..Size(c) : (pools[c].top + n - 1) % PoolSize \in Slots
  <2> SUFFICES ASSUME NEW n \in 1..Size(c) PROVE (pools[c].top + n - 1) % PoolSize \in Slots
    OBVIOUS
  <2>1. pools[c].top + n - 1 \in Nat
    BY <1>1, <1>2
  <2> QED BY <1>3, <2>1 DEF Slots
<1>8. \A n \in 1..Size(c) : pools[c].elements[(pools[c].top + n - 1) % PoolSize] \in Spark
  BY <1>1, <1>7
<1>9. Contents(c) \in Seq(Spark) /\ Len(Contents(c)) = Size(c)
  BY <1>2, <1>8 DEF Contents
<1>10. pools[c].bottom % PoolSize = Around((pools[c].top % PoolSize) + Size(c))
  <2>1. Size(c) \in 0..PoolSize /\ Size(c) < PoolSize
    BY <1>2, <1>3
  <2> QED BY <1>2, <1>4, <2>1
<1> QED BY <1>1, <1>2, <1>5, <1>6, <1>9, <1>10 DEF Contents, At

----------------------------------------------------------------------------
(* Counting *)

Sizes == [SparkCaps -> 0..PoolSize]

(* There are finitely many sparks.                                        *)
LEMMA TokensFinite ==
  ASSUME NEW h \in Sizes
  PROVE  IsFiniteSet(Tokens(h)) /\ Cardinality(Tokens(h)) \in Nat
<1>1. IsFiniteSet(SparkCaps) /\ PoolSize \in Nat
  BY SparksAssumption
<1>2. IsFiniteSet(1..PoolSize)
  BY <1>1, FS_Interval
<1>3. IsFiniteSet(SparkCaps \X (1..PoolSize))
  BY <1>1, <1>2, FS_Product
<1>4. Tokens(h) \in SUBSET (SparkCaps \X (1..PoolSize))
  BY DEF Tokens
<1>5. IsFiniteSet(Tokens(h))
  BY <1>3, <1>4, FS_Subset
<1> QED BY <1>5, FS_CardinalityType

(* One spark more in one pool is one more in all.                          *)
LEMMA TokensMore ==
  ASSUME NEW h \in Sizes, NEW g \in Sizes, NEW c \in SparkCaps,
         g[c] = h[c] + 1, \A d \in SparkCaps \ {c} : g[d] = h[d]
  PROVE  Cardinality(Tokens(g)) = Cardinality(Tokens(h)) + 1
<1> DEFINE x == <<c, g[c]>>
<1>0. PoolSize \in Nat
  BY SparksAssumption
<1>1. g[c] \in 1..PoolSize /\ h[c] \in Nat
  BY <1>0 DEF Sizes
<1>2. x \notin Tokens(h)
  BY <1>1 DEF Tokens
<1>3. Tokens(g) = Tokens(h) \cup {x}
  <2>1. ASSUME NEW y \in SparkCaps \X (1..PoolSize)
        PROVE  y \in Tokens(g) <=> y \in Tokens(h) \/ y = x
    <3>1. PICK d \in SparkCaps, n \in 1..PoolSize : y = <<d, n>>
      OBVIOUS
    <3>2. CASE d = c
      <4>1. n <= g[c] <=> n <= h[c] \/ n = g[c]
        BY <1>0, <1>1, <3>1
      <4> QED BY <3>1, <3>2, <4>1 DEF Tokens
    <3>3. CASE d # c
      BY <3>1, <3>3 DEF Tokens
    <3> QED BY <3>2, <3>3
  <2>2. x \in SparkCaps \X (1..PoolSize)
    BY <1>1
  <2>3. Tokens(g) \subseteq SparkCaps \X (1..PoolSize) /\ Tokens(h) \subseteq SparkCaps \X (1..PoolSize)
    BY DEF Tokens
  <2> HIDE DEF x
  <2> QED BY <2>1, <2>2, <2>3
<1>4. IsFiniteSet(Tokens(h)) /\ Cardinality(Tokens(h)) \in Nat
  BY TokensFinite
<1> HIDE DEF x
<1> QED BY <1>2, <1>3, <1>4, FS_AddElement

(* HeldAll as an argument of these lemmas.                                 *)
LEMMA HeldIs ==
  ASSUME TypeInv, PoolInv, PruneInv
  PROVE  HeldAll \in Sizes /\ \A c \in SparkCaps : HeldAll[c] = Held(c) /\ Held(c) \in Nat
<1> SUFFICES ASSUME NEW c \in SparkCaps PROVE Held(c) \in 0..PoolSize
  BY SparksAssumption DEF HeldAll, Sizes
<1>1. pruning.at[c] \in PrunerRec
  BY DEF TypeInv
<1>2. Len(pruning.at[c].before) \in Nat /\ Len(pruning.at[c].kept) \in Nat
  BY <1>1 DEF PrunerRec
<1>3. PoolSize \in Nat
  BY SparksAssumption
<1>4. CASE pruning.at[c].on
  <2>1. CompactInv(c)
    BY <1>4 DEF PruneInv, PrunerInv
  <2>2. Len(pruning.at[c].before) + Len(pruning.at[c].kept) < PoolSize
    BY <2>1 DEF CompactInv
  <2>3. Held(c) = Len(pruning.at[c].before) + Len(pruning.at[c].kept)
    BY <1>4, Zenon DEF Held
  <2>4. \A x, y \in Nat : x + y < PoolSize => x + y \in 0..PoolSize
    BY <1>3
  <2> QED BY <1>2, <2>2, <2>3, <2>4, Zenon
<1>5. CASE ~pruning.at[c].on
  <2>1. Size(c) \in 0..(PoolSize - 1)
    BY DEF PoolInv
  <2> QED BY <1>3, <1>5, <2>1 DEF Held
<1> QED BY <1>4, <1>5

(* The same after a step.                                                 *)
LEMMA HeldNext == TypeInv' /\ PoolInv' /\ PruneInv' => HeldAll' \in Sizes
<1>1. TypeInv /\ PoolInv /\ PruneInv => HeldAll \in Sizes
  BY HeldIs
<1>2. (TypeInv /\ PoolInv /\ PruneInv => HeldAll \in Sizes)'
  BY <1>1, PTL
<1> QED BY <1>2 DEF Sizes

(* Outside a collection everything is in the pools.                        *)
LEMMA HeldRemaining ==
  ASSUME TypeInv, \A c \in SparkCaps : ~pruning.at[c].on
  PROVE  Cardinality(Tokens(HeldAll)) = Remaining
<1>1. \A x \in SparkCaps \X (1..PoolSize) : HeldAll[x[1]] = Size(x[1])
  BY DEF HeldAll, Held
<1> QED BY <1>1 DEF Tokens, Remaining

(* What hangs on the pools and the collection only.                        *)
LEMMA SamePools ==
  ASSUME UNCHANGED <<pools, pruning>>
  PROVE  /\ PoolInv' = PoolInv /\ HeldAll' = HeldAll /\ Tokens(HeldAll)' = Tokens(HeldAll)
         /\ \A c : /\ Size(c)' = Size(c) /\ Contents(c)' = Contents(c) /\ CompactInv(c)' = CompactInv(c)
<1>1. \A c : Size(c)' = Size(c)
  BY DEF Size
<1>2. \A c : Contents(c)' = Contents(c)
  BY <1>1 DEF Contents
<1>3. \A c : CompactInv(c)' = CompactInv(c)
  BY DEF CompactInv, At
<1>4. HeldAll' = HeldAll
  BY <1>1 DEF HeldAll, Held
<1> QED BY <1>1, <1>2, <1>3, <1>4 DEF PoolInv, Tokens

(* And what hangs on what has been evaluated or freed as well.             *)
LEMMA SameHeap ==
  ASSUME UNCHANGED <<pools, closure, pruning>>, PruneInv, LiveInv
  PROVE  PruneInv' /\ LiveInv'
<1>1. \A x : Survives(x)' = Survives(x)
  BY DEF Survives
<1>2. PruneInv'
  BY <1>1, SamePools DEF PruneInv, PrunerInv
<1>3. LiveInv'
  BY SamePools DEF LiveInv
<1> QED BY <1>2, <1>3

(* The Capabilities are numbered; a pool has room.                         *)
LEMMA CapsAre == SparkCaps \subseteq Nat /\ IsFiniteSet(SparkCaps) /\ PoolSize \in Nat /\ PoolSize > 1
<1>1. Cardinality(SparkCaps) \in Nat
  BY SparksAssumption, FS_CardinalityType
<1> QED BY <1>1, SparksAssumption

----------------------------------------------------------------------------
(* findSpark *)

(* What a Capability does in findSpark until it has a spark.               *)
LEMMA FinderSteps ==
  ASSUME IInv, NEW c \in SparkCaps, FindSpark(c) \/ StealReads(c) \/ Missed(c) \/ NextVictim(c)
  PROVE  IInv'
<1>1. UNCHANGED <<pools, closure, counts, pruning>>
  BY DEF FindSpark, StealReads, Missed, NextVictim
<1>2. 0 \in Nat /\ SparkCaps \subseteq Nat /\ NoSpark \in Spark /\ finder[c] \in FinderRec
  BY CapsAre DEF IInv, TypeInv, Spark
<1>3. pruning.phase = "none" /\ finder[c].pc # "got"
  BY DEF FindSpark, StealReads, Missed, NextVictim, Mutates, Finding, IInv, FinderInv
<1>4. PICK f \in FinderRec :
        /\ finder' = [finder EXCEPT ![c] = f] /\ f.pc # "got"
        /\ f.pc \in {"steal", "cas", "missed"} => f.robbed \in SparkCaps
        /\ f.pc = "cas" => f.top <= pools[f.robbed].top /\ f.top < pools[f.robbed].bottom
  <2>1. CASE FindSpark(c)
    <3>1. FromOwn(c) \in FinderRec /\ FromOwn(c).pc = "steal" /\ FromOwn(c).robbed = c
      BY <1>2 DEF FromOwn, NotFinding, FinderRec
    <3>2. finder' = [finder EXCEPT ![c] = FromOwn(c)]
      BY <2>1 DEF FindSpark
    <3> QED BY <3>1, <3>2
  <2>2. CASE StealReads(c)
    <3> DEFINE r == finder[c].robbed
               pl == pools[r]
               g == [finder[c] EXCEPT !.pc = "cas", !.top = pl.top, !.spark = pl.elements[pl.top % PoolSize]]
    <3>1. finder[c].pc = "steal" /\ r \in SparkCaps
      BY <2>2 DEF StealReads, Finding, IInv, FinderInv
    <3>2. pl \in PoolRec /\ pl.top % PoolSize \in Slots
      BY <3>1, ContentsIs DEF IInv, TypeInv
    <3>3. CASE Empty(r)
      <4>1. finder' = [finder EXCEPT ![c] = [finder[c] EXCEPT !.pc = "missed"]]
        BY <2>2, <3>3 DEF StealReads
      <4>2. [finder[c] EXCEPT !.pc = "missed"] \in FinderRec /\ [finder[c] EXCEPT !.pc = "missed"].robbed = r
            /\ [finder[c] EXCEPT !.pc = "missed"].pc = "missed"
        BY <1>2 DEF FinderRec
      <4> QED BY <3>1, <4>1, <4>2
    <3>4. CASE ~Empty(r)
      <4>1. finder' = [finder EXCEPT ![c] = g]
        BY <2>2, <3>4 DEF StealReads
      <4>2. pl.top \in Nat /\ pl.bottom \in Nat /\ pl.elements[pl.top % PoolSize] \in Spark
        BY <3>2 DEF PoolRec
      <4>3. g \in FinderRec /\ g.robbed = r /\ g.pc = "cas" /\ g.top = pl.top
        BY <1>2, <4>2 DEF FinderRec
      <4>4. pl.top < pl.bottom
        BY <3>4, <4>2 DEF Empty, Size
      <4>5. g.top <= pools[g.robbed].top /\ g.top < pools[g.robbed].bottom
        BY <4>2, <4>3, <4>4
      <4> HIDE DEF g
      <4> QED BY <3>1, <4>1, <4>3, <4>5
    <3> QED BY <3>3, <3>4
  <2>3. CASE Missed(c)
    <3> DEFINE q == IF Cardinality(SparkCaps) = 1 THEN "none" ELSE "next"
               r == IF finder[c].robbed = c THEN 0 ELSE finder[c].robbed + 1
               y == finder[c].retry \/ ~Empty(finder[c].robbed)
               g == [finder[c] EXCEPT !.pc = q, !.robbed = r, !.retry = y]
    <3>1. finder' = [finder EXCEPT ![c] = g]
      BY <2>3 DEF Missed
    <3>2. q \in {"none", "next"} /\ r \in Nat
      BY <1>2 DEF FinderRec
    <3>3. y \in BOOLEAN
      OBVIOUS
    <3> HIDE DEF q, r, y
    <3>4. g \in FinderRec /\ g.pc \in {"none", "next"}
      BY <1>2, <3>2, <3>3 DEF FinderRec
    <3> HIDE DEF g
    <3> QED BY <3>1, <3>4
  <2>4. CASE NextVictim(c)
    <3> DEFINE r == finder[c].robbed
               further == [finder[c] EXCEPT !.robbed = @ + 1]
               chosen == [finder[c] EXCEPT !.pc = "steal"]
    <3>1. finder[c].pc = "next"
      BY <2>4 DEF NextVictim, Finding
    <3>2. /\ FromOwn(c) \in FinderRec /\ FromOwn(c).pc = "steal" /\ FromOwn(c).robbed = c
          /\ NotFinding \in FinderRec /\ NotFinding.pc = "none"
      BY <1>2 DEF FromOwn, NotFinding, FinderRec
    <3>3. /\ further \in FinderRec /\ further.pc = "next"
          /\ chosen \in FinderRec /\ chosen.pc = "steal" /\ chosen.robbed = r
      BY <1>2, <3>1 DEF FinderRec
    <3>4. \/ finder' = [finder EXCEPT ![c] = FromOwn(c)] \/ finder' = [finder EXCEPT ![c] = NotFinding]
          \/ finder' = [finder EXCEPT ![c] = further]
          \/ r \in SparkCaps /\ finder' = [finder EXCEPT ![c] = chosen]
      BY <2>4 DEF NextVictim
    <3> HIDE DEF further, chosen
    <3> QED BY <1>2, <3>2, <3>3, <3>4
  <2> QED BY <2>1, <2>2, <2>3, <2>4
<1>5. TypeInv'
  BY <1>1, <1>4 DEF IInv, TypeInv
<1>6. \A d \in SparkCaps : finder'[d] = IF d = c THEN f ELSE finder[d]
  BY <1>4 DEF IInv, TypeInv
<1>7. FinderInv'
  BY <1>1, <1>3, <1>4, <1>6 DEF IInv, FinderInv
<1>8. InHand' = InHand
  <2>1. \A d \in SparkCaps : Finding(d, "got")' <=> Finding(d, "got")
    BY <1>3, <1>4, <1>6 DEF Finding
  <2> QED BY <2>1 DEF InHand
<1>9. PoolInv' /\ PruneInv' /\ LiveInv' /\ CountInv'
  BY <1>1, <1>8, SamePools, SameHeap DEF IInv, CountInv
<1> QED BY <1>5, <1>7, <1>9 DEF IInv

(* The spark in somebody's hand is counted when it is used.                *)
LEMMA StealStep ==
  ASSUME IInv, NEW c \in SparkCaps, Steal(c)
  PROVE  IInv'
<1>1. UNCHANGED <<pools, closure, pruning>> /\ finder[c].pc = "got" /\ counts' = [counts EXCEPT !.gone = @ + 1]
  BY DEF Steal, Count, Finding
<1>2. finder[c] \in FinderRec /\ NoSpark \in Spark /\ 0 \in Nat
  BY DEF IInv, TypeInv, Spark
<1>3. PICK f \in FinderRec : finder' = [finder EXCEPT ![c] = f] /\ f.pc \in {"none", "steal"}
                            /\ (f.pc = "steal" => f.robbed = finder[c].robbed)
  <2> DEFINE g == [finder[c] EXCEPT !.pc = "steal", !.spark = NoSpark]
  <2>1. g \in FinderRec /\ g.pc = "steal" /\ g.robbed = finder[c].robbed
    BY <1>2 DEF FinderRec
  <2>2. NotFinding \in FinderRec /\ NotFinding.pc = "none"
    BY <1>2 DEF NotFinding, FinderRec
  <2>3. finder' = [finder EXCEPT ![c] = g] \/ finder' = [finder EXCEPT ![c] = NotFinding]
    BY DEF Steal
  <2> HIDE DEF g
  <2> QED BY <2>1, <2>2, <2>3
<1>4. TypeInv'
  BY <1>1, <1>3 DEF IInv, TypeInv
<1>5. \A d \in SparkCaps : finder'[d] = IF d = c THEN f ELSE finder[d]
  BY <1>3 DEF IInv, TypeInv
<1>6. FinderInv'
  BY <1>1, <1>3, <1>5 DEF IInv, FinderInv
<1>7. InHand' = InHand - 1 /\ InHand \in Nat
  <2> DEFINE G == {d \in SparkCaps : Finding(d, "got")}
  <2>1. G' = G \ {c} /\ c \in G
    BY <1>1, <1>3, <1>5 DEF Finding
  <2>2. IsFiniteSet(G)
    BY SparksAssumption, FS_Subset
  <2>3. Cardinality(G \ {c}) = Cardinality(G) - 1 /\ Cardinality(G) \in Nat
    BY <2>1, <2>2, FS_RemoveElement, FS_CardinalityType
  <2> QED BY <2>1, <2>3 DEF InHand
<1>8. Cardinality(Tokens(HeldAll)) \in Nat
  BY HeldIs, TokensFinite DEF IInv
<1>9. Tokens(HeldAll)' = Tokens(HeldAll)
  BY <1>1, SamePools
<1>10. counts'.created = counts.created /\ counts'.gone = counts.gone + 1 /\ counts.created \in Nat /\ counts.gone \in Nat
  BY <1>1 DEF IInv, TypeInv
<1>11. CountInv'
  BY <1>7, <1>8, <1>9, <1>10 DEF IInv, CountInv
<1>12. PoolInv' /\ PruneInv' /\ LiveInv'
  BY <1>1, SamePools, SameHeap DEF IInv
<1> QED BY <1>4, <1>6, <1>11, <1>12 DEF IInv

(* Taking the spark in front.                                              *)
LEMMA StealCasStep ==
  ASSUME IInv, NEW c \in SparkCaps, StealCas(c)
  PROVE  IInv'
<1>0. PICK r \in SparkCaps : r = finder[c].robbed
  BY DEF StealCas, Finding, IInv, FinderInv
<1> DEFINE f == finder[c]
           won == pools[r].top = f.top
           g == [f EXCEPT !.pc = IF won THEN "got" ELSE "missed", !.spark = IF won THEN @ ELSE NoSpark, !.top = 0]
<1>1. /\ UNCHANGED <<closure, counts, pruning>> /\ f.pc = "cas" /\ pruning.phase = "none"
      /\ f.top < pools[r].bottom
  BY <1>0 DEF StealCas, Finding, IInv, FinderInv
<1>2. f \in FinderRec /\ NoSpark \in Spark /\ 0 \in Nat
  BY DEF IInv, TypeInv, Spark
<1>3. finder' = [finder EXCEPT ![c] = g]
  BY <1>0 DEF StealCas
<1>4. g \in FinderRec /\ g.robbed = r /\ g.pc = IF won THEN "got" ELSE "missed"
  BY <1>0, <1>2 DEF FinderRec
<1>5. \A d \in SparkCaps : finder'[d] = IF d = c THEN g ELSE finder[d]
  BY <1>3 DEF IInv, TypeInv
<1>6. \A d \in SparkCaps : pools[d] \in PoolRec /\ pools[d].top \in Nat /\ pools[d].bottom \in Nat
  BY DEF IInv, TypeInv, PoolRec
<1>7. CASE ~won
  <2>1. UNCHANGED <<pools, closure, counts, pruning>>
    BY <1>0, <1>1, <1>7 DEF StealCas
  <2>2. TypeInv'
    BY <1>3, <1>4, <2>1 DEF IInv, TypeInv
  <2>3. g.pc = "missed"
    BY <1>4, <1>7
  <2> HIDE DEF g, won
  <2>4. FinderInv'
    BY <1>1, <1>4, <1>5, <2>1, <2>3 DEF IInv, FinderInv
  <2>5. InHand' = InHand
    <3>1. \A d \in SparkCaps : Finding(d, "got")' <=> Finding(d, "got")
      BY <1>1, <1>5, <2>3 DEF Finding
    <3> QED BY <3>1 DEF InHand
  <2> QED BY <2>1, <2>2, <2>4, <2>5, SamePools, SameHeap DEF IInv, CountInv
<1>8. CASE won
  <2>1. pools' = [pools EXCEPT ![r].top = @ + 1]
    BY <1>0, <1>8 DEF StealCas
  <2>2. \A d \in SparkCaps : /\ pools'[d].top = IF d = r THEN pools[d].top + 1 ELSE pools[d].top
                             /\ pools'[d].bottom = pools[d].bottom /\ pools'[d].elements = pools[d].elements
    BY <1>1, <1>6, <2>1 DEF IInv, TypeInv, PoolRec
  <2>3. pools[r].top < pools[r].bottom
    BY <1>1, <1>8
  <2>4. g.pc = "got"
    BY <1>4, <1>8
  <2>5. TypeInv'
    <3>1. pools' \in [SparkCaps -> PoolRec]
      BY <1>6, <2>1 DEF IInv, TypeInv, PoolRec
    <3> HIDE DEF g, won
    <3>2. finder' \in [SparkCaps -> FinderRec]
      BY <1>3, <1>4 DEF IInv, TypeInv
    <3> QED BY <1>1, <3>1, <3>2 DEF IInv, TypeInv
  <2> HIDE DEF g, won
  <2>6. PoolInv'
    <3> SUFFICES ASSUME NEW d \in SparkCaps PROVE (pools'[d].bottom - pools'[d].top) \in 0..(PoolSize - 1)
      BY DEF PoolInv, Size
    <3>1. (pools[d].bottom - pools[d].top) \in 0..(PoolSize - 1)
      BY DEF IInv, PoolInv, Size
    <3>2. pools'[d].bottom = pools[d].bottom /\ pools'[d].top = IF d = r THEN pools[d].top + 1 ELSE pools[d].top
      BY <2>2
    <3> QED BY <1>6, <2>3, <3>1, <3>2, CapsAre
  <2>7. FinderInv'
    <3> SUFFICES ASSUME NEW d \in SparkCaps
                 PROVE  /\ finder'[d].pc \in {"steal", "cas", "got", "missed"} => finder'[d].robbed \in SparkCaps
                        /\ finder'[d].pc = "cas" => /\ finder'[d].top <= pools'[finder'[d].robbed].top
                                                    /\ finder'[d].top < pools'[finder'[d].robbed].bottom
      BY <1>1 DEF FinderInv
    <3>1. CASE d = c
      BY <1>1, <1>4, <1>5, <2>4, <3>1
    <3>2. CASE d # c
      <4>1. finder'[d] = finder[d] /\ finder[d].top \in Nat
        BY <1>5, <3>2 DEF IInv, TypeInv, FinderRec
      <4>2. /\ finder[d].pc \in {"steal", "cas", "got", "missed"} => finder[d].robbed \in SparkCaps
            /\ finder[d].pc = "cas" => /\ finder[d].top <= pools[finder[d].robbed].top
                                       /\ finder[d].top < pools[finder[d].robbed].bottom
        BY DEF IInv, FinderInv
      <4> QED BY <1>6, <2>2, <4>1, <4>2
    <3> QED BY <3>1, <3>2
  <2>8. PruneInv'
    BY <1>1 DEF IInv, PruneInv, PrunerInv
  <2>9. LiveInv'
    <3> SUFFICES ASSUME NEW d \in SparkCaps, NEW n \in 1..Size(d)'
                 PROVE  Contents(d)'[n] \in Sparkable /\ closure[Contents(d)'[n]] # "freed"
      BY <1>1 DEF LiveInv
    <3>1. PICK m \in 1..Size(d) : pools'[d].top + n - 1 = pools[d].top + m - 1
      <4>1. CASE d = r
        <5>1. Size(d)' = Size(d) - 1 /\ Size(d) \in Nat
          BY <1>6, <2>2, <2>3, <4>1 DEF Size
        <5>2. n + 1 \in 1..Size(d) /\ pools'[d].top + n - 1 = pools[d].top + (n + 1) - 1
          BY <1>6, <2>2, <4>1, <5>1
        <5> QED BY <5>2
      <4>2. CASE d # r
        BY <2>2, <4>2 DEF Size
      <4> QED BY <4>1, <4>2
    <3>2. Contents(d)'[n] = Contents(d)[m]
      BY <2>2, <3>1 DEF Contents
    <3> QED BY <1>1, <3>2 DEF IInv, LiveInv
  <2>10. InHand' = InHand + 1 /\ InHand \in Nat
    <3> DEFINE G == {d \in SparkCaps : Finding(d, "got")}
    <3>1. G' = G \cup {c} /\ c \notin G
      BY <1>1, <1>5, <2>4 DEF Finding
    <3>2. IsFiniteSet(G)
      BY CapsAre, FS_Subset
    <3>3. Cardinality(G \cup {c}) = Cardinality(G) + 1 /\ Cardinality(G) \in Nat
      BY <3>1, <3>2, FS_AddElement, FS_CardinalityType
    <3> QED BY <3>1, <3>3 DEF InHand
  <2>11. HeldAll \in Sizes /\ HeldAll' \in Sizes
    BY <2>5, <2>6, <2>8, HeldIs, HeldNext DEF IInv
  <2>12. HeldAll[r] = HeldAll'[r] + 1 /\ \A d \in SparkCaps \ {r} : HeldAll'[d] = HeldAll[d]
    <3>1. \A d \in SparkCaps : Held(d) = Size(d) /\ Held(d)' = Size(d)'
      BY <1>1 DEF IInv, PruneInv, Held
    <3>2. Size(r) = Size(r)' + 1 /\ \A d \in SparkCaps \ {r} : Size(d)' = Size(d)
      BY <1>1, <1>6, <2>2 DEF Size
    <3> QED BY <1>1, <3>1, <3>2 DEF HeldAll
  <2>13. Cardinality(Tokens(HeldAll)) = Cardinality(Tokens(HeldAll')) + 1 /\ Cardinality(Tokens(HeldAll')) \in Nat
    BY <1>1, <2>11, <2>12, TokensMore, TokensFinite
  <2>14. Tokens(HeldAll)' = Tokens(HeldAll')
    BY DEF Tokens
  <2>15. CountInv'
    BY <1>1, <2>10, <2>13, <2>14 DEF IInv, TypeInv, CountInv
  <2> QED BY <2>5, <2>6, <2>7, <2>8, <2>9, <2>15 DEF IInv
<1> QED BY <1>7, <1>8

----------------------------------------------------------------------------
(* Haskell code *)

(* What a collection does not concern stays out of PruneInv.               *)
LEMMA NoPruning ==
  ASSUME PruneInv, pruning.phase = "none", UNCHANGED pruning
  PROVE  PruneInv' /\ \A c \in SparkCaps : Held(c) = Size(c) /\ Held(c)' = Size(c)'
<1>1. PruneInv'
  BY DEF PruneInv, PrunerInv
<1>2. \A c \in SparkCaps : ~pruning.at[c].on
  BY DEF PruneInv
<1> QED BY <1>1, <1>2 DEF Held

(* A spark goes behind the last one.                                       *)
LEMMA PushStep ==
  ASSUME IInv, NEW c \in SparkCaps, NEW s \in Sparkable, NewSpark(c, s), ~Fizzled(s), ~Full(c)
  PROVE  IInv'
<1> DEFINE b == pools[c].bottom
<1>1. /\ UNCHANGED <<closure, finder, pruning>> /\ pruning.phase = "none" /\ closure[s] # "freed"
      /\ pools' = [pools EXCEPT ![c].elements[b % PoolSize] = s, ![c].bottom = @ + 1]
      /\ counts' = [counts EXCEPT !.created = @ + 1]
  BY DEF NewSpark, Mutates, Count
<1>2. \A d \in SparkCaps : /\ pools[d] \in PoolRec /\ pools[d].top \in Nat /\ pools[d].bottom \in Nat
                           /\ pools[d].elements \in [Slots -> Spark]
                           /\ Size(d) \in 0..(PoolSize - 1) /\ pools[d].bottom - pools[d].top = Size(d)
  BY DEF IInv, TypeInv, PoolInv, PoolRec, Size
<1>3. b % PoolSize \in Slots /\ s \in Spark
  BY <1>2, CapsAre DEF Slots, Spark
<1> DEFINE e == [pools[c].elements EXCEPT ![b % PoolSize] = s]
<1>4. pools'[c] = [pools[c] EXCEPT !.elements = e, !.bottom = b + 1]
      /\ \A d \in SparkCaps \ {c} : pools'[d] = pools[d]
  BY <1>1 DEF IInv, TypeInv
<1>5. pools'[c].top = pools[c].top /\ pools'[c].bottom = b + 1 /\ pools'[c].elements = e
  BY <1>2, <1>4 DEF PoolRec
<1>6. TypeInv'
  <2>1. e \in [Slots -> Spark]
    BY <1>2, <1>3
  <2>2. pools'[c] \in PoolRec
    <3>1. pools[c] \in PoolRec /\ b + 1 \in Nat
      BY <1>2
    <3> HIDE DEF e, b
    <3> QED BY <1>4, <2>1, <3>1 DEF PoolRec
  <2>3. pools' \in [SparkCaps -> PoolRec]
    BY <1>1, <1>2, <1>4, <2>2 DEF IInv, TypeInv
  <2>4. counts' \in [created : Nat, dud : Nat, gone : Nat]
    BY <1>1 DEF IInv, TypeInv
  <2> QED BY <1>1, <2>3, <2>4 DEF IInv, TypeInv
<1>7. \A d \in SparkCaps : Size(d)' = IF d = c THEN Size(d) + 1 ELSE Size(d)
  <2>1. Size(c)' = Size(c) + 1
    BY <1>2, <1>5 DEF Size
  <2>2. \A d \in SparkCaps \ {c} : Size(d)' = Size(d)
    BY <1>4 DEF Size
  <2> QED BY <2>1, <2>2
<1>8. Size(c) + 1 \in 0..(PoolSize - 1)
  BY <1>2, CapsAre DEF Full
<1>9. PoolInv'
  BY <1>2, <1>7, <1>8 DEF PoolInv
<1>10. FinderInv'
  <2>1. \A d \in SparkCaps : pools'[d].top = pools[d].top /\ pools'[d].bottom \in Nat /\ pools[d].bottom <= pools'[d].bottom
    <3>1. pools'[c].top = pools[c].top /\ pools'[c].bottom \in Nat /\ pools[c].bottom <= pools'[c].bottom
      BY <1>2, <1>5
    <3>2. ASSUME NEW d \in SparkCaps \ {c}
          PROVE  pools'[d].top = pools[d].top /\ pools'[d].bottom \in Nat /\ pools[d].bottom <= pools'[d].bottom
      BY <1>2, <1>4
    <3> QED BY <3>1, <3>2
  <2>2. \A d \in SparkCaps : finder[d].top \in Nat
    BY DEF IInv, TypeInv, FinderRec
  <2> SUFFICES ASSUME NEW d \in SparkCaps
               PROVE  /\ finder[d].pc \in {"steal", "cas", "got", "missed"} => finder[d].robbed \in SparkCaps
                      /\ finder[d].pc = "cas" => /\ finder[d].top <= pools'[finder[d].robbed].top
                                                 /\ finder[d].top < pools'[finder[d].robbed].bottom
    BY <1>1 DEF FinderInv
  <2>3. /\ finder[d].pc \in {"steal", "cas", "got", "missed"} => finder[d].robbed \in SparkCaps
        /\ finder[d].pc = "cas" => /\ finder[d].top <= pools[finder[d].robbed].top
                                   /\ finder[d].top < pools[finder[d].robbed].bottom
    BY DEF IInv, FinderInv
  <2> QED BY <1>2, <2>1, <2>2, <2>3
<1>11. LiveInv'
  <2> SUFFICES ASSUME NEW d \in SparkCaps, NEW n \in 1..Size(d)'
               PROVE  Contents(d)'[n] \in Sparkable /\ closure[Contents(d)'[n]] # "freed"
    BY <1>1 DEF LiveInv
  <2>1. Contents(d)'[n] = pools'[d].elements[(pools'[d].top + n - 1) % PoolSize]
    BY DEF Contents
  <2>2. CASE n \in 1..Size(d)
    <3>1. d = c => (pools[d].top + n - 1) % PoolSize # b % PoolSize
      <4> DEFINE a == pools[d].top % PoolSize
      <4>1. n \in 1..Size(d) /\ n - 1 \in 0..PoolSize /\ Size(d) \in 0..PoolSize /\ n - 1 < Size(d) /\ Size(d) < PoolSize
        BY <1>2, <2>2, CapsAre
      <4>2. a \in Slots /\ (pools[d].top + (n - 1)) % PoolSize = Around(a + (n - 1))
            /\ (pools[d].top + Size(d)) % PoolSize = Around(a + Size(d))
        <5>1. (n - 1) \in 0..PoolSize /\ n - 1 < PoolSize /\ Size(d) \in 0..PoolSize /\ Size(d) < PoolSize
          BY <4>1, CapsAre
        <5>2. pools[d].top \in Nat
          BY <1>2
        <5> QED BY <5>1, <5>2, AroundIs
      <4>3. Around(a + (n - 1)) # Around(a + Size(d))
        <5> HIDE DEF a
        <5>1. (n - 1) - Size(d) < PoolSize /\ Size(d) - (n - 1) < PoolSize /\ n - 1 # Size(d)
          BY <4>1, CapsAre
        <5> QED BY <4>1, <4>2, <5>1, SlotsDiffer
      <4>4. pools[d].top + n - 1 = pools[d].top + (n - 1) /\ pools[d].bottom = pools[d].top + Size(d)
        BY <1>2, <4>1
      <4> QED BY <4>2, <4>3, <4>4
    <3>2. (pools[d].top + n - 1) % PoolSize \in Slots
      BY <1>2, <2>2, CapsAre DEF Slots
    <3>3. Contents(d)'[n] = pools[d].elements[(pools[d].top + n - 1) % PoolSize]
      <4>1. CASE d = c
        BY <1>2, <1>5, <2>1, <3>1, <3>2, <4>1
      <4>2. CASE d # c
        BY <1>4, <2>1, <4>2
      <4> QED BY <4>1, <4>2
    <3>4. Contents(d)'[n] = Contents(d)[n]
      BY <2>2, <3>3 DEF Contents
    <3> QED BY <1>1, <2>2, <3>4 DEF IInv, LiveInv
  <2>3. CASE n \notin 1..Size(d)
    <3>1. d = c /\ n = Size(c) + 1
      BY <1>2, <1>7, <1>8, <2>3
    <3>2. pools'[c].top + n - 1 = b
      BY <1>2, <1>5, <3>1
    <3>3. pools'[c].elements[b % PoolSize] = s
      BY <1>2, <1>3, <1>5
    <3> QED BY <1>1, <2>1, <3>1, <3>2, <3>3 DEF Fizzled
  <2> QED BY <2>2, <2>3
<1>12. PruneInv' /\ \A d \in SparkCaps : Held(d) = Size(d) /\ Held(d)' = Size(d)'
  BY <1>1, NoPruning DEF IInv
<1>13. Cardinality(Tokens(HeldAll')) = Cardinality(Tokens(HeldAll)) + 1 /\ Cardinality(Tokens(HeldAll)) \in Nat
  <2>1. HeldAll \in Sizes /\ HeldAll' \in Sizes
    BY <1>6, <1>9, <1>12, HeldIs, HeldNext DEF IInv
  <2>2. HeldAll'[c] = HeldAll[c] + 1 /\ \A d \in SparkCaps \ {c} : HeldAll'[d] = HeldAll[d]
    BY <1>7, <1>12 DEF HeldAll
  <2> QED BY <2>1, <2>2, TokensMore, TokensFinite
<1>14. CountInv'
  <2>1. Tokens(HeldAll)' = Tokens(HeldAll') /\ InHand' = InHand
    BY <1>1 DEF Tokens, InHand, Finding
  <2>2. counts'.created = counts.created + 1 /\ counts'.gone = counts.gone /\ counts.created \in Nat /\ counts.gone \in Nat
    BY <1>1 DEF IInv, TypeInv
  <2>3. InHand \in Nat
    <3>1. IsFiniteSet({d \in SparkCaps : Finding(d, "got")})
      BY CapsAre, FS_Subset
    <3> QED BY <3>1, FS_CardinalityType DEF InHand
  <2> QED BY <1>13, <2>1, <2>2, <2>3 DEF IInv, CountInv
<1> QED BY <1>1, <1>6, <1>9, <1>10, <1>11, <1>12, <1>14 DEF IInv

(* A spark is made, where there is room for it; a thunk is evaluated.      *)
LEMMA HaskellSteps ==
  ASSUME IInv, NEW s \in Sparkable, (\E c \in Sparkers : NewSpark(c, s)) \/ Evaluate(s)
  PROVE  IInv'
<1>1. CASE Evaluate(s)
  <2>1. /\ UNCHANGED <<pools, finder, counts, pruning>> /\ pruning.phase = "none"
        /\ closure' = [closure EXCEPT ![s] = "value"]
    BY <1>1 DEF Evaluate
  <2>2. TypeInv' /\ FinderInv' /\ LiveInv'
    BY <2>1, SamePools DEF IInv, TypeInv, Closure, FinderInv, LiveInv
  <2>3. CountInv' /\ PoolInv'
    BY <2>1, SamePools DEF IInv, CountInv, InHand, Finding
  <2>4. PruneInv'
    BY <2>1, NoPruning DEF IInv
  <2> QED BY <2>2, <2>3, <2>4 DEF IInv
<1>2. CASE \E c \in Sparkers : NewSpark(c, s)
  <2>1. PICK c \in SparkCaps : NewSpark(c, s)
    BY <1>2, SparksAssumption
  <2>2. CASE ~Fizzled(s) /\ ~Full(c)
    BY <2>1, <2>2, PushStep
  <2>3. CASE Fizzled(s) \/ Full(c)
    <3>1. UNCHANGED <<pools, closure, finder, pruning>> /\ counts' = [counts EXCEPT !.dud = @ + 1]
      BY <2>1, <2>3 DEF NewSpark, Count
    <3>2. counts' \in [created : Nat, dud : Nat, gone : Nat] /\ counts'.created = counts.created /\ counts'.gone = counts.gone
      BY <3>1 DEF IInv, TypeInv
    <3>3. TypeInv' /\ FinderInv'
      BY <3>1, <3>2 DEF IInv, TypeInv, FinderInv
    <3>4. CountInv'
      BY <3>1, <3>2, SamePools DEF IInv, CountInv, InHand, Finding
    <3> QED BY <3>1, <3>3, <3>4, SamePools, SameHeap DEF IInv
  <2> QED BY <2>2, <2>3
<1> QED BY <1>1, <1>2

----------------------------------------------------------------------------
(* The collection *)

(* While the pools are pruned nobody is in findSpark, and what is in them   *)
(* does not count.                                                         *)
LEMMA WhilePruning ==
  ASSUME IInv, pruning.phase # "none", pruning'.phase # "none", UNCHANGED finder
  PROVE  FinderInv' /\ LiveInv' /\ InHand' = InHand /\ InHand = 0
<1>1. \A c \in SparkCaps : finder[c].pc = "none"
  BY DEF IInv, FinderInv
<1>2. InHand = Cardinality({})
  BY <1>1 DEF InHand, Finding
<1>3. InHand = 0
  BY <1>2, FS_EmptySet
<1> QED BY <1>1, <1>3 DEF FinderInv, LiveInv, InHand, Finding

(* A collection begins when nobody has a spark in hand.                    *)
LEMMA BeginStep ==
  ASSUME IInv, NEW stopped, Begin(stopped)
  PROVE  /\ UNCHANGED <<closure, finder>> /\ pruning'.phase = "trace"
         /\ pruning' \in [phase : {"none", "trace", "shutdown"}, reached : SUBSET Sparkable, idle : SUBSET SparkCaps,
                          done : SUBSET SparkCaps, left : Nat, at : [SparkCaps -> PrunerRec]]
         /\ \A c \in SparkCaps : ~pruning.at[c].on /\ ~pruning'.at[c].on
         /\ FinderInv' /\ PruneInv' /\ LiveInv' /\ InHand = 0 /\ InHand' = 0
<1>1. /\ UNCHANGED <<closure, finder>> /\ pruning.phase = "none" /\ pruning.left \in Nat \ {0}
      /\ \A c \in SparkCaps : finder[c].pc = "none"
  BY DEF Begin, Finding, IInv, TypeInv
<1>2. PICK reached \in SUBSET Sparkable, idle \in SUBSET SparkCaps :
        pruning' = [pruning EXCEPT !.phase = "trace", !.reached = reached, !.idle = idle, !.done = {},
                                   !.left = IF stopped THEN 0 ELSE @ - 1]
  BY DEF Begin
<1> DEFINE n == IF stopped THEN 0 ELSE pruning.left - 1
<1>3. pruning' = [pruning EXCEPT !.phase = "trace", !.reached = reached, !.idle = idle, !.done = {}, !.left = n]
  BY <1>2
<1>4. n \in Nat
  BY <1>1
<1> HIDE DEF n
<1>5. pruning'.phase = "trace" /\ pruning'.done = {} /\ pruning'.at = pruning.at
  BY <1>3 DEF IInv, TypeInv
<1>6. pruning' \in [phase : {"none", "trace", "shutdown"}, reached : SUBSET Sparkable, idle : SUBSET SparkCaps,
                    done : SUBSET SparkCaps, left : Nat, at : [SparkCaps -> PrunerRec]]
  BY <1>3, <1>4 DEF IInv, TypeInv
<1>7. \A c \in SparkCaps : ~pruning.at[c].on
  BY <1>1 DEF IInv, PruneInv
<1>8. InHand = 0 /\ InHand' = 0
  <2>1. InHand = Cardinality({}) /\ InHand' = Cardinality({})
    BY <1>1 DEF InHand, Finding
  <2> QED BY <2>1, FS_EmptySet
<1>9. PruneInv'
  BY <1>5, <1>7 DEF PruneInv, PrunerInv
<1> QED BY <1>1, <1>5, <1>6, <1>7, <1>8, <1>9 DEF FinderInv, LiveInv

(* It leaves the pools as they are, or empties all of them.                *)
LEMMA BeginSteps ==
  ASSUME IInv, StartPruning \/ DiscardSparks
  PROVE  IInv'
<1>1. CASE StartPruning
  <2>1. Begin(FALSE) /\ UNCHANGED <<pools, counts>>
    BY <1>1 DEF StartPruning
  <2>2. \A c : Size(c)' = Size(c)
    BY <2>1 DEF Size
  <2>3. \A c \in SparkCaps : Held(c)' = Held(c)
    BY <2>1, <2>2, BeginStep DEF Held
  <2>4. Tokens(HeldAll)' = Tokens(HeldAll)
    BY <2>3 DEF HeldAll, Tokens
  <2>5. TypeInv' /\ PoolInv'
    BY <2>1, <2>2, BeginStep DEF IInv, TypeInv, PoolInv
  <2>6. CountInv'
    BY <2>1, <2>4, BeginStep DEF IInv, CountInv
  <2> QED BY <2>1, <2>5, <2>6, BeginStep DEF IInv
<1>2. CASE DiscardSparks
  <2>1. /\ Begin(TRUE) /\ counts' = [counts EXCEPT !.gone = @ + Remaining]
        /\ pools' = [c \in SparkCaps |-> [pools[c] EXCEPT !.top = pools[c].bottom]]
    BY <1>2 DEF DiscardSparks
  <2>2. Remaining = Cardinality(Tokens(HeldAll)) /\ Remaining \in Nat
    BY <2>1, BeginStep, HeldRemaining, HeldIs, TokensFinite DEF IInv
  <2>3. \A c \in SparkCaps : pools'[c] \in PoolRec /\ Size(c)' = 0
    <3> SUFFICES ASSUME NEW c \in SparkCaps PROVE pools'[c] \in PoolRec /\ Size(c)' = 0
      OBVIOUS
    <3>1. pools'[c] = [pools[c] EXCEPT !.top = pools[c].bottom] /\ pools[c] \in PoolRec
      BY <2>1 DEF IInv, TypeInv
    <3>2. pools'[c] \in PoolRec /\ pools'[c].top = pools[c].bottom /\ pools'[c].bottom = pools[c].bottom
          /\ pools[c].bottom \in Nat
      BY <3>1 DEF PoolRec
    <3> QED BY <3>2 DEF Size
  <2>4. PoolInv'
    BY <2>3, CapsAre DEF PoolInv
  <2>5. TypeInv'
    <3>1. counts' \in [created : Nat, dud : Nat, gone : Nat]
      BY <2>1, <2>2 DEF IInv, TypeInv
    <3>2. pools' \in [SparkCaps -> PoolRec]
      BY <2>1, <2>3
    <3> QED BY <2>1, <3>1, <3>2, BeginStep DEF IInv, TypeInv
  <2>6. Tokens(HeldAll)' = {}
    <3>1. \A c \in SparkCaps : Held(c)' = 0
      BY <2>1, <2>3, BeginStep DEF Held
    <3>2. \A c \in SparkCaps : HeldAll'[c] = 0
      BY <3>1 DEF HeldAll
    <3>3. \A c \in SparkCaps, n \in 1..PoolSize : ~(n <= HeldAll'[c])
      BY <3>2, CapsAre
    <3> QED BY <3>3 DEF Tokens
  <2>7. CountInv'
    <3>1. Cardinality(Tokens(HeldAll)') = 0
      BY <2>6, FS_EmptySet
    <3>2. counts'.gone = counts.gone + Remaining /\ counts'.created = counts.created
          /\ counts.gone \in Nat /\ counts.created \in Nat
      BY <2>1, <2>2 DEF IInv, TypeInv
    <3>3. InHand = 0 /\ InHand' = 0
      BY <2>1, BeginStep
    <3> QED BY <2>2, <3>1, <3>2, <3>3 DEF IInv, CountInv
  <2> QED BY <2>1, <2>4, <2>5, <2>7, BeginStep DEF IInv
<1> QED BY <1>1, <1>2

(* More is reached; the workers have finished.                             *)
LEMMA TraceSteps ==
  ASSUME IInv, (\E s \in Sparkable : TraceMore(s)) \/ WorkersDone
  PROVE  IInv'
<1>1. /\ UNCHANGED <<pools, closure, finder, counts>> /\ pruning.phase = "trace"
  BY DEF TraceMore, WorkersDone
<1>2. /\ pruning'.phase \in {"trace", "shutdown"} /\ pruning'.at = pruning.at /\ pruning'.done = pruning.done
      /\ pruning.reached \subseteq pruning'.reached /\ TypeInv'
  <2>1. CASE WorkersDone
    BY <1>1, <2>1 DEF WorkersDone, IInv, TypeInv
  <2>2. CASE \E s \in Sparkable : TraceMore(s)
    <3>1. PICK s \in Sparkable : pruning' = [pruning EXCEPT !.reached = @ \cup {s}]
      BY <2>2 DEF TraceMore
    <3> QED BY <1>1, <3>1 DEF IInv, TypeInv
  <2> QED BY <2>1, <2>2
<1>3. \A c : Size(c)' = Size(c) /\ Contents(c)' = Contents(c) /\ CompactInv(c)' = CompactInv(c) /\ Held(c)' = Held(c)
  <2>1. \A c : Size(c)' = Size(c)
    BY <1>1 DEF Size
  <2>2. \A c : Contents(c)' = Contents(c)
    BY <1>1, <2>1 DEF Contents
  <2>3. \A c, i : At(c, i)' = At(c, i)
    BY <1>1 DEF At
  <2>4. \A c : CompactInv(c)' = CompactInv(c)
    BY <1>2, <2>3, Zenon DEF CompactInv
  <2>5. \A c : Held(c)' = Held(c)
    BY <1>2, <2>1 DEF Held
  <2> QED BY <2>1, <2>2, <2>4, <2>5
<1>4. \A x : Survives(x) => Survives(x)'
  BY <1>1, <1>2 DEF Survives
<1>5. PruneInv'
  BY <1>1, <1>2, <1>3, <1>4 DEF IInv, PruneInv, PrunerInv
<1>6. CountInv'
  <2>1. Tokens(HeldAll)' = Tokens(HeldAll)
    BY <1>3 DEF HeldAll, Tokens
  <2> QED BY <1>1, <1>2, <2>1, WhilePruning DEF IInv, CountInv
<1>7. PoolInv'
  BY <1>3 DEF IInv, PoolInv
<1> QED BY <1>1, <1>2, <1>5, <1>6, <1>7, WhilePruning DEF IInv

(* Where the pruning of a pool goes to, around the end of the array.       *)
LEMMA AroundTheEnd ==
  ASSUME NEW curr \in Slots, NEW r \in Nat, NEW s \in Nat, r + s < PoolSize,
         NEW old \in Slots, old = Around(curr + r), NEW bot \in Slots, bot = Around(old + s)
  PROVE  /\ r = 0 <=> curr = old
         /\ \A n \in 1..r : bot # Around(curr + n - 1) /\ Around(curr + n - 1) \in Slots
         /\ \A n \in 1..s : bot # Around(old + n - 1) /\ Around(old + n - 1) \in Slots
         /\ Wrapped(curr + 1) = Around(curr + 1) /\ Wrapped(curr + 1) \in Slots
         /\ Wrapped(bot + 1) = Around(old + (s + 1)) /\ Wrapped(bot + 1) \in Slots
         /\ (IF old <= bot THEN bot ELSE bot + PoolSize) = old + s
  BY CapsAre DEF Slots, Around, Wrapped

(* Going around the end in two moves is going around it in one.            *)
LEMMA AroundNext ==
  ASSUME NEW curr \in Slots, NEW n \in Nat, n < PoolSize
  PROVE  Around(Around(curr + 1) + n) = Around(curr + (n + 1))
  BY CapsAre DEF Slots, Around

(* The pools that are not pruned in a step are as before.                  *)
LEMMA OtherPools ==
  ASSUME NEW c, c \in SparkCaps, UNCHANGED closure, pruning'.reached = pruning.reached,
         \A d \in SparkCaps \ {c} : pools'[d] = pools[d] /\ pruning'.at[d] = pruning.at[d],
         pruning.done \subseteq pruning'.done, pruning'.done \subseteq pruning.done \cup {c},
         pruning'.phase # "none", PruneInv, PrunerInv(c)'
  PROVE  /\ PruneInv'
         /\ \A d \in SparkCaps \ {c} : Size(d)' = Size(d) /\ Held(d)' = Held(d)
<1>1. \A d \in SparkCaps \ {c} : Size(d)' = Size(d)
  BY DEF Size
<1>2. \A d \in SparkCaps \ {c} : Contents(d)' = Contents(d)
  BY <1>1 DEF Contents
<1>3. \A d \in SparkCaps \ {c} : CompactInv(d)' = CompactInv(d)
  <2> SUFFICES ASSUME NEW d \in SparkCaps \ {c} PROVE CompactInv(d)' = CompactInv(d)
    OBVIOUS
  <2>1. \A i : At(d, i)' = At(d, i)
    BY DEF At
  <2>2. pruning'.at[d] = pruning.at[d]
    OBVIOUS
  <2> QED BY <2>1, <2>2, ZenonT(30) DEF CompactInv
<1>4. \A d \in SparkCaps \ {c} : PrunerInv(d)'
  <2> SUFFICES ASSUME NEW d \in SparkCaps \ {c} PROVE PrunerInv(d)'
    OBVIOUS
  <2>1. (d \in pruning'.done <=> d \in pruning.done) /\ PrunerInv(d)
    BY DEF PruneInv
  <2>2. \A n : Survives(pruning.at[d].kept[n]) => Survives(pruning.at[d].kept[n])'
    BY DEF Survives
  <2> QED BY <1>2, <1>3, <2>1, <2>2 DEF PrunerInv
<1>5. PruneInv'
  BY <1>4 DEF PruneInv
<1> QED BY <1>1, <1>5 DEF Held

(* The indices are brought back, and what was in the pool is still there.  *)
LEMMA PruneBeginsStep ==
  ASSUME IInv, NEW c \in SparkCaps, PruneBegins(c)
  PROVE  IInv'
<1>0. PICK a, o : a = pools[c].top % PoolSize /\ o = Normalised(pools[c]).bottom % PoolSize
  OBVIOUS
<1> DEFINE p == Normalised(pools[c])
           t == pools[c].top
           q == [on |-> TRUE, curr |-> p.top, old |-> o, bot |-> o, before |-> Contents(c), kept |-> <<>>]
<1>1. /\ UNCHANGED <<closure, finder, counts>> /\ pools' = [pools EXCEPT ![c] = p]
      /\ pruning' = [pruning EXCEPT !.at[c] = q]
      /\ c \notin pruning.done /\ ~pruning.at[c].on /\ pruning.phase # "none"
  BY <1>0 DEF PruneBegins, MayPrune
<1>2. /\ Contents(c) \in Seq(Spark) /\ Len(Contents(c)) = Size(c) /\ Size(c) \in 0..(PoolSize - 1)
      /\ t \in Nat /\ pools[c].bottom = t + Size(c) /\ a \in Slots
      /\ \A n \in 1..Size(c) : Contents(c)[n] = At(c, a + n - 1)
  BY <1>0, ContentsIs DEF IInv
<1>3. pools[c] \in PoolRec
  BY DEF IInv, TypeInv
<1>4. /\ p = [pools[c] EXCEPT !.top = a, !.bottom = a + Size(c)]
      /\ p \in PoolRec /\ p.top = a /\ p.bottom = a + Size(c) /\ p.elements = pools[c].elements
  <2>1. p = [pools[c] EXCEPT !.top = a, !.bottom = pools[c].bottom - (t - a)]
    <3>1. ~(pools[c].top > pools[c].bottom)
      BY <1>2
    <3> QED BY <1>0, <3>1 DEF Normalised
  <2>2. pools[c].bottom - (t - a) = a + Size(c) /\ a \in Nat /\ a + Size(c) \in Nat
    BY <1>2, CapsAre DEF Slots
  <2> HIDE DEF p, t
  <2> QED BY <1>3, <2>1, <2>2 DEF PoolRec
<1>5. o = Around(a + Size(c)) /\ o \in Slots /\ o = Around(o)
  <2>1. a \in Nat /\ a % PoolSize = a /\ Size(c) \in 0..PoolSize /\ Size(c) < PoolSize
    <3>1. a \in 0..(PoolSize - 1) /\ PoolSize \in Nat /\ PoolSize > 1 /\ Size(c) \in 0..(PoolSize - 1)
      BY <1>2, CapsAre DEF Slots
    <3>2. \A x \in 0..(PoolSize - 1) : x \in Nat /\ x % PoolSize = x
      BY <3>1
    <3>3. Size(c) \in 0..PoolSize /\ Size(c) < PoolSize
      BY <3>1
    <3> QED BY <3>1, <3>2, <3>3
  <2>2. (a + Size(c)) % PoolSize = Around((a % PoolSize) + Size(c)) /\ a + Size(c) \in Nat
    BY <2>1, AroundIs
  <2>3. o = Around(a + Size(c))
    BY <1>0, <1>4, <2>1, <2>2
  <2>4. o \in Slots
    BY <1>0, <1>4, <2>2, CapsAre DEF Slots
  <2> QED BY <2>3, <2>4, CapsAre DEF Slots, Around
<1> HIDE DEF p
<1>6. q \in PrunerRec
  BY <1>2, <1>4, <1>5 DEF PrunerRec, Spark
<1> HIDE DEF q
<1>7. /\ pruning'.at = [pruning.at EXCEPT ![c] = q] /\ pruning'.phase = pruning.phase
      /\ pruning'.done = pruning.done /\ pruning'.reached = pruning.reached
  BY <1>1 DEF IInv, TypeInv
<1>8. TypeInv'
  BY <1>1, <1>4, <1>6 DEF IInv, TypeInv
<1>9. pools'[c] = p /\ pruning'.at[c] = q /\ \A d \in SparkCaps \ {c} : pools'[d] = pools[d] /\ pruning'.at[d] = pruning.at[d]
  BY <1>1, <1>7 DEF IInv, TypeInv
<1>10. q.on /\ q.curr = a /\ q.old = o /\ q.bot = o /\ q.before = Contents(c) /\ q.kept = <<>>
  BY <1>4 DEF q
<1>11. CompactInv(c)'
  <2>1. Len(q.before) = Size(c) /\ Len(q.kept) = 0 /\ Size(c) + 0 < PoolSize /\ o + 0 = o
    BY <1>2, <1>5, <1>10, CapsAre DEF Slots
  <2>2. \A i : At(c, i)' = At(c, i)
    BY <1>4, <1>9 DEF At
  <2>3. \A n \in 1..Size(c) : At(c, a + n - 1)' = q.before[n]
    BY <1>2, <1>10, <2>2
  <2> QED BY <1>5, <1>9, <1>10, <2>1, <2>3 DEF CompactInv
<1>12. PruneInv' /\ \A d \in SparkCaps \ {c} : Size(d)' = Size(d) /\ Held(d)' = Held(d)
  <2>1. PrunerInv(c)'
    BY <1>1, <1>7, <1>9, <1>10, <1>11 DEF PrunerInv
  <2> QED BY <1>1, <1>7, <1>9, <2>1, OtherPools DEF IInv
<1>13. Size(c)' = Size(c) /\ Held(c)' = Held(c)
  <2>1. Size(c)' = Size(c)
    BY <1>2, <1>4, <1>9, CapsAre DEF Size, Slots
  <2>2. Held(c)' = Len(q.before) + Len(q.kept)
    BY <1>9, <1>10 DEF Held
  <2>3. Held(c) = Size(c)
    BY <1>1 DEF Held
  <2> QED BY <1>2, <1>10, <2>1, <2>2, <2>3
<1>14. PoolInv'
  BY <1>12, <1>13 DEF IInv, PoolInv
<1>15. CountInv'
  <2>1. Tokens(HeldAll)' = Tokens(HeldAll)
    BY <1>12, <1>13 DEF HeldAll, Tokens
  <2> QED BY <1>1, <1>7, <2>1, WhilePruning DEF IInv, CountInv
<1> QED BY <1>1, <1>7, <1>8, <1>12, <1>14, <1>15, WhilePruning DEF IInv

(* What a pool in the middle of its pruning looks like.                    *)
LEMMA PrunerIs ==
  ASSUME IInv, NEW c \in SparkCaps, pruning.at[c].on
  PROVE  LET at == pruning.at[c]
             el == pools[c].elements
         IN  /\ pruning.phase # "none" /\ c \notin pruning.done
             /\ at \in PrunerRec /\ at.curr \in Slots /\ at.old \in Slots /\ at.bot \in Slots
             /\ at.before \in Seq(Spark) /\ at.kept \in Seq(Spark)
             /\ Len(at.before) \in Nat /\ Len(at.kept) \in Nat /\ Len(at.before) + Len(at.kept) < PoolSize
             /\ at.old = Around(at.curr + Len(at.before)) /\ at.bot = Around(at.old + Len(at.kept))
             /\ pools[c] \in PoolRec /\ el \in [Slots -> Spark]
             /\ \A n \in 1..Len(at.before) : el[Around(at.curr + n - 1)] = at.before[n]
             /\ \A n \in 1..Len(at.kept) : el[Around(at.old + n - 1)] = at.kept[n] /\ Survives(at.kept[n])
<1>1. pruning.at[c] \in PrunerRec /\ pools[c] \in PoolRec
  BY DEF IInv, TypeInv
<1>2. pruning.phase # "none" /\ PrunerInv(c)
  BY DEF IInv, PruneInv
<1>3. c \notin pruning.done /\ CompactInv(c)
      /\ \A n \in 1..Len(pruning.at[c].kept) : Survives(pruning.at[c].kept[n])
  BY <1>2 DEF PrunerInv
<1>4. PICK at, el : at = pruning.at[c] /\ el = pools[c].elements
  OBVIOUS
<1>5. /\ Len(at.before) + Len(at.kept) < PoolSize
      /\ at.old = Around(at.curr + Len(at.before)) /\ at.bot = Around(at.old + Len(at.kept))
  BY <1>3, <1>4 DEF CompactInv
<1>6. /\ \A n \in 1..Len(at.before) : el[Around(at.curr + n - 1)] = at.before[n]
      /\ \A n \in 1..Len(at.kept) : el[Around(at.old + n - 1)] = at.kept[n]
  BY <1>3, <1>4 DEF CompactInv, At
<1>7. /\ at.curr \in Slots /\ at.old \in Slots /\ at.bot \in Slots
      /\ at.before \in Seq(Spark) /\ at.kept \in Seq(Spark) /\ el \in [Slots -> Spark]
  BY <1>1, <1>4 DEF PrunerRec, PoolRec
<1>8. Len(at.before) \in Nat /\ Len(at.kept) \in Nat
  BY <1>7
<1> QED BY <1>1, <1>2, <1>3, <1>4, <1>5, <1>6, <1>7, <1>8, Zenon

(* Where an element that is kept is written nothing is lost.               *)
LEMMA PruneElementStep ==
  ASSUME IInv, NEW c \in SparkCaps, PruneElement(c)
  PROVE  IInv'
<1>1. PICK at, el : at = pruning.at[c] /\ el = pools[c].elements
  OBVIOUS
<1> DEFINE r == Len(at.before)
           s == Len(at.kept)
           spark == el[at.curr]
<1>2. at.on /\ at.curr # at.old /\ UNCHANGED <<closure, finder>>
  BY <1>1 DEF PruneElement
<1>3. /\ pruning.phase # "none" /\ c \notin pruning.done
      /\ at \in PrunerRec /\ at.curr \in Slots /\ at.old \in Slots /\ at.bot \in Slots
      /\ at.before \in Seq(Spark) /\ at.kept \in Seq(Spark)
      /\ r \in Nat /\ s \in Nat /\ r + s < PoolSize
      /\ at.old = Around(at.curr + r) /\ at.bot = Around(at.old + s)
      /\ pools[c] \in PoolRec /\ el \in [Slots -> Spark]
      /\ \A n \in 1..r : el[Around(at.curr + n - 1)] = at.before[n]
      /\ \A n \in 1..s : el[Around(at.old + n - 1)] = at.kept[n] /\ Survives(at.kept[n])
  BY <1>1, <1>2, PrunerIs
<1>4. /\ r # 0
      /\ \A n \in 1..r : at.bot # Around(at.curr + n - 1) /\ Around(at.curr + n - 1) \in Slots
      /\ \A n \in 1..s : at.bot # Around(at.old + n - 1) /\ Around(at.old + n - 1) \in Slots
      /\ Wrapped(at.curr + 1) = Around(at.curr + 1) /\ Wrapped(at.curr + 1) \in Slots
      /\ Wrapped(at.bot + 1) = Around(at.old + (s + 1)) /\ Wrapped(at.bot + 1) \in Slots
  <2>1. /\ at.curr \in Slots /\ r \in Nat /\ s \in Nat /\ r + s < PoolSize
        /\ at.old = Around(at.curr + r) /\ at.bot = Around(at.old + s)
    BY <1>3
  <2>2. PICK cu, ol, bo, m, l : cu = at.curr /\ ol = at.old /\ bo = at.bot /\ m = r /\ l = s
    OBVIOUS
  <2>3. /\ cu \in Slots /\ ol \in Slots /\ bo \in Slots /\ m \in Nat /\ l \in Nat /\ m + l < PoolSize
        /\ ol = Around(cu + m) /\ bo = Around(ol + l) /\ cu # ol
    BY <1>2, <1>3, <2>1, <2>2
  <2>4. /\ m # 0
        /\ \A n \in 1..m : bo # Around(cu + n - 1) /\ Around(cu + n - 1) \in Slots
        /\ \A n \in 1..l : bo # Around(ol + n - 1) /\ Around(ol + n - 1) \in Slots
        /\ Wrapped(cu + 1) = Around(cu + 1) /\ Wrapped(cu + 1) \in Slots
        /\ Wrapped(bo + 1) = Around(ol + (l + 1)) /\ Wrapped(bo + 1) \in Slots
    BY <2>3, AroundTheEnd
  <2> HIDE DEF r, s
  <2> QED BY <2>2, <2>4, Zenon
<1>5. spark = Head(at.before) /\ spark = at.before[1] /\ spark \in Spark
  <2>1. Around(at.curr + 1 - 1) = at.curr
    BY <1>3, CapsAre DEF Slots, Around
  <2>2. 1 \in 1..r /\ Head(at.before) = at.before[1]
    BY <1>3, <1>4
  <2> QED BY <1>3, <2>1, <2>2
<1>6. PICK keep \in BOOLEAN : keep <=> Survives(spark)
  OBVIOUS
<1> DEFINE e == IF keep THEN [el EXCEPT ![at.bot] = spark] ELSE el
           k == IF keep THEN Append(at.kept, spark) ELSE at.kept
           b == IF keep THEN Wrapped(at.bot + 1) ELSE at.bot
           q == [at EXCEPT !.curr = Wrapped(at.curr + 1), !.bot = b, !.before = Tail(at.before), !.kept = k]
<1>7. e \in [Slots -> Spark] /\ k \in Seq(Spark) /\ b \in Slots /\ Tail(at.before) \in Seq(Spark)
      /\ Len(Tail(at.before)) = r - 1 /\ Len(k) = IF keep THEN s + 1 ELSE s
  BY <1>3, <1>4, <1>5
<1>8. pools' = [pools EXCEPT ![c].elements = e] /\ pruning' = [pruning EXCEPT !.at[c] = q]
  <2>1. pools' = IF keep THEN [pools EXCEPT ![c].elements[at.bot] = spark] ELSE pools
    BY <1>1, <1>6 DEF PruneElement
  <2>2. pools' = [pools EXCEPT ![c].elements = e]
    BY <1>1, <1>3, <2>1 DEF IInv, TypeInv, PoolRec
  <2>3. pruning' = [pruning EXCEPT !.at[c] = q]
    BY <1>1, <1>5, <1>6 DEF PruneElement
  <2> QED BY <2>2, <2>3
<1>9. IF keep THEN UNCHANGED counts ELSE counts' = [counts EXCEPT !.gone = @ + 1]
  BY <1>1, <1>6 DEF PruneElement, Count
<1>10. \A n \in 1..(r - 1) : e[Around(Wrapped(at.curr + 1) + n - 1)] = Tail(at.before)[n]
  <2> SUFFICES ASSUME NEW n \in 1..(r - 1)
               PROVE  e[Around(Wrapped(at.curr + 1) + n - 1)] = Tail(at.before)[n]
    OBVIOUS
  <2>1. n - 1 \in Nat /\ n - 1 < PoolSize /\ n + 1 \in 1..r /\ Wrapped(at.curr + 1) \in Int
    <3> HIDE DEF r, s
    <3> QED BY <1>3, <1>4, CapsAre DEF Slots
  <2>2. Around(Around(at.curr + 1) + (n - 1)) = Around(at.curr + ((n - 1) + 1))
    BY <1>3, <2>1, AroundNext
  <2>3. Around(Wrapped(at.curr + 1) + n - 1) = Around(at.curr + (n + 1) - 1)
    <3>1. Wrapped(at.curr + 1) + (n - 1) = Wrapped(at.curr + 1) + n - 1
      BY <2>1
    <3>2. at.curr + ((n - 1) + 1) = at.curr + (n + 1) - 1
      BY <1>3, <2>1, CapsAre DEF Slots
    <3> QED BY <1>4, <2>2, <3>1, <3>2
  <2>4. e[Around(at.curr + (n + 1) - 1)] = el[Around(at.curr + (n + 1) - 1)]
    <3> HIDE DEF r, s, spark
    <3> QED BY <1>3, <1>4, <2>1
  <2>5. el[Around(at.curr + (n + 1) - 1)] = at.before[n + 1]
    <3> HIDE DEF r, s, spark
    <3> QED BY <1>3, <2>1
  <2>6. Tail(at.before)[n] = at.before[n + 1]
    BY <1>3, <1>4
  <2> HIDE DEF e, r, s
  <2> QED BY <2>3, <2>4, <2>5, <2>6
<1>11. \A n \in 1..Len(k) : e[Around(at.old + n - 1)] = k[n] /\ Survives(k[n])
  <2> SUFFICES ASSUME NEW n \in 1..Len(k)
               PROVE  e[Around(at.old + n - 1)] = k[n] /\ Survives(k[n])
    OBVIOUS
  <2>1. CASE n \in 1..s
    <3>1. k[n] = at.kept[n]
      BY <1>3, <2>1
    <3>2. e[Around(at.old + n - 1)] = el[Around(at.old + n - 1)]
      <4> HIDE DEF r, s, spark
      <4> QED BY <1>3, <1>4, <2>1
    <3> QED BY <1>3, <2>1, <3>1, <3>2
  <2>2. CASE n \notin 1..s
    <3>1. keep /\ n = s + 1
      <4> HIDE DEF r, s, k
      <4> QED BY <1>3, <1>7, <2>2
    <3>2. k[n] = spark
      BY <1>3, <3>1
    <3>3. at.old + n - 1 = at.old + s
      <4> HIDE DEF s
      <4> QED BY <1>3, <3>1, CapsAre DEF Slots
    <3>4. e[at.bot] = spark
      BY <1>3, <3>1
    <3> HIDE DEF e, k, s, spark
    <3> QED BY <1>3, <1>6, <3>1, <3>2, <3>3, <3>4
  <2> QED BY <2>1, <2>2
<1>12. /\ q.on /\ q.curr = Wrapped(at.curr + 1) /\ q.old = at.old /\ q.bot = b
       /\ q.before = Tail(at.before) /\ q.kept = k /\ q \in PrunerRec
  <2> HIDE DEF k, b
  <2> QED BY <1>2, <1>3, <1>4, <1>7 DEF PrunerRec
<1> HIDE DEF q, e
<1>13. /\ pruning'.at = [pruning.at EXCEPT ![c] = q] /\ pruning'.phase = pruning.phase
       /\ pruning'.done = pruning.done /\ pruning'.reached = pruning.reached
  BY <1>8 DEF IInv, TypeInv
<1>14. /\ pruning'.at[c] = q /\ \A d \in SparkCaps \ {c} : pools'[d] = pools[d] /\ pruning'.at[d] = pruning.at[d]
       /\ pools'[c].top = pools[c].top /\ pools'[c].bottom = pools[c].bottom /\ pools'[c].elements = e
       /\ pools' \in [SparkCaps -> PoolRec]
  <2>1. pools \in [SparkCaps -> PoolRec] /\ pruning.at \in [SparkCaps -> PrunerRec]
    BY DEF IInv, TypeInv
  <2>2. pruning'.at[c] = q /\ \A d \in SparkCaps \ {c} : pools'[d] = pools[d] /\ pruning'.at[d] = pruning.at[d]
    BY <1>8, <1>13, <2>1
  <2>3. pools'[c] = [pools[c] EXCEPT !.elements = e] /\ pools' = [pools EXCEPT ![c] = [pools[c] EXCEPT !.elements = e]]
    BY <1>8, <2>1
  <2>4. /\ pools'[c].top = pools[c].top /\ pools'[c].bottom = pools[c].bottom /\ pools'[c].elements = e
        /\ pools'[c] \in PoolRec
    BY <1>3, <1>7, <2>3 DEF PoolRec
  <2>5. pools' \in [SparkCaps -> PoolRec]
    BY <2>1, <2>3, <2>4
  <2> QED BY <2>2, <2>4, <2>5
<1>15. TypeInv'
  <2>1. counts' \in [created : Nat, dud : Nat, gone : Nat]
    BY <1>9 DEF IInv, TypeInv
  <2> QED BY <1>2, <1>8, <1>12, <1>14, <2>1 DEF IInv, TypeInv
<1>16. CompactInv(c)'
  <2> HIDE DEF k, b, r, s
  <2>1. Len(q.before) = r - 1 /\ Len(q.kept) = Len(k) /\ (r - 1) + Len(k) < PoolSize
    BY <1>3, <1>4, <1>7, <1>12, CapsAre
  <2>2. q.old = Around(q.curr + (r - 1))
    <3>1. r - 1 \in Nat /\ r - 1 < PoolSize /\ (r - 1) + 1 = r
      BY <1>3, <1>4, CapsAre
    <3> QED BY <1>3, <1>4, <1>12, <3>1, AroundNext
  <2>3. q.bot = Around(q.old + Len(k))
    BY <1>3, <1>4, <1>7, <1>12 DEF b
  <2>4. \A i : At(c, i)' = e[Around(i)]
    BY <1>14 DEF At
  <2>5. /\ \A n \in 1..(r - 1) : e[Around(q.curr + n - 1)] = q.before[n]
        /\ \A n \in 1..Len(k) : e[Around(q.old + n - 1)] = q.kept[n]
    BY <1>10, <1>11, <1>12
  <2>6. /\ \A n \in 1..Len(q.before) : At(c, q.curr + n - 1)' = q.before[n]
        /\ \A n \in 1..Len(q.kept) : At(c, q.old + n - 1)' = q.kept[n]
    BY <2>1, <2>4, <2>5
  <2> QED BY <1>14, <2>1, <2>2, <2>3, <2>6 DEF CompactInv
<1>17. PruneInv' /\ \A d \in SparkCaps \ {c} : Size(d)' = Size(d) /\ Held(d)' = Held(d)
  <2>1. \A n \in 1..Len(k) : Survives(k[n])'
    BY <1>2, <1>11, <1>13 DEF Survives
  <2>2. PrunerInv(c)'
    <3> HIDE DEF k
    <3> QED BY <1>3, <1>12, <1>13, <1>14, <1>16, <2>1 DEF PrunerInv
  <2> QED BY <1>2, <1>3, <1>13, <1>14, <2>2, OtherPools DEF IInv
<1>18. PoolInv'
  <2>1. Size(c)' = Size(c)
    BY <1>14 DEF Size
  <2> QED BY <1>17, <2>1 DEF IInv, PoolInv
<1>19. Held(c) = r + s /\ Held(c)' = (r - 1) + Len(k)
  <2>1. Held(c) = r + s
    BY <1>1, <1>2 DEF Held
  <2> QED BY <1>7, <1>12, <1>14, <2>1 DEF Held
<1>20. HeldAll \in Sizes /\ HeldAll' \in Sizes /\ HeldAll[c] = r + s /\ HeldAll'[c] = (r - 1) + Len(k)
       /\ \A d \in SparkCaps \ {c} : HeldAll'[d] = HeldAll[d]
  <2>1. HeldAll \in Sizes /\ HeldAll' \in Sizes
    BY <1>15, <1>17, <1>18, HeldIs, HeldNext DEF IInv
  <2> QED BY <1>17, <1>19, <2>1 DEF HeldAll
<1>21. CountInv'
  <2>1. InHand' = InHand
    BY <1>2 DEF InHand, Finding
  <2>2. counts \in [created : Nat, dud : Nat, gone : Nat]
    BY DEF IInv, TypeInv
  <2>3. CASE keep
    <3>1. HeldAll'[c] = HeldAll[c]
      <4> HIDE DEF r, s, k
      <4> QED BY <1>3, <1>7, <1>20, <2>3
    <3>2. \A d \in SparkCaps : HeldAll'[d] = HeldAll[d]
      BY <1>20, <3>1
    <3>3. Tokens(HeldAll)' = Tokens(HeldAll)
      BY <3>2 DEF Tokens
    <3> QED BY <1>9, <2>1, <2>3, <3>3 DEF IInv, CountInv
  <2>4. CASE ~keep
    <3>1. HeldAll[c] = HeldAll'[c] + 1
      <4> HIDE DEF r, s, k
      <4> QED BY <1>3, <1>7, <1>20, <2>4
    <3>2. Cardinality(Tokens(HeldAll)) = Cardinality(Tokens(HeldAll')) + 1
      BY <1>20, <3>1, TokensMore
    <3>3. Cardinality(Tokens(HeldAll')) \in Nat
      BY <1>20, TokensFinite
    <3>4. counts'.gone = counts.gone + 1 /\ counts'.created = counts.created /\ counts.gone \in Nat
      BY <1>9, <2>2, <2>4
    <3>5. InHand \in Nat
      BY <1>2, <1>3, <1>13, WhilePruning
    <3>6. Tokens(HeldAll)' = Tokens(HeldAll')
      BY DEF Tokens
    <3> QED BY <2>1, <3>2, <3>3, <3>4, <3>5, <3>6 DEF IInv, CountInv
  <2> QED BY <2>3, <2>4
<1> QED BY <1>2, <1>3, <1>13, <1>15, <1>17, <1>18, <1>21, WhilePruning DEF IInv

(* What was kept is the pool: there was nothing left to look at.           *)
LEMMA PruneEndsStep ==
  ASSUME IInv, NEW c \in SparkCaps, PruneEnds(c)
  PROVE  IInv'
<1>1. PICK at, el, r, s : at = pruning.at[c] /\ el = pools[c].elements /\ r = Len(at.before) /\ s = Len(at.kept)
  OBVIOUS
<1> DEFINE w == IF at.old <= at.bot THEN at.bot ELSE at.bot + PoolSize
           p == [pools[c] EXCEPT !.top = at.old, !.bottom = w]
           q == [at EXCEPT !.on = FALSE]
<1>2. at.on /\ at.curr = at.old /\ UNCHANGED <<closure, finder, counts>>
  BY <1>1 DEF PruneEnds
<1>3. /\ pruning.phase # "none" /\ c \notin pruning.done
      /\ at \in PrunerRec /\ at.curr \in Slots /\ at.old \in Slots /\ at.bot \in Slots
      /\ at.before \in Seq(Spark) /\ at.kept \in Seq(Spark)
      /\ r \in Nat /\ s \in Nat /\ r + s < PoolSize
      /\ at.old = Around(at.curr + r) /\ at.bot = Around(at.old + s)
      /\ pools[c] \in PoolRec /\ el \in [Slots -> Spark]
      /\ \A n \in 1..r : el[Around(at.curr + n - 1)] = at.before[n]
      /\ \A n \in 1..s : el[Around(at.old + n - 1)] = at.kept[n] /\ Survives(at.kept[n])
  BY <1>1, <1>2, PrunerIs
<1>4. r = 0 /\ w = at.old + s
  <2>1. PICK cu, ol, bo : cu = at.curr /\ ol = at.old /\ bo = at.bot
    OBVIOUS
  <2>2. /\ cu \in Slots /\ ol \in Slots /\ bo \in Slots /\ r \in Nat /\ s \in Nat /\ r + s < PoolSize
        /\ ol = Around(cu + r) /\ bo = Around(ol + s)
    BY <1>3, <2>1
  <2>3. r = 0 <=> cu = ol
    BY <2>2, CapsAre DEF Slots, Around
  <2>4. (IF ol <= bo THEN bo ELSE bo + PoolSize) = ol + s
    BY <2>2, CapsAre DEF Slots, Around
  <2> QED BY <1>2, <2>1, <2>3, <2>4
<1> HIDE DEF w
<1>5. at.old \in Nat /\ w \in Nat /\ s \in 0..(PoolSize - 1) /\ at.old % PoolSize = at.old
  <2>1. at.old \in 0..(PoolSize - 1) /\ PoolSize \in Nat /\ PoolSize > 1
    BY <1>3, CapsAre DEF Slots
  <2>2. at.old \in Nat /\ s \in 0..(PoolSize - 1)
    BY <1>3, <2>1
  <2>3. \A x \in 0..(PoolSize - 1) : x % PoolSize = x
    BY <2>1
  <2>4. w \in Nat
    BY <1>3, <1>4, <2>2
  <2> QED BY <2>1, <2>2, <2>3, <2>4
<1>6. p \in PoolRec /\ p.top = at.old /\ p.bottom = w /\ p.elements = el
  BY <1>1, <1>3, <1>5 DEF PoolRec
<1>7. q \in PrunerRec /\ ~q.on /\ q.kept = at.kept /\ q.before = at.before
  BY <1>3 DEF PrunerRec
<1>8. pools' = [pools EXCEPT ![c] = p]
      /\ pruning' = [pruning EXCEPT !.at[c] = q, !.done = pruning.done \cup {c}]
  <2>1. /\ pools' = [pools EXCEPT ![c].top = at.old, ![c].bottom = w]
        /\ pruning' = [pruning EXCEPT !.at[c].on = FALSE, !.done = @ \cup {c}]
    BY <1>1 DEF PruneEnds, w
  <2>2. pools' = [pools EXCEPT ![c] = p]
    BY <2>1 DEF IInv, TypeInv
  <2>3. pruning' = [pruning EXCEPT !.at[c] = q, !.done = pruning.done \cup {c}]
    BY <1>1, <2>1 DEF IInv, TypeInv
  <2> QED BY <2>2, <2>3
<1> HIDE DEF p, q
<1>9. /\ pruning'.at = [pruning.at EXCEPT ![c] = q] /\ pruning'.phase = pruning.phase
      /\ pruning'.done = pruning.done \cup {c} /\ pruning'.reached = pruning.reached
  BY <1>8 DEF IInv, TypeInv
<1>10. /\ pruning'.at[c] = q /\ pools'[c] = p
       /\ \A d \in SparkCaps \ {c} : pools'[d] = pools[d] /\ pruning'.at[d] = pruning.at[d]
  BY <1>8, <1>9 DEF IInv, TypeInv
<1>11. TypeInv'
  BY <1>2, <1>6, <1>7, <1>8 DEF IInv, TypeInv
<1>12. Size(c)' = s
  BY <1>4, <1>5, <1>6, <1>10 DEF Size
<1>13. Contents(c)' = at.kept
  <2>1. Contents(c)' = [n \in 1..s |-> el[(at.old + n - 1) % PoolSize]]
    BY <1>6, <1>10, <1>12 DEF Contents
  <2>2. \A n \in 1..s : el[(at.old + n - 1) % PoolSize] = at.kept[n]
    <3> SUFFICES ASSUME NEW n \in 1..s PROVE el[(at.old + n - 1) % PoolSize] = at.kept[n]
      OBVIOUS
    <3>1. n - 1 \in 0..PoolSize /\ n - 1 < PoolSize /\ at.old + (n - 1) = at.old + n - 1
      BY <1>5, CapsAre
    <3>2. (at.old + (n - 1)) % PoolSize = Around((at.old % PoolSize) + (n - 1))
      BY <1>5, <3>1, AroundIs
    <3> QED BY <1>3, <1>5, <3>1, <3>2
  <2>3. at.kept = [n \in 1..s |-> at.kept[n]]
    BY <1>1, <1>3
  <2> QED BY <2>1, <2>2, <2>3
<1>14. PruneInv' /\ \A d \in SparkCaps \ {c} : Size(d)' = Size(d) /\ Held(d)' = Held(d)
  <2>1. \A n \in 1..s : Survives(at.kept[n])'
    BY <1>2, <1>3, <1>9 DEF Survives
  <2>2. PrunerInv(c)'
    BY <1>1, <1>7, <1>10, <1>13, <2>1 DEF PrunerInv
  <2> QED BY <1>2, <1>3, <1>9, <1>10, <2>2, OtherPools DEF IInv
<1>15. PoolInv'
  BY <1>5, <1>12, <1>14 DEF IInv, PoolInv
<1>16. CountInv'
  <2>1. Held(c) = s /\ Held(c)' = s
    BY <1>1, <1>2, <1>3, <1>4, <1>7, <1>10, <1>12 DEF Held
  <2>2. Tokens(HeldAll)' = Tokens(HeldAll)
    BY <1>14, <2>1 DEF HeldAll, Tokens
  <2> QED BY <1>2, <1>3, <1>9, <2>2, WhilePruning DEF IInv, CountInv
<1> QED BY <1>2, <1>3, <1>9, <1>11, <1>14, <1>15, <1>16, WhilePruning DEF IInv

----------------------------------------------------------------------------
(* The end of a collection *)

(* Every pool holds what it kept, and what was kept was reached.           *)
LEMMA EndOfGCStep ==
  ASSUME IInv, EndOfGC
  PROVE  IInv'
<1>1. /\ pruning.phase = "shutdown" /\ pruning.done = SparkCaps /\ UNCHANGED <<pools, finder, counts>>
      /\ closure' = [s \in Sparkable |-> IF s \in pruning.reached \cup Statics THEN closure[s] ELSE "freed"]
      /\ pruning' = [pruning EXCEPT !.phase = "none", !.reached = {}, !.idle = {}, !.done = {},
                                    !.at = [c \in SparkCaps |-> NotPruning]]
  BY DEF EndOfGC
<1>2. NotPruning \in PrunerRec /\ ~NotPruning.on
  BY CapsAre DEF NotPruning, PrunerRec, Slots
<1>3. /\ pruning'.phase = "none" /\ pruning'.done = {} /\ \A c \in SparkCaps : ~pruning'.at[c].on
      /\ pruning' \in [phase : {"none", "trace", "shutdown"}, reached : SUBSET Sparkable, idle : SUBSET SparkCaps,
                       done : SUBSET SparkCaps, left : Nat, at : [SparkCaps -> PrunerRec]]
  BY <1>1, <1>2 DEF IInv, TypeInv
<1>4. closure' \in [Sparkable -> Closure]
  BY <1>1 DEF IInv, TypeInv, Closure
<1>5. TypeInv'
  BY <1>1, <1>3, <1>4 DEF IInv, TypeInv
<1>6. \A c : Size(c)' = Size(c) /\ Contents(c)' = Contents(c)
  BY <1>1 DEF Size, Contents
<1>7. \A c \in SparkCaps : ~pruning.at[c].on /\ Contents(c) = pruning.at[c].kept
        /\ \A n \in 1..Len(pruning.at[c].kept) : Survives(pruning.at[c].kept[n])
  BY <1>1 DEF IInv, PruneInv, PrunerInv
<1>8. PoolInv'
  BY <1>6 DEF IInv, PoolInv
<1>9. FinderInv'
  BY <1>1, <1>3 DEF IInv, FinderInv
<1>10. PruneInv'
  BY <1>3 DEF PruneInv, PrunerInv
<1>11. LiveInv'
  <2> SUFFICES ASSUME NEW c \in SparkCaps, NEW n \in 1..Size(c)
               PROVE  Contents(c)[n] \in Sparkable /\ closure'[Contents(c)[n]] # "freed"
    BY <1>6 DEF LiveInv
  <2>1. Survives(Contents(c)[n])
    BY <1>7, ContentsIs DEF IInv
  <2>2. Contents(c)[n] \in pruning.reached /\ closure[Contents(c)[n]] = "thunk"
    BY <2>1 DEF Survives
  <2>3. Contents(c)[n] \in Sparkable
    BY <2>2 DEF IInv, TypeInv
  <2> QED BY <1>1, <2>2, <2>3
<1>12. CountInv'
  <2>1. \A c \in SparkCaps : Held(c)' = Held(c)
    BY <1>3, <1>6, <1>7 DEF Held
  <2>2. Tokens(HeldAll)' = Tokens(HeldAll)
    BY <2>1 DEF HeldAll, Tokens
  <2>3. InHand' = InHand
    BY <1>1 DEF InHand, Finding
  <2> QED BY <1>1, <2>2, <2>3 DEF IInv, CountInv
<1> QED BY <1>5, <1>8, <1>9, <1>10, <1>11, <1>12 DEF IInv

----------------------------------------------------------------------------
(* The theorems *)

(* At the start the pools are empty, wherever they begin.                  *)
LEMMA InitInv == SparksInit => IInv
<1> SUFFICES ASSUME SparksInit PROVE IInv
  OBVIOUS
<1>1. /\ closure = [s \in Sparkable |-> "thunk"] /\ finder = [c \in SparkCaps |-> NotFinding]
      /\ counts = [created |-> 0, dud |-> 0, gone |-> 0]
      /\ pruning = [phase |-> "none", reached |-> {}, idle |-> {}, done |-> {}, left |-> MaxPrunes,
                    at |-> [c \in SparkCaps |-> NotPruning]]
  BY DEF SparksInit
<1>2. PICK start \in [SparkCaps -> Starts] :
        pools = [c \in SparkCaps |-> [top |-> start[c], bottom |-> start[c], elements |-> [i \in Slots |-> NoSpark]]]
  BY DEF SparksInit
<1>3. \A c \in SparkCaps : start[c] \in Nat
  <2>1. \A c \in SparkCaps : start[c] \in 0..(PoolSize - 1)
    BY SparksAssumption
  <2> QED BY <2>1, CapsAre
<1>4. pools \in [SparkCaps -> PoolRec] /\ \A c \in SparkCaps : pools[c].top = start[c] /\ pools[c].bottom = start[c]
  BY <1>2, <1>3 DEF PoolRec, Spark
<1>5. NotFinding \in FinderRec /\ NotFinding.pc = "none" /\ NotPruning \in PrunerRec /\ ~NotPruning.on
  BY CapsAre DEF NotFinding, FinderRec, Spark, NotPruning, PrunerRec, Slots
<1>6. TypeInv
  <2>1. MaxPrunes \in Nat
    BY SparksAssumption
  <2> QED BY <1>1, <1>4, <1>5, <2>1 DEF TypeInv, Closure
<1>7. \A c \in SparkCaps : Size(c) = 0 /\ ~pruning.at[c].on /\ finder[c].pc = "none"
  BY <1>1, <1>3, <1>4, <1>5 DEF Size
<1>8. PoolInv
  BY <1>7, CapsAre DEF PoolInv
<1>9. FinderInv
  BY <1>7 DEF FinderInv
<1>10. PruneInv
  BY <1>1, <1>7 DEF PruneInv, PrunerInv
<1>11. LiveInv
  BY <1>7 DEF LiveInv
<1>12. CountInv
  <2>1. \A c \in SparkCaps : HeldAll[c] = 0
    BY <1>7 DEF HeldAll, Held
  <2>2. \A c \in SparkCaps, n \in 1..PoolSize : ~(n <= HeldAll[c])
    BY <2>1, CapsAre
  <2>3. Tokens(HeldAll) = {}
    BY <2>2 DEF Tokens
  <2>4. InHand = Cardinality({})
    BY <1>7 DEF InHand, Finding
  <2> QED BY <1>1, <2>3, <2>4, FS_EmptySet DEF CountInv
<1> QED BY <1>6, <1>8, <1>9, <1>10, <1>11, <1>12 DEF IInv

(* Every step keeps the invariant.                                         *)
LEMMA NextInv == IInv /\ [SparksNext]_spVars => IInv'
<1> SUFFICES ASSUME IInv, [SparksNext]_spVars PROVE IInv'
  OBVIOUS
<1>1. ASSUME NEW c \in SparkCaps, FindSpark(c) \/ StealReads(c) \/ Missed(c) \/ NextVictim(c) PROVE IInv'
  BY <1>1, FinderSteps
<1>2. ASSUME NEW c \in SparkCaps, StealCas(c) PROVE IInv'
  BY <1>2, StealCasStep
<1>3. ASSUME NEW c \in SparkCaps, Steal(c) PROVE IInv'
  BY <1>3, StealStep
<1>4. ASSUME NEW c \in SparkCaps, PruneBegins(c) PROVE IInv'
  BY <1>4, PruneBeginsStep
<1>5. ASSUME NEW c \in SparkCaps, PruneElement(c) PROVE IInv'
  BY <1>5, PruneElementStep
<1>6. ASSUME NEW c \in SparkCaps, PruneEnds(c) PROVE IInv'
  BY <1>6, PruneEndsStep
<1>7. CASE \/ \E c \in Sparkers, s \in Sparkable : NewSpark(c, s)
           \/ \E s \in Sparkable : Evaluate(s)
  BY <1>7, HaskellSteps
<1>8. CASE (\E s \in Sparkable : TraceMore(s)) \/ WorkersDone
  BY <1>8, TraceSteps
<1>9. CASE StartPruning \/ DiscardSparks
  BY <1>9, BeginSteps
<1>10. CASE EndOfGC
  BY <1>10, EndOfGCStep
<1>11. CASE UNCHANGED spVars
  <2>1. UNCHANGED <<pools, closure, finder, counts, pruning>>
    BY <1>11 DEF spVars
  <2>2. TypeInv' /\ FinderInv' /\ InHand' = InHand
    BY <2>1 DEF IInv, TypeInv, FinderInv, InHand, Finding
  <2>3. PoolInv' /\ CountInv'
    BY <2>1, <2>2, SamePools DEF IInv, CountInv
  <2> QED BY <2>1, <2>2, <2>3, SameHeap DEF IInv
<1> QED BY <1>1, <1>2, <1>3, <1>4, <1>5, <1>6, <1>7, <1>8, <1>9, <1>10, <1>11 DEF SparksNext

(* The invariant is one.                                                   *)
THEOREM Inductive == SparksSpec => []IInv
<1> QED BY InitInv, NextInv, PTL DEF SparksSpec

(* PrunedRight: whatever the threads that push, steal and collect do, and   *)
(* wherever in its array a pool lies, compacting it in place leaves the     *)
(* sparks that survive, in their order, and no pool is left with a closure  *)
(* that a collection has freed.                                            *)
THEOREM SparksKept == SparksSpec => []PrunedRight
<1>1. IInv => PrunedRight
  <2> SUFFICES ASSUME IInv, NEW c \in SparkCaps
               PROVE  /\ c \in pruning.done => Contents(c) = pruning.at[c].kept
                      /\ pruning.phase = "none" => \A n \in DOMAIN Contents(c) : closure[Contents(c)[n]] # "freed"
    BY DEF PrunedRight
  <2>1. c \in pruning.done => Contents(c) = pruning.at[c].kept
    BY DEF IInv, PruneInv, PrunerInv
  <2>2. DOMAIN Contents(c) = 1..Size(c)
    BY DEF Contents
  <2> QED BY <2>1, <2>2 DEF IInv, LiveInv
<1> QED BY <1>1, Inductive, PTL

(* SparksCounted: the counters of the sparks balance: what was created is   *)
(* in a pool, in the hands of a thief or has been counted as converted,     *)
(* collected or fizzled, once.                                             *)
THEOREM SparksBalance == SparksSpec => []SparksCounted
<1>1. IInv => SparksCounted
  BY HeldRemaining DEF IInv, CountInv, SparksCounted
<1> QED BY <1>1, Inductive, PTL
=============================================================================
