------------------------------- MODULE STMProofs -------------------------------
(***************************************************************************)
(* Proofs about STM, for any number of threads, TVars and values, bodies of *)
(* any length and nests of any depth.                                      *)
(***************************************************************************)
EXTENDS STM, FiniteSetTheorems, SequenceTheorems, WellFoundedInduction, TLAPS

EntryRec == [tvar : TVars, expected : Values, new : Values, num : Nat]
TRec == [entries : Seq(EntryRec), state : {"active", "condemned", "waiting"}]
(* A record knows a TVar once.                                             *)
Distinct(trec) == \A i, j \in DOMAIN trec.entries : trec.entries[i].tvar = trec.entries[j].tvar => i = j
Chain == {chain \in Seq(TRec) : \A i \in 1..Len(chain) : Distinct(chain[i])}
Frame == {"atomically", "orElse", "alternative", "catchSTM"}
(* Where no operation of STM.c is under way, and the others.               *)
Resting == {"out", "run", "retry", "raise", "parked"}
Working == {"lock", "sample", "reread", "check", "sleep", "write", "store", "merge", "revert", "remove"}
Operation == {"commit", "nested", "wait", "rewait", "validate", "raise", "kill"}

TypeInv ==
  /\ value \in [TVars -> Values \cup Threads] /\ updates \in [TVars -> Nat] /\ watch \in [TVars -> SUBSET Threads]
  /\ trecs \in [Threads -> Chain] /\ frames \in [Threads -> Seq(Frame)]
  /\ pc \in [Threads -> Resting \cup Working] /\ op \in [Threads -> Operation \cup {"none"}]
  /\ level \in [Threads -> Nat \ {0}] /\ idx \in [Threads -> Nat \ {0}] /\ ok \in [Threads -> BOOLEAN]
  /\ why \in [Threads -> {"not", "stm"}] /\ inbox \subseteq Threads /\ snap \in [Threads -> BOOLEAN]

Es(t) == Current(t).entries
Committing(t) == op[t] \in {"commit", "nested"}

(* Where a thread is, with what records, in the middle of which operation. *)
ThreadInv(t) ==
  /\ IF pc[t] = "out" THEN frames[t] = <<>> /\ trecs[t] = <<>>
     ELSE Len(frames[t]) >= 1 /\ Len(frames[t]) <= Len(trecs[t])
  /\ IF pc[t] \in Resting THEN op[t] = "none" /\ level[t] = 1 ELSE op[t] # "none" /\ level[t] \in 1..Len(trecs[t])
  /\ op[t] \in {"validate", "raise"} => pc[t] \in {"lock", "revert"}
  /\ op[t] = "commit" => Len(trecs[t]) = 1 /\ pc[t] \in Working \ {"merge", "sleep", "remove"}
  /\ op[t] = "nested" => Len(trecs[t]) = Len(frames[t]) /\ level[t] = Len(trecs[t]) /\ level[t] > 1
                         /\ pc[t] \in Working \ {"write", "store", "sleep", "remove"}
  /\ op[t] = "wait" => level[t] = Len(trecs[t]) /\ pc[t] \in {"lock", "sleep", "revert"}
  /\ op[t] = "rewait" => level[t] = 1 /\ pc[t] \in {"lock", "revert", "remove"}
  /\ op[t] = "kill" => level[t] = 1 /\ pc[t] = "remove"
  /\ pc[t] \in {"sample", "reread", "store"} => idx[t] \in DOMAIN Es(t)
  /\ pc[t] \in {"sample", "reread"} => ~ IsUpdate(Here(t))
  /\ pc[t] = "store" => IsUpdate(Here(t))
  /\ pc[t] \in Resting \/ (op[t] \in {"commit", "nested", "wait", "rewait"} /\ pc[t] \notin {"revert", "remove"}) => ok[t]

(* Frames and records, if no exception leaves an orElse within the transaction. *)
FrameInv(t) ==
  /\ pc[t] # "raise" /\ op[t] # "raise" => Len(frames[t]) = Len(trecs[t])
  /\ pc[t] = "raise" => \/ "catchSTM" \notin Range(frames[t])
                        \/ Last(frames[t]) = "catchSTM" /\ Len(frames[t]) = Len(trecs[t])
  /\ op[t] = "wait" => Len(trecs[t]) = 1

(* The entries whose TVars the operation may have locked; all of them are, *)
(* but while they are given back.                                          *)
Wants(t, i) == AcquireAll(t) \/ IsUpdate(Es(t)[i])
MayHold(t, i) ==
  /\ pc[t] \in Working /\ i \in DOMAIN Es(t)
  /\ pc[t] \in {"lock", "sample", "reread"} => i < idx[t] /\ Wants(t, i)
  /\ pc[t] \in {"check", "sleep", "revert"} => Wants(t, i)
  /\ pc[t] \in {"write", "store", "merge"} => i >= idx[t] /\ IsUpdate(Es(t)[i])
  /\ pc[t] = "remove" => i = idx[t]
LockInv(t) == \A s \in TVars : value[s] = t => \E i \in DOMAIN Es(t) : MayHold(t, i) /\ Es(t)[i].tvar = s
OwnInv(t) == pc[t] \in Working \ {"revert", "remove"} => \A i \in DOMAIN Es(t) : MayHold(t, i) => value[Es(t)[i].tvar] = t

(* What the version of a read-only entry says: if it is still that of the  *)
(* TVar, the TVar holds what is expected and nobody is about to change it. *)
Storing(s) == \E u \in Threads : pc[u] = "store" /\ Here(u).tvar = s
Sampled(e) ==
  /\ e.num <= updates[e.tvar]
  /\ e.num = updates[e.tvar] => Under(e.tvar) = e.expected /\ ~ Storing(e.tvar)
SampleInv(t) ==
  /\ Committing(t) /\ pc[t] \in {"lock", "sample", "reread"} =>
       \A j \in DOMAIN Es(t) : j < idx[t] /\ ~ IsUpdate(Es(t)[j]) => Sampled(Es(t)[j])
  /\ pc[t] = "reread" => Here(t).num <= updates[Here(t).tvar]
(* If it was no snapshot, some version is still to be found changed.       *)
CheckInv(t) ==
  /\ pc[t] = "check" => snap[t] \/ \E j \in DOMAIN Es(t) : /\ j >= idx[t] /\ ~ IsUpdate(Es(t)[j])
                                                           /\ Es(t)[j].num < updates[Es(t)[j].tvar]
  /\ pc[t] \in {"write", "store", "merge"} => snap[t]

(* On the watch queues: from stmWait to the removal.                       *)
OnQueues(t) ==
  \/ pc[t] \in {"sleep", "parked"}
  \/ pc[t] = "revert" /\ op[t] = "wait" /\ ok[t]
  \/ pc[t] \in {"lock", "revert"} /\ op[t] = "rewait"
WatchInv(t) ==
  \A s \in TVars :
    /\ OnQueues(t) => (t \in watch[s] <=> Has(trecs[t][1], s))
    /\ t \in watch[s] => \/ OnQueues(t)
                         \/ pc[t] = "remove" /\ \E i \in DOMAIN Es(t) : i >= idx[t] /\ Es(t)[i].tvar = s

(* A sleeper that nobody has sent a wake-up sees what it waits for; who is *)
(* about to change a TVar has sent one to all who wait for it.             *)
Unwoken(t) == OnQueues(t) /\ why[t] = "stm" /\ t \notin inbox
SleepInv(t) == Unwoken(t) => Holds(trecs[t][1])
StoreInv(t) == pc[t] = "store" => \A u \in Threads : Unwoken(u) => ~ Has(trecs[u][1], Here(t).tvar)

(* The commit protocol, whatever the frames do; and what needs the frames. *)
IInv == TypeInv /\ \A t \in Threads : ThreadInv(t) /\ LockInv(t) /\ OwnInv(t) /\ SampleInv(t) /\ CheckInv(t)
JInv == IInv /\ \A t \in Threads : FrameInv(t) /\ WatchInv(t) /\ SleepInv(t) /\ StoreInv(t)

----------------------------------------------------------------------------
(* Records *)

(* A set of numbers has a least one, and a bounded one a greatest.         *)
LEMMA MinExists ==
  ASSUME NEW S \in SUBSET Nat, S # {}
  PROVE  \E i \in S : \A j \in S : i <= j
<1>1. IsWellFoundedOn(OpToRel(<, Nat), Nat)
  BY NatLessThanWellFounded
<1>2. PICK x \in S : \A y \in S : ~ (<<y, x>> \in OpToRel(<, Nat))
  BY <1>1, WFMin, Zenon
<1>3. \A y \in S : ~ (y < x)
  BY <1>2 DEF OpToRel
<1> QED BY <1>3

LEMMA MaxExists ==
  ASSUME NEW n \in Nat, NEW S \in SUBSET (1..n), S # {}
  PROVE  \E i \in S : \A j \in S : j <= i
<1>1. PICK T : T = {m \in Nat : n - m \in S}
  OBVIOUS
<1>2. PICK x \in S : TRUE
  OBVIOUS
<1>3. x \in 1..n /\ n - x \in Nat /\ n - (n - x) = x
  OBVIOUS
<1>4. T # {} /\ T \in SUBSET Nat
  BY <1>1, <1>3
<1>5. PICK k \in T : \A j \in T : k <= j
  BY <1>4, MinExists
<1>6. n - k \in S /\ k \in Nat
  BY <1>1, <1>5
<1>7. ASSUME NEW j \in S PROVE j <= n - k
  <2>1. j \in 1..n /\ n - j \in Nat /\ n - (n - j) = j
    OBVIOUS
  <2>2. n - j \in T
    BY <1>1, <2>1
  <2> QED BY <1>5, <1>6, <2>1, <2>2
<1> QED BY <1>6, <1>7

(* The entry of a TVar.                                                    *)
LEMMA EntryIs ==
  ASSUME NEW trec, Distinct(trec), NEW i \in DOMAIN trec.entries
  PROVE  Entry(trec, trec.entries[i].tvar) = trec.entries[i]
BY DEF Entry, Distinct

LEMMA EntryHas ==
  ASSUME NEW trec \in TRec, NEW s, Has(trec, s)
  PROVE  Entry(trec, s) \in EntryRec /\ Entry(trec, s).tvar = s /\ \E i \in DOMAIN trec.entries : Entry(trec, s) = trec.entries[i]
<1>1. trec.entries \in Seq(EntryRec)
  BY DEF TRec
<1>2. PICK j : j = CHOOSE i \in DOMAIN trec.entries : trec.entries[i].tvar = s
  OBVIOUS
<1>3. j \in DOMAIN trec.entries /\ trec.entries[j].tvar = s
  BY <1>2 DEF Has
<1>4. Entry(trec, s) = trec.entries[j]
  BY <1>2 DEF Entry
<1>5. trec.entries[j] \in EntryRec
  BY <1>1, <1>3
<1> QED BY <1>3, <1>4, <1>5

LEMMA NewEntryIs ==
  ASSUME NEW s \in TVars, NEW e \in Values, NEW n \in Values
  PROVE  NewEntry(s, e, n) \in EntryRec /\ NewEntry(s, e, n).tvar = s
         /\ NewEntry(s, e, n).expected = e /\ NewEntry(s, e, n).new = n
BY DEF NewEntry, EntryRec

LEMMA NewTRecIs ==
  ASSUME NEW state \in {"active", "condemned", "waiting"}
  PROVE  NewTRec(state) \in TRec /\ Distinct(NewTRec(state)) /\ NewTRec(state).entries = <<>>
BY DEF NewTRec, TRec, Distinct

(* Records of a nest.                                                      *)
LEMMA ChainIs ==
  ASSUME NEW chain \in Chain
  PROVE  /\ chain \in Seq(TRec) /\ Len(chain) \in Nat /\ DOMAIN chain = 1..Len(chain)
         /\ \A i \in 1..Len(chain) :
              /\ chain[i] \in TRec /\ Distinct(chain[i]) /\ chain[i].entries \in Seq(EntryRec)
              /\ Len(chain[i].entries) \in Nat /\ DOMAIN chain[i].entries = 1..Len(chain[i].entries)
              /\ \A j \in 1..Len(chain[i].entries) : chain[i].entries[j] \in EntryRec
<1>1. chain \in Seq(TRec) /\ \A i \in 1..Len(chain) : Distinct(chain[i])
  BY DEF Chain
<1>2. \A i \in 1..Len(chain) : chain[i] \in TRec /\ chain[i].entries \in Seq(EntryRec)
  <2> SUFFICES ASSUME NEW i \in 1..Len(chain) PROVE chain[i] \in TRec /\ chain[i].entries \in Seq(EntryRec)
    OBVIOUS
  <2>1. chain[i] \in TRec
    BY <1>1
  <2> QED BY <2>1 DEF TRec
<1> QED BY <1>1, <1>2

LEMMA FrontIs ==
  ASSUME NEW S, NEW q \in Seq(S), Len(q) >= 1
  PROVE  /\ Front(q) \in Seq(S) /\ Len(Front(q)) = Len(q) - 1 /\ Last(q) = q[Len(q)] /\ Last(q) \in S
         /\ \A i \in 1..(Len(q) - 1) : Front(q)[i] = q[i]
<1>1. Len(q) \in Nat /\ \A i \in 1..(Len(q) - 1) : q[i] \in S
  OBVIOUS
<1>2. /\ SubSeq(q, 1, Len(q) - 1) \in Seq(S)
      /\ Len(SubSeq(q, 1, Len(q) - 1)) = IF 1 <= Len(q) - 1 THEN (Len(q) - 1) - 1 + 1 ELSE 0
      /\ \A i \in 1..((Len(q) - 1) - 1 + 1) : SubSeq(q, 1, Len(q) - 1)[i] = q[1 + i - 1]
  BY <1>1, SubSeqProperties
<1>3. Front(q) = SubSeq(q, 1, Len(q) - 1) /\ Last(q) = q[Len(q)]
  BY DEF Front, Last
<1>4. Len(SubSeq(q, 1, Len(q) - 1)) = Len(q) - 1 /\ \A i \in 1..(Len(q) - 1) : SubSeq(q, 1, Len(q) - 1)[i] = q[i]
  <2>1. PICK r, n : r = SubSeq(q, 1, Len(q) - 1) /\ n = Len(q)
    OBVIOUS
  <2>2. n \in Nat /\ n >= 1 /\ Len(r) = (IF 1 <= n - 1 THEN (n - 1) - 1 + 1 ELSE 0)
        /\ \A i \in 1..((n - 1) - 1 + 1) : r[i] = q[1 + i - 1]
    BY <1>1, <1>2, <2>1
  <2>3. \A i \in 1..(n - 1) : i \in 1..((n - 1) - 1 + 1) /\ 1 + i - 1 = i
    BY <2>2
  <2> QED BY <2>1, <2>2, <2>3
<1>5. Last(q) \in S
  BY <1>1, <1>3
<1> QED BY <1>2, <1>3, <1>4, <1>5

LEMMA FrontChain ==
  ASSUME NEW chain \in Chain, Len(chain) >= 1
  PROVE  Front(chain) \in Chain /\ Len(Front(chain)) = Len(chain) - 1 /\ Last(chain) \in TRec /\ Distinct(Last(chain))
<1>1. chain \in Seq(TRec) /\ Len(chain) \in Nat /\ \A i \in 1..Len(chain) : Distinct(chain[i])
  BY DEF Chain
<1>2. /\ Front(chain) \in Seq(TRec) /\ Len(Front(chain)) = Len(chain) - 1 /\ Last(chain) = chain[Len(chain)] /\ Last(chain) \in TRec
      /\ \A i \in 1..(Len(chain) - 1) : Front(chain)[i] = chain[i]
  BY <1>1, FrontIs
<1> QED BY <1>1, <1>2 DEF Chain

LEMMA AppendChain ==
  ASSUME NEW chain \in Chain, NEW trec \in TRec, Distinct(trec)
  PROVE  Append(chain, trec) \in Chain /\ Len(Append(chain, trec)) = Len(chain) + 1
         /\ Append(chain, trec)[Len(chain) + 1] = trec
         /\ \A i \in 1..Len(chain) : Append(chain, trec)[i] = chain[i]
<1>1. chain \in Seq(TRec) /\ Len(chain) \in Nat /\ \A i \in 1..Len(chain) : Distinct(chain[i])
  BY DEF Chain
<1>2. /\ Append(chain, trec) \in Seq(TRec) /\ Len(Append(chain, trec)) = Len(chain) + 1
      /\ Append(chain, trec)[Len(chain) + 1] = trec
      /\ \A i \in 1..Len(chain) : Append(chain, trec)[i] = chain[i]
  BY <1>1, AppendProperties
<1>3. \A i \in 1..(Len(chain) + 1) : Distinct(Append(chain, trec)[i])
  BY <1>1, <1>2
<1> QED BY <1>2, <1>3 DEF Chain

LEMMA SetChain ==
  ASSUME NEW chain \in Chain, NEW i \in 1..Len(chain), NEW trec \in TRec, Distinct(trec)
  PROVE  [chain EXCEPT ![i] = trec] \in Chain /\ Len([chain EXCEPT ![i] = trec]) = Len(chain)
BY DEF Chain

(* A record with the same TVars, and one with a TVar more.                 *)
State == {"active", "condemned", "waiting"}

LEMMA SameTVars ==
  ASSUME NEW r \in TRec, Distinct(r), NEW q \in Seq(EntryRec), NEW state \in State,
         Len(q) = Len(r.entries), \A i \in 1..Len(q) : q[i].tvar = r.entries[i].tvar
  PROVE  [entries |-> q, state |-> state] \in TRec /\ Distinct([entries |-> q, state |-> state])
<1>1. r.entries \in Seq(EntryRec)
  BY DEF TRec
<1>2. DOMAIN q = 1..Len(q) /\ DOMAIN r.entries = 1..Len(q)
  BY <1>1
<1> QED BY <1>2 DEF TRec, State, Distinct

LEMMA TVarMore ==
  ASSUME NEW r \in TRec, Distinct(r), NEW e \in EntryRec, ~ Has(r, e.tvar), NEW state \in State
  PROVE  [entries |-> Append(r.entries, e), state |-> state] \in TRec
         /\ Distinct([entries |-> Append(r.entries, e), state |-> state])
<1>1. PICK es \in Seq(EntryRec) : es = r.entries
  BY DEF TRec
<1>2. /\ Append(es, e) \in Seq(EntryRec) /\ Len(Append(es, e)) = Len(es) + 1 /\ Len(es) \in Nat
      /\ \A i \in 1..Len(es) : Append(es, e)[i] = es[i]
      /\ Append(es, e)[Len(es) + 1] = e
  BY <1>1, AppendProperties
<1>3. PICK q, n : q = Append(es, e) /\ n = Len(es)
  OBVIOUS
<1>4. /\ q \in Seq(EntryRec) /\ DOMAIN q = 1..(n + 1) /\ n \in Nat /\ DOMAIN es = 1..n
      /\ \A i \in 1..n : q[i] = es[i]
      /\ q[n + 1] = e
  BY <1>2, <1>3
<1>5. \A i, j \in 1..n : es[i].tvar = es[j].tvar => i = j
  BY <1>1, <1>4 DEF Distinct
<1>6. \A i \in 1..n : es[i].tvar # e.tvar
  BY <1>1, <1>4 DEF Has
<1>7. \A i, j \in 1..(n + 1) : q[i].tvar = q[j].tvar => i = j
  <2> SUFFICES ASSUME NEW i \in 1..(n + 1), NEW j \in 1..(n + 1), q[i].tvar = q[j].tvar PROVE i = j
    OBVIOUS
  <2>1. CASE i \in 1..n /\ j \in 1..n
    BY <1>4, <1>5, <2>1
  <2>2. CASE i = n + 1 /\ j \in 1..n
    BY <1>4, <1>6, <2>2
  <2>3. CASE i \in 1..n /\ j = n + 1
    BY <1>4, <1>6, <2>3
  <2>4. CASE i = n + 1 /\ j = n + 1
    BY <2>4
  <2> QED BY <1>4, <2>1, <2>2, <2>3, <2>4
<1>8. r = r /\ Append(r.entries, e) = q
  BY <1>1, <1>3
<1> QED BY <1>4, <1>7, <1>8 DEF TRec, State, Distinct

LEMMA HolderIs ==
  ASSUME NEW chain \in Chain, NEW s, Holders(chain, s) # {}
  PROVE  Innermost(Holders(chain, s)) \in 1..Len(chain) /\ Has(chain[Innermost(Holders(chain, s))], s)
<1>1. Holders(chain, s) \in SUBSET (1..Len(chain)) /\ Len(chain) \in Nat
  BY ChainIs DEF Holders
<1>2. \E i \in Holders(chain, s) : \A j \in Holders(chain, s) : j <= i
  BY <1>1, MaxExists
<1>3. Innermost(Holders(chain, s)) \in Holders(chain, s)
  BY <1>2 DEF Innermost
<1> QED BY <1>1, <1>3 DEF Holders

LEMMA FoundEntryIs ==
  ASSUME TypeInv, NEW t \in Threads, NEW s \in TVars, Readable(t, s)
  PROVE  FoundEntry(t, s) \in EntryRec /\ FoundEntry(t, s).tvar = s
<1>1. trecs[t] \in Chain
  BY DEF TypeInv
<1>2. CASE Holders(trecs[t], s) = {}
  <2>1. value[s] \in Values
    BY <1>2 DEF Readable
  <2> QED BY <1>2, <2>1, NewEntryIs DEF FoundEntry
<1>3. CASE Holders(trecs[t], s) # {}
  <2>1. PICK i : i = Innermost(Holders(trecs[t], s))
    OBVIOUS
  <2>2. i \in 1..Len(trecs[t]) /\ Has(trecs[t][i], s)
    BY <1>1, <1>3, <2>1, HolderIs
  <2>3. trecs[t][i] \in TRec
    BY <1>1, <2>2, ChainIs
  <2>4. FoundEntry(t, s) = Entry(trecs[t][i], s)
    BY <1>3, <2>1 DEF FoundEntry
  <2> QED BY <2>2, <2>3, <2>4, EntryHas
<1> QED BY <1>2, <1>3

(* An operation of the body leaves the nest one.                           *)
LEMMA PutIs ==
  ASSUME TypeInv, NEW t \in Threads, Len(trecs[t]) >= 1, NEW s, NEW e \in EntryRec, e.tvar = s, Put(t, s, e)
  PROVE  \E chain \in Chain : trecs' = [trecs EXCEPT ![t] = chain] /\ Len(chain) = Len(trecs[t])
<1>1. PICK chain, n, r : chain = trecs[t] /\ n = Len(chain) /\ r = chain[n]
  OBVIOUS
<1>2. /\ chain \in Chain /\ n \in 1..Len(chain) /\ r \in TRec /\ Distinct(r) /\ r = Inner(t)
      /\ r.entries \in Seq(EntryRec) /\ Len(r.entries) \in Nat /\ DOMAIN r.entries = 1..Len(r.entries)
  <2>1. chain \in Chain /\ Len(chain) \in Nat
    BY <1>1, ChainIs DEF TypeInv
  <2>2. n \in 1..Len(chain)
    BY <1>1, <2>1
  <2> QED BY <1>1, <2>1, <2>2, ChainIs DEF Inner, Last
<1> DEFINE q == IF Has(r, s) THEN [j \in DOMAIN r.entries |-> IF r.entries[j].tvar = s THEN e ELSE r.entries[j]]
                ELSE Append(r.entries, e)
           new == [entries |-> q, state |-> r.state]
<1>3. new \in TRec /\ Distinct(new)
  <2>1. r.state \in State
    BY <1>2 DEF TRec, State
  <2>2. CASE Has(r, s)
    <3>1. PICK es : es = r.entries
      OBVIOUS
    <3>2. q = [j \in 1..Len(es) |-> IF es[j].tvar = s THEN e ELSE es[j]] /\ Len(es) \in Nat /\ es \in Seq(EntryRec)
      BY <1>2, <2>2, <3>1
    <3> HIDE DEF q
    <3>3. q \in Seq(EntryRec) /\ Len(q) = Len(es) /\ \A j \in 1..Len(q) : q[j].tvar = es[j].tvar
      BY <3>2
    <3> QED BY <1>2, <2>1, <3>1, <3>3, SameTVars
  <2>3. CASE ~ Has(r, s)
    BY <1>2, <2>1, <2>3, TVarMore
  <2> QED BY <2>2, <2>3
<1>4. trecs' = [trecs EXCEPT ![t] = [chain EXCEPT ![n] = new]]
  <2>1. trecs' = [trecs EXCEPT ![t][n].entries = q]
    BY <1>1, <1>2 DEF Put
  <2>2. [r EXCEPT !.entries = q] = new
    <3>1. PICK es, st : r = [entries |-> es, state |-> st]
      BY <1>2 DEF TRec
    <3> HIDE DEF q
    <3>2. [r EXCEPT !.entries = q] = [entries |-> q, state |-> st] /\ r.state = st
      BY <3>1
    <3> QED BY <3>2
  <2> HIDE DEF q, new
  <2>3. trecs' = [trecs EXCEPT ![t] = [chain EXCEPT ![n] = [r EXCEPT !.entries = q]]]
    BY <1>1, <2>1
  <2> QED BY <2>2, <2>3
<1> HIDE DEF new
<1>5. [chain EXCEPT ![n] = new] \in Chain /\ Len([chain EXCEPT ![n] = new]) = Len(chain)
  BY <1>2, <1>3, SetChain
<1> QED BY <1>1, <1>4, <1>5

(* merge_read_into and merge_update_into as well.                          *)
LEMMA MergeUpdateIs ==
  ASSUME NEW chain \in Chain, Len(chain) >= 1, NEW e \in EntryRec
  PROVE  MergeUpdate(chain, e) \in Chain /\ Len(MergeUpdate(chain, e)) = Len(chain)
<1>1. PICK n, r : n = Len(chain) /\ r = chain[n]
  OBVIOUS
<1>2. /\ n \in 1..Len(chain) /\ r \in TRec /\ Distinct(r) /\ r = Last(chain)
      /\ r.entries \in Seq(EntryRec) /\ Len(r.entries) \in Nat /\ DOMAIN r.entries = 1..Len(r.entries)
  <2>1. Len(chain) \in Nat
    BY ChainIs
  <2>2. n \in 1..Len(chain)
    BY <1>1, <2>1
  <2> QED BY <1>1, <2>1, <2>2, ChainIs DEF Last
<1> DEFINE set == [j \in DOMAIN r.entries |-> IF r.entries[j].tvar = e.tvar THEN [r.entries[j] EXCEPT !.new = e.new] ELSE r.entries[j]]
           ne == NewEntry(e.tvar, e.expected, e.new)
<1>3. PICK state \in State : state = IF Has(r, e.tvar) /\ Entry(r, e.tvar).expected # e.expected THEN "condemned" ELSE r.state
  BY <1>2 DEF TRec, State
<1> HIDE DEF set, ne
<1>4. MergeUpdate(chain, e) = [chain EXCEPT ![n] = [entries |-> IF Has(r, e.tvar) THEN set ELSE Append(set, ne), state |-> state]]
  BY <1>1, <1>2, <1>3 DEF MergeUpdate, set, ne
<1>5. CASE Has(r, e.tvar)
  <2>1. PICK es : es = r.entries
    OBVIOUS
  <2>2. set = [j \in 1..Len(es) |-> IF es[j].tvar = e.tvar THEN [es[j] EXCEPT !.new = e.new] ELSE es[j]] /\ Len(es) \in Nat /\ es \in Seq(EntryRec)
    BY <1>2, <2>1 DEF set
  <2>3. \A j \in 1..Len(es) : es[j] \in EntryRec /\ [es[j] EXCEPT !.new = e.new] \in EntryRec /\ [es[j] EXCEPT !.new = e.new].tvar = es[j].tvar
    <3> SUFFICES ASSUME NEW j \in 1..Len(es)
                 PROVE  es[j] \in EntryRec /\ [es[j] EXCEPT !.new = e.new] \in EntryRec /\ [es[j] EXCEPT !.new = e.new].tvar = es[j].tvar
      OBVIOUS
    <3>1. es[j] \in EntryRec
      BY <2>2
    <3> QED BY <3>1 DEF EntryRec
  <2>4. set \in Seq(EntryRec) /\ Len(set) = Len(es) /\ \A j \in 1..Len(set) : set[j].tvar = es[j].tvar
    BY <2>2, <2>3
  <2>5. [entries |-> set, state |-> state] \in TRec /\ Distinct([entries |-> set, state |-> state])
    BY <1>2, <2>1, <2>4, SameTVars
  <2>6. MergeUpdate(chain, e) = [chain EXCEPT ![n] = [entries |-> set, state |-> state]]
    <3>1. PICK fs : fs = IF Has(r, e.tvar) THEN set ELSE Append(set, ne)
      OBVIOUS
    <3>2. MergeUpdate(chain, e) = [chain EXCEPT ![n] = [entries |-> fs, state |-> state]]
      BY <1>4, <3>1
    <3>3. fs = set
      BY <1>5, <3>1
    <3> QED BY <3>2, <3>3
  <2>7. PICK new : new = [entries |-> set, state |-> state]
    OBVIOUS
  <2>8. new \in TRec /\ Distinct(new) /\ MergeUpdate(chain, e) = [chain EXCEPT ![n] = new]
    BY <2>5, <2>6, <2>7
  <2>9. [chain EXCEPT ![n] = new] \in Chain /\ Len([chain EXCEPT ![n] = new]) = Len(chain)
    BY <1>2, <2>8, SetChain
  <2> QED BY <2>8, <2>9
<1>6. CASE ~ Has(r, e.tvar)
  <2>1. \A j \in DOMAIN r.entries : r.entries[j].tvar # e.tvar
    BY <1>6 DEF Has
  <2>2. set = r.entries
    BY <1>2, <2>1 DEF set
  <2>3. ne \in EntryRec /\ ne.tvar = e.tvar
    <3>1. e.tvar \in TVars /\ e.expected \in Values /\ e.new \in Values
      BY DEF EntryRec
    <3> QED BY <3>1, NewEntryIs DEF ne
  <2>4. [entries |-> Append(r.entries, ne), state |-> state] \in TRec /\ Distinct([entries |-> Append(r.entries, ne), state |-> state])
    BY <1>2, <1>6, <2>3, TVarMore
  <2>5. MergeUpdate(chain, e) = [chain EXCEPT ![n] = [entries |-> Append(r.entries, ne), state |-> state]]
    <3>1. PICK es : es = IF Has(r, e.tvar) THEN set ELSE Append(set, ne)
      OBVIOUS
    <3>2. MergeUpdate(chain, e) = [chain EXCEPT ![n] = [entries |-> es, state |-> state]]
      BY <1>4, <3>1
    <3>3. es = Append(r.entries, ne)
      BY <1>6, <2>2, <3>1
    <3> QED BY <3>2, <3>3
  <2>6. PICK new : new = [entries |-> Append(r.entries, ne), state |-> state]
    OBVIOUS
  <2>7. new \in TRec /\ Distinct(new) /\ MergeUpdate(chain, e) = [chain EXCEPT ![n] = new]
    BY <2>4, <2>5, <2>6
  <2>8. [chain EXCEPT ![n] = new] \in Chain /\ Len([chain EXCEPT ![n] = new]) = Len(chain)
    BY <1>2, <2>7, SetChain
  <2> QED BY <2>7, <2>8
<1> QED BY <1>5, <1>6

LEMMA PastEnd ==
  ASSUME NEW n \in Nat, NEW m \in Nat, NEW i \in 1..(n + m), i \notin 1..n
  PROVE  \E a \in 1..m : i = n + a
<1>1. i - n \in 1..m /\ i = n + (i - n)
  OBVIOUS
<1> QED BY <1>1

LEMMA TVarsMore ==
  ASSUME NEW r \in TRec, Distinct(r), NEW x \in Seq(EntryRec), NEW state \in State,
         \A i, j \in DOMAIN x : x[i].tvar = x[j].tvar => i = j, \A i \in DOMAIN x : ~ Has(r, x[i].tvar)
  PROVE  [entries |-> r.entries \o x, state |-> state] \in TRec
         /\ Distinct([entries |-> r.entries \o x, state |-> state])
<1>1. PICK es \in Seq(EntryRec) : es = r.entries
  BY DEF TRec
<1>2. PICK q, n, m : q = es \o x /\ n = Len(es) /\ m = Len(x)
  OBVIOUS
<1>3. /\ q \in Seq(EntryRec) /\ n \in Nat /\ m \in Nat /\ Len(q) = n + m
      /\ DOMAIN es = 1..n /\ DOMAIN x = 1..m /\ DOMAIN q = 1..(n + m)
      /\ \A i \in 1..n : q[i] = es[i]
      /\ \A i \in 1..m : q[n + i] = x[i]
  <2>1. /\ es \o x \in Seq(EntryRec) /\ Len(es \o x) = Len(es) + Len(x)
        /\ \A i \in 1..(Len(es) + Len(x)) : (es \o x)[i] = IF i <= Len(es) THEN es[i] ELSE x[i - Len(es)]
    BY ConcatProperties
  <2>2. q \in Seq(EntryRec) /\ Len(q) = n + m /\ \A i \in 1..(n + m) : q[i] = IF i <= n THEN es[i] ELSE x[i - n]
    BY <1>2, <2>1
  <2>3. n \in Nat /\ m \in Nat /\ DOMAIN es = 1..n /\ DOMAIN x = 1..m
    BY <1>2
  <2>4. \A i \in 1..n : i \in 1..(n + m) /\ i <= n
    BY <2>3
  <2>5. \A i \in 1..m : n + i \in 1..(n + m) /\ ~ (n + i <= n) /\ (n + i) - n = i
    BY <2>3
  <2> QED BY <2>2, <2>3, <2>4, <2>5
<1>4. \A i, j \in 1..n : es[i].tvar = es[j].tvar => i = j
  BY <1>1, <1>3 DEF Distinct
<1>5. \A i \in 1..n, j \in 1..m : es[i].tvar # x[j].tvar
  BY <1>1, <1>3 DEF Has
<1>6. \A i, j \in 1..(n + m) : q[i].tvar = q[j].tvar => i = j
  <2> SUFFICES ASSUME NEW i \in 1..(n + m), NEW j \in 1..(n + m), q[i].tvar = q[j].tvar PROVE i = j
    OBVIOUS
  <2>0. n \in Nat /\ m \in Nat
    BY <1>3
  <2>1. CASE i \in 1..n /\ j \in 1..n
    BY <1>3, <1>4, <2>1
  <2>2. CASE i \notin 1..n /\ j \notin 1..n
    <3>1. PICK a \in 1..m, b \in 1..m : i = n + a /\ j = n + b
      BY <2>0, <2>2, PastEnd
    <3>2. q[i] = x[a] /\ q[j] = x[b]
      BY <1>3, <3>1
    <3> QED BY <1>3, <3>1, <3>2
  <2>3. CASE i \in 1..n /\ j \notin 1..n
    <3>1. PICK b \in 1..m : j = n + b
      BY <2>0, <2>3, PastEnd
    <3>2. q[i] = es[i] /\ q[j] = x[b]
      BY <1>3, <2>3, <3>1
    <3> QED BY <1>5, <2>3, <3>2
  <2>4. CASE i \notin 1..n /\ j \in 1..n
    <3>1. PICK a \in 1..m : i = n + a
      BY <2>0, <2>4, PastEnd
    <3>2. q[i] = x[a] /\ q[j] = es[j]
      BY <1>3, <2>4, <3>1
    <3> QED BY <1>5, <2>4, <3>2
  <2> QED BY <2>1, <2>2, <2>3, <2>4
<1>7. r.entries \o x = q
  BY <1>1, <1>2
<1> QED BY <1>3, <1>6, <1>7 DEF TRec, State, Distinct

LEMMA MergeReadsIs ==
  ASSUME NEW outer \in Chain, NEW inner \in TRec, Distinct(inner), NEW r \in MergeReads(outer, inner.entries)
  PROVE  r \in Chain /\ Len(r) = Len(outer)
<1>1. PICK es \in Seq(EntryRec) : es = inner.entries /\ \A i, j \in DOMAIN es : es[i].tvar = es[j].tvar => i = j
  BY DEF TRec, Distinct
<1>2. PICK U, m : U = Unknown(outer, es) /\ m = Cardinality(U)
  OBVIOUS
<1>3. U \subseteq 1..Len(es) /\ Len(es) \in Nat /\ m \in Nat
  <2>1. U \subseteq 1..Len(es) /\ Len(es) \in Nat
    BY <1>2 DEF Unknown
  <2>2. IsFiniteSet(1..Len(es))
    BY <2>1, FS_Interval
  <2>3. IsFiniteSet(U)
    BY <2>1, <2>2, FS_Subset
  <2> QED BY <1>2, <2>1, <2>3, FS_CardinalityType
<1>4. PICK q \in [1..m -> U] :
        /\ \A i, j \in 1..m : i # j => q[i] # q[j]
        /\ r = [k \in DOMAIN outer |->
                 [entries |-> outer[k].entries \o
                                (IF k = Len(outer)
                                 THEN [n \in DOMAIN q |-> NewEntry(es[q[n]].tvar, es[q[n]].expected, es[q[n]].expected)]
                                 ELSE <<>>),
                  state   |-> IF Clash(outer, es, k) THEN "condemned" ELSE outer[k].state]]
  <2>1. PICK q \in SetToSeqs(U) : r = [k \in DOMAIN outer |->
                 [entries |-> outer[k].entries \o
                                (IF k = Len(outer)
                                 THEN [n \in DOMAIN q |-> NewEntry(es[q[n]].tvar, es[q[n]].expected, es[q[n]].expected)]
                                 ELSE <<>>),
                  state   |-> IF Clash(outer, es, k) THEN "condemned" ELSE outer[k].state]]
    <3>1. r \in MergeReads(outer, es)
      BY <1>1
    <3> QED BY <1>2, <3>1, Zenon DEF MergeReads
  <2>2. q \in [1..m -> U] /\ \A i, j \in 1..m : i # j => q[i] # q[j]
    BY <1>2 DEF SetToSeqs
  <2> QED BY <2>1, <2>2
<1>5. PICK x : x = [n \in 1..m |-> NewEntry(es[q[n]].tvar, es[q[n]].expected, es[q[n]].expected)]
  OBVIOUS
<1>6. \A n \in 1..m : q[n] \in U /\ q[n] \in DOMAIN es /\ x[n] \in EntryRec /\ x[n].tvar = es[q[n]].tvar
  <2> SUFFICES ASSUME NEW n \in 1..m PROVE q[n] \in U /\ q[n] \in DOMAIN es /\ x[n] \in EntryRec /\ x[n].tvar = es[q[n]].tvar
    OBVIOUS
  <2>1. q[n] \in U /\ q[n] \in DOMAIN es
    <3>1. q[n] \in U /\ U \subseteq 1..Len(es)
      BY <1>3
    <3>2. DOMAIN es = 1..Len(es)
      OBVIOUS
    <3> QED BY <3>1, <3>2
  <2>2. es[q[n]] \in EntryRec
    BY <2>1
  <2>3. es[q[n]].tvar \in TVars /\ es[q[n]].expected \in Values
    BY <2>2 DEF EntryRec
  <2>4. x[n] = NewEntry(es[q[n]].tvar, es[q[n]].expected, es[q[n]].expected)
    BY <1>5
  <2> QED BY <2>1, <2>3, <2>4, NewEntryIs
<1>7. x \in Seq(EntryRec) /\ DOMAIN x = 1..m
  BY <1>3, <1>5, <1>6
<1>8. \A i, j \in DOMAIN x : x[i].tvar = x[j].tvar => i = j
  BY <1>1, <1>4, <1>6, <1>7
<1>9. Len(outer) \in Nat /\ DOMAIN outer = 1..Len(outer)
  BY ChainIs
<1>10. \A k \in 1..Len(outer) : \A i \in DOMAIN x : ~ Has(outer[k], x[i].tvar)
  BY <1>2, <1>6, <1>7, <1>9 DEF Unknown, Holders
<1>11. \A k \in 1..Len(outer) : r[k] \in TRec /\ Distinct(r[k])
  <2> SUFFICES ASSUME NEW k \in 1..Len(outer) PROVE r[k] \in TRec /\ Distinct(r[k])
    OBVIOUS
  <2>1. outer[k] \in TRec /\ Distinct(outer[k])
    BY ChainIs
  <2>2. PICK y : y = IF k = Len(outer) THEN x ELSE <<>>
    OBVIOUS
  <2>3. PICK state : state = IF Clash(outer, es, k) THEN "condemned" ELSE outer[k].state
    OBVIOUS
  <2>4. state \in State
    BY <2>1, <2>3 DEF TRec, State
  <2>5. r[k] = [entries |-> outer[k].entries \o y, state |-> state]
    <3>1. DOMAIN q = 1..m
      OBVIOUS
    <3> QED BY <1>4, <1>5, <1>9, <2>2, <2>3, <3>1
  <2>6. /\ y \in Seq(EntryRec) /\ \A i, j \in DOMAIN y : y[i].tvar = y[j].tvar => i = j
        /\ \A i \in DOMAIN y : ~ Has(outer[k], y[i].tvar)
    BY <1>7, <1>8, <1>10, <2>2
  <2>7. [entries |-> outer[k].entries \o y, state |-> state] \in TRec /\ Distinct([entries |-> outer[k].entries \o y, state |-> state])
    BY <2>1, <2>4, <2>6, TVarsMore
  <2> QED BY <2>5, <2>7
<1>12. DOMAIN r = 1..Len(outer)
  BY <1>4, <1>9
<1>13. r \in Seq(TRec) /\ Len(r) = Len(outer)
  <2>1. r = [k \in 1..Len(outer) |-> r[k]]
    BY <1>4, <1>9
  <2>2. r \in [1..Len(outer) -> TRec]
    BY <1>11, <2>1
  <2> QED BY <1>9, <2>2
<1> QED BY <1>11, <1>13 DEF Chain

LEMMA AbortIs ==
  ASSUME NEW chain \in Chain, Len(chain) >= 1, NEW r \in Abort(chain)
  PROVE  r \in Chain /\ Len(r) = Len(chain) - 1
<1>1. Front(chain) \in Chain /\ Len(Front(chain)) = Len(chain) - 1 /\ Last(chain) \in TRec /\ Distinct(Last(chain))
  BY FrontChain
<1> QED BY <1>1, MergeReadsIs DEF Abort

----------------------------------------------------------------------------
(* What a step of one thread leaves to the others *)

Elsewhere(t) ==
  \A u \in Threads \ {t} :
    /\ trecs'[u] = trecs[u] /\ frames'[u] = frames[u] /\ pc'[u] = pc[u] /\ op'[u] = op[u]
    /\ level'[u] = level[u] /\ idx'[u] = idx[u] /\ ok'[u] = ok[u] /\ snap'[u] = snap[u]
(* A TVar is locked when it is free, and unlocked by who locked it; what is *)
(* beneath the lock changes when an update is stored, its version raised   *)
(* before that.                                                            *)
ValueStep(t) ==
  \A s \in TVars : \/ value'[s] = value[s]
                   \/ value[s] \in Values /\ value'[s] = t
                   \/ value[s] = t /\ value'[s] \in Values
UnderStep(t) ==
  \A s \in TVars : value[s] = t \/ value'[s] = t => Under(s)' = Under(s) \/ (pc[t] = "store" /\ s = Here(t).tvar)
VersionStep(t) ==
  /\ \A s \in TVars : updates'[s] >= updates[s]
  /\ pc'[t] = "store" => \A s \in TVars : s = Here(t)'.tvar => updates'[s] > updates[s]
Effect(t) == Elsewhere(t) /\ ValueStep(t) /\ UnderStep(t) /\ VersionStep(t)

LEMMA Apart == ASSUME NEW t \in Threads PROVE t \notin Values
BY STMAssumption

LEMMA UnderKept ==
  ASSUME TypeInv, NEW t \in Threads, Elsewhere(t), ValueStep(t), UnderStep(t), NEW s \in TVars
  PROVE  Under(s)' = Under(s) \/ (pc[t] = "store" /\ s = Here(t).tvar)
<1>1. CASE value[s] = t \/ value'[s] = t
  BY <1>1 DEF UnderStep
<1>2. CASE value[s] # t /\ value'[s] # t
  <2>1. value'[s] = value[s]
    BY <1>2 DEF ValueStep
  <2>2. CASE value[s] \in Values
    BY <2>1, <2>2 DEF Under
  <2>3. CASE value[s] \notin Values
    <3>1. PICK u \in Threads \ {t} : u = value[s]
      BY <1>2, <2>3 DEF TypeInv
    <3>2. trecs'[u] = trecs[u] /\ level'[u] = level[u] /\ pc'[u] = pc[u]
      BY DEF Elsewhere
    <3>3. PICK c : c = Current(u)
      OBVIOUS
    <3>4. Current(u)' = c
      BY <3>2, <3>3 DEF Current
    <3>5. Under(s) = IF pc[u] = "remove" THEN Entry(c, s).new ELSE Entry(c, s).expected
      BY <2>3, <3>1, <3>3 DEF Under
    <3>6. Under(s)' = IF pc'[u] = "remove" THEN Entry(c, s).new ELSE Entry(c, s).expected
      BY <2>1, <2>3, <3>1, <3>4 DEF Under
    <3> QED BY <3>2, <3>5, <3>6
  <2> QED BY <2>2, <2>3
<1> QED BY <1>1, <1>2

LEMMA SampledKept ==
  ASSUME TypeInv, TypeInv', NEW t \in Threads, Effect(t), NEW e \in EntryRec, Sampled(e)
  PROVE  Sampled(e)'
<1>1. PICK s : s = e.tvar
  OBVIOUS
<1>2. s \in TVars /\ e.num \in Nat
  BY <1>1 DEF EntryRec
<1>3. updates[s] \in Nat /\ updates'[s] \in Nat /\ updates'[s] >= updates[s]
  BY <1>2 DEF TypeInv, Effect, VersionStep
<1>4. e.num <= updates[s] /\ (e.num = updates[s] => Under(s) = e.expected /\ ~ Storing(s))
  BY <1>1 DEF Sampled
<1>5. ASSUME e.num = updates'[s] PROVE Under(s)' = e.expected /\ ~ Storing(s)'
  <2>1. updates[s] = updates'[s] /\ e.num = updates[s]
    BY <1>2, <1>3, <1>4, <1>5
  <2>2. Under(s) = e.expected /\ ~ Storing(s)
    BY <1>4, <2>1
  <2>3. ~ (pc[t] = "store" /\ s = Here(t).tvar)
    BY <2>2 DEF Storing
  <2>4. Under(s)' = Under(s)
    BY <1>2, <2>3, UnderKept DEF Effect
  <2>5. ASSUME NEW u \in Threads, pc'[u] = "store", Here(u)'.tvar = s PROVE FALSE
    <3>1. CASE u = t
      <4>1. \A r \in TVars : r = Here(t)'.tvar => updates'[r] > updates[r]
        BY <2>5, <3>1 DEF Effect, VersionStep
      <4>2. updates'[s] > updates[s]
        BY <1>2, <2>5, <3>1, <4>1
      <4> QED BY <1>3, <2>1, <4>2
    <3>2. CASE u # t
      <4>1. pc[u] = "store" /\ Here(u)' = Here(u)
        BY <2>5, <3>2 DEF Effect, Elsewhere, Here, Current
      <4> QED BY <2>2, <2>5, <4>1 DEF Storing
    <3> QED BY <3>1, <3>2
  <2>6. ~ Storing(s)'
    BY <2>5 DEF Storing
  <2> QED BY <2>2, <2>4, <2>6
<1>6. e.num <= updates'[s]
  BY <1>2, <1>3, <1>4
<1> QED BY <1>1, <1>5, <1>6 DEF Sampled

SelfInv(t) == ThreadInv(t) /\ LockInv(t) /\ OwnInv(t) /\ SampleInv(t) /\ CheckInv(t)

(* The others' part of the invariant.                                      *)
LEMMA OthersI ==
  ASSUME IInv, TypeInv', NEW t \in Threads, Effect(t), NEW u \in Threads \ {t}
  PROVE  SelfInv(u)'
<1>1. /\ trecs'[u] = trecs[u] /\ frames'[u] = frames[u] /\ pc'[u] = pc[u] /\ op'[u] = op[u]
      /\ level'[u] = level[u] /\ idx'[u] = idx[u] /\ ok'[u] = ok[u] /\ snap'[u] = snap[u]
  BY DEF Effect, Elsewhere
<1>2. TypeInv /\ ThreadInv(u) /\ LockInv(u) /\ OwnInv(u) /\ SampleInv(u) /\ CheckInv(u)
  BY DEF IInv
<1>3. Es(u)' = Es(u) /\ Here(u)' = Here(u) /\ Committing(u)' = Committing(u)
  BY <1>1 DEF Es, Here, Current, Committing
<1>4. \A i : Wants(u, i)' = Wants(u, i) /\ MayHold(u, i)' = MayHold(u, i)
  BY <1>1, <1>3 DEF MayHold, Wants, AcquireAll, IsUpdate
<1>5. \A s \in TVars : value'[s] = u <=> value[s] = u
  BY Apart DEF Effect, ValueStep
<1>6. ThreadInv(u)'
  BY <1>1, <1>2, <1>3 DEF ThreadInv, IsUpdate
<1>7. LockInv(u)'
  BY <1>2, <1>3, <1>4, <1>5 DEF LockInv
<1>8. trecs[u] \in Chain
  BY <1>2 DEF TypeInv
<1>9. pc[u] \notin Resting => \A j \in DOMAIN Es(u) : Es(u)[j] \in EntryRec /\ Es(u)[j].tvar \in TVars
  <2>1. ASSUME pc[u] \notin Resting, NEW j \in DOMAIN Es(u) PROVE Es(u)[j] \in EntryRec
    <3>1. level[u] \in 1..Len(trecs[u])
      BY <1>2, <2>1 DEF ThreadInv
    <3>2. j \in 1..Len(trecs[u][level[u]].entries)
      BY <1>8, <2>1, <3>1, ChainIs DEF Es, Current
    <3> QED BY <1>8, <3>1, <3>2, ChainIs DEF Es, Current
  <2> QED BY <2>1 DEF EntryRec
<1>10. OwnInv(u)'
  <2>1. ASSUME pc[u] \in Working \ {"revert", "remove"}, NEW i \in DOMAIN Es(u), MayHold(u, i) PROVE value'[Es(u)[i].tvar] = u
    BY <1>2, <1>5, <1>9, <2>1 DEF OwnInv, Working, Resting
  <2> QED BY <1>1, <1>3, <1>4, <2>1 DEF OwnInv
<1>11. \A e \in EntryRec : Sampled(e) => Sampled(e)'
  BY <1>2, SampledKept
<1>12. \A s \in TVars : updates[s] \in Nat /\ updates'[s] \in Nat /\ updates'[s] >= updates[s]
  BY <1>2 DEF TypeInv, Effect, VersionStep
<1>13. SampleInv(u)'
  <2>1. ASSUME Committing(u), pc[u] \in {"lock", "sample", "reread"}, NEW j \in DOMAIN Es(u), j < idx[u], ~ IsUpdate(Es(u)[j])
        PROVE  Sampled(Es(u)[j])'
    <3>1. PICK e : e = Es(u)[j]
      OBVIOUS
    <3>2. e \in EntryRec /\ Sampled(e)
      BY <1>2, <1>9, <2>1, <3>1 DEF SampleInv, Resting
    <3>3. Sampled(e)'
      BY <1>11, <3>2
    <3>4. Es(u)'[j] = e
      BY <1>3, <3>1
    <3> QED BY <3>3, <3>4
  <2>2. ASSUME pc[u] = "reread" PROVE Here(u).num <= updates'[Here(u).tvar]
    <3>1. PICK e : e = Here(u)
      OBVIOUS
    <3>2. idx[u] \in DOMAIN Es(u) /\ Here(u).num <= updates[Here(u).tvar]
      BY <1>2, <2>2 DEF ThreadInv, SampleInv
    <3>3. e \in EntryRec
      BY <1>9, <2>2, <3>1, <3>2 DEF Here, Es, Resting
    <3>4. e.tvar \in TVars /\ e.num \in Nat
      BY <3>3 DEF EntryRec
    <3> QED BY <1>12, <3>1, <3>2, <3>4
  <2>3. \A j : IsUpdate(Es(u)[j])' = IsUpdate(Es(u)[j])
    BY <1>3 DEF IsUpdate
  <2> QED BY <1>1, <1>3, <2>1, <2>2, <2>3 DEF SampleInv
<1>14. CheckInv(u)'
  <2>1. ASSUME pc[u] = "check", ~ snap[u]
        PROVE  \E j \in DOMAIN Es(u) : j >= idx[u] /\ ~ IsUpdate(Es(u)[j]) /\ Es(u)[j].num < updates'[Es(u)[j].tvar]
    <3>1. PICK j \in DOMAIN Es(u) : j >= idx[u] /\ ~ IsUpdate(Es(u)[j]) /\ Es(u)[j].num < updates[Es(u)[j].tvar]
      BY <1>2, <2>1 DEF CheckInv
    <3>2. PICK e : e = Es(u)[j]
      OBVIOUS
    <3>3. e \in EntryRec
      BY <1>9, <2>1, <3>2 DEF Resting
    <3>4. e.tvar \in TVars /\ e.num \in Nat
      BY <3>3 DEF EntryRec
    <3>5. e.num < updates'[e.tvar]
      BY <1>12, <3>1, <3>2, <3>4
    <3> QED BY <3>1, <3>2, <3>5
  <2> QED BY <1>1, <1>2, <1>3, <2>1 DEF CheckInv, IsUpdate
<1> QED BY <1>6, <1>7, <1>10, <1>13, <1>14 DEF SelfInv

Kept(t) == IInv' /\ Effect(t)

LEMMA StepI ==
  ASSUME IInv, TypeInv', NEW t \in Threads, Effect(t), SelfInv(t)'
  PROVE  Kept(t)
<1>1. \A u \in Threads : SelfInv(u)'
  BY OthersI
<1> QED BY <1>1 DEF IInv, SelfInv, Kept

----------------------------------------------------------------------------
(* The steps of a thread that holds no lock, before or after *)

NoLocks(t) == \A s \in TVars : value[s] # t

LEMMA RestingNoLocks ==
  ASSUME IInv, NEW t \in Threads, pc[t] \in Resting
  PROVE  NoLocks(t)
BY DEF IInv, LockInv, MayHold, Resting, Working, NoLocks

LEMMA RevertedNoLocks ==
  ASSUME IInv, NEW t \in Threads, pc[t] = "revert", Owning(t) = {}
  PROVE  NoLocks(t)
<1> SUFFICES ASSUME NEW s \in TVars, value[s] = t PROVE FALSE
  BY DEF NoLocks
<1>1. PICK i \in DOMAIN Es(t) : MayHold(t, i) /\ Es(t)[i].tvar = s
  BY DEF IInv, LockInv
<1>2. AcquireAll(t) \/ IsUpdate(Es(t)[i])
  BY <1>1 DEF MayHold, Wants
<1>3. i \in Owning(t)
  BY <1>1, <1>2 DEF Owning, Es
<1> QED BY <1>3

LEMMA QuietStep ==
  ASSUME IInv, TypeInv', NEW t \in Threads, Elsewhere(t), value' = value, updates' = updates, NoLocks(t),
         ThreadInv(t)', pc'[t] \in Resting \cup {"lock", "revert", "remove"}, pc'[t] = "lock" => idx'[t] = 1
  PROVE  Kept(t)
<1>1. ValueStep(t) /\ UnderStep(t)
  BY DEF ValueStep, UnderStep, NoLocks
<1>2. VersionStep(t)
  <2>1. \A s \in TVars : updates[s] \in Nat
    BY DEF IInv, TypeInv
  <2>2. pc'[t] # "store"
    BY DEF Resting
  <2> QED BY <2>1, <2>2 DEF VersionStep
<1>3. LockInv(t)'
  BY DEF LockInv, NoLocks
<1>4. idx'[t] \in Nat /\ idx'[t] >= 1
  BY DEF TypeInv
<1>5. OwnInv(t)'
  <2> SUFFICES ASSUME pc'[t] = "lock", NEW i \in DOMAIN Es(t)', MayHold(t, i)' PROVE FALSE
    BY DEF OwnInv, Working, Resting
  <2>1. i \in 1..Len(trecs'[t][level'[t]].entries)
    <3>1. trecs'[t] \in Chain /\ level'[t] \in 1..Len(trecs'[t])
      BY DEF TypeInv, ThreadInv, Resting
    <3> QED BY <3>1, ChainIs DEF Es, Current
  <2>2. i < idx'[t]
    BY DEF MayHold
  <2> QED BY <2>1, <2>2
<1>6. SampleInv(t)'
  <2> SUFFICES ASSUME pc'[t] = "lock", NEW i \in DOMAIN Es(t)', i < idx'[t] PROVE FALSE
    BY DEF SampleInv, Resting
  <2>1. i \in 1..Len(trecs'[t][level'[t]].entries)
    <3>1. trecs'[t] \in Chain /\ level'[t] \in 1..Len(trecs'[t])
      BY DEF TypeInv, ThreadInv, Resting
    <3> QED BY <3>1, ChainIs DEF Es, Current
  <2> QED BY <2>1
<1>7. CheckInv(t)'
  BY DEF CheckInv, Resting
<1> QED BY <1>1, <1>2, <1>3, <1>5, <1>6, <1>7, StepI DEF Effect, SelfInv

(* Starting again, or leaving the transaction.                             *)
LEMMA ResetI ==
  ASSUME IInv, NEW t \in Threads, NoLocks(t), Restart(t) \/ Stop(t), value' = value, updates' = updates,
         watch' = watch, why' \in [Threads -> {"not", "stm"}], inbox' \subseteq Threads
  PROVE  Kept(t)
<1>1. PICK chain, stack, l :
        /\ Reset(t, chain, stack, l)
        /\ \/ chain = <<NewTRec("active")>> /\ stack = <<"atomically">> /\ l = "run"
           \/ chain = <<>> /\ stack = <<>> /\ l = "out"
  BY DEF Restart, Stop
<1>2. TypeInv
  BY DEF IInv
<1>3. chain \in Chain /\ ((l = "run" /\ Len(chain) = 1) \/ (l = "out" /\ chain = <<>>))
  <2>1. PICK r : r = NewTRec("active")
    OBVIOUS
  <2>2. r \in TRec /\ Distinct(r)
    BY <2>1, NewTRecIs
  <2>3. <<r>> \in Chain /\ Len(<<r>>) = 1
    BY <2>2 DEF Chain
  <2>4. <<>> \in Chain
    BY DEF Chain
  <2>5. (chain = <<r>> /\ l = "run") \/ (chain = <<>> /\ l = "out")
    BY <1>1, <2>1
  <2> QED BY <2>3, <2>4, <2>5
<1>4. trecs' = [trecs EXCEPT ![t] = chain] /\ frames' = [frames EXCEPT ![t] = stack] /\ pc' = [pc EXCEPT ![t] = l]
  BY <1>1 DEF Reset, Goto
<1>5. /\ op' = [op EXCEPT ![t] = "none"] /\ level' = [level EXCEPT ![t] = 1]
      /\ idx' = [idx EXCEPT ![t] = 1] /\ ok' = [ok EXCEPT ![t] = TRUE]
      /\ snap' = [snap EXCEPT ![t] = FALSE]
  BY <1>1 DEF Reset, Idle
<1>6. stack \in Seq(Frame) /\ ((l = "run" /\ Len(stack) = 1) \/ (l = "out" /\ stack = <<>>))
  <2>1. (stack = <<"atomically">> /\ l = "run") \/ (stack = <<>> /\ l = "out")
    BY <1>1
  <2>2. <<"atomically">> \in Seq(Frame) /\ Len(<<"atomically">>) = 1
    BY DEF Frame
  <2>3. <<>> \in Seq(Frame)
    OBVIOUS
  <2> QED BY <2>1, <2>2, <2>3
<1>7. TypeInv'
  BY <1>2, <1>3, <1>4, <1>5, <1>6 DEF TypeInv, Resting
<1>8. Elsewhere(t)
  BY <1>2, <1>4, <1>5 DEF TypeInv, Elsewhere
<1>9. /\ trecs'[t] = chain /\ frames'[t] = stack /\ pc'[t] = l /\ op'[t] = "none" /\ level'[t] = 1 /\ ok'[t] = TRUE
  BY <1>2, <1>4, <1>5 DEF TypeInv
<1>10. ThreadInv(t)'
  <2>1. CASE l = "run"
    BY <1>3, <1>6, <1>9, <2>1 DEF ThreadInv, Resting
  <2>2. CASE l = "out"
    BY <1>3, <1>6, <1>9, <2>2 DEF ThreadInv, Resting
  <2> QED BY <1>6, <2>1, <2>2
<1> QED BY <1>6, <1>7, <1>8, <1>9, <1>10, QuietStep DEF Resting

(* An operation of STM.c begins, or goes on with the next record.          *)
LEMMA ValidateI ==
  ASSUME IInv, NEW t \in Threads, NoLocks(t), NEW o \in Operation, NEW i \in 1..Len(trecs[t]), Validate(t, o, i),
         UNCHANGED <<tvars, trecs, frames, steps, sleep, history>>, pc[t] # "out",
         o # "kill", o \notin {"validate", "raise"} => ok[t],
         o = "commit" => Len(trecs[t]) = 1,
         o = "nested" => Len(trecs[t]) = Len(frames[t]) /\ i = Len(trecs[t]) /\ i > 1,
         o = "wait" => i = Len(trecs[t]), o = "rewait" => i = 1
  PROVE  Kept(t)
<1>1. TypeInv /\ ThreadInv(t)
  BY DEF IInv
<1>2. PICK valid \in BOOLEAN : valid = (trecs[t][i].state # "condemned")
  OBVIOUS
<1>3. /\ op' = [op EXCEPT ![t] = o] /\ level' = [level EXCEPT ![t] = i]
      /\ idx' = [idx EXCEPT ![t] = 1] /\ ok' = [ok EXCEPT ![t] = @ /\ valid]
      /\ pc' = [pc EXCEPT ![t] = IF valid THEN "lock" ELSE "revert"]
  BY <1>2 DEF Validate, Goto
<1>4. value' = value /\ updates' = updates /\ watch' = watch /\ trecs' = trecs /\ frames' = frames
      /\ why' = why /\ inbox' = inbox /\ snap' = snap
  BY DEF tvars, sleep, history
<1>5. trecs[t] \in Chain
  BY <1>1 DEF TypeInv
<1>6. i \in Nat \ {0}
  BY <1>5, ChainIs
<1>7. TypeInv'
  BY <1>1, <1>3, <1>4, <1>6 DEF TypeInv, Working
<1>8. Elsewhere(t)
  BY <1>1, <1>3, <1>4 DEF TypeInv, Elsewhere
<1>9. /\ trecs'[t] = trecs[t] /\ frames'[t] = frames[t] /\ pc'[t] = (IF valid THEN "lock" ELSE "revert") /\ op'[t] = o
      /\ level'[t] = i /\ idx'[t] = 1 /\ ok'[t] = (ok[t] /\ valid)
  BY <1>1, <1>3, <1>4 DEF TypeInv
<1>10. ThreadInv(t)'
  BY <1>1, <1>9 DEF ThreadInv, Resting, Working, Operation
<1> QED BY <1>4, <1>7, <1>8, <1>9, <1>10, QuietStep

(* Between two operations of STM.c, with other records and frames.         *)
LEMMA RestI ==
  ASSUME IInv, NEW t \in Threads, NoLocks(t), NEW chain \in Chain, NEW stack \in Seq(Frame), NEW l \in Resting \ {"out"},
         Len(stack) >= 1, Len(stack) <= Len(chain),
         trecs' = [trecs EXCEPT ![t] = chain], frames' = [frames EXCEPT ![t] = stack], pc' = [pc EXCEPT ![t] = l],
         Idle(t) \/ (pc[t] \in Resting /\ UNCHANGED <<scan, snap>>),
         value' = value, updates' = updates, watch' = watch, why' \in [Threads -> {"not", "stm"}], inbox' \subseteq Threads
  PROVE  Kept(t)
<1>1. TypeInv /\ ThreadInv(t)
  BY DEF IInv
<1>2. /\ op' = [op EXCEPT ![t] = "none"] /\ level' = [level EXCEPT ![t] = 1]
      /\ ok' = [ok EXCEPT ![t] = TRUE]
      /\ \E i \in Nat \ {0} : idx' = [idx EXCEPT ![t] = i]
      /\ \E b \in BOOLEAN : snap' = [snap EXCEPT ![t] = b]
  <2>1. CASE Idle(t)
    <3>1. 1 \in Nat \ {0} /\ FALSE \in BOOLEAN
      OBVIOUS
    <3> QED BY <2>1, <3>1, Zenon DEF Idle
  <2>2. CASE pc[t] \in Resting /\ UNCHANGED <<scan, snap>>
    <3>1. op' = op /\ level' = level /\ idx' = idx /\ ok' = ok /\ snap' = snap
      BY <2>2 DEF scan
    <3>2. op[t] = "none" /\ level[t] = 1 /\ ok[t] = TRUE
      BY <1>1, <2>2 DEF ThreadInv, TypeInv
    <3>3. op' = [op EXCEPT ![t] = op[t]] /\ level' = [level EXCEPT ![t] = level[t]] /\ ok' = [ok EXCEPT ![t] = ok[t]]
          /\ idx' = [idx EXCEPT ![t] = idx[t]] /\ snap' = [snap EXCEPT ![t] = snap[t]]
          /\ idx[t] \in Nat \ {0} /\ snap[t] \in BOOLEAN
      BY <1>1, <3>1 DEF TypeInv
    <3> QED BY <3>2, <3>3
  <2> QED BY <2>1, <2>2
<1>3. PICK i \in Nat \ {0}, b \in BOOLEAN : idx' = [idx EXCEPT ![t] = i] /\ snap' = [snap EXCEPT ![t] = b]
  BY <1>2
<1>4. TypeInv'
  BY <1>1, <1>2, <1>3 DEF TypeInv
<1>5. Elsewhere(t)
  BY <1>1, <1>2, <1>3 DEF TypeInv, Elsewhere
<1>6. trecs'[t] = chain /\ frames'[t] = stack /\ pc'[t] = l /\ op'[t] = "none" /\ level'[t] = 1 /\ ok'[t] = TRUE
  BY <1>1, <1>2 DEF TypeInv
<1>7. ThreadInv(t)'
  BY <1>6 DEF ThreadInv, Resting
<1> QED BY <1>4, <1>5, <1>6, <1>7, QuietStep DEF Resting

(* What a thread in a transaction has.                                     *)
LEMMA NestIs ==
  ASSUME IInv, NEW t \in Threads, pc[t] # "out"
  PROVE  /\ trecs[t] \in Chain /\ frames[t] \in Seq(Frame) /\ Len(trecs[t]) \in Nat /\ Len(frames[t]) \in Nat
         /\ Len(frames[t]) >= 1 /\ Len(frames[t]) <= Len(trecs[t])
<1>1. trecs[t] \in Chain /\ frames[t] \in Seq(Frame) /\ Len(frames[t]) >= 1 /\ Len(frames[t]) <= Len(trecs[t])
  BY DEF IInv, TypeInv, ThreadInv
<1> QED BY <1>1, ChainIs

LEMMA CurrentIs ==
  ASSUME IInv, NEW t \in Threads, pc[t] \in Working
  PROVE  /\ level[t] \in 1..Len(trecs[t]) /\ Current(t) \in TRec /\ Distinct(Current(t)) /\ Es(t) \in Seq(EntryRec)
         /\ Len(Es(t)) \in Nat /\ DOMAIN Es(t) = 1..Len(Es(t)) /\ idx[t] \in Nat \ {0}
         /\ \A i \in DOMAIN Es(t) : /\ Es(t)[i] \in EntryRec /\ Es(t)[i].tvar \in TVars /\ Es(t)[i].num \in Nat
                                    /\ Es(t)[i].expected \in Values /\ Es(t)[i].new \in Values
<1>1. level[t] \in 1..Len(trecs[t]) /\ idx[t] \in Nat \ {0} /\ trecs[t] \in Chain
  BY DEF IInv, TypeInv, ThreadInv, Resting, Working
<1>2. /\ Current(t) \in TRec /\ Distinct(Current(t)) /\ Es(t) \in Seq(EntryRec)
      /\ Len(Es(t)) \in Nat /\ DOMAIN Es(t) = 1..Len(Es(t))
      /\ \A i \in 1..Len(Es(t)) : Es(t)[i] \in EntryRec
  BY <1>1, ChainIs DEF Current, Es
<1> QED BY <1>1, <1>2 DEF EntryRec

LEMMA ReadWriteI ==
  ASSUME IInv, NEW t \in Threads, NEW s \in TVars, ReadTVar(t, s) \/ \E v \in Values : WriteTVar(t, s, v)
  PROVE  Kept(t)
<1>1. Step(t) /\ Readable(t, s) /\ UNCHANGED frames
  BY DEF ReadTVar, WriteTVar
<1>2. pc[t] = "run" /\ UNCHANGED <<tvars, pc, scan, sleep, log, snap>>
  BY <1>1 DEF Step
<1>3. TypeInv
  BY DEF IInv
<1>4. FoundEntry(t, s) \in EntryRec /\ FoundEntry(t, s).tvar = s
  BY <1>1, <1>3, FoundEntryIs
<1>5. \E e \in EntryRec : e.tvar = s /\ Put(t, s, e)
  <2>1. CASE ReadTVar(t, s)
    BY <1>4, <2>1 DEF ReadTVar
  <2>2. ASSUME NEW v \in Values, WriteTVar(t, s, v) PROVE \E e \in EntryRec : e.tvar = s /\ Put(t, s, e)
    <3>1. PICK f : f = FoundEntry(t, s)
      OBVIOUS
    <3>2. [f EXCEPT !.new = v] \in EntryRec /\ [f EXCEPT !.new = v].tvar = s
      BY <1>4, <3>1 DEF EntryRec
    <3>3. Put(t, s, [f EXCEPT !.new = v])
      BY <2>2, <3>1 DEF WriteTVar
    <3> QED BY <3>2, <3>3
  <2> QED BY <2>1, <2>2
<1>6. Len(trecs[t]) >= 1 /\ frames[t] \in Seq(Frame) /\ Len(frames[t]) >= 1 /\ Len(frames[t]) <= Len(trecs[t])
  BY <1>2, NestIs
<1>7. PICK chain \in Chain : trecs' = [trecs EXCEPT ![t] = chain] /\ Len(chain) = Len(trecs[t])
  BY <1>3, <1>5, <1>6, PutIs
<1>8. frames' = [frames EXCEPT ![t] = frames[t]] /\ pc' = [pc EXCEPT ![t] = "run"]
  BY <1>1, <1>2, <1>3 DEF TypeInv
<1>9. NoLocks(t)
  BY <1>2, RestingNoLocks DEF Resting
<1>10. value' = value /\ updates' = updates /\ watch' = watch /\ why' \in [Threads -> {"not", "stm"}] /\ inbox' \subseteq Threads
  BY <1>2, <1>3 DEF TypeInv, tvars, sleep
<1> QED BY <1>2, <1>6, <1>7, <1>8, <1>9, <1>10, RestI DEF Resting

LEMMA AppendFrame ==
  ASSUME NEW stack \in Seq(Frame), NEW f \in Frame
  PROVE  Append(stack, f) \in Seq(Frame) /\ Len(Append(stack, f)) = Len(stack) + 1
BY AppendProperties

LEMMA NestI ==
  ASSUME IInv, NEW t \in Threads, NEW f \in {"orElse", "catchSTM"}, Nest(t, f)
  PROVE  Kept(t)
<1>1. pc[t] = "run" /\ UNCHANGED <<tvars, pc, scan, steps, sleep, history>>
  BY DEF Nest
<1>2. TypeInv
  BY DEF IInv
<1>3. PICK n, m : n = Len(trecs[t]) /\ m = Len(frames[t])
  OBVIOUS
<1>4. trecs[t] \in Chain /\ frames[t] \in Seq(Frame) /\ n \in Nat /\ m \in Nat /\ m >= 1 /\ m <= n
  BY <1>1, <1>3, NestIs
<1>5. PICK r : r = NewTRec(Inner(t).state)
  OBVIOUS
<1>6. r \in TRec /\ Distinct(r)
  <2>1. n \in 1..n
    BY <1>4
  <2>2. Inner(t) \in TRec
    BY <1>3, <1>4, <2>1, ChainIs DEF Inner, Last
  <2>3. Inner(t).state \in {"active", "condemned", "waiting"}
    BY <2>2 DEF TRec
  <2> QED BY <1>5, <2>3, NewTRecIs
<1>7. Append(trecs[t], r) \in Chain /\ Len(Append(trecs[t], r)) = n + 1
  BY <1>3, <1>4, <1>6, AppendChain
<1>8. Append(frames[t], f) \in Seq(Frame) /\ Len(Append(frames[t], f)) = m + 1
  BY <1>3, <1>4, AppendFrame DEF Frame
<1>9. trecs' = [trecs EXCEPT ![t] = Append(trecs[t], r)] /\ frames' = [frames EXCEPT ![t] = Append(frames[t], f)]
  BY <1>2, <1>5 DEF Nest
<1>10. pc' = [pc EXCEPT ![t] = "run"]
  BY <1>1, <1>2 DEF TypeInv
<1>11. value' = value /\ updates' = updates /\ watch' = watch /\ why' \in [Threads -> {"not", "stm"}] /\ inbox' \subseteq Threads
       /\ UNCHANGED <<scan, snap>>
  BY <1>1, <1>2 DEF TypeInv, tvars, sleep, history
<1>12. NoLocks(t) /\ "run" \in Resting \ {"out"}
  BY <1>1, RestingNoLocks DEF Resting
<1>13. m + 1 >= 1 /\ m + 1 <= n + 1
  BY <1>4
<1>14. PICK chain \in Chain, stack \in Seq(Frame) : /\ Len(stack) >= 1 /\ Len(stack) <= Len(chain)
                                                   /\ trecs' = [trecs EXCEPT ![t] = chain] /\ frames' = [frames EXCEPT ![t] = stack]
  BY <1>7, <1>8, <1>9, <1>13
<1> QED BY <1>1, <1>10, <1>11, <1>12, <1>14, RestI

(* A retry and an exception on their way out.                              *)
LEMMA OutwardsI ==
  ASSUME IInv, NEW t \in Threads, Retry(t) \/ Raise(t)
  PROVE  Kept(t)
<1>1. pc[t] = "run" /\ UNCHANGED <<tvars, trecs, frames, scan, steps, sleep, history>>
  BY DEF Retry, Raise
<1>2. PICK l \in {"retry", "raise"} : pc' = [pc EXCEPT ![t] = l]
  BY DEF Retry, Raise, Goto
<1>3. TypeInv
  BY DEF IInv
<1>4. trecs[t] \in Chain /\ frames[t] \in Seq(Frame) /\ Len(frames[t]) >= 1 /\ Len(frames[t]) <= Len(trecs[t])
  BY <1>1, NestIs
<1>5. trecs' = [trecs EXCEPT ![t] = trecs[t]] /\ frames' = [frames EXCEPT ![t] = frames[t]]
  BY <1>1, <1>3 DEF TypeInv
<1>6. value' = value /\ updates' = updates /\ watch' = watch /\ why' \in [Threads -> {"not", "stm"}] /\ inbox' \subseteq Threads
      /\ UNCHANGED <<scan, snap>>
  BY <1>1, <1>3 DEF TypeInv, tvars, sleep, history
<1>7. NoLocks(t) /\ l \in Resting \ {"out"} /\ pc[t] \in Resting
  BY <1>1, RestingNoLocks DEF Resting
<1> QED BY <1>2, <1>4, <1>5, <1>6, <1>7, RestI

LEMMA FrontFrame ==
  ASSUME NEW stack \in Seq(Frame), Len(stack) > 1
  PROVE  Front(stack) \in Seq(Frame) /\ Len(Front(stack)) = Len(stack) - 1
BY FrontIs

LEMMA RetryFrameI ==
  ASSUME IInv, NEW t \in Threads, RetryFrame(t)
  PROVE  Kept(t)
<1>1. pc[t] = "retry" /\ Len(frames[t]) > 1 /\ UNCHANGED <<tvars, scan, steps, sleep, history>>
  BY DEF RetryFrame
<1>2. TypeInv
  BY DEF IInv
<1>3. PICK n, m : n = Len(trecs[t]) /\ m = Len(frames[t])
  OBVIOUS
<1>4. trecs[t] \in Chain /\ frames[t] \in Seq(Frame) /\ n \in Nat /\ m \in Nat /\ m >= 1 /\ m <= n /\ m > 1
  BY <1>1, <1>3, NestIs
<1>5. PICK outer \in Abort(trecs[t]) :
        \/ /\ trecs' = [trecs EXCEPT ![t] = Append(outer, NewTRec(Last(outer).state))]
           /\ frames' = [frames EXCEPT ![t] = Append(Front(frames[t]), "alternative")]
           /\ pc' = [pc EXCEPT ![t] = "run"]
        \/ /\ trecs' = [trecs EXCEPT ![t] = outer]
           /\ frames' = [frames EXCEPT ![t] = Front(frames[t])]
           /\ pc' = pc
  BY DEF RetryFrame, Goto
<1>6. outer \in Chain /\ Len(outer) = n - 1
  BY <1>3, <1>4, AbortIs
<1>7. Front(frames[t]) \in Seq(Frame) /\ Len(Front(frames[t])) = m - 1
  BY <1>3, <1>4, FrontFrame
<1>8. value' = value /\ updates' = updates /\ watch' = watch /\ why' \in [Threads -> {"not", "stm"}] /\ inbox' \subseteq Threads
       /\ UNCHANGED <<scan, snap>>
  BY <1>1, <1>2 DEF TypeInv, tvars, sleep, history
<1>9. NoLocks(t) /\ pc[t] \in Resting
  BY <1>1, RestingNoLocks DEF Resting
<1>10. CASE /\ trecs' = [trecs EXCEPT ![t] = Append(outer, NewTRec(Last(outer).state))]
            /\ frames' = [frames EXCEPT ![t] = Append(Front(frames[t]), "alternative")]
            /\ pc' = [pc EXCEPT ![t] = "run"]
  <2>1. PICK r : r = NewTRec(Last(outer).state)
    OBVIOUS
  <2>2. r \in TRec /\ Distinct(r)
    <3>1. n - 1 \in 1..(n - 1)
      BY <1>4
    <3>2. Last(outer) \in TRec
      BY <1>6, <3>1, ChainIs DEF Last
    <3>3. Last(outer).state \in {"active", "condemned", "waiting"}
      BY <3>2 DEF TRec
    <3> QED BY <2>1, <3>3, NewTRecIs
  <2>3. Append(outer, r) \in Chain /\ Len(Append(outer, r)) = (n - 1) + 1
    BY <1>6, <2>2, AppendChain
  <2>4. PICK front : front = Front(frames[t])
    OBVIOUS
  <2>5. Append(front, "alternative") \in Seq(Frame) /\ Len(Append(front, "alternative")) = (m - 1) + 1
    BY <1>7, <2>4, AppendFrame DEF Frame
  <2>6. (m - 1) + 1 >= 1 /\ (m - 1) + 1 <= (n - 1) + 1
    BY <1>4
  <2>7. trecs' = [trecs EXCEPT ![t] = Append(outer, r)] /\ frames' = [frames EXCEPT ![t] = Append(front, "alternative")]
    BY <1>10, <2>1, <2>4
  <2>8. "run" \in Resting \ {"out"}
    BY DEF Resting
  <2>9. PICK chain \in Chain, stack \in Seq(Frame) : /\ Len(stack) >= 1 /\ Len(stack) <= Len(chain)
                                                    /\ trecs' = [trecs EXCEPT ![t] = chain] /\ frames' = [frames EXCEPT ![t] = stack]
    BY <2>3, <2>5, <2>6, <2>7
  <2> QED BY <1>8, <1>9, <1>10, <2>8, <2>9, RestI
<1>11. CASE trecs' = [trecs EXCEPT ![t] = outer] /\ frames' = [frames EXCEPT ![t] = Front(frames[t])] /\ pc' = pc
  <2>1. pc' = [pc EXCEPT ![t] = "retry"] /\ "retry" \in Resting \ {"out"}
    BY <1>1, <1>2, <1>11 DEF TypeInv, Resting
  <2>2. m - 1 >= 1 /\ m - 1 <= n - 1
    BY <1>4
  <2>3. PICK stack \in Seq(Frame) : Len(stack) >= 1 /\ Len(stack) <= Len(outer) /\ frames' = [frames EXCEPT ![t] = stack]
    BY <1>6, <1>7, <1>11, <2>2
  <2>4. trecs' = [trecs EXCEPT ![t] = outer]
    BY <1>11
  <2> QED BY <1>6, <1>8, <1>9, <2>1, <2>3, <2>4, RestI
<1> QED BY <1>5, <1>10, <1>11

LEMMA RaiseFrameI ==
  ASSUME IInv, NEW t \in Threads, RaiseFrame(t)
  PROVE  Kept(t)
<1>1. pc[t] = "raise" /\ Len(frames[t]) > 1 /\ UNCHANGED <<tvars, scan, steps, sleep, history>>
  BY DEF RaiseFrame
<1>2. TypeInv
  BY DEF IInv
<1>3. PICK n, m : n = Len(trecs[t]) /\ m = Len(frames[t])
  OBVIOUS
<1>4. trecs[t] \in Chain /\ frames[t] \in Seq(Frame) /\ n \in Nat /\ m \in Nat /\ m >= 1 /\ m <= n /\ m > 1
  BY <1>1, <1>3, NestIs
<1>5. \E outer \in Chain, l \in {"run", "raise"} :
        /\ Len(outer) >= n - 1 /\ trecs' = [trecs EXCEPT ![t] = outer] /\ pc' = [pc EXCEPT ![t] = l]
  <2>1. CASE Last(frames[t]) = "catchSTM"
    <3>1. PICK outer \in Abort(trecs[t]) : trecs' = [trecs EXCEPT ![t] = outer]
      BY <2>1 DEF RaiseFrame
    <3>2. outer \in Chain /\ Len(outer) = n - 1 /\ n - 1 >= n - 1
      BY <1>3, <1>4, AbortIs
    <3>3. pc' = [pc EXCEPT ![t] = "run"]
      BY <2>1 DEF RaiseFrame, Goto
    <3> QED BY <3>1, <3>2, <3>3
  <2>2. CASE Last(frames[t]) # "catchSTM"
    <3>1. trecs' = [trecs EXCEPT ![t] = trecs[t]] /\ pc' = [pc EXCEPT ![t] = "raise"]
      BY <1>1, <1>2, <2>2 DEF TypeInv, RaiseFrame
    <3>2. n >= n - 1
      BY <1>4
    <3> QED BY <1>3, <1>4, <3>1, <3>2
  <2> QED BY <2>1, <2>2
<1>6. PICK outer \in Chain, l \in {"run", "raise"} :
        /\ Len(outer) >= n - 1 /\ trecs' = [trecs EXCEPT ![t] = outer] /\ pc' = [pc EXCEPT ![t] = l]
  BY <1>5
<1>7. Front(frames[t]) \in Seq(Frame) /\ Len(Front(frames[t])) = m - 1
  BY <1>3, <1>4, FrontFrame
<1>8. value' = value /\ updates' = updates /\ watch' = watch /\ why' \in [Threads -> {"not", "stm"}] /\ inbox' \subseteq Threads
       /\ UNCHANGED <<scan, snap>>
  BY <1>1, <1>2 DEF TypeInv, tvars, sleep, history
<1>9. NoLocks(t) /\ pc[t] \in Resting /\ l \in Resting \ {"out"}
  BY <1>1, RestingNoLocks DEF Resting
<1>10. frames' = [frames EXCEPT ![t] = Front(frames[t])]
  BY DEF RaiseFrame
<1>11. m - 1 >= 1 /\ m - 1 <= Len(outer)
  <2>1. Len(outer) \in Nat
    BY ChainIs
  <2> QED BY <1>4, <1>6, <2>1
<1> QED BY <1>6, <1>7, <1>8, <1>9, <1>10, <1>11, RestI

(* Nothing is held when the entries have all been gone through.            *)
LEMMA PastNoLocks ==
  ASSUME IInv, NEW t \in Threads, pc[t] \in {"write", "merge", "remove"},
         (pc[t] # "write" /\ ~ More(t)) \/ (pc[t] = "write" /\ ToWrite(t) = {})
  PROVE  NoLocks(t)
<1> SUFFICES ASSUME NEW s \in TVars, value[s] = t PROVE FALSE
  BY DEF NoLocks
<1>1. PICK i \in DOMAIN Es(t) : MayHold(t, i) /\ Es(t)[i].tvar = s
  BY DEF IInv, LockInv
<1>2. DOMAIN Es(t) = 1..Len(Es(t)) /\ Len(Es(t)) \in Nat /\ idx[t] \in Nat \ {0}
  BY CurrentIs DEF Working
<1>3. CASE pc[t] = "write"
  <2>1. i >= idx[t] /\ IsUpdate(Es(t)[i])
    BY <1>1, <1>3 DEF MayHold
  <2>2. i \in ToWrite(t)
    BY <1>1, <2>1 DEF ToWrite, Es
  <2> QED BY <1>3, <2>2
<1>4. CASE pc[t] # "write"
  <2>1. i >= idx[t]
    BY <1>1, <1>2, <1>4 DEF MayHold
  <2>2. idx[t] <= Len(Es(t))
    BY <1>2, <2>1
  <2> QED BY <1>4, <2>2 DEF More, Es
<1> QED BY <1>3, <1>4

LEMMA MergedI ==
  ASSUME IInv, NEW t \in Threads, Merged(t)
  PROVE  Kept(t)
<1>1. pc[t] = "merge" /\ ~ More(t) /\ UNCHANGED <<tvars, steps, sleep, seen, log>> /\ Idle(t)
  BY DEF Merged
<1>2. TypeInv /\ ThreadInv(t)
  BY DEF IInv
<1>3. NoLocks(t)
  BY <1>1, PastNoLocks
<1>4. op[t] = "nested"
  BY <1>1, <1>2 DEF TypeInv, ThreadInv, Operation, Resting, Working
<1>5. PICK n : n = Len(trecs[t])
  OBVIOUS
<1>6. trecs[t] \in Chain /\ frames[t] \in Seq(Frame) /\ n \in Nat /\ Len(frames[t]) = n /\ n > 1
  <2>1. trecs[t] \in Chain /\ frames[t] \in Seq(Frame) /\ n \in Nat
    BY <1>1, <1>5, NestIs
  <2>2. Len(frames[t]) = n /\ level[t] = n /\ level[t] > 1
    BY <1>2, <1>4, <1>5 DEF ThreadInv
  <2> QED BY <2>1, <2>2
<1>7. Front(trecs[t]) \in Chain /\ Len(Front(trecs[t])) = n - 1
  BY <1>5, <1>6, FrontChain
<1>8. Front(frames[t]) \in Seq(Frame) /\ Len(Front(frames[t])) = n - 1
  BY <1>6, FrontFrame
<1>9. PICK chain \in Chain, stack \in Seq(Frame) : /\ Len(stack) >= 1 /\ Len(stack) <= Len(chain)
                                                  /\ trecs' = [trecs EXCEPT ![t] = chain] /\ frames' = [frames EXCEPT ![t] = stack]
  <2>1. trecs' = [trecs EXCEPT ![t] = Front(trecs[t])] /\ frames' = [frames EXCEPT ![t] = Front(frames[t])]
    BY <1>2 DEF Merged, TypeInv
  <2>2. n - 1 >= 1 /\ n - 1 <= n - 1
    BY <1>6
  <2> QED BY <1>7, <1>8, <2>1, <2>2
<1>10. pc' = [pc EXCEPT ![t] = "run"] /\ "run" \in Resting \ {"out"}
  BY DEF Merged, Goto, Resting
<1>11. value' = value /\ updates' = updates /\ watch' = watch /\ why' \in [Threads -> {"not", "stm"}] /\ inbox' \subseteq Threads
  BY <1>1, <1>2 DEF TypeInv, tvars, sleep
<1> QED BY <1>1, <1>3, <1>9, <1>10, <1>11, RestI

LEMMA InvalidNestedI ==
  ASSUME IInv, NEW t \in Threads, InvalidNested(t)
  PROVE  Kept(t)
<1>1. pc[t] = "revert" /\ op[t] = "nested" /\ Owning(t) = {} /\ UNCHANGED <<tvars, frames, steps, sleep, log>> /\ Idle(t)
  BY DEF InvalidNested, Reverted
<1>2. TypeInv /\ ThreadInv(t)
  BY DEF IInv
<1>3. NoLocks(t)
  BY <1>1, RevertedNoLocks
<1>4. PICK n, outer, r : n = Len(trecs[t]) /\ outer = Front(trecs[t]) /\ r = NewTRec(Last(outer).state)
  OBVIOUS
<1>5. trecs[t] \in Chain /\ frames[t] \in Seq(Frame) /\ n \in Nat /\ Len(frames[t]) = n /\ n > 1
  <2>1. trecs[t] \in Chain /\ frames[t] \in Seq(Frame) /\ n \in Nat
    BY <1>1, <1>4, NestIs
  <2>2. Len(frames[t]) = n /\ level[t] = n /\ level[t] > 1
    BY <1>1, <1>2, <1>4 DEF ThreadInv
  <2> QED BY <2>1, <2>2
<1>6. outer \in Chain /\ Len(outer) = n - 1
  BY <1>4, <1>5, FrontChain
<1>7. r \in TRec /\ Distinct(r)
  <2>1. n - 1 \in 1..(n - 1)
    BY <1>5
  <2>2. Last(outer) \in TRec
    BY <1>6, <2>1, ChainIs DEF Last
  <2>3. Last(outer).state \in {"active", "condemned", "waiting"}
    BY <2>2 DEF TRec
  <2> QED BY <1>4, <2>3, NewTRecIs
<1>8. Append(outer, r) \in Chain /\ Len(Append(outer, r)) = (n - 1) + 1
  BY <1>6, <1>7, AppendChain
<1>9. PICK chain \in Chain, stack \in Seq(Frame) : /\ Len(stack) >= 1 /\ Len(stack) <= Len(chain)
                                                  /\ trecs' = [trecs EXCEPT ![t] = chain] /\ frames' = [frames EXCEPT ![t] = stack]
  <2>1. trecs' = [trecs EXCEPT ![t] = Append(outer, r)]
    BY <1>4 DEF InvalidNested
  <2>2. frames' = [frames EXCEPT ![t] = frames[t]]
    BY <1>1, <1>2 DEF TypeInv
  <2>3. n >= 1 /\ n <= (n - 1) + 1
    BY <1>5
  <2> QED BY <1>5, <1>8, <2>1, <2>2, <2>3
<1>10. pc' = [pc EXCEPT ![t] = "run"] /\ "run" \in Resting \ {"out"}
  BY DEF InvalidNested, Goto, Resting
<1>11. value' = value /\ updates' = updates /\ watch' = watch /\ why' \in [Threads -> {"not", "stm"}] /\ inbox' \subseteq Threads
  BY <1>1, <1>2 DEF TypeInv, tvars, sleep
<1> QED BY <1>1, <1>3, <1>9, <1>10, <1>11, RestI

LEMMA AsleepI ==
  ASSUME IInv, NEW t \in Threads, Asleep(t)
  PROVE  Kept(t)
<1>1. pc[t] = "revert" /\ Owning(t) = {} /\ UNCHANGED <<tvars, trecs, frames, steps, sleep, seen, log>> /\ Idle(t)
  BY DEF Asleep, Reverted
<1>2. TypeInv
  BY DEF IInv
<1>3. NoLocks(t)
  BY <1>1, RevertedNoLocks
<1>4. trecs[t] \in Chain /\ frames[t] \in Seq(Frame) /\ Len(frames[t]) >= 1 /\ Len(frames[t]) <= Len(trecs[t])
  BY <1>1, NestIs
<1>5. trecs' = [trecs EXCEPT ![t] = trecs[t]] /\ frames' = [frames EXCEPT ![t] = frames[t]]
  BY <1>1, <1>2 DEF TypeInv
<1>6. pc' = [pc EXCEPT ![t] = "parked"] /\ "parked" \in Resting \ {"out"}
  BY DEF Asleep, Goto, Resting
<1>7. value' = value /\ updates' = updates /\ watch' = watch /\ why' \in [Threads -> {"not", "stm"}] /\ inbox' \subseteq Threads
  BY <1>1, <1>2 DEF TypeInv, tvars, sleep
<1> QED BY <1>1, <1>3, <1>4, <1>5, <1>6, <1>7, RestI

LEMMA ValidatedI ==
  ASSUME IInv, NEW t \in Threads, Validated(t)
  PROVE  Kept(t)
<1>1. pc[t] = "revert" /\ Owning(t) = {} /\ level[t] = 1 /\ UNCHANGED <<tvars, steps, sleep, seen, log>>
  BY DEF Validated, Reverted
<1>2. TypeInv
  BY DEF IInv
<1>3. NoLocks(t)
  BY <1>1, RevertedNoLocks
<1>4. trecs[t] \in Chain /\ frames[t] \in Seq(Frame) /\ Len(frames[t]) >= 1 /\ Len(frames[t]) <= Len(trecs[t]) /\ Len(trecs[t]) >= 1
  BY <1>1, NestIs
<1>5. value' = value /\ updates' = updates /\ watch' = watch /\ why' \in [Threads -> {"not", "stm"}] /\ inbox' \subseteq Threads
  BY <1>1, <1>2 DEF TypeInv, tvars, sleep
<1>6. CASE ok[t]
  <2>1. pc' = [pc EXCEPT ![t] = "run"] /\ "run" \in Resting \ {"out"} /\ Idle(t) /\ UNCHANGED <<trecs, frames>>
    BY <1>6 DEF Validated, Goto, Resting
  <2>2. trecs' = [trecs EXCEPT ![t] = trecs[t]] /\ frames' = [frames EXCEPT ![t] = frames[t]]
    BY <1>2, <2>1 DEF TypeInv
  <2> QED BY <1>3, <1>4, <1>5, <2>1, <2>2, RestI
<1>7. CASE ~ ok[t]
  <2>1. PICK r : r = [Head(trecs[t]) EXCEPT !.state = "condemned"]
    OBVIOUS
  <2>2. /\ trecs' = [trecs EXCEPT ![t] = <<r>>] /\ frames' = [frames EXCEPT ![t] = <<"atomically">>]
        /\ op' = [op EXCEPT ![t] = "commit"] /\ UNCHANGED <<pc, idx, level, ok, snap>>
    BY <1>2, <1>7, <2>1 DEF Validated, TypeInv
  <2>3. r \in TRec /\ Distinct(r)
    <3>1. 1 \in 1..Len(trecs[t]) /\ Head(trecs[t]) = trecs[t][1]
      BY <1>4, ChainIs DEF Chain
    <3>2. PICK h : h = trecs[t][1]
      OBVIOUS
    <3>3. h \in TRec /\ Distinct(h)
      BY <1>4, <3>1, <3>2, ChainIs
    <3>4. r = [h EXCEPT !.state = "condemned"]
      BY <2>1, <3>1, <3>2
    <3> QED BY <3>3, <3>4 DEF TRec, Distinct
  <2>4. <<r>> \in Chain /\ Len(<<r>>) = 1
    BY <2>3 DEF Chain
  <2>5. <<"atomically">> \in Seq(Frame) /\ Len(<<"atomically">>) = 1
    BY DEF Frame
  <2>6. TypeInv'
    BY <1>2, <1>5, <2>2, <2>4, <2>5 DEF TypeInv, Operation
  <2>7. Elsewhere(t)
    BY <1>2, <2>2 DEF TypeInv, Elsewhere
  <2>8. trecs'[t] = <<r>> /\ frames'[t] = <<"atomically">> /\ pc'[t] = "revert" /\ op'[t] = "commit" /\ level'[t] = 1
    BY <1>1, <1>2, <2>2 DEF TypeInv
  <2>9. ThreadInv(t)'
    BY <2>4, <2>5, <2>8 DEF ThreadInv, Resting, Working
  <2> QED BY <1>3, <1>5, <2>6, <2>7, <2>8, <2>9, QuietStep
<1> QED BY <1>6, <1>7

(* A sleeper that is to be taken off the watch queues.                     *)
LEMMA LeavingI ==
  ASSUME IInv, NEW t \in Threads, StopWaiting(t) \/ (Freeze(t) /\ pc[t] = "parked")
  PROVE  Kept(t)
<1>1. TypeInv /\ ThreadInv(t)
  BY DEF IInv
<1>2. UNCHANGED <<tvars, trecs, frames, level, ok, steps, seen, snap, inbox>> /\ pc' = [pc EXCEPT ![t] = "remove"] /\ idx' = [idx EXCEPT ![t] = 1]
  BY DEF StopWaiting, Freeze, history, sleep, Goto
<1>3. PICK o \in {"rewait", "kill"} : op' = [op EXCEPT ![t] = o]
  BY <1>1 DEF StopWaiting, Freeze, Reverted, TypeInv
<1>4. why' \in [Threads -> {"not", "stm"}]
  BY <1>1 DEF StopWaiting, Freeze, TypeInv, sleep
<1>5. NoLocks(t) /\ pc[t] # "out"
  BY RestingNoLocks, RevertedNoLocks DEF StopWaiting, Freeze, Reverted, Resting
<1>6. level[t] = 1 /\ Len(frames[t]) >= 1 /\ Len(frames[t]) <= Len(trecs[t]) /\ Len(frames[t]) \in Nat /\ Len(trecs[t]) \in Nat
  <2>1. level[t] = 1
    BY <1>1 DEF ThreadInv, StopWaiting, Freeze, Reverted, Resting
  <2> QED BY <1>5, <2>1, NestIs
<1>7. value' = value /\ updates' = updates /\ watch' = watch /\ trecs' = trecs /\ frames' = frames /\ level' = level /\ ok' = ok
      /\ snap' = snap /\ inbox' = inbox
  BY <1>2 DEF tvars
<1>8. TypeInv'
  <2>1. op' \in [Threads -> Operation \cup {"none"}]
    BY <1>1, <1>3 DEF TypeInv, Operation
  <2>2. pc' \in [Threads -> Resting \cup Working] /\ idx' \in [Threads -> Nat \ {0}]
    BY <1>1, <1>2 DEF TypeInv, Working
  <2> QED BY <1>1, <1>4, <1>7, <2>1, <2>2 DEF TypeInv
<1>9. Elsewhere(t)
  BY <1>1, <1>2, <1>3, <1>7 DEF TypeInv, Elsewhere
<1>10. trecs'[t] = trecs[t] /\ frames'[t] = frames[t] /\ pc'[t] = "remove" /\ op'[t] = o /\ level'[t] = 1
  BY <1>1, <1>2, <1>3, <1>6, <1>7 DEF TypeInv
<1>11. ThreadInv(t)'
  BY <1>6, <1>10 DEF ThreadInv, Resting
<1> QED BY <1>5, <1>7, <1>8, <1>9, <1>10, <1>11, QuietStep

LEMMA DeliverI ==
  ASSUME IInv, NEW t \in Threads, Deliver(t)
  PROVE  Kept(t)
<1>1. UNCHANGED <<tvars, trecs, frames, pc, scan, steps, history>> /\ pc[t] \in Resting
  BY DEF Deliver, Resting
<1>2. /\ value' = value /\ updates' = updates /\ watch' = watch /\ trecs' = trecs /\ frames' = frames /\ pc' = pc /\ op' = op
      /\ level' = level /\ idx' = idx /\ ok' = ok /\ snap' = snap
  BY <1>1 DEF tvars, scan, history
<1>3. TypeInv /\ ThreadInv(t)
  BY DEF IInv
<1>4. TypeInv'
  BY <1>2, <1>3 DEF TypeInv, Deliver
<1>5. Elsewhere(t)
  BY <1>2 DEF Elsewhere
<1>6. ThreadInv(t)'
  BY <1>2, <1>3 DEF ThreadInv, Es, Here, Current, IsUpdate
<1>7. NoLocks(t) /\ pc'[t] # "lock" /\ pc'[t] \in Resting
  BY <1>1, <1>2, RestingNoLocks DEF Resting
<1> QED BY <1>2, <1>4, <1>5, <1>6, <1>7, QuietStep

(* Starting, starting again and leaving.                                   *)
LEMMA TransactionI ==
  ASSUME IInv, NEW t \in Threads,
         \/ Atomically(t) \/ Written(t) \/ Invalid(t) \/ Raised(t) \/ Removed(t)
         \/ (Freeze(t) /\ pc[t] # "parked")
  PROVE  Kept(t)
<1>1. TypeInv
  BY DEF IInv
<1>2. NoLocks(t)
  <2>1. CASE Atomically(t) \/ (Freeze(t) /\ pc[t] # "parked")
    BY <2>1, RestingNoLocks DEF Atomically, Freeze, Resting
  <2>2. CASE Written(t) \/ Removed(t)
    BY <2>2, PastNoLocks DEF Written, Removed
  <2>3. CASE Invalid(t) \/ Raised(t)
    BY <2>3, RevertedNoLocks DEF Invalid, Raised, Reverted
  <2> QED BY <2>1, <2>2, <2>3
<1>3. Restart(t) \/ Stop(t)
  BY DEF Atomically, Written, Invalid, Raised, Removed, Freeze
<1>4. UNCHANGED tvars /\ why' = why /\ inbox' = inbox
  BY DEF Atomically, Written, Invalid, Raised, Removed, Freeze, sleep
<1>5. value' = value /\ updates' = updates /\ watch' = watch
  BY <1>4 DEF tvars
<1>6. why' \in [Threads -> {"not", "stm"}] /\ inbox' \subseteq Threads
  BY <1>1, <1>4 DEF TypeInv
<1> QED BY <1>2, <1>3, <1>5, <1>6, ResetI

(* The beginning of each operation.                                        *)
LEMMA ReturnI ==
  ASSUME IInv, NEW t \in Threads, Return(t)
  PROVE  Kept(t)
<1>1. pc[t] = "run" /\ Len(frames[t]) = Len(trecs[t])
      /\ UNCHANGED <<tvars, trecs, frames, steps, sleep, history>>
  BY DEF Return
<1>2. PICK o, n : o = (IF Len(frames[t]) = 1 THEN "commit" ELSE "nested") /\ n = Len(trecs[t])
  OBVIOUS
<1>3. n \in 1..n /\ n \in Nat /\ ((o = "commit" /\ n = 1) \/ (o = "nested" /\ n > 1))
  <2>1. n \in Nat /\ n >= 1 /\ Len(frames[t]) = n
    BY <1>1, <1>2, NestIs
  <2>2. CASE n = 1
    <3>1. o = "commit"
      BY <1>2, <2>1, <2>2
    <3> QED BY <2>2, <3>1
  <2>3. CASE n # 1
    <3>1. o = "nested"
      BY <1>2, <2>1, <2>3
    <3> QED BY <2>1, <2>3, <3>1
  <2> QED BY <2>2, <2>3
<1>4. Validate(t, o, n)
  BY <1>2 DEF Return
<1>5. ok[t]
  BY <1>1 DEF IInv, ThreadInv, Resting
<1>6. NoLocks(t) /\ o \in Operation
  BY <1>1, <1>3, RestingNoLocks DEF Resting, Operation
<1> QED BY <1>1, <1>2, <1>3, <1>4, <1>5, <1>6, ValidateI

LEMMA AtAtomicallyI ==
  ASSUME IInv, NEW t \in Threads, AtAtomically(t)
  PROVE  Kept(t)
<1>1. pc[t] \in {"retry", "raise"} /\ UNCHANGED <<tvars, trecs, frames, steps, sleep, history>>
  BY DEF AtAtomically
<1>2. PICK o, n : o = (IF pc[t] = "retry" THEN "wait" ELSE "raise") /\ n = Len(trecs[t])
  OBVIOUS
<1>3. n \in 1..n
  BY <1>1, <1>2, NestIs
<1>4. Validate(t, o, n)
  BY <1>2 DEF AtAtomically
<1>5. ok[t]
  BY <1>1 DEF IInv, ThreadInv, Resting
<1>6. NoLocks(t) /\ o \in {"wait", "raise"} /\ o \in Operation
  BY <1>1, <1>2, RestingNoLocks DEF Resting, Operation
<1> QED BY <1>1, <1>2, <1>3, <1>4, <1>5, <1>6, ValidateI

LEMMA PreemptI ==
  ASSUME IInv, NEW t \in Threads, Preempt(t)
  PROVE  Kept(t)
<1>1. pc[t] = "run" /\ UNCHANGED <<tvars, trecs, frames, steps, sleep, history>>
  BY DEF Preempt
<1>2. PICK n : n = Len(trecs[t])
  OBVIOUS
<1>3. n \in 1..n
  BY <1>1, <1>2, NestIs
<1>4. Validate(t, "validate", n)
  BY <1>2 DEF Preempt
<1>5. NoLocks(t) /\ "validate" \in Operation
  BY <1>1, RestingNoLocks DEF Resting, Operation
<1> QED BY <1>1, <1>2, <1>3, <1>4, <1>5, ValidateI

LEMMA ReWaitI ==
  ASSUME IInv, NEW t \in Threads, ReWait(t)
  PROVE  Kept(t)
<1>1. pc[t] = "parked" /\ UNCHANGED <<tvars, trecs, frames, steps, sleep, history>> /\ Validate(t, "rewait", 1)
  BY DEF ReWait
<1>2. 1 \in 1..Len(trecs[t])
  BY <1>1, NestIs
<1>3. ok[t]
  BY <1>1 DEF IInv, ThreadInv, Resting
<1>4. NoLocks(t) /\ "rewait" \in Operation
  BY <1>1, RestingNoLocks DEF Resting, Operation
<1> QED BY <1>1, <1>2, <1>3, <1>4, ValidateI

LEMMA NextLevelI ==
  ASSUME IInv, NEW t \in Threads, NextLevel(t)
  PROVE  Kept(t)
<1>1. pc[t] = "revert" /\ Owning(t) = {} /\ UNCHANGED <<tvars, trecs, frames, steps, sleep, history>> /\ level[t] > 1
  BY DEF NextLevel, Reverted
<1>2. PICK o, i : o = op[t] /\ i = level[t] - 1
  OBVIOUS
<1>3. o \in {"validate", "raise"} /\ Validate(t, o, i)
  BY <1>2 DEF NextLevel, Reverted
<1>4. i \in 1..Len(trecs[t])
  <2>1. level[t] \in 1..Len(trecs[t]) /\ Len(trecs[t]) \in Nat
    BY <1>1, CurrentIs, NestIs DEF Working
  <2> QED BY <1>1, <1>2, <2>1
<1>5. NoLocks(t) /\ o \in Operation
  BY <1>1, <1>3, RevertedNoLocks DEF Operation
<1> QED BY <1>1, <1>3, <1>4, <1>5, ValidateI

----------------------------------------------------------------------------
(* The steps that take locks, look at TVars and give locks back *)

(* Beneath a lock is what the entry says.                                  *)
LEMMA UnderStays ==
  ASSUME NEW t \in Threads, NEW s, value[s] = t, value'[s] = t, Es(t)' = Es(t), (pc[t] = "remove") = (pc'[t] = "remove")
  PROVE  Under(s)' = Under(s)
<1>1. t \notin Values
  BY Apart
<1>2. PICK es : es = Es(t)
  OBVIOUS
<1>3. Entry(Current(t), s) = es[CHOOSE i \in DOMAIN es : es[i].tvar = s]
  BY <1>2 DEF Entry, Es
<1>4. Entry(Current(t), s)' = es[CHOOSE i \in DOMAIN es : es[i].tvar = s]
  BY <1>2 DEF Entry, Es
<1>5. Under(s) = IF pc[t] = "remove" THEN Entry(Current(t), s).new ELSE Entry(Current(t), s).expected
  BY <1>1 DEF Under
<1>6. Under(s)' = IF pc'[t] = "remove" THEN Entry(Current(t), s)'.new ELSE Entry(Current(t), s)'.expected
  BY <1>1 DEF Under
<1> QED BY <1>3, <1>4, <1>5, <1>6

LEMMA UnderHeld ==
  ASSUME NEW t \in Threads, Distinct(Current(t)), NEW i \in DOMAIN Es(t), NEW s, s = Es(t)[i].tvar, value[s] = t
  PROVE  Under(s) = IF pc[t] = "remove" THEN Es(t)[i].new ELSE Es(t)[i].expected
<1>1. t \notin Values
  BY Apart
<1>2. Under(s) = IF pc[t] = "remove" THEN Entry(Current(t), s).new ELSE Entry(Current(t), s).expected
  BY <1>1 DEF Under
<1>3. Entry(Current(t), s) = Es(t)[i]
  BY EntryIs DEF Es
<1> QED BY <1>2, <1>3

LEMMA UnderHeldNext ==
  ASSUME NEW t \in Threads, Distinct(Current(t))', NEW i \in DOMAIN Es(t)', NEW s, s = Es(t)'[i].tvar, value'[s] = t
  PROVE  Under(s)' = IF pc'[t] = "remove" THEN Es(t)'[i].new ELSE Es(t)'[i].expected
<1>1. t \notin Values
  BY Apart
<1>2. Under(s)' = IF pc'[t] = "remove" THEN Entry(Current(t), s)'.new ELSE Entry(Current(t), s)'.expected
  BY <1>1 DEF Under
<1>3. Entry(Current(t), s)' = Es(t)'[i]
  <2>1. PICK trec : trec = Current(t)'
    OBVIOUS
  <2>2. Distinct(trec) /\ trec.entries = Es(t)' /\ Entry(Current(t), s)' = Entry(trec, s)
    BY <2>1 DEF Distinct, Es, Entry
  <2> QED BY <2>2, EntryIs
<1> QED BY <1>2, <1>3

(* What follows from the records and the operation staying as they are.    *)
LEMMA SameRecords ==
  ASSUME NEW t \in Threads, trecs' = trecs, level' = level, op' = op
  PROVE  /\ Es(t)' = Es(t) /\ Current(t)' = Current(t) /\ Committing(t)' = Committing(t) /\ AcquireAll(t)' = AcquireAll(t)
         /\ \A i : Wants(t, i)' = Wants(t, i)
BY DEF Es, Current, Committing, AcquireAll, Wants, IsUpdate

(* All that is held is to be given back.                                   *)
LEMMA ToRevertI ==
  ASSUME IInv, NEW t \in Threads, pc[t] \in {"lock", "reread", "check", "sleep"}, pc' = [pc EXCEPT ![t] = "revert"],
         value' = value, updates' = updates, watch' \in [TVars -> SUBSET Threads], trecs' = trecs, frames' = frames,
         op' = op, level' = level, idx' = idx, inbox' \subseteq Threads, why' \in [Threads -> {"not", "stm"}],
         NEW b \in BOOLEAN, ok' = [ok EXCEPT ![t] = b], NEW c \in BOOLEAN, snap' = [snap EXCEPT ![t] = c]
  PROVE  Kept(t)
<1>1. TypeInv /\ ThreadInv(t) /\ LockInv(t)
  BY DEF IInv
<1>2. TypeInv'
  BY <1>1 DEF TypeInv, Working
<1>3. Elsewhere(t)
  BY <1>1 DEF TypeInv, Elsewhere
<1>4. pc'[t] = "revert"
  BY <1>1 DEF TypeInv
<1>5. /\ Es(t)' = Es(t) /\ \A i : Wants(t, i)' = Wants(t, i)
  BY SameRecords
<1>6. ValueStep(t)
  BY DEF ValueStep
<1>7. UnderStep(t)
  BY <1>4, <1>5, UnderStays DEF UnderStep
<1>8. VersionStep(t)
  BY <1>1, <1>4 DEF TypeInv, VersionStep
<1>9. ThreadInv(t)'
  BY <1>1, <1>4 DEF ThreadInv, Resting, Working
<1>10. LockInv(t)'
  BY <1>1, <1>4, <1>5 DEF LockInv, MayHold, Working
<1>11. OwnInv(t)' /\ SampleInv(t)' /\ CheckInv(t)'
  BY <1>4 DEF OwnInv, SampleInv, CheckInv
<1> QED BY <1>2, <1>3, <1>6, <1>7, <1>8, <1>9, <1>10, <1>11, StepI DEF Effect, SelfInv

LEMMA WaitUnlockI ==
  ASSUME IInv, NEW t \in Threads, WaitUnlock(t)
  PROVE  Kept(t)
<1>1. TypeInv
  BY DEF IInv
<1>2. pc[t] = "sleep" /\ pc' = [pc EXCEPT ![t] = "revert"] /\ UNCHANGED <<tvars, trecs, frames, scan, steps, sleep, history>>
  BY DEF WaitUnlock, Goto
<1>3. /\ value' = value /\ updates' = updates /\ watch' \in [TVars -> SUBSET Threads] /\ trecs' = trecs /\ frames' = frames
      /\ op' = op /\ level' = level /\ idx' = idx /\ inbox' \subseteq Threads /\ why' \in [Threads -> {"not", "stm"}]
  BY <1>1, <1>2 DEF tvars, scan, sleep, TypeInv
<1>4. ok' = [ok EXCEPT ![t] = ok[t]] /\ ok[t] \in BOOLEAN /\ snap' = [snap EXCEPT ![t] = snap[t]] /\ snap[t] \in BOOLEAN
  BY <1>1, <1>2 DEF scan, history, TypeInv
<1> QED BY <1>2, <1>3, <1>4, ToRevertI

LEMMA FailI ==
  ASSUME IInv, NEW t \in Threads, Fail(t), pc[t] \in {"lock", "reread", "check"}, value' = value,
         UNCHANGED <<updates, watch, trecs, frames, op, level, steps, sleep, history>>
  PROVE  Kept(t)
<1>1. TypeInv
  BY DEF IInv
<1>2. pc' = [pc EXCEPT ![t] = "revert"] /\ ok' = [ok EXCEPT ![t] = FALSE] /\ idx' = idx
  BY DEF Fail, Goto
<1>3. /\ updates' = updates /\ watch' \in [TVars -> SUBSET Threads] /\ trecs' = trecs /\ frames' = frames
      /\ op' = op /\ level' = level /\ inbox' \subseteq Threads /\ why' \in [Threads -> {"not", "stm"}]
  BY <1>1 DEF sleep, TypeInv
<1>4. snap' = [snap EXCEPT ![t] = snap[t]] /\ snap[t] \in BOOLEAN
  BY <1>1 DEF history, TypeInv
<1> QED BY <1>2, <1>3, <1>4, ToRevertI

(* Whoever stores an update holds the TVar.                                *)
LEMMA FreeNotStoring ==
  ASSUME IInv, NEW s, value[s] \in Values
  PROVE  ~ Storing(s)
<1> SUFFICES ASSUME NEW u \in Threads, pc[u] = "store", Here(u).tvar = s PROVE FALSE
  BY DEF Storing
<1>1. idx[u] \in DOMAIN Es(u) /\ IsUpdate(Here(u))
  BY DEF IInv, ThreadInv
<1>2. idx[u] \in Nat
  BY CurrentIs DEF Working
<1>3. MayHold(u, idx[u])
  BY <1>1, <1>2 DEF MayHold, Here, Es, Working
<1>4. value[s] = u
  BY <1>1, <1>3 DEF IInv, OwnInv, Here, Es, Working
<1> QED BY <1>4, Apart

(* The next entry.                                                         *)
LEMMA HereIs ==
  ASSUME IInv, NEW t \in Threads, pc[t] \in Working, More(t) \/ pc[t] \in {"sample", "reread", "store"}
  PROVE  /\ idx[t] \in DOMAIN Es(t) /\ Here(t) = Es(t)[idx[t]] /\ Here(t) \in EntryRec /\ Here(t).tvar \in TVars
         /\ Here(t).expected \in Values /\ Here(t).new \in Values /\ Here(t).num \in Nat /\ idx[t] \in Nat \ {0}
<1>1. /\ Len(Es(t)) \in Nat /\ DOMAIN Es(t) = 1..Len(Es(t)) /\ idx[t] \in Nat \ {0}
      /\ \A i \in DOMAIN Es(t) : /\ Es(t)[i] \in EntryRec /\ Es(t)[i].tvar \in TVars /\ Es(t)[i].num \in Nat
                                 /\ Es(t)[i].expected \in Values /\ Es(t)[i].new \in Values
  BY CurrentIs
<1>2. idx[t] \in DOMAIN Es(t)
  <2>1. CASE More(t)
    BY <1>1, <2>1 DEF More, Es
  <2>2. CASE pc[t] \in {"sample", "reread", "store"}
    BY <2>2 DEF IInv, ThreadInv
  <2> QED BY <2>1, <2>2
<1> QED BY <1>1, <1>2 DEF Here, Es

LEMMA LockI ==
  ASSUME IInv, NEW t \in Threads, Lock(t)
  PROVE  Kept(t)
<1>1. /\ pc[t] = "lock" /\ More(t) /\ (AcquireAll(t) \/ IsUpdate(Here(t)))
      /\ UNCHANGED <<updates, watch, trecs, frames, op, level, steps, sleep, history>>
  BY DEF Lock
<1>2. CASE value[Here(t).tvar] # Here(t).expected
  <2>1. Fail(t) /\ value' = value
    BY <1>2 DEF Lock
  <2> QED BY <1>1, <2>1, FailI
<1>3. CASE value[Here(t).tvar] = Here(t).expected
  <2>1. PICK s, i, e : s = Here(t).tvar /\ i = idx[t] /\ e = Here(t)
    OBVIOUS
  <2>2. /\ i \in DOMAIN Es(t) /\ e = Es(t)[i] /\ e \in EntryRec /\ s \in TVars /\ s = e.tvar /\ e.expected \in Values /\ i \in Nat \ {0}
        /\ s = Es(t)[i].tvar
    BY <1>1, <2>1, HereIs DEF Working
  <2>3. value' = [value EXCEPT ![s] = t] /\ idx' = [idx EXCEPT ![t] = i + 1] /\ ok' = ok /\ pc' = pc
    BY <1>1, <1>3, <2>1 DEF Lock, Next1, Goto, IInv, TypeInv
  <2>4. updates' = updates /\ watch' = watch /\ trecs' = trecs /\ frames' = frames /\ op' = op /\ level' = level
        /\ why' = why /\ inbox' = inbox /\ snap' = snap
    BY <1>1 DEF sleep, history
  <2>5. TypeInv /\ ThreadInv(t) /\ LockInv(t) /\ OwnInv(t) /\ SampleInv(t)
    BY DEF IInv
  <2>6. TypeInv'
    BY <2>2, <2>3, <2>4, <2>5 DEF TypeInv
  <2>7. Elsewhere(t)
    BY <2>3, <2>4, <2>5 DEF TypeInv, Elsewhere
  <2>8. pc'[t] = "lock" /\ idx'[t] = i + 1 /\ value'[s] = t /\ value[s] = e.expected
    BY <1>1, <1>3, <2>1, <2>2, <2>3, <2>5 DEF TypeInv
  <2>9. \A r \in TVars : r # s => value'[r] = value[r]
    BY <2>3, <2>5 DEF TypeInv
  <2>10. /\ Es(t)' = Es(t) /\ Current(t)' = Current(t) /\ Committing(t)' = Committing(t) /\ AcquireAll(t)' = AcquireAll(t)
         /\ \A j : Wants(t, j)' = Wants(t, j)
    BY <2>4, SameRecords
  <2>11. DOMAIN Es(t) = 1..Len(Es(t)) /\ Len(Es(t)) \in Nat /\ Distinct(Current(t))
         /\ \A j \in DOMAIN Es(t) : Es(t)[j] \in EntryRec /\ Es(t)[j].tvar \in TVars
    BY <1>1, CurrentIs DEF Working
  <2>12. ValueStep(t)
    BY <2>2, <2>8, <2>9 DEF ValueStep
  <2>13. UnderStep(t)
    <3>1. Under(s) = e.expected
      BY <2>2, <2>8 DEF Under
    <3>2. Under(s)' = e.expected
      <4>1. Distinct(Current(t))' /\ i \in DOMAIN Es(t)' /\ s = Es(t)'[i].tvar /\ Es(t)'[i].expected = e.expected
        BY <2>2, <2>10, <2>11 DEF Distinct
      <4> QED BY <2>8, <4>1, UnderHeldNext
    <3>3. ASSUME NEW r \in TVars, r # s, value[r] = t \/ value'[r] = t PROVE Under(r)' = Under(r)
      <4>1. value[r] = t /\ value'[r] = t
        BY <2>9, <3>3
      <4> QED BY <1>1, <2>8, <2>10, <4>1, UnderStays
    <3> QED BY <3>1, <3>2, <3>3 DEF UnderStep
  <2>14. VersionStep(t)
    BY <2>4, <2>5, <2>8 DEF TypeInv, VersionStep
  <2>15. ThreadInv(t)'
    BY <1>1, <2>3, <2>4, <2>5, <2>8 DEF ThreadInv, Resting, Working
  <2>16. Wants(t, i)
    BY <1>1, <2>1, <2>2 DEF Wants
  <2>17. \A j : MayHold(t, j)' <=> j \in DOMAIN Es(t) /\ j < i + 1 /\ Wants(t, j)
    BY <2>8, <2>10 DEF MayHold, Working
  <2>18. \A j : MayHold(t, j) <=> j \in DOMAIN Es(t) /\ j < i /\ Wants(t, j)
    BY <1>1, <2>1 DEF MayHold, Working
  <2>19. \A j \in DOMAIN Es(t) : j < i + 1 <=> j < i \/ j = i
    BY <2>2, <2>11
  <2>20. LockInv(t)'
    <3> SUFFICES ASSUME NEW r \in TVars, value'[r] = t PROVE \E j \in DOMAIN Es(t) : MayHold(t, j)' /\ Es(t)[j].tvar = r
      BY <2>10 DEF LockInv
    <3>1. CASE r = s
      BY <2>2, <2>16, <2>17, <2>19, <3>1
    <3>2. CASE r # s
      BY <2>5, <2>9, <2>17, <2>18, <2>19, <3>2 DEF LockInv
    <3> QED BY <3>1, <3>2
  <2>21. OwnInv(t)'
    <3> SUFFICES ASSUME NEW j \in DOMAIN Es(t), MayHold(t, j)' PROVE value'[Es(t)[j].tvar] = t
      BY <2>10 DEF OwnInv
    <3>1. CASE j = i
      BY <2>2, <2>8, <3>1
    <3>2. CASE j # i
      <4>1. MayHold(t, j)
        BY <2>17, <2>18, <2>19, <3>2
      <4>2. value[Es(t)[j].tvar] = t
        BY <1>1, <2>5, <4>1 DEF OwnInv, Working
      <4> QED BY <2>8, <2>9, <2>11, <4>2
    <3> QED BY <3>1, <3>2
  <2>22. SampleInv(t)'
    <3>1. Effect(t)
      BY <2>7, <2>12, <2>13, <2>14 DEF Effect
    <3>2. ASSUME Committing(t), NEW j \in DOMAIN Es(t), j < i + 1, ~ IsUpdate(Es(t)[j]) PROVE Sampled(Es(t)[j])'
      <4>1. j # i
        BY <2>16, <3>2 DEF Wants, AcquireAll, Committing
      <4>2. PICK f : f = Es(t)[j]
        OBVIOUS
      <4>3. Sampled(f) /\ f \in EntryRec
        BY <1>1, <2>1, <2>5, <2>11, <2>19, <3>2, <4>1, <4>2 DEF SampleInv
      <4>4. Sampled(f)'
        BY <2>5, <2>6, <3>1, <4>3, SampledKept
      <4>5. Es(t)'[j] = f
        BY <2>10, <4>2
      <4> QED BY <4>4, <4>5
    <3>3. \A j : IsUpdate(Es(t)[j])' = IsUpdate(Es(t)[j])
      BY <2>10 DEF IsUpdate
    <3> QED BY <2>8, <2>10, <3>2, <3>3 DEF SampleInv
  <2>23. CheckInv(t)'
    BY <2>8 DEF CheckInv
  <2> QED BY <2>6, <2>7, <2>12, <2>13, <2>14, <2>15, <2>20, <2>21, <2>22, <2>23, StepI DEF Effect, SelfInv
<1> QED BY <1>2, <1>3

(* A read-only entry is looked at, its version noted, and looked at again. *)
LEMMA LookI ==
  ASSUME IInv, NEW t \in Threads, Look(t)
  PROVE  Kept(t)
<1>1. /\ pc[t] = "lock" /\ More(t) /\ ~ (AcquireAll(t) \/ IsUpdate(Here(t)))
      /\ UNCHANGED <<tvars, trecs, frames, op, level, steps, sleep, history>>
  BY DEF Look
<1>2. CASE value[Here(t).tvar] # Here(t).expected
  <2>1. Fail(t) /\ value' = value
    BY <1>2 DEF Look, tvars
  <2> QED BY <1>1, <2>1, FailI DEF tvars
<1>3. CASE value[Here(t).tvar] = Here(t).expected
  <2>1. pc' = [pc EXCEPT ![t] = "sample"] /\ idx' = idx /\ ok' = ok
    BY <1>3 DEF Look, Goto
  <2>2. value' = value /\ updates' = updates /\ watch' = watch /\ trecs' = trecs /\ frames' = frames /\ op' = op /\ level' = level
        /\ why' = why /\ inbox' = inbox /\ snap' = snap
    BY <1>1 DEF tvars, sleep, history
  <2>3. TypeInv /\ ThreadInv(t) /\ LockInv(t) /\ OwnInv(t) /\ SampleInv(t)
    BY DEF IInv
  <2>4. TypeInv'
    BY <2>1, <2>2, <2>3 DEF TypeInv, Working
  <2>5. Elsewhere(t)
    BY <2>1, <2>2, <2>3 DEF TypeInv, Elsewhere
  <2>6. pc'[t] = "sample"
    BY <2>1, <2>3 DEF TypeInv
  <2>7. /\ Es(t)' = Es(t) /\ Current(t)' = Current(t) /\ Committing(t)' = Committing(t) /\ AcquireAll(t)' = AcquireAll(t)
        /\ \A j : Wants(t, j)' = Wants(t, j)
    BY <2>2, SameRecords
  <2>8. ValueStep(t)
    BY <2>2 DEF ValueStep
  <2>9. UnderStep(t)
    BY <1>1, <2>2, <2>6, <2>7, UnderStays DEF UnderStep
  <2>10. VersionStep(t)
    BY <2>2, <2>3, <2>6 DEF TypeInv, VersionStep
  <2>11. idx[t] \in DOMAIN Es(t)
    BY <1>1, HereIs DEF Working
  <2>12. op[t] \in {"commit", "nested"}
    BY <1>1, <2>3 DEF AcquireAll, ThreadInv, TypeInv, Operation, Resting
  <2>13. ThreadInv(t)'
    <3>1. Here(t)' = Here(t)
      BY <2>1, <2>7 DEF Here
    <3> QED BY <1>1, <2>1, <2>2, <2>3, <2>6, <2>7, <2>11, <2>12, <3>1 DEF ThreadInv, Resting, Working, IsUpdate
  <2>14. \A j : MayHold(t, j)' = MayHold(t, j)
    BY <1>1, <2>1, <2>6, <2>7 DEF MayHold, Working
  <2>15. LockInv(t)'
    BY <2>2, <2>3, <2>7, <2>14 DEF LockInv
  <2>16. OwnInv(t)'
    BY <1>1, <2>2, <2>3, <2>7, <2>14 DEF OwnInv, Working
  <2>17. \A e \in EntryRec : Sampled(e) => Sampled(e)'
    BY <2>3, <2>4, <2>5, <2>8, <2>9, <2>10, SampledKept DEF Effect
  <2>18. \A j \in DOMAIN Es(t) : Es(t)[j] \in EntryRec
    BY <1>1, CurrentIs DEF Working
  <2>19. SampleInv(t)'
    <3>1. ASSUME Committing(t), NEW j \in DOMAIN Es(t), j < idx[t], ~ IsUpdate(Es(t)[j]) PROVE Sampled(Es(t)[j])'
      <4>1. PICK f : f = Es(t)[j]
        OBVIOUS
      <4>2. Sampled(f)'
        BY <1>1, <2>3, <2>17, <2>18, <3>1, <4>1 DEF SampleInv
      <4>3. Es(t)'[j] = f
        BY <2>7, <4>1
      <4> QED BY <4>2, <4>3
    <3>2. \A j : IsUpdate(Es(t)[j])' = IsUpdate(Es(t)[j])
      BY <2>7 DEF IsUpdate
    <3> QED BY <2>1, <2>6, <2>7, <3>1, <3>2 DEF SampleInv
  <2>20. CheckInv(t)'
    BY <2>6 DEF CheckInv
  <2> QED BY <2>4, <2>5, <2>8, <2>9, <2>10, <2>13, <2>15, <2>16, <2>19, <2>20, StepI DEF Effect, SelfInv
<1> QED BY <1>2, <1>3

LEMMA RereadI ==
  ASSUME IInv, NEW t \in Threads, Reread(t)
  PROVE  Kept(t)
<1>1. pc[t] = "reread" /\ UNCHANGED <<tvars, trecs, frames, op, level, steps, sleep, history>>
  BY DEF Reread
<1>2. CASE value[Here(t).tvar] # Here(t).expected
  <2>1. Fail(t) /\ value' = value
    BY <1>1, <1>2 DEF Reread, tvars
  <2> QED BY <1>1, <2>1, FailI DEF tvars
<1>3. CASE value[Here(t).tvar] = Here(t).expected
  <2>1. PICK s, i, e : s = Here(t).tvar /\ i = idx[t] /\ e = Here(t)
    OBVIOUS
  <2>2. /\ i \in DOMAIN Es(t) /\ e = Es(t)[i] /\ e \in EntryRec /\ s \in TVars /\ s = e.tvar /\ e.expected \in Values /\ i \in Nat \ {0}
        /\ s = Es(t)[i].tvar
    BY <1>1, <2>1, HereIs DEF Working
  <2>3. TypeInv /\ ThreadInv(t) /\ LockInv(t) /\ OwnInv(t) /\ SampleInv(t)
    BY DEF IInv
  <2>4. pc' = [pc EXCEPT ![t] = "lock"] /\ idx' = [idx EXCEPT ![t] = i + 1] /\ ok' = ok
    BY <1>3, <2>1, <2>3 DEF Reread, Next1, Goto
  <2>5. value' = value /\ updates' = updates /\ watch' = watch /\ trecs' = trecs /\ frames' = frames /\ op' = op /\ level' = level
        /\ why' = why /\ inbox' = inbox /\ snap' = snap
    BY <1>1 DEF tvars, sleep, history
  <2>6. TypeInv'
    BY <2>2, <2>3, <2>4, <2>5 DEF TypeInv, Working
  <2>7. Elsewhere(t)
    BY <2>3, <2>4, <2>5 DEF TypeInv, Elsewhere
  <2>8. pc'[t] = "lock" /\ idx'[t] = i + 1
    BY <2>3, <2>4 DEF TypeInv
  <2>9. /\ Es(t)' = Es(t) /\ Current(t)' = Current(t) /\ Committing(t)' = Committing(t) /\ AcquireAll(t)' = AcquireAll(t)
        /\ \A j : Wants(t, j)' = Wants(t, j)
    BY <2>5, SameRecords
  <2>10. ValueStep(t)
    BY <2>5 DEF ValueStep
  <2>11. UnderStep(t)
    BY <1>1, <2>5, <2>8, <2>9, UnderStays DEF UnderStep
  <2>12. VersionStep(t)
    BY <2>3, <2>5, <2>8 DEF TypeInv, VersionStep
  <2>13. op[t] \in {"commit", "nested"} /\ ~ IsUpdate(e)
    BY <1>1, <2>1, <2>3 DEF ThreadInv, TypeInv, Operation, Resting
  <2>14. ThreadInv(t)'
    BY <1>1, <2>3, <2>4, <2>5, <2>8, <2>13 DEF ThreadInv, Resting, Working
  <2>15. ~ Wants(t, i)
    BY <2>2, <2>13 DEF Wants, AcquireAll
  <2>16. DOMAIN Es(t) = 1..Len(Es(t)) /\ Len(Es(t)) \in Nat /\ \A j \in DOMAIN Es(t) : Es(t)[j] \in EntryRec
    BY <1>1, CurrentIs DEF Working
  <2>17. \A j \in DOMAIN Es(t) : j < i + 1 <=> j < i \/ j = i
    BY <2>2, <2>16
  <2>18. \A j \in DOMAIN Es(t) : MayHold(t, j)' = MayHold(t, j)
    BY <1>1, <2>1, <2>8, <2>9, <2>15, <2>17 DEF MayHold, Working
  <2>19. LockInv(t)'
    BY <2>3, <2>5, <2>9, <2>18 DEF LockInv
  <2>20. OwnInv(t)'
    BY <1>1, <2>3, <2>5, <2>9, <2>18 DEF OwnInv, Working
  <2>21. \A f \in EntryRec : Sampled(f) => Sampled(f)'
    BY <2>3, <2>6, <2>7, <2>10, <2>11, <2>12, SampledKept DEF Effect
  <2>22. Sampled(e)
    <3>1. e.num <= updates[s]
      BY <1>1, <2>1, <2>3 DEF SampleInv
    <3>2. value[s] = e.expected /\ value[s] \in Values
      BY <1>3, <2>1, <2>2
    <3>3. Under(s) = e.expected
      BY <3>2 DEF Under
    <3>4. ~ Storing(s)
      BY <3>2, FreeNotStoring
    <3> QED BY <2>2, <3>1, <3>3, <3>4 DEF Sampled
  <2>23. SampleInv(t)'
    <3>1. ASSUME Committing(t), NEW j \in DOMAIN Es(t), j < i + 1, ~ IsUpdate(Es(t)[j]) PROVE Sampled(Es(t)[j])'
      <4>1. PICK f : f = Es(t)[j]
        OBVIOUS
      <4>2. Sampled(f)
        <5>1. CASE j = i
          BY <2>2, <2>22, <4>1, <5>1
        <5>2. CASE j # i
          BY <1>1, <2>1, <2>3, <2>17, <3>1, <4>1, <5>2 DEF SampleInv
        <5> QED BY <5>1, <5>2
      <4>3. Sampled(f)'
        BY <2>16, <2>21, <4>1, <4>2
      <4>4. Es(t)'[j] = f
        BY <2>9, <4>1
      <4> QED BY <4>3, <4>4
    <3>2. \A j : IsUpdate(Es(t)[j])' = IsUpdate(Es(t)[j])
      BY <2>9 DEF IsUpdate
    <3> QED BY <2>8, <2>9, <3>1, <3>2 DEF SampleInv
  <2>24. CheckInv(t)'
    BY <2>8 DEF CheckInv
  <2> QED BY <2>6, <2>7, <2>10, <2>11, <2>12, <2>14, <2>19, <2>20, <2>23, <2>24, StepI DEF Effect, SelfInv
<1> QED BY <1>2, <1>3

LEMMA SampleI ==
  ASSUME IInv, NEW t \in Threads, Sample(t)
  PROVE  Kept(t)
<1>1. /\ pc[t] = "sample" /\ pc' = [pc EXCEPT ![t] = "reread"]
      /\ UNCHANGED <<tvars, frames, scan, steps, sleep, history>>
  BY DEF Sample, Goto
<1>2. /\ value' = value /\ updates' = updates /\ watch' = watch /\ frames' = frames /\ op' = op /\ level' = level /\ idx' = idx /\ ok' = ok
      /\ why' = why /\ inbox' = inbox /\ snap' = snap
  BY <1>1 DEF tvars, sleep, history, scan
<1>3. TypeInv /\ ThreadInv(t) /\ LockInv(t) /\ OwnInv(t) /\ SampleInv(t)
  BY DEF IInv
<1>4. PICK chain, k, r, es, i, e, s, num :
        /\ chain = trecs[t] /\ k = level[t] /\ r = chain[k] /\ es = r.entries /\ i = idx[t] /\ e = es[i] /\ s = e.tvar /\ num = updates[s]
  OBVIOUS
<1>5. /\ chain \in Chain /\ k \in 1..Len(chain) /\ r = Current(t) /\ r \in TRec /\ Distinct(r) /\ es = Es(t) /\ es \in Seq(EntryRec)
      /\ Len(es) \in Nat /\ DOMAIN es = 1..Len(es) /\ i \in DOMAIN es /\ e = Here(t) /\ e \in EntryRec /\ s \in TVars /\ num \in Nat
  <2>1. chain \in Chain /\ k \in 1..Len(chain) /\ r = Current(t) /\ es = Es(t)
    BY <1>1, <1>3, <1>4, CurrentIs DEF TypeInv, Current, Es, Working
  <2>2. i \in DOMAIN es /\ e = Here(t) /\ e \in EntryRec /\ s \in TVars
    BY <1>1, <1>4, <2>1, HereIs DEF Working
  <2>3. num \in Nat
    BY <1>3, <1>4, <2>2 DEF TypeInv
  <2>4. r \in TRec /\ Distinct(r) /\ es \in Seq(EntryRec) /\ Len(es) \in Nat /\ DOMAIN es = 1..Len(es)
    BY <1>1, <2>1, CurrentIs DEF Working
  <2> QED BY <2>1, <2>2, <2>3, <2>4
<1>6. PICK e2, es2, r2, chain2 :
        /\ e2 = [e EXCEPT !.num = num] /\ es2 = [es EXCEPT ![i] = e2] /\ r2 = [r EXCEPT !.entries = es2] /\ chain2 = [chain EXCEPT ![k] = r2]
  OBVIOUS
<1>7. trecs' = [trecs EXCEPT ![t] = chain2]
  <2>1. trecs' = [trecs EXCEPT ![t][k].entries[i].num = num]
    BY <1>4, <1>5 DEF Sample
  <2>2. trecs' = [trecs EXCEPT ![t] = [chain EXCEPT ![k] = [r EXCEPT !.entries = [es EXCEPT ![i] = [e EXCEPT !.num = num]]]]]
    BY <1>4, <2>1
  <2> QED BY <1>6, <2>2
<1>8. e2 \in EntryRec /\ e2.tvar = s /\ e2.expected = e.expected /\ e2.new = e.new /\ e2.num = num
  BY <1>4, <1>5, <1>6 DEF EntryRec
<1>9. /\ es2 \in Seq(EntryRec) /\ Len(es2) = Len(es) /\ DOMAIN es2 = DOMAIN es /\ es2[i] = e2 /\ \A j \in DOMAIN es : j # i => es2[j] = es[j]
  BY <1>5, <1>6, <1>8
<1>10. \A j \in DOMAIN es : es2[j].tvar = es[j].tvar /\ es2[j].expected = es[j].expected /\ es2[j].new = es[j].new
  <2> SUFFICES ASSUME NEW j \in DOMAIN es
               PROVE  es2[j].tvar = es[j].tvar /\ es2[j].expected = es[j].expected /\ es2[j].new = es[j].new
    OBVIOUS
  <2>1. CASE j = i
    BY <1>4, <1>8, <1>9, <2>1
  <2>2. CASE j # i
    <3>1. es2[j] = es[j]
      BY <1>9, <2>2
    <3> QED BY <3>1
  <2> QED BY <2>1, <2>2
<1>11. r2 = [entries |-> es2, state |-> r.state] /\ r.state \in State
  <2>1. PICK st : st = r.state
    OBVIOUS
  <2>2. r = [entries |-> es, state |-> st] /\ st \in State
    BY <1>4, <1>5, <2>1 DEF TRec, State
  <2> QED BY <1>6, <2>1, <2>2
<1>12. r2 \in TRec /\ Distinct(r2) /\ r2.entries = es2
  BY <1>4, <1>5, <1>9, <1>10, <1>11, SameTVars
<1>13. chain2 \in Chain /\ Len(chain2) = Len(chain)
  <2>1. [chain EXCEPT ![k] = r2] \in Chain /\ Len([chain EXCEPT ![k] = r2]) = Len(chain)
    BY <1>5, <1>12, SetChain
  <2> QED BY <1>6, <2>1
<1>14. TypeInv'
  BY <1>1, <1>2, <1>3, <1>7, <1>13 DEF TypeInv, Working
<1>15. Elsewhere(t)
  BY <1>1, <1>2, <1>3, <1>7 DEF TypeInv, Elsewhere
<1>16. pc'[t] = "reread" /\ trecs'[t] = chain2 /\ Es(t)' = es2 /\ Here(t)' = e2 /\ Current(t)' = r2
  <2>1. pc'[t] = "reread" /\ trecs'[t] = chain2
    BY <1>1, <1>3, <1>7 DEF TypeInv
  <2>2. chain2[k] = r2
    BY <1>5, <1>6, ChainIs
  <2> QED BY <1>2, <1>4, <1>9, <1>12, <2>1, <2>2 DEF Es, Here, Current
<1>17. Committing(t)' = Committing(t) /\ AcquireAll(t)' = AcquireAll(t)
  BY <1>2 DEF Committing, AcquireAll
<1>18. \A j \in DOMAIN es : Wants(t, j)' = Wants(t, j) /\ MayHold(t, j)' = MayHold(t, j)
  BY <1>1, <1>2, <1>5, <1>9, <1>10, <1>16, <1>17 DEF MayHold, Wants, IsUpdate, Working
<1>19. ValueStep(t)
  BY <1>2 DEF ValueStep
<1>20. LockInv(t)'
  BY <1>2, <1>3, <1>5, <1>9, <1>10, <1>16, <1>18 DEF LockInv
<1>21. UnderStep(t)
  <2> SUFFICES ASSUME NEW q \in TVars, value[q] = t PROVE Under(q)' = Under(q)
    BY <1>2 DEF UnderStep
  <2>1. PICK j \in DOMAIN es : q = es[j].tvar
    BY <1>3, <1>5 DEF LockInv
  <2>2. Under(q) = es[j].expected
    BY <1>1, <1>5, <2>1, UnderHeld
  <2>3. Distinct(Current(t))' /\ j \in DOMAIN Es(t)' /\ q = Es(t)'[j].tvar /\ value'[q] = t
    BY <1>2, <1>9, <1>10, <1>12, <1>16, <2>1 DEF Distinct
  <2>4. Under(q)' = Es(t)'[j].expected
    BY <1>16, <2>3, UnderHeldNext
  <2> QED BY <1>10, <1>16, <2>2, <2>4
<1>22. VersionStep(t)
  BY <1>2, <1>3, <1>16 DEF TypeInv, VersionStep
<1>23. ThreadInv(t)'
  <2>1. ~ IsUpdate(e2)
    BY <1>1, <1>3, <1>5, <1>8 DEF ThreadInv, IsUpdate
  <2> QED BY <1>1, <1>2, <1>3, <1>4, <1>5, <1>9, <1>13, <1>16, <2>1 DEF ThreadInv, Resting, Working
<1>24. OwnInv(t)'
  BY <1>1, <1>2, <1>3, <1>5, <1>9, <1>10, <1>16, <1>18 DEF OwnInv, Working
<1>25. \A f \in EntryRec : Sampled(f) => Sampled(f)'
  BY <1>3, <1>14, <1>15, <1>19, <1>21, <1>22, SampledKept DEF Effect
<1>26. SampleInv(t)'
  <2>1. ASSUME Committing(t), NEW j \in DOMAIN es, j < i, ~ IsUpdate(es2[j]) PROVE Sampled(Es(t)[j])'
    <3>1. j # i
      BY <1>5, <2>1
    <3>2. PICK f : f = es[j]
      OBVIOUS
    <3>3. f = es2[j] /\ f \in EntryRec
      BY <1>5, <1>9, <3>1, <3>2
    <3>4. Sampled(f)
      BY <1>1, <1>3, <1>4, <1>5, <2>1, <3>2, <3>3 DEF SampleInv
    <3>5. Sampled(f)'
      BY <1>25, <3>3, <3>4
    <3>6. Es(t)'[j] = f
      BY <1>16, <3>3
    <3> QED BY <3>5, <3>6
  <2>2. Here(t)'.num <= updates'[Here(t)'.tvar]
    BY <1>2, <1>4, <1>5, <1>8, <1>16
  <2>3. \A j : IsUpdate(Es(t)[j])' <=> IsUpdate(es2[j])
    BY <1>16 DEF IsUpdate
  <2> QED BY <1>2, <1>4, <1>9, <1>16, <1>17, <2>1, <2>2, <2>3 DEF SampleInv
<1>27. CheckInv(t)'
  BY <1>16 DEF CheckInv
<1> QED BY <1>14, <1>15, <1>19, <1>20, <1>21, <1>22, <1>23, <1>24, <1>26, <1>27, StepI DEF Effect, SelfInv

(* From one phase to the next with records, locks and versions as they are. *)
LEMMA PhaseI ==
  ASSUME IInv, NEW t \in Threads, TypeInv', Elsewhere(t), value' = value, updates' = updates, op' = op, level' = level,
         Es(t)' = Es(t), pc[t] \in Working \ {"remove"}, pc'[t] \in Working \ {"lock", "sample", "reread", "store", "remove"},
         ThreadInv(t)', CheckInv(t)', \A j \in DOMAIN Es(t) : MayHold(t, j)' <=> MayHold(t, j), pc[t] # "revert"
  PROVE  Kept(t)
<1>1. TypeInv /\ LockInv(t) /\ OwnInv(t)
  BY DEF IInv
<1>2. ValueStep(t)
  BY DEF ValueStep
<1>3. UnderStep(t)
  <2>1. (pc[t] = "remove") = (pc'[t] = "remove")
    OBVIOUS
  <2> QED BY <2>1, UnderStays DEF UnderStep
<1>4. VersionStep(t)
  BY <1>1 DEF TypeInv, VersionStep
<1>5. LockInv(t)'
  BY <1>1 DEF LockInv
<1>6. OwnInv(t)'
  BY <1>1 DEF OwnInv
<1>7. SampleInv(t)'
  BY DEF SampleInv
<1> QED BY <1>2, <1>3, <1>4, <1>5, <1>6, <1>7, StepI DEF Effect, SelfInv

LEMMA CheckI ==
  ASSUME IInv, NEW t \in Threads, Check(t)
  PROVE  Kept(t)
<1>1. /\ pc[t] = "check" /\ More(t) /\ UNCHANGED <<tvars, trecs, frames, op, level, steps, sleep, history>>
  BY DEF Check
<1>2. CASE ~ (IsUpdate(Here(t)) \/ updates[Here(t).tvar] = Here(t).num)
  <2>1. Fail(t) /\ value' = value
    BY <1>1, <1>2 DEF Check, tvars
  <2> QED BY <1>1, <2>1, FailI DEF tvars
<1>3. CASE IsUpdate(Here(t)) \/ updates[Here(t).tvar] = Here(t).num
  <2>1. TypeInv /\ ThreadInv(t) /\ CheckInv(t)
    BY DEF IInv
  <2>2. idx[t] \in DOMAIN Es(t) /\ idx[t] \in Nat \ {0} /\ Here(t) = Es(t)[idx[t]] /\ Here(t).tvar \in TVars /\ Here(t).num \in Nat
    BY <1>1, HereIs DEF Working
  <2>3. idx' = [idx EXCEPT ![t] = idx[t] + 1] /\ pc' = pc /\ ok' = ok
    BY <1>1, <1>3, <2>1 DEF Check, Next1, Goto, TypeInv
  <2>4. value' = value /\ updates' = updates /\ watch' = watch /\ trecs' = trecs /\ frames' = frames /\ op' = op /\ level' = level
        /\ why' = why /\ inbox' = inbox /\ snap' = snap
    BY <1>1 DEF tvars, sleep, history
  <2>5. TypeInv'
    BY <2>1, <2>2, <2>3, <2>4 DEF TypeInv
  <2>6. Elsewhere(t)
    BY <2>1, <2>3, <2>4 DEF TypeInv, Elsewhere
  <2>7. pc'[t] = "check" /\ idx'[t] = idx[t] + 1
    BY <1>1, <2>1, <2>3 DEF TypeInv
  <2>8. Es(t)' = Es(t) /\ \A j : Wants(t, j)' = Wants(t, j)
    BY <2>4, SameRecords
  <2>9. ThreadInv(t)'
    BY <1>1, <2>1, <2>3, <2>4, <2>7 DEF ThreadInv, Resting, Working
  <2>10. \A j \in DOMAIN Es(t) : MayHold(t, j)' <=> MayHold(t, j)
    BY <1>1, <2>7, <2>8 DEF MayHold, Working
  <2>11. CheckInv(t)'
    <3> SUFFICES ASSUME ~ snap[t]
                 PROVE  \E j \in DOMAIN Es(t) : j >= idx[t] + 1 /\ ~ IsUpdate(Es(t)[j]) /\ Es(t)[j].num < updates[Es(t)[j].tvar]
      BY <2>4, <2>7, <2>8 DEF CheckInv, IsUpdate
    <3>1. PICK j \in DOMAIN Es(t) : j >= idx[t] /\ ~ IsUpdate(Es(t)[j]) /\ Es(t)[j].num < updates[Es(t)[j].tvar]
      BY <1>1, <2>1 DEF CheckInv
    <3>2. j # idx[t]
      <4> SUFFICES ASSUME j = idx[t] PROVE FALSE
        OBVIOUS
      <4>1. updates[Here(t).tvar] = Here(t).num /\ Here(t).num < updates[Here(t).tvar]
        BY <1>3, <2>2, <3>1
      <4> QED BY <2>2, <4>1
    <3>3. j \in Nat
      BY <1>1, CurrentIs DEF Working
    <3>4. j >= idx[t] + 1
      BY <2>2, <3>1, <3>2, <3>3
    <3> QED BY <3>1, <3>4
  <2> QED BY <1>1, <2>4, <2>5, <2>6, <2>7, <2>8, <2>9, <2>10, <2>11, PhaseI DEF Working
<1> QED BY <1>2, <1>3

LEMMA CheckedI ==
  ASSUME IInv, NEW t \in Threads, Checked(t)
  PROVE  Kept(t)
<1>1. /\ pc[t] = "check" /\ ~ More(t) /\ UNCHANGED <<tvars, trecs, frames, op, level, ok, steps, sleep, seen, snap>>
      /\ idx' = [idx EXCEPT ![t] = 1]
  BY DEF Checked
<1>2. PICK l : l = (IF op[t] = "commit" THEN "write" ELSE "merge") /\ pc' = [pc EXCEPT ![t] = l]
  BY DEF Checked, Goto
<1>3. TypeInv /\ ThreadInv(t) /\ CheckInv(t)
  BY DEF IInv
<1>4. l \in {"write", "merge"}
  BY <1>2
<1>5. value' = value /\ updates' = updates /\ watch' = watch /\ trecs' = trecs /\ frames' = frames /\ op' = op /\ level' = level
      /\ why' = why /\ inbox' = inbox /\ snap' = snap /\ ok' = ok
  BY <1>1 DEF tvars, sleep
<1>6. TypeInv'
  BY <1>1, <1>2, <1>3, <1>4, <1>5 DEF TypeInv, Working
<1>7. Elsewhere(t)
  BY <1>1, <1>2, <1>3, <1>5 DEF TypeInv, Elsewhere
<1>8. pc'[t] = l /\ idx'[t] = 1
  BY <1>1, <1>2, <1>3 DEF TypeInv
<1>9. Es(t)' = Es(t) /\ \A j : Wants(t, j)' = Wants(t, j)
  BY <1>5, SameRecords
<1>10. op[t] \in {"commit", "nested"}
  BY <1>1, <1>3 DEF ThreadInv, TypeInv, Operation, Resting
<1>11. ThreadInv(t)'
  BY <1>1, <1>2, <1>3, <1>4, <1>5, <1>8, <1>10 DEF ThreadInv, Resting, Working
<1>12. DOMAIN Es(t) = 1..Len(Es(t)) /\ Len(Es(t)) \in Nat /\ idx[t] \in Nat
  BY <1>1, CurrentIs DEF Working
<1>13. \A j \in DOMAIN Es(t) : MayHold(t, j)' <=> MayHold(t, j)
  <2>1. \A j : Wants(t, j) <=> IsUpdate(Es(t)[j])
    BY <1>10 DEF Wants, AcquireAll
  <2>2. \A j \in DOMAIN Es(t) : j >= 1
    BY <1>12
  <2>3. \A j \in DOMAIN Es(t) : IsUpdate(Es(t)[j])' <=> IsUpdate(Es(t)[j])
    BY <1>9 DEF IsUpdate
  <2>4. \A j \in DOMAIN Es(t) : MayHold(t, j) <=> IsUpdate(Es(t)[j])
    BY <1>1, <2>1 DEF MayHold, Working
  <2>5. \A j \in DOMAIN Es(t) : MayHold(t, j)' <=> IsUpdate(Es(t)[j])
    BY <1>4, <1>8, <1>9, <2>2, <2>3 DEF MayHold, Working
  <2> QED BY <2>4, <2>5
<1>14. CheckInv(t)'
  <2>1. ~ \E j \in DOMAIN Es(t) : j >= idx[t]
    BY <1>1, <1>12 DEF More, Es
  <2>2. snap[t]
    BY <1>1, <1>3, <2>1 DEF CheckInv
  <2> QED BY <1>4, <1>5, <1>8, <2>2 DEF CheckInv
<1> QED BY <1>1, <1>4, <1>5, <1>6, <1>7, <1>8, <1>9, <1>11, <1>13, <1>14, PhaseI DEF Working

(* stmWait marks the record as waiting.                                    *)
LEMMA WaitingChain ==
  ASSUME NEW chain \in Chain, Len(chain) >= 1
  PROVE  \E chain2 \in Chain : /\ chain2 = [chain EXCEPT ![1].state = "waiting"] /\ Len(chain2) = Len(chain)
                               /\ \A k \in 1..Len(chain) : chain2[k].entries = chain[k].entries
<1>1. PICK r : r = chain[1]
  OBVIOUS
<1>2. 1 \in 1..Len(chain) /\ r \in TRec /\ Distinct(r)
  BY <1>1, ChainIs
<1>3. PICK r2 : r2 = [r EXCEPT !.state = "waiting"]
  OBVIOUS
<1>4. r2 \in TRec /\ Distinct(r2) /\ r2.entries = r.entries
  BY <1>2, <1>3 DEF TRec, Distinct
<1>5. PICK chain2 : chain2 = [chain EXCEPT ![1] = r2]
  OBVIOUS
<1>6. chain2 = [chain EXCEPT ![1].state = "waiting"]
  BY <1>1, <1>3, <1>5
<1>7. [chain EXCEPT ![1] = r2] \in Chain /\ Len([chain EXCEPT ![1] = r2]) = Len(chain)
  BY <1>2, <1>4, SetChain
<1>8. \A k \in 1..Len(chain) : chain2[k].entries = chain[k].entries
  <2>1. DOMAIN chain = 1..Len(chain)
    BY ChainIs
  <2>2. chain2[1] = r2 /\ \A k \in 1..Len(chain) : k # 1 => chain2[k] = chain[k]
    BY <1>2, <1>5, <2>1
  <2> QED BY <1>1, <1>4, <2>2
<1> QED BY <1>5, <1>6, <1>7, <1>8

LEMMA OwnedI ==
  ASSUME IInv, NEW t \in Threads, Owned(t)
  PROVE  Kept(t)
<1>1. /\ pc[t] = "lock" /\ ~ More(t) /\ UNCHANGED <<value, updates, frames, op, level, ok, steps, inbox, seen, log>>
      /\ snap' = [snap EXCEPT ![t] = Holds(Current(t))]
  BY DEF Owned
<1>2. TypeInv /\ ThreadInv(t) /\ SampleInv(t) /\ OwnInv(t)
  BY DEF IInv
<1>3. Holds(Current(t)) \in BOOLEAN
  BY DEF Holds
<1>4. /\ DOMAIN Es(t) = 1..Len(Es(t)) /\ Len(Es(t)) \in Nat /\ idx[t] \in Nat /\ level[t] \in 1..Len(trecs[t])
      /\ Distinct(Current(t)) /\ \A j \in DOMAIN Es(t) : Es(t)[j].num \in Nat /\ Es(t)[j].tvar \in TVars
  BY <1>1, CurrentIs DEF Working
<1>5. \A j \in DOMAIN Es(t) : j < idx[t] /\ j >= 1
  BY <1>1, <1>4 DEF More, Es
<1>6. \A j \in DOMAIN Es(t) : MayHold(t, j) <=> Wants(t, j)
  BY <1>1, <1>5 DEF MayHold, Working
<1>7. op[t] \in Operation
  BY <1>1, <1>2 DEF ThreadInv, TypeInv, Resting
<1>8. CASE op[t] \in {"commit", "nested"}
  <2>1. pc' = [pc EXCEPT ![t] = "check"] /\ idx' = [idx EXCEPT ![t] = 1] /\ UNCHANGED <<watch, why, trecs>>
    BY <1>8 DEF Owned, Goto
  <2>2. TypeInv'
    BY <1>1, <1>2, <1>3, <2>1 DEF TypeInv, Working
  <2>3. Elsewhere(t)
    BY <1>1, <1>2, <2>1 DEF TypeInv, Elsewhere
  <2>4. pc'[t] = "check" /\ idx'[t] = 1 /\ snap'[t] = Holds(Current(t))
    BY <1>1, <1>2, <2>1 DEF TypeInv
  <2>5. Es(t)' = Es(t) /\ \A j : Wants(t, j)' = Wants(t, j)
    BY <1>1, <2>1, SameRecords
  <2>6. \A j \in DOMAIN Es(t) : MayHold(t, j)' <=> MayHold(t, j)
    BY <1>6, <2>4, <2>5 DEF MayHold, Working
  <2>7. ThreadInv(t)'
    BY <1>1, <1>2, <1>8, <2>1, <2>4 DEF ThreadInv, Resting, Working
  <2>8. CheckInv(t)'
    <3>1. ASSUME ~ Holds(Current(t))
          PROVE  \E j \in DOMAIN Es(t) : j >= 1 /\ ~ IsUpdate(Es(t)[j]) /\ Es(t)[j].num < updates[Es(t)[j].tvar]
      <4>1. PICK j \in DOMAIN Es(t) : Under(Es(t)[j].tvar) # Es(t)[j].expected
        BY <3>1 DEF Holds, Es
      <4>2. ~ IsUpdate(Es(t)[j])
        <5> SUFFICES ASSUME IsUpdate(Es(t)[j]) PROVE FALSE
          OBVIOUS
        <5>1. MayHold(t, j)
          BY <1>6 DEF Wants
        <5>2. value[Es(t)[j].tvar] = t
          BY <1>1, <1>2, <5>1 DEF OwnInv, Working
        <5>3. Under(Es(t)[j].tvar) = Es(t)[j].expected
          BY <1>1, <1>4, <5>2, UnderHeld
        <5> QED BY <4>1, <5>3
      <4>3. Sampled(Es(t)[j])
        BY <1>1, <1>2, <1>5, <1>8, <4>2 DEF SampleInv, Committing
      <4>4. Es(t)[j].num <= updates[Es(t)[j].tvar] /\ Es(t)[j].num # updates[Es(t)[j].tvar]
        BY <4>1, <4>3 DEF Sampled
      <4>5. updates[Es(t)[j].tvar] \in Nat
        BY <1>2, <1>4 DEF TypeInv
      <4>6. Es(t)[j].num < updates[Es(t)[j].tvar]
        BY <1>4, <4>4, <4>5
      <4> QED BY <1>5, <4>2, <4>6
    <3>2. \A j : IsUpdate(Es(t)[j])' <=> IsUpdate(Es(t)[j])
      BY <2>5 DEF IsUpdate
    <3> QED BY <1>1, <2>4, <2>5, <3>1, <3>2 DEF CheckInv
  <2> QED BY <1>1, <2>2, <2>3, <2>4, <2>5, <2>6, <2>7, <2>8, PhaseI DEF Working
<1>9. CASE op[t] = "wait"
  <2>1. /\ pc' = [pc EXCEPT ![t] = "sleep"] /\ idx' = idx /\ why' = [why EXCEPT ![t] = "stm"]
        /\ watch' = [s \in TVars |-> IF Has(Current(t), s) THEN watch[s] \cup {t} ELSE watch[s]]
        /\ trecs' = [trecs EXCEPT ![t][1].state = "waiting"]
    BY <1>9 DEF Owned, Goto
  <2>2. trecs[t] \in Chain /\ Len(trecs[t]) >= 1
    BY <1>1, NestIs
  <2>3. PICK chain \in Chain : /\ trecs' = [trecs EXCEPT ![t] = chain] /\ Len(chain) = Len(trecs[t])
                               /\ \A k \in 1..Len(trecs[t]) : chain[k].entries = trecs[t][k].entries
    BY <2>1, <2>2, WaitingChain
  <2>4. watch' \in [TVars -> SUBSET Threads]
    BY <1>2, <2>1 DEF TypeInv
  <2>5. TypeInv'
    <3>1. trecs' \in [Threads -> Chain]
      BY <1>2, <2>3 DEF TypeInv
    <3>2. pc' \in [Threads -> Resting \cup Working] /\ why' \in [Threads -> {"not", "stm"}]
      BY <1>2, <2>1 DEF TypeInv, Working
    <3>3. snap' \in [Threads -> BOOLEAN]
      BY <1>1, <1>2, <1>3 DEF TypeInv
    <3> QED BY <1>1, <1>2, <2>1, <2>4, <3>1, <3>2, <3>3 DEF TypeInv
  <2>6. Elsewhere(t)
    BY <1>1, <1>2, <2>1, <2>3 DEF TypeInv, Elsewhere
  <2>7. pc'[t] = "sleep" /\ trecs'[t] = chain
    BY <1>2, <2>1, <2>3 DEF TypeInv
  <2>8. Es(t)' = Es(t) /\ \A j : Wants(t, j)' = Wants(t, j)
    <3>1. Es(t)' = Es(t)
      BY <1>1, <1>4, <2>3, <2>7 DEF Es, Current
    <3> QED BY <1>1, <3>1 DEF Wants, AcquireAll, IsUpdate
  <2>9. \A j \in DOMAIN Es(t) : MayHold(t, j)' <=> MayHold(t, j)
    BY <1>6, <2>7, <2>8 DEF MayHold, Working
  <2>10. ThreadInv(t)'
    BY <1>1, <1>2, <1>9, <2>1, <2>3, <2>7 DEF ThreadInv, Resting, Working
  <2>11. CheckInv(t)'
    BY <2>7 DEF CheckInv
  <2> QED BY <1>1, <2>5, <2>6, <2>7, <2>8, <2>9, <2>10, <2>11, PhaseI DEF Working
<1>10. CASE op[t] \notin {"commit", "nested", "wait"}
  <2>1. pc' = [pc EXCEPT ![t] = "revert"] /\ idx' = idx /\ watch' = watch /\ trecs' = trecs
    BY <1>10 DEF Owned, Goto
  <2>2. why' \in [Threads -> {"not", "stm"}]
    <3>1. why' = why \/ why' = [why EXCEPT ![t] = "stm"]
      BY <1>10 DEF Owned
    <3> QED BY <1>2, <3>1 DEF TypeInv
  <2>3. watch' \in [TVars -> SUBSET Threads] /\ inbox' \subseteq Threads /\ ok' = [ok EXCEPT ![t] = ok[t]] /\ ok[t] \in BOOLEAN
    BY <1>1, <1>2, <2>1 DEF TypeInv
  <2> QED BY <1>1, <1>3, <2>1, <2>2, <2>3, ToRevertI
<1> QED BY <1>8, <1>9, <1>10

LEMMA BumpI ==
  ASSUME IInv, NEW t \in Threads, Bump(t)
  PROVE  Kept(t)
<1>1. pc[t] = "write" /\ pc' = [pc EXCEPT ![t] = "store"]
      /\ UNCHANGED <<value, watch, trecs, frames, op, level, ok, steps, why, history>>
  BY DEF Bump, Goto
<1>2. PICK i \in ToWrite(t) :
        /\ \A j \in ToWrite(t) : i <= j
        /\ inbox' = inbox \cup Waiters(Current(t).entries[i].tvar)
        /\ updates' = [updates EXCEPT ![Current(t).entries[i].tvar] = updates[Current(t).entries[i].tvar] + 1]
        /\ idx' = [idx EXCEPT ![t] = i]
  BY DEF Bump, IInv, TypeInv
<1>3. PICK s : s = Es(t)[i].tvar
  OBVIOUS
<1>4. TypeInv /\ ThreadInv(t) /\ LockInv(t) /\ OwnInv(t) /\ CheckInv(t)
  BY DEF IInv
<1>5. /\ DOMAIN Es(t) = 1..Len(Es(t)) /\ Len(Es(t)) \in Nat /\ idx[t] \in Nat
      /\ \A j \in DOMAIN Es(t) : Es(t)[j].tvar \in TVars
  BY <1>1, CurrentIs DEF Working
<1>6. i \in DOMAIN Es(t) /\ i >= idx[t] /\ IsUpdate(Es(t)[i]) /\ i \in Nat \ {0} /\ s \in TVars
  BY <1>2, <1>3, <1>5 DEF ToWrite, Es
<1>7. updates' = [updates EXCEPT ![s] = updates[s] + 1] /\ updates[s] \in Nat
  BY <1>2, <1>3, <1>4, <1>6 DEF Es, TypeInv
<1>8. TypeInv'
  <2>1. inbox' \subseteq Threads
    BY <1>2, <1>3, <1>4, <1>6 DEF TypeInv, Waiters, Es
  <2>2. pc' \in [Threads -> Resting \cup Working]
    BY <1>1, <1>4 DEF TypeInv, Working
  <2>3. updates' \in [TVars -> Nat] /\ idx' \in [Threads -> Nat \ {0}]
    <3>1. updates' \in [TVars -> Nat]
      <4>1. PICK f \in [TVars -> Nat] : f = updates
        BY <1>4 DEF TypeInv
      <4>2. PICK n \in Nat : n = f[s] + 1
        BY <1>6
      <4>3. updates' = [f EXCEPT ![s] = n]
        BY <1>7, <4>1, <4>2
      <4> QED BY <4>3
    <3>2. idx' \in [Threads -> Nat \ {0}]
      BY <1>2, <1>4, <1>6 DEF TypeInv
    <3> QED BY <3>1, <3>2
  <2> QED BY <1>1, <1>4, <2>1, <2>2, <2>3 DEF TypeInv, history
<1>9. Elsewhere(t)
  BY <1>1, <1>2, <1>4 DEF TypeInv, Elsewhere, history
<1>10. pc'[t] = "store" /\ idx'[t] = i
  BY <1>1, <1>2, <1>4 DEF TypeInv
<1>11. Es(t)' = Es(t) /\ Current(t)' = Current(t)
  BY <1>1, SameRecords
<1>12. Here(t)' = Es(t)[i]
  BY <1>10, <1>11 DEF Here, Es
<1>13. ValueStep(t)
  BY <1>1 DEF ValueStep
<1>14. UnderStep(t)
  BY <1>1, <1>10, <1>11, UnderStays DEF UnderStep
<1>15. VersionStep(t)
  <2>1. \A q \in TVars : updates[q] \in Nat /\ updates'[q] = IF q = s THEN updates[q] + 1 ELSE updates[q]
    BY <1>4, <1>7 DEF TypeInv
  <2> QED BY <1>3, <1>12, <2>1 DEF VersionStep
<1>16. ThreadInv(t)'
  BY <1>1, <1>4, <1>6, <1>10, <1>11, <1>12 DEF ThreadInv, Resting, Working, IsUpdate
<1>17. \A j \in DOMAIN Es(t) : MayHold(t, j)' <=> MayHold(t, j)
  <2>1. \A j : MayHold(t, j) <=> j \in DOMAIN Es(t) /\ j >= idx[t] /\ IsUpdate(Es(t)[j])
    BY <1>1 DEF MayHold, Working
  <2>2. \A j : MayHold(t, j)' <=> j \in DOMAIN Es(t) /\ j >= i /\ IsUpdate(Es(t)[j])
    BY <1>10, <1>11 DEF MayHold, Working, IsUpdate
  <2>3. ASSUME NEW j \in DOMAIN Es(t), IsUpdate(Es(t)[j]), j >= idx[t] PROVE j >= i
    <3>1. j \in ToWrite(t)
      BY <2>3 DEF ToWrite, Es
    <3> QED BY <1>2, <1>5, <1>6, <3>1
  <2>4. \A j \in DOMAIN Es(t) : j >= i => j >= idx[t]
    BY <1>5, <1>6
  <2> QED BY <2>1, <2>2, <2>3, <2>4
<1>18. LockInv(t)'
  BY <1>1, <1>4, <1>11, <1>17 DEF LockInv
<1>19. OwnInv(t)'
  BY <1>1, <1>4, <1>11, <1>17 DEF OwnInv, Working
<1>20. SampleInv(t)'
  BY <1>10 DEF SampleInv
<1>21. CheckInv(t)'
  BY <1>1, <1>4, <1>10 DEF CheckInv, history
<1> QED BY <1>8, <1>9, <1>13, <1>14, <1>15, <1>16, <1>18, <1>19, <1>20, <1>21, StepI DEF Effect, SelfInv

(* A TVar given back; the others are held as before.                       *)
LEMMA UnlockI ==
  ASSUME IInv, NEW t \in Threads, TypeInv', Elsewhere(t), updates' = updates, NEW s \in TVars, NEW v \in Values,
         value' = [value EXCEPT ![s] = v], value[s] = t, Es(t)' = Es(t), (pc[t] = "remove") = (pc'[t] = "remove"),
         (pc[t] = "store" /\ s = Here(t).tvar) \/ v = Under(s), pc'[t] \in {"write", "merge", "revert", "remove"},
         ThreadInv(t)', CheckInv(t)',
         \A j \in DOMAIN Es(t) : MayHold(t, j) /\ Es(t)[j].tvar # s => MayHold(t, j)',
         pc'[t] \in {"write", "merge"} => \A j \in DOMAIN Es(t) : MayHold(t, j)' => value[Es(t)[j].tvar] = t /\ Es(t)[j].tvar # s
  PROVE  Kept(t)
<1>1. TypeInv /\ LockInv(t)
  BY DEF IInv
<1>2. value'[s] = v /\ \A r : r # s => value'[r] = value[r]
  BY <1>1 DEF TypeInv
<1>3. v # t
  BY Apart
<1>4. ValueStep(t)
  BY <1>2 DEF ValueStep
<1>5. UnderStep(t)
  <2>1. Under(s)' = v
    BY <1>2 DEF Under
  <2>2. ASSUME NEW r \in TVars, r # s, value[r] = t \/ value'[r] = t PROVE Under(r)' = Under(r)
    BY <1>2, <2>2, UnderStays
  <2> QED BY <2>1, <2>2 DEF UnderStep
<1>6. VersionStep(t)
  BY <1>1 DEF TypeInv, VersionStep
<1>7. LockInv(t)'
  <2> SUFFICES ASSUME NEW r \in TVars, value'[r] = t PROVE \E j \in DOMAIN Es(t) : MayHold(t, j)' /\ Es(t)[j].tvar = r
    BY DEF LockInv
  <2>1. r # s /\ value[r] = t
    BY <1>2, <1>3
  <2> QED BY <1>1, <2>1 DEF LockInv
<1>8. OwnInv(t)'
  BY <1>2 DEF OwnInv
<1>9. SampleInv(t)'
  BY DEF SampleInv
<1> QED BY <1>4, <1>5, <1>6, <1>7, <1>8, <1>9, StepI DEF Effect, SelfInv

LEMMA StoreI ==
  ASSUME IInv, NEW t \in Threads, Store(t)
  PROVE  Kept(t)
<1>1. pc[t] = "store" /\ UNCHANGED <<updates, watch, trecs, frames, op, level, steps, sleep, history>>
  BY DEF Store
<1>2. PICK s, i, v : s = Here(t).tvar /\ i = idx[t] /\ v = Here(t).new
  OBVIOUS
<1>3. TypeInv /\ ThreadInv(t) /\ OwnInv(t) /\ CheckInv(t)
  BY DEF IInv
<1>4. i \in DOMAIN Es(t) /\ i \in Nat \ {0} /\ s \in TVars /\ v \in Values /\ s = Es(t)[i].tvar
  BY <1>1, <1>2, HereIs DEF Working
<1>5. value' = [value EXCEPT ![s] = v] /\ pc' = [pc EXCEPT ![t] = "write"] /\ idx' = [idx EXCEPT ![t] = i + 1] /\ ok' = ok
  BY <1>2, <1>3 DEF Store, Next1, Goto, TypeInv
<1>6. updates' = updates /\ watch' = watch /\ trecs' = trecs /\ frames' = frames /\ op' = op /\ level' = level
      /\ why' = why /\ inbox' = inbox /\ snap' = snap
  BY <1>1 DEF sleep, history
<1>7. TypeInv'
  <2>1. value' \in [TVars -> Values \cup Threads] /\ pc' \in [Threads -> Resting \cup Working] /\ idx' \in [Threads -> Nat \ {0}]
    BY <1>3, <1>4, <1>5 DEF TypeInv, Working
  <2> QED BY <1>3, <1>5, <1>6, <2>1 DEF TypeInv
<1>8. Elsewhere(t)
  BY <1>3, <1>5, <1>6 DEF TypeInv, Elsewhere
<1>9. pc'[t] = "write" /\ idx'[t] = i + 1
  BY <1>3, <1>5 DEF TypeInv
<1>10. Es(t)' = Es(t) /\ \A j : Wants(t, j)' = Wants(t, j)
  BY <1>6, SameRecords
<1>11. \A j : MayHold(t, j) <=> j \in DOMAIN Es(t) /\ j >= i /\ IsUpdate(Es(t)[j])
  BY <1>1, <1>2 DEF MayHold, Working
<1>12. \A j : MayHold(t, j)' <=> j \in DOMAIN Es(t) /\ j >= i + 1 /\ IsUpdate(Es(t)[j])
  BY <1>9, <1>10 DEF MayHold, Working, IsUpdate
<1>13. DOMAIN Es(t) = 1..Len(Es(t)) /\ Len(Es(t)) \in Nat /\ Distinct(Current(t))
  BY <1>1, CurrentIs DEF Working
<1>14. \A j \in DOMAIN Es(t) : (j >= i + 1 => j >= i /\ j # i) /\ (j >= i /\ j # i => j >= i + 1)
  BY <1>4, <1>13
<1>15. value[s] = t
  BY <1>1, <1>2, <1>3, <1>4, <1>11, <1>13 DEF OwnInv, Working, ThreadInv, Here, Es
<1>16. \A j \in DOMAIN Es(t) : MayHold(t, j)' => value[Es(t)[j].tvar] = t /\ Es(t)[j].tvar # s
  BY <1>1, <1>3, <1>4, <1>11, <1>12, <1>13, <1>14 DEF OwnInv, Working, Distinct, Es
<1>17. \A j \in DOMAIN Es(t) : MayHold(t, j) /\ Es(t)[j].tvar # s => MayHold(t, j)'
  BY <1>4, <1>11, <1>12, <1>14
<1>18. ThreadInv(t)'
  BY <1>1, <1>3, <1>5, <1>6, <1>9 DEF ThreadInv, Resting, Working
<1>19. CheckInv(t)'
  BY <1>1, <1>3, <1>6, <1>9 DEF CheckInv
<1>20. (pc[t] = "remove") = (pc'[t] = "remove") /\ pc'[t] \in {"write", "merge", "revert", "remove"}
  BY <1>1, <1>9
<1>21. (pc[t] = "store" /\ s = Here(t).tvar) \/ v = Under(s)
  BY <1>1, <1>2
<1>22. s \in TVars /\ v \in Values /\ value' = [value EXCEPT ![s] = v] /\ updates' = updates /\ Es(t)' = Es(t)
  BY <1>4, <1>5, <1>6, <1>10
<1> QED BY <1>7, <1>8, <1>15, <1>16, <1>17, <1>18, <1>19, <1>20, <1>21, <1>22, UnlockI

LEMMA RevertI ==
  ASSUME IInv, NEW t \in Threads, Revert(t)
  PROVE  Kept(t)
<1>1. pc[t] = "revert" /\ UNCHANGED <<updates, watch, trecs, frames, pc, scan, steps, sleep, history>>
  BY DEF Revert
<1>2. PICK i \in Owning(t) : value' = [value EXCEPT ![Current(t).entries[i].tvar] = Current(t).entries[i].expected]
  BY DEF Revert
<1>3. PICK s, v : s = Es(t)[i].tvar /\ v = Es(t)[i].expected
  OBVIOUS
<1>4. TypeInv /\ ThreadInv(t)
  BY DEF IInv
<1>5. i \in DOMAIN Es(t) /\ s \in TVars /\ v \in Values /\ Distinct(Current(t)) /\ value[s] = t
  BY <1>1, <1>2, <1>3, CurrentIs DEF Working, Owning, Es
<1>6. value' = [value EXCEPT ![s] = v]
  BY <1>2, <1>3 DEF Es
<1>7. updates' = updates /\ watch' = watch /\ trecs' = trecs /\ frames' = frames /\ op' = op /\ level' = level /\ idx' = idx /\ ok' = ok
      /\ why' = why /\ inbox' = inbox /\ snap' = snap /\ pc' = pc
  BY <1>1 DEF sleep, history, scan
<1>8. TypeInv'
  BY <1>4, <1>5, <1>6, <1>7 DEF TypeInv
<1>9. Elsewhere(t)
  BY <1>7 DEF Elsewhere
<1>10. Es(t)' = Es(t) /\ \A j : Wants(t, j)' = Wants(t, j)
  BY <1>7, SameRecords
<1>11. \A j : MayHold(t, j)' <=> MayHold(t, j)
  BY <1>1, <1>7, <1>10 DEF MayHold
<1>12. ThreadInv(t)'
  BY <1>1, <1>4, <1>7 DEF ThreadInv, Resting
<1>13. CheckInv(t)'
  BY <1>1, <1>7 DEF CheckInv
<1>14. v = Under(s)
  BY <1>1, <1>3, <1>5, UnderHeld
<1>15. pc'[t] = "revert" /\ (pc[t] = "remove") = (pc'[t] = "remove")
  BY <1>1, <1>7
<1> QED BY <1>5, <1>6, <1>7, <1>8, <1>9, <1>10, <1>11, <1>12, <1>13, <1>14, <1>15, UnlockI

LEMMA UnwatchI ==
  ASSUME IInv, NEW t \in Threads, Unwatch(t)
  PROVE  Kept(t)
<1>1. pc[t] = "remove" /\ More(t) /\ UNCHANGED <<updates, trecs, frames, op, level, steps, sleep, history>>
  BY DEF Unwatch
<1>2. PICK s, i, v : s = Here(t).tvar /\ i = idx[t] /\ v = Here(t).new
  OBVIOUS
<1>3. TypeInv /\ ThreadInv(t)
  BY DEF IInv
<1>4. i \in DOMAIN Es(t) /\ i \in Nat \ {0} /\ s \in TVars /\ v \in Values /\ s = Es(t)[i].tvar /\ v = Es(t)[i].new /\ value[s] = t
  BY <1>1, <1>2, HereIs DEF Working, Unwatch
<1>5. value' = [value EXCEPT ![s] = v] /\ pc' = pc /\ idx' = [idx EXCEPT ![t] = i + 1] /\ ok' = ok
      /\ watch' = [watch EXCEPT ![s] = watch[s] \ {t}]
  BY <1>1, <1>2, <1>3, <1>4 DEF Unwatch, Next1, Goto, TypeInv
<1>6. updates' = updates /\ trecs' = trecs /\ frames' = frames /\ op' = op /\ level' = level
      /\ why' = why /\ inbox' = inbox /\ snap' = snap
  BY <1>1 DEF sleep, history
<1>7. TypeInv'
  <2>1. value' \in [TVars -> Values \cup Threads] /\ watch' \in [TVars -> SUBSET Threads] /\ idx' \in [Threads -> Nat \ {0}]
    BY <1>3, <1>4, <1>5 DEF TypeInv
  <2> QED BY <1>3, <1>5, <1>6, <2>1 DEF TypeInv
<1>8. Elsewhere(t)
  BY <1>3, <1>5, <1>6 DEF TypeInv, Elsewhere
<1>9. pc'[t] = "remove" /\ (pc[t] = "remove") = (pc'[t] = "remove")
  BY <1>1, <1>5
<1>10. Es(t)' = Es(t)
  BY <1>6, SameRecords
<1>11. \A j \in DOMAIN Es(t) : MayHold(t, j) /\ Es(t)[j].tvar # s => MayHold(t, j)'
  BY <1>1, <1>2, <1>4 DEF MayHold
<1>12. ThreadInv(t)'
  BY <1>1, <1>3, <1>5, <1>6, <1>9 DEF ThreadInv, Resting, Working
<1>13. CheckInv(t)'
  BY <1>9 DEF CheckInv
<1>14. Distinct(Current(t))
  BY <1>1, CurrentIs DEF Working
<1>15. v = Under(s)
  BY <1>1, <1>4, <1>14, UnderHeld
<1> QED BY <1>4, <1>5, <1>6, <1>7, <1>8, <1>9, <1>10, <1>11, <1>12, <1>13, <1>15, UnlockI

LEMMA MergeI ==
  ASSUME IInv, NEW t \in Threads, Merge(t)
  PROVE  Kept(t)
<1>1. pc[t] = "merge" /\ More(t) /\ UNCHANGED <<updates, watch, frames, op, level, steps, sleep, history>>
  BY DEF Merge
<1>2. PICK s, i, e : s = Here(t).tvar /\ i = idx[t] /\ e = Here(t)
  OBVIOUS
<1>3. TypeInv /\ ThreadInv(t) /\ OwnInv(t) /\ CheckInv(t)
  BY DEF IInv
<1>4. i \in DOMAIN Es(t) /\ i \in Nat \ {0} /\ e \in EntryRec /\ e = Es(t)[i] /\ s \in TVars /\ e.expected \in Values /\ s = Es(t)[i].tvar
  BY <1>1, <1>2, HereIs DEF Working
<1>5. op[t] = "nested"
  BY <1>1, <1>3 DEF TypeInv, ThreadInv, Operation, Resting, Working
<1>6. PICK chain, n, front, last : chain = trecs[t] /\ n = Len(chain) /\ front = Front(chain) /\ last = Last(chain)
  OBVIOUS
<1>7. chain \in Chain /\ n \in Nat /\ level[t] = n /\ n > 1
  BY <1>1, <1>3, <1>5, <1>6, NestIs DEF ThreadInv
<1>8. front \in Chain /\ Len(front) = n - 1 /\ last \in TRec /\ Distinct(last) /\ last = Current(t)
  <2>1. front \in Chain /\ Len(front) = n - 1 /\ last \in TRec /\ Distinct(last)
    BY <1>6, <1>7, FrontChain
  <2>2. last = Current(t)
    BY <1>6, <1>7 DEF Last, Current
  <2> QED BY <2>1, <2>2
<1>9. PICK merged : merged = MergeUpdate(front, e)
  OBVIOUS
<1>10. merged \in Chain /\ Len(merged) = n - 1
  BY <1>4, <1>7, <1>8, <1>9, MergeUpdateIs
<1>11. PICK new \in Chain : new = Append(merged, last) /\ Len(new) = n /\ new[n] = last
  <2>1. /\ Append(merged, last) \in Chain /\ Len(Append(merged, last)) = (n - 1) + 1
        /\ Append(merged, last)[(n - 1) + 1] = last
    BY <1>8, <1>10, AppendChain
  <2>2. (n - 1) + 1 = n
    BY <1>7
  <2> QED BY <2>1, <2>2
<1>12. trecs' = [trecs EXCEPT ![t] = new] /\ pc' = pc /\ idx' = [idx EXCEPT ![t] = i + 1] /\ ok' = ok
  <2>1. trecs' = [trecs EXCEPT ![t] = Append(MergeUpdate(Front(trecs[t]), Here(t)), Last(trecs[t]))]
    BY <1>3 DEF Merge, TypeInv
  <2>2. trecs' = [trecs EXCEPT ![t] = new]
    BY <1>2, <1>6, <1>9, <1>11, <2>1
  <2>3. idx' = [idx EXCEPT ![t] = i + 1] /\ ok' = ok
    BY <1>2, <1>3 DEF Merge, Next1, TypeInv
  <2>4. pc' = pc
    BY <1>1, <1>3 DEF Merge, Next1, Goto, TypeInv
  <2> QED BY <2>2, <2>3, <2>4
<1>13. PICK v : v = (IF IsUpdate(e) THEN e.expected ELSE value[s]) /\ value' = [value EXCEPT ![s] = v]
  BY <1>2, <1>3, <1>4 DEF Merge, TypeInv
<1>14. updates' = updates /\ watch' = watch /\ frames' = frames /\ op' = op /\ level' = level
       /\ why' = why /\ inbox' = inbox /\ snap' = snap
  BY <1>1 DEF sleep, history
<1>15. v \in Values \cup Threads
  <2>1. value[s] \in Values \cup Threads
    BY <1>3, <1>4 DEF TypeInv
  <2> QED BY <1>4, <1>13, <2>1
<1>16. TypeInv'
  <2>1. value' \in [TVars -> Values \cup Threads] /\ trecs' \in [Threads -> Chain] /\ idx' \in [Threads -> Nat \ {0}]
    <3>1. value' \in [TVars -> Values \cup Threads]
      BY <1>3, <1>13, <1>15 DEF TypeInv
    <3>2. trecs' \in [Threads -> Chain]
      BY <1>3, <1>12 DEF TypeInv
    <3>3. idx' \in [Threads -> Nat \ {0}]
      BY <1>3, <1>4, <1>12 DEF TypeInv
    <3> QED BY <3>1, <3>2, <3>3
  <2> QED BY <1>3, <1>12, <1>14, <2>1 DEF TypeInv
<1>17. Elsewhere(t)
  BY <1>3, <1>12, <1>14 DEF TypeInv, Elsewhere
<1>18. pc'[t] = "merge" /\ idx'[t] = i + 1 /\ trecs'[t] = new
  BY <1>1, <1>3, <1>12 DEF TypeInv
<1>19. Es(t)' = Es(t) /\ Current(t)' = Current(t)
  <2>1. Current(t)' = new[level[t]]
    BY <1>14, <1>18 DEF Current
  <2>2. Current(t)' = Current(t)
    BY <1>7, <1>8, <1>11, <2>1
  <2> QED BY <2>2 DEF Es
<1>20. \A j : MayHold(t, j) <=> j \in DOMAIN Es(t) /\ j >= i /\ IsUpdate(Es(t)[j])
  BY <1>1, <1>2 DEF MayHold, Working
<1>21. \A j : MayHold(t, j)' <=> j \in DOMAIN Es(t) /\ j >= i + 1 /\ IsUpdate(Es(t)[j])
  BY <1>18, <1>19 DEF MayHold, Working, IsUpdate
<1>22. DOMAIN Es(t) = 1..Len(Es(t)) /\ Len(Es(t)) \in Nat /\ Distinct(Current(t))
  BY <1>1, CurrentIs DEF Working
<1>23. \A j \in DOMAIN Es(t) : (j >= i + 1 => j >= i /\ j # i) /\ (j >= i /\ j # i => j >= i + 1) /\ (j = i => j >= i)
  BY <1>4, <1>22
<1>24. ThreadInv(t)'
  <2>1. Len(trecs'[t]) = Len(trecs[t]) /\ pc'[t] = pc[t]
    BY <1>1, <1>6, <1>11, <1>18
  <2> QED BY <1>1, <1>3, <1>12, <1>14, <2>1 DEF ThreadInv, Resting, Working
<1>25. CheckInv(t)'
  BY <1>1, <1>3, <1>14, <1>18 DEF CheckInv
<1>26. CASE IsUpdate(e)
  <2>1. v = e.expected
    BY <1>13, <1>26
  <2>2. value[s] = t
    <3>1. MayHold(t, i)
      BY <1>4, <1>20, <1>23, <1>26
    <3> QED BY <1>1, <1>3, <1>4, <3>1 DEF OwnInv, Working
  <2>3. v = Under(s)
    BY <1>1, <1>4, <1>22, <2>1, <2>2, UnderHeld
  <2>4. \A j \in DOMAIN Es(t) : MayHold(t, j)' => value[Es(t)[j].tvar] = t /\ Es(t)[j].tvar # s
    <3>1. ASSUME NEW j \in DOMAIN Es(t), MayHold(t, j)' PROVE value[Es(t)[j].tvar] = t /\ Es(t)[j].tvar # s
      <4>1. MayHold(t, j) /\ j # i
        BY <1>20, <1>21, <1>23, <3>1
      <4>2. value[Es(t)[j].tvar] = t
        BY <1>1, <1>3, <4>1 DEF OwnInv, Working
      <4>3. Es(t)[j].tvar # s
        BY <1>4, <1>22, <4>1 DEF Distinct, Es
      <4> QED BY <4>2, <4>3
    <3> QED BY <3>1
  <2>5. \A j \in DOMAIN Es(t) : MayHold(t, j) /\ Es(t)[j].tvar # s => MayHold(t, j)'
    BY <1>4, <1>20, <1>21, <1>23
  <2>6. (pc[t] = "remove") = (pc'[t] = "remove") /\ pc'[t] \in {"write", "merge", "revert", "remove"}
    BY <1>1, <1>18
  <2>7. s \in TVars /\ v \in Values /\ value' = [value EXCEPT ![s] = v] /\ updates' = updates /\ Es(t)' = Es(t)
    BY <1>4, <1>13, <1>14, <1>19, <2>1
  <2> QED BY <1>16, <1>17, <1>24, <1>25, <2>2, <2>3, <2>4, <2>5, <2>6, <2>7, UnlockI
<1>27. CASE ~ IsUpdate(e)
  <2>1. value' = value
    BY <1>3, <1>4, <1>13, <1>27 DEF TypeInv
  <2>2. \A j \in DOMAIN Es(t) : MayHold(t, j)' <=> MayHold(t, j)
    BY <1>4, <1>20, <1>21, <1>23, <1>27
  <2>3. pc[t] \in Working \ {"remove"} /\ pc'[t] \in Working \ {"lock", "sample", "reread", "store", "remove"} /\ pc[t] # "revert"
    BY <1>1, <1>18 DEF Working
  <2> QED BY <1>14, <1>16, <1>17, <1>19, <1>24, <1>25, <2>1, <2>2, <2>3, PhaseI
<1> QED BY <1>26, <1>27

LEMMA LockWatchI ==
  ASSUME IInv, NEW t \in Threads, LockWatch(t)
  PROVE  Kept(t)
<1>1. pc[t] = "remove" /\ More(t) /\ UNCHANGED <<updates, watch, frames, pc, scan, steps, sleep, history>>
  BY DEF LockWatch
<1>2. /\ updates' = updates /\ watch' = watch /\ frames' = frames /\ op' = op /\ level' = level /\ idx' = idx /\ ok' = ok
      /\ why' = why /\ inbox' = inbox /\ snap' = snap /\ pc' = pc
  BY <1>1 DEF sleep, history, scan
<1>3. TypeInv /\ ThreadInv(t) /\ LockInv(t)
  BY DEF IInv
<1>4. PICK chain, r, es, i, e, s, v :
        /\ chain = trecs[t] /\ r = chain[1] /\ es = r.entries /\ i = idx[t] /\ e = es[i] /\ s = e.tvar /\ v = value[s]
  OBVIOUS
<1>5. level[t] = 1
  BY <1>1, <1>3 DEF ThreadInv, TypeInv, Operation, Resting, Working
<1>6. /\ chain \in Chain /\ 1 \in 1..Len(chain) /\ r = Current(t) /\ r \in TRec /\ Distinct(r) /\ es = Es(t) /\ es \in Seq(EntryRec)
      /\ Len(es) \in Nat /\ DOMAIN es = 1..Len(es) /\ i \in DOMAIN es /\ e = Here(t) /\ e \in EntryRec /\ s \in TVars
  <2>1. chain \in Chain /\ 1 \in 1..Len(chain) /\ r = Current(t) /\ es = Es(t)
    BY <1>1, <1>3, <1>4, <1>5, CurrentIs DEF TypeInv, Current, Es, Working
  <2>2. i \in DOMAIN es /\ e = Here(t) /\ e \in EntryRec /\ s \in TVars
    BY <1>1, <1>4, <2>1, HereIs DEF Working
  <2>3. r \in TRec /\ Distinct(r) /\ es \in Seq(EntryRec) /\ Len(es) \in Nat /\ DOMAIN es = 1..Len(es)
    BY <1>1, <2>1, CurrentIs DEF Working
  <2> QED BY <2>1, <2>2, <2>3
<1>7. v \in Values /\ value' = [value EXCEPT ![s] = t]
  BY <1>4, <1>6 DEF LockWatch
<1>8. PICK e2, es2, r2, chain2 :
        /\ e2 = [e EXCEPT !.new = v] /\ es2 = [es EXCEPT ![i] = e2] /\ r2 = [r EXCEPT !.entries = es2] /\ chain2 = [chain EXCEPT ![1] = r2]
  OBVIOUS
<1>9. trecs' = [trecs EXCEPT ![t] = chain2]
  <2>1. trecs' = [trecs EXCEPT ![t][1].entries[i].new = v]
    BY <1>4, <1>6 DEF LockWatch
  <2>2. trecs' = [trecs EXCEPT ![t] = [chain EXCEPT ![1] = [r EXCEPT !.entries = [es EXCEPT ![i] = [e EXCEPT !.new = v]]]]]
    BY <1>4, <2>1
  <2> QED BY <1>8, <2>2
<1>10. e2 \in EntryRec /\ e2.tvar = s /\ e2.new = v
  BY <1>4, <1>6, <1>7, <1>8 DEF EntryRec
<1>11. /\ es2 \in Seq(EntryRec) /\ Len(es2) = Len(es) /\ DOMAIN es2 = DOMAIN es /\ es2[i] = e2 /\ \A j \in DOMAIN es : j # i => es2[j] = es[j]
  BY <1>6, <1>8, <1>10
<1>12. \A j \in DOMAIN es : es2[j].tvar = es[j].tvar
  <2> SUFFICES ASSUME NEW j \in DOMAIN es PROVE es2[j].tvar = es[j].tvar
    OBVIOUS
  <2>1. CASE j = i
    BY <1>4, <1>10, <1>11, <2>1
  <2>2. CASE j # i
    <3>1. es2[j] = es[j]
      BY <1>11, <2>2
    <3> QED BY <3>1
  <2> QED BY <2>1, <2>2
<1>13. r2 = [entries |-> es2, state |-> r.state] /\ r.state \in State
  <2>1. PICK st : st = r.state
    OBVIOUS
  <2>2. r = [entries |-> es, state |-> st] /\ st \in State
    BY <1>4, <1>6, <2>1 DEF TRec, State
  <2> QED BY <1>8, <2>1, <2>2
<1>14. r2 \in TRec /\ Distinct(r2) /\ r2.entries = es2
  BY <1>4, <1>6, <1>11, <1>12, <1>13, SameTVars
<1>15. chain2 \in Chain /\ Len(chain2) = Len(chain) /\ chain2[1] = r2
  <2>1. [chain EXCEPT ![1] = r2] \in Chain /\ Len([chain EXCEPT ![1] = r2]) = Len(chain)
    BY <1>6, <1>14, SetChain
  <2>2. DOMAIN chain = 1..Len(chain)
    BY <1>6, ChainIs
  <2> QED BY <1>6, <1>8, <2>1, <2>2
<1>16. TypeInv'
  <2>1. value' \in [TVars -> Values \cup Threads] /\ trecs' \in [Threads -> Chain]
    BY <1>3, <1>7, <1>9, <1>15 DEF TypeInv
  <2> QED BY <1>2, <1>3, <2>1 DEF TypeInv
<1>17. Elsewhere(t)
  BY <1>2, <1>3, <1>9 DEF TypeInv, Elsewhere
<1>18. trecs'[t] = chain2 /\ Es(t)' = es2 /\ Current(t)' = r2
  <2>1. trecs'[t] = chain2
    BY <1>3, <1>9 DEF TypeInv
  <2> QED BY <1>2, <1>5, <1>14, <1>15, <2>1 DEF Es, Current
<1>19. value'[s] = t /\ \A q \in TVars : q # s => value'[q] = value[q]
  BY <1>3, <1>6, <1>7 DEF TypeInv
<1>20. ASSUME NEW q \in TVars, value[q] = t PROVE FALSE
  <2>1. PICK j \in DOMAIN Es(t) : MayHold(t, j) /\ Es(t)[j].tvar = q
    BY <1>3, <1>20 DEF LockInv
  <2>2. q = s
    BY <1>1, <1>4, <1>6, <2>1 DEF MayHold
  <2> QED BY <1>4, <1>7, <1>20, <2>2, Apart
<1>21. ValueStep(t)
  BY <1>4, <1>7, <1>19 DEF ValueStep
<1>22. UnderStep(t)
  <2> SUFFICES ASSUME NEW q \in TVars, value'[q] = t PROVE Under(q)' = Under(q)
    BY <1>20 DEF UnderStep
  <2>1. q = s
    BY <1>19, <1>20
  <2>2. Under(s) = v
    BY <1>4, <1>7 DEF Under
  <2>3. Distinct(Current(t))' /\ i \in DOMAIN Es(t)' /\ s = Es(t)'[i].tvar
    BY <1>6, <1>10, <1>11, <1>14, <1>18 DEF Distinct
  <2>4. Under(s)' = Es(t)'[i].new
    BY <1>1, <1>2, <1>19, <2>3, UnderHeldNext
  <2> QED BY <1>10, <1>11, <1>18, <2>1, <2>2, <2>4
<1>23. VersionStep(t)
  BY <1>1, <1>2, <1>3 DEF TypeInv, VersionStep
<1>24. ThreadInv(t)'
  <2>1. Len(trecs'[t]) = Len(trecs[t])
    BY <1>4, <1>15, <1>18
  <2> QED BY <1>1, <1>2, <1>3, <2>1 DEF ThreadInv, Resting, Working
<1>25. LockInv(t)'
  <2> SUFFICES ASSUME NEW q \in TVars, value'[q] = t PROVE \E j \in DOMAIN Es(t)' : MayHold(t, j)' /\ Es(t)'[j].tvar = q
    BY DEF LockInv
  <2>1. q = s
    BY <1>19, <1>20
  <2>2. i \in DOMAIN Es(t)' /\ Es(t)'[i].tvar = s
    BY <1>6, <1>10, <1>11, <1>18
  <2>3. MayHold(t, i)'
    BY <1>1, <1>2, <1>4, <2>2 DEF MayHold, Working
  <2> QED BY <2>1, <2>2, <2>3
<1>26. OwnInv(t)' /\ SampleInv(t)' /\ CheckInv(t)'
  BY <1>1, <1>2 DEF OwnInv, SampleInv, CheckInv
<1> QED BY <1>16, <1>17, <1>21, <1>22, <1>23, <1>24, <1>25, <1>26, StepI DEF Effect, SelfInv

----------------------------------------------------------------------------
(* The invariant, and what follows *)

LEMMA InitI == Init => IInv
<1> SUFFICES ASSUME Init PROVE IInv
  OBVIOUS
<1>1. <<>> \in Chain /\ <<>> \in Seq(Frame)
  BY DEF Chain
<1>2. TypeInv
  BY <1>1, STMAssumption DEF Init, TypeInv, Resting
<1>3. ASSUME NEW t \in Threads PROVE SelfInv(t)
  <2>1. pc[t] = "out" /\ op[t] = "none" /\ level[t] = 1 /\ ok[t] = TRUE /\ trecs[t] = <<>> /\ frames[t] = <<>>
    BY <1>3 DEF Init
  <2>2. \A s \in TVars : value[s] # t
    BY <1>3, STMAssumption, Apart DEF Init
  <2>3. ThreadInv(t)
    BY <2>1 DEF ThreadInv, Resting
  <2> QED BY <2>1, <2>2, <2>3 DEF SelfInv, LockInv, OwnInv, SampleInv, CheckInv, Working
<1> QED BY <1>2, <1>3 DEF IInv, SelfInv

LEMMA ThreadI ==
  ASSUME IInv, NEW t \in Threads, ThreadNext(t)
  PROVE  Kept(t)
<1>1. CASE \/ Atomically(t) \/ Retry(t) \/ RetryFrame(t) \/ Raise(t) \/ RaiseFrame(t)
           \/ \E s \in TVars : ReadTVar(t, s) \/ \E v \in Values : WriteTVar(t, s, v)
           \/ \E f \in {"orElse", "catchSTM"} : Nest(t, f)
  BY <1>1, TransactionI, OutwardsI, RetryFrameI, RaiseFrameI, ReadWriteI, NestI
<1>2. CASE Return(t) \/ AtAtomically(t) \/ Preempt(t) \/ ReWait(t)
  BY <1>2, ReturnI, AtAtomicallyI, PreemptI, ReWaitI
<1>3. CASE Lock(t) \/ Look(t) \/ Sample(t) \/ Reread(t) \/ Owned(t) \/ WaitUnlock(t)
  BY <1>3, LockI, LookI, SampleI, RereadI, OwnedI, WaitUnlockI
<1>4. CASE Check(t) \/ Checked(t) \/ Bump(t) \/ Store(t) \/ Written(t) \/ Merge(t) \/ Merged(t)
  BY <1>4, CheckI, CheckedI, BumpI, StoreI, TransactionI, MergeI, MergedI
<1>5. CASE Revert(t) \/ Invalid(t) \/ InvalidNested(t) \/ Asleep(t) \/ StopWaiting(t)
  BY <1>5, RevertI, TransactionI, InvalidNestedI, AsleepI, LeavingI
<1>6. CASE NextLevel(t) \/ Validated(t) \/ Raised(t)
  BY <1>6, NextLevelI, ValidatedI, TransactionI
<1>7. CASE Deliver(t) \/ LockWatch(t) \/ Unwatch(t) \/ Removed(t) \/ Freeze(t)
  BY <1>7, DeliverI, LockWatchI, UnwatchI, TransactionI, LeavingI
<1> QED BY <1>1, <1>2, <1>3, <1>4, <1>5, <1>6, <1>7 DEF ThreadNext

LEMMA NextI == IInv /\ [Next]_stmVars => IInv'
<1> SUFFICES ASSUME IInv, [Next]_stmVars PROVE IInv'
  OBVIOUS
<1>1. CASE UNCHANGED stmVars
  <2>1. /\ value' = value /\ updates' = updates /\ watch' = watch /\ trecs' = trecs /\ frames' = frames /\ pc' = pc /\ op' = op
        /\ level' = level /\ idx' = idx /\ ok' = ok /\ why' = why /\ inbox' = inbox /\ snap' = snap
    BY <1>1 DEF stmVars, tvars, scan, sleep, history
  <2>2. TypeInv'
    BY <2>1 DEF IInv, TypeInv
  <2>3. ASSUME NEW t \in Threads PROVE SelfInv(t)'
    <3>1. Elsewhere(t)
      BY <2>1 DEF Elsewhere
    <3>2. Es(t)' = Es(t) /\ Here(t)' = Here(t) /\ Committing(t)' = Committing(t) /\ \A j : Wants(t, j)' = Wants(t, j) /\ MayHold(t, j)' = MayHold(t, j)
      BY <2>1 DEF Es, Here, Current, Committing, Wants, MayHold, AcquireAll, IsUpdate
    <3>3. ThreadInv(t)'
      BY <2>1, <3>2 DEF IInv, ThreadInv, IsUpdate
    <3>4. LockInv(t)' /\ OwnInv(t)'
      BY <2>1, <3>2 DEF IInv, LockInv, OwnInv
    <3>5. \A e : Sampled(e)' = Sampled(e)
      BY <2>1 DEF Sampled, Storing, Under, Here, Current, Entry
    <3>6. SampleInv(t)' /\ CheckInv(t)'
      BY <2>1, <3>2, <3>5 DEF IInv, SampleInv, CheckInv, IsUpdate
    <3> QED BY <3>3, <3>4, <3>6 DEF SelfInv
  <2> QED BY <2>2, <2>3 DEF IInv, SelfInv
<1>2. ASSUME NEW t \in Threads, ThreadNext(t) PROVE IInv'
  BY <1>2, ThreadI DEF Kept
<1> QED BY <1>1, <1>2 DEF Next

THEOREM CommitProtocol == Spec => []IInv
BY InitI, NextI, PTL DEF Spec

(* NoLockLeft, for any bodies and any nests: whichever way an operation of *)
(* STM.c ends, the thread has given back every TVar it had locked.         *)
THEOREM LocksReleased == Spec => []NoLockLeft
<1>1. IInv => NoLockLeft
  <2> SUFFICES ASSUME IInv, NEW t \in Threads, NEW s \in TVars, value[s] = t PROVE pc[t] \notin {"run", "out", "parked", "retry", "raise"}
    BY DEF NoLockLeft
  <2> QED BY DEF IInv, LockInv, MayHold, Working
<1> QED BY <1>1, CommitProtocol, PTL

(* Snapshot: check_read_only lets only those commits pass for which, when  *)
(* the last TVar was owned or sampled, all of them held what was expected. *)
THEOREM ReadsWereASnapshot == Spec => []Snapshot
<1>1. IInv => Snapshot
  BY DEF IInv, CheckInv, Snapshot
<1> QED BY <1>1, CommitProtocol, PTL

----------------------------------------------------------------------------
(* Frames and watch queues, if no exception leaves an orElse to be caught  *)
(* within the transaction.                                                 *)

(* What a step does about the others' sleep, and about the thread's own.   *)
QueueEffect(t) ==
  \A u \in Threads \ {t} :
    /\ \A s \in TVars : u \in watch'[s] <=> u \in watch[s]
    /\ why'[u] = why[u] /\ (u \in inbox => u \in inbox')
SelfWake(t) ==
  Unwoken(t)' => \/ Unwoken(t) /\ trecs'[t] = trecs[t]
                 \/ Holds(trecs[t][1])' /\ \A s \in TVars : Has(trecs'[t][1], s) => value[s] = t
JSelf(t) ==
  /\ QueueEffect(t) /\ FrameInv(t)' /\ WatchInv(t)' /\ SelfWake(t)
  /\ pc'[t] = "store" => \A u \in Threads : Unwoken(u)' => ~ Has(trecs[u][1], Here(t).tvar)'

(* Whoever watches a TVar has records.                                     *)
LEMMA WatcherIs ==
  ASSUME IInv, NEW t \in Threads, OnQueues(t)
  PROVE  /\ trecs[t] \in Chain /\ 1 \in 1..Len(trecs[t]) /\ DOMAIN trecs[t][1].entries = 1..Len(trecs[t][1].entries)
         /\ \A i \in DOMAIN trecs[t][1].entries : trecs[t][1].entries[i].tvar \in TVars
<1>1. pc[t] # "out"
  BY DEF OnQueues
<1>2. trecs[t] \in Chain /\ 1 \in 1..Len(trecs[t])
  BY <1>1, NestIs
<1>3. PICK es : es = trecs[t][1].entries
  OBVIOUS
<1>4. DOMAIN es = 1..Len(es) /\ \A i \in 1..Len(es) : es[i] \in EntryRec
  BY <1>2, <1>3, ChainIs
<1> QED BY <1>2, <1>3, <1>4 DEF EntryRec

LEMMA StepJ ==
  ASSUME JInv, NEW t \in Threads, Kept(t), JSelf(t)
  PROVE  JInv'
<1>1. IInv /\ IInv' /\ Effect(t) /\ TypeInv
  BY DEF JInv, IInv, Kept
<1>2. ASSUME NEW u \in Threads, u # t PROVE
        /\ trecs'[u] = trecs[u] /\ frames'[u] = frames[u] /\ pc'[u] = pc[u] /\ op'[u] = op[u]
        /\ level'[u] = level[u] /\ idx'[u] = idx[u] /\ ok'[u] = ok[u]
        /\ Es(u)' = Es(u) /\ OnQueues(u)' = OnQueues(u)
        /\ (Unwoken(u)' => Unwoken(u))
  <2>1. /\ trecs'[u] = trecs[u] /\ frames'[u] = frames[u] /\ pc'[u] = pc[u] /\ op'[u] = op[u]
        /\ level'[u] = level[u] /\ idx'[u] = idx[u] /\ ok'[u] = ok[u]
    BY <1>1, <1>2 DEF Effect, Elsewhere
  <2>2. OnQueues(u)' = OnQueues(u) /\ Es(u)' = Es(u)
    BY <2>1 DEF OnQueues, Es, Current
  <2>3. Unwoken(u)' => Unwoken(u)
    BY <1>2, <2>2 DEF JSelf, QueueEffect, Unwoken
  <2> QED BY <2>1, <2>2, <2>3
<1>3. ASSUME NEW u \in Threads PROVE FrameInv(u)'
  <2>1. CASE u = t
    BY <2>1 DEF JSelf
  <2>2. CASE u # t
    BY <1>2, <2>2 DEF JInv, FrameInv
  <2> QED BY <2>1, <2>2
<1>4. ASSUME NEW u \in Threads PROVE WatchInv(u)'
  <2>1. CASE u = t
    BY <2>1 DEF JSelf
  <2>2. CASE u # t
    <3>1. \A s \in TVars : u \in watch'[s] <=> u \in watch[s]
      BY <2>2 DEF JSelf, QueueEffect
    <3> QED BY <1>2, <2>2, <3>1 DEF JInv, WatchInv
  <2> QED BY <2>1, <2>2
<1>5. ASSUME NEW u \in Threads, Unwoken(u), trecs'[u] = trecs[u], OnQueues(u)' PROVE Holds(trecs[u][1])'
  <2>1. PICK es : es = trecs[u][1].entries
    OBVIOUS
  <2>2. \A i \in DOMAIN es : Under(es[i].tvar) = es[i].expected /\ es[i].tvar \in TVars
    BY <1>1, <1>5, <2>1, WatcherIs DEF JInv, SleepInv, Unwoken, Holds
  <2>3. ASSUME NEW i \in DOMAIN es PROVE Under(es[i].tvar)' = es[i].expected
    <3>1. PICK s \in TVars : s = es[i].tvar
      BY <2>2
    <3>2. Has(trecs[u][1], s)
      BY <2>1, <3>1 DEF Has
    <3>3. ~ (pc[t] = "store" /\ s = Here(t).tvar)
      BY <1>5, <3>2 DEF JInv, StoreInv
    <3>4. Under(s)' = Under(s)
      BY <1>1, <3>3, UnderKept DEF Effect
    <3> QED BY <2>2, <3>1, <3>4
  <2>4. trecs'[u][1].entries = es
    BY <1>5, <2>1
  <2> QED BY <2>3, <2>4 DEF Holds
<1>6. ASSUME NEW u \in Threads PROVE SleepInv(u)'
  <2> SUFFICES ASSUME Unwoken(u)' PROVE Holds(trecs[u][1])'
    BY DEF SleepInv
  <2>1. OnQueues(u)'
    BY DEF Unwoken
  <2>2. CASE u = t
    BY <1>5, <2>1, <2>2 DEF JSelf, SelfWake
  <2>3. CASE u # t
    BY <1>2, <1>5, <2>1, <2>3
  <2> QED BY <2>2, <2>3
<1>7. ASSUME NEW u \in Threads PROVE StoreInv(u)'
  <2> SUFFICES ASSUME pc'[u] = "store", NEW w \in Threads, Unwoken(w)', Has(trecs[w][1], Here(u).tvar)' PROVE FALSE
    BY DEF StoreInv
  <2>1. CASE u = t
    BY <2>1 DEF JSelf
  <2>2. CASE u # t
    <3>1. pc[u] = "store" /\ Here(u)' = Here(u)
      BY <1>2, <2>2 DEF Here, Current
    <3>2. PICK s : s = Here(u).tvar
      OBVIOUS
    <3>3. idx[u] \in DOMAIN Es(u) /\ idx[u] \in Nat /\ s = Es(u)[idx[u]].tvar /\ s \in TVars /\ IsUpdate(Es(u)[idx[u]])
      BY <1>1, <3>1, <3>2, HereIs DEF Working, IInv, ThreadInv
    <3>4. value[s] = u
      <4>1. MayHold(u, idx[u])
        BY <3>1, <3>3 DEF MayHold, Working
      <4> QED BY <1>1, <3>1, <3>3, <4>1 DEF IInv, OwnInv, Working
    <3>5. Has(trecs'[w][1], s)
      BY <3>1, <3>2 DEF Has
    <3>6. \A v \in Threads : Unwoken(v) => ~ Has(trecs[v][1], s)
      BY <3>1, <3>2 DEF JInv, StoreInv
    <3>7. CASE w # t
      BY <1>2, <3>5, <3>6, <3>7
    <3>8. CASE w = t
      BY <2>2, <3>3, <3>4, <3>5, <3>6, <3>8 DEF JSelf, SelfWake
    <3> QED BY <3>7, <3>8
  <2> QED BY <2>1, <2>2
<1> QED BY <1>1, <1>3, <1>4, <1>6, <1>7 DEF JInv

(* Not on the queues, and on them.                                         *)
Off(t) == \A s \in TVars : t \notin watch[s]

LEMMA OffIs ==
  ASSUME JInv, NEW t \in Threads, ~ OnQueues(t), pc[t] # "remove"
  PROVE  Off(t)
BY DEF JInv, WatchInv, Off

LEMMA OffJ ==
  ASSUME JInv, NEW t \in Threads, Off(t), watch' = watch, why' = why, inbox' = inbox,
         ~ OnQueues(t)', pc'[t] # "store", FrameInv(t)'
  PROVE  JSelf(t)
<1>1. QueueEffect(t)
  BY DEF QueueEffect
<1>2. WatchInv(t)'
  BY DEF WatchInv, Off
<1>3. SelfWake(t)
  BY DEF SelfWake, Unwoken
<1> QED BY <1>1, <1>2, <1>3 DEF JSelf

LEMMA OnJ ==
  ASSUME JInv, NEW t \in Threads, OnQueues(t), watch' = watch, why' = why, inbox' = inbox,
         OnQueues(t)', trecs' = trecs, FrameInv(t)'
  PROVE  JSelf(t)
<1>1. QueueEffect(t)
  BY DEF QueueEffect
<1>2. WatchInv(t)'
  BY DEF JInv, WatchInv, Has
<1>3. SelfWake(t)
  BY DEF SelfWake, Unwoken
<1>4. pc'[t] # "store"
  BY DEF OnQueues
<1> QED BY <1>1, <1>2, <1>3, <1>4 DEF JSelf

(* The frames and the number of records stay.                              *)
LEMMA FramesStay ==
  ASSUME NEW t \in Threads, FrameInv(t), Len(trecs'[t]) = Len(trecs[t]), frames'[t] = frames[t],
         pc'[t] = "raise" => pc[t] = "raise", (pc[t] # "raise" /\ op[t] # "raise") \/ pc'[t] = "raise" \/ op'[t] = "raise",
         op'[t] = "wait" => op[t] = "wait" \/ Len(trecs[t]) = 1
  PROVE  FrameInv(t)'
BY DEF FrameInv

LEMMA TransactionJ ==
  ASSUME JInv, NEW t \in Threads,
         \/ Atomically(t) \/ Written(t) \/ Invalid(t) \/ Raised(t) \/ Removed(t)
         \/ (Freeze(t) /\ pc[t] # "parked")
  PROVE  JSelf(t)
<1>1. TypeInv /\ WatchInv(t) /\ IInv
  BY DEF JInv, IInv
<1>2. Off(t)
  <2>1. CASE Removed(t)
    <3>1. pc[t] = "remove" /\ idx[t] \in Nat /\ ~ (idx[t] <= Len(Es(t))) /\ DOMAIN Es(t) = 1..Len(Es(t)) /\ Len(Es(t)) \in Nat
      BY <1>1, <2>1, CurrentIs DEF Removed, More, Es, Working
    <3>2. ~ \E i \in DOMAIN Es(t) : i >= idx[t]
      BY <3>1
    <3>3. ~ OnQueues(t)
      BY <3>1 DEF OnQueues
    <3> QED BY <1>1, <3>2, <3>3 DEF WatchInv, Off
  <2>2. CASE ~ Removed(t)
    <3>1. ~ OnQueues(t) /\ pc[t] # "remove"
      BY <2>2 DEF Atomically, Written, Invalid, Raised, Freeze, Reverted, OnQueues
    <3> QED BY <3>1, OffIs
  <2> QED BY <2>1, <2>2
<1>3. Restart(t) \/ Stop(t)
  BY DEF Atomically, Written, Invalid, Raised, Removed, Freeze
<1>4. watch' = watch /\ why' = why /\ inbox' = inbox
  BY DEF Atomically, Written, Invalid, Raised, Removed, Freeze, sleep, tvars
<1>5. PICK chain, stack, l :
        /\ trecs' = [trecs EXCEPT ![t] = chain] /\ frames' = [frames EXCEPT ![t] = stack]
        /\ op' = [op EXCEPT ![t] = "none"] /\ pc' = [pc EXCEPT ![t] = l]
        /\ \/ chain = <<NewTRec("active")>> /\ stack = <<"atomically">> /\ l = "run"
           \/ chain = <<>> /\ stack = <<>> /\ l = "out"
  BY <1>3 DEF Restart, Stop, Reset, Idle, Goto
<1>6. Len(chain) = Len(stack) /\ l \in {"run", "out"}
  <2>1. CASE chain = <<NewTRec("active")>> /\ stack = <<"atomically">> /\ l = "run"
    <3>1. Len(<<NewTRec("active")>>) = 1 /\ Len(<<"atomically">>) = 1
      OBVIOUS
    <3> QED BY <2>1, <3>1
  <2>2. CASE chain = <<>> /\ stack = <<>> /\ l = "out"
    BY <2>2
  <2> QED BY <1>5, <2>1, <2>2
<1>7. trecs'[t] = chain /\ frames'[t] = stack /\ op'[t] = "none" /\ pc'[t] = l
  BY <1>1, <1>5 DEF TypeInv
<1>8. FrameInv(t)' /\ ~ OnQueues(t)' /\ pc'[t] # "store"
  BY <1>6, <1>7 DEF FrameInv, OnQueues
<1> QED BY <1>2, <1>4, <1>8, OffJ

(* The body: nothing is watched, and the frames come and go with records.  *)
LEMMA BodyJ ==
  ASSUME JInv, NEW t \in Threads, pc[t] \in {"run", "retry", "raise"}, watch' = watch, why' = why, inbox' = inbox,
         op' = op, pc'[t] \in {"run", "retry", "raise"}, FrameInv(t)'
  PROVE  JSelf(t)
<1>1. ~ OnQueues(t) /\ ~ OnQueues(t)' /\ pc[t] # "remove" /\ pc'[t] # "store"
  BY DEF OnQueues
<1> QED BY <1>1, OffIs, OffJ

LEMMA ReadWriteJ ==
  ASSUME JInv, NEW t \in Threads, NEW s \in TVars, ReadTVar(t, s) \/ \E v \in Values : WriteTVar(t, s, v)
  PROVE  JSelf(t)
<1>1. Step(t) /\ Readable(t, s) /\ UNCHANGED frames
  BY DEF ReadTVar, WriteTVar
<1>2. pc[t] = "run" /\ UNCHANGED <<tvars, pc, scan, sleep, log, snap>>
  BY <1>1 DEF Step
<1>3. TypeInv /\ FrameInv(t) /\ IInv /\ ThreadInv(t)
  BY DEF JInv, IInv
<1>4. FoundEntry(t, s) \in EntryRec /\ FoundEntry(t, s).tvar = s
  BY <1>1, <1>3, FoundEntryIs
<1>5. \E e \in EntryRec : e.tvar = s /\ Put(t, s, e)
  <2>1. CASE ReadTVar(t, s)
    BY <1>4, <2>1 DEF ReadTVar
  <2>2. ASSUME NEW v \in Values, WriteTVar(t, s, v) PROVE \E e \in EntryRec : e.tvar = s /\ Put(t, s, e)
    <3>1. PICK f : f = FoundEntry(t, s)
      OBVIOUS
    <3>2. [f EXCEPT !.new = v] \in EntryRec /\ [f EXCEPT !.new = v].tvar = s
      BY <1>4, <3>1 DEF EntryRec
    <3>3. Put(t, s, [f EXCEPT !.new = v])
      BY <2>2, <3>1 DEF WriteTVar
    <3> QED BY <3>2, <3>3
  <2> QED BY <2>1, <2>2
<1>6. Len(trecs[t]) >= 1
  BY <1>2, <1>3, NestIs
<1>7. PICK chain \in Chain : trecs' = [trecs EXCEPT ![t] = chain] /\ Len(chain) = Len(trecs[t])
  BY <1>3, <1>5, <1>6, PutIs
<1>8. Len(trecs'[t]) = Len(trecs[t]) /\ frames'[t] = frames[t] /\ pc' = pc /\ op' = op /\ watch' = watch /\ why' = why /\ inbox' = inbox
  BY <1>1, <1>2, <1>3, <1>7 DEF TypeInv, tvars, scan, sleep
<1>9. op[t] = "none"
  BY <1>2, <1>3 DEF ThreadInv, Resting
<1>10. FrameInv(t)'
  BY <1>2, <1>3, <1>8, <1>9, FramesStay
<1> QED BY <1>2, <1>8, <1>10, BodyJ

LEMMA NestJ ==
  ASSUME JInv, NEW t \in Threads, NEW f \in {"orElse", "catchSTM"}, Nest(t, f)
  PROVE  JSelf(t)
<1>1. pc[t] = "run" /\ UNCHANGED <<tvars, pc, scan, steps, sleep, history>>
  BY DEF Nest
<1>2. TypeInv /\ FrameInv(t) /\ ThreadInv(t) /\ IInv
  BY DEF JInv, IInv
<1>3. PICK n, r : n = Len(trecs[t]) /\ r = NewTRec(Inner(t).state)
  OBVIOUS
<1>4. trecs[t] \in Chain /\ frames[t] \in Seq(Frame) /\ n \in Nat /\ Len(frames[t]) = n /\ op[t] = "none" /\ n >= 1
  BY <1>1, <1>2, <1>3, NestIs DEF FrameInv, ThreadInv, Resting
<1>5. trecs' = [trecs EXCEPT ![t] = Append(trecs[t], r)] /\ frames' = [frames EXCEPT ![t] = Append(frames[t], f)]
  BY <1>2, <1>3 DEF Nest
<1>6. r \in TRec /\ Distinct(r)
  <2>1. n \in 1..n
    BY <1>4
  <2>2. Inner(t) \in TRec
    BY <1>3, <1>4, <2>1, ChainIs DEF Inner, Last
  <2>3. Inner(t).state \in {"active", "condemned", "waiting"}
    BY <2>2 DEF TRec
  <2> QED BY <1>3, <2>3, NewTRecIs
<1>7. Len(Append(trecs[t], r)) = n + 1
  BY <1>3, <1>4, <1>6, AppendChain
<1>8. Len(Append(frames[t], f)) = n + 1
  BY <1>4, AppendFrame DEF Frame
<1>9. trecs'[t] = Append(trecs[t], r) /\ frames'[t] = Append(frames[t], f)
  BY <1>2, <1>5 DEF TypeInv
<1>10. pc' = pc /\ op' = op /\ watch' = watch /\ why' = why /\ inbox' = inbox
  BY <1>1 DEF tvars, scan, sleep
<1>11. FrameInv(t)'
  BY <1>1, <1>4, <1>7, <1>8, <1>9, <1>10 DEF FrameInv
<1> QED BY <1>1, <1>10, <1>11, BodyJ

(* An exception in an orElse within a catchSTM is what the hypothesis      *)
(* excludes.                                                               *)
LEMMA OutwardsJ ==
  ASSUME JInv, ~ ThroughOrElse, NEW t \in Threads, Retry(t) \/ Raise(t)
  PROVE  JSelf(t)
<1>1. pc[t] = "run" /\ UNCHANGED <<tvars, trecs, frames, scan, steps, sleep, history>>
  BY DEF Retry, Raise
<1>2. PICK l \in {"retry", "raise"} : pc' = [pc EXCEPT ![t] = l]
  BY DEF Retry, Raise, Goto
<1>3. TypeInv /\ FrameInv(t) /\ ThreadInv(t)
  BY DEF JInv, IInv
<1>4. pc'[t] = l /\ trecs' = trecs /\ frames' = frames /\ op' = op /\ watch' = watch /\ why' = why /\ inbox' = inbox
  BY <1>1, <1>2, <1>3 DEF TypeInv, tvars, scan, sleep
<1>5. op[t] = "none" /\ Len(frames[t]) = Len(trecs[t])
  BY <1>1, <1>3 DEF ThreadInv, FrameInv, Resting
<1>6. l = "raise" => "catchSTM" \notin Range(frames[t]) \/ Last(frames[t]) = "catchSTM"
  <2>1. CASE Retry(t)
    <3>1. pc'[t] = "retry"
      BY <1>3, <2>1 DEF Retry, Goto, TypeInv
    <3> QED BY <1>4, <3>1
  <2>2. CASE Raise(t)
    BY <2>2 DEF Raise
  <2> QED BY <2>1, <2>2
<1>7. FrameInv(t)'
  BY <1>4, <1>5, <1>6 DEF FrameInv
<1> QED BY <1>1, <1>4, <1>7, BodyJ

LEMMA RetryFrameJ ==
  ASSUME JInv, NEW t \in Threads, RetryFrame(t)
  PROVE  JSelf(t)
<1>1. pc[t] = "retry" /\ Len(frames[t]) > 1 /\ UNCHANGED <<tvars, scan, steps, sleep, history>>
  BY DEF RetryFrame
<1>2. TypeInv /\ FrameInv(t) /\ ThreadInv(t) /\ IInv
  BY DEF JInv, IInv
<1>3. PICK n : n = Len(trecs[t])
  OBVIOUS
<1>4. trecs[t] \in Chain /\ frames[t] \in Seq(Frame) /\ n \in Nat /\ Len(frames[t]) = n /\ op[t] = "none" /\ n > 1
  BY <1>1, <1>2, <1>3, NestIs DEF FrameInv, ThreadInv, Resting
<1>5. PICK outer \in Abort(trecs[t]) :
        \/ /\ trecs' = [trecs EXCEPT ![t] = Append(outer, NewTRec(Last(outer).state))]
           /\ frames' = [frames EXCEPT ![t] = Append(Front(frames[t]), "alternative")]
           /\ pc' = [pc EXCEPT ![t] = "run"]
        \/ /\ trecs' = [trecs EXCEPT ![t] = outer]
           /\ frames' = [frames EXCEPT ![t] = Front(frames[t])]
           /\ pc' = pc
  BY DEF RetryFrame, Goto
<1>6. outer \in Chain /\ Len(outer) = n - 1
  BY <1>3, <1>4, AbortIs
<1>7. Front(frames[t]) \in Seq(Frame) /\ Len(Front(frames[t])) = n - 1
  BY <1>4, FrontFrame
<1>8. op' = op /\ watch' = watch /\ why' = why /\ inbox' = inbox
  BY <1>1 DEF tvars, scan, sleep
<1>9. CASE /\ trecs' = [trecs EXCEPT ![t] = Append(outer, NewTRec(Last(outer).state))]
           /\ frames' = [frames EXCEPT ![t] = Append(Front(frames[t]), "alternative")]
           /\ pc' = [pc EXCEPT ![t] = "run"]
  <2>1. PICK r, front : r = NewTRec(Last(outer).state) /\ front = Front(frames[t])
    OBVIOUS
  <2>2. r \in TRec /\ Distinct(r)
    <3>1. n - 1 \in 1..(n - 1)
      BY <1>4
    <3>2. Last(outer) \in TRec
      BY <1>6, <3>1, ChainIs DEF Last
    <3>3. Last(outer).state \in {"active", "condemned", "waiting"}
      BY <3>2 DEF TRec
    <3> QED BY <2>1, <3>3, NewTRecIs
  <2>3. Len(Append(outer, r)) = (n - 1) + 1
    BY <1>6, <2>2, AppendChain
  <2>4. Len(Append(front, "alternative")) = (n - 1) + 1
    BY <1>7, <2>1, AppendFrame DEF Frame
  <2>5. trecs'[t] = Append(outer, r) /\ frames'[t] = Append(front, "alternative") /\ pc'[t] = "run"
    BY <1>2, <1>9, <2>1 DEF TypeInv
  <2>6. FrameInv(t)'
    BY <1>4, <1>8, <2>3, <2>4, <2>5 DEF FrameInv
  <2> QED BY <1>1, <1>8, <2>5, <2>6, BodyJ
<1>10. CASE trecs' = [trecs EXCEPT ![t] = outer] /\ frames' = [frames EXCEPT ![t] = Front(frames[t])] /\ pc' = pc
  <2>1. trecs'[t] = outer /\ frames'[t] = Front(frames[t]) /\ pc'[t] = "retry"
    BY <1>1, <1>2, <1>10 DEF TypeInv
  <2>2. FrameInv(t)'
    BY <1>4, <1>6, <1>7, <1>8, <2>1 DEF FrameInv
  <2> QED BY <1>1, <1>8, <2>1, <2>2, BodyJ
<1> QED BY <1>5, <1>9, <1>10

LEMMA RaiseFrameJ ==
  ASSUME JInv, NEW t \in Threads, RaiseFrame(t)
  PROVE  JSelf(t)
<1>1. pc[t] = "raise" /\ Len(frames[t]) > 1 /\ UNCHANGED <<tvars, scan, steps, sleep, history>>
  BY DEF RaiseFrame
<1>2. TypeInv /\ FrameInv(t) /\ ThreadInv(t) /\ IInv
  BY DEF JInv, IInv
<1>3. PICK n, stack : n = Len(trecs[t]) /\ stack = frames[t]
  OBVIOUS
<1>4. trecs[t] \in Chain /\ stack \in Seq(Frame) /\ Len(stack) \in Nat /\ n \in Nat /\ op[t] = "none" /\ Len(stack) > 1 /\ Len(stack) <= n
  BY <1>1, <1>2, <1>3, NestIs DEF ThreadInv, Resting
<1>5. Front(stack) \in Seq(Frame) /\ Len(Front(stack)) = Len(stack) - 1 /\ Last(stack) = stack[Len(stack)]
      /\ \A i \in 1..(Len(stack) - 1) : Front(stack)[i] = stack[i]
  BY <1>4, FrontIs
<1>6. op' = op /\ watch' = watch /\ why' = why /\ inbox' = inbox
  BY <1>1 DEF tvars, scan, sleep
<1>7. frames'[t] = Front(stack)
  BY <1>2, <1>3 DEF RaiseFrame, TypeInv
<1>8. CASE Last(stack) = "catchSTM"
  <2>1. PICK outer \in Abort(trecs[t]) : trecs' = [trecs EXCEPT ![t] = outer]
    BY <1>3, <1>8 DEF RaiseFrame
  <2>2. "catchSTM" \in Range(stack)
    <3>1. Len(stack) \in DOMAIN stack /\ stack[Len(stack)] = "catchSTM"
      BY <1>4, <1>5, <1>8
    <3> QED BY <3>1 DEF Range
  <2>3. Len(stack) = n
    BY <1>1, <1>2, <1>3, <2>2 DEF FrameInv
  <2>4. Len(outer) = n - 1
    BY <1>3, <1>4, <2>1, AbortIs
  <2>5. trecs'[t] = outer /\ pc'[t] = "run"
    BY <1>2, <1>3, <1>8, <2>1 DEF RaiseFrame, Goto, TypeInv
  <2>6. FrameInv(t)'
    BY <1>4, <1>5, <1>6, <1>7, <2>3, <2>4, <2>5 DEF FrameInv
  <2> QED BY <1>1, <1>6, <2>5, <2>6, BodyJ
<1>9. CASE Last(stack) # "catchSTM"
  <2>1. "catchSTM" \notin Range(stack)
    BY <1>1, <1>2, <1>3, <1>9 DEF FrameInv
  <2>2. "catchSTM" \notin Range(Front(stack))
    <3> SUFFICES ASSUME NEW i \in DOMAIN Front(stack), Front(stack)[i] = "catchSTM" PROVE FALSE
      BY DEF Range
    <3>1. PICK front : front = Front(stack)
      OBVIOUS
    <3>2. DOMAIN front = 1..Len(front) /\ Len(front) = Len(stack) - 1
      BY <1>5, <3>1
    <3>3. i \in 1..(Len(stack) - 1) /\ i \in DOMAIN stack
      BY <1>4, <3>1, <3>2
    <3>4. stack[i] = "catchSTM"
      BY <1>5, <3>3
    <3> QED BY <2>1, <3>3, <3>4 DEF Range
  <2>3. pc'[t] = "raise"
    BY <1>1, <1>3, <1>9 DEF RaiseFrame
  <2>4. FrameInv(t)'
    BY <1>4, <1>6, <1>7, <2>2, <2>3 DEF FrameInv
  <2> QED BY <1>1, <1>6, <2>3, <2>4, BodyJ
<1> QED BY <1>8, <1>9

(* Steps that leave the queues alone: a thread on them stays on them.      *)
LEMMA PlainJ ==
  ASSUME JInv, NEW t \in Threads, watch' = watch, why' = why, inbox' = inbox, pc[t] # "remove", pc'[t] # "store",
         OnQueues(t)' <=> OnQueues(t), OnQueues(t) => trecs' = trecs, FrameInv(t)'
  PROVE  JSelf(t)
<1>1. CASE OnQueues(t)
  BY <1>1, OnJ
<1>2. CASE ~ OnQueues(t)
  BY <1>2, OffIs, OffJ
<1> QED BY <1>1, <1>2

LEMMA ValidateJ ==
  ASSUME JInv, NEW t \in Threads, NEW o, NEW i, Validate(t, o, i),
         UNCHANGED <<tvars, trecs, frames, steps, sleep, history>>,
         o = "rewait" <=> pc[t] = "parked", pc[t] \in {"run", "retry", "raise", "parked", "revert"},
         pc[t] = "revert" => op[t] \in {"validate", "raise"} /\ o = op[t],
         pc[t] = "raise" \/ op[t] = "raise" => o = "raise", o = "wait" => Len(trecs[t]) = 1
  PROVE  JSelf(t)
<1>1. TypeInv /\ FrameInv(t)
  BY DEF JInv, IInv
<1>2. PICK valid \in BOOLEAN, l \in {"lock", "revert"} : /\ op' = [op EXCEPT ![t] = o] /\ ok' = [ok EXCEPT ![t] = @ /\ valid]
                                  /\ pc' = [pc EXCEPT ![t] = l]
                                  /\ l = (IF valid THEN "lock" ELSE "revert")
  <2>1. PICK valid : valid = (trecs[t][i].state # "condemned")
    OBVIOUS
  <2>2. valid \in BOOLEAN
    BY <2>1
  <2>3. /\ op' = [op EXCEPT ![t] = o] /\ ok' = [ok EXCEPT ![t] = @ /\ valid]
        /\ pc' = [pc EXCEPT ![t] = IF valid THEN "lock" ELSE "revert"]
    BY <2>1 DEF Validate, Goto
  <2>4. CASE valid
    BY <2>2, <2>3, <2>4
  <2>5. CASE ~ valid
    BY <2>2, <2>3, <2>5
  <2> QED BY <2>2, <2>4, <2>5
<1>3. /\ op'[t] = o /\ pc'[t] = l /\ (l = "revert" => ~ ok'[t]) /\ l \in {"lock", "revert"}
      /\ watch' = watch /\ why' = why /\ inbox' = inbox /\ trecs' = trecs /\ frames' = frames
  BY <1>1, <1>2 DEF TypeInv, tvars, sleep
<1>4. OnQueues(t)' <=> OnQueues(t)
  BY <1>3 DEF OnQueues
<1>5. FrameInv(t)'
  BY <1>1, <1>3, FramesStay
<1> QED BY <1>3, <1>4, <1>5, PlainJ

LEMMA StartJ ==
  ASSUME JInv, NEW t \in Threads, Return(t) \/ AtAtomically(t) \/ Preempt(t) \/ ReWait(t) \/ NextLevel(t)
  PROVE  JSelf(t)
<1>1. IInv /\ TypeInv /\ FrameInv(t) /\ ThreadInv(t)
  BY DEF JInv, IInv
<1>2. UNCHANGED <<tvars, trecs, frames, steps, sleep, history>>
  BY DEF Return, AtAtomically, Preempt, ReWait, NextLevel
<1>3. CASE NextLevel(t)
  <2>1. pc[t] = "revert" /\ op[t] \in {"validate", "raise"} /\ Validate(t, op[t], level[t] - 1)
    BY <1>3 DEF NextLevel, Reverted
  <2> QED BY <1>2, <2>1, ValidateJ
<1>4. CASE ~ NextLevel(t)
  <2>1. pc[t] \in {"run", "retry", "raise", "parked"} /\ op[t] = "none"
    BY <1>1, <1>4 DEF Return, AtAtomically, Preempt, ReWait, ThreadInv, Resting
  <2>2. CASE Return(t)
    <3>1. pc[t] = "run" /\ Validate(t, IF Len(frames[t]) = 1 THEN "commit" ELSE "nested", Len(trecs[t]))
      BY <2>2 DEF Return
    <3>2. CASE Len(frames[t]) = 1
      <4>1. Validate(t, "commit", Len(trecs[t]))
        BY <3>1, <3>2
      <4> QED BY <1>2, <2>1, <3>1, <4>1, ValidateJ
    <3>3. CASE Len(frames[t]) # 1
      <4>1. Validate(t, "nested", Len(trecs[t]))
        BY <3>1, <3>3
      <4> QED BY <1>2, <2>1, <3>1, <4>1, ValidateJ
    <3> QED BY <3>2, <3>3
  <2>3. CASE AtAtomically(t)
    <3>1. pc[t] \in {"retry", "raise"} /\ Len(frames[t]) = 1 /\ Validate(t, IF pc[t] = "retry" THEN "wait" ELSE "raise", Len(trecs[t]))
      BY <2>3 DEF AtAtomically
    <3>2. CASE pc[t] = "retry"
      <4>1. Validate(t, "wait", Len(trecs[t])) /\ Len(trecs[t]) = 1
        BY <1>1, <2>1, <3>1, <3>2 DEF FrameInv
      <4> QED BY <1>2, <2>1, <3>2, <4>1, ValidateJ
    <3>3. CASE pc[t] = "raise"
      <4>1. Validate(t, "raise", Len(trecs[t]))
        BY <3>1, <3>3
      <4> QED BY <1>2, <2>1, <3>3, <4>1, ValidateJ
    <3> QED BY <3>1, <3>2, <3>3
  <2>4. CASE Preempt(t)
    <3>1. pc[t] = "run" /\ Validate(t, "validate", Len(trecs[t]))
      BY <2>4 DEF Preempt
    <3> QED BY <1>2, <2>1, <3>1, ValidateJ
  <2>5. CASE ReWait(t)
    <3>1. pc[t] = "parked" /\ Validate(t, "rewait", 1)
      BY <2>5 DEF ReWait
    <3> QED BY <1>2, <2>1, <3>1, ValidateJ
  <2> QED BY <1>4, <2>2, <2>3, <2>4, <2>5
<1> QED BY <1>3, <1>4

(* Locking, reading and checking.                                          *)
LEMMA AcquireJ ==
  ASSUME JInv, NEW t \in Threads, Lock(t) \/ Look(t) \/ Reread(t) \/ Check(t) \/ WaitUnlock(t)
  PROVE  JSelf(t)
<1>1. IInv /\ TypeInv /\ FrameInv(t) /\ ThreadInv(t)
  BY DEF JInv, IInv
<1>2. watch' = watch /\ why' = why /\ inbox' = inbox /\ trecs' = trecs /\ frames' = frames /\ op' = op
  BY DEF Lock, Look, Reread, Check, WaitUnlock, sleep, tvars, scan, history
<1>3. pc[t] \in {"lock", "reread", "check", "sleep"} /\ op[t] # "none"
  BY <1>1 DEF Lock, Look, Reread, Check, WaitUnlock, ThreadInv, Resting
<1>4. \/ pc'[t] = "revert" /\ ~ ok'[t] /\ pc[t] # "sleep"
      \/ pc'[t] = "revert" /\ ok' = ok /\ pc[t] = "sleep"
      \/ pc'[t] \in {"lock", "sample"} /\ pc[t] = "lock" /\ ok' = ok /\ (pc'[t] = "sample" => op[t] # "rewait")
      \/ pc'[t] \in {"lock", "check"} /\ pc[t] \in {"reread", "check"} /\ ok' = ok
  <2>1. CASE Lock(t)
    <3>1. Next1(t, "lock") \/ Fail(t)
      BY <2>1 DEF Lock
    <3> QED BY <1>1, <2>1, <3>1 DEF Lock, Next1, Fail, Goto, TypeInv
  <2>2. CASE Look(t)
    <3>1. (Goto(t, "sample") /\ UNCHANGED <<idx, ok>>) \/ Fail(t)
      BY <2>2 DEF Look
    <3>2. op[t] # "rewait"
      BY <2>2 DEF Look, AcquireAll
    <3> QED BY <1>1, <2>2, <3>1, <3>2 DEF Look, Fail, Goto, TypeInv
  <2>3. CASE Reread(t)
    <3>1. Next1(t, "lock") \/ Fail(t)
      BY <2>3 DEF Reread
    <3> QED BY <1>1, <2>3, <3>1 DEF Reread, Next1, Fail, Goto, TypeInv
  <2>4. CASE Check(t)
    <3>1. Next1(t, "check") \/ Fail(t)
      BY <2>4 DEF Check
    <3> QED BY <1>1, <2>4, <3>1 DEF Check, Next1, Fail, Goto, TypeInv
  <2>5. CASE WaitUnlock(t)
    BY <1>1, <2>5 DEF WaitUnlock, Goto, TypeInv, scan
  <2> QED BY <2>1, <2>2, <2>3, <2>4, <2>5
<1>5. (pc[t] = "sleep" => op[t] = "wait" /\ ok[t]) /\ (op[t] = "rewait" => pc[t] = "lock")
  BY <1>1, <1>3 DEF ThreadInv, Working, Resting, TypeInv, Operation
<1>6. OnQueues(t)' <=> OnQueues(t)
  <2>1. op'[t] = op[t]
    BY <1>2
  <2>2. CASE op[t] = "rewait"
    <3>1. OnQueues(t)
      BY <1>5, <2>2 DEF OnQueues
    <3>2. pc'[t] \in {"lock", "revert"}
      BY <1>4, <1>5, <2>2
    <3> QED BY <2>1, <2>2, <3>1, <3>2 DEF OnQueues
  <2>3. CASE op[t] # "rewait"
    BY <1>3, <1>4, <1>5, <2>1, <2>3 DEF OnQueues
  <2> QED BY <2>2, <2>3
<1>7. FrameInv(t)'
  BY <1>1, <1>2, <1>3, <1>4, FramesStay
<1> QED BY <1>2, <1>3, <1>4, <1>6, <1>7, PlainJ

(* The steps of a commit change records, but nobody who commits waits.     *)
LEMMA AwakeJ ==
  ASSUME JInv, NEW t \in Threads, watch' = watch, why' = why, inbox' = inbox, pc[t] # "remove", pc'[t] # "store",
         ~ OnQueues(t), ~ OnQueues(t)', Len(trecs'[t]) = Len(trecs[t]), frames'[t] = frames[t], op'[t] = op[t],
         pc[t] \in Working, pc'[t] # "raise"
  PROVE  JSelf(t)
<1>1. FrameInv(t) /\ ThreadInv(t)
  BY DEF JInv, IInv
<1>2. pc[t] # "raise"
  BY DEF Working
<1>3. FrameInv(t)'
  BY <1>1, <1>2, FramesStay
<1> QED BY <1>3, OffIs, OffJ

LEMMA SampleJ ==
  ASSUME JInv, NEW t \in Threads, Sample(t)
  PROVE  JSelf(t)
<1>1. /\ pc[t] = "sample" /\ pc' = [pc EXCEPT ![t] = "reread"]
      /\ UNCHANGED <<tvars, frames, scan, steps, sleep, history>>
  BY DEF Sample, Goto
<1>2. IInv /\ TypeInv
  BY DEF JInv, IInv
<1>3. Len(trecs'[t]) = Len(trecs[t])
  <2>1. PICK chain, k : chain = trecs[t] /\ k = level[t]
    OBVIOUS
  <2>2. chain \in Chain /\ k \in 1..Len(chain)
    BY <1>1, <1>2, <2>1, CurrentIs DEF TypeInv, Working
  <2>3. trecs' = [trecs EXCEPT ![t][k].entries[idx[t]].num = updates[Here(t).tvar]]
    BY <2>1 DEF Sample
  <2>4. PICK r2 : trecs' = [trecs EXCEPT ![t] = [chain EXCEPT ![k] = r2]]
    BY <2>1, <2>3
  <2>5. Len([chain EXCEPT ![k] = r2]) = Len(chain)
    BY <2>2 DEF Chain
  <2> QED BY <1>2, <2>1, <2>4, <2>5 DEF TypeInv
<1>4. watch' = watch /\ why' = why /\ inbox' = inbox /\ frames' = frames /\ op' = op /\ pc'[t] = "reread"
  BY <1>1, <1>2 DEF TypeInv, tvars, scan, sleep
<1> QED BY <1>1, <1>3, <1>4, AwakeJ DEF Working, OnQueues

LEMMA CommitJ ==
  ASSUME JInv, NEW t \in Threads, Checked(t) \/ Store(t)
  PROVE  JSelf(t)
<1>1. TypeInv
  BY DEF JInv, IInv
<1>2. watch' = watch /\ why' = why /\ inbox' = inbox /\ frames' = frames /\ trecs' = trecs /\ op' = op
  BY DEF Checked, Store, tvars, sleep
<1>3. pc[t] \in {"check", "store"} /\ pc'[t] \in {"write", "merge"}
  BY <1>1 DEF Checked, Store, Next1, Goto, TypeInv
<1> QED BY <1>2, <1>3, AwakeJ DEF Working, OnQueues

LEMMA MergeJ ==
  ASSUME JInv, NEW t \in Threads, Merge(t)
  PROVE  JSelf(t)
<1>1. pc[t] = "merge" /\ More(t) /\ UNCHANGED <<updates, watch, frames, op, level, steps, sleep, history>>
  BY DEF Merge
<1>2. IInv /\ TypeInv /\ ThreadInv(t)
  BY DEF JInv, IInv
<1>3. PICK chain, n, front, last, e : chain = trecs[t] /\ n = Len(chain) /\ front = Front(chain) /\ last = Last(chain) /\ e = Here(t)
  OBVIOUS
<1>4. e \in EntryRec
  BY <1>1, <1>2, <1>3, HereIs DEF Working
<1>5. chain \in Chain /\ n \in Nat /\ n > 1
  <2>1. op[t] = "nested"
    BY <1>1, <1>2 DEF TypeInv, ThreadInv, Operation, Resting, Working
  <2> QED BY <1>1, <1>2, <1>3, <2>1, NestIs DEF ThreadInv
<1>6. front \in Chain /\ Len(front) = n - 1 /\ last \in TRec /\ Distinct(last)
  BY <1>3, <1>5, FrontChain
<1>7. PICK merged : merged = MergeUpdate(front, e)
  OBVIOUS
<1>8. merged \in Chain /\ Len(merged) = n - 1
  BY <1>4, <1>5, <1>6, <1>7, MergeUpdateIs
<1>9. Len(Append(merged, last)) = (n - 1) + 1 /\ (n - 1) + 1 = n
  BY <1>5, <1>6, <1>8, AppendChain
<1>10. trecs'[t] = Append(merged, last)
  BY <1>2, <1>3, <1>7 DEF Merge, TypeInv
<1>11. watch' = watch /\ why' = why /\ inbox' = inbox /\ frames' = frames /\ op' = op /\ pc'[t] = "merge"
  BY <1>1, <1>2 DEF Merge, Next1, Goto, TypeInv, sleep
<1> QED BY <1>1, <1>3, <1>9, <1>10, <1>11, AwakeJ DEF Working, OnQueues

LEMMA MergedJ ==
  ASSUME JInv, NEW t \in Threads, Merged(t)
  PROVE  JSelf(t)
<1>1. pc[t] = "merge" /\ UNCHANGED <<tvars, steps, sleep, seen, log>> /\ Idle(t) /\ pc' = [pc EXCEPT ![t] = "run"]
      /\ trecs' = [trecs EXCEPT ![t] = Front(trecs[t])] /\ frames' = [frames EXCEPT ![t] = Front(frames[t])]
  BY DEF Merged, Goto, JInv, IInv, TypeInv
<1>2. IInv /\ TypeInv /\ ThreadInv(t)
  BY DEF JInv, IInv
<1>3. op[t] = "nested"
  BY <1>1, <1>2 DEF TypeInv, ThreadInv, Operation, Resting, Working
<1>4. PICK n : n = Len(trecs[t])
  OBVIOUS
<1>5. trecs[t] \in Chain /\ frames[t] \in Seq(Frame) /\ n \in Nat /\ Len(frames[t]) = n /\ n > 1
  <2>1. trecs[t] \in Chain /\ frames[t] \in Seq(Frame) /\ n \in Nat
    BY <1>1, <1>2, <1>4, NestIs
  <2> QED BY <1>2, <1>3, <1>4, <2>1 DEF ThreadInv
<1>6. Len(Front(trecs[t])) = n - 1
  BY <1>4, <1>5, FrontChain
<1>7. Len(Front(frames[t])) = n - 1
  BY <1>5, FrontFrame
<1>8. trecs'[t] = Front(trecs[t]) /\ frames'[t] = Front(frames[t]) /\ op'[t] = "none" /\ pc'[t] = "run"
  BY <1>1, <1>2 DEF TypeInv, Idle
<1>9. FrameInv(t)' /\ ~ OnQueues(t)' /\ pc'[t] # "store"
  BY <1>6, <1>7, <1>8 DEF FrameInv, OnQueues
<1>10. Off(t)
  BY <1>1, OffIs DEF OnQueues
<1> QED BY <1>1, <1>9, <1>10, OffJ DEF tvars, sleep

LEMMA InvalidNestedJ ==
  ASSUME JInv, NEW t \in Threads, InvalidNested(t)
  PROVE  JSelf(t)
<1>1. pc[t] = "revert" /\ op[t] = "nested" /\ UNCHANGED <<tvars, frames, steps, sleep, log>> /\ Idle(t)
      /\ pc' = [pc EXCEPT ![t] = "run"]
  BY DEF InvalidNested, Reverted, Goto
<1>2. IInv /\ TypeInv /\ ThreadInv(t)
  BY DEF JInv, IInv
<1>3. PICK n, outer, r : n = Len(trecs[t]) /\ outer = Front(trecs[t]) /\ r = NewTRec(Last(outer).state)
  OBVIOUS
<1>4. trecs[t] \in Chain /\ n \in Nat /\ Len(frames[t]) = n /\ n > 1
  <2>1. trecs[t] \in Chain /\ n \in Nat
    BY <1>1, <1>2, <1>3, NestIs
  <2> QED BY <1>1, <1>2, <1>3, <2>1 DEF ThreadInv
<1>5. outer \in Chain /\ Len(outer) = n - 1
  BY <1>3, <1>4, FrontChain
<1>6. r \in TRec /\ Distinct(r)
  <2>1. n - 1 \in 1..(n - 1)
    BY <1>4
  <2>2. Last(outer) \in TRec
    BY <1>5, <2>1, ChainIs DEF Last
  <2>3. Last(outer).state \in {"active", "condemned", "waiting"}
    BY <2>2 DEF TRec
  <2> QED BY <1>3, <2>3, NewTRecIs
<1>7. Len(Append(outer, r)) = (n - 1) + 1 /\ (n - 1) + 1 = n
  BY <1>4, <1>5, <1>6, AppendChain
<1>8. trecs'[t] = Append(outer, r)
  BY <1>2, <1>3 DEF InvalidNested, TypeInv
<1>9. frames' = frames /\ op'[t] = "none" /\ pc'[t] = "run"
  BY <1>1, <1>2 DEF TypeInv, Idle
<1>10. FrameInv(t)' /\ ~ OnQueues(t)' /\ pc'[t] # "store"
  BY <1>4, <1>7, <1>8, <1>9 DEF FrameInv, OnQueues
<1>11. Off(t)
  BY <1>1, OffIs DEF OnQueues
<1> QED BY <1>1, <1>10, <1>11, OffJ DEF tvars, sleep

LEMMA ValidatedJ ==
  ASSUME JInv, NEW t \in Threads, Validated(t)
  PROVE  JSelf(t)
<1>1. pc[t] = "revert" /\ op[t] = "validate" /\ UNCHANGED <<tvars, steps, sleep, seen, log>>
  BY DEF Validated, Reverted
<1>2. IInv /\ TypeInv /\ FrameInv(t)
  BY DEF JInv, IInv
<1>3. Off(t)
  BY <1>1, OffIs DEF OnQueues
<1>4. Len(frames'[t]) = Len(trecs'[t]) /\ op'[t] \in {"none", "commit"} /\ pc'[t] \in {"run", "revert"}
  <2>1. CASE ok[t]
    <3>1. pc' = [pc EXCEPT ![t] = "run"] /\ op' = [op EXCEPT ![t] = "none"] /\ UNCHANGED <<trecs, frames>>
      BY <2>1 DEF Validated, Goto, Idle
    <3> QED BY <1>1, <1>2, <3>1 DEF FrameInv, TypeInv
  <2>2. CASE ~ ok[t]
    <3>1. PICK r : r = [Head(trecs[t]) EXCEPT !.state = "condemned"]
      OBVIOUS
    <3>2. /\ trecs' = [trecs EXCEPT ![t] = <<r>>] /\ frames' = [frames EXCEPT ![t] = <<"atomically">>]
          /\ op' = [op EXCEPT ![t] = "commit"] /\ pc' = pc
      BY <1>2, <2>2, <3>1 DEF Validated, TypeInv
    <3>3. trecs'[t] = <<r>> /\ frames'[t] = <<"atomically">> /\ op'[t] = "commit" /\ pc'[t] = "revert"
      BY <1>1, <1>2, <3>2 DEF TypeInv
    <3>4. Len(<<r>>) = 1 /\ Len(<<"atomically">>) = 1
      OBVIOUS
    <3> QED BY <3>3, <3>4
  <2> QED BY <2>1, <2>2
<1>5. FrameInv(t)' /\ ~ OnQueues(t)' /\ pc'[t] # "store"
  BY <1>4 DEF FrameInv, OnQueues
<1> QED BY <1>1, <1>3, <1>5, OffJ DEF tvars, sleep

LEMMA RevertJ ==
  ASSUME JInv, NEW t \in Threads, Revert(t)
  PROVE  JSelf(t)
<1>1. pc[t] = "revert" /\ UNCHANGED <<updates, watch, trecs, frames, pc, scan, steps, sleep, history>>
  BY DEF Revert
<1>2. IInv /\ FrameInv(t)
  BY DEF JInv
<1>3. watch' = watch /\ why' = why /\ inbox' = inbox /\ trecs' = trecs /\ frames' = frames /\ pc' = pc /\ op' = op /\ ok' = ok
  BY <1>1 DEF scan, sleep
<1>4. OnQueues(t)' <=> OnQueues(t)
  BY <1>3 DEF OnQueues
<1>5. FrameInv(t)'
  BY <1>2, <1>3 DEF FrameInv
<1> QED BY <1>1, <1>3, <1>4, <1>5, PlainJ

LEMMA AsleepJ ==
  ASSUME JInv, NEW t \in Threads, Asleep(t)
  PROVE  JSelf(t)
<1>1. pc[t] = "revert" /\ op[t] \in {"wait", "rewait"} /\ ok[t] /\ UNCHANGED <<tvars, trecs, frames, steps, sleep, seen, log>>
      /\ Idle(t) /\ pc' = [pc EXCEPT ![t] = "parked"]
  BY DEF Asleep, Reverted, Goto
<1>2. TypeInv /\ FrameInv(t)
  BY DEF JInv, IInv
<1>3. watch' = watch /\ why' = why /\ inbox' = inbox /\ trecs' = trecs /\ frames' = frames /\ pc'[t] = "parked" /\ op'[t] = "none"
  BY <1>1, <1>2 DEF tvars, sleep, Idle, TypeInv
<1>4. OnQueues(t)' <=> OnQueues(t)
  BY <1>1, <1>3 DEF OnQueues
<1>5. FrameInv(t)'
  BY <1>1, <1>2, <1>3, FramesStay
<1> QED BY <1>1, <1>3, <1>4, <1>5, PlainJ

(* The wake-ups go out before the update: all who wait for the TVar get one. *)
LEMMA BumpJ ==
  ASSUME JInv, NEW t \in Threads, Bump(t)
  PROVE  JSelf(t)
<1>1. pc[t] = "write" /\ pc' = [pc EXCEPT ![t] = "store"]
      /\ UNCHANGED <<value, watch, trecs, frames, op, level, ok, steps, why, history>>
  BY DEF Bump, Goto
<1>2. IInv /\ TypeInv /\ FrameInv(t)
  BY DEF JInv, IInv
<1>3. PICK i \in ToWrite(t) : /\ inbox' = inbox \cup Waiters(Current(t).entries[i].tvar)
                              /\ idx' = [idx EXCEPT ![t] = i]
  BY DEF Bump
<1>4. PICK s : s = Es(t)[i].tvar
  OBVIOUS
<1>5. s \in TVars
  <2>1. i \in DOMAIN Es(t)
    BY <1>3 DEF ToWrite, Es
  <2> QED BY <1>1, <1>2, <1>4, <2>1, CurrentIs DEF Working
<1>6. pc'[t] = "store" /\ idx'[t] = i /\ Here(t)'.tvar = s
  <2>1. pc'[t] = "store" /\ idx'[t] = i
    BY <1>1, <1>2, <1>3 DEF TypeInv
  <2> QED BY <1>1, <1>4, <2>1 DEF Here, Es, Current
<1>7. inbox' = inbox \cup Waiters(s)
  BY <1>3, <1>4 DEF Es
<1>8. ASSUME NEW u \in Threads, Unwoken(u)', Has(trecs[u][1], s)' PROVE FALSE
  <2>1. u # t
    BY <1>6, <1>8 DEF Unwoken, OnQueues
  <2>2. pc'[u] = pc[u]
    BY <1>1, <1>2, <2>1 DEF TypeInv
  <2>3. OnQueues(u) /\ why[u] = "stm" /\ u \notin inbox'
    BY <1>1, <1>8, <2>2 DEF Unwoken, OnQueues
  <2>4. Has(trecs[u][1], s)
    BY <1>1, <1>8 DEF Has
  <2>5. u \in watch[s]
    BY <1>5, <2>3, <2>4 DEF JInv, WatchInv
  <2>6. u \in Waiters(s)
    BY <2>3, <2>5 DEF Waiters
  <2> QED BY <1>7, <2>3, <2>6
<1>9. QueueEffect(t)
  BY <1>1, <1>7 DEF QueueEffect
<1>10. Off(t)
  BY <1>1, OffIs DEF OnQueues
<1>11. ~ OnQueues(t)'
  BY <1>6 DEF OnQueues
<1>12. WatchInv(t)'
  BY <1>1, <1>10, <1>11 DEF WatchInv, Off
<1>13. SelfWake(t)
  BY <1>11 DEF SelfWake, Unwoken
<1>14. FrameInv(t)'
  BY <1>1, <1>2, <1>6 DEF FrameInv
<1>15. \A u \in Threads : Unwoken(u)' => ~ Has(trecs[u][1], Here(t).tvar)'
  <2> SUFFICES ASSUME NEW u \in Threads, Unwoken(u)', Has(trecs[u][1], Here(t).tvar)' PROVE FALSE
    OBVIOUS
  <2>1. Has(trecs[u][1], s)'
    BY <1>6 DEF Has
  <2> QED BY <1>8, <2>1
<1> QED BY <1>9, <1>12, <1>13, <1>14, <1>15 DEF JSelf

(* Who falls asleep owns all it waits for, and finds it as expected.       *)
LEMMA OwnedHolds ==
  ASSUME JInv, NEW t \in Threads, pc[t] = "lock", ~ More(t), AcquireAll(t), level[t] = 1, value' = value, level' = level,
         NEW chain \in Chain, 1 \in 1..Len(chain), trecs'[t] = chain, chain[1].entries = Es(t), pc'[t] # "remove"
  PROVE  Holds(trecs[t][1])' /\ \A s \in TVars : Has(trecs'[t][1], s) => value[s] = t
<1>1. IInv /\ OwnInv(t)
  BY DEF JInv, IInv
<1>2. PICK es : es = Es(t)
  OBVIOUS
<1>3. DOMAIN es = 1..Len(es) /\ Len(es) \in Nat /\ idx[t] \in Nat /\ \A i \in DOMAIN es : es[i].tvar \in TVars
  BY <1>1, <1>2, CurrentIs DEF Working
<1>4. \A i \in DOMAIN es : value[es[i].tvar] = t
  <2> SUFFICES ASSUME NEW i \in DOMAIN es PROVE value[es[i].tvar] = t
    OBVIOUS
  <2>1. i < idx[t]
    BY <1>2, <1>3 DEF More, Es
  <2>2. MayHold(t, i)
    BY <1>2, <2>1 DEF MayHold, Wants, Working
  <2> QED BY <1>1, <1>2, <2>2 DEF OwnInv, Working
<1>5. Es(t)' = es /\ Distinct(Current(t))'
  <2>1. level'[t] = 1
    OBVIOUS
  <2>2. Es(t)' = es
    BY <1>2, <2>1 DEF Es, Current
  <2>3. Distinct(chain[1])
    BY ChainIs
  <2>4. Current(t)' = chain[1]
    BY <2>1 DEF Current
  <2>5. Distinct(Current(t))' = Distinct(chain[1])
    BY <2>4 DEF Distinct
  <2> QED BY <2>2, <2>3, <2>5
<1>6. ASSUME NEW i \in DOMAIN es PROVE Under(es[i].tvar)' = es[i].expected
  <2>1. PICK s \in TVars : s = es[i].tvar
    BY <1>3
  <2>2. value'[s] = t /\ i \in DOMAIN Es(t)' /\ s = Es(t)'[i].tvar
    BY <1>4, <1>5, <2>1
  <2>3. Under(s)' = IF pc'[t] = "remove" THEN Es(t)'[i].new ELSE Es(t)'[i].expected
    BY <1>5, <2>2, UnderHeldNext
  <2> QED BY <1>5, <2>1, <2>3
<1>7. Holds(trecs[t][1])'
  <2>1. trecs'[t][1].entries = es
    BY <1>2
  <2> QED BY <1>6, <2>1 DEF Holds
<1>8. \A s \in TVars : Has(trecs'[t][1], s) => value[s] = t
  BY <1>2, <1>4 DEF Has
<1> QED BY <1>7, <1>8

LEMMA OwnedJ ==
  ASSUME JInv, NEW t \in Threads, Owned(t)
  PROVE  JSelf(t)
<1>1. pc[t] = "lock" /\ ~ More(t) /\ UNCHANGED <<value, updates, frames, op, level, ok, steps, inbox, seen, log>>
  BY DEF Owned
<1>2. IInv /\ TypeInv /\ FrameInv(t) /\ ThreadInv(t)
  BY DEF JInv, IInv
<1>3. trecs[t] \in Chain /\ Len(trecs[t]) \in Nat /\ Len(trecs[t]) >= 1 /\ 1 \in 1..Len(trecs[t])
      /\ level[t] \in 1..Len(trecs[t]) /\ op[t] # "none"
  BY <1>1, <1>2, NestIs DEF ThreadInv, Resting
<1>4. CASE op[t] = "wait"
  <2>1. /\ pc' = [pc EXCEPT ![t] = "sleep"] /\ why' = [why EXCEPT ![t] = "stm"]
        /\ watch' = [s \in TVars |-> IF Has(Current(t), s) THEN watch[s] \cup {t} ELSE watch[s]]
        /\ trecs' = [trecs EXCEPT ![t][1].state = "waiting"]
    BY <1>4 DEF Owned, Goto
  <2>2. PICK chain \in Chain : /\ trecs' = [trecs EXCEPT ![t] = chain] /\ Len(chain) = Len(trecs[t])
                               /\ \A k \in 1..Len(trecs[t]) : chain[k].entries = trecs[t][k].entries
    BY <1>3, <2>1, WaitingChain
  <2>3. Len(trecs[t]) = 1 /\ level[t] = 1
    BY <1>2, <1>3, <1>4 DEF FrameInv
  <2>4. pc'[t] = "sleep" /\ trecs'[t] = chain /\ why'[t] = "stm" /\ chain[1].entries = Es(t) /\ op'[t] = "wait"
    BY <1>1, <1>2, <1>3, <1>4, <2>1, <2>2, <2>3 DEF TypeInv, Es, Current
  <2>5. Holds(trecs[t][1])' /\ \A s \in TVars : Has(trecs'[t][1], s) => value[s] = t
    <3>1. AcquireAll(t)
      BY <1>4 DEF AcquireAll
    <3>2. value' = value /\ level' = level /\ 1 \in 1..Len(chain) /\ pc'[t] # "remove"
      BY <1>1, <2>2, <2>3, <2>4
    <3> QED BY <1>1, <2>3, <2>4, <3>1, <3>2, OwnedHolds
  <2>6. \A s \in TVars : Has(trecs'[t][1], s) <=> Has(Current(t), s)
    BY <2>4 DEF Has, Es
  <2>7. Off(t)
    BY <1>1, <1>4, OffIs DEF OnQueues
  <2>8. WatchInv(t)'
    <3>1. OnQueues(t)'
      BY <2>4 DEF OnQueues
    <3>2. \A s \in TVars : t \in watch'[s] <=> Has(Current(t), s)
      BY <2>1, <2>7 DEF Off
    <3> QED BY <2>6, <3>1, <3>2 DEF WatchInv
  <2>9. QueueEffect(t)
    <3> SUFFICES ASSUME NEW u \in Threads \ {t} PROVE /\ \A s \in TVars : u \in watch'[s] <=> u \in watch[s]
                                                    /\ why'[u] = why[u] /\ (u \in inbox => u \in inbox')
      BY DEF QueueEffect
    <3>1. \A s \in TVars : u \in watch'[s] <=> u \in watch[s]
      BY <2>1
    <3>2. why'[u] = why[u]
      BY <1>2, <2>1 DEF TypeInv
    <3> QED BY <1>1, <3>1, <3>2
  <2>10. FrameInv(t)'
    BY <1>1, <1>2, <1>4, <2>2, <2>3, <2>4 DEF FrameInv
  <2> QED BY <2>4, <2>5, <2>8, <2>9, <2>10 DEF JSelf, SelfWake
<1>5. CASE op[t] = "rewait"
  <2>1. pc' = [pc EXCEPT ![t] = "revert"] /\ why' = [why EXCEPT ![t] = "stm"] /\ watch' = watch /\ trecs' = trecs
    BY <1>5 DEF Owned, Goto
  <2>2. pc'[t] = "revert" /\ op'[t] = "rewait" /\ level[t] = 1
    BY <1>1, <1>2, <1>5, <2>1 DEF TypeInv, ThreadInv
  <2>3. Holds(trecs[t][1])' /\ \A s \in TVars : Has(trecs'[t][1], s) => value[s] = t
    <3>1. PICK chain \in Chain : chain = trecs[t]
      BY <1>3
    <3>2. AcquireAll(t)
      BY <1>5 DEF AcquireAll
    <3>3. value' = value /\ level' = level /\ 1 \in 1..Len(chain) /\ pc'[t] # "remove" /\ trecs'[t] = chain /\ chain[1].entries = Es(t)
      BY <1>1, <1>3, <2>1, <2>2, <3>1 DEF Es, Current
    <3> QED BY <1>1, <2>2, <3>2, <3>3, OwnedHolds
  <2>4. OnQueues(t) /\ OnQueues(t)'
    BY <1>1, <1>5, <2>2 DEF OnQueues
  <2>5. WatchInv(t)'
    BY <2>1, <2>4 DEF JInv, WatchInv, Has
  <2>6. QueueEffect(t)
    BY <1>1, <1>2, <2>1 DEF QueueEffect, TypeInv
  <2>7. FrameInv(t)'
    BY <1>1, <1>2, <1>5, <2>1, <2>2 DEF FrameInv
  <2> QED BY <2>2, <2>3, <2>5, <2>6, <2>7 DEF JSelf, SelfWake
<1>6. CASE op[t] \notin {"wait", "rewait"}
  <2>1. watch' = watch /\ why' = why /\ trecs' = trecs /\ inbox' = inbox /\ frames' = frames /\ op'[t] = op[t]
    BY <1>1, <1>6 DEF Owned
  <2>2. pc'[t] \in {"check", "revert"}
    BY <1>2, <1>6 DEF Owned, Goto, TypeInv
  <2>3. ~ OnQueues(t) /\ ~ OnQueues(t)'
    BY <1>1, <1>6, <2>1, <2>2 DEF OnQueues
  <2> QED BY <1>1, <2>1, <2>2, <2>3, AwakeJ DEF Working
<1> QED BY <1>4, <1>5, <1>6

(* Woken, or taken off the queues one TVar after the other.                *)
LEMMA DeliverJ ==
  ASSUME JInv, NEW t \in Threads, Deliver(t)
  PROVE  JSelf(t)
<1>1. UNCHANGED <<tvars, trecs, frames, pc, scan, steps, history>> /\ pc[t] \in {"parked", "run", "out"}
      /\ inbox' = inbox \ {t} /\ why' = [why EXCEPT ![t] = "not"]
  BY DEF Deliver
<1>2. TypeInv /\ FrameInv(t) /\ WatchInv(t)
  BY DEF JInv, IInv
<1>3. watch' = watch /\ trecs' = trecs /\ frames' = frames /\ pc' = pc /\ op' = op /\ level' = level /\ idx' = idx /\ ok' = ok
  BY <1>1 DEF tvars, scan
<1>4. QueueEffect(t)
  BY <1>1, <1>2, <1>3 DEF QueueEffect, TypeInv
<1>5. FrameInv(t)'
  BY <1>2, <1>3 DEF FrameInv
<1>6. WatchInv(t)'
  <2>1. OnQueues(t)' <=> OnQueues(t)
    BY <1>3 DEF OnQueues
  <2>2. Es(t)' = Es(t)
    BY <1>3 DEF Es, Current
  <2> QED BY <1>2, <1>3, <2>1, <2>2 DEF WatchInv, Has
<1>7. why'[t] = "not"
  BY <1>1, <1>2 DEF TypeInv
<1>8. SelfWake(t) /\ pc'[t] # "store"
  BY <1>1, <1>3, <1>7 DEF SelfWake, Unwoken
<1> QED BY <1>4, <1>5, <1>6, <1>8 DEF JSelf

LEMMA RemoveJ ==
  ASSUME JInv, NEW t \in Threads, QueueEffect(t), FrameInv(t)', pc'[t] = "remove",
         \A s \in TVars : t \in watch'[s] => \E i \in DOMAIN Es(t)' : i >= idx'[t] /\ Es(t)'[i].tvar = s
  PROVE  JSelf(t)
<1>1. ~ OnQueues(t)'
  BY DEF OnQueues
<1>2. WatchInv(t)'
  BY <1>1 DEF WatchInv
<1>3. SelfWake(t)
  BY <1>1 DEF SelfWake, Unwoken
<1> QED BY <1>2, <1>3 DEF JSelf

LEMMA LeavingJ ==
  ASSUME JInv, NEW t \in Threads, StopWaiting(t) \/ (Freeze(t) /\ pc[t] = "parked")
  PROVE  JSelf(t)
<1>1. IInv /\ TypeInv /\ FrameInv(t) /\ WatchInv(t) /\ ThreadInv(t)
  BY DEF JInv, IInv
<1>2. /\ UNCHANGED <<tvars, trecs, frames, level, inbox>> /\ pc' = [pc EXCEPT ![t] = "remove"] /\ idx' = [idx EXCEPT ![t] = 1]
      /\ why' = why \/ why' = [why EXCEPT ![t] = "not"]
  BY DEF StopWaiting, Freeze, sleep, Goto
<1>3. PICK o \in {"rewait", "kill"} : op' = [op EXCEPT ![t] = o]
  BY <1>1 DEF StopWaiting, Freeze, Reverted, TypeInv
<1>4. OnQueues(t) /\ level[t] = 1 /\ pc[t] \in {"revert", "parked"} /\ op[t] \in {"none", "rewait"}
  BY <1>1 DEF StopWaiting, Freeze, Reverted, OnQueues, ThreadInv, Resting
<1>5. watch' = watch /\ trecs' = trecs /\ frames' = frames /\ level' = level /\ inbox' = inbox /\ pc'[t] = "remove" /\ op'[t] = o /\ idx'[t] = 1
  BY <1>1, <1>2, <1>3 DEF TypeInv, tvars
<1>6. QueueEffect(t)
  BY <1>1, <1>2, <1>5 DEF QueueEffect, TypeInv
<1>7. FrameInv(t)'
  BY <1>1, <1>4, <1>5, FramesStay
<1>8. Es(t)' = trecs[t][1].entries
  BY <1>4, <1>5 DEF Es, Current
<1>9. DOMAIN trecs[t][1].entries = 1..Len(trecs[t][1].entries)
  BY <1>1, <1>4, WatcherIs
<1>10. ASSUME NEW s \in TVars, t \in watch'[s] PROVE \E i \in DOMAIN Es(t)' : i >= idx'[t] /\ Es(t)'[i].tvar = s
  <2>1. Has(trecs[t][1], s)
    BY <1>1, <1>4, <1>5, <1>10 DEF WatchInv
  <2>2. PICK i \in DOMAIN trecs[t][1].entries : trecs[t][1].entries[i].tvar = s
    BY <2>1 DEF Has
  <2>3. i >= 1
    BY <1>9, <2>2
  <2> QED BY <1>5, <1>8, <2>2, <2>3
<1> QED BY <1>5, <1>6, <1>7, <1>10, RemoveJ

LEMMA LockWatchJ ==
  ASSUME JInv, NEW t \in Threads, LockWatch(t)
  PROVE  JSelf(t)
<1>1. pc[t] = "remove" /\ More(t) /\ UNCHANGED <<updates, watch, frames, pc, scan, steps, sleep, history>>
  BY DEF LockWatch
<1>2. IInv /\ TypeInv /\ ThreadInv(t) /\ FrameInv(t) /\ WatchInv(t)
  BY DEF JInv, IInv
<1>3. watch' = watch /\ frames' = frames /\ op' = op /\ level' = level /\ idx' = idx /\ ok' = ok /\ why' = why /\ inbox' = inbox /\ pc' = pc
  BY <1>1 DEF sleep, scan
<1>4. PICK chain, r, es, i, v : chain = trecs[t] /\ r = chain[1] /\ es = r.entries /\ i = idx[t] /\ v = value[Here(t).tvar]
  OBVIOUS
<1>5. level[t] = 1
  BY <1>1, <1>2 DEF ThreadInv, TypeInv, Operation, Resting, Working
<1>6. chain \in Chain /\ 1 \in 1..Len(chain) /\ es = Es(t) /\ DOMAIN es = 1..Len(es) /\ es \in Seq(EntryRec) /\ r \in TRec /\ i \in DOMAIN es
  <2>1. chain \in Chain /\ 1 \in 1..Len(chain) /\ es = Es(t) /\ r = Current(t)
    BY <1>1, <1>2, <1>4, <1>5, CurrentIs DEF TypeInv, Es, Current, Working
  <2>2. DOMAIN es = 1..Len(es) /\ es \in Seq(EntryRec) /\ r \in TRec
    BY <1>1, <1>2, <2>1, CurrentIs DEF Working
  <2>3. i \in DOMAIN es
    BY <1>1, <1>2, <1>4, <2>1, HereIs DEF Working
  <2> QED BY <2>1, <2>2, <2>3
<1>7. PICK e2, es2, r2, chain2 :
        /\ e2 = [es[i] EXCEPT !.new = v] /\ es2 = [es EXCEPT ![i] = e2] /\ r2 = [r EXCEPT !.entries = es2] /\ chain2 = [chain EXCEPT ![1] = r2]
  OBVIOUS
<1>8. trecs' = [trecs EXCEPT ![t] = chain2]
  <2>1. trecs' = [trecs EXCEPT ![t][1].entries[i].new = v]
    BY <1>4 DEF LockWatch
  <2>2. trecs' = [trecs EXCEPT ![t] = [chain EXCEPT ![1] = [r EXCEPT !.entries = [es EXCEPT ![i] = [es[i] EXCEPT !.new = v]]]]]
    BY <1>4, <2>1
  <2> QED BY <1>7, <2>2
<1>9. trecs'[t] = chain2
  BY <1>2, <1>8 DEF TypeInv
<1>10. e2.tvar = es[i].tvar
  <2>1. es[i] \in EntryRec
    BY <1>6
  <2> QED BY <1>7, <2>1 DEF EntryRec
<1>11. DOMAIN es2 = DOMAIN es /\ \A j \in DOMAIN es : es2[j].tvar = es[j].tvar
  <2>1. DOMAIN es2 = DOMAIN es /\ es2[i] = e2 /\ \A j \in DOMAIN es : j # i => es2[j] = es[j]
    BY <1>6, <1>7
  <2> QED BY <1>10, <2>1
<1>12. Len(chain2) = Len(chain) /\ chain2[1].entries = es2
  <2>1. r2.entries = es2
    BY <1>6, <1>7 DEF TRec
  <2>2. chain \in Seq(TRec)
    BY <1>6 DEF Chain
  <2>3. Len(chain2) = Len(chain) /\ chain2[1] = r2
    BY <1>6, <1>7, <2>2
  <2> QED BY <2>1, <2>3
<1>13. Es(t)' = es2
  BY <1>3, <1>5, <1>9, <1>12 DEF Es, Current
<1>14. FrameInv(t)'
  <2>1. Len(trecs'[t]) = Len(trecs[t])
    BY <1>4, <1>9, <1>12
  <2> QED BY <1>1, <1>2, <1>3, <2>1, FramesStay DEF FrameInv
<1>15. QueueEffect(t)
  BY <1>3 DEF QueueEffect
<1>16. ASSUME NEW s \in TVars, t \in watch'[s] PROVE \E j \in DOMAIN Es(t)' : j >= idx'[t] /\ Es(t)'[j].tvar = s
  <2>1. PICK j \in DOMAIN es : j >= idx[t] /\ es[j].tvar = s
    BY <1>1, <1>2, <1>3, <1>6, <1>16 DEF WatchInv, OnQueues
  <2> QED BY <1>3, <1>11, <1>13, <2>1
<1> QED BY <1>1, <1>3, <1>14, <1>15, <1>16, RemoveJ

LEMMA UnwatchJ ==
  ASSUME JInv, NEW t \in Threads, Unwatch(t)
  PROVE  JSelf(t)
<1>1. pc[t] = "remove" /\ More(t) /\ UNCHANGED <<updates, trecs, frames, op, level, steps, sleep, history>>
  BY DEF Unwatch
<1>2. IInv /\ TypeInv /\ FrameInv(t) /\ WatchInv(t)
  BY DEF JInv, IInv
<1>3. PICK s, i : s = Here(t).tvar /\ i = idx[t]
  OBVIOUS
<1>4. i \in DOMAIN Es(t) /\ i \in Nat /\ s \in TVars /\ s = Es(t)[i].tvar /\ DOMAIN Es(t) = 1..Len(Es(t))
  BY <1>1, <1>2, <1>3, HereIs, CurrentIs DEF Working
<1>5. watch' = [watch EXCEPT ![s] = watch[s] \ {t}] /\ idx'[t] = i + 1 /\ pc'[t] = "remove" /\ pc' = pc
  BY <1>1, <1>2, <1>3, <1>4 DEF Unwatch, Next1, Goto, TypeInv
<1>6. why' = why /\ inbox' = inbox /\ trecs' = trecs /\ frames' = frames /\ op' = op /\ level' = level
  BY <1>1 DEF sleep
<1>7. QueueEffect(t)
  BY <1>2, <1>4, <1>5, <1>6 DEF QueueEffect, TypeInv
<1>8. FrameInv(t)'
  BY <1>2, <1>5, <1>6 DEF FrameInv
<1>9. Es(t)' = Es(t)
  BY <1>6, SameRecords
<1>10. ASSUME NEW u \in TVars, t \in watch'[u] PROVE \E j \in DOMAIN Es(t)' : j >= idx'[t] /\ Es(t)'[j].tvar = u
  <2>1. u # s /\ t \in watch[u]
    BY <1>2, <1>4, <1>5, <1>10 DEF TypeInv
  <2>2. PICK j \in DOMAIN Es(t) : j >= idx[t] /\ Es(t)[j].tvar = u
    BY <1>1, <1>2, <2>1 DEF WatchInv, OnQueues
  <2>3. j # i /\ j \in Nat
    BY <1>4, <2>1, <2>2
  <2>4. j >= i + 1
    BY <1>3, <1>4, <2>2, <2>3
  <2> QED BY <1>5, <1>9, <2>2, <2>4
<1> QED BY <1>5, <1>7, <1>8, <1>10, RemoveJ

LEMMA ThreadJ ==
  ASSUME JInv, ~ ThroughOrElse, NEW t \in Threads, ThreadNext(t)
  PROVE  JSelf(t)
<1>1. CASE \/ Atomically(t) \/ Retry(t) \/ RetryFrame(t) \/ Raise(t) \/ RaiseFrame(t)
           \/ \E s \in TVars : ReadTVar(t, s) \/ \E v \in Values : WriteTVar(t, s, v)
           \/ \E f \in {"orElse", "catchSTM"} : Nest(t, f)
  BY <1>1, TransactionJ, OutwardsJ, RetryFrameJ, RaiseFrameJ, ReadWriteJ, NestJ
<1>2. CASE Return(t) \/ AtAtomically(t) \/ Preempt(t) \/ ReWait(t) \/ NextLevel(t)
  BY <1>2, StartJ
<1>3. CASE Lock(t) \/ Look(t) \/ Sample(t) \/ Reread(t) \/ Owned(t) \/ WaitUnlock(t) \/ Check(t)
  BY <1>3, AcquireJ, SampleJ, OwnedJ
<1>4. CASE Checked(t) \/ Bump(t) \/ Store(t) \/ Written(t) \/ Merge(t) \/ Merged(t)
  BY <1>4, CommitJ, BumpJ, TransactionJ, MergeJ, MergedJ
<1>5. CASE Revert(t) \/ Invalid(t) \/ InvalidNested(t) \/ Asleep(t) \/ StopWaiting(t) \/ Validated(t) \/ Raised(t)
  BY <1>5, RevertJ, TransactionJ, InvalidNestedJ, AsleepJ, LeavingJ, ValidatedJ
<1>6. CASE Deliver(t) \/ LockWatch(t) \/ Unwatch(t) \/ Removed(t) \/ Freeze(t)
  BY <1>6, DeliverJ, LockWatchJ, UnwatchJ, TransactionJ, LeavingJ
<1> QED BY <1>1, <1>2, <1>3, <1>4, <1>5, <1>6 DEF ThreadNext

LEMMA InitJ == Init => JInv
<1> SUFFICES ASSUME Init PROVE JInv
  OBVIOUS
<1>1. IInv
  BY InitI
<1>2. ASSUME NEW t \in Threads PROVE FrameInv(t) /\ WatchInv(t) /\ SleepInv(t) /\ StoreInv(t)
  <2>1. pc[t] = "out" /\ op[t] = "none" /\ trecs[t] = <<>> /\ frames[t] = <<>> /\ \A s \in TVars : watch[s] = {}
    BY <1>2 DEF Init
  <2> QED BY <2>1 DEF FrameInv, WatchInv, SleepInv, StoreInv, Unwoken, OnQueues
<1> QED BY <1>1, <1>2 DEF JInv

LEMMA NextJ == ~ ThroughOrElse /\ JInv /\ [Next]_stmVars => JInv'
<1> SUFFICES ASSUME ~ ThroughOrElse, JInv, [Next]_stmVars PROVE JInv'
  OBVIOUS
<1>1. CASE UNCHANGED stmVars
  <2>1. /\ value' = value /\ updates' = updates /\ watch' = watch /\ trecs' = trecs /\ frames' = frames /\ pc' = pc /\ op' = op
        /\ level' = level /\ idx' = idx /\ ok' = ok /\ why' = why /\ inbox' = inbox /\ snap' = snap
    BY <1>1 DEF stmVars, tvars, scan, sleep, history
  <2>2. IInv'
    BY NextI DEF JInv
  <2>3. ASSUME NEW t \in Threads PROVE FrameInv(t)' /\ WatchInv(t)' /\ SleepInv(t)' /\ StoreInv(t)'
    <3>1. /\ Es(t)' = Es(t) /\ Here(t)' = Here(t) /\ \A u : OnQueues(u)' = OnQueues(u) /\ Unwoken(u)' = Unwoken(u)
          /\ \A s : Under(s)' = Under(s)
      BY <2>1 DEF Es, Here, Current, OnQueues, Unwoken, Under, Entry
    <3>2. FrameInv(t)'
      BY <2>1, <2>3 DEF JInv, FrameInv
    <3>3. WatchInv(t)'
      BY <2>1, <2>3, <3>1 DEF JInv, WatchInv, Has
    <3>4. SleepInv(t)'
      BY <2>1, <2>3, <3>1 DEF JInv, SleepInv, Holds
    <3>5. StoreInv(t)'
      BY <2>1, <2>3, <3>1 DEF JInv, StoreInv, Has
    <3> QED BY <3>2, <3>3, <3>4, <3>5
  <2> QED BY <2>2, <2>3 DEF JInv
<1>2. ASSUME NEW t \in Threads, ThreadNext(t) PROVE JInv'
  <2>1. Kept(t)
    BY <1>2, ThreadI DEF JInv
  <2>2. JSelf(t)
    BY <1>2, ThreadJ
  <2> QED BY <2>1, <2>2, StepJ
<1> QED BY <1>1, <1>2 DEF Next

(* Frames, queues and sleepers, as long as no exception leaves an orElse to *)
(* be caught within the transaction: raiseExceptionHelper passes the frame *)
(* of the orElse and leaves its record, and the two no longer match.       *)
THEOREM RetryProtocol == ~ ThroughOrElse => (Spec => []JInv)
<1> SUFFICES ASSUME ~ ThroughOrElse PROVE Spec => []JInv
  OBVIOUS
<1>1. JInv /\ [Next]_stmVars => JInv'
  BY NextJ
<1> QED BY <1>1, InitJ, PTL DEF Spec

(* SleepersWatch: a thread that sleeps in a retry is on the watch queue of *)
(* every TVar it has read, and of no other; until a wake-up is sent to it  *)
(* they all are as it saw them; and who runs or is done is on no queue.    *)
THEOREM RetriesAreWoken == ~ ThroughOrElse => (Spec => []SleepersWatch)
<1> SUFFICES ASSUME ~ ThroughOrElse PROVE Spec => []SleepersWatch
  OBVIOUS
<1>1. JInv => SleepersWatch
  <2> SUFFICES ASSUME JInv PROVE Watched /\ NoLostRetry
    BY DEF SleepersWatch
  <2>1. NoLostRetry
    BY DEF JInv, SleepInv, Unwoken, OnQueues, NoLostRetry
  <2>2. ASSUME NEW t \in Threads, NEW s \in TVars
        PROVE  /\ pc[t] = "parked" => (t \in watch[s] <=> Has(trecs[t][1], s))
               /\ pc[t] \in {"run", "out"} => t \notin watch[s]
    BY <2>2 DEF JInv, WatchInv, OnQueues
  <2> QED BY <2>1, <2>2 DEF Watched
<1> QED BY <1>1, RetryProtocol, PTL

(* FramesMatch: a running transaction has a record for each of its frames, *)
(* whatever it nests, retries, throws, and however often it starts again.  *)
THEOREM FramesAndRecords == ~ ThroughOrElse => (Spec => []FramesMatch)
<1> SUFFICES ASSUME ~ ThroughOrElse PROVE Spec => []FramesMatch
  OBVIOUS
<1>1. JInv => FramesMatch
  <2> SUFFICES ASSUME JInv, NEW t \in Threads, pc[t] = "run" PROVE Len(frames[t]) = Len(trecs[t])
    BY DEF FramesMatch
  <2>1. FrameInv(t) /\ op[t] = "none"
    BY DEF JInv, IInv, ThreadInv, Resting
  <2> QED BY <2>1 DEF FrameInv
<1> QED BY <1>1, RetryProtocol, PTL

----------------------------------------------------------------------------
(* What the records of a nest say of the TVars, and the history of reads:  *)
(* they agree with one another and, unless a commit has failed, with all   *)
(* that was read; what a nested commit has merged is known around it.      *)
Pair(e) == <<e.tvar, e.expected>>
Reads(trec) == {Pair(trec.entries[i]) : i \in DOMAIN trec.entries}
AllReads(chain) == UNION {Reads(chain[k]) : k \in DOMAIN chain}
Agreeing(R) == \A a, b \in R : a[1] = b[1] => a[2] = b[2]
SeenInv(t) ==
  /\ Agreeing(AllReads(trecs[t]))
  /\ (op[t] = "commit" => ok[t]) => \A s \in DOMAIN seen[t] : <<s, seen[t][s]>> \in AllReads(trecs[t])
  /\ pc[t] = "merge" => \A i \in DOMAIN Es(t) : i < idx[t] => Pair(Es(t)[i]) \in AllReads(Front(trecs[t]))
  /\ pc[t] = "parked" \/ op[t] = "rewait" => Len(trecs[t]) = 1
KInv == JInv /\ DOMAIN seen = Threads /\ \A t \in Threads : SeenInv(t)

----------------------------------------------------------------------------
(* What a nest knows, after a change to one of its records.                *)

LEMMA ReadsIs ==
  ASSUME NEW chain \in Chain, NEW p
  PROVE  p \in AllReads(chain) <=> \E k \in 1..Len(chain) : p \in Reads(chain[k])
BY ChainIs DEF AllReads

LEMMA HasRead ==
  ASSUME NEW trec \in TRec, NEW s, Has(trec, s)
  PROVE  <<s, Entry(trec, s).expected>> \in Reads(trec)
BY EntryHas DEF Reads, Pair

LEMMA ReadHas ==
  ASSUME NEW trec, NEW p \in Reads(trec)
  PROVE  Has(trec, p[1])
BY DEF Reads, Pair, Has

LEMMA AppendReads ==
  ASSUME NEW chain \in Chain, NEW trec \in TRec, Distinct(trec)
  PROVE  AllReads(Append(chain, trec)) = AllReads(chain) \cup Reads(trec)
<1>1. PICK c, n : c = Append(chain, trec) /\ n = Len(chain)
  OBVIOUS
<1>2. c \in Chain /\ n \in Nat /\ Len(c) = n + 1 /\ c[n + 1] = trec /\ \A i \in 1..n : c[i] = chain[i]
  BY <1>1, AppendChain, ChainIs
<1>3. ASSUME NEW p PROVE p \in AllReads(c) <=> p \in AllReads(chain) \/ p \in Reads(trec)
  <2>1. p \in AllReads(c) <=> \E k \in 1..(n + 1) : p \in Reads(c[k])
    BY <1>2, ReadsIs
  <2>2. p \in AllReads(chain) <=> \E k \in 1..n : p \in Reads(chain[k])
    BY <1>1, ReadsIs
  <2>3. \A k \in 1..(n + 1) : k \in 1..n \/ k = n + 1
    BY <1>2
  <2>4. n + 1 \in 1..(n + 1) /\ \A k \in 1..n : k \in 1..(n + 1)
    BY <1>2
  <2> QED BY <1>2, <2>1, <2>2, <2>3, <2>4
<1> QED BY <1>1, <1>3

LEMMA NewReads ==
  ASSUME NEW chain \in Chain, NEW state \in State
  PROVE  AllReads(Append(chain, NewTRec(state))) = AllReads(chain)
<1>1. PICK r : r = NewTRec(state)
  OBVIOUS
<1>2. r \in TRec /\ Distinct(r) /\ r.entries = <<>>
  BY <1>1, NewTRecIs DEF State
<1>3. Reads(r) = {}
  BY <1>2 DEF Reads
<1> QED BY <1>1, <1>2, <1>3, AppendReads

LEMMA FrontReads ==
  ASSUME NEW chain \in Chain, Len(chain) >= 1
  PROVE  AllReads(chain) = AllReads(Front(chain)) \cup Reads(Last(chain))
<1>1. PICK c, n : c = Front(chain) /\ n = Len(chain)
  OBVIOUS
<1>2. n \in Nat /\ n >= 1 /\ c \in Chain /\ Len(c) = n - 1 /\ Last(chain) = chain[n] /\ \A i \in 1..(n - 1) : c[i] = chain[i]
  BY <1>1, FrontChain, FrontIs, ChainIs
<1>3. ASSUME NEW p PROVE p \in AllReads(chain) <=> p \in AllReads(c) \/ p \in Reads(chain[n])
  <2>1. p \in AllReads(c) <=> \E k \in 1..(n - 1) : p \in Reads(c[k])
    BY <1>2, ReadsIs
  <2>2. p \in AllReads(chain) <=> \E k \in 1..n : p \in Reads(chain[k])
    BY <1>1, ReadsIs
  <2>3. n \in 1..n /\ (\A k \in 1..n : k \in 1..(n - 1) \/ k = n) /\ \A k \in 1..(n - 1) : k \in 1..n
    BY <1>2
  <2> QED BY <1>2, <2>1, <2>2, <2>3
<1> QED BY <1>1, <1>2, <1>3

LEMMA SetReads ==
  ASSUME NEW chain \in Chain, NEW k \in 1..Len(chain), NEW trec \in TRec, Distinct(trec), NEW P,
         Reads(trec) = Reads(chain[k]) \cup P
  PROVE  AllReads([chain EXCEPT ![k] = trec]) = AllReads(chain) \cup P
<1>1. PICK c : c = [chain EXCEPT ![k] = trec]
  OBVIOUS
<1>2. c \in Chain /\ Len(c) = Len(chain) /\ DOMAIN chain = 1..Len(chain)
  BY <1>1, SetChain, ChainIs
<1>3. c[k] = trec /\ \A j \in 1..Len(chain) : j # k => c[j] = chain[j]
  BY <1>1, <1>2
<1>4. ASSUME NEW p PROVE p \in AllReads(c) <=> p \in AllReads(chain) \/ p \in P
  <2>1. p \in AllReads(c) <=> \E j \in 1..Len(chain) : p \in Reads(c[j])
    BY <1>2, ReadsIs
  <2>2. p \in AllReads(chain) <=> \E j \in 1..Len(chain) : p \in Reads(chain[j])
    BY ReadsIs
  <2>3. \A j \in 1..Len(chain) : p \in Reads(c[j]) <=> p \in Reads(chain[j]) \/ (j = k /\ p \in P)
    BY <1>3
  <2> QED BY <2>1, <2>2, <2>3
<1> QED BY <1>1, <1>4

LEMMA AgreeSub == ASSUME NEW R, NEW S, R \subseteq S, Agreeing(S) PROVE Agreeing(R)
BY DEF Agreeing

(* An operation of the body adds what it found, or changes an entry that   *)
(* says the same.                                                          *)
LEMMA PutReads ==
  ASSUME TypeInv, NEW t \in Threads, Len(trecs[t]) >= 1, NEW s, NEW e \in EntryRec, e.tvar = s, Put(t, s, e),
         Has(Inner(t), s) => Entry(Inner(t), s).expected = e.expected
  PROVE  AllReads(trecs'[t]) = AllReads(trecs[t]) \cup {Pair(e)}
<1>1. PICK chain, n, r : chain = trecs[t] /\ n = Len(chain) /\ r = chain[n]
  OBVIOUS
<1>2. /\ chain \in Chain /\ n \in 1..Len(chain) /\ r \in TRec /\ Distinct(r) /\ r = Inner(t)
      /\ r.entries \in Seq(EntryRec) /\ Len(r.entries) \in Nat /\ DOMAIN r.entries = 1..Len(r.entries)
  <2>1. chain \in Chain /\ Len(chain) \in Nat
    BY <1>1, ChainIs DEF TypeInv
  <2>2. n \in 1..Len(chain)
    BY <1>1, <2>1
  <2> QED BY <1>1, <2>1, <2>2, ChainIs DEF Inner, Last
<1> DEFINE q == IF Has(r, s) THEN [j \in DOMAIN r.entries |-> IF r.entries[j].tvar = s THEN e ELSE r.entries[j]]
                ELSE Append(r.entries, e)
           new == [entries |-> q, state |-> r.state]
<1>3. new \in TRec /\ Distinct(new) /\ Reads(new) = Reads(r) \cup {Pair(e)}
  <2>1. r.state \in State
    BY <1>2 DEF TRec, State
  <2>2. CASE Has(r, s)
    <3>1. PICK es : es = r.entries
      OBVIOUS
    <3>2. q = [j \in 1..Len(es) |-> IF es[j].tvar = s THEN e ELSE es[j]] /\ Len(es) \in Nat /\ es \in Seq(EntryRec)
      BY <1>2, <2>2, <3>1
    <3> HIDE DEF q
    <3>3. q \in Seq(EntryRec) /\ Len(q) = Len(es) /\ \A j \in 1..Len(q) : q[j].tvar = es[j].tvar
      BY <3>2
    <3>4. new \in TRec /\ Distinct(new)
      BY <1>2, <2>1, <3>1, <3>3, SameTVars
    <3>5. \A j \in 1..Len(es) : es[j].tvar = s => es[j].expected = e.expected
      BY <1>2, <2>2, <3>1, EntryIs
    <3>6. \A j \in 1..Len(es) : Pair(q[j]) = Pair(es[j])
      BY <3>2, <3>5 DEF Pair
    <3>7. DOMAIN q = 1..Len(es) /\ DOMAIN es = 1..Len(es)
      BY <1>2, <3>1, <3>2
    <3>8. Reads(r) = {Pair(es[j]) : j \in 1..Len(es)} /\ Reads(new) = {Pair(q[j]) : j \in 1..Len(es)}
      BY <3>1, <3>7 DEF Reads
    <3>9. PICK j \in 1..Len(es) : es[j].tvar = s
      BY <2>2, <3>1, <3>7 DEF Has
    <3>10. Pair(e) = Pair(es[j])
      BY <3>5, <3>9 DEF Pair
    <3> QED BY <3>4, <3>6, <3>8, <3>10
  <2>3. CASE ~ Has(r, s)
    <3>1. PICK es, m : es = r.entries /\ m = Len(es)
      OBVIOUS
    <3>2. q = Append(es, e) /\ m \in Nat /\ es \in Seq(EntryRec)
      BY <1>2, <2>3, <3>1
    <3>3. new \in TRec /\ Distinct(new)
      BY <1>2, <2>1, <2>3, TVarMore
    <3>4. DOMAIN q = 1..(m + 1) /\ DOMAIN es = 1..m /\ q[m + 1] = e /\ \A i \in 1..m : q[i] = es[i]
      BY <3>1, <3>2, AppendProperties
    <3>5. Reads(r) = {Pair(es[j]) : j \in 1..m} /\ Reads(new) = {Pair(q[j]) : j \in 1..(m + 1)}
      BY <3>1, <3>4 DEF Reads
    <3> HIDE DEF q
    <3>6. (\A k \in 1..(m + 1) : k \in 1..m \/ k = m + 1) /\ m + 1 \in 1..(m + 1) /\ \A k \in 1..m : k \in 1..(m + 1)
      BY <3>2
    <3>7. \A p : p \in Reads(new) <=> p \in Reads(r) \/ p = Pair(e)
      BY <3>4, <3>5, <3>6
    <3> QED BY <3>3, <3>7
  <2> QED BY <2>2, <2>3
<1>4. trecs' = [trecs EXCEPT ![t] = [chain EXCEPT ![n] = new]]
  <2>1. trecs' = [trecs EXCEPT ![t][n].entries = q]
    BY <1>1, <1>2 DEF Put
  <2>2. [r EXCEPT !.entries = q] = new
    <3>1. PICK es, st : r = [entries |-> es, state |-> st]
      BY <1>2 DEF TRec
    <3> HIDE DEF q
    <3>2. [r EXCEPT !.entries = q] = [entries |-> q, state |-> st] /\ r.state = st
      BY <3>1
    <3> QED BY <3>2
  <2> HIDE DEF q, new
  <2>3. trecs' = [trecs EXCEPT ![t] = [chain EXCEPT ![n] = [r EXCEPT !.entries = q]]]
    BY <1>1, <2>1
  <2> QED BY <2>2, <2>3
<1> HIDE DEF new
<1>5. AllReads([chain EXCEPT ![n] = new]) = AllReads(chain) \cup {Pair(e)}
  <2>1. PICK P : P = {Pair(e)}
    OBVIOUS
  <2>2. Reads(new) = Reads(chain[n]) \cup P
    BY <1>1, <1>3, <2>1
  <2>3. AllReads([chain EXCEPT ![n] = new]) = AllReads(chain) \cup P
    BY <1>2, <1>3, <2>2, SetReads
  <2> QED BY <2>1, <2>3
<1>6. trecs'[t] = [chain EXCEPT ![n] = new]
  BY <1>4 DEF TypeInv
<1> QED BY <1>1, <1>5, <1>6

(* merge_update_into, of an entry that the nest agrees with.               *)
LEMMA MergeUpdateReads ==
  ASSUME NEW chain \in Chain, Len(chain) >= 1, NEW e \in EntryRec,
         Has(Last(chain), e.tvar) => Entry(Last(chain), e.tvar).expected = e.expected
  PROVE  AllReads(MergeUpdate(chain, e)) = AllReads(chain) \cup {Pair(e)}
<1>1. PICK n, r : n = Len(chain) /\ r = chain[n]
  OBVIOUS
<1>2. /\ n \in 1..Len(chain) /\ r \in TRec /\ Distinct(r) /\ r = Last(chain)
      /\ r.entries \in Seq(EntryRec) /\ Len(r.entries) \in Nat /\ DOMAIN r.entries = 1..Len(r.entries)
  <2>1. Len(chain) \in Nat
    BY ChainIs
  <2>2. n \in 1..Len(chain)
    BY <1>1, <2>1
  <2> QED BY <1>1, <2>1, <2>2, ChainIs DEF Last
<1> DEFINE set == [j \in DOMAIN r.entries |-> IF r.entries[j].tvar = e.tvar THEN [r.entries[j] EXCEPT !.new = e.new] ELSE r.entries[j]]
           ne == NewEntry(e.tvar, e.expected, e.new)
<1>3. PICK state \in State : state = IF Has(r, e.tvar) /\ Entry(r, e.tvar).expected # e.expected THEN "condemned" ELSE r.state
  BY <1>2 DEF TRec, State
<1> HIDE DEF set, ne
<1>4. MergeUpdate(chain, e) = [chain EXCEPT ![n] = [entries |-> IF Has(r, e.tvar) THEN set ELSE Append(set, ne), state |-> state]]
  BY <1>1, <1>2, <1>3 DEF MergeUpdate, set, ne
<1>5. PICK fs : fs = IF Has(r, e.tvar) THEN set ELSE Append(set, ne)
  OBVIOUS
<1>6. PICK new : new = [entries |-> fs, state |-> state]
  OBVIOUS
<1>7. MergeUpdate(chain, e) = [chain EXCEPT ![n] = new]
  BY <1>4, <1>5, <1>6
<1>8. CASE Has(r, e.tvar)
  <2>1. PICK es : es = r.entries
    OBVIOUS
  <2>2. set = [j \in 1..Len(es) |-> IF es[j].tvar = e.tvar THEN [es[j] EXCEPT !.new = e.new] ELSE es[j]] /\ Len(es) \in Nat /\ es \in Seq(EntryRec)
    BY <1>2, <2>1 DEF set
  <2>3. \A j \in 1..Len(es) : es[j] \in EntryRec /\ [es[j] EXCEPT !.new = e.new] \in EntryRec
                              /\ [es[j] EXCEPT !.new = e.new].tvar = es[j].tvar /\ Pair([es[j] EXCEPT !.new = e.new]) = Pair(es[j])
    <3> SUFFICES ASSUME NEW j \in 1..Len(es)
                 PROVE  es[j] \in EntryRec /\ [es[j] EXCEPT !.new = e.new] \in EntryRec
                        /\ [es[j] EXCEPT !.new = e.new].tvar = es[j].tvar /\ Pair([es[j] EXCEPT !.new = e.new]) = Pair(es[j])
      OBVIOUS
    <3>1. es[j] \in EntryRec
      BY <2>2
    <3> QED BY <3>1 DEF EntryRec, Pair
  <2>4. set \in Seq(EntryRec) /\ Len(set) = Len(es) /\ \A j \in 1..Len(set) : set[j].tvar = es[j].tvar
    BY <2>2, <2>3
  <2>5. fs = set
    BY <1>5, <1>8
  <2>6. new \in TRec /\ Distinct(new)
    BY <1>2, <1>6, <2>1, <2>4, <2>5, SameTVars
  <2>7. \A j \in 1..Len(es) : Pair(set[j]) = Pair(es[j])
    BY <2>2, <2>3
  <2>8. DOMAIN set = 1..Len(es) /\ DOMAIN es = 1..Len(es)
    BY <2>2
  <2>9. Reads(r) = {Pair(es[j]) : j \in 1..Len(es)} /\ Reads(new) = {Pair(set[j]) : j \in 1..Len(es)}
    BY <1>6, <2>1, <2>5, <2>8 DEF Reads
  <2>10. Reads(new) = Reads(r)
    BY <2>7, <2>9
  <2>11. Pair(e) \in Reads(r)
    <3>1. <<e.tvar, Entry(r, e.tvar).expected>> \in Reads(r)
      BY <1>2, <1>8, HasRead
    <3> QED BY <1>2, <1>8, <3>1 DEF Pair
  <2>12. PICK P : P = {Pair(e)}
    OBVIOUS
  <2>13. Reads(new) = Reads(chain[n]) \cup P
    BY <1>1, <2>10, <2>11, <2>12
  <2>14. AllReads([chain EXCEPT ![n] = new]) = AllReads(chain) \cup P
    BY <1>2, <2>6, <2>13, SetReads
  <2> QED BY <1>7, <2>12, <2>14
<1>9. CASE ~ Has(r, e.tvar)
  <2>1. \A j \in DOMAIN r.entries : r.entries[j].tvar # e.tvar
    BY <1>9 DEF Has
  <2>2. set = r.entries
    BY <1>2, <2>1 DEF set
  <2>3. ne \in EntryRec /\ ne.tvar = e.tvar /\ Pair(ne) = Pair(e)
    <3>1. e.tvar \in TVars /\ e.expected \in Values /\ e.new \in Values
      BY DEF EntryRec
    <3> QED BY <3>1, NewEntryIs DEF ne, Pair
  <2>4. fs = Append(r.entries, ne)
    BY <1>5, <1>9, <2>2
  <2>5. new \in TRec /\ Distinct(new)
    BY <1>2, <1>6, <1>9, <2>3, <2>4, TVarMore
  <2>6. PICK es, m : es = r.entries /\ m = Len(es)
    OBVIOUS
  <2>7. fs = Append(es, ne) /\ m \in Nat /\ es \in Seq(EntryRec)
    BY <1>2, <2>4, <2>6
  <2>8. DOMAIN fs = 1..(m + 1) /\ DOMAIN es = 1..m /\ fs[m + 1] = ne /\ \A i \in 1..m : fs[i] = es[i]
    BY <2>3, <2>6, <2>7, AppendProperties
  <2>9. Reads(r) = {Pair(es[j]) : j \in 1..m} /\ Reads(new) = {Pair(fs[j]) : j \in 1..(m + 1)}
    BY <1>6, <2>6, <2>8 DEF Reads
  <2>10. (\A k \in 1..(m + 1) : k \in 1..m \/ k = m + 1) /\ m + 1 \in 1..(m + 1) /\ \A k \in 1..m : k \in 1..(m + 1)
    BY <2>7
  <2>11. \A p : p \in Reads(new) <=> p \in Reads(r) \/ p = Pair(e)
    BY <2>3, <2>8, <2>9, <2>10
  <2>12. PICK P : P = {Pair(e)}
    OBVIOUS
  <2>13. Reads(new) = Reads(chain[n]) \cup P
    BY <1>1, <2>11, <2>12
  <2>14. AllReads([chain EXCEPT ![n] = new]) = AllReads(chain) \cup P
    BY <1>2, <2>5, <2>13, SetReads
  <2> QED BY <1>7, <2>12, <2>14
<1> QED BY <1>8, <1>9

LEMMA SameReads ==
  ASSUME NEW chain \in Chain, NEW c \in Chain, Len(c) = Len(chain), \A k \in 1..Len(chain) : Reads(c[k]) = Reads(chain[k])
  PROVE  AllReads(c) = AllReads(chain)
<1>1. \A p : p \in AllReads(c) <=> p \in AllReads(chain)
  BY ReadsIs
<1> QED BY <1>1

(* merge_read_into and merge_update_into lose no read.                     *)
LEMMA MergeReadsReads ==
  ASSUME NEW outer \in Chain, Len(outer) >= 1, NEW inner \in TRec, Distinct(inner), NEW r \in MergeReads(outer, inner.entries)
  PROVE  AllReads(r) = AllReads(outer) \cup {Pair(inner.entries[i]) : i \in Unknown(outer, inner.entries)}
<1>1. PICK es \in Seq(EntryRec) : es = inner.entries /\ \A i, j \in DOMAIN es : es[i].tvar = es[j].tvar => i = j
  BY DEF TRec, Distinct
<1>2. PICK U, m : U = Unknown(outer, es) /\ m = Cardinality(U)
  OBVIOUS
<1>3. U \subseteq 1..Len(es) /\ Len(es) \in Nat /\ m \in Nat /\ IsFiniteSet(U)
  <2>1. U \subseteq 1..Len(es) /\ Len(es) \in Nat
    BY <1>2 DEF Unknown
  <2>2. IsFiniteSet(1..Len(es))
    BY <2>1, FS_Interval
  <2>3. IsFiniteSet(U)
    BY <2>1, <2>2, FS_Subset
  <2> QED BY <1>2, <2>1, <2>3, FS_CardinalityType
<1>4. PICK q \in [1..m -> U] :
        /\ \A i, j \in 1..m : i # j => q[i] # q[j]
        /\ r = [k \in DOMAIN outer |->
                 [entries |-> outer[k].entries \o
                                (IF k = Len(outer)
                                 THEN [n \in DOMAIN q |-> NewEntry(es[q[n]].tvar, es[q[n]].expected, es[q[n]].expected)]
                                 ELSE <<>>),
                  state   |-> IF Clash(outer, es, k) THEN "condemned" ELSE outer[k].state]]
  <2>1. PICK q \in SetToSeqs(U) : r = [k \in DOMAIN outer |->
                 [entries |-> outer[k].entries \o
                                (IF k = Len(outer)
                                 THEN [n \in DOMAIN q |-> NewEntry(es[q[n]].tvar, es[q[n]].expected, es[q[n]].expected)]
                                 ELSE <<>>),
                  state   |-> IF Clash(outer, es, k) THEN "condemned" ELSE outer[k].state]]
    <3>1. r \in MergeReads(outer, es)
      BY <1>1
    <3> QED BY <1>2, <3>1, Zenon DEF MergeReads
  <2>2. q \in [1..m -> U] /\ \A i, j \in 1..m : i # j => q[i] # q[j]
    BY <1>2 DEF SetToSeqs
  <2> QED BY <2>1, <2>2
<1>5. \A i \in U : \E n \in 1..m : q[n] = i
  <2>1. q \in Injection(1..m, U)
    BY <1>4 DEF Injection, IsInjective
  <2>2. Cardinality(1..m) = m
    BY <1>3, FS_Interval
  <2>3. q \in Surjection(1..m, U)
    BY <1>2, <1>3, <2>1, <2>2, FS_Injection
  <2> QED BY <2>3 DEF Surjection
<1>6. PICK x : x = [n \in 1..m |-> NewEntry(es[q[n]].tvar, es[q[n]].expected, es[q[n]].expected)]
  OBVIOUS
<1>7. \A n \in 1..m : q[n] \in U /\ x[n] \in EntryRec /\ Pair(x[n]) = Pair(es[q[n]])
  <2> SUFFICES ASSUME NEW n \in 1..m PROVE q[n] \in U /\ x[n] \in EntryRec /\ Pair(x[n]) = Pair(es[q[n]])
    OBVIOUS
  <2>1. q[n] \in U /\ q[n] \in 1..Len(es)
    BY <1>3
  <2>2. es[q[n]] \in EntryRec
    BY <2>1
  <2>3. es[q[n]].tvar \in TVars /\ es[q[n]].expected \in Values
    BY <2>2 DEF EntryRec
  <2>4. x[n] = NewEntry(es[q[n]].tvar, es[q[n]].expected, es[q[n]].expected)
    BY <1>6
  <2> QED BY <2>1, <2>3, <2>4, NewEntryIs DEF Pair
<1>8. x \in Seq(EntryRec) /\ DOMAIN x = 1..m
  BY <1>3, <1>6, <1>7
<1>9. Len(outer) \in Nat /\ DOMAIN outer = 1..Len(outer) /\ r \in Chain /\ Len(r) = Len(outer)
  BY ChainIs, MergeReadsIs
<1>10. ASSUME NEW k \in 1..Len(outer) PROVE r[k].entries = outer[k].entries \o (IF k = Len(outer) THEN x ELSE <<>>)
  <2>1. DOMAIN q = 1..m
    OBVIOUS
  <2> QED BY <1>4, <1>6, <1>9, <2>1
<1>11. ASSUME NEW k \in 1..Len(outer), k # Len(outer) PROVE Reads(r[k]) = Reads(outer[k])
  <2>1. PICK fs \in Seq(EntryRec) : fs = outer[k].entries
    BY ChainIs
  <2>2. fs \o <<>> = fs
    OBVIOUS
  <2>3. r[k].entries = fs \o <<>>
    BY <1>10, <1>11, <2>1
  <2>4. r[k].entries = outer[k].entries
    BY <2>1, <2>2, <2>3
  <2> QED BY <2>4 DEF Reads
<1>12. PICK l : l = Len(outer)
  OBVIOUS
<1>13. l \in 1..l /\ l \in 1..Len(outer)
  BY <1>9, <1>12
<1>14. \A p : p \in Reads(r[l]) <=> p \in Reads(outer[l]) \/ \E n \in 1..m : p = Pair(x[n])
  <2>1. PICK fs, n, g : fs \in Seq(EntryRec) /\ fs = outer[l].entries /\ n = Len(fs) /\ g = fs \o x
    BY <1>13, ChainIs
  <2>2. r[l].entries = g
    BY <1>10, <1>12, <1>13, <2>1
  <2>3. /\ n \in Nat /\ DOMAIN fs = 1..n /\ DOMAIN g = 1..(n + m)
        /\ \A i \in 1..n : g[i] = fs[i]
        /\ \A i \in 1..m : g[n + i] = x[i]
    <3>1. /\ fs \o x \in Seq(EntryRec) /\ Len(fs \o x) = Len(fs) + Len(x)
          /\ \A i \in 1..(Len(fs) + Len(x)) : (fs \o x)[i] = IF i <= Len(fs) THEN fs[i] ELSE x[i - Len(fs)]
      BY <1>8, <2>1, ConcatProperties
    <3>2. Len(x) = m /\ n \in Nat
      BY <1>3, <1>8, <2>1
    <3>3. g \in Seq(EntryRec) /\ Len(g) = n + m /\ \A i \in 1..(n + m) : g[i] = IF i <= n THEN fs[i] ELSE x[i - n]
      BY <2>1, <3>1, <3>2
    <3>4. \A i \in 1..n : i \in 1..(n + m) /\ i <= n
      BY <1>3, <3>2
    <3>5. \A i \in 1..m : n + i \in 1..(n + m) /\ ~ (n + i <= n) /\ (n + i) - n = i
      BY <1>3, <3>2
    <3> QED BY <2>1, <3>2, <3>3, <3>4, <3>5
  <2>4. Reads(r[l]) = {Pair(g[i]) : i \in 1..(n + m)} /\ Reads(outer[l]) = {Pair(fs[i]) : i \in 1..n}
    BY <2>1, <2>2, <2>3 DEF Reads
  <2>5. ASSUME NEW p, p \in Reads(r[l]) PROVE p \in Reads(outer[l]) \/ \E i \in 1..m : p = Pair(x[i])
    <3>1. PICK i \in 1..(n + m) : p = Pair(g[i])
      BY <2>4, <2>5
    <3>2. CASE i \in 1..n
      BY <2>3, <2>4, <3>1, <3>2
    <3>3. CASE i \notin 1..n
      <4>1. PICK a \in 1..m : i = n + a
        BY <1>3, <2>3, <3>3, PastEnd
      <4> QED BY <2>3, <3>1, <4>1
    <3> QED BY <3>2, <3>3
  <2>6. \A i \in 1..n : i \in 1..(n + m)
    BY <1>3, <2>3
  <2>7. \A i \in 1..m : n + i \in 1..(n + m)
    BY <1>3, <2>3
  <2> QED BY <2>3, <2>4, <2>5, <2>6, <2>7
<1>15. \A p : (\E n \in 1..m : p = Pair(x[n])) <=> \E i \in U : p = Pair(es[i])
  BY <1>5, <1>7
<1>16. \A p : p \in AllReads(r) <=> p \in AllReads(outer) \/ \E i \in U : p = Pair(es[i])
  <2> SUFFICES ASSUME NEW p PROVE p \in AllReads(r) <=> p \in AllReads(outer) \/ \E i \in U : p = Pair(es[i])
    OBVIOUS
  <2>1. p \in AllReads(r) <=> \E k \in 1..l : p \in Reads(r[k])
    BY <1>9, <1>12, ReadsIs
  <2>2. p \in AllReads(outer) <=> \E k \in 1..l : p \in Reads(outer[k])
    BY <1>12, ReadsIs
  <2>3. \A k \in 1..l : k # l => (p \in Reads(r[k]) <=> p \in Reads(outer[k]))
    BY <1>11, <1>12
  <2>4. p \in Reads(r[l]) <=> p \in Reads(outer[l]) \/ \E i \in U : p = Pair(es[i])
    BY <1>14, <1>15
  <2> QED BY <1>13, <2>1, <2>2, <2>3, <2>4
<1> QED BY <1>1, <1>2, <1>16

LEMMA AbortReads ==
  ASSUME NEW chain \in Chain, Len(chain) >= 2, Agreeing(AllReads(chain)), NEW r \in Abort(chain)
  PROVE  AllReads(r) = AllReads(chain)
<1>1. PICK outer, inner, es : outer = Front(chain) /\ inner = Last(chain) /\ es = inner.entries
  OBVIOUS
<1>2. outer \in Chain /\ Len(outer) >= 1 /\ inner \in TRec /\ Distinct(inner) /\ r \in MergeReads(outer, es)
  <2>1. Len(chain) \in Nat
    BY ChainIs
  <2> QED BY <1>1, <2>1, FrontChain DEF Abort
<1>3. AllReads(chain) = AllReads(outer) \cup Reads(inner)
  <2>1. Len(chain) >= 1
    BY ChainIs
  <2> QED BY <1>1, <2>1, FrontReads
<1>4. AllReads(r) = AllReads(outer) \cup {Pair(es[i]) : i \in Unknown(outer, es)}
  BY <1>1, <1>2, MergeReadsReads
<1>5. ASSUME NEW i \in DOMAIN es, i \notin Unknown(outer, es) PROVE Pair(es[i]) \in AllReads(outer)
  <2>1. PICK k \in 1..Len(outer) : Has(outer[k], es[i].tvar)
    BY <1>2, <1>5, ChainIs DEF Unknown, Holders
  <2>2. PICK v : <<es[i].tvar, v>> \in Reads(outer[k])
    BY <1>2, <2>1, HasRead, ChainIs
  <2>3. <<es[i].tvar, v>> \in AllReads(outer)
    BY <1>2, <2>2, ReadsIs
  <2>4. Pair(es[i]) \in Reads(inner)
    BY <1>1 DEF Reads
  <2>5. v = es[i].expected
    <3>1. <<es[i].tvar, v>> \in AllReads(chain) /\ <<es[i].tvar, es[i].expected>> \in AllReads(chain)
      BY <1>3, <2>3, <2>4 DEF Pair
    <3> QED BY <3>1 DEF Agreeing
  <2> QED BY <2>3, <2>5 DEF Pair
<1>6. Unknown(outer, es) \subseteq DOMAIN es
  BY DEF Unknown
<1>7. Reads(inner) = {Pair(es[i]) : i \in DOMAIN es}
  BY <1>1 DEF Reads
<1>8. \A p : p \in AllReads(r) <=> p \in AllReads(chain)
  BY <1>3, <1>4, <1>5, <1>6, <1>7
<1> QED BY <1>8

----------------------------------------------------------------------------
(* One thread's step, and what it does to what it knows.                   *)

KSelf(t) == SeenInv(t)' /\ DOMAIN seen' = Threads /\ \A u \in Threads \ {t} : seen'[u] = seen[u]

LEMMA StepK ==
  ASSUME KInv, NEW t \in Threads, Kept(t), JInv', KSelf(t)
  PROVE  KInv'
<1>1. ASSUME NEW u \in Threads PROVE SeenInv(u)'
  <2>1. CASE u = t
    BY <2>1 DEF KSelf
  <2>2. CASE u # t
    <3>1. /\ trecs'[u] = trecs[u] /\ pc'[u] = pc[u] /\ op'[u] = op[u] /\ level'[u] = level[u]
          /\ idx'[u] = idx[u] /\ ok'[u] = ok[u] /\ seen'[u] = seen[u]
      BY <2>2 DEF Kept, Effect, Elsewhere, KSelf
    <3>2. SeenInv(u) /\ Es(u)' = Es(u)
      BY <3>1 DEF KInv, Es, Current
    <3> QED BY <3>1, <3>2 DEF SeenInv
  <2> QED BY <2>1, <2>2
<1> QED BY <1>1 DEF KInv, KSelf

LEMMA KIs ==
  ASSUME KInv, NEW t \in Threads
  PROVE  /\ JInv /\ IInv /\ TypeInv /\ ThreadInv(t) /\ FrameInv(t) /\ SeenInv(t) /\ DOMAIN seen = Threads
         /\ (op[t] = "commit" /\ ~ ok[t] => pc[t] = "revert")
<1>1. JInv /\ IInv /\ TypeInv /\ ThreadInv(t) /\ FrameInv(t) /\ SeenInv(t) /\ DOMAIN seen = Threads
  BY DEF KInv, JInv, IInv
<1>2. ASSUME op[t] = "commit", ~ ok[t] PROVE pc[t] = "revert"
  BY <1>1, <1>2 DEF ThreadInv, Working, Resting
<1> QED BY <1>1, <1>2

(* The records know what they knew, and no other has been read.            *)
LEMMA StayK ==
  ASSUME KInv, NEW t \in Threads, seen' = seen, AllReads(trecs'[t]) = AllReads(trecs[t]),
         op[t] = "commit" /\ pc[t] = "revert" => op'[t] = op[t] /\ ok'[t] = ok[t],
         pc'[t] = "merge" => pc[t] = "check" /\ idx'[t] = 1 /\ Es(t)' = Es(t),
         pc'[t] = "parked" \/ op'[t] = "rewait" =>
           Len(trecs'[t]) = Len(trecs[t]) /\ (pc[t] = "parked" \/ op[t] \in {"rewait", "wait"})
  PROVE  KSelf(t)
<1>1. SeenInv(t) /\ FrameInv(t) /\ DOMAIN seen = Threads /\ IInv /\ (op[t] = "commit" /\ ~ ok[t] => pc[t] = "revert")
  BY KIs
<1>2. pc'[t] = "merge" => \A i \in DOMAIN Es(t)' : ~ (i < idx'[t])
  <2> SUFFICES ASSUME pc'[t] = "merge" PROVE \A i \in DOMAIN Es(t) : ~ (i < 1)
    OBVIOUS
  <2>1. DOMAIN Es(t) = 1..Len(Es(t))
    BY <1>1, CurrentIs DEF Working
  <2> QED BY <2>1
<1>3. pc'[t] = "parked" \/ op'[t] = "rewait" => Len(trecs'[t]) = 1
  BY <1>1 DEF SeenInv, FrameInv
<1> QED BY <1>1, <1>2, <1>3 DEF SeenInv, KSelf

LEMMA TransactionK ==
  ASSUME KInv, NEW t \in Threads,
         \/ Atomically(t) \/ Written(t) \/ Invalid(t) \/ Raised(t) \/ Removed(t)
         \/ (Freeze(t) /\ pc[t] # "parked")
  PROVE  KSelf(t)
<1>1. TypeInv /\ DOMAIN seen = Threads
  BY KIs
<1>2. Restart(t) \/ Stop(t)
  BY DEF Atomically, Written, Invalid, Raised, Removed, Freeze
<1>3. PICK chain, l :
        /\ trecs' = [trecs EXCEPT ![t] = chain] /\ seen' = [seen EXCEPT ![t] = <<>>]
        /\ op' = [op EXCEPT ![t] = "none"] /\ pc' = [pc EXCEPT ![t] = l]
        /\ chain = <<NewTRec("active")>> \/ chain = <<>>
        /\ l \in {"run", "out"}
  BY <1>2 DEF Restart, Stop, Reset, Idle, Goto
<1>4. trecs'[t] = chain /\ op'[t] = "none" /\ pc'[t] = l /\ seen'[t] = <<>>
  BY <1>1, <1>3 DEF TypeInv
<1>5. AllReads(chain) = {}
  <2>1. Reads(NewTRec("active")) = {}
    BY NewTRecIs DEF Reads
  <2>2. CASE chain = <<>>
    BY <2>2 DEF AllReads
  <2>3. CASE chain = <<NewTRec("active")>>
    <3>1. PICK r : r = NewTRec("active")
      OBVIOUS
    <3>2. chain = <<r>> /\ DOMAIN <<r>> = {1} /\ <<r>>[1] = r
      BY <2>3, <3>1
    <3> QED BY <2>1, <3>1, <3>2 DEF AllReads
  <2> QED BY <1>3, <2>2, <2>3
<1>6. SeenInv(t)'
  <2>1. DOMAIN seen'[t] = {}
    BY <1>4
  <2> QED BY <1>3, <1>4, <1>5, <2>1 DEF SeenInv, Agreeing
<1> QED BY <1>1, <1>3, <1>6 DEF KSelf

(* A read or a write finds what the nest says, or a TVar it says nothing of. *)
LEMMA FoundRead ==
  ASSUME TypeInv, NEW t \in Threads, NEW s
  PROVE  /\ Holders(trecs[t], s) # {} => <<s, FoundEntry(t, s).expected>> \in AllReads(trecs[t])
         /\ Holders(trecs[t], s) = {} => \A p \in AllReads(trecs[t]) : p[1] # s
<1>1. trecs[t] \in Chain
  BY DEF TypeInv
<1>2. ASSUME Holders(trecs[t], s) # {} PROVE <<s, FoundEntry(t, s).expected>> \in AllReads(trecs[t])
  <2>1. PICK i : i = Innermost(Holders(trecs[t], s))
    OBVIOUS
  <2>2. i \in 1..Len(trecs[t]) /\ Has(trecs[t][i], s)
    BY <1>1, <1>2, <2>1, HolderIs
  <2>3. FoundEntry(t, s) = Entry(trecs[t][i], s)
    BY <1>2, <2>1 DEF FoundEntry
  <2>4. <<s, FoundEntry(t, s).expected>> \in Reads(trecs[t][i])
    BY <1>1, <2>2, <2>3, HasRead, ChainIs
  <2> QED BY <1>1, <2>2, <2>4, ReadsIs
<1>3. ASSUME Holders(trecs[t], s) = {}, NEW p \in AllReads(trecs[t]) PROVE p[1] # s
  <2>1. PICK k \in 1..Len(trecs[t]) : p \in Reads(trecs[t][k])
    BY <1>1, ReadsIs
  <2>2. Has(trecs[t][k], p[1])
    BY <2>1, ReadHas
  <2> QED BY <1>1, <1>3, <2>2, ChainIs DEF Holders
<1> QED BY <1>2, <1>3

LEMMA ReadWriteK ==
  ASSUME KInv, NEW t \in Threads, NEW s \in TVars, ReadTVar(t, s) \/ \E v \in Values : WriteTVar(t, s, v)
  PROVE  KSelf(t)
<1>1. Step(t) /\ Readable(t, s) /\ Note(t, s)
  BY DEF ReadTVar, WriteTVar
<1>2. pc[t] = "run" /\ UNCHANGED <<tvars, pc, scan, sleep, log, snap>>
  BY <1>1 DEF Step
<1>3. TypeInv /\ IInv /\ SeenInv(t) /\ ThreadInv(t) /\ DOMAIN seen = Threads
  BY KIs
<1>4. PICK f : f = FoundEntry(t, s)
  OBVIOUS
<1>5. f \in EntryRec /\ f.tvar = s
  BY <1>1, <1>3, <1>4, FoundEntryIs
<1>6. PICK e \in EntryRec : e.tvar = s /\ e.expected = f.expected /\ Put(t, s, e)
  <2>1. CASE ReadTVar(t, s)
    BY <1>4, <1>5, <2>1 DEF ReadTVar
  <2>2. ASSUME NEW v \in Values, WriteTVar(t, s, v)
        PROVE  \E e \in EntryRec : e.tvar = s /\ e.expected = f.expected /\ Put(t, s, e)
    <3>1. [f EXCEPT !.new = v] \in EntryRec /\ [f EXCEPT !.new = v].tvar = s /\ [f EXCEPT !.new = v].expected = f.expected
      BY <1>5 DEF EntryRec
    <3>2. Put(t, s, [f EXCEPT !.new = v])
      BY <1>4, <2>2 DEF WriteTVar
    <3> QED BY <3>1, <3>2
  <2> QED BY <2>1, <2>2
<1>7. Len(trecs[t]) >= 1
  BY <1>2, <1>3, NestIs
<1>8. PICK R, v : R = AllReads(trecs[t]) /\ v = f.expected
  OBVIOUS
<1>9. Agreeing(R) /\ (<<s, v>> \in R \/ \A p \in R : p[1] # s)
  BY <1>3, <1>4, <1>8, FoundRead DEF SeenInv
<1>10. Has(Inner(t), s) => Entry(Inner(t), s).expected = e.expected
  <2> SUFFICES ASSUME Has(Inner(t), s) PROVE Entry(Inner(t), s).expected = v
    BY <1>6, <1>8
  <2>1. Len(trecs[t]) \in 1..Len(trecs[t]) /\ Inner(t) = trecs[t][Len(trecs[t])] /\ trecs[t] \in Chain
    BY <1>3, <1>7, ChainIs DEF Inner, Last, TypeInv
  <2>2. <<s, Entry(Inner(t), s).expected>> \in Reads(Inner(t))
    BY <2>1, HasRead, ChainIs
  <2>3. <<s, Entry(Inner(t), s).expected>> \in R
    BY <1>8, <2>1, <2>2, ReadsIs
  <2> QED BY <1>9, <2>3 DEF Agreeing
<1>11. AllReads(trecs'[t]) = R \cup {<<s, v>>}
  BY <1>3, <1>6, <1>7, <1>8, <1>10, PutReads DEF Pair
<1>12. Agreeing(R \cup {<<s, v>>})
  BY <1>9 DEF Agreeing
<1>13. op'[t] = op[t] /\ op[t] = "none" /\ pc'[t] = "run"
  BY <1>2, <1>3 DEF scan, ThreadInv, Resting
<1>14. \A x \in DOMAIN seen'[t] : <<x, seen'[t][x]>> \in R \cup {<<s, v>>}
  <2>1. \A x \in DOMAIN seen[t] : <<x, seen[t][x]>> \in R
    BY <1>3, <1>8, <1>13 DEF SeenInv
  <2>2. seen'[t] = [r \in DOMAIN seen[t] \cup {s} |-> IF r \in DOMAIN seen[t] THEN seen[t][r] ELSE v]
    BY <1>1, <1>3, <1>4, <1>8 DEF Note
  <2> QED BY <2>1, <2>2
<1>15. SeenInv(t)'
  BY <1>11, <1>12, <1>13, <1>14 DEF SeenInv
<1>16. DOMAIN seen' = Threads /\ \A u \in Threads \ {t} : seen'[u] = seen[u]
  BY <1>1, <1>3 DEF Note
<1> QED BY <1>15, <1>16 DEF KSelf

LEMMA NestK ==
  ASSUME KInv, NEW t \in Threads, NEW f \in {"orElse", "catchSTM"}, Nest(t, f)
  PROVE  KSelf(t)
<1>1. pc[t] = "run" /\ UNCHANGED <<tvars, pc, scan, steps, sleep, history>>
  BY DEF Nest
<1>2. TypeInv /\ IInv /\ ThreadInv(t)
  BY KIs
<1>3. Len(trecs[t]) >= 1 /\ trecs[t] \in Chain /\ Len(trecs[t]) \in Nat
  BY <1>1, <1>2, NestIs
<1>4. Inner(t).state \in State
  <2>1. Inner(t) \in TRec
    BY <1>3, ChainIs DEF Inner, Last
  <2> QED BY <2>1 DEF TRec, State
<1>5. trecs'[t] = Append(trecs[t], NewTRec(Inner(t).state))
  BY <1>2 DEF Nest, TypeInv
<1>6. AllReads(trecs'[t]) = AllReads(trecs[t])
  BY <1>3, <1>4, <1>5, NewReads
<1>7. op'[t] = "none" /\ pc'[t] = "run" /\ seen' = seen
  BY <1>1, <1>2 DEF scan, history, ThreadInv, Resting
<1> QED BY <1>1, <1>6, <1>7, StayK

LEMMA RetryFrameK ==
  ASSUME KInv, NEW t \in Threads, RetryFrame(t)
  PROVE  KSelf(t)
<1>1. pc[t] = "retry" /\ Len(frames[t]) > 1 /\ UNCHANGED <<tvars, scan, steps, sleep, history>>
  BY DEF RetryFrame
<1>2. TypeInv /\ IInv /\ ThreadInv(t) /\ SeenInv(t)
  BY KIs
<1>3. trecs[t] \in Chain /\ Len(trecs[t]) \in Nat /\ Len(trecs[t]) >= 2
  BY <1>1, <1>2, NestIs
<1>4. PICK outer \in Abort(trecs[t]) :
        \/ trecs' = [trecs EXCEPT ![t] = Append(outer, NewTRec(Last(outer).state))] /\ pc' = [pc EXCEPT ![t] = "run"]
        \/ trecs' = [trecs EXCEPT ![t] = outer] /\ pc' = pc
  BY DEF RetryFrame, Goto
<1>5. outer \in Chain /\ Len(outer) = Len(trecs[t]) - 1 /\ AllReads(outer) = AllReads(trecs[t])
  BY <1>2, <1>3, AbortIs, AbortReads DEF SeenInv
<1>6. Last(outer).state \in State
  <2>1. Last(outer) \in TRec
    <3>1. Len(outer) \in 1..Len(outer)
      BY <1>3, <1>5
    <3> QED BY <1>5, <3>1, ChainIs DEF Last
  <2> QED BY <2>1 DEF TRec, State
<1>7. AllReads(trecs'[t]) = AllReads(trecs[t])
  <2>1. trecs'[t] = outer \/ trecs'[t] = Append(outer, NewTRec(Last(outer).state))
    BY <1>2, <1>4 DEF TypeInv
  <2> QED BY <1>5, <1>6, <2>1, NewReads
<1>8. op'[t] = "none" /\ pc'[t] \in {"run", "retry"} /\ seen' = seen
  BY <1>1, <1>2, <1>4 DEF scan, history, ThreadInv, Resting, TypeInv
<1> QED BY <1>1, <1>7, <1>8, StayK

LEMMA RaiseFrameK ==
  ASSUME KInv, NEW t \in Threads, RaiseFrame(t)
  PROVE  KSelf(t)
<1>1. pc[t] = "raise" /\ Len(frames[t]) > 1 /\ UNCHANGED <<tvars, scan, steps, sleep, history>>
  BY DEF RaiseFrame
<1>2. TypeInv /\ IInv /\ ThreadInv(t) /\ SeenInv(t)
  BY KIs
<1>3. trecs[t] \in Chain /\ Len(trecs[t]) \in Nat /\ Len(trecs[t]) >= 2
  BY <1>1, <1>2, NestIs
<1>4. \/ \E outer \in Abort(trecs[t]) : trecs' = [trecs EXCEPT ![t] = outer] /\ pc' = [pc EXCEPT ![t] = "run"]
      \/ trecs' = trecs /\ pc' = pc
  BY DEF RaiseFrame, Goto
<1>5. AllReads(trecs'[t]) = AllReads(trecs[t])
  BY <1>2, <1>3, <1>4, AbortReads DEF SeenInv, TypeInv
<1>6. op'[t] = "none" /\ pc'[t] \in {"run", "raise"} /\ seen' = seen
  BY <1>1, <1>2, <1>4 DEF scan, history, ThreadInv, Resting, TypeInv
<1> QED BY <1>1, <1>5, <1>6, StayK

(* Steps that leave the records alone.                                     *)
LEMMA ValidateK ==
  ASSUME KInv, NEW t \in Threads, NEW o, NEW i, Validate(t, o, i),
         UNCHANGED <<tvars, trecs, frames, steps, sleep, history>>,
         o = "rewait" => pc[t] = "parked", op[t] # "commit"
  PROVE  KSelf(t)
<1>1. TypeInv
  BY KIs
<1>2. trecs' = trecs /\ seen' = seen /\ op'[t] = o /\ pc'[t] \in {"lock", "revert"}
  BY <1>1 DEF Validate, Goto, TypeInv, history
<1> QED BY <1>2, StayK

LEMMA StartK ==
  ASSUME KInv, NEW t \in Threads, Return(t) \/ AtAtomically(t) \/ Preempt(t) \/ ReWait(t) \/ NextLevel(t)
  PROVE  KSelf(t)
<1>1. ThreadInv(t)
  BY KIs
<1>2. UNCHANGED <<tvars, trecs, frames, steps, sleep, history>>
  BY DEF Return, AtAtomically, Preempt, ReWait, NextLevel
<1>3. CASE NextLevel(t)
  <2>1. op[t] \in {"validate", "raise"} /\ Validate(t, op[t], level[t] - 1)
    BY <1>3 DEF NextLevel, Reverted
  <2> QED BY <1>2, <2>1, ValidateK
<1>4. CASE ~ NextLevel(t)
  <2>1. op[t] = "none"
    BY <1>1, <1>4 DEF Return, AtAtomically, Preempt, ReWait, ThreadInv, Resting
  <2>2. PICK o, i : Validate(t, o, i) /\ (o = "rewait" => pc[t] = "parked")
    <3>1. CASE Return(t)
      <4>1. Validate(t, "commit", Len(trecs[t])) \/ Validate(t, "nested", Len(trecs[t]))
        BY <3>1 DEF Return
      <4> QED BY <4>1
    <3>2. CASE AtAtomically(t)
      <4>1. Validate(t, "wait", Len(trecs[t])) \/ Validate(t, "raise", Len(trecs[t]))
        BY <3>2 DEF AtAtomically
      <4> QED BY <4>1
    <3>3. CASE Preempt(t)
      BY <3>3 DEF Preempt
    <3>4. CASE ReWait(t)
      BY <3>4 DEF ReWait
    <3> QED BY <1>4, <3>1, <3>2, <3>3, <3>4
  <2> QED BY <1>2, <2>1, <2>2, ValidateK
<1> QED BY <1>3, <1>4

LEMMA AcquireK ==
  ASSUME KInv, NEW t \in Threads,
         Lock(t) \/ Look(t) \/ Reread(t) \/ Check(t) \/ WaitUnlock(t) \/ Bump(t) \/ Store(t) \/ Revert(t) \/ Deliver(t) \/ Unwatch(t)
  PROVE  KSelf(t)
<1>1. TypeInv /\ ThreadInv(t)
  BY KIs
<1>2. trecs' = trecs /\ seen' = seen /\ op' = op /\ pc[t] # "merge"
  BY DEF Lock, Look, Reread, Check, WaitUnlock, Bump, Store, Revert, Deliver, Unwatch, tvars, scan, history
<1>3. pc[t] = "revert" => ok' = ok
  BY DEF Lock, Look, Reread, Check, WaitUnlock, Bump, Store, Revert, Deliver, Unwatch, scan
<1>4. pc'[t] \notin {"merge", "parked"} \/ pc' = pc
  <2>1. CASE Lock(t) \/ Look(t) \/ Reread(t) \/ Check(t)
    BY <1>1, <2>1 DEF Lock, Look, Reread, Check, Fail, Next1, Goto, TypeInv
  <2>2. CASE WaitUnlock(t) \/ Bump(t) \/ Store(t) \/ Unwatch(t)
    BY <1>1, <2>2 DEF WaitUnlock, Bump, Store, Unwatch, Next1, Goto, TypeInv
  <2>3. CASE Revert(t) \/ Deliver(t)
    BY <2>3 DEF Revert, Deliver
  <2> QED BY <2>1, <2>2, <2>3
<1> QED BY <1>2, <1>3, <1>4, StayK

LEMMA OutwardsK ==
  ASSUME KInv, NEW t \in Threads, Retry(t) \/ Raise(t) \/ StopWaiting(t) \/ Asleep(t) \/ (Freeze(t) /\ pc[t] = "parked")
  PROVE  KSelf(t)
<1>1. TypeInv /\ ThreadInv(t)
  BY KIs
<1>2. trecs' = trecs /\ seen' = seen
  BY DEF Retry, Raise, StopWaiting, Asleep, Freeze, history
<1>3. CASE Retry(t) \/ Raise(t)
  <2>1. pc[t] = "run" /\ op' = op /\ pc'[t] \in {"retry", "raise"}
    BY <1>1, <1>3 DEF Retry, Raise, Goto, scan, TypeInv
  <2>2. op[t] = "none"
    BY <1>1, <2>1 DEF ThreadInv, Resting
  <2> QED BY <1>2, <2>1, <2>2, StayK
<1>4. CASE StopWaiting(t)
  <2>1. op[t] = "rewait" /\ op' = op /\ pc'[t] = "remove"
    BY <1>1, <1>4 DEF StopWaiting, Reverted, Goto, TypeInv
  <2> QED BY <1>2, <2>1, StayK
<1>5. CASE Asleep(t)
  <2>1. op[t] \in {"wait", "rewait"} /\ op'[t] = "none" /\ pc'[t] = "parked"
    BY <1>1, <1>5 DEF Asleep, Reverted, Goto, Idle, TypeInv
  <2> QED BY <1>2, <2>1, StayK
<1>6. CASE Freeze(t) /\ pc[t] = "parked"
  <2>1. op'[t] = "kill" /\ pc'[t] = "remove"
    BY <1>1, <1>6 DEF Freeze, Goto, TypeInv
  <2> QED BY <1>2, <1>6, <2>1, StayK
<1> QED BY <1>3, <1>4, <1>5, <1>6

LEMMA CheckedK ==
  ASSUME KInv, NEW t \in Threads, Checked(t)
  PROVE  KSelf(t)
<1>1. TypeInv
  BY KIs
<1>2. pc[t] = "check" /\ trecs' = trecs /\ seen' = seen /\ op' = op /\ level' = level /\ idx'[t] = 1 /\ pc'[t] \in {"write", "merge"}
  BY <1>1 DEF Checked, Goto, TypeInv
<1>3. Es(t)' = Es(t)
  BY <1>2 DEF Es, Current
<1>4. op[t] # "rewait"
  BY <1>2, KIs DEF ThreadInv
<1> QED BY <1>2, <1>3, <1>4, StayK

(* Steps that change an entry's version or its new value, or the state.    *)
LEMMA SampleK ==
  ASSUME KInv, NEW t \in Threads, Kept(t), Sample(t)
  PROVE  KSelf(t)
<1>1. TypeInv /\ IInv /\ TypeInv' /\ ThreadInv(t)
  BY KIs DEF Kept, IInv
<1>2. pc[t] = "sample" /\ seen' = seen /\ op' = op /\ pc'[t] = "reread"
  BY <1>1 DEF Sample, Goto, TypeInv, scan, history
<1>3. PICK chain, c, k, j, r : chain = trecs[t] /\ c = trecs'[t] /\ k = level[t] /\ j = idx[t] /\ r = chain[k]
  OBVIOUS
<1>4. chain \in Chain /\ c \in Chain /\ k \in 1..Len(chain) /\ r \in TRec
  BY <1>1, <1>2, <1>3, CurrentIs DEF TypeInv, Working, Current
<1>5. c = [chain EXCEPT ![k].entries[j].num = updates[Here(t).tvar]]
  BY <1>1, <1>3 DEF Sample, TypeInv
<1>6. PICK x : x = updates[Here(t).tvar]
  OBVIOUS
<1>7. PICK r2 : r2 = [r EXCEPT !.entries[j].num = x]
  OBVIOUS
<1>8. c = [chain EXCEPT ![k] = r2]
  BY <1>3, <1>5, <1>6, <1>7
<1>9. Reads(r2) = Reads(r)
  <2>1. r.entries \in Seq(EntryRec)
    BY <1>4 DEF TRec
  <2>2. r2.entries = [r.entries EXCEPT ![j].num = x]
    BY <1>4, <1>7 DEF TRec
  <2>3. DOMAIN r2.entries = DOMAIN r.entries
    BY <2>2
  <2>4. \A i \in DOMAIN r.entries : Pair(r2.entries[i]) = Pair(r.entries[i])
    <3> SUFFICES ASSUME NEW i \in DOMAIN r.entries PROVE Pair(r2.entries[i]) = Pair(r.entries[i])
      OBVIOUS
    <3>1. r.entries[i] \in EntryRec
      BY <2>1
    <3>2. r2.entries[i] = r.entries[i] \/ r2.entries[i] = [r.entries[i] EXCEPT !.num = x]
      BY <2>2
    <3> QED BY <3>1, <3>2 DEF EntryRec, Pair
  <2> QED BY <2>3, <2>4 DEF Reads
<1>10. Len(c) = Len(chain) /\ \A i \in 1..Len(chain) : Reads(c[i]) = Reads(chain[i])
  <2>1. DOMAIN c = DOMAIN chain /\ Len(c) \in Nat /\ Len(chain) \in Nat /\ DOMAIN chain = 1..Len(chain) /\ DOMAIN c = 1..Len(c)
    BY <1>4, <1>8, ChainIs
  <2>2. Len(c) = Len(chain)
    BY <1>4, <1>8 DEF Chain
  <2> QED BY <1>3, <1>8, <1>9, <2>1, <2>2
<1>11. AllReads(c) = AllReads(chain)
  BY <1>4, <1>10, SameReads
<1>12. op[t] # "rewait"
  BY <1>1, <1>2, HereIs DEF ThreadInv, Sample
<1> QED BY <1>2, <1>3, <1>11, <1>12, StayK

LEMMA LockWatchK ==
  ASSUME KInv, NEW t \in Threads, Kept(t), LockWatch(t)
  PROVE  KSelf(t)
<1>1. TypeInv /\ IInv /\ TypeInv' /\ ThreadInv(t)
  BY KIs DEF Kept, IInv
<1>2. pc[t] = "remove" /\ seen' = seen /\ op' = op /\ pc' = pc
  BY DEF LockWatch, scan, history
<1>3. PICK chain, c, j, r, x : chain = trecs[t] /\ c = trecs'[t] /\ j = idx[t] /\ r = chain[1] /\ x = value[Here(t).tvar]
  OBVIOUS
<1>4. chain \in Chain /\ c \in Chain /\ 1 \in 1..Len(chain) /\ r \in TRec
  <2>1. chain \in Chain /\ c \in Chain /\ level[t] \in 1..Len(chain)
    BY <1>1, <1>2, <1>3, CurrentIs DEF TypeInv, Working
  <2>2. 1 \in 1..Len(chain)
    BY <2>1, ChainIs
  <2> QED BY <1>3, <2>1, <2>2, ChainIs
<1>5. c = [chain EXCEPT ![1].entries[j].new = x]
  BY <1>1, <1>3 DEF LockWatch, TypeInv
<1>6. PICK r2 : r2 = [r EXCEPT !.entries[j].new = x]
  OBVIOUS
<1>7. c = [chain EXCEPT ![1] = r2]
  BY <1>3, <1>5, <1>6
<1>8. Reads(r2) = Reads(r)
  <2>1. r.entries \in Seq(EntryRec)
    BY <1>4 DEF TRec
  <2>2. r2.entries = [r.entries EXCEPT ![j].new = x]
    BY <1>4, <1>6 DEF TRec
  <2>3. DOMAIN r2.entries = DOMAIN r.entries
    BY <2>2
  <2>4. \A i \in DOMAIN r.entries : Pair(r2.entries[i]) = Pair(r.entries[i])
    <3> SUFFICES ASSUME NEW i \in DOMAIN r.entries PROVE Pair(r2.entries[i]) = Pair(r.entries[i])
      OBVIOUS
    <3>1. r.entries[i] \in EntryRec
      BY <2>1
    <3>2. r2.entries[i] = r.entries[i] \/ r2.entries[i] = [r.entries[i] EXCEPT !.new = x]
      BY <2>2
    <3> QED BY <3>1, <3>2 DEF EntryRec, Pair
  <2> QED BY <2>3, <2>4 DEF Reads
<1>9. Len(c) = Len(chain) /\ \A i \in 1..Len(chain) : Reads(c[i]) = Reads(chain[i])
  <2>1. DOMAIN chain = 1..Len(chain)
    BY <1>4, ChainIs
  <2>2. Len(c) = Len(chain)
    BY <1>4, <1>7 DEF Chain
  <2> QED BY <1>3, <1>7, <1>8, <2>1, <2>2
<1>10. AllReads(c) = AllReads(chain)
  BY <1>4, <1>9, SameReads
<1>11. op[t] \in {"rewait", "kill"}
  BY <1>1, <1>2 DEF ThreadInv, TypeInv, Operation, Resting
<1> QED BY <1>2, <1>3, <1>9, <1>10, <1>11, StayK

LEMMA OwnedK ==
  ASSUME KInv, NEW t \in Threads, Kept(t), Owned(t)
  PROVE  KSelf(t)
<1>1. TypeInv /\ IInv /\ TypeInv' /\ ThreadInv(t)
  BY KIs DEF Kept, IInv
<1>2. pc[t] = "lock" /\ seen' = seen /\ op' = op /\ level' = level
  BY DEF Owned
<1>3. pc'[t] \in {"check", "sleep", "revert"}
  BY <1>1 DEF Owned, Goto, TypeInv
<1>4. PICK chain, c, r : chain = trecs[t] /\ c = trecs'[t] /\ r = chain[1]
  OBVIOUS
<1>5. chain \in Chain /\ c \in Chain /\ 1 \in 1..Len(chain) /\ r \in TRec
  <2>1. chain \in Chain /\ c \in Chain /\ level[t] \in 1..Len(chain)
    BY <1>1, <1>2, <1>4, CurrentIs DEF TypeInv, Working
  <2>2. 1 \in 1..Len(chain)
    BY <2>1, ChainIs
  <2> QED BY <1>4, <2>1, <2>2, ChainIs
<1>6. c = chain \/ c = [chain EXCEPT ![1] = [r EXCEPT !.state = "waiting"]]
  BY <1>1, <1>4 DEF Owned, TypeInv
<1>7. Reads([r EXCEPT !.state = "waiting"]) = Reads(r)
  BY <1>5 DEF Reads, TRec
<1>8. Len(c) = Len(chain) /\ \A i \in 1..Len(chain) : Reads(c[i]) = Reads(chain[i])
  <2>1. DOMAIN chain = 1..Len(chain)
    BY <1>5, ChainIs
  <2>2. Len(c) = Len(chain)
    BY <1>5, <1>6 DEF Chain
  <2> QED BY <1>4, <1>6, <1>7, <2>1, <2>2
<1>9. AllReads(c) = AllReads(chain)
  BY <1>5, <1>8, SameReads
<1> QED BY <1>2, <1>3, <1>4, <1>8, <1>9, StayK

(* A nested commit: what the record around it does not know, it learns.    *)
LEMMA NestedIs ==
  ASSUME KInv, NEW t \in Threads, op[t] = "nested"
  PROVE  /\ trecs[t] \in Chain /\ Len(trecs[t]) \in Nat /\ Len(trecs[t]) >= 2 /\ level[t] = Len(trecs[t])
         /\ Current(t) = Last(trecs[t]) /\ Es(t) = Last(trecs[t]).entries /\ pc[t] \in Working
         /\ Front(trecs[t]) \in Chain /\ Len(Front(trecs[t])) = Len(trecs[t]) - 1 /\ Last(trecs[t]) \in TRec /\ Distinct(Last(trecs[t]))
         /\ AllReads(trecs[t]) = AllReads(Front(trecs[t])) \cup Reads(Last(trecs[t]))
<1>1. IInv /\ ThreadInv(t)
  BY KIs
<1>2. pc[t] \in Working /\ level[t] = Len(trecs[t]) /\ level[t] > 1
  BY <1>1 DEF ThreadInv, Working
<1>3. trecs[t] \in Chain /\ Len(trecs[t]) \in Nat /\ Len(trecs[t]) >= 2
  BY <1>1, <1>2, NestIs DEF Working
<1>4. Current(t) = Last(trecs[t]) /\ Es(t) = Last(trecs[t]).entries
  BY <1>2 DEF Current, Es, Last
<1> QED BY <1>2, <1>3, <1>4, FrontChain, FrontReads

LEMMA FrontAppend ==
  ASSUME NEW chain \in Chain, NEW trec \in TRec, Distinct(trec)
  PROVE  Front(Append(chain, trec)) = chain
<1>1. PICK c, n : c = Append(chain, trec) /\ n = Len(chain)
  OBVIOUS
<1>2. c \in Chain /\ n \in Nat /\ Len(c) = n + 1 /\ \A i \in 1..n : c[i] = chain[i]
  BY <1>1, AppendChain, ChainIs
<1>3. Front(c) \in Chain /\ Len(Front(c)) = n /\ \A i \in 1..n : Front(c)[i] = c[i]
  <2>1. Len(c) >= 1 /\ (n + 1) - 1 = n /\ c \in Seq(TRec)
    BY <1>2, ChainIs
  <2>2. Len(Front(c)) = (n + 1) - 1 /\ \A i \in 1..((n + 1) - 1) : Front(c)[i] = c[i]
    BY <1>2, <2>1, FrontIs
  <2> QED BY <1>2, <2>1, <2>2, FrontChain
<1>4. Front(c) \in Seq(TRec) /\ chain \in Seq(TRec)
  BY <1>3, ChainIs
<1> QED BY <1>1, <1>2, <1>3, <1>4

LEMMA MergeK ==
  ASSUME KInv, NEW t \in Threads, Merge(t)
  PROVE  KSelf(t)
<1>1. IInv /\ TypeInv /\ ThreadInv(t) /\ SeenInv(t) /\ DOMAIN seen = Threads
  BY KIs
<1>2. pc[t] = "merge" /\ More(t) /\ seen' = seen /\ op' = op /\ level' = level /\ pc' = pc /\ idx'[t] = idx[t] + 1 /\ ok' = ok
  BY <1>1 DEF Merge, Next1, Goto, TypeInv, history
<1>3. op[t] = "nested"
  BY <1>1, <1>2 DEF TypeInv, ThreadInv, Operation, Resting, Working
<1>4. PICK chain, n, front, last, e, i : chain = trecs[t] /\ n = Len(chain) /\ front = Front(chain) /\ last = Last(chain) /\ e = Here(t) /\ i = idx[t]
  OBVIOUS
<1>5. /\ chain \in Chain /\ n \in Nat /\ n >= 2 /\ level[t] = n /\ Current(t) = last /\ Es(t) = last.entries
      /\ front \in Chain /\ Len(front) = n - 1 /\ last \in TRec /\ Distinct(last)
      /\ AllReads(chain) = AllReads(front) \cup Reads(last)
  BY <1>3, <1>4, NestedIs
<1>6. e \in EntryRec /\ i \in DOMAIN Es(t) /\ e = Es(t)[i] /\ DOMAIN Es(t) = 1..Len(Es(t)) /\ i \in Nat
  BY <1>1, <1>2, <1>4, HereIs, CurrentIs DEF Working, Here, Es
<1>7. Pair(e) \in Reads(last)
  BY <1>5, <1>6 DEF Reads
<1>8. Has(Last(front), e.tvar) => Entry(Last(front), e.tvar).expected = e.expected
  <2> SUFFICES ASSUME Has(Last(front), e.tvar) PROVE Entry(Last(front), e.tvar).expected = e.expected
    OBVIOUS
  <2>1. Len(front) \in 1..Len(front) /\ Last(front) = front[Len(front)]
    BY <1>5 DEF Last
  <2>2. <<e.tvar, Entry(Last(front), e.tvar).expected>> \in Reads(front[Len(front)])
    BY <1>5, <2>1, HasRead, ChainIs
  <2>3. <<e.tvar, Entry(Last(front), e.tvar).expected>> \in AllReads(front)
    BY <1>5, <2>1, <2>2, ReadsIs
  <2>4. <<e.tvar, e.expected>> \in AllReads(chain)
    BY <1>5, <1>7 DEF Pair
  <2> QED BY <1>1, <1>4, <1>5, <2>3, <2>4 DEF SeenInv, Agreeing
<1>9. PICK merged : merged = MergeUpdate(front, e)
  OBVIOUS
<1>10. merged \in Chain /\ AllReads(merged) = AllReads(front) \cup {Pair(e)}
  BY <1>5, <1>6, <1>8, <1>9, MergeUpdateIs, MergeUpdateReads
<1>11. trecs'[t] = Append(merged, last)
  BY <1>1, <1>4, <1>9 DEF Merge, TypeInv
<1>12. AllReads(trecs'[t]) = AllReads(chain) /\ Front(trecs'[t]) = merged
  <2>1. AllReads(trecs'[t]) = AllReads(merged) \cup Reads(last)
    BY <1>5, <1>10, <1>11, AppendReads
  <2>2. Front(trecs'[t]) = merged
    BY <1>5, <1>10, <1>11, FrontAppend
  <2> QED BY <1>5, <1>7, <1>10, <2>1, <2>2
<1>13. Es(t)' = Es(t)
  <2>1. Len(merged) = n - 1
    BY <1>5, <1>6, <1>9, MergeUpdateIs
  <2>2. Append(merged, last)[(n - 1) + 1] = last
    BY <1>5, <1>10, <2>1, AppendChain
  <2>3. (n - 1) + 1 = n
    BY <1>5
  <2>4. PICK longer : longer = Append(merged, last)
    OBVIOUS
  <2>5. longer[(n - 1) + 1] = last
    BY <2>2, <2>4
  <2>6. longer[n] = last
    BY <2>3, <2>5, Zenon
  <2>7. trecs'[t][n] = last
    BY <1>11, <2>4, <2>6, Zenon
  <2> QED BY <1>2, <1>5, <2>7 DEF Es, Current
<1>14. \A j \in DOMAIN Es(t) : j < i + 1 => Pair(Es(t)[j]) \in AllReads(merged)
  <2>1. \A j \in DOMAIN Es(t) : j < i => Pair(Es(t)[j]) \in AllReads(front)
    BY <1>1, <1>2, <1>4 DEF SeenInv
  <2>2. \A j \in DOMAIN Es(t) : j < i + 1 => j < i \/ j = i
    BY <1>6
  <2> QED BY <1>6, <1>10, <2>1, <2>2
<1>15. SeenInv(t)'
  <2>1. Agreeing(AllReads(trecs'[t])) /\ ((op'[t] = "commit" => ok'[t]) => \A s \in DOMAIN seen'[t] : <<s, seen'[t][s]>> \in AllReads(trecs'[t]))
    BY <1>1, <1>2, <1>4, <1>12 DEF SeenInv
  <2>2. \A j \in DOMAIN Es(t)' : j < idx'[t] => Pair(Es(t)'[j]) \in AllReads(Front(trecs'[t]))
    BY <1>2, <1>4, <1>12, <1>13, <1>14
  <2> QED BY <1>2, <1>3, <2>1, <2>2 DEF SeenInv
<1> QED BY <1>1, <1>2, <1>15 DEF KSelf

LEMMA MergedK ==
  ASSUME KInv, NEW t \in Threads, Merged(t)
  PROVE  KSelf(t)
<1>1. IInv /\ TypeInv /\ ThreadInv(t) /\ SeenInv(t)
  BY KIs
<1>2. pc[t] = "merge" /\ ~ More(t) /\ seen' = seen /\ op'[t] = "none" /\ pc'[t] = "run" /\ trecs'[t] = Front(trecs[t])
  BY <1>1 DEF Merged, Goto, Idle, TypeInv
<1>3. op[t] = "nested"
  BY <1>1, <1>2 DEF TypeInv, ThreadInv, Operation, Resting, Working
<1>4. AllReads(trecs[t]) = AllReads(Front(trecs[t])) \cup Reads(Last(trecs[t])) /\ Es(t) = Last(trecs[t]).entries
  BY <1>3, NestedIs
<1>5. \A i \in DOMAIN Es(t) : i < idx[t]
  BY <1>1, <1>2, CurrentIs DEF Working, More, Es
<1>6. Reads(Last(trecs[t])) \subseteq AllReads(Front(trecs[t]))
  BY <1>1, <1>2, <1>4, <1>5 DEF SeenInv, Reads
<1>7. AllReads(trecs'[t]) = AllReads(trecs[t])
  BY <1>2, <1>4, <1>6
<1> QED BY <1>2, <1>3, <1>7, StayK

LEMMA InvalidNestedK ==
  ASSUME KInv, NEW t \in Threads, InvalidNested(t)
  PROVE  KSelf(t)
<1>1. IInv /\ TypeInv /\ SeenInv(t) /\ DOMAIN seen = Threads
  BY KIs
<1>2. op[t] = "nested" /\ op'[t] = "none" /\ pc'[t] = "run"
  BY <1>1 DEF InvalidNested, Reverted, Goto, Idle, TypeInv
<1>3. PICK chain, outer, r : chain = trecs[t] /\ outer = Front(chain) /\ r = NewTRec(Last(outer).state)
  OBVIOUS
<1>4. /\ chain \in Chain /\ outer \in Chain /\ Len(outer) = Len(chain) - 1 /\ Len(chain) \in Nat /\ Len(chain) >= 2
      /\ AllReads(chain) = AllReads(outer) \cup Reads(Last(chain))
  BY <1>2, <1>3, NestedIs
<1>5. Last(outer).state \in State
  <2>1. Last(outer) \in TRec
    <3>1. Len(outer) \in 1..Len(outer)
      BY <1>4
    <3> QED BY <1>4, <3>1, ChainIs DEF Last
  <2> QED BY <2>1 DEF TRec, State
<1>6. trecs'[t] = Append(outer, r)
  BY <1>1, <1>3 DEF InvalidNested, TypeInv
<1>7. AllReads(trecs'[t]) = AllReads(outer)
  BY <1>3, <1>4, <1>5, <1>6, NewReads
<1>8. PICK kept : kept = {s \in DOMAIN seen[t] : Holders(outer, s) # {}}
  OBVIOUS
<1>9. seen' = [seen EXCEPT ![t] = [s \in kept |-> seen[t][s]]]
  BY <1>1, <1>3, <1>8 DEF InvalidNested
<1>10. ASSUME NEW s \in kept PROVE <<s, seen[t][s]>> \in AllReads(outer)
  <2>1. s \in DOMAIN seen[t] /\ Holders(outer, s) # {}
    BY <1>8
  <2>2. PICK k \in 1..Len(outer) : Has(outer[k], s)
    BY <1>4, <2>1, ChainIs DEF Holders
  <2>3. PICK v : <<s, v>> \in Reads(outer[k])
    BY <1>4, <2>2, HasRead, ChainIs
  <2>4. <<s, v>> \in AllReads(outer) /\ <<s, v>> \in AllReads(chain)
    BY <1>4, <2>3, ReadsIs
  <2>5. <<s, seen[t][s]>> \in AllReads(chain)
    BY <1>1, <1>2, <1>3, <2>1 DEF SeenInv
  <2>6. v = seen[t][s]
    BY <1>1, <1>3, <2>4, <2>5 DEF SeenInv, Agreeing
  <2> QED BY <2>4, <2>6
<1>11. Agreeing(AllReads(outer))
  BY <1>1, <1>3, <1>4, AgreeSub DEF SeenInv
<1>12. seen'[t] = [s \in kept |-> seen[t][s]] /\ DOMAIN seen' = Threads /\ \A u \in Threads \ {t} : seen'[u] = seen[u]
  BY <1>1, <1>9
<1>13. SeenInv(t)'
  BY <1>2, <1>7, <1>10, <1>11, <1>12 DEF SeenInv
<1> QED BY <1>12, <1>13 DEF KSelf

(* A doomed transaction keeps its outermost record; it is not to commit.   *)
LEMMA ValidatedK ==
  ASSUME KInv, NEW t \in Threads, Validated(t)
  PROVE  KSelf(t)
<1>1. IInv /\ TypeInv /\ SeenInv(t) /\ DOMAIN seen = Threads
  BY KIs
<1>2. op[t] = "validate" /\ pc[t] = "revert" /\ seen' = seen
  BY DEF Validated, Reverted
<1>3. CASE ok[t]
  <2>1. op'[t] = "none" /\ pc'[t] = "run" /\ trecs' = trecs
    BY <1>1, <1>3 DEF Validated, Goto, Idle, TypeInv
  <2> QED BY <1>2, <2>1, StayK
<1>4. CASE ~ ok[t]
  <2>1. PICK chain, r : chain = trecs[t] /\ r = [chain[1] EXCEPT !.state = "condemned"]
    OBVIOUS
  <2>2. trecs'[t] = <<r>> /\ op'[t] = "commit" /\ pc' = pc /\ ok' = ok
    BY <1>1, <1>4, <2>1 DEF Validated, TypeInv
  <2>3. chain \in Chain /\ 1 \in 1..Len(chain) /\ chain[1] \in TRec
    <3>1. chain \in Chain /\ Len(chain) \in Nat /\ Len(chain) >= 1
      BY <1>1, <1>2, <2>1, NestIs
    <3> QED BY <3>1, ChainIs
  <2>4. Reads(r) = Reads(chain[1])
    BY <2>1, <2>3 DEF Reads, TRec
  <2>5. Reads(chain[1]) \subseteq AllReads(chain)
    BY <2>3, ReadsIs
  <2>6. AllReads(<<r>>) = Reads(r)
    <3>1. DOMAIN <<r>> = {1} /\ <<r>>[1] = r
      OBVIOUS
    <3> QED BY <3>1 DEF AllReads
  <2>7. Agreeing(AllReads(<<r>>))
    BY <1>1, <2>1, <2>4, <2>5, <2>6, AgreeSub DEF SeenInv
  <2>8. SeenInv(t)'
    BY <1>2, <1>4, <2>2, <2>7 DEF SeenInv
  <2> QED BY <1>1, <1>2, <2>8 DEF KSelf
<1> QED BY <1>3, <1>4

LEMMA ThreadK ==
  ASSUME KInv, NEW t \in Threads, ThreadNext(t)
  PROVE  KSelf(t)
<1>0. Kept(t)
  BY ThreadI, KIs
<1>1. CASE \/ Atomically(t) \/ Retry(t) \/ RetryFrame(t) \/ Raise(t) \/ RaiseFrame(t)
           \/ \E s \in TVars : ReadTVar(t, s) \/ \E v \in Values : WriteTVar(t, s, v)
           \/ \E f \in {"orElse", "catchSTM"} : Nest(t, f)
  BY <1>1, TransactionK, OutwardsK, RetryFrameK, RaiseFrameK, ReadWriteK, NestK
<1>2. CASE Return(t) \/ AtAtomically(t) \/ Preempt(t) \/ ReWait(t) \/ NextLevel(t)
  BY <1>2, StartK
<1>3. CASE Lock(t) \/ Look(t) \/ Sample(t) \/ Reread(t) \/ Owned(t) \/ WaitUnlock(t) \/ Check(t)
  BY <1>0, <1>3, AcquireK, SampleK, OwnedK
<1>4. CASE Checked(t) \/ Bump(t) \/ Store(t) \/ Written(t) \/ Merge(t) \/ Merged(t)
  BY <1>4, CheckedK, AcquireK, TransactionK, MergeK, MergedK
<1>5. CASE Revert(t) \/ Invalid(t) \/ InvalidNested(t) \/ Asleep(t) \/ StopWaiting(t) \/ Validated(t) \/ Raised(t)
  BY <1>5, AcquireK, TransactionK, InvalidNestedK, OutwardsK, ValidatedK
<1>6. CASE Deliver(t) \/ LockWatch(t) \/ Unwatch(t) \/ Removed(t) \/ Freeze(t)
  BY <1>0, <1>6, AcquireK, LockWatchK, TransactionK, OutwardsK
<1> QED BY <1>1, <1>2, <1>3, <1>4, <1>5, <1>6 DEF ThreadNext

LEMMA InitK == Init => KInv
<1> SUFFICES ASSUME Init PROVE KInv
  OBVIOUS
<1>1. JInv
  BY InitJ
<1>2. ASSUME NEW t \in Threads PROVE SeenInv(t)
  <2>1. pc[t] = "out" /\ op[t] = "none" /\ trecs[t] = <<>> /\ seen[t] = <<>>
    BY <1>2 DEF Init
  <2>2. DOMAIN seen[t] = {} /\ AllReads(trecs[t]) = {}
    BY <2>1 DEF AllReads
  <2> QED BY <2>1, <2>2 DEF SeenInv, Agreeing
<1>3. DOMAIN seen = Threads
  BY DEF Init
<1> QED BY <1>1, <1>2, <1>3 DEF KInv

LEMMA NextK == ~ ThroughOrElse /\ KInv /\ [Next]_stmVars => KInv'
<1> SUFFICES ASSUME ~ ThroughOrElse, KInv, [Next]_stmVars PROVE KInv'
  OBVIOUS
<1>1. JInv'
  BY NextJ DEF KInv
<1>2. CASE UNCHANGED stmVars
  <2>1. trecs' = trecs /\ pc' = pc /\ op' = op /\ level' = level /\ idx' = idx /\ ok' = ok /\ seen' = seen
    BY <1>2 DEF stmVars, scan, history
  <2>2. ASSUME NEW t \in Threads PROVE SeenInv(t)'
    <3>1. Es(t)' = Es(t) /\ SeenInv(t)
      BY <2>1 DEF Es, Current, KInv
    <3> QED BY <2>1, <3>1 DEF SeenInv
  <2> QED BY <1>1, <2>1, <2>2 DEF KInv
<1>3. ASSUME NEW t \in Threads, ThreadNext(t) PROVE KInv'
  <2>1. Kept(t)
    BY <1>3, ThreadI, KIs
  <2>2. KSelf(t)
    BY <1>3, ThreadK
  <2> QED BY <1>1, <2>1, <2>2, StepK
<1> QED BY <1>2, <1>3 DEF Next

(* ReadsKept: what a transaction commits or sleeps with knows every TVar   *)
(* that it has read, with the value it read, also those that it read in a   *)
(* branch given up since.                                                  *)
THEOREM NoReadForgotten == ~ ThroughOrElse => (Spec => []ReadsKept)
<1> SUFFICES ASSUME ~ ThroughOrElse PROVE Spec => []ReadsKept
  OBVIOUS
<1>1. KInv => ReadsKept
  <2> SUFFICES ASSUME KInv, NEW t \in Threads, op[t] # "nested", pc[t] \in {"write", "store", "sleep", "parked"}, NEW s \in DOMAIN seen[t]
               PROVE  Has(trecs[t][1], s) /\ Entry(trecs[t][1], s).expected = seen[t][s]
    BY DEF ReadsKept
  <2>1. IInv /\ TypeInv /\ ThreadInv(t) /\ FrameInv(t) /\ SeenInv(t) /\ (op[t] = "commit" => ok[t])
    BY KIs
  <2>2. PICK chain : chain = trecs[t]
    OBVIOUS
  <2>3. Len(chain) = 1
    <3>1. CASE pc[t] = "parked"
      BY <2>1, <2>2, <3>1 DEF SeenInv
    <3>2. CASE pc[t] # "parked"
      <4>1. op[t] \in {"commit", "wait"}
        BY <2>1, <3>2 DEF TypeInv, ThreadInv, Operation, Resting, Working
      <4> QED BY <2>1, <2>2, <4>1 DEF ThreadInv, FrameInv
    <3> QED BY <3>1, <3>2
  <2>4. chain \in Chain
    BY <2>1, <2>2 DEF TypeInv
  <2>5. <<s, seen[t][s]>> \in AllReads(chain)
    BY <2>1, <2>2 DEF SeenInv
  <2>6. PICK k \in 1..1 : <<s, seen[t][s]>> \in Reads(chain[k])
    BY <2>3, <2>4, <2>5, ReadsIs
  <2>7. <<s, seen[t][s]>> \in Reads(chain[1]) /\ 1 \in 1..Len(chain)
    BY <2>3, <2>6
  <2>8. PICK r : r = chain[1]
    OBVIOUS
  <2>9. PICK i \in DOMAIN r.entries : <<s, seen[t][s]>> = Pair(r.entries[i])
    BY <2>7, <2>8 DEF Reads
  <2>10. r.entries[i].tvar = s /\ r.entries[i].expected = seen[t][s]
    BY <2>9 DEF Pair
  <2>11. Distinct(r)
    BY <2>4, <2>7, <2>8, ChainIs
  <2>12. Entry(r, s) = r.entries[i]
    BY <2>10, <2>11, EntryIs
  <2> QED BY <2>2, <2>8, <2>9, <2>10, <2>12 DEF Has
<1>2. KInv /\ [Next]_stmVars => KInv'
  BY NextK
<1> QED BY <1>1, <1>2, InitK, PTL DEF Spec
=============================================================================
