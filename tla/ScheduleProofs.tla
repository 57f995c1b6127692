---------------------------- MODULE ScheduleProofs ----------------------------
(***************************************************************************)
(* The scheduler's inductive invariant IInv, and what its proof rests on:  *)
(* facts about queues, about the homes of threads while schedulePushWork   *)
(* hands one over, about what a step of one Task leaves alone of the       *)
(* others, and about a release.  Then one lemma for each action of         *)
(* Schedule, and the theorems about the specification that follow, for any *)
(* number of Capabilities, Tasks and threads.                              *)
(***************************************************************************)
EXTENDS Schedule, SequenceTheorems, FiniteSetTheorems, TLAPS

(* A queue that holds nothing twice.                                       *)
NoDup(q) == \A i, j \in DOMAIN q : q[i] = q[j] => i = j
(* Queues: what they contain after a change at one end.                    *)
LEMMA EmptyQueue == \A x : ~Contains(<<>>, x)
  BY DEF Contains

(* What popReturningTask and popRunQueue take was in the queue.            *)
LEMMA HeadIn ==
    ASSUME NEW S, NEW q \in Seq(S), q # <<>>
    PROVE  Head(q) \in S /\ Contains(q, Head(q)) /\ Tail(q) \in Seq(S)
  <1>1. Len(q) \in Nat \ {0} /\ q[1] = Head(q)
    BY EmptySeq, HeadTailProperties
  <1>2. QED
    BY <1>1, HeadTailProperties DEF Contains

(* Queueing at the end (appendToRunQueue, newReturningTask) adds that one  *)
(* entry, and makes no duplicate of a new one.                             *)
LEMMA AppendQueue ==
    ASSUME NEW S, NEW q \in Seq(S), NEW e \in S
    PROVE  /\ Append(q, e) \in Seq(S) /\ Append(q, e) # <<>>
           /\ \A x : Contains(Append(q, e), x) <=> Contains(q, x) \/ x = e
           /\ NoDup(q) /\ ~Contains(q, e) => NoDup(Append(q, e))
  <1>1. /\ Append(q, e) \in Seq(S) /\ Append(q, e) # <<>> /\ Len(Append(q, e)) = Len(q) + 1
        /\ \A i \in 1..Len(q) : Append(q, e)[i] = q[i]
        /\ Append(q, e)[Len(q) + 1] = e /\ Len(q) \in Nat
    BY AppendProperties, LenProperties
  <1>2. 1..(Len(q) + 1) = 1..Len(q) \cup {Len(q) + 1}
    BY <1>1
  <1>3. \A x : Contains(Append(q, e), x) <=> Contains(q, x) \/ x = e
    BY <1>1, <1>2 DEF Contains
  <1>4. NoDup(q) /\ ~Contains(q, e) => NoDup(Append(q, e))
    BY <1>1, <1>2, LenProperties DEF NoDup, Contains
  <1>5. QED
    BY <1>1, <1>3, <1>4

(* Queueing at the front (pushOnRunQueue, newSpareWorkerTask) does the     *)
(* same.                                                                   *)
LEMMA PushQueue ==
    ASSUME NEW S, NEW q \in Seq(S), NEW e \in S
    PROVE  /\ <<e>> \o q \in Seq(S) /\ <<e>> \o q # <<>>
           /\ \A x : Contains(<<e>> \o q, x) <=> Contains(q, x) \/ x = e
           /\ NoDup(q) /\ ~Contains(q, e) => NoDup(<<e>> \o q)
           /\ Head(<<e>> \o q) = e
  <1> DEFINE r == <<e>> \o q
  <1>1. <<e>> \in Seq(S) /\ Len(<<e>>) = 1 /\ <<e>>[1] = e /\ Len(q) \in Nat
    OBVIOUS
  <1>2. r \in Seq(S) /\ Len(r) = Len(q) + 1
        /\ \A i \in 1..(Len(q) + 1) : r[i] = IF i <= 1 THEN e ELSE q[i - 1]
    BY <1>1, ConcatProperties
  <1>3. r # <<>> /\ Head(r) = e
    BY <1>2, HeadTailProperties
  <1>4. \A x : Contains(r, x) <=> Contains(q, x) \/ x = e
    <2>1. ASSUME NEW x, Contains(q, x) PROVE Contains(r, x)
      <3>1. PICK i \in 1..Len(q) : q[i] = x
        BY <2>1 DEF Contains
      <3>2. r[i + 1] = x /\ i + 1 \in 1..Len(r)
        BY <1>2, <3>1
      <3>3. QED
        BY <3>2 DEF Contains
    <2>2. ASSUME NEW x, Contains(r, x) PROVE Contains(q, x) \/ x = e
      BY <1>2, <2>2 DEF Contains
    <2>3. Contains(r, e)
      BY <1>2 DEF Contains
    <2>4. QED
      BY <2>1, <2>2, <2>3
  <1>5. NoDup(q) /\ ~Contains(q, e) => NoDup(r)
    BY <1>2, LenProperties DEF NoDup, Contains
  <1>6. QED
    BY <1>2, <1>3, <1>4, <1>5

(* Taking the head off a queue without duplicates removes exactly that     *)
(* entry.                                                                  *)
LEMMA TailQueue ==
    ASSUME NEW S, NEW q \in Seq(S), q # <<>>, NoDup(q)
    PROVE  /\ Tail(q) \in Seq(S) /\ NoDup(Tail(q))
           /\ \A x : Contains(Tail(q), x) <=> Contains(q, x) /\ x # Head(q)
  <1>1. /\ Tail(q) \in Seq(S) /\ Len(Tail(q)) = Len(q) - 1 /\ Head(q) = q[1]
        /\ \A i \in 1..Len(Tail(q)) : Tail(q)[i] = q[i + 1]
        /\ Len(q) \in Nat \ {0}
    BY HeadTailProperties, EmptySeq
  <1>2. DOMAIN q = 1..Len(q) /\ DOMAIN Tail(q) = 1..(Len(q) - 1)
    BY <1>1, LenProperties
  <1>3. NoDup(Tail(q))
    BY <1>1, <1>2 DEF NoDup
  <1>4. ASSUME NEW x, Contains(Tail(q), x) PROVE Contains(q, x) /\ x # Head(q)
    BY <1>1, <1>2, <1>4 DEF Contains, NoDup
  <1>5. ASSUME NEW x, Contains(q, x), x # Head(q) PROVE Contains(Tail(q), x)
    <2>1. PICK i \in 1..Len(q) : q[i] = x
      BY <1>5 DEF Contains
    <2>2. i - 1 \in 1..Len(Tail(q)) /\ Tail(q)[i - 1] = x
      BY <1>1, <1>5, <2>1
    <2>3. QED
      BY <2>2 DEF Contains
  <1>6. QED
    BY <1>1, <1>3, <1>4, <1>5

(* Taking the head off any queue loses nothing else.                       *)
LEMMA TailKeeps ==
    ASSUME NEW S, NEW q \in Seq(S), q # <<>>
    PROVE  /\ Head(q) \in S /\ Tail(q) \in Seq(S)
           /\ \A x : Contains(q, x) /\ x # Head(q) => Contains(Tail(q), x)
  <1>1. /\ Tail(q) \in Seq(S) /\ Len(Tail(q)) = Len(q) - 1 /\ Head(q) = q[1]
        /\ \A i \in 1..Len(Tail(q)) : Tail(q)[i] = q[i + 1]
        /\ Len(q) \in Nat \ {0}
    BY HeadTailProperties, EmptySeq
  <1>2. ASSUME NEW x, Contains(q, x), x # Head(q) PROVE Contains(Tail(q), x)
    <2>1. PICK i \in 1..Len(q) : q[i] = x
      BY <1>2 DEF Contains
    <2>2. i - 1 \in 1..Len(Tail(q)) /\ Tail(q)[i - 1] = x
      BY <1>1, <1>2, <2>1
    <2>3. QED
      BY <2>2 DEF Contains
  <1>3. QED
    BY <1>1, <1>2, HeadIn

(* Two queues without a common entry joined.                               *)
LEMMA ConcatQueue ==
    ASSUME NEW S, NEW p \in Seq(S), NEW q \in Seq(S)
    PROVE  /\ p \o q \in Seq(S)
           /\ \A x : Contains(p \o q, x) <=> Contains(p, x) \/ Contains(q, x)
           /\ NoDup(p) /\ NoDup(q) /\ (\A x : ~(Contains(p, x) /\ Contains(q, x))) => NoDup(p \o q)
  <1> DEFINE r == p \o q
  <1>1. /\ r \in Seq(S) /\ Len(r) = Len(p) + Len(q) /\ Len(p) \in Nat /\ Len(q) \in Nat
        /\ \A i \in 1..(Len(p) + Len(q)) : r[i] = IF i <= Len(p) THEN p[i] ELSE q[i - Len(p)]
    BY ConcatProperties, LenProperties
  <1> HIDE DEF r
  <1>2. \A i \in 1..Len(p) : i \in 1..Len(r) /\ r[i] = p[i]
    BY <1>1
  <1>3. \A i \in 1..Len(q) : i + Len(p) \in 1..Len(r) /\ r[i + Len(p)] = q[i]
    <2> SUFFICES ASSUME NEW i \in 1..Len(q)
                 PROVE  i + Len(p) \in 1..Len(r) /\ r[i + Len(p)] = q[i]
      OBVIOUS
    <2>1. /\ i + Len(p) \in 1..(Len(p) + Len(q)) /\ ~(i + Len(p) <= Len(p))
          /\ (i + Len(p)) - Len(p) = i
      BY <1>1
    <2>2. r[i + Len(p)] = q[(i + Len(p)) - Len(p)]
      BY <1>1, <2>1
    <2>3. QED
      BY <1>1, <2>1, <2>2
  <1>4. \A i \in 1..Len(r) :
          i \in 1..Len(p) \/ (i - Len(p) \in 1..Len(q) /\ r[i] = q[i - Len(p)])
    <2> SUFFICES ASSUME NEW i \in 1..Len(r), i \notin 1..Len(p)
                 PROVE  i - Len(p) \in 1..Len(q) /\ r[i] = q[i - Len(p)]
      OBVIOUS
    <2>1. i \in 1..(Len(p) + Len(q)) /\ ~(i <= Len(p))
      BY <1>1
    <2>2. i - Len(p) \in 1..Len(q)
      BY <1>1, <2>1
    <2>3. QED
      BY <1>1, <2>1, <2>2
  <1>5. \A x : Contains(r, x) <=> Contains(p, x) \/ Contains(q, x)
    <2>1. ASSUME NEW x, Contains(p, x) PROVE Contains(r, x)
      BY <1>2, <2>1 DEF Contains
    <2>2. ASSUME NEW x, Contains(q, x) PROVE Contains(r, x)
      BY <1>3, <2>2 DEF Contains
    <2>3. ASSUME NEW x, Contains(r, x) PROVE Contains(p, x) \/ Contains(q, x)
      BY <1>2, <1>4, <2>3 DEF Contains
    <2>4. QED
      BY <2>1, <2>2, <2>3
  <1>6. ASSUME NoDup(p), NoDup(q), \A x : ~(Contains(p, x) /\ Contains(q, x))
        PROVE  NoDup(r)
    <2> SUFFICES ASSUME NEW i \in 1..Len(r), NEW j \in 1..Len(r), r[i] = r[j]
                 PROVE  i = j
      BY <1>1, LenProperties DEF NoDup
    <2>1. \A k \in 1..Len(p) : Contains(p, p[k])
      BY DEF Contains
    <2>2. \A k \in 1..Len(q) : Contains(q, q[k])
      BY DEF Contains
    <2>3. CASE i \in 1..Len(p) /\ j \in 1..Len(p)
      BY <1>2, <1>6, <2>3, LenProperties DEF NoDup
    <2>4. CASE i \in 1..Len(p) /\ j \notin 1..Len(p)
      BY <1>2, <1>4, <1>6, <2>1, <2>2, <2>4
    <2>5. CASE i \notin 1..Len(p) /\ j \in 1..Len(p)
      BY <1>2, <1>4, <1>6, <2>1, <2>2, <2>5
    <2>6. CASE i \notin 1..Len(p) /\ j \notin 1..Len(p)
      <3>1. /\ i - Len(p) \in 1..Len(q) /\ r[i] = q[i - Len(p)]
            /\ j - Len(p) \in 1..Len(q) /\ r[j] = q[j - Len(p)]
        BY <1>4, <2>6
      <3>2. \A k, l \in 1..Len(q) : q[k] = q[l] => k = l
        BY <1>6, LenProperties DEF NoDup
      <3>3. i - Len(p) = j - Len(p)
        BY <1>6, <3>1, <3>2
      <3>4. QED
        BY <1>1, <3>3
    <2>7. QED
      BY <2>3, <2>4, <2>5, <2>6
  <1>7. QED
    BY <1>1, <1>5, <1>6 DEF r

(* Taking one entry out of a queue without duplicates removes exactly that.*)
LEMMA RemoveQueue ==
    ASSUME NEW S, NEW q \in Seq(S), NoDup(q), NEW i \in 1..Len(q)
    PROVE  /\ RemoveAt(q, i) \in Seq(S) /\ NoDup(RemoveAt(q, i))
           /\ \A x : Contains(RemoveAt(q, i), x) <=> Contains(q, x) /\ x # q[i]
  <1> DEFINE p == SubSeq(q, 1, i - 1)
             r == SubSeq(q, i + 1, Len(q))
  <1>1. /\ Len(q) \in Nat /\ i \in Nat /\ \A j \in 1..Len(q) : q[j] \in S
        /\ \A j, k \in 1..Len(q) : q[j] = q[k] => j = k
    BY LenProperties, ElementOfSeq DEF NoDup
  <1>2. /\ p \in Seq(S) /\ Len(p) = i - 1 /\ \A j \in 1..(i - 1) : p[j] = q[j]
    <2>1. \A j \in 1..(i - 1) : q[j] \in S
      BY <1>1
    <2>2. /\ p \in Seq(S) /\ Len(p) = (IF 1 <= i - 1 THEN (i - 1) - 1 + 1 ELSE 0)
          /\ \A j \in 1..((i - 1) - 1 + 1) : p[j] = q[1 + j - 1]
      BY <1>1, <2>1, SubSeqProperties
    <2> HIDE DEF p
    <2>3. QED
      BY <1>1, <2>2
  <1>3. /\ r \in Seq(S) /\ Len(r) = Len(q) - i /\ \A j \in 1..(Len(q) - i) : r[j] = q[i + j]
    <2>1. \A j \in (i + 1)..Len(q) : q[j] \in S
      BY <1>1
    <2>2. /\ r \in Seq(S) /\ Len(r) = (IF i + 1 <= Len(q) THEN Len(q) - (i + 1) + 1 ELSE 0)
          /\ \A j \in 1..(Len(q) - (i + 1) + 1) : r[j] = q[(i + 1) + j - 1]
      BY <1>1, <2>1, SubSeqProperties
    <2> HIDE DEF r
    <2>3. Len(r) = Len(q) - i
      BY <1>1, <2>2
    <2>4. ASSUME NEW j \in 1..(Len(q) - i) PROVE r[j] = q[i + j]
      <3>1. j \in 1..(Len(q) - (i + 1) + 1) /\ (i + 1) + j - 1 = i + j
        BY <1>1
      <3>2. QED
        BY <2>2, <3>1
    <2>5. QED
      BY <2>2, <2>3, <2>4
  <1>4. RemoveAt(q, i) = p \o r
    BY DEF RemoveAt
  <1> HIDE DEF p, r
  <1>5. \A x : Contains(p, x) <=> \E j \in 1..(i - 1) : q[j] = x
    BY <1>2 DEF Contains
  <1>6. \A x : Contains(r, x) <=> \E j \in (i + 1)..Len(q) : q[j] = x
    <2>1. ASSUME NEW x, Contains(r, x) PROVE \E j \in (i + 1)..Len(q) : q[j] = x
      <3>1. PICK j \in 1..(Len(q) - i) : r[j] = x
        BY <1>3, <2>1 DEF Contains
      <3>2. i + j \in (i + 1)..Len(q) /\ q[i + j] = x
        BY <1>1, <1>3, <3>1
      <3>3. QED
        BY <3>2
    <2>2. ASSUME NEW x, NEW j \in (i + 1)..Len(q), q[j] = x PROVE Contains(r, x)
      <3>1. j - i \in 1..(Len(q) - i) /\ i + (j - i) = j
        BY <1>1
      <3>2. r[j - i] = x
        BY <1>3, <2>2, <3>1
      <3>3. QED
        BY <1>3, <3>1, <3>2 DEF Contains
    <2>3. QED
      BY <2>1, <2>2
  <1>7. NoDup(p) /\ NoDup(r)
    <2>1. DOMAIN p = 1..(i - 1) /\ DOMAIN r = 1..(Len(q) - i)
      BY <1>2, <1>3, LenProperties
    <2>2. \A j \in 1..(i - 1) : j \in 1..Len(q)
      BY <1>1
    <2>3. NoDup(p)
      BY <1>1, <1>2, <2>1, <2>2 DEF NoDup
    <2>4. ASSUME NEW j \in DOMAIN r, NEW k \in DOMAIN r, r[j] = r[k] PROVE j = k
      <3>1. i + j \in 1..Len(q) /\ i + k \in 1..Len(q) /\ j \in Int /\ k \in Int
        BY <1>1, <2>1
      <3>2. q[i + j] = q[i + k]
        BY <1>3, <2>1, <2>4
      <3>3. i + j = i + k
        BY <1>1, <3>1, <3>2
      <3>4. QED
        BY <1>1, <3>1, <3>3
    <2>5. QED
      BY <2>3, <2>4 DEF NoDup
  <1>8. \A x : ~(Contains(p, x) /\ Contains(r, x))
    BY <1>1, <1>5, <1>6
  <1>9. \A x : Contains(p, x) \/ Contains(r, x) <=> Contains(q, x) /\ x # q[i]
    <2>1. ASSUME NEW x, Contains(p, x) \/ Contains(r, x) PROVE Contains(q, x) /\ x # q[i]
      <3>1. PICK j \in 1..Len(q) : j # i /\ q[j] = x
        BY <1>1, <1>5, <1>6, <2>1
      <3>2. QED
        BY <1>1, <3>1 DEF Contains
    <2>2. ASSUME NEW x, Contains(q, x), x # q[i] PROVE Contains(p, x) \/ Contains(r, x)
      <3>1. PICK j \in 1..Len(q) : q[j] = x
        BY <2>2 DEF Contains
      <3>2. j \in 1..(i - 1) \/ j \in (i + 1)..Len(q)
        BY <1>1, <2>2, <3>1
      <3>3. QED
        BY <1>5, <1>6, <3>1, <3>2
    <2>3. QED
      BY <2>1, <2>2
  <1>10. QED
    BY <1>2, <1>3, <1>4, <1>7, <1>8, <1>9, ConcatQueue

-------------------------------------------------------------------------------
(* Where a Task is in a wait, and in a synchronisation.                    *)
Returning == {"return_lock", "return_wait", "return_check"}
InQueue   == {"return_wait", "return_check"}
Yielding  == {"yield_wait", "yield_check"}
InYield(t)  == pc[t] \in {"yield", "yielded"} \cup Yielding
Entering(t) == pc[t] \in Returning /\ call[t] = "enter"
Resuming(t) == pc[t] \in Returning /\ call[t] = "resume"
Syncing(t) ==
    \/ pc[t] \in {"sync", "acquire", "acquired", "stopped", "release_all"}
    \/ Acquiring(t)
    \/ InYield(t) /\ call[t] # "sched"

(* The places between StartCall and Leave.                                 *)
Looping(t) == pc[t] \notin {"none", "out", "entered", "leave"} /\ ~Entering(t)

Places == HoldsOwn \cup Returning \cup Yielding \cup {"none", "out", "calling", "release_all"}

PlacesOK ==
    /\ pc \in [Tasks -> Places]
    /\ call \in [Tasks -> {"none", "enter", "resume", "acquire", "sched", "seq", "other"}]
    /\ after \in [Tasks -> {"sched", "decide", "leave"}]
    /\ kind \in [Tasks -> {"none", "eval", "gc", "fork"}]

(* What a Task waits for and where its task->cap points, by place.         *)
WaitOK(t) ==
    /\ pc[t] \in Returning =>
         /\ call[t] \in {"enter", "resume", "acquire"}
         /\ want[t] = tcap[t]
         /\ call[t] # "acquire" => want[t] = cap[t]
         /\ call[t] = "acquire" => want[t] = scan[t] /\ scan[t] # cap[t]
    /\ pc[t] = "entered" => call[t] = "enter"
    /\ pc[t] = "resumed" => call[t] = "resume"
    /\ pc[t] = "acquired" => call[t] = "acquire" /\ scan[t] # cap[t]
    /\ InYield(t) => call[t] \in {"sched", "seq", "other"}
    /\ pc[t] = "yield_check" => want[t] = cap[t]
    /\ pc[t] \in HoldsOwn \ {"push", "push_look", "push_share", "push_home",
                             "push_release", "acquire", "acquired", "stopped"} => tcap[t] = cap[t]

(* The loops: which Capabilities schedulePushWork has grabbed, where the   *)
(* others are, and the messages of scheduleProcessInbox.                   *)
LoopOK(t) ==
    /\ grabbed[t] # <<>> => pc[t] \in {"push", "push_look", "push_share", "push_home",
                                        "push_release"}
    /\ pc[t] = "push_release" => grabbed[t] # <<>>
    /\ deal[t].moved # <<>> <=> pc[t] = "push_home"
    /\ deal[t].moved # <<>> => Contains(grabbed[t], deal[t].moved[2])
    /\ NoDup(grabbed[t])
    /\ ~Contains(grabbed[t], cap[t])
    /\ pc[t] \in {"push", "push_look"} => \A c \in Caps : Contains(grabbed[t], c) => c < scan[t]
    /\ pc[t] = "push_look" => scan[t] # cap[t]
    /\ pc[t] = "stopped" => scan[t] = 0
    /\ msgs[t] # <<>> => pc[t] = "inbox"

(* Which Tasks have a bound thread, and what they came for.                *)
RoleOK(t) ==
    /\ t \in Workers => /\ kind[t] = "eval" /\ ~bound[t]
                        /\ pc[t] \notin {"out", "entered", "leave"} /\ ~Entering(t)
    /\ t \in Callers => (bound[t] <=> Looping(t) /\ kind[t] = "eval")
    /\ Looping(t) /\ kind[t] # "eval" => Syncing(t) /\ after[t] = "leave"
    /\ Syncing(t) /\ kind[t] = "eval" => after[t] # "leave"

(* What a Task carries: its own thread when it is bound, and only while    *)
(* it runs it or has suspended it.                                         *)
CurOK(t) ==
    /\ cur[t] # NoThread <=> pc[t] \in {"run", "calling", "resumed"} \/ Resuming(t)
    /\ cur[t] # NoThread => IF t \in Callers THEN cur[t] = t ELSE cur[t] \in Unbound
    /\ pc[t] \in {"calling", "resumed"} \/ Resuming(t) => t \in suspended[cap[t]]

(* Where a thread belongs: t->cap, but for a thread that schedulePushWork  *)
(* is moving, which it has queued and whose Task it has moved already.     *)
Mover(th) == {t \in Tasks : deal[t].moved # <<>> /\ deal[t].moved[1] = th}
Home ==
    [th \in Threads |->
        IF Mover(th) = {} THEN tsoCap[th] ELSE deal[CHOOSE t \in Mover(th) : TRUE].moved[2]]

(* A thread in movement is live, and one Task moves it.                    *)
DealInv ==
    \A t \in Tasks : deal[t].moved # <<>> =>
        /\ tst[deal[t].moved[1]] = "live"
        /\ \A u \in Tasks : deal[u].moved # <<>> /\ deal[u].moved[1] = deal[t].moved[1] => u = t

(* A bound thread's home is where its Task is, or sleeps.                  *)
HomeOK(b) ==
    /\ tst[b] # "none" <=> bound[b]
    /\ bound[b] => Home[b] = IF pc[b] \in Yielding THEN tcap[b] ELSE cap[b]

TaskOK(t) ==
    /\ WaitOK(t) /\ LoopOK(t) /\ RoleOK(t) /\ CurOK(t)
    /\ t \in Callers => HomeOK(t)
TaskInv == \A t \in Tasks : TaskOK(t)

(* The queues of waiting Tasks hold each at most once.                     *)
QueueInv ==
    /\ QueuedRight
    /\ \A c \in Caps : NoDup(returning[c]) /\ NoDup(spare[c])

(* Where threads are: at home, and at one place only.                      *)
ThreadInv ==
    /\ \A c \in Caps : NoDup(runq[c])
    /\ \A c \in Caps, th \in Threads :
         Contains(runq[c], th) => tst[th] = "live" /\ Home[th] = c
    /\ \A t \in Tasks : cur[t] # NoThread =>
         /\ tst[cur[t]] = "live" /\ Home[cur[t]] = cap[t]
         /\ ~Contains(runq[cap[t]], cur[t])
    /\ \A t, u \in Tasks : cur[t] # NoThread /\ cur[t] = cur[u] => t = u
    /\ \A th \in Threads : tst[th] = "live" =>
         Contains(runq[Home[th]], th) \/ \E t \in Tasks : cur[t] = th
MigrationInv == \A th \in Threads : tst[th] = "migrating" => Woken(th) /\ th \in Unbound

IInv ==
    /\ TypeOK /\ PlacesOK
    /\ TaskInv
    /\ OwnersAgree /\ QueueInv
    /\ ThreadInv /\ MigrationInv /\ DealInv
    /\ NoLostWakeup

-------------------------------------------------------------------------------
(* Homes: every thread has one, and it is t->cap unless the thread is being*)
(* moved.                                                                  *)
LEMMA HomeType == ASSUME TypeOK PROVE Home \in [Threads -> Caps]
  <1> SUFFICES ASSUME NEW th \in Threads
               PROVE  (IF Mover(th) = {} THEN tsoCap[th]
                       ELSE deal[CHOOSE t \in Mover(th) : TRUE].moved[2]) \in Caps
    BY DEF Home
  <1>1. CASE Mover(th) = {}
    BY <1>1 DEF TypeOK
  <1>2. CASE Mover(th) # {}
    <2>1. PICK t \in Mover(th) : t = (CHOOSE u \in Mover(th) : TRUE)
      BY <1>2
    <2>2. t \in Tasks /\ deal[t].moved # <<>>
      BY DEF Mover
    <2>3. deal[t].moved[2] \in Caps
      <3>1. deal[t] \in [pos : Nat \ {0}, turn : Nat, moved : {<<>>} \cup (Threads \X Caps)]
        BY <2>2 DEF TypeOK
      <3>2. deal[t].moved \in Threads \X Caps
        BY <2>2, <3>1
      <3>3. QED
        BY <3>2
    <2>4. QED
      BY <1>2, <2>1, <2>3
  <1>3. QED
    BY <1>1, <1>2

(* A step that moves no thread, and after which every live thread is live, *)
(* leaves the homes as they are.                                           *)
LEMMA HomeStill ==
    ASSUME TypeOK, DealInv, tsoCap' = tsoCap, deal' = deal,
           \A x \in Threads : tst[x] = "live" => tst'[x] = "live"
    PROVE  Home' = Home /\ DealInv'
  <1>1. Home' = Home
    BY DEF Home, Mover
  <1>2. ASSUME NEW t \in Tasks, deal[t].moved # <<>> PROVE deal[t].moved[1] \in Threads
    <2>1. deal[t] \in [pos : Nat \ {0}, turn : Nat, moved : {<<>>} \cup (Threads \X Caps)]
      BY DEF TypeOK
    <2>2. deal[t].moved \in Threads \X Caps
      BY <1>2, <2>1
    <2>3. QED
      BY <2>2
  <1>3. DealInv'
    BY <1>2 DEF DealInv
  <1>4. QED
    BY <1>1, <1>3

(* So does one that changes a thread nobody is moving, for the others.     *)
LEMMA HomeSet ==
    ASSUME TypeOK, DealInv, deal' = deal, NEW th \in Threads, Mover(th) = {},
           tsoCap' \in [Threads -> Caps],
           \A x \in Threads \ {th} : tst'[x] = tst[x] /\ tsoCap'[x] = tsoCap[x]
    PROVE  /\ Home'[th] = tsoCap'[th] /\ \A x \in Threads \ {th} : Home'[x] = Home[x]
           /\ DealInv'
  <1>1. \A x : Mover(x)' = Mover(x)
    BY DEF Mover
  <1>2. /\ \A x \in Threads : Home[x] = IF Mover(x) = {} THEN tsoCap[x]
                                ELSE deal[CHOOSE t \in Mover(x) : TRUE].moved[2]
        /\ \A x \in Threads : Home'[x] = IF Mover(x) = {} THEN tsoCap'[x]
                                ELSE deal[CHOOSE t \in Mover(x) : TRUE].moved[2]
    <2>1. \A x \in Threads : Home[x] = IF Mover(x) = {} THEN tsoCap[x]
                                ELSE deal[CHOOSE t \in Mover(x) : TRUE].moved[2]
      BY DEF Home
    <2>2. ASSUME NEW x \in Threads
          PROVE  Home'[x] = IF Mover(x) = {} THEN tsoCap'[x]
                            ELSE deal[CHOOSE t \in Mover(x) : TRUE].moved[2]
      <3>1. Home'[x] = IF Mover(x)' = {} THEN tsoCap'[x]
                       ELSE deal'[CHOOSE t \in Mover(x)' : TRUE].moved[2]
        BY DEF Home
      <3>2. QED
        BY <1>1, <3>1
    <2>3. QED
      BY <2>1, <2>2
  <1>3. ASSUME NEW t \in Tasks, deal[t].moved # <<>> PROVE deal[t].moved[1] \in Threads \ {th}
    <2>1. deal[t] \in [pos : Nat \ {0}, turn : Nat, moved : {<<>>} \cup (Threads \X Caps)]
      BY DEF TypeOK
    <2>2. deal[t].moved \in Threads \X Caps
      BY <1>3, <2>1
    <2>3. deal[t].moved[1] # th
      BY <1>3 DEF Mover
    <2>4. QED
      BY <2>2, <2>3
  <1>4. DealInv'
    BY <1>3 DEF DealInv
  <1>5. QED
    BY <1>2, <1>4

(* What a deal may be.                                                     *)
Deals == [pos : Nat \ {0}, turn : Nat, moved : {<<>>} \cup (Threads \X Caps)]

(* A step of a deal that moves no thread.                                  *)
LEMMA HomeUnmoved ==
    ASSUME DealInv, NEW t \in Tasks, deal[t].moved = <<>>, deal'[t].moved = <<>>,
           \A u \in Tasks \ {t} : deal'[u] = deal[u], tsoCap' = tsoCap, tst' = tst
    PROVE  Home' = Home /\ DealInv'
  <1>1. \A u \in Tasks : deal'[u].moved = deal[u].moved
    OBVIOUS
  <1>2. \A x : Mover(x)' = Mover(x)
    BY <1>1 DEF Mover
  <1>3. ASSUME NEW x \in Threads
        PROVE  (IF Mover(x)' = {} THEN tsoCap'[x] ELSE deal'[CHOOSE u \in Mover(x)' : TRUE].moved[2])
               = (IF Mover(x) = {} THEN tsoCap[x] ELSE deal[CHOOSE u \in Mover(x) : TRUE].moved[2])
    <2>1. CASE Mover(x) = {}
      BY <1>2, <2>1
    <2>2. CASE Mover(x) # {}
      <3>1. PICK u \in Mover(x) : u = (CHOOSE v \in Mover(x) : TRUE)
        BY <2>2
      <3>2. deal'[u].moved = deal[u].moved
        BY <1>1 DEF Mover
      <3>3. u = (CHOOSE v \in Mover(x)' : TRUE)
        BY <1>2, <3>1
      <3>4. QED
        BY <1>2, <2>2, <3>1, <3>2, <3>3
    <2>3. QED
      BY <2>1, <2>2
  <1>4. Home' = Home
    BY <1>3 DEF Home
  <1>5. DealInv'
    BY <1>1 DEF DealInv
  <1>6. QED
    BY <1>4, <1>5

(* What the home of a thread is, said of one thread.                       *)
LEMMA HomeIs ==
    ASSUME NEW x \in Threads
    PROVE  /\ Mover(x) = {} => Home[x] = tsoCap[x]
           /\ \A u : Mover(x) = {u} => Home[x] = deal[u].moved[2]
           /\ Mover(x)' = {} => Home'[x] = tsoCap'[x]
           /\ \A u : Mover(x)' = {u} => Home'[x] = deal'[u].moved[2]
  <1>1. \A u : (CHOOSE v \in {u} : TRUE) = u
    OBVIOUS
  <1>2. /\ Home[x] = IF Mover(x) = {} THEN tsoCap[x]
                     ELSE deal[CHOOSE t \in Mover(x) : TRUE].moved[2]
        /\ Home'[x] = IF Mover(x)' = {} THEN tsoCap'[x]
                      ELSE deal'[CHOOSE t \in Mover(x)' : TRUE].moved[2]
    BY DEF Home
  <1>3. /\ Mover(x) = {} => Home[x] = tsoCap[x]
        /\ Mover(x)' = {} => Home'[x] = tsoCap'[x]
    BY <1>2
  <1>4. ASSUME NEW u, Mover(x) = {u} PROVE Home[x] = deal[u].moved[2]
    BY <1>1, <1>2, <1>4
  <1>5. ASSUME NEW u, Mover(x)' = {u} PROVE Home'[x] = deal'[u].moved[2]
    BY <1>1, <1>2, <1>5
  <1>6. QED
    BY <1>3, <1>4, <1>5

(* The homes of threads that are moved before and after by the same Task,  *)
(* or by none.                                                             *)
LEMMA HomeSame ==
    ASSUME DealInv, NEW x \in Threads, NEW t \in Tasks, Mover(x)' = Mover(x), t \notin Mover(x),
           \A u \in Tasks \ {t} : deal'[u] = deal[u], tsoCap'[x] = tsoCap[x]
    PROVE  Home'[x] = Home[x]
  <1>1. CASE Mover(x) = {}
    BY <1>1, HomeIs
  <1>2. CASE Mover(x) # {}
    <2>1. PICK u : u \in Mover(x)
      BY <1>2
    <2>2. Mover(x) = {u} /\ u \in Tasks \ {t}
      BY <2>1 DEF Mover, DealInv
    <2>3. Home[x] = deal[u].moved[2] /\ Home'[x] = deal'[u].moved[2]
      BY <2>2, HomeIs
    <2>4. QED
      BY <2>2, <2>3
  <1>3. QED
    BY <1>1, <1>2

(* A thread that is handed over has its new home at once ...               *)
LEMMA HomeGiven ==
    ASSUME TypeOK, DealInv, NEW t \in Tasks, NEW th \in Threads, NEW d \in Caps,
           deal[t].moved = <<>>, deal'[t].moved = <<th, d>>, Mover(th) = {}, tst[th] = "live",
           \A u \in Tasks \ {t} : deal'[u] = deal[u], tsoCap' = tsoCap, tst' = tst
    PROVE  /\ Home'[th] = d /\ \A x \in Threads \ {th} : Home'[x] = Home[x]
           /\ DealInv'
  <1>1. <<th, d>> # <<>> /\ <<th, d>>[1] = th /\ <<th, d>>[2] = d
    OBVIOUS
  <1>2. \A x : Mover(x)' = IF x = th THEN Mover(x) \cup {t} ELSE Mover(x)
    BY <1>1 DEF Mover
  <1>3. \A x : t \notin Mover(x)
    BY DEF Mover
  <1>4. Home'[th] = d
    BY <1>1, <1>2, HomeIs
  <1>5. ASSUME NEW x \in Threads \ {th} PROVE Home'[x] = Home[x]
    BY <1>2, <1>3, HomeSame
  <1>6. DealInv'
    <2>1. \A u \in Tasks \ {t} : deal[u].moved # <<>> => deal[u].moved[1] # th
      BY DEF Mover
    <2>2. QED
      BY <1>1, <2>1 DEF DealInv
  <1>7. QED
    BY <1>4, <1>5, <1>6

(* ... and keeps it when t->cap follows.                                   *)
LEMMA HomeSettled ==
    ASSUME TypeOK, DealInv, NEW t \in Tasks, NEW th \in Threads, NEW d \in Caps,
           deal[t].moved = <<th, d>>, deal'[t].moved = <<>>,
           \A u \in Tasks \ {t} : deal'[u] = deal[u],
           tsoCap' = [tsoCap EXCEPT ![th] = d], tst' = tst
    PROVE  Home' = Home /\ DealInv'
  <1>1. <<th, d>> # <<>> /\ <<th, d>>[1] = th /\ <<th, d>>[2] = d
    OBVIOUS
  <1>2. Mover(th) = {t} /\ Mover(th)' = {}
    BY <1>1 DEF Mover, DealInv
  <1>3. \A x : x # th => t \notin Mover(x) /\ Mover(x)' = Mover(x)
    BY <1>1 DEF Mover
  <1>4. tsoCap'[th] = d /\ \A x \in Threads \ {th} : tsoCap'[x] = tsoCap[x]
    BY DEF TypeOK
  <1>5. Home[th] = d /\ Home'[th] = d
    BY <1>1, <1>2, <1>4, HomeIs
  <1>6. ASSUME NEW x \in Threads PROVE Home'[x] = Home[x]
    <2>1. CASE x = th
      BY <1>5, <2>1
    <2>2. CASE x # th
      BY <1>3, <1>4, <2>2, HomeSame
    <2>3. QED
      BY <2>1, <2>2
  <1>7. Home' = Home
    BY <1>6 DEF Home
  <1>8. DealInv'
    BY DEF DealInv
  <1>9. QED
    BY <1>7, <1>8

(* Only live threads are moved.                                            *)
LEMMA NoneMoved ==
    ASSUME DealInv, NEW th, tst[th] # "live" PROVE Mover(th) = {}
  BY DEF DealInv, Mover

(* What a Task carries, on a Capability it holds, is not being moved.      *)
LEMMA CarriedStays ==
    ASSUME IInv, NEW t \in Tasks, cur[t] # NoThread, cap[t] \in Holding(t), pc[t] # "push_home"
    PROVE  Mover(cur[t]) = {} /\ Home[cur[t]] = tsoCap[cur[t]]
  <1>1. cur[t] \in Threads /\ Home[cur[t]] = cap[t] /\ cap[t] \in Caps
    BY DEF IInv, TypeOK, ThreadInv
  <1>2. Mover(cur[t]) = {}
    <2> SUFFICES ASSUME Mover(cur[t]) # {} PROVE FALSE
      OBVIOUS
    <2>1. PICK u \in Mover(cur[t]) : u = (CHOOSE v \in Mover(cur[t]) : TRUE)
      OBVIOUS
    <2>2. Home[cur[t]] = deal[u].moved[2] /\ u \in Tasks /\ deal[u].moved # <<>>
      BY <1>1, <2>1 DEF Home, Mover
    <2>3. pc[u] = "push_home" /\ Contains(grabbed[u], cap[t])
      BY <1>1, <2>2 DEF IInv, TaskInv, TaskOK, LoopOK
    <2>4. cap[t] \in Holding(u)
      BY <1>1, <2>3 DEF Holding
    <2>5. u = t
      BY <1>1, <2>2, <2>4 DEF IInv, OwnersAgree
    <2>6. QED
      BY <2>3, <2>5
  <1>3. QED
    BY <1>1, <1>2 DEF Home

-------------------------------------------------------------------------------
(* What a step of Task t leaves alone of another Task u.  Its flag may be  *)
(* raised, and schedulePushWork may move it while it sleeps with a thread. *)
Same(u) ==
    /\ call'[u] = call[u] /\ scan'[u] = scan[u] /\ grabbed'[u] = grabbed[u]
    /\ deal'[u] = deal[u]
    /\ msgs'[u] = msgs[u] /\ after'[u] = after[u] /\ kind'[u] = kind[u]
    /\ cur'[u] = cur[u] /\ bound'[u] = bound[u]
(* ... its place and its Capabilities are left alone too.                  *)
Keeps(u) ==
    /\ Same(u)
    /\ wakeup[u] => wakeup'[u]
    /\ pc'[u] = pc[u] /\ cap'[u] = cap[u] /\ want'[u] = want[u]
    /\ tcap'[u] = tcap[u] \/ (bound[u] /\ pc[u] \in Yielding /\ ~Free(tcap[u]))

(* What startWorkerTask makes of a worker structure that was not in use.   *)
Born(u, c) ==
    /\ Same(u) /\ u \in Fresh
    /\ pc'[u] = "sched" /\ cap'[u] = c /\ tcap'[u] = c /\ want'[u] = c

(* What a release by t leaves of the others: one worker h may be started on*)
(* c, the rest keep what they have.                                        *)
Others(t, h, c) == \A u \in Tasks \ {t} : IF u = h THEN Born(u, c) ELSE Keeps(u)

(* A Task that is left alone stays as it should be, but for its thread.    *)
LEMMA KeptTask ==
    ASSUME NEW t \in Tasks, Keeps(t), WaitOK(t), LoopOK(t), RoleOK(t)
    PROVE  WaitOK(t)' /\ LoopOK(t)' /\ RoleOK(t)'
  <1>1. WaitOK(t)'
    BY DEF Keeps, Same, WaitOK, InYield, Returning, Yielding, HoldsOwn
  <1>2. LoopOK(t)'
    BY DEF Keeps, Same, LoopOK
  <1>3. RoleOK(t)'
    BY DEF Keeps, Same, RoleOK, Looping, Entering, Syncing, Acquiring, InYield
  <1>4. QED
    BY <1>1, <1>2, <1>3

(* So does a worker structure that startWorkerTask takes into use.         *)
LEMMA BornTask ==
    ASSUME NEW t \in Tasks, NEW c \in Caps, Born(t, c), WaitOK(t), LoopOK(t), RoleOK(t)
    PROVE  WaitOK(t)' /\ LoopOK(t)' /\ RoleOK(t)'
  <1>1. WaitOK(t)'
    BY DEF Born, Same, WaitOK, InYield, Returning, Yielding
  <1>2. LoopOK(t)'
    BY EmptyQueue DEF Born, Same, Fresh, LoopOK
  <1>3. RoleOK(t)'
    BY CapabilityAssumption DEF Born, Same, Fresh, RoleOK, Looping, Entering, Syncing, Acquiring,
          InYield, Returning, Yielding
  <1>4. QED
    BY <1>1, <1>2, <1>3

(* A carried thread stays with its Task, in the books of the Capability.   *)
LEMMA KeptCur ==
    ASSUME NEW t \in Tasks, NEW u \in Tasks \ {t}, CurOK(u), Keeps(u),
           \A c \in Caps : suspended[c] \ {t} \subseteq suspended'[c], cap \in [Tasks -> Caps]
    PROVE  CurOK(u)'
  BY DEF CurOK, Keeps, Same, Resuming, Returning

(* A new worker carries no thread.                                         *)
LEMMA BornCur ==
    ASSUME NEW u \in Tasks, NEW c \in Caps, CurOK(u), Born(u, c)
    PROVE  CurOK(u)'
  BY DEF CurOK, Born, Same, Fresh, Resuming, Returning

(* All Tasks but the actor are as they should be after a step.             *)
LEMMA OthersOK ==
    ASSUME IInv, NEW t \in Tasks, NEW h, NEW c \in Caps, Others(t, h, c),
           \A d \in Caps : suspended[d] \ {t} \subseteq suspended'[d]
    PROVE  \A u \in Tasks \ {t} : WaitOK(u)' /\ LoopOK(u)' /\ RoleOK(u)' /\ CurOK(u)'
  <1> SUFFICES ASSUME NEW u \in Tasks \ {t}
               PROVE  WaitOK(u)' /\ LoopOK(u)' /\ RoleOK(u)' /\ CurOK(u)'
    OBVIOUS
  <1>1. WaitOK(u) /\ LoopOK(u) /\ RoleOK(u) /\ CurOK(u) /\ cap \in [Tasks -> Caps]
    BY DEF IInv, TaskInv, TaskOK, TypeOK
  <1>2. CASE u = h
    BY <1>1, <1>2, BornTask, BornCur DEF Others
  <1>3. CASE u # h
    <2>1. Keeps(u)
      BY <1>3 DEF Others
    <2>2. WaitOK(u)' /\ LoopOK(u)' /\ RoleOK(u)'
      BY <1>1, <2>1, KeptTask
    <2>3. QED
      BY <1>1, <2>1, <2>2, KeptCur
  <1>4. QED
    BY <1>2, <1>3

-------------------------------------------------------------------------------
(* Ownership: what a Task holds only depends on what Keeps keeps.          *)
LEMMA KeptHolding ==
    ASSUME NEW u, Keeps(u) PROVE Holding(u)' = Holding(u)
  BY DEF Keeps, Same, Holding, Acquiring

(* A new worker holds the Capability it was started on, and nothing before.*)
LEMMA BornHolding ==
    ASSUME NEW u, NEW c \in Caps, Born(u, c), LoopOK(u)
    PROVE  Holding(u) = {} /\ Holding(u)' = {c}
  <1>1. grabbed[u] = <<>> /\ grabbed'[u] = <<>>
    BY DEF Born, Same, Fresh, LoopOK
  <1>2. \A d : ~Contains(grabbed[u], d) /\ ~Contains(grabbed'[u], d)
    BY <1>1, EmptyQueue
  <1>3. Holding(u) = {}
    BY <1>2 DEF Born, Fresh, Holding, HoldsOwn, Acquiring
  <1>4. Holding(u)' = {c}
    BY <1>2 DEF Born, Same, Holding, HoldsOwn, Acquiring
  <1>5. QED
    BY <1>3, <1>4

(* A step that moves no Capability keeps the owners agreed on.             *)
LEMMA OwnersKept ==
    ASSUME OwnersAgree, NEW t \in Tasks, NEW c, Others(t, NoTask, c),
           running' = running, Holding(t)' = Holding(t)
    PROVE  OwnersAgree'
  <1>1. \A u \in Tasks : Holding(u)' = Holding(u)
    BY KeptHolding, CapabilityAssumption DEF Others, Tasks
  <1>2. QED
    BY <1>1 DEF OwnersAgree

(* So does one that takes a free Capability (waitForReturnCapability,      *)
(* yieldCapability, tryGrabCapability).                                    *)
LEMMA OwnersTake ==
    ASSUME OwnersAgree, TypeOK, NEW t \in Tasks, NEW c \in Caps, NEW d, Others(t, NoTask, d),
           Free(c), running' = [running EXCEPT ![c] = t], Holding(t)' = Holding(t) \cup {c}
    PROVE  OwnersAgree'
  <1>1. \A u \in Tasks \ {t} : Holding(u)' = Holding(u)
    BY KeptHolding, CapabilityAssumption DEF Others, Tasks
  <1>2. \A u \in Tasks : c \notin Holding(u)
    BY CapabilityAssumption DEF OwnersAgree, Free, Tasks
  <1>3. running \in [Caps -> Tasks \cup {NoTask}]
    BY DEF TypeOK
  <1>4. QED
    BY <1>1, <1>2, <1>3 DEF OwnersAgree

(* So does one that releases a Capability, free or to a new worker.        *)
LEMMA OwnersRelease ==
    ASSUME OwnersAgree, TypeOK, TaskInv, NEW t \in Tasks, NEW c \in Caps,
           NEW h \in Fresh \cup {NoTask}, h # t, Others(t, h, c),
           Free(c) \/ c \in Holding(t), running' = [running EXCEPT ![c] = h],
           Holding(t)' = Holding(t) \ {c}
    PROVE  OwnersAgree'
  <1>1. \A u \in Tasks \ {t} : u # h => Holding(u)' = Holding(u)
    BY KeptHolding DEF Others
  <1>2. h \in Tasks => Holding(h) = {} /\ Holding(h)' = {c}
    BY BornHolding DEF Others, TaskInv, TaskOK
  <1>3. running \in [Caps -> Tasks \cup {NoTask}]
    BY DEF TypeOK
  <1>4. \A u \in Tasks \ {t} : c \notin Holding(u)
    BY <1>3, CapabilityAssumption DEF OwnersAgree, Free, Tasks
  <1>5. h \in Tasks \cup {NoTask} /\ NoTask \notin Tasks
    BY CapabilityAssumption DEF Fresh, Tasks
  <1>6. QED
    BY <1>1, <1>2, <1>3, <1>4, <1>5 DEF OwnersAgree

-------------------------------------------------------------------------------
(* Waiting: the queues of Tasks and the wake-ups.                          *)
LEMMA QueuesKept ==
    ASSUME QueueInv, NEW t \in Tasks, NEW h, NEW c, Others(t, h, c),
           returning' = returning, spare' = spare, ~Waiting(t), ~Waiting(t)'
    PROVE  QueueInv'
  <1>1. ASSUME NEW u \in Tasks, NEW d \in Caps
        PROVE  /\ Contains(returning[d], u) <=> pc'[u] \in InQueue /\ tcap'[u] = d
               /\ Contains(spare[d], u) <=> ~bound'[u] /\ pc'[u] \in Yielding /\ tcap'[u] = d
    <2>1. /\ Contains(returning[d], u) <=> pc[u] \in InQueue /\ tcap[u] = d
          /\ Contains(spare[d], u) <=> ~bound[u] /\ pc[u] \in Yielding /\ tcap[u] = d
      BY DEF QueueInv, QueuedRight, InQueue, Yielding
    <2>2. CASE u = t
      BY <2>1, <2>2 DEF Waiting, InQueue, Yielding
    <2>3. CASE u # t /\ u = h
      BY <2>1, <2>3 DEF Others, Born, Fresh, InQueue, Yielding
    <2>4. CASE u # t /\ u # h
      BY <2>1, <2>4 DEF Others, Keeps, Same, InQueue, Yielding
    <2>5. QED
      BY <2>2, <2>3, <2>4
  <1>2. QED
    BY <1>1 DEF QueueInv, QueuedRight, InQueue, Yielding

(* A step of a Task that nobody has to wake loses no wake-up if it leaves  *)
(* nothing new to do on a free Capability.                                 *)
LEMMA WakeUpsKept ==
    ASSUME NoLostWakeup, NEW t \in Tasks, NEW h, NEW d, Others(t, h, d),
           ~Waiting(t), pc[t] # "return_lock",
           \A c \in Caps : Free(c)' /\ Unserved(c)' =>
               (Free(c) /\ Unserved(c)) \/ \E u \in Tasks : Coming(u, c)'
    PROVE  NoLostWakeup'
  <1> SUFFICES ASSUME NEW c \in Caps, Free(c)', Unserved(c)'
               PROVE  \E u \in Tasks : Coming(u, c)'
    BY DEF NoLostWakeup
  <1>1. CASE Free(c) /\ Unserved(c)
    <2>1. PICK u \in Tasks : Coming(u, c)
      BY <1>1 DEF NoLostWakeup
    <2>2. u # t /\ u # h /\ Keeps(u)
      BY <2>1 DEF Coming, Waiting, Others, Born, Fresh
    <2>3. Coming(u, c)'
      BY <1>1, <2>1, <2>2 DEF Coming, Waiting, Keeps, Yielding
    <2>4. QED
      BY <2>3
  <1>2. QED
    BY <1>1

(* What a release is told of the Tasks.                                    *)
TaskState ==
    [tcap : [Tasks -> Caps], wakeup : [Tasks -> BOOLEAN], pc : [Tasks -> Places],
     cap : [Tasks -> Caps], want : [Tasks -> Caps]]

(* The same, and lastFree, in their ranges afterwards.                     *)
ReleaseTyped ==
    /\ running' \in [Caps -> Tasks \cup {NoTask}] /\ lastFree' \in Caps
    /\ tcap' \in [Tasks -> Caps] /\ cap' \in [Tasks -> Caps] /\ want' \in [Tasks -> Caps]
    /\ wakeup' \in [Tasks -> BOOLEAN] /\ pc' \in [Tasks -> Places]

(* A release of c that starts the worker h, or none when h is NoTask.      *)
ReleasedTo(h, c, ts) ==
    /\ running' = [running EXCEPT ![c] = h]
    /\ ReleaseTyped
    /\ \A u \in Tasks : ts.wakeup[u] => wakeup'[u]
    /\ \A u \in Tasks : IF u = h
         THEN pc'[u] = "sched" /\ tcap'[u] = c /\ cap'[u] = c /\ want'[u] = c
         ELSE /\ pc'[u] = ts.pc[u] /\ tcap'[u] = ts.tcap[u]
              /\ cap'[u] = ts.cap[u] /\ want'[u] = ts.want[u]

(* What releaseCapability_ is given of the Tasks is well typed.            *)
LEMMA NowState == TypeOK /\ PlacesOK => Now \in TaskState
  BY DEF TypeOK, PlacesOK, Now, TaskState

(* releaseCapability_ in its three outcomes: a new worker, a Task told,    *)
(* nobody.                                                                 *)
LEMMA ReleaseEffect ==
    ASSUME TypeOK, NEW c \in Caps, NEW as, NEW ts \in TaskState, Release(c, as, ts)
    PROVE  \E h \in Fresh \cup {NoTask} : ReleasedTo(h, c, ts)
  <1> DEFINE heir == Heir(c, as)
  <1> HIDE DEF heir
  <1>0. /\ running \in [Caps -> Tasks \cup {NoTask}] /\ lastFree \in Caps
        /\ Fresh \subseteq Tasks /\ NoTask \notin Tasks /\ "sched" \in Places
    BY CapabilityAssumption DEF TypeOK, Fresh, Tasks, Places, HoldsOwn
  <1>1. CASE \E w \in Fresh :
                /\ running' = [running EXCEPT ![c] = w]
                /\ Set([ts EXCEPT !.tcap[w] = c, !.cap[w] = c, !.want[w] = c, !.pc[w] = "sched"])
                /\ lastFree' = lastFree
    <2>1. PICK w \in Fresh :
                /\ running' = [running EXCEPT ![c] = w]
                /\ Set([ts EXCEPT !.tcap[w] = c, !.cap[w] = c, !.want[w] = c, !.pc[w] = "sched"])
                /\ lastFree' = lastFree
      BY <1>1
    <2>2. /\ tcap' = [ts.tcap EXCEPT ![w] = c] /\ cap' = [ts.cap EXCEPT ![w] = c]
          /\ want' = [ts.want EXCEPT ![w] = c] /\ pc' = [ts.pc EXCEPT ![w] = "sched"]
          /\ wakeup' = ts.wakeup
      BY <2>1 DEF Set, TaskState
    <2>3. ReleasedTo(w, c, ts)
      BY <1>0, <2>1, <2>2 DEF TaskState, ReleasedTo, ReleaseTyped
    <2>4. QED
      BY <2>3
  <1>2. CASE /\ heir \in Tasks /\ running' = [running EXCEPT ![c] = NoTask]
             /\ Set([ts EXCEPT !.wakeup[heir] = TRUE]) /\ lastFree' = lastFree
    <2>1. /\ tcap' = ts.tcap /\ cap' = ts.cap /\ want' = ts.want /\ pc' = ts.pc
          /\ wakeup' = [ts.wakeup EXCEPT ![heir] = TRUE]
      BY <1>2 DEF Set, TaskState
    <2>2. ReleasedTo(NoTask, c, ts)
      BY <1>0, <1>2, <2>1 DEF TaskState, ReleasedTo, ReleaseTyped
    <2>3. QED
      BY <2>2
  <1>3. CASE running' = [running EXCEPT ![c] = NoTask] /\ Set(ts) /\ lastFree' = c
    <2>1. /\ tcap' = ts.tcap /\ cap' = ts.cap /\ want' = ts.want /\ pc' = ts.pc
          /\ wakeup' = ts.wakeup
      BY <1>3 DEF Set
    <2>2. ReleasedTo(NoTask, c, ts)
      BY <1>0, <1>3, <2>1 DEF TaskState, ReleasedTo, ReleaseTyped
    <2>3. QED
      BY <2>2
  <1>4. QED
    BY <1>1, <1>2, <1>3 DEF Release, heir

(* The release by a Task t that says nothing of the other Tasks.           *)
Mine(t, ts) ==
    /\ ts \in TaskState
    /\ \A u \in Tasks \ {t} :
         /\ ts.pc[u] = pc[u] /\ ts.tcap[u] = tcap[u] /\ ts.cap[u] = cap[u]
         /\ ts.want[u] = want[u] /\ ts.wakeup[u] = wakeup[u]

(* A release by t: at most one worker is started, the other Tasks keep what*)
(* they have, and t is as ts says.                                         *)
LEMMA ReleaseStep ==
    ASSUME TypeOK, NEW t \in Tasks, t \notin Fresh, NEW c \in Caps, NEW as, NEW ts,
           Mine(t, ts), Release(c, as, ts), \A u \in Tasks \ {t} : Same(u)
    PROVE  \E h \in Fresh \cup {NoTask} :
             /\ h # t /\ Others(t, h, c) /\ \A u \in Tasks \ {t, h} : tcap'[u] = tcap[u]
             /\ running' = [running EXCEPT ![c] = h]
             /\ ReleaseTyped
             /\ pc'[t] = ts.pc[t] /\ tcap'[t] = ts.tcap[t]
             /\ cap'[t] = ts.cap[t] /\ want'[t] = ts.want[t]
  <1>0. ts \in TaskState
    BY DEF Mine
  <1>1. PICK h \in Fresh \cup {NoTask} : ReleasedTo(h, c, ts)
    BY <1>0, ReleaseEffect
  <1>2. h # t
    BY CapabilityAssumption DEF Tasks
  <1>3. Others(t, h, c)
    <2> SUFFICES ASSUME NEW u \in Tasks \ {t} PROVE IF u = h THEN Born(u, c) ELSE Keeps(u)
      BY DEF Others
    <2>1. CASE u = h
      <3>1. u \in Fresh
        BY <2>1, CapabilityAssumption DEF Tasks
      <3>2. Born(u, c)
        BY <1>1, <2>1, <3>1 DEF Born, ReleasedTo
      <3>3. QED
        BY <2>1, <3>2
    <2>2. CASE u # h
      <3>1. Keeps(u)
        BY <1>1, <2>2 DEF Keeps, Mine, ReleasedTo
      <3>2. QED
        BY <2>2, <3>1
    <2>3. QED
      BY <2>1, <2>2
  <1>4. QED
    BY <1>1, <1>2, <1>3 DEF ReleasedTo, Mine

(* Nothing is left behind on a Capability that was released: if it is free *)
(* and there is something to do, the Task that was told is coming.         *)
LEMMA ReleaseServed ==
    ASSUME TypeOK, NEW c \in Caps, NEW as, NEW ts \in TaskState, Release(c, as, ts),
           returning' = returning, pendingSync' = pendingSync,
           runq'[c] = as.runq, inbox'[c] = as.inbox,
           as.runq \in Seq(Threads), as.spare \in Seq(Tasks), as.always \in BOOLEAN,
           \A u \in Tasks :
             Contains(returning[c], u) \/ Contains(as.spare, u) \/ Contains(as.runq, u)
               => ts.pc[u] \in InQueue \cup Yielding /\ ts.tcap[u] = c,
           Free(c)', Unserved(c)'
    PROVE  \E u \in Tasks : Coming(u, c)'
  <1> DEFINE heir == Heir(c, as)
  <1>1. heir # NoTask /\ (heir \in Tasks => /\ ts.pc[heir] \in InQueue \cup Yielding
                                            /\ ts.tcap[heir] = c)
    <2>1. CASE returning[c] # <<>>
      <3>1. returning[c] \in Seq(Tasks) /\ heir = Head(returning[c])
        BY <2>1 DEF TypeOK, Heir
      <3>2. heir \in Tasks /\ Contains(returning[c], heir)
        BY <2>1, <3>1, HeadIn
      <3>3. QED
        BY <3>2, CapabilityAssumption DEF Tasks
    <2>2. CASE returning[c] = <<>>
      <3>1. pendingSync = "none" /\ (as.runq # <<>> \/ as.inbox # <<>>)
        BY <2>2 DEF Unserved
      <3>2. heir = IF BoundHead(as.runq) THEN Head(as.runq)
                   ELSE IF as.spare = <<>> THEN NewWorker ELSE Head(as.spare)
        BY <2>2, <3>1 DEF Heir, NeedsWorker, WorkFor
      <3>3. CASE BoundHead(as.runq)
        <4>1. Contains(as.runq, heir) /\ heir \in Tasks
          BY <3>2, <3>3, HeadIn DEF BoundHead, Tasks
        <4>2. QED
          BY <4>1, CapabilityAssumption DEF Tasks
      <3>4. CASE ~BoundHead(as.runq) /\ as.spare = <<>>
        BY <3>2, <3>4, NewWorkerAssumption
      <3>5. CASE ~BoundHead(as.runq) /\ as.spare # <<>>
        <4>1. Contains(as.spare, heir) /\ heir \in Tasks
          BY <3>2, <3>5, HeadIn
        <4>2. QED
          BY <4>1, CapabilityAssumption DEF Tasks
      <3>6. QED
        BY <3>3, <3>4, <3>5
    <2>3. QED
      BY <2>1, <2>2
  <1> HIDE DEF heir
  <1>2. CASE \E w \in Fresh : running' = [running EXCEPT ![c] = w]
    <2>1. PICK w \in Fresh : running' = [running EXCEPT ![c] = w]
      BY <1>2
    <2>2. w \in Tasks /\ w # NoTask
      BY CapabilityAssumption DEF Fresh, Tasks
    <2>3. QED
      BY <2>1, <2>2 DEF Free, TypeOK
  <1>3. CASE heir \in Tasks /\ Set([ts EXCEPT !.wakeup[heir] = TRUE])
    <2>1. pc'[heir] = ts.pc[heir] /\ tcap'[heir] = ts.tcap[heir] /\ wakeup'[heir]
      BY <1>3 DEF Set, TaskState
    <2>2. QED
      BY <1>1, <1>3, <2>1 DEF Coming, Waiting, InQueue, Yielding
  <1>4. QED
    BY <1>1, <1>2, <1>3 DEF Release, heir

-------------------------------------------------------------------------------
(* A queued thread whose Task exists sleeps on this Capability with its    *)
(* Task, or its Task holds the Capability.                                 *)
LEMMA BoundQueued ==
    ASSUME IInv, NEW c \in Caps, NEW b \in Tasks, Contains(runq[c], b)
    PROVE  /\ b \in Callers /\ bound[b]
           /\ IF pc[b] \in Yielding THEN tcap[b] = c ELSE cap[b] = c /\ c \in Holding(b)
  <1>1. runq[c] \in Seq(Threads) /\ b \in Threads
    <2>1. runq[c] \in Seq(Threads)
      BY DEF IInv, TypeOK
    <2>2. QED
      BY <2>1, ElementOfSeq DEF Contains
  <1>2. b \in Callers
    BY <1>1, CapabilityAssumption DEF Threads, Tasks
  <1>3. tst[b] = "live" /\ Home[b] = c
    BY <1>1 DEF IInv, ThreadInv
  <1>4. TaskOK(b) /\ HomeOK(b) /\ RoleOK(b) /\ CurOK(b)
    BY <1>2 DEF IInv, TaskInv, TaskOK
  <1>5. bound[b] /\ c = IF pc[b] \in Yielding THEN tcap[b] ELSE cap[b]
    BY <1>3, <1>4 DEF HomeOK
  <1>6. Looping(b) /\ kind[b] = "eval"
    BY <1>2, <1>4, <1>5 DEF RoleOK
  <1>7. ASSUME pc[b] \notin Yielding PROVE c \in Holding(b)
    <2>1. cap[b] = c
      BY <1>5, <1>7
    <2>2. cur[b] = NoThread
      <3>1. SUFFICES ASSUME cur[b] # NoThread PROVE FALSE
        OBVIOUS
      <3>2. cur[b] = b
        BY <1>2, <1>4, <3>1 DEF CurOK
      <3>3. QED
        BY <2>1, <3>1, <3>2 DEF IInv, ThreadInv
    <2>3. pc[b] \in Places /\ call[b] \in {"none", "enter", "resume", "acquire", "sched", "seq", "other"}
      BY DEF IInv, PlacesOK
    <2>4. pc[b] \notin {"calling", "resumed", "none", "out", "entered", "leave"} /\ ~Resuming(b) /\ ~Entering(b)
      BY <1>4, <1>6, <2>2 DEF CurOK, Looping
    <2>5. pc[b] \in Returning => call[b] = "acquire"
      BY <1>4, <2>3, <2>4 DEF Resuming, Entering, WaitOK, TaskOK
    <2>6. pc[b] \in HoldsOwn \/ Acquiring(b) \/ pc[b] = "release_all"
      BY <1>7, <2>3, <2>4, <2>5 DEF Places, Acquiring, Returning
    <2>7. QED
      BY <1>6, <2>1, <2>6 DEF Holding
  <1>8. QED
    BY <1>2, <1>5, <1>7

(* Releasing a Capability loses no wake-up: of this one, or of another.    *)
LEMMA ReleaseWakes ==
    ASSUME IInv, NEW t \in Tasks, ~Waiting(t), pc[t] # "return_lock",
           NEW c \in Caps, c \in Holding(t) \/ Free(c),
           NEW h \in Fresh \cup {NoTask}, Others(t, h, c), running' = [running EXCEPT ![c] = h],
           NEW as, NEW ts, Mine(t, ts), Release(c, as, ts),
           returning' = returning, pendingSync' = pendingSync, runq' = runq,
           \A d \in Caps \ {c} : inbox'[d] = inbox[d],
           as.runq = runq[c], as.inbox = inbox'[c], as.always \in BOOLEAN,
           as.spare \in Seq(Tasks), \A u \in Tasks \ {t} : Contains(as.spare, u) => Contains(spare[c], u),
           Contains(as.spare, t) \/ Contains(runq[c], t) => ts.pc[t] \in Yielding /\ ts.tcap[t] = c
    PROVE  NoLostWakeup'
  <1>1. ASSUME NEW u \in Tasks, Contains(returning[c], u) \/ Contains(as.spare, u) \/ Contains(as.runq, u)
        PROVE  ts.pc[u] \in InQueue \cup Yielding /\ ts.tcap[u] = c
    <2>1. /\ Contains(returning[c], u) => pc[u] \in InQueue /\ tcap[u] = c
          /\ Contains(spare[c], u) => pc[u] \in Yielding /\ tcap[u] = c
      BY DEF IInv, QueueInv, QueuedRight, InQueue, Yielding
    <2>2. CASE u = t
      BY <1>1, <2>1, <2>2 DEF Waiting, InQueue
    <2>3. CASE u # t
      <3>1. ts.pc[u] = pc[u] /\ ts.tcap[u] = tcap[u]
        BY <2>3 DEF Mine
      <3>2. Contains(runq[c], u) => pc[u] \in Yielding /\ tcap[u] = c
        <4>1. c \notin Holding(u)
          BY <2>3, CapabilityAssumption DEF IInv, OwnersAgree, Free, Tasks
        <4>2. QED
          BY <4>1, BoundQueued
      <3>3. QED
        BY <1>1, <2>1, <2>3, <3>1, <3>2
    <2>4. QED
      BY <2>2, <2>3
  <1>2. ASSUME NEW d \in Caps, Free(d)', Unserved(d)'
        PROVE  (Free(d) /\ Unserved(d)) \/ \E u \in Tasks : Coming(u, d)'
    <2>1. CASE d = c
      <3>1. TypeOK /\ ts \in TaskState /\ as.runq \in Seq(Threads) /\ runq'[c] = as.runq
        BY DEF IInv, TypeOK, Mine
      <3>2. QED
        BY <1>1, <1>2, <2>1, <3>1, ReleaseServed
    <2>2. CASE d # c
      BY <1>2, <2>2 DEF Free, Unserved, IInv, TypeOK
    <2>3. QED
      BY <2>1, <2>2
  <1>3. QED
    BY <1>2, WakeUpsKept DEF IInv

-------------------------------------------------------------------------------
(* Threads that stay where they are.                                       *)
LEMMA ThreadsKept ==
    ASSUME IInv, NEW t \in Tasks, NEW h, NEW c, Others(t, h, c),
           runq' = runq, tst' = tst, Home' = Home, cur' = cur,
           cur[t] # NoThread => cap'[t] = cap[t]
    PROVE  ThreadInv'
  <1>1. \A u \in Tasks : cur[u] # NoThread => cap'[u] = cap[u]
    <2> SUFFICES ASSUME NEW u \in Tasks \ {t}, cur[u] # NoThread PROVE cap'[u] = cap[u]
      OBVIOUS
    <2>1. u \notin Fresh
      BY DEF Fresh, IInv, TaskInv, TaskOK, CurOK, Resuming, Returning
    <2>2. QED
      BY <2>1 DEF Others, Born, Keeps
  <1>2. QED
    BY <1>1 DEF IInv, ThreadInv

(* Threads that are not live may change their state without ado.           *)
LEMMA ThreadsStill ==
    ASSUME IInv, runq' = runq, cur' = cur,
           \A u \in Tasks : cur[u] # NoThread => cap'[u] = cap[u],
           \A x \in Threads : tst[x] = "live" \/ tst'[x] = "live"
                            => tst'[x] = tst[x] /\ Home'[x] = Home[x]
    PROVE  ThreadInv'
  <1>1. \A u \in Tasks : cur[u] # NoThread => cur[u] \in Threads
    BY DEF IInv, TypeOK
  <1>2. QED
    BY <1>1 DEF IInv, ThreadInv

(* A wake-up that is on its way for a thread stays on its way.             *)
LEMMA MigrationKept ==
    ASSUME MigrationInv, tst' = tst,
           \A th \in Threads : Woken(th) => Woken(th)'
    PROVE  MigrationInv'
  BY DEF MigrationInv

(* Bound threads stay with their Tasks if neither moves.                   *)
LEMMA HomesKept ==
    ASSUME IInv, NEW t \in Tasks, NEW h, NEW c, Others(t, h, c),
           \A b \in Callers \ {t} : /\ tst'[b] = "none" <=> tst[b] = "none"
                                   /\ Home'[b] = Home[b] /\ tcap'[b] = tcap[b]
    PROVE  \A b \in Callers \ {t} : HomeOK(b)'
  <1> SUFFICES ASSUME NEW b \in Callers \ {t} PROVE HomeOK(b)'
    OBVIOUS
  <1>1. HomeOK(b) /\ b \in Tasks
    BY DEF IInv, TaskInv, TaskOK, Tasks
  <1>2. Keeps(b)
    BY <1>1, CapabilityAssumption DEF Others, Born, Fresh
  <1>3. QED
    BY <1>1, <1>2 DEF HomeOK, Keeps, Same

-------------------------------------------------------------------------------
(* A step of Task t, put together.                                         *)
LEMMA StepInv ==
    ASSUME IInv, NEW t \in Tasks, NEW h, NEW c \in Caps, Others(t, h, c),
           \A b \in Callers \ {t} : /\ tst'[b] = "none" <=> tst[b] = "none"
                                   /\ Home'[b] = Home[b] /\ tcap'[b] = tcap[b],
           \A d \in Caps : suspended[d] \ {t} \subseteq suspended'[d],
           TypeOK', PlacesOK', TaskOK(t)', OwnersAgree', QueueInv', ThreadInv', MigrationInv', DealInv',
           NoLostWakeup'
    PROVE  IInv'
  <1>1. \A u \in Tasks \ {t} : WaitOK(u)' /\ LoopOK(u)' /\ RoleOK(u)' /\ CurOK(u)'
    BY OthersOK
  <1>2. \A b \in Callers \ {t} : HomeOK(b)'
    BY HomesKept
  <1>3. TaskInv'
    BY <1>1, <1>2 DEF TaskInv, TaskOK
  <1>4. QED
    BY <1>3 DEF IInv

(* A step that leaves threads, messages and queues alone keeps the         *)
(* invariant if the owners and the wake-ups are kept.                      *)
LEMMA QuietInv ==
    ASSUME IInv, NEW t \in Tasks, NEW h, NEW c \in Caps, Others(t, h, c),
           \A b \in Callers \ {t} : tcap'[b] = tcap[b],
           returning' = returning, spare' = spare, runq' = runq, inbox' = inbox,
           msgs' = msgs, cur' = cur, tst' = tst, Home' = Home, DealInv',
           \A d \in Caps : suspended[d] \ {t} \subseteq suspended'[d],
           TypeOK', PlacesOK', TaskOK(t)', cur[t] # NoThread => cap'[t] = cap[t],
           ~Waiting(t), ~Waiting(t)', OwnersAgree', NoLostWakeup'
    PROVE  IInv'
  <1>1. QueueInv'
    BY QueuesKept DEF IInv
  <1>2. ThreadInv'
    BY ThreadsKept
  <1>3. MigrationInv'
    BY DEF MigrationInv, Woken, IInv
  <1>4. QED
    BY <1>1, <1>2, <1>3, StepInv

(* Only the actor's own state changes.                                     *)
Alone(t) == \A u \in Tasks \ {t} : Keeps(u) /\ tcap'[u] = tcap[u]

(* There is a first Capability, the MainCapability.                        *)
LEMMA CapZero == 0 \in Caps
  BY CapabilityAssumption DEF Caps

(* A step of one Task alone is one that starts no worker.                  *)
LEMMA AloneOthers ==
    ASSUME NEW t \in Tasks, Alone(t) PROVE Others(t, NoTask, 0) /\ 0 \in Caps
  BY CapabilityAssumption DEF Alone, Others, Tasks, Caps

(* A step within what its Task holds (a step of schedulePushWork's or      *)
(* scheduleDoGC's loop, a return from one function into the next) keeps the*)
(* invariant.                                                              *)
LEMMA LocalInv ==
    ASSUME IInv, NEW t \in Tasks, Alone(t), running' = running,
           returning' = returning, spare' = spare, runq' = runq, inbox' = inbox,
           msgs' = msgs, suspended' = suspended, cur' = cur, tst' = tst, Home' = Home, DealInv',
           pendingSync' = pendingSync \/ pendingSync' # "none",
           TypeOK', PlacesOK', TaskOK(t)', cur[t] # NoThread => cap'[t] = cap[t],
           ~Waiting(t), pc[t] # "return_lock", ~Waiting(t)', Holding(t)' = Holding(t)
    PROVE  IInv'
  <1>1. Others(t, NoTask, 0) /\ 0 \in Caps
    BY AloneOthers
  <1>2. OwnersAgree'
    BY <1>1, OwnersKept DEF IInv
  <1>3. \A c \in Caps : Free(c)' /\ Unserved(c)' => Free(c) /\ Unserved(c)
    BY DEF Free, Unserved
  <1>4. NoLostWakeup'
    BY <1>1, <1>3, WakeUpsKept DEF IInv
  <1>5. \A b \in Callers \ {t} : tcap'[b] = tcap[b]
    BY DEF Alone, Tasks
  <1>6. QED
    BY <1>1, <1>2, <1>4, <1>5, QuietInv

(* The next Capability of a loop over all of them, from 0 again at the end.*)
LEMMA AdvanceEffect ==
    ASSUME TypeOK, NEW t \in Tasks, Advance(t)
    PROVE  /\ scan' \in [Tasks -> Caps]
           /\ \A u \in Tasks \ {t} : scan'[u] = scan[u]
           /\ scan'[t] = IF scan[t] + 1 < NCaps THEN scan[t] + 1 ELSE 0
           /\ scan[t] + 1 >= NCaps => scan[t] = NCaps - 1
  <1>1. scan \in [Tasks -> Caps] /\ scan[t] \in Caps /\ NCaps \in Nat \ {0}
    BY CapabilityAssumption DEF TypeOK
  <1>2. (IF scan[t] + 1 < NCaps THEN scan[t] + 1 ELSE 0) \in Caps
    BY <1>1 DEF Caps
  <1>3. scan' = [scan EXCEPT ![t] = IF scan[t] + 1 < NCaps THEN scan[t] + 1 ELSE 0]
    BY DEF Advance
  <1>4. scan[t] + 1 >= NCaps => scan[t] = NCaps - 1
    BY <1>1 DEF Caps
  <1>5. QED
    BY <1>1, <1>2, <1>3, <1>4

(* A Task that is awake has no thread of its own in a run queue but that of*)
(* its Capability.                                                         *)
LEMMA NotQueued ==
    ASSUME IInv, NEW t \in Tasks, NEW c \in Caps, c # cap[t] \/ ~bound[t], pc[t] \notin Yielding
    PROVE  ~Contains(runq[c], t)
  BY BoundQueued

(* A step that releases c and leaves queues and threads alone.             *)
LEMMA ReleaseInv ==
    ASSUME IInv, NEW t \in Tasks, ~Waiting(t), pc[t] # "return_lock",
           NEW c \in Caps, c \in Holding(t), ~Contains(runq[c], t),
           NEW h \in Fresh \cup {NoTask}, h # t, Others(t, h, c),
           \A u \in Tasks \ {t, h} : tcap'[u] = tcap[u],
           running' = [running EXCEPT ![c] = h],
           NEW as, NEW ts, Mine(t, ts), Release(c, as, ts),
           as.runq = runq[c], as.inbox = inbox[c], as.spare = spare[c], as.always \in BOOLEAN,
           returning' = returning, spare' = spare, runq' = runq, inbox' = inbox, pendingSync' = pendingSync,
           msgs' = msgs, cur' = cur, tst' = tst, Home' = Home, DealInv',
           \A d \in Caps : suspended[d] \ {t} \subseteq suspended'[d],
           TypeOK', PlacesOK', TaskOK(t)', cur[t] # NoThread => cap'[t] = cap[t],
           ~Waiting(t)', Holding(t)' = Holding(t) \ {c}
    PROVE  IInv'
  <1>1. OwnersAgree'
    BY OwnersRelease DEF IInv
  <1>2. spare[c] \in Seq(Tasks) /\ (Contains(spare[c], t) => pc[t] \in Yielding)
    BY DEF IInv, TypeOK, QueueInv, QueuedRight, Yielding
  <1>3. ~Contains(spare[c], t)
    BY <1>2 DEF Waiting, Yielding
  <1>4. NoLostWakeup'
    BY <1>2, <1>3, ReleaseWakes
  <1>5. \A b \in Callers \ {t} : tcap'[b] = tcap[b]
    BY CapabilityAssumption DEF Fresh, Tasks
  <1>6. QED
    BY <1>1, <1>4, <1>5, QuietInv

-------------------------------------------------------------------------------
(* Threads that move: onto a run queue, off it to a Task, and away.        *)
LEMMA Enqueued ==
    ASSUME IInv, NEW c \in Caps, NEW th \in Threads, NEW q,
           runq' = [runq EXCEPT ![c] = q], NoDup(q),
           \A x : Contains(q, x) <=> Contains(runq[c], x) \/ x = th,
           tst'[th] = "live", Home'[th] = c,
           \A x \in Threads \ {th} : tst'[x] = tst[x] /\ Home'[x] = Home[x],
           \A u \in Tasks : cur'[u] = (IF cur[u] = th THEN NoThread ELSE cur[u])
                            /\ (cur[u] # NoThread => cap'[u] = cap[u]),
           \A d \in Caps : ~Contains(runq[d], th)
    PROVE  ThreadInv'
  <1>1. /\ runq \in [Caps -> Seq(Threads)] /\ cur \in [Tasks -> Threads \cup {NoThread}]
        /\ cap \in [Tasks -> Caps] /\ NoThread \notin Threads /\ Home \in [Threads -> Caps]
    BY CapabilityAssumption, HomeType DEF IInv, TypeOK, Threads, NoThread
  <1>2. \A d \in Caps : \A x : Contains(runq'[d], x) <=> Contains(runq[d], x) \/ (d = c /\ x = th)
    BY <1>1
  <1>3. \A d \in Caps : NoDup(runq'[d])
    BY <1>1 DEF IInv, ThreadInv
  <1>4. \A d \in Caps, x \in Threads : Contains(runq'[d], x) => tst'[x] = "live" /\ Home'[x] = d
    <2> SUFFICES ASSUME NEW d \in Caps, NEW x \in Threads, Contains(runq'[d], x)
                 PROVE  tst'[x] = "live" /\ Home'[x] = d
      OBVIOUS
    <2>1. CASE x = th
      BY <1>2, <2>1
    <2>2. CASE x # th
      <3>1. Contains(runq[d], x)
        BY <1>2, <2>2
      <3>2. tst[x] = "live" /\ Home[x] = d
        BY <3>1 DEF IInv, ThreadInv
      <3>3. QED
        BY <2>2, <3>2
    <2>3. QED
      BY <2>1, <2>2
  <1>5. \A u \in Tasks : cur'[u] # NoThread =>
          /\ cur'[u] \in Threads \ {th} /\ cur'[u] = cur[u] /\ cap'[u] = cap[u]
          /\ tst'[cur'[u]] = "live" /\ Home'[cur'[u]] = cap'[u]
          /\ ~Contains(runq'[cap'[u]], cur'[u])
    <2> SUFFICES ASSUME NEW u \in Tasks, cur'[u] # NoThread
                 PROVE  /\ cur'[u] \in Threads \ {th} /\ cur'[u] = cur[u] /\ cap'[u] = cap[u]
                        /\ tst'[cur'[u]] = "live" /\ Home'[cur'[u]] = cap'[u]
                        /\ ~Contains(runq'[cap'[u]], cur'[u])
      OBVIOUS
    <2>1. cur[u] \in Threads \ {th} /\ cur'[u] = cur[u] /\ cap'[u] = cap[u] /\ cap[u] \in Caps
      BY <1>1
    <2>2. tst[cur[u]] = "live" /\ Home[cur[u]] = cap[u] /\ ~Contains(runq[cap[u]], cur[u])
      BY <2>1, <1>1 DEF IInv, ThreadInv
    <2>3. QED
      BY <1>2, <2>1, <2>2
  <1>6. \A u, v \in Tasks : cur'[u] # NoThread /\ cur'[u] = cur'[v] => u = v
    BY <1>5 DEF IInv, ThreadInv
  <1>7. ASSUME NEW x \in Threads, tst'[x] = "live"
        PROVE  Contains(runq'[Home'[x]], x) \/ \E u \in Tasks : cur'[u] = x
    <2>1. CASE x = th
      BY <1>2, <2>1
    <2>2. CASE x # th
      <3>1. tst[x] = "live" /\ Home'[x] = Home[x] /\ Home[x] \in Caps
        BY <1>1, <1>7, <2>2
      <3>2. CASE Contains(runq[Home[x]], x)
        BY <1>2, <3>1, <3>2
      <3>3. CASE \E u \in Tasks : cur[u] = x
        BY <1>1, <2>2, <3>3
      <3>4. QED
        BY <3>1, <3>2, <3>3 DEF IInv, ThreadInv
    <2>3. QED
      BY <2>1, <2>2
  <1>8. QED
    BY <1>3, <1>4, <1>5, <1>6, <1>7 DEF ThreadInv

(* A Task takes the head of the run queue of its Capability.               *)
LEMMA Dequeued ==
    ASSUME IInv, NEW t \in Tasks, NEW c \in Caps, c = cap[t], cur[t] = NoThread, runq[c] # <<>>,
           runq' = [runq EXCEPT ![c] = Tail(@)], cur' = [cur EXCEPT ![t] = Head(runq[c])],
           tst' = tst, Home' = Home, cap' = cap
    PROVE  ThreadInv'
  <1> DEFINE th == Head(runq[c])
  <1>1. /\ runq \in [Caps -> Seq(Threads)] /\ cur \in [Tasks -> Threads \cup {NoThread}]
        /\ cap \in [Tasks -> Caps] /\ NoThread \notin Threads /\ Home \in [Threads -> Caps]
    BY CapabilityAssumption, HomeType DEF IInv, TypeOK, Threads, NoThread
  <1>2. th \in Threads /\ Contains(runq[c], th)
    BY <1>1, HeadIn
  <1>3. NoDup(Tail(runq[c])) /\ \A x : Contains(Tail(runq[c]), x) <=> Contains(runq[c], x) /\ x # th
    BY <1>1, TailQueue DEF IInv, ThreadInv
  <1>4. tst[th] = "live" /\ Home[th] = c
    BY <1>2 DEF IInv, ThreadInv
  <1> HIDE DEF th
  <1>5. \A d \in Caps, x \in Threads : Contains(runq'[d], x) <=> Contains(runq[d], x) /\ x # th
    <2>1. \A d \in Caps, x \in Threads : d # c /\ Contains(runq[d], x) => x # th
      BY <1>4 DEF IInv, ThreadInv
    <2>2. QED
      BY <1>1, <1>3, <2>1
  <1>6. \A u \in Tasks : cur'[u] = IF u = t THEN th ELSE cur[u]
    BY <1>1 DEF th
  <1>7. \A u \in Tasks : cur[u] # th
    <2> SUFFICES ASSUME NEW u \in Tasks, cur[u] = th PROVE FALSE
      OBVIOUS
    <2>1. Home[th] = cap[u] /\ ~Contains(runq[cap[u]], th)
      BY <1>1, <1>2 DEF IInv, ThreadInv
    <2>2. QED
      BY <1>2, <1>4, <2>1
  <1>8. \A d \in Caps : NoDup(runq'[d])
    BY <1>1, <1>3 DEF IInv, ThreadInv
  <1>9. \A d \in Caps, x \in Threads : Contains(runq'[d], x) => tst'[x] = "live" /\ Home'[x] = d
    BY <1>5 DEF IInv, ThreadInv
  <1>10. \A u \in Tasks : cur'[u] # NoThread =>
          /\ tst'[cur'[u]] = "live" /\ Home'[cur'[u]] = cap'[u]
          /\ ~Contains(runq'[cap'[u]], cur'[u])
    <2> SUFFICES ASSUME NEW u \in Tasks, cur'[u] # NoThread
                 PROVE  /\ tst'[cur'[u]] = "live" /\ Home'[cur'[u]] = cap'[u]
                        /\ ~Contains(runq'[cap'[u]], cur'[u])
      OBVIOUS
    <2>1. CASE u = t
      BY <1>2, <1>4, <1>5, <1>6, <2>1
    <2>2. CASE u # t
      <3>1. cur'[u] = cur[u] /\ cur[u] \in Threads /\ cap[u] \in Caps
        BY <1>1, <1>6, <2>2
      <3>2. QED
        BY <1>5, <3>1 DEF IInv, ThreadInv
    <2>3. QED
      BY <2>1, <2>2
  <1>11. \A u, v \in Tasks : cur'[u] # NoThread /\ cur'[u] = cur'[v] => u = v
    BY <1>6, <1>7 DEF IInv, ThreadInv
  <1>12. \A x \in Threads : tst'[x] = "live" =>
           Contains(runq'[Home'[x]], x) \/ \E u \in Tasks : cur'[u] = x
    <2> SUFFICES ASSUME NEW x \in Threads, tst[x] = "live"
                 PROVE  Contains(runq'[Home[x]], x) \/ \E u \in Tasks : cur'[u] = x
      OBVIOUS
    <2>1. Contains(runq[Home[x]], x) \/ \E u \in Tasks : cur[u] = x
      BY DEF IInv, ThreadInv
    <2>2. Home[x] \in Caps /\ cur'[t] = th
      BY <1>1, <1>6
    <2>3. \A u \in Tasks : cur[u] = x => cur'[u] = x
      BY <1>1, <1>6
    <2>4. QED
      BY <1>5, <2>1, <2>2, <2>3
  <1>13. QED
    BY <1>8, <1>9, <1>10, <1>11, <1>12 DEF ThreadInv

(* A Task lets go of a thread that is no longer live: it has blocked or    *)
(* finished.                                                               *)
LEMMA Dropped ==
    ASSUME IInv, NEW t \in Tasks, NEW th \in Threads, cur[t] = th,
           cur' = [cur EXCEPT ![t] = NoThread], tst'[th] # "live",
           \A x \in Threads \ {th} : tst'[x] = tst[x] /\ Home'[x] = Home[x],
           runq' = runq, cap' = cap
    PROVE  ThreadInv'
  <1>1. /\ runq \in [Caps -> Seq(Threads)] /\ cur \in [Tasks -> Threads \cup {NoThread}]
        /\ cap \in [Tasks -> Caps] /\ NoThread \notin Threads
    BY CapabilityAssumption, HomeType DEF IInv, TypeOK, Threads, NoThread
  <1>2. \A u \in Tasks : cur'[u] = IF u = t THEN NoThread ELSE cur[u]
    BY <1>1
  <1>3. \A u \in Tasks : u # t => cur[u] # th
    BY <1>1 DEF IInv, ThreadInv
  <1>4. \A d \in Caps : ~Contains(runq[d], th)
    <2> SUFFICES ASSUME NEW d \in Caps, Contains(runq[d], th) PROVE FALSE
      OBVIOUS
    <2>1. Home[th] = d /\ Home[th] = cap[t] /\ ~Contains(runq[cap[t]], th)
      BY <1>1 DEF IInv, ThreadInv
    <2>2. QED
      BY <2>1
  <1>5. \A d \in Caps : NoDup(runq'[d])
    BY DEF IInv, ThreadInv
  <1>6. \A d \in Caps, x \in Threads : Contains(runq'[d], x) => tst'[x] = "live" /\ Home'[x] = d
    BY <1>4 DEF IInv, ThreadInv
  <1>7. \A u \in Tasks : cur'[u] # NoThread =>
          /\ tst'[cur'[u]] = "live" /\ Home'[cur'[u]] = cap'[u]
          /\ ~Contains(runq'[cap'[u]], cur'[u])
    BY <1>1, <1>2, <1>3, SMTT(30) DEF IInv, ThreadInv
  <1>8. \A u, v \in Tasks : cur'[u] # NoThread /\ cur'[u] = cur'[v] => u = v
    BY <1>2 DEF IInv, ThreadInv
  <1>9. \A x \in Threads : tst'[x] = "live" =>
           Contains(runq'[Home'[x]], x) \/ \E u \in Tasks : cur'[u] = x
    BY <1>1, <1>2 DEF IInv, ThreadInv
  <1>10. QED
    BY <1>5, <1>6, <1>7, <1>8, <1>9 DEF ThreadInv

-------------------------------------------------------------------------------
(* A step on the Capability a Task holds, with nobody told.                *)
LEMMA HeldInv ==
    ASSUME IInv, NEW t \in Tasks, Alone(t), running' = running, returning' = returning,
           spare' = spare, pendingSync' = pendingSync,
           Holding(t)' = Holding(t), cap[t] \in Holding(t),
           \A d \in Caps \ {cap[t]} : runq'[d] = runq[d] /\ inbox'[d] = inbox[d],
           \A b \in Callers \ {t} : /\ tst'[b] = "none" <=> tst[b] = "none"
                                   /\ Home'[b] = Home[b],
           \A d \in Caps : suspended[d] \ {t} \subseteq suspended'[d],
           TypeOK', PlacesOK', TaskOK(t)', ThreadInv', MigrationInv', DealInv',
           ~Waiting(t), pc[t] # "return_lock", ~Waiting(t)'
    PROVE  IInv'
  <1>1. Others(t, NoTask, 0) /\ 0 \in Caps
    BY AloneOthers
  <1>2. OwnersAgree'
    BY <1>1, OwnersKept DEF IInv
  <1>3. cap[t] \in Caps /\ running[cap[t]] = t
    BY DEF IInv, TypeOK, OwnersAgree
  <1>4. \A c \in Caps : Free(c)' /\ Unserved(c)' => Free(c) /\ Unserved(c)
    BY <1>3, CapabilityAssumption DEF Free, Unserved, Tasks
  <1>5. NoLostWakeup'
    BY <1>1, <1>4, WakeUpsKept DEF IInv
  <1>6. \A b \in Callers \ {t} : tcap'[b] = tcap[b]
    BY DEF Alone, Tasks
  <1>7. QueueInv'
    BY <1>1, QueuesKept DEF IInv
  <1>8. QED
    BY <1>1, <1>2, <1>5, <1>6, <1>7, StepInv

-------------------------------------------------------------------------------
(* The steps: every action of Schedule keeps IInv.                         *)

(* rts_lock or the like: a Task begins to wait for a Capability.           *)
LEMMA EnterInv == ASSUME IInv, NEW t \in Tasks, NEW k \in CallKinds, Enter(t, k) PROVE IInv'
  <1> USE DEF At, Step, Goto, capVars, queueVars, threadVars, loopVars
  <1> Home' = Home /\ DealInv'
    BY HomeStill DEF IInv, Enter, threadVars, loopVars
  <1>1. PICK c \in Caps : /\ tcap' = [tcap EXCEPT ![t] = c] /\ cap' = [cap EXCEPT ![t] = c]
                        /\ want' = [want EXCEPT ![t] = c]
    BY DEF Enter, IInv, TypeOK
  <1>2. tcap' \in [Tasks -> Caps] /\ cap' \in [Tasks -> Caps] /\ want' \in [Tasks -> Caps]
    BY <1>1 DEF IInv, TypeOK
  <1>3. /\ pc' \in [Tasks -> Places]
        /\ call' \in [Tasks -> {"none", "enter", "resume", "acquire", "sched", "seq", "other"}]
        /\ kind' \in [Tasks -> {"none", "eval", "gc", "fork"}]
    BY ScheduleAssumption DEF Enter, IInv, PlacesOK, Places, Returning
  <1>4. TypeOK' /\ PlacesOK'
    BY <1>2, <1>3 DEF Enter, IInv, TypeOK, PlacesOK
  <1>5. Alone(t)
    BY <1>1 DEF Enter, Alone, Keeps, Same, IInv, TypeOK, PlacesOK
  <1>6. /\ pc[t] = "out" /\ pc'[t] = "return_lock" /\ call'[t] = "enter"
        /\ want'[t] = c /\ tcap'[t] = c /\ cap'[t] = c
    BY <1>1 DEF Enter, IInv, TypeOK, PlacesOK
  <1>7. TaskOK(t)
    BY DEF IInv, TaskInv
  <1> USE DEF Enter
  <1>8. TaskOK(t)'
    BY <1>6, <1>7, EmptyQueue DEF TaskOK, WaitOK, LoopOK, RoleOK, CurOK, HomeOK, Looping, Entering,
          Resuming, Syncing, Acquiring, InYield, Returning, Yielding, HoldsOwn
  <1>9. Holding(t)' = Holding(t)
    BY <1>6, <1>7, EmptyQueue DEF TaskOK, LoopOK, Holding, HoldsOwn, Acquiring
  <1>10. QED
    BY <1>4, <1>5, <1>6, <1>7, <1>8, <1>9, LocalInv DEF TaskOK, CurOK, Waiting, Resuming, Returning

(* The inbox is empty, or its lock is busy: on to schedulePushWork.        *)
LEMMA InboxDoneInv == ASSUME IInv, NEW t \in Tasks, InboxDone(t) PROVE IInv'
  <1> USE DEF InboxDone, At, Step, Goto, capVars, queueVars, threadVars, loopVars
  <1> Home' = Home /\ DealInv'
    BY HomeStill DEF IInv, InboxDone, threadVars, loopVars
  <1>1. pc' \in [Tasks -> Places]
    BY DEF IInv, PlacesOK, Places, HoldsOwn
  <1>2. TypeOK' /\ PlacesOK'
    BY <1>1 DEF IInv, TypeOK, PlacesOK
  <1>3. Alone(t)
    BY <1>1 DEF Alone, Keeps, Same, IInv, TypeOK, PlacesOK
  <1>4. pc[t] = "inbox" /\ pc'[t] = "sched"
    BY <1>1 DEF IInv, TypeOK, PlacesOK
  <1>5. TaskOK(t)
    BY DEF IInv, TaskInv
  <1>6. TaskOK(t)'
    BY <1>4, <1>5, EmptyQueue DEF TaskOK, WaitOK, LoopOK, RoleOK, CurOK, HomeOK, Looping, Entering,
          Resuming, Syncing, Acquiring, InYield, Returning, Yielding, HoldsOwn
  <1>7. Holding(t)' = Holding(t)
    BY <1>4, <1>5, EmptyQueue DEF TaskOK, LoopOK, Holding, HoldsOwn, Acquiring
  <1>8. QED
    BY <1>2, <1>3, <1>4, <1>5, <1>6, <1>7, LocalInv DEF TaskOK, CurOK, Waiting

(* Nothing more to look for: on to the choice of a thread.                 *)
LEMMA FindWorkDoneInv == ASSUME IInv, NEW t \in Tasks, FindWorkDone(t) PROVE IInv'
  <1> USE DEF FindWorkDone, At, Step, Goto, capVars, queueVars, threadVars, loopVars
  <1> Home' = Home /\ DealInv'
    BY HomeStill DEF IInv, FindWorkDone, threadVars, loopVars
  <1>1. pc' \in [Tasks -> Places]
    BY DEF IInv, PlacesOK, Places, HoldsOwn
  <1>2. scan' \in [Tasks -> Caps]
    BY CapZero DEF IInv, TypeOK
  <1>3. TypeOK' /\ PlacesOK'
    BY <1>1, <1>2 DEF IInv, TypeOK, PlacesOK
  <1>4. Alone(t)
    BY <1>2 DEF Alone, Keeps, Same, IInv, TypeOK, PlacesOK
  <1>5. pc[t] = "sched" /\ pc'[t] \in {"push", "detect"} /\ scan'[t] = 0
    BY <1>1, <1>2 DEF IInv, TypeOK, PlacesOK
  <1>6. TaskOK(t)
    BY DEF IInv, TaskInv
  <1>7. TaskOK(t)'
    BY <1>5, <1>6, EmptyQueue DEF TaskOK, WaitOK, LoopOK, RoleOK, CurOK, HomeOK, Looping, Entering,
          Resuming, Syncing, Acquiring, InYield, Returning, Yielding, HoldsOwn
  <1>8. Holding(t)' = Holding(t)
    BY <1>5, <1>6, EmptyQueue DEF TaskOK, LoopOK, Holding, HoldsOwn, Acquiring
  <1>9. QED
    BY <1>3, <1>4, <1>5, <1>6, <1>7, <1>8, LocalInv DEF TaskOK, CurOK, Waiting

(* The scheduler is idle and asks for a collection.                        *)
LEMMA IdleGCInv == ASSUME IInv, NEW t \in Tasks, IdleGC(t) PROVE IInv'
  <1> USE DEF IdleGC, DoGC, At, Step, Goto, capVars, queueVars, threadVars, loopVars
  <1> Home' = Home /\ DealInv'
    BY HomeStill DEF IInv, IdleGC, threadVars, loopVars
  <1>1. pc' \in [Tasks -> Places]
    BY DEF IInv, PlacesOK, Places, HoldsOwn
  <1>2. after' \in [Tasks -> {"sched", "decide", "leave"}]
    BY DEF IInv, PlacesOK
  <1>3. TypeOK' /\ PlacesOK'
    BY <1>1, <1>2 DEF IInv, TypeOK, PlacesOK
  <1>4. Alone(t)
    BY <1>2 DEF Alone, Keeps, Same, IInv, TypeOK, PlacesOK
  <1>5. pc[t] = "detect" /\ pc'[t] = "sync" /\ after'[t] = "decide"
    BY <1>1, <1>2 DEF IInv, TypeOK, PlacesOK
  <1>6. TaskOK(t)
    BY DEF IInv, TaskInv
  <1>7. TaskOK(t)'
    BY <1>5, <1>6, EmptyQueue DEF TaskOK, WaitOK, LoopOK, RoleOK, CurOK, HomeOK, Looping, Entering,
          Resuming, Syncing, Acquiring, InYield, Returning, Yielding, HoldsOwn
  <1>8. Holding(t)' = Holding(t)
    BY <1>5, <1>6, EmptyQueue DEF TaskOK, LoopOK, Holding, HoldsOwn, Acquiring
  <1>9. QED
    BY <1>3, <1>4, <1>5, <1>6, <1>7, <1>8, LocalInv DEF TaskOK, CurOK, Waiting

(* Back from a yield to another synchronisation: the Task tries its own    *)
(* again, or has been served.                                              *)
LEMMA YieldedSyncInv == ASSUME IInv, NEW t \in Tasks, YieldedSync(t) PROVE IInv'
  <1> USE DEF YieldedSync, At, Step, Goto, capVars, queueVars, threadVars, loopVars
  <1> Home' = Home /\ DealInv'
    BY HomeStill DEF IInv, YieldedSync, threadVars, loopVars
  <1>1. pc' \in [Tasks -> Places]
    BY DEF IInv, PlacesOK, Places, HoldsOwn
  <1>2. after' \in [Tasks -> {"sched", "decide", "leave"}]
    BY DEF IInv, PlacesOK
  <1>3. call' \in [Tasks -> {"none", "enter", "resume", "acquire", "sched", "seq", "other"}]
    BY DEF IInv, PlacesOK
  <1>4. TypeOK' /\ PlacesOK'
    BY <1>1, <1>2, <1>3 DEF IInv, TypeOK, PlacesOK
  <1>5. Alone(t)
    BY <1>3 DEF Alone, Keeps, Same, IInv, PlacesOK
  <1>6. /\ pc[t] = "yielded" /\ call[t] # "sched"
        /\ \/ pc'[t] = "yield" /\ call'[t] = call[t] /\ after'[t] = after[t]
           \/ pc'[t] = after[t] /\ call'[t] = "none" /\ after[t] \in {"sched", "decide", "leave"}
           \/ pc'[t] = "sync" /\ call'[t] = "none" /\ after'[t] = after[t]
    BY <1>1, <1>2, <1>3, SMTT(30) DEF IInv, TypeOK, PlacesOK
  <1>7. TaskOK(t)
    BY DEF IInv, TaskInv
  <1>8. TaskOK(t)'
    BY <1>6, <1>7, EmptyQueue DEF TaskOK, WaitOK, LoopOK, RoleOK, CurOK, HomeOK, Looping, Entering,
          Resuming, Syncing, Acquiring, InYield, Returning, Yielding, HoldsOwn
  <1>9. Holding(t)' = Holding(t)
    BY <1>6, <1>7, EmptyQueue DEF TaskOK, LoopOK, Holding, HoldsOwn, Acquiring
  <1>10. QED
    BY <1>4, <1>5, <1>6, <1>7, <1>8, <1>9, LocalInv DEF TaskOK, CurOK, Waiting

(* requestSync: the Task wins pending_sync, or yields to who has.          *)
LEMMA RequestSyncInv == ASSUME IInv, NEW t \in Tasks, RequestSync(t) PROVE IInv'
  <1> USE DEF RequestSync, SyncType, YieldFor, At, Step, Goto, capVars, queueVars, threadVars, loopVars
  <1> Home' = Home /\ DealInv'
    BY HomeStill DEF IInv, RequestSync, threadVars, loopVars
  <1>1. pc' \in [Tasks -> Places]
    BY DEF IInv, PlacesOK, Places, HoldsOwn
  <1>2. scan' \in [Tasks -> Caps]
    BY CapZero DEF IInv, TypeOK
  <1>3. call' \in [Tasks -> {"none", "enter", "resume", "acquire", "sched", "seq", "other"}]
    BY DEF IInv, PlacesOK, TypeOK
  <1>4. pendingSync' \in {"none", "seq", "other"} /\ (pendingSync' = pendingSync \/ pendingSync' # "none")
    BY DEF IInv, TypeOK
  <1>5. \A c \in Caps : ~(c < 0)
    BY CapabilityAssumption DEF Caps
  <1>6. scan \in [Tasks -> Caps]
    BY DEF IInv, TypeOK
  <1>7. TypeOK' /\ PlacesOK'
    BY <1>1, <1>2, <1>3, <1>4, <1>5, <1>6 DEF IInv, TypeOK, PlacesOK
  <1>8. Alone(t)
    BY <1>6 DEF Alone, Keeps, Same, IInv, PlacesOK
  <1>9. /\ pc[t] = "sync"
        /\ \/ pc'[t] = "acquire" /\ call'[t] = call[t] /\ scan'[t] = 0
           \/ pc'[t] = "yield" /\ call'[t] \in {"seq", "other"} /\ scan'[t] = scan[t]
    <2>1. t \in DOMAIN pc /\ t \in DOMAIN call /\ t \in DOMAIN scan
      BY <1>6 DEF IInv, TypeOK, PlacesOK
    <2>2. CASE pendingSync = "none"
      BY <2>1, <2>2
    <2>3. CASE pendingSync # "none"
      <3>1. pendingSync \in {"seq", "other"}
        BY <2>3 DEF IInv, TypeOK
      <3>2. QED
        BY <2>1, <2>3, <3>1
    <2>4. QED
      BY <2>2, <2>3
  <1>10. TaskOK(t)
    BY DEF IInv, TaskInv
  <1>11. TaskOK(t)'
    BY <1>9, <1>10, EmptyQueue DEF TaskOK, WaitOK, LoopOK, RoleOK, CurOK, HomeOK, Looping, Entering,
          Resuming, Syncing, Acquiring, InYield, Returning, Yielding, HoldsOwn
  <1>12. Holding(t)' = Holding(t)
    BY <1>9, <1>10, EmptyQueue, <1>5 DEF TaskOK, LoopOK, Holding, HoldsOwn, Acquiring
  <1>13. QED
    BY <1>7, <1>8, <1>9, <1>10, <1>11, <1>12, LocalInv DEF TaskOK, CurOK, Waiting

(* acquireAllCapabilities begins to wait for the next Capability, or is at *)
(* the end.                                                                *)
LEMMA AcquireInv == ASSUME IInv, NEW t \in Tasks, Acquire(t) PROVE IInv'
  <1> USE DEF At, Step, Goto, capVars, queueVars, threadVars, loopVars
  <1> Home' = Home /\ DealInv'
    BY HomeStill DEF IInv, Acquire, threadVars, loopVars
  <1>1. TaskOK(t) /\ pc[t] = "acquire" /\ NCaps \in Nat \ {0} /\ scan[t] \in Caps
    BY CapabilityAssumption DEF Acquire, IInv, TaskInv, TypeOK
  <1>2. CASE scan[t] # cap[t]
    <2> USE DEF Acquire
    <2>1. pc' \in [Tasks -> Places]
      BY <1>2 DEF IInv, PlacesOK, Places, Returning
    <2>2. tcap' \in [Tasks -> Caps] /\ want' \in [Tasks -> Caps]
      BY <1>1, <1>2 DEF IInv, TypeOK
    <2>3. call' \in [Tasks -> {"none", "enter", "resume", "acquire", "sched", "seq", "other"}]
      BY <1>2 DEF IInv, PlacesOK
    <2>4. TypeOK' /\ PlacesOK'
      BY <1>2, <2>1, <2>2, <2>3 DEF IInv, TypeOK, PlacesOK
    <2>5. Alone(t)
      BY <1>2 DEF Alone, Keeps, Same, IInv, TypeOK, PlacesOK
    <2>6. /\ pc'[t] = "return_lock" /\ call'[t] = "acquire" /\ scan'[t] = scan[t]
          /\ want'[t] = scan[t] /\ tcap'[t] = scan[t] /\ cap'[t] = cap[t]
      BY <1>2 DEF IInv, TypeOK, PlacesOK
    <2>7. TaskOK(t)'
      BY <1>1, <1>2, <2>6 DEF TaskOK, WaitOK, LoopOK, RoleOK, CurOK, HomeOK, Looping, Entering,
          Resuming, Syncing, Acquiring, InYield, Returning, Yielding, HoldsOwn
    <2>8. Holding(t)' = Holding(t)
      BY <1>1, <2>6 DEF TaskOK, LoopOK, Holding, HoldsOwn, Acquiring
    <2>9. QED
      BY <1>1, <1>2, <2>4, <2>5, <2>6, <2>7, <2>8, LocalInv DEF Waiting
  <1>3. CASE scan[t] = cap[t]
    <2>1. Advance(t) /\ Step(t, AfterScan(t, "acquire", "stopped"))
          /\ tcap' = tcap /\ want' = want /\ call' = call
      BY <1>3 DEF Acquire
    <2> USE DEF AfterScan
    <2>2. pc' \in [Tasks -> Places]
      BY <2>1 DEF IInv, PlacesOK, Places, HoldsOwn
    <2>3. /\ scan' \in [Tasks -> Caps] /\ \A u \in Tasks \ {t} : scan'[u] = scan[u]
          /\ scan'[t] = IF scan[t] + 1 < NCaps THEN scan[t] + 1 ELSE 0
          /\ scan[t] + 1 >= NCaps => scan[t] = NCaps - 1
      BY <2>1, AdvanceEffect DEF IInv
    <2>4. TypeOK' /\ PlacesOK'
      BY <2>1, <2>2, <2>3 DEF Acquire, IInv, TypeOK, PlacesOK
    <2>5. Alone(t)
      BY <2>1, <2>3 DEF Acquire, Alone, Keeps, Same, IInv, PlacesOK
    <2>6. /\ pc'[t] = IF scan[t] + 1 < NCaps THEN "acquire" ELSE "stopped"
          /\ cap'[t] = cap[t]
      BY <2>1 DEF Acquire, IInv, PlacesOK
    <2>7. TaskOK(t)'
      BY <1>1, <2>1, <2>3, <2>6 DEF Acquire, TaskOK, WaitOK, LoopOK, RoleOK, CurOK, HomeOK, Looping, Entering,
          Resuming, Syncing, Acquiring, InYield, Returning, Yielding, HoldsOwn
    <2>8. Holding(t)' = Holding(t)
      <3>1. \A c \in Caps : c \in Int /\ (scan[t] = NCaps - 1 => c < scan[t] \/ c = scan[t])
        BY <1>1 DEF Caps
      <3>2. \A c \in Caps : c < scan[t] + 1 <=> c < scan[t] \/ c = scan[t]
        BY <1>1 DEF Caps
      <3>3. QED
        BY <1>1, <1>3, <2>1, <2>3, <2>6, <3>1, <3>2 DEF Acquire, TaskOK, LoopOK, Holding, HoldsOwn, Acquiring
    <2>9. QED
      BY <1>1, <2>1, <2>4, <2>5, <2>6, <2>7, <2>8, LocalInv DEF Acquire, Waiting
  <1>4. QED
    BY <1>2, <1>3

(* acquireAllCapabilities has one more Capability.                         *)
LEMMA AcquiredInv == ASSUME IInv, NEW t \in Tasks, Acquired(t) PROVE IInv'
  <1> USE DEF At, Step, Goto, capVars, queueVars, threadVars, loopVars, AfterScan
  <1> Home' = Home /\ DealInv'
    BY HomeStill DEF IInv, Acquired, threadVars, loopVars
  <1>1. TaskOK(t) /\ pc[t] = "acquired" /\ NCaps \in Nat \ {0} /\ scan[t] \in Caps
    BY CapabilityAssumption DEF Acquired, IInv, TaskInv, TypeOK
  <1>2. pc' \in [Tasks -> Places]
    BY DEF Acquired, IInv, PlacesOK, Places, HoldsOwn
  <1>3. /\ want' \in [Tasks -> Caps]
        /\ call' \in [Tasks -> {"none", "enter", "resume", "acquire", "sched", "seq", "other"}]
    BY DEF Acquired, IInv, TypeOK, PlacesOK
  <1>4. /\ scan' \in [Tasks -> Caps] /\ \A u \in Tasks \ {t} : scan'[u] = scan[u]
        /\ scan'[t] = IF scan[t] + 1 < NCaps THEN scan[t] + 1 ELSE 0
        /\ scan[t] + 1 >= NCaps => scan[t] = NCaps - 1
    BY AdvanceEffect DEF Acquired, IInv
  <1>5. TypeOK' /\ PlacesOK'
    BY <1>2, <1>3, <1>4 DEF Acquired, IInv, TypeOK, PlacesOK
  <1>6. Alone(t)
    BY <1>4 DEF Acquired, Alone, Keeps, Same, IInv, TypeOK, PlacesOK
  <1>7. /\ pc'[t] = IF scan[t] + 1 < NCaps THEN "acquire" ELSE "stopped"
        /\ cap'[t] = cap[t] /\ call'[t] = "none"
    BY DEF Acquired, IInv, PlacesOK
  <1>8. TaskOK(t)'
    BY <1>1, <1>4, <1>7 DEF Acquired, TaskOK, WaitOK, LoopOK, RoleOK, CurOK, HomeOK, Looping, Entering,
          Resuming, Syncing, Acquiring, InYield, Returning, Yielding, HoldsOwn
  <1>9. Holding(t)' = Holding(t)
    <2>1. \A c \in Caps : c \in Int /\ (scan[t] = NCaps - 1 => c < scan[t] \/ c = scan[t])
      BY <1>1 DEF Caps
    <2>2. \A c \in Caps : c < scan[t] + 1 <=> c < scan[t] \/ c = scan[t]
      BY <1>1 DEF Caps
    <2>3. QED
      BY <1>1, <1>4, <1>7, <2>1, <2>2 DEF Acquired, TaskOK, LoopOK, Holding, HoldsOwn, Acquiring
  <1>10. QED
    BY <1>1, <1>5, <1>6, <1>7, <1>8, <1>9, LocalInv DEF Acquired, Waiting

(* With the world stopped, the collection; or the fork.                    *)
LEMMA CollectInv == ASSUME IInv, NEW t \in Tasks, Collect(t) PROVE IInv'
  <1> USE DEF Collect, At, Step, Goto, capVars, queueVars, threadVars, loopVars
  <1> Home' = Home /\ DealInv'
    BY HomeStill DEF IInv, Collect, threadVars, loopVars
  <1>1. TaskOK(t) /\ pc[t] = "stopped" /\ cap[t] \in Caps
    BY DEF IInv, TaskInv, TypeOK
  <1>2. pc' \in [Tasks -> Places]
    BY DEF IInv, PlacesOK, Places
  <1>3. tcap' \in [Tasks -> Caps]
    BY DEF IInv, TypeOK
  <1>4. TypeOK' /\ PlacesOK'
    BY <1>2, <1>3 DEF IInv, TypeOK, PlacesOK
  <1>5. Alone(t)
    BY DEF Alone, Keeps, Same, IInv, TypeOK, PlacesOK
  <1>6. pc'[t] = "release_all" /\ scan[t] = 0
    BY <1>1 DEF IInv, PlacesOK, TaskOK, LoopOK
  <1>7. TaskOK(t)'
    BY <1>1, <1>6 DEF TaskOK, WaitOK, LoopOK, RoleOK, CurOK, HomeOK, Looping, Entering,
          Resuming, Syncing, Acquiring, InYield, Returning, Yielding, HoldsOwn
  <1>8. Holding(t) = Caps /\ Holding(t)' = Caps
    <2>1. \A c \in Caps : c >= 0
      BY CapabilityAssumption DEF Caps
    <2>2. QED
      BY <1>1, <1>6, <2>1 DEF Holding
  <1>9. Others(t, NoTask, 0) /\ 0 \in Caps
    BY <1>5, AloneOthers
  <1>10. OwnersAgree'
    BY <1>8, <1>9, OwnersKept DEF IInv
  <1>11. \A c \in Caps : ~Free(c)'
    BY <1>8, CapabilityAssumption DEF IInv, OwnersAgree, Free, Tasks
  <1>12. NoLostWakeup'
    BY <1>11 DEF NoLostWakeup
  <1>13. \A b \in Callers \ {t} : tcap'[b] = tcap[b]
    BY <1>5 DEF Alone, Tasks
  <1>14. QED
    BY <1>1, <1>4, <1>6, <1>7, <1>9, <1>10, <1>12, <1>13, QuietInv DEF Waiting

(* schedulePushWork looks into a Capability it has grabbed, and keeps it or*)
(* lets it go.                                                             *)
LEMMA PushLookInv == ASSUME IInv, NEW t \in Tasks, PushLook(t) PROVE IInv'
  <1> USE DEF At, threadVars, queueVars, AfterScan
  <1> Home' = Home /\ DealInv'
    BY HomeStill DEF IInv, PushLook, threadVars, loopVars
  <1> DEFINE d == scan[t]
             next == [Now EXCEPT !.pc[t] = AfterScan(t, "push", "push_share")]
             busy == runq[d] # <<>> \/ returning[d] # <<>> \/ inbox[d] # <<>>
  <1>1. /\ TaskOK(t) /\ pc[t] = "push_look" /\ NCaps \in Nat \ {0} /\ d \in Caps /\ d # cap[t]
        /\ grabbed[t] \in Seq(Caps) /\ ~Contains(grabbed[t], d) /\ NoDup(grabbed[t])
        /\ \A c \in Caps : Contains(grabbed[t], c) => c < d
    <2>1. /\ TaskOK(t) /\ pc[t] = "push_look" /\ d \in Caps /\ grabbed[t] \in Seq(Caps)
      BY DEF PushLook, IInv, TaskInv, TypeOK
    <2>2. /\ d # cap[t] /\ NoDup(grabbed[t])
          /\ \A c \in Caps : Contains(grabbed[t], c) => c < d
      BY <2>1 DEF TaskOK, LoopOK
    <2>3. NCaps \in Nat \ {0} /\ ~(d < d)
      BY <2>1, CapabilityAssumption DEF Caps
    <2>4. QED
      BY <2>1, <2>2, <2>3
  <1>2. /\ scan' \in [Tasks -> Caps] /\ \A u \in Tasks \ {t} : scan'[u] = scan[u]
        /\ scan'[t] = IF d + 1 < NCaps THEN d + 1 ELSE 0
    BY AdvanceEffect DEF PushLook, IInv
  <1>3. /\ next.pc[t] = IF d + 1 < NCaps THEN "push" ELSE "push_share"
        /\ next.tcap[t] = tcap[t] /\ next.cap[t] = cap[t] /\ next.want[t] = want[t]
        /\ Mine(t, next)
    BY DEF Mine, Now, TaskState, IInv, TypeOK, PlacesOK, Places, HoldsOwn
  <1>4. \A c \in Caps : Contains(grabbed[t], c) => c < d + 1
    BY <1>1 DEF Caps
  <1> HIDE DEF next
  <1>5. CASE busy /\ Release(d, As(d), next) /\ grabbed' = grabbed
    <2>1. \A u \in Tasks \ {t} : Same(u)
      BY <1>2, <1>5 DEF PushLook, Same
    <2>2. t \notin Fresh
      BY <1>1 DEF Fresh
    <2>3. PICK h \in Fresh \cup {NoTask} :
             /\ h # t /\ Others(t, h, d) /\ \A u \in Tasks \ {t, h} : tcap'[u] = tcap[u]
             /\ running' = [running EXCEPT ![d] = h]
             /\ ReleaseTyped
             /\ pc'[t] = next.pc[t] /\ tcap'[t] = next.tcap[t]
             /\ cap'[t] = next.cap[t] /\ want'[t] = next.want[t]
      BY <1>1, <1>3, <1>5, <2>1, <2>2, ReleaseStep DEF IInv
    <2>4. TypeOK' /\ PlacesOK'
      BY <1>2, <1>5, <2>3 DEF PushLook, IInv, TypeOK, PlacesOK, ReleaseTyped
    <2>5. TaskOK(t)'
      BY <1>1, <1>2, <1>3, <1>4, <1>5, <2>3 DEF PushLook, TaskOK, WaitOK, LoopOK, RoleOK, CurOK, HomeOK, Looping, Entering,
          Resuming, Syncing, Acquiring, InYield, Returning, Yielding, HoldsOwn
    <2>6. Holding(t)' = Holding(t) \ {d} /\ d \in Holding(t)
      BY <1>1, <1>3, <1>5, <2>3 DEF TaskOK, LoopOK, Holding, HoldsOwn, Acquiring
    <2>7. ~Contains(runq[d], t)
      BY <1>1, NotQueued DEF Yielding
    <2>8. /\ As(d).runq = runq[d] /\ As(d).inbox = inbox[d] /\ As(d).spare = spare[d]
          /\ As(d).always \in BOOLEAN
      BY DEF As
    <2>9. QED
      BY <1>1, <1>3, <1>5, <2>3, <2>4, <2>5, <2>6, <2>7, <2>8, ReleaseInv DEF PushLook, Waiting
  <1>6. CASE grabbed' = [grabbed EXCEPT ![t] = Append(@, d)] /\ Set(next) /\ UNCHANGED <<running, lastFree>>
    <2>1. /\ Append(grabbed[t], d) \in Seq(Caps) /\ Append(grabbed[t], d) # <<>>
          /\ NoDup(Append(grabbed[t], d))
          /\ \A x : Contains(Append(grabbed[t], d), x) <=> Contains(grabbed[t], x) \/ x = d
      BY <1>1, AppendQueue
    <2>2. /\ grabbed' \in [Tasks -> Seq(Caps)] /\ grabbed'[t] = Append(grabbed[t], d)
          /\ \A u \in Tasks \ {t} : grabbed'[u] = grabbed[u]
      BY <1>6, <2>1 DEF IInv, TypeOK
    <2>3. /\ tcap' = tcap /\ wakeup' = wakeup /\ cap' = cap /\ want' = want
          /\ pc' = [pc EXCEPT ![t] = IF d + 1 < NCaps THEN "push" ELSE "push_share"]
      BY <1>6 DEF Set, Now, next
    <2>4. TypeOK' /\ PlacesOK'
      BY <1>2, <1>6, <2>2, <2>3 DEF PushLook, IInv, TypeOK, PlacesOK, Places, HoldsOwn
    <2>5. Alone(t)
      BY <1>2, <2>2, <2>3 DEF PushLook, Alone, Keeps, Same, IInv, PlacesOK
    <2>6. pc'[t] = IF d + 1 < NCaps THEN "push" ELSE "push_share"
      BY <2>3 DEF IInv, PlacesOK
    <2>7. d < d + 1
      BY <1>1 DEF Caps
    <2>8. TaskOK(t)'
      BY <1>1, <1>2, <1>4, <2>1, <2>2, <2>3, <2>6, <2>7 DEF PushLook, TaskOK, WaitOK, LoopOK, RoleOK, CurOK, HomeOK, Looping, Entering,
          Resuming, Syncing, Acquiring, InYield, Returning, Yielding, HoldsOwn
    <2>9. Holding(t)' = Holding(t)
      BY <1>1, <2>1, <2>2, <2>3, <2>6 DEF TaskOK, LoopOK, Holding, HoldsOwn, Acquiring
    <2>10. QED
      BY <1>1, <1>6, <2>3, <2>4, <2>5, <2>6, <2>8, <2>9, LocalInv DEF PushLook, Waiting
  <1>7. QED
    BY <1>5, <1>6 DEF PushLook, next

(* rts_unlock: the Capability is released and the Task goes outside.       *)
LEMMA LeaveInv == ASSUME IInv, NEW t \in Tasks, Leave(t) PROVE IInv'
  <1> USE DEF At, threadVars, queueVars
  <1> Home' = Home /\ DealInv'
    BY HomeStill DEF IInv, Leave, threadVars, loopVars
  <1> DEFINE c == cap[t]
             ts == Outside(t)
  <1>1. TaskOK(t) /\ pc[t] = "leave" /\ c \in Caps /\ 0 \in Caps
    BY CapZero DEF Leave, IInv, TaskInv, TypeOK
  <1>2. /\ ts.pc[t] = "out" /\ ts.tcap[t] = 0 /\ ts.cap[t] = 0 /\ ts.want[t] = 0
        /\ Mine(t, ts)
    BY <1>1, ZenonT(30) DEF Mine, Outside, Now, TaskState, IInv, TypeOK, PlacesOK, Places
  <1> HIDE DEF ts
  <1>3. Release(c, As(c), ts)
    BY DEF Leave, ts
  <1>4. /\ kind' \in [Tasks -> {"none", "eval", "gc", "fork"}] /\ kind'[t] = "none"
        /\ \A u \in Tasks \ {t} : Same(u)
    BY DEF Leave, Same, IInv, PlacesOK
  <1>5. t \notin Fresh
    BY <1>1 DEF Fresh
  <1>6. PICK h \in Fresh \cup {NoTask} :
             /\ h # t /\ Others(t, h, c) /\ \A u \in Tasks \ {t, h} : tcap'[u] = tcap[u]
             /\ running' = [running EXCEPT ![c] = h]
             /\ ReleaseTyped
             /\ pc'[t] = ts.pc[t] /\ tcap'[t] = ts.tcap[t]
             /\ cap'[t] = ts.cap[t] /\ want'[t] = ts.want[t]
    BY <1>1, <1>2, <1>3, <1>4, <1>5, ReleaseStep DEF IInv
  <1>7. TypeOK' /\ PlacesOK'
    BY <1>4, <1>6 DEF Leave, IInv, TypeOK, PlacesOK, ReleaseTyped
  <1>8. TaskOK(t)'
    BY <1>1, <1>2, <1>4, <1>6, EmptyQueue, CapabilityAssumption DEF Leave, Tasks, TaskOK, WaitOK, LoopOK, RoleOK, CurOK, HomeOK, Looping, Entering,
          Resuming, Syncing, Acquiring, InYield, Returning, Yielding, HoldsOwn
  <1>9. Holding(t)' = Holding(t) \ {c} /\ c \in Holding(t)
    BY <1>1, <1>2, <1>6, EmptyQueue DEF Leave, TaskOK, LoopOK, Holding, HoldsOwn, Acquiring
  <1>10. ~bound[t] /\ cur[t] = NoThread
    BY <1>1 DEF TaskOK, RoleOK, CurOK, Looping, Resuming, Returning, Tasks
  <1>11. ~Contains(runq[c], t)
    BY <1>1, <1>10, NotQueued DEF Yielding
  <1>12. /\ As(c).runq = runq[c] /\ As(c).inbox = inbox[c] /\ As(c).spare = spare[c]
         /\ As(c).always \in BOOLEAN
    BY DEF As
  <1>13. QED
    BY <1>1, <1>2, <1>3, <1>6, <1>7, <1>8, <1>9, <1>10, <1>11, <1>12, ReleaseInv DEF Leave, Waiting

(* suspendThread: the Capability is released around a safe foreign call.   *)
LEMMA SafeCallInv == ASSUME IInv, NEW t \in Tasks, SafeCall(t) PROVE IInv'
  <1> USE DEF At, Running, threadVars, queueVars, loopVars
  <1> Home' = Home /\ DealInv'
    BY HomeStill DEF IInv, SafeCall, threadVars, loopVars
  <1> DEFINE c == cap[t]
             ts == [Now EXCEPT !.pc[t] = "calling"]
  <1>1. TaskOK(t) /\ pc[t] = "run" /\ c \in Caps
    BY DEF SafeCall, IInv, TaskInv, TypeOK
  <1>2. /\ ts.pc[t] = "calling" /\ ts.tcap[t] = tcap[t] /\ ts.cap[t] = cap[t] /\ ts.want[t] = want[t]
        /\ Mine(t, ts)
    BY DEF Mine, Now, TaskState, IInv, TypeOK, PlacesOK, Places
  <1> HIDE DEF ts
  <1>3. Release(c, As(c), ts)
    BY DEF SafeCall, ts
  <1>4. /\ suspended' \in [Caps -> SUBSET Tasks] /\ t \in suspended'[c]
        /\ \A d \in Caps : suspended[d] \ {t} \subseteq suspended'[d]
        /\ \A u \in Tasks \ {t} : Same(u)
    BY <1>1 DEF SafeCall, Same, IInv, TypeOK
  <1>5. t \notin Fresh
    BY <1>1 DEF Fresh
  <1>6. PICK h \in Fresh \cup {NoTask} :
             /\ h # t /\ Others(t, h, c) /\ \A u \in Tasks \ {t, h} : tcap'[u] = tcap[u]
             /\ running' = [running EXCEPT ![c] = h]
             /\ ReleaseTyped
             /\ pc'[t] = ts.pc[t] /\ tcap'[t] = ts.tcap[t]
             /\ cap'[t] = ts.cap[t] /\ want'[t] = ts.want[t]
    BY <1>1, <1>2, <1>3, <1>4, <1>5, ReleaseStep DEF IInv
  <1>7. TypeOK' /\ PlacesOK'
    BY <1>4, <1>6 DEF SafeCall, IInv, TypeOK, PlacesOK, ReleaseTyped
  <1>8. TaskOK(t)'
    BY <1>1, <1>2, <1>4, <1>6 DEF SafeCall, TaskOK, WaitOK, LoopOK, RoleOK, CurOK, HomeOK, Looping, Entering,
          Resuming, Syncing, Acquiring, InYield, Returning, Yielding, HoldsOwn
  <1>9. Holding(t)' = Holding(t) \ {c} /\ c \in Holding(t)
    BY <1>1, <1>2, <1>6, EmptyQueue DEF SafeCall, TaskOK, LoopOK, Holding, HoldsOwn, Acquiring
  <1>10. ~Contains(runq[c], t)
    <2>1. cur[t] # NoThread /\ (t \in Callers => cur[t] = t)
      BY <1>1 DEF TaskOK, CurOK
    <2>2. ~Contains(runq[c], cur[t])
      BY <2>1 DEF IInv, ThreadInv
    <2>3. QED
      BY <1>1, <2>1, <2>2, BoundQueued
  <1>11. /\ As(c).runq = runq[c] /\ As(c).inbox = inbox[c] /\ As(c).spare = spare[c]
         /\ As(c).always \in BOOLEAN
    BY DEF As
  <1>12. QED
    BY <1>1, <1>2, <1>3, <1>4, <1>6, <1>7, <1>8, <1>9, <1>10, <1>11, ReleaseInv DEF SafeCall, Waiting

(* schedulePushWork releases what it grabbed.                              *)
LEMMA PushReleaseInv == ASSUME IInv, NEW t \in Tasks, PushRelease(t) PROVE IInv'
  <1> USE DEF At, threadVars, queueVars
  <1> Home' = Home /\ DealInv'
    BY HomeStill DEF IInv, PushRelease, threadVars, loopVars
  <1> DEFINE c == Head(grabbed[t])
             last == Len(grabbed[t]) = 1
             told == [As(c) EXCEPT !.always = TRUE]
             ts == [Now EXCEPT !.tcap[t] = IF last THEN cap[t] ELSE c,
                               !.pc[t] = IF last THEN "detect" ELSE "push_release"]
  <1>1. TaskOK(t) /\ pc[t] = "push_release" /\ cap[t] \in Caps /\ grabbed[t] \in Seq(Caps)
    BY DEF PushRelease, IInv, TaskInv, TypeOK
  <1>2. grabbed[t] # <<>> /\ NoDup(grabbed[t]) /\ ~Contains(grabbed[t], cap[t])
    BY <1>1 DEF TaskOK, LoopOK
  <1>3. /\ c \in Caps /\ Contains(grabbed[t], c)
        /\ Tail(grabbed[t]) \in Seq(Caps) /\ NoDup(Tail(grabbed[t]))
        /\ \A x : Contains(Tail(grabbed[t]), x) <=> Contains(grabbed[t], x) /\ x # c
    BY <1>1, <1>2, HeadIn, TailQueue
  <1>4. last <=> Tail(grabbed[t]) = <<>>
    <2>1. Len(Tail(grabbed[t])) = Len(grabbed[t]) - 1 /\ Len(grabbed[t]) \in Nat
      BY <1>1, <1>2, HeadTailProperties, LenProperties
    <2>2. Tail(grabbed[t]) = <<>> <=> Len(Tail(grabbed[t])) = 0
      BY <1>3, EmptySeq
    <2>3. QED
      BY <2>1, <2>2
  <1> HIDE DEF c, last
  <1>5. /\ ts.pc[t] = (IF last THEN "detect" ELSE "push_release")
        /\ ts.tcap[t] = (IF last THEN cap[t] ELSE c) /\ ts.cap[t] = cap[t] /\ ts.want[t] = want[t]
        /\ Mine(t, ts)
    BY <1>1, <1>3 DEF Mine, Now, TaskState, IInv, TypeOK, PlacesOK, Places, HoldsOwn
  <1>6. told.runq = runq[c] /\ told.inbox = inbox[c] /\ told.spare = spare[c] /\ told.always \in BOOLEAN
    BY DEF As
  <1> HIDE DEF ts, told
  <1>7. Release(c, told, ts)
    BY DEF PushRelease, ts, told, last, c
  <1>8. /\ grabbed' \in [Tasks -> Seq(Caps)] /\ grabbed'[t] = Tail(grabbed[t])
        /\ \A u \in Tasks \ {t} : Same(u)
    BY <1>3 DEF PushRelease, Same, IInv, TypeOK
  <1>9. t \notin Fresh
    BY <1>1 DEF Fresh
  <1>10. TypeOK /\ c \in Caps /\ Mine(t, ts) /\ \A u \in Tasks \ {t} : Same(u)
    BY <1>3, <1>5, <1>8 DEF IInv
  <1>11. PICK h \in Fresh \cup {NoTask} :
             /\ h # t /\ Others(t, h, c) /\ \A u \in Tasks \ {t, h} : tcap'[u] = tcap[u]
             /\ running' = [running EXCEPT ![c] = h]
             /\ ReleaseTyped
             /\ pc'[t] = ts.pc[t] /\ tcap'[t] = ts.tcap[t]
             /\ cap'[t] = ts.cap[t] /\ want'[t] = ts.want[t]
    BY <1>7, <1>9, <1>10, ReleaseStep DEF c
  <1>12. TypeOK' /\ PlacesOK'
    BY <1>8, <1>11 DEF PushRelease, IInv, TypeOK, PlacesOK, ReleaseTyped
  <1>13. TaskOK(t)'
    BY <1>1, <1>2, <1>3, <1>4, <1>5, <1>8, <1>11 DEF PushRelease, TaskOK, WaitOK, LoopOK, RoleOK, CurOK, HomeOK, Looping, Entering,
          Resuming, Syncing, Acquiring, InYield, Returning, Yielding, HoldsOwn
  <1>14. Holding(t)' = Holding(t) \ {c} /\ c \in Holding(t)
    BY <1>1, <1>2, <1>3, <1>4, <1>5, <1>8, <1>11 DEF PushRelease, TaskOK, LoopOK, Holding, HoldsOwn, Acquiring
  <1>15. ~Contains(runq[c], t)
    BY <1>1, <1>2, <1>3, NotQueued DEF Yielding
  <1>16. QED
    BY <1>1, <1>3, <1>5, <1>6, <1>7, <1>11, <1>12, <1>13, <1>14, <1>15, ReleaseInv DEF PushRelease, Waiting

(* releaseAllCapabilities, one by one.                                     *)
LEMMA ReleaseAllInv == ASSUME IInv, NEW t \in Tasks, ReleaseAll(t) PROVE IInv'
  <1> USE DEF At, threadVars, queueVars
  <1> Home' = Home /\ DealInv'
    BY HomeStill DEF IInv, ReleaseAll, threadVars, loopVars
  <1> DEFINE c == scan[t]
             last == c + 1 = NCaps
             forked == kind[t] = "fork"
             next == IF last THEN after[t] ELSE "release_all"
             home == IF last THEN cap[t] ELSE c
             Rest == /\ returning' = returning /\ spare' = spare /\ runq' = runq /\ inbox' = inbox
                     /\ pendingSync' = pendingSync /\ msgs' = msgs /\ cur' = cur /\ tst' = tst
                     /\ tsoCap' = tsoCap /\ suspended' = suspended
  <1>1. /\ TaskOK(t) /\ pc[t] = "release_all" /\ cap[t] \in Caps /\ c \in Caps
        /\ NCaps \in Nat \ {0}
    BY CapabilityAssumption DEF ReleaseAll, IInv, TaskInv, TypeOK
  <1>2. /\ grabbed[t] = <<>> /\ cur[t] = NoThread
        /\ after[t] \in {"sched", "decide", "leave"}
    BY <1>1 DEF TaskOK, LoopOK, CurOK, Resuming, Returning, IInv, PlacesOK
  <1>3. /\ scan' \in [Tasks -> Caps] /\ \A u \in Tasks \ {t} : scan'[u] = scan[u]
        /\ scan'[t] = IF last THEN 0 ELSE c + 1
    <2>1. c + 1 < NCaps <=> ~last
      BY <1>1 DEF Caps
    <2>2. QED
      BY <2>1, AdvanceEffect DEF ReleaseAll, IInv
  <1>4. /\ after' \in [Tasks -> {"sched", "decide", "leave"}]
        /\ kind' \in [Tasks -> {"none", "eval", "gc", "fork"}]
        /\ after'[t] = IF last THEN "sched" ELSE after[t]
        /\ kind'[t] = IF last /\ forked THEN "none" ELSE kind[t]
        /\ \A u \in Tasks \ {t} : Same(u)
    BY <1>3 DEF ReleaseAll, Same, IInv, PlacesOK
  <1>5. Rest
    BY DEF ReleaseAll
  <1>6. \A d \in Caps : /\ d >= c + 1 <=> d >= c /\ d # c
                        /\ last => (d >= c <=> d = c)
    BY <1>1 DEF Caps
  <1>7. t \notin Fresh
    BY <1>1 DEF Fresh
  <1>8. /\ As(c).runq = runq[c] /\ As(c).inbox = inbox[c] /\ As(c).spare = spare[c]
        /\ As(c).always \in BOOLEAN
    BY DEF As
  <1> HIDE DEF c, last
  <1>9. ASSUME NEW ts, Mine(t, ts), Release(c, As(c), ts), forked \/ c # cap[t],
               \/ ~forked /\ ts.pc[t] = next /\ ts.tcap[t] = home /\ ts.cap[t] = cap[t] /\ ts.want[t] = want[t]
               \/ /\ forked /\ ~last /\ ts.pc[t] = pc[t]
                  /\ ts.tcap[t] = tcap[t] /\ ts.cap[t] = cap[t] /\ ts.want[t] = want[t]
               \/ /\ forked /\ last /\ ts.pc[t] = "out"
                  /\ ts.tcap[t] = 0 /\ ts.cap[t] = 0 /\ ts.want[t] = 0
        PROVE  IInv'
    <2>1. PICK h \in Fresh \cup {NoTask} :
             /\ h # t /\ Others(t, h, c) /\ \A u \in Tasks \ {t, h} : tcap'[u] = tcap[u]
             /\ running' = [running EXCEPT ![c] = h]
             /\ ReleaseTyped
             /\ pc'[t] = ts.pc[t] /\ tcap'[t] = ts.tcap[t]
             /\ cap'[t] = ts.cap[t] /\ want'[t] = ts.want[t]
      BY <1>1, <1>4, <1>7, <1>9, ReleaseStep DEF IInv, c
    <2>2. TypeOK' /\ PlacesOK'
      <3>1. TypeOK'
        BY <1>3, <1>5, <2>1 DEF ReleaseAll, IInv, TypeOK, ReleaseTyped
      <3>2. PlacesOK'
        BY <1>4, <2>1 DEF ReleaseAll, IInv, PlacesOK, ReleaseTyped
      <3>3. QED
        BY <3>1, <3>2
    <2>3. TaskOK(t)'
      BY <1>1, <1>2, <1>3, <1>4, <1>5, <1>9, <2>1, EmptyQueue, CapabilityAssumption
      DEF ReleaseAll, Tasks, TaskOK, WaitOK, LoopOK, RoleOK, CurOK, HomeOK, Looping, Entering,
          Resuming, Syncing, Acquiring, InYield, Returning, Yielding, HoldsOwn
    <2>4. Holding(t)' = Holding(t) \ {c} /\ c \in Holding(t)
      <3>1. c \in Caps /\ c >= c
        BY <1>1 DEF Caps
      <3>2. c = scan[t]
        BY DEF c
      <3>3. QED
        BY <1>1, <1>2, <1>3, <1>4, <1>5, <1>6, <1>9, <2>1, <3>1, <3>2, EmptyQueue
        DEF ReleaseAll, TaskOK, LoopOK, Holding, HoldsOwn, Acquiring
    <2>5. ~Contains(runq[c], t)
      <3>1. forked => ~bound[t]
        BY <1>1, CapabilityAssumption DEF TaskOK, RoleOK, Tasks
      <3>2. QED
        BY <1>1, <1>9, <3>1, NotQueued DEF Yielding, c
    <2>6. ~Waiting(t) /\ ~Waiting(t)' /\ pc[t] # "return_lock"
      BY <1>1, <1>2, <1>9, <2>1 DEF Waiting
    <2>7. c \in Caps
      BY <1>1 DEF c
    <2>8. \A d \in Caps : suspended[d] \ {t} \subseteq suspended'[d]
      BY <1>5
    <2>9. QED
      BY <1>2, <1>5, <1>8, <1>9, <2>1, <2>2, <2>3, <2>4, <2>5, <2>6, <2>7, <2>8, ReleaseInv
  <1>10. CASE ~forked /\ c = cap[t]
    <2>1. /\ Set([Now EXCEPT !.pc[t] = next, !.tcap[t] = IF last THEN cap[t] ELSE @])
          /\ UNCHANGED <<running, lastFree>>
      BY <1>10 DEF ReleaseAll, c, last
    <2>2. /\ pc' = [pc EXCEPT ![t] = next] /\ cap' = cap /\ want' = want /\ wakeup' = wakeup
          /\ tcap' = [tcap EXCEPT ![t] = IF last THEN cap[t] ELSE tcap[t]]
      BY <2>1 DEF Set, Now
    <2>3. TypeOK' /\ PlacesOK'
      <3>1. pc' \in [Tasks -> Places] /\ tcap' \in [Tasks -> Caps]
        BY <1>1, <1>2, <2>2 DEF IInv, TypeOK, PlacesOK, Places, HoldsOwn
      <3>2. /\ running' = running /\ lastFree' = lastFree
            /\ call' = call /\ bound' = bound /\ grabbed' = grabbed /\ deal' = deal
        BY <2>1 DEF ReleaseAll
      <3>3. QED
        BY <1>3, <1>4, <1>5, <2>2, <3>1, <3>2 DEF IInv, TypeOK, PlacesOK
    <2>4. pc'[t] = next /\ tcap'[t] = (IF last THEN cap[t] ELSE tcap[t])
      BY <2>2 DEF IInv, TypeOK, PlacesOK
    <2>5. Alone(t)
      BY <1>4, <2>2 DEF Alone, Keeps, IInv, TypeOK, PlacesOK
    <2>6. TaskOK(t)'
      BY <1>1, <1>2, <1>3, <1>4, <1>5, <1>10, <2>2, <2>4, EmptyQueue, CapabilityAssumption
      DEF ReleaseAll, Tasks, TaskOK, WaitOK, LoopOK, RoleOK, CurOK, HomeOK, Looping, Entering,
          Resuming, Syncing, Acquiring, InYield, Returning, Yielding, HoldsOwn
    <2>7. Holding(t)' = Holding(t)
      <3>1. c = scan[t]
        BY DEF c
      <3>2. QED
        BY <1>1, <1>2, <1>3, <1>4, <1>5, <1>6, <1>10, <2>2, <2>4, <3>1, EmptyQueue
        DEF ReleaseAll, TaskOK, LoopOK, Holding, HoldsOwn, Acquiring
    <2>8. ~Waiting(t) /\ ~Waiting(t)' /\ pc[t] # "return_lock"
      BY <1>1, <1>2, <2>4 DEF Waiting
    <2>9. QED
      BY <1>2, <1>5, <2>1, <2>3, <2>5, <2>6, <2>7, <2>8, LocalInv
  <1>11. CASE ~forked /\ c # cap[t]
    <2> DEFINE ts == [Now EXCEPT !.pc[t] = next, !.tcap[t] = home]
    <2>1. Release(c, As(c), ts)
      BY <1>11 DEF ReleaseAll, c, last
    <2>2. /\ Mine(t, ts) /\ ts.pc[t] = next /\ ts.tcap[t] = home /\ ts.cap[t] = cap[t]
          /\ ts.want[t] = want[t]
      BY <1>1, <1>2 DEF Mine, Now, TaskState, IInv, TypeOK, PlacesOK, Places, HoldsOwn, c
    <2> HIDE DEF ts
    <2>3. QED
      BY <1>9, <1>11, <2>1, <2>2
  <1>12. CASE forked /\ ~last
    <2>1. Release(c, As(c), Now)
      BY <1>12 DEF ReleaseAll, c, last
    <2>2. /\ Mine(t, Now) /\ Now.pc[t] = pc[t] /\ Now.tcap[t] = tcap[t] /\ Now.cap[t] = cap[t]
          /\ Now.want[t] = want[t]
      BY NowState DEF Mine, Now, IInv
    <2>3. QED
      BY <1>9, <1>12, <2>1, <2>2
  <1>13. CASE forked /\ last
    <2>1. Release(c, As(c), Outside(t))
      BY <1>13 DEF ReleaseAll, c, last
    <2>2. /\ Mine(t, Outside(t)) /\ Outside(t).pc[t] = "out" /\ Outside(t).tcap[t] = 0
          /\ Outside(t).cap[t] = 0 /\ Outside(t).want[t] = 0
      BY CapZero, ZenonT(30) DEF Mine, Outside, Now, TaskState, IInv, TypeOK, PlacesOK, Places
    <2>3. QED
      BY <1>9, <1>13, <2>1, <2>2
  <1>14. QED
    BY <1>10, <1>11, <1>12, <1>13

(* resumeThread begins: the Task waits for the Capability it left.         *)
LEMMA CallReturnsInv == ASSUME IInv, NEW t \in Tasks, CallReturns(t) PROVE IInv'
  <1> USE DEF CallReturns, ReturnTo, At, Step, Goto, capVars, queueVars, threadVars, loopVars
  <1> Home' = Home /\ DealInv'
    BY HomeStill DEF IInv, CallReturns, threadVars, loopVars
  <1>1. pc' \in [Tasks -> Places]
    BY DEF IInv, PlacesOK, Places, Returning
  <1>2. call' \in [Tasks -> {"none", "enter", "resume", "acquire", "sched", "seq", "other"}]
    BY DEF IInv, PlacesOK, TypeOK
  <1>3. tcap' \in [Tasks -> Caps] /\ cap' \in [Tasks -> Caps] /\ want' \in [Tasks -> Caps]
    BY DEF IInv, TypeOK
  <1>4. TypeOK' /\ PlacesOK'
    BY <1>1, <1>2, <1>3 DEF IInv, TypeOK, PlacesOK
  <1>5. Alone(t)
    BY <1>3 DEF Alone, Keeps, Same, IInv, TypeOK, PlacesOK
  <1>6. /\ pc[t] = "calling" /\ pc'[t] = "return_lock" /\ call'[t] = "resume"
        /\ tcap'[t] = cap[t] /\ cap'[t] = cap[t] /\ want'[t] = cap[t]
    BY <1>1, <1>2, <1>3 DEF IInv, TypeOK, PlacesOK
  <1>7. TaskOK(t)
    BY DEF IInv, TaskInv
  <1>8. TaskOK(t)'
    BY <1>6, <1>7, EmptyQueue DEF TaskOK, WaitOK, LoopOK, RoleOK, CurOK, HomeOK, Looping, Entering,
          Resuming, Syncing, Acquiring, InYield, Returning, Yielding, HoldsOwn
  <1>9. Holding(t)' = Holding(t)
    BY <1>6, <1>7, EmptyQueue DEF TaskOK, LoopOK, Holding, HoldsOwn, Acquiring
  <1>10. QED
    BY <1>4, <1>5, <1>6, <1>7, <1>8, <1>9, LocalInv DEF TaskOK, CurOK, Waiting

(* tryGrabCapability in schedulePushWork's first loop.                     *)
LEMMA PushGrabInv == ASSUME IInv, NEW t \in Tasks, PushGrab(t) PROVE IInv'
  <1> USE DEF At, Step, Goto, queueVars, threadVars, AfterScan
  <1> Home' = Home /\ DealInv'
    BY HomeStill DEF IInv, PushGrab, threadVars, loopVars
  <1> DEFINE d == scan[t]
  <1>1. /\ TaskOK(t) /\ pc[t] = "push" /\ d \in Caps /\ cap[t] \in Caps
        /\ \A c \in Caps : Contains(grabbed[t], c) => c < d
    BY DEF PushGrab, IInv, TaskInv, TypeOK, TaskOK, LoopOK
  <1>2. CASE d # cap[t] /\ Free(d) /\ running' = [running EXCEPT ![d] = t]
             /\ tcap' = [tcap EXCEPT ![t] = d] /\ pc' = [pc EXCEPT ![t] = "push_look"] /\ scan' = scan
    <2>1. TypeOK' /\ PlacesOK'
      <3>1. pc' \in [Tasks -> Places] /\ running' \in [Caps -> Tasks \cup {NoTask}] /\ tcap' \in [Tasks -> Caps]
        BY <1>1, <1>2 DEF IInv, TypeOK, PlacesOK, Places, HoldsOwn
      <3>2. TypeOK'
        BY <1>2, <3>1 DEF PushGrab, IInv, TypeOK
      <3>3. PlacesOK'
        BY <1>2, <3>1 DEF PushGrab, IInv, PlacesOK
      <3>4. QED
        BY <3>2, <3>3
    <2>2. pc'[t] = "push_look" /\ tcap'[t] = d
      BY <1>2 DEF IInv, TypeOK, PlacesOK
    <2>3. Alone(t)
      BY <1>2 DEF PushGrab, Alone, Keeps, Same, IInv, TypeOK, PlacesOK
    <2>4. TaskOK(t)'
      BY <1>1, <1>2, <2>2 DEF PushGrab, TaskOK, WaitOK, LoopOK, RoleOK, CurOK, HomeOK, Looping, Entering,
          Resuming, Syncing, Acquiring, InYield, Returning, Yielding, HoldsOwn
    <2>5. Holding(t)' = Holding(t) \cup {d}
      BY <1>1, <1>2, <2>2 DEF PushGrab, TaskOK, LoopOK, Holding, HoldsOwn, Acquiring
    <2>6. Others(t, NoTask, 0) /\ 0 \in Caps
      BY <2>3, AloneOthers
    <2>7. OwnersAgree'
      BY <1>1, <1>2, <2>5, <2>6, OwnersTake DEF IInv
    <2>8. \A c \in Caps : Free(c)' /\ Unserved(c)' => Free(c) /\ Unserved(c)
      <3>1. \A c \in Caps : running'[c] = IF c = d THEN t ELSE running[c]
        BY <1>2 DEF IInv, TypeOK
      <3>2. t # NoTask
        BY CapabilityAssumption DEF Tasks
      <3>3. QED
        BY <3>1, <3>2 DEF PushGrab, Free, Unserved
    <2>9. NoLostWakeup'
      BY <1>1, <2>6, <2>8, WakeUpsKept DEF IInv, Waiting
    <2>10. \A b \in Callers \ {t} : tcap'[b] = tcap[b]
      BY <2>3 DEF Alone, Tasks
    <2>11. QED
      BY <1>1, <2>1, <2>2, <2>4, <2>6, <2>7, <2>9, <2>10, QuietInv DEF PushGrab, Waiting, TaskOK, CurOK, Resuming, Returning
  <1>3. CASE (d = cap[t] \/ ~Free(d)) /\ Advance(t)
             /\ pc' = [pc EXCEPT ![t] = IF d + 1 < NCaps THEN "push" ELSE "push_share"]
             /\ running' = running /\ tcap' = tcap
    <2>1. /\ scan' \in [Tasks -> Caps] /\ \A u \in Tasks \ {t} : scan'[u] = scan[u]
          /\ scan'[t] = IF d + 1 < NCaps THEN d + 1 ELSE 0
      BY <1>3, AdvanceEffect DEF IInv
    <2>2. pc' \in [Tasks -> Places]
      BY <1>3 DEF IInv, PlacesOK, Places, HoldsOwn
    <2>3. TypeOK' /\ PlacesOK'
      BY <1>3, <2>1, <2>2 DEF PushGrab, IInv, TypeOK, PlacesOK
    <2>4. Alone(t)
      BY <1>3, <2>1 DEF PushGrab, Alone, Keeps, Same, IInv, PlacesOK
    <2>5. pc'[t] = IF d + 1 < NCaps THEN "push" ELSE "push_share"
      BY <1>3 DEF IInv, PlacesOK
    <2>6. \A c \in Caps : Contains(grabbed[t], c) => c < d + 1
      BY <1>1, CapabilityAssumption DEF Caps
    <2>7. TaskOK(t)'
      BY <1>1, <1>3, <2>1, <2>5, <2>6 DEF PushGrab, TaskOK, WaitOK, LoopOK, RoleOK, CurOK, HomeOK, Looping, Entering,
          Resuming, Syncing, Acquiring, InYield, Returning, Yielding, HoldsOwn
    <2>8. Holding(t)' = Holding(t)
      BY <1>1, <1>3, <2>5 DEF PushGrab, TaskOK, LoopOK, Holding, HoldsOwn, Acquiring
    <2>9. QED
      BY <1>1, <1>3, <2>3, <2>4, <2>5, <2>7, <2>8, LocalInv DEF PushGrab, Waiting
  <1>4. QED
    BY <1>2, <1>3 DEF PushGrab

(* scheduleProcessInbox takes the whole inbox.                             *)
LEMMA TakeInboxInv == ASSUME IInv, NEW t \in Tasks, TakeInbox(t) PROVE IInv'
  <1> USE DEF At, Step, Goto, threadVars, capVars
  <1> Home' = Home /\ DealInv'
    BY HomeStill DEF IInv, TakeInbox, threadVars, loopVars
  <1> DEFINE c == cap[t]
  <1>1. TaskOK(t) /\ pc[t] = "sched" /\ c \in Caps /\ msgs[t] = <<>> /\ inbox[c] \in Seq(Threads)
    BY DEF TakeInbox, IInv, TaskInv, TypeOK, TaskOK, LoopOK
  <1>2. CASE inbox' = [inbox EXCEPT ![c] = <<>>] /\ msgs' = [msgs EXCEPT ![t] = inbox[c]]
             /\ pc' = [pc EXCEPT ![t] = "inbox"] /\ after' = after
    <2>1. /\ pc' \in [Tasks -> Places] /\ msgs' \in [Tasks -> Seq(Threads)]
          /\ inbox' \in [Caps -> Seq(Threads)]
      BY <1>1, <1>2 DEF IInv, TypeOK, PlacesOK, Places, HoldsOwn
    <2>2. TypeOK' /\ PlacesOK'
      BY <1>2, <2>1 DEF TakeInbox, IInv, TypeOK, PlacesOK
    <2>3. Alone(t)
      BY <1>2 DEF TakeInbox, Alone, Keeps, Same, IInv, TypeOK, PlacesOK
    <2>4. pc'[t] = "inbox"
      BY <1>2 DEF IInv, PlacesOK
    <2>5. TaskOK(t)'
      BY <1>1, <1>2, <2>4 DEF TakeInbox, TaskOK, WaitOK, LoopOK, RoleOK, CurOK, HomeOK, Looping, Entering,
          Resuming, Syncing, Acquiring, InYield, Returning, Yielding, HoldsOwn
    <2>6. Holding(t)' = Holding(t) /\ c \in Holding(t)
      BY <1>1, <1>2, <2>4 DEF TakeInbox, TaskOK, LoopOK, Holding, HoldsOwn, Acquiring
    <2>7. \A th \in Threads : Woken(th) => Woken(th)'
      <3> SUFFICES ASSUME NEW th \in Threads, Woken(th) PROVE Woken(th)'
        OBVIOUS
      <3>1. msgs'[t] = inbox[c] /\ (\A u \in Tasks \ {t} : msgs'[u] = msgs[u])
            /\ \A d \in Caps \ {c} : inbox'[d] = inbox[d]
        BY <1>2 DEF IInv, TypeOK
      <3>2. ~Contains(msgs[t], th)
        BY <1>1, EmptyQueue
      <3>3. QED
        BY <3>1, <3>2 DEF Woken
    <2>8. MigrationInv'
      BY <2>7, MigrationKept DEF TakeInbox, IInv
    <2>9. ThreadInv'
      BY <2>3, AloneOthers, ThreadsKept DEF TakeInbox
    <2>10. \A d \in Caps \ {c} : runq'[d] = runq[d] /\ inbox'[d] = inbox[d]
      BY <1>2 DEF TakeInbox, IInv, TypeOK
    <2>11. QED
      BY <1>1, <2>2, <2>3, <2>4, <2>5, <2>6, <2>8, <2>9, <2>10, HeldInv DEF TakeInbox, Waiting
  <1>3. CASE DoGC(t, "sched") /\ inbox' = inbox /\ msgs' = msgs
    <2>1. pc' \in [Tasks -> Places] /\ after' \in [Tasks -> {"sched", "decide", "leave"}]
      BY <1>3 DEF DoGC, IInv, PlacesOK, Places, HoldsOwn
    <2>2. TypeOK' /\ PlacesOK'
      BY <1>3, <2>1 DEF TakeInbox, IInv, TypeOK, PlacesOK
    <2>3. Alone(t)
      BY <1>3 DEF TakeInbox, DoGC, Alone, Keeps, Same, IInv, PlacesOK
    <2>4. pc'[t] = "sync" /\ after'[t] = "sched"
      BY <1>3 DEF DoGC, IInv, PlacesOK
    <2>5. TaskOK(t)'
      BY <1>1, <1>3, <2>4 DEF TakeInbox, TaskOK, WaitOK, LoopOK, RoleOK, CurOK, HomeOK, Looping, Entering,
          Resuming, Syncing, Acquiring, InYield, Returning, Yielding, HoldsOwn
    <2>6. Holding(t)' = Holding(t)
      BY <1>1, <2>4 DEF TakeInbox, TaskOK, LoopOK, Holding, HoldsOwn, Acquiring
    <2>7. QED
      BY <1>1, <1>3, <2>2, <2>3, <2>4, <2>5, <2>6, LocalInv DEF TakeInbox, Waiting
  <1>4. QED
    BY <1>2, <1>3 DEF TakeInbox

(* recoverSuspendedTask: the thread is the Task's own again.               *)
LEMMA CallRecoveredInv == ASSUME IInv, NEW t \in Tasks, CallRecovered(t) PROVE IInv'
  <1> USE DEF CallRecovered, At, Step, Goto, threadVars, capVars, queueVars, loopVars
  <1> Home' = Home /\ DealInv'
    BY HomeStill DEF IInv, CallRecovered, threadVars, loopVars
  <1>1. TaskOK(t) /\ pc[t] = "resumed" /\ cap[t] \in Caps
    BY DEF IInv, TaskInv, TypeOK
  <1>2. /\ pc' \in [Tasks -> Places]
        /\ call' \in [Tasks -> {"none", "enter", "resume", "acquire", "sched", "seq", "other"}]
    BY DEF IInv, PlacesOK, Places, HoldsOwn
  <1>3. /\ suspended' \in [Caps -> SUBSET Tasks]
        /\ \A d \in Caps : suspended[d] \ {t} \subseteq suspended'[d]
    BY DEF IInv, TypeOK
  <1>4. TypeOK' /\ PlacesOK'
    BY <1>2, <1>3 DEF IInv, TypeOK, PlacesOK
  <1>5. Alone(t)
    BY DEF Alone, Keeps, Same, IInv, PlacesOK
  <1>6. pc'[t] = "run"
    BY DEF IInv, PlacesOK
  <1>7. TaskOK(t)'
    BY <1>1, <1>6 DEF TaskOK, WaitOK, LoopOK, RoleOK, CurOK, HomeOK, Looping, Entering,
          Resuming, Syncing, Acquiring, InYield, Returning, Yielding, HoldsOwn
  <1>8. Holding(t)' = Holding(t) /\ cap[t] \in Holding(t)
    BY <1>1, <1>6 DEF TaskOK, LoopOK, Holding, HoldsOwn, Acquiring
  <1>9. ThreadInv'
    BY <1>5, AloneOthers, ThreadsKept
  <1>10. MigrationInv'
    BY MigrationKept DEF IInv, Woken
  <1>11. QED
    BY <1>1, <1>3, <1>4, <1>5, <1>6, <1>7, <1>8, <1>9, <1>10, HeldInv DEF Waiting

(* Back on the run queue, in front or behind.                              *)
LEMMA PutBackEffect ==
    ASSUME IInv, NEW t \in Tasks, pc[t] = "run", PutBack(t)
    PROVE  /\ runq' \in [Caps -> Seq(Threads)] /\ \A d \in Caps \ {cap[t]} : runq'[d] = runq[d]
           /\ cur' \in [Tasks -> Threads \cup {NoThread}] /\ cur'[t] = NoThread
           /\ \A u \in Tasks \ {t} : cur'[u] = cur[u]
           /\ ThreadInv'
  <1> Home' = Home /\ DealInv'
    BY HomeStill DEF IInv, PutBack, loopVars
  <1> DEFINE c == cap[t]
             th == cur[t]
  <1>1. /\ TaskOK(t) /\ c \in Caps /\ runq \in [Caps -> Seq(Threads)] /\ runq[c] \in Seq(Threads)
        /\ cur \in [Tasks -> Threads \cup {NoThread}]
    BY DEF IInv, TaskInv, TypeOK
  <1>2. th # NoThread /\ th \in Threads
    BY <1>1 DEF TaskOK, CurOK
  <1>3. tst[th] = "live" /\ Home[th] = c /\ ~Contains(runq[c], th)
    BY <1>2 DEF IInv, ThreadInv
  <1>4. NoDup(runq[c])
    BY <1>1 DEF IInv, ThreadInv
  <1>5. PICK q : /\ runq' = [runq EXCEPT ![c] = q] /\ q \in Seq(Threads) /\ NoDup(q)
                 /\ \A x : Contains(q, x) <=> Contains(runq[c], x) \/ x = th
    <2>1. PICK back \in BOOLEAN :
              runq' = [runq EXCEPT ![c] = IF back THEN Append(runq[c], th) ELSE <<th>> \o runq[c]]
      BY DEF PutBack
    <2>2. /\ Append(runq[c], th) \in Seq(Threads) /\ NoDup(Append(runq[c], th))
          /\ \A x : Contains(Append(runq[c], th), x) <=> Contains(runq[c], x) \/ x = th
      BY <1>1, <1>2, <1>3, <1>4, AppendQueue
    <2>3. /\ <<th>> \o runq[c] \in Seq(Threads) /\ NoDup(<<th>> \o runq[c])
          /\ \A x : Contains(<<th>> \o runq[c], x) <=> Contains(runq[c], x) \/ x = th
      BY <1>1, <1>2, <1>3, <1>4, PushQueue
    <2>4. CASE back
      BY <2>1, <2>2, <2>4
    <2>5. CASE ~back
      BY <2>1, <2>3, <2>5
    <2>6. QED
      BY <2>4, <2>5
  <1>6. cur' = [cur EXCEPT ![t] = NoThread] /\ tst' = tst /\ tsoCap' = tsoCap /\ cap' = cap
    BY DEF PutBack
  <1>7. \A u \in Tasks : u # t => cur[u] # th
    BY <1>2 DEF IInv, ThreadInv
  <1>8. \A d \in Caps : ~Contains(runq[d], th)
    BY <1>2, <1>3 DEF IInv, ThreadInv
  <1>9. \A u \in Tasks : cur'[u] = (IF cur[u] = th THEN NoThread ELSE cur[u])
                         /\ (cur[u] # NoThread => cap'[u] = cap[u])
    BY <1>1, <1>6, <1>7
  <1>10. ThreadInv'
    BY <1>1, <1>2, <1>3, <1>5, <1>6, <1>8, <1>9, Enqueued
  <1>11. cur' \in [Tasks -> Threads \cup {NoThread}] /\ cur'[t] = NoThread
         /\ \A u \in Tasks \ {t} : cur'[u] = cur[u]
    BY <1>1, <1>6
  <1>12. runq' \in [Caps -> Seq(Threads)] /\ \A d \in Caps \ {c} : runq'[d] = runq[d]
    BY <1>1, <1>5
  <1>13. QED
    BY <1>10, <1>11, <1>12

(* A thread that must stop goes back to the run queue.                     *)
LEMMA PutBackInv ==
    ASSUME IInv, NEW t \in Tasks, ThreadYields(t) \/ HeapOverflows(t)
    PROVE  IInv'
  <1> USE DEF Running, At, Step, Goto, capVars
  <1>1. /\ pc[t] = "run" /\ PutBack(t) /\ TaskOK(t) /\ cap[t] \in Caps
        /\ \/ pc' = [pc EXCEPT ![t] = "sched"] /\ after' = after
           \/ pc' = [pc EXCEPT ![t] = "sync"] /\ after' = [after EXCEPT ![t] = "sched"]
    BY DEF ThreadYields, HeapOverflows, DoGC, IInv, TaskInv, TypeOK
  <1>2. /\ runq' \in [Caps -> Seq(Threads)] /\ \A d \in Caps \ {cap[t]} : runq'[d] = runq[d]
        /\ cur' \in [Tasks -> Threads \cup {NoThread}] /\ cur'[t] = NoThread
        /\ \A u \in Tasks \ {t} : cur'[u] = cur[u]
        /\ ThreadInv'
    BY <1>1, PutBackEffect
  <1> USE <1>1 DEF PutBack
  <1> Home' = Home /\ DealInv'
    BY HomeStill DEF IInv, ThreadYields, HeapOverflows, DoGC, loopVars
  <1>3. pc' \in [Tasks -> Places] /\ after' \in [Tasks -> {"sched", "decide", "leave"}]
    BY DEF IInv, PlacesOK, Places, HoldsOwn
  <1>4. TypeOK' /\ PlacesOK'
    <2>1. TypeOK'
      BY <1>2 DEF IInv, TypeOK
    <2>2. PlacesOK'
      BY <1>3 DEF IInv, PlacesOK
    <2>3. QED
      BY <2>1, <2>2
  <1>5. \/ pc'[t] = "sched" /\ after'[t] = after[t]
        \/ pc'[t] = "sync" /\ after'[t] = "sched"
    BY DEF IInv, PlacesOK
  <1>6. Alone(t)
    BY <1>2 DEF Alone, Keeps, Same, IInv, PlacesOK
  <1>7. TaskOK(t)'
    BY <1>2, <1>5 DEF TaskOK, WaitOK, LoopOK, RoleOK, CurOK, HomeOK, Looping, Entering,
          Resuming, Syncing, Acquiring, InYield, Returning, Yielding, HoldsOwn
  <1>8. Holding(t)' = Holding(t) /\ cap[t] \in Holding(t)
    BY <1>5, EmptyQueue DEF TaskOK, LoopOK, Holding, HoldsOwn, Acquiring
  <1>9. MigrationInv'
    BY MigrationKept DEF IInv, Woken
  <1>10. QED
    BY <1>2, <1>4, <1>5, <1>6, <1>7, <1>8, <1>9, HeldInv DEF Waiting

(* A thread blocks: nobody holds it any more.                              *)
LEMMA ThreadBlocksInv == ASSUME IInv, NEW t \in Tasks, ThreadBlocks(t) PROVE IInv'
  <1> USE DEF ThreadBlocks, Running, At, Step, Goto, capVars, queueVars, loopVars
  <1> DEFINE th == cur[t]
  <1>1. TaskOK(t) /\ pc[t] = "run" /\ cap[t] \in Caps /\ cur \in [Tasks -> Threads \cup {NoThread}]
    BY DEF IInv, TaskInv, TypeOK
  <1>2. th # NoThread /\ th \in Threads /\ (t \in Callers => th = t) /\ (t \notin Callers => th \in Unbound)
    BY <1>1 DEF TaskOK, CurOK
  <1>3. tst[th] = "live"
    BY <1>2 DEF IInv, ThreadInv
  <1>4. /\ tst' \in [Threads -> {"none", "live", "blocked", "migrating"}] /\ tst'[th] = "blocked"
        /\ \A x \in Threads \ {th} : tst'[x] = tst[x]
    BY <1>2 DEF IInv, TypeOK
  <1> DealInv' /\ \A x \in Threads \ {th} : Home'[x] = Home[x]
    <2>1. cap[t] \in Holding(t)
      BY <1>1 DEF Holding, HoldsOwn
    <2>2. Mover(th) = {}
      BY <1>1, <1>2, <2>1, CarriedStays
    <2>3. tsoCap' \in [Threads -> Caps]
      BY <1>4 DEF IInv, TypeOK
    <2>4. QED
      BY <1>2, <1>4, <2>2, <2>3, HomeSet DEF IInv
  <1> Home'[th] = Home[th]
    <2>1. cap[t] \in Holding(t)
      BY <1>1 DEF Holding, HoldsOwn
    <2>2. Mover(th) = {} /\ Home[th] = tsoCap[th]
      BY <1>1, <1>2, <2>1, CarriedStays
    <2>3. QED
      BY <1>2, <2>2 DEF Home, Mover
  <1>5. ThreadInv'
    BY <1>2, <1>4, Dropped
  <1>6. pc' \in [Tasks -> Places] /\ cur' \in [Tasks -> Threads \cup {NoThread}]
    BY <1>1 DEF IInv, PlacesOK, Places, HoldsOwn
  <1>7. TypeOK' /\ PlacesOK'
    BY <1>4, <1>6 DEF IInv, TypeOK, PlacesOK
  <1>8. pc'[t] = "sched" /\ cur'[t] = NoThread
    BY <1>1 DEF IInv, PlacesOK
  <1>9. Alone(t)
    BY <1>1 DEF Alone, Keeps, Same, IInv, PlacesOK
  <1>10. TaskOK(t)'
    <2>1. t \in Callers => tst'[t] = "blocked" /\ tst[t] = "live"
      BY <1>2, <1>3, <1>4
    <2>2. QED
      BY <1>1, <1>8, <2>1 DEF TaskOK, WaitOK, LoopOK, RoleOK, CurOK, HomeOK, Looping, Entering,
          Resuming, Syncing, Acquiring, InYield, Returning, Yielding, HoldsOwn
  <1>11. Holding(t)' = Holding(t) /\ cap[t] \in Holding(t)
    BY <1>1, <1>8, EmptyQueue DEF TaskOK, LoopOK, Holding, HoldsOwn, Acquiring
  <1>12. MigrationInv'
    BY <1>4 DEF MigrationInv, IInv, Woken
  <1>13. \A b \in Callers \ {t} : tst'[b] = tst[b] /\ Home'[b] = Home[b]
    BY <1>2, <1>4, CapabilityAssumption DEF Threads
  <1>14. QED
    BY <1>1, <1>5, <1>7, <1>8, <1>9, <1>10, <1>11, <1>12, <1>13, HeldInv DEF Waiting

(* A thread finishes, and with it, if it is bound, the Task's work.        *)
LEMMA ThreadFinishesInv == ASSUME IInv, NEW t \in Tasks, ThreadFinishes(t) PROVE IInv'
  <1> USE DEF ThreadFinishes, Running, At, Step, Goto, capVars, queueVars, loopVars
  <1> DEFINE th == cur[t]
  <1>1. TaskOK(t) /\ pc[t] = "run" /\ cap[t] \in Caps /\ cur \in [Tasks -> Threads \cup {NoThread}]
    BY DEF IInv, TaskInv, TypeOK
  <1>2. th # NoThread /\ th \in Threads /\ (t \in Callers => th = t) /\ (t \notin Callers => th \in Unbound)
    BY <1>1 DEF TaskOK, CurOK
  <1>3. tst[th] = "live"
    BY <1>2 DEF IInv, ThreadInv
  <1>4. /\ tst' \in [Threads -> {"none", "live", "blocked", "migrating"}] /\ tst'[th] = "none"
        /\ tsoCap' \in [Threads -> Caps]
        /\ \A x \in Threads \ {th} : tst'[x] = tst[x] /\ tsoCap'[x] = tsoCap[x]
    BY <1>2, CapZero DEF IInv, TypeOK
  <1> DealInv' /\ \A x \in Threads \ {th} : Home'[x] = Home[x]
    <2>1. cap[t] \in Holding(t)
      BY <1>1 DEF Holding, HoldsOwn
    <2>2. Mover(th) = {}
      BY <1>1, <1>2, <2>1, CarriedStays
    <2>3. tsoCap' \in [Threads -> Caps]
      BY <1>4 DEF IInv, TypeOK
    <2>4. QED
      BY <1>2, <1>4, <2>2, <2>3, HomeSet DEF IInv
  <1>5. ThreadInv'
    BY <1>2, <1>4, Dropped
  <1>6. /\ pc' \in [Tasks -> Places] /\ cur' \in [Tasks -> Threads \cup {NoThread}]
        /\ bound' \in [Tasks -> BOOLEAN] /\ bound'[t] = FALSE
        /\ \A u \in Tasks \ {t} : bound'[u] = bound[u]
    BY <1>1 DEF IInv, TypeOK, PlacesOK, Places, HoldsOwn
  <1>7. TypeOK' /\ PlacesOK'
    BY <1>4, <1>6 DEF IInv, TypeOK, PlacesOK
  <1>8. pc'[t] = (IF th = t THEN "leave" ELSE "sched") /\ cur'[t] = NoThread
    BY <1>1 DEF IInv, PlacesOK
  <1>9. Alone(t)
    BY <1>1, <1>6 DEF Alone, Keeps, Same, IInv, PlacesOK
  <1>10. TaskOK(t)'
    <2>1. t \in Callers => tst'[t] = "none" /\ th = t
      BY <1>2, <1>4
    <2>2. t \notin Callers => th # t /\ t \in Workers
      BY <1>2, CapabilityAssumption DEF Tasks
    <2>3. t \in Callers => t \notin Workers
      BY CapabilityAssumption
    <2>4. QED
      BY <1>1, <1>6, <1>8, <2>1, <2>2, <2>3 DEF TaskOK, WaitOK, LoopOK, RoleOK, CurOK, HomeOK, Looping, Entering,
          Resuming, Syncing, Acquiring, InYield, Returning, Yielding, HoldsOwn
  <1>11. Holding(t)' = Holding(t) /\ cap[t] \in Holding(t)
    BY <1>1, <1>8, EmptyQueue DEF TaskOK, LoopOK, Holding, HoldsOwn, Acquiring
  <1>12. MigrationInv'
    BY <1>4 DEF MigrationInv, IInv, Woken
  <1>13. \A b \in Callers \ {t} : tst'[b] = tst[b] /\ Home'[b] = Home[b]
    BY <1>2, <1>4, CapabilityAssumption DEF Threads
  <1>14. QED
    BY <1>1, <1>5, <1>7, <1>8, <1>9, <1>10, <1>11, <1>12, <1>13, HeldInv DEF Waiting

(* popRunQueue by a Task with no thread in hand.                           *)
LEMMA PickInv ==
    ASSUME IInv, NEW t \in Tasks, pc[t] \in {"detect", "decide"} \/ (pc[t] = "yielded" /\ call[t] = "sched"),
           Pick(t), call' = call \/ call' = [call EXCEPT ![t] = "none"],
           UNCHANGED <<capVars, inbox, suspended, pendingSync, lastFree, tcap, wakeup, cap,
                       want, bound, tst, tsoCap, loopVars>>
    PROVE  IInv'
  <1> USE DEF Step, Goto, capVars, loopVars
  <1> Home' = Home /\ DealInv'
    BY HomeStill DEF IInv, threadVars, loopVars
  <1> DEFINE c == cap[t]
             th == Head(runq[c])
  <1>1. /\ TaskOK(t) /\ c \in Caps /\ cur[t] = NoThread /\ kind[t] = "eval"
        /\ runq \in [Caps -> Seq(Threads)] /\ cur \in [Tasks -> Threads \cup {NoThread}]
        /\ (t \in Callers => bound[t]) /\ (t \notin Callers => ~bound[t])
    <2>1. TaskOK(t) /\ c \in Caps /\ runq \in [Caps -> Seq(Threads)] /\ cur \in [Tasks -> Threads \cup {NoThread}]
      BY DEF IInv, TaskInv, TypeOK
    <2>2. cur[t] = NoThread
      BY <2>1 DEF TaskOK, CurOK, Resuming, Returning
    <2>3. Looping(t) /\ ~Syncing(t)
      BY DEF Looping, Syncing, Entering, Acquiring, InYield, Returning, Yielding
    <2>4. kind[t] = "eval"
      BY <2>1, <2>3 DEF TaskOK, RoleOK
    <2>5. (t \in Callers => bound[t]) /\ (t \notin Callers => ~bound[t])
      BY <2>1, <2>3, <2>4 DEF TaskOK, RoleOK, Tasks
    <2>6. QED
      BY <2>1, <2>2, <2>4, <2>5
  <1>2. Alone(t)
    BY <1>1 DEF Pick, Alone, Keeps, Same, IInv, PlacesOK
  <1>3. call' \in [Tasks -> {"none", "enter", "resume", "acquire", "sched", "seq", "other"}]
    BY DEF IInv, PlacesOK
  <1>4. MigrationInv'
    BY MigrationKept DEF IInv, Woken
  <1>5. CASE pc' = [pc EXCEPT ![t] = "sched"] /\ runq' = runq /\ cur' = cur
    <2>1. TypeOK' /\ PlacesOK' /\ pc'[t] = "sched"
      BY <1>3, <1>5 DEF IInv, TypeOK, PlacesOK, Places, HoldsOwn
    <2>2. TaskOK(t)'
      BY <1>1, <1>5, <2>1 DEF TaskOK, WaitOK, LoopOK, RoleOK, CurOK, HomeOK, Looping, Entering,
          Resuming, Syncing, Acquiring, InYield, Returning, Yielding, HoldsOwn
    <2>3. Holding(t)' = Holding(t) /\ c \in Holding(t)
      BY <1>1, <2>1 DEF TaskOK, LoopOK, Holding, HoldsOwn, Acquiring
    <2>4. ThreadInv'
      BY <1>2, <1>5, AloneOthers, ThreadsKept
    <2>5. QED
      BY <1>2, <1>4, <1>5, <2>1, <2>2, <2>3, <2>4, HeldInv DEF Waiting
  <1>6. CASE /\ runq[c] # <<>> /\ ~WrongThread(t)
             /\ cur' = [cur EXCEPT ![t] = th] /\ runq' = [runq EXCEPT ![c] = Tail(@)]
             /\ pc' = [pc EXCEPT ![t] = "run"]
    <2>1. th \in Threads /\ Tail(runq[c]) \in Seq(Threads)
      BY <1>1, <1>6, HeadIn
    <2>2. /\ runq' \in [Caps -> Seq(Threads)] /\ cur' \in [Tasks -> Threads \cup {NoThread}]
          /\ cur'[t] = th /\ th # NoThread /\ \A d \in Caps \ {c} : runq'[d] = runq[d]
      BY <1>1, <1>6, <2>1, CapabilityAssumption DEF Threads, NoThread
    <2>3. TypeOK' /\ PlacesOK' /\ pc'[t] = "run"
      BY <1>3, <1>6, <2>2, ZenonT(30) DEF IInv, TypeOK, PlacesOK, Places, HoldsOwn
    <2>4. IF t \in Callers THEN th = t ELSE th \in Unbound
      BY <1>1, <1>6, <2>1 DEF WrongThread, BoundHead, Threads
    <2>5. TaskOK(t)'
      BY <1>1, <2>2, <2>3, <2>4 DEF TaskOK, WaitOK, LoopOK, RoleOK, CurOK, HomeOK, Looping, Entering,
          Resuming, Syncing, Acquiring, InYield, Returning, Yielding, HoldsOwn
    <2>6. Holding(t)' = Holding(t) /\ c \in Holding(t)
      BY <1>1, <2>3 DEF TaskOK, LoopOK, Holding, HoldsOwn, Acquiring
    <2>7. ThreadInv'
      BY <1>1, <1>6, Dequeued
    <2>8. QED
      BY <1>2, <1>4, <2>2, <2>3, <2>5, <2>6, <2>7, HeldInv DEF Waiting
  <1>7. QED
    BY <1>5, <1>6 DEF Pick

(* Giving the Capability up, or asking for it once more.                   *)
LEMMA ToYieldInv ==
    ASSUME IInv, NEW t \in Tasks, pc[t] \in {"detect", "decide"} \/ (pc[t] = "yielded" /\ call[t] = "sched"),
           Step(t, "yield"), call' = [call EXCEPT ![t] = "sched"],
           UNCHANGED <<capVars, inbox, suspended, pendingSync, lastFree, tcap, wakeup, cap,
                       want, bound, tst, tsoCap, loopVars, runq, cur>>
    PROVE  IInv'
  <1> USE DEF Step, Goto, capVars, loopVars
  <1> Home' = Home /\ DealInv'
    BY HomeStill DEF IInv, threadVars, loopVars
  <1>1. TaskOK(t)
    BY DEF IInv, TaskInv
  <1>2. TypeOK' /\ PlacesOK' /\ pc'[t] = "yield" /\ call'[t] = "sched"
    BY DEF IInv, TypeOK, PlacesOK, Places, HoldsOwn
  <1>3. Alone(t)
    BY DEF Alone, Keeps, Same, IInv, PlacesOK
  <1>4. TaskOK(t)'
    BY <1>1, <1>2 DEF TaskOK, WaitOK, LoopOK, RoleOK, CurOK, HomeOK, Looping, Entering,
          Resuming, Syncing, Acquiring, InYield, Returning, Yielding, HoldsOwn
  <1>5. Holding(t)' = Holding(t)
    BY <1>1, <1>2, EmptyQueue DEF TaskOK, LoopOK, Holding, HoldsOwn, Acquiring
  <1>6. QED
    BY <1>2, <1>3, <1>4, <1>5, LocalInv DEF Waiting

(* The scheduler yields, or runs the next thread of its queue.             *)
LEMMA DecideInv == ASSUME IInv, NEW t \in Tasks, Decide(t) PROVE IInv'
  <1>1. CASE Pick(t) /\ UNCHANGED call
    BY <1>1, PickInv DEF Decide
  <1>2. CASE YieldFor(t, "sched") /\ UNCHANGED <<runq, cur>>
    BY <1>2, ToYieldInv DEF Decide, YieldFor
  <1>3. QED
    BY <1>1, <1>2 DEF Decide

(* Back from scheduleYield.                                                *)
LEMMA YieldedSchedInv == ASSUME IInv, NEW t \in Tasks, YieldedSched(t) PROVE IInv'
  <1>1. CASE Pick(t) /\ call' = [call EXCEPT ![t] = "none"]
    BY <1>1, PickInv DEF YieldedSched, At
  <1>2. CASE Step(t, "yield") /\ UNCHANGED <<call, runq, cur>>
    <2>1. call' = [call EXCEPT ![t] = "sched"]
      BY <1>2 DEF YieldedSched, IInv, PlacesOK
    <2>2. QED
      BY <1>2, <2>1, ToYieldInv DEF YieldedSched, At
  <1>3. QED
    BY <1>1, <1>2 DEF YieldedSched

(* A Task that has entered creates its bound thread, or asks for a         *)
(* synchronisation.                                                        *)
LEMMA StartCallInv == ASSUME IInv, NEW t \in Tasks, StartCall(t) PROVE IInv'
  <1> USE DEF At, Step, Goto, capVars
  <1> DEFINE c == cap[t]
  <1>1. /\ TaskOK(t) /\ pc[t] = "entered" /\ c \in Caps /\ runq \in [Caps -> Seq(Threads)]
        /\ cur \in [Tasks -> Threads \cup {NoThread}]
    BY DEF StartCall, IInv, TaskInv, TypeOK
  <1>2. t \in Callers /\ t \in Threads /\ ~bound[t] /\ cur[t] = NoThread /\ tst[t] = "none"
    <2>1. t \in Callers /\ ~bound[t] /\ cur[t] = NoThread
      BY <1>1 DEF TaskOK, RoleOK, CurOK, Looping, Resuming, Returning, Tasks
    <2>2. QED
      BY <1>1, <2>1 DEF TaskOK, HomeOK, Threads
  <1>3. call' \in [Tasks -> {"none", "enter", "resume", "acquire", "sched", "seq", "other"}] /\ call'[t] = "none"
    BY DEF StartCall, IInv, PlacesOK
  <1>4. CASE /\ kind[t] = "eval" /\ bound' = [bound EXCEPT ![t] = TRUE]
             /\ runq' = [runq EXCEPT ![c] = Append(@, t)] /\ tst' = [tst EXCEPT ![t] = "live"]
             /\ tsoCap' = [tsoCap EXCEPT ![t] = c] /\ pc' = [pc EXCEPT ![t] = "sched"] /\ after' = after
    <2>1. \A d \in Caps : ~Contains(runq[d], t)
      BY <1>2 DEF IInv, ThreadInv
    <2>2. \A u \in Tasks : cur[u] # t
      BY <1>2, CapabilityAssumption DEF IInv, ThreadInv, NoThread, Tasks
    <2>3. /\ Append(runq[c], t) \in Seq(Threads) /\ NoDup(Append(runq[c], t))
          /\ \A x : Contains(Append(runq[c], t), x) <=> Contains(runq[c], x) \/ x = t
      BY <1>1, <1>2, <2>1, AppendQueue DEF IInv, ThreadInv
    <2>4. /\ tst' \in [Threads -> {"none", "live", "blocked", "migrating"}] /\ tst'[t] = "live"
          /\ tsoCap' \in [Threads -> Caps] /\ tsoCap'[t] = c
          /\ \A x \in Threads \ {t} : tst'[x] = tst[x] /\ tsoCap'[x] = tsoCap[x]
      BY <1>1, <1>2, <1>4 DEF IInv, TypeOK
    <2> /\ DealInv' /\ Home'[t] = c
        /\ \A x \in Threads \ {t} : Home'[x] = Home[x]
      <3>1. Mover(t) = {}
        BY <1>2, NoneMoved DEF IInv
      <3>2. QED
        BY <1>2, <2>4, <3>1, HomeSet DEF StartCall, IInv
    <2>5. /\ runq' = [runq EXCEPT ![c] = Append(runq[c], t)] /\ runq' \in [Caps -> Seq(Threads)]
          /\ \A d \in Caps \ {c} : runq'[d] = runq[d]
      BY <1>1, <1>4, <2>3
    <2>6. ThreadInv'
      <3>1. \A u \in Tasks : cur'[u] = (IF cur[u] = t THEN NoThread ELSE cur[u])
                             /\ (cur[u] # NoThread => cap'[u] = cap[u])
        BY <2>2 DEF StartCall
      <3> HIDE DEF c
      <3>2. c \in Caps
        BY <1>1
      <3>3. QED
        <4>1. /\ t \in Threads /\ NoDup(Append(runq[c], t)) /\ tst'[t] = "live" /\ Home'[t] = c
              /\ \A x \in Threads \ {t} : tst'[x] = tst[x] /\ Home'[x] = Home[x]
          BY <1>2, <2>3, <2>4
        <4>2. QED
          BY <2>1, <2>3, <2>5, <3>1, <3>2, <4>1, Enqueued
    <2>7. bound' \in [Tasks -> BOOLEAN] /\ bound'[t] /\ \A u \in Tasks \ {t} : bound'[u] = bound[u]
      BY <1>4 DEF IInv, TypeOK
    <2>8. TypeOK' /\ PlacesOK' /\ pc'[t] = "sched"
      <3>1. TypeOK'
        BY <2>4, <2>5, <2>7 DEF StartCall, IInv, TypeOK
      <3>2. PlacesOK' /\ pc'[t] = "sched"
        BY <1>3, <1>4 DEF StartCall, IInv, PlacesOK, Places, HoldsOwn
      <3>3. QED
        BY <3>1, <3>2
    <2>9. Alone(t)
      BY <1>4, <2>7 DEF StartCall, Alone, Keeps, Same, IInv, PlacesOK
    <2>10. TaskOK(t)'
      BY <1>1, <1>2, <1>3, <1>4, <2>4, <2>7, <2>8, CapabilityAssumption DEF StartCall, TaskOK, WaitOK, LoopOK, RoleOK, CurOK, HomeOK, Looping, Entering,
          Resuming, Syncing, Acquiring, InYield, Returning, Yielding, HoldsOwn
    <2>11. Holding(t)' = Holding(t) /\ c \in Holding(t)
      BY <1>1, <2>8 DEF StartCall, TaskOK, LoopOK, Holding, HoldsOwn, Acquiring
    <2>12. MigrationInv'
      BY <2>4 DEF StartCall, MigrationInv, IInv, Woken
    <2>13. \A b \in Callers \ {t} : tst'[b] = tst[b] /\ Home'[b] = Home[b]
      BY <2>4 DEF Threads
    <2>14. QED
      BY <1>1, <2>5, <2>6, <2>8, <2>9, <2>10, <2>11, <2>12, <2>13, HeldInv DEF StartCall, Waiting
  <1>5. CASE kind[t] # "eval" /\ DoGC(t, "leave") /\ UNCHANGED <<bound, runq, tst, tsoCap>>
    <2> Home' = Home /\ DealInv'
      BY <1>5, HomeStill DEF StartCall, IInv
    <2>1. /\ pc' = [pc EXCEPT ![t] = "sync"] /\ after' = [after EXCEPT ![t] = "leave"]
      BY <1>5 DEF DoGC
    <2>2. pc'[t] = "sync" /\ after'[t] = "leave"
      BY <2>1 DEF IInv, PlacesOK
    <2>3. TypeOK' /\ PlacesOK'
      BY <1>3, <1>5, <2>1 DEF StartCall, IInv, TypeOK, PlacesOK, Places, HoldsOwn
    <2>4. Alone(t)
      BY <1>5, <2>1 DEF StartCall, Alone, Keeps, Same, IInv, PlacesOK
    <2>5. TaskOK(t)'
      BY <1>1, <1>2, <1>3, <1>5, <2>2, CapabilityAssumption DEF StartCall, TaskOK, WaitOK, LoopOK, RoleOK, CurOK, HomeOK, Looping, Entering,
          Resuming, Syncing, Acquiring, InYield, Returning, Yielding, HoldsOwn
    <2>6. Holding(t)' = Holding(t)
      BY <1>1, <2>2 DEF StartCall, TaskOK, LoopOK, Holding, HoldsOwn, Acquiring
    <2>7. QED
      BY <1>1, <1>2, <1>5, <2>2, <2>3, <2>4, <2>5, <2>6, LocalInv DEF StartCall, Waiting
  <1>6. QED
    BY <1>4, <1>5 DEF StartCall

(* What a step about thread th that is not blocked on the Task t's own     *)
(* place leaves alone: a message executed, a thread woken or forked.       *)
Delivers(t, th) ==
    /\ pc[t] \in {"run", "inbox"}
    /\ UNCHANGED <<returning, spare, suspended, pendingSync, call, bound, cur, scan,
                   grabbed, deal, after, kind>>
    /\ msgs' \in [Tasks -> Seq(Threads)] /\ \A u \in Tasks \ {t} : msgs'[u] = msgs[u]
    /\ msgs'[t] # <<>> => pc[t] = "inbox"
    /\ \A x \in Threads \ {th} : Contains(msgs[t], x) => Contains(msgs'[t], x)
    /\ tst' \in [Threads -> {"none", "live", "blocked", "migrating"}]
    /\ tsoCap' \in [Threads -> Caps]
    /\ \A x \in Threads \ {th} : tst'[x] = tst[x] /\ tsoCap'[x] = tsoCap[x]
    /\ th \in Callers => (tst'[th] = "none" <=> tst[th] = "none") /\ tsoCap'[th] = tsoCap[th]
    /\ tst[th] = "live" => tst'[th] = tst[th] /\ tsoCap'[th] = tsoCap[th]

(* Such a step leaves the homes of the other threads as they are.          *)
LEMMA DeliversHome ==
    ASSUME IInv, NEW t \in Tasks, NEW th \in Threads, Delivers(t, th)
    PROVE  /\ DealInv' /\ \A x \in Threads \ {th} : Home'[x] = Home[x]
           /\ tsoCap'[th] = tsoCap[th] => Home'[th] = Home[th]
           /\ tst[th] # "live" => Home[th] = tsoCap[th] /\ Home'[th] = tsoCap'[th]
  <1>1. CASE tst[th] = "live"
    <2>1. tsoCap' = tsoCap
      BY <1>1 DEF Delivers, IInv, TypeOK
    <2>2. Home' = Home /\ DealInv'
      BY <1>1, <2>1, HomeStill DEF Delivers, IInv
    <2>3. QED
      BY <1>1, <2>2
  <1>2. CASE tst[th] # "live"
    <2>1. Mover(th) = {}
      BY <1>2, NoneMoved DEF IInv
    <2>2. Home[th] = tsoCap[th]
      BY <2>1 DEF Home
    <2>3. QED
      BY <2>1, <2>2, HomeSet DEF Delivers, IInv
  <1>3. QED
    BY <1>1, <1>2

(* ... and no bound thread comes, goes or moves.                           *)
LEMMA DeliversCallers ==
    ASSUME IInv, NEW t \in Tasks, NEW th \in Threads, Delivers(t, th)
    PROVE  \A b \in Callers : (tst'[b] = "none" <=> tst[b] = "none") /\ Home'[b] = Home[b]
  <1> SUFFICES ASSUME NEW b \in Callers
               PROVE  (tst'[b] = "none" <=> tst[b] = "none") /\ Home'[b] = Home[b]
    OBVIOUS
  <1>1. b \in Threads
    BY DEF Threads
  <1>2. /\ \A x \in Threads \ {th} : Home'[x] = Home[x]
        /\ tsoCap'[th] = tsoCap[th] => Home'[th] = Home[th]
    BY DeliversHome
  <1>3. CASE b = th
    BY <1>2, <1>3 DEF Delivers
  <1>4. CASE b # th
    BY <1>1, <1>2, <1>4 DEF Delivers
  <1>5. QED
    BY <1>3, <1>4

(* The actor of such a step is as it was.                                  *)
LEMMA DeliversTask ==
    ASSUME IInv, NEW t \in Tasks, NEW th \in Threads, Delivers(t, th),
           pc'[t] = pc[t], tcap'[t] = tcap[t], cap'[t] = cap[t], want'[t] = want[t]
    PROVE  TaskOK(t)' /\ Holding(t)' = Holding(t) /\ cap[t] \in Holding(t) /\ cap[t] \in Caps
  <1>1. TaskOK(t) /\ cap[t] \in Caps
    BY DEF IInv, TaskInv, TypeOK
  <1>2. t \in Callers => (tst'[t] = "none" <=> tst[t] = "none") /\ Home'[t] = Home[t]
    BY DeliversCallers
  <1>3. TaskOK(t)'
    BY <1>1, <1>2 DEF Delivers, TaskOK, WaitOK, LoopOK, RoleOK, CurOK, HomeOK, Looping, Entering,
          Resuming, Syncing, Acquiring, InYield, Returning, Yielding, HoldsOwn
  <1>4. Holding(t)' = Holding(t) /\ cap[t] \in Holding(t)
    BY <1>1 DEF Delivers, TaskOK, LoopOK, Holding, HoldsOwn, Acquiring
  <1>5. QED
    BY <1>1, <1>3, <1>4

(* sendMessage: the inbox has one more message, and who owns the Capability*)
(* is interrupted, or somebody is woken to take it.                        *)
LEMMA SendInv ==
    ASSUME IInv, NEW t \in Tasks, NEW th \in Threads, NEW d \in Caps,
           Delivers(t, th), SendMessage(d, th), runq' = runq,
           tst[th] = "live" \/ tst'[th] = "live" => tst'[th] = tst[th] /\ tsoCap'[th] = tsoCap[th],
           tst'[th] = "migrating" => th \in Unbound
    PROVE  IInv'
  <1> DEFINE as == [As(d) EXCEPT !.inbox = <<th>> \o @]
  <1>1. /\ inbox \in [Caps -> Seq(Threads)] /\ inbox[d] \in Seq(Threads)
        /\ pc \in [Tasks -> Places] /\ spare[d] \in Seq(Tasks)
    BY DEF IInv, TypeOK, PlacesOK
  <1>2. /\ <<th>> \o inbox[d] \in Seq(Threads)
        /\ \A x : Contains(<<th>> \o inbox[d], x) <=> Contains(inbox[d], x) \/ x = th
    BY <1>1, PushQueue
  <1>3. /\ inbox' \in [Caps -> Seq(Threads)] /\ inbox'[d] = <<th>> \o inbox[d]
        /\ \A c \in Caps \ {d} : inbox'[c] = inbox[c]
    BY <1>1, <1>2 DEF SendMessage
  <1>4. MigrationInv'
    <2> SUFFICES ASSUME NEW x \in Threads, tst'[x] = "migrating"
                 PROVE  Woken(x)' /\ x \in Unbound
      BY DEF MigrationInv
    <2>1. CASE x = th
      BY <1>2, <1>3, <2>1 DEF Woken
    <2>2. CASE x # th
      <3>1. tst[x] = "migrating"
        BY <2>2 DEF Delivers
      <3>2. Woken(x) /\ x \in Unbound
        BY <3>1 DEF IInv, MigrationInv
      <3>3. \A c \in Caps : Contains(inbox[c], x) => Contains(inbox'[c], x)
        BY <1>2, <1>3
      <3>4. \A u \in Tasks : Contains(msgs[u], x) => Contains(msgs'[u], x)
        BY <2>2 DEF Delivers
      <3>5. QED
        BY <3>2, <3>3, <3>4 DEF Woken
    <2>3. QED
      BY <2>1, <2>2
  <1>5. \A u \in Tasks \ {t} : Same(u)
    BY DEF Delivers, Same
  <1>6. ~Waiting(t) /\ pc[t] # "return_lock" /\ t \notin Fresh /\ pc[t] \notin Yielding
    BY DEF Delivers, Waiting, Fresh, Yielding
  <1>7. PICK h \in Fresh \cup {NoTask} :
          /\ h # t /\ Others(t, h, d) /\ \A u \in Tasks \ {t, h} : tcap'[u] = tcap[u]
          /\ ReleaseTyped
          /\ pc'[t] = pc[t] /\ tcap'[t] = tcap[t] /\ cap'[t] = cap[t] /\ want'[t] = want[t]
          /\ \/ /\ Free(d) /\ Release(d, as, Now)
                /\ running' = [running EXCEPT ![d] = h] /\ Mine(t, Now)
             \/ h = NoTask /\ ~Free(d) /\ running' = running
    <2>1. CASE Free(d) /\ Release(d, as, Now)
      <3>1. Mine(t, Now)
        BY NowState DEF Mine, Now, IInv
      <3>2. PICK h \in Fresh \cup {NoTask} :
              /\ h # t /\ Others(t, h, d) /\ \A u \in Tasks \ {t, h} : tcap'[u] = tcap[u]
              /\ running' = [running EXCEPT ![d] = h]
              /\ ReleaseTyped
              /\ pc'[t] = Now.pc[t] /\ tcap'[t] = Now.tcap[t]
              /\ cap'[t] = Now.cap[t] /\ want'[t] = Now.want[t]
        BY <1>5, <1>6, <2>1, <3>1, ReleaseStep DEF IInv
      <3>3. QED
        BY <2>1, <3>1, <3>2 DEF Now
    <2>2. CASE ~Free(d) /\ UNCHANGED <<running, lastFree, tcap, wakeup, pc, cap, want>>
      <3>1. NoTask # t
        BY CapabilityAssumption DEF Tasks
      <3>2. Others(t, NoTask, d)
        BY <1>5, <2>2, CapabilityAssumption DEF Others, Keeps, Tasks
      <3>3. ReleaseTyped
        BY <2>2 DEF ReleaseTyped, IInv, TypeOK, PlacesOK
      <3>4. QED
        BY <2>2, <3>1, <3>2, <3>3
    <2>3. QED
      BY <2>1, <2>2 DEF SendMessage
  <1>8. TaskOK(t)' /\ Holding(t)' = Holding(t)
    BY <1>7, DeliversTask
  <1>9. ~Waiting(t)'
    BY <1>6, <1>7 DEF Waiting
  <1>10. OwnersAgree' /\ NoLostWakeup'
    <2>1. CASE /\ Free(d) /\ Release(d, as, Now)
               /\ running' = [running EXCEPT ![d] = h] /\ Mine(t, Now)
      <3>1. d \notin Holding(t)
        BY <2>1, CapabilityAssumption DEF IInv, OwnersAgree, Free, Tasks
      <3>2. OwnersAgree'
        BY <1>7, <1>8, <2>1, <3>1, OwnersRelease DEF IInv
      <3>3. ~Contains(runq[d], t) /\ ~Contains(spare[d], t)
        BY <1>6, <3>1, BoundQueued DEF IInv, QueueInv, QueuedRight, Yielding
      <3>4. /\ as.runq = runq[d] /\ as.inbox = inbox'[d] /\ as.spare = spare[d]
            /\ as.always \in BOOLEAN
        BY <1>3 DEF As
      <3> HIDE DEF as
      <3>5. NoLostWakeup'
        BY <1>1, <1>3, <1>6, <1>7, <2>1, <3>3, <3>4, ReleaseWakes DEF Delivers
      <3>6. QED
        BY <3>2, <3>5
    <2>2. CASE h = NoTask /\ ~Free(d) /\ running' = running
      <3>1. OwnersAgree'
        BY <1>7, <1>8, <2>2, OwnersKept DEF IInv
      <3>2. \A c \in Caps : Free(c)' /\ Unserved(c)' => Free(c) /\ Unserved(c)
        BY <1>3, <2>2 DEF Free, Unserved, Delivers
      <3>3. NoLostWakeup'
        BY <1>6, <1>7, <3>2, WakeUpsKept DEF IInv
      <3>4. QED
        BY <3>1, <3>3
    <2>3. QED
      BY <1>7, <2>1, <2>2
  <1>11. QueueInv'
    BY <1>6, <1>7, <1>9, QueuesKept DEF IInv, Delivers
  <1>12. \A u \in Tasks : cur[u] # NoThread => cap'[u] = cap[u]
    <2> SUFFICES ASSUME NEW u \in Tasks \ {t}, cur[u] # NoThread PROVE cap'[u] = cap[u]
      BY <1>7
    <2>1. u \notin Fresh
      BY DEF Fresh, IInv, TaskInv, TaskOK, CurOK, Resuming, Returning
    <2>2. QED
      BY <1>7, <2>1 DEF Others, Born, Keeps
  <1>13. ThreadInv'
    <2>1. \A x \in Threads : tst[x] = "live" \/ tst'[x] = "live"
                            => tst'[x] = tst[x] /\ Home'[x] = Home[x]
      BY DeliversHome DEF Delivers
    <2>2. QED
      BY <1>12, <2>1, ThreadsStill DEF Delivers
  <1>14. TypeOK' /\ PlacesOK'
    BY <1>3, <1>7 DEF Delivers, ReleaseTyped, IInv, TypeOK, PlacesOK
  <1>15. \A b \in Callers \ {t} : /\ tst'[b] = "none" <=> tst[b] = "none"
                                  /\ Home'[b] = Home[b] /\ tcap'[b] = tcap[b]
    <2> SUFFICES ASSUME NEW b \in Callers \ {t}
                 PROVE  /\ tst'[b] = "none" <=> tst[b] = "none"
                        /\ Home'[b] = Home[b] /\ tcap'[b] = tcap[b]
      OBVIOUS
    <2>1. tcap'[b] = tcap[b] /\ b \in Threads
      BY <1>7, CapabilityAssumption DEF Threads, Tasks, Fresh
    <2>2. (tst'[b] = "none" <=> tst[b] = "none") /\ Home'[b] = Home[b]
      BY <2>1, DeliversCallers
    <2>3. QED
      BY <2>1, <2>2
  <1>16. \A c \in Caps : suspended[c] \ {t} \subseteq suspended'[c]
    BY DEF Delivers
  <1>17. QED
    BY <1>4, <1>7, <1>8, <1>10, <1>11, <1>13, <1>14, <1>15, <1>16, DeliversHome, StepInv

(* A thread whose home is here joins the run queue.                        *)
LEMMA WakeHereInv ==
    ASSUME IInv, NEW t \in Tasks, NEW th \in Threads, Delivers(t, th), AppendTo(cap[t], th),
           tst[th] # "live", tst'[th] = "live", tsoCap'[th] = cap[t]
    PROVE  IInv'
  <1> DEFINE c == cap[t]
  <1> USE DEF AppendTo
  <1>1. /\ runq \in [Caps -> Seq(Threads)] /\ runq[c] \in Seq(Threads) /\ c \in Caps
        /\ NoDup(runq[c])
    BY DEF IInv, TypeOK, ThreadInv
  <1>2. \A d \in Caps : ~Contains(runq[d], th)
    BY DEF IInv, ThreadInv
  <1>3. /\ Append(runq[c], th) \in Seq(Threads) /\ NoDup(Append(runq[c], th))
        /\ \A x : Contains(Append(runq[c], th), x) <=> Contains(runq[c], x) \/ x = th
    BY <1>1, <1>2, AppendQueue
  <1>4. \A u \in Tasks : cur[u] # th
    BY CapabilityAssumption DEF IInv, ThreadInv, NoThread, Threads
  <1>5. \A u \in Tasks : cur'[u] = (IF cur[u] = th THEN NoThread ELSE cur[u])
                         /\ (cur[u] # NoThread => cap'[u] = cap[u])
    BY <1>4 DEF Delivers
  <1>6. ThreadInv'
    <2>1. \A x \in Threads \ {th} : tst'[x] = tst[x] /\ Home'[x] = Home[x]
      BY DeliversHome DEF Delivers
    <2>2. Home'[th] = c
      BY DeliversHome
    <2>3. QED
      BY <1>1, <1>2, <1>3, <1>5, <2>1, <2>2, Enqueued
  <1>7. runq' \in [Caps -> Seq(Threads)] /\ \A d \in Caps \ {c} : runq'[d] = runq[d]
    BY <1>1, <1>3
  <1>8. TypeOK' /\ PlacesOK'
    BY <1>7 DEF Delivers, IInv, TypeOK, PlacesOK
  <1>9. TaskOK(t)' /\ Holding(t)' = Holding(t) /\ c \in Holding(t)
    BY DeliversTask
  <1>10. MigrationInv'
    <2> SUFFICES ASSUME NEW x \in Threads, tst'[x] = "migrating"
                 PROVE  Woken(x)' /\ x \in Unbound
      BY DEF MigrationInv
    <2>1. x # th /\ tst[x] = "migrating"
      BY DEF Delivers
    <2>2. Woken(x) /\ x \in Unbound
      BY <2>1 DEF IInv, MigrationInv
    <2>3. \A u \in Tasks : Contains(msgs[u], x) => Contains(msgs'[u], x)
      BY <2>1 DEF Delivers
    <2>4. QED
      BY <2>2, <2>3 DEF Woken
  <1>11. Alone(t)
    BY DEF Delivers, Alone, Keeps, Same
  <1>12. \A b \in Callers \ {t} : /\ tst'[b] = "none" <=> tst[b] = "none"
                                  /\ Home'[b] = Home[b]
    BY DeliversCallers
  <1>13. ~Waiting(t) /\ pc[t] # "return_lock" /\ ~Waiting(t)'
    BY DEF Delivers, Waiting
  <1>14. DealInv'
    BY DeliversHome
  <1>15. QED
    BY <1>6, <1>7, <1>8, <1>9, <1>10, <1>11, <1>12, <1>13, <1>14, HeldInv DEF Delivers

(* tryWakeupThread, in its three cases.                                    *)
LEMMA TryWakeupInv ==
    ASSUME IInv, NEW t \in Tasks, NEW th \in Threads, Delivers(t, th),
           TryWakeup(cap[t], th), tsoCap' = tsoCap
    PROVE  IInv'
  <1>0. tsoCap[th] \in Caps /\ cap[t] \in Caps
    BY DEF IInv, TypeOK
  <1>1. CASE /\ tsoCap[th] # cap[t] /\ SendMessage(tsoCap[th], th)
             /\ UNCHANGED <<runq, tst>>
    <2>1. tst[th] = "migrating" => th \in Unbound
      BY DEF IInv, MigrationInv
    <2>2. QED
      BY <1>0, <1>1, <2>1, SendInv
  <1>2. CASE /\ tsoCap[th] = cap[t] /\ Wakes(th) /\ AppendTo(cap[t], th)
             /\ tst' = [tst EXCEPT ![th] = "live"]
    <2>1. tst[th] # "live" /\ tst'[th] = "live" /\ tsoCap'[th] = cap[t]
      BY <1>2 DEF Wakes, IInv, TypeOK
    <2>2. QED
      BY <1>2, <2>1, WakeHereInv
  <1>3. CASE /\ tsoCap[th] = cap[t] /\ ~Wakes(th)
             /\ UNCHANGED <<runq, inbox, tst, running, lastFree, tcap, wakeup, pc, cap, want>>
    <2>1. TypeOK' /\ PlacesOK'
      BY <1>3 DEF Delivers, IInv, TypeOK, PlacesOK
    <2>2. TaskOK(t)' /\ Holding(t)' = Holding(t) /\ cap[t] \in Holding(t)
      BY <1>3, DeliversTask
    <2>3. Alone(t)
      BY <1>3 DEF Delivers, Alone, Keeps, Same
    <2>4. ThreadInv' /\ DealInv' /\ Home' = Home
      <3>1. Home' = Home /\ DealInv'
        BY <1>3, HomeStill DEF Delivers, IInv
      <3>2. QED
        BY <1>3, <3>1, ThreadsStill DEF Delivers
    <2>5. MigrationInv'
      <3> SUFFICES ASSUME NEW x \in Threads, tst'[x] = "migrating"
                   PROVE  Woken(x)' /\ x \in Unbound
        BY DEF MigrationInv
      <3>1. x # th
        BY <1>3 DEF Wakes
      <3>2. Woken(x) /\ x \in Unbound
        BY <1>3 DEF IInv, MigrationInv
      <3>3. \A u \in Tasks : Contains(msgs[u], x) => Contains(msgs'[u], x)
        BY <3>1 DEF Delivers
      <3>4. QED
        BY <1>3, <3>2, <3>3 DEF Woken
    <2>6. ~Waiting(t) /\ pc[t] # "return_lock" /\ ~Waiting(t)'
      BY <1>3 DEF Delivers, Waiting
    <2>7. QED
      BY <1>3, <2>1, <2>2, <2>3, <2>4, <2>5, <2>6, HeldInv DEF Delivers
  <1>4. QED
    BY <1>1, <1>2, <1>3 DEF TryWakeup

(* executeMessage, one message at a time.                                  *)
LEMMA ExecuteMessageInv == ASSUME IInv, NEW t \in Tasks, ExecuteMessage(t) PROVE IInv'
  <1> DEFINE th == Head(msgs[t])
  <1>1. /\ pc[t] = "inbox" /\ msgs[t] # <<>> /\ msgs[t] \in Seq(Threads)
        /\ msgs \in [Tasks -> Seq(Threads)]
    BY DEF ExecuteMessage, At, IInv, TypeOK
  <1>2. /\ th \in Threads /\ Tail(msgs[t]) \in Seq(Threads)
        /\ \A x : Contains(msgs[t], x) /\ x # th => Contains(Tail(msgs[t]), x)
    BY <1>1, TailKeeps
  <1>3. /\ msgs' \in [Tasks -> Seq(Threads)] /\ msgs'[t] = Tail(msgs[t])
        /\ \A u \in Tasks \ {t} : msgs'[u] = msgs[u]
    BY <1>1, <1>2 DEF ExecuteMessage
  <1>4. TryWakeup(cap[t], th) /\ tsoCap' = tsoCap
    BY DEF ExecuteMessage
  <1> HIDE DEF th
  <1>5. /\ tst' \in [Threads -> {"none", "live", "blocked", "migrating"}]
        /\ \A x \in Threads \ {th} : tst'[x] = tst[x]
        /\ th \in Callers => (tst'[th] = "none" <=> tst[th] = "none")
        /\ tst[th] = "live" => tst'[th] = tst[th]
    BY <1>2, <1>4 DEF TryWakeup, Wakes, IInv, TypeOK
  <1>6. Delivers(t, th)
    BY <1>1, <1>2, <1>3, <1>4, <1>5 DEF ExecuteMessage, Delivers, IInv, TypeOK
  <1>7. QED
    BY <1>2, <1>4, <1>6, TryWakeupInv

(* A running thread wakes another.                                         *)
LEMMA WakeInv ==
    ASSUME IInv, NEW t \in Tasks, NEW th \in Threads, Wake(t, th)
    PROVE  IInv'
  <1>1. pc[t] = "run" /\ TryWakeup(cap[t], th) /\ tsoCap' = tsoCap /\ msgs' = msgs
    BY DEF Wake, Running, At, loopVars
  <1>2. /\ tst' \in [Threads -> {"none", "live", "blocked", "migrating"}]
        /\ \A x \in Threads \ {th} : tst'[x] = tst[x]
        /\ th \in Callers => (tst'[th] = "none" <=> tst[th] = "none")
        /\ tst[th] = "live" => tst'[th] = tst[th]
    BY <1>1 DEF TryWakeup, Wakes, IInv, TypeOK
  <1>3. msgs[t] = <<>>
    BY <1>1 DEF IInv, TaskInv, TaskOK, LoopOK
  <1>4. Delivers(t, th)
    BY <1>1, <1>2, <1>3 DEF Wake, loopVars, Delivers, IInv, TypeOK
  <1>5. QED
    BY <1>1, <1>4, TryWakeupInv

(* A running thread makes a new one, here or on another Capability.        *)
LEMMA ForkInv ==
    ASSUME IInv, NEW t \in Tasks, NEW th \in Unbound, NEW d \in Caps, Fork(t, th, d)
    PROVE  IInv'
  <1>1. /\ pc[t] = "run" /\ tst[th] = "none" /\ msgs' = msgs /\ th \in Threads /\ th \notin Callers
        /\ tsoCap' = [tsoCap EXCEPT ![th] = d]
    BY CapabilityAssumption DEF Fork, Running, At, loopVars, Threads
  <1>2. /\ tsoCap' \in [Threads -> Caps] /\ tsoCap'[th] = d
        /\ \A x \in Threads \ {th} : tsoCap'[x] = tsoCap[x]
    BY <1>1 DEF IInv, TypeOK
  <1>3. /\ tst' \in [Threads -> {"none", "live", "blocked", "migrating"}]
        /\ \A x \in Threads \ {th} : tst'[x] = tst[x]
        /\ \/ d = cap[t] /\ AppendTo(d, th) /\ tst'[th] = "live"
           \/ d # cap[t] /\ SendMessage(d, th) /\ tst'[th] = "migrating" /\ runq' = runq
    BY <1>1 DEF Fork, IInv, TypeOK
  <1>4. msgs[t] = <<>>
    BY <1>1 DEF IInv, TaskInv, TaskOK, LoopOK
  <1>5. Delivers(t, th)
    BY <1>1, <1>2, <1>3, <1>4 DEF Fork, loopVars, Delivers, IInv, TypeOK
  <1>6. CASE d = cap[t] /\ AppendTo(d, th) /\ tst'[th] = "live"
    BY <1>1, <1>2, <1>5, <1>6, WakeHereInv
  <1>7. CASE d # cap[t] /\ SendMessage(d, th) /\ tst'[th] = "migrating" /\ runq' = runq
    BY <1>1, <1>5, <1>7, SendInv
  <1>8. QED
    BY <1>3, <1>6, <1>7

(* The wake-up of a step that passes a hint on, or that uses one up.       *)
LEMMA WakeUpsPassed ==
    ASSUME NoLostWakeup, NEW t \in Tasks, NEW h, NEW d, Others(t, h, d), h # t,
           \A c \in Caps : Free(c)' /\ Unserved(c)' =>
               \/ \E u \in Tasks : Coming(u, c)'
               \/ Free(c) /\ Unserved(c) /\ (Coming(t, c) => Coming(t, c)')
    PROVE  NoLostWakeup'
  <1> SUFFICES ASSUME NEW c \in Caps, Free(c)', Unserved(c)',
                      Free(c), Unserved(c), Coming(t, c) => Coming(t, c)'
               PROVE  \E u \in Tasks : Coming(u, c)'
    BY DEF NoLostWakeup
  <1>1. PICK u \in Tasks : Coming(u, c)
    BY DEF NoLostWakeup
  <1>2. CASE u = t
    BY <1>1, <1>2
  <1>3. CASE u # t
    <2>1. u # h /\ Keeps(u)
      BY <1>1, <1>3 DEF Coming, Waiting, Others, Born, Fresh
    <2>2. Coming(u, c)'
      BY <1>1, <2>1 DEF Coming, Waiting, Keeps, Yielding
    <2>3. QED
      BY <2>2
  <1>4. QED
    BY <1>2, <1>3

(* The queues after the actor joined or left one.                          *)
LEMMA QueuesMoved ==
    ASSUME QueueInv, NEW t \in Tasks, NEW h, NEW c, Others(t, h, c), h # t,
           \A d \in Caps : NoDup(returning'[d]) /\ NoDup(spare'[d]),
           \A d \in Caps, u \in Tasks \ {t} :
             /\ Contains(returning'[d], u) <=> Contains(returning[d], u)
             /\ Contains(spare'[d], u) <=> Contains(spare[d], u),
           \A d \in Caps :
             /\ Contains(returning'[d], t) <=> pc'[t] \in InQueue /\ tcap'[t] = d
             /\ Contains(spare'[d], t) <=> ~bound'[t] /\ pc'[t] \in Yielding /\ tcap'[t] = d
    PROVE  QueueInv'
  <1>1. ASSUME NEW u \in Tasks, NEW d \in Caps
        PROVE  /\ Contains(returning'[d], u) <=> pc'[u] \in InQueue /\ tcap'[u] = d
               /\ Contains(spare'[d], u) <=> ~bound'[u] /\ pc'[u] \in Yielding /\ tcap'[u] = d
    <2>1. /\ Contains(returning[d], u) <=> pc[u] \in InQueue /\ tcap[u] = d
          /\ Contains(spare[d], u) <=> ~bound[u] /\ pc[u] \in Yielding /\ tcap[u] = d
      BY DEF QueueInv, QueuedRight, InQueue, Yielding
    <2>2. CASE u = t
      BY <2>2
    <2>3. CASE u # t /\ u = h
      BY <2>1, <2>3 DEF Others, Born, Fresh, InQueue, Yielding
    <2>4. CASE u # t /\ u # h
      BY <2>1, <2>4 DEF Others, Keeps, Same, InQueue, Yielding
    <2>5. QED
      BY <2>2, <2>3, <2>4
  <1>2. QED
    BY <1>1 DEF QueueInv, QueuedRight, InQueue, Yielding

(* A step of the wait, put together.                                       *)
LEMMA WaitStep ==
    ASSUME IInv, NEW t \in Tasks, Alone(t),
           UNCHANGED <<runq, inbox, suspended, pendingSync, lastFree, tcap, bound, call>>,
           UNCHANGED <<cur, tst, tsoCap, scan, grabbed, deal, msgs, after, kind>>,
           running' \in [Caps -> Tasks \cup {NoTask}],
           returning' \in [Caps -> Seq(Tasks)], spare' \in [Caps -> Seq(Tasks)],
           cap' \in [Tasks -> Caps], want' \in [Tasks -> Caps],
           wakeup' \in [Tasks -> BOOLEAN], pc' \in [Tasks -> Places],
           TaskOK(t)', cur[t] # NoThread => cap'[t] = cap[t], OwnersAgree',
           \A d \in Caps : NoDup(returning'[d]) /\ NoDup(spare'[d]),
           \A d \in Caps, u \in Tasks \ {t} :
             /\ Contains(returning'[d], u) <=> Contains(returning[d], u)
             /\ Contains(spare'[d], u) <=> Contains(spare[d], u),
           \A d \in Caps :
             /\ Contains(returning'[d], t) <=> pc'[t] \in InQueue /\ tcap[t] = d
             /\ Contains(spare'[d], t) <=> ~bound[t] /\ pc'[t] \in Yielding /\ tcap[t] = d,
           \A c \in Caps : Free(c)' /\ Unserved(c)' =>
               \/ \E u \in Tasks : Coming(u, c)'
               \/ Free(c) /\ Unserved(c) /\ (Coming(t, c) => Coming(t, c)')
    PROVE  IInv'
  <1> Home' = Home /\ DealInv'
    BY HomeStill DEF IInv, threadVars, loopVars
  <1>1. Others(t, NoTask, 0) /\ 0 \in Caps /\ NoTask # t
    BY AloneOthers, CapabilityAssumption DEF Tasks
  <1>2. QueueInv'
    BY <1>1, QueuesMoved DEF IInv
  <1>3. NoLostWakeup'
    BY <1>1, WakeUpsPassed DEF IInv
  <1>4. ThreadInv'
    BY <1>1, ThreadsKept
  <1>5. MigrationInv'
    BY DEF MigrationInv, Woken, IInv
  <1>6. TypeOK' /\ PlacesOK'
    BY DEF IInv, TypeOK, PlacesOK
  <1>7. QED
    BY <1>1, <1>2, <1>3, <1>4, <1>5, <1>6, StepInv

(* waitForReturnCapability, the Capability free or not when its lock is    *)
(* taken.                                                                  *)
LEMMA WaitReturnLockInv ==
    ASSUME IInv, NEW t \in Tasks, WaitReturnLock(t), UNCHANGED <<threadVars, loopVars>>
    PROVE  IInv'
  <1> USE DEF threadVars, loopVars
  <1> Home' = Home /\ DealInv'
    BY HomeStill DEF IInv, threadVars, loopVars
  <1> DEFINE c == want[t]
  <1>1. /\ TaskOK(t) /\ pc[t] = "return_lock" /\ c \in Caps /\ tcap[t] = c
        /\ pc \in [Tasks -> Places] /\ running \in [Caps -> Tasks \cup {NoTask}]
        /\ returning \in [Caps -> Seq(Tasks)] /\ spare \in [Caps -> Seq(Tasks)]
        /\ call[t] \in {"enter", "resume", "acquire"}
    BY DEF WaitReturnLock, IInv, TaskInv, TypeOK, PlacesOK, TaskOK, WaitOK, Returning
  <1>2. \A d \in Caps : /\ ~Contains(returning[d], t) /\ ~Contains(spare[d], t)
                        /\ NoDup(returning[d]) /\ NoDup(spare[d])
    BY <1>1 DEF IInv, QueueInv, QueuedRight
  <1>3. \A d \in Caps : Coming(t, d) => d = c
    BY <1>1 DEF Coming, Waiting
  <1>4. CASE Free(c)
    <2>1. /\ running' = [running EXCEPT ![c] = t] /\ returning' = returning
          /\ pc' = [pc EXCEPT ![t] = Resume(t)]
      BY <1>4 DEF WaitReturnLock, Goto
    <2>2. /\ pc' \in [Tasks -> Places] /\ pc'[t] = Resume(t) /\ \A u \in Tasks \ {t} : pc'[u] = pc[u]
          /\ running' \in [Caps -> Tasks \cup {NoTask}]
      BY <1>1, <2>1 DEF Resume, Places, HoldsOwn
    <2>3. Alone(t)
      BY <2>2 DEF WaitReturnLock, Alone, Keeps, Same
    <2>4. TaskOK(t)'
      BY <1>1, <2>2 DEF WaitReturnLock, Resume, TaskOK, WaitOK, LoopOK, RoleOK, CurOK, HomeOK, Looping, Entering,
          Resuming, Syncing, Acquiring, InYield, Returning, Yielding, HoldsOwn
    <2>5. Holding(t)' = Holding(t) \cup {c}
      BY <1>1, <2>2, EmptyQueue DEF WaitReturnLock, Resume, WaitOK, Returning, TaskOK, LoopOK, Holding, HoldsOwn, Acquiring
    <2>6. OwnersAgree'
      BY <1>1, <1>4, <2>1, <2>3, <2>5, AloneOthers, OwnersTake DEF IInv
    <2>7. pc'[t] \notin InQueue \cup Yielding
      BY <1>1, <2>2 DEF Resume, InQueue, Yielding
    <2>8. \A d \in Caps : Free(d)' => d # c
      BY <1>1, <2>1, CapabilityAssumption DEF Free, Tasks
    <2>9. \A d \in Caps : Free(d)' /\ Unserved(d)' => Free(d) /\ Unserved(d) /\ ~Coming(t, d)
      BY <1>1, <1>3, <2>1, <2>8 DEF WaitReturnLock, Free, Unserved
    <2>10. QED
      <3>1. wakeup' \in [Tasks -> BOOLEAN] /\ cap' \in [Tasks -> Caps] /\ want' \in [Tasks -> Caps]
            /\ cap' = cap /\ spare' = spare
        BY DEF WaitReturnLock, IInv, TypeOK
      <3>2. /\ UNCHANGED <<runq, inbox, suspended, pendingSync, lastFree, tcap, bound, call>>
            /\ UNCHANGED <<cur, tst, tsoCap, scan, grabbed, deal, msgs, after, kind>>
        BY DEF WaitReturnLock
      <3>3. \A d \in Caps :
             /\ Contains(returning'[d], t) <=> pc'[t] \in InQueue /\ tcap[t] = d
             /\ Contains(spare'[d], t) <=> ~bound[t] /\ pc'[t] \in Yielding /\ tcap[t] = d
        BY <1>2, <2>1, <2>7, <3>1
      <3>4. QED
        BY <1>1, <1>2, <2>1, <2>2, <2>3, <2>4, <2>6, <2>9, <3>1, <3>2, <3>3, WaitStep
  <1>5. CASE ~Free(c)
    <2>1. /\ running' = running /\ returning' = [returning EXCEPT ![c] = Append(@, t)]
          /\ pc' = [pc EXCEPT ![t] = "return_wait"]
      BY <1>5 DEF WaitReturnLock, Goto
    <2>2. /\ pc' \in [Tasks -> Places] /\ pc'[t] = "return_wait" /\ \A u \in Tasks \ {t} : pc'[u] = pc[u]
      BY <1>1, <2>1 DEF Places, Returning
    <2>3. /\ Append(returning[c], t) \in Seq(Tasks) /\ NoDup(Append(returning[c], t))
          /\ \A x : Contains(Append(returning[c], t), x) <=> Contains(returning[c], x) \/ x = t
      BY <1>1, <1>2, AppendQueue
    <2>4. /\ returning' \in [Caps -> Seq(Tasks)]
          /\ \A d \in Caps : returning'[d] = IF d = c THEN Append(returning[c], t) ELSE returning[d]
      BY <1>1, <2>1, <2>3
    <2>5. Alone(t)
      BY <2>2 DEF WaitReturnLock, Alone, Keeps, Same
    <2>6. TaskOK(t)'
      BY <1>1, <2>2 DEF WaitReturnLock, TaskOK, WaitOK, LoopOK, RoleOK, CurOK, HomeOK, Looping, Entering,
          Resuming, Syncing, Acquiring, InYield, Returning, Yielding, HoldsOwn
    <2>7. Holding(t)' = Holding(t)
      BY <1>1, <2>2 DEF WaitReturnLock, TaskOK, LoopOK, Holding, HoldsOwn, Acquiring
    <2>8. OwnersAgree'
      BY <2>1, <2>5, <2>7, AloneOthers, OwnersKept DEF IInv
    <2>9. \A d \in Caps : Free(d)' => d # c
      BY <1>5, <2>1 DEF Free
    <2>10. \A d \in Caps : Free(d)' /\ Unserved(d)' => Free(d) /\ Unserved(d) /\ ~Coming(t, d)
      BY <1>3, <2>1, <2>4, <2>9 DEF WaitReturnLock, Free, Unserved
    <2>11. \A d \in Caps :
             /\ Contains(returning'[d], t) <=> pc'[t] \in InQueue /\ tcap[t] = d
             /\ Contains(spare'[d], t) <=> ~bound[t] /\ pc'[t] \in Yielding /\ tcap[t] = d
      BY <1>1, <1>2, <2>2, <2>3, <2>4 DEF WaitReturnLock, InQueue, Yielding
    <2>12. /\ \A d \in Caps : NoDup(returning'[d]) /\ NoDup(spare'[d])
           /\ \A d \in Caps, u \in Tasks \ {t} :
                /\ Contains(returning'[d], u) <=> Contains(returning[d], u)
                /\ Contains(spare'[d], u) <=> Contains(spare[d], u)
      BY <1>2, <2>3, <2>4 DEF WaitReturnLock
    <2>13. wakeup' \in [Tasks -> BOOLEAN] /\ cap' \in [Tasks -> Caps] /\ want' \in [Tasks -> Caps]
           /\ cap' = cap /\ spare' = spare
      BY DEF WaitReturnLock, IInv, TypeOK
    <2>14. /\ UNCHANGED <<runq, inbox, suspended, pendingSync, lastFree, tcap, bound, call>>
           /\ UNCHANGED <<cur, tst, tsoCap, scan, grabbed, deal, msgs, after, kind>>
      BY DEF WaitReturnLock
    <2>15. QED
      BY <1>1, <2>1, <2>2, <2>4, <2>5, <2>6, <2>8, <2>10, <2>11, <2>12, <2>13, <2>14, WaitStep
  <1>6. QED
    BY <1>4, <1>5

(* waitForReturnCapability wakes up, or is woken spuriously.               *)
LEMMA WaitWakeInv ==
    ASSUME IInv, NEW t \in Tasks, WaitWake(t), UNCHANGED <<threadVars, loopVars>>
    PROVE  IInv'
  <1> USE DEF threadVars, loopVars
  <1>1. /\ TaskOK(t) /\ pc[t] \in {"return_wait", "yield_wait"} /\ tcap[t] \in Caps
        /\ pc \in [Tasks -> Places] /\ wakeup \in [Tasks -> BOOLEAN]
        /\ cap \in [Tasks -> Caps] /\ want \in [Tasks -> Caps]
        /\ returning \in [Caps -> Seq(Tasks)] /\ spare \in [Caps -> Seq(Tasks)]
        /\ running \in [Caps -> Tasks \cup {NoTask}]
    BY DEF WaitWake, IInv, TaskInv, TypeOK, PlacesOK
  <1>2. /\ pc' \in [Tasks -> Places]
        /\ pc'[t] = (IF pc[t] = "return_wait" THEN "return_check" ELSE "yield_check")
        /\ \A u \in Tasks \ {t} : pc'[u] = pc[u]
    BY <1>1 DEF WaitWake, Goto, Places, Returning, Yielding
  <1>3. /\ wakeup' \in [Tasks -> BOOLEAN] /\ \A u \in Tasks \ {t} : wakeup'[u] = wakeup[u]
        /\ want' \in [Tasks -> Caps] /\ want'[t] = tcap[t] /\ \A u \in Tasks \ {t} : want'[u] = want[u]
        /\ cap' \in [Tasks -> Caps] /\ cap'[t] = (IF call[t] = "acquire" THEN cap[t] ELSE tcap[t])
        /\ \A u \in Tasks \ {t} : cap'[u] = cap[u]
    BY <1>1 DEF WaitWake
  <1> USE DEF WaitWake, capVars
  <1> Home' = Home /\ DealInv'
    BY HomeStill DEF IInv, threadVars, loopVars
  <1>4. Alone(t)
    BY <1>2, <1>3 DEF Alone, Keeps, Same
  <1>5. pc[t] = "return_wait" => cap'[t] = cap[t]
    BY <1>1, <1>3 DEF TaskOK, WaitOK, Returning
  <1>6. TaskOK(t)'
    <2>1. WaitOK(t)'
      BY <1>1, <1>2, <1>3, <1>5 DEF TaskOK, WaitOK, InYield, Returning, Yielding, HoldsOwn
    <2>2. LoopOK(t)'
      <3>1. grabbed[t] = <<>> /\ msgs[t] = <<>>
        BY <1>1 DEF TaskOK, LoopOK
      <3>2. QED
        BY <1>1, <1>2, <3>1, EmptyQueue DEF TaskOK, LoopOK
    <2>3. RoleOK(t)'
      BY <1>1, <1>2 DEF TaskOK, RoleOK, Looping, Entering, Syncing, Acquiring, InYield, Returning, Yielding
    <2>4. CurOK(t)'
      BY <1>1, <1>2, <1>5 DEF TaskOK, CurOK, Resuming, Returning
    <2>5. t \in Callers => HomeOK(t)'
      BY <1>1, <1>2, <1>3, <1>5 DEF TaskOK, HomeOK, Yielding
    <2>6. QED
      BY <2>1, <2>2, <2>3, <2>4, <2>5 DEF TaskOK
  <1>7. Holding(t)' = Holding(t)
    BY <1>1, <1>2, <1>3, <1>5 DEF TaskOK, LoopOK, Holding, HoldsOwn, Acquiring
  <1>8. OwnersAgree'
    BY <1>4, <1>7, AloneOthers, OwnersKept DEF IInv
  <1>9. \A d \in Caps : Free(d)' /\ Unserved(d)' =>
            Free(d) /\ Unserved(d) /\ (Coming(t, d) => Coming(t, d)')
    BY <1>1, <1>2, <1>3 DEF Free, Unserved, Coming, Waiting
  <1>10. \A d \in Caps :
             /\ Contains(returning[d], t) <=> pc'[t] \in InQueue /\ tcap[t] = d
             /\ Contains(spare[d], t) <=> ~bound[t] /\ pc'[t] \in Yielding /\ tcap[t] = d
    BY <1>1, <1>2 DEF InQueue, Yielding, IInv, QueueInv, QueuedRight
  <1>11. \A d \in Caps : NoDup(returning[d]) /\ NoDup(spare[d])
    BY DEF IInv, QueueInv
  <1>12. cur[t] # NoThread => cap'[t] = cap[t]
    BY <1>1, <1>5 DEF TaskOK, CurOK, Resuming, Returning
  <1>13. QED
    BY <1>1, <1>2, <1>3, <1>4, <1>6, <1>8, <1>9, <1>10, <1>11, <1>12, WaitStep

(* waitForReturnCapability checks what it was woken for, and takes the     *)
(* Capability or sleeps again.                                             *)
LEMMA WaitReturnCheckInv ==
    ASSUME IInv, NEW t \in Tasks, WaitReturnCheck(t), UNCHANGED <<threadVars, loopVars>>
    PROVE  IInv'
  <1> USE DEF threadVars, loopVars
  <1> Home' = Home /\ DealInv'
    BY HomeStill DEF IInv, threadVars, loopVars
  <1> DEFINE c == want[t]
  <1>1. /\ TaskOK(t) /\ pc[t] = "return_check" /\ c \in Caps /\ tcap[t] = c
        /\ pc \in [Tasks -> Places] /\ running \in [Caps -> Tasks \cup {NoTask}]
        /\ returning \in [Caps -> Seq(Tasks)] /\ spare \in [Caps -> Seq(Tasks)]
        /\ wakeup \in [Tasks -> BOOLEAN]
        /\ call[t] \in {"enter", "resume", "acquire"}
    BY DEF WaitReturnCheck, IInv, TaskInv, TypeOK, PlacesOK, TaskOK, WaitOK, Returning
  <1>2. \A d \in Caps : /\ Contains(returning[d], t) <=> d = c
                        /\ ~Contains(spare[d], t)
                        /\ NoDup(returning[d]) /\ NoDup(spare[d])
    BY <1>1 DEF IInv, QueueInv, QueuedRight
  <1>3. \A d \in Caps : Coming(t, d) => d = c
    BY <1>1 DEF Coming, Waiting
  <1>4. /\ cap' = cap /\ want' = want /\ spare' = spare
        /\ cap' \in [Tasks -> Caps] /\ want' \in [Tasks -> Caps]
    BY DEF WaitReturnCheck, IInv, TypeOK
  <1>5. CASE /\ pc' = Goto(t, "return_wait") /\ running' = running /\ returning' = returning
             /\ wakeup' \in [Tasks -> BOOLEAN] /\ \A u \in Tasks : wakeup[u] => wakeup'[u]
             /\ Free(c) => \E u \in Tasks : Coming(u, c)'
    <2>1. /\ pc' \in [Tasks -> Places] /\ pc'[t] = "return_wait"
          /\ \A u \in Tasks \ {t} : pc'[u] = pc[u]
      BY <1>1, <1>5 DEF Goto, Places, Returning
    <2>2. Alone(t)
      BY <1>4, <1>5, <2>1 DEF WaitReturnCheck, Alone, Keeps, Same
    <2>3. TaskOK(t)'
      BY <1>1, <1>4, <2>1 DEF WaitReturnCheck, TaskOK, WaitOK, LoopOK, RoleOK, CurOK, HomeOK, Looping, Entering,
          Resuming, Syncing, Acquiring, InYield, Returning, Yielding, HoldsOwn
    <2>4. Holding(t)' = Holding(t)
      BY <1>1, <1>4, <2>1 DEF WaitReturnCheck, TaskOK, LoopOK, Holding, HoldsOwn, Acquiring
    <2>5. OwnersAgree'
      BY <1>5, <2>2, <2>4, AloneOthers, OwnersKept DEF IInv
    <2>6. \A d \in Caps : Free(d)' /\ Unserved(d)' =>
              \/ \E u \in Tasks : Coming(u, d)'
              \/ Free(d) /\ Unserved(d) /\ ~Coming(t, d)
      BY <1>3, <1>5 DEF WaitReturnCheck, Free, Unserved
    <2>7. \A d \in Caps :
             /\ Contains(returning[d], t) <=> pc'[t] \in InQueue /\ tcap[t] = d
             /\ Contains(spare[d], t) <=> ~bound[t] /\ pc'[t] \in Yielding /\ tcap[t] = d
      BY <1>1, <1>2, <2>1 DEF InQueue, Yielding
    <2>8. QED
      BY <1>1, <1>2, <1>4, <1>5, <2>1, <2>2, <2>3, <2>5, <2>6, <2>7, WaitStep, ZenonT(30) DEF WaitReturnCheck
  <1>6. CASE /\ ~Free(c) /\ pc' = Goto(t, "return_wait") /\ UNCHANGED <<running, returning, wakeup>>
    BY <1>1, <1>5, <1>6
  <1>7. CASE /\ Free(c) /\ ~Leads(t, returning[c])
             /\ wakeup' = [wakeup EXCEPT ![Head(returning[c])] = TRUE]
             /\ pc' = Goto(t, "return_wait") /\ UNCHANGED <<running, returning>>
    <2>1. returning[c] # <<>>
      BY <1>1, <1>2, EmptyQueue
    <2>2. PICK u \in Tasks : u = Head(returning[c])
      BY <1>1, <2>1, HeadIn
    <2>3. Contains(returning[c], u) /\ u # t
      BY <1>1, <1>7, <2>1, <2>2, HeadIn DEF Leads
    <2>4. pc[u] \in InQueue /\ tcap[u] = c
      BY <1>1, <2>3 DEF IInv, QueueInv, QueuedRight, InQueue
    <2>5. wakeup' \in [Tasks -> BOOLEAN] /\ wakeup'[u] /\ \A v \in Tasks : wakeup[v] => wakeup'[v]
      BY <1>1, <1>7, <2>2
    <2>6. pc'[u] = pc[u] /\ tcap'[u] = tcap[u] /\ want'[t] = want[t]
      BY <1>1, <1>4, <1>7, <2>3 DEF WaitReturnCheck, Goto
    <2>7. Coming(u, c)'
      BY <2>4, <2>5, <2>6 DEF Coming, Waiting, InQueue
    <2>8. QED
      BY <1>5, <1>7, <2>5, <2>7
  <1>8. CASE /\ Free(c) /\ Leads(t, returning[c])
             /\ running' = [running EXCEPT ![c] = t]
             /\ returning' = [returning EXCEPT ![c] = Tail(@)]
             /\ pc' = Goto(t, Resume(t)) /\ UNCHANGED wakeup
    <2>1. /\ pc' \in [Tasks -> Places] /\ pc'[t] = Resume(t) /\ \A u \in Tasks \ {t} : pc'[u] = pc[u]
          /\ running' \in [Caps -> Tasks \cup {NoTask}]
      BY <1>1, <1>8 DEF Goto, Resume, Places, HoldsOwn
    <2>2. Alone(t)
      BY <1>8, <2>1 DEF WaitReturnCheck, Alone, Keeps, Same
    <2>3. TaskOK(t)'
      BY <1>1, <2>1 DEF WaitReturnCheck, Resume, TaskOK, WaitOK, LoopOK, RoleOK, CurOK, HomeOK, Looping, Entering,
          Resuming, Syncing, Acquiring, InYield, Returning, Yielding, HoldsOwn
    <2>4. Holding(t)' = Holding(t) \cup {c}
      BY <1>1, <2>1, EmptyQueue DEF WaitReturnCheck, Resume, WaitOK, Returning, TaskOK, LoopOK, Holding, HoldsOwn, Acquiring
    <2>5. OwnersAgree'
      BY <1>1, <1>8, <2>2, <2>4, AloneOthers, OwnersTake DEF IInv
    <2>6. pc'[t] \notin InQueue \cup Yielding
      BY <1>1, <2>1 DEF Resume, InQueue, Yielding
    <2>7. returning[c] # <<>> /\ Head(returning[c]) = t
      BY <1>8 DEF Leads
    <2>8. /\ Tail(returning[c]) \in Seq(Tasks) /\ NoDup(Tail(returning[c]))
          /\ \A x : Contains(Tail(returning[c]), x) <=> Contains(returning[c], x) /\ x # t
      BY <1>1, <1>2, <2>7, TailQueue
    <2>9. /\ returning' \in [Caps -> Seq(Tasks)]
          /\ \A d \in Caps : returning'[d] = IF d = c THEN Tail(returning[c]) ELSE returning[d]
      BY <1>1, <1>8, <2>8
    <2>10. \A d \in Caps : Free(d)' => d # c
      BY <1>1, <1>8, CapabilityAssumption DEF Free, Tasks
    <2>11. \A d \in Caps : Free(d)' /\ Unserved(d)' => Free(d) /\ Unserved(d) /\ ~Coming(t, d)
      BY <1>1, <1>3, <1>8, <2>9, <2>10 DEF WaitReturnCheck, Free, Unserved
    <2>12. \A d \in Caps :
             /\ Contains(returning'[d], t) <=> pc'[t] \in InQueue /\ tcap[t] = d
             /\ Contains(spare'[d], t) <=> ~bound[t] /\ pc'[t] \in Yielding /\ tcap[t] = d
      BY <1>2, <1>4, <2>6, <2>8, <2>9
    <2>13. /\ \A d \in Caps : NoDup(returning'[d]) /\ NoDup(spare'[d])
           /\ \A d \in Caps, u \in Tasks \ {t} :
                /\ Contains(returning'[d], u) <=> Contains(returning[d], u)
                /\ Contains(spare'[d], u) <=> Contains(spare[d], u)
      BY <1>2, <1>4, <2>8, <2>9
    <2>14. /\ UNCHANGED <<runq, inbox, suspended, pendingSync, lastFree, tcap, bound, call>>
           /\ UNCHANGED <<cur, tst, tsoCap, scan, grabbed, deal, msgs, after, kind>>
      BY DEF WaitReturnCheck
    <2>15. QED
      BY <1>1, <1>4, <1>8, <2>1, <2>2, <2>3, <2>5, <2>9, <2>11, <2>12, <2>13, <2>14, WaitStep
  <1>9. QED
    BY <1>6, <1>7, <1>8 DEF WaitReturnCheck

(* How yieldCapability releases, and what it makes of the queues: ts is    *)
(* the Task asleep, or gone for good.                                      *)
Asleep(t, ts) == ts.pc[t] = "yield_wait" /\ ts.tcap[t] = cap[t] /\ ts.cap[t] = cap[t]
Gone(t, ts)   == ts.pc[t] = "none" /\ ~bound[t]

YieldAs(t, qs) ==
    /\ qs.runq = runq[cap[t]] /\ qs.inbox = inbox[cap[t]] /\ qs.always \in BOOLEAN
    /\ qs.spare \in Seq(Tasks)
    /\ \A u \in Tasks \ {t} : Contains(qs.spare, u) => Contains(spare[cap[t]], u)

YieldLeaves(t) ==
    /\ UNCHANGED <<returning, runq, inbox, suspended, pendingSync, bound>>
    /\ UNCHANGED <<cur, tst, tsoCap, scan, grabbed, deal, msgs, after, kind>>
    /\ call' \in [Tasks -> {"none", "enter", "resume", "acquire", "sched", "seq", "other"}]
    /\ \A u \in Tasks \ {t} : call'[u] = call[u]
    /\ spare' \in [Caps -> Seq(Tasks)]
    /\ \A d \in Caps : NoDup(spare'[d])
    /\ \A d \in Caps, u \in Tasks \ {t} : Contains(spare'[d], u) <=> Contains(spare[d], u)

(* Giving a Capability up to wait for it, or for good.                     *)
LEMMA YieldRelease ==
    ASSUME IInv, NEW t \in Tasks, pc[t] = "yield", YieldLeaves(t),
           NEW qs, NEW ts, Mine(t, ts), Release(cap[t], qs, ts), YieldAs(t, qs),
           \/ Asleep(t, ts) /\ call'[t] = call[t]
           \/ Gone(t, ts) /\ call'[t] = "none" /\ ~Contains(qs.spare, t),
           \A d \in Caps : Contains(spare'[d], t) <=> ~bound[t] /\ Asleep(t, ts) /\ d = cap[t]
    PROVE  IInv'
  <1> DEFINE c == cap[t]
  <1>1. /\ TaskOK(t) /\ c \in Caps /\ tcap[t] = c /\ grabbed[t] = <<>> /\ msgs[t] = <<>>
        /\ cur[t] = NoThread
    BY DEF IInv, TaskInv, TypeOK, TaskOK, WaitOK, HoldsOwn, LoopOK, CurOK, Resuming, Returning
  <1>2. \A u \in Tasks \ {t} : Same(u)
    BY DEF Same, YieldLeaves
  <1>3. ~Waiting(t) /\ pc[t] # "return_lock" /\ t \notin Fresh
    BY DEF Waiting, Fresh
  <1>4. PICK h \in Fresh \cup {NoTask} :
             /\ h # t /\ Others(t, h, c) /\ \A u \in Tasks \ {t, h} : tcap'[u] = tcap[u]
             /\ running' = [running EXCEPT ![c] = h]
             /\ ReleaseTyped
             /\ pc'[t] = ts.pc[t] /\ tcap'[t] = ts.tcap[t]
             /\ cap'[t] = ts.cap[t] /\ want'[t] = ts.want[t]
    <2>1. TypeOK
      BY DEF IInv
    <2>2. QED
      BY <1>1, <1>2, <1>3, <2>1, ReleaseStep
  <1> Home' = Home /\ DealInv'
    BY HomeStill DEF YieldLeaves, IInv
  <1>5. TypeOK' /\ PlacesOK'
    BY <1>4 DEF YieldLeaves, IInv, TypeOK, PlacesOK, ReleaseTyped
  <1>6. ASSUME pc'[t] = "yield_wait", tcap'[t] = c, cap'[t] = c, call'[t] = call[t]
        PROVE  TaskOK(t)' /\ Holding(t)' = {}
    <2>1. TaskOK(t)'
      <3>1. WaitOK(t)' /\ LoopOK(t)'
        BY <1>1, <1>6, EmptyQueue DEF YieldLeaves, TaskOK, WaitOK, LoopOK, InYield, Returning, Yielding, HoldsOwn
      <3>2. RoleOK(t)' /\ CurOK(t)'
        BY <1>1, <1>6 DEF YieldLeaves, TaskOK, RoleOK, CurOK, Looping, Entering, Resuming, Syncing, Acquiring,
              InYield, Returning, Yielding
      <3>3. t \in Callers => HomeOK(t)'
        BY <1>1, <1>6 DEF YieldLeaves, TaskOK, HomeOK, Yielding
      <3>4. QED
        BY <3>1, <3>2, <3>3 DEF TaskOK
    <2>2. Holding(t)' = {}
      BY <1>1, <1>6, EmptyQueue DEF YieldLeaves, Holding, HoldsOwn, Acquiring
    <2>3. QED
      BY <2>1, <2>2
  <1>7. ASSUME pc'[t] = "none", ~bound[t], call'[t] = "none"
        PROVE  TaskOK(t)' /\ Holding(t)' = {}
    <2>1. TaskOK(t)'
      <3>1. WaitOK(t)' /\ LoopOK(t)'
        BY <1>1, <1>7, EmptyQueue DEF YieldLeaves, TaskOK, WaitOK, LoopOK, InYield, Returning, Yielding, HoldsOwn
      <3>2. RoleOK(t)' /\ CurOK(t)'
        BY <1>1, <1>7 DEF YieldLeaves, TaskOK, RoleOK, CurOK, Looping, Entering, Resuming, Syncing, Acquiring,
              InYield, Returning, Yielding
      <3>3. t \in Callers => HomeOK(t)'
        BY <1>1, <1>7 DEF YieldLeaves, TaskOK, HomeOK, Yielding
      <3>4. QED
        BY <3>1, <3>2, <3>3 DEF TaskOK
    <2>2. Holding(t)' = {}
      BY <1>1, <1>7, EmptyQueue DEF YieldLeaves, Holding, HoldsOwn, Acquiring
    <2>3. QED
      BY <2>1, <2>2
  <1>8. TaskOK(t)' /\ Holding(t)' = Holding(t) \ {c} /\ c \in Holding(t)
    <2>1. \/ pc'[t] = "yield_wait" /\ tcap'[t] = c /\ cap'[t] = c /\ call'[t] = call[t]
          \/ pc'[t] = "none" /\ ~bound[t] /\ call'[t] = "none"
      BY <1>4 DEF Asleep, Gone
    <2>2. Holding(t) = {c}
      BY <1>1, EmptyQueue DEF YieldLeaves, Holding, HoldsOwn, Acquiring
    <2>3. QED
      BY <1>6, <1>7, <2>1, <2>2
  <1>9. OwnersAgree'
    BY <1>1, <1>4, <1>8, OwnersRelease DEF IInv
  <1>10. Contains(runq[c], t) => bound[t]
    BY <1>1, BoundQueued
  <1>11. NoLostWakeup'
    <2>1. Contains(qs.spare, t) \/ Contains(runq[c], t) => ts.pc[t] \in Yielding /\ ts.tcap[t] = c
      BY <1>1, <1>10 DEF Yielding, Asleep, Gone
    <2>2. QED
      BY <1>1, <1>3, <1>4, <1>8, <2>1, ReleaseWakes DEF YieldLeaves, YieldAs
  <1>12. QueueInv'
    <2>1. \A d \in Caps : ~Contains(returning[d], t) /\ NoDup(returning[d])
      BY <1>3 DEF IInv, QueueInv, QueuedRight, Waiting
    <2>2. \A d \in Caps :
             /\ Contains(returning'[d], t) <=> pc'[t] \in InQueue /\ tcap'[t] = d
             /\ Contains(spare'[d], t) <=> ~bound'[t] /\ pc'[t] \in Yielding /\ tcap'[t] = d
      BY <1>1, <1>4, <2>1 DEF YieldLeaves, Asleep, Gone, InQueue, Yielding
    <2>3. QED
      BY <1>4, <2>1, <2>2, QueuesMoved DEF YieldLeaves, IInv
  <1>13. ThreadInv'
    BY <1>1, <1>4, ThreadsKept DEF YieldLeaves
  <1>14. MigrationInv'
    BY DEF YieldLeaves, MigrationInv, Woken, IInv
  <1>15. \A b \in Callers \ {t} : tcap'[b] = tcap[b]
    BY <1>4, CapabilityAssumption DEF Fresh, Tasks
  <1>16. QED
    BY <1>1, <1>4, <1>5, <1>8, <1>9, <1>11, <1>12, <1>13, <1>14, <1>15, StepInv DEF YieldLeaves

(* releaseCapabilityAndQueueWorker: the Task gives its Capability up and   *)
(* sleeps, or, with workers to spare, ends.                                *)
LEMMA YieldInv ==
    ASSUME IInv, NEW t \in Tasks, Yield(t), UNCHANGED <<threadVars, loopVars>>
    PROVE  IInv'
  <1> USE DEF threadVars, loopVars
  <1> Home' = Home /\ DealInv'
    BY HomeStill DEF IInv, threadVars, loopVars
  <1> DEFINE c == cap[t]
             asleep == [Now EXCEPT !.wakeup[t] = FALSE, !.pc[t] = "yield_wait"]
             gone == [Now EXCEPT !.wakeup[t] = FALSE, !.pc[t] = "none",
                               !.tcap[t] = 0, !.cap[t] = 0, !.want[t] = 0]
             stacked == [As(c) EXCEPT !.spare = <<t>> \o @]
  <1>1. /\ pc[t] = "yield" /\ c \in Caps /\ tcap[t] = c
        /\ spare \in [Caps -> Seq(Tasks)] /\ spare[c] \in Seq(Tasks)
        /\ call \in [Tasks -> {"none", "enter", "resume", "acquire", "sched", "seq", "other"}]
        /\ 0 \in Caps
    BY CapZero DEF Yield, IInv, TypeOK, PlacesOK, TaskInv, TaskOK, WaitOK, HoldsOwn
  <1>2. \A d \in Caps : ~Contains(spare[d], t) /\ NoDup(spare[d])
    BY <1>1 DEF IInv, QueueInv, QueuedRight
  <1>3. /\ Mine(t, asleep) /\ asleep.pc[t] = "yield_wait"
        /\ asleep.tcap[t] = c /\ asleep.cap[t] = c
    BY <1>1 DEF Mine, Now, TaskState, IInv, TypeOK, PlacesOK, Places, Yielding
  <1>4. Mine(t, gone) /\ gone.pc[t] = "none"
    BY <1>1, ZenonT(30) DEF Mine, Now, TaskState, IInv, TypeOK, PlacesOK, Places
  <1>5. /\ As(c).runq = runq[c] /\ As(c).inbox = inbox[c] /\ As(c).spare = spare[c]
        /\ As(c).always \in BOOLEAN
        /\ stacked.runq = runq[c] /\ stacked.inbox = inbox[c] /\ stacked.spare = <<t>> \o spare[c]
        /\ stacked.always \in BOOLEAN
    BY DEF As
  <1>6. /\ UNCHANGED <<returning, runq, inbox, suspended, pendingSync, bound>>
        /\ UNCHANGED <<cur, tst, tsoCap, scan, grabbed, deal, msgs, after, kind>>
    BY DEF Yield
  <1>7. \/ /\ bound[t] /\ Release(c, As(c), asleep) /\ spare' = spare /\ call' = call
        \/ /\ ~bound[t] /\ spare' = [spare EXCEPT ![c] = <<t>> \o @]
           /\ Release(c, stacked, asleep) /\ call' = call
        \/ /\ ~bound[t] /\ Release(c, As(c), gone) /\ spare' = spare
           /\ call' = [call EXCEPT ![t] = "none"]
    BY DEF Yield
  <1> HIDE DEF asleep, gone, stacked
  <1>8. CASE bound[t] /\ Release(c, As(c), asleep) /\ spare' = spare /\ call' = call
    <2>1. YieldLeaves(t)
      BY <1>1, <1>2, <1>6, <1>8 DEF YieldLeaves
    <2>2. YieldAs(t, As(c)) /\ Asleep(t, asleep)
      BY <1>1, <1>3, <1>5 DEF YieldAs, Asleep
    <2>3. QED
      BY <1>1, <1>2, <1>3, <1>8, <2>1, <2>2, YieldRelease
  <1>9. CASE /\ ~bound[t] /\ spare' = [spare EXCEPT ![c] = <<t>> \o @]
             /\ Release(c, stacked, asleep) /\ call' = call
    <2>1. /\ <<t>> \o spare[c] \in Seq(Tasks) /\ NoDup(<<t>> \o spare[c])
          /\ \A x : Contains(<<t>> \o spare[c], x) <=> Contains(spare[c], x) \/ x = t
      BY <1>1, <1>2, PushQueue
    <2>2. /\ spare' \in [Caps -> Seq(Tasks)]
          /\ \A d \in Caps : spare'[d] = IF d = c THEN <<t>> \o spare[c] ELSE spare[d]
      BY <1>1, <1>9, <2>1
    <2>3. /\ \A d \in Caps : NoDup(spare'[d])
          /\ \A d \in Caps, u \in Tasks \ {t} : Contains(spare'[d], u) <=> Contains(spare[d], u)
          /\ \A d \in Caps : Contains(spare'[d], t) <=> d = c
      BY <1>2, <2>1, <2>2
    <2>4. YieldLeaves(t)
      BY <1>1, <1>6, <1>9, <2>2, <2>3 DEF YieldLeaves
    <2>5. YieldAs(t, stacked) /\ Asleep(t, asleep)
      BY <1>1, <1>3, <1>5, <2>1 DEF YieldAs, Asleep
    <2>6. QED
      BY <1>1, <1>3, <1>9, <2>3, <2>4, <2>5, YieldRelease
  <1>10. CASE /\ ~bound[t] /\ Release(c, As(c), gone) /\ spare' = spare
              /\ call' = [call EXCEPT ![t] = "none"]
    <2>1. /\ call' \in [Tasks -> {"none", "enter", "resume", "acquire", "sched", "seq", "other"}]
          /\ call'[t] = "none" /\ \A u \in Tasks \ {t} : call'[u] = call[u]
      BY <1>1, <1>10
    <2>2. YieldLeaves(t)
      BY <1>1, <1>2, <1>6, <1>10, <2>1 DEF YieldLeaves
    <2>3. YieldAs(t, As(c)) /\ Gone(t, gone) /\ ~Asleep(t, gone)
      BY <1>1, <1>4, <1>5, <1>10 DEF YieldAs, Gone, Asleep
    <2>4. ~Contains(As(c).spare, t)
      BY <1>1, <1>2, <1>5
    <2>5. QED
      BY <1>1, <1>2, <1>4, <1>10, <2>1, <2>2, <2>3, <2>4, YieldRelease
  <1>11. QED
    BY <1>7, <1>8, <1>9, <1>10

(* yieldCapability checks what it was woken for, takes the Capability,     *)
(* passes the hint on, or sleeps again.                                    *)
LEMMA YieldCheckInv ==
    ASSUME IInv, NEW t \in Tasks, YieldCheck(t), UNCHANGED <<threadVars, loopVars>>
    PROVE  IInv'
  <1> USE DEF threadVars, loopVars
  <1> Home' = Home /\ DealInv'
    BY HomeStill DEF IInv, threadVars, loopVars
  <1> DEFINE c == want[t]
             mine == Free(c) /\ tcap[t] = c
  <1>1. /\ TaskOK(t) /\ pc[t] = "yield_check" /\ c \in Caps /\ cap[t] = c
        /\ pc \in [Tasks -> Places] /\ running \in [Caps -> Tasks \cup {NoTask}]
        /\ returning \in [Caps -> Seq(Tasks)] /\ spare \in [Caps -> Seq(Tasks)]
        /\ wakeup \in [Tasks -> BOOLEAN]
    BY DEF YieldCheck, IInv, TaskInv, TypeOK, PlacesOK, TaskOK, WaitOK
  <1>2. \A d \in Caps : /\ ~Contains(returning[d], t)
                        /\ Contains(spare[d], t) <=> ~bound[t] /\ tcap[t] = d
                        /\ NoDup(returning[d]) /\ NoDup(spare[d])
    BY <1>1 DEF IInv, QueueInv, QueuedRight
  <1>3. \A d \in Caps : Coming(t, d) => tcap[t] = d /\ (wakeup[t] \/ c = d)
    BY <1>1 DEF Coming, Waiting
  <1>4. /\ cap' = cap /\ want' = want /\ returning' = returning /\ tcap' = tcap
        /\ cap' \in [Tasks -> Caps] /\ want' \in [Tasks -> Caps]
        /\ UNCHANGED <<runq, inbox, suspended, pendingSync, lastFree, tcap, bound, call>>
        /\ UNCHANGED <<cur, tst, tsoCap, scan, grabbed, deal, msgs, after, kind>>
    BY DEF YieldCheck, IInv, TypeOK
  <1>5. CASE /\ pc' = Goto(t, "yield_wait") /\ running' = running /\ spare' = spare
             /\ wakeup' \in [Tasks -> BOOLEAN] /\ \A u \in Tasks : wakeup[u] => wakeup'[u]
             /\ mine => \E u \in Tasks : Coming(u, c)'
    <2>1. /\ pc' \in [Tasks -> Places] /\ pc'[t] = "yield_wait"
          /\ \A u \in Tasks \ {t} : pc'[u] = pc[u]
      BY <1>1, <1>5 DEF Goto, Places, Yielding
    <2>2. Alone(t)
      BY <1>4, <1>5, <2>1 DEF Alone, Keeps, Same
    <2>3. TaskOK(t)'
      BY <1>1, <1>4, <2>1 DEF TaskOK, WaitOK, LoopOK, RoleOK, CurOK, HomeOK, Looping, Entering,
          Resuming, Syncing, Acquiring, InYield, Returning, Yielding, HoldsOwn
    <2>4. Holding(t)' = Holding(t)
      BY <1>1, <1>4, <2>1 DEF TaskOK, LoopOK, Holding, HoldsOwn, Acquiring
    <2>5. OwnersAgree'
      BY <1>5, <2>2, <2>4, AloneOthers, OwnersKept DEF IInv
    <2>6. \A d \in Caps : Coming(t, d) /\ d # c => Coming(t, d)'
      BY <1>3, <1>4, <1>5, <2>1 DEF Coming, Waiting
    <2>7. \A d \in Caps : Free(d)' /\ Unserved(d)' =>
              \/ \E u \in Tasks : Coming(u, d)'
              \/ Free(d) /\ Unserved(d) /\ (Coming(t, d) => Coming(t, d)')
      <3> SUFFICES ASSUME NEW d \in Caps, Free(d)', Unserved(d)', Coming(t, d)
                   PROVE  \/ \E u \in Tasks : Coming(u, d)'
                          \/ Free(d) /\ Unserved(d) /\ Coming(t, d)'
        BY <1>4, <1>5 DEF Free, Unserved
      <3>1. Free(d) /\ Unserved(d)
        BY <1>4, <1>5 DEF Free, Unserved
      <3>2. CASE d = c
        <4>1. mine
          BY <1>3, <3>1, <3>2
        <4>2. \E u \in Tasks : Coming(u, c)'
          BY <1>5, <4>1
        <4>3. PICK u \in Tasks : Coming(u, c)'
          BY <4>2
        <4>4. Coming(u, d)'
          BY <1>4, <3>2, <4>3
        <4>5. QED
          BY <4>4
      <3>3. CASE d # c
        BY <2>6, <3>1, <3>3
      <3>4. QED
        BY <3>2, <3>3
    <2>8. \A d \in Caps :
             /\ Contains(returning'[d], t) <=> pc'[t] \in InQueue /\ tcap[t] = d
             /\ Contains(spare'[d], t) <=> ~bound[t] /\ pc'[t] \in Yielding /\ tcap[t] = d
      BY <1>2, <1>4, <1>5, <2>1 DEF InQueue, Yielding
    <2>9. QED
      BY <1>1, <1>2, <1>4, <1>5, <2>1, <2>2, <2>3, <2>5, <2>7, <2>8, WaitStep
  <1>6. CASE ~mine /\ pc' = Goto(t, "yield_wait") /\ UNCHANGED <<running, spare, wakeup>>
    BY <1>1, <1>5, <1>6
  <1>7. CASE /\ mine /\ ~bound[t] /\ ~Leads(t, spare[c])
             /\ wakeup' = [wakeup EXCEPT ![Head(spare[c])] = TRUE]
             /\ pc' = Goto(t, "yield_wait") /\ UNCHANGED <<running, spare>>
    <2>1. spare[c] # <<>>
      BY <1>1, <1>2, <1>7, EmptyQueue
    <2>2. PICK u \in Tasks : u = Head(spare[c])
      BY <1>1, <2>1, HeadIn
    <2>3. Contains(spare[c], u) /\ u # t
      BY <1>1, <1>7, <2>1, <2>2, HeadIn DEF Leads
    <2>4. pc[u] \in Yielding /\ tcap[u] = c
      BY <1>1, <2>3 DEF IInv, QueueInv, QueuedRight, Yielding
    <2>5. wakeup' \in [Tasks -> BOOLEAN] /\ wakeup'[u] /\ \A v \in Tasks : wakeup[v] => wakeup'[v]
      BY <1>1, <1>7, <2>2
    <2>6. pc'[u] = pc[u] /\ tcap'[u] = tcap[u] /\ want'[t] = want[t]
      BY <1>1, <1>4, <1>7, <2>3 DEF Goto
    <2>7. Coming(u, c)'
      BY <2>4, <2>5, <2>6 DEF Coming, Waiting, Yielding
    <2>8. QED
      BY <1>5, <1>7, <2>5, <2>7
  <1>8. CASE /\ mine /\ (bound[t] \/ Leads(t, spare[c]))
             /\ running' = [running EXCEPT ![c] = t] /\ spare' = PopSpare(t, c)
             /\ pc' = Goto(t, "yielded") /\ UNCHANGED wakeup
    <2>1. /\ pc' \in [Tasks -> Places] /\ pc'[t] = "yielded" /\ \A u \in Tasks \ {t} : pc'[u] = pc[u]
          /\ running' \in [Caps -> Tasks \cup {NoTask}]
      BY <1>1, <1>8 DEF Goto, Places, HoldsOwn
    <2>2. Alone(t)
      BY <1>4, <1>8, <2>1 DEF Alone, Keeps, Same
    <2>3. TaskOK(t)'
      BY <1>1, <1>4, <1>8, <2>1 DEF TaskOK, WaitOK, LoopOK, RoleOK, CurOK, HomeOK, Looping, Entering,
          Resuming, Syncing, Acquiring, InYield, Returning, Yielding, HoldsOwn
    <2>4. Holding(t)' = Holding(t) \cup {c}
      BY <1>1, <1>4, <2>1, EmptyQueue DEF TaskOK, LoopOK, Holding, HoldsOwn, Acquiring
    <2>5. OwnersAgree'
      BY <1>1, <1>8, <2>2, <2>4, AloneOthers, OwnersTake DEF IInv
    <2>6. /\ spare' \in [Caps -> Seq(Tasks)]
          /\ \A d \in Caps : NoDup(spare'[d]) /\ ~Contains(spare'[d], t)
          /\ \A d \in Caps, u \in Tasks \ {t} : Contains(spare'[d], u) <=> Contains(spare[d], u)
      <3>1. CASE bound[t]
        BY <1>1, <1>2, <1>8, <3>1 DEF PopSpare
      <3>2. CASE ~bound[t]
        <4>1. spare[c] # <<>> /\ Head(spare[c]) = t
          BY <1>8, <3>2 DEF Leads
        <4>2. /\ Tail(spare[c]) \in Seq(Tasks) /\ NoDup(Tail(spare[c]))
              /\ \A x : Contains(Tail(spare[c]), x) <=> Contains(spare[c], x) /\ x # t
          BY <1>1, <1>2, <4>1, TailQueue
        <4>3. /\ spare' \in [Caps -> Seq(Tasks)]
              /\ \A d \in Caps : spare'[d] = IF d = c THEN Tail(spare[c]) ELSE spare[d]
          BY <1>1, <1>8, <3>2, <4>2 DEF PopSpare
        <4>4. QED
          BY <1>2, <1>8, <4>2, <4>3
      <3>3. QED
        BY <3>1, <3>2
    <2>7. \A d \in Caps : Free(d)' => d # c
      BY <1>1, <1>8, CapabilityAssumption DEF Free, Tasks
    <2>8. \A d \in Caps : Free(d)' /\ Unserved(d)' => Free(d) /\ Unserved(d) /\ ~Coming(t, d)
      BY <1>1, <1>3, <1>4, <1>8, <2>7 DEF Free, Unserved
    <2>9. \A d \in Caps :
             /\ Contains(returning'[d], t) <=> pc'[t] \in InQueue /\ tcap[t] = d
             /\ Contains(spare'[d], t) <=> ~bound[t] /\ pc'[t] \in Yielding /\ tcap[t] = d
      BY <1>2, <1>4, <2>1, <2>6 DEF InQueue, Yielding
    <2>10. QED
      BY <1>1, <1>2, <1>4, <1>8, <2>1, <2>2, <2>3, <2>5, <2>6, <2>8, <2>9, WaitStep
  <1>9. QED
    BY <1>6, <1>7, <1>8 DEF YieldCheck

(* schedulePushWork keeps a thread: the deal goes on with the next one.    *)
LEMMA PushKeepInv == ASSUME IInv, NEW t \in Tasks, PushKeep(t) PROVE IInv'
  <1> USE DEF At, capVars, queueVars, taskVars, threadVars
  <1>1. /\ TaskOK(t) /\ pc[t] = "push_share" /\ deal \in [Tasks -> Deals] /\ deal[t] \in Deals
    BY DEF PushKeep, IInv, TaskInv, TypeOK, Deals
  <1>2. /\ deal' \in [Tasks -> Deals] /\ deal'[t].moved = <<>>
        /\ \A u \in Tasks \ {t} : deal'[u] = deal[u]
    <2> DEFINE turn == IF Stays(t, Dealt(t)) THEN deal[t].turn ELSE 0
    <2>1. turn \in Nat /\ deal[t].pos + 1 \in Nat \ {0}
      BY <1>1 DEF Deals
    <2>2. deal' = [deal EXCEPT ![t] = [deal[t] EXCEPT !.pos = deal[t].pos + 1, !.turn = turn]]
      BY <1>1 DEF PushKeep
    <2> HIDE DEF turn
    <2>3. deal[t].moved = <<>>
      BY <1>1 DEF TaskOK, LoopOK
    <2>4. QED
      BY <1>1, <2>1, <2>2, <2>3 DEF Deals
  <1>3. Home' = Home /\ DealInv'
    BY <1>1, <1>2, HomeUnmoved DEF PushKeep, IInv, TaskOK, LoopOK
  <1>4. TypeOK' /\ PlacesOK'
    BY <1>2 DEF PushKeep, IInv, TypeOK, PlacesOK, Deals
  <1>5. Alone(t)
    BY <1>2 DEF PushKeep, Alone, Keeps, Same
  <1>6. TaskOK(t)'
    <2>1. WaitOK(t)' /\ LoopOK(t)'
      BY <1>1, <1>2 DEF PushKeep, TaskOK, WaitOK, LoopOK, InYield, Returning, Yielding, HoldsOwn
    <2>2. RoleOK(t)' /\ CurOK(t)'
      BY <1>1 DEF PushKeep, TaskOK, RoleOK, CurOK, Looping, Entering, Resuming, Syncing,
            Acquiring, InYield, Returning, Yielding
    <2>3. t \in Callers => HomeOK(t)'
      BY <1>1, <1>3 DEF PushKeep, TaskOK, HomeOK, Yielding
    <2>4. QED
      BY <2>1, <2>2, <2>3 DEF TaskOK
  <1>7. Holding(t)' = Holding(t)
    BY <1>1 DEF PushKeep, Holding, HoldsOwn, Acquiring
  <1>8. QED
    BY <1>1, <1>3, <1>4, <1>5, <1>6, <1>7, LocalInv DEF PushKeep, Waiting

(* t->cap follows the thread that was handed over: its home stays.         *)
LEMMA PushHomeInv == ASSUME IInv, NEW t \in Tasks, PushHome(t) PROVE IInv'
  <1> USE DEF At, Step, Goto, capVars, queueVars
  <1>1. /\ TaskOK(t) /\ pc[t] = "push_home" /\ deal \in [Tasks -> Deals] /\ deal[t] \in Deals
        /\ pc \in [Tasks -> Places] /\ tsoCap \in [Threads -> Caps]
    BY DEF PushHome, IInv, TaskInv, TypeOK, PlacesOK, Deals
  <1>2. /\ deal' \in [Tasks -> Deals] /\ deal'[t].moved = <<>>
        /\ \A u \in Tasks \ {t} : deal'[u] = deal[u]
    <2>1. deal[t].turn + 1 \in Nat
      BY <1>1 DEF Deals
    <2>2. deal' = [deal EXCEPT ![t] = [deal[t] EXCEPT !.turn = deal[t].turn + 1, !.moved = <<>>]]
      BY <1>1 DEF PushHome
    <2>3. QED
      BY <1>1, <2>1, <2>2 DEF Deals
  <1>3. deal[t].moved # <<>> /\ deal[t].moved \in Threads \X Caps
    BY <1>1 DEF TaskOK, LoopOK, Deals
  <1>4. Home' = Home /\ DealInv'
    <2>1. PICK th \in Threads, d \in Caps : deal[t].moved = <<th, d>>
      BY <1>3
    <2>2. tsoCap' = [tsoCap EXCEPT ![th] = d]
      BY <2>1 DEF PushHome
    <2>3. TypeOK /\ DealInv /\ tst' = tst
      BY DEF PushHome, IInv
    <2>4. QED
      BY <1>2, <2>1, <2>2, <2>3, HomeSettled
  <1>5. pc'[t] = "push_share" /\ pc' \in [Tasks -> Places] /\ \A u \in Tasks \ {t} : pc'[u] = pc[u]
    BY <1>1 DEF PushHome, Places, HoldsOwn
  <1>6. TypeOK' /\ PlacesOK'
    <2>1. tsoCap' \in [Threads -> Caps]
      BY <1>1, <1>3 DEF PushHome
    <2>2. TypeOK'
      BY <1>2, <2>1 DEF PushHome, IInv, TypeOK, Deals
    <2>3. PlacesOK'
      BY <1>5 DEF PushHome, IInv, PlacesOK
    <2>4. QED
      BY <2>2, <2>3
  <1>7. Alone(t)
    BY <1>2, <1>5 DEF PushHome, Alone, Keeps, Same
  <1>8. TaskOK(t)'
    <2>1. WaitOK(t)' /\ LoopOK(t)'
      BY <1>1, <1>2, <1>5 DEF PushHome, TaskOK, WaitOK, LoopOK, InYield, Returning, Yielding, HoldsOwn
    <2>2. RoleOK(t)' /\ CurOK(t)'
      BY <1>1, <1>5 DEF PushHome, TaskOK, RoleOK, CurOK, Looping, Entering, Resuming, Syncing,
            Acquiring, InYield, Returning, Yielding
    <2>3. t \in Callers => HomeOK(t)'
      BY <1>1, <1>4, <1>5 DEF PushHome, TaskOK, HomeOK, Yielding
    <2>4. QED
      BY <2>1, <2>2, <2>3 DEF TaskOK
  <1>9. Holding(t)' = Holding(t)
    BY <1>1, <1>5 DEF PushHome, Holding, HoldsOwn, Acquiring
  <1>10. QED
    BY <1>1, <1>4, <1>5, <1>6, <1>7, <1>8, <1>9, LocalInv DEF PushHome, Waiting

(* The deal is over, or there was nobody to deal to.                       *)
LEMMA PushDoneInv == ASSUME IInv, NEW t \in Tasks, PushDone(t) PROVE IInv'
  <1> USE DEF At, Step, Goto, capVars, queueVars, threadVars
  <1>1. /\ TaskOK(t) /\ pc[t] = "push_share" /\ deal \in [Tasks -> Deals] /\ deal[t] \in Deals
        /\ pc \in [Tasks -> Places] /\ tcap \in [Tasks -> Caps] /\ cap[t] \in Caps
    BY DEF PushDone, IInv, TaskInv, TypeOK, PlacesOK, Deals
  <1>2. /\ deal' \in [Tasks -> Deals] /\ deal'[t].moved = <<>>
        /\ \A u \in Tasks \ {t} : deal'[u] = deal[u]
    BY <1>1 DEF PushDone, NewDeal, Deals
  <1>3. Home' = Home /\ DealInv'
    BY <1>1, <1>2, HomeUnmoved DEF PushDone, IInv, TaskOK, LoopOK
  <1>4. /\ pc' \in [Tasks -> Places] /\ \A u \in Tasks \ {t} : pc'[u] = pc[u]
        /\ tcap' \in [Tasks -> Caps] /\ \A u \in Tasks \ {t} : tcap'[u] = tcap[u]
        /\ \/ grabbed[t] # <<>> /\ pc'[t] = "push_release"
           \/ grabbed[t] = <<>> /\ pc'[t] = "detect" /\ tcap'[t] = cap[t]
    BY <1>1 DEF PushDone, Places, HoldsOwn
  <1>5. TypeOK' /\ PlacesOK'
    <2>1. TypeOK'
      BY <1>2, <1>4 DEF PushDone, IInv, TypeOK, Deals
    <2>2. PlacesOK'
      BY <1>4 DEF PushDone, IInv, PlacesOK
    <2>3. QED
      BY <2>1, <2>2
  <1>6. Alone(t)
    BY <1>2, <1>4 DEF PushDone, Alone, Keeps, Same
  <1>7. TaskOK(t)'
    <2>1. WaitOK(t)' /\ LoopOK(t)'
      BY <1>1, <1>2, <1>4 DEF PushDone, TaskOK, WaitOK, LoopOK, InYield, Returning, Yielding, HoldsOwn
    <2>2. RoleOK(t)' /\ CurOK(t)'
      BY <1>1, <1>4 DEF PushDone, TaskOK, RoleOK, CurOK, Looping, Entering, Resuming, Syncing,
            Acquiring, InYield, Returning, Yielding
    <2>3. t \in Callers => HomeOK(t)'
      BY <1>1, <1>3, <1>4 DEF PushDone, TaskOK, HomeOK, Yielding
    <2>4. QED
      BY <2>1, <2>2, <2>3 DEF TaskOK
  <1>8. Holding(t)' = Holding(t)
    BY <1>1, <1>4 DEF PushDone, Holding, HoldsOwn, Acquiring
  <1>9. QED
    BY <1>1, <1>3, <1>4, <1>5, <1>6, <1>7, <1>8, LocalInv DEF PushDone, Waiting

(* A thread goes from the run queue of c to the end of that of d.          *)
LEMMA Handed ==
    ASSUME IInv, NEW c \in Caps, NEW d \in Caps, d # c, NEW th \in Threads, Contains(runq[c], th),
           \A e \in Caps : NoDup(runq'[e]),
           \A e \in Caps, x \in Threads :
             Contains(runq'[e], x) <=> IF x = th THEN e = d ELSE Contains(runq[e], x),
           Home'[th] = d, \A x \in Threads \ {th} : Home'[x] = Home[x],
           tst' = tst, cur' = cur, cap' = cap
    PROVE  ThreadInv'
  <1>1. /\ cur \in [Tasks -> Threads \cup {NoThread}] /\ cap \in [Tasks -> Caps]
        /\ Home \in [Threads -> Caps]
    BY HomeType DEF IInv, TypeOK
  <1>2. tst[th] = "live" /\ Home[th] = c
    BY DEF IInv, ThreadInv
  <1>3. \A u \in Tasks : cur[u] # th
    <2> SUFFICES ASSUME NEW u \in Tasks, cur[u] = th PROVE FALSE
      OBVIOUS
    <2>1. cur[u] # NoThread
      BY CapabilityAssumption DEF Threads, NoThread
    <2>2. Home[th] = cap[u] /\ ~Contains(runq[cap[u]], th)
      BY <2>1 DEF IInv, ThreadInv
    <2>3. QED
      BY <1>2, <2>2
  <1>4. \A e \in Caps, x \in Threads : Contains(runq'[e], x) => tst'[x] = "live" /\ Home'[x] = e
    BY <1>2 DEF IInv, ThreadInv
  <1>5. ASSUME NEW u \in Tasks, cur[u] # NoThread
        PROVE  /\ tst[cur[u]] = "live" /\ Home'[cur[u]] = cap[u]
               /\ ~Contains(runq'[cap[u]], cur[u])
    <2>1. cur[u] \in Threads \ {th} /\ cap[u] \in Caps
      BY <1>1, <1>3, <1>5
    <2>2. tst[cur[u]] = "live" /\ Home[cur[u]] = cap[u] /\ ~Contains(runq[cap[u]], cur[u])
      BY <1>5 DEF IInv, ThreadInv
    <2>3. QED
      BY <2>1, <2>2
  <1>6. ASSUME NEW x \in Threads, tst[x] = "live"
        PROVE  Contains(runq'[Home'[x]], x) \/ \E u \in Tasks : cur[u] = x
    <2>1. CASE x = th
      BY <2>1
    <2>2. CASE x # th
      <3>1. Contains(runq[Home[x]], x) \/ \E u \in Tasks : cur[u] = x
        BY <1>6 DEF IInv, ThreadInv
      <3>2. Home'[x] = Home[x] /\ Home[x] \in Caps
        BY <1>1, <2>2
      <3>3. QED
        BY <2>2, <3>1, <3>2
    <2>3. QED
      BY <2>1, <2>2
  <1>7. \A u, v \in Tasks : cur[u] # NoThread /\ cur[u] = cur[v] => u = v
    BY DEF IInv, ThreadInv
  <1>8. QED
    BY <1>4, <1>5, <1>6, <1>7 DEF ThreadInv

(* A thread is handed over: it is in the other queue and its Task follows, *)
(* asleep, while t->cap still names the Capability it has left.            *)
LEMMA PushGiveInv == ASSUME IInv, NEW t \in Tasks, PushGive(t) PROVE IInv'
  <1> USE DEF At, Step, Goto, capVars, threadVars
  <1> DEFINE c  == cap[t]
             i  == deal[t].pos
             th == Dealt(t)
             d  == grabbed[t][deal[t].turn + 1]
  <1>1. /\ TaskOK(t) /\ pc[t] = "push_share" /\ c \in Caps
        /\ deal \in [Tasks -> Deals] /\ deal[t] \in Deals /\ pc \in [Tasks -> Places]
        /\ grabbed[t] \in Seq(Caps) /\ runq \in [Caps -> Seq(Threads)] /\ runq[c] \in Seq(Threads)
        /\ tcap \in [Tasks -> Caps] /\ \A e \in Caps : NoDup(runq[e])
    <2>1. TypeOK /\ PlacesOK /\ TaskOK(t) /\ \A e \in Caps : NoDup(runq[e])
      BY DEF IInv, TaskInv, ThreadInv
    <2>2. pc[t] = "push_share"
      BY DEF PushGive
    <2>3. QED
      BY <2>1, <2>2 DEF TypeOK, PlacesOK, Deals
  <1>2. i \in 1..Len(runq[c]) /\ runq[c][i] = th /\ th # t
    BY <1>1, LenProperties DEF PushGive, ToDeal, Dealt, Goes, Stays, Deals
  <1>3. th \in Threads /\ Contains(runq[c], th)
    BY <1>1, <1>2, ElementOfSeq DEF Contains
  <1>4. d \in Caps /\ Contains(grabbed[t], d) /\ d # c /\ grabbed[t] # <<>> /\ deal[t].moved = <<>>
    <2>1. deal[t].turn + 1 \in 1..Len(grabbed[t])
      BY <1>1, LenProperties DEF PushGive, Goes, Deals
    <2>2. d \in Caps /\ Contains(grabbed[t], d)
      BY <1>1, <2>1, ElementOfSeq DEF Contains
    <2>3. ~Contains(grabbed[t], c) /\ deal[t].moved = <<>>
      BY <1>1 DEF TaskOK, LoopOK
    <2>4. QED
      BY <2>2, <2>3, EmptyQueue
  <1>5. c \in Holding(t) /\ d \in Holding(t)
    BY <1>1, <1>4 DEF Holding, HoldsOwn
  <1>6. \A u \in Tasks \ {t} : c \notin Holding(u) /\ d \notin Holding(u)
    BY <1>1, <1>4, <1>5 DEF IInv, OwnersAgree
  <1>7. tst[th] = "live" /\ Home[th] = c
    BY <1>1, <1>3 DEF IInv, ThreadInv
  <1>8. Mover(th) = {}
    <2> SUFFICES ASSUME Mover(th) # {} PROVE FALSE
      OBVIOUS
    <2>1. PICK u \in Mover(th) : u = (CHOOSE v \in Mover(th) : TRUE)
      OBVIOUS
    <2> HIDE DEF th, c, d
    <2>2. Home[th] = deal[u].moved[2] /\ u \in Tasks /\ deal[u].moved # <<>>
      BY <1>3, <2>1 DEF Home, Mover
    <2>3. pc[u] = "push_home" /\ Contains(grabbed[u], c)
      BY <1>7, <2>2 DEF IInv, TaskInv, TaskOK, LoopOK
    <2>4. c \in Holding(u)
      BY <1>1, <2>3 DEF Holding, c
    <2>5. QED
      BY <1>1, <1>6, <2>2, <2>3, <2>4
  <1>9. /\ runq' = [runq EXCEPT ![c] = RemoveAt(@, i), ![d] = Append(@, th)]
        /\ tcap' = TaskFollows(th, d) /\ deal' = [deal EXCEPT ![t].moved = <<th, d>>]
        /\ pc' = [pc EXCEPT ![t] = "push_home"]
    BY DEF PushGive
  <1>10. /\ UNCHANGED <<running, returning, spare, inbox, suspended, pendingSync, lastFree, wakeup, cap>>
         /\ UNCHANGED <<want, call, bound, cur, tst, tsoCap, scan, grabbed, msgs, after, kind>>
    BY DEF PushGive
  <1> HIDE DEF th, d, c, i
  <1>11. /\ pc'[t] = "push_home" /\ pc' \in [Tasks -> Places]
         /\ \A u \in Tasks \ {t} : pc'[u] = pc[u]
    BY <1>1, <1>9 DEF Places, HoldsOwn
  <1>12. /\ deal' \in [Tasks -> Deals] /\ deal'[t].moved = <<th, d>>
         /\ \A u \in Tasks \ {t} : deal'[u] = deal[u]
    <2>1. deal' = [deal EXCEPT ![t] = [deal[t] EXCEPT !.moved = <<th, d>>]]
      BY <1>1, <1>9
    <2>2. <<th, d>> \in Threads \X Caps
      BY <1>3, <1>4
    <2>3. QED
      BY <1>1, <2>1, <2>2 DEF Deals
  <1>13. /\ Home'[th] = d /\ \A x \in Threads \ {th} : Home'[x] = Home[x]
         /\ DealInv'
    BY <1>3, <1>4, <1>7, <1>8, <1>10, <1>12, HomeGiven DEF IInv
  \* the run queues
  <1>14. \A e \in Caps : runq'[e] = IF e = c THEN RemoveAt(runq[c], i)
                                    ELSE IF e = d THEN Append(runq[d], th) ELSE runq[e]
    BY <1>1, <1>4, <1>9
  <1>15. /\ RemoveAt(runq[c], i) \in Seq(Threads) /\ NoDup(RemoveAt(runq[c], i))
         /\ \A x : Contains(RemoveAt(runq[c], i), x) <=> Contains(runq[c], x) /\ x # th
    BY <1>1, <1>2, RemoveQueue
  <1>16. \A e \in Caps \ {c} : ~Contains(runq[e], th)
    BY <1>3, <1>7 DEF IInv, ThreadInv
  <1>17. /\ Append(runq[d], th) \in Seq(Threads) /\ NoDup(Append(runq[d], th))
         /\ \A x : Contains(Append(runq[d], th), x) <=> Contains(runq[d], x) \/ x = th
    <2>1. runq[d] \in Seq(Threads) /\ NoDup(runq[d]) /\ ~Contains(runq[d], th)
      BY <1>1, <1>4, <1>16
    <2>2. QED
      BY <1>3, <2>1, AppendQueue
  <1>18. runq' \in [Caps -> Seq(Threads)]
    BY <1>1, <1>9, <1>15, <1>17, <1>4
  <1>19. ThreadInv'
    <2>1. \A e \in Caps : NoDup(runq'[e])
      BY <1>1, <1>14, <1>15, <1>17
    <2>2. \A e \in Caps, x \in Threads :
             Contains(runq'[e], x) <=> IF x = th THEN e = d ELSE Contains(runq[e], x)
      BY <1>4, <1>14, <1>15, <1>16, <1>17
    <2>3. QED
      BY <1>1, <1>3, <1>4, <1>10, <1>13, <2>1, <2>2, Handed
  \* the Tasks
  <1>20. /\ tcap' \in [Tasks -> Caps]
         /\ \A u \in Tasks : tcap'[u] = IF u = th /\ th \in Callers THEN d ELSE tcap[u]
    BY <1>1, <1>4, <1>9 DEF TaskFollows
  <1>21. th \in Callers => /\ th \in Tasks /\ bound[th] /\ pc[th] \in Yielding /\ tcap[th] = c
    <2> SUFFICES ASSUME th \in Callers
                 PROVE  th \in Tasks /\ bound[th] /\ pc[th] \in Yielding /\ tcap[th] = c
      OBVIOUS
    <2>1. th \in Tasks \ {t}
      BY <1>2 DEF Tasks
    <2>2. c \notin Holding(th)
      BY <1>6, <2>1
    <2>3. QED
      BY <1>1, <1>3, <2>1, <2>2, BoundQueued
  <1>22. ~Free(c) /\ ~Free(d)
    BY <1>1, <1>4, <1>5, CapabilityAssumption DEF IInv, OwnersAgree, Free, Tasks
  <1>23. \A u \in Tasks \ {t} : Keeps(u)
    BY <1>10, <1>11, <1>12, <1>20, <1>21, <1>22 DEF Keeps, Same
  <1>24. Others(t, NoTask, 0) /\ 0 \in Caps
    BY <1>23, CapabilityAssumption, CapZero DEF Others, Tasks
  <1>25. TypeOK' /\ PlacesOK'
    <2>1. TypeOK'
      BY <1>10, <1>12, <1>18, <1>20 DEF IInv, TypeOK, Deals
    <2>2. PlacesOK'
      BY <1>10, <1>11 DEF IInv, PlacesOK
    <2>3. QED
      BY <2>1, <2>2
  <1>26. \A b \in Callers : HomeOK(b)'
    <2> SUFFICES ASSUME NEW b \in Callers PROVE HomeOK(b)'
      OBVIOUS
    <2>1. b \in Tasks /\ b \in Threads /\ HomeOK(b)
      BY DEF Tasks, Threads, IInv, TaskInv, TaskOK
    <2>2. pc'[b] \in Yielding <=> pc[b] \in Yielding
      BY <1>1, <1>11, <2>1 DEF Yielding
    <2>3. CASE b = th
      BY <1>10, <1>13, <1>20, <1>21, <2>1, <2>2, <2>3 DEF HomeOK
    <2>4. CASE b # th
      BY <1>10, <1>13, <1>20, <2>1, <2>2, <2>4 DEF HomeOK
    <2>5. QED
      BY <2>3, <2>4
  <1>27. WaitOK(t)' /\ LoopOK(t)' /\ RoleOK(t)' /\ CurOK(t)'
    <2>1. tcap'[t] = tcap[t] /\ <<th, d>> # <<>> /\ <<th, d>>[2] = d
      BY <1>2, <1>20
    <2>2. WaitOK(t)'
      BY <1>1, <1>10, <1>11, <2>1 DEF TaskOK, WaitOK, InYield, Returning, Yielding, HoldsOwn
    <2>3. LoopOK(t)'
      BY <1>1, <1>4, <1>10, <1>11, <1>12, <2>1 DEF TaskOK, LoopOK
    <2>4. RoleOK(t)' /\ CurOK(t)'
      BY <1>1, <1>10, <1>11 DEF TaskOK, RoleOK, CurOK, Looping, Entering, Resuming, Syncing,
            Acquiring, InYield, Returning, Yielding
    <2>5. QED
      BY <2>2, <2>3, <2>4
  <1>28. TaskInv'
    <2>1. \A u \in Tasks \ {t} : WaitOK(u)' /\ LoopOK(u)' /\ RoleOK(u)' /\ CurOK(u)'
      <3>1. \A e \in Caps : suspended[e] \ {t} \subseteq suspended'[e]
        BY <1>10
      <3>2. QED
        BY <1>24, <3>1, OthersOK
    <2>2. QED
      BY <1>26, <1>27, <2>1 DEF TaskInv, TaskOK
  <1>29. Holding(t)' = Holding(t)
    BY <1>1, <1>10, <1>11 DEF Holding, HoldsOwn, Acquiring
  <1>30. OwnersAgree'
    BY <1>10, <1>24, <1>29, OwnersKept DEF IInv
  <1>31. ~Waiting(t) /\ pc[t] # "return_lock" /\ ~Waiting(t)'
    BY <1>1, <1>11 DEF Waiting
  <1>32. QueueInv'
    BY <1>10, <1>24, <1>31, QueuesKept DEF IInv
  <1>33. NoLostWakeup'
    <2>1. \A e \in Caps : Free(e)' /\ Unserved(e)' => Free(e) /\ Unserved(e)
      BY <1>10, <1>14, <1>22 DEF Free, Unserved
    <2>2. QED
      BY <1>24, <1>31, <2>1, WakeUpsKept DEF IInv
  <1>34. MigrationInv'
    BY <1>10 DEF MigrationInv, Woken, IInv
  <1>35. QED
    BY <1>13, <1>19, <1>25, <1>28, <1>30, <1>32, <1>33, <1>34 DEF IInv

-------------------------------------------------------------------------------
(* After initScheduler and the starting of the other Capabilities' workers *)
(* the invariant holds.                                                    *)
LEMMA InitInv == Init => IInv
  <1> SUFFICES ASSUME Init PROVE IInv
    OBVIOUS
  <1> DEFINE Starters == {f \in [1..(NCaps - 1) -> Workers] :
                            \A c, d \in DOMAIN f : f[c] = f[d] => c = d}
  <1>1. PICK starter \in Starters :
          LET Begun(t) == \E c \in DOMAIN starter : starter[c] = t
              CapOf(t) == IF Begun(t) THEN CHOOSE c \in DOMAIN starter : starter[c] = t ELSE 0
          IN
          /\ running = [c \in Caps |-> IF c = 0 THEN NoTask ELSE starter[c]]
          /\ tcap = [t \in Tasks |-> CapOf(t)]
          /\ pc = [t \in Tasks |-> IF Begun(t) THEN "sched" ELSE IF t \in Callers THEN "out" ELSE "none"]
          /\ cap = [t \in Tasks |-> CapOf(t)]
          /\ want = [t \in Tasks |-> CapOf(t)]
    BY DEF Init, CapabilityInit
  <1> DEFINE Begun(t) == \E c \in 1..(NCaps - 1) : starter[c] = t
             CapOf(t) == IF Begun(t) THEN CHOOSE c \in 1..(NCaps - 1) : starter[c] = t ELSE 0
  <1>2. /\ starter \in [1..(NCaps - 1) -> Workers] /\ DOMAIN starter = 1..(NCaps - 1)
        /\ \A c, d \in 1..(NCaps - 1) : starter[c] = starter[d] => c = d
    BY <1>1
  <1>3. /\ running = [c \in Caps |-> IF c = 0 THEN NoTask ELSE starter[c]]
        /\ tcap = [t \in Tasks |-> CapOf(t)] /\ cap = [t \in Tasks |-> CapOf(t)]
        /\ want = [t \in Tasks |-> CapOf(t)]
        /\ pc = [t \in Tasks |-> IF Begun(t) THEN "sched" ELSE IF t \in Callers THEN "out" ELSE "none"]
    BY <1>1, <1>2
  <1>4. \A c \in 1..(NCaps - 1) : c \in Caps /\ c # 0
    BY CapabilityAssumption DEF Caps
  <1>5. \A c \in Caps : c = 0 \/ c \in 1..(NCaps - 1)
    BY CapabilityAssumption DEF Caps
  <1>6. \A t \in Tasks : /\ CapOf(t) \in Caps
                         /\ Begun(t) => CapOf(t) \in 1..(NCaps - 1) /\ starter[CapOf(t)] = t /\ t \in Workers
                         /\ ~Begun(t) => CapOf(t) = 0
    <2> SUFFICES ASSUME NEW t \in Tasks
                 PROVE  /\ CapOf(t) \in Caps
                        /\ Begun(t) => CapOf(t) \in 1..(NCaps - 1) /\ starter[CapOf(t)] = t /\ t \in Workers
                        /\ ~Begun(t) => CapOf(t) = 0
      OBVIOUS
    <2>1. CASE Begun(t)
      <3>1. CapOf(t) \in 1..(NCaps - 1) /\ starter[CapOf(t)] = t
        BY <2>1
      <3> HIDE DEF CapOf
      <3>2. QED
        BY <1>2, <1>4, <2>1, <3>1
    <2>2. CASE ~Begun(t)
      BY <2>2, CapZero
    <2>3. QED
      BY <2>1, <2>2
  <1> HIDE DEF Begun, CapOf
  <1>7. /\ \A t \in Tasks : /\ tcap[t] = CapOf(t) /\ cap[t] = CapOf(t) /\ want[t] = CapOf(t)
                            /\ pc[t] = IF Begun(t) THEN "sched" ELSE IF t \in Callers THEN "out" ELSE "none"
        /\ \A c \in Caps : running[c] = IF c = 0 THEN NoTask ELSE starter[c]
    BY <1>3
  <1>8. /\ returning = [c \in Caps |-> <<>>] /\ spare = [c \in Caps |-> <<>>]
        /\ runq = [c \in Caps |-> <<>>] /\ inbox = [c \in Caps |-> <<>>]
        /\ suspended = [c \in Caps |-> {}] /\ pendingSync = "none" /\ lastFree = 0
        /\ wakeup = [t \in Tasks |-> FALSE] /\ bound = [t \in Tasks |-> FALSE]
        /\ call = [t \in Tasks |-> "none"]
    BY DEF Init, CapabilityInit
  <1>9. /\ cur = [t \in Tasks |-> NoThread]
        /\ tst = [th \in Threads |-> "none"] /\ tsoCap = [th \in Threads |-> 0]
        /\ scan = [t \in Tasks |-> 0] /\ grabbed = [t \in Tasks |-> <<>>]
        /\ deal = [t \in Tasks |-> [pos |-> 2, turn |-> 0, moved |-> <<>>]]
        /\ msgs = [t \in Tasks |-> <<>>] /\ after = [t \in Tasks |-> "sched"]
        /\ kind = [t \in Tasks |-> IF t \in Callers THEN "none" ELSE "eval"]
    BY DEF Init, NewDeal
  <1>10. TypeOK
    <2>1. /\ running \in [Caps -> Tasks \cup {NoTask}]
          /\ tcap \in [Tasks -> Caps] /\ cap \in [Tasks -> Caps] /\ want \in [Tasks -> Caps]
      BY <1>2, <1>3, <1>5, <1>6 DEF Tasks
    <2>2. /\ returning \in [Caps -> Seq(Tasks)] /\ spare \in [Caps -> Seq(Tasks)]
          /\ runq \in [Caps -> Seq(Threads)] /\ inbox \in [Caps -> Seq(Threads)]
          /\ suspended \in [Caps -> SUBSET Tasks]
          /\ pendingSync \in {"none", "seq", "other"} /\ lastFree \in Caps
          /\ wakeup \in [Tasks -> BOOLEAN] /\ bound \in [Tasks -> BOOLEAN]
      BY <1>8, CapZero
    <2>3. /\ cur \in [Tasks -> Threads \cup {NoThread}]
          /\ tst \in [Threads -> {"none", "live", "blocked", "migrating"}]
          /\ tsoCap \in [Threads -> Caps] /\ scan \in [Tasks -> Caps]
          /\ grabbed \in [Tasks -> Seq(Caps)] /\ msgs \in [Tasks -> Seq(Threads)]
          /\ deal \in [Tasks -> [pos : Nat \ {0}, turn : Nat, moved : {<<>>} \cup (Threads \X Caps)]]
      BY <1>9, CapZero
    <2>4. QED
      BY <2>1, <2>2, <2>3 DEF TypeOK
  <1>11. PlacesOK
    BY <1>3, <1>8, <1>9 DEF PlacesOK, Places, HoldsOwn
  <1>12. TaskInv
    <2> SUFFICES ASSUME NEW t \in Tasks PROVE TaskOK(t)
      BY DEF TaskInv
    <2>1. /\ pc[t] \in {"sched", "out", "none"} /\ (pc[t] = "out" => t \in Callers)
          /\ (pc[t] = "sched" => t \in Workers /\ t \notin Callers)
          /\ (t \in Callers => pc[t] = "out") /\ tcap[t] = cap[t]
      BY <1>6, <1>7, CapabilityAssumption
    <2>2. /\ grabbed[t] = <<>> /\ msgs[t] = <<>> /\ cur[t] = NoThread /\ ~bound[t] /\ call[t] = "none"
          /\ kind[t] = (IF t \in Callers THEN "none" ELSE "eval") /\ deal[t].moved = <<>>
          /\ t \in Callers => tst[t] = "none" /\ t \notin Workers
      BY <1>8, <1>9, CapabilityAssumption DEF Threads
    <2>3. NoDup(grabbed[t])
      BY <2>2 DEF NoDup
    <2>4. QED
      BY <2>1, <2>2, <2>3, EmptyQueue DEF TaskOK, WaitOK, LoopOK, RoleOK, CurOK, HomeOK, Looping, Entering,
          Resuming, Syncing, Acquiring, InYield, Returning, Yielding, HoldsOwn
  <1>13. OwnersAgree
    <2> SUFFICES ASSUME NEW c \in Caps, NEW t \in Tasks PROVE running[c] = t <=> c \in Holding(t)
      BY DEF OwnersAgree
    <2>1. grabbed[t] = <<>> /\ call[t] = "none"
      BY <1>8, <1>9
    <2>2. pc[t] \in {"sched", "out", "none"} /\ (pc[t] = "sched" <=> Begun(t))
      BY <1>7
    <2>3. c \in Holding(t) <=> Begun(t) /\ c = CapOf(t)
      BY <1>7, <2>1, <2>2, EmptyQueue DEF Holding, HoldsOwn, Acquiring
    <2>4. NoTask # t
      BY CapabilityAssumption DEF Tasks
    <2>5. CASE c = 0
      BY <1>4, <1>6, <1>7, <2>3, <2>4, <2>5
    <2>6. CASE c \in 1..(NCaps - 1)
      <3>1. running[c] = starter[c]
        BY <1>4, <1>7, <2>6
      <3>2. starter[c] = t => Begun(t)
        BY <2>6 DEF Begun
      <3>3. QED
        BY <1>2, <1>6, <2>3, <2>6, <3>1, <3>2
    <2>7. QED
      BY <1>5, <2>5, <2>6
  <1>14. QueueInv
    BY <1>7, <1>8, EmptyQueue DEF QueueInv, QueuedRight, NoDup
  <1>15. ThreadInv
    BY <1>8, <1>9, EmptyQueue DEF ThreadInv, NoDup
  <1>16. MigrationInv /\ DealInv
    BY <1>9 DEF MigrationInv, DealInv
  <1>17. NoLostWakeup
    BY <1>8 DEF NoLostWakeup, Unserved
  <1>18. QED
    BY <1>10, <1>11, <1>12, <1>13, <1>14, <1>15, <1>16, <1>17 DEF IInv

(* Every step keeps the invariant: one lemma for each action.              *)
LEMMA NextInv == IInv /\ [Next]_vars => IInv'
  <1> SUFFICES ASSUME IInv, [Next]_vars PROVE IInv'
    OBVIOUS
  <1>1. CASE UNCHANGED vars
    <2>1. Home' = Home /\ DealInv'
      BY <1>1, HomeStill DEF vars, threadVars, loopVars, IInv
    <2>2. TypeOK' /\ PlacesOK' /\ OwnersAgree' /\ QueueInv' /\ MigrationInv' /\ NoLostWakeup'
      BY <1>1 DEF vars, capVars, taskVars, threadVars, loopVars, IInv, TypeOK, PlacesOK, OwnersAgree,
         Holding, Acquiring, QueueInv, QueuedRight, MigrationInv, Woken, NoLostWakeup, Free,
         Unserved, Coming, Waiting
    <2>3. TaskInv' /\ ThreadInv'
      BY <1>1, <2>1 DEF vars, capVars, taskVars, threadVars, loopVars, IInv, TaskInv, TaskOK,
         WaitOK, LoopOK, RoleOK, CurOK, HomeOK, InYield, Entering, Resuming, Syncing, Looping,
         Acquiring, ThreadInv
    <2>4. QED
      BY <2>1, <2>2, <2>3 DEF IInv
  <1>2. ASSUME NEW t \in Tasks, NEW k \in CallKinds, Enter(t, k) PROVE IInv'
    BY <1>2, EnterInv
  <1>3. ASSUME NEW t \in Tasks, Wait(t) PROVE IInv'
    BY <1>3, WaitReturnLockInv, WaitWakeInv, WaitReturnCheckInv, YieldInv, YieldCheckInv DEF Wait
  <1>4. ASSUME NEW t \in Tasks, Loop(t) PROVE IInv'
    BY <1>4, StartCallInv, LeaveInv, TakeInboxInv, ExecuteMessageInv, InboxDoneInv, FindWorkDoneInv,
       PushGrabInv, PushLookInv, PushKeepInv, PushGiveInv, PushHomeInv, PushDoneInv, PushReleaseInv,
       IdleGCInv, DecideInv, YieldedSchedInv, CallRecoveredInv, RequestSyncInv, YieldedSyncInv, AcquireInv, AcquiredInv, CollectInv,
       ReleaseAllInv DEF Loop
  <1>5. ASSUME NEW t \in Tasks, ThreadStops(t) PROVE IInv'
    BY <1>5, ThreadFinishesInv, PutBackInv, ThreadBlocksInv DEF ThreadStops
  <1>6. ASSUME NEW t \in Tasks, ThreadActs(t) PROVE IInv'
    BY <1>5, <1>6, SafeCallInv, WakeInv, ForkInv DEF ThreadActs
  <1>7. QED
    BY <1>1, <1>2, <1>3, <1>4, <1>6, CallReturnsInv DEF Next

(* The scheduler's inductive invariant.                                    *)
THEOREM Inductive == Spec => []IInv
  BY InitInv, NextInv, PTL DEF Spec

(* Type correctness of the scheduler's state.                              *)
THEOREM TypesKept == Spec => []TypeOK
  <1>1. IInv => TypeOK
    BY DEF IInv
  <1>2. QED
    BY <1>1, Inductive, PTL

(* Every Capability has one owner and every sleeping Task is in the queue  *)
(* it will be woken from (Capability.c): cap->running_task agrees with what*)
(* each Task believes it holds, whatever wakes up when.                    *)
THEOREM Placed == Spec => []TasksInPlace
  <1>1. IInv => TasksInPlace
    BY DEF IInv, QueueInv, TasksInPlace
  <1>2. QED
    BY <1>1, Inductive, PTL

(* Between acquireAllCapabilities and releaseAllCapabilities no other Task *)
(* runs on any Capability (Schedule.c, scheduleDoGC).                      *)
THEOREM Stopped == Spec => []WorldStopped
  <1>1. IInv => WorldStopped
    <2> SUFFICES ASSUME IInv, NEW t \in Tasks, NEW u \in Tasks, pc[t] = "stopped", u # t,
                        pc[u] \in HoldsOwn
                 PROVE  FALSE
      BY DEF WorldStopped
    <2>1. cap[u] \in Caps
      BY DEF IInv, TypeOK
    <2>2. cap[u] \in Holding(u) /\ cap[u] \in Holding(t)
      BY <2>1 DEF Holding
    <2>3. running[cap[u]] = u /\ running[cap[u]] = t
      BY <2>1, <2>2 DEF IInv, OwnersAgree
    <2>4. QED
      BY <2>3
  <1>2. QED
    BY <1>1, Inductive, PTL

(* A Task runs a thread only on the Capability that t->cap names           *)
(* and the Task's, and resumeThread finds the Task in that Capability's    *)
(* list of suspended calls (Schedule.c, schedule and recoverSuspendedTask).*)
THEOREM AtHome == Spec => []RunsAtHome
  <1>1. IInv => RunsAtHome
    <2> SUFFICES ASSUME IInv, NEW t \in Tasks
                 PROVE  /\ Running(t) => tcap[t] = cap[t] /\ tsoCap[cur[t]] = cap[t]
                        /\ At(t, "resumed") => t \in suspended[cap[t]]
      BY DEF RunsAtHome
    <2>1. TaskOK(t)
      BY DEF IInv, TaskInv
    <2>2. ASSUME pc[t] = "run" PROVE tcap[t] = cap[t] /\ tsoCap[cur[t]] = cap[t]
      <3>1. tcap[t] = cap[t] /\ cur[t] # NoThread
        BY <2>1, <2>2 DEF TaskOK, WaitOK, CurOK, HoldsOwn
      <3>2. Home[cur[t]] = cap[t] /\ cap[t] \in Caps
        BY <3>1 DEF IInv, TypeOK, ThreadInv
      <3>3. cap[t] \in Holding(t)
        BY <2>2, <3>2 DEF Holding, HoldsOwn
      <3>4. Home[cur[t]] = tsoCap[cur[t]]
        BY <2>2, <3>1, <3>3, CarriedStays
      <3>5. QED
        BY <3>1, <3>2, <3>4
    <2>3. pc[t] = "resumed" => t \in suspended[cap[t]]
      BY <2>1 DEF TaskOK, CurOK
    <2>4. QED
      BY <2>2, <2>3 DEF Running, At
  <1>2. QED
    BY <1>1, Inductive, PTL

(* A bound thread in a run queue is where its Task sleeps, or where the    *)
(* Task is the owner: schedulePushWork moves the Task when it queues the   *)
(* thread elsewhere (Schedule.c:810), before t->cap is set, so             *)
(* releaseCapability_ finds whom to wake.                                  *)
THEOREM BoundFound == Spec => []BoundTaskFound
  <1>1. IInv => BoundTaskFound
    <2> SUFFICES ASSUME IInv, NEW b \in Callers, NEW c \in Caps, Contains(runq[c], b)
                 PROVE  running[c] = b \/ tcap[b] = c
      BY DEF BoundTaskFound
    <2>1. b \in Tasks
      BY DEF Tasks
    <2>2. tcap[b] = c \/ c \in Holding(b)
      BY <2>1, BoundQueued
    <2>3. QED
      BY <2>1, <2>2 DEF IInv, OwnersAgree
  <1>2. QED
    BY <1>1, Inductive, PTL

(* A live thread is in one run queue once, or with one Task, and a         *)
(* migrating thread has a message on its way (Schedule.c, Threads.c,       *)
(* Messages.c).                                                            *)
THEOREM ThreadsOnce == Spec => []EveryThreadOnce
  <1>1. IInv => EveryThreadOnce
    <2> SUFFICES ASSUME IInv, NEW th \in Threads
                 PROVE  /\ Cardinality(QueuePlaces(th)) + Cardinality(Carriers(th)) =
                             IF tst[th] = "live" THEN 1 ELSE 0
                        /\ tst[th] = "migrating" => Woken(th)
      BY DEF EveryThreadOnce
    <2>1. tst[th] = "migrating" => Woken(th)
      BY DEF IInv, MigrationInv
    <2>2. th # NoThread /\ cap \in [Tasks -> Caps] /\ Home \in [Threads -> Caps]
      BY CapabilityAssumption, HomeType DEF IInv, TypeOK, Threads, NoThread
    <2>3. \A p : p \in QueuePlaces(th) <=> \E c \in Caps : \E i \in DOMAIN runq[c] :
                                             p = <<c, i>> /\ runq[c][i] = th
      BY DEF QueuePlaces
    <2>4. ASSUME NEW c \in Caps, NEW i \in DOMAIN runq[c], runq[c][i] = th
          PROVE  Contains(runq[c], th) /\ tst[th] = "live" /\ Home[th] = c
      <3>1. runq[c] \in Seq(Threads)
        BY DEF IInv, TypeOK
      <3>2. Contains(runq[c], th)
        BY <2>4, <3>1, LenProperties DEF Contains
      <3>3. QED
        BY <3>2 DEF IInv, ThreadInv
    <2>5. ASSUME NEW u \in Tasks, cur[u] = th
          PROVE  /\ tst[th] = "live" /\ Home[th] = cap[u] /\ ~Contains(runq[cap[u]], th)
                 /\ cap[u] \in Caps
      BY <2>2, <2>5 DEF IInv, ThreadInv
    <2>6. Cardinality({}) = 0 /\ \A x : Cardinality({x}) = 1
      BY FS_EmptySet, FS_Singleton
    <2>7. CASE tst[th] # "live"
      <3>1. QueuePlaces(th) = {}
        BY <2>3, <2>4, <2>7
      <3>2. Carriers(th) = {}
        BY <2>5, <2>7 DEF Carriers
      <3>3. Cardinality(QueuePlaces(th)) = 0 /\ Cardinality(Carriers(th)) = 0
        BY <2>6, <3>1, <3>2, Zenon
      <3>4. QED
        BY <2>1, <2>7, <3>3
    <2>8. CASE tst[th] = "live" /\ \E u \in Tasks : cur[u] = th
      <3>1. PICK u \in Tasks : cur[u] = th
        BY <2>8
      <3>2. QueuePlaces(th) = {}
        <4> SUFFICES ASSUME NEW c \in Caps, NEW i \in DOMAIN runq[c], runq[c][i] = th PROVE FALSE
          BY <2>3
        <4>1. QED
          BY <2>4, <2>5, <3>1
      <3>3. Carriers(th) = {u}
        BY <2>2, <3>1 DEF Carriers, IInv, ThreadInv
      <3>4. Cardinality(QueuePlaces(th)) = 0 /\ Cardinality(Carriers(th)) = 1
        BY <2>6, <3>2, <3>3, Zenon
      <3>5. QED
        BY <2>1, <2>8, <3>4
    <2>9. CASE tst[th] = "live" /\ ~\E u \in Tasks : cur[u] = th
      <3>1. Contains(runq[Home[th]], th) /\ Home[th] \in Caps
        BY <2>2, <2>9 DEF IInv, ThreadInv
      <3>2. NoDup(runq[Home[th]]) /\ runq[Home[th]] \in Seq(Threads)
        BY <3>1 DEF IInv, TypeOK, ThreadInv
      <3>3. PICK i \in DOMAIN runq[Home[th]] : runq[Home[th]][i] = th
        BY <3>1, <3>2, LenProperties DEF Contains
      <3>4. \A c \in Caps : \A j \in DOMAIN runq[c] :
              runq[c][j] = th => c = Home[th] /\ j = i
        BY <2>4, <3>2, <3>3 DEF NoDup
      <3>5. QueuePlaces(th) = {<<Home[th], i>>}
        BY <2>3, <3>1, <3>3, <3>4
      <3>6. Carriers(th) = {}
        BY <2>9 DEF Carriers
      <3>7. Cardinality(QueuePlaces(th)) = 1 /\ Cardinality(Carriers(th)) = 0
        BY <2>6, <3>5, <3>6, Zenon
      <3>8. QED
        BY <2>1, <2>9, <3>7
    <2>10. QED
      BY <2>7, <2>8, <2>9
  <1>2. QED
    BY <1>1, Inductive, PTL

(* No wake-up is lost: when a Capability is free and there is something to *)
(* do on it, a Task is on its way to it (releaseCapability_ and            *)
(* sendMessage).                                                           *)
THEOREM WakeUps == Spec => []NoLostWakeup
  <1>1. IInv => NoLostWakeup
    BY DEF IInv
  <1>2. QED
    BY <1>1, Inductive, PTL

===============================================================================
