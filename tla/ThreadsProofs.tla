----------------------------- MODULE ThreadsProofs -----------------------------
(***************************************************************************)
(* Proofs about Threads, for any number of Capabilities, threads, MVars and *)
(* calls of throwTo, and any programs.                                     *)
(*                                                                         *)
(* The invariant is stated of a heap h, of where the Capabilities are (p),  *)
(* of whom they run (ct) and what message they deal with (cm), and of the   *)
(* messages they have taken (b), so that it can be stated of the heap       *)
(* between two of the functions that a handler composes.                   *)
(***************************************************************************)
EXTENDS Threads, FiniteSetTheorems, SequenceTheorems, WellFoundedInduction, TLAPS

Tso == [home : Capabilities, why : {"NotBlocked", "MVar", "MsgThrowTo", "Migrating"},
        info : {None} \cup MVars \cup Messages, link : BOOLEAN,
        what : {"run", "raise", "killed", "finished"}, mask : Masks,
        catch : {"none", "unmasked", "interruptible", "uninterruptible"},
        stack : {"idle", "taking", "putting", "took", "put", "throwing"}, blocked : Seq(Messages)]
Msg == [info : {"free", "locked", "throwto", "null", "done"}, locker : Capabilities \cup {None},
        source : Threads \cup {None}, target : Threads \cup {None}, raised : Nat,
        told : {"waiting", "returned", "interrupted"}]
Entry == [tso : Threads, info : {"queue", "ind", "null"}]
MVar == [full : BOOLEAN, queue : Seq(Entry), locker : Capabilities \cup {None}]
Mail == [type : {"wakeup"}, of : Threads] \cup [type : {"throwto"}, of : Messages]
Heap == [tso : [Threads -> Tso], msg : [Messages -> Msg], mvar : [MVars -> MVar],
         inbox : [Capabilities -> Seq(Mail)], balance : Int]
Places == {"sched", "throw", "throw_mvar", "pause", "unmask", "finish"}

TypeInv(h, b, p, ct, cm) ==
  /\ h \in Heap /\ b \in [Capabilities -> Seq(Mail)] /\ p \in [Capabilities -> Places]
  /\ ct \in [Capabilities -> Threads \cup {None}] /\ cm \in [Capabilities -> Messages \cup {None}]

In(x, q) == \E i \in DOMAIN q : q[i] = x
Throwing(p, c) == p[c] \in {"throw", "throw_mvar"}
BlockedOn(h, t, m) == t \in Threads /\ h.tso[t].why = "MsgThrowTo" /\ h.tso[t].info = m

(* What a thread is blocked on, and what that has left on its stack.       *)
TsoInv(h, t) == LET u == h.tso[t] IN
  /\ u.why \in {"NotBlocked", "Migrating"} => u.stack = "idle"
  /\ u.why = "MVar" => u.info \in MVars /\ u.stack \in IF u.link THEN {"taking", "putting"} ELSE {"took", "put"}
  /\ u.why = "MsgThrowTo" => /\ u.info \in Messages /\ u.stack = "throwing"
                             /\ h.msg[u.info].source = t /\ h.msg[u.info].told = "waiting"
                             /\ h.msg[u.info].info \in {"locked", "throwto", "null"}
  /\ u.link => u.why = "MVar"
  /\ u.why # "NotBlocked" => u.what = "run"
  /\ u.what = "killed" => u.catch = "none"
  /\ \A m \in Messages : In(m, u.blocked) => h.msg[m].info \notin {"free", "done"} /\ h.msg[m].target = t

(* What has become of a message, and who has locked it.                    *)
MsgInv(h, p, ct, cm, m) == LET x == h.msg[m] IN
  /\ x.info # "free" => x.source \in Threads /\ x.target \in Threads /\ x.source # x.target
  /\ x.info \in {"free", "locked", "throwto"} => x.raised = 0 /\ x.told = "waiting"
  /\ x.raised <= 1
  /\ x.info = "null" /\ x.told = "waiting" => x.raised = 1 \/ Dead(h, x.target)
  /\ x.told = "returned" => x.raised = 1 \/ Dead(h, x.target)
  /\ x.told = "interrupted" => x.raised = 0
  /\ x.info = "locked" <=> x.locker # None
  /\ x.info = "throwto" => BlockedOn(h, x.source, m)
  /\ x.info = "locked" =>
       \/ Throwing(p, x.locker) /\ cm[x.locker] = m
       \/ p[x.locker] = "pause" /\ ct[x.locker] = x.source /\ BlockedOn(h, x.source, m)

(* Where a Capability is, whom it runs and what it has locked.             *)
ThrowOK(h, c, t, m) ==
  /\ m \in Messages /\ h.msg[m].info = "locked" /\ h.msg[m].locker = c
  /\ t = None => BlockedOn(h, h.msg[m].source, m)
  /\ t # None => /\ h.msg[m].source = t /\ h.tso[t].why = "NotBlocked" /\ h.tso[t].what = "run"
                 /\ ~ In(m, h.tso[h.msg[m].target].blocked)
WaiterOK(h, c, t) == h.tso[t].home = c /\ h.tso[t].why = "MVar"
PauseOK(h, c, t) ==
  /\ h.tso[t].info # None /\ h.tso[t].why # "Migrating"
  /\ h.tso[t].why = "MVar" => h.tso[t].link
  /\ h.tso[t].info \in MVars => h.mvar[h.tso[t].info].locker = c
  /\ h.tso[t].info \in Messages =>
       \/ h.msg[h.tso[t].info].locker = c
       \/ h.msg[h.tso[t].info].info = "null" /\ h.tso[t].why # "MsgThrowTo"
CapInv(h, p, ct, cm, c) ==
  /\ Throwing(p, c) => ThrowOK(h, c, ct[c], cm[c])
  /\ ~ Throwing(p, c) => cm[c] = None
  /\ p[c] = "throw_mvar" => WaiterOK(h, c, h.msg[cm[c]].target)
  /\ p[c] = "sched" => ct[c] = None
  /\ p[c] \in {"pause", "unmask", "finish"} => ct[c] # None
  /\ ct[c] # None => h.tso[ct[c]].home = c
  /\ p[c] = "pause" => PauseOK(h, c, ct[c])
  /\ p[c] = "unmask" => h.tso[ct[c]].why = "NotBlocked"
  /\ p[c] \in {"pause", "unmask"} => h.tso[ct[c]].what # "finished"
  /\ p[c] = "finish" => h.tso[ct[c]].what = "finished"

(* The queue of an MVar: who is blocked on it, once, for what it lacks.    *)
Waits(h, t, mv) == h.tso[t].why = "MVar" /\ h.tso[t].info = mv /\ h.tso[t].link
Lacks(v) == IF v.full THEN "putting" ELSE "taking"
QueueInv(h, mv) == LET v == h.mvar[mv] IN
  /\ \A i \in Live(v.queue) : Waits(h, v.queue[i].tso, mv) /\ h.tso[v.queue[i].tso].stack = Lacks(v)
  /\ \A i, j \in Live(v.queue) : v.queue[i].tso = v.queue[j].tso => i = j
  /\ \A t \in Threads : Waits(h, t, mv) => \E i \in Live(v.queue) : v.queue[i].tso = t
(* Its lock is held until the thread that blocks on it is off the stack.   *)
LockInv(h, p, ct, mv) == LET c == h.mvar[mv].locker IN
  c # None => p[c] = "pause" /\ h.tso[ct[c]].info = mv

Sent(h, b, x) == \E c \in Capabilities : In(x, h.inbox[c]) \/ In(x, b[c])

(* Whoever may go on has a wake-up under way.                              *)
WakeInv(h, b, t) == LET u == h.tso[t] IN
  \/ u.why = "MVar" /\ ~u.link
  \/ u.why = "MsgThrowTo" /\ h.msg[u.info].info = "null"
  \/ u.why = "Migrating"
  => Sent(h, b, Wakeup(t))

(* A message that has not been dealt with is in somebody's hands.          *)
InHands(h, b, p, ct, cm, m) == LET u == h.tso[h.msg[m].target] IN
  \/ Sent(h, b, ThrowTo(m))
  \/ \E c \in Capabilities : cm[c] = m
  \/ /\ In(m, u.blocked)
     /\ u.what = "finished" => \E c \in Capabilities : p[c] = "finish" /\ ct[c] = h.msg[m].target
PendInv(h, b, p, ct, cm, m) ==
  h.msg[m].info \in {"locked", "throwto"} => InHands(h, b, p, ct, cm, m)

(* A message that is queued while its sender still holds it was queued by  *)
(* the Capability of the target.                                           *)
HereInv(h, p, t) ==
  \A m \in Messages : LET c == h.msg[m].locker IN
    In(m, h.tso[t].blocked) /\ c # None /\ p[c] = "pause" => h.tso[t].home = c

(* ... but for the wake-ups of the threads in X, and for a message that is  *)
(* being dealt with, in M.                                                 *)
InvBut(h, b, p, ct, cm, X, M) ==
  /\ TypeInv(h, b, p, ct, cm)
  /\ \A t \in Threads : TsoInv(h, t) /\ HereInv(h, p, t)
  /\ \A t \in Threads \ X : WakeInv(h, b, t)
  /\ \A m \in Messages \ M : MsgInv(h, p, ct, cm, m) /\ PendInv(h, b, p, ct, cm, m)
  /\ \A c \in Capabilities : CapInv(h, p, ct, cm, c)
  /\ \A mv \in MVars : QueueInv(h, mv) /\ LockInv(h, p, ct, mv)
Inv(h, b, p, ct, cm) == InvBut(h, b, p, ct, cm, {}, {})

IInv == Inv(heap, batch, pc, curTso, curMsg)
----------------------------------------------------------------------------
(* Sequences, and what the shapes of the heap come to *)

(* What an inbox or a queue contains, after a change at one end.           *)
LEMMA ConsIn ==
  ASSUME NEW S, NEW q \in Seq(S), NEW x \in S
  PROVE  /\ <<x>> \o q \in Seq(S)
         /\ \A y : In(y, <<x>> \o q) <=> y = x \/ In(y, q)
<1> DEFINE r == <<x>> \o q
<1>1. <<x>> \in Seq(S) /\ Len(<<x>>) = 1 /\ <<x>>[1] = x /\ Len(q) \in Nat
  OBVIOUS
<1>2. r \in Seq(S) /\ Len(r) = Len(q) + 1
      /\ \A i \in 1..(Len(q) + 1) : r[i] = IF i <= 1 THEN x ELSE q[i - 1]
  BY <1>1, ConcatProperties
<1>3. DOMAIN r = 1..(Len(q) + 1) /\ DOMAIN q = 1..Len(q)
  BY <1>2
<1> HIDE DEF r
<1>4. ASSUME NEW y, In(y, r) PROVE y = x \/ In(y, q)
  <2>1. PICK i \in 1..(Len(q) + 1) : r[i] = y
    BY <1>3, <1>4 DEF In
  <2>2. CASE i <= 1
    BY <1>2, <2>1, <2>2
  <2>3. CASE ~ (i <= 1)
    <3>1. i - 1 \in 1..Len(q) /\ q[i - 1] = y
      BY <1>1, <1>2, <2>1, <2>3
    <3> QED BY <1>3, <3>1 DEF In
  <2> QED BY <2>2, <2>3
<1>5. ASSUME NEW y, y = x PROVE In(y, r)
  BY <1>1, <1>2, <1>3, <1>5 DEF In
<1>6. ASSUME NEW y, In(y, q) PROVE In(y, r)
  <2>1. PICK i \in 1..Len(q) : q[i] = y
    BY <1>3, <1>6 DEF In
  <2>2. i + 1 \in 1..(Len(q) + 1) /\ ~ (i + 1 <= 1) /\ (i + 1) - 1 = i
    BY <1>1, <2>1
  <2> QED BY <1>2, <1>3, <2>1, <2>2 DEF In
<1> QED BY <1>2, <1>4, <1>5, <1>6 DEF r

LEMMA TailIn ==
  ASSUME NEW S, NEW q \in Seq(S), q # <<>>
  PROVE  /\ Head(q) \in S /\ Tail(q) \in Seq(S) /\ In(Head(q), q)
         /\ \A y : In(y, q) <=> y = Head(q) \/ In(y, Tail(q))
<1>1. Len(q) \in Nat \ {0} /\ Head(q) = q[1] /\ Tail(q) \in Seq(S) /\ Len(Tail(q)) = Len(q) - 1
      /\ \A i \in 1..Len(Tail(q)) : Tail(q)[i] = q[i + 1]
  BY EmptySeq, HeadTailProperties
<1>2. DOMAIN q = 1..Len(q) /\ DOMAIN Tail(q) = 1..(Len(q) - 1)
  BY <1>1
<1>3. In(Head(q), q) /\ Head(q) \in S
  BY <1>1, <1>2, ElementOfSeq DEF In
<1>4. ASSUME NEW y, In(y, q) PROVE y = Head(q) \/ In(y, Tail(q))
  <2>1. PICK i \in 1..Len(q) : q[i] = y
    BY <1>2, <1>4 DEF In
  <2>2. CASE i = 1
    BY <1>1, <2>1, <2>2
  <2>3. CASE i # 1
    <3>1. i - 1 \in 1..(Len(q) - 1) /\ (i - 1) + 1 = i
      BY <1>1, <2>1, <2>3
    <3> QED BY <1>1, <1>2, <2>1, <3>1 DEF In
  <2> QED BY <2>2, <2>3
<1>5. ASSUME NEW y, In(y, Tail(q)) PROVE In(y, q)
  <2>1. PICK i \in 1..(Len(q) - 1) : Tail(q)[i] = y
    BY <1>2, <1>5 DEF In
  <2>2. i + 1 \in 1..Len(q) /\ q[i + 1] = y
    BY <1>1, <2>1
  <2> QED BY <1>2, <2>2 DEF In
<1> QED BY <1>1, <1>3, <1>4, <1>5

LEMMA NothingIn == \A y : ~ In(y, <<>>)
  BY DEF In

LEMMA MailIn ==
  /\ \A t \in Threads : Wakeup(t) \in Mail
  /\ \A m \in Messages : ThrowTo(m) \in Mail
  /\ \A t \in Threads, m \in Messages : Wakeup(t) # ThrowTo(m)
  /\ \A t, u \in Threads : Wakeup(t) = Wakeup(u) => t = u
  /\ \A m, n \in Messages : ThrowTo(m) = ThrowTo(n) => m = n
  BY DEF Wakeup, ThrowTo, Mail
LEMMA QueueType ==
  ASSUME NEW h \in Heap, NEW mv \in MVars
  PROVE  /\ h.mvar[mv].queue \in Seq(Entry)
         /\ \A i \in Live(h.mvar[mv].queue) : i \in Nat /\ i \in DOMAIN h.mvar[mv].queue
                                             /\ h.mvar[mv].queue[i] \in Entry /\ h.mvar[mv].queue[i].tso \in Threads
<1>1. h.mvar[mv] \in MVar
  BY DEF Heap
<1>2. h.mvar[mv].queue \in Seq(Entry)
  BY <1>1 DEF MVar
<1>3. ASSUME NEW i \in DOMAIN h.mvar[mv].queue PROVE i \in Nat /\ h.mvar[mv].queue[i] \in Entry
  BY <1>2, ElementOfSeq
<1> QED BY <1>2, <1>3 DEF Live, Entry

(* The queue of an MVar that a step leaves alone, with those who wait.     *)
LEMMA QueueKept ==
  ASSUME NEW h \in Heap, NEW g, NEW mv \in MVars, QueueInv(h, mv),
         g.mvar[mv].queue = h.mvar[mv].queue, g.mvar[mv].full = h.mvar[mv].full,
         \A t \in Threads : Waits(h, t, mv) \/ Waits(g, t, mv) =>
           /\ Waits(h, t, mv) /\ Waits(g, t, mv) /\ g.tso[t].stack = h.tso[t].stack
  PROVE  QueueInv(g, mv)
<1> DEFINE q == h.mvar[mv].queue
<1>1. \A i \in Live(q) : q[i].tso \in Threads
  BY QueueType
<1>2. Lacks(g.mvar[mv]) = Lacks(h.mvar[mv])
  BY DEF Lacks
<1>3. \A i \in Live(q) : Waits(g, q[i].tso, mv) /\ g.tso[q[i].tso].stack = Lacks(g.mvar[mv])
  BY Zenon, <1>1, <1>2 DEF QueueInv
<1>4. \A i, j \in Live(q) : q[i].tso = q[j].tso => i = j
  BY Zenon DEF QueueInv
<1>5. \A t \in Threads : Waits(g, t, mv) => \E i \in Live(q) : q[i].tso = t
  BY Zenon DEF QueueInv
<1> QED BY <1>3, <1>4, <1>5 DEF QueueInv

LEMMA SendEffect ==
  ASSUME NEW h \in Heap, NEW b, NEW c \in Capabilities, NEW x \in Mail
  PROVE  LET g == SendMessage(h, c, x) IN
         /\ g \in Heap /\ g.tso = h.tso /\ g.msg = h.msg /\ g.mvar = h.mvar /\ g.balance = h.balance
         /\ \A y : Sent(g, b, y) <=> y = x \/ Sent(h, b, y)
<1> DEFINE g == SendMessage(h, c, x)
<1>1. h.inbox \in [Capabilities -> Seq(Mail)]
  BY DEF Heap
<1>2. /\ <<x>> \o h.inbox[c] \in Seq(Mail)
      /\ \A y : In(y, <<x>> \o h.inbox[c]) <=> y = x \/ In(y, h.inbox[c])
  BY <1>1, ConsIn
<1>3. /\ g.tso = h.tso /\ g.msg = h.msg /\ g.mvar = h.mvar /\ g.balance = h.balance
      /\ g.inbox = [h.inbox EXCEPT ![c] = <<x>> \o h.inbox[c]]
  BY DEF SendMessage, Heap
<1>4. g \in Heap
  <2>1. g.inbox \in [Capabilities -> Seq(Mail)]
    BY <1>1, <1>2, <1>3
  <2>2. g = [h EXCEPT !.inbox = g.inbox]
    BY <1>3 DEF SendMessage, Heap
  <2> HIDE DEF g
  <2> QED BY <2>1, <2>2 DEF Heap
<1>5. /\ g.inbox[c] = <<x>> \o h.inbox[c]
      /\ \A d \in Capabilities \ {c} : g.inbox[d] = h.inbox[d]
  BY <1>1, <1>3
<1> HIDE DEF g
<1>6. \A y : Sent(g, b, y) <=> y = x \/ Sent(h, b, y)
  BY Zenon, <1>2, <1>5 DEF Sent
<1> QED BY <1>3, <1>4, <1>6 DEF g

(* A message sent breaks nothing, and a wake-up is one that is under way.  *)
LEMMA SendInv ==
  ASSUME NEW h, NEW b, NEW p, NEW ct, NEW cm, NEW X, NEW M, InvBut(h, b, p, ct, cm, X, M),
         NEW c \in Capabilities, NEW x \in Mail, NEW Y, \A t \in X : x = Wakeup(t) \/ t \in Y
  PROVE  /\ InvBut(SendMessage(h, c, x), b, p, ct, cm, Y, M)
<1> DEFINE g == SendMessage(h, c, x)
<1>1. /\ g \in Heap /\ g.tso = h.tso /\ g.msg = h.msg /\ g.mvar = h.mvar /\ g.balance = h.balance
      /\ \A y : Sent(g, b, y) <=> y = x \/ Sent(h, b, y)
  BY SendEffect DEF InvBut, TypeInv
<1> HIDE DEF g
<1>2. TypeInv(g, b, p, ct, cm)
  BY <1>1 DEF InvBut, TypeInv
<1>3. \A t \in Threads : TsoInv(g, t) /\ HereInv(g, p, t)
  BY <1>1 DEF InvBut, TsoInv, HereInv
<1>4. \A t \in Threads \ Y : WakeInv(g, b, t)
  BY Zenon, <1>1 DEF InvBut, WakeInv
<1>5. \A m \in Messages \ M : MsgInv(g, p, ct, cm, m)
  BY <1>1 DEF InvBut, MsgInv, Dead, BlockedOn
<1>6. \A m \in Messages \ M : PendInv(g, b, p, ct, cm, m)
  BY <1>1 DEF InvBut, PendInv, InHands
<1>7. ASSUME NEW d \in Capabilities PROVE CapInv(g, p, ct, cm, d)
  <2>1. CapInv(h, p, ct, cm, d)
    BY DEF InvBut
  <2> QED BY Zenon, <1>1, <2>1 DEF CapInv, ThrowOK, WaiterOK, PauseOK, BlockedOn
<1>8. ASSUME NEW mv \in MVars PROVE QueueInv(g, mv) /\ LockInv(g, p, ct, mv)
  <2>1. QueueInv(h, mv) /\ LockInv(h, p, ct, mv)
    BY DEF InvBut
  <2>2. \A t \in Threads : Waits(g, t, mv) <=> Waits(h, t, mv)
    BY <1>1 DEF Waits
  <2>3. QueueInv(g, mv)
    BY <1>1, <2>1, <2>2, QueueKept DEF InvBut, TypeInv
  <2> QED BY <1>1, <2>1, <2>3 DEF LockInv
<1> QED BY <1>2, <1>3, <1>4, <1>5, <1>6, <1>7, <1>8 DEF InvBut, g

(* A thread that the Capability wakes: what resuming it does to the heap.  *)
LEMMA ResumeEffect ==
  ASSUME NEW h \in Heap, NEW t \in Threads
  PROVE  LET g == Resume(h, t) IN
         /\ g \in Heap /\ g.msg = h.msg /\ g.mvar = h.mvar /\ g.inbox = h.inbox
         /\ g.tso = [h.tso EXCEPT ![t] = [h.tso[t] EXCEPT !.why = "NotBlocked", !.stack = "idle"]]
         /\ g.balance = h.balance + CASE h.tso[t].stack = "put" -> 1 [] h.tso[t].stack = "took" -> -1 [] OTHER -> 0
<1> DEFINE g == Resume(h, t)
<1>1. /\ g.msg = h.msg /\ g.mvar = h.mvar /\ g.inbox = h.inbox
      /\ g.tso = [h.tso EXCEPT ![t] = [h.tso[t] EXCEPT !.why = "NotBlocked", !.stack = "idle"]]
      /\ g.balance = h.balance + CASE h.tso[t].stack = "put" -> 1 [] h.tso[t].stack = "took" -> -1 [] OTHER -> 0
  BY DEF Resume, Heap
<1>2. g.tso \in [Threads -> Tso]
  <2>1. h.tso \in [Threads -> Tso]
    BY DEF Heap
  <2>2. [h.tso[t] EXCEPT !.why = "NotBlocked", !.stack = "idle"] \in Tso
    <3> DEFINE u == h.tso[t]
    <3>1. u \in Tso
      BY <2>1
    <3> HIDE DEF u
    <3>2. [u EXCEPT !.why = "NotBlocked", !.stack = "idle"] \in Tso
      BY Zenon, <3>1 DEF Tso
    <3> QED BY <3>2 DEF u
  <2> QED BY <1>1, <2>1, <2>2
<1>3. g.balance \in Int
  BY <1>1 DEF Heap
<1>4. g = [tso |-> g.tso, msg |-> h.msg, mvar |-> h.mvar, inbox |-> h.inbox, balance |-> g.balance]
  <2>1. h = [tso |-> h.tso, msg |-> h.msg, mvar |-> h.mvar, inbox |-> h.inbox, balance |-> h.balance]
    BY DEF Heap
  <2>2. \E w, z : g = [h EXCEPT !.tso = w, !.balance = z]
    BY Zenon DEF Resume, Heap
  <2> HIDE DEF g
  <2> QED BY <1>1, <2>1, <2>2
<1> HIDE DEF g
<1>5. g \in Heap
  BY <1>2, <1>3, <1>4 DEF Heap
<1> QED BY <1>1, <1>5 DEF g
(* The condition under which tryWakeupThread lets a thread of its own go.  *)
MayGo(h, t) ==
  \/ h.tso[t].why = "MVar" /\ ~h.tso[t].link
  \/ h.tso[t].why = "MsgThrowTo" /\ h.msg[h.tso[t].info].info = "null"
  \/ h.tso[t].why = "Migrating"

(* What the source of a throwTo is told when it wakes.                     *)
OnlyTold(h, g, t, m) ==
  /\ g.msg[m].info = h.msg[m].info /\ g.msg[m].locker = h.msg[m].locker
  /\ g.msg[m].source = h.msg[m].source /\ g.msg[m].target = h.msg[m].target
  /\ g.msg[m].raised = h.msg[m].raised
  /\ \/ g.msg[m].told = h.msg[m].told
     \/ /\ h.tso[t].why = "MsgThrowTo" /\ h.tso[t].info = m
        /\ h.msg[m].info = "null" /\ g.msg[m].told = "returned"

(* ... and what the wake-up of such a thread keeps.                        *)
LEMMA AwakeInv ==
  ASSUME NEW h, NEW b, NEW p, NEW ct, NEW cm, NEW X, InvBut(h, b, p, ct, cm, X, {}),
         NEW t \in Threads, NEW g \in Heap, MayGo(h, t),
         \A d \in Capabilities : p[d] = "throw_mvar" => h.msg[cm[d]].target # t,
         \A u \in Threads \ {t} : g.tso[u] = h.tso[u],
         g.tso[t].why = "NotBlocked", g.tso[t].stack = "idle",
         g.tso[t].home = h.tso[t].home, g.tso[t].link = h.tso[t].link, g.tso[t].what = h.tso[t].what,
         g.tso[t].catch = h.tso[t].catch, g.tso[t].blocked = h.tso[t].blocked,
         g.mvar = h.mvar, g.inbox = h.inbox,
         \A m \in Messages : OnlyTold(h, g, t, m)
  PROVE  InvBut(g, b, p, ct, cm, X \ {t}, {})
<1> USE DEF OnlyTold
<1>1. TypeInv(h, b, p, ct, cm) /\ TypeInv(g, b, p, ct, cm)
  BY DEF InvBut, TypeInv
<1>2. TsoInv(h, t)
  BY DEF InvBut
<1>3. ~ h.tso[t].link
  BY Zenon, <1>2 DEF TsoInv, MayGo
<1>4. ASSUME NEW d \in Capabilities, p[d] = "pause" PROVE ct[d] # t
  <2>1. CapInv(h, p, ct, cm, d)
    BY DEF InvBut
  <2>2. \A m \in Messages : h.msg[m].locker = d => h.msg[m].info = "locked"
    BY ThreadsAssumption DEF InvBut, MsgInv
  <2> QED BY <1>2, <1>4, <2>1, <2>2 DEF CapInv, PauseOK, TsoInv, MayGo
<1>5. ASSUME NEW m \in Messages, h.msg[m].info # "null", NEW u, BlockedOn(h, u, m) PROVE BlockedOn(g, u, m)
  BY <1>5 DEF BlockedOn, MayGo
<1>6. \A x \in Threads : Dead(g, x) <=> Dead(h, x)
  BY DEF Dead
<1>7. \A u \in Threads : TsoInv(g, u)
  <2>1. TsoInv(g, t)
    BY Zenon, <1>2, <1>3 DEF TsoInv, MayGo
  <2>2. ASSUME NEW u \in Threads \ {t} PROVE TsoInv(g, u)
    <3>1. TsoInv(h, u)
      BY DEF InvBut
    <3>2. g.tso[u] = h.tso[u]
      OBVIOUS
    <3>3. h.tso[u].why = "MsgThrowTo" => g.msg[h.tso[u].info].told = "waiting"
      BY <1>2, <3>1 DEF TsoInv
    <3> QED BY <3>1, <3>2, <3>3 DEF TsoInv
  <2> QED BY <2>1, <2>2
<1>8. \A u \in Threads : HereInv(g, p, u)
  <2>1. \A u \in Threads : g.tso[u].blocked = h.tso[u].blocked /\ g.tso[u].home = h.tso[u].home
    OBVIOUS
  <2> QED BY <2>1 DEF InvBut, HereInv
<1>9. \A x : Sent(g, b, x) <=> Sent(h, b, x)
  BY DEF Sent
<1>10. ASSUME NEW u \in Threads \ (X \ {t}) PROVE WakeInv(g, b, u)
  <2>1. CASE u = t
    BY Zenon, <1>3, <2>1 DEF WakeInv
  <2>2. CASE u # t
    <3>1. WakeInv(h, b, u) /\ TsoInv(h, u) /\ g.tso[u] = h.tso[u]
      BY <2>2 DEF InvBut
    <3> QED BY <1>9, <3>1 DEF WakeInv, TsoInv
  <2> QED BY <2>1, <2>2
<1>11. ASSUME NEW m \in Messages PROVE MsgInv(g, p, ct, cm, m)
  <2>1. MsgInv(h, p, ct, cm, m)
    BY DEF InvBut
  <2>2. h.msg[m].info # "null" => \A u : BlockedOn(h, u, m) => BlockedOn(g, u, m)
    BY <1>5
  <2>3. h.msg[m].info # "free" => (Dead(g, h.msg[m].target) <=> Dead(h, h.msg[m].target))
    BY <1>6, <2>1 DEF MsgInv
  <2>4. CASE g.msg[m].told = h.msg[m].told
    BY <2>1, <2>2, <2>3, <2>4 DEF MsgInv
  <2>5. CASE /\ h.tso[t].why = "MsgThrowTo" /\ h.tso[t].info = m
             /\ h.msg[m].info = "null" /\ g.msg[m].told = "returned"
    <3>1. h.msg[m].told = "waiting"
      BY <1>2, <2>5 DEF TsoInv
    <3> QED BY <2>1, <2>3, <2>5, <3>1 DEF MsgInv
  <2> QED BY <2>4, <2>5
<1>12. ASSUME NEW m \in Messages PROVE PendInv(g, b, p, ct, cm, m)
  <2>1. MsgInv(h, p, ct, cm, m) /\ PendInv(h, b, p, ct, cm, m)
    BY DEF InvBut
  <2>2. \A u \in Threads : g.tso[u].blocked = h.tso[u].blocked /\ g.tso[u].what = h.tso[u].what
    OBVIOUS
  <2>3. h.msg[m].info # "free" => h.msg[m].target \in Threads
    BY <2>1 DEF MsgInv
  <2> QED BY <1>9, <2>1, <2>2, <2>3 DEF PendInv, InHands
<1>13. ASSUME NEW d \in Capabilities PROVE CapInv(g, p, ct, cm, d)
  <2>1. CapInv(h, p, ct, cm, d)
    BY DEF InvBut
  <2>2. ct[d] # None => ct[d] \in Threads
    BY <1>1 DEF TypeInv
  <2>3. \A u \in Threads : /\ g.tso[u].home = h.tso[u].home /\ g.tso[u].what = h.tso[u].what
                           /\ g.tso[u].blocked = h.tso[u].blocked
                           /\ h.tso[u].why = "NotBlocked" => g.tso[u].why = "NotBlocked"
                           /\ u # t => g.tso[u] = h.tso[u]
    OBVIOUS
  <2>4. ASSUME Throwing(p, d)
        PROVE  /\ ThrowOK(g, d, ct[d], cm[d]) /\ cm[d] \in Messages /\ h.msg[cm[d]].target \in Threads
               /\ g.msg[cm[d]].target = h.msg[cm[d]].target
    <3>1. ThrowOK(h, d, ct[d], cm[d])
      BY <2>1, <2>4 DEF CapInv
    <3>2. cm[d] \in Messages /\ h.msg[cm[d]].info = "locked"
      BY Zenon, <3>1 DEF ThrowOK
    <3>3. h.msg[cm[d]].target \in Threads
      BY Zenon, <3>2 DEF InvBut, MsgInv
    <3>4. \A u : BlockedOn(h, u, cm[d]) => BlockedOn(g, u, cm[d])
      BY <1>5, <3>2
    <3>5. /\ g.msg[cm[d]].info = h.msg[cm[d]].info /\ g.msg[cm[d]].locker = h.msg[cm[d]].locker
          /\ g.msg[cm[d]].source = h.msg[cm[d]].source /\ g.msg[cm[d]].target = h.msg[cm[d]].target
      BY <3>2
    <3>6. g.tso[h.msg[cm[d]].target].blocked = h.tso[h.msg[cm[d]].target].blocked
      BY Zenon, <2>3, <3>3
    <3>7. ct[d] # None => /\ h.tso[ct[d]].why = "NotBlocked" => g.tso[ct[d]].why = "NotBlocked"
                          /\ g.tso[ct[d]].what = h.tso[ct[d]].what
      BY Zenon, <2>2, <2>3
    <3> QED BY <3>1, <3>2, <3>3, <3>4, <3>5, <3>6, <3>7 DEF ThrowOK
  <2>5. ASSUME p[d] = "throw_mvar" PROVE WaiterOK(g, d, g.msg[cm[d]].target)
    <3>1. h.msg[cm[d]].target \in Threads \ {t} /\ g.msg[cm[d]].target = h.msg[cm[d]].target
      BY <2>4, <2>5 DEF Throwing
    <3>2. WaiterOK(h, d, h.msg[cm[d]].target)
      BY <2>1, <2>5 DEF CapInv
    <3> QED BY <2>3, <3>1, <3>2 DEF WaiterOK
  <2>6. ASSUME p[d] = "pause" PROVE PauseOK(g, d, ct[d])
    <3>1. PauseOK(h, d, ct[d]) /\ ct[d] \in Threads /\ g.tso[ct[d]] = h.tso[ct[d]]
      BY <1>4, <2>1, <2>2, <2>6 DEF CapInv
    <3> QED BY <3>1 DEF PauseOK
  <2> QED BY <2>1, <2>2, <2>3, <2>4, <2>5, <2>6 DEF CapInv
<1>14. ASSUME NEW mv \in MVars PROVE QueueInv(g, mv) /\ LockInv(g, p, ct, mv)
  <2>1. QueueInv(h, mv) /\ LockInv(h, p, ct, mv)
    BY DEF InvBut
  <2>2. \A u \in Threads : (Waits(g, u, mv) <=> Waits(h, u, mv)) /\ (Waits(h, u, mv) => u # t)
    BY <1>3 DEF Waits
  <2>3. QueueInv(g, mv)
    BY <1>1, <2>1, <2>2, QueueKept DEF TypeInv
  <2>4. h.mvar[mv].locker \in Capabilities \cup {None}
    BY <1>1 DEF TypeInv, Heap, MVar
  <2>5. ASSUME NEW d \in Capabilities, p[d] = "pause" PROVE ct[d] \in Threads /\ g.tso[ct[d]] = h.tso[ct[d]]
    <3>1. CapInv(h, p, ct, cm, d)
      BY DEF InvBut
    <3> QED BY <1>1, <1>4, <2>5, <3>1 DEF CapInv, TypeInv
  <2>6. LockInv(g, p, ct, mv)
    BY <2>1, <2>4, <2>5 DEF LockInv
  <2> QED BY <2>3, <2>6
<1> QED BY <1>1, <1>7, <1>8, <1>10, <1>11, <1>12, <1>13, <1>14 DEF InvBut
----------------------------------------------------------------------------
(* What a step leaves alone *)

Alike(h, g, t) ==
  /\ g.tso[t].home = h.tso[t].home /\ g.tso[t].why = h.tso[t].why /\ g.tso[t].info = h.tso[t].info
  /\ g.tso[t].link = h.tso[t].link /\ g.tso[t].what = h.tso[t].what
DeadKept(h, g) == \A t \in Threads : Dead(h, t) => Dead(g, t)
SameAt(p, ct, cm, p2, ct2, cm2, c) == p2[c] = p[c] /\ ct2[c] = ct[c] /\ cm2[c] = cm[c]

(* A Capability that a step leaves where it is, with its thread, its        *)
(* message and what it has locked.                                         *)
LEMMA CapKept ==
  ASSUME NEW h, NEW g, NEW p, NEW ct, NEW cm, NEW p2, NEW ct2, NEW cm2, NEW d \in Capabilities,
         CapInv(h, p, ct, cm, d), SameAt(p, ct, cm, p2, ct2, cm2, d),
         ct[d] # None => Alike(h, g, ct[d]),
         Throwing(p, d) =>
           /\ g.msg[cm[d]].info = h.msg[cm[d]].info /\ g.msg[cm[d]].locker = h.msg[cm[d]].locker
           /\ g.msg[cm[d]].source = h.msg[cm[d]].source /\ g.msg[cm[d]].target = h.msg[cm[d]].target
           /\ ct[d] = None => (BlockedOn(h, h.msg[cm[d]].source, cm[d]) => BlockedOn(g, h.msg[cm[d]].source, cm[d]))
           /\ ct[d] # None => (In(cm[d], g.tso[h.msg[cm[d]].target].blocked) => In(cm[d], h.tso[h.msg[cm[d]].target].blocked)),
         p[d] = "throw_mvar" => WaiterOK(g, d, h.msg[cm[d]].target),
         p[d] = "pause" => PauseOK(g, d, ct[d])
  PROVE  CapInv(g, p2, ct2, cm2, d)
<1>1. Throwing(p2, d) <=> Throwing(p, d)
  BY DEF Throwing, SameAt
<1>2. ASSUME Throwing(p, d) PROVE ThrowOK(g, d, ct[d], cm[d])
  <2>1. ThrowOK(h, d, ct[d], cm[d])
    BY <1>2 DEF CapInv
  <2>2. ct[d] # None => g.tso[ct[d]].why = h.tso[ct[d]].why /\ g.tso[ct[d]].what = h.tso[ct[d]].what
    BY DEF Alike
  <2> QED BY Zenon, <1>2, <2>1, <2>2 DEF ThrowOK
<1>3. p[d] = "throw_mvar" => WaiterOK(g, d, g.msg[cm[d]].target)
  BY Zenon DEF Throwing
<1>4. ct[d] # None => /\ g.tso[ct[d]].home = h.tso[ct[d]].home /\ g.tso[ct[d]].what = h.tso[ct[d]].what
                      /\ g.tso[ct[d]].why = h.tso[ct[d]].why
  BY Zenon DEF Alike
<1> QED BY Zenon, <1>1, <1>2, <1>3, <1>4 DEF CapInv, SameAt

(* A message that a step leaves alone.                                     *)
LEMMA MsgKept ==
  ASSUME NEW h, NEW g, NEW p, NEW ct, NEW cm, NEW p2, NEW ct2, NEW cm2, NEW m \in Messages,
         MsgInv(h, p, ct, cm, m), g.msg[m] = h.msg[m], DeadKept(h, g),
         h.msg[m].info \in {"throwto", "locked"} =>
           (BlockedOn(h, h.msg[m].source, m) => BlockedOn(g, h.msg[m].source, m)),
         h.msg[m].info = "locked" => SameAt(p, ct, cm, p2, ct2, cm2, h.msg[m].locker)
  PROVE  MsgInv(g, p2, ct2, cm2, m)
<1>1. h.msg[m].info # "free" => (Dead(h, h.msg[m].target) => Dead(g, h.msg[m].target))
  BY DEF MsgInv, DeadKept
<1>2. h.msg[m].info \in {"free", "locked", "throwto"} => h.msg[m].told = "waiting"
  BY DEF MsgInv
<1>3. h.msg[m].info = "locked" => (Throwing(p2, h.msg[m].locker) <=> Throwing(p, h.msg[m].locker))
  BY DEF SameAt, Throwing
<1> QED BY <1>1, <1>2, <1>3 DEF MsgInv, SameAt

(* A message that a step leaves in the hands it was in.                    *)
LEMMA PendKept ==
  ASSUME NEW h, NEW g, NEW b, NEW b2, NEW p, NEW ct, NEW cm, NEW p2, NEW ct2, NEW cm2, NEW m \in Messages,
         PendInv(h, b, p, ct, cm, m), MsgInv(h, p, ct, cm, m),
         g.msg[m].info = h.msg[m].info, g.msg[m].target = h.msg[m].target,
         h.msg[m].info \in {"locked", "throwto"} =>
           /\ Sent(h, b, ThrowTo(m)) => Sent(g, b2, ThrowTo(m))
           /\ \A c \in Capabilities : cm[c] = m => cm2[c] = m
           /\ \A u \in Threads :
                /\ In(m, h.tso[u].blocked) => In(m, g.tso[u].blocked)
                /\ In(m, h.tso[u].blocked) /\ g.tso[u].what = "finished" =>
                     \/ h.tso[u].what = "finished" /\ \A c \in Capabilities :
                          p[c] = "finish" /\ ct[c] = u => p2[c] = "finish" /\ ct2[c] = u
                     \/ \E c \in Capabilities : p2[c] = "finish" /\ ct2[c] = u
  PROVE  PendInv(g, b2, p2, ct2, cm2, m)
<1>1. SUFFICES ASSUME h.msg[m].info \in {"locked", "throwto"} PROVE InHands(g, b2, p2, ct2, cm2, m)
  BY DEF PendInv
<1>2. h.msg[m].target \in Threads
  BY <1>1 DEF MsgInv
<1>3. InHands(h, b, p, ct, cm, m)
  BY <1>1 DEF PendInv
<1>4. CASE Sent(h, b, ThrowTo(m)) \/ \E c \in Capabilities : cm[c] = m
  BY <1>1, <1>4 DEF InHands
<1>5. CASE In(m, h.tso[h.msg[m].target].blocked) /\
           (h.tso[h.msg[m].target].what = "finished" => \E c \in Capabilities : p[c] = "finish" /\ ct[c] = h.msg[m].target)
  <2>1. In(m, g.tso[h.msg[m].target].blocked)
    BY Zenon, <1>1, <1>2, <1>5
  <2>2. ASSUME g.tso[h.msg[m].target].what = "finished"
        PROVE  \E c \in Capabilities : p2[c] = "finish" /\ ct2[c] = h.msg[m].target
    BY Zenon, <1>1, <1>2, <1>5, <2>2
  <2> QED BY <2>1, <2>2 DEF InHands
<1> QED BY Zenon, <1>3, <1>4, <1>5 DEF InHands

(* A thread that a step leaves where it was, or only masks or runs.        *)
LEMMA TsoKept ==
  ASSUME NEW h, NEW g, NEW t \in Threads, TsoInv(h, t), Alike(h, g, t),
         g.tso[t].stack = h.tso[t].stack, g.tso[t].catch = h.tso[t].catch,
         h.tso[t].why = "MsgThrowTo" /\ h.tso[t].info \in Messages => LET m == h.tso[t].info IN
           /\ g.msg[m].source = h.msg[m].source /\ g.msg[m].told = h.msg[m].told
           /\ g.msg[m].info \in {"locked", "throwto", "null"},
         \A m \in Messages : In(m, g.tso[t].blocked) =>
           g.msg[m].info \notin {"free", "done"} /\ g.msg[m].target = t
  PROVE  TsoInv(g, t)
  BY Zenon DEF TsoInv, Alike
(* One thread of the heap replaced.                                        *)
LEMMA PutTso ==
  ASSUME NEW h \in Heap, NEW t \in Threads, NEW u \in Tso
  PROVE  LET g == [h EXCEPT !.tso[t] = u] IN
         /\ g \in Heap /\ g.tso = [h.tso EXCEPT ![t] = u] /\ g.tso[t] = u
         /\ \A v \in Threads \ {t} : g.tso[v] = h.tso[v]
         /\ g.msg = h.msg /\ g.mvar = h.mvar /\ g.inbox = h.inbox /\ g.balance = h.balance
  BY DEF Heap

LEMMA PutMsg ==
  ASSUME NEW h \in Heap, NEW m \in Messages, NEW x \in Msg
  PROVE  LET g == [h EXCEPT !.msg[m] = x] IN
         /\ g \in Heap /\ g.msg = [h.msg EXCEPT ![m] = x] /\ g.msg[m] = x
         /\ \A n \in Messages \ {m} : g.msg[n] = h.msg[n]
         /\ g.tso = h.tso /\ g.mvar = h.mvar /\ g.inbox = h.inbox /\ g.balance = h.balance
  BY DEF Heap

LEMMA PutMVar_ ==
  ASSUME NEW h \in Heap, NEW mv \in MVars, NEW v \in MVar
  PROVE  LET g == [h EXCEPT !.mvar[mv] = v] IN
         /\ g \in Heap /\ g.mvar = [h.mvar EXCEPT ![mv] = v] /\ g.mvar[mv] = v
         /\ \A n \in MVars \ {mv} : g.mvar[n] = h.mvar[n]
         /\ g.tso = h.tso /\ g.msg = h.msg /\ g.inbox = h.inbox /\ g.balance = h.balance
  BY DEF Heap

LEMMA PutBalance ==
  ASSUME NEW h \in Heap, NEW z \in Int
  PROVE  LET g == [h EXCEPT !.balance = z] IN
         /\ g \in Heap /\ g.balance = z
         /\ g.tso = h.tso /\ g.msg = h.msg /\ g.inbox = h.inbox /\ g.mvar = h.mvar
  BY DEF Heap

LEMMA TypedParts ==
  ASSUME NEW h \in Heap
  PROVE  /\ \A t \in Threads : h.tso[t] \in Tso
         /\ \A m \in Messages : h.msg[m] \in Msg
         /\ \A mv \in MVars : h.mvar[mv] \in MVar
         /\ \A c \in Capabilities : h.inbox[c] \in Seq(Mail)
         /\ h.balance \in Int
  BY DEF Heap

(* tryWakeupThread wakes whoever may go, or sends the wake-up on.           *)
LEMMA TryWakeupInv ==
  ASSUME NEW h, NEW b, NEW p, NEW ct, NEW cm, NEW X, InvBut(h, b, p, ct, cm, X, {}),
         NEW c \in Capabilities, NEW t \in Threads,
         \A d \in Capabilities : h.tso[t].home = c /\ p[d] = "throw_mvar" => h.msg[cm[d]].target # t
  PROVE  InvBut(TryWakeup(h, c, t), b, p, ct, cm, X \ {t}, {})
<1>1. h \in Heap /\ h.tso[t] \in Tso
  BY TypedParts DEF InvBut, TypeInv
<1>2. CASE h.tso[t].home # c
  <2>1. h.tso[t].home \in Capabilities /\ Wakeup(t) \in Mail
    BY <1>1, MailIn DEF Tso
  <2>2. InvBut(SendMessage(h, h.tso[t].home, Wakeup(t)), b, p, ct, cm, X \ {t}, {})
    BY <2>1, SendInv
  <2>3. TryWakeup(h, c, t) = SendMessage(h, h.tso[t].home, Wakeup(t))
    BY <1>2 DEF TryWakeup
  <2> QED BY <2>2, <2>3
<1>3. CASE h.tso[t].home = c /\ h.tso[t].why = "MVar" /\ ~h.tso[t].link
  <2> DEFINE f == [h EXCEPT !.tso[t].info = None]
             g == Resume(f, t)
  <2>1. [h.tso[t] EXCEPT !.info = None] \in Tso
    BY <1>1 DEF Tso
  <2>2. f = [h EXCEPT !.tso[t] = [h.tso[t] EXCEPT !.info = None]]
    OBVIOUS
  <2>3. /\ f \in Heap /\ f.tso[t] = [h.tso[t] EXCEPT !.info = None]
        /\ \A v \in Threads \ {t} : f.tso[v] = h.tso[v]
        /\ f.msg = h.msg /\ f.mvar = h.mvar /\ f.inbox = h.inbox
    BY <1>1, <2>1, <2>2, PutTso
  <2> HIDE DEF f
  <2>4. /\ g \in Heap /\ g.msg = h.msg /\ g.mvar = h.mvar /\ g.inbox = h.inbox
        /\ g.tso = [f.tso EXCEPT ![t] = [f.tso[t] EXCEPT !.why = "NotBlocked", !.stack = "idle"]]
    BY Zenon, <2>3, ResumeEffect
  <2>5. /\ g.tso[t] = [f.tso[t] EXCEPT !.why = "NotBlocked", !.stack = "idle"]
        /\ \A v \in Threads \ {t} : g.tso[v] = h.tso[v]
    BY <2>3, <2>4 DEF Heap
  <2> HIDE DEF g
  <2>6. /\ g.tso[t].why = "NotBlocked" /\ g.tso[t].stack = "idle" /\ g.tso[t].home = h.tso[t].home
        /\ g.tso[t].link = h.tso[t].link /\ g.tso[t].what = h.tso[t].what
        /\ g.tso[t].catch = h.tso[t].catch /\ g.tso[t].blocked = h.tso[t].blocked
    BY <1>1, <2>3, <2>5 DEF Tso
  <2>7. MayGo(h, t) /\ \A d \in Capabilities : p[d] = "throw_mvar" => h.msg[cm[d]].target # t
    BY <1>3 DEF MayGo
  <2>10. \A m \in Messages : OnlyTold(h, g, t, m)
    BY <2>4 DEF OnlyTold
  <2>8. InvBut(g, b, p, ct, cm, X \ {t}, {})
    BY Zenon, <2>4, <2>5, <2>6, <2>7, <2>10, AwakeInv
  <2>9. TryWakeup(h, c, t) = g
    BY <1>3 DEF TryWakeup, f, g
  <2> QED BY <2>8, <2>9
<1>4. CASE h.tso[t].home = c /\ h.tso[t].why = "MsgThrowTo" /\ h.msg[h.tso[t].info].info = "null"
  <2> DEFINE m == h.tso[t].info
             f == Resume(h, t)
             g == Returned(f, m)
  <2>1. m \in Messages
    BY Zenon, <1>4 DEF InvBut, TsoInv
  <2> HIDE DEF m
  <2>2. /\ f \in Heap /\ f.msg = h.msg /\ f.mvar = h.mvar /\ f.inbox = h.inbox
        /\ f.tso = [h.tso EXCEPT ![t] = [h.tso[t] EXCEPT !.why = "NotBlocked", !.stack = "idle"]]
    BY Zenon, <1>1, ResumeEffect
  <2>3. /\ f.tso[t] = [h.tso[t] EXCEPT !.why = "NotBlocked", !.stack = "idle"]
        /\ \A v \in Threads \ {t} : f.tso[v] = h.tso[v]
    BY <1>1, <2>2 DEF Heap
  <2> HIDE DEF f
  <2>4. h.msg[m] \in Msg /\ f.msg[m] = h.msg[m]
    BY <1>1, <2>1, <2>2, TypedParts
  <2>5. [h.msg[m] EXCEPT !.told = "returned"] \in Msg
    BY <2>4 DEF Msg
  <2>6. g = [f EXCEPT !.msg[m] = [h.msg[m] EXCEPT !.told = "returned"]]
    BY <2>4 DEF Returned
  <2>7. /\ g \in Heap /\ g.msg[m] = [h.msg[m] EXCEPT !.told = "returned"]
        /\ \A n \in Messages \ {m} : g.msg[n] = h.msg[n]
        /\ g.tso = f.tso /\ g.mvar = h.mvar /\ g.inbox = h.inbox
    BY <2>1, <2>2, <2>5, <2>6, PutMsg
  <2> HIDE DEF g
  <2>8. /\ g.tso[t].why = "NotBlocked" /\ g.tso[t].stack = "idle" /\ g.tso[t].home = h.tso[t].home
        /\ g.tso[t].link = h.tso[t].link /\ g.tso[t].what = h.tso[t].what
        /\ g.tso[t].catch = h.tso[t].catch /\ g.tso[t].blocked = h.tso[t].blocked
    <3>1. g.tso[t] = [h.tso[t] EXCEPT !.why = "NotBlocked", !.stack = "idle"]
      BY <2>3, <2>7
    <3> QED BY <1>1, <3>1 DEF Tso
  <2>14. \A v \in Threads \ {t} : g.tso[v] = h.tso[v]
    BY <2>3, <2>7
  <2>9. /\ g.msg[m].info = h.msg[m].info /\ g.msg[m].locker = h.msg[m].locker
        /\ g.msg[m].source = h.msg[m].source /\ g.msg[m].target = h.msg[m].target
        /\ g.msg[m].raised = h.msg[m].raised /\ g.msg[m].told = "returned"
    BY <2>4, <2>7 DEF Msg
  <2>10. MayGo(h, t) /\ h.tso[t].info = m /\ h.msg[m].info = "null" /\ h.tso[t].why = "MsgThrowTo"
    BY <1>4 DEF MayGo, m
  <2>11. ASSUME NEW n \in Messages
         PROVE  OnlyTold(h, g, t, n)
    BY <2>7, <2>9, <2>10 DEF OnlyTold
  <2>12. InvBut(g, b, p, ct, cm, X \ {t}, {})
    <3>1. \A d \in Capabilities : p[d] = "throw_mvar" => h.msg[cm[d]].target # t
      BY <1>4
    <3>2. MayGo(h, t) /\ g \in Heap /\ g.mvar = h.mvar /\ g.inbox = h.inbox
      BY <2>7, <2>10
    <3> QED BY Zenon, <2>8, <2>11, <2>14, <3>1, <3>2, AwakeInv
  <2>13. TryWakeup(h, c, t) = g
    BY <1>4 DEF TryWakeup, f, g, m
  <2> QED BY <2>12, <2>13
<1>5. CASE h.tso[t].home = c /\ h.tso[t].why = "Migrating"
  <2> DEFINE u == [h.tso[t] EXCEPT !.why = "NotBlocked"]
             g == [h EXCEPT !.tso[t] = u]
  <2>1. u \in Tso /\ u.why = "NotBlocked" /\ u.home = h.tso[t].home /\ u.link = h.tso[t].link
        /\ u.what = h.tso[t].what /\ u.catch = h.tso[t].catch /\ u.blocked = h.tso[t].blocked
        /\ u.stack = h.tso[t].stack
    BY <1>1 DEF Tso
  <2>2. h.tso[t].stack = "idle"
    BY Zenon, <1>5 DEF InvBut, TsoInv
  <2> HIDE DEF u
  <2>3. /\ g \in Heap /\ g.tso[t] = u /\ \A v \in Threads \ {t} : g.tso[v] = h.tso[v]
        /\ g.msg = h.msg /\ g.mvar = h.mvar /\ g.inbox = h.inbox
    BY <1>1, <2>1, PutTso
  <2> HIDE DEF g
  <2>4. InvBut(g, b, p, ct, cm, X \ {t}, {})
    <3>1. MayGo(h, t) /\ \A d \in Capabilities : p[d] = "throw_mvar" => h.msg[cm[d]].target # t
      BY <1>5 DEF MayGo
    <3>2. \A m \in Messages : OnlyTold(h, g, t, m)
      BY <2>3 DEF OnlyTold
    <3> QED BY <2>1, <2>2, <2>3, <3>1, <3>2, AwakeInv
  <2>5. TryWakeup(h, c, t) = g
    BY <1>5 DEF TryWakeup, g, u
  <2> QED BY <2>4, <2>5
<1>6. CASE h.tso[t].home = c /\ ~ MayGo(h, t)
  <2>1. WakeInv(h, b, t)
    BY <1>6 DEF WakeInv, MayGo
  <2>2. TryWakeup(h, c, t) = h
    BY Zenon, <1>6 DEF TryWakeup, MayGo
  <2>3. InvBut(h, b, p, ct, cm, X \ {t}, {})
    BY <2>1 DEF InvBut
  <2> QED BY <2>2, <2>3
<1> QED BY <1>2, <1>3, <1>4, <1>5, <1>6 DEF MayGo
----------------------------------------------------------------------------
(* Messages change hands *)

Headers == {"free", "locked", "throwto", "null", "done"}

LEMMA UnlockEffect ==
  ASSUME NEW h \in Heap, NEW m \in Messages, NEW how, how \in Headers
  PROVE  LET g == UnlockMsg(h, m, how) IN
         /\ g \in Heap /\ g.tso = h.tso /\ g.mvar = h.mvar /\ g.inbox = h.inbox /\ g.balance = h.balance
         /\ \A n \in Messages \ {m} : g.msg[n] = h.msg[n]
         /\ g.msg[m].info = how /\ g.msg[m].locker = None
         /\ g.msg[m].source = h.msg[m].source /\ g.msg[m].target = h.msg[m].target
         /\ g.msg[m].raised = h.msg[m].raised /\ g.msg[m].told = h.msg[m].told
<1> DEFINE x == [h.msg[m] EXCEPT !.info = how, !.locker = None]
           g == [h EXCEPT !.msg[m] = x]
<1>1. h.msg[m] \in Msg
  BY TypedParts
<1>2. x \in Msg /\ x.info = how /\ x.locker = None /\ x.source = h.msg[m].source /\ x.target = h.msg[m].target
      /\ x.raised = h.msg[m].raised /\ x.told = h.msg[m].told
  BY Zenon, <1>1 DEF Msg, Headers
<1>3. UnlockMsg(h, m, how) = g
  BY DEF UnlockMsg, Heap
<1> HIDE DEF x
<1>4. /\ g \in Heap /\ g.msg[m] = x /\ \A n \in Messages \ {m} : g.msg[n] = h.msg[n]
      /\ g.tso = h.tso /\ g.mvar = h.mvar /\ g.inbox = h.inbox /\ g.balance = h.balance
  BY <1>2, PutMsg
<1> HIDE DEF g
<1> QED BY <1>2, <1>3, <1>4

(* unlockClosure of a message, with whatever header it gets.               *)
LEMMA UnlockMsgInv ==
  ASSUME NEW h, NEW b, NEW p, NEW ct, NEW cm, NEW X, NEW Y, NEW m \in Messages,
         InvBut(h, b, p, ct, cm, X, {m}), X \subseteq Y, NEW how \in {"throwto", "null", "done"},
         MsgInv(UnlockMsg(h, m, how), p, ct, cm, m), PendInv(UnlockMsg(h, m, how), b, p, ct, cm, m),
         \A t \in Threads : BlockedOn(h, t, m) => how \in {"throwto", "null"} /\ (how = "null" => t \in Y),
         how = "done" => \A t \in Threads : ~ In(m, h.tso[t].blocked),
         \A d \in Capabilities : Throwing(p, d) => cm[d] # m,
         \A d \in Capabilities : p[d] = "pause" /\ h.tso[ct[d]].info = m
                                    => how = "null" /\ h.tso[ct[d]].why # "MsgThrowTo"
  PROVE  InvBut(UnlockMsg(h, m, how), b, p, ct, cm, Y, {})
<1> DEFINE g == UnlockMsg(h, m, how)
<1>1. h \in Heap /\ TypeInv(h, b, p, ct, cm)
  BY DEF InvBut, TypeInv
<1>2. /\ g \in Heap /\ g.tso = h.tso /\ g.mvar = h.mvar /\ g.inbox = h.inbox
      /\ \A n \in Messages \ {m} : g.msg[n] = h.msg[n]
      /\ g.msg[m].info = how /\ g.msg[m].locker = None
      /\ g.msg[m].source = h.msg[m].source /\ g.msg[m].target = h.msg[m].target
      /\ g.msg[m].raised = h.msg[m].raised /\ g.msg[m].told = h.msg[m].told
  <2>1. how \in Headers
    BY DEF Headers
  <2> QED BY <1>1, <2>1, UnlockEffect
<1>3. MsgInv(g, p, ct, cm, m) /\ PendInv(g, b, p, ct, cm, m)
  OBVIOUS
<1> HIDE DEF g
<1>4. TypeInv(g, b, p, ct, cm)
  BY <1>1, <1>2 DEF TypeInv
<1>5. /\ \A x : BlockedOn(g, x, m) <=> BlockedOn(h, x, m)
      /\ \A t, n : BlockedOn(g, t, n) <=> BlockedOn(h, t, n)
      /\ \A t : Dead(g, t) <=> Dead(h, t)
      /\ \A x : Sent(g, b, x) <=> Sent(h, b, x)
      /\ \A t : Alike(h, g, t)
  BY <1>2 DEF BlockedOn, Dead, Sent, Alike
<1>6. ASSUME NEW t \in Threads PROVE TsoInv(g, t)
  <2>1. TsoInv(h, t)
    BY DEF InvBut
  <2>2. ASSUME h.tso[t].why = "MsgThrowTo", h.tso[t].info \in Messages
        PROVE  LET n == h.tso[t].info IN
               /\ g.msg[n].source = h.msg[n].source /\ g.msg[n].told = h.msg[n].told
               /\ g.msg[n].info \in {"locked", "throwto", "null"}
    BY <1>2, <2>1, <2>2 DEF TsoInv, BlockedOn
  <2>3. ASSUME NEW n \in Messages, In(n, g.tso[t].blocked)
        PROVE  g.msg[n].info \notin {"free", "done"} /\ g.msg[n].target = t
    BY <1>2, <2>1, <2>3 DEF TsoInv
  <2> QED BY <1>2, <1>5, <2>1, <2>2, <2>3, TsoKept
<1>7. ASSUME NEW t \in Threads PROVE HereInv(g, p, t)
  <2>1. HereInv(h, p, t)
    BY DEF InvBut
  <2> QED BY <1>2, <2>1 DEF HereInv
<1>8. ASSUME NEW t \in Threads \ Y PROVE WakeInv(g, b, t)
  <2>1. WakeInv(h, b, t) /\ TsoInv(h, t)
    BY DEF InvBut
  <2> QED BY <1>2, <1>5, <2>1 DEF WakeInv, TsoInv, BlockedOn
<1>9. ASSUME NEW n \in Messages PROVE MsgInv(g, p, ct, cm, n) /\ PendInv(g, b, p, ct, cm, n)
  <2>1. CASE n = m
    BY <1>3, <2>1
  <2>2. CASE n # m
    <3>1. MsgInv(h, p, ct, cm, n) /\ PendInv(h, b, p, ct, cm, n) /\ g.msg[n] = h.msg[n]
      BY <1>2, <2>2 DEF InvBut
    <3>2. MsgInv(g, p, ct, cm, n)
      BY <1>5, <3>1, MsgKept DEF DeadKept, SameAt
    <3>3. PendInv(g, b, p, ct, cm, n)
      BY <1>2, <1>5, <3>1 DEF PendInv, InHands
    <3> QED BY <3>2, <3>3
  <2> QED BY <2>1, <2>2
<1>10. ASSUME NEW d \in Capabilities PROVE CapInv(g, p, ct, cm, d)
  <2>1. CapInv(h, p, ct, cm, d)
    BY DEF InvBut
  <2>2. Throwing(p, d) => cm[d] \in Messages \ {m} /\ g.msg[cm[d]] = h.msg[cm[d]]
    BY Zenon, <1>2, <2>1 DEF CapInv, ThrowOK
  <2>3. p[d] = "throw_mvar" => WaiterOK(g, d, h.msg[cm[d]].target)
    BY Zenon, <1>2, <2>1 DEF CapInv, WaiterOK
  <2>4. p[d] = "pause" => PauseOK(g, d, ct[d])
    BY <1>2, <2>1 DEF CapInv, PauseOK
  <2>5. SameAt(p, ct, cm, p, ct, cm, d)
    BY DEF SameAt
  <2> QED BY <1>2, <1>5, <2>1, <2>2, <2>3, <2>4, <2>5, CapKept
<1>11. ASSUME NEW mv \in MVars PROVE QueueInv(g, mv) /\ LockInv(g, p, ct, mv)
  <2>1. QueueInv(h, mv) /\ LockInv(h, p, ct, mv)
    BY DEF InvBut
  <2>2. \A t \in Threads : Waits(g, t, mv) <=> Waits(h, t, mv)
    BY <1>2 DEF Waits
  <2>3. QueueInv(g, mv)
    BY <1>1, <1>2, <2>1, <2>2, QueueKept
  <2> QED BY Zenon, <1>2, <2>1, <2>3 DEF LockInv
<1> QED BY <1>4, <1>6, <1>7, <1>8, <1>9, <1>10, <1>11 DEF InvBut, g

(* A message that has been dealt with.                                     *)
LEMMA RetireInv ==
  ASSUME NEW h, NEW b, NEW p, NEW ct, NEW cm, NEW X, NEW m \in Messages, InvBut(h, b, p, ct, cm, X, {m}),
         h.msg[m].source \in Threads, h.msg[m].target \in Threads, h.msg[m].source # h.msg[m].target,
         h.msg[m].told # "interrupted", h.msg[m].raised <= 1, h.msg[m].raised = 1 \/ Dead(h, h.msg[m].target),
         NEW how \in {"null", "done"},
         how = "done" => \A t \in Threads : ~ In(m, h.tso[t].blocked) /\ ~ BlockedOn(h, t, m),
         \A d \in Capabilities : Throwing(p, d) => cm[d] # m,
         \A d \in Capabilities : p[d] = "pause" => h.tso[ct[d]].info # m
  PROVE  InvBut(UnlockMsg(h, m, how), b, p, ct, cm, X \cup {h.msg[m].source}, {})
<1> DEFINE g == UnlockMsg(h, m, how)
<1>1. h \in Heap /\ how \in Headers
  BY DEF InvBut, TypeInv, Headers
<1>2. /\ g.tso = h.tso /\ g.msg[m].info = how /\ g.msg[m].locker = None
      /\ g.msg[m].source = h.msg[m].source /\ g.msg[m].target = h.msg[m].target
      /\ g.msg[m].raised = h.msg[m].raised /\ g.msg[m].told = h.msg[m].told
  BY <1>1, UnlockEffect
<1> HIDE DEF g
<1>3. Dead(g, h.msg[m].target) <=> Dead(h, h.msg[m].target)
  BY <1>2 DEF Dead
<1>4. MsgInv(g, p, ct, cm, m) /\ PendInv(g, b, p, ct, cm, m)
  BY <1>2, <1>3 DEF MsgInv, PendInv
<1>5. \A t \in Threads : BlockedOn(h, t, m) => t = h.msg[m].source
  BY DEF InvBut, TsoInv, BlockedOn
<1>6. \A t \in Threads : BlockedOn(h, t, m) =>
        how \in {"throwto", "null"} /\ (how = "null" => t \in X \cup {h.msg[m].source})
  BY <1>5
<1>7. how \in {"throwto", "null", "done"} /\ X \subseteq X \cup {h.msg[m].source}
  OBVIOUS
<1> QED BY Zenon, <1>4, <1>6, <1>7, UnlockMsgInv DEF g

----------------------------------------------------------------------------
(* Queues of MVars *)

(* A queue without one of its threads.                                     *)
Queued(q, t) == \E i \in Live(q) : q[i].tso = t
Without(q, r, t) ==
  /\ \A u \in Threads : Queued(r, u) <=> u # t /\ Queued(q, u)
  /\ \A i, j \in Live(r) : r[i].tso = r[j].tso => i = j

LEMMA QueueWithout ==
  ASSUME NEW h \in Heap, NEW g \in Heap, NEW mv \in MVars, NEW t \in Threads, QueueInv(h, mv),
         Without(h.mvar[mv].queue, g.mvar[mv].queue, t), g.mvar[mv].full = h.mvar[mv].full,
         ~ Waits(g, t, mv),
         \A u \in Threads \ {t} : (Waits(g, u, mv) <=> Waits(h, u, mv)) /\ g.tso[u].stack = h.tso[u].stack
  PROVE  QueueInv(g, mv)
<1> DEFINE q == h.mvar[mv].queue
           r == g.mvar[mv].queue
<1>1. (\A i \in Live(q) : q[i].tso \in Threads) /\ (\A i \in Live(r) : r[i].tso \in Threads)
  BY QueueType
<1>2. Lacks(g.mvar[mv]) = Lacks(h.mvar[mv])
  BY DEF Lacks
<1>3. ASSUME NEW i \in Live(r)
      PROVE  Waits(g, r[i].tso, mv) /\ g.tso[r[i].tso].stack = Lacks(g.mvar[mv])
  <2>1. Queued(r, r[i].tso) /\ r[i].tso \in Threads
    BY <1>1 DEF Queued
  <2>2. Queued(q, r[i].tso) /\ r[i].tso # t
    BY Zenon, <2>1 DEF Without
  <2>3. PICK j \in Live(q) : q[j].tso = r[i].tso
    BY Zenon, <2>2 DEF Queued
  <2>4. \A k \in Live(q) : Waits(h, q[k].tso, mv) /\ h.tso[q[k].tso].stack = Lacks(h.mvar[mv])
    BY Zenon DEF QueueInv
  <2>5. Waits(h, r[i].tso, mv) /\ h.tso[r[i].tso].stack = Lacks(h.mvar[mv])
    BY Zenon, <2>3, <2>4
  <2> QED BY Zenon, <1>2, <2>1, <2>2, <2>5
<1>4. \A i, j \in Live(r) : r[i].tso = r[j].tso => i = j
  BY DEF Without
<1>5. ASSUME NEW u \in Threads, Waits(g, u, mv) PROVE \E i \in Live(r) : r[i].tso = u
  <2>1. u # t /\ Waits(h, u, mv)
    BY <1>5
  <2>2. Queued(q, u)
    BY Zenon, <2>1 DEF QueueInv, Queued
  <2>3. Queued(r, u)
    BY <2>1, <2>2 DEF Without
  <2> QED BY <2>3 DEF Queued
<1> QED BY Zenon, <1>3, <1>4, <1>5 DEF QueueInv

(* A queue that loses its first entries, the last of them the only live one. *)
LEMMA DropFirst ==
  ASSUME NEW q \in Seq(Entry), NEW k \in Live(q), \A j \in Live(q) : k <= j,
         \A i, j \in Live(q) : q[i].tso = q[j].tso => i = j
  PROVE  SubSeq(q, k + 1, Len(q)) \in Seq(Entry) /\ Without(q, SubSeq(q, k + 1, Len(q)), q[k].tso)
<1> DEFINE r == SubSeq(q, k + 1, Len(q))
<1>1. Len(q) \in Nat /\ DOMAIN q = 1..Len(q) /\ k \in 1..Len(q) /\ \A i \in 1..Len(q) : q[i] \in Entry
  BY ElementOfSeq DEF Live
<1>2. r \in Seq(Entry) /\ Len(r) = Len(q) - k /\ \A i \in 1..(Len(q) - k) : r[i] = q[i + k]
  <2>1. /\ k + 1 \in 1..(Len(q) + 1) /\ Len(q) \in 0..Len(q)
    BY <1>1
  <2>2. /\ r \in Seq(Entry)
        /\ Len(r) = IF k + 1 <= Len(q) THEN Len(q) - (k + 1) + 1 ELSE 0
        /\ \A i \in 1..(Len(q) - (k + 1) + 1) : r[i] = q[(k + 1) + i - 1]
    BY <1>1, <2>1, SubSeqProperties
  <2>3. Len(r) = Len(q) - k /\ Len(q) - (k + 1) + 1 = Len(q) - k
    <3> HIDE DEF r
    <3>0. k \in Nat /\ k <= Len(q) /\ Len(q) \in Nat
      BY <1>1
    <3>1. Len(q) - (k + 1) + 1 = Len(q) - k
      BY <3>0
    <3>2. ~ (k + 1 <= Len(q)) => Len(q) - k = 0
      BY <3>0
    <3> QED BY <2>2, <3>1, <3>2
  <2>4. \A i \in 1..(Len(q) - k) : (k + 1) + i - 1 = i + k
    BY <1>1
  <2> HIDE DEF r
  <2> QED BY <2>2, <2>3, <2>4
<1> HIDE DEF r
<1>3. DOMAIN r = 1..(Len(q) - k)
  BY <1>1, <1>2
<1>4. \A i \in 1..(Len(q) - k) : i \in Live(r) <=> i + k \in Live(q)
  BY <1>1, <1>2, <1>3 DEF Live
<1>5. ASSUME NEW i \in Live(r) PROVE i \in 1..(Len(q) - k) /\ i + k \in Live(q) /\ r[i] = q[i + k] /\ i + k # k
  BY <1>1, <1>2, <1>3, <1>4 DEF Live
<1>6. ASSUME NEW u \in Threads, Queued(r, u) PROVE u # q[k].tso /\ Queued(q, u)
  <2>1. PICK i \in Live(r) : r[i].tso = u
    BY <1>6 DEF Queued
  <2> QED BY <1>5, <2>1 DEF Queued
<1>7. ASSUME NEW u \in Threads, u # q[k].tso, Queued(q, u) PROVE Queued(r, u)
  <2>1. PICK j \in Live(q) : q[j].tso = u
    BY <1>7 DEF Queued
  <2>2. j \in 1..Len(q) /\ j # k /\ k <= j
    BY <1>1, <1>7, <2>1 DEF Live
  <2>3. j - k \in 1..(Len(q) - k) /\ (j - k) + k = j
    BY <1>1, <2>2
  <2> QED BY <1>2, <1>4, <2>1, <2>3 DEF Queued
<1>8. ASSUME NEW i \in Live(r), NEW j \in Live(r), r[i].tso = r[j].tso PROVE i = j
  <2>1. i + k = j + k
    BY <1>5, <1>8
  <2> QED BY <1>1, <1>5, <2>1
<1> QED BY <1>2, <1>6, <1>7, <1>8 DEF Without, r

(* An entry that is marked where it is.                                    *)
LEMMA MarkEntry ==
  ASSUME NEW q \in Seq(Entry), NEW k \in Live(q), NEW mark \in {"ind", "null"},
         \A i, j \in Live(q) : q[i].tso = q[j].tso => i = j
  PROVE  [q EXCEPT ![k].info = mark] \in Seq(Entry) /\ Without(q, [q EXCEPT ![k].info = mark], q[k].tso)
<1> DEFINE r == [q EXCEPT ![k].info = mark]
<1>1. Len(q) \in Nat /\ DOMAIN q = 1..Len(q) /\ k \in 1..Len(q) /\ \A i \in 1..Len(q) : q[i] \in Entry
  BY ElementOfSeq DEF Live
<1>2. q[k] \in Entry
  BY <1>1
<1>3. [q[k] EXCEPT !.info = mark] \in Entry /\ [q[k] EXCEPT !.info = mark].info = mark
  BY <1>2 DEF Entry
<1>4. r = [q EXCEPT ![k] = [q[k] EXCEPT !.info = mark]]
  OBVIOUS
<1>5. r \in Seq(Entry) /\ DOMAIN r = DOMAIN q /\ r[k].info = mark /\ \A i \in DOMAIN q \ {k} : r[i] = q[i]
  BY <1>1, <1>3, <1>4, ExceptSeq
<1> HIDE DEF r
<1>6. Live(r) = Live(q) \ {k} /\ \A i \in Live(r) : r[i] = q[i]
  BY <1>5 DEF Live
<1> QED BY Zenon, <1>5, <1>6 DEF Without, Queued, r
(* removeFromMVarBlockedQueue takes the thread out of the queue of the MVar *)
(* it is blocked on, and touches nothing else.                             *)
LEMMA RemoveFromMVarEffect ==
  ASSUME NEW h \in Heap, NEW t \in Threads, NEW mv \in MVars, Waits(h, t, mv), QueueInv(h, mv)
  PROVE  LET g == RemoveFromMVar(h, t) IN
         /\ g \in Heap /\ g.msg = h.msg /\ g.inbox = h.inbox /\ g.balance = h.balance
         /\ g.tso[t] = [h.tso[t] EXCEPT !.link = FALSE] /\ \A u \in Threads \ {t} : g.tso[u] = h.tso[u]
         /\ \A n \in MVars \ {mv} : g.mvar[n] = h.mvar[n]
         /\ g.mvar[mv].full = h.mvar[mv].full /\ g.mvar[mv].locker = h.mvar[mv].locker
         /\ Without(h.mvar[mv].queue, g.mvar[mv].queue, t)
<1> DEFINE q == h.mvar[mv].queue
           at == CHOOSE i \in Live(q) : q[i].tso = t
           rest == CASE at = 1 -> Tail(q)
                     [] at # 1 /\ at = Len(q) -> [q EXCEPT ![at].info = "null"]
                     [] OTHER -> [q EXCEPT ![at].info = "ind"]
           v == [h.mvar[mv] EXCEPT !.queue = rest]
           u == [h.tso[t] EXCEPT !.link = FALSE]
           f == [h EXCEPT !.mvar[mv] = v]
           g == [f EXCEPT !.tso[t] = u]
<1>1. q \in Seq(Entry) /\ h.mvar[mv] \in MVar /\ h.tso[t] \in Tso
  BY QueueType, TypedParts
<1>2. at \in Live(q) /\ q[at].tso = t
  <2>1. \E i \in Live(q) : q[i].tso = t
    BY DEF QueueInv
  <2> QED BY <2>1
<1>3. \A i, j \in Live(q) : q[i].tso = q[j].tso => i = j
  BY Zenon DEF QueueInv
<1>4. rest \in Seq(Entry) /\ Without(q, rest, t)
  <2> HIDE DEF q, at
  <2>1. CASE at = 1
    <3>1. rest = Tail(q)
      BY <2>1
    <3>2. \A j \in Live(q) : 1 <= j
      BY <1>1, LenProperties DEF Live
    <3>3. q # <<>>
      BY <1>2 DEF Live
    <3>4. Tail(q) = SubSeq(q, 1 + 1, Len(q))
      BY <1>1, <3>3, TailIsSubSeq
    <3>5. SubSeq(q, at + 1, Len(q)) \in Seq(Entry) /\ Without(q, SubSeq(q, at + 1, Len(q)), q[at].tso)
      BY <1>1, <1>2, <1>3, <2>1, <3>2, DropFirst
    <3> QED BY <1>2, <2>1, <3>1, <3>4, <3>5
  <2>2. CASE at # 1
    <3>1. rest = [q EXCEPT ![at].info = "null"] \/ rest = [q EXCEPT ![at].info = "ind"]
      BY <2>2
    <3> HIDE DEF rest
    <3> QED BY Zenon, <1>1, <1>2, <1>3, <3>1, MarkEntry
  <2> QED BY <2>1, <2>2
<1>5. RemoveFromMVar(h, t) = [h EXCEPT !.mvar[mv].queue = rest, !.tso[t].link = FALSE]
  BY Zenon DEF RemoveFromMVar, Waits
<1> HIDE DEF rest
<1>6. v \in MVar /\ v.queue = rest /\ v.full = h.mvar[mv].full /\ v.locker = h.mvar[mv].locker
  BY <1>1, <1>4 DEF MVar
<1>7. u \in Tso
  BY <1>1 DEF Tso
<1>8. RemoveFromMVar(h, t) = g
  BY <1>5 DEF Heap
<1> HIDE DEF u, v
<1>9. /\ f \in Heap /\ f.mvar[mv] = v /\ \A n \in MVars \ {mv} : f.mvar[n] = h.mvar[n]
      /\ f.tso = h.tso /\ f.msg = h.msg /\ f.inbox = h.inbox /\ f.balance = h.balance
  BY <1>6, PutMVar_
<1> HIDE DEF f
<1>10. /\ g \in Heap /\ g.tso[t] = u /\ \A w \in Threads \ {t} : g.tso[w] = f.tso[w]
       /\ g.msg = f.msg /\ g.mvar = f.mvar /\ g.inbox = f.inbox /\ g.balance = f.balance
  BY <1>7, <1>9, PutTso
<1> HIDE DEF g
<1>11. /\ g.tso[t] = [h.tso[t] EXCEPT !.link = FALSE] /\ \A w \in Threads \ {t} : g.tso[w] = h.tso[w]
       /\ Without(h.mvar[mv].queue, g.mvar[mv].queue, t)
  BY <1>4, <1>6, <1>9, <1>10 DEF u
<1> QED BY <1>6, <1>8, <1>9, <1>10, <1>11
----------------------------------------------------------------------------
(* Exceptions *)

(* What removeFromQueues and raiseAsync leave of a thread t that m          *)
(* interrupts, and of what it was blocked on.                              *)
Interrupted(h, g, t, m) ==
  /\ g \in Heap /\ g.inbox = h.inbox /\ g.balance = h.balance
  /\ \A u \in Threads \ {t} : g.tso[u] = h.tso[u]
  /\ g.tso[t].why = "NotBlocked" /\ g.tso[t].stack = "idle" /\ ~ g.tso[t].link
  /\ g.tso[t].home = h.tso[t].home /\ g.tso[t].info = h.tso[t].info /\ g.tso[t].catch = h.tso[t].catch
  /\ g.tso[t].blocked = h.tso[t].blocked
  /\ g.tso[t].what = IF h.tso[t].catch = "none" THEN "killed" ELSE "raise"
  /\ \A n \in Messages \ {m} : n # h.tso[t].info \/ h.tso[t].why # "MsgThrowTo" => g.msg[n] = h.msg[n]
  /\ \A n \in Messages \ {m} : n = h.tso[t].info /\ h.tso[t].why = "MsgThrowTo" =>
       /\ g.msg[n].info = "null" /\ g.msg[n].locker = None /\ g.msg[n].told = "interrupted"
       /\ g.msg[n].source = h.msg[n].source /\ g.msg[n].target = h.msg[n].target
       /\ g.msg[n].raised = h.msg[n].raised
  /\ m \in Messages => g.msg[m] = [h.msg[m] EXCEPT !.raised = @ + 1]
  /\ \A mv \in MVars :
       /\ g.mvar[mv].full = h.mvar[mv].full /\ g.mvar[mv].locker = h.mvar[mv].locker
       /\ IF Waits(h, t, mv) THEN Without(h.mvar[mv].queue, g.mvar[mv].queue, t)
          ELSE g.mvar[mv].queue = h.mvar[mv].queue

LEMMA RaiseAsyncEffect ==
  ASSUME NEW h \in Heap, NEW t \in Threads
  PROVE  LET g == RaiseAsync(h, t) IN
         /\ g \in Heap /\ g.msg = h.msg /\ g.mvar = h.mvar /\ g.inbox = h.inbox /\ g.balance = h.balance
         /\ \A u \in Threads \ {t} : g.tso[u] = h.tso[u]
         /\ g.tso[t].why = "NotBlocked" /\ g.tso[t].stack = "idle" /\ g.tso[t].link = h.tso[t].link
         /\ g.tso[t].home = h.tso[t].home /\ g.tso[t].info = h.tso[t].info /\ g.tso[t].catch = h.tso[t].catch
         /\ g.tso[t].blocked = h.tso[t].blocked
         /\ g.tso[t].what = IF h.tso[t].catch = "none" THEN "killed" ELSE "raise"
<1> DEFINE u == h.tso[t]
           what == IF u.catch = "none" THEN "killed" ELSE "raise"
           mask == CASE u.catch = "none" -> u.mask
                     [] u.catch = "interruptible" -> "interruptible"
                     [] OTHER -> "uninterruptible"
           v == [u EXCEPT !.why = "NotBlocked", !.stack = "idle", !.what = what, !.mask = mask]
<1>1. u \in Tso
  BY TypedParts
<1>2. mask \in Masks
  BY <1>1 DEF Tso, Masks
<1>3. what \in {"killed", "raise"}
  OBVIOUS
<1>4. RaiseAsync(h, t) = [h EXCEPT !.tso[t] = v]
  BY DEF RaiseAsync
<1> HIDE DEF what, mask
<1>5. /\ v \in Tso /\ v.why = "NotBlocked" /\ v.stack = "idle" /\ v.link = u.link /\ v.home = u.home
      /\ v.info = u.info /\ v.catch = u.catch /\ v.blocked = u.blocked /\ v.what = what
  <2> HIDE DEF u
  <2> QED BY <1>1, <1>2, <1>3 DEF Tso
<1> HIDE DEF v
<1> DEFINE g == [h EXCEPT !.tso[t] = v]
<1>6. /\ g \in Heap /\ g.tso[t] = v /\ \A w \in Threads \ {t} : g.tso[w] = h.tso[w]
      /\ g.msg = h.msg /\ g.mvar = h.mvar /\ g.inbox = h.inbox /\ g.balance = h.balance
  BY <1>5, PutTso
<1> HIDE DEF g
<1>7. RaiseAsync(h, t) = g
  BY <1>4 DEF g
<1> QED BY <1>5, <1>6, <1>7 DEF what

(* removeFromQueues.                                                       *)
LEMMA RemoveEffect ==
  ASSUME NEW h \in Heap, NEW t \in Threads, h.tso[t].link => h.tso[t].why = "MVar",
         h.tso[t].why = "MVar" => h.tso[t].link /\ h.tso[t].info \in MVars /\ QueueInv(h, h.tso[t].info),
         h.tso[t].why = "MsgThrowTo" => h.tso[t].info \in Messages
  PROVE  LET g == RemoveFromQueues(h, t) IN
         /\ g \in Heap /\ g.inbox = h.inbox /\ g.balance = h.balance
         /\ \A u \in Threads \ {t} : g.tso[u] = h.tso[u]
         /\ g.tso[t] = [h.tso[t] EXCEPT !.link = FALSE]
         /\ \A n \in Messages : n # h.tso[t].info \/ h.tso[t].why # "MsgThrowTo" => g.msg[n] = h.msg[n]
         /\ \A n \in Messages : n = h.tso[t].info /\ h.tso[t].why = "MsgThrowTo" =>
              /\ g.msg[n].info = "null" /\ g.msg[n].locker = None /\ g.msg[n].told = "interrupted"
              /\ g.msg[n].source = h.msg[n].source /\ g.msg[n].target = h.msg[n].target
              /\ g.msg[n].raised = h.msg[n].raised
         /\ \A mv \in MVars :
              /\ g.mvar[mv].full = h.mvar[mv].full /\ g.mvar[mv].locker = h.mvar[mv].locker
              /\ IF Waits(h, t, mv) THEN Without(h.mvar[mv].queue, g.mvar[mv].queue, t)
                 ELSE g.mvar[mv].queue = h.mvar[mv].queue
<1> DEFINE g == RemoveFromQueues(h, t)
<1>1. h.tso[t] \in Tso
  BY TypedParts
<1>2. ~ h.tso[t].link => h.tso[t] = [h.tso[t] EXCEPT !.link = FALSE]
  <2> DEFINE u == h.tso[t]
  <2>1. u \in Tso
    BY <1>1
  <2> HIDE DEF u
  <2>2. u.link \in BOOLEAN
    BY <2>1 DEF Tso
  <2>3. ~ u.link => u = [u EXCEPT !.link = FALSE]
    BY <2>1, <2>2 DEF Tso
  <2> QED BY <2>3 DEF u
<1>3. CASE h.tso[t].why = "MVar"
  <2> DEFINE mv == h.tso[t].info
  <2>1. mv \in MVars /\ Waits(h, t, mv) /\ QueueInv(h, mv)
    BY <1>3 DEF Waits
  <2>2. g = RemoveFromMVar(h, t)
    BY <1>3 DEF RemoveFromQueues
  <2> HIDE DEF g
  <2>3. /\ g \in Heap /\ g.msg = h.msg /\ g.inbox = h.inbox /\ g.balance = h.balance
        /\ g.tso[t] = [h.tso[t] EXCEPT !.link = FALSE] /\ \A u \in Threads \ {t} : g.tso[u] = h.tso[u]
        /\ \A n \in MVars \ {mv} : g.mvar[n] = h.mvar[n]
        /\ g.mvar[mv].full = h.mvar[mv].full /\ g.mvar[mv].locker = h.mvar[mv].locker
        /\ Without(h.mvar[mv].queue, g.mvar[mv].queue, t)
    BY <2>1, <2>2, RemoveFromMVarEffect
  <2>4. \A n \in MVars : Waits(h, t, n) => n = mv
    BY DEF Waits
  <2> HIDE DEF mv
  <2> QED BY <1>3, <2>1, <2>3, <2>4 DEF g
<1>4. CASE h.tso[t].why = "MsgThrowTo"
  <2> DEFINE m == h.tso[t].info
             f == UnlockMsg(h, m, "null")
             x == [f.msg[m] EXCEPT !.told = "interrupted"]
  <2>1. m \in Messages /\ "null" \in Headers
    BY <1>4 DEF Headers
  <2>2. ~ h.tso[t].link
    BY <1>4
  <2>3. g = [f EXCEPT !.msg[m].told = "interrupted"]
    BY <1>4 DEF RemoveFromQueues, DoneWithMsgThrowTo
  <2> HIDE DEF m
  <2>4. /\ f \in Heap /\ f.tso = h.tso /\ f.mvar = h.mvar /\ f.inbox = h.inbox /\ f.balance = h.balance
        /\ \A n \in Messages \ {m} : f.msg[n] = h.msg[n]
        /\ f.msg[m].info = "null" /\ f.msg[m].locker = None
        /\ f.msg[m].source = h.msg[m].source /\ f.msg[m].target = h.msg[m].target
        /\ f.msg[m].raised = h.msg[m].raised /\ f.msg[m].told = h.msg[m].told
    BY <2>1, UnlockEffect
  <2> HIDE DEF f
  <2>5. f.msg[m] \in Msg
    BY <2>1, <2>4, TypedParts
  <2>6. /\ x \in Msg /\ x.info = "null" /\ x.locker = None /\ x.told = "interrupted"
        /\ x.source = h.msg[m].source /\ x.target = h.msg[m].target /\ x.raised = h.msg[m].raised
    BY <2>4, <2>5 DEF Msg
  <2>7. g = [f EXCEPT !.msg[m] = x]
    BY <2>3
  <2> HIDE DEF x, g
  <2>8. /\ g \in Heap /\ g.msg[m] = x /\ \A n \in Messages \ {m} : g.msg[n] = f.msg[n]
        /\ g.tso = f.tso /\ g.mvar = f.mvar /\ g.inbox = f.inbox /\ g.balance = f.balance
    BY <2>1, <2>4, <2>6, <2>7, PutMsg
  <2>9. g.tso[t] = [h.tso[t] EXCEPT !.link = FALSE] /\ \A u \in Threads \ {t} : g.tso[u] = h.tso[u]
    BY <1>2, <2>2, <2>4, <2>8
  <2>10. ASSUME NEW n \in Messages PROVE n # m => g.msg[n] = h.msg[n]
    BY <2>4, <2>8
  <2>11. \A mv \in MVars : ~ Waits(h, t, mv) /\ g.mvar[mv] = h.mvar[mv]
    BY <1>4, <2>4, <2>8 DEF Waits
  <2>12. h.tso[t].info = m
    BY DEF m
  <2> QED BY <1>4, <2>4, <2>6, <2>8, <2>9, <2>10, <2>11, <2>12 DEF g
<1>5. CASE h.tso[t].why \notin {"MVar", "MsgThrowTo"}
  <2>1. g = h /\ ~ h.tso[t].link
    BY Zenon, <1>5 DEF RemoveFromQueues
  <2>2. \A mv \in MVars : ~ Waits(h, t, mv)
    BY <1>5 DEF Waits
  <2> QED BY <1>2, <1>5, <2>1, <2>2
<1> QED BY Zenon, <1>3, <1>4, <1>5

LEMMA InterruptEffect ==
  ASSUME NEW h \in Heap, NEW t \in Threads, NEW m \in Messages, h.tso[t].link => h.tso[t].why = "MVar",
         h.tso[t].why = "MVar" => h.tso[t].link /\ h.tso[t].info \in MVars /\ QueueInv(h, h.tso[t].info),
         h.tso[t].why = "MsgThrowTo" => h.tso[t].info \in Messages /\ h.tso[t].info # m
  PROVE  Interrupted(h, Interrupt(h, t, m), t, m)
<1> DEFINE e == RemoveFromQueues(h, t)
           f == RaiseAsync(e, t)
           g == [f EXCEPT !.msg[m].raised = @ + 1]
<1>1. /\ e \in Heap /\ e.inbox = h.inbox /\ e.balance = h.balance
      /\ \A u \in Threads \ {t} : e.tso[u] = h.tso[u]
      /\ e.tso[t] = [h.tso[t] EXCEPT !.link = FALSE]
      /\ \A n \in Messages : n # h.tso[t].info \/ h.tso[t].why # "MsgThrowTo" => e.msg[n] = h.msg[n]
      /\ \A n \in Messages : n = h.tso[t].info /\ h.tso[t].why = "MsgThrowTo" =>
           /\ e.msg[n].info = "null" /\ e.msg[n].locker = None /\ e.msg[n].told = "interrupted"
           /\ e.msg[n].source = h.msg[n].source /\ e.msg[n].target = h.msg[n].target
           /\ e.msg[n].raised = h.msg[n].raised
      /\ \A mv \in MVars :
           /\ e.mvar[mv].full = h.mvar[mv].full /\ e.mvar[mv].locker = h.mvar[mv].locker
           /\ IF Waits(h, t, mv) THEN Without(h.mvar[mv].queue, e.mvar[mv].queue, t)
              ELSE e.mvar[mv].queue = h.mvar[mv].queue
  BY RemoveEffect
<1>2. h.tso[t] \in Tso
  BY TypedParts
<1> HIDE DEF e
<1>3. /\ e.tso[t].home = h.tso[t].home /\ e.tso[t].info = h.tso[t].info /\ e.tso[t].catch = h.tso[t].catch
      /\ e.tso[t].blocked = h.tso[t].blocked /\ ~ e.tso[t].link
  BY <1>1, <1>2 DEF Tso
<1>4. /\ f \in Heap /\ f.msg = e.msg /\ f.mvar = e.mvar /\ f.inbox = e.inbox /\ f.balance = e.balance
      /\ \A u \in Threads \ {t} : f.tso[u] = e.tso[u]
      /\ f.tso[t].why = "NotBlocked" /\ f.tso[t].stack = "idle" /\ f.tso[t].link = e.tso[t].link
      /\ f.tso[t].home = e.tso[t].home /\ f.tso[t].info = e.tso[t].info /\ f.tso[t].catch = e.tso[t].catch
      /\ f.tso[t].blocked = e.tso[t].blocked
      /\ f.tso[t].what = IF e.tso[t].catch = "none" THEN "killed" ELSE "raise"
  BY Zenon, <1>1, RaiseAsyncEffect
<1> HIDE DEF f
<1>5. f.msg[m] = h.msg[m] /\ f.msg[m] \in Msg
  BY <1>1, <1>4, TypedParts
<1>6. [f.msg[m] EXCEPT !.raised = @ + 1] \in Msg
  BY <1>5 DEF Msg
<1>7. g = [f EXCEPT !.msg[m] = [f.msg[m] EXCEPT !.raised = @ + 1]]
  OBVIOUS
<1> HIDE DEF g
<1>8. /\ g \in Heap /\ g.msg[m] = [f.msg[m] EXCEPT !.raised = @ + 1]
      /\ \A n \in Messages \ {m} : g.msg[n] = f.msg[n]
      /\ g.tso = f.tso /\ g.mvar = f.mvar /\ g.inbox = f.inbox /\ g.balance = f.balance
  BY <1>4, <1>6, <1>7, PutMsg
<1>9. Interrupt(h, t, m) = g
  BY DEF Interrupt, e, f, g
<1>10. /\ \A u \in Threads \ {t} : g.tso[u] = h.tso[u]
       /\ g.tso[t].why = "NotBlocked" /\ g.tso[t].stack = "idle" /\ ~ g.tso[t].link
       /\ g.tso[t].home = h.tso[t].home /\ g.tso[t].info = h.tso[t].info /\ g.tso[t].catch = h.tso[t].catch
       /\ g.tso[t].blocked = h.tso[t].blocked
       /\ g.tso[t].what = IF h.tso[t].catch = "none" THEN "killed" ELSE "raise"
  <2>1. \A u \in Threads \ {t} : g.tso[u] = h.tso[u]
    BY <1>1, <1>4, <1>8
  <2>2. g.tso[t] = f.tso[t]
    BY <1>8
  <2> QED BY <1>3, <1>4, <2>1, <2>2
<1>11. \A n \in Messages \ {m} : g.msg[n] = e.msg[n]
  BY <1>4, <1>8
<1>12. g.msg[m] = [h.msg[m] EXCEPT !.raised = @ + 1]
  BY <1>5, <1>8
<1>13. \A mv \in MVars :
       /\ g.mvar[mv].full = h.mvar[mv].full /\ g.mvar[mv].locker = h.mvar[mv].locker
       /\ IF Waits(h, t, mv) THEN Without(h.mvar[mv].queue, g.mvar[mv].queue, t)
          ELSE g.mvar[mv].queue = h.mvar[mv].queue
  BY <1>1, <1>4, <1>8
<1>14. g.inbox = h.inbox /\ g.balance = h.balance
  BY <1>1, <1>4, <1>8
<1>15. Interrupted(h, g, t, m)
  BY <1>1, <1>8, <1>10, <1>11, <1>12, <1>13, <1>14 DEF Interrupted
<1> QED BY <1>9, <1>15

(* The message of the throwTo that the thread was blocked in.              *)
Lost(h, t, n) == h.tso[t].why = "MsgThrowTo" /\ n = h.tso[t].info

LEMMA InterruptedQueue ==
  ASSUME NEW h \in Heap, NEW g, NEW t \in Threads, NEW m, Interrupted(h, g, t, m), NEW mv \in MVars, QueueInv(h, mv)
  PROVE  QueueInv(g, mv)
<1>1. g \in Heap /\ g.mvar[mv].full = h.mvar[mv].full
  BY DEF Interrupted
<1>2. /\ \A u \in Threads \ {t} : g.tso[u] = h.tso[u]
      /\ g.tso[t].why = "NotBlocked"
  BY DEF Interrupted
<1>3. /\ ~ Waits(g, t, mv)
      /\ \A u \in Threads \ {t} : (Waits(g, u, mv) <=> Waits(h, u, mv)) /\ g.tso[u].stack = h.tso[u].stack
  BY <1>2 DEF Waits
<1>4. CASE Waits(h, t, mv)
  <2>1. Without(h.mvar[mv].queue, g.mvar[mv].queue, t)
    BY <1>4 DEF Interrupted
  <2> QED BY <1>1, <1>3, <2>1, QueueWithout
<1>5. CASE ~ Waits(h, t, mv)
  <2>1. g.mvar[mv].queue = h.mvar[mv].queue
    BY <1>5 DEF Interrupted
  <2>2. \A u \in Threads : Waits(h, u, mv) \/ Waits(g, u, mv) =>
         /\ Waits(h, u, mv) /\ Waits(g, u, mv) /\ g.tso[u].stack = h.tso[u].stack
    BY <1>3, <1>5
  <2> QED BY <1>1, <2>1, <2>2, QueueKept
<1> QED BY <1>4, <1>5

(* A thread that is interrupted: whatever it was blocked on is undone.     *)
LEMMA InterruptedInv ==
  ASSUME NEW h, NEW b, NEW p, NEW ct, NEW cm, NEW X, NEW M, InvBut(h, b, p, ct, cm, X, M),
         NEW t \in Threads, NEW m, NEW g, Interrupted(h, g, t, m), \A n \in Messages \ M : n # m,
         h.tso[t].what # "finished", \A n \in M : h.msg[n].target \in Threads,
         h.tso[t].why = "MsgThrowTo" => h.tso[t].info # m /\ h.tso[t].info \notin M /\ h.msg[h.tso[t].info].info # "null",
         \A d \in Capabilities : Throwing(p, d) =>
           /\ ct[d] # t
           /\ h.tso[t].why = "MsgThrowTo" => h.tso[t].info # cm[d]
           /\ p[d] = "throw_mvar" => h.msg[cm[d]].target # t
  PROVE  InvBut(g, b, p, ct, cm, X, M)
<1>1. TypeInv(h, b, p, ct, cm) /\ TypeInv(g, b, p, ct, cm) /\ h \in Heap /\ g \in Heap
  BY DEF InvBut, TypeInv, Interrupted
<1>2. TsoInv(h, t)
  BY DEF InvBut
<1>3. \A n \in Messages : Lost(h, t, n) =>
        /\ n # m /\ h.msg[n].source = t /\ n \notin M
        /\ g.msg[n].info = "null" /\ g.msg[n].locker = None /\ g.msg[n].told = "interrupted"
        /\ g.msg[n].source = h.msg[n].source /\ g.msg[n].target = h.msg[n].target
        /\ g.msg[n].raised = h.msg[n].raised
  BY <1>2 DEF TsoInv, Interrupted, Lost
<1>4. \A n \in Messages : ~ Lost(h, t, n) /\ n # m => g.msg[n] = h.msg[n]
  BY Zenon DEF Interrupted, Lost
<1>5. ASSUME m \in Messages
      PROVE  /\ g.msg[m].info = h.msg[m].info /\ g.msg[m].locker = h.msg[m].locker /\ g.msg[m].told = h.msg[m].told
             /\ g.msg[m].source = h.msg[m].source /\ g.msg[m].target = h.msg[m].target
  <2>1. h.msg[m] \in Msg /\ g.msg[m] = [h.msg[m] EXCEPT !.raised = @ + 1]
    BY <1>1, <1>5, TypedParts DEF Interrupted
  <2> QED BY <2>1 DEF Msg
<1>6. \A n \in Messages :
        /\ g.msg[n].source = h.msg[n].source /\ g.msg[n].target = h.msg[n].target
        /\ ~ Lost(h, t, n) =>
             /\ g.msg[n].info = h.msg[n].info /\ g.msg[n].locker = h.msg[n].locker
             /\ g.msg[n].told = h.msg[n].told
  BY <1>3, <1>4, <1>5
<1>7. /\ \A u \in Threads \ {t} : g.tso[u] = h.tso[u]
      /\ g.tso[t].why = "NotBlocked" /\ g.tso[t].stack = "idle" /\ ~ g.tso[t].link
      /\ g.tso[t].home = h.tso[t].home /\ g.tso[t].info = h.tso[t].info /\ g.tso[t].catch = h.tso[t].catch
      /\ g.tso[t].blocked = h.tso[t].blocked /\ g.tso[t].what \in {"killed", "raise"}
      /\ g.tso[t].what = "killed" <=> h.tso[t].catch = "none"
  BY DEF Interrupted
<1>8. \A u \in Threads : g.tso[u].blocked = h.tso[u].blocked /\ g.tso[u].home = h.tso[u].home
  BY <1>7
<1>9. DeadKept(h, g)
  BY <1>2, <1>7 DEF DeadKept, Dead, TsoInv
<1>10. \A u, n : BlockedOn(h, u, n) /\ ~ Lost(h, t, n) => BlockedOn(g, u, n)
  BY <1>7 DEF BlockedOn, Lost
<1>11. \A x : Sent(g, b, x) <=> Sent(h, b, x)
  BY DEF Sent, Interrupted
<1>12. \A u \in Threads \ {t}, n \in Messages : BlockedOn(h, u, n) => ~ Lost(h, t, n)
  BY <1>3 DEF InvBut, TsoInv, BlockedOn, Lost
<1>13. ASSUME NEW u \in Threads PROVE TsoInv(g, u)
  <2>1. ASSUME NEW n \in Messages, In(n, g.tso[u].blocked)
        PROVE  g.msg[n].info \notin {"free", "done"} /\ g.msg[n].target = u
    <3>1. h.msg[n].info \notin {"free", "done"} /\ h.msg[n].target = u
      BY <1>8, <2>1 DEF InvBut, TsoInv
    <3> QED BY <1>3, <1>6, <3>1
  <2>2. CASE u = t
    BY Zenon, <1>2, <1>7, <2>1, <2>2 DEF TsoInv
  <2>3. CASE u # t
    <3>1. TsoInv(h, u) /\ g.tso[u] = h.tso[u]
      BY <1>7, <2>3 DEF InvBut
    <3>2. ASSUME h.tso[u].why = "MsgThrowTo", h.tso[u].info \in Messages
          PROVE  ~ Lost(h, t, h.tso[u].info)
      BY <1>12, <2>3, <3>2 DEF BlockedOn
    <3>3. ASSUME h.tso[u].why = "MsgThrowTo", h.tso[u].info \in Messages
          PROVE  LET n == h.tso[u].info IN
                 /\ g.msg[n].source = h.msg[n].source /\ g.msg[n].told = h.msg[n].told
                 /\ g.msg[n].info \in {"locked", "throwto", "null"}
      BY Zenon, <1>6, <3>1, <3>2, <3>3 DEF TsoInv
    <3> QED BY Zenon, <2>1, <3>1, <3>3, TsoKept DEF Alike
  <2> QED BY <2>2, <2>3
<1>14. ASSUME NEW u \in Threads PROVE HereInv(g, p, u)
  <2>1. HereInv(h, p, u)
    BY DEF InvBut
  <2> QED BY <1>3, <1>6, <1>8, <2>1 DEF HereInv
<1>15. ASSUME NEW u \in Threads \ X PROVE WakeInv(g, b, u)
  <2>1. CASE u = t
    BY <1>7, <2>1 DEF WakeInv
  <2>2. CASE u # t
    <3>1. WakeInv(h, b, u) /\ TsoInv(h, u) /\ g.tso[u] = h.tso[u]
      BY <1>7, <2>2 DEF InvBut
    <3>2. h.tso[u].why = "MsgThrowTo" => g.msg[h.tso[u].info].info = h.msg[h.tso[u].info].info
      BY <1>6, <1>12, <2>2, <3>1 DEF TsoInv, BlockedOn
    <3> QED BY <1>11, <3>1, <3>2 DEF WakeInv
  <2> QED BY <2>1, <2>2
<1>16. ASSUME NEW n \in Messages \ M PROVE MsgInv(g, p, ct, cm, n) /\ PendInv(g, b, p, ct, cm, n)
  <2>1. MsgInv(h, p, ct, cm, n) /\ PendInv(h, b, p, ct, cm, n)
    BY DEF InvBut
  <2>2. CASE Lost(h, t, n)
    <3>1. h.msg[n].info \in {"locked", "throwto"}
      BY <1>2, <2>2 DEF TsoInv, Lost
    <3>2. MsgInv(g, p, ct, cm, n)
      BY <1>3, <2>1, <2>2, <3>1 DEF MsgInv
    <3>3. PendInv(g, b, p, ct, cm, n)
      BY <1>3, <2>2 DEF PendInv
    <3> QED BY <3>2, <3>3
  <2>3. CASE ~ Lost(h, t, n)
    <3>1. g.msg[n] = h.msg[n]
      BY <1>4, <2>3
    <3>2. SameAt(p, ct, cm, p, ct, cm, h.msg[n].locker)
      BY DEF SameAt
    <3>3. BlockedOn(h, h.msg[n].source, n) => BlockedOn(g, h.msg[n].source, n)
      BY <1>10, <2>3
    <3>4. MsgInv(g, p, ct, cm, n)
      BY <1>9, <2>1, <3>1, <3>2, <3>3, MsgKept
    <3>5. \A u \in Threads : g.tso[u].what = "finished" => h.tso[u].what = "finished"
      BY <1>7
    <3>6. PendInv(g, b, p, ct, cm, n)
      BY <1>8, <1>11, <2>1, <3>1, <3>5, PendKept
    <3> QED BY <3>4, <3>6
  <2> QED BY <2>2, <2>3
<1>17. ASSUME NEW d \in Capabilities PROVE CapInv(g, p, ct, cm, d)
  <2>1. CapInv(h, p, ct, cm, d)
    BY DEF InvBut
  <2>2. CASE ct[d] = t
    <3>1. ~ Throwing(p, d) /\ p[d] # "finish" /\ t # None /\ h.tso[t].home = d
      BY <2>1, <2>2, ThreadsAssumption DEF CapInv
    <3>2. p[d] = "pause" => PauseOK(g, d, t)
      <4>1. SUFFICES ASSUME p[d] = "pause" PROVE PauseOK(g, d, t)
        OBVIOUS
      <4>2. PauseOK(h, d, t)
        BY <2>1, <2>2, <4>1 DEF CapInv
      <4>3. h.tso[t].info \in MVars => g.mvar[h.tso[t].info].locker = h.mvar[h.tso[t].info].locker
        BY Zenon DEF Interrupted
      <4>4. h.tso[t].info \in Messages => \/ g.msg[h.tso[t].info].locker = d
                                           \/ g.msg[h.tso[t].info].info = "null"
        BY Zenon, <1>3, <1>6, <4>2 DEF PauseOK
      <4> QED BY Zenon, <1>7, <4>2, <4>3, <4>4 DEF PauseOK
    <3>3. p[d] # "throw_mvar"
      BY <3>1 DEF Throwing
    <3> QED BY <1>7, <2>1, <2>2, <3>1, <3>2, <3>3 DEF CapInv
  <2>3. CASE ct[d] # t
    <3>1. ct[d] # None => ct[d] \in Threads /\ g.tso[ct[d]] = h.tso[ct[d]]
      BY <1>1, <1>7, <2>3 DEF TypeInv
    <3>2. ASSUME Throwing(p, d)
          PROVE  /\ cm[d] \in Messages /\ ~ Lost(h, t, cm[d]) /\ h.msg[cm[d]].target \in Threads
                 /\ ThrowOK(h, d, ct[d], cm[d])
      <4>1. cm[d] \in Messages /\ h.msg[cm[d]].info = "locked" /\ ThrowOK(h, d, ct[d], cm[d])
        BY Zenon, <2>1, <3>2 DEF CapInv, ThrowOK
      <4>2. ~ Lost(h, t, cm[d])
        BY <3>2 DEF Lost
      <4>3. h.msg[cm[d]].target \in Threads
        BY <3>2, <4>1 DEF InvBut, MsgInv, CapInv
      <4> QED BY <4>1, <4>2, <4>3
    <3>3. p[d] = "throw_mvar" => WaiterOK(g, d, h.msg[cm[d]].target)
      BY Zenon, <1>7, <2>1, <3>2 DEF CapInv, WaiterOK, Throwing
    <3>4. ASSUME p[d] = "pause" PROVE PauseOK(g, d, ct[d])
      <4>1. PauseOK(h, d, ct[d]) /\ ct[d] \in Threads /\ g.tso[ct[d]] = h.tso[ct[d]]
        BY <2>1, <3>1, <3>4 DEF CapInv
      <4>2. h.tso[ct[d]].info \in MVars => g.mvar[h.tso[ct[d]].info].locker = h.mvar[h.tso[ct[d]].info].locker
        BY Zenon DEF Interrupted
      <4>3. ASSUME h.tso[ct[d]].info \in Messages
            PROVE  \/ g.msg[h.tso[ct[d]].info].locker = d
                   \/ g.msg[h.tso[ct[d]].info].info = "null" /\ h.tso[ct[d]].why # "MsgThrowTo"
        <5>1. CASE Lost(h, t, h.tso[ct[d]].info)
          <6>1. h.tso[ct[d]].why # "MsgThrowTo"
            BY <1>12, <2>3, <4>1, <4>3, <5>1 DEF BlockedOn
          <6> QED BY Zenon, <1>3, <4>3, <5>1, <6>1
        <5>2. CASE ~ Lost(h, t, h.tso[ct[d]].info)
          BY Zenon, <1>6, <4>1, <4>3, <5>2 DEF PauseOK
        <5> QED BY Zenon, <5>1, <5>2
      <4> QED BY Zenon, <4>1, <4>2, <4>3 DEF PauseOK
    <3>5. ct[d] # None => Alike(h, g, ct[d])
      BY <3>1 DEF Alike
    <3>6. SameAt(p, ct, cm, p, ct, cm, d)
      BY DEF SameAt
    <3>7. ASSUME Throwing(p, d)
          PROVE  /\ g.msg[cm[d]].info = h.msg[cm[d]].info /\ g.msg[cm[d]].locker = h.msg[cm[d]].locker
                 /\ g.msg[cm[d]].source = h.msg[cm[d]].source /\ g.msg[cm[d]].target = h.msg[cm[d]].target
                 /\ BlockedOn(h, h.msg[cm[d]].source, cm[d]) => BlockedOn(g, h.msg[cm[d]].source, cm[d])
                 /\ In(cm[d], g.tso[h.msg[cm[d]].target].blocked) => In(cm[d], h.tso[h.msg[cm[d]].target].blocked)
      BY Zenon, <1>6, <1>8, <1>10, <3>2, <3>7
    <3> QED BY Zenon, <2>1, <3>3, <3>4, <3>5, <3>6, <3>7, CapKept
  <2> QED BY <2>2, <2>3
<1>18. ASSUME NEW mv \in MVars PROVE QueueInv(g, mv) /\ LockInv(g, p, ct, mv)
  <2>1. QueueInv(h, mv) /\ LockInv(h, p, ct, mv)
    BY DEF InvBut
  <2>2. g.mvar[mv].full = h.mvar[mv].full /\ g.mvar[mv].locker = h.mvar[mv].locker
    BY Zenon DEF Interrupted
  <2>3. QueueInv(g, mv)
    BY <1>1, <2>1, InterruptedQueue
  <2>6. \A d \in Capabilities : p[d] = "pause" => g.tso[ct[d]].info = h.tso[ct[d]].info
    <3>1. \A d \in Capabilities : p[d] = "pause" => ct[d] \in Threads
      BY <1>1 DEF InvBut, CapInv, TypeInv
    <3> QED BY <1>7, <3>1
  <2>7. h.mvar[mv].locker \in Capabilities \cup {None}
    BY <1>1, TypedParts DEF MVar
  <2>8. LockInv(g, p, ct, mv)
    BY Zenon, <2>1, <2>2, <2>6, <2>7 DEF LockInv
  <2> QED BY <2>3, <2>8
<1> QED BY <1>1, <1>13, <1>14, <1>15, <1>16, <1>17, <1>18 DEF InvBut
----------------------------------------------------------------------------
(* One thread changes; one Capability moves *)

(* What a change of one thread t has to keep: who waits for an MVar, whom  *)
(* a message finds blocked or queued, and who is dead; but for the         *)
(* messages in N.                                                          *)
OnlyThread(h, g, t) ==
  /\ g \in Heap /\ g.msg = h.msg /\ g.mvar = h.mvar /\ g.inbox = h.inbox
  /\ \A u \in Threads \ {t} : g.tso[u] = h.tso[u]
KeepsThread(h, g, t, N) ==
  /\ Dead(h, t) => Dead(g, t)
  /\ \A mv \in MVars : Waits(h, t, mv) \/ Waits(g, t, mv) =>
       Waits(h, t, mv) /\ Waits(g, t, mv) /\ g.tso[t].stack = h.tso[t].stack
  /\ \A m \in Messages \ N : BlockedOn(h, t, m) => BlockedOn(g, t, m)
  /\ \A m \in Messages \ N : h.msg[m].info \in {"locked", "throwto"} /\ In(m, h.tso[t].blocked) =>
       In(m, g.tso[t].blocked) /\ (g.tso[t].what = "finished" => h.tso[t].what = "finished")
KeepsCaps(h, g, p, ct, cm, t) ==
  \A d \in Capabilities :
    /\ ct[d] = t => CapInv(g, p, ct, cm, d) /\ g.tso[t].info = h.tso[t].info
    /\ Throwing(p, d) => /\ BlockedOn(h, t, cm[d]) => BlockedOn(g, t, cm[d])
                         /\ In(cm[d], g.tso[t].blocked) => In(cm[d], h.tso[t].blocked)
                         /\ p[d] = "throw_mvar" /\ h.msg[cm[d]].target = t => WaiterOK(g, d, t)

LEMMA TsoStepInv ==
  ASSUME NEW h, NEW b, NEW p, NEW ct, NEW cm, NEW X, NEW M, InvBut(h, b, p, ct, cm, X, M),
         \A m \in M : h.msg[m].target \in Threads, NEW t \in Threads, NEW g, OnlyThread(h, g, t), NEW Y, NEW N, X \subseteq Y, M \subseteq N,
         TsoInv(g, t), HereInv(g, p, t), t \in Y \/ WakeInv(g, b, t),
         KeepsThread(h, g, t, N), KeepsCaps(h, g, p, ct, cm, t)
  PROVE  InvBut(g, b, p, ct, cm, Y, N)
<1>1. TypeInv(h, b, p, ct, cm) /\ TypeInv(g, b, p, ct, cm) /\ h \in Heap /\ g \in Heap
  BY DEF InvBut, TypeInv, OnlyThread
<1>2. /\ g.msg = h.msg /\ g.mvar = h.mvar /\ g.inbox = h.inbox
      /\ \A u \in Threads \ {t} : g.tso[u] = h.tso[u]
  BY DEF OnlyThread
<1>3. \A x : Sent(g, b, x) <=> Sent(h, b, x)
  BY <1>2 DEF Sent
<1>4. DeadKept(h, g)
  BY <1>2 DEF DeadKept, Dead, KeepsThread
<1>5. ASSUME NEW u \in Threads PROVE TsoInv(g, u) /\ HereInv(g, p, u)
  <2>1. TsoInv(h, u) /\ HereInv(h, p, u)
    BY DEF InvBut
  <2>2. CASE u = t
    BY <2>2
  <2>3. CASE u # t
    BY <1>2, <2>1, <2>3 DEF TsoInv, HereInv
  <2> QED BY <2>2, <2>3
<1>6. ASSUME NEW u \in Threads \ Y PROVE WakeInv(g, b, u)
  <2>1. WakeInv(h, b, u)
    BY DEF InvBut
  <2>2. CASE u = t
    BY <2>2
  <2>3. CASE u # t
    BY <1>2, <1>3, <2>1, <2>3 DEF WakeInv
  <2> QED BY <2>2, <2>3
<1>7. \A u, m : u # t /\ BlockedOn(h, u, m) => BlockedOn(g, u, m)
  BY <1>2 DEF BlockedOn
<1>8. ASSUME NEW m \in Messages \ N PROVE MsgInv(g, p, ct, cm, m) /\ PendInv(g, b, p, ct, cm, m)
  <2>1. MsgInv(h, p, ct, cm, m) /\ PendInv(h, b, p, ct, cm, m) /\ g.msg[m] = h.msg[m]
    BY <1>2 DEF InvBut
  <2>2. BlockedOn(h, h.msg[m].source, m) => BlockedOn(g, h.msg[m].source, m)
    BY <1>7 DEF KeepsThread
  <2>3. SameAt(p, ct, cm, p, ct, cm, h.msg[m].locker)
    BY DEF SameAt
  <2>4. MsgInv(g, p, ct, cm, m)
    BY <1>4, <2>1, <2>2, <2>3, MsgKept
  <2>5. ASSUME h.msg[m].info \in {"locked", "throwto"}, NEW u \in Threads, In(m, h.tso[u].blocked)
        PROVE  In(m, g.tso[u].blocked) /\ (g.tso[u].what = "finished" => h.tso[u].what = "finished")
    BY <1>2, <2>5 DEF KeepsThread
  <2>6. PendInv(g, b, p, ct, cm, m)
    BY <1>3, <2>1, <2>5, PendKept
  <2> QED BY <2>4, <2>6
<1>9. ASSUME NEW d \in Capabilities PROVE CapInv(g, p, ct, cm, d)
  <2>1. CapInv(h, p, ct, cm, d)
    BY DEF InvBut
  <2>2. CASE ct[d] = t
    BY <2>2 DEF KeepsCaps
  <2>3. CASE ct[d] # t
    <3>1. ct[d] # None => ct[d] \in Threads /\ g.tso[ct[d]] = h.tso[ct[d]]
      BY <1>1, <1>2, <2>3 DEF TypeInv
    <3>2. ct[d] # None => Alike(h, g, ct[d])
      BY <3>1 DEF Alike
    <3>3. SameAt(p, ct, cm, p, ct, cm, d)
      BY DEF SameAt
    <3>7. ASSUME Throwing(p, d) PROVE h.msg[cm[d]].target \in Threads
      <4>1. cm[d] \in Messages /\ h.msg[cm[d]].info = "locked"
        BY <2>1, <3>7 DEF CapInv, ThrowOK
      <4>2. CASE cm[d] \in M
        BY <4>2
      <4>3. CASE cm[d] \notin M
        BY <4>1, <4>3 DEF InvBut, MsgInv
      <4> QED BY <4>2, <4>3
    <3>4. ASSUME Throwing(p, d)
          PROVE  /\ BlockedOn(h, h.msg[cm[d]].source, cm[d]) => BlockedOn(g, h.msg[cm[d]].source, cm[d])
                 /\ ct[d] # None => (In(cm[d], g.tso[h.msg[cm[d]].target].blocked) => In(cm[d], h.tso[h.msg[cm[d]].target].blocked))
      <4>1. BlockedOn(h, h.msg[cm[d]].source, cm[d]) => BlockedOn(g, h.msg[cm[d]].source, cm[d])
        BY <1>7, <3>4 DEF KeepsCaps
      <4>2. CASE h.msg[cm[d]].target = t
        BY <3>4, <4>1, <4>2 DEF KeepsCaps
      <4>3. CASE h.msg[cm[d]].target # t
        <5>1. g.tso[h.msg[cm[d]].target] = h.tso[h.msg[cm[d]].target]
          BY <1>2, <3>7, <3>4, <4>3
        <5> QED BY Zenon, <4>1, <5>1
      <4> QED BY Zenon, <4>2, <4>3
    <3>5. ASSUME p[d] = "throw_mvar" PROVE WaiterOK(g, d, h.msg[cm[d]].target)
      <4>1. WaiterOK(h, d, h.msg[cm[d]].target) /\ Throwing(p, d)
        BY <2>1, <3>5 DEF CapInv, Throwing
      <4>2. CASE h.msg[cm[d]].target = t
        BY <3>5, <4>1, <4>2 DEF KeepsCaps
      <4>3. CASE h.msg[cm[d]].target # t
        BY Zenon, <1>2, <3>7, <4>1, <4>3 DEF WaiterOK
      <4> QED BY <4>2, <4>3
    <3>6. p[d] = "pause" => PauseOK(g, d, ct[d])
      BY Zenon, <1>2, <2>1, <3>1 DEF CapInv, PauseOK
    <3> QED BY Zenon, <1>2, <2>1, <3>2, <3>3, <3>4, <3>5, <3>6, CapKept
  <2> QED BY <2>2, <2>3
<1>10. ASSUME NEW mv \in MVars PROVE QueueInv(g, mv) /\ LockInv(g, p, ct, mv)
  <2>1. QueueInv(h, mv) /\ LockInv(h, p, ct, mv)
    BY DEF InvBut
  <2>2. \A u \in Threads : Waits(h, u, mv) \/ Waits(g, u, mv) =>
          Waits(h, u, mv) /\ Waits(g, u, mv) /\ g.tso[u].stack = h.tso[u].stack
    BY <1>2 DEF Waits, KeepsThread
  <2>3. QueueInv(g, mv)
    BY <1>1, <1>2, <2>1, <2>2, QueueKept
  <2>4. h.mvar[mv].locker \in Capabilities \cup {None}
    BY <1>1, TypedParts DEF MVar
  <2>5. ASSUME NEW d \in Capabilities, p[d] = "pause" PROVE g.tso[ct[d]].info = h.tso[ct[d]].info
    <3>1. CapInv(h, p, ct, cm, d)
      BY DEF InvBut
    <3>2. ct[d] \in Threads
      BY <1>1, <2>5, <3>1 DEF CapInv, TypeInv
    <3> QED BY <1>2, <3>2 DEF KeepsCaps
  <2>6. LockInv(g, p, ct, mv)
    BY Zenon, <1>2, <2>1, <2>4, <2>5 DEF LockInv
  <2> QED BY <2>3, <2>6
<1> QED BY <1>1, <1>5, <1>6, <1>8, <1>9, <1>10 DEF InvBut

(* A Capability goes from one place to another: what it leaves must not be *)
(* in its hands, and what it comes to must be.                             *)
Moves(p, ct, cm, p2, ct2, cm2, c) == \A d \in Capabilities \ {c} : SameAt(p, ct, cm, p2, ct2, cm2, d)
NotWith(h, p, ct, cm, c, m) ==
  /\ h.msg[m].locker # c /\ cm[c] # m
  /\ p[c] = "finish" => ~ In(m, h.tso[ct[c]].blocked)

Passes(h, b, p, ct, cm, p2, ct2, cm2, c, M, N) ==
  \A m \in Messages \ N : \/ m \notin M /\ NotWith(h, p, ct, cm, c, m)
                          \/ MsgInv(h, p2, ct2, cm2, m) /\ PendInv(h, b, p2, ct2, cm2, m)

LEMMA MoveInv ==
  ASSUME NEW h, NEW b, NEW p, NEW ct, NEW cm, NEW X, NEW M, InvBut(h, b, p, ct, cm, X, M),
         NEW c \in Capabilities, NEW p2, NEW ct2, NEW cm2, Moves(p, ct, cm, p2, ct2, cm2, c),
         TypeInv(h, b, p2, ct2, cm2), CapInv(h, p2, ct2, cm2, c), NEW N,
         Passes(h, b, p, ct, cm, p2, ct2, cm2, c, M, N),
         \A mv \in MVars : h.mvar[mv].locker # c,
         p2[c] = "pause" => \A t \in Threads, m \in Messages :
                              In(m, h.tso[t].blocked) /\ h.msg[m].locker = c => h.tso[t].home = c
  PROVE  InvBut(h, b, p2, ct2, cm2, X, N)
<1>1. h \in Heap
  BY DEF InvBut, TypeInv
<1>2. ASSUME NEW t \in Threads PROVE TsoInv(h, t) /\ HereInv(h, p2, t)
  <2>1. TsoInv(h, t) /\ HereInv(h, p, t)
    BY DEF InvBut
  <2>2. ASSUME NEW m \in Messages, In(m, h.tso[t].blocked), h.msg[m].locker # None, p2[h.msg[m].locker] = "pause"
        PROVE  h.tso[t].home = h.msg[m].locker
    <3>1. h.msg[m].locker \in Capabilities
      BY <1>1, <2>2, TypedParts DEF Msg
    <3>2. CASE h.msg[m].locker = c
      BY <2>2, <3>2
    <3>3. CASE h.msg[m].locker # c
      <4>1. p[h.msg[m].locker] = "pause"
        BY <2>2, <3>1, <3>3 DEF Moves, SameAt
      <4> QED BY <2>1, <2>2, <4>1 DEF HereInv
    <3> QED BY <3>2, <3>3
  <2> QED BY <2>1, <2>2 DEF HereInv
<1>3. ASSUME NEW t \in Threads \ X PROVE WakeInv(h, b, t)
  BY DEF InvBut
<1>4. ASSUME NEW m \in Messages \ N PROVE MsgInv(h, p2, ct2, cm2, m) /\ PendInv(h, b, p2, ct2, cm2, m)
  <2>1. CASE MsgInv(h, p2, ct2, cm2, m) /\ PendInv(h, b, p2, ct2, cm2, m)
    BY <2>1
  <2>2. CASE m \notin M /\ NotWith(h, p, ct, cm, c, m)
    <3>1. MsgInv(h, p, ct, cm, m) /\ PendInv(h, b, p, ct, cm, m)
      BY <2>2 DEF InvBut
    <3>2. h.msg[m].locker \in Capabilities \cup {None}
      BY <1>1, TypedParts DEF Msg
    <3>3. h.msg[m].info = "locked" => SameAt(p, ct, cm, p2, ct2, cm2, h.msg[m].locker)
      BY <2>2, <3>1, <3>2 DEF MsgInv, NotWith, Moves
    <3>4. MsgInv(h, p2, ct2, cm2, m)
      BY <3>1, <3>3, MsgKept DEF DeadKept
    <3>5. \A d \in Capabilities : cm[d] = m => cm2[d] = m
      BY <2>2 DEF NotWith, Moves, SameAt
    <3>6. ASSUME NEW u \in Threads, In(m, h.tso[u].blocked), NEW d \in Capabilities, p[d] = "finish", ct[d] = u
          PROVE  p2[d] = "finish" /\ ct2[d] = u
      BY <2>2, <3>6 DEF NotWith, Moves, SameAt
    <3>7. PendInv(h, b, p2, ct2, cm2, m)
      BY <3>1, <3>5, <3>6, PendKept
    <3> QED BY <3>4, <3>7
  <2> QED BY <2>1, <2>2 DEF Passes
<1>5. ASSUME NEW d \in Capabilities PROVE CapInv(h, p2, ct2, cm2, d)
  <2>1. CASE d = c
    BY <2>1
  <2>2. CASE d # c
    <3>1. SameAt(p, ct, cm, p2, ct2, cm2, d) /\ CapInv(h, p, ct, cm, d)
      BY <2>2 DEF Moves, InvBut
    <3> QED BY <3>1 DEF SameAt, CapInv, Throwing
  <2> QED BY <2>1, <2>2
<1>6. ASSUME NEW mv \in MVars PROVE QueueInv(h, mv) /\ LockInv(h, p2, ct2, mv)
  <2>1. QueueInv(h, mv) /\ LockInv(h, p, ct, mv)
    BY DEF InvBut
  <2>2. h.mvar[mv].locker \in Capabilities \cup {None}
    BY <1>1, TypedParts DEF MVar
  <2> QED BY <2>1, <2>2 DEF LockInv, Moves, SameAt
<1> QED BY <1>2, <1>3, <1>4, <1>5, <1>6 DEF InvBut

(* One message leaves the mail of a Capability, or several arrive.         *)
MailKept(h, b, g, b2, Y, N) ==
  /\ g.msg = h.msg /\ g.tso = h.tso /\ g.mvar = h.mvar
  /\ \A t \in Threads \ Y : Sent(h, b, Wakeup(t)) => Sent(g, b2, Wakeup(t))
  /\ \A m \in Messages \ N : Sent(h, b, ThrowTo(m)) /\ h.msg[m].info \in {"locked", "throwto"}
                                 => Sent(g, b2, ThrowTo(m))
LEMMA MailInv ==
  ASSUME NEW h, NEW b, NEW p, NEW ct, NEW cm, NEW X, NEW M, InvBut(h, b, p, ct, cm, X, M),
         NEW g \in Heap, NEW b2 \in [Capabilities -> Seq(Mail)],
         NEW Y, NEW N, X \subseteq Y, M \subseteq N, MailKept(h, b, g, b2, Y, N)
  PROVE  InvBut(g, b2, p, ct, cm, Y, N)
<1> USE DEF MailKept
<1>1. TypeInv(g, b2, p, ct, cm) /\ h \in Heap
  BY DEF InvBut, TypeInv
<1>2. \A t \in Threads : TsoInv(g, t) /\ HereInv(g, p, t)
  BY DEF InvBut, TsoInv, HereInv
<1>3. ASSUME NEW t \in Threads \ Y PROVE WakeInv(g, b2, t)
  <2>1. WakeInv(h, b, t) /\ t \in Threads \ X
    BY DEF InvBut
  <2> QED BY <2>1 DEF WakeInv
<1>4. ASSUME NEW m \in Messages \ N PROVE MsgInv(g, p, ct, cm, m) /\ PendInv(g, b2, p, ct, cm, m)
  <2>1. MsgInv(h, p, ct, cm, m) /\ PendInv(h, b, p, ct, cm, m)
    BY DEF InvBut
  <2>2. MsgInv(g, p, ct, cm, m)
    BY Zenon, <2>1 DEF MsgInv, Dead, BlockedOn
  <2>3. PendInv(g, b2, p, ct, cm, m)
    BY <2>1 DEF PendInv, InHands
  <2> QED BY <2>2, <2>3
<1>5. ASSUME NEW d \in Capabilities PROVE CapInv(g, p, ct, cm, d)
  <2>1. CapInv(h, p, ct, cm, d)
    BY DEF InvBut
  <2> QED BY Zenon, <2>1 DEF CapInv, ThrowOK, WaiterOK, PauseOK, BlockedOn
<1>6. ASSUME NEW mv \in MVars PROVE QueueInv(g, mv) /\ LockInv(g, p, ct, mv)
  <2>1. QueueInv(h, mv) /\ LockInv(h, p, ct, mv)
    BY DEF InvBut
  <2>2. \A t \in Threads : Waits(g, t, mv) <=> Waits(h, t, mv)
    BY DEF Waits
  <2>3. h \in Heap /\ g.mvar = h.mvar /\ g.tso = h.tso
    BY DEF InvBut, TypeInv
  <2>4. QueueInv(g, mv)
    BY <2>1, <2>2, <2>3, QueueKept
  <2> QED BY <2>1, <2>3, <2>4 DEF LockInv
<1> QED BY <1>1, <1>2, <1>3, <1>4, <1>5, <1>6 DEF InvBut

(* The first message of those that a Capability has taken.                 *)
LEMMA NextMail ==
  ASSUME NEW h \in Heap, NEW b \in [Capabilities -> Seq(Mail)], NEW c \in Capabilities, b[c] # <<>>
  PROVE  LET b2 == [b EXCEPT ![c] = Tail(@)] IN
         /\ Head(b[c]) \in Mail /\ b2 \in [Capabilities -> Seq(Mail)]
         /\ \A x : Sent(h, b, x) => x = Head(b[c]) \/ Sent(h, b2, x)
<1> DEFINE b2 == [b EXCEPT ![c] = Tail(@)]
<1>1. b[c] \in Seq(Mail)
  OBVIOUS
<1>2. /\ Head(b[c]) \in Mail /\ Tail(b[c]) \in Seq(Mail)
      /\ \A y : In(y, b[c]) <=> y = Head(b[c]) \/ In(y, Tail(b[c]))
  BY <1>1, TailIn
<1>3. b2 \in [Capabilities -> Seq(Mail)] /\ b2[c] = Tail(b[c]) /\ \A d \in Capabilities \ {c} : b2[d] = b[d]
  BY <1>2
<1> HIDE DEF b2
<1>4. \A x : Sent(h, b, x) => x = Head(b[c]) \/ Sent(h, b2, x)
  BY <1>2, <1>3 DEF Sent
<1> QED BY <1>2, <1>3, <1>4 DEF b2
----------------------------------------------------------------------------
(* What the handlers are made of *)

(* No other Capability has locked the MVar that a thread of c waits for.   *)
LEMMA NotWaitedFor ==
  ASSUME NEW h, NEW b, NEW p, NEW ct, NEW cm, NEW X, NEW M, InvBut(h, b, p, ct, cm, X, M),
         NEW c \in Capabilities, p[c] # "throw_mvar", NEW t \in Threads
  PROVE  \A d \in Capabilities : h.tso[t].home = c /\ p[d] = "throw_mvar" => h.msg[cm[d]].target # t
<1> SUFFICES ASSUME NEW d \in Capabilities, h.tso[t].home = c, p[d] = "throw_mvar", h.msg[cm[d]].target = t
             PROVE  FALSE
  OBVIOUS
<1>1. CapInv(h, p, ct, cm, d)
  BY DEF InvBut
<1> QED BY <1>1 DEF CapInv, WaiterOK

(* doneWithMsgThrowTo, and the wake-up of the thread that waited for it.   *)
LEMMA DealtInv ==
  ASSUME NEW h, NEW b, NEW p, NEW ct, NEW cm, NEW m \in Messages, InvBut(h, b, p, ct, cm, {}, {m}),
         NEW c \in Capabilities, p[c] # "throw_mvar",
         h.msg[m].source \in Threads, h.msg[m].target \in Threads, h.msg[m].source # h.msg[m].target,
         h.msg[m].told # "interrupted", h.msg[m].raised <= 1, h.msg[m].raised = 1 \/ Dead(h, h.msg[m].target),
         \A d \in Capabilities : Throwing(p, d) => cm[d] # m,
         \A d \in Capabilities : p[d] = "pause" => h.tso[ct[d]].info # m
  PROVE  Inv(TryWakeup(DoneWithMsgThrowTo(h, m), c, h.msg[m].source), b, p, ct, cm)
<1> DEFINE g == UnlockMsg(h, m, "null")
           s == h.msg[m].source
<1>1. InvBut(g, b, p, ct, cm, {} \cup {s}, {})
  BY RetireInv
<1> HIDE DEF g
<1>2. InvBut(g, b, p, ct, cm, {s}, {})
  BY <1>1
<1>3. \A d \in Capabilities : g.tso[s].home = c /\ p[d] = "throw_mvar" => g.msg[cm[d]].target # s
  BY <1>2, NotWaitedFor
<1>4. InvBut(TryWakeup(g, c, s), b, p, ct, cm, {s} \ {s}, {})
  BY <1>2, <1>3, TryWakeupInv
<1> QED BY <1>4 DEF Inv, DoneWithMsgThrowTo, g

(* The caller of throwTo is told that it is done.                          *)
LEMMA ReturnedInv ==
  ASSUME NEW h, NEW b, NEW p, NEW ct, NEW cm, Inv(h, b, p, ct, cm), NEW m \in Messages,
         h.msg[m].info = "done", h.msg[m].raised = 1 \/ Dead(h, h.msg[m].target)
  PROVE  Inv(Returned(h, m), b, p, ct, cm)
<1> DEFINE x == [h.msg[m] EXCEPT !.told = "returned"]
           g == [h EXCEPT !.msg[m] = x]
<1>1. h \in Heap /\ InvBut(h, b, p, ct, cm, {}, {}) /\ h.msg[m] \in Msg
  BY TypedParts DEF Inv, InvBut, TypeInv
<1>2. x \in Msg /\ x.info = "done" /\ x.locker = h.msg[m].locker /\ x.source = h.msg[m].source /\ x.target = h.msg[m].target
      /\ x.raised = h.msg[m].raised /\ x.told = "returned"
  BY <1>1 DEF Msg
<1>3. Returned(h, m) = g
  BY DEF Returned
<1> HIDE DEF x
<1>4. /\ g \in Heap /\ g.msg[m] = x /\ \A n \in Messages \ {m} : g.msg[n] = h.msg[n]
      /\ g.tso = h.tso /\ g.mvar = h.mvar /\ g.inbox = h.inbox
  BY <1>1, <1>2, PutMsg
<1> HIDE DEF g
<1>5. TypeInv(g, b, p, ct, cm)
  BY <1>1, <1>4 DEF InvBut, TypeInv
<1>6. /\ \A n \in Messages : /\ g.msg[n].info = h.msg[n].info /\ g.msg[n].locker = h.msg[n].locker
                             /\ g.msg[n].source = h.msg[n].source /\ g.msg[n].target = h.msg[n].target
                             /\ g.msg[n].raised = h.msg[n].raised
      /\ \A t, n : BlockedOn(g, t, n) <=> BlockedOn(h, t, n)
      /\ \A t : Dead(g, t) <=> Dead(h, t)
      /\ \A y : Sent(g, b, y) <=> Sent(h, b, y)
  BY <1>2, <1>4 DEF BlockedOn, Dead, Sent
<1>7. ASSUME NEW t \in Threads PROVE TsoInv(g, t)
  <2>1. TsoInv(h, t)
    BY <1>1 DEF InvBut
  <2>2. h.tso[t].why = "MsgThrowTo" => h.tso[t].info # m /\ h.tso[t].info \in Messages
    BY <2>1 DEF TsoInv
  <2> QED BY <1>4, <1>6, <2>1, <2>2 DEF TsoInv
<1>8. ASSUME NEW t \in Threads PROVE HereInv(g, p, t)
  <2>1. HereInv(h, p, t)
    BY <1>1 DEF InvBut
  <2> QED BY <1>4, <1>6, <2>1 DEF HereInv
<1>9. ASSUME NEW t \in Threads PROVE WakeInv(g, b, t)
  <2>1. WakeInv(h, b, t) /\ TsoInv(h, t)
    BY <1>1 DEF InvBut
  <2> QED BY <1>4, <1>6, <2>1 DEF WakeInv, TsoInv
<1>10. ASSUME NEW n \in Messages PROVE MsgInv(g, p, ct, cm, n) /\ PendInv(g, b, p, ct, cm, n)
  <2>1. MsgInv(h, p, ct, cm, n) /\ PendInv(h, b, p, ct, cm, n)
    BY <1>1 DEF InvBut
  <2>2. CASE n = m
    <3>1. g.msg[n].told = "returned" /\ g.msg[n].info = "done"
      BY <1>2, <1>4, <2>2
    <3>2. MsgInv(g, p, ct, cm, n)
      BY <1>6, <2>1, <2>2, <3>1 DEF MsgInv
    <3>3. PendInv(g, b, p, ct, cm, n)
      BY <3>1 DEF PendInv
    <3> QED BY <3>2, <3>3
  <2>3. CASE n # m
    <3>1. g.msg[n] = h.msg[n]
      BY <1>4, <2>3
    <3>2. MsgInv(g, p, ct, cm, n)
      BY <1>6, <2>1, <3>1 DEF MsgInv
    <3>3. PendInv(g, b, p, ct, cm, n)
      BY <1>4, <1>6, <2>1, <3>1 DEF PendInv, InHands
    <3> QED BY <3>2, <3>3
  <2> QED BY <2>2, <2>3
<1>11. ASSUME NEW d \in Capabilities PROVE CapInv(g, p, ct, cm, d)
  <2>1. CapInv(h, p, ct, cm, d)
    BY <1>1 DEF InvBut
  <2>2. Throwing(p, d) => ThrowOK(g, d, ct[d], cm[d]) /\ cm[d] \in Messages
    BY Zenon, <1>4, <1>6, <2>1 DEF CapInv, ThrowOK
  <2>3. p[d] = "throw_mvar" => WaiterOK(g, d, g.msg[cm[d]].target)
    BY Zenon, <1>4, <1>6, <2>1, <2>2 DEF CapInv, WaiterOK, Throwing
  <2>4. p[d] = "pause" => PauseOK(g, d, ct[d])
    BY <1>4, <1>6, <2>1 DEF CapInv, PauseOK
  <2> QED BY <1>4, <2>1, <2>2, <2>3, <2>4 DEF CapInv
<1>12. ASSUME NEW mv \in MVars PROVE QueueInv(g, mv) /\ LockInv(g, p, ct, mv)
  <2>1. QueueInv(h, mv) /\ LockInv(h, p, ct, mv)
    BY <1>1 DEF InvBut
  <2>2. \A t \in Threads : Waits(g, t, mv) <=> Waits(h, t, mv)
    BY <1>4 DEF Waits
  <2>3. QueueInv(g, mv)
    BY <1>1, <1>4, <2>1, <2>2, QueueKept
  <2> QED BY Zenon, <1>4, <2>1, <2>3 DEF LockInv
<1> QED BY <1>3, <1>5, <1>7, <1>8, <1>9, <1>10, <1>11, <1>12 DEF Inv, InvBut

(* A message that a Capability has locked: its caller leaves throwToMsg.   *)
InCall(h, m, c) ==
  /\ m \in Messages /\ h.msg[m].info = "locked" /\ h.msg[m].locker = c
  /\ h.msg[m].source \in Threads /\ h.msg[m].target \in Threads /\ h.msg[m].source # h.msg[m].target
  /\ h.msg[m].raised = 0 /\ h.msg[m].told = "waiting"
LEMMA CallInv ==
  ASSUME NEW h, NEW b, NEW p, NEW ct, NEW cm, Inv(h, b, p, ct, cm), NEW c \in Capabilities, Throwing(p, c)
  PROVE  InCall(h, cm[c], c) /\ ThrowOK(h, c, ct[c], cm[c])
<1>1. InvBut(h, b, p, ct, cm, {}, {})
  BY DEF Inv
<1>2. ThrowOK(h, c, ct[c], cm[c])
  BY <1>1 DEF InvBut, CapInv
<1>3. cm[c] \in Messages /\ h.msg[cm[c]].info = "locked" /\ h.msg[cm[c]].locker = c
  BY <1>2 DEF ThrowOK
<1>4. MsgInv(h, p, ct, cm, cm[c])
  BY <1>1, <1>3 DEF InvBut
<1> QED BY <1>2, <1>3, <1>4 DEF MsgInv, InCall

(* Where that leaves the rest: t was running the call, m was its message.  *)
Left(h, b, p, ct, cm, c, t, m) ==
  /\ InvBut(h, b, p, ct, cm, {}, {m}) /\ InCall(h, m, c) /\ ThrowOK(h, c, t, m)
  /\ \A d \in Capabilities : Throwing(p, d) => cm[d] # m
  /\ \A d \in Capabilities : p[d] = "pause" => h.tso[ct[d]].info # m
  /\ p[c] = "sched" /\ ct[c] = None /\ cm[c] = None
LEMMA LeaveInv ==
  ASSUME NEW h, NEW b, NEW p, NEW ct, NEW cm, Inv(h, b, p, ct, cm), NEW c \in Capabilities, Throwing(p, c),
         NEW p2, p2 = [p EXCEPT ![c] = "sched"], NEW ct2, ct2 = [ct EXCEPT ![c] = None],
         NEW cm2, cm2 = [cm EXCEPT ![c] = None]
  PROVE  Left(h, b, p2, ct2, cm2, c, ct[c], cm[c])
<1> DEFINE m == cm[c]
<1>1. InvBut(h, b, p, ct, cm, {}, {}) /\ TypeInv(h, b, p, ct, cm)
  BY DEF Inv, InvBut
<1>2. ThrowOK(h, c, ct[c], m)
  BY CallInv
<1>3. InCall(h, m, c)
  BY CallInv
<1>4. /\ TypeInv(h, b, p2, ct2, cm2) /\ Moves(p, ct, cm, p2, ct2, cm2, c)
      /\ p2[c] = "sched" /\ ct2[c] = None /\ cm2[c] = None
  BY <1>1 DEF TypeInv, Moves, SameAt, Places
<1>5. CapInv(h, p2, ct2, cm2, c)
  BY <1>4, ThreadsAssumption DEF CapInv, Throwing
<1>6. ASSUME NEW n \in Messages \ {m} PROVE NotWith(h, p, ct, cm, c, n)
  <2>1. MsgInv(h, p, ct, cm, n)
    BY <1>1 DEF InvBut
  <2>2. c # None
    BY ThreadsAssumption
  <2>3. h.msg[n].locker # c
    BY <2>1, <2>2 DEF MsgInv, Throwing
  <2> QED BY <2>3 DEF NotWith, Throwing
<1>7. ASSUME NEW mv \in MVars PROVE h.mvar[mv].locker # c
  <2>1. LockInv(h, p, ct, mv)
    BY <1>1 DEF InvBut
  <2> QED BY <2>1, ThreadsAssumption DEF LockInv, Throwing
<1>8. InvBut(h, b, p2, ct2, cm2, {}, {m})
  <2>1. Passes(h, b, p, ct, cm, p2, ct2, cm2, c, {}, {m})
    BY <1>6 DEF Passes
  <2>2. p2[c] # "pause"
    BY <1>4
  <2> HIDE DEF m
  <2> QED BY Zenon, <1>1, <1>4, <1>5, <1>7, <2>1, <2>2, MoveInv
<1>9. ASSUME NEW d \in Capabilities, Throwing(p2, d) PROVE cm2[d] # m
  <2>1. ThrowOK(h, d, ct2[d], cm2[d])
    BY <1>8, <1>9 DEF InvBut, CapInv
  <2>2. d # c
    BY <1>4, <1>9 DEF Throwing
  <2> QED BY <1>3, <2>1, <2>2 DEF ThrowOK, InCall
<1>10. ASSUME NEW d \in Capabilities, p2[d] = "pause" PROVE h.tso[ct2[d]].info # m
  <2>1. PauseOK(h, d, ct2[d])
    BY <1>8, <1>10 DEF InvBut, CapInv
  <2>2. d # c
    BY <1>4, <1>10
  <2> QED BY Zenon, <1>3, <2>1, <2>2 DEF PauseOK, InCall
<1> QED BY <1>2, <1>3, <1>4, <1>8, <1>9, <1>10 DEF Left

(* The thread of a Capability is not that of another, nor waited for by    *)
(* another.                                                                *)
LEMMA OwnThread ==
  ASSUME NEW h, NEW b, NEW p, NEW ct, NEW cm, NEW X, NEW M, InvBut(h, b, p, ct, cm, X, M),
         NEW c \in Capabilities, p[c] # "throw_mvar", NEW t \in Threads, h.tso[t].home = c, NEW d \in Capabilities
  PROVE  /\ ct[d] = t => d = c
         /\ p[d] = "throw_mvar" => h.msg[cm[d]].target # t
<1>1. CapInv(h, p, ct, cm, d) /\ t # None
  BY ThreadsAssumption DEF InvBut
<1>2. ct[d] = t => d = c
  BY <1>1 DEF CapInv
<1>3. p[d] = "throw_mvar" => h.msg[cm[d]].target # t
  BY <1>1 DEF CapInv, WaiterOK
<1> QED BY <1>2, <1>3

(* The first message blocked on a thread is taken off.                     *)
Popped(h, t) == [h EXCEPT !.tso[t].blocked = Tail(@)]
FirstBlocked(h, p, ct, c, t, m) ==
  /\ p[c] \in {"pause", "unmask", "finish"} /\ t = ct[c]
  /\ h.tso[t].blocked # <<>> /\ m = Head(h.tso[t].blocked)
LEMMA PopInv ==
  ASSUME NEW h, NEW b, NEW p, NEW ct, NEW cm, Inv(h, b, p, ct, cm), NEW c \in Capabilities, NEW t, NEW m,
         FirstBlocked(h, p, ct, c, t, m), NEW N, h.msg[m].info = "null" \/ m \in N
  PROVE  /\ t \in Threads /\ m \in Messages /\ h.msg[m].target = t /\ h.msg[m].info \notin {"free", "done"}
         /\ InvBut(Popped(h, t), b, p, ct, cm, {}, N)
         /\ OnlyThread(h, Popped(h, t), t)
         /\ Alike(h, Popped(h, t), t)
<1>0. /\ p[c] \in {"pause", "unmask", "finish"} /\ t = ct[c]
      /\ h.tso[t].blocked # <<>> /\ m = Head(h.tso[t].blocked)
  BY Zenon DEF FirstBlocked
<1>1. InvBut(h, b, p, ct, cm, {}, {}) /\ TypeInv(h, b, p, ct, cm) /\ h \in Heap
  BY DEF Inv, InvBut, TypeInv
<1>2. CapInv(h, p, ct, cm, c) /\ t \in Threads /\ t # None /\ h.tso[t].home = c
  BY <1>0, <1>1, ThreadsAssumption DEF InvBut, TypeInv, CapInv
<1> DEFINE q == h.tso[t].blocked
           u == [h.tso[t] EXCEPT !.blocked = Tail(q)]
           g == [h EXCEPT !.tso[t] = u]
<1>3. h.tso[t] \in Tso /\ TsoInv(h, t) /\ HereInv(h, p, t) /\ WakeInv(h, b, t)
  BY <1>1, <1>2, TypedParts DEF InvBut
<1>4. q \in Seq(Messages)
  BY <1>3 DEF Tso
<1>5. m \in Messages /\ Tail(q) \in Seq(Messages) /\ In(m, q) /\ \A y : In(y, q) <=> y = m \/ In(y, Tail(q))
  BY Zenon, <1>0, <1>4, TailIn
<1>6. h.msg[m].target = t /\ h.msg[m].info \notin {"free", "done"}
  BY Zenon, <1>3, <1>5 DEF TsoInv
<1>7. u \in Tso /\ u.home = h.tso[t].home /\ u.why = h.tso[t].why /\ u.info = h.tso[t].info /\ u.link = h.tso[t].link
      /\ u.what = h.tso[t].what /\ u.catch = h.tso[t].catch /\ u.stack = h.tso[t].stack /\ u.blocked = Tail(q)
  BY Zenon, <1>3, <1>5 DEF Tso
<1>8. Popped(h, t) = g
  BY DEF Popped
<1> HIDE DEF u
<1>9. OnlyThread(h, g, t) /\ g.tso[t] = u
  BY <1>1, <1>2, <1>7, PutTso DEF OnlyThread
<1> HIDE DEF g
<1>10. g.msg = h.msg /\ g.mvar = h.mvar /\ g.inbox = h.inbox
  BY <1>9 DEF OnlyThread
<1>11. TsoInv(g, t) /\ HereInv(g, p, t) /\ WakeInv(g, b, t)
  <2>1. \A n \in Messages : In(n, g.tso[t].blocked) => In(n, q)
    BY <1>5, <1>7, <1>9
  <2>2. TsoInv(g, t)
    <3>1. \A n \in Messages : In(n, g.tso[t].blocked) => g.msg[n].info \notin {"free", "done"} /\ g.msg[n].target = t
      BY <1>3, <1>10, <2>1 DEF TsoInv
    <3>2. Alike(h, g, t)
      BY <1>7, <1>9 DEF Alike
    <3>3. h.tso[t].why = "MsgThrowTo" => g.msg[h.tso[t].info].info \in {"locked", "throwto", "null"}
      BY <1>3, <1>10 DEF TsoInv
    <3> QED BY Zenon, <1>2, <1>3, <1>7, <1>9, <1>10, <3>1, <3>2, <3>3, TsoKept
  <2>3. HereInv(g, p, t)
    BY <1>3, <1>7, <1>9, <1>10, <2>1 DEF HereInv
  <2>4. WakeInv(g, b, t)
    BY <1>3, <1>7, <1>9, <1>10 DEF WakeInv, Sent
  <2> QED BY <2>2, <2>3, <2>4
<1>12. KeepsThread(h, g, t, N)
  <2>1. \A n \in Messages \ N : h.msg[n].info \in {"locked", "throwto"} /\ In(n, q) => In(n, Tail(q))
    BY <1>5
  <2>2. \A n : BlockedOn(h, t, n) => BlockedOn(g, t, n)
    BY <1>7, <1>9 DEF BlockedOn
  <2>3. \A mv : Waits(g, t, mv) <=> Waits(h, t, mv)
    BY <1>7, <1>9 DEF Waits
  <2> QED BY <1>7, <1>9, <2>1, <2>2, <2>3 DEF KeepsThread, Dead
<1>13. KeepsCaps(h, g, p, ct, cm, t)
  <2> SUFFICES ASSUME NEW d \in Capabilities
               PROVE  /\ ct[d] = t => CapInv(g, p, ct, cm, d) /\ g.tso[t].info = h.tso[t].info
                      /\ Throwing(p, d) => /\ BlockedOn(h, t, cm[d]) => BlockedOn(g, t, cm[d])
                                           /\ In(cm[d], g.tso[t].blocked) => In(cm[d], h.tso[t].blocked)
                                           /\ p[d] = "throw_mvar" /\ h.msg[cm[d]].target = t => WaiterOK(g, d, t)
    BY DEF KeepsCaps
  <2>1. /\ ct[d] = t => d = c
        /\ p[d] = "throw_mvar" => h.msg[cm[d]].target # t
    <3>1. p[c] # "throw_mvar"
      BY Zenon, <1>0
    <3> QED BY <1>1, <1>2, <3>1, OwnThread
  <2>2. ~ Throwing(p, c)
    BY Zenon, <1>0 DEF Throwing
  <2>3. p[c] = "pause" => PauseOK(g, c, t)
    BY <1>0, <1>2, <1>7, <1>9, <1>10 DEF CapInv, PauseOK
  <2>4. CapInv(g, p, ct, cm, c)
    BY <1>0, <1>2, <1>7, <1>9, <2>2, <2>3 DEF CapInv
  <2>5. BlockedOn(h, t, cm[d]) => BlockedOn(g, t, cm[d])
    BY <1>7, <1>9 DEF BlockedOn
  <2>6. In(cm[d], g.tso[t].blocked) => In(cm[d], h.tso[t].blocked)
    BY <1>5, <1>7, <1>9
  <2> QED BY <1>7, <1>9, <2>1, <2>4, <2>5, <2>6
<1>14. InvBut(g, b, p, ct, cm, {}, N)
  BY <1>1, <1>2, <1>9, <1>11, <1>12, <1>13, TsoStepInv
<1>15. Alike(h, g, t)
  BY <1>7, <1>9 DEF Alike
<1> QED BY <1>2, <1>5, <1>6, <1>8, <1>9, <1>14, <1>15

(* Whoever is not interrupted in the middle of something can be.           *)
CanBeInterrupted(h, t, m) ==
  /\ h.tso[t].what # "finished"
  /\ h.tso[t].why = "MVar" => h.tso[t].link
  /\ h.tso[t].why = "MsgThrowTo" => h.tso[t].info # m /\ h.msg[h.tso[t].info].info # "null"
Untouched(h, p, ct, cm, t) ==
  \A d \in Capabilities : Throwing(p, d) =>
    /\ ct[d] # t
    /\ h.tso[t].why = "MsgThrowTo" => h.tso[t].info # cm[d]
    /\ p[d] = "throw_mvar" => h.msg[cm[d]].target # t
LEMMA InterruptInv ==
  ASSUME NEW h, NEW b, NEW p, NEW ct, NEW cm, NEW m \in Messages, InvBut(h, b, p, ct, cm, {}, {m}),
         h.msg[m].target \in Threads, NEW t \in Threads, CanBeInterrupted(h, t, m), Untouched(h, p, ct, cm, t)
  PROVE  InvBut(Interrupt(h, t, m), b, p, ct, cm, {}, {m}) /\ Interrupted(h, Interrupt(h, t, m), t, m)
<1> DEFINE g == Interrupt(h, t, m)
<1>1. TsoInv(h, t) /\ h \in Heap
  BY DEF InvBut, TypeInv
<1>2. Interrupted(h, g, t, m)
  <2>1. h.tso[t].why = "MVar" => h.tso[t].link /\ h.tso[t].info \in MVars /\ QueueInv(h, h.tso[t].info)
    BY Zenon, <1>1 DEF TsoInv, CanBeInterrupted, InvBut
  <2>2. h.tso[t].why = "MsgThrowTo" => h.tso[t].info \in Messages /\ h.tso[t].info # m
    BY <1>1 DEF TsoInv, CanBeInterrupted
  <2>3. h.tso[t].link => h.tso[t].why = "MVar"
    BY <1>1 DEF TsoInv
  <2> QED BY <1>1, <2>1, <2>2, <2>3, InterruptEffect
<1> HIDE DEF g
<1>3. InvBut(g, b, p, ct, cm, {}, {m})
  <2>1. \A n \in Messages \ {m} : n # m
    OBVIOUS
  <2>2. \A n \in {m} : h.msg[n].target \in Threads
    OBVIOUS
  <2>3. h.tso[t].why = "MsgThrowTo" =>
          h.tso[t].info # m /\ h.tso[t].info \notin {m} /\ h.msg[h.tso[t].info].info # "null"
    BY DEF CanBeInterrupted
  <2>4. h.tso[t].what # "finished"
    BY DEF CanBeInterrupted
  <2>5. \A d \in Capabilities : Throwing(p, d) =>
           /\ ct[d] # t
           /\ h.tso[t].why = "MsgThrowTo" => h.tso[t].info # cm[d]
           /\ p[d] = "throw_mvar" => h.msg[cm[d]].target # t
    BY DEF Untouched
  <2> QED BY <1>2, <2>1, <2>2, <2>3, <2>4, <2>5, InterruptedInv
<1> QED BY <1>2, <1>3 DEF g

(* maybePerformBlockedException, one turn: the first message is performed, *)
(* or dropped since it was revoked.                                        *)
LEMMA PerformInv ==
  ASSUME NEW h, NEW b, NEW p, NEW ct, NEW cm, Inv(h, b, p, ct, cm),
         NEW c \in Capabilities, p[c] \in {"pause", "unmask"}, NEW t, t = ct[c], h.tso[t].blocked # <<>>,
         h.msg[Head(h.tso[t].blocked)].info # "locked"
  PROVE  Inv(PerformBlocked(h, c, t), b, p, ct, cm)
<1> DEFINE m == Head(h.tso[t].blocked)
           f == Popped(h, t)
           g == Interrupt(f, t, m)
<1>1. InvBut(h, b, p, ct, cm, {}, {}) /\ h \in Heap
  BY Zenon DEF Inv, InvBut, TypeInv
<1>2. /\ t \in Threads /\ m \in Messages /\ h.msg[m].target = t /\ h.msg[m].info \notin {"free", "done"}
      /\ InvBut(f, b, p, ct, cm, {}, {m}) /\ (h.msg[m].info = "null" => InvBut(f, b, p, ct, cm, {}, {}))
      /\ OnlyThread(h, f, t) /\ Alike(h, f, t)
  <2>1. FirstBlocked(h, p, ct, c, t, m)
    BY Zenon DEF FirstBlocked
  <2> HIDE DEF m, f
  <2> DEFINE N == {m}
  <2>5. h.msg[m].info = "null" \/ m \in N
    OBVIOUS
  <2> HIDE DEF N
  <2>6. /\ t \in Threads /\ m \in Messages /\ h.msg[m].target = t /\ h.msg[m].info \notin {"free", "done"}
        /\ InvBut(f, b, p, ct, cm, {}, N)
        /\ OnlyThread(h, f, t) /\ Alike(h, f, t)
    BY <2>1, <2>5, PopInv DEF f
  <2>3. /\ t \in Threads /\ m \in Messages /\ h.msg[m].target = t /\ h.msg[m].info \notin {"free", "done"}
        /\ InvBut(f, b, p, ct, cm, {}, {m})
        /\ OnlyThread(h, f, t) /\ Alike(h, f, t)
    BY Zenon, <2>6 DEF N
  <2>4. h.msg[m].info = "null" => InvBut(f, b, p, ct, cm, {}, {})
    BY <2>1, PopInv DEF f
  <2> QED BY Zenon, <2>3, <2>4
<1>3. PerformBlocked(h, c, t) = IF h.msg[m].info = "null" THEN f
                                ELSE TryWakeup(DoneWithMsgThrowTo(g, m), c, h.msg[m].source)
  <2>1. f.msg = h.msg
    BY Zenon, <1>2 DEF OnlyThread
  <2> QED BY DEF PerformBlocked, Popped
<1> HIDE DEF m, f
<1>4. CASE h.msg[m].info = "null"
  BY Zenon, <1>2, <1>3, <1>4 DEF Inv
<1>5. CASE h.msg[m].info # "null"
  <2>1. h.msg[m].info = "throwto" /\ h.msg[m] \in Msg
    BY Zenon, <1>1, <1>2, <1>5, TypedParts DEF Msg, m
  <2>2. /\ h.msg[m].locker = None /\ h.msg[m].raised = 0 /\ h.msg[m].told = "waiting"
        /\ h.msg[m].source \in Threads /\ h.msg[m].source # t
    BY Zenon, <1>1, <1>2, <2>1 DEF InvBut, MsgInv
  <2>3. /\ f \in Heap /\ f.msg = h.msg /\ f.tso[t].why = h.tso[t].why /\ f.tso[t].info = h.tso[t].info
        /\ f.tso[t].link = h.tso[t].link /\ f.tso[t].what = h.tso[t].what /\ f.tso[t].home = h.tso[t].home
    BY Zenon, <1>2 DEF OnlyThread, Alike
  <2>4. CapInv(f, p, ct, cm, c) /\ t # None /\ f.tso[t].home = c
    BY Zenon, <1>2, ThreadsAssumption DEF InvBut, CapInv
  <2>5. f.tso[t].why = "MsgThrowTo" =>
          /\ p[c] = "pause" /\ f.tso[t].info \in Messages /\ f.msg[f.tso[t].info].locker = c
          /\ f.tso[t].info # m /\ f.msg[f.tso[t].info].info # "null"
    <3> SUFFICES ASSUME f.tso[t].why = "MsgThrowTo"
                 PROVE  /\ p[c] = "pause" /\ f.tso[t].info \in Messages /\ f.msg[f.tso[t].info].locker = c
                        /\ f.tso[t].info # m /\ f.msg[f.tso[t].info].info # "null"
      BY Zenon
    <3>1. p[c] = "pause" /\ PauseOK(f, c, t)
      BY <2>4 DEF CapInv
    <3>2. TsoInv(f, t)
      BY <1>2 DEF InvBut
    <3>3. f.tso[t].info \in Messages /\ f.msg[f.tso[t].info].source = t /\ f.msg[f.tso[t].info].locker = c
      BY Zenon, <3>1, <3>2 DEF TsoInv, PauseOK
    <3>4. f.tso[t].info # m
      BY Zenon, <2>2, <2>3, <3>3
    <3>5. f.msg[f.tso[t].info].info = "locked"
      BY Zenon, <1>2, <3>3, <3>4, ThreadsAssumption DEF InvBut, MsgInv
    <3> QED BY Zenon, <3>1, <3>3, <3>4, <3>5
  <2>6. CanBeInterrupted(f, t, m)
    <3>1. f.tso[t].what # "finished" /\ (f.tso[t].why = "MVar" => f.tso[t].link)
      BY Zenon, <2>4 DEF CapInv, PauseOK
    <3> QED BY Zenon, <2>5, <3>1 DEF CanBeInterrupted
  <2>7. Untouched(f, p, ct, cm, t)
    <3> SUFFICES ASSUME NEW d \in Capabilities, Throwing(p, d)
                 PROVE  /\ ct[d] # t
                        /\ f.tso[t].why = "MsgThrowTo" => f.tso[t].info # cm[d]
                        /\ p[d] = "throw_mvar" => f.msg[cm[d]].target # t
      BY Zenon DEF Untouched
    <3>1. d # c
      BY DEF Throwing
    <3>2. p[c] # "throw_mvar"
      BY Zenon
    <3>3. ct[d] # t /\ (p[d] = "throw_mvar" => f.msg[cm[d]].target # t)
      <4>1. InvBut(f, b, p, ct, cm, {}, {m}) /\ t \in Threads /\ f.tso[t].home = c
        BY Zenon, <1>2, <2>4
      <4>2. /\ ct[d] = t => d = c
            /\ p[d] = "throw_mvar" => f.msg[cm[d]].target # t
        BY <3>2, <4>1, OwnThread
      <4> QED BY Zenon, <3>1, <4>2
    <3>4. f.msg[cm[d]].locker = d
      BY Zenon, <1>2 DEF InvBut, CapInv, ThrowOK
    <3> QED BY Zenon, <2>5, <3>1, <3>3, <3>4
  <2>8. InvBut(g, b, p, ct, cm, {}, {m}) /\ Interrupted(f, g, t, m)
    BY Zenon, <1>2, <2>3, <2>6, <2>7, InterruptInv
  <2> HIDE DEF g
  <2>9. /\ g.msg[m].source = h.msg[m].source /\ g.msg[m].target = t /\ g.msg[m].told = "waiting" /\ g.msg[m].raised = 1
        /\ g.msg[m].info = "throwto" /\ g.msg[m].locker = None
    <3>1. g.msg[m] = [h.msg[m] EXCEPT !.raised = @ + 1]
      BY Zenon, <1>2, <2>3, <2>8 DEF Interrupted
    <3> QED BY <1>2, <2>1, <2>2, <3>1 DEF Msg
  <2>10. \A d \in Capabilities : Throwing(p, d) => cm[d] # m
    BY Zenon, <2>8, <2>9 DEF InvBut, CapInv, ThrowOK
  <2>11. ASSUME NEW d \in Capabilities, p[d] = "pause" PROVE g.tso[ct[d]].info # m
    <3>1. PauseOK(g, d, ct[d]) /\ d # None
      BY Zenon, <2>8, <2>11, ThreadsAssumption DEF InvBut, CapInv
    <3> QED BY Zenon, <1>2, <2>9, <3>1 DEF PauseOK
  <2>12. p[c] # "throw_mvar"
    BY Zenon
  <2>13. Inv(TryWakeup(DoneWithMsgThrowTo(g, m), c, g.msg[m].source), b, p, ct, cm)
    BY <1>2, <2>2, <2>8, <2>9, <2>10, <2>11, <2>12, DealtInv
  <2> QED BY Zenon, <1>3, <1>5, <2>9, <2>13
<1> QED BY Zenon, <1>4, <1>5

(* The pause ends: the thread gives up what it had locked to block on.     *)
LEMMA UnlockInv ==
  ASSUME NEW h, NEW b, NEW p, NEW ct, NEW cm, Inv(h, b, p, ct, cm), NEW c \in Capabilities, p[c] = "pause",
         NEW t, t = ct[c]
  PROVE  Inv(Unlock(h, t), b, [p EXCEPT ![c] = "sched"], [ct EXCEPT ![c] = None], cm)
<1> DEFINE p2 == [p EXCEPT ![c] = "sched"]
           ct2 == [ct EXCEPT ![c] = None]
           x == h.tso[t].info
           g == Unlock(h, t)
<1>1. InvBut(h, b, p, ct, cm, {}, {}) /\ TypeInv(h, b, p, ct, cm) /\ h \in Heap
  BY DEF Inv, InvBut, TypeInv
<1>2. CapInv(h, p, ct, cm, c) /\ t \in Threads /\ h.tso[t].home = c /\ PauseOK(h, c, t) /\ cm[c] = None
  BY Zenon, <1>1, ThreadsAssumption DEF InvBut, TypeInv, CapInv, Throwing
<1>3. TsoInv(h, t) /\ x \in MVars \cup Messages /\ c # None
  <2>1. h.tso[t] \in Tso
    BY <1>1, <1>2, TypedParts
  <2> QED BY Zenon, <1>1, <1>2, <2>1, ThreadsAssumption DEF InvBut, PauseOK, Tso
<1>4. /\ TypeInv(h, b, p2, ct2, cm) /\ Moves(p, ct, cm, p2, ct2, cm, c) /\ p2[c] = "sched" /\ ct2[c] = None
  BY <1>1 DEF TypeInv, Moves, SameAt, Places
<1> HIDE DEF p2, ct2
<1>5. \A d \in Capabilities : p2[d] = "pause" => d # c /\ p[d] = "pause" /\ ct2[d] = ct[d]
  BY <1>4 DEF Moves, SameAt
<1>6. CASE x \in MVars
  <2> DEFINE v == [h.mvar[x] EXCEPT !.locker = None]
             f == [h EXCEPT !.mvar[x] = v]
  <2> HIDE DEF x
  <2>1. h.mvar[x] \in MVar
    BY <1>1, <1>6, TypedParts
  <2>2. v \in MVar /\ v.locker = None /\ v.queue = h.mvar[x].queue /\ v.full = h.mvar[x].full
    BY <2>1 DEF MVar
  <2> HIDE DEF v
  <2>3. /\ f \in Heap /\ f.mvar[x] = v /\ \A n \in MVars \ {x} : f.mvar[n] = h.mvar[n]
        /\ f.tso = h.tso /\ f.msg = h.msg /\ f.inbox = h.inbox
    BY <1>1, <1>6, <2>2, PutMVar_
  <2>4. g = f
    BY <1>6 DEF Unlock, x, v
  <2> HIDE DEF f, g
  <2>5. \A d \in Capabilities : d # c => h.mvar[x].locker # d
    BY Zenon, <1>2, <1>6 DEF PauseOK, x
  <2>7. TypeInv(f, b, p2, ct2, cm)
    BY <1>4, <2>3 DEF TypeInv
  <2>8. \A u \in Threads : TsoInv(f, u) /\ WakeInv(f, b, u)
    BY <1>1, <2>3 DEF InvBut, TsoInv, WakeInv, Sent
  <2>9. \A u \in Threads : HereInv(f, p2, u)
    <3>1. \A m \in Messages : h.msg[m].locker \in Capabilities \cup {None}
      BY <1>1, TypedParts DEF Msg
    <3> QED BY <1>1, <1>5, <2>3, <3>1 DEF InvBut, HereInv
  <2>10. ASSUME NEW m \in Messages PROVE MsgInv(f, p2, ct2, cm, m) /\ PendInv(f, b, p2, ct2, cm, m)
    <3>1. MsgInv(h, p, ct, cm, m) /\ PendInv(h, b, p, ct, cm, m) /\ f.msg[m] = h.msg[m]
      BY <1>1, <2>3 DEF InvBut
    <3>2. \A u, n : BlockedOn(f, u, n) <=> BlockedOn(h, u, n)
      BY <2>3 DEF BlockedOn
    <3>3. h.msg[m].info = "locked" => SameAt(p, ct, cm, p2, ct2, cm, h.msg[m].locker)
      <4>1. h.msg[m].locker \in Capabilities \cup {None}
        BY <1>1, TypedParts DEF Msg
      <4>2. h.msg[m].locker = c /\ h.msg[m].info = "locked" => h.tso[t].info = m
        BY <1>2, <3>1 DEF MsgInv, Throwing, BlockedOn
      <4>3. m \notin MVars
        BY ThreadsAssumption DEF Messages
      <4> QED BY <1>4, <1>6, <3>1, <4>1, <4>2, <4>3 DEF MsgInv, Moves, x
    <3>4. MsgInv(f, p2, ct2, cm, m)
      BY <2>3, <3>1, <3>2, <3>3, MsgKept DEF DeadKept, Dead
    <3>5. PendInv(f, b, p2, ct2, cm, m)
      <4>1. \A y : Sent(f, b, y) <=> Sent(h, b, y)
        BY <2>3 DEF Sent
      <4>2. \A d \in Capabilities : p[d] = "finish" => p2[d] = "finish" /\ ct2[d] = ct[d]
        BY <1>4 DEF Moves, SameAt
      <4> QED BY <2>3, <3>1, <4>1, <4>2, PendKept
    <3> QED BY <3>4, <3>5
  <2>11. ASSUME NEW d \in Capabilities PROVE CapInv(f, p2, ct2, cm, d)
    <3>1. CASE d = c
      BY <1>2, <1>4, <3>1 DEF CapInv, Throwing
    <3>2. CASE d # c
      <4>1. CapInv(h, p, ct, cm, d) /\ SameAt(p, ct, cm, p2, ct2, cm, d)
        BY <1>1, <1>4, <3>2 DEF InvBut, Moves
      <4>2. p[d] = "pause" => PauseOK(f, d, ct[d])
        <5>1. SUFFICES ASSUME p[d] = "pause" PROVE PauseOK(f, d, ct[d])
          OBVIOUS
        <5>2. PauseOK(h, d, ct[d])
          BY <4>1, <5>1 DEF CapInv
        <5>3. h.tso[ct[d]].info # x
          BY <2>5, <3>2, <5>2, <1>6 DEF PauseOK
        <5> QED BY <2>3, <5>2, <5>3 DEF PauseOK
      <4>3. \A u, n : BlockedOn(f, u, n) <=> BlockedOn(h, u, n)
        BY <2>3 DEF BlockedOn
      <4>4. ct[d] # None => Alike(h, f, ct[d])
        BY <2>3 DEF Alike
      <4>5. p[d] = "throw_mvar" => WaiterOK(f, d, h.msg[cm[d]].target)
        BY Zenon, <2>3, <4>1 DEF CapInv, WaiterOK
      <4> QED BY <2>3, <4>1, <4>2, <4>3, <4>4, <4>5, CapKept
    <3> QED BY <3>1, <3>2
  <2>12. ASSUME NEW mv \in MVars PROVE QueueInv(f, mv) /\ LockInv(f, p2, ct2, mv)
    <3>1. QueueInv(h, mv) /\ LockInv(h, p, ct, mv)
      BY <1>1 DEF InvBut
    <3>2. \A u \in Threads : Waits(f, u, mv) <=> Waits(h, u, mv)
      BY <2>3 DEF Waits
    <3>3. f.mvar[mv].queue = h.mvar[mv].queue /\ f.mvar[mv].full = h.mvar[mv].full
      BY <2>2, <2>3
    <3>4. QueueInv(f, mv)
      BY <1>1, <2>3, <3>1, <3>2, <3>3, QueueKept
    <3>5. h.mvar[mv].locker \in Capabilities \cup {None}
      BY <1>1, TypedParts DEF MVar
    <3>6. CASE mv = x
      BY <2>2, <2>3, <3>4, <3>6 DEF LockInv
    <3>7. CASE mv # x
      <4>1. h.mvar[mv].locker # c
        BY <1>3, <3>1, <3>7 DEF LockInv, x
      <4> QED BY <1>4, <2>3, <3>1, <3>4, <3>5, <3>7, <4>1 DEF LockInv, Moves, SameAt
    <3> QED BY <3>6, <3>7
  <2>13. InvBut(f, b, p2, ct2, cm, {}, {})
    BY <2>7, <2>8, <2>9, <2>10, <2>11, <2>12 DEF InvBut
  <2> QED BY <2>4, <2>13 DEF Inv, g, p2, ct2
<1>7. CASE x \in Messages
  <2>1. x \notin MVars
    BY <1>7, ThreadsAssumption DEF Messages
  <2>2. /\ CapInv(h, p2, ct2, cm, c)
        /\ \A mv \in MVars : h.mvar[mv].locker # c
        /\ p2[c] # "pause"
    <3>1. CapInv(h, p2, ct2, cm, c)
      BY <1>2, <1>4 DEF CapInv, Throwing
    <3>2. \A mv \in MVars : h.mvar[mv].locker # c
      BY <1>1, <1>3, <2>1 DEF InvBut, LockInv, x
    <3> QED BY <1>4, <3>1, <3>2
  <2>3. \A n \in Messages : h.msg[n].locker = c => n = x /\ h.msg[n].info = "locked" /\ BlockedOn(h, t, n) /\ h.msg[n].source = t
    BY <1>1, <1>2, <1>3 DEF InvBut, MsgInv, Throwing, BlockedOn, x
  <2>4. \A n \in Messages : n # x => NotWith(h, p, ct, cm, c, n)
    BY <1>2, <2>3, ThreadsAssumption DEF NotWith, Messages
  <2>5. CASE h.msg[x].info = "locked"
    <3>1. h.msg[x].locker = c
      <4>1. MsgInv(h, p, ct, cm, x)
        BY <1>1, <1>7 DEF InvBut
      <4> QED BY <1>2, <1>7, <2>5 DEF PauseOK
    <3>2. g = UnlockMsg(h, x, "throwto")
      BY <2>1, <2>5 DEF Unlock
    <3>3. BlockedOn(h, t, x) /\ h.msg[x].source = t
      BY <1>7, <2>3, <3>1
    <3> DEFINE f == UnlockMsg(h, x, "throwto")
    <3>4. /\ f \in Heap /\ f.tso = h.tso /\ f.mvar = h.mvar /\ f.inbox = h.inbox /\ f.balance = h.balance
          /\ f.msg[x].info = "throwto" /\ f.msg[x].locker = None
          /\ f.msg[x].source = h.msg[x].source /\ f.msg[x].target = h.msg[x].target
          /\ f.msg[x].raised = h.msg[x].raised /\ f.msg[x].told = h.msg[x].told
      <4>1. h \in Heap /\ x \in Messages /\ "throwto" \in Headers
        BY <1>1, <1>7 DEF Headers
      <4> HIDE DEF x
      <4> QED BY <4>1, UnlockEffect
    <3> HIDE DEF f, x, g
    <3>5. InvBut(h, b, p2, ct2, cm, {}, {x})
      <4>1. Passes(h, b, p, ct, cm, p2, ct2, cm, c, {}, {x})
        BY <2>4 DEF Passes
      <4> QED BY <1>1, <1>4, <2>2, <4>1, MoveInv
    <3>6. MsgInv(h, p, ct, cm, x) /\ PendInv(h, b, p, ct, cm, x)
      BY <1>1, <1>7 DEF InvBut
    <3>7. MsgInv(f, p2, ct2, cm, x)
      <4>1. Dead(f, h.msg[x].target) <=> Dead(h, h.msg[x].target)
        BY <3>4 DEF Dead
      <4>2. BlockedOn(f, t, x)
        BY <3>3, <3>4 DEF BlockedOn
      <4> QED BY <2>5, <3>3, <3>4, <3>6, <4>1, <4>2 DEF MsgInv
    <3>8. PendInv(f, b, p2, ct2, cm, x)
      <4>1. InHands(h, b, p, ct, cm, x)
        BY <2>5, <3>6 DEF PendInv
      <4>2. \A y : Sent(f, b, y) <=> Sent(h, b, y)
        BY <3>4 DEF Sent
      <4>3. \A d \in Capabilities : p[d] = "finish" => p2[d] = "finish" /\ ct2[d] = ct[d]
        BY <1>4 DEF Moves, SameAt
      <4> QED BY <3>4, <4>1, <4>2, <4>3 DEF PendInv, InHands
    <3>9. \A d \in Capabilities : Throwing(p2, d) => cm[d] # x
      <4>1. \A d \in Capabilities : Throwing(p2, d) => d # c /\ ThrowOK(h, d, ct2[d], cm[d])
        BY <1>4, <3>5 DEF InvBut, CapInv, Throwing
      <4> QED BY <3>1, <4>1 DEF ThrowOK
    <3>10. \A d \in Capabilities : p2[d] = "pause" => h.tso[ct2[d]].info # x
      <4>1. \A d \in Capabilities : p2[d] = "pause" => d # c /\ PauseOK(h, d, ct2[d])
        BY <1>4, <3>5 DEF InvBut, CapInv
      <4> QED BY <1>7, <2>5, <3>1, <4>1 DEF PauseOK
    <3>11. InvBut(f, b, p2, ct2, cm, {}, {})
      <4>1. {} \subseteq {} /\ "throwto" \in {"throwto", "null", "done"}
        OBVIOUS
      <4>2. \A u \in Threads : BlockedOn(h, u, x) => "throwto" \in {"throwto", "null"} /\ ("throwto" = "null" => u \in {})
        OBVIOUS
      <4>3. \A d \in Capabilities : p2[d] = "pause" /\ h.tso[ct2[d]].info = x
                                     => "throwto" = "null" /\ h.tso[ct2[d]].why # "MsgThrowTo"
        BY <3>10
      <4> QED BY <1>7, <3>5, <3>7, <3>8, <3>9, <4>1, <4>2, <4>3, UnlockMsgInv DEF f
    <3> QED BY <3>2, <3>11 DEF Inv, f, g, p2, ct2
  <2>6. CASE h.msg[x].info # "locked"
    <3>1. g = h
      BY <2>1, <2>6 DEF Unlock
    <3>2. \A n \in Messages : NotWith(h, p, ct, cm, c, n)
      BY <1>2, <2>3, <2>6, ThreadsAssumption DEF NotWith, Messages
    <3>3. Passes(h, b, p, ct, cm, p2, ct2, cm, c, {}, {})
      BY <3>2 DEF Passes
    <3> HIDE DEF x, g
    <3>4. InvBut(h, b, p2, ct2, cm, {}, {})
      BY <1>1, <1>4, <2>2, <3>3, MoveInv
    <3> QED BY <3>1, <3>4 DEF Inv, g, p2, ct2
  <2> QED BY <2>5, <2>6
<1> QED BY <1>3, <1>6, <1>7
----------------------------------------------------------------------------
(* The actions of a Capability that deals with blocked exceptions *)

LEMMA ThreadPausedInv ==
  ASSUME IInv, NEW c \in Capabilities, ThreadPaused(c)
  PROVE  IInv'
<1> DEFINE t == curTso[c]
           h == heap
<1>1. Inv(h, batch, pc, curTso, curMsg) /\ pc[c] = "pause" /\ Performs(c, TRUE) /\ batch' = batch /\ curMsg' = curMsg
  BY DEF IInv, ThreadPaused
<1>2. CASE heap' = Unlock(h, t) /\ ToScheduler(c)
  BY <1>1, <1>2, UnlockInv DEF IInv, ToScheduler
<1>3. CASE h.tso[t].blocked # <<>> /\ h.msg[Head(h.tso[t].blocked)].info # "locked"
           /\ heap' = PerformBlocked(h, c, t) /\ Stays(c)
  <2>1. pc[c] \in {"pause", "unmask"} /\ t = curTso[c]
    BY <1>1
  <2>2. Inv(PerformBlocked(h, c, t), batch, pc, curTso, curMsg)
    BY Zenon, <1>1, <1>3, <2>1, PerformInv
  <2> QED BY <1>1, <1>3, <2>2 DEF IInv, Stays
<1>4. CASE h.tso[t].blocked # <<>> /\ h.msg[Head(h.tso[t].blocked)].info # "locked"
           /\ heap' = Unlock(PerformBlocked(h, c, t), t) /\ ToScheduler(c)
  <2>1. pc[c] \in {"pause", "unmask"} /\ t = curTso[c]
    BY <1>1
  <2> DEFINE f == PerformBlocked(h, c, t)
  <2>2. Inv(f, batch, pc, curTso, curMsg)
    BY Zenon, <1>1, <1>4, <2>1, PerformInv
  <2> HIDE DEF f
  <2>3. Inv(Unlock(f, t), batch, [pc EXCEPT ![c] = "sched"], [curTso EXCEPT ![c] = None], curMsg)
    BY <1>1, <2>1, <2>2, UnlockInv
  <2> QED BY Zenon, <1>1, <1>4, <2>3 DEF IInv, ToScheduler, f
<1>5. \/ heap' = Unlock(h, t) /\ ToScheduler(c)
      \/ /\ h.tso[t].blocked # <<>> /\ h.msg[Head(h.tso[t].blocked)].info # "locked"
         /\ \/ heap' = PerformBlocked(h, c, t) /\ Stays(c)
            \/ heap' = Unlock(PerformBlocked(h, c, t), t) /\ ToScheduler(c)
  BY Zenon, <1>1 DEF Performs, PerformsBlocked
<1> QED BY Zenon, <1>2, <1>3, <1>4, <1>5

(* A Capability with nothing in its hands goes back to the scheduler.      *)
LEMMA RestInv ==
  ASSUME NEW h, NEW b, NEW p, NEW ct, NEW cm, Inv(h, b, p, ct, cm), NEW c \in Capabilities,
         p[c] \in {"unmask", "finish"}, p[c] = "finish" => h.tso[ct[c]].blocked = <<>>
  PROVE  Inv(h, b, [p EXCEPT ![c] = "sched"], [ct EXCEPT ![c] = None], cm)
<1> DEFINE p2 == [p EXCEPT ![c] = "sched"]
           ct2 == [ct EXCEPT ![c] = None]
<1>1. InvBut(h, b, p, ct, cm, {}, {}) /\ TypeInv(h, b, p, ct, cm)
  BY DEF Inv, InvBut
<1>2. CapInv(h, p, ct, cm, c) /\ cm[c] = None /\ c # None
  BY <1>1, ThreadsAssumption DEF InvBut, CapInv, Throwing
<1>3. /\ TypeInv(h, b, p2, ct2, cm) /\ Moves(p, ct, cm, p2, ct2, cm, c) /\ p2[c] = "sched" /\ ct2[c] = None
  BY <1>1 DEF TypeInv, Moves, SameAt, Places
<1> HIDE DEF p2, ct2
<1>4. CapInv(h, p2, ct2, cm, c) /\ p2[c] # "pause"
  BY <1>2, <1>3 DEF CapInv, Throwing
<1>5. \A mv \in MVars : h.mvar[mv].locker # c
  BY <1>1, <1>2 DEF InvBut, LockInv
<1>6. ASSUME NEW m \in Messages PROVE NotWith(h, p, ct, cm, c, m)
  <2>1. MsgInv(h, p, ct, cm, m)
    BY <1>1 DEF InvBut
  <2>2. h.msg[m].locker # c
    BY <1>2, <2>1 DEF MsgInv, Throwing
  <2>3. cm[c] # m
    BY <1>2, ThreadsAssumption DEF Messages
  <2> QED BY <2>2, <2>3, NothingIn DEF NotWith
<1>7. Passes(h, b, p, ct, cm, p2, ct2, cm, c, {}, {})
  BY <1>6 DEF Passes
<1>8. InvBut(h, b, p2, ct2, cm, {}, {})
  BY <1>1, <1>3, <1>4, <1>5, <1>7, MoveInv
<1> QED BY <1>8 DEF Inv, p2, ct2

LEMMA UnmaskedInv ==
  ASSUME IInv, NEW c \in Capabilities, Unmasked(c)
  PROVE  IInv'
<1> DEFINE t == curTso[c]
           h == heap
<1>1. Inv(h, batch, pc, curTso, curMsg) /\ pc[c] = "unmask" /\ Performs(c, FALSE) /\ batch' = batch /\ curMsg' = curMsg
  BY DEF IInv, Unmasked
<1>2. CASE heap' = h /\ ToScheduler(c)
  <2>1. pc[c] \in {"unmask", "finish"} /\ pc[c] # "finish"
    BY <1>1
  <2>2. Inv(h, batch, [pc EXCEPT ![c] = "sched"], [curTso EXCEPT ![c] = None], curMsg)
    BY <1>1, <2>1, RestInv
  <2> QED BY <1>1, <1>2, <2>2 DEF IInv, ToScheduler
<1>3. CASE h.tso[t].blocked # <<>> /\ h.msg[Head(h.tso[t].blocked)].info # "locked"
           /\ heap' = PerformBlocked(h, c, t) /\ (Stays(c) \/ ToScheduler(c))
  <2>1. pc[c] \in {"pause", "unmask"} /\ t = curTso[c]
    BY <1>1
  <2> DEFINE f == PerformBlocked(h, c, t)
  <2>2. Inv(f, batch, pc, curTso, curMsg)
    BY Zenon, <1>1, <1>3, <2>1, PerformInv
  <2> HIDE DEF f
  <2>3. CASE Stays(c)
    BY Zenon, <1>1, <1>3, <2>2, <2>3 DEF IInv, Stays, f
  <2>4. CASE ToScheduler(c)
    <3>1. pc[c] \in {"unmask", "finish"} /\ pc[c] # "finish"
      BY <1>1
    <3>2. Inv(f, batch, [pc EXCEPT ![c] = "sched"], [curTso EXCEPT ![c] = None], curMsg)
      BY <2>2, <3>1, RestInv
    <3> QED BY Zenon, <1>1, <1>3, <2>4, <3>2 DEF IInv, ToScheduler, f
  <2> QED BY Zenon, <1>3, <2>3, <2>4
<1>4. \/ heap' = h /\ ToScheduler(c)
      \/ /\ h.tso[t].blocked # <<>> /\ h.msg[Head(h.tso[t].blocked)].info # "locked"
         /\ heap' = PerformBlocked(h, c, t) /\ (Stays(c) \/ ToScheduler(c))
  BY Zenon, <1>1 DEF Performs, PerformsBlocked
<1> QED BY Zenon, <1>2, <1>3, <1>4

LEMMA AwakenInv ==
  ASSUME IInv, NEW c \in Capabilities, AwakenBlockedExceptionQueue(c)
  PROVE  IInv'
<1> DEFINE t == curTso[c]
           h == heap
           m == Head(h.tso[t].blocked)
           f == Popped(h, t)
<1>1. Inv(h, batch, pc, curTso, curMsg) /\ pc[c] = "finish" /\ batch' = batch /\ curMsg' = curMsg
  BY Zenon DEF IInv, AwakenBlockedExceptionQueue
<1>2. CASE h.tso[t].blocked = <<>>
  <2>1. ToScheduler(c) /\ heap' = h
    BY <1>2 DEF AwakenBlockedExceptionQueue
  <2>2. pc[c] \in {"unmask", "finish"}
    BY <1>1
  <2>3. Inv(h, batch, [pc EXCEPT ![c] = "sched"], [curTso EXCEPT ![c] = None], curMsg)
    BY <1>1, <1>2, <2>2, RestInv
  <2> QED BY <1>1, <2>1, <2>3 DEF IInv, ToScheduler
<1>3. CASE h.tso[t].blocked # <<>>
  <2>1. /\ h.msg[m].info # "locked" /\ Stays(c)
        /\ heap' = IF h.msg[m].info = "null" THEN f
                   ELSE TryWakeup(DoneWithMsgThrowTo(f, m), c, h.msg[m].source)
    BY Zenon, <1>3 DEF AwakenBlockedExceptionQueue, Popped
  <2>2. FirstBlocked(h, pc, curTso, c, t, m)
    BY <1>1, <1>3 DEF FirstBlocked
  <2> HIDE DEF m, f, t, h
  <2>3. CASE h.msg[m].info = "null"
    <3>1. InvBut(f, batch, pc, curTso, curMsg, {}, {})
      BY <1>1, <2>2, <2>3, PopInv DEF f
    <3> QED BY <1>1, <2>1, <2>3, <3>1 DEF IInv, Inv, Stays
  <2>4. CASE h.msg[m].info # "null"
    <3> DEFINE N == {m}
    <3>1. h.msg[m].info = "null" \/ m \in N
      OBVIOUS
    <3> HIDE DEF N
    <3>2. /\ t \in Threads /\ m \in Messages /\ h.msg[m].target = t /\ h.msg[m].info \notin {"free", "done"}
          /\ InvBut(f, batch, pc, curTso, curMsg, {}, N)
          /\ OnlyThread(h, f, t) /\ Alike(h, f, t)
      BY <1>1, <2>2, <3>1, PopInv DEF f
    <3>3. InvBut(f, batch, pc, curTso, curMsg, {}, {m})
      BY <3>2 DEF N
    <3>4. h \in Heap /\ h.msg[m] \in Msg /\ MsgInv(h, pc, curTso, curMsg, m) /\ CapInv(h, pc, curTso, curMsg, c)
      BY <1>1, <3>2, TypedParts DEF Inv, InvBut, TypeInv
    <3>5. h.msg[m].info = "throwto"
      BY <2>1, <2>4, <3>2, <3>4 DEF Msg
    <3>6. f.msg = h.msg /\ f.tso[t].what = h.tso[t].what
      BY <3>2 DEF OnlyThread, Alike
    <3>7. /\ f.msg[m].source \in Threads /\ f.msg[m].target = t /\ f.msg[m].source # t
          /\ f.msg[m].told = "waiting" /\ f.msg[m].raised = 0 /\ f.msg[m].info = "throwto" /\ f.msg[m].locker = None
      BY <3>2, <3>4, <3>5, <3>6 DEF MsgInv
    <3>8. Dead(f, f.msg[m].target)
      BY <1>1, <3>4, <3>6, <3>7 DEF CapInv, Dead, t
    <3>9. \A d \in Capabilities : Throwing(pc, d) => curMsg[d] # m
      BY <3>3, <3>7 DEF InvBut, CapInv, ThrowOK
    <3>10. ASSUME NEW d \in Capabilities, pc[d] = "pause" PROVE f.tso[curTso[d]].info # m
      <4>1. PauseOK(f, d, curTso[d]) /\ d # None
        BY <3>3, <3>10, ThreadsAssumption DEF InvBut, CapInv
      <4> QED BY Zenon, <3>2, <3>7, <4>1 DEF PauseOK
    <3>11. pc[c] # "throw_mvar" /\ 0 <= 1 /\ "waiting" # "interrupted"
      BY <1>1
    <3>12. Inv(TryWakeup(DoneWithMsgThrowTo(f, m), c, f.msg[m].source), batch, pc, curTso, curMsg)
      BY <3>2, <3>3, <3>7, <3>8, <3>9, <3>10, <3>11, DealtInv
    <3> QED BY <1>1, <2>1, <2>4, <3>6, <3>12 DEF IInv, Stays
  <2> QED BY <2>3, <2>4
<1> QED BY <1>2, <1>3

LEMMA TakeInboxInv ==
  ASSUME IInv, NEW c \in Capabilities, TakeInbox(c)
  PROVE  IInv'
<1> DEFINE g == [heap EXCEPT !.inbox[c] = <<>>]
           b2 == [batch EXCEPT ![c] = heap.inbox[c]]
<1>1. InvBut(heap, batch, pc, curTso, curMsg, {}, {}) /\ heap \in Heap /\ batch \in [Capabilities -> Seq(Mail)]
  BY DEF IInv, Inv, InvBut, TypeInv
<1>2. heap' = g /\ batch' = b2 /\ batch[c] = <<>> /\ pc' = pc /\ curTso' = curTso /\ curMsg' = curMsg
  BY DEF TakeInbox
<1>3. /\ g.inbox = [heap.inbox EXCEPT ![c] = <<>>] /\ heap.inbox \in [Capabilities -> Seq(Mail)]
      /\ g.msg = heap.msg /\ g.tso = heap.tso /\ g.mvar = heap.mvar /\ g \in Heap
  <2>1. <<>> \in Seq(Mail)
    OBVIOUS
  <2>2. [heap.inbox EXCEPT ![c] = <<>>] \in [Capabilities -> Seq(Mail)]
    BY <1>1, <2>1 DEF Heap
  <2>3. /\ g.inbox = [heap.inbox EXCEPT ![c] = <<>>] /\ g.balance = heap.balance
        /\ g.msg = heap.msg /\ g.tso = heap.tso /\ g.mvar = heap.mvar
        /\ g = [heap EXCEPT !.inbox = g.inbox]
    BY <1>1 DEF Heap
  <2> HIDE DEF g
  <2>4. g \in Heap
    BY <1>1, <2>2, <2>3 DEF Heap
  <2> QED BY <1>1, <2>3, <2>4 DEF Heap
<1>4. b2 \in [Capabilities -> Seq(Mail)] /\ b2[c] = heap.inbox[c] /\ \A d \in Capabilities \ {c} : b2[d] = batch[d]
  BY <1>1, <1>3
<1> HIDE DEF g, b2
<1>5. ASSUME NEW x, Sent(heap, batch, x) PROVE Sent(g, b2, x)
  <2>1. PICK d \in Capabilities : In(x, heap.inbox[d]) \/ In(x, batch[d])
    BY <1>5 DEF Sent
  <2>2. CASE d = c
    BY <1>2, <1>4, <2>1, <2>2, NothingIn DEF Sent
  <2>3. CASE d # c
    BY <1>3, <1>4, <2>1, <2>3 DEF Sent
  <2> QED BY <2>2, <2>3
<1>6. InvBut(g, b2, pc, curTso, curMsg, {}, {})
  <2>1. MailKept(heap, batch, g, b2, {}, {})
    BY <1>3, <1>5 DEF MailKept
  <2>2. {} \subseteq {}
    OBVIOUS
  <2>3. g \in Heap /\ b2 \in [Capabilities -> Seq(Mail)]
    BY <1>3, <1>4
  <2> QED BY <1>1, <2>1, <2>2, <2>3, MailInv
<1> QED BY <1>2, <1>6 DEF IInv, Inv
----------------------------------------------------------------------------
(* The actions of a thread that runs *)

(* A Capability in the scheduler has nothing in its hands.                 *)
LEMMA IdleCap ==
  ASSUME NEW h, NEW b, NEW p, NEW ct, NEW cm, NEW X, InvBut(h, b, p, ct, cm, X, {}),
         NEW c \in Capabilities, p[c] = "sched"
  PROVE  /\ ct[c] = None /\ cm[c] = None /\ c # None
         /\ \A mv \in MVars : h.mvar[mv].locker # c
         /\ \A m \in Messages : h.msg[m].locker # c /\ NotWith(h, p, ct, cm, c, m)
<1>1. CapInv(h, p, ct, cm, c) /\ c # None /\ ~ Throwing(p, c)
  BY ThreadsAssumption DEF InvBut, Throwing
<1>2. ct[c] = None /\ cm[c] = None
  BY <1>1 DEF CapInv
<1>3. \A mv \in MVars : h.mvar[mv].locker # c
  BY <1>1 DEF InvBut, LockInv
<1>4. ASSUME NEW m \in Messages PROVE h.msg[m].locker # c /\ NotWith(h, p, ct, cm, c, m)
  <2>1. MsgInv(h, p, ct, cm, m)
    BY DEF InvBut
  <2>2. h.msg[m].locker # c
    BY <1>1, <2>1 DEF MsgInv
  <2>3. cm[c] # m
    BY <1>2, ThreadsAssumption DEF Messages
  <2> QED BY <2>2, <2>3 DEF NotWith
<1> QED BY <1>1, <1>2, <1>3, <1>4

(* A thread that c may run.                                                *)
MayRun(h, p, c, t) == t \in Threads /\ p[c] = "sched" /\ h.tso[t].home = c /\ h.tso[t].why = "NotBlocked"
LEMMA RunningThread ==
  ASSUME NEW h, NEW b, NEW p, NEW ct, NEW cm, Inv(h, b, p, ct, cm), NEW c \in Capabilities, NEW t, MayRun(h, p, c, t)
  PROVE  /\ h \in Heap /\ t # None /\ h.tso[t] \in Tso /\ h.tso[t].stack = "idle" /\ ~ h.tso[t].link /\ TsoInv(h, t)
         /\ \A d \in Capabilities : ct[d] # t /\ (p[d] = "throw_mvar" => h.msg[cm[d]].target # t)
         /\ \A mv : ~ Waits(h, t, mv)
         /\ \A m : ~ BlockedOn(h, t, m)
         /\ \A m \in Messages : In(m, h.tso[t].blocked) /\ h.msg[m].locker # None => p[h.msg[m].locker] # "pause"
<1>1. InvBut(h, b, p, ct, cm, {}, {}) /\ h \in Heap /\ t \in Threads /\ t # None
  BY ThreadsAssumption DEF Inv, InvBut, TypeInv, MayRun
<1>2. h.tso[t] \in Tso /\ TsoInv(h, t) /\ HereInv(h, p, t)
  BY <1>1, TypedParts DEF InvBut
<1>3. h.tso[t].stack = "idle" /\ ~ h.tso[t].link
  BY <1>2 DEF TsoInv, MayRun
<1>4. ASSUME NEW d \in Capabilities PROVE ct[d] # t /\ (p[d] = "throw_mvar" => h.msg[cm[d]].target # t)
  <2>1. p[c] # "throw_mvar" /\ h.tso[t].home = c
    BY DEF MayRun
  <2>2. /\ ct[d] = t => d = c
        /\ p[d] = "throw_mvar" => h.msg[cm[d]].target # t
    BY <1>1, <2>1, OwnThread
  <2>3. ct[c] = None
    BY <1>1, IdleCap DEF MayRun
  <2> QED BY <1>1, <2>2, <2>3
<1>5. (\A mv : ~ Waits(h, t, mv)) /\ \A m : ~ BlockedOn(h, t, m)
  BY DEF MayRun, Waits, BlockedOn
<1>6. \A m \in Messages : In(m, h.tso[t].blocked) /\ h.msg[m].locker # None => p[h.msg[m].locker] # "pause"
  BY <1>2 DEF HereInv, MayRun
<1> QED BY <1>1, <1>2, <1>3, <1>4, <1>5, <1>6

(* What such a thread does to itself alone.                                *)
ItselfOnly(h, g, t, Y, N) ==
  /\ g.tso[t].blocked = h.tso[t].blocked /\ ~ g.tso[t].link /\ g.tso[t].why \in {"NotBlocked", "Migrating"}
  /\ g.tso[t].why = "Migrating" => t \in Y
  /\ Dead(h, t) => Dead(g, t)
  /\ g.tso[t].what = "finished" => \A m \in Messages \ N : ~ In(m, h.tso[t].blocked)
LEMMA RunStepInv ==
  ASSUME NEW h, NEW b, NEW p, NEW ct, NEW cm, Inv(h, b, p, ct, cm), NEW c \in Capabilities, NEW t, MayRun(h, p, c, t),
         NEW g, OnlyThread(h, g, t), NEW Y, NEW N, ItselfOnly(h, g, t, Y, N), TsoInv(g, t)
  PROVE  InvBut(g, b, p, ct, cm, Y, N)
<1>1. /\ h \in Heap /\ h.tso[t] \in Tso /\ h.tso[t].stack = "idle" /\ ~ h.tso[t].link /\ TsoInv(h, t)
      /\ \A d \in Capabilities : ct[d] # t /\ (p[d] = "throw_mvar" => h.msg[cm[d]].target # t)
      /\ \A mv : ~ Waits(h, t, mv)
      /\ \A m : ~ BlockedOn(h, t, m)
      /\ \A m \in Messages : In(m, h.tso[t].blocked) /\ h.msg[m].locker # None => p[h.msg[m].locker] # "pause"
  BY RunningThread
<1>2. InvBut(h, b, p, ct, cm, {}, {}) /\ t \in Threads
  BY DEF Inv, MayRun
<1>3. HereInv(g, p, t)
  BY <1>1 DEF HereInv, OnlyThread, ItselfOnly
<1>4. t \in Y \/ WakeInv(g, b, t)
  BY DEF WakeInv, ItselfOnly
<1>5. KeepsThread(h, g, t, N)
  <2>1. \A mv : ~ Waits(g, t, mv)
    BY DEF Waits, ItselfOnly
  <2> QED BY <1>1, <2>1 DEF KeepsThread, ItselfOnly
<1>6. KeepsCaps(h, g, p, ct, cm, t)
  BY <1>1 DEF KeepsCaps, ItselfOnly
<1>7. {} \subseteq Y /\ {} \subseteq N /\ \A m \in {} : h.msg[m].target \in Threads
  OBVIOUS
<1> QED BY <1>2, <1>3, <1>4, <1>5, <1>6, <1>7, TsoStepInv

LEMMA EnterHandlerInv ==
  ASSUME IInv, NEW c \in Capabilities, NEW t \in Threads, EnterHandler(c, t)
  PROVE  IInv'
<1> DEFINE h == heap
           u == [heap.tso[t] EXCEPT !.what = "run", !.catch = "none",
                   !.mask = IF heap.tso[t].catch = "uninterruptible" THEN heap.tso[t].mask ELSE "interruptible"]
           g == [h EXCEPT !.tso[t] = u]
<1>1. Inv(h, batch, pc, curTso, curMsg) /\ MayRun(h, pc, c, t) /\ h.tso[t].what = "raise"
  BY DEF IInv, EnterHandler, Running, MayRun
<1>2. heap' = g /\ batch' = batch /\ pc' = pc /\ curTso' = curTso /\ curMsg' = curMsg
  BY Zenon DEF EnterHandler
<1>3. h \in Heap /\ h.tso[t] \in Tso /\ h.tso[t].stack = "idle" /\ ~ h.tso[t].link /\ TsoInv(h, t)
  BY <1>1, RunningThread
<1> HIDE DEF h
<1>4. /\ u \in Tso /\ u.why = h.tso[t].why /\ u.stack = h.tso[t].stack /\ u.link = h.tso[t].link /\ u.what = "run"
      /\ u.blocked = h.tso[t].blocked
  BY <1>3 DEF Tso, Masks, h
<1> HIDE DEF u
<1>5. OnlyThread(h, g, t) /\ g.tso[t] = u
  BY <1>3, <1>4, PutTso DEF OnlyThread
<1> HIDE DEF g
<1>6. ItselfOnly(h, g, t, {}, {})
  BY <1>1, <1>3, <1>4, <1>5 DEF ItselfOnly, Dead, MayRun
<1>7. TsoInv(g, t)
  BY <1>1, <1>3, <1>4, <1>5 DEF TsoInv, OnlyThread, MayRun
<1>8. InvBut(g, batch, pc, curTso, curMsg, {}, {})
  BY <1>1, <1>5, <1>6, <1>7, RunStepInv
<1> QED BY <1>2, <1>8 DEF IInv, Inv

LEMMA SetMaskInv ==
  ASSUME IInv, NEW c \in Capabilities, NEW t \in Threads, NEW mask \in Masks, SetMask(c, t, mask)
  PROVE  IInv'
<1> DEFINE h == heap
           u == [heap.tso[t] EXCEPT !.mask = mask]
           g == [h EXCEPT !.tso[t] = u]
<1>1. Inv(h, batch, pc, curTso, curMsg) /\ MayRun(h, pc, c, t) /\ h.tso[t].what = "run"
  BY DEF IInv, SetMask, Calls, Running, MayRun
<1>2. /\ heap' = g /\ batch' = batch /\ curMsg' = curMsg
      /\ \/ pc' = [pc EXCEPT ![c] = "unmask"] /\ curTso' = [curTso EXCEPT ![c] = t]
         \/ pc' = pc /\ curTso' = curTso
  BY DEF SetMask
<1>3. h \in Heap /\ h.tso[t] \in Tso /\ h.tso[t].stack = "idle" /\ ~ h.tso[t].link /\ TsoInv(h, t) /\ t # None
  BY <1>1, RunningThread
<1> HIDE DEF h
<1>4. /\ u \in Tso /\ u.why = h.tso[t].why /\ u.stack = h.tso[t].stack /\ u.link = h.tso[t].link /\ u.what = h.tso[t].what
      /\ u.blocked = h.tso[t].blocked /\ u.catch = h.tso[t].catch /\ u.home = h.tso[t].home
  BY <1>3 DEF Tso, h
<1> HIDE DEF u
<1>5. OnlyThread(h, g, t) /\ g.tso[t] = u
  BY <1>3, <1>4, PutTso DEF OnlyThread
<1> HIDE DEF g
<1>6. ItselfOnly(h, g, t, {}, {})
  BY <1>1, <1>3, <1>4, <1>5 DEF ItselfOnly, Dead, MayRun
<1>7. TsoInv(g, t)
  BY <1>1, <1>3, <1>4, <1>5 DEF TsoInv, OnlyThread, MayRun
<1>8. InvBut(g, batch, pc, curTso, curMsg, {}, {})
  BY <1>1, <1>5, <1>6, <1>7, RunStepInv
<1>9. CASE pc' = pc /\ curTso' = curTso
  BY <1>2, <1>8, <1>9 DEF IInv, Inv
<1>10. CASE pc' = [pc EXCEPT ![c] = "unmask"] /\ curTso' = [curTso EXCEPT ![c] = t]
  <2> DEFINE p2 == [pc EXCEPT ![c] = "unmask"]
             ct2 == [curTso EXCEPT ![c] = t]
  <2>1. pc[c] = "sched"
    BY <1>1 DEF MayRun
  <2>2. /\ curMsg[c] = None
        /\ \A mv \in MVars : g.mvar[mv].locker # c
        /\ \A m \in Messages : NotWith(g, pc, curTso, curMsg, c, m)
    BY <1>8, <2>1, IdleCap
  <2>3. /\ TypeInv(g, batch, p2, ct2, curMsg) /\ Moves(pc, curTso, curMsg, p2, ct2, curMsg, c)
        /\ p2[c] = "unmask" /\ ct2[c] = t
    BY <1>8 DEF InvBut, TypeInv, Moves, SameAt, Places
  <2> HIDE DEF p2, ct2
  <2>4. CapInv(g, p2, ct2, curMsg, c) /\ p2[c] # "pause"
    BY <1>1, <1>3, <1>4, <1>5, <2>2, <2>3 DEF CapInv, Throwing, MayRun
  <2>5. Passes(g, batch, pc, curTso, curMsg, p2, ct2, curMsg, c, {}, {})
    BY <2>2 DEF Passes
  <2>6. InvBut(g, batch, p2, ct2, curMsg, {}, {})
    BY <1>8, <2>2, <2>3, <2>4, <2>5, MoveInv
  <2> QED BY <1>2, <1>10, <2>6 DEF IInv, Inv, p2, ct2
<1> QED BY <1>2, <1>9, <1>10

(* A Capability in the scheduler sets out, with nothing but its own thread. *)
LEMMA SetOutInv ==
  ASSUME NEW h, NEW b, NEW p, NEW ct, NEW cm, NEW M, InvBut(h, b, p, ct, cm, {}, M),
         NEW c \in Capabilities, p[c] = "sched", NEW t \in Threads, h.tso[t].home = c, NEW where \in {"unmask", "finish"},
         where = "unmask" => h.tso[t].why = "NotBlocked" /\ h.tso[t].what # "finished",
         where = "finish" => h.tso[t].what = "finished",
         \A mv \in MVars : h.mvar[mv].locker # c,
         \A m \in Messages : NotWith(h, p, ct, cm, c, m),
         \A m \in M : /\ MsgInv(h, [p EXCEPT ![c] = where], [ct EXCEPT ![c] = t], cm, m)
                      /\ PendInv(h, b, [p EXCEPT ![c] = where], [ct EXCEPT ![c] = t], cm, m)
  PROVE  Inv(h, b, [p EXCEPT ![c] = where], [ct EXCEPT ![c] = t], cm)
<1> DEFINE p2 == [p EXCEPT ![c] = where]
           ct2 == [ct EXCEPT ![c] = t]
<1>1. CapInv(h, p, ct, cm, c) /\ cm[c] = None /\ t # None
  BY ThreadsAssumption DEF InvBut, CapInv, Throwing
<1>2. /\ TypeInv(h, b, p2, ct2, cm) /\ Moves(p, ct, cm, p2, ct2, cm, c)
      /\ p2[c] = where /\ ct2[c] = t
  BY DEF InvBut, TypeInv, Moves, SameAt, Places
<1>3. Passes(h, b, p, ct, cm, p2, ct2, cm, c, M, {})
  BY DEF Passes
<1> HIDE DEF p2, ct2
<1>4. CapInv(h, p2, ct2, cm, c) /\ p2[c] # "pause"
  BY <1>1, <1>2 DEF CapInv, Throwing
<1>5. InvBut(h, b, p2, ct2, cm, {}, {})
  BY <1>2, <1>3, <1>4, MoveInv
<1> QED BY <1>5 DEF Inv, p2, ct2

LEMMA FinishInv ==
  ASSUME IInv, NEW c \in Capabilities, NEW t \in Threads, Finish(c, t)
  PROVE  IInv'
<1> DEFINE h == heap
           u == [heap.tso[t] EXCEPT !.what = "finished"]
           g == [h EXCEPT !.tso[t] = u]
           p2 == [pc EXCEPT ![c] = "finish"]
           ct2 == [curTso EXCEPT ![c] = t]
           N == {m \in Messages : In(m, h.tso[t].blocked)}
<1>1. Inv(h, batch, pc, curTso, curMsg) /\ MayRun(h, pc, c, t)
  BY DEF IInv, Finish, Running, MayRun
<1>2. heap' = g /\ batch' = batch /\ pc' = p2 /\ curTso' = ct2 /\ curMsg' = curMsg
  BY DEF Finish
<1>3. /\ h \in Heap /\ h.tso[t] \in Tso /\ h.tso[t].stack = "idle" /\ ~ h.tso[t].link /\ TsoInv(h, t)
      /\ \A m : ~ BlockedOn(h, t, m)
  BY <1>1, RunningThread
<1>4. InvBut(h, batch, pc, curTso, curMsg, {}, {}) /\ pc[c] = "sched"
  BY <1>1 DEF Inv, MayRun
<1>5. /\ \A mv \in MVars : h.mvar[mv].locker # c
      /\ \A m \in Messages : h.msg[m].locker # c /\ NotWith(h, pc, curTso, curMsg, c, m)
  BY <1>4, IdleCap
<1> HIDE DEF h
<1>6. /\ u \in Tso /\ u.why = h.tso[t].why /\ u.stack = h.tso[t].stack /\ u.link = h.tso[t].link /\ u.what = "finished"
      /\ u.blocked = h.tso[t].blocked /\ u.catch = h.tso[t].catch /\ u.home = h.tso[t].home
  BY <1>3 DEF Tso, h
<1> HIDE DEF u
<1>7. OnlyThread(h, g, t) /\ g.tso[t] = u
  BY <1>3, <1>6, PutTso DEF OnlyThread
<1> HIDE DEF g
<1>8. ItselfOnly(h, g, t, {}, N)
  BY <1>1, <1>3, <1>6, <1>7 DEF ItselfOnly, Dead, MayRun
<1>9. TsoInv(g, t)
  BY <1>1, <1>3, <1>6, <1>7 DEF TsoInv, OnlyThread, MayRun
<1>10. InvBut(g, batch, pc, curTso, curMsg, {}, N)
  BY <1>1, <1>7, <1>8, <1>9, RunStepInv DEF N
<1>11. \A m \in Messages : NotWith(g, pc, curTso, curMsg, c, m)
  BY <1>4, <1>5, <1>7 DEF OnlyThread, NotWith
<1>12. p2[c] = "finish" /\ ct2[c] = t /\ \A d \in Capabilities \ {c} : SameAt(pc, curTso, curMsg, p2, ct2, curMsg, d)
  BY <1>4 DEF InvBut, TypeInv, SameAt
<1>13. ASSUME NEW m \in N PROVE MsgInv(g, p2, ct2, curMsg, m) /\ PendInv(g, batch, p2, ct2, curMsg, m)
  <2>1. m \in Messages /\ In(m, h.tso[t].blocked) /\ h.msg[m].target = t /\ g.msg = h.msg
    BY <1>3, <1>7 DEF N, TsoInv, OnlyThread
  <2>2. MsgInv(h, pc, curTso, curMsg, m) /\ h.msg[m] \in Msg
    BY <1>3, <1>4, <2>1, TypedParts DEF InvBut
  <2>3. DeadKept(h, g)
    BY <1>6, <1>7 DEF DeadKept, OnlyThread, Dead
  <2>4. BlockedOn(h, h.msg[m].source, m) => BlockedOn(g, h.msg[m].source, m)
    BY Zenon, <1>3, <1>7 DEF BlockedOn, OnlyThread
  <2>5. h.msg[m].info = "locked" => SameAt(pc, curTso, curMsg, p2, ct2, curMsg, h.msg[m].locker)
    BY Zenon, <1>5, <1>12, <2>1, <2>2 DEF MsgInv, Msg
  <2>6. MsgInv(g, p2, ct2, curMsg, m)
    BY <2>1, <2>2, <2>3, <2>4, <2>5, MsgKept
  <2>7. In(m, g.tso[g.msg[m].target].blocked)
    BY <1>6, <1>7, <2>1
  <2>8. PendInv(g, batch, p2, ct2, curMsg, m)
    BY Zenon, <1>12, <2>1, <2>7 DEF PendInv, InHands
  <2> QED BY <2>6, <2>8
<1>14. /\ g.tso[t].home = c /\ g.tso[t].what = "finished"
       /\ \A mv \in MVars : g.mvar[mv].locker # c
  BY <1>1, <1>5, <1>6, <1>7 DEF MayRun, OnlyThread
<1> HIDE DEF N
<1>15. Inv(g, batch, p2, ct2, curMsg)
  <2>1. "finish" \in {"unmask", "finish"} /\ "finish" # "unmask"
    OBVIOUS
  <2> QED BY Zenon, <1>4, <1>10, <1>11, <1>13, <1>14, <2>1, SetOutInv
<1> QED BY <1>2, <1>15 DEF IInv

LEMMA KillSelfInv ==
  ASSUME IInv, NEW c \in Capabilities, NEW t \in Threads, KillSelf(c, t)
  PROVE  IInv'
<1> DEFINE h == heap
           g == RaiseAsync(h, t)
<1>1. Inv(h, batch, pc, curTso, curMsg) /\ MayRun(h, pc, c, t) /\ h.tso[t].what = "run"
  BY DEF IInv, KillSelf, Calls, Running, MayRun
<1>2. heap' = g /\ batch' = batch /\ pc' = pc /\ curTso' = curTso /\ curMsg' = curMsg
  BY DEF KillSelf
<1>3. /\ h \in Heap /\ ~ h.tso[t].link
      /\ \A d \in Capabilities : curTso[d] # t /\ (pc[d] = "throw_mvar" => h.msg[curMsg[d]].target # t)
      /\ \A mv : ~ Waits(h, t, mv)
  BY <1>1, RunningThread
<1> HIDE DEF h
<1>4. InvBut(h, batch, pc, curTso, curMsg, {}, {}) /\ h.tso[t].why = "NotBlocked"
  BY <1>1 DEF Inv, MayRun
<1>5. None \notin Messages
  BY ThreadsAssumption DEF Messages
<1>6. /\ g \in Heap /\ g.msg = h.msg /\ g.mvar = h.mvar /\ g.inbox = h.inbox /\ g.balance = h.balance
      /\ \A v \in Threads \ {t} : g.tso[v] = h.tso[v]
      /\ g.tso[t].why = "NotBlocked" /\ g.tso[t].stack = "idle" /\ g.tso[t].link = h.tso[t].link
      /\ g.tso[t].home = h.tso[t].home /\ g.tso[t].info = h.tso[t].info /\ g.tso[t].catch = h.tso[t].catch
      /\ g.tso[t].blocked = h.tso[t].blocked
      /\ g.tso[t].what = IF h.tso[t].catch = "none" THEN "killed" ELSE "raise"
  BY <1>3, RaiseAsyncEffect
<1> HIDE DEF g
<1>7. Interrupted(h, g, t, None)
  BY <1>3, <1>4, <1>5, <1>6 DEF Interrupted
<1>8. InvBut(g, batch, pc, curTso, curMsg, {}, {})
  <2>1. (\A n \in Messages \ {} : n # None) /\ (\A n \in {} : h.msg[n].target \in Threads)
    BY <1>5
  <2>2. h.tso[t].what # "finished" /\ h.tso[t].why # "MsgThrowTo"
    BY <1>1, <1>4
  <2>3. \A d \in Capabilities : Throwing(pc, d) =>
            /\ curTso[d] # t
            /\ h.tso[t].why = "MsgThrowTo" => h.tso[t].info # curMsg[d]
            /\ pc[d] = "throw_mvar" => h.msg[curMsg[d]].target # t
    BY <1>3, <2>2
  <2> QED BY <1>4, <1>7, <2>1, <2>2, <2>3, InterruptedInv
<1> QED BY <1>2, <1>8 DEF IInv, Inv

LEMMA MigrateInv ==
  ASSUME IInv, NEW c \in Capabilities, NEW d \in Capabilities, NEW t \in Threads, Migrate(c, d, t)
  PROVE  IInv'
<1> DEFINE h == heap
<1>1. Inv(h, batch, pc, curTso, curMsg) /\ MayRun(h, pc, c, t) /\ h.tso[t].what = "run"
  BY DEF IInv, Migrate, Calls, Running, MayRun
<1>2. batch' = batch /\ pc' = pc /\ curTso' = curTso /\ curMsg' = curMsg
  BY DEF Migrate
<1>3. h \in Heap /\ h.tso[t] \in Tso /\ h.tso[t].stack = "idle" /\ ~ h.tso[t].link /\ TsoInv(h, t)
  BY <1>1, RunningThread
<1>4. ASSUME NEW u, u \in [home : {d}, why : {"NotBlocked", "Migrating"}, info : {h.tso[t].info}, link : {h.tso[t].link},
                           what : {h.tso[t].what}, mask : {h.tso[t].mask}, catch : {h.tso[t].catch},
                           stack : {h.tso[t].stack}, blocked : {h.tso[t].blocked}]
      PROVE  InvBut([h EXCEPT !.tso[t] = u], batch, pc, curTso, curMsg, IF u.why = "Migrating" THEN {t} ELSE {}, {})
  <2> DEFINE g == [h EXCEPT !.tso[t] = u]
             Y == IF u.why = "Migrating" THEN {t} ELSE {}
  <2> HIDE DEF h
  <2>1. u \in Tso
    BY <1>3, <1>4 DEF Tso
  <2>2. OnlyThread(h, g, t) /\ g.tso[t] = u
    BY <1>3, <2>1, PutTso DEF OnlyThread
  <2> HIDE DEF g
  <2>3. ItselfOnly(h, g, t, Y, {})
    BY <1>1, <1>3, <1>4, <2>2 DEF ItselfOnly, Dead
  <2>4. TsoInv(g, t)
    BY <1>1, <1>3, <1>4, <2>2 DEF TsoInv, OnlyThread, MayRun
  <2> HIDE DEF Y
  <2>5. InvBut(g, batch, pc, curTso, curMsg, Y, {})
    BY <1>1, <2>2, <2>3, <2>4, RunStepInv
  <2> QED BY <2>5 DEF g, Y
<1>5. CASE heap' = SendMessage([heap EXCEPT !.tso[t].why = "Migrating", !.tso[t].home = d], d, Wakeup(t))
  <2> DEFINE u == [heap.tso[t] EXCEPT !.why = "Migrating", !.home = d]
             f == [h EXCEPT !.tso[t] = u]
  <2>1. u \in [home : {d}, why : {"NotBlocked", "Migrating"}, info : {h.tso[t].info}, link : {h.tso[t].link},
                           what : {h.tso[t].what}, mask : {h.tso[t].mask}, catch : {h.tso[t].catch},
                           stack : {h.tso[t].stack}, blocked : {h.tso[t].blocked}] /\ u.why = "Migrating"
    BY <1>3 DEF Tso
  <2>2. [heap EXCEPT !.tso[t].why = "Migrating", !.tso[t].home = d] = f
    BY <1>3 DEF Heap
  <2> HIDE DEF u
  <2>3. InvBut(f, batch, pc, curTso, curMsg, IF u.why = "Migrating" THEN {t} ELSE {}, {})
    BY <1>4, <2>1
  <2> HIDE DEF f
  <2>4. InvBut(f, batch, pc, curTso, curMsg, {t}, {}) /\ Wakeup(t) \in Mail
    BY <2>1, <2>3, MailIn
  <2>5. InvBut(SendMessage(f, d, Wakeup(t)), batch, pc, curTso, curMsg, {}, {})
    <3>1. \A v \in {t} : Wakeup(t) = Wakeup(v) \/ v \in {}
      OBVIOUS
    <3> QED BY <2>4, <3>1, SendInv
  <2> QED BY <1>2, <1>5, <2>2, <2>5 DEF IInv, Inv
<1>6. CASE heap' = [heap EXCEPT !.tso[t].home = d]
  <2> DEFINE u == [heap.tso[t] EXCEPT !.home = d]
  <2>1. u \in [home : {d}, why : {"NotBlocked", "Migrating"}, info : {h.tso[t].info}, link : {h.tso[t].link},
                           what : {h.tso[t].what}, mask : {h.tso[t].mask}, catch : {h.tso[t].catch},
                           stack : {h.tso[t].stack}, blocked : {h.tso[t].blocked}] /\ u.why # "Migrating"
    BY <1>1, <1>3 DEF Tso, MayRun
  <2>2. heap' = [h EXCEPT !.tso[t] = u]
    BY <1>6
  <2> HIDE DEF u, h
  <2>3. InvBut(heap', batch, pc, curTso, curMsg, IF u.why = "Migrating" THEN {t} ELSE {}, {})
    BY <1>4, <2>1, <2>2
  <2> QED BY <1>2, <2>1, <2>3 DEF IInv, Inv
<1> QED BY <1>5, <1>6 DEF Migrate

----------------------------------------------------------------------------
(* A message is dealt with by throwToMsg *)

(* lockClosure of a message that nobody has locked.                        *)
Locks(h, g, m, c) ==
  /\ g \in Heap /\ g.tso = h.tso /\ g.mvar = h.mvar /\ g.inbox = h.inbox
  /\ \A n \in Messages \ {m} : g.msg[n] = h.msg[n]
  /\ h.msg[m].info \in {"free", "throwto"} /\ h.msg[m].locker = None
  /\ g.msg[m].info = "locked" /\ g.msg[m].locker = c
  /\ g.msg[m].raised = h.msg[m].raised /\ g.msg[m].told = h.msg[m].told
  /\ h.msg[m].info = "throwto" => g.msg[m].source = h.msg[m].source /\ g.msg[m].target = h.msg[m].target
LEMMA LockMsgInv ==
  ASSUME NEW h, NEW b, NEW p, NEW ct, NEW cm, NEW m \in Messages, NEW M, M = {m}, InvBut(h, b, p, ct, cm, {}, M),
         NEW c \in Capabilities, p[c] = "sched", NEW g, Locks(h, g, m, c)
  PROVE  InvBut(g, b, p, ct, cm, {}, M)
<1> USE DEF Locks
<1>1. TypeInv(g, b, p, ct, cm) /\ None \notin Capabilities
  BY ThreadsAssumption DEF InvBut, TypeInv
<1>2. ASSUME NEW t \in Threads PROVE TsoInv(g, t) /\ HereInv(g, p, t)
  <2>1. TsoInv(h, t) /\ HereInv(h, p, t)
    BY DEF InvBut
  <2>2. In(m, h.tso[t].blocked) \/ BlockedOn(h, t, m) => h.msg[m].info = "throwto"
    BY <2>1 DEF TsoInv, BlockedOn
  <2>3. ASSUME NEW n \in Messages, In(n, h.tso[t].blocked)
        PROVE  g.msg[n].info \notin {"free", "done"} /\ g.msg[n].target = t
    BY <2>1, <2>2, <2>3 DEF TsoInv
  <2>4. ASSUME h.tso[t].why = "MsgThrowTo", h.tso[t].info \in Messages
        PROVE  LET n == h.tso[t].info IN
               /\ g.msg[n].source = h.msg[n].source /\ g.msg[n].told = h.msg[n].told
               /\ g.msg[n].info \in {"locked", "throwto", "null"}
    BY <2>1, <2>2, <2>4 DEF TsoInv, BlockedOn
  <2>5. Alike(h, g, t) /\ g.tso[t] = h.tso[t]
    BY DEF Alike
  <2>6. TsoInv(g, t)
    BY <2>1, <2>3, <2>4, <2>5, TsoKept
  <2>7. HereInv(g, p, t)
    BY <2>1 DEF HereInv
  <2> QED BY <2>6, <2>7
<1>3. ASSUME NEW t \in Threads PROVE WakeInv(g, b, t)
  <2>1. TsoInv(h, t) /\ WakeInv(h, b, t)
    BY DEF InvBut
  <2>2. h.tso[t].why = "MsgThrowTo" => h.tso[t].info \in Messages
    BY <2>1 DEF TsoInv
  <2> QED BY <2>1, <2>2 DEF WakeInv, Sent
<1>4. ASSUME NEW n \in Messages \ M PROVE MsgInv(g, p, ct, cm, n) /\ PendInv(g, b, p, ct, cm, n)
  <2>1. MsgInv(h, p, ct, cm, n) /\ PendInv(h, b, p, ct, cm, n) /\ g.msg[n] = h.msg[n]
    BY DEF InvBut
  <2> QED BY <2>1 DEF MsgInv, BlockedOn, Dead, PendInv, InHands, Sent
<1>5. ASSUME NEW d \in Capabilities PROVE CapInv(g, p, ct, cm, d)
  <2>1. CapInv(h, p, ct, cm, d) /\ d # None
    BY <1>1 DEF InvBut
  <2>2. Throwing(p, d) => cm[d] \in Messages \ {m}
    BY <2>1 DEF CapInv, ThrowOK
  <2>3. p[d] = "pause" => PauseOK(g, d, ct[d])
    <3>1. p[d] = "pause" => PauseOK(h, d, ct[d]) /\ h.tso[ct[d]].info # m
      BY Zenon, <2>1 DEF CapInv, PauseOK
    <3> QED BY <3>1 DEF PauseOK
  <2>4. Throwing(p, d) => ThrowOK(g, d, ct[d], cm[d])
    BY Zenon, <2>1, <2>2 DEF CapInv, ThrowOK, BlockedOn
  <2>5. p[d] = "throw_mvar" => WaiterOK(g, d, g.msg[cm[d]].target)
    BY Zenon, <2>1, <2>2 DEF CapInv, WaiterOK, Throwing
  <2> QED BY <2>1, <2>3, <2>4, <2>5 DEF CapInv
<1>6. ASSUME NEW mv \in MVars PROVE QueueInv(g, mv) /\ LockInv(g, p, ct, mv)
  <2>1. QueueInv(h, mv) /\ LockInv(h, p, ct, mv)
    BY DEF InvBut
  <2>2. \A t \in Threads : Waits(g, t, mv) <=> Waits(h, t, mv)
    BY DEF Waits
  <2>3. h \in Heap /\ g.mvar = h.mvar /\ g.tso = h.tso
    BY DEF InvBut, TypeInv
  <2>4. QueueInv(g, mv)
    BY <2>1, <2>2, <2>3, QueueKept
  <2> QED BY <2>1, <2>3, <2>4 DEF LockInv
<1> QED BY <1>1, <1>2, <1>3, <1>4, <1>5, <1>6 DEF InvBut

LEMMA EnterInv ==
  ASSUME NEW h, NEW b, NEW p, NEW ct, NEW cm, NEW m \in Messages, NEW M, M = {m}, InvBut(h, b, p, ct, cm, {}, M),
         NEW c \in Capabilities, p[c] = "sched",
         \A mv \in MVars : h.mvar[mv].locker # c,
         \A n \in Messages \ {m} : NotWith(h, p, ct, cm, c, n),
         NEW t \in Threads \cup {None}, InCall(h, m, c), ThrowOK(h, c, t, m), t # None => h.tso[t].home = c
  PROVE  Inv(h, b, [p EXCEPT ![c] = "throw"], [ct EXCEPT ![c] = t], [cm EXCEPT ![c] = m])
<1> DEFINE p2 == [p EXCEPT ![c] = "throw"]
           ct2 == [ct EXCEPT ![c] = t]
           cm2 == [cm EXCEPT ![c] = m]
<1>1. /\ TypeInv(h, b, p2, ct2, cm2) /\ Moves(p, ct, cm, p2, ct2, cm2, c)
      /\ p2[c] = "throw" /\ ct2[c] = t /\ cm2[c] = m
  BY DEF InvBut, TypeInv, Moves, SameAt, Places
<1> HIDE DEF p2, ct2, cm2
<1>2. CapInv(h, p2, ct2, cm2, c) /\ p2[c] # "pause"
  BY <1>1 DEF CapInv, Throwing
<1>3. MsgInv(h, p2, ct2, cm2, m) /\ PendInv(h, b, p2, ct2, cm2, m)
  <2>1. c # None
    BY ThreadsAssumption
  <2>2. MsgInv(h, p2, ct2, cm2, m)
    BY <1>1, <2>1 DEF MsgInv, InCall, Throwing
  <2>3. PendInv(h, b, p2, ct2, cm2, m)
    BY <1>1 DEF PendInv, InHands
  <2> QED BY <2>2, <2>3
<1>4. Passes(h, b, p, ct, cm, p2, ct2, cm2, c, M, {})
  BY <1>3 DEF Passes
<1>5. InvBut(h, b, p2, ct2, cm2, {}, {})
  BY <1>1, <1>2, <1>4, MoveInv
<1> QED BY <1>5 DEF Inv, p2, ct2, cm2

LEMMA KillThreadInv ==
  ASSUME IInv, NEW c \in Capabilities, NEW t \in Threads, NEW target \in Threads, KillThread(c, t, target)
  PROVE  IInv'
<1> DEFINE h == heap
<1>1. Inv(h, batch, pc, curTso, curMsg) /\ MayRun(h, pc, c, t) /\ h.tso[t].what = "run" /\ target # t
  BY DEF IInv, KillThread, Calls, Running, MayRun
<1>2. PICK m \in Messages :
        /\ h.msg[m].info = "free"
        /\ heap' = [heap EXCEPT !.msg[m] = [@ EXCEPT !.info = "locked", !.locker = c, !.source = t, !.target = target]]
        /\ curMsg' = [curMsg EXCEPT ![c] = m]
  BY Zenon DEF KillThread
<1>3. /\ batch' = batch /\ pc' = [pc EXCEPT ![c] = "throw"] /\ curTso' = [curTso EXCEPT ![c] = t]
  BY DEF KillThread
<1> DEFINE x == [heap.msg[m] EXCEPT !.info = "locked", !.locker = c, !.source = t, !.target = target]
           g == [h EXCEPT !.msg[m] = x]
           M == {m}
<1>4. heap' = g
  BY <1>2
<1> HIDE DEF h
<1>5. InvBut(h, batch, pc, curTso, curMsg, {}, {}) /\ pc[c] = "sched" /\ h \in Heap
      /\ h.tso[t].home = c /\ h.tso[t].why = "NotBlocked"
  BY <1>1 DEF Inv, MayRun, InvBut, TypeInv
<1>6. MsgInv(h, pc, curTso, curMsg, m) /\ h.msg[m] \in Msg
  BY <1>5, TypedParts DEF InvBut
<1>7. /\ x \in Msg /\ x.info = "locked" /\ x.locker = c /\ x.source = t /\ x.target = target
      /\ x.raised = h.msg[m].raised /\ x.told = h.msg[m].told
  BY <1>6 DEF Msg, h
<1> HIDE DEF x
<1>8. Locks(h, g, m, c) /\ g.msg[m] = x
  <2>1. /\ g \in Heap /\ g.msg[m] = x
        /\ \A n \in Messages \ {m} : g.msg[n] = h.msg[n]
        /\ g.tso = h.tso /\ g.mvar = h.mvar /\ g.inbox = h.inbox
    BY <1>5, <1>7, PutMsg
  <2>2. h.msg[m].locker = None
    BY <1>2, <1>6 DEF MsgInv, h
  <2> HIDE DEF g
  <2> QED BY <1>2, <1>7, <2>1, <2>2 DEF Locks, h
<1> HIDE DEF g
<1>9. InvBut(h, batch, pc, curTso, curMsg, {}, M)
  BY <1>5 DEF InvBut
<1>10. InvBut(g, batch, pc, curTso, curMsg, {}, M)
  BY <1>5, <1>8, <1>9, LockMsgInv
<1>11. /\ \A mv \in MVars : g.mvar[mv].locker # c
       /\ \A n \in Messages \ {m} : NotWith(g, pc, curTso, curMsg, c, n)
  <2>1. /\ \A mv \in MVars : h.mvar[mv].locker # c
        /\ \A n \in Messages : NotWith(h, pc, curTso, curMsg, c, n)
    BY <1>5, IdleCap
  <2> QED BY <1>8, <2>1 DEF Locks, NotWith
<1>12. InCall(g, m, c)
  BY <1>1, <1>2, <1>6, <1>7, <1>8 DEF InCall, MsgInv, h
<1>13. ThrowOK(g, c, t, m)
  <2>1. TsoInv(h, target)
    BY <1>5 DEF InvBut
  <2>2. ~ In(m, h.tso[target].blocked)
    BY <1>2, <2>1 DEF TsoInv, h
  <2> QED BY <1>1, <1>5, <1>7, <1>8, <2>2, ThreadsAssumption DEF ThrowOK, Locks
<1>14. Inv(g, batch, [pc EXCEPT ![c] = "throw"], [curTso EXCEPT ![c] = t], [curMsg EXCEPT ![c] = m])
  <2>1. g.tso[t].home = c /\ t \in Threads \cup {None}
    BY <1>5, <1>8 DEF Locks
  <2> QED BY <1>5, <1>10, <1>11, <1>12, <1>13, <2>1, EnterInv
<1> QED BY <1>2, <1>3, <1>4, <1>14 DEF IInv

LEMMA ExecuteMessageInv ==
  ASSUME IInv, NEW c \in Capabilities, ExecuteMessage(c)
  PROVE  IInv'
<1> DEFINE x == Head(batch[c])
           b2 == [batch EXCEPT ![c] = Tail(@)]
           h == heap
<1>1. Inv(h, batch, pc, curTso, curMsg) /\ pc[c] = "sched" /\ batch[c] # <<>> /\ batch' = b2 /\ curTso' = curTso
  BY DEF IInv, ExecuteMessage
<1>2. /\ InvBut(h, batch, pc, curTso, curMsg, {}, {}) /\ h \in Heap /\ batch \in [Capabilities -> Seq(Mail)]
      /\ curTso \in [Capabilities -> Threads \cup {None}]
  BY <1>1 DEF Inv, InvBut, TypeInv
<1>3. /\ x \in Mail /\ b2 \in [Capabilities -> Seq(Mail)]
      /\ \A y : Sent(h, batch, y) => y = x \/ Sent(h, b2, y)
  BY <1>1, <1>2, NextMail
<1>4. \/ x.type = "wakeup" /\ heap' = TryWakeup(h, c, x.of) /\ pc' = pc /\ curMsg' = curMsg
      \/ /\ x.type = "throwto" /\ h.msg[x.of].info = "throwto"
         /\ heap' = [h EXCEPT !.msg[x.of].info = "locked", !.msg[x.of].locker = c]
         /\ pc' = [pc EXCEPT ![c] = "throw"] /\ curMsg' = [curMsg EXCEPT ![c] = x.of]
      \/ x.type = "throwto" /\ h.msg[x.of].info = "null" /\ heap' = heap /\ pc' = pc /\ curMsg' = curMsg
  BY DEF ExecuteMessage
<1> HIDE DEF x, b2, h
<1>5. ASSUME NEW Y, NEW N, \A t \in Threads \ Y : x # Wakeup(t),
             \A m \in Messages \ N : h.msg[m].info \in {"locked", "throwto"} => x # ThrowTo(m)
      PROVE  InvBut(h, b2, pc, curTso, curMsg, Y, N)
  <2>1. MailKept(h, batch, h, b2, Y, N)
    BY <1>3, <1>5 DEF MailKept
  <2>2. {} \subseteq Y /\ {} \subseteq N
    OBVIOUS
  <2>3. InvBut(h, batch, pc, curTso, curMsg, {}, {}) /\ h \in Heap /\ b2 \in [Capabilities -> Seq(Mail)]
    BY <1>2, <1>3
  <2> QED BY <2>1, <2>2, <2>3, MailInv
<1>6. CASE x.type = "wakeup" /\ heap' = TryWakeup(h, c, x.of) /\ pc' = pc /\ curMsg' = curMsg
  <2> DEFINE t == x.of
  <2>1. t \in Threads /\ x = Wakeup(t)
    BY <1>3, <1>6 DEF Mail, Wakeup
  <2>2. InvBut(h, b2, pc, curTso, curMsg, {t}, {})
    <3>1. \A u \in Threads \ {t} : x # Wakeup(u)
      BY <2>1, MailIn
    <3>2. \A m \in Messages : x # ThrowTo(m)
      BY <2>1, MailIn
    <3> QED BY <1>5, <3>1, <3>2
  <2> HIDE DEF t
  <2>3. \A d \in Capabilities : h.tso[t].home = c /\ pc[d] = "throw_mvar" => h.msg[curMsg[d]].target # t
    <3>1. pc[c] # "throw_mvar"
      BY <1>1
    <3> QED BY <2>1, <2>2, <3>1, NotWaitedFor
  <2>4. InvBut(TryWakeup(h, c, t), b2, pc, curTso, curMsg, {t} \ {t}, {})
    BY <2>1, <2>2, <2>3, TryWakeupInv
  <2>5. {t} \ {t} = {}
    OBVIOUS
  <2> QED BY <1>1, <1>6, <2>4, <2>5 DEF IInv, Inv, t
<1>7. CASE x.type = "throwto" /\ h.msg[x.of].info = "null" /\ heap' = heap /\ pc' = pc /\ curMsg' = curMsg
  <2> DEFINE m == x.of
  <2>1. m \in Messages /\ x = ThrowTo(m)
    BY <1>3, <1>7 DEF Mail, ThrowTo
  <2>2. \A t \in Threads : x # Wakeup(t)
    BY <2>1, MailIn
  <2>3. \A n \in Messages : h.msg[n].info \in {"locked", "throwto"} => x # ThrowTo(n)
    BY <1>7, <2>1, MailIn
  <2>4. InvBut(h, b2, pc, curTso, curMsg, {}, {})
    BY <1>5, <2>2, <2>3
  <2> QED BY <1>1, <1>7, <2>4 DEF IInv, Inv, h
<1>8. CASE /\ x.type = "throwto" /\ h.msg[x.of].info = "throwto"
           /\ heap' = [h EXCEPT !.msg[x.of].info = "locked", !.msg[x.of].locker = c]
           /\ pc' = [pc EXCEPT ![c] = "throw"] /\ curMsg' = [curMsg EXCEPT ![c] = x.of]
  <2> DEFINE m == x.of
             y == [h.msg[m] EXCEPT !.info = "locked", !.locker = c]
             g == [h EXCEPT !.msg[m] = y]
             M == {m}
  <2>1. m \in Messages /\ x = ThrowTo(m) /\ h.msg[m].info = "throwto"
    BY <1>3, <1>8 DEF Mail, ThrowTo
  <2>2. heap' = g
    BY <1>2, <1>8 DEF Heap
  <2> HIDE DEF m
  <2>3. InvBut(h, b2, pc, curTso, curMsg, {}, M)
    <3>1. \A t \in Threads \ {} : x # Wakeup(t)
      BY <2>1, MailIn
    <3>2. \A n \in Messages \ M : h.msg[n].info \in {"locked", "throwto"} => x # ThrowTo(n)
      BY <2>1, MailIn
    <3> HIDE DEF M
    <3> QED BY <1>5, <3>1, <3>2
  <2>4. MsgInv(h, pc, curTso, curMsg, m) /\ h.msg[m] \in Msg
    BY <1>2, <2>1, TypedParts DEF InvBut
  <2>5. /\ y \in Msg /\ y.info = "locked" /\ y.locker = c /\ y.source = h.msg[m].source /\ y.target = h.msg[m].target
        /\ y.raised = h.msg[m].raised /\ y.told = h.msg[m].told
    BY <2>4 DEF Msg
  <2> HIDE DEF y
  <2>6. Locks(h, g, m, c) /\ g.msg[m] = y
    <3>1. /\ g \in Heap /\ g.msg[m] = y
          /\ \A n \in Messages \ {m} : g.msg[n] = h.msg[n]
          /\ g.tso = h.tso /\ g.mvar = h.mvar /\ g.inbox = h.inbox
      BY <1>2, <2>1, <2>5, PutMsg
    <3>2. h.msg[m].locker = None
      BY <2>1, <2>4 DEF MsgInv
    <3> HIDE DEF g
    <3> QED BY <2>1, <2>5, <3>1, <3>2 DEF Locks
  <2> HIDE DEF g
  <2>7. InvBut(g, b2, pc, curTso, curMsg, {}, M)
    BY <1>1, <2>1, <2>3, <2>6, LockMsgInv
  <2>8. /\ curTso[c] = None /\ \A mv \in MVars : g.mvar[mv].locker # c
        /\ \A n \in Messages \ {m} : NotWith(g, pc, curTso, curMsg, c, n)
    <3>1. /\ curTso[c] = None /\ \A mv \in MVars : h.mvar[mv].locker # c
          /\ \A n \in Messages : NotWith(h, pc, curTso, curMsg, c, n)
      BY <1>1, <1>2, IdleCap
    <3> QED BY <2>6, <3>1 DEF Locks, NotWith
  <2>9. InCall(g, m, c)
    BY <2>1, <2>4, <2>5, <2>6 DEF InCall, MsgInv
  <2>10. ThrowOK(g, c, None, m)
    BY <2>1, <2>4, <2>5, <2>6 DEF ThrowOK, MsgInv, Locks, BlockedOn
  <2>11. Inv(g, b2, [pc EXCEPT ![c] = "throw"], [curTso EXCEPT ![c] = None], [curMsg EXCEPT ![c] = m])
    <3>1. None \in Threads \cup {None}
      OBVIOUS
    <3> QED BY <1>1, <2>1, <2>7, <2>8, <2>9, <2>10, <3>1, EnterInv
  <2>12. [curTso EXCEPT ![c] = None] = curTso
    BY <1>2, <2>8
  <2> QED BY <1>1, <1>8, <2>2, <2>11, <2>12 DEF IInv, m
<1> QED BY <1>4, <1>6, <1>7, <1>8 DEF h

(* throwToMsg goes to lock the MVar that the target waits for, and back.   *)
LEMMA TurnInv ==
  ASSUME NEW h, NEW b, NEW p, NEW ct, NEW cm, Inv(h, b, p, ct, cm), NEW c \in Capabilities, Throwing(p, c),
         NEW where \in {"throw", "throw_mvar"}, where = "throw_mvar" => WaiterOK(h, c, h.msg[cm[c]].target)
  PROVE  Inv(h, b, [p EXCEPT ![c] = where], ct, cm)
<1> DEFINE p2 == [p EXCEPT ![c] = where]
           m == cm[c]
<1>1. InvBut(h, b, p, ct, cm, {}, {}) /\ c # None
  BY ThreadsAssumption DEF Inv
<1>2. CapInv(h, p, ct, cm, c) /\ ThrowOK(h, c, ct[c], m)
  BY <1>1 DEF InvBut, CapInv
<1>3. TypeInv(h, b, p2, ct, cm) /\ Moves(p, ct, cm, p2, ct, cm, c) /\ p2[c] = where
  BY <1>1 DEF InvBut, TypeInv, Moves, SameAt, Places
<1> HIDE DEF p2
<1>4. Throwing(p2, c) /\ p2[c] # "pause"
  BY <1>3 DEF Throwing
<1>5. CapInv(h, p2, ct, cm, c)
  BY <1>2, <1>3, <1>4 DEF CapInv
<1>6. ASSUME NEW n \in Messages
      PROVE  NotWith(h, p, ct, cm, c, n) \/ (MsgInv(h, p2, ct, cm, n) /\ PendInv(h, b, p2, ct, cm, n))
  <2>1. MsgInv(h, p, ct, cm, n) /\ PendInv(h, b, p, ct, cm, n)
    BY <1>1 DEF InvBut
  <2>2. CASE n = m
    <3>1. MsgInv(h, p2, ct, cm, n)
      BY Zenon, <1>2, <1>4, <2>1, <2>2 DEF MsgInv, ThrowOK
    <3>2. PendInv(h, b, p2, ct, cm, n)
      BY <2>2 DEF PendInv, InHands
    <3> QED BY <3>1, <3>2
  <2>3. CASE n # m
    BY <1>1, <2>1, <2>3 DEF NotWith, MsgInv, Throwing
  <2> QED BY <2>2, <2>3
<1>7. Passes(h, b, p, ct, cm, p2, ct, cm, c, {}, {})
  BY <1>6 DEF Passes
<1>8. \A mv \in MVars : h.mvar[mv].locker # c
  BY <1>1 DEF InvBut, LockInv, Throwing
<1>9. InvBut(h, b, p2, ct, cm, {}, {})
  BY <1>1, <1>3, <1>4, <1>5, <1>7, <1>8, MoveInv
<1> QED BY <1>9 DEF Inv, p2

(* A message that is dealt with: what the caller of throwToMsg makes of it. *)
Dealt(h, m) ==
  /\ h.msg[m].source \in Threads /\ h.msg[m].target \in Threads /\ h.msg[m].source # h.msg[m].target
  /\ h.msg[m].told = "waiting" /\ h.msg[m].raised <= 1
  /\ h.msg[m].raised = 1 \/ Dead(h, h.msg[m].target)
LEMMA SucceedsInv ==
  ASSUME NEW h, NEW b, NEW p, NEW ct, NEW cm, NEW m \in Messages, InvBut(h, b, p, ct, cm, {}, {m}),
         NEW c \in Capabilities, p[c] = "sched", Dealt(h, m), NEW t,
         t # None => \A u \in Threads : ~ In(m, h.tso[u].blocked) /\ ~ BlockedOn(h, u, m),
         \A d \in Capabilities : Throwing(p, d) => cm[d] # m,
         \A d \in Capabilities : p[d] = "pause" => h.tso[ct[d]].info # m
  PROVE  Inv(IF t # None THEN Returned(UnlockMsg(h, m, "done"), m)
             ELSE TryWakeup(DoneWithMsgThrowTo(h, m), c, h.msg[m].source), b, p, ct, cm)
<1>0. /\ h.msg[m].source \in Threads /\ h.msg[m].target \in Threads /\ h.msg[m].source # h.msg[m].target
      /\ h.msg[m].told # "interrupted" /\ h.msg[m].raised <= 1
      /\ h.msg[m].raised = 1 \/ Dead(h, h.msg[m].target)
  BY DEF Dealt
<1>1. CASE t = None
  <2>1. p[c] # "throw_mvar"
    OBVIOUS
  <2> QED BY <1>0, <1>1, <2>1, DealtInv
<1>2. CASE t # None
  <2> DEFINE g == UnlockMsg(h, m, "done")
             s == h.msg[m].source
             X == {} \cup {s}
  <2>1. "done" \in {"null", "done"} /\ "done" \in Headers /\ h \in Heap
    BY DEF Headers, InvBut, TypeInv
  <2>2. InvBut(g, b, p, ct, cm, {} \cup {h.msg[m].source}, {})
    <3>1. "done" = "done" => \A u \in Threads : ~ In(m, h.tso[u].blocked) /\ ~ BlockedOn(h, u, m)
      BY <1>2
    <3> QED BY <1>0, <2>1, <3>1, RetireInv
  <2>3. /\ g.tso = h.tso /\ g.inbox = h.inbox
        /\ \A n \in Messages \ {m} : g.msg[n] = h.msg[n]
        /\ g.msg[m].info = "done" /\ g.msg[m].target = h.msg[m].target /\ g.msg[m].raised = h.msg[m].raised
    BY <2>1, UnlockEffect
  <2> HIDE DEF g
  <2>4. WakeInv(g, b, s)
    <3>1. WakeInv(h, b, s) /\ TsoInv(h, s) /\ ~ BlockedOn(h, s, m)
      BY <1>0, <1>2 DEF InvBut
    <3> QED BY Zenon, <1>0, <2>3, <3>1 DEF WakeInv, TsoInv, Sent, BlockedOn
  <2>5. Inv(g, b, p, ct, cm)
    BY <2>2, <2>4 DEF InvBut, Inv
  <2>6. g.msg[m].raised = 1 \/ Dead(g, g.msg[m].target)
    BY <1>0, <2>3 DEF Dead
  <2>7. Inv(Returned(g, m), b, p, ct, cm)
    BY <2>3, <2>5, <2>6, ReturnedInv
  <2> QED BY <1>2, <2>7 DEF g
<1> QED BY <1>1, <1>2

(* ... when it need not be raised, since the target is dead, and when it   *)
(* was.                                                                    *)
LEMMA DeadTargetInv ==
  ASSUME IInv, NEW c \in Capabilities, Throwing(pc, c), Dead(heap, heap.msg[curMsg[c]].target), Succeeds(c, heap),
         UNCHANGED batch
  PROVE  IInv'
<1> DEFINE m == curMsg[c]
           t == curTso[c]
           h == heap
           p2 == [pc EXCEPT ![c] = "sched"]
           ct2 == [curTso EXCEPT ![c] = None]
           cm2 == [curMsg EXCEPT ![c] = None]
<1>1. Inv(h, batch, pc, curTso, curMsg)
  BY DEF IInv
<1>2. /\ heap' = IF t # None THEN Returned(UnlockMsg(h, m, "done"), m)
                 ELSE TryWakeup(DoneWithMsgThrowTo(h, m), c, h.msg[m].source)
      /\ pc' = p2 /\ curTso' = ct2 /\ curMsg' = cm2
  BY DEF Succeeds, InPrimop
<1> HIDE DEF h, p2, ct2, cm2
<1>3. /\ InvBut(h, batch, p2, ct2, cm2, {}, {m}) /\ InCall(h, m, c) /\ ThrowOK(h, c, t, m)
      /\ \A d \in Capabilities : Throwing(p2, d) => cm2[d] # m
      /\ \A d \in Capabilities : p2[d] = "pause" => h.tso[ct2[d]].info # m
      /\ p2[c] = "sched" /\ ct2[c] = None /\ cm2[c] = None
  <2>1. Left(h, batch, p2, ct2, cm2, c, t, m)
    BY <1>1, LeaveInv DEF p2, ct2, cm2
  <2> QED BY <2>1 DEF Left
<1> HIDE DEF m, t
<1>4. m \in Messages /\ Dealt(h, m)
  BY <1>3 DEF InCall, Dealt, m, h
<1>5. ASSUME t # None, NEW u \in Threads PROVE ~ In(m, h.tso[u].blocked) /\ ~ BlockedOn(h, u, m)
  <2>1. TsoInv(h, u)
    BY <1>3 DEF InvBut
  <2> QED BY Zenon, <1>3, <1>4, <1>5, <2>1 DEF TsoInv, ThrowOK, BlockedOn
<1>6. Inv(IF t # None THEN Returned(UnlockMsg(h, m, "done"), m)
          ELSE TryWakeup(DoneWithMsgThrowTo(h, m), c, h.msg[m].source), batch, p2, ct2, cm2)
  <2>1. t # None => \A u \in Threads : ~ In(m, h.tso[u].blocked) /\ ~ BlockedOn(h, u, m)
    BY <1>5
  <2>2. /\ InvBut(h, batch, p2, ct2, cm2, {}, {m}) /\ p2[c] = "sched"
        /\ \A d \in Capabilities : Throwing(p2, d) => cm2[d] # m
        /\ \A d \in Capabilities : p2[d] = "pause" => h.tso[ct2[d]].info # m
    BY <1>3
  <2> QED BY <1>4, <2>1, <2>2, SucceedsInv
<1> QED BY <1>2, <1>6 DEF IInv, h, m, t, p2, ct2, cm2

MayInterrupt(h, c, t) ==
  /\ h.tso[t].home = c /\ h.tso[t].what # "finished"
  /\ h.tso[t].why = "MVar" => h.tso[t].link
  /\ h.tso[t].why = "MsgThrowTo" => h.msg[h.tso[t].info].info \notin {"locked", "null"}
LEMMA RaisedInv ==
  ASSUME IInv, NEW c \in Capabilities, Throwing(pc, c), NEW s, s = heap.msg[curMsg[c]].target,
         MayInterrupt(heap, c, s), Succeeds(c, Interrupt(heap, s, curMsg[c])), UNCHANGED batch
  PROVE  IInv'
<1> DEFINE m == curMsg[c]
           t == curTso[c]
           h == heap
           g == Interrupt(h, s, m)
           p2 == [pc EXCEPT ![c] = "sched"]
           ct2 == [curTso EXCEPT ![c] = None]
           cm2 == [curMsg EXCEPT ![c] = None]
<1>1. Inv(h, batch, pc, curTso, curMsg)
  BY DEF IInv
<1>2. /\ heap' = IF t # None THEN Returned(UnlockMsg(g, m, "done"), m)
                 ELSE TryWakeup(DoneWithMsgThrowTo(g, m), c, g.msg[m].source)
      /\ pc' = p2 /\ curTso' = ct2 /\ curMsg' = cm2
  BY DEF Succeeds, InPrimop
<1> HIDE DEF h, p2, ct2, cm2, g
<1>3. /\ InvBut(h, batch, p2, ct2, cm2, {}, {m}) /\ InCall(h, m, c) /\ ThrowOK(h, c, t, m)
      /\ \A d \in Capabilities : Throwing(p2, d) => cm2[d] # m
      /\ \A d \in Capabilities : p2[d] = "pause" => h.tso[ct2[d]].info # m
      /\ p2[c] = "sched" /\ ct2[c] = None /\ cm2[c] = None
  <2>1. Left(h, batch, p2, ct2, cm2, c, t, m)
    BY <1>1, LeaveInv DEF p2, ct2, cm2
  <2> QED BY <2>1 DEF Left
<1> HIDE DEF m, t
<1>4. /\ m \in Messages /\ s \in Threads /\ s = h.msg[m].target /\ MayInterrupt(h, c, s)
      /\ h.msg[m].info = "locked" /\ h.msg[m].source \in Threads /\ h.msg[m].source # s
      /\ h.msg[m].raised = 0 /\ h.msg[m].told = "waiting"
  BY <1>3 DEF InCall, m, h
<1>5. CanBeInterrupted(h, s, m)
  BY Zenon, <1>4 DEF CanBeInterrupted, MayInterrupt
<1>6. ASSUME NEW d \in Capabilities
      PROVE  (ct2[d] = s => d = c) /\ (p2[d] = "throw_mvar" => h.msg[cm2[d]].target # s)
  <2>1. p2[c] # "throw_mvar" /\ h.tso[s].home = c
    BY Zenon, <1>3, <1>4 DEF MayInterrupt
  <2> QED BY <1>3, <1>4, <2>1, OwnThread
<1>7. Untouched(h, p2, ct2, cm2, s)
  <2> SUFFICES ASSUME NEW d \in Capabilities, Throwing(p2, d)
               PROVE  /\ ct2[d] # s
                      /\ h.tso[s].why = "MsgThrowTo" => h.tso[s].info # cm2[d]
                      /\ p2[d] = "throw_mvar" => h.msg[cm2[d]].target # s
    BY Zenon DEF Untouched
  <2>1. h.msg[cm2[d]].info = "locked"
    BY Zenon, <1>3 DEF InvBut, CapInv, ThrowOK
  <2>2. ct2[d] # s
    BY <1>3, <1>4, <1>6, ThreadsAssumption
  <2> QED BY Zenon, <1>4, <1>6, <2>1, <2>2 DEF MayInterrupt
<1>8. InvBut(g, batch, p2, ct2, cm2, {}, {m}) /\ Interrupted(h, g, s, m)
  <2>1. h.msg[m].target \in Threads
    BY <1>4
  <2> QED BY <1>3, <1>4, <1>5, <1>7, <2>1, InterruptInv DEF g
<1>9. /\ \A u \in Threads \ {s} : g.tso[u] = h.tso[u]
      /\ g.tso[s].blocked = h.tso[s].blocked /\ g.tso[s].info = h.tso[s].info
      /\ g.msg[m] = [h.msg[m] EXCEPT !.raised = @ + 1]
  BY Zenon, <1>4, <1>8 DEF Interrupted
<1>10. h.msg[m] \in Msg
  BY <1>3, <1>4, TypedParts DEF InvBut, TypeInv
<1>11. /\ g.msg[m].source = h.msg[m].source /\ g.msg[m].target = h.msg[m].target
       /\ g.msg[m].told = h.msg[m].told /\ g.msg[m].raised = 1
  BY <1>4, <1>9, <1>10 DEF Msg
<1>12. Dealt(g, m)
  BY <1>4, <1>11 DEF Dealt
<1>13. ASSUME t # None, NEW u \in Threads PROVE ~ In(m, g.tso[u].blocked) /\ ~ BlockedOn(g, u, m)
  <2>1. TsoInv(g, u)
    BY <1>8 DEF InvBut
  <2>2. h.msg[m].source = t /\ h.tso[t].why = "NotBlocked" /\ ~ In(m, h.tso[s].blocked)
    BY <1>3, <1>4, <1>13 DEF ThrowOK
  <2>3. ~ In(m, g.tso[u].blocked)
    <3>1. In(m, g.tso[u].blocked) => g.msg[m].target = u
      BY <1>4, <2>1 DEF TsoInv
    <3>2. u = s => g.tso[u].blocked = h.tso[s].blocked
      BY Zenon, <1>9
    <3> QED BY <1>4, <1>11, <2>2, <3>1, <3>2
  <2>4. g.tso[t] = h.tso[t]
    BY <1>4, <1>9, <2>2
  <2>5. BlockedOn(g, u, m) => u = t
    BY <1>4, <1>11, <2>1, <2>2 DEF TsoInv, BlockedOn
  <2> QED BY <2>2, <2>3, <2>4, <2>5 DEF BlockedOn
<1>14. ASSUME NEW d \in Capabilities, p2[d] = "pause" PROVE g.tso[ct2[d]].info # m
  <2>1. ct2[d] \in Threads
    BY <1>8, <1>14 DEF InvBut, TypeInv, CapInv
  <2> QED BY <1>3, <1>9, <1>14, <2>1
<1>15. Inv(IF t # None THEN Returned(UnlockMsg(g, m, "done"), m)
          ELSE TryWakeup(DoneWithMsgThrowTo(g, m), c, g.msg[m].source), batch, p2, ct2, cm2)
  BY <1>3, <1>4, <1>8, <1>12, <1>13, <1>14, SucceedsInv
<1> QED BY <1>2, <1>15 DEF IInv, h, m, t, p2, ct2, cm2

(* A message that cannot be dealt with yet is in somebody's hands, before   *)
(* the caller of throwToMsg gives it up or goes to sleep on it.             *)
Lodged(h, b, c, t, m) == LET s == h.msg[m].target IN
  /\ Sent(h, b, ThrowTo(m)) \/ (In(m, h.tso[s].blocked) /\ h.tso[s].what # "finished")
  /\ In(m, h.tso[s].blocked) /\ t # None => h.tso[s].home = c
LEMMA NotRevokedInv ==
  ASSUME NEW h, NEW b, NEW p, NEW ct, NEW cm, NEW m \in Messages, InvBut(h, b, p, ct, cm, {}, {m}),
         NEW c \in Capabilities, InCall(h, m, c), BlockedOn(h, h.msg[m].source, m), Lodged(h, b, c, None, m),
         \A d \in Capabilities : Throwing(p, d) => cm[d] # m,
         \A d \in Capabilities : p[d] = "pause" => h.tso[ct[d]].info # m
  PROVE  Inv(UnlockMsg(h, m, "throwto"), b, p, ct, cm)
<1> DEFINE g == UnlockMsg(h, m, "throwto")
<1>1. "throwto" \in {"throwto", "null", "done"} /\ "throwto" \in Headers /\ h \in Heap /\ {} \subseteq {}
  BY DEF Headers, InvBut, TypeInv
<1>2. /\ g.tso = h.tso /\ g.inbox = h.inbox
      /\ g.msg[m].info = "throwto" /\ g.msg[m].locker = None
      /\ g.msg[m].source = h.msg[m].source /\ g.msg[m].target = h.msg[m].target
      /\ g.msg[m].raised = h.msg[m].raised /\ g.msg[m].told = h.msg[m].told
  BY <1>1, UnlockEffect
<1> HIDE DEF g
<1>3. MsgInv(g, p, ct, cm, m)
  BY <1>2 DEF MsgInv, InCall, BlockedOn
<1>4. PendInv(g, b, p, ct, cm, m)
  BY Zenon, <1>2 DEF PendInv, InHands, Lodged, Sent
<1>5. InvBut(g, b, p, ct, cm, {}, {})
  BY <1>1, <1>3, <1>4, UnlockMsgInv DEF g
<1> QED BY <1>5 DEF Inv, g

Asleep(h, g, t, m) ==
  /\ OnlyThread(h, g, t)
  /\ g.tso[t].home = h.tso[t].home /\ g.tso[t].why = "MsgThrowTo" /\ g.tso[t].info = m
  /\ g.tso[t].link = h.tso[t].link /\ g.tso[t].what = h.tso[t].what
  /\ g.tso[t].stack = "throwing" /\ g.tso[t].blocked = h.tso[t].blocked
LEMMA SleepInv ==
  ASSUME NEW h, NEW b, NEW p, NEW ct, NEW cm, NEW m \in Messages, NEW M, M = {m}, InvBut(h, b, p, ct, cm, {}, M),
         NEW c \in Capabilities, p[c] = "sched", InCall(h, m, c), NEW t \in Threads, h.tso[t].home = c,
         h.msg[m].source = t, h.tso[t].why = "NotBlocked", h.tso[t].what = "run", Lodged(h, b, c, t, m),
         \A d \in Capabilities : Throwing(p, d) => cm[d] # m,
         NEW g, Asleep(h, g, t, m)
  PROVE  Inv(g, b, [p EXCEPT ![c] = "pause"], [ct EXCEPT ![c] = t], cm)
<1> DEFINE p2 == [p EXCEPT ![c] = "pause"]
           ct2 == [ct EXCEPT ![c] = t]
<1>1. /\ t # None /\ c # None /\ m \notin MVars /\ m # None
      /\ TsoInv(h, t) /\ HereInv(h, p, t) /\ CapInv(h, p, ct, cm, c)
  BY ThreadsAssumption DEF InvBut, Messages
<1>2. ct[c] = None /\ cm[c] = None
  BY <1>1 DEF CapInv, Throwing
<1>3. \A d \in Capabilities : ct[d] # t /\ (p[d] = "throw_mvar" => h.msg[cm[d]].target # t)
  <2>1. p[c] # "throw_mvar"
    OBVIOUS
  <2> QED BY <1>1, <1>2, <2>1, OwnThread
<1>4. InvBut(g, b, p, ct, cm, {}, M)
  <2>1. TsoInv(g, t)
    <3>1. g.msg = h.msg
      BY DEF Asleep, OnlyThread
    <3>2. g.tso[t].link = FALSE
      BY <1>1 DEF TsoInv, Asleep, InvBut, TypeInv, Heap, Tso
    <3> QED BY <1>1, <3>1, <3>2 DEF TsoInv, Asleep, InCall
  <2>2. HereInv(g, p, t)
    BY <1>1 DEF HereInv, Asleep, OnlyThread
  <2>3. WakeInv(g, b, t)
    BY DEF WakeInv, Asleep, OnlyThread, InCall
  <2>4. KeepsThread(h, g, t, M)
    <3>1. (\A mv : ~ Waits(g, t, mv)) /\ (\A mv : ~ Waits(h, t, mv)) /\ \A n : ~ BlockedOn(h, t, n)
      BY DEF Waits, BlockedOn, Asleep
    <3> QED BY <3>1 DEF KeepsThread, Asleep, Dead
  <2>5. KeepsCaps(h, g, p, ct, cm, t)
    BY <1>3 DEF KeepsCaps, Asleep, BlockedOn
  <2>6. OnlyThread(h, g, t) /\ {} \subseteq {} /\ M \subseteq M /\ \A n \in M : h.msg[n].target \in Threads
    BY DEF Asleep, InCall
  <2> QED BY <2>1, <2>2, <2>3, <2>4, <2>5, <2>6, TsoStepInv
<1>5. TypeInv(g, b, p2, ct2, cm) /\ Moves(p, ct, cm, p2, ct2, cm, c) /\ p2[c] = "pause" /\ ct2[c] = t
  BY <1>4 DEF InvBut, TypeInv, Moves, SameAt, Places
<1> HIDE DEF p2, ct2
<1>6. g.msg = h.msg /\ \A u \in Threads : g.tso[u].home = h.tso[u].home /\ g.tso[u].blocked = h.tso[u].blocked
                                           /\ g.tso[u].what = h.tso[u].what
  BY DEF Asleep, OnlyThread
<1>7. CapInv(g, p2, ct2, cm, c)
  <2>1. PauseOK(g, c, t)
    BY <1>1, <1>6 DEF PauseOK, Asleep, InCall
  <2> QED BY <1>1, <1>2, <1>5, <1>6, <2>1 DEF CapInv, Throwing
<1>8. ASSUME NEW n \in Messages \ {m} PROVE g.msg[n].locker # c /\ NotWith(g, p, ct, cm, c, n)
  <2>1. MsgInv(g, p, ct, cm, n)
    BY <1>4 DEF InvBut
  <2>2. g.msg[n].locker # c
    BY <1>1, <2>1 DEF MsgInv, Throwing
  <2>3. cm[c] # n
    BY <1>2, ThreadsAssumption DEF Messages
  <2> QED BY <2>2, <2>3 DEF NotWith
<1>9. MsgInv(g, p2, ct2, cm, m) /\ PendInv(g, b, p2, ct2, cm, m)
  <2>1. BlockedOn(g, t, m)
    BY DEF BlockedOn, Asleep
  <2>2. MsgInv(g, p2, ct2, cm, m)
    BY <1>1, <1>5, <1>6, <2>1 DEF MsgInv, InCall
  <2>3. PendInv(g, b, p2, ct2, cm, m)
    BY <1>6 DEF PendInv, InHands, Lodged, Sent, InCall, Asleep, OnlyThread
  <2> QED BY <2>2, <2>3
<1>10. Passes(g, b, p, ct, cm, p2, ct2, cm, c, M, {})
  BY <1>8, <1>9 DEF Passes
<1>11. \A mv \in MVars : g.mvar[mv].locker # c
  BY <1>1, <1>4 DEF InvBut, LockInv
<1>12. ASSUME NEW u \in Threads, NEW n \in Messages, In(n, g.tso[u].blocked), g.msg[n].locker = c
       PROVE  g.tso[u].home = c
  <2>1. n = m
    BY <1>8, <1>12
  <2>2. TsoInv(g, u)
    BY <1>4 DEF InvBut
  <2>3. g.msg[m].target = u
    BY <1>12, <2>1, <2>2 DEF TsoInv
  <2> QED BY <1>1, <1>6, <1>12, <2>1, <2>3 DEF Lodged
<1>13. InvBut(g, b, p2, ct2, cm, {}, {})
  BY <1>4, <1>5, <1>7, <1>10, <1>11, <1>12, MoveInv
<1> QED BY <1>13 DEF Inv, p2, ct2

(* The throw is left pending: with the heap f, in which the message has     *)
(* been sent on or queued.                                                 *)
Pending(h, f, c, m) ==
  /\ f.msg = h.msg
  /\ \A u \in Threads : /\ f.tso[u].home = h.tso[u].home /\ f.tso[u].why = h.tso[u].why
                        /\ f.tso[u].info = h.tso[u].info /\ f.tso[u].what = h.tso[u].what
LEMMA LeftPendingInv ==
  ASSUME IInv, NEW c \in Capabilities, Throwing(pc, c), NEW f, Blocked(c, f), UNCHANGED batch,
         Pending(heap, f, c, curMsg[c]), Lodged(f, batch, c, curTso[c], curMsg[c]),
         InvBut(f, batch, [pc EXCEPT ![c] = "sched"], [curTso EXCEPT ![c] = None], [curMsg EXCEPT ![c] = None],
                {}, {curMsg[c]})
  PROVE  IInv'
<1> DEFINE m == curMsg[c]
           t == curTso[c]
           h == heap
           p2 == [pc EXCEPT ![c] = "sched"]
           ct2 == [curTso EXCEPT ![c] = None]
           cm2 == [curMsg EXCEPT ![c] = None]
<1>1. Inv(h, batch, pc, curTso, curMsg) /\ pc \in [Capabilities -> Places] /\ curTso \in [Capabilities -> Threads \cup {None}]
  BY DEF IInv, Inv, InvBut, TypeInv
<1>2. /\ heap' = IF t # None THEN [f EXCEPT !.tso[t].why = "MsgThrowTo", !.tso[t].info = m, !.tso[t].stack = "throwing"]
                 ELSE UnlockMsg(f, m, "throwto")
      /\ pc' = [pc EXCEPT ![c] = IF t # None THEN "pause" ELSE "sched"]
      /\ curMsg' = cm2 /\ curTso' = curTso
  BY DEF Blocked, InPrimop
<1>3. /\ InCall(h, m, c) /\ ThrowOK(h, c, t, m)
      /\ \A d \in Capabilities : Throwing(p2, d) => cm2[d] # m
      /\ \A d \in Capabilities : p2[d] = "pause" => h.tso[ct2[d]].info # m
      /\ p2[c] = "sched" /\ ct2[c] = None /\ cm2[c] = None
  <2>1. Left(h, batch, p2, ct2, cm2, c, t, m)
    BY <1>1, LeaveInv DEF h
  <2> QED BY <2>1 DEF Left
<1>4. t # None => t \in Threads /\ h.tso[t].home = c
  <2>1. CapInv(h, pc, curTso, curMsg, c)
    BY <1>1 DEF Inv, InvBut
  <2> QED BY <1>1, <2>1 DEF CapInv
<1>5. InvBut(f, batch, p2, ct2, cm2, {}, {m}) /\ Lodged(f, batch, c, t, m) /\ f \in Heap /\ Pending(h, f, c, m)
  BY DEF InvBut, TypeInv
<1>6. ct2 = [curTso EXCEPT ![c] = None]
  OBVIOUS
<1>7. p2 = [pc EXCEPT ![c] = "sched"]
  OBVIOUS
<1> HIDE DEF h, p2, ct2, cm2, m, t
<1>8. InCall(f, m, c) /\ m \in Messages
  BY <1>3, <1>5 DEF InCall, Pending
<1>9. CASE t = None
  <2>1. BlockedOn(f, f.msg[m].source, m)
    BY <1>3, <1>5, <1>9 DEF ThrowOK, Pending, BlockedOn
  <2>2. ASSUME NEW d \in Capabilities, p2[d] = "pause" PROVE f.tso[ct2[d]].info # m
    <3>1. ct2[d] \in Threads
      BY <1>5, <2>2 DEF InvBut, TypeInv, CapInv
    <3> QED BY <1>3, <1>5, <2>2, <3>1 DEF Pending
  <2>3. Lodged(f, batch, c, None, m)
    BY <1>5, <1>9
  <2>4. Inv(UnlockMsg(f, m, "throwto"), batch, p2, ct2, cm2)
    BY <1>3, <1>5, <1>8, <2>1, <2>2, <2>3, NotRevokedInv
  <2>5. curTso' = ct2 /\ pc' = p2 /\ heap' = UnlockMsg(f, m, "throwto")
    BY <1>1, <1>2, <1>6, <1>7, <1>9 DEF t
  <2> QED BY <1>2, <2>4, <2>5 DEF IInv
<1>10. CASE t # None
  <2> DEFINE u == [f.tso[t] EXCEPT !.why = "MsgThrowTo", !.info = m, !.stack = "throwing"]
             g == [f EXCEPT !.tso[t] = u]
             M == {m}
  <2>1. t \in Threads /\ f.tso[t] \in Tso /\ f.tso[t].home = c
    BY <1>4, <1>5, <1>10, TypedParts DEF Pending
  <2>2. heap' = g
    BY <1>2, <1>5, <1>10, <2>1 DEF Heap
  <2>3. /\ u \in Tso /\ u.home = c /\ u.why = "MsgThrowTo" /\ u.info = m /\ u.stack = "throwing"
        /\ u.link = f.tso[t].link /\ u.what = f.tso[t].what /\ u.blocked = f.tso[t].blocked
    BY <1>8, <2>1 DEF Tso
  <2> HIDE DEF u
  <2>4. Asleep(f, g, t, m)
    <3>1. /\ g \in Heap /\ g.tso[t] = u
          /\ \A v \in Threads \ {t} : g.tso[v] = f.tso[v]
          /\ g.msg = f.msg /\ g.mvar = f.mvar /\ g.inbox = f.inbox
      BY <1>5, <2>1, <2>3, PutTso
    <3> HIDE DEF g
    <3> QED BY <2>1, <2>3, <3>1 DEF Asleep, OnlyThread
  <2> HIDE DEF g
  <2>5. f.msg[m].source = t /\ f.tso[t].why = "NotBlocked" /\ f.tso[t].what = "run"
    BY <1>3, <1>5, <1>10, <2>1 DEF ThrowOK, Pending
  <2>6. Inv(g, batch, [p2 EXCEPT ![c] = "pause"], [ct2 EXCEPT ![c] = t], cm2)
    BY <1>3, <1>5, <1>8, <2>1, <2>4, <2>5, SleepInv
  <2>7. [p2 EXCEPT ![c] = "pause"] = pc' /\ [ct2 EXCEPT ![c] = t] = curTso'
    BY <1>1, <1>2, <1>6, <1>7, <1>10 DEF t
  <2> QED BY <1>2, <2>2, <2>6, <2>7 DEF IInv
<1> QED BY <1>9, <1>10

LEMMA SentOnInv ==
  ASSUME IInv, NEW c \in Capabilities, Throwing(pc, c), NEW d \in Capabilities,
         Blocked(c, SendMessage(heap, d, ThrowTo(curMsg[c]))), UNCHANGED batch
  PROVE  IInv'
<1> DEFINE m == curMsg[c]
           t == curTso[c]
           p2 == [pc EXCEPT ![c] = "sched"]
           ct2 == [curTso EXCEPT ![c] = None]
           cm2 == [curMsg EXCEPT ![c] = None]
           f == SendMessage(heap, d, ThrowTo(m))
<1>1. Inv(heap, batch, pc, curTso, curMsg) /\ heap \in Heap
  BY DEF IInv, Inv, InvBut, TypeInv
<1>2. InvBut(heap, batch, p2, ct2, cm2, {}, {m}) /\ InCall(heap, m, c) /\ ThrowOK(heap, c, t, m)
  <2>1. Left(heap, batch, p2, ct2, cm2, c, t, m)
    BY <1>1, LeaveInv
  <2> QED BY <2>1 DEF Left
<1> HIDE DEF p2, ct2, cm2, m
<1>3. m \in Messages /\ ThrowTo(m) \in Mail
  BY <1>2, MailIn DEF InCall
<1>4. /\ f \in Heap /\ f.tso = heap.tso /\ f.msg = heap.msg
      /\ Sent(f, batch, ThrowTo(m))
  BY <1>1, <1>3, SendEffect
<1>5. InvBut(f, batch, p2, ct2, cm2, {}, {m})
  <2>1. \A u \in {} : ThrowTo(m) = Wakeup(u) \/ u \in {}
    OBVIOUS
  <2> QED BY <1>2, <1>3, <2>1, SendInv
<1> HIDE DEF f
<1>6. Pending(heap, f, c, m)
  BY <1>4 DEF Pending
<1>7. Lodged(f, batch, c, t, m)
  BY <1>2, <1>4 DEF Lodged, ThrowOK
<1>8. Blocked(c, f)
  BY DEF f, m
<1> QED BY <1>5, <1>6, <1>7, <1>8, LeftPendingInv DEF m, p2, ct2, cm2, t

Enqueued(h, f, b, p, ct, cm, c, t, m) ==
  InvBut(f, b, p, ct, cm, {}, {m}) /\ Pending(h, f, c, m) /\ Lodged(f, b, c, t, m)
LEMMA EnqueuedInv ==
  ASSUME NEW h, NEW b, NEW p, NEW ct, NEW cm, NEW c \in Capabilities, NEW t, NEW m, Left(h, b, p, ct, cm, c, t, m),
         h.tso[h.msg[m].target].home = c, h.tso[h.msg[m].target].what # "finished"
  PROVE  Enqueued(h, BlockedThrowTo(h, m), b, p, ct, cm, c, t, m)
<1> DEFINE s == h.msg[m].target
           v == <<m>> \o h.tso[s].blocked
           u == [h.tso[s] EXCEPT !.blocked = v]
           f == [h EXCEPT !.tso[s] = u]
           M == {m}
<1>1. InvBut(h, b, p, ct, cm, {}, {m}) /\ InCall(h, m, c) /\ ThrowOK(h, c, t, m) /\ h \in Heap
  BY DEF Left, InvBut, TypeInv
<1>2. BlockedThrowTo(h, m) = f
  BY DEF BlockedThrowTo
<1>3. /\ \A d \in Capabilities : Throwing(p, d) => cm[d] # m
      /\ p[c] = "sched" /\ ct[c] = None /\ cm[c] = None
  BY DEF Left
<1>4. m \in Messages /\ s \in Threads /\ h.msg[m].target = s /\ h.tso[s].home = c /\ h.tso[s].what # "finished"
      /\ h.msg[m].info = "locked" /\ h.msg[m].locker = c /\ s # None
  BY <1>1, ThreadsAssumption DEF InCall
<1> HIDE DEF s, M
<1>5. /\ h.tso[s] \in Tso /\ TsoInv(h, s) /\ HereInv(h, p, s) /\ WakeInv(h, b, s)
  BY <1>1, <1>3, <1>4, TypedParts DEF InvBut
<1>6. h.tso[s].blocked \in Seq(Messages)
  BY <1>5 DEF Tso
<1>7. v \in Seq(Messages) /\ \A n : In(n, v) <=> n = m \/ In(n, h.tso[s].blocked)
  BY <1>4, <1>6, ConsIn
<1>8. /\ u \in Tso /\ u.home = h.tso[s].home /\ u.why = h.tso[s].why /\ u.info = h.tso[s].info /\ u.link = h.tso[s].link
      /\ u.what = h.tso[s].what /\ u.catch = h.tso[s].catch /\ u.stack = h.tso[s].stack
      /\ \A n : In(n, u.blocked) <=> n = m \/ In(n, h.tso[s].blocked)
  BY Zenon, <1>5, <1>7 DEF Tso
<1> HIDE DEF u, v
<1>9. OnlyThread(h, f, s) /\ f.tso[s] = u
  BY <1>1, <1>4, <1>8, PutTso DEF OnlyThread
<1> HIDE DEF f
<1>10. f.msg = h.msg /\ f.mvar = h.mvar /\ f.inbox = h.inbox
  BY <1>9 DEF OnlyThread
<1>11. TsoInv(f, s) /\ HereInv(f, p, s) /\ WakeInv(f, b, s)
  <2>1. \A n \in Messages : In(n, f.tso[s].blocked) => f.msg[n].info \notin {"free", "done"} /\ f.msg[n].target = s
    BY <1>4, <1>5, <1>8, <1>9, <1>10 DEF TsoInv
  <2>2. Alike(h, f, s)
    BY <1>8, <1>9 DEF Alike
  <2>3. h.tso[s].why = "MsgThrowTo" => f.msg[h.tso[s].info].info \in {"locked", "throwto", "null"}
    BY <1>5, <1>10 DEF TsoInv
  <2>4. TsoInv(f, s)
    BY <1>4, <1>5, <1>8, <1>9, <1>10, <2>1, <2>2, <2>3, TsoKept
  <2>5. HereInv(f, p, s)
    BY <1>4, <1>5, <1>8, <1>9, <1>10 DEF HereInv
  <2>6. WakeInv(f, b, s)
    BY <1>5, <1>8, <1>9, <1>10 DEF WakeInv, Sent
  <2> QED BY <2>4, <2>5, <2>6
<1>12. KeepsThread(h, f, s, M)
  <2>1. \A n : BlockedOn(h, s, n) => BlockedOn(f, s, n)
    BY <1>8, <1>9 DEF BlockedOn
  <2>2. \A mv : Waits(f, s, mv) <=> Waits(h, s, mv)
    BY <1>8, <1>9 DEF Waits
  <2> QED BY <1>8, <1>9, <2>1, <2>2 DEF KeepsThread, Dead
<1>13. KeepsCaps(h, f, p, ct, cm, s)
  <2> SUFFICES ASSUME NEW d \in Capabilities
               PROVE  /\ ct[d] = s => CapInv(f, p, ct, cm, d) /\ f.tso[s].info = h.tso[s].info
                      /\ Throwing(p, d) => /\ BlockedOn(h, s, cm[d]) => BlockedOn(f, s, cm[d])
                                           /\ In(cm[d], f.tso[s].blocked) => In(cm[d], h.tso[s].blocked)
                                           /\ p[d] = "throw_mvar" /\ h.msg[cm[d]].target = s => WaiterOK(f, d, s)
    BY DEF KeepsCaps
  <2>1. /\ ct[d] = s => d = c
        /\ p[d] = "throw_mvar" => h.msg[cm[d]].target # s
    <3>1. p[c] # "throw_mvar"
      BY <1>3
    <3> QED BY <1>1, <1>3, <1>4, <3>1, OwnThread
  <2>2. BlockedOn(h, s, cm[d]) => BlockedOn(f, s, cm[d])
    BY <1>8, <1>9 DEF BlockedOn
  <2> QED BY <1>3, <1>4, <1>8, <1>9, <2>1, <2>2
<1>14. InvBut(f, b, p, ct, cm, {}, M)
  <2>1. {} \subseteq {} /\ M \subseteq M /\ \A n \in M : h.msg[n].target \in Threads
    BY <1>4 DEF M
  <2>2. InvBut(h, b, p, ct, cm, {}, M)
    BY <1>1 DEF M
  <2> QED BY <1>4, <1>9, <1>11, <1>12, <1>13, <2>1, <2>2, TsoStepInv
<1>15. Pending(h, f, c, m)
  BY <1>4, <1>8, <1>9 DEF Pending, OnlyThread
<1>16. Lodged(f, b, c, t, m)
  BY Zenon, <1>4, <1>8, <1>9, <1>10 DEF Lodged, s
<1> QED BY <1>2, <1>14, <1>15, <1>16 DEF Enqueued, M
LEMMA QueuedInv ==
  ASSUME IInv, NEW c \in Capabilities, Throwing(pc, c), NEW s, s = heap.msg[curMsg[c]].target,
         heap.tso[s].home = c, heap.tso[s].what # "finished",
         Blocked(c, BlockedThrowTo(heap, curMsg[c])), UNCHANGED batch
  PROVE  IInv'
<1> DEFINE m == curMsg[c]
           t == curTso[c]
           p2 == [pc EXCEPT ![c] = "sched"]
           ct2 == [curTso EXCEPT ![c] = None]
           cm2 == [curMsg EXCEPT ![c] = None]
<1>1. Inv(heap, batch, pc, curTso, curMsg)
  BY DEF IInv
<1>2. Left(heap, batch, p2, ct2, cm2, c, t, m)
  BY <1>1, LeaveInv
<1> HIDE DEF p2, ct2, cm2, m, t
<1>3. Enqueued(heap, BlockedThrowTo(heap, m), batch, p2, ct2, cm2, c, t, m)
  <2>1. heap.tso[heap.msg[m].target].home = c /\ heap.tso[heap.msg[m].target].what # "finished"
    BY DEF m
  <2> QED BY Zenon, <1>2, <2>1, EnqueuedInv
<1>4. Blocked(c, BlockedThrowTo(heap, m))
  BY DEF m
<1> DEFINE f == BlockedThrowTo(heap, m)
<1> HIDE DEF f
<1>5. Enqueued(heap, f, batch, p2, ct2, cm2, c, t, m) /\ Blocked(c, f)
  BY <1>3, <1>4 DEF f
<1>6. /\ InvBut(f, batch, p2, ct2, cm2, {}, {m}) /\ Pending(heap, f, c, m) /\ Lodged(f, batch, c, t, m)
  BY <1>5 DEF Enqueued
<1> QED BY Zenon, <1>5, <1>6, LeftPendingInv DEF m, p2, ct2, cm2, t

(* A thread that may go on by itself: the throw is tried again.             *)
LEMMA RetriedInv ==
  ASSUME NEW h, NEW b, NEW p, NEW ct, NEW cm, Inv(h, b, p, ct, cm), NEW c \in Capabilities, p[c] = "throw",
         NEW t \in Threads
  PROVE  Inv(TryWakeup(h, c, t), b, p, ct, cm)
<1>1. InvBut(h, b, p, ct, cm, {}, {}) /\ p[c] # "throw_mvar"
  BY DEF Inv
<1>2. \A d \in Capabilities : h.tso[t].home = c /\ p[d] = "throw_mvar" => h.msg[cm[d]].target # t
  BY <1>1, NotWaitedFor
<1>3. InvBut(TryWakeup(h, c, t), b, p, ct, cm, {} \ {t}, {})
  BY <1>1, <1>2, TryWakeupInv
<1>4. {} \ {t} = {}
  OBVIOUS
<1> QED BY <1>3, <1>4 DEF Inv

LEMMA ThrowToMsgInv ==
  ASSUME IInv, NEW c \in Capabilities, ThrowToMsg(c)
  PROVE  IInv'
<1> DEFINE m == curMsg[c]
           t == heap.msg[m].target
           u == heap.tso[t]
<1>1. pc[c] = "throw" /\ Throwing(pc, c) /\ UNCHANGED batch
  BY Zenon DEF ThrowToMsg, Throwing
<1>2. Inv(heap, batch, pc, curTso, curMsg)
  BY DEF IInv
<1>3. InCall(heap, m, c)
  BY <1>1, <1>2, CallInv
<1>4. t \in Threads /\ m \in Messages /\ u \in Tso /\ TsoInv(heap, t)
  <2>1. t \in Threads /\ m \in Messages
    BY <1>3 DEF InCall
  <2> QED BY <1>2, <2>1, TypedParts DEF Inv, InvBut, TypeInv
<1>5. \/ Dead(heap, t) /\ Succeeds(c, heap)
      \/ ~Dead(heap, t) /\ Blocked(c, SendMessage(heap, u.home, ThrowTo(m)))
      \/ /\ ~Dead(heap, t) /\ u.home = c
         /\ \/ u.why = "NotBlocked" /\ Succeeds(c, Interrupt(heap, t, m))
            \/ u.why = "NotBlocked" /\ Blocked(c, BlockedThrowTo(heap, m))
            \/ u.why = "MsgThrowTo" /\ ThrowToThrower(c, m, t, u.info)
            \/ /\ u.why = "MVar"
               /\ pc' = [pc EXCEPT ![c] = "throw_mvar"] /\ UNCHANGED <<heap, curMsg, curTso>>
            \/ Retries(TryWakeup(heap, c, t))
  BY Zenon DEF ThrowToMsg
<1> HIDE DEF u, t, m
<1>6. CASE Dead(heap, t) /\ Succeeds(c, heap)
  BY <1>1, <1>6, DeadTargetInv DEF t, m
<1>7. CASE Blocked(c, SendMessage(heap, u.home, ThrowTo(m)))
  <2>1. u.home \in Capabilities
    BY <1>4 DEF Tso
  <2> QED BY <1>1, <1>7, <2>1, SentOnInv DEF m
<1>8. ASSUME ~Dead(heap, t), u.home = c, Blocked(c, BlockedThrowTo(heap, m)) PROVE IInv'
  BY <1>1, <1>8, QueuedInv DEF m, t, u, Dead
<1>9. ASSUME ~Dead(heap, t), u.home = c, u.why # "MVar", u.why = "MsgThrowTo" => heap.msg[u.info].info \notin {"locked", "null"},
             Succeeds(c, Interrupt(heap, t, m))
      PROVE  IInv'
  <2>1. MayInterrupt(heap, c, t)
    BY <1>9 DEF MayInterrupt, Dead, u
  <2> QED BY <1>1, <1>9, <2>1, RaisedInv DEF m, t
<1>10. CASE Retries(TryWakeup(heap, c, t))
  <2>1. Inv(TryWakeup(heap, c, t), batch, pc, curTso, curMsg)
    BY <1>1, <1>2, <1>4, RetriedInv
  <2> QED BY <1>1, <1>10, <2>1 DEF Retries, IInv
<1>11. CASE /\ u.home = c /\ u.why = "MVar"
            /\ pc' = [pc EXCEPT ![c] = "throw_mvar"] /\ UNCHANGED <<heap, curMsg, curTso>>
  <2>1. "throw_mvar" \in {"throw", "throw_mvar"} /\ WaiterOK(heap, c, heap.msg[curMsg[c]].target)
    BY <1>11 DEF WaiterOK, u, t, m
  <2>2. Inv(heap, batch, [pc EXCEPT ![c] = "throw_mvar"], curTso, curMsg)
    BY <1>1, <1>2, <2>1, TurnInv
  <2> QED BY <1>1, <1>11, <2>2 DEF IInv
<1>12. CASE /\ ~Dead(heap, t) /\ u.home = c
            /\ u.why = "MsgThrowTo" /\ ThrowToThrower(c, m, t, u.info)
  <2> DEFINE n == u.info
  <2>1. CASE heap.msg[n].info = "locked"
    <3>1. Blocked(c, SendMessage(heap, c, ThrowTo(m)))
      BY <1>12, <2>1 DEF ThrowToThrower
    <3> QED BY <1>7, <1>12, <3>1
  <2>2. CASE heap.msg[n].info = "null"
    <3>1. Retries(TryWakeup(heap, c, t))
      BY <1>12, <2>2 DEF ThrowToThrower
    <3> QED BY <1>10, <3>1
  <2>3. CASE heap.msg[n].info \notin {"locked", "null"}
    <3>1. Succeeds(c, Interrupt(heap, t, m)) \/ Blocked(c, BlockedThrowTo(heap, m))
      BY <1>12, <2>3 DEF ThrowToThrower
    <3> QED BY <1>8, <1>9, <1>12, <2>3, <3>1
  <2> QED BY <2>1, <2>2, <2>3
<1> QED BY <1>5, <1>6, <1>7, <1>8, <1>9, <1>10, <1>11, <1>12

LEMMA ThrowToWaiterInv ==
  ASSUME IInv, NEW c \in Capabilities, ThrowToWaiter(c)
  PROVE  IInv'
<1> DEFINE m == curMsg[c]
           t == heap.msg[m].target
           u == heap.tso[t]
<1>1. pc[c] = "throw_mvar" /\ Throwing(pc, c) /\ UNCHANGED batch
  BY Zenon DEF ThrowToWaiter, Throwing
<1>2. Inv(heap, batch, pc, curTso, curMsg)
  BY DEF IInv
<1>3. InCall(heap, m, c)
  BY <1>1, <1>2, CallInv
<1>4. t \in Threads /\ m \in Messages
  BY <1>3 DEF InCall
<1>5. /\ TsoInv(heap, t) /\ CapInv(heap, pc, curTso, curMsg, c)
  BY <1>2, <1>4 DEF Inv, InvBut
<1>6. u.home = c /\ u.why = "MVar" /\ u.what = "run"
  BY Zenon, <1>1, <1>5 DEF CapInv, WaiterOK, TsoInv
<1>7. \/ /\ heap' = TryWakeup(heap, c, t)
         /\ pc' = [pc EXCEPT ![c] = "throw"] /\ UNCHANGED <<curMsg, curTso>>
      \/ /\ u.link /\ (Succeeds(c, Interrupt(heap, t, m)) \/ Blocked(c, BlockedThrowTo(heap, m)))
  BY Zenon DEF ThrowToWaiter, Completed
<1> HIDE DEF m, t, u
<1>8. CASE /\ heap' = TryWakeup(heap, c, t)
           /\ pc' = [pc EXCEPT ![c] = "throw"] /\ UNCHANGED <<curMsg, curTso>>
  <2> DEFINE p2 == [pc EXCEPT ![c] = "throw"]
  <2>1. Inv(heap, batch, p2, curTso, curMsg)
    <3>1. "throw" \in {"throw", "throw_mvar"} /\ "throw" # "throw_mvar"
      OBVIOUS
    <3> QED BY <1>1, <1>2, <3>1, TurnInv
  <2>2. p2[c] = "throw"
    BY <1>2 DEF Inv, InvBut, TypeInv
  <2> HIDE DEF p2
  <2>3. Inv(TryWakeup(heap, c, t), batch, p2, curTso, curMsg)
    BY <1>4, <2>1, <2>2, RetriedInv
  <2> QED BY <1>1, <1>8, <2>3 DEF IInv, p2
<1>9. CASE u.link /\ Succeeds(c, Interrupt(heap, t, m))
  <2>1. MayInterrupt(heap, c, t)
    BY <1>6, <1>9 DEF MayInterrupt, u
  <2> QED BY <1>1, <1>9, <2>1, RaisedInv DEF m, t
<1>10. CASE Blocked(c, BlockedThrowTo(heap, m))
  BY <1>1, <1>6, <1>10, QueuedInv DEF m, t, u
<1> QED BY <1>7, <1>8, <1>9, <1>10

----------------------------------------------------------------------------
(* takeMVar and putMVar *)

LEMMA AppendLive ==
  ASSUME NEW q \in Seq(Entry), NEW t \in Threads
  PROVE  LET r == Append(q, [tso |-> t, info |-> "queue"]) IN
         /\ r \in Seq(Entry) /\ Live(r) = Live(q) \cup {Len(q) + 1} /\ r[Len(q) + 1].tso = t
         /\ \A i \in Live(q) : r[i] = q[i] /\ i # Len(q) + 1
<1> DEFINE e == [tso |-> t, info |-> "queue"]
           r == Append(q, e)
<1>1. e \in Entry /\ e.tso = t /\ e.info = "queue"
  BY DEF Entry
<1> HIDE DEF e
<1>2. /\ r \in Seq(Entry) /\ Len(r) = Len(q) + 1 /\ r[Len(q) + 1] = e /\ Len(q) \in Nat
      /\ \A i \in 1..Len(q) : r[i] = q[i]
  BY <1>1
<1>3. DOMAIN r = 1..(Len(q) + 1) /\ DOMAIN q = 1..Len(q)
  BY <1>2
<1> HIDE DEF r
<1>4. Live(r) = Live(q) \cup {Len(q) + 1}
  <2>1. ASSUME NEW i \in Live(r) PROVE i \in Live(q) \cup {Len(q) + 1}
    BY <1>2, <1>3, <2>1 DEF Live
  <2>2. ASSUME NEW i \in Live(q) PROVE i \in Live(r)
    BY <1>2, <1>3, <2>2 DEF Live
  <2>3. Len(q) + 1 \in Live(r)
    BY <1>1, <1>2, <1>3 DEF Live
  <2> QED BY <2>1, <2>2, <2>3
<1>5. \A i \in Live(q) : r[i] = q[i] /\ i # Len(q) + 1
  BY <1>2, <1>3 DEF Live
<1> QED BY <1>1, <1>2, <1>4, <1>5 DEF r, e

(* The thread t blocks on mv at the end of its queue, for what mv lacks.    *)
BlocksOn(h, g, c, t, mv) ==
  /\ g \in Heap /\ g.msg = h.msg /\ g.inbox = h.inbox
  /\ \A u \in Threads \ {t} : g.tso[u] = h.tso[u]
  /\ g.tso[t].home = h.tso[t].home /\ g.tso[t].what = h.tso[t].what /\ g.tso[t].catch = h.tso[t].catch
  /\ g.tso[t].blocked = h.tso[t].blocked
  /\ g.tso[t].link /\ g.tso[t].info = mv /\ g.tso[t].why = "MVar" /\ g.tso[t].stack = Lacks(h.mvar[mv])
  /\ \A n \in MVars \ {mv} : g.mvar[n] = h.mvar[n]
  /\ g.mvar[mv].full = h.mvar[mv].full /\ g.mvar[mv].locker = c
  /\ g.mvar[mv].queue = Append(h.mvar[mv].queue, [tso |-> t, info |-> "queue"])

LEMMA BlockOnEffect ==
  ASSUME NEW h \in Heap, NEW c \in Capabilities, NEW t \in Threads, NEW mv \in MVars
  PROVE  BlocksOn(h, BlockOnMVar(h, c, t, mv, Lacks(h.mvar[mv])), c, t, mv)
<1> DEFINE doing == Lacks(h.mvar[mv])
           u == [h.tso[t] EXCEPT !.link = TRUE, !.info = mv, !.why = "MVar", !.stack = doing]
           v == [h.mvar[mv] EXCEPT !.queue = Append(@, [tso |-> t, info |-> "queue"]), !.locker = c]
           f == [h EXCEPT !.mvar[mv] = v]
           g == [f EXCEPT !.tso[t] = u]
<1>1. doing \in {"taking", "putting"}
  BY DEF Lacks
<1> HIDE DEF doing
<1>2. BlockOnMVar(h, c, t, mv, doing) = g
  <2> DEFINE f1 == [h EXCEPT !.mvar[mv].queue = Append(@, [tso |-> t, info |-> "queue"])]
             f2 == [f1 EXCEPT !.mvar[mv].locker = c]
             f3 == [f2 EXCEPT !.tso[t].link = TRUE]
             f4 == [f3 EXCEPT !.tso[t].info = mv]
             f5 == [f4 EXCEPT !.tso[t].why = "MVar"]
             f6 == [f5 EXCEPT !.tso[t].stack = doing]
  <2>1. BlockOnMVar(h, c, t, mv, doing) = f6
    BY Zenon DEF BlockOnMVar
  <2>2. f2 = f
    BY DEF Heap
  <2> HIDE DEF f2
  <2>3. f = [h EXCEPT !.mvar = f.mvar] /\ f.tso = h.tso /\ DOMAIN f.tso = Threads
    BY DEF Heap
  <2> HIDE DEF f
  <2> DEFINE With(y) == [f EXCEPT !.tso[t] = y]
             y1 == [h.tso[t] EXCEPT !.link = TRUE]
             y2 == [y1 EXCEPT !.info = mv]
             y3 == [y2 EXCEPT !.why = "MVar"]
  <2>4. \A y : With(y).tso[t] = y /\ \A z : [With(y) EXCEPT !.tso[t] = z] = With(z)
    BY Zenon, <2>3 DEF Heap
  <2>5. f3 = With(y1) /\ g = With([y3 EXCEPT !.stack = doing])
    BY <2>2, <2>3
  <2> HIDE DEF With, f3, g, y1
  <2>6. f4 = With(y2)
    BY <2>4, <2>5
  <2> HIDE DEF f4, y2
  <2>7. f5 = With(y3)
    BY <2>4, <2>6
  <2> HIDE DEF f5, y3
  <2>8. f6 = g
    BY <2>4, <2>5, <2>7
  <2> QED BY <2>1, <2>8
<1>3. h.tso[t] \in Tso /\ h.mvar[mv] \in MVar
  BY TypedParts
<1>4. /\ u \in Tso /\ u.home = h.tso[t].home /\ u.what = h.tso[t].what /\ u.catch = h.tso[t].catch
      /\ u.blocked = h.tso[t].blocked /\ u.link /\ u.info = mv /\ u.why = "MVar" /\ u.stack = doing
  BY <1>1, <1>3 DEF Tso
<1>5. v \in MVar /\ v.full = h.mvar[mv].full /\ v.locker = c
      /\ v.queue = Append(h.mvar[mv].queue, [tso |-> t, info |-> "queue"])
  <2>1. h.mvar[mv].queue \in Seq(Entry)
    BY <1>3 DEF MVar
  <2>2. Append(h.mvar[mv].queue, [tso |-> t, info |-> "queue"]) \in Seq(Entry)
    BY <2>1, AppendLive
  <2> QED BY <1>3, <2>2 DEF MVar
<1> HIDE DEF u, v
<1>6. /\ f \in Heap /\ f.mvar[mv] = v /\ (\A n \in MVars \ {mv} : f.mvar[n] = h.mvar[n])
      /\ f.tso = h.tso /\ f.msg = h.msg /\ f.inbox = h.inbox
  BY <1>5, PutMVar_
<1> HIDE DEF f
<1>7. /\ g \in Heap /\ g.tso[t] = u /\ (\A w \in Threads \ {t} : g.tso[w] = f.tso[w])
      /\ g.msg = f.msg /\ g.mvar = f.mvar /\ g.inbox = f.inbox
  BY <1>4, <1>6, PutTso
<1> HIDE DEF g
<1>8. BlocksOn(h, g, c, t, mv)
  BY <1>4, <1>5, <1>6, <1>7 DEF BlocksOn, doing
<1> QED BY <1>2, <1>8 DEF doing

LEMMA BlockInv ==
  ASSUME NEW h, NEW b, NEW p, NEW ct, NEW cm, Inv(h, b, p, ct, cm), NEW c \in Capabilities, NEW t, MayRun(h, p, c, t),
         h.tso[t].what = "run", NEW mv \in MVars, h.mvar[mv].locker = None, NEW g, BlocksOn(h, g, c, t, mv)
  PROVE  Inv(g, b, [p EXCEPT ![c] = "pause"], [ct EXCEPT ![c] = t], cm)
<1> DEFINE p2 == [p EXCEPT ![c] = "pause"]
           ct2 == [ct EXCEPT ![c] = t]
<1>1. /\ h \in Heap /\ t # None /\ h.tso[t] \in Tso /\ h.tso[t].stack = "idle" /\ ~ h.tso[t].link /\ TsoInv(h, t)
      /\ \A d \in Capabilities : ct[d] # t /\ (p[d] = "throw_mvar" => h.msg[cm[d]].target # t)
      /\ \A n : ~ Waits(h, t, n)
      /\ \A m : ~ BlockedOn(h, t, m)
  BY RunningThread
<1>2. /\ InvBut(h, b, p, ct, cm, {}, {}) /\ t \in Threads /\ p[c] = "sched" /\ h.tso[t].home = c /\ h.tso[t].why = "NotBlocked"
      /\ c # None /\ mv # None /\ mv \notin Messages
  BY ThreadsAssumption DEF Inv, MayRun, Messages
<1>3. /\ ct[c] = None /\ cm[c] = None
      /\ \A n \in MVars : h.mvar[n].locker # c
      /\ \A m \in Messages : h.msg[m].locker # c
  BY <1>2, IdleCap
<1>4. /\ TypeInv(g, b, p2, ct2, cm) /\ p2[c] = "pause" /\ ct2[c] = t
      /\ \A d \in Capabilities \ {c} : SameAt(p, ct, cm, p2, ct2, cm, d)
  BY <1>2 DEF InvBut, TypeInv, SameAt, Places, BlocksOn
<1> HIDE DEF p2, ct2
<1>5. /\ g.msg = h.msg /\ g.inbox = h.inbox
      /\ \A u \in Threads : /\ g.tso[u].blocked = h.tso[u].blocked /\ g.tso[u].what = h.tso[u].what
                            /\ g.tso[u].home = h.tso[u].home
                            /\ u # t => g.tso[u] = h.tso[u]
      /\ \A u, m : BlockedOn(h, u, m) => BlockedOn(g, u, m)
  <2>1. ASSUME NEW u, NEW m, BlockedOn(h, u, m) PROVE BlockedOn(g, u, m)
    BY Zenon, <1>1, <2>1 DEF BlockedOn, BlocksOn
  <2> QED BY Zenon, <2>1 DEF BlocksOn
<1>6. ASSUME NEW u \in Threads PROVE TsoInv(g, u) /\ HereInv(g, p2, u) /\ WakeInv(g, b, u)
  <2>1. TsoInv(h, u) /\ HereInv(h, p, u) /\ WakeInv(h, b, u)
    BY <1>2 DEF InvBut
  <2>2. TsoInv(g, u)
    <3>1. CASE u = t
      BY <1>1, <1>2, <1>5, <3>1 DEF TsoInv, BlocksOn, Lacks
    <3>2. CASE u # t
      BY <1>5, <2>1, <3>2 DEF TsoInv
    <3> QED BY <3>1, <3>2
  <2>3. HereInv(g, p2, u)
    <3> SUFFICES ASSUME NEW m \in Messages, In(m, g.tso[u].blocked), g.msg[m].locker # None, p2[g.msg[m].locker] = "pause"
                 PROVE  g.tso[u].home = g.msg[m].locker
      BY DEF HereInv
    <3>1. h.msg[m] \in Msg
      BY <1>1, TypedParts
    <3>2. h.msg[m].locker \in Capabilities \ {c}
      BY <1>3, <1>5, <3>1 DEF Msg
    <3> QED BY <1>4, <1>5, <2>1, <3>2 DEF HereInv, SameAt
  <2>4. WakeInv(g, b, u)
    BY Zenon, <1>5, <2>1 DEF WakeInv, BlocksOn, Sent
  <2> QED BY <2>2, <2>3, <2>4
<1>7. ASSUME NEW m \in Messages PROVE MsgInv(g, p2, ct2, cm, m) /\ PendInv(g, b, p2, ct2, cm, m)
  <2>1. MsgInv(h, p, ct, cm, m) /\ PendInv(h, b, p, ct, cm, m) /\ h.msg[m] \in Msg
    BY <1>1, <1>2, TypedParts DEF InvBut
  <2>2. DeadKept(h, g)
    BY <1>5 DEF DeadKept, Dead
  <2>3. h.msg[m].info = "locked" => SameAt(p, ct, cm, p2, ct2, cm, h.msg[m].locker)
    BY <1>3, <1>4, <2>1 DEF MsgInv, Msg
  <2>4. MsgInv(g, p2, ct2, cm, m)
    BY <1>5, <2>1, <2>2, <2>3, MsgKept
  <2>5. \A d \in Capabilities : p[d] = "finish" => p2[d] = p[d] /\ ct2[d] = ct[d]
    BY <1>2, <1>4 DEF SameAt
  <2>6. Sent(h, b, ThrowTo(m)) => Sent(g, b, ThrowTo(m))
    BY <1>5 DEF Sent
  <2>7. PendInv(g, b, p2, ct2, cm, m)
    BY <1>5, <2>1, <2>5, <2>6, PendKept
  <2> QED BY <2>4, <2>7
<1>8. ASSUME NEW d \in Capabilities PROVE CapInv(g, p2, ct2, cm, d)
  <2>0. CapInv(h, p, ct, cm, d) /\ d # None
    BY <1>2, ThreadsAssumption DEF InvBut
  <2>1. CASE d = c
    <3>1. PauseOK(g, c, t)
      BY <1>2 DEF PauseOK, BlocksOn
    <3> QED BY <1>2, <1>3, <1>4, <1>5, <2>1, <3>1, <1>1 DEF CapInv, Throwing
  <2>2. CASE d # c
    <3>1. SameAt(p, ct, cm, p2, ct2, cm, d)
      BY <1>4, <2>2
    <3>2. ct[d] # None => ct[d] \in Threads \ {t}
      BY <1>1, <1>2 DEF InvBut, TypeInv
    <3>3. ct[d] # None => Alike(h, g, ct[d])
      BY <1>5, <3>2 DEF Alike
    <3>4. Throwing(p, d) => cm[d] \in Messages /\ h.msg[cm[d]].target \in Threads
      <4>1. Throwing(p, d) => InCall(h, cm[d], d)
        BY CallInv
      <4> QED BY <4>1 DEF InCall
    <3>5. p[d] = "throw_mvar" => WaiterOK(g, d, h.msg[cm[d]].target)
      <4>1. p[d] = "throw_mvar" => Throwing(p, d)
        BY DEF Throwing
      <4> QED BY Zenon, <1>1, <1>5, <2>0, <3>4, <4>1 DEF CapInv, WaiterOK
    <3>6. p[d] = "pause" => PauseOK(g, d, ct[d])
      <4> SUFFICES ASSUME p[d] = "pause" PROVE PauseOK(g, d, ct[d])
        OBVIOUS
      <4>1. PauseOK(h, d, ct[d]) /\ g.tso[ct[d]] = h.tso[ct[d]]
        BY <1>5, <2>0, <3>2 DEF CapInv
      <4>2. ASSUME h.tso[ct[d]].info \in MVars PROVE g.mvar[h.tso[ct[d]].info].locker = d
        BY <2>0, <4>1, <4>2 DEF PauseOK, BlocksOn
      <4> QED BY Zenon, <1>5, <4>1, <4>2 DEF PauseOK
    <3>7. Throwing(p, d) => (In(cm[d], g.tso[h.msg[cm[d]].target].blocked) => In(cm[d], h.tso[h.msg[cm[d]].target].blocked))
      BY Zenon, <1>5, <3>4
    <3> QED BY <1>5, <2>0, <3>1, <3>3, <3>5, <3>6, <3>7, CapKept
  <2> QED BY <2>1, <2>2
<1>9. ASSUME NEW n \in MVars PROVE QueueInv(g, n) /\ LockInv(g, p2, ct2, n)
  <2>1. QueueInv(h, n) /\ LockInv(h, p, ct, n)
    BY <1>2 DEF InvBut
  <2>2. CASE n # mv
    <3>1. g.mvar[n] = h.mvar[n]
      BY <2>2 DEF BlocksOn
    <3>2. \A u \in Threads : Waits(h, u, n) \/ Waits(g, u, n) =>
             Waits(h, u, n) /\ Waits(g, u, n) /\ g.tso[u].stack = h.tso[u].stack
      BY Zenon, <1>1, <1>5, <2>2 DEF Waits, BlocksOn
    <3>3. QueueInv(g, n)
      BY <1>1, <2>1, <3>1, <3>2, QueueKept
    <3>4. LockInv(g, p2, ct2, n)
      <4> SUFFICES ASSUME h.mvar[n].locker # None PROVE p2[h.mvar[n].locker] = "pause" /\ g.tso[ct2[h.mvar[n].locker]].info = n
        BY <3>1 DEF LockInv
      <4> DEFINE d == h.mvar[n].locker
      <4>1. h.mvar[n] \in MVar
        BY <1>1, TypedParts
      <4>2. d \in Capabilities \ {c}
        BY <1>3, <4>1 DEF MVar
      <4>3. p[d] = "pause" /\ h.tso[ct[d]].info = n
        BY <2>1 DEF LockInv
      <4>4. ct[d] \in Threads
        BY <1>2, <4>2, <4>3 DEF InvBut, CapInv, TypeInv
      <4> QED BY <1>1, <1>4, <1>5, <4>2, <4>3, <4>4 DEF SameAt
    <3> QED BY <3>3, <3>4
  <2>3. CASE n = mv
    <3> DEFINE q == h.mvar[mv].queue
               r == g.mvar[mv].queue
               k == Len(q) + 1
    <3>1. q \in Seq(Entry) /\ \A i \in Live(q) : q[i].tso \in Threads
      BY <1>1, QueueType
    <3>2. Live(r) = Live(q) \cup {k} /\ r[k].tso = t /\ \A i \in Live(q) : r[i] = q[i] /\ i # k
      <4>1. r = Append(q, [tso |-> t, info |-> "queue"])
        BY <1>2 DEF BlocksOn
      <4> DEFINE a == Append(q, [tso |-> t, info |-> "queue"])
      <4> HIDE DEF q
      <4>2. q \in Seq(Entry) /\ t \in Threads
        BY <3>1 DEF MayRun
      <4>3. /\ Live(a) = Live(q) \cup {Len(q) + 1} /\ a[Len(q) + 1].tso = t
            /\ \A i \in Live(q) : a[i] = q[i] /\ i # Len(q) + 1
        BY <4>2, AppendLive, Zenon
      <4> HIDE DEF a, r
      <4>4. r = a
        BY <4>1 DEF a
      <4> QED BY <4>3, <4>4
    <3> HIDE DEF q, r, k
    <3>3. Lacks(g.mvar[mv]) = Lacks(h.mvar[mv])
      BY DEF Lacks, BlocksOn
    <3>4. /\ \A i \in Live(q) : Waits(h, q[i].tso, mv) /\ h.tso[q[i].tso].stack = Lacks(h.mvar[mv])
          /\ \A i, j \in Live(q) : q[i].tso = q[j].tso => i = j
          /\ \A u \in Threads : Waits(h, u, mv) => \E i \in Live(q) : q[i].tso = u
      BY <2>1, <2>3 DEF QueueInv, q
    <3>5. \A i \in Live(q) : q[i].tso # t
      BY <1>1, <3>4
    <3>6. Waits(g, t, mv) /\ g.tso[t].stack = Lacks(g.mvar[mv]) /\ \A u \in Threads \ {t} : Waits(g, u, mv) <=> Waits(h, u, mv)
      BY <1>2, <1>5, <3>3 DEF Waits, BlocksOn
    <3>7. \A i \in Live(r) : Waits(g, r[i].tso, mv) /\ g.tso[r[i].tso].stack = Lacks(g.mvar[mv])
      BY <1>5, <3>1, <3>2, <3>3, <3>4, <3>5, <3>6
    <3>8. \A i, j \in Live(r) : r[i].tso = r[j].tso => i = j
      BY <3>2, <3>4, <3>5
    <3>9. \A u \in Threads : Waits(g, u, mv) => \E i \in Live(r) : r[i].tso = u
      BY <3>2, <3>4, <3>6
    <3>10. QueueInv(g, mv)
      BY Zenon, <3>7, <3>8, <3>9 DEF QueueInv, r
    <3>11. LockInv(g, p2, ct2, mv)
      BY <1>4 DEF LockInv, BlocksOn
    <3> QED BY <2>3, <3>10, <3>11
  <2> QED BY <2>2, <2>3
<1>10. InvBut(g, b, p2, ct2, cm, {}, {})
  BY <1>4, <1>6, <1>7, <1>8, <1>9 DEF InvBut
<1> QED BY <1>10 DEF Inv, p2, ct2

(* What an MVar holds changes, or what is recorded of its values.          *)
LEMMA MVarStepInv ==
  ASSUME NEW h, NEW b, NEW p, NEW ct, NEW cm, Inv(h, b, p, ct, cm), NEW g \in Heap,
         g.tso = h.tso, g.msg = h.msg, g.inbox = h.inbox,
         \A n \in MVars : g.mvar[n].locker = h.mvar[n].locker /\ QueueInv(g, n)
  PROVE  Inv(g, b, p, ct, cm)
<1>1. InvBut(h, b, p, ct, cm, {}, {})
  BY DEF Inv
<1>2. TypeInv(g, b, p, ct, cm)
  BY <1>1 DEF InvBut, TypeInv
<1>3. ASSUME NEW t \in Threads PROVE TsoInv(g, t) /\ HereInv(g, p, t) /\ WakeInv(g, b, t)
  <2>1. TsoInv(h, t) /\ HereInv(h, p, t) /\ WakeInv(h, b, t)
    BY <1>1 DEF InvBut
  <2> QED BY <2>1 DEF TsoInv, HereInv, WakeInv, Sent
<1>4. ASSUME NEW m \in Messages PROVE MsgInv(g, p, ct, cm, m) /\ PendInv(g, b, p, ct, cm, m)
  <2>1. MsgInv(h, p, ct, cm, m) /\ PendInv(h, b, p, ct, cm, m)
    BY <1>1 DEF InvBut
  <2> QED BY <2>1 DEF MsgInv, BlockedOn, Dead, PendInv, InHands, Sent
<1>5. ASSUME NEW d \in Capabilities PROVE CapInv(g, p, ct, cm, d)
  <2>1. CapInv(h, p, ct, cm, d)
    BY <1>1 DEF InvBut
  <2>2. p[d] = "pause" => PauseOK(g, d, ct[d])
    BY <2>1 DEF CapInv, PauseOK
  <2> QED BY Zenon, <2>1, <2>2 DEF CapInv, ThrowOK, WaiterOK, BlockedOn
<1>6. ASSUME NEW n \in MVars PROVE LockInv(g, p, ct, n)
  <2>1. LockInv(h, p, ct, n)
    BY <1>1 DEF InvBut
  <2> QED BY <2>1 DEF LockInv
<1>7. InvBut(g, b, p, ct, cm, {}, {})
  BY <1>2, <1>3, <1>4, <1>5, <1>6 DEF InvBut
<1> QED BY <1>7 DEF Inv

(* The operation of the thread t is completed by somebody else.            *)
Completes(h, g, t, mv) ==
  /\ g \in Heap /\ g.msg = h.msg /\ g.inbox = h.inbox
  /\ \A u \in Threads \ {t} : g.tso[u] = h.tso[u]
  /\ g.tso[t].home = h.tso[t].home /\ g.tso[t].why = h.tso[t].why /\ g.tso[t].info = h.tso[t].info
  /\ g.tso[t].what = h.tso[t].what /\ g.tso[t].catch = h.tso[t].catch /\ g.tso[t].blocked = h.tso[t].blocked
  /\ ~ g.tso[t].link /\ g.tso[t].stack \in {"took", "put"}
  /\ \A n \in MVars \ {mv} : g.mvar[n] = h.mvar[n]
  /\ g.mvar[mv].full = h.mvar[mv].full /\ g.mvar[mv].locker = h.mvar[mv].locker
  /\ Without(h.mvar[mv].queue, g.mvar[mv].queue, t)
LEMMA CompletesInv ==
  ASSUME NEW h, NEW b, NEW p, NEW ct, NEW cm, Inv(h, b, p, ct, cm), NEW t \in Threads, NEW mv \in MVars,
         Waits(h, t, mv), h.mvar[mv].locker = None, NEW g, Completes(h, g, t, mv)
  PROVE  InvBut(g, b, p, ct, cm, {t}, {})
<1>1. InvBut(h, b, p, ct, cm, {}, {}) /\ h \in Heap /\ t # None
  BY ThreadsAssumption DEF Inv, InvBut, TypeInv
<1>2. TypeInv(g, b, p, ct, cm) /\ g.msg = h.msg /\ g.inbox = h.inbox
  BY <1>1 DEF InvBut, TypeInv, Completes
<1>3. /\ h.tso[t].why = "MVar" /\ h.tso[t].info = mv /\ h.tso[t].link /\ h.tso[t].what = "run"
      /\ \A u \in Threads : /\ g.tso[u].blocked = h.tso[u].blocked /\ g.tso[u].what = h.tso[u].what
                            /\ g.tso[u].home = h.tso[u].home /\ g.tso[u].why = h.tso[u].why
                            /\ g.tso[u].info = h.tso[u].info
                            /\ u # t => g.tso[u] = h.tso[u]
      /\ \A u, m : BlockedOn(h, u, m) => BlockedOn(g, u, m)
  <2>1. TsoInv(h, t) /\ h.tso[t].why = "MVar" /\ h.tso[t].info = mv /\ h.tso[t].link
    BY <1>1 DEF InvBut, Waits
  <2>2. ASSUME NEW u, NEW m, BlockedOn(h, u, m) PROVE BlockedOn(g, u, m)
    BY <2>1, <2>2 DEF BlockedOn, Completes
  <2> QED BY <2>1, <2>2 DEF Completes, TsoInv
<1>4. ASSUME NEW d \in Capabilities PROVE ct[d] # t
  <2>1. CapInv(h, p, ct, cm, d) /\ d # None /\ p[d] \in Places
    BY <1>1, ThreadsAssumption DEF InvBut, TypeInv
  <2>2. p[d] = "pause" => ~ (ct[d] = t)
    BY Zenon, <1>3, <2>1 DEF CapInv, PauseOK
  <2>3. p[d] # "pause" => ~ (ct[d] = t)
    BY <1>1, <1>3, <2>1 DEF CapInv, ThrowOK, Throwing, Places
  <2> QED BY <2>2, <2>3
<1>5. ASSUME NEW u \in Threads PROVE TsoInv(g, u) /\ HereInv(g, p, u) /\ (u # t => WakeInv(g, b, u))
  <2>1. TsoInv(h, u) /\ HereInv(h, p, u) /\ WakeInv(h, b, u)
    BY <1>1 DEF InvBut
  <2>2. TsoInv(g, u)
    <3>1. CASE u = t
      BY <1>2, <1>3, <2>1, <3>1 DEF TsoInv, Completes
    <3>2. CASE u # t
      BY <1>2, <1>3, <2>1, <3>2 DEF TsoInv
    <3> QED BY <3>1, <3>2
  <2>3. HereInv(g, p, u)
    BY <1>2, <1>3, <2>1 DEF HereInv
  <2>4. u # t => WakeInv(g, b, u)
    BY <1>2, <1>3, <2>1 DEF WakeInv, Sent
  <2> QED BY <2>2, <2>3, <2>4
<1>6. ASSUME NEW m \in Messages PROVE MsgInv(g, p, ct, cm, m) /\ PendInv(g, b, p, ct, cm, m)
  <2>1. MsgInv(h, p, ct, cm, m) /\ PendInv(h, b, p, ct, cm, m) /\ h.msg[m] \in Msg
    BY <1>1, TypedParts DEF InvBut
  <2>2. DeadKept(h, g)
    BY <1>3 DEF DeadKept, Dead
  <2>3. \A c \in Capabilities : SameAt(p, ct, cm, p, ct, cm, c)
    BY DEF SameAt
  <2>4. h.msg[m].info = "locked" => SameAt(p, ct, cm, p, ct, cm, h.msg[m].locker)
    BY <2>1, <2>3 DEF MsgInv, Msg
  <2>5. MsgInv(g, p, ct, cm, m)
    BY <1>2, <1>3, <2>1, <2>2, <2>4, MsgKept
  <2>6. Sent(h, b, ThrowTo(m)) => Sent(g, b, ThrowTo(m))
    BY <1>2 DEF Sent
  <2>7. PendInv(g, b, p, ct, cm, m)
    BY <1>2, <1>3, <2>1, <2>6, PendKept
  <2> QED BY <2>5, <2>7
<1>7. ASSUME NEW d \in Capabilities PROVE CapInv(g, p, ct, cm, d)
  <2>0. CapInv(h, p, ct, cm, d) /\ d # None
    BY <1>1, ThreadsAssumption DEF InvBut
  <2>1. ct[d] # None => ct[d] \in Threads \ {t}
    BY <1>1, <1>4 DEF InvBut, TypeInv
  <2>2. ct[d] # None => Alike(h, g, ct[d])
    BY <1>3, <2>1 DEF Alike
  <2>3. Throwing(p, d) => cm[d] \in Messages /\ h.msg[cm[d]].target \in Threads
    <3>1. Throwing(p, d) => InCall(h, cm[d], d)
      BY CallInv
    <3> QED BY <3>1 DEF InCall
  <2>4. p[d] = "throw_mvar" => WaiterOK(g, d, h.msg[cm[d]].target)
    <3>1. p[d] = "throw_mvar" => Throwing(p, d)
      BY DEF Throwing
    <3> QED BY Zenon, <1>3, <2>0, <2>3, <3>1 DEF CapInv, WaiterOK
  <2>5. p[d] = "pause" => PauseOK(g, d, ct[d])
    <3> SUFFICES ASSUME p[d] = "pause" PROVE PauseOK(g, d, ct[d])
      OBVIOUS
    <3>1. PauseOK(h, d, ct[d]) /\ g.tso[ct[d]] = h.tso[ct[d]]
      BY <1>3, <2>0, <2>1 DEF CapInv
    <3>2. \A n \in MVars : g.mvar[n].locker = h.mvar[n].locker
      BY DEF Completes
    <3> QED BY Zenon, <1>2, <3>1, <3>2 DEF PauseOK
  <2>6. Throwing(p, d) => (In(cm[d], g.tso[h.msg[cm[d]].target].blocked) => In(cm[d], h.tso[h.msg[cm[d]].target].blocked))
    BY Zenon, <1>3, <2>3
  <2>7. SameAt(p, ct, cm, p, ct, cm, d)
    BY DEF SameAt
  <2> QED BY <1>2, <1>3, <2>0, <2>2, <2>4, <2>5, <2>6, <2>7, CapKept
<1>8. ASSUME NEW n \in MVars PROVE QueueInv(g, n) /\ LockInv(g, p, ct, n)
  <2>1. QueueInv(h, n) /\ LockInv(h, p, ct, n)
    BY <1>1 DEF InvBut
  <2>2. QueueInv(g, n)
    <3>1. CASE n # mv
      <4>1. g.mvar[n] = h.mvar[n]
        BY <3>1 DEF Completes
      <4>2. \A u \in Threads : Waits(h, u, n) \/ Waits(g, u, n) =>
               Waits(h, u, n) /\ Waits(g, u, n) /\ g.tso[u].stack = h.tso[u].stack
        BY <1>3, <3>1 DEF Waits
      <4> QED BY <1>1, <2>1, <4>1, <4>2, QueueKept
    <3>2. CASE n = mv
      <4>1. ~ Waits(g, t, mv)
        BY DEF Waits, Completes
      <4>2. \A u \in Threads \ {t} : (Waits(g, u, mv) <=> Waits(h, u, mv)) /\ g.tso[u].stack = h.tso[u].stack
        BY <1>3 DEF Waits
      <4>3. g \in Heap /\ Without(h.mvar[mv].queue, g.mvar[mv].queue, t) /\ g.mvar[mv].full = h.mvar[mv].full
        BY DEF Completes
      <4> QED BY <1>1, <2>1, <3>2, <4>1, <4>2, <4>3, QueueWithout
    <3> QED BY <3>1, <3>2
  <2>3. LockInv(g, p, ct, n)
    <3> SUFFICES ASSUME h.mvar[n].locker # None PROVE p[h.mvar[n].locker] = "pause" /\ g.tso[ct[h.mvar[n].locker]].info = n
      BY DEF LockInv, Completes
    <3> DEFINE d == h.mvar[n].locker
    <3>1. h.mvar[n] \in MVar
      BY <1>1, TypedParts
    <3>2. d \in Capabilities
      BY <3>1 DEF MVar
    <3>3. p[d] = "pause" /\ h.tso[ct[d]].info = n
      BY <2>1 DEF LockInv
    <3>4. ct[d] \in Threads
      BY <1>1, <3>2, <3>3 DEF InvBut, CapInv, TypeInv
    <3> QED BY Zenon, <1>3, <3>2, <3>3, <3>4
  <2> QED BY <2>2, <2>3
<1> QED BY <1>2, <1>5, <1>6, <1>7, <1>8 DEF InvBut

LEMMA MinExists ==
  ASSUME NEW S \in SUBSET Nat, S # {}
  PROVE  \E i \in S : \A j \in S : i <= j
<1>1. IsWellFoundedOn(OpToRel(<, Nat), Nat)
  BY Zenon, NatLessThanWellFounded
<1>2. PICK x \in S : \A y \in S : ~ (<<y, x>> \in OpToRel(<, Nat))
  BY <1>1, WFMin, Zenon
<1>3. \A y \in S : ~ (y < x)
  BY <1>2 DEF OpToRel
<1> QED BY <1>3

LEMMA FirstIsLive ==
  ASSUME NEW h \in Heap, NEW mv \in MVars, Live(h.mvar[mv].queue) # {}
  PROVE  LET q == h.mvar[mv].queue IN
         First(q) \in Live(q) /\ \A j \in Live(q) : First(q) <= j
<1> DEFINE q == h.mvar[mv].queue
<1>1. Live(q) \in SUBSET Nat
  BY QueueType
<1>2. \E i \in Live(q) : \A j \in Live(q) : i <= j
  BY <1>1, MinExists
<1> QED BY <1>2 DEF First

(* performTakeMVar, performPutMVar: the first thread in the queue, and the  *)
(* heap before it is woken.                                                *)
FirstWaiter(h, mv) == LET q == h.mvar[mv].queue IN q[First(q)].tso
Handed(h, mv, done) ==
  LET q == h.mvar[mv].queue IN
  [h EXCEPT !.mvar[mv].queue = SubSeq(q, First(q) + 1, Len(q)),
            !.tso[FirstWaiter(h, mv)].link = FALSE, !.tso[FirstWaiter(h, mv)].stack = done]
LEMMA HandedEffect ==
  ASSUME NEW h \in Heap, NEW mv \in MVars, QueueInv(h, mv), Live(h.mvar[mv].queue) # {}, NEW done \in {"took", "put"}
  PROVE  LET t == FirstWaiter(h, mv)
             g == Handed(h, mv, done) IN
         /\ t \in Threads /\ Waits(h, t, mv) /\ h.tso[t].stack = Lacks(h.mvar[mv])
         /\ Completes(h, g, t, mv) /\ g.tso[t].stack = done /\ g.balance = h.balance
<1> DEFINE q == h.mvar[mv].queue
           k == First(q)
           t == q[k].tso
           rest == SubSeq(q, k + 1, Len(q))
           v == [h.mvar[mv] EXCEPT !.queue = rest]
           u == [h.tso[t] EXCEPT !.link = FALSE, !.stack = done]
           f == [h EXCEPT !.mvar[mv] = v]
           g == [f EXCEPT !.tso[t] = u]
<1>1. q \in Seq(Entry) /\ h.mvar[mv] \in MVar /\ \A i \in Live(q) : q[i].tso \in Threads
  BY QueueType, TypedParts
<1>2. k \in Live(q) /\ \A j \in Live(q) : k <= j
  BY FirstIsLive
<1>3. t \in Threads /\ Waits(h, t, mv) /\ h.tso[t].stack = Lacks(h.mvar[mv]) /\ h.tso[t] \in Tso
  BY <1>1, <1>2, TypedParts DEF QueueInv
<1>4. rest \in Seq(Entry) /\ Without(q, rest, t)
  <2>1. \A i, j \in Live(q) : q[i].tso = q[j].tso => i = j
    BY Zenon DEF QueueInv
  <2> HIDE DEF q, k
  <2> QED BY <1>1, <1>2, <2>1, DropFirst
<1>5. Handed(h, mv, done) = [h EXCEPT !.mvar[mv].queue = rest, !.tso[t].link = FALSE, !.tso[t].stack = done]
  BY DEF Handed, FirstWaiter
<1> HIDE DEF rest
<1>6. v \in MVar /\ v.queue = rest /\ v.full = h.mvar[mv].full /\ v.locker = h.mvar[mv].locker
  BY Zenon, <1>1, <1>4 DEF MVar
<1> HIDE DEF t
<1>7. /\ u \in Tso /\ u.home = h.tso[t].home /\ u.why = h.tso[t].why /\ u.info = h.tso[t].info
      /\ u.what = h.tso[t].what /\ u.catch = h.tso[t].catch /\ u.blocked = h.tso[t].blocked
      /\ ~ u.link /\ u.stack = done
  BY <1>3 DEF Tso
<1>8. Handed(h, mv, done) = g
  BY <1>3, <1>5 DEF Heap
<1> HIDE DEF u, v
<1>9. /\ f \in Heap /\ f.mvar[mv] = v /\ (\A n \in MVars \ {mv} : f.mvar[n] = h.mvar[n])
      /\ f.tso = h.tso /\ f.msg = h.msg /\ f.inbox = h.inbox /\ f.balance = h.balance
  BY <1>6, PutMVar_
<1> HIDE DEF f
<1>10. /\ g \in Heap /\ g.tso[t] = u /\ (\A w \in Threads \ {t} : g.tso[w] = f.tso[w])
       /\ g.msg = f.msg /\ g.mvar = f.mvar /\ g.inbox = f.inbox /\ g.balance = f.balance
  BY <1>3, <1>7, <1>9, PutTso
<1> HIDE DEF g
<1>11. Completes(h, g, t, mv) /\ g.tso[t].stack = done
  BY <1>4, <1>6, <1>7, <1>9, <1>10 DEF Completes
<1> QED BY Zenon, <1>3, <1>8, <1>9, <1>10, <1>11 DEF FirstWaiter, t

LEMMA HandOverInv ==
  ASSUME NEW h, NEW b, NEW p, NEW ct, NEW cm, Inv(h, b, p, ct, cm), NEW c \in Capabilities, p[c] = "sched",
         NEW mv \in MVars, h.mvar[mv].locker = None, Live(h.mvar[mv].queue) # {}, NEW done \in {"took", "put"}
  PROVE  Inv(HandOver(h, c, mv, done), b, p, ct, cm)
<1> DEFINE t == FirstWaiter(h, mv)
           g == Handed(h, mv, done)
<1>1. h \in Heap /\ QueueInv(h, mv)
  BY DEF Inv, InvBut, TypeInv
<1>2. t \in Threads /\ Waits(h, t, mv) /\ Completes(h, g, t, mv)
  BY <1>1, HandedEffect
<1>3. HandOver(h, c, mv, done) = TryWakeup(g, c, t)
  BY DEF HandOver, Handed, FirstWaiter
<1> HIDE DEF t, g
<1>4. InvBut(g, b, p, ct, cm, {t}, {})
  BY <1>2, CompletesInv
<1>5. \A d \in Capabilities : g.tso[t].home = c /\ p[d] = "throw_mvar" => g.msg[cm[d]].target # t
  <2>1. p[c] # "throw_mvar"
    OBVIOUS
  <2> QED BY <1>2, <1>4, <2>1, NotWaitedFor
<1>6. InvBut(TryWakeup(g, c, t), b, p, ct, cm, {t} \ {t}, {})
  BY <1>2, <1>4, <1>5, TryWakeupInv
<1>7. {t} \ {t} = {}
  OBVIOUS
<1> QED BY <1>3, <1>6, <1>7 DEF Inv

LEMMA BalanceInv ==
  ASSUME NEW h, NEW b, NEW p, NEW ct, NEW cm, Inv(h, b, p, ct, cm), NEW z \in Int
  PROVE  Inv([h EXCEPT !.balance = z], b, p, ct, cm)
<1> DEFINE g == [h EXCEPT !.balance = z]
<1>1. h \in Heap /\ \A n \in MVars : QueueInv(h, n)
  BY DEF Inv, InvBut, TypeInv
<1>2. /\ g \in Heap /\ g.tso = h.tso /\ g.msg = h.msg /\ g.inbox = h.inbox /\ g.mvar = h.mvar
  BY <1>1, PutBalance
<1> HIDE DEF g
<1>3. ASSUME NEW n \in MVars PROVE g.mvar[n].locker = h.mvar[n].locker /\ QueueInv(g, n)
  <2>1. \A t \in Threads : Waits(g, t, n) <=> Waits(h, t, n)
    BY <1>2 DEF Waits
  <2> QED BY <1>1, <1>2, <2>1, QueueKept
<1>4. Inv(g, b, p, ct, cm)
  BY <1>2, <1>3, MVarStepInv
<1> QED BY <1>4 DEF g

(* The MVar is filled or emptied, with nobody in its queue.                 *)
LEMMA AtOnceInv ==
  ASSUME NEW h, NEW b, NEW p, NEW ct, NEW cm, Inv(h, b, p, ct, cm), NEW mv \in MVars, Live(h.mvar[mv].queue) = {},
         NEW full \in BOOLEAN
  PROVE  Inv([h EXCEPT !.mvar[mv].full = full], b, p, ct, cm)
<1> DEFINE v == [h.mvar[mv] EXCEPT !.full = full]
           g == [h EXCEPT !.mvar[mv] = v]
<1>1. h \in Heap /\ \A n \in MVars : QueueInv(h, n)
  BY DEF Inv, InvBut, TypeInv
<1>2. h.mvar[mv] \in MVar
  BY <1>1, TypedParts
<1>3. v \in MVar /\ v.queue = h.mvar[mv].queue /\ v.locker = h.mvar[mv].locker
  BY <1>2 DEF MVar
<1>4. [h EXCEPT !.mvar[mv].full = full] = g
  OBVIOUS
<1> HIDE DEF v
<1>5. /\ g \in Heap /\ g.mvar[mv] = v /\ (\A n \in MVars \ {mv} : g.mvar[n] = h.mvar[n])
      /\ g.tso = h.tso /\ g.msg = h.msg /\ g.inbox = h.inbox
  BY <1>1, <1>3, PutMVar_
<1> HIDE DEF g
<1>6. ASSUME NEW n \in MVars PROVE g.mvar[n].locker = h.mvar[n].locker /\ QueueInv(g, n)
  <2>1. QueueInv(h, n) /\ \A t : Waits(g, t, n) <=> Waits(h, t, n)
    BY <1>1, <1>5 DEF Waits
  <2>2. CASE n = mv
    BY Zenon, <1>3, <1>5, <2>1, <2>2 DEF QueueInv
  <2>3. CASE n # mv
    BY <1>5, <2>1, <2>3 DEF QueueInv
  <2> QED BY <2>2, <2>3
<1>7. Inv(g, b, p, ct, cm)
  BY <1>5, <1>6, MVarStepInv
<1> QED BY <1>4, <1>7

LEMMA TakeMVarInv ==
  ASSUME IInv, NEW c \in Capabilities, NEW t \in Threads, NEW mv \in MVars, TakeMVar(c, t, mv)
  PROVE  IInv'
<1> DEFINE h == heap
<1>1. /\ Inv(h, batch, pc, curTso, curMsg) /\ MayRun(h, pc, c, t) /\ h.tso[t].what = "run" /\ h.mvar[mv].locker = None
      /\ pc[c] = "sched"
  BY DEF IInv, TakeMVar, Calls, Running, MayRun
<1>2. /\ batch' = batch /\ curMsg' = curMsg
      /\ \/ ~ h.mvar[mv].full /\ Blocks(c, t, BlockOnMVar(h, c, t, mv, "taking"))
         \/ Live(h.mvar[mv].queue) = {} /\ Continues([h EXCEPT !.mvar[mv].full = FALSE, !.balance = @ - 1])
         \/ Live(h.mvar[mv].queue) # {} /\ Continues([HandOver(h, c, mv, "put") EXCEPT !.balance = @ - 1])
  BY DEF TakeMVar
<1>3. h \in Heap /\ h.balance \in Int /\ h.mvar[mv] \in MVar
  BY <1>1, TypedParts DEF Inv, InvBut, TypeInv
<1> HIDE DEF h
<1>4. CASE ~ h.mvar[mv].full /\ Blocks(c, t, BlockOnMVar(h, c, t, mv, "taking"))
  <2>1. Lacks(h.mvar[mv]) = "taking"
    BY <1>4 DEF Lacks
  <2>2. BlocksOn(h, BlockOnMVar(h, c, t, mv, "taking"), c, t, mv)
    BY <1>3, <2>1, BlockOnEffect
  <2>3. Inv(BlockOnMVar(h, c, t, mv, "taking"), batch, [pc EXCEPT ![c] = "pause"], [curTso EXCEPT ![c] = t], curMsg)
    BY <1>1, <2>2, BlockInv
  <2> QED BY <1>2, <1>4, <2>3 DEF IInv, Blocks
<1>5. CASE Live(h.mvar[mv].queue) = {} /\ Continues([h EXCEPT !.mvar[mv].full = FALSE, !.balance = @ - 1])
  <2> DEFINE g == [h EXCEPT !.mvar[mv].full = FALSE]
  <2>1. Inv(g, batch, pc, curTso, curMsg)
    BY <1>1, <1>5, AtOnceInv
  <2>2. h.balance - 1 \in Int
    BY <1>3
  <2>3. heap' = [g EXCEPT !.balance = h.balance - 1]
    BY <1>3, <1>5 DEF Continues, Heap
  <2> HIDE DEF g
  <2>4. Inv([g EXCEPT !.balance = h.balance - 1], batch, pc, curTso, curMsg)
    BY <2>1, <2>2, BalanceInv
  <2> QED BY <1>2, <1>5, <2>3, <2>4 DEF IInv, Continues
<1>6. CASE Live(h.mvar[mv].queue) # {} /\ Continues([HandOver(h, c, mv, "put") EXCEPT !.balance = @ - 1])
  <2> DEFINE g == HandOver(h, c, mv, "put")
  <2>1. "put" \in {"took", "put"}
    OBVIOUS
  <2>2. Inv(g, batch, pc, curTso, curMsg)
    BY <1>1, <1>6, <2>1, HandOverInv
  <2> HIDE DEF g
  <2>3. g \in Heap /\ g.balance - 1 \in Int
    BY <2>2, TypedParts DEF Inv, InvBut, TypeInv
  <2>4. Inv([g EXCEPT !.balance = g.balance - 1], batch, pc, curTso, curMsg)
    BY <2>2, <2>3, BalanceInv
  <2> QED BY <1>2, <1>6, <2>4 DEF IInv, Continues, g
<1> QED BY <1>2, <1>4, <1>5, <1>6

LEMMA PutMVarInv ==
  ASSUME IInv, NEW c \in Capabilities, NEW t \in Threads, NEW mv \in MVars, PutMVar(c, t, mv)
  PROVE  IInv'
<1> DEFINE h == heap
<1>1. /\ Inv(h, batch, pc, curTso, curMsg) /\ MayRun(h, pc, c, t) /\ h.tso[t].what = "run" /\ h.mvar[mv].locker = None
      /\ pc[c] = "sched"
  BY DEF IInv, PutMVar, Calls, Running, MayRun
<1>2. /\ batch' = batch /\ curMsg' = curMsg
      /\ \/ h.mvar[mv].full /\ Blocks(c, t, BlockOnMVar(h, c, t, mv, "putting"))
         \/ Live(h.mvar[mv].queue) = {} /\ Continues([h EXCEPT !.mvar[mv].full = TRUE, !.balance = @ + 1])
         \/ Live(h.mvar[mv].queue) # {} /\ Continues([HandOver(h, c, mv, "took") EXCEPT !.balance = @ + 1])
  BY DEF PutMVar
<1>3. h \in Heap /\ h.balance \in Int /\ h.mvar[mv] \in MVar
  BY <1>1, TypedParts DEF Inv, InvBut, TypeInv
<1> HIDE DEF h
<1>4. CASE h.mvar[mv].full /\ Blocks(c, t, BlockOnMVar(h, c, t, mv, "putting"))
  <2>1. Lacks(h.mvar[mv]) = "putting"
    BY <1>4 DEF Lacks
  <2>2. BlocksOn(h, BlockOnMVar(h, c, t, mv, "putting"), c, t, mv)
    BY <1>3, <2>1, BlockOnEffect
  <2>3. Inv(BlockOnMVar(h, c, t, mv, "putting"), batch, [pc EXCEPT ![c] = "pause"], [curTso EXCEPT ![c] = t], curMsg)
    BY <1>1, <2>2, BlockInv
  <2> QED BY <1>2, <1>4, <2>3 DEF IInv, Blocks
<1>5. CASE Live(h.mvar[mv].queue) = {} /\ Continues([h EXCEPT !.mvar[mv].full = TRUE, !.balance = @ + 1])
  <2> DEFINE g == [h EXCEPT !.mvar[mv].full = TRUE]
  <2>1. Inv(g, batch, pc, curTso, curMsg)
    BY <1>1, <1>5, AtOnceInv
  <2>2. h.balance + 1 \in Int
    BY <1>3
  <2>3. heap' = [g EXCEPT !.balance = h.balance + 1]
    BY <1>3, <1>5 DEF Continues, Heap
  <2> HIDE DEF g
  <2>4. Inv([g EXCEPT !.balance = h.balance + 1], batch, pc, curTso, curMsg)
    BY <2>1, <2>2, BalanceInv
  <2> QED BY <1>2, <1>5, <2>3, <2>4 DEF IInv, Continues
<1>6. CASE Live(h.mvar[mv].queue) # {} /\ Continues([HandOver(h, c, mv, "took") EXCEPT !.balance = @ + 1])
  <2> DEFINE g == HandOver(h, c, mv, "took")
  <2>1. "took" \in {"took", "put"}
    OBVIOUS
  <2>2. Inv(g, batch, pc, curTso, curMsg)
    BY <1>1, <1>6, <2>1, HandOverInv
  <2> HIDE DEF g
  <2>3. g \in Heap /\ g.balance + 1 \in Int
    BY <2>2, TypedParts DEF Inv, InvBut, TypeInv
  <2>4. Inv([g EXCEPT !.balance = g.balance + 1], batch, pc, curTso, curMsg)
    BY <2>2, <2>3, BalanceInv
  <2> QED BY <1>2, <1>6, <2>4 DEF IInv, Continues, g
<1> QED BY <1>2, <1>4, <1>5, <1>6

----------------------------------------------------------------------------
(* The invariant *)

LEMMA InitInv == ThreadsInit => IInv
<1> SUFFICES ASSUME ThreadsInit PROVE InvBut(heap, batch, pc, curTso, curMsg, {}, {})
  BY DEF IInv, Inv
<1>1. PICK home \in [Threads -> Capabilities], catch \in [Threads -> Catches] : ThreadsStart(home, catch)
  BY DEF ThreadsInit
<1> DEFINE u(t) == [home |-> home[t], why |-> "NotBlocked", info |-> None, link |-> FALSE,
                    what |-> "run", mask |-> "none", catch |-> catch[t], stack |-> "idle", blocked |-> <<>>]
           x == [info |-> "free", locker |-> None, source |-> None, target |-> None, raised |-> 0, told |-> "waiting"]
           v == [full |-> FALSE, queue |-> <<>>, locker |-> None]
<1>2. /\ heap = [tso |-> [t \in Threads |-> u(t)], msg |-> [m \in Messages |-> x], mvar |-> [mv \in MVars |-> v],
                 inbox |-> [c \in Capabilities |-> <<>>], balance |-> 0]
      /\ batch = [c \in Capabilities |-> <<>>] /\ pc = [c \in Capabilities |-> "sched"]
      /\ curTso = [c \in Capabilities |-> None] /\ curMsg = [c \in Capabilities |-> None]
  BY <1>1 DEF ThreadsStart
<1>3. \A t \in Threads : u(t) \in Tso
  <2>1. \A t \in Threads : catch[t] \in {"none", "unmasked", "interruptible", "uninterruptible"}
    BY ThreadsAssumption
  <2> QED BY <2>1 DEF Tso, Masks
<1>4. x \in Msg /\ v \in MVar
  BY DEF Msg, MVar
<1>5. \A t \in Threads : /\ u(t).why = "NotBlocked" /\ u(t).stack = "idle" /\ ~ u(t).link /\ u(t).what = "run"
                         /\ u(t).blocked = <<>>
  OBVIOUS
<1>6. x.info = "free" /\ x.locker = None /\ x.raised = 0 /\ x.told = "waiting" /\ v.locker = None /\ v.queue = <<>>
  OBVIOUS
<1> HIDE DEF u, x, v
<1>7. heap \in Heap
  BY <1>2, <1>3, <1>4 DEF Heap
<1>8. TypeInv(heap, batch, pc, curTso, curMsg)
  BY <1>2, <1>7 DEF TypeInv, Places
<1>9. /\ heap.tso = [t \in Threads |-> u(t)] /\ heap.msg = [m \in Messages |-> x] /\ heap.mvar = [mv \in MVars |-> v]
  BY <1>2
<1>10. \A t \in Threads : TsoInv(heap, t) /\ HereInv(heap, pc, t) /\ WakeInv(heap, batch, t)
  BY <1>5, <1>9, NothingIn DEF TsoInv, HereInv, WakeInv
<1>11. \A m \in Messages : MsgInv(heap, pc, curTso, curMsg, m) /\ PendInv(heap, batch, pc, curTso, curMsg, m)
  BY <1>6, <1>9 DEF MsgInv, PendInv
<1>12. \A c \in Capabilities : CapInv(heap, pc, curTso, curMsg, c)
  BY <1>2 DEF CapInv, Throwing
<1>13. ASSUME NEW mv \in MVars PROVE QueueInv(heap, mv) /\ LockInv(heap, pc, curTso, mv)
  <2>1. heap.mvar[mv].queue = <<>> /\ heap.mvar[mv].locker = None
    BY <1>6, <1>9
  <2>2. Live(heap.mvar[mv].queue) = {}
    BY <2>1 DEF Live
  <2>3. \A t \in Threads : ~ Waits(heap, t, mv)
    BY <1>5, <1>9 DEF Waits
  <2> QED BY <2>1, <2>2, <2>3 DEF QueueInv, LockInv
<1> QED BY <1>8, <1>10, <1>11, <1>12, <1>13 DEF InvBut

LEMMA NextInv == IInv /\ [ThreadsNext]_threadVars => IInv'
<1> SUFFICES ASSUME IInv, [ThreadsNext]_threadVars PROVE IInv'
  OBVIOUS
<1>1. CASE UNCHANGED threadVars
  BY <1>1 DEF threadVars, IInv
<1>2. CASE ThreadsNext
  <2>1. PICK c \in Capabilities : Goes(c) \/ \E t \in Threads : Thread(c, t)
    BY <1>2 DEF ThreadsNext
  <2>2. CASE Goes(c)
    BY <2>2, ThrowToMsgInv, ThrowToWaiterInv, ThreadPausedInv, UnmaskedInv, AwakenInv, TakeInboxInv, ExecuteMessageInv
       DEF Goes
  <2>3. CASE \E t \in Threads : Thread(c, t)
    <3>1. PICK t \in Threads : Thread(c, t)
      BY <2>3
    <3> QED BY <3>1, TakeMVarInv, PutMVarInv, KillThreadInv, KillSelfInv, SetMaskInv, MigrateInv, EnterHandlerInv, FinishInv
            DEF Thread
  <2> QED BY <2>1, <2>2, <2>3
<1> QED BY <1>1, <1>2

LEMMA IInvInvariant == ThreadsSpec => []IInv
<1>1. ThreadsInit => IInv
  BY InitInv
<1>2. IInv /\ [ThreadsNext]_threadVars => IInv'
  BY NextInv
<1> QED BY <1>1, <1>2, PTL DEF ThreadsSpec

----------------------------------------------------------------------------
(* What it says *)

LEMMA InvTypes == IInv => ThreadsTypeOK
<1> SUFFICES ASSUME IInv PROVE ThreadsTypeOK
  OBVIOUS
<1>1. heap \in Heap /\ pc \in [Capabilities -> Places]
  BY DEF IInv, Inv, InvBut, TypeInv
<1>2. /\ \A t \in Threads : heap.tso[t] \in Tso
      /\ \A m \in Messages : heap.msg[m] \in Msg
      /\ \A mv \in MVars : heap.mvar[mv] \in MVar
  BY <1>1, TypedParts
<1> QED BY <1>1, <1>2 DEF ThreadsTypeOK, Tso, Msg, MVar, Places

(* Every field keeps its range, whatever the threads call.                 *)
THEOREM TypesKept == ThreadsSpec => []ThreadsTypeOK
  BY IInvInvariant, InvTypes, PTL

LEMMA InvLocks == IInv => LocksGivenBack
<1> SUFFICES ASSUME IInv PROVE LocksGivenBack
  OBVIOUS
<1>1. InvBut(heap, batch, pc, curTso, curMsg, {}, {}) /\ heap \in Heap
  BY DEF IInv, Inv, InvBut, TypeInv
<1>2. ASSUME NEW m \in Messages
      PROVE  /\ heap.msg[m].info = "locked" <=> heap.msg[m].locker \in Capabilities
             /\ heap.msg[m].locker # None => pc[heap.msg[m].locker] \in {"throw", "throw_mvar", "pause"}
  <2>1. heap.msg[m] \in Msg /\ MsgInv(heap, pc, curTso, curMsg, m)
    BY <1>1, TypedParts DEF InvBut
  <2> QED BY <2>1, ThreadsAssumption DEF Msg, MsgInv, Throwing
<1>3. \A mv \in MVars : heap.mvar[mv].locker # None => pc[heap.mvar[mv].locker] = "pause"
  BY <1>1 DEF InvBut, LockInv
<1> QED BY <1>2, <1>3 DEF LocksGivenBack

(* Every lock is held by a Capability that is inside the call that took it, *)
(* for any number of Capabilities, threads and messages.                   *)
THEOREM LocksAlwaysGivenBack == ThreadsSpec => []LocksGivenBack
  BY IInvInvariant, InvLocks, PTL

LEMMA InvHonest == IInv => ThrowToHonest
  BY DEF IInv, Inv, InvBut, MsgInv, ThrowToHonest

(* throwTo returns when its exception has been raised once, or its target   *)
(* is dead; and one that was interrupted never raises its exception.       *)
THEOREM ThrowToAlwaysHonest == ThreadsSpec => []ThrowToHonest
  BY IInvInvariant, InvHonest, PTL

LEMMA InvFound == IInv => BlockedAreFound
<1> SUFFICES ASSUME IInv PROVE BlockedAreFound
  OBVIOUS
<1>1. InvBut(heap, batch, pc, curTso, curMsg, {}, {}) /\ heap \in Heap
  BY DEF IInv, Inv, InvBut, TypeInv
<1>2. ASSUME NEW mv \in MVars
      PROVE  LET q == heap.mvar[mv].queue IN
             /\ \A i \in Live(q) : LET u == heap.tso[q[i].tso] IN u.why = "MVar" /\ u.info = mv /\ u.link
             /\ \A t \in Threads : heap.tso[t].why = "MVar" /\ heap.tso[t].info = mv /\ heap.tso[t].link
                  => Cardinality({i \in Live(q) : q[i].tso = t}) = 1
  <2> DEFINE q == heap.mvar[mv].queue
  <2>1. QueueInv(heap, mv)
    BY <1>1 DEF InvBut
  <2>2. /\ \A i \in Live(q) : Waits(heap, q[i].tso, mv)
        /\ \A i, j \in Live(q) : q[i].tso = q[j].tso => i = j
        /\ \A t \in Threads : Waits(heap, t, mv) => \E i \in Live(q) : q[i].tso = t
    BY <2>1 DEF QueueInv
  <2>3. ASSUME NEW t \in Threads, Waits(heap, t, mv) PROVE Cardinality({i \in Live(q) : q[i].tso = t}) = 1
    <3>1. PICK k \in Live(q) : q[k].tso = t
      BY <2>2, <2>3
    <3>2. {i \in Live(q) : q[i].tso = t} = {k}
      BY <2>2, <3>1
    <3> QED BY <3>2, FS_Singleton
  <2> QED BY Zenon, <2>2, <2>3 DEF Waits
<1>3. ASSUME NEW t \in Threads,
             \/ heap.tso[t].why = "MVar" /\ ~heap.tso[t].link
             \/ heap.tso[t].why = "MsgThrowTo" /\ heap.msg[heap.tso[t].info].info = "null"
             \/ heap.tso[t].why = "Migrating"
      PROVE  InMail(Wakeup(t)) \/ InBatch(Wakeup(t))
  <2>1. Sent(heap, batch, Wakeup(t))
    BY <1>1, <1>3 DEF InvBut, WakeInv
  <2> QED BY <2>1 DEF Sent, In, InMail, InBatch
<1>4. QueueHoldsWaiters
  BY Zenon, <1>2 DEF QueueHoldsWaiters
<1>5. WakeupUnderWay
  BY <1>3 DEF WakeupUnderWay
<1> QED BY <1>4, <1>5 DEF BlockedAreFound

(* Whoever is blocked on an MVar is in its queue, once, and nobody else is; *)
(* and whoever may go on has a wake-up under way.                          *)
THEOREM BlockedAlwaysFound == ThreadsSpec => []BlockedAreFound
  BY IInvInvariant, InvFound, PTL

LEMMA InvPending == IInv => ThrowIsPending
<1> SUFFICES ASSUME IInv, NEW t \in Threads, NEW m, m = heap.tso[t].info,
                    heap.tso[t].why = "MsgThrowTo", heap.msg[m].info \in {"throwto", "locked"}
             PROVE  \/ InMail(ThrowTo(m)) \/ InBatch(ThrowTo(m))
                    \/ \E c \in Capabilities : curMsg[c] = m
                    \/ \E i \in DOMAIN heap.tso[heap.msg[m].target].blocked :
                         /\ heap.tso[heap.msg[m].target].blocked[i] = m
                         /\ \/ heap.tso[heap.msg[m].target].what # "finished"
                            \/ \E c \in Capabilities : pc[c] = "finish" /\ curTso[c] = heap.msg[m].target
  BY Zenon DEF ThrowIsPending
<1>1. TsoInv(heap, t)
  BY DEF IInv, Inv, InvBut
<1>2. m \in Messages
  BY <1>1 DEF TsoInv
<1>3. InHands(heap, batch, pc, curTso, curMsg, m)
  BY <1>2 DEF IInv, Inv, InvBut, PendInv
<1> QED BY Zenon, <1>3 DEF InHands, Sent, In, InMail, InBatch

(* A thread blocked in throwTo has its message in somebody's hands: no      *)
(* exception is forgotten.                                                 *)
THEOREM ThrowAlwaysPending == ThreadsSpec => []ThrowIsPending
  BY IInvInvariant, InvPending, PTL

(* Of a Capability that spins on d: where d is.  One in throwToMsg spins    *)
(* only for a target of its own; and whoever holds a message that c         *)
(* finds queued at its own thread is not in a pause.                       *)
LEMMA SpinsOn ==
  ASSUME IInv, NEW c \in Capabilities, NEW d \in Capabilities, Spins(c, d)
  PROVE  /\ \/ pc[d] = "pause"
            \/ Throwing(pc, d) /\ heap.msg[curMsg[d]].locker = d
         /\ pc[c] = "throw_mvar" => pc[d] = "pause"
         /\ pc[c] = "throw" => pc[d] = "pause" \/ curMsg[d] < curMsg[c]
         /\ Throwing(pc, c) => heap.tso[heap.msg[curMsg[c]].target].home = c
         /\ pc[c] = "pause" => /\ heap.tso[curTso[c]].home = c
                               /\ Throwing(pc, d) /\ heap.msg[curMsg[d]].target = curTso[c]
<1>1. InvBut(heap, batch, pc, curTso, curMsg, {}, {}) /\ heap \in Heap /\ d # None
  BY ThreadsAssumption DEF IInv, Inv, InvBut, TypeInv
<1>2. CapInv(heap, pc, curTso, curMsg, c)
  BY <1>1 DEF InvBut
<1>3. ASSUME NEW m \in Messages, heap.msg[m].locker = d
      PROVE  \/ Throwing(pc, d) /\ curMsg[d] = m /\ heap.msg[curMsg[d]].locker = d
             \/ pc[d] = "pause" /\ curTso[d] = heap.msg[m].source
  <2>1. MsgInv(heap, pc, curTso, curMsg, m)
    BY <1>1 DEF InvBut
  <2> QED BY <1>1, <1>3, <2>1 DEF MsgInv
<1>4. ASSUME Throwing(pc, c) PROVE curMsg[c] \in Messages /\ heap.msg[curMsg[c]].target \in Threads
  <2>1. InCall(heap, curMsg[c], c)
    BY <1>4, CallInv DEF IInv
  <2> QED BY <2>1 DEF InCall
<1>5. CASE pc[c] = "throw"
  <2> DEFINE t == heap.msg[curMsg[c]].target
             n == heap.tso[t].info
  <2>1. t \in Threads /\ Throwing(pc, c)
    BY <1>4, <1>5 DEF Throwing
  <2>2. heap.tso[t].home = c /\ heap.tso[t].why = "MsgThrowTo" /\ n < curMsg[c] /\ heap.msg[n].locker = d
    BY Zenon, <1>5 DEF Spins, MaySpin
  <2>3. TsoInv(heap, t)
    BY <1>1, <2>1 DEF InvBut
  <2>4. n \in Messages
    BY Zenon, <2>2, <2>3 DEF TsoInv
  <2> QED BY Zenon, <1>3, <1>5, <2>1, <2>2, <2>4
<1>6. CASE pc[c] = "throw_mvar"
  <2> DEFINE t == heap.msg[curMsg[c]].target
             mv == heap.tso[t].info
  <2>1. t \in Threads /\ Throwing(pc, c) /\ WaiterOK(heap, c, t)
    BY <1>2, <1>4, <1>6 DEF Throwing, CapInv
  <2>2. TsoInv(heap, t)
    BY <1>1, <2>1 DEF InvBut
  <2>3. mv \in MVars /\ heap.mvar[mv].locker = d
    BY Zenon, <1>6, <2>1, <2>2 DEF TsoInv, WaiterOK, Spins
  <2>4. LockInv(heap, pc, curTso, mv)
    BY Zenon, <1>1, <2>3 DEF InvBut
  <2> QED BY Zenon, <1>1, <1>6, <2>1, <2>3, <2>4 DEF LockInv, WaiterOK
<1>7. CASE pc[c] \in {"pause", "unmask", "finish"}
  <2> DEFINE t == curTso[c]
             m == Head(heap.tso[t].blocked)
  <2>1. t \in Threads /\ heap.tso[t].home = c
    BY <1>1, <1>2, <1>7 DEF InvBut, TypeInv, CapInv
  <2>2. heap.tso[t].blocked # <<>> /\ heap.msg[m].locker = d
    BY Zenon, <1>7 DEF Spins
  <2>3. heap.tso[t] \in Tso /\ TsoInv(heap, t) /\ HereInv(heap, pc, t)
    BY <1>1, <2>1, TypedParts DEF InvBut
  <2>4. heap.tso[t].blocked \in Seq(Messages)
    BY <2>3 DEF Tso
  <2>5. m \in Messages /\ In(m, heap.tso[t].blocked)
    BY <2>2, <2>4, TailIn
  <2>6. heap.msg[m].target = t
    BY Zenon, <2>3, <2>5 DEF TsoInv
  <2>7. pc[d] = "pause" => d = c
    BY Zenon, <1>1, <2>1, <2>2, <2>3, <2>5 DEF HereInv
  <2>8. pc[c] = "pause" => Throwing(pc, d) /\ curMsg[d] = m
    <3>1. MsgInv(heap, pc, curTso, curMsg, m)
      BY <1>1, <2>5 DEF InvBut
    <3>2. heap.msg[m].source # t
      BY Zenon, <1>1, <2>2, <2>6, <3>1 DEF MsgInv
    <3> QED BY Zenon, <1>3, <2>2, <2>5, <2>7, <3>2
  <2> QED BY Zenon, <1>3, <1>7, <2>1, <2>2, <2>5, <2>6, <2>8 DEF Throwing
<1>8. CASE pc[c] = "sched"
  <2> DEFINE x == Head(batch[c])
  <2>1. batch[c] # <<>>
    BY Zenon, <1>8 DEF Spins
  <2>2. x \in Mail
    BY <1>1, <2>1, NextMail DEF InvBut, TypeInv
  <2>3. CASE x.type = "throwto"
    BY Zenon, <1>3, <1>8, <2>2, <2>3 DEF Mail, Spins, Throwing
  <2>4. CASE x.type = "wakeup"
    <3>1. x.of \in Threads
      BY <2>2, <2>4 DEF Mail
    <3>2. heap.tso[x.of].why = "MsgThrowTo" /\ heap.msg[heap.tso[x.of].info].locker = d /\ TsoInv(heap, x.of)
      BY Zenon, <1>1, <1>8, <2>4, <3>1 DEF Spins, WakeupWaits, InvBut
    <3>3. heap.tso[x.of].info \in Messages
      BY Zenon, <3>2 DEF TsoInv
    <3> QED BY Zenon, <1>3, <1>8, <3>2, <3>3 DEF Throwing
  <2> QED BY <2>2, <2>3, <2>4 DEF Mail
<1>9. pc[c] \in Places
  BY <1>1 DEF InvBut, TypeInv
<1> QED BY Zenon, <1>5, <1>6, <1>7, <1>8, <1>9 DEF Places

LEMMA InvNoRing == IInv => NoSpinningRing
<1> SUFFICES ASSUME IInv, NEW ring \in SUBSET Capabilities, ring # {},
                    \A c \in ring : \E d \in ring : Spins(c, d)
             PROVE  FALSE
  BY DEF NoSpinningRing
<1>1. ASSUME NEW c \in ring, pc[c] = "pause" PROVE FALSE
  <2>1. PICK d \in ring : Spins(c, d)
    OBVIOUS
  <2>2. PICK e \in ring : Spins(d, e)
    OBVIOUS
  <2>3. /\ heap.tso[curTso[c]].home = c
        /\ Throwing(pc, d) /\ heap.msg[curMsg[d]].target = curTso[c]
    BY <1>1, <2>1, SpinsOn
  <2>4. heap.tso[heap.msg[curMsg[d]].target].home = d
    BY <2>2, <2>3, SpinsOn
  <2> QED BY <1>1, <2>3, <2>4 DEF Throwing
<1>2. ASSUME NEW c \in ring PROVE \E d \in ring : Spins(c, d) /\ pc[d] = "throw"
  <2>1. PICK d \in ring : Spins(c, d)
    OBVIOUS
  <2>2. PICK e \in ring : Spins(d, e)
    OBVIOUS
  <2>3. Throwing(pc, d)
    BY <1>1, <2>1, SpinsOn
  <2>4. pc[d] # "throw_mvar"
    BY <1>1, <2>2, SpinsOn
  <2> QED BY <2>1, <2>3, <2>4 DEF Throwing
<1> DEFINE T == {m \in Nat : \E c \in ring : pc[c] = "throw" /\ curMsg[c] = m}
<1>3. ASSUME NEW c \in ring, pc[c] = "throw" PROVE curMsg[c] \in T
  <2>1. InCall(heap, curMsg[c], c)
    BY <1>3, CallInv DEF IInv, Throwing
  <2> QED BY <1>3, <2>1 DEF InCall, Messages
<1>4. T \in SUBSET Nat /\ T # {}
  <2>1. PICK c \in ring : TRUE
    OBVIOUS
  <2>2. PICK d \in ring : pc[d] = "throw"
    BY <1>2, <2>1
  <2> QED BY <1>3, <2>2
<1>5. PICK m \in T : \A n \in T : m <= n
  BY <1>4, MinExists
<1>6. PICK c \in ring : pc[c] = "throw" /\ curMsg[c] = m
  BY <1>5
<1>7. PICK d \in ring : Spins(c, d) /\ pc[d] = "throw"
  BY <1>2, <1>6
<1>8. curMsg[d] \in T /\ m \in Nat
  BY <1>3, <1>5, <1>7
<1>9. curMsg[d] < curMsg[c]
  BY <1>6, <1>7, SpinsOn
<1> HIDE DEF T
<1>10. curMsg[d] \in Nat /\ m <= curMsg[d]
  BY <1>4, <1>5, <1>8
<1> QED BY <1>6, <1>8, <1>9, <1>10

(* No Capabilities spin in a ring: one that is in a pause spins only on one *)
(* that does not spin on it, and of those in throwToMsg the one with the    *)
(* lowest message spins on nobody.                                         *)
THEOREM NeverASpinningRing == ThreadsSpec => []NoSpinningRing
  BY IInvInvariant, InvNoRing, PTL
----------------------------------------------------------------------------
(* What the MVars hold, and whom an exception reaches *)

Stack(h, s) == {t \in Threads : h.tso[t].stack = s}
Full(h) == {mv \in MVars : h.mvar[mv].full}
(* What ValuesKept says is that this is 0.                                 *)
Account(h) == h.balance + Cardinality(Stack(h, "put")) - Cardinality(Stack(h, "took")) - Cardinality(Full(h))

(* A thread that an exception may reach; and what a function keeps of the  *)
(* values and of the exceptions, or a step at least.                       *)
Exposed(h, t) == \/ h.tso[t].mask = "none"
                 \/ h.tso[t].mask = "interruptible" /\ h.tso[t].stack \in {"taking", "putting", "throwing"}
Keeps(h, g) == Account(g) = Account(h) /\ \A t \in Threads : g.tso[t].what = h.tso[t].what
Fair(h, g) ==
  /\ Account(g) = Account(h)
  /\ \A t \in Threads : h.tso[t].what = "run" /\ g.tso[t].what \in {"raise", "killed"} => Exposed(h, t)

One(b) == IF b THEN 1 ELSE 0
Weight(s) == One(s = "put") - One(s = "took")

LEMMA CountStep ==
  ASSUME NEW U, IsFiniteSet(U), NEW S, S \subseteq U, NEW T, T \subseteq U, NEW x,
         \A y \in U : y # x => (y \in S <=> y \in T)
  PROVE  /\ Cardinality(S) \in Int /\ Cardinality(T) \in Int
         /\ Cardinality(T) = Cardinality(S) + One(x \in T) - One(x \in S)
<1>1. IsFiniteSet(S) /\ IsFiniteSet(T)
  BY FS_Subset
<1>2. Cardinality(S) \in Nat /\ Cardinality(T) \in Nat
  BY <1>1, FS_CardinalityType
<1>3. S \ {x} = T \ {x}
  OBVIOUS
<1>4. /\ Cardinality(S \ {x}) = IF x \in S THEN Cardinality(S) - 1 ELSE Cardinality(S)
      /\ Cardinality(T \ {x}) = IF x \in T THEN Cardinality(T) - 1 ELSE Cardinality(T)
  BY <1>1, FS_RemoveElement
<1> DEFINE i == Cardinality(S)
           j == Cardinality(T)
           k == Cardinality(S \ {x})
<1>5. i \in Nat /\ j \in Nat /\ (k = IF x \in S THEN i - 1 ELSE i) /\ (k = IF x \in T THEN j - 1 ELSE j)
  BY <1>2, <1>3, <1>4
<1> HIDE DEF i, j, k
<1>6. i \in Int /\ j \in Int /\ j = i + (IF x \in T THEN 1 ELSE 0) - (IF x \in S THEN 1 ELSE 0)
  BY <1>5
<1> QED BY <1>6 DEF One, i, j

(* One thread and the balance change, or one MVar does.                    *)
StackOf(h, g, t) ==
  /\ h.balance \in Int /\ g.balance \in Int
  /\ \A u \in Threads \ {t} : g.tso[u].stack = h.tso[u].stack
  /\ \A mv \in MVars : g.mvar[mv].full = h.mvar[mv].full
LEMMA AccountTso ==
  ASSUME NEW h, NEW g, NEW t \in Threads, StackOf(h, g, t)
  PROVE  /\ Account(h) \in Int /\ Account(g) \in Int
         /\ Account(g) = Account(h) + (g.balance - h.balance) + Weight(g.tso[t].stack) - Weight(h.tso[t].stack)
<1> USE DEF StackOf
<1>1. /\ IsFiniteSet(Threads) /\ IsFiniteSet(MVars)
  BY ThreadsAssumption
<1>2. ASSUME NEW s
      PROVE  /\ Cardinality(Stack(h, s)) \in Int /\ Cardinality(Stack(g, s)) \in Int
             /\ Cardinality(Stack(g, s)) = Cardinality(Stack(h, s)) + One(g.tso[t].stack = s) - One(h.tso[t].stack = s)
  <2> DEFINE S == Stack(h, s)
             T == Stack(g, s)
  <2>1. S \subseteq Threads /\ T \subseteq Threads /\ \A y \in Threads : y # t => (y \in S <=> y \in T)
    BY DEF Stack
  <2>2. (t \in T <=> g.tso[t].stack = s) /\ (t \in S <=> h.tso[t].stack = s)
    BY DEF Stack
  <2> HIDE DEF S, T
  <2>3. /\ Cardinality(S) \in Int /\ Cardinality(T) \in Int
        /\ Cardinality(T) = Cardinality(S) + One(t \in T) - One(t \in S)
    BY <1>1, <2>1, CountStep
  <2>4. One(t \in T) = One(g.tso[t].stack = s) /\ One(t \in S) = One(h.tso[t].stack = s)
    BY <2>2 DEF One
  <2> QED BY <2>3, <2>4 DEF S, T
<1>3. Full(g) = Full(h) /\ Full(h) \subseteq MVars
  BY DEF Full
<1>4. Cardinality(Full(h)) \in Int
  BY <1>1, <1>3, FS_Subset, FS_CardinalityType
<1>5. \A b : One(b) \in Int
  BY DEF One
<1>6. /\ Cardinality(Stack(h, "put")) \in Int /\ Cardinality(Stack(g, "put")) \in Int
      /\ Cardinality(Stack(g, "put")) = Cardinality(Stack(h, "put")) + One(g.tso[t].stack = "put") - One(h.tso[t].stack = "put")
      /\ Cardinality(Stack(h, "took")) \in Int /\ Cardinality(Stack(g, "took")) \in Int
      /\ Cardinality(Stack(g, "took")) = Cardinality(Stack(h, "took")) + One(g.tso[t].stack = "took") - One(h.tso[t].stack = "took")
  BY <1>2
<1> DEFINE a == One(g.tso[t].stack = "put")
           a2 == One(h.tso[t].stack = "put")
           e == One(g.tso[t].stack = "took")
           e2 == One(h.tso[t].stack = "took")
<1>7. a \in Int /\ a2 \in Int /\ e \in Int /\ e2 \in Int
  BY <1>5
<1>8. Weight(g.tso[t].stack) = a - e /\ Weight(h.tso[t].stack) = a2 - e2
  BY DEF Weight
<1> HIDE DEF a, a2, e, e2
<1>9. /\ Cardinality(Stack(g, "put")) = Cardinality(Stack(h, "put")) + a - a2
      /\ Cardinality(Stack(g, "took")) = Cardinality(Stack(h, "took")) + e - e2
  BY <1>6 DEF a, a2, e, e2
<1> QED BY <1>3, <1>4, <1>6, <1>7, <1>8, <1>9 DEF Account

FullOf(h, g, mv) ==
  /\ h.balance \in Int /\ g.balance \in Int
  /\ \A t \in Threads : g.tso[t].stack = h.tso[t].stack
  /\ \A n \in MVars \ {mv} : g.mvar[n].full = h.mvar[n].full
LEMMA AccountMVar ==
  ASSUME NEW h, NEW g, NEW mv \in MVars, FullOf(h, g, mv)
  PROVE  Account(g) = Account(h) + (g.balance - h.balance) - One(g.mvar[mv].full) + One(h.mvar[mv].full)
<1> USE DEF FullOf
<1>1. /\ IsFiniteSet(Threads) /\ IsFiniteSet(MVars)
  BY ThreadsAssumption
<1> DEFINE S == Full(h)
           T == Full(g)
<1>2. S \subseteq MVars /\ T \subseteq MVars /\ \A y \in MVars : y # mv => (y \in S <=> y \in T)
  BY DEF Full
<1>3. (mv \in T <=> g.mvar[mv].full) /\ (mv \in S <=> h.mvar[mv].full)
  BY DEF Full
<1> HIDE DEF S, T
<1>4. /\ Cardinality(S) \in Int /\ Cardinality(T) \in Int
      /\ Cardinality(T) = Cardinality(S) + One(mv \in T) - One(mv \in S)
  BY <1>1, <1>2, CountStep
<1>5. One(mv \in T) = One(g.mvar[mv].full) /\ One(mv \in S) = One(h.mvar[mv].full)
  BY <1>3 DEF One
<1>6. One(g.mvar[mv].full) \in Int /\ One(h.mvar[mv].full) \in Int
  BY DEF One
<1>7. ASSUME NEW s PROVE Stack(g, s) = Stack(h, s) /\ Cardinality(Stack(h, s)) \in Int
  <2>1. Stack(g, s) = Stack(h, s) /\ Stack(h, s) \subseteq Threads
    BY DEF Stack
  <2> QED BY <1>1, <2>1, FS_Subset, FS_CardinalityType
<1> QED BY <1>4, <1>5, <1>6, <1>7 DEF Account, S, T

LEMMA AccountSame ==
  ASSUME NEW h, NEW g, g.balance = h.balance,
         \A t \in Threads : g.tso[t].stack = h.tso[t].stack,
         \A mv \in MVars : g.mvar[mv].full = h.mvar[mv].full
  PROVE  Account(g) = Account(h)
<1>1. (\A s : Stack(g, s) = Stack(h, s)) /\ Full(g) = Full(h)
  BY DEF Stack, Full
<1> QED BY <1>1 DEF Account

LEMMA KeepsIf ==
  ASSUME NEW h, NEW g, g.balance = h.balance,
         \A t \in Threads : g.tso[t].stack = h.tso[t].stack /\ g.tso[t].what = h.tso[t].what,
         \A mv \in MVars : g.mvar[mv].full = h.mvar[mv].full
  PROVE  Keeps(h, g)
  BY AccountSame DEF Keeps

LEMMA KeepsFair ==
  ASSUME NEW h, NEW f, NEW g, Fair(h, f), Keeps(f, g)
  PROVE  Fair(h, g)
  BY DEF Fair, Keeps

(* tryWakeupThread: what a completed operation left on the stack is now    *)
(* the thread's own.                                                       *)
LEMMA TryWakeupKeeps ==
  ASSUME NEW h \in Heap, NEW c \in Capabilities, NEW t \in Threads
  PROVE  Keeps(h, TryWakeup(h, c, t))
<1>1. h.tso[t] \in Tso /\ h.balance \in Int
  BY TypedParts
<1>2. ASSUME NEW f \in Heap, f.balance = h.balance, f.mvar = h.mvar, f.tso[t].stack = h.tso[t].stack,
             f.tso[t].what = h.tso[t].what, \A u \in Threads \ {t} : f.tso[u] = h.tso[u]
      PROVE  LET g == Resume(f, t) IN
             g \in Heap /\ Keeps(h, g)
  <2> DEFINE g == Resume(f, t)
  <2>1. /\ g \in Heap /\ g.mvar = f.mvar
        /\ g.tso = [f.tso EXCEPT ![t] = [f.tso[t] EXCEPT !.why = "NotBlocked", !.stack = "idle"]]
        /\ g.balance = f.balance + CASE f.tso[t].stack = "put" -> 1 [] f.tso[t].stack = "took" -> -1 [] OTHER -> 0
    BY Zenon, ResumeEffect
  <2>2. f.tso \in [Threads -> Tso]
    BY DEF Heap
  <2> HIDE DEF g
  <2>3. g.tso[t] = [f.tso[t] EXCEPT !.why = "NotBlocked", !.stack = "idle"] /\ \A u \in Threads \ {t} : g.tso[u] = h.tso[u]
    BY <1>2, <2>1, <2>2
  <2>4. g.tso[t].stack = "idle" /\ g.tso[t].what = h.tso[t].what
    <3>1. f.tso[t] \in Tso
      BY <2>2
    <3> QED BY <1>2, <2>3, <3>1 DEF Tso
  <2>5. g.balance \in Int /\ g.balance - h.balance = Weight(h.tso[t].stack) /\ Weight("idle") = 0
        /\ Weight(h.tso[t].stack) \in Int
    BY <1>1, <1>2, <2>1 DEF Weight, One
  <2>6. Account(h) \in Int /\ Account(g) = Account(h) + (g.balance - h.balance) + Weight(g.tso[t].stack) - Weight(h.tso[t].stack)
    <3>1. StackOf(h, g, t)
      BY <1>1, <1>2, <2>1, <2>3, <2>5 DEF StackOf
    <3> QED BY <3>1, AccountTso
  <2>7. Account(g) = Account(h)
    BY <2>4, <2>5, <2>6
  <2> QED BY <2>1, <2>3, <2>4, <2>7 DEF Keeps, g
<1>3. CASE h.tso[t].home # c
  <2>1. h.tso[t].home \in Capabilities /\ Wakeup(t) \in Mail
    BY <1>1, MailIn DEF Tso
  <2> DEFINE g == SendMessage(h, h.tso[t].home, Wakeup(t))
  <2>2. g.tso = h.tso /\ g.mvar = h.mvar /\ g.balance = h.balance
    BY <2>1, SendEffect
  <2>3. TryWakeup(h, c, t) = g
    BY <1>3 DEF TryWakeup
  <2> HIDE DEF g
  <2> QED BY <2>2, <2>3, KeepsIf
<1>4. CASE h.tso[t].home = c /\ h.tso[t].why = "MVar" /\ ~h.tso[t].link
  <2> DEFINE u == [h.tso[t] EXCEPT !.info = None]
             f == [h EXCEPT !.tso[t] = u]
  <2>1. u \in Tso /\ u.stack = h.tso[t].stack /\ u.what = h.tso[t].what
    BY <1>1 DEF Tso
  <2>2. TryWakeup(h, c, t) = Resume(f, t)
    BY <1>4 DEF TryWakeup
  <2> HIDE DEF u
  <2>3. /\ f \in Heap /\ f.balance = h.balance /\ f.mvar = h.mvar /\ f.tso[t] = u
        /\ \A v \in Threads \ {t} : f.tso[v] = h.tso[v]
    BY <2>1, PutTso
  <2> HIDE DEF f
  <2> QED BY <1>2, <2>1, <2>2, <2>3
<1>5. CASE h.tso[t].home = c /\ h.tso[t].why = "MsgThrowTo" /\ h.msg[h.tso[t].info].info = "null"
  <2> DEFINE f == Resume(h, t)
             g == Returned(f, h.tso[t].info)
  <2>1. TryWakeup(h, c, t) = g
    BY <1>5 DEF TryWakeup
  <2>2. f \in Heap /\ Keeps(h, f)
    BY <1>2
  <2> HIDE DEF f
  <2>3. g.tso = f.tso /\ g.mvar = f.mvar /\ g.balance = f.balance
    BY <2>2 DEF Returned, Heap
  <2> HIDE DEF g
  <2>4. Keeps(f, g)
    BY <2>3, KeepsIf
  <2> QED BY <2>1, <2>2, <2>4 DEF Keeps
<1>6. CASE h.tso[t].home = c /\ h.tso[t].why = "Migrating"
  <2> DEFINE u == [h.tso[t] EXCEPT !.why = "NotBlocked"]
             g == [h EXCEPT !.tso[t] = u]
  <2>1. u \in Tso /\ u.stack = h.tso[t].stack /\ u.what = h.tso[t].what
    BY <1>1 DEF Tso
  <2>2. TryWakeup(h, c, t) = g
    BY <1>6 DEF TryWakeup
  <2> HIDE DEF u
  <2>3. /\ g \in Heap /\ g.balance = h.balance /\ g.mvar = h.mvar /\ g.tso[t] = u
        /\ \A v \in Threads \ {t} : g.tso[v] = h.tso[v]
    BY <2>1, PutTso
  <2> HIDE DEF g
  <2> QED BY <2>1, <2>2, <2>3, KeepsIf
<1>7. CASE h.tso[t].home = c /\ ~ MayGo(h, t)
  <2>1. TryWakeup(h, c, t) = h
    BY <1>7 DEF TryWakeup, MayGo
  <2> QED BY <2>1 DEF Keeps
<1> QED BY <1>3, <1>4, <1>5, <1>6, <1>7 DEF MayGo

(* An exception undoes what the thread was blocked on, which is pending.    *)
LEMMA InterruptedFair ==
  ASSUME NEW h \in Heap, NEW t \in Threads, TsoInv(h, t), NEW g, NEW m, Interrupted(h, g, t, m),
         h.tso[t].why = "MVar" => h.tso[t].link
  PROVE  Account(g) = Account(h) /\ (MayRaise(h, t) => Fair(h, g))
<1>1. h.tso[t] \in Tso /\ h.balance \in Int
  BY TypedParts
<1>2. /\ g.balance = h.balance /\ g.tso[t].stack = "idle" /\ \A mv \in MVars : g.mvar[mv].full = h.mvar[mv].full
      /\ \A u \in Threads \ {t} : g.tso[u] = h.tso[u]
  BY DEF Interrupted
<1>3. h.tso[t].why \in {"NotBlocked", "MVar", "MsgThrowTo", "Migrating"}
  BY <1>1 DEF Tso
<1>4. /\ h.tso[t].why \in {"NotBlocked", "Migrating"} => h.tso[t].stack = "idle"
      /\ h.tso[t].why = "MVar" => h.tso[t].stack \in {"taking", "putting"}
      /\ h.tso[t].why = "MsgThrowTo" => h.tso[t].stack = "throwing"
  BY DEF TsoInv
<1>5. Weight(h.tso[t].stack) = 0 /\ Weight(g.tso[t].stack) = 0
  BY <1>2, <1>3, <1>4 DEF Weight, One
<1>6. /\ Account(h) \in Int /\ Account(g) \in Int
      /\ Account(g) = Account(h) + (g.balance - h.balance) + Weight(g.tso[t].stack) - Weight(h.tso[t].stack)
  <2>1. StackOf(h, g, t)
    BY <1>1, <1>2 DEF StackOf
  <2> QED BY <2>1, AccountTso
<1>7. Account(g) = Account(h)
  BY <1>1, <1>2, <1>5, <1>6
<1>8. ASSUME MayRaise(h, t) PROVE Exposed(h, t)
  BY <1>4, <1>8 DEF MayRaise, Interruptible, Exposed
<1> QED BY <1>2, <1>7, <1>8 DEF Fair

(* What a message becomes is neither a value nor an exception.             *)
LEMMA UnlockMsgKeeps ==
  ASSUME NEW h \in Heap, NEW m, NEW how
  PROVE  /\ Keeps(h, UnlockMsg(h, m, how)) /\ Keeps(h, Returned(h, m))
         /\ Keeps(h, Returned(UnlockMsg(h, m, how), m))
<1> DEFINE f == UnlockMsg(h, m, how)
           g == Returned(f, m)
           e == Returned(h, m)
<1>1. f.tso = h.tso /\ f.mvar = h.mvar /\ f.balance = h.balance
  BY DEF UnlockMsg, Heap
<1>2. g.tso = h.tso /\ g.mvar = h.mvar /\ g.balance = h.balance
  BY DEF UnlockMsg, Returned, Heap
<1>3. e.tso = h.tso /\ e.mvar = h.mvar /\ e.balance = h.balance
  BY DEF Returned, Heap
<1> HIDE DEF f, g, e
<1> QED BY <1>1, <1>2, <1>3, KeepsIf DEF f, g, e

LEMMA DoneKeeps ==
  ASSUME NEW h \in Heap, NEW m \in Messages, NEW c \in Capabilities, NEW s \in Threads
  PROVE  Keeps(h, TryWakeup(DoneWithMsgThrowTo(h, m), c, s))
<1> DEFINE f == UnlockMsg(h, m, "null")
<1>1. f \in Heap
  BY UnlockEffect DEF Headers
<1>2. Keeps(h, f)
  BY UnlockMsgKeeps
<1>3. DoneWithMsgThrowTo(h, m) = f
  BY DEF DoneWithMsgThrowTo
<1> HIDE DEF f
<1>4. Keeps(f, TryWakeup(f, c, s))
  BY <1>1, TryWakeupKeeps
<1> QED BY <1>2, <1>3, <1>4 DEF Keeps

LEMMA SucceedsKeeps ==
  ASSUME NEW g \in Heap, NEW c \in Capabilities, curMsg[c] \in Messages, g.msg[curMsg[c]].source \in Threads,
         Succeeds(c, g)
  PROVE  Keeps(g, heap')
<1> DEFINE m == curMsg[c]
<1>1. heap' = IF InPrimop(c) THEN Returned(UnlockMsg(g, m, "done"), m)
              ELSE TryWakeup(DoneWithMsgThrowTo(g, m), c, g.msg[m].source)
  BY DEF Succeeds
<1> HIDE DEF m
<1>2. CASE InPrimop(c)
  BY <1>1, <1>2, UnlockMsgKeeps
<1>3. CASE ~ InPrimop(c)
  BY <1>1, <1>3, DoneKeeps DEF m
<1> QED BY <1>2, <1>3

LEMMA BlockedKeeps ==
  ASSUME NEW g \in Heap, NEW c \in Capabilities, Blocked(c, g),
         InPrimop(c) => curTso[c] \in Threads /\ g.tso[curTso[c]].stack = "idle"
  PROVE  Keeps(g, heap')
<1> DEFINE m == curMsg[c]
           t == curTso[c]
           f == [g EXCEPT !.tso[t].why = "MsgThrowTo", !.tso[t].info = m, !.tso[t].stack = "throwing"]
<1>1. heap' = IF InPrimop(c) THEN f ELSE UnlockMsg(g, m, "throwto")
  BY DEF Blocked
<1>2. CASE InPrimop(c)
  <2>1. t \in Threads /\ g.tso[t] \in Tso /\ g.balance \in Int /\ g.tso[t].stack = "idle"
    BY <1>2, TypedParts
  <2>2. /\ f.balance = g.balance /\ f.mvar = g.mvar /\ \A u \in Threads \ {t} : f.tso[u] = g.tso[u]
        /\ f.tso[t] = [g.tso[t] EXCEPT !.why = "MsgThrowTo", !.info = m, !.stack = "throwing"]
    BY Zenon, <2>1 DEF Heap
  <2> HIDE DEF f, t, m
  <2>3. f.tso[t].stack = "throwing" /\ f.tso[t].what = g.tso[t].what
    BY <2>1, <2>2 DEF Tso
  <2>4. Weight(g.tso[t].stack) = 0 /\ Weight(f.tso[t].stack) = 0
    BY <2>1, <2>3 DEF Weight, One
  <2>5. /\ Account(g) \in Int /\ Account(f) \in Int
        /\ Account(f) = Account(g) + (f.balance - g.balance) + Weight(f.tso[t].stack) - Weight(g.tso[t].stack)
    <3>1. StackOf(g, f, t)
      BY <2>1, <2>2 DEF StackOf
    <3> QED BY <2>1, <3>1, AccountTso
  <2>6. Account(f) = Account(g)
    BY <2>1, <2>2, <2>4, <2>5
  <2> QED BY <1>1, <1>2, <2>2, <2>3, <2>6 DEF Keeps
<1>3. CASE ~ InPrimop(c)
  BY <1>1, <1>3, UnlockMsgKeeps
<1> QED BY <1>2, <1>3

(* What threadPaused unlocks.                                              *)
LEMMA UnlockKeeps ==
  ASSUME NEW h \in Heap, NEW t
  PROVE  Keeps(h, Unlock(h, t))
<1> DEFINE x == h.tso[t].info
           g == [h EXCEPT !.mvar[x].locker = None]
<1>1. CASE x \in MVars
  <2> HIDE DEF x
  <2>1. h.mvar[x] \in MVar
    BY <1>1, TypedParts
  <2>2. /\ g.balance = h.balance /\ g.tso = h.tso
        /\ g.mvar = [h.mvar EXCEPT ![x] = [h.mvar[x] EXCEPT !.locker = None]]
    BY DEF Heap
  <2>3. [h.mvar[x] EXCEPT !.locker = None].full = h.mvar[x].full
    BY <2>1 DEF MVar
  <2>4. \A mv \in MVars : g.mvar[mv].full = h.mvar[mv].full
    BY <1>1, <2>2, <2>3 DEF Heap
  <2>5. Unlock(h, t) = g
    BY <1>1 DEF Unlock, x
  <2> HIDE DEF g
  <2>6. \A u \in Threads : g.tso[u].stack = h.tso[u].stack /\ g.tso[u].what = h.tso[u].what
    BY <2>2
  <2>7. g.balance = h.balance
    BY <2>2
  <2>8. Keeps(h, g)
    BY <2>4, <2>6, <2>7, KeepsIf
  <2> QED BY <2>5, <2>8
<1>2. CASE x \notin MVars
  <2>1. Unlock(h, t) = h \/ Unlock(h, t) = UnlockMsg(h, x, "throwto")
    BY <1>2 DEF Unlock
  <2> QED BY <2>1, UnlockMsgKeeps DEF Keeps
<1> QED BY <1>1, <1>2

LEMMA PoppedEffect ==
  ASSUME NEW h \in Heap, NEW t \in Threads
  PROVE  LET f == Popped(h, t) IN
         /\ f.balance = h.balance /\ f.mvar = h.mvar /\ f.msg = h.msg
         /\ \A u \in Threads : /\ f.tso[u].what = h.tso[u].what /\ f.tso[u].stack = h.tso[u].stack
                               /\ f.tso[u].mask = h.tso[u].mask /\ f.tso[u].why = h.tso[u].why
                               /\ f.tso[u].info = h.tso[u].info /\ f.tso[u].link = h.tso[u].link
<1> DEFINE f == Popped(h, t)
<1>1. \A u \in Threads : h.tso[u] \in Tso
  BY TypedParts
<1>2. /\ f.balance = h.balance /\ f.mvar = h.mvar /\ f.msg = h.msg
      /\ f.tso = [h.tso EXCEPT ![t] = [h.tso[t] EXCEPT !.blocked = Tail(@)]]
  BY DEF Popped, Heap
<1>3. /\ f.tso[t] = [h.tso[t] EXCEPT !.blocked = Tail(@)] /\ \A u \in Threads \ {t} : f.tso[u] = h.tso[u]
  BY <1>2 DEF Heap
<1> HIDE DEF f
<1>4. /\ f.tso[t].what = h.tso[t].what /\ f.tso[t].stack = h.tso[t].stack
      /\ f.tso[t].mask = h.tso[t].mask /\ f.tso[t].why = h.tso[t].why
      /\ f.tso[t].info = h.tso[t].info /\ f.tso[t].link = h.tso[t].link
  BY <1>1, <1>3 DEF Tso
<1> QED BY Zenon, <1>2, <1>3, <1>4 DEF f

(* maybePerformBlockedException, one turn.                                 *)
LEMMA PerformFair ==
  ASSUME NEW h, NEW b, NEW p, NEW ct, NEW cm, Inv(h, b, p, ct, cm),
         NEW c \in Capabilities, p[c] \in {"pause", "unmask"}, NEW t, t = ct[c], PerformsBlocked(h, t),
         h.msg[Head(h.tso[t].blocked)].info # "locked"
  PROVE  Fair(h, PerformBlocked(h, c, t))
<1> DEFINE m == Head(h.tso[t].blocked)
           f == Popped(h, t)
           g == Interrupt(f, t, m)
<1>1. InvBut(h, b, p, ct, cm, {}, {}) /\ h \in Heap /\ h.tso[t].blocked # <<>> /\ MayRaise(h, t)
  BY DEF Inv, InvBut, TypeInv, PerformsBlocked
<1>2. /\ t \in Threads /\ m \in Messages /\ h.msg[m].target = t /\ h.msg[m].info \notin {"free", "done"}
      /\ f \in Heap /\ TsoInv(f, t) /\ \A mv \in MVars : QueueInv(f, mv)
  <2>1. FirstBlocked(h, p, ct, c, t, m)
    BY Zenon, <1>1 DEF FirstBlocked
  <2> HIDE DEF m, f
  <2> DEFINE N == {m}
  <2>2. h.msg[m].info = "null" \/ m \in N
    OBVIOUS
  <2> HIDE DEF N
  <2>3. /\ t \in Threads /\ m \in Messages /\ h.msg[m].target = t /\ h.msg[m].info \notin {"free", "done"}
        /\ InvBut(f, b, p, ct, cm, {}, N)
    BY <2>1, <2>2, PopInv DEF f
  <2> QED BY <2>3 DEF InvBut, TypeInv
<1>3. /\ f.balance = h.balance /\ f.mvar = h.mvar /\ f.msg = h.msg
      /\ \A u \in Threads : /\ f.tso[u].what = h.tso[u].what /\ f.tso[u].stack = h.tso[u].stack
                            /\ f.tso[u].mask = h.tso[u].mask /\ f.tso[u].why = h.tso[u].why
                            /\ f.tso[u].info = h.tso[u].info /\ f.tso[u].link = h.tso[u].link
  BY Zenon, <1>1, <1>2, PoppedEffect
<1>4. PerformBlocked(h, c, t) = IF h.msg[m].info = "null" THEN f
                                ELSE TryWakeup(DoneWithMsgThrowTo(g, m), c, h.msg[m].source)
  BY DEF PerformBlocked, Popped
<1> HIDE DEF f, m
<1>5. Keeps(h, f)
  BY <1>3, KeepsIf
<1>6. CASE h.msg[m].info = "null"
  BY Zenon, <1>4, <1>5, <1>6 DEF Keeps, Fair
<1>7. CASE h.msg[m].info # "null"
  <2>1. MsgInv(h, p, ct, cm, m) /\ CapInv(h, p, ct, cm, c)
    BY <1>1, <1>2 DEF InvBut
  <2>2. h.msg[m].source \in Threads /\ h.msg[m].source # t
    BY Zenon, <1>2, <2>1 DEF MsgInv
  <2>3. f.tso[t].why = "MVar" => f.tso[t].link /\ f.tso[t].info \in MVars /\ QueueInv(f, f.tso[t].info)
    <3>1. h.tso[t].why = "MVar" => h.tso[t].link
      BY Zenon, <2>1 DEF CapInv, PauseOK
    <3> QED BY Zenon, <1>2, <1>3, <3>1 DEF TsoInv
  <2>4. f.tso[t].why = "MsgThrowTo" => f.tso[t].info \in Messages /\ f.tso[t].info # m
    BY Zenon, <1>2, <1>3, <2>2 DEF TsoInv
  <2>5. f.tso[t].link => f.tso[t].why = "MVar"
    BY Zenon, <1>2 DEF TsoInv
  <2>6. Interrupted(f, g, t, m)
    BY Zenon, <1>2, <2>3, <2>4, <2>5, InterruptEffect
  <2> HIDE DEF g
  <2>7. MayRaise(f, t)
    BY Zenon, <1>1, <1>2, <1>3 DEF MayRaise, Interruptible
  <2>8. Fair(f, g)
    BY Zenon, <1>2, <2>3, <2>6, <2>7, InterruptedFair
  <2>9. Fair(h, g)
    BY <1>3, <1>5, <2>8 DEF Fair, Keeps, Exposed
  <2>10. g \in Heap
    BY Zenon, <2>6 DEF Interrupted
  <2>11. Keeps(g, TryWakeup(DoneWithMsgThrowTo(g, m), c, h.msg[m].source))
    BY Zenon, <1>2, <2>2, <2>10, DoneKeeps
  <2> QED BY Zenon, <1>4, <1>7, <2>9, <2>11, KeepsFair
<1> QED BY <1>6, <1>7

LEMMA PausedFair ==
  ASSUME IInv, NEW c \in Capabilities, ThreadPaused(c) \/ Unmasked(c)
  PROVE  Fair(heap, heap')
<1> DEFINE t == curTso[c]
           h == heap
           f == PerformBlocked(h, c, t)
<1>1. Inv(h, batch, pc, curTso, curMsg) /\ h \in Heap /\ pc[c] \in {"pause", "unmask"} /\ t = curTso[c]
  BY DEF IInv, Inv, InvBut, TypeInv, ThreadPaused, Unmasked
<1>2. \/ heap' = Unlock(h, t) \/ heap' = h
      \/ /\ PerformsBlocked(h, t) /\ h.msg[Head(h.tso[t].blocked)].info # "locked"
         /\ heap' = f \/ heap' = Unlock(f, t)
  BY Zenon DEF ThreadPaused, Unmasked, Performs
<1>3. Keeps(h, h) /\ Keeps(h, Unlock(h, t))
  BY <1>1, UnlockKeeps DEF Keeps
<1>4. ASSUME PerformsBlocked(h, t), h.msg[Head(h.tso[t].blocked)].info # "locked"
      PROVE  f \in Heap /\ Fair(h, f) /\ Keeps(f, Unlock(f, t))
  <2>1. Fair(h, f)
    BY Zenon, <1>1, <1>4, PerformFair
  <2>2. Inv(f, batch, pc, curTso, curMsg)
    BY Zenon, <1>1, <1>4, PerformInv DEF PerformsBlocked
  <2> HIDE DEF f
  <2>3. f \in Heap
    BY <2>2 DEF Inv, InvBut, TypeInv
  <2> QED BY <2>1, <2>3, UnlockKeeps
<1> HIDE DEF f, h, t
<1>5. ASSUME NEW g, Keeps(h, g) PROVE Fair(h, g)
  BY <1>5 DEF Keeps, Fair
<1>6. Fair(h, heap')
  BY <1>2, <1>3, <1>4, <1>5, KeepsFair
<1> QED BY <1>6 DEF h

(* throwToMsg: the exception is raised, or its message left with the target *)
LEMMA RaisedFair ==
  ASSUME IInv, NEW c \in Capabilities, Throwing(pc, c), NEW s, s = heap.msg[curMsg[c]].target,
         MayInterrupt(heap, c, s), MayRaise(heap, s), Succeeds(c, Interrupt(heap, s, curMsg[c]))
  PROVE  Fair(heap, heap')
<1> DEFINE m == curMsg[c]
           g == Interrupt(heap, s, m)
<1>1. Inv(heap, batch, pc, curTso, curMsg) /\ heap \in Heap
  BY DEF IInv, Inv, InvBut, TypeInv
<1>2. InCall(heap, m, c)
  BY <1>1, CallInv
<1>3. /\ s \in Threads /\ m \in Messages /\ heap.msg[m].info = "locked"
      /\ heap.msg[m].source \in Threads /\ heap.msg[m].source # s
  BY <1>2 DEF InCall
<1>4. TsoInv(heap, s) /\ \A mv \in MVars : QueueInv(heap, mv)
  BY <1>1, <1>3 DEF Inv, InvBut
<1>5. /\ heap.tso[s].why = "MVar" => heap.tso[s].link /\ heap.tso[s].info \in MVars /\ QueueInv(heap, heap.tso[s].info)
      /\ heap.tso[s].why = "MsgThrowTo" => heap.tso[s].info \in Messages /\ heap.tso[s].info # m
      /\ heap.tso[s].link => heap.tso[s].why = "MVar"
  BY Zenon, <1>3, <1>4 DEF TsoInv, MayInterrupt
<1> HIDE DEF m
<1>6. Interrupted(heap, g, s, m)
  BY Zenon, <1>1, <1>3, <1>5, InterruptEffect
<1>7. Succeeds(c, g)
  BY DEF m
<1> HIDE DEF g
<1>8. Fair(heap, g) /\ g \in Heap
  <2>1. heap \in Heap /\ s \in Threads /\ TsoInv(heap, s) /\ (heap.tso[s].why = "MVar" => heap.tso[s].link)
    BY Zenon, <1>1, <1>3, <1>4, <1>5
  <2>2. Fair(heap, g)
    BY <1>6, <2>1, InterruptedFair, Zenon
  <2>3. g \in Heap
    BY Zenon, <1>6 DEF Interrupted
  <2> QED BY <2>2, <2>3
<1>9. g.msg[m] = [heap.msg[m] EXCEPT !.raised = @ + 1] /\ heap.msg[m] \in Msg
  BY Zenon, <1>1, <1>3, <1>6, TypedParts DEF Interrupted
<1>10. g.msg[m].source \in Threads
  BY <1>3, <1>9 DEF Msg
<1>11. Keeps(g, heap')
  BY <1>3, <1>7, <1>8, <1>10, SucceedsKeeps DEF m
<1> QED BY <1>8, <1>11, KeepsFair

LEMMA QueuedKeeps ==
  ASSUME IInv, NEW c \in Capabilities, Throwing(pc, c), NEW g,
         \/ g = BlockedThrowTo(heap, curMsg[c])
         \/ \E d \in Capabilities : g = SendMessage(heap, d, ThrowTo(curMsg[c])),
         Blocked(c, g)
  PROVE  Keeps(heap, heap')
<1> DEFINE m == curMsg[c]
           t == curTso[c]
           s == heap.msg[m].target
<1>1. Inv(heap, batch, pc, curTso, curMsg) /\ heap \in Heap /\ t \in Threads \cup {None}
  BY DEF IInv, Inv, InvBut, TypeInv
<1>2. InCall(heap, m, c) /\ ThrowOK(heap, c, t, m)
  BY <1>1, CallInv
<1>3. m \in Messages /\ s \in Threads
  BY <1>2 DEF InCall
<1>4. ASSUME t # None PROVE t \in Threads /\ heap.tso[t].stack = "idle"
  <2>1. t \in Threads /\ heap.tso[t].why = "NotBlocked"
    BY <1>1, <1>2, <1>4 DEF ThrowOK
  <2>2. TsoInv(heap, t)
    BY <1>1, <2>1 DEF Inv, InvBut
  <2> QED BY <2>1, <2>2 DEF TsoInv
<1>5. /\ g \in Heap /\ g.balance = heap.balance /\ g.mvar = heap.mvar
      /\ \A u \in Threads : g.tso[u].stack = heap.tso[u].stack /\ g.tso[u].what = heap.tso[u].what
  <2>1. CASE \E d \in Capabilities : g = SendMessage(heap, d, ThrowTo(m))
    <3>1. PICK d \in Capabilities : g = SendMessage(heap, d, ThrowTo(m))
      BY <2>1
    <3>2. ThrowTo(m) \in Mail
      BY <1>3, MailIn
    <3>3. g \in Heap /\ g.balance = heap.balance /\ g.mvar = heap.mvar /\ g.tso = heap.tso
      BY <1>1, <3>1, <3>2, SendEffect
    <3> QED BY <3>3
  <2>2. CASE g = BlockedThrowTo(heap, m)
    <3> DEFINE u == [heap.tso[s] EXCEPT !.blocked = <<m>> \o @]
    <3>1. heap.tso[s] \in Tso
      BY <1>1, <1>3, TypedParts
    <3>2. <<m>> \o heap.tso[s].blocked \in Seq(Messages)
      BY Zenon, <1>3, <3>1, ConsIn DEF Tso
    <3>3. u \in Tso /\ u.stack = heap.tso[s].stack /\ u.what = heap.tso[s].what
      BY Zenon, <3>1, <3>2 DEF Tso
    <3>4. g = [heap EXCEPT !.tso[s] = u]
      BY Zenon, <2>2 DEF BlockedThrowTo
    <3> HIDE DEF u, s, m
    <3>5. /\ g \in Heap /\ g.tso[s] = u /\ \A v \in Threads \ {s} : g.tso[v] = heap.tso[v]
          /\ g.mvar = heap.mvar /\ g.balance = heap.balance
      BY <1>1, <1>3, <3>3, <3>4, PutTso
    <3> QED BY <3>3, <3>5
  <2> QED BY <2>1, <2>2
<1>6. Keeps(heap, g)
  BY <1>5, KeepsIf
<1>7. InPrimop(c) => t \in Threads /\ g.tso[t].stack = "idle"
  BY <1>4, <1>5 DEF InPrimop
<1>8. Keeps(g, heap')
  BY <1>5, <1>7, BlockedKeeps
<1> QED BY <1>6, <1>8 DEF Keeps

LEMMA ThrowToFair ==
  ASSUME IInv, NEW c \in Capabilities, ThrowToMsg(c) \/ ThrowToWaiter(c)
  PROVE  Fair(heap, heap')
<1> DEFINE m == curMsg[c]
           t == heap.msg[m].target
           u == heap.tso[t]
           Raises == /\ MayInterrupt(heap, c, t) /\ MayRaise(heap, t)
                     /\ Succeeds(c, Interrupt(heap, t, m))
           Queues == \E g : /\ \/ g = BlockedThrowTo(heap, m)
                               \/ \E d \in Capabilities : g = SendMessage(heap, d, ThrowTo(m))
                            /\ Blocked(c, g)
<1>1. Throwing(pc, c) /\ Inv(heap, batch, pc, curTso, curMsg) /\ heap \in Heap
  BY Zenon DEF ThrowToMsg, ThrowToWaiter, Throwing, IInv, Inv, InvBut, TypeInv
<1>2. InCall(heap, m, c)
  BY <1>1, CallInv
<1>3. t \in Threads /\ m \in Messages /\ heap.msg[m].source \in Threads
  BY <1>2 DEF InCall
<1>4. u \in Tso /\ TsoInv(heap, t) /\ CapInv(heap, pc, curTso, curMsg, c) /\ u.home \in Capabilities
  <2>1. u \in Tso
    BY <1>1, <1>3, TypedParts
  <2> QED BY Zenon, <1>1, <1>3, <2>1 DEF Inv, InvBut, Tso
<1>5. \/ Succeeds(c, heap) \/ Raises \/ Queues
      \/ heap' = heap \/ heap' = TryWakeup(heap, c, t)
  <2>1. CASE ThrowToMsg(c)
    <3>1. \/ Dead(heap, t) /\ Succeeds(c, heap)
          \/ ~Dead(heap, t) /\ Blocked(c, SendMessage(heap, u.home, ThrowTo(m)))
          \/ /\ ~Dead(heap, t) /\ u.home = c
             /\ \/ u.why = "NotBlocked" /\ MayRaise(heap, t) /\ Succeeds(c, Interrupt(heap, t, m))
                \/ Blocked(c, BlockedThrowTo(heap, m))
                \/ u.why = "MsgThrowTo" /\ ThrowToThrower(c, m, t, u.info)
                \/ heap' = heap \/ heap' = TryWakeup(heap, c, t)
      BY Zenon, <2>1 DEF ThrowToMsg, Retries
    <3> HIDE DEF m, t, u
    <3>2. CASE Dead(heap, t) /\ Succeeds(c, heap)
      BY <3>2
    <3>3. CASE Blocked(c, SendMessage(heap, u.home, ThrowTo(m))) \/ Blocked(c, BlockedThrowTo(heap, m))
      BY <1>4, <3>3
    <3>4. CASE /\ ~Dead(heap, t) /\ u.home = c /\ u.why = "NotBlocked" /\ MayRaise(heap, t)
               /\ Succeeds(c, Interrupt(heap, t, m))
      <4>1. MayInterrupt(heap, c, t)
        BY <3>4 DEF MayInterrupt, Dead, u
      <4> QED BY <3>4, <4>1
    <3>5. CASE /\ ~Dead(heap, t) /\ u.home = c
               /\ u.why = "MsgThrowTo" /\ ThrowToThrower(c, m, t, u.info)
      <4> DEFINE n == u.info
      <4>1. CASE heap.msg[n].info = "locked"
        <5>1. Blocked(c, SendMessage(heap, c, ThrowTo(m)))
          BY <3>5, <4>1 DEF ThrowToThrower
        <5> QED BY <5>1
      <4>2. CASE heap.msg[n].info = "null"
        BY <3>5, <4>2 DEF ThrowToThrower, Retries
      <4>3. CASE heap.msg[n].info \notin {"locked", "null"}
        <5>1. (MayRaise(heap, t) /\ Succeeds(c, Interrupt(heap, t, m))) \/ Blocked(c, BlockedThrowTo(heap, m))
          BY <3>5, <4>3 DEF ThrowToThrower
        <5>2. MayInterrupt(heap, c, t)
          BY <3>5, <4>3 DEF MayInterrupt, Dead, u
        <5> QED BY <5>1, <5>2
      <4> QED BY <4>1, <4>2, <4>3
    <3> QED BY <3>1, <3>2, <3>3, <3>4, <3>5
  <2>2. CASE ThrowToWaiter(c)
    <3>1. pc[c] = "throw_mvar" /\ u.home = c /\ u.why = "MVar" /\ u.what = "run"
      BY Zenon, <1>4, <2>2 DEF ThrowToWaiter, CapInv, WaiterOK, TsoInv
    <3>2. \/ heap' = TryWakeup(heap, c, t)
          \/ u.link /\ MayRaise(heap, t) /\ Succeeds(c, Interrupt(heap, t, m))
          \/ Blocked(c, BlockedThrowTo(heap, m))
      BY Zenon, <2>2 DEF ThrowToWaiter, Completed
    <3>3. u.link => MayInterrupt(heap, c, t)
      BY <3>1 DEF MayInterrupt
    <3> QED BY <3>2, <3>3
  <2> QED BY <2>1, <2>2
<1>6. ASSUME Keeps(heap, heap') PROVE Fair(heap, heap')
  BY <1>6 DEF Keeps, Fair
<1>7. CASE Succeeds(c, heap)
  BY <1>1, <1>3, <1>6, <1>7, SucceedsKeeps
<1>8. CASE Raises
  BY <1>1, <1>8, RaisedFair
<1>9. CASE Queues
  BY <1>1, <1>6, <1>9, QueuedKeeps
<1>10. CASE heap' = heap \/ heap' = TryWakeup(heap, c, t)
  BY <1>1, <1>3, <1>6, <1>10, TryWakeupKeeps DEF Keeps
<1> QED BY <1>5, <1>7, <1>8, <1>9, <1>10

(* The steps of the scheduler, and those of a thread that touch neither a   *)
(* value nor the stack.                                                    *)
LEMMA SchedulerFair ==
  ASSUME IInv, NEW c \in Capabilities, AwakenBlockedExceptionQueue(c) \/ TakeInbox(c) \/ ExecuteMessage(c)
  PROVE  Fair(heap, heap')
<1>1. Inv(heap, batch, pc, curTso, curMsg) /\ heap \in Heap /\ batch \in [Capabilities -> Seq(Mail)]
  BY DEF IInv, Inv, InvBut, TypeInv
<1>2. SUFFICES Keeps(heap, heap')
  BY DEF Keeps, Fair
<1>3. CASE AwakenBlockedExceptionQueue(c)
  <2> DEFINE t == curTso[c]
             m == Head(heap.tso[t].blocked)
             f == Popped(heap, t)
  <2>1. \/ heap' = heap
        \/ /\ heap.tso[t].blocked # <<>>
           /\ heap' = f \/ heap' = TryWakeup(DoneWithMsgThrowTo(f, m), c, heap.msg[m].source)
    BY Zenon, <1>3 DEF AwakenBlockedExceptionQueue, Popped
  <2>2. CASE heap.tso[t].blocked = <<>>
    BY <2>1, <2>2 DEF Keeps
  <2>3. CASE heap.tso[t].blocked # <<>>
    <3>1. FirstBlocked(heap, pc, curTso, c, t, m)
      BY Zenon, <1>3, <2>3 DEF AwakenBlockedExceptionQueue, FirstBlocked
    <3> HIDE DEF t, m, f
    <3> DEFINE N == {m}
    <3>2. heap.msg[m].info = "null" \/ m \in N
      OBVIOUS
    <3> HIDE DEF N
    <3>3. /\ t \in Threads /\ m \in Messages /\ heap.msg[m].target = t /\ heap.msg[m].info \notin {"free", "done"}
          /\ InvBut(f, batch, pc, curTso, curMsg, {}, N)
      BY <1>1, <3>1, <3>2, PopInv DEF f
    <3>4. f \in Heap /\ MsgInv(heap, pc, curTso, curMsg, m)
      BY <1>1, <3>3 DEF Inv, InvBut, TypeInv
    <3>5. heap.msg[m].source \in Threads
      BY <3>3, <3>4 DEF MsgInv
    <3>6. Keeps(heap, f)
      <4>1. /\ f.balance = heap.balance /\ f.mvar = heap.mvar /\ f.msg = heap.msg
            /\ \A u \in Threads : /\ f.tso[u].what = heap.tso[u].what /\ f.tso[u].stack = heap.tso[u].stack
                                  /\ f.tso[u].mask = heap.tso[u].mask /\ f.tso[u].why = heap.tso[u].why
                                  /\ f.tso[u].info = heap.tso[u].info /\ f.tso[u].link = heap.tso[u].link
        BY <1>1, <3>3, PoppedEffect DEF f
      <4> QED BY <4>1, KeepsIf
    <3>7. Keeps(f, TryWakeup(DoneWithMsgThrowTo(f, m), c, heap.msg[m].source))
      BY <3>3, <3>4, <3>5, DoneKeeps
    <3> QED BY <2>1, <3>6, <3>7 DEF Keeps
  <2> QED BY <2>2, <2>3
<1>4. CASE TakeInbox(c)
  <2>1. heap' = [heap EXCEPT !.inbox[c] = <<>>]
    BY <1>4 DEF TakeInbox
  <2>2. heap'.tso = heap.tso /\ heap'.mvar = heap.mvar /\ heap'.balance = heap.balance
    BY <1>1, <2>1 DEF Heap
  <2> QED BY <2>2, KeepsIf
<1>5. CASE ExecuteMessage(c)
  <2> DEFINE x == Head(batch[c])
  <2>1. x \in Mail
    BY Zenon, <1>1, <1>5, NextMail DEF ExecuteMessage
  <2>2. \/ x.type = "wakeup" /\ heap' = TryWakeup(heap, c, x.of)
        \/ heap' = [heap EXCEPT !.msg[x.of].info = "locked", !.msg[x.of].locker = c]
        \/ heap' = heap
    BY Zenon, <1>5 DEF ExecuteMessage
  <2> HIDE DEF x
  <2>3. CASE x.type = "wakeup" /\ heap' = TryWakeup(heap, c, x.of)
    <3>1. x.of \in Threads
      BY <2>1, <2>3 DEF Mail
    <3> QED BY <1>1, <2>3, <3>1, TryWakeupKeeps
  <2>4. CASE heap' = [heap EXCEPT !.msg[x.of].info = "locked", !.msg[x.of].locker = c]
    <3>1. heap'.tso = heap.tso /\ heap'.mvar = heap.mvar /\ heap'.balance = heap.balance
      BY <1>1, <2>4 DEF Heap
    <3> QED BY <3>1, KeepsIf
  <2>5. CASE heap' = heap
    BY <2>5 DEF Keeps
  <2> QED BY <2>2, <2>3, <2>4, <2>5
<1> QED BY <1>3, <1>4, <1>5

LEMMA OwnStepFair ==
  ASSUME IInv, NEW c \in Capabilities, NEW t \in Threads,
         \/ \E u \in Threads : KillThread(c, t, u)
         \/ \E mask \in Masks : SetMask(c, t, mask)
         \/ \E d \in Capabilities : Migrate(c, d, t)
         \/ EnterHandler(c, t) \/ Finish(c, t)
  PROVE  Fair(heap, heap')
<1>1. heap \in Heap /\ heap.tso[t] \in Tso
  BY TypedParts DEF IInv, Inv, InvBut, TypeInv
<1>2. ASSUME Keeps(heap, heap') PROVE Fair(heap, heap')
  BY <1>2 DEF Keeps, Fair
<1>3. ASSUME NEW u, heap' = [heap EXCEPT !.tso[t] = u], u.stack = heap.tso[t].stack,
             u.what = heap.tso[t].what \/ u.what \notin {"raise", "killed"}
      PROVE  Fair(heap, heap')
  <2>1. /\ heap'.balance = heap.balance /\ heap'.mvar = heap.mvar /\ heap'.tso[t] = u
        /\ \A v \in Threads \ {t} : heap'.tso[v] = heap.tso[v]
    BY <1>1, <1>3 DEF Heap
  <2>2. \A v \in Threads : heap'.tso[v].stack = heap.tso[v].stack
    BY <1>3, <2>1
  <2>3. Account(heap') = Account(heap)
    BY <2>1, <2>2, AccountSame
  <2> QED BY <1>3, <2>1, <2>3 DEF Fair
<1>4. ASSUME NEW target \in Threads, KillThread(c, t, target) PROVE Fair(heap, heap')
  <2>1. PICK m \in Messages :
          heap' = [heap EXCEPT !.msg[m] = [@ EXCEPT !.info = "locked", !.locker = c, !.source = t, !.target = target]]
    BY Zenon, <1>4 DEF KillThread
  <2>2. heap'.tso = heap.tso /\ heap'.mvar = heap.mvar /\ heap'.balance = heap.balance
    BY <1>1, <2>1 DEF Heap
  <2> QED BY <1>2, <2>2, KeepsIf
<1>5. ASSUME NEW mask \in Masks, SetMask(c, t, mask) PROVE Fair(heap, heap')
  <2> DEFINE u == [heap.tso[t] EXCEPT !.mask = mask]
  <2>1. u.stack = heap.tso[t].stack /\ u.what = heap.tso[t].what
    BY <1>1 DEF Tso
  <2>2. heap' = [heap EXCEPT !.tso[t] = u]
    BY <1>5 DEF SetMask
  <2> HIDE DEF u
  <2> QED BY <1>3, <2>1, <2>2
<1>6. ASSUME NEW d \in Capabilities, Migrate(c, d, t) PROVE Fair(heap, heap')
  <2>1. CASE heap' = SendMessage([heap EXCEPT !.tso[t].why = "Migrating", !.tso[t].home = d], d, Wakeup(t))
    <3> DEFINE u == [heap.tso[t] EXCEPT !.why = "Migrating", !.home = d]
               f == [heap EXCEPT !.tso[t] = u]
    <3>1. u \in Tso /\ u.stack = heap.tso[t].stack /\ u.what = heap.tso[t].what
      BY Zenon, <1>1 DEF Tso
    <3>2. [heap EXCEPT !.tso[t].why = "Migrating", !.tso[t].home = d] = f
      BY <1>1 DEF Heap
    <3> HIDE DEF u
    <3>3. /\ f \in Heap /\ f.balance = heap.balance /\ f.mvar = heap.mvar /\ f.tso[t] = u
          /\ \A v \in Threads \ {t} : f.tso[v] = heap.tso[v]
      BY <1>1, <3>1, PutTso
    <3> HIDE DEF f
    <3>4. Wakeup(t) \in Mail
      BY MailIn
    <3>5. heap'.balance = f.balance /\ heap'.mvar = f.mvar /\ heap'.tso = f.tso
      BY <2>1, <3>2, <3>3, <3>4, SendEffect
    <3> QED BY <1>2, <3>1, <3>3, <3>5, KeepsIf
  <2>2. CASE heap' = [heap EXCEPT !.tso[t].home = d]
    <3> DEFINE u == [heap.tso[t] EXCEPT !.home = d]
    <3>1. u.stack = heap.tso[t].stack /\ u.what = heap.tso[t].what
      BY <1>1 DEF Tso
    <3>2. heap' = [heap EXCEPT !.tso[t] = u]
      BY <2>2
    <3> HIDE DEF u
    <3> QED BY <1>3, <3>1, <3>2
  <2> QED BY Zenon, <1>6, <2>1, <2>2 DEF Migrate
<1>7. CASE EnterHandler(c, t)
  <2> DEFINE u == [heap.tso[t] EXCEPT !.what = "run", !.catch = "none",
                     !.mask = IF heap.tso[t].catch = "uninterruptible" THEN heap.tso[t].mask ELSE "interruptible"]
  <2>1. u.stack = heap.tso[t].stack /\ u.what = "run"
    BY <1>1 DEF Tso
  <2>2. heap' = [heap EXCEPT !.tso[t] = u]
    BY <1>7 DEF EnterHandler
  <2> HIDE DEF u
  <2> QED BY <1>3, <2>1, <2>2
<1>8. CASE Finish(c, t)
  <2> DEFINE u == [heap.tso[t] EXCEPT !.what = "finished"]
  <2>1. u.stack = heap.tso[t].stack /\ u.what = "finished"
    BY <1>1 DEF Tso
  <2>2. heap' = [heap EXCEPT !.tso[t] = u]
    BY <1>8 DEF Finish
  <2> HIDE DEF u
  <2> QED BY <1>3, <2>1, <2>2
<1> QED BY <1>4, <1>5, <1>6, <1>7, <1>8

(* takeMVar and putMVar: the value that changes hands is accounted for.    *)
LEMMA HandOverAccount ==
  ASSUME NEW h \in Heap, NEW c \in Capabilities, NEW mv \in MVars, QueueInv(h, mv), Live(h.mvar[mv].queue) # {},
         NEW done \in {"took", "put"}
  PROVE  LET g == HandOver(h, c, mv, done) IN
         /\ Account(g) = Account(h) + Weight(done) /\ Account(h) \in Int
         /\ \A t \in Threads : g.tso[t].what = h.tso[t].what
<1> DEFINE t == FirstWaiter(h, mv)
           f == Handed(h, mv, done)
<1>1. /\ t \in Threads /\ h.tso[t].stack = Lacks(h.mvar[mv])
      /\ Completes(h, f, t, mv) /\ f.tso[t].stack = done /\ f.balance = h.balance
  BY HandedEffect
<1>2. HandOver(h, c, mv, done) = TryWakeup(f, c, t)
  BY DEF HandOver, Handed, FirstWaiter
<1> HIDE DEF t, f
<1>3. /\ f \in Heap /\ (\A u \in Threads \ {t} : f.tso[u] = h.tso[u]) /\ f.tso[t].what = h.tso[t].what
      /\ (\A n \in MVars : f.mvar[n].full = h.mvar[n].full) /\ h.balance \in Int
  BY <1>1, TypedParts DEF Completes
<1>4. Weight(h.tso[t].stack) = 0 /\ Weight(done) \in Int
  BY <1>1 DEF Lacks, Weight, One
<1>5. /\ Account(h) \in Int /\ Account(f) \in Int
      /\ Account(f) = Account(h) + (f.balance - h.balance) + Weight(f.tso[t].stack) - Weight(h.tso[t].stack)
  <2>1. StackOf(h, f, t)
    BY <1>1, <1>3 DEF StackOf
  <2> QED BY <1>1, <2>1, AccountTso
<1>6. Account(f) = Account(h) + Weight(done)
  BY <1>1, <1>3, <1>4, <1>5
<1>7. Keeps(f, TryWakeup(f, c, t))
  BY <1>1, <1>3, TryWakeupKeeps
<1> QED BY <1>1, <1>2, <1>3, <1>5, <1>6, <1>7 DEF Keeps

(* ... an MVar that is filled or emptied at once.                          *)
LEMMA AtOnceAccount ==
  ASSUME NEW h \in Heap, NEW mv \in MVars, NEW full \in BOOLEAN, h.mvar[mv].full = ~ full, NEW g,
         g = [h EXCEPT !.mvar[mv].full = full, !.balance = h.balance + (One(full) - One(~ full))]
  PROVE  Keeps(h, g)
<1> DEFINE v == [h.mvar[mv] EXCEPT !.full = full]
           z == One(full) - One(~ full)
<1>1. h.mvar[mv] \in MVar /\ h.balance \in Int /\ z \in Int
  BY TypedParts DEF One
<1>2. v.full = full
  BY <1>1 DEF MVar
<1> HIDE DEF z
<1>3. /\ g.balance = h.balance + z /\ g.tso = h.tso /\ g.mvar = [h.mvar EXCEPT ![mv] = v]
  BY DEF Heap, z
<1> HIDE DEF v
<1>4. g.mvar[mv] = v /\ \A n \in MVars \ {mv} : g.mvar[n] = h.mvar[n]
  BY <1>3 DEF Heap
<1>5. g.balance \in Int
  BY <1>1, <1>3
<1>6. Account(g) = Account(h) + (g.balance - h.balance) - One(g.mvar[mv].full) + One(h.mvar[mv].full)
  <2>1. FullOf(h, g, mv)
    BY <1>1, <1>3, <1>4, <1>5 DEF FullOf
  <2> QED BY <2>1, AccountMVar
<1>7. g.balance - h.balance = One(full) - One(~ full) /\ One(full) \in Int /\ One(~ full) \in Int
  BY <1>1, <1>3 DEF One, z
<1>8. Account(h) \in Int
  <2>1. IsFiniteSet(Threads) /\ IsFiniteSet(MVars) /\ Full(h) \subseteq MVars /\ \A s : Stack(h, s) \subseteq Threads
    BY ThreadsAssumption DEF Full, Stack
  <2>2. IsFiniteSet(Full(h)) /\ \A s : IsFiniteSet(Stack(h, s))
    BY <2>1, FS_Subset
  <2>3. /\ Cardinality(Full(h)) \in Int /\ Cardinality(Stack(h, "put")) \in Int
        /\ Cardinality(Stack(h, "took")) \in Int
    BY <2>2, FS_CardinalityType
  <2> QED BY <1>1, <2>3 DEF Account
<1>9. Account(g) = Account(h)
  BY <1>2, <1>4, <1>6, <1>7, <1>8
<1> QED BY <1>3, <1>9 DEF Keeps

LEMMA MVarFair ==
  ASSUME IInv, NEW c \in Capabilities, NEW t \in Threads, NEW mv \in MVars, TakeMVar(c, t, mv) \/ PutMVar(c, t, mv)
  PROVE  Fair(heap, heap')
<1> DEFINE h == heap
           v == h.mvar[mv]
<1>1. /\ Inv(h, batch, pc, curTso, curMsg) /\ h \in Heap /\ v \in MVar /\ QueueInv(h, mv) /\ h.balance \in Int
      /\ h.tso[t] \in Tso /\ h.tso[t].why = "NotBlocked" /\ TsoInv(h, t)
  BY TypedParts DEF IInv, Inv, InvBut, TypeInv, TakeMVar, PutMVar, Calls, Running
<1>2. v.full \in BOOLEAN /\ h.tso[t].stack = "idle"
  BY <1>1 DEF MVar, TsoInv
<1>3. \E full \in BOOLEAN :
        LET done == IF full THEN "took" ELSE "put"
            z    == IF full THEN 1 ELSE -1 IN
        \/ heap' = BlockOnMVar(h, c, t, mv, Lacks(v))
        \/ v.full = ~ full /\ heap' = [h EXCEPT !.mvar[mv].full = full, !.balance = h.balance + z]
        \/ /\ Live(v.queue) # {}
           /\ heap' = [HandOver(h, c, mv, done) EXCEPT !.balance = @ + z]
  <2>1. CASE TakeMVar(c, t, mv)
    <3>1. \/ ~ v.full /\ heap' = BlockOnMVar(h, c, t, mv, "taking")
          \/ v.full /\ heap' = [h EXCEPT !.mvar[mv].full = FALSE, !.balance = h.balance - 1]
          \/ Live(v.queue) # {} /\ heap' = [HandOver(h, c, mv, "put") EXCEPT !.balance = @ - 1]
      BY <2>1 DEF TakeMVar, Blocks, Continues
    <3>2. \A z \in Int : z - 1 = z + (-1)
      OBVIOUS
    <3>3. CASE ~ v.full /\ heap' = BlockOnMVar(h, c, t, mv, "taking")
      BY <3>3 DEF Lacks
    <3>4. CASE v.full /\ heap' = [h EXCEPT !.mvar[mv].full = FALSE, !.balance = h.balance - 1]
      <4>1. heap' = [h EXCEPT !.mvar[mv].full = FALSE, !.balance = h.balance + (-1)]
        BY <1>1, <3>2, <3>4
      <4> QED BY Zenon, <1>2, <3>4, <4>1
    <3>5. CASE Live(v.queue) # {} /\ heap' = [HandOver(h, c, mv, "put") EXCEPT !.balance = @ - 1]
      <4> DEFINE g == HandOver(h, c, mv, "put")
      <4>1. Inv(g, batch, pc, curTso, curMsg)
        BY Zenon, <1>1, <2>1, <3>5, HandOverInv DEF TakeMVar, Calls, Running
      <4> HIDE DEF g
      <4>2. g.balance \in Int
        BY <4>1, TypedParts DEF Inv, InvBut, TypeInv
      <4>3. heap' = [g EXCEPT !.balance = @ + (-1)]
        BY <3>2, <3>5, <4>2 DEF g
      <4> QED BY Zenon, <3>5, <4>3 DEF g
    <3> QED BY Zenon, <3>1, <3>3, <3>4, <3>5
  <2>2. CASE PutMVar(c, t, mv)
    <3>1. \/ v.full /\ heap' = BlockOnMVar(h, c, t, mv, "putting")
          \/ ~ v.full /\ heap' = [h EXCEPT !.mvar[mv].full = TRUE, !.balance = h.balance + 1]
          \/ Live(v.queue) # {} /\ heap' = [HandOver(h, c, mv, "took") EXCEPT !.balance = @ + 1]
      BY <2>2 DEF PutMVar, Blocks, Continues
    <3> QED BY Zenon, <1>2, <3>1 DEF Lacks
  <2> QED BY Zenon, <2>1, <2>2
<1> HIDE DEF h, v
<1>4. PICK full \in BOOLEAN :
        LET done == IF full THEN "took" ELSE "put"
            z    == IF full THEN 1 ELSE -1 IN
        \/ heap' = BlockOnMVar(h, c, t, mv, Lacks(v))
        \/ v.full = ~ full /\ heap' = [h EXCEPT !.mvar[mv].full = full, !.balance = h.balance + z]
        \/ /\ Live(v.queue) # {}
           /\ heap' = [HandOver(h, c, mv, done) EXCEPT !.balance = @ + z]
  BY Zenon, <1>3
<1> DEFINE done == IF full THEN "took" ELSE "put"
           z    == IF full THEN 1 ELSE -1
<1>5. z \in Int /\ z = One(full) - One(~ full) /\ done \in {"took", "put"} /\ Weight(done) = 0 - z
  BY DEF One, Weight
<1> HIDE DEF done, z
<1>6. CASE heap' = BlockOnMVar(h, c, t, mv, Lacks(v))
  <2> DEFINE g == BlockOnMVar(h, c, t, mv, Lacks(v))
  <2>1. BlocksOn(h, g, c, t, mv)
    BY <1>1, BlockOnEffect DEF v
  <2>2. g.balance = h.balance
    BY <1>1 DEF BlockOnMVar, Heap
  <2> HIDE DEF g
  <2>3. /\ \A u \in Threads \ {t} : g.tso[u] = h.tso[u]
        /\ g.tso[t].stack \in {"taking", "putting"} /\ g.tso[t].what = h.tso[t].what
        /\ \A n \in MVars : g.mvar[n].full = h.mvar[n].full
    BY Zenon, <2>1 DEF BlocksOn, Lacks
  <2>4. Weight(g.tso[t].stack) = 0 /\ Weight(h.tso[t].stack) = 0
    BY <1>2, <2>3 DEF Weight, One
  <2>5. /\ Account(h) \in Int /\ Account(g) \in Int
        /\ Account(g) = Account(h) + (g.balance - h.balance) + Weight(g.tso[t].stack) - Weight(h.tso[t].stack)
    <3>1. StackOf(h, g, t)
      BY <1>1, <2>2, <2>3 DEF StackOf
    <3> QED BY <3>1, AccountTso
  <2>6. Account(g) = Account(h)
    BY <1>1, <2>2, <2>4, <2>5
  <2> QED BY <1>6, <2>3, <2>6 DEF Fair, g, h
<1>7. CASE v.full = ~ full /\ heap' = [h EXCEPT !.mvar[mv].full = full, !.balance = h.balance + z]
  <2>1. Keeps(h, heap')
    BY Zenon, <1>1, <1>5, <1>7, AtOnceAccount DEF v
  <2> QED BY <2>1 DEF Keeps, Fair, h
<1>8. CASE Live(v.queue) # {} /\ heap' = [HandOver(h, c, mv, done) EXCEPT !.balance = @ + z]
  <2> DEFINE f == HandOver(h, c, mv, done)
  <2>1. /\ Account(f) = Account(h) + Weight(done) /\ Account(h) \in Int
        /\ \A u \in Threads : f.tso[u].what = h.tso[u].what
    BY Zenon, <1>1, <1>5, <1>8, HandOverAccount DEF v
  <2>2. Inv(f, batch, pc, curTso, curMsg)
    <3>1. pc[c] = "sched" /\ h.mvar[mv].locker = None
      BY DEF TakeMVar, PutMVar, Calls, Running, h
    <3> QED BY <1>1, <1>5, <1>8, <3>1, HandOverInv DEF v
  <2> HIDE DEF f
  <2>3. f \in Heap /\ f.balance \in Int
    BY <2>2, TypedParts DEF Inv, InvBut, TypeInv
  <2>4. heap' = [f EXCEPT !.balance = f.balance + z]
    BY <1>8 DEF f
  <2>5. heap'.tso = f.tso /\ heap'.mvar = f.mvar /\ heap'.balance = f.balance + z
    BY <2>3, <2>4 DEF Heap
  <2>6. heap'.balance \in Int
    BY <1>5, <2>3, <2>5
  <2>7. Account(f) \in Int /\ Account(heap') = Account(f) + (heap'.balance - f.balance) + Weight(heap'.tso[t].stack) - Weight(f.tso[t].stack)
    <3>1. StackOf(f, heap', t)
      BY <2>3, <2>5, <2>6 DEF StackOf
    <3> QED BY <3>1, AccountTso
  <2>8. Weight(f.tso[t].stack) \in Int
    BY DEF Weight, One
  <2>9. Account(heap') = Account(h)
    BY <1>5, <2>1, <2>3, <2>5, <2>7, <2>8
  <2> QED BY <2>1, <2>5, <2>9 DEF Fair, h
<1> QED BY <1>4, <1>6, <1>7, <1>8 DEF done, z

(* throwTo to the thread itself undoes nothing, since it runs.              *)
LEMMA KillSelfAccount ==
  ASSUME IInv, NEW c \in Capabilities, NEW t \in Threads, KillSelf(c, t)
  PROVE  Account(heap') = Account(heap)
<1>1. heap \in Heap /\ heap.tso[t].why = "NotBlocked" /\ TsoInv(heap, t) /\ heap' = RaiseAsync(heap, t)
  BY DEF IInv, Inv, InvBut, TypeInv, KillSelf, Calls, Running
<1>2. /\ heap'.mvar = heap.mvar /\ heap'.balance = heap.balance /\ heap'.tso[t].stack = "idle"
      /\ \A u \in Threads \ {t} : heap'.tso[u] = heap.tso[u]
  BY <1>1, RaiseAsyncEffect
<1>3. heap.tso[t].stack = "idle"
  BY <1>1 DEF TsoInv
<1>4. \A u \in Threads : heap'.tso[u].stack = heap.tso[u].stack
  BY <1>2, <1>3
<1> QED BY <1>2, <1>4, AccountSame

(* A call is taken off the program of the thread that makes it.            *)
ProgramInv == program \in [Threads -> Seq(STRING)]
LEMMA CallShortens ==
  ASSUME ProgramInv, NEW c, NEW t \in Threads, NEW primitive, Calls(c, t, primitive)
  PROVE  ProgramInv' /\ program' # program
<1>1. program[t] \in Seq(STRING) /\ program[t] # <<>> /\ program' = [program EXCEPT ![t] = Tail(@)]
  BY DEF ProgramInv, Calls
<1>2. Len(program[t]) \in Nat \ {0} /\ Tail(program[t]) \in Seq(STRING) /\ Len(Tail(program[t])) = Len(program[t]) - 1
  BY <1>1, EmptySeq, HeadTailProperties
<1>3. Tail(program[t]) # program[t]
  <2>1. SUFFICES ASSUME Tail(program[t]) = program[t] PROVE FALSE
    OBVIOUS
  <2>2. Len(program[t]) = Len(program[t]) - 1
    BY <1>2, <2>1
  <2> QED BY <1>2, <2>2
<1>4. program'[t] = Tail(program[t]) /\ program' \in [Threads -> Seq(STRING)]
  BY <1>1, <1>2 DEF ProgramInv
<1> QED BY <1>3, <1>4 DEF ProgramInv

LEMMA StepFair ==
  ASSUME IInv, ProgramInv, ThreadsNext
  PROVE  /\ Account(heap') = Account(heap) /\ ProgramInv'
         /\ program' = program => Fair(heap, heap')
<1>1. PICK c \in Capabilities : Goes(c) \/ \E t \in Threads : Thread(c, t)
  BY DEF ThreadsNext
<1>2. CASE Goes(c)
  <2>1. program' = program
    BY Zenon, <1>2 DEF Goes, ThrowToMsg, ThrowToWaiter, ThreadPaused, Unmasked, AwakenBlockedExceptionQueue, TakeInbox, ExecuteMessage
  <2>2. Fair(heap, heap')
    BY <1>2, ThrowToFair, PausedFair, SchedulerFair DEF Goes
  <2> QED BY <2>1, <2>2 DEF Fair, ProgramInv
<1>3. CASE \E t \in Threads : Thread(c, t)
  <2>1. PICK t \in Threads : Thread(c, t)
    BY <1>3
  <2>2. \/ \E primitive : Calls(c, t, primitive)
        \/ program' = program
    BY Zenon, <2>1 DEF Thread, TakeMVar, PutMVar, KillThread, KillSelf, SetMask, Migrate, EnterHandler, Finish
  <2>3. ProgramInv'
    BY <2>2, CallShortens DEF ProgramInv
  <2>4. CASE KillSelf(c, t)
    <3>1. program' # program
      BY <2>4, CallShortens DEF KillSelf
    <3> QED BY <2>3, <2>4, <3>1, KillSelfAccount
  <2>5. CASE ~ KillSelf(c, t)
    <3>1. Fair(heap, heap')
      BY <2>1, <2>5, MVarFair, OwnStepFair DEF Thread
    <3> QED BY <2>3, <3>1 DEF Fair
  <2> QED BY <2>4, <2>5
<1> QED BY <1>1, <1>2, <1>3

LEMMA InitAccount == ThreadsInit => Account(heap) = 0 /\ ProgramInv
<1> SUFFICES ASSUME ThreadsInit PROVE Account(heap) = 0 /\ ProgramInv
  OBVIOUS
<1>1. PICK home \in [Threads -> Capabilities], catch \in [Threads -> Catches] : ThreadsStart(home, catch)
  BY DEF ThreadsInit
<1>2. heap.balance = 0 /\ (\A t \in Threads : heap.tso[t].stack = "idle") /\ \A mv \in MVars : ~ heap.mvar[mv].full
  BY <1>1 DEF ThreadsStart
<1>3. Stack(heap, "put") = {} /\ Stack(heap, "took") = {} /\ Full(heap) = {}
  BY <1>2 DEF Stack, Full
<1>4. Account(heap) = 0
  <2>1. Cardinality({}) = 0
    BY FS_EmptySet
  <2>2. /\ Cardinality(Stack(heap, "put")) = 0 /\ Cardinality(Stack(heap, "took")) = 0
        /\ Cardinality(Full(heap)) = 0
    BY <1>3, <2>1
  <2> QED BY <1>2, <2>2 DEF Account
<1> QED BY <1>4, ThreadsAssumption DEF ThreadsInit, ProgramInv

LEMMA AccountInvariant == ThreadsSpec => [](Account(heap) = 0 /\ ProgramInv)
<1> DEFINE Good == Account(heap) = 0 /\ ProgramInv
<1>1. ThreadsInit => Good
  BY InitAccount
<1>2. IInv /\ Good /\ [ThreadsNext]_threadVars => Good'
  <2> SUFFICES ASSUME IInv, Good, [ThreadsNext]_threadVars PROVE Good'
    OBVIOUS
  <2>1. CASE UNCHANGED threadVars
    BY <2>1 DEF threadVars, ProgramInv
  <2>2. CASE ThreadsNext
    BY <2>2, StepFair
  <2> QED BY <2>1, <2>2
<1> QED BY <1>1, <1>2, IInvInvariant, PTL DEF ThreadsSpec

LEMMA AccountsKept == IInv /\ Account(heap) = 0 => ValuesKept
<1> SUFFICES ASSUME IInv, Account(heap) = 0 PROVE ValuesKept
  OBVIOUS
<1>1. heap.balance \in Int
  BY DEF IInv, Inv, InvBut, TypeInv, Heap
<1>2. IsFiniteSet(Threads) /\ IsFiniteSet(MVars) /\ Full(heap) \subseteq MVars /\ \A s : Stack(heap, s) \subseteq Threads
  BY ThreadsAssumption DEF Full, Stack
<1>3. IsFiniteSet(Full(heap)) /\ \A s : IsFiniteSet(Stack(heap, s))
  BY <1>2, FS_Subset
<1>4. /\ Cardinality(Full(heap)) \in Int /\ Cardinality(Stack(heap, "put")) \in Int
      /\ Cardinality(Stack(heap, "took")) \in Int
  BY <1>3, FS_CardinalityType
<1>5. /\ Stacked("put") = Stack(heap, "put") /\ Stacked("took") = Stack(heap, "took")
      /\ {mv \in MVars : heap.mvar[mv].full} = Full(heap)
  BY DEF Stacked, Stack, Full
<1> DEFINE b == heap.balance
           p == Cardinality(Stack(heap, "put"))
           q == Cardinality(Stack(heap, "took"))
           n == Cardinality(Full(heap))
<1>6. b + p - q - n = 0
  BY DEF Account
<1>7. ValuesKept <=> b + p = n + q
  BY <1>5 DEF ValuesKept
<1> HIDE DEF b, p, q, n
<1>8. b \in Int /\ p \in Int /\ q \in Int /\ n \in Int
  BY <1>1, <1>4 DEF b, p, q, n
<1> QED BY <1>6, <1>7, <1>8

(* A value put into an MVar is in it, on its way to a thread whose take is  *)
(* complete, or received, once, however often the threads are interrupted. *)
THEOREM ValuesAlwaysKept == ThreadsSpec => []ValuesKept
  BY IInvInvariant, AccountInvariant, AccountsKept, PTL

(* An exception reaches a thread that masks exceptions only in an           *)
(* interruptible operation which has not been completed.                   *)
THEOREM MasksRespected == ThreadsSpec => MaskRespected
<1> DEFINE Respects ==
      \A t \in Threads :
        heap.tso[t].what = "run" /\ heap'.tso[t].what \in {"raise", "killed"} /\ program' = program =>
          \/ heap.tso[t].mask = "none"
          \/ heap.tso[t].mask = "interruptible" /\ heap.tso[t].stack \in {"taking", "putting", "throwing"}
<1>1. IInv /\ ProgramInv /\ [ThreadsNext]_threadVars => [Respects]_threadVars
  <2> SUFFICES ASSUME IInv, ProgramInv, ThreadsNext PROVE Respects
    OBVIOUS
  <2>1. program' = program => Fair(heap, heap')
    BY StepFair
  <2> QED BY <2>1 DEF Fair, Exposed
<1>2. ThreadsSpec => [](IInv /\ ProgramInv)
  BY IInvInvariant, AccountInvariant, PTL
<1>3. ThreadsSpec => [][Respects]_threadVars
  BY <1>1, <1>2, PTL DEF ThreadsSpec
<1> QED BY <1>3 DEF MaskRespected
=============================================================================
