-------------------------------- MODULE STM --------------------------------
(***************************************************************************)
(* Software transactional memory (STM.c with STM_FG_LOCKS, and the primops *)
(* that drive it).  A TVar's current_value is either its value or the      *)
(* transaction record (TRec) that holds it locked; here the thread stands  *)
(* for the one record of its nest that may be holding locks.  A thread's   *)
(* records are a stack (trecs, the innermost last), and so are the frames  *)
(* that atomically, orElse and catchSTM leave on its Haskell stack: they   *)
(* grow together and are unwound by different code.  The body of a         *)
(* transaction is any short sequence of operations.                        *)
(* seen, log and snap are history: nothing the threads do depends on them. *)
(* Not here: invariants (stmAddInvariantToCheck), the shake option and the *)
(* 32-bit wrap of num_updates, which max_commits guards.                   *)
(***************************************************************************)
EXTENDS Naturals, SequencesExt

CONSTANTS Threads, TVars, Values,
          Initial,        \* what every TVar holds at first
          Ops,            \* the operations the bodies use beside readTVar and writeTVar
          Plain,          \* threads that use none of them
          ThroughOrElse,  \* may an exception leave an orElse to be caught in the transaction?
          MaxSteps,       \* bound: operations of one attempt
          MaxDepth,       \* bound: nesting of orElse and catchSTM
          MaxCommits      \* bound: committed transactions

ASSUME STMAssumption ==
  /\ Values \cap Threads = {} /\ Initial \in Values
  /\ Ops \subseteq {"orElse", "catchSTM", "retry", "throwSTM", "preempt", "kill"}
  /\ Plain \subseteq Threads /\ ThroughOrElse \in BOOLEAN
  /\ MaxSteps \in Nat /\ MaxDepth \in Nat /\ MaxCommits \in Nat

VARIABLES value, updates, watch,                       \* the TVars
          trecs, frames, pc, op, level, idx, ok, steps,  \* each thread
          why, inbox,                                  \* why_blocked; wake-ups under way
          seen, log, snap                              \* history

tvars == <<value, updates, watch>>
sleep == <<why, inbox>>
history == <<seen, log, snap>>
scan == <<op, level, idx, ok>>
stmVars == <<tvars, trecs, frames, pc, scan, steps, sleep, history>>

---------------------------------------------------------------------------
(* Transaction records *)

NewTRec(state) == [entries |-> <<>>, state |-> state]
Entry(trec, s) == trec.entries[CHOOSE i \in DOMAIN trec.entries : trec.entries[i].tvar = s]
Has(trec, s) == \E i \in DOMAIN trec.entries : trec.entries[i].tvar = s
NewEntry(s, expected, new) == [tvar |-> s, expected |-> expected, new |-> new, num |-> 0]
IsUpdate(e) == e.expected # e.new                         \* entry_is_update

Inner(t) == Last(trecs[t])
Holders(chain, s) == {i \in DOMAIN chain : Has(chain[i], s)}
Innermost(is) == CHOOSE i \in is : \A j \in is : j <= i

\* What an abandoned record has read and no record around it knows; and the records that
\* know what it read with another value.
Unknown(outer, inner) == {i \in DOMAIN inner : Holders(outer, inner[i].tvar) = {}}
Clash(outer, inner, k) ==
  \E i \in DOMAIN inner \ Unknown(outer, inner) :
    /\ k = Innermost(Holders(outer, inner[i].tvar))
    /\ Entry(outer[k], inner[i].tvar).expected # inner[i].expected

\* merge_read_into, for all of it: the reads join the record around it, in any order (that of
\* a record's entries is the order of its chunks).
MergeReads(outer, inner) ==
  { [k \in DOMAIN outer |->
      [entries |-> outer[k].entries \o
                     (IF k = Len(outer)
                      THEN [n \in DOMAIN q |-> NewEntry(inner[q[n]].tvar, inner[q[n]].expected, inner[q[n]].expected)]
                      ELSE <<>>),
       state   |-> IF Clash(outer, inner, k) THEN "condemned" ELSE outer[k].state]] :
    q \in SetToSeqs(Unknown(outer, inner)) }

\* Mutant: the reads of an abandoned branch are forgotten.
AbortDropped(chain) == {Front(chain)}

\* stmAbortTransaction on a nested record: the enclosing one inherits what it read
Abort(chain) == MergeReads(Front(chain), Last(chain).entries)

\* merge_update_into, for the entries of a nested record that commits
MergeUpdate(chain, e) ==
  LET outer == Last(chain)
      set   == [j \in DOMAIN outer.entries |->
                 IF outer.entries[j].tvar = e.tvar THEN [outer.entries[j] EXCEPT !.new = e.new]
                 ELSE outer.entries[j]]
      clash == Has(outer, e.tvar) /\ Entry(outer, e.tvar).expected # e.expected
  IN  [chain EXCEPT ![Len(chain)] =
         [entries |-> IF Has(outer, e.tvar) THEN set
                      ELSE Append(set, NewEntry(e.tvar, e.expected, e.new)),
          state   |-> IF clash THEN "condemned" ELSE outer.state]]

---------------------------------------------------------------------------
Init ==
  /\ value = [s \in TVars |-> Initial] /\ updates = [s \in TVars |-> 0]
  /\ watch = [s \in TVars |-> {}]
  /\ trecs = [t \in Threads |-> <<>>] /\ frames = [t \in Threads |-> <<>>]
  /\ pc = [t \in Threads |-> "out"] /\ op = [t \in Threads |-> "none"]
  /\ level = [t \in Threads |-> 1] /\ idx = [t \in Threads |-> 1] /\ ok = [t \in Threads |-> TRUE]
  /\ steps = [t \in Threads |-> 0]
  /\ why = [t \in Threads |-> "not"] /\ inbox = {}
  /\ seen = [t \in Threads |-> <<>>] /\ log = <<>> /\ snap = [t \in Threads |-> FALSE]

Goto(t, l) == pc' = [pc EXCEPT ![t] = l]
\* Committed transactions, those on their way included.
Committed == Len(log)

\* The operation of STM.c is over.
Idle(t) ==
  /\ op' = [op EXCEPT ![t] = "none"] /\ level' = [level EXCEPT ![t] = 1]
  /\ idx' = [idx EXCEPT ![t] = 1] /\ ok' = [ok EXCEPT ![t] = TRUE]
  /\ snap' = [snap EXCEPT ![t] = FALSE]

\* A thread at l with these records and frames, and no operation of STM.c under way.
Reset(t, chain, stack, l) ==
  /\ trecs' = [trecs EXCEPT ![t] = chain] /\ frames' = [frames EXCEPT ![t] = stack]
  /\ seen' = [seen EXCEPT ![t] = <<>>] /\ steps' = [steps EXCEPT ![t] = 0]
  /\ Idle(t) /\ Goto(t, l)

\* stmStartTransaction(cap, NO_TREC) under an atomically frame; leaving the transaction
Restart(t) == Reset(t, <<NewTRec("active")>>, <<"atomically">>, "run")
Stop(t) == Reset(t, <<>>, <<>>, "out")

Atomically(t) ==
  /\ pc[t] = "out" /\ Committed < MaxCommits
  /\ Restart(t) /\ UNCHANGED <<tvars, sleep, log>>

---------------------------------------------------------------------------
(* The body *)

Uses(t, o) == o \in Ops /\ t \notin Plain

Step(t) ==
  /\ pc[t] = "run" /\ steps[t] < MaxSteps
  /\ steps' = [steps EXCEPT ![t] = @ + 1]
  /\ UNCHANGED <<tvars, pc, scan, sleep, log, snap>>

\* The entry an operation finds (get_entry_for), copied inwards, or a new one for what the
\* TVar holds; read_current_value spins while it is locked.
FoundEntry(t, s) ==
  LET at == Holders(trecs[t], s)
  IN  IF at # {} THEN Entry(trecs[t][Innermost(at)], s) ELSE NewEntry(s, value[s], value[s])
Readable(t, s) == Holders(trecs[t], s) = {} => value[s] \in Values
Put(t, s, e) ==
  trecs' = [trecs EXCEPT ![t][Len(trecs[t])].entries =
    IF Has(Inner(t), s) THEN [j \in DOMAIN @ |-> IF @[j].tvar = s THEN e ELSE @[j]]
    ELSE Append(@, e)]
Note(t, s) ==
  seen' = [seen EXCEPT ![t] =
    [r \in DOMAIN @ \cup {s} |-> IF r \in DOMAIN @ THEN @[r] ELSE FoundEntry(t, s).expected]]

ReadTVar(t, s) ==
  /\ Step(t) /\ Readable(t, s) /\ ~ Has(Inner(t), s)
  /\ Put(t, s, FoundEntry(t, s)) /\ Note(t, s)
  /\ UNCHANGED frames

\* Writing back what is there is, to the records, a read.
WriteTVar(t, s, v) ==
  /\ Step(t) /\ Readable(t, s) /\ v # FoundEntry(t, s).new
  /\ Put(t, s, [FoundEntry(t, s) EXCEPT !.new = v]) /\ Note(t, s)
  /\ UNCHANGED frames

\* stg_catchRetryzh, stg_catchSTMzh: a frame and a nested record in its enclosing one's state
Nest(t, frame) ==
  /\ pc[t] = "run" /\ Uses(t, frame) /\ Len(frames[t]) <= MaxDepth /\ steps[t] < MaxSteps
  /\ frames' = [frames EXCEPT ![t] = Append(@, frame)]
  /\ trecs' = [trecs EXCEPT ![t] = Append(@, NewTRec(Inner(t).state))]
  /\ UNCHANGED <<tvars, pc, scan, steps, sleep, history>>

\* stg_retryzh and findRetryFrameHelper, frame by frame.
Retry(t) ==
  /\ pc[t] = "run" /\ Uses(t, "retry") /\ Goto(t, "retry")
  /\ UNCHANGED <<tvars, trecs, frames, scan, steps, sleep, history>>

RetryFrame(t) ==
  /\ pc[t] = "retry" /\ Len(frames[t]) > 1
  /\ \E outer \in Abort(trecs[t]) :
       IF Last(frames[t]) = "orElse"
       THEN /\ trecs' = [trecs EXCEPT ![t] = Append(outer, NewTRec(Last(outer).state))]
            /\ frames' = [frames EXCEPT ![t] = Append(Front(@), "alternative")]
            /\ Goto(t, "run")
       ELSE /\ trecs' = [trecs EXCEPT ![t] = outer]
            /\ frames' = [frames EXCEPT ![t] = Front(@)]
            /\ UNCHANGED pc
  /\ UNCHANGED <<tvars, scan, steps, sleep, history>>

\* stg_raisezh and raiseExceptionHelper, which passes the frame of an orElse by.
Raise(t) ==
  /\ pc[t] = "run" /\ Uses(t, "throwSTM") /\ Goto(t, "raise")
  /\ ThroughOrElse \/ "catchSTM" \notin Range(frames[t]) \/ Last(frames[t]) = "catchSTM"
  /\ UNCHANGED <<tvars, trecs, frames, scan, steps, sleep, history>>

RaiseFrame(t) ==
  /\ pc[t] = "raise" /\ Len(frames[t]) > 1
  /\ frames' = [frames EXCEPT ![t] = Front(@)]
  /\ IF Last(frames[t]) = "catchSTM"
     THEN /\ \E outer \in Abort(trecs[t]) : trecs' = [trecs EXCEPT ![t] = outer]
          /\ Goto(t, "run")
     ELSE UNCHANGED <<trecs, pc>>
  /\ UNCHANGED <<tvars, scan, steps, sleep, history>>

---------------------------------------------------------------------------
(* validate_and_acquire_ownership, for the operation op[t] on record level[t] *)

\* Mutant: a transaction that is about to sleep locks only what it changed.
AcquireRewaitOnly(t) == op[t] \in {"rewait", "validate", "raise"}
AcquireAll(t) == op[t] \in {"wait", "rewait", "validate", "raise"}
Current(t) == trecs[t][level[t]]
Here(t) == Current(t).entries[idx[t]]
More(t) == idx[t] <= Len(Current(t).entries)

Validate(t, o, i) ==
  LET valid == trecs[t][i].state # "condemned"
  IN  /\ op' = [op EXCEPT ![t] = o] /\ level' = [level EXCEPT ![t] = i]
      /\ idx' = [idx EXCEPT ![t] = 1] /\ ok' = [ok EXCEPT ![t] = @ /\ valid]
      /\ Goto(t, IF valid THEN "lock" ELSE "revert")
Fail(t) == ok' = [ok EXCEPT ![t] = FALSE] /\ Goto(t, "revert") /\ UNCHANGED idx
Next1(t, l) == idx' = [idx EXCEPT ![t] = @ + 1] /\ Goto(t, l) /\ UNCHANGED ok

\* A frame is returned to: stmCommitNestedTransaction, or stmCommitTransaction.
Return(t) ==
  /\ pc[t] = "run" /\ Len(frames[t]) = Len(trecs[t])
  /\ Validate(t, IF Len(frames[t]) = 1 THEN "commit" ELSE "nested", Len(trecs[t]))
  /\ UNCHANGED <<tvars, trecs, frames, steps, sleep, history>>

\* A retry, or an exception, has reached the atomically frame.
AtAtomically(t) ==
  /\ pc[t] \in {"retry", "raise"} /\ Len(frames[t]) = 1
  /\ Validate(t, IF pc[t] = "retry" THEN "wait" ELSE "raise", Len(trecs[t]))
  /\ UNCHANGED <<tvars, trecs, frames, steps, sleep, history>>

\* schedulePostRunThread, after a time slice in the middle of a transaction
Preempt(t) ==
  /\ pc[t] = "run" /\ Uses(t, "preempt")
  /\ Validate(t, "validate", Len(trecs[t]))
  /\ UNCHANGED <<tvars, trecs, frames, steps, sleep, history>>

\* stg_atomically_waiting_frame: the thread was woken, and calls stmReWait.
ReWait(t) ==
  /\ pc[t] = "parked" /\ why[t] = "not"
  /\ Validate(t, "rewait", 1)
  /\ UNCHANGED <<tvars, trecs, frames, steps, sleep, history>>

\* Mutant: lock_tvar in place of cond_lock_tvar, whatever the TVar holds.
LockAnyway(t) ==
  /\ pc[t] = "lock" /\ More(t) /\ (AcquireAll(t) \/ IsUpdate(Here(t)))
  /\ value[Here(t).tvar] \in Values
  /\ value' = [value EXCEPT ![Here(t).tvar] = t] /\ Next1(t, "lock")
  /\ UNCHANGED <<updates, watch, trecs, frames, op, level, steps, sleep, history>>

\* cond_lock_tvar
Lock(t) ==
  /\ pc[t] = "lock" /\ More(t) /\ (AcquireAll(t) \/ IsUpdate(Here(t)))
  /\ IF value[Here(t).tvar] = Here(t).expected
     THEN value' = [value EXCEPT ![Here(t).tvar] = t] /\ Next1(t, "lock")
     ELSE Fail(t) /\ UNCHANGED value
  /\ UNCHANGED <<updates, watch, trecs, frames, op, level, steps, sleep, history>>

\* The read phase: the value, the version, the value again, with the TVar unlocked.
Look(t) ==
  /\ pc[t] = "lock" /\ More(t) /\ ~ (AcquireAll(t) \/ IsUpdate(Here(t)))
  /\ IF value[Here(t).tvar] = Here(t).expected
     THEN Goto(t, "sample") /\ UNCHANGED <<idx, ok>>
     ELSE Fail(t)
  /\ UNCHANGED <<tvars, trecs, frames, op, level, steps, sleep, history>>

Sample(t) ==
  /\ pc[t] = "sample" /\ Goto(t, "reread")
  /\ trecs' = [trecs EXCEPT ![t][level[t]].entries[idx[t]].num = updates[Here(t).tvar]]
  /\ UNCHANGED <<tvars, frames, scan, steps, sleep, history>>

\* Mutant: the value is not read again after the version.
RereadSkipped(t) ==
  /\ pc[t] = "reread" /\ Next1(t, "lock")
  /\ UNCHANGED <<tvars, trecs, frames, op, level, steps, sleep, history>>

Reread(t) ==
  /\ pc[t] = "reread"
  /\ IF value[Here(t).tvar] = Here(t).expected THEN Next1(t, "lock") ELSE Fail(t)
  /\ UNCHANGED <<tvars, trecs, frames, op, level, steps, sleep, history>>

\* What a TVar holds or, while it is locked, held when it was.
Under(s) ==
  IF value[s] \in Values THEN value[s]
  ELSE LET e == Entry(Current(value[s]), s)
       IN  IF pc[value[s]] = "remove" THEN e.new ELSE e.expected
Holds(trec) == \A i \in DOMAIN trec.entries :
                 Under(trec.entries[i].tvar) = trec.entries[i].expected

\* Everything is owned or sampled.  stmWait queues the thread on every TVar and parks it.
Owned(t) ==
  /\ pc[t] = "lock" /\ ~ More(t)
  /\ snap' = [snap EXCEPT ![t] = Holds(Current(t))]
  /\ CASE op[t] \in {"commit", "nested"} ->
            /\ Goto(t, "check") /\ idx' = [idx EXCEPT ![t] = 1]
            /\ UNCHANGED <<watch, why, trecs>>
       [] op[t] = "wait" ->
            /\ watch' = [s \in TVars |-> IF Has(Current(t), s) THEN watch[s] \cup {t}
                                         ELSE watch[s]]
            /\ why' = [why EXCEPT ![t] = "stm"]
            /\ trecs' = [trecs EXCEPT ![t][1].state = "waiting"]
            /\ Goto(t, "sleep") /\ UNCHANGED idx
       [] op[t] = "rewait" ->
            /\ why' = [why EXCEPT ![t] = "stm"] /\ Goto(t, "revert")
            /\ UNCHANGED <<idx, watch, trecs>>
       [] OTHER -> Goto(t, "revert") /\ UNCHANGED <<idx, watch, why, trecs>>
  /\ UNCHANGED <<value, updates, frames, op, level, ok, steps, inbox, seen, log>>

\* The thread's state is saved, and it may be woken: stmWaitUnlock.
WaitUnlock(t) ==
  /\ pc[t] = "sleep" /\ Goto(t, "revert")
  /\ UNCHANGED <<tvars, trecs, frames, scan, steps, sleep, history>>

---------------------------------------------------------------------------
(* Commit *)

Check(t) ==                                               \* check_read_only
  /\ pc[t] = "check" /\ More(t)
  /\ IF IsUpdate(Here(t)) \/ updates[Here(t).tvar] = Here(t).num
     THEN Next1(t, "check") ELSE Fail(t)
  /\ UNCHANGED <<tvars, trecs, frames, op, level, steps, sleep, history>>

Writes(t) == LET es == Range(Current(t).entries)
             IN  [s \in {e.tvar : e \in {e \in es : IsUpdate(e)}} |-> Entry(Current(t), s).new]

Checked(t) ==
  /\ pc[t] = "check" /\ ~ More(t) /\ idx' = [idx EXCEPT ![t] = 1]
  /\ IF op[t] = "commit"
     THEN log' = Append(log, [reads |-> seen[t], writes |-> Writes(t)]) /\ Goto(t, "write")
     ELSE Goto(t, "merge") /\ UNCHANGED log
  /\ UNCHANGED <<tvars, trecs, frames, op, level, ok, steps, sleep, seen, snap>>

ToWrite(t) == {i \in DOMAIN Current(t).entries : i >= idx[t] /\ IsUpdate(Current(t).entries[i])}

\* unpark_waiters_on, then the version.  A wake-up goes by message, or at once.
Waiters(s) == {u \in watch[s] : why[u] = "stm"}
Bump(t) ==
  /\ pc[t] = "write"
  /\ \E i \in ToWrite(t) :
       /\ \A j \in ToWrite(t) : i <= j
       /\ LET s == Current(t).entries[i].tvar
          IN  inbox' = inbox \cup Waiters(s) /\ updates' = [updates EXCEPT ![s] = @ + 1]
       /\ idx' = [idx EXCEPT ![t] = i]
  /\ Goto(t, "store")
  /\ UNCHANGED <<value, watch, trecs, frames, op, level, ok, steps, why, history>>

Store(t) ==                                               \* unlock_tvar
  /\ pc[t] = "store" /\ Next1(t, "write")
  /\ value' = [value EXCEPT ![Here(t).tvar] = Here(t).new]
  /\ UNCHANGED <<updates, watch, trecs, frames, op, level, steps, sleep, history>>

Written(t) ==
  /\ pc[t] = "write" /\ ToWrite(t) = {}
  /\ Stop(t) /\ UNCHANGED <<tvars, sleep, log>>

\* The entries of a nested record join the enclosing one, each unlocked first.
Merge(t) ==
  /\ pc[t] = "merge" /\ More(t) /\ Next1(t, "merge")
  /\ value' = [value EXCEPT ![Here(t).tvar] = IF IsUpdate(Here(t)) THEN Here(t).expected ELSE @]
  /\ trecs' = [trecs EXCEPT ![t] = Append(MergeUpdate(Front(@), Here(t)), Last(@))]
  /\ UNCHANGED <<updates, watch, frames, op, level, steps, sleep, history>>

Merged(t) ==
  /\ pc[t] = "merge" /\ ~ More(t) /\ Goto(t, "run")
  /\ trecs' = [trecs EXCEPT ![t] = Front(@)]
  /\ frames' = [frames EXCEPT ![t] = Front(@)]
  /\ Idle(t)
  /\ UNCHANGED <<tvars, steps, sleep, seen, log>>

---------------------------------------------------------------------------
(* revert_ownership, and what follows it *)

\* Mutant: only the TVars that were to be changed are released, as after a commit.
OwningUpdates(t) == {i \in DOMAIN Current(t).entries :
                       /\ value[Current(t).entries[i].tvar] = t
                       /\ IsUpdate(Current(t).entries[i])}

Owning(t) == {i \in DOMAIN Current(t).entries :
                /\ value[Current(t).entries[i].tvar] = t
                /\ AcquireAll(t) \/ IsUpdate(Current(t).entries[i])}

Revert(t) ==
  /\ pc[t] = "revert"
  /\ \E i \in Owning(t) :
       /\ \A j \in Owning(t) : i <= j
       /\ value' = [value EXCEPT ![Current(t).entries[i].tvar] = Current(t).entries[i].expected]
  /\ UNCHANGED <<updates, watch, trecs, frames, pc, scan, steps, sleep, history>>

Reverted(t, o) == pc[t] = "revert" /\ op[t] = o /\ Owning(t) = {}

\* An invalid commit, or wait, starts again; a nested one re-executes its own frame.
Invalid(t) ==
  /\ \E o \in {"commit", "wait"} : Reverted(t, o) /\ ~ ok[t]
  /\ Restart(t) /\ UNCHANGED <<tvars, sleep, log>>

\* Mutant: the frame re-executes in its enclosing record.
InvalidNestedBare(t) ==
  /\ Reverted(t, "nested")
  /\ trecs' = [trecs EXCEPT ![t] = Front(@)]
  /\ Idle(t) /\ Goto(t, "run")
  /\ UNCHANGED <<tvars, frames, steps, sleep, seen, log>>

InvalidNested(t) ==
  /\ Reverted(t, "nested")
  /\ LET outer == Front(trecs[t])
         kept  == {s \in DOMAIN seen[t] : Holders(outer, s) # {}}
     IN  /\ trecs' = [trecs EXCEPT ![t] = Append(outer, NewTRec(Last(outer).state))]
         /\ seen' = [seen EXCEPT ![t] = [s \in kept |-> @[s]]]
  /\ Idle(t) /\ Goto(t, "run")
  /\ UNCHANGED <<tvars, frames, steps, sleep, log>>

Asleep(t) ==
  /\ Reverted(t, "wait") \/ Reverted(t, "rewait")
  /\ ok[t] /\ Idle(t) /\ Goto(t, "parked")
  /\ UNCHANGED <<tvars, trecs, frames, steps, sleep, seen, log>>

StopWaiting(t) ==
  /\ Reverted(t, "rewait") /\ ~ ok[t]
  /\ Goto(t, "remove") /\ idx' = [idx EXCEPT ![t] = 1]
  /\ UNCHANGED <<tvars, trecs, frames, op, level, ok, steps, sleep, history>>

\* stmValidateNestOfTransactions goes on outwards.
NextLevel(t) ==
  /\ Reverted(t, "validate") \/ Reverted(t, "raise")
  /\ level[t] > 1 /\ Validate(t, op[t], level[t] - 1)
  /\ UNCHANGED <<tvars, trecs, frames, steps, sleep, history>>

\* A doomed transaction is stripped back to its atomically frame, condemned.
Validated(t) ==
  /\ Reverted(t, "validate") /\ level[t] = 1
  /\ IF ok[t]
     THEN Goto(t, "run") /\ Idle(t) /\ UNCHANGED <<trecs, frames>>
     ELSE /\ trecs' = [trecs EXCEPT ![t] = <<[Head(@) EXCEPT !.state = "condemned"]>>]
          /\ frames' = [frames EXCEPT ![t] = <<"atomically">>]
          /\ op' = [op EXCEPT ![t] = "commit"]
          /\ UNCHANGED <<pc, idx, level, ok, snap>>
  /\ UNCHANGED <<tvars, steps, sleep, seen, log>>

\* An exception leaves the transaction if its view is valid; otherwise it starts again.
Raised(t) ==
  /\ Reverted(t, "raise") /\ level[t] = 1
  /\ IF ok[t] THEN Stop(t) ELSE Restart(t)
  /\ UNCHANGED <<tvars, sleep, log>>

---------------------------------------------------------------------------
(* Wake-ups, and leaving the watch queues *)

Deliver(t) ==                                             \* MSG_TRY_WAKEUP
  /\ t \in inbox /\ pc[t] \in {"parked", "run", "out"}
  /\ inbox' = inbox \ {t} /\ why' = [why EXCEPT ![t] = "not"]
  /\ UNCHANGED <<tvars, trecs, frames, pc, scan, steps, history>>

\* remove_watch_queue_entries_for_trec: what the TVar held is kept in the entry while the
\* queue is changed.
LockWatch(t) ==
  /\ pc[t] = "remove" /\ More(t) /\ value[Here(t).tvar] \in Values
  /\ trecs' = [trecs EXCEPT ![t][1].entries[idx[t]].new = value[Here(t).tvar]]
  /\ value' = [value EXCEPT ![Here(t).tvar] = t]
  /\ UNCHANGED <<updates, watch, frames, pc, scan, steps, sleep, history>>

Unwatch(t) ==
  /\ pc[t] = "remove" /\ More(t) /\ value[Here(t).tvar] = t
  /\ value' = [value EXCEPT ![Here(t).tvar] = Here(t).new]
  /\ watch' = [watch EXCEPT ![Here(t).tvar] = @ \ {t}]
  /\ Next1(t, "remove")
  /\ UNCHANGED <<updates, trecs, frames, op, level, steps, sleep, history>>

Removed(t) ==
  /\ pc[t] = "remove" /\ ~ More(t)
  /\ IF op[t] = "kill" THEN Stop(t) ELSE Restart(t)
  /\ UNCHANGED <<tvars, sleep, log>>

\* raiseAsync freezes the transaction of a thread that is not in the middle of an operation:
\* a parked one is first removed from where it waits.
Freeze(t) ==
  /\ Uses(t, "kill")
  /\ IF pc[t] = "parked"
     THEN /\ why' = [why EXCEPT ![t] = "not"]
          /\ Goto(t, "remove") /\ op' = [op EXCEPT ![t] = "kill"]
          /\ idx' = [idx EXCEPT ![t] = 1]
          /\ UNCHANGED <<trecs, frames, level, ok, steps, seen, snap>>
     ELSE pc[t] = "run" /\ Stop(t) /\ UNCHANGED why
  /\ UNCHANGED <<tvars, inbox, log>>

ThreadNext(t) ==
  \/ Atomically(t) \/ Retry(t) \/ RetryFrame(t) \/ Raise(t) \/ RaiseFrame(t)
  \/ \E s \in TVars : ReadTVar(t, s) \/ \E v \in Values : WriteTVar(t, s, v)
  \/ \E f \in {"orElse", "catchSTM"} : Nest(t, f)
  \/ Return(t) \/ AtAtomically(t) \/ Preempt(t) \/ ReWait(t)
  \/ Lock(t) \/ Look(t) \/ Sample(t) \/ Reread(t) \/ Owned(t) \/ WaitUnlock(t)
  \/ Check(t) \/ Checked(t) \/ Bump(t) \/ Store(t) \/ Written(t) \/ Merge(t) \/ Merged(t)
  \/ Revert(t) \/ Invalid(t) \/ InvalidNested(t) \/ Asleep(t) \/ StopWaiting(t)
  \/ NextLevel(t) \/ Validated(t) \/ Raised(t)
  \/ Deliver(t) \/ LockWatch(t) \/ Unwatch(t) \/ Removed(t) \/ Freeze(t)
Next == \E t \in Threads : ThreadNext(t)
Spec == Init /\ [][Next]_stmVars

---------------------------------------------------------------------------
(* Properties *)

\* Every TVar holds a value or the mark of one of the threads, every record is well formed.
TypeOK ==
  /\ value \in [TVars -> Values \cup Threads] /\ updates \in [TVars -> Nat]
  /\ watch \in [TVars -> SUBSET Threads] /\ inbox \subseteq Threads
  /\ why \in [Threads -> {"not", "stm"}] /\ ok \in [Threads -> BOOLEAN]
  /\ \A t \in Threads : \A i \in DOMAIN trecs[t] :
       LET es == trecs[t][i].entries
       IN  /\ trecs[t][i].state \in {"active", "condemned", "waiting"}
           /\ \A j \in DOMAIN es : /\ es[j].tvar \in TVars
                                   /\ es[j].expected \in Values /\ es[j].new \in Values
           /\ \A j, k \in DOMAIN es : es[j].tvar = es[k].tvar => j = k

\* A commit passes check_read_only only if, when everything was owned or sampled, all the
\* TVars it used held, or held beneath their locks, what it expects of them (the comments
\* before check_read_only and in stmCommitTransaction).
Snapshot == \A t \in Threads : pc[t] \in {"write", "store", "merge"} => snap[t]

\* A transaction that commits or sleeps still knows every TVar it read, with the value it
\* read, also those read in a branch that was abandoned (stmAbortTransaction merges them).
ReadsKept ==
  \A t \in Threads : op[t] # "nested" /\ pc[t] \in {"write", "store", "sleep", "parked"} =>
    \A s \in DOMAIN seen[t] :
      Has(trecs[t][1], s) /\ Entry(trecs[t][1], s).expected = seen[t][s]

\* No wake-up is lost: a sleeper for which no message is under way waits for TVars that are
\* all as it saw them (stmWait keeps its locks until the thread can be woken).
NoLostRetry ==
  \A t \in Threads : pc[t] = "parked" /\ why[t] = "stm" /\ t \notin inbox => Holds(trecs[t][1])

\* A sleeper is on the watch queue of every TVar it waits for, and a thread that has stopped
\* waiting is on none.
Watched ==
  \A t \in Threads, s \in TVars :
    /\ pc[t] = "parked" => (t \in watch[s] <=> Has(trecs[t][1], s))
    /\ pc[t] \in {"run", "out"} => t \notin watch[s]

\* What a retry relies on: a sleeper watches what it has read, and is woken when that changes.
SleepersWatch == Watched /\ NoLostRetry

\* No lock outlives the operation that took it, whichever way it ended.
NoLockLeft ==
  \A t \in Threads, s \in TVars : value[s] = t => pc[t] \notin {"run", "out", "parked", "retry", "raise"}

\* The committed transactions in an order that explains all they read.
Replay(order) ==
  FoldLeft(LAMBDA m, i :
             [mem |-> log[i].writes @@ m.mem,
              fits |-> m.fits /\ \A s \in DOMAIN log[i].reads : m.mem[s] = log[i].reads[s]],
           [mem |-> [s \in TVars |-> Initial], fits |-> TRUE], order)
Explained == \E order \in SetToSeqs(DOMAIN log) : Replay(order).fits

\* Transactions that update every TVar they use are serializable: they own them all at once.
UpdatesSerial == (\A i \in DOMAIN log : DOMAIN log[i].reads = DOMAIN log[i].writes) => Explained

\* Committed transactions, read-only TVars included, happen as if one after the other.
Serializable == Explained

\* The frames of a running transaction and its records match, so that what a frame returns
\* to is the record it was pushed with.
FramesMatch == \A t \in Threads : pc[t] = "run" => Len(frames[t]) = Len(trecs[t])
=============================================================================
