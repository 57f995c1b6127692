# Verification of HOS

HOS is an operating system whose kernel is a Haskell program: a second-stage boot
loader written for it (`hos-boot/`) and GHC's runtime system (`kernel/rts/`), which is to
be turned into the kernel's foundation. This directory holds TLA+ models of their core
logic, the TLC instances that check them, and TLAPS proofs about them.

Paths below are relative to the repository. The threaded build of the runtime
(`THREADED_RTS`) is the one modelled: it is the one with something to get wrong.

## 1. Inventory

| Component | State | Operations | Hard behaviour | What makes it correct |
|---|---|---|---|---|
| **Second-stage loader** `hos-boot/src/x86_64/bootstrap.c`, `boot.S` | multiboot record, chosen module, size estimate, reserved range, page tables | `initMultiboot64` and its stages | two loops that must agree (estimate and mapping), 32-bit variables for 64-bit values, awkward memory maps | never uses memory it did not reserve or that is not free; the address space is what the ELF headers say |
| **Loader library** `hos-boot/src/common`, `i386/terminal.c` | option list, cursor | `parse_options`, `formatint`, `terminal_putc` | boundary digits, end of line and screen | values printed and parsed as written |
| **Work-stealing deque** `WSDeque.c` | `top`, `bottom`, `topBound`, `elements` | push, pop (owner), steal (anyone) | unsynchronised reads and writes, one CAS | nothing handed out twice, refused only when full |
| **Spark pools** `Sparks.c` | one deque per Capability, counters | `newSpark`, `findSpark`, prune at a collection | compaction in place around the end of the array | sparks are conserved over the counters |
| **Capabilities and Tasks** `Capability.c`, `Task.c` | `running_task`, `returning_tasks`, `spare_workers`, `inbox`, `task->cap`, `task->wakeup` | acquire, release, yield, wait for return, grab | locks dropped between a look and an action, sticky wake-up flags, migration of sleeping Tasks | one owner each, no Task in the wrong queue, no lost wake-up |
| **Scheduler** `Schedule.c` | run queues, suspended calls, `pending_sync`, `sched_state` | the loop of `schedule()`, work pushing, safe calls, stopping the world, fork | everything above at once, and competing collections | every thread in one place, bound threads meet their Tasks, the world really stops, and goes on |
| **Messages, black holes** `Messages.c`, `Threads.c`, `ThreadPaused.c` | inboxes, blocking queues, thunk headers | wake-up, throw-to and black-hole messages, `updateThunk` | messages forwarded after a thread that moves | every blocked thread is woken by the update it waits for |
| **MVars** `PrimOps.cmm` | value, queue of blocked threads | take, put, try | hand-over to a thread of another Capability | values neither lost nor duplicated, first come first served |
| **Asynchronous exceptions** `RaiseAsync.c` | blocked-exception queues, message locks | `throwTo`, `throwToMsg` | two threads throwing to each other | each exception raised once, no deadlock |
| **STM** `STM.c` | TVars, transaction records, watch queues | read, write, commit, retry | validation without locks, nested records | commits are atomic, a waiting transaction is woken |
| **Timer** `Timer.c`, `posix/Itimer.c` | `recent_activity`, `timer_disabled` | tick, start, stop | signal against scheduler | the timer runs exactly while it is needed |
| **Block allocator** `sm/BlockAlloc.c`, `MBlock.c` | free lists by size, block descriptors | allocate, free, coalesce | neighbours found by marks | no overlap, nothing lost, maximal coalescing |
| **Collector coordination** `sm/GC.c` | thread states, `gc_running_threads` | rendezvous, `scavenge_until_all_done` | termination detection | nobody stops with work left |
| **Weak pointers, stable pointers** `MarkWeak.c`, `Weak.c`, `Stable.c` | lists, tables with free lists | traverse, finalize, look up, enlarge | several phases, tables that move | each finalizer scheduled once; stable names stay |
| **Hash tables, file locks, arenas, globals** | linear-hash segments, reader counts | insert, remove, expand; lock, unlock | split pointer, boundary sizes | behaves like a map; one writer or many readers |
| **Start-up and shutdown** `RtsStartup.c`, `RtsAPI.c` | `hs_init_count`, `sched_state` | init, exit, call-ins | callers arriving during shutdown | nested init and exit balance |
| Storage manager (copying), linker, interpreter, profiling, tracing, flags, `win32/`, `parallel/`, front panel, build files | | | | not modelled, see section 8 |

How they interact: program threads enter through `RtsAPI.c`, which makes them Tasks and
waits for a Capability. The Task that owns a Capability runs Haskell threads from its run
queue. Compiled code calls the primitives (MVar, STM, par, throwTo), which wake or
interrupt threads of other Capabilities by messages to an inbox. A safe foreign call
releases the Capability. A collection or a fork sets `pending_sync` and collects every
Capability. Sparks move between Capabilities through the deques, which the parallel
collector uses too. `PROJECT.json` lists the hazards, each at its line, with the properties that cover it.

## 2. Modules

| Module | Models | Lines up with |
|---|---|---|
| `WorkPool` | what a work-stealing deque promises: a bounded double-ended queue with atomic operations | abstract |
| `WSDeque` | `WSDeque.c`, one step per access to a shared field | implements `WorkPool` |
| `WSDequeProofs` | theorems for every size, set of thieves and set of items | |
| `Bootstrap` | the loader from the multiboot record to the jump | `bootstrap.c`, `boot.S`, `options.c` |
| `BootstrapProofs` | the page estimate always suffices; what is reserved is free, for any memory map | |
| `Capability` | ownership of Capabilities and the sleep and wake-up of Tasks | `Capability.c`, `Task.c` |
| `Schedule` | the scheduler loop over `Capability` | `Schedule.c`, `Threads.c`, `Messages.c`, `RtsAPI.c` |
| `ScheduleProofs` | the scheduler's inductive invariant, lemmas about queues, homes and releases, one lemma for each action, and the theorems, for any number of Capabilities, Tasks and threads | |
| `STM` | transactions, their stack frames, wake-up and validation | `STM.c`, the STM primitives of `PrimOps.cmm`, `Exception.cmm` |
| `STMProofs` | locks, snapshots, sleepers and frames, for any number of threads and TVars and nests of any depth | |
| `Threads` | MVars, `throwTo`, masks and the messages between Capabilities | `PrimOps.cmm`, `Exception.cmm`, `RaiseAsync.c`, `Messages.c`, `HeapStackCheck.cmm` |
| `ThreadsProofs` | values, wake-ups, exceptions, masks and locks, for any number of Capabilities, threads, MVars and calls and any programs | |
| `BlackHole` | thunks shared between Capabilities: claim, wait, update, freeze | `ThreadPaused.c`, `Messages.c`, `Threads.c`, `Updates.cmm`, `RaiseAsync.c` |
| `GCThreads` | the rendezvous and the termination of a parallel collection | `sm/GC.c`, `sm/GCUtils.c`, `sm/Scav.c`, `scheduleDoGC` |
| `GCThreadsProofs` | everything is scavenged and the world stands still, for any number of Capabilities | |
| `BlockAlloc` | block groups, found by their descriptors alone | `sm/BlockAlloc.c`, `allocNursery` |
| `Sparks` | the spark pools: made, stolen, pruned in place | `Sparks.c`, `findSpark`, `checkSparkCountInvariant` |
| `SparksProofs` | nothing is lost by stealing and compacting, for any number of Capabilities and any size of the pools | |
| `Timer` | `recent_activity` between the timer signal and the scheduler, starting and stopping the timer | `Timer.c`, `posix/Itimer.c`, `schedule`, `scheduleDoGC`, `forkProcess` |
| `TimerProofs` | the timer is on wherever Haskell code runs, for any number of Capabilities | |
| `MCSchedule`, `MCWSDeque`, `MCSTM` | instances of one module | |
| `MCScheduleGC` | `MCSchedule` and `Sparks`: how a collection begins, what it does to the pools | `explored` says which |
| `MCThreads` | `Threads` and `BlackHole`: what threads wait for | the two share no variable; `waitFor` says which is explored |
| `MCBootstrap`, `MCMemory` | the loader's records; the loader, then `GCThreads`, `BlockAlloc` or `Timer` | `part` says which is explored after the boot |

**WSDeque.** `top`, `bottom`, `topBound` and `elements` are the fields of `struct WSDeque_`;
`opc`, `ot`, `pushing` are where the owner is and its locals, `tpc`, `st`, `stolen` the same for
each thief; `pushed` and `takes` are history. Every access to a field that another thread
may touch is its own step, in the order the barriers impose, so sequential consistency is
what the barriers of the code provide and not an extra assumption about the processor.
The indices are unbounded integers, as the comment at the top of the file assumes.
The mapping to `WorkPool` reads the queue off the window between `top` and `bottom`; while
the owner is inside a pop the element it has reserved still counts as held, because a thief
may win it.

**Bootstrap.** A record of the multiboot information is chosen in `Init`; then each stage of
`initMultiboot64` is an action, and the two loops over ELF sections advance by one section or
one page. Addresses are counted in a unit smaller than a page, and the widths scale with the
page and the table size: with `PAGE = 2` and `ENTRIES = 4` a page directory maps 32 units
(`ONE_GIGABYTE`) and a `uint32_t` counts 128 (4 GB). Assignments to 32-bit variables are taken
modulo that. `tables` holds the page tables as the processor will read them, and
`TranslationCorrect` walks them.

**Capability and Schedule.** One value of `pc[t]` per place at which a Task can be overtaken. Each
region under `cap->lock`, each region under `task->lock` outside one, and each unlocked
read of shared state is one step; stretches that only touch what the owner of a
Capability may touch are one step as well. `Release` is `releaseCapability_`: it is always a
part of the action that calls it and works on the queues as that action leaves them. `cap` is
the local variable of the code, `want` the Capability it is about to lock, `tcap` the shared
`task->cap`. A bound thread has the name of its Task. `schedulePushWork` deals out one thread at a time (`PushGive`, `PushKeep`);
between its stores to `t->bound->task->cap` and to `t->cap` (`PushHome`) the other Tasks run, and a wake-up may still be sent to
the Capability the thread has left. What Haskell code does is a choice at
each step among the things the runtime can see: finish, yield, block, wake a thread, run out of
heap, call out, fork.

**STM.** A transaction record is its entries; a thread's stack is the frames that matter (`ATOMICALLY`,
`CATCH_RETRY`, `CATCH_STM`, a handler), and the actions are the frames' code with the C functions they
call. Validation takes a lock per step and reads value, version and value in three; the global lock of
other builds is not used. `num_updates` counts without wrapping. The reads of an abandoned branch join the record around
it in any order (`MergeReads`), where the code follows its chunks: nothing may depend on where an entry stands.

**Threads.** `heap` holds threads, messages, MVars and inboxes; `pc[c]`, `curTso` and `curMsg` say where each
Capability is, and `batch` is the part of its inbox it has taken. What an operation does between
locking and unlocking an MVar or a message is one step; the lock that a blocking operation leaves behind
for `stg_block_…_finally` to give back is state. `program` is what each thread will do: scripts
of takes, puts, throws, mask changes and moves.

**BlackHole.** Each step reads or writes one word of a thunk, its `info` or its `indirectee`. A thread is a
stack of update frames, marked or not, and the thunk it is about to enter. Which thunks the code needs is
a choice, in an order without loops. A message is a slot that is reused when nothing refers to it,
so a stale reference to one would show.

**GCThreads.** `gct[i]` is the `gc_thread`, with the two spin locks, `wakeup` and `idle`, and where the Task that
runs it is; `cols` has `pending_sync`, `gc_running_threads` and the bounds. Objects are counted, those
in hand (`local`) and those in blocks that others may steal (`todo`).

**BlockAlloc.** A heap record holds the descriptors (`bd`), the free lists, the megablock list and the count; each
function of the code is an operator from heap to heap. A descriptor's `free` mark, size and
link keep stale values as they do in memory: what coalescing relies on is thereby checked. All of
it runs under one lock, so each operation is one action.

**Sparks.** `pools` are the deques' fields without `topBound`; a push is one step and a steal two, its reads and
its compare-and-swap, which is what `WSDeque` shows the deque to do. `finder[c]` is where `findSpark` is.
`pruning.at[c]` has the indices of `pruneSparkQueue`, and `before` and `kept`, which follow what should become of
the elements whatever the array holds. What tracing reaches is a choice; it grows while the
collectors that have done their share prune already. Counters are summed, as the check does it.

**Timer.** `at[a]` is where each Capability's Task, and the signal handler, is between its reads and writes of
`recent_activity`, and between the counter and the ticker in `startTimer` and `stopTimer`. The rendezvous that stops the world
is a guard (`StopWorld`); the threads are the freedom to run, return, fill the heap, or ask for a collection or a fork.
A Task with nothing to run goes to sleep and does not look at `recent_activity` by itself. What wakes one when the delay is over is
`wakeUpRts` (`WakeUpRts`): a byte in the pipe (`pipe`) on which the I/O manager waits in a foreign call, whose return brings a Task to
a Capability. The I/O manager is Haskell code of `base`, outside the repository: here it reads its pipe and waits again. It is
assumed to have called `setIOManagerWakeupFd`; before that `ioManagerWakeup` (`posix/Signals.c:150`) does nothing.

## 3. What the runs check

| Run | Instance | Question and result |
|---|---|---|
| `wsdeque` | 4 slots (3 elements), 5 items offered in order, one discard after the third, 2 thieves, no symmetry | Items are handed out at most once, in the order of the abstract pool (`ImplementsWorkPool`); a thief whose CAS will succeed holds the front (`ThiefHoldsFront`); the assertions of the code hold; a steal ends. The array wraps and slots are reused while thieves hold old indices; the owner pops both the last element and, without a CAS, one of several. |
| `memory` | 10 images × 7 module lists × 7 memory maps, 5 command lines; 3 Capabilities; 3 megablocks of 4 blocks; 2 Capabilities and a timer | Loader: the pages taken never exceed the estimate, the reserved memory is free and holds no module, the tables translate every section as its header says and nothing else, the loader ends. Collector: when the leader looks at the weak pointers nothing is left to scavenge (`FullyScavenged`); nobody mutates during a collection and nobody stays behind (`Rendezvous`). Allocator: every block is in one group, and every free group is found from both sides (`HeapTiled`). Timer: it is on, or being started, wherever Haskell code runs (`PreemptionOn`), and when nothing of the program runs an idle collection looks for deadlocks, although everybody sleeps (`DeadlockFound`). |
| `gc_release` | 3 Capabilities, one disabled, 2 collections | A disagreement, section 7. |
| `sched_bound` | 2 callers whose threads yield, block and are migrated; spurious wake-ups | `TasksInPlace` (`OwnersAgree` and `QueuedRight`), `BoundTaskFound`. |
| `sched_wake` | 1 caller, 1 pinned thread; late and repeated wake-ups; spurious wake-ups | `EveryThreadOnce`, `NoLostWakeup`. |
| `sched_call` | 1 caller, 1 unbound thread, both making safe calls; 5 workers | `FewWorkers`, `RunsAtHome`. |
| `sched_gc` | 1 caller that evaluates or forks, 1 unbound thread, collections at any time, room for one spare worker; or two pools of 4 slots, a heap thunk and a static one, 4 calls of par | `WorldStopped`; no spark is lost or counted twice (`SparksCounted`), and compacting a pool in place keeps exactly what should stay, in order (`PrunedRight`). |
| `sched_live` | 1 caller, collections, fairness | `SyncEnds`, `ReturnServed`. |
| `sched_hang` | 2 callers that only ask for a collection | A disagreement, section 7. |
| `stm` | a thread that nests, retries, throws, is preempted and killed, against one that reads and writes; 2 TVars | What a commit relies on held at one instant (`Snapshot`), an abandoned branch's reads are still validated (`ReadsKept`), a sleeper waits for all it has read and is woken (`SleepersWatch`), locks and watch-queue entries are given back (`NoLockLeft`), transactions that update are serializable (`UpdatesSerial`), frames and records match (`FramesMatch`). |
| `stm_skew` | two transactions that each read what the other writes | A disagreement, section 7. |
| `threads` | 3 threads, 2 Capabilities; 1 MVar and 2 messages, or 2 thunks | MVars and exceptions: values are neither lost nor doubled, whoever is blocked is in the queue he will be woken from and is woken (`BlockedAreFound`), exceptions are not forgotten, `throwTo` says the truth, locks are given back once, no two Capabilities spin on each other, masks are respected. Thunks: a black hole has an owner that will update it (`BlackHolesOwned`); nobody waits in vain (`NobodyWaitsInVain`). |

Why the properties are worth a run:

- `OwnersAgree` ties the shared field `running_task` to where the code of every Task is. It is the
  assumption under which the whole runtime touches run queues and nurseries without locks.
- `NoLostWakeup` is the comment in `scheduleProcessInbox` that a Capability must never go idle with a
  full inbox, extended to run queues and returning Tasks: somebody is on the way to it.
- `BoundTaskFound` says a bound thread is only queued where its Task will be found, which
  work pushing must preserve with two separate assignments: other Tasks take their steps between the two, and
  the mutant that forgets the Task's half is found. `RunsAtHome` is where the thread's half shows.
- `QueuedRight` says a Task sleeps in exactly the queue of the Capability its `task->cap` names.
- `EveryThreadOnce` says wake-ups may be late or repeated and still no thread is lost or doubled.
- `WorldStopped` says that while one Task believes it has stopped the world no other is past the
  point where it may run Haskell code.
- `ThrowToHonest` says a thread that is told its exception was raised had it raised, once, although the message may
  be revoked, forwarded, queued, and executed by any Capability in between; `NoSpinningRing` that the
  order of addresses really prevents two throwers from waiting for each other's message.
- `BlackHolesOwned` and `NobodyWaitsInVain` are the two halves of lazy black-holing. A thunk is claimed only
  when its evaluator is paused, so two threads may evaluate it; whichever is suspended, killed or
  overtaken, the thunk must stay with somebody, and the queue of the loser must be found by `checkBlockingQueues`.
- `FullyScavenged` quotes a comment of `GarbageCollect`. A collector thread stops when it sees no work, while others may
  still produce some and the counter may reach zero at any look.
- `PrunedRight` compares the pool with a copy that is filtered as a sequence, so an index that is wrapped wrongly, or a
  survivor written over an element not yet read, would show. `SparksCounted` is `checkSparkCountInvariant`, asked at
  every moment at which no pool is being compacted and not only after a collection.
- `PreemptionOn` is what makes a thread that never blocks yield. The tick handler stores into `recent_activity` what it made
  of an older value, and so does the scheduler; the counter and the ticker are changed in two steps.
- `DeadlockFound` depends on the one call that nobody would miss while anything still runs: without `wakeUpRts` all Tasks sleep, and
  `recent_activity` says `ACTIVITY_INACTIVE` to nobody. That call is its mutant.
- `HeapTiled` includes what `checkFreeListSanity` checks, and that no block is lost or given out twice.

## 4. Bounds, and why they are enough

- *Two Capabilities.* Every protocol here is between a Capability and one other: home and target
  of a migration, own and grabbed, sender and receiver. With three the loops only get longer.
- *Three workers* are more than ever run at once without foreign calls, so no release lacks one;
  with calls five are given, and the fifth is never used (`FewWorkers`).
- *Threads*: two make every race of the run queues possible (one running, one queued or away).
- *One wake-up per thread under way* (the guard of `Wake`) bounds the inboxes. Repeated wake-ups
  still occur: the thread may have been woken or moved between sending and delivery.
- The runs split the things threads do, because all of them together have too many states; the
  combination of calls and collections was also explored once, in 3.5 million states, without error.
- *Symmetry* is over workers, which are interchangeable in `Init` and in every action, and is
  used only where no liveness is checked.
- `CHECK_DEADLOCK FALSE` in the scheduler's runs: a program all of whose threads are blocked, or
  that has returned from its calls for good, stops. Stops that should not happen are what
  `NoLostWakeup`, `SyncEnds` and `CollectionReturns` are about.
- *Deque*: four slots hold three elements, so that front and back differ, an order can be observed, and an owner's pop finds
  none, one, or more than one left. With five items the index wraps and the first slot is used again while a thief may still hold an older
  index. Two thieves can race each other and the owner. Items are offered in order, as they differ by nothing but their identity,
  and the owner discards once at most, when three have been offered. The proofs lift every bound.
- *Loader*: the images include one that needs exactly the pages estimated, one of exactly one
  gigabyte and one a page larger, sections that share page tables, sections that are not loaded, and an
  unaligned one; the maps have regions that end or begin inside a page, reserved regions, one too long for an `int`, and one above 4 GB.
- *STM*: two threads and two TVars: write skew, torn reads and the order of locks need no more.
- *Threads*: three threads make a thrower, a target and a bystander, or two throwers to one target; up to four operations
  in all, five when a masked script is among them. Two messages: a third thrower repeats the second.
- *BlackHole*: three threads (two evaluators and a waiter), two thunks of which the first may need the
  second; two preemptions, or one with a move or a kill. Two moves and a preemption were also explored, without error.
- *GCThreads*: three Capabilities are the fewest with two threads to race while a third stops. Two collections
  when all take part; one with a disabled Capability, because of the disagreement `gc_release` shows.
  Up to two objects beside the roots (none in the second collection by all), and one round of weak pointers.
- *BlockAlloc*: blocks of four to a megablock, with room for five, so sizes and addresses differ; requests of one, two and
  four blocks (a whole megablock) and six (two megablocks); three groups held at once.
- *Sparks*: two pools, one of which is robbed and the other robs, or each its own. Four slots hold three sparks, the fourth
  overflows; the pool starts at slot 3, so that it wraps at once, and survivors go around the end again. One heap thunk and one
  static one, in the pool more than once.
- *Timer*: two Capabilities, so that one is past its read of `recent_activity` while the other collects. A delay of one tick. The idle collection is on: the handler's own
  stopping of the timer (`SetDoneWithoutGC`) is reached only with it off.
- `CHECK_DEADLOCK FALSE` in `threads` and `stm`: scripts end, and blocked threads may have nobody to wake them. In `memory` the
  halted loader stutters, and `Rendezvous` says where the collectors may stop.

## 5. Fairness

- `WSDeque!FairSpec`: a thread that has started a steal keeps running. Nothing is assumed of the owner, so
  `StealEnds` holds because the items are finite, not because the race is ever won.
- `Bootstrap!FairSpec`, and `MemorySpec`: the loader, alone on the machine, keeps running. Nothing is assumed of the collector or the allocator.
  Of the timer: it fires while it is armed, the signal handler goes on, and a Task goes on that is awake in the scheduler or collects; one that sleeps
  does nothing until it is woken. The I/O manager's foreign call returns once there is a byte in its pipe, and its Task gets a Capability
  (weak fairness of `IOManagerReturns`). Strong fairness of `StopWorld`: who stops the world waits in the queues of returning Tasks, and these
  go before those that would go on. Strong fairness of `SetYesInTime`: the last tick of a delay does not for ever fall into the few instructions
  between a Task's read of `recent_activity` and its store. That is an assumption about time and not about scheduling. The code does nothing to ensure it, and
  without it TLC finds the run in which each idle period is covered by such a store. No thread of the program need come, and none need return.
- `Schedule!FairSpec`: the system schedules every OS thread that can run (weak fairness of the wait and of the loop of
  each Task), and the timer or `interruptAllCapabilities` brings a running thread back to the
  scheduler. No foreign call need return, no blocked thread need be woken, nobody need call in.
  No fairness of mutexes is assumed. That is why `ReturnServed` is claimed for one caller only: a free
  Capability may be grabbed ahead of the Tasks queued for it, and with two callers and two collectors one Task
  can be overtaken for ever.

## 6. Proofs

All proofs are checked to the leaves by TLAPS; they assume only what the constants' `ASSUME`s say.

`WSDequeProofs`, from `WSDequeAssumption` (the size is at least two, `NoItem` is no item):

- `Inductive`: `IInv` is an inductive invariant. `HandedOnce` alone is not inductive: it must be
  known that what the window holds has not been handed out (`ItemInv`), that a thief whose `t` is the
  current `top` holds the element at `top` (`ThiefInv`), and that the owner inside a pop has `bottom`
  where the value of `top` it read says (`OwnerInv`: `pop_cas` means exactly one element,
  `Back - top <= ModuloSize` means the window never laps itself). `SlotDistinct` supplies the arithmetic: two
  positions less than `Size` apart fall into different slots, the reason why one slot is left
  unused.
- `TypeCorrect`, `AtMostOnce`, `ThiefIsRight`, `AssertionsHold` follow: type correctness, `HandedOnce`,
  `ThiefHoldsFront`, `OwnerAssertions` for every array size, any number of thieves and items.
- `DequeIsWorkPool`: `ImplementsWorkPool`, the refinement. A push is the abstract one at its store to `bottom`, a pop at its read of
  `top` when more than one element is left and at its CAS for the last, a steal at its CAS, a discard at its store; all other steps
  stutter. `ThiefInv` and `SlotDistinct` make a thief's CAS take the front of the abstract queue, `OwnerInv` the owner's take its back.

`ScheduleProofs`, from `CapabilityAssumption`, `NewWorkerAssumption` and `ScheduleAssumption` (there is a Capability; callers, workers and
unbound threads are distinct; the value that says a new worker must be started is none of them): `TypesKept`, `Placed`,
`WakeUps`, `ThreadsOnce`, `BoundFound`, `AtHome`, `Stopped` are `TypeOK`, `TasksInPlace`, `NoLostWakeup`, `EveryThreadOnce`, `BoundTaskFound`,
`RunsAtHome` and `WorldStopped`, all from the one inductive invariant `IInv`:

- `OwnersAgree` and `QueueInv`: who owns each Capability, and who sleeps in which queue. They are not inductive without
  `TaskInv`, which says for each place in the code what the Task waits for (`WaitOK`), which Capabilities its loops have
  grabbed and that its own is not among them (`LoopOK`), which Tasks come for what (`RoleOK`: a worker never enters or leaves, a Task without a bound
  thread is synchronising), what thread it carries (`CurOK`), and where its bound thread is at home (`HomeOK`).
- `ThreadInv` and `MigrationInv`: where each thread is. `schedulePushWork` moves a bound thread and its sleeping Task, and it is
  `HomeOK` that finds the sleeping Task, so that the two invariants need each other.
- `DealInv`: between the two stores of `schedulePushWork` a thread is on one Capability's queue and names another in `t->cap`. `Home` is where it
  belongs, the queue it was put on, even before `t->cap` follows; the invariants speak of homes, and `DealInv` says that one Task at most moves
  a thread and that it is alive. Nobody can run it meanwhile, since the mover still holds both Capabilities.
- `NoLostWakeup`: a Capability that is free with something to do has a Task coming, one that has been told and not
  yet looked, or one that is between its look and its lock. It rests on `QueueInv`, since the one told must still be in the queue it was found in.

The proof follows the ownership discipline of the code. `Keeps(u)` is what a step of another Task leaves alone of `u`; `Others` adds
the one worker a release may start. `LocalInv`, `HeldInv` and `ReleaseInv` say when a step that touches only its own Task, only what
its Task holds, or releases a Capability keeps the invariant, so that most actions need only their own Task's part. `ReleaseServed` is the
statement about `releaseCapability_` itself: what it leaves free it has somebody told about. `Handed` is the step of `schedulePushWork` that
takes a thread from one queue to another.
All parts of `IInv` were model-checked on the instances of `sched_bound`, `sched_wake`, `sched_call`, `sched_gc` and `sched_live` first.

`BootstrapProofs`, from `BootAssumption` (section headers are of their type, the ends of modules and the bounds of regions are numbers,
pages and tables are not empty):

- `PagesSuffice`: `PageTablesFit` for every record and every table size. The sizing loop and the mapping
  loop count in different units; `IInv` keeps the prefix sums of the first (`sizeUpTo`, a history variable)
  and bounds the pages taken by the second with them: three pages for the roots, one for
  each page mapped, since each may need a page table of its own, and one more for each page of `.bss`.
- `ReservationSound`: `ReservedIsFree` for every memory map, module list and kernel size, if the modules end in the lower half of the
  32-bit addresses (`ModulesBelow2GB`). Regions above 4 GB are included. What it says of them is that the address chosen is free and holds no module,
  and that `page_table_start` is its lower half; where all memory is below 4 GB it is the address itself. `HighestInv` says that `highest_module_address` is a page boundary above every module, and
  `FitLies` that a region which is taken to fit really has the pages above it: the length stored in an `int` is then the true one,
  since what wraps comes out negative. Without the hypothesis it is false (section 7), and the proof shows that
  this is the only way.

`GCThreadsProofs`, from `GCThreadsAssumption` (the Capabilities are numbered from zero and finite in number; the
scenarios say which are disabled and how many collections there are; `Free` is nobody):

- `NothingLeft`: `FullyScavenged`, the comment "invariant is that everything is fully scavenged at this point" of
  `sm/GC.c`. `CountInv` carries the argument: the set of threads that have been woken to scavenge, scavenge or
  steal is never larger than `gc_running_threads`, so when the leader reads zero nobody holds work (`WorkInv`), and
  when it has looked at the weak pointers for the last time nobody gets any (`OverInv`). The count alone is not
  inductive. A late collector that counts itself again, or one that was counted and is still in its spin lock, must not
  be there in the next collection; `SpinInv` and `LetInv` say that the two locks and `wakeup` let each thread in once and
  out once. And a thread the leader skips must really be absent: `IdleInv` ties the idle flags to the Capabilities
  the leader holds while it waits. It claims nothing about the flags after the release begins, where `NeverBarfs` fails
  (`gc_release`), so the theorem does not depend on what that finding breaks.
- `WorldStopped`: `WorldStands`, the first conjunct of `Rendezvous`. `OneConducts` is needed because `pending_sync` is reset
  before the collection: only the Capabilities the leader holds, or whose owners are in `gcWorkerThread`, keep a second
  leader away.
- `GCTypeCorrect`: the types, and `CountInv` itself.

`SparksProofs`, from `SparksAssumption` (the Capabilities are numbered from zero and finite in number, a pool has at least two slots, which
need not be a power of two; `NoSpark` is no closure):

- `SparksKept`: `PrunedRight`. The argument is `CompactInv`, the half-way state of a loop that reads and writes the same circular array: from
  `curr` to `old` lies what is still to be looked at, from `old` to `bot` what was kept, both around the end, and together they are fewer
  than the slots. That they leave one slot is `PoolInv`, which `pushWSDeque` provides by refusing the last one; with it the write at `bot`
  hits neither part (`AroundTheEnd`), and `curr = old` at the end means that nothing is left and not that everything is. `LiveInv`
  carries it to the next collection: what survived was reached, and what was reached is not freed.
- `SparksBalance`: `SparksCounted`. `CountInv` also counts the pools that are half compacted, by what is left and what was kept. `FinderInv` is
  what makes a steal take one: a thief has read its element at or below `top`, so that the CAS succeeds only where the pool is not empty. The
  sum over the pools is the number of pairs of a pool and a position (`TokensMore`), since the prover cannot do induction over a sum.

`STMProofs`, from `STMAssumption` (values and threads are distinct; the bodies use any of the operations listed):

- `LocksReleased` and `ReadsWereASnapshot`: `NoLockLeft` and `Snapshot`, from the inductive invariant `IInv`. `LockInv` says that what a thread has
  locked is an entry it may hold at this point (`MayHold`), `OwnInv` that what it may hold it does while it acquires and commits; so giving back what `Owning` finds
  gives back everything. `ThreadInv` ties each operation to its record and to the places it may be at. `Snapshot` is not inductive: a version is sampled
  between two reads of the value, long before the check. `SampleInv` says what a version is worth (`Sampled`): if it is still that of the TVar, the
  TVar holds what was expected and nobody is between raising the version and storing. `CheckInv` turns this around: if something
  had changed when the last TVar was owned, an entry that the check has still to look at tells. That the store follows the version is what it needs, and the
  proof goes no further than the code does: nothing is said of what changes after that instant, which is where `stm_skew` finds it wanting.
- `RetriesAreWoken` and `FramesAndRecords`: `SleepersWatch` and `FramesMatch`, from `JInv`, if `ThroughOrElse` is false: no exception leaves an `orElse` to be
  caught by a `catchSTM` around it, where the code does not keep frames and records together (section 7). `SleepInv` says that a sleeper without a
  wake-up sees what it waits for, although the TVars may be locked by others: `Under` is what a lock hides. `StoreInv` is why: whoever is about to store
  has sent a wake-up to all that watch the TVar. It holds since `stmWait` keeps its locks until the thread is asleep, so that nobody
  who watches is missed (`SelfWake`). `FrameInv` adds that a `wait` has reached the outermost record, without which a sleeper would watch an inner one.
- `NoReadForgotten`: `ReadsKept`, under the same hypothesis, from `KInv`, which is `JInv` and `SeenInv`: the records of a nest agree with one another about what each TVar
  was expected to hold, and unless a commit has failed they know all that was read. What they say is taken together as one set of pairs of a TVar and a value
  (`AllReads`), whichever record says it; each function on records has a lemma about this set. That the records agree is why `merge_read_into` never meets the
  clash it looks for, and a nested commit (`MergeK`) tells the record around it one entry after the other, so that nothing is lost when its own is dropped.

The proof of a step has two halves. `Effect` is what one thread's step can do to what the others see (a TVar is locked when free and unlocked by its owner;
what is under a lock changes at a store, and after its version), and `OthersI` shows that it keeps their part; then each action has one lemma about its own thread.

`TimerProofs`, from `TimerAssumption` (the handler is no Capability, the delay is a number), with the idle collection on:

- `TimerIsOn`: `PreemptionOn` for any number of Capabilities and any delay. `FlagInv` is the handshake: what the handler or the
  scheduler has read may be stale when it stores, but never so that the store covers `ACTIVITY_DONE_GC`; that is where
  the proof needs the idle collection, and where the code without it fails (section 7). `CounterInv` accounts for
  `timer_disabled`: one for the idleness, one for a fork, and the ticker goes with it but for who is between the two;
  `AloneInv` lets only one Capability be there.
- `TimerTypeCorrect`: the types, and with them that `timer_disabled` stays between zero and two, so it never wraps.

`ThreadsProofs`, from `ThreadsAssumption` (`None` is nobody; threads and MVars are finite in number, and messages are numbered by their addresses; the
programs are sequences of primitives, one for each thread): `TypesKept`, `LocksAlwaysGivenBack`, `ThrowToAlwaysHonest`, `BlockedAlwaysFound`,
`ThrowAlwaysPending`, `NeverASpinningRing`, `ValuesAlwaysKept` and `MasksRespected` are `ThreadsTypeOK`, `LocksGivenBack`, `ThrowToHonest`, `BlockedAreFound`,
`ThrowIsPending`, `NoSpinningRing`, `ValuesKept` and the action property `MaskRespected`.

- The inductive invariant `IInv` says what a thread's `why_blocked` has left on its stack (`TsoInv`), what has become of a message and who has locked it
  (`MsgInv`), where a Capability is and what it has locked (`CapInv`, `LockInv`), who is in an MVar's queue (`QueueInv`), who has a wake-up under way
  (`WakeInv`), where a pending message is (`PendInv`), and that a thread whose message is locked by a Capability in a pause is at home there (`HereInv`).
- A handler composes several functions of the code: it interrupts a thread, gives its message back, wakes the thrower. In between the invariant does not
  hold. `InvBut` is the invariant but for the threads whose wake-up is still due and for the message that is being dealt with; each
  function has a lemma that says what it adds to or takes from these exceptions, and a handler's lemma composes them.
- `NeverASpinningRing`: a Capability in a pause spins only on one in `throwToMsg`, which does not spin on it; of those that spin on one another in
  `throwToMsg` the one with the lowest message has nobody to spin on, since `MaySpin` goes only to a lower address.
- `ValuesAlwaysKept`: `Account` is the difference of the two sides of `ValuesKept`, and each function keeps it or changes it by the
  one value that changes hands. That a thread's completed operation is not undone rests on `TsoInv`: once its link is cleared its stack says `took` or
  `put`, and `throwToMsg` does not raise an exception in a thread that is no longer linked.
- `MasksRespected`: a step raises an exception only in a thread for which `MayRaise` was true when it was read; what the code calls
  between that and the raise neither completes the thread's operation nor changes its mask (`Fair`, which every function keeps). A
  `throwTo` to oneself does ignore the mask, as `throwToSingleThreaded` does: that call takes itself off the thread's program, and the property speaks of steps that
  do not (`CallShortens` tells the two apart).

Only model-checked: everything about liveness (`SyncEnds`, `ReturnServed`, `StealEnds`, the loader's end), which is out of the prover's
reach, `FewWorkers`, whose bound would need a count of the Tasks inside foreign calls, the loader's translation, the rest of `Rendezvous` (the barfs, and where everybody stops, which uses `ENABLED`), of STM
`UpdatesSerial` (about all orders of the log), and so far black holes (`BlackHolesOwned`, `NobodyWaitsInVain`) and the
block allocator (`HeapTiled`).


## 7. Where the code disagrees with itself

| Run | Code | Documentation |
|---|---|---|
| `sched_hang` | `Schedule.c:1394`: a `performGC` that loses to another one yields, is taken for a spare worker, and is not woken when the winner is done | `Task.h:68` "This call will return when we have ownership of the Task and a Capability" |
| `stm_skew` | `STM.c:890`: a read-only entry is checked by its version only, which a committing transaction raises after its own check; two transactions that each read what the other writes both commit | `STM.c:872`: "If no udpate is seen to any TVar than all of them contained their expected values at the start of the call to check_read_only"; `STM.c:1385`: "This forms the linearization point of the commit" |
| `gc_release` | `sm/GC.c:1232`: `releaseGCThreads` reads the `idle` flags after it has let the first collector go | `Schedule.c:1575` "the gc_thread[]->idle flags are invalid as soon as we release any threads after GC" |

`sched_hang` needs two program threads that call `performGC` at once while nothing else runs. Each of
them is a Task with no bound thread, which `releaseCapabilityAndQueueWorker` cannot tell from a
worker. A collection requested by a Haskell thread does not hang: its Task leaves its thread on the run queue,
so the winner's `releaseAllCapabilities` finds work there and wakes a worker.

`gc_release` needs a disabled Capability (after `setNumCapabilities`), free when the first collection starts, and a
second collection asked for by a collector that was let go while the leader still holds the disabled one. The
second leader fails to grab it, sets its flag to false, and the first leader takes it for a participant: it barfs, or
would wait for a thread that was never there.

Seen while modelling, and not kept as runs, which are one per question:

- `boot.S:102` jumps to a constant and `kernel_entry` is never read, though `bootstrap.c:27` says "The assembler reads from here".
- `bootstrap.c:183` sums section sizes in 32 bits, so a sum of 4 GB passes the test that `bootstrap.c:199` explains by
  "The kernel is > 1GB … This is an error."
- `bootstrap.c:336` keeps a 64-bit region base in 32 bits: a free region above 4 GB, preferred because it is last, yields a
  reservation somewhere below, though `bootstrap.c:350` says "we only ever use space that is greater than the highest
  module end address". One map of `MCBootstrap` has such a region. `ReservedIsFree` speaks of the address before it is cut to 32 bits, so it holds; that
  the page tables then lie over other memory is not followed any further, nor what they overwrite.
- `bootstrap.c:353` stores a region's length above the modules in an `int`. If the modules end more than 2 GB above the end of a free
  region the difference wraps to a positive number, the region is taken to fit, and the page tables are put behind the modules whatever
  is there, though `bootstrap.c:359` says "Make sure we only use free regions with enough pages". An instance with a module above 2 GB and a
  free region below it shows it; the modules of `MCBootstrap` are below, as GRUB places them.
- `Timer.c:75`: with the idle collection off (`IdleGC = FALSE`) the handler sets `ACTIVITY_DONE_GC` and stops the timer itself. If it does so
  between the scheduler's read of `recent_activity` at `Schedule.c:455` and its store at `Schedule.c:476` the flag says
  `ACTIVITY_YES` with the timer off, and nobody starts it again. `PreemptionOn` of `Timer` fails with `IdleGC = FALSE`, already because the
  handler may stop the timer under a thread that runs through two ticks. With the idle collection, which is the
  default of the threaded build, only a Task that holds every Capability stops it.
- `Schedule.c:2718`: `raiseExceptionHelper` passes a `CATCH_RETRY_FRAME` without aborting its record, unlike the frame walk
  at `Exception.cmm:541`. With `ThroughOrElse = TRUE`, `FramesMatch` of `STM` fails.

## 8. Not modelled, and limits

- *Type invariants.* `TypeOK` of `WSDeque` and of `Schedule`, `GCTypeOK` of `GCThreads`, `TimerTypeOK` and `ThreadsTypeOK` are theorems and are not among
  the runs' properties.
- *STM*: invariants (`check#`), the debugging option that shakes validation, and the wrap of `num_updates`.
- *Threads*: the try forms of the MVar primitives, targets blocked in foreign calls or in STM, and the handler's own code.
- *BlackHole*: eager and CAF black holes, a thread that waits for itself (#2783), and indirections removed by a collection.
- *GCThreads*: what is copied and how; `parGcNoSyncWithIdle`, which grabs idle Capabilities the way disabled ones
  are grabbed; single-threaded collections, which are in `Schedule`; several generations and overflow lists.
- *BlockAlloc*: the table of megablocks, the high-water mark, `freeChain` (a loop over `freeGroup`).
- *Sparks*: the spark thread, and marking the pools (`traverseSparkQueue`); *Timer*: a second handler while one runs, shutdown, and profiling.
- *In the scheduler.* It has no interruption and shutdown (`sched_state` stays
  `SCHED_RUNNING`), no disabled Capabilities (`setNumCapabilities`), no parallel collection, no sparks (see `Sparks`),
  no throw-to or black-hole messages (see `Threads`, `BlackHole`), no callbacks nested in foreign calls, and the child of a fork is left
  out. Blocking is abstract: a thread blocks and some other thread wakes it.
- `context_switch` and the allocation limit appear as the thread's freedom to return at any time.
- In `Schedule` the timer is the fairness of `ThreadStops`; whether it is on is what `PreemptionOn` of `Timer` says.
- *Not modelled by choice.* Copying and compacting collection (a case analysis over object layouts),
  the linker, byte-code interpreter, adjustors and printers (formats and machine code, sequential),
  profiling, statistics and tracing (no other part reads them), flags and utilities, `win32/` (never
  compiled), `parallel/` (the distributed runtime of an older GHC, outside every build file), the front
  panel, and the kernel's own stubs, which do nothing yet.

## 9. Plan

Done: the deque, the loader, Capabilities and the running scheduler, STM, MVars and asynchronous exceptions,
black holes, the collectors' rendezvous, the block allocator, the spark pools and the timer. What remains, in this order:

1. Theorems: `BlackHolesOwned`, `HeapTiled`.
2. Shutdown and `setNumCapabilities` in `Schedule`.
3. `Weak`, `Stable`, `Hash`, `FileLock`; number formatting, option parsing and the cursor of the loader as functions.

Abstract specifications still wanted: a one-place buffer with FIFO queues for MVars, atomic transactions for STM, a
map for hash tables. The project keeps one run per question: a new module brings one instance with its
safety and, if small enough, its liveness, and shares a run with another when both are small.
