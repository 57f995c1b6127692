-------------------------------- MODULE Sparks --------------------------------
(***************************************************************************)
(* The spark pools: newSpark and findSpark of the Capabilities, and what a  *)
(* collection does to the pools, pruneSparkQueue, which compacts each in    *)
(* place behind its old end while other collector threads still trace.      *)
(*                                                                         *)
(* A push is atomic here and a steal has two steps, its reads and its       *)
(* compare-and-swap: WSDeque shows that this is what the deque does.        *)
(* spark_stats are kept summed, as they are compared: over the              *)
(* Capabilities, and gone for converted, gcd and fizzled.                  *)
(***************************************************************************)
EXTENDS Integers, Sequences, FiniteSets

CONSTANTS SparkCaps,       \* capabilities[0 .. n_capabilities-1]
          Sparkable, Statics,   \* what is sparked; some are static (CAFs)
          PoolSize,        \* size of a pool, a power of two
          Sparkers,        \* bound: those whose threads call par
          MaxSparks,       \* bound: calls of newSpark
          MaxPrunes,       \* bound: collections
          Starts,          \* where the pools may begin: after pruning, anywhere
          NoSpark          \* NULL

ASSUME SparksAssumption ==
  /\ IsFiniteSet(SparkCaps) /\ SparkCaps = 0..(Cardinality(SparkCaps) - 1) /\ Sparkers \subseteq SparkCaps
  /\ Starts \subseteq 0..(PoolSize - 1) /\ Statics \subseteq Sparkable
  /\ PoolSize \in Nat \ {0, 1} /\ MaxSparks \in Nat /\ MaxPrunes \in Nat
  /\ NoSpark \notin Sparkable

VARIABLES pools,      \* each pool: top, bottom and elements
          closure,    \* "thunk", "value" when it has been entered or evaluated, "freed"
          finder,     \* where each Capability is in findSpark
          counts,     \* spark_stats: created, dud or overflowed, and gone
          pruning     \* the collection, and each Capability's pruneSparkQueue

spVars == <<pools, closure, finder, counts, pruning>>

Slots == 0..(PoolSize - 1)
Leader == 0
NotFinding == [pc |-> "none", robbed |-> 0, retry |-> FALSE, top |-> 0, spark |-> NoSpark]
NotPruning == [on |-> FALSE, curr |-> 0, old |-> 0, bot |-> 0, before |-> <<>>, kept |-> <<>>]

(* Pools that were emptied or pruned before, or fresh.                     *)
SparksInit ==
  /\ \E start \in [SparkCaps -> Starts] :
       pools = [c \in SparkCaps |-> [top |-> start[c], bottom |-> start[c], elements |-> [i \in Slots |-> NoSpark]]]
  /\ closure = [s \in Sparkable |-> "thunk"]
  /\ finder = [c \in SparkCaps |-> NotFinding]
  /\ counts = [created |-> 0, dud |-> 0, gone |-> 0]
  /\ pruning = [phase |-> "none", reached |-> {}, idle |-> {}, done |-> {}, left |-> MaxPrunes,
                at |-> [c \in SparkCaps |-> NotPruning]]

Count(what) == counts' = [counts EXCEPT ![what] = @ + 1]
Size(c) == pools[c].bottom - pools[c].top
Empty(c) == Size(c) <= 0
Contents(c) == [n \in 1..Size(c) |-> pools[c].elements[(pools[c].top + n - 1) % PoolSize]]
Fizzled(s) == closure[s] # "thunk"
(* The sparks in all the pools, by pool and position.                      *)
Remaining == Cardinality({x \in SparkCaps \X (1..PoolSize) : x[2] <= Size(x[1])})

----------------------------------------------------------------------------
(* Haskell code *)

Mutates(c) == pruning.phase = "none" /\ finder[c].pc = "none"
Asked == counts.created + counts.dud

(* pushWSDeque, at the end; it gives up if the array is full but for one.  *)
Full(c) == Size(c) >= PoolSize - 1

(* par: the program has the closure, so it has not been freed.             *)
NewSpark(c, s) ==
  /\ Mutates(c) /\ closure[s] # "freed" /\ Asked < MaxSparks
  /\ CASE Fizzled(s) -> Count("dud") /\ UNCHANGED pools
       [] ~Fizzled(s) /\ Full(c) -> Count("dud") /\ UNCHANGED pools
       [] OTHER -> /\ pools' = [pools EXCEPT ![c].elements[pools[c].bottom % PoolSize] = s, ![c].bottom = @ + 1]
                   /\ Count("created")
  /\ UNCHANGED <<closure, finder, pruning>>

(* Somebody enters it, whether it was a spark or not.                      *)
Evaluate(s) ==
  /\ pruning.phase = "none" /\ closure[s] = "thunk"
  /\ closure' = [closure EXCEPT ![s] = "value"]
  /\ UNCHANGED <<pools, finder, counts, pruning>>

----------------------------------------------------------------------------
(* findSpark *)

Finding(c, pc) == finder[c].pc = pc
(* Its own pool first.                                                     *)
FromOwn(c) == [NotFinding EXCEPT !.pc = "steal", !.robbed = c]

(* A spark thread asks for a spark, on a Capability with nothing else to do. *)
FindSpark(c) ==
  /\ Mutates(c)
  /\ finder' = [finder EXCEPT ![c] = FromOwn(c)]
  /\ UNCHANGED <<pools, closure, counts, pruning>>

(* tryStealSpark: top and the element at top ...                           *)
StealReads(c) ==
  /\ Finding(c, "steal")
  /\ LET p == pools[finder[c].robbed] IN
     finder' = [finder EXCEPT ![c] =
       IF Empty(@.robbed) THEN [@ EXCEPT !.pc = "missed"]
       ELSE [@ EXCEPT !.pc = "cas", !.top = p.top, !.spark = p.elements[p.top % PoolSize]]]
  /\ UNCHANGED <<pools, closure, counts, pruning>>

(* ... then the compare-and-swap; NULL if another thief was faster.        *)
StealCas(c) ==
  /\ Finding(c, "cas")
  /\ LET f == finder[c]
         won == pools[f.robbed].top = f.top
     IN  /\ pools' = IF won THEN [pools EXCEPT ![f.robbed].top = @ + 1] ELSE pools
         /\ finder' = [finder EXCEPT ![c] = [f EXCEPT !.pc = IF won THEN "got" ELSE "missed",
                                                     !.spark = IF won THEN @ ELSE NoSpark, !.top = 0]]
  /\ UNCHANGED <<closure, counts, pruning>>

(* Mutant: a fizzled spark is dropped without being counted.               *)
StealUncounted(c) ==
  /\ Finding(c, "got")
  /\ IF Fizzled(finder[c].spark)
     THEN finder' = [finder EXCEPT ![c].pc = "steal", ![c].spark = NoSpark] /\ UNCHANGED counts
     ELSE Count("gone") /\ finder' = [finder EXCEPT ![c] = NotFinding]
  /\ UNCHANGED <<pools, closure, pruning>>

(* while (spark != NULL && fizzledSpark(spark))                            *)
Steal(c) ==
  /\ Finding(c, "got")
  /\ IF Fizzled(finder[c].spark)
     THEN Count("gone") /\ finder' = [finder EXCEPT ![c].pc = "steal", ![c].spark = NoSpark]
     ELSE Count("gone") /\ finder' = [finder EXCEPT ![c] = NotFinding]
  /\ UNCHANGED <<pools, closure, pruning>>

(* No spark there: if there is one after all, the pools are to be gone     *)
(* through once more.                                                      *)
Missed(c) ==
  /\ Finding(c, "missed")
  /\ finder' = [finder EXCEPT ![c] =
       [finder[c] EXCEPT !.pc = IF Cardinality(SparkCaps) = 1 THEN "none" ELSE "next",
                         !.robbed = IF @ = c THEN 0 ELSE @ + 1,
                         !.retry = @ \/ ~Empty(finder[c].robbed)]]
  /\ UNCHANGED <<pools, closure, counts, pruning>>

(* The next Capability that is another and has sparks.                     *)
NextVictim(c) ==
  /\ Finding(c, "next")
  /\ LET f == finder[c] IN
     finder' = [finder EXCEPT ![c] =
       CASE f.robbed \notin SparkCaps -> IF f.retry THEN FromOwn(c) ELSE NotFinding
         [] f.robbed \in SparkCaps /\ (f.robbed = c \/ Empty(f.robbed)) -> [f EXCEPT !.robbed = @ + 1]
         [] OTHER -> [f EXCEPT !.pc = "steal"]]
  /\ UNCHANGED <<pools, closure, counts, pruning>>

----------------------------------------------------------------------------
(* The collection *)

(* The Capabilities are stopped; some have no collector thread of their own. *)
(* What is reached, sparks apart, is found by tracing.                     *)
Begin(stopped) ==
  /\ pruning.phase = "none" /\ pruning.left > 0 /\ \A c \in SparkCaps : Finding(c, "none")
  /\ \E reached \in SUBSET {s \in Sparkable : closure[s] # "freed"}, idle \in SUBSET (SparkCaps \ {Leader}) :
       pruning' = [pruning EXCEPT !.phase = "trace", !.reached = reached, !.idle = idle, !.done = {},
                                  !.left = IF stopped THEN 0 ELSE @ - 1]
  /\ UNCHANGED <<closure, finder>>

StartPruning == Begin(FALSE) /\ UNCHANGED <<pools, counts>>

(* The runtime is being interrupted: discardSparksCap, for each.           *)
DiscardSparks ==
  /\ Begin(TRUE)
  /\ counts' = [counts EXCEPT !.gone = @ + Remaining]
  /\ pools' = [c \in SparkCaps |-> [pools[c] EXCEPT !.top = pools[c].bottom]]

(* The leader still traces, what weak pointers keep alive.                 *)
TraceMore(s) ==
  /\ pruning.phase = "trace" /\ closure[s] # "freed"
  /\ s \notin pruning.reached
  /\ pruning' = [pruning EXCEPT !.reached = @ \cup {s}]
  /\ UNCHANGED <<pools, closure, finder, counts>>

(* shutdown_gc_threads: every collector thread has pruned its own pool.    *)
WorkersDone ==
  /\ pruning.phase = "trace"
  /\ SparkCaps \ ({Leader} \cup pruning.idle) \subseteq pruning.done
  /\ pruning' = [pruning EXCEPT !.phase = "shutdown"]
  /\ UNCHANGED <<pools, closure, finder, counts>>

(* A collector thread prunes its own; the leader, then, its own and those  *)
(* of the idle, one after the other.                                       *)
MayPrune(c) ==
  /\ c \notin pruning.done /\ ~pruning.at[c].on
  /\ IF c \in {Leader} \cup pruning.idle
     THEN pruning.phase = "shutdown" /\ \A d \in SparkCaps : ~pruning.at[d].on
     ELSE pruning.phase = "trace"

(* The indices are brought back to the array's.                            *)
Normalised(p) ==
  LET t == IF p.top > p.bottom THEN p.bottom ELSE p.top
  IN  [p EXCEPT !.top = t % PoolSize, !.bottom = @ - (t - (t % PoolSize))]

PruneBegins(c) ==
  /\ MayPrune(c)
  /\ LET p == Normalised(pools[c]) IN
     /\ pools' = [pools EXCEPT ![c] = p]
     /\ pruning' = [pruning EXCEPT !.at[c] =
          [on |-> TRUE, curr |-> p.top, old |-> p.bottom % PoolSize, bot |-> p.bottom % PoolSize,
           before |-> Contents(c), kept |-> <<>>]]
  /\ UNCHANGED <<closure, finder, counts>>

Survives(s) == s \in pruning.reached /\ closure[s] = "thunk"
Wrapped(i) == IF i = PoolSize THEN 0 ELSE i

(* One element; before and kept follow what should become of it.           *)
PruneElement(c) ==
  LET at == pruning.at[c]
      spark == pools[c].elements[at.curr]
      keep == Survives(spark)
  IN  /\ at.on /\ at.curr # at.old
      /\ pools' = IF keep THEN [pools EXCEPT ![c].elements[at.bot] = spark] ELSE pools
      /\ IF keep THEN UNCHANGED counts ELSE Count("gone")
      /\ pruning' = [pruning EXCEPT !.at[c] =
           [at EXCEPT !.curr = Wrapped(@ + 1), !.bot = IF keep THEN Wrapped(@ + 1) ELSE @,
                      !.before = Tail(@),
                      !.kept = IF Survives(Head(at.before)) THEN Append(@, Head(at.before)) ELSE @]]
      /\ UNCHANGED <<closure, finder>>

(* Mutant: the survivors' going around the end of the array is forgotten.  *)
PruneEndsUnwrapped(c) ==
  LET at == pruning.at[c] IN
  /\ at.on /\ at.curr = at.old
  /\ pools' = [pools EXCEPT ![c].top = at.old, ![c].bottom = at.bot]
  /\ pruning' = [pruning EXCEPT !.at[c].on = FALSE, !.done = @ \cup {c}]
  /\ UNCHANGED <<closure, finder, counts>>

(* What was written last is the pool.                                      *)
PruneEnds(c) ==
  LET at == pruning.at[c] IN
  /\ at.on /\ at.curr = at.old
  /\ pools' = [pools EXCEPT ![c].top = at.old,
                            ![c].bottom = IF at.old <= at.bot THEN at.bot ELSE at.bot + PoolSize]
  /\ pruning' = [pruning EXCEPT !.at[c].on = FALSE, !.done = @ \cup {c}]
  /\ UNCHANGED <<closure, finder, counts>>

(* What was not reached is gone; a static closure stays where it is.       *)
EndOfGC ==
  /\ pruning.phase = "shutdown" /\ pruning.done = SparkCaps
  /\ closure' = [s \in Sparkable |-> IF s \in pruning.reached \cup Statics THEN closure[s] ELSE "freed"]
  /\ pruning' = [pruning EXCEPT !.phase = "none", !.reached = {}, !.idle = {}, !.done = {},
                                !.at = [c \in SparkCaps |-> NotPruning]]
  /\ UNCHANGED <<pools, finder, counts>>

SparksNext ==
  \/ \E c \in SparkCaps :
       \/ FindSpark(c) \/ StealReads(c) \/ StealCas(c) \/ Steal(c) \/ Missed(c) \/ NextVictim(c)
       \/ PruneBegins(c) \/ PruneElement(c) \/ PruneEnds(c)
  \/ \E c \in Sparkers, s \in Sparkable : NewSpark(c, s)
  \/ \E s \in Sparkable : Evaluate(s) \/ TraceMore(s)
  \/ StartPruning \/ DiscardSparks \/ WorkersDone \/ EndOfGC

SparksSpec == SparksInit /\ [][SparksNext]_spVars

----------------------------------------------------------------------------
(* Properties *)

(* "created = converted + remaining + gcd + fizzled": no spark is lost or   *)
(* counted twice, those apart that somebody has just stolen.               *)
InHand == Cardinality({c \in SparkCaps : Finding(c, "got")})
SparksCounted ==
  (\A c \in SparkCaps : ~pruning.at[c].on) =>
    counts.created = counts.gone + Remaining + InHand

(* Compacting in place loses and repeats nothing: a pruned pool holds what *)
(* it held before and should, in that order; and no pool holds a closure    *)
(* that a collection has freed.                                            *)
PrunedRight ==
  \A c \in SparkCaps :
    /\ c \in pruning.done => Contents(c) = pruning.at[c].kept
    /\ pruning.phase = "none" => \A n \in DOMAIN Contents(c) : closure[Contents(c)[n]] # "freed"
=============================================================================
