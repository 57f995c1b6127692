----------------------------- MODULE BlockAlloc -----------------------------
(***************************************************************************)
(* The block allocator.  Memory comes from the operating system in          *)
(* megablocks, of BlocksPer blocks and the space of their descriptors; a    *)
(* group is a run of blocks of one megablock, or whole megablocks.  Groups  *)
(* are found by their descriptors alone: a free group is recognised by the  *)
(* mark of its first one, and its head from its last one.  The descriptors  *)
(* between keep whatever was in them.  A block is numbered by its address.  *)
(***************************************************************************)
EXTENDS Integers, FiniteSets, SequencesExt

CONSTANTS Megablocks,       \* the address space, in megablocks
          BlocksPer,        \* BLOCKS_PER_MBLOCK
          BlockSpan,        \* MBLOCK_SIZE / BLOCK_SIZE: with the descriptors' space
          Requests,         \* bound: the sizes asked for, in blocks
          MaxHeld           \* bound: how many groups the program holds

ASSUME BlockAllocAssumption ==
  /\ Requests \cup {Megablocks, BlocksPer, BlockSpan, MaxHeld} \subseteq Nat \ {0}
  /\ BlocksPer > 1 /\ BlockSpan > BlocksPer

VARIABLES ba,       \* the allocator: descriptors, free lists, count, megablocks it has
          groups    \* what the program holds: the size of each group, by its first block

baVars == <<ba, groups>>

MbOf(p) == p \div BlockSpan
FirstOf(m) == m * BlockSpan
LastOf(m) == FirstOf(m) + BlocksPer - 1
Blocks == UNION {FirstOf(m)..LastOf(m) : m \in 0..(Megablocks - 1)}

\* MBLOCK_GROUP_BLOCKS, BLOCKS_TO_MBLOCKS
GroupBlocks(k) == BlocksPer + (k - 1) * BlockSpan
ToMblocks(n) == 1 + (n + BlockSpan - BlocksPer - 1) \div BlockSpan

Log2(n) == CHOOSE i \in 0..n : 2^i <= n /\ n < 2^(i + 1)
Log2Ceil(n) == CHOOSE i \in 0..n : 2^i >= n /\ (i = 0 \/ 2^(i - 1) < n)
Lists == 0..Log2Ceil(BlocksPer)           \* below MAX_FREE_LIST

----------------------------------------------------------------------------
(* Descriptors and the free lists                                          *)

Desc(n, free, head) == [blocks |-> n, free |-> free, head |-> head]
Size(h, p) == h.bd[p].blocks

\* of a megablock group only the first megablock's descriptors
InitGroup(h, p) ==
  LET rest == {q \in Blocks : p < q /\ q < p + Size(h, p) /\ MbOf(q) = MbOf(p)}
  IN [h EXCEPT !.bd = [q \in Blocks |-> IF q = p THEN Desc(Size(h, p), FALSE, p)
                                        ELSE IF q \in rest THEN Desc(0, FALSE, p) ELSE @[q]]]

NoTail(h, p) == h
SetupTail(h, p) ==
  LET tail == p + Size(h, p) - 1
  IN IF tail = p THEN h ELSE [h EXCEPT !.bd[tail] = Desc(0, FALSE, p)]

Resize(h, p, n) == [h EXCEPT !.bd[p].blocks = n]
ListOf(h, p) == Log2(Size(h, p))
Unlist(h, p) == [h EXCEPT !.list[ListOf(h, p)] = SelectSeq(@, LAMBDA q : q # p)]
Enlist(h, p) == [h EXCEPT !.list[ListOf(h, p)] = <<p>> \o @]

\* coalesce_mblocks(p): with the group after it in the list
CoalesceMblocks(h, p) ==
  LET after == SelectSeq(h.mega, LAMBDA q : q > p) IN
  IF after # <<>> /\ MbOf(Head(after)) = MbOf(p) + ToMblocks(Size(h, p))
  THEN [Resize(h, p, GroupBlocks(ToMblocks(Size(h, p)) + ToMblocks(Size(h, Head(after)))))
          EXCEPT !.mega = SelectSeq(@, LAMBDA q : q # Head(after))]
  ELSE h

FreeMegaGroup(h, p) ==
  LET before == SelectSeq(h.mega, LAMBDA q : q < p)
      listed == [h EXCEPT !.mega = before \o <<p>> \o SelectSeq(@, LAMBDA q : q > p)]
      back == IF before = <<>> THEN listed ELSE CoalesceMblocks(listed, Last(before))
  IN CoalesceMblocks(back, IF Contains(back.mega, p) THEN p ELSE Last(before))

----------------------------------------------------------------------------
(* freeGroup                                                               *)

Counted(h, n) == [h EXCEPT !.count = @ + n]

\* the head of the group before p, found from its last descriptor
HeadBefore(h, p) == IF Size(h, p - 1) = 0 THEN h.bd[p - 1].head ELSE p - 1

NeverBack(h, p) == FALSE
IsFreeBefore(h, p) == p # FirstOf(MbOf(p)) /\ h.bd[HeadBefore(h, p)].free

IsFreeAfter(h, p) ==
  LET next == p + Size(h, p) IN next <= LastOf(MbOf(p)) /\ h.bd[next].free

Forwards(h, p) ==
  IF ~IsFreeAfter(h, p) THEN h
  ELSE LET next == p + Size(h, p)
           whole == Resize(Unlist(h, next), p, Size(h, p) + Size(h, next))
       IN IF Size(whole, p) = BlocksPer THEN whole ELSE SetupTail(whole, p)

Backwards(h, p) ==
  LET prev == HeadBefore(h, p)
      joined == Resize(Unlist(h, prev), prev, Size(h, prev) + Size(h, p))
  IN IF Size(joined, prev) >= BlocksPer THEN FreeMegaGroup(joined, prev)
     ELSE Enlist(SetupTail(joined, prev), prev)

FreeGroup(h, p) ==
  LET marked == [h EXCEPT !.bd[p].free = TRUE]
      after == Forwards(Counted(marked, -Size(h, p)), p)
  IN IF Size(h, p) >= BlocksPer
     THEN FreeMegaGroup(Counted(marked, -(ToMblocks(Size(h, p)) * BlocksPer)), p)
     ELSE IF Size(after, p) = BlocksPer THEN FreeMegaGroup(after, p)
     ELSE IF IsFreeBefore(after, p) THEN Backwards(after, p)
     ELSE Enlist(SetupTail(after, p), p)

----------------------------------------------------------------------------
(* allocGroup.  Each operator returns the allocator and the group's first  *)
(* block; base is where the operating system would put new megablocks.     *)

Got(h, p) == [heap |-> h, at |-> p]
HasMblocks(h, base, k) ==
  base + k <= Megablocks /\ \A m \in base..(base + k - 1) : m \notin h.mblocks

\* alloc_mega_group: a group of the right size, or the end of the smallest that is larger
AllocMegaGroup(h, k, base) ==
  LET exact == SelectSeq(h.mega, LAMBDA q : Size(h, q) = GroupBlocks(k))
      larger == SelectSeq(h.mega, LAMBDA q : Size(h, q) > GroupBlocks(k))
      best == CHOOSE q \in ToSet(larger) :
                \A r \in ToSet(larger) : Size(h, q) < Size(h, r) \/ (Size(h, q) = Size(h, r) /\ q <= r)
      left == ToMblocks(Size(h, best)) - k
      At(g, p) == Got(Resize(g, p, GroupBlocks(k)), p)
  IN IF exact # <<>> THEN At([h EXCEPT !.mega = SelectSeq(@, LAMBDA q : q # Head(exact))], Head(exact))
     ELSE IF larger # <<>> THEN At(Resize(h, best, GroupBlocks(left)), best + left * BlockSpan)
     ELSE At([h EXCEPT !.mblocks = @ \cup (base..(base + k - 1))], FirstOf(base))

NeedsMblocks(h, k) == \A q \in ToSet(h.mega) : Size(h, q) < GroupBlocks(k)

\* split_free_block: take n blocks off the end
SplitFreeBlock(h, p, n) ==
  LET at == p + Size(h, p) - n
      rest == Resize(Resize(Unlist(h, p), at, n), p, Size(h, p) - n)
  IN Got(Enlist(SetupTail(rest, p), p), at)

\* the first group of list i, or the end of it
FromList(h, i, n) ==
  LET p == Head(h.list[i])
      taken == IF Size(h, p) <= n THEN Got(Unlist(h, p), p) ELSE SplitFreeBlock(h, p, n)
  IN Got(InitGroup(taken.heap, taken.at), taken.at)

\* the lowest list from i on that is not empty
Stocked(h, i) == {j \in Lists : i <= j /\ h.list[j] # <<>>}
Lowest(S) == CHOOSE i \in S : \A j \in S : i <= j

AllocGroup(h, n, base) ==
  LET k == IF n >= BlocksPer THEN ToMblocks(n) ELSE 1
      mega == AllocMegaGroup(h, k, base)
      stocked == Stocked(h, Log2Ceil(n))
      \* a megablock for a smaller group: the slop is freed
      cut == InitGroup(Resize(mega.heap, mega.at, n), mega.at)
      slop == InitGroup(Resize(cut, mega.at + n, BlocksPer - n), mega.at + n)
  IN IF n >= BlocksPer THEN Got(Counted(InitGroup(mega.heap, mega.at), k * BlocksPer), mega.at)
     ELSE IF stocked = {} THEN Got(FreeGroup(Counted(slop, BlocksPer), mega.at + n), mega.at)
     ELSE LET got == FromList(h, Lowest(stocked), n) IN Got(Counted(got.heap, n), got.at)

\* where new megablocks would be, if any are needed
Asks(h, n, base) ==
  LET k == IF n >= BlocksPer THEN ToMblocks(n) ELSE 1
  IN IF (n >= BlocksPer \/ Stocked(h, Log2Ceil(n)) = {}) /\ NeedsMblocks(h, k)
     THEN HasMblocks(h, base, k) ELSE base = 0

\* allocLargeChunk takes from a lower list what there is, before it asks for all of max
ChunkLists(h, min, max) ==
  IF min >= BlocksPer THEN {} ELSE {i \in Stocked(h, Log2Ceil(min)) : i < Log2Ceil(max)}
AsksForChunk(h, min, max, base) ==
  IF ChunkLists(h, min, max) = {} THEN Asks(h, max, base) ELSE base = 0

AllocLargeChunk(h, min, max, base) ==
  LET lists == ChunkLists(h, min, max)
      got == FromList(h, Lowest(lists), max)
  IN IF lists = {} THEN AllocGroup(h, max, base)
     ELSE Got(Counted(got.heap, Size(got.heap, got.at)), got.at)

----------------------------------------------------------------------------
BAInit ==
  /\ ba = [bd |-> [p \in Blocks |-> Desc(0, FALSE, p)], list |-> [i \in Lists |-> <<>>],
           mega |-> <<>>, mblocks |-> {}, count |-> 0]
  /\ groups = <<>>

Held == DOMAIN groups
Holds(S, n) == [p \in Held \cup S |-> IF p \in S THEN n ELSE groups[p]]

Allocate(n, base) ==
  /\ Asks(ba, n, base) /\ Cardinality(Held) < MaxHeld
  /\ \E got \in {AllocGroup(ba, n, base)} :
       ba' = got.heap /\ groups' = Holds({got.at}, Size(got.heap, got.at))

\* allocNursery: a chunk, cut into single blocks
AllocateNursery(n, base) ==
  /\ n <= BlocksPer /\ AsksForChunk(ba, 1, n, base) /\ Cardinality(Held) + n <= MaxHeld
  /\ \E got \in {AllocLargeChunk(ba, 1, n, base)} :
     LET chunk == got.at..(got.at + Size(got.heap, got.at) - 1)
     IN /\ ba' = [got.heap EXCEPT !.bd = [q \in Blocks |-> IF q \in chunk THEN Desc(1, FALSE, q) ELSE @[q]]]
        /\ groups' = Holds(chunk, 1)

Release(p) ==
  /\ p \in Held
  /\ ba' = FreeGroup(ba, p)
  /\ groups' = [q \in Held \ {p} |-> groups[q]]

\* returnMemoryToOS: from the front of the list, the last one in part
ReturnMemoryToOS(n) ==
  LET sizes == [i \in DOMAIN ba.mega |-> ToMblocks(Size(ba, ba.mega[i]))]
      upTo(i) == FoldLeft(LAMBDA x, y : x + y, 0, SubSeq(sizes, 1, i))
      gone == {i \in DOMAIN sizes : upTo(i) <= n}
      over == IF n > upTo(Cardinality(gone)) THEN n - upTo(Cardinality(gone)) ELSE 0
      rest == SubSeq(ba.mega, Cardinality(gone) + 1, Len(ba.mega))
      keep == ToMblocks(Size(ba, Head(rest))) - over
      MbRun(p, from, k) == (MbOf(p) + from)..(MbOf(p) + from + k - 1)
      whole == UNION {MbRun(ba.mega[i], 0, sizes[i]) : i \in gone}
  IN /\ ba.mega # <<>>
     /\ ba' = IF rest = <<>> \/ over = 0 THEN [ba EXCEPT !.mega = rest, !.mblocks = @ \ whole]
              ELSE [Resize(ba, Head(rest), GroupBlocks(keep))
                      EXCEPT !.mega = rest, !.mblocks = @ \ (whole \cup MbRun(Head(rest), keep, over))]
     /\ UNCHANGED groups

BANext ==
  \/ \E n \in Requests, base \in 0..(Megablocks - 1) : Allocate(n, base) \/ AllocateNursery(n, base)
  \/ \E p \in Blocks : Release(p)
  \/ \E n \in 1..Megablocks : ReturnMemoryToOS(n)

BASpec == BAInit /\ [][BANext]_baVars

----------------------------------------------------------------------------
(* Properties *)

\* The blocks of a group; the descriptors' space inside a megablock group is not counted.
Span(p, n) == IF n < BlocksPer THEN p..(p + n - 1)
              ELSE {q \in Blocks : MbOf(q) \in MbOf(p)..(MbOf(p) + ToMblocks(n) - 1)}
FreeHeads == UNION {ToSet(ba.list[i]) : i \in Lists} \cup ToSet(ba.mega)

(* checkFreeListSanity: each free group is in the list of its size, with    *)
(* its head and tail marked so that it will be found from either side; no   *)
(* two free groups are neighbours; and the megablock list is in the order   *)
(* of addresses, with nothing left to coalesce.                            *)
FreeListSane ==
  /\ \A i \in Lists : \A p \in ToSet(ba.list[i]) :
       /\ ba.bd[p].free /\ Size(ba, p) < BlocksPer /\ Log2(Size(ba, p)) = i
       /\ Size(ba, p) > 1 => ba.bd[p + Size(ba, p) - 1] = Desc(0, FALSE, p)
       /\ ~IsFreeAfter(ba, p)
  /\ \A p \in ToSet(ba.mega) : Size(ba, p) = GroupBlocks(ToMblocks(Size(ba, p)))
  /\ \A i \in 1..(Len(ba.mega) - 1) :
       MbOf(ba.mega[i]) + ToMblocks(Size(ba, ba.mega[i])) < MbOf(ba.mega[i + 1])

(* Every block of the megablocks held is in exactly one group, the         *)
(* program's or a free one, the descriptors give the program's groups the   *)
(* size it asked for, n_alloc_blocks is the number of blocks it has, and    *)
(* every free group can be found.                                          *)
HeapTiled ==
  LET spans == {Span(p, Size(ba, p)) : p \in Held \cup FreeHeads} IN
  /\ \A p \in Held : Size(ba, p) = groups[p] /\ p \notin FreeHeads /\ ~ba.bd[p].free
  /\ UNION spans = {q \in Blocks : MbOf(q) \in ba.mblocks}
  /\ \A p, q \in Held \cup FreeHeads : p # q => Span(p, Size(ba, p)) \cap Span(q, Size(ba, q)) = {}
  /\ ba.count = Cardinality(UNION {Span(p, groups[p]) : p \in Held})
  /\ FreeListSane
=============================================================================
