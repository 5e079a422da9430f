------------------------------ MODULE MyMalloc ------------------------------
(***************************************************************************)
(* projects/project1/mymalloc.c: my_malloc and my_free over regions got    *)
(* from mmap, with four LIFO fast bins for the sizes 16, 24, 32 and 40 and *)
(* four sorted, doubly linked regular bins.                                *)
(*                                                                         *)
(* Sizes and addresses are the bytes of the 64-bit build.  Memory is a     *)
(* function on the addresses of the 8-byte words that are not 0, which is  *)
(* what mmap fills a region with.  A block header is the four words size,  *)
(* is_free, next and prev, so that a header written where only 16 or 24    *)
(* bytes are left runs into the words that follow, as it does in the       *)
(* program.  Regions follow one another in memory.                         *)
(*                                                                         *)
(* The allocator is single-threaded, so a call is one step.  The client    *)
(* frees only what it has and writes only to what it has: it clears the    *)
(* bytes of each allocation it gets.                                       *)
(***************************************************************************)
EXTENDS Integers, Sequences, FiniteSets, SequencesExt

CONSTANTS PAGE,      \* bytes of a page
          Requests,  \* the sizes the client asks for
          MaxRegions \* mmap fails once this many regions are mapped

ASSUME PageAssumption == PAGE \in Nat /\ PAGE % 8 = 0 /\ PAGE > 64
ASSUME ClientAssumption == Requests \subseteq Nat \ {0} /\ MaxRegions \in Nat

NULL == 0
HEADER_SIZE == 32
MIN_SPLIT == 16

VARIABLES mem,      \* mem[a]: the 8-byte word at address a, where it is not 0
          fastbins, \* the heads of the fast bins
          regbins,  \* the heads of the regular bins
          mapped,   \* mapped[r]: the bytes of the region at r
          live      \* live[p]: the size asked for when my_malloc returned p

vars == <<mem, fastbins, regbins, mapped, live>>

(* The part of the state the allocator's functions pass on to one another. *)
heap == [mem |-> mem, fast |-> fastbins, reg |-> regbins]

Word(m, a) == IF a \in DOMAIN m THEN m[a] ELSE 0
Size(m, b) == Word(m, b)
IsFree(m, b) == Word(m, b + 8)
Next_(m, b) == Word(m, b + 16)
Prev(m, b) == Word(m, b + 24)

With(f, x, v) == [y \in DOMAIN f \union {x} |-> IF y = x THEN v ELSE f[y]]
Without(m, words) == [a \in DOMAIN m \ words |-> m[a]]
Write(h, a, word) ==
  [h EXCEPT !.mem = IF word = 0 THEN Without(@, {a}) ELSE With(@, a, word)]
SetSize(h, b, size) == Write(h, b, size)
SetFree(h, b, flag) == Write(h, b + 8, flag)
SetNext(h, b, next) == Write(h, b + 16, next)
SetPrev(h, b, prev) == Write(h, b + 24, prev)
Unlink(h, b) == SetNext(SetPrev(h, b, NULL), b, NULL)

-----------------------------------------------------------------------------
index_fastbin(size) ==
  CASE size = 16 -> 0 [] size = 24 -> 1 [] size = 32 -> 2 [] size = 40 -> 3
    [] OTHER -> -1

index_regbin(size) ==
  CASE size <= 128 -> 0 [] size <= 512 -> 1 [] size <= 2048 -> 2
    [] OTHER -> 3

\* The blocks from b along next, up to and with the NULL that ends the list.
\* A list has no more blocks than memory has words that are not 0.
Chain(m, b) ==
  LET from[x \in Nat \X Nat] ==
        IF x[1] = NULL \/ x[2] = 0 THEN <<x[1]>>
        ELSE <<x[1]>> \o from[<<Next_(m, x[1]), x[2] - 1>>]
  IN  from[<<b, Cardinality(DOMAIN m)>>]

ListOf(m, b) == Front(Chain(m, b))

FirstUntested(m, b, size) == Head(Chain(m, b))

\* The first block of the list that has at least size bytes, or NULL.
FirstFit(m, b, size) ==
  LET chain == Chain(m, b)
  IN  chain[SelectInSeq(chain, LAMBDA c : c = NULL \/ Size(m, c) >= size)]

InsertUnsorted(h, i, b) ==
  LET h0 == Unlink(h, b)
      head == h0.reg[i]
  IN  IF head = NULL THEN [h0 EXCEPT !.reg[i] = b]
      ELSE [SetPrev(SetNext(h0, b, head), head, b) EXCEPT !.reg[i] = b]

remove_from_bin(h, i, b) ==
  LET before == Prev(h.mem, b)
      after == Next_(h.mem, b)
      h1 == IF before # NULL THEN SetNext(h, before, after) ELSE [h EXCEPT !.reg[i] = after]
      h2 == IF after # NULL THEN SetPrev(h1, after, before) ELSE h1
  IN  Unlink(h2, b)

insert_sorted(h, i, b) ==
  LET h0 == Unlink(h, b)
      head == h0.reg[i]
      cur == FirstFit(h0.mem, head, Size(h0.mem, b))
      last == Last(ListOf(h0.mem, head))
      before == Prev(h0.mem, cur)
  IN  IF head = NULL THEN [h0 EXCEPT !.reg[i] = b]
      ELSE IF cur = head THEN [SetPrev(SetNext(h0, b, cur), cur, b) EXCEPT !.reg[i] = b]
      ELSE IF cur = NULL THEN SetPrev(SetNext(h0, last, b), b, last)
      ELSE SetPrev(SetNext(SetPrev(SetNext(h0, b, cur), b, before), before, b), cur, b)

push(h, i, b) == [SetNext(h, b, h.fast[i]) EXCEPT !.fast[i] = b]

\* What is left of a block or of a region becomes a free block of its own.
AddLeftover(h, b, size) ==
  LET h1 == Unlink(SetFree(SetSize(h, b, size), b, 1), b)
  IN  IF index_fastbin(size) # -1
      THEN push(h1, index_fastbin(size), b)
      ELSE insert_sorted(h1, index_regbin(size), b)

-----------------------------------------------------------------------------
Init ==
  /\ mem = << >>
  /\ fastbins = [i \in 0..3 |-> NULL]
  /\ regbins = [i \in 0..3 |-> NULL]
  /\ mapped = << >>
  /\ live = << >>

Becomes(h) ==
  /\ mem' = h.mem
  /\ fastbins' = h.fast
  /\ regbins' = h.reg

\* my_malloc returns the memory behind b's header and the client clears it.
Return(h, b, size) ==
  LET p == b + HEADER_SIZE
  IN  /\ Becomes([h EXCEPT !.mem = Without(@, {a \in DOMAIN @ : a + 8 > p /\ a < p + size})])
      /\ live' = With(live, p, size)

TotalUnrounded(size) == size + HEADER_SIZE

\* total_size: room for the header, rounded up to 8.
Total(size) == ((size + HEADER_SIZE + 7) \div 8) * 8

FastBlock(total) ==
  IF total <= 40 /\ index_fastbin(total) # -1 THEN fastbins[index_fastbin(total)] ELSE NULL

FitBlock(total) == FirstFit(mem, regbins[index_regbin(total)], total)

MallocFast(size) ==
  LET b == FastBlock(Total(size))
  IN  /\ b # NULL
      /\ Return(SetFree(SetNext([heap EXCEPT !.fast[index_fastbin(Total(size))] = Next_(mem, b)],
                                b, NULL), b, 0), b, size)
      /\ UNCHANGED mapped

\* The first fit of the one regular bin of its size, split if MIN_SPLIT is left.
MallocFit(size) ==
  LET total == Total(size)
      b == FitBlock(total)
      taken == SetFree(remove_from_bin(heap, index_regbin(total), b), b, 0)
      leftover == Size(taken.mem, b) - total
  IN  /\ FastBlock(total) = NULL
      /\ b # NULL
      /\ Return(IF leftover >= MIN_SPLIT
                THEN SetSize(AddLeftover(taken, b + total, leftover), b, total)
                ELSE taken, b, size)
      /\ UNCHANGED mapped

\* alloc_size: the pages for the block and the sentinel behind it.
AllocSize(total) == ((total + HEADER_SIZE + PAGE - 1) \div PAGE) * PAGE

\* Where the next region goes.
Brk == IF mapped = << >> THEN PAGE
       ELSE LET last == CHOOSE r \in DOMAIN mapped : \A s \in DOMAIN mapped : s <= r
            IN  last + mapped[last]

NeedsRegion(total) == FastBlock(total) = NULL /\ FitBlock(total) = NULL

MallocMap(size) ==
  LET total == Total(size)
      length == AllocSize(total)
      sentinel == Brk + length - HEADER_SIZE
      h1 == Unlink(SetFree(SetSize(heap, sentinel, 0), sentinel, 0), sentinel)
      h2 == Unlink(SetFree(SetSize(h1, Brk, total), Brk, 0), Brk)
      leftover == length - total - HEADER_SIZE
  IN  /\ NeedsRegion(total)
      /\ Cardinality(DOMAIN mapped) < MaxRegions
      /\ Return(IF leftover >= MIN_SPLIT THEN AddLeftover(h2, Brk + total, leftover) ELSE h2,
                Brk, size)
      /\ mapped' = With(mapped, Brk, length)

\* mmap fails: my_malloc returns NULL.
MallocFails(size) ==
  /\ NeedsRegion(Total(size))
  /\ Cardinality(DOMAIN mapped) = MaxRegions
  /\ UNCHANGED vars

Malloc(size) == MallocFast(size) \/ MallocFit(size) \/ MallocMap(size) \/ MallocFails(size)

-----------------------------------------------------------------------------
Block(p) == p - HEADER_SIZE
Successor(b) == b + Size(mem, b)
Forget(p) == live' = [q \in DOMAIN live \ {p} |-> live[q]]
ToFastbin(b) == Size(mem, b) <= 40 /\ index_fastbin(Size(mem, b)) # -1
IsSentinel(m, b) == IsFree(m, b) = 0 /\ Size(m, b) = 0

FreeFast(p) ==
  LET b == Block(p)
  IN  /\ p \in DOMAIN live
      /\ ToFastbin(b)
      /\ Becomes(push(SetPrev(SetFree(heap, b, 1), b, NULL), index_fastbin(Size(mem, b)), b))
      /\ Forget(p)
      /\ UNCHANGED mapped

CoalescedStillInBin(h, b) ==
  LET next == b + Size(h.mem, b)
  IN  IF IsSentinel(h.mem, next) THEN h
      ELSE SetSize(h, b, Size(h.mem, b) + Size(h.mem, next))

CoalescedPayload(h, b) ==
  LET next == b + Size(h.mem, b)
      h1 == remove_from_bin(h, index_regbin(Size(h.mem, next)), next)
  IN  IF IsSentinel(h.mem, next) THEN h
      ELSE SetSize(h1, b, Size(h1.mem, b) + Size(h1.mem, next) - HEADER_SIZE)

\* The block that follows is merged unless it is the sentinel, whoever has it.
Coalesced(h, b) ==
  LET next == b + Size(h.mem, b)
      h1 == remove_from_bin(h, index_regbin(Size(h.mem, next)), next)
  IN  IF IsSentinel(h.mem, next) THEN h
      ELSE SetSize(h1, b, Size(h1.mem, b) + Size(h1.mem, next))

FreeRegular(p) ==
  LET b == Block(p)
      merged == Coalesced(SetFree(heap, b, 1), b)
  IN  /\ p \in DOMAIN live
      /\ ~ToFastbin(b)
      /\ Becomes(insert_sorted(merged, index_regbin(Size(merged.mem, b)), b))
      /\ Forget(p)
      /\ UNCHANGED mapped

Free(p) == FreeFast(p) \/ FreeRegular(p)

\* Any client that frees only what it has.
Next ==
  \/ \E size \in Requests : Malloc(size)
  \/ \E p \in DOMAIN live : Free(p)

Spec == Init /\ [][Next]_vars

-----------------------------------------------------------------------------
(* The client the program can serve.  It frees a block only when the block *)
(* behind it is the sentinel or in a regular bin (or when the block itself *)
(* goes to a fast bin), and it asks for no size that leaves 16 or 24 bytes *)
(* of a block or a region, which no header fits in.                        *)
Leftover(size) ==
  LET total == Total(size)
  IN  IF FastBlock(total) # NULL THEN 0
      ELSE IF FitBlock(total) # NULL THEN Size(mem, FitBlock(total)) - total
      ELSE AllocSize(total) - total - HEADER_SIZE

InRegbin(b) == \E i \in 0..3 : b \in ToSet(ListOf(mem, regbins[i]))

CarefulMalloc(size) == Leftover(size) \notin {16, 24} /\ Malloc(size)

CarefulFree(p) ==
  /\ ToFastbin(Block(p)) \/ IsSentinel(mem, Successor(Block(p))) \/ InRegbin(Successor(Block(p)))
  /\ Free(p)

CarefulNext ==
  \/ \E size \in Requests : CarefulMalloc(size)
  \/ \E p \in DOMAIN live : CarefulFree(p)

CarefulSpec == Init /\ [][CarefulNext]_vars

-----------------------------------------------------------------------------
\* The blocks of the region at r in the order of their addresses, and its end.
BlocksOf(r) ==
  LET from[b \in Nat] == IF Size(mem, b) = 0 THEN <<b>> ELSE <<b>> \o from[Successor(b)]
  IN  from[r]

Blocks == UNION {ToSet(Front(BlocksOf(r))) : r \in DOMAIN mapped}
LiveBlocks == {Block(p) : p \in DOMAIN live}
Fast(i) == ListOf(mem, fastbins[i])
Regular(i) == ListOf(mem, regbins[i])

\* The headers are pointers and sizes, the bins start at blocks.
TypeOK ==
  /\ \A a \in DOMAIN mem : a % 8 = 0 /\ mem[a] \in Nat
  /\ {fastbins[i] : i \in 0..3} \union {regbins[i] : i \in 0..3} \subseteq Blocks \union {NULL}
  /\ \A p \in DOMAIN live : live[p] \in Requests

\* Blocks fill each region up to its sentinel without gap or overlap, so that what
\* my_free finds behind the block it frees is a block or the sentinel (line 244).  A
\* region with 8 bytes left over keeps them before the sentinel: there a sentinel
\* is read too, for the size of the real one stands in the place of is_free.
Tiled ==
  \A r \in DOMAIN mapped :
    LET end == Last(BlocksOf(r))
    IN  end + HEADER_SIZE \in {r + mapped[r], r + mapped[r] - 8} /\ IsSentinel(mem, end)

\* A block is live, or in exactly one bin and exactly once: none is lost and
\* none can be handed out twice.
EveryBlockOnce ==
  LET bins == Fast(0) \o Fast(1) \o Fast(2) \o Fast(3)
              \o Regular(0) \o Regular(1) \o Regular(2) \o Regular(3)
  IN  /\ IsInjective(bins)
      /\ ToSet(bins) = Blocks \ LiveBlocks
      /\ LiveBlocks \subseteq Blocks
      /\ {b \in Blocks : IsFree(mem, b) = 1} = ToSet(bins)

\* A regular bin holds the sizes of its index in ascending order, linked both
\* ways, so that the first fit is the smallest one and any block can be taken
\* out from the middle.
BinsSorted ==
  /\ \A i \in 0..3 : \A k \in 1..Len(Regular(i)) :
       LET b == Regular(i)[k]
       IN  /\ index_regbin(Size(mem, b)) = i
           /\ Prev(mem, b) = IF k = 1 THEN NULL ELSE Regular(i)[k - 1]
           /\ k > 1 => Size(mem, Regular(i)[k - 1]) <= Size(mem, b)
  /\ \A i \in 0..3 : \A k \in 1..Len(Fast(i)) : index_fastbin(Size(mem, Fast(i)[k])) = i

Abstract == INSTANCE Allocator

\* my_malloc gives memory nobody has, my_free takes back only what it is given
\* (lines 147-261).
ImplementsAllocator == Abstract!Spec

\* No two allocations the client has overlap; my_free is to coalesce "if
\* possible" (README.md:41-42), which with a block in use it is not.
LiveDisjoint ==
  \A p, q \in DOMAIN live : p # q => p + live[p] <= q \/ q + live[q] <= p

\* "Creates allocated block at head and sentinal block at tail" (README.md:31-32):
\* the header that my_free tells the end of a region by stays what it is.
SentinelAtTail ==
  \A r \in DOMAIN mapped : IsSentinel(mem, r + mapped[r] - HEADER_SIZE)
=============================================================================
