--------------------------- MODULE MyMallocProofs ---------------------------
(*****************************************************************************)
(* The allocator of mymalloc.c with the client it can serve, for every page  *)
(* size, every set of requests and any number of regions: no block is lost or *)
(* handed out twice, the bins stay sorted and linked both ways, the blocks   *)
(* tile the regions up to their sentinels, and what the client sees is an    *)
(* allocator.  The invariant names what the state only implies: the blocks B, *)
(* the end E[r] of the walk over each region, and the list L[j] of each bin. *)
(* Its parts are Binned (the lists), Tiles and Regions (the addresses) and   *)
(* Served (the client); each function of the program is shown to keep them   *)
(* before the calls are.                                                     *)
(*****************************************************************************)
EXTENDS MyMalloc, FiniteSetTheorems, SequenceTheorems, WellFoundedInduction, TLAPS

\* Memory, and the four words of a header.

Addresses == {a \in Nat : a % 8 = 0}
Memories == {m \in UNION {[D -> Nat] : D \in SUBSET Addresses} : IsFiniteSet(DOMAIN m)}
Bins == 0..3
Heaps == [mem : Memories, fast : [Bins -> Nat], reg : [Bins -> Nat]]

\* A function with one value set.
LEMMA WithValue ==
  ASSUME NEW f, NEW x, NEW v
  PROVE  /\ DOMAIN With(f, x, v) = DOMAIN f \cup {x}
         /\ With(f, x, v)[x] = v
         /\ \A y \in DOMAIN f : y # x => With(f, x, v)[y] = f[y]
         /\ \A y \in DOMAIN With(f, x, v) : y = x \/ y \in DOMAIN f
  BY DEF With

\* Memory is a finite function from word addresses.
LEMMA MemoryFacts ==
  ASSUME NEW m \in Memories
  PROVE  /\ DOMAIN m \subseteq Addresses /\ IsFiniteSet(DOMAIN m) /\ m \in [DOMAIN m -> Nat]
         /\ \A a : Word(m, a) \in Nat
<1>1. PICK D \in SUBSET Addresses : m \in [D -> Nat]
  BY DEF Memories
<1>2. DOMAIN m = D
  BY <1>1
<1>3. QED BY <1>1, <1>2 DEF Word, Memories

\* Any such function is a memory.
LEMMA MemoryIs ==
  ASSUME NEW m, NEW D, D \subseteq Addresses, IsFiniteSet(D), m \in [D -> Nat]
  PROVE  m \in Memories
  BY DEF Memories

\* The words of S cleared.
LEMMA WithoutWord ==
  ASSUME NEW m \in Memories, NEW S
  PROVE  /\ Without(m, S) \in Memories
         /\ \A x : Word(Without(m, S), x) = IF x \in S THEN 0 ELSE Word(m, x)
         /\ DOMAIN Without(m, S) \subseteq DOMAIN m
<1> DEFINE D == DOMAIN m \ S
<1>1. D \subseteq Addresses /\ IsFiniteSet(D)
  BY MemoryFacts, FS_Subset
<1>2. Without(m, S) \in [D -> Nat]
  BY MemoryFacts DEF Without
<1>3. Without(m, S) \in Memories
  <2> HIDE DEF D
  <2>1. QED BY <1>1, <1>2, MemoryIs
<1>4. QED BY <1>3 DEF Without, Word

\* The word at a set.
LEMMA WithWord ==
  ASSUME NEW m \in Memories, NEW a \in Addresses, NEW w \in Nat
  PROVE  /\ With(m, a, w) \in Memories
         /\ \A x : Word(With(m, a, w), x) = IF x = a THEN w ELSE Word(m, x)
         /\ DOMAIN With(m, a, w) = DOMAIN m \cup {a}
<1> DEFINE D == DOMAIN m \cup {a}
<1>1. D \subseteq Addresses /\ IsFiniteSet(D)
  BY MemoryFacts, FS_AddElement
<1>2. With(m, a, w) \in [D -> Nat]
  BY MemoryFacts DEF With
<1>3. With(m, a, w) \in Memories
  <2> HIDE DEF D
  <2>1. QED BY <1>1, <1>2, MemoryIs
<1>4. QED BY <1>3 DEF With, Word

\* g is h with the word at a set to w.
Overwrites(h, g, a, w) ==
  /\ g \in Heaps /\ g.fast = h.fast /\ g.reg = h.reg
  /\ \A x : Word(g.mem, x) = IF x = a THEN w ELSE Word(h.mem, x)
  /\ \A x \in DOMAIN g.mem : x \in DOMAIN h.mem \/ x = a

\* Write writes one word.
LEMMA WriteWord ==
  ASSUME NEW h \in Heaps, NEW a \in Addresses, NEW w \in Nat, NEW g, g = Write(h, a, w)
  PROVE  Overwrites(h, g, a, w)
<1> DEFINE m == IF w = 0 THEN Without(h.mem, {a}) ELSE With(h.mem, a, w)
<1>1. m \in Memories /\ (\A x : Word(m, x) = IF x = a THEN w ELSE Word(h.mem, x)) /\ DOMAIN m \subseteq DOMAIN h.mem \cup {a}
  <2>1. h.mem \in Memories
    BY DEF Heaps
  <2>2. CASE w = 0
    BY <2>1, <2>2, WithoutWord
  <2>3. CASE w # 0
    <3>1. m = With(h.mem, a, w)
      BY <2>3
    <3>2. /\ With(h.mem, a, w) \in Memories /\ DOMAIN With(h.mem, a, w) = DOMAIN h.mem \cup {a}
          /\ \A x : Word(With(h.mem, a, w), x) = IF x = a THEN w ELSE Word(h.mem, x)
      BY <2>1, WithWord, ZenonT(40)
    <3> HIDE DEF m
    <3>3. QED BY <3>1, <3>2
  <2>4. QED BY <2>2, <2>3
<1>2. g = [h EXCEPT !.mem = m]
  BY DEF Write
<1> HIDE DEF m
<1>3. g \in Heaps /\ g.mem = m /\ g.fast = h.fast /\ g.reg = h.reg
  BY <1>1, <1>2 DEF Heaps
<1>4. QED BY ONLY <1>1, <1>3 DEF Overwrites

-----------------------------------------------------------------------------
\* Headers do not overlap.
Spaced(H) ==
  /\ H \subseteq Addresses \ {NULL}
  /\ \A b, c \in H : b < c => b + HEADER_SIZE <= c

\* The words of headers are words of their own.
LEMMA HeaderWords ==
  ASSUME NEW H, Spaced(H), NEW b \in H, NEW c \in H
  PROVE  /\ {b, b + 8, b + 16, b + 24} \subseteq Addresses
         /\ b # c => {b, b + 8, b + 16, b + 24} \cap {c, c + 8, c + 16, c + 24} = {}
         /\ b \in Nat
<1>1. b \in Nat /\ c \in Nat /\ b % 8 = 0
  BY DEF Spaced, Addresses
<1>2. b < c => b + 32 <= c
  BY DEF Spaced, HEADER_SIZE
<1>3. c < b => c + 32 <= b
  BY DEF Spaced, HEADER_SIZE
<1>4. {b, b + 8, b + 16, b + 24} \subseteq Addresses
  BY <1>1 DEF Addresses
<1>5. ASSUME b # c PROVE {b, b + 8, b + 16, b + 24} \cap {c, c + 8, c + 16, c + 24} = {}
  <2>1. CASE b < c
    BY <1>1, <1>2, <2>1
  <2>2. CASE c < b
    BY <1>1, <1>3, <2>2
  <2>3. QED BY <1>1, <1>5, <2>1, <2>2
<1>6. QED BY <1>1, <1>4, <1>5

\* What the writes to the header of b make of the headers in H.
Sized(h, g, H, b, v) ==
  \A c \in H : /\ Size(g.mem, c) = IF c = b THEN v ELSE Size(h.mem, c)
               /\ IsFree(g.mem, c) = IsFree(h.mem, c) /\ Next_(g.mem, c) = Next_(h.mem, c) /\ Prev(g.mem, c) = Prev(h.mem, c)
Freeing(h, g, H, b, v) ==
  \A c \in H : /\ IsFree(g.mem, c) = IF c = b THEN v ELSE IsFree(h.mem, c)
               /\ Size(g.mem, c) = Size(h.mem, c) /\ Next_(g.mem, c) = Next_(h.mem, c) /\ Prev(g.mem, c) = Prev(h.mem, c)
Nexted(h, g, H, b, v) ==
  \A c \in H : /\ Next_(g.mem, c) = IF c = b THEN v ELSE Next_(h.mem, c)
               /\ Size(g.mem, c) = Size(h.mem, c) /\ IsFree(g.mem, c) = IsFree(h.mem, c) /\ Prev(g.mem, c) = Prev(h.mem, c)
Preved(h, g, H, b, v) ==
  \A c \in H : /\ Prev(g.mem, c) = IF c = b THEN v ELSE Prev(h.mem, c)
               /\ Size(g.mem, c) = Size(h.mem, c) /\ IsFree(g.mem, c) = IsFree(h.mem, c) /\ Next_(g.mem, c) = Next_(h.mem, c)

\* The heads stay, and no word is written but those of headers in H.
Within(h, g, H) ==
  /\ g \in Heaps
  /\ \A a \in DOMAIN g.mem : a \in DOMAIN h.mem \/ \E c \in H : c <= a /\ a < c + HEADER_SIZE
SameHeads(h, g) == g.fast = h.fast /\ g.reg = h.reg

\* One word of the header of b written.
LEMMA HeaderWrites ==
  ASSUME NEW h \in Heaps, NEW H, Spaced(H), NEW b \in H, NEW v \in Nat
  PROVE  /\ Sized(h, SetSize(h, b, v), H, b, v) /\ Within(h, SetSize(h, b, v), H) /\ SameHeads(h, SetSize(h, b, v))
         /\ Freeing(h, SetFree(h, b, v), H, b, v) /\ Within(h, SetFree(h, b, v), H) /\ SameHeads(h, SetFree(h, b, v))
         /\ Nexted(h, SetNext(h, b, v), H, b, v) /\ Within(h, SetNext(h, b, v), H) /\ SameHeads(h, SetNext(h, b, v))
         /\ Preved(h, SetPrev(h, b, v), H, b, v) /\ Within(h, SetPrev(h, b, v), H) /\ SameHeads(h, SetPrev(h, b, v))
<1> DEFINE W == {b, b + 8, b + 16, b + 24}
<1>1. W \subseteq Addresses /\ b \in Nat
  BY HeaderWords
<1>2. ASSUME NEW a \in W, NEW g, g = Write(h, a, v)
      PROVE  Within(h, g, H) /\ SameHeads(h, g) /\ \A x : Word(g.mem, x) = IF x = a THEN v ELSE Word(h.mem, x)
  <2>1. g \in Heaps /\ SameHeads(h, g) /\ (\A x : Word(g.mem, x) = IF x = a THEN v ELSE Word(h.mem, x))
        /\ \A x \in DOMAIN g.mem : x \in DOMAIN h.mem \/ x = a
    <3>1. a \in Addresses
      BY <1>1
    <3>2. Overwrites(h, g, a, v)
      BY <1>2, <3>1, WriteWord
    <3>3. QED BY <3>2 DEF Overwrites, SameHeads
  <2>2. b <= a /\ a < b + HEADER_SIZE
    BY <1>1, <1>2 DEF HEADER_SIZE
  <2>3. QED BY <2>1, <2>2 DEF Within
<1>3. ASSUME NEW c \in H, c # b PROVE {c, c + 8, c + 16, c + 24} \cap W = {}
  BY <1>3, HeaderWords
<1>4. b # b + 8 /\ b # b + 16 /\ b # b + 24 /\ b + 8 # b + 16 /\ b + 8 # b + 24 /\ b + 16 # b + 24
  BY <1>1
<1>5. Sized(h, SetSize(h, b, v), H, b, v) /\ Within(h, SetSize(h, b, v), H) /\ SameHeads(h, SetSize(h, b, v))
  <2> DEFINE g == SetSize(h, b, v)
  <2>1. Within(h, g, H) /\ SameHeads(h, g) /\ \A x : Word(g.mem, x) = IF x = b THEN v ELSE Word(h.mem, x)
    BY <1>2 DEF SetSize
  <2> HIDE DEF g
  <2>2. QED BY <1>3, <1>4, <2>1 DEF Sized, Size, IsFree, Next_, Prev, g
<1>6. Freeing(h, SetFree(h, b, v), H, b, v) /\ Within(h, SetFree(h, b, v), H) /\ SameHeads(h, SetFree(h, b, v))
  <2> DEFINE g == SetFree(h, b, v)
  <2>1. Within(h, g, H) /\ SameHeads(h, g) /\ \A x : Word(g.mem, x) = IF x = b + 8 THEN v ELSE Word(h.mem, x)
    BY <1>2 DEF SetFree
  <2> HIDE DEF g
  <2>2. QED BY <1>3, <1>4, <2>1 DEF Freeing, Size, IsFree, Next_, Prev, g
<1>7. Nexted(h, SetNext(h, b, v), H, b, v) /\ Within(h, SetNext(h, b, v), H) /\ SameHeads(h, SetNext(h, b, v))
  <2> DEFINE g == SetNext(h, b, v)
  <2>1. Within(h, g, H) /\ SameHeads(h, g) /\ \A x : Word(g.mem, x) = IF x = b + 16 THEN v ELSE Word(h.mem, x)
    BY <1>2 DEF SetNext
  <2> HIDE DEF g
  <2>2. QED BY <1>3, <1>4, <2>1 DEF Nexted, Size, IsFree, Next_, Prev, g
<1>8. Preved(h, SetPrev(h, b, v), H, b, v) /\ Within(h, SetPrev(h, b, v), H) /\ SameHeads(h, SetPrev(h, b, v))
  <2> DEFINE g == SetPrev(h, b, v)
  <2>1. Within(h, g, H) /\ SameHeads(h, g) /\ \A x : Word(g.mem, x) = IF x = b + 24 THEN v ELSE Word(h.mem, x)
    BY <1>2 DEF SetPrev
  <2> HIDE DEF g
  <2>2. QED BY <1>3, <1>4, <2>1 DEF Preved, Size, IsFree, Next_, Prev, g
<1>9. QED BY <1>5, <1>6, <1>7, <1>8

-----------------------------------------------------------------------------
\* A bin's list, and a block that enters or leaves it.

\* The element of s at k, NULL before the first and behind the last.
At(s, k) == IF k \in 1..Len(s) THEN s[k] ELSE NULL
Inserted(s, p, b) == [k \in 1..Len(s) + 1 |-> IF k < p THEN s[k] ELSE IF k = p THEN b ELSE s[k - 1]]
Dropped(s, p) == [k \in 1..Len(s) - 1 |-> IF k < p THEN s[k] ELSE s[k + 1]]

\* The eight bins in one row: the fast ones, then the regular ones.
AllBins == 0..7
HeadOf(h, j) == IF j < 4 THEN h.fast[j] ELSE h.reg[j - 4]
BinOf(size) == IF index_fastbin(size) # -1 THEN index_fastbin(size) ELSE 4 + index_regbin(size)

\* s is the list of bin j.
List(h, j, s) ==
  /\ HeadOf(h, j) = At(s, 1)
  /\ \A k \in 1..Len(s) :
       /\ Next_(h.mem, s[k]) = At(s, k + 1)
       /\ IsFree(h.mem, s[k]) = 1 /\ BinOf(Size(h.mem, s[k])) = j /\ Size(h.mem, s[k]) # 0
       /\ s[k] \in Nat \ {NULL}
       /\ j >= 4 => Prev(h.mem, s[k]) = At(s, k - 1)
  /\ \A k, l \in 1..Len(s) : k < l => s[k] # s[l] /\ (j >= 4 => Size(h.mem, s[k]) <= Size(h.mem, s[l]))

\* The words of c are the same in g and in h.
SameHeader(h, g, c) ==
  /\ Size(g.mem, c) = Size(h.mem, c) /\ IsFree(g.mem, c) = IsFree(h.mem, c)
  /\ Next_(g.mem, c) = Next_(h.mem, c) /\ Prev(g.mem, c) = Prev(h.mem, c)

\* g is h with b linked into the list s of bin j at position p.
Entered(h, g, j, s, p, b) ==
  /\ p \in 1..Len(s) + 1
  /\ HeadOf(g, j) = IF p = 1 THEN b ELSE HeadOf(h, j)
  /\ b \in Nat \ {NULL} /\ IsFree(g.mem, b) = 1 /\ BinOf(Size(g.mem, b)) = j /\ Size(g.mem, b) # 0
  /\ Next_(g.mem, b) = At(s, p)
  /\ j >= 4 => Prev(g.mem, b) = At(s, p - 1)
  /\ \A k \in 1..Len(s) :
       /\ s[k] # b
       /\ IsFree(g.mem, s[k]) = IsFree(h.mem, s[k]) /\ Size(g.mem, s[k]) = Size(h.mem, s[k])
       /\ Next_(g.mem, s[k]) = IF k = p - 1 THEN b ELSE Next_(h.mem, s[k])
       /\ j >= 4 => /\ Prev(g.mem, s[k]) = IF k = p THEN b ELSE Prev(h.mem, s[k])
                    /\ k < p => Size(h.mem, s[k]) <= Size(g.mem, b)
                    /\ k >= p => Size(g.mem, b) <= Size(h.mem, s[k])

\* g is h with the block at position p of the list s of bin j taken out.
TakenOut(h, g, j, s, p) ==
  /\ p \in 1..Len(s)
  /\ HeadOf(g, j) = IF p = 1 THEN At(s, 2) ELSE HeadOf(h, j)
  /\ \A k \in 1..Len(s) : k # p =>
       /\ IsFree(g.mem, s[k]) = IsFree(h.mem, s[k]) /\ Size(g.mem, s[k]) = Size(h.mem, s[k])
       /\ Next_(g.mem, s[k]) = IF k = p - 1 THEN At(s, p + 1) ELSE Next_(h.mem, s[k])
       /\ j >= 4 => Prev(g.mem, s[k]) = IF k = p + 1 THEN At(s, p - 1) ELSE Prev(h.mem, s[k])

\* A sequence with one more element at p.
LEMMA InsertedIs ==
  ASSUME NEW S, NEW s \in Seq(S), NEW b \in S, NEW p \in 1..Len(s) + 1
  PROVE  /\ Inserted(s, p, b) \in Seq(S) /\ Len(Inserted(s, p, b)) = Len(s) + 1 /\ Len(s) \in Nat
         /\ \A k \in 1..Len(s) + 1 : Inserted(s, p, b)[k] = IF k < p THEN s[k] ELSE IF k = p THEN b ELSE s[k - 1]
<1>1. Len(s) \in Nat /\ \A k \in 1..Len(s) : s[k] \in S
  OBVIOUS
<1>2. \A k \in 1..Len(s) + 1 : (IF k < p THEN s[k] ELSE IF k = p THEN b ELSE s[k - 1]) \in S
  BY <1>1
<1>3. Inserted(s, p, b) \in [1..Len(s) + 1 -> S]
  BY <1>2 DEF Inserted
<1>4. QED BY <1>1, <1>3 DEF Inserted

\* A sequence without its element at p.
LEMMA DroppedIs ==
  ASSUME NEW S, NEW s \in Seq(S), NEW p \in 1..Len(s)
  PROVE  /\ Dropped(s, p) \in Seq(S) /\ Len(Dropped(s, p)) = Len(s) - 1 /\ Len(s) - 1 \in Nat
         /\ \A k \in 1..Len(s) - 1 : Dropped(s, p)[k] = IF k < p THEN s[k] ELSE s[k + 1]
<1>1. Len(s) \in Nat /\ \A k \in 1..Len(s) : s[k] \in S
  OBVIOUS
<1>2. \A k \in 1..Len(s) - 1 : (IF k < p THEN s[k] ELSE s[k + 1]) \in S
  BY <1>1
<1>3. Dropped(s, p) \in [1..Len(s) - 1 -> S]
  BY <1>2 DEF Dropped
<1>4. QED BY <1>1, <1>3 DEF Dropped

\* A list none of whose headers changed is still the list.
LEMMA ListKept ==
  ASSUME NEW h, NEW g, NEW j, NEW s, List(h, j, s), HeadOf(g, j) = HeadOf(h, j),
         \A k \in 1..Len(s) : SameHeader(h, g, s[k])
  PROVE  List(g, j, s)
<1>1. \A k \in 1..Len(s) : /\ Next_(g.mem, s[k]) = At(s, k + 1)
                           /\ IsFree(g.mem, s[k]) = 1 /\ BinOf(Size(g.mem, s[k])) = j /\ Size(g.mem, s[k]) # 0
                           /\ s[k] \in Nat \ {NULL}
                           /\ j >= 4 => Prev(g.mem, s[k]) = At(s, k - 1)
  BY DEF List, SameHeader
<1>2. \A k, l \in 1..Len(s) : k < l => s[k] # s[l] /\ (j >= 4 => Size(g.mem, s[k]) <= Size(g.mem, s[l]))
  BY DEF List, SameHeader
<1>3. QED BY <1>1, <1>2 DEF List

\* The list with b at p is the bin's list then.
LEMMA ListEntered ==
  ASSUME NEW h, NEW g, NEW j \in AllBins, NEW S, NEW s \in Seq(S), NEW p, NEW b \in S,
         List(h, j, s), Entered(h, g, j, s, p, b)
  PROVE  List(g, j, Inserted(s, p, b))
<1> DEFINE n == Len(s)
           t == Inserted(s, p, b)
<1>1. n \in Nat /\ p \in 1..n + 1 /\ Len(t) = n + 1
      /\ \A k \in 1..n + 1 : t[k] = IF k < p THEN s[k] ELSE IF k = p THEN b ELSE s[k - 1]
  BY InsertedIs DEF Entered
<1>2. \A k \in 1..n : s[k] \in Nat \ {NULL} /\ Next_(h.mem, s[k]) = At(s, k + 1) /\ IsFree(h.mem, s[k]) = 1
                      /\ BinOf(Size(h.mem, s[k])) = j /\ Size(h.mem, s[k]) # 0 /\ (j >= 4 => Prev(h.mem, s[k]) = At(s, k - 1))
  BY DEF List
<1>3. \A k, l \in 1..n : k < l => s[k] # s[l] /\ (j >= 4 => Size(h.mem, s[k]) <= Size(h.mem, s[l]))
  BY DEF List
<1>4. /\ HeadOf(g, j) = IF p = 1 THEN b ELSE HeadOf(h, j)
      /\ b \in Nat \ {NULL} /\ IsFree(g.mem, b) = 1 /\ BinOf(Size(g.mem, b)) = j /\ Size(g.mem, b) # 0
      /\ Next_(g.mem, b) = At(s, p) /\ (j >= 4 => Prev(g.mem, b) = At(s, p - 1))
  BY DEF Entered
<1>5. \A k \in 1..n :
       /\ s[k] # b
       /\ IsFree(g.mem, s[k]) = IsFree(h.mem, s[k]) /\ Size(g.mem, s[k]) = Size(h.mem, s[k])
       /\ Next_(g.mem, s[k]) = IF k = p - 1 THEN b ELSE Next_(h.mem, s[k])
       /\ j >= 4 => /\ Prev(g.mem, s[k]) = IF k = p THEN b ELSE Prev(h.mem, s[k])
                    /\ k < p => Size(h.mem, s[k]) <= Size(g.mem, b)
                    /\ k >= p => Size(g.mem, b) <= Size(h.mem, s[k])
  BY DEF Entered
<1>6. HeadOf(h, j) = At(s, 1)
  BY DEF List
<1>7. \A k \in Int : At(s, k) = (IF k \in 1..n THEN s[k] ELSE NULL) /\ At(t, k) = (IF k \in 1..n + 1 THEN t[k] ELSE NULL)
  BY <1>1 DEF At
<1> HIDE DEF t, n
<1>8. HeadOf(g, j) = At(t, 1)
  BY <1>1, <1>4, <1>6, <1>7
<1>9. ASSUME NEW k \in 1..n + 1
      PROVE  /\ Next_(g.mem, t[k]) = At(t, k + 1)
             /\ IsFree(g.mem, t[k]) = 1 /\ BinOf(Size(g.mem, t[k])) = j /\ Size(g.mem, t[k]) # 0
             /\ t[k] \in Nat \ {NULL}
             /\ j >= 4 => Prev(g.mem, t[k]) = At(t, k - 1)
  <2>1. CASE k < p
    <3>1. t[k] = s[k] /\ k \in 1..n
      BY <1>1, <2>1
    <3>2. At(t, k + 1) = (IF k = p - 1 THEN b ELSE At(s, k + 1)) /\ At(t, k - 1) = At(s, k - 1)
      BY <1>1, <1>7, <2>1
    <3>3. Next_(g.mem, s[k]) = IF k = p - 1 THEN b ELSE At(s, k + 1)
      BY <1>2, <1>5, <3>1
    <3>4. j >= 4 => Prev(g.mem, s[k]) = At(s, k - 1)
      BY <1>1, <1>2, <1>5, <2>1, <3>1
    <3>5. QED BY <1>2, <1>5, <3>1, <3>2, <3>3, <3>4
  <2>2. CASE k = p
    <3>1. t[k] = b
      BY <1>1, <2>2
    <3>2. At(t, k + 1) = At(s, p) /\ At(t, k - 1) = At(s, p - 1)
      BY <1>1, <1>7, <2>2
    <3>3. QED BY <1>4, <3>1, <3>2
  <2>3. CASE k > p
    <3>1. t[k] = s[k - 1] /\ k - 1 \in 1..n /\ k - 1 # p - 1
      BY <1>1, <2>3
    <3>2. At(t, k + 1) = At(s, k) /\ At(t, k - 1) = IF k - 1 = p THEN b ELSE At(s, k - 2)
      BY <1>1, <1>7, <2>3
    <3>3. Next_(g.mem, s[k - 1]) = At(s, k)
      BY <1>2, <1>5, <3>1
    <3>4. j >= 4 => Prev(g.mem, s[k - 1]) = IF k - 1 = p THEN b ELSE At(s, k - 2)
      BY <1>2, <1>5, <3>1
    <3>5. QED BY <1>2, <1>5, <3>1, <3>2, <3>3, <3>4
  <2>4. QED BY <1>1, <2>1, <2>2, <2>3
<1>10. ASSUME NEW k \in 1..n + 1, NEW l \in 1..n + 1, k < l
       PROVE  t[k] # t[l] /\ (j >= 4 => Size(g.mem, t[k]) <= Size(g.mem, t[l]))
  <2>1. CASE l < p
    <3>1. t[k] = s[k] /\ t[l] = s[l] /\ k \in 1..n /\ l \in 1..n
      BY <1>1, <1>10, <2>1
    <3>2. QED BY <1>3, <1>5, <1>10, <3>1
  <2>2. CASE l = p
    <3>1. t[k] = s[k] /\ t[l] = b /\ k \in 1..n /\ k < p
      BY <1>1, <1>10, <2>2
    <3>2. QED BY <1>5, <3>1
  <2>3. CASE l > p /\ k < p
    <3>1. t[k] = s[k] /\ t[l] = s[l - 1] /\ k \in 1..n /\ l - 1 \in 1..n /\ k < l - 1
      BY <1>1, <1>10, <2>3
    <3>2. QED BY <1>3, <1>5, <3>1
  <2>4. CASE l > p /\ k = p
    <3>1. t[k] = b /\ t[l] = s[l - 1] /\ l - 1 \in 1..n /\ l - 1 >= p
      BY <1>1, <1>10, <2>4
    <3>2. QED BY <1>5, <3>1
  <2>5. CASE k > p
    <3>1. t[k] = s[k - 1] /\ t[l] = s[l - 1] /\ k - 1 \in 1..n /\ l - 1 \in 1..n /\ k - 1 < l - 1
      BY <1>1, <1>10, <2>5
    <3>2. QED BY <1>3, <1>5, <3>1
  <2>6. QED BY <1>1, <1>10, <2>1, <2>2, <2>3, <2>4, <2>5
<1>11. QED BY <1>1, <1>8, <1>9, <1>10 DEF List, t

\* The list without its block at p is the bin's list then.
LEMMA ListTakenOut ==
  ASSUME NEW h, NEW g, NEW j \in AllBins, NEW S, NEW s \in Seq(S), NEW p,
         List(h, j, s), TakenOut(h, g, j, s, p)
  PROVE  List(g, j, Dropped(s, p))
<1> DEFINE n == Len(s)
           t == Dropped(s, p)
<1>1. n \in Nat /\ p \in 1..n /\ Len(t) = n - 1
      /\ \A k \in 1..n - 1 : t[k] = IF k < p THEN s[k] ELSE s[k + 1]
  <2>1. p \in 1..Len(s)
    BY DEF TakenOut
  <2>2. Len(s) \in Nat
    OBVIOUS
  <2>3. QED BY <2>1, <2>2, DroppedIs
<1>2. \A k \in 1..n : s[k] \in Nat \ {NULL} /\ Next_(h.mem, s[k]) = At(s, k + 1) /\ IsFree(h.mem, s[k]) = 1
                      /\ BinOf(Size(h.mem, s[k])) = j /\ Size(h.mem, s[k]) # 0 /\ (j >= 4 => Prev(h.mem, s[k]) = At(s, k - 1))
  BY DEF List
<1>3. \A k, l \in 1..n : k < l => s[k] # s[l] /\ (j >= 4 => Size(h.mem, s[k]) <= Size(h.mem, s[l]))
  BY DEF List
<1>4. HeadOf(g, j) = IF p = 1 THEN At(s, 2) ELSE HeadOf(h, j)
  BY DEF TakenOut
<1>5. \A k \in 1..n : k # p =>
       /\ IsFree(g.mem, s[k]) = IsFree(h.mem, s[k]) /\ Size(g.mem, s[k]) = Size(h.mem, s[k])
       /\ Next_(g.mem, s[k]) = IF k = p - 1 THEN At(s, p + 1) ELSE Next_(h.mem, s[k])
       /\ j >= 4 => Prev(g.mem, s[k]) = IF k = p + 1 THEN At(s, p - 1) ELSE Prev(h.mem, s[k])
  BY DEF TakenOut
<1>6. HeadOf(h, j) = At(s, 1)
  BY DEF List
<1>7. \A k \in Int : At(s, k) = (IF k \in 1..n THEN s[k] ELSE NULL) /\ At(t, k) = (IF k \in 1..n - 1 THEN t[k] ELSE NULL)
  BY <1>1 DEF At
<1> HIDE DEF t, n
<1>8. HeadOf(g, j) = At(t, 1)
  BY <1>1, <1>4, <1>6, <1>7
<1>9. ASSUME NEW k \in 1..n - 1
      PROVE  /\ Next_(g.mem, t[k]) = At(t, k + 1)
             /\ IsFree(g.mem, t[k]) = 1 /\ BinOf(Size(g.mem, t[k])) = j /\ Size(g.mem, t[k]) # 0
             /\ t[k] \in Nat \ {NULL}
             /\ j >= 4 => Prev(g.mem, t[k]) = At(t, k - 1)
  <2>1. CASE k < p
    <3>1. t[k] = s[k] /\ k \in 1..n /\ k # p /\ k # p + 1
      BY <1>1, <2>1
    <3>2. At(t, k + 1) = (IF k = p - 1 THEN At(s, p + 1) ELSE At(s, k + 1)) /\ At(t, k - 1) = At(s, k - 1)
      BY <1>1, <1>7, <2>1
    <3>3. Next_(g.mem, s[k]) = IF k = p - 1 THEN At(s, p + 1) ELSE At(s, k + 1)
      BY <1>2, <1>5, <3>1
    <3>4. j >= 4 => Prev(g.mem, s[k]) = At(s, k - 1)
      BY <1>2, <1>5, <3>1
    <3>5. QED BY <1>2, <1>5, <3>1, <3>2, <3>3, <3>4
  <2>2. CASE k >= p
    <3>1. t[k] = s[k + 1] /\ k + 1 \in 1..n /\ k + 1 # p /\ k + 1 # p - 1
      BY <1>1, <2>2
    <3>2. At(t, k + 1) = At(s, k + 2) /\ At(t, k - 1) = IF k = p THEN At(s, p - 1) ELSE At(s, k)
      <4>1. At(t, k + 1) = At(s, k + 2)
        BY <1>1, <1>7, <2>2
      <4>2. k = p => At(t, k - 1) = At(s, p - 1)
        BY <1>1, <1>7, <2>2
      <4>3. k # p => At(t, k - 1) = At(s, k)
        BY <1>1, <1>7, <2>2
      <4>4. QED BY <4>1, <4>2, <4>3
    <3>3. Next_(g.mem, s[k + 1]) = At(s, k + 2)
      BY <1>2, <1>5, <3>1
    <3>4. j >= 4 => Prev(g.mem, s[k + 1]) = IF k = p THEN At(s, p - 1) ELSE At(s, k)
      <4>1. (k + 1) - 1 = k /\ (k + 1 = p + 1 <=> k = p)
        BY <1>1
      <4>2. QED BY <1>2, <1>5, <3>1, <4>1
    <3>5. QED BY <1>2, <1>5, <3>1, <3>2, <3>3, <3>4
  <2>3. QED BY <1>1, <2>1, <2>2
<1>10. ASSUME NEW k \in 1..n - 1, NEW l \in 1..n - 1, k < l
       PROVE  t[k] # t[l] /\ (j >= 4 => Size(g.mem, t[k]) <= Size(g.mem, t[l]))
  <2>1. PICK x \in 1..n : t[k] = s[x] /\ x = (IF k < p THEN k ELSE k + 1) /\ x # p
    BY <1>1
  <2>2. PICK y \in 1..n : t[l] = s[y] /\ y = (IF l < p THEN l ELSE l + 1) /\ y # p
    BY <1>1
  <2>3. x < y
    BY <1>1, <1>10, <2>1, <2>2
  <2>4. QED BY <1>3, <1>5, <2>1, <2>2, <2>3
<1>11. QED BY <1>1, <1>8, <1>9, <1>10 DEF List, t

-----------------------------------------------------------------------------
\* Recursive functions, and the walk along a list.

\* Induction over the natural numbers, for a set of them.
LEMMA AllNaturals ==
  ASSUME NEW S, 0 \in S, \A n \in Nat : n \in S => n + 1 \in S
  PROVE  \A n \in Nat : n \in S
<1> SUFFICES ASSUME NEW x \in Nat, x \notin S PROVE FALSE
  OBVIOUS
<1> DEFINE T == {n \in Nat : n \notin S}
<1>1. T \subseteq Nat /\ T # {}
  OBVIOUS
<1>2. PICK m \in T : \A y \in T : ~(<<y, m>> \in OpToRel(<, Nat))
  BY <1>1, NatLessThanWellFounded, WFMin
<1>3. m \in Nat /\ m \notin S
  OBVIOUS
<1>4. m # 0 /\ m - 1 \in Nat /\ m - 1 < m
  BY <1>3
<1>5. m - 1 \notin T
  BY <1>2, <1>3, <1>4 DEF OpToRel
<1>6. m - 1 \in S
  BY <1>4, <1>5
<1>7. (m - 1) + 1 \in S
  BY <1>4, <1>6
<1>8. (m - 1) + 1 = m
  BY <1>3
<1>9. QED BY <1>3, <1>7, <1>8

\* A recursion whose steps lower a rank has a solution.  a is what x adds, nx
\* where it goes on, and it ends in Stop.
Step(f, Stop, a, nx, x) == IF x \in Stop THEN a[x] ELSE a[x] \o f[nx[x]]
Lower(X, rank, n) == {x \in X : rank[x] < n}
Solves(f, D, Stop, a, nx) == f = [x \in D |-> Step(f, Stop, a, nx, x)]

\* By the rank, the parts of the solution below each n agree and make the whole.
LEMMA Recursion ==
  ASSUME NEW X, NEW rank \in [X -> Nat], NEW Stop, NEW a, NEW nx \in [X -> X],
         \A x \in X : x \notin Stop => rank[nx[x]] < rank[x]
  PROVE  \E f : Solves(f, X, Stop, a, nx)
<1> DEFINE D(n) == Lower(X, rank, n)
           Sol(f, n) == Solves(f, D(n), Stop, a, nx)
<1>1. ASSUME NEW n \in Nat, NEW f, NEW g, D(n) \subseteq DOMAIN f, \A x \in D(n) : x \notin Stop => f[nx[x]] = g[nx[x]]
      PROVE  \A x \in D(n) : Step(f, Stop, a, nx, x) = Step(g, Stop, a, nx, x)
  BY <1>1 DEF Step
<1>2. \A n \in Nat : \A x \in D(n + 1) : x \notin Stop => nx[x] \in D(n)
  <2> SUFFICES ASSUME NEW n \in Nat, NEW x \in D(n + 1), x \notin Stop PROVE nx[x] \in D(n)
    OBVIOUS
  <2>1. x \in X /\ rank[x] < n + 1 /\ rank[x] \in Nat
    BY DEF Lower
  <2>2. nx[x] \in X /\ rank[nx[x]] \in Nat /\ rank[nx[x]] < rank[x]
    BY <2>1
  <2>3. rank[nx[x]] < n
    BY <2>1, <2>2
  <2>4. QED BY <2>2, <2>3 DEF Lower
<1>3. \A n \in Nat : D(n) \subseteq D(n + 1)
  BY DEF Lower
<1>4. \A n \in Nat : n \in {m \in Nat : \E f : Sol(f, m)}
  <2> DEFINE S == {m \in Nat : \E f : Sol(f, m)}
  <2>1. 0 \in S
    <3>1. D(0) = {}
      BY DEF Lower
    <3>2. Sol([x \in {} |-> NULL], 0)
      BY <3>1 DEF Solves
    <3>3. QED BY <3>2
  <2>2. ASSUME NEW n \in Nat, n \in S PROVE n + 1 \in S
    <3>1. PICK f : Sol(f, n)
      BY <2>2
    <3> DEFINE g == [x \in D(n + 1) |-> Step(f, Stop, a, nx, x)]
    <3>2. \A x \in D(n) : g[x] = f[x]
      BY <1>3, <3>1 DEF Solves
    <3>3. \A x \in D(n + 1) : Step(f, Stop, a, nx, x) = Step(g, Stop, a, nx, x)
      <4> HIDE DEF g, D
      <4>1. QED BY <1>2, <3>2 DEF Step
    <3>4. g = [x \in D(n + 1) |-> Step(g, Stop, a, nx, x)]
      <4> DEFINE G == g
      <4>1. G = [x \in D(n + 1) |-> Step(f, Stop, a, nx, x)]
        OBVIOUS
      <4> HIDE DEF G, D
      <4>2. \A x \in D(n + 1) : Step(f, Stop, a, nx, x) = Step(G, Stop, a, nx, x)
        BY <3>3 DEF G
      <4>3. G = [x \in D(n + 1) |-> Step(G, Stop, a, nx, x)]
        BY <4>1, <4>2
      <4>4. QED BY <4>3 DEF G
    <3>5. Sol(g, n + 1)
      BY <3>4 DEF Solves
    <3>6. QED BY <3>5
  <2> HIDE DEF S
  <2>3. \A n \in Nat : n \in S
    BY <2>1, <2>2, AllNaturals
  <2>4. QED BY <2>3 DEF S
<1>5. ASSUME NEW k \in Nat, NEW l \in Nat, NEW f, NEW g, Sol(f, k), Sol(g, l)
      PROVE  \A n \in Nat : n \in {m \in Nat : \A x \in D(m) : x \in D(k) /\ x \in D(l) => f[x] = g[x]}
  <2> DEFINE S == {m \in Nat : \A x \in D(m) : x \in D(k) /\ x \in D(l) => f[x] = g[x]}
  <2>1. 0 \in S
    BY DEF Lower
  <2>2. ASSUME NEW n \in Nat, n \in S PROVE n + 1 \in S
    <3> SUFFICES ASSUME NEW x \in D(n + 1), x \in D(k), x \in D(l) PROVE f[x] = g[x]
      OBVIOUS
    <3>1. f[x] = Step(f, Stop, a, nx, x) /\ g[x] = Step(g, Stop, a, nx, x)
      BY <1>5 DEF Solves
    <3>2. x \notin Stop => nx[x] \in D(n)
      BY <1>2
    <3>3. ASSUME x \notin Stop PROVE nx[x] \in D(k) /\ nx[x] \in D(l)
      <4>1. x \in X /\ rank[x] \in Nat /\ nx[x] \in X /\ rank[nx[x]] \in Nat /\ rank[nx[x]] < rank[x] /\ rank[x] < k /\ rank[x] < l
        BY <3>3 DEF Lower
      <4>2. rank[nx[x]] < k /\ rank[nx[x]] < l
        BY <4>1
      <4>3. QED BY <4>1, <4>2 DEF Lower
    <3>4. x \notin Stop => f[nx[x]] = g[nx[x]]
      BY <2>2, <3>2, <3>3
    <3>5. QED BY <3>1, <3>4 DEF Step
  <2> HIDE DEF S
  <2>3. \A n \in Nat : n \in S
    BY <2>1, <2>2, AllNaturals
  <2>4. QED BY <2>3 DEF S
<1> DEFINE F(n) == CHOOSE f : Sol(f, n)
           h == [x \in X |-> F(rank[x] + 1)[x]]
<1>6. \A n \in Nat : Sol(F(n), n)
  BY <1>4
<1>7. \A x \in X : rank[x] \in Nat /\ rank[x] + 1 \in Nat /\ x \in D(rank[x] + 1)
  BY DEF Lower
<1>8. ASSUME NEW x \in X, NEW n \in Nat, x \in D(n) PROVE F(n)[x] = h[x]
  <2> HIDE DEF F, D, Sol
  <2>1. Sol(F(n), n) /\ Sol(F(rank[x] + 1), rank[x] + 1)
    BY <1>6, <1>7
  <2>2. F(n)[x] = F(rank[x] + 1)[x]
    BY <1>5, <1>7, <1>8, <2>1
  <2>3. QED BY <2>2
<1>9. ASSUME NEW x \in X PROVE h[x] = Step(h, Stop, a, nx, x)
  <2> DEFINE n == rank[x] + 1
  <2>1. n \in Nat /\ x \in D(n) /\ h[x] = F(n)[x]
    BY <1>7
  <2>2. F(n)[x] = Step(F(n), Stop, a, nx, x)
    <3>1. Sol(F(n), n)
      BY <1>6, <2>1
    <3> HIDE DEF n, F
    <3>2. QED BY <2>1, <3>1 DEF Solves
  <2>3. x \notin Stop => nx[x] \in X /\ nx[x] \in D(n)
    <3>1. rank[x] \in Nat /\ nx[x] \in X
      BY <1>7
    <3>2. x \notin Stop => nx[x] \in D(rank[x])
      BY <1>2, <1>7, <3>1
    <3>3. D(rank[x]) \subseteq D(n)
      BY <1>3, <3>1
    <3>4. QED BY <3>1, <3>2, <3>3
  <2>4. x \notin Stop => F(n)[nx[x]] = h[nx[x]]
    <3> HIDE DEF F, D, h, n
    <3>1. QED BY <1>8, <2>1, <2>3
  <2> HIDE DEF F, h, n
  <2>5. QED BY <2>1, <2>2, <2>4 DEF Step
<1>10. h = [x \in X |-> Step(h, Stop, a, nx, x)]
  <2>1. h = [x \in X |-> h[x]]
    OBVIOUS
  <2> HIDE DEF h
  <2>2. QED BY <1>9, <2>1
<1> HIDE DEF h
<1>11. QED BY <1>10 DEF Solves

Walks(m, f) == f = [x \in Nat \X Nat |-> IF x[1] = NULL \/ x[2] = 0 THEN <<x[1]>>
                           ELSE <<x[1]>> \o f[<<Next_(m, x[1]), x[2] - 1>>]]

\* The walk along next that Chain takes exists.
LEMMA WalkExists ==
  ASSUME NEW m \in Memories
  PROVE  \E f : Walks(m, f)
<1> DEFINE X == Nat \X Nat
           rank == [x \in X |-> x[2]]
           Stop == {x \in X : x[1] = NULL \/ x[2] = 0}
           a == [x \in X |-> <<x[1]>>]
           nx == [x \in X |-> IF x \in Stop THEN x ELSE <<Next_(m, x[1]), x[2] - 1>>]
<1>1. \A c : Next_(m, c) \in Nat
  BY MemoryFacts DEF Next_
<1>2. rank \in [X -> Nat]
  OBVIOUS
<1>3. nx \in [X -> X]
  BY <1>1
<1>4. \A x \in X : x \notin Stop => rank[nx[x]] < rank[x]
  <2> SUFFICES ASSUME NEW x \in X, x \notin Stop PROVE rank[nx[x]] < rank[x]
    OBVIOUS
  <2>1. nx[x] = <<Next_(m, x[1]), x[2] - 1>> /\ x[2] \in Nat /\ x[2] # 0
    OBVIOUS
  <2>2. rank[nx[x]] = x[2] - 1 /\ rank[x] = x[2]
    BY <1>3, <2>1
  <2>3. QED BY <2>1, <2>2
<1>5. PICK f : Solves(f, X, Stop, a, nx)
  <2> HIDE DEF X, rank, Stop, a, nx
  <2>1. QED BY <1>2, <1>3, <1>4, Recursion
<1>6. \A x \in X : Step(f, Stop, a, nx, x)
        = IF x[1] = NULL \/ x[2] = 0 THEN <<x[1]>> ELSE <<x[1]>> \o f[<<Next_(m, x[1]), x[2] - 1>>]
  BY DEF Step
<1>7. f = [x \in X |-> Step(f, Stop, a, nx, x)]
  BY <1>5 DEF Solves
<1>8. f = [x \in X |-> IF x[1] = NULL \/ x[2] = 0 THEN <<x[1]>> ELSE <<x[1]>> \o f[<<Next_(m, x[1]), x[2] - 1>>]]
  <2> HIDE DEF X, Stop, a, nx
  <2>1. QED BY <1>6, <1>7
<1>9. QED BY <1>8 DEF Walks

\* Chain is the value of such a walk.
LEMMA ChainWalks ==
  ASSUME NEW m \in Memories, NEW b
  PROVE  \E f : Walks(m, f) /\ Chain(m, b) = f[<<b, Cardinality(DOMAIN m)>>]
<1> DEFINE W(f) == f = [x \in Nat \X Nat |-> IF x[1] = NULL \/ x[2] = 0 THEN <<x[1]>>
                           ELSE <<x[1]>> \o f[<<Next_(m, x[1]), x[2] - 1>>]]
           walk == CHOOSE f : W(f)
<1>1. Chain(m, b) = walk[<<b, Cardinality(DOMAIN m)>>]
  BY DEF Chain
<1>2. \E f : W(f)
  BY WalkExists DEF Walks
<1>3. W(walk)
  BY <1>2
<1> HIDE DEF walk
<1>4. QED BY <1>1, <1>3 DEF Walks

\* s is a chain of blocks in memory from its first block to NULL.
Chained(m, s) ==
  /\ \A k \in 1..Len(s) : s[k] \in Nat \ {NULL} /\ Next_(m, s[k]) = At(s, k + 1) /\ Size(m, s[k]) # 0
  /\ \A k, l \in 1..Len(s) : k < l => s[k] # s[l]

\* It has no more blocks than memory has words that are not 0.
LEMMA ChainedLen ==
  ASSUME NEW m \in Memories, NEW S, NEW s \in Seq(S), Chained(m, s)
  PROVE  Len(s) <= Cardinality(DOMAIN m) /\ Cardinality(DOMAIN m) \in Nat
<1>1. Len(s) \in Nat /\ s \in [1..Len(s) -> DOMAIN m]
  <2>1. \A k \in 1..Len(s) : s[k] \in DOMAIN m
    BY DEF Chained, Size, Word
  <2>2. s = [k \in 1..Len(s) |-> s[k]] /\ Len(s) \in Nat
    OBVIOUS
  <2>3. QED BY <2>1, <2>2
<1>2. IsFiniteSet(DOMAIN m)
  BY MemoryFacts
<1>3. s \in Injection(1..Len(s), DOMAIN m)
  <2>1. \A k, l \in 1..Len(s) : s[k] = s[l] => k = l
    BY <1>1 DEF Chained
  <2>2. QED BY <1>1, <2>1 DEF Injection, IsInjective
<1>4. Cardinality(1..Len(s)) <= Cardinality(DOMAIN m)
  BY <1>2, <1>3, FS_Injection
<1>5. Cardinality(1..Len(s)) = Len(s)
  BY <1>1, FS_Interval
<1>6. QED BY <1>2, <1>4, <1>5, FS_CardinalityType

\* Walked from its first block, a chain is found whole.
LEMMA ChainIs ==
  ASSUME NEW m \in Memories, NEW s \in Seq(Nat), Chained(m, s)
  PROVE  Chain(m, At(s, 1)) = s \o <<NULL>>
<1> DEFINE n == Len(s)
           t == s \o <<NULL>>
           card == Cardinality(DOMAIN m)
<1>1. PICK f : Walks(m, f) /\ Chain(m, At(s, 1)) = f[<<At(s, 1), card>>]
  BY ChainWalks
<1>2. n \in Nat /\ card \in Nat /\ n <= card
  BY ChainedLen
<1>3. \A c, k \in Nat : f[<<c, k>>] = IF c = NULL \/ k = 0 THEN <<c>> ELSE <<c>> \o f[<<Next_(m, c), k - 1>>]
  <2> SUFFICES ASSUME NEW c \in Nat, NEW k \in Nat
               PROVE  f[<<c, k>>] = IF c = NULL \/ k = 0 THEN <<c>> ELSE <<c>> \o f[<<Next_(m, c), k - 1>>]
    OBVIOUS
  <2> DEFINE x == <<c, k>>
  <2>1. x \in Nat \X Nat /\ x[1] = c /\ x[2] = k
    OBVIOUS
  <2> HIDE DEF x
  <2>2. f[x] = IF x[1] = NULL \/ x[2] = 0 THEN <<x[1]>> ELSE <<x[1]>> \o f[<<Next_(m, x[1]), x[2] - 1>>]
    BY <1>1, <2>1 DEF Walks
  <2>3. f[x] = IF c = NULL \/ k = 0 THEN <<c>> ELSE <<c>> \o f[<<Next_(m, c), k - 1>>]
    BY <2>1, <2>2
  <2>4. QED BY <2>3 DEF x
<1>4. Len(t) = n + 1 /\ t \in Seq(Nat) /\ \A k \in 1..n + 1 : t[k] = At(s, k)
  BY DEF At, NULL
<1>5. \A k \in 1..n : s[k] \in Nat \ {NULL} /\ Next_(m, s[k]) = At(s, k + 1)
  BY DEF Chained
<1>6. \A k \in 1..n + 1 : At(s, k) = IF k <= n THEN s[k] ELSE NULL
  BY <1>2 DEF At
<1> DEFINE S == {d \in Nat : \A k \in 1..n + 1, x \in Nat : k + d = n + 1 /\ x + k >= n + 1 => f[<<At(s, k), x>>] = SubSeq(t, k, n + 1)}
<1>7. 0 \in S
  <2> SUFFICES ASSUME NEW k \in 1..n + 1, NEW x \in Nat, k + 0 = n + 1
               PROVE  f[<<At(s, k), x>>] = SubSeq(t, k, n + 1)
    OBVIOUS
  <2>1. k = n + 1 /\ At(s, k) = NULL
    BY <1>2, <1>6
  <2>2. f[<<At(s, k), x>>] = <<NULL>>
    BY <1>3, <2>1 DEF NULL
  <2>3. SubSeq(t, k, n + 1) = <<t[n + 1]>> /\ t[n + 1] = NULL
    <3>1. t[n + 1] = NULL
      BY <1>2, <1>4, <2>1
    <3> HIDE DEF t
    <3> DEFINE l == n + 1
    <3>2. l \in Nat \ {0} /\ Len(t) = l /\ t \in Seq(Nat)
      BY <1>2, <1>4
    <3> HIDE DEF t, l
    <3>3. SubSeq(t, l, l) = <<t[l]>>
      <4>1. SubSeq(t, l, l) \in Seq(Nat) /\ Len(SubSeq(t, l, l)) = 1 /\ SubSeq(t, l, l)[1] = t[l] /\ t[l] \in Nat
        BY <3>2
      <4> DEFINE u == SubSeq(t, l, l)
      <4> HIDE DEF u
      <4>2. u = <<t[l]>>
        <5>1. <<t[l]>> \in Seq(Nat) /\ Len(<<t[l]>>) = 1 /\ <<t[l]>>[1] = t[l]
          BY <4>1
        <5>2. u \in Seq(Nat) /\ Len(u) = 1 /\ u[1] = t[l]
          BY <4>1 DEF u
        <5>3. \A i \in 1..Len(u) : u[i] = <<t[l]>>[i]
          BY <5>1, <5>2
        <5>4. QED BY <5>1, <5>2, <5>3, SeqEqual
      <4>3. QED BY <4>2 DEF u
    <3>4. QED BY <2>1, <3>1, <3>3 DEF l
  <2>4. QED BY <2>2, <2>3
<1>8. ASSUME NEW d \in Nat, d \in S PROVE d + 1 \in S
  <2>1. ASSUME NEW k \in 1..n + 1, NEW x \in Nat, k + (d + 1) = n + 1, x + k >= n + 1
        PROVE  f[<<At(s, k), x>>] = SubSeq(t, k, n + 1)
    <3>1. k \in 1..n /\ k + 1 \in 1..n + 1 /\ (k + 1) + d = n + 1 /\ x # 0 /\ x - 1 \in Nat /\ (x - 1) + (k + 1) >= n + 1
      BY <1>2, <2>1
    <3>2. f[<<At(s, k + 1), x - 1>>] = SubSeq(t, k + 1, n + 1)
      BY <1>8, <3>1
    <3>3. At(s, k) = s[k] /\ s[k] \in Nat /\ s[k] # NULL /\ Next_(m, s[k]) = At(s, k + 1)
      BY <1>2, <1>5, <1>6, <3>1
    <3>4. f[<<s[k], x>>] = <<s[k]>> \o SubSeq(t, k + 1, n + 1)
      <4>1. f[<<s[k], x>>] = <<s[k]>> \o f[<<Next_(m, s[k]), x - 1>>]
        BY <1>3, <3>1, <3>3
      <4>2. QED BY <3>2, <3>3, <4>1
    <3>5. SubSeq(t, k, n + 1) = <<t[k]>> \o SubSeq(t, k + 1, n + 1) /\ t[k] = s[k]
      <4>1. t[k] = s[k]
        BY <1>4, <3>1, <3>3
      <4> DEFINE l == n + 1
      <4>2. l \in Nat /\ Len(t) = l /\ t \in Seq(Nat) /\ k \in 1..l /\ k < l
        BY <1>2, <1>4, <3>1
      <4> HIDE DEF t, l
      <4>3. SubSeq(t, k, l) = <<t[k]>> \o SubSeq(t, k + 1, l)
        BY ONLY <4>2
      <4>4. QED BY <4>1, <4>3 DEF l
    <3>6. QED BY <3>3, <3>4, <3>5
  <2>2. d + 1 \in Nat
    OBVIOUS
  <2>3. QED BY <2>1, <2>2
<1>9. f[<<At(s, 1), card>>] = SubSeq(t, 1, n + 1)
  <2> HIDE DEF S
  <2>1. \A d \in Nat : d \in S
    BY <1>7, <1>8, AllNaturals
  <2>2. n \in S
    BY <1>2, <2>1
  <2>3. 1 \in 1..n + 1 /\ 1 + n = n + 1 /\ card + 1 >= n + 1
    BY <1>2
  <2>4. QED BY <1>2, <2>2, <2>3 DEF S
<1>10. SubSeq(t, 1, n + 1) = t
  <2> DEFINE l == n + 1
  <2>1. l \in Nat /\ Len(t) = l /\ t \in Seq(Nat)
    BY <1>2, <1>4
  <2> HIDE DEF t, l
  <2>2. SubSeq(t, 1, l) = t
    BY ONLY <2>1
  <2>3. QED BY <2>2 DEF l
<1>11. QED BY <1>1, <1>9, <1>10

\* The list of a bin is a chain.
LEMMA ListChained ==
  ASSUME NEW h, NEW j, NEW s, List(h, j, s)
  PROVE  Chained(h.mem, s)
BY DEF List, Chained

\* ListOf finds the chain.
LEMMA ListOfIs ==
  ASSUME NEW m \in Memories, NEW s \in Seq(Nat), Chained(m, s)
  PROVE  ListOf(m, At(s, 1)) = s
<1> DEFINE t == s \o <<NULL>>
<1>1. ListOf(m, At(s, 1)) = Front(t)
  BY ChainIs DEF ListOf
<1>2. t \in Seq(Nat) /\ Len(t) = Len(s) + 1 /\ Len(s) \in Nat /\ \A k \in 1..Len(s) : t[k] = s[k]
  BY DEF NULL
<1>3. SubSeq(t, 1, Len(s)) \in Seq(Nat) /\ Len(SubSeq(t, 1, Len(s))) = Len(s)
      /\ \A k \in 1..Len(s) : SubSeq(t, 1, Len(s))[k] = s[k]
  <2> HIDE DEF t
  <2>1. QED BY <1>2
<1>4. SubSeq(t, 1, Len(s)) = s
  <2> HIDE DEF t
  <2>1. QED BY <1>3, SeqEqual
<1>5. Len(t) - 1 = Len(s)
  BY <1>2
<1>6. Front(t) = SubSeq(t, 1, Len(s))
  <2> HIDE DEF t
  <2>1. QED BY <1>5 DEF Front
<1>7. QED BY <1>1, <1>4, <1>6

\* The least of a set of numbers.
LEMMA LeastIs ==
  ASSUME NEW S \in SUBSET Nat, S # {}
  PROVE  Min(S) \in S /\ \A y \in S : Min(S) <= y
<1>1. PICK x \in S : \A y \in S : ~(<<y, x>> \in OpToRel(<, Nat))
  BY NatLessThanWellFounded, WFMin
<1>2. ASSUME NEW y \in S PROVE x <= y
  <2>1. x \in Nat /\ y \in Nat
    OBVIOUS
  <2>2. ~(y < x)
    BY <1>1, <2>1 DEF OpToRel
  <2>3. QED BY <2>1, <2>2
<1>3. QED BY <1>2 DEF Min

\* The first fit of a list is its first block of that size or more.
LEMMA FirstFitIs ==
  ASSUME NEW m \in Memories, NEW s \in Seq(Nat), Chained(m, s), NEW size \in Nat
  PROVE  \E p \in 1..Len(s) + 1 :
           /\ FirstFit(m, At(s, 1), size) = At(s, p)
           /\ \A k \in 1..Len(s) : k < p => Size(m, s[k]) < size
           /\ p <= Len(s) => Size(m, s[p]) >= size
<1> DEFINE n == Len(s)
           t == s \o <<NULL>>
           I == {i \in 1..Len(t) : t[i] = NULL \/ Size(m, t[i]) >= size}
           p == Min(I)
<1>1. FirstFit(m, At(s, 1), size) = t[IF I # {} THEN Min(I) ELSE 0]
  <2>1. Chain(m, At(s, 1)) = t
    BY ChainIs
  <2> DEFINE c == Chain(m, At(s, 1))
             J == {i \in 1..Len(c) : c[i] = NULL \/ Size(m, c[i]) >= size}
  <2>2. FirstFit(m, At(s, 1), size) = c[IF J # {} THEN Min(J) ELSE 0]
    BY DEF FirstFit, SelectInSeq
  <2>3. c = t
    BY <2>1
  <2>4. J = I
    BY <2>1
  <2> HIDE DEF c, J, I, t
  <2>5. QED BY <2>2, <2>3, <2>4
<1>2. n \in Nat /\ Len(t) = n + 1 /\ t[n + 1] = NULL /\ \A k \in 1..n : t[k] = s[k]
  OBVIOUS
<1>3. n + 1 \in I
  BY <1>2
<1>4. p \in I /\ \A y \in I : p <= y
  <2>1. I \in SUBSET Nat /\ I # {}
    BY <1>2, <1>3
  <2> HIDE DEF I
  <2>2. QED BY <2>1, LeastIs
<1>5. p \in 1..n + 1 /\ (t[p] = NULL \/ Size(m, t[p]) >= size)
  <2> HIDE DEF p
  <2>1. QED BY <1>2, <1>4
<1>6. t[p] = At(s, p)
  <2> HIDE DEF p
  <2>1. QED BY <1>2, <1>5 DEF At
<1>7. FirstFit(m, At(s, 1), size) = At(s, p)
  <2> HIDE DEF I
  <2>1. QED BY <1>1, <1>3, <1>6
<1>8. \A x : Size(m, x) \in Nat
  BY MemoryFacts DEF Size
<1>9. \A k \in 1..n : k < p => Size(m, s[k]) < size
  <2> SUFFICES ASSUME NEW k \in 1..n, k < p PROVE Size(m, s[k]) < size
    OBVIOUS
  <2>1. k \notin I
    <3> HIDE DEF I, p
    <3>1. p \in Nat /\ k \in Nat
      BY <1>2, <1>5
    <3>2. QED BY <1>4, <3>1
  <2>2. ~(Size(m, s[k]) >= size)
    BY <1>2, <2>1
  <2>3. QED BY <1>8, <2>2
<1>10. p <= n => Size(m, s[p]) >= size
  <2> HIDE DEF p
  <2>1. p <= n => t[p] = s[p] /\ s[p] # NULL
    BY <1>2, <1>5 DEF Chained
  <2>2. QED BY <1>5, <2>1
<1> HIDE DEF p
<1>11. QED BY <1>5, <1>7, <1>9, <1>10

-----------------------------------------------------------------------------
\* The eight bins, and the functions that work on them.

\* The bins hold the free blocks of K, each once: L[j] is the list of bin j.
Binned(h, K, L) ==
  /\ L \in [AllBins -> Seq(K)]
  /\ \A j \in AllBins : List(h, j, L[j])
  /\ \A b \in K : IsFree(h.mem, b) = 1 => \E j \in AllBins : \E k \in 1..Len(L[j]) : L[j][k] = b

Listed(s, c) == \E k \in 1..Len(s) : s[k] = c

\* A block on the list of a bin is a free block of its size.
LEMMA ListedBin ==
  ASSUME NEW h, NEW K, NEW L, Binned(h, K, L), NEW j \in AllBins, NEW c, Listed(L[j], c)
  PROVE  c \in K /\ BinOf(Size(h.mem, c)) = j /\ IsFree(h.mem, c) = 1 /\ c \in Nat \ {NULL} /\ Size(h.mem, c) # 0
<1>1. PICK k \in 1..Len(L[j]) : L[j][k] = c
  BY DEF Listed
<1>2. L[j] \in Seq(K) /\ List(h, j, L[j])
  BY DEF Binned
<1>3. c \in K
  BY <1>1, <1>2
<1>4. QED BY <1>1, <1>2, <1>3 DEF List

\* One list changed, and no block of another.
LEMMA OtherLists ==
  ASSUME NEW h, NEW g, NEW K, NEW L, Binned(h, K, L), NEW j \in AllBins, NEW i \in AllBins, i # j,
         HeadOf(g, i) = HeadOf(h, i),
         \A c \in K : ~Listed(L[j], c) => SameHeader(h, g, c)
  PROVE  List(g, i, L[i])
<1>1. L[i] \in Seq(K) /\ List(h, i, L[i])
  BY DEF Binned
<1>2. ASSUME NEW k \in 1..Len(L[i]) PROVE SameHeader(h, g, L[i][k])
  <2> DEFINE c == L[i][k]
  <2>1. c \in K /\ Listed(L[i], c)
    BY <1>1 DEF Listed
  <2> HIDE DEF c
  <2>2. ~Listed(L[j], c)
    BY <2>1, ListedBin
  <2>3. QED BY <2>1, <2>2 DEF c
<1>3. QED BY <1>1, <1>2, ListKept

\* One block more is binned.
LEMMA BinnedEntered ==
  ASSUME NEW h, NEW g, NEW K, NEW L, Binned(h, K, L), NEW j \in AllBins, NEW b, b \notin K, NEW p,
         Entered(h, g, j, L[j], p, b),
         \A i \in AllBins \ {j} : HeadOf(g, i) = HeadOf(h, i),
         \A c \in K : ~Listed(L[j], c) => SameHeader(h, g, c)
  PROVE  Binned(g, K \cup {b}, [L EXCEPT ![j] = Inserted(L[j], p, b)])
<1> DEFINE J == K \cup {b}
           s == L[j]
           t == Inserted(s, p, b)
           M == [L EXCEPT ![j] = t]
<1>1. L \in [AllBins -> Seq(K)] /\ s \in Seq(K) /\ List(h, j, s) /\ p \in 1..Len(s) + 1
  BY DEF Binned, Entered
<1>2. \A r \in Seq(K) : r \in Seq(J)
  OBVIOUS
<1>3. /\ t \in Seq(J) /\ Len(t) = Len(s) + 1 /\ Len(s) \in Nat
      /\ \A k \in 1..Len(s) + 1 : t[k] = IF k < p THEN s[k] ELSE IF k = p THEN b ELSE s[k - 1]
  <2>1. s \in Seq(J) /\ b \in J
    BY <1>1, <1>2
  <2> HIDE DEF s, J
  <2>2. QED BY <1>1, <2>1, InsertedIs
<1>4. List(g, j, t)
  <2>1. s \in Seq(J) /\ b \in J
    BY <1>1, <1>2
  <2>2. Entered(h, g, j, s, p, b)
    OBVIOUS
  <2> HIDE DEF s, J
  <2>3. QED BY <1>1, <2>1, <2>2, ListEntered
<1>5. M \in [AllBins -> Seq(J)] /\ M[j] = t /\ \A i \in AllBins : i # j => M[i] = L[i]
  <2> HIDE DEF t, s, J
  <2>1. QED BY <1>1, <1>2, <1>3
<1>6. \A i \in AllBins : List(g, i, M[i])
  <2> SUFFICES ASSUME NEW i \in AllBins PROVE List(g, i, M[i])
    OBVIOUS
  <2>1. CASE i = j
    BY <1>4, <1>5, <2>1
  <2>2. CASE i # j
    <3>1. List(g, i, L[i])
      BY <2>2, OtherLists
    <3> HIDE DEF M
    <3>2. QED BY <1>5, <2>2, <3>1
  <2>3. QED BY <2>1, <2>2
<1>7. \A c \in J : IsFree(g.mem, c) = 1 => \E i \in AllBins : \E k \in 1..Len(M[i]) : M[i][k] = c
  <2> SUFFICES ASSUME NEW c \in J, IsFree(g.mem, c) = 1
               PROVE  \E i \in AllBins : \E k \in 1..Len(M[i]) : M[i][k] = c
    OBVIOUS
  <2>1. CASE c = b
    <3>1. p \in 1..Len(t) /\ t[p] = b
      BY <1>1, <1>3
    <3> HIDE DEF M, t
    <3>2. QED BY <1>5, <2>1, <3>1
  <2>2. CASE c # b /\ Listed(s, c)
    <3>1. PICK k \in 1..Len(s) : s[k] = c
      BY <2>2 DEF Listed
    <3>2. (IF k < p THEN k ELSE k + 1) \in 1..Len(t) /\ t[IF k < p THEN k ELSE k + 1] = c
      BY <1>1, <1>3, <3>1
    <3> HIDE DEF M, t
    <3>3. QED BY <1>5, <3>2
  <2>3. CASE c # b /\ ~Listed(s, c)
    <3>1. c \in K /\ IsFree(h.mem, c) = 1
      BY <2>3 DEF SameHeader
    <3>2. PICK i \in AllBins : \E k \in 1..Len(L[i]) : L[i][k] = c
      BY <3>1 DEF Binned
    <3>3. i # j
      BY <2>3, <3>2 DEF Listed
    <3> HIDE DEF M
    <3>4. QED BY <1>5, <3>2, <3>3
  <2>4. QED BY <2>1, <2>2, <2>3
<1> HIDE DEF M, t, s
<1>8. QED BY <1>5, <1>6, <1>7 DEF Binned, M, t, s

\* One block less is binned.
LEMMA BinnedTakenOut ==
  ASSUME NEW h, NEW g, NEW K, NEW L, Binned(h, K, L), NEW j \in AllBins, NEW p,
         TakenOut(h, g, j, L[j], p),
         \A i \in AllBins \ {j} : HeadOf(g, i) = HeadOf(h, i),
         \A c \in K : ~Listed(L[j], c) => SameHeader(h, g, c)
  PROVE  Binned(g, K \ {L[j][p]}, [L EXCEPT ![j] = Dropped(L[j], p)])
<1> DEFINE s == L[j]
           b == s[p]
           J == K \ {b}
           t == Dropped(s, p)
           M == [L EXCEPT ![j] = t]
<1>1. L \in [AllBins -> Seq(K)] /\ s \in Seq(K) /\ List(h, j, s) /\ p \in 1..Len(s) /\ Len(s) \in Nat
  BY DEF Binned, TakenOut
<1>2. \A k \in 1..Len(s) : s[k] = b => k = p
  BY <1>1 DEF List
<1>3. /\ t \in Seq(K) /\ Len(t) = Len(s) - 1 /\ Len(s) - 1 \in Nat
      /\ \A k \in 1..Len(s) - 1 : t[k] = IF k < p THEN s[k] ELSE s[k + 1]
  <2> HIDE DEF s
  <2>1. QED BY <1>1, DroppedIs
<1>4. List(g, j, t)
  <2>1. TakenOut(h, g, j, s, p)
    OBVIOUS
  <2> HIDE DEF s
  <2>2. QED BY <1>1, <2>1, ListTakenOut
<1>5. t \in Seq(J)
  <2>1. \A k \in 1..Len(t) : t[k] \in K /\ t[k] # b
    <3> SUFFICES ASSUME NEW k \in 1..Len(t) PROVE t[k] \in K /\ t[k] # b
      OBVIOUS
    <3>1. PICK l \in 1..Len(s) : t[k] = s[l] /\ l # p
      BY <1>1, <1>3
    <3> HIDE DEF t, b, s
    <3>2. QED BY <1>1, <1>2, <3>1
  <2> HIDE DEF t, b, s
  <2>2. QED BY <1>3, <2>1
<1>6. ASSUME NEW i \in AllBins, i # j PROVE L[i] \in Seq(J) /\ List(g, i, L[i])
  <2>1. List(g, i, L[i])
    BY <1>6, OtherLists
  <2>2. L[i] \in Seq(K)
    BY <1>1
  <2>3. \A k \in 1..Len(L[i]) : L[i][k] # b
    <3> SUFFICES ASSUME NEW k \in 1..Len(L[i]), L[i][k] = b PROVE FALSE
      OBVIOUS
    <3>1. Listed(L[i], b) /\ Listed(L[j], b)
      BY <1>1 DEF Listed
    <3> HIDE DEF b, s
    <3>2. BinOf(Size(h.mem, b)) = i
      BY <1>6, <3>1, ListedBin
    <3>3. BinOf(Size(h.mem, b)) = j
      BY <3>1, ListedBin
    <3>4. QED BY <1>6, <3>2, <3>3
  <2> HIDE DEF b
  <2>4. QED BY <2>1, <2>2, <2>3
<1>7. M \in [AllBins -> Seq(J)] /\ M[j] = t /\ \A i \in AllBins : i # j => M[i] = L[i]
  <2> HIDE DEF t, s, J
  <2>1. QED BY <1>1, <1>5, <1>6
<1>8. \A i \in AllBins : List(g, i, M[i])
  <2> HIDE DEF M
  <2>1. QED BY <1>4, <1>6, <1>7
<1>9. \A c \in J : IsFree(g.mem, c) = 1 => \E i \in AllBins : \E k \in 1..Len(M[i]) : M[i][k] = c
  <2> SUFFICES ASSUME NEW c \in J, IsFree(g.mem, c) = 1
               PROVE  \E i \in AllBins : \E k \in 1..Len(M[i]) : M[i][k] = c
    OBVIOUS
  <2>1. CASE Listed(s, c)
    <3>1. PICK k \in 1..Len(s) : s[k] = c
      BY <2>1 DEF Listed
    <3>2. k # p
      BY <3>1
    <3>3. (IF k < p THEN k ELSE k - 1) \in 1..Len(t) /\ t[IF k < p THEN k ELSE k - 1] = c
      BY <1>1, <1>3, <3>1, <3>2
    <3> HIDE DEF M, t
    <3>4. QED BY <1>7, <3>3
  <2>2. CASE ~Listed(s, c)
    <3>1. c \in K /\ IsFree(h.mem, c) = 1
      BY <2>2 DEF SameHeader
    <3>2. PICK i \in AllBins : \E k \in 1..Len(L[i]) : L[i][k] = c
      BY <3>1 DEF Binned
    <3>3. i # j
      BY <2>2, <3>2 DEF Listed
    <3> HIDE DEF M
    <3>4. QED BY <1>7, <3>2, <3>3
  <2>3. QED BY <2>1, <2>2
<1> HIDE DEF M, t, b, s
<1>10. QED BY <1>7, <1>8, <1>9 DEF Binned, M, t, b, s

\* What the lists' functions leave alone of the headers in H, when b is the block moved.
Moved(h, g, H, b) ==
  /\ Within(h, g, H)
  /\ \A c \in H : Size(g.mem, c) = Size(h.mem, c) /\ IsFree(g.mem, c) = IsFree(h.mem, c)
  /\ \A c \in H : c # b /\ IsFree(h.mem, c) # 1 => Next_(g.mem, c) = Next_(h.mem, c)

WithFast(h, i, v) == [h EXCEPT !.fast[i] = v]
WithReg(h, i, v) == [h EXCEPT !.reg[i] = v]

\* The head of one bin set.
LEMMA HeadSet ==
  ASSUME NEW h \in Heaps, NEW i \in Bins, NEW v \in Nat, NEW j, j = 4 + i
  PROVE  /\ WithFast(h, i, v) \in Heaps /\ WithFast(h, i, v).mem = h.mem
         /\ \A k \in AllBins : HeadOf(WithFast(h, i, v), k) = IF k = i THEN v ELSE HeadOf(h, k)
         /\ WithReg(h, i, v) \in Heaps /\ WithReg(h, i, v).mem = h.mem
         /\ \A k \in AllBins : HeadOf(WithReg(h, i, v), k) = IF k = j THEN v ELSE HeadOf(h, k)
<1>1. /\ h.fast \in [Bins -> Nat] /\ h.reg \in [Bins -> Nat] /\ h.mem \in Memories
      /\ h = [mem |-> h.mem, fast |-> h.fast, reg |-> h.reg]
  BY DEF Heaps
<1>2. /\ WithFast(h, i, v) = [mem |-> h.mem, fast |-> [h.fast EXCEPT ![i] = v], reg |-> h.reg]
      /\ WithReg(h, i, v) = [mem |-> h.mem, fast |-> h.fast, reg |-> [h.reg EXCEPT ![i] = v]]
  BY <1>1 DEF WithFast, WithReg
<1>3. [h.fast EXCEPT ![i] = v] \in [Bins -> Nat] /\ [h.reg EXCEPT ![i] = v] \in [Bins -> Nat]
  BY <1>1
<1>4. WithFast(h, i, v) \in Heaps /\ WithReg(h, i, v) \in Heaps
  BY <1>1, <1>2, <1>3 DEF Heaps
<1>5. ASSUME NEW k \in AllBins
      PROVE  /\ HeadOf(WithFast(h, i, v), k) = IF k = i THEN v ELSE HeadOf(h, k)
             /\ HeadOf(WithReg(h, i, v), k) = IF k = j THEN v ELSE HeadOf(h, k)
  <2>1. k \in Int /\ i \in Int /\ 0 <= i /\ i < 4 /\ (k < 4 => k \in Bins) /\ (k >= 4 => k - 4 \in Bins)
        /\ (k = 4 + i <=> k - 4 = i) /\ (k >= 4 => k # i) /\ (k < 4 => k # 4 + i)
    BY DEF AllBins, Bins
  <2>2. /\ WithFast(h, i, v).fast = [h.fast EXCEPT ![i] = v] /\ WithFast(h, i, v).reg = h.reg
        /\ WithReg(h, i, v).reg = [h.reg EXCEPT ![i] = v] /\ WithReg(h, i, v).fast = h.fast
    BY <1>2
  <2>3. CASE k < 4
    BY <1>1, <2>1, <2>2, <2>3 DEF HeadOf
  <2>4. CASE ~(k < 4)
    <3>1. k >= 4
      BY <2>1, <2>4
    <3>2. QED BY <1>1, <2>1, <2>2, <2>4, <3>1 DEF HeadOf
  <2>5. QED BY <2>3, <2>4
<1>6. QED BY <1>2, <1>4, <1>5

\* The sizes that have a fast bin.
LEMMA FastIndex ==
  ASSUME NEW size
  PROVE  /\ index_fastbin(size) # -1 => /\ index_fastbin(size) \in Bins /\ BinOf(size) = index_fastbin(size)
                                        /\ size \in {16, 24, 32, 40}
         /\ size = 40 => index_fastbin(size) = 3
         /\ index_fastbin(size) = 3 => size = 40
BY DEF index_fastbin, BinOf, Bins

\* Every other size has a regular bin.
LEMMA RegIndex ==
  ASSUME NEW size \in Nat
  PROVE  /\ index_regbin(size) \in Bins
         /\ index_fastbin(size) = -1 => BinOf(size) = 4 + index_regbin(size)
BY DEF index_regbin, BinOf, Bins

\* A bin's place in the row of all.
LEMMA BinsOf ==
  ASSUME NEW i \in Bins
  PROVE  /\ i \in AllBins /\ ~(i >= 4) /\ 4 + i \in AllBins /\ 4 + i >= 4 /\ ~(4 + i < 4) /\ i < 4 /\ (4 + i) - 4 = i
         /\ \A h : HeadOf(h, i) = h.fast[i] /\ HeadOf(h, 4 + i) = h.reg[i]
<1>1. /\ i \in AllBins /\ ~(i >= 4) /\ 4 + i \in AllBins /\ 4 + i >= 4 /\ ~(4 + i < 4) /\ i < 4 /\ (4 + i) - 4 = i
  BY DEF Bins, AllBins
<1>2. QED BY <1>1 DEF HeadOf

\* Heads are numbers.
LEMMA HeapHeads ==
  ASSUME NEW h \in Heaps, NEW j \in AllBins
  PROVE  HeadOf(h, j) \in Nat
BY DEF Heaps, HeadOf, AllBins, Bins

\* Heads that stay.
LEMMA HeadsSame ==
  ASSUME NEW h, NEW g, SameHeads(h, g)
  PROVE  \A j : HeadOf(g, j) = HeadOf(h, j)
BY DEF SameHeads, HeadOf

\* push links a block in.
LEMMA PushBinned ==
  ASSUME NEW h \in Heaps, NEW H, Spaced(H), NEW K \in SUBSET H, NEW b \in H, b \notin K,
         NEW L, Binned(h, K, L), IsFree(h.mem, b) = 1,
         NEW i, i = index_fastbin(Size(h.mem, b)), i # -1
  PROVE  /\ \E M : Binned(push(h, i, b), K \cup {b}, M)
         /\ Moved(h, push(h, i, b), H, b)
<1> DEFINE v == h.fast[i]
           h1 == SetNext(h, b, v)
           g == push(h, i, b)
           s == L[i]
<1>1. i \in Bins /\ i \in AllBins /\ ~(i >= 4) /\ BinOf(Size(h.mem, b)) = i /\ Size(h.mem, b) # 0
  BY FastIndex, BinsOf
<1>2. v = HeadOf(h, i) /\ v \in Nat
  BY <1>1, BinsOf, HeapHeads
<1>3. b \in Nat \ {NULL}
  BY DEF Spaced, Addresses
<1>4. Nexted(h, h1, H, b, v) /\ Within(h, h1, H) /\ SameHeads(h, h1)
  BY <1>2, HeaderWrites
<1>5. g = WithFast(h1, i, b)
  BY DEF push, WithFast
<1>6. /\ g \in Heaps /\ g.mem = h1.mem
      /\ \A k \in AllBins : HeadOf(g, k) = IF k = i THEN b ELSE HeadOf(h, k)
  <2>1. h1 \in Heaps /\ \A k : HeadOf(h1, k) = HeadOf(h, k)
    BY <1>4, HeadsSame DEF Within
  <2> HIDE DEF h1, g
  <2>2. /\ WithFast(h1, i, b) \in Heaps /\ WithFast(h1, i, b).mem = h1.mem
        /\ \A k \in AllBins : HeadOf(WithFast(h1, i, b), k) = IF k = i THEN b ELSE HeadOf(h1, k)
    <3>1. i \in Bins /\ b \in Nat /\ h1 \in Heaps
      BY <1>1, <1>3, <2>1
    <3> DEFINE j == 4 + i
    <3>2. j = 4 + i
      OBVIOUS
    <3> HIDE DEF j
    <3>3. QED BY ONLY <3>1, <3>2, HeadSet
  <2>3. QED BY <1>5, <2>1, <2>2
<1>7. List(h, i, s) /\ s \in Seq(K)
  BY <1>1 DEF Binned
<1> HIDE DEF h1, g, s, v
<1>8. \A c \in H : /\ Next_(g.mem, c) = IF c = b THEN v ELSE Next_(h.mem, c)
                   /\ Size(g.mem, c) = Size(h.mem, c) /\ IsFree(g.mem, c) = IsFree(h.mem, c) /\ Prev(g.mem, c) = Prev(h.mem, c)
  BY <1>4, <1>6 DEF Nexted
<1>9. Moved(h, g, H, b)
  BY <1>4, <1>6, <1>8 DEF Moved, Within
<1>10. Entered(h, g, i, s, 1, b)
  <2>1. 1 \in 1..Len(s) + 1
    BY <1>7
  <2>2. Next_(g.mem, b) = At(s, 1) /\ IsFree(g.mem, b) = 1 /\ Size(g.mem, b) = Size(h.mem, b)
    BY <1>2, <1>7, <1>8 DEF List
  <2>3. ASSUME NEW k \in 1..Len(s)
        PROVE  /\ s[k] # b
               /\ IsFree(g.mem, s[k]) = IsFree(h.mem, s[k]) /\ Size(g.mem, s[k]) = Size(h.mem, s[k])
               /\ Next_(g.mem, s[k]) = Next_(h.mem, s[k]) /\ k # 1 - 1
    BY <1>7, <1>8
  <2>4. HeadOf(g, i) = b
    BY <1>1, <1>6
  <2>5. QED BY <1>1, <1>3, <2>1, <2>2, <2>3, <2>4 DEF Entered
<1>11. Binned(g, K \cup {b}, [L EXCEPT ![i] = Inserted(L[i], 1, b)])
  <2>1. \A k \in AllBins \ {i} : HeadOf(g, k) = HeadOf(h, k)
    BY <1>6
  <2>2. \A c \in K : SameHeader(h, g, c)
    BY <1>8 DEF SameHeader
  <2>3. Entered(h, g, i, L[i], 1, b)
    BY <1>10 DEF s
  <2>4. QED BY <1>1, <2>1, <2>2, <2>3, BinnedEntered
<1>12. QED BY <1>9, <1>11 DEF g

\* One write after another.
LEMMA WithinTrans ==
  ASSUME NEW H, NEW h, NEW h1, NEW h2, Within(h, h1, H), Within(h1, h2, H)
  PROVE  Within(h, h2, H)
BY DEF Within

\* One move after another.
LEMMA MovedTrans ==
  ASSUME NEW H, NEW b, NEW h, NEW h1, NEW h2, Moved(h, h1, H, b), Moved(h1, h2, H, b)
  PROVE  Moved(h, h2, H, b)
<1>1. Within(h, h2, H)
  BY WithinTrans DEF Moved
<1>2. QED BY <1>1 DEF Moved

\* Unlink changes the links of b, and nothing else.
LEMMA UnlinkIs ==
  ASSUME NEW h \in Heaps, NEW H, Spaced(H), NEW b \in H
  PROVE  /\ Within(h, Unlink(h, b), H) /\ SameHeads(h, Unlink(h, b))
         /\ Next_(Unlink(h, b).mem, b) = NULL /\ Prev(Unlink(h, b).mem, b) = NULL
         /\ \A c \in H : /\ Size(Unlink(h, b).mem, c) = Size(h.mem, c) /\ IsFree(Unlink(h, b).mem, c) = IsFree(h.mem, c)
                         /\ c # b => SameHeader(h, Unlink(h, b), c)
<1> DEFINE h1 == SetPrev(h, b, NULL)
           g == Unlink(h, b)
<1>0. NULL \in Nat
  BY DEF NULL
<1>1. Preved(h, h1, H, b, NULL) /\ Within(h, h1, H) /\ SameHeads(h, h1)
  BY <1>0, HeaderWrites
<1>2. Nexted(h1, g, H, b, NULL) /\ Within(h1, g, H) /\ SameHeads(h1, g)
  <2>1. g = SetNext(h1, b, NULL) /\ h1 \in Heaps
    BY <1>1 DEF Unlink, Within
  <2> HIDE DEF h1, g
  <2>2. QED BY <1>0, <2>1, HeaderWrites
<1> HIDE DEF h1, g
<1>3. Within(h, g, H) /\ SameHeads(h, g)
  BY <1>1, <1>2, WithinTrans DEF SameHeads
<1>4. \A c \in H : /\ Size(g.mem, c) = Size(h.mem, c) /\ IsFree(g.mem, c) = IsFree(h.mem, c)
                   /\ Next_(g.mem, c) = (IF c = b THEN NULL ELSE Next_(h.mem, c))
                   /\ Prev(g.mem, c) = (IF c = b THEN NULL ELSE Prev(h.mem, c))
  BY <1>1, <1>2 DEF Nexted, Preved
<1>5. QED BY <1>3, <1>4 DEF SameHeader, g

\* The neighbours of the block at p in a list are where the list says.
LEMMA Neighbours ==
  ASSUME NEW h, NEW j, NEW S, NEW s \in Seq(S), List(h, j, s), NEW p \in 1..Len(s)
  PROVE  /\ p \in Nat /\ Len(s) \in Nat
         /\ At(s, p) = s[p]
         /\ At(s, p - 1) = NULL <=> p = 1
         /\ At(s, p + 1) = NULL <=> p = Len(s)
         /\ At(s, p - 1) # NULL => At(s, p - 1) \in S
         /\ At(s, p + 1) # NULL => At(s, p + 1) \in S
         /\ \A k \in 1..Len(s) : /\ At(s, p - 1) # NULL => (s[k] = At(s, p - 1) <=> k = p - 1)
                                 /\ At(s, p + 1) # NULL => (s[k] = At(s, p + 1) <=> k = p + 1)
                                 /\ s[k] = s[p] <=> k = p
                                 /\ s[k] # NULL
<1>1. Len(s) \in Nat /\ p \in Nat /\ \A k \in 1..Len(s) : s[k] \in S
  OBVIOUS
<1>2. \A k \in 1..Len(s) : s[k] # NULL
  BY DEF List
<1>3. \A k, l \in 1..Len(s) : s[k] = s[l] => k = l
  <2>1. \A k, l \in 1..Len(s) : k < l => s[k] # s[l]
    BY DEF List
  <2>2. QED BY <1>1, <2>1
<1>4. At(s, p - 1) = IF p = 1 THEN NULL ELSE s[p - 1]
  BY <1>1 DEF At
<1>5. At(s, p + 1) = IF p = Len(s) THEN NULL ELSE s[p + 1]
  BY <1>1 DEF At
<1>6. At(s, p) = s[p]
  BY <1>1 DEF At
<1>7. (p # 1 => p - 1 \in 1..Len(s)) /\ (p # Len(s) => p + 1 \in 1..Len(s))
  BY <1>1
<1>8. QED BY <1>1, <1>2, <1>3, <1>4, <1>5, <1>6, <1>7

\* remove_from_bin takes a block out, from wherever it is in its list.
LEMMA RemoveBinned ==
  ASSUME NEW h \in Heaps, NEW H, Spaced(H), NEW K \in SUBSET H, NEW L, Binned(h, K, L),
         NEW i \in Bins, NEW b, Listed(L[4 + i], b)
  PROVE  /\ \E M : Binned(remove_from_bin(h, i, b), K \ {b}, M)
         /\ Moved(h, remove_from_bin(h, i, b), H, b)
<1> DEFINE j == 4 + i
           s == L[j]
           before == Prev(h.mem, b)
           after == Next_(h.mem, b)
           h1 == IF before # NULL THEN SetNext(h, before, after) ELSE WithReg(h, i, after)
           h2 == IF after # NULL THEN SetPrev(h1, after, before) ELSE h1
           g == remove_from_bin(h, i, b)
<1>1. j \in AllBins /\ j >= 4
  BY BinsOf
<1>2. s \in Seq(K) /\ List(h, j, s)
  BY <1>1 DEF Binned
<1>3. PICK p \in 1..Len(s) : s[p] = b
  BY DEF Listed
<1>4. b \in K /\ b \in H
  BY <1>2, <1>3
<1>5. before = At(s, p - 1) /\ after = At(s, p + 1)
  BY <1>1, <1>2, <1>3 DEF List
<1>6. (before # NULL => before \in H) /\ (after # NULL => after \in H) /\ before \in Nat /\ after \in Nat
  <2>1. before \in Nat /\ after \in Nat
    BY MemoryFacts DEF Heaps, Prev, Next_
  <2>2. (before # NULL => before \in K) /\ (after # NULL => after \in K)
    <3> HIDE DEF before, after, s, j
    <3>1. QED BY <1>2, <1>5, Neighbours
  <2>3. QED BY <2>1, <2>2
<1>7. g = Unlink(h2, b)
  BY DEF remove_from_bin, WithReg
<1> HIDE DEF s, j, before, after
<1>8. /\ Within(h, h1, H)
      /\ \A c \in H : /\ Next_(h1.mem, c) = IF before # NULL /\ c = before THEN after ELSE Next_(h.mem, c)
                      /\ Size(h1.mem, c) = Size(h.mem, c) /\ IsFree(h1.mem, c) = IsFree(h.mem, c) /\ Prev(h1.mem, c) = Prev(h.mem, c)
      /\ \A k \in AllBins : HeadOf(h1, k) = IF before = NULL /\ k = j THEN after ELSE HeadOf(h, k)
  <2>1. CASE before # NULL
    <3>1. h1 = SetNext(h, before, after)
      BY <2>1
    <3>2. Nexted(h, SetNext(h, before, after), H, before, after) /\ Within(h, SetNext(h, before, after), H)
          /\ SameHeads(h, SetNext(h, before, after))
      BY <1>6, <2>1, HeaderWrites
    <3> HIDE DEF h1
    <3>3. Nexted(h, h1, H, before, after) /\ Within(h, h1, H) /\ SameHeads(h, h1)
      BY <3>1, <3>2
    <3>4. QED BY <2>1, <3>3, HeadsSame DEF Nexted
  <2>2. CASE before = NULL
    <3>1. h1 = WithReg(h, i, after)
      BY <2>2
    <3>2. /\ WithReg(h, i, after) \in Heaps /\ WithReg(h, i, after).mem = h.mem
          /\ \A k \in AllBins : HeadOf(WithReg(h, i, after), k) = IF k = j THEN after ELSE HeadOf(h, k)
      <4>1. h \in Heaps /\ i \in Bins /\ after \in Nat /\ j = 4 + i
        BY <1>6 DEF j
      <4>2. QED BY ONLY <4>1, HeadSet, SMTT(90)
    <3> HIDE DEF h1
    <3>3. QED BY <2>2, <3>1, <3>2 DEF Within
  <2>3. QED BY <2>1, <2>2
<1> HIDE DEF h1
<1>9. /\ Within(h1, h2, H)
      /\ \A c \in H : /\ Prev(h2.mem, c) = IF after # NULL /\ c = after THEN before ELSE Prev(h1.mem, c)
                      /\ Size(h2.mem, c) = Size(h1.mem, c) /\ IsFree(h2.mem, c) = IsFree(h1.mem, c) /\ Next_(h2.mem, c) = Next_(h1.mem, c)
      /\ \A k \in AllBins : HeadOf(h2, k) = HeadOf(h1, k)
  <2>0. h1 \in Heaps
    BY <1>8 DEF Within
  <2>1. CASE after # NULL
    <3>1. h2 = SetPrev(h1, after, before)
      BY <2>1
    <3>2. Preved(h1, SetPrev(h1, after, before), H, after, before) /\ Within(h1, SetPrev(h1, after, before), H)
          /\ SameHeads(h1, SetPrev(h1, after, before))
      BY <1>6, <2>0, <2>1, HeaderWrites
    <3> HIDE DEF h2
    <3>3. Preved(h1, h2, H, after, before) /\ Within(h1, h2, H) /\ SameHeads(h1, h2)
      BY <3>1, <3>2
    <3>4. QED BY <2>1, <3>3, HeadsSame DEF Preved
  <2>2. CASE after = NULL
    <3>1. h2 = h1
      BY <2>2
    <3> HIDE DEF h2
    <3>2. QED BY <2>0, <2>2, <3>1 DEF Within
  <2>3. QED BY <2>1, <2>2
<1> HIDE DEF h2, g
<1>10. /\ Within(h2, g, H) /\ \A k \in AllBins : HeadOf(g, k) = HeadOf(h2, k)
       /\ \A c \in H : /\ Size(g.mem, c) = Size(h2.mem, c) /\ IsFree(g.mem, c) = IsFree(h2.mem, c)
                       /\ c # b => SameHeader(h2, g, c)
  <2>1. h2 \in Heaps
    BY <1>9 DEF Within
  <2>2. QED BY <1>4, <1>7, <2>1, UnlinkIs, HeadsSame
<1>11. Within(h, g, H)
  <2>1. Within(h, h2, H)
    BY <1>8, <1>9, WithinTrans
  <2>2. QED BY <1>10, <2>1, WithinTrans
<1>12. \A c \in H : c # b =>
         /\ Next_(g.mem, c) = IF before # NULL /\ c = before THEN after ELSE Next_(h.mem, c)
         /\ Prev(g.mem, c) = IF after # NULL /\ c = after THEN before ELSE Prev(h.mem, c)
  BY <1>8, <1>9, <1>10 DEF SameHeader
<1>13. \A c \in H : Size(g.mem, c) = Size(h.mem, c) /\ IsFree(g.mem, c) = IsFree(h.mem, c)
  BY <1>8, <1>9, <1>10
<1>14. \A k \in AllBins : HeadOf(g, k) = IF before = NULL /\ k = j THEN after ELSE HeadOf(h, k)
  BY <1>8, <1>9, <1>10
<1>15. before # NULL => Listed(s, before)
  <2>1. before # NULL => p - 1 \in 1..Len(s) /\ s[p - 1] = before
    BY <1>2, <1>5 DEF At
  <2>2. QED BY <2>1 DEF Listed
<1>16. after # NULL => Listed(s, after)
  <2>1. after # NULL => p + 1 \in 1..Len(s) /\ s[p + 1] = after
    BY <1>2, <1>5 DEF At
  <2>2. QED BY <2>1 DEF Listed
<1>17. Moved(h, g, H, b)
  <2>1. ASSUME NEW c \in H, c # b, IsFree(h.mem, c) # 1 PROVE Next_(g.mem, c) = Next_(h.mem, c)
    <3>1. Listed(s, c) => IsFree(h.mem, c) = 1
      BY <1>2 DEF Listed, List
    <3>2. before # NULL => c # before
      BY <1>15, <2>1, <3>1
    <3>3. QED BY <1>12, <2>1, <3>2
  <2>2. QED BY <1>11, <1>13, <2>1 DEF Moved
<1>18. TakenOut(h, g, j, s, p)
  <2>1. /\ p \in Nat /\ (before = NULL <=> p = 1)
        /\ \A k \in 1..Len(s) : /\ before # NULL => (s[k] = before <=> k = p - 1)
                                /\ after # NULL => (s[k] = after <=> k = p + 1)
                                /\ s[k] = b <=> k = p
        /\ (after = NULL <=> p = Len(s)) /\ Len(s) \in Nat
    BY <1>2, <1>3, <1>5, Neighbours
  <2>2. HeadOf(g, j) = IF p = 1 THEN At(s, 2) ELSE HeadOf(h, j)
    <3>1. p = 1 => after = At(s, 2)
      BY <1>5
    <3>2. QED BY <1>1, <1>14, <2>1, <3>1
  <2>3. ASSUME NEW k \in 1..Len(s), k # p
        PROVE  /\ IsFree(g.mem, s[k]) = IsFree(h.mem, s[k]) /\ Size(g.mem, s[k]) = Size(h.mem, s[k])
               /\ Next_(g.mem, s[k]) = IF k = p - 1 THEN At(s, p + 1) ELSE Next_(h.mem, s[k])
               /\ Prev(g.mem, s[k]) = IF k = p + 1 THEN At(s, p - 1) ELSE Prev(h.mem, s[k])
    <3>1. s[k] \in H /\ s[k] # b
      BY <1>2, <2>1, <2>3
    <3>2. Next_(g.mem, s[k]) = IF k = p - 1 THEN after ELSE Next_(h.mem, s[k])
      <4>1. before = NULL => k # p - 1
        BY <2>1
      <4>2. QED BY <1>12, <2>1, <3>1, <4>1
    <3>3. Prev(g.mem, s[k]) = IF k = p + 1 THEN before ELSE Prev(h.mem, s[k])
      <4>1. after = NULL => k # p + 1
        BY <2>1
      <4>2. QED BY <1>12, <2>1, <3>1, <4>1
    <3>4. QED BY <1>5, <1>13, <3>1, <3>2, <3>3
  <2>4. QED BY <2>2, <2>3 DEF TakenOut
<1>19. Binned(g, K \ {b}, [L EXCEPT ![j] = Dropped(L[j], p)])
  <2>1. \A k \in AllBins \ {j} : HeadOf(g, k) = HeadOf(h, k)
    BY <1>14
  <2>2. ASSUME NEW c \in K, ~Listed(s, c) PROVE SameHeader(h, g, c)
    <3>1. c # b /\ (before # NULL => c # before) /\ (after # NULL => c # after)
      <4>1. Listed(s, b)
        BY <1>3 DEF Listed
      <4>2. QED BY <1>15, <1>16, <2>2, <4>1
    <3>2. QED BY <1>12, <1>13, <2>2, <3>1 DEF SameHeader
  <2>3. TakenOut(h, g, j, L[j], p) /\ L[j][p] = b
    BY <1>3, <1>18 DEF s
  <2>4. \A c \in K : ~Listed(L[j], c) => SameHeader(h, g, c)
    BY <2>2 DEF s
  <2>5. Binned(g, K \ {L[j][p]}, [L EXCEPT ![j] = Dropped(L[j], p)])
    BY <1>1, <2>1, <2>3, <2>4, BinnedTakenOut
  <2>6. QED BY <2>3, <2>5
<1>20. QED BY <1>17, <1>19 DEF g

\* my_malloc takes the head of a fast bin.
LEMMA PopBinned ==
  ASSUME NEW h \in Heaps, NEW H, Spaced(H), NEW K \in SUBSET H, NEW L, Binned(h, K, L),
         NEW i \in Bins, NEW b, b = h.fast[i], b # NULL
  PROVE  /\ b \in K /\ BinOf(Size(h.mem, b)) = i /\ IsFree(h.mem, b) = 1
         /\ \E M : Binned(SetNext(WithFast(h, i, Next_(h.mem, b)), b, NULL), K \ {b}, M)
         /\ Moved(h, SetNext(WithFast(h, i, Next_(h.mem, b)), b, NULL), H, b)
<1> DEFINE s == L[i]
           after == Next_(h.mem, b)
           h1 == WithFast(h, i, after)
           g == SetNext(h1, b, NULL)
<1>1. i \in AllBins /\ ~(i >= 4) /\ HeadOf(h, i) = b
  BY BinsOf
<1>2. s \in Seq(K) /\ List(h, i, s)
  BY <1>1 DEF Binned
<1>3. 1 \in 1..Len(s) /\ s[1] = b
  BY <1>1, <1>2 DEF List, At
<1>4. b \in K /\ b \in H /\ Listed(s, b)
  BY <1>2, <1>3 DEF Listed
<1>5. BinOf(Size(h.mem, b)) = i /\ IsFree(h.mem, b) = 1
  BY <1>1, <1>4, ListedBin
<1>6. after = At(s, 2) /\ after \in Nat
  <2>1. after \in Nat
    BY MemoryFacts DEF Heaps, Next_
  <2>2. after = At(s, 1 + 1)
    BY <1>2, <1>3 DEF List
  <2>3. QED BY <2>1, <2>2
<1> HIDE DEF s, after
<1>7. /\ h1 \in Heaps /\ h1.mem = h.mem
      /\ \A k \in AllBins : HeadOf(h1, k) = IF k = i THEN after ELSE HeadOf(h, k)
  <2> DEFINE j == 4 + i
  <2>1. h \in Heaps /\ i \in Bins /\ after \in Nat /\ j = 4 + i
    BY <1>6
  <2> HIDE DEF j
  <2>2. QED BY ONLY <2>1, HeadSet, SMTT(30)
<1> HIDE DEF h1
<1>8. Nexted(h1, g, H, b, NULL) /\ Within(h1, g, H) /\ SameHeads(h1, g)
  <2>1. NULL \in Nat
    BY DEF NULL
  <2>2. QED BY <1>4, <1>7, <2>1, HeaderWrites
<1> HIDE DEF g
<1>9. /\ Within(h, g, H)
      /\ \A k \in AllBins : HeadOf(g, k) = IF k = i THEN after ELSE HeadOf(h, k)
      /\ \A c \in H : /\ Size(g.mem, c) = Size(h.mem, c) /\ IsFree(g.mem, c) = IsFree(h.mem, c)
                      /\ c # b => SameHeader(h, g, c)
  <2>1. Within(h, g, H)
    BY <1>7, <1>8 DEF Within
  <2>2. \A k \in AllBins : HeadOf(g, k) = IF k = i THEN after ELSE HeadOf(h, k)
    BY <1>7, <1>8, HeadsSame
  <2>3. QED BY <1>7, <1>8, <2>1, <2>2 DEF Nexted, SameHeader
<1>10. Moved(h, g, H, b)
  BY <1>9 DEF Moved, SameHeader
<1>11. TakenOut(h, g, i, s, 1)
  <2>1. ASSUME NEW k \in 1..Len(s), k # 1
        PROVE  s[k] \in H /\ s[k] # b /\ k # 1 - 1
    <3>1. s[k] \in K /\ k \in Nat
      BY <1>2
    <3>2. s[k] # s[1]
      BY <1>2, <1>3, <2>1, Neighbours
    <3>3. QED BY <1>3, <3>1, <3>2
  <2>2. HeadOf(g, i) = At(s, 2)
    BY <1>1, <1>6, <1>9
  <2>3. QED BY <1>1, <1>3, <1>9, <2>1, <2>2 DEF TakenOut, SameHeader
<1>12. Binned(g, K \ {b}, [L EXCEPT ![i] = Dropped(L[i], 1)])
  <2>1. \A k \in AllBins \ {i} : HeadOf(g, k) = HeadOf(h, k)
    BY <1>9
  <2>2. ASSUME NEW c \in K, ~Listed(L[i], c) PROVE SameHeader(h, g, c)
    BY <1>4, <1>9, <2>2 DEF s
  <2>3. TakenOut(h, g, i, L[i], 1) /\ L[i][1] = b
    BY <1>3, <1>11 DEF s
  <2>4. Binned(g, K \ {L[i][1]}, [L EXCEPT ![i] = Dropped(L[i], 1)])
    BY <1>1, <2>1, <2>2, <2>3, BinnedTakenOut
  <2>5. QED BY <2>3, <2>4
<1>13. QED BY <1>4, <1>5, <1>10, <1>12 DEF g, h1, after

\* What is binned stays so where no header and no head changes.
LEMMA BinnedKept ==
  ASSUME NEW h, NEW g, NEW K, NEW L, Binned(h, K, L),
         \A c \in K : SameHeader(h, g, c), \A k \in AllBins : HeadOf(g, k) = HeadOf(h, k)
  PROVE  Binned(g, K, L)
<1>1. ASSUME NEW j \in AllBins PROVE List(g, j, L[j])
  <2>1. List(h, j, L[j]) /\ L[j] \in Seq(K)
    BY DEF Binned
  <2>2. \A k \in 1..Len(L[j]) : SameHeader(h, g, L[j][k])
    BY <2>1
  <2>3. QED BY <2>1, <2>2, ListKept
<1>2. \A c \in K : IsFree(g.mem, c) = 1 => IsFree(h.mem, c) = 1
  BY DEF SameHeader
<1>3. QED BY <1>1, <1>2 DEF Binned

\* g is h with b linked in between x and y, each of them a block or NULL, and
\* at the head of bin j when x is NULL.
Between(h, g, H, j, b, x, y) ==
  /\ Within(h, g, H)
  /\ \A k \in AllBins : HeadOf(g, k) = IF x = NULL /\ k = j THEN b ELSE HeadOf(h, k)
  /\ \A c \in H :
       /\ Size(g.mem, c) = Size(h.mem, c) /\ IsFree(g.mem, c) = IsFree(h.mem, c)
       /\ Next_(g.mem, c) = IF c = b THEN y ELSE IF x # NULL /\ c = x THEN b ELSE Next_(h.mem, c)
       /\ Prev(g.mem, c) = IF c = b THEN x ELSE IF y # NULL /\ c = y THEN b ELSE Prev(h.mem, c)

\* The four ways insert_sorted links a block in.
LEMMA BetweenNone ==
  ASSUME NEW h \in Heaps, NEW H, Spaced(H), NEW b \in H, NEW i \in Bins,
         Next_(h.mem, b) = NULL, Prev(h.mem, b) = NULL, NEW j, j = 4 + i
  PROVE  Between(h, WithReg(h, i, b), H, j, b, NULL, NULL)
<1>1. b \in Nat
  BY DEF Spaced, Addresses
<1>2. /\ WithReg(h, i, b) \in Heaps /\ WithReg(h, i, b).mem = h.mem
      /\ \A k \in AllBins : HeadOf(WithReg(h, i, b), k) = IF k = j THEN b ELSE HeadOf(h, k)
  BY <1>1, HeadSet, SMTT(30)
<1> DEFINE g == WithReg(h, i, b)
<1> HIDE DEF g
<1>3. g \in Heaps /\ g.mem = h.mem /\ \A k \in AllBins : HeadOf(g, k) = IF k = j THEN b ELSE HeadOf(h, k)
  BY <1>2 DEF g
<1>4. QED BY <1>3 DEF Between, Within, g

\* Before the head of the list.
LEMMA BetweenHead ==
  ASSUME NEW h \in Heaps, NEW H, Spaced(H), NEW b \in H, NEW i \in Bins, NEW y \in H, y # b,
         Prev(h.mem, b) = NULL, NEW j, j = 4 + i
  PROVE  Between(h, WithReg(SetPrev(SetNext(h, b, y), y, b), i, b), H, j, b, NULL, y)
<1> DEFINE h1 == SetNext(h, b, y)
           h2 == SetPrev(h1, y, b)
           g == WithReg(h2, i, b)
<1>1. b \in Nat /\ y \in Nat /\ y # NULL
  BY DEF Spaced, Addresses
<1>2. Nexted(h, h1, H, b, y) /\ Within(h, h1, H) /\ SameHeads(h, h1)
  BY <1>1, HeaderWrites
<1> HIDE DEF h1
<1>3. Preved(h1, h2, H, y, b) /\ Within(h1, h2, H) /\ SameHeads(h1, h2)
  BY <1>1, <1>2, HeaderWrites DEF Within
<1> HIDE DEF h2
<1>4. /\ g \in Heaps /\ g.mem = h2.mem
      /\ \A k \in AllBins : HeadOf(g, k) = IF k = j THEN b ELSE HeadOf(h2, k)
  <2>1. h2 \in Heaps
    BY <1>3 DEF Within
  <2>2. QED BY <1>1, <2>1, HeadSet, SMTT(90)
<1> HIDE DEF g
<1>5. Within(h, g, H)
  <2>1. Within(h, h2, H)
    BY <1>2, <1>3, WithinTrans
  <2>2. QED BY <1>4, <2>1 DEF Within
<1>6. \A k \in AllBins : HeadOf(g, k) = IF k = j THEN b ELSE HeadOf(h, k)
  BY <1>2, <1>3, <1>4, HeadsSame
<1>7. \A c \in H :
       /\ Size(g.mem, c) = Size(h.mem, c) /\ IsFree(g.mem, c) = IsFree(h.mem, c)
       /\ Next_(g.mem, c) = IF c = b THEN y ELSE Next_(h.mem, c)
       /\ Prev(g.mem, c) = IF c = b THEN NULL ELSE IF c = y THEN b ELSE Prev(h.mem, c)
  BY <1>2, <1>3, <1>4 DEF Nexted, Preved
<1>8. QED BY <1>1, <1>5, <1>6, <1>7 DEF Between, g, h2, h1

\* Behind the last block of the list.
LEMMA BetweenTail ==
  ASSUME NEW h \in Heaps, NEW H, Spaced(H), NEW b \in H, NEW x \in H, x # b,
         Next_(h.mem, b) = NULL, NEW j
  PROVE  Between(h, SetPrev(SetNext(h, x, b), b, x), H, j, b, x, NULL)
<1> DEFINE h1 == SetNext(h, x, b)
           g == SetPrev(h1, b, x)
<1>1. b \in Nat /\ x \in Nat /\ x # NULL
  BY DEF Spaced, Addresses
<1>2. Nexted(h, h1, H, x, b) /\ Within(h, h1, H) /\ SameHeads(h, h1)
  BY <1>1, HeaderWrites
<1> HIDE DEF h1
<1>3. Preved(h1, g, H, b, x) /\ Within(h1, g, H) /\ SameHeads(h1, g)
  BY <1>1, <1>2, HeaderWrites DEF Within
<1> HIDE DEF g
<1>4. Within(h, g, H)
  BY <1>2, <1>3, WithinTrans
<1>5. \A k \in AllBins : HeadOf(g, k) = HeadOf(h, k)
  BY <1>2, <1>3, HeadsSame
<1>6. \A c \in H :
       /\ Size(g.mem, c) = Size(h.mem, c) /\ IsFree(g.mem, c) = IsFree(h.mem, c)
       /\ Next_(g.mem, c) = IF c = b THEN NULL ELSE IF c = x THEN b ELSE Next_(h.mem, c)
       /\ Prev(g.mem, c) = IF c = b THEN x ELSE Prev(h.mem, c)
  BY <1>2, <1>3 DEF Nexted, Preved
<1>7. QED BY <1>1, <1>4, <1>5, <1>6 DEF Between, g, h1

\* Between two blocks of the list.
LEMMA BetweenTwo ==
  ASSUME NEW h \in Heaps, NEW H, Spaced(H), NEW b \in H, NEW x \in H, x # b, NEW y \in H, y # b, NEW j
  PROVE  Between(h, SetPrev(SetNext(SetPrev(SetNext(h, b, y), b, x), x, b), y, b), H, j, b, x, y)
<1> DEFINE h1 == SetNext(h, b, y)
           h2 == SetPrev(h1, b, x)
           h3 == SetNext(h2, x, b)
           g == SetPrev(h3, y, b)
<1>1. b \in Nat /\ x \in Nat /\ x # NULL /\ y \in Nat /\ y # NULL
  BY DEF Spaced, Addresses
<1>2. Nexted(h, h1, H, b, y) /\ Within(h, h1, H) /\ SameHeads(h, h1)
  BY <1>1, HeaderWrites
<1> HIDE DEF h1
<1>3. Preved(h1, h2, H, b, x) /\ Within(h1, h2, H) /\ SameHeads(h1, h2)
  BY <1>1, <1>2, HeaderWrites DEF Within
<1> HIDE DEF h2
<1>4. Nexted(h2, h3, H, x, b) /\ Within(h2, h3, H) /\ SameHeads(h2, h3)
  BY <1>1, <1>3, HeaderWrites DEF Within
<1> HIDE DEF h3
<1>5. Preved(h3, g, H, y, b) /\ Within(h3, g, H) /\ SameHeads(h3, g)
  BY <1>1, <1>4, HeaderWrites DEF Within
<1> HIDE DEF g
<1>6. Within(h, g, H)
  <2>1. Within(h, h2, H)
    BY <1>2, <1>3, WithinTrans
  <2>2. Within(h, h3, H)
    BY <1>4, <2>1, WithinTrans
  <2>3. QED BY <1>5, <2>2, WithinTrans
<1>7. \A k \in AllBins : HeadOf(g, k) = HeadOf(h, k)
  BY <1>2, <1>3, <1>4, <1>5, HeadsSame
<1>8. ASSUME NEW c \in H
      PROVE  /\ Size(g.mem, c) = Size(h.mem, c) /\ IsFree(g.mem, c) = IsFree(h.mem, c)
             /\ Next_(g.mem, c) = IF c = b THEN y ELSE IF c = x THEN b ELSE Next_(h.mem, c)
             /\ Prev(g.mem, c) = IF c = b THEN x ELSE IF c = y THEN b ELSE Prev(h.mem, c)
  <2>1. /\ Size(g.mem, c) = Size(h3.mem, c) /\ IsFree(g.mem, c) = IsFree(h3.mem, c) /\ Next_(g.mem, c) = Next_(h3.mem, c)
        /\ Prev(g.mem, c) = IF c = y THEN b ELSE Prev(h3.mem, c)
    BY <1>5 DEF Preved
  <2>2. /\ Size(h3.mem, c) = Size(h2.mem, c) /\ IsFree(h3.mem, c) = IsFree(h2.mem, c) /\ Prev(h3.mem, c) = Prev(h2.mem, c)
        /\ Next_(h3.mem, c) = IF c = x THEN b ELSE Next_(h2.mem, c)
    BY <1>4 DEF Nexted
  <2>3. /\ Size(h2.mem, c) = Size(h1.mem, c) /\ IsFree(h2.mem, c) = IsFree(h1.mem, c) /\ Next_(h2.mem, c) = Next_(h1.mem, c)
        /\ Prev(h2.mem, c) = IF c = b THEN x ELSE Prev(h1.mem, c)
    BY <1>3 DEF Preved
  <2>4. /\ Size(h1.mem, c) = Size(h.mem, c) /\ IsFree(h1.mem, c) = IsFree(h.mem, c) /\ Prev(h1.mem, c) = Prev(h.mem, c)
        /\ Next_(h1.mem, c) = IF c = b THEN y ELSE Next_(h.mem, c)
    BY <1>2 DEF Nexted
  <2>5. QED BY <2>1, <2>2, <2>3, <2>4
<1>9. QED BY <1>1, <1>6, <1>7, <1>8 DEF Between, g, h3, h2, h1

\* A gap in a list, before its element p.
LEMMA Gap ==
  ASSUME NEW h, NEW j, NEW S, NEW s \in Seq(S), List(h, j, s), NEW p \in 1..Len(s) + 1
  PROVE  /\ p \in Nat /\ Len(s) \in Nat
         /\ At(s, p - 1) = NULL <=> p = 1
         /\ At(s, p) = NULL <=> p = Len(s) + 1
         /\ At(s, p - 1) # NULL => At(s, p - 1) \in S /\ Listed(s, At(s, p - 1)) /\ At(s, p - 1) = s[p - 1] /\ p - 1 \in 1..Len(s)
         /\ At(s, p) # NULL => At(s, p) \in S /\ Listed(s, At(s, p)) /\ At(s, p) = s[p] /\ p \in 1..Len(s)
         /\ \A k \in 1..Len(s) : /\ At(s, p - 1) # NULL => (s[k] = At(s, p - 1) <=> k = p - 1)
                                 /\ At(s, p) # NULL => (s[k] = At(s, p) <=> k = p)
                                 /\ s[k] \in S
<1>1. Len(s) \in Nat /\ p \in Nat /\ \A k \in 1..Len(s) : s[k] \in S
  OBVIOUS
<1>2. \A k \in 1..Len(s) : s[k] # NULL
  BY DEF List
<1>3. \A k, l \in 1..Len(s) : s[k] = s[l] => k = l
  <2>1. \A k, l \in 1..Len(s) : k < l => s[k] # s[l]
    BY DEF List
  <2>2. QED BY <1>1, <2>1
<1>4. At(s, p - 1) = IF p = 1 THEN NULL ELSE s[p - 1]
  BY <1>1 DEF At
<1>5. At(s, p) = IF p = Len(s) + 1 THEN NULL ELSE s[p]
  BY <1>1 DEF At
<1>6. (p # 1 => p - 1 \in 1..Len(s)) /\ (p # Len(s) + 1 => p \in 1..Len(s))
  BY <1>1
<1>7. \A k \in 1..Len(s) : Listed(s, s[k])
  BY DEF Listed
<1>8. QED BY <1>1, <1>2, <1>3, <1>4, <1>5, <1>6, <1>7

\* A block linked in where its size belongs is binned.
LEMMA BetweenBinned ==
  ASSUME NEW h \in Heaps, NEW g, NEW H, Spaced(H), NEW K \in SUBSET H, NEW b \in H, b \notin K,
         NEW L, Binned(h, K, L), NEW j \in AllBins, j >= 4,
         IsFree(h.mem, b) = 1, BinOf(Size(h.mem, b)) = j, Size(h.mem, b) # 0,
         NEW p \in 1..Len(L[j]) + 1,
         \A k \in 1..Len(L[j]) : k < p => Size(h.mem, L[j][k]) <= Size(h.mem, b),
         \A k \in 1..Len(L[j]) : k >= p => Size(h.mem, b) <= Size(h.mem, L[j][k]),
         Between(h, g, H, j, b, At(L[j], p - 1), At(L[j], p))
  PROVE  /\ \E M : Binned(g, K \cup {b}, M)
         /\ Moved(h, g, H, b)
<1> DEFINE s == L[j]
           x == At(s, p - 1)
           y == At(s, p)
<1>1. List(h, j, s) /\ s \in Seq(K) /\ p \in 1..Len(s) + 1
  BY DEF Binned
<1>2. /\ p \in Nat /\ Len(s) \in Nat
      /\ x = NULL <=> p = 1
      /\ x # NULL => x \in K /\ Listed(s, x)
      /\ y # NULL => y \in K /\ Listed(s, y)
      /\ y = NULL <=> p = Len(s) + 1
      /\ \A k \in 1..Len(s) : /\ x # NULL => (s[k] = x <=> k = p - 1)
                              /\ y # NULL => (s[k] = y <=> k = p)
                              /\ s[k] \in K
  <2> HIDE DEF s
  <2>1. QED BY <1>1, Gap
<1>3. /\ Within(h, g, H)
      /\ \A k \in AllBins : HeadOf(g, k) = IF x = NULL /\ k = j THEN b ELSE HeadOf(h, k)
      /\ \A c \in H :
          /\ Size(g.mem, c) = Size(h.mem, c) /\ IsFree(g.mem, c) = IsFree(h.mem, c)
          /\ Next_(g.mem, c) = IF c = b THEN y ELSE IF x # NULL /\ c = x THEN b ELSE Next_(h.mem, c)
          /\ Prev(g.mem, c) = IF c = b THEN x ELSE IF y # NULL /\ c = y THEN b ELSE Prev(h.mem, c)
  BY DEF Between
<1>4. b \in Nat \ {NULL}
  BY DEF Spaced, Addresses
<1>5. \A k \in 1..Len(s) : /\ k < p => Size(h.mem, s[k]) <= Size(h.mem, b)
                           /\ k >= p => Size(h.mem, b) <= Size(h.mem, s[k])
  OBVIOUS
<1>6. x = At(s, p - 1) /\ y = At(s, p)
  OBVIOUS
<1>7. \A c : Listed(s, c) => IsFree(h.mem, c) = 1
  BY <1>1 DEF List, Listed
<1> HIDE DEF x, y
<1>8. Moved(h, g, H, b)
  <2>1. ASSUME NEW c \in H, c # b, IsFree(h.mem, c) # 1 PROVE Next_(g.mem, c) = Next_(h.mem, c)
    <3>1. x # NULL => c # x
      BY <1>2, <1>7, <2>1
    <3>2. QED BY <1>3, <2>1, <3>1
  <2>2. QED BY <1>3, <2>1 DEF Moved
<1> HIDE DEF s
<1>9. Entered(h, g, j, s, p, b)
  <2>1. ASSUME NEW k \in 1..Len(s)
        PROVE  /\ s[k] # b
               /\ IsFree(g.mem, s[k]) = IsFree(h.mem, s[k]) /\ Size(g.mem, s[k]) = Size(h.mem, s[k])
               /\ Next_(g.mem, s[k]) = IF k = p - 1 THEN b ELSE Next_(h.mem, s[k])
               /\ Prev(g.mem, s[k]) = IF k = p THEN b ELSE Prev(h.mem, s[k])
               /\ k < p => Size(h.mem, s[k]) <= Size(g.mem, b)
               /\ k >= p => Size(g.mem, b) <= Size(h.mem, s[k])
    <3>1. s[k] \in H /\ s[k] # b
      BY <1>2
    <3>2. Next_(g.mem, s[k]) = IF k = p - 1 THEN b ELSE Next_(h.mem, s[k])
      <4>1. x = NULL => k # p - 1
        BY <1>2
      <4>2. QED BY <1>2, <1>3, <3>1, <4>1
    <3>3. Prev(g.mem, s[k]) = IF k = p THEN b ELSE Prev(h.mem, s[k])
      <4>1. y = NULL => k # p
        BY <1>2
      <4>2. QED BY <1>2, <1>3, <3>1, <4>1
    <3>4. QED BY <1>3, <1>5, <3>1, <3>2, <3>3
  <2>2. IsFree(g.mem, b) = 1 /\ Size(g.mem, b) = Size(h.mem, b) /\ Next_(g.mem, b) = y /\ Prev(g.mem, b) = x
    BY <1>3
  <2>3. HeadOf(g, j) = IF p = 1 THEN b ELSE HeadOf(h, j)
    BY <1>2, <1>3
  <2>4. QED BY <1>1, <1>4, <1>6, <2>1, <2>2, <2>3 DEF Entered
<1>10. Binned(g, K \cup {b}, [L EXCEPT ![j] = Inserted(L[j], p, b)])
  <2>1. \A k \in AllBins \ {j} : HeadOf(g, k) = HeadOf(h, k)
    BY <1>3
  <2>2. ASSUME NEW c \in K, ~Listed(L[j], c) PROVE SameHeader(h, g, c)
    <3>1. c # b /\ (x # NULL => c # x) /\ (y # NULL => c # y)
      BY <1>2, <2>2 DEF s
    <3>2. QED BY <1>3, <3>1 DEF SameHeader
  <2>3. Entered(h, g, j, L[j], p, b)
    BY <1>9 DEF s
  <2>4. QED BY <2>1, <2>2, <2>3, BinnedEntered
<1>11. QED BY <1>8, <1>10

\* insert_sorted links a block in where its size belongs.
LEMMA InsertBinned ==
  ASSUME NEW h \in Heaps, NEW H, Spaced(H), NEW K \in SUBSET H, NEW b \in H, b \notin K,
         NEW L, Binned(h, K, L), IsFree(h.mem, b) = 1, Size(h.mem, b) # 0,
         index_fastbin(Size(h.mem, b)) = -1, NEW i, i = index_regbin(Size(h.mem, b))
  PROVE  /\ \E M : Binned(insert_sorted(h, i, b), K \cup {b}, M)
         /\ Moved(h, insert_sorted(h, i, b), H, b)
<1> DEFINE j == 4 + i
           s == L[j]
           h0 == Unlink(h, b)
           size == Size(h0.mem, b)
           head == h0.reg[i]
           cur == FirstFit(h0.mem, head, size)
           last == Last(ListOf(h0.mem, head))
           before == Prev(h0.mem, cur)
           g == insert_sorted(h, i, b)
<1>1. /\ Within(h, h0, H) /\ SameHeads(h, h0)
      /\ Next_(h0.mem, b) = NULL /\ Prev(h0.mem, b) = NULL
      /\ \A c \in H : /\ Size(h0.mem, c) = Size(h.mem, c) /\ IsFree(h0.mem, c) = IsFree(h.mem, c)
                      /\ c # b => SameHeader(h, h0, c)
  BY UnlinkIs
<1>2. size \in Nat /\ size = Size(h.mem, b) /\ IsFree(h0.mem, b) = 1 /\ h0 \in Heaps /\ h0.mem \in Memories
  BY <1>1, MemoryFacts DEF Heaps, Size, Within
<1>3. i \in Bins /\ BinOf(size) = j
  BY <1>2, RegIndex
<1>4. j \in AllBins /\ j >= 4 /\ HeadOf(h0, j) = head /\ j = 4 + i
  BY <1>3, BinsOf
<1>5. g = IF head = NULL THEN WithReg(h0, i, b)
          ELSE IF cur = head THEN WithReg(SetPrev(SetNext(h0, b, cur), cur, b), i, b)
          ELSE IF cur = NULL THEN SetPrev(SetNext(h0, last, b), b, last)
          ELSE SetPrev(SetNext(SetPrev(SetNext(h0, b, cur), b, before), before, b), cur, b)
  BY DEF insert_sorted, WithReg
<1>6. Moved(h, h0, H, b)
  BY <1>1 DEF Moved, SameHeader
<1> HIDE DEF h0, j
<1>7. Binned(h0, K, L)
  <2>1. \A c \in K : SameHeader(h, h0, c)
    BY <1>1
  <2>2. \A k \in AllBins : HeadOf(h0, k) = HeadOf(h, k)
    BY <1>1, HeadsSame
  <2>3. QED BY <2>1, <2>2, BinnedKept
<1>8. List(h0, j, s) /\ s \in Seq(K)
  BY <1>4, <1>7 DEF Binned
<1>9. Chained(h0.mem, s) /\ s \in Seq(Nat) /\ head = At(s, 1)
  <2>1. \A k \in 1..Len(s) : s[k] \in Nat
    BY <1>8 DEF List
  <2> HIDE DEF s
  <2>2. s \in Seq(Nat)
    BY <1>8, <2>1
  <2>3. head = At(s, 1)
    BY <1>4, <1>8 DEF List
  <2>4. QED BY <1>8, <2>2, <2>3, ListChained
<1> HIDE DEF s, size, head
<1>10. PICK p \in 1..Len(s) + 1 : /\ cur = At(s, p)
                                  /\ \A k \in 1..Len(s) : k < p => Size(h0.mem, s[k]) < size
                                  /\ p <= Len(s) => Size(h0.mem, s[p]) >= size
  BY <1>2, <1>9, FirstFitIs
<1> DEFINE x == At(s, p - 1)
<1>11. /\ p \in Nat /\ Len(s) \in Nat
       /\ x = NULL <=> p = 1
       /\ cur = NULL <=> p = Len(s) + 1
       /\ x # NULL => x \in K /\ x = s[p - 1] /\ p - 1 \in 1..Len(s)
       /\ cur # NULL => cur \in K /\ cur = s[p] /\ p \in 1..Len(s)
  <2> HIDE DEF cur
  <2>1. QED BY <1>8, <1>10, Gap
<1>12. \A k \in 1..Len(s) : /\ k < p => Size(h0.mem, s[k]) <= size
                            /\ k >= p => size <= Size(h0.mem, s[k])
  <2> SUFFICES ASSUME NEW k \in 1..Len(s)
               PROVE  (k < p => Size(h0.mem, s[k]) <= size) /\ (k >= p => size <= Size(h0.mem, s[k]))
    OBVIOUS
  <2>1. Size(h0.mem, s[k]) \in Nat /\ (p \in 1..Len(s) => Size(h0.mem, s[p]) \in Nat)
    BY <1>2, MemoryFacts DEF Size
  <2>2. k > p => Size(h0.mem, s[p]) <= Size(h0.mem, s[k])
    BY <1>4, <1>8, <1>11 DEF List
  <2>3. k >= p => p <= Len(s) /\ p \in 1..Len(s)
    BY <1>11
  <2> HIDE DEF cur, x
  <2>4. CASE k < p
    BY <1>2, <1>10, <1>11, <2>1, <2>4
  <2>5. CASE k = p
    BY <1>10, <1>11, <2>3, <2>5
  <2>6. CASE k > p
    BY <1>2, <1>10, <1>11, <2>1, <2>2, <2>3, <2>6
  <2>7. QED BY <1>11, <2>4, <2>5, <2>6
<1>13. head = NULL <=> Len(s) = 0
  BY <1>8, <1>9, <1>11 DEF At, List
<1>14. head # NULL => (cur = head <=> p = 1)
  <2>1. head # NULL => 1 \in 1..Len(s) /\ head = s[1]
    BY <1>9, <1>11, <1>13 DEF At
  <2>2. \A k \in 1..Len(s) : k # 1 => s[k] # s[1]
    BY <1>8, <1>11 DEF List
  <2> HIDE DEF cur, x
  <2>3. QED BY <1>10, <1>11, <2>1, <2>2 DEF At
<1>15. head # NULL => last = s[Len(s)]
  BY <1>2, <1>9, ListOfIs DEF Last
<1>16. head # NULL /\ cur # head /\ cur # NULL => before = x
  <2>1. cur = s[p] /\ p \in 1..Len(s) => Prev(h0.mem, cur) = At(s, p - 1)
    <3> HIDE DEF cur
    <3>1. QED BY <1>4, <1>8 DEF List
  <2>2. QED BY <1>11, <2>1
<1>17. Between(h0, g, H, j, b, x, At(s, p))
  <2> HIDE DEF cur, last, before, x, g
  <2>1. \A c \in K : c \in H /\ c # b
    OBVIOUS
  <2>2. CASE head = NULL
    <3>1. x = NULL /\ At(s, p) = NULL
      BY <1>10, <1>11, <1>13, <2>2
    <3>2. g = WithReg(h0, i, b)
      BY <1>5, <2>2
    <3>3. Between(h0, WithReg(h0, i, b), H, j, b, NULL, NULL)
      BY <1>1, <1>2, <1>3, <1>4, BetweenNone
    <3>4. QED BY <3>1, <3>2, <3>3
  <2>3. CASE head # NULL /\ cur = head
    <3>1. x = NULL /\ cur = At(s, p) /\ cur \in H /\ cur # b
      BY <1>10, <1>11, <1>14, <2>1, <2>3
    <3>2. g = WithReg(SetPrev(SetNext(h0, b, cur), cur, b), i, b)
      BY <1>5, <2>3
    <3>3. Between(h0, WithReg(SetPrev(SetNext(h0, b, cur), cur, b), i, b), H, j, b, NULL, cur)
      BY <1>1, <1>2, <1>3, <1>4, <3>1, BetweenHead
    <3>4. QED BY <3>1, <3>2, <3>3
  <2>4. CASE head # NULL /\ cur # head /\ cur = NULL
    <3>1. At(s, p) = NULL /\ x = last /\ x \in H /\ x # b
      <4>1. p = Len(s) + 1 /\ p # 1
        BY <1>11, <1>14, <2>4
      <4>2. p - 1 = Len(s)
        BY <1>11, <4>1
      <4>3. QED BY <1>10, <1>11, <1>15, <2>1, <2>4, <4>1, <4>2
    <3>2. g = SetPrev(SetNext(h0, last, b), b, last)
      BY <1>5, <2>4
    <3>3. Between(h0, SetPrev(SetNext(h0, x, b), b, x), H, j, b, x, NULL)
      BY <1>1, <1>2, <3>1, BetweenTail
    <3>4. QED BY <3>1, <3>2, <3>3
  <2>5. CASE head # NULL /\ cur # head /\ cur # NULL
    <3>1. At(s, p) = cur /\ x = before /\ x \in H /\ x # b /\ cur \in H /\ cur # b
      BY <1>10, <1>11, <1>14, <1>16, <2>1, <2>5
    <3>2. g = SetPrev(SetNext(SetPrev(SetNext(h0, b, cur), b, before), before, b), cur, b)
      BY <1>5, <2>5
    <3>3. Between(h0, SetPrev(SetNext(SetPrev(SetNext(h0, b, cur), b, x), x, b), cur, b), H, j, b, x, cur)
      BY <1>1, <1>2, <3>1, BetweenTwo
    <3>4. QED BY <3>1, <3>2, <3>3
  <2>6. QED BY <2>2, <2>3, <2>4, <2>5
<1> HIDE DEF g, cur, last, before
<1>18. /\ \E M : Binned(g, K \cup {b}, M)
       /\ Moved(h0, g, H, b)
  <2>1. /\ IsFree(h0.mem, b) = 1 /\ BinOf(Size(h0.mem, b)) = j /\ Size(h0.mem, b) # 0
        /\ p \in 1..Len(L[j]) + 1
        /\ \A k \in 1..Len(L[j]) : k < p => Size(h0.mem, L[j][k]) <= Size(h0.mem, b)
        /\ \A k \in 1..Len(L[j]) : k >= p => Size(h0.mem, b) <= Size(h0.mem, L[j][k])
        /\ Between(h0, g, H, j, b, At(L[j], p - 1), At(L[j], p))
    BY <1>2, <1>3, <1>12, <1>17 DEF s, size
  <2>2. h0 \in Heaps /\ j \in AllBins /\ j >= 4 /\ Binned(h0, K, L)
    BY <1>2, <1>4, <1>7
  <2>3. QED BY <2>1, <2>2, BetweenBinned
<1>19. QED BY <1>6, <1>18, MovedTrans DEF g

\* A block that is not free may be counted in or left out.
LEMMA BinnedMore ==
  ASSUME NEW h, NEW K, NEW L, Binned(h, K, L), NEW b, IsFree(h.mem, b) # 1
  PROVE  Binned(h, K \cup {b}, L)
<1>1. \A s \in Seq(K) : s \in Seq(K \cup {b})
  OBVIOUS
<1>2. QED BY <1>1 DEF Binned

\* Nor is a block that is not free.
LEMMA BinnedLess ==
  ASSUME NEW h, NEW K, NEW L, Binned(h, K, L), NEW b, IsFree(h.mem, b) # 1
  PROVE  Binned(h, K \ {b}, L)
<1>1. ASSUME NEW j \in AllBins PROVE L[j] \in Seq(K \ {b})
  <2>1. L[j] \in Seq(K) /\ List(h, j, L[j])
    BY DEF Binned
  <2>2. \A k \in 1..Len(L[j]) : L[j][k] \in K \ {b}
    BY <2>1 DEF List
  <2>3. QED BY <2>1, <2>2
<1>2. QED BY <1>1 DEF Binned

\* A block's header gets a new size or flag: the lists of the others stay.
LEMMA SetFreeIs ==
  ASSUME NEW h \in Heaps, NEW H, Spaced(H), NEW K \in SUBSET H, NEW b \in H, b \notin K, NEW v \in Nat,
         NEW L, Binned(h, K, L)
  PROVE  /\ Binned(SetFree(h, b, v), K, L) /\ Freeing(h, SetFree(h, b, v), H, b, v)
         /\ Within(h, SetFree(h, b, v), H)
<1> DEFINE g == SetFree(h, b, v)
<1>1. Freeing(h, g, H, b, v) /\ Within(h, g, H) /\ SameHeads(h, g)
  BY HeaderWrites
<1> HIDE DEF g
<1>2. \A c \in K : SameHeader(h, g, c)
  BY <1>1 DEF Freeing, SameHeader
<1>3. \A k \in AllBins : HeadOf(g, k) = HeadOf(h, k)
  BY <1>1, HeadsSame
<1>4. Binned(g, K, L)
  BY <1>2, <1>3, BinnedKept
<1>5. QED BY <1>1, <1>4 DEF g

\* The size of a block in no bin is changed.
LEMMA SetSizeIs ==
  ASSUME NEW h \in Heaps, NEW H, Spaced(H), NEW K \in SUBSET H, NEW b \in H, b \notin K, NEW v \in Nat,
         NEW L, Binned(h, K, L)
  PROVE  /\ Binned(SetSize(h, b, v), K, L) /\ Sized(h, SetSize(h, b, v), H, b, v)
         /\ Within(h, SetSize(h, b, v), H)
<1> DEFINE g == SetSize(h, b, v)
<1>1. Sized(h, g, H, b, v) /\ Within(h, g, H) /\ SameHeads(h, g)
  BY HeaderWrites
<1> HIDE DEF g
<1>2. \A c \in K : SameHeader(h, g, c)
  BY <1>1 DEF Sized, SameHeader
<1>3. \A k \in AllBins : HeadOf(g, k) = HeadOf(h, k)
  BY <1>1, HeadsSame
<1>4. Binned(g, K, L)
  BY <1>2, <1>3, BinnedKept
<1>5. QED BY <1>1, <1>4 DEF g

\* The links of a block in no bin are changed.
LEMMA UnlinkBinned ==
  ASSUME NEW h \in Heaps, NEW H, Spaced(H), NEW K \in SUBSET H, NEW b \in H, b \notin K,
         NEW L, Binned(h, K, L)
  PROVE  /\ Binned(Unlink(h, b), K, L) /\ Within(h, Unlink(h, b), H)
         /\ \A c \in H : /\ Size(Unlink(h, b).mem, c) = Size(h.mem, c) /\ IsFree(Unlink(h, b).mem, c) = IsFree(h.mem, c)
                         /\ c # b => SameHeader(h, Unlink(h, b), c)
<1> DEFINE g == Unlink(h, b)
<1>1. /\ Within(h, g, H) /\ SameHeads(h, g)
      /\ \A c \in H : /\ Size(g.mem, c) = Size(h.mem, c) /\ IsFree(g.mem, c) = IsFree(h.mem, c)
                      /\ c # b => SameHeader(h, g, c)
  BY UnlinkIs
<1> HIDE DEF g
<1>2. \A c \in K : SameHeader(h, g, c)
  BY <1>1
<1>3. \A k \in AllBins : HeadOf(g, k) = HeadOf(h, k)
  BY <1>1, HeadsSame
<1>4. Binned(g, K, L)
  BY <1>2, <1>3, BinnedKept
<1>5. QED BY <1>1, <1>4 DEF g

\* What AddLeftover leaves alone, and what it makes of b.
Added(h, g, H, b, size) ==
  /\ Within(h, g, H)
  /\ \A c \in H : /\ Size(g.mem, c) = IF c = b THEN size ELSE Size(h.mem, c)
                  /\ IsFree(g.mem, c) = IF c = b THEN 1 ELSE IsFree(h.mem, c)
                  /\ c # b /\ IsFree(h.mem, c) # 1 => Next_(g.mem, c) = Next_(h.mem, c)

\* AddLeftover makes a block and puts it in the bin of its size.
LEMMA LeftoverBinned ==
  ASSUME NEW h \in Heaps, NEW H, Spaced(H), NEW K \in SUBSET H, NEW b \in H, b \notin K,
         NEW L, Binned(h, K, L), NEW size \in Nat \ {0}
  PROVE  /\ \E M : Binned(AddLeftover(h, b, size), K \cup {b}, M)
         /\ Added(h, AddLeftover(h, b, size), H, b, size)
<1> DEFINE h1 == SetSize(h, b, size)
           h2 == SetFree(h1, b, 1)
           h3 == Unlink(h2, b)
           g == AddLeftover(h, b, size)
<1>1. Binned(h1, K, L) /\ Sized(h, h1, H, b, size) /\ Within(h, h1, H)
  BY SetSizeIs
<1>2. g = IF index_fastbin(size) # -1 THEN push(h3, index_fastbin(size), b)
          ELSE insert_sorted(h3, index_regbin(size), b)
  BY DEF AddLeftover
<1> HIDE DEF h1, g
<1>3. Binned(h2, K, L) /\ Freeing(h1, h2, H, b, 1) /\ Within(h1, h2, H)
  <2>1. h1 \in Heaps
    BY <1>1 DEF Within
  <2>2. QED BY <1>1, <2>1, SetFreeIs
<1> HIDE DEF h2
<1>4. /\ Binned(h3, K, L) /\ Within(h2, h3, H)
      /\ \A c \in H : /\ Size(h3.mem, c) = Size(h2.mem, c) /\ IsFree(h3.mem, c) = IsFree(h2.mem, c)
                      /\ c # b => SameHeader(h2, h3, c)
  <2>1. h2 \in Heaps
    BY <1>3 DEF Within
  <2>2. QED BY <1>3, <2>1, UnlinkBinned
<1> HIDE DEF h3
<1>5. Within(h, h3, H) /\ h3 \in Heaps
  <2>1. Within(h, h2, H)
    BY <1>1, <1>3, WithinTrans
  <2>2. QED BY <1>4, <2>1, WithinTrans DEF Within
<1>6. \A c \in H : /\ Size(h3.mem, c) = IF c = b THEN size ELSE Size(h.mem, c)
                   /\ IsFree(h3.mem, c) = IF c = b THEN 1 ELSE IsFree(h.mem, c)
                   /\ c # b => Next_(h3.mem, c) = Next_(h.mem, c)
  BY <1>1, <1>3, <1>4 DEF Sized, Freeing, SameHeader
<1>7. (\E M : Binned(g, K \cup {b}, M)) /\ Moved(h3, g, H, b)
  <2>1. Size(h3.mem, b) = size /\ IsFree(h3.mem, b) = 1
    BY <1>6
  <2>2. CASE index_fastbin(size) # -1
    <3>1. g = push(h3, index_fastbin(size), b)
      BY <1>2, <2>2
    <3>2. QED BY <1>4, <1>5, <2>1, <2>2, <3>1, PushBinned
  <2>3. CASE index_fastbin(size) = -1
    <3>1. g = insert_sorted(h3, index_regbin(size), b)
      BY <1>2, <2>3
    <3>2. QED BY <1>4, <1>5, <2>1, <2>3, <3>1, InsertBinned
  <2>4. QED BY <2>2, <2>3
<1>8. Within(h, g, H)
  BY <1>5, <1>7, WithinTrans DEF Moved
<1>9. Added(h, g, H, b, size)
  BY <1>6, <1>7, <1>8 DEF Added, Moved
<1>10. QED BY <1>7, <1>9 DEF g

\* The client clears the bytes it got, which hold no header.
Cleared(h, p, size) == [h EXCEPT !.mem = Without(@, {a \in DOMAIN @ : a + 8 > p /\ a < p + size})]

\* The headers are not touched.
LEMMA ClearedIs ==
  ASSUME NEW h \in Heaps, NEW H, Spaced(H), NEW b \in H, NEW size \in Nat,
         \A c \in H : b < c => b + HEADER_SIZE + size <= c, NEW g, g = Cleared(h, b + HEADER_SIZE, size)
  PROVE  /\ g \in Heaps /\ DOMAIN g.mem \subseteq DOMAIN h.mem
         /\ \A c \in H : SameHeader(h, g, c)
         /\ \A k : HeadOf(g, k) = HeadOf(h, k)
<1> DEFINE p == b + HEADER_SIZE
           S == {a \in DOMAIN h.mem : a + 8 > p /\ a < p + size}
           m == Without(h.mem, S)
<1>1. h.mem \in Memories
  BY DEF Heaps
<1>2. m \in Memories /\ (\A x : Word(m, x) = IF x \in S THEN 0 ELSE Word(h.mem, x)) /\ DOMAIN m \subseteq DOMAIN h.mem
  <2> HIDE DEF S
  <2>1. QED BY <1>1, WithoutWord
<1>3. g = [h EXCEPT !.mem = m]
  BY DEF Cleared
<1>4. g \in Heaps /\ g.mem = m /\ g.fast = h.fast /\ g.reg = h.reg
  <2> HIDE DEF m
  <2>1. QED BY <1>2, <1>3 DEF Heaps
<1>5. ASSUME NEW c \in H PROVE c \notin S /\ c + 8 \notin S /\ c + 16 \notin S /\ c + 24 \notin S
  <2>1. b \in Nat /\ c \in Nat /\ p = b + 32
    BY DEF Spaced, Addresses, HEADER_SIZE
  <2>2. CASE c <= b
    BY <2>1, <2>2
  <2>3. CASE b < c
    <3>1. p + size <= c
      BY <2>3
    <3>2. QED BY <2>1, <3>1
  <2>4. QED BY <2>1, <2>2, <2>3
<1> HIDE DEF S
<1>6. \A c \in H : SameHeader(h, g, c)
  BY <1>2, <1>4, <1>5 DEF SameHeader, Size, IsFree, Next_, Prev
<1>7. QED BY <1>2, <1>4, <1>6 DEF HeadOf

-----------------------------------------------------------------------------
\* Regions, and the blocks that tile them.

\* E[r] is where the walk over the region at r ends: on its sentinel, or 8
\* bytes before it.
Regions(maps, E) ==
  /\ maps \in [DOMAIN maps -> Addresses] /\ E \in [DOMAIN maps -> Addresses]
  /\ DOMAIN maps \subseteq Addresses \ {NULL}
  /\ \A r \in DOMAIN maps : /\ r < E[r]
                            /\ E[r] + HEADER_SIZE \in {r + maps[r], r + maps[r] - 8}
  /\ \A q, r \in DOMAIN maps : q < r => q + maps[q] <= r
  /\ DOMAIN maps # {} => \E r \in DOMAIN maps : \A q \in DOMAIN maps : q <= r

Ends(E) == {E[r] : r \in DOMAIN E}
Inside(m, maps) == \A a \in DOMAIN m : \E r \in DOMAIN maps : r <= a /\ a < r + maps[r]
Housed(H, maps) == \A c \in H : \E r \in DOMAIN maps : r <= c /\ c + HEADER_SIZE <= r + maps[r]
Marked(m, E) == \A e \in Ends(E) : Size(m, e) = 0 /\ IsFree(m, e) = 0 /\ Next_(m, e) = 0

\* The blocks B fill the regions from their start to their end.
Home(m, maps, B, E, b) ==
  \E r \in DOMAIN maps : r <= b /\ b + Size(m, b) <= E[r] /\ b + Size(m, b) \in B \cup {E[r]}
Tiles(m, maps, B, E) ==
  /\ B \subseteq Addresses /\ DOMAIN maps \subseteq B
  /\ \A b \in B : /\ Size(m, b) \in Addresses /\ Size(m, b) >= HEADER_SIZE /\ IsFree(m, b) \in {0, 1}
                  /\ Home(m, maps, B, E, b)
  /\ \A b, c \in B : b < c => b + Size(m, b) <= c

\* Addresses add up.
LEMMA AddressSum ==
  ASSUME NEW a \in Addresses, NEW b \in Addresses
  PROVE  a \in Nat /\ b \in Nat /\ a + b \in Addresses /\ (a >= b => a - b \in Addresses)
BY DEF Addresses

\* What is known of a region.
LEMMA RegionFacts ==
  ASSUME NEW maps, NEW E, Regions(maps, E), NEW r \in DOMAIN maps
  PROVE  /\ r \in Nat /\ r # 0 /\ maps[r] \in Nat /\ E[r] \in Nat /\ r < E[r]
         /\ E[r] + 32 <= r + maps[r] /\ r + maps[r] <= E[r] + 40
         /\ \A q \in DOMAIN maps : q # r => r + maps[r] <= q \/ q + maps[q] <= r
<1>1. /\ r \in Nat /\ r # 0 /\ maps[r] \in Nat /\ E[r] \in Nat /\ r < E[r]
      /\ E[r] + 32 \in {r + maps[r], r + maps[r] - 8}
  BY DEF Regions, Addresses, NULL, HEADER_SIZE
<1>2. E[r] + 32 <= r + maps[r] /\ r + maps[r] <= E[r] + 40
  BY <1>1
<1>3. ASSUME NEW q \in DOMAIN maps, q # r PROVE r + maps[r] <= q \/ q + maps[q] <= r
  <2>1. q \in Nat
    BY DEF Regions, Addresses
  <2>2. q < r \/ r < q
    BY <1>1, <1>3, <2>1
  <2>3. QED BY <2>2 DEF Regions
<1>4. QED BY <1>1, <1>2, <1>3

\* What is known of a block.
LEMMA BlockFacts ==
  ASSUME NEW m, NEW maps, NEW B, NEW E, Regions(maps, E), Tiles(m, maps, B, E), NEW b \in B
  PROVE  /\ b \in Nat /\ b # 0 /\ Size(m, b) \in Nat /\ Size(m, b) >= 32 /\ b + Size(m, b) \in Nat
         /\ \E r \in DOMAIN maps : r <= b /\ b + Size(m, b) <= E[r] /\ b + Size(m, b) \in B \cup {E[r]}
<1>1. b \in Nat /\ Size(m, b) \in Nat /\ Size(m, b) >= 32
  BY DEF Tiles, Addresses, HEADER_SIZE
<1>2. PICK r \in DOMAIN maps : r <= b /\ b + Size(m, b) <= E[r] /\ b + Size(m, b) \in B \cup {E[r]}
  BY DEF Tiles, Home
<1>3. r \in Nat /\ r # 0
  BY RegionFacts
<1>4. QED BY <1>1, <1>2, <1>3

\* A block lies in one region.
LEMMA OneHome ==
  ASSUME NEW m, NEW maps, NEW B, NEW E, Regions(maps, E), Tiles(m, maps, B, E), NEW b \in B,
         NEW r \in DOMAIN maps, r <= b, b < r + maps[r]
  PROVE  b + Size(m, b) <= E[r] /\ b + Size(m, b) \in B \cup {E[r]}
<1>1. PICK q \in DOMAIN maps : q <= b /\ b + Size(m, b) <= E[q] /\ b + Size(m, b) \in B \cup {E[q]}
  BY BlockFacts
<1>2. b \in Nat /\ Size(m, b) \in Nat /\ Size(m, b) >= 32
  BY BlockFacts
<1>3. q = r
  <2> SUFFICES ASSUME q # r PROVE FALSE
    OBVIOUS
  <2>1. r + maps[r] <= q \/ q + maps[q] <= r
    BY RegionFacts
  <2>2. /\ q \in Nat /\ maps[q] \in Nat /\ E[q] \in Nat /\ E[q] + 32 <= q + maps[q]
        /\ r \in Nat /\ maps[r] \in Nat
    BY RegionFacts
  <2>3. QED BY <1>1, <1>2, <2>1, <2>2
<1>4. QED BY <1>1, <1>3

\* No two headers overlap, and all are in regions.
LEMMA Spacing ==
  ASSUME NEW m, NEW maps, NEW B, NEW E, Regions(maps, E), Tiles(m, maps, B, E)
  PROVE  /\ Spaced(B \cup Ends(E)) /\ B \cap Ends(E) = {}
         /\ \A b \in B, c \in B \cup Ends(E) : b < c => b + Size(m, b) <= c
         /\ Housed(B \cup Ends(E), maps)
         /\ DOMAIN E = DOMAIN maps /\ \A r \in DOMAIN maps : E[r] \in Ends(E)
<1>0. DOMAIN E = DOMAIN maps /\ \A r \in DOMAIN maps : E[r] \in Ends(E)
  BY DEF Regions, Ends
<1>1. ASSUME NEW b \in B, NEW r \in DOMAIN maps
      PROVE  (b < E[r] => b + Size(m, b) <= E[r]) /\ (E[r] < b => E[r] + 32 <= b) /\ b # E[r]
  <2>1. PICK q \in DOMAIN maps : q <= b /\ b + Size(m, b) <= E[q]
    BY BlockFacts
  <2>2. b \in Nat /\ Size(m, b) \in Nat /\ Size(m, b) >= 32
    BY BlockFacts
  <2>3. /\ q \in Nat /\ maps[q] \in Nat /\ E[q] \in Nat /\ E[q] + 32 <= q + maps[q]
        /\ r \in Nat /\ maps[r] \in Nat /\ E[r] \in Nat /\ r < E[r] /\ E[r] + 32 <= r + maps[r]
    BY RegionFacts
  <2>4. CASE q = r
    BY <2>1, <2>2, <2>3, <2>4
  <2>5. CASE q # r
    <3>1. q + maps[q] <= r \/ r + maps[r] <= q
      BY <2>5, RegionFacts
    <3>2. CASE q + maps[q] <= r
      BY <2>1, <2>2, <2>3, <3>2
    <3>3. CASE r + maps[r] <= q
      BY <2>1, <2>2, <2>3, <3>3
    <3>4. QED BY <3>1, <3>2, <3>3
  <2>6. QED BY <2>4, <2>5
<1>2. ASSUME NEW q \in DOMAIN maps, NEW r \in DOMAIN maps, E[q] < E[r]
      PROVE  E[q] + 32 <= E[r]
  <2>1. /\ q \in Nat /\ maps[q] \in Nat /\ E[q] \in Nat /\ q < E[q] /\ E[q] + 32 <= q + maps[q]
        /\ r \in Nat /\ maps[r] \in Nat /\ E[r] \in Nat /\ r < E[r] /\ E[r] + 32 <= r + maps[r]
    BY RegionFacts
  <2>2. q # r
    BY <1>2, <2>1
  <2>3. q + maps[q] <= r \/ r + maps[r] <= q
    BY <2>2, RegionFacts
  <2>4. QED BY <1>2, <2>1, <2>3
<1>3. B \cap Ends(E) = {}
  BY <1>0, <1>1 DEF Ends
<1>4. \A b, c \in B : b < c => b + Size(m, b) <= c
  BY DEF Tiles
<1>5. \A b \in B, c \in B \cup Ends(E) : b < c => b + Size(m, b) <= c
  BY <1>0, <1>1, <1>4 DEF Ends
<1>6. B \cup Ends(E) \subseteq Addresses \ {NULL}
  <2>1. \A b \in B : b \in Addresses /\ b # 0
    BY BlockFacts DEF Tiles
  <2>2. \A r \in DOMAIN maps : E[r] \in Addresses /\ E[r] # 0
    <3>1. \A r \in DOMAIN maps : E[r] \in Addresses
      BY DEF Regions
    <3>2. \A r \in DOMAIN maps : r \in Nat /\ r < E[r]
      BY RegionFacts
    <3>3. QED BY <3>1, <3>2 DEF Addresses
  <2>3. QED BY <1>0, <2>1, <2>2 DEF Ends, NULL
<1>7. ASSUME NEW b \in B \cup Ends(E), NEW c \in B \cup Ends(E), b < c
      PROVE  b + HEADER_SIZE <= c
  <2>1. b \in Nat /\ c \in Nat
    BY <1>6 DEF Addresses
  <2>2. CASE b \in B
    <3>1. b + Size(m, b) <= c /\ Size(m, b) \in Nat /\ Size(m, b) >= 32
      BY <1>5, <1>7, <2>2, BlockFacts
    <3>2. QED BY <2>1, <3>1 DEF HEADER_SIZE
  <2>3. CASE b \in Ends(E) /\ c \in B
    BY <1>0, <1>1, <1>7, <2>3 DEF Ends, HEADER_SIZE
  <2>4. CASE b \in Ends(E) /\ c \in Ends(E)
    BY <1>0, <1>2, <1>7, <2>4 DEF Ends, HEADER_SIZE
  <2>5. QED BY <2>2, <2>3, <2>4
<1>8. ASSUME NEW c \in B \cup Ends(E)
      PROVE  \E r \in DOMAIN maps : r <= c /\ c + HEADER_SIZE <= r + maps[r]
  <2>1. CASE c \in B
    <3>1. PICK r \in DOMAIN maps : r <= c /\ c + Size(m, c) <= E[r]
      BY <2>1, BlockFacts
    <3>2. c \in Nat /\ Size(m, c) \in Nat /\ Size(m, c) >= 32
      BY <2>1, BlockFacts
    <3>3. r \in Nat /\ maps[r] \in Nat /\ E[r] \in Nat /\ E[r] + 32 <= r + maps[r]
      BY RegionFacts
    <3>4. c + 32 <= r + maps[r]
      BY <3>1, <3>2, <3>3
    <3>5. QED BY <3>1, <3>4 DEF HEADER_SIZE
  <2>2. CASE c \in Ends(E)
    <3>1. PICK r \in DOMAIN maps : c = E[r]
      BY <1>0, <2>2 DEF Ends
    <3>2. r \in Nat /\ E[r] \in Nat /\ r < E[r] /\ E[r] + 32 <= r + maps[r]
      BY RegionFacts
    <3>3. r <= c
      BY <3>1, <3>2
    <3>4. QED BY <3>1, <3>2, <3>3 DEF HEADER_SIZE
  <2>3. QED BY <2>1, <2>2
<1>9. QED BY <1>0, <1>3, <1>5, <1>6, <1>7, <1>8 DEF Spaced, Housed

\* Writing to headers writes to regions only.
LEMMA InsideKept ==
  ASSUME NEW maps, NEW H, H \subseteq Nat, maps \in [DOMAIN maps -> Nat], DOMAIN maps \subseteq Nat,
         NEW h \in Heaps, NEW g, Housed(H, maps), Inside(h.mem, maps), Within(h, g, H)
  PROVE  Inside(g.mem, maps)
<1> SUFFICES ASSUME NEW a \in DOMAIN g.mem PROVE \E r \in DOMAIN maps : r <= a /\ a < r + maps[r]
  BY DEF Inside
<1>1. g.mem \in Memories
  BY DEF Within, Heaps
<1>2. a \in Nat
  BY <1>1, MemoryFacts DEF Addresses
<1>3. CASE a \in DOMAIN h.mem
  BY <1>3 DEF Inside
<1>4. CASE a \notin DOMAIN h.mem
  <2>1. PICK c \in H : c <= a /\ a < c + HEADER_SIZE
    BY <1>4 DEF Within
  <2>2. PICK r \in DOMAIN maps : r <= c /\ c + HEADER_SIZE <= r + maps[r]
    BY DEF Housed
  <2>3. c \in Nat /\ r \in Nat /\ maps[r] \in Nat
    OBVIOUS
  <2>4. r <= a /\ a < r + maps[r]
    BY <1>2, <2>1, <2>2, <2>3 DEF HEADER_SIZE
  <2>5. QED BY <2>4
<1>5. QED BY <1>3, <1>4

\* The sizes stayed.
LEMMA TilesSame ==
  ASSUME NEW m, NEW maps, NEW B, NEW E, Tiles(m, maps, B, E), NEW w,
         \A c \in B : Size(w, c) = Size(m, c) /\ IsFree(w, c) \in {0, 1}
  PROVE  Tiles(w, maps, B, E)
<1>1. \A b \in B : Home(w, maps, B, E, b)
  BY DEF Tiles, Home
<1>2. QED BY <1>1 DEF Tiles

\* A block was split in two.
LEMMA TilesSplit ==
  ASSUME NEW m, NEW maps, NEW B, NEW E, Regions(maps, E), Tiles(m, maps, B, E), NEW b \in B,
         NEW t \in Addresses, t >= 32, t + 32 <= Size(m, b), NEW w,
         \A c \in B \cup {b + t} : /\ Size(w, c) = IF c = b THEN t ELSE IF c = b + t THEN Size(m, b) - t ELSE Size(m, c)
                                   /\ IsFree(w, c) \in {0, 1}
  PROVE  Tiles(w, maps, B \cup {b + t}, E)
<1> DEFINE n == b + t
           C == B \cup {n}
<1>1. /\ t \in Nat /\ b \in Nat /\ Size(m, b) \in Nat /\ n \in Nat /\ n > b
      /\ b \in Addresses /\ Size(m, b) \in Addresses /\ n \in Addresses
      /\ Size(m, b) - t \in Addresses /\ Size(m, b) - t >= 32 /\ Size(m, b) - t \in Nat
      /\ n + (Size(m, b) - t) = b + Size(m, b)
  <2>1. b \in Addresses /\ Size(m, b) \in Addresses
    BY DEF Tiles
  <2>2. t \in Nat /\ b \in Nat /\ Size(m, b) \in Nat /\ n \in Addresses
    BY <2>1, AddressSum
  <2>3. Size(m, b) >= t
    BY <2>2
  <2>4. Size(m, b) - t \in Addresses
    BY <2>1, <2>3, AddressSum
  <2>5. QED BY <2>1, <2>2, <2>3, <2>4
<1>2. /\ Size(w, b) = t /\ Size(w, n) = Size(m, b) - t
      /\ \A c \in B : c # b /\ c # n => Size(w, c) = Size(m, c)
      /\ \A c \in C : IsFree(w, c) \in {0, 1}
  BY <1>1
<1>3. \A c \in B : c \in Nat /\ Size(m, c) \in Nat /\ Size(m, c) >= 32 /\ Size(m, c) \in Addresses
  BY BlockFacts, ZenonT(40) DEF Tiles
<1>4. \A c, d \in B : c < d => c + Size(m, c) <= d
  BY DEF Tiles
<1>5. n \notin B
  BY <1>1, <1>3, <1>4
<1> HIDE DEF n
<1>6. \A c \in C : Size(w, c) \in Addresses /\ Size(w, c) >= 32
  BY <1>1, <1>2, <1>3
<1>7. ASSUME NEW c \in C, NEW d \in C, c < d PROVE c + Size(w, c) <= d
  <2>1. CASE c = b
    <3>1. CASE d = n
      BY <1>1, <1>2, <2>1, <3>1 DEF n
    <3>2. CASE d # n
      <4>1. d \in B /\ b + Size(m, b) <= d /\ d \in Nat
        BY <1>3, <1>4, <1>7, <2>1, <3>2
      <4>2. QED BY <1>1, <1>2, <2>1, <4>1
    <3>3. QED BY <3>1, <3>2
  <2>2. CASE c = n
    <3>1. d \in B /\ b < d /\ d \in Nat
      BY <1>1, <1>3, <1>7, <2>2
    <3>2. b + Size(m, b) <= d
      BY <1>4, <3>1
    <3>3. QED BY <1>1, <1>2, <2>2, <3>2
  <2>3. CASE c # b /\ c # n
    <3>1. c \in B /\ Size(w, c) = Size(m, c) /\ c \in Nat /\ Size(m, c) \in Nat /\ Size(m, c) >= 32
      BY <1>2, <1>3, <2>3
    <3>2. CASE d # n
      BY <1>4, <1>7, <3>1, <3>2
    <3>3. CASE d = n
      <4>1. c < b
        <5>1. ~(b < c)
          <6>1. b < c => b + Size(m, b) <= c
            BY <1>4, <3>1
          <6>2. QED BY <1>1, <1>7, <3>1, <3>3, <6>1
        <5>2. QED BY <1>1, <2>3, <3>1, <5>1
      <4>2. c + Size(m, c) <= b
        BY <1>4, <3>1, <4>1
      <4>3. QED BY <1>1, <3>1, <3>3, <4>2
    <3>4. QED BY <3>2, <3>3
  <2>4. QED BY <2>1, <2>2, <2>3
<1>8. ASSUME NEW c \in C PROVE Home(w, maps, C, E, c)
  <2>1. CASE c = b
    <3>1. PICK r \in DOMAIN maps : r <= b /\ b + Size(m, b) <= E[r]
      BY BlockFacts
    <3>2. E[r] \in Nat
      BY RegionFacts
    <3>3. b + Size(w, b) = n /\ b + Size(w, b) <= E[r]
      BY <1>1, <1>2, <3>1, <3>2 DEF n
    <3>4. QED BY <2>1, <3>1, <3>3 DEF Home
  <2>2. CASE c = n
    <3>1. PICK r \in DOMAIN maps : r <= b /\ b + Size(m, b) <= E[r] /\ b + Size(m, b) \in B \cup {E[r]}
      BY BlockFacts
    <3>2. n + Size(w, n) = b + Size(m, b) /\ r \in Nat
      BY <1>1, <1>2, RegionFacts
    <3>3. r <= n
      BY <1>1, <3>1, <3>2
    <3>4. QED BY <2>2, <3>1, <3>2, <3>3 DEF Home
  <2>3. CASE c # b /\ c # n
    <3>1. PICK r \in DOMAIN maps : r <= c /\ c + Size(m, c) <= E[r] /\ c + Size(m, c) \in B \cup {E[r]}
      BY <2>3, BlockFacts
    <3>2. Size(w, c) = Size(m, c)
      BY <1>2, <2>3
    <3>3. QED BY <3>1, <3>2 DEF Home
  <2>4. QED BY <2>1, <2>2, <2>3
<1>9. C \subseteq Addresses /\ DOMAIN maps \subseteq C
  BY <1>1 DEF Tiles
<1>10. Tiles(w, maps, C, E)
  <2> HIDE DEF C
  <2>1. QED BY <1>2, <1>6, <1>7, <1>8, <1>9 DEF Tiles, HEADER_SIZE, C
<1>11. QED BY <1>10 DEF n

\* A block was merged with the one behind it, n: the blocks are C now.
Merges(m, w, B, C, b, n) ==
  /\ n = b + Size(m, b) /\ n \in B /\ C = B \ {n}
  /\ \A c \in C : /\ Size(w, c) = IF c = b THEN Size(m, b) + Size(m, n) ELSE Size(m, c)
                 /\ IsFree(w, c) \in {0, 1}

\* The blocks that are left tile the regions.
LEMMA TilesMerge ==
  ASSUME NEW m, NEW maps, NEW B, NEW E, Regions(maps, E), Tiles(m, maps, B, E), NEW b \in B,
         NEW w, NEW C, NEW n, Merges(m, w, B, C, b, n)
  PROVE  Tiles(w, maps, C, E)
<1>0. /\ n = b + Size(m, b) /\ n \in B /\ C = B \ {n}
      /\ \A c \in C : /\ Size(w, c) = IF c = b THEN Size(m, b) + Size(m, n) ELSE Size(m, c)
                     /\ IsFree(w, c) \in {0, 1}
  BY DEF Merges
<1>1. \A c \in B : c \in Nat /\ Size(m, c) \in Nat /\ Size(m, c) >= 32 /\ Size(m, c) \in Addresses
  BY BlockFacts DEF Tiles
<1>2. \A c, d \in B : c < d => c + Size(m, c) <= d
  BY DEF Tiles
<1>3. b \in Nat /\ n \in Nat /\ Size(m, b) \in Nat /\ Size(m, n) \in Nat /\ b < n /\ b \in C
  BY <1>0, <1>1
<1>4. Size(w, b) = Size(m, b) + Size(m, n) /\ \A c \in C : c # b => Size(w, c) = Size(m, c)
  BY <1>0, <1>3
<1>5. \A c \in C : Size(w, c) \in Addresses /\ Size(w, c) >= 32
  <2>1. Size(m, b) + Size(m, n) \in Addresses
    BY <1>0, <1>1, AddressSum
  <2>2. Size(m, b) + Size(m, n) >= 32
    BY <1>1, <1>3
  <2>3. QED BY <1>0, <1>1, <1>4, <2>1, <2>2
<1>6. PICK r \in DOMAIN maps : r <= b /\ n <= E[r]
  BY <1>0, BlockFacts
<1>7. /\ r \in Nat /\ maps[r] \in Nat /\ E[r] \in Nat /\ E[r] + 32 <= r + maps[r]
      /\ \A q \in DOMAIN maps : q # r => r + maps[r] <= q \/ q + maps[q] <= r
  BY RegionFacts
<1>8. n + Size(m, n) <= E[r] /\ n + Size(m, n) \in B \cup {E[r]}
  <2>1. r <= n /\ n < r + maps[r]
    BY <1>3, <1>6, <1>7
  <2>2. QED BY <1>0, <2>1, OneHome
<1>9. n \notin DOMAIN maps
  <2> SUFFICES ASSUME n \in DOMAIN maps PROVE FALSE
    OBVIOUS
  <2>1. n # r
    BY <1>3, <1>6, <1>7
  <2>2. r + maps[r] <= n \/ n + maps[n] <= r
    BY <1>7, <2>1
  <2>3. maps[n] \in Nat
    BY RegionFacts
  <2>4. QED BY <1>3, <1>6, <1>7, <2>2, <2>3
<1>10. ASSUME NEW c \in C, NEW d \in C, c < d PROVE c + Size(w, c) <= d
  <2>1. CASE c # b
    BY <1>0, <1>2, <1>4, <1>10, <2>1
  <2>2. CASE c = b
    <3>1. n <= d /\ d \in Nat
      BY <1>0, <1>1, <1>2, <1>10, <2>2
    <3>2. n < d
      BY <1>0, <1>1, <1>3, <3>1
    <3>3. n + Size(m, n) <= d
      BY <1>0, <1>2, <3>2
    <3>4. QED BY <1>0, <1>3, <1>4, <2>2, <3>1, <3>3
  <2>3. QED BY <2>1, <2>2
<1>11. ASSUME NEW c \in C PROVE Home(w, maps, C, E, c)
  <2>1. CASE c = b
    <3>1. b + Size(w, b) = n + Size(m, n) /\ b + Size(w, b) # n
      BY <1>0, <1>1, <1>3, <1>4
    <3>2. QED BY <1>0, <1>6, <1>8, <2>1, <3>1 DEF Home
  <2>2. CASE c # b
    <3>1. PICK q \in DOMAIN maps : q <= c /\ c + Size(m, c) <= E[q] /\ c + Size(m, c) \in B \cup {E[q]}
      BY <1>0, BlockFacts
    <3>2. Size(w, c) = Size(m, c)
      BY <1>0, <1>4, <2>2
    <3>3. c + Size(m, c) # n
      <4>1. c \in Nat /\ Size(m, c) \in Nat /\ Size(m, c) >= 32 /\ Size(m, b) >= 32
        BY <1>0, <1>1
      <4>2. CASE c < b
        <5>1. c + Size(m, c) <= b
          BY <1>0, <1>2, <4>2
        <5>2. QED BY <1>0, <1>3, <4>1, <5>1
      <4>3. CASE b < c
        <5>1. n <= c
          BY <1>0, <1>2, <4>3
        <5>2. QED BY <1>0, <1>3, <4>1, <5>1
      <4>4. QED BY <1>3, <2>2, <4>1, <4>2, <4>3
    <3>4. QED BY <1>0, <3>1, <3>2, <3>3 DEF Home
  <2>3. QED BY <2>1, <2>2
<1>12. C \subseteq Addresses /\ DOMAIN maps \subseteq C
  BY <1>0, <1>9 DEF Tiles
<1>13. \A c \in C : IsFree(w, c) \in {0, 1}
  BY <1>0
<1>14. QED BY ONLY <1>5, <1>10, <1>11, <1>12, <1>13 DEF Tiles, HEADER_SIZE

\* A region was mapped behind the others; N are its blocks.
NewRegion(maps, B, E, r, len, e, N, w) ==
  /\ Regions(With(maps, r, len), With(E, r, e))
  /\ Tiles(w, With(maps, r, len), B \cup N, With(E, r, e))
  /\ Ends(With(E, r, e)) = Ends(E) \cup {e}
  /\ r \notin DOMAIN maps

\* The blocks N of the new region tile it.
LEMMA TilesMapped ==
  ASSUME NEW m, NEW maps, NEW B, NEW E, Regions(maps, E), Tiles(m, maps, B, E),
         NEW r \in Addresses, r # 0, \A q \in DOMAIN maps : q + maps[q] <= r,
         NEW len \in Addresses, NEW e \in Addresses, r < e, e + 32 \in {r + len, r + len - 8},
         NEW N \in SUBSET Addresses, r \in N, NEW w,
         \A c \in N : /\ Size(w, c) \in Addresses /\ Size(w, c) >= 32 /\ IsFree(w, c) \in {0, 1}
                      /\ r <= c /\ c + Size(w, c) <= e /\ c + Size(w, c) \in N \cup {e},
         \A c, d \in N : c < d => c + Size(w, c) <= d,
         \A c \in B : Size(w, c) = Size(m, c) /\ IsFree(w, c) \in {0, 1}
  PROVE  NewRegion(maps, B, E, r, len, e, N, w)
<1> DEFINE maps2 == With(maps, r, len)
           E2 == With(E, r, e)
           C == B \cup N
<1>1. /\ maps \in [DOMAIN maps -> Addresses] /\ E \in [DOMAIN maps -> Addresses]
      /\ DOMAIN maps \subseteq Addresses \ {NULL} /\ DOMAIN E = DOMAIN maps
      /\ \A q \in DOMAIN maps : q < E[q] /\ E[q] + HEADER_SIZE \in {q + maps[q], q + maps[q] - 8}
      /\ \A q, p \in DOMAIN maps : q < p => q + maps[q] <= p
  BY DEF Regions
<1>2. \A q \in DOMAIN maps : q \in Nat /\ maps[q] \in Nat /\ E[q] \in Nat /\ q < E[q] /\ E[q] + 32 <= q + maps[q]
  BY RegionFacts
<1>3. r \in Nat /\ len \in Nat /\ e \in Nat
  BY DEF Addresses
<1>4. r \notin DOMAIN maps /\ \A q \in DOMAIN maps : q < r
  BY <1>2, <1>3
<1>5. /\ DOMAIN maps2 = DOMAIN maps \cup {r} /\ maps2[r] = len /\ \A q \in DOMAIN maps : maps2[q] = maps[q]
      /\ DOMAIN E2 = DOMAIN maps \cup {r} /\ E2[r] = e /\ \A q \in DOMAIN maps : E2[q] = E[q]
  BY <1>1, <1>4 DEF With
<1>6. maps2 \in [DOMAIN maps2 -> Addresses] /\ E2 \in [DOMAIN maps2 -> Addresses]
  BY <1>1 DEF With
<1> HIDE DEF maps2, E2
<1>7. Regions(maps2, E2)
  <2>1. DOMAIN maps2 \subseteq Addresses \ {NULL}
    BY <1>1, <1>5 DEF NULL
  <2>2. \A q \in DOMAIN maps2 : q < E2[q] /\ E2[q] + HEADER_SIZE \in {q + maps2[q], q + maps2[q] - 8}
    BY <1>1, <1>5 DEF HEADER_SIZE
  <2>3. ASSUME NEW q \in DOMAIN maps2, NEW p \in DOMAIN maps2, q < p PROVE q + maps2[q] <= p
    <3>1. CASE q = r
      BY <1>2, <1>3, <1>4, <1>5, <2>3, <3>1
    <3>2. CASE q # r
      BY <1>1, <1>5, <2>3, <3>2
    <3>3. QED BY <3>1, <3>2
  <2>4. r \in DOMAIN maps2 /\ \A q \in DOMAIN maps2 : q <= r
    BY <1>2, <1>3, <1>4, <1>5
  <2>5. QED BY <1>6, <2>1, <2>2, <2>3, <2>4 DEF Regions
<1>8. ASSUME NEW c \in B
      PROVE  /\ c \in Nat /\ Size(m, c) \in Nat /\ c + Size(m, c) <= r /\ c < r
             /\ Size(w, c) = Size(m, c) /\ Size(m, c) \in Addresses /\ Size(m, c) >= 32
  <2>1. PICK q \in DOMAIN maps : q <= c /\ c + Size(m, c) <= E[q]
    BY BlockFacts
  <2>2. q + maps[q] <= r
    OBVIOUS
  <2>3. c \in Nat /\ Size(m, c) \in Nat /\ Size(m, c) >= 32
    BY BlockFacts
  <2>4. c + Size(m, c) <= r /\ c < r
    BY <1>2, <1>3, <2>1, <2>2, <2>3
  <2>5. QED BY <2>3, <2>4 DEF Tiles
<1>9. \A c \in N : c \in Nat /\ r <= c
  BY DEF Addresses
<1>10. C \subseteq Addresses /\ DOMAIN maps2 \subseteq C
  BY <1>5 DEF Tiles
<1>11. \A c \in C : Size(w, c) \in Addresses /\ Size(w, c) >= 32 /\ IsFree(w, c) \in {0, 1}
  BY <1>8
<1>12. ASSUME NEW c \in C, NEW d \in C, c < d PROVE c + Size(w, c) <= d
  <2>1. CASE c \in N
    <3>1. d \in N
      BY <1>8, <1>9, <1>12, <1>3, <2>1
    <3>2. QED BY <1>12, <2>1, <3>1
  <2>2. CASE c \in B
    <3>1. CASE d \in B
      <4>1. c + Size(m, c) <= d
        BY <1>12, <2>2, <3>1 DEF Tiles
      <4>2. QED BY <1>8, <2>2, <4>1
    <3>2. CASE d \in N
      BY <1>3, <1>8, <1>9, <2>2, <3>2
    <3>3. QED BY <3>1, <3>2
  <2>3. QED BY <2>1, <2>2
<1>13. ASSUME NEW c \in C PROVE Home(w, maps2, C, E2, c)
  <2>1. CASE c \in N
    BY <1>5, <2>1 DEF Home
  <2>2. CASE c \in B
    <3>1. PICK q \in DOMAIN maps : q <= c /\ c + Size(m, c) <= E[q] /\ c + Size(m, c) \in B \cup {E[q]}
      BY <2>2, BlockFacts
    <3>2. q \in DOMAIN maps2 /\ E2[q] = E[q] /\ Size(w, c) = Size(m, c)
      BY <1>5, <1>8, <2>2
    <3>3. QED BY <3>1, <3>2 DEF Home
  <2>3. QED BY <2>1, <2>2
<1>14. Tiles(w, maps2, C, E2)
  <2> HIDE DEF C
  <2>1. QED BY <1>10, <1>11, <1>12, <1>13 DEF Tiles, HEADER_SIZE
<1>15. Ends(E2) = Ends(E) \cup {e}
  BY <1>1, <1>5 DEF Ends
<1>16. QED BY <1>4, <1>7, <1>14, <1>15 DEF maps2, E2, NewRegion

-----------------------------------------------------------------------------
\* Sound heaps, and what each path of my_malloc makes of one.

\* The headers there are: of the blocks, and of the regions' ends.
Sound(h, maps, B, E, L) ==
  /\ h \in Heaps
  /\ Regions(maps, E)
  /\ Inside(h.mem, maps)
  /\ Marked(h.mem, E)
  /\ Tiles(h.mem, maps, B, E)
  /\ Binned(h, B, L)

\* The client has the blocks that are not free, each long enough for what it asked for.
Served(m, lv, B) ==
  /\ DOMAIN lv = {b + HEADER_SIZE : b \in {c \in B : IsFree(m, c) = 0}}
  /\ \A b \in B : IsFree(m, b) = 0 =>
       lv[b + HEADER_SIZE] \in Requests /\ lv[b + HEADER_SIZE] + HEADER_SIZE <= Size(m, b)

Holds(h, maps, lv) == \E B, E, L : Sound(h, maps, B, E, L) /\ Served(h.mem, lv, B)

\* Rounding the total size.
LEMMA TotalIs ==
  ASSUME NEW size \in Requests
  PROVE  /\ size \in Nat /\ size # 0
         /\ Total(size) \in Addresses /\ Total(size) >= 40 /\ size + 32 <= Total(size) /\ Total(size) \in Nat
<1>1. size \in Nat /\ size # 0
  BY ClientAssumption
<1>2. PICK q \in Nat : q = (size + 39) \div 8
  BY <1>1
<1>3. Total(size) = q * 8
  <2>1. size + HEADER_SIZE + 7 = size + 39
    BY <1>1 DEF HEADER_SIZE
  <2>2. QED BY <1>2, <2>1 DEF Total
<1>4. 8 * q <= size + 39 /\ size + 39 < 8 * q + 8
  BY <1>1, <1>2
<1>5. q * 8 \in Nat /\ (q * 8) % 8 = 0
  BY <1>2
<1>6. q * 8 >= 40
  BY <1>1, <1>2, <1>4
<1>7. QED BY <1>1, <1>2, <1>3, <1>4, <1>5, <1>6 DEF Addresses

\* Pages are made of words.
LEMMA PagesMultiple ==
  ASSUME NEW k \in Nat
  PROVE  k * PAGE \in Addresses
<1>1. PICK q \in Nat : PAGE = 8 * q
  <2>1. PAGE \in Nat /\ PAGE % 8 = 0
    BY PageAssumption
  <2>2. PAGE \div 8 \in Nat /\ PAGE = 8 * (PAGE \div 8)
    BY <2>1
  <2>3. QED BY <2>2
<1>2. k * q \in Nat
  BY <1>1
<1>3. k * PAGE = 8 * (k * q)
  BY <1>1, <1>2
<1>4. \A x \in Nat : (8 * x) % 8 = 0 /\ 8 * x \in Nat
  OBVIOUS
<1>5. (8 * (k * q)) % 8 = 0 /\ 8 * (k * q) \in Nat
  BY <1>2, <1>4
<1>6. QED BY <1>3, <1>5 DEF Addresses

\* A region has room for the block and the sentinel.
LEMMA AllocSizeIs ==
  ASSUME NEW total \in Nat
  PROVE  AllocSize(total) \in Addresses /\ AllocSize(total) \in Nat /\ AllocSize(total) >= total + 32
<1> DEFINE x == total + 32 + PAGE - 1
<1>1. PAGE \in Nat /\ PAGE > 64
  BY PageAssumption
<1>2. x \in Nat
  BY <1>1
<1> DEFINE k == x \div PAGE
<1>3. k \in Nat /\ k * PAGE <= x /\ x < k * PAGE + PAGE
  <2> HIDE DEF x
  <2>1. \A y, p \in Nat : p > 0 => y \div p \in Nat /\ (y \div p) * p <= y /\ y < (y \div p) * p + p
    OBVIOUS
  <2>2. QED BY <1>1, <1>2, <2>1
<1>4. AllocSize(total) = k * PAGE
  BY DEF AllocSize, HEADER_SIZE
<1>5. k * PAGE \in Addresses
  BY <1>3, PagesMultiple
<1> HIDE DEF k
<1>6. k * PAGE \in Nat
  BY <1>5 DEF Addresses
<1>7. k * PAGE >= total + 32
  BY <1>1, <1>3, <1>6
<1>8. QED BY <1>4, <1>5, <1>6, <1>7

\* The next region starts behind all others.
LEMMA BrkIs ==
  ASSUME NEW E, Regions(mapped, E)
  PROVE  Brk \in Addresses /\ Brk \in Nat /\ Brk # 0 /\ \A q \in DOMAIN mapped : q + mapped[q] <= Brk
<1>1. CASE mapped = << >>
  <2>1. 1 * PAGE \in Addresses /\ 1 * PAGE = PAGE /\ PAGE # 0 /\ PAGE \in Nat
    BY PagesMultiple, PageAssumption
  <2>2. Brk = PAGE /\ DOMAIN mapped = {}
    BY <1>1 DEF Brk
  <2>3. QED BY <2>1, <2>2
<1>2. CASE mapped # << >>
  <2>1. DOMAIN mapped # {}
    <3>1. mapped \in [DOMAIN mapped -> Addresses]
      BY DEF Regions
    <3>2. DOMAIN mapped = {} => mapped = << >>
      BY <3>1
    <3>3. QED BY <1>2, <3>2
  <2> DEFINE last == CHOOSE r \in DOMAIN mapped : \A s \in DOMAIN mapped : s <= r
  <2>2. last \in DOMAIN mapped /\ \A s \in DOMAIN mapped : s <= last
    BY <2>1 DEF Regions
  <2>3. Brk = last + mapped[last]
    BY <1>2 DEF Brk
  <2> HIDE DEF last
  <2>4. last \in Addresses /\ last # 0 /\ mapped[last] \in Addresses
    BY <2>2 DEF Regions, NULL
  <2>5. Brk \in Addresses /\ Brk # 0 /\ Brk \in Nat
    BY <2>3, <2>4, AddressSum DEF Addresses
  <2>6. ASSUME NEW q \in DOMAIN mapped PROVE q + mapped[q] <= Brk
    <3>1. q \in Nat /\ last \in Nat /\ mapped[q] \in Nat /\ mapped[last] \in Nat /\ q <= last
      BY <2>2, RegionFacts
    <3>2. CASE q = last
      BY <2>3, <3>1, <3>2
    <3>3. CASE q # last
      <4>1. q + mapped[q] <= last
        BY <2>2, <3>1, <3>3 DEF Regions
      <4>2. QED BY <2>3, <3>1, <4>1
    <3>4. QED BY <3>2, <3>3
  <2>7. QED BY <2>5, <2>6
<1>3. QED BY <1>1, <1>2

\* The client gets the block b, or gives it back: what it has of the others stays.
Gets(m, w, B, C, b, size) ==
  /\ B \subseteq C /\ C \subseteq Nat /\ b \in C
  /\ \A c \in B : c # b => IsFree(w, c) = IsFree(m, c) /\ Size(w, c) = Size(m, c)
  /\ \A c \in C : c # b /\ c \notin B => IsFree(w, c) # 0
  /\ b \in B => IsFree(m, b) # 0
  /\ IsFree(w, b) = 0 /\ size \in Requests /\ size + HEADER_SIZE <= Size(w, b)

\* The client has one block more.
LEMMA ServedMore ==
  ASSUME NEW m, NEW lv, NEW B, Served(m, lv, B), NEW w, NEW C, NEW b, NEW size, Gets(m, w, B, C, b, size)
  PROVE  Served(w, With(lv, b + HEADER_SIZE, size), C) /\ b + HEADER_SIZE \notin DOMAIN lv
<1>0. /\ B \subseteq C /\ C \subseteq Nat /\ b \in C
      /\ \A c \in B : c # b => IsFree(w, c) = IsFree(m, c) /\ Size(w, c) = Size(m, c)
      /\ \A c \in C : c # b /\ c \notin B => IsFree(w, c) # 0
      /\ b \in B => IsFree(m, b) # 0
      /\ IsFree(w, b) = 0 /\ size \in Requests /\ size + HEADER_SIZE <= Size(w, b)
  BY DEF Gets
<1> DEFINE p == b + HEADER_SIZE
           lv2 == With(lv, p, size)
<1>1. DOMAIN lv2 = DOMAIN lv \cup {p} /\ lv2[p] = size /\ \A y \in DOMAIN lv : y # p => lv2[y] = lv[y]
  <2> HIDE DEF p
  <2>1. QED BY DEF With
<1>2. \A c \in C : c + HEADER_SIZE = p <=> c = b
  BY <1>0 DEF HEADER_SIZE
<1>3. DOMAIN lv = {c + HEADER_SIZE : c \in {d \in B : IsFree(m, d) = 0}}
  BY DEF Served
<1>4. p \notin DOMAIN lv
  BY <1>0, <1>2, <1>3
<1>5. {d \in C : IsFree(w, d) = 0} = {d \in B : IsFree(m, d) = 0} \cup {b}
  BY <1>0
<1> HIDE DEF lv2
<1>6. DOMAIN lv2 = {c + HEADER_SIZE : c \in {d \in C : IsFree(w, d) = 0}}
  BY <1>1, <1>3, <1>5
<1>7. ASSUME NEW c \in C, IsFree(w, c) = 0
      PROVE  lv2[c + HEADER_SIZE] \in Requests /\ lv2[c + HEADER_SIZE] + HEADER_SIZE <= Size(w, c)
  <2>1. CASE c = b
    BY <1>0, <1>1, <2>1
  <2>2. CASE c # b
    <3>1. c \in B /\ IsFree(m, c) = 0 /\ Size(w, c) = Size(m, c)
      BY <1>0, <1>7, <2>2
    <3>2. c + HEADER_SIZE \in DOMAIN lv /\ c + HEADER_SIZE # p
      BY <1>0, <1>2, <1>3, <2>2, <3>1
    <3>3. lv2[c + HEADER_SIZE] = lv[c + HEADER_SIZE]
      BY <1>1, <3>2
    <3>4. QED BY <3>1, <3>3 DEF Served
  <2>3. QED BY <2>1, <2>2
<1>8. QED BY <1>4, <1>6, <1>7 DEF Served, lv2

Returns(m, w, B, C, b) ==
  /\ C \subseteq B /\ B \subseteq Nat /\ b \in C /\ IsFree(w, b) # 0
  /\ \A c \in C : c # b => IsFree(w, c) = IsFree(m, c) /\ Size(w, c) = Size(m, c)
  /\ \A c \in B \ C : IsFree(m, c) # 0

\* The client has one block less.
LEMMA ServedLess ==
  ASSUME NEW m, NEW lv, NEW B, Served(m, lv, B), NEW w, NEW C, NEW b, Returns(m, w, B, C, b)
  PROVE  Served(w, [q \in DOMAIN lv \ {b + HEADER_SIZE} |-> lv[q]], C)
<1>0. /\ C \subseteq B /\ B \subseteq Nat /\ b \in C /\ IsFree(w, b) # 0
      /\ \A c \in C : c # b => IsFree(w, c) = IsFree(m, c) /\ Size(w, c) = Size(m, c)
      /\ \A c \in B \ C : IsFree(m, c) # 0
  BY DEF Returns
<1> DEFINE p == b + HEADER_SIZE
           lv2 == [q \in DOMAIN lv \ {p} |-> lv[q]]
<1>1. DOMAIN lv2 = DOMAIN lv \ {p} /\ \A y \in DOMAIN lv : y # p => lv2[y] = lv[y]
  OBVIOUS
<1>2. \A c \in B : c + HEADER_SIZE = p <=> c = b
  BY <1>0 DEF HEADER_SIZE
<1>3. DOMAIN lv = {c + HEADER_SIZE : c \in {d \in B : IsFree(m, d) = 0}}
  BY DEF Served
<1>4. {d \in C : IsFree(w, d) = 0} = {d \in B : IsFree(m, d) = 0} \ {b}
  BY <1>0
<1> HIDE DEF lv2
<1>5. DOMAIN lv2 = {c + HEADER_SIZE : c \in {d \in C : IsFree(w, d) = 0}}
  BY <1>1, <1>2, <1>3, <1>4
<1>6. ASSUME NEW c \in C, IsFree(w, c) = 0
      PROVE  lv2[c + HEADER_SIZE] \in Requests /\ lv2[c + HEADER_SIZE] + HEADER_SIZE <= Size(w, c)
  <2>1. c \in B /\ c # b /\ IsFree(m, c) = 0 /\ Size(w, c) = Size(m, c)
    BY <1>0, <1>6
  <2>2. c + HEADER_SIZE \in DOMAIN lv /\ c + HEADER_SIZE # p
    BY <1>2, <1>3, <2>1
  <2>3. lv2[c + HEADER_SIZE] = lv[c + HEADER_SIZE]
    BY <1>1, <2>2
  <2>4. QED BY <2>1, <2>3 DEF Served
<1>7. QED BY <1>5, <1>6 DEF Served, lv2

\* The types of the tables of regions.
LEMMA RegionTypes ==
  ASSUME NEW maps, NEW E, Regions(maps, E)
  PROVE  maps \in [DOMAIN maps -> Nat] /\ DOMAIN maps \subseteq Nat /\ DOMAIN E = DOMAIN maps
<1>1. maps \in [DOMAIN maps -> Addresses] /\ E \in [DOMAIN maps -> Addresses] /\ DOMAIN maps \subseteq Addresses
  BY DEF Regions
<1>2. Addresses \subseteq Nat
  BY DEF Addresses
<1>3. QED BY <1>1, <1>2

\* The headers of a sound heap.
LEMMA SoundHeaders ==
  ASSUME NEW h, NEW maps, NEW B, NEW E, NEW L, Sound(h, maps, B, E, L), NEW H, H = B \cup Ends(E)
  PROVE  /\ h \in Heaps /\ h.mem \in Memories /\ Regions(maps, E) /\ Inside(h.mem, maps) /\ Marked(h.mem, E)
         /\ Tiles(h.mem, maps, B, E) /\ Binned(h, B, L)
         /\ Spaced(H) /\ Housed(H, maps) /\ H \subseteq Nat /\ B \subseteq H /\ Ends(E) \subseteq H /\ B \cap Ends(E) = {}
         /\ B \subseteq Nat
<1>1. /\ h \in Heaps /\ Regions(maps, E) /\ Inside(h.mem, maps) /\ Marked(h.mem, E)
      /\ Tiles(h.mem, maps, B, E) /\ Binned(h, B, L)
  BY DEF Sound
<1>2. Spaced(H) /\ Housed(H, maps) /\ B \cap Ends(E) = {}
  BY <1>1, Spacing
<1>3. H \subseteq Nat
  BY <1>2 DEF Spaced, Addresses
<1>4. h.mem \in Memories
  BY <1>1 DEF Heaps
<1>5. QED BY <1>1, <1>2, <1>3, <1>4

\* Words were written in headers only, and none in those of the ends.
LEMMA SoundWritten ==
  ASSUME NEW h \in Heaps, NEW maps, NEW E, Regions(maps, E), Inside(h.mem, maps), Marked(h.mem, E),
         NEW g, NEW H, H \subseteq Nat, Housed(H, maps), Within(h, g, H),
         \A e \in Ends(E) : /\ Size(g.mem, e) = Size(h.mem, e) /\ IsFree(g.mem, e) = IsFree(h.mem, e)
                            /\ Next_(g.mem, e) = Next_(h.mem, e),
         NEW C, Tiles(g.mem, maps, C, E), NEW M, Binned(g, C, M)
  PROVE  Sound(g, maps, C, E, M)
<1>1. g \in Heaps
  BY DEF Within
<1>2. Inside(g.mem, maps)
  BY RegionTypes, InsideKept
<1>3. Marked(g.mem, E)
  BY DEF Marked
<1>4. QED BY <1>1, <1>2, <1>3 DEF Sound

\* Taking the head of a fast bin, with b's flag cleared.
LEMMA PopTaken ==
  ASSUME NEW h \in Heaps, NEW H, Spaced(H), NEW K \in SUBSET H, NEW L, Binned(h, K, L), NEW i \in Bins,
         NEW b, b = h.fast[i], b # NULL
  PROVE  b \in K /\ BinOf(Size(h.mem, b)) = i /\ IsFree(h.mem, b) = 1
<1>1. b \in K
  BY PopBinned
<1>2. BinOf(Size(h.mem, b)) = i
  BY PopBinned, ZenonT(40)
<1>3. IsFree(h.mem, b) = 1
  BY PopBinned
<1>4. QED BY <1>1, <1>2, <1>3

\* PopBinned, for the headers.
LEMMA PopMoved ==
  ASSUME NEW h \in Heaps, NEW H, Spaced(H), NEW K \in SUBSET H, NEW L, Binned(h, K, L), NEW i \in Bins,
         NEW b, b = h.fast[i], b # NULL, NEW g, g = SetNext(WithFast(h, i, Next_(h.mem, b)), b, NULL)
  PROVE  Moved(h, g, H, b)
BY PopBinned, Zenon

\* PopBinned, for the lists.
LEMMA PopListed ==
  ASSUME NEW h \in Heaps, NEW H, Spaced(H), NEW K \in SUBSET H, NEW L, Binned(h, K, L), NEW i \in Bins,
         NEW b, b = h.fast[i], b # NULL, NEW g, g = SetNext(WithFast(h, i, Next_(h.mem, b)), b, NULL)
  PROVE  \E M : Binned(g, K \ {b}, M)
BY PopBinned

\* The first block of a fast bin is taken.
LEMMA FastSound ==
  ASSUME NEW h, NEW maps, NEW B, NEW E, NEW L, Sound(h, maps, B, E, L), NEW i \in Bins,
         NEW b, b = h.fast[i], b # NULL,
         NEW g, g = SetFree(SetNext(WithFast(h, i, Next_(h.mem, b)), b, NULL), b, 0)
  PROVE  /\ b \in B /\ BinOf(Size(h.mem, b)) = i /\ IsFree(h.mem, b) = 1
         /\ \E M : Sound(g, maps, B, E, M)
         /\ \A c \in B : Size(g.mem, c) = Size(h.mem, c) /\ IsFree(g.mem, c) = IF c = b THEN 0 ELSE IsFree(h.mem, c)
<1> DEFINE H == B \cup Ends(E)
           h1 == SetNext(WithFast(h, i, Next_(h.mem, b)), b, NULL)
           K == B \ {b}
<1>1. /\ h \in Heaps /\ h.mem \in Memories /\ Regions(maps, E) /\ Inside(h.mem, maps) /\ Marked(h.mem, E)
      /\ Tiles(h.mem, maps, B, E) /\ Binned(h, B, L)
      /\ Spaced(H) /\ Housed(H, maps) /\ H \subseteq Nat /\ B \subseteq H /\ Ends(E) \subseteq H /\ B \cap Ends(E) = {}
  BY SoundHeaders
<1> HIDE DEF H, h1
<1>2. b \in B /\ BinOf(Size(h.mem, b)) = i /\ IsFree(h.mem, b) = 1 /\ Moved(h, h1, H, b)
  <2>1. B \in SUBSET H
    BY <1>1
  <2>2. b \in B /\ BinOf(Size(h.mem, b)) = i /\ IsFree(h.mem, b) = 1
    BY <1>1, <2>1, PopTaken
  <2>3. Moved(h, h1, H, b)
    BY <1>1, <2>1, PopMoved DEF h1
  <2>4. QED BY <2>2, <2>3
<1>3. PICK M : Binned(h1, K, M)
  BY <1>1, PopListed DEF h1
<1>4. h1 \in Heaps /\ Within(h, h1, H)
  BY <1>2 DEF Moved, Within
<1>5. b \in H /\ K \subseteq H /\ b \notin K /\ 0 \in Nat
  BY <1>1, <1>2
<1> HIDE DEF K
<1>6. Binned(g, K, M) /\ Freeing(h1, g, H, b, 0) /\ Within(h1, g, H)
  BY <1>1, <1>3, <1>4, <1>5, SetFreeIs DEF h1
<1>7. \A c \in H : /\ Size(g.mem, c) = Size(h.mem, c) /\ IsFree(g.mem, c) = IF c = b THEN 0 ELSE IsFree(h.mem, c)
                   /\ c # b /\ IsFree(h.mem, c) # 1 => Next_(g.mem, c) = Next_(h.mem, c)
  BY <1>2, <1>6 DEF Moved, Freeing
<1>8. Binned(g, B, M)
  <2>1. K \cup {b} = B
    BY <1>2 DEF K
  <2>2. IsFree(g.mem, b) # 1
    BY <1>5, <1>7
  <2>3. Binned(g, K \cup {b}, M)
    BY <1>6, <2>2, BinnedMore
  <2>4. QED BY <2>1, <2>3
<1>9. Tiles(g.mem, maps, B, E)
  <2>1. \A c \in B : IsFree(h.mem, c) \in {0, 1}
    BY <1>1 DEF Tiles
  <2>2. \A c \in B : Size(g.mem, c) = Size(h.mem, c) /\ IsFree(g.mem, c) \in {0, 1}
    BY <1>1, <1>7, <2>1
  <2>3. QED BY <1>1, <2>2, TilesSame
<1>10. Within(h, g, H)
  BY <1>4, <1>6, WithinTrans
<1>11. \A e \in Ends(E) : /\ Size(g.mem, e) = Size(h.mem, e) /\ IsFree(g.mem, e) = IsFree(h.mem, e)
                          /\ Next_(g.mem, e) = Next_(h.mem, e)
  <2>1. \A e \in Ends(E) : e \in H /\ e # b /\ IsFree(h.mem, e) = 0
    BY <1>1, <1>2 DEF Marked
  <2>2. QED BY <1>7, <2>1
<1>12. Sound(g, maps, B, E, M)
  BY <1>1, <1>8, <1>9, <1>10, <1>11, SoundWritten
<1>13. QED BY <1>1, <1>2, <1>7, <1>12

\* The block goes to the client, who clears what it asked for.
LEMMA ClearedSound ==
  ASSUME NEW h, NEW maps, NEW B, NEW E, NEW L, Sound(h, maps, B, E, L), NEW b \in B,
         NEW size \in Nat, size + HEADER_SIZE <= Size(h.mem, b), NEW g, g = Cleared(h, b + HEADER_SIZE, size)
  PROVE  /\ Sound(g, maps, B, E, L)
         /\ \A c \in B : Size(g.mem, c) = Size(h.mem, c) /\ IsFree(g.mem, c) = IsFree(h.mem, c)
<1> DEFINE H == B \cup Ends(E)
<1>1. /\ h \in Heaps /\ h.mem \in Memories /\ Regions(maps, E) /\ Inside(h.mem, maps) /\ Marked(h.mem, E)
      /\ Tiles(h.mem, maps, B, E) /\ Binned(h, B, L)
      /\ Spaced(H) /\ Housed(H, maps) /\ H \subseteq Nat /\ B \subseteq H /\ Ends(E) \subseteq H /\ B \cap Ends(E) = {}
  BY SoundHeaders
<1>2. \A c \in H : b < c => b + HEADER_SIZE + size <= c
  <2>1. b \in Nat /\ Size(h.mem, b) \in Nat
    BY <1>1, BlockFacts
  <2>2. \A c \in H : b < c => b + Size(h.mem, b) <= c
    BY <1>1, Spacing
  <2>3. \A c \in H : c \in Nat
    BY <1>1
  <2> HIDE DEF H
  <2>4. QED BY <2>1, <2>2, <2>3 DEF HEADER_SIZE
<1>3. b \in H
  BY <1>1
<1> HIDE DEF H
<1>4. /\ g \in Heaps /\ DOMAIN g.mem \subseteq DOMAIN h.mem
      /\ \A c \in H : SameHeader(h, g, c)
      /\ \A k : HeadOf(g, k) = HeadOf(h, k)
  <2>0. g \in Heaps
    BY <1>1, <1>2, <1>3, ClearedIs
  <2>1. DOMAIN g.mem \subseteq DOMAIN h.mem
    BY <1>1, <1>2, <1>3, ClearedIs
  <2>2. \A c \in H : SameHeader(h, g, c)
    BY <1>1, <1>2, <1>3, ClearedIs
  <2>3. \A k : HeadOf(g, k) = HeadOf(h, k)
    <3>1. g.fast = h.fast /\ g.reg = h.reg
      BY <1>1 DEF Cleared, Heaps
    <3>2. QED BY <3>1 DEF HeadOf
  <2>4. QED BY <2>0, <2>1, <2>2, <2>3
<1>5. Binned(g, B, L)
  BY <1>1, <1>4, BinnedKept
<1>6. \A c \in H : Size(g.mem, c) = Size(h.mem, c) /\ IsFree(g.mem, c) = IsFree(h.mem, c) /\ Next_(g.mem, c) = Next_(h.mem, c)
  BY <1>4 DEF SameHeader
<1>7. Tiles(g.mem, maps, B, E)
  <2>1. \A c \in B : IsFree(h.mem, c) \in {0, 1}
    BY <1>1 DEF Tiles
  <2>2. \A c \in B : Size(g.mem, c) = Size(h.mem, c) /\ IsFree(g.mem, c) \in {0, 1}
    BY <1>1, <1>6, <2>1
  <2>3. QED BY <1>1, <2>2, TilesSame
<1>8. Within(h, g, H)
  BY <1>4 DEF Within
<1>9. \A e \in Ends(E) : /\ Size(g.mem, e) = Size(h.mem, e) /\ IsFree(g.mem, e) = IsFree(h.mem, e)
                          /\ Next_(g.mem, e) = Next_(h.mem, e)
  BY <1>1, <1>6
<1>10. Sound(g, maps, B, E, L)
  BY <1>1, <1>5, <1>7, <1>8, <1>9, SoundWritten
<1>11. QED BY <1>1, <1>6, <1>10

\* RemoveBinned, for the headers.
LEMMA RemovedMoved ==
  ASSUME NEW h \in Heaps, NEW H, Spaced(H), NEW K \in SUBSET H, NEW L, Binned(h, K, L),
         NEW i \in Bins, NEW b, Listed(L[4 + i], b), NEW g, g = remove_from_bin(h, i, b)
  PROVE  Moved(h, g, H, b)
BY RemoveBinned, Zenon

\* RemoveBinned, for the lists.
LEMMA RemovedListed ==
  ASSUME NEW h \in Heaps, NEW H, Spaced(H), NEW K \in SUBSET H, NEW L, Binned(h, K, L),
         NEW i \in Bins, NEW b, Listed(L[4 + i], b), NEW g, g = remove_from_bin(h, i, b)
  PROVE  \E M : Binned(g, K \ {b}, M)
BY RemoveBinned

\* The first fit is a block of its bin.
LEMMA FitListed ==
  ASSUME NEW h, NEW maps, NEW B, NEW E, NEW L, Sound(h, maps, B, E, L), NEW i \in Bins, NEW total \in Nat,
         NEW b, b = FirstFit(h.mem, h.reg[i], total), b # NULL
  PROVE  Listed(L[4 + i], b) /\ b \in B /\ IsFree(h.mem, b) = 1 /\ Size(h.mem, b) >= total
<1> DEFINE j == 4 + i
           s == L[j]
<1>1. h.mem \in Memories /\ Binned(h, B, L) /\ B \subseteq Nat
  <2>1. h \in Heaps /\ Binned(h, B, L) /\ B \subseteq Addresses
    BY DEF Sound, Tiles
  <2>2. Addresses \subseteq Nat
    BY DEF Addresses
  <2>3. QED BY <2>1, <2>2 DEF Heaps
<1>2. j \in AllBins /\ HeadOf(h, j) = h.reg[i]
  BY BinsOf
<1> HIDE DEF j
<1>3. s \in Seq(B) /\ List(h, j, s)
  BY <1>1, <1>2 DEF Binned
<1>4. s \in Seq(Nat) /\ Chained(h.mem, s) /\ At(s, 1) = h.reg[i]
  <2>1. Chained(h.mem, s)
    BY <1>3, ListChained
  <2>2. HeadOf(h, j) = At(s, 1)
    BY <1>3 DEF List
  <2>0. \A k \in 1..Len(s) : s[k] \in Nat
    BY <1>3 DEF List
  <2> HIDE DEF s
  <2>3. s \in Seq(Nat)
    BY <1>3, <2>0
  <2>4. QED BY <1>2, <2>1, <2>2, <2>3
<1>5. PICK p \in 1..Len(s) + 1 : /\ b = At(s, p)
                                 /\ p <= Len(s) => Size(h.mem, s[p]) >= total
  <2> HIDE DEF s
  <2>1. \E p \in 1..Len(s) + 1 :
           /\ FirstFit(h.mem, At(s, 1), total) = At(s, p)
           /\ p <= Len(s) => Size(h.mem, s[p]) >= total
    BY <1>1, <1>4, FirstFitIs
  <2>2. QED BY <1>4, <2>1
<1>6. Len(s) \in Nat
  BY <1>3
<1>7. p \in 1..Len(s) /\ b = s[p]
  <2> HIDE DEF s
  <2>1. QED BY <1>5, <1>6 DEF At
<1>8. Listed(s, b) /\ Size(h.mem, b) >= total
  <2> HIDE DEF s
  <2>1. p <= Len(s)
    BY <1>6, <1>7
  <2>2. QED BY <1>5, <1>7, <2>1 DEF Listed
<1>9. b \in B /\ IsFree(h.mem, b) = 1
  BY <1>1, <1>2, <1>8, ListedBin
<1>10. QED BY <1>8, <1>9 DEF j

\* It is taken out of its bin.
Headers(B, E) == B \cup Ends(E)
Others(B, b) == B \ {b}
Taken(h, g, H, b) ==
  /\ IsFree(h.mem, b) = 1 /\ Within(h, g, H)
  /\ \A c \in H : /\ Size(g.mem, c) = Size(h.mem, c) /\ IsFree(g.mem, c) = IF c = b THEN 0 ELSE IsFree(h.mem, c)
                  /\ c # b /\ IsFree(h.mem, c) # 1 => Next_(g.mem, c) = Next_(h.mem, c)

\* The block taken is in no bin any more, and its flag is cleared.
LEMMA TakenSound ==
  ASSUME NEW h, NEW maps, NEW B, NEW E, NEW L, Sound(h, maps, B, E, L), NEW i \in Bins,
         NEW b, Listed(L[4 + i], b), NEW g, g = SetFree(remove_from_bin(h, i, b), b, 0)
  PROVE  \E M : Binned(g, Others(B, b), M) /\ Taken(h, g, Headers(B, E), b) /\ b \in B
<1> DEFINE H == Headers(B, E)
           h1 == remove_from_bin(h, i, b)
           K == B \ {b}
<1>1. /\ h \in Heaps /\ h.mem \in Memories /\ Regions(maps, E) /\ Inside(h.mem, maps) /\ Marked(h.mem, E)
      /\ Tiles(h.mem, maps, B, E) /\ Binned(h, B, L)
      /\ Spaced(H) /\ Housed(H, maps) /\ H \subseteq Nat /\ B \subseteq H /\ Ends(E) \subseteq H /\ B \cap Ends(E) = {}
  BY SoundHeaders DEF Headers
<1>2. b \in B /\ IsFree(h.mem, b) = 1
  <2>1. 4 + i \in AllBins
    BY BinsOf
  <2>2. QED BY <1>1, <2>1, ListedBin
<1> HIDE DEF H
<1>3. Moved(h, h1, H, b)
  BY <1>1, RemovedMoved
<1>4. PICK M : Binned(h1, K, M)
  BY <1>1, RemovedListed
<1>5. h1 \in Heaps /\ Within(h, h1, H)
  BY <1>3 DEF Moved, Within
<1>6. b \in H /\ K \subseteq H /\ b \notin K /\ 0 \in Nat
  BY <1>1, <1>2
<1> HIDE DEF K, h1
<1>7. Binned(g, K, M) /\ Freeing(h1, g, H, b, 0) /\ Within(h1, g, H)
  BY <1>1, <1>4, <1>5, <1>6, SetFreeIs DEF h1
<1>8. \A c \in H : /\ Size(g.mem, c) = Size(h.mem, c) /\ IsFree(g.mem, c) = IF c = b THEN 0 ELSE IsFree(h.mem, c)
                   /\ c # b /\ IsFree(h.mem, c) # 1 => Next_(g.mem, c) = Next_(h.mem, c)
  BY <1>3, <1>7 DEF Moved, Freeing
<1>9. Within(h, g, H)
  BY <1>5, <1>7, WithinTrans
<1>10. QED BY <1>2, <1>7, <1>8, <1>9 DEF K, Taken, Others, H

\* Room for a header behind the first t bytes of b.
LEMMA SplitSpaced ==
  ASSUME NEW m, NEW maps, NEW B, NEW E, Regions(maps, E), Tiles(m, maps, B, E), NEW b \in B,
         NEW t \in Addresses, t >= 32, t + 32 <= Size(m, b), NEW H, H = B \cup Ends(E)
  PROVE  Spaced(H \cup {b + t}) /\ b + t \notin H /\ b + t \in Addresses
<1> DEFINE n == b + t
<1>1. b \in Nat /\ b \in Addresses /\ Size(m, b) \in Nat /\ t \in Nat /\ n \in Addresses /\ n \in Nat
  <2>1. b \in Addresses
    BY DEF Tiles
  <2>2. QED BY <2>1, BlockFacts, AddressSum DEF Addresses
<1>2. Spaced(H) /\ \A c \in H : b < c => b + Size(m, b) <= c
  BY Spacing
<1>3. \A c \in H : c \in Nat /\ c \in Addresses /\ c # 0
  BY <1>2 DEF Spaced, Addresses, NULL
<1>4. ASSUME NEW c \in H PROVE (c < n => c + 32 <= n) /\ (n < c => n + 32 <= c) /\ c # n
  <2>1. CASE c = b
    BY <1>1, <2>1
  <2>2. CASE c < b
    <3>1. c + HEADER_SIZE <= b
      BY <1>2, <1>3, <2>2 DEF Spaced, Tiles
    <3>2. QED BY <1>1, <1>3, <3>1 DEF HEADER_SIZE
  <2>3. CASE b < c
    BY <1>1, <1>2, <1>3, <2>3
  <2>4. QED BY <1>1, <1>3, <2>1, <2>2, <2>3
<1>5. n # 0
  BY <1>1
<1> HIDE DEF n
<1>6. Spaced(H \cup {n})
  <2>1. H \cup {n} \subseteq Addresses \ {NULL}
    BY <1>1, <1>3, <1>5 DEF NULL
  <2>2. ASSUME NEW c \in H \cup {n}, NEW d \in H \cup {n}, c < d PROVE c + HEADER_SIZE <= d
    <3>1. CASE c \in H /\ d \in H
      BY <1>2, <2>2, <3>1 DEF Spaced
    <3>2. CASE c = n
      BY <1>1, <1>4, <2>2, <3>2 DEF HEADER_SIZE
    <3>3. CASE c \in H /\ d = n
      BY <1>1, <1>4, <2>2, <3>3 DEF HEADER_SIZE
    <3>4. QED BY <3>1, <3>2, <3>3
  <2>3. QED BY <2>1, <2>2 DEF Spaced
<1>7. QED BY <1>1, <1>4, <1>6 DEF n

\* LeftoverBinned, for the headers.
LEMMA AddedIs ==
  ASSUME NEW h \in Heaps, NEW H, Spaced(H), NEW K \in SUBSET H, NEW b \in H, b \notin K,
         NEW L, Binned(h, K, L), NEW size \in Nat \ {0}, NEW g, g = AddLeftover(h, b, size)
  PROVE  Added(h, g, H, b, size)
BY LeftoverBinned, Zenon

\* LeftoverBinned, for the lists.
LEMMA AddedListed ==
  ASSUME NEW h \in Heaps, NEW H, Spaced(H), NEW K \in SUBSET H, NEW b \in H, b \notin K,
         NEW L, Binned(h, K, L), NEW size \in Nat \ {0}, NEW g, g = AddLeftover(h, b, size)
  PROVE  \E M : Binned(g, K \cup {b}, M)
BY LeftoverBinned

\* More headers may be written to.
LEMMA WithinMore ==
  ASSUME NEW h, NEW g, NEW H, NEW G, H \subseteq G, Within(h, g, H)
  PROVE  Within(h, g, G)
BY DEF Within

\* What MallocFit makes of the block it found, and of what is left of it.
Served1(h, g, B, C, b, total) ==
  /\ B \subseteq C /\ b \in C
  /\ IsFree(g.mem, b) = 0 /\ Size(g.mem, b) >= total
  /\ \A c \in B : c # b => Size(g.mem, c) = Size(h.mem, c) /\ IsFree(g.mem, c) = IsFree(h.mem, c)
  /\ \A c \in C : c # b /\ c \notin B => IsFree(g.mem, c) # 0

\* The first fit given out whole.
LEMMA WholeSound ==
  ASSUME NEW h, NEW maps, NEW B, NEW E, NEW L, Sound(h, maps, B, E, L), NEW i \in Bins,
         NEW b, Listed(L[4 + i], b), NEW g, g = SetFree(remove_from_bin(h, i, b), b, 0),
         NEW total, Size(h.mem, b) >= total
  PROVE  \E M : Sound(g, maps, B, E, M) /\ Served1(h, g, B, B, b, total)
<1> DEFINE H == B \cup Ends(E)
<1>1. /\ h \in Heaps /\ h.mem \in Memories /\ Regions(maps, E) /\ Inside(h.mem, maps) /\ Marked(h.mem, E)
      /\ Tiles(h.mem, maps, B, E) /\ Binned(h, B, L)
      /\ Spaced(H) /\ Housed(H, maps) /\ H \subseteq Nat /\ B \subseteq H /\ Ends(E) \subseteq H /\ B \cap Ends(E) = {}
  BY SoundHeaders
<1>0. \E M : Binned(g, Others(B, b), M) /\ Taken(h, g, Headers(B, E), b) /\ b \in B
  BY TakenSound
<1>2. /\ b \in B /\ IsFree(h.mem, b) = 1 /\ Within(h, g, H)
      /\ \A c \in H : /\ Size(g.mem, c) = Size(h.mem, c) /\ IsFree(g.mem, c) = IF c = b THEN 0 ELSE IsFree(h.mem, c)
                      /\ c # b /\ IsFree(h.mem, c) # 1 => Next_(g.mem, c) = Next_(h.mem, c)
  BY <1>0 DEF Taken, Headers
<1>3. PICK M : Binned(g, B \ {b}, M)
  BY <1>0 DEF Others
<1> HIDE DEF H
<1>4. Binned(g, B, M)
  <2>1. IsFree(g.mem, b) # 1
    BY <1>1, <1>2
  <2>2. Binned(g, (B \ {b}) \cup {b}, M)
    BY <1>3, <2>1, BinnedMore
  <2>3. (B \ {b}) \cup {b} = B
    BY <1>2
  <2>4. QED BY <2>2, <2>3
<1>5. Tiles(g.mem, maps, B, E)
  <2>1. \A c \in B : IsFree(h.mem, c) \in {0, 1}
    BY <1>1 DEF Tiles
  <2>2. \A c \in B : Size(g.mem, c) = Size(h.mem, c) /\ IsFree(g.mem, c) \in {0, 1}
    BY <1>1, <1>2, <2>1
  <2>3. QED BY <1>1, <2>2, TilesSame
<1>6. \A e \in Ends(E) : /\ Size(g.mem, e) = Size(h.mem, e) /\ IsFree(g.mem, e) = IsFree(h.mem, e)
                         /\ Next_(g.mem, e) = Next_(h.mem, e)
  <2>1. \A e \in Ends(E) : e \in H /\ e # b /\ IsFree(h.mem, e) = 0
    BY <1>1, <1>2 DEF Marked
  <2>2. QED BY <1>2, <2>1
<1>7. Sound(g, maps, B, E, M)
  BY <1>1, <1>2, <1>4, <1>5, <1>6, SoundWritten
<1>8. Served1(h, g, B, B, b, total)
  BY <1>1, <1>2 DEF Served1
<1>9. QED BY <1>7, <1>8

\* The first fit split.
LEMMA SplitSound ==
  ASSUME NEW h, NEW maps, NEW B, NEW E, NEW L, Sound(h, maps, B, E, L), NEW i \in Bins,
         NEW b, Listed(L[4 + i], b), NEW f, f = SetFree(remove_from_bin(h, i, b), b, 0),
         NEW t \in Addresses, t >= 32, t + 32 <= Size(h.mem, b),
         NEW g, g = SetSize(AddLeftover(f, b + t, Size(f.mem, b) - t), b, t)
  PROVE  \E C, M : Sound(g, maps, C, E, M) /\ Served1(h, g, B, C, b, t)
<1> DEFINE H == B \cup Ends(E)
           n == b + t
           rest == Size(f.mem, b) - t
           G == H \cup {n}
           C == B \cup {n}
           K == B \ {b}
           h3 == AddLeftover(f, n, rest)
<1>1. /\ h \in Heaps /\ h.mem \in Memories /\ Regions(maps, E) /\ Inside(h.mem, maps) /\ Marked(h.mem, E)
      /\ Tiles(h.mem, maps, B, E) /\ Binned(h, B, L)
      /\ Spaced(H) /\ Housed(H, maps) /\ H \subseteq Nat /\ B \subseteq H /\ Ends(E) \subseteq H /\ B \cap Ends(E) = {}
  BY SoundHeaders
<1>0. \E M : Binned(f, Others(B, b), M) /\ Taken(h, f, Headers(B, E), b) /\ b \in B
  BY TakenSound
<1>2. /\ b \in B /\ IsFree(h.mem, b) = 1 /\ Within(h, f, H)
      /\ \A c \in H : /\ Size(f.mem, c) = Size(h.mem, c) /\ IsFree(f.mem, c) = IF c = b THEN 0 ELSE IsFree(h.mem, c)
                      /\ c # b /\ IsFree(h.mem, c) # 1 => Next_(f.mem, c) = Next_(h.mem, c)
  BY <1>0 DEF Taken, Headers
<1>3. PICK M1 : Binned(f, K, M1)
  BY <1>0 DEF Others
<1>4. Spaced(G) /\ n \notin H /\ n \in Addresses
  BY <1>1, <1>2, SplitSpaced
<1>5. /\ t \in Nat /\ b \in H /\ Size(f.mem, b) = Size(h.mem, b) /\ Size(h.mem, b) \in Nat
      /\ rest = Size(h.mem, b) - t /\ rest \in Nat \ {0} /\ n # b /\ n \in Nat
  <2>1. t \in Nat /\ n \in Nat
    BY <1>4 DEF Addresses
  <2>2. Size(h.mem, b) \in Nat
    BY <1>1, <1>2, BlockFacts
  <2>3. QED BY <1>1, <1>2, <1>4, <2>1, <2>2
<1>6. K \subseteq G /\ n \in G /\ n \notin K /\ b \in G /\ C \subseteq G
  BY <1>1, <1>4, <1>5
<1>7. f \in Heaps /\ Within(h, f, G)
  BY <1>2, WithinMore DEF Within
<1> HIDE DEF H, n, rest, G, K, h3
<1>8. Added(f, h3, G, n, rest)
  BY <1>3, <1>4, <1>5, <1>6, <1>7, AddedIs DEF h3
<1>9. PICK M : Binned(h3, K \cup {n}, M)
  BY <1>3, <1>4, <1>5, <1>6, <1>7, AddedListed DEF h3
<1>10. h3 \in Heaps /\ Within(f, h3, G)
  BY <1>8 DEF Added, Within
<1>11. b \notin K \cup {n} /\ K \cup {n} \subseteq G /\ (K \cup {n}) \cup {b} = C
  BY <1>2, <1>5, <1>6 DEF K
<1>12. Binned(g, K \cup {n}, M) /\ Sized(h3, g, G, b, t) /\ Within(h3, g, G)
  <2>1. g = SetSize(h3, b, t)
    BY DEF h3, n, rest
  <2>2. QED BY <1>4, <1>5, <1>6, <1>9, <1>10, <1>11, <2>1, SetSizeIs
<1>13. \A c \in G : /\ Size(g.mem, c) = IF c = b THEN t ELSE IF c = n THEN rest ELSE Size(f.mem, c)
                    /\ IsFree(g.mem, c) = IF c = n THEN 1 ELSE IsFree(f.mem, c)
                    /\ c # n /\ IsFree(f.mem, c) # 1 => Next_(g.mem, c) = Next_(f.mem, c)
  BY <1>8, <1>12 DEF Added, Sized
<1>14. \A c \in H : /\ c # b => Size(g.mem, c) = Size(h.mem, c)
                    /\ IsFree(g.mem, c) = IF c = b THEN 0 ELSE IsFree(h.mem, c)
                    /\ c # b /\ IsFree(h.mem, c) # 1 => Next_(g.mem, c) = Next_(h.mem, c)
  <2>1. \A c \in H : c \in G /\ c # n
    BY <1>4 DEF G
  <2>2. QED BY <1>2, <1>13, <2>1
<1>15. Size(g.mem, b) = t /\ Size(g.mem, n) = Size(h.mem, b) - t /\ IsFree(g.mem, n) = 1 /\ IsFree(g.mem, b) = 0
  BY <1>5, <1>6, <1>13, <1>14
<1>16. Binned(g, C, M)
  <2>1. IsFree(g.mem, b) # 1
    BY <1>15
  <2>2. Binned(g, (K \cup {n}) \cup {b}, M)
    BY <1>12, <2>1, BinnedMore
  <2>3. QED BY <1>11, <2>2
<1>17. Tiles(g.mem, maps, C, E)
  <2>1. \A c \in B : IsFree(h.mem, c) \in {0, 1}
    BY <1>1 DEF Tiles
  <2>2. \A c \in C : IsFree(g.mem, c) \in {0, 1}
    BY <1>1, <1>14, <1>15, <2>1
  <2>3. \A c \in C : Size(g.mem, c) = IF c = b THEN t ELSE IF c = n THEN Size(h.mem, b) - t ELSE Size(h.mem, c)
    BY <1>1, <1>14, <1>15
  <2>4. QED BY <1>1, <1>2, <2>2, <2>3, TilesSplit DEF n
<1>18. Within(h, g, G)
  BY <1>7, <1>10, <1>12, WithinTrans
<1>19. \A e \in Ends(E) : /\ Size(g.mem, e) = Size(h.mem, e) /\ IsFree(g.mem, e) = IsFree(h.mem, e)
                          /\ Next_(g.mem, e) = Next_(h.mem, e)
  <2>1. \A e \in Ends(E) : e \in H /\ e # b /\ IsFree(h.mem, e) = 0
    BY <1>1, <1>2 DEF Marked
  <2>2. QED BY <1>14, <2>1
<1>20. Housed(G, maps) /\ G \subseteq Nat
  <2>1. Housed(C \cup Ends(E), maps)
    BY <1>1, <1>17, Spacing
  <2>2. C \cup Ends(E) = G
    BY DEF G, H
  <2>3. QED BY <1>1, <1>5, <2>1, <2>2 DEF G
<1>21. Sound(g, maps, C, E, M)
  BY <1>1, <1>16, <1>17, <1>18, <1>19, <1>20, SoundWritten
<1>22. Served1(h, g, B, C, b, t)
  BY <1>1, <1>2, <1>5, <1>14, <1>15 DEF Served1
<1>23. QED BY <1>21, <1>22

Fresh(h, b, v) == Unlink(SetFree(SetSize(h, b, v), b, 0), b)

\* A header written where there was none.
LEMMA FreshIs ==
  ASSUME NEW h \in Heaps, NEW b \in Addresses, NEW v \in Nat, NEW g, g = Fresh(h, b, v)
  PROVE  /\ g \in Heaps /\ g.fast = h.fast /\ g.reg = h.reg
         /\ \A x : Word(g.mem, x) = IF x = b THEN v ELSE IF x \in {b + 8, b + 16, b + 24} THEN 0 ELSE Word(h.mem, x)
         /\ \A a \in DOMAIN g.mem : a \in DOMAIN h.mem \/ a \in {b, b + 8, b + 16, b + 24}
<1> DEFINE h1 == Write(h, b, v)
           h2 == Write(h1, b + 8, 0)
           h3 == Write(h2, b + 24, 0)
           h4 == Write(h3, b + 16, 0)
<1>1. b \in Nat /\ b + 8 \in Addresses /\ b + 16 \in Addresses /\ b + 24 \in Addresses /\ 0 \in Nat
      /\ b # b + 8 /\ b # b + 16 /\ b # b + 24
  BY DEF Addresses
<1>2. g = h4
  BY DEF Fresh, SetSize, SetFree, Unlink, SetPrev, SetNext, NULL
<1>3. Overwrites(h, h1, b, v)
  BY <1>1, WriteWord
<1> HIDE DEF h1
<1>4. Overwrites(h1, h2, b + 8, 0)
  <2>1. h1 \in Heaps
    BY <1>3 DEF Overwrites
  <2>2. QED BY <1>1, <2>1, WriteWord
<1> HIDE DEF h2
<1>5. Overwrites(h2, h3, b + 24, 0)
  <2>1. h2 \in Heaps
    BY <1>4 DEF Overwrites
  <2>2. QED BY <1>1, <2>1, WriteWord
<1> HIDE DEF h3
<1>6. Overwrites(h3, h4, b + 16, 0)
  <2>1. h3 \in Heaps
    BY <1>5 DEF Overwrites
  <2>2. QED BY <1>1, <2>1, WriteWord
<1> HIDE DEF h4
<1>7. \A x : Word(h4.mem, x) = IF x = b THEN v ELSE IF x \in {b + 8, b + 16, b + 24} THEN 0 ELSE Word(h.mem, x)
  BY <1>1, <1>3, <1>4, <1>5, <1>6 DEF Overwrites
<1>8. \A a \in DOMAIN h4.mem : a \in DOMAIN h.mem \/ a \in {b, b + 8, b + 16, b + 24}
  BY <1>3, <1>4, <1>5, <1>6 DEF Overwrites
<1>9. h4 \in Heaps /\ h4.fast = h.fast /\ h4.reg = h.reg
  BY <1>3, <1>4, <1>5, <1>6 DEF Overwrites
<1>10. QED BY <1>2, <1>7, <1>8, <1>9

\* No word is written behind the last region.
LEMMA ZeroBehind ==
  ASSUME NEW m, NEW maps, NEW E, Regions(maps, E), Inside(m, maps), NEW r \in Nat, \A q \in DOMAIN maps : q + maps[q] <= r
  PROVE  \A x \in Nat : x >= r => Word(m, x) = 0
<1> SUFFICES ASSUME NEW x \in Nat, x >= r PROVE x \notin DOMAIN m
  BY DEF Word
<1> SUFFICES ASSUME x \in DOMAIN m PROVE FALSE
  OBVIOUS
<1>1. PICK q \in DOMAIN maps : q <= x /\ x < q + maps[q]
  BY DEF Inside
<1>2. q \in Nat /\ maps[q] \in Nat
  BY RegionFacts
<1>3. q + maps[q] <= r
  OBVIOUS
<1>4. QED BY <1>1, <1>2, <1>3

\* The two headers my_malloc writes to a region of len bytes at r.
Mapped(h, r, len, total) == Fresh(Fresh(h, r + len - HEADER_SIZE, 0), r, total)

\* The headers of the new region, and no other, are written.
LEMMA MappedIs ==
  ASSUME NEW h, NEW maps, NEW B, NEW E, NEW L, Sound(h, maps, B, E, L),
         NEW r \in Addresses, r # 0, \A q \in DOMAIN maps : q + maps[q] <= r,
         NEW total \in Addresses, total >= 40, NEW len \in Addresses, len >= total + 32,
         NEW g, g = Mapped(h, r, len, total)
  PROVE  /\ g \in Heaps /\ g.fast = h.fast /\ g.reg = h.reg
         /\ \A x \in Nat : Word(g.mem, x) = IF x = r THEN total ELSE Word(h.mem, x)
         /\ \A a \in DOMAIN g.mem : a \in DOMAIN h.mem \/ (a \in Nat /\ r <= a /\ a < r + len)
         /\ \A x \in Nat : x >= r => Word(h.mem, x) = 0
<1> DEFINE s == r + len - HEADER_SIZE
           f == Fresh(h, s, 0)
<1>1. h \in Heaps /\ Regions(maps, E) /\ Inside(h.mem, maps)
  BY DEF Sound
<1>2. r \in Nat /\ total \in Nat /\ len \in Nat /\ s \in Addresses /\ s \in Nat /\ s >= r + total
  <2>1. r \in Nat /\ total \in Nat /\ len \in Nat
    BY DEF Addresses
  <2>2. s \in Nat /\ s >= r + total
    BY <2>1 DEF HEADER_SIZE
  <2>3. s \in Addresses
    <3>1. r + len \in Addresses /\ 32 \in Addresses /\ r + len >= 32
      BY <2>1, AddressSum DEF Addresses
    <3>2. (r + len) - 32 \in Addresses
      BY <3>1, AddressSum
    <3>3. s = (r + len) - 32
      BY <2>1 DEF HEADER_SIZE
    <3> HIDE DEF s
    <3>4. QED BY <3>2, <3>3
  <2>4. QED BY <2>1, <2>2, <2>3
<1>3. \A x \in Nat : x >= r => Word(h.mem, x) = 0
  BY <1>1, <1>2, ZeroBehind
<1>4. /\ f \in Heaps /\ f.fast = h.fast /\ f.reg = h.reg
      /\ \A x : Word(f.mem, x) = IF x = s THEN 0 ELSE IF x \in {s + 8, s + 16, s + 24} THEN 0 ELSE Word(h.mem, x)
      /\ \A a \in DOMAIN f.mem : a \in DOMAIN h.mem \/ a \in {s, s + 8, s + 16, s + 24}
  <2> HIDE DEF s
  <2>1. 0 \in Nat
    OBVIOUS
  <2>2. QED BY <1>1, <1>2, <2>1, FreshIs
<1>5. g = Fresh(f, r, total)
  BY DEF Mapped
<1> HIDE DEF f, s
<1>6. /\ g \in Heaps /\ g.fast = f.fast /\ g.reg = f.reg
      /\ \A x : Word(g.mem, x) = IF x = r THEN total ELSE IF x \in {r + 8, r + 16, r + 24} THEN 0 ELSE Word(f.mem, x)
      /\ \A a \in DOMAIN g.mem : a \in DOMAIN f.mem \/ a \in {r, r + 8, r + 16, r + 24}
  BY <1>2, <1>4, <1>5, FreshIs, ZenonT(40)
<1>7. ASSUME NEW x \in Nat PROVE Word(g.mem, x) = IF x = r THEN total ELSE Word(h.mem, x)
  <2>1. CASE x < r
    <3>1. x # s /\ x \notin {s + 8, s + 16, s + 24} /\ x \notin {r, r + 8, r + 16, r + 24}
      BY <1>2, <2>1
    <3>2. QED BY <1>4, <1>6, <3>1
  <2>2. CASE x >= r
    <3>1. Word(h.mem, x) = 0
      BY <1>3, <2>2
    <3>2. Word(f.mem, x) = 0
      BY <1>4, <3>1
    <3>3. QED BY <1>6, <3>1, <3>2
  <2>3. QED BY <1>2, <2>1, <2>2
<1>8. ASSUME NEW a \in DOMAIN g.mem PROVE a \in DOMAIN h.mem \/ (a \in Nat /\ r <= a /\ a < r + len)
  <2>1. \A y \in {s, s + 8, s + 16, s + 24} : y \in Nat /\ r <= y /\ y < r + len
    BY <1>2 DEF HEADER_SIZE, s
  <2>2. \A y \in {r, r + 8, r + 16, r + 24} : y \in Nat /\ r <= y /\ y < r + len
    BY <1>2
  <2>3. QED BY <1>4, <1>6, <2>1, <2>2
<1>9. QED BY <1>3, <1>4, <1>6, <1>7, <1>8

\* The heap with the headers of the new region, seen from the old ones.
LEMMA MappedHeaders ==
  ASSUME NEW h, NEW maps, NEW B, NEW E, NEW L, Sound(h, maps, B, E, L),
         NEW r \in Addresses, r # 0, \A q \in DOMAIN maps : q + maps[q] <= r,
         NEW total \in Addresses, total >= 40, NEW len \in Addresses, len >= total + 32,
         NEW g, g = Mapped(h, r, len, total)
  PROVE  /\ \A c \in Headers(B, E) : SameHeader(h, g, c) /\ c \in Nat /\ c + 32 <= r
         /\ Binned(g, B, L)
         /\ Size(g.mem, r) = total /\ IsFree(g.mem, r) = 0
         /\ \A x \in Nat : x > r => Size(g.mem, x) = 0 /\ IsFree(g.mem, x) = 0 /\ Next_(g.mem, x) = 0
<1> DEFINE H == Headers(B, E)
<1>1. /\ h \in Heaps /\ h.mem \in Memories /\ Regions(maps, E) /\ Inside(h.mem, maps) /\ Marked(h.mem, E)
      /\ Tiles(h.mem, maps, B, E) /\ Binned(h, B, L)
      /\ Spaced(H) /\ Housed(H, maps) /\ H \subseteq Nat /\ B \subseteq H /\ Ends(E) \subseteq H /\ B \cap Ends(E) = {}
  BY SoundHeaders DEF Headers
<1> HIDE DEF H
<1>2. /\ g.fast = h.fast /\ g.reg = h.reg
      /\ \A x \in Nat : Word(g.mem, x) = IF x = r THEN total ELSE Word(h.mem, x)
      /\ \A x \in Nat : x >= r => Word(h.mem, x) = 0
  <2>1. g.fast = h.fast /\ g.reg = h.reg
    BY MappedIs
  <2>2. \A x \in Nat : Word(g.mem, x) = IF x = r THEN total ELSE Word(h.mem, x)
    BY MappedIs
  <2>3. \A x \in Nat : x >= r => Word(h.mem, x) = 0
    BY MappedIs
  <2>4. QED BY <2>1, <2>2, <2>3
<1>3. r \in Nat
  BY DEF Addresses
<1>4. ASSUME NEW c \in H PROVE c \in Nat /\ c + 32 <= r
  <2>1. PICK q \in DOMAIN maps : c + 32 <= q + maps[q]
    BY <1>1 DEF Housed, HEADER_SIZE
  <2>2. q \in Nat /\ maps[q] \in Nat /\ q + maps[q] <= r
    BY <1>1, RegionFacts
  <2>3. c \in Nat
    BY <1>1
  <2>4. QED BY <1>3, <2>1, <2>2, <2>3
<1>5. ASSUME NEW c \in H PROVE SameHeader(h, g, c)
  <2>1. c \in Nat /\ c + 8 \in Nat /\ c + 16 \in Nat /\ c + 24 \in Nat /\ r \notin {c, c + 8, c + 16, c + 24}
    BY <1>3, <1>4
  <2>2. QED BY <1>2, <2>1 DEF SameHeader, Size, IsFree, Next_, Prev
<1>6. Binned(g, B, L)
  <2>1. \A k \in AllBins : HeadOf(g, k) = HeadOf(h, k)
    BY <1>2 DEF HeadOf
  <2>2. \A c \in B : SameHeader(h, g, c)
    BY <1>1, <1>5
  <2>3. QED BY <1>1, <2>1, <2>2, BinnedKept
<1>7. \A x \in Nat : x > r => Word(g.mem, x) = 0
  BY <1>2, <1>3
<1>8. Size(g.mem, r) = total /\ IsFree(g.mem, r) = 0
  <2>1. r + 8 \in Nat /\ r + 8 > r
    BY <1>3
  <2>2. QED BY <1>2, <1>3, <1>7, <2>1 DEF Size, IsFree
<1>9. ASSUME NEW x \in Nat, x > r PROVE Size(g.mem, x) = 0 /\ IsFree(g.mem, x) = 0 /\ Next_(g.mem, x) = 0
  <2>1. x + 8 \in Nat /\ x + 8 > r /\ x + 16 \in Nat /\ x + 16 > r
    BY <1>3, <1>9
  <2>2. QED BY <1>7, <1>9, <2>1 DEF Size, IsFree, Next_
<1>10. QED BY <1>4, <1>5, <1>6, <1>8, <1>9 DEF H

\* The headers of the new region are behind all others.
LEMMA SpacedMore ==
  ASSUME NEW H, Spaced(H), NEW r \in Addresses, r # 0, \A c \in H : c \in Nat /\ c + 32 <= r,
         NEW n \in Addresses, r + 32 <= n, NEW e \in Addresses, n + 32 <= e
  PROVE  Spaced(H \cup {r, n, e})
<1> DEFINE G == H \cup {r, n, e}
<1>1. r \in Nat /\ n \in Nat /\ e \in Nat
  BY DEF Addresses
<1>2. n # 0 /\ e # 0
  BY <1>1
<1>3. G \subseteq Addresses \ {NULL}
  BY <1>2 DEF Spaced, NULL
<1>4. ASSUME NEW c \in G, NEW d \in G, c < d PROVE c + HEADER_SIZE <= d
  <2>1. CASE c \in H /\ d \in H
    BY <1>4, <2>1 DEF Spaced
  <2>2. CASE c \in H /\ d \notin H
    BY <1>1, <1>4, <2>2 DEF HEADER_SIZE
  <2>3. CASE c \notin H /\ d \in H
    BY <1>1, <1>4, <2>3
  <2>4. CASE c \notin H /\ d \notin H
    BY <1>1, <1>4, <2>4 DEF HEADER_SIZE
  <2>5. QED BY <2>1, <2>2, <2>3, <2>4
<1> HIDE DEF G
<1>5. Spaced(G)
  BY <1>3, <1>4 DEF Spaced
<1>6. QED BY <1>5 DEF G

\* The region is one block and its sentinel, perhaps with 8 bytes in between.
LEMMA MapWhole ==
  ASSUME NEW h, NEW maps, NEW B, NEW E, NEW L, Sound(h, maps, B, E, L),
         NEW r \in Addresses, r # 0, \A q \in DOMAIN maps : q + maps[q] <= r,
         NEW total \in Addresses, total >= 40, NEW len \in Addresses, len - total - 32 \in {0, 8},
         NEW g, g = Mapped(h, r, len, total)
  PROVE  \E C, F : Sound(g, With(maps, r, len), C, F, L) /\ Served1(h, g, B, C, r, total) /\ r \notin B
<1> DEFINE H == Headers(B, E)
           e == r + total
           N == {r}
           C == B \cup N
           maps2 == With(maps, r, len)
           F == With(E, r, e)
<1>1. /\ h \in Heaps /\ h.mem \in Memories /\ Regions(maps, E) /\ Inside(h.mem, maps) /\ Marked(h.mem, E)
      /\ Tiles(h.mem, maps, B, E) /\ Binned(h, B, L)
      /\ Spaced(H) /\ Housed(H, maps) /\ H \subseteq Nat /\ B \subseteq H /\ Ends(E) \subseteq H /\ B \cap Ends(E) = {}
  BY SoundHeaders DEF Headers
<1>2. r \in Nat /\ total \in Nat /\ len \in Nat /\ e \in Addresses /\ e \in Nat
      /\ e > r /\ len >= total + 32 /\ e + 32 \in {r + len, r + len - 8}
  <2>1. r \in Nat /\ total \in Nat /\ len \in Nat /\ e \in Addresses
    BY AddressSum DEF Addresses
  <2>2. len = total + 32 \/ len = total + 40
    BY <2>1
  <2>3. QED BY <2>1, <2>2
<1>3. /\ \A c \in Headers(B, E) : SameHeader(h, g, c) /\ c \in Nat /\ c + 32 <= r
      /\ Binned(g, B, L)
      /\ Size(g.mem, r) = total /\ IsFree(g.mem, r) = 0
      /\ \A x \in Nat : x > r => Size(g.mem, x) = 0 /\ IsFree(g.mem, x) = 0 /\ Next_(g.mem, x) = 0
  BY <1>2, MappedHeaders
<1>4. /\ g \in Heaps
      /\ \A a \in DOMAIN g.mem : a \in DOMAIN h.mem \/ (a \in Nat /\ r <= a /\ a < r + len)
  BY <1>2, MappedIs
<1> HIDE DEF e, maps2, F, H
<1>5. \A c \in H : Size(g.mem, c) = Size(h.mem, c) /\ IsFree(g.mem, c) = IsFree(h.mem, c) /\ Next_(g.mem, c) = Next_(h.mem, c)
  BY <1>3 DEF SameHeader, H
<1>6. /\ Regions(maps2, F) /\ Tiles(g.mem, maps2, C, F) /\ Ends(F) = Ends(E) \cup {e} /\ r \notin DOMAIN maps
  <2>1. \A c \in B : Size(g.mem, c) = Size(h.mem, c) /\ IsFree(g.mem, c) \in {0, 1}
    <3>1. \A c \in B : IsFree(h.mem, c) \in {0, 1}
      BY <1>1 DEF Tiles
    <3>2. QED BY <1>1, <1>5, <3>1
  <2>2. N \in SUBSET Addresses /\ r \in N
    OBVIOUS
  <2>3. \A c \in N : /\ Size(g.mem, c) \in Addresses /\ Size(g.mem, c) >= 32 /\ IsFree(g.mem, c) \in {0, 1}
                     /\ r <= c /\ c + Size(g.mem, c) <= e /\ c + Size(g.mem, c) \in N \cup {e}
    BY <1>2, <1>3 DEF e
  <2>4. \A c, d \in N : c < d => c + Size(g.mem, c) <= d
    BY <1>2
  <2> HIDE DEF N
  <2> DEFINE w == g.mem
  <2>4a. \A c \in B : Size(w, c) = Size(h.mem, c) /\ IsFree(w, c) \in {0, 1}
    BY <2>1
  <2>4b. /\ \A c \in N : /\ Size(w, c) \in Addresses /\ Size(w, c) >= 32 /\ IsFree(w, c) \in {0, 1}
                     /\ r <= c /\ c + Size(w, c) <= e /\ c + Size(w, c) \in N \cup {e}
         /\ \A c, d \in N : c < d => c + Size(w, c) <= d
    BY <2>3, <2>4
  <2> HIDE DEF w
  <2>5. NewRegion(maps, B, E, r, len, e, N, w)
    BY <1>1, <1>2, <2>2, <2>4a, <2>4b, TilesMapped
  <2>7. QED BY <2>5 DEF maps2, F, NewRegion, w
<1>7. Binned(g, C, L)
  <2>1. IsFree(g.mem, r) # 1
    BY <1>3
  <2>2. QED BY <1>3, <2>1, BinnedMore
<1>8. Inside(g.mem, maps2)
  <2>1. DOMAIN maps2 = DOMAIN maps \cup {r} /\ maps2[r] = len /\ \A q \in DOMAIN maps : maps2[q] = maps[q]
    BY <1>6 DEF maps2, With
  <2>2. QED BY <1>1, <1>4, <2>1 DEF Inside
<1>9. Marked(g.mem, F)
  <2>1. \A x \in Ends(E) : Size(g.mem, x) = 0 /\ IsFree(g.mem, x) = 0 /\ Next_(g.mem, x) = 0
    BY <1>1, <1>5 DEF Marked
  <2>2. Size(g.mem, e) = 0 /\ IsFree(g.mem, e) = 0 /\ Next_(g.mem, e) = 0
    BY <1>2, <1>3
  <2>3. QED BY <1>6, <2>1, <2>2 DEF Marked
<1>10. Sound(g, maps2, C, F, L)
  BY <1>4, <1>6, <1>7, <1>8, <1>9 DEF Sound
<1>11. r \notin B
  BY <1>1, <1>2, <1>3 DEF H
<1>12. Served1(h, g, B, C, r, total)
  BY <1>1, <1>2, <1>3, <1>5 DEF Served1
<1>13. QED BY <1>10, <1>11, <1>12 DEF maps2

\* The region is one block, a free one and the sentinel.
LEMMA MapSplit ==
  ASSUME NEW h, NEW maps, NEW B, NEW E, NEW L, Sound(h, maps, B, E, L),
         NEW r \in Addresses, r # 0, \A q \in DOMAIN maps : q + maps[q] <= r,
         NEW total \in Addresses, total >= 40, NEW len \in Addresses, NEW rest, rest = len - total - 32, rest >= 32,
         NEW g, g = AddLeftover(Mapped(h, r, len, total), r + total, rest)
  PROVE  \E C, F, M : Sound(g, With(maps, r, len), C, F, M) /\ Served1(h, g, B, C, r, total) /\ r \notin B
<1> DEFINE H == Headers(B, E)
           f == Mapped(h, r, len, total)
           n == r + total
           e == n + rest
           N == {r, n}
           C == B \cup N
           G == H \cup {r, n, e}
           maps2 == With(maps, r, len)
           F == With(E, r, e)
<1>1. /\ h \in Heaps /\ h.mem \in Memories /\ Regions(maps, E) /\ Inside(h.mem, maps) /\ Marked(h.mem, E)
      /\ Tiles(h.mem, maps, B, E) /\ Binned(h, B, L)
      /\ Spaced(H) /\ Housed(H, maps) /\ H \subseteq Nat /\ B \subseteq H /\ Ends(E) \subseteq H /\ B \cap Ends(E) = {}
  <2>1. H = B \cup Ends(E)
    BY DEF Headers
  <2> HIDE DEF H
  <2>2. QED BY <2>1, SoundHeaders
<1>2. r \in Nat /\ total \in Nat /\ len \in Nat /\ n \in Addresses /\ n \in Nat /\ rest \in Addresses /\ rest \in Nat
      /\ e \in Addresses /\ e \in Nat /\ e + 32 = r + len /\ n >= r + 40 /\ len >= total + 32 /\ rest # 0
  <2>1. r \in Nat /\ total \in Nat /\ len \in Nat
    BY DEF Addresses
  <2>2. n \in Addresses
    BY AddressSum
  <2>3. total + 32 \in Addresses /\ len >= total + 32
    BY <2>1, AddressSum DEF Addresses
  <2>4. len - (total + 32) \in Addresses
    BY <2>3, AddressSum
  <2>5. rest \in Addresses
    <3>1. rest = len - (total + 32)
      BY <2>1
    <3>2. QED BY <2>4, <3>1
  <2>6. e \in Addresses
    BY <2>2, <2>5, AddressSum
  <2>7. n \in Nat /\ rest \in Nat /\ e \in Nat
    BY <2>2, <2>5, <2>6 DEF Addresses
  <2>8. QED BY <2>1, <2>2, <2>3, <2>5, <2>6, <2>7
<1>3. /\ \A c \in Headers(B, E) : SameHeader(h, f, c) /\ c \in Nat /\ c + 32 <= r
      /\ Binned(f, B, L)
      /\ Size(f.mem, r) = total /\ IsFree(f.mem, r) = 0
      /\ \A x \in Nat : x > r => Size(f.mem, x) = 0 /\ IsFree(f.mem, x) = 0 /\ Next_(f.mem, x) = 0
  BY <1>2, MappedHeaders
<1>4. /\ f \in Heaps
      /\ \A a \in DOMAIN f.mem : a \in DOMAIN h.mem \/ (a \in Nat /\ r <= a /\ a < r + len)
  BY <1>2, MappedIs
<1> HIDE DEF f, n, e, H, maps2, F
<1>5. Spaced(G)
  <2>1. n + 32 <= e /\ r + 32 <= n
    BY <1>2 DEF e
  <2>2. QED BY <1>1, <1>2, <1>3, <2>1, SpacedMore DEF H
<1>6. n \notin B /\ r \notin B /\ B \subseteq G /\ n \in G /\ r \in G /\ e \in G /\ r # n /\ n # e /\ r # e /\ e \notin H
  <2>1. \A c \in H : c \in Nat /\ c + 32 <= r
    BY <1>3 DEF H
  <2>2. r # n /\ n # e /\ r # e
    BY <1>2 DEF e
  <2>3. QED BY <1>1, <1>2, <2>1, <2>2
<1> HIDE DEF G
<1>7. Added(f, g, G, n, rest)
  BY <1>2, <1>3, <1>4, <1>5, <1>6, AddedIs DEF f, n
<1>8. PICK M : Binned(g, B \cup {n}, M)
  BY <1>2, <1>3, <1>4, <1>5, <1>6, AddedListed DEF f, n
<1>9. g \in Heaps /\ Within(f, g, G)
  BY <1>7 DEF Added, Within
<1>10. \A c \in G : /\ Size(g.mem, c) = IF c = n THEN rest ELSE Size(f.mem, c)
                    /\ IsFree(g.mem, c) = IF c = n THEN 1 ELSE IsFree(f.mem, c)
                    /\ c # n /\ IsFree(f.mem, c) # 1 => Next_(g.mem, c) = Next_(f.mem, c)
  BY <1>7 DEF Added
<1>11. \A c \in H : /\ Size(g.mem, c) = Size(h.mem, c) /\ IsFree(g.mem, c) = IsFree(h.mem, c)
                    /\ IsFree(h.mem, c) # 1 => Next_(g.mem, c) = Next_(h.mem, c)
  <2>1. \A c \in H : c \in G /\ c # n
    <3>1. \A c \in H : c \in Nat /\ c + 32 <= r
      BY <1>3 DEF H
    <3>2. QED BY <1>2, <3>1 DEF G
  <2>2. \A c \in H : SameHeader(h, f, c)
    BY <1>3 DEF H
  <2>3. QED BY <1>10, <2>1, <2>2 DEF SameHeader
<1>12. /\ Size(g.mem, r) = total /\ IsFree(g.mem, r) = 0
       /\ Size(g.mem, n) = rest /\ IsFree(g.mem, n) = 1
       /\ Size(g.mem, e) = 0 /\ IsFree(g.mem, e) = 0 /\ Next_(g.mem, e) = 0
  <2>1. e > r
    BY <1>2 DEF e
  <2>2. QED BY <1>2, <1>3, <1>6, <1>10, <2>1
<1>13. NewRegion(maps, B, E, r, len, e, N, g.mem)
  <2> DEFINE w == g.mem
  <2>1. \A c \in B : Size(w, c) = Size(h.mem, c) /\ IsFree(w, c) \in {0, 1}
    <3>1. \A c \in B : IsFree(h.mem, c) \in {0, 1}
      BY <1>1 DEF Tiles
    <3>2. QED BY <1>1, <1>11, <3>1
  <2>2. N \in SUBSET Addresses /\ r \in N
    BY <1>2
  <2>3. \A c \in N : /\ Size(w, c) \in Addresses /\ Size(w, c) >= 32 /\ IsFree(w, c) \in {0, 1}
                     /\ r <= c /\ c + Size(w, c) <= e /\ c + Size(w, c) \in N \cup {e}
    <3>1. n = r + total /\ e = n + rest
      BY DEF n, e
    <3>2. QED BY <1>2, <1>12, <3>1
  <2>4. \A c, d \in N : c < d => c + Size(w, c) <= d
    <3>1. n = r + total
      BY DEF n
    <3>2. QED BY <1>2, <1>12, <3>1
  <2>5. r < e /\ e + 32 \in {r + len, r + len - 8}
    BY <1>2 DEF e
  <2> HIDE DEF w, N
  <2>6. NewRegion(maps, B, E, r, len, e, N, w)
    BY <1>1, <1>2, <2>1, <2>2, <2>3, <2>4, <2>5, TilesMapped
  <2>7. QED BY <2>6 DEF w
<1>14. /\ Regions(maps2, F) /\ Tiles(g.mem, maps2, C, F) /\ Ends(F) = Ends(E) \cup {e} /\ r \notin DOMAIN maps
  <2> HIDE DEF N
  <2>1. QED BY <1>13 DEF NewRegion, maps2, F
<1>15. Binned(g, C, M)
  <2>1. IsFree(g.mem, r) # 1
    BY <1>12
  <2>2. Binned(g, (B \cup {n}) \cup {r}, M)
    BY <1>8, <2>1, BinnedMore
  <2>3. (B \cup {n}) \cup {r} = C
    OBVIOUS
  <2>4. QED BY <2>2, <2>3
<1>16. Inside(f.mem, maps2)
  <2>1. DOMAIN maps2 = DOMAIN maps \cup {r} /\ maps2[r] = len /\ \A q \in DOMAIN maps : maps2[q] = maps[q]
    BY <1>14 DEF maps2, With
  <2>2. QED BY <1>1, <1>4, <2>1 DEF Inside
<1>17. Inside(g.mem, maps2)
  <2>1. Housed(C \cup Ends(F), maps2) /\ Spaced(C \cup Ends(F))
    BY <1>14, Spacing
  <2>2. C \cup Ends(F) = G
    BY <1>14 DEF G, H, Headers
  <2>3. G \subseteq Nat
    BY <2>1, <2>2 DEF Spaced, Addresses
  <2>4. maps2 \in [DOMAIN maps2 -> Nat] /\ DOMAIN maps2 \subseteq Nat
    BY <1>14, RegionTypes
  <2>5. QED BY <1>4, <1>9, <1>16, <2>1, <2>2, <2>3, <2>4, InsideKept
<1>18. Marked(g.mem, F)
  <2>1. \A x \in Ends(E) : Size(g.mem, x) = 0 /\ IsFree(g.mem, x) = 0 /\ Next_(g.mem, x) = 0
    <3>1. \A x \in Ends(E) : x \in H /\ Size(h.mem, x) = 0 /\ IsFree(h.mem, x) = 0 /\ Next_(h.mem, x) = 0
      BY <1>1 DEF Marked
    <3>2. QED BY <1>11, <3>1
  <2>2. QED BY <1>12, <1>14, <2>1 DEF Marked
<1>19. Sound(g, maps2, C, F, M)
  <2> HIDE DEF N, C
  <2>1. QED BY <1>9, <1>14, <1>15, <1>17, <1>18 DEF Sound
<1>20. Served1(h, g, B, C, r, total)
  <2>1. B \subseteq C /\ r \in C /\ IsFree(g.mem, r) = 0 /\ Size(g.mem, r) >= total
    BY <1>2, <1>12
  <2>2. \A c \in B : c # r => Size(g.mem, c) = Size(h.mem, c) /\ IsFree(g.mem, c) = IsFree(h.mem, c)
    BY <1>1, <1>11
  <2>3. \A c \in C : c # r /\ c \notin B => IsFree(g.mem, c) # 0
    BY <1>12
  <2>4. QED BY <2>1, <2>2, <2>3 DEF Served1
<1>21. QED BY <1>6, <1>19, <1>20 DEF maps2

-----------------------------------------------------------------------------
\* What each path of my_free makes of a sound heap.

\* PushBinned, for the headers.
LEMMA PushedMoved ==
  ASSUME NEW h \in Heaps, NEW H, Spaced(H), NEW K \in SUBSET H, NEW b \in H, b \notin K,
         NEW L, Binned(h, K, L), IsFree(h.mem, b) = 1,
         NEW i, i = index_fastbin(Size(h.mem, b)), i # -1, NEW g, g = push(h, i, b)
  PROVE  Moved(h, g, H, b)
BY PushBinned, Zenon

\* PushBinned, for the lists.
LEMMA PushedListed ==
  ASSUME NEW h \in Heaps, NEW H, Spaced(H), NEW K \in SUBSET H, NEW b \in H, b \notin K,
         NEW L, Binned(h, K, L), IsFree(h.mem, b) = 1,
         NEW i, i = index_fastbin(Size(h.mem, b)), i # -1, NEW g, g = push(h, i, b)
  PROVE  \E M : Binned(g, K \cup {b}, M)
BY PushBinned

\* InsertBinned, for the headers.
LEMMA InsertedMoved ==
  ASSUME NEW h \in Heaps, NEW H, Spaced(H), NEW K \in SUBSET H, NEW b \in H, b \notin K,
         NEW L, Binned(h, K, L), IsFree(h.mem, b) = 1, Size(h.mem, b) # 0,
         index_fastbin(Size(h.mem, b)) = -1, NEW i, i = index_regbin(Size(h.mem, b)), NEW g, g = insert_sorted(h, i, b)
  PROVE  Moved(h, g, H, b)
BY InsertBinned, Zenon

\* InsertBinned, for the lists.
LEMMA InsertedListed ==
  ASSUME NEW h \in Heaps, NEW H, Spaced(H), NEW K \in SUBSET H, NEW b \in H, b \notin K,
         NEW L, Binned(h, K, L), IsFree(h.mem, b) = 1, Size(h.mem, b) # 0,
         index_fastbin(Size(h.mem, b)) = -1, NEW i, i = index_regbin(Size(h.mem, b)), NEW g, g = insert_sorted(h, i, b)
  PROVE  \E M : Binned(g, K \cup {b}, M)
BY InsertBinned

\* What my_free makes of the block b.
Freed(h, g, B, C, b) ==
  /\ C \subseteq B /\ b \in C /\ IsFree(g.mem, b) # 0
  /\ \A c \in C : c # b => Size(g.mem, c) = Size(h.mem, c) /\ IsFree(g.mem, c) = IsFree(h.mem, c)
  /\ \A c \in B \ C : IsFree(h.mem, c) # 0

\* The flag of the block is set first.
LEMMA FlagSet ==
  ASSUME NEW h, NEW maps, NEW B, NEW E, NEW L, Sound(h, maps, B, E, L), NEW b \in B, IsFree(h.mem, b) = 0,
         NEW g, g = SetFree(h, b, 1)
  PROVE  /\ g \in Heaps /\ Within(h, g, Headers(B, E)) /\ Binned(g, Others(B, b), L)
         /\ Freeing(h, g, Headers(B, E), b, 1)
<1> DEFINE H == Headers(B, E)
           K == Others(B, b)
<1>1. h \in Heaps /\ Binned(h, B, L) /\ Spaced(H) /\ B \subseteq H
  <2>1. H = B \cup Ends(E)
    BY DEF Headers
  <2> HIDE DEF H
  <2>2. QED BY <2>1, SoundHeaders
<1> HIDE DEF H
<1>2. Binned(h, K, L)
  <2>1. IsFree(h.mem, b) # 1
    OBVIOUS
  <2>2. QED BY <1>1, <2>1, BinnedLess DEF Others
<1>3. b \in H /\ K \subseteq H /\ b \notin K /\ 1 \in Nat
  BY <1>1 DEF Others
<1> HIDE DEF K
<1>4. Binned(g, K, L) /\ Freeing(h, g, H, b, 1) /\ Within(h, g, H)
  BY <1>1, <1>2, <1>3, SetFreeIs
<1>5. QED BY <1>4 DEF Within, H, K

\* A block went back to the list of a bin, and its flag was the only change.
LEMMA BackSound ==
  ASSUME NEW h, NEW maps, NEW B, NEW E, NEW L, Sound(h, maps, B, E, L), NEW b \in B, IsFree(h.mem, b) = 0,
         NEW g, Within(h, g, Headers(B, E)), NEW M, Binned(g, B, M),
         \A c \in Headers(B, E) : /\ Size(g.mem, c) = Size(h.mem, c) /\ IsFree(g.mem, c) = IF c = b THEN 1 ELSE IsFree(h.mem, c)
                                  /\ c # b /\ IsFree(h.mem, c) # 1 => Next_(g.mem, c) = Next_(h.mem, c)
  PROVE  Sound(g, maps, B, E, M) /\ Freed(h, g, B, B, b)
<1> DEFINE H == Headers(B, E)
<1>1. /\ h \in Heaps /\ h.mem \in Memories /\ Regions(maps, E) /\ Inside(h.mem, maps) /\ Marked(h.mem, E)
      /\ Tiles(h.mem, maps, B, E) /\ Binned(h, B, L)
      /\ Spaced(H) /\ Housed(H, maps) /\ H \subseteq Nat /\ B \subseteq H /\ Ends(E) \subseteq H /\ B \cap Ends(E) = {}
  <2>1. H = B \cup Ends(E)
    BY DEF Headers
  <2> HIDE DEF H
  <2>2. QED BY <2>1, SoundHeaders
<1> HIDE DEF H
<1>2. \A c \in H : /\ Size(g.mem, c) = Size(h.mem, c) /\ IsFree(g.mem, c) = IF c = b THEN 1 ELSE IsFree(h.mem, c)
                   /\ c # b /\ IsFree(h.mem, c) # 1 => Next_(g.mem, c) = Next_(h.mem, c)
  BY DEF H
<1>3. Tiles(g.mem, maps, B, E)
  <2>1. \A c \in B : IsFree(h.mem, c) \in {0, 1}
    BY <1>1 DEF Tiles
  <2>2. \A c \in B : Size(g.mem, c) = Size(h.mem, c) /\ IsFree(g.mem, c) \in {0, 1}
    BY <1>1, <1>2, <2>1
  <2>3. QED BY <1>1, <2>2, TilesSame
<1>4. \A e \in Ends(E) : /\ Size(g.mem, e) = Size(h.mem, e) /\ IsFree(g.mem, e) = IsFree(h.mem, e)
                         /\ Next_(g.mem, e) = Next_(h.mem, e)
  <2>1. \A e \in Ends(E) : e \in H /\ e # b /\ IsFree(h.mem, e) = 0
    BY <1>1 DEF Marked
  <2>2. QED BY <1>2, <2>1
<1>5. Within(h, g, H)
  BY DEF H
<1>6. Sound(g, maps, B, E, M)
  BY <1>1, <1>3, <1>4, <1>5, SoundWritten
<1>7. Freed(h, g, B, B, b)
  BY <1>1, <1>2 DEF Freed
<1>8. QED BY <1>6, <1>7

\* my_free, when the size has a fast bin.
LEMMA PushSound ==
  ASSUME NEW h, NEW maps, NEW B, NEW E, NEW L, Sound(h, maps, B, E, L), NEW b \in B, IsFree(h.mem, b) = 0,
         NEW i, i = index_fastbin(Size(h.mem, b)), i # -1,
         NEW g, g = push(SetPrev(SetFree(h, b, 1), b, NULL), i, b)
  PROVE  \E M : Sound(g, maps, B, E, M) /\ Freed(h, g, B, B, b)
<1> DEFINE H == Headers(B, E)
           K == Others(B, b)
           h1 == SetFree(h, b, 1)
           h2 == SetPrev(h1, b, NULL)
<1>1. Spaced(H) /\ B \subseteq H
  <2>1. H = B \cup Ends(E)
    BY DEF Headers
  <2> HIDE DEF H
  <2>2. QED BY <2>1, SoundHeaders
<1>2. h1 \in Heaps /\ Within(h, h1, H) /\ Binned(h1, K, L) /\ Freeing(h, h1, H, b, 1)
  BY FlagSet
<1> HIDE DEF h1, H
<1>3. b \in H /\ K \subseteq H /\ b \notin K /\ NULL \in Nat /\ K \cup {b} = B
  BY <1>1 DEF Others, NULL
<1> HIDE DEF K
<1>4. Preved(h1, h2, H, b, NULL) /\ Within(h1, h2, H) /\ SameHeads(h1, h2)
  BY <1>1, <1>2, <1>3, HeaderWrites
<1> HIDE DEF h2
<1>5. \A c \in H : /\ Size(h2.mem, c) = Size(h.mem, c) /\ IsFree(h2.mem, c) = IF c = b THEN 1 ELSE IsFree(h.mem, c)
                   /\ Next_(h2.mem, c) = Next_(h.mem, c)
  BY <1>2, <1>4 DEF Freeing, Preved
<1>6. Binned(h2, K, L)
  <2>1. \A c \in K : SameHeader(h1, h2, c)
    BY <1>3, <1>4 DEF Preved, SameHeader
  <2>2. \A k \in AllBins : HeadOf(h2, k) = HeadOf(h1, k)
    BY <1>4, HeadsSame
  <2>3. QED BY <1>2, <2>1, <2>2, BinnedKept
<1>7. h2 \in Heaps /\ IsFree(h2.mem, b) = 1 /\ i = index_fastbin(Size(h2.mem, b)) /\ g = push(h2, i, b)
  <2>1. IsFree(h2.mem, b) = 1 /\ Size(h2.mem, b) = Size(h.mem, b)
    BY <1>3, <1>5
  <2>2. h2 \in Heaps
    BY <1>4 DEF Within
  <2>3. QED BY <2>1, <2>2 DEF h1, h2
<1>8. Moved(h2, g, H, b)
  BY <1>1, <1>3, <1>6, <1>7, PushedMoved
<1>9. PICK M : Binned(g, B, M)
  <2>1. \E M : Binned(g, K \cup {b}, M)
    BY <1>1, <1>3, <1>6, <1>7, PushedListed
  <2>2. QED BY <1>3, <2>1
<1>10. Within(h, g, H)
  <2>1. Within(h2, g, H)
    BY <1>8 DEF Moved
  <2>2. QED BY <1>2, <1>4, <2>1, WithinTrans
<1>11. \A c \in H : /\ Size(g.mem, c) = Size(h.mem, c) /\ IsFree(g.mem, c) = IF c = b THEN 1 ELSE IsFree(h.mem, c)
                    /\ c # b /\ IsFree(h.mem, c) # 1 => Next_(g.mem, c) = Next_(h.mem, c)
  BY <1>5, <1>8 DEF Moved
<1>12. Sound(g, maps, B, E, M) /\ Freed(h, g, B, B, b)
  BY <1>9, <1>10, <1>11, BackSound DEF H
<1>13. QED BY <1>12

\* my_free, when the block behind is the sentinel.
LEMMA InsertSound ==
  ASSUME NEW h, NEW maps, NEW B, NEW E, NEW L, Sound(h, maps, B, E, L), NEW b \in B, IsFree(h.mem, b) = 0,
         index_fastbin(Size(h.mem, b)) = -1, NEW f, f = SetFree(h, b, 1), NEW i, i = index_regbin(Size(f.mem, b)),
         NEW g, g = insert_sorted(f, i, b)
  PROVE  \E M : Sound(g, maps, B, E, M) /\ Freed(h, g, B, B, b)
<1> DEFINE H == Headers(B, E)
           K == Others(B, b)
<1>1. Spaced(H) /\ B \subseteq H /\ Regions(maps, E) /\ Tiles(h.mem, maps, B, E)
  <2>1. H = B \cup Ends(E)
    BY DEF Headers
  <2> HIDE DEF H
  <2>2. QED BY <2>1, SoundHeaders
<1>2. f \in Heaps /\ Within(h, f, H) /\ Binned(f, K, L) /\ Freeing(h, f, H, b, 1)
  BY FlagSet
<1> HIDE DEF H
<1>3. b \in H /\ K \subseteq H /\ b \notin K /\ K \cup {b} = B
  BY <1>1 DEF Others
<1> HIDE DEF K
<1>4. \A c \in H : /\ Size(f.mem, c) = Size(h.mem, c) /\ IsFree(f.mem, c) = IF c = b THEN 1 ELSE IsFree(h.mem, c)
                   /\ Next_(f.mem, c) = Next_(h.mem, c)
  BY <1>2 DEF Freeing
<1>5. IsFree(f.mem, b) = 1 /\ Size(f.mem, b) = Size(h.mem, b) /\ Size(h.mem, b) # 0
  <2>1. Size(h.mem, b) \in Nat /\ Size(h.mem, b) >= 32
    BY <1>1, BlockFacts
  <2>2. QED BY <1>3, <1>4, <2>1
<1>6. index_fastbin(Size(f.mem, b)) = -1 /\ Size(f.mem, b) # 0
  BY <1>5
<1>7. Moved(f, g, H, b)
  BY <1>1, <1>2, <1>3, <1>5, <1>6, InsertedMoved
<1>8. PICK M : Binned(g, B, M)
  <2>1. \E M : Binned(g, K \cup {b}, M)
    BY <1>1, <1>2, <1>3, <1>5, <1>6, InsertedListed
  <2>2. QED BY <1>3, <2>1
<1>9. Within(h, g, H)
  <2>1. Within(f, g, H)
    BY <1>7 DEF Moved
  <2>2. QED BY <1>2, <2>1, WithinTrans
<1>10. \A c \in H : /\ Size(g.mem, c) = Size(h.mem, c) /\ IsFree(g.mem, c) = IF c = b THEN 1 ELSE IsFree(h.mem, c)
                    /\ c # b /\ IsFree(h.mem, c) # 1 => Next_(g.mem, c) = Next_(h.mem, c)
  BY <1>4, <1>7 DEF Moved
<1>11. Sound(g, maps, B, E, M) /\ Freed(h, g, B, B, b)
  BY <1>8, <1>9, <1>10, BackSound DEF H
<1>12. QED BY <1>11

\* my_free frees b, takes n behind it out of bin j, adds its size, and puts b into bin i.
Merging(h, b, f, n, j, f1, f2, i, g) ==
  /\ f = SetFree(h, b, 1)
  /\ n = b + Size(f.mem, b)
  /\ j = index_regbin(Size(f.mem, n))
  /\ f1 = remove_from_bin(f, j, n)
  /\ f2 = SetSize(f1, b, Size(f1.mem, b) + Size(f1.mem, n))
  /\ i = index_regbin(Size(f2.mem, b))
  /\ g = insert_sorted(f2, i, b)

\* my_free, when the block behind is in a regular bin.
LEMMA MergeSound ==
  ASSUME NEW h, NEW maps, NEW B, NEW E, NEW L, Sound(h, maps, B, E, L), NEW b \in B, IsFree(h.mem, b) = 0,
         NEW f, NEW n, NEW k \in Bins, Listed(L[4 + k], n), NEW j, NEW f1, NEW f2, NEW i, NEW g,
         Merging(h, b, f, n, j, f1, f2, i, g)
  PROVE  \E C, M : Sound(g, maps, C, E, M) /\ Freed(h, g, B, C, b)
<1> DEFINE H == Headers(B, E)
           K == Others(B, b)
           K2 == Others(K, n)
           C == Others(B, n)
           size == Size(h.mem, b) + Size(h.mem, n)
<1>1. /\ h \in Heaps /\ h.mem \in Memories /\ Regions(maps, E) /\ Inside(h.mem, maps) /\ Marked(h.mem, E)
      /\ Tiles(h.mem, maps, B, E) /\ Binned(h, B, L)
      /\ Spaced(H) /\ Housed(H, maps) /\ H \subseteq Nat /\ B \subseteq H /\ Ends(E) \subseteq H /\ B \cap Ends(E) = {}
  <2>1. H = B \cup Ends(E)
    BY DEF Headers
  <2> HIDE DEF H
  <2>2. QED BY <2>1, SoundHeaders
<1>2. f \in Heaps /\ Within(h, f, H) /\ Binned(f, K, L) /\ Freeing(h, f, H, b, 1)
  <2>1. f = SetFree(h, b, 1)
    BY DEF Merging
  <2>2. QED BY <2>1, FlagSet
<1>3. b \in H /\ K \subseteq H /\ b \notin K
  BY <1>1 DEF Others
<1>4. \A c \in H : /\ Size(f.mem, c) = Size(h.mem, c) /\ IsFree(f.mem, c) = IF c = b THEN 1 ELSE IsFree(h.mem, c)
                   /\ Next_(f.mem, c) = Next_(h.mem, c)
  BY <1>2 DEF Freeing
<1>5. n = b + Size(h.mem, b)
  <2>1. n = b + Size(f.mem, b)
    BY DEF Merging
  <2>2. QED BY <1>3, <1>4, <2>1
<1>6. n \in B /\ IsFree(h.mem, n) = 1 /\ BinOf(Size(h.mem, n)) = 4 + k /\ n # b
  <2>1. 4 + k \in AllBins
    BY BinsOf
  <2>2. QED BY <1>1, <2>1, ListedBin
<1>7. /\ Size(h.mem, b) \in Nat /\ Size(h.mem, b) >= 32 /\ Size(h.mem, n) \in Nat /\ Size(h.mem, n) >= 32
      /\ size \in Nat /\ size >= 64
  BY <1>1, <1>6, BlockFacts
<1>8. j = k
  <2> j = index_regbin(Size(f.mem, n))
    BY DEF Merging
  <2>1. Size(f.mem, n) = Size(h.mem, n)
    BY <1>1, <1>4, <1>6
  <2>2. index_fastbin(Size(h.mem, n)) = -1
    <3>1. k \in 0..3
      BY DEF Bins
    <3>2. BinOf(Size(h.mem, n)) \notin Bins
      BY <1>6, <3>1 DEF Bins
    <3>3. QED BY <3>2, FastIndex
  <2>3. BinOf(Size(h.mem, n)) = 4 + index_regbin(Size(h.mem, n)) /\ index_regbin(Size(h.mem, n)) \in Bins
    BY <1>7, <2>2, RegIndex
  <2>4. QED BY <1>6, <2>1, <2>3 DEF Bins
<1> HIDE DEF H, K, size
<1>r. f1 = remove_from_bin(f, j, n)
  BY DEF Merging
<1>9. Moved(f, f1, H, n)
  BY <1>1, <1>2, <1>3, <1>8, <1>r, RemovedMoved
<1>10. PICK M1 : Binned(f1, K2, M1)
  <2>1. \E M : Binned(f1, K \ {n}, M)
    BY <1>1, <1>2, <1>3, <1>8, <1>r, RemovedListed
  <2>2. QED BY <2>1 DEF Others
<1>11. f1 \in Heaps /\ Within(f, f1, H)
  BY <1>9 DEF Moved, Within
<1>12. Size(f1.mem, b) + Size(f1.mem, n) = size
  <2>1. Size(f1.mem, b) = Size(h.mem, b) /\ Size(f1.mem, n) = Size(h.mem, n)
    BY <1>1, <1>3, <1>4, <1>6, <1>9 DEF Moved
  <2>2. QED BY <2>1 DEF size
<1>13. K2 \subseteq H /\ b \notin K2 /\ K2 \cup {b} = C
  <2>1. n # b /\ b \in B
    BY <1>6
  <2>2. QED BY <1>3, <2>1 DEF Others, K
<1> HIDE DEF K2
<1>14. Binned(f2, K2, M1) /\ Sized(f1, f2, H, b, size) /\ Within(f1, f2, H)
  <2>1. f2 = SetSize(f1, b, size)
    BY <1>12 DEF Merging
  <2>2. QED BY ONLY <1>1, <1>3, <1>7, <1>10, <1>11, <1>13, <2>1, SetSizeIs
<1>15. \A c \in H : /\ Size(f2.mem, c) = IF c = b THEN size ELSE Size(h.mem, c)
                    /\ IsFree(f2.mem, c) = IF c = b THEN 1 ELSE IsFree(h.mem, c)
                    /\ c # n /\ IsFree(f.mem, c) # 1 => Next_(f2.mem, c) = Next_(h.mem, c)
  BY ONLY <1>4, <1>9, <1>14 DEF Moved, Sized
<1>16. /\ f2 \in Heaps /\ IsFree(f2.mem, b) = 1 /\ Size(f2.mem, b) = size /\ Size(f2.mem, b) # 0
       /\ index_fastbin(Size(f2.mem, b)) = -1
  <2>1. IsFree(f2.mem, b) = 1 /\ Size(f2.mem, b) = size
    BY <1>3, <1>15
  <2>2. f2 \in Heaps
    BY <1>14 DEF Within
  <2>3. size \notin {16, 24, 32, 40} /\ size # 0
    BY <1>7, SMTT(30)
  <2>4. index_fastbin(size) = -1
    BY <2>3, FastIndex
  <2>5. QED BY <2>1, <2>2, <2>3, <2>4
<1>i. g = insert_sorted(f2, i, b) /\ i = index_regbin(Size(f2.mem, b))
  BY DEF Merging
<1>17. Moved(f2, g, H, b)
  BY ONLY <1>1, <1>3, <1>13, <1>14, <1>16, <1>i, InsertedMoved
<1>18. PICK M : Binned(g, C, M)
  <2>1. \E M : Binned(g, K2 \cup {b}, M)
    BY ONLY <1>1, <1>3, <1>13, <1>14, <1>16, <1>i, InsertedListed
  <2>2. QED BY <1>13, <2>1, ZenonT(40)
<1> HIDE DEF C
<1>19. Within(h, g, H)
  <2>1. Within(f2, g, H)
    BY <1>17 DEF Moved
  <2>2. QED BY ONLY <1>2, <1>11, <1>14, <2>1, WithinTrans
<1>20. \A c \in H : /\ Size(g.mem, c) = IF c = b THEN size ELSE Size(h.mem, c)
                    /\ IsFree(g.mem, c) = IF c = b THEN 1 ELSE IsFree(h.mem, c)
                    /\ c # n /\ c # b /\ IsFree(h.mem, c) # 1 => Next_(g.mem, c) = Next_(h.mem, c)
  BY ONLY <1>4, <1>15, <1>17 DEF Moved
<1>21. Tiles(g.mem, maps, C, E)
  <2>1. \A c \in B : IsFree(h.mem, c) \in {0, 1}
    BY <1>1 DEF Tiles
  <2>2. \A c \in C : /\ Size(g.mem, c) = IF c = b THEN Size(h.mem, b) + Size(h.mem, n) ELSE Size(h.mem, c)
                     /\ IsFree(g.mem, c) \in {0, 1}
    <3>1. \A c \in C : c \in B /\ c \in H /\ c # n
      BY <1>1 DEF C, Others
    <3>2. QED BY ONLY <1>20, <2>1, <3>1 DEF size
  <2>3. C = B \ {n}
    BY DEF C, Others
  <2>4. Merges(h.mem, g.mem, B, C, b, n)
    BY ONLY <1>5, <1>6, <2>2, <2>3 DEF Merges
  <2>5. Regions(maps, E) /\ Tiles(h.mem, maps, B, E)
    BY <1>1
  <2>6. QED BY ONLY b \in B, <2>4, <2>5, TilesMerge
<1>22. \A e \in Ends(E) : /\ Size(g.mem, e) = Size(h.mem, e) /\ IsFree(g.mem, e) = IsFree(h.mem, e)
                          /\ Next_(g.mem, e) = Next_(h.mem, e)
  <2>1. \A e \in Ends(E) : e \in H /\ e # b /\ e # n /\ IsFree(h.mem, e) = 0
    BY <1>1, <1>6 DEF Marked
  <2>2. QED BY ONLY <1>20, <2>1
<1>23. Sound(g, maps, C, E, M)
  BY ONLY <1>1, <1>18, <1>19, <1>21, <1>22, SoundWritten
<1>24. Freed(h, g, B, C, b)
  <2>1. C \subseteq B /\ b \in C /\ \A c \in B \ C : c = n
    BY <1>6 DEF C, Others
  <2>2. IsFree(g.mem, b) # 0
    BY ONLY <1>3, <1>20
  <2>3. \A c \in C : c # b => Size(g.mem, c) = Size(h.mem, c) /\ IsFree(g.mem, c) = IsFree(h.mem, c)
    BY ONLY <1>1, <1>20, <2>1
  <2>4. QED BY ONLY <1>6, <2>1, <2>2, <2>3 DEF Freed
<1>25. QED BY <1>23, <1>24

-----------------------------------------------------------------------------
\* The calls, and the invariant.

\* The variables become the heap.
LEMMA BecomesIs ==
  ASSUME NEW g, g \in Heaps, Becomes(g)
  PROVE  heap' = g
BY DEF Becomes, heap, Heaps

\* A fast bin has blocks of one size.
LEMMA FastSize ==
  ASSUME NEW x \in Nat, NEW y, index_fastbin(y) # -1, BinOf(x) = index_fastbin(y)
  PROVE  x = y
<1>1. index_fastbin(x) = index_fastbin(y)
  <2>1. index_fastbin(y) \in Bins
    BY FastIndex
  <2>2. CASE index_fastbin(x) = -1
    <3>1. BinOf(x) = 4 + index_regbin(x) /\ index_regbin(x) \in Bins
      BY <2>2, RegIndex
    <3>2. QED BY <2>1, <3>1 DEF Bins
  <2>3. CASE index_fastbin(x) # -1
    BY <2>3, FastIndex
  <2>4. QED BY <2>2, <2>3
<1>2. QED BY <1>1 DEF index_fastbin

\* The block goes to the client.
LEMMA GivenOut ==
  ASSUME NEW h, NEW maps, NEW B, NEW E, NEW L, Sound(h, maps, B, E, L), NEW lv, Served(h.mem, lv, B),
         NEW b, b \in B => IsFree(h.mem, b) # 0, NEW size \in Requests, NEW total \in Nat, size + 32 <= total,
         NEW maps2, NEW g, NEW C, NEW F, NEW M, Sound(g, maps2, C, F, M), Served1(h, g, B, C, b, total),
         NEW w, w = Cleared(g, b + HEADER_SIZE, size)
  PROVE  /\ Sound(w, maps2, C, F, M) /\ Served(w.mem, With(lv, b + HEADER_SIZE, size), C)
         /\ b + HEADER_SIZE \notin DOMAIN lv
<1>1. /\ B \subseteq C /\ b \in C /\ IsFree(g.mem, b) = 0 /\ Size(g.mem, b) >= total
      /\ \A c \in B : c # b => Size(g.mem, c) = Size(h.mem, c) /\ IsFree(g.mem, c) = IsFree(h.mem, c)
      /\ \A c \in C : c # b /\ c \notin B => IsFree(g.mem, c) # 0
  BY DEF Served1
<1>2. B \subseteq Nat /\ C \subseteq Nat /\ Size(g.mem, b) \in Nat
  <2>1. B \subseteq Addresses /\ C \subseteq Addresses /\ \A c \in C : Size(g.mem, c) \in Addresses
    BY DEF Sound, Tiles
  <2>2. Addresses \subseteq Nat
    BY DEF Addresses
  <2>3. QED BY <1>1, <2>1, <2>2
<1>3. size \in Nat /\ size + HEADER_SIZE <= Size(g.mem, b)
  <2>1. size \in Nat
    BY ClientAssumption
  <2>2. QED BY <1>1, <1>2, <2>1 DEF HEADER_SIZE
<1>4. /\ Sound(w, maps2, C, F, M)
      /\ \A c \in C : Size(w.mem, c) = Size(g.mem, c) /\ IsFree(w.mem, c) = IsFree(g.mem, c)
  BY <1>1, <1>3, ClearedSound
<1>5. /\ \A c \in B : c # b => IsFree(w.mem, c) = IsFree(h.mem, c) /\ Size(w.mem, c) = Size(h.mem, c)
      /\ \A c \in C : c # b /\ c \notin B => IsFree(w.mem, c) # 0
      /\ IsFree(w.mem, b) = 0 /\ size + HEADER_SIZE <= Size(w.mem, b)
  BY <1>1, <1>3, <1>4
<1>6. Served(w.mem, With(lv, b + HEADER_SIZE, size), C) /\ b + HEADER_SIZE \notin DOMAIN lv
  <2>1. Gets(h.mem, w.mem, B, C, b, size)
    BY <1>1, <1>2, <1>5 DEF Gets
  <2>2. QED BY <2>1, ServedMore
<1>7. QED BY <1>4, <1>6

\* A request is answered with memory nobody has.
Answered(size) ==
  /\ Holds(heap', mapped', live')
  /\ \E p : p \notin DOMAIN live /\ live' = With(live, p, size)

\* The block given out answers the request.
LEMMA ReturnAnswers ==
  ASSUME NEW B, NEW E, NEW L, Sound(heap, mapped, B, E, L), Served(mem, live, B),
         NEW b, b \in B => IsFree(mem, b) # 0, NEW size \in Requests, NEW total \in Nat, size + 32 <= total,
         NEW g, NEW C, NEW F, NEW M, Sound(g, mapped', C, F, M), Served1(heap, g, B, C, b, total),
         Return(g, b, size)
  PROVE  Answered(size)
<1> DEFINE w == Cleared(g, b + HEADER_SIZE, size)
<1>1. heap.mem = mem
  BY DEF heap
<1>2. Becomes(w) /\ live' = With(live, b + HEADER_SIZE, size)
  BY DEF Return, Cleared
<1>3. w = Cleared(g, b + HEADER_SIZE, size)
  OBVIOUS
<1> HIDE DEF w
<1>4. /\ Sound(w, mapped', C, F, M) /\ Served(w.mem, With(live, b + HEADER_SIZE, size), C)
      /\ b + HEADER_SIZE \notin DOMAIN live
  BY <1>1, <1>3, GivenOut
<1>5. heap' = w
  BY <1>2, <1>4, BecomesIs DEF Sound
<1>6. QED BY <1>2, <1>4, <1>5 DEF Answered, Holds, heap

\* What is left is enough for a header, or too little to be split off.
LEMMA RestOf ==
  ASSUME NEW x \in Nat, x % 8 = 0
  PROVE  /\ x >= 16 /\ x # 16 /\ x # 24 => x >= 32
         /\ ~(x >= 16) => x \in {0, 8}
OBVIOUS

\* A block of a fast bin.
LEMMA MallocFastAnswers ==
  ASSUME Holds(heap, mapped, live), NEW size \in Requests, MallocFast(size)
  PROVE  Answered(size) /\ UNCHANGED mapped
<1> DEFINE total == Total(size)
           i == index_fastbin(total)
           b == fastbins[i]
           g == SetFree(SetNext(WithFast(heap, i, Next_(heap.mem, b)), b, NULL), b, 0)
<1>1. PICK B, E, L : Sound(heap, mapped, B, E, L) /\ Served(mem, live, B)
  BY DEF Holds, heap
<1>2. heap.mem = mem /\ heap.fast = fastbins /\ heap.reg = regbins
  BY DEF heap
<1>3. total \in Nat /\ size + 32 <= total /\ size \in Nat
  BY TotalIs
<1>4. FastBlock(total) = b /\ b # NULL /\ i # -1 /\ UNCHANGED mapped /\ Return(g, b, size)
  <2>1. FastBlock(total) # NULL /\ UNCHANGED mapped
    BY DEF MallocFast
  <2>2. i # -1 /\ FastBlock(total) = b
    BY <2>1 DEF FastBlock
  <2>3. Return(SetFree(SetNext([heap EXCEPT !.fast[index_fastbin(Total(size))] = Next_(mem, FastBlock(Total(size)))],
                               FastBlock(Total(size)), NULL), FastBlock(Total(size)), 0), FastBlock(Total(size)), size)
    BY DEF MallocFast
  <2>4. Return(SetFree(SetNext([heap EXCEPT !.fast[i] = Next_(mem, b)], b, NULL), b, 0), b, size)
    BY <2>2, <2>3
  <2>5. [heap EXCEPT !.fast[i] = Next_(mem, b)] = WithFast(heap, i, Next_(heap.mem, b))
    BY <1>2 DEF WithFast
  <2>6. QED BY <2>1, <2>2, <2>4, <2>5
<1>5. i \in Bins /\ b = heap.fast[i]
  BY <1>2, <1>4, FastIndex
<1> HIDE DEF total, i, b
<1>6. /\ b \in B /\ BinOf(Size(mem, b)) = i /\ IsFree(mem, b) = 1
      /\ \E M : Sound(g, mapped, B, E, M)
      /\ \A c \in B : Size(g.mem, c) = Size(mem, c) /\ IsFree(g.mem, c) = IF c = b THEN 0 ELSE IsFree(mem, c)
  BY <1>1, <1>2, <1>4, <1>5, FastSound
<1> HIDE DEF g
<1>7. Size(mem, b) = total
  <2>1. Size(mem, b) \in Nat
    <3>1. Size(mem, b) \in Addresses
      BY <1>1, <1>2, <1>6 DEF Sound, Tiles
    <3>2. QED BY <3>1 DEF Addresses
  <2>2. QED BY <1>4, <1>6, <2>1, FastSize DEF i
<1>8. PICK M : Sound(g, mapped', B, E, M)
  BY <1>4, <1>6
<1>9. Served1(heap, g, B, B, b, total)
  BY <1>2, <1>3, <1>6, <1>7 DEF Served1
<1>10. b \in B => IsFree(mem, b) # 0
  BY <1>6
<1>11. Answered(size)
  BY <1>1, <1>3, <1>4, <1>8, <1>9, <1>10, ReturnAnswers
<1>12. QED BY <1>4, <1>11

\* The first fit of a regular bin.
LEMMA MallocFitAnswers ==
  ASSUME Holds(heap, mapped, live), NEW size \in Requests, MallocFit(size), Leftover(size) \notin {16, 24}
  PROVE  Answered(size) /\ UNCHANGED mapped
<1> DEFINE total == Total(size)
           i == index_regbin(total)
           b == FitBlock(total)
           f == SetFree(remove_from_bin(heap, i, b), b, 0)
           rest == Size(f.mem, b) - total
           g == IF rest >= MIN_SPLIT THEN SetSize(AddLeftover(f, b + total, rest), b, total) ELSE f
<1>1. PICK B, E, L : Sound(heap, mapped, B, E, L) /\ Served(mem, live, B)
  BY DEF Holds, heap
<1>2. heap.mem = mem /\ heap.fast = fastbins /\ heap.reg = regbins
  BY DEF heap
<1>3. total \in Nat /\ total \in Addresses /\ total >= 40 /\ size + 32 <= total /\ size \in Nat
  BY TotalIs
<1>4. FastBlock(total) = NULL /\ b # NULL /\ UNCHANGED mapped /\ Return(g, b, size)
  BY DEF MallocFit
<1>5. Leftover(size) = Size(mem, b) - total
  BY <1>4 DEF Leftover
<1>6. i \in Bins /\ b = FirstFit(heap.mem, heap.reg[i], total)
  BY <1>2, <1>3, RegIndex DEF FitBlock
<1> HIDE DEF total, i, b
<1>7. Listed(L[4 + i], b) /\ b \in B /\ IsFree(heap.mem, b) = 1 /\ Size(heap.mem, b) >= total
  BY <1>1, <1>3, <1>4, <1>6, FitListed
<1>8. Size(f.mem, b) = Size(mem, b)
  <2>1. \E M : Binned(f, Others(B, b), M) /\ Taken(heap, f, Headers(B, E), b) /\ b \in B
    BY <1>1, <1>6, <1>7, TakenSound
  <2>2. b \in Headers(B, E)
    BY <1>7 DEF Headers
  <2>3. QED BY <1>2, <2>1, <2>2 DEF Taken
<1>9. rest = Size(mem, b) - total /\ rest \in Nat /\ rest % 8 = 0 /\ Size(mem, b) \in Nat
  <2>1. Size(mem, b) \in Addresses
    BY <1>1, <1>2, <1>7 DEF Sound, Tiles
  <2>2. Size(mem, b) - total \in Addresses
    BY <1>2, <1>3, <1>7, <2>1, AddressSum
  <2>3. rest = Size(mem, b) - total
    BY <1>8
  <2>4. QED BY <2>1, <2>2, <2>3 DEF Addresses
<1>10. \E C, M : Sound(g, mapped, C, E, M) /\ Served1(heap, g, B, C, b, total)
  <2>1. CASE rest >= MIN_SPLIT
    <3>1. rest >= 32 /\ total + 32 <= Size(heap.mem, b)
      <4>1. rest >= 16 /\ rest # 16 /\ rest # 24
        BY <1>5, <1>9, <2>1 DEF MIN_SPLIT
      <4>2. rest >= 32
        <5> HIDE DEF rest
        <5>1. QED BY <1>9, <4>1
      <4>3. QED BY <1>2, <1>3, <1>9, <4>2
    <3>2. g = SetSize(AddLeftover(f, b + total, Size(f.mem, b) - total), b, total)
      BY <2>1
    <3>3. total >= 32
      BY <1>3
    <3>4. f = SetFree(remove_from_bin(heap, i, b), b, 0)
      OBVIOUS
    <3> HIDE DEF f, g
    <3>5. QED BY <1>1, <1>3, <1>6, <1>7, <3>1, <3>2, <3>3, <3>4, SplitSound
  <2>2. CASE ~(rest >= MIN_SPLIT)
    <3>1. g = f
      BY <2>2
    <3>2. f = SetFree(remove_from_bin(heap, i, b), b, 0)
      OBVIOUS
    <3> HIDE DEF f, g
    <3>3. \E M : Sound(f, mapped, B, E, M) /\ Served1(heap, f, B, B, b, total)
      BY <1>1, <1>6, <1>7, <3>2, WholeSound
    <3>4. QED BY <3>1, <3>3
  <2>3. QED BY <2>1, <2>2
<1> HIDE DEF g
<1>11. PICK C, M : Sound(g, mapped', C, E, M) /\ Served1(heap, g, B, C, b, total)
  BY <1>4, <1>10
<1>12. b \in B => IsFree(mem, b) # 0
  BY <1>2, <1>7
<1>13. Answered(size)
  BY <1>1, <1>3, <1>4, <1>11, <1>12, ReturnAnswers
<1>14. QED BY <1>4, <1>13

\* A new region.
LEMMA MallocMapAnswers ==
  ASSUME Holds(heap, mapped, live), NEW size \in Requests, MallocMap(size), Leftover(size) \notin {16, 24}
  PROVE  /\ Answered(size)
         /\ \E r, len : r \notin DOMAIN mapped /\ mapped' = With(mapped, r, len)
<1> DEFINE total == Total(size)
           len == AllocSize(total)
           r == Brk
           f == Mapped(heap, r, len, total)
           rest == len - total - HEADER_SIZE
           g == IF rest >= MIN_SPLIT THEN AddLeftover(f, r + total, rest) ELSE f
<1>1. PICK B, E, L : Sound(heap, mapped, B, E, L) /\ Served(mem, live, B)
  BY DEF Holds, heap
<1>2. heap.mem = mem
  BY DEF heap
<1>3. total \in Nat /\ total \in Addresses /\ total >= 40 /\ size + 32 <= total /\ size \in Nat
  BY TotalIs
<1>4. len \in Addresses /\ len \in Nat /\ len >= total + 32
  BY <1>3, AllocSizeIs
<1>5. r \in Addresses /\ r \in Nat /\ r # 0 /\ \A q \in DOMAIN mapped : q + mapped[q] <= r
  BY <1>1, BrkIs DEF Sound
<1>6. NeedsRegion(total) /\ mapped' = With(mapped, r, len) /\ Return(g, r, size)
  BY DEF MallocMap, Mapped, Fresh
<1>7. Leftover(size) = rest
  BY <1>6 DEF Leftover, NeedsRegion
<1> HIDE DEF total, len, r
<1>8. rest = len - total - 32 /\ rest \in Nat /\ rest % 8 = 0
  <2>1. total + 32 \in Addresses
    <3>1. 32 \in Addresses
      BY DEF Addresses
    <3>2. QED BY <1>3, <3>1, AddressSum
  <2>2. len - (total + 32) \in Addresses
    BY <1>4, <2>1, AddressSum
  <2>3. rest = len - (total + 32)
    BY <1>3, <1>4 DEF HEADER_SIZE
  <2>4. rest \in Nat /\ rest % 8 = 0
    BY <2>2, <2>3 DEF Addresses
  <2>5. rest = len - total - 32
    BY DEF HEADER_SIZE
  <2>6. QED BY <2>4, <2>5
<1>9. \E C, F, M : Sound(g, With(mapped, r, len), C, F, M) /\ Served1(heap, g, B, C, r, total) /\ r \notin B
  <2>1. CASE rest >= MIN_SPLIT
    <3>1. rest >= 32
      <4>1. rest >= 16 /\ rest # 16 /\ rest # 24
        BY <1>7, <2>1 DEF MIN_SPLIT
      <4>2. rest \in Nat /\ rest % 8 = 0
        BY ONLY <1>8
      <4> HIDE DEF rest
      <4>3. QED BY ONLY <4>1, <4>2, RestOf
    <3>2. g = AddLeftover(Mapped(heap, r, len, total), r + total, rest)
      BY <2>1
    <3> HIDE DEF f, g, rest
    <3>3. QED BY <1>1, <1>3, <1>4, <1>5, <1>8, <3>1, <3>2, MapSplit
  <2>2. CASE ~(rest >= MIN_SPLIT)
    <3>1. g = Mapped(heap, r, len, total)
      BY <2>2
    <3>2. len - total - 32 \in {0, 8}
      <4>1. ~(rest >= 16)
        BY <2>2 DEF MIN_SPLIT
      <4>2. rest \in {0, 8}
        <5>1. rest \in Nat /\ rest % 8 = 0
          BY ONLY <1>8
        <5> HIDE DEF rest
        <5>2. QED BY ONLY <4>1, <5>1, RestOf
      <4>3. QED BY <1>8, <4>2
    <3> HIDE DEF f, g, rest
    <3>3. \E C, F : Sound(g, With(mapped, r, len), C, F, L) /\ Served1(heap, g, B, C, r, total) /\ r \notin B
      BY <1>1, <1>3, <1>4, <1>5, <3>1, <3>2, MapWhole
    <3>4. QED BY <3>3
  <2>3. QED BY <2>1, <2>2
<1> HIDE DEF g
<1>10. PICK C, F, M : Sound(g, mapped', C, F, M) /\ Served1(heap, g, B, C, r, total) /\ r \notin B
  BY <1>6, <1>9
<1>11. r \in B => IsFree(mem, r) # 0
  BY <1>10
<1>12. Answered(size)
  BY <1>1, <1>3, <1>6, <1>10, <1>11, ReturnAnswers
<1>13. r \notin DOMAIN mapped
  BY <1>1, <1>10 DEF Sound, Tiles
<1>14. QED BY <1>6, <1>12, <1>13

\* A block is taken back: the client has it no more.
TakenBack(p) == Holds(heap', mapped', live') /\ DOMAIN live' = DOMAIN live \ {p} /\ UNCHANGED mapped

\* SoundHeaders, for the blocks alone.
LEMMA SoundBlocks ==
  ASSUME NEW h, NEW maps, NEW B, NEW E, NEW L, Sound(h, maps, B, E, L)
  PROVE  B \subseteq Nat /\ h.mem \in Memories /\ Binned(h, B, L)
<1> DEFINE H == B \cup Ends(E)
<1>1. H = B \cup Ends(E)
  OBVIOUS
<1> HIDE DEF H
<1>2. QED BY <1>1, SoundHeaders

\* Sequences over more.
LEMMA WiderSeq ==
  ASSUME NEW S, NEW T, S \subseteq T, NEW s \in Seq(S)
  PROVE  s \in Seq(T)
<1>1. Len(s) \in Nat /\ s \in [1..Len(s) -> S]
  OBVIOUS
<1>2. s \in [1..Len(s) -> T]
  BY <1>1
<1>3. QED BY <1>1, <1>2

\* What the client has begins behind a header of a block in use.
LEMMA LiveBlock ==
  ASSUME NEW m, NEW lv, NEW B, B \subseteq Nat, Served(m, lv, B), NEW p \in DOMAIN lv, NEW b, b = Block(p)
  PROVE  b \in B /\ IsFree(m, b) = 0 /\ p = b + HEADER_SIZE
<1>1. PICK c \in B : IsFree(m, c) = 0 /\ p = c + HEADER_SIZE
  BY DEF Served
<1>2. b = c
  BY <1>1 DEF Block, HEADER_SIZE
<1>3. QED BY <1>1, <1>2

\* The block is back in a bin, and the client has it no more.
LEMMA ForgetAnswers ==
  ASSUME NEW B, NEW E, NEW L, Sound(heap, mapped, B, E, L), Served(mem, live, B),
         NEW p, NEW b, p = b + HEADER_SIZE,
         NEW g, NEW C, NEW M, Sound(g, mapped, C, E, M), Freed(heap, g, B, C, b),
         Becomes(g), Forget(p), UNCHANGED mapped
  PROVE  TakenBack(p)
<1>1. heap.mem = mem
  BY DEF heap
<1>2. B \subseteq Nat
  <2>1. B \subseteq Addresses
    BY DEF Sound, Tiles
  <2>2. QED BY <2>1 DEF Addresses
<1>3. Returns(mem, g.mem, B, C, b)
  BY <1>1, <1>2 DEF Freed, Returns
<1>4. live' = [q \in DOMAIN live \ {b + HEADER_SIZE} |-> live[q]]
  BY DEF Forget
<1>5. Served(g.mem, live', C)
  BY <1>3, <1>4, ServedLess
<1>6. heap' = g
  BY BecomesIs DEF Sound
<1>7. Holds(heap', mapped', live')
  BY <1>5, <1>6 DEF Holds
<1>8. DOMAIN live' = DOMAIN live \ {p}
  BY <1>4
<1>9. QED BY <1>7, <1>8 DEF TakenBack

\* To a fast bin.
LEMMA FreeFastAnswers ==
  ASSUME Holds(heap, mapped, live), NEW p \in DOMAIN live, FreeFast(p)
  PROVE  TakenBack(p)
<1> DEFINE b == Block(p)
           i == index_fastbin(Size(mem, b))
           g == push(SetPrev(SetFree(heap, b, 1), b, NULL), i, b)
<1>1. PICK B, E, L : Sound(heap, mapped, B, E, L) /\ Served(mem, live, B)
  BY DEF Holds, heap
<1>2. heap.mem = mem
  BY DEF heap
<1>3. i # -1 /\ Becomes(g) /\ Forget(p) /\ UNCHANGED mapped
  BY DEF FreeFast, ToFastbin
<1>4. b \in B /\ IsFree(heap.mem, b) = 0 /\ p = b + HEADER_SIZE
  <2>1. B \subseteq Nat
    BY <1>1, SoundBlocks
  <2>2. QED BY <1>1, <1>2, <2>1, LiveBlock
<1>5. i = index_fastbin(Size(heap.mem, b)) /\ g = push(SetPrev(SetFree(heap, b, 1), b, NULL), i, b)
  BY <1>2
<1> HIDE DEF b, i, g
<1>6. PICK M : Sound(g, mapped, B, E, M) /\ Freed(heap, g, B, B, b)
  BY <1>1, <1>3, <1>4, <1>5, PushSound
<1>7. QED BY <1>1, <1>3, <1>4, <1>6, ForgetAnswers

\* A block the client finds in a regular bin is on that bin's list.
LEMMA InRegbinIs ==
  ASSUME NEW B, NEW E, NEW L, Sound(heap, mapped, B, E, L), NEW n, InRegbin(n)
  PROVE  \E k \in Bins : Listed(L[4 + k], n)
<1>1. PICK k \in Bins : n \in ToSet(ListOf(mem, regbins[k]))
  BY DEF InRegbin, Bins
<1>2. 4 + k \in AllBins /\ HeadOf(heap, 4 + k) = heap.reg[k] /\ heap.reg = regbins /\ heap.mem = mem
  BY BinsOf DEF heap
<1>3. B \subseteq Nat /\ mem \in Memories /\ Binned(heap, B, L)
  BY <1>2, SoundBlocks
<1> DEFINE s == L[4 + k]
<1>4. List(heap, 4 + k, s) /\ s \in Seq(B)
  BY <1>2, <1>3 DEF Binned
<1>5. Chained(mem, s) /\ regbins[k] = At(s, 1)
  <2>1. Chained(heap.mem, s)
    BY <1>4, ListChained
  <2>2. HeadOf(heap, 4 + k) = At(s, 1)
    BY <1>4 DEF List
  <2>3. QED BY <1>2, <2>1, <2>2
<1> HIDE DEF s
<1>6. s \in Seq(Nat)
  BY <1>3, <1>4, WiderSeq
<1>7. ListOf(mem, regbins[k]) = s
  BY <1>3, <1>5, <1>6, ListOfIs
<1>8. Listed(s, n)
  <2>1. n \in ToSet(s)
    BY <1>1, <1>7
  <2>2. QED BY <2>1 DEF ToSet, Listed
<1>9. QED BY <1>8 DEF s

\* To a regular bin, merged with the block behind unless that is the sentinel.
LEMMA FreeRegularAnswers ==
  ASSUME Holds(heap, mapped, live), NEW p \in DOMAIN live, FreeRegular(p),
         IsSentinel(mem, Successor(Block(p))) \/ InRegbin(Successor(Block(p)))
  PROVE  TakenBack(p)
<1> DEFINE b == Block(p)
           f == SetFree(heap, b, 1)
           n == b + Size(f.mem, b)
           f1 == remove_from_bin(f, index_regbin(Size(f.mem, n)), n)
           f2 == Coalesced(f, b)
           g == insert_sorted(f2, index_regbin(Size(f2.mem, b)), b)
<1>1. PICK B, E, L : Sound(heap, mapped, B, E, L) /\ Served(mem, live, B)
  BY DEF Holds, heap
<1>2. heap.mem = mem
  BY DEF heap
<1>3. ~ToFastbin(b) /\ Becomes(g) /\ Forget(p) /\ UNCHANGED mapped
  BY DEF FreeRegular
<1>4. b \in B /\ IsFree(heap.mem, b) = 0 /\ p = b + HEADER_SIZE
  <2>1. B \subseteq Nat
    BY <1>1, SoundBlocks
  <2>2. QED BY <1>1, <1>2, <2>1, LiveBlock
<1> DEFINE H == Headers(B, E)
<1>5. /\ Regions(mapped, E) /\ Tiles(heap.mem, mapped, B, E) /\ H \subseteq Nat /\ B \subseteq H
      /\ (b + Size(heap.mem, b)) \in H
  <2>1. H = B \cup Ends(E)
    BY DEF Headers
  <2> HIDE DEF H
  <2>2. Regions(mapped, E) /\ Tiles(heap.mem, mapped, B, E) /\ H \subseteq Nat /\ B \subseteq H
    BY <1>1, <2>1, SoundHeaders
  <2>3. PICK r \in DOMAIN mapped : b + Size(heap.mem, b) \in B \cup {E[r]}
    BY <1>4, <2>2, BlockFacts
  <2>4. E[r] \in Ends(E)
    BY <2>2, Spacing
  <2>5. QED BY <2>1, <2>2, <2>3, <2>4
<1>6. index_fastbin(Size(heap.mem, b)) = -1
  <2>1. Size(heap.mem, b) \in Nat
    BY <1>4, <1>5, BlockFacts
  <2>2. index_fastbin(Size(heap.mem, b)) # -1 => Size(heap.mem, b) <= 40
    <3>1. index_fastbin(Size(heap.mem, b)) # -1 => Size(heap.mem, b) \in {16, 24, 32, 40}
      BY FastIndex
    <3>2. QED BY <2>1, <3>1
  <2>3. QED BY <1>2, <1>3, <2>2 DEF ToFastbin
<1>7. Freeing(heap, f, H, b, 1)
  <2> f = SetFree(heap, b, 1)
    OBVIOUS
  <2> HIDE DEF f, H
  <2>1. QED BY <1>1, <1>4, FlagSet DEF H
<1> HIDE DEF H
<1>8. Size(f.mem, b) = Size(mem, b) /\ n = Successor(b)
  <2>1. Size(f.mem, b) = Size(mem, b)
    BY <1>2, <1>4, <1>5, <1>7 DEF Freeing
  <2>2. QED BY <2>1 DEF Successor
<1>9. Size(f.mem, n) = Size(mem, n) /\ (n # b => IsFree(f.mem, n) = IsFree(mem, n)) /\ n # b
  <2>1. n \in H /\ n = b + Size(heap.mem, b)
    BY <1>2, <1>5, <1>8
  <2>2. Size(heap.mem, b) \in Nat /\ Size(heap.mem, b) >= 32 /\ b \in Nat
    BY <1>4, <1>5, BlockFacts
  <2> HIDE DEF f, n
  <2>3. n # b
    BY ONLY <2>1, <2>2
  <2>4. QED BY <1>2, <1>7, <2>1, <2>3 DEF Freeing
<1>10. \E C, M : Sound(g, mapped, C, E, M) /\ Freed(heap, g, B, C, b)
  <2>1. CASE IsSentinel(f.mem, n)
    <3>1. f2 = f
      BY <2>1 DEF Coalesced
    <3>2. \E M : Sound(g, mapped, B, E, M) /\ Freed(heap, g, B, B, b)
      <4>1. f = SetFree(heap, b, 1) /\ g = insert_sorted(f, index_regbin(Size(f.mem, b)), b)
        BY <3>1
      <4> HIDE DEF b, f, n, g
      <4>2. QED BY <1>1, <1>4, <1>6, <4>1, InsertSound
    <3>3. QED BY <3>2
  <2>2. CASE ~IsSentinel(f.mem, n)
    <3>1. ~IsSentinel(mem, n)
      BY <1>9, <2>2 DEF IsSentinel
    <3>2. InRegbin(n)
      BY <1>8, <3>1
    <3>3. PICK k \in Bins : Listed(L[4 + k], n)
      <4> HIDE DEF n
      <4>1. QED BY <1>1, <3>2, InRegbinIs
    <3>4. f2 = SetSize(f1, b, Size(f1.mem, b) + Size(f1.mem, n))
      BY <2>2 DEF Coalesced
    <3> DEFINE j == index_regbin(Size(f.mem, n))
               i == index_regbin(Size(f2.mem, b))
    <3>5. Merging(heap, b, f, n, j, f1, f2, i, g)
      <4> HIDE DEF f2
      <4>1. QED BY <3>4 DEF Merging
    <3> HIDE DEF b, f, n, j, f1, f2, i, g
    <3>6. QED BY <1>1, <1>4, <3>3, <3>5, MergeSound
  <2>3. QED BY <2>1, <2>2
<1> HIDE DEF g, b
<1>11. QED BY <1>1, <1>3, <1>4, <1>10, ForgetAnswers

\* What holds of every state: the blocks tile the regions, the bins hold the free
\* ones, the client has the others.
Blocked == Holds(heap, mapped, live)

\* There is nothing yet.
LEMMA InitBlocked ==
  ASSUME Init
  PROVE  Blocked
<1> DEFINE E == [r \in {} |-> NULL]
           L == [j \in AllBins |-> << >>]
<1>1. /\ mem = << >> /\ mapped = << >> /\ live = << >>
      /\ fastbins = [i \in Bins |-> NULL] /\ regbins = [i \in Bins |-> NULL]
  BY DEF Init, Bins
<1>2. heap = [mem |-> mem, fast |-> fastbins, reg |-> regbins]
  BY DEF heap
<1>3. DOMAIN << >> = {} /\ << >> \in [{} -> Nat] /\ << >> \in [{} -> Addresses]
  OBVIOUS
<1>4. mem \in Memories
  <2>1. {} \subseteq Addresses /\ IsFiniteSet({})
    BY FS_EmptySet
  <2>2. mem \in [{} -> Nat]
    BY <1>1, <1>3
  <2>3. QED BY <2>1, <2>2, MemoryIs
<1>5. heap \in Heaps
  <2>1. fastbins \in [Bins -> Nat] /\ regbins \in [Bins -> Nat]
    BY <1>1 DEF NULL
  <2>2. QED BY <1>2, <1>4, <2>1 DEF Heaps
<1>6. DOMAIN mapped = {} /\ DOMAIN mem = {} /\ DOMAIN live = {} /\ DOMAIN E = {}
  BY <1>1, <1>3
<1>7. Regions(mapped, E) /\ Inside(mem, mapped) /\ Marked(mem, E) /\ Tiles(mem, mapped, {}, E)
  <2>1. mapped \in [DOMAIN mapped -> Addresses] /\ E \in [DOMAIN mapped -> Addresses]
    BY <1>1, <1>3, <1>6
  <2> HIDE DEF E
  <2>2. QED BY <1>6, <2>1 DEF Regions, Inside, Marked, Tiles, Ends
<1>8. Binned(heap, {}, L)
  <2>1. L \in [AllBins -> Seq({})]
    OBVIOUS
  <2>2. ASSUME NEW j \in AllBins PROVE List(heap, j, L[j])
    <3>1. L[j] = << >> /\ Len(<< >>) = 0 /\ 1..0 = {}
      OBVIOUS
    <3>2. At(<< >>, 1) = NULL
      BY <3>1 DEF At
    <3>3. HeadOf(heap, j) = NULL
      <4>1. j < 4 => j \in Bins
        BY DEF AllBins, Bins
      <4>2. ~(j < 4) => j - 4 \in Bins
        BY DEF AllBins, Bins
      <4>3. QED BY <1>1, <1>2, <4>1, <4>2 DEF HeadOf
    <3> HIDE DEF L
    <3>4. QED BY <3>1, <3>2, <3>3 DEF List
  <2> HIDE DEF L
  <2>3. QED BY <2>1, <2>2 DEF Binned
<1>9. Served(mem, live, {})
  BY <1>6 DEF Served
<1> HIDE DEF E, L
<1>10. Sound(heap, mapped, {}, E, L) /\ Served(heap.mem, live, {})
  BY <1>2, <1>5, <1>7, <1>8, <1>9 DEF Sound
<1>11. QED BY <1>10 DEF Blocked, Holds

\* What a step of the careful client is, seen from outside.
Outcome ==
  \/ \E size \in Requests : /\ \E p : p \notin DOMAIN live /\ live' = With(live, p, size)
                            /\ \/ UNCHANGED mapped
                               \/ \E r, len : r \notin DOMAIN mapped /\ mapped' = With(mapped, r, len)
  \/ \E p \in DOMAIN live : Forget(p) /\ UNCHANGED mapped
  \/ UNCHANGED vars

\* Every step of the careful client, and of the allocator, keeps it.
LEMMA StepBlocked ==
  ASSUME Blocked, [CarefulNext]_vars
  PROVE  Blocked' /\ Outcome
<1>0. Holds(heap, mapped, live)
  BY DEF Blocked
<1>1. ASSUME NEW size \in Requests, CarefulMalloc(size)
      PROVE  Blocked' /\ Outcome
  <2>1. Leftover(size) \notin {16, 24} /\ Malloc(size)
    BY <1>1 DEF CarefulMalloc
  <2>2. CASE MallocFast(size)
    <3>1. Answered(size) /\ UNCHANGED mapped
      BY <1>0, <2>2, MallocFastAnswers
    <3>2. QED BY <3>1 DEF Answered, Outcome, Blocked
  <2>3. CASE MallocFit(size)
    <3>1. Answered(size) /\ UNCHANGED mapped
      BY <1>0, <2>1, <2>3, MallocFitAnswers
    <3>2. QED BY <3>1 DEF Answered, Outcome, Blocked
  <2>4. CASE MallocMap(size)
    <3>1. Answered(size) /\ \E r, len : r \notin DOMAIN mapped /\ mapped' = With(mapped, r, len)
      BY <1>0, <2>1, <2>4, MallocMapAnswers
    <3>2. QED BY <3>1 DEF Answered, Outcome, Blocked
  <2>5. CASE MallocFails(size)
    <3>1. UNCHANGED vars
      BY <2>5 DEF MallocFails
    <3>2. heap' = heap /\ mapped' = mapped /\ live' = live
      BY <3>1 DEF vars, heap
    <3>3. QED BY <1>0, <3>1, <3>2 DEF Outcome, Blocked
  <2>6. QED BY <2>1, <2>2, <2>3, <2>4, <2>5 DEF Malloc
<1>2. ASSUME NEW p \in DOMAIN live, CarefulFree(p)
      PROVE  Blocked' /\ Outcome
  <2>1. /\ ToFastbin(Block(p)) \/ IsSentinel(mem, Successor(Block(p))) \/ InRegbin(Successor(Block(p)))
        /\ FreeFast(p) \/ FreeRegular(p)
    BY <1>2 DEF CarefulFree, Free
  <2>2. CASE FreeFast(p)
    <3>1. TakenBack(p) /\ Forget(p)
      BY <1>0, <1>2, <2>2, FreeFastAnswers DEF FreeFast
    <3>2. QED BY <1>2, <3>1 DEF TakenBack, Outcome, Blocked
  <2>3. CASE FreeRegular(p)
    <3>1. ~ToFastbin(Block(p)) /\ Forget(p)
      BY <2>3 DEF FreeRegular
    <3>2. TakenBack(p)
      BY <1>0, <1>2, <2>1, <2>3, <3>1, FreeRegularAnswers
    <3>3. QED BY <1>2, <3>1, <3>2 DEF TakenBack, Outcome, Blocked
  <2>4. QED BY <2>1, <2>2, <2>3
<1>3. CASE UNCHANGED vars
  <2>1. heap' = heap /\ mapped' = mapped /\ live' = live
    BY <1>3 DEF vars, heap
  <2>2. QED BY <1>0, <1>3, <2>1 DEF Outcome, Blocked
<1>4. QED BY <1>1, <1>2, <1>3 DEF CarefulNext

\* The state stays sound while the client is careful (my_malloc and my_free, lines 147-261):
\* this is the inductive invariant.
THEOREM AlwaysBlocked == CarefulSpec => []Blocked
<1>1. Init => Blocked
  BY InitBlocked
<1>2. Blocked /\ [CarefulNext]_vars => Blocked'
  BY StepBlocked
<1>3. QED BY <1>1, <1>2, PTL DEF CarefulSpec

-----------------------------------------------------------------------------
\* What follows from the invariant.

\* What is known of a sound state, over its variables.
LEMMA StateFacts ==
  ASSUME NEW B, NEW E, NEW L, Sound(heap, mapped, B, E, L)
  PROVE  /\ B \subseteq Nat /\ mem \in Memories /\ Binned(heap, B, L) /\ Regions(mapped, E)
         /\ Inside(mem, mapped) /\ Marked(mem, E) /\ Tiles(mem, mapped, B, E) /\ heap.mem = mem
<1>1. heap.mem = mem
  BY DEF heap
<1>2. QED BY <1>1, SoundBlocks DEF Sound

\* The bytes the client has lie between the header of their block and the next one.
LEMMA LiveInBlock ==
  ASSUME NEW B, NEW E, NEW L, Sound(heap, mapped, B, E, L), Served(mem, live, B), NEW p \in DOMAIN live
  PROVE  /\ Block(p) \in B /\ IsFree(mem, Block(p)) = 0 /\ Block(p) \in Nat /\ p = Block(p) + 32 /\ p \in Nat
         /\ live[p] \in Requests /\ live[p] \in Nat /\ live[p] # 0
         /\ Size(mem, Block(p)) \in Nat /\ p + live[p] <= Block(p) + Size(mem, Block(p))
<1> DEFINE b == Block(p)
<1>1. B \subseteq Nat /\ Tiles(mem, mapped, B, E) /\ Regions(mapped, E)
  BY StateFacts
<1>2. b = Block(p)
  OBVIOUS
<1>3. b \in B /\ IsFree(mem, b) = 0 /\ p = b + HEADER_SIZE
  BY <1>1, LiveBlock
<1> HIDE DEF b
<1>4. live[p] \in Requests /\ live[p] + HEADER_SIZE <= Size(mem, b)
  BY <1>3 DEF Served
<1>5. live[p] \in Nat /\ live[p] # 0
  BY <1>4, ClientAssumption
<1>6. b \in Nat /\ Size(mem, b) \in Nat
  BY <1>1, <1>3, BlockFacts
<1>7. QED BY <1>2, <1>3, <1>4, <1>5, <1>6 DEF HEADER_SIZE

\* What the client has lies in blocks, which do not overlap.
LEMMA BlockedDisjoint == Blocked => LiveDisjoint
<1> SUFFICES ASSUME Blocked, NEW p \in DOMAIN live, NEW q \in DOMAIN live, p # q
             PROVE  p + live[p] <= q \/ q + live[q] <= p
  BY DEF LiveDisjoint
<1>1. PICK B, E, L : Sound(heap, mapped, B, E, L) /\ Served(mem, live, B)
  BY DEF Blocked, Holds, heap
<1>2. Tiles(mem, mapped, B, E)
  BY <1>1, StateFacts
<1> DEFINE b == Block(p)
           c == Block(q)
<1>3. /\ b \in B /\ b \in Nat /\ p = b + 32 /\ live[p] \in Nat /\ Size(mem, b) \in Nat
      /\ p + live[p] <= b + Size(mem, b)
  BY <1>1, LiveInBlock
<1>4. /\ c \in B /\ c \in Nat /\ q = c + 32 /\ live[q] \in Nat /\ Size(mem, c) \in Nat
      /\ q + live[q] <= c + Size(mem, c)
  BY <1>1, LiveInBlock
<1> HIDE DEF b, c
<1>5. b < c => b + Size(mem, b) <= c
  BY <1>2, <1>3, <1>4 DEF Tiles
<1>6. c < b => c + Size(mem, c) <= b
  BY <1>2, <1>3, <1>4 DEF Tiles
<1>7. QED BY <1>3, <1>4, <1>5, <1>6

\* No two allocations of the client overlap (my_malloc, my_free, lines 147-261).
THEOREM AllocationsDisjoint == CarefulSpec => []LiveDisjoint
BY AlwaysBlocked, BlockedDisjoint, PTL

\* The words behind the end of the walk are 0, wherever the sentinel is read.
LEMMA BlockedSentinel == Blocked => SentinelAtTail
<1> SUFFICES ASSUME Blocked, NEW r \in DOMAIN mapped
             PROVE  IsSentinel(mem, r + mapped[r] - HEADER_SIZE)
  BY DEF SentinelAtTail
<1>1. PICK B, E, L : Sound(heap, mapped, B, E, L)
  BY DEF Blocked, Holds
<1>2. Regions(mapped, E) /\ Marked(mem, E)
  BY <1>1, StateFacts
<1>3. E[r] + 32 \in {r + mapped[r], r + mapped[r] - 8} /\ E[r] \in Nat /\ r \in Nat /\ mapped[r] \in Nat
  <2>1. E[r] + HEADER_SIZE \in {r + mapped[r], r + mapped[r] - 8}
    BY <1>2 DEF Regions
  <2>2. QED BY <1>2, <2>1, RegionFacts DEF HEADER_SIZE
<1>4. Word(mem, E[r]) = 0 /\ Word(mem, E[r] + 8) = 0 /\ Word(mem, E[r] + 16) = 0
  <2>1. E[r] \in Ends(E)
    BY <1>2 DEF Regions, Ends
  <2>2. QED BY <1>2, <2>1 DEF Marked, Size, IsFree, Next_
<1> DEFINE e == r + mapped[r] - HEADER_SIZE
<1>5. e = E[r] \/ e = E[r] + 8
  BY <1>3 DEF HEADER_SIZE
<1>6. Word(mem, e) = 0 /\ Word(mem, e + 8) = 0
  <2> HIDE DEF e
  <2>1. CASE e = E[r]
    BY <1>4, <2>1
  <2>2. CASE e = E[r] + 8
    <3>1. e + 8 = E[r] + 16
      BY <1>3, <2>2
    <3>2. QED BY <1>4, <2>2, <3>1
  <2>3. QED BY <1>5, <2>1, <2>2
<1>7. QED BY <1>6 DEF IsSentinel, Size, IsFree

\* The header that my_free tells the end of a region by stays size 0 and not free
\* (request_from_os, lines 107-110, and what my_malloc and my_free do next to it).
THEOREM SentinelsStay == CarefulSpec => []SentinelAtTail
BY AlwaysBlocked, BlockedSentinel, PTL

-----------------------------------------------------------------------------
\* The lists are what the bins' functions find.
LEMMA ListsAre ==
  ASSUME NEW B, NEW E, NEW L, Sound(heap, mapped, B, E, L), NEW i \in 0..3
  PROVE  /\ Fast(i) = L[i] /\ List(heap, i, L[i]) /\ L[i] \in Seq(B)
         /\ Regular(i) = L[4 + i] /\ List(heap, 4 + i, L[4 + i]) /\ L[4 + i] \in Seq(B)
         /\ i \in AllBins /\ 4 + i \in AllBins
<1>1. i \in Bins
  BY DEF Bins
<1>2. B \subseteq Nat /\ mem \in Memories /\ Binned(heap, B, L) /\ heap.mem = mem
  BY StateFacts
<1>3. i \in AllBins /\ 4 + i \in AllBins /\ HeadOf(heap, i) = fastbins[i] /\ HeadOf(heap, 4 + i) = regbins[i]
  BY <1>1, BinsOf DEF heap
<1>4. ASSUME NEW j \in AllBins
      PROVE  List(heap, j, L[j]) /\ L[j] \in Seq(B) /\ ListOf(mem, HeadOf(heap, j)) = L[j]
  <2> DEFINE s == L[j]
  <2>1. List(heap, j, s) /\ s \in Seq(B)
    BY <1>2 DEF Binned
  <2> HIDE DEF s
  <2>2. Chained(mem, s)
    BY <1>2, <2>1, ListChained
  <2>3. HeadOf(heap, j) = At(s, 1)
    BY <2>1 DEF List
  <2>4. s \in Seq(Nat)
    BY <1>2, <2>1, WiderSeq
  <2>5. ListOf(mem, At(s, 1)) = s
    BY <1>2, <2>2, <2>4, ListOfIs
  <2>6. QED BY <2>1, <2>3, <2>5 DEF s
<1>5. QED BY <1>3, <1>4 DEF Fast, Regular

\* The bin of a size.
LEMMA BinIs ==
  ASSUME NEW size \in Nat, NEW i \in 0..3
  PROVE  /\ BinOf(size) = i => index_fastbin(size) = i
         /\ BinOf(size) = 4 + i => index_regbin(size) = i
<1>1. index_fastbin(size) # -1 => index_fastbin(size) \in Bins /\ BinOf(size) = index_fastbin(size)
  BY FastIndex
<1>2. index_fastbin(size) = -1 => index_regbin(size) \in Bins /\ BinOf(size) = 4 + index_regbin(size)
  BY RegIndex
<1>3. QED BY <1>1, <1>2 DEF Bins

\* The lists L are what the bins hold.
LEMMA BlockedSorted == Blocked => BinsSorted
<1> SUFFICES ASSUME Blocked PROVE BinsSorted
  OBVIOUS
<1>1. PICK B, E, L : Sound(heap, mapped, B, E, L)
  BY DEF Blocked, Holds
<1>2. heap.mem = mem /\ mem \in Memories
  BY <1>1, StateFacts
<1>3. ASSUME NEW i \in 0..3, NEW k \in 1..Len(Regular(i))
      PROVE  LET b == Regular(i)[k]
             IN  /\ index_regbin(Size(mem, b)) = i
                 /\ Prev(mem, b) = IF k = 1 THEN NULL ELSE Regular(i)[k - 1]
                 /\ k > 1 => Size(mem, Regular(i)[k - 1]) <= Size(mem, b)
  <2> DEFINE s == L[4 + i]
  <2>1. Regular(i) = s /\ List(heap, 4 + i, s) /\ s \in Seq(B)
    BY <1>1, ListsAre
  <2> HIDE DEF s
  <2>2. Len(s) \in Nat /\ k \in 1..Len(s) /\ k \in Nat /\ 4 + i >= 4
    BY <2>1
  <2>3. BinOf(Size(mem, s[k])) = 4 + i /\ Prev(mem, s[k]) = At(s, k - 1)
    BY <1>2, <2>1, <2>2 DEF List
  <2>4. index_regbin(Size(mem, s[k])) = i
    <3>1. Size(mem, s[k]) \in Nat
      BY <1>2, MemoryFacts DEF Size
    <3>2. QED BY <2>3, <3>1, BinIs
  <2>5. At(s, k - 1) = IF k = 1 THEN NULL ELSE s[k - 1]
    BY <2>2 DEF At
  <2>6. k > 1 => Size(mem, s[k - 1]) <= Size(mem, s[k])
    <3> SUFFICES ASSUME k > 1 PROVE Size(mem, s[k - 1]) <= Size(mem, s[k])
      OBVIOUS
    <3>1. k - 1 \in 1..Len(s) /\ k - 1 < k
      BY <2>2
    <3>2. QED BY <1>2, <2>1, <2>2, <3>1 DEF List
  <2>7. QED BY <2>1, <2>3, <2>4, <2>5, <2>6
<1>4. ASSUME NEW i \in 0..3, NEW k \in 1..Len(Fast(i))
      PROVE  index_fastbin(Size(mem, Fast(i)[k])) = i
  <2> DEFINE s == L[i]
  <2>1. Fast(i) = s /\ List(heap, i, s)
    BY <1>1, ListsAre
  <2> HIDE DEF s
  <2>2. BinOf(Size(mem, s[k])) = i
    BY <1>2, <1>4, <2>1 DEF List
  <2>3. Size(mem, s[k]) \in Nat
    BY <1>2, MemoryFacts DEF Size
  <2>4. QED BY <1>4, <2>1, <2>2, <2>3, BinIs
<1>5. QED BY <1>3, <1>4 DEF BinsSorted

\* The bins keep their order and their links (insert_sorted and remove_from_bin, lines 41-94).
THEOREM BinsStaySorted == CarefulSpec => []BinsSorted
BY AlwaysBlocked, BlockedSorted, PTL

\* The walk over blocks that BlocksOf takes.
Strides(m, f) == f = [b \in Nat |-> IF Size(m, b) = 0 THEN <<b>> ELSE <<b>> \o f[b + Size(m, b)]]

\* It exists where memory has an end.
LEMMA StridesExist ==
  ASSUME NEW m \in Memories, NEW n \in Nat, \A a \in DOMAIN m : a < n
  PROVE  \E f : Strides(m, f)
<1> DEFINE Stop == {b \in Nat : Size(m, b) = 0}
           a == [b \in Nat |-> <<b>>]
           nx == [b \in Nat |-> b + Size(m, b)]
           rank == [b \in Nat |-> IF b < n THEN n - b ELSE 0]
<1>1. \A b : Size(m, b) \in Nat
  BY MemoryFacts DEF Size
<1>2. rank \in [Nat -> Nat] /\ nx \in [Nat -> Nat]
  <2>1. \A b \in Nat : (IF b < n THEN n - b ELSE 0) \in Nat
    OBVIOUS
  <2>2. \A b \in Nat : b + Size(m, b) \in Nat
    BY <1>1
  <2>3. QED BY <2>1, <2>2
<1>3. \A b \in Nat : b \notin Stop => rank[nx[b]] < rank[b]
  <2> SUFFICES ASSUME NEW b \in Nat, b \notin Stop PROVE rank[nx[b]] < rank[b]
    OBVIOUS
  <2>1. Size(m, b) \in Nat /\ Size(m, b) # 0
    BY <1>1
  <2>2. b < n
    BY <2>1 DEF Size, Word
  <2> DEFINE c == b + Size(m, b)
  <2>3. c \in Nat /\ b < c /\ nx[b] = c
    BY <2>1
  <2> HIDE DEF c, nx
  <2>4. rank[b] = n - b /\ rank[c] = IF c < n THEN n - c ELSE 0
    BY <2>2, <2>3
  <2> HIDE DEF rank
  <2>5. QED BY <2>2, <2>3, <2>4
<1>4. PICK f : Solves(f, Nat, Stop, a, nx)
  <2> HIDE DEF Stop, a, nx, rank
  <2>1. QED BY <1>2, <1>3, Recursion
<1>5. \A b \in Nat : Step(f, Stop, a, nx, b) = IF Size(m, b) = 0 THEN <<b>> ELSE <<b>> \o f[b + Size(m, b)]
  BY DEF Step
<1>6. f = [b \in Nat |-> Step(f, Stop, a, nx, b)]
  BY <1>4 DEF Solves
<1>7. f = [b \in Nat |-> IF Size(m, b) = 0 THEN <<b>> ELSE <<b>> \o f[b + Size(m, b)]]
  <2> HIDE DEF Stop, a, nx
  <2>1. QED BY <1>5, <1>6
<1>8. QED BY <1>7 DEF Strides

\* BlocksOf is the value of such a walk.
LEMMA BlocksOfStrides ==
  ASSUME NEW r, \E f : Strides(mem, f)
  PROVE  \E f : Strides(mem, f) /\ BlocksOf(r) = f[r]
<1> DEFINE W(f) == f = [b \in Nat |-> IF Size(mem, b) = 0 THEN <<b>> ELSE <<b>> \o f[b + Size(mem, b)]]
           from == CHOOSE f : W(f)
<1>1. BlocksOf(r) = from[r]
  BY DEF BlocksOf, Successor
<1>2. \E f : W(f)
  BY DEF Strides
<1>3. W(from)
  BY <1>2
<1> HIDE DEF from
<1>4. QED BY <1>1, <1>3 DEF Strides

\* t goes from b over every block of B to the end e.
Row(t, B, b, e) ==
  /\ t \in Seq(Nat) /\ Len(t) # 0 /\ t[Len(t)] = e
  /\ \A k \in 1..Len(t) - 1 : t[k] \in B /\ b <= t[k] /\ t[k] < e
  /\ \A c \in B : b <= c /\ c < e => \E k \in 1..Len(t) - 1 : t[k] = c

\* One block further to the front.
LEMMA RowMore ==
  ASSUME NEW B, B \subseteq Nat, NEW e \in Nat, NEW b \in B, b < e, NEW n \in Nat, b < n, n <= e,
         \A c \in B : b < c => n <= c, NEW t, Row(t, B, n, e), NEW u, u = <<b>> \o t
  PROVE  Row(u, B, b, e)
<1>1. t \in Seq(Nat) /\ Len(t) \in Nat /\ Len(t) # 0 /\ t[Len(t)] = e /\ b \in Nat
  BY DEF Row
<1>2. u \in Seq(Nat) /\ Len(u) = Len(t) + 1 /\ u[1] = b /\ \A k \in 1..Len(t) : u[k + 1] = t[k]
  BY <1>1
<1>3. u[Len(u)] = e
  <2>1. Len(t) \in 1..Len(t)
    BY <1>1
  <2>2. QED BY <1>1, <1>2, <2>1
<1>4. ASSUME NEW k \in 1..Len(u) - 1 PROVE u[k] \in B /\ b <= u[k] /\ u[k] < e
  <2>1. CASE k = 1
    BY <1>1, <1>2, <2>1
  <2>2. CASE k # 1
    <3>1. k - 1 \in 1..Len(t) - 1 /\ k - 1 \in 1..Len(t) /\ (k - 1) + 1 = k
      BY <1>1, <1>2, <2>2
    <3>2. u[k] = t[k - 1]
      BY <1>2, <3>1
    <3>3. t[k - 1] \in B /\ n <= t[k - 1] /\ t[k - 1] < e
      BY <3>1 DEF Row
    <3>4. t[k - 1] \in Nat
      BY <3>3
    <3>5. b <= t[k - 1]
      BY <1>1, <3>3, <3>4
    <3>6. QED BY <3>2, <3>3, <3>5
  <2>3. QED BY <2>1, <2>2
<1>5. ASSUME NEW c \in B, b <= c, c < e PROVE \E k \in 1..Len(u) - 1 : u[k] = c
  <2>1. CASE c = b
    <3>1. 1 \in 1..Len(u) - 1
      BY <1>1, <1>2
    <3>2. QED BY <1>2, <2>1, <3>1
  <2>2. CASE c # b
    <3>1. n <= c
      BY <1>1, <1>5, <2>2
    <3>2. PICK k \in 1..Len(t) - 1 : t[k] = c
      BY <1>5, <3>1 DEF Row
    <3>3. k + 1 \in 1..Len(u) - 1 /\ k \in 1..Len(t)
      BY <1>1, <1>2
    <3>4. QED BY <1>2, <3>2, <3>3
  <2>3. QED BY <2>1, <2>2
<1>6. u \in Seq(Nat) /\ Len(u) # 0
  BY <1>1, <1>2
<1>7. QED BY ONLY <1>3, <1>4, <1>5, <1>6 DEF Row

\* The end of the region alone.
LEMMA RowLast ==
  ASSUME NEW B, B \subseteq Nat, NEW e \in Nat, NEW t, t = <<e>>
  PROVE  Row(t, B, e, e)
<1>1. t \in Seq(Nat) /\ Len(t) = 1 /\ t[1] = e
  OBVIOUS
<1>2. 1..Len(t) - 1 = {}
  BY <1>1
<1>3. \A c \in B : ~(e <= c /\ c < e)
  OBVIOUS
<1>4. QED BY <1>1, <1>2, <1>3 DEF Row

\* The walk from a block of a region goes over all that follow.
LEMMA WalkIsRow ==
  ASSUME NEW maps, NEW m, NEW B, NEW E, Regions(maps, E), Tiles(m, maps, B, E), Marked(m, E),
         NEW f, Strides(m, f), NEW r \in DOMAIN maps,
         NEW b \in B \cup {E[r]}, r <= b, b <= E[r]
  PROVE  Row(f[b], B, b, E[r])
<1> DEFINE e == E[r]
           X == {c \in B \cup {e} : r <= c /\ c <= e}
<1>1. e \in Nat /\ r \in Nat /\ B \subseteq Nat /\ maps[r] \in Nat /\ e < r + maps[r]
  <2>1. B \subseteq Nat
    BY DEF Tiles, Addresses
  <2>2. QED BY <2>1, RegionFacts
<1>2. Size(m, e) = 0
  <2>1. e \in Ends(E)
    BY DEF Regions, Ends
  <2>2. QED BY <2>1 DEF Marked
<1>3. f[e] = <<e>>
  BY <1>1, <1>2 DEF Strides
<1>4. ASSUME NEW c \in X, c # e
      PROVE  /\ c \in B /\ c \in Nat /\ Size(m, c) \in Nat /\ Size(m, c) >= 32 /\ c < e
             /\ c + Size(m, c) \in X /\ f[c] = <<c>> \o f[c + Size(m, c)]
             /\ \A d \in B : c < d => c + Size(m, c) <= d
  <2>1. c \in B /\ r <= c /\ c <= e /\ c \in Nat
    BY <1>1, <1>4
  <2>2. Size(m, c) \in Nat /\ Size(m, c) >= 32
    BY <2>1, BlockFacts
  <2>3. c < r + maps[r] /\ c < e
    BY <1>1, <1>4, <2>1
  <2>4. c + Size(m, c) <= e /\ c + Size(m, c) \in B \cup {e}
    BY <2>1, <2>3, OneHome
  <2>5. c + Size(m, c) \in X
    BY <1>1, <2>1, <2>2, <2>4
  <2>6. f[c] = <<c>> \o f[c + Size(m, c)]
    <3>1. \A x \in Nat : f[x] = IF Size(m, x) = 0 THEN <<x>> ELSE <<x>> \o f[x + Size(m, x)]
      BY DEF Strides
    <3>2. c \in Nat /\ Size(m, c) # 0
      BY <2>1, <2>2
    <3>3. QED BY ONLY <3>1, <3>2
  <2>7. \A d \in B : c < d => c + Size(m, c) <= d
    BY <2>1 DEF Tiles
  <2>8. QED BY <2>1, <2>2, <2>3, <2>5, <2>6, <2>7
<1>5. b \in X
  OBVIOUS
<1> HIDE DEF e
<1> DEFINE S == {n \in Nat : \A c \in X : e - c <= n => Row(f[c], B, c, e)}
<1>6. 0 \in S
  <2> SUFFICES ASSUME NEW c \in X, e - c <= 0 PROVE Row(f[c], B, c, e)
    OBVIOUS
  <2>1. c \in Nat /\ c <= e
    BY <1>1
  <2>2. c = e
    BY ONLY <1>1, <2>1, e - c <= 0
  <2>3. QED BY <1>1, <1>3, <2>2, RowLast
<1>7. ASSUME NEW n \in Nat, n \in S PROVE n + 1 \in S
  <2> SUFFICES ASSUME NEW c \in X, e - c <= n + 1 PROVE Row(f[c], B, c, e)
    OBVIOUS
  <2>1. CASE c = e
    BY <1>1, <1>3, <2>1, RowLast
  <2>2. CASE c # e
    <3> DEFINE d == c + Size(m, c)
    <3>1. /\ c \in B /\ c \in Nat /\ Size(m, c) \in Nat /\ Size(m, c) >= 32 /\ c < e
          /\ d \in X /\ f[c] = <<c>> \o f[d]
          /\ \A x \in B : c < x => d <= x
      BY <1>4, <2>2
    <3>2. d \in Nat /\ c < d /\ d <= e
      BY <3>1
    <3>3. e - d <= n
      BY ONLY <1>1, <3>1, e - c <= n + 1, n \in Nat
    <3> HIDE DEF d
    <3>4. Row(f[d], B, d, e)
      BY <1>7, <3>1, <3>3
    <3> HIDE DEF X, S
    <3>5. QED BY <1>1, <3>1, <3>2, <3>4, RowMore
  <2>3. QED BY <2>1, <2>2
<1>8. \A n \in Nat : n \in S
  <2> HIDE DEF S
  <2>1. QED BY <1>6, <1>7, AllNaturals
<1>9. e - b \in Nat /\ e - b <= e - b
  <2>1. b \in Nat /\ b <= e
    BY <1>1, <1>5
  <2>2. QED BY <1>1, <2>1
<1>10. Row(f[b], B, b, e)
  BY <1>5, <1>8, <1>9
<1>11. QED BY <1>10 DEF e

\* The last of a row is the end, the others are the blocks.
LEMMA RowEnds ==
  ASSUME NEW B, NEW b, NEW e, NEW t, Row(t, B, b, e)
  PROVE  Last(t) = e /\ ToSet(Front(t)) = {c \in B : b <= c /\ c < e}
<1>1. t \in Seq(Nat) /\ Len(t) \in Nat /\ Len(t) # 0 /\ t[Len(t)] = e
  BY DEF Row
<1>2. Last(t) = e
  BY <1>1 DEF Last
<1> DEFINE n == Len(t) - 1
           s == Front(t)
<1>3. n \in Nat /\ n <= Len(t)
  BY <1>1
<1>4. s = SubSeq(t, 1, n)
  BY DEF Front
<1> HIDE DEF s, n
<1>5. s \in Seq(Nat) /\ Len(s) = n /\ \A k \in 1..n : s[k] = t[k]
  BY <1>1, <1>3, <1>4
<1>6. ToSet(s) = {t[k] : k \in 1..n}
  <2>1. DOMAIN s = 1..n
    BY <1>5
  <2>2. QED BY <1>5, <2>1 DEF ToSet
<1>7. \A k \in 1..n : t[k] \in B /\ b <= t[k] /\ t[k] < e
  BY DEF Row, n
<1>8. \A c \in B : b <= c /\ c < e => \E k \in 1..n : t[k] = c
  BY DEF Row, n
<1>9. {t[k] : k \in 1..n} = {c \in B : b <= c /\ c < e}
  BY <1>7, <1>8
<1>10. QED BY <1>2, <1>6, <1>9 DEF s

\* BlocksOf goes over the blocks of the region and ends at its end.
LEMMA BlocksOfAre ==
  ASSUME NEW B, NEW E, NEW L, Sound(heap, mapped, B, E, L), NEW r \in DOMAIN mapped
  PROVE  Last(BlocksOf(r)) = E[r] /\ ToSet(Front(BlocksOf(r))) = {c \in B : r <= c /\ c < E[r]}
<1>1. /\ B \subseteq Nat /\ mem \in Memories /\ Regions(mapped, E)
      /\ Inside(mem, mapped) /\ Marked(mem, E) /\ Tiles(mem, mapped, B, E)
  BY StateFacts
<1>2. Brk \in Nat /\ \A q \in DOMAIN mapped : q + mapped[q] <= Brk
  BY <1>1, BrkIs
<1>3. \A a \in DOMAIN mem : a < Brk
  <2> SUFFICES ASSUME NEW a \in DOMAIN mem PROVE a < Brk
    OBVIOUS
  <2>1. PICK q \in DOMAIN mapped : q <= a /\ a < q + mapped[q]
    BY <1>1 DEF Inside
  <2>2. q \in Nat /\ mapped[q] \in Nat
    BY <1>1, RegionFacts
  <2>3. a \in Nat
    BY <1>1, MemoryFacts DEF Addresses
  <2>4. q + mapped[q] <= Brk
    BY <1>2
  <2>5. QED BY <1>2, <2>1, <2>2, <2>3, <2>4
<1>4. PICK f : Strides(mem, f) /\ BlocksOf(r) = f[r]
  BY <1>1, <1>2, <1>3, StridesExist, BlocksOfStrides
<1>5. r \in B /\ r <= r /\ r <= E[r]
  <2>1. r \in B
    BY <1>1 DEF Tiles
  <2>2. r \in Nat /\ E[r] \in Nat /\ r < E[r]
    BY <1>1, RegionFacts
  <2>3. QED BY <2>1, <2>2
<1>6. Row(f[r], B, r, E[r])
  BY <1>1, <1>4, <1>5, WalkIsRow
<1>7. QED BY <1>4, <1>6, RowEnds

\* The blocks found by walking are those the invariant names.
LEMMA BlocksAre ==
  ASSUME NEW B, NEW E, NEW L, Sound(heap, mapped, B, E, L)
  PROVE  Blocks = B
<1>1. Blocks = UNION {{c \in B : r <= c /\ c < E[r]} : r \in DOMAIN mapped}
  BY BlocksOfAre DEF Blocks
<1>2. ASSUME NEW b \in B PROVE \E r \in DOMAIN mapped : r <= b /\ b < E[r]
  <2>1. Regions(mapped, E) /\ Tiles(mem, mapped, B, E)
    BY StateFacts
  <2>2. b \in Nat /\ Size(mem, b) \in Nat /\ Size(mem, b) >= 32
    BY <2>1, BlockFacts
  <2>3. PICK r \in DOMAIN mapped : r <= b /\ b + Size(mem, b) <= E[r]
    BY <2>1, BlockFacts
  <2>4. E[r] \in Nat
    BY <2>1, RegionFacts
  <2>5. QED BY <2>2, <2>3, <2>4
<1>3. QED BY <1>1, <1>2

\* The walk ends on the sentinel, or 8 bytes before it.
LEMMA BlockedTiled == Blocked => Tiled
<1> SUFFICES ASSUME Blocked, NEW r \in DOMAIN mapped
             PROVE  LET end == Last(BlocksOf(r))
                    IN  end + HEADER_SIZE \in {r + mapped[r], r + mapped[r] - 8} /\ IsSentinel(mem, end)
  BY DEF Tiled
<1>1. PICK B, E, L : Sound(heap, mapped, B, E, L)
  BY DEF Blocked, Holds
<1>2. Last(BlocksOf(r)) = E[r]
  BY <1>1, BlocksOfAre
<1>3. Regions(mapped, E) /\ Marked(mem, E)
  BY <1>1, StateFacts
<1>4. E[r] + HEADER_SIZE \in {r + mapped[r], r + mapped[r] - 8}
  BY <1>3 DEF Regions
<1>5. IsSentinel(mem, E[r])
  <2>1. E[r] \in Ends(E)
    BY <1>3 DEF Regions, Ends
  <2>2. QED BY <1>3, <2>1 DEF Marked, IsSentinel
<1>6. QED BY <1>2, <1>4, <1>5

\* Blocks fill each region up to its sentinel (my_malloc and my_free, lines 147-261).
THEOREM RegionsTiled == CarefulSpec => []Tiled
BY AlwaysBlocked, BlockedTiled, PTL

\* The head of a list is one of its blocks, or NULL.
LEMMA HeadIn ==
  ASSUME NEW B, NEW s \in Seq(B)
  PROVE  At(s, 1) \in B \cup {NULL}
<1>1. 1 \in 1..Len(s) => s[1] \in B
  OBVIOUS
<1>2. QED BY <1>1 DEF At

\* Heads of bins are blocks, or NULL.
LEMMA BlockedTyped == Blocked => TypeOK
<1> SUFFICES ASSUME Blocked PROVE TypeOK
  OBVIOUS
<1>1. PICK B, E, L : Sound(heap, mapped, B, E, L) /\ Served(mem, live, B)
  BY DEF Blocked, Holds, heap
<1>2. mem \in Memories
  BY <1>1, StateFacts
<1>3. \A a \in DOMAIN mem : a % 8 = 0 /\ mem[a] \in Nat
  BY <1>2, MemoryFacts DEF Addresses
<1>4. ASSUME NEW i \in 0..3
      PROVE  fastbins[i] \in B \cup {NULL} /\ regbins[i] \in B \cup {NULL}
  <2> DEFINE s == L[i]
             t == L[4 + i]
  <2>1. List(heap, i, s) /\ s \in Seq(B) /\ List(heap, 4 + i, t) /\ t \in Seq(B)
    BY <1>1, ListsAre
  <2>2. HeadOf(heap, i) = fastbins[i] /\ HeadOf(heap, 4 + i) = regbins[i]
    BY BinsOf DEF Bins, heap
  <2> HIDE DEF s, t
  <2>3. fastbins[i] = At(s, 1) /\ regbins[i] = At(t, 1)
    BY <2>1, <2>2 DEF List
  <2>4. QED BY <2>1, <2>3, HeadIn
<1>5. Blocks = B
  BY <1>1, BlocksAre
<1>6. \A p \in DOMAIN live : live[p] \in Requests
  BY <1>1, LiveInBlock
<1>7. {fastbins[i] : i \in 0..3} \cup {regbins[i] : i \in 0..3} \subseteq Blocks \cup {NULL}
  BY <1>4, <1>5
<1>8. QED BY <1>3, <1>6, <1>7 DEF TypeOK

\* Headers are pointers and sizes, and a bin starts at a block.
THEOREM Typed == CarefulSpec => []TypeOK
BY AlwaysBlocked, BlockedTyped, PTL

\* t has the free blocks of the first n bins, each once.
Joined(t, h, B, n) ==
  /\ t \in Seq(B)
  /\ \A k, l \in 1..Len(t) : t[k] = t[l] => k = l
  /\ \A k \in 1..Len(t) : IsFree(h.mem, t[k]) = 1 /\ BinOf(Size(h.mem, t[k])) < n
  /\ \A b \in B : IsFree(h.mem, b) = 1 /\ BinOf(Size(h.mem, b)) < n => \E k \in 1..Len(t) : t[k] = b

\* There are eight bins.
LEMMA BinOfIs ==
  ASSUME NEW size \in Nat
  PROVE  BinOf(size) \in AllBins
<1>1. CASE index_fastbin(size) # -1
  BY <1>1, FastIndex, BinsOf
<1>2. CASE index_fastbin(size) = -1
  BY <1>2, RegIndex, BinsOf
<1>3. QED BY <1>1, <1>2

\* No bin.
LEMMA JoinedNone ==
  ASSUME NEW h, h.mem \in Memories, NEW B
  PROVE  Joined(<< >>, h, B, 0)
<1>1. << >> \in Seq(B) /\ Len(<< >>) = 0 /\ 1..0 = {}
  OBVIOUS
<1>2. \A b \in B : ~(BinOf(Size(h.mem, b)) < 0)
  <2> SUFFICES ASSUME NEW b \in B PROVE ~(BinOf(Size(h.mem, b)) < 0)
    OBVIOUS
  <2>1. Size(h.mem, b) \in Nat
    BY MemoryFacts DEF Size
  <2>2. QED BY <2>1, BinOfIs DEF AllBins
<1>3. QED BY <1>1, <1>2 DEF Joined

\* One bin more.
LEMMA JoinedMore ==
  ASSUME NEW h, h.mem \in Memories, NEW B, NEW L, Binned(h, B, L), NEW n \in AllBins, NEW t, Joined(t, h, B, n),
         NEW u, u = t \o L[n]
  PROVE  Joined(u, h, B, n + 1)
<1> DEFINE s == L[n]
           free(b) == IsFree(h.mem, b) = 1
           bin(b) == BinOf(Size(h.mem, b))
<1>1. /\ t \in Seq(B) /\ s \in Seq(B)
      /\ \A k, l \in 1..Len(t) : t[k] = t[l] => k = l
      /\ \A k \in 1..Len(t) : free(t[k]) /\ bin(t[k]) < n
      /\ \A b \in B : free(b) /\ bin(b) < n => \E k \in 1..Len(t) : t[k] = b
  BY DEF Joined, Binned
<1>2. /\ \A k \in 1..Len(s) : free(s[k]) /\ bin(s[k]) = n
      /\ \A k, l \in 1..Len(s) : k < l => s[k] # s[l]
  <2>1. List(h, n, s)
    BY DEF Binned
  <2> HIDE DEF s
  <2>2. QED BY <2>1 DEF List
<1>3. \A b \in B : bin(b) \in AllBins
  <2> SUFFICES ASSUME NEW b \in B PROVE bin(b) \in AllBins
    OBVIOUS
  <2>1. Size(h.mem, b) \in Nat
    BY MemoryFacts DEF Size
  <2>2. QED BY <2>1, BinOfIs
<1>4. \A b \in B : free(b) /\ bin(b) = n => \E k \in 1..Len(s) : s[k] = b
  <2> SUFFICES ASSUME NEW b \in B, free(b), bin(b) = n PROVE \E k \in 1..Len(s) : s[k] = b
    OBVIOUS
  <2>1. PICK j \in AllBins : \E k \in 1..Len(L[j]) : L[j][k] = b
    BY DEF Binned
  <2>2. Listed(L[j], b)
    BY <2>1 DEF Listed
  <2>3. bin(b) = j
    BY <2>2, ListedBin
  <2>4. QED BY <2>1, <2>3
<1>5. u = t \o s
  OBVIOUS
<1>6. \A b \in B : bin(b) < n + 1 <=> bin(b) < n \/ bin(b) = n
  BY <1>3 DEF AllBins
<1>7. \A k \in 1..Len(s) : s[k] \in B
  BY <1>1
<1> HIDE DEF s, free, bin
<1> DEFINE a == Len(t)
           c == Len(s)
<1>8. /\ a \in Nat /\ c \in Nat /\ u \in Seq(B) /\ Len(u) = a + c
      /\ \A k \in 1..a : u[k] = t[k]
      /\ \A k \in 1..c : u[a + k] = s[k]
  BY <1>1, <1>5
<1> HIDE DEF a, c
<1>9. ASSUME NEW k \in 1..a + c
      PROVE  \/ k \in 1..a /\ u[k] = t[k] /\ free(u[k]) /\ bin(u[k]) < n /\ u[k] \in B
             \/ k - a \in 1..c /\ u[k] = s[k - a] /\ free(u[k]) /\ bin(u[k]) = n /\ u[k] \in B
  <2>1. CASE k <= a
    <3>1. k \in 1..a
      BY <1>8, <2>1
    <3>2. u[k] = t[k]
      BY <1>8, <3>1
    <3>3. free(t[k]) /\ bin(t[k]) < n /\ t[k] \in B
      BY <1>1, <3>1 DEF a
    <3>4. QED BY <3>1, <3>2, <3>3
  <2>2. CASE ~(k <= a)
    <3>1. k - a \in 1..c /\ k = a + (k - a)
      BY <1>8, <2>2
    <3>2. u[k] = s[k - a]
      <4>1. u[a + (k - a)] = s[k - a]
        BY <1>8, <3>1
      <4>2. QED BY <3>1, <4>1
    <3>3. free(s[k - a]) /\ bin(s[k - a]) = n /\ s[k - a] \in B
      BY <1>2, <1>7, <3>1 DEF c
    <3>4. QED BY <3>1, <3>2, <3>3
  <2>3. QED BY <2>1, <2>2
<1>10. \A k \in 1..a + c : free(u[k]) /\ bin(u[k]) < n + 1
  <2> SUFFICES ASSUME NEW k \in 1..a + c PROVE free(u[k]) /\ bin(u[k]) < n + 1
    OBVIOUS
  <2>1. free(u[k]) /\ (bin(u[k]) < n \/ bin(u[k]) = n) /\ u[k] \in B
    BY <1>9
  <2>2. QED BY <1>6, <2>1
<1>11. ASSUME NEW k \in 1..a + c, NEW l \in 1..a + c, u[k] = u[l] PROVE k = l
  <2>0. \A b : ~(bin(b) < n /\ bin(b) = n)
    BY DEF AllBins
  <2>1. CASE k \in 1..a /\ u[k] = t[k] /\ bin(u[k]) < n
    <3>1. ~(bin(u[l]) = n)
      BY <1>11, <2>0, <2>1
    <3>2. l \in 1..a /\ u[l] = t[l]
      BY <1>9, <3>1
    <3>3. t[k] = t[l]
      BY <1>11, <2>1, <3>2
    <3>4. QED BY <1>1, <2>1, <3>2, <3>3 DEF a
  <2>2. CASE k - a \in 1..c /\ u[k] = s[k - a] /\ bin(u[k]) = n
    <3>1. ~(bin(u[l]) < n)
      BY <1>11, <2>0, <2>2
    <3>2. l - a \in 1..c /\ u[l] = s[l - a]
      BY <1>9, <3>1
    <3>3. s[k - a] = s[l - a]
      BY <1>11, <2>2, <3>2
    <3>4. k - a = l - a
      <4> DEFINE x == k - a
                 y == l - a
      <4>1. x \in 1..c /\ y \in 1..c /\ s[x] = s[y]
        BY <2>2, <3>2, <3>3
      <4> HIDE DEF x, y
      <4>2. ~(x < y) /\ ~(y < x)
        BY <1>2, <4>1 DEF c
      <4>3. x = y
        BY <1>8, <4>1, <4>2
      <4>4. QED BY <4>3 DEF x, y
    <3>5. QED BY <1>8, <3>4
  <2>3. QED BY <1>9, <2>1, <2>2
<1>12. ASSUME NEW b \in B, free(b), bin(b) < n + 1 PROVE \E k \in 1..a + c : u[k] = b
  <2>1. CASE bin(b) < n
    <3>1. PICK k \in 1..a : t[k] = b
      BY <1>1, <1>12, <2>1 DEF a
    <3>2. k \in 1..a + c /\ u[k] = b
      BY <1>8, <3>1
    <3>3. QED BY <3>2
  <2>2. CASE bin(b) = n
    <3>1. PICK k \in 1..c : s[k] = b
      BY <1>4, <1>12, <2>2 DEF c
    <3>2. a + k \in 1..a + c /\ u[a + k] = b
      BY <1>8, <3>1
    <3>3. QED BY <3>2
  <2>3. QED BY <1>6, <1>12, <2>1, <2>2
<1>13. QED BY <1>8, <1>10, <1>11, <1>12 DEF Joined, free, bin

\* All eight.
LEMMA AllJoined ==
  ASSUME NEW h, h.mem \in Memories, NEW B, NEW L, Binned(h, B, L)
  PROVE  Joined(L[0] \o L[1] \o L[2] \o L[3] \o L[4] \o L[5] \o L[6] \o L[7], h, B, 8)
<1>1. AllBins = {0, 1, 2, 3, 4, 5, 6, 7}
  BY DEF AllBins
<1> DEFINE t1 == L[0]
           t2 == t1 \o L[1]
           t3 == t2 \o L[2]
           t4 == t3 \o L[3]
           t5 == t4 \o L[4]
           t6 == t5 \o L[5]
           t7 == t6 \o L[6]
           t8 == t7 \o L[7]
<1>2. << >> \o L[0] = t1
  <2>1. L[0] \in Seq(B)
    BY <1>1 DEF Binned
  <2>2. QED BY <2>1
<1>3. \A n \in AllBins : \A t, u : Joined(t, h, B, n) /\ u = t \o L[n] => Joined(u, h, B, n + 1)
  BY JoinedMore
<1>4. Joined(t1, h, B, 1)
  <2>1. Joined(t1, h, B, 0 + 1)
    BY <1>1, <1>2, <1>3, JoinedNone
  <2>2. QED BY <2>1
<1> HIDE DEF t1
<1>5. Joined(t2, h, B, 2)
  <2>1. Joined(t2, h, B, 1 + 1)
    BY <1>1, <1>3, <1>4
  <2>2. QED BY <2>1
<1> HIDE DEF t2
<1>6. Joined(t3, h, B, 3)
  <2>1. Joined(t3, h, B, 2 + 1)
    BY <1>1, <1>3, <1>5
  <2>2. QED BY <2>1
<1> HIDE DEF t3
<1>7. Joined(t4, h, B, 4)
  <2>1. Joined(t4, h, B, 3 + 1)
    BY <1>1, <1>3, <1>6
  <2>2. QED BY <2>1
<1> HIDE DEF t4
<1>8. Joined(t5, h, B, 5)
  <2>1. Joined(t5, h, B, 4 + 1)
    BY <1>1, <1>3, <1>7
  <2>2. QED BY <2>1
<1> HIDE DEF t5
<1>9. Joined(t6, h, B, 6)
  <2>1. Joined(t6, h, B, 5 + 1)
    BY <1>1, <1>3, <1>8
  <2>2. QED BY <2>1
<1> HIDE DEF t6
<1>10. Joined(t7, h, B, 7)
  <2>1. Joined(t7, h, B, 6 + 1)
    BY <1>1, <1>3, <1>9
  <2>2. QED BY <2>1
<1> HIDE DEF t7
<1>11. Joined(t8, h, B, 8)
  <2>1. Joined(t8, h, B, 7 + 1)
    BY <1>1, <1>3, <1>10
  <2>2. QED BY <2>1
<1>12. QED BY <1>11 DEF t1, t2, t3, t4, t5, t6, t7

\* The lists have each free block once, the client each other block.
LEMMA BlockedOnce == Blocked => EveryBlockOnce
<1> SUFFICES ASSUME Blocked PROVE EveryBlockOnce
  OBVIOUS
<1>1. PICK B, E, L : Sound(heap, mapped, B, E, L) /\ Served(mem, live, B)
  BY DEF Blocked, Holds, heap
<1>2. B \subseteq Nat /\ mem \in Memories /\ Binned(heap, B, L) /\ Tiles(mem, mapped, B, E) /\ heap.mem = mem
  BY <1>1, StateFacts
<1> DEFINE bins == Fast(0) \o Fast(1) \o Fast(2) \o Fast(3)
                   \o Regular(0) \o Regular(1) \o Regular(2) \o Regular(3)
           F == {b \in B : IsFree(mem, b) = 1}
<1>3. Joined(bins, heap, B, 8)
  <2>1. Fast(0) = L[0] /\ Fast(1) = L[1] /\ Fast(2) = L[2] /\ Fast(3) = L[3]
    BY <1>1, ListsAre
  <2>2. Regular(0) = L[4] /\ Regular(1) = L[5] /\ Regular(2) = L[6] /\ Regular(3) = L[7]
    BY <1>1, ListsAre
  <2>3. heap.mem \in Memories
    BY <1>2
  <2>4. QED BY <1>2, <2>1, <2>2, <2>3, AllJoined
<1>4. Blocks = B
  BY <1>1, BlocksAre
<1>5. LiveBlocks = {b \in B : IsFree(mem, b) = 0}
  <2>1. ASSUME NEW p \in DOMAIN live PROVE Block(p) \in B /\ IsFree(mem, Block(p)) = 0
    BY <1>1, LiveInBlock
  <2>2. ASSUME NEW b \in B, IsFree(mem, b) = 0 PROVE b \in LiveBlocks
    <3>1. b + HEADER_SIZE \in DOMAIN live
      BY <1>1, <2>2 DEF Served
    <3>2. Block(b + HEADER_SIZE) = b
      BY <1>2 DEF Block, HEADER_SIZE
    <3>3. QED BY <3>1, <3>2 DEF LiveBlocks
  <2>3. QED BY <2>1, <2>2 DEF LiveBlocks
<1> HIDE DEF bins
<1>6. ToSet(bins) = F
  <2>1. /\ bins \in Seq(B)
        /\ \A k \in 1..Len(bins) : IsFree(mem, bins[k]) = 1
        /\ \A b \in B : IsFree(mem, b) = 1 /\ BinOf(Size(mem, b)) < 8 => \E k \in 1..Len(bins) : bins[k] = b
    BY <1>2, <1>3 DEF Joined
  <2>2. \A b \in B : BinOf(Size(mem, b)) < 8
    <3> SUFFICES ASSUME NEW b \in B PROVE BinOf(Size(mem, b)) < 8
      OBVIOUS
    <3>1. Size(mem, b) \in Nat
      BY <1>2, MemoryFacts DEF Size
    <3>2. QED BY <3>1, BinOfIs DEF AllBins
  <2>3. ToSet(bins) = {bins[k] : k \in 1..Len(bins)}
    <3>1. DOMAIN bins = 1..Len(bins)
      BY <2>1
    <3>2. QED BY <3>1 DEF ToSet
  <2>4. \A k \in 1..Len(bins) : bins[k] \in B
    BY <2>1
  <2>5. QED BY <2>1, <2>2, <2>3, <2>4
<1>7. IsInjective(bins)
  <2>1. bins \in Seq(B) /\ \A k, l \in 1..Len(bins) : bins[k] = bins[l] => k = l
    BY <1>3 DEF Joined
  <2>2. DOMAIN bins = 1..Len(bins)
    BY <2>1
  <2>3. QED BY <2>1, <2>2 DEF IsInjective
<1>8. F = B \ LiveBlocks /\ LiveBlocks \subseteq B
  <2>1. \A b \in B : IsFree(mem, b) \in {0, 1}
    BY <1>2 DEF Tiles
  <2>2. QED BY <1>5, <2>1
<1>9. QED BY <1>4, <1>6, <1>7, <1>8 DEF EveryBlockOnce, bins

\* No block is lost, and none is in two bins, or in one and with the client
\* (my_malloc and my_free, lines 147-261).
THEOREM BlocksOnce == CarefulSpec => []EveryBlockOnce
BY AlwaysBlocked, BlockedOnce, PTL

-----------------------------------------------------------------------------
\* The refinement.

\* What the client has lies in a region.
LiveMapped == \A p \in DOMAIN live : \E r \in DOMAIN mapped : r <= p /\ p + live[p] <= r + mapped[r]

\* It lies in a block, and blocks lie in regions.
LEMMA BlockedMapped == Blocked => LiveMapped
<1> SUFFICES ASSUME Blocked, NEW p \in DOMAIN live
             PROVE  \E r \in DOMAIN mapped : r <= p /\ p + live[p] <= r + mapped[r]
  BY DEF LiveMapped
<1>1. PICK B, E, L : Sound(heap, mapped, B, E, L) /\ Served(mem, live, B)
  BY DEF Blocked, Holds, heap
<1>2. Tiles(mem, mapped, B, E) /\ Regions(mapped, E)
  BY <1>1, StateFacts
<1> DEFINE b == Block(p)
<1>3. /\ b \in B /\ b \in Nat /\ p = b + 32 /\ live[p] \in Nat /\ Size(mem, b) \in Nat
      /\ p + live[p] <= b + Size(mem, b)
  BY <1>1, LiveInBlock
<1> HIDE DEF b
<1>4. PICK r \in DOMAIN mapped : r <= b /\ b + Size(mem, b) <= E[r]
  BY <1>2, <1>3, BlockFacts
<1>5. r \in Nat /\ mapped[r] \in Nat /\ E[r] \in Nat /\ E[r] + 32 <= r + mapped[r]
  BY <1>2, RegionFacts
<1>6. r <= p /\ p + live[p] <= r + mapped[r]
  BY ONLY <1>3, <1>4, <1>5
<1>7. QED BY <1>6

\* A request that is answered takes memory nobody has.
LEMMA AllocateStep ==
  ASSUME NEW size \in Requests, NEW p, p \notin DOMAIN live, live' = With(live, p, size),
         UNCHANGED mapped \/ \E r, len : r \notin DOMAIN mapped /\ mapped' = With(mapped, r, len),
         LiveMapped', LiveDisjoint'
  PROVE  Abstract!Next
<1>1. DOMAIN live' = DOMAIN live \cup {p} /\ live'[p] = size /\ \A q \in DOMAIN live : live'[q] = live[q]
  BY DEF With
<1>2. DOMAIN mapped \subseteq DOMAIN mapped' /\ \A r \in DOMAIN mapped : mapped'[r] = mapped[r]
  <2>1. CASE UNCHANGED mapped
    BY <2>1
  <2>2. CASE \E r, len : r \notin DOMAIN mapped /\ mapped' = With(mapped, r, len)
    <3>1. PICK r, len : r \notin DOMAIN mapped /\ mapped' = With(mapped, r, len)
      BY <2>2
    <3>2. DOMAIN mapped' = DOMAIN mapped \cup {r} /\ \A q \in DOMAIN mapped : mapped'[q] = mapped[q]
      BY <3>1 DEF With
    <3>3. QED BY <3>2
  <2>3. QED BY <2>1, <2>2
<1>3. \E r \in DOMAIN mapped' : r <= p /\ p + size <= r + mapped'[r]
  BY <1>1 DEF LiveMapped
<1>4. ASSUME NEW q \in DOMAIN live PROVE p + size <= q \/ q + live[q] <= p
  <2>1. q \in DOMAIN live' /\ p \in DOMAIN live' /\ p # q
    BY <1>1
  <2>2. p + live'[p] <= q \/ q + live'[q] <= p
    BY <2>1 DEF LiveDisjoint
  <2>3. QED BY <1>1, <2>2
<1>5. live' = [q \in DOMAIN live \cup {p} |-> IF q = p THEN size ELSE live[q]]
  BY DEF With
<1>6. Abstract!Allocate(p, size)
  BY <1>2, <1>3, <1>4, <1>5 DEF Abstract!Allocate, Abstract!Map
<1>7. p \in DOMAIN live'
  BY <1>1
<1>8. QED BY <1>6, <1>7 DEF Abstract!Next

\* Every step is one of the allocator, or none.
LEMMA AllocatorStep ==
  ASSUME Outcome, LiveMapped', LiveDisjoint'
  PROVE  [Abstract!Next]_(Abstract!vars)
<1>1. ASSUME NEW size \in Requests, NEW p, p \notin DOMAIN live, live' = With(live, p, size),
             UNCHANGED mapped \/ \E r, len : r \notin DOMAIN mapped /\ mapped' = With(mapped, r, len)
      PROVE  Abstract!Next
  BY <1>1, AllocateStep
<1>2. ASSUME NEW p \in DOMAIN live, Forget(p), UNCHANGED mapped
      PROVE  Abstract!Next
  BY <1>2 DEF Abstract!Next, Abstract!Release, Forget
<1>3. ASSUME UNCHANGED vars
      PROVE  UNCHANGED Abstract!vars
  BY <1>3 DEF vars, Abstract!vars
<1>4. QED BY <1>1, <1>2, <1>3 DEF Outcome

\* What the careful client sees is an allocator (my_malloc and my_free, lines 147-261).
THEOREM IsAllocator == CarefulSpec => ImplementsAllocator
<1>1. Init => Abstract!Init
  BY DEF Init, Abstract!Init
<1>2. Blocked /\ [CarefulNext]_vars => Outcome
  BY StepBlocked
<1>3. Outcome /\ LiveMapped' /\ LiveDisjoint' => [Abstract!Next]_(Abstract!vars)
  BY AllocatorStep
<1>4. QED BY <1>1, <1>2, <1>3, AlwaysBlocked, BlockedMapped, BlockedDisjoint, PTL
          DEF CarefulSpec, ImplementsAllocator, Abstract!Spec
=============================================================================
