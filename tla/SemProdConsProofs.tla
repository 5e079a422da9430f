------------------------- MODULE SemProdConsProofs -------------------------
(***************************************************************************)
(* What holds of SemProdCons for every number of producers and consumers,  *)
(* every buffer size and every string.                                     *)
(***************************************************************************)
EXTENDS SemProdCons, FiniteSetTheorems, TLAPS

\* How far each thread is in its loops.
Progress ==
  /\ \A p \in Producers :
       /\ p \notin left => pills[p] = 0
       /\ p \in left => prod_index = SizeofItems
       /\ pc[p] = "leave" => p \notin left /\ prod_index = SizeofItems
       /\ pc[p] \in {"wait_empty", "wait_mutex", "put"} => pills[p] < C
       /\ pc[p] = "done" => p \in left /\ pills[p] = C
  /\ \A c \in Consumers :
       /\ c \in ended => pc[c] \in {"post_mutex", "post_empty", "done"}
       /\ pc[c] = "done" => c \in ended

Shape == TypeOK /\ Progress /\ MutualExclusion

LEMMA ConstantsFinite ==
  /\ IsFiniteSet(Threads)
  /\ C \in Nat \ {0}
  /\ P \in Nat \ {0}
  /\ SizeofItems = NumChars + 1
BY ThreadsAssumption, FS_Union, FS_CardinalityType, FS_EmptySet
   DEF Threads, C, P, SizeofItems

LEMMA InitShape == Init => Shape
<1> SUFFICES ASSUME Init PROVE Shape
  OBVIOUS
<1> USE ThreadsAssumption, BufferAssumption, ConstantsFinite DEF Init
<1>1. TypeOK
  <2>1. buffer \in [0..BUF_SIZE-1 -> 0..NumChars]
    BY DEF NUL
  <2>2. /\ in \in 0..BUF_SIZE-1 /\ out \in 0..BUF_SIZE-1
        /\ prod_index \in 0..SizeofItems
        /\ empty \in Nat /\ full \in Nat /\ mutex \in {0, 1}
    OBVIOUS
  <2>3. /\ pc \in [Threads -> ProducerSteps \union ConsumerSteps]
        /\ \A p \in Producers : pc[p] \in ProducerSteps
        /\ \A c \in Consumers : pc[c] \in ConsumerSteps
    BY DEF Threads, ProducerSteps, ConsumerSteps
  <2>4. pills \in [Producers -> 0..C]
    OBVIOUS
  <2>5. printed \in Seq(1..NumChars)
    OBVIOUS
  <2> QED
    BY <2>1, <2>2, <2>3, <2>4, <2>5 DEF TypeOK
<1>2. Progress
  BY DEF Progress, Threads
<1>3. MutualExclusion
  <2>1. \A t \in Threads : pc[t] \in {"wait_empty", "wait_full"}
    BY DEF Threads
  <2>2. Inside = {}
    BY <2>1 DEF Inside
  <2> QED
    BY <2>2 DEF MutualExclusion
<1> QED
  BY <1>1, <1>2, <1>3 DEF Shape

LEMMA NextShape == Shape /\ [Next]_vars => Shape'
<1> SUFFICES ASSUME Shape, [Next]_vars PROVE Shape'
  OBVIOUS
<1> USE ThreadsAssumption, BufferAssumption, ConstantsFinite
    DEF Shape, TypeOK, Progress, MutualExclusion, Inside, Threads, ProducerSteps,
        ConsumerSteps, Goto, sems
<1>1. CASE UNCHANGED vars
  BY <1>1 DEF vars
<1>2. ASSUME NEW p \in Producers, WaitEmpty(p) PROVE Shape'
  BY <1>2 DEF WaitEmpty
<1>3. ASSUME NEW c \in Consumers, WaitFull(c) PROVE Shape'
  BY <1>3 DEF WaitFull
<1>4. ASSUME NEW t \in Threads, WaitMutex(t) PROVE Shape'
  BY <1>4 DEF WaitMutex
<1>5. ASSUME NEW p \in Producers, PutItem(p) PROVE Shape'
  BY <1>5 DEF PutItem, Store, items, NUL
<1>6. ASSUME NEW p \in Producers, NoItemsLeft(p) PROVE Shape'
  BY <1>6 DEF NoItemsLeft
<1>7. ASSUME NEW p \in Producers, Leave(p) PROVE Shape'
  BY <1>7 DEF Leave
<1>8. ASSUME NEW p \in Producers, PutPill(p) PROVE Shape'
  <2>1. pills[p] < C /\ p \in left /\ pills[p] + 1 \in 0..C
    BY <1>8 DEF PutPill
  <2>2. /\ buffer' \in [0..BUF_SIZE-1 -> 0..NumChars]
        /\ in' \in 0..BUF_SIZE-1
    BY <1>8 DEF PutPill, Store, NUL
  <2>3. pills' \in [Producers -> 0..C]
    BY <1>8, <2>1 DEF PutPill
  <2>4. TypeOK'
    BY <1>8, <2>2, <2>3 DEF PutPill
  <2>5. Progress'
    BY <1>8, <2>1 DEF PutPill
  <2>6. MutualExclusion'
    BY <1>8 DEF PutPill
  <2> QED
    BY <2>4, <2>5, <2>6
<1>9. ASSUME NEW c \in Consumers, GetNul(c) PROVE Shape'
  BY <1>9 DEF GetNul
<1>10. ASSUME NEW c \in Consumers, GetChar(c) PROVE Shape'
  <2>1. buffer[out] \in 1..NumChars
    BY <1>10 DEF GetChar, NUL
  <2>2. printed' \in Seq(1..NumChars) /\ out' \in 0..BUF_SIZE-1
    BY <1>10, <2>1 DEF GetChar
  <2>3. TypeOK'
    BY <1>10, <2>2 DEF GetChar
  <2>4. Progress'
    BY <1>10 DEF GetChar
  <2>5. MutualExclusion'
    BY <1>10 DEF GetChar
  <2> QED
    BY <2>3, <2>4, <2>5
<1>11. ASSUME NEW t \in Threads, PostMutex(t) PROVE Shape'
  BY <1>11 DEF PostMutex
<1>12. ASSUME NEW p \in Producers, PostFull(p) PROVE Shape'
  BY <1>12 DEF PostFull
<1>13. ASSUME NEW c \in Consumers, PostEmpty(c) PROVE Shape'
  BY <1>13 DEF PostEmpty
<1> QED
  BY <1>1, <1>2, <1>3, <1>4, <1>5, <1>6, <1>7, <1>8, <1>9, <1>10, <1>11, <1>12, <1>13
  DEF Next, Producer, Consumer, Finished

\* Whatever the interleaving, every thread is where its loop says and the
\* buffer, the indices and the printout stay in their ranges.
THEOREM Typing == SafeSpec => []TypeOK
<1>1. Shape => TypeOK
  BY DEF Shape
<1> QED
  BY <1>1, InitShape, NextShape, PTL DEF SafeSpec

\* The semaphore called mutex keeps two threads from the buffer at once, and
\* nobody leaves with it (sem.c:24-36, 43-48, 64-75).
THEOREM Exclusion == SafeSpec => []MutualExclusion
<1>1. Shape => MutualExclusion
  BY DEF Shape
<1> QED
  BY <1>1, InitShape, NextShape, PTL DEF SafeSpec

-----------------------------------------------------------------------------
\* Counting the threads that are at some step.
LEMMA AtFinite ==
  ASSUME NEW S \in {Producers, Consumers}, NEW steps
  PROVE  /\ IsFiniteSet(At(S, steps)) /\ Cardinality(At(S, steps)) \in Nat
         /\ IsFiniteSet(At(S, steps)') /\ Cardinality(At(S, steps)') \in Nat
<1>1. At(S, steps) \subseteq S /\ At(S, steps)' \subseteq S
  BY DEF At
<1> QED
  BY <1>1, ThreadsAssumption, FS_Subset, FS_CardinalityType

\* 1 for a member, 0 for anything else.
Counts(x, S) == IF x \in S THEN 1 ELSE 0

\* A thread that goes to another step changes the counts by the one it is.
LEMMA AtMoves ==
  ASSUME NEW S \in {Producers, Consumers}, NEW steps, NEW t \in S, NEW step,
         TypeOK, Goto(t, step)
  PROVE  Cardinality(At(S, steps)')
           = Cardinality(At(S, steps)) + Counts(step, steps) - Counts(pc[t], steps)
<1> DEFINE a == At(S, steps)
           b == At(S, steps)'
<1>1. IsFiniteSet(a) /\ Cardinality(a) \in Nat
  BY AtFinite
<1>2. /\ pc[t] \in steps /\ step \in steps => b = a
      /\ pc[t] \notin steps /\ step \notin steps => b = a
      /\ pc[t] \notin steps /\ step \in steps => t \notin a /\ b = a \union {t}
      /\ pc[t] \in steps /\ step \notin steps => t \in a /\ b = a \ {t}
  BY DEF At, TypeOK, Goto, Threads
<1> HIDE DEF a, b
<1>3. /\ t \notin a => Cardinality(a \union {t}) = Cardinality(a) + 1
      /\ t \in a => Cardinality(a \ {t}) = Cardinality(a) - 1
  BY <1>1, FS_AddElement, FS_RemoveElement
<1>4. Cardinality(b) = Cardinality(a) + Counts(step, steps) - Counts(pc[t], steps)
  <2>1. CASE pc[t] \in steps /\ step \in steps
    BY <2>1, <1>1, <1>2 DEF Counts
  <2>2. CASE pc[t] \notin steps /\ step \notin steps
    BY <2>2, <1>1, <1>2 DEF Counts
  <2>3. CASE pc[t] \notin steps /\ step \in steps
    <3>1. Cardinality(b) = Cardinality(a) + 1
      BY <2>3, <1>2, <1>3
    <3>2. Counts(step, steps) = 1 /\ Counts(pc[t], steps) = 0
      BY <2>3 DEF Counts
    <3> QED
      BY <3>1, <3>2, <1>1
  <2>4. CASE pc[t] \in steps /\ step \notin steps
    BY <2>4, <1>1, <1>2, <1>3 DEF Counts
  <2> QED
    BY <2>1, <2>2, <2>3, <2>4
<1> QED
  BY <1>4 DEF a, b

LEMMA AtStays ==
  ASSUME NEW S \in {Producers, Consumers}, NEW steps, NEW t \in Threads \ S, NEW step,
         TypeOK, Goto(t, step)
  PROVE  Cardinality(At(S, steps)') = Cardinality(At(S, steps))
<1>1. At(S, steps)' = At(S, steps)
  BY DEF At, TypeOK, Goto, Threads
<1> QED
  BY <1>1

\* The counts SlotAccounting is made of.
Storing == Cardinality(At(Producers, {"post_mutex", "post_full"}))
Taking == Cardinality(At(Consumers, {"wait_mutex", "get"}))
ToStore == Cardinality(At(Producers, {"wait_mutex", "put"}))
Taken == Cardinality(At(Consumers, {"post_mutex", "post_empty"}))
Lost == Cardinality(Leaked)

LEMMA ProducerMoves ==
  ASSUME NEW p \in Producers, NEW step, TypeOK, Goto(p, step)
  PROVE  /\ Storing' = Storing + Counts(step, {"post_mutex", "post_full"})
                                - Counts(pc[p], {"post_mutex", "post_full"})
         /\ ToStore' = ToStore + Counts(step, {"wait_mutex", "put"})
                                - Counts(pc[p], {"wait_mutex", "put"})
         /\ Taking' = Taking
         /\ Taken' = Taken
<1>1. p \in Threads \ Consumers
  BY ThreadsAssumption DEF Threads
<1>2. Storing' = Storing + Counts(step, {"post_mutex", "post_full"})
                         - Counts(pc[p], {"post_mutex", "post_full"})
  BY AtMoves DEF Storing
<1>3. ToStore' = ToStore + Counts(step, {"wait_mutex", "put"})
                         - Counts(pc[p], {"wait_mutex", "put"})
  BY AtMoves DEF ToStore
<1>4. Taking' = Taking
  BY <1>1, AtStays DEF Taking
<1>5. Taken' = Taken
  BY <1>1, AtStays DEF Taken
<1> QED
  BY <1>2, <1>3, <1>4, <1>5

LEMMA ConsumerMoves ==
  ASSUME NEW c \in Consumers, NEW step, TypeOK, Goto(c, step)
  PROVE  /\ Taking' = Taking + Counts(step, {"wait_mutex", "get"})
                              - Counts(pc[c], {"wait_mutex", "get"})
         /\ Taken' = Taken + Counts(step, {"post_mutex", "post_empty"})
                            - Counts(pc[c], {"post_mutex", "post_empty"})
         /\ Storing' = Storing
         /\ ToStore' = ToStore
<1>1. c \in Threads \ Producers
  BY ThreadsAssumption DEF Threads
<1>2. Taking' = Taking + Counts(step, {"wait_mutex", "get"})
                       - Counts(pc[c], {"wait_mutex", "get"})
  BY AtMoves DEF Taking
<1>3. Taken' = Taken + Counts(step, {"post_mutex", "post_empty"})
                     - Counts(pc[c], {"post_mutex", "post_empty"})
  BY AtMoves DEF Taken
<1>4. Storing' = Storing
  BY <1>1, AtStays DEF Storing
<1>5. ToStore' = ToStore
  BY <1>1, AtStays DEF ToStore
<1> QED
  BY <1>2, <1>3, <1>4, <1>5

LEMMA CountsAreNat ==
  Shape => /\ Storing \in Nat /\ Taking \in Nat /\ ToStore \in Nat /\ Taken \in Nat
           /\ IsFiniteSet(Leaked) /\ Lost \in Nat
           /\ IsFiniteSet(PillsPut) /\ Cardinality(PillsPut) \in Nat
           /\ IsFiniteSet(ended) /\ Cardinality(ended) \in Nat
           /\ Puts \in Nat /\ Takes \in Nat
<1> SUFFICES ASSUME Shape
             PROVE  /\ Storing \in Nat /\ Taking \in Nat /\ ToStore \in Nat /\ Taken \in Nat
                    /\ IsFiniteSet(Leaked) /\ Lost \in Nat
                    /\ IsFiniteSet(PillsPut) /\ Cardinality(PillsPut) \in Nat
                    /\ IsFiniteSet(ended) /\ Cardinality(ended) \in Nat
                    /\ Puts \in Nat /\ Takes \in Nat
  OBVIOUS
<1>1. Storing \in Nat /\ Taking \in Nat /\ ToStore \in Nat /\ Taken \in Nat
  BY AtFinite DEF Storing, Taking, ToStore, Taken
<1>2. IsFiniteSet(Leaked) /\ Lost \in Nat
  <2>1. Leaked \subseteq Producers
    BY DEF Leaked, At, Shape, TypeOK
  <2> QED
    BY <2>1, ThreadsAssumption, FS_Subset, FS_CardinalityType DEF Lost
<1>3. IsFiniteSet(PillsPut) /\ Cardinality(PillsPut) \in Nat
  <2>1. PillsPut \subseteq Producers \X (1..C)
    BY DEF PillsPut
  <2>2. IsFiniteSet(Producers \X (1..C))
    <3>1. IsFiniteSet(1..C)
      BY ConstantsFinite, FS_Interval
    <3> QED
      BY <3>1, ThreadsAssumption, FS_Product
  <2> QED
    BY <2>1, <2>2, FS_Subset, FS_CardinalityType
<1>4. IsFiniteSet(ended) /\ Cardinality(ended) \in Nat
  BY ThreadsAssumption, FS_Subset, FS_CardinalityType DEF Shape, TypeOK
<1>5. prod_index \in Nat /\ Len(printed) \in Nat
  BY BufferAssumption, ConstantsFinite DEF Shape, TypeOK
<1> QED
  BY <1>1, <1>2, <1>3, <1>4, <1>5 DEF Puts, Takes

LEMMA InitAccounting == Init => SlotAccounting
<1> SUFFICES ASSUME Init PROVE SlotAccounting
  OBVIOUS
<1>1. /\ At(Producers, {"post_mutex", "post_full"}) = {}
      /\ At(Consumers, {"wait_mutex", "get"}) = {}
      /\ At(Producers, {"wait_mutex", "put"}) = {}
      /\ At(Consumers, {"post_mutex", "post_empty"}) = {}
      /\ Leaked = {}
  BY ThreadsAssumption DEF Init, At, Leaked, Threads
<1>2. PillsPut = {}
  BY DEF Init, PillsPut
<1>3. Len(printed) = 0 /\ ended = {} /\ prod_index = 0
  BY DEF Init
<1>4. Cardinality({}) = 0
  BY FS_EmptySet
<1> QED
  <2>1. Takes = 0 /\ Puts = 0
    BY <1>2, <1>3, <1>4 DEF Takes, Puts
  <2>2. Storing = 0 /\ Taking = 0 /\ ToStore = 0 /\ Taken = 0 /\ Lost = 0
    BY <1>1, <1>4 DEF Storing, Taking, ToStore, Taken, Lost
  <2>3. full = 0 /\ empty = BUF_SIZE
    BY DEF Init
  <2> QED
    BY <2>1, <2>2, <2>3, BufferAssumption
    DEF SlotAccounting, Storing, Taking, ToStore, Taken, Lost

LEMMA NextAccounting == Shape /\ SlotAccounting /\ [Next]_vars => SlotAccounting'
<1> SUFFICES ASSUME Shape, SlotAccounting, [Next]_vars PROVE SlotAccounting'
  OBVIOUS
<1>a. /\ full + Storing + Taking + Takes = Puts
      /\ empty + ToStore + Lost + Taken + Puts = BUF_SIZE + Takes
  BY DEF SlotAccounting, Storing, Taking, ToStore, Taken, Lost
<1>b. /\ Storing \in Nat /\ Taking \in Nat /\ ToStore \in Nat /\ Taken \in Nat
      /\ Lost \in Nat /\ Puts \in Nat /\ Takes \in Nat
      /\ full \in Nat /\ empty \in Nat /\ BUF_SIZE \in Nat
  BY CountsAreNat, BufferAssumption DEF Shape, TypeOK
<1>c. Shape'
  BY NextShape
<1>goal. ASSUME /\ full' + Storing' + Taking' + Takes' = Puts'
                /\ empty' + ToStore' + Lost' + Taken' + Puts' = BUF_SIZE + Takes'
         PROVE  SlotAccounting'
  BY <1>goal DEF SlotAccounting, Storing, Taking, ToStore, Taken, Lost
\* What does not change when the items, the pills, the printout, the ended
\* consumers or the leaks do not.
<1>d. UNCHANGED <<prod_index, pills>> => Puts' = Puts
  BY DEF Puts, PillsPut
<1>e. UNCHANGED <<printed, ended>> => Takes' = Takes
  BY DEF Takes
<1>f. ASSUME NEW t \in Threads, NEW step, Goto(t, step), UNCHANGED left,
             pc[t] # "leave" /\ step # "leave"
      PROVE  Lost' = Lost
  <2>1. Leaked' = Leaked
    BY <1>f DEF Leaked, At, Goto, Shape, TypeOK, Threads
  <2> QED
    BY <2>1 DEF Lost
<1>1. CASE UNCHANGED vars
  <2>1. UNCHANGED <<Storing, Taking, ToStore, Taken, Lost>>
    BY <1>1 DEF vars, Storing, Taking, ToStore, Taken, Lost, Leaked, At
  <2> QED
    BY <1>1, <2>1, <1>a, <1>d, <1>e, <1>goal DEF vars
<1>2. ASSUME NEW p \in Producers, WaitEmpty(p) PROVE SlotAccounting'
  <2>1. p \in Threads /\ pc[p] = "wait_empty" /\ Goto(p, "wait_mutex")
    BY <1>2, ThreadsAssumption DEF WaitEmpty, Threads
  <2>2. Storing' = Storing /\ Taking' = Taking /\ ToStore' = ToStore + 1 /\ Taken' = Taken
    BY <2>1, <1>b, ProducerMoves DEF Shape, Counts
  <2>4. /\ full' = full /\ empty' = empty - 1 /\ Lost' = Lost
        /\ Puts' = Puts /\ Takes' = Takes
    BY <1>2, <2>1, <1>d, <1>e, <1>f DEF WaitEmpty
  <2> QED
    BY <2>2, <2>4, <1>a, <1>b, <1>goal
<1>3. ASSUME NEW c \in Consumers, WaitFull(c) PROVE SlotAccounting'
  <2>1. c \in Threads /\ pc[c] = "wait_full" /\ Goto(c, "wait_mutex")
    BY <1>3, ThreadsAssumption DEF WaitFull, Threads
  <2>2. Storing' = Storing /\ Taking' = Taking + 1 /\ ToStore' = ToStore /\ Taken' = Taken
    BY <2>1, <1>b, ConsumerMoves DEF Shape, Counts
  <2>4. /\ full' = full - 1 /\ empty' = empty /\ Lost' = Lost
        /\ Puts' = Puts /\ Takes' = Takes
    BY <1>3, <2>1, <1>d, <1>e, <1>f DEF WaitFull
  <2> QED
    BY <2>2, <2>4, <1>a, <1>b, <1>goal
<1>4. ASSUME NEW p \in Producers, WaitMutex(p) PROVE SlotAccounting'
  <2>1. p \in Threads /\ pc[p] = "wait_mutex" /\ Goto(p, "put")
    BY <1>4, ThreadsAssumption DEF WaitMutex, Threads
  <2>2. Storing' = Storing /\ Taking' = Taking /\ ToStore' = ToStore /\ Taken' = Taken
    BY <2>1, <1>b, ProducerMoves DEF Shape, Counts
  <2>4. /\ full' = full /\ empty' = empty /\ Lost' = Lost
        /\ Puts' = Puts /\ Takes' = Takes
    BY <1>4, <2>1, <1>d, <1>e, <1>f DEF WaitMutex
  <2> QED
    BY <2>2, <2>4, <1>a, <1>b, <1>goal
<1>5. ASSUME NEW c \in Consumers, WaitMutex(c) PROVE SlotAccounting'
  <2>1. c \in Threads /\ pc[c] = "wait_mutex" /\ Goto(c, "get")
    BY <1>5, ThreadsAssumption DEF WaitMutex, Threads
  <2>2. Storing' = Storing /\ Taking' = Taking /\ ToStore' = ToStore /\ Taken' = Taken
    BY <2>1, <1>b, ConsumerMoves DEF Shape, Counts
  <2>4. /\ full' = full /\ empty' = empty /\ Lost' = Lost
        /\ Puts' = Puts /\ Takes' = Takes
    BY <1>5, <2>1, <1>d, <1>e, <1>f DEF WaitMutex
  <2> QED
    BY <2>2, <2>4, <1>a, <1>b, <1>goal
<1>6. ASSUME NEW p \in Producers, PutItem(p) PROVE SlotAccounting'
  <2>1. p \in Threads /\ pc[p] = "put" /\ Goto(p, "post_mutex")
    BY <1>6, ThreadsAssumption DEF PutItem, Threads
  <2>2. Storing' = Storing + 1 /\ Taking' = Taking /\ ToStore' = ToStore - 1 /\ Taken' = Taken
    BY <2>1, <1>b, ProducerMoves DEF Shape, Counts
  <2>3. Puts' = Puts + 1
    <3>1. prod_index' = prod_index + 1 /\ PillsPut' = PillsPut /\ prod_index \in Nat
      BY <1>6, ConstantsFinite, BufferAssumption DEF PutItem, PillsPut, Shape, TypeOK
    <3>2. Cardinality(PillsPut) \in Nat
      BY CountsAreNat
    <3> HIDE DEF PillsPut
    <3> QED
      BY <3>1, <3>2 DEF Puts
  <2>4. /\ full' = full /\ empty' = empty /\ Lost' = Lost
        /\ Puts' = Puts + 1 /\ Takes' = Takes
    BY <1>6, <2>1, <2>3, <1>e, <1>f DEF PutItem, sems
  <2> QED
    BY <2>2, <2>4, <1>a, <1>b, <1>goal
<1>7. ASSUME NEW p \in Producers, NoItemsLeft(p) PROVE SlotAccounting'
  <2>1. p \in Threads /\ pc[p] = "put" /\ Goto(p, "leave")
    BY <1>7, ThreadsAssumption DEF NoItemsLeft, Threads
  <2>2. Storing' = Storing /\ Taking' = Taking /\ ToStore' = ToStore - 1 /\ Taken' = Taken
    BY <2>1, <1>b, ProducerMoves DEF Shape, Counts
  <2>3. Lost' = Lost + 1
    <3>1. p \notin Leaked /\ Leaked' = Leaked \union {p}
      BY <1>7 DEF NoItemsLeft, Leaked, At, Goto, Shape, TypeOK, Threads
    <3>2. IsFiniteSet(Leaked)
      BY CountsAreNat
    <3> HIDE DEF Leaked
    <3>3. Cardinality(Leaked \union {p}) = Cardinality(Leaked) + 1
      BY <3>1, <3>2, FS_AddElement
    <3> QED
      BY <3>1, <3>3 DEF Lost
  <2>4. /\ full' = full /\ empty' = empty /\ Lost' = Lost + 1
        /\ Puts' = Puts /\ Takes' = Takes
    BY <1>7, <2>1, <2>3, <1>d, <1>e DEF NoItemsLeft, sems
  <2> QED
    BY <2>2, <2>4, <1>a, <1>b, <1>goal
<1>8. ASSUME NEW p \in Producers, Leave(p) PROVE SlotAccounting'
  <2>1. p \in Threads /\ pc[p] = "leave" /\ Goto(p, "wait_empty")
    BY <1>8, ThreadsAssumption DEF Leave, Threads
  <2>2. Storing' = Storing /\ Taking' = Taking /\ ToStore' = ToStore /\ Taken' = Taken
    BY <2>1, <1>b, ProducerMoves DEF Shape, Counts
  <2>3. Lost' = Lost
    <3>1. Leaked' = Leaked
      BY <1>8 DEF Leave, Leaked, At, Goto, Shape, TypeOK, Threads
    <3> QED
      BY <3>1 DEF Lost
  <2>4. /\ full' = full /\ empty' = empty /\ Lost' = Lost
        /\ Puts' = Puts /\ Takes' = Takes
    BY <1>8, <2>1, <2>3, <1>d, <1>e DEF Leave
  <2> QED
    BY <2>2, <2>4, <1>a, <1>b, <1>goal
<1>9. ASSUME NEW p \in Producers, PutPill(p) PROVE SlotAccounting'
  <2>1. p \in Threads /\ pc[p] = "put" /\ Goto(p, "post_mutex")
    BY <1>9, ThreadsAssumption DEF PutPill, Threads
  <2>2. Storing' = Storing + 1 /\ Taking' = Taking /\ ToStore' = ToStore - 1 /\ Taken' = Taken
    BY <2>1, <1>b, ProducerMoves DEF Shape, Counts
  <2>3. Puts' = Puts + 1
    <3> DEFINE q == <<p, pills[p] + 1>>
    <3>1. pills[p] \in 0..C /\ pills[p] < C /\ C \in Nat /\ pills \in [Producers -> 0..C]
      BY <1>9, ConstantsFinite DEF PutPill, Shape, TypeOK, Progress
    <3>2. q \notin PillsPut /\ PillsPut' = PillsPut \union {q}
      BY <1>9, <3>1 DEF PutPill, PillsPut
    <3>3. IsFiniteSet(PillsPut) /\ Cardinality(PillsPut) \in Nat
      BY CountsAreNat
    <3> HIDE DEF PillsPut, q
    <3>4. Cardinality(PillsPut \union {q}) = Cardinality(PillsPut) + 1
      BY <3>2, <3>3, FS_AddElement
    <3>5. prod_index' = prod_index /\ prod_index \in Nat
      BY <1>9, ConstantsFinite, BufferAssumption DEF PutPill, Shape, TypeOK
    <3> QED
      BY <3>2, <3>3, <3>4, <3>5 DEF Puts
  <2>4. /\ full' = full /\ empty' = empty /\ Lost' = Lost
        /\ Puts' = Puts + 1 /\ Takes' = Takes
    BY <1>9, <2>1, <2>3, <1>e, <1>f DEF PutPill, sems
  <2> QED
    BY <2>2, <2>4, <1>a, <1>b, <1>goal
<1>10. ASSUME NEW c \in Consumers, GetNul(c) PROVE SlotAccounting'
  <2>1. c \in Threads /\ pc[c] = "get" /\ Goto(c, "post_mutex")
    BY <1>10, ThreadsAssumption DEF GetNul, Threads
  <2>2. Storing' = Storing /\ Taking' = Taking - 1 /\ ToStore' = ToStore /\ Taken' = Taken + 1
    BY <2>1, <1>b, ConsumerMoves DEF Shape, Counts
  <2>3. Takes' = Takes + 1
    <3>1. c \notin ended
      BY <2>1 DEF Shape, Progress
    <3>2. Cardinality(ended \union {c}) = Cardinality(ended) + 1
      BY <3>1, CountsAreNat, FS_AddElement
    <3>3. ended' = ended \union {c} /\ printed' = printed /\ Len(printed) \in Nat
      BY <1>10 DEF GetNul, Shape, TypeOK
    <3> QED
      BY <3>2, <3>3, CountsAreNat DEF Takes
  <2>4. /\ full' = full /\ empty' = empty /\ Lost' = Lost
        /\ Puts' = Puts /\ Takes' = Takes + 1
    BY <1>10, <2>1, <2>3, <1>d, <1>f DEF GetNul, sems
  <2> QED
    BY <2>2, <2>4, <1>a, <1>b, <1>goal
<1>11. ASSUME NEW c \in Consumers, GetChar(c) PROVE SlotAccounting'
  <2>1. c \in Threads /\ pc[c] = "get" /\ Goto(c, "post_mutex")
    BY <1>11, ThreadsAssumption DEF GetChar, Threads
  <2>2. Storing' = Storing /\ Taking' = Taking - 1 /\ ToStore' = ToStore /\ Taken' = Taken + 1
    BY <2>1, <1>b, ConsumerMoves DEF Shape, Counts
  <2>3. Takes' = Takes + 1
    <3>1. Len(printed') = Len(printed) + 1 /\ Len(printed) \in Nat /\ ended' = ended
      BY <1>11 DEF GetChar, Shape, TypeOK
    <3> QED
      BY <3>1, CountsAreNat DEF Takes
  <2>4. /\ full' = full /\ empty' = empty /\ Lost' = Lost
        /\ Puts' = Puts /\ Takes' = Takes + 1
    BY <1>11, <2>1, <2>3, <1>d, <1>f DEF GetChar, sems
  <2> QED
    BY <2>2, <2>4, <1>a, <1>b, <1>goal
<1>12. ASSUME NEW p \in Producers, PostMutex(p) PROVE SlotAccounting'
  <2>1. p \in Threads /\ pc[p] = "post_mutex" /\ Goto(p, "post_full")
    BY <1>12, ThreadsAssumption DEF PostMutex, Threads
  <2>2. Storing' = Storing /\ Taking' = Taking /\ ToStore' = ToStore /\ Taken' = Taken
    BY <2>1, <1>b, ProducerMoves DEF Shape, Counts
  <2>4. /\ full' = full /\ empty' = empty /\ Lost' = Lost
        /\ Puts' = Puts /\ Takes' = Takes
    BY <1>12, <2>1, <1>d, <1>e, <1>f DEF PostMutex
  <2> QED
    BY <2>2, <2>4, <1>a, <1>b, <1>goal
<1>13. ASSUME NEW c \in Consumers, PostMutex(c) PROVE SlotAccounting'
  <2>1. c \in Threads /\ pc[c] = "post_mutex" /\ Goto(c, "post_empty")
    BY <1>13, ThreadsAssumption DEF PostMutex, Threads
  <2>2. Storing' = Storing /\ Taking' = Taking /\ ToStore' = ToStore /\ Taken' = Taken
    BY <2>1, <1>b, ConsumerMoves DEF Shape, Counts
  <2>4. /\ full' = full /\ empty' = empty /\ Lost' = Lost
        /\ Puts' = Puts /\ Takes' = Takes
    BY <1>13, <2>1, <1>d, <1>e, <1>f DEF PostMutex
  <2> QED
    BY <2>2, <2>4, <1>a, <1>b, <1>goal
<1>14. ASSUME NEW p \in Producers, PostFull(p) PROVE SlotAccounting'
  <2>1. p \in Threads /\ pc[p] = "post_full" /\ Goto(p, IF pills[p] = C THEN "done" ELSE "wait_empty")
    BY <1>14, ThreadsAssumption DEF PostFull, Threads
  <2>2. Storing' = Storing - 1 /\ Taking' = Taking /\ ToStore' = ToStore /\ Taken' = Taken
    BY <2>1, <1>b, ProducerMoves DEF Shape, Counts
  <2>4. /\ full' = full + 1 /\ empty' = empty /\ Lost' = Lost
        /\ Puts' = Puts /\ Takes' = Takes
    BY <1>14, <2>1, <1>d, <1>e, <1>f DEF PostFull
  <2> QED
    BY <2>2, <2>4, <1>a, <1>b, <1>goal
<1>15. ASSUME NEW c \in Consumers, PostEmpty(c) PROVE SlotAccounting'
  <2>1. c \in Threads /\ pc[c] = "post_empty" /\ Goto(c, IF c \in ended THEN "done" ELSE "wait_full")
    BY <1>15, ThreadsAssumption DEF PostEmpty, Threads
  <2>2. Storing' = Storing /\ Taking' = Taking /\ ToStore' = ToStore /\ Taken' = Taken - 1
    BY <2>1, <1>b, ConsumerMoves DEF Shape, Counts
  <2>4. /\ full' = full /\ empty' = empty + 1 /\ Lost' = Lost
        /\ Puts' = Puts /\ Takes' = Takes
    BY <1>15, <2>1, <1>d, <1>e, <1>f DEF PostEmpty
  <2> QED
    BY <2>2, <2>4, <1>a, <1>b, <1>goal
<1> QED
  BY <1>1, <1>2, <1>3, <1>4, <1>5, <1>6, <1>7, <1>8, <1>9, <1>10, <1>11, <1>12, <1>13,
     <1>14, <1>15
  DEF Next, Producer, Consumer, Finished

\* The counting of slots holds for every number of threads and every buffer:
\* each producer that runs out of items takes a unit of empty with it for good
\* (sem.c:23-29).
THEOREM Accounting == SafeSpec => []SlotAccounting
BY InitShape, NextShape, InitAccounting, NextAccounting, PTL DEF SafeSpec
-----------------------------------------------------------------------------
\* The ring buffer: until a consumer ends, in is as many slots behind out as
\* items are in between; once one has ended, out rests on a NUL and only NULs
\* are still put.
Ring ==
  /\ Len(printed) <= NumChars
  /\ Len(printed) <= prod_index
  /\ PendingInOrder
  /\ ended = {} => in = SlotAt(Puts - Len(printed))
  /\ ended # {} => /\ Len(printed) = NumChars
                   /\ prod_index = SizeofItems
                   /\ buffer[out] = NUL

LEMMA PutsFacts ==
  ASSUME Shape, SlotAccounting
  PROVE  /\ Len(printed) \in Nat /\ prod_index \in Nat /\ Puts \in Nat
         /\ prod_index <= Puts
         /\ prod_index < SizeofItems => Puts = prod_index
         /\ ended = {} => Len(printed) <= Puts /\ Puts <= BUF_SIZE + Len(printed)
         /\ \A c \in Consumers : pc[c] = "get" => Len(printed) + Cardinality(ended) < Puts
         /\ \A p \in Producers : pc[p] = "put" /\ ended = {} => Puts < BUF_SIZE + Len(printed)
<1>1. Len(printed) \in Nat /\ prod_index \in Nat /\ Puts \in Nat /\ Cardinality(PillsPut) \in Nat
  BY CountsAreNat, BufferAssumption, ConstantsFinite DEF Shape, TypeOK
<1>2. prod_index <= Puts
  BY <1>1 DEF Puts
<1>3. ASSUME prod_index < SizeofItems PROVE Puts = prod_index
  <2>1. prod_index # SizeofItems
    BY <1>1, <1>3, ConstantsFinite, BufferAssumption
  <2>2. \A p \in Producers : pills[p] = 0
    BY <2>1 DEF Shape, Progress
  <2>3. PillsPut = {}
    BY <2>2 DEF PillsPut
  <2>4. Cardinality(PillsPut) = 0
    BY <2>3, FS_EmptySet
  <2> QED
    BY <1>1, <2>4 DEF Puts
<1>4. /\ full + Storing + Taking + Takes = Puts
      /\ empty + ToStore + Lost + Taken + Puts = BUF_SIZE + Takes
  BY DEF SlotAccounting, Storing, Taking, ToStore, Taken, Lost
<1>5. /\ Storing \in Nat /\ Taking \in Nat /\ ToStore \in Nat /\ Taken \in Nat
      /\ Lost \in Nat /\ Takes \in Nat /\ Cardinality(ended) \in Nat
      /\ full \in Nat /\ empty \in Nat /\ BUF_SIZE \in Nat
  BY CountsAreNat, BufferAssumption DEF Shape, TypeOK
<1>6. ended = {} => Takes = Len(printed)
  BY <1>1, FS_EmptySet DEF Takes
<1>7. ended = {} => Len(printed) <= Puts /\ Puts <= BUF_SIZE + Len(printed)
  BY <1>1, <1>4, <1>5, <1>6
<1>8. ASSUME NEW c \in Consumers, pc[c] = "get"
      PROVE  Len(printed) + Cardinality(ended) < Puts
  <2> DEFINE a == At(Consumers, {"wait_mutex", "get"})
  <2>1. c \in a /\ IsFiniteSet(a) /\ Cardinality(a) \in Nat
    BY <1>8, AtFinite DEF At
  <2>2. Cardinality(a) # 0
    BY <2>1, FS_EmptySet
  <2>3. Taking >= 1
    BY <2>1, <2>2 DEF Taking
  <2> QED
    BY <2>3, <1>1, <1>4, <1>5 DEF Takes
<1>9. ASSUME NEW p \in Producers, pc[p] = "put", ended = {}
      PROVE  Puts < BUF_SIZE + Len(printed)
  <2> DEFINE a == At(Producers, {"wait_mutex", "put"})
  <2>1. p \in a /\ IsFiniteSet(a) /\ Cardinality(a) \in Nat
    BY <1>9, AtFinite DEF At
  <2>2. Cardinality(a) # 0
    BY <2>1, FS_EmptySet
  <2>3. ToStore >= 1
    BY <2>1, <2>2 DEF ToStore
  <2> QED
    BY <2>3, <1>1, <1>4, <1>5, <1>6, <1>9
<1> QED
  BY <1>1, <1>2, <1>3, <1>7, <1>8, <1>9

\* One slot further round the ring.
LEMMA NextSlot ==
  ASSUME NEW i \in 0..BUF_SIZE-1
  PROVE  (i + 1) % BUF_SIZE = IF i + 1 < BUF_SIZE THEN i + 1 ELSE 0
BY BufferAssumption, SMTT(60)

LEMMA SlotFacts ==
  ASSUME out \in 0..BUF_SIZE-1
  PROVE  /\ SlotAt(0) = out
         /\ \A k \in 0..BUF_SIZE-1 : SlotAt(k) \in 0..BUF_SIZE-1
         /\ \A j, k \in 0..BUF_SIZE-1 : SlotAt(j) = SlotAt(k) => j = k
         /\ \A k \in 0..BUF_SIZE-1 : (SlotAt(k) + 1) % BUF_SIZE = SlotAt(k + 1)
<1>1. out \in Int /\ BUF_SIZE \in Int /\ 0 <= out /\ out < BUF_SIZE
  BY BufferAssumption
<1>2. SlotAt(0) = out
  BY <1>1 DEF SlotAt
<1>3. \A k \in 0..BUF_SIZE-1 : SlotAt(k) \in 0..BUF_SIZE-1
  BY <1>1 DEF SlotAt
<1>4. \A j, k \in 0..BUF_SIZE-1 : SlotAt(j) = SlotAt(k) => j = k
  BY <1>1 DEF SlotAt
<1>5. ASSUME NEW k \in 0..BUF_SIZE-1 PROVE (SlotAt(k) + 1) % BUF_SIZE = SlotAt(k + 1)
  <2>1. (SlotAt(k) + 1) % BUF_SIZE = IF SlotAt(k) + 1 < BUF_SIZE THEN SlotAt(k) + 1 ELSE 0
    BY <1>3, NextSlot
  <2>2. k \in Int /\ 0 <= k /\ k < BUF_SIZE
    BY <1>1
  <2> QED
    BY <1>1, <2>1, <2>2 DEF SlotAt
<1> QED
  BY <1>2, <1>3, <1>4, <1>5

LEMMA ItemsValues ==
  /\ \A k \in 0..NumChars : items[k] = NUL <=> k = NumChars
  /\ \A k \in 0..NumChars : k < NumChars => items[k] = k + 1
BY BufferAssumption DEF items, NUL

LEMMA InitRing == Init => Ring
<1> SUFFICES ASSUME Init PROVE Ring
  OBVIOUS
<1>1. Len(printed) = 0 /\ prod_index = 0 /\ ended = {} /\ in = 0 /\ out = 0
  BY DEF Init
<1>2. Puts = 0
  <2>1. PillsPut = {}
    BY DEF Init, PillsPut
  <2> QED
    BY <1>1, <2>1, FS_EmptySet DEF Puts
<1>3. PendingInOrder
  BY <1>1, BufferAssumption DEF PendingInOrder
<1> QED
  BY <1>1, <1>2, <1>3, BufferAssumption DEF Ring, SlotAt

LEMMA NextRing == Shape /\ SlotAccounting /\ Ring /\ [Next]_vars => Ring'
<1> SUFFICES ASSUME Shape, SlotAccounting, Ring, [Next]_vars PROVE Ring'
  OBVIOUS
<1>a. /\ Len(printed) \in Nat /\ prod_index \in Nat /\ Puts \in Nat
      /\ prod_index <= Puts /\ prod_index <= SizeofItems
      /\ prod_index < SizeofItems => Puts = prod_index
      /\ BUF_SIZE \in Nat /\ BUF_SIZE > 0 /\ NumChars \in Nat /\ SizeofItems = NumChars + 1
      /\ in \in 0..BUF_SIZE-1 /\ out \in 0..BUF_SIZE-1
      /\ buffer \in [0..BUF_SIZE-1 -> 0..NumChars]
  BY PutsFacts, BufferAssumption, ConstantsFinite DEF Shape, TypeOK
<1>p. ASSUME UNCHANGED <<prod_index, pills>> PROVE Puts' = Puts
  BY <1>p DEF Puts, PillsPut
<1>1. ASSUME UNCHANGED <<buffer, in, out, prod_index, pills, ended, printed>> PROVE Ring'
  BY <1>1, <1>p DEF Ring, PendingInOrder, SlotAt
<1>2. ASSUME NEW p \in Producers, PutItem(p) PROVE Ring'
  <2> DEFINE n == Puts - Len(printed)
  <2>1. /\ prod_index < SizeofItems /\ pc[p] = "put"
        /\ buffer' = [buffer EXCEPT ![in] = items[prod_index]]
        /\ in' = (in + 1) % BUF_SIZE /\ prod_index' = prod_index + 1
        /\ UNCHANGED <<out, pills, ended, printed>>
    BY <1>2 DEF PutItem, Store
  <2>2. ended = {} /\ Puts = prod_index
    BY <2>1, <1>a DEF Ring
  <2>3. Puts' = Puts + 1
    <3>1. PillsPut' = PillsPut /\ Cardinality(PillsPut) \in Nat
      BY <2>1, CountsAreNat DEF PillsPut
    <3> HIDE DEF PillsPut
    <3> QED
      BY <3>1, <2>1, <1>a DEF Puts
  <2>4. n \in 0..BUF_SIZE-1
    BY <2>1, <2>2, <1>a, PutsFacts
  <2>5. in = SlotAt(n)
    BY <2>2 DEF Ring
  <2>6. PendingInOrder'
    <3> SUFFICES ASSUME NEW k \in 0..BUF_SIZE-1, Len(printed) + k < prod_index + 1
                 PROVE  buffer'[SlotAt(k)] = items[Len(printed) + k]
      BY <2>1 DEF PendingInOrder, SlotAt
    <3>1. CASE k = n
      BY <3>1, <2>1, <2>2, <2>5, <1>a
    <3>2. CASE k # n
      <4>1. Len(printed) + k < prod_index
        <5>1. k \in Int /\ prod_index \in Int /\ Len(printed) \in Int
          BY <1>a
        <5>2. k # prod_index - Len(printed)
          BY <3>2, <2>2
        <5> QED
          BY <5>1, <5>2
      <4>2. SlotAt(k) # in /\ SlotAt(k) \in 0..BUF_SIZE-1
        BY <3>2, <2>4, <2>5, <1>a, SlotFacts
      <4> QED
        BY <4>1, <4>2, <2>1, <1>a DEF Ring, PendingInOrder
    <3> QED
      BY <3>1, <3>2
  <2>7. in' = SlotAt(n + 1)
    BY <2>1, <2>4, <2>5, <1>a, SlotFacts
  <2>8. in' = SlotAt(Puts - Len(printed))'
    <3>1. Puts' - Len(printed') = n + 1
      BY <2>1, <2>3, <1>a
    <3> QED
      BY <2>1, <2>7, <3>1 DEF SlotAt
  <2> QED
    BY <2>1, <2>2, <2>6, <2>8, <1>a DEF Ring
<1>3. ASSUME NEW p \in Producers, PutPill(p) PROVE Ring'
  <2> DEFINE n == Puts - Len(printed)
  <2>1. /\ prod_index = SizeofItems /\ pc[p] = "put" /\ pills[p] \in 0..C /\ pills[p] < C
        /\ pills \in [Producers -> 0..C] /\ C \in Nat
        /\ buffer' = [buffer EXCEPT ![in] = NUL]
        /\ in' = (in + 1) % BUF_SIZE /\ pills' = [pills EXCEPT ![p] = @ + 1]
        /\ UNCHANGED <<out, prod_index, ended, printed>>
    BY <1>3, ConstantsFinite DEF PutPill, Store, Shape, TypeOK, Progress
  <2>2. Puts' = Puts + 1
    <3> DEFINE q == <<p, pills[p] + 1>>
    <3>1. q \notin PillsPut /\ PillsPut' = PillsPut \union {q}
      BY <2>1 DEF PillsPut
    <3>2. IsFiniteSet(PillsPut) /\ Cardinality(PillsPut) \in Nat
      BY CountsAreNat
    <3> HIDE DEF PillsPut, q
    <3>3. Cardinality(PillsPut \union {q}) = Cardinality(PillsPut) + 1
      BY <3>1, <3>2, FS_AddElement
    <3> QED
      BY <3>1, <3>2, <3>3, <2>1, <1>a DEF Puts
  <2>3. CASE ended = {}
    <3>1. n \in 0..BUF_SIZE-1
      BY <2>1, <2>3, <1>a, PutsFacts
    <3>2. in = SlotAt(n)
      BY <2>3 DEF Ring
    <3>3. PendingInOrder'
      <4> SUFFICES ASSUME NEW k \in 0..BUF_SIZE-1, Len(printed) + k < prod_index
                   PROVE  buffer'[SlotAt(k)] = items[Len(printed) + k]
        BY <2>1 DEF PendingInOrder, SlotAt
      <4>1. k # n
        BY <1>a
      <4>2. SlotAt(k) # in /\ SlotAt(k) \in 0..BUF_SIZE-1
        BY <4>1, <3>1, <3>2, <1>a, SlotFacts
      <4> QED
        BY <4>2, <2>1, <1>a DEF Ring, PendingInOrder
    <3>4. in' = SlotAt(n + 1)
      BY <2>1, <3>1, <3>2, <1>a, SlotFacts
    <3>5. in' = SlotAt(Puts - Len(printed))'
      <4>1. Puts' - Len(printed') = n + 1
        BY <2>1, <2>2, <1>a
      <4> QED
        BY <2>1, <3>4, <4>1 DEF SlotAt
    <3> QED
      BY <2>1, <2>3, <3>3, <3>5 DEF Ring
  <2>4. CASE ended # {}
    <3>1. buffer'[out] = NUL
      BY <2>1, <2>4, <1>a DEF Ring
    <3>2. PendingInOrder'
      <4> SUFFICES ASSUME NEW k \in 0..BUF_SIZE-1, Len(printed) + k < prod_index
                   PROVE  buffer'[SlotAt(k)] = items[Len(printed) + k]
        BY <2>1 DEF PendingInOrder, SlotAt
      <4>1. k = 0 /\ Len(printed) = NumChars
        BY <2>1, <2>4, <1>a DEF Ring
      <4>2. SlotAt(0) = out
        BY <1>a DEF SlotAt
      <4> QED
        BY <4>1, <4>2, <3>1, <1>a, ItemsValues
    <3> QED
      BY <2>1, <2>4, <3>1, <3>2 DEF Ring
  <2> QED
    BY <2>3, <2>4
<1>4. ASSUME NEW c \in Consumers, pc[c] = "get", ended = {}
      PROVE  /\ Len(printed) < prod_index
             /\ buffer[out] = items[Len(printed)]
  <2>1. Len(printed) < Puts
    BY <1>4, <1>a, PutsFacts, FS_EmptySet
  <2>2. Len(printed) < prod_index
    BY <2>1, <1>a DEF Ring
  <2>3. SlotAt(0) = out
    BY <1>a DEF SlotAt
  <2> QED
    BY <2>2, <2>3, <1>a, SMTT(30) DEF Ring, PendingInOrder
<1>5. ASSUME NEW c \in Consumers, GetNul(c) PROVE Ring'
  <2>1. pc[c] = "get" /\ buffer[out] = NUL /\ c \in ended'
        /\ UNCHANGED <<buffer, in, out, prod_index, pills, printed>>
    BY <1>5 DEF GetNul
  <2>2. Len(printed) = NumChars /\ prod_index = SizeofItems
    <3>1. CASE ended = {}
      BY <2>1, <3>1, <1>4, <1>a, ItemsValues, SMTT(30) DEF Ring
    <3>2. CASE ended # {}
      BY <3>2 DEF Ring
    <3> QED
      BY <3>1, <3>2
  <2>3. PendingInOrder'
    BY <2>1 DEF Ring, PendingInOrder, SlotAt
  <2> QED
    BY <2>1, <2>2, <2>3, <1>a DEF Ring
<1>6. ASSUME NEW c \in Consumers, GetChar(c) PROVE Ring'
  <2>1. pc[c] = "get" /\ buffer[out] # NUL /\ out' = (out + 1) % BUF_SIZE
        /\ printed' = Append(printed, buffer[out])
        /\ UNCHANGED <<buffer, in, prod_index, pills, ended>>
    BY <1>6 DEF GetChar
  <2>2. ended = {}
    BY <2>1 DEF Ring
  <2>3. Len(printed) < NumChars /\ Len(printed) < prod_index
    <3>1. Len(printed) < prod_index /\ items[Len(printed)] # NUL
      BY <2>1, <2>2, <1>4
    <3>2. Len(printed) \in 0..NumChars
      BY <1>a DEF Ring
    <3>3. Len(printed) # NumChars
      BY <3>1, <3>2, ItemsValues
    <3> QED
      BY <3>1, <3>2, <3>3, <1>a
  <2>4. Len(printed') = Len(printed) + 1
    BY <2>1 DEF Shape, TypeOK
  <2>5. out' = SlotAt(1)
    BY <2>1, <1>a, NextSlot DEF SlotAt
  <2>6. PendingInOrder'
    <3> SUFFICES ASSUME NEW k \in 0..BUF_SIZE-1, Len(printed) + 1 + k < prod_index
                 PROVE  buffer[SlotAt(k)'] = items[Len(printed) + 1 + k]
      BY <2>1, <2>4 DEF PendingInOrder
    <3>1. k + 1 \in 0..BUF_SIZE-1
      <4>1. Puts <= BUF_SIZE + Len(printed)
        BY <2>2, PutsFacts
      <4> QED
        BY <4>1, <1>a
    <3>2. SlotAt(k)' = SlotAt(k + 1)
      BY <2>5, <3>1, <1>a DEF SlotAt
    <3>3. Len(printed) + (k + 1) < prod_index => buffer[SlotAt(k + 1)] = items[Len(printed) + (k + 1)]
      BY <3>1 DEF Ring, PendingInOrder
    <3>4. Len(printed) + (k + 1) = Len(printed) + 1 + k
      BY <1>a
    <3> QED
      BY <3>2, <3>3, <3>4
  <2>7. in' = SlotAt(Puts - Len(printed))'
    <3>1. Puts <= BUF_SIZE + Len(printed) /\ Len(printed) < Puts
      BY <2>2, <2>3, <1>a, PutsFacts
    <3>2. in = SlotAt(Puts - Len(printed)) /\ in' = in /\ Puts' = Puts
      BY <2>1, <2>2, <1>p DEF Ring
    <3> QED
      BY <3>1, <3>2, <2>4, <2>5, <1>a, SMTT(30) DEF SlotAt
  <2> QED
    BY <2>1, <2>2, <2>3, <2>4, <2>6, <2>7, <1>a DEF Ring
<1> QED
  BY <1>1, <1>2, <1>3, <1>5, <1>6
  DEF Next, Producer, Consumer, Finished, vars, sems, WaitEmpty, WaitFull, WaitMutex,
      NoItemsLeft, Leave, PostMutex, PostFull, PostEmpty

\* No character that waits to be printed is overwritten or read out of order,
\* whatever the number of threads and the size of the buffer (sem.c:31-34, 66-73).
THEOREM RingIsFifo == SafeSpec => []PendingInOrder
<1>1. Ring => PendingInOrder
  BY DEF Ring
<1> QED
  BY <1>1, InitShape, NextShape, InitAccounting, NextAccounting, InitRing, NextRing, PTL
  DEF SafeSpec

-----------------------------------------------------------------------------
\* When every thread is done, every producer holds a unit of empty it will
\* never post, and all but C of the NULs are still in the buffer.
LEMMA DoneNeedsRoom == Shape /\ SlotAccounting /\ Ring => EndsOnlyWithRoom
<1> SUFFICES ASSUME Shape, SlotAccounting, Ring, AllDone PROVE Roomy
  BY DEF EndsOnlyWithRoom
<1>1. /\ \A p \in Producers : pc[p] = "done" /\ p \in left /\ pills[p] = C
      /\ \A c \in Consumers : pc[c] = "done" /\ c \in ended
  BY DEF AllDone, Threads, Shape, Progress
<1>2. /\ At(Producers, {"post_mutex", "post_full"}) = {}
      /\ At(Consumers, {"wait_mutex", "get"}) = {}
      /\ At(Producers, {"wait_mutex", "put"}) = {}
      /\ At(Consumers, {"post_mutex", "post_empty"}) = {}
  BY <1>1 DEF At
<1>3. Storing = 0 /\ Taking = 0 /\ ToStore = 0 /\ Taken = 0
  BY <1>2, FS_EmptySet DEF Storing, Taking, ToStore, Taken
<1>4. Lost = P
  <2>1. Leaked = Producers
    <3>1. left = Producers
      BY <1>1 DEF Shape, TypeOK
    <3>2. At(Producers, {"leave"}) = {}
      BY <1>1 DEF At
    <3> QED
      BY <3>1, <3>2 DEF Leaked
  <2> QED
    BY <2>1 DEF Lost, P
<1>5. Cardinality(ended) = C
  <2>1. ended = Consumers
    BY <1>1 DEF Shape, TypeOK
  <2> QED
    BY <2>1 DEF C
<1>6. Cardinality(PillsPut) = P * C
  <2>1. PillsPut = Producers \X (1..C)
    BY <1>1, ConstantsFinite DEF PillsPut
  <2>2. IsFiniteSet(1..C) /\ Cardinality(1..C) = C
    BY ConstantsFinite, FS_Interval
  <2>3. Cardinality(Producers \X (1..C)) = Cardinality(Producers) * Cardinality(1..C)
    BY <2>2, ThreadsAssumption, FS_Product
  <2> QED
    BY <2>1, <2>2, <2>3 DEF P
<1>7. Len(printed) = NumChars /\ prod_index = NumChars + 1
  BY <1>1, ThreadsAssumption, ConstantsFinite DEF Ring
<1>8. empty + ToStore + Lost + Taken + Puts = BUF_SIZE + Takes
  BY DEF SlotAccounting, ToStore, Taken, Lost
<1>9. P * C \in Nat /\ P \in Nat /\ C \in Nat
  <2>1. \A x, y \in Nat : x * y \in Nat
    OBVIOUS
  <2> QED
    BY <2>1, ConstantsFinite
<1>10. Puts = NumChars + 1 + P * C /\ Takes = NumChars + C
  BY <1>5, <1>6, <1>7 DEF Puts, Takes
<1>11. empty \in Nat /\ BUF_SIZE \in Nat /\ NumChars \in Nat
  BY BufferAssumption DEF Shape, TypeOK
<1> DEFINE pc_ == P * C
<1>12. pc_ \in Nat /\ empty + P + (NumChars + 1 + pc_) = BUF_SIZE + (NumChars + C)
  BY <1>3, <1>4, <1>8, <1>9, <1>10, <1>11
<1> HIDE DEF pc_
<1>13. 1 + P + pc_ <= BUF_SIZE + C
  BY <1>9, <1>11, <1>12
<1> QED
  BY <1>13 DEF Roomy, P, pc_

\* The program ends only when the buffer has room for what is never taken out
\* of it: with the buffer of 8 slots of sem.c:7, ./sem 4 2 never ends.
THEOREM NoEndWithoutRoom == SafeSpec => []EndsOnlyWithRoom
BY InitShape, NextShape, InitAccounting, NextAccounting, InitRing, NextRing, DoneNeedsRoom, PTL
DEF SafeSpec

-----------------------------------------------------------------------------
\* The program delivers: a step is a step of Delivery or leaves its state alone.
LEMMA StepDelivers ==
  Shape /\ SlotAccounting /\ Ring /\ [Next]_vars => [Promise!Next]_(Promise!vars)
<1> SUFFICES ASSUME Shape, SlotAccounting, Ring, [Next]_vars
             PROVE  Promise!Next \/ UNCHANGED Promise!vars
  OBVIOUS
<1>a. /\ Len(printed) \in Nat /\ prod_index \in Nat /\ NumChars \in Nat /\ BUF_SIZE \in Nat
      /\ prod_index <= NumChars + 1
  BY PutsFacts, BufferAssumption, ConstantsFinite DEF Shape, TypeOK
<1>1. ASSUME UNCHANGED <<prod_index, ended, printed>> PROVE UNCHANGED Promise!vars
  BY <1>1 DEF Promise!vars
<1>2. ASSUME NEW p \in Producers, PutItem(p) PROVE Promise!Send \/ UNCHANGED Promise!vars
  <2>1. /\ prod_index < SizeofItems /\ pc[p] = "put" /\ prod_index' = prod_index + 1
        /\ UNCHANGED <<ended, printed>>
    BY <1>2 DEF PutItem
  <2>2. ended = {} /\ Puts = prod_index
    BY <2>1, <1>a, ConstantsFinite, PutsFacts DEF Ring
  <2>3. prod_index - Len(printed) < BUF_SIZE
    BY <2>1, <2>2, <1>a, PutsFacts
  <2>4. CASE prod_index < NumChars
    BY <2>1, <2>3, <2>4, <1>a DEF Promise!Send
  <2>5. CASE prod_index = NumChars
    BY <2>1, <2>5, <1>a DEF Promise!vars
  <2> QED
    BY <2>1, <2>4, <2>5, <1>a, ConstantsFinite
<1>3. ASSUME NEW c \in Consumers, GetNul(c) PROVE Promise!Stop(c)
  <2>1. pc[c] = "get" /\ ended' = ended \union {c} /\ UNCHANGED <<prod_index, printed>>
    BY <1>3 DEF GetNul
  <2>2. c \notin ended
    BY <2>1 DEF Shape, Progress
  <2>3. Ring'
    BY NextRing
  <2>4. Len(printed) = NumChars
    BY <2>1, <2>3 DEF Ring
  <2> QED
    BY <2>1, <2>2, <2>4 DEF Promise!Stop
<1>4. ASSUME NEW c \in Consumers, GetChar(c) PROVE Promise!Deliver
  <2>1. pc[c] = "get" /\ buffer[out] # NUL /\ printed' = Append(printed, buffer[out])
        /\ UNCHANGED <<prod_index, ended>>
    BY <1>4 DEF GetChar
  <2>2. ended = {}
    BY <2>1 DEF Ring
  <2>3. Len(printed) < Puts
    BY <2>1, <2>2, <1>a, PutsFacts, FS_EmptySet
  <2>4. Len(printed) < prod_index
    BY <2>3, <1>a, PutsFacts, ConstantsFinite DEF Ring
  <2>5. SlotAt(0) = out /\ 0 \in 0..BUF_SIZE-1
    BY SlotFacts, BufferAssumption DEF Shape, TypeOK
  <2>6. buffer[out] = items[Len(printed)]
    BY <2>4, <2>5, <1>a DEF Ring, PendingInOrder
  <2>7. Len(printed) < NumChars /\ buffer[out] = Len(printed) + 1
    <3>1. Len(printed) \in 0..NumChars
      BY <1>a DEF Ring
    <3>2. Len(printed) # NumChars
      BY <3>1, <2>1, <2>6, ItemsValues
    <3> QED
      BY <3>1, <3>2, <2>6, <1>a, ItemsValues
  <2> QED
    BY <2>1, <2>4, <2>7, <1>a DEF Promise!Deliver
<1> QED
  BY <1>1, <1>2, <1>3, <1>4
  DEF Next, Producer, Consumer, Finished, vars, sems, WaitEmpty, WaitFull, WaitMutex,
      NoItemsLeft, Leave, PutPill, PostMutex, PostFull, PostEmpty, Promise!Next

\* Every character is printed once and in order, and no consumer ends before
\* the last of them is printed, for every number of threads and every string,
\* whether or not the run comes to its end (sem.c:18-81).
THEOREM Delivers == SafeSpec => Promise!SafeSpec
<1>1. Init => Promise!Init
  BY BufferAssumption DEF Init, Promise!Init
<1> QED
  BY <1>1, InitShape, NextShape, InitAccounting, NextAccounting, InitRing, NextRing,
     StepDelivers, PTL
  DEF SafeSpec, Promise!SafeSpec
=============================================================================
