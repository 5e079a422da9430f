------------------------- MODULE CondProdConsProofs -------------------------
(***************************************************************************)
(* What holds of CondProdCons for every number of producers and consumers, *)
(* every buffer size and every string.                                     *)
(***************************************************************************)
EXTENDS CondProdCons, FiniteSetTheorems, TLAPS

\* How far each thread is in its loops, and what it found in the while loop it
\* has passed: nobody else changes count while it holds the mutex.
Progress ==
  /\ \A p \in Producers :
       /\ p \notin left => pills[p] = 0
       /\ p \in left => p_index = NumChars
       /\ pc[p] \in {"lock", "test", "wait", "relock", "access"} => pills[p] < C
       /\ pc[p] = "done" => p \in left /\ pills[p] = C
       /\ pc[p] = "access" => count < BUF_SIZE
  /\ \A c \in Consumers :
       /\ c \in ended => pc[c] \in {"signal", "unlock", "done"}
       /\ pc[c] = "done" => c \in ended
       /\ pc[c] = "access" => count > 0

Shape == TypeOK /\ Progress /\ LockDiscipline

LEMMA ConstantsFinite ==
  /\ IsFiniteSet(Threads)
  /\ C \in Nat \ {0}
  /\ P \in Nat \ {0}
BY ThreadsAssumption, FS_Union, FS_CardinalityType, FS_EmptySet DEF Threads, C, P

LEMMA InitShape == Init => Shape
<1> SUFFICES ASSUME Init PROVE Shape
  OBVIOUS
<1> USE ThreadsAssumption, BufferAssumption, ConstantsFinite DEF Init
<1>1. TypeOK
  <2>1. buffer \in [0..BUF_SIZE-1 -> 0..NumChars]
    BY DEF NUL
  <2>2. /\ in \in 0..BUF_SIZE-1 /\ out \in 0..BUF_SIZE-1
        /\ p_index \in 0..NumChars /\ count \in 0..BUF_SIZE
    OBVIOUS
  <2>3. pc \in [Threads -> Steps]
    BY DEF Steps
  <2>4. pills \in [Producers -> 0..C]
    OBVIOUS
  <2>5. printed \in Seq(1..NumChars)
    OBVIOUS
  <2> QED
    BY <2>1, <2>2, <2>3, <2>4, <2>5 DEF TypeOK
<1>2. Progress
  BY DEF Progress, Threads
<1>3. LockDiscipline
  BY DEF LockDiscipline, Holding, Threads
<1> QED
  BY <1>1, <1>2, <1>3 DEF Shape

LEMMA NextShape == Shape /\ [Next]_vars => Shape'
<1> SUFFICES ASSUME Shape, [Next]_vars PROVE Shape'
  OBVIOUS
<1> USE ThreadsAssumption, BufferAssumption, ConstantsFinite
    DEF Shape, TypeOK, Progress, LockDiscipline, Threads, Steps, Holding, Goto, shared
<1>1. CASE UNCHANGED vars
  BY <1>1 DEF vars
<1>2. ASSUME NEW t \in Threads, Lock(t) PROVE Shape'
  BY <1>2 DEF Lock
<1>3. ASSUME NEW p \in Producers, WaitNotFull(p) PROVE Shape'
  BY <1>3 DEF WaitNotFull
<1>4. ASSUME NEW c \in Consumers, WaitNotEmpty(c) PROVE Shape'
  BY <1>4 DEF WaitNotEmpty
<1>5. ASSUME NEW t \in Threads, Proceed(t) PROVE Shape'
  BY <1>5 DEF Proceed
<1>6. ASSUME NEW t \in Threads, SpuriousWakeup(t) PROVE Shape'
  BY <1>6 DEF SpuriousWakeup
<1>7. ASSUME NEW p \in Producers, PutItem(p) PROVE Shape'
  <2>1. /\ buffer' \in [0..BUF_SIZE-1 -> 0..NumChars]
        /\ in' \in 0..BUF_SIZE-1 /\ p_index' \in 0..NumChars /\ count' \in 0..BUF_SIZE
    BY <1>7 DEF PutItem, Put, items
  <2>2. TypeOK'
    BY <1>7, <2>1 DEF PutItem, Put
  <2>3. Progress'
    BY <1>7 DEF PutItem, Put
  <2>4. LockDiscipline'
    BY <1>7 DEF PutItem, Put
  <2> QED
    BY <2>2, <2>3, <2>4
<1>8. ASSUME NEW p \in Producers, Leave(p) PROVE Shape'
  BY <1>8, SMTT(30) DEF Leave
<1>9. ASSUME NEW p \in Producers, PutPill(p) PROVE Shape'
  <2>1. pills[p] < C /\ p \in left /\ pills[p] + 1 \in 0..C
    BY <1>9 DEF PutPill
  <2>2. /\ buffer' \in [0..BUF_SIZE-1 -> 0..NumChars]
        /\ in' \in 0..BUF_SIZE-1 /\ count' \in 0..BUF_SIZE
    BY <1>9 DEF PutPill, Put, NUL
  <2>3. pills' \in [Producers -> 0..C]
    BY <1>9, <2>1 DEF PutPill
  <2>4. TypeOK'
    BY <1>9, <2>2, <2>3 DEF PutPill
  <2>5. Progress'
    BY <1>9, <2>1 DEF PutPill, Put
  <2>6. LockDiscipline'
    BY <1>9 DEF PutPill
  <2> QED
    BY <2>4, <2>5, <2>6
<1>10. ASSUME NEW c \in Consumers, TakeNul(c) PROVE Shape'
  <2>1. out' \in 0..BUF_SIZE-1 /\ count' \in 0..BUF_SIZE
    BY <1>10 DEF TakeNul, Take
  <2>2. TypeOK'
    BY <1>10, <2>1 DEF TakeNul
  <2>3. Progress'
    BY <1>10 DEF TakeNul, Take
  <2>4. LockDiscipline'
    BY <1>10 DEF TakeNul
  <2> QED
    BY <2>2, <2>3, <2>4
<1>11. ASSUME NEW c \in Consumers, TakeChar(c) PROVE Shape'
  <2>1. out' \in 0..BUF_SIZE-1 /\ count' \in 0..BUF_SIZE /\ buffer[out] \in 1..NumChars
    BY <1>11 DEF TakeChar, Take, NUL
  <2>2. printed' \in Seq(1..NumChars)
    BY <1>11, <2>1 DEF TakeChar
  <2>3. TypeOK'
    BY <1>11, <2>1, <2>2 DEF TakeChar
  <2>4. Progress'
    BY <1>11 DEF TakeChar, Take
  <2>5. LockDiscipline'
    BY <1>11 DEF TakeChar
  <2> QED
    BY <2>3, <2>4, <2>5
<1>12. ASSUME NEW p \in Producers, SignalNotEmpty(p) PROVE Shape'
  <2>1. /\ pc[p] = "signal" /\ UNCHANGED <<shared, mutex, not_full, left, pills, ended, printed>>
    BY <1>12 DEF SignalNotEmpty
  <2>2. CASE not_empty = {} /\ Goto(p, "unlock") /\ UNCHANGED not_empty
    BY <2>1, <2>2
  <2>3. ASSUME NEW c \in not_empty, not_empty' = not_empty \ {c},
               pc' = [pc EXCEPT ![p] = "unlock", ![c] = "relock"]
        PROVE  Shape'
    <3>1. c \in Consumers /\ pc[c] = "wait" /\ c # p
      BY <2>1
    <3>2. \A x \in Threads : pc'[x] = IF x = c THEN "relock" ELSE IF x = p THEN "unlock" ELSE pc[x]
      BY <2>3, <3>1
    <3>3. pc' \in [Threads -> Steps]
      BY <2>3, <3>1
    <3>4. TypeOK'
      BY <2>1, <2>3, <3>3
    <3>5. Progress'
      BY <2>1, <3>1, <3>2, ZenonT(40)
    <3>6. LockDiscipline'
      BY <2>1, <2>3, <3>1, <3>2
    <3> QED
      BY <3>4, <3>5, <3>6
  <2> QED
    BY <1>12, <2>2, <2>3 DEF SignalNotEmpty
<1>13. ASSUME NEW c \in Consumers, SignalNotFull(c) PROVE Shape'
  <2>1. /\ pc[c] = "signal" /\ UNCHANGED <<shared, mutex, not_empty, left, pills, ended, printed>>
    BY <1>13 DEF SignalNotFull
  <2>2. CASE not_full = {} /\ Goto(c, "unlock") /\ UNCHANGED not_full
    BY <2>1, <2>2
  <2>3. ASSUME NEW p \in not_full, not_full' = not_full \ {p},
               pc' = [pc EXCEPT ![c] = "unlock", ![p] = "relock"]
        PROVE  Shape'
    <3>1. p \in Producers /\ pc[p] = "wait" /\ p # c
      BY <2>1
    <3>2. \A x \in Threads : pc'[x] = IF x = p THEN "relock" ELSE IF x = c THEN "unlock" ELSE pc[x]
      BY <2>3, <3>1
    <3>3. pc' \in [Threads -> Steps]
      BY <2>3, <3>1
    <3>4. TypeOK'
      BY <2>1, <2>3, <3>3
    <3>5. Progress'
      BY <2>1, <3>1, <3>2, ZenonT(40)
    <3>6. LockDiscipline'
      BY <2>1, <2>3, <3>1, <3>2
    <3> QED
      BY <3>4, <3>5, <3>6
  <2> QED
    BY <1>13, <2>2, <2>3 DEF SignalNotFull
<1>14. ASSUME NEW t \in Threads, Unlock(t) PROVE Shape'
  BY <1>14 DEF Unlock
<1> QED
  BY <1>1, <1>2, <1>3, <1>4, <1>5, <1>6, <1>7, <1>8, <1>9, <1>10, <1>11, <1>12, <1>13, <1>14
  DEF Next, Work, Producer, Consumer, Finished

\* Whatever the interleaving, the buffer, its indices, its count and the
\* printout stay in their ranges.
THEOREM Typing == SafeSpec => []TypeOK
<1>1. Shape => TypeOK
  BY DEF Shape
<1> QED
  BY <1>1, InitShape, NextShape, PTL DEF SafeSpec

\* The mutex has one owner, and the threads asleep on each condition variable
\* are the producers and the consumers that wait there.
THEOREM Discipline == SafeSpec => []LockDiscipline
<1>1. Shape => LockDiscipline
  BY DEF Shape
<1> QED
  BY <1>1, InitShape, NextShape, PTL DEF SafeSpec
-----------------------------------------------------------------------------
\* How many threads are on their way to an item or to a free slot.
LEMMA OnTheWayFinite ==
  /\ IsFiniteSet(ToTake) /\ Cardinality(ToTake) \in Nat
  /\ IsFiniteSet(ToTake') /\ Cardinality(ToTake') \in Nat
  /\ IsFiniteSet(ToPut) /\ Cardinality(ToPut) \in Nat
  /\ IsFiniteSet(ToPut') /\ Cardinality(ToPut') \in Nat
<1>1. /\ ToTake \subseteq Threads /\ ToTake' \subseteq Threads
      /\ ToPut \subseteq Threads /\ ToPut' \subseteq Threads
  BY DEF ToTake, ToPut
<1> QED
  BY <1>1, ConstantsFinite, FS_Subset, FS_CardinalityType

\* How the size of a set changes when a member comes, goes or is replaced.
LEMMA Sizes ==
  ASSUME NEW a, NEW b, IsFiniteSet(a), IsFiniteSet(b)
  PROVE  /\ a \subseteq b => Cardinality(a) <= Cardinality(b)
         /\ \A t : t \notin a /\ b = a \union {t} => Cardinality(b) = Cardinality(a) + 1
         /\ \A t : t \in a /\ b = a \ {t} => Cardinality(b) = Cardinality(a) - 1
         /\ \A t, u : t \in a /\ u \notin a /\ b = (a \ {t}) \union {u}
                        => Cardinality(b) = Cardinality(a)
<1>1. a \subseteq b => Cardinality(a) <= Cardinality(b)
  BY FS_Subset
<1>2. ASSUME NEW t, t \notin a, b = a \union {t} PROVE Cardinality(b) = Cardinality(a) + 1
  BY <1>2, FS_AddElement
<1>3. ASSUME NEW t, t \in a, b = a \ {t} PROVE Cardinality(b) = Cardinality(a) - 1
  BY <1>3, FS_RemoveElement
<1>4. ASSUME NEW t, NEW u, t \in a, u \notin a, b = (a \ {t}) \union {u}
      PROVE  Cardinality(b) = Cardinality(a)
  <2> DEFINE c == a \ {t}
  <2>1. IsFiniteSet(c) /\ Cardinality(c) = Cardinality(a) - 1
    BY <1>4, FS_RemoveElement
  <2>2. u \notin c /\ b = c \union {u}
    BY <1>4
  <2> HIDE DEF c
  <2>3. Cardinality(b) = Cardinality(c) + 1
    BY <2>1, <2>2, FS_AddElement
  <2>4. Cardinality(a) \in Nat /\ Cardinality(c) \in Nat
    BY <2>1, FS_CardinalityType
  <2> QED
    BY <2>1, <2>3, <2>4
<1> QED
  BY <1>1, <1>2, <1>3, <1>4

LEMMA NextNoLostWakeup == Shape /\ NoLostWakeup /\ [Next]_vars => NoLostWakeup'
<1> SUFFICES ASSUME Shape, NoLostWakeup, [Next]_vars PROVE NoLostWakeup'
  OBVIOUS
<1> DEFINE take == Cardinality(ToTake)
           put == Cardinality(ToPut)
<1>a. /\ take \in Nat /\ take' \in Nat /\ put \in Nat /\ put' \in Nat
      /\ count \in Nat /\ BUF_SIZE \in Nat /\ count <= BUF_SIZE
      /\ not_empty # {} => count <= take
      /\ not_full # {} => BUF_SIZE - count <= put
  BY OnTheWayFinite, BufferAssumption DEF NoLostWakeup, Shape, TypeOK
<1>s. /\ ToTake \subseteq ToTake' => take <= take'
      /\ ToPut \subseteq ToPut' => put <= put'
      /\ \A t : t \notin ToTake /\ ToTake' = ToTake \union {t} => take' = take + 1
      /\ \A t : t \notin ToPut /\ ToPut' = ToPut \union {t} => put' = put + 1
      /\ \A t : t \in ToTake /\ ToTake' = ToTake \ {t} => take' = take - 1
      /\ \A t : t \in ToPut /\ ToPut' = ToPut \ {t} => put' = put - 1
      /\ \A t, u : t \in ToTake /\ u \notin ToTake /\ ToTake' = (ToTake \ {t}) \union {u}
                     => take' = take
      /\ \A t, u : t \in ToPut /\ u \notin ToPut /\ ToPut' = (ToPut \ {t}) \union {u}
                     => put' = put
  <2> DEFINE a == ToTake
             b == ToTake'
             c == ToPut
             d == ToPut'
  <2>1. IsFiniteSet(a) /\ IsFiniteSet(b) /\ IsFiniteSet(c) /\ IsFiniteSet(d)
    BY OnTheWayFinite
  <2> HIDE DEF a, b, c, d
  <2>2. /\ a \subseteq b => Cardinality(a) <= Cardinality(b)
        /\ \A t : t \notin a /\ b = a \union {t} => Cardinality(b) = Cardinality(a) + 1
        /\ \A t : t \in a /\ b = a \ {t} => Cardinality(b) = Cardinality(a) - 1
        /\ \A t, u : t \in a /\ u \notin a /\ b = (a \ {t}) \union {u}
                       => Cardinality(b) = Cardinality(a)
    BY <2>1, Sizes
  <2>3. /\ c \subseteq d => Cardinality(c) <= Cardinality(d)
        /\ \A t : t \notin c /\ d = c \union {t} => Cardinality(d) = Cardinality(c) + 1
        /\ \A t : t \in c /\ d = c \ {t} => Cardinality(d) = Cardinality(c) - 1
        /\ \A t, u : t \in c /\ u \notin c /\ d = (c \ {t}) \union {u}
                       => Cardinality(d) = Cardinality(c)
    BY <2>1, Sizes
  <2> QED
    BY <2>2, <2>3 DEF a, b, c, d
<1>goal. ASSUME /\ not_empty' # {} => count' <= take'
                /\ not_full' # {} => BUF_SIZE - count' <= put'
         PROVE  NoLostWakeup'
  BY <1>goal DEF NoLostWakeup
<1> HIDE DEF take, put
\* A step that lets nobody sleep, leaves the count and takes nobody away.
<1>b. ASSUME count' = count, not_empty' \subseteq not_empty, not_full' \subseteq not_full,
             ToTake \subseteq ToTake', ToPut \subseteq ToPut'
      PROVE  NoLostWakeup'
  <2>1. take <= take' /\ put <= put'
    BY <1>b, <1>s
  <2>2. /\ not_empty' # {} => not_empty # {}
        /\ not_full' # {} => not_full # {}
    BY <1>b
  <2> QED
    BY <1>a, <1>b, <1>goal, <2>1, <2>2
<1> USE ThreadsAssumption
    DEF Shape, TypeOK, Progress, LockDiscipline, Threads, Steps, Holding, Goto, shared
<1>1. CASE UNCHANGED vars
  BY <1>1, <1>b DEF vars, ToTake, ToPut
<1>2. ASSUME NEW t \in Threads, Lock(t) PROVE NoLostWakeup'
  BY <1>2, <1>b DEF Lock, ToTake, ToPut
<1>3. ASSUME NEW p \in Producers, WaitNotFull(p) PROVE NoLostWakeup'
  <2>1. count = BUF_SIZE /\ count' = count /\ not_empty' = not_empty
    BY <1>3 DEF WaitNotFull
  <2>2. ToTake \subseteq ToTake'
    BY <1>3 DEF WaitNotFull, ToTake
  <2>3. take <= take'
    BY <2>2, <1>s
  <2> QED
    BY <2>1, <2>3, <1>a, <1>goal
<1>4. ASSUME NEW c \in Consumers, WaitNotEmpty(c) PROVE NoLostWakeup'
  <2>1. count = 0 /\ count' = count /\ not_full' = not_full
    BY <1>4 DEF WaitNotEmpty
  <2>2. ToPut \subseteq ToPut'
    BY <1>4 DEF WaitNotEmpty, ToPut
  <2>3. put <= put'
    BY <2>2, <1>s
  <2> QED
    BY <2>1, <2>3, <1>a, <1>goal
<1>5. ASSUME NEW t \in Threads, Proceed(t) PROVE NoLostWakeup'
  BY <1>5, <1>b DEF Proceed, ToTake, ToPut
<1>6. ASSUME NEW t \in Threads, SpuriousWakeup(t) PROVE NoLostWakeup'
  BY <1>6, <1>b DEF SpuriousWakeup, ToTake, ToPut
<1>7. ASSUME NEW p \in Producers, PutItem(p) \/ PutPill(p) PROVE NoLostWakeup'
  <2>1. /\ pc[p] = "access" /\ count' = count + 1 /\ pc' = [pc EXCEPT ![p] = "signal"]
        /\ UNCHANGED <<not_empty, not_full, left>>
        /\ \A x \in Producers : x # p => pills'[x] = pills[x]
    BY <1>7 DEF PutItem, PutPill, Put
  <2>2. p \notin ToTake /\ ToTake' = ToTake \union {p}
    BY <2>1 DEF ToTake
  <2>3. p \in ToPut /\ ToPut' = ToPut \ {p}
    BY <2>1 DEF ToPut
  <2>4. take' = take + 1 /\ put' = put - 1
    BY <2>2, <2>3, <1>s
  <2> QED
    BY <2>1, <2>4, <1>a, <1>goal
<1>8. ASSUME NEW p \in Producers, Leave(p) PROVE NoLostWakeup'
  BY <1>8, <1>b DEF Leave, ToTake, ToPut
<1>10. ASSUME NEW c \in Consumers, TakeNul(c) \/ TakeChar(c) PROVE NoLostWakeup'
  <2>1. /\ pc[c] = "access" /\ count' = count - 1 /\ pc' = [pc EXCEPT ![c] = "signal"]
        /\ UNCHANGED <<not_empty, not_full, left, pills>>
    BY <1>10 DEF TakeNul, TakeChar, Take
  <2>2. c \in ToTake /\ ToTake' = ToTake \ {c}
    BY <2>1 DEF ToTake
  <2>3. c \notin ToPut /\ ToPut' = ToPut \union {c}
    BY <2>1 DEF ToPut
  <2>4. take' = take - 1 /\ put' = put + 1
    BY <2>2, <2>3, <1>s
  <2> QED
    BY <2>1, <2>4, <1>a, <1>goal
<1>12. ASSUME NEW p \in Producers, SignalNotEmpty(p) PROVE NoLostWakeup'
  <2>1. /\ pc[p] = "signal"
        /\ UNCHANGED <<shared, mutex, not_full, left, pills, ended, printed>>
    BY <1>12 DEF SignalNotEmpty
  <2>2. CASE not_empty = {} /\ Goto(p, "unlock") /\ UNCHANGED not_empty
    <3>1. ToPut \subseteq ToPut'
      BY <2>1, <2>2 DEF ToPut
    <3>2. put <= put'
      BY <3>1, <1>s
    <3> QED
      BY <2>1, <2>2, <3>2, <1>a, <1>goal
  <2>3. ASSUME NEW c \in not_empty, not_empty' = not_empty \ {c},
               pc' = [pc EXCEPT ![p] = "unlock", ![c] = "relock"]
        PROVE  NoLostWakeup'
    <3>1. c \in Consumers /\ pc[c] = "wait" /\ c # p
      BY <2>1
    <3>2. p \in ToTake /\ c \notin ToTake /\ ToTake' = (ToTake \ {p}) \union {c}
      BY <2>1, <2>3, <3>1 DEF ToTake
    <3>3. ToPut \subseteq ToPut'
      BY <2>1, <2>3, <3>1 DEF ToPut
    <3>4. take' = take /\ put <= put'
      BY <3>2, <3>3, <1>s
    <3> QED
      BY <2>1, <2>3, <3>4, <1>a, <1>goal
  <2> QED
    BY <1>12, <2>2, <2>3 DEF SignalNotEmpty
<1>13. ASSUME NEW c \in Consumers, SignalNotFull(c) PROVE NoLostWakeup'
  <2>1. /\ pc[c] = "signal"
        /\ UNCHANGED <<shared, mutex, not_empty, left, pills, ended, printed>>
    BY <1>13 DEF SignalNotFull
  <2>2. CASE not_full = {} /\ Goto(c, "unlock") /\ UNCHANGED not_full
    <3>1. ToTake \subseteq ToTake'
      BY <2>1, <2>2 DEF ToTake
    <3>2. take <= take'
      BY <3>1, <1>s
    <3> QED
      BY <2>1, <2>2, <3>2, <1>a, <1>goal
  <2>3. ASSUME NEW p \in not_full, not_full' = not_full \ {p},
               pc' = [pc EXCEPT ![c] = "unlock", ![p] = "relock"]
        PROVE  NoLostWakeup'
    <3>1. p \in Producers /\ pc[p] = "wait" /\ c # p
      BY <2>1
    <3>2. c \in ToPut /\ p \notin ToPut /\ ToPut' = (ToPut \ {c}) \union {p}
      BY <2>1, <2>3, <3>1 DEF ToPut
    <3>3. ToTake \subseteq ToTake'
      BY <2>1, <2>3, <3>1 DEF ToTake
    <3>4. put' = put /\ take <= take'
      BY <3>2, <3>3, <1>s
    <3> QED
      BY <2>1, <2>3, <3>4, <1>a, <1>goal
  <2> QED
    BY <1>13, <2>2, <2>3 DEF SignalNotFull
<1>14. ASSUME NEW t \in Threads, Unlock(t) PROVE NoLostWakeup'
  BY <1>14, <1>b DEF Unlock, ToTake, ToPut
<1> QED
  BY <1>1, <1>2, <1>3, <1>4, <1>5, <1>6, <1>7, <1>8, <1>10, <1>12, <1>13, <1>14
  DEF Next, Work, Producer, Consumer, Finished

\* No wakeup is lost for any number of threads and any buffer, although signals
\* wake one thread only and a producer that leaves passes none on.
THEOREM WakeupsArrive == SafeSpec => []NoLostWakeup
<1>1. Init => NoLostWakeup
  BY DEF Init, NoLostWakeup
<1> QED
  BY <1>1, InitShape, NextShape, NextNoLostWakeup, PTL DEF SafeSpec
-----------------------------------------------------------------------------
\* The ring buffer with what else is known of it: the characters that wait are
\* all in the buffer and pills come after the last of them.
Fifo ==
  /\ Ring
  /\ Len(printed) <= p_index
  /\ p_index <= Len(printed) + count
  /\ p_index < NumChars => p_index = Len(printed) + count
  /\ ended # {} => Len(printed) = NumChars

\* One slot further round the ring.
LEMMA NextSlot ==
  ASSUME NEW i \in 0..BUF_SIZE-1
  PROVE  (i + 1) % BUF_SIZE = IF i + 1 < BUF_SIZE THEN i + 1 ELSE 0
BY BufferAssumption, SMTT(60)

LEMMA SlotFacts ==
  ASSUME out \in 0..BUF_SIZE-1
  PROVE  /\ SlotAt(0) = out
         /\ \A k \in 0..BUF_SIZE-1 : SlotAt(k) \in 0..BUF_SIZE-1
         /\ \A j, k \in 0..BUF_SIZE-1 : SlotAt(j) = SlotAt(k) => j = k
         /\ \A k \in 0..BUF_SIZE-1 : (SlotAt(k) + 1) % BUF_SIZE = SlotAt(k + 1)
<1>1. out \in Int /\ BUF_SIZE \in Int /\ 0 <= out /\ out < BUF_SIZE
  BY BufferAssumption
<1>2. SlotAt(0) = out
  BY <1>1 DEF SlotAt
<1>3. \A k \in 0..BUF_SIZE-1 : SlotAt(k) \in 0..BUF_SIZE-1
  BY <1>1 DEF SlotAt
<1>4. \A j, k \in 0..BUF_SIZE-1 : SlotAt(j) = SlotAt(k) => j = k
  BY <1>1 DEF SlotAt
<1>5. ASSUME NEW k \in 0..BUF_SIZE-1 PROVE (SlotAt(k) + 1) % BUF_SIZE = SlotAt(k + 1)
  <2>1. (SlotAt(k) + 1) % BUF_SIZE = IF SlotAt(k) + 1 < BUF_SIZE THEN SlotAt(k) + 1 ELSE 0
    BY <1>3, NextSlot
  <2>2. k \in Int /\ 0 <= k /\ k < BUF_SIZE
    BY <1>1
  <2> QED
    BY <1>1, <2>1, <2>2 DEF SlotAt
<1> QED
  BY <1>2, <1>3, <1>4, <1>5

LEMMA ItemsValues == \A k \in 0..NumChars-1 : items[k] = k + 1 /\ items[k] # NUL
BY BufferAssumption DEF items, NUL

LEMMA InitFifo == Init => Fifo
<1> SUFFICES ASSUME Init PROVE Fifo
  OBVIOUS
<1>1. /\ Len(printed) = 0 /\ p_index = 0 /\ ended = {} /\ in = 0 /\ out = 0 /\ count = 0
      /\ BUF_SIZE \in Nat /\ BUF_SIZE > 0 /\ NumChars \in Nat
  BY BufferAssumption DEF Init
<1>2. Ring
  BY <1>1 DEF Ring, SlotAt
<1> QED
  BY <1>1, <1>2 DEF Fifo

\* What a consumer past its while loop finds at out.
LEMMA AtOut ==
  ASSUME Shape, Fifo, NEW c \in Consumers, pc[c] = "access"
  PROVE  /\ buffer[out] = NUL => Len(printed) = p_index /\ p_index = NumChars
         /\ buffer[out] # NUL => /\ Len(printed) < p_index /\ ended = {}
                                 /\ buffer[out] = Len(printed) + 1
<1>1. /\ Len(printed) \in Nat /\ p_index \in Nat /\ count \in Nat /\ count > 0
      /\ NumChars \in Nat /\ BUF_SIZE \in Nat /\ BUF_SIZE > 0 /\ p_index <= NumChars
      /\ Len(printed) <= p_index
  BY BufferAssumption DEF Shape, TypeOK, Progress, Fifo
<1>2. SlotAt(0) = out /\ 0 \in 0..BUF_SIZE-1
  BY <1>1, SlotFacts DEF Shape, TypeOK
<1>3. buffer[out] = IF Len(printed) + 0 < p_index THEN items[Len(printed) + 0] ELSE NUL
  BY <1>1, <1>2 DEF Fifo, Ring
<1>4. CASE Len(printed) < p_index
  <2>1. Len(printed) \in 0..NumChars-1
    BY <1>1, <1>4
  <2>2. buffer[out] = Len(printed) + 1 /\ buffer[out] # NUL
    BY <1>1, <1>3, <1>4, <2>1, ItemsValues
  <2>3. ended = {}
    BY <1>1, <1>4 DEF Fifo
  <2> QED
    BY <1>4, <2>2, <2>3
<1>5. CASE Len(printed) = p_index
  <2>1. buffer[out] = NUL
    BY <1>1, <1>3, <1>5
  <2>2. p_index = NumChars
    BY <1>1, <1>5 DEF Fifo
  <2> QED
    BY <1>5, <2>1, <2>2
<1> QED
  BY <1>1, <1>4, <1>5

\* A store puts the next value at the end of the ring.
LEMMA PutKeepsRing ==
  ASSUME Shape, Fifo, NEW item, Put(item), count < BUF_SIZE, UNCHANGED <<out, printed>>,
         p_index' \in Nat,
         \/ p_index' = p_index + 1 /\ p_index = Len(printed) + count /\ item = items[p_index]
         \/ p_index' = p_index /\ item = NUL
  PROVE  Ring'
<1>1. /\ buffer' = [buffer EXCEPT ![in] = item] /\ in' = (in + 1) % BUF_SIZE
      /\ count' = count + 1 /\ in = SlotAt(count)
  BY DEF Put, Fifo, Ring
<1>2. /\ Len(printed) \in Nat /\ p_index \in Nat /\ count \in Nat /\ count \in 0..BUF_SIZE-1
      /\ BUF_SIZE \in Nat /\ BUF_SIZE > 0 /\ p_index <= Len(printed) + count
      /\ out \in 0..BUF_SIZE-1 /\ in \in 0..BUF_SIZE-1
      /\ buffer \in [0..BUF_SIZE-1 -> 0..NumChars]
  BY BufferAssumption DEF Shape, TypeOK, Fifo
<1>3. in' = SlotAt(count + 1)
  BY <1>1, <1>2, SlotFacts
<1>4. in' = SlotAt(count)'
  BY <1>1, <1>3 DEF SlotAt
<1>5. ASSUME NEW k \in 0..BUF_SIZE-1, k < count + 1
      PROVE  buffer'[SlotAt(k)]
               = IF Len(printed) + k < p_index' THEN items[Len(printed) + k] ELSE NUL
  <2>1. CASE k = count
    <3>1. buffer'[SlotAt(k)] = item
      BY <1>1, <1>2, <2>1
    <3>2. CASE p_index' = p_index + 1 /\ p_index = Len(printed) + count /\ item = items[p_index]
      BY <1>2, <2>1, <3>1, <3>2
    <3>3. CASE p_index' = p_index /\ item = NUL
      BY <1>2, <2>1, <3>1, <3>3
    <3> QED
      BY <3>2, <3>3
  <2>2. CASE k < count
    <3>1. SlotAt(k) # in /\ SlotAt(k) \in 0..BUF_SIZE-1
      <4>1. SlotAt(k) = SlotAt(count) => k = count
        BY <1>2, SlotFacts
      <4>2. k # count
        BY <1>2, <2>2
      <4>3. SlotAt(k) \in 0..BUF_SIZE-1
        BY <1>2, SlotFacts
      <4> QED
        BY <1>1, <4>1, <4>2, <4>3
    <3>2. buffer'[SlotAt(k)] = buffer[SlotAt(k)]
      BY <1>1, <1>2, <3>1
    <3>3. buffer[SlotAt(k)] = IF Len(printed) + k < p_index THEN items[Len(printed) + k] ELSE NUL
      BY <2>2 DEF Fifo, Ring
    <3>4. Len(printed) + k < p_index' <=> Len(printed) + k < p_index
      BY <1>2, <2>2
    <3> QED
      BY <3>2, <3>3, <3>4
  <2> QED
    BY <1>2, <1>5, <2>1, <2>2
<1>6. \A k \in 0..BUF_SIZE-1 : SlotAt(k)' = SlotAt(k)
  BY DEF SlotAt
<1> QED
  BY <1>1, <1>4, <1>5, <1>6 DEF Ring

\* A take moves the ring on by one slot, past a character or past a NUL.
LEMMA TakeKeepsRing ==
  ASSUME Shape, Fifo, Take, count > 0, UNCHANGED <<buffer, in, p_index>>,
         \/ Len(printed') = Len(printed) + 1
         \/ Len(printed') = Len(printed) /\ Len(printed) = p_index
  PROVE  Ring'
<1>1. /\ out' = (out + 1) % BUF_SIZE /\ count' = count - 1 /\ in = SlotAt(count)
  BY DEF Take, Fifo, Ring
<1>2. /\ Len(printed) \in Nat /\ p_index \in Nat /\ count \in Nat /\ count <= BUF_SIZE
      /\ BUF_SIZE \in Nat /\ BUF_SIZE > 0 /\ out \in 0..BUF_SIZE-1
  BY BufferAssumption DEF Shape, TypeOK
<1>3. out' = SlotAt(1)
  <2>1. SlotAt(0) = out /\ 0 \in 0..BUF_SIZE-1
    BY <1>2, SlotFacts
  <2>2. (SlotAt(0) + 1) % BUF_SIZE = SlotAt(0 + 1)
    BY <1>2, <2>1, SlotFacts
  <2> QED
    BY <1>1, <2>1, <2>2
<1>4. \A k \in Nat : k + 1 <= BUF_SIZE => SlotAt(k)' = SlotAt(k + 1)
  BY <1>2, <1>3 DEF SlotAt
<1>5. in' = SlotAt(count)'
  <2>1. count - 1 \in Nat /\ (count - 1) + 1 = count /\ count <= BUF_SIZE
    BY <1>2
  <2>2. SlotAt(count)' = IF out' + (count - 1) < BUF_SIZE THEN out' + (count - 1) ELSE out' + (count - 1) - BUF_SIZE
    BY <1>1 DEF SlotAt
  <2> QED
    BY <1>1, <1>2, <1>3, <2>1, <2>2 DEF SlotAt
<1>6. ASSUME NEW k \in 0..BUF_SIZE-1, k < count - 1
      PROVE  buffer[SlotAt(k)']
               = IF Len(printed') + k < p_index THEN items[Len(printed') + k] ELSE NUL
  <2>1. k + 1 \in 0..BUF_SIZE-1 /\ k + 1 < count /\ k \in Nat
    BY <1>2, <1>6
  <2>2. SlotAt(k)' = SlotAt(k + 1)
    <3>1. k + 1 <= BUF_SIZE
      BY <1>2, <2>1
    <3> QED
      BY <1>4, <2>1, <3>1
  <2>3. buffer[SlotAt(k + 1)]
          = IF Len(printed) + (k + 1) < p_index THEN items[Len(printed) + (k + 1)] ELSE NUL
    BY <2>1 DEF Fifo, Ring
  <2>4. CASE Len(printed') = Len(printed) + 1
    <3>1. Len(printed) + (k + 1) = Len(printed') + k
      BY <1>2, <2>1, <2>4
    <3> QED
      BY <2>2, <2>3, <3>1
  <2>5. CASE Len(printed') = Len(printed) /\ Len(printed) = p_index
    <3>1. ~(Len(printed) + (k + 1) < p_index) /\ ~(Len(printed') + k < p_index)
      BY <1>2, <2>1, <2>5
    <3> QED
      BY <2>2, <2>3, <3>1
  <2> QED
    BY <2>4, <2>5
<1> QED
  BY <1>1, <1>5, <1>6 DEF Ring

LEMMA NextFifo == Shape /\ Fifo /\ [Next]_vars => Fifo'
<1> SUFFICES ASSUME Shape, Fifo, [Next]_vars PROVE Fifo'
  OBVIOUS
<1>a. /\ Len(printed) \in Nat /\ p_index \in Nat /\ count \in Nat /\ NumChars \in Nat
      /\ BUF_SIZE \in Nat /\ p_index <= NumChars
      /\ Len(printed) <= p_index /\ p_index <= Len(printed) + count
      /\ p_index < NumChars => p_index = Len(printed) + count
      /\ ended # {} => Len(printed) = NumChars
  BY BufferAssumption DEF Shape, TypeOK, Fifo
<1>1. ASSUME UNCHANGED <<buffer, in, out, p_index, count, ended, printed>> PROVE Fifo'
  BY <1>1 DEF Fifo, Ring, SlotAt
<1>2. ASSUME NEW p \in Producers, PutItem(p) PROVE Fifo'
  <2>1. /\ pc[p] = "access" /\ p_index < NumChars /\ Put(items[p_index]) /\ p_index' = p_index + 1
        /\ UNCHANGED <<out, ended, printed>>
    BY <1>2 DEF PutItem
  <2>2. count < BUF_SIZE
    BY <2>1 DEF Shape, Progress
  <2>3. Ring'
    BY <1>a, <2>1, <2>2, PutKeepsRing
  <2>4. count' = count + 1
    BY <2>1 DEF Put
  <2> QED
    BY <1>a, <2>1, <2>3, <2>4 DEF Fifo
<1>3. ASSUME NEW p \in Producers, PutPill(p) PROVE Fifo'
  <2>1. /\ pc[p] = "access" /\ p \in left /\ Put(NUL)
        /\ UNCHANGED <<p_index, out, ended, printed>>
    BY <1>3 DEF PutPill
  <2>2. count < BUF_SIZE /\ p_index = NumChars
    BY <2>1 DEF Shape, Progress
  <2>3. Ring'
    BY <1>a, <2>1, <2>2, PutKeepsRing
  <2>4. count' = count + 1
    BY <2>1 DEF Put
  <2> QED
    BY <1>a, <2>1, <2>2, <2>3, <2>4 DEF Fifo
<1>4. ASSUME NEW c \in Consumers, TakeNul(c) PROVE Fifo'
  <2>1. /\ pc[c] = "access" /\ buffer[out] = NUL /\ Take
        /\ UNCHANGED <<buffer, in, p_index, printed>>
    BY <1>4 DEF TakeNul
  <2>2. count > 0 /\ Len(printed) = p_index /\ p_index = NumChars
    BY <2>1, AtOut DEF Shape, Progress
  <2>3. Ring'
    BY <2>1, <2>2, TakeKeepsRing
  <2>4. count' = count - 1
    BY <2>1 DEF Take
  <2> QED
    BY <1>a, <2>1, <2>2, <2>3, <2>4 DEF Fifo
<1>5. ASSUME NEW c \in Consumers, TakeChar(c) PROVE Fifo'
  <2>1. /\ pc[c] = "access" /\ buffer[out] # NUL /\ Take
        /\ printed' = Append(printed, buffer[out])
        /\ UNCHANGED <<buffer, in, p_index, ended>>
    BY <1>5 DEF TakeChar
  <2>2. count > 0 /\ Len(printed) < p_index /\ ended = {}
    BY <2>1, AtOut DEF Shape, Progress
  <2>3. Len(printed') = Len(printed) + 1
    BY <2>1 DEF Shape, TypeOK
  <2>4. Ring'
    BY <2>1, <2>2, <2>3, TakeKeepsRing
  <2>5. count' = count - 1
    BY <2>1 DEF Take
  <2> QED
    BY <1>a, <2>1, <2>2, <2>3, <2>4, <2>5 DEF Fifo
<1> QED
  BY <1>1, <1>2, <1>3, <1>4, <1>5
  DEF Next, Work, Producer, Consumer, Finished, vars, shared, Lock, WaitNotFull,
      WaitNotEmpty, Proceed, SpuriousWakeup, Leave, SignalNotEmpty, SignalNotFull, Unlock

\* The buffer is a queue for any size, string and number of threads: count, in
\* and out agree and the characters that wait come in order, before any NUL.
THEOREM BufferIsQueue == SafeSpec => []Ring
<1>1. Fifo => Ring
  BY DEF Fifo
<1> QED
  BY <1>1, InitShape, NextShape, InitFifo, NextFifo, PTL DEF SafeSpec
-----------------------------------------------------------------------------
\* What the count counts: the items and the pills put, less the characters and
\* the NULs taken.
PillsPut == {q \in Producers \X (1..C) : q[2] <= pills[q[1]]}

CountLaw ==
  count + Len(printed) + Cardinality(ended) = p_index + Cardinality(PillsPut)

LEMMA PillsFinite ==
  ASSUME Shape
  PROVE  /\ IsFiniteSet(PillsPut) /\ Cardinality(PillsPut) \in Nat
         /\ IsFiniteSet(ended) /\ Cardinality(ended) \in Nat
<1>1. PillsPut \subseteq Producers \X (1..C)
  BY DEF PillsPut
<1>2. IsFiniteSet(1..C)
  BY ConstantsFinite, FS_Interval
<1>3. IsFiniteSet(Producers \X (1..C))
  BY <1>2, ThreadsAssumption, FS_Product
<1>4. ended \subseteq Consumers
  BY DEF Shape, TypeOK
<1> QED
  BY <1>1, <1>3, <1>4, ThreadsAssumption, FS_Subset, FS_CardinalityType

LEMMA InitCountLaw == Init => CountLaw
<1> SUFFICES ASSUME Init PROVE CountLaw
  OBVIOUS
<1>1. PillsPut = {}
  BY DEF Init, PillsPut
<1>2. Len(printed) = 0 /\ p_index = 0 /\ ended = {} /\ count = 0
  BY DEF Init
<1> QED
  BY <1>1, <1>2, FS_EmptySet DEF CountLaw

LEMMA NextCountLaw == Shape /\ CountLaw /\ [Next]_vars => CountLaw'
<1> SUFFICES ASSUME Shape, CountLaw, [Next]_vars PROVE CountLaw'
  OBVIOUS
<1>a. /\ Len(printed) \in Nat /\ p_index \in Nat /\ count \in Nat
      /\ Cardinality(ended) \in Nat /\ Cardinality(PillsPut) \in Nat
      /\ count + Len(printed) + Cardinality(ended) = p_index + Cardinality(PillsPut)
  BY PillsFinite, BufferAssumption DEF Shape, TypeOK, CountLaw
<1>p. ASSUME UNCHANGED pills PROVE PillsPut' = PillsPut
  BY <1>p DEF PillsPut
<1>1. ASSUME UNCHANGED <<p_index, count, ended, printed, pills>> PROVE CountLaw'
  BY <1>1, <1>p DEF CountLaw
<1>2. ASSUME NEW p \in Producers, PutItem(p) PROVE CountLaw'
  <2>1. p_index' = p_index + 1 /\ count' = count + 1 /\ UNCHANGED <<ended, printed, pills>>
    BY <1>2 DEF PutItem, Put
  <2>2. PillsPut' = PillsPut
    BY <1>p, <2>1
  <2> HIDE DEF PillsPut
  <2> QED
    BY <1>a, <2>1, <2>2 DEF CountLaw
<1>3. ASSUME NEW p \in Producers, PutPill(p) PROVE CountLaw'
  <2> DEFINE q == <<p, pills[p] + 1>>
  <2>1. /\ count' = count + 1 /\ pills' = [pills EXCEPT ![p] = @ + 1]
        /\ UNCHANGED <<p_index, ended, printed>>
        /\ pills \in [Producers -> 0..C] /\ pills[p] \in 0..C /\ pills[p] < C /\ C \in Nat
    BY <1>3, ConstantsFinite DEF PutPill, Put, Shape, TypeOK, Progress
  <2>2. q \notin PillsPut /\ PillsPut' = PillsPut \union {q}
    BY <2>1 DEF PillsPut
  <2>3. IsFiniteSet(PillsPut)
    BY PillsFinite
  <2> HIDE DEF PillsPut, q
  <2>4. Cardinality(PillsPut \union {q}) = Cardinality(PillsPut) + 1
    BY <2>2, <2>3, FS_AddElement
  <2> QED
    BY <1>a, <2>1, <2>2, <2>4 DEF CountLaw
<1>4. ASSUME NEW c \in Consumers, TakeNul(c) PROVE CountLaw'
  <2>1. /\ count' = count - 1 /\ ended' = ended \union {c} /\ pc[c] = "access"
        /\ UNCHANGED <<p_index, printed, pills>>
    BY <1>4 DEF TakeNul, Take
  <2>2. c \notin ended
    BY <2>1 DEF Shape, Progress
  <2>3. Cardinality(ended \union {c}) = Cardinality(ended) + 1
    BY <2>2, PillsFinite, FS_AddElement
  <2>4. PillsPut' = PillsPut
    BY <1>p, <2>1
  <2> HIDE DEF PillsPut
  <2> QED
    BY <1>a, <2>1, <2>3, <2>4 DEF CountLaw
<1>5. ASSUME NEW c \in Consumers, TakeChar(c) PROVE CountLaw'
  <2>1. /\ count' = count - 1 /\ Len(printed') = Len(printed) + 1
        /\ UNCHANGED <<p_index, ended, pills>>
    BY <1>5 DEF TakeChar, Take, Shape, TypeOK
  <2>2. PillsPut' = PillsPut
    BY <1>p, <2>1
  <2> HIDE DEF PillsPut
  <2> QED
    BY <1>a, <2>1, <2>2 DEF CountLaw
<1> QED
  BY <1>1, <1>2, <1>3, <1>4, <1>5
  DEF Next, Work, Producer, Consumer, Finished, vars, shared, Lock, WaitNotFull,
      WaitNotEmpty, Proceed, SpuriousWakeup, Leave, SignalNotEmpty, SignalNotFull, Unlock

LEMMA DoneNeedsRoom == Shape /\ Fifo /\ CountLaw => EndsOnlyWithRoom
<1> SUFFICES ASSUME Shape, Fifo, CountLaw, AllDone PROVE Roomy
  BY DEF EndsOnlyWithRoom
<1>1. /\ \A p \in Producers : p \in left /\ pills[p] = C
      /\ \A c \in Consumers : c \in ended
  BY DEF AllDone, Threads, Shape, Progress
<1>2. Cardinality(ended) = C
  <2>1. ended = Consumers
    BY <1>1 DEF Shape, TypeOK
  <2> QED
    BY <2>1 DEF C
<1>3. Cardinality(PillsPut) = P * C
  <2>1. PillsPut = Producers \X (1..C)
    BY <1>1, ConstantsFinite DEF PillsPut
  <2>2. IsFiniteSet(1..C) /\ Cardinality(1..C) = C
    BY ConstantsFinite, FS_Interval
  <2>3. Cardinality(Producers \X (1..C)) = Cardinality(Producers) * Cardinality(1..C)
    BY <2>2, ThreadsAssumption, FS_Product
  <2> QED
    BY <2>1, <2>2, <2>3 DEF P
<1>4. Len(printed) = NumChars /\ p_index = NumChars
  <2>1. ended # {}
    BY <1>1, ThreadsAssumption
  <2>2. PICK p \in Producers : p \in left
    BY <1>1, ThreadsAssumption
  <2> QED
    BY <2>1, <2>2 DEF Fifo, Shape, Progress
<1> DEFINE pc_ == P * C
<1>5. pc_ \in Nat /\ C \in Nat
  <2>1. \A x, y \in Nat : x * y \in Nat
    OBVIOUS
  <2> QED
    BY <2>1, ConstantsFinite
<1>6. count \in Nat /\ count <= BUF_SIZE /\ NumChars \in Nat /\ BUF_SIZE \in Nat
  BY BufferAssumption DEF Shape, TypeOK
<1>7. count + NumChars + C = NumChars + pc_
  BY <1>2, <1>3, <1>4 DEF CountLaw
<1> HIDE DEF pc_
<1>8. pc_ <= BUF_SIZE + C
  BY <1>5, <1>6, <1>7
<1> QED
  BY <1>8 DEF Roomy, pc_

\* The program ends only when the pills no consumer is left to take fit into the
\* buffer: with the buffer of 8 slots of pthread.c:6, ./pthread 4 3 never ends.
THEOREM NoEndWithoutRoom == SafeSpec => []EndsOnlyWithRoom
BY InitShape, NextShape, InitFifo, NextFifo, InitCountLaw, NextCountLaw, DoneNeedsRoom, PTL
DEF SafeSpec

-----------------------------------------------------------------------------
\* The program delivers: a step is a step of Delivery or leaves its state alone.
LEMMA StepDelivers == Shape /\ Fifo /\ [Next]_vars => [Promise!Next]_(Promise!vars)
<1> SUFFICES ASSUME Shape, Fifo, [Next]_vars
             PROVE  Promise!Next \/ UNCHANGED Promise!vars
  OBVIOUS
<1>1. ASSUME UNCHANGED <<p_index, ended, printed>> PROVE UNCHANGED Promise!vars
  BY <1>1 DEF Promise!vars
<1>2. ASSUME NEW p \in Producers, PutItem(p) PROVE Promise!Send
  <2>1. /\ p_index < NumChars /\ pc[p] = "access" /\ p_index' = p_index + 1
        /\ UNCHANGED <<ended, printed>>
    BY <1>2 DEF PutItem
  <2>2. /\ count < BUF_SIZE /\ p_index <= Len(printed) + count
        /\ Len(printed) \in Nat /\ p_index \in Nat /\ count \in Nat /\ BUF_SIZE \in Nat
    BY <2>1, BufferAssumption DEF Shape, TypeOK, Progress, Fifo
  <2>3. p_index - Len(printed) < BUF_SIZE
    BY <2>2
  <2> QED
    BY <2>1, <2>3 DEF Promise!Send
<1>3. ASSUME NEW c \in Consumers, TakeNul(c) PROVE Promise!Stop(c)
  <2>1. /\ pc[c] = "access" /\ buffer[out] = NUL /\ ended' = ended \union {c}
        /\ UNCHANGED <<p_index, printed>>
    BY <1>3 DEF TakeNul
  <2>2. c \notin ended
    BY <2>1 DEF Shape, Progress
  <2>3. Len(printed) = NumChars
    BY <2>1, AtOut
  <2> QED
    BY <2>1, <2>2, <2>3 DEF Promise!Stop
<1>4. ASSUME NEW c \in Consumers, TakeChar(c) PROVE Promise!Deliver
  <2>1. /\ pc[c] = "access" /\ buffer[out] # NUL /\ printed' = Append(printed, buffer[out])
        /\ UNCHANGED <<p_index, ended>>
    BY <1>4 DEF TakeChar
  <2>2. Len(printed) < p_index /\ buffer[out] = Len(printed) + 1
    BY <2>1, AtOut
  <2> QED
    BY <2>1, <2>2 DEF Promise!Deliver
<1> QED
  BY <1>1, <1>2, <1>3, <1>4
  DEF Next, Work, Producer, Consumer, Finished, vars, shared, Lock, WaitNotFull,
      WaitNotEmpty, Proceed, SpuriousWakeup, Leave, PutPill, SignalNotEmpty, SignalNotFull,
      Unlock, Promise!Next

\* Every character is printed once and in order, and no consumer ends before
\* the last of them is printed, for every number of threads and every string,
\* whether or not the run comes to its end (pthread.c:21-92).
THEOREM Delivers == SafeSpec => Promise!SafeSpec
<1>1. Init => Promise!Init
  BY DEF Init, Promise!Init
<1> QED
  BY <1>1, InitShape, NextShape, InitFifo, NextFifo, StepDelivers, PTL
  DEF SafeSpec, Promise!SafeSpec
=============================================================================
