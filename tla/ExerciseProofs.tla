---------------------------- MODULE ExerciseProofs ----------------------------
(***************************************************************************)
(* What the small programs keep, for every number of threads, rounds and   *)
(* bytes: the barrier of class_notes/week3/prodcon.c, the turns of         *)
(* play/2tcounter.c, the counter of class_notes/week2/threads.c, and the   *)
(* pipes of homework/hw1/p8.c and p9.c.                                    *)
(***************************************************************************)
EXTENDS Exercises, FiniteSetTheorems, SequenceTheorems, TLAPS

\* prodcon.c.  What the invariants leave unsaid: who holds the semaphore called mutex, and that
\* what its holder has read of count is still true.
Alone ==
  /\ mutex = 1 => Counting = {}
  /\ mutex = 0 => \E t \in Threads : Counting = {t}
Fresh == \A t \in Threads : pc[t] = "write" => read[t] = count

Exact == TypeOK /\ Alone /\ Fresh /\ count = Cardinality(Counted)

\* The threads counted are finitely many, and all of them when there are NUM.
LEMMA CountedFinite ==
  ASSUME TypeOK
  PROVE  /\ IsFiniteSet(Counted) /\ Cardinality(Counted) \in Nat
         /\ NUM \in Nat \ {0}
         /\ Cardinality(Counted) <= NUM
         /\ Cardinality(Counted) = NUM => Counted = Threads
<1>1. Counted \subseteq Threads
  BY DEF Counted
<1>2. IsFiniteSet(Counted) /\ Cardinality(Counted) <= NUM
      /\ (Cardinality(Counted) = NUM => Counted = Threads)
  BY <1>1, ThreadsAssumption, FS_Subset DEF NUM
<1>3. Cardinality(Counted) \in Nat /\ NUM \in Nat \ {0}
  BY <1>2, ThreadsAssumption, FS_CardinalityType, FS_EmptySet DEF NUM
<1> QED
  BY <1>2, <1>3

\* At the beginning nobody has been counted.
LEMMA InitExact == Init => Exact
<1> SUFFICES ASSUME Init PROVE Exact
  OBVIOUS
<1>1. TypeOK /\ Alone /\ Fresh
  BY DEF Init, TypeOK, Alone, Fresh, Counting
<1>2. Counted = {}
  BY DEF Init, Counted
<1> QED
  BY <1>1, <1>2, FS_EmptySet DEF Exact, Init

\* A step that changes neither count nor what is counted.
LEMMA SameCount ==
  ASSUME Exact, TypeOK', Alone', count' = count, Counted' = Counted,
         \A t \in Threads : pc'[t] = "write" => read'[t] = count
  PROVE  Exact'
BY DEF Exact, Fresh

\* Every step keeps the count exact: one thread at a time is counting, and what it has
\* read of count is still true when it writes.
LEMMA NextExact == Exact /\ [Next]_vars => Exact'
<1> SUFFICES ASSUME Exact, [Next]_vars PROVE Exact'
  OBVIOUS
<1>1. CASE UNCHANGED vars
  BY <1>1 DEF vars, Exact, TypeOK, Alone, Fresh, Counting, Counted
<1>2. ASSUME NEW t \in Threads, Lock(t) PROVE Exact'
  <2>1. TypeOK' /\ count' = count
    BY <1>2 DEF Lock, Goto, Exact, TypeOK
  <2>2. Counting = {} /\ mutex = 1 /\ mutex' = 0
    BY <1>2 DEF Lock, Exact, TypeOK, Alone
  <2>3. Counting' = {t}
    BY <1>2, <2>2 DEF Lock, Goto, Exact, TypeOK, Counting
  <2>4. Counted' = Counted
    BY <1>2 DEF Lock, Goto, Exact, TypeOK, Counted
  <2>5. \A u \in Threads : pc'[u] = "write" => read'[u] = count
    BY <1>2 DEF Lock, Goto, Exact, TypeOK, Fresh
  <2> QED
    BY <2>1, <2>2, <2>3, <2>4, <2>5, SameCount DEF Alone
<1>3. ASSUME NEW t \in Threads, ReadCount(t) PROVE Exact'
  <2>1. TypeOK' /\ count' = count /\ mutex' = mutex
    BY <1>3 DEF ReadCount, Goto, Exact, TypeOK
  <2>2. Counting' = Counting /\ Counted' = Counted
    BY <1>3 DEF ReadCount, Goto, Exact, TypeOK, Counting, Counted
  <2>3. \A u \in Threads : pc'[u] = "write" => read'[u] = count
    BY <1>3 DEF ReadCount, Goto, Exact, TypeOK, Fresh
  <2> QED
    BY <2>1, <2>2, <2>3, SameCount DEF Exact, Alone
<1>4. ASSUME NEW t \in Threads, WriteCount(t) PROVE Exact'
  <2>1. TypeOK' /\ mutex' = mutex /\ count' = count + 1
    BY <1>4 DEF WriteCount, Goto, Exact, TypeOK, Fresh
  <2>2. Counting' = Counting
    BY <1>4 DEF WriteCount, Goto, Exact, TypeOK, Counting
  <2>3. t \notin Counted /\ Counted' = Counted \union {t}
    BY <1>4 DEF WriteCount, Goto, Exact, TypeOK, Counted
  <2>4. Cardinality(Counted') = Cardinality(Counted) + 1
    BY <2>3, CountedFinite, FS_AddElement DEF Exact
  <2>5. Counting = {t}
    BY <1>4 DEF WriteCount, Goto, Exact, TypeOK, Alone, Counting
  <2>6. Fresh'
    BY <1>4, <2>2, <2>5 DEF WriteCount, Goto, Exact, TypeOK, Fresh, Counting
  <2> QED
    BY <2>1, <2>2, <2>4, <2>6 DEF Exact, Alone
<1>5. ASSUME NEW t \in Threads, Unlock(t) PROVE Exact'
  <2>1. Counting = {t} /\ mutex = 0
    BY <1>5 DEF Unlock, Goto, Exact, TypeOK, Alone, Counting
  <2>2. TypeOK' /\ count' = count /\ mutex' = 1
    BY <1>5, <2>1 DEF Unlock, Goto, Exact, TypeOK
  <2>3. Counting' = {}
    BY <1>5, <2>1 DEF Unlock, Goto, Exact, TypeOK, Counting
  <2>4. Counted' = Counted
    BY <1>5 DEF Unlock, Goto, Exact, TypeOK, Counted
  <2>5. \A u \in Threads : pc'[u] = "write" => read'[u] = count
    BY <1>5 DEF Unlock, Goto, Exact, TypeOK, Fresh
  <2> QED
    BY <2>2, <2>3, <2>4, <2>5, SameCount DEF Alone
<1>6. ASSUME NEW t \in Threads, Test(t) \/ Open(t) \/ Enter(t) \/ Leave(t) PROVE Exact'
  <2>1. TypeOK' /\ count' = count /\ mutex' = mutex
    BY <1>6 DEF Test, Open, Enter, Leave, Goto, Exact, TypeOK
  <2>2. Counting' = Counting /\ Counted' = Counted
    BY <1>6 DEF Test, Open, Enter, Leave, Goto, Exact, TypeOK, Counting, Counted
  <2>3. \A u \in Threads : pc'[u] = "write" => read'[u] = count
    BY <1>6 DEF Test, Open, Enter, Leave, Goto, Exact, TypeOK, Fresh
  <2> QED
    BY <2>1, <2>2, <2>3, SameCount DEF Exact, Alone
<1> QED
  BY <1>1, <1>2, <1>3, <1>4, <1>5, <1>6 DEF Next, Thread, Finished

\* The semaphore called mutex lets one thread at a time count, and no increment is
\* lost (prodcon.c:43-45).
THEOREM CountExact == SafeSpec => []CountIsExact
<1>1. Exact => CountIsExact
  <2> SUFFICES ASSUME Exact PROVE mutex + Cardinality(Counting) = 1
    BY DEF Exact, CountIsExact
  <2>1. CASE mutex = 1
    BY <2>1, FS_EmptySet DEF Exact, Alone
  <2>2. CASE mutex = 0
    BY <2>2, FS_Singleton DEF Exact, Alone
  <2> QED
    BY <2>1, <2>2 DEF Exact, TypeOK
<1> QED
  BY <1>1, InitExact, NextExact, PTL DEF SafeSpec

-----------------------------------------------------------------------------
\* When all have been counted nobody counts any more.
LEMMA FullStays ==
  ASSUME Exact, [Next]_vars, count = NUM
  PROVE  count' = NUM
<1>1. Counted = Threads
  BY CountedFinite DEF Exact
<1>2. ASSUME NEW t \in Threads PROVE ~WriteCount(t)
  BY <1>1 DEF WriteCount, Goto, Counted
<1> QED
  BY <1>2 DEF Next, Thread, Finished, Lock, ReadCount, Unlock, Test, Open, Enter, Leave, vars

\* At the beginning the turnstile is shut.
LEMMA InitOpens == Init => OpensOnlyWhenFull
BY DEF Init, OpensOnlyWhenFull, Through

\* Every step keeps the turnstile shut until the count is full, and then open.
LEMMA NextOpens ==
  Exact /\ OpensOnlyWhenFull /\ [Next]_vars => OpensOnlyWhenFull'
<1> SUFFICES ASSUME Exact, OpensOnlyWhenFull, [Next]_vars PROVE OpensOnlyWhenFull'
  OBVIOUS
<1>1. CASE UNCHANGED vars
  BY <1>1 DEF vars, OpensOnlyWhenFull, Through
<1>2. ASSUME NEW t \in Threads, Lock(t) \/ ReadCount(t) \/ WriteCount(t) \/ Unlock(t)
      PROVE  OpensOnlyWhenFull'
  <2>1. /\ barrier' = barrier /\ Through' = Through
        /\ \A u \in Threads : (pc'[u] = "open") = (pc[u] = "open") /\ (pc'[u] = "leave") = (pc[u] = "leave")
    BY <1>2 DEF Lock, ReadCount, WriteCount, Unlock, Goto, Exact, TypeOK, Through
  <2> QED
    BY <2>1, FullStays DEF OpensOnlyWhenFull
<1>3. ASSUME NEW t \in Threads, Test(t) PROVE OpensOnlyWhenFull'
  <2>1. /\ barrier' = barrier /\ Through' = Through /\ count' = count
        /\ \A u \in Threads : (pc'[u] = "leave") = (pc[u] = "leave")
        /\ \A u \in Threads : pc'[u] = "open" => pc[u] = "open" \/ count = NUM
    BY <1>3 DEF Test, Goto, Exact, TypeOK, Through
  <2> QED
    BY <2>1 DEF OpensOnlyWhenFull
<1>4. ASSUME NEW t \in Threads, Open(t) PROVE OpensOnlyWhenFull'
  <2>1. count = NUM /\ count' = count /\ barrier' > 0
    BY <1>4 DEF Open, Goto, Exact, TypeOK, OpensOnlyWhenFull
  <2> QED
    BY <2>1 DEF OpensOnlyWhenFull
<1>5. ASSUME NEW t \in Threads, Enter(t) PROVE OpensOnlyWhenFull'
  <2>1. count = NUM /\ count' = count /\ pc'[t] = "leave"
    BY <1>5 DEF Enter, Goto, Exact, TypeOK, OpensOnlyWhenFull
  <2> QED
    BY <2>1 DEF OpensOnlyWhenFull
<1>6. ASSUME NEW t \in Threads, Leave(t) PROVE OpensOnlyWhenFull'
  <2>1. t \in Through /\ count = NUM /\ count' = count /\ barrier' > 0
    BY <1>6 DEF Leave, Goto, Exact, TypeOK, OpensOnlyWhenFull, Through
  <2> QED
    BY <2>1 DEF OpensOnlyWhenFull
<1> QED
  BY <1>1, <1>2, <1>3, <1>4, <1>5, <1>6 DEF Next, Thread, Finished

\* The test of count outside the semaphore opens the turnstile when all threads
\* have counted and not before, and the turnstile is not shut again (47-53).
THEOREM OpensWhenFull == SafeSpec => []OpensOnlyWhenFull
BY InitExact, NextExact, InitOpens, NextOpens, PTL DEF SafeSpec

-----------------------------------------------------------------------------
\* A thread arrives when it writes the count, and passes when it enters the turnstile;
\* every other step stutters.
LEMMA NextRefines ==
  Exact /\ OpensOnlyWhenFull /\ [Next]_vars => [R!Next]_(R!vars)
<1> SUFFICES ASSUME Exact, OpensOnlyWhenFull, [Next]_vars PROVE [R!Next]_(R!vars)
  OBVIOUS
<1>1. CASE UNCHANGED vars
  BY <1>1 DEF vars, R!vars, Counted, Through
<1>2. ASSUME NEW t \in Threads,
             Lock(t) \/ ReadCount(t) \/ Unlock(t) \/ Test(t) \/ Open(t) \/ Leave(t)
      PROVE  UNCHANGED R!vars
  BY <1>2 DEF Lock, ReadCount, Unlock, Test, Open, Leave, Goto, Exact, TypeOK, R!vars, Counted, Through
<1>3. ASSUME NEW t \in Threads, WriteCount(t) PROVE R!Arrive(t)
  BY <1>3 DEF WriteCount, Goto, Exact, TypeOK, R!Arrive, Counted, Through
<1>4. ASSUME NEW t \in Threads, Enter(t) PROVE R!Pass(t)
  <2>1. Counted = Threads
    BY <1>4, CountedFinite DEF Enter, Exact, OpensOnlyWhenFull
  <2>2. Counted' = Counted /\ t \notin Through /\ Through' = Through \union {t}
    BY <1>4 DEF Enter, Goto, Exact, TypeOK, Counted, Through
  <2> QED
    BY <2>1, <2>2 DEF R!Pass
<1> QED
  BY <1>1, <1>2, <1>3, <1>4 DEF Next, Thread, Finished, R!Next, vars, R!vars, Counted, Through

\* Nobody is through the turnstile before every thread has been counted: the
\* program is a barrier.
THEOREM IsBarrier == SafeSpec => ImplementsRendezvous
<1>1. Init => R!Init
  BY DEF Init, R!Init, Counted, Through
<1> QED
  BY <1>1, InitExact, NextExact, InitOpens, NextOpens, NextRefines, PTL
  DEF SafeSpec, ImplementsRendezvous, R!SafeSpec

-----------------------------------------------------------------------------
\* 2tcounter.c.  Whose turn it is, the rounds finished, and what is not said by
\* InTurns: the other thread waits or is done, the only unit of the two semaphores is
\* with the thread whose turn it is, and what that one has read of x is still true.
Turn == IF t_i[1] = t_i[2] THEN 1 ELSE 2
Rounds == t_i[1] + t_i[2]
Resting(t) == t_pc[t] \in {"wait", "done"}

TurnsTyped ==
  /\ {t_sem, t_reg, t_i} \subseteq [{1, 2} -> Nat]
  /\ t_x \in Nat
  /\ t_out \in Seq({1, 2} \X Nat)
  /\ t_pc \in [{1, 2} -> {"wait", "read", "write", "print", "post", "done"}]

Alternating ==
  /\ t_i[1] \in {t_i[2], t_i[2] + 1}
  /\ t_sem[Turn] = IF Resting(Turn) THEN 1 ELSE 0
  /\ t_pc[Turn] = "write" => t_reg[Turn] = t_x
  /\ \A t \in {1, 2} : t # Turn => Resting(t) /\ t_sem[t] = 0
  /\ t_x = Rounds + (IF t_pc[Turn] \in {"print", "post"} THEN 1 ELSE 0)
  /\ Len(t_out) = Rounds + (IF t_pc[Turn] = "post" THEN 1 ELSE 0)

TurnsInv == TurnsTyped /\ Alternating /\ InTurns

\* At the beginning it is the turn of thread 1, and its semaphore has the unit.
LEMMA TurnsInit == TurnsProgram!Init => TurnsInv
BY DEF TurnsProgram!Init, TurnsProgram!Tids, TurnsInv, TurnsTyped, Alternating, InTurns, TurnsProgram!InTurns, Turn, Rounds, Resting

\* A step of a thread in its turn.
LEMMA OwnTurn ==
  ASSUME TurnsInv, NEW t \in {1, 2}, TurnsProgram!Thread(t)
  PROVE  t = Turn
BY DEF TurnsInv, Alternating, TurnsTyped, Resting, TurnsProgram!Thread, TurnsProgram!Wait, TurnsProgram!Read,
       TurnsProgram!Write, TurnsProgram!PrintX, TurnsProgram!Post, TurnsProgram!Goto

\* Every step keeps the types.
LEMMA TurnsTypedStep ==
  ASSUME TurnsTyped, NEW t \in {1, 2}, TurnsProgram!Thread(t)
  PROVE  TurnsTyped'
<1>1. TurnsProgram!Other(t) \in {1, 2} /\ t \in Nat
  BY DEF TurnsProgram!Other
<1>2. CASE TurnsProgram!Wait(t)
  BY <1>2 DEF TurnsTyped, TurnsProgram!Wait, TurnsProgram!Goto
<1>3. CASE TurnsProgram!Read(t)
  BY <1>3 DEF TurnsTyped, TurnsProgram!Read, TurnsProgram!Goto
<1>4. CASE TurnsProgram!Write(t)
  BY <1>4 DEF TurnsTyped, TurnsProgram!Write, TurnsProgram!Goto
<1>5. CASE TurnsProgram!PrintX(t)
  BY <1>5 DEF TurnsTyped, TurnsProgram!PrintX, TurnsProgram!Goto
<1>6. CASE TurnsProgram!Post(t)
  BY <1>1, <1>6, SMTT(30) DEF TurnsTyped, TurnsProgram!Post, TurnsProgram!Goto
<1>7. QED BY <1>2, <1>3, <1>4, <1>5, <1>6 DEF TurnsProgram!Thread

\* Every step of the thread whose turn it is keeps the turns; the post gives them to the
\* other thread.
LEMMA TurnsStep ==
  ASSUME TurnsInv, NEW t \in {1, 2}, TurnsProgram!Thread(t)
  PROVE  TurnsInv'
<1>1. t = Turn /\ TurnsTyped /\ TurnsTyped'
  BY OwnTurn, TurnsTypedStep DEF TurnsInv
<1>0. Rounds \in Nat
  BY <1>1, SMTT(30) DEF TurnsTyped, Rounds
<1>2. ASSUME UNCHANGED <<t_i, t_out>>, t_pc'[t] # "post", t_pc[t] # "post",
             t_sem'[t] = (IF Resting(t)' THEN 1 ELSE 0), \A u \in {1, 2} : u # t => t_sem'[u] = t_sem[u] /\ t_pc'[u] = t_pc[u],
             t_pc'[t] = "write" => t_reg'[t] = t_x',
             t_x' = Rounds + (IF t_pc'[t] = "print" THEN 1 ELSE 0)
      PROVE  TurnsInv'
  <2>1. Turn' = Turn /\ Rounds' = Rounds
    BY <1>2 DEF Turn, Rounds
  <2>3. Alternating'
    BY <1>1, <1>2, <2>1 DEF TurnsInv, Alternating, Resting
  <2>4. InTurns'
    BY <1>2 DEF TurnsInv, InTurns, TurnsProgram!InTurns
  <2>5. QED BY <1>1, <2>3, <2>4 DEF TurnsInv
<1>3. CASE TurnsProgram!Wait(t)
  BY <1>1, <1>2, <1>3 DEF TurnsProgram!Wait, TurnsProgram!Goto, TurnsInv, TurnsTyped, Alternating, Resting
<1>4. CASE TurnsProgram!Read(t)
  BY <1>1, <1>2, <1>4 DEF TurnsProgram!Read, TurnsProgram!Goto, TurnsInv, TurnsTyped, Alternating, Resting
<1>5. CASE TurnsProgram!Write(t)
  <2>1. /\ UNCHANGED <<t_sem, t_reg, t_i, t_out>> /\ t_pc[t] = "write" /\ t_pc' = [t_pc EXCEPT ![t] = "print"]
        /\ t_x' = t_reg[t] + 1
    BY <1>5 DEF TurnsProgram!Write, TurnsProgram!Goto
  <2>2. t_reg[t] = Rounds
    BY <1>0, <1>1, <2>1 DEF TurnsInv, Alternating
  <2>3. t_sem[t] = 0
    BY <1>1, <2>1 DEF TurnsInv, Alternating, Resting
  <2>4. QED BY <1>1, <1>2, <2>1, <2>2, <2>3 DEF TurnsTyped, Resting
<1>6. CASE TurnsProgram!PrintX(t)
  <2>1. /\ UNCHANGED <<t_sem, t_x, t_reg, t_i>> /\ t_pc[t] = "print" /\ t_pc' = [t_pc EXCEPT ![t] = "post"]
        /\ t_out' = Append(t_out, <<t, t_x>>)
    BY <1>6 DEF TurnsProgram!PrintX, TurnsProgram!Goto
  <2>2. Turn' = Turn /\ Rounds' = Rounds /\ Rounds \in Nat
    BY <1>1, <2>1 DEF Turn, Rounds, TurnsTyped
  <2>3. t_x = Rounds + 1 /\ Len(t_out) = Rounds
    <3>1. t_pc[Turn] = "print"
      BY <1>1, <2>1
    <3>2. QED BY <2>2, <3>1 DEF TurnsInv, Alternating
  <2>4. Len(t_out') = Rounds + 1 /\ t_out'[Rounds + 1] = <<t, Rounds + 1>> /\ \A k \in 1..Rounds : t_out'[k] = t_out[k]
    BY <1>1, <2>1, <2>3 DEF TurnsTyped
  <2>5. t = IF (Rounds + 1) % 2 = 1 THEN 1 ELSE 2
    <3>1. t_i[1] \in Nat /\ t_i[2] \in Nat /\ t_i[1] \in {t_i[2], t_i[2] + 1}
      BY <1>1 DEF TurnsTyped, TurnsInv, Alternating
    <3>2. QED BY <1>1, <3>1 DEF Turn, Rounds
  <2>6. InTurns'
    <3>1. ASSUME NEW k \in 1..Rounds + 1
          PROVE  t_out'[k] = <<IF k % 2 = 1 THEN 1 ELSE 2, k>>
      <4>1. CASE k = Rounds + 1
        BY <2>4, <2>5, <4>1
      <4>2. CASE k \in 1..Rounds
        BY <2>3, <2>4, <4>2 DEF TurnsInv, InTurns, TurnsProgram!InTurns
      <4>3. QED BY <2>2, <4>1, <4>2
    <3>2. QED BY <2>4, <3>1 DEF InTurns, TurnsProgram!InTurns
  <2>7. Alternating'
    BY <1>1, <2>1, <2>2, <2>3, <2>4 DEF TurnsInv, TurnsTyped, Alternating, Resting
  <2>8. QED BY <1>1, <2>6, <2>7 DEF TurnsInv
<1>7. CASE TurnsProgram!Post(t)
  <2> DEFINE u == 3 - t
  <2>1. /\ UNCHANGED <<t_x, t_reg, t_out>> /\ t_pc[t] = "post" /\ u \in {1, 2} /\ u # t
        /\ t_pc'[t] \in {"wait", "done"} /\ t_pc'[u] = t_pc[u]
        /\ t_sem'[t] = t_sem[t] /\ t_sem'[u] = t_sem[u] + 1
        /\ t_i'[t] = t_i[t] + 1 /\ t_i'[u] = t_i[u]
    BY <1>1, <1>7 DEF TurnsProgram!Post, TurnsProgram!Goto, TurnsProgram!Other, TurnsTyped
  <2>2. Rounds' = Rounds + 1 /\ Turn' = u /\ t_i'[1] \in {t_i'[2], t_i'[2] + 1}
    <3>1. t_i[1] \in Nat /\ t_i[2] \in Nat /\ t_i[1] \in {t_i[2], t_i[2] + 1}
      BY <1>1 DEF TurnsTyped, TurnsInv, Alternating
    <3>2. CASE t = 1
      <4>1. t_i[1] = t_i[2] /\ u = 2
        BY <1>1, <3>1, <3>2 DEF Turn
      <4>2. QED BY <2>1, <3>1, <3>2, <4>1 DEF Turn, Rounds
    <3>3. CASE t = 2
      <4>1. t_i[1] = t_i[2] + 1 /\ u = 1
        BY <1>1, <3>1, <3>3 DEF Turn
      <4>2. QED BY <2>1, <3>1, <3>3, <4>1 DEF Turn, Rounds
    <3>4. QED BY <3>2, <3>3
  <2>3. \A v \in {1, 2} : v # u => v = t
    BY <2>1
  <2> HIDE DEF u
  <2>4. t_sem[u] = 0 /\ Resting(u) /\ t_sem[t] = 0 /\ t_x = Rounds + 1 /\ Len(t_out) = Rounds + 1
    BY <1>1, <2>1 DEF TurnsInv, Alternating, Resting
  <2>5. Alternating'
    BY <2>1, <2>2, <2>3, <2>4 DEF Alternating, Resting
  <2>6. InTurns'
    BY <2>1 DEF TurnsInv, InTurns, TurnsProgram!InTurns
  <2>7. QED BY <1>1, <2>5, <2>6 DEF TurnsInv
<1>8. QED BY <1>3, <1>4, <1>5, <1>6, <1>7 DEF TurnsProgram!Thread

\* The two semaphores alone keep the two threads in turns, and so the two accesses to
\* x of a round together, for any number of rounds (2tcounter.c:10-28).
THEOREM TurnsKept == ExercisesSpec => []InTurns
<1>1. ExercisesInit => TurnsInv
  BY TurnsInit DEF ExercisesInit
<1>2. ASSUME TurnsInv, [ExercisesNext]_allVars
      PROVE  TurnsInv'
  <2>1. CASE UNCHANGED t_vars
    <3>1. UNCHANGED <<t_sem, t_x, t_pc, t_reg, t_i, t_out>>
      BY <2>1 DEF t_vars
    <3>2. TurnsTyped' /\ InTurns'
      BY <1>2, <3>1 DEF TurnsInv, TurnsTyped, InTurns, TurnsProgram!InTurns
    <3>3. Alternating'
      BY <1>2, <3>1 DEF TurnsInv, Alternating, Turn, Rounds, Resting
    <3>4. QED BY <3>2, <3>3 DEF TurnsInv
  <2>2. CASE TurnsProgram!Next
    <3>1. CASE \E t \in {1, 2} : TurnsProgram!Thread(t)
      BY <1>2, <3>1, TurnsStep
    <3>2. CASE UNCHANGED t_vars
      BY <2>1, <3>2
    <3>3. QED BY <2>2, <3>1, <3>2 DEF TurnsProgram!Next, TurnsProgram!Finished, TurnsProgram!Tids, TurnsProgram!vars, t_vars
  <2>3. QED BY <1>2, <2>1, <2>2 DEF ExercisesNext, allVars
<1>3. TurnsInv => InTurns
  BY DEF TurnsInv
<1>4. QED BY <1>1, <1>2, <1>3, PTL DEF ExercisesSpec

-----------------------------------------------------------------------------
\* threads.c.  One thread at a time is between sem_wait and sem_post, what it has read
\* of i is still true, and its rounds tell where it is; main's handles are those of
\* all threads but the second, and those it has joined are done.
Tids == 0..NUMTHREADS
Slots == 0..NUMTHREADS-1
Inside(t) == c_pc[t] \in {"read", "write", "post"}
Made(t) == c_j[t] + (IF c_pc[t] = "post" THEN 1 ELSE 0)
Handle(s) == IF s = 1 THEN NUMTHREADS ELSE s

CounterTyped ==
  /\ c_i \in Nat /\ c_mutex \in {0, 1}
  /\ c_pc \in [Tids -> {"new", "wait", "read", "write", "post", "done"}]
  /\ c_reg \in [Tids -> Nat] /\ c_j \in [Tids -> Nat]
  /\ c_threads \in [Slots -> Tids \cup {-1}]
  /\ c_main \in [at : {"create", "join", "print", "return", "returned"}, k : Nat]
  /\ c_main.at = "create" => c_main.k \in Tids
  /\ c_main.at = "join" => c_main.k \in Slots

Guarded ==
  /\ c_mutex = 1 => \A t \in Tids : ~Inside(t)
  /\ c_mutex = 0 => \E t \in Tids : Inside(t) /\ \A u \in Tids : Inside(u) => u = t
  /\ \A t \in Tids : c_pc[t] = "write" => c_reg[t] = c_i

InRound ==
  \A t \in Tids :
    /\ c_pc[t] = "new" => c_j[t] = 0
    /\ c_pc[t] \in {"wait", "read", "write", "post"} => c_j[t] < COUNTS
    /\ c_pc[t] = "done" => c_j[t] = COUNTS

Handled ==
  /\ c_main.at = "create" => \A s \in Slots : s < c_main.k => c_threads[s] = s
  /\ c_main.at # "create" => \A s \in Slots : c_threads[s] = Handle(s)
  /\ c_main.at = "create" => \A t \in Tids : t >= c_main.k => c_pc[t] = "new"
  /\ c_main.at = "join" => \A s \in Slots : s < c_main.k => c_pc[Handle(s)] = "done"
  /\ c_main.at \in {"print", "return", "returned"} => \A s \in Slots : c_pc[Handle(s)] = "done"

CounterInv == CounterTyped /\ Guarded /\ InRound /\ Handled /\ NoUpdateLost /\ PrintedInRange

\* Counter has its own copy of Cardinality.
LEMMA SameCardinality == \A S : CounterProgram!Cardinality(S) = Cardinality(S)
BY DEF CounterProgram!Cardinality, Cardinality

\* What NoUpdateLost says, with the Cardinality of this module.
LEMMA NoUpdateLostMeans == NoUpdateLost <=> c_i = Cardinality(CounterProgram!Increments)
BY SameCardinality DEF NoUpdateLost, CounterProgram!NoUpdateLost

\* The increments are finitely many, and all of them those of a joined thread when it
\* is done.
LEMMA IncrementsFinite ==
  ASSUME CounterTyped, InRound
  PROVE  /\ CounterProgram!Increments = {p \in Tids \X (1..COUNTS) : p[2] <= Made(p[1])}
         /\ IsFiniteSet(CounterProgram!Increments)
         /\ Cardinality(CounterProgram!Increments) \in Nat
         /\ Cardinality(CounterProgram!Increments) <= (NUMTHREADS + 1) * COUNTS
<1>1. CounterProgram!Increments = {p \in Tids \X (1..COUNTS) : p[2] <= Made(p[1])}
  BY DEF CounterProgram!Increments, CounterProgram!Tids, Tids, Made
<1>2. IsFiniteSet(Tids) /\ Cardinality(Tids) = NUMTHREADS + 1
  <2>1. 0 \in Int /\ NUMTHREADS \in Int /\ NUMTHREADS > 1
    BY ExercisesAssumption
  <2>2. QED BY <2>1, FS_Interval DEF Tids
<1>3. IsFiniteSet(1..COUNTS) /\ Cardinality(1..COUNTS) = COUNTS
  BY FS_Interval, ExercisesAssumption
<1>4. IsFiniteSet(Tids \X (1..COUNTS)) /\ Cardinality(Tids \X (1..COUNTS)) = (NUMTHREADS + 1) * COUNTS
  BY <1>2, <1>3, FS_Product, ZenonT(40)
<1>5. CounterProgram!Increments \subseteq Tids \X (1..COUNTS)
  BY <1>1
<1>6. QED BY <1>1, <1>4, <1>5, FS_Subset, FS_CardinalityType

\* At the beginning no thread exists and nothing has been counted.
LEMMA CounterInit == CounterProgram!Init => CounterInv
<1> SUFFICES ASSUME CounterProgram!Init PROVE CounterInv
  OBVIOUS
<1>1. CounterTyped /\ Guarded /\ InRound /\ Handled
  BY ExercisesAssumption DEF CounterProgram!Init, CounterProgram!Tids, CounterProgram!Slots, Tids, Slots,
     CounterTyped, Guarded, InRound, Handled, Inside
<1>2. \A t \in Tids : Made(t) = 0
  BY DEF CounterProgram!Init, CounterProgram!Tids, Tids, Made
<1>3. CounterProgram!Increments = {}
  BY <1>1, <1>2, IncrementsFinite
<1>4. NoUpdateLost /\ PrintedInRange
  <2>1. c_i = 0 /\ c_printed = -1 /\ Cardinality({}) = 0
    BY FS_EmptySet DEF CounterProgram!Init
  <2>2. QED BY <1>3, <2>1, NoUpdateLostMeans DEF PrintedInRange, CounterProgram!PrintedInRange
<1>5. QED BY <1>1, <1>4 DEF CounterInv

\* A step that makes no increment.
LEMMA SameIncrements ==
  ASSUME CounterInv, CounterTyped', InRound', c_i' = c_i, \A t \in Tids : Made(t)' = Made(t)
  PROVE  NoUpdateLost'
<1>1. CounterProgram!Increments' = CounterProgram!Increments
  BY DEF CounterProgram!Increments, CounterProgram!Tids, Tids, Made
<1>2. QED BY <1>1 DEF CounterInv, NoUpdateLost, CounterProgram!NoUpdateLost

\* A thread that enters, counts or leaves is the only one inside.
LEMMA OneInside ==
  ASSUME CounterInv, NEW t \in Tids, Inside(t)
  PROVE  c_mutex = 0 /\ \A u \in Tids : Inside(u) => u = t
BY DEF CounterInv, Guarded, CounterTyped

\* A step of a thread that is not done leaves main's handles alone.
LEMMA ThreadHandled ==
  ASSUME CounterInv, NEW t \in Tids, UNCHANGED <<c_threads, c_main>>, c_pc[t] \in {"wait", "read", "write", "post"},
         \A u \in Tids : u # t => c_pc'[u] = c_pc[u]
  PROVE  Handled'
<1>1. \A s \in Slots : Handle(s) \in Tids
  BY ExercisesAssumption DEF Slots, Tids, Handle
<1>2. \A u \in Tids : c_pc[u] \in {"new", "done"} => c_pc'[u] = c_pc[u]
  OBVIOUS
<1>3. QED BY <1>1, <1>2 DEF CounterInv, Handled

\* Every step of a thread keeps the count: the write adds the one increment of its round.
LEMMA ThreadStep ==
  ASSUME CounterInv, NEW t \in Tids, CounterProgram!Thread(t)
  PROVE  CounterInv'
<1> USE DEF CounterProgram!Goto
<1>1. UNCHANGED <<c_threads, c_main, c_printed>> /\ PrintedInRange' /\ COUNTS \in Nat
  BY ExercisesAssumption DEF CounterProgram!Thread, CounterProgram!Wait, CounterProgram!Read, CounterProgram!Write,
     CounterProgram!Post, CounterInv, PrintedInRange, CounterProgram!PrintedInRange
<1>2. CASE CounterProgram!Wait(t)
  <2>1. /\ UNCHANGED <<c_i, c_reg, c_j>> /\ c_pc[t] = "wait" /\ c_pc'[t] = "read" /\ \A u \in Tids : u # t => c_pc'[u] = c_pc[u]
        /\ c_mutex = 1 /\ c_mutex' = 0
    BY <1>2 DEF CounterProgram!Wait, CounterInv, CounterTyped
  <2>2. CounterTyped'
    BY <1>1, <1>2 DEF CounterProgram!Wait, CounterInv, CounterTyped
  <2>3. InRound' /\ Guarded'
    BY <2>1 DEF CounterInv, InRound, Guarded, Inside
  <2>4. \A u \in Tids : Made(u)' = Made(u)
    BY <2>1 DEF Made
  <2>5. QED BY <1>1, <2>1, <2>2, <2>3, <2>4, SameIncrements, ThreadHandled DEF CounterInv
<1>3. CASE CounterProgram!Read(t)
  <2>1. /\ UNCHANGED <<c_i, c_j, c_mutex>> /\ c_pc[t] = "read" /\ c_pc'[t] = "write" /\ \A u \in Tids : u # t => c_pc'[u] = c_pc[u]
        /\ c_reg'[t] = c_i /\ \A u \in Tids : u # t => c_reg'[u] = c_reg[u]
    BY <1>3 DEF CounterProgram!Read, CounterInv, CounterTyped
  <2>2. CounterTyped'
    BY <1>1, <1>3 DEF CounterProgram!Read, CounterInv, CounterTyped
  <2>3. InRound' /\ Guarded'
    BY <2>1 DEF CounterInv, InRound, Guarded, Inside
  <2>4. \A u \in Tids : Made(u)' = Made(u)
    BY <2>1 DEF Made
  <2>5. QED BY <1>1, <2>1, <2>2, <2>3, <2>4, SameIncrements, ThreadHandled DEF CounterInv
<1>4. CASE CounterProgram!Write(t)
  <2>1. /\ UNCHANGED <<c_reg, c_j, c_mutex>> /\ c_pc[t] = "write" /\ c_pc'[t] = "post" /\ \A u \in Tids : u # t => c_pc'[u] = c_pc[u]
        /\ c_i' = c_i + 1
    BY <1>4 DEF CounterProgram!Write, CounterInv, CounterTyped, Guarded
  <2>2. CounterTyped'
    BY <1>1, <1>4, <2>1 DEF CounterProgram!Write, CounterInv, CounterTyped
  <2>3. \A u \in Tids : Inside(u) => u = t
    BY <2>1, OneInside DEF Inside
  <2>4. InRound' /\ Guarded'
    BY <2>1, <2>3 DEF CounterInv, InRound, Guarded, Inside
  <2>5. /\ c_j[t] \in Nat /\ c_j[t] < COUNTS /\ Made(t) = c_j[t] /\ Made(t)' = c_j[t] + 1
        /\ \A u \in Tids : u # t => Made(u)' = Made(u)
    BY <2>1 DEF Made, CounterInv, CounterTyped, InRound
  <2>6. <<t, c_j[t] + 1>> \notin CounterProgram!Increments
    BY <2>5, IncrementsFinite DEF CounterInv
  <2>7. CounterProgram!Increments' = CounterProgram!Increments \cup {<<t, c_j[t] + 1>>}
    <3>1. CounterProgram!Increments' = {p \in Tids \X (1..COUNTS) : p[2] <= Made(p[1])'}
      BY DEF CounterProgram!Increments, CounterProgram!Tids, Tids, Made
    <3>2. CounterProgram!Increments = {p \in Tids \X (1..COUNTS) : p[2] <= Made(p[1])}
      BY IncrementsFinite DEF CounterInv
    <3>3. \A n \in 1..COUNTS : n <= Made(t)' <=> n <= Made(t) \/ n = c_j[t] + 1
      BY <2>5
    <3>4. \A p \in Tids \X (1..COUNTS) : p = <<p[1], p[2]>> /\ p[1] \in Tids /\ p[2] \in 1..COUNTS
      OBVIOUS
    <3>5. <<t, c_j[t] + 1>> \in Tids \X (1..COUNTS)
      BY <1>1, <2>5
    <3>6. \A p \in Tids \X (1..COUNTS) : p[2] <= Made(p[1])' <=> p[2] <= Made(p[1]) \/ p = <<t, c_j[t] + 1>>
      BY <2>5, <3>3, <3>4
    <3>7. QED BY <3>1, <3>2, <3>5, <3>6
  <2>8. Cardinality(CounterProgram!Increments') = Cardinality(CounterProgram!Increments) + 1
    BY <2>6, <2>7, IncrementsFinite, FS_AddElement DEF CounterInv
  <2>9. NoUpdateLost'
    <3>1. c_i' = Cardinality(CounterProgram!Increments')
      BY <2>1, <2>8, NoUpdateLostMeans DEF CounterInv
    <3>2. QED BY <3>1, SameCardinality DEF NoUpdateLost, CounterProgram!NoUpdateLost
  <2>10. QED BY <1>1, <2>1, <2>2, <2>4, <2>9, ThreadHandled DEF CounterInv
<1>5. CASE CounterProgram!Post(t)
  <2>1. /\ UNCHANGED <<c_i, c_reg>> /\ c_pc[t] = "post" /\ \A u \in Tids : u # t => c_pc'[u] = c_pc[u] /\ c_j'[u] = c_j[u]
        /\ c_pc'[t] = IF c_j[t] + 1 < COUNTS THEN "wait" ELSE "done"
        /\ c_mutex' = c_mutex + 1 /\ c_j'[t] = c_j[t] + 1 /\ c_j[t] \in Nat /\ c_j[t] < COUNTS
    BY <1>5 DEF CounterProgram!Post, CounterInv, CounterTyped, InRound
  <2>2. c_mutex = 0 /\ \A u \in Tids : Inside(u) => u = t
    BY <2>1, OneInside DEF Inside
  <2>3. CounterTyped'
    BY <1>1, <1>5, <2>1, <2>2 DEF CounterProgram!Post, CounterInv, CounterTyped
  <2>4. InRound'
    BY <1>1, <2>1 DEF CounterInv, InRound
  <2>5. Guarded'
    BY <2>1, <2>2 DEF CounterInv, Guarded, Inside
  <2>6. \A u \in Tids : Made(u)' = Made(u)
    BY <2>1 DEF Made
  <2>7. QED BY <1>1, <2>1, <2>3, <2>4, <2>5, <2>6, SameIncrements, ThreadHandled DEF CounterInv
<1>6. QED BY <1>2, <1>3, <1>4, <1>5 DEF CounterProgram!Thread

\* Every step of main keeps the handles in order; what it prints is the count after it
\* has joined all threads but one.
LEMMA MainStep ==
  ASSUME CounterInv, CounterProgram!Main
  PROVE  CounterInv'
<1>1. UNCHANGED <<c_i, c_mutex, c_reg, c_j>> /\ NUMTHREADS \in Nat /\ NUMTHREADS > 1 /\ COUNTS \in Nat
      /\ c_main.k \in Nat /\ c_main = [at |-> c_main.at, k |-> c_main.k]
  BY ExercisesAssumption DEF CounterProgram!Main, CounterProgram!Create, CounterProgram!Join, CounterProgram!PrintI,
     CounterProgram!Return, CounterInv, CounterTyped
<1>2. \A s \in Slots : Handle(s) \in Tids
  BY <1>1 DEF Slots, Tids, Handle
<1>3. CASE CounterProgram!Create
  <2>1. /\ c_main.at = "create" /\ c_main.k \in Tids /\ c_pc[c_main.k] = "new" /\ UNCHANGED c_printed
        /\ c_pc'[c_main.k] = "wait" /\ \A u \in Tids : u # c_main.k => c_pc'[u] = c_pc[u]
    BY <1>1, <1>3 DEF CounterProgram!Create, CounterInv, CounterTyped, Handled
  <2>2. /\ \/ /\ c_main.k < NUMTHREADS /\ c_main.k \in Slots /\ c_main'.at = "create" /\ c_main'.k = c_main.k + 1
              /\ c_threads'[c_main.k] = c_main.k /\ \A s \in Slots : s # c_main.k => c_threads'[s] = c_threads[s]
           \/ /\ c_main.k = NUMTHREADS /\ 1 \in Slots /\ c_main'.at = "join" /\ c_main'.k = 0
              /\ c_threads'[1] = NUMTHREADS /\ \A s \in Slots : s # 1 => c_threads'[s] = c_threads[s]
    BY <1>1, <1>3, <2>1 DEF CounterProgram!Create, CounterInv, CounterTyped, Tids, Slots
  <2>3. CounterTyped'
    <3>1. c_pc' \in [Tids -> {"new", "wait", "read", "write", "post", "done"}]
      BY <1>3, <2>1 DEF CounterProgram!Create, CounterInv, CounterTyped
    <3>2. c_threads' \in [Slots -> Tids \cup {-1}]
      BY <1>1, <1>3, <2>1, <2>2 DEF CounterProgram!Create, CounterInv, CounterTyped
    <3>3. c_main' \in [at : {"create", "join", "print", "return", "returned"}, k : Nat]
      BY <1>1, <1>3, <2>1, <2>2 DEF CounterProgram!Create
    <3>4. (c_main'.at = "create" => c_main'.k \in Tids) /\ (c_main'.at = "join" => c_main'.k \in Slots)
      BY <1>1, <2>2 DEF Tids, Slots
    <3>5. QED BY <1>1, <3>1, <3>2, <3>3, <3>4 DEF CounterInv, CounterTyped
  <2>4. Guarded'
    BY <1>1, <2>1 DEF CounterInv, Guarded, Inside
  <2>5. InRound'
    BY <1>1, <2>1, ExercisesAssumption DEF CounterInv, InRound
  <2>6. Handled'
    BY <1>1, <2>1, <2>2 DEF CounterInv, Handled, Handle, Tids, Slots
  <2>7. \A u \in Tids : Made(u)' = Made(u)
    BY <1>1, <2>1 DEF Made
  <2>8. PrintedInRange'
    BY <2>1 DEF CounterInv, PrintedInRange, CounterProgram!PrintedInRange
  <2>9. QED BY <1>1, <2>3, <2>4, <2>5, <2>6, <2>7, <2>8, SameIncrements DEF CounterInv
<1>4. ASSUME UNCHANGED <<c_pc, c_threads>>, CounterTyped', Handled', PrintedInRange'
      PROVE  CounterInv'
  <2>1. Guarded' /\ InRound' /\ \A u \in Tids : Made(u)' = Made(u)
    BY <1>1, <1>4 DEF CounterInv, Guarded, InRound, Inside, Made
  <2>2. QED BY <1>1, <1>4, <2>1, SameIncrements DEF CounterInv
<1>5. CASE CounterProgram!Join
  <2>1. /\ UNCHANGED <<c_pc, c_threads, c_printed>> /\ c_main.at = "join" /\ c_main.k \in Slots
        /\ c_pc[Handle(c_main.k)] = "done"
    BY <1>5 DEF CounterProgram!Join, CounterInv, CounterTyped, Handled
  <2>2. \/ /\ c_main.k + 1 < NUMTHREADS /\ c_main' = [at |-> "join", k |-> c_main.k + 1]
        \/ /\ c_main.k + 1 = NUMTHREADS /\ c_main' = [at |-> "print", k |-> 0]
    BY <1>1, <1>5, <2>1 DEF CounterProgram!Join, Slots
  <2>3. CounterTyped'
    BY <1>1, <2>1, <2>2 DEF CounterInv, CounterTyped, Slots
  <2>4. Handled'
    BY <1>1, <2>1, <2>2 DEF CounterInv, Handled, Slots
  <2>5. PrintedInRange'
    BY <2>1 DEF CounterInv, PrintedInRange, CounterProgram!PrintedInRange
  <2>6. QED BY <1>4, <2>1, <2>3, <2>4, <2>5
<1>6. CASE CounterProgram!PrintI
  <2>1. UNCHANGED <<c_pc, c_threads>> /\ c_main.at = "print" /\ c_main' = [at |-> "return", k |-> c_main.k] /\ c_printed' = c_i
    BY <1>1, <1>6 DEF CounterProgram!PrintI
  <2>2. CounterTyped'
    BY <1>1, <2>1 DEF CounterInv, CounterTyped
  <2>3. Handled'
    BY <2>1 DEF CounterInv, Handled
  <2>4. c_i = Cardinality(CounterProgram!Increments)
    BY NoUpdateLostMeans DEF CounterInv
  <2>5. \A t \in Tids \ {1} : Made(t) = COUNTS
    <3>1. \A t \in Tids \ {1} : c_pc[t] = "done"
      <4> TAKE t \in Tids \ {1}
      <4>1. CASE t = NUMTHREADS
        <5>1. 1 \in Slots /\ Handle(1) = t
          BY <1>1, <4>1 DEF Slots, Handle
        <5>2. QED BY <2>1, <5>1 DEF CounterInv, Handled
      <4>2. CASE t # NUMTHREADS
        <5>1. t \in Slots /\ Handle(t) = t
          BY <1>1, <4>2 DEF Slots, Tids, Handle
        <5>2. QED BY <2>1, <5>1 DEF CounterInv, Handled
      <4>3. QED BY <4>1, <4>2
    <3>2. QED BY <1>1, <3>1 DEF CounterInv, CounterTyped, InRound, Made
  <2>6. (Tids \ {1}) \X (1..COUNTS) \subseteq CounterProgram!Increments
    BY <1>1, <2>5, IncrementsFinite DEF CounterInv
  <2>7. Cardinality((Tids \ {1}) \X (1..COUNTS)) = NUMTHREADS * COUNTS
    <3>1. IsFiniteSet(Tids) /\ Cardinality(Tids) = NUMTHREADS + 1 /\ 1 \in Tids
      <4>1. 0 \in Int /\ NUMTHREADS \in Int /\ NUMTHREADS > 1
        BY <1>1
      <4>2. IsFiniteSet(0..NUMTHREADS) /\ Cardinality(0..NUMTHREADS) = NUMTHREADS + 1
        BY ONLY <4>1, FS_Interval
      <4>3. QED BY <1>1, <4>2 DEF Tids
    <3>2. IsFiniteSet(Tids \ {1}) /\ Cardinality(Tids \ {1}) = NUMTHREADS
      BY <1>1, <3>1, FS_RemoveElement
    <3>3. IsFiniteSet(1..COUNTS) /\ Cardinality(1..COUNTS) = COUNTS
      BY FS_Interval, ExercisesAssumption
    <3>4. QED BY <3>2, <3>3, FS_Product
  <2>8. /\ NUMTHREADS * COUNTS <= Cardinality(CounterProgram!Increments)
        /\ Cardinality(CounterProgram!Increments) \in Nat
        /\ Cardinality(CounterProgram!Increments) <= (NUMTHREADS + 1) * COUNTS
    BY <2>6, <2>7, IncrementsFinite, FS_Subset DEF CounterInv
  <2>9. NUMTHREADS * COUNTS \in Nat /\ (NUMTHREADS + 1) * COUNTS \in Nat
    BY <1>1
  <2>10. PrintedInRange'
    BY <2>1, <2>4, <2>8, <2>9 DEF PrintedInRange, CounterProgram!PrintedInRange
  <2>11. QED BY <1>4, <2>1, <2>2, <2>3, <2>10
<1>7. CASE CounterProgram!Return
  <2>1. UNCHANGED <<c_pc, c_threads, c_printed>> /\ c_main.at = "return" /\ c_main' = [at |-> "returned", k |-> c_main.k]
    BY <1>1, <1>7 DEF CounterProgram!Return
  <2>2. CounterTyped'
    BY <1>1, <2>1 DEF CounterInv, CounterTyped
  <2>3. Handled' /\ PrintedInRange'
    BY <2>1 DEF CounterInv, Handled, PrintedInRange, CounterProgram!PrintedInRange
  <2>4. QED BY <1>4, <2>1, <2>2, <2>3
<1>8. QED BY <1>3, <1>5, <1>6, <1>7 DEF CounterProgram!Main

\* The counter's invariant holds at all times.
LEMMA CounterAlways == ExercisesSpec => []CounterInv
<1>1. ExercisesInit => CounterInv
  BY CounterInit DEF ExercisesInit
<1>2. ASSUME CounterInv, [ExercisesNext]_allVars
      PROVE  CounterInv'
  <2>1. CASE UNCHANGED c_vars
    <3>1. UNCHANGED <<c_i, c_mutex, c_pc, c_reg, c_j, c_threads, c_main, c_printed>>
      BY <2>1 DEF c_vars
    <3>2. CounterTyped' /\ Guarded' /\ InRound' /\ Handled'
      BY <1>2, <3>1 DEF CounterInv, CounterTyped, Guarded, InRound, Handled, Inside
    <3>3. NoUpdateLost' /\ PrintedInRange'
      BY <1>2, <3>1 DEF CounterInv, NoUpdateLost, CounterProgram!NoUpdateLost, CounterProgram!Increments,
         PrintedInRange, CounterProgram!PrintedInRange
    <3>4. QED BY <3>2, <3>3 DEF CounterInv
  <2>2. CASE CounterProgram!Next
    <3>1. CASE \E t \in Tids : CounterProgram!Thread(t)
      BY <1>2, <3>1, ThreadStep
    <3>2. CASE CounterProgram!Main
      BY <1>2, <3>2, MainStep
    <3>3. CASE UNCHANGED c_vars
      BY <2>1, <3>3
    <3>4. QED BY <2>2, <3>1, <3>2, <3>3 DEF CounterProgram!Next, CounterProgram!Ended, CounterProgram!vars, CounterProgram!Tids, c_vars, Tids
  <2>3. QED BY <1>2, <2>1, <2>2 DEF ExercisesNext, allVars
<1>3. QED BY <1>1, <1>2, PTL DEF ExercisesSpec

\* The semaphore around i++ loses no increment, for any number of threads and rounds
\* (threads.c:15-23).
THEOREM CountKept == ExercisesSpec => []NoUpdateLost
<1>1. CounterInv => NoUpdateLost
  BY DEF CounterInv
<1>2. QED BY <1>1, CounterAlways, PTL

\* main joins all threads but the one whose handle is overwritten, and what it prints
\* has all rounds of the others (threads.c:46-60).
THEOREM PrintsInRange == ExercisesSpec => []PrintedInRange
<1>1. CounterInv => PrintedInRange
  BY DEF CounterInv
<1>2. QED BY <1>1, CounterAlways, PTL

-----------------------------------------------------------------------------
\* p8.c.  The descriptors a process holds are those its next step tells; the parent
\* and the children it has made go in step; child 1 has its line in the pipe when it
\* comes to its end, unless it found no reader; and child 2 lets go of its read end
\* when that line is printed.
Ends(p) ==
  CASE p = "parent" -> (CASE p_pc[p] \in {"fork1", "fork2", "close0"} -> {"file0", "file1"}
                          [] p_pc[p] = "close1" -> {"file1"}
                          [] OTHER -> {})
    [] p = "child1" -> (CASE p_pc[p] = "close0" -> {"file0", "file1"}
                          [] p_pc[p] = "dup" -> {"file1"}
                          [] p_pc[p] = "close1" -> {"file1", "stdout"}
                          [] p_pc[p] \in {"send", "exit"} -> {"stdout"}
                          [] OTHER -> {})
    [] p = "child2" -> (CASE p_pc[p] = "close1" -> {"file0", "file1"}
                          [] p_pc[p] = "dup" -> {"file0"}
                          [] p_pc[p] = "close0" -> {"file0", "stdin"}
                          [] p_pc[p] \in {"receive", "exit"} -> {"stdin"}
                          [] OTHER -> {})

Line ==
  /\ {p_pipe, p_sent, p_got} \subseteq Nat /\ p_sent = p_pipe + p_got
  /\ p_pc["child1"] \in {"none", "close0", "dup", "close1", "send"} => p_sent = 0
  /\ p_pc["child1"] = "exit" => p_sent = 1
  /\ p_pc["child1"] = "exited" => p_sent = 1 \/ (p_pc["parent"] = "exited" /\ p_pc["child2"] = "none")
  /\ p_pc["child2"] \in {"exit", "exited"} => p_pc["child1"] = "exited" /\ p_pipe = 0
  /\ p_pc["child2"] \in {"none", "close1", "dup", "close0"} => p_got = 0

Family ==
  /\ p_pc["parent"] = "fork1" => p_pc["child1"] = "none"
  /\ p_pc["parent"] \in {"fork1", "fork2"} => p_pc["child2"] = "none"
  /\ p_pc["parent"] \in {"fork2", "close0", "close1", "wait1", "wait2", "exit"} => p_pc["child1"] # "none"
  /\ p_pc["parent"] \in {"close0", "close1", "wait1", "wait2", "exit"} => p_pc["child2"] # "none"
  /\ p_pc["parent"] \in {"wait2", "exit"} => p_pc["child1"] = "exited"
  /\ p_pc["parent"] = "exit" => p_pc["child2"] = "exited"
  /\ p_pc["child2"] # "none" => p_pc["child1"] # "none"
  /\ p_pc["parent"] = "exited" /\ p_pc["child2"] # "none" => p_pc["child1"] = "exited" /\ p_pc["child2"] = "exited"

PipeTyped ==
  /\ p_pc \in [{"parent", "child1", "child2"} ->
                 {"none", "fork1", "fork2", "close0", "close1", "wait1", "wait2", "dup", "send", "receive", "exit", "exited"}]
  /\ p_fds \in [{"parent", "child1", "child2"} -> SUBSET {"file0", "file1", "stdin", "stdout"}]
  /\ p_pc["parent"] \in {"fork1", "fork2", "close0", "close1", "wait1", "wait2", "exit", "exited"}
  /\ p_pc["child1"] \in {"none", "close0", "dup", "close1", "send", "exit", "exited"}
  /\ p_pc["child2"] \in {"none", "close1", "dup", "close0", "receive", "exit", "exited"}
  /\ \A p \in {"parent", "child1", "child2"} : p_fds[p] = Ends(p)

PipeInv == PipeTyped /\ Family /\ Line

\* At the beginning only the parent exists, and holds both ends.
LEMMA PipeInit == PipeProgram!Init => PipeInv
BY DEF PipeProgram!Init, PipeProgram!Procs, PipeInv, PipeTyped, Family, Line, Ends

\* A step of the parent.
LEMMA ParentStep ==
  ASSUME PipeInv, PipeProgram!Parent
  PROVE  PipeInv'
<1>1. CASE PipeProgram!Fork("fork1", "fork2", "child1", "close0")
  <2>1. CASE PipeProgram!Exit("parent", "fork1")
    BY <2>1 DEF PipeProgram!Exit, PipeProgram!Goto, PipeInv, PipeTyped, Family, Line, Ends
  <2>2. CASE ~PipeProgram!Exit("parent", "fork1")
    <3>1. /\ p_pc["parent"] = "fork1" /\ p_pc' = [p_pc EXCEPT !["parent"] = "fork2", !["child1"] = "close0"]
          /\ p_fds' = [p_fds EXCEPT !["child1"] = p_fds["parent"]] /\ UNCHANGED <<p_pipe, p_sent, p_got>>
      BY <1>1, <2>2 DEF PipeProgram!Fork
    <3>2. p_pc'["parent"] = "fork2" /\ p_pc'["child1"] = "close0" /\ p_pc'["child2"] = p_pc["child2"]
      BY <3>1 DEF PipeInv, PipeTyped
    <3>3. p_fds'["parent"] = p_fds["parent"] /\ p_fds'["child1"] = p_fds["parent"] /\ p_fds'["child2"] = p_fds["child2"]
      BY <3>1 DEF PipeInv, PipeTyped
    <3>4. PipeTyped'
      BY <3>1, <3>2, <3>3 DEF PipeInv, PipeTyped, Ends
    <3>5. Family'
      BY <3>1, <3>2 DEF PipeInv, PipeTyped, Family
    <3>6. Line'
      BY <3>1, <3>2 DEF PipeInv, PipeTyped, Family, Line
    <3>7. QED BY <3>4, <3>5, <3>6 DEF PipeInv
  <2>3. QED BY <2>1, <2>2
<1>2. CASE PipeProgram!Fork("fork2", "close0", "child2", "close1")
  <2>1. CASE PipeProgram!Exit("parent", "fork2")
    BY <2>1 DEF PipeProgram!Exit, PipeProgram!Goto, PipeInv, PipeTyped, Family, Line, Ends
  <2>2. CASE ~PipeProgram!Exit("parent", "fork2")
    <3>1. /\ p_pc["parent"] = "fork2" /\ p_pc' = [p_pc EXCEPT !["parent"] = "close0", !["child2"] = "close1"]
          /\ p_fds' = [p_fds EXCEPT !["child2"] = p_fds["parent"]] /\ UNCHANGED <<p_pipe, p_sent, p_got>>
      BY <1>2, <2>2 DEF PipeProgram!Fork
    <3>2. p_pc'["parent"] = "close0" /\ p_pc'["child2"] = "close1" /\ p_pc'["child1"] = p_pc["child1"]
      BY <3>1 DEF PipeInv, PipeTyped
    <3>3. p_fds'["parent"] = p_fds["parent"] /\ p_fds'["child2"] = p_fds["parent"] /\ p_fds'["child1"] = p_fds["child1"]
      BY <3>1 DEF PipeInv, PipeTyped
    <3>4. PipeTyped'
      BY <3>1, <3>2, <3>3 DEF PipeInv, PipeTyped, Ends
    <3>5. Family'
      BY <3>1, <3>2 DEF PipeInv, PipeTyped, Family
    <3>6. Line'
      BY <3>1, <3>2 DEF PipeInv, PipeTyped, Family, Line
    <3>7. QED BY <3>4, <3>5, <3>6 DEF PipeInv
  <2>3. QED BY <2>1, <2>2
<1>3. CASE PipeProgram!Close("parent", "close0", "close1", "file0")
  BY <1>3 DEF PipeProgram!Fork, PipeProgram!Close, PipeProgram!Dup2, PipeProgram!WaitPid, PipeProgram!Exit, PipeProgram!Goto,
         PipeInv, PipeTyped, Family, Line, Ends
<1>4. CASE PipeProgram!Close("parent", "close1", "wait1", "file1")
  BY <1>4 DEF PipeProgram!Fork, PipeProgram!Close, PipeProgram!Dup2, PipeProgram!WaitPid, PipeProgram!Exit, PipeProgram!Goto,
         PipeInv, PipeTyped, Family, Line, Ends
<1>5. CASE PipeProgram!WaitPid("wait1", "wait2", "child1")
  BY <1>5 DEF PipeProgram!Fork, PipeProgram!Close, PipeProgram!Dup2, PipeProgram!WaitPid, PipeProgram!Exit, PipeProgram!Goto,
         PipeInv, PipeTyped, Family, Line, Ends
<1>6. CASE PipeProgram!WaitPid("wait2", "exit", "child2")
  BY <1>6 DEF PipeProgram!Fork, PipeProgram!Close, PipeProgram!Dup2, PipeProgram!WaitPid, PipeProgram!Exit, PipeProgram!Goto,
         PipeInv, PipeTyped, Family, Line, Ends
<1>7. CASE PipeProgram!Exit("parent", "exit")
  BY <1>7 DEF PipeProgram!Fork, PipeProgram!Close, PipeProgram!Dup2, PipeProgram!WaitPid, PipeProgram!Exit, PipeProgram!Goto,
         PipeInv, PipeTyped, Family, Line, Ends
<1>8. QED BY <1>1, <1>2, <1>3, <1>4, <1>5, <1>6, <1>7 DEF PipeProgram!Parent

\* As long as child 2 is not past its reading somebody holds the read end.
LEMMA Child1Step ==
  ASSUME PipeInv, PipeProgram!Child1
  PROVE  PipeInv'
<1>1. ~PipeProgram!Held(PipeProgram!ReadEnds) => (p_pc["parent"] = "exited" /\ p_pc["child2"] = "none") \/ p_pc["child2"] = "exited"
  BY DEF PipeProgram!Held, PipeProgram!ReadEnds, PipeProgram!Procs, PipeInv, PipeTyped, Family, Ends
<1>2. CASE PipeProgram!Send
  <2>1. CASE PipeProgram!Held(PipeProgram!ReadEnds)
    BY <1>2, <2>1 DEF PipeProgram!Send, PipeProgram!Goto, PipeInv, PipeTyped, Family, Line, Ends
  <2>2. CASE ~PipeProgram!Held(PipeProgram!ReadEnds)
    <3>1. p_pc["child1"] = "send" /\ p_pc' = [p_pc EXCEPT !["child1"] = "exited"] /\ p_fds' = [p_fds EXCEPT !["child1"] = {}]
          /\ UNCHANGED <<p_pipe, p_sent, p_got>>
      BY <1>2, <2>2 DEF PipeProgram!Send, PipeProgram!Exit, PipeProgram!Goto
    <3>2. p_pc'["child1"] = "exited" /\ p_pc'["parent"] = p_pc["parent"] /\ p_pc'["child2"] = p_pc["child2"]
      BY <3>1 DEF PipeInv, PipeTyped
    <3>3. p_pc["parent"] = "exited" /\ p_pc["child2"] = "none"
      BY <1>1, <2>2, <3>1 DEF PipeInv, Line
    <3>4. PipeTyped'
      BY <3>1, <3>2 DEF PipeInv, PipeTyped, Ends
    <3>5. Family' /\ Line'
      BY <3>1, <3>2, <3>3 DEF PipeInv, PipeTyped, Family, Line
    <3>6. QED BY <3>4, <3>5 DEF PipeInv
  <2>3. QED BY <2>1, <2>2
<1>3. CASE PipeProgram!Close("child1", "close0", "dup", "file0")
  BY <1>3 DEF PipeProgram!Fork, PipeProgram!Close, PipeProgram!Dup2, PipeProgram!WaitPid, PipeProgram!Exit, PipeProgram!Goto,
         PipeInv, PipeTyped, Family, Line, Ends
<1>4. CASE PipeProgram!Dup2("child1", "dup", "close1", "stdout")
  BY <1>4 DEF PipeProgram!Fork, PipeProgram!Close, PipeProgram!Dup2, PipeProgram!WaitPid, PipeProgram!Exit, PipeProgram!Goto,
         PipeInv, PipeTyped, Family, Line, Ends
<1>5. CASE PipeProgram!Close("child1", "close1", "send", "file1")
  BY <1>5 DEF PipeProgram!Fork, PipeProgram!Close, PipeProgram!Dup2, PipeProgram!WaitPid, PipeProgram!Exit, PipeProgram!Goto,
         PipeInv, PipeTyped, Family, Line, Ends
<1>6. CASE PipeProgram!Exit("child1", "exit")
  <2>1. p_pc["child1"] = "exit" /\ p_pc' = [p_pc EXCEPT !["child1"] = "exited"] /\ p_fds' = [p_fds EXCEPT !["child1"] = {}]
        /\ UNCHANGED <<p_pipe, p_sent, p_got>>
    BY <1>6 DEF PipeProgram!Exit, PipeProgram!Goto
  <2>2. p_pc'["child1"] = "exited" /\ p_pc'["parent"] = p_pc["parent"] /\ p_pc'["child2"] = p_pc["child2"]
    BY <2>1 DEF PipeInv, PipeTyped
  <2>3. PipeTyped'
    BY <2>1, <2>2 DEF PipeInv, PipeTyped, Ends
  <2>4. Family'
    BY <2>1, <2>2 DEF PipeInv, PipeTyped, Family
  <2>5. Line'
    BY <2>1, <2>2 DEF PipeInv, PipeTyped, Family, Line
  <2>6. QED BY <2>3, <2>4, <2>5 DEF PipeInv
<1>7. QED BY <1>2, <1>3, <1>4, <1>5, <1>6 DEF PipeProgram!Child1

\* As long as child 1 has not ended it holds the write end.
LEMMA Child2Step ==
  ASSUME PipeInv, PipeProgram!Child2
  PROVE  PipeInv'
<1>1. ~PipeProgram!Held(PipeProgram!WriteEnds) => p_pc["child1"] \in {"none", "exited"}
  BY DEF PipeProgram!Held, PipeProgram!WriteEnds, PipeProgram!Procs, PipeInv, PipeTyped, Family, Ends
<1>2. CASE PipeProgram!Receive
  BY <1>1, <1>2 DEF PipeProgram!Receive, PipeProgram!Exit, PipeProgram!Goto, PipeInv, PipeTyped, Family, Line, Ends
<1>3. CASE PipeProgram!Close("child2", "close1", "dup", "file1")
  BY <1>3 DEF PipeProgram!Fork, PipeProgram!Close, PipeProgram!Dup2, PipeProgram!WaitPid, PipeProgram!Exit, PipeProgram!Goto,
         PipeInv, PipeTyped, Family, Line, Ends
<1>4. CASE PipeProgram!Dup2("child2", "dup", "close0", "stdin")
  BY <1>4 DEF PipeProgram!Fork, PipeProgram!Close, PipeProgram!Dup2, PipeProgram!WaitPid, PipeProgram!Exit, PipeProgram!Goto,
         PipeInv, PipeTyped, Family, Line, Ends
<1>5. CASE PipeProgram!Close("child2", "close0", "receive", "file0")
  BY <1>5 DEF PipeProgram!Fork, PipeProgram!Close, PipeProgram!Dup2, PipeProgram!WaitPid, PipeProgram!Exit, PipeProgram!Goto,
         PipeInv, PipeTyped, Family, Line, Ends
<1>6. CASE PipeProgram!Exit("child2", "exit")
  BY <1>6 DEF PipeProgram!Fork, PipeProgram!Close, PipeProgram!Dup2, PipeProgram!WaitPid, PipeProgram!Exit, PipeProgram!Goto,
         PipeInv, PipeTyped, Family, Line, Ends
<1>7. QED BY <1>2, <1>3, <1>4, <1>5, <1>6 DEF PipeProgram!Child2

\* The invariant of the processes on the pipe holds at all times.
LEMMA PipeAlways == ExercisesSpec => []PipeInv
<1>1. ExercisesInit => PipeInv
  BY PipeInit DEF ExercisesInit
<1>2. ASSUME PipeInv, [ExercisesNext]_allVars
      PROVE  PipeInv'
  <2>1. CASE UNCHANGED p_vars
    BY <1>2, <2>1 DEF p_vars, PipeInv, PipeTyped, Family, Line, Ends
  <2>2. CASE PipeProgram!Next
    BY <1>2, <2>1, <2>2, ParentStep, Child1Step, Child2Step
    DEF PipeProgram!Next, PipeProgram!Finished, PipeProgram!vars, p_vars
  <2>3. QED BY <1>2, <2>1, <2>2 DEF ExercisesNext, allVars
<1>3. QED BY <1>1, <1>2, PTL DEF ExercisesSpec

\* Child 2 takes an empty pipe for the end of the file only when child 1 has ended
\* and its line is printed, because nobody keeps a write end open or closes a read
\* end too early (p8.c:23-56).
THEOREM ReadToTheEnd == ExercisesSpec => []NoEarlyEnd
<1>1. PipeInv => NoEarlyEnd
  BY DEF PipeInv, PipeTyped, Family, Line, NoEarlyEnd, PipeProgram!NoEarlyEnd, PipeProgram!Ended
<1>2. QED BY <1>1, PipeAlways, PTL

\* A parent that made both children waits for both (p8.c:58-59).
THEOREM ParentOutlives == ExercisesSpec => []ParentLast
<1>1. PipeInv => ParentLast
  BY DEF PipeInv, Family, ParentLast, PipeProgram!ParentLast, PipeProgram!Ended, PipeProgram!Procs
<1>2. QED BY <1>1, PipeAlways, PTL

-----------------------------------------------------------------------------
\* p9.c.  What WholeMessage leaves unsaid: before it is written nothing has moved, the
\* write end is open until the writer is done, and the reader stops only after that.
InHand == IF q_pc2 = "print" THEN <<q_ch>> ELSE << >>

MessageInv ==
  /\ q_open \subseteq {0, 1} /\ q_pipe \in Seq(Nat) /\ q_ch \in Nat /\ q_got \in Seq(Nat)
  /\ q_pc1 \in {"write", "close", "done"} /\ q_pc2 \in {"read", "print", "close", "done"}
  /\ q_pc1 = "write" => q_pipe = << >> /\ q_got = << >> /\ q_pc2 = "read"
  /\ 1 \in q_open <=> q_pc1 # "done"
  /\ 0 \notin q_open <=> q_pc2 = "done"
  /\ q_pc2 \in {"close", "done"} => q_pc1 = "done" /\ q_pipe = << >>
  /\ q_pc1 # "write" => q_got \o InHand \o q_pipe = MessageProgram!Message

\* The message is a sequence of bytes.
LEMMA MessageIsSeq == MessageProgram!Message \in Seq(Nat)
BY ExercisesAssumption DEF MessageProgram!Message

\* At the beginning nothing is written.
LEMMA MessageInit == MessageProgram!Init => MessageInv
BY DEF MessageProgram!Init, MessageInv

\* Every step moves the message on: written, read into the hand, printed.
LEMMA MessageStep ==
  ASSUME MessageInv, MessageProgram!Next
  PROVE  MessageInv'
<1>1. CASE MessageProgram!WriteMessage
  <2>1. q_pc1 = "write" /\ q_pipe' = << >> \o MessageProgram!Message /\ q_pc1' = "close" /\ UNCHANGED <<q_open, q_pc2, q_ch, q_got>>
        /\ q_got = << >> /\ q_pc2 = "read"
    BY <1>1 DEF MessageProgram!WriteMessage, MessageInv
  <2>2. q_pipe' = MessageProgram!Message
    BY <2>1, MessageIsSeq, ConcatEmptySeq
  <2>3. q_got' \o InHand' \o q_pipe' = MessageProgram!Message
    BY <2>1, <2>2, MessageIsSeq, ConcatEmptySeq DEF InHand
  <2>4. QED BY <2>1, <2>2, <2>3, MessageIsSeq DEF MessageInv
<1>2. CASE MessageProgram!CloseWriteEnd
  <2>1. q_pc1 = "close" /\ q_pc1' = "done" /\ q_open' = q_open \ {1} /\ UNCHANGED <<q_pipe, q_pc2, q_ch, q_got>>
    BY <1>2 DEF MessageProgram!CloseWriteEnd
  <2>2. InHand' = InHand /\ (0 \in q_open' <=> 0 \in q_open) /\ 1 \notin q_open'
    BY <2>1 DEF InHand
  <2>3. QED BY <2>1, <2>2 DEF MessageInv
<1>3. CASE MessageProgram!Read
  <2>1. CASE q_pipe # << >> /\ q_ch' = Head(q_pipe) /\ q_pipe' = Tail(q_pipe) /\ q_pc2' = "print"
    <3>1. q_pc2 = "read" /\ UNCHANGED <<q_open, q_pc1, q_got>> /\ q_pipe \in Seq(Nat) /\ q_got \in Seq(Nat) /\ q_pc1 # "write"
      BY <1>3, <2>1 DEF MessageProgram!Read, MessageInv
    <3>2. q_ch' \in Nat /\ q_pipe' \in Seq(Nat) /\ q_pipe = <<q_ch'>> \o q_pipe'
      BY <2>1, <3>1
    <3>3. q_got' \o InHand' \o q_pipe' = q_got \o InHand \o q_pipe
      <4>1. q_got \o << >> = q_got
        BY <3>1
      <4>2. <<q_ch'>> \in Seq(Nat)
        BY <3>2
      <4>3. q_got \o (<<q_ch'>> \o q_pipe') = q_got \o <<q_ch'>> \o q_pipe'
        BY <3>1, <3>2, <4>2, ConcatAssociative, SMTT(30)
      <4>4. QED BY <2>1, <3>1, <3>2, <4>1, <4>3 DEF InHand
    <3>4. QED BY <2>1, <3>1, <3>2, <3>3 DEF MessageInv
  <2>2. CASE q_pipe = << >> /\ 1 \notin q_open /\ q_pc2' = "close" /\ UNCHANGED <<q_ch, q_pipe>>
    BY <1>3, <2>2 DEF MessageProgram!Read, MessageInv, InHand
  <2>3. QED BY <1>3, <2>1, <2>2 DEF MessageProgram!Read
<1>4. CASE MessageProgram!PrintCh
  <2>1. q_pc2 = "print" /\ q_got' = Append(q_got, q_ch) /\ q_pc2' = "read" /\ UNCHANGED <<q_open, q_pipe, q_pc1, q_ch>>
        /\ q_got \in Seq(Nat) /\ q_ch \in Nat
    BY <1>4 DEF MessageProgram!PrintCh, MessageInv
  <2>2. q_got' \in Seq(Nat) /\ q_got' \o InHand' = q_got \o InHand
    BY <2>1 DEF InHand
  <2>3. QED BY <2>1, <2>2 DEF MessageInv
<1>5. CASE MessageProgram!CloseReadEnd
  BY <1>5 DEF MessageProgram!CloseReadEnd, MessageInv, InHand
<1>6. CASE MessageProgram!Finished
  BY <1>6 DEF MessageProgram!Finished, MessageProgram!vars, MessageInv, InHand
<1>7. QED BY <1>1, <1>2, <1>3, <1>4, <1>5, <1>6 DEF MessageProgram!Next, MessageProgram!thread1, MessageProgram!thread2

\* For a message of any length that goes into the pipe in one write, no byte is lost,
\* repeated or reordered on its way, and the reader stops after the last one (p9.c:9-26).
THEOREM MessageWhole == ExercisesSpec => []WholeMessage
<1>1. ExercisesInit => MessageInv
  BY MessageInit DEF ExercisesInit
<1>2. ASSUME MessageInv, [ExercisesNext]_allVars
      PROVE  MessageInv'
  <2>1. CASE UNCHANGED q_vars
    BY <1>2, <2>1 DEF q_vars, MessageInv, InHand
  <2>2. QED BY <1>2, <2>1, MessageStep DEF ExercisesNext, allVars
<1>3. ASSUME MessageInv
      PROVE  WholeMessage
  <2>1. q_pc2 \in {"close", "done"} => q_got = MessageProgram!Message
    <3> SUFFICES ASSUME q_pc2 \in {"close", "done"}
                 PROVE  q_got = MessageProgram!Message
      OBVIOUS
    <3>1. q_got \in Seq(Nat) /\ q_got \o << >> \o << >> = MessageProgram!Message
      BY <1>3 DEF MessageInv, InHand
    <3>2. QED BY <3>1
  <2>2. QED BY <1>3, <2>1 DEF MessageInv, InHand, WholeMessage, MessageProgram!WholeMessage
<1>4. QED BY <1>1, <1>2, <1>3, PTL DEF ExercisesSpec
=============================================================================
