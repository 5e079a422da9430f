-------------------------- MODULE MonitorSemProofs --------------------------
(***************************************************************************)
(* What holds of MonitorSem for every set of threads, every set of Sems,   *)
(* every initial count and every bound.                                    *)
(***************************************************************************)
EXTENDS MonitorSem, FiniteSetTheorems, TLAPS

\* The part of the inductive invariant that knows where each thread is.
Places == TypeOK /\ LockDiscipline

USE DEF Steps, WaitSteps, SignalSteps, Inside, Goto

LEMMA InitPlaces == Init => Places
BY ThreadsAssumption, SemsAssumption DEF Init, Places, TypeOK, LockDiscipline

LEMMA NextPlaces == Places /\ [Next]_vars => Places'
<1> SUFFICES ASSUME Places, [Next]_vars PROVE Places'
  OBVIOUS
<1> USE ThreadsAssumption, SemsAssumption DEF Places, TypeOK, LockDiscipline
<1>1. CASE UNCHANGED vars
  BY <1>1 DEF vars
<1>2. ASSUME NEW t \in Threads, NEW s \in Sems, CallWait(t, s) PROVE Places'
  BY <1>2 DEF CallWait
<1>3. ASSUME NEW t \in Threads, NEW s \in Sems, CallSignal(t, s) PROVE Places'
  BY <1>3 DEF CallSignal
<1>4. ASSUME NEW t \in Threads, Lock(t) PROVE Places'
  BY <1>4 DEF Lock
<1>5. ASSUME NEW t \in Threads, WaitBlock(t) PROVE Places'
  BY <1>5 DEF WaitBlock
<1>6. ASSUME NEW t \in Threads, WaitTake(t) PROVE Places'
  BY <1>6 DEF WaitTake
<1>7. ASSUME NEW t \in Threads, SignalCount(t) PROVE Places'
  BY <1>7 DEF SignalCount
<1>8. ASSUME NEW t \in Threads, SignalCond(t) PROVE Places'
  BY <1>8 DEF SignalCond
<1>9. ASSUME NEW t \in Threads, Unlock(t) PROVE Places'
  BY <1>9 DEF Unlock
<1>10. ASSUME NEW t \in Threads, SpuriousWakeup(t) PROVE Places'
  BY <1>10 DEF SpuriousWakeup
<1> QED
  BY <1>1, <1>2, <1>3, <1>4, <1>5, <1>6, <1>7, <1>8, <1>9, <1>10
  DEF Next, Call, Step

\* Whatever the interleaving no count goes below 0, though count-- is not
\* guarded but by the while loop before it (my_sem.h:20-22).
THEOREM Typing == SafeSpec => []TypeOK
<1>1. Places => TypeOK
  BY DEF Places
<1> QED
  BY <1>1, InitPlaces, NextPlaces, PTL DEF SafeSpec

\* The mutex of a Sem has one thread inside at most, its owner, and the waiters
\* of its condition are the threads blocked on it (my_sem.h:18-31).
THEOREM MutexDiscipline == SafeSpec => []LockDiscipline
<1>1. Places => LockDiscipline
  BY DEF Places
<1> QED
  BY <1>1, InitPlaces, NextPlaces, PTL DEF SafeSpec

-----------------------------------------------------------------------------
\* How the set of threads on their way to a unit changes its size.
LEMMA InFlightFinite ==
  ASSUME NEW s
  PROVE  /\ IsFiniteSet(InFlight(s)) /\ Cardinality(InFlight(s)) \in Nat
         /\ IsFiniteSet(InFlight(s)') /\ Cardinality(InFlight(s)') \in Nat
<1>1. InFlight(s) \subseteq Threads /\ InFlight(s)' \subseteq Threads
  BY DEF InFlight
<1> QED
  BY <1>1, ThreadsAssumption, FS_Subset, FS_CardinalityType

LEMMA NextNoLostWakeup ==
  Places /\ NoLostWakeup /\ [Next]_vars => NoLostWakeup'
<1> SUFFICES ASSUME Places, NoLostWakeup, [Next]_vars, NEW s \in Sems, waiting'[s] # {}
             PROVE  count'[s] <= Cardinality(InFlight(s)')
  BY DEF NoLostWakeup
<1> DEFINE a == InFlight(s)
           b == InFlight(s)'
<1>a. /\ waiting[s] # {} => count[s] <= Cardinality(a)
      /\ count[s] \in Nat
      /\ IsFiniteSet(a) /\ Cardinality(a) \in Nat
      /\ IsFiniteSet(b) /\ Cardinality(b) \in Nat
  BY InFlightFinite DEF NoLostWakeup, Places, TypeOK
\* Nothing is taken from the set, nothing is added to the count.
<1>b. ASSUME waiting[s] # {}, count'[s] = count[s], a \subseteq b
      PROVE  count'[s] <= Cardinality(b)
  <2>1. Cardinality(a) <= Cardinality(b)
    BY <1>a, <1>b, FS_Subset
  <2> QED
    BY <2>1, <1>a, <1>b
<1> USE ThreadsAssumption, SemsAssumption DEF Places, TypeOK, LockDiscipline
<1>1. CASE UNCHANGED vars
  <2>1. a = b /\ waiting[s] # {} /\ count'[s] = count[s]
    BY <1>1 DEF vars, InFlight
  <2> QED
    BY <2>1, <1>b
<1>2. ASSUME NEW t \in Threads, NEW r \in Sems, CallWait(t, r) \/ CallSignal(t, r)
      PROVE  count'[s] <= Cardinality(b)
  <2>1. a = b /\ waiting[s] # {} /\ count'[s] = count[s]
    BY <1>2 DEF CallWait, CallSignal, InFlight
  <2> QED
    BY <2>1, <1>b
<1>4. ASSUME NEW t \in Threads, Lock(t) PROVE count'[s] <= Cardinality(b)
  <2>1. a \subseteq b /\ waiting[s] # {} /\ count'[s] = count[s]
    BY <1>4 DEF Lock, InFlight
  <2> QED
    BY <2>1, <1>b
<1>5. ASSUME NEW t \in Threads, WaitBlock(t) PROVE count'[s] <= Cardinality(b)
  <2>1. CASE arg[t] = s
    BY <1>5, <2>1, <1>a DEF WaitBlock
  <2>2. CASE arg[t] # s
    <3>1. a \subseteq b /\ waiting[s] # {} /\ count'[s] = count[s]
      BY <1>5, <2>2 DEF WaitBlock, InFlight
    <3> QED
      BY <3>1, <1>b
  <2> QED
    BY <2>1, <2>2
<1>6. ASSUME NEW t \in Threads, WaitTake(t) PROVE count'[s] <= Cardinality(b)
  <2>1. CASE arg[t] = s
    <3>1. t \in a /\ b = a \ {t} /\ waiting[s] # {} /\ count'[s] = count[s] - 1
      BY <1>6, <2>1 DEF WaitTake, InFlight
    <3>2. Cardinality(b) = Cardinality(a) - 1
      BY <3>1, <1>a, FS_RemoveElement
    <3> QED
      BY <3>1, <3>2, <1>a
  <2>2. CASE arg[t] # s
    <3>1. a \subseteq b /\ waiting[s] # {} /\ count'[s] = count[s]
      BY <1>6, <2>2 DEF WaitTake, InFlight
    <3> QED
      BY <3>1, <1>b
  <2> QED
    BY <2>1, <2>2
<1>7. ASSUME NEW t \in Threads, SignalCount(t) PROVE count'[s] <= Cardinality(b)
  <2>1. CASE arg[t] = s
    <3>1. t \notin a /\ b = a \union {t} /\ waiting[s] # {} /\ count'[s] = count[s] + 1
      BY <1>7, <2>1 DEF SignalCount, InFlight
    <3>2. Cardinality(b) = Cardinality(a) + 1
      BY <3>1, <1>a, FS_AddElement
    <3> QED
      BY <3>1, <3>2, <1>a
  <2>2. CASE arg[t] # s
    <3>1. a \subseteq b /\ waiting[s] # {} /\ count'[s] = count[s]
      BY <1>7, <2>2 DEF SignalCount, InFlight
    <3> QED
      BY <3>1, <1>b
  <2> QED
    BY <2>1, <2>2
<1>8. ASSUME NEW t \in Threads, SignalCond(t) PROVE count'[s] <= Cardinality(b)
  <2>1. CASE arg[t] = s
    <3>1. PICK w \in waiting[s] : /\ waiting' = [waiting EXCEPT ![s] = @ \ {w}]
                                  /\ pc' = [pc EXCEPT ![t] = "signal_unlock", ![w] = "woken"]
                                  /\ UNCHANGED <<count, arg>>
      BY <1>8, <2>1 DEF SignalCond
    <3>2. w \in Threads /\ pc[w] = "blocked" /\ arg[w] = s /\ pc[t] = "signal_cond"
      BY <3>1, <1>8 DEF SignalCond
    <3>3. t \in a /\ w \notin a \ {t} /\ b = (a \ {t}) \union {w}
      BY <3>1, <3>2, <2>1 DEF InFlight
    <3>4. IsFiniteSet(a \ {t}) /\ Cardinality(a \ {t}) = Cardinality(a) - 1
      BY <3>3, <1>a, FS_RemoveElement
    <3>5. Cardinality(b) = Cardinality(a \ {t}) + 1
      <4> DEFINE c == a \ {t}
      <4>1. IsFiniteSet(c) /\ w \notin c /\ b = c \union {w}
        BY <3>3, <3>4
      <4> HIDE DEF a, b, c
      <4>2. Cardinality(c \union {w}) = Cardinality(c) + 1
        BY <4>1, FS_AddElement
      <4> QED
        BY <4>1, <4>2 DEF c
    <3> QED
      BY <3>1, <3>4, <3>5, <1>a
  <2>2. CASE arg[t] # s
    <3>1. a \subseteq b /\ waiting[s] # {} /\ count'[s] = count[s]
      BY <1>8, <2>2 DEF SignalCond, InFlight
    <3> QED
      BY <3>1, <1>b
  <2> QED
    BY <2>1, <2>2
<1>9. ASSUME NEW t \in Threads, Unlock(t) PROVE count'[s] <= Cardinality(b)
  <2>1. a = b /\ waiting[s] # {} /\ count'[s] = count[s]
    BY <1>9 DEF Unlock, InFlight
  <2> QED
    BY <2>1, <1>b
<1>10. ASSUME NEW t \in Threads, SpuriousWakeup(t) PROVE count'[s] <= Cardinality(b)
  <2>1. a \subseteq b /\ waiting[s] # {} /\ count'[s] = count[s]
    BY <1>10 DEF SpuriousWakeup, InFlight
  <2> QED
    BY <2>1, <1>b
<1> QED
  BY <1>1, <1>2, <1>4, <1>5, <1>6, <1>7, <1>8, <1>9, <1>10 DEF Next, Call, Step

\* No thread sleeps beside a unit nobody is on the way to, for any number of
\* threads and semaphores, spurious wakeups included (my_sem.h:18-31).
THEOREM WakeupsReachUnits == SafeSpec => []NoLostWakeup
<1>1. Init => NoLostWakeup
  BY DEF Init, NoLostWakeup
<1> QED
  BY <1>1, InitPlaces, NextPlaces, NextNoLostWakeup, PTL DEF SafeSpec

-----------------------------------------------------------------------------
\* Moving one thread's program counter moves that thread's abstract call.
LEMMA CallOfStep ==
  ASSUME NEW t \in Threads, NEW step, Places, pc' = [pc EXCEPT ![t] = step]
  PROVE  [x \in Threads |-> CallOf(pc[x])]'
           = [[x \in Threads |-> CallOf(pc[x])] EXCEPT ![t] = CallOf(step)]
<1>1. \A x \in Threads : pc'[x] = IF x = t THEN step ELSE pc[x]
  BY DEF Places, TypeOK
<1>2. \A x \in Threads : CallOf(pc'[x]) = IF x = t THEN CallOf(step) ELSE CallOf(pc[x])
  BY <1>1 DEF CallOf
<1> QED
  BY <1>2

\* The monitor implements the semaphore: every step of my_sem.h is a step of
\* Semaphore or leaves its variables alone (safety; the fairness is TLC's).
LEMMA StepRefines == Places /\ [Next]_vars => [Abstract!Next]_(Abstract!vars)
<1> SUFFICES ASSUME Places, [Next]_vars
             PROVE  Abstract!Next \/ UNCHANGED Abstract!vars
  OBVIOUS
<1> USE ThreadsAssumption, SemsAssumption
    DEF Places, TypeOK, LockDiscipline, CallOf, Abstract!vars
<1>1. CASE UNCHANGED vars
  BY <1>1 DEF vars
<1>2. ASSUME NEW t \in Threads, NEW s \in Sems, CallWait(t, s) \/ CallSignal(t, s)
      PROVE  Abstract!Invoke(t, s)
  <2>1. CallOf(pc[t]) = "idle" /\ arg' = [arg EXCEPT ![t] = s] /\ UNCHANGED count
    BY <1>2 DEF CallWait, CallSignal
  <2>2. CallOf("wait_lock") = "waiting" /\ CallOf("signal_lock") = "posting"
    OBVIOUS
  <2> HIDE DEF CallOf
  <2>3. PICK step \in {"wait_lock", "signal_lock"} : pc' = [pc EXCEPT ![t] = step]
    BY <1>2 DEF CallWait, CallSignal
  <2>4. [x \in Threads |-> CallOf(pc[x])]'
           = [[x \in Threads |-> CallOf(pc[x])] EXCEPT ![t] = CallOf(step)]
    BY <2>3, CallOfStep
  <2>5. CallOf(step) \in {"waiting", "posting"}
    BY <2>2
  <2> QED
    BY <2>1, <2>4, <2>5 DEF Abstract!Invoke
<1>3. ASSUME NEW t \in Threads, Lock(t) \/ WaitBlock(t) \/ SignalCond(t) \/ SpuriousWakeup(t)
      PROVE  UNCHANGED Abstract!vars
  <2>1. \A x \in Threads : CallOf(pc'[x]) = CallOf(pc[x])
    BY <1>3 DEF Lock, WaitBlock, SignalCond, SpuriousWakeup
  <2>2. UNCHANGED <<count, arg>>
    BY <1>3 DEF Lock, WaitBlock, SignalCond, SpuriousWakeup
  <2> QED
    BY <2>1, <2>2
<1> HIDE DEF CallOf
<1>4. ASSUME NEW t \in Threads, WaitTake(t) PROVE Abstract!Take(t)
  <2>1. CallOf(pc[t]) = "waiting" /\ CallOf("wait_unlock") = "returning" /\ arg[t] \in Sems
    BY <1>4 DEF WaitTake, CallOf
  <2>2. pc' = [pc EXCEPT ![t] = "wait_unlock"]
    BY <1>4 DEF WaitTake
  <2>3. count[arg[t]] > 0 /\ count' = [count EXCEPT ![arg[t]] = @ - 1] /\ UNCHANGED arg
    BY <1>4, <2>1 DEF WaitTake
  <2>4. [x \in Threads |-> CallOf(pc[x])]'
           = [[x \in Threads |-> CallOf(pc[x])] EXCEPT ![t] = "returning"]
    BY <2>1, <2>2, CallOfStep
  <2> QED
    BY <2>1, <2>3, <2>4 DEF Abstract!Take
<1>5. ASSUME NEW t \in Threads, SignalCount(t) PROVE Abstract!Post(t)
  <2>1. CallOf(pc[t]) = "posting" /\ CallOf("signal_cond") = "returning"
    BY <1>5 DEF SignalCount, CallOf
  <2>2. pc' = [pc EXCEPT ![t] = "signal_cond"]
    BY <1>5 DEF SignalCount
  <2>3. count' = [count EXCEPT ![arg[t]] = @ + 1] /\ UNCHANGED arg
    BY <1>5 DEF SignalCount
  <2>4. [x \in Threads |-> CallOf(pc[x])]'
           = [[x \in Threads |-> CallOf(pc[x])] EXCEPT ![t] = "returning"]
    BY <2>1, <2>2, CallOfStep
  <2> QED
    BY <2>1, <2>3, <2>4 DEF Abstract!Post
<1>6. ASSUME NEW t \in Threads, Unlock(t) PROVE Abstract!Return(t)
  <2>1. CallOf(pc[t]) = "returning" /\ CallOf("idle") = "idle"
    BY <1>6 DEF Unlock, CallOf
  <2>2. pc' = [pc EXCEPT ![t] = "idle"]
    BY <1>6 DEF Unlock
  <2>3. arg' = [arg EXCEPT ![t] = NoSem] /\ UNCHANGED count
    BY <1>6 DEF Unlock
  <2>4. [x \in Threads |-> CallOf(pc[x])]'
           = [[x \in Threads |-> CallOf(pc[x])] EXCEPT ![t] = "idle"]
    BY <2>1, <2>2, CallOfStep
  <2> QED
    BY <2>1, <2>3, <2>4 DEF Abstract!Return
<1> QED
  BY <1>1, <1>2, <1>3, <1>4, <1>5, <1>6 DEF Next, Call, Step, Abstract!Next

\* Every Sem is a counting semaphore, whatever the interleaving: the count-- of
\* a wait takes a unit that is there, the count++ of a signal adds one
\* (my_sem.h:18-31).
THEOREM Refinement == SafeSpec => Abstract!SafeSpec
<1>1. Init => Abstract!Init
  BY DEF Init, Abstract!Init, CallOf
<1> QED
  BY <1>1, InitPlaces, NextPlaces, StepRefines, PTL DEF SafeSpec, Abstract!SafeSpec
=============================================================================
