----------------------------- MODULE MonitorSem -----------------------------
(***************************************************************************)
(* homework/hw2/my_sem.h: counting semaphores made of a count, a mutex and *)
(* a condition variable.  A thread calls sem_wait_custom or                *)
(* sem_signal_custom on any of them, one call at a time, and every step    *)
(* between two pthread calls is an action of its own.                      *)
(*                                                                         *)
(* The pthread primitives are modelled by what POSIX promises: a mutex has *)
(* at most one owner and no queue; pthread_cond_wait gives the mutex up and*)
(* joins the waiters in one step, and takes the mutex again before it      *)
(* returns; pthread_cond_signal wakes one waiter when there is one; a      *)
(* waiter may also wake for no reason.                                     *)
(***************************************************************************)
EXTENDS Naturals, FiniteSets

CONSTANTS Threads,      \* the threads that call the semaphores
          Sems,         \* the Sem objects
          InitialCount, \* InitialCount[s]: the value sem_init_custom is given
          MaxCount,     \* bound: no call that would raise a count past it
          NoThread,     \* the owner of a mutex nobody holds
          NoSem         \* the argument of a thread that is in no call

ASSUME ThreadsAssumption == IsFiniteSet(Threads) /\ NoThread \notin Threads
ASSUME SemsAssumption == /\ NoSem \notin Sems
                         /\ InitialCount \in [Sems -> Nat]
                         /\ MaxCount \in Nat

VARIABLES count,    \* count[s]: Sem.count
          owner,    \* owner[s]: the thread that holds Sem.mutex
          waiting,  \* waiting[s]: the threads blocked on Sem.cond
          pc,       \* pc[t]: the step thread t is about to take
          arg       \* arg[t]: the Sem thread t's call is about

vars == <<count, owner, waiting, pc, arg>>

\* The steps of sem_wait_custom (lock, test, blocked, woken, unlock) and of
\* sem_signal_custom (lock, count++, signal, unlock).
WaitSteps == {"wait_lock", "wait_test", "blocked", "woken", "wait_unlock"}
SignalSteps == {"signal_lock", "signal_count", "signal_cond", "signal_unlock"}
Steps == {"idle"} \union WaitSteps \union SignalSteps

\* The steps at which the thread holds the mutex.
Inside == {"wait_test", "wait_unlock", "signal_count", "signal_cond", "signal_unlock"}

-----------------------------------------------------------------------------
Init ==
  /\ count = InitialCount
  /\ owner = [s \in Sems |-> NoThread]
  /\ waiting = [s \in Sems |-> {}]
  /\ pc = [t \in Threads |-> "idle"]
  /\ arg = [t \in Threads |-> NoSem]

Goto(t, step) == pc' = [pc EXCEPT ![t] = step]

CallWait(t, s) ==
  /\ pc[t] = "idle"
  /\ Goto(t, "wait_lock")
  /\ arg' = [arg EXCEPT ![t] = s]
  /\ UNCHANGED <<count, owner, waiting>>

CallSignal(t, s) ==
  /\ pc[t] = "idle"
  /\ Goto(t, "signal_lock")
  /\ arg' = [arg EXCEPT ![t] = s]
  /\ UNCHANGED <<count, owner, waiting>>

LockUnguarded(t) ==
  /\ pc[t] \in {"wait_lock", "woken", "signal_lock"}
  /\ owner' = [owner EXCEPT ![arg[t]] = t]
  /\ \/ pc[t] \in {"wait_lock", "woken"} /\ Goto(t, "wait_test")
     \/ pc[t] = "signal_lock" /\ Goto(t, "signal_count")
  /\ UNCHANGED <<count, waiting, arg>>

\* pthread_cond_wait in an if: a woken thread does not look at count again.
LockWithIf(t) ==
  /\ pc[t] \in {"wait_lock", "woken", "signal_lock"}
  /\ owner[arg[t]] = NoThread
  /\ owner' = [owner EXCEPT ![arg[t]] = t]
  /\ \/ pc[t] = "wait_lock" /\ Goto(t, "wait_test") /\ UNCHANGED count
     \/ /\ pc[t] = "woken"
        /\ Goto(t, "wait_unlock")
        /\ count' = [count EXCEPT ![arg[t]] = @ - 1]
     \/ pc[t] = "signal_lock" /\ Goto(t, "signal_count") /\ UNCHANGED count
  /\ UNCHANGED <<waiting, arg>>

\* pthread_mutex_lock, by its caller or inside pthread_cond_wait.
Lock(t) ==
  /\ pc[t] \in {"wait_lock", "woken", "signal_lock"}
  /\ owner[arg[t]] = NoThread
  /\ owner' = [owner EXCEPT ![arg[t]] = t]
  /\ \/ pc[t] \in {"wait_lock", "woken"} /\ Goto(t, "wait_test")
     \/ pc[t] = "signal_lock" /\ Goto(t, "signal_count")
  /\ UNCHANGED <<count, waiting, arg>>

\* The while loop finds the count zero: pthread_cond_wait.
WaitBlock(t) ==
  /\ pc[t] = "wait_test"
  /\ count[arg[t]] = 0
  /\ owner' = [owner EXCEPT ![arg[t]] = NoThread]
  /\ waiting' = [waiting EXCEPT ![arg[t]] = @ \union {t}]
  /\ Goto(t, "blocked")
  /\ UNCHANGED <<count, arg>>

\* A waiter wakes though nobody signalled it.
SpuriousWakeup(t) ==
  /\ pc[t] = "blocked"
  /\ waiting' = [waiting EXCEPT ![arg[t]] = @ \ {t}]
  /\ Goto(t, "woken")
  /\ UNCHANGED <<count, owner, arg>>

WaitTakeUntested(t) ==
  /\ pc[t] = "wait_test"
  /\ count' = [count EXCEPT ![arg[t]] = @ - 1]
  /\ Goto(t, "wait_unlock")
  /\ UNCHANGED <<owner, waiting, arg>>

\* The while loop ends and count-- follows.
WaitTake(t) ==
  /\ pc[t] = "wait_test"
  /\ count[arg[t]] # 0
  /\ count' = [count EXCEPT ![arg[t]] = @ - 1]
  /\ Goto(t, "wait_unlock")
  /\ UNCHANGED <<owner, waiting, arg>>

\* count++
SignalCount(t) ==
  /\ pc[t] = "signal_count"
  /\ count' = [count EXCEPT ![arg[t]] = @ + 1]
  /\ Goto(t, "signal_cond")
  /\ UNCHANGED <<owner, waiting, arg>>

\* Only the signal that takes count from 0 to 1 wakes anybody.
SignalCondFirstOnly(t) ==
  /\ pc[t] = "signal_cond"
  /\ \/ /\ waiting[arg[t]] = {} \/ count[arg[t]] # 1
        /\ Goto(t, "signal_unlock")
        /\ UNCHANGED waiting
     \/ \E w \in waiting[arg[t]] :
          /\ count[arg[t]] = 1
          /\ waiting' = [waiting EXCEPT ![arg[t]] = @ \ {w}]
          /\ pc' = [pc EXCEPT ![t] = "signal_unlock", ![w] = "woken"]
  /\ UNCHANGED <<count, owner, arg>>

\* pthread_cond_signal wakes one waiter, or nobody when there is none.
SignalCond(t) ==
  /\ pc[t] = "signal_cond"
  /\ \/ /\ waiting[arg[t]] = {}
        /\ Goto(t, "signal_unlock")
        /\ UNCHANGED waiting
     \/ \E w \in waiting[arg[t]] :
          /\ waiting' = [waiting EXCEPT ![arg[t]] = @ \ {w}]
          /\ pc' = [pc EXCEPT ![t] = "signal_unlock", ![w] = "woken"]
  /\ UNCHANGED <<count, owner, arg>>

\* pthread_mutex_unlock and the return of either function.
Unlock(t) ==
  /\ pc[t] \in {"wait_unlock", "signal_unlock"}
  /\ owner' = [owner EXCEPT ![arg[t]] = NoThread]
  /\ arg' = [arg EXCEPT ![t] = NoSem]
  /\ Goto(t, "idle")
  /\ UNCHANGED <<count, waiting>>

-----------------------------------------------------------------------------
\* The signals under way on s: with count[s], what the bound MaxCount is on.
Signalling(s) == {t \in Threads : arg[t] = s /\ pc[t] \in {"signal_lock", "signal_count"}}

Call(t) ==
  \E s \in Sems :
    \/ CallWait(t, s)
    \/ count[s] + Cardinality(Signalling(s)) < MaxCount /\ CallSignal(t, s)

\* The steps a thread takes by itself once it has called.
Step(t) ==
  \/ Lock(t)
  \/ WaitBlock(t)
  \/ WaitTake(t)
  \/ SignalCount(t)
  \/ SignalCond(t)
  \/ Unlock(t)

Next == \E t \in Threads : Call(t) \/ Step(t) \/ SpuriousWakeup(t)

SafeSpec == Init /\ [][Next]_vars

\* A thread that can run is run; nobody must call.  Spurious wakeups, which
\* POSIX allows but nothing produces forever, end at some point: a waiter that
\* woke for no reason again and again could keep the mutex from everyone.
Fairness ==
  /\ \A t \in Threads : WF_vars(Step(t))
  /\ <>[][\E t \in Threads : Call(t) \/ Step(t)]_vars

Spec == SafeSpec /\ Fairness

-----------------------------------------------------------------------------
\* No count goes below 0; a thread has an argument exactly while it is in a call.
TypeOK ==
  /\ count \in [Sems -> Nat]
  /\ owner \in [Sems -> Threads \union {NoThread}]
  /\ waiting \in [Sems -> SUBSET Threads]
  /\ pc \in [Threads -> Steps]
  /\ arg \in [Threads -> Sems \union {NoSem}]
  /\ \A t \in Threads : arg[t] = NoSem <=> pc[t] = "idle"

\* A thread is between lock and unlock of a Sem's mutex exactly when it is the
\* mutex's owner, and it is among the waiters of a Sem exactly when it is
\* blocked in pthread_cond_wait on it (my_sem.h:18-31).
LockDiscipline ==
  \A t \in Threads, s \in Sems :
    /\ owner[s] = t <=> arg[t] = s /\ pc[t] \in Inside
    /\ t \in waiting[s] <=> arg[t] = s /\ pc[t] = "blocked"

\* The threads whose next steps will account for a unit of s: one woken or at
\* the test will take a unit or find none, one between count++ and
\* pthread_cond_signal is about to wake a waiter.
InFlight(s) ==
  {t \in Threads : arg[t] = s /\ pc[t] \in {"woken", "wait_test", "signal_cond"}}

\* No wakeup is lost (my_sem.h:18-31): while a thread sleeps in
\* pthread_cond_wait, every unit of the count has a thread of its own on the
\* way to it.  So a thread never sleeps for good beside a unit it could take.
NoLostWakeup ==
  \A s \in Sems : waiting[s] # {} => count[s] <= Cardinality(InFlight(s))

\* How far a call has come, seen from outside.
CallOf(step) ==
  IF step = "idle" THEN "idle"
  ELSE IF step \in {"wait_lock", "wait_test", "blocked", "woken"} THEN "waiting"
  ELSE IF step \in {"signal_lock", "signal_count"} THEN "posting"
  ELSE "returning"

Abstract == INSTANCE Semaphore WITH value <- count,
                                    call <- [t \in Threads |-> CallOf(pc[t])]

\* A semaphore never goes below zero and never wakes two threads into one
\* unit, whatever the interleaving: the monitor is a counting semaphore whose
\* take is the count-- of line 22 and whose post is the count++ of line 28.
ImplementsSemaphore == Abstract!Spec
=============================================================================
