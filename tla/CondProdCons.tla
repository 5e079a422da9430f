---------------------------- MODULE CondProdCons ----------------------------
(***************************************************************************)
(* homework/hw2/pthread.c: the producers and consumers of hw2 around a     *)
(* ring buffer with its own count, one mutex and the condition variables   *)
(* not_full and not_empty.  Everything between lock and unlock is done     *)
(* under the mutex; an action is one pthread call, together with the       *)
(* accesses between it and the call that follows.                          *)
(*                                                                         *)
(* A character of items[] is its place in the string, from 1; NUL is 0.    *)
(* Here the producers stop at strlen(items): the string's own NUL is not   *)
(* put.  A thread that main has not created yet is one that has not taken  *)
(* its first step.  A waiter may wake for no reason.                       *)
(***************************************************************************)
EXTENDS Naturals, Sequences, FiniteSets

CONSTANTS Producers, \* the producer threads, P of them
          Consumers, \* the consumer threads, C of them
          BUF_SIZE,  \* the slots of buffer
          NumChars,  \* strlen(items)
          NoThread   \* the owner of the mutex when nobody holds it

ASSUME ThreadsAssumption ==
  /\ IsFiniteSet(Producers) /\ Producers # {}
  /\ IsFiniteSet(Consumers) /\ Consumers # {}
  /\ Producers \intersect Consumers = {}
  /\ NoThread \notin Producers \union Consumers
ASSUME BufferAssumption == BUF_SIZE \in Nat \ {0} /\ NumChars \in Nat

P == Cardinality(Producers)
C == Cardinality(Consumers)
Threads == Producers \union Consumers

NUL == 0
items == [k \in 0..NumChars-1 |-> k + 1]

VARIABLES buffer,    \* the ring buffer, of BUF_SIZE slots
          in, out,   \* the slots written and read next
          p_index,   \* the item produced next
          count,     \* the slots in use
          mutex,     \* the thread that holds the mutex
          not_full,  \* the threads blocked on the condition not_full
          not_empty, \* the threads blocked on the condition not_empty
          pc,        \* pc[t]: the step thread t is about to take
          left,      \* the producers that have left the loop over the items
          pills,     \* pills[p]: the pills p has put (the i of pthread.c:46)
          ended,     \* the consumers that have taken a NUL
          printed    \* the characters the consumers have printed, in order

shared == <<buffer, in, out, p_index, count>>
vars == <<buffer, in, out, p_index, count, mutex, not_full, not_empty, pc, left, pills,
          ended, printed>>

\* lock, test (the while loop, holding the mutex), wait (in pthread_cond_wait),
\* relock (woken in pthread_cond_wait, to take the mutex again), access (past
\* the loop), signal, unlock.
Steps == {"lock", "test", "wait", "relock", "access", "signal", "unlock", "done"}

\* The steps at which the thread holds the mutex.
Holding == {"test", "access", "signal", "unlock"}

Init ==
  /\ buffer = [k \in 0..BUF_SIZE-1 |-> NUL]
  /\ in = 0
  /\ out = 0
  /\ p_index = 0
  /\ count = 0
  /\ mutex = NoThread
  /\ not_full = {}
  /\ not_empty = {}
  /\ pc = [t \in Threads |-> "lock"]
  /\ left = {}
  /\ pills = [p \in Producers |-> 0]
  /\ ended = {}
  /\ printed = <<>>

Goto(t, step) == pc' = [pc EXCEPT ![t] = step]

-----------------------------------------------------------------------------
LockUnguarded(t) ==
  /\ pc[t] \in {"lock", "relock"}
  /\ mutex' = t
  /\ Goto(t, "test")
  /\ UNCHANGED <<shared, not_full, not_empty, left, pills, ended, printed>>

\* pthread_mutex_lock, by its caller or inside pthread_cond_wait.
Lock(t) ==
  /\ pc[t] \in {"lock", "relock"}
  /\ mutex = NoThread
  /\ mutex' = t
  /\ Goto(t, "test")
  /\ UNCHANGED <<shared, not_full, not_empty, left, pills, ended, printed>>

\* The while loops: a producer waits while the buffer is full (lines 27, 49), a
\* consumer while it is empty (line 70).
WaitNotFull(p) ==
  /\ pc[p] = "test"
  /\ count = BUF_SIZE
  /\ not_full' = not_full \union {p}
  /\ mutex' = NoThread
  /\ Goto(p, "wait")
  /\ UNCHANGED <<shared, not_empty, left, pills, ended, printed>>

WaitNotEmpty(c) ==
  /\ pc[c] = "test"
  /\ count = 0
  /\ not_empty' = not_empty \union {c}
  /\ mutex' = NoThread
  /\ Goto(c, "wait")
  /\ UNCHANGED <<shared, not_full, left, pills, ended, printed>>

\* The producer's while asks for more than BUF_SIZE.
ProceedOffByOne(t) ==
  /\ pc[t] = "test"
  /\ IF t \in Producers THEN count <= BUF_SIZE ELSE count # 0
  /\ Goto(t, "access")
  /\ UNCHANGED <<shared, mutex, not_full, not_empty, left, pills, ended, printed>>

Proceed(t) ==
  /\ pc[t] = "test"
  /\ IF t \in Producers THEN count # BUF_SIZE ELSE count # 0
  /\ Goto(t, "access")
  /\ UNCHANGED <<shared, mutex, not_full, not_empty, left, pills, ended, printed>>

SpuriousWakeup(t) ==
  /\ pc[t] = "wait"
  /\ not_full' = not_full \ {t}
  /\ not_empty' = not_empty \ {t}
  /\ Goto(t, "relock")
  /\ UNCHANGED <<shared, mutex, left, pills, ended, printed>>

\* buffer[in] = item; in = (in + 1) % BUF_SIZE; count++
Put(item) ==
  /\ buffer' = [buffer EXCEPT ![in] = item]
  /\ in' = (in + 1) % BUF_SIZE
  /\ count' = count + 1

\* out = (out + 1) % BUF_SIZE; count--
Take ==
  /\ out' = (out + 1) % BUF_SIZE
  /\ count' = count - 1

PutItem(p) ==
  /\ pc[p] = "access"
  /\ p \notin left
  /\ p_index < NumChars
  /\ Put(items[p_index])
  /\ p_index' = p_index + 1
  /\ Goto(p, "signal")
  /\ UNCHANGED <<out, mutex, not_full, not_empty, left, pills, ended, printed>>

\* The items have run out: unlock and break, without a signal to anybody.
Leave(p) ==
  /\ pc[p] = "access"
  /\ p \notin left
  /\ p_index >= NumChars
  /\ left' = left \union {p}
  /\ mutex' = NoThread
  /\ Goto(p, "lock")
  /\ UNCHANGED <<shared, not_full, not_empty, pills, ended, printed>>

PutPill(p) ==
  /\ pc[p] = "access"
  /\ p \in left
  /\ Put(NUL)
  /\ pills' = [pills EXCEPT ![p] = @ + 1]
  /\ Goto(p, "signal")
  /\ UNCHANGED <<out, p_index, mutex, not_full, not_empty, left, ended, printed>>

TakeNulInPlace(c) ==
  /\ pc[c] = "access"
  /\ buffer[out] = NUL
  /\ count' = count - 1
  /\ ended' = ended \union {c}
  /\ Goto(c, "signal")
  /\ UNCHANGED <<buffer, in, out, p_index, mutex, not_full, not_empty, left, pills, printed>>

TakeNul(c) ==
  /\ pc[c] = "access"
  /\ buffer[out] = NUL
  /\ Take
  /\ ended' = ended \union {c}
  /\ Goto(c, "signal")
  /\ UNCHANGED <<buffer, in, p_index, mutex, not_full, not_empty, left, pills, printed>>

TakeCharInPlace(c) ==
  /\ pc[c] = "access"
  /\ buffer[out] # NUL
  /\ printed' = Append(printed, buffer[out])
  /\ count' = count - 1
  /\ Goto(c, "signal")
  /\ UNCHANGED <<buffer, in, out, p_index, mutex, not_full, not_empty, left, pills, ended>>

TakeChar(c) ==
  /\ pc[c] = "access"
  /\ buffer[out] # NUL
  /\ printed' = Append(printed, buffer[out])
  /\ Take
  /\ Goto(c, "signal")
  /\ UNCHANGED <<buffer, in, p_index, mutex, not_full, not_empty, left, pills, ended>>

\* A signal only when the buffer was empty.
SignalNotEmptyOnFirst(p) ==
  /\ pc[p] = "signal"
  /\ \/ (not_empty = {} \/ count # 1) /\ Goto(p, "unlock") /\ UNCHANGED not_empty
     \/ \E c \in not_empty :
          /\ count = 1
          /\ not_empty' = not_empty \ {c}
          /\ pc' = [pc EXCEPT ![p] = "unlock", ![c] = "relock"]
  /\ UNCHANGED <<shared, mutex, not_full, left, pills, ended, printed>>

\* pthread_cond_signal(&not_empty), lines 41 and 56.
SignalNotEmpty(p) ==
  /\ pc[p] = "signal"
  /\ \/ not_empty = {} /\ Goto(p, "unlock") /\ UNCHANGED not_empty
     \/ \E c \in not_empty :
          /\ not_empty' = not_empty \ {c}
          /\ pc' = [pc EXCEPT ![p] = "unlock", ![c] = "relock"]
  /\ UNCHANGED <<shared, mutex, not_full, left, pills, ended, printed>>

\* No signal from a consumer that has taken a NUL.
SignalNotFullForChars(c) ==
  /\ pc[c] = "signal"
  /\ \/ (not_full = {} \/ c \in ended) /\ Goto(c, "unlock") /\ UNCHANGED not_full
     \/ \E p \in not_full :
          /\ c \notin ended
          /\ not_full' = not_full \ {p}
          /\ pc' = [pc EXCEPT ![c] = "unlock", ![p] = "relock"]
  /\ UNCHANGED <<shared, mutex, not_empty, left, pills, ended, printed>>

\* pthread_cond_signal(&not_full), lines 77 and 86.
SignalNotFull(c) ==
  /\ pc[c] = "signal"
  /\ \/ not_full = {} /\ Goto(c, "unlock") /\ UNCHANGED not_full
     \/ \E p \in not_full :
          /\ not_full' = not_full \ {p}
          /\ pc' = [pc EXCEPT ![c] = "unlock", ![p] = "relock"]
  /\ UNCHANGED <<shared, mutex, not_empty, left, pills, ended, printed>>

\* A producer is done after C pills, a consumer after a NUL.
Unlock(t) ==
  /\ pc[t] = "unlock"
  /\ mutex' = NoThread
  /\ Goto(t, IF t \in ended \/ (t \in left /\ pills[t] = C) THEN "done" ELSE "lock")
  /\ UNCHANGED <<shared, not_full, not_empty, left, pills, ended, printed>>

-----------------------------------------------------------------------------
Producer(p) ==
  \/ Lock(p)
  \/ WaitNotFull(p)
  \/ Proceed(p)
  \/ PutItem(p)
  \/ Leave(p)
  \/ PutPill(p)
  \/ SignalNotEmpty(p)
  \/ Unlock(p)

Consumer(c) ==
  \/ Lock(c)
  \/ WaitNotEmpty(c)
  \/ Proceed(c)
  \/ TakeNul(c)
  \/ TakeChar(c)
  \/ SignalNotFull(c)
  \/ Unlock(c)

AllDone == \A t \in Threads : pc[t] = "done"

\* main's joins have all returned (lines 108-112) and the process is gone.
Finished == AllDone /\ UNCHANGED vars

Work == \/ \E p \in Producers : Producer(p)
        \/ \E c \in Consumers : Consumer(c)

Next == Work \/ (\E t \in Threads : SpuriousWakeup(t)) \/ Finished

SafeSpec == Init /\ [][Next]_vars

\* Every thread that can take a step is scheduled at some point, and spurious
\* wakeups end: one waiter woken again and again could keep the mutex busy.
Fairness ==
  /\ \A p \in Producers : WF_vars(Producer(p))
  /\ \A c \in Consumers : WF_vars(Consumer(c))
  /\ <>[][Work]_vars

Spec == SafeSpec /\ Fairness

-----------------------------------------------------------------------------
\* The buffer indices, the count and the wait sets have the values the C
\* variables and the condition variables can have.
TypeOK ==
  /\ buffer \in [0..BUF_SIZE-1 -> 0..NumChars]
  /\ in \in 0..BUF_SIZE-1 /\ out \in 0..BUF_SIZE-1
  /\ p_index \in 0..NumChars
  /\ count \in 0..BUF_SIZE
  /\ mutex \in Threads \union {NoThread}
  /\ not_full \in SUBSET Producers
  /\ not_empty \in SUBSET Consumers
  /\ pc \in [Threads -> Steps]
  /\ left \in SUBSET Producers
  /\ pills \in [Producers -> 0..C]
  /\ ended \in SUBSET Consumers
  /\ printed \in Seq(1..NumChars)

\* The mutex has its owner inside, and a thread is asleep on the condition
\* variable of its kind exactly while it is in pthread_cond_wait
\* (pthread.c:25-42, 47-57, 68-87).
LockDiscipline ==
  /\ \A t \in Threads : mutex = t <=> pc[t] \in Holding
  /\ \A p \in Producers : p \in not_full <=> pc[p] = "wait"
  /\ \A c \in Consumers : c \in not_empty <=> pc[c] = "wait"

\* Slot k places on from the one at out.
SlotAt(k) == IF out + k < BUF_SIZE THEN out + k ELSE out + k - BUF_SIZE

\* count, in and out agree, and the characters put and not printed are in the
\* slots from out on, in order, before any NUL (pthread.c:35-39, 73-84).
Ring ==
  /\ in = SlotAt(count)
  /\ \A k \in 0..BUF_SIZE-1 :
       k < count => buffer[SlotAt(k)] =
         IF Len(printed) + k < p_index THEN items[Len(printed) + k] ELSE NUL

\* The consumers that will look at count before they sleep again, or that are
\* about to take, and the producers about to signal not_empty.
ToTake == {t \in Threads :
             \/ t \in Consumers /\ pc[t] \in {"relock", "test", "access"}
             \/ t \in Producers /\ pc[t] = "signal"}

\* The same for the producers and the free slots.
ToPut == {t \in Threads :
            \/ t \in Producers /\ pc[t] \in {"relock", "test", "access"}
            \/ t \in Consumers /\ pc[t] = "signal"
            \/ t \in left /\ pills[t] = 0 /\ pc[t] = "lock"}

\* No wakeup is lost, though the programs use pthread_cond_signal and a woken
\* producer that finds no item left passes no signal on (pthread.c:30-32):
\* while a consumer sleeps every item in the buffer has a thread on its way to
\* it, while a producer sleeps every free slot has.
NoLostWakeup ==
  /\ not_empty # {} => count <= Cardinality(ToTake)
  /\ not_full # {} => BUF_SIZE - count <= Cardinality(ToPut)

\* The program as what it is for: one character out of the buffer is one printed.
Promise == INSTANCE Delivery WITH
  sent <- p_index,
  stopped <- ended,
  Capacity <- BUF_SIZE

\* The printout is items[] in order, nobody ends before all of it is printed
\* and, with fairness, all of it is printed and every consumer ends.
ImplementsDelivery == Promise!Spec

\* There is room for the pills no consumer is left to take.
Roomy == P * C <= BUF_SIZE + C

\* A run that ends had that room: without it some producer sleeps on not_full
\* for good and the joins of main never return (pthread.c:49, 108).
EndsOnlyWithRoom == AllDone => Roomy

\* ./pthread p c comes to its end: every join of main returns.
Termination == <>AllDone
=============================================================================
