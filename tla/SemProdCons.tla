---------------------------- MODULE SemProdCons ----------------------------
(***************************************************************************)
(* homework/hw2/sem.c: producers and consumers around a ring buffer, with  *)
(* the counting semaphores mutex, full and empty of <semaphore.h> (the     *)
(* same program over the semaphores of my_sem.h is my_sem.c).  An action   *)
(* is one semaphore operation, or what a thread does between its           *)
(* sem_wait(&mutex) and the sem_post(&mutex) that follows.                 *)
(*                                                                         *)
(* A character of items[] is its place in the string, from 1; NUL is 0.    *)
(* The string has NumChars characters; sizeof(items) counts its            *)
(* terminating NUL too, which the producers put into the buffer like any   *)
(* other item.  A thread that main has not created yet is one that has not *)
(* taken its first step.                                                   *)
(***************************************************************************)
EXTENDS Naturals, Sequences, FiniteSets

CONSTANTS Producers, \* the producer threads, P of them
          Consumers, \* the consumer threads, C of them
          BUF_SIZE,  \* the slots of buffer
          NumChars   \* strlen(items)

ASSUME ThreadsAssumption ==
  /\ IsFiniteSet(Producers) /\ Producers # {}
  /\ IsFiniteSet(Consumers) /\ Consumers # {}
  /\ Producers \intersect Consumers = {}
ASSUME BufferAssumption == BUF_SIZE \in Nat \ {0} /\ NumChars \in Nat

P == Cardinality(Producers)
C == Cardinality(Consumers)
Threads == Producers \union Consumers

NUL == 0
SizeofItems == NumChars + 1
items == [k \in 0..NumChars |-> IF k < NumChars THEN k + 1 ELSE NUL]

VARIABLES buffer,     \* the ring buffer, of BUF_SIZE slots
          in, out,    \* the slots written and read next
          prod_index, \* the item produced next
          empty, full, mutex, \* the values of the semaphores
          pc,         \* pc[t]: the step thread t is about to take
          left,       \* the producers that have left the loop over the items
          pills,      \* pills[p]: the pills p has put (the i of sem.c:41)
          ended,      \* the consumers that have read a NUL
          printed     \* the characters the consumers have printed, in order

sems == <<empty, full, mutex>>
vars == <<buffer, in, out, prod_index, empty, full, mutex, pc, left, pills, ended, printed>>

ProducerSteps == {"wait_empty", "wait_mutex", "put", "leave", "post_mutex", "post_full", "done"}
ConsumerSteps == {"wait_full", "wait_mutex", "get", "post_mutex", "post_empty", "done"}

InitOneTooMany ==
  /\ buffer = [k \in 0..BUF_SIZE-1 |-> NUL]
  /\ in = 0
  /\ out = 0
  /\ prod_index = 0
  /\ empty = BUF_SIZE + 1
  /\ full = 0
  /\ mutex = 1
  /\ pc = [t \in Threads |-> IF t \in Producers THEN "wait_empty" ELSE "wait_full"]
  /\ left = {}
  /\ pills = [p \in Producers |-> 0]
  /\ ended = {}
  /\ printed = <<>>

Init ==
  /\ buffer = [k \in 0..BUF_SIZE-1 |-> NUL]
  /\ in = 0
  /\ out = 0
  /\ prod_index = 0
  /\ empty = BUF_SIZE
  /\ full = 0
  /\ mutex = 1
  /\ pc = [t \in Threads |-> IF t \in Producers THEN "wait_empty" ELSE "wait_full"]
  /\ left = {}
  /\ pills = [p \in Producers |-> 0]
  /\ ended = {}
  /\ printed = <<>>

Goto(t, step) == pc' = [pc EXCEPT ![t] = step]

-----------------------------------------------------------------------------
\* sem_wait(&empty) of the items loop (line 23) and of the pill loop (line 42).
WaitEmpty(p) ==
  /\ pc[p] = "wait_empty"
  /\ empty > 0
  /\ empty' = empty - 1
  /\ Goto(p, "wait_mutex")
  /\ UNCHANGED <<buffer, in, out, prod_index, full, mutex, left, pills, ended, printed>>

WaitFull(c) ==
  /\ pc[c] = "wait_full"
  /\ full > 0
  /\ full' = full - 1
  /\ Goto(c, "wait_mutex")
  /\ UNCHANGED <<buffer, in, out, prod_index, empty, mutex, left, pills, ended, printed>>

WaitMutexNot(t) ==
  /\ pc[t] = "wait_mutex"
  /\ Goto(t, IF t \in Producers THEN "put" ELSE "get")
  /\ UNCHANGED <<buffer, in, out, prod_index, sems, left, pills, ended, printed>>

WaitMutex(t) ==
  /\ pc[t] = "wait_mutex"
  /\ mutex > 0
  /\ mutex' = mutex - 1
  /\ Goto(t, IF t \in Producers THEN "put" ELSE "get")
  /\ UNCHANGED <<buffer, in, out, prod_index, empty, full, left, pills, ended, printed>>

StoreUnwrapped(item) ==
  /\ buffer' = [buffer EXCEPT ![in] = item]
  /\ in' = in + 1

\* buffer[in] = item; in = (in + 1) % BUF_SIZE
Store(item) ==
  /\ buffer' = [buffer EXCEPT ![in] = item]
  /\ in' = (in + 1) % BUF_SIZE

PutItem(p) ==
  /\ pc[p] = "put"
  /\ p \notin left
  /\ prod_index < SizeofItems
  /\ Store(items[prod_index])
  /\ prod_index' = prod_index + 1
  /\ Goto(p, "post_mutex")
  /\ UNCHANGED <<out, sems, left, pills, ended, printed>>

\* The items have run out: the producer goes on to sem_post(&mutex) and break.
NoItemsLeft(p) ==
  /\ pc[p] = "put"
  /\ p \notin left
  /\ prod_index >= SizeofItems
  /\ Goto(p, "leave")
  /\ UNCHANGED <<buffer, in, out, prod_index, sems, left, pills, ended, printed>>

\* sem_post(&mutex); break -- the unit of empty it took in line 23 stays taken.
Leave(p) ==
  /\ pc[p] = "leave"
  /\ mutex' = mutex + 1
  /\ left' = left \union {p}
  /\ Goto(p, "wait_empty")
  /\ UNCHANGED <<buffer, in, out, prod_index, empty, full, pills, ended, printed>>

PutPill(p) ==
  /\ pc[p] = "put"
  /\ p \in left
  /\ Store(NUL)
  /\ pills' = [pills EXCEPT ![p] = @ + 1]
  /\ Goto(p, "post_mutex")
  /\ UNCHANGED <<out, prod_index, sems, left, ended, printed>>

\* A NUL ends the consumer; out stays where it is.
GetNul(c) ==
  /\ pc[c] = "get"
  /\ buffer[out] = NUL
  /\ ended' = ended \union {c}
  /\ Goto(c, "post_mutex")
  /\ UNCHANGED <<buffer, in, out, prod_index, sems, left, pills, printed>>

GetCharAgain(c) ==
  /\ pc[c] = "get"
  /\ buffer[out] # NUL
  /\ printed' = Append(printed, buffer[out])
  /\ Goto(c, "post_mutex")
  /\ UNCHANGED <<buffer, in, out, prod_index, sems, left, pills, ended>>

GetChar(c) ==
  /\ pc[c] = "get"
  /\ buffer[out] # NUL
  /\ printed' = Append(printed, buffer[out])
  /\ out' = (out + 1) % BUF_SIZE
  /\ Goto(c, "post_mutex")
  /\ UNCHANGED <<buffer, in, prod_index, sems, left, pills, ended>>

PostMutex(t) ==
  /\ pc[t] = "post_mutex"
  /\ mutex' = mutex + 1
  /\ Goto(t, IF t \in Producers THEN "post_full" ELSE "post_empty")
  /\ UNCHANGED <<buffer, in, out, prod_index, empty, full, left, pills, ended, printed>>

\* The end of either loop's body; the pill loop ends after C pills.
PostFull(p) ==
  /\ pc[p] = "post_full"
  /\ full' = full + 1
  /\ Goto(p, IF pills[p] = C THEN "done" ELSE "wait_empty")
  /\ UNCHANGED <<buffer, in, out, prod_index, empty, mutex, left, pills, ended, printed>>

\* No unit of empty for the NUL that stays in the buffer.
PostEmptyForChars(c) ==
  /\ pc[c] = "post_empty"
  /\ empty' = IF c \in ended THEN empty ELSE empty + 1
  /\ Goto(c, IF c \in ended THEN "done" ELSE "wait_full")
  /\ UNCHANGED <<buffer, in, out, prod_index, full, mutex, left, pills, ended, printed>>

PostEmpty(c) ==
  /\ pc[c] = "post_empty"
  /\ empty' = empty + 1
  /\ Goto(c, IF c \in ended THEN "done" ELSE "wait_full")
  /\ UNCHANGED <<buffer, in, out, prod_index, full, mutex, left, pills, ended, printed>>

-----------------------------------------------------------------------------
Producer(p) ==
  \/ WaitEmpty(p)
  \/ WaitMutex(p)
  \/ PutItem(p)
  \/ NoItemsLeft(p)
  \/ Leave(p)
  \/ PutPill(p)
  \/ PostMutex(p)
  \/ PostFull(p)

Consumer(c) ==
  \/ WaitFull(c)
  \/ WaitMutex(c)
  \/ GetNul(c)
  \/ GetChar(c)
  \/ PostMutex(c)
  \/ PostEmpty(c)

AllDone == \A t \in Threads : pc[t] = "done"

\* main's joins have all returned (lines 101-105) and the process is gone.
Finished == AllDone /\ UNCHANGED vars

Next ==
  \/ \E p \in Producers : Producer(p)
  \/ \E c \in Consumers : Consumer(c)
  \/ Finished

SafeSpec == Init /\ [][Next]_vars

\* Every thread that can take a step is scheduled at some point.
Fairness ==
  /\ \A p \in Producers : WF_vars(Producer(p))
  /\ \A c \in Consumers : WF_vars(Consumer(c))

Spec == SafeSpec /\ Fairness

-----------------------------------------------------------------------------
\* The buffer indices stay inside the buffer, the semaphores do not go below 0.
TypeOK ==
  /\ buffer \in [0..BUF_SIZE-1 -> 0..NumChars]
  /\ in \in 0..BUF_SIZE-1 /\ out \in 0..BUF_SIZE-1
  /\ prod_index \in 0..SizeofItems
  /\ empty \in Nat /\ full \in Nat /\ mutex \in {0, 1}
  /\ pc \in [Threads -> ProducerSteps \union ConsumerSteps]
  /\ \A p \in Producers : pc[p] \in ProducerSteps
  /\ \A c \in Consumers : pc[c] \in ConsumerSteps
  /\ left \in SUBSET Producers
  /\ pills \in [Producers -> 0..C]
  /\ ended \in SUBSET Consumers
  /\ printed \in Seq(1..NumChars)

\* The threads between sem_wait(&mutex) and sem_post(&mutex).
Inside == {t \in Threads : pc[t] \in {"put", "get", "leave", "post_mutex"}}

\* One thread at a time is between sem_wait(&mutex) and sem_post(&mutex), and
\* the mutex is 0 exactly while one is (sem.c:24-36, 43-48, 64-75).
MutualExclusion ==
  /\ \A t, u \in Inside : t = u
  /\ mutex = 0 <=> Inside # {}

At(S, steps) == {t \in S : pc[t] \in steps}

\* The stores into the buffer so far: every item and every pill.
PillsPut == {q \in Producers \X (1..C) : q[2] <= pills[q[1]]}
Puts == prod_index + Cardinality(PillsPut)

\* The takes out of the buffer so far: a printed character or a NUL seen.
Takes == Len(printed) + Cardinality(ended)

\* The producers that kept the unit of empty they broke out of the items loop
\* with (sem.c:26-29), or are about to.
Leaked == left \union At(Producers, {"leave"})

\* The two semaphores count what they are meant to count, but for the threads
\* between an operation on one and the access or the operation that goes with
\* it: full the stores not taken yet, empty the slots not in use -- and a unit
\* of empty is gone for good with each producer that has left the items loop.
SlotAccounting ==
  /\ full + Cardinality(At(Producers, {"post_mutex", "post_full"}))
          + Cardinality(At(Consumers, {"wait_mutex", "get"})) + Takes = Puts
  /\ empty + Cardinality(At(Producers, {"wait_mutex", "put"})) + Cardinality(Leaked)
           + Cardinality(At(Consumers, {"post_mutex", "post_empty"})) + Puts
       = BUF_SIZE + Takes

\* Slot k places on from the one at out.
SlotAt(k) == IF out + k < BUF_SIZE THEN out + k ELSE out + k - BUF_SIZE

\* The characters put and not printed are in the slots from out on, in order,
\* and none was overwritten, though a consumer that ends gives back a unit of
\* empty for a slot it has not freed (sem.c:66-70).
PendingInOrder ==
  \A k \in 0..BUF_SIZE-1 :
    Len(printed) + k < prod_index => buffer[SlotAt(k)] = items[Len(printed) + k]

\* The program as what it is for: one character out of the buffer is one printed.
Promise == INSTANCE Delivery WITH
  sent <- IF prod_index < NumChars THEN prod_index ELSE NumChars,
  stopped <- ended,
  Capacity <- BUF_SIZE

\* The printout is items[] in order, nobody ends before all of it is printed
\* and, with fairness, all of it is printed and every consumer ends.
ImplementsDelivery == Promise!Spec

\* There is room for everything that is never taken out of the buffer again.
Roomy == 1 + Cardinality(Producers) + Cardinality(Producers) * C <= BUF_SIZE + C

\* A run that ends had that room: without it the joins of main never return,
\* for some thread is asleep in sem_wait(&empty) for good (sem.c:23, 42, 101).
EndsOnlyWithRoom == AllDone => Roomy

\* ./sem p c comes to its end: every join of main returns (sem.c:101-105).
Termination == <>AllDone
=============================================================================
