------------------------------- MODULE Barrier -------------------------------
(***************************************************************************)
(* class_notes/week3/prodcon.c: NUM threads run threadmain4, which counts  *)
(* them under a semaphore, tests the count outside it, and lets them       *)
(* through a turnstile when all have been counted.  A thread not created   *)
(* yet is one that has not moved; main joins them all.                     *)
(***************************************************************************)
EXTENDS Integers, FiniteSets

CONSTANT Threads
ASSUME ThreadsAssumption == IsFiniteSet(Threads) /\ Threads # {}

NUM == Cardinality(Threads)

VARIABLES mutex,   \* the semaphore around count
          barrier, \* the semaphore of the turnstile
          count,
          pc,      \* pc[t]: the next step of thread t
          read     \* read[t]: what count++ of thread t has read

vars == <<mutex, barrier, count, pc, read>>

Init ==
  /\ mutex = 1
  /\ barrier = 0
  /\ count = 0
  /\ pc = [t \in Threads |-> "lock"]
  /\ read = [t \in Threads |-> 0]

Goto(t, from, to) == pc[t] = from /\ pc' = [pc EXCEPT ![t] = to]

LockNot(t) ==
  /\ Goto(t, "lock", "read")
  /\ UNCHANGED <<mutex, barrier, count, read>>

Lock(t) ==
  /\ Goto(t, "lock", "read")
  /\ mutex > 0
  /\ mutex' = mutex - 1
  /\ UNCHANGED <<barrier, count, read>>

\* count++ reads and writes.
ReadCount(t) ==
  /\ Goto(t, "read", "write")
  /\ read' = [read EXCEPT ![t] = count]
  /\ UNCHANGED <<mutex, barrier, count>>

WriteCount(t) ==
  /\ Goto(t, "write", "unlock")
  /\ count' = read[t] + 1
  /\ UNCHANGED <<mutex, barrier, read>>

Unlock(t) ==
  /\ Goto(t, "unlock", "test")
  /\ mutex' = mutex + 1
  /\ UNCHANGED <<barrier, count, read>>

TestOneEarly(t) ==
  /\ Goto(t, "test", IF count = NUM - 1 THEN "open" ELSE "enter")
  /\ UNCHANGED <<mutex, barrier, count, read>>

\* The count is read without the semaphore: others may be counting.
Test(t) ==
  /\ Goto(t, "test", IF count = NUM THEN "open" ELSE "enter")
  /\ UNCHANGED <<mutex, barrier, count, read>>

Open(t) ==
  /\ Goto(t, "open", "enter")
  /\ barrier' = barrier + 1
  /\ UNCHANGED <<mutex, count, read>>

Enter(t) ==
  /\ Goto(t, "enter", "leave")
  /\ barrier > 0
  /\ barrier' = barrier - 1
  /\ UNCHANGED <<mutex, count, read>>

LeaveShut(t) ==
  /\ Goto(t, "leave", "done")
  /\ UNCHANGED <<mutex, barrier, count, read>>

\* The thread that is through lets the next one in.
Leave(t) ==
  /\ Goto(t, "leave", "done")
  /\ barrier' = barrier + 1
  /\ UNCHANGED <<mutex, count, read>>

Thread(t) ==
  \/ Lock(t) \/ ReadCount(t) \/ WriteCount(t) \/ Unlock(t)
  \/ Test(t) \/ Open(t) \/ Enter(t) \/ Leave(t)

AllDone == \A t \in Threads : pc[t] = "done"

\* main has joined every thread.
Finished == AllDone /\ UNCHANGED vars

Next == (\E t \in Threads : Thread(t)) \/ Finished

SafeSpec == Init /\ [][Next]_vars

\* The scheduler runs every thread that can go on.
Fairness == \A t \in Threads : WF_vars(Thread(t))

Spec == SafeSpec /\ Fairness

-----------------------------------------------------------------------------
TypeOK ==
  /\ mutex \in {0, 1}
  /\ {barrier, count} \subseteq Nat
  /\ pc \in [Threads -> {"lock", "read", "write", "unlock", "test", "open", "enter", "leave", "done"}]
  /\ read \in [Threads -> Nat]

Counting == {t \in Threads : pc[t] \in {"read", "write", "unlock"}}
Counted == {t \in Threads : pc[t] \notin {"lock", "read", "write"}}
Through == {t \in Threads : pc[t] \in {"leave", "done"}}

\* One thread at a time is between sem_wait(&mutex) and sem_post(&mutex), and no
\* increment is lost: outside, count is the number of threads that have counted.
CountIsExact ==
  /\ mutex + Cardinality(Counting) = 1
  /\ count = Cardinality(Counted)

\* The unprotected test of count opens the turnstile neither too early nor never:
\* once it has been open one unit stays in it or with a thread that is through.
OpensOnlyWhenFull ==
  /\ barrier > 0 \/ Through # {} \/ (\E t \in Threads : pc[t] = "open") => count = NUM
  /\ Through # {} => barrier > 0 \/ \E t \in Threads : pc[t] = "leave"

R == INSTANCE Rendezvous WITH arrived <- Counted, passed <- Through
\* The turnstile is a barrier: nobody is through before all are counted.
ImplementsRendezvous == R!SafeSpec

\* main's joins return.
Termination == <>AllDone
=============================================================================
