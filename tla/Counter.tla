------------------------------- MODULE Counter -------------------------------
(***************************************************************************)
(* class_notes/week2/threads.c: threads count i up ROUNDS times each,      *)
(* under a semaphore.  main creates NUMTHREADS of them and one more, whose *)
(* handle takes the place of that of the second, so that it joins all but  *)
(* that one, prints i and returns, which ends the program.                 *)
(***************************************************************************)
EXTENDS Integers, FiniteSets

CONSTANTS NUMTHREADS, \* at least 2
          ROUNDS      \* at least 1

\* The threads by the order of their creation.
Tids == 0..NUMTHREADS
Slots == 0..NUMTHREADS-1

VARIABLES i,       \* the counter
          mutex,   \* the semaphore around i
          pc,      \* pc[t]: the next step of thread t
          reg,     \* reg[t]: what i++ of thread t has read
          j,       \* j[t]: the rounds thread t has finished
          threads, \* threads[]: the handles
          main,    \* the next step of main, and for which thread
          printed  \* what main has printed, -1 before that

vars == <<i, mutex, pc, reg, j, threads, main, printed>>

Init ==
  /\ i = 0
  /\ mutex = 1
  /\ pc = [t \in Tids |-> "new"]
  /\ reg = [t \in Tids |-> 0]
  /\ j = [t \in Tids |-> 0]
  /\ threads = [k \in Slots |-> -1]
  /\ main = [at |-> "create", k |-> 0]
  /\ printed = -1

\* threadstart, as long as main has not returned.
Goto(t, from, to) ==
  /\ main.at # "returned"
  /\ pc[t] = from
  /\ pc' = [pc EXCEPT ![t] = to]

WaitNot(t) ==
  /\ Goto(t, "wait", "read")
  /\ UNCHANGED <<i, mutex, reg, j, threads, main, printed>>

Wait(t) ==
  /\ Goto(t, "wait", "read")
  /\ mutex > 0
  /\ mutex' = mutex - 1
  /\ UNCHANGED <<i, reg, j, threads, main, printed>>

Read(t) ==
  /\ Goto(t, "read", "write")
  /\ reg' = [reg EXCEPT ![t] = i]
  /\ UNCHANGED <<i, mutex, j, threads, main, printed>>

Write(t) ==
  /\ Goto(t, "write", "post")
  /\ i' = reg[t] + 1
  /\ UNCHANGED <<mutex, reg, j, threads, main, printed>>

PostAtTheEnd(t) ==
  /\ Goto(t, "post", IF j[t] + 1 < ROUNDS THEN "wait" ELSE "done")
  /\ mutex' = IF j[t] + 1 < ROUNDS THEN mutex ELSE mutex + 1
  /\ j' = [j EXCEPT ![t] = @ + 1]
  /\ UNCHANGED <<i, reg, threads, main, printed>>

Post(t) ==
  /\ Goto(t, "post", IF j[t] + 1 < ROUNDS THEN "wait" ELSE "done")
  /\ mutex' = mutex + 1
  /\ j' = [j EXCEPT ![t] = @ + 1]
  /\ UNCHANGED <<i, reg, threads, main, printed>>

\* The handle of the last thread goes into threads[1].
Create ==
  /\ main.at = "create"
  /\ pc' = [pc EXCEPT ![main.k] = "wait"]
  /\ threads' = [threads EXCEPT ![IF main.k < NUMTHREADS THEN main.k ELSE 1] = main.k]
  /\ main' = IF main.k < NUMTHREADS THEN [main EXCEPT !.k = @ + 1] ELSE [at |-> "join", k |-> 0]
  /\ UNCHANGED <<i, mutex, reg, j, printed>>

JoinNot ==
  /\ main.at = "join"
  /\ main' = [at |-> "print", k |-> 0]
  /\ UNCHANGED <<i, mutex, pc, reg, j, threads, printed>>

Join ==
  /\ main.at = "join"
  /\ pc[threads[main.k]] = "done"
  /\ main' = IF main.k + 1 < NUMTHREADS THEN [main EXCEPT !.k = @ + 1] ELSE [at |-> "print", k |-> 0]
  /\ UNCHANGED <<i, mutex, pc, reg, j, threads, printed>>

\* i is read without the semaphore, and the thread not joined may still count.
PrintI ==
  /\ main.at = "print"
  /\ printed' = i
  /\ main' = [main EXCEPT !.at = "return"]
  /\ UNCHANGED <<i, mutex, pc, reg, j, threads>>

Return ==
  /\ main.at = "return"
  /\ main' = [main EXCEPT !.at = "returned"]
  /\ UNCHANGED <<i, mutex, pc, reg, j, threads, printed>>

Thread(t) == Wait(t) \/ Read(t) \/ Write(t) \/ Post(t)
Main == Create \/ Join \/ PrintI \/ Return

Ended == main.at = "returned" /\ UNCHANGED vars

Next == (\E t \in Tids : Thread(t)) \/ Main \/ Ended

\* The scheduler runs main and every thread that can go on.
Fairness == WF_vars(Main) /\ \A t \in Tids : WF_vars(Thread(t))

Spec == Init /\ [][Next]_vars /\ Fairness

-----------------------------------------------------------------------------
\* The increments that threads have made, by thread and round.
Increments ==
  {p \in Tids \X (1..ROUNDS) : p[2] <= j[p[1]] + (IF pc[p[1]] = "post" THEN 1 ELSE 0)}

\* No increment is lost: i is the number of those that threads have made.
NoUpdateLost == i = Cardinality(Increments)

\* What main prints has every round of the NUMTHREADS threads it joined, and some
\* of the one it did not.
PrintedInRange ==
  printed # -1 => printed \in NUMTHREADS * ROUNDS .. (NUMTHREADS + 1) * ROUNDS

\* main comes to its return: no thread that it joins waits for ever.
Termination == <>(main.at = "returned")
=============================================================================
