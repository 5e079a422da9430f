-------------------------------- MODULE Turns --------------------------------
(***************************************************************************)
(* play/2tcounter.c: two threads count x up in turns, each ROUNDS times;   *)
(* each waits for a semaphore of its own, which the other one posts.  x is *)
(* protected by nothing but the turns.                                     *)
(***************************************************************************)
EXTENDS Naturals, Sequences

CONSTANT ROUNDS \* at least 1

Tids == {1, 2}
Other(t) == 3 - t

VARIABLES sem, \* sem[t]: the semaphore thread t waits for, sem1 or sem2
          x,
          pc,  \* pc[t]: the next step of thread t
          reg, \* reg[t]: what x += 1 of thread t has read
          i,   \* i[t]: the rounds thread t has finished
          out  \* what has been printed: thread and value

vars == <<sem, x, pc, reg, i, out>>

InitBothFree ==
  /\ sem = [t \in Tids |-> 1]
  /\ x = 0
  /\ pc = [t \in Tids |-> "wait"]
  /\ reg = [t \in Tids |-> 0]
  /\ i = [t \in Tids |-> 0]
  /\ out = << >>

Init ==
  /\ sem = [t \in Tids |-> IF t = 1 THEN 1 ELSE 0]
  /\ x = 0
  /\ pc = [t \in Tids |-> "wait"]
  /\ reg = [t \in Tids |-> 0]
  /\ i = [t \in Tids |-> 0]
  /\ out = << >>

Goto(t, from, to) == pc[t] = from /\ pc' = [pc EXCEPT ![t] = to]

Wait(t) ==
  /\ Goto(t, "wait", "read")
  /\ sem[t] > 0
  /\ sem' = [sem EXCEPT ![t] = @ - 1]
  /\ UNCHANGED <<x, reg, i, out>>

Read(t) ==
  /\ Goto(t, "read", "write")
  /\ reg' = [reg EXCEPT ![t] = x]
  /\ UNCHANGED <<sem, x, i, out>>

Write(t) ==
  /\ Goto(t, "write", "print")
  /\ x' = reg[t] + 1
  /\ UNCHANGED <<sem, reg, i, out>>

\* printf reads x again.
PrintX(t) ==
  /\ Goto(t, "print", "post")
  /\ out' = Append(out, <<t, x>>)
  /\ UNCHANGED <<sem, x, reg, i>>

PostOwn(t) ==
  /\ Goto(t, "post", IF i[t] + 1 < ROUNDS THEN "wait" ELSE "done")
  /\ sem' = [sem EXCEPT ![t] = @ + 1]
  /\ i' = [i EXCEPT ![t] = @ + 1]
  /\ UNCHANGED <<x, reg, out>>

Post(t) ==
  /\ Goto(t, "post", IF i[t] + 1 < ROUNDS THEN "wait" ELSE "done")
  /\ sem' = [sem EXCEPT ![Other(t)] = @ + 1]
  /\ i' = [i EXCEPT ![t] = @ + 1]
  /\ UNCHANGED <<x, reg, out>>

Thread(t) == Wait(t) \/ Read(t) \/ Write(t) \/ PrintX(t) \/ Post(t)

AllDone == \A t \in Tids : pc[t] = "done"

\* main has joined both.
Finished == AllDone /\ UNCHANGED vars

Next == (\E t \in Tids : Thread(t)) \/ Finished

Fairness == \A t \in Tids : WF_vars(Thread(t))

Spec == Init /\ [][Next]_vars /\ Fairness

-----------------------------------------------------------------------------
\* The threads print in turns, thread 1 the odd and thread 2 the even numbers, and
\* no number twice: the two accesses to x in a round see no write of the other.
InTurns ==
  \A k \in 1..Len(out) : out[k] = <<IF k % 2 = 1 THEN 1 ELSE 2, k>>

\* Both threads finish their rounds, with everything printed.
Termination == <>(AllDone /\ Len(out) = 2 * ROUNDS)
=============================================================================
