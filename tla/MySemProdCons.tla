--------------------------- MODULE MySemProdCons ---------------------------
(***************************************************************************)
(* homework/hw2/my_sem.c: the program of sem.c over the semaphores of      *)
(* my_sem.h.  It composes SemProdCons, whose accesses to the buffer it     *)
(* takes as they are, with MonitorSem, whose steps replace each semaphore  *)
(* operation: a thread at a semaphore operation calls it (Call), goes      *)
(* through it by the steps of MonitorSem (Inside), and goes on in the      *)
(* program when it returns (Return).                                       *)
(***************************************************************************)
EXTENDS Naturals, Sequences, FiniteSets

CONSTANTS Producers, Consumers, BUF_SIZE, NumChars, \* as in SemProdCons
          NoThread, NoSem                           \* as in MonitorSem

VARIABLES buffer, in, out, p_index,     \* the shared variables of my_sem.c
          pc, left, pills, ended, printed, \* where the threads are in it
          count, owner, waiting, \* the Sems empty, full and mutex
          step, arg              \* where the threads are in my_sem.h

local == <<pc, left, pills, ended, printed>>
program == <<buffer, in, out, p_index, local>>
semaphores == <<count, owner, waiting, step, arg>>
vars == <<program, semaphores>>

Sems == {"empty", "full", "mutex"}

\* sem_init_custom, lines 88-90.
InitialCount == [s \in Sems |-> IF s = "empty" THEN BUF_SIZE ELSE IF s = "full" THEN 0 ELSE 1]

Prog == INSTANCE SemProdCons WITH prod_index <- p_index,
  empty <- count["empty"], full <- count["full"], mutex <- count["mutex"]

Threads == Prog!Threads

Sem == INSTANCE MonitorSem WITH pc <- step, MaxCount <- BUF_SIZE

Init == Sem!Init /\ Prog!Init

-----------------------------------------------------------------------------
\* The semaphore a thread at each step of the program is about to use.
WaitsOn == [wait_empty |-> "empty", wait_full |-> "full", wait_mutex |-> "mutex"]
Posts == [leave |-> "mutex", post_mutex |-> "mutex", post_full |-> "full", post_empty |-> "empty"]

Call(t) ==
  /\ \/ pc[t] \in DOMAIN WaitsOn /\ Sem!CallWait(t, WaitsOn[pc[t]])
     \/ pc[t] \in DOMAIN Posts /\ Sem!CallSignal(t, Posts[pc[t]])
  /\ UNCHANGED program

\* The producers do not wait for the mutex (line 24).
AfterWaitNoMutex(t) ==
  IF pc[t] = "wait_full" THEN "wait_mutex" ELSE IF t \in Producers THEN "put" ELSE "get"

\* The step of the program after the sem_wait_custom thread t is in.
AfterWait(t) ==
  IF pc[t] \in {"wait_empty", "wait_full"} THEN "wait_mutex"
  ELSE IF t \in Producers THEN "put" ELSE "get"

\* A consumer that has read a NUL exits without sem_signal_custom(&empty).
AfterPostNoEmpty(t) ==
  CASE pc[t] = "leave" -> "wait_empty"
    [] pc[t] = "post_mutex" -> IF t \in Producers THEN "post_full"
                               ELSE IF t \in ended THEN "done" ELSE "post_empty"
    [] pc[t] = "post_full" -> IF pills[t] = Prog!C THEN "done" ELSE "wait_empty"
    [] pc[t] = "post_empty" -> "wait_full"

\* The step of the program after the sem_signal_custom thread t is in.
AfterPost(t) ==
  CASE pc[t] = "leave" -> "wait_empty"
    [] pc[t] = "post_mutex" -> IF t \in Producers THEN "post_full" ELSE "post_empty"
    [] pc[t] = "post_full" -> IF pills[t] = Prog!C THEN "done" ELSE "wait_empty"
    [] pc[t] = "post_empty" -> IF t \in ended THEN "done" ELSE "wait_full"

After(t) == IF pc[t] \in DOMAIN WaitsOn THEN AfterWait(t) ELSE AfterPost(t)

Leaving == {p \in Producers : pc[p] = "leave"}

Return(t) ==
  /\ Sem!Unlock(t)
  /\ pc' = [pc EXCEPT ![t] = After(t)]
  /\ left' = left \union ({t} \intersect Leaving)
  /\ UNCHANGED <<buffer, in, out, p_index, pills, ended, printed>>

Inside(t) ==
  /\ Sem!Lock(t) \/ Sem!WaitBlock(t) \/ Sem!WaitTake(t) \/ Sem!SignalCount(t) \/ Sem!SignalCond(t)
  /\ UNCHANGED program

SpuriousWakeup(t) == Sem!SpuriousWakeup(t) /\ UNCHANGED program

\* What a thread does between sem_wait_custom(&mutex) and sem_signal_custom(&mutex).
Access(t) ==
  /\ UNCHANGED semaphores
  /\ \/ /\ t \in Producers
        /\ Prog!PutItem(t) \/ Prog!NoItemsLeft(t) \/ Prog!PutPill(t)
     \/ /\ t \in Consumers
        /\ Prog!GetNul(t) \/ Prog!GetChar(t)

-----------------------------------------------------------------------------
Thread(t) ==
  \/ step[t] = "idle" /\ (Call(t) \/ Access(t))
  \/ Inside(t)
  \/ Return(t)

\* main's joins have all returned (lines 100-104) and the process is gone.
Finished == Prog!AllDone /\ UNCHANGED vars

Next == Finished \/ \E t \in Threads : Thread(t) \/ SpuriousWakeup(t)

\* As in MonitorSem: every thread that can run is run, and the wakeups for no
\* reason end.
Fairness ==
  /\ \A t \in Threads : WF_vars(Thread(t))
  /\ <>[][\E t \in Threads : Thread(t)]_vars

Spec == Init /\ [][Next]_vars /\ Fairness

-----------------------------------------------------------------------------
\* A wait takes effect with its count--, a post with its count++; from there
\* on the thread is past the operation for the others.
PastEffect(t) == step[t] \in {"wait_unlock", "signal_cond", "signal_unlock"}

Atomic == INSTANCE SemProdCons WITH
  prod_index <- p_index,
  empty <- count["empty"], full <- count["full"], mutex <- count["mutex"],
  pc <- [t \in Threads |-> IF PastEffect(t) THEN After(t) ELSE pc[t]],
  left <- left \union {p \in Leaving : PastEffect(p)}

\* The semaphores of my_sem.h serve the program as the atomic ones of
\* semaphore.h would, so what holds of sem.c -- exclusion, order, the count of
\* the slots, the end of a run that has room -- holds of my_sem.c.
ImplementsSemProdCons == Atomic!Spec

\* ./my_sem p c comes to its end: every join of main returns (my_sem.c:100-104).
Termination == <>Prog!AllDone
=============================================================================
