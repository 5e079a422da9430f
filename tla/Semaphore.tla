----------------------------- MODULE Semaphore -----------------------------
(***************************************************************************)
(* What a counting semaphore promises its callers: waiting takes a unit    *)
(* when there is one, in one indivisible step, and posting adds one.       *)
(* Nothing is said about which of several waiting threads is served: the   *)
(* pthread mutex behind the real one gives no such order.                  *)
(***************************************************************************)
EXTENDS Naturals

CONSTANTS Threads,      \* the threads that use the semaphores
          Sems,         \* the semaphores
          InitialCount, \* the value each is initialised with
          NoSem         \* the argument of a thread that is in no call

VARIABLES value,   \* value[s]: the units semaphore s holds
          call,    \* call[t]: how far thread t is in its call
          arg      \* arg[t]: the semaphore thread t's call is about

vars == <<value, call, arg>>

Calls == {"idle", "waiting", "posting", "returning"}

Init ==
  /\ value = InitialCount
  /\ call = [t \in Threads |-> "idle"]
  /\ arg = [t \in Threads |-> NoSem]

Invoke(t, s) ==
  /\ call[t] = "idle"
  /\ \E c \in {"waiting", "posting"} : call' = [call EXCEPT ![t] = c]
  /\ arg' = [arg EXCEPT ![t] = s]
  /\ UNCHANGED value

Take(t) ==
  /\ call[t] = "waiting"
  /\ value[arg[t]] > 0
  /\ value' = [value EXCEPT ![arg[t]] = @ - 1]
  /\ call' = [call EXCEPT ![t] = "returning"]
  /\ UNCHANGED arg

Post(t) ==
  /\ call[t] = "posting"
  /\ value' = [value EXCEPT ![arg[t]] = @ + 1]
  /\ call' = [call EXCEPT ![t] = "returning"]
  /\ UNCHANGED arg

Return(t) ==
  /\ call[t] = "returning"
  /\ call' = [call EXCEPT ![t] = "idle"]
  /\ arg' = [arg EXCEPT ![t] = NoSem]
  /\ UNCHANGED value

Next ==
  \E t \in Threads :
    \/ \E s \in Sems : Invoke(t, s)
    \/ Take(t)
    \/ Post(t)
    \/ Return(t)

\* Progress of the threads as a group: a unit that stays available to waiting
\* threads is taken by one of them, a post in progress happens.
Progress(s) ==
  /\ WF_vars(\E t \in Threads : arg[t] = s /\ Take(t))
  /\ WF_vars(\E t \in Threads : arg[t] = s /\ Post(t))

Spec == Init /\ [][Next]_vars /\ \A t \in Threads : WF_vars(Return(t))
             /\ \A s \in Sems : Progress(s)

SafeSpec == Init /\ [][Next]_vars
=============================================================================
