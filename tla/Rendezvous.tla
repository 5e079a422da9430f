----------------------------- MODULE Rendezvous -----------------------------
(***************************************************************************)
(* What a barrier promises: every thread arrives once, and passes only     *)
(* when all have arrived.                                                  *)
(***************************************************************************)
CONSTANT Threads

VARIABLES arrived, passed

vars == <<arrived, passed>>

Init ==
  /\ arrived = {}
  /\ passed = {}

Arrive(t) ==
  /\ t \notin arrived
  /\ arrived' = arrived \union {t}
  /\ UNCHANGED passed

Pass(t) ==
  /\ arrived = Threads
  /\ t \notin passed
  /\ passed' = passed \union {t}
  /\ UNCHANGED arrived

Next == \E t \in Threads : Arrive(t) \/ Pass(t)

SafeSpec == Init /\ [][Next]_vars

\* Everybody arrives, and then everybody passes.
Spec == SafeSpec /\ WF_vars(Next)
=============================================================================
