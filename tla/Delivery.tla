------------------------------ MODULE Delivery ------------------------------
(***************************************************************************)
(* What the producer/consumer programs of homework/hw2 are for: the        *)
(* characters of items[] are printed once each and in order, at most       *)
(* Capacity of them are between the producers and the printout, and a      *)
(* consumer stops only when all have been printed.                         *)
(***************************************************************************)
EXTENDS Naturals, Sequences

CONSTANTS Consumers,  \* the consumer threads
          NumChars,   \* the number of characters to deliver
          Capacity    \* the number of buffer slots

VARIABLES sent,     \* how many characters have been put into the buffer
          printed,  \* the characters printed, by their place in items[], from 1
          stopped   \* the consumers that have seen the end

vars == <<sent, printed, stopped>>

Init ==
  /\ sent = 0
  /\ printed = <<>>
  /\ stopped = {}

Send ==
  /\ sent < NumChars
  /\ sent - Len(printed) < Capacity
  /\ sent' = sent + 1
  /\ UNCHANGED <<printed, stopped>>

Deliver ==
  /\ Len(printed) < sent
  /\ printed' = Append(printed, Len(printed) + 1)
  /\ UNCHANGED <<sent, stopped>>

Stop(c) ==
  /\ Len(printed) = NumChars
  /\ c \notin stopped
  /\ stopped' = stopped \union {c}
  /\ UNCHANGED <<sent, printed>>

Next == Send \/ Deliver \/ \E c \in Consumers : Stop(c)

SafeSpec == Init /\ [][Next]_vars

\* Everything is printed and every consumer stops.
Spec == SafeSpec /\ WF_vars(Next)
=============================================================================
