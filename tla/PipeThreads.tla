----------------------------- MODULE PipeThreads -----------------------------
(***************************************************************************)
(* homework/hw1/p9.c: one thread writes a message into a pipe and closes   *)
(* it, another reads it byte by byte until the end of the file.  The       *)
(* threads share the descriptors, so that there is one write end, and the  *)
(* reader comes to an end only if the writer closes it.                    *)
(***************************************************************************)
EXTENDS Naturals, Sequences

CONSTANT MsgLen \* the bytes of the message, which are 1..MsgLen; not 0

Message == [k \in 1..MsgLen |-> k]

VARIABLES open, \* the ends of the pipe that are open: subset of {0, 1}
          pipe, \* the bytes in the pipe
          pc1,  \* the next step of thread1
          pc2,  \* the next step of thread2
          ch,   \* the byte thread2 has read, 0 before the first
          got   \* what thread2 has printed

vars == <<open, pipe, pc1, pc2, ch, got>>

Init ==
  /\ open = {0, 1}
  /\ pipe = << >>
  /\ pc1 = "write"
  /\ pc2 = "read"
  /\ ch = 0
  /\ got = << >>

\* A write of no more than PIPE_BUF bytes is one step; without a reader it would
\* kill the process.
WriteMessage ==
  /\ pc1 = "write"
  /\ 0 \in open
  /\ pipe' = pipe \o Message
  /\ pc1' = "close"
  /\ UNCHANGED <<open, pc2, ch, got>>

CloseWrongEnd ==
  /\ pc1 = "close"
  /\ open' = open \ {0}
  /\ pc1' = "done"
  /\ UNCHANGED <<pipe, pc2, ch, got>>

CloseWriteEnd ==
  /\ pc1 = "close"
  /\ open' = open \ {1}
  /\ pc1' = "done"
  /\ UNCHANGED <<pipe, pc2, ch, got>>

ReadOrStop ==
  /\ pc2 = "read"
  /\ IF pipe # << >>
     THEN ch' = Head(pipe) /\ pipe' = Tail(pipe) /\ pc2' = "print"
     ELSE pc2' = "close" /\ UNCHANGED <<ch, pipe>>
  /\ UNCHANGED <<open, pc1, got>>

\* read waits for a byte, or for the end of the file.
Read ==
  /\ pc2 = "read"
  /\ \/ pipe # << >> /\ ch' = Head(pipe) /\ pipe' = Tail(pipe) /\ pc2' = "print"
     \/ pipe = << >> /\ 1 \notin open /\ pc2' = "close" /\ UNCHANGED <<ch, pipe>>
  /\ UNCHANGED <<open, pc1, got>>

PrintCh ==
  /\ pc2 = "print"
  /\ got' = Append(got, ch)
  /\ pc2' = "read"
  /\ UNCHANGED <<open, pipe, pc1, ch>>

CloseReadEnd ==
  /\ pc2 = "close"
  /\ open' = open \ {0}
  /\ pc2' = "done"
  /\ UNCHANGED <<pipe, pc1, ch, got>>

thread1 == WriteMessage \/ CloseWriteEnd
thread2 == Read \/ PrintCh \/ CloseReadEnd

\* main has joined both.
Finished == pc1 = "done" /\ pc2 = "done" /\ UNCHANGED vars

Next == thread1 \/ thread2 \/ Finished

Fairness == WF_vars(thread1) /\ WF_vars(thread2)

SafeSpec == Init /\ [][Next]_vars
Spec == SafeSpec /\ Fairness

-----------------------------------------------------------------------------
\* Nothing is lost, repeated or reordered: what is printed, the byte in hand and
\* what is in the pipe are the message; and the reader stops, closing its end,
\* only when it has printed all of it.
WholeMessage ==
  /\ pc1 # "write" =>
       got \o (IF pc2 = "print" THEN <<ch>> ELSE << >>) \o pipe = Message
  /\ pc2 \in {"close", "done"} => got = Message
  /\ 0 \notin open => pc1 = "done"

\* Both threads end, and main's joins return.
Termination == <>(pc1 = "done" /\ pc2 = "done")
=============================================================================
