------------------------------ MODULE PipeProcs ------------------------------
(***************************************************************************)
(* homework/hw1/p8.c: a parent makes a pipe and two children, of which the *)
(* first writes a line into it and the second prints what comes out.  Who  *)
(* holds which end decides everything: a reader is at the end of the file  *)
(* only when nobody holds the write end, and a writer is killed when       *)
(* nobody holds the read end.  A fork may fail.                            *)
(***************************************************************************)
EXTENDS Naturals, FiniteSets

Procs == {"parent", "child1", "child2"}
\* Descriptors of the pipe: file[0] and file[1], and those dup2 makes of them.
ReadEnds == {"file0", "stdin"}
WriteEnds == {"file1", "stdout"}

VARIABLES pc,   \* pc[p]: the next step of process p
          fds,  \* fds[p]: the descriptors of the pipe process p holds
          pipe, \* the lines in the pipe
          sent, \* the lines written into it
          got   \* the lines child 2 has printed

vars == <<pc, fds, pipe, sent, got>>

Init ==
  /\ pc = [p \in Procs |-> IF p = "parent" THEN "fork1" ELSE "none"]
  /\ fds = [p \in Procs |-> IF p = "parent" THEN {"file0", "file1"} ELSE {}]
  /\ pipe = 0
  /\ sent = 0
  /\ got = 0

Held(ends) == \E p \in Procs : fds[p] \cap ends # {}

Goto(p, from, to) == pc[p] = from /\ pc' = [pc EXCEPT ![p] = to]

\* The end of a process closes what it holds.
Exit(p, from) ==
  /\ Goto(p, from, "exited")
  /\ fds' = [fds EXCEPT ![p] = {}]
  /\ UNCHANGED <<pipe, sent, got>>

Close(p, from, to, fd) ==
  /\ Goto(p, from, to)
  /\ fds' = [fds EXCEPT ![p] = @ \ {fd}]
  /\ UNCHANGED <<pipe, sent, got>>

Dup2(p, from, to, new) ==
  /\ Goto(p, from, to)
  /\ fds' = [fds EXCEPT ![p] = @ \union {new}]
  /\ UNCHANGED <<pipe, sent, got>>

\* A child begins with the descriptors of the parent.
Fork(from, to, child, first) ==
  \/ /\ pc["parent"] = from
     /\ pc' = [pc EXCEPT !["parent"] = to, ![child] = first]
     /\ fds' = [fds EXCEPT ![child] = fds["parent"]]
     /\ UNCHANGED <<pipe, sent, got>>
  \/ Exit("parent", from) \* it fails

WaitPid(from, to, child) ==
  /\ pc[child] = "exited"
  /\ Goto("parent", from, to)
  /\ UNCHANGED <<fds, pipe, sent, got>>

ParentKeepsWriteEnd ==
  \/ Fork("fork1", "fork2", "child1", "close0")
  \/ Fork("fork2", "close0", "child2", "close1")
  \/ Close("parent", "close0", "wait1", "file0")
  \/ WaitPid("wait1", "wait2", "child1")
  \/ WaitPid("wait2", "exit", "child2")
  \/ Exit("parent", "exit")

ParentWaitsOnce ==
  \/ Fork("fork1", "fork2", "child1", "close0")
  \/ Fork("fork2", "close0", "child2", "close1")
  \/ Close("parent", "close0", "close1", "file0")
  \/ Close("parent", "close1", "wait1", "file1")
  \/ WaitPid("wait1", "exit", "child1")
  \/ Exit("parent", "exit")

Parent ==
  \/ Fork("fork1", "fork2", "child1", "close0")
  \/ Fork("fork2", "close0", "child2", "close1")
  \/ Close("parent", "close0", "close1", "file0")
  \/ Close("parent", "close1", "wait1", "file1")
  \/ WaitPid("wait1", "wait2", "child1")
  \/ WaitPid("wait2", "exit", "child2")
  \/ Exit("parent", "exit")

\* printf and fflush of child 1; without a reader it is killed by SIGPIPE.
Send ==
  IF Held(ReadEnds)
  THEN /\ Goto("child1", "send", "exit")
       /\ pipe' = pipe + 1
       /\ sent' = sent + 1
       /\ UNCHANGED <<fds, got>>
  ELSE Exit("child1", "send")

Child1 ==
  \/ Close("child1", "close0", "dup", "file0")
  \/ Dup2("child1", "dup", "close1", "stdout")
  \/ Close("child1", "close1", "send", "file1")
  \/ Send
  \/ Exit("child1", "exit")

ReceiveNoWait ==
  /\ Goto("child2", "receive", IF pipe > 0 THEN "receive" ELSE "exit")
  /\ got' = got + pipe
  /\ pipe' = 0
  /\ UNCHANGED <<fds, sent>>

\* fgets and printf of child 2: it waits for lines, or for the end of the file.
Receive ==
  /\ pipe > 0 \/ ~Held(WriteEnds)
  /\ Goto("child2", "receive", IF pipe > 0 THEN "receive" ELSE "exit")
  /\ got' = got + pipe
  /\ pipe' = 0
  /\ UNCHANGED <<fds, sent>>

Child2 ==
  \/ Close("child2", "close1", "dup", "file1")
  \/ Dup2("child2", "dup", "close0", "stdin")
  \/ Close("child2", "close0", "receive", "file0")
  \/ Receive
  \/ Exit("child2", "exit")

Ended(p) == pc[p] \in {"none", "exited"}
Finished == (\A p \in Procs : Ended(p)) /\ UNCHANGED vars

Next == Parent \/ Child1 \/ Child2 \/ Finished

\* The scheduler runs every process that can go on.
Fairness == WF_vars(Parent) /\ WF_vars(Child1) /\ WF_vars(Child2)

Spec == Init /\ [][Next]_vars /\ Fairness

-----------------------------------------------------------------------------
\* Child 2 sees the end of the file only when nothing can come any more, and has
\* printed all that was written: if it was created, that is the line of child 1.
NoEarlyEnd ==
  pc["child2"] \in {"exit", "exited"} => Ended("child1") /\ sent = 1 /\ got = sent

\* A parent that created both children outlives them, and leaves no zombie.
ParentLast ==
  pc["parent"] = "exited" /\ pc["child2"] # "none" => \A p \in Procs : Ended(p)

\* All processes end, whether the forks succeed or not.
Termination == <>(\A p \in Procs : Ended(p))
=============================================================================
