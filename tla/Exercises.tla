------------------------------ MODULE Exercises ------------------------------
(***************************************************************************)
(* The small programs that stand alone, in one state machine: program says *)
(* which of them runs, and the variables of the others stay as they are.   *)
(***************************************************************************)
EXTENDS Barrier

CONSTANTS NUMTHREADS, \* the threads whose handles threads.c keeps
          COUNTS,     \* the rounds of each of its threads
          ROUNDS,     \* the rounds of each thread of 2tcounter.c
          MsgLen      \* the bytes of the message of p9.c
ASSUME ExercisesAssumption ==
  NUMTHREADS \in Nat /\ NUMTHREADS > 1 /\ {COUNTS, ROUNDS, MsgLen} \subseteq Nat \ {0}

VARIABLE program
VARIABLES c_i, c_mutex, c_pc, c_reg, c_j, c_threads, c_main, c_printed
VARIABLES t_sem, t_x, t_pc, t_reg, t_i, t_out
VARIABLES p_pc, p_fds, p_pipe, p_sent, p_got
VARIABLES q_open, q_pipe, q_pc1, q_pc2, q_ch, q_got

c_vars == <<c_i, c_mutex, c_pc, c_reg, c_j, c_threads, c_main, c_printed>>
t_vars == <<t_sem, t_x, t_pc, t_reg, t_i, t_out>>
p_vars == <<p_pc, p_fds, p_pipe, p_sent, p_got>>
q_vars == <<q_open, q_pipe, q_pc1, q_pc2, q_ch, q_got>>

CounterProgram == INSTANCE Counter
  WITH ROUNDS <- COUNTS, i <- c_i, mutex <- c_mutex, pc <- c_pc, reg <- c_reg,
       j <- c_j, threads <- c_threads, main <- c_main, printed <- c_printed
TurnsProgram == INSTANCE Turns
  WITH sem <- t_sem, x <- t_x, pc <- t_pc, reg <- t_reg, i <- t_i, out <- t_out
PipeProgram == INSTANCE PipeProcs
  WITH pc <- p_pc, fds <- p_fds, pipe <- p_pipe, sent <- p_sent, got <- p_got
MessageProgram == INSTANCE PipeThreads
  WITH open <- q_open, pipe <- q_pipe, pc1 <- q_pc1, pc2 <- q_pc2, ch <- q_ch, got <- q_got

ExercisesInit ==
  /\ program \in {"barrier", "counter", "turns", "pipe", "message"}
  /\ Init
  /\ CounterProgram!Init
  /\ TurnsProgram!Init
  /\ PipeProgram!Init
  /\ MessageProgram!Init

ExercisesNext ==
  /\ UNCHANGED program
  /\ IF program = "barrier" THEN Next ELSE UNCHANGED vars
  /\ IF program = "counter" THEN CounterProgram!Next ELSE UNCHANGED c_vars
  /\ IF program = "turns" THEN TurnsProgram!Next ELSE UNCHANGED t_vars
  /\ IF program = "pipe" THEN PipeProgram!Next ELSE UNCHANGED p_vars
  /\ IF program = "message" THEN MessageProgram!Next ELSE UNCHANGED q_vars

ExercisesFairness ==
  \/ program = "barrier" /\ Fairness
  \/ program = "counter" /\ CounterProgram!Fairness
  \/ program = "turns" /\ TurnsProgram!Fairness
  \/ program = "pipe" /\ PipeProgram!Fairness
  \/ program = "message" /\ MessageProgram!Fairness

allVars == <<program, vars, c_vars, t_vars, p_vars, q_vars>>

ExercisesSpec == ExercisesInit /\ [][ExercisesNext]_allVars /\ ExercisesFairness

-----------------------------------------------------------------------------
\* threads.c: every increment made under the semaphore is in i.
NoUpdateLost == CounterProgram!NoUpdateLost
\* threads.c: what main prints, having joined all threads but one, is in the range
\* that the rounds of that one leave.
PrintedInRange == CounterProgram!PrintedInRange
\* 2tcounter.c: the two semaphores alone keep the accesses to x in turns.
InTurns == TurnsProgram!InTurns
\* p8.c: the reader sees the end of the file when all is read, and not before.
NoEarlyEnd == PipeProgram!NoEarlyEnd
\* p8.c: the parent is the last to end, if it could create both children.
ParentLast == PipeProgram!ParentLast
\* p9.c: no byte is lost, repeated or reordered, and the reader stops after the last.
WholeMessage == MessageProgram!WholeMessage

\* Every program comes to its end: no thread or process waits for ever.
EveryProgramEnds ==
  /\ program = "barrier" => Termination
  /\ program = "counter" => CounterProgram!Termination
  /\ program = "turns" => TurnsProgram!Termination
  /\ program = "pipe" => PipeProgram!Termination
  /\ program = "message" => MessageProgram!Termination
=============================================================================
