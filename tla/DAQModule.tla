----------------------------- MODULE DAQModule -----------------------------
(***************************************************************************)
(* What every ddpdemo module takes from the application framework: one     *)
(* command at a time, sent by run control, and ThreadHelper, which starts  *)
(* and joins the working thread.  The framework is external; this is how   *)
(* the modules use it: start_working_thread() throws while a thread is     *)
(* there, stop_working_thread() throws while none is, and a command that   *)
(* throws leaves everything as it was.  An exception that leaves do_work   *)
(* ends the process.  Nothing in the modules enforces the order conf start *)
(* stop unconfigure: a command may come in any state, and inOrder records  *)
(* whether run control has kept the order so far.                          *)
(***************************************************************************)

VARIABLES
  rc,        \* what run control believes: the last command that succeeded
  cmd,       \* the command in progress
  running,   \* the flag the working thread is given
  worker,    \* where the working thread is
  died,      \* why the process ended, if it has
  inOrder    \* history: every command so far came in the right state

moduleVars == << rc, cmd, running, worker, died, inOrder >>

Alive == died = "no"

Active == worker \notin {"none", "done"}

Fresh(why) ==
  /\ rc' = "initial" /\ cmd' = "idle" /\ running' = FALSE /\ worker' = "none"
  /\ died' = why
  /\ UNCHANGED inOrder

ModuleInit ==
  /\ rc = "initial" /\ cmd = "idle" /\ running = FALSE /\ worker = "none"
  /\ died = "no" /\ inOrder = TRUE

\* The process ends, and its threads with it.
Dies(cause) == Alive /\ Fresh(cause)

\* The process is started again.
ModuleBoot == ~Alive /\ Fresh("no")

\* A command arrives; its place is after the one that left run control in state from.
Accepts(from) ==
  /\ Alive
  /\ cmd = "idle"
  /\ inOrder' = (inOrder /\ rc = from)

\* It goes on in several steps, ...
Begins(from, to) ==
  /\ Accepts(from)
  /\ cmd' = to
  /\ UNCHANGED << rc, running, worker, died >>

CommandMoves(from, to) ==
  /\ Alive
  /\ cmd = from
  /\ cmd' = to
  /\ UNCHANGED << rc, running, worker, died, inOrder >>

\* ... and succeeds in the last one, or it is over at once.
Succeeds(from, state) ==
  /\ Alive
  /\ cmd = from
  /\ cmd' = "idle"
  /\ rc' = state
  /\ UNCHANGED << running, worker, died, inOrder >>

AtOnce(from, state) ==
  /\ Accepts(from)
  /\ rc' = state
  /\ UNCHANGED << cmd, running, worker, died >>

\* The working thread goes from one label to another.
WorkerMoves(from, to) ==
  /\ Alive
  /\ worker = from
  /\ worker' = to
  /\ UNCHANGED << rc, cmd, running, died, inOrder >>

StartThread ==
  /\ Accepts("configured")
  /\ ~Active /\ ~running
  /\ worker' = "entry"
  /\ running' = TRUE
  /\ rc' = "running"
  /\ UNCHANGED << cmd, died >>

\* Mutant: the flag is not cleared.
ClearFlag_Kept == running' = running

ClearFlag == running' = FALSE

StopThread ==
  /\ Accepts("running")
  /\ running
  /\ ClearFlag
  /\ cmd' = "stop"
  /\ UNCHANGED << rc, worker, died >>

\* Mutant: the thread is not joined.
Joined_NotAwaited == TRUE

Joined == worker = "done"

StopReturns == Joined /\ Succeeds("stop", "configured")

ModuleTypeOK ==
  /\ rc \in {"initial", "configured", "running"}
  /\ running \in BOOLEAN /\ inOrder \in BOOLEAN
=============================================================================
