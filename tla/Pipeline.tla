------------------------------- MODULE Pipeline -------------------------------
(***************************************************************************)
(* exec_pipe() (execution/pipe.c): the shell forks the left command with   *)
(* its standard output on a pipe, waits for it, forks the right command    *)
(* with its standard input on the pipe and waits for that one.  Each       *)
(* process takes its steps in its own time.                                *)
(***************************************************************************)
EXTENDS PipeEnds

CONSTANTS
  Outputs,       \* how many bytes the left command may have to write
  Statuses,      \* what a command may exit with
  ForkMayFail    \* whether fork() may return -1

ASSUME PipelineAssumption ==
  /\ Outputs \subseteq Nat /\ Statuses \subseteq 0 .. 255
  /\ ForkMayFail \in BOOLEAN

VARIABLES
  shell,    \* where the shell is in exec_pipe()
  res,      \* what exec_pipe() returns, or what the shell has exited with
  left,     \* where the left child is
  right,    \* where the right child is
  output,   \* how many bytes the left command has to write
  written,  \* how many of them it has written
  got,      \* the bytes the right command has read
  status    \* of each child: its exit status, Killed or NotEnded

vars == <<buffer, readers, writers, shell, res, left, right, output, written,
          got, status>>

Killed == -1
NotEnded == -2
Children == {"left", "right"}

\* What WEXITSTATUS() makes of a wait status: 0 of a child a signal has ended.
ExitStatus(s) == IF s = Killed THEN 0 ELSE s

\* Plausible bugs: the wait status as it is, the status of the first child.
ResultRaw == status["right"]
ResultLeft == ExitStatus(status["left"])

Result == ExitStatus(status["right"])
-----------------------------------------------------------------------------
(* The shell *)

\* pipe() and the first fork().
ForkLeft ==
  /\ shell = "start"
  /\ Inherits("left", "shell")
  /\ shell' = "close_write" /\ left' = "redirect"
  /\ UNCHANGED <<res, right, output, written, got, status>>

ForkLeftFails ==
  /\ shell = "start" /\ ForkMayFail
  /\ shell' = "exited" /\ res' = 2 /\ CloseBoth("shell")
  /\ UNCHANGED <<left, right, output, written, got, status>>

\* A plausible bug: the writing end stays open.
KeepWriteEnd ==
  /\ shell = "close_write"
  /\ shell' = "wait_left"
  /\ UNCHANGED <<buffer, readers, writers, res, left, right, output, written,
                 got, status>>

CloseWriteEnd ==
  /\ shell = "close_write"
  /\ CloseWrite("shell")
  /\ shell' = "wait_left"
  /\ UNCHANGED <<res, left, right, output, written, got, status>>

\* waitpid() has the left child; the second fork().
ForkRight ==
  /\ shell = "wait_left" /\ left = "ended"
  /\ Inherits("right", "shell")
  /\ shell' = "close_read" /\ right' = "read"
  /\ UNCHANGED <<res, left, output, written, got, status>>

\* Its result is not tested: the shell then waits for a child that there is not.
ForkRightFails ==
  /\ shell = "wait_left" /\ left = "ended" /\ ForkMayFail
  /\ shell' = "close_read"
  /\ UNCHANGED <<buffer, readers, writers, res, left, right, output, written,
                 got, status>>

\* A plausible bug: the reading end stays open.
KeepReadEnd ==
  /\ shell = "close_read"
  /\ shell' = "wait_right"
  /\ UNCHANGED <<buffer, readers, writers, res, left, right, output, written,
                 got, status>>

CloseReadEnd ==
  /\ shell = "close_read"
  /\ CloseRead("shell")
  /\ shell' = "wait_right"
  /\ UNCHANGED <<res, left, right, output, written, got, status>>

WaitRight ==
  /\ shell = "wait_right"
  /\ \/ right = "ended" /\ res' = Result
     \/ right = "none" /\ res' = 1
  /\ shell' = "returned"
  /\ UNCHANGED <<buffer, readers, writers, left, right, output, written, got,
                 status>>
-----------------------------------------------------------------------------
(* The children *)

\* dup2() and close(fd[0]).
LeftRedirects ==
  /\ left = "redirect"
  /\ CloseRead("left")
  /\ left' = "write"
  /\ UNCHANGED <<shell, res, right, output, written, got, status>>

LeftWrites ==
  /\ left = "write" /\ written < output
  /\ Write(written + 1)
  /\ written' = written + 1
  /\ UNCHANGED <<shell, res, left, right, output, got, status>>

Ended(p, s) == status' = [status EXCEPT ![p] = s] /\ CloseBoth(p)

\* The left command ends when it has written everything, or at any time before:
\* it exits early or a signal ends it.
LeftEnds ==
  /\ left = "write"
  /\ \E s \in Statuses \cup {Killed} : Ended("left", s)
  /\ left' = "ended"
  /\ UNCHANGED <<shell, res, right, output, written, got>>

RightReads ==
  /\ right = "read"
  /\ ReadInto(1, got)
  /\ UNCHANGED <<shell, res, left, right, output, written, status>>

RightSeesEof ==
  /\ right = "read" /\ AtEof
  /\ right' = "eof"
  /\ UNCHANGED <<buffer, readers, writers, shell, res, left, output, written,
                 got, status>>

\* The right command ends when it has read everything, or at any time before:
\* it exits without having read its input, or a signal ends it.
RightEnds ==
  /\ right \in {"read", "eof"}
  /\ \E s \in Statuses \cup {Killed} : Ended("right", s)
  /\ right' = "ended"
  /\ UNCHANGED <<shell, res, left, output, written, got>>
-----------------------------------------------------------------------------
\* After pipe().
Init ==
  /\ Opened("shell")
  /\ shell = "start" /\ res = NotEnded
  /\ left = "none" /\ right = "none"
  /\ output \in Outputs /\ written = 0 /\ got = <<>>
  /\ status = [p \in Children |-> NotEnded]

Shell == \/ ForkLeft \/ ForkLeftFails \/ CloseWriteEnd \/ ForkRight
         \/ ForkRightFails \/ CloseReadEnd \/ WaitRight
Next == Shell \/ LeftRedirects \/ LeftWrites \/ LeftEnds \/ RightReads
              \/ RightSeesEof \/ RightEnds

\* The processes are scheduled; the commands read and write all they can, then
\* end.
LeftGoesOn == LeftRedirects \/ LeftWrites \/ (written = output /\ LeftEnds)
RightGoesOn == RightReads \/ RightSeesEof \/ (right = "eof" /\ RightEnds)
Fairness == WF_vars(Shell) /\ WF_vars(LeftGoesOn) /\ WF_vars(RightGoesOn)

Spec == Init /\ [][Next]_vars /\ Fairness
-----------------------------------------------------------------------------
(* Properties *)

Returned == shell = "returned"
Done == shell \in {"returned", "exited"}

TypeOK ==
  /\ buffer \in Seq(Nat) /\ Len(buffer) <= Capacity
  /\ readers \subseteq {"shell"} \cup Children
  /\ writers \subseteq {"shell"} \cup Children
  /\ shell \in {"start", "close_write", "wait_left", "close_read", "wait_right",
                "returned", "exited"}
  /\ left \in {"none", "redirect", "write", "ended"}
  /\ right \in {"none", "read", "eof", "ended"}
  /\ output \in Nat /\ written \in 0 .. output /\ got \in Seq(Nat)
  /\ res \in 0 .. 255 \cup {NotEnded}
  /\ status \in [Children -> Statuses \cup {Killed, NotEnded}]

\* The left command is not killed by SIGPIPE, for the shell keeps the reading end
\* until the right command has it; and exec_pipe() returns with both ends of the
\* pipe closed, in every process.
EndsInOrder ==
  /\ left = "write" => readers # {}
  /\ Returned => readers = {} /\ writers = {}

\* The status of a pipeline is that of its right command.
ReturnsRight ==
  Returned /\ status["right"] \notin {NotEnded, Killed} => res = status["right"]

\* Both commands are executed, unless the shell has given up.
BothExecuted == <>(right # "none" \/ shell = "exited")
=============================================================================
