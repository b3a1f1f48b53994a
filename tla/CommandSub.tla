------------------------------ MODULE CommandSub ------------------------------
(***************************************************************************)
(* get_stdout() (execution/command_sub.c): the shell forks a command with  *)
(* its standard output on a pipe, waits for it and then reads the pipe     *)
(* into a buffer that grows with what is read.                             *)
(***************************************************************************)
EXTENDS PipeEnds

CONSTANTS
  Chunk,         \* the most bytes one read() asks for: 2048
  Outputs,       \* how many bytes the command may have to write
  Statuses,      \* what a command may exit with
  ForkMayFail    \* whether fork() may return -1

\* SubPipe, which composes this module, assumes it.
CommandSubAssumption ==
  /\ Chunk \in Nat \ {0} /\ Outputs \subseteq Nat
  /\ Statuses \subseteq 0 .. 255 /\ ForkMayFail \in BOOLEAN

VARIABLES
  shell,    \* where the shell is in get_stdout()
  child,    \* where the child is
  output,   \* how many bytes the child has to write
  written,  \* how many of them it has written
  status,   \* the exit status of the child, Killed or NotEnded
  buff,     \* the bytes in buff that have been read: total is their number
  size,     \* the allocated size of buff
  last      \* the shell variable "?"

vars == <<buffer, readers, writers, shell, child, output, written, status, buff,
          size, last>>

Killed == -1
NotEnded == -2

\* WEXITSTATUS() of a child that a signal has ended is 0.
ExitStatus(s) == IF s = Killed THEN 0 ELSE s

\* A plausible bug: no room for the null byte.
RoomFor(total) == total + Chunk

\* The size of buff once total bytes are in it.
Room(total) == total + Chunk + 1
-----------------------------------------------------------------------------
ForkChild ==
  /\ shell = "start"
  /\ Inherits("child", "shell")
  /\ shell' = "close_write" /\ child' = "redirect"
  /\ UNCHANGED <<output, written, status, buff, size, last>>

ForkFails ==
  /\ shell = "start" /\ ForkMayFail
  /\ shell' = "exited" /\ CloseBoth("shell")
  /\ UNCHANGED <<child, output, written, status, buff, size, last>>

\* A plausible bug: the writing end stays open.
KeepWriteEnd ==
  /\ shell = "close_write"
  /\ shell' = "wait"
  /\ UNCHANGED <<buffer, readers, writers, child, output, written, status, buff,
                 size, last>>

CloseWriteEnd ==
  /\ shell = "close_write"
  /\ CloseWrite("shell")
  /\ shell' = "wait"
  /\ UNCHANGED <<child, output, written, status, buff, size, last>>

\* waitpid(), then xcalloc(2049, 1).
WaitChild ==
  /\ shell = "wait" /\ child = "ended"
  /\ shell' = "read" /\ size' = Room(0)
  /\ UNCHANGED <<buffer, readers, writers, child, output, written, status, buff,
                 last>>

\* A plausible bug: each chunk is read to the start of buff.
ReadOver ==
  /\ shell = "read"
  /\ \E got \in {SubSeq(buffer, 1, IF Len(buffer) < Chunk THEN Len(buffer)
                                   ELSE Chunk)} :
       /\ Readable /\ buff' = got /\ size' = Room(Len(got))
       /\ buffer' = SubSeq(buffer, Len(got) + 1, Len(buffer))
  /\ UNCHANGED <<readers, writers, shell, child, output, written, status, last>>

\* read() at buff + total, then xrecalloc().
ReadChunk ==
  /\ shell = "read"
  /\ ReadInto(Chunk, buff)
  /\ size' = Room(Len(buff'))
  /\ UNCHANGED <<shell, child, output, written, status, last>>

\* read() returns 0: close(), xstrdup() and RETURN.
ReturnText ==
  /\ shell = "read" /\ AtEof
  /\ CloseRead("shell")
  /\ shell' = "returned" /\ last' = ExitStatus(status)
  /\ UNCHANGED <<child, output, written, status, buff, size>>
-----------------------------------------------------------------------------
ChildRedirects ==
  /\ child = "redirect"
  /\ CloseRead("child")
  /\ child' = "write"
  /\ UNCHANGED <<shell, output, written, status, buff, size, last>>

ChildWrites ==
  /\ child = "write" /\ written < output
  /\ Write(written + 1)
  /\ written' = written + 1
  /\ UNCHANGED <<shell, child, output, status, buff, size, last>>

\* When everything is written, or early.
ChildEnds ==
  /\ child = "write"
  /\ \E s \in Statuses \cup {Killed} : status' = s
  /\ child' = "ended"
  /\ CloseBoth("child")
  /\ UNCHANGED <<shell, output, written, buff, size, last>>
-----------------------------------------------------------------------------
\* After pipe().
Init ==
  /\ Opened("shell")
  /\ shell = "start" /\ child = "none"
  /\ output \in Outputs /\ written = 0 /\ status = NotEnded
  /\ buff = <<>> /\ size = 0
  /\ last \in 0 .. 1      \* whatever ran before

Shell == \/ ForkChild \/ ForkFails \/ CloseWriteEnd \/ WaitChild \/ ReadChunk
         \/ ReturnText
Next == Shell \/ ChildRedirects \/ ChildWrites \/ ChildEnds

\* Both processes are scheduled; the command writes all it can, then ends.
ChildGoesOn == ChildRedirects \/ ChildWrites \/ (written = output /\ ChildEnds)
Fairness == WF_vars(Shell) /\ WF_vars(ChildGoesOn)

Spec == Init /\ [][Next]_vars /\ Fairness
-----------------------------------------------------------------------------
(* Properties *)

Returned == shell = "returned"

TypeOK ==
  /\ buffer \in Seq(Nat) /\ Len(buffer) <= Capacity
  /\ readers \subseteq {"shell", "child"} /\ writers \subseteq {"shell", "child"}
  /\ shell \in {"start", "close_write", "wait", "read", "returned", "exited"}
  /\ child \in {"none", "redirect", "write", "ended"}
  /\ output \in Nat /\ written \in 0 .. output
  /\ status \in Statuses \cup {Killed, NotEnded}
  /\ buff \in Seq(Nat) /\ size \in Nat /\ last \in 0 .. 255

\* The next read() never writes past buff, and a null byte always follows what
\* has been read.
Fits == shell = "read" => Len(buff) + Chunk < size

\* The shell gets everything the command has written, in order, and closes the
\* pipe; nothing is left in it.
TextIsComplete ==
  Returned => /\ buff = [k \in 1 .. written |-> k]
              /\ buffer = <<>> /\ readers = {} /\ writers = {}

\* The substitution leaves the status of its command in "?".
StatusKept == Returned /\ status # Killed => last = status
=============================================================================
