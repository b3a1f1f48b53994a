------------------------------- MODULE SubPipe -------------------------------
(***************************************************************************)
(* $(left | right): get_stdout() forks a child, the child evaluates a      *)
(* pipeline with exec_pipe() and exits with its status.  Four processes    *)
(* and two pipes: the "shell" of Pipeline is the child here, and           *)
(* CommandSub the shell that forked it.  The right command copies what it  *)
(* reads to its standard output, which is the pipe of the substitution;    *)
(* left and right inherit that pipe from the child and never close it.     *)
(***************************************************************************)
EXTENDS Pipeline

CONSTANT Chunk   \* the most bytes get_stdout() asks for in one read()

VARIABLES
  textBuffer, textReaders, textWriters,   \* the pipe of the substitution
  outer,     \* where the shell is in get_stdout()
  child,     \* where the child is
  copied,    \* how many bytes have been written to the pipe of the substitution
  exit,      \* the exit status of the child, NotEnded before
  buff,      \* the bytes get_stdout() has read
  size,      \* the allocated size of its buffer
  last       \* the shell variable "?"

textPipe == <<textBuffer, textReaders, textWriters>>
outerVars == <<outer, child, copied, exit, buff, size, last>>
pipelineVars == vars
allVars == <<pipelineVars, textPipe, outerVars>>

S == INSTANCE CommandSub WITH
  buffer <- textBuffer, readers <- textReaders, writers <- textWriters,
  shell <- outer, written <- copied, status <- exit,
  Statuses <- Statuses \cup {1, 2}   \* what exec_pipe() makes up itself

Text == INSTANCE PipeEnds WITH
  buffer <- textBuffer, readers <- textReaders, writers <- textWriters

ASSUME SubPipeAssumption == S!CommandSubAssumption
-----------------------------------------------------------------------------
\* exec_pipe() in the child; both forks inherit the pipe of the substitution.
ChildPipes ==
  /\ child = "write"
  /\ \/ ForkLeft /\ Text!Inherits("left", "child")
     \/ ForkRight /\ Text!Inherits("right", "child")
     \/ /\ \/ ForkLeftFails \/ CloseWriteEnd \/ ForkRightFails
           \/ CloseReadEnd \/ WaitRight
        /\ UNCHANGED textPipe
  /\ UNCHANGED outerVars

\* exit() with what exec_pipe() has returned, or has already exited with.
ChildExits ==
  /\ Done /\ S!ChildEnds /\ exit' = res
  /\ UNCHANGED pipelineVars

Child == \/ S!ChildRedirects /\ UNCHANGED pipelineVars
         \/ ChildPipes \/ ChildExits

GetStdout == S!Shell /\ UNCHANGED pipelineVars

Left == \/ (LeftRedirects \/ LeftWrites) /\ UNCHANGED <<textPipe, outerVars>>
        \/ LeftEnds /\ Text!CloseBoth("left") /\ UNCHANGED outerVars

RightCopies ==
  /\ right \in {"read", "eof"} /\ copied < Len(got)
  /\ S!ChildWrites
  /\ UNCHANGED pipelineVars

Right == \/ RightCopies
         \/ (RightReads \/ RightSeesEof) /\ UNCHANGED <<textPipe, outerVars>>
         \/ RightEnds /\ Text!CloseBoth("right") /\ UNCHANGED outerVars

SubInit == Init /\ S!Init
SubNext == GetStdout \/ Child \/ Left \/ Right

\* Every process is scheduled; the commands do all they can, then end.
LeftEager == Left /\ (left' = "ended" => written = output)
RightEager == Right /\ (right' = "ended" => right = "eof" /\ copied = Len(got))

SubSpec == /\ SubInit /\ [][SubNext]_allVars
           /\ WF_allVars(GetStdout) /\ WF_allVars(Child)
           /\ WF_allVars(LeftEager) /\ WF_allVars(RightEager)
-----------------------------------------------------------------------------
(* Properties *)

HasReturned == outer = "returned"

\* The next read() of get_stdout() never writes past its buffer.
Fits == S!Fits

\* What the substitution gives is what the right command has written, byte by
\* byte, which is what it has read of the left command's bytes, in their order;
\* no end of the pipe is left open, in left and right either.
TextIsComplete ==
  /\ S!TextIsComplete
  /\ HasReturned => copied <= Len(got) /\ buff = SubSeq(got, 1, copied)

\* "?" is the status of the right command, through two processes.
StatusIsRight ==
  HasReturned /\ status["right"] \notin {NotEnded, Killed} => last = status["right"]

\* The substitution comes to an end.
SubTerminates == <>(outer \in {"returned", "exited"})
=============================================================================
