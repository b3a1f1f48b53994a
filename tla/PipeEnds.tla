------------------------------- MODULE PipeEnds -------------------------------
(***************************************************************************)
(* One pipe of the kernel, as exec_pipe() and get_stdout() use it: bytes   *)
(* come out in the order they went in, at most Capacity of them are kept,  *)
(* and end of file is read when no process holds the writing end any more. *)
(* fork() gives the child every end that its parent holds.                 *)
(***************************************************************************)
EXTENDS Integers, Sequences

CONSTANT Capacity

ASSUME CapacityAssumption == Capacity \in Nat \ {0}

VARIABLES
  buffer,    \* the bytes in the pipe
  readers,   \* the processes that hold the reading end
  writers    \* the processes that hold the writing end

pipeVars == <<buffer, readers, writers>>

\* After pipe(), called by p.
Opened(p) == buffer = <<>> /\ readers = {p} /\ writers = {p}

Inherits(child, parent) ==
  /\ readers' = IF parent \in readers THEN readers \cup {child} ELSE readers
  /\ writers' = IF parent \in writers THEN writers \cup {child} ELSE writers
  /\ UNCHANGED buffer

CloseRead(p) == readers' = readers \ {p} /\ UNCHANGED <<buffer, writers>>
CloseWrite(p) == writers' = writers \ {p} /\ UNCHANGED <<buffer, readers>>

\* The end of a process closes both ends.
CloseBoth(p) ==
  readers' = readers \ {p} /\ writers' = writers \ {p} /\ UNCHANGED buffer

\* write(): blocks while the pipe is full (without a reader, SIGPIPE ends the
\* writer).
Write(byte) ==
  /\ readers # {} /\ Len(buffer) < Capacity
  /\ buffer' = Append(buffer, byte)
  /\ UNCHANGED <<readers, writers>>

\* read() of at most n bytes: blocks while the pipe is empty but for writers.
Readable == buffer # <<>>
AtEof == buffer = <<>> /\ writers = {}
ReadInto(n, got) ==
  LET r == IF Len(buffer) < n THEN Len(buffer) ELSE n IN
  /\ Readable
  /\ got' = got \o SubSeq(buffer, 1, r)
  /\ buffer' = SubSeq(buffer, r + 1, Len(buffer))
  /\ UNCHANGED <<readers, writers>>
=============================================================================
