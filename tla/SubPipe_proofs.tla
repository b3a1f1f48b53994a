---------------------------- MODULE SubPipe_proofs -----------------------------
(***************************************************************************)
(* Proofs about $(left | right).  First exec_pipe() on its own: in every   *)
(* interleaving of the shell and its two children, for every capacity of   *)
(* the pipe and every amount of output, the ends of the pipe are held by   *)
(* those who need them and the status is that of the right command.  Then  *)
(* the same in the child of a substitution: get_stdout() gets the bytes    *)
(* and the status that come out of it, whatever the interleaving of the    *)
(* four processes and the capacity of their two pipes.                     *)
(***************************************************************************)
EXTENDS SubPipe, SequenceTheorems, TLAPS

-----------------------------------------------------------------------------
(***************************************************************************)
(* exec_pipe()                                                             *)
(***************************************************************************)
\* Who holds which end.
EndsKept ==
  /\ "shell" \in readers <=> shell \in {"start", "close_write", "wait_left", "close_read"}
  /\ "shell" \in writers <=> shell \in {"start", "close_write"}
  /\ "left" \in readers <=> left = "redirect"
  /\ "left" \in writers <=> left \in {"redirect", "write"}
  /\ "right" \in readers <=> right \in {"read", "eof"}
  /\ "right" \notin writers

\* The children run one behind the other.
InTurn ==
  /\ shell \in {"start", "exited"} => left = "none" /\ right = "none"
  /\ shell \in {"close_write", "wait_left"} => left # "none" /\ right = "none"
  /\ shell \in {"close_read", "wait_right", "returned"} => left = "ended"
  /\ shell = "returned" => right \in {"none", "ended"}

\* A status is there when its process has ended.
Reported ==
  /\ right = "ended" <=> status["right"] # NotEnded
  /\ shell = "returned" => res = IF right = "ended" THEN Result ELSE 1
  /\ shell = "exited" => res = 2

\* Of the bytes 1, 2, ... that have been written those in got come first and
\* the ones in the pipe behind them.
InOrder(out, pipe, n) ==
  /\ n = Len(out) + Len(pipe)
  /\ \A k \in 1 .. Len(out) : out[k] = k
  /\ \A k \in 1 .. Len(pipe) : pipe[k] = Len(out) + k

PipelineInv == TypeOK /\ EndsKept /\ InTurn /\ Reported /\ InOrder(got, buffer, written)

-----------------------------------------------------------------------------
(* What goes through a pipe *)

LEMMA WriteInOrder ==
  ASSUME NEW out \in Seq(Nat), NEW pipe \in Seq(Nat), NEW n \in Nat, InOrder(out, pipe, n)
  PROVE  /\ Append(pipe, n + 1) \in Seq(Nat)
         /\ Len(Append(pipe, n + 1)) = Len(pipe) + 1
         /\ InOrder(out, Append(pipe, n + 1), n + 1)
<1>1. /\ Append(pipe, n + 1) \in Seq(Nat)
      /\ Len(Append(pipe, n + 1)) = Len(pipe) + 1
      /\ \A k \in 1 .. Len(pipe) : Append(pipe, n + 1)[k] = pipe[k]
      /\ Append(pipe, n + 1)[Len(pipe) + 1] = n + 1
  <2>1. n + 1 \in Nat
    OBVIOUS
  <2> QED BY <2>1, AppendProperties
<1>2. Len(pipe) \in Nat /\ Len(out) \in Nat
  BY LenProperties
<1> QED BY <1>1, <1>2 DEF InOrder

LEMMA SuffixFacts ==
  ASSUME NEW s \in Seq(Nat), NEW r \in Nat, r <= Len(s)
  PROVE  /\ SubSeq(s, r + 1, Len(s)) \in Seq(Nat)
         /\ Len(SubSeq(s, r + 1, Len(s))) = Len(s) - r
         /\ \A k \in 1 .. Len(s) - r : SubSeq(s, r + 1, Len(s))[k] = s[r + k]
<1>1. SubSeq(s, r + 1, Len(s)) \in Seq(Nat)
  OBVIOUS
<1>2. Len(SubSeq(s, r + 1, Len(s))) = Len(s) - r
  OBVIOUS
<1>3. ASSUME NEW k \in 1 .. Len(s) - r PROVE SubSeq(s, r + 1, Len(s))[k] = s[r + k]
  OBVIOUS
<1> QED BY <1>1, <1>2, <1>3

LEMMA PrefixFacts ==
  ASSUME NEW s \in Seq(Nat), NEW r \in Nat, r <= Len(s)
  PROVE  /\ SubSeq(s, 1, r) \in Seq(Nat)
         /\ Len(SubSeq(s, 1, r)) = r
         /\ \A k \in 1 .. r : SubSeq(s, 1, r)[k] = s[k]
<1>1. SubSeq(s, 1, r) \in Seq(Nat)
  OBVIOUS
<1>2. Len(SubSeq(s, 1, r)) = r
  OBVIOUS
<1>3. ASSUME NEW k \in 1 .. r PROVE SubSeq(s, 1, r)[k] = s[k]
  OBVIOUS
<1> QED BY <1>1, <1>2, <1>3

\* The first r bytes of the pipe move behind those in out.
LEMMA MovedInOrder ==
  ASSUME NEW out \in Seq(Nat), NEW pipe \in Seq(Nat), NEW n \in Nat, InOrder(out, pipe, n),
         NEW r \in Nat, r <= Len(pipe),
         NEW first \in Seq(Nat), Len(first) = r, \A k \in 1 .. r : first[k] = pipe[k],
         NEW rest \in Seq(Nat), Len(rest) = Len(pipe) - r,
         \A k \in 1 .. Len(pipe) - r : rest[k] = pipe[r + k]
  PROVE  /\ out \o first \in Seq(Nat)
         /\ Len(rest) <= Len(pipe)
         /\ InOrder(out \o first, rest, n)
<1>1. Len(pipe) \in Nat /\ Len(out) \in Nat
  BY LenProperties
<1>2. /\ out \o first \in Seq(Nat) /\ Len(out \o first) = Len(out) + r
      /\ \A k \in 1 .. Len(out) + r : (out \o first)[k] = IF k <= Len(out) THEN out[k] ELSE first[k - Len(out)]
  BY ConcatProperties
<1>3. n = Len(out \o first) + Len(rest)
  BY <1>1, <1>2 DEF InOrder
<1>4. ASSUME NEW k \in 1 .. Len(out \o first) PROVE (out \o first)[k] = k
  <2>1. k \in 1 .. Len(out) + r
    BY <1>2
  <2>2. CASE k <= Len(out)
    BY <1>1, <1>2, <2>1, <2>2 DEF InOrder
  <2>3. CASE k > Len(out)
    <3>1. k - Len(out) \in 1 .. r /\ k - Len(out) \in 1 .. Len(pipe)
      BY <1>1, <2>1, <2>3
    <3>2. first[k - Len(out)] = Len(out) + (k - Len(out))
      BY <3>1 DEF InOrder
    <3> QED BY <1>1, <1>2, <2>1, <2>3, <3>2
  <2> QED BY <1>1, <2>1, <2>2, <2>3
<1>5. ASSUME NEW k \in 1 .. Len(rest) PROVE rest[k] = Len(out \o first) + k
  <2>1. k \in 1 .. Len(pipe) - r /\ r + k \in 1 .. Len(pipe)
    BY <1>1
  <2>2. rest[k] = Len(out) + (r + k)
    BY <2>1 DEF InOrder
  <2> QED BY <1>1, <1>2, <2>1, <2>2
<1>6. Len(rest) <= Len(pipe)
  BY <1>1
<1> QED BY <1>2, <1>3, <1>4, <1>5, <1>6 DEF InOrder

LEMMA ReadInOrder ==
  ASSUME NEW out \in Seq(Nat), NEW pipe \in Seq(Nat), NEW n \in Nat, InOrder(out, pipe, n),
         NEW r \in Nat, r <= Len(pipe)
  PROVE  /\ out \o SubSeq(pipe, 1, r) \in Seq(Nat)
         /\ SubSeq(pipe, r + 1, Len(pipe)) \in Seq(Nat)
         /\ Len(SubSeq(pipe, r + 1, Len(pipe))) <= Len(pipe)
         /\ InOrder(out \o SubSeq(pipe, 1, r), SubSeq(pipe, r + 1, Len(pipe)), n)
<1> DEFINE first == SubSeq(pipe, 1, r)
           rest == SubSeq(pipe, r + 1, Len(pipe))
<1>1. first \in Seq(Nat) /\ Len(first) = r /\ \A k \in 1 .. r : first[k] = pipe[k]
  BY PrefixFacts
<1>2. /\ rest \in Seq(Nat) /\ Len(rest) = Len(pipe) - r
      /\ \A k \in 1 .. Len(pipe) - r : rest[k] = pipe[r + k]
  BY SuffixFacts
<1> HIDE DEF first, rest
<1>3. /\ out \o first \in Seq(Nat)
      /\ Len(rest) <= Len(pipe)
      /\ InOrder(out \o first, rest, n)
  BY <1>1, <1>2, MovedInOrder
<1> QED BY <1>2, <1>3 DEF first, rest

-----------------------------------------------------------------------------
(* Every step of exec_pipe() keeps the invariant *)

Quiet == UNCHANGED <<buffer, written, got>>

LEMMA InitInv == Init => PipelineInv
<1>1. SUFFICES ASSUME Init PROVE PipelineInv
  OBVIOUS
<1>2. TypeOK /\ EndsKept
  BY <1>1, CapacityAssumption, PipelineAssumption, EmptySeq
     DEF Init, TypeOK, EndsKept, Opened, PipelineAssumption, CapacityAssumption, NotEnded, Children
<1>3. InTurn /\ Reported
  BY <1>1 DEF Init, InTurn, Reported, NotEnded, Children
<1>4. InOrder(got, buffer, written)
  BY <1>1 DEF Init, InOrder, Opened
<1> QED BY <1>2, <1>3, <1>4 DEF PipelineInv

\* The steps that move no byte.
LEMMA ShellInv == PipelineInv /\ Shell => PipelineInv'
<1>1. SUFFICES ASSUME PipelineInv, Shell PROVE PipelineInv'
  OBVIOUS
<1>2. Quiet /\ UNCHANGED <<output, status>>
  BY <1>1 DEF Shell, ForkLeft, ForkLeftFails, CloseWriteEnd, ForkRight, ForkRightFails,
     CloseReadEnd, WaitRight, Inherits, CloseBoth, CloseRead, CloseWrite, Quiet
<1>3. InOrder(got, buffer, written)'
  BY <1>1, <1>2 DEF PipelineInv, Quiet, InOrder
<1> USE DEF PipelineInv, Quiet, TypeOK, EndsKept, InTurn, Reported, Children
<1>4. CASE ForkLeft
  BY <1>1, <1>2, <1>3, <1>4 DEF ForkLeft, Inherits
<1>5. CASE ForkLeftFails
  BY <1>1, <1>2, <1>3, <1>5 DEF ForkLeftFails, CloseBoth
<1>6. CASE CloseWriteEnd
  BY <1>1, <1>2, <1>3, <1>6 DEF CloseWriteEnd, CloseWrite
<1>7. CASE ForkRight
  BY <1>1, <1>2, <1>3, <1>7 DEF ForkRight, Inherits
<1>8. CASE ForkRightFails
  BY <1>1, <1>2, <1>3, <1>8 DEF ForkRightFails
<1>9. CASE CloseReadEnd
  BY <1>1, <1>2, <1>3, <1>9 DEF CloseReadEnd, CloseRead
<1>10. CASE WaitRight
  <2>1. Result \in 0 .. 255 \cup {NotEnded} /\ Result' = Result
    <3>1. status["right"] \in Statuses \/ status["right"] = Killed \/ status["right"] = NotEnded
      BY <1>1
    <3>2. status["right"] \in 0 .. 255 \/ status["right"] = Killed \/ status["right"] = NotEnded
      BY <3>1, PipelineAssumption DEF PipelineAssumption
    <3>3. Result \in 0 .. 255 \/ Result = NotEnded
      BY <3>2 DEF Result, ExitStatus
    <3> QED BY <1>2, <3>3 DEF Result
  <2>2. TypeOK'
    <3>1. res' = Result \/ res' = 1
      BY <1>10 DEF WaitRight
    <3>2. res' \in 0 .. 255 \cup {NotEnded}
      BY <2>1, <3>1
    <3>3. /\ UNCHANGED <<buffer, readers, writers, left, right, output, written, got, status>>
          /\ shell' = "returned"
      BY <1>10 DEF WaitRight
    <3> QED BY <1>1, <3>2, <3>3
  <2>3. EndsKept' /\ InTurn'
    BY <1>1, <1>10 DEF WaitRight
  <2>4. Reported'
    BY <1>1, <1>2, <1>10, <2>1 DEF WaitRight
  <2> QED BY <1>3, <2>2, <2>3, <2>4
<1> QED BY <1>1, <1>4, <1>5, <1>6, <1>7, <1>8, <1>9, <1>10 DEF Shell

LEMMA ChildrenInv ==
  PipelineInv /\ (LeftRedirects \/ LeftWrites \/ LeftEnds \/ RightReads \/ RightSeesEof \/ RightEnds)
    => PipelineInv'
<1>1. SUFFICES ASSUME PipelineInv,
                      LeftRedirects \/ LeftWrites \/ LeftEnds \/ RightReads \/ RightSeesEof \/ RightEnds
               PROVE  PipelineInv'
  OBVIOUS
<1>2. /\ got \in Seq(Nat) /\ buffer \in Seq(Nat) /\ written \in Nat
      /\ InOrder(got, buffer, written)
  BY <1>1 DEF PipelineInv, TypeOK
<1>3. CASE LeftRedirects
  <2>1. InOrder(got, buffer, written)'
    BY <1>2, <1>3 DEF LeftRedirects, CloseRead, InOrder
  <2> QED BY <1>1, <1>3, <2>1
          DEF PipelineInv, TypeOK, EndsKept, InTurn, Reported, LeftRedirects, CloseRead, Children, Result
<1>4. CASE LeftWrites
  <2>1. buffer' = Append(buffer, written + 1) /\ written' = written + 1 /\ got' = got
    BY <1>4 DEF LeftWrites, Write
  <2>2. /\ buffer' \in Seq(Nat) /\ Len(buffer') = Len(buffer) + 1
        /\ InOrder(got', buffer', written')
    BY <1>2, <2>1, WriteInOrder
  <2>3. TypeOK'
    BY <1>1, <1>4, <2>1, <2>2, CapacityAssumption
       DEF PipelineInv, TypeOK, LeftWrites, Write, CapacityAssumption
  <2>4. EndsKept' /\ InTurn' /\ Reported'
    BY <1>1, <1>4 DEF PipelineInv, EndsKept, InTurn, Reported, LeftWrites, Write, Result
  <2> QED BY <2>2, <2>3, <2>4 DEF PipelineInv
<1>5. CASE LeftEnds
  <2>1. InOrder(got, buffer, written)'
    BY <1>2, <1>5 DEF LeftEnds, Ended, CloseBoth, InOrder
  <2>2. TypeOK'
    BY <1>1, <1>5 DEF PipelineInv, TypeOK, LeftEnds, Ended, CloseBoth, Children
  <2>3. EndsKept' /\ InTurn'
    BY <1>1, <1>5 DEF PipelineInv, EndsKept, InTurn, LeftEnds, Ended, CloseBoth
  <2>4. status'["right"] = status["right"]
    BY <1>1, <1>5 DEF PipelineInv, TypeOK, LeftEnds, Ended, Children
  <2>5. Reported'
    BY <1>1, <1>5, <2>4 DEF PipelineInv, Reported, LeftEnds, Result
  <2> QED BY <2>1, <2>2, <2>3, <2>5 DEF PipelineInv
<1>6. CASE RightReads
  <2>1. Len(buffer) \in Nat /\ 1 <= Len(buffer)
    <3>1. buffer # <<>>
      BY <1>6 DEF RightReads, ReadInto, Readable
    <3> QED BY <1>2, <3>1, EmptySeq
  <2>2. /\ got' = got \o SubSeq(buffer, 1, 1)
        /\ buffer' = SubSeq(buffer, 1 + 1, Len(buffer)) /\ written' = written
    <3>1. (IF Len(buffer) < 1 THEN Len(buffer) ELSE 1) = 1
      BY <2>1
    <3> QED BY <1>6, <3>1 DEF RightReads, ReadInto
  <2>3. /\ got' \in Seq(Nat) /\ buffer' \in Seq(Nat) /\ Len(buffer') <= Len(buffer)
        /\ InOrder(got', buffer', written')
    BY <1>2, <2>1, <2>2, ReadInOrder
  <2>4. TypeOK'
    <3>1. Len(buffer) <= Capacity /\ Capacity \in Nat /\ Len(buffer') \in Nat
      BY <1>1, <2>3, LenProperties, CapacityAssumption DEF PipelineInv, TypeOK
    <3>2. Len(buffer') <= Capacity
      BY <2>1, <2>3, <3>1
    <3>3. UNCHANGED <<readers, writers, shell, res, left, right, output, written, status>>
      BY <1>6 DEF RightReads, ReadInto
    <3> QED BY <1>1, <2>3, <3>2, <3>3 DEF PipelineInv, TypeOK
  <2>5. EndsKept' /\ InTurn' /\ Reported'
    BY <1>1, <1>6 DEF PipelineInv, EndsKept, InTurn, Reported, RightReads, ReadInto, Result
  <2> QED BY <2>3, <2>4, <2>5 DEF PipelineInv
<1>7. CASE RightSeesEof
  <2>1. InOrder(got, buffer, written)'
    BY <1>2, <1>7 DEF RightSeesEof, InOrder
  <2> QED BY <1>1, <1>7, <2>1
          DEF PipelineInv, TypeOK, EndsKept, InTurn, Reported, RightSeesEof, Result
<1>8. CASE RightEnds
  <2>1. InOrder(got, buffer, written)'
    BY <1>2, <1>8 DEF RightEnds, Ended, CloseBoth, InOrder
  <2>2. TypeOK'
    BY <1>1, <1>8 DEF PipelineInv, TypeOK, RightEnds, Ended, CloseBoth, Children
  <2>3. EndsKept' /\ InTurn'
    BY <1>1, <1>8 DEF PipelineInv, EndsKept, InTurn, RightEnds, Ended, CloseBoth
  <2>4. status'["right"] # NotEnded
    BY <1>1, <1>8, PipelineAssumption
       DEF PipelineInv, TypeOK, RightEnds, Ended, Children, PipelineAssumption, Killed, NotEnded
  <2>5. shell \notin {"returned"} /\ shell' = shell /\ res' = res
    BY <1>1, <1>8 DEF PipelineInv, InTurn, RightEnds
  <2>6. Reported'
    BY <1>1, <1>8, <2>4, <2>5 DEF PipelineInv, Reported, RightEnds
  <2> QED BY <2>1, <2>2, <2>3, <2>6 DEF PipelineInv
<1> QED BY <1>1, <1>3, <1>4, <1>5, <1>6, <1>7, <1>8

LEMMA PipelineStep == PipelineInv /\ [Next]_vars => PipelineInv'
<1>1. PipelineInv /\ UNCHANGED vars => PipelineInv'
  BY DEF vars, PipelineInv, TypeOK, EndsKept, InTurn, Reported, InOrder, Result
<1> QED BY <1>1, ShellInv, ChildrenInv DEF Next

LEMMA PipelineSafe ==
  PipelineInv => TypeOK /\ EndsInOrder /\ ReturnsRight
<1>1. SUFFICES ASSUME PipelineInv PROVE EndsInOrder /\ ReturnsRight
  BY DEF PipelineInv
<1>2. ASSUME left = "write" PROVE readers # {}
  BY <1>1, <1>2 DEF PipelineInv, TypeOK, EndsKept, InTurn
<1>3. ASSUME Returned PROVE readers = {} /\ writers = {}
  BY <1>1, <1>3 DEF PipelineInv, TypeOK, EndsKept, InTurn, Returned, Children
<1>4. ReturnsRight
  BY <1>1 DEF PipelineInv, Reported, ReturnsRight, Returned, Result, ExitStatus
<1> QED BY <1>2, <1>3, <1>4 DEF EndsInOrder

\* exec_pipe() alone: the ends of the pipe are where they have to be and the
\* status is that of the right command, whatever the interleaving.
THEOREM PipelineCorrect == Spec => [](TypeOK /\ EndsInOrder /\ ReturnsRight)
BY InitInv, PipelineStep, PipelineSafe, PTL DEF Spec

-----------------------------------------------------------------------------
(***************************************************************************)
(* The substitution                                                        *)
(***************************************************************************)
TextTypes ==
  /\ textBuffer \in Seq(Nat) /\ buff \in Seq(Nat) /\ copied \in Nat /\ copied <= Len(got)
  /\ textReaders \subseteq {"shell", "child"}
  /\ textWriters \subseteq {"shell", "child", "left", "right"}
  /\ outer \in {"start", "close_write", "wait", "read", "returned", "exited"}
  /\ child \in {"none", "redirect", "write", "ended"}

\* Who holds which end of the pipe of the substitution.
TextEndsKept ==
  /\ "shell" \in textReaders <=> outer \in {"start", "close_write", "wait", "read"}
  /\ "shell" \in textWriters <=> outer \in {"start", "close_write"}
  /\ "child" \in textReaders <=> child = "redirect"
  /\ "child" \in textWriters <=> child \in {"redirect", "write"}
  /\ "left" \in textWriters <=> left \in {"redirect", "write"}
  /\ "right" \in textWriters <=> right \in {"read", "eof"}

\* get_stdout() waits for the child and the child for its pipeline.
OuterInTurn ==
  /\ outer \in {"start", "exited"} => child = "none"
  /\ outer \in {"read", "returned"} => child = "ended"
  /\ child \in {"none", "redirect"} => shell = "start"
  /\ child = "ended" => Done /\ exit = res

\* What get_stdout() has read, and the room for what it reads next.
TextKept ==
  /\ InOrder(buff, textBuffer, copied)
  /\ outer \notin {"read", "returned"} => buff = <<>>
  /\ outer = "read" => size = Len(buff) + Chunk + 1
  /\ outer = "returned" => textBuffer = <<>> /\ last = S!ExitStatus(exit)

TextInv == TextTypes /\ TextEndsKept /\ OuterInTurn /\ TextKept

SubInv == PipelineInv /\ TextInv

LEMMA ChunkFacts == Chunk \in Nat \ {0}
BY SubPipeAssumption DEF S!CommandSubAssumption

-----------------------------------------------------------------------------
\* The pipeline in the child takes its own steps, or none.
LEMMA PipelineSteps == [SubNext]_allVars => [Next]_pipelineVars
<1>1. GetStdout => UNCHANGED pipelineVars
  BY DEF GetStdout
<1>2. Child => [Next]_pipelineVars
  BY DEF Child, ChildPipes, ChildExits, Next, Shell
<1>3. Left => [Next]_pipelineVars
  BY DEF Left, Next
<1>4. Right => [Next]_pipelineVars
  BY DEF Right, RightCopies, Next
<1>5. UNCHANGED allVars => UNCHANGED pipelineVars
  BY DEF allVars
<1> QED BY <1>1, <1>2, <1>3, <1>4, <1>5 DEF SubNext

\* Once it is done, nothing of it changes any more.
LEMMA DoneStays ==
  ASSUME PipelineInv, Done
  PROVE  /\ left \in {"none", "ended"} /\ right \in {"none", "ended"}
         /\ res \in 0 .. 255
<1>1. left \in {"none", "ended"} /\ right \in {"none", "ended"}
  BY DEF PipelineInv, InTurn, Done
<1>2. CASE shell = "exited"
  BY <1>1, <1>2 DEF PipelineInv, Reported
<1>3. CASE shell = "returned"
  <2>1. right = "ended" => status["right"] \in 0 .. 255 \/ status["right"] = Killed
    BY PipelineAssumption DEF PipelineInv, TypeOK, Reported, Children, PipelineAssumption
  <2> QED BY <1>1, <1>3, <2>1 DEF PipelineInv, Reported, Result, ExitStatus
<1> QED BY <1>1, <1>2, <1>3 DEF Done

LEMMA SubInitInv == SubInit => SubInv
<1>1. SUFFICES ASSUME SubInit PROVE TextInv
  BY InitInv DEF SubInit, SubInv
<1>2. TextTypes /\ TextEndsKept /\ OuterInTurn
  BY <1>1, EmptySeq
     DEF SubInit, Init, S!Init, S!Opened, TextTypes, TextEndsKept, OuterInTurn
<1>3. TextKept
  BY <1>1 DEF SubInit, S!Init, S!Opened, TextKept, InOrder
<1> QED BY <1>2, <1>3 DEF TextInv

-----------------------------------------------------------------------------
(* Every step keeps what get_stdout() relies on *)

LEMMA GetStdoutInv == SubInv /\ GetStdout => TextInv'
<1>1. SUFFICES ASSUME SubInv, GetStdout PROVE TextInv'
  OBVIOUS
<1>2. /\ UNCHANGED <<shell, res, left, right, output, written, got, status>>
      /\ TextTypes /\ TextEndsKept /\ OuterInTurn /\ TextKept
      /\ InOrder(buff, textBuffer, copied)
  BY <1>1 DEF SubInv, TextInv, TextKept, GetStdout, pipelineVars, vars
<1>3. CASE S!ForkChild
  <2>1. UNCHANGED <<textBuffer, copied, buff, exit, size, last>>
    BY <1>3 DEF S!ForkChild, S!Inherits
  <2>2. TextTypes' /\ TextEndsKept' /\ OuterInTurn'
    BY <1>2, <1>3, <2>1 DEF S!ForkChild, S!Inherits, TextTypes, TextEndsKept, OuterInTurn
  <2>3. TextKept'
    BY <1>2, <1>3, <2>1 DEF S!ForkChild, TextKept, InOrder
  <2> QED BY <2>2, <2>3 DEF TextInv
<1>4. CASE S!ForkFails
  <2>1. UNCHANGED <<textBuffer, copied, buff, exit, size, last, child>>
    BY <1>4 DEF S!ForkFails, S!CloseBoth
  <2>2. TextTypes' /\ TextEndsKept' /\ OuterInTurn'
    BY <1>2, <1>4, <2>1 DEF S!ForkFails, S!CloseBoth, TextTypes, TextEndsKept, OuterInTurn
  <2>3. TextKept'
    BY <1>2, <1>4, <2>1 DEF S!ForkFails, TextKept, InOrder
  <2> QED BY <2>2, <2>3 DEF TextInv
<1>5. CASE S!CloseWriteEnd
  <2>1. UNCHANGED <<textBuffer, copied, buff, exit, size, last, child>>
    BY <1>5 DEF S!CloseWriteEnd, S!CloseWrite
  <2>2. TextTypes' /\ TextEndsKept' /\ OuterInTurn'
    BY <1>2, <1>5, <2>1 DEF S!CloseWriteEnd, S!CloseWrite, TextTypes, TextEndsKept, OuterInTurn, Done
  <2>3. TextKept'
    BY <1>2, <1>5, <2>1 DEF S!CloseWriteEnd, TextKept, InOrder
  <2> QED BY <2>2, <2>3 DEF TextInv
<1>6. CASE S!WaitChild
  <2>1. UNCHANGED <<textBuffer, textReaders, textWriters, copied, buff, exit, last, child>>
    BY <1>6 DEF S!WaitChild
  <2>2. TextTypes' /\ TextEndsKept' /\ OuterInTurn'
    BY <1>2, <1>6, <2>1 DEF S!WaitChild, TextTypes, TextEndsKept, OuterInTurn, Done
  <2>3. buff = <<>> /\ size' = 0 + Chunk + 1
    BY <1>2, <1>6 DEF S!WaitChild, S!Room, TextKept
  <2>4. TextKept'
    BY <1>2, <1>6, <2>1, <2>3 DEF S!WaitChild, TextKept, InOrder
  <2> QED BY <2>2, <2>4 DEF TextInv
<1>7. CASE S!ReadChunk
  <2> DEFINE r == IF Len(textBuffer) < Chunk THEN Len(textBuffer) ELSE Chunk
  <2>1. /\ UNCHANGED <<textReaders, textWriters, outer, child, copied, exit, last>>
        /\ outer = "read"
        /\ buff' = buff \o SubSeq(textBuffer, 1, r)
        /\ textBuffer' = SubSeq(textBuffer, r + 1, Len(textBuffer))
        /\ size' = Len(buff') + Chunk + 1
    BY <1>7 DEF S!ReadChunk, S!ReadInto, S!Room
  <2>2. r \in Nat /\ r <= Len(textBuffer)
    BY <1>2, ChunkFacts, LenProperties DEF TextTypes
  <2> HIDE DEF r
  <2>3. /\ buff' \in Seq(Nat) /\ textBuffer' \in Seq(Nat)
        /\ InOrder(buff', textBuffer', copied')
    BY <1>2, <2>1, <2>2, ReadInOrder DEF TextTypes
  <2>4. TextTypes' /\ TextEndsKept' /\ OuterInTurn'
    BY <1>2, <2>1, <2>3 DEF TextTypes, TextEndsKept, OuterInTurn, Done
  <2>5. TextKept'
    BY <2>1, <2>3 DEF TextKept
  <2> QED BY <2>4, <2>5 DEF TextInv
<1>8. CASE S!ReturnText
  <2>1. /\ UNCHANGED <<textBuffer, textWriters, copied, buff, exit, size, child>>
        /\ textBuffer = <<>> /\ last' = S!ExitStatus(exit)
        /\ outer = "read" /\ outer' = "returned" /\ textReaders' = textReaders \ {"shell"}
    BY <1>8 DEF S!ReturnText, S!AtEof, S!CloseRead
  <2>2. TextTypes' /\ TextEndsKept' /\ OuterInTurn'
    BY <1>2, <2>1 DEF TextTypes, TextEndsKept, OuterInTurn, Done
  <2>3. TextKept'
    BY <1>2, <2>1 DEF TextKept, InOrder, S!ExitStatus
  <2> QED BY <2>2, <2>3 DEF TextInv
<1> QED BY <1>1, <1>3, <1>4, <1>5, <1>6, <1>7, <1>8 DEF GetStdout, S!Shell

LEMMA ChildStepInv == SubInv /\ Child => TextInv'
<1>1. SUFFICES ASSUME SubInv, Child PROVE TextInv'
  OBVIOUS
<1>2. /\ PipelineInv /\ TextTypes /\ TextEndsKept /\ OuterInTurn /\ TextKept
      /\ InOrder(buff, textBuffer, copied)
  BY <1>1 DEF SubInv, TextInv, TextKept
<1>3. CASE S!ChildRedirects /\ UNCHANGED pipelineVars
  <2>1. /\ UNCHANGED <<shell, res, left, right, got>>
        /\ UNCHANGED <<textBuffer, textWriters, outer, copied, exit, buff, size, last>>
        /\ child = "redirect" /\ child' = "write" /\ textReaders' = textReaders \ {"child"}
    BY <1>3 DEF S!ChildRedirects, S!CloseRead, pipelineVars, vars
  <2>2. TextTypes' /\ TextEndsKept' /\ OuterInTurn'
    BY <1>2, <2>1 DEF TextTypes, TextEndsKept, OuterInTurn
  <2>3. TextKept'
    BY <1>2, <2>1 DEF TextKept, InOrder, S!ExitStatus
  <2> QED BY <2>2, <2>3 DEF TextInv
<1>4. CASE ChildPipes
  <2>1. /\ UNCHANGED <<textBuffer, textReaders, outer, child, copied, exit, buff, size, last>>
        /\ child = "write" /\ UNCHANGED got
    BY <1>2, <1>4 DEF ChildPipes, Text!Inherits, outerVars, textPipe, TextEndsKept,
       ForkLeft, ForkLeftFails, CloseWriteEnd, ForkRight, ForkRightFails, CloseReadEnd, WaitRight
  <2>2. TextTypes' /\ OuterInTurn' /\ TextKept'
    BY <1>2, <1>4, <2>1
       DEF ChildPipes, Text!Inherits, textPipe, TextTypes, OuterInTurn, TextKept, InOrder, S!ExitStatus
  <2>3. TextEndsKept'
    <3>1. CASE ForkLeft /\ Text!Inherits("left", "child")
      BY <1>2, <2>1, <3>1 DEF ForkLeft, Text!Inherits, TextEndsKept
    <3>2. CASE ForkRight /\ Text!Inherits("right", "child")
      BY <1>2, <2>1, <3>2 DEF ForkRight, Text!Inherits, TextEndsKept
    <3>3. CASE /\ ForkLeftFails \/ CloseWriteEnd \/ ForkRightFails \/ CloseReadEnd \/ WaitRight
               /\ UNCHANGED textPipe
      <4>1. UNCHANGED <<left, right>>
        BY <3>3 DEF ForkLeftFails, CloseWriteEnd, ForkRightFails, CloseReadEnd, WaitRight
      <4> QED BY <1>2, <2>1, <3>3, <4>1 DEF textPipe, TextEndsKept
    <3> QED BY <1>4, <3>1, <3>2, <3>3 DEF ChildPipes
  <2> QED BY <2>2, <2>3 DEF TextInv
<1>5. CASE ChildExits
  <2>1. /\ UNCHANGED <<shell, res, left, right, got>>
        /\ UNCHANGED <<textBuffer, outer, copied, buff, size, last>>
        /\ Done /\ child = "write" /\ child' = "ended" /\ exit' = res
        /\ textReaders' = textReaders \ {"child"} /\ textWriters' = textWriters \ {"child"}
    BY <1>5 DEF ChildExits, S!ChildEnds, S!CloseBoth, pipelineVars, vars
  <2>2. TextTypes' /\ TextEndsKept' /\ OuterInTurn'
    BY <1>2, <2>1 DEF TextTypes, TextEndsKept, OuterInTurn, Done
  <2>3. outer # "returned"
    BY <1>2, <2>1 DEF OuterInTurn
  <2>4. TextKept'
    BY <1>2, <2>1, <2>3 DEF TextKept, InOrder
  <2> QED BY <2>2, <2>4 DEF TextInv
<1> QED BY <1>1, <1>3, <1>4, <1>5 DEF Child

LEMMA LeftStepInv == SubInv /\ Left => TextInv'
<1>1. SUFFICES ASSUME SubInv, Left PROVE TextInv'
  OBVIOUS
<1>2. /\ TextTypes /\ TextEndsKept /\ OuterInTurn /\ TextKept
      /\ InOrder(buff, textBuffer, copied)
  BY <1>1 DEF SubInv, TextInv, TextKept
<1>3. /\ UNCHANGED <<shell, res, right, got>>
      /\ UNCHANGED <<textBuffer, outer, child, copied, exit, buff, size, last>>
  BY <1>1 DEF Left, LeftRedirects, LeftWrites, LeftEnds, Text!CloseBoth, outerVars, textPipe
<1>4. TextTypes' /\ OuterInTurn'
  BY <1>1, <1>2, <1>3 DEF Left, Text!CloseBoth, textPipe, TextTypes, OuterInTurn, Done
<1>5. TextEndsKept'
  BY <1>1, <1>2, <1>3
     DEF Left, LeftRedirects, LeftWrites, LeftEnds, Text!CloseBoth, textPipe, TextEndsKept
<1>6. TextKept'
  BY <1>2, <1>3 DEF TextKept, InOrder, S!ExitStatus
<1> QED BY <1>4, <1>5, <1>6 DEF TextInv

LEMMA RightStepInv == SubInv /\ Right => TextInv'
<1>1. SUFFICES ASSUME SubInv, Right PROVE TextInv'
  OBVIOUS
<1>2. /\ TextTypes /\ TextEndsKept /\ OuterInTurn /\ TextKept
      /\ InOrder(buff, textBuffer, copied)
      /\ got \in Seq(Nat)
  BY <1>1 DEF SubInv, TextInv, TextKept, PipelineInv, TypeOK
<1>3. CASE RightCopies
  <2>1. /\ UNCHANGED <<shell, res, left, right, got>>
        /\ UNCHANGED <<textReaders, textWriters, outer, child, exit, buff, size, last>>
        /\ textBuffer' = Append(textBuffer, copied + 1) /\ copied' = copied + 1
        /\ child = "write" /\ copied < Len(got)
    BY <1>3 DEF RightCopies, S!ChildWrites, S!Write, pipelineVars, vars
  <2>2. textBuffer' \in Seq(Nat) /\ InOrder(buff', textBuffer', copied')
    BY <1>2, <2>1, WriteInOrder DEF TextTypes
  <2>3. TextTypes' /\ TextEndsKept' /\ OuterInTurn'
    BY <1>2, <2>1, <2>2, LenProperties DEF TextTypes, TextEndsKept, OuterInTurn, Done
  <2>4. outer \notin {"read", "returned"}
    BY <1>2, <2>1 DEF OuterInTurn
  <2>5. TextKept'
    BY <1>2, <2>1, <2>2, <2>4 DEF TextKept
  <2> QED BY <2>3, <2>5 DEF TextInv
<1>4. CASE (RightReads \/ RightSeesEof) /\ UNCHANGED <<textPipe, outerVars>>
  <2>1. /\ UNCHANGED <<shell, res, left>> /\ UNCHANGED <<textPipe, outerVars>>
        /\ right \in {"read", "eof"} /\ right' \in {"read", "eof"}
    BY <1>4 DEF RightReads, RightSeesEof
  <2>2. Len(got) <= Len(got')
    <3>1. CASE RightSeesEof
      BY <1>2, <3>1, LenProperties DEF RightSeesEof
    <3>2. CASE RightReads
      <4>1. buffer \in Seq(Nat)
        BY <1>1 DEF SubInv, PipelineInv, TypeOK
      <4>2. PICK read \in Seq(Nat) : got' = got \o read
        <5>1. buffer # <<>>
          BY <3>2 DEF RightReads, ReadInto, Readable
        <5>2. Len(buffer) \in Nat /\ 1 <= Len(buffer)
          BY <4>1, <5>1, EmptySeq
        <5>3. (IF Len(buffer) < 1 THEN Len(buffer) ELSE 1) = 1
          BY <5>2
        <5>4. got' = got \o SubSeq(buffer, 1, 1)
          BY <3>2, <5>3 DEF RightReads, ReadInto
        <5> QED BY <4>1, <5>2, <5>4, PrefixFacts
      <4>3. Len(got') = Len(got) + Len(read) /\ Len(read) \in Nat /\ Len(got) \in Nat
        BY <1>2, <4>2, ConcatProperties, LenProperties
      <4> QED BY <4>3
    <3> QED BY <1>4, <3>1, <3>2
  <2>3. Len(got) \in Nat /\ Len(got') \in Nat
    <3>1. got' \in Seq(Nat)
      BY <1>1, <1>4, PipelineStep DEF SubInv, PipelineInv, TypeOK, Next
    <3> QED BY <1>2, <3>1, LenProperties
  <2>4. TextTypes'
    BY <1>2, <2>1, <2>2, <2>3 DEF TextTypes, textPipe, outerVars
  <2>5. TextEndsKept' /\ OuterInTurn'
    BY <1>2, <2>1 DEF TextEndsKept, OuterInTurn, Done, textPipe, outerVars
  <2>6. TextKept'
    BY <1>2, <2>1 DEF TextKept, InOrder, S!ExitStatus, textPipe, outerVars
  <2> QED BY <2>4, <2>5, <2>6 DEF TextInv
<1>5. CASE RightEnds /\ Text!CloseBoth("right") /\ UNCHANGED outerVars
  <2>1. /\ UNCHANGED <<shell, res, left, got>> /\ UNCHANGED <<textBuffer, outerVars>>
        /\ right \in {"read", "eof"} /\ right' = "ended"
        /\ textReaders' = textReaders \ {"right"} /\ textWriters' = textWriters \ {"right"}
    BY <1>5 DEF RightEnds, Text!CloseBoth
  <2>2. TextTypes' /\ TextEndsKept' /\ OuterInTurn'
    BY <1>2, <2>1 DEF TextTypes, TextEndsKept, OuterInTurn, Done, outerVars
  <2>3. TextKept'
    BY <1>2, <2>1 DEF TextKept, InOrder, S!ExitStatus, outerVars
  <2> QED BY <2>2, <2>3 DEF TextInv
<1> QED BY <1>1, <1>3, <1>4, <1>5 DEF Right

LEMMA SubStep == SubInv /\ [SubNext]_allVars => SubInv'
<1>1. SUFFICES ASSUME SubInv, [SubNext]_allVars PROVE PipelineInv' /\ TextInv'
  BY DEF SubInv
<1>2. PipelineInv'
  BY <1>1, PipelineSteps, PipelineStep DEF SubInv, pipelineVars
<1>3. CASE UNCHANGED allVars
  <2>1. /\ UNCHANGED <<shell, res, left, right, got, textBuffer, textReaders, textWriters>>
        /\ UNCHANGED <<outer, child, copied, exit, buff, size, last>>
    BY <1>3 DEF allVars, pipelineVars, vars, textPipe, outerVars
  <2>2. TextTypes' /\ TextEndsKept' /\ OuterInTurn'
    BY <1>1, <2>1 DEF SubInv, TextInv, TextTypes, TextEndsKept, OuterInTurn, Done
  <2>3. TextKept'
    BY <1>1, <2>1 DEF SubInv, TextInv, TextKept, InOrder, S!ExitStatus
  <2> QED BY <1>2, <2>2, <2>3 DEF TextInv
<1> QED BY <1>1, <1>2, <1>3, GetStdoutInv, ChildStepInv, LeftStepInv, RightStepInv DEF SubNext

-----------------------------------------------------------------------------
LEMMA TextRight == SubInv => Fits /\ TextIsComplete
<1>1. SUFFICES ASSUME SubInv PROVE Fits /\ TextIsComplete
  OBVIOUS
<1>2. /\ PipelineInv /\ TextTypes /\ TextEndsKept /\ OuterInTurn /\ TextKept
      /\ InOrder(buff, textBuffer, copied) /\ InOrder(got, buffer, written)
  BY <1>1 DEF SubInv, TextInv, TextKept, PipelineInv
<1>3. Len(buff) \in Nat
  BY <1>2, LenProperties DEF TextTypes
<1>4. Fits
  BY <1>2, <1>3, ChunkFacts DEF Fits, S!Fits, TextKept
<1>5. ASSUME HasReturned
      PROVE  /\ buff = [k \in 1 .. copied |-> k] /\ textBuffer = <<>>
             /\ textReaders = {} /\ textWriters = {}
             /\ buff = SubSeq(got, 1, copied)
  <2>1. outer = "returned" /\ child = "ended" /\ Done /\ textBuffer = <<>>
    BY <1>2, <1>5 DEF HasReturned, OuterInTurn, TextKept
  <2>2. textReaders = {} /\ textWriters = {}
    BY <1>2, <2>1, DoneStays DEF TextTypes, TextEndsKept
  <2>3. Len(buff) = copied /\ \A k \in 1 .. copied : buff[k] = k
    BY <1>2, <1>3, <2>1 DEF InOrder
  <2>4. buff = [k \in 1 .. copied |-> k]
    <3>1. buff \in [1 .. copied -> Nat]
      BY <1>2, <2>3, LenProperties DEF TextTypes
    <3> QED BY <2>3, <3>1
  <2>5. buff = SubSeq(got, 1, copied)
    <3> DEFINE first == SubSeq(got, 1, copied)
    <3>1. got \in Seq(Nat) /\ copied \in Nat /\ copied <= Len(got)
      BY <1>2 DEF PipelineInv, TypeOK, TextTypes
    <3>2. /\ first \in Seq(Nat) /\ Len(first) = copied
          /\ \A k \in 1 .. copied : first[k] = got[k]
      BY <3>1, PrefixFacts
    <3> HIDE DEF first
    <3>3. \A k \in 1 .. copied : first[k] = k
      <4>1. Len(got) \in Nat
        BY <3>1, LenProperties
      <4>2. \A k \in 1 .. Len(got) : got[k] = k
        BY <1>2 DEF InOrder
      <4>3. \A k \in 1 .. copied : k \in 1 .. Len(got)
        BY <3>1, <4>1
      <4> QED BY <3>2, <4>2, <4>3
    <3>4. first \in [1 .. copied -> Nat]
      BY <3>2, LenProperties
    <3>5. first = [k \in 1 .. copied |-> k]
      BY <3>3, <3>4
    <3> QED BY <2>4, <3>5 DEF first
  <2> QED BY <2>1, <2>2, <2>4, <2>5
<1>6. TextIsComplete
  BY <1>2, <1>5 DEF TextIsComplete, S!TextIsComplete, S!Returned, HasReturned, TextTypes
<1> QED BY <1>4, <1>6

LEMMA StatusRight == SubInv => StatusIsRight
<1>1. SUFFICES ASSUME SubInv, HasReturned, status["right"] \notin {NotEnded, Killed}
               PROVE  last = status["right"]
  BY DEF StatusIsRight
<1>2. Done /\ exit = res /\ last = S!ExitStatus(exit)
  BY <1>1 DEF SubInv, TextInv, OuterInTurn, TextKept, HasReturned
<1>3. right = "ended"
  BY <1>1 DEF SubInv, PipelineInv, Reported
<1>4. shell = "returned"
  BY <1>1, <1>2, <1>3 DEF SubInv, PipelineInv, InTurn, Done
<1>5. res = status["right"]
  BY <1>1, <1>3, <1>4 DEF SubInv, PipelineInv, Reported, Result, ExitStatus
<1> QED BY <1>1, <1>2, <1>5 DEF S!ExitStatus, S!Killed, Killed

LEMMA SubSafe == SubSpec => []SubInv
BY SubInitInv, SubStep, PTL DEF SubSpec

\* The pipeline that runs in a substitution is well typed: its result and the
\* statuses of its commands are those of processes.
THEOREM SubTypeCorrect == SubSpec => []TypeOK
<1>1. SubInv => TypeOK
  BY PipelineSafe DEF SubInv
<1> QED BY <1>1, SubSafe, PTL

\* No end of the pipe of a pipeline stays open and its left command never writes
\* to a pipe that nobody reads, in the child of a substitution.
THEOREM SubEndsCorrect == SubSpec => []EndsInOrder
<1>1. SubInv => EndsInOrder
  BY PipelineSafe DEF SubInv
<1> QED BY <1>1, SubSafe, PTL

\* get_stdout() never writes past its buffer.
THEOREM SubRoomCorrect == SubSpec => []Fits
BY SubSafe, TextRight, PTL

\* get_stdout() gives every byte that the right command has written, in order,
\* and leaves no end of its pipe open.
THEOREM SubTextCorrect == SubSpec => []TextIsComplete
BY SubSafe, TextRight, PTL

\* "?" is the status of the right command when the substitution is over.
THEOREM SubStatusCorrect == SubSpec => []StatusIsRight
BY SubSafe, StatusRight, PTL
================================================================================
