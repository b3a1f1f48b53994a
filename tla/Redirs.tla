-------------------------------- MODULE Redirs --------------------------------
(***************************************************************************)
(* Redirections: exec_redirs() with apply_redir() and unapply_redir()      *)
(* (execution/redir.c), over the descriptor table of one process.  The     *)
(* command run under redirections may itself run exec_redirs(): calls is   *)
(* the stack of the activations.  The child processes that commands fork   *)
(* have tables of their own and are not modelled.                          *)
(***************************************************************************)
EXTENDS Integers, Sequences, FiniteSets

CONSTANTS
  MaxFd,      \* the highest descriptor the process may have
  Closed,     \* what the table holds for a descriptor that is not open
  File,       \* the files
  Starts,     \* descriptor tables that the process may start with and, with each,
              \* the lists of redirections that the script is written with
  MaxCalls,   \* bound: how deep exec_redirs() is re-entered
  MaxLeft     \* bound: how often redirections are left applied before no other
              \* command is redirected

Fd == 0 .. MaxFd

\* A redirection: kind "file" (> >> >| < <>) opens file in the place of io;
\* "dup" (>&) makes io a copy of the descriptor from, "malformed" is a >& with a
\* word that is no digit, "other" an operator apply_redir() has no case for.
Redirection == [kind : {"file", "dup", "malformed", "other"}, io : Nat,
                file : File, from : 0 .. 9]

\* A list of redirections is never empty.
ASSUME RedirsAssumption ==
  /\ MaxFd \in Nat /\ MaxCalls \in Nat /\ MaxLeft \in Nat /\ Closed \notin File
  /\ \A s \in Starts : /\ s.fds \in [Fd -> File \cup {Closed}]
                       /\ s.lists \subseteq Seq(Redirection) \ {<<>>}

VARIABLES
  start,   \* what the process started with, for good
  fds,     \* the descriptor table: the file each descriptor is open on
  badf,    \* whether errno holds EBADF
  left,    \* history: how often exec_redirs() has left redirections applied because
           \* is_valid_fd() refused an open descriptor
  calls,   \* the activations of exec_redirs(), the innermost last
  ended    \* whether the process has exited

vars == <<start, fds, badf, left, calls, ended>>

Top == calls[Len(calls)]
WithTop(c) == [calls EXCEPT ![Len(calls)] = c]
Active(pc) == ~ended /\ calls # <<>> /\ Top.pc = pc

\* The redirection to apply next, the struct redir_info to undo next.
Redir == Top.list[Len(Top.infos) + 1]
Info == Top.infos[Top.undone + 1]

IsOpen(d) == d \in Fd /\ fds[d] # Closed

\* A plausible bug: no look at the descriptors in between.
LowestNext(table) ==
  1 + CHOOSE d \in Fd : table[d] # Closed /\ \A e \in Fd : table[e] # Closed => e <= d

Free(table) == {d \in Fd : table[d] = Closed}

\* The descriptor that open() and dup() return, -1 when there is none left.
LowestFree(table) ==
  IF Free(table) = {} THEN -1 ELSE CHOOSE d \in Free(table) : \A e \in Free(table) : d <= e

\* dup(d).
Dup(table, d) ==
  IF d \in Fd /\ table[d] # Closed THEN LowestFree(table) ELSE -1

\* What dup(from), put at temp, leaves in the table.
DupTo(table, from, temp) ==
  IF temp = -1 THEN table ELSE [table EXCEPT ![temp] = table[from]]

Exit == ended' = TRUE /\ UNCHANGED <<start, fds, badf, left, calls>>

\* The next redirection or, after the last one, the command.
Applied(io, temp, file) ==
  LET infos == Append(Top.infos, [io |-> io, temp |-> temp, file |-> file]) IN
  calls' = WithTop([Top EXCEPT
             !.infos = infos,
             !.pc = IF Len(infos) = Len(Top.list) THEN "eval" ELSE "apply"])
-----------------------------------------------------------------------------
(* The operations *)

\* exec_redirs() is called by a command that is evaluated, in the shell or
\* under the redirections of another one.
ExecRedirs(list) ==
  /\ ~ended /\ Len(calls) < MaxCalls /\ left < MaxLeft
  /\ calls # <<>> => Top.pc = "eval"
  /\ calls' = Append(calls, [list |-> list, infos |-> <<>>, undone |-> 0,
                             pc |-> "apply", before |-> fds])
  /\ UNCHANGED <<start, fds, badf, left, ended>>

\* A plausible bug: the descriptor is saved once it has been redirected.
SavedLate ==
  LET file == LowestFree(fds)
      opened == [fds EXCEPT ![file] = Redir.file]
      moved == [opened EXCEPT ![Redir.io] = Redir.file]
      temp == Dup(moved, Redir.io)
  IN
  /\ Active("apply") /\ Redir.kind = "file" /\ Redir.io \in Fd /\ file # -1
  /\ fds' = DupTo(moved, Redir.io, temp)
  /\ badf' = (badf \/ temp = -1)
  /\ Applied(Redir.io, temp, file)
  /\ UNCHANGED <<start, left, ended>>

\* fopen(), dup(io_number), dup2(file_fd, io_number).  temp_fd is -1 when there
\* was nothing to save, or no descriptor left to save it in.
ApplyFile ==
  LET file == LowestFree(fds)
      opened == [fds EXCEPT ![file] = Redir.file]
      temp == Dup(opened, Redir.io)
      saved == DupTo(opened, Redir.io, temp)
  IN
  /\ Active("apply") /\ Redir.kind = "file" /\ Redir.io \in Fd /\ file # -1
  /\ fds' = [saved EXCEPT ![Redir.io] = Redir.file]
  /\ badf' = (badf \/ temp = -1)       \* fcntl(-1, F_SETFD)
  /\ Applied(Redir.io, temp, file)
  /\ UNCHANGED <<start, left, ended>>

\* is_valid_fd(): fcntl() succeeds and errno, which a success leaves alone, is
\* not EBADF.
IsValidFd(d) == IsOpen(d) /\ ~badf

\* A plausible bug: the copy goes the wrong way.
ApplyDupSwapped ==
  LET temp == Dup(fds, Redir.io) IN
  /\ Active("apply") /\ Redir.kind = "dup" /\ IsValidFd(Redir.from) /\ temp # -1
  /\ fds' = [DupTo(fds, Redir.io, temp) EXCEPT ![Redir.from] = fds[Redir.io]]
  /\ Applied(Redir.io, temp, -1)
  /\ UNCHANGED <<start, badf, left, ended>>

ApplyDup ==
  LET temp == Dup(fds, Redir.io) IN
  /\ Active("apply") /\ Redir.kind = "dup" /\ IsValidFd(Redir.from) /\ temp # -1
  /\ fds' = [DupTo(fds, Redir.io, temp) EXCEPT ![Redir.io] = fds[Redir.from]]
  /\ Applied(Redir.io, temp, -1)
  /\ UNCHANGED <<start, badf, left, ended>>

\* exec_redirs() returns 2 at once: what it has applied stays applied.
BadFd ==
  /\ Active("apply") /\ Redir.kind = "dup" /\ ~IsValidFd(Redir.from)
  /\ calls' = SubSeq(calls, 1, Len(calls) - 1)
  /\ badf' = TRUE
  /\ left' = IF IsOpen(Redir.from) /\ Top.infos # <<>> THEN left + 1 ELSE left
  /\ UNCHANGED <<start, fds, ended>>

\* err(), errx() and exit(): a word that is no digit, an operator without a
\* case, a file that cannot be opened, a dup() or a dup2() that fails.
ApplyExits ==
  /\ Active("apply")
  /\ \/ Redir.kind \in {"malformed", "other", "file"}
     \/ Redir.kind = "dup" /\ IsValidFd(Redir.from) /\ Dup(fds, Redir.io) = -1
  /\ Exit

\* The command returns; a failed system call in it may have changed errno, to
\* EBADF as well: the fflush() of echo with a standard output that is read-only.
Evaluated ==
  /\ Active("eval")
  /\ calls' = WithTop([Top EXCEPT !.pc = "undo"])
  /\ badf' \in BOOLEAN
  /\ UNCHANGED <<start, fds, left, ended>>

CommandExits == Active("eval") /\ Exit

\* A plausible bug: the saved descriptor is not closed.
UndoneKeeps(info) ==
  LET back == IF info.temp = -1 THEN fds
              ELSE [fds EXCEPT ![info.io] = fds[info.temp]]
  IN  IF info.file = -1 THEN back ELSE [back EXCEPT ![info.file] = Closed]

\* A plausible bug: the redirected descriptor is closed, not the saved one.
UndoneCloses(info) ==
  LET back == IF info.temp = -1 THEN fds
              ELSE [fds EXCEPT ![info.io] = Closed]
  IN  IF info.file = -1 THEN back ELSE [back EXCEPT ![info.file] = Closed]

\* What one unapply_redir() leaves in the table.
Undone(info) ==
  LET back == IF info.temp = -1 THEN fds
              ELSE [fds EXCEPT ![info.io] = fds[info.temp],
                               ![info.temp] = Closed]
  IN  IF info.file = -1 THEN back ELSE [back EXCEPT ![info.file] = Closed]

\* unapply_redir(), from the first redirection to the last, after which
\* exec_redirs() returns.  No system call in it fails: see SavedOpen.
UnapplyRedir ==
  /\ Active("undo")
  /\ fds' = Undone(Info)
  /\ calls' = IF Top.undone + 1 = Len(Top.infos)
              THEN SubSeq(calls, 1, Len(calls) - 1)
              ELSE WithTop([Top EXCEPT !.undone = @ + 1])
  /\ UNCHANGED <<start, badf, left, ended>>

\* parse_input() resets errno for the next line.
NextLine ==
  /\ ~ended /\ calls = <<>>
  /\ badf' = FALSE
  /\ UNCHANGED <<start, fds, left, calls, ended>>
-----------------------------------------------------------------------------
Init ==
  /\ start \in Starts /\ fds = start.fds
  /\ badf = FALSE /\ left = 0 /\ calls = <<>> /\ ended = FALSE

Step == \/ \E list \in start.lists : ExecRedirs(list)
        \/ ApplyFile \/ ApplyDup \/ BadFd \/ ApplyExits
        \/ Evaluated \/ CommandExits \/ UnapplyRedir

Next == Step \/ NextLine

\* The process is sequential and fork(), exec() and wait() return.
Fairness == WF_vars(Step)

Spec == Init /\ [][Next]_vars /\ Fairness
-----------------------------------------------------------------------------
(* Properties *)

Table == [Fd -> File \cup {Closed}]
RedirInfo == [io : Fd, temp : Fd \cup {-1}, file : Fd \cup {-1}]
Call == [list : start.lists, infos : Seq(RedirInfo), undone : Nat,
         pc : {"apply", "eval", "undo"}, before : Table]

\* Every call has applied a prefix of its list and undone a prefix of that.
TypeOK ==
  /\ fds \in Table
  /\ badf \in BOOLEAN /\ left \in Nat /\ ended \in BOOLEAN
  /\ calls \in Seq(Call)
  /\ \A k \in 1 .. Len(calls) :
       LET c == calls[k] IN
       /\ c.pc = "apply" <=> Len(c.infos) < Len(c.list)
       /\ IF c.pc = "undo" THEN c.undone < Len(c.infos) ELSE c.undone = 0
       /\ Len(c.infos) <= Len(c.list)
       /\ k < Len(calls) => c.pc = "eval"

\* What the table is to be after one redirection, and the tables that those of
\* a list stand for, read from left to right, when a command starts with the
\* table before.
Redirected(table, r) ==
  [table EXCEPT ![r.io] = IF r.kind = "file" THEN r.file ELSE table[r.from]]
Meaning(before, list) ==
  LET m[k \in 0 .. Len(list)] ==
        IF k = 0 THEN before ELSE Redirected(m[k - 1], list[k])
  IN  m

\* The commands redirect standard descriptors, each once; the shell started
\* with these open and with descriptors enough: two for each redirection.
Standard(list) ==
  /\ \A k \in DOMAIN list : list[k].io \in 0 .. 2 /\ (list[k].kind = "dup" => list[k].from \in 0 .. 2)
  /\ \A j, k \in DOMAIN list : list[j].io = list[k].io => j = k
StandardOpen(table) == \A d \in 0 .. 2 : d \in Fd /\ table[d] # Closed
Undisturbed ==
  /\ \A list \in start.lists : Standard(list)
  /\ StandardOpen(start.fds)
  /\ Cardinality(Free(start.fds)) >= 6 * MaxCalls

\* A command sees the standard descriptors that its redirections stand for,
\* also when commands inside it have redirected them in the meantime; until a
\* stale EBADF has exec_redirs() leave redirections applied.
CommandSees ==
  Active("eval") /\ Undisturbed /\ left = 0 =>
    \A d \in 0 .. 2 : fds[d] = Meaning(Top.before, Top.list)[Len(Top.list)][d]

\* Whatever runs meanwhile, a saved descriptor keeps the file that has to be
\* put back.
SavedKept ==
  Undisturbed => \A k \in 1 .. Len(calls) :
    \A j \in calls[k].undone + 1 .. Len(calls[k].infos) :
      LET info == calls[k].infos[j] IN
      info.temp # -1 =>
        fds[info.temp] = Meaning(calls[k].before, calls[k].list)[j - 1][info.io]

\* The descriptors that unapply_redir() is going to read or close are open, and
\* no two are the same, whatever descriptors the redirections name.
SavedOpen ==
  \A k, l \in 1 .. Len(calls) :
    \A i \in calls[k].undone + 1 .. Len(calls[k].infos),
       j \in calls[l].undone + 1 .. Len(calls[l].infos) :
      LET a == calls[k].infos[i]
          b == calls[l].infos[j]
      IN /\ a.temp # -1 => IsOpen(a.temp)
         /\ a.file # -1 => IsOpen(a.file)
         /\ <<k, i>> # <<l, j>> =>
              {a.temp, a.file} \cap {b.temp, b.file} \subseteq {-1}

\* exec_redirs() leaves the descriptor table as it found it: nothing stays
\* redirected and no descriptor is left open, on every path that returns but
\* the one that leaves redirections applied, and until that one is taken.
Restored ==
  [][Len(calls') < Len(calls) /\ Undisturbed /\ left' = 0 => fds' = Top.before]_vars
=============================================================================
