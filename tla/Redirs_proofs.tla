---------------------------- MODULE Redirs_proofs ----------------------------
(***************************************************************************)
(* What exec_redirs() keeps, for every descriptor table, every list of     *)
(* redirections and any depth of commands.  RedirInv, in the first part,   *)
(* holds of every process: the descriptors unapply_redir() will close are  *)
(* open and belong to one call (SavedCorrect).  The other parts are about  *)
(* processes that start undisturbed.  TidyInv is what such a process keeps *)
(* until a stale EBADF has redirections left applied: a command sees what  *)
(* its redirections stand for (CommandsSeeTheirs), and the whole table is  *)
(* back when the call returns (RedirsUndone).  KeepInv is what it keeps    *)
(* then as well: what is saved stays what it was (SavedIsKept).            *)
(***************************************************************************)
EXTENDS Redirs, FiniteSetTheorems, WellFoundedInduction, TLAPS

\* The start is one of Starts, and SavedOpen is kept along with the types:
\* a descriptor that is to be closed is closed by one call only.
StartOK == start.lists \subseteq Seq(Redirection) \ {<<>>} /\ start.fds \in Table
RedirInv == StartOK /\ TypeOK /\ SavedOpen

-----------------------------------------------------------------------------
(***************************************************************************)
(* Descriptors                                                             *)
(***************************************************************************)
\* open() and dup() give a descriptor of the table that was not open, or none.
LEMMA LowestFreeIsFree ==
  ASSUME NEW table \in Table
  PROVE  \/ LowestFree(table) = -1
         \/ LowestFree(table) \in Fd /\ table[LowestFree(table)] = Closed
<1> DEFINE free == Free(table)
<1>1. CASE free = {}
  BY <1>1 DEF LowestFree
<1>2. CASE free # {}
  <2>1. \E d \in free : \A e \in free : d <= e
    <3>1. free \subseteq Nat
      BY RedirsAssumption DEF Fd, Free
    <3>2. PICK d \in free : \A e \in free : <<e, d>> \notin OpToRel(<, Nat)
      BY <3>1, <1>2, NatLessThanWellFounded, WFMin, Zenon
    <3>3. \A e \in free : ~(e < d)
      BY <3>1, <3>2, Zenon DEF OpToRel
    <3>4. \A e \in free : d <= e
      BY <3>1, <3>3
    <3> QED BY <3>4
  <2> QED BY <2>1, <1>2 DEF LowestFree, Free
<1> QED BY <1>1, <1>2

-----------------------------------------------------------------------------
(***************************************************************************)
(* The calls                                                               *)
(***************************************************************************)
\* What TypeOK says of one call, and of its place in the stack.
CallOK(c) ==
  /\ c.pc = "apply" <=> Len(c.infos) < Len(c.list)
  /\ IF c.pc = "undo" THEN c.undone < Len(c.infos) ELSE c.undone = 0
  /\ Len(c.infos) <= Len(c.list)

LEMMA TopIsCall ==
  ASSUME RedirInv, calls # <<>>
  PROVE  Len(calls) \in Nat \ {0} /\ Top = calls[Len(calls)] /\ Top \in Call /\ CallOK(Top)
BY DEF RedirInv, TypeOK, Top, CallOK

\* A stack without its top.
LEMMA FrontFacts ==
  ASSUME NEW S, NEW s \in Seq(S), s # <<>>
  PROVE  /\ SubSeq(s, 1, Len(s) - 1) \in Seq(S) /\ Len(SubSeq(s, 1, Len(s) - 1)) = Len(s) - 1
         /\ \A k \in 1 .. Len(s) - 1 : SubSeq(s, 1, Len(s) - 1)[k] = s[k]
<1>1. Len(s) \in Nat /\ Len(s) > 0
  OBVIOUS
<1>2. PICK n \in Nat : n = Len(s) - 1
  BY <1>1
<1>3. \A k \in 1 .. n : s[k] \in S
  BY <1>1, <1>2
<1>4. /\ SubSeq(s, 1, n) \in Seq(S) /\ Len(SubSeq(s, 1, n)) = n
      /\ \A k \in 1 .. n : SubSeq(s, 1, n)[k] = s[k]
  BY <1>3
<1> QED BY <1>2, <1>4

\* The top call goes on as c.
LEMMA TopGoesOn ==
  ASSUME RedirInv, calls # <<>>, NEW c \in Call, CallOK(c), calls' = WithTop(c),
         start' = start, fds' \in Table, badf' \in BOOLEAN, left' \in Nat, ended' = ended
  PROVE  /\ StartOK' /\ TypeOK' /\ Len(calls') = Len(calls)
         /\ \A k \in 1 .. Len(calls) : calls'[k] = IF k = Len(calls) THEN c ELSE calls[k]
<1>1. /\ calls \in Seq(Call) /\ Len(calls) \in Nat \ {0}
  BY DEF RedirInv, TypeOK
<1>2. /\ calls' \in Seq(Call) /\ Len(calls') = Len(calls)
      /\ \A k \in 1 .. Len(calls) : calls'[k] = IF k = Len(calls) THEN c ELSE calls[k]
  BY <1>1 DEF WithTop
<1>3. Call' = Call /\ Table' = Table
  BY DEF Call, Table, RedirInfo
<1>4. \A k \in 1 .. Len(calls') : CallOK(calls'[k]) /\ (k < Len(calls') => calls'[k].pc = "eval")
  BY <1>1, <1>2 DEF RedirInv, TypeOK, CallOK
<1>5. TypeOK'
  BY <1>2, <1>3, <1>4 DEF RedirInv, TypeOK, CallOK
<1>6. StartOK'
  BY DEF RedirInv, StartOK
<1> QED BY <1>2, <1>5, <1>6

\* The top call returns.
LEMMA TopReturns ==
  ASSUME RedirInv, calls # <<>>, calls' = SubSeq(calls, 1, Len(calls) - 1),
         start' = start, fds' \in Table, badf' \in BOOLEAN, left' \in Nat, ended' = ended
  PROVE  /\ StartOK' /\ TypeOK' /\ Len(calls') = Len(calls) - 1
         /\ \A k \in 1 .. Len(calls') : calls'[k] = calls[k]
<1>1. /\ calls \in Seq(Call) /\ Len(calls) \in Nat \ {0}
  BY DEF RedirInv, TypeOK
<1>2. /\ calls' \in Seq(Call) /\ Len(calls') = Len(calls) - 1
      /\ \A k \in 1 .. Len(calls') : calls'[k] = calls[k]
  BY <1>1, FrontFacts
<1>3. Call' = Call /\ Table' = Table
  BY DEF Call, Table, RedirInfo
<1>4. TypeOK'
  BY <1>1, <1>2, <1>3 DEF RedirInv, TypeOK
<1>5. StartOK'
  BY DEF RedirInv, StartOK
<1> QED BY <1>2, <1>4, <1>5

\* IsOpen() of another table.
OpenIn(table, d) == d \in Fd /\ table[d] # Closed

\* The table changes and no call has more to undo than before: what is still to
\* be undone has to stay open.
LEMMA StillOpen ==
  ASSUME RedirInv, Len(calls') \in 0 .. Len(calls), fds' \in Table,
         \A k \in 1 .. Len(calls') : /\ calls'[k].infos = calls[k].infos
                                     /\ calls[k].undone <= calls'[k].undone
                                     /\ calls[k].undone \in Nat /\ calls'[k].undone \in Nat,
         \A k \in 1 .. Len(calls') : \A i \in calls'[k].undone + 1 .. Len(calls[k].infos) :
            LET a == calls[k].infos[i]
            IN (a.temp # -1 => OpenIn(fds', a.temp)) /\ (a.file # -1 => OpenIn(fds', a.file))
  PROVE  SavedOpen'
<1>1. \A k \in 1 .. Len(calls') : k \in 1 .. Len(calls)
  BY DEF RedirInv, TypeOK
<1>2. \A k \in 1 .. Len(calls') : Len(calls[k].infos) \in Nat
  BY <1>1 DEF RedirInv, TypeOK, Call
<1>3. \A k \in 1 .. Len(calls') : \A i \in calls'[k].undone + 1 .. Len(calls'[k].infos) :
         i \in calls[k].undone + 1 .. Len(calls[k].infos)
  BY <1>2
<1>4. ASSUME NEW k \in 1 .. Len(calls'), NEW l \in 1 .. Len(calls'),
             NEW i \in calls'[k].undone + 1 .. Len(calls'[k].infos),
             NEW j \in calls'[l].undone + 1 .. Len(calls'[l].infos)
      PROVE  <<k, i>> # <<l, j>> =>
               {calls[k].infos[i].temp, calls[k].infos[i].file}
               \cap {calls[l].infos[j].temp, calls[l].infos[j].file} \subseteq {-1}
  <2>1. /\ k \in 1 .. Len(calls) /\ l \in 1 .. Len(calls)
        /\ i \in calls[k].undone + 1 .. Len(calls[k].infos)
        /\ j \in calls[l].undone + 1 .. Len(calls[l].infos)
    BY <1>1, <1>3
  <2> QED BY <2>1, Zenon DEF RedirInv, SavedOpen
<1>5. \A k \in 1 .. Len(calls') : calls'[k].infos = calls[k].infos
  OBVIOUS
<1>6. ASSUME NEW k \in 1 .. Len(calls'), NEW l \in 1 .. Len(calls'),
             NEW i \in calls'[k].undone + 1 .. Len(calls'[k].infos),
             NEW j \in calls'[l].undone + 1 .. Len(calls'[l].infos)
      PROVE  LET a == calls'[k].infos[i]
                 b == calls'[l].infos[j]
             IN /\ (a.temp # -1 => OpenIn(fds', a.temp))
                /\ (a.file # -1 => OpenIn(fds', a.file))
                /\ <<k, i>> # <<l, j>> =>
                     {a.temp, a.file} \cap {b.temp, b.file} \subseteq {-1}
  <2>1. calls'[k].infos = calls[k].infos /\ calls'[l].infos = calls[l].infos
    BY <1>5
  <2>2. i \in calls'[k].undone + 1 .. Len(calls[k].infos)
    BY <2>1
  <2>3. <<k, i>> # <<l, j>> =>
               {calls[k].infos[i].temp, calls[k].infos[i].file}
               \cap {calls[l].infos[j].temp, calls[l].infos[j].file} \subseteq {-1}
    BY <1>4
  <2> QED BY <2>1, <2>2, <2>3, Zenon
<1> QED BY <1>6, Zenon DEF SavedOpen, IsOpen, OpenIn

\* One more redirection is to be undone, with descriptors that were not open
\* before, while what was open is open still.
\* What is open stays open, and a descriptor that is noted was closed and is open.
Opens(temp, file) ==
  /\ \A d \in {temp, file} : d # -1 => fds[d] = Closed /\ OpenIn(fds', d)
  /\ \A d \in Fd : fds[d] # Closed => fds'[d] # Closed

LEMMA AppliedKeeps ==
  ASSUME RedirInv, Active("apply"), start' = start, fds' \in Table, badf' \in BOOLEAN,
         left' \in Nat, ended' = ended,
         NEW io \in Fd, NEW temp \in Fd \cup {-1}, NEW file \in Fd \cup {-1},
         Applied(io, temp, file), temp = file => temp = -1, Opens(temp, file)
  PROVE  RedirInv'
<1> USE DEF Opens
<1> DEFINE info == [io |-> io, temp |-> temp, file |-> file]
           infos == Append(Top.infos, info)
           c == [Top EXCEPT !.infos = infos,
                            !.pc = IF Len(infos) = Len(Top.list) THEN "eval" ELSE "apply"]
           m == Len(Top.infos) + 1
<1>1. /\ calls # <<>> /\ Top.pc = "apply" /\ Top \in Call /\ CallOK(Top)
      /\ Len(calls) \in Nat \ {0} /\ Top = calls[Len(calls)]
  BY TopIsCall DEF Active
<1>2. /\ Top.infos \in Seq(RedirInfo) /\ Len(Top.infos) \in Nat /\ Len(Top.list) \in Nat
      /\ Top.undone = 0 /\ Len(Top.infos) < Len(Top.list) /\ Top.list \in start.lists
  <2>1. Top.list \in Seq(Redirection)
    BY <1>1 DEF RedirInv, StartOK, Call
  <2> QED BY <1>1, <2>1 DEF Call, CallOK
<1>3. infos \in Seq(RedirInfo) /\ Len(infos) = m /\ infos[m] = info
      /\ \A i \in 1 .. m - 1 : infos[i] = Top.infos[i]
  BY <1>2 DEF RedirInfo
<1>4. /\ c \in Call /\ c.infos = infos /\ c.undone = 0 /\ c.list = Top.list
      /\ c.pc = IF m = Len(Top.list) THEN "eval" ELSE "apply"
  <2> HIDE DEF infos, m
  <2> QED BY <1>1, <1>3 , <1>2 DEF Call
<1>5. CallOK(c)
  <2> HIDE DEF infos, c
  <2> QED BY <1>2, <1>3, <1>4 DEF CallOK
<1>6. calls' = WithTop(c)
  BY DEF Applied
<1> HIDE DEF c
<1>7. /\ StartOK' /\ TypeOK' /\ Len(calls') = Len(calls)
      /\ \A k \in 1 .. Len(calls) : calls'[k] = IF k = Len(calls) THEN c ELSE calls[k]
  BY <1>1, <1>4, <1>5, <1>6, TopGoesOn
<1> HIDE DEF infos, info
<1>8. ASSUME NEW k \in 1 .. Len(calls'), NEW i \in calls'[k].undone + 1 .. Len(calls'[k].infos)
      PROVE  \/ k = Len(calls) /\ i = m /\ calls'[k].infos[i] = info
             \/ i \in calls[k].undone + 1 .. Len(calls[k].infos)
                /\ calls'[k].infos[i] = calls[k].infos[i]
  <2>1. CASE k = Len(calls)
    <3>1. calls'[k] = c /\ calls[k] = Top
      BY <1>1, <1>7, <2>1
    <3>2. i \in 1 .. m /\ calls'[k].infos[i] = infos[i]
      BY <1>4, <1>3, <3>1
    <3> QED BY <2>1, <3>1, <3>2, <1>2, <1>3
  <2>2. CASE k # Len(calls)
    BY <1>7, <2>2
  <2> QED BY <2>1, <2>2
<1>9. ASSUME NEW k \in 1 .. Len(calls), NEW i \in calls[k].undone + 1 .. Len(calls[k].infos),
             NEW d \in {calls[k].infos[i].temp, calls[k].infos[i].file}, d # -1
      PROVE  OpenIn(fds, d) /\ OpenIn(fds', d) /\ d \notin {temp, file}
  <2>1. OpenIn(fds, d)
    BY <1>9 DEF RedirInv, SavedOpen, IsOpen, OpenIn
  <2> QED BY <2>1, <1>9 DEF OpenIn
<1>10. info.temp = temp /\ info.file = file
  BY DEF info
<1>11. ASSUME NEW k \in 1 .. Len(calls'), NEW l \in 1 .. Len(calls'),
              NEW i \in calls'[k].undone + 1 .. Len(calls'[k].infos),
              NEW j \in calls'[l].undone + 1 .. Len(calls'[l].infos)
       PROVE  LET a == calls'[k].infos[i]
                  b == calls'[l].infos[j]
              IN /\ a.temp # -1 => OpenIn(fds', a.temp)
                 /\ a.file # -1 => OpenIn(fds', a.file)
                 /\ <<k, i>> # <<l, j>> =>
                      {a.temp, a.file} \cap {b.temp, b.file} \subseteq {-1}
  <2> DEFINE a == calls'[k].infos[i]
             b == calls'[l].infos[j]
  <2>1. \A d \in {a.temp, a.file} : d # -1 => OpenIn(fds', d)
    <3>1. CASE k = Len(calls) /\ i = m /\ a = info
      BY <1>10, <3>1
    <3>2. CASE i \in calls[k].undone + 1 .. Len(calls[k].infos) /\ a = calls[k].infos[i]
      BY <1>7, <1>9, <3>2
    <3> QED BY <1>8, <3>1, <3>2
  <2>2. ASSUME <<k, i>> # <<l, j>> PROVE {a.temp, a.file} \cap {b.temp, b.file} \subseteq {-1}
    <3>1. CASE k = Len(calls) /\ i = m /\ a = info
      <4>1. ~(l = Len(calls) /\ j = m)
        BY <2>2, <3>1
      <4>2. j \in calls[l].undone + 1 .. Len(calls[l].infos) /\ b = calls[l].infos[j]
        BY <1>8, <4>1
      <4> QED BY <1>7, <1>9, <1>10, <3>1, <4>2
    <3>2. CASE l = Len(calls) /\ j = m /\ b = info
      <4>1. ~(k = Len(calls) /\ i = m)
        BY <2>2, <3>2
      <4>2. i \in calls[k].undone + 1 .. Len(calls[k].infos) /\ a = calls[k].infos[i]
        BY <1>8, <4>1
      <4> QED BY <1>7, <1>9, <1>10, <3>2, <4>2
    <3>3. CASE /\ i \in calls[k].undone + 1 .. Len(calls[k].infos) /\ a = calls[k].infos[i]
               /\ j \in calls[l].undone + 1 .. Len(calls[l].infos) /\ b = calls[l].infos[j]
      <4>1. {calls[k].infos[i].temp, calls[k].infos[i].file}
             \cap {calls[l].infos[j].temp, calls[l].infos[j].file} \subseteq {-1}
        BY <1>7, <2>2, <3>3, Zenon DEF RedirInv, SavedOpen
      <4> QED BY <3>3, <4>1
    <3> QED BY <1>8, <3>1, <3>2, <3>3
  <2> QED BY <2>1, <2>2
<1>12. SavedOpen'
  BY <1>11, Zenon DEF SavedOpen, IsOpen, OpenIn
<1> QED BY <1>7, <1>12 DEF RedirInv

-----------------------------------------------------------------------------
(***************************************************************************)
(* The operations                                                          *)
(***************************************************************************)
\* The redirection that is applied next.
LEMMA NextRedir ==
  ASSUME RedirInv, Active("apply")
  PROVE  Redir \in Redirection
<1>1. calls # <<>> /\ Top \in Call /\ CallOK(Top) /\ Top.pc = "apply"
  BY TopIsCall DEF Active
<1>2. Top.list \in Seq(Redirection) /\ Len(Top.infos) \in Nat /\ Len(Top.infos) < Len(Top.list)
  BY <1>1 DEF RedirInv, StartOK, Call, CallOK
<1> QED BY <1>2 DEF Redir

LEMMA ApplyFileKeeps ==
  ASSUME RedirInv, ApplyFile
  PROVE  RedirInv'
<1> DEFINE file == LowestFree(fds)
           opened == [fds EXCEPT ![file] = Redir.file]
           temp == Dup(opened, Redir.io)
           saved == DupTo(opened, Redir.io, temp)
<1>1. /\ Active("apply") /\ Redir.io \in Fd /\ file # -1
      /\ fds' = [saved EXCEPT ![Redir.io] = Redir.file] /\ badf' = (badf \/ temp = -1)
      /\ Applied(Redir.io, temp, file) /\ start' = start /\ left' = left /\ ended' = ended
  BY DEF ApplyFile
<1>2. Redir.file \in File /\ Redir.file # Closed
  BY <1>1, NextRedir, RedirsAssumption DEF Redirection
<1>3. fds \in Table /\ badf \in BOOLEAN /\ left \in Nat
  BY DEF RedirInv, TypeOK
<1>4. file \in Fd /\ fds[file] = Closed
  BY <1>1, <1>3, LowestFreeIsFree
<1> HIDE DEF file
<1>5. opened \in Table /\ \A d \in Fd : opened[d] = IF d = file THEN Redir.file ELSE fds[d]
  BY <1>2, <1>3, <1>4 DEF Table
<1> HIDE DEF opened
<1>6. temp = -1 \/ (temp \in Fd /\ opened[temp] = Closed)
  BY <1>5, LowestFreeIsFree DEF Dup
<1>7. temp # -1 => opened[Redir.io] # Closed
  BY <1>1 DEF Dup
<1> HIDE DEF temp
<1>8. temp # -1 => temp # file /\ temp # Redir.io /\ fds[temp] = Closed
  BY <1>2, <1>4, <1>5, <1>6, <1>7
<1>9. saved \in Table /\ \A d \in Fd : saved[d] = IF temp # -1 /\ d = temp THEN opened[Redir.io]
                                                 ELSE opened[d]
  BY <1>1, <1>5, <1>6 DEF DupTo, Table
<1> HIDE DEF saved
<1>10. fds' \in Table /\ \A d \in Fd : fds'[d] = IF d = Redir.io THEN Redir.file ELSE saved[d]
  BY <1>1, <1>2, <1>9 DEF Table
<1>11. \A d \in Fd : fds[d] # Closed => fds'[d] # Closed
  BY <1>2, <1>5, <1>7, <1>9, <1>10
<1>12. temp # -1 => fds[temp] = Closed /\ OpenIn(fds', temp)
  BY <1>6, <1>7, <1>8, <1>9, <1>10 DEF OpenIn
<1>13. fds[file] = Closed /\ OpenIn(fds', file)
  BY <1>2, <1>4, <1>5, <1>8, <1>9, <1>10 DEF OpenIn
<1>14. badf' \in BOOLEAN /\ left' \in Nat
  BY <1>1, <1>3
<1>15. \A d \in {temp, file} : d # -1 => fds[d] = Closed /\ OpenIn(fds', d)
  BY <1>12, <1>13
<1>16. temp \in Fd \cup {-1} /\ file \in Fd \cup {-1} /\ (temp = file => temp = -1)
  BY <1>4, <1>6, <1>8
<1>17. fds' \in Table
  BY <1>10
<1>18. Opens(temp, file)
  BY <1>11, <1>15 DEF Opens
<1> QED BY <1>1, <1>14, <1>16, <1>17, <1>18, AppliedKeeps

LEMMA ApplyDupKeeps ==
  ASSUME RedirInv, ApplyDup
  PROVE  RedirInv'
<1> DEFINE temp == Dup(fds, Redir.io)
           saved == DupTo(fds, Redir.io, temp)
<1>1. /\ Active("apply") /\ IsValidFd(Redir.from) /\ temp # -1
      /\ fds' = [saved EXCEPT ![Redir.io] = fds[Redir.from]]
      /\ Applied(Redir.io, temp, -1) /\ start' = start /\ badf' = badf /\ left' = left
      /\ ended' = ended
  BY DEF ApplyDup
<1>2. fds \in Table /\ badf \in BOOLEAN /\ left \in Nat
  BY DEF RedirInv, TypeOK
<1>3. Redir.from \in Fd /\ fds[Redir.from] # Closed
  BY <1>1 DEF IsValidFd, IsOpen
<1>4. /\ Redir.io \in Fd /\ fds[Redir.io] # Closed
      /\ temp \in Fd /\ fds[temp] = Closed
  BY <1>1, <1>2, LowestFreeIsFree DEF Dup
<1> HIDE DEF temp
<1>5. saved \in Table /\ \A d \in Fd : saved[d] = IF d = temp THEN fds[Redir.io] ELSE fds[d]
  BY <1>1, <1>2, <1>4 DEF DupTo, Table
<1> HIDE DEF saved
<1>6. fds' \in Table /\ \A d \in Fd : fds'[d] = IF d = Redir.io THEN fds[Redir.from] ELSE saved[d]
  <2>1. fds[Redir.from] \in File \cup {Closed}
    BY <1>2, <1>3 DEF Table
  <2> QED BY <1>1, <1>4, <1>5, <2>1 DEF Table
<1>7. \A d \in Fd : fds[d] # Closed => fds'[d] # Closed
  BY <1>3, <1>4, <1>5, <1>6
<1>8. OpenIn(fds', temp)
  BY <1>3, <1>4, <1>5, <1>6 DEF OpenIn
<1>9. \A d \in {temp, -1} : d # -1 => fds[d] = Closed /\ OpenIn(fds', d)
  BY <1>4, <1>8
<1>10. temp \in Fd \cup {-1} /\ -1 \in Fd \cup {-1} /\ (temp = -1 => temp = -1)
  BY <1>4
<1>11. badf' \in BOOLEAN /\ left' \in Nat /\ fds' \in Table /\ Redir.io \in Fd
  BY <1>1, <1>2, <1>4, <1>6
<1>12. Opens(temp, -1)
  BY <1>7, <1>9 DEF Opens
<1> QED BY <1>1, <1>10, <1>11, <1>12, AppliedKeeps

LEMMA ExecRedirsKeeps ==
  ASSUME RedirInv, NEW list \in start.lists, ExecRedirs(list)
  PROVE  RedirInv'
<1> DEFINE c == [list |-> list, infos |-> <<>>, undone |-> 0, pc |-> "apply", before |-> fds]
<1>1. /\ calls' = Append(calls, c) /\ start' = start /\ fds' = fds /\ badf' = badf
      /\ left' = left /\ ended' = ended /\ (calls # <<>> => Top.pc = "eval")
  BY DEF ExecRedirs
<1>2. calls \in Seq(Call) /\ Len(calls) \in Nat /\ list \in Seq(Redirection) /\ list # <<>>
  BY DEF RedirInv, TypeOK, StartOK
<1>3. /\ c \in Call /\ CallOK(c) /\ c.undone = 0 /\ c.infos = <<>> /\ c.pc = "apply"
  BY <1>2 DEF Call, CallOK, RedirInv, TypeOK
<1> HIDE DEF c
<1>4. /\ calls' \in Seq(Call) /\ Len(calls') = Len(calls) + 1
      /\ \A k \in 1 .. Len(calls') : calls'[k] = IF k = Len(calls) + 1 THEN c ELSE calls[k]
  BY <1>1, <1>2, <1>3
<1>5. \A k \in 1 .. Len(calls') : CallOK(calls'[k]) /\ (k < Len(calls') => calls'[k].pc = "eval")
  <2>1. \A k \in 1 .. Len(calls) : CallOK(calls[k]) /\ (k < Len(calls) => calls[k].pc = "eval")
    BY DEF RedirInv, TypeOK, CallOK
  <2>2. Len(calls) # 0 => calls[Len(calls)].pc = "eval"
    BY <1>1, <1>2 DEF Top
  <2> QED BY <1>2, <1>3, <1>4, <2>1, <2>2
<1>6. Call' = Call /\ Table' = Table
  BY <1>1 DEF Call, Table, RedirInfo
<1>7. TypeOK' /\ StartOK'
  BY <1>1, <1>4, <1>5, <1>6 DEF RedirInv, TypeOK, CallOK, StartOK
<1>8. ASSUME NEW k \in 1 .. Len(calls'), NEW i \in calls'[k].undone + 1 .. Len(calls'[k].infos)
      PROVE  k \in 1 .. Len(calls) /\ calls'[k] = calls[k]
  <2>1. k # Len(calls) + 1
    BY <1>3, <1>4, <1>8
  <2> QED BY <1>2, <1>4, <2>1
<1>9. SavedOpen'
  <2>1. ASSUME NEW k \in 1 .. Len(calls'), NEW l \in 1 .. Len(calls'),
               NEW i \in calls'[k].undone + 1 .. Len(calls'[k].infos),
               NEW j \in calls'[l].undone + 1 .. Len(calls'[l].infos)
        PROVE  LET a == calls'[k].infos[i]
                   b == calls'[l].infos[j]
               IN /\ a.temp # -1 => OpenIn(fds', a.temp)
                  /\ a.file # -1 => OpenIn(fds', a.file)
                  /\ <<k, i>> # <<l, j>> =>
                       {a.temp, a.file} \cap {b.temp, b.file} \subseteq {-1}
    <3>1. /\ k \in 1 .. Len(calls) /\ l \in 1 .. Len(calls)
          /\ calls'[k] = calls[k] /\ calls'[l] = calls[l]
          /\ i \in calls[k].undone + 1 .. Len(calls[k].infos)
          /\ j \in calls[l].undone + 1 .. Len(calls[l].infos)
      BY <1>8
    <3>2. LET a == calls[k].infos[i]
              b == calls[l].infos[j]
          IN /\ a.temp # -1 => OpenIn(fds, a.temp)
             /\ a.file # -1 => OpenIn(fds, a.file)
             /\ <<k, i>> # <<l, j>> =>
                  {a.temp, a.file} \cap {b.temp, b.file} \subseteq {-1}
      BY <3>1, Zenon DEF RedirInv, SavedOpen, IsOpen, OpenIn
    <3> QED BY <1>1, <3>1, <3>2, Zenon
  <2> QED BY <2>1, Zenon DEF SavedOpen, IsOpen, OpenIn
<1> QED BY <1>7, <1>9 DEF RedirInv

\* exec_redirs() gives up with 2: what it has redirected is not undone.
LEMMA BadFdKeeps ==
  ASSUME RedirInv, BadFd
  PROVE  RedirInv'
<1>1. /\ calls # <<>> /\ calls' = SubSeq(calls, 1, Len(calls) - 1) /\ badf' = TRUE
      /\ start' = start /\ fds' = fds /\ ended' = ended /\ left' \in {left, left + 1}
  BY DEF BadFd, Active
<1>2. fds' \in Table /\ left' \in Nat
  BY <1>1 DEF RedirInv, TypeOK
<1>3. /\ StartOK' /\ TypeOK' /\ Len(calls') = Len(calls) - 1
      /\ \A k \in 1 .. Len(calls') : calls'[k] = calls[k]
  BY <1>1, <1>2, TopReturns
<1>4. SavedOpen'
  <2>1. Len(calls') \in 0 .. Len(calls)
    BY <1>1, <1>3, TopIsCall
  <2>2. \A k \in 1 .. Len(calls') : k \in 1 .. Len(calls) /\ calls[k] \in Call
    BY <2>1 DEF RedirInv, TypeOK
  <2>3. \A k \in 1 .. Len(calls') : /\ calls'[k].infos = calls[k].infos
                                    /\ calls[k].undone <= calls'[k].undone
                                    /\ calls[k].undone \in Nat /\ calls'[k].undone \in Nat
    BY <1>3, <2>2 DEF Call
  <2>4. ASSUME NEW k \in 1 .. Len(calls'),
               NEW i \in calls'[k].undone + 1 .. Len(calls[k].infos)
        PROVE  LET a == calls[k].infos[i]
               IN (a.temp # -1 => OpenIn(fds', a.temp)) /\ (a.file # -1 => OpenIn(fds', a.file))
    <3>1. i \in calls[k].undone + 1 .. Len(calls[k].infos)
      BY <1>3
    <3> QED BY <1>1, <2>2, <3>1, Zenon DEF RedirInv, SavedOpen, IsOpen, OpenIn
  <2> QED BY <1>2, <2>1, <2>3, <2>4, StillOpen
<1> QED BY <1>3, <1>4 DEF RedirInv

\* The command has returned.
LEMMA EvaluatedKeeps ==
  ASSUME RedirInv, Evaluated
  PROVE  RedirInv'
<1> DEFINE c == [Top EXCEPT !.pc = "undo"]
<1>1. /\ calls # <<>> /\ Top.pc = "eval" /\ calls' = WithTop(c) /\ badf' \in BOOLEAN
      /\ start' = start /\ fds' = fds /\ left' = left /\ ended' = ended
  BY DEF Evaluated, Active
<1>2. /\ Top \in Call /\ CallOK(Top) /\ Len(calls) \in Nat \ {0} /\ Top = calls[Len(calls)]
      /\ Top.list \in Seq(Redirection) /\ Top.list # <<>>
  BY <1>1, TopIsCall DEF RedirInv, StartOK, Call
<1>3. /\ c \in Call /\ c.infos = Top.infos /\ c.undone = Top.undone /\ c.pc = "undo"
      /\ c.list = Top.list
  BY <1>2 DEF Call
<1>4. CallOK(c)
  <2>1. Len(Top.list) \in Nat \ {0} /\ Len(Top.infos) \in Nat
    BY <1>2 DEF Call
  <2> HIDE DEF c
  <2> QED BY <1>1, <1>2, <1>3, <2>1 DEF CallOK
<1> HIDE DEF c
<1>5. fds' \in Table /\ badf' \in BOOLEAN /\ left' \in Nat
  BY <1>1 DEF RedirInv, TypeOK
<1>6. /\ StartOK' /\ TypeOK' /\ Len(calls') = Len(calls)
      /\ \A k \in 1 .. Len(calls) : calls'[k] = IF k = Len(calls) THEN c ELSE calls[k]
  BY <1>1, <1>3, <1>4, <1>5, TopGoesOn
<1>7. SavedOpen'
  <2>1. Len(calls') \in 0 .. Len(calls)
    BY <1>2, <1>6
  <2>2. \A k \in 1 .. Len(calls') : k \in 1 .. Len(calls) /\ calls[k] \in Call
    BY <2>1 DEF RedirInv, TypeOK
  <2>3. \A k \in 1 .. Len(calls') : /\ calls'[k].infos = calls[k].infos
                                    /\ calls'[k].undone = calls[k].undone
    BY <1>2, <1>3, <1>6
  <2>4. \A k \in 1 .. Len(calls') : /\ calls'[k].infos = calls[k].infos
                                    /\ calls[k].undone <= calls'[k].undone
                                    /\ calls[k].undone \in Nat /\ calls'[k].undone \in Nat
    BY <2>2, <2>3 DEF Call
  <2>5. ASSUME NEW k \in 1 .. Len(calls'),
               NEW i \in calls'[k].undone + 1 .. Len(calls[k].infos)
        PROVE  LET a == calls[k].infos[i]
               IN (a.temp # -1 => OpenIn(fds', a.temp)) /\ (a.file # -1 => OpenIn(fds', a.file))
    <3>1. i \in calls[k].undone + 1 .. Len(calls[k].infos)
      BY <2>3
    <3> QED BY <1>1, <2>2, <3>1, Zenon DEF RedirInv, SavedOpen, IsOpen, OpenIn
  <2> QED BY <1>5, <2>1, <2>4, <2>5, StillOpen
<1> QED BY <1>6, <1>7 DEF RedirInv

\* What unapply_redir() of the top call closes is nobody else's.
LEMMA OthersOpen ==
  ASSUME RedirInv, Active("undo"),
         NEW k \in 1 .. Len(calls), NEW i \in calls[k].undone + 1 .. Len(calls[k].infos),
         <<k, i>> # <<Len(calls), Top.undone + 1>>,
         NEW d \in {calls[k].infos[i].temp, calls[k].infos[i].file}, d # -1
  PROVE  OpenIn(Undone(Info), d)
<1>1. /\ calls # <<>> /\ Top.pc = "undo" /\ Top \in Call /\ CallOK(Top)
      /\ Len(calls) \in Nat \ {0} /\ Top = calls[Len(calls)]
  BY TopIsCall DEF Active
<1>2. Top.undone \in Nat /\ Len(Top.infos) \in Nat /\ Top.undone + 1 \in 1 .. Len(Top.infos)
  BY <1>1 DEF Call, CallOK
<1>3. Info \in RedirInfo
  BY <1>1, <1>2 DEF Call, Info
<1>4. Top.undone + 1 \in calls[Len(calls)].undone + 1 .. Len(calls[Len(calls)].infos)
      /\ Len(calls) \in 1 .. Len(calls)
  BY <1>1, <1>2
<1>5. Info.temp # -1 => fds[Info.temp] # Closed
  BY <1>1, <1>4, Zenon DEF RedirInv, SavedOpen, IsOpen, Info
<1>6. OpenIn(fds, d)
  BY DEF RedirInv, SavedOpen, IsOpen, OpenIn
<1>7. {calls[k].infos[i].temp, calls[k].infos[i].file} \cap {Info.temp, Info.file} \subseteq {-1}
  BY <1>1, <1>4, Zenon DEF RedirInv, SavedOpen, Info
<1>8. d # Info.temp /\ d # Info.file
  BY <1>7
<1>9. fds \in [Fd -> File \cup {Closed}]
  BY DEF RedirInv, TypeOK, Table
<1>10. Info.io \in Fd /\ Info.temp \in Fd \cup {-1} /\ Info.file \in Fd \cup {-1}
  BY <1>3 DEF RedirInfo
<1> QED BY <1>5, <1>6, <1>8, <1>9, <1>10 DEF Undone, OpenIn

LEMMA UnapplyRedirKeeps ==
  ASSUME RedirInv, UnapplyRedir
  PROVE  RedirInv'
<1> DEFINE c == [Top EXCEPT !.undone = @ + 1]
<1>1. /\ Active("undo") /\ fds' = Undone(Info) /\ start' = start /\ badf' = badf
      /\ left' = left /\ ended' = ended
      /\ calls' = IF Top.undone + 1 = Len(Top.infos)
                  THEN SubSeq(calls, 1, Len(calls) - 1) ELSE WithTop(c)
  BY DEF UnapplyRedir
<1>2. /\ calls # <<>> /\ Top.pc = "undo" /\ Top \in Call /\ CallOK(Top)
      /\ Len(calls) \in Nat \ {0} /\ Top = calls[Len(calls)]
  BY <1>1, TopIsCall DEF Active
<1>3. Top.undone \in Nat /\ Len(Top.infos) \in Nat /\ Top.undone < Len(Top.infos)
  BY <1>2 DEF Call, CallOK
<1>4. /\ c \in Call /\ c.infos = Top.infos /\ c.undone = Top.undone + 1 /\ c.pc = Top.pc
      /\ c.list = Top.list
  BY <1>2, <1>3 DEF Call
<1> HIDE DEF c
<1>5. fds' \in Table /\ badf' \in BOOLEAN /\ left' \in Nat
  <2>1. Info \in RedirInfo
    BY <1>2, <1>3 DEF Call, Info
  <2>2. fds \in [Fd -> File \cup {Closed}] /\ badf \in BOOLEAN /\ left \in Nat
    BY DEF RedirInv, TypeOK, Table
  <2>3. Info.io \in Fd /\ Info.temp \in Fd \cup {-1} /\ Info.file \in Fd \cup {-1}
    BY <2>1 DEF RedirInfo
  <2> QED BY <1>1, <2>2, <2>3 DEF Undone, Table
<1>6. CASE Top.undone + 1 = Len(Top.infos)
  <2>1. /\ StartOK' /\ TypeOK' /\ Len(calls') = Len(calls) - 1
        /\ \A k \in 1 .. Len(calls') : calls'[k] = calls[k]
    BY <1>1, <1>2, <1>5, <1>6, TopReturns
  <2>2. Len(calls') \in 0 .. Len(calls)
    BY <1>2, <2>1
  <2>3. \A k \in 1 .. Len(calls') : k \in 1 .. Len(calls) /\ k # Len(calls) /\ calls[k] \in Call
    BY <1>2, <2>1 DEF RedirInv, TypeOK
  <2>4. \A k \in 1 .. Len(calls') : /\ calls'[k].infos = calls[k].infos
                                    /\ calls[k].undone <= calls'[k].undone
                                    /\ calls[k].undone \in Nat /\ calls'[k].undone \in Nat
    BY <2>1, <2>3 DEF Call
  <2>5. ASSUME NEW k \in 1 .. Len(calls'),
               NEW i \in calls'[k].undone + 1 .. Len(calls[k].infos)
        PROVE  LET a == calls[k].infos[i]
               IN (a.temp # -1 => OpenIn(fds', a.temp)) /\ (a.file # -1 => OpenIn(fds', a.file))
    <3>1. /\ i \in calls[k].undone + 1 .. Len(calls[k].infos) /\ k \in 1 .. Len(calls)
          /\ <<k, i>> # <<Len(calls), Top.undone + 1>>
      BY <2>1, <2>3
    <3> QED BY <1>1, <3>1, OthersOpen
  <2>6. SavedOpen'
    BY <1>5, <2>2, <2>4, <2>5, StillOpen
  <2> QED BY <2>1, <2>6 DEF RedirInv
<1>7. CASE Top.undone + 1 # Len(Top.infos)
  <2>1. CallOK(c)
    BY <1>2, <1>3, <1>4, <1>7 DEF CallOK
  <2>2. /\ StartOK' /\ TypeOK' /\ Len(calls') = Len(calls)
        /\ \A k \in 1 .. Len(calls) : calls'[k] = IF k = Len(calls) THEN c ELSE calls[k]
    BY <1>1, <1>2, <1>4, <1>5, <1>7, <2>1, TopGoesOn
  <2>3. Len(calls') \in 0 .. Len(calls)
    BY <1>2, <2>2
  <2>4. \A k \in 1 .. Len(calls') :
          /\ k \in 1 .. Len(calls) /\ calls[k] \in Call /\ calls'[k].infos = calls[k].infos
          /\ calls'[k].undone = IF k = Len(calls) THEN Top.undone + 1 ELSE calls[k].undone
    BY <1>2, <1>4, <2>2 DEF RedirInv, TypeOK
  <2>5. \A k \in 1 .. Len(calls') : /\ calls'[k].infos = calls[k].infos
                                    /\ calls[k].undone <= calls'[k].undone
                                    /\ calls[k].undone \in Nat /\ calls'[k].undone \in Nat
    BY <1>2, <1>3, <2>4 DEF Call
  <2>6. ASSUME NEW k \in 1 .. Len(calls'),
               NEW i \in calls'[k].undone + 1 .. Len(calls[k].infos)
        PROVE  LET a == calls[k].infos[i]
               IN (a.temp # -1 => OpenIn(fds', a.temp)) /\ (a.file # -1 => OpenIn(fds', a.file))
    <3>1. Len(calls[k].infos) \in Nat /\ calls[k].undone \in Nat
      BY <2>4 DEF Call
    <3>2. /\ i \in calls[k].undone + 1 .. Len(calls[k].infos) /\ k \in 1 .. Len(calls)
          /\ <<k, i>> # <<Len(calls), Top.undone + 1>>
      BY <1>2, <1>3, <2>4, <3>1
    <3> QED BY <1>1, <3>2, OthersOpen
  <2>7. SavedOpen'
    BY <1>5, <2>3, <2>5, <2>6, StillOpen
  <2> QED BY <2>2, <2>7 DEF RedirInv
<1> QED BY <1>6, <1>7

\* The process exits, a new line begins, or nothing happens.
LEMMA OthersKeep ==
  ASSUME RedirInv, ApplyExits \/ CommandExits \/ NextLine \/ UNCHANGED vars
  PROVE  RedirInv'
<1>1. /\ start' = start /\ fds' = fds /\ calls' = calls /\ badf' \in BOOLEAN /\ left' \in Nat
      /\ ended' \in BOOLEAN
  BY DEF RedirInv, TypeOK, ApplyExits, CommandExits, NextLine, Exit, vars
<1>2. Call' = Call /\ Table' = Table
  BY <1>1 DEF Call, Table, RedirInfo
<1>3. TypeOK' /\ StartOK'
  BY <1>1, <1>2 DEF RedirInv, TypeOK, StartOK
<1>4. SavedOpen'
  BY <1>1 DEF RedirInv, SavedOpen, IsOpen
<1> QED BY <1>3, <1>4 DEF RedirInv

-----------------------------------------------------------------------------
(***************************************************************************)
(* The theorems                                                            *)
(***************************************************************************)
LEMMA RedirInit == Init => RedirInv
<1> SUFFICES ASSUME Init PROVE RedirInv
  OBVIOUS
<1>1. start \in Starts /\ fds = start.fds
  BY DEF Init
<1>2. StartOK /\ fds \in Table
  BY <1>1, RedirsAssumption DEF StartOK, Table
<1>3. calls = <<>> /\ badf = FALSE /\ left = 0 /\ ended = FALSE
  BY DEF Init
<1>4. calls \in Seq(Call) /\ 1 .. Len(calls) = {}
  BY <1>3
<1>5. TypeOK
  BY <1>2, <1>3, <1>4 DEF TypeOK
<1>6. SavedOpen
  BY <1>4 DEF SavedOpen
<1> QED BY <1>2, <1>5, <1>6 DEF RedirInv

LEMMA RedirStep == RedirInv /\ [Next]_vars => RedirInv'
<1> SUFFICES ASSUME RedirInv, [Next]_vars PROVE RedirInv'
  OBVIOUS
<1>1. ASSUME NEW list \in start.lists, ExecRedirs(list) PROVE RedirInv'
  BY <1>1, ExecRedirsKeeps
<1>2. CASE ApplyFile
  BY <1>2, ApplyFileKeeps
<1>3. CASE ApplyDup
  BY <1>3, ApplyDupKeeps
<1>4. CASE BadFd
  BY <1>4, BadFdKeeps
<1>5. CASE Evaluated
  BY <1>5, EvaluatedKeeps
<1>6. CASE UnapplyRedir
  BY <1>6, UnapplyRedirKeeps
<1>7. CASE ApplyExits \/ CommandExits \/ NextLine \/ UNCHANGED vars
  BY <1>7, OthersKeep
<1> QED BY <1>1, <1>2, <1>3, <1>4, <1>5, <1>6, <1>7 DEF Next, Step

\* Every call has applied a prefix of its list and, once its command is back,
\* undone a prefix of that but not the whole: the loops of exec_redirs() stay
\* inside the list of struct redir_info.
THEOREM RedirTypeCorrect == Spec => []TypeOK
<1>1. RedirInv => TypeOK
  BY DEF RedirInv
<1> QED BY <1>1, RedirInit, RedirStep, PTL DEF Spec

\* unapply_redir() finds the descriptors it reads and closes open, and closes
\* none that another activation of exec_redirs() has still to put back, for
\* every table the shell starts with, every list of redirections, closed and
\* repeated descriptors included, and every depth of redirected commands.
THEOREM SavedCorrect == Spec => []SavedOpen
<1>1. RedirInv => SavedOpen
  BY DEF RedirInv
<1> QED BY <1>1, RedirInit, RedirStep, PTL DEF Spec
-----------------------------------------------------------------------------
(***************************************************************************)
(* Redirections of standard descriptors: what a process that started       *)
(* Undisturbed keeps besides RedirInv.                                     *)
(***************************************************************************)
\* What is open beyond the standard descriptors in the table t is in u too.
Lasts(t, u) == \A d \in Fd : d > 2 /\ t[d] # Closed => u[d] = t[d]

\* The infos were made for the first redirections of the list by a call that
\* found the table before: they hold descriptors that were not open then.
Made(infos, list, before) ==
  \A j \in 1 .. Len(infos) :
    LET a == infos[j] IN
    /\ a.io = list[j].io
    /\ a.temp \in Fd /\ a.temp > 2 /\ before[a.temp] = Closed
    /\ a.file # -1 => a.file > 2 /\ before[a.file] = Closed
    /\ a.temp # a.file

\* d is saved or opened by the infos after the first u of them.
Held(infos, u, d) == \E j \in u + 1 .. Len(infos) : d \in {infos[j].temp, infos[j].file}

\* Where the table stands when the first u of the infos are undone: the saved
\* descriptors are copies, what is undone is back, and so is all the rest.
Kept(infos, u, before, table) ==
  /\ \A j \in u + 1 .. Len(infos) : table[infos[j].temp] = before[infos[j].io]
  /\ \A d \in 0 .. 2 :
       (\A j \in u + 1 .. Len(infos) : infos[j].io # d) => table[d] = before[d]
  /\ \A d \in Fd : d > 2 /\ ~Held(infos, u, d) => table[d] = before[d]

\* What the command in a call sees when n redirections are applied, and the
\* descriptors left to it and to the k-th call.
Sees(before, list, n, table) ==
  \A d \in 0 .. 2 : table[d] = Meaning(before, list)[n][d]
Spare(k, n, table) ==
  Cardinality(Free(table)) >= 6 * (MaxCalls - k + 1) - 2 * n

\* The call c, the k-th, with the table that it has.
Tidy(k, c, table) ==
  /\ StandardOpen(c.before)
  /\ Spare(k, 0, c.before)
  /\ Made(c.infos, c.list, c.before)
  /\ Kept(c.infos, c.undone, c.before, table)
  /\ c.pc # "undo" => /\ Sees(c.before, c.list, Len(c.infos), table)
                      /\ Spare(k, Len(c.infos), table)

\* The table as the k-th call has it: the command in it found it so.
TableOf(k) == IF k = Len(calls) THEN fds ELSE calls[k + 1].before

TidyInv ==
  /\ StandardOpen(fds)
  /\ Len(calls) <= MaxCalls
  /\ (IF calls = <<>> THEN fds ELSE calls[1].before) = start.fds
  /\ \A k \in 1 .. Len(calls) : Tidy(k, calls[k], TableOf(k))
  /\ \A k \in 1 .. Len(calls) : Lasts(calls[k].before, fds)
  /\ \A k, l \in 1 .. Len(calls) : k <= l => Lasts(calls[k].before, calls[l].before)
-----------------------------------------------------------------------------
(***************************************************************************)
(* Lemmas about the descriptors                                            *)
(***************************************************************************)
\* The least number that counters a claim about numbers.
LEMMA Smallest ==
  ASSUME NEW S, S \subseteq Nat, S # {}
  PROVE  \E n \in S : \A m \in S : n <= m
<1>1. PICK n \in S : \A m \in S : <<m, n>> \notin OpToRel(<, Nat)
  BY NatLessThanWellFounded, WFMin, Zenon
<1>2. \A m \in S : ~(m < n)
  BY <1>1, Zenon DEF OpToRel
<1>3. \A m \in S : n <= m
  BY <1>2
<1> QED BY <1>3

\* The free descriptors can be counted.
LEMMA FreeCounted == \A t : IsFiniteSet(Free(t)) /\ Cardinality(Free(t)) \in Nat
<1>1. IsFiniteSet(Fd)
  BY FS_Interval, RedirsAssumption DEF Fd
<1> TAKE t
<1>2. Free(t) \in SUBSET Fd
  BY DEF Free
<1> QED BY <1>1, <1>2, FS_Subset, FS_CardinalityType

LEMMA OneElement ==
  ASSUME NEW S, NEW x, IsFiniteSet(S)
  PROVE  /\ IsFiniteSet(S \cup {x}) /\ Cardinality(S \cup {x}) \in Nat
         /\ Cardinality(S \cup {x}) <= Cardinality(S) + 1
<1>1. /\ IsFiniteSet(S \cup {x})
      /\ Cardinality(S \cup {x}) = IF x \in S THEN Cardinality(S) ELSE Cardinality(S) + 1
  BY FS_AddElement
<1>2. Cardinality(S) \in Nat
  BY FS_CardinalityType
<1> QED BY <1>1, <1>2

\* A table has at least as many free descriptors as another one, but for two.
LEMMA FreeTwo ==
  ASSUME NEW t \in Table, NEW u \in Table, NEW x, NEW y,
         \A d \in Fd : t[d] = Closed /\ d # x /\ d # y => u[d] = Closed
  PROVE  Cardinality(Free(u)) >= Cardinality(Free(t)) - 2
<1>2. \A w : IsFiniteSet(Free(w)) /\ Cardinality(Free(w)) \in Nat
  BY FreeCounted
<1> DEFINE A == Free(u) \cup {x}
           B == A \cup {y}
<1>3. IsFiniteSet(A) /\ Cardinality(A) \in Nat /\ Cardinality(A) <= Cardinality(Free(u)) + 1
  BY <1>2, OneElement
<1>4. IsFiniteSet(B) /\ Cardinality(B) \in Nat /\ Cardinality(B) <= Cardinality(A) + 1
  <2> HIDE DEF A
  <2> QED BY <1>3, OneElement
<1>5. Free(t) \in SUBSET B
  BY DEF Free
<1>6. Cardinality(Free(t)) <= Cardinality(B)
  <2> HIDE DEF B
  <2> QED BY <1>4, <1>5, FS_Subset
<1> HIDE DEF A, B
<1> QED BY <1>2, <1>3, <1>4, <1>6

LEMMA FreeOne ==
  ASSUME NEW t \in Table, NEW u \in Table, NEW x,
         \A d \in Fd : t[d] = Closed /\ d # x => u[d] = Closed
  PROVE  Cardinality(Free(u)) >= Cardinality(Free(t)) - 1
<1>1. IsFiniteSet(Free(u) \cup {x}) /\ Cardinality(Free(u) \cup {x}) \in Nat
      /\ Cardinality(Free(u) \cup {x}) <= Cardinality(Free(u)) + 1
  BY FreeCounted, OneElement
<1>2. Free(t) \in SUBSET (Free(u) \cup {x})
  BY DEF Free
<1>3. Cardinality(Free(t)) <= Cardinality(Free(u) \cup {x})
  BY <1>1, <1>2, FS_Subset
<1> QED BY <1>1, <1>3, FreeCounted

\* While descriptors are left, open() and dup() find one.
LEMMA FindsFree ==
  ASSUME NEW t \in Table, NEW n \in Nat, n > 0, Cardinality(Free(t)) >= n
  PROVE  LowestFree(t) \in Fd /\ t[LowestFree(t)] = Closed
<1>1. Free(t) # {}
  BY FS_EmptySet
<1>2. PICK d \in Free(t) : \A e \in Free(t) : d <= e
  <2>1. Free(t) \subseteq Nat
    BY RedirsAssumption DEF Fd, Free
  <2> QED BY <1>1, <2>1, Smallest
<1> QED BY <1>1, <1>2 DEF LowestFree, Free

-----------------------------------------------------------------------------
(***************************************************************************)
(* Lemmas about what a list of redirections stands for                     *)
(***************************************************************************)
\* The table after the first k of the redirections, if there is one.
MeaningOf(before, list, k, m) ==
  m = [j \in 0 .. k |-> IF j = 0 THEN before ELSE Redirected(m[j - 1], list[j])]

LEMMA MeaningExists ==
  ASSUME NEW before, NEW list, NEW n \in Nat
  PROVE  \E m : MeaningOf(before, list, n, m)
<1> DEFINE bad == {k \in Nat : ~\E m : MeaningOf(before, list, k, m)}
<1>1. SUFFICES ASSUME bad # {} PROVE FALSE
  OBVIOUS
<1>2. PICK k \in bad : \A l \in bad : k <= l
  <2>1. bad \subseteq Nat
    OBVIOUS
  <2> HIDE DEF bad
  <2> QED BY <1>1, <2>1, Smallest
<1>3. k \in Nat /\ ~\E m : MeaningOf(before, list, k, m)
  OBVIOUS
<1>4. CASE k = 0
  <2> DEFINE m == [j \in 0 .. 0 |-> before]
  <2>1. m = [j \in 0 .. 0 |-> IF j = 0 THEN before ELSE Redirected(m[j - 1], list[j])]
    OBVIOUS
  <2> HIDE DEF m
  <2> QED BY <1>3, <1>4, <2>1 DEF MeaningOf
<1>5. CASE k # 0
  <2>1. k - 1 \in Nat /\ k - 1 \notin bad
    BY <1>2, <1>3, <1>5
  <2>2. PICK l \in Nat : l = k - 1
    BY <2>1
  <2>3. PICK m : MeaningOf(before, list, l, m)
    BY <2>1, <2>2
  <2> DEFINE next == [j \in 0 .. k |-> IF j = k THEN Redirected(m[l], list[k]) ELSE m[j]]
  <2>4. ASSUME NEW j \in 0 .. k
        PROVE  next[j] = IF j = 0 THEN before ELSE Redirected(next[j - 1], list[j])
    <3>1. CASE j = k
      <4>1. next[j] = Redirected(m[l], list[k]) /\ j - 1 \in 0 .. k /\ j - 1 # k /\ j # 0
        BY <1>3, <1>5, <3>1
      <4>2. next[j - 1] = m[l]
        BY <2>2, <3>1, <4>1
      <4> QED BY <3>1, <4>1, <4>2
    <3>2. CASE j # k
      <4>1. j \in 0 .. l /\ next[j] = m[j]
        BY <1>3, <2>2, <3>2
      <4>2. m[j] = IF j = 0 THEN before ELSE Redirected(m[j - 1], list[j])
        BY <2>3, <4>1 DEF MeaningOf
      <4>3. j # 0 => next[j - 1] = m[j - 1]
        BY <1>3, <2>2, <4>1
      <4> QED BY <4>1, <4>2, <4>3
    <3> QED BY <3>1, <3>2
  <2>5. next = [j \in 0 .. k |-> next[j]]
    OBVIOUS
  <2> HIDE DEF next
  <2>6. next = [j \in 0 .. k |-> IF j = 0 THEN before ELSE Redirected(next[j - 1], list[j])]
    BY <2>4, <2>5
  <2> QED BY <1>3, <2>6 DEF MeaningOf
<1> QED BY <1>4, <1>5

LEMMA MeaningSteps ==
  ASSUME NEW before, NEW list, Len(list) \in Nat
  PROVE  /\ Meaning(before, list)[0] = before
         /\ \A k \in 1 .. Len(list) :
              Meaning(before, list)[k] = Redirected(Meaning(before, list)[k - 1], list[k])
<1> DEFINE M == Meaning(before, list)
<1>1. M = CHOOSE m : MeaningOf(before, list, Len(list), m)
  BY DEF Meaning, MeaningOf
<1>2. MeaningOf(before, list, Len(list), M)
  <2> HIDE DEF M
  <2> QED BY <1>1, MeaningExists
<1> HIDE DEF M
<1>3. \A j \in 0 .. Len(list) :
        M[j] = IF j = 0 THEN before ELSE Redirected(M[j - 1], list[j])
  BY <1>2 DEF MeaningOf
<1> QED BY <1>3 DEF M

\* Redirections change no descriptor but those they name.
LEMMA Unredirected ==
  ASSUME NEW before \in Table, NEW list, Len(list) \in Nat, NEW n \in 0 .. Len(list)
  PROVE  /\ DOMAIN Meaning(before, list)[n] = Fd
         /\ \A d \in Fd : (\A j \in 1 .. n : list[j].io # d)
                            => Meaning(before, list)[n][d] = before[d]
<1> DEFINE M == Meaning(before, list)
           Right(k) == /\ DOMAIN M[k] = Fd
                       /\ \A d \in Fd : (\A j \in 1 .. k : list[j].io # d) => M[k][d] = before[d]
           bad == {k \in 0 .. Len(list) : ~Right(k)}
<1>1. M[0] = before /\ \A k \in 1 .. Len(list) : M[k] = Redirected(M[k - 1], list[k])
  BY MeaningSteps
<1> HIDE DEF M
<1>2. SUFFICES ASSUME bad # {} PROVE FALSE
  BY DEF M
<1>3. PICK k \in bad : \A l \in bad : k <= l
  <2>1. bad \subseteq Nat
    OBVIOUS
  <2> HIDE DEF bad
  <2> QED BY <1>2, <2>1, Smallest
<1>4. k \in 0 .. Len(list) /\ ~Right(k)
  OBVIOUS
<1>5. k # 0
  BY <1>1, <1>4 DEF Table
<1>6. PICK l \in 0 .. Len(list) : k = l + 1
  <2>1. k - 1 \in 0 .. Len(list) /\ k = (k - 1) + 1
    BY <1>4, <1>5
  <2> QED BY <2>1
<1>7. Right(l)
  BY <1>3, <1>6
<1>8. M[k] = Redirected(M[l], list[k])
  <2>1. k \in 1 .. Len(list) /\ k - 1 = l
    BY <1>4, <1>6
  <2> QED BY <1>1, <2>1
<1>9. DOMAIN M[k] = Fd
  BY <1>7, <1>8 DEF Redirected
<1>10. ASSUME NEW d \in Fd, \A j \in 1 .. k : list[j].io # d
       PROVE  M[k][d] = before[d]
  <2>1. list[k].io # d /\ \A j \in 1 .. l : list[j].io # d
    BY <1>4, <1>6, <1>10
  <2>2. M[l][d] = before[d]
    BY <1>7, <2>1
  <2>3. M[k][d] = M[l][d]
    BY <1>7, <1>8, <2>1 DEF Redirected
  <2> QED BY <2>2, <2>3
<1> QED BY <1>4, <1>9, <1>10
-----------------------------------------------------------------------------
(***************************************************************************)
(* Lemmas about one call                                                   *)
(***************************************************************************)
\* A list of redirections of different standard descriptors.
Listed(list) == list \in Seq(Redirection) /\ Len(list) \in 1 .. 3 /\ Standard(list)

\* The table t becomes u when the redirection r is applied with temp and file.
Moves(t, u, r, temp, file) ==
  /\ temp \in Fd /\ t[temp] = Closed
  /\ file \in Fd \cup {-1} /\ (file # -1 => t[file] = Closed) /\ temp # file
  /\ u[temp] = t[r.io]
  /\ u[r.io] = IF r.kind = "file" THEN r.file ELSE t[r.from]
  /\ u[r.io] # Closed
  /\ \A d \in Fd : d # r.io /\ d # temp /\ d # file => u[d] = t[d]

\* infos are those of old and one for the redirection r.
Grown(infos, old, r, temp, file) ==
  /\ infos \in Seq(RedirInfo) /\ old \in Seq(RedirInfo) /\ Len(infos) = Len(old) + 1
  /\ infos[Len(infos)] = [io |-> r.io, temp |-> temp, file |-> file]
  /\ \A j \in 1 .. Len(old) : infos[j] = old[j]

\* What the infos hold is open.
HeldOpen(infos, u, table) == \A d \in Fd : Held(infos, u, d) => table[d] # Closed

LEMMA ListedAll ==
  ASSUME RedirInv, Undisturbed, NEW list \in start.lists
  PROVE  Listed(list)
<1>1. list \in Seq(Redirection) /\ list # <<>> /\ Standard(list)
  BY DEF RedirInv, StartOK, Undisturbed
<1>2. Len(list) \in Nat \ {0} /\ DOMAIN list = 1 .. Len(list)
  BY <1>1
<1>3. \A j, k \in 1 .. Len(list) : list[j].io = list[k].io => j = k
  BY <1>1, <1>2 DEF Standard
<1>4. \A k \in 1 .. Len(list) : list[k].io \in 0 .. 2
  BY <1>1, <1>2 DEF Standard
<1>5. Len(list) <= 3
  <2> SUFFICES ASSUME Len(list) > 3 PROVE FALSE
    BY <1>2
  <2>1. 1 \in 1 .. Len(list) /\ 2 \in 1 .. Len(list) /\ 3 \in 1 .. Len(list) /\ 4 \in 1 .. Len(list)
    BY <1>2
  <2> QED BY <1>3, <1>4, <2>1
<1> QED BY <1>1, <1>2, <1>5 DEF Listed

LEMMA ListedFacts ==
  ASSUME NEW list, Listed(list)
  PROVE  /\ Len(list) \in 1 .. 3 /\ Len(list) \in Nat
         /\ \A k \in 1 .. Len(list) : /\ list[k] \in Redirection /\ list[k].io \in 0 .. 2
                                      /\ list[k].kind = "dup" => list[k].from \in 0 .. 2
         /\ \A j, k \in 1 .. Len(list) : list[j].io = list[k].io => j = k
<1>1. list \in Seq(Redirection) /\ Len(list) \in 1 .. 3 /\ Standard(list)
  BY DEF Listed
<1>2. DOMAIN list = 1 .. Len(list)
  BY <1>1
<1> QED BY <1>1, <1>2 DEF Standard

\* A descriptor that is free is one no info holds.
LEMMA NotHeld ==
  ASSUME NEW infos, NEW u, NEW t, HeldOpen(infos, u, t), NEW d \in Fd, t[d] = Closed
  PROVE  ~Held(infos, u, d)
  BY DEF HeldOpen

LEMMA AboveStandard ==
  ASSUME NEW t, StandardOpen(t), NEW d \in Fd, t[d] = Closed
  PROVE  d > 2
  BY RedirsAssumption DEF StandardOpen, Fd

LEMMA MadeMore ==
  ASSUME NEW list, NEW old, NEW infos, NEW before, NEW t, NEW u, NEW r, NEW temp, NEW file,
         StandardOpen(t), Moves(t, u, r, temp, file), Grown(infos, old, r, temp, file),
         HeldOpen(old, 0, t), Made(old, list, before), Kept(old, 0, before, t),
         r = list[Len(infos)]
  PROVE  Made(infos, list, before)
<1>1. temp \in Fd /\ t[temp] = Closed /\ (file # -1 => file \in Fd /\ t[file] = Closed) /\ temp # file
  BY DEF Moves
<1>2. temp > 2 /\ before[temp] = Closed
  BY <1>1, AboveStandard, NotHeld DEF Kept
<1>3. file # -1 => file > 2 /\ before[file] = Closed
  BY <1>1, AboveStandard, NotHeld DEF Kept
<1>4. /\ Len(old) \in Nat /\ Len(infos) = Len(old) + 1
      /\ infos[Len(infos)] = [io |-> r.io, temp |-> temp, file |-> file]
      /\ \A j \in 1 .. Len(old) : infos[j] = old[j]
  BY DEF Grown
<1>5. ASSUME NEW j \in 1 .. Len(infos)
      PROVE  LET a == infos[j] IN
             /\ a.io = list[j].io
             /\ a.temp \in Fd /\ a.temp > 2 /\ before[a.temp] = Closed
             /\ a.file # -1 => a.file > 2 /\ before[a.file] = Closed
             /\ a.temp # a.file
  <2>1. CASE j = Len(infos)
    BY <1>1, <1>2, <1>3, <1>4, <2>1
  <2>2. CASE j # Len(infos)
    <3>1. j \in 1 .. Len(old) /\ infos[j] = old[j]
      BY <1>4, <2>2
    <3> QED BY <3>1 DEF Made
  <2> QED BY <2>1, <2>2
<1> QED BY <1>5 DEF Made

LEMMA KeptMore ==
  ASSUME NEW list, NEW old, NEW infos, NEW before, NEW t, NEW u, NEW r, NEW temp, NEW file,
         Listed(list), Len(infos) <= Len(list), StandardOpen(t),
         Moves(t, u, r, temp, file), Grown(infos, old, r, temp, file),
         HeldOpen(old, 0, t), Made(old, list, before), Kept(old, 0, before, t),
         r = list[Len(infos)]
  PROVE  Kept(infos, 0, before, u)
<1>1. temp \in Fd /\ t[temp] = Closed /\ (file # -1 => file \in Fd /\ t[file] = Closed) /\ temp # file
  BY DEF Moves
<1>2. temp > 2 /\ (file # -1 => file > 2)
  BY <1>1, AboveStandard
<1>3. /\ Len(old) \in Nat /\ Len(infos) = Len(old) + 1
      /\ infos[Len(infos)] = [io |-> r.io, temp |-> temp, file |-> file]
      /\ \A j \in 1 .. Len(old) : infos[j] = old[j]
  BY DEF Grown
<1> DEFINE m == Len(infos)
<1>4. m \in Nat \ {0} /\ m \in 1 .. m /\ m \in 1 .. Len(list)
      /\ (\A j \in 1 .. m : j = m \/ j \in 1 .. Len(old))
      /\ (\A j \in 1 .. Len(old) : j \in 1 .. Len(list) /\ j # m /\ j \in 1 .. m)
  BY <1>3, ListedFacts
<1>5. infos[m].io = r.io /\ infos[m].temp = temp /\ infos[m].file = file
  BY <1>3
<1> HIDE DEF m
<1>6. r.io \in 0 .. 2 /\ \A j \in 1 .. Len(old) : old[j].io = list[j].io /\ old[j].io # r.io
  BY <1>4, ListedFacts DEF Made, m
<1>7. t[r.io] = before[r.io]
  BY <1>3, <1>6 DEF Kept
<1>8. ASSUME NEW j \in 1 .. m
      PROVE  u[infos[j].temp] = before[infos[j].io]
  <2>1. CASE j = m
    BY <1>5, <1>7, <2>1 DEF Moves
  <2>2. CASE j # m
    <3>1. j \in 1 .. Len(old) /\ infos[j] = old[j]
      BY <1>3, <1>4, <2>2
    <3> DEFINE d == old[j].temp
    <3>2. d \in Fd /\ d > 2 /\ t[d] = before[old[j].io]
      BY <1>3, <3>1 DEF Made, Kept
    <3>3. Held(old, 0, d)
      BY <1>3, <3>1 DEF Held
    <3> HIDE DEF d
    <3>4. d # temp /\ d # file /\ d # r.io
      BY <1>1, <1>6, <3>2, <3>3, NotHeld
    <3> QED BY <3>1, <3>2, <3>4 DEF Moves, d
  <2> QED BY <2>1, <2>2
<1>9. ASSUME NEW d \in 0 .. 2, \A j \in 1 .. m : infos[j].io # d
      PROVE  u[d] = before[d]
  <2>1. d # r.io /\ \A j \in 1 .. Len(old) : old[j].io # d
    BY <1>3, <1>4, <1>5, <1>9
  <2>2. t[d] = before[d]
    BY <1>3, <2>1 DEF Kept
  <2>3. d \in Fd /\ d # temp /\ d # file
    BY <1>2 DEF StandardOpen
  <2> QED BY <2>1, <2>2, <2>3 DEF Moves
<1>10. ASSUME NEW d \in Fd, d > 2, ~Held(infos, 0, d)
       PROVE  u[d] = before[d]
  <2>1. d # temp /\ d # file
    BY <1>4, <1>5, <1>10 DEF Held, m
  <2>2. ~Held(old, 0, d)
    BY <1>3, <1>4, <1>10 DEF Held, m
  <2>3. t[d] = before[d]
    BY <1>10, <2>2 DEF Kept
  <2>4. d # r.io
    BY <1>6, <1>10
  <2> QED BY <2>1, <2>3, <2>4 DEF Moves
<1> QED BY <1>4, <1>8, <1>9, <1>10 DEF Kept, m

LEMMA SeesMore ==
  ASSUME NEW list, NEW n \in Nat, NEW before \in Table, NEW t, NEW u, NEW r, NEW temp, NEW file,
         Listed(list), n + 1 <= Len(list), StandardOpen(t), Moves(t, u, r, temp, file),
         Sees(before, list, n, t), r = list[n + 1], r.kind \in {"file", "dup"}
  PROVE  Sees(before, list, n + 1, u)
<1> DEFINE M == Meaning(before, list)
<1>1. /\ Len(list) \in Nat /\ n + 1 \in 1 .. Len(list) /\ n \in 0 .. Len(list)
      /\ r.io \in 0 .. 2 /\ (r.kind = "dup" => r.from \in 0 .. 2)
  BY ListedFacts
<1>2. DOMAIN M[n] = Fd
  BY <1>1, Unredirected
<1>3. M[n + 1] = Redirected(M[n], r)
  <2>1. (n + 1) - 1 = n
    OBVIOUS
  <2> QED BY <1>1, <2>1, MeaningSteps
<1> HIDE DEF M
<1>4. \A d \in 0 .. 2 : d \in Fd /\ d # temp /\ d # file
  BY AboveStandard DEF Moves, StandardOpen
<1>5. \A d \in 0 .. 2 : t[d] = M[n][d]
  BY DEF Sees, M
<1>6. ASSUME NEW d \in 0 .. 2 PROVE u[d] = M[n + 1][d]
  <2>1. CASE d = r.io
    <3>1. M[n + 1][d] = IF r.kind = "file" THEN r.file ELSE M[n][r.from]
      BY <1>2, <1>3, <1>4, <2>1 DEF Redirected
    <3>2. u[d] = IF r.kind = "file" THEN r.file ELSE t[r.from]
      BY <2>1 DEF Moves
    <3>3. r.kind = "dup" => t[r.from] = M[n][r.from]
      BY <1>1, <1>5
    <3>4. CASE r.kind = "file"
      BY <3>1, <3>2, <3>4
    <3>5. CASE r.kind = "dup"
      BY <3>1, <3>2, <3>3, <3>5
    <3> QED BY <3>4, <3>5
  <2>2. CASE d # r.io
    <3>1. M[n + 1][d] = M[n][d]
      BY <1>2, <1>3, <1>4, <2>2 DEF Redirected
    <3>2. u[d] = t[d]
      BY <1>4, <2>2 DEF Moves
    <3> QED BY <1>5, <3>1, <3>2
  <2> QED BY <2>1, <2>2
<1> QED BY <1>6 DEF Sees, M

LEMMA SpareMore ==
  ASSUME NEW k \in Nat, NEW n \in Nat, NEW t \in Table, NEW u \in Table, NEW r, NEW temp, NEW file,
         r.io \in Fd, t[r.io] # Closed, Moves(t, u, r, temp, file), Spare(k, n, t)
  PROVE  Spare(k, n + 1, u)
<1>1. \A d \in Fd : t[d] = Closed /\ d # temp /\ d # file => u[d] = Closed
  BY DEF Moves
<1>2. Cardinality(Free(u)) >= Cardinality(Free(t)) - 2
  BY <1>1, FreeTwo
<1>3. Cardinality(Free(u)) \in Nat /\ Cardinality(Free(t)) \in Nat
  BY FreeCounted
<1> QED BY <1>2, <1>3, RedirsAssumption DEF Spare

LEMMA TidyMore ==
  ASSUME NEW k \in Nat, NEW c \in Call, NEW d, NEW t \in Table, NEW u \in Table,
         NEW r, NEW temp, NEW file, Listed(c.list), StandardOpen(t), Tidy(k, c, t),
         c.pc = "apply", c.undone = 0, HeldOpen(c.infos, 0, t),
         Moves(t, u, r, temp, file), Grown(d.infos, c.infos, r, temp, file),
         Len(d.infos) <= Len(c.list), r = c.list[Len(d.infos)], r.kind \in {"file", "dup"},
         d.before = c.before, d.list = c.list, d.undone = 0
  PROVE  Tidy(k, d, u) /\ StandardOpen(u)
<1>1. /\ StandardOpen(c.before) /\ Spare(k, 0, c.before) /\ Made(c.infos, c.list, c.before)
      /\ Kept(c.infos, 0, c.before, t) /\ Sees(c.before, c.list, Len(c.infos), t)
      /\ Spare(k, Len(c.infos), t)
  BY DEF Tidy
<1>2. /\ Len(c.infos) \in Nat /\ Len(d.infos) = Len(c.infos) + 1 /\ Len(d.infos) \in 1 .. Len(c.list)
      /\ c.before \in Table
  BY ListedFacts DEF Grown, Call
<1>3. r.io \in 0 .. 2
  BY <1>2, ListedFacts
<1>4. Made(d.infos, c.list, c.before)
  BY <1>1, MadeMore
<1>5. Kept(d.infos, 0, c.before, u)
  BY <1>1, KeptMore
<1>6. Sees(c.before, c.list, Len(d.infos), u)
  BY <1>1, <1>2, SeesMore
<1>7. Spare(k, Len(d.infos), u)
  <2>1. r.io \in Fd /\ t[r.io] # Closed
    BY <1>3 DEF StandardOpen
  <2> QED BY <1>1, <1>2, <2>1, SpareMore
<1>8. StandardOpen(u)
  <2>1. ASSUME NEW e \in 0 .. 2 PROVE e \in Fd /\ u[e] # Closed
    <3>1. e \in Fd /\ t[e] # Closed
      BY DEF StandardOpen
    <3> QED BY <3>1 DEF Moves
  <2> QED BY <2>1 DEF StandardOpen
<1> QED BY <1>1, <1>4, <1>5, <1>6, <1>7, <1>8 DEF Tidy

\* The table t becomes v when a is undone; none after the u-th info but a holds
\* what a holds.
MovesBack(t, v, a) ==
  /\ v[a.io] = t[a.temp] /\ v[a.temp] = Closed /\ (a.file # -1 => v[a.file] = Closed)
  /\ \A d \in Fd : d # a.io /\ d # a.temp /\ d # a.file => v[d] = t[d]
HeldOnce(infos, u, a) ==
  \A j \in u + 2 .. Len(infos) : infos[j].temp # a.temp /\ infos[j].temp # a.file

\* One redirection is undone.
LEMMA TidyLess ==
  ASSUME NEW list, NEW infos \in Seq(RedirInfo), NEW u \in Nat, u < Len(infos),
         NEW before, NEW t \in Table, Listed(list), Len(infos) <= Len(list),
         StandardOpen(before), StandardOpen(t), Made(infos, list, before),
         Kept(infos, u, before, t), NEW v,
         NEW a, a = infos[u + 1],
         MovesBack(t, v, a), HeldOnce(infos, u, a)
  PROVE  Kept(infos, u + 1, before, v) /\ StandardOpen(v)
<1>0. /\ v[a.io] = t[a.temp] /\ v[a.temp] = Closed /\ (a.file # -1 => v[a.file] = Closed)
      /\ \A d \in Fd : d # a.io /\ d # a.temp /\ d # a.file => v[d] = t[d]
      /\ \A j \in u + 2 .. Len(infos) : infos[j].temp # a.temp /\ infos[j].temp # a.file
  BY DEF MovesBack, HeldOnce
<1>1. /\ Len(infos) \in Nat /\ u + 1 \in 1 .. Len(infos) /\ u + 1 \in u + 1 .. Len(infos)
      /\ (u + 1) + 1 = u + 2
      /\ \A j \in u + 1 .. Len(infos) : j = u + 1 \/ j \in u + 2 .. Len(infos)
      /\ \A j \in u + 2 .. Len(infos) : j \in u + 1 .. Len(infos) /\ j \in 1 .. Len(infos)
  OBVIOUS
<1>2. a.io = list[u + 1].io /\ a.io \in 0 .. 2 /\ a.temp \in Fd /\ a.temp > 2
  <2>1. u + 1 \in 1 .. Len(list)
    BY <1>1, ListedFacts
  <2> QED BY <1>1, <2>1, ListedFacts DEF Made
<1>3. a.file # -1 => a.file > 2
  BY <1>1 DEF Made
<1>4. before[a.temp] = Closed /\ (a.file # -1 => before[a.file] = Closed)
  BY <1>1 DEF Made
<1>5. v[a.io] = before[a.io]
  BY <1>0, <1>1 DEF Kept
<1>6. ASSUME NEW j \in u + 2 .. Len(infos)
      PROVE  v[infos[j].temp] = before[infos[j].io]
  <2>1. infos[j].temp \in Fd /\ infos[j].temp > 2
    BY <1>1 DEF Made
  <2>2. t[infos[j].temp] = before[infos[j].io]
    BY <1>1 DEF Kept
  <2>3. infos[j].temp # a.io
    BY <1>2, <2>1
  <2> QED BY <1>0, <2>1, <2>2, <2>3
<1>7. ASSUME NEW d \in 0 .. 2, \A j \in u + 2 .. Len(infos) : infos[j].io # d
      PROVE  v[d] = before[d]
  <2>1. CASE d = a.io
    BY <1>5, <2>1
  <2>2. CASE d # a.io
    <3>1. \A j \in u + 1 .. Len(infos) : infos[j].io # d
      BY <1>1, <1>7, <2>2
    <3>2. t[d] = before[d]
      BY <3>1 DEF Kept
    <3>3. d \in Fd /\ d # a.temp /\ d # a.file
      BY <1>2, <1>3 DEF StandardOpen
    <3> QED BY <1>0, <2>2, <3>2, <3>3
  <2> QED BY <2>1, <2>2
<1>8. ASSUME NEW d \in Fd, d > 2, ~Held(infos, u + 1, d)
      PROVE  v[d] = before[d]
  <2>1. CASE d = a.temp \/ d = a.file
    <3>1. d # -1
      BY <1>8
    <3> QED BY <1>0, <1>4, <2>1, <3>1
  <2>2. CASE d # a.temp /\ d # a.file
    <3>1. ~Held(infos, u, d)
      BY <1>1, <1>8, <2>2 DEF Held
    <3>2. t[d] = before[d]
      BY <1>8, <3>1 DEF Kept
    <3> QED BY <1>0, <1>2, <1>8, <2>2, <3>2
  <2> QED BY <2>1, <2>2
<1>9. Kept(infos, u + 1, before, v)
  BY <1>1, <1>6, <1>7, <1>8 DEF Kept
<1>10. ASSUME NEW d \in 0 .. 2 PROVE d \in Fd /\ v[d] # Closed
  <2>1. d \in Fd /\ t[d] # Closed /\ before[d] # Closed
    BY DEF StandardOpen
  <2>2. d # a.temp /\ d # a.file
    BY <1>2, <1>3
  <2> QED BY <1>0, <1>5, <2>1, <2>2
<1> QED BY <1>9, <1>10 DEF StandardOpen

\* Everything is undone.
LEMMA AllUndone ==
  ASSUME NEW infos \in Seq(RedirInfo), NEW before \in Table, NEW t \in Table,
         Kept(infos, Len(infos), before, t)
  PROVE  t = before
<1>1. Len(infos) \in Nat /\ Len(infos) + 1 .. Len(infos) = {}
  OBVIOUS
<1>2. \A d \in Fd : ~Held(infos, Len(infos), d)
  BY <1>1 DEF Held
<1>3. ASSUME NEW d \in Fd PROVE t[d] = before[d]
  <2>1. CASE d > 2
    BY <1>2, <2>1 DEF Kept
  <2>2. CASE ~(d > 2)
    <3>1. d \in 0 .. 2
      BY <2>2, RedirsAssumption DEF Fd
    <3> QED BY <1>1, <3>1 DEF Kept
  <2> QED BY <2>1, <2>2
<1> QED BY <1>3 DEF Table
-----------------------------------------------------------------------------
(***************************************************************************)
(* The operations, in an undisturbed process                               *)
(***************************************************************************)
\* All that is known of the top call.
LEMMA TidyCall ==
  ASSUME RedirInv, Undisturbed, TidyInv, calls # <<>>
  PROVE  /\ Len(calls) \in Nat /\ Len(calls) \in 1 .. Len(calls) /\ Len(calls) > 0
         /\ Top = calls[Len(calls)] /\ Top \in Call /\ CallOK(Top) /\ Listed(Top.list)
         /\ Tidy(Len(calls), Top, fds) /\ StandardOpen(fds)
         /\ Len(Top.infos) \in Nat /\ Len(Top.list) \in Nat /\ Top.undone \in Nat
         /\ HeldOpen(Top.infos, Top.undone, fds)
<1>1. /\ Len(calls) \in Nat \ {0} /\ Top = calls[Len(calls)] /\ Top \in Call /\ CallOK(Top)
  BY TopIsCall
<1>2. Top.list \in start.lists
  BY <1>1 DEF Call
<1>3. Listed(Top.list)
  BY <1>2, ListedAll
<1>4. Tidy(Len(calls), calls[Len(calls)], fds)
  BY <1>1 DEF TidyInv, TableOf
<1>5. Len(Top.infos) \in Nat /\ Top.undone \in Nat
  BY <1>1 DEF Call
<1>6. Len(Top.list) \in Nat
  BY <1>3, ListedFacts
<1>7. HeldOpen(Top.infos, Top.undone, fds)
  <2> SUFFICES ASSUME NEW d \in Fd, Held(Top.infos, Top.undone, d) PROVE fds[d] # Closed
    BY DEF HeldOpen
  <2>1. PICK j \in Top.undone + 1 .. Len(Top.infos) : d \in {Top.infos[j].temp, Top.infos[j].file}
    BY DEF Held
  <2>2. d # -1
    BY RedirsAssumption DEF Fd
  <2>3. Len(calls) \in 1 .. Len(calls) /\ j \in calls[Len(calls)].undone + 1 .. Len(calls[Len(calls)].infos)
    BY <1>1
  <2>4. LET a == calls[Len(calls)].infos[j] IN
          (a.temp # -1 => IsOpen(a.temp)) /\ (a.file # -1 => IsOpen(a.file))
    BY <2>3, Zenon DEF RedirInv, SavedOpen
  <2> QED BY <1>1, <2>1, <2>2, <2>4 DEF IsOpen
<1> QED BY <1>1, <1>3, <1>4, <1>5, <1>6, <1>7 DEF TidyInv

\* The top call goes on as c.
LEMMA TidyTop ==
  ASSUME TidyInv, calls # <<>>, Len(calls) \in Nat, Len(calls) > 0, Top = calls[Len(calls)],
         NEW c, c.before = Top.before, start' = start,
         calls' # <<>>, Len(calls') = Len(calls),
         \A k \in 1 .. Len(calls) : calls'[k] = IF k = Len(calls) THEN c ELSE calls[k],
         StandardOpen(fds'), Tidy(Len(calls), c, fds'),
         \A k \in 1 .. Len(calls) : Lasts(calls[k].before, fds')
  PROVE  TidyInv'
<1>1. \A k \in 1 .. Len(calls) : calls'[k].before = calls[k].before
  OBVIOUS
<1>2. calls'[1].before = start'.fds
  <2>1. 1 \in 1 .. Len(calls)
    OBVIOUS
  <2> QED BY <1>1, <2>1 DEF TidyInv
<1>3. ASSUME NEW k \in 1 .. Len(calls)
      PROVE  Tidy(k, calls'[k], IF k = Len(calls) THEN fds' ELSE calls'[k + 1].before)
  <2>1. CASE k = Len(calls)
    BY <2>1
  <2>2. CASE k # Len(calls)
    <3>1. k + 1 \in 1 .. Len(calls) /\ calls'[k] = calls[k]
      BY <2>2
    <3>2. Tidy(k, calls[k], calls[k + 1].before)
      BY <2>2 DEF TidyInv, TableOf
    <3> QED BY <1>1, <2>2, <3>1, <3>2
  <2> QED BY <2>1, <2>2
<1>4. \A k \in 1 .. Len(calls') : Tidy(k, calls'[k], TableOf(k)')
  BY <1>3 DEF TableOf
<1>5. \A k \in 1 .. Len(calls') : Lasts(calls'[k].before, fds')
  BY <1>1
<1>6. \A k, l \in 1 .. Len(calls') : k <= l => Lasts(calls'[k].before, calls'[l].before)
  <2>1. \A k, l \in 1 .. Len(calls) : k <= l => Lasts(calls[k].before, calls[l].before)
    BY DEF TidyInv
  <2> QED BY <1>1, <2>1
<1>7. Len(calls') <= MaxCalls'
  BY DEF TidyInv
<1> QED BY <1>2, <1>4, <1>5, <1>6, <1>7 DEF TidyInv

\* Six descriptors for each list are two for each redirection.
LEMMA SpareTwo ==
  ASSUME NEW a \in Nat, NEW m \in Nat, NEW n \in Nat, NEW i \in Nat, n <= m, i + 1 <= 3,
         a >= 6 * (m - n + 1) - 2 * i
  PROVE  a >= 2
  OBVIOUS

LEMMA SpareNext ==
  ASSUME NEW a \in Nat, NEW m \in Nat, NEW n \in Nat, NEW i \in Nat, i <= 3,
         a >= 6 * (m - n + 1) - 2 * i
  PROVE  a >= 6 * (m - (n + 1) + 1) - 2 * 0
  OBVIOUS

LEMMA LastsOn ==
  ASSUME NEW t, NEW u, NEW v, Lasts(t, u),
         \A d \in Fd : d > 2 /\ u[d] # Closed => v[d] = u[d]
  PROVE  Lasts(t, v)
  BY DEF Lasts

\* A redirection is applied with the descriptors temp and file.
LEMMA AppliedTidy ==
  ASSUME RedirInv, Undisturbed, TidyInv, Active("apply"), start' = start, RedirInv',
         NEW temp, NEW file, Applied(Redir.io, temp, file), ended' = ended,
         Moves(fds, fds', Redir, temp, file), Redir.kind \in {"file", "dup"}
  PROVE  TidyInv'
<1> DEFINE info == [io |-> Redir.io, temp |-> temp, file |-> file]
           infos == Append(Top.infos, info)
           c == [Top EXCEPT !.infos = infos,
                            !.pc = IF Len(infos) = Len(Top.list) THEN "eval" ELSE "apply"]
           m == Len(Top.infos) + 1
           n == Len(calls)
<1>0. calls # <<>> /\ Top.pc = "apply"
  BY DEF Active
<1>1. /\ n \in Nat /\ n \in 1 .. n /\ n > 0
      /\ Top = calls[n] /\ Top \in Call /\ CallOK(Top) /\ Listed(Top.list)
      /\ Tidy(n, Top, fds) /\ StandardOpen(fds)
      /\ Len(Top.infos) \in Nat /\ Len(Top.list) \in Nat
      /\ HeldOpen(Top.infos, Top.undone, fds)
  BY <1>0, TidyCall
<1>2. /\ Top.infos \in Seq(RedirInfo) /\ Top.undone = 0 /\ m <= Len(Top.list)
      /\ m \in 1 .. Len(Top.list) /\ Redir = Top.list[m]
  BY <1>0, <1>1 DEF Call, CallOK, Redir
<1>3. fds \in Table /\ fds' \in Table
  BY DEF RedirInv, TypeOK, Table
<1>4. Redir.io \in 0 .. 2 /\ Redir.io \in Fd /\ temp \in Fd /\ file \in Fd \cup {-1}
      /\ info \in RedirInfo
  <2>1. Redir.io \in 0 .. 2
    BY <1>1, <1>2, ListedFacts
  <2>2. Redir.io \in Fd
    BY <1>1, <2>1 DEF StandardOpen
  <2> QED BY <2>1, <2>2 DEF Moves, RedirInfo
<1>5. infos \in Seq(RedirInfo) /\ Len(infos) = m /\ infos[m] = info
      /\ \A i \in 1 .. Len(Top.infos) : infos[i] = Top.infos[i]
  <2> HIDE DEF info
  <2> DEFINE old == Top.infos
  <2>1. old \in Seq(RedirInfo) /\ info \in RedirInfo /\ infos = Append(old, info) /\ m = Len(old) + 1
    BY <1>2, <1>4
  <2> HIDE DEF old, infos, m
  <2>2. /\ infos \in Seq(RedirInfo) /\ Len(infos) = m /\ infos[m] = info
        /\ \A i \in 1 .. Len(old) : infos[i] = old[i]
    BY <2>1
  <2> QED BY <2>2 DEF old
<1>6. Grown(infos, Top.infos, Redir, temp, file)
  <2> HIDE DEF infos
  <2> QED BY <1>2, <1>5 DEF Grown
<1> HIDE DEF infos
<1>7. /\ c \in Call /\ c.infos = infos /\ c.undone = 0 /\ c.list = Top.list
      /\ c.before = Top.before
  BY <1>1, <1>2, <1>5 DEF Call
<1>8. calls' = WithTop(c)
  BY DEF Applied, infos
<1> HIDE DEF c, info
<1>9. calls' # <<>> /\ Len(calls') = Len(calls)
      /\ \A k \in 1 .. Len(calls) : calls'[k] = IF k = Len(calls) THEN c ELSE calls[k]
  <2>1. calls \in Seq(Call)
    BY DEF RedirInv, TypeOK
  <2> QED BY <1>0, <1>1, <1>7, <1>8, <2>1 DEF WithTop
<1>10. Tidy(n, c, fds') /\ StandardOpen(fds')
  <2>1. Len(c.infos) <= Len(Top.list) /\ Redir = Top.list[Len(c.infos)]
    BY <1>2, <1>5, <1>7
  <2>2. Grown(c.infos, Top.infos, Redir, temp, file)
    BY <1>6, <1>7
  <2>3. HeldOpen(Top.infos, 0, fds)
    BY <1>1, <1>2
  <2> HIDE DEF n
  <2> QED BY <1>0, <1>1, <1>2, <1>3, <1>7, <2>1, <2>2, <2>3, TidyMore
<1>11. \A d \in Fd : d > 2 /\ fds[d] # Closed => fds'[d] = fds[d]
  BY <1>4 DEF Moves
<1>12. \A k \in 1 .. Len(calls) : Lasts(calls[k].before, fds')
  BY <1>11, LastsOn DEF TidyInv
<1> QED BY <1>0, <1>1, <1>7, <1>9, <1>10, <1>12, TidyTop

LEMMA ApplyFileTidy ==
  ASSUME RedirInv, Undisturbed, TidyInv, ApplyFile
  PROVE  TidyInv'
<1> DEFINE file == LowestFree(fds)
           opened == [fds EXCEPT ![file] = Redir.file]
           temp == Dup(opened, Redir.io)
           saved == DupTo(opened, Redir.io, temp)
<1>1. /\ Active("apply") /\ Redir.kind = "file" /\ Redir.io \in Fd /\ file # -1
      /\ fds' = [saved EXCEPT ![Redir.io] = Redir.file]
      /\ Applied(Redir.io, temp, file) /\ start' = start /\ ended' = ended
  BY DEF ApplyFile
<1>2. Redir.file \in File /\ Redir.file # Closed
  BY <1>1, NextRedir, RedirsAssumption DEF Redirection
<1>3. fds \in Table
  BY DEF RedirInv, TypeOK
<1>4. file \in Fd /\ fds[file] = Closed
  BY <1>1, <1>3, LowestFreeIsFree
<1>5. /\ Len(calls) \in Nat /\ Len(calls) <= MaxCalls /\ Tidy(Len(calls), Top, fds) /\ StandardOpen(fds)
      /\ Top.pc = "apply" /\ Len(Top.infos) \in Nat /\ Len(Top.infos) + 1 <= 3
      /\ Redir.io \in 0 .. 2
  <2>1. calls # <<>> /\ Top.pc = "apply"
    BY <1>1 DEF Active
  <2>2. /\ Len(calls) \in Nat /\ Top \in Call /\ CallOK(Top) /\ Listed(Top.list)
        /\ Tidy(Len(calls), Top, fds) /\ StandardOpen(fds)
        /\ Len(Top.infos) \in Nat /\ Len(Top.list) \in Nat
    BY <2>1, TidyCall
  <2>3. Len(Top.infos) + 1 \in 1 .. Len(Top.list) /\ Len(Top.list) <= 3
    BY <2>1, <2>2, ListedFacts DEF CallOK
  <2>4. Redir.io \in 0 .. 2
    BY <2>2, <2>3, ListedFacts DEF Redir
  <2> QED BY <2>1, <2>2, <2>3, <2>4 DEF TidyInv
<1>6. fds[Redir.io] # Closed
  BY <1>5 DEF StandardOpen
<1>7. Cardinality(Free(fds)) >= 2
  <2>1. Cardinality(Free(fds)) >= 6 * (MaxCalls - Len(calls) + 1) - 2 * Len(Top.infos)
    BY <1>5 DEF Tidy, Spare
  <2>2. Cardinality(Free(fds)) \in Nat /\ MaxCalls \in Nat
    BY FreeCounted, RedirsAssumption
  <2> QED BY <1>5, <2>1, <2>2, SpareTwo
<1> HIDE DEF file
<1>8. opened \in Table /\ \A d \in Fd : opened[d] = IF d = file THEN Redir.file ELSE fds[d]
  BY <1>2, <1>3, <1>4 DEF Table
<1> HIDE DEF opened
<1>9. opened[Redir.io] = fds[Redir.io] /\ Redir.io # file
  BY <1>1, <1>4, <1>6, <1>8
<1>10. Cardinality(Free(opened)) >= 1
  <2>1. \A d \in Fd : fds[d] = Closed /\ d # file => opened[d] = Closed
    BY <1>8
  <2>2. Cardinality(Free(opened)) >= Cardinality(Free(fds)) - 1
    BY <1>3, <1>8, <2>1, FreeOne
  <2>3. Cardinality(Free(opened)) \in Nat /\ Cardinality(Free(fds)) \in Nat
    BY FreeCounted
  <2> QED BY <1>7, <2>2, <2>3
<1>11. temp \in Fd /\ opened[temp] = Closed
  <2>1. temp = LowestFree(opened)
    BY <1>1, <1>6, <1>9 DEF Dup
  <2>2. 1 \in Nat /\ 1 > 0
    OBVIOUS
  <2> HIDE DEF temp
  <2> QED BY <1>8, <1>10, <2>1, <2>2, FindsFree
<1> HIDE DEF temp
<1>12. temp # -1
  BY <1>11, RedirsAssumption DEF Fd
<1>13. temp # file /\ temp # Redir.io /\ fds[temp] = Closed
  BY <1>2, <1>4, <1>6, <1>8, <1>9, <1>11
<1>14. saved \in Table /\ \A d \in Fd : saved[d] = IF d = temp THEN fds[Redir.io] ELSE opened[d]
  BY <1>1, <1>8, <1>9, <1>11, <1>12 DEF DupTo, Table
<1> HIDE DEF saved
<1>15. \A d \in Fd : fds'[d] = IF d = Redir.io THEN Redir.file ELSE saved[d]
  BY <1>1, <1>2, <1>14 DEF Table
<1>16. Moves(fds, fds', Redir, temp, file)
  BY <1>1, <1>2, <1>4, <1>8, <1>11, <1>13, <1>14, <1>15 DEF Moves
<1>17. Redir.kind \in {"file", "dup"}
  BY <1>1
<1>18. RedirInv'
  BY ApplyFileKeeps
<1> QED BY <1>1, <1>16, <1>17, <1>18, AppliedTidy

LEMMA ApplyDupTidy ==
  ASSUME RedirInv, Undisturbed, TidyInv, ApplyDup
  PROVE  TidyInv'
<1> DEFINE temp == Dup(fds, Redir.io)
           saved == DupTo(fds, Redir.io, temp)
<1>1. /\ Active("apply") /\ Redir.kind = "dup" /\ IsValidFd(Redir.from) /\ temp # -1
      /\ fds' = [saved EXCEPT ![Redir.io] = fds[Redir.from]]
      /\ Applied(Redir.io, temp, -1) /\ start' = start /\ ended' = ended
  BY DEF ApplyDup
<1>2. fds \in [Fd -> File \cup {Closed}]
  BY DEF RedirInv, TypeOK, TidyInv, Table
<1>3. Redir.from \in Fd /\ fds[Redir.from] # Closed
  BY <1>1 DEF IsValidFd, IsOpen
<1>4. /\ Redir.io \in Fd /\ fds[Redir.io] # Closed
      /\ temp \in Fd /\ fds[temp] = Closed
  BY <1>1, <1>2, LowestFreeIsFree DEF Dup, Table
<1> HIDE DEF temp
<1>5. saved \in Table /\ \A d \in Fd : saved[d] = IF d = temp THEN fds[Redir.io] ELSE fds[d]
  BY <1>1, <1>2, <1>4 DEF DupTo, Table
<1> HIDE DEF saved
<1>6. \A d \in Fd : fds'[d] = IF d = Redir.io THEN fds[Redir.from] ELSE saved[d]
  BY <1>1, <1>5 DEF Table
<1>7. Moves(fds, fds', Redir, temp, -1)
  BY <1>1, <1>3, <1>4, <1>5, <1>6 DEF Moves
<1>8. Redir.kind \in {"file", "dup"}
  BY <1>1
<1>9. RedirInv'
  BY ApplyDupKeeps
<1> QED BY <1>1, <1>7, <1>8, <1>9, AppliedTidy

\* exec_redirs() gives up with 2 and leaves nothing: the standard descriptors are
\* open, so it was the first redirection that a stale EBADF had refused.
LEMMA NothingLeft ==
  ASSUME RedirInv, Undisturbed, TidyInv, BadFd, left' = left
  PROVE  fds' = Top.before
<1>1. /\ Active("apply") /\ Redir.kind = "dup" /\ fds' = fds
      /\ left' = IF IsOpen(Redir.from) /\ Top.infos # <<>> THEN left + 1 ELSE left
  BY DEF BadFd
<1>2. calls # <<>> /\ Top.pc = "apply" /\ left \in Nat
  BY <1>1 DEF Active, RedirInv, TypeOK
<1>3. /\ CallOK(Top) /\ Listed(Top.list) /\ StandardOpen(fds) /\ Top \in Call
      /\ Len(Top.infos) \in Nat /\ Len(Top.list) \in Nat /\ Tidy(Len(calls), Top, fds)
  BY <1>2, TidyCall
<1>4. Len(Top.infos) + 1 \in 1 .. Len(Top.list) /\ Top.undone = 0
  BY <1>2, <1>3 DEF CallOK
<1>5. Redir.from \in 0 .. 2
  BY <1>1, <1>3, <1>4, ListedFacts DEF Redir
<1>6. IsOpen(Redir.from)
  BY <1>3, <1>5 DEF IsOpen, StandardOpen
<1>7. Top.infos = <<>>
  BY <1>1, <1>2, <1>6
<1>8. Top.infos \in Seq(RedirInfo) /\ Top.before \in Table /\ fds \in Table
  BY <1>3 DEF Call, RedirInv, TypeOK
<1>9. Kept(Top.infos, Len(Top.infos), Top.before, fds)
  <2>1. Len(Top.infos) = 0
    BY <1>7
  <2> QED BY <1>3, <1>4, <2>1 DEF Tidy
<1> QED BY <1>1, <1>8, <1>9, AllUndone

LEMMA ExecRedirsTidy ==
  ASSUME RedirInv, Undisturbed, TidyInv, NEW list \in start.lists, ExecRedirs(list)
  PROVE  TidyInv'
<1> DEFINE c == [list |-> list, infos |-> <<>>, undone |-> 0, pc |-> "apply", before |-> fds]
           n == Len(calls)
<1>1. /\ calls' = Append(calls, c) /\ start' = start /\ fds' = fds
      /\ ended' = ended /\ (calls # <<>> => Top.pc = "eval") /\ Len(calls) < MaxCalls
  BY DEF ExecRedirs
<1>2. calls \in Seq(Call) /\ n \in Nat /\ (calls = <<>> <=> n = 0)
  BY DEF RedirInv, TypeOK
<1>3. StandardOpen(fds) /\ MaxCalls \in Nat /\ fds \in Table
  BY RedirsAssumption DEF TidyInv, RedirInv, TypeOK
<1>4. Spare(n + 1, 0, fds)
  <2>1. Cardinality(Free(fds)) \in Nat
    BY FreeCounted
  <2>2. CASE calls = <<>>
    <3>1. Cardinality(Free(fds)) >= 6 * MaxCalls
      BY <2>2 DEF Undisturbed, TidyInv
    <3> QED BY <1>2, <1>3, <2>1, <2>2, <3>1 DEF Spare
  <2>3. CASE calls # <<>>
    <3>1. /\ CallOK(Top) /\ Listed(Top.list) /\ Tidy(n, Top, fds)
          /\ Len(Top.infos) \in Nat /\ Len(Top.list) \in Nat
      BY <2>3, TidyCall
    <3>2. Len(Top.infos) <= 3
      BY <3>1, ListedFacts DEF CallOK
    <3>3. Cardinality(Free(fds)) >= 6 * (MaxCalls - n + 1) - 2 * Len(Top.infos)
      BY <1>1, <2>3, <3>1 DEF Tidy, Spare
    <3> HIDE DEF n
    <3> QED BY <1>2, <1>3, <2>1, <3>1, <3>2, <3>3, SpareNext DEF Spare
  <2> QED BY <2>2, <2>3
<1>5. Listed(list)
  BY ListedAll
<1>6. c.list = list /\ c.infos = <<>> /\ c.undone = 0 /\ c.pc = "apply" /\ c.before = fds
      /\ Len(c.infos) = 0
  OBVIOUS
<1>7. c \in Call
  BY <1>3 DEF Call
<1> HIDE DEF c
<1>8. Tidy(n + 1, c, fds)
  <2>1. Made(c.infos, c.list, c.before)
    BY <1>6 DEF Made
  <2>2. Kept(c.infos, c.undone, c.before, fds)
    BY <1>6 DEF Kept
  <2>3. Sees(c.before, c.list, Len(c.infos), fds)
    <3>1. Len(c.list) \in Nat
      BY <1>5, <1>6, ListedFacts
    <3>2. Meaning(c.before, c.list)[0] = c.before
      BY <3>1, MeaningSteps
    <3> QED BY <1>6, <3>2 DEF Sees
  <2> QED BY <1>3, <1>4, <1>6, <2>1, <2>2, <2>3 DEF Tidy
<1>9. /\ Len(calls') = n + 1 /\ calls'[n + 1] = c /\ calls' # <<>>
      /\ \A k \in 1 .. n : calls'[k] = calls[k]
      /\ \A k \in 1 .. n + 1 : k = n + 1 \/ k \in 1 .. n
  BY <1>1, <1>2, <1>7
<1> HIDE DEF n
<1>10. calls'[1].before = start'.fds
  <2>1. CASE n = 0
    BY <1>1, <1>2, <1>6, <1>9, <2>1 DEF TidyInv
  <2>2. CASE n # 0
    <3>1. 1 \in 1 .. n
      BY <1>2, <2>2
    <3> QED BY <1>1, <1>2, <1>9, <2>2, <3>1 DEF TidyInv
  <2> QED BY <2>1, <2>2
<1>11. ASSUME NEW k \in 1 .. n + 1
       PROVE  Tidy(k, calls'[k], IF k = n + 1 THEN fds' ELSE calls'[k + 1].before)
  <2>1. CASE k = n + 1
    BY <1>1, <1>8, <1>9, <2>1
  <2>2. CASE k = n /\ k \in 1 .. n
    <3>1. Tidy(k, calls[k], fds)
      BY <2>2 DEF TidyInv, TableOf, n
    <3> QED BY <1>2, <1>6, <1>9, <2>2, <3>1
  <2>3. CASE k # n /\ k \in 1 .. n
    <3>1. Tidy(k, calls[k], calls[k + 1].before) /\ k + 1 \in 1 .. n
      BY <1>2, <2>3 DEF TidyInv, TableOf, n
    <3> QED BY <1>2, <1>9, <2>3, <3>1
  <2> QED BY <1>9, <2>1, <2>2, <2>3
<1>12. \A k \in 1 .. Len(calls') : Tidy(k, calls'[k], TableOf(k)')
  BY <1>9, <1>11 DEF TableOf
<1>13. ASSUME NEW k \in 1 .. n + 1 PROVE Lasts(calls'[k].before, fds)
  <2>1. CASE k = n + 1
    BY <1>6, <1>9, <2>1 DEF Lasts
  <2>2. CASE k \in 1 .. n
    BY <1>9, <2>2 DEF TidyInv, n
  <2> QED BY <1>9, <2>1, <2>2
<1>14. ASSUME NEW k \in 1 .. n + 1, NEW l \in 1 .. n + 1, k <= l
       PROVE  Lasts(calls'[k].before, calls'[l].before)
  <2>1. CASE l = n + 1
    BY <1>6, <1>9, <1>13, <2>1
  <2>2. CASE l \in 1 .. n
    <3>1. k \in 1 .. n
      BY <1>2, <1>14, <2>2
    <3> QED BY <1>9, <1>14, <2>2, <3>1 DEF TidyInv, n
  <2> QED BY <1>9, <2>1, <2>2
<1>15. Len(calls') <= MaxCalls
  BY <1>1, <1>2, <1>3, <1>9 DEF n
<1> QED BY <1>1, <1>3, <1>9, <1>10, <1>12, <1>13, <1>14, <1>15 DEF TidyInv

LEMMA EvaluatedTidy ==
  ASSUME RedirInv, Undisturbed, TidyInv, Evaluated
  PROVE  TidyInv'
<1> DEFINE c == [Top EXCEPT !.pc = "undo"]
<1>1. /\ calls # <<>> /\ Top.pc = "eval" /\ calls' = WithTop(c)
      /\ start' = start /\ fds' = fds
  BY DEF Evaluated, Active
<1>2. /\ Len(calls) \in Nat /\ Len(calls) > 0 /\ Top = calls[Len(calls)] /\ Top \in Call
      /\ Tidy(Len(calls), Top, fds) /\ StandardOpen(fds)
  BY <1>1, TidyCall
<1>3. /\ c \in Call /\ c.infos = Top.infos /\ c.undone = Top.undone /\ c.pc = "undo"
      /\ c.list = Top.list /\ c.before = Top.before
  BY <1>2 DEF Call
<1> HIDE DEF c
<1>4. Tidy(Len(calls), c, fds')
  BY <1>1, <1>2, <1>3 DEF Tidy
<1>5. calls' # <<>> /\ Len(calls') = Len(calls)
      /\ \A k \in 1 .. Len(calls) : calls'[k] = IF k = Len(calls) THEN c ELSE calls[k]
  <2>1. calls \in Seq(Call)
    BY DEF RedirInv, TypeOK
  <2> QED BY <1>1, <1>2, <1>3, <2>1 DEF WithTop
<1>6. \A k \in 1 .. Len(calls) : Lasts(calls[k].before, fds')
  BY <1>1 DEF TidyInv
<1>7. StandardOpen(fds')
  BY <1>1, <1>2
<1> QED BY <1>1, <1>2, <1>3, <1>4, <1>5, <1>6, <1>7, TidyTop

\* One redirection of the top call is undone.
LEMMA UndoneTidy ==
  ASSUME RedirInv, Undisturbed, TidyInv, Active("undo"), fds' = Undone(Info)
  PROVE  /\ Kept(Top.infos, Top.undone + 1, Top.before, fds') /\ StandardOpen(fds')
         /\ \A k \in 1 .. Len(calls) : Lasts(calls[k].before, fds')
<1>1. calls # <<>> /\ Top.pc = "undo"
  BY DEF Active
<1>2. /\ Len(calls) \in Nat /\ Len(calls) \in 1 .. Len(calls)
      /\ Top = calls[Len(calls)] /\ Top \in Call /\ CallOK(Top) /\ Listed(Top.list)
      /\ Tidy(Len(calls), Top, fds) /\ StandardOpen(fds)
      /\ Len(Top.infos) \in Nat /\ Len(Top.list) \in Nat /\ Top.undone \in Nat
  BY <1>1, TidyCall
<1>3. /\ Top.infos \in Seq(RedirInfo) /\ Top.undone < Len(Top.infos)
      /\ Len(Top.infos) <= Len(Top.list) /\ Info = Top.infos[Top.undone + 1]
      /\ Top.undone + 1 \in 1 .. Len(Top.infos)
  BY <1>1, <1>2 DEF Call, CallOK, Info
<1>4. /\ StandardOpen(Top.before) /\ Made(Top.infos, Top.list, Top.before)
      /\ Kept(Top.infos, Top.undone, Top.before, fds)
  BY <1>2 DEF Tidy
<1>5. fds \in [Fd -> File \cup {Closed}] /\ fds \in Table
  BY DEF RedirInv, TypeOK, Table
<1>6. Info.io \in 0 .. 2 /\ Info.temp \in Fd /\ Info.temp > 2 /\ Top.before[Info.temp] = Closed
      /\ Info.temp # Info.file /\ (Info.file # -1 => Info.file > 2 /\ Top.before[Info.file] = Closed)
  <2>1. Info.io = Top.list[Top.undone + 1].io
    BY <1>3, <1>4 DEF Made
  <2>2. Top.undone + 1 \in 1 .. Len(Top.list)
    BY <1>2, <1>3
  <2>3. Info.io \in 0 .. 2
    BY <1>2, <2>1, <2>2, ListedFacts
  <2> QED BY <1>3, <1>4, <2>3 DEF Made
<1>7. Info.io \in Fd /\ Info.temp # -1 /\ Info.file \in Fd \cup {-1}
      /\ Info.io # Info.temp /\ Info.io # Info.file
  <2>1. Info.io \in Fd
    BY <1>2, <1>6 DEF StandardOpen
  <2>2. Info.file \in Fd \cup {-1}
    <3>1. Info \in RedirInfo
      BY <1>3
    <3> QED BY <3>1 DEF RedirInfo
  <2> QED BY <1>6, <2>1, <2>2
<1>8. /\ fds'[Info.io] = fds[Info.temp] /\ fds'[Info.temp] = Closed
      /\ Info.file # -1 => fds'[Info.file] = Closed
      /\ \A d \in Fd : d # Info.io /\ d # Info.temp /\ d # Info.file => fds'[d] = fds[d]
  BY <1>5, <1>6, <1>7 DEF Undone
<1>9. ASSUME NEW j \in Top.undone + 2 .. Len(Top.infos)
      PROVE  Top.infos[j].temp # Info.temp /\ Top.infos[j].temp # Info.file
  <2>1. /\ j \in calls[Len(calls)].undone + 1 .. Len(calls[Len(calls)].infos)
        /\ Top.undone + 1 \in calls[Len(calls)].undone + 1 .. Len(calls[Len(calls)].infos)
        /\ j # Top.undone + 1 /\ j \in 1 .. Len(Top.infos)
    BY <1>2, <1>3
  <2>2. <<Len(calls), j>> # <<Len(calls), Top.undone + 1>>
    BY <2>1
  <2>3. {Top.infos[j].temp, Top.infos[j].file} \cap {Info.temp, Info.file} \subseteq {-1}
    BY <1>2, <1>3, <2>1, <2>2, Zenon DEF RedirInv, SavedOpen
  <2>4. Top.infos[j].temp \in Fd
    BY <1>4, <2>1 DEF Made
  <2>5. Top.infos[j].temp # -1
    BY <2>4, RedirsAssumption DEF Fd
  <2> QED BY <2>3, <2>5
<1>10. Kept(Top.infos, Top.undone + 1, Top.before, fds') /\ StandardOpen(fds')
  <2>1. MovesBack(fds, fds', Info)
    BY <1>8 DEF MovesBack
  <2>2. HeldOnce(Top.infos, Top.undone, Info)
    BY <1>9 DEF HeldOnce
  <2> DEFINE infos == Top.infos
             u == Top.undone
             before == Top.before
             list == Top.list
             t == fds
             v == fds'
  <2>3. /\ infos \in Seq(RedirInfo) /\ u \in Nat /\ u < Len(infos) /\ t \in Table
        /\ Listed(list) /\ Len(infos) <= Len(list) /\ StandardOpen(before) /\ StandardOpen(t)
        /\ Made(infos, list, before) /\ Kept(infos, u, before, t) /\ Info = infos[u + 1]
        /\ MovesBack(t, v, Info) /\ HeldOnce(infos, u, Info)
    BY <1>2, <1>3, <1>4, <1>5, <2>1, <2>2
  <2> HIDE DEF infos, u, before, list, t, v
  <2>4. Kept(infos, u + 1, before, v) /\ StandardOpen(v)
    BY <2>3, TidyLess
  <2> QED BY <2>4 DEF infos, u, before, v
<1>11. ASSUME NEW k \in 1 .. Len(calls) PROVE Lasts(calls[k].before, fds')
  <2>1. Lasts(calls[k].before, fds)
    BY DEF TidyInv
  <2>2. Lasts(calls[k].before, Top.before)
    <3>1. k <= Len(calls)
      BY <1>2
    <3> QED BY <1>2, <3>1 DEF TidyInv
  <2>3. ASSUME NEW d \in Fd, d > 2, calls[k].before[d] # Closed
        PROVE  fds'[d] = calls[k].before[d]
    <3>1. fds[d] = calls[k].before[d] /\ Top.before[d] = calls[k].before[d]
      BY <2>1, <2>2, <2>3 DEF Lasts
    <3>2. d # -1
      BY <2>3
    <3>3. d # Info.io /\ d # Info.temp /\ d # Info.file
      BY <1>6, <2>3, <3>1, <3>2
    <3> QED BY <1>8, <3>1, <3>3
  <2> QED BY <2>3 DEF Lasts
<1> QED BY <1>10, <1>11

\* The top call returns: the table is as it found it.
LEMMA ReturnTidy ==
  ASSUME RedirInv, Undisturbed, TidyInv, UnapplyRedir, Top.undone + 1 = Len(Top.infos)
  PROVE  fds' = Top.before
<1>1. Active("undo") /\ fds' = Undone(Info)
  BY DEF UnapplyRedir
<1>2. calls # <<>>
  BY <1>1 DEF Active
<1>3. Top \in Call /\ Top.infos \in Seq(RedirInfo) /\ Top.before \in Table
  BY <1>2, TidyCall DEF Call
<1>4. Kept(Top.infos, Len(Top.infos), Top.before, fds')
  BY <1>1, UndoneTidy
<1>5. fds' \in Table
  <2>1. RedirInv'
    BY UnapplyRedirKeeps
  <2> QED BY <2>1 DEF RedirInv, TypeOK, Table
<1> QED BY <1>3, <1>4, <1>5, AllUndone

\* The top call has returned with the table that it found.
LEMMA ReturnedTidy ==
  ASSUME RedirInv, Undisturbed, TidyInv, calls # <<>>,
         calls' = SubSeq(calls, 1, Len(calls) - 1), start' = start, fds' = Top.before,
         StandardOpen(fds'), \A k \in 1 .. Len(calls) : Lasts(calls[k].before, fds')
  PROVE  TidyInv'
<1> DEFINE n == Len(calls)
<1>1. /\ n \in Nat /\ n \in 1 .. n /\ n > 0 /\ Top = calls[n] /\ calls \in Seq(Call)
  BY TidyCall DEF RedirInv, TypeOK
<1>2. PICK m \in Nat : m = n - 1
  BY <1>1
<1>3. /\ Len(calls') = m /\ (\A k \in 1 .. m : calls'[k] = calls[k] /\ k \in 1 .. n /\ k # n)
      /\ n = m + 1
  BY <1>1, <1>2, FrontFacts
<1>4. (IF calls' = <<>> THEN fds' ELSE calls'[1].before) = start'.fds
  <2>1. calls[1].before = start.fds
    BY DEF TidyInv
  <2>2. CASE m = 0
    <3>1. calls' = <<>> /\ n = 1
      BY <1>1, <1>2, <1>3, <2>2
    <3> QED BY <1>1, <2>1, <3>1
  <2>3. CASE m # 0
    <3>1. 1 \in 1 .. m /\ calls' # <<>>
      BY <1>3, <2>3
    <3> QED BY <1>3, <2>1, <3>1
  <2> QED BY <2>2, <2>3
<1>5. ASSUME NEW k \in 1 .. m
      PROVE  Tidy(k, calls'[k], IF k = m THEN fds' ELSE calls'[k + 1].before)
  <2>1. Tidy(k, calls[k], calls[k + 1].before)
    BY <1>3 DEF TidyInv, TableOf
  <2>2. CASE k = m
    BY <1>1, <1>3, <2>1, <2>2
  <2>3. CASE k # m
    <3>1. k + 1 \in 1 .. m
      BY <2>3
    <3> QED BY <1>3, <2>1, <2>3, <3>1
  <2> QED BY <2>2, <2>3
<1>6. \A k \in 1 .. Len(calls') : Tidy(k, calls'[k], TableOf(k)')
  <2> HIDE DEF n
  <2> QED BY <1>3, <1>5 DEF TableOf
<1>7. \A k \in 1 .. Len(calls') : Lasts(calls'[k].before, fds')
  BY <1>3
<1>8. \A k, l \in 1 .. Len(calls') : k <= l => Lasts(calls'[k].before, calls'[l].before)
  <2>1. \A k, l \in 1 .. n : k <= l => Lasts(calls[k].before, calls[l].before)
    BY DEF TidyInv
  <2> HIDE DEF n
  <2> QED BY <1>3, <2>1
<1>9. Len(calls') <= MaxCalls
  BY <1>1, <1>2, <1>3, RedirsAssumption DEF TidyInv
<1>10. StandardOpen(fds')
  OBVIOUS
<1> QED BY <1>4, <1>6, <1>7, <1>8, <1>9, <1>10 DEF TidyInv

LEMMA UnapplyRedirTidy ==
  ASSUME RedirInv, Undisturbed, TidyInv, UnapplyRedir
  PROVE  TidyInv'
<1> DEFINE c == [Top EXCEPT !.undone = @ + 1]
           n == Len(calls)
<1>1. /\ Active("undo") /\ fds' = Undone(Info) /\ start' = start
      /\ calls' = IF Top.undone + 1 = Len(Top.infos)
                  THEN SubSeq(calls, 1, Len(calls) - 1) ELSE WithTop(c)
  BY DEF UnapplyRedir
<1>2. calls # <<>> /\ Top.pc = "undo"
  BY <1>1 DEF Active
<1>3. /\ n \in Nat /\ n \in 1 .. n /\ n > 0 /\ Top = calls[n] /\ Top \in Call
      /\ Tidy(n, Top, fds) /\ Top.undone \in Nat
  BY <1>2, TidyCall
<1>4. /\ Kept(Top.infos, Top.undone + 1, Top.before, fds') /\ StandardOpen(fds')
      /\ \A k \in 1 .. Len(calls) : Lasts(calls[k].before, fds')
  BY <1>1, UndoneTidy
<1>5. calls \in Seq(Call)
  BY DEF RedirInv, TypeOK
<1>6. CASE Top.undone + 1 # Len(Top.infos)
  <2>1. /\ c \in Call /\ c.infos = Top.infos /\ c.undone = Top.undone + 1 /\ c.pc = "undo"
        /\ c.list = Top.list /\ c.before = Top.before
    BY <1>2, <1>3 DEF Call
  <2> HIDE DEF c
  <2>2. Tidy(n, c, fds')
    BY <1>3, <1>4, <2>1 DEF Tidy
  <2>3. calls' # <<>> /\ Len(calls') = Len(calls)
        /\ \A k \in 1 .. Len(calls) : calls'[k] = IF k = Len(calls) THEN c ELSE calls[k]
    BY <1>1, <1>3, <1>5, <1>6, <2>1 DEF WithTop
  <2> QED BY <1>1, <1>2, <1>3, <1>4, <2>1, <2>2, <2>3, TidyTop
<1>7. CASE Top.undone + 1 = Len(Top.infos)
  <2>1. fds' = Top.before
    BY <1>7, ReturnTidy
  <2> QED BY <1>1, <1>2, <1>4, <1>7, <2>1, ReturnedTidy
<1> QED BY <1>6, <1>7

LEMMA BadFdTidy ==
  ASSUME RedirInv, Undisturbed, TidyInv, BadFd, left' = left
  PROVE  TidyInv'
<1>1. /\ calls # <<>> /\ calls' = SubSeq(calls, 1, Len(calls) - 1) /\ start' = start
      /\ fds' = fds
  BY DEF BadFd, Active
<1>2. StandardOpen(fds') /\ \A k \in 1 .. Len(calls) : Lasts(calls[k].before, fds')
  BY <1>1 DEF TidyInv
<1> QED BY <1>1, <1>2, NothingLeft, ReturnedTidy

LEMMA OthersTidy ==
  ASSUME TidyInv, ApplyExits \/ CommandExits \/ NextLine \/ UNCHANGED vars
  PROVE  TidyInv'
<1>1. /\ start' = start /\ fds' = fds /\ calls' = calls
  BY DEF ApplyExits, CommandExits, NextLine, Exit, vars
<1>2. \A k : TableOf(k)' = TableOf(k)
  BY <1>1 DEF TableOf
<1> QED BY <1>1, <1>2 DEF TidyInv
-----------------------------------------------------------------------------
(***************************************************************************)
(* The theorems about processes that start undisturbed                     *)
(***************************************************************************)
\* As long as no stale EBADF has left redirections applied.
QuietInv == RedirInv /\ (Undisturbed /\ left = 0 => TidyInv)

LEMMA QuietInit == Init => QuietInv
<1> SUFFICES ASSUME Init, Undisturbed PROVE TidyInv
  BY RedirInit DEF QuietInv
<1>1. calls = <<>> /\ fds = start.fds
  BY DEF Init
<1>2. Len(calls) = 0 /\ 1 .. Len(calls) = {}
  BY <1>1
<1> QED BY <1>1, <1>2, RedirsAssumption DEF Undisturbed, TidyInv

\* Redirections that are left applied are never undone.
LEMMA LeftStays ==
  ASSUME RedirInv, [Next]_vars
  PROVE  start' = start /\ left' \in {left, left + 1} /\ left \in Nat
BY DEF RedirInv, TypeOK, Next, Step, ExecRedirs, ApplyFile, ApplyDup, BadFd, ApplyExits, Exit,
       Evaluated, CommandExits, UnapplyRedir, NextLine, vars

LEMMA TidyStep ==
  ASSUME RedirInv, Undisturbed, TidyInv, [Next]_vars, left' = left
  PROVE  TidyInv'
<1>1. ASSUME NEW list \in start.lists, ExecRedirs(list) PROVE TidyInv'
  BY <1>1, ExecRedirsTidy
<1>2. CASE ApplyFile
  BY <1>2, ApplyFileTidy
<1>3. CASE ApplyDup
  BY <1>3, ApplyDupTidy
<1>4. CASE BadFd
  BY <1>4, BadFdTidy
<1>5. CASE Evaluated
  BY <1>5, EvaluatedTidy
<1>6. CASE UnapplyRedir
  BY <1>6, UnapplyRedirTidy
<1>7. CASE ApplyExits \/ CommandExits \/ NextLine \/ UNCHANGED vars
  BY <1>7, OthersTidy
<1> QED BY <1>1, <1>2, <1>3, <1>4, <1>5, <1>6, <1>7 DEF Next, Step

LEMMA QuietStep == QuietInv /\ [Next]_vars => QuietInv'
<1> SUFFICES ASSUME QuietInv, [Next]_vars PROVE QuietInv'
  OBVIOUS
<1>1. RedirInv'
  BY RedirStep DEF QuietInv
<1>2. start' = start /\ left' \in {left, left + 1} /\ left \in Nat
  BY LeftStays DEF QuietInv
<1>3. Undisturbed' => Undisturbed
  BY <1>2 DEF Undisturbed
<1>4. left' = 0 => left = 0 /\ left' = left
  BY <1>2
<1>5. Undisturbed /\ left' = 0 => TidyInv'
  BY <1>4, TidyStep DEF QuietInv
<1> QED BY <1>1, <1>3, <1>5 DEF QuietInv

\* A command sees the standard descriptors that its redirections stand for,
\* read from left to right, for every table the shell starts with, every lists
\* of redirections and every depth: whatever exec_redirs() has done for other
\* commands in the meantime is undone when the command goes on, unless a stale
\* EBADF had it give up half-way.
THEOREM CommandsSeeTheirs == Spec => []CommandSees
<1>1. QuietInv => CommandSees
  <2> SUFFICES ASSUME RedirInv, TidyInv, Undisturbed, Active("eval")
               PROVE  \A d \in 0 .. 2 : fds[d] = Meaning(Top.before, Top.list)[Len(Top.list)][d]
    BY DEF QuietInv, CommandSees
  <2>1. calls # <<>> /\ Top.pc = "eval"
    BY DEF Active
  <2>2. /\ CallOK(Top) /\ Tidy(Len(calls), Top, fds)
        /\ Len(Top.infos) \in Nat /\ Len(Top.list) \in Nat
    BY <2>1, TidyCall
  <2>3. Len(Top.infos) = Len(Top.list)
    BY <2>1, <2>2 DEF CallOK
  <2> QED BY <2>1, <2>2, <2>3 DEF Tidy, Sees
<1> QED BY <1>1, QuietInit, QuietStep, PTL DEF Spec

\* exec_redirs() returns with the whole descriptor table as it found it: what
\* was redirected is back, and no descriptor it opened is left, as long as it
\* has not given up on a stale EBADF with redirections applied.
THEOREM RedirsUndone == Spec => Restored
<1>1. QuietInv /\ [Next]_vars =>
        [Len(calls') < Len(calls) /\ Undisturbed /\ left' = 0 => fds' = Top.before]_vars
  <2> SUFFICES ASSUME QuietInv, Undisturbed, [Next]_vars, Len(calls') < Len(calls), left' = 0
               PROVE  fds' = Top.before
    OBVIOUS
  <2>0. RedirInv /\ TidyInv /\ left' = left
    <3>1. left' \in {left, left + 1} /\ left \in Nat
      BY LeftStays DEF QuietInv
    <3>2. left = 0
      BY <3>1
    <3> QED BY <3>1, <3>2 DEF QuietInv
  <2>1. calls \in Seq(Call) /\ Len(calls) \in Nat
    BY <2>0 DEF RedirInv, TypeOK
  <2>2. calls' # calls
    BY <2>1
  <2>3. ~\E list \in start.lists : ExecRedirs(list)
    <3> SUFFICES ASSUME NEW list \in start.lists, ExecRedirs(list) PROVE FALSE
      OBVIOUS
    <3> DEFINE c == [list |-> list, infos |-> <<>>, undone |-> 0, pc |-> "apply", before |-> fds]
    <3>1. calls' = Append(calls, c)
      BY DEF ExecRedirs
    <3> HIDE DEF c
    <3>2. Len(calls') = Len(calls) + 1
      BY <2>1, <3>1
    <3> QED BY <2>1, <3>2
  <2>4. \A c : calls' # WithTop(c)
    BY <2>1 DEF WithTop
  <2>5. UnapplyRedir \/ BadFd
    BY <2>2, <2>3, <2>4
    DEF Next, Step, ApplyFile, ApplyDup, Applied, ApplyExits, Exit, Evaluated, CommandExits,
        NextLine, vars
  <2>6. CASE UnapplyRedir
    <3>1. Top.undone + 1 = Len(Top.infos)
      BY <2>4, <2>6 DEF UnapplyRedir
    <3> QED BY <2>0, <2>6, <3>1, ReturnTidy
  <2>7. CASE BadFd
    BY <2>0, <2>7, NothingLeft
  <2> QED BY <2>5, <2>6, <2>7
<1> QED BY <1>1, QuietInit, QuietStep, PTL DEF Spec, Restored
-----------------------------------------------------------------------------
(***************************************************************************)
(* What is saved, when redirections may have been left applied: the table  *)
(* is then no longer what TidyInv says, but the saved descriptors are.     *)
(***************************************************************************)
\* The descriptors that a call is to put back hold what its redirections of
\* standard descriptors replaced, and are none of these.
SavedIn(c, table) ==
  \A j \in c.undone + 1 .. Len(c.infos) :
    LET a == c.infos[j] IN
    /\ a.io = c.list[j].io
    /\ a.temp # -1 => a.temp > 2 /\ table[a.temp] = c.before[a.io]
    /\ a.file # -1 => a.file > 2

\* While a call applies its list, what it has not redirected is as it was.
Untouched(c, table) ==
  c.pc = "apply" =>
    \A d \in 0 .. 2 : (\A i \in 1 .. Len(c.infos) : c.infos[i].io # d) => table[d] = c.before[d]

KeepInv ==
  /\ StandardOpen(fds)
  /\ \A k \in 1 .. Len(calls) : SavedIn(calls[k], fds)
  /\ calls # <<>> => Untouched(Top, fds)

\* The k-th call has noted a descriptor, which it will put back or close.
Noted(k, d) ==
  \E i \in calls[k].undone + 1 .. Len(calls[k].infos) :
    d \in {calls[k].infos[i].temp, calls[k].infos[i].file}

LEMMA NotedOpen ==
  ASSUME RedirInv, NEW k \in 1 .. Len(calls), NEW d, d # -1, Noted(k, d)
  PROVE  d \in Fd /\ fds[d] # Closed
<1>1. PICK i \in calls[k].undone + 1 .. Len(calls[k].infos) :
        d \in {calls[k].infos[i].temp, calls[k].infos[i].file}
  BY DEF Noted
<1>2. LET a == calls[k].infos[i] IN
        (a.temp # -1 => IsOpen(a.temp)) /\ (a.file # -1 => IsOpen(a.file))
  BY Zenon DEF RedirInv, SavedOpen
<1> QED BY <1>1, <1>2 DEF IsOpen

\* A call that has no more to undone than before keeps what it has saved, if
\* these descriptors are left alone.
LEMMA SavedOn ==
  ASSUME NEW c, NEW d, NEW t, NEW u, SavedIn(c, t), d.infos = c.infos, d.list = c.list,
         d.before = c.before, c.undone \in Nat, d.undone \in Nat, c.undone <= d.undone,
         Len(c.infos) \in Nat,
         \A j \in d.undone + 1 .. Len(c.infos) :
           c.infos[j].temp # -1 => u[c.infos[j].temp] = t[c.infos[j].temp]
  PROVE  SavedIn(d, u)
<1> SUFFICES ASSUME NEW j \in d.undone + 1 .. Len(d.infos)
             PROVE  LET a == d.infos[j] IN
                    /\ a.io = d.list[j].io
                    /\ a.temp # -1 => a.temp > 2 /\ u[a.temp] = d.before[a.io]
                    /\ a.file # -1 => a.file > 2
  BY DEF SavedIn
<1>1. j \in c.undone + 1 .. Len(c.infos) /\ j \in d.undone + 1 .. Len(c.infos)
  OBVIOUS
<1>2. LET a == c.infos[j] IN
        /\ a.io = c.list[j].io
        /\ a.temp # -1 => a.temp > 2 /\ t[a.temp] = c.before[a.io]
        /\ a.file # -1 => a.file > 2
  BY <1>1 DEF SavedIn
<1> QED BY <1>1, <1>2

\* The top call and its list, whose redirections are of standard descriptors.
LEMMA KeepCall ==
  ASSUME RedirInv, Undisturbed, calls # <<>>
  PROVE  /\ Len(calls) \in Nat \ {0} /\ Top = calls[Len(calls)] /\ Top \in Call /\ CallOK(Top)
         /\ Listed(Top.list) /\ Len(Top.list) \in Nat
         /\ Top.infos \in Seq(RedirInfo) /\ Len(Top.infos) \in Nat /\ Top.undone \in Nat
<1>1. /\ Len(calls) \in Nat \ {0} /\ Top = calls[Len(calls)] /\ Top \in Call /\ CallOK(Top)
  BY TopIsCall
<1>2. Listed(Top.list)
  BY <1>1, ListedAll DEF Call
<1> QED BY <1>1, <1>2, ListedFacts DEF Call

\* One more redirection is applied, with the descriptors temp and file.
Takes(temp, file) ==
  /\ temp # -1 => fds[temp] = Closed /\ fds'[temp] = fds[Redir.io]
  /\ file # -1 => fds[file] = Closed
  /\ fds'[Redir.io] # Closed
  /\ \A d \in Fd : d # Redir.io /\ d # temp /\ d # file => fds'[d] = fds[d]

LEMMA AppliedSaved ==
  ASSUME RedirInv, Undisturbed, KeepInv, Active("apply"), Redir.io \in Fd,
         NEW temp \in Fd \cup {-1}, NEW file \in Fd \cup {-1},
         Applied(Redir.io, temp, file), Takes(temp, file)
  PROVE  KeepInv'
<1> DEFINE info == [io |-> Redir.io, temp |-> temp, file |-> file]
           infos == Append(Top.infos, info)
           c == [Top EXCEPT !.infos = infos,
                            !.pc = IF Len(infos) = Len(Top.list) THEN "eval" ELSE "apply"]
           m == Len(Top.infos) + 1
           n == Len(calls)
<1>1. calls # <<>> /\ Top.pc = "apply" /\ calls \in Seq(Call)
  BY DEF Active, RedirInv, TypeOK
<1>2. /\ n \in Nat \ {0} /\ Top = calls[n] /\ Top \in Call /\ CallOK(Top) /\ Listed(Top.list)
      /\ Top.infos \in Seq(RedirInfo) /\ Len(Top.infos) \in Nat /\ Len(Top.list) \in Nat
  BY <1>1, KeepCall
<1>3. Top.undone = 0 /\ m \in 1 .. Len(Top.list) /\ Redir = Top.list[m]
  BY <1>1, <1>2 DEF CallOK, Redir
<1>4. Redir.io \in 0 .. 2
  BY <1>2, <1>3, ListedFacts
<1>5. (temp # -1 => temp \in Fd /\ temp > 2) /\ (file # -1 => file \in Fd /\ file > 2)
  BY AboveStandard DEF KeepInv, Takes
<1>6. /\ infos \in Seq(RedirInfo) /\ Len(infos) = m /\ infos[m] = info
      /\ \A i \in 1 .. m - 1 : infos[i] = Top.infos[i]
  <2>1. info \in RedirInfo
    BY DEF RedirInfo
  <2> HIDE DEF info
  <2> QED BY <1>2, <2>1
<1>7. info.io = Redir.io /\ info.temp = temp /\ info.file = file
  OBVIOUS
<1> HIDE DEF infos, info
<1>8. /\ c.infos = infos /\ c.undone = 0 /\ c.list = Top.list /\ c.before = Top.before
      /\ c \in Call
  BY <1>2, <1>3, <1>6 DEF Call
<1>9. calls' = WithTop(c)
  BY DEF Applied, infos, info
<1> HIDE DEF c
<1>10. /\ Len(calls') = n /\ Top' = c
       /\ \A k \in 1 .. n : calls'[k] = IF k = n THEN c ELSE calls[k]
  <2>1. /\ Len(calls') = n /\ \A k \in 1 .. n : calls'[k] = IF k = n THEN c ELSE calls[k]
    BY <1>1, <1>2, <1>8, <1>9 DEF WithTop
  <2>2. n \in 1 .. n
    BY <1>2
  <2> HIDE DEF n
  <2> QED BY <2>1, <2>2 DEF Top
<1>11. StandardOpen(fds')
  <2>1. ASSUME NEW d \in 0 .. 2 PROVE d \in Fd /\ fds'[d] # Closed
    <3>1. d \in Fd /\ fds[d] # Closed
      BY DEF KeepInv, StandardOpen
    <3> QED BY <1>5, <3>1 DEF Takes
  <2> QED BY <2>1 DEF StandardOpen
<1>12. ASSUME NEW k \in 1 .. n, NEW j \in calls[k].undone + 1 .. Len(calls[k].infos),
              calls[k].infos[j].temp # -1
       PROVE  fds'[calls[k].infos[j].temp] = fds[calls[k].infos[j].temp]
  <2> DEFINE d == calls[k].infos[j].temp
  <2>1. Noted(k, d)
    BY DEF Noted
  <2>2. d \in Fd /\ fds[d] # Closed
    BY <1>12, <2>1, NotedOpen
  <2>3. d > 2
    BY <1>12 DEF KeepInv, SavedIn
  <2> HIDE DEF d
  <2>4. d # Redir.io /\ d # temp /\ d # file
    BY <1>4, <1>5, <2>2, <2>3 DEF Takes
  <2>5. fds'[d] = fds[d]
    BY <2>2, <2>4 DEF Takes
  <2> QED BY <2>5 DEF d
<1>13. ASSUME NEW k \in 1 .. n, k # n PROVE SavedIn(calls'[k], fds')
  <2>1. calls[k] \in Call /\ SavedIn(calls[k], fds) /\ calls'[k] = calls[k]
    BY <1>1, <1>10, <1>13 DEF KeepInv
  <2>2. calls[k].undone \in Nat /\ Len(calls[k].infos) \in Nat /\ calls[k].undone <= calls[k].undone
    BY <2>1 DEF Call
  <2>3. \A j \in calls[k].undone + 1 .. Len(calls[k].infos) :
          calls[k].infos[j].temp # -1 =>
            fds'[calls[k].infos[j].temp] = fds[calls[k].infos[j].temp]
    BY <1>12
  <2> HIDE DEF n
  <2>4. SavedIn(calls[k], fds')
    BY <2>1, <2>2, <2>3, SavedOn
  <2> QED BY <2>1, <2>4
<1>14. SavedIn(c, fds')
  <2> SUFFICES ASSUME NEW j \in 1 .. m
               PROVE  LET a == infos[j] IN
                      /\ a.io = Top.list[j].io
                      /\ a.temp # -1 => a.temp > 2 /\ fds'[a.temp] = Top.before[a.io]
                      /\ a.file # -1 => a.file > 2
    BY <1>6, <1>8 DEF SavedIn
  <2>1. CASE j # m
    <3>1. j \in 1 .. m - 1 /\ j \in calls[n].undone + 1 .. Len(calls[n].infos) /\ n \in 1 .. n
      BY <1>2, <1>3, <2>1
    <3>2. infos[j] = Top.infos[j] /\ SavedIn(Top, fds)
      BY <1>2, <1>6, <3>1 DEF KeepInv
    <3>3. LET a == Top.infos[j] IN
            /\ a.io = Top.list[j].io
            /\ a.temp # -1 => a.temp > 2 /\ fds[a.temp] = Top.before[a.io]
            /\ a.file # -1 => a.file > 2
      BY <1>2, <3>1, <3>2 DEF SavedIn
    <3>4. Top.infos[j].temp # -1 => fds'[Top.infos[j].temp] = fds[Top.infos[j].temp]
      BY <1>2, <1>12, <3>1
    <3> QED BY <3>2, <3>3, <3>4
  <2>2. CASE j = m
    <3>1. \A i \in 1 .. Len(Top.infos) : Top.infos[i].io # Redir.io
      <4> SUFFICES ASSUME NEW i \in 1 .. Len(Top.infos) PROVE Top.infos[i].io # Redir.io
        OBVIOUS
      <4>1. n \in 1 .. n /\ i \in Top.undone + 1 .. Len(Top.infos) /\ i \in 1 .. Len(Top.list) /\ i # m
        BY <1>2, <1>3
      <4>2. Top.infos[i].io = Top.list[i].io
        BY <1>2, <4>1 DEF KeepInv, SavedIn
      <4>3. Top.list[i].io # Top.list[m].io
        BY <1>2, <1>3, <4>1, ListedFacts
      <4> QED BY <1>3, <4>2, <4>3
    <3>2. fds[Redir.io] = Top.before[Redir.io]
      BY <1>1, <1>4, <3>1 DEF KeepInv, Untouched
    <3> QED BY <1>3, <1>5, <1>6, <1>7, <2>2, <3>2 DEF Takes
  <2> QED BY <2>1, <2>2
<1>15. Untouched(c, fds')
  <2> SUFFICES ASSUME NEW d \in 0 .. 2, \A i \in 1 .. Len(c.infos) : c.infos[i].io # d
               PROVE  fds'[d] = c.before[d]
    BY DEF Untouched
  <2>1. \A i \in 1 .. m : infos[i].io # d
    BY <1>6, <1>8
  <2>2. m \in 1 .. m /\ \A i \in 1 .. Len(Top.infos) : i \in 1 .. m /\ i \in 1 .. m - 1
    BY <1>2
  <2>3. d # Redir.io /\ \A i \in 1 .. Len(Top.infos) : Top.infos[i].io # d
    BY <1>6, <1>7, <2>1, <2>2
  <2>4. fds[d] = Top.before[d]
    BY <1>1, <2>3 DEF KeepInv, Untouched
  <2>5. d \in Fd /\ d # temp /\ d # file
    BY <1>5 DEF KeepInv, StandardOpen
  <2> QED BY <1>8, <2>3, <2>4, <2>5 DEF Takes
<1>16. \A k \in 1 .. Len(calls') : SavedIn(calls'[k], fds')
  BY <1>10, <1>13, <1>14
<1> QED BY <1>10, <1>11, <1>15, <1>16 DEF KeepInv

LEMMA ApplyFileSaved ==
  ASSUME RedirInv, Undisturbed, KeepInv, ApplyFile
  PROVE  KeepInv'
<1> DEFINE file == LowestFree(fds)
           opened == [fds EXCEPT ![file] = Redir.file]
           temp == Dup(opened, Redir.io)
           saved == DupTo(opened, Redir.io, temp)
<1>1. /\ Active("apply") /\ Redir.io \in Fd /\ file # -1
      /\ fds' = [saved EXCEPT ![Redir.io] = Redir.file] /\ Applied(Redir.io, temp, file)
  BY DEF ApplyFile
<1>2. Redir.file \in File /\ Redir.file # Closed
  BY <1>1, NextRedir, RedirsAssumption DEF Redirection
<1>3. fds \in Table
  BY DEF RedirInv, TypeOK
<1>4. file \in Fd /\ fds[file] = Closed
  BY <1>1, <1>3, LowestFreeIsFree
<1>5. Redir.io \in 0 .. 2 /\ fds[Redir.io] # Closed
  <2>1. calls # <<>> /\ Top.pc = "apply"
    BY <1>1 DEF Active
  <2>2. CallOK(Top) /\ Listed(Top.list) /\ Len(Top.infos) \in Nat /\ Len(Top.list) \in Nat
    BY <2>1, KeepCall
  <2>3. Len(Top.infos) + 1 \in 1 .. Len(Top.list)
    BY <2>1, <2>2 DEF CallOK
  <2>4. Redir.io \in 0 .. 2
    BY <2>2, <2>3, ListedFacts DEF Redir
  <2> QED BY <2>4 DEF KeepInv, StandardOpen
<1> HIDE DEF file
<1>6. opened \in Table /\ \A d \in Fd : opened[d] = IF d = file THEN Redir.file ELSE fds[d]
  BY <1>2, <1>3, <1>4 DEF Table
<1> HIDE DEF opened
<1>7. temp = -1 \/ (temp \in Fd /\ opened[temp] = Closed)
  BY <1>6, LowestFreeIsFree DEF Dup
<1> HIDE DEF temp
<1>8. opened[Redir.io] = fds[Redir.io] /\ Redir.io # file
  BY <1>1, <1>4, <1>5, <1>6
<1>9. temp # -1 => temp # file /\ temp # Redir.io /\ fds[temp] = Closed
  BY <1>2, <1>4, <1>5, <1>6, <1>7, <1>8
<1>10. saved \in Table /\ \A d \in Fd : saved[d] = IF temp # -1 /\ d = temp THEN fds[Redir.io]
                                                  ELSE opened[d]
  BY <1>1, <1>6, <1>7, <1>8 DEF DupTo, Table
<1> HIDE DEF saved
<1>11. \A d \in Fd : fds'[d] = IF d = Redir.io THEN Redir.file ELSE saved[d]
  BY <1>1, <1>2, <1>10 DEF Table
<1>12. Takes(temp, file)
  BY <1>1, <1>2, <1>4, <1>6, <1>7, <1>9, <1>10, <1>11 DEF Takes
<1>13. temp \in Fd \cup {-1} /\ file \in Fd \cup {-1}
  BY <1>4, <1>7
<1> QED BY <1>1, <1>12, <1>13, AppliedSaved

LEMMA ApplyDupSaved ==
  ASSUME RedirInv, Undisturbed, KeepInv, ApplyDup
  PROVE  KeepInv'
<1> DEFINE temp == Dup(fds, Redir.io)
           saved == DupTo(fds, Redir.io, temp)
<1>1. /\ Active("apply") /\ IsValidFd(Redir.from) /\ temp # -1
      /\ fds' = [saved EXCEPT ![Redir.io] = fds[Redir.from]] /\ Applied(Redir.io, temp, -1)
  BY DEF ApplyDup
<1>2. fds \in [Fd -> File \cup {Closed}]
  BY DEF RedirInv, TypeOK, Table
<1>3. Redir.from \in Fd /\ fds[Redir.from] # Closed
  BY <1>1 DEF IsValidFd, IsOpen
<1>4. /\ Redir.io \in Fd /\ fds[Redir.io] # Closed
      /\ temp \in Fd /\ fds[temp] = Closed
  BY <1>1, <1>2, LowestFreeIsFree DEF Dup, Table
<1> HIDE DEF temp
<1>5. saved \in Table /\ \A d \in Fd : saved[d] = IF d = temp THEN fds[Redir.io] ELSE fds[d]
  BY <1>1, <1>2, <1>4 DEF DupTo, Table
<1> HIDE DEF saved
<1>6. \A d \in Fd : fds'[d] = IF d = Redir.io THEN fds[Redir.from] ELSE saved[d]
  BY <1>1, <1>5 DEF Table
<1>7. Takes(temp, -1)
  BY <1>3, <1>4, <1>5, <1>6 DEF Takes
<1>8. temp \in Fd \cup {-1} /\ -1 \in Fd \cup {-1}
  BY <1>4
<1> QED BY <1>1, <1>4, <1>7, <1>8, AppliedSaved

\* A call begins: it has saved nothing yet.
LEMMA ExecRedirsSaved ==
  ASSUME RedirInv, KeepInv, NEW list \in start.lists, ExecRedirs(list)
  PROVE  KeepInv'
<1> DEFINE c == [list |-> list, infos |-> <<>>, undone |-> 0, pc |-> "apply", before |-> fds]
           n == Len(calls)
<1>1. calls' = Append(calls, c) /\ fds' = fds
  BY DEF ExecRedirs
<1>2. calls \in Seq(Call) /\ n \in Nat /\ fds \in Table
  BY DEF RedirInv, TypeOK
<1>3. c.infos = <<>> /\ c.undone = 0 /\ c.before = fds
  OBVIOUS
<1>4. c \in Call
  BY <1>2 DEF Call
<1> HIDE DEF c
<1>5. /\ Len(calls') = n + 1 /\ calls'[n + 1] = c
      /\ \A k \in 1 .. n : calls'[k] = calls[k]
      /\ \A k \in 1 .. n + 1 : k = n + 1 \/ k \in 1 .. n
  BY <1>1, <1>2, <1>4
<1>6. Top' = c
  BY <1>5 DEF Top
<1>7. SavedIn(c, fds) /\ Untouched(c, fds)
  BY <1>3 DEF SavedIn, Untouched
<1>8. \A k \in 1 .. Len(calls') : SavedIn(calls'[k], fds')
  BY <1>1, <1>5, <1>7 DEF KeepInv
<1>9. StandardOpen(fds')
  BY <1>1 DEF KeepInv
<1> QED BY <1>1, <1>6, <1>7, <1>8, <1>9 DEF KeepInv

LEMMA EvaluatedSaved ==
  ASSUME RedirInv, Undisturbed, KeepInv, Evaluated
  PROVE  KeepInv'
<1> DEFINE c == [Top EXCEPT !.pc = "undo"]
           n == Len(calls)
<1>1. calls # <<>> /\ calls' = WithTop(c) /\ fds' = fds /\ calls \in Seq(Call)
  BY DEF Evaluated, Active, RedirInv, TypeOK
<1>2. /\ n \in Nat \ {0} /\ Top = calls[n] /\ Top \in Call /\ Len(Top.infos) \in Nat
      /\ Top.undone \in Nat
  BY <1>1, KeepCall
<1>3. /\ c \in Call /\ c.infos = Top.infos /\ c.undone = Top.undone /\ c.pc = "undo"
      /\ c.list = Top.list /\ c.before = Top.before
  BY <1>2 DEF Call
<1> HIDE DEF c
<1>4. /\ Len(calls') = n /\ \A k \in 1 .. n : calls'[k] = IF k = n THEN c ELSE calls[k]
  BY <1>1, <1>2, <1>3 DEF WithTop
<1>5. n \in 1 .. n
  BY <1>2
<1> HIDE DEF n
<1>6. Top' = c
  BY <1>4, <1>5 DEF Top
<1>7. SavedIn(c, fds)
  BY <1>2, <1>3, <1>5, SavedOn DEF KeepInv, n
<1>8. \A k \in 1 .. Len(calls') : SavedIn(calls'[k], fds')
  BY <1>1, <1>4, <1>7 DEF KeepInv, n
<1>9. StandardOpen(fds') /\ Untouched(c, fds')
  BY <1>1, <1>3 DEF KeepInv, Untouched
<1> QED BY <1>6, <1>8, <1>9 DEF KeepInv

\* The call on top returns: the one below it is not applying its list.
LEMMA BelowEvaluates ==
  ASSUME RedirInv, calls # <<>>, calls' = SubSeq(calls, 1, Len(calls) - 1)
  PROVE  /\ Len(calls') \in Nat /\ Len(calls') = Len(calls) - 1
         /\ \A k \in 1 .. Len(calls') : calls'[k] = calls[k] /\ k \in 1 .. Len(calls) /\ k # Len(calls)
         /\ calls' # <<>> => Untouched(Top', fds')
<1>1. calls \in Seq(Call) /\ Len(calls) \in Nat \ {0}
  BY DEF RedirInv, TypeOK
<1>2. PICK m \in Nat : m = Len(calls) - 1
  BY <1>1
<1>3. calls' \in Seq(Call) /\ Len(calls') = m /\ \A k \in 1 .. m : calls'[k] = calls[k]
  BY <1>1, <1>2, FrontFacts
<1>4. \A k \in 1 .. m : k \in 1 .. Len(calls) /\ k < Len(calls) /\ k # Len(calls)
  BY <1>1, <1>2
<1>5. ASSUME calls' # <<>> PROVE Untouched(Top', fds')
  <2>1. m \in 1 .. m
    BY <1>3, <1>5
  <2>2. Top' = calls[m]
    BY <1>3, <2>1 DEF Top
  <2>3. calls[m].pc = "eval"
    BY <1>4, <2>1 DEF RedirInv, TypeOK
  <2> QED BY <2>2, <2>3 DEF Untouched
<1> QED BY <1>2, <1>3, <1>4, <1>5

LEMMA BadFdSaved ==
  ASSUME RedirInv, KeepInv, BadFd
  PROVE  KeepInv'
<1>1. calls # <<>> /\ calls' = SubSeq(calls, 1, Len(calls) - 1) /\ fds' = fds
  BY DEF BadFd, Active
<1>2. /\ \A k \in 1 .. Len(calls') : calls'[k] = calls[k] /\ k \in 1 .. Len(calls)
      /\ calls' # <<>> => Untouched(Top', fds')
  BY <1>1, BelowEvaluates
<1>3. \A k \in 1 .. Len(calls') : SavedIn(calls'[k], fds')
  BY <1>1, <1>2 DEF KeepInv
<1>4. StandardOpen(fds')
  BY <1>1 DEF KeepInv
<1> QED BY <1>2, <1>3, <1>4 DEF KeepInv

\* One redirection is undone: it moves a standard descriptor back, and closes
\* descriptors that nothing else is saved in.
LEMMA UndoneSaved ==
  ASSUME RedirInv, Undisturbed, KeepInv, Active("undo"), fds' = Undone(Info)
  PROVE  /\ StandardOpen(fds')
         /\ \A k \in 1 .. Len(calls) : \A j \in calls[k].undone + 1 .. Len(calls[k].infos) :
              <<k, j>> # <<Len(calls), Top.undone + 1>> /\ calls[k].infos[j].temp # -1 =>
                fds'[calls[k].infos[j].temp] = fds[calls[k].infos[j].temp]
<1> DEFINE n == Len(calls)
<1>1. calls # <<>> /\ Top.pc = "undo"
  BY DEF Active
<1>2. /\ n \in Nat \ {0} /\ Top = calls[n] /\ Top \in Call /\ CallOK(Top) /\ Listed(Top.list)
      /\ Top.infos \in Seq(RedirInfo) /\ Len(Top.infos) \in Nat /\ Top.undone \in Nat
      /\ Len(Top.list) \in Nat
  BY <1>1, KeepCall
<1>3. /\ Top.undone + 1 \in Top.undone + 1 .. Len(Top.infos) /\ n \in 1 .. n
      /\ Top.undone + 1 \in 1 .. Len(Top.list) /\ Info = Top.infos[Top.undone + 1]
      /\ Info \in RedirInfo
  BY <1>1, <1>2 DEF CallOK, Info
<1>4. /\ Info.io \in 0 .. 2 /\ Info.io \in Fd /\ Info.temp \in Fd \cup {-1} /\ Info.file \in Fd \cup {-1}
      /\ Info.temp # -1 => Info.temp > 2
      /\ Info.file # -1 => Info.file > 2
  <2>1. /\ Info.io = Top.list[Top.undone + 1].io
        /\ Info.temp # -1 => Info.temp > 2
        /\ Info.file # -1 => Info.file > 2
    <3>1. SavedIn(Top, fds)
      BY <1>2, <1>3 DEF KeepInv
    <3> QED BY <1>3, <3>1 DEF SavedIn
  <2> QED BY <1>2, <1>3, <2>1, ListedFacts DEF RedirInfo
<1>5. Info.temp # -1 => fds[Info.temp] # Closed
  <2>1. Noted(n, Info.temp)
    BY <1>2, <1>3 DEF Noted
  <2> QED BY <1>3, <2>1, NotedOpen
<1>6. fds \in [Fd -> File \cup {Closed}]
  BY DEF RedirInv, TypeOK, Table
<1>7. /\ \A d \in Fd : d # Info.io /\ d # Info.temp /\ d # Info.file => fds'[d] = fds[d]
      /\ fds'[Info.io] = IF Info.temp = -1 THEN fds[Info.io] ELSE fds[Info.temp]
  <2>1. Info.io # Info.file
    BY <1>4
  <2>2. Info.io # Info.temp
    BY <1>4
  <2> QED BY <1>4, <1>6, <2>1, <2>2 DEF Undone
<1>8. ASSUME NEW d \in 0 .. 2 PROVE d \in Fd /\ fds'[d] # Closed
  <2>1. d \in Fd /\ fds[d] # Closed
    BY DEF KeepInv, StandardOpen
  <2>2. d # Info.temp /\ d # Info.file
    BY <1>4, <2>1, RedirsAssumption DEF Fd
  <2> QED BY <1>5, <1>7, <2>1, <2>2
<1>9. ASSUME NEW k \in 1 .. n, NEW j \in calls[k].undone + 1 .. Len(calls[k].infos),
             <<k, j>> # <<n, Top.undone + 1>>, calls[k].infos[j].temp # -1
      PROVE  fds'[calls[k].infos[j].temp] = fds[calls[k].infos[j].temp]
  <2> DEFINE d == calls[k].infos[j].temp
  <2>1. Noted(k, d)
    BY DEF Noted
  <2>2. d \in Fd
    BY <1>9, <2>1, NotedOpen
  <2>3. d > 2
    BY <1>9 DEF KeepInv, SavedIn
  <2>4. {d, calls[k].infos[j].file} \cap {Info.temp, Info.file} \subseteq {-1}
    <3>1. /\ n \in 1 .. Len(calls)
          /\ Top.undone + 1 \in calls[n].undone + 1 .. Len(calls[n].infos)
          /\ Info = calls[n].infos[Top.undone + 1]
      BY <1>2, <1>3
    <3> QED BY <1>9, <3>1, Zenon DEF RedirInv, SavedOpen
  <2>5. d # -1
    BY <1>9
  <2> HIDE DEF d
  <2>6. d # Info.io /\ d # Info.temp /\ d # Info.file
    <3>1. d # Info.io
      BY <1>4, <2>3
    <3>2. d # Info.temp /\ d # Info.file
      BY <2>4, <2>5, Zenon
    <3> QED BY <3>1, <3>2
  <2>7. fds'[d] = fds[d]
    BY <1>7, <2>2, <2>6
  <2> QED BY <2>7 DEF d
<1> QED BY <1>8, <1>9 DEF StandardOpen

LEMMA UnapplyRedirSaved ==
  ASSUME RedirInv, Undisturbed, KeepInv, UnapplyRedir
  PROVE  KeepInv'
<1> DEFINE c == [Top EXCEPT !.undone = @ + 1]
           n == Len(calls)
<1>1. /\ Active("undo") /\ fds' = Undone(Info) /\ calls \in Seq(Call)
      /\ calls' = IF Top.undone + 1 = Len(Top.infos)
                  THEN SubSeq(calls, 1, Len(calls) - 1) ELSE WithTop(c)
  BY DEF UnapplyRedir, RedirInv, TypeOK
<1>2. calls # <<>> /\ Top.pc = "undo"
  BY <1>1 DEF Active
<1>3. /\ n \in Nat \ {0} /\ Top = calls[n] /\ Top \in Call /\ Len(Top.infos) \in Nat
      /\ Top.undone \in Nat
  BY <1>2, KeepCall
<1>4. StandardOpen(fds')
  BY <1>1, UndoneSaved
<1>5. ASSUME NEW k \in 1 .. n, k # n PROVE SavedIn(calls[k], fds')
  <2>1. SavedIn(calls[k], fds) /\ calls[k] \in Call
    BY <1>1 DEF KeepInv
  <2>2. calls[k].undone \in Nat /\ Len(calls[k].infos) \in Nat /\ calls[k].undone <= calls[k].undone
    BY <2>1 DEF Call
  <2>3. \A j \in calls[k].undone + 1 .. Len(calls[k].infos) : <<k, j>> # <<n, Top.undone + 1>>
    BY <1>5
  <2>4. \A j \in calls[k].undone + 1 .. Len(calls[k].infos) :
          calls[k].infos[j].temp # -1 =>
            fds'[calls[k].infos[j].temp] = fds[calls[k].infos[j].temp]
    BY <1>1, <2>3, UndoneSaved
  <2> QED BY <2>1, <2>2, <2>4, SavedOn
<1>6. CASE Top.undone + 1 = Len(Top.infos)
  <2>1. /\ \A k \in 1 .. Len(calls') : calls'[k] = calls[k] /\ k \in 1 .. n /\ k # n
        /\ calls' # <<>> => Untouched(Top', fds')
    BY <1>1, <1>2, <1>6, BelowEvaluates
  <2>2. \A k \in 1 .. Len(calls') : SavedIn(calls'[k], fds')
    BY <1>5, <2>1
  <2> QED BY <1>4, <2>1, <2>2 DEF KeepInv
<1>7. CASE Top.undone + 1 # Len(Top.infos)
  <2>1. /\ c \in Call /\ c.infos = Top.infos /\ c.undone = Top.undone + 1 /\ c.pc = "undo"
        /\ c.list = Top.list /\ c.before = Top.before
    BY <1>2, <1>3 DEF Call
  <2> HIDE DEF c
  <2>2. /\ Len(calls') = n /\ \A k \in 1 .. n : calls'[k] = IF k = n THEN c ELSE calls[k]
    BY <1>1, <1>3, <1>7, <2>1 DEF WithTop
  <2>3. n \in 1 .. n
    BY <1>3
  <2>4. SavedIn(c, fds')
    <3>1. SavedIn(Top, fds)
      BY <1>3, <2>3 DEF KeepInv
    <3>2. Top.undone + 1 \in Nat /\ Top.undone <= Top.undone + 1
      BY <1>3
    <3>3. \A j \in Top.undone + 1 + 1 .. Len(Top.infos) :
            j \in Top.undone + 1 .. Len(Top.infos) /\ <<n, j>> # <<n, Top.undone + 1>>
      BY <1>3
    <3>4. \A j \in c.undone + 1 .. Len(Top.infos) :
            Top.infos[j].temp # -1 => fds'[Top.infos[j].temp] = fds[Top.infos[j].temp]
      BY <1>1, <1>3, <2>1, <2>3, <3>3, UndoneSaved
    <3> QED BY <1>3, <2>1, <3>1, <3>2, <3>4, SavedOn
  <2>5. Untouched(c, fds')
    BY <2>1 DEF Untouched
  <2> HIDE DEF n
  <2>6. Top' = c
    BY <2>2, <2>3 DEF Top
  <2>7. \A k \in 1 .. Len(calls') : SavedIn(calls'[k], fds')
    BY <1>5, <2>2, <2>4
  <2> QED BY <1>4, <2>5, <2>6, <2>7 DEF KeepInv
<1> QED BY <1>6, <1>7

KeptInv == RedirInv /\ (Undisturbed => KeepInv)

LEMMA KeptInit == Init => KeptInv
<1> SUFFICES ASSUME Init, Undisturbed PROVE KeepInv
  BY RedirInit DEF KeptInv
<1>1. calls = <<>> /\ fds = start.fds
  BY DEF Init
<1>2. 1 .. Len(calls) = {}
  BY <1>1
<1> QED BY <1>1, <1>2 DEF Undisturbed, KeepInv

LEMMA KeptStep == KeptInv /\ [Next]_vars => KeptInv'
<1> SUFFICES ASSUME KeptInv, [Next]_vars, Undisturbed PROVE KeepInv'
  <2>1. KeptInv /\ [Next]_vars => RedirInv' /\ start' = start
    BY RedirStep, LeftStays DEF KeptInv
  <2> QED BY <2>1 DEF KeptInv, Undisturbed
<1>0. RedirInv /\ KeepInv
  BY DEF KeptInv
<1>1. ASSUME NEW list \in start.lists, ExecRedirs(list) PROVE KeepInv'
  BY <1>0, <1>1, ExecRedirsSaved
<1>2. CASE ApplyFile
  BY <1>0, <1>2, ApplyFileSaved
<1>3. CASE ApplyDup
  BY <1>0, <1>3, ApplyDupSaved
<1>4. CASE BadFd
  BY <1>0, <1>4, BadFdSaved
<1>5. CASE Evaluated
  BY <1>0, <1>5, EvaluatedSaved
<1>6. CASE UnapplyRedir
  BY <1>0, <1>6, UnapplyRedirSaved
<1>7. CASE ApplyExits \/ CommandExits \/ NextLine \/ UNCHANGED vars
  <2>1. fds' = fds /\ calls' = calls
    BY <1>7 DEF ApplyExits, CommandExits, NextLine, Exit, vars
  <2> QED BY <1>0, <2>1 DEF KeepInv, Top
<1> QED BY <1>1, <1>2, <1>3, <1>4, <1>5, <1>6, <1>7 DEF Next, Step

\* A saved descriptor holds, as long as it is to be put back, what it was saved
\* from, whatever the commands inside do to the descriptors they are given, and
\* also when one of them has left redirections applied.
THEOREM SavedIsKept == Spec => []SavedKept
<1>1. KeptInv => SavedKept
  <2> SUFFICES ASSUME RedirInv, KeepInv, Undisturbed, NEW k \in 1 .. Len(calls),
                      NEW j \in calls[k].undone + 1 .. Len(calls[k].infos),
                      calls[k].infos[j].temp # -1
               PROVE  fds[calls[k].infos[j].temp]
                        = Meaning(calls[k].before, calls[k].list)[j - 1][calls[k].infos[j].io]
    BY DEF KeptInv, SavedKept
  <2> DEFINE before == calls[k].before
             list == calls[k].list
             d == calls[k].infos[j].io
  <2>1. calls[k] \in Call /\ CallOK(calls[k])
    BY DEF RedirInv, TypeOK, CallOK
  <2>2. Listed(list)
    BY <2>1, ListedAll DEF Call
  <2>3. /\ Len(calls[k].infos) \in Nat /\ calls[k].undone \in Nat /\ before \in Table
        /\ Len(list) \in Nat /\ Len(calls[k].infos) <= Len(list)
    BY <2>1, <2>2, ListedFacts DEF Call, CallOK
  <2>4. d = list[j].io /\ fds[calls[k].infos[j].temp] = before[d]
    BY DEF KeepInv, SavedIn
  <2>5. j \in 1 .. Len(list)
    BY <2>3
  <2>6. PICK l \in Nat : l = j - 1
    BY <2>5
  <2> HIDE DEF before, list, d
  <2>7. d \in 0 .. 2 /\ d \in Fd
    <3>1. d \in 0 .. 2
      BY <2>2, <2>4, <2>5, ListedFacts
    <3> QED BY <3>1 DEF KeepInv, StandardOpen
  <2>8. l \in 0 .. Len(list) /\ \A i \in 1 .. l : list[i].io # d
    <3>1. l \in 0 .. Len(list) /\ \A i \in 1 .. l : i \in 1 .. Len(list) /\ i # j
      BY <2>3, <2>5, <2>6
    <3> QED BY <2>2, <2>4, <2>5, <3>1, ListedFacts
  <2>9. Meaning(before, list)[l][d] = before[d]
    BY <2>3, <2>7, <2>8, Unredirected
  <2> QED BY <2>4, <2>6, <2>9 DEF before, list, d
<1> QED BY <1>1, KeptInit, KeptStep, PTL DEF Spec
=============================================================================
