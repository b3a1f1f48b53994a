---------------------------- MODULE Calls_proofs ----------------------------
(***************************************************************************)
(* Proofs about functions and their calls.  First the table of functions   *)
(* as FuncTable has it: without substitutions in the lines, which copies   *)
(* share with their source, nothing is freed twice; and a body that is     *)
(* executed is allocated as long as no running function is defined again   *)
(* or unset.  Then what Calls adds: the vector of variables under          *)
(* add_var(), the array of the parameters under set_var_at(), and both     *)
(* when functions are called and return.                                   *)
(***************************************************************************)
EXTENDS Calls, SequenceTheorems, WellFoundedInduction, TLAPS

-----------------------------------------------------------------------------
(***************************************************************************)
(* The table of functions                                                  *)
(***************************************************************************)
\* A tree without substitutions.
Plain == [root : Tree, subs : {{}}, under : {FALSE}]

Types ==
  /\ fcs \in Seq([name : Name, ast : Plain])
  /\ running \in Seq([name : Name, ast : Plain])
  /\ line \subseteq Plain

\* One place for a name, one owner for a tree.
OwnedOnce ==
  /\ \A j, k \in Places : fcs[j].name = fcs[k].name \/ fcs[j].ast.root = fcs[k].ast.root => j = k
  /\ \A j \in Places : \A ast \in line : fcs[j].ast.root # ast.root

Owned == {fcs[k].ast.root : k \in Places} \cup {ast.root : ast \in line}

OwnersInv == Types /\ OwnedOnce /\ live = Owned

\* A function that runs is in the table with the body that is executed.
RunsFromTable ==
  \A k \in DOMAIN running :
    \E j \in Places : fcs[j].name = running[k].name /\ fcs[j].ast = running[k].ast

-----------------------------------------------------------------------------
LEMMA PlainMemory ==
  ASSUME NEW ast \in Plain
  PROVE  Memory(ast) = {ast.root} /\ Released(ast) = {ast.root}
BY DEF Memory, Released, Plain

LEMMA PlainAst ==
  ASSUME NEW t \in Tree
  PROVE  Ast(t, {}, FALSE) \in Plain /\ Ast(t, {}, FALSE).root = t
BY DEF Ast, Plain

LEMMA PlacesFacts ==
  ASSUME Types
  PROVE  /\ Len(fcs) \in Nat /\ Places = 1 .. Len(fcs)
         /\ \A k \in Places : fcs[k] \in [name : Name, ast : Plain]
                              /\ fcs[k].name \in Name /\ fcs[k].ast \in Plain
<1>1. Len(fcs) \in Nat /\ Places = 1 .. Len(fcs)
  BY LenProperties DEF Types, Places
<1>2. \A k \in Places : fcs[k] \in [name : Name, ast : Plain]
  BY <1>1, ElementOfSeq DEF Types
<1> QED BY <1>1, <1>2

LEMMA RunningFacts ==
  ASSUME Types
  PROVE  /\ Len(running) \in Nat /\ DOMAIN running = 1 .. Len(running)
         /\ \A k \in DOMAIN running : running[k].name \in Name /\ running[k].ast \in Plain
<1>1. Len(running) \in Nat /\ DOMAIN running = 1 .. Len(running)
  BY LenProperties DEF Types
<1>2. \A k \in DOMAIN running : running[k] \in [name : Name, ast : Plain]
  BY <1>1, ElementOfSeq DEF Types
<1> QED BY <1>1, <1>2

LEMMA ReturnFacts ==
  ASSUME Types, Return
  PROVE  /\ running' \in Seq([name : Name, ast : Plain])
         /\ DOMAIN running' = 1 .. Len(running) - 1
         /\ \A k \in DOMAIN running' : k \in DOMAIN running /\ running'[k] = running[k]
<1> DEFINE S == [name : Name, ast : Plain]
           r == Len(running) - 1
<1>1. running \in Seq(S) /\ running # <<>> /\ running' = SubSeq(running, 1, r)
  BY DEF Types, Return
<1> HIDE DEF S
<1>2. Len(running) \in Nat \ {0}
  BY <1>1, EmptySeq
<1>3. r \in Nat /\ r <= Len(running) /\ DOMAIN running = 1 .. Len(running)
  BY <1>1, <1>2, LenProperties
<1>4. running' \in Seq(S) /\ Len(running') = r
  BY <1>1, <1>2, <1>3
<1>5. DOMAIN running' = 1 .. r
  BY <1>4, LenProperties
<1>6. \A k \in 1 .. r : k \in DOMAIN running /\ running'[k] = running[k]
  BY <1>1, <1>2, <1>3
<1> QED BY <1>4, <1>5, <1>6 DEF S

\* A copy is a tree of its own.
LEMMA CopiesArePlain ==
  ASSUME Types, NEW t \in Tree
  PROVE  Copies(t) = {Ast(t, {}, FALSE)}
<1>1. \A ast \in Sources : ast.subs = {} /\ ast.under = FALSE
  BY RunningFacts DEF Sources, Types, Plain
<1> QED BY <1>1 DEF Copies

LEMMA PlaceFacts ==
  ASSUME NEW n, IsDefined(n)
  PROVE  Place(n) \in Places /\ fcs[Place(n)].name = n
BY DEF IsDefined, Place

-----------------------------------------------------------------------------
(* The steps *)

LEMMA InitOwners == Init => OwnersInv /\ RunsFromTable
BY EmptySeq DEF Init, OwnersInv, Types, OwnedOnce, Owned, Places, RunsFromTable

LEMMA NextLineOwners ==
  ASSUME OwnersInv, ~Substitutes, NextLine
  PROVE  OwnersInv'
<1>1. PICK t \in Free : line' = {Ast(t, {}, FALSE)} /\ live' = live \cup {t}
  BY DEF NextLine
<1>2. /\ t \in Tree \ live /\ UNCHANGED <<fcs, running>> /\ line = {}
  BY <1>1 DEF NextLine, Free, Executing
<1>3. Types'
  BY <1>1, <1>2, PlainAst DEF OwnersInv, Types
<1>4. line' = {Ast(t, {}, FALSE)} /\ Ast(t, {}, FALSE).root = t
  BY <1>1, <1>2, PlainAst
<1>5. OwnedOnce'
  <2>1. \A j \in Places : fcs[j].ast.root # t
    BY <1>2 DEF OwnersInv, Owned
  <2>2. Places' = Places /\ fcs' = fcs
    BY <1>2 DEF Places
  <2> QED BY <1>4, <2>1, <2>2 DEF OwnersInv, OwnedOnce
<1>6. (live = Owned)'
  BY <1>1, <1>2, <1>4 DEF OwnersInv, Owned, Places
<1> QED BY <1>3, <1>5, <1>6 DEF OwnersInv

LEMMA LineEndsOwners ==
  ASSUME OwnersInv, LineEnds
  PROVE  OwnersInv'
<1>1. line' = {} /\ live' = live \ ReleasedOf(line) /\ UNCHANGED <<fcs, running>>
  BY DEF LineEnds
<1>2. ReleasedOf(line) = {ast.root : ast \in line}
  <2>1. \A ast \in line : Released(ast) = {ast.root}
    BY PlainMemory DEF OwnersInv, Types
  <2> QED BY <2>1 DEF ReleasedOf
<1>3. Types' /\ OwnedOnce'
  BY <1>1 DEF OwnersInv, Types, OwnedOnce, Places
<1>4. (live = Owned)'
  BY <1>1, <1>2 DEF OwnersInv, Owned, OwnedOnce, Places
<1> QED BY <1>3, <1>4 DEF OwnersInv

LEMMA AddNewOwners ==
  ASSUME OwnersInv, NEW n \in Name, AddNew(n), UNCHANGED <<line, running>>
  PROVE  OwnersInv'
<1>1. PICK t \in Free : fcs' = Append(fcs, [name |-> n, ast |-> Ast(t, {}, FALSE)]) /\ live' = live \cup {t}
  <2>1. PICK t \in Free : \E ast \in Copies(t) :
          fcs' = Append(fcs, [name |-> n, ast |-> ast]) /\ live' = live \cup {t}
    BY DEF AddNew
  <2>2. Copies(t) = {Ast(t, {}, FALSE)}
    BY CopiesArePlain DEF OwnersInv, Free
  <2> QED BY <2>1, <2>2
<1> DEFINE new == [name |-> n, ast |-> Ast(t, {}, FALSE)]
<1>2. /\ t \in Tree \ live /\ ~IsDefined(n)
      /\ new \in [name : Name, ast : Plain] /\ new.name = n /\ new.ast.root = t
  BY <1>1, PlainAst DEF AddNew, Free
<1> HIDE DEF new
<1>3. fcs' = Append(fcs, new)
  BY <1>1 DEF new
<1>4. /\ fcs' \in Seq([name : Name, ast : Plain]) /\ Len(fcs') = Len(fcs) + 1
      /\ \A k \in 1 .. Len(fcs) : fcs'[k] = fcs[k]
      /\ fcs'[Len(fcs) + 1] = new
  BY <1>2, <1>3, AppendProperties DEF OwnersInv, Types
<1>5. /\ Len(fcs) \in Nat /\ Places = 1 .. Len(fcs) /\ Places' = 1 .. Len(fcs) + 1
  BY <1>4, PlacesFacts, LenProperties DEF OwnersInv, Places
<1>6. Types'
  BY <1>4 DEF OwnersInv, Types
<1>7. \A j \in Places : fcs[j].name # n /\ fcs[j].ast.root # t
  BY <1>2 DEF IsDefined, OwnersInv, Owned
<1>8. OwnedOnce'
  <2>1. ASSUME NEW j \in Places', NEW k \in Places',
               fcs'[j].name = fcs'[k].name \/ fcs'[j].ast.root = fcs'[k].ast.root
        PROVE  j = k
    <3>1. CASE j \in Places /\ k \in Places
      BY <1>4, <1>5, <2>1, <3>1 DEF OwnersInv, OwnedOnce
    <3>2. CASE j = Len(fcs) + 1 /\ k \in Places
      BY <1>2, <1>4, <1>5, <1>7, <2>1, <3>2
    <3>3. CASE j \in Places /\ k = Len(fcs) + 1
      BY <1>2, <1>4, <1>5, <1>7, <2>1, <3>3
    <3>4. CASE j = Len(fcs) + 1 /\ k = Len(fcs) + 1
      BY <3>4
    <3> QED BY <1>5, <3>1, <3>2, <3>3, <3>4
  <2>2. ASSUME NEW j \in Places', NEW ast \in line' PROVE fcs'[j].ast.root # ast.root
    <3>1. CASE j \in Places
      BY <1>4, <1>5, <3>1 DEF OwnersInv, OwnedOnce
    <3>2. CASE j = Len(fcs) + 1
      BY <1>2, <1>4, <3>2 DEF OwnersInv, Owned
    <3> QED BY <1>5, <3>1, <3>2
  <2> QED BY <2>1, <2>2 DEF OwnedOnce
<1>9. (live = Owned)'
  <2>1. {fcs'[k].ast.root : k \in Places'} = {fcs[k].ast.root : k \in Places} \cup {t}
    BY <1>2, <1>4, <1>5
  <2> QED BY <1>1, <2>1 DEF OwnersInv, Owned
<1> QED BY <1>6, <1>8, <1>9 DEF OwnersInv

LEMMA AddAgainOwners ==
  ASSUME OwnersInv, NEW n \in Name, AddAgain(n), UNCHANGED <<line, running>>
  PROVE  OwnersInv'
<1> DEFINE p == Place(n)
           old == fcs[p].ast.root
<1>1. PICK t \in Free : /\ fcs' = [fcs EXCEPT ![p].ast = Ast(t, {}, FALSE)]
                        /\ live' = (live \cup {t}) \ Released(fcs[p].ast)
  <2>1. PICK t \in Free : \E ast \in Copies(t) :
          fcs' = [fcs EXCEPT ![p].ast = ast] /\ live' = (live \cup {t}) \ Released(fcs[p].ast)
    BY DEF AddAgain
  <2>2. Copies(t) = {Ast(t, {}, FALSE)}
    BY CopiesArePlain DEF OwnersInv, Free
  <2> QED BY <2>1, <2>2
<1>2. /\ t \in Tree \ live /\ Ast(t, {}, FALSE) \in Plain /\ Ast(t, {}, FALSE).root = t
      /\ p \in Places /\ fcs[p].name = n
  BY PlainAst, PlaceFacts DEF AddAgain, Free
<1>3. /\ Len(fcs) \in Nat /\ Places = 1 .. Len(fcs)
      /\ \A k \in Places : fcs[k] \in [name : Name, ast : Plain]
                           /\ fcs[k].name \in Name /\ fcs[k].ast \in Plain
  BY PlacesFacts DEF OwnersInv
<1>4. Released(fcs[p].ast) = {old}
  BY <1>2, <1>3, PlainMemory
<1> HIDE DEF p
<1>5. /\ fcs' \in Seq([name : Name, ast : Plain]) /\ Places' = Places
      /\ \A k \in Places : fcs'[k].name = fcs[k].name
                           /\ fcs'[k].ast = IF k = p THEN Ast(t, {}, FALSE) ELSE fcs[k].ast
  <2> DEFINE entry == [fcs[p] EXCEPT !.ast = Ast(t, {}, FALSE)]
  <2>1. fcs' = [fcs EXCEPT ![p] = entry]
    BY <1>1
  <2>2. /\ entry \in [name : Name, ast : Plain]
        /\ entry.name = fcs[p].name /\ entry.ast = Ast(t, {}, FALSE)
    BY <1>2, <1>3
  <2> HIDE DEF entry
  <2>3. fcs' \in Seq([name : Name, ast : Plain]) /\ Len(fcs') = Len(fcs)
    BY <1>2, <1>3, <2>1, <2>2 DEF OwnersInv, Types
  <2>4. Places' = Places
    BY <2>1 DEF Places
  <2>5. \A k \in Places : fcs'[k] = IF k = p THEN entry ELSE fcs[k]
    BY <2>1 DEF Places
  <2> QED BY <2>2, <2>3, <2>4, <2>5
<1>6. Types'
  BY <1>5 DEF OwnersInv, Types
<1>7. \A j \in Places : fcs[j].ast.root # t
  BY <1>2 DEF OwnersInv, Owned
<1>11. \A k \in Places' : /\ k \in Places /\ fcs'[k].name = fcs[k].name
                          /\ fcs'[k].ast.root = IF k = p THEN t ELSE fcs[k].ast.root
  BY <1>2, <1>5
<1>8. OwnedOnce'
  <2>1. ASSUME NEW j \in Places', NEW k \in Places',
               fcs'[j].name = fcs'[k].name \/ fcs'[j].ast.root = fcs'[k].ast.root
        PROVE  j = k
    BY <1>7, <1>11, <2>1 DEF OwnersInv, OwnedOnce
  <2>2. ASSUME NEW j \in Places', NEW ast \in line' PROVE fcs'[j].ast.root # ast.root
    BY <1>2, <1>11 DEF OwnersInv, OwnedOnce, Owned
  <2> QED BY <2>1, <2>2 DEF OwnedOnce
<1>9. (live = Owned)'
  <2>1. {fcs'[k].ast.root : k \in Places'} = ({fcs[k].ast.root : k \in Places} \ {old}) \cup {t}
    BY <1>2, <1>5, <1>11 DEF OwnersInv, OwnedOnce
  <2>2. old \notin {ast.root : ast \in line} /\ old # t
    BY <1>2, <1>7 DEF OwnersInv, OwnedOnce
  <2>3. live = {fcs[k].ast.root : k \in Places} \cup {ast.root : ast \in line}
    BY DEF OwnersInv, Owned
  <2>4. live' = (live \cup {t}) \ {old} /\ line' = line
    BY <1>1, <1>4
  <2>5. Owned' = {fcs'[k].ast.root : k \in Places'} \cup {ast.root : ast \in line}
    BY <2>4 DEF Owned
  <2> HIDE DEF old
  <2> QED BY <2>1, <2>2, <2>3, <2>4, <2>5
<1> QED BY <1>6, <1>8, <1>9 DEF OwnersInv

LEMMA FunctionIsSeq ==
  ASSUME NEW S, NEW n \in Nat, NEW f \in [1 .. n -> S]
  PROVE  f \in Seq(S)
  BY SeqDef

\* Where the functions that stay are after a function is taken out.
Before(p, k) == IF k < p THEN k ELSE k + 1

LEMMA ShiftedFacts ==
  ASSUME Types, NEW p \in Places
  PROVE  /\ Shifted(p) \in Seq([name : Name, ast : Plain])
         /\ DOMAIN Shifted(p) = 1 .. Len(fcs) - 1
         /\ \A k \in 1 .. Len(fcs) - 1 :
              /\ Before(p, k) \in Places /\ Before(p, k) # p
              /\ Shifted(p)[k] = fcs[Before(p, k)]
         /\ \A j \in Places \ {p} : \E k \in 1 .. Len(fcs) - 1 : j = Before(p, k)
         /\ \A j, k \in 1 .. Len(fcs) - 1 : Before(p, j) = Before(p, k) => j = k
<1>1. /\ Len(fcs) \in Nat /\ Places = 1 .. Len(fcs)
      /\ \A k \in Places : fcs[k] \in [name : Name, ast : Plain]
  BY PlacesFacts
<1>2. DOMAIN Shifted(p) = 1 .. Len(fcs) - 1
  BY DEF Shifted
<1>3. \A k \in 1 .. Len(fcs) - 1 : /\ Before(p, k) \in Places /\ Before(p, k) # p
                                   /\ Shifted(p)[k] = fcs[Before(p, k)]
  BY <1>1 DEF Shifted, Before
<1>4. Shifted(p) \in Seq([name : Name, ast : Plain])
  <2>1. Shifted(p) \in [1 .. Len(fcs) - 1 -> [name : Name, ast : Plain]]
    BY <1>1, <1>3 DEF Shifted, Before
  <2>2. Len(fcs) - 1 \in Nat
    BY <1>1
  <2> QED BY <2>1, <2>2, FunctionIsSeq
<1>5. ASSUME NEW j \in Places \ {p} PROVE \E k \in 1 .. Len(fcs) - 1 : j = Before(p, k)
  <2>1. CASE j < p
    BY <1>1, <2>1 DEF Before
  <2>2. CASE j > p
    <3>1. j - 1 \in 1 .. Len(fcs) - 1 /\ Before(p, j - 1) = j
      BY <1>1, <2>2 DEF Before
    <3> QED BY <3>1
  <2> QED BY <1>1, <2>1, <2>2
<1>6. \A j, k \in 1 .. Len(fcs) - 1 : Before(p, j) = Before(p, k) => j = k
  BY <1>1 DEF Before
<1> QED BY <1>2, <1>3, <1>4, <1>5, <1>6

LEMMA DestroyOwners ==
  ASSUME OwnersInv, NEW n \in Name, DestroyFc(n)
  PROVE  OwnersInv'
<1> DEFINE p == Place(n)
           old == fcs[p].ast.root
<1>1. /\ fcs' = Shifted(p) /\ live' = live \ Released(fcs[p].ast) /\ UNCHANGED <<line, running>>
      /\ p \in Places
  BY PlaceFacts DEF DestroyFc
<1>2. Released(fcs[p].ast) = {old}
  BY <1>1, PlacesFacts, PlainMemory DEF OwnersInv
<1> HIDE DEF p
<1> DEFINE N == 1 .. Len(fcs) - 1
<1>3. /\ fcs' \in Seq([name : Name, ast : Plain]) /\ Places' = N
      /\ \A k \in N : Before(p, k) \in Places /\ Before(p, k) # p /\ fcs'[k] = fcs[Before(p, k)]
      /\ \A j \in Places \ {p} : \E k \in N : j = Before(p, k)
      /\ \A j, k \in N : Before(p, j) = Before(p, k) => j = k
  BY <1>1, ShiftedFacts DEF OwnersInv, Places
<1> HIDE DEF N
<1>4. Types'
  BY <1>1, <1>3 DEF OwnersInv, Types
<1>5. OwnedOnce'
  <2>1. ASSUME NEW j \in Places', NEW k \in Places',
               fcs'[j].name = fcs'[k].name \/ fcs'[j].ast.root = fcs'[k].ast.root
        PROVE  j = k
    BY <1>3, <2>1 DEF OwnersInv, OwnedOnce
  <2>2. ASSUME NEW j \in Places', NEW ast \in line' PROVE fcs'[j].ast.root # ast.root
    BY <1>1, <1>3 DEF OwnersInv, OwnedOnce
  <2> QED BY <2>1, <2>2 DEF OwnedOnce
<1>6. (live = Owned)'
  <2>1. {fcs'[k].ast.root : k \in Places'} = {fcs[k].ast.root : k \in Places \ {p}}
    BY <1>3
  <2>2. {fcs[k].ast.root : k \in Places \ {p}} = {fcs[k].ast.root : k \in Places} \ {old}
    BY <1>1 DEF OwnersInv, OwnedOnce
  <2>3. old \notin {ast.root : ast \in line}
    BY <1>1 DEF OwnersInv, OwnedOnce
  <2> QED BY <1>1, <1>2, <2>1, <2>2, <2>3 DEF OwnersInv, Owned
<1> QED BY <1>4, <1>5, <1>6 DEF OwnersInv

LEMMA CallReturnOwners ==
  ASSUME OwnersInv, Return \/ \E n \in Name : Call(n)
  PROVE  OwnersInv'
<1>1. UNCHANGED <<fcs, live, line>>
  BY DEF Return, Call
<1>2. running' \in Seq([name : Name, ast : Plain])
  <2>1. CASE Return
    BY <2>1, ReturnFacts DEF OwnersInv
  <2>2. ASSUME NEW n \in Name, Call(n) PROVE running' \in Seq([name : Name, ast : Plain])
    <3>1. fcs[Place(n)].ast \in Plain
      BY <2>2, PlaceFacts, PlacesFacts DEF Call, OwnersInv
    <3>2. [name |-> n, ast |-> fcs[Place(n)].ast] \in [name : Name, ast : Plain]
      BY <3>1
    <3> QED BY <2>2, <3>2, AppendProperties DEF Call, OwnersInv, Types
  <2> QED BY <2>1, <2>2
<1>3. Types'
  BY <1>1, <1>2 DEF OwnersInv, Types
<1>4. OwnedOnce' /\ (live = Owned)'
  BY <1>1 DEF OwnersInv, OwnedOnce, Owned, Places
<1> QED BY <1>3, <1>4 DEF OwnersInv

LEMMA OwnersStep == ~Substitutes /\ OwnersInv /\ [Next]_vars => OwnersInv'
<1>1. SUFFICES ASSUME ~Substitutes, OwnersInv, [Next]_vars PROVE OwnersInv'
  OBVIOUS
<1>2. CASE UNCHANGED vars
  <2>1. UNCHANGED <<fcs, live, line, running>>
    BY <1>2 DEF vars
  <2> QED BY <1>1, <2>1 DEF OwnersInv, Types, OwnedOnce, Owned, Places
<1>3. ASSUME NEW n \in Name, AddFc(n) PROVE OwnersInv'
  BY <1>1, <1>3, AddNewOwners, AddAgainOwners DEF AddFc
<1>4. ASSUME NEW n \in Name, DestroyFc(n) PROVE OwnersInv'
  BY <1>1, <1>4, DestroyOwners
<1> QED BY <1>1, <1>2, <1>3, <1>4, NextLineOwners, LineEndsOwners, CallReturnOwners DEF Next

\* The other functions stay where they are when one is defined.
LEMMA AddFcFacts ==
  ASSUME OwnersInv, NEW n \in Name, AddFc(n)
  PROVE  /\ \A j \in Places : fcs[j].name # n => j \in Places' /\ fcs'[j] = fcs[j]
         /\ \A k \in Places' : fcs'[k].name # n => k \in Places /\ fcs'[k] = fcs[k]
<1>1. /\ Len(fcs) \in Nat /\ Places = 1 .. Len(fcs)
      /\ fcs \in Seq([name : Name, ast : Plain])
      /\ \A k \in Places : fcs[k] \in [name : Name, ast : Plain]
  BY PlacesFacts DEF OwnersInv, Types
<1>2. CASE AddNew(n)
  <2>1. PICK t \in Free : fcs' = Append(fcs, [name |-> n, ast |-> Ast(t, {}, FALSE)])
    <3>1. PICK t \in Free : \E ast \in Copies(t) : fcs' = Append(fcs, [name |-> n, ast |-> ast])
      BY <1>2 DEF AddNew
    <3>2. Copies(t) = {Ast(t, {}, FALSE)}
      BY CopiesArePlain DEF OwnersInv, Free
    <3> QED BY <3>1, <3>2
  <2> DEFINE new == [name |-> n, ast |-> Ast(t, {}, FALSE)]
  <2>2. new \in [name : Name, ast : Plain] /\ new.name = n
    BY PlainAst DEF Free
  <2>6. fcs' = Append(fcs, new)
    BY <2>1
  <2> HIDE DEF new
  <2>3. /\ fcs' \in Seq([name : Name, ast : Plain]) /\ Len(fcs') = Len(fcs) + 1
        /\ \A j \in 1 .. Len(fcs) : fcs'[j] = fcs[j]
        /\ fcs'[Len(fcs) + 1] = new
    BY <1>1, <2>2, <2>6, AppendProperties
  <2>4. Places' = 1 .. Len(fcs) + 1
    BY <1>1, <2>3, LenProperties DEF Places
  <2>5. \A k \in Places' : k \in Places \/ k = Len(fcs) + 1
    BY <1>1, <2>4
  <2> QED BY <1>1, <2>2, <2>3, <2>4, <2>5
<1>3. CASE AddAgain(n)
  <2>1. /\ Places' = Places /\ Place(n) \in Places /\ fcs[Place(n)].name = n
        /\ \A j \in Places \ {Place(n)} : fcs'[j] = fcs[j]
        /\ \E ast : fcs'[Place(n)] = [fcs[Place(n)] EXCEPT !.ast = ast]
    BY <1>3, PlaceFacts DEF AddAgain, Places
  <2>2. fcs'[Place(n)].name = n
    BY <1>1, <2>1
  <2> QED BY <2>1, <2>2
<1> QED BY <1>2, <1>3 DEF AddFc

\* Those behind the one that is taken out move up.
LEMMA DestroyFacts ==
  ASSUME OwnersInv, NEW n \in Name, DestroyFc(n)
  PROVE  /\ \A j \in Places : fcs[j].name # n => \E k \in Places' : fcs'[k] = fcs[j]
         /\ \A k \in Places' : fcs'[k].name # n /\ \E j \in Places : fcs'[k] = fcs[j]
<1> DEFINE p == Place(n)
           N == 1 .. Len(fcs) - 1
<1>1. fcs' = Shifted(p) /\ p \in Places /\ fcs[p].name = n
  BY PlaceFacts DEF DestroyFc
<1> HIDE DEF p
<1>2. /\ Places' = N
      /\ \A k \in N : Before(p, k) \in Places /\ Before(p, k) # p /\ fcs'[k] = fcs[Before(p, k)]
      /\ \A j \in Places \ {p} : \E k \in N : j = Before(p, k)
  BY <1>1, ShiftedFacts DEF OwnersInv, Places
<1> HIDE DEF N
<1> QED BY <1>1, <1>2 DEF OwnersInv, OwnedOnce

\* A function that runs stays where it is: nothing that runs is touched.
LEMMA RunsStep ==
  ~Substitutes /\ ~TouchesRunning /\ OwnersInv /\ RunsFromTable /\ [Next]_vars => RunsFromTable'
<1>1. SUFFICES ASSUME ~Substitutes, ~TouchesRunning, OwnersInv, RunsFromTable, [Next]_vars
               PROVE  RunsFromTable'
  OBVIOUS
<1>2. CASE UNCHANGED <<fcs, running>>
  BY <1>1, <1>2 DEF RunsFromTable, Places
<1>3. CASE Return
  <2>1. UNCHANGED fcs
    BY <1>3 DEF Return
  <2> QED BY <1>1, <1>3, <2>1, ReturnFacts DEF OwnersInv, RunsFromTable, Places
<1>4. ASSUME NEW n \in Name, Call(n) PROVE RunsFromTable'
  <2> DEFINE new == [name |-> n, ast |-> fcs[Place(n)].ast]
  <2>1. /\ running' = Append(running, new) /\ UNCHANGED fcs
        /\ Place(n) \in Places /\ fcs[Place(n)].name = new.name /\ fcs[Place(n)].ast = new.ast
    BY <1>4, PlaceFacts DEF Call
  <2>2. new \in [name : Name, ast : Plain]
    BY <1>1, <2>1, PlacesFacts DEF OwnersInv
  <2> HIDE DEF new
  <2>3. /\ Len(running) \in Nat /\ DOMAIN running = 1 .. Len(running)
        /\ DOMAIN running' = 1 .. Len(running) + 1
        /\ \A k \in 1 .. Len(running) : running'[k] = running[k]
        /\ running'[Len(running) + 1] = new
    BY <1>1, <2>1, <2>2, RunningFacts, AppendProperties, LenProperties DEF OwnersInv, Types
  <2>4. ASSUME NEW k \in DOMAIN running'
        PROVE  \E j \in Places : fcs[j].name = running'[k].name /\ fcs[j].ast = running'[k].ast
    <3>1. CASE k \in 1 .. Len(running)
      BY <1>1, <2>3, <3>1 DEF RunsFromTable
    <3>2. CASE k = Len(running) + 1
      BY <2>1, <2>3, <3>2
    <3> QED BY <2>3, <3>1, <3>2
  <2> QED BY <2>1, <2>4 DEF RunsFromTable, Places
<1>5. ASSUME NEW n \in Name, AddFc(n) PROVE RunsFromTable'
  <2>1. /\ UNCHANGED running
        /\ \A k \in DOMAIN running : running[k].name # n
    BY <1>1, <1>5 DEF AddFc, MayTouch, Runs
  <2>2. \A j \in Places : fcs[j].name # n => j \in Places' /\ fcs'[j] = fcs[j]
    BY <1>1, <1>5, AddFcFacts
  <2> QED BY <1>1, <2>1, <2>2 DEF RunsFromTable
<1>6. ASSUME NEW n \in Name, DestroyFc(n) PROVE RunsFromTable'
  <2>1. UNCHANGED running /\ \A k \in DOMAIN running : running[k].name # n
    BY <1>1, <1>6 DEF DestroyFc, MayTouch, Runs
  <2>2. \A j \in Places : fcs[j].name # n => \E k \in Places' : fcs'[k] = fcs[j]
    BY <1>1, <1>6, DestroyFacts
  <2> QED BY <1>1, <2>1, <2>2 DEF RunsFromTable
<1> QED BY <1>1, <1>2, <1>3, <1>4, <1>5, <1>6 DEF Next, NextLine, LineEnds, vars

-----------------------------------------------------------------------------
LEMMA OwnersRight == OwnersInv => TreesHaveOwners
<1>1. SUFFICES ASSUME OwnersInv PROVE TreesHaveOwners
  OBVIOUS
<1>2. /\ \A k \in Places : fcs[k].ast \in Plain /\ Released(fcs[k].ast) = {fcs[k].ast.root}
      /\ \A ast \in line : Released(ast) = {ast.root}
  BY <1>1, PlacesFacts, PlainMemory DEF OwnersInv, Types
<1>3. /\ ReleasedOf(Bodies) = {fcs[k].ast.root : k \in Places}
      /\ ReleasedOf(line) = {ast.root : ast \in line}
      /\ ReleasedOf(Bodies \cup line) = ReleasedOf(Bodies) \cup ReleasedOf(line)
  BY <1>2 DEF ReleasedOf, Bodies
<1>4. \A j, k \in Places :
        fcs[j].name = fcs[k].name \/ Released(fcs[j].ast) \cap Released(fcs[k].ast) # {} => j = k
  BY <1>1, <1>2 DEF OwnersInv, OwnedOnce
<1>5. ReleasedOf(Bodies) \cap ReleasedOf(line) = {}
  BY <1>1, <1>3 DEF OwnersInv, OwnedOnce
<1>6. ReleasedOf(Bodies \cup line) \subseteq live
  BY <1>1, <1>3 DEF OwnersInv, Owned
<1> QED BY <1>4, <1>5, <1>6 DEF TreesHaveOwners

LEMMA RunningRight == OwnersInv /\ RunsFromTable => RunningIsLive
<1>1. SUFFICES ASSUME OwnersInv, RunsFromTable, NEW k \in DOMAIN running
               PROVE  Memory(running[k].ast) \subseteq live
  BY DEF RunningIsLive
<1>2. PICK j \in Places : fcs[j].ast = running[k].ast
  BY <1>1 DEF RunsFromTable
<1>3. Memory(fcs[j].ast) = {fcs[j].ast.root}
  BY <1>1, <1>2, PlacesFacts, PlainMemory DEF OwnersInv
<1> QED BY <1>1, <1>2, <1>3 DEF OwnersInv, Owned

LEMMA ChangesRight == OwnersInv => ChangesOne
<1>1. SUFFICES ASSUME OwnersInv, NEW n \in Name, DestroyFc(n) \/ AddFc(n)
               PROVE  /\ \A m \in Name \ {n} : BodyOf(m)' = BodyOf(m)
                      /\ DestroyFc(n) => BodyOf(n)' = {}
  BY DEF ChangesOne
<1>2. CASE AddFc(n) /\ ~DestroyFc(n)
  BY <1>1, <1>2, AddFcFacts DEF BodyOf
<1>3. CASE DestroyFc(n)
  BY <1>1, <1>3, DestroyFacts DEF BodyOf
<1> QED BY <1>1, <1>2, <1>3

\* However functions are defined, defined again and unset, also those that run:
\* every name has one place, what handle_rec() frees of a body or of the line it
\* frees of no other one, and it is allocated, so that nothing is freed twice.
THEOREM OwnersCorrect == ~Substitutes => (Spec => []TreesHaveOwners)
<1>1. SUFFICES ASSUME ~Substitutes PROVE Spec => []TreesHaveOwners
  OBVIOUS
<1>2. OwnersInv /\ [Next]_vars => OwnersInv'
  BY <1>1, OwnersStep
<1> QED BY <1>2, InitOwners, OwnersRight, PTL DEF Spec

\* No body is freed while it is executed, as long as no running function is
\* defined again or unset.
THEOREM RunningCorrect == ~Substitutes /\ ~TouchesRunning => (Spec => []RunningIsLive)
<1>1. SUFFICES ASSUME ~Substitutes, ~TouchesRunning PROVE Spec => []RunningIsLive
  OBVIOUS
<1>2. OwnersInv /\ RunsFromTable /\ [Next]_vars => (OwnersInv /\ RunsFromTable)'
  BY <1>1, OwnersStep, RunsStep
<1> QED BY <1>2, InitOwners, RunningRight, PTL DEF Spec

\* Defining or unsetting a function changes the body of no other one.
THEOREM ChangesCorrect == ~Substitutes => (Spec => ChangesOneFunction)
<1>1. SUFFICES ASSUME ~Substitutes PROVE Spec => ChangesOneFunction
  OBVIOUS
<1>2. OwnersInv /\ [Next]_vars => OwnersInv'
  BY <1>1, OwnersStep
<1> QED BY <1>2, InitOwners, ChangesRight, PTL DEF Spec, ChangesOneFunction

-----------------------------------------------------------------------------
(***************************************************************************)
(* Induction                                                               *)
(***************************************************************************)
\* A set of numbers that holds 0 and, with every number, the next one holds all.
LEMMA Induct ==
  ASSUME NEW S, S \subseteq Nat, 0 \in S, \A n \in S : n + 1 \in S
  PROVE  \A n \in Nat : n \in S
<1> DEFINE T == Nat \ S
<1>1. SUFFICES ASSUME T # {} PROVE FALSE
  OBVIOUS
<1>2. PICK n \in T : \A m \in T : <<m, n>> \notin OpToRel(<, Nat)
  <2>1. T \subseteq Nat
    OBVIOUS
  <2> HIDE DEF T
  <2> QED BY <1>1, <2>1, NatLessThanWellFounded, WFMin, Zenon
<1>3. \A m \in T : ~(m < n)
  BY <1>2, Zenon DEF OpToRel
<1>4. n \in Nat /\ n # 0 /\ n - 1 \in Nat
  OBVIOUS
<1>5. n - 1 \in S
  BY <1>3, <1>4
<1>6. (n - 1) + 1 \in S /\ (n - 1) + 1 = n
  BY <1>4, <1>5
<1> QED BY <1>6
-----------------------------------------------------------------------------
(***************************************************************************)
(* The vector of variables                                                 *)
(***************************************************************************)
\* The names that variables have and the values they get.
Numerals == {Decimal[i] : i \in P!Number}
VarName == {"#", "*"} \cup Variables \cup P!Range(P!Special) \cup Numerals
Text == Values \cup {"0"} \cup Numerals \cup {P!Joined(args) : args \in Args}

Entry == [name : VarName \cup {NULL}, value : Text \cup {NULL}]
Vector == [len : Nat, cap : Nat, list : Seq(Entry)]

\* The vector v has room, its variables have names and values, and no two of
\* them the same name.
Sound(v) ==
  /\ v \in Vector /\ Len(v.list) = v.cap /\ v.len < v.cap
  /\ \A k \in 1 .. v.len : v.list[k].name \in VarName /\ v.list[k].value \in Text
  /\ \A k \in v.len + 1 .. v.cap : v.list[k] = P!Zero
  /\ \A j, k \in 1 .. v.len : v.list[j].name = v.list[k].name => j = k

LEMMA Names ==
  /\ NULL \notin VarName /\ "" \in Text
  /\ FirstCap \in Nat /\ FirstCap >= 2 /\ MaxArgs \in Nat
  /\ \A i \in P!Number : /\ i \in Nat /\ Decimal[i] \in VarName /\ Decimal[i] \in Text
                         /\ Decimal[i] \notin {"#", "*"} \cup P!Range(P!Special)
                         /\ \A j \in P!Number : Decimal[i] = Decimal[j] => i = j
<1>1. /\ NULL \notin Values /\ "" \in Values /\ MaxArgs \in Nat
      /\ FirstCap \in Nat /\ FirstCap >= 2
      /\ NULL \notin {"#", "*"} \cup Variables \cup P!Range(P!Special)
      /\ \A i \in P!Number :
           /\ Decimal[i] \notin {"#", "*", NULL} \cup P!Range(P!Special)
           /\ \A j \in P!Number : Decimal[i] = Decimal[j] => i = j
  BY CallsAssumption DEF P!PositionalAssumption
<1>2. NULL \notin Numerals
  BY <1>1 DEF Numerals
<1>3. NULL \notin VarName
  BY <1>1, <1>2 DEF VarName
<1>4. \A i \in P!Number : Decimal[i] \in Numerals /\ i \in Nat
  <2>1. \A i \in P!Number : Decimal[i] \in Numerals
    BY DEF Numerals
  <2>2. \A i \in P!Number : i \in Nat
    <3>1. MaxArgs \in Nat
      BY <1>1
    <3> QED BY <3>1 DEF P!Number
  <2> QED BY <2>1, <2>2
<1>5. \A i \in P!Number : Decimal[i] \in VarName /\ Decimal[i] \in Text
  BY <1>4 DEF VarName, Text
<1>6. "" \in Text
  BY <1>1 DEF Text
<1> QED BY <1>1, <1>3, <1>4, <1>5, <1>6

LEMMA FirstRoom == FirstCap \in Nat /\ FirstCap >= 2
  BY Names, Zenon

\* The name of a number is none that the shell sets.
LEMMA NumberName ==
  ASSUME NEW i \in P!Number
  PROVE  Decimal[i] \notin {"#", "*"} \cup P!Range(P!Special)
  BY Names, Zenon

LEMMA MinOne == \A k \in Int : P!Min({k}) = k
  BY DEF P!Min

LEMMA MinOf ==
  ASSUME NEW S, S \subseteq Nat, NEW e \in S, \A k \in S : e <= k
  PROVE  P!Min(S) = e
<1> DEFINE x == CHOOSE x \in S : \A y \in S : x <= y
<1>1. x \in S /\ \A y \in S : x <= y
  OBVIOUS
<1>2. P!Min(S) = x
  BY DEF P!Min
<1> HIDE DEF x
<1>3. x <= e /\ e <= x /\ x \in Nat /\ e \in Nat
  BY <1>1
<1>4. x = e
  BY <1>3
<1> QED BY <1>2, <1>4

LEMMA SoundFits == \A v : Sound(v) => P!Fits(v)
<1> SUFFICES ASSUME NEW v, Sound(v) PROVE P!Fits(v)
  OBVIOUS
<1>1. v.len \in Nat /\ v.cap \in Nat /\ v.len < v.cap /\ DOMAIN v.list = 1 .. v.cap
  BY DEF Sound, Vector
<1>2. ASSUME NEW k \in 1 .. v.cap
      PROVE  k <= v.len <=> v.list[k] # P!Zero
  <2>1. CASE k <= v.len
    <3>1. v.list[k].name \in VarName
      BY <1>1, <2>1 DEF Sound
    <3>2. v.list[k].name # NULL
      BY <3>1, Names
    <3> QED BY <2>1, <3>2 DEF P!Zero
  <2>2. CASE ~(k <= v.len)
    BY <1>1, <2>2 DEF Sound
  <2> QED BY <2>1, <2>2
<1>3. \A k \in 1 .. v.len : P!Places(v, v.list[k].name) = {k}
  BY <1>1 DEF Sound, P!Places
<1> QED BY <1>1, <1>2, <1>3 DEF P!Fits

\* What get_var() finds.
LEMMA GetKnown ==
  ASSUME NEW v, Sound(v), NEW k \in 1 .. v.len
  PROVE  P!GetVar(v, v.list[k].name) = v.list[k].value
<1>1. v.len \in Nat
  BY DEF Sound, Vector
<1>2. P!Places(v, v.list[k].name) = {k}
  BY <1>1, SoundFits DEF P!Fits
<1>3. k \in Int
  BY <1>1
<1> QED BY <1>2, <1>3, MinOne DEF P!GetVar

LEMMA GetUnknown ==
  ASSUME NEW v, NEW name, \A k \in 1 .. v.len : v.list[k].name # name
  PROVE  P!GetVar(v, name) = ""
<1>1. P!Places(v, name) = {}
  BY DEF P!Places
<1> QED BY <1>1 DEF P!GetVar

LEMMA GetText ==
  ASSUME NEW v, Sound(v), NEW name
  PROVE  P!GetVar(v, name) \in Text
<1>1. CASE \A k \in 1 .. v.len : v.list[k].name # name
  <2>1. P!GetVar(v, name) = ""
    BY <1>1, GetUnknown
  <2> QED BY <2>1, Names, Zenon
<1>2. ASSUME NEW k \in 1 .. v.len, v.list[k].name = name
      PROVE  P!GetVar(v, name) \in Text
  <2>1. P!GetVar(v, v.list[k].name) = v.list[k].value
    BY GetKnown
  <2>2. v.list[k].value \in Text
    BY DEF Sound
  <2> QED BY <1>2, <2>1, <2>2
<1> QED BY <1>1, <1>2

\* A variable that two vectors hold in the same place.
LEMMA GetSame ==
  ASSUME NEW v, Sound(v), NEW w, Sound(w), NEW name,
         \A k \in 1 .. v.len : v.list[k].name = name => k \in 1 .. w.len /\ w.list[k] = v.list[k],
         \A k \in 1 .. w.len : w.list[k].name = name => k \in 1 .. v.len /\ w.list[k] = v.list[k]
  PROVE  P!GetVar(w, name) = P!GetVar(v, name)
<1>1. CASE \A k \in 1 .. v.len : v.list[k].name # name
  <2>1. \A k \in 1 .. w.len : w.list[k].name # name
    BY <1>1
  <2>2. P!GetVar(w, name) = "" /\ P!GetVar(v, name) = ""
    BY <1>1, <2>1, GetUnknown
  <2> QED BY <2>2
<1>2. ASSUME NEW k \in 1 .. v.len, v.list[k].name = name
      PROVE  P!GetVar(w, name) = P!GetVar(v, name)
  <2>1. k \in 1 .. w.len /\ w.list[k] = v.list[k]
    BY <1>2
  <2>2. P!GetVar(w, w.list[k].name) = w.list[k].value
    BY <2>1, GetKnown
  <2>3. P!GetVar(v, v.list[k].name) = v.list[k].value
    BY GetKnown
  <2> QED BY <1>2, <2>1, <2>2, <2>3
<1> QED BY <1>1, <1>2

\* The vector grows with what is in it.
LEMMA GrownSound ==
  ASSUME NEW v, Sound(v), P!Full(v)
  PROVE  /\ Sound(P!Grown(v)) /\ P!Grown(v).len = v.len /\ v.len + 1 < P!Grown(v).cap
         /\ \A k \in 1 .. v.len : P!Grown(v).list[k] = v.list[k]
<1> DEFINE more == [k \in 1 .. v.cap |-> P!Zero]
           g == P!Grown(v)
<1>1. v.len \in Nat /\ v.cap \in Nat /\ v.len < v.cap /\ v.list \in Seq(Entry) /\ Len(v.list) = v.cap
  BY DEF Sound, Vector
<1>2. P!Zero \in Entry
  BY DEF P!Zero, Entry
<1>3. more \in Seq(Entry) /\ Len(more) = v.cap
  BY <1>1, <1>2
<1>4. g.len = v.len /\ g.cap = 2 * v.cap /\ g.list = v.list \o more /\ g = [len |-> g.len, cap |-> g.cap, list |-> g.list]
  <2>1. v = [len |-> v.len, cap |-> v.cap, list |-> v.list]
    BY DEF Sound, Vector
  <2>2. g = [v EXCEPT !.cap = 2 * v.cap, !.list = v.list \o more]
    BY <2>1 DEF P!Grown
  <2> HIDE DEF more, g
  <2>3. g = [len |-> v.len, cap |-> 2 * v.cap, list |-> v.list \o more]
    BY <2>1, <2>2
  <2> QED BY <2>3
<1>5. /\ g.list \in Seq(Entry) /\ Len(g.list) = v.cap + v.cap
      /\ \A k \in 1 .. v.cap + v.cap : g.list[k] = IF k <= v.cap THEN v.list[k] ELSE more[k - v.cap]
  <2> HIDE DEF more, g
  <2>1. /\ v.list \o more \in Seq(Entry) /\ Len(v.list \o more) = v.cap + v.cap
        /\ \A k \in 1 .. v.cap + v.cap :
             (v.list \o more)[k] = IF k <= v.cap THEN v.list[k] ELSE more[k - v.cap]
    <3> DEFINE old == v.list
    <3>1. old \in Seq(Entry) /\ Len(old) = v.cap
      BY <1>1
    <3> HIDE DEF old
    <3>2. old \o more \in Seq(Entry) /\ Len(old \o more) = Len(old) + Len(more)
      BY <1>3, <3>1, ConcatProperties
    <3>3. \A k \in 1 .. Len(old) + Len(more) :
            (old \o more)[k] = IF k <= Len(old) THEN old[k] ELSE more[k - Len(old)]
      BY <1>3, <3>1, ConcatProperties
    <3> QED BY <1>3, <3>1, <3>2, <3>3 DEF old
  <2> QED BY <1>4, <2>1
<1> HIDE DEF g
<1>6. g.len \in Nat /\ g.cap \in Nat /\ g.cap = v.cap + v.cap /\ v.len + 1 < g.cap
  BY <1>1, <1>4
<1>7. g \in Vector
  BY <1>4, <1>5, <1>6 DEF Vector
<1>8. \A k \in 1 .. v.len : k \in 1 .. v.cap + v.cap /\ k <= v.cap
  BY <1>1
<1>9. \A k \in 1 .. v.len : g.list[k] = v.list[k]
  BY <1>5, <1>8
<1>10. ASSUME NEW k \in g.len + 1 .. g.cap PROVE g.list[k] = P!Zero
  <2>1. k \in 1 .. v.cap + v.cap /\ k \in v.len + 1 .. v.cap + v.cap
    BY <1>1, <1>4, <1>6
  <2>2. CASE k <= v.cap
    <3>1. k \in v.len + 1 .. v.cap
      BY <1>1, <2>1, <2>2
    <3> QED BY <1>5, <2>1, <2>2, <3>1 DEF Sound
  <2>3. CASE ~(k <= v.cap)
    <3>1. k - v.cap \in 1 .. v.cap
      BY <1>1, <2>1, <2>3
    <3> QED BY <1>5, <2>1, <2>3, <3>1
  <2> QED BY <2>2, <2>3
<1>11. Sound(g)
  <2>1. Len(g.list) = g.cap /\ g.len < g.cap
    BY <1>1, <1>4, <1>5, <1>6
  <2>2. \A k \in 1 .. g.len : g.list[k].name \in VarName /\ g.list[k].value \in Text
    BY <1>4, <1>9 DEF Sound
  <2>3. \A j, k \in 1 .. g.len : g.list[j].name = g.list[k].name => j = k
    BY <1>4, <1>9 DEF Sound
  <2> QED BY <1>7, <1>10, <2>1, <2>2, <2>3 DEF Sound
<1> QED BY <1>4, <1>6, <1>9, <1>11 DEF g

\* add_var() of a name that is there.
LEMMA AddKnown ==
  ASSUME NEW v, Sound(v), NEW k \in 1 .. v.len, NEW value \in Text
  PROVE  LET w == P!AddVar(v, v.list[k].name, value) IN
         /\ Sound(w) /\ w.len = v.len
         /\ \A j \in 1 .. v.len : j # k => w.list[j] = v.list[j]
         /\ w.list[k].name = v.list[k].name /\ w.list[k].value = value
<1> DEFINE w == P!AddVar(v, v.list[k].name, value)
           e == [v.list[k] EXCEPT !.value = value]
<1>1. v.len \in Nat /\ v.cap \in Nat /\ v.len < v.cap /\ v.list \in Seq(Entry) /\ Len(v.list) = v.cap
      /\ v \in Vector
  BY DEF Sound, Vector
<1>2. k \in Int /\ k \in 1 .. Len(v.list)
  BY <1>1
<1>3. P!Places(v, v.list[k].name) = {k}
  BY <1>1, SoundFits DEF P!Fits
<1>4. w = [v EXCEPT !.list[k].value = value]
  BY <1>2, <1>3, MinOne DEF P!AddVar
<1> HIDE DEF w
<1>5. w.len = v.len /\ w.cap = v.cap /\ w.list = [v.list EXCEPT ![k] = e]
      /\ w = [len |-> w.len, cap |-> w.cap, list |-> w.list]
  BY <1>1, <1>4 DEF Vector
<1>6. v.list[k] \in Entry
  BY <1>1, <1>2, ElementOfSeq
<1>7. e \in Entry /\ e.name = v.list[k].name /\ e.value = value
  BY <1>6 DEF Entry
<1> HIDE DEF e
<1>8. w.list \in Seq(Entry) /\ Len(w.list) = v.cap
      /\ \A j \in 1 .. v.cap : w.list[j] = IF j = k THEN e ELSE v.list[j]
  BY <1>1, <1>2, <1>5, <1>7, ExceptSeq
<1>9. w \in Vector
  BY <1>1, <1>5, <1>8 DEF Vector
<1>10. \A j \in 1 .. v.len : w.list[j] = IF j = k THEN e ELSE v.list[j]
  BY <1>1, <1>8
<1>11. \A j \in 1 .. w.len : w.list[j].name = v.list[j].name
  BY <1>5, <1>7, <1>10
<1>12. \A j \in 1 .. w.len : w.list[j].name \in VarName /\ w.list[j].value \in Text
  BY <1>5, <1>7, <1>10, <1>11 DEF Sound
<1>13. ASSUME NEW j \in w.len + 1 .. w.cap PROVE w.list[j] = P!Zero
  <2>1. j \in 1 .. v.cap /\ j # k /\ j \in v.len + 1 .. v.cap
    BY <1>1, <1>2, <1>5
  <2> QED BY <1>8, <2>1 DEF Sound
<1>14. \A i, j \in 1 .. w.len : w.list[i].name = w.list[j].name => i = j
  BY <1>5, <1>11 DEF Sound
<1>15. Sound(w)
  BY <1>1, <1>5, <1>8, <1>9, <1>12, <1>13, <1>14 DEF Sound
<1> QED BY <1>5, <1>7, <1>10, <1>15 DEF w

\* A new variable gets the place behind the others.
LEMMA PutBehind ==
  ASSUME NEW r, Sound(r), r.len + 1 < r.cap, NEW name \in VarName, NEW value \in Text,
         \A k \in 1 .. r.len : r.list[k].name # name
  PROVE  LET w == [r EXCEPT !.list[r.len + 1] = [name |-> name, value |-> value], !.len = @ + 1] IN
         /\ Sound(w) /\ w.len = r.len + 1
         /\ \A j \in 1 .. r.len : w.list[j] = r.list[j]
         /\ w.list[r.len + 1].name = name /\ w.list[r.len + 1].value = value
<1> DEFINE e == [name |-> name, value |-> value]
           k == r.len + 1
           w == [r EXCEPT !.list[k] = e, !.len = @ + 1]
<1>1. r.len \in Nat /\ r.cap \in Nat /\ r.list \in Seq(Entry) /\ Len(r.list) = r.cap /\ r \in Vector
  BY DEF Sound, Vector
<1>2. e \in Entry /\ e.name = name /\ e.value = value
  BY DEF Entry
<1>3. k \in 1 .. Len(r.list) /\ k \in 1 .. r.cap /\ k \in Nat
  BY <1>1
<1>4. w.len = k /\ w.cap = r.cap /\ w.list = [r.list EXCEPT ![k] = e]
      /\ w = [len |-> w.len, cap |-> w.cap, list |-> w.list]
  <2>1. r = [len |-> r.len, cap |-> r.cap, list |-> r.list]
    BY <1>1 DEF Vector
  <2> DEFINE list == [r.list EXCEPT ![k] = e]
  <2>2. w = [r EXCEPT !.list = list, !.len = k]
    BY <2>1
  <2> HIDE DEF e, k, list, w
  <2>3. w = [len |-> k, cap |-> r.cap, list |-> list]
    BY <2>1, <2>2
  <2>4. w.len = k /\ w.cap = r.cap /\ w.list = list /\ w = [len |-> w.len, cap |-> w.cap, list |-> w.list]
    BY <2>3
  <2> QED BY <2>4 DEF list
<1> HIDE DEF w, e
<1>5. w.list \in Seq(Entry) /\ Len(w.list) = r.cap
      /\ \A j \in 1 .. r.cap : w.list[j] = IF j = k THEN e ELSE r.list[j]
  BY <1>1, <1>2, <1>3, <1>4, ExceptSeq
<1>6. w \in Vector
  BY <1>1, <1>3, <1>4, <1>5 DEF Vector
<1>7. \A j \in 1 .. r.len : j \in 1 .. r.cap /\ j # k
  BY <1>1
<1>8. \A j \in 1 .. r.len : w.list[j] = r.list[j]
  BY <1>5, <1>7
<1>9. w.list[k] = e
  BY <1>3, <1>5
<1>10. \A j \in 1 .. w.len : j \in 1 .. r.len \/ j = k
  BY <1>1, <1>4
<1>11. \A j \in 1 .. w.len : w.list[j].name \in VarName /\ w.list[j].value \in Text
  BY <1>2, <1>8, <1>9, <1>10 DEF Sound
<1>12. ASSUME NEW j \in w.len + 1 .. w.cap PROVE w.list[j] = P!Zero
  <2>1. j \in 1 .. r.cap /\ j # k /\ j \in r.len + 1 .. r.cap
    BY <1>1, <1>4
  <2> QED BY <1>5, <2>1 DEF Sound
<1>13. \A i, j \in 1 .. w.len : w.list[i].name = w.list[j].name => i = j
  BY <1>2, <1>8, <1>9, <1>10 DEF Sound
<1>14. Len(w.list) = w.cap /\ w.len < w.cap
  BY <1>1, <1>4, <1>5
<1>15. Sound(w)
  BY <1>6, <1>11, <1>12, <1>13, <1>14 DEF Sound
<1> QED BY <1>2, <1>4, <1>8, <1>9, <1>15 DEF w, e

LEMMA AddUnknown ==
  ASSUME NEW v, Sound(v), NEW name \in VarName, NEW value \in Text,
         \A k \in 1 .. v.len : v.list[k].name # name
  PROVE  LET w == P!AddVar(v, name, value) IN
         /\ Sound(w) /\ w.len = v.len + 1
         /\ \A j \in 1 .. v.len : w.list[j] = v.list[j]
         /\ w.list[v.len + 1].name = name /\ w.list[v.len + 1].value = value
<1> DEFINE r == IF P!Full(v) THEN P!Grown(v) ELSE v
           w == [r EXCEPT !.list[r.len + 1] = [name |-> name, value |-> value], !.len = @ + 1]
<1>1. P!Places(v, name) = {}
  BY DEF P!Places
<1>2. P!AddVar(v, name, value) = w
  BY <1>1 DEF P!AddVar, P!NewPlace
<1>3. /\ Sound(r) /\ r.len = v.len /\ r.len + 1 < r.cap
      /\ \A k \in 1 .. v.len : r.list[k] = v.list[k]
  <2>1. CASE P!Full(v)
    <3>1. r = P!Grown(v)
      BY <2>1
    <3> QED BY <2>1, <3>1, GrownSound
  <2>2. CASE ~P!Full(v)
    <3>1. r = v
      BY <2>2
    <3>2. v.len + 1 < v.cap
      BY <2>2 DEF P!Full, Sound, Vector
    <3> QED BY <3>1, <3>2
  <2> QED BY <2>1, <2>2
<1> HIDE DEF r
<1>4. \A k \in 1 .. r.len : r.list[k].name # name
  BY <1>3
<1>5. /\ Sound(w) /\ w.len = r.len + 1
      /\ \A j \in 1 .. r.len : w.list[j] = r.list[j]
      /\ w.list[r.len + 1].name = name /\ w.list[r.len + 1].value = value
  BY <1>3, <1>4, PutBehind
<1> HIDE DEF w
<1> QED BY <1>2, <1>3, <1>5

\* add_var(): name has the value, and every other variable the one it had.
LEMMA AddVarFacts ==
  ASSUME NEW v, Sound(v), NEW name \in VarName, NEW value \in Text
  PROVE  LET w == P!AddVar(v, name, value) IN
         /\ Sound(w) /\ P!GetVar(w, name) = value
         /\ \A other : other # name => P!GetVar(w, other) = P!GetVar(v, other)
<1> DEFINE w == P!AddVar(v, name, value)
<1>1. v.len \in Nat
  BY DEF Sound, Vector
<1>2. ASSUME NEW k \in 1 .. v.len, v.list[k].name = name
      PROVE  /\ Sound(w) /\ P!GetVar(w, name) = value
             /\ \A other : other # name => P!GetVar(w, other) = P!GetVar(v, other)
  <2>1. /\ Sound(w) /\ w.len = v.len
        /\ \A j \in 1 .. v.len : j # k => w.list[j] = v.list[j]
        /\ w.list[k].name = name /\ w.list[k].value = value
    BY <1>2, AddKnown
  <2> HIDE DEF w
  <2>2. k \in 1 .. w.len
    BY <2>1
  <2>3. P!GetVar(w, w.list[k].name) = w.list[k].value
    BY <2>1, <2>2, GetKnown
  <2>4. ASSUME NEW other, other # name PROVE P!GetVar(w, other) = P!GetVar(v, other)
    <3>1. \A j \in 1 .. v.len : v.list[j].name = other => j \in 1 .. w.len /\ w.list[j] = v.list[j]
      BY <1>2, <2>1, <2>4
    <3>2. \A j \in 1 .. w.len : w.list[j].name = other => j \in 1 .. v.len /\ w.list[j] = v.list[j]
      BY <2>1, <2>4
    <3> QED BY <2>1, <3>1, <3>2, GetSame
  <2> QED BY <2>1, <2>3, <2>4
<1>3. ASSUME \A k \in 1 .. v.len : v.list[k].name # name
      PROVE  /\ Sound(w) /\ P!GetVar(w, name) = value
             /\ \A other : other # name => P!GetVar(w, other) = P!GetVar(v, other)
  <2>0. PICK k \in Nat : k = v.len + 1
    BY <1>1
  <2>1. /\ Sound(w) /\ w.len = k
        /\ \A j \in 1 .. v.len : w.list[j] = v.list[j]
        /\ w.list[k].name = name /\ w.list[k].value = value
    BY <1>3, <2>0, AddUnknown
  <2> HIDE DEF w
  <2>2. k \in 1 .. w.len
    BY <1>1, <2>0, <2>1
  <2>3. P!GetVar(w, w.list[k].name) = w.list[k].value
    BY <2>1, <2>2, GetKnown
  <2>4. ASSUME NEW other, other # name PROVE P!GetVar(w, other) = P!GetVar(v, other)
    <3>1. \A j \in 1 .. v.len : v.list[j].name = other => j \in 1 .. w.len /\ w.list[j] = v.list[j]
      BY <1>1, <2>0, <2>1
    <3>2. \A j \in 1 .. w.len : j \in 1 .. v.len \/ j = k
      BY <1>1, <2>0, <2>1
    <3>3. \A j \in 1 .. w.len : w.list[j].name = other => j \in 1 .. v.len /\ w.list[j] = v.list[j]
      BY <2>1, <2>4, <3>2
    <3> QED BY <2>1, <3>1, <3>3, GetSame
  <2> QED BY <2>1, <2>3, <2>4
<1> QED BY <1>2, <1>3

\* The vectors between the calls of add_var() in AddVars, as far as the n-th.
AddsTo(v, pairs, n, m) ==
  m = [k \in 0 .. n |-> IF k = 0 THEN v ELSE P!AddVar(m[k - 1], pairs[k][1], pairs[k][2])]

LEMMA AddsExist ==
  ASSUME NEW v, NEW pairs
  PROVE  \A n \in Nat : \E m : AddsTo(v, pairs, n, m)
<1> DEFINE S == {n \in Nat : \E m : AddsTo(v, pairs, n, m)}
<1>1. 0 \in S
  <2> DEFINE m == [k \in 0 .. 0 |-> v]
  <2>1. m = [k \in 0 .. 0 |-> IF k = 0 THEN v ELSE P!AddVar(m[k - 1], pairs[k][1], pairs[k][2])]
    OBVIOUS
  <2> HIDE DEF m
  <2>2. AddsTo(v, pairs, 0, m)
    BY <2>1 DEF AddsTo
  <2> QED BY <2>2
<1>2. ASSUME NEW n \in S PROVE n + 1 \in S
  <2>1. n \in Nat
    OBVIOUS
  <2>2. PICK m : AddsTo(v, pairs, n, m)
    OBVIOUS
  <2>3. PICK l \in Nat : l = n + 1
    BY <2>1
  <2> DEFINE next == [k \in 0 .. l |-> IF k = l THEN P!AddVar(m[n], pairs[l][1], pairs[l][2]) ELSE m[k]]
  <2>4. ASSUME NEW k \in 0 .. l
        PROVE  next[k] = IF k = 0 THEN v ELSE P!AddVar(next[k - 1], pairs[k][1], pairs[k][2])
    <3>1. CASE k = l
      <4>1. next[k] = P!AddVar(m[n], pairs[l][1], pairs[l][2]) /\ k # 0 /\ k - 1 = n
        BY <2>1, <2>3, <3>1
      <4>2. next[n] = m[n]
        BY <2>1, <2>3
      <4> QED BY <3>1, <4>1, <4>2
    <3>2. CASE k # l
      <4>1. k \in 0 .. n /\ next[k] = m[k]
        BY <2>1, <2>3, <3>2
      <4>2. m[k] = IF k = 0 THEN v ELSE P!AddVar(m[k - 1], pairs[k][1], pairs[k][2])
        BY <2>2, <4>1 DEF AddsTo
      <4>3. k # 0 => next[k - 1] = m[k - 1]
        BY <2>1, <2>3, <4>1
      <4> QED BY <4>1, <4>2, <4>3
    <3> QED BY <3>1, <3>2
  <2>5. next = [k \in 0 .. l |-> next[k]]
    OBVIOUS
  <2> HIDE DEF next
  <2>6. AddsTo(v, pairs, l, next)
    BY <2>4, <2>5 DEF AddsTo
  <2> QED BY <2>1, <2>3, <2>6
<1>3. S \subseteq Nat
  OBVIOUS
<1> HIDE DEF S
<1>4. \A n \in Nat : n \in S
  BY <1>1, <1>2, <1>3, Induct
<1> QED BY <1>4 DEF S

LEMMA AddsSteps ==
  ASSUME NEW v, NEW pairs, Len(pairs) \in Nat
  PROVE  \E m : /\ P!AddVars(v, pairs) = m[Len(pairs)] /\ m[0] = v
                /\ \A k \in 1 .. Len(pairs) : m[k] = P!AddVar(m[k - 1], pairs[k][1], pairs[k][2])
<1> DEFINE m == CHOOSE f : AddsTo(v, pairs, Len(pairs), f)
<1>1. P!AddVars(v, pairs) = m[Len(pairs)]
  BY DEF P!AddVars, AddsTo
<1>2. AddsTo(v, pairs, Len(pairs), m)
  BY AddsExist
<1> HIDE DEF m
<1>3. \A k \in 0 .. Len(pairs) :
        m[k] = IF k = 0 THEN v ELSE P!AddVar(m[k - 1], pairs[k][1], pairs[k][2])
  BY <1>2 DEF AddsTo
<1>4. m[0] = v /\ \A k \in 1 .. Len(pairs) : m[k] = P!AddVar(m[k - 1], pairs[k][1], pairs[k][2])
  BY <1>3
<1> QED BY <1>1, <1>4

\* The vector w is what the first n of the pairs make of v.
Added(v, w, pairs, n) ==
  /\ Sound(w)
  /\ \A name : (\A k \in 1 .. n : pairs[k][1] # name) => P!GetVar(w, name) = P!GetVar(v, name)
  /\ \A k \in 1 .. n : (\A j \in k + 1 .. n : pairs[j][1] # pairs[k][1])
                       => P!GetVar(w, pairs[k][1]) = pairs[k][2]

LEMMA AddedMore ==
  ASSUME NEW v, NEW w, NEW pairs, NEW n \in Nat, Added(v, w, pairs, n),
         pairs[n + 1][1] \in VarName, pairs[n + 1][2] \in Text
  PROVE  Added(v, P!AddVar(w, pairs[n + 1][1], pairs[n + 1][2]), pairs, n + 1)
<1>1. PICK l \in Nat : l = n + 1
  OBVIOUS
<1> DEFINE last == pairs[l][1]
           u == P!AddVar(w, last, pairs[l][2])
<1>2. Sound(w)
  BY DEF Added
<1>3. /\ Sound(u) /\ P!GetVar(u, last) = pairs[l][2]
      /\ \A other : other # last => P!GetVar(u, other) = P!GetVar(w, other)
  BY <1>1, <1>2, AddVarFacts
<1> HIDE DEF u, last
<1>4. \A k \in 1 .. l : k \in 1 .. n \/ k = l
  BY <1>1
<1>5. \A k \in 1 .. n : k \in 1 .. l /\ l \in k + 1 .. l /\ \A j \in k + 1 .. n : j \in k + 1 .. l
  BY <1>1
<1>6. l \in 1 .. l
  BY <1>1
<1>7. ASSUME NEW name, \A k \in 1 .. l : pairs[k][1] # name
      PROVE  P!GetVar(u, name) = P!GetVar(v, name)
  <2>1. last # name
    BY <1>6, <1>7 DEF last
  <2>2. P!GetVar(w, name) = P!GetVar(v, name)
    BY <1>5, <1>7 DEF Added
  <2> QED BY <1>3, <2>1, <2>2
<1>8. ASSUME NEW k \in 1 .. l, \A j \in k + 1 .. l : pairs[j][1] # pairs[k][1]
      PROVE  P!GetVar(u, pairs[k][1]) = pairs[k][2]
  <2>1. CASE k = l
    BY <1>3, <2>1 DEF last
  <2>2. CASE k \in 1 .. n
    <3>1. last # pairs[k][1]
      BY <1>5, <1>8, <2>2 DEF last
    <3>2. P!GetVar(w, pairs[k][1]) = pairs[k][2]
      BY <1>5, <1>8, <2>2 DEF Added
    <3> QED BY <1>3, <3>1, <3>2
  <2> QED BY <1>4, <2>1, <2>2
<1>9. Added(v, u, pairs, l)
  BY <1>3, <1>7, <1>8 DEF Added
<1> QED BY <1>1, <1>9 DEF u, last

\* add_var() of a list: what a name is given last is its value, the other
\* variables keep theirs.
LEMMA AddVarsFacts ==
  ASSUME NEW v, Sound(v), NEW pairs, Len(pairs) \in Nat,
         \A k \in 1 .. Len(pairs) : pairs[k][1] \in VarName /\ pairs[k][2] \in Text
  PROVE  Added(v, P!AddVars(v, pairs), pairs, Len(pairs))
<1>1. PICK m : /\ P!AddVars(v, pairs) = m[Len(pairs)] /\ m[0] = v
               /\ \A k \in 1 .. Len(pairs) : m[k] = P!AddVar(m[k - 1], pairs[k][1], pairs[k][2])
  BY AddsSteps
<1> DEFINE S == {n \in Nat : n <= Len(pairs) => Added(v, m[n], pairs, n)}
<1>2. 0 \in S
  <2>1. Added(v, m[0], pairs, 0)
    BY <1>1 DEF Added
  <2> QED BY <2>1
<1>3. ASSUME NEW n \in S PROVE n + 1 \in S
  <2>1. n \in Nat
    OBVIOUS
  <2>2. ASSUME n + 1 <= Len(pairs) PROVE Added(v, m[n + 1], pairs, n + 1)
    <3>1. n + 1 \in 1 .. Len(pairs) /\ n <= Len(pairs) /\ (n + 1) - 1 = n
      BY <2>1, <2>2
    <3>2. m[n + 1] = P!AddVar(m[n], pairs[n + 1][1], pairs[n + 1][2])
      BY <1>1, <3>1
    <3>3. Added(v, m[n], pairs, n)
      BY <3>1
    <3>4. pairs[n + 1][1] \in VarName /\ pairs[n + 1][2] \in Text
      BY <3>1
    <3> QED BY <2>1, <3>2, <3>3, <3>4, AddedMore
  <2> QED BY <2>1, <2>2
<1>4. S \subseteq Nat
  OBVIOUS
<1> HIDE DEF S
<1>5. Len(pairs) \in S
  BY <1>2, <1>3, <1>4, Induct
<1> QED BY <1>1, <1>5 DEF S
-----------------------------------------------------------------------------
(***************************************************************************)
(* The array of the parameters                                             *)
(***************************************************************************)
Cell == Values \cup {NULL}

\* set_var_at(): the array has the size for the cell and a NULL behind it.
CellSet(at, value, i, b) ==
  /\ b \in Seq(Cell) /\ Len(b) = i + 2
  /\ \A k \in 1 .. i + 2 : b[k] = IF k = i + 1 THEN value
                                ELSE IF k <= Len(at) THEN at[k] ELSE NULL

LEMMA SetVarAtFacts ==
  ASSUME NEW at \in Seq(Cell), NEW value \in Cell, NEW i \in Nat
  PROVE  CellSet(at, value, i, P!SetVarAt(at, value, i))
<1> DEFINE b == P!SetVarAt(at, value, i)
<1>1. \A k \in 1 .. i + 2 : (IF k <= Len(at) THEN at[k] ELSE NULL) \in Cell
  <2>1. \A k \in 1 .. i + 2 : k <= Len(at) => k \in 1 .. Len(at)
    OBVIOUS
  <2>2. \A k \in 1 .. Len(at) : at[k] \in Cell
    BY ElementOfSeq
  <2> QED BY <2>1, <2>2 DEF Cell
<1>2. b = [k \in 1 .. i + 2 |-> IF k = i + 1 THEN value ELSE IF k <= Len(at) THEN at[k] ELSE NULL]
  BY DEF P!SetVarAt, P!Resized
<1> HIDE DEF b
<1>3. \A k \in 1 .. i + 2 : b[k] = IF k = i + 1 THEN value ELSE IF k <= Len(at) THEN at[k] ELSE NULL
  BY <1>2
<1>4. \A k \in 1 .. i + 2 : b[k] \in Cell
  BY <1>1, <1>3
<1>5. b \in [1 .. i + 2 -> Cell]
  BY <1>2, <1>4
<1>6. i + 2 \in Nat
  OBVIOUS
<1>7. b \in Seq(Cell) /\ Len(b) = i + 2
  BY <1>5, <1>6
<1> QED BY <1>3, <1>7 DEF b, CellSet

\* The arrays between the calls of set_var_at() in SetVarAts, as far as the n-th.
SetsTo(at, first, cells, n, m) ==
  m = [k \in 0 .. n |-> IF k = 0 THEN at ELSE P!SetVarAt(m[k - 1], cells[k], first + k - 1)]

LEMMA SetsExist ==
  ASSUME NEW at, NEW first, NEW cells
  PROVE  \A n \in Nat : \E m : SetsTo(at, first, cells, n, m)
<1> DEFINE S == {n \in Nat : \E m : SetsTo(at, first, cells, n, m)}
<1>1. 0 \in S
  <2> DEFINE m == [k \in 0 .. 0 |-> at]
  <2>1. m = [k \in 0 .. 0 |-> IF k = 0 THEN at ELSE P!SetVarAt(m[k - 1], cells[k], first + k - 1)]
    OBVIOUS
  <2> HIDE DEF m
  <2>2. SetsTo(at, first, cells, 0, m)
    BY <2>1 DEF SetsTo
  <2> QED BY <2>2
<1>2. ASSUME NEW n \in S PROVE n + 1 \in S
  <2>1. n \in Nat
    OBVIOUS
  <2>2. PICK m : SetsTo(at, first, cells, n, m)
    OBVIOUS
  <2>3. PICK l \in Nat : l = n + 1
    BY <2>1
  <2> DEFINE next == [k \in 0 .. l |->
                       IF k = l THEN P!SetVarAt(m[n], cells[l], first + l - 1) ELSE m[k]]
  <2>4. ASSUME NEW k \in 0 .. l
        PROVE  next[k] = IF k = 0 THEN at ELSE P!SetVarAt(next[k - 1], cells[k], first + k - 1)
    <3>1. CASE k = l
      <4>1. next[k] = P!SetVarAt(m[n], cells[l], first + l - 1) /\ k # 0 /\ k - 1 = n
        BY <2>1, <2>3, <3>1
      <4>2. next[n] = m[n]
        BY <2>1, <2>3
      <4> QED BY <3>1, <4>1, <4>2
    <3>2. CASE k # l
      <4>1. k \in 0 .. n /\ next[k] = m[k]
        BY <2>1, <2>3, <3>2
      <4>2. m[k] = IF k = 0 THEN at ELSE P!SetVarAt(m[k - 1], cells[k], first + k - 1)
        BY <2>2, <4>1 DEF SetsTo
      <4>3. k # 0 => next[k - 1] = m[k - 1]
        BY <2>1, <2>3, <4>1
      <4> QED BY <4>1, <4>2, <4>3
    <3> QED BY <3>1, <3>2
  <2>5. next = [k \in 0 .. l |-> next[k]]
    OBVIOUS
  <2> HIDE DEF next
  <2>6. SetsTo(at, first, cells, l, next)
    BY <2>4, <2>5 DEF SetsTo
  <2> QED BY <2>1, <2>3, <2>6
<1>3. S \subseteq Nat
  OBVIOUS
<1> HIDE DEF S
<1>4. \A n \in Nat : n \in S
  BY <1>1, <1>2, <1>3, Induct
<1> QED BY <1>4 DEF S

LEMMA SetsSteps ==
  ASSUME NEW at, NEW first, NEW cells, Len(cells) \in Nat
  PROVE  \E m : /\ P!SetVarAts(at, first, cells) = m[Len(cells)]
                /\ SetsTo(at, first, cells, Len(cells), m)
<1> DEFINE m == CHOOSE f : SetsTo(at, first, cells, Len(cells), f)
<1>1. P!SetVarAts(at, first, cells) = m[Len(cells)]
  BY DEF P!SetVarAts, SetsTo
<1>2. SetsTo(at, first, cells, Len(cells), m)
  BY SetsExist
<1> QED BY <1>1, <1>2

\* What the k-th cell of the array holds after n calls of set_var_at() behind
\* place first: the first of them keeps a cell behind its own.
CellAfter(at, first, cells, n, k) ==
  IF first < k /\ k <= first + n THEN cells[k - first]
  ELSE IF k <= Len(at) /\ (k <= first \/ n = 1) THEN at[k] ELSE NULL

ArrayAfter(at, first, cells, n, b) ==
  /\ b \in Seq(Cell) /\ Len(b) = first + n + 1
  /\ \A k \in 1 .. first + n + 1 : b[k] = CellAfter(at, first, cells, n, k)

LEMMA FirstCell ==
  ASSUME NEW at \in Seq(Cell), NEW first \in Nat, NEW cells, cells[1] \in Cell
  PROVE  ArrayAfter(at, first, cells, 1, P!SetVarAt(at, cells[1], first))
<1> DEFINE b == P!SetVarAt(at, cells[1], first)
<1>0. CellSet(at, cells[1], first, b)
  BY SetVarAtFacts
<1> HIDE DEF b
<1>1. /\ b \in Seq(Cell) /\ Len(b) = first + 2
      /\ \A k \in 1 .. first + 2 : b[k] = IF k = first + 1 THEN cells[1]
                                        ELSE IF k <= Len(at) THEN at[k] ELSE NULL
  BY <1>0 DEF CellSet
<1>2. first + 1 + 1 = first + 2
  OBVIOUS
<1>3. ASSUME NEW k \in 1 .. first + 2 PROVE b[k] = CellAfter(at, first, cells, 1, k)
  <2>1. k = first + 1 => first < k /\ k <= first + 1 /\ k - first = 1
    OBVIOUS
  <2>2. k # first + 1 => ~(first < k /\ k <= first + 1)
    OBVIOUS
  <2> QED BY <1>1, <2>1, <2>2 DEF CellAfter
<1> QED BY <1>1, <1>2, <1>3 DEF ArrayAfter, b

LEMMA NextCell ==
  ASSUME NEW at \in Seq(Cell), NEW first \in Nat, NEW cells, NEW n \in Nat, n >= 1,
         NEW a, ArrayAfter(at, first, cells, n, a), cells[n + 1] \in Cell
  PROVE  ArrayAfter(at, first, cells, n + 1, P!SetVarAt(a, cells[n + 1], first + n))
<1>1. PICK i \in Nat : i = first + n
  OBVIOUS
<1> DEFINE b == P!SetVarAt(a, cells[n + 1], i)
<1>2. a \in Seq(Cell) /\ Len(a) = i + 1
  BY <1>1 DEF ArrayAfter
<1>7. CellSet(a, cells[n + 1], i, b)
  BY <1>2, SetVarAtFacts
<1> HIDE DEF b
<1>3. /\ b \in Seq(Cell) /\ Len(b) = i + 2
      /\ \A k \in 1 .. i + 2 : b[k] = IF k = i + 1 THEN cells[n + 1]
                                    ELSE IF k <= Len(a) THEN a[k] ELSE NULL
  BY <1>7 DEF CellSet
<1>4. first + (n + 1) + 1 = i + 2
  BY <1>1
<1>5. ASSUME NEW k \in 1 .. i + 2 PROVE b[k] = CellAfter(at, first, cells, n + 1, k)
  <2>1. CASE k = i + 1
    <3>1. first < k /\ k <= first + (n + 1) /\ k - first = n + 1
      BY <1>1, <2>1
    <3> QED BY <1>3, <2>1, <3>1 DEF CellAfter
  <2>2. CASE k = i + 2
    <3>1. ~(k <= Len(a)) /\ ~(k <= first + (n + 1)) /\ ~(k <= first) /\ n + 1 # 1 /\ k # i + 1
      BY <1>1, <1>2, <2>2
    <3> QED BY <1>3, <3>1 DEF CellAfter
  <2>3. CASE k <= i
    <3>1. k <= Len(a) /\ k # i + 1 /\ k \in 1 .. first + n + 1
      BY <1>1, <1>2, <2>3
    <3>2. b[k] = CellAfter(at, first, cells, n, k)
      BY <1>3, <3>1 DEF ArrayAfter
    <3>3. k <= first + n /\ k <= first + (n + 1) /\ (k <= first \/ first < k)
      BY <1>1, <2>3
    <3> QED BY <3>2, <3>3 DEF CellAfter
  <2> QED BY <1>1, <2>1, <2>2, <2>3
<1>6. ArrayAfter(at, first, cells, n + 1, b)
  BY <1>3, <1>4, <1>5 DEF ArrayAfter
<1> QED BY <1>1, <1>6 DEF b

LEMMA SetVarAtsFacts ==
  ASSUME NEW at \in Seq(Cell), NEW first \in Nat, NEW cells, Len(cells) \in Nat, Len(cells) >= 1,
         \A k \in 1 .. Len(cells) : cells[k] \in Cell
  PROVE  ArrayAfter(at, first, cells, Len(cells), P!SetVarAts(at, first, cells))
<1>0. PICK m : P!SetVarAts(at, first, cells) = m[Len(cells)] /\ SetsTo(at, first, cells, Len(cells), m)
  BY SetsSteps
<1>1. /\ m[0] = at
      /\ \A k \in 1 .. Len(cells) : m[k] = P!SetVarAt(m[k - 1], cells[k], first + k - 1)
  <2>1. \A k \in 0 .. Len(cells) :
          m[k] = IF k = 0 THEN at ELSE P!SetVarAt(m[k - 1], cells[k], first + k - 1)
    BY <1>0 DEF SetsTo
  <2> QED BY <2>1
<1> DEFINE S == {n \in Nat : n >= 1 /\ n <= Len(cells) => ArrayAfter(at, first, cells, n, m[n])}
<1>2. 0 \in S
  OBVIOUS
<1>3. ASSUME NEW n \in S PROVE n + 1 \in S
  <2>1. n \in Nat
    OBVIOUS
  <2>2. ASSUME n + 1 <= Len(cells) PROVE ArrayAfter(at, first, cells, n + 1, m[n + 1])
    <3>1. n + 1 \in 1 .. Len(cells) /\ (n + 1) - 1 = n /\ first + (n + 1) - 1 = first + n
      BY <2>1, <2>2
    <3>2. m[n + 1] = P!SetVarAt(m[n], cells[n + 1], first + n)
      BY <1>1, <3>1
    <3>3. cells[n + 1] \in Cell
      BY <3>1
    <3>4. CASE n = 0
      <4>1. m[1] = P!SetVarAt(at, cells[1], first) /\ n + 1 = 1
        BY <1>1, <3>2, <3>4
      <4> QED BY <3>3, <4>1, FirstCell
    <3>5. CASE n # 0
      <4>1. n >= 1 /\ n <= Len(cells)
        BY <2>1, <2>2, <3>5
      <4>2. ArrayAfter(at, first, cells, n, m[n])
        BY <4>1
      <4> QED BY <2>1, <3>2, <3>3, <4>1, <4>2, NextCell
    <3> QED BY <3>4, <3>5
  <2> QED BY <2>1, <2>2
<1>4. S \subseteq Nat
  OBVIOUS
<1> HIDE DEF S
<1>5. Len(cells) \in S
  BY <1>2, <1>3, <1>4, Induct
<1> QED BY <1>0, <1>5 DEF S

\* The array holds args and nothing behind them.
Holds(at, args) ==
  /\ at \in Seq(Cell) /\ Len(args) < Len(at)
  /\ \A k \in 1 .. Len(at) : at[k] = IF k <= Len(args) THEN args[k] ELSE NULL

LEMMA HoldsVisible ==
  ASSUME NEW args \in Seq(Values), NEW at, Holds(at, args)
  PROVE  P!Ends(at) # {} /\ P!Visible(at) = args /\ Holds(P!Dup(at), args)
<1> DEFINE n == Len(args)
           e == n + 1
<1>1. /\ at \in Seq(Cell) /\ n \in Nat /\ Len(at) \in Nat /\ e \in 1 .. Len(at) /\ at[e] = NULL
      /\ \A k \in 1 .. n : k \in 1 .. Len(at) /\ at[k] = args[k]
  BY DEF Holds
<1>2. \A k \in 1 .. n : args[k] \in Values
  BY ElementOfSeq
<1>3. NULL \notin Values
  BY CallsAssumption DEF P!PositionalAssumption
<1>4. e \in P!Ends(at) /\ \A k \in P!Ends(at) : k \in Nat /\ e <= k
  BY <1>1, <1>2, <1>3 DEF P!Ends
<1>5. P!Min(P!Ends(at)) = e
  <2> HIDE DEF e
  <2>1. P!Ends(at) \subseteq Nat
    BY <1>4
  <2> QED BY <1>4, <2>1, MinOf
<1>6. P!Visible(at) = SubSeq(at, 1, n)
  <2>1. e - 1 = n
    BY <1>1
  <2> HIDE DEF e, n
  <2> QED BY <1>5, <2>1 DEF P!Visible
<1>7. SubSeq(at, 1, n) \in Seq(Cell) /\ Len(SubSeq(at, 1, n)) = n
      /\ \A k \in 1 .. n : SubSeq(at, 1, n)[k] = at[k]
  BY <1>1, SubSeqProperties
<1>8. SubSeq(at, 1, n) = args
  BY <1>1, <1>7, SeqEqual
<1>9. args \in Seq(Cell) /\ NULL \in Cell
  BY <1>6, <1>7, <1>8 DEF Cell
<1>10. P!Dup(at) = Append(args, NULL)
  BY <1>6, <1>8 DEF P!Dup
<1>11. /\ Append(args, NULL) \in Seq(Cell) /\ Len(Append(args, NULL)) = n + 1
       /\ \A k \in 1 .. n : Append(args, NULL)[k] = args[k]
       /\ Append(args, NULL)[n + 1] = NULL
  BY <1>9, AppendProperties
<1>12. Holds(Append(args, NULL), args)
  BY <1>1, <1>11 DEF Holds
<1> QED BY <1>4, <1>6, <1>8, <1>10, <1>12

LEMMA NoCells == \A at, first, cells : Len(cells) = 0 => P!SetVarAts(at, first, cells) = at
<1> SUFFICES ASSUME NEW at, NEW first, NEW cells, Len(cells) = 0
             PROVE  P!SetVarAts(at, first, cells) = at
  OBVIOUS
<1>1. PICK m : P!SetVarAts(at, first, cells) = m[Len(cells)] /\ SetsTo(at, first, cells, Len(cells), m)
  BY SetsSteps
<1>2. m[0] = at
  BY <1>1 DEF SetsTo
<1> QED BY <1>1, <1>2

\* Cells that are NULL, stored behind the arguments.
LEMMA ClearTail ==
  ASSUME NEW args \in Seq(Values), NEW a \in Seq(Cell),
         \A k \in 1 .. Len(args) : k <= Len(a) /\ a[k] = args[k],
         NEW nulls, Len(nulls) \in Nat, Len(nulls) >= 1,
         \A k \in 1 .. Len(nulls) : nulls[k] = NULL,
         Len(nulls) = 1 /\ Len(args) + 2 <= Len(a) => a[Len(args) + 2] = NULL
  PROVE  Holds(P!SetVarAts(a, Len(args), nulls), args)
<1> DEFINE n == Len(args)
           c == Len(nulls)
           b == P!SetVarAts(a, n, nulls)
<1>1. n \in Nat /\ c \in Nat /\ Len(a) \in Nat
  OBVIOUS
<1>2. ArrayAfter(a, n, nulls, c, b)
  <2>1. \A k \in 1 .. c : nulls[k] \in Cell
    BY DEF Cell
  <2> QED BY <1>1, <2>1, SetVarAtsFacts
<1> HIDE DEF b
<1>3. /\ b \in Seq(Cell) /\ Len(b) = n + c + 1
      /\ \A k \in 1 .. n + c + 1 : b[k] = CellAfter(a, n, nulls, c, k)
  BY <1>2 DEF ArrayAfter
<1>4. ASSUME NEW k \in 1 .. n + c + 1 PROVE b[k] = IF k <= n THEN args[k] ELSE NULL
  <2>1. CASE k <= n
    <3>1. ~(n < k) /\ k \in 1 .. n
      BY <1>1, <2>1
    <3> QED BY <1>3, <2>1, <3>1 DEF CellAfter
  <2>2. CASE n < k /\ k <= n + c
    <3>1. k - n \in 1 .. c /\ ~(k <= n)
      BY <1>1, <2>2
    <3> QED BY <1>3, <2>2, <3>1 DEF CellAfter
  <2>3. CASE k = n + c + 1
    <3>1. ~(k <= n) /\ ~(k <= n + c) /\ (c = 1 => k = n + 2)
      BY <1>1, <2>3
    <3> QED BY <1>3, <3>1 DEF CellAfter
  <2> QED BY <1>1, <2>1, <2>2, <2>3
<1>5. n < Len(b)
  BY <1>1, <1>3
<1>6. Holds(b, args)
  BY <1>3, <1>4, <1>5 DEF Holds
<1> QED BY <1>6 DEF b

\* The array behind a call: that of the caller holds old, those of the call are
\* stored, and what is left of the caller's is cleared.
LEMMA CallArray ==
  ASSUME NEW old \in Seq(Values), NEW args \in Seq(Values), NEW at, Holds(at, old),
         NEW stored, stored = P!SetVarAts(at, 0, args)
  PROVE  /\ stored \in Seq(Cell)
         /\ Len(old) < Len(args) => Holds(stored, args)
         /\ \A nulls : /\ Len(args) <= Len(old) /\ Len(nulls) = Len(old) + 1 - Len(args)
                        /\ (\A k \in 1 .. Len(nulls) : nulls[k] = NULL)
                        => Holds(P!SetVarAts(stored, Len(args), nulls), args)
<1> DEFINE n == Len(args)
<1>1. n \in Nat /\ Len(old) \in Nat /\ at \in Seq(Cell) /\ Len(at) \in Nat
      /\ \A k \in 1 .. Len(at) : at[k] = IF k <= Len(old) THEN old[k] ELSE NULL
  BY DEF Holds
<1>2. CASE n = 0
  <2>1. stored = at
    BY <1>2, NoCells
  <2>2. ASSUME NEW nulls, n <= Len(old), Len(nulls) = Len(old) + 1 - n,
               \A k \in 1 .. Len(nulls) : nulls[k] = NULL
        PROVE  Holds(P!SetVarAts(stored, n, nulls), args)
    <3>1. Len(nulls) \in Nat /\ Len(nulls) >= 1
      BY <1>1, <1>2, <2>2
    <3>2. \A k \in 1 .. n : k <= Len(stored) /\ stored[k] = args[k]
      BY <1>2
    <3>3. Len(nulls) = 1 /\ n + 2 <= Len(stored) => stored[n + 2] = NULL
      <4>1. Len(nulls) = 1 /\ n + 2 <= Len(stored) => n + 2 \in 1 .. Len(at) /\ ~(n + 2 <= Len(old))
        <5>1. Len(nulls) = Len(old) + 1
          BY <1>1, <1>2, <2>2
        <5>2. n + 2 = 2
          BY <1>2
        <5>3. Len(old) \in Nat /\ Len(at) \in Nat /\ Len(stored) = Len(at)
          BY <1>1, <2>1
        <5> QED BY <5>1, <5>2, <5>3
      <4> QED BY <1>1, <2>1, <4>1
    <3>4. stored \in Seq(Cell)
      BY <1>1, <2>1
    <3> QED BY <2>2, <3>1, <3>2, <3>3, <3>4, ClearTail
  <2> QED BY <1>1, <1>2, <2>1, <2>2
<1>3. CASE n # 0
  <2>1. \A k \in 1 .. n : args[k] \in Cell
    <3>1. \A k \in 1 .. n : args[k] \in Values
      BY ElementOfSeq
    <3> QED BY <3>1 DEF Cell
  <2>2. n >= 1 /\ 0 \in Nat
    BY <1>1, <1>3
  <2>3. ArrayAfter(at, 0, args, n, stored)
    BY <1>1, <2>1, <2>2, SetVarAtsFacts
  <2>4. /\ stored \in Seq(Cell) /\ Len(stored) = n + 1
        /\ \A k \in 1 .. n + 1 : stored[k] = CellAfter(at, 0, args, n, k)
    <3>1. 0 + n + 1 = n + 1
      BY <1>1
    <3> QED BY <2>3, <3>1 DEF ArrayAfter
  <2>5. \A k \in 1 .. n : k <= Len(stored) /\ stored[k] = args[k]
    <3>1. \A k \in 1 .. n : k \in 1 .. n + 1 /\ 0 < k /\ k <= 0 + n /\ k - 0 = k /\ k <= n + 1
      BY <1>1
    <3> QED BY <2>4, <3>1 DEF CellAfter
  <2>6. ASSUME Len(old) < n PROVE Holds(stored, args)
    <3>1. stored[n + 1] = NULL
      <4>1. n + 1 \in 1 .. n + 1 /\ ~(n + 1 <= 0 + n) /\ ~(n + 1 <= 0)
        BY <1>1
      <4>2. n + 1 <= Len(at) /\ n = 1 => n + 1 \in 1 .. Len(at) /\ ~(n + 1 <= Len(old))
        BY <1>1, <2>6
      <4> QED BY <1>1, <2>4, <4>1, <4>2 DEF CellAfter
    <3>2. \A k \in 1 .. Len(stored) : k \in 1 .. n \/ k = n + 1
      BY <1>1, <2>4
    <3>3. ~(n + 1 <= n) /\ n < Len(stored) /\ \A k \in 1 .. n : k <= n
      BY <1>1, <2>4
    <3>4. \A k \in 1 .. Len(stored) : stored[k] = IF k <= n THEN args[k] ELSE NULL
      BY <2>5, <3>1, <3>2, <3>3
    <3> QED BY <2>4, <3>3, <3>4 DEF Holds
  <2>7. ASSUME NEW nulls, n <= Len(old), Len(nulls) = Len(old) + 1 - n,
               \A k \in 1 .. Len(nulls) : nulls[k] = NULL
        PROVE  Holds(P!SetVarAts(stored, n, nulls), args)
    <3>1. Len(nulls) \in Nat /\ Len(nulls) >= 1
      BY <1>1, <2>7
    <3>2. ~(n + 2 <= Len(stored))
      BY <1>1, <2>4
    <3> QED BY <2>4, <2>5, <2>7, <3>1, <3>2, ClearTail
  <2> QED BY <2>4, <2>6, <2>7
<1> QED BY <1>2, <1>3

\* The array behind a return: one cell more is cleared.
LEMMA ReturnArray ==
  ASSUME NEW args \in Seq(Values), NEW at, Holds(at, args), NEW nulls, Len(nulls) = 1, nulls[1] = NULL
  PROVE  Holds(P!SetVarAts(at, Len(args), nulls), args)
<1>1. at \in Seq(Cell) /\ Len(args) \in Nat /\ Len(at) \in Nat /\ Len(args) < Len(at)
      /\ \A k \in 1 .. Len(at) : at[k] = IF k <= Len(args) THEN args[k] ELSE NULL
  BY DEF Holds
<1>2. \A k \in 1 .. Len(args) : k <= Len(at) /\ at[k] = args[k]
  BY <1>1
<1>3. Len(args) + 2 <= Len(at) => at[Len(args) + 2] = NULL
  BY <1>1
<1>4. Len(nulls) \in Nat /\ Len(nulls) >= 1 /\ \A k \in 1 .. Len(nulls) : nulls[k] = NULL
  OBVIOUS
<1> QED BY <1>1, <1>2, <1>3, <1>4, ClearTail
-----------------------------------------------------------------------------
(***************************************************************************)
(* The parameters among the variables                                      *)
(***************************************************************************)
\* The variables of v tell the parameters args, as far as scripts assign none of
\* them.
Tells(v, args) ==
  /\ "#" \notin Variables => P!GetVar(v, "#") = Decimal[Len(args)]
  /\ "*" \notin Variables => P!GetVar(v, "*") = P!Joined(args)
  /\ \A k \in 1 .. Len(args) :
       Decimal[k] \notin Variables => P!GetVar(v, Decimal[k]) = args[k]

\* The variables that scripts assign are the same in v and w, but for the
\* parameters.
SameVariables(v, w) ==
  \A name \in Variables : ~P!IsParameter(name) => P!GetVar(w, name) = P!GetVar(v, name)

LEMMA ArgsFacts ==
  ASSUME NEW args \in Args
  PROVE  /\ args \in Seq(Values) /\ Len(args) \in Nat /\ Len(args) <= MaxArgs
         /\ Len(args) \in P!Number /\ Len(args) + 1 \in P!Number
         /\ \A k \in 1 .. Len(args) : k \in P!Number /\ k + 1 \in P!Number /\ args[k] \in Values
         /\ P!Joined(args) \in Text
<1>1. args \in Seq(Values) /\ Len(args) <= MaxArgs /\ MaxArgs \in Nat
  BY CallsAssumption DEF P!PositionalAssumption
<1>2. \A k \in 1 .. Len(args) : args[k] \in Values
  BY <1>1, ElementOfSeq
<1>3. Len(args) \in Nat
  BY <1>1
<1>4. /\ Len(args) \in P!Number /\ Len(args) + 1 \in P!Number
      /\ \A k \in 1 .. Len(args) : k \in P!Number /\ k + 1 \in P!Number
  BY <1>1, <1>3 DEF P!Number
<1>5. P!Joined(args) \in Text
  BY DEF Text
<1> QED BY <1>1, <1>2, <1>3, <1>4, <1>5

\* add_var() of "#", of the numbers in turn and of "*".
LEMMA Told ==
  ASSUME NEW v, Sound(v), NEW args \in Args, NEW pairs, Len(pairs) = Len(args) + 2,
         pairs[1][1] = "#", pairs[1][2] \in Text,
         "#" \notin Variables => pairs[1][2] = Decimal[Len(args)],
         \A k \in 1 .. Len(args) :
           /\ pairs[k + 1][1] = Decimal[k] /\ pairs[k + 1][2] \in Text
           /\ Decimal[k] \notin Variables => pairs[k + 1][2] = args[k],
         pairs[Len(args) + 2][1] = "*", pairs[Len(args) + 2][2] \in Text,
         "*" \notin Variables => pairs[Len(args) + 2][2] = P!Joined(args)
  PROVE  LET w == P!AddVars(v, pairs) IN
         Sound(w) /\ Tells(w, args) /\ SameVariables(v, w)
<1> DEFINE n == Len(args)
           w == P!AddVars(v, pairs)
<1>1. n \in Nat /\ Len(pairs) = n + 2 /\ Len(pairs) \in Nat
  BY ArgsFacts
<1>2. \A k \in 1 .. n + 2 : k = 1 \/ k = n + 2 \/ \E j \in 1 .. n : k = j + 1
  <2>1. ASSUME NEW k \in 1 .. n + 2, k # 1, k # n + 2 PROVE \E j \in 1 .. n : k = j + 1
    <3>1. k - 1 \in 1 .. n /\ k = (k - 1) + 1
      BY <1>1, <2>1
    <3> QED BY <3>1
  <2> QED BY <2>1
<1>3. /\ pairs[1][1] = "#" /\ pairs[1][2] \in Text
      /\ "#" \notin Variables => pairs[1][2] = Decimal[n]
      /\ \A k \in 1 .. n : /\ pairs[k + 1][1] = Decimal[k] /\ pairs[k + 1][2] \in Text
                           /\ Decimal[k] \notin Variables => pairs[k + 1][2] = args[k]
      /\ pairs[n + 2][1] = "*" /\ pairs[n + 2][2] \in Text
      /\ "*" \notin Variables => pairs[n + 2][2] = P!Joined(args)
  OBVIOUS
<1>4. /\ "#" \in VarName /\ "*" \in VarName
      /\ \A k \in 1 .. n : /\ Decimal[k] \in VarName
                           /\ Decimal[k] # "#" /\ Decimal[k] # "*"
                           /\ \A j \in 1 .. n : Decimal[j] = Decimal[k] => j = k
  BY ArgsFacts, Names DEF VarName, Text
<1>5. \A k \in 1 .. Len(pairs) : pairs[k][1] \in VarName /\ pairs[k][2] \in Text
  <2> SUFFICES ASSUME NEW k \in 1 .. n + 2 PROVE pairs[k][1] \in VarName /\ pairs[k][2] \in Text
    BY <1>1
  <2>1. CASE k = 1
    BY <1>3, <1>4, <2>1
  <2>2. CASE k = n + 2
    BY <1>3, <1>4, <2>2
  <2>3. ASSUME NEW j \in 1 .. n, k = j + 1 PROVE pairs[k][1] \in VarName /\ pairs[k][2] \in Text
    <3>1. pairs[k][1] = Decimal[j] /\ pairs[k][2] \in Text
      BY <1>3, <2>3
    <3> QED BY <1>4, <3>1
  <2> QED BY <1>2, <2>1, <2>2, <2>3
<1>6. Added(v, w, pairs, n + 2)
  BY <1>1, <1>5, AddVarsFacts
<1> HIDE DEF w
<1>7. ASSUME "#" \notin Variables PROVE P!GetVar(w, "#") = Decimal[n]
  <2>1. 1 \in 1 .. n + 2 /\ \A j \in 1 + 1 .. n + 2 : j \in 1 .. n + 2 /\ j # 1
    BY <1>1
  <2>2. \A j \in 1 + 1 .. n + 2 : pairs[j][1] # pairs[1][1]
    <3> SUFFICES ASSUME NEW j \in 1 + 1 .. n + 2 PROVE pairs[j][1] # "#"
      BY <1>3
    <3>1. CASE j = n + 2
      BY <1>3, <3>1
    <3>2. ASSUME NEW i \in 1 .. n, j = i + 1 PROVE pairs[j][1] # "#"
      <4>1. pairs[j][1] = Decimal[i]
        BY <1>3, <3>2
      <4> QED BY <1>4, <4>1
    <3> QED BY <1>2, <2>1, <3>1, <3>2
  <2> QED BY <1>3, <1>6, <1>7, <2>1, <2>2 DEF Added
<1>8. ASSUME "*" \notin Variables PROVE P!GetVar(w, "*") = P!Joined(args)
  <2>1. n + 2 \in 1 .. n + 2 /\ \A j \in (n + 2) + 1 .. n + 2 : FALSE
    BY <1>1
  <2> QED BY <1>3, <1>6, <1>8, <2>1 DEF Added
<1>9. ASSUME NEW k \in 1 .. n, Decimal[k] \notin Variables
      PROVE  P!GetVar(w, Decimal[k]) = args[k]
  <2>1. PICK l \in Nat : l = k + 1
    BY <1>1
  <2>2. l \in 1 .. n + 2 /\ \A j \in l + 1 .. n + 2 : j \in 1 .. n + 2 /\ j # 1 /\ j # k + 1
    BY <1>1, <2>1
  <2>3. pairs[l][1] = Decimal[k] /\ pairs[l][2] = args[k]
    BY <1>3, <1>9, <2>1
  <2>4. \A j \in l + 1 .. n + 2 : pairs[j][1] # pairs[l][1]
    <3> SUFFICES ASSUME NEW j \in l + 1 .. n + 2 PROVE pairs[j][1] # Decimal[k]
      BY <2>3
    <3>1. CASE j = n + 2
      BY <1>3, <1>4, <3>1
    <3>2. ASSUME NEW i \in 1 .. n, j = i + 1 PROVE pairs[j][1] # Decimal[k]
      <4>1. pairs[j][1] = Decimal[i] /\ i # k
        BY <1>3, <2>2, <3>2
      <4> QED BY <1>4, <4>1
    <3> QED BY <1>2, <2>2, <3>1, <3>2
  <2> QED BY <1>6, <2>2, <2>3, <2>4 DEF Added
<1>10. ASSUME NEW name \in Variables, ~P!IsParameter(name)
       PROVE  P!GetVar(w, name) = P!GetVar(v, name)
  <2>1. name # "#" /\ name # "*"
    BY <1>10 DEF P!IsParameter
  <2>2. \A k \in 1 .. n + 2 : pairs[k][1] # name
    <3> SUFFICES ASSUME NEW k \in 1 .. n + 2 PROVE pairs[k][1] # name
      OBVIOUS
    <3>1. CASE k = 1
      BY <1>3, <2>1, <3>1
    <3>2. CASE k = n + 2
      BY <1>3, <2>1, <3>2
    <3>3. ASSUME NEW j \in 1 .. n, k = j + 1 PROVE pairs[k][1] # name
      <4>1. pairs[k][1] = Decimal[j] /\ j \in P!Number
        BY <1>3, <3>3, ArgsFacts
      <4> QED BY <1>10, <4>1 DEF P!IsParameter
    <3> QED BY <1>2, <3>1, <3>2, <3>3
  <2> QED BY <1>6, <2>2 DEF Added
<1>11. Sound(w)
  BY <1>6 DEF Added
<1> QED BY <1>7, <1>8, <1>9, <1>10, <1>11 DEF w, Tells, SameVariables

\* One more at each end.
LEMMA Enclosed ==
  ASSUME NEW S, NEW x \in S, NEW s \in Seq(S), NEW y \in S
  PROVE  LET t == <<x>> \o s \o <<y>> IN
         /\ t \in Seq(S) /\ Len(t) = Len(s) + 2 /\ t[1] = x /\ t[Len(s) + 2] = y
         /\ \A k \in 1 .. Len(s) : t[k + 1] = s[k]
<1> DEFINE a == <<x>> \o s
           t == a \o <<y>>
<1>1. <<x>> \in Seq(S) /\ Len(<<x>>) = 1 /\ <<x>>[1] = x /\ <<y>> \in Seq(S) /\ Len(<<y>>) = 1 /\ <<y>>[1] = y
      /\ Len(s) \in Nat
  OBVIOUS
<1>2. /\ a \in Seq(S) /\ Len(a) = 1 + Len(s)
      /\ \A k \in 1 .. 1 + Len(s) : a[k] = IF k <= 1 THEN <<x>>[k] ELSE s[k - 1]
  <2>1. a \in Seq(S) /\ Len(a) = Len(<<x>>) + Len(s)
    BY <1>1, ConcatProperties
  <2>2. \A k \in 1 .. Len(<<x>>) + Len(s) : a[k] = IF k <= Len(<<x>>) THEN <<x>>[k] ELSE s[k - Len(<<x>>)]
    BY <1>1, ConcatProperties
  <2> QED BY <1>1, <2>1, <2>2
<1> HIDE DEF a
<1>3. /\ t \in Seq(S) /\ Len(t) = Len(a) + 1
      /\ \A k \in 1 .. Len(a) + 1 : t[k] = IF k <= Len(a) THEN a[k] ELSE <<y>>[k - Len(a)]
  <2>1. t \in Seq(S) /\ Len(t) = Len(a) + Len(<<y>>)
    BY <1>1, <1>2, ConcatProperties
  <2>2. \A k \in 1 .. Len(a) + Len(<<y>>) : t[k] = IF k <= Len(a) THEN a[k] ELSE <<y>>[k - Len(a)]
    BY <1>1, <1>2, ConcatProperties
  <2> QED BY <1>1, <2>1, <2>2
<1> HIDE DEF t
<1>4. Len(t) = Len(s) + 2
  BY <1>1, <1>2, <1>3
<1>5. t[1] = x
  BY <1>1, <1>2, <1>3
<1>6. t[Len(s) + 2] = y
  BY <1>1, <1>2, <1>3
<1>7. \A k \in 1 .. Len(s) : t[k + 1] = s[k]
  <2>1. \A k \in 1 .. Len(s) : k + 1 \in 1 .. Len(a) + 1 /\ k + 1 <= Len(a) /\ k + 1 \in 1 .. 1 + Len(s)
                              /\ ~(k + 1 <= 1) /\ (k + 1) - 1 = k
    BY <1>1, <1>2
  <2> QED BY <1>2, <1>3, <2>1
<1> QED BY <1>3, <1>4, <1>5, <1>6, <1>7 DEF t, a

LEMMA SetArgs ==
  ASSUME NEW v, Sound(v.vars), NEW args \in Args
  PROVE  LET w == P!SetArgRelatedVars(v, args) IN
         /\ w = [argc |-> w.argc, vars |-> w.vars, at |-> w.at]
         /\ w.argc = Len(args) + 1 /\ w.at = P!SetVarAts(v.at, 0, args)
         /\ Sound(w.vars) /\ Tells(w.vars, args) /\ SameVariables(v.vars, w.vars)
<1> DEFINE w == P!SetArgRelatedVars(v, args)
           n == Len(args)
           x == <<"#", Decimal[n]>>
           y == <<"*", P!Joined(args)>>
           s == P!Numbered(1, args)
           pairs == <<x>> \o s \o <<y>>
           S == VarName \X Text
<1>1. w = [argc |-> n + 1, vars |-> P!AddVars(v.vars, pairs), at |-> P!SetVarAts(v.at, 0, args)]
  BY DEF P!SetArgRelatedVars
<1> HIDE DEF w
<1>2. n \in Nat
  BY ArgsFacts
<1>3. s = [k \in 1 .. n |-> <<Decimal[k], args[k]>>]
  <2>1. \A k \in 1 .. n : 1 + k - 1 = k
    BY <1>2
  <2> QED BY <2>1 DEF P!Numbered
<1> HIDE DEF s
<1>4. \A k \in 1 .. n : Decimal[k] \in VarName /\ args[k] \in Text
  BY ArgsFacts, Names DEF Text
<1>5. s \in Seq(S) /\ Len(s) = n
  BY <1>2, <1>3, <1>4
<1>6. x \in S /\ y \in S
  BY ArgsFacts, Names DEF VarName
<1> HIDE DEF x, y, S
<1>7. /\ Len(pairs) = n + 2 /\ pairs[1] = x /\ pairs[n + 2] = y
      /\ \A k \in 1 .. n : pairs[k + 1] = s[k]
  BY <1>5, <1>6, Enclosed
<1> HIDE DEF pairs
<1>8. \A k \in 1 .. n : pairs[k + 1][1] = Decimal[k] /\ pairs[k + 1][2] = args[k]
  BY <1>3, <1>7
<1>9. /\ pairs[1][1] = "#" /\ pairs[1][2] = Decimal[n] /\ Decimal[n] \in Text
      /\ pairs[n + 2][1] = "*" /\ pairs[n + 2][2] = P!Joined(args) /\ P!Joined(args) \in Text
  <2>1. /\ x[1] = "#" /\ x[2] = Decimal[n] /\ y[1] = "*" /\ y[2] = P!Joined(args)
    BY DEF x, y
  <2>2. Decimal[n] \in Text /\ P!Joined(args) \in Text
    BY ArgsFacts, Names
  <2> HIDE DEF n
  <2> QED BY <1>7, <2>1, <2>2
<1>10. /\ Sound(P!AddVars(v.vars, pairs)) /\ Tells(P!AddVars(v.vars, pairs), args)
       /\ SameVariables(v.vars, P!AddVars(v.vars, pairs))
  BY <1>4, <1>7, <1>8, <1>9, Told
<1> QED BY <1>1, <1>10 DEF w

LEMMA Saved ==
  ASSUME NEW v, Sound(v.vars), NEW args \in Args, v.argc = Len(args) + 1, Tells(v.vars, args),
         NEW d, Sound(d.vars)
  PROVE  LET w == P!SaveArgVar(v, d) IN
         /\ w = [argc |-> w.argc, vars |-> w.vars, at |-> w.at]
         /\ w.argc = v.argc /\ w.at = P!Dup(v.at)
         /\ Sound(w.vars) /\ Tells(w.vars, args) /\ SameVariables(d.vars, w.vars)
<1> DEFINE w == P!SaveArgVar(v, d)
           n == Len(args)
           s == [i \in 1 .. v.argc - 1 |-> Decimal[i]]
           names == <<"#">> \o s \o <<"*">>
           pairs == [k \in DOMAIN names |-> <<names[k], P!Get(v, names[k])>>]
<1>1. w = [argc |-> v.argc, vars |-> P!AddVars(d.vars, pairs), at |-> P!Dup(v.at)]
  BY DEF P!SaveArgVar
<1> HIDE DEF w
<1>2. n \in Nat /\ v.argc - 1 = n
  BY ArgsFacts
<1>3. \A k \in 1 .. n : Decimal[k] \in VarName
  BY ArgsFacts, Names
<1>4. s \in Seq(VarName) /\ Len(s) = n /\ \A k \in 1 .. n : s[k] = Decimal[k]
  BY <1>2, <1>3
<1> HIDE DEF s
<1>5. "#" \in VarName /\ "*" \in VarName
  BY DEF VarName
<1>6. /\ names \in Seq(VarName) /\ Len(names) = n + 2 /\ names[1] = "#" /\ names[n + 2] = "*"
      /\ \A k \in 1 .. n : names[k + 1] = Decimal[k]
  BY <1>4, <1>5, Enclosed
<1> HIDE DEF names
<1>7. DOMAIN names = 1 .. n + 2
  BY <1>6
<1>8. Len(pairs) = n + 2 /\ \A k \in 1 .. n + 2 : pairs[k] = <<names[k], P!Get(v, names[k])>>
  BY <1>2, <1>7
<1> HIDE DEF pairs
<1>9. /\ P!Get(v, "#") \in Text /\ P!Get(v, "*") \in Text
      /\ "#" \notin Variables => P!Get(v, "#") = Decimal[n]
      /\ "*" \notin Variables => P!Get(v, "*") = P!Joined(args)
      /\ \A k \in 1 .. n : /\ P!Get(v, Decimal[k]) \in Text
                           /\ Decimal[k] \notin Variables => P!Get(v, Decimal[k]) = args[k]
  BY GetText DEF P!Get, Tells
<1>10. 1 \in 1 .. n + 2 /\ n + 2 \in 1 .. n + 2 /\ \A k \in 1 .. n : k + 1 \in 1 .. n + 2
  BY <1>2
<1>11. pairs[1] = <<"#", P!Get(v, "#")>> /\ pairs[n + 2] = <<"*", P!Get(v, "*")>>
  BY <1>6, <1>8, <1>9, <1>10
<1>12. \A k \in 1 .. n : /\ pairs[k + 1][1] = Decimal[k] /\ pairs[k + 1][2] \in Text
                         /\ Decimal[k] \notin Variables => pairs[k + 1][2] = args[k]
  <2>1. ASSUME NEW k \in 1 .. n
        PROVE  pairs[k + 1][1] = Decimal[k] /\ pairs[k + 1][2] = P!Get(v, Decimal[k])
    <3>1. pairs[k + 1] = <<names[k + 1], P!Get(v, names[k + 1])>> /\ names[k + 1] = Decimal[k]
      BY <1>6, <1>8, <1>10
    <3> QED BY <3>1
  <2>2. ASSUME NEW k \in 1 .. n
        PROVE  /\ P!Get(v, Decimal[k]) \in Text
               /\ Decimal[k] \notin Variables => P!Get(v, Decimal[k]) = args[k]
    BY <1>9
  <2> HIDE DEF n
  <2> QED BY <2>1, <2>2, Zenon
<1>13. /\ pairs[1][1] = "#" /\ pairs[1][2] \in Text
       /\ "#" \notin Variables => pairs[1][2] = Decimal[n]
       /\ pairs[n + 2][1] = "*" /\ pairs[n + 2][2] \in Text
       /\ "*" \notin Variables => pairs[n + 2][2] = P!Joined(args)
  BY <1>9, <1>11
<1>14. /\ Sound(P!AddVars(d.vars, pairs)) /\ Tells(P!AddVars(d.vars, pairs), args)
       /\ SameVariables(d.vars, P!AddVars(d.vars, pairs))
  BY <1>8, <1>12, <1>13, Told
<1> QED BY <1>1, <1>14 DEF w

\* Each text stands under its number.
Numbers(first, texts, pairs) ==
  /\ Len(pairs) = Len(texts)
  /\ \A k \in 1 .. Len(texts) : pairs[k][1] = Decimal[first + k - 1] /\ pairs[k][2] = texts[k]

LEMMA NumberedFacts ==
  ASSUME NEW first \in Nat, NEW texts, Len(texts) \in Nat
  PROVE  Numbers(first, texts, P!Numbered(first, texts))
<1> DEFINE pairs == P!Numbered(first, texts)
<1>1. pairs = [k \in 1 .. Len(texts) |-> <<Decimal[first + k - 1], texts[k]>>]
  BY DEF P!Numbered
<1> HIDE DEF pairs
<1>2. Len(pairs) = Len(texts)
  BY <1>1
<1>3. ASSUME NEW k \in 1 .. Len(texts) PROVE pairs[k][1] = Decimal[first + k - 1] /\ pairs[k][2] = texts[k]
  <2>1. pairs[k] = <<Decimal[first + k - 1], texts[k]>>
    BY <1>1
  <2> QED BY <2>1
<1> QED BY <1>2, <1>3 DEF pairs, Numbers

Whole(v) == v = [argc |-> v.argc, vars |-> v.vars, at |-> v.at]

\* ClearFrom: in w, made of v, the numbers from first to last tell nothing.
ClearedTo(v, first, last, w) ==
  /\ Whole(w) /\ w.argc = v.argc /\ Sound(w.vars)
  /\ \A name : (\A i \in first .. last : name # Decimal[i])
                => P!GetVar(w.vars, name) = P!GetVar(v.vars, name)
  /\ \E nulls : /\ Len(nulls) = last - first + 1
                /\ (\A k \in 1 .. Len(nulls) : nulls[k] = NULL)
                /\ w.at = P!SetVarAts(v.at, first - 1, nulls)

LEMMA Cleared ==
  ASSUME NEW v, Whole(v), Sound(v.vars),
         NEW first \in P!Number, NEW last \in P!Number, first <= last
  PROVE  ClearedTo(v, first, last, P!ClearFrom(v, first, last))
<1> DEFINE w == P!ClearFrom(v, first, last)
           c == last - first + 1
           nulls == [k \in 1 .. c |-> NULL]
           texts == [k \in 1 .. c |-> ""]
           pairs == P!Numbered(first, texts)
           number(k) == first + k - 1
<1>0. first \in 0 .. MaxArgs + 1 /\ last \in 0 .. MaxArgs + 1 /\ MaxArgs \in Nat
  BY Names DEF P!Number
<1>1. first \in Nat /\ last \in Nat /\ c \in Nat /\ ~(last < first)
  BY <1>0
<1>2. w = [v EXCEPT !.vars = P!AddVars(v.vars, pairs), !.at = P!SetVarAts(v.at, first - 1, nulls)]
  BY <1>1 DEF P!ClearFrom
<1>3. Len(texts) = c /\ Len(nulls) = c /\ \A k \in 1 .. c : texts[k] = "" /\ nulls[k] = NULL
  BY <1>1
<1> HIDE DEF texts, nulls
<1>4. Len(pairs) = c /\ \A k \in 1 .. c : pairs[k][1] = Decimal[number(k)] /\ pairs[k][2] = texts[k]
  <2>1. Numbers(first, texts, pairs)
    BY <1>1, <1>3, NumberedFacts
  <2> HIDE DEF pairs, c
  <2> QED BY <1>3, <2>1 DEF Numbers
<1> HIDE DEF pairs, w
<1>5. \A k \in 1 .. c : number(k) \in first .. last /\ number(k) \in P!Number
  <2>1. \A k \in 1 .. c : first + k - 1 \in first .. last /\ first + k - 1 \in 0 .. MaxArgs + 1
    BY <1>0, <1>1
  <2> QED BY <2>1 DEF P!Number
<1> HIDE DEF number, c
<1>6. \A k \in 1 .. Len(pairs) : pairs[k][1] \in VarName /\ pairs[k][2] \in Text
  <2> SUFFICES ASSUME NEW k \in 1 .. c PROVE pairs[k][1] \in VarName /\ pairs[k][2] \in Text
    BY <1>4
  <2>1. pairs[k][1] = Decimal[number(k)] /\ pairs[k][2] = ""
    BY <1>3, <1>4
  <2> QED BY <1>5, <2>1, Names
<1>7. Added(v.vars, P!AddVars(v.vars, pairs), pairs, c)
  BY <1>1, <1>4, <1>6, AddVarsFacts
<1>8. w = [argc |-> v.argc, vars |-> P!AddVars(v.vars, pairs), at |-> P!SetVarAts(v.at, first - 1, nulls)]
  BY <1>2 DEF Whole
<1>9. ASSUME NEW name, \A i \in first .. last : name # Decimal[i]
      PROVE  P!GetVar(w.vars, name) = P!GetVar(v.vars, name)
  <2>1. \A k \in 1 .. c : pairs[k][1] # name
    <3> SUFFICES ASSUME NEW k \in 1 .. c PROVE pairs[k][1] # name
      OBVIOUS
    <3>1. pairs[k][1] = Decimal[number(k)] /\ number(k) \in first .. last
      BY <1>4, <1>5
    <3> QED BY <1>9, <3>1
  <2> QED BY <1>7, <1>8, <2>1 DEF Added
<1>10. Sound(w.vars)
  BY <1>7, <1>8 DEF Added
<1>11. Len(nulls) = last - first + 1 /\ (\A k \in 1 .. Len(nulls) : nulls[k] = NULL)
       /\ w.at = P!SetVarAts(v.at, first - 1, nulls)
  BY <1>3, <1>8 DEF c
<1>12. Whole(w) /\ w.argc = v.argc
  BY <1>8 DEF Whole
<1> QED BY <1>9, <1>10, <1>11, <1>12 DEF w, ClearedTo

\* c tells the parameters args in all four ways.
Passed(c, args) ==
  /\ c = [argc |-> c.argc, vars |-> c.vars, at |-> c.at]
  /\ Sound(c.vars) /\ c.argc = Len(args) + 1 /\ Holds(c.at, args) /\ Tells(c.vars, args)

\* The numbers behind the arguments tell nothing.
LEMMA TellsBehind ==
  ASSUME NEW args \in Args, NEW v, Tells(v, args), NEW last \in P!Number, NEW w,
         \A name : (\A i \in Len(args) + 1 .. last : name # Decimal[i])
                  => P!GetVar(w, name) = P!GetVar(v, name)
  PROVE  Tells(w, args) /\ SameVariables(v, w)
<1> DEFINE behind == Len(args) + 1 .. last
<1>1. Len(args) \in Nat /\ last \in 0 .. MaxArgs + 1 /\ MaxArgs \in Nat
  BY ArgsFacts, Names DEF P!Number
<1>2. \A i \in behind : i \in P!Number /\ \A k \in 1 .. Len(args) : k # i
  <2>1. \A i \in behind : i \in 0 .. MaxArgs + 1
    BY <1>1
  <2>2. \A i \in behind : \A k \in 1 .. Len(args) : k # i
    BY <1>1
  <2> QED BY <2>1, <2>2 DEF P!Number
<1> HIDE DEF behind
<1>3. \A i \in behind : "#" # Decimal[i] /\ "*" # Decimal[i]
  BY <1>2, Names
<1>4. \A k \in 1 .. Len(args) : \A i \in behind : Decimal[k] # Decimal[i]
  BY <1>2, ArgsFacts, Names
<1>5. \A name \in Variables : ~P!IsParameter(name) => \A i \in behind : name # Decimal[i]
  BY <1>2 DEF P!IsParameter
<1>6. \A name : (\A i \in behind : name # Decimal[i]) => P!GetVar(w, name) = P!GetVar(v, name)
  BY DEF behind
<1>7. P!GetVar(w, "#") = P!GetVar(v, "#") /\ P!GetVar(w, "*") = P!GetVar(v, "*")
  BY <1>3, <1>6
<1>8. \A k \in 1 .. Len(args) : P!GetVar(w, Decimal[k]) = P!GetVar(v, Decimal[k])
  BY <1>4, <1>6
<1>9. \A name \in Variables : ~P!IsParameter(name) => P!GetVar(w, name) = P!GetVar(v, name)
  BY <1>5, <1>6
<1> QED BY <1>7, <1>8, <1>9 DEF Tells, SameVariables

LEMMA Same == ASSUME NEW u, NEW v, NEW w, SameVariables(u, v), SameVariables(v, w)
              PROVE  SameVariables(u, w)
  BY DEF SameVariables

\* exec_func() passes the arguments of the call, whatever the caller's were.
LEMMA PassedCall ==
  ASSUME NEW c, NEW old \in Args, Passed(c, old), NEW args \in Args
  PROVE  LET w == P!ClearFrom(P!SetArgRelatedVars(c, args), Len(args) + 1, Len(old) + 1) IN
         Passed(w, args) /\ SameVariables(c.vars, w.vars)
<1> DEFINE v == P!SetArgRelatedVars(c, args)
           n == Len(args)
           m == Len(old)
           w == P!ClearFrom(v, n + 1, m + 1)
<1>1. /\ v = [argc |-> v.argc, vars |-> v.vars, at |-> v.at]
      /\ v.argc = n + 1 /\ v.at = P!SetVarAts(c.at, 0, args)
      /\ Sound(v.vars) /\ Tells(v.vars, args) /\ SameVariables(c.vars, v.vars)
  BY SetArgs DEF Passed
<1> HIDE DEF v
<1>2. /\ n \in Nat /\ m \in Nat /\ n + 1 \in P!Number /\ m + 1 \in P!Number
      /\ args \in Seq(Values) /\ old \in Seq(Values)
  BY ArgsFacts
<1>3. Holds(c.at, old)
  BY DEF Passed
<1>4. /\ v.at \in Seq(Cell)
      /\ m < n => Holds(v.at, args)
      /\ \A nulls : /\ n <= m /\ Len(nulls) = m + 1 - n
                     /\ (\A k \in 1 .. Len(nulls) : nulls[k] = NULL)
                     => Holds(P!SetVarAts(v.at, n, nulls), args)
  BY <1>1, <1>2, <1>3, CallArray
<1>5. CASE m < n
  <2>1. w = v
    <3>1. m + 1 < n + 1
      BY <1>2, <1>5
    <3> QED BY <3>1 DEF P!ClearFrom
  <2> HIDE DEF w
  <2>2. Passed(v, args)
    BY <1>1, <1>4, <1>5 DEF Passed
  <2> QED BY <1>1, <2>1, <2>2 DEF w, v
<1>6. CASE ~(m < n)
  <2>1. n + 1 <= m + 1 /\ n <= m /\ (m + 1) - (n + 1) + 1 = m + 1 - n /\ (n + 1) - 1 = n
    BY <1>2, <1>6
  <2>2. PICK f \in P!Number : f = n + 1
    BY <1>2
  <2>3. PICK l \in P!Number : l = m + 1
    BY <1>2
  <2>4. w = P!ClearFrom(v, f, l) /\ f <= l
    BY <2>1, <2>2, <2>3
  <2> HIDE DEF w
  <2>5. /\ w = [argc |-> w.argc, vars |-> w.vars, at |-> w.at]
        /\ w.argc = v.argc /\ Sound(w.vars)
        /\ \A name : (\A i \in f .. l : name # Decimal[i])
                      => P!GetVar(w.vars, name) = P!GetVar(v.vars, name)
        /\ \E nulls : /\ Len(nulls) = l - f + 1
                      /\ (\A k \in 1 .. Len(nulls) : nulls[k] = NULL)
                      /\ w.at = P!SetVarAts(v.at, f - 1, nulls)
    <3>1. Whole(v) /\ Sound(v.vars)
      BY <1>1 DEF Whole
    <3>2. ClearedTo(v, f, l, w)
      BY <2>4, <3>1, Cleared
    <3> QED BY <3>2 DEF ClearedTo, Whole
  <2>6. Tells(w.vars, args) /\ SameVariables(v.vars, w.vars)
    BY <1>1, <2>2, <2>5, TellsBehind
  <2>7. PICK nulls : /\ Len(nulls) = l - f + 1
                     /\ (\A k \in 1 .. Len(nulls) : nulls[k] = NULL)
                     /\ w.at = P!SetVarAts(v.at, f - 1, nulls)
    BY <2>5
  <2>8. Len(nulls) = m + 1 - n /\ f - 1 = n
    BY <2>1, <2>2, <2>3, <2>7
  <2>9. Holds(w.at, args)
    BY <1>4, <2>1, <2>7, <2>8
  <2>10. SameVariables(c.vars, w.vars)
    BY <1>1, <2>6, Same
  <2>11. Passed(w, args)
    BY <1>1, <2>5, <2>6, <2>9 DEF Passed
  <2> QED BY <2>10, <2>11 DEF w, v
<1> QED BY <1>5, <1>6

\* save_arg_var() copies the parameters and nothing else.
LEMMA PassedSave ==
  ASSUME NEW c, NEW args \in Args, Passed(c, args), NEW d, Sound(d.vars)
  PROVE  LET w == P!SaveArgVar(c, d) IN
         Passed(w, args) /\ SameVariables(d.vars, w.vars)
<1> DEFINE w == P!SaveArgVar(c, d)
<1>1. Sound(c.vars) /\ c.argc = Len(args) + 1 /\ Tells(c.vars, args) /\ Holds(c.at, args)
  BY DEF Passed
<1>2. /\ w = [argc |-> w.argc, vars |-> w.vars, at |-> w.at]
      /\ w.argc = c.argc /\ w.at = P!Dup(c.at)
      /\ Sound(w.vars) /\ Tells(w.vars, args) /\ SameVariables(d.vars, w.vars)
  BY <1>1, Saved
<1> HIDE DEF w
<1>3. Holds(w.at, args)
  BY <1>1, <1>2, ArgsFacts, HoldsVisible
<1> QED BY <1>1, <1>2, <1>3 DEF Passed, w

\* exec_func() gives the caller its parameters back.
LEMMA PassedBack ==
  ASSUME NEW c, NEW args \in Args, Passed(c, args), NEW d, Sound(d.vars)
  PROVE  LET w == P!ClearFrom(P!SaveArgVar(c, d), c.argc, P!SaveArgVar(c, d).argc) IN
         Passed(w, args) /\ SameVariables(d.vars, w.vars)
<1> DEFINE v == P!SaveArgVar(c, d)
           n == Len(args)
           w == P!ClearFrom(v, c.argc, v.argc)
<1>1. Passed(v, args) /\ SameVariables(d.vars, v.vars)
  BY PassedSave
<1> HIDE DEF v
<1>2. /\ n \in Nat /\ n + 1 \in P!Number /\ args \in Seq(Values)
  BY ArgsFacts
<1>3. PICK f \in P!Number : f = n + 1
  BY <1>2
<1>4. c.argc = f /\ v.argc = f
  BY <1>1, <1>3 DEF Passed
<1>5. w = P!ClearFrom(v, f, f) /\ f <= f /\ f - f + 1 = 1 /\ f - 1 = n
  BY <1>2, <1>3, <1>4
<1> HIDE DEF w
<1>6. Whole(v) /\ Sound(v.vars) /\ Holds(v.at, args) /\ Tells(v.vars, args)
  BY <1>1 DEF Passed, Whole
<1>7. /\ w = [argc |-> w.argc, vars |-> w.vars, at |-> w.at]
      /\ w.argc = v.argc /\ Sound(w.vars)
      /\ \A name : (\A i \in f .. f : name # Decimal[i])
                    => P!GetVar(w.vars, name) = P!GetVar(v.vars, name)
      /\ \E nulls : /\ Len(nulls) = f - f + 1
                    /\ (\A k \in 1 .. Len(nulls) : nulls[k] = NULL)
                    /\ w.at = P!SetVarAts(v.at, f - 1, nulls)
  <2>1. ClearedTo(v, f, f, w)
    BY <1>5, <1>6, Cleared
  <2> QED BY <2>1 DEF ClearedTo, Whole
<1>8. Tells(w.vars, args) /\ SameVariables(v.vars, w.vars)
  BY <1>3, <1>6, <1>7, TellsBehind
<1>9. PICK nulls : /\ Len(nulls) = 1
                   /\ (\A k \in 1 .. Len(nulls) : nulls[k] = NULL)
                   /\ w.at = P!SetVarAts(v.at, n, nulls)
  BY <1>5, <1>7
<1>10. nulls[1] = NULL
  BY <1>9
<1>11. Holds(w.at, args)
  BY <1>2, <1>6, <1>9, <1>10, ReturnArray
<1>12. SameVariables(d.vars, w.vars)
  BY <1>1, <1>8, Same
<1>13. Passed(w, args)
  BY <1>3, <1>4, <1>7, <1>8, <1>11 DEF Passed
<1> QED BY <1>12, <1>13 DEF w, v

LEMMA NoVarsSound == Sound(P!NoVars.vars) /\ Holds(P!NoVars.at, <<>>)
<1> DEFINE v == P!NoVars.vars
           list == [k \in 1 .. FirstCap |-> P!Zero]
<1>1. v = [len |-> 0, cap |-> FirstCap, list |-> list]
  BY DEF P!NoVars, P!NoVariables
<1>2. P!NoVars.at = <<NULL>>
  BY DEF P!NoVars
<1> HIDE DEF v
<1>3. P!Zero \in Entry
  BY DEF P!Zero, Entry
<1>8. FirstCap \in Nat /\ 0 < FirstCap
  BY FirstRoom
<1>4. list \in Seq(Entry) /\ Len(list) = FirstCap /\ \A k \in 1 .. FirstCap : list[k] = P!Zero
  BY <1>3, <1>8
<1> HIDE DEF list
<1>5. v \in Vector
  BY <1>1, <1>4, <1>8 DEF Vector
<1>6. Sound(v)
  <2>1. v.len = 0 /\ v.cap = FirstCap /\ v.list = list /\ 0 < FirstCap
    BY <1>1, <1>8
  <2> QED BY <1>4, <1>5, <2>1 DEF Sound
<1>7. Holds(<<NULL>>, <<>>)
  <2>1. <<NULL>> \in Seq(Cell) /\ Len(<<NULL>>) = 1 /\ Len(<<>>) = 0 /\ <<NULL>>[1] = NULL
    BY DEF Cell
  <2>2. \A k \in 1 .. Len(<<NULL>>) : <<NULL>>[k] = IF k <= Len(<<>>) THEN <<>>[k] ELSE NULL
    BY <2>1
  <2> QED BY <2>1, <2>2 DEF Holds
<1> QED BY <1>2, <1>6, <1>7 DEF v

\* The array that the arguments of the script are stored in.
LEMMA FirstArray ==
  ASSUME NEW args \in Args
  PROVE  Holds(P!SetVarAts(P!NoVars.at, 0, args), args)
<1> DEFINE stored == P!SetVarAts(P!NoVars.at, 0, args)
<1>1. args \in Seq(Values) /\ Len(args) \in Nat /\ <<>> \in Seq(Values) /\ Len(<<>>) = 0
  BY ArgsFacts
<1>2. 0 < Len(args) => Holds(stored, args)
  BY <1>1, NoVarsSound, CallArray
<1>3. Len(args) = 0 => Holds(stored, args)
  <2>1. Len(args) = 0 => stored = P!NoVars.at /\ args = <<>>
    BY <1>1, NoCells, EmptySeq
  <2> QED BY <2>1, NoVarsSound
<1> QED BY <1>1, <1>2, <1>3

LEMMA PassedFirst ==
  ASSUME NEW args \in Args, NEW c,
         c = [P!SetArgRelatedVars(P!NoVars, args) EXCEPT
                !.vars = P!AddVars(@, [k \in DOMAIN P!Special |-> <<P!Special[k], "0">>])]
  PROVE  Passed(c, args)
<1> DEFINE v == P!SetArgRelatedVars(P!NoVars, args)
           pairs == [k \in DOMAIN P!Special |-> <<P!Special[k], "0">>]
           w == P!AddVars(v.vars, pairs)
<1>1. /\ v = [argc |-> v.argc, vars |-> v.vars, at |-> v.at]
      /\ v.argc = Len(args) + 1 /\ v.at = P!SetVarAts(P!NoVars.at, 0, args)
      /\ Sound(v.vars) /\ Tells(v.vars, args)
  BY NoVarsSound, SetArgs
<1>2. c = [v EXCEPT !.vars = w]
  OBVIOUS
<1> HIDE DEF v
<1>3. DOMAIN P!Special = 1 .. 6 /\ \A k \in 1 .. 6 : P!Special[k] \notin {"#", "*"}
  BY DEF P!Special
<1>4. \A k \in 1 .. 6 : P!Special[k] \in P!Range(P!Special)
  BY <1>3 DEF P!Range
<1>5. Len(pairs) = 6 /\ \A k \in 1 .. 6 : pairs[k] = <<P!Special[k], "0">>
  BY <1>3
<1> HIDE DEF pairs
<1>6. \A k \in 1 .. 6 : pairs[k][1] = P!Special[k] /\ pairs[k][2] = "0"
  BY <1>5
<1>7. \A k \in 1 .. Len(pairs) : pairs[k][1] \in VarName /\ pairs[k][2] \in Text
  BY <1>4, <1>5, <1>6 DEF VarName, Text
<1>8. Added(v.vars, w, pairs, 6)
  <2>1. Len(pairs) \in Nat
    BY <1>5
  <2>2. Added(v.vars, w, pairs, Len(pairs))
    BY <1>1, <1>7, <2>1, AddVarsFacts
  <2> QED BY <1>5, <2>2
<1> HIDE DEF w
<1>9. P!GetVar(w, "#") = P!GetVar(v.vars, "#") /\ P!GetVar(w, "*") = P!GetVar(v.vars, "*")
  <2>1. \A k \in 1 .. 6 : pairs[k][1] # "#" /\ pairs[k][1] # "*"
    BY <1>3, <1>6
  <2> QED BY <1>8, <2>1 DEF Added
<1>10. ASSUME NEW k \in 1 .. Len(args) PROVE P!GetVar(w, Decimal[k]) = P!GetVar(v.vars, Decimal[k])
  <2>1. Decimal[k] \notin P!Range(P!Special)
    <3>1. k \in P!Number
      BY ArgsFacts
    <3> QED BY <3>1, NumberName
  <2>2. \A j \in 1 .. 6 : pairs[j][1] # Decimal[k]
    BY <1>4, <1>6, <2>1
  <2> QED BY <1>8, <2>2 DEF Added
<1>11. Tells(w, args)
  BY <1>1, <1>9, <1>10 DEF Tells
<1>12. c = [argc |-> v.argc, vars |-> w, at |-> v.at]
  BY <1>1, <1>2
<1>13. Holds(v.at, args)
  BY <1>1, FirstArray
<1>14. Sound(w)
  BY <1>8 DEF Added
<1>15. c.argc = Len(args) + 1 /\ c.vars = w /\ c.at = v.at
  BY <1>1, <1>12
<1>16. c = [argc |-> c.argc, vars |-> c.vars, at |-> c.at]
  BY <1>12, <1>15
<1> QED BY <1>11, <1>13, <1>14, <1>15, <1>16 DEF Passed

\* An assignment sets one variable.
LEMMA PassedAssign ==
  ASSUME NEW c, NEW args \in Args, Passed(c, args), NEW name \in Variables, NEW value \in Values
  PROVE  LET w == P!Set(c, name, value) IN
         /\ Passed(w, args) /\ P!Get(w, name) = value
         /\ \A other : other # name => P!Get(w, other) = P!Get(c, other)
<1> DEFINE v == P!AddVar(c.vars, name, value)
           w == P!Set(c, name, value)
<1>1. w = [c EXCEPT !.vars = v]
  BY DEF P!Set
<1>2. c = [argc |-> c.argc, vars |-> c.vars, at |-> c.at] /\ Sound(c.vars) /\ Tells(c.vars, args)
  BY DEF Passed
<1>3. name \in VarName /\ value \in Text
  BY DEF VarName, Text
<1>4. /\ Sound(v) /\ P!GetVar(v, name) = value
      /\ \A other : other # name => P!GetVar(v, other) = P!GetVar(c.vars, other)
  BY <1>2, <1>3, AddVarFacts
<1> HIDE DEF v, w
<1>5. w = [argc |-> c.argc, vars |-> v, at |-> c.at]
  BY <1>1, <1>2
<1>6. /\ "#" \notin Variables => name # "#"
      /\ "*" \notin Variables => name # "*"
      /\ \A k : Decimal[k] \notin Variables => name # Decimal[k]
  BY Zenon
<1>7. Tells(v, args)
  BY <1>2, <1>4, <1>6 DEF Tells
<1>8. Passed(w, args)
  BY <1>4, <1>5, <1>7 DEF Passed
<1>9. w.vars = v
  BY <1>5
<1> QED BY <1>4, <1>8, <1>9 DEF P!Get, w
-----------------------------------------------------------------------------
(***************************************************************************)
(* The invariant: the shell and each save keep the parameters of a call    *)
(***************************************************************************)
Contexts == {c \in [argc : Nat, vars : Vector, at : Seq(Cell)] : \E args \in Args : Passed(c, args)}

ParamInv ==
  /\ context \in Contexts /\ saves \in Seq(Contexts)
  /\ (\E S : running \in Seq(S)) /\ Len(saves) = Len(running)

LEMMA InContexts == ASSUME NEW c, NEW args \in Args, Passed(c, args) PROVE c \in Contexts
<1>1. Len(args) \in Nat
  BY ArgsFacts
<1>2. c.argc \in Nat /\ c.vars \in Vector /\ c.at \in Seq(Cell)
  BY <1>1 DEF Passed, Sound, Holds
<1>3. c \in [argc : Nat, vars : Vector, at : Seq(Cell)]
  BY <1>2 DEF Passed
<1> QED BY <1>3 DEF Contexts

LEMMA NoVarsIn == Sound(P!NoVars.vars)
  BY NoVarsSound

\* What exec_func() leaves before it evaluates the body.
LEMMA ExecLeaves ==
  ASSUME ParamInv, NEW args \in Args, P!ExecFunc(args)
  PROVE  \E old \in Args, save \in Contexts :
           /\ Passed(context, old) /\ Passed(save, old) /\ saves' = Append(saves, save)
           /\ Passed(context', args) /\ SameVariables(context.vars, context'.vars)
<1> DEFINE save == P!SaveArgVar(context, P!NoVars)
<1>1. PICK old \in Args : Passed(context, old)
  BY DEF ParamInv, Contexts
<1>2. Passed(save, old)
  BY <1>1, NoVarsIn, PassedSave
<1>3. save \in Contexts
  BY <1>2, InContexts
<1>4. saves' = Append(saves, save)
  BY DEF P!ExecFunc
<1>5. context' = P!ClearFrom(P!SetArgRelatedVars(context, args), Len(args) + 1, save.argc)
  BY DEF P!ExecFunc
<1> HIDE DEF save
<1>6. save.argc = Len(old) + 1
  BY <1>2 DEF Passed
<1>7. context' = P!ClearFrom(P!SetArgRelatedVars(context, args), Len(args) + 1, Len(old) + 1)
  BY <1>5, <1>6
<1>8. Passed(context', args) /\ SameVariables(context.vars, context'.vars)
  BY <1>1, <1>7, PassedCall
<1> QED BY <1>1, <1>2, <1>3, <1>4, <1>8

\* What it leaves behind that.
LEMMA ReturnLeaves ==
  ASSUME ParamInv, P!Return
  PROVE  \E args \in Args :
           /\ Len(saves) \in Nat /\ Len(saves) >= 1
           /\ Passed(saves[Len(saves)], args) /\ Passed(context', args)
           /\ saves' = SubSeq(saves, 1, Len(saves) - 1)
           /\ SameVariables(context.vars, context'.vars)
<1> DEFINE save == saves[Len(saves)]
<1>1. saves # <<>> /\ saves' = SubSeq(saves, 1, Len(saves) - 1)
  BY DEF P!Return
<1>2. Len(saves) \in Nat /\ Len(saves) >= 1 /\ save \in Contexts
  <2>1. saves \in Seq(Contexts)
    BY DEF ParamInv
  <2> QED BY <1>1, <2>1
<1>3. context' = P!ClearFrom(P!SaveArgVar(save, context), save.argc, P!SaveArgVar(save, context).argc)
  BY DEF P!Return, P!Back
<1> HIDE DEF save
<1>4. PICK args \in Args : Passed(save, args)
  BY <1>2 DEF Contexts
<1>5. Sound(context.vars)
  BY DEF ParamInv, Contexts, Passed
<1>6. Passed(context', args) /\ SameVariables(context.vars, context'.vars)
  BY <1>3, <1>4, <1>5, PassedBack
<1> QED BY <1>1, <1>2, <1>4, <1>6 DEF save

LEMMA ParamInit == CallsInit => ParamInv
<1> SUFFICES ASSUME CallsInit PROVE ParamInv
  OBVIOUS
<1>1. PICK args \in Args :
        context = [P!SetArgRelatedVars(P!NoVars, args) EXCEPT
                     !.vars = P!AddVars(@, [k \in DOMAIN P!Special |-> <<P!Special[k], "0">>])]
  BY DEF CallsInit, P!Init
<1>2. Passed(context, args)
  BY <1>1, PassedFirst
<1>3. context \in Contexts
  BY <1>2, InContexts
<1>4. saves = <<>> /\ running = <<>>
  BY DEF CallsInit, Init, P!Init
<1>5. running \in Seq({}) /\ Len(saves) = Len(running) /\ saves \in Seq(Contexts)
  BY <1>4
<1> QED BY <1>3, <1>5 DEF ParamInv

\* The table of functions leaves the calls as they are.
LEMMA TableOnly ==
  ASSUME NextLine \/ LineEnds \/ (\E n \in Name : AddFc(n) \/ DestroyFc(n))
  PROVE  running' = running
  BY DEF NextLine, LineEnds, AddFc, DestroyFc

LEMMA ParamExec ==
  ASSUME ParamInv, NEW n \in Name, NEW args \in Args, ExecFunc(n, args)
  PROVE  ParamInv'
<1> DEFINE run == [name |-> n, ast |-> fcs[Place(n)].ast]
<1>1. PICK old \in Args, save \in Contexts :
        saves' = Append(saves, save) /\ Passed(context', args)
  <2>1. P!ExecFunc(args)
    BY DEF ExecFunc
  <2> QED BY <2>1, ExecLeaves
<1>2. running' = Append(running, run)
  BY DEF ExecFunc, Call
<1> HIDE DEF run
<1>3. context' \in Contexts
  BY <1>1, InContexts
<1>4. PICK S : running \in Seq(S)
  BY DEF ParamInv
<1>5. running' \in Seq(S \cup {run}) /\ Len(running') = Len(running) + 1
  BY <1>2, <1>4
<1>6. saves' \in Seq(Contexts) /\ Len(saves') = Len(saves) + 1
  BY <1>1 DEF ParamInv
<1> QED BY <1>3, <1>5, <1>6 DEF ParamInv

LEMMA ParamReturn ==
  ASSUME ParamInv, FuncReturns
  PROVE  ParamInv'
<1>1. PICK args \in Args :
        /\ Len(saves) \in Nat /\ Len(saves) >= 1
        /\ Passed(context', args) /\ saves' = SubSeq(saves, 1, Len(saves) - 1)
  <2>1. P!Return
    BY DEF FuncReturns
  <2> QED BY <2>1, ReturnLeaves
<1>2. running' = SubSeq(running, 1, Len(running) - 1)
  BY DEF FuncReturns, Return
<1>3. context' \in Contexts
  BY <1>1, InContexts
<1>4. PICK S : running \in Seq(S)
  BY DEF ParamInv
<1>5. Len(running) \in Nat /\ Len(running) >= 1 /\ Len(saves) = Len(running)
  BY <1>1 DEF ParamInv
<1>6. running' \in Seq(S) /\ Len(running') = Len(running) - 1
  BY <1>2, <1>4, <1>5
<1>7. saves' \in Seq(Contexts) /\ Len(saves') = Len(saves) - 1
  BY <1>1 DEF ParamInv
<1> QED BY <1>3, <1>5, <1>6, <1>7 DEF ParamInv

LEMMA ParamAssign ==
  ASSUME ParamInv, NEW name \in Variables, NEW value \in Values,
         P!Assign(name, value), UNCHANGED running
  PROVE  ParamInv'
<1>1. context' = P!Set(context, name, value) /\ saves' = saves
  BY DEF P!Assign
<1>2. PICK args \in Args : Passed(context, args)
  BY DEF ParamInv, Contexts
<1>3. Passed(context', args)
  BY <1>1, <1>2, PassedAssign
<1>4. context' \in Contexts
  BY <1>3, InContexts
<1> QED BY <1>1, <1>4 DEF ParamInv

LEMMA ParamSame == ParamInv /\ UNCHANGED <<context, saves, running>> => ParamInv'
  BY DEF ParamInv

LEMMA ParamStep == ParamInv /\ [CallsNext]_callsVars => ParamInv'
<1> SUFFICES ASSUME ParamInv, [CallsNext]_callsVars PROVE ParamInv'
  OBVIOUS
<1>1. ASSUME NEW n \in Name, NEW args \in Args, ExecFunc(n, args) PROVE ParamInv'
  BY <1>1, ParamExec
<1>2. CASE FuncReturns
  BY <1>2, ParamReturn
<1>3. CASE /\ NextLine \/ LineEnds \/ (\E n \in Name : AddFc(n) \/ DestroyFc(n))
           /\ UNCHANGED <<context, saves>>
  BY <1>3, TableOnly, ParamSame
<1>4. ASSUME NEW name \in Variables, NEW value \in Values,
             P!Assign(name, value), UNCHANGED vars
      PROVE  ParamInv'
  <2>1. UNCHANGED running
    BY <1>4 DEF vars
  <2> QED BY <1>4, <2>1, ParamAssign
<1>5. CASE UNCHANGED callsVars
  BY <1>5, ParamSame DEF callsVars, vars
<1> QED BY <1>1, <1>2, <1>3, <1>4, <1>5 DEF CallsNext

LEMMA ParamAlways == CallsSpec => []ParamInv
<1> QED BY ParamInit, ParamStep, PTL DEF CallsSpec
-----------------------------------------------------------------------------
(***************************************************************************)
(* The theorems                                                            *)
(***************************************************************************)
\* What "$@" gives is what was passed.
LEMMA PassedVisible ==
  ASSUME NEW c, NEW args \in Args, Passed(c, args)
  PROVE  P!Ends(c.at) # {} /\ P!Visible(c.at) = args /\ P!Fits(c.vars)
<1>1. args \in Seq(Values) /\ Holds(c.at, args) /\ Sound(c.vars)
  BY ArgsFacts DEF Passed
<1> QED BY <1>1, HoldsVisible, SoundFits

LEMMA ParamTypes == ParamInv => TypeOK
<1> SUFFICES ASSUME ParamInv PROVE TypeOK
  OBVIOUS
<1>1. ASSUME NEW c \in Contexts PROVE P!Ends(c.at) # {} /\ P!Fits(c.vars)
  BY PassedVisible DEF Contexts
<1>2. context \in Contexts /\ \A k \in DOMAIN saves : saves[k] \in Contexts
  BY DEF ParamInv
<1>3. SavedForEach
  BY DEF ParamInv, SavedForEach
<1> QED BY <1>1, <1>2, <1>3 DEF TypeOK, P!TypeOK

\* Type correctness, for any names, values, lists of arguments and depth of
\* calls: the array that "$@" is read from always has its NULL, in the shell and
\* in what each exec_func() has saved, add_var() always keeps a place of the
\* vector to spare and never has a name twice, and there is one save for each
\* function that runs.
THEOREM CallsTypeCorrect == CallsSpec => []TypeOK
<1> QED BY ParamAlways, ParamTypes, PTL

LEMMA ParamAgree == ParamInv => ParametersAgree
<1> SUFFICES ASSUME ParamInv PROVE ParametersAgree
  OBVIOUS
<1>1. PICK args \in Args : Passed(context, args)
  BY DEF ParamInv, Contexts
<1>2. P!Visible(context.at) = args /\ Len(args) \in Nat /\ DOMAIN args = 1 .. Len(args)
  BY <1>1, PassedVisible, ArgsFacts
<1>3. context.argc = Len(args) + 1 /\ Tells(context.vars, args)
  BY <1>1 DEF Passed
<1>4. P!Count = Len(args)
  BY <1>2, <1>3 DEF P!Count
<1>5. /\ "#" \notin Variables => P!Get(context, "#") = Decimal[Len(args)]
      /\ "*" \notin Variables => P!Get(context, "*") = P!Joined(args)
      /\ \A k \in DOMAIN args :
           Decimal[k] \notin Variables => P!Get(context, Decimal[k]) = args[k]
  BY <1>2, <1>3 DEF Tells, P!Get
<1> QED BY <1>2, <1>4, <1>5 DEF ParametersAgree, P!ParametersAgree

\* set_arg_related_vars(), save_arg_var() and the loops of exec_func() that clear
\* what the caller had keep the four places the parameters are in together: "$@"
\* and argc agree, and so does each of "$#", "$*" and the numbers that the script
\* does not assign, whatever else it assigns and however functions are called,
\* return, and are defined in one another.
THEOREM ParametersCorrect == CallsSpec => []ParametersAgree
<1> QED BY ParamAlways, ParamAgree, PTL

\* The callers' arguments as CallStack has them.
Callers == [k \in DOMAIN saves |-> P!Visible(saves[k].at)]

LEMMA CallsDefs ==
  /\ P!Calls!Init <=> P!Visible(context.at) \in Args /\ Callers = <<>>
  /\ P!Calls!Call <=> P!Visible(context.at)' \in Args
                      /\ Callers' = Append(Callers, P!Visible(context.at))
  /\ P!Calls!Return <=> /\ Callers # <<>>
                        /\ P!Visible(context.at)' = Callers[Len(Callers)]
                        /\ Callers' = SubSeq(Callers, 1, Len(Callers) - 1)
  BY DEF P!Calls!Init, P!Calls!Call, P!Calls!Return, Callers

LEMMA VisibleSeq ==
  ASSUME NEW s \in Seq(Contexts), NEW cs, cs = [k \in DOMAIN s |-> P!Visible(s[k].at)]
  PROVE  cs \in Seq(Args) /\ Len(cs) = Len(s) /\ \A k \in 1 .. Len(s) : cs[k] = P!Visible(s[k].at)
<1>1. \A c \in Contexts : P!Visible(c.at) \in Args
  BY PassedVisible DEF Contexts
<1> QED BY <1>1

LEMMA CallersSeq ==
  ASSUME ParamInv
  PROVE  /\ Callers \in Seq(Args) /\ Len(Callers) = Len(saves)
         /\ \A k \in 1 .. Len(saves) : Callers[k] = P!Visible(saves[k].at)
  BY VisibleSeq DEF ParamInv, Callers

LEMMA CallersNext ==
  ASSUME ParamInv'
  PROVE  /\ Callers' \in Seq(Args) /\ Len(Callers') = Len(saves')
         /\ \A k \in 1 .. Len(saves') : Callers'[k] = P!Visible(saves'[k].at)
<1>1. Callers' = [k \in DOMAIN saves' |-> P!Visible(saves'[k].at)]
  BY DEF Callers, P!Visible, P!Ends
<1>2. saves' \in Seq(Contexts)
  BY DEF ParamInv
<1> QED BY <1>1, <1>2, VisibleSeq

LEMMA StackInit == CallsInit => P!Calls!Init
<1> SUFFICES ASSUME CallsInit PROVE P!Calls!Init
  OBVIOUS
<1>1. ParamInv
  BY ParamInit
<1>2. P!Visible(context.at) \in Args
  BY <1>1, PassedVisible DEF ParamInv, Contexts
<1>3. saves = <<>>
  BY DEF CallsInit, P!Init
<1>4. Callers = <<>>
  BY <1>1, <1>3, CallersSeq
<1> QED BY <1>2, <1>4, CallsDefs

LEMMA StackCall ==
  ASSUME ParamInv, ParamInv', NEW args \in Args, P!ExecFunc(args)
  PROVE  P!Calls!Call
<1>1. PICK old \in Args, save \in Contexts :
        /\ Passed(context, old) /\ Passed(save, old) /\ saves' = Append(saves, save)
        /\ Passed(context', args)
  BY ExecLeaves
<1>2. P!Visible(context.at) = old /\ P!Visible(save.at) = old /\ P!Visible(context'.at) = args
  BY <1>1, PassedVisible
<1>3. saves \in Seq(Contexts) /\ saves' \in Seq(Contexts)
  BY DEF ParamInv
<1>4. /\ Callers \in Seq(Args) /\ Len(Callers) = Len(saves)
      /\ \A k \in 1 .. Len(saves) : Callers[k] = P!Visible(saves[k].at)
  BY CallersSeq
<1>5. /\ Callers' \in Seq(Args) /\ Len(Callers') = Len(saves')
      /\ \A k \in 1 .. Len(saves') : Callers'[k] = P!Visible(saves'[k].at)
  BY CallersNext
<1>6. \A k \in 1 .. Len(saves') : Callers'[k] = IF k <= Len(saves) THEN Callers[k] ELSE old
  BY <1>1, <1>2, <1>3, <1>4, <1>5
<1>7. Callers' = Append(Callers, old)
  <2>1. Append(Callers, old) \in Seq(Args) /\ Len(Append(Callers, old)) = Len(saves')
    BY <1>1, <1>3, <1>4
  <2>2. \A k \in 1 .. Len(saves') : Callers'[k] = Append(Callers, old)[k]
    BY <1>1, <1>3, <1>4, <1>6
  <2> QED BY <1>5, <2>1, <2>2, SeqEqual
<1>8. P!Visible(context.at)' \in Args
  BY <1>2 DEF P!Visible, P!Ends
<1> QED BY <1>2, <1>7, <1>8, CallsDefs

LEMMA AllButLast ==
  ASSUME NEW S, NEW s \in Seq(S), Len(s) >= 1
  PROVE  LET t == SubSeq(s, 1, Len(s) - 1) IN
         t \in Seq(S) /\ Len(t) = Len(s) - 1 /\ \A k \in 1 .. Len(s) - 1 : t[k] = s[k]
<1> DEFINE n == Len(s) - 1
           t == SubSeq(s, 1, n)
<1>1. n \in Nat /\ \A k \in 1 .. n : s[k] \in S
  OBVIOUS
<1> HIDE DEF n
<1>2. t \in Seq(S) /\ Len(t) = (IF 1 <= n THEN n - 1 + 1 ELSE 0)
      /\ \A k \in 1 .. n - 1 + 1 : t[k] = s[1 + k - 1]
  BY <1>1, SubSeqProperties
<1> HIDE DEF t
<1>3. Len(t) = n /\ \A k \in 1 .. n : t[k] = s[k]
  BY <1>1, <1>2
<1> QED BY <1>2, <1>3 DEF n, t

LEMMA StackReturn ==
  ASSUME ParamInv, ParamInv', P!Return
  PROVE  P!Calls!Return
<1> DEFINE n == Len(saves)
<1>1. PICK args \in Args :
        /\ n \in Nat /\ n >= 1
        /\ Passed(saves[n], args) /\ Passed(context', args) /\ saves' = SubSeq(saves, 1, n - 1)
  BY ReturnLeaves
<1>2. P!Visible(saves[n].at) = args /\ P!Visible(context'.at) = args
  BY <1>1, PassedVisible
<1>3. saves \in Seq(Contexts)
  BY DEF ParamInv
<1>4. /\ Callers \in Seq(Args) /\ Len(Callers) = n
      /\ \A k \in 1 .. n : Callers[k] = P!Visible(saves[k].at)
  BY CallersSeq
<1>5. /\ Callers' \in Seq(Args) /\ Len(Callers') = Len(saves')
      /\ \A k \in 1 .. Len(saves') : Callers'[k] = P!Visible(saves'[k].at)
  BY CallersNext
<1> HIDE DEF n
<1>6. Len(saves') = n - 1 /\ \A k \in 1 .. n - 1 : saves'[k] = saves[k]
  <2>1. saves' = SubSeq(saves, 1, Len(saves) - 1) /\ Len(saves) >= 1
    BY <1>1 DEF n
  <2> QED BY <1>3, <2>1, AllButLast DEF n
<1>7. Callers' = SubSeq(Callers, 1, n - 1)
  <2>1. /\ SubSeq(Callers, 1, n - 1) \in Seq(Args) /\ Len(SubSeq(Callers, 1, n - 1)) = n - 1
        /\ \A k \in 1 .. n - 1 : SubSeq(Callers, 1, n - 1)[k] = Callers[k]
    BY <1>1, <1>4, AllButLast
  <2>2. \A k \in 1 .. n - 1 : Callers'[k] = Callers[k]
    BY <1>1, <1>4, <1>5, <1>6
  <2> QED BY <1>5, <1>6, <2>1, <2>2, SeqEqual
<1>8. P!Visible(context.at)' = Callers[n]
  <2>1. P!Visible(context.at)' = P!Visible(context'.at)
    BY DEF P!Visible, P!Ends
  <2> QED BY <1>1, <1>2, <1>4, <2>1
<1>9. Callers # <<>>
  BY <1>1, <1>4
<1> QED BY <1>4, <1>7, <1>8, <1>9, CallsDefs

\* Nothing else moves the parameters.
LEMMA StackSame ==
  ASSUME UNCHANGED <<context, saves>>
  PROVE  UNCHANGED P!Calls!vars
  BY DEF P!Calls!vars, P!Visible, P!Ends

LEMMA StackAssign ==
  ASSUME NEW name, NEW value, P!Assign(name, value), ParamInv
  PROVE  UNCHANGED P!Calls!vars
<1>1. context'.at = context.at /\ saves' = saves
  BY DEF P!Assign, P!Set, ParamInv, Contexts
<1> QED BY <1>1 DEF P!Calls!vars, P!Visible, P!Ends

LEMMA StackStep ==
  ParamInv /\ ParamInv' /\ [CallsNext]_callsVars => [P!Calls!Next]_P!Calls!vars
<1> SUFFICES ASSUME ParamInv, ParamInv', [CallsNext]_callsVars
             PROVE  [P!Calls!Next]_P!Calls!vars
  OBVIOUS
<1>1. ASSUME NEW n \in Name, NEW args \in Args, ExecFunc(n, args) PROVE P!Calls!Next
  <2>1. P!ExecFunc(args)
    BY <1>1 DEF ExecFunc
  <2> QED BY <2>1, StackCall DEF P!Calls!Next
<1>2. CASE FuncReturns
  <2>1. P!Return
    BY <1>2 DEF FuncReturns
  <2> QED BY <2>1, StackReturn DEF P!Calls!Next
<1>3. CASE /\ NextLine \/ LineEnds \/ (\E n \in Name : AddFc(n) \/ DestroyFc(n))
           /\ UNCHANGED <<context, saves>>
  BY <1>3, StackSame
<1>4. ASSUME NEW name \in Variables, NEW value \in Values, P!Assign(name, value)
      PROVE  UNCHANGED P!Calls!vars
  BY <1>4, StackAssign
<1>5. CASE UNCHANGED callsVars
  BY <1>5, StackSame DEF callsVars
<1> QED BY <1>1, <1>2, <1>3, <1>4, <1>5 DEF CallsNext

\* exec_func() implements the stack of calls that a shell promises: a function
\* sees the arguments of its call, and whatever it does with functions, variables
\* and calls of its own, its caller has its parameters back when it returns.
THEOREM CallsRefine == CallsSpec => IsCallStack
<1> QED BY ParamAlways, StackInit, StackStep, PTL DEF CallsSpec, IsCallStack, P!IsCallStack, P!Calls!Spec

LEMMA OneVariable == ParamInv /\ [CallsNext]_callsVars => [P!SetsOne]_callsVars
<1> SUFFICES ASSUME ParamInv, [CallsNext]_callsVars PROVE P!SetsOne
  OBVIOUS
<1>1. PICK args \in Args : Passed(context, args)
  BY DEF ParamInv, Contexts
<1>2. ASSUME NEW name \in Variables, NEW value \in Values, P!Assign(name, value)
      PROVE  /\ P!Get(context', name) = value
             /\ \A other : other # name => P!Get(context', other) = P!Get(context, other)
  <2>1. context' = P!Set(context, name, value)
    BY <1>2 DEF P!Assign
  <2> QED BY <1>1, <2>1, PassedAssign
<1>3. \/ \E name \in Variables, value \in Values : P!Assign(name, value)
      \/ SameVariables(context.vars, context'.vars) /\ saves' # saves
      \/ UNCHANGED context
  <2>1. ASSUME NEW n \in Name, NEW new \in Args, ExecFunc(n, new)
        PROVE  SameVariables(context.vars, context'.vars) /\ saves' # saves
    <3>1. P!ExecFunc(new)
      BY <2>1 DEF ExecFunc
    <3>2. PICK save \in Contexts : saves' = Append(saves, save)
      BY <3>1, ExecLeaves
    <3>3. saves' # saves
      <4>1. saves \in Seq(Contexts)
        BY DEF ParamInv
      <4>2. Len(saves') = Len(saves) + 1 /\ Len(saves) \in Nat
        BY <3>2, <4>1
      <4> QED BY <4>2
    <3> QED BY <3>1, <3>3, ExecLeaves
  <2>2. CASE FuncReturns
    <3>1. P!Return
      BY <2>2 DEF FuncReturns
    <3>2. Len(saves) \in Nat /\ Len(saves) >= 1 /\ saves' = SubSeq(saves, 1, Len(saves) - 1)
      BY <3>1, ReturnLeaves
    <3>3. saves' # saves
      <4>1. saves \in Seq(Contexts)
        BY DEF ParamInv
      <4>2. Len(saves') = Len(saves) - 1
        BY <3>2, <4>1, AllButLast
      <4> QED BY <3>2, <4>2
    <3> QED BY <3>1, <3>3, ReturnLeaves
  <2> QED BY <2>1, <2>2 DEF CallsNext, callsVars
<1>4. ASSUME NEW name \in Variables, P!Get(context', name) # P!Get(context, name)
      PROVE  \/ \E value \in Values : P!Assign(name, value)
             \/ P!IsParameter(name) /\ saves' # saves
  BY <1>2, <1>3, <1>4 DEF SameVariables, P!Get
<1> QED BY <1>2, <1>4 DEF P!SetsOne

\* add_var() sets the variable it is asked to and no other one, also when it moves
\* the vector to twice the room, and no call, return or definition of a function
\* changes one that is not a parameter: there are no local variables.
THEOREM VariablesCorrect == CallsSpec => SetsOneVariable
<1> QED BY ParamAlways, OneVariable, PTL DEF CallsSpec, SetsOneVariable

LEMMA TableStep == [CallsNext]_callsVars => [Next]_vars
<1> SUFFICES ASSUME [CallsNext]_callsVars PROVE [Next]_vars
  OBVIOUS
<1>1. ASSUME NEW n \in Name, NEW args \in Args, ExecFunc(n, args) PROVE Next
  BY <1>1 DEF ExecFunc, Next
<1>2. CASE FuncReturns
  BY <1>2 DEF FuncReturns, Next
<1>3. CASE NextLine \/ LineEnds \/ (\E n \in Name : AddFc(n) \/ DestroyFc(n))
  BY <1>3 DEF Next
<1>4. CASE UNCHANGED vars
  BY <1>4
<1> QED BY <1>1, <1>2, <1>3, <1>4 DEF CallsNext, callsVars

\* Passing arguments and assigning variables does to the table of functions and
\* its trees what FuncTable says, so that what is proved of it holds of Calls.
THEOREM CallsUseTable == CallsSpec => Spec
<1>1. CallsInit => Init
  BY DEF CallsInit
<1> QED BY <1>1, TableStep, PTL DEF CallsSpec, Spec
=============================================================================
