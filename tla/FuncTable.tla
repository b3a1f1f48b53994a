------------------------------- MODULE FuncTable -------------------------------
(***************************************************************************)
(* The table of functions (func/func.c) and the trees in it.  A definition *)
(* is copied out of the tree of the line that is being executed, or out of *)
(* the body of the function that is; the line's tree is freed when the     *)
(* line is over, a body when its function is defined again or unset.  A    *)
(* command substitution among the words of a tree is a tree of its own:    *)
(* handle_rec() frees it with the tree, but a copy points to the same one  *)
(* (dup_token_vect()).  Handle_rec() does not free a tree whole: what it   *)
(* never frees, the struct ast of each node, the child of a `!' and of a   *)
(* `( )' and the items of a case, stays until xfree_all() and is not       *)
(* followed here.                                                          *)
(***************************************************************************)
EXTENDS Integers, Sequences, FiniteSets

CONSTANTS
  Name,
  Tree,              \* the addresses of trees, of the part that handle_rec() frees
  MaxCalls,          \* bound: nested calls
  TouchesRunning,    \* whether a function that runs is defined again or unset
  Substitutes        \* whether lines hold command substitutions

ASSUME FuncTableAssumption ==
  /\ MaxCalls \in Nat
  /\ TouchesRunning \in BOOLEAN /\ Substitutes \in BOOLEAN

VARIABLES
  fcs,      \* the functions: name and body of each, in the order of the vector
  live,     \* the trees that are allocated, that part of each
  line,     \* the tree of the line, in a set that is empty between two lines
  running   \* the functions and bodies that are being executed, outermost first

vars == <<fcs, live, line, running>>

\* A tree and the substitutions in it, at most one here, and whether these are
\* under a `!' or in a `( )'.
Ast(t, subs, under) == [root |-> t, subs |-> subs, under |-> under]

\* What is evaluated of it.
Memory(ast) == {ast.root} \cup ast.subs

\* What handle_rec() with H_FREE frees: it does not go into `!' and `( )'.
Released(ast) == {ast.root} \cup IF ast.under THEN {} ELSE ast.subs
ReleasedOf(asts) == UNION {Released(ast) : ast \in asts}

Free == Tree \ live
Places == DOMAIN fcs
IsDefined(n) == \E k \in Places : fcs[k].name = n
Place(n) == CHOOSE k \in Places : fcs[k].name = n
Bodies == {fcs[k].ast : k \in Places}

\* Whether something is executed: only then are functions defined or called.
Executing == line # {}

\* The trees a definition may be copied out of: handle_rec() with H_DUP leaves
\* the copy with the substitutions of the source, if they are in that part, and
\* under the `!' or `( )' they are under there, if that is in the part as well.
Sources == line \cup {running[k].ast : k \in DOMAIN running}
Copies(t) ==
  {Ast(t, {}, FALSE)} \cup
  UNION {{Ast(t, ast.subs, under) : under \in {FALSE, ast.under}} : ast \in Sources}

\* The runs of function n.
Runs(n) == {k \in DOMAIN running : running[k].name = n}
MayTouch(n) == TouchesRunning \/ Runs(n) = {}

\* exec_script() has a tree for the next line.
NextLine ==
  /\ ~Executing
  /\ \E t \in Free :
       \E subs \in {{}} \cup IF Substitutes THEN {{s} : s \in Free \ {t}} ELSE {} :
         \E under \in {FALSE, subs # {}} :
           line' = {Ast(t, subs, under)} /\ live' = live \cup {t} \cup subs
  /\ UNCHANGED <<fcs, running>>

\* It frees the tree when it has been evaluated.
LineEnds ==
  /\ Executing /\ running = <<>>
  /\ live' = live \ ReleasedOf(line) /\ line' = {}
  /\ UNCHANGED <<fcs, running>>

\* A plausible bug: the tree of the line itself is kept.
AddNewShared(n) ==
  /\ ~IsDefined(n)
  /\ \E ast \in line : fcs' = Append(fcs, [name |-> n, ast |-> ast])
  /\ UNCHANGED live

\* add_fc() of a new name.
AddNew(n) ==
  /\ ~IsDefined(n)
  /\ \E t \in Free : \E ast \in Copies(t) :
       fcs' = Append(fcs, [name |-> n, ast |-> ast]) /\ live' = live \cup {t}

\* add_fc() of a name that is there: the old body is freed.
AddAgain(n) ==
  /\ IsDefined(n)
  /\ \E t \in Free : \E ast \in Copies(t) :
       /\ fcs' = [fcs EXCEPT ![Place(n)].ast = ast]
       /\ live' = (live \cup {t}) \ Released(fcs[Place(n)].ast)

AddFc(n) ==
  /\ Executing /\ MayTouch(n)
  /\ AddNew(n) \/ AddAgain(n)
  /\ UNCHANGED <<line, running>>

\* A plausible bug: the functions move up from one place too far.
ShiftedLate(p) == [k \in 1 .. Len(fcs) - 1 |-> IF k <= p THEN fcs[k] ELSE fcs[k + 1]]

\* Those behind place p move up.
Shifted(p) == [k \in 1 .. Len(fcs) - 1 |-> IF k < p THEN fcs[k] ELSE fcs[k + 1]]

\* A plausible bug: the body to free is looked up after the shift.
DestroyFcLate(n) ==
  /\ Executing /\ IsDefined(n) /\ MayTouch(n)
  /\ fcs' = Shifted(Place(n))
  /\ live' = live \ ReleasedOf({fcs'[k].ast : k \in DOMAIN fcs' \cap {Place(n)}})
  /\ UNCHANGED <<line, running>>

\* destroy_fc(); of a name that is not there it changes nothing.
DestroyFc(n) ==
  /\ Executing /\ IsDefined(n) /\ MayTouch(n)
  /\ fcs' = Shifted(Place(n))
  /\ live' = live \ Released(fcs[Place(n)].ast)
  /\ UNCHANGED <<line, running>>

\* get_fc() and exec_func() as far as the call of eval_ast().
Call(n) ==
  /\ Executing /\ IsDefined(n) /\ Len(running) < MaxCalls
  /\ running' = Append(running, [name |-> n, ast |-> fcs[Place(n)].ast])
  /\ UNCHANGED <<fcs, live, line>>

Return ==
  /\ running # <<>>
  /\ running' = SubSeq(running, 1, Len(running) - 1)
  /\ UNCHANGED <<fcs, live, line>>

Init == fcs = <<>> /\ live = {} /\ line = {} /\ running = <<>>

Next == \/ NextLine \/ LineEnds \/ Return
        \/ \E n \in Name : AddFc(n) \/ DestroyFc(n) \/ Call(n)

Spec == Init /\ [][Next]_vars
-----------------------------------------------------------------------------
(* Properties *)

\* A name has one place in the table.  No memory is freed for two trees, for two
\* functions or for a function and the line, and what is to be freed of the line
\* and of each function is allocated: nothing is freed twice, however functions
\* are defined out of the line and out of one another, defined again and unset.
TreesHaveOwners ==
  /\ \A j, k \in Places :
       \/ fcs[j].name = fcs[k].name
       \/ Released(fcs[j].ast) \cap Released(fcs[k].ast) # {}
       => j = k
  /\ ReleasedOf(Bodies) \cap ReleasedOf(line) = {}
  /\ ReleasedOf(Bodies \cup line) \subseteq live

\* A body that is executed is allocated, with the substitutions in it.
RunningIsLive == \A k \in DOMAIN running : Memory(running[k].ast) \subseteq live

\* Only the function that is defined or unset changes.
BodyOf(n) == {fcs[k].ast : k \in {l \in Places : fcs[l].name = n}}

ChangesOne ==
  \A n \in Name : DestroyFc(n) \/ AddFc(n) =>
    /\ \A m \in Name \ {n} : BodyOf(m)' = BodyOf(m)
    /\ DestroyFc(n) => BodyOf(n)' = {}

ChangesOneFunction == [][ChangesOne]_vars
=============================================================================
