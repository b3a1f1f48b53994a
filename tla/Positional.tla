----------------------------- MODULE Positional -----------------------------
(***************************************************************************)
(* The variables of the shell and, among them, the positional parameters   *)
(* (execution/funcx.c, vars/, program_start/special_vars.c).  These are    *)
(* kept four times over: in the variables named by a number, in "#", in    *)
(* "*" and in the array at, which ends with NULL.  exec_func() saves them, *)
(* puts those of the call in their place and brings them back; all other   *)
(* variables are the shell's, whichever function assigns them.             *)
(***************************************************************************)
EXTENDS VarVector, SequencesExt

CONSTANTS
  Values,     \* the values of a variable or a parameter, "" among them
  Variables,  \* the names of variables that the script assigns
  Args,       \* the lists of arguments of the script and of calls
  MaxArgs,    \* bound: the arguments in such a list
  Decimal,    \* what sprintf() makes of a number with "%d": the name of a parameter
  MaxDepth    \* bound: nested calls

\* The other variables of set_special_vars(); the values that come from the
\* system are as good as any.
Special == <<"?", "$", "RANDOM", "UID", "OLDPWD", "IFS">>

Number == 0 .. MaxArgs + 1

\* Calls, which composes this module, assumes it: each number has a name of its
\* own that the shell gives to nothing else.  A script may assign it, as any other
\* name (`export 1=x', `for * in').
PositionalAssumption ==
  /\ NULL \notin Values /\ "" \in Values /\ MaxDepth \in Nat /\ MaxArgs \in Nat
  /\ Args \subseteq Seq(Values) /\ \A args \in Args : Len(args) <= MaxArgs
  /\ FirstCap \in Nat /\ FirstCap >= 2
  /\ NULL \notin {"#", "*"} \cup Variables \cup Range(Special)
  /\ \A i \in Number :
       /\ Decimal[i] \notin {"#", "*", NULL} \cup Range(Special)
       /\ \A j \in Number : Decimal[i] = Decimal[j] => i = j

VARIABLES
  context,   \* the struct vars_vect of the shell
  saves      \* the struct vars_vect of each running exec_func(), outermost first

vars == <<context, saves>>

Set(v, name, value) == [v EXCEPT !.vars = AddVar(@, name, value)]
Get(v, name) == GetVar(v.vars, name)

\* xrecalloc() of at to n elements.
Resized(at, n) == [k \in 1 .. n |-> IF k <= Len(at) THEN at[k] ELSE NULL]

\* A plausible bug: no room for the NULL at the end.
SetVarAtTight(at, value, i) == [Resized(at, i + 1) EXCEPT ![i + 1] = value]

\* set_var_at(): i counts from 0.
SetVarAt(at, value, i) == [Resized(at, i + 2) EXCEPT ![i + 1] = value]

\* The elements of at before NULL, and whether there is a NULL at all.
Ends(at) == {k \in 1 .. Len(at) : at[k] = NULL}
Visible(at) == SubSeq(at, 1, Min(Ends(at)) - 1)

\* dup_char_star_star()
Dup(at) == Append(Visible(at), NULL)

\* set_var_at() of the cells, one behind another from place first on.
SetVarAts(at, first, cells) ==
  LET after[k \in 0 .. Len(cells)] ==
        IF k = 0 THEN at ELSE SetVarAt(after[k - 1], cells[k], first + k - 1)
  IN  after[Len(cells)]

\* The texts under the names of the numbers from first on.
Numbered(first, texts) ==
  [k \in 1 .. Len(texts) |-> <<Decimal[first + k - 1], texts[k]>>]

\* string_concat() of the arguments, with a blank between two.
Joined(args) ==
  FoldLeftDomain(LAMBDA text, i : text \o (IF i = 1 THEN "" ELSE " ") \o args[i], "", args)

\* set_arg_related_vars(): argv[0] is not an argument.
SetArgRelatedVars(v, args) ==
  [argc |-> Len(args) + 1,
   vars |-> AddVars(v.vars, <<<<"#", Decimal[Len(args)]>>>> \o Numbered(1, args)
                              \o <<<<"*", Joined(args)>>>>),
   at   |-> SetVarAts(v.at, 0, args)]

\* set_var_at(NULL) and add_var("") for every i from first to last.
ClearFrom(v, first, last) ==
  LET all(x) == [k \in 1 .. last - first + 1 |-> x]
  IN IF last < first THEN v
     ELSE [v EXCEPT !.vars = AddVars(@, Numbered(first, all(""))),
                    !.at = SetVarAts(@, first - 1, all(NULL))]

\* save_arg_var(): what is about arguments goes from src to dst.
SaveArgVar(src, dst) ==
  LET names == <<"#">> \o [i \in 1 .. src.argc - 1 |-> Decimal[i]] \o <<"*">> IN
  [argc |-> src.argc,
   vars |-> AddVars(dst.vars, [k \in DOMAIN names |-> <<names[k], Get(src, names[k])>>]),
   at   |-> Dup(src.at)]

NoVars == [argc |-> 0, vars |-> NoVariables, at |-> <<NULL>>]
-----------------------------------------------------------------------------
\* set_special_vars(), with the arguments of the script.
Init ==
  /\ \E args \in Args :
       context = [SetArgRelatedVars(NoVars, args) EXCEPT
                    !.vars = AddVars(@, [k \in DOMAIN Special |-> <<Special[k], "0">>])]
  /\ saves = <<>>

\* exec_func() as far as the call of eval_ast().
ExecFunc(args) ==
  LET save == SaveArgVar(context, NoVars) IN
  /\ Len(saves) < MaxDepth
  /\ saves' = Append(saves, save)
  /\ context' = ClearFrom(SetArgRelatedVars(context, args), Len(args) + 1, save.argc)

\* A plausible bug: only the array and "#" are brought back.
BackInPlace(save) ==
  [Set(context, "#", Get(save, "#")) EXCEPT !.argc = save.argc, !.at = Dup(save.at)]

\* A plausible bug: everything but the array is brought back.
BackWithoutAt(save) == [SaveArgVar(save, context) EXCEPT !.at = context.at]

\* push_pop_arg() with pop.
Back(save) == SaveArgVar(save, context)

\* exec_func() behind eval_ast(): get_vars_argc() is save->argc again when the
\* loop asks for it.
Return ==
  /\ saves # <<>>
  /\ LET save == saves[Len(saves)] IN
       context' = ClearFrom(Back(save), save.argc, Back(save).argc)
  /\ saves' = SubSeq(saves, 1, Len(saves) - 1)

\* An assignment, a turn of a for loop, or unset, which assigns "".
Assign(name, value) ==
  /\ context' = Set(context, name, value)
  /\ UNCHANGED saves

Next == \/ \E args \in Args : ExecFunc(args)
        \/ Return
        \/ \E name \in Variables, value \in Values : Assign(name, value)

Spec == Init /\ [][Next]_vars
-----------------------------------------------------------------------------
(* Properties *)

Count == context.argc - 1

\* The array can be read up to its NULL and the vector fits in its memory, in the
\* shell and in every save.
TypeOK == \A c \in {context} \cup {saves[k] : k \in DOMAIN saves} :
  Ends(c.at) # {} /\ Fits(c.vars)

\* What the parameters are does not depend on how they are asked for: "$@" and
\* argc agree, and so does each of "$#", "$*" and the numbers that the script does
\* not assign.
ParametersAgree ==
  LET at == Visible(context.at)
  IN /\ Count = Len(at)
     /\ "#" \notin Variables => Get(context, "#") = Decimal[Len(at)]
     /\ "*" \notin Variables => Get(context, "*") = Joined(at)
     /\ \A k \in DOMAIN at : Decimal[k] \notin Variables => Get(context, Decimal[k]) = at[k]

\* A variable gets the value it is assigned, and no other one changes: not when
\* the vector moves, and not when functions are called and return, unless it is
\* a parameter.
IsParameter(name) == name \in {"#", "*"} \/ \E i \in Number : name = Decimal[i]

SetsOne ==
  \A name \in Variables :
    /\ \A value \in Values : Assign(name, value) => Get(context', name) = value
    /\ Get(context', name) # Get(context, name) =>
         \/ \E value \in Values : Assign(name, value)
         \/ IsParameter(name) /\ saves' # saves
SetsOneVariable == [][SetsOne]_vars

\* A function sees the arguments of its call and its caller gets its own back.
Calls == INSTANCE CallStack WITH
  args <- Visible(context.at),
  callers <- [k \in DOMAIN saves |-> Visible(saves[k].at)]

IsCallStack == Calls!Spec
=============================================================================
