--------------------------------- MODULE Calls ---------------------------------
(***************************************************************************)
(* The call of a function as a whole: get_fc() finds the body in the table *)
(* of FuncTable, exec_func() (execution/funcx.c) puts the arguments in the *)
(* place of the caller's as Positional has it, evaluates the body, in      *)
(* which functions are defined, unset and called, and brings them back.    *)
(***************************************************************************)
EXTENDS FuncTable

CONSTANTS
  NULL,
  FirstCap,   \* the capacity the vector of variables starts with
  Variables,  \* the names of variables that the script assigns
  Values,     \* the values of a variable or parameter, "" among them
  Args,       \* the lists of arguments of the script and of calls
  MaxArgs,    \* bound: the arguments in such a list
  Decimal     \* what sprintf() makes of a number with "%d": the name of a parameter

VARIABLES
  context,   \* the variables and parameters of the shell
  saves      \* those that each running exec_func() has saved

P == INSTANCE Positional WITH MaxDepth <- MaxCalls

ASSUME CallsAssumption == P!PositionalAssumption

callsVars == <<vars, context, saves>>

\* exec_func() as far as the call of eval_ast(), and behind it.
ExecFunc(n, args) == Call(n) /\ P!ExecFunc(args)
FuncReturns == Return /\ P!Return

CallsInit == Init /\ P!Init

CallsNext ==
  \/ \E n \in Name, args \in Args : ExecFunc(n, args)
  \/ FuncReturns
  \/ /\ \/ NextLine \/ LineEnds
        \/ \E n \in Name : AddFc(n) \/ DestroyFc(n)
     /\ UNCHANGED <<context, saves>>
  \/ \E name \in Variables, value \in Values : P!Assign(name, value) /\ UNCHANGED vars

CallsSpec == CallsInit /\ [][CallsNext]_callsVars
-----------------------------------------------------------------------------
(* Properties *)

\* The parameters do not depend on how they are asked for, in a function, after
\* it and while others are defined in it: "$@" and argc agree, and so does each of
\* "$#", "$*" and the numbers that the script does not assign as a variable.
ParametersAgree == P!ParametersAgree

\* A function sees the arguments of its call, its caller gets its own back, and
\* there is a save for every function that runs.
IsCallStack == P!IsCallStack
SavedForEach == Len(saves) = Len(running)

\* A variable gets the value it is assigned and no other one changes: not when
\* the vector grows, and not when functions are called, defined and return; only
\* those that are parameters are changed by calls and returns.
SetsOneVariable == [][P!SetsOne]_callsVars

\* There is a save for every function that runs; the array of the parameters can
\* be read up to its NULL, and the vector of variables fits in its memory with a
\* place to spare and has no name twice, in the shell and in each save.
TypeOK == P!TypeOK /\ SavedForEach
=============================================================================
