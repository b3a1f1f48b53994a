------------------------------ MODULE MCEvalRef ------------------------------
(***************************************************************************)
(* The evaluator against a reference semantics of the shell language.      *)
(*                                                                         *)
(* Ref gives the meaning of a tree by recursion, with no stack and no      *)
(* break/continue counters: an environment goes in, an environment comes   *)
(* out, and a pending jump is the number of loops it still has to leave.   *)
(* The choices the environment of the shell makes (the status of a         *)
(* command, the case item that matches) are read from a tape, which is the *)
(* history of the choices the evaluator met and of the "?" it showed.      *)
(***************************************************************************)
EXTENDS MCEvalAst

CONSTANT MaxTrace   \* how many choices of one line are explored

VARIABLES
  trace,    \* the choices met since the line was begun, in order
  began     \* "?" and the function when the line was begun

Choosing == AtCommand("ext") \/ AtCommand("cd") \/ Runs({"AST_CASE"}, "start")

\* The case item whose statement was called, 0 if none matched.
Choice == IF ret' # NoRet THEN ret'
          ELSE CHOOSE k \in DOMAIN Top.node.kids :
                 stack'[Len(stack')].node = Top.node.kids[k]

RefInit == Init /\ trace = <<>> /\ began = [q |-> 0, def |-> NULL]

RefNext ==
  /\ Next
  /\ IF AtScript /\ ret = NoRet
     THEN trace' = <<>> /\ began' = [q |-> last, def |-> fcs]
     ELSE /\ trace' = IF Choosing
                      THEN Append(trace, [seen |-> last, choice |-> Choice])
                      ELSE trace
          /\ UNCHANGED began

RefSpec == RefInit /\ [][RefNext]_<<vars, trace, began>>

TraceBound == Len(trace) <= MaxTrace
-----------------------------------------------------------------------------
(* The reference.  An environment: tape, choices to come; q, "?"; def, the  *)
(* function; depth, loops around; st, the status of the tree; jump, loops   *)
(* still to leave, and kind; dead, the process has exited; wrong, the tape  *)
(* did not fit.                                                             *)

Env(tape, q, def) ==
  [tape |-> tape, q |-> q, def |-> def, depth |-> 0, st |-> 0, jump |-> 0,
   kind |-> Nothing, dead |-> FALSE, wrong |-> FALSE]

Stops(e) == e.jump > 0 \/ e.dead
Ends(e, st) == [e EXCEPT !.st = st, !.q = st]
Dies(e, st) == [e EXCEPT !.st = st % 256, !.dead = TRUE]
Choose(e) == IF e.tape = <<>> THEN [Dies(e, 0) EXCEPT !.wrong = TRUE]
             ELSE [e EXCEPT !.tape = Tail(@), !.st = Head(e.tape).choice,
                            !.wrong = @ \/ Head(e.tape).seen # e.q]
Jump(e, n, kind) ==
  IF e.depth = 0 THEN Ends(e, 0)
  ELSE [Ends(e, 0) EXCEPT !.jump = IF n < e.depth THEN n ELSE e.depth,
                          !.kind = kind]

\* After a loop evaluation: one loop less to leave.
Out(e) == [e EXCEPT !.depth = @ - 1,
                    !.jump = IF @ > 0 THEN @ - 1 ELSE 0]
Into(e) == [e EXCEPT !.depth = @ + 1]
\* The evaluation that gave e ends the loop.
EndsLoop(e) == e.dead \/ e.jump > 1 \/ (e.jump = 1 /\ e.kind = Break)

RECURSIVE Ref(_, _), RefFor(_, _, _), RefWhile(_, _, _)

\* The tree in a process of its own: only its status and the tape come back.
Child(n, e) ==
  LET c == Ref(n, e)
  IN [e EXCEPT !.tape = c.tape, !.wrong = c.wrong, !.st = c.st]

RefFor(n, k, e) ==
  IF k > n.arg THEN Ends(e, e.st)
  ELSE LET b == Ref(n.kids[1], Into(e))
       IN IF EndsLoop(b) THEN Out(IF b.dead THEN b ELSE Ends(b, 0))
          ELSE RefFor(n, k + 1, Out(b))

RefWhile(n, e, st) ==
  LET c == Ref(n.kids[1], Into(e))
      b == Ref(n.kids[2], Into(Out(c)))
  IN IF EndsLoop(c) THEN Out(IF c.dead THEN c ELSE Ends(c, 0))
     ELSE IF c.jump = 1 THEN RefWhile(n, Out(c), st)
     ELSE IF (n.type = "AST_WHILE") # (c.st = 0) THEN Ends(Out(c), st)
     ELSE IF EndsLoop(b) THEN Out(IF b.dead THEN b ELSE Ends(b, 0))
     ELSE RefWhile(n, Out(b), b.st)

RefSimple(n, e) ==
  CASE n.cmd \in {"ext", "cd"} -> Ends(Choose(e), Choose(e).st)
    [] n.cmd = "assign" -> Ends(e, 0)
    [] n.cmd = "exit" -> Dies(e, n.arg)
    [] n.cmd = "break" -> IF n.arg = 0 THEN Dies(e, 2) ELSE Jump(e, n.arg, Break)
    [] n.cmd = "continue" ->
         IF n.arg = 0 THEN Dies(e, 2) ELSE Jump(e, n.arg, Continue)
    [] n.cmd = "call" -> IF e.def = NULL THEN Ends(e, 127) ELSE Ref(e.def, e)

Expanded(n, e) ==
  IF n.subst = NULL THEN e
  ELSE LET c == Child(n.subst, e) IN Ends(c, c.st)

Second(n, k, e) == IF Stops(e) THEN e ELSE Ref(n.kids[k], e)

Ref(n, e0) ==
  IF n = NULL THEN Ends(e0, 0)
  ELSE LET e == Expanded(n, e0)
           first == Ref(n.kids[1], e)
  IN CASE n.type = "AST_S_CMD" -> RefSimple(n, e)
       [] n.type = "AST_CMD" ->
            (CASE n.cmd = "ok" -> first
               [] n.cmd = "bad_fd" -> Ends(e, 2)
               [] n.cmd = "no_file" -> Dies(e, 2))
       [] n.type = "AST_IF" -> Second(n, IF first.st = 0 THEN 2 ELSE 3, first)
       [] n.type = "AST_LIST" -> Second(n, 2, first)
       [] n.type = "AST_AND" ->
            IF first.st = 0 THEN Second(n, 2, first) ELSE first
       [] n.type = "AST_OR" ->
            IF first.st # 0 THEN Second(n, 2, first) ELSE first
       [] n.type = "AST_NOT" ->
            IF Stops(first) THEN first
            ELSE Ends(first, IF first.st = 0 THEN 1 ELSE 0)
       [] n.type = "AST_CASE" ->
            LET c == [Choose(e) EXCEPT !.wrong = @ /\ e.tape = <<>>]
            IN IF c.st = 0 THEN Ends(c, 0) ELSE Ref(n.kids[c.st], c)
       [] n.type = "AST_SUBSHELL" -> LET c == Child(n.kids[1], e) IN Ends(c, c.st)
       [] n.type = "AST_PIPE" ->
            LET c == Child(n.kids[2], Child(n.kids[1], e)) IN Ends(c, c.st)
       [] n.type = "AST_FUNC" -> [Ends(e, 0) EXCEPT !.def = n.kids[1]]
       [] n.type = "AST_FOR" -> RefFor(n, 1, [e EXCEPT !.st = 0])
       [] OTHER -> RefWhile(n, e, 0)

\* A line has been evaluated in the shell itself: its status, the value of "?"
\* every command in it saw and the function left behind are the reference's,
\* from the same choices, all of which the reference makes too.
MatchesReference ==
  AtScript /\ ret # NoRet /\ Top.base = 0 =>
    LET r == Ref(Lines[Top.i - 1], Env(trace, began.q, began.def))
    IN /\ ~r.wrong /\ r.tape = <<>> /\ ~Stops(r)
       /\ ret = r.st
       /\ fcs = r.def
=============================================================================
