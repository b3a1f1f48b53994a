------------------------------- MODULE AstInfo -------------------------------
(***************************************************************************)
(* struct ast_info and its four operations (src/ast_info/ast_info.c): the  *)
(* record through which the break and continue builtins reach the loop     *)
(* they are addressed to.  The shell keeps one such record, behind the     *)
(* global pointer ast_info.                                                *)
(***************************************************************************)
EXTENDS Integers

Nothing  == "A_NOTHING"
Break    == "A_BREAK"
Continue == "A_CONTINUE"

\* enum ast_info_type
InfoType == {Nothing, Break, Continue}

\* What exec_script allocates for each line: xcalloc, then type = A_NOTHING.
FreshInfo == [depth |-> 0, type |-> Nothing, code |-> 0]

IncDepth(info) == [info EXCEPT !.depth = @ + 1]

\* A plausible bug in set_b_c(): the test is off by one.
SetBCDeep(info, n, type) ==
  IF info.depth > 1 THEN [info EXCEPT !.code = n, !.type = type] ELSE info

\* Outside every loop (depth 0) a break or a continue is ignored.
SetBC(info, n, type) ==
  IF info.depth # 0 THEN [info EXCEPT !.code = n, !.type = type] ELSE info

IsBreaking(info) == info.type # Nothing

\* Plausible bugs in b_c_is_done(): the count is decremented without the test,
\* the depth only once a break or continue is known to be pending.
LeftOneUnguarded(info) == [info EXCEPT !.depth = @ - 1, !.code = @ - 1]
LeftOneLate(info) ==
  IF IsBreaking(info) THEN LeftOneUnguarded(info) ELSE info

\* The counters after one loop evaluation has been left.
LeftOne(info) ==
  [info EXCEPT !.depth = @ - 1, !.code = IF @ # 0 THEN @ - 1 ELSE @]

\* A plausible bug: the count tested before it is decremented.
ReachedEarly(info) == LeftOne(info).depth = 0 \/ info.code <= 2

\* The pending break or continue is addressed to the loop being left.
Reached(info) == LeftOne(info).depth = 0 \/ LeftOne(info).code = 0

\* A plausible bug: the type is not reset.
BCIsDoneKeepsType(info) ==
  IF IsBreaking(info) /\ Reached(info)
  THEN [LeftOne(info) EXCEPT !.code = 0]
  ELSE LeftOne(info)

\* b_c_is_done(): what it leaves in the record ...
BCIsDone(info) ==
  IF IsBreaking(info) /\ Reached(info)
  THEN [LeftOne(info) EXCEPT !.code = 0, !.type = Nothing]
  ELSE LeftOne(info)

\* ... and what it returns to the loop: a loop the break only passes through
\* is told A_BREAK whatever is pending.
BCResult(info) ==
  IF IsBreaking(info) /\ ~Reached(info) THEN Break ELSE info.type
=============================================================================
