------------------------------- MODULE TreeCopy -------------------------------
(***************************************************************************)
(* handle_rec() with H_DUP (handle_ast/handle_ast.c): the copy of a tree   *)
(* that add_fc() keeps as the body of a function.  The nodes are those of  *)
(* EvalAst; words are copied as they are.                                  *)
(***************************************************************************)

\* dup_list_redir(): redir_type is not copied and is 0, which is the type of no
\* redirection.
DupListRedir(redirs) == IF redirs = "ok" THEN "ok" ELSE "no_type"

\* A copy of every node, in the same place.
RECURSIVE HandleRec(_, _)
HandleRec(n, null) ==
  IF n = null THEN null
  ELSE [n EXCEPT !.kids = [k \in DOMAIN @ |-> HandleRec(@[k], null)],
                 !.cmd = IF n.type = "AST_CMD" THEN DupListRedir(@) ELSE @]
=============================================================================
