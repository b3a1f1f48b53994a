------------------------------ MODULE MCEvalAst ------------------------------
(***************************************************************************)
(* Scripts for the model checker: families of syntax trees such as         *)
(* parse_input() builds them, every command under an AST_CMD.              *)
(***************************************************************************)
EXTENDS EvalAst, TreeCopy

CONSTANT Family     \* which family of scripts the run explores

Tree0(type, kids) ==
  [type |-> type, cmd |-> "ok", arg |-> 0, kids |-> kids, subst |-> NULL]
Cmd(n) == Tree0("AST_CMD", <<n>>)
Leaf(c, n) ==
  Cmd([Tree0("AST_S_CMD", <<>>) EXCEPT !.cmd = c, !.arg = n])
Two(type, a, b) == Tree0(type, <<a, b>>)
List(a, b) == Two("AST_LIST", a, b)
For(n, body) == Cmd([Tree0("AST_FOR", <<body>>) EXCEPT !.arg = n])
Loop(type, cond, body) == Cmd(Two(type, cond, body))
If(a, b, c) == Cmd(Tree0("AST_IF", <<a, b, c>>))
Sub(n) == Cmd(Tree0("AST_SUBSHELL", <<n>>))
Def(n) == Cmd(Tree0("AST_FUNC", <<n>>))
Not(n) == Tree0("AST_NOT", <<n>>)
Case(items) == Cmd(Tree0("AST_CASE", items))
With(n, subst) == [n EXCEPT !.kids[1].subst = subst]
Redirected(n, outcome) == [n EXCEPT !.cmd = outcome]

Ext == Leaf("ext", 0)
Call0 == Leaf("call", 0)
Jumps == {Leaf("break", 1), Leaf("break", 2), Leaf("break", 3),
          Leaf("continue", 1), Leaf("continue", 2)}

\* Two loops, one in the other, and a jump in the body of the inner one, in
\* its condition, or in the outer one.
Inner ==
  LET bodies == {Two("AST_AND", Ext, j) : j \in Jumps} IN
       {For(2, List(b, Ext)) : b \in bodies}
  \cup {Loop(t, Ext, b) : t \in {"AST_WHILE", "AST_UNTIL"}, b \in bodies}
  \cup {Loop("AST_WHILE", Two("AST_OR", Ext, j), Ext) : j \in Jumps}
Nested ==
       {For(2, List(l, Ext)) : l \in Inner}
  \cup {Loop("AST_WHILE", Ext, List(l, Ext)) : l \in Inner}
  \cup {Loop("AST_UNTIL", Ext, If(Ext, l, NULL)) : l \in Inner}
  \cup {Loop("AST_WHILE", l, j) : l \in Inner, j \in Jumps}

\* Jumps through everything else: a function called in a loop, a child forked
\* in one, a case, a substitution, redirections that fail.
Bodies ==
  LET j == Leaf("break", 2) IN
  {Sub(List(j, Ext)),
   Cmd(Two("AST_PIPE", Leaf("continue", 1), List(Leaf("cd", 0), j))),
   Case(<<j, For(1, Leaf("continue", 2)), NULL>>),
   List(With(Ext, Two("AST_AND", Ext, Leaf("break", 1))),
        Two("AST_OR", Ext, Leaf("break", 0))),
   Not(If(Ext, Redirected(j, "bad_fd"), Redirected(Ext, "no_file"))),
   With(Leaf("assign", 0), Two("AST_OR", Leaf("cd", 0), Leaf("exit", 300))),
   Two("AST_OR", Leaf("cd", 0), j),
   Sub(For(1, Sub(If(Ext, Leaf("exit", 3), Leaf("break", 5))))),
   Def(j)}
\* Functions with a redirection in their body are in Redirecting.
Copied == {b \in Bodies : HandleRec(b, NULL) = b}
Mixed ==
  {For(2, List(For(2, List(b, Call0)), Ext)) : b \in Bodies} \cup
  {List(Def(List(b, Ext)), For(2, Call0)) : b \in Copied}

\* The dot builtin at the end of a script, in a child, under a function, and of
\* a file that is not found.
DotFile == Leaf("dot", 0)
Dotted ==
  {<<Ext, DotFile>>, <<Two("AST_AND", DotFile, Leaf("cd", 0))>>,
   <<Sub(DotFile), Def(List(DotFile, Ext)), Call0>>, <<Leaf("dot", 127), Ext>>,
   <<For(1, Leaf("dot", NoFile)), Ext>>,
   <<Leaf("dot", 127), If(With(DotFile, DotFile), Ext, DotFile)>>}

RECURSIVE SubTrees(_)
SubTrees(n) ==
  IF n \in {NULL, BadLine} THEN {}
  ELSE {n} \cup SubTrees(n.subst)
           \cup UNION {SubTrees(n.kids[k]) : k \in DOMAIN n.kids}

\* Functions whose body has redirections.
Redirecting ==
  {<<List(Def(Redirected(Ext, "redirected")), Sub(Call0)), Ext>>,
   <<List(Def(List(Ext, Redirected(Ext, "bad_fd"))), Ext), Call0, Ext>>}

Undotted == {<<l, Ext>> : l \in Nested} \cup {<<l, NULL, For(0, Ext)>> : l \in Mixed}
         \cup {<<Leaf("break", 1), BadLine>>}

MCScripts ==
  CASE Family = "all" -> Undotted \cup Dotted \cup Redirecting
    [] Family = "nodot" -> Undotted
    [] Family = "dotlines" -> {<<Ext, DotFile, Ext>>}

MCSourced == <<Leaf("break", 1), NULL, For(2, If(Ext, Leaf("break", 1), NULL)),
               Leaf("cd", 0)>>
Original ==
  UNION {SubTrees(line) :
           line \in UNION {{s[k] : k \in DOMAIN s} : s \in Scripts}
                    \cup {Sourced[k] : k \in DOMAIN Sourced}}
MCNode == Original \cup {HandleRec(n, NULL) : n \in Original}
MCDup == [n \in Node |-> HandleRec(n, NULL)]
=============================================================================
