-------------------------------- MODULE Grammar --------------------------------
(***************************************************************************)
(* What the parser is meant to accept: the rules of parser/sh_grammar.txt  *)
(* as a recogniser.  Each rule maps the places of a list of tokens where   *)
(* it may begin to those where it may end, so that a choice is a union and *)
(* a repetition is closed under its body; nothing is ever taken back.      *)
(*                                                                         *)
(* g is [T |-> tokens, lenient |-> BOOLEAN].  Where g.lenient, the rules   *)
(* also derive what the program lets pass on purpose or not: a command, a  *)
(* pattern or the body of a compound command may be missing, a "!" may     *)
(* stand before any command of a pipeline and more than once, the last     *)
(* item of a case needs no ";;", an if or a while without a condition is   *)
(* over at its then or do, and an else may be the end of the script.       *)
(***************************************************************************)
EXTENDS Integers, Sequences

LOCAL Kind(g, p) == IF p > Len(g.T) THEN "T_EOF" ELSE g.T[p].type

\* One token of types.
One(g, P, types) == {p + 1 : p \in {q \in P : q <= Len(g.T) /\ Kind(g, q) \in types}}
Optional(g, P, types) == P \cup One(g, P, types)
\* ('\n')*
Newlines(g, P) ==
  {q \in 1 .. Len(g.T) + 1 :
     \E p \in P : p <= q /\ \A i \in p .. q - 1 : Kind(g, i) = "T_NEWLINE"}
Leniently(g, P) == IF g.lenient THEN P ELSE {}

Parts == {"T_WORD", "T_VAR", "T_VAR_INQUOTE", "T_EVALEXPR"}
DollarOpening == {"T_COMMAND_SUB_START", "T_COMMAND_SUB_START_Q"}
BackquoteOpening == {"T_BACKQUOTE_START", "T_BACKQUOTE_START_Q"}
Opening == DollarOpening \cup BackquoteOpening
RedirOperators == {"T_REDIR_1", "T_REDIR_I_1", "T_REDIR_A", "T_REDIR_I_A", "T_REDIR_2",
                   "T_REDIR_O_2", "T_REDIR_PIPE"}

RECURSIVE CompoundList(_, _), Commands(_, _), Pipelines(_, _), AndOrs(_, _), Lists(_, _),
          WORD(_, _), WORDs(_, _), Redirections(_, _), Prefixes(_, _), Elements(_, _),
          Alternatives(_, _), CaseItems(_, _), ElseClause(_, _)

\* WORD: parts up to a blank or to what is no part.
WORD(g, P) ==
  LET plain == One(g, P, Parts)
      Sub(open, close) == One(g, CompoundList(g, One(g, P, open)) \cup Newlines(g, One(g, P, open)), close)
      ends == plain \cup Sub(DollarOpening, {"T_COMMAND_SUB_END"})
              \cup Sub(BackquoteOpening, {"T_BACKQUOTE_END"})
      over == {q \in ends : g.T[q - 1].is_space_after \/ Kind(g, q) \notin Parts \cup Opening}
  IN IF P = {} THEN {} ELSE over \cup WORD(g, ends \ over)
WORDs(g, P) == IF P = {} THEN {} ELSE P \cup WORDs(g, WORD(g, P))

\* (redirection)*
Redirection(g, P) == WORD(g, One(g, Optional(g, P, {"T_IONUMBER"}), RedirOperators))
Redirections(g, P) == IF P = {} THEN {} ELSE P \cup Redirections(g, Redirection(g, P))

\* prefix: ASSIGMENT_WORD | redirection;  element: WORD | redirection
Assignment(g, P) ==
  LET names == One(g, P, {"T_VAR_INIT"})
      joined == {p \in names : ~ g.T[p - 1].is_space_after}
  IN {p \in names : p \notin joined \/ Kind(g, p) \notin Parts \cup Opening} \cup WORD(g, joined)
Prefix(g, P) == Assignment(g, P) \cup Redirection(g, P)
Prefixes(g, P) == IF P = {} THEN {} ELSE P \cup Prefixes(g, Prefix(g, P))
Element(g, P) == WORD(g, P) \cup Redirection(g, P)
Elements(g, P) == IF P = {} THEN {} ELSE P \cup Elements(g, Element(g, P))
SimpleCommand(g, P) ==
  Leniently(g, P) \cup Prefixes(g, Prefix(g, P)) \cup Elements(g, Element(g, Prefixes(g, P)))

-----------------------------------------------------------------------------
Body(g, P) == CompoundList(g, P) \cup Leniently(g, Newlines(g, P))

DoGroup(g, P) == One(g, Body(g, One(g, P, {"T_DO"})), {"T_DONE"})

RuleFor(g, P) ==
  LET name == One(g, One(g, P, {"T_FOR"}), {"T_VAR"})
      in == One(g, WORDs(g, One(g, Newlines(g, name), {"T_IN"})), {"T_SEMICOLON", "T_NEWLINE"})
      bare == Optional(g, name, {"T_SEMICOLON"})
              \cup Leniently(g, One(g, Newlines(g, name), {"T_SEMICOLON"}))
  IN DoGroup(g, Newlines(g, in \cup bare))
RuleWhileUntil(g, P) ==
  LET while == One(g, P, {"T_WHILE", "T_UNTIL"})
  IN DoGroup(g, Body(g, while)) \cup Leniently(g, One(g, Newlines(g, while), {"T_DO"}))

ElseClause(g, P) ==
  IF P = {} THEN {}
  ELSE P \cup Body(g, One(g, P, {"T_ELSE"}))
         \cup ElseClause(g, Body(g, One(g, Body(g, One(g, P, {"T_ELIF"})), {"T_THEN"})))
RuleIf(g, P) ==
  LET if == One(g, P, {"T_IF"})
      clauses == ElseClause(g, Body(g, One(g, Body(g, if), {"T_THEN"})))
      nothing == {q \in Newlines(g, One(g, clauses, {"T_ELSE"})) : Kind(g, q) = "T_EOF"}
  IN One(g, clauses, {"T_FI"})
     \cup Leniently(g, nothing \cup One(g, Newlines(g, if), {"T_THEN"}))

Alternatives(g, P) ==
  LET Q == WORD(g, P) \cup Leniently(g, P)
  IN IF P = {} THEN {} ELSE Q \cup Alternatives(g, One(g, Q, {"T_PIPE"}))
CaseItem(g, P) ==
  LET body == One(g, Alternatives(g, Optional(g, P, {"T_O_PRTH"})), {"T_C_PRTH"})
  IN Newlines(g, body) \cup CompoundList(g, body)
\* case_item (';;' ('\n')* case_item)* (';;'|'\n') ('\n')*
CaseItems(g, P) ==
  LET Q == CaseItem(g, P)
      more == Newlines(g, One(g, Q, {"T_DOUBLE_SCOLON"}))
  IN IF P = {} THEN {}
     ELSE more \cup Newlines(g, One(g, Q, {"T_NEWLINE"})) \cup Leniently(g, Q) \cup CaseItems(g, more)
RuleCase(g, P) ==
  LET in == Newlines(g, One(g, Newlines(g, WORD(g, One(g, P, {"T_CASE"}))), {"T_IN"}))
  IN One(g, in \cup CaseItems(g, in), {"T_ESAC"})

ShellCommand(g, P) ==
  RuleFor(g, P) \cup RuleWhileUntil(g, P) \cup RuleIf(g, P) \cup RuleCase(g, P)
  \cup One(g, Body(g, One(g, P, {"T_O_BRKT"})), {"T_C_BRKT"})
  \cup One(g, Body(g, One(g, P, {"T_O_PRTH"})), {"T_C_PRTH"})
Funcdec(g, P) == ShellCommand(g, Newlines(g, One(g, P, {"T_FUN_INIT"})))

Command(g, P) ==
  IF P = {} THEN {}
  ELSE SimpleCommand(g, P) \cup Redirections(g, ShellCommand(g, P) \cup Funcdec(g, P))

\* command ('|' ('\n')* command)*, and as many "!" as there are.
Commands(g, P) ==
  LET nots == One(g, P, {"T_NOT"})
      Q == Command(g, P) \cup Leniently(g, Commands(g, nots))
  IN IF P = {} THEN {} ELSE Q \cup Commands(g, Newlines(g, One(g, Q, {"T_PIPE"})))
Pipelines(g, P) == Commands(g, Optional(g, P, {"T_NOT"}))
AndOrs(g, P) ==
  LET Q == Pipelines(g, P)
  IN IF P = {} THEN {} ELSE Q \cup AndOrs(g, Newlines(g, One(g, Q, {"T_AND", "T_OR"})))

\* ('\n')* and_or ((';'|'\n') ('\n')* and_or)* [(';'|'\n') ('\n')*]
CompoundList(g, P) ==
  LET Q == AndOrs(g, Newlines(g, P))
      after == Newlines(g, One(g, Q, {"T_SEMICOLON", "T_NEWLINE"}))
  IN IF P = {} THEN {} ELSE Q \cup after \cup CompoundList(g, after)

\* and_or (';' and_or)* [';']
Lists(g, P) ==
  LET Q == AndOrs(g, P)
      after == One(g, Q, {"T_SEMICOLON"})
  IN IF P = {} THEN {} ELSE Q \cup after \cup Lists(g, after)

\* input, from the place p on: the places behind it.
Input(g, p) ==
  LET lists == {p} \cup Lists(g, {p})
  IN One(g, lists, {"T_NEWLINE"}) \cup {q \in lists : Kind(g, q) = "T_EOF"}
=============================================================================
