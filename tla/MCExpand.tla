------------------------------- MODULE MCExpand -------------------------------
(* Token lists of up to MaxTokens tokens for Expand. *)
EXTENDS Expand

CONSTANT MaxTokens   \* bound: the tokens of a command

CWord == [type |-> "T_WORD", command |-> <<"x">>]
CVar(name) == [type |-> "T_VAR", command |-> name]
CVarQ(name) == [type |-> "T_VAR_INQUOTE", command |-> name]
CSub(name) == [type |-> "T_COMMAND_SUB_START", command |-> name]

MCKinds == {CWord, CVar("a"), CVarQ("a"), CVar("e"), CSub("s"), CVar(At), CVarQ(At)}

Spaced(kind, space) ==
  [type |-> kind.type, command |-> kind.command, is_space_after |-> space]

MCTokens ==
  UNION {[1 .. n -> {Spaced(k, b) : k \in MCKinds, b \in BOOLEAN}] : n \in 1 .. MaxTokens}

\* Values of several words, of none, and an output that ends a line.
MCValue ==
  [name \in {"a", "e", "s"} |->
     CASE name = "a" -> <<"y", ":", " ", "z">>
       [] name = "e" -> <<>>
       [] name = "s" -> <<"u", " ", "v", "n">>]

P == <<"p">>
QR == <<"q", " ", "r">>

\* No parameter, one, or two, of one word or of two.
MCArgs == {<<>>, <<QR>>, <<P, QR>>, <<QR, P>>}
=============================================================================
