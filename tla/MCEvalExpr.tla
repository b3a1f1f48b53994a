------------------------------ MODULE MCEvalExpr ------------------------------
(* Instances of EvalExpr: the variable i with a negative value, so that its  *)
(* text, put in place of the name, brings an operator with it.               *)
EXTENDS EvalExpr

MCVariable == <<"i">>
MCNegative == <<"-", "2">>

\* Names, blanks and parentheses; quotients and signs with parentheses; signs,
\* powers and the variable.
MCAlphabets ==
  {{"1", "i", "+", "*", "(", ")", " "},
   {"2", "3", "-", "%", "/", "(", ")"},
   {"2", "i", "-", "^", "*", " "}}
=============================================================================
