------------------------------ MODULE FieldSplit ------------------------------
(***************************************************************************)
(* my_strsep() (vars/expand_vars.c): the words that IFS makes of the value *)
(* of an unquoted expansion.                                               *)
(***************************************************************************)
EXTENDS Integers, Sequences, SequencesExt

CONSTANTS
  Ifs,         \* the characters of IFS
  Whitespace   \* the characters of " \t\n"

NoWord == [is |-> FALSE, text |-> <<>>]
AWord(text) == [is |-> TRUE, text |-> text]

From(s, k) == SubSeq(s, k, Len(s))
InIfs(s, k) == k <= Len(s) /\ s[k] \in Ifs

\* Where the first word of s ends: before the first character of IFS.
WordEnd(s) ==
  CHOOSE k \in 0 .. Len(s) :
    /\ \A m \in 1 .. k : s[m] \notin Ifs
    /\ k = Len(s) \/ s[k + 1] \in Ifs

\* Where the next word starts when k is the character of IFS that ends the
\* first one: behind what is in IFS, at most one character of it, k included,
\* not being white space.
Skip(s, k) ==
  CHOOSE m \in k + 1 .. Len(s) + 1 :
    LET solid(n) == {l \in k .. n : s[l] \notin Whitespace}
        goes(n) == InIfs(s, n) /\ (s[n] \in Whitespace \/ solid(n - 1) = {})
    IN (\A l \in k + 1 .. m - 1 : goes(l)) /\ ~goes(m)

\* What is left of s when its first word has been taken.
Rest(s) ==
  LET e == WordEnd(s) IN IF e = Len(s) THEN <<>> ELSE From(s, Skip(s, e + 1))

\* What is left of s when its first n words have been taken.
Left(s, n) ==
  LET left[k \in 0 .. n] == IF k = 0 THEN s ELSE Rest(left[k - 1])
  IN  left[n]

\* my_strsep(): word number n of s, counted from 0.
MyStrsep(s, n) ==
  LET left == Left(s, n)
  IN IF left = <<>> THEN NoWord ELSE AWord(SubSeq(left, 1, WordEnd(left)))
=============================================================================
