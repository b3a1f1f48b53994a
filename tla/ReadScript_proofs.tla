--------------------------- MODULE ReadScript_proofs ---------------------------
(***************************************************************************)
(* Proofs about the lexer and exec_script(), for any script, any sourced   *)
(* files and any parser.                                                   *)
(***************************************************************************)
EXTENDS ReadScript, SequenceTheorems, WellFoundedInduction, TLAPS

-----------------------------------------------------------------------------
(***************************************************************************)
(* The record of the lexer                                                 *)
(***************************************************************************)
\* What each context may be.
Values ==
  [fun |-> {GENERAL, "IN_FUN_NAME", "IN_FUN"},
   exp |-> {GENERAL, "IN_ESCAPE_EXP", "IN_SQUOTE_EXP"},
   last_exp |-> {GENERAL, "IN_ESCAPE_EXP", "IN_SQUOTE_EXP"},
   soft |-> {GENERAL, "IN_DQUOTE"}, last_soft |-> {GENERAL, "IN_DQUOTE"},
   redir |-> {GENERAL, "IN_REDIR"}, eval |-> {GENERAL, "IN_EVAL"},
   var |-> {GENERAL, "IN_VAR", "IN_VAR_NAME", "IN_VAR_INIT"},
   for |-> {GENERAL, "VAR_FOR", "IN_FOR"}, word |-> {GENERAL, "IN_COMMAND"},
   case |-> {GENERAL, "IN_CASE", "IN_CASE_COMMAND"}]

Fields == Contexts \cup {"script", "pos", "token_list", "array_pos"}

IsSequence(s) == \E S : s \in Seq(S)

\* A lexer has its contexts, a text and a list of tokens.
Typed(L) ==
  /\ DOMAIN L = Fields /\ \A c \in Contexts : L[c] \in Values[c]
  /\ Len(L.script) \in Nat /\ IsSequence(L.token_list)

\* M differs from L in its contexts and where the cursor is.
Near(L, M) ==
  /\ Typed(M) /\ M.script = L.script
  /\ M.token_list = L.token_list /\ M.array_pos = L.array_pos

LEMMA ContextFacts ==
  /\ Contexts = {"fun", "exp", "soft", "redir", "var", "for", "last_exp", "last_soft", "word",
                 "case", "eval"}
  /\ \A c \in Contexts : GENERAL \in Values[c]
<1>1. Contexts = {"fun", "exp", "soft", "redir", "var", "for", "last_exp", "last_soft", "word",
                  "case", "eval"}
  BY DEF Contexts, SubSaved, Saved
<1> QED BY <1>1 DEF Values

\* A context is given one of its values.
LEMMA SetContext ==
  ASSUME NEW L, Typed(L), NEW c \in Contexts, NEW v \in Values[c], NEW M, M = [L EXCEPT ![c] = v]
  PROVE  /\ Near(L, M) /\ M.pos = L.pos
         /\ \A d \in Contexts : M[d] = IF d = c THEN v ELSE L[d]
         /\ M.eval = IF c = "eval" THEN v ELSE L.eval
<1>1. \A f \in Fields : M[f] = IF f = c THEN v ELSE L[f]
  BY DEF Typed
<1>2. DOMAIN M = Fields
  BY DEF Typed
<1>3. /\ Contexts \subseteq Fields /\ {"script", "pos", "token_list", "array_pos"} \subseteq Fields
      /\ c \notin {"script", "pos", "token_list", "array_pos"}
  BY ContextFacts DEF Fields
<1>4. M.script = L.script /\ M.pos = L.pos /\ M.token_list = L.token_list /\ M.array_pos = L.array_pos
  BY <1>1, <1>3
<1>5. \A d \in Contexts : M[d] = IF d = c THEN v ELSE L[d]
  BY <1>1, <1>3
<1>6. Typed(M)
  BY <1>2, <1>4, <1>5 DEF Typed
<1>7. M.eval = IF c = "eval" THEN v ELSE L.eval
  BY <1>5, ContextFacts
<1> QED BY <1>4, <1>5, <1>6, <1>7 DEF Near

LEMMA SetPos ==
  ASSUME NEW L, Typed(L), NEW n \in Nat, NEW M, M = [L EXCEPT !.pos = n]
  PROVE  /\ Near(L, M) /\ M.pos = n /\ M.eval = L.eval
         /\ \A d \in Contexts : M[d] = L[d]
<1>1. "pos" \in Fields /\ Contexts \subseteq Fields /\ "pos" \notin Contexts
  BY ContextFacts DEF Fields
<1>2. \A f \in Fields : M[f] = IF f = "pos" THEN n ELSE L[f]
  BY DEF Typed
<1>3. DOMAIN M = Fields
  BY DEF Typed
<1>4. M.pos = n /\ \A d \in Contexts : M[d] = L[d]
  BY <1>1, <1>2
<1>5. M.script = L.script /\ M.token_list = L.token_list /\ M.array_pos = L.array_pos
  BY <1>2 DEF Fields
<1>6. Typed(M)
  BY <1>3, <1>4, <1>5 DEF Typed
<1>7. M.eval = L.eval
  BY <1>4, ContextFacts
<1> QED BY <1>4, <1>5, <1>6, <1>7 DEF Near

\* M differs from L in its contexts, except that of the arithmetic expansion.
Alike(L, M) == Near(L, M) /\ M.pos = L.pos /\ M.eval = L.eval

LEMMA AlikeSelf == ASSUME NEW L, Typed(L) PROVE Alike(L, L)
BY DEF Alike, Near

LEMMA AlikeTwice ==
  ASSUME NEW L, NEW M, NEW N, Alike(L, M), Alike(M, N)
  PROVE  Alike(L, N)
BY DEF Alike, Near

LEMMA AlikeSet ==
  ASSUME NEW L, Typed(L), NEW c \in Contexts \ {"eval"}, NEW v \in Values[c]
  PROVE  Alike(L, [L EXCEPT ![c] = v])
BY SetContext DEF Alike

LEMMA AlikeSetTwo ==
  ASSUME NEW L, Typed(L), NEW c \in Contexts \ {"eval"}, NEW v \in Values[c],
         NEW d \in Contexts \ {"eval"}, NEW w \in Values[d]
  PROVE  Alike(L, [L EXCEPT ![c] = v, ![d] = w])
<1> DEFINE M == [L EXCEPT ![c] = v]
           N == [M EXCEPT ![d] = w]
<1>1. [L EXCEPT ![c] = v, ![d] = w] = N
  OBVIOUS
<1>2. Alike(L, M)
  BY AlikeSet
<1> HIDE DEF M
<1>3. Alike(M, N)
  BY <1>2, AlikeSet DEF Alike, Near
<1> HIDE DEF N
<1>4. Alike(L, N)
  BY <1>2, <1>3, AlikeTwice
<1> QED BY <1>1, <1>4

\* The values that the lexer gives to a context.
LEMMA ValueFacts ==
  /\ \A c \in Contexts : GENERAL \in Values[c]
  /\ "IN_FUN_NAME" \in Values["fun"] /\ "IN_FUN" \in Values["fun"]
  /\ "IN_ESCAPE_EXP" \in Values["exp"] /\ "IN_SQUOTE_EXP" \in Values["exp"]
  /\ "IN_ESCAPE_EXP" \in Values["last_exp"] /\ "IN_SQUOTE_EXP" \in Values["last_exp"]
  /\ "IN_DQUOTE" \in Values["soft"] /\ "IN_DQUOTE" \in Values["last_soft"]
  /\ "IN_REDIR" \in Values["redir"] /\ "IN_EVAL" \in Values["eval"]
  /\ "IN_VAR" \in Values["var"] /\ "IN_VAR_NAME" \in Values["var"]
  /\ "IN_VAR_INIT" \in Values["var"]
  /\ "VAR_FOR" \in Values["for"] /\ "IN_FOR" \in Values["for"]
  /\ "IN_COMMAND" \in Values["word"]
  /\ "IN_CASE" \in Values["case"] /\ "IN_CASE_COMMAND" \in Values["case"]
BY ContextFacts DEF Values

\* The contexts by their names.
LEMMA Names ==
  /\ "fun" \in Contexts \ {"eval"} /\ "exp" \in Contexts \ {"eval"}
  /\ "last_exp" \in Contexts \ {"eval"} /\ "soft" \in Contexts \ {"eval"}
  /\ "last_soft" \in Contexts \ {"eval"} /\ "redir" \in Contexts \ {"eval"}
  /\ "var" \in Contexts \ {"eval"} /\ "for" \in Contexts \ {"eval"}
  /\ "word" \in Contexts \ {"eval"} /\ "case" \in Contexts \ {"eval"}
BY ContextFacts

\* What detect_context() does to the lexer.
LEMMA DetectFacts ==
  ASSUME NEW L, Typed(L), NEW c
  PROVE  Alike(L, DetectContext(L, c))
<1> DEFINE M == IF L.exp = GENERAL /\ L.last_exp = "IN_ESCAPE_EXP"
                THEN [L EXCEPT !.last_exp = "IN_SQUOTE_EXP"] ELSE L
           A == [M EXCEPT !.exp = "IN_ESCAPE_EXP", !.last_exp = "IN_ESCAPE_EXP"]
           B == [M EXCEPT !.exp = Toggled(@, "IN_SQUOTE_EXP"), !.last_exp = "IN_SQUOTE_EXP"]
           C == [M EXCEPT !.var = IF Char(M, M.pos + 1) = "(" THEN @ ELSE "IN_VAR"]
           D == [M EXCEPT !.soft = Toggled(@, "IN_DQUOTE"), !.last_soft = "IN_DQUOTE"]
           E == [M EXCEPT !.exp = GENERAL]
           F == [M EXCEPT !.word = IF c = "}" /\ M.fun = "IN_FUN" THEN GENERAL ELSE @]
<1>1. DetectContext(L, c) \in {A, B, C, D, E, F}
  BY DEF DetectContext
<1>2. Alike(L, M)
  BY AlikeSelf, AlikeSet, ValueFacts, Names
<1> HIDE DEF M
<1>3. Typed(M) /\ \A d \in Contexts : M[d] \in Values[d]
  BY <1>2 DEF Alike, Near, Typed
<1>4. Alike(M, A)
  BY <1>3, AlikeSetTwo, ValueFacts, Names
<1>5. Alike(M, B)
  BY <1>3, AlikeSetTwo, ValueFacts, Names DEF Toggled
<1>6. Alike(M, C)
  BY <1>3, AlikeSet, ValueFacts, Names
<1>7. Alike(M, D)
  BY <1>3, AlikeSetTwo, ValueFacts, Names DEF Toggled
<1>8. Alike(M, E)
  BY <1>3, AlikeSet, ValueFacts, Names
<1>9. Alike(M, F)
  BY <1>3, AlikeSet, ValueFacts, Names
<1> HIDE DEF A, B, C, D, E, F
<1> QED BY <1>1, <1>2, <1>4, <1>5, <1>6, <1>7, <1>8, <1>9, AlikeTwice

-----------------------------------------------------------------------------
(***************************************************************************)
(* One character                                                           *)
(***************************************************************************)
LEMMA CharFacts ==
  ASSUME NEW L, Len(L.script) \in Nat, NEW i \in Nat
  PROVE  /\ i >= Len(L.script) => Char(L, i) = NUL
         /\ Char(L, i) # NUL => i < Len(L.script)
BY DEF Char

LEMMA Smallest ==
  ASSUME NEW S, S \subseteq Nat, S # {}
  PROVE  \E n \in S : \A m \in S : n <= m
<1>1. PICK n \in S : \A m \in S : <<m, n>> \notin OpToRel(<, Nat)
  BY NatLessThanWellFounded, WFMin, Zenon
<1>2. \A m \in S : ~(m < n)
  BY <1>1, Zenon DEF OpToRel
<1>3. \A m \in S : n <= m
  BY <1>2
<1> QED BY <1>3

\* Blanks are skipped forwards, and not beyond the end.
LEMMA SkipBlanksFacts ==
  ASSUME NEW L, Typed(L), L.pos \in Nat
  PROVE  /\ Near(L, SkipBlanks(L)) /\ SkipBlanks(L).pos \in Nat
         /\ \A c \in Contexts : SkipBlanks(L)[c] = L[c]
         /\ L.pos <= SkipBlanks(L).pos
         /\ L.pos <= Len(L.script) => SkipBlanks(L).pos <= Len(L.script)
         /\ L.pos >= Len(L.script) => SkipBlanks(L).pos = L.pos
<1> DEFINE n == Len(L.script)
           OK(p) == /\ Char(L, p) \notin Blank
                    /\ \A q \in L.pos .. p - 1 : Char(L, q) \in Blank
           T == {p \in L.pos .. L.pos + n : Char(L, p) \notin Blank}
           p == CHOOSE p \in L.pos .. L.pos + n : OK(p)
<1>1. n \in Nat /\ L.pos \in Nat
  BY DEF Typed
<1>2. \A q \in Nat : q >= n => Char(L, q) \notin Blank
  BY <1>1, CharFacts DEF Blank, NUL
<1>3. T \subseteq Nat /\ T # {}
  <2>1. L.pos + n \in T
    BY <1>1, <1>2
  <2> QED BY <1>1, <2>1
<1>4. PICK m \in T : \A l \in T : m <= l
  BY <1>3, Smallest
<1>5. m \in L.pos .. L.pos + n /\ OK(m)
  <2>1. ASSUME NEW q \in L.pos .. m - 1 PROVE Char(L, q) \in Blank
    <3>1. q \in L.pos .. L.pos + n /\ ~(m <= q)
      BY <1>1, <1>4
    <3> QED BY <1>4, <3>1
  <2> QED BY <1>4, <2>1
<1>6. SkipBlanks(L) = [L EXCEPT !.pos = p]
  BY DEF SkipBlanks
<1> HIDE DEF OK
<1>7. p \in L.pos .. L.pos + n /\ OK(p)
  BY <1>5
<1> HIDE DEF p
<1>8. p \in Nat /\ L.pos <= p /\ \A q \in L.pos .. p - 1 : Char(L, q) \in Blank
  BY <1>1, <1>7 DEF OK
<1>9. L.pos <= n => p <= n
  BY <1>1, <1>2, <1>8
<1>10. L.pos >= n => p = L.pos
  BY <1>1, <1>2, <1>8
<1>11. /\ Near(L, SkipBlanks(L)) /\ SkipBlanks(L).pos = p
       /\ \A c \in Contexts : SkipBlanks(L)[c] = L[c]
  BY <1>6, <1>8, SetPos
<1> QED BY <1>8, <1>9, <1>10, <1>11

\* A character has been looked at: the cursor is in the script.
Checked(L, S) ==
  /\ Near(L, S.L) /\ S.L.pos \in 0 .. Len(L.script)
  /\ S.L.eval = L.eval /\ S.then \in {"go", "stop"}

LEMMA AlikeChecked ==
  ASSUME NEW L, NEW M, Alike(L, M), L.pos \in 0 .. Len(L.script),
         NEW S, S.L = M, S.then \in {"go", "stop"}
  PROVE  Checked(L, S)
BY DEF Alike, Checked

LEMMA PosChecked ==
  ASSUME NEW L, Typed(L), NEW n \in 0 .. Len(L.script),
         NEW S, S.L = [L EXCEPT !.pos = n], S.then \in {"go", "stop"}
  PROVE  Checked(L, S)
BY SetPos DEF Checked

LEMMA SeparatorFacts ==
  ASSUME NEW L, Typed(L), L.pos \in 0 .. Len(L.script), NEW acc
  PROVE  Checked(L, CheckSeparator(L, acc))
<1> DEFINE S == CheckSeparator(L, acc)
           n == L.pos + 1
           P == [L EXCEPT !.pos = n]
           F == [L EXCEPT !.fun = "IN_FUN_NAME"]
<1>1. P = [L EXCEPT !.pos = @ + 1]
  OBVIOUS
<1>2. /\ S.then \in {"go", "stop"}
      /\ S.L \in {L, F} \/ (S.L = P /\ L.pos < Len(L.script))
  BY <1>1 DEF CheckSeparator, Go, Stop
<1>3. Alike(L, L) /\ Alike(L, F)
  BY AlikeSelf, AlikeSet, ValueFacts, Names
<1> HIDE DEF S, P, F
<1>4. CASE S.L \in {L, F}
  BY <1>2, <1>3, <1>4, AlikeChecked DEF S
<1>5. CASE S.L = P /\ L.pos < Len(L.script)
  <2>1. n \in 0 .. Len(L.script)
    BY <1>5 DEF Typed
  <2> QED BY <1>2, <1>5, <2>1, PosChecked DEF P, S
<1> QED BY <1>2, <1>4, <1>5

\* What check_special() does to the lexer: an arithmetic expansion is opened, or
\* left as it is.
LEMMA SpecialFacts ==
  ASSUME NEW L, Typed(L), L.pos \in 1 .. Len(L.script), NEW read
  PROVE  LET S == CheckSpecial(L, read)
         IN \/ Checked(L, S)
            \/ /\ Near(L, S.L) /\ S.L.pos \in 0 .. Len(L.script)
               /\ S.L.eval = "IN_EVAL" /\ S.then = "eval"
<1> DEFINE S == CheckSpecial(L, read)
           acc == IF /\ L.soft = "IN_DQUOTE" /\ L.exp = "IN_ESCAPE_EXP"
                     /\ Char(L, L.pos) \in {"$", "\\", "\"", BACKQUOTE}
                  THEN Front(read) ELSE read
           n == L.pos + 2
           M == [L EXCEPT !.pos = n]
           E == [M EXCEPT !.eval = "IN_EVAL"]
           k == L.pos - 1
           B == [L EXCEPT !.pos = k]
           V == [L EXCEPT !.var = "IN_VAR_NAME"]
           X == [L EXCEPT !.exp = GENERAL]
<1>1. E = [L EXCEPT !.pos = @ + 2, !.eval = "IN_EVAL"] /\ B = [L EXCEPT !.pos = @ - 1]
  OBVIOUS
<1>2. \/ S.then \in {"go", "stop"} /\ S.L \in {L, B, V, X}
      \/ S.then = "eval" /\ S.L = E /\ Char(L, L.pos + 1) = "("
      \/ S = CheckSeparator(L, acc)
  BY <1>1 DEF CheckSpecial, Go, Stop
<1>3. Alike(L, L) /\ Alike(L, V) /\ Alike(L, X)
  BY AlikeSelf, AlikeSet, ValueFacts, Names
<1> HIDE DEF S, acc, M, E, B, V, X
<1>4. L.pos \in 0 .. Len(L.script) /\ k \in 0 .. Len(L.script) /\ Len(L.script) \in Nat
  BY DEF Typed
<1>5. CASE S.then \in {"go", "stop"} /\ S.L \in {L, V, X}
  <2>1. Checked(L, S)
    BY <1>3, <1>4, <1>5, AlikeChecked
  <2> QED BY <2>1 DEF S
<1>6. CASE S.then \in {"go", "stop"} /\ S.L = B
  <2>1. Checked(L, S)
    BY <1>4, <1>6, PosChecked DEF B
  <2> QED BY <2>1 DEF S
<1>7. CASE S.then = "eval" /\ S.L = E /\ Char(L, L.pos + 1) = "("
  <2>1. n \in 0 .. Len(L.script)
    <3>1. L.pos + 1 \in Nat /\ Char(L, L.pos + 1) # NUL
      BY <1>4, <1>7 DEF NUL
    <3>2. L.pos + 1 < Len(L.script)
      BY <1>4, <3>1, CharFacts
    <3> QED BY <1>4, <3>2
  <2>2. Near(L, M) /\ M.pos = n
    BY <1>4, <2>1, SetPos DEF M
  <2>3. Near(M, E) /\ E.pos = M.pos /\ E.eval = "IN_EVAL"
    BY <2>2, SetContext, ValueFacts, ContextFacts DEF E, Near
  <2> QED BY <1>7, <2>1, <2>2, <2>3 DEF Near, S
<1>8. CASE S = CheckSeparator(L, acc)
  BY <1>4, <1>8, SeparatorFacts DEF S
<1> QED BY <1>2, <1>5, <1>6, <1>7, <1>8

LEMMA DquoteFacts ==
  ASSUME NEW L, Typed(L), L.pos \in 0 .. Len(L.script), NEW acc
  PROVE  Checked(L, LookAheadDquote(L, acc))
<1> DEFINE S == LookAheadDquote(L, acc)
           n == L.pos + 1
           M == [L EXCEPT !.pos = n]
           Q == [M EXCEPT !.soft = GENERAL]
<1>1. Q = [L EXCEPT !.pos = @ + 1, !.soft = GENERAL]
  OBVIOUS
<1>2. /\ S.then \in {"go", "stop"}
      /\ S.L = L \/ (S.L = Q /\ Char(L, L.pos) = "\"")
  BY <1>1 DEF LookAheadDquote, Go, Stop
<1> HIDE DEF S, M, Q
<1>3. CASE S.L = L
  BY <1>2, <1>3, AlikeSelf, AlikeChecked DEF S
<1>4. CASE S.L = Q /\ Char(L, L.pos) = "\""
  <2>1. L.pos < Len(L.script)
    <3>1. Char(L, L.pos) # NUL
      BY <1>4 DEF NUL
    <3>2. Len(L.script) \in Nat /\ L.pos \in Nat
      BY DEF Typed
    <3> QED BY <3>1, <3>2, CharFacts
  <2>2. n \in 0 .. Len(L.script)
    BY <2>1 DEF Typed
  <2>3. Near(L, M) /\ M.pos = n /\ M.eval = L.eval
    BY <2>2, SetPos DEF M
  <2>4. Alike(M, Q)
    BY <2>3, AlikeSet, ValueFacts, Names DEF Near, Q
  <2> QED BY <1>2, <1>4, <2>2, <2>3, <2>4 DEF Checked, Alike, Near, S
<1> QED BY <1>2, <1>3, <1>4

LEMMA LookAheadFacts ==
  ASSUME NEW L, Typed(L), L.pos \in 0 .. Len(L.script), NEW acc
  PROVE  Checked(L, LookAhead(L, acc))
<1> DEFINE S == LookAhead(L, acc)
           n == L.pos + 2
           M == [L EXCEPT !.pos = n]
<1>1. M = [L EXCEPT !.pos = @ + 2]
  OBVIOUS
<1>2. \A a : LookAheadKeywords(L, a).L = L /\ LookAheadKeywords(L, a).then \in {"go", "stop"}
  BY DEF LookAheadKeywords, Go, Stop
<1>3. \/ S.then \in {"go", "stop"} /\ S.L = L
      \/ S.then = "stop" /\ S.L = M /\ Char(L, L.pos + 1) = ")"
      \/ S = LookAheadDquote(L, acc)
  BY <1>1, <1>2 DEF LookAhead, Go, Stop
<1> HIDE DEF S, M
<1>4. CASE S.then \in {"go", "stop"} /\ S.L = L
  BY <1>4, AlikeSelf, AlikeChecked DEF S
<1>5. CASE S.then = "stop" /\ S.L = M /\ Char(L, L.pos + 1) = ")"
  <2>1. Len(L.script) \in Nat /\ L.pos + 1 \in Nat
    BY DEF Typed
  <2>2. L.pos + 1 < Len(L.script)
    BY <1>5, <2>1, CharFacts DEF NUL
  <2>3. n \in 0 .. Len(L.script)
    BY <2>1, <2>2
  <2> QED BY <1>5, <2>3, PosChecked DEF M, S
<1>6. CASE S = LookAheadDquote(L, acc)
  BY <1>6, DquoteFacts DEF S
<1> QED BY <1>3, <1>4, <1>5, <1>6

\* A loop over characters stays near the lexer it started with, and leaves an
\* arithmetic expansion open only for a token of its own or at the end.
InTurn(L, R) ==
  /\ Near(L, R.L) /\ R.L.pos \in 0 .. Len(L.script)
  /\ L.eval = GENERAL =>
       R.L.eval = GENERAL \/ R.type = "T_EVALEXPR" \/ R.L.pos >= Len(L.script)

LEMMA NearTwice ==
  ASSUME NEW L, NEW M, NEW N, Near(L, M), Near(M, N)
  PROVE  Near(L, N)
BY DEF Near

LEMMA TurnFacts ==
  ASSUME NEW L, Typed(L), NEW R, InTurn(L, R)
  PROVE  InTurn(L, Turn(R))
<1> DEFINE c == Char(R.L, R.L.pos)
           read == IF SkipCharacter(R.L, c) THEN R.acc ELSE Append(R.acc, c)
           D == DetectContext(R.L, c)
           n == D.pos + 1
           P == [D EXCEPT !.pos = n]
           S == CheckSpecial(P, read)
           A == LookAhead(S.L, S.acc)
           type == IF S.then = "eval" THEN "T_EVALEXPR" ELSE R.type
           E == [R.L EXCEPT !.soft = GENERAL]
           T == Turn(R)
<1>0. P = [D EXCEPT !.pos = @ + 1]
  OBVIOUS
<1>1. \/ R.then = "stop" /\ T = R
      \/ AtEnd(R.L) /\ T.L = E
      \/ ~AtEnd(R.L) /\ S.then = "stop" /\ T.L = S.L /\ T.type = R.type
      \/ ~AtEnd(R.L) /\ S.then # "stop" /\ T.L = A.L /\ T.type = type
  BY <1>0 DEF Turn
<1> HIDE DEF c, read, D, P, S, A, E, T
<1>2. /\ Near(L, R.L) /\ Typed(R.L) /\ R.L.script = L.script /\ R.L.pos \in 0 .. Len(L.script)
      /\ Len(L.script) \in Nat
  BY DEF InTurn, Near, Typed
<1>3. CASE R.then = "stop" /\ T = R
  BY <1>3 DEF T
<1>4. CASE AtEnd(R.L) /\ T.L = E
  <2>1. Alike(R.L, E)
    BY <1>2, AlikeSet, ValueFacts, Names DEF E
  <2>2. Near(L, E) /\ E.pos = R.L.pos
    BY <1>2, <2>1, NearTwice DEF Alike
  <2>3. R.L.pos >= Len(L.script)
    BY <1>2, <1>4 DEF AtEnd
  <2> QED BY <1>2, <1>4, <2>2, <2>3 DEF InTurn, T
<1>5. CASE ~AtEnd(R.L)
  <2>1. Alike(R.L, D)
    BY <1>2, DetectFacts DEF D
  <2>2. D.pos = R.L.pos /\ D.eval = R.L.eval /\ Near(L, D) /\ Typed(D) /\ D.script = L.script
    BY <1>2, <2>1, NearTwice DEF Alike, Near
  <2>3. n \in 1 .. Len(L.script) /\ n \in Nat
    BY <1>2, <1>5, <2>2 DEF AtEnd
  <2>4. Near(D, P) /\ P.pos = n /\ P.eval = R.L.eval
    BY <2>2, <2>3, SetPos DEF P
  <2>5. Near(L, P) /\ Typed(P) /\ P.script = L.script /\ P.pos \in 1 .. Len(P.script)
    BY <2>2, <2>3, <2>4, NearTwice DEF Near
  <2>6. \/ Checked(P, S)
        \/ /\ Near(P, S.L) /\ S.L.pos \in 0 .. Len(P.script)
           /\ S.L.eval = "IN_EVAL" /\ S.then = "eval"
    BY <2>5, SpecialFacts DEF S
  <2>7. Near(L, S.L) /\ Typed(S.L) /\ S.L.script = L.script /\ S.L.pos \in 0 .. Len(S.L.script)
    BY <2>5, <2>6, NearTwice DEF Checked, Near
  <2>8. S.L.eval = R.L.eval \/ S.then = "eval"
    BY <2>4, <2>6 DEF Checked
  <2>9. L.eval = GENERAL => R.L.eval = GENERAL \/ R.type = "T_EVALEXPR"
    BY <1>2, <1>5 DEF InTurn, AtEnd
  <2>10. CASE S.then = "stop" /\ T.L = S.L /\ T.type = R.type
    BY <2>7, <2>8, <2>9, <2>10 DEF InTurn, T
  <2>11. CASE S.then # "stop" /\ T.L = A.L /\ T.type = type
    <3>1. Checked(S.L, A)
      BY <2>7, LookAheadFacts DEF A
    <3>2. Near(L, A.L) /\ A.L.pos \in 0 .. Len(L.script) /\ A.L.eval = S.L.eval
      BY <2>7, <3>1, NearTwice DEF Checked
    <3>3. L.eval = GENERAL => S.L.eval = GENERAL \/ type = "T_EVALEXPR"
      BY <2>8, <2>9
    <3> QED BY <2>11, <3>2, <3>3 DEF InTurn, T
  <2> QED BY <1>1, <1>3, <1>5, <2>10, <2>11
<1> QED BY <1>1, <1>3, <1>4, <1>5

-----------------------------------------------------------------------------
(***************************************************************************)
(* One token                                                               *)
(***************************************************************************)
\* A set of numbers that holds 0 and, with every number, the next one holds all.
LEMMA Induct ==
  ASSUME NEW S, S \subseteq Nat, 0 \in S, \A n \in S : n + 1 \in S
  PROVE  \A n \in Nat : n \in S
<1> DEFINE T == Nat \ S
<1>1. SUFFICES ASSUME T # {} PROVE FALSE
  OBVIOUS
<1>2. PICK n \in T : \A m \in T : n <= m
  BY <1>1, Smallest
<1>3. n \in Nat /\ n # 0 /\ n - 1 \in Nat
  OBVIOUS
<1>4. n - 1 \in S
  BY <1>2, <1>3
<1>5. (n - 1) + 1 \in S /\ (n - 1) + 1 = n
  BY <1>3, <1>4
<1> QED BY <1>5

\* The loop of tokenify_next() before its first turn, and the function of its turns.
Begun(L) == [L |-> L, acc |-> <<>>, type |-> "NONE", then |-> "go"]
TurnsOf(L, n, f) == f = [k \in 0 .. n |-> IF k = 0 THEN Begun(L) ELSE Turn(f[k - 1])]

LEMMA TurnsExist ==
  ASSUME NEW L
  PROVE  \A n \in Nat : \E f : TurnsOf(L, n, f)
<1> DEFINE S == {n \in Nat : \E f : TurnsOf(L, n, f)}
<1>1. 0 \in S
  <2> DEFINE f == [k \in 0 .. 0 |-> Begun(L)]
  <2>1. f = [k \in 0 .. 0 |-> IF k = 0 THEN Begun(L) ELSE Turn(f[k - 1])]
    OBVIOUS
  <2> HIDE DEF f
  <2>2. TurnsOf(L, 0, f)
    BY <2>1 DEF TurnsOf
  <2> QED BY <2>2
<1>2. ASSUME NEW n \in S PROVE n + 1 \in S
  <2>1. n \in Nat
    OBVIOUS
  <2>2. PICK f : TurnsOf(L, n, f)
    OBVIOUS
  <2>3. PICK l \in Nat : l = n + 1
    BY <2>1
  <2> DEFINE g == [k \in 0 .. l |-> IF k = l THEN Turn(f[n]) ELSE f[k]]
  <2>4. ASSUME NEW k \in 0 .. l PROVE g[k] = IF k = 0 THEN Begun(L) ELSE Turn(g[k - 1])
    <3>1. CASE k = l
      <4>1. g[k] = Turn(f[n]) /\ k # 0 /\ k - 1 = n
        BY <2>1, <2>3, <3>1
      <4>2. g[n] = f[n]
        BY <2>1, <2>3
      <4> QED BY <3>1, <4>1, <4>2
    <3>2. CASE k # l
      <4>1. k \in 0 .. n /\ g[k] = f[k]
        BY <2>1, <2>3, <3>2
      <4>2. f[k] = IF k = 0 THEN Begun(L) ELSE Turn(f[k - 1])
        BY <2>2, <4>1 DEF TurnsOf
      <4>3. k # 0 => g[k - 1] = f[k - 1]
        BY <2>1, <2>3, <4>1
      <4> QED BY <4>1, <4>2, <4>3
    <3> QED BY <3>1, <3>2
  <2>5. g = [k \in 0 .. l |-> g[k]]
    OBVIOUS
  <2> HIDE DEF g
  <2>6. TurnsOf(L, l, g)
    BY <2>4, <2>5 DEF TurnsOf
  <2> QED BY <2>1, <2>3, <2>6
<1>3. S \subseteq Nat
  OBVIOUS
<1> HIDE DEF S
<1>4. \A n \in Nat : n \in S
  BY <1>1, <1>2, <1>3, Induct
<1> QED BY <1>4 DEF S

LEMMA AccumulateFacts ==
  ASSUME NEW L, Typed(L), L.pos \in 0 .. Len(L.script)
  PROVE  InTurn(L, Accumulate(L))
<1> DEFINE n == Len(L.script) - L.pos + 1
           f == CHOOSE g : TurnsOf(L, n, g)
           m == CHOOSE k \in 0 .. n : k = n \/ f[k].then = "stop"
<1>1. Accumulate(L) = f[m]
  BY DEF Accumulate, TurnsOf, Begun
<1>2. n \in Nat
  BY DEF Typed
<1> HIDE DEF n
<1>3. TurnsOf(L, n, f)
  BY <1>2, TurnsExist
<1> HIDE DEF f
<1>4. \A k \in 0 .. n : f[k] = IF k = 0 THEN Begun(L) ELSE Turn(f[k - 1])
  BY <1>3 DEF TurnsOf
<1> DEFINE S == {k \in Nat : k <= n => InTurn(L, f[k])}
<1>5. 0 \in S
  <2>1. f[0] = Begun(L)
    BY <1>2, <1>4
  <2>2. InTurn(L, Begun(L))
    BY DEF InTurn, Begun, Near
  <2> QED BY <2>1, <2>2
<1>6. ASSUME NEW k \in S PROVE k + 1 \in S
  <2>1. PICK l \in Nat : l = k + 1
    OBVIOUS
  <2>2. ASSUME l <= n PROVE InTurn(L, f[l])
    <3>1. InTurn(L, f[k]) /\ f[l] = Turn(f[k])
      BY <1>2, <1>4, <2>1, <2>2
    <3> QED BY <3>1, TurnFacts
  <2> QED BY <2>1, <2>2
<1>7. S \subseteq Nat
  OBVIOUS
<1> HIDE DEF S
<1>8. \A k \in Nat : k \in S
  BY <1>5, <1>6, <1>7, Induct
<1>9. m \in 0 .. n
  <2>1. n \in 0 .. n
    BY <1>2
  <2> QED BY <2>1
<1> HIDE DEF m
<1> QED BY <1>1, <1>2, <1>8, <1>9 DEF S

\* What each lex_...() returns: the lexer with other contexts, and a token.
Made(L, R) == Alike(L, R.L) /\ R = Lexed(R.L, R.res)

LEMMA MadeOf ==
  ASSUME NEW L, NEW M, NEW res, Alike(L, M)
  PROVE  Made(L, Lexed(M, res))
BY DEF Made, Lexed

LEMMA TypedValues ==
  ASSUME NEW L, NEW M, Alike(L, M)
  PROVE  Typed(M) /\ \A c \in Contexts : M[c] \in Values[c]
BY DEF Alike, Near, Typed

\* At the end of lex_accumulator() no quote and no escape is half read.
LEMMA SettledFacts ==
  ASSUME NEW L, Typed(L), NEW R, Made(L, R)
  PROVE  /\ Made(L, Settled(R)) /\ Settled(R).res = R.res
         /\ Settled(R).L.exp = GENERAL /\ Settled(R).L.last_exp = GENERAL
<1> DEFINE M == R.L
           A == [M EXCEPT !.exp = GENERAL]
           B == [A EXCEPT !.last_exp = GENERAL]
           soft == IF M.soft = GENERAL THEN GENERAL ELSE B.last_soft
           C == [B EXCEPT !.last_soft = soft]
           redir == IF R.res.type = "T_WORD" THEN GENERAL ELSE C.redir
           D == [C EXCEPT !.redir = redir]
<1>1. Settled(R) = Lexed(D, R.res)
  BY DEF Made, Lexed, Settled
<1>2. Alike(L, M) /\ Typed(M)
  BY DEF Made, Alike, Near
<1> HIDE DEF M, A, B, C, D
<1>3. Alike(L, A) /\ Typed(A) /\ A.exp = GENERAL
  <2>1. Alike(M, A)
    BY <1>2, AlikeSet, ValueFacts, Names DEF A
  <2>2. A.exp = GENERAL
    BY <1>2, ContextFacts DEF A, Typed, Fields
  <2> QED BY <1>2, <2>1, <2>2, AlikeTwice, TypedValues
<1>4. Alike(L, B) /\ Typed(B) /\ B.exp = GENERAL /\ B.last_exp = GENERAL
  <2>1. Alike(A, B)
    BY <1>3, AlikeSet, ValueFacts, Names DEF B
  <2>2. B.exp = GENERAL /\ B.last_exp = GENERAL
    BY <1>3, ContextFacts DEF B, Typed, Fields
  <2> QED BY <1>3, <2>1, <2>2, AlikeTwice, TypedValues
<1>5. Alike(L, C) /\ Typed(C) /\ C.exp = GENERAL /\ C.last_exp = GENERAL
  <2>1. soft \in Values["last_soft"]
    BY <1>4, TypedValues, ValueFacts, Names
  <2>2. Alike(B, C)
    BY <1>4, <2>1, AlikeSet, Names DEF C
  <2>3. C.exp = GENERAL /\ C.last_exp = GENERAL
    BY <1>4, ContextFacts DEF C, Typed, Fields
  <2> QED BY <1>4, <2>2, <2>3, AlikeTwice, TypedValues
<1>6. Alike(L, D) /\ D.exp = GENERAL /\ D.last_exp = GENERAL
  <2>1. redir \in Values["redir"]
    BY <1>5, TypedValues, ValueFacts, Names
  <2>2. Alike(C, D)
    BY <1>5, <2>1, AlikeSet, Names DEF D
  <2>3. D.exp = GENERAL /\ D.last_exp = GENERAL
    BY <1>5, ContextFacts DEF D, Typed, Fields
  <2> QED BY <1>5, <2>2, <2>3, AlikeTwice
<1>7. Lexed(D, R.res).L = D /\ Lexed(D, R.res).res = R.res
  BY DEF Lexed
<1> QED BY <1>1, <1>6, <1>7, MadeOf

LEMMA LexForFacts ==
  ASSUME NEW L, Typed(L), NEW acc, NEW res
  PROVE  Made(L, LexFor(L, acc, res))
<1> DEFINE A == [L EXCEPT !.for = "IN_FOR"]
           B == [L EXCEPT !.for = GENERAL, !.word = GENERAL]
           C == [L EXCEPT !.for = GENERAL, !.word = "IN_COMMAND"]
<1>1. Alike(L, L) /\ Alike(L, A) /\ Alike(L, B) /\ Alike(L, C)
  BY AlikeSelf, AlikeSet, AlikeSetTwo, ValueFacts, Names
<1>2. \E r : LexFor(L, acc, res) \in {Lexed(L, r), Lexed(A, r), Lexed(B, r), Lexed(C, r)}
  BY DEF LexFor
<1> HIDE DEF A, B, C
<1> QED BY <1>1, <1>2, MadeOf

LEMMA LexVarnameFacts ==
  ASSUME NEW L, Typed(L), NEW acc, NEW res
  PROVE  Made(L, LexVarname(L, acc, res))
<1> DEFINE var == IF res.is_space_after THEN GENERAL ELSE "IN_VAR_INIT"
           A == [L EXCEPT !.var = var]
<1>1. Alike(L, A)
  BY AlikeSet, ValueFacts, Names
<1> QED BY <1>1, MadeOf DEF LexVarname

LEMMA LexVarFacts ==
  ASSUME NEW L, Typed(L), NEW acc, NEW res
  PROVE  Made(L, LexVar(L, acc, res))
<1> DEFINE word == IF L.case = "IN_CASE" THEN GENERAL ELSE L.word
           A == [L EXCEPT !.var = GENERAL, !.word = word]
<1>1. word \in Values["word"]
  BY AlikeSelf, TypedValues, ValueFacts, Names
<1>2. Alike(L, A)
  BY <1>1, AlikeSetTwo, ValueFacts, Names
<1>3. A = [L EXCEPT !.var = GENERAL, !.word = IF L.case = "IN_CASE" THEN GENERAL ELSE @]
  OBVIOUS
<1> HIDE DEF A
<1> QED BY <1>2, <1>3, MadeOf DEF LexVar

LEMMA LexFunFacts ==
  ASSUME NEW L, Typed(L), NEW acc, NEW res
  PROVE  Made(L, LexFun(L, acc, res))
<1> DEFINE A == [L EXCEPT !.fun = "IN_FUN"]
<1>1. Alike(L, L) /\ Alike(L, A)
  BY AlikeSelf, AlikeSet, ValueFacts, Names
<1> HIDE DEF A
<1> QED BY <1>1, MadeOf DEF LexFun, A

LEMMA LexCommandFacts ==
  ASSUME NEW L, Typed(L), NEW acc, NEW res
  PROVE  Made(L, LexCommand(L, acc, res))
<1> DEFINE word == IF L.case = "IN_CASE" \/ L.var = "IN_VAR_INIT" THEN GENERAL
                   ELSE IF L.redir = GENERAL THEN "IN_COMMAND" ELSE L.word
           var == IF L.var = "IN_VAR_INIT" THEN GENERAL ELSE L.var
           A == [L EXCEPT !.word = word, !.var = var]
<1>1. word \in Values["word"] /\ var \in Values["var"]
  BY AlikeSelf, TypedValues, ValueFacts, Names
<1>2. Alike(L, L) /\ Alike(L, A)
  BY <1>1, AlikeSelf, AlikeSetTwo, ValueFacts, Names
<1>3. \E r : LexCommand(L, acc, res) \in {Lexed(L, r), Lexed(A, r)}
  BY DEF LexCommand
<1> HIDE DEF A
<1> QED BY <1>2, <1>3, MadeOf

LEMMA LexKeywordsFacts ==
  ASSUME NEW L, Typed(L), NEW acc, NEW res
  PROVE  Made(L, LexKeywords(L, acc, res))
<1> DEFINE type == res.type
           inCase == L.case = "IN_CASE"
           other == type \notin Redirections \cup {"T_FOR", "T_C_BRKT"}
           pattern == \/ other /\ inCase /\ type \in TokenSeparators \cup {"T_CASE", "T_IN"}
                      \/ other /\ type = "T_CASE"
           v1 == IF type = "T_FOR" THEN "VAR_FOR" ELSE L.for
           v2 == IF type \in Redirections THEN "IN_REDIR" ELSE L.redir
           v3 == IF type = "T_C_BRKT" THEN GENERAL ELSE L.fun
           v4 == IF inCase /\ type = "T_C_PRTH" THEN GENERAL
                 ELSE IF pattern THEN "IN_COMMAND" ELSE L.word
           v5 == IF inCase /\ type = "T_C_PRTH" THEN "IN_CASE_COMMAND"
                 ELSE IF type = "T_CASE" THEN "IN_CASE"
                 ELSE IF type = "T_SEMICOLON" /\ LastType(L) = "T_SEMICOLON" /\ L.case = "IN_CASE_COMMAND"
                 THEN "IN_CASE" ELSE L.case
<1>0. LexKeywords(L, acc, res)
        = Lexed([L EXCEPT !.for = v1, !.redir = v2, !.fun = v3, !.word = v4, !.case = v5], res)
  BY Zenon DEF LexKeywords
<1> HIDE DEF type, inCase, other, pattern
<1>1. /\ v1 \in Values["for"] /\ v2 \in Values["redir"] /\ v3 \in Values["fun"]
      /\ v4 \in Values["word"] /\ v5 \in Values["case"]
  <2>1. /\ L["for"] \in Values["for"] /\ L["redir"] \in Values["redir"]
        /\ L["fun"] \in Values["fun"] /\ L["word"] \in Values["word"]
        /\ L["case"] \in Values["case"]
    BY AlikeSelf, TypedValues, Names
  <2> QED BY <2>1, ValueFacts, Names
<1> HIDE DEF v1, v2, v3, v4, v5
<1> DEFINE A == [L EXCEPT !.for = v1]
           B == [A EXCEPT !.redir = v2]
           C == [B EXCEPT !.fun = v3]
           D == [C EXCEPT !.word = v4]
           E == [D EXCEPT !.case = v5]
<1>2. E = [L EXCEPT !.for = v1, !.redir = v2, !.fun = v3, !.word = v4, !.case = v5]
  OBVIOUS
<1> HIDE DEF A, B, C, D, E
<1>3. Alike(L, A) /\ Typed(A)
  BY <1>1, AlikeSet, TypedValues, Names DEF A
<1>4. Alike(A, B) /\ Typed(B)
  BY <1>1, <1>3, AlikeSet, TypedValues, Names DEF B
<1>5. Alike(B, C) /\ Typed(C)
  BY <1>1, <1>4, AlikeSet, TypedValues, Names DEF C
<1>6. Alike(C, D) /\ Typed(D)
  BY <1>1, <1>5, AlikeSet, TypedValues, Names DEF D
<1>7. Alike(D, E)
  BY <1>1, <1>6, AlikeSet, Names DEF E
<1>8. Alike(L, E)
  BY <1>3, <1>4, <1>5, <1>6, <1>7, AlikeTwice
<1> QED BY <1>0, <1>2, <1>8, MadeOf

\* What lex_accumulator() makes of the text of a token.  Only the start of a
\* substitution leaves a quote or an escape to lex_sub().
Accumulated(L, R) ==
  /\ Near(L, R.L) /\ R.L.pos = L.pos /\ R.L.eval \in {GENERAL, L.eval}
  /\ R.res.type \notin SubStarts => R.L.exp = GENERAL /\ R.L.last_exp = GENERAL

LEMMA SettledAccumulated ==
  ASSUME NEW L, NEW M, Alike(L, M), NEW R, Made(M, R)
  PROVE  Accumulated(L, Settled(R))
<1>1. Typed(M)
  BY TypedValues
<1>2. /\ Alike(M, Settled(R).L) /\ Settled(R).L.exp = GENERAL
      /\ Settled(R).L.last_exp = GENERAL
  BY <1>1, SettledFacts DEF Made
<1>3. Alike(L, Settled(R).L)
  BY <1>2, AlikeTwice
<1> QED BY <1>2, <1>3 DEF Accumulated, Alike

LEMMA LexAccumulatorFacts ==
  ASSUME NEW L, Typed(L), NEW acc, NEW type, NEW space
  PROVE  LET R == LexAccumulator(L, acc, type, space)
         IN Accumulated(L, R) /\ (type = "T_EVALEXPR" => R.L.eval = GENERAL)
<1> DEFINE t == IF type \in {"T_ERROR", "T_EVALEXPR"} THEN type ELSE Tokenify(acc)
           res == Token(t, <<>>, space)
           W == [L EXCEPT !.word = GENERAL, !.var = GENERAL]
           M == IF t \in TokenSeparators THEN W ELSE L
           E == [M EXCEPT !.eval = GENERAL]
           R == LexAccumulator(L, acc, type, space)
<1>1. Alike(L, M)
  <2>1. Alike(L, L) /\ Alike(L, W)
    BY AlikeSelf, AlikeSetTwo, ValueFacts, Names
  <2> HIDE DEF W
  <2> QED BY <2>1
<1>2. \/ t = "T_EVALEXPR" /\ R = Settled(Lexed(E, [res EXCEPT !.command = acc]))
      \/ type # "T_EVALEXPR" /\ R = Settled(Lexed(M, res))
      \/ type # "T_EVALEXPR" /\ R = Settled(LexFor(M, acc, res))
      \/ /\ type # "T_EVALEXPR" /\ R = Lexed(M, [res EXCEPT !.type = SubStart(t, M.soft)])
         /\ t \in {"T_D_PAREN", "T_BACKQUOTE"}
      \/ type # "T_EVALEXPR" /\ R = Settled(LexVarname(M, acc, res))
      \/ type # "T_EVALEXPR" /\ R = Settled(LexVar(M, acc, res))
      \/ type # "T_EVALEXPR" /\ R = Settled(LexFun(M, acc, res))
      \/ type # "T_EVALEXPR" /\ R = Settled(LexIonumber(M, acc, res))
      \/ type # "T_EVALEXPR" /\ R = Settled(LexCommand(M, acc, res))
      \/ type # "T_EVALEXPR" /\ R = Settled(LexKeywords(M, acc, res))
  BY DEF LexAccumulator
<1> HIDE DEF res, M, E, R
<1>3. Typed(M)
  BY <1>1, TypedValues
<1>4. ASSUME NEW Q, Made(M, Q), R = Settled(Q), type # "T_EVALEXPR"
      PROVE  Accumulated(L, R) /\ type # "T_EVALEXPR"
  BY <1>1, <1>4, SettledAccumulated
<1>5. CASE t = "T_EVALEXPR" /\ R = Settled(Lexed(E, [res EXCEPT !.command = acc]))
  <2>1. Near(M, E) /\ E.pos = M.pos /\ E.eval = GENERAL
    BY <1>3, SetContext, ValueFacts, ContextFacts DEF E
  <2>2. Alike(E, E)
    BY <2>1, AlikeSelf DEF Near
  <2>3. Made(E, Lexed(E, [res EXCEPT !.command = acc]))
    BY <2>2, MadeOf
  <2>4. Accumulated(E, R)
    BY <1>5, <2>2, <2>3, SettledAccumulated
  <2>5. Near(L, E) /\ E.pos = L.pos
    BY <1>1, <2>1, NearTwice DEF Alike
  <2>6. Near(L, R.L)
    BY <2>4, <2>5, NearTwice DEF Accumulated
  <2> QED BY <2>1, <2>4, <2>5, <2>6 DEF Accumulated, R
<1>6. CASE type # "T_EVALEXPR" /\ R = Settled(Lexed(M, res))
  <2>1. Made(M, Lexed(M, res))
    BY <1>3, AlikeSelf, MadeOf
  <2> QED BY <1>4, <1>6, <2>1 DEF R
<1>7. CASE /\ type # "T_EVALEXPR" /\ R = Lexed(M, [res EXCEPT !.type = SubStart(t, M.soft)])
           /\ t \in {"T_D_PAREN", "T_BACKQUOTE"}
  <2>1. SubStart(t, M.soft) \in SubStarts
    BY <1>7 DEF SubStart, SubStarts, DollarStarts
  <2>2. R.L = M /\ R.res.type = SubStart(t, M.soft)
    BY <1>7 DEF Lexed, res, Token
  <2> QED BY <1>1, <1>7, <2>1, <2>2 DEF Accumulated, Alike, R
<1>8. CASE type # "T_EVALEXPR" /\ R = Settled(LexFor(M, acc, res))
  BY <1>3, <1>4, <1>8, LexForFacts DEF R
<1>9. CASE type # "T_EVALEXPR" /\ R = Settled(LexVarname(M, acc, res))
  BY <1>3, <1>4, <1>9, LexVarnameFacts DEF R
<1>10. CASE type # "T_EVALEXPR" /\ R = Settled(LexVar(M, acc, res))
  BY <1>3, <1>4, <1>10, LexVarFacts DEF R
<1>11. CASE type # "T_EVALEXPR" /\ R = Settled(LexFun(M, acc, res))
  BY <1>3, <1>4, <1>11, LexFunFacts DEF R
<1>12. CASE type # "T_EVALEXPR" /\ R = Settled(LexIonumber(M, acc, res))
  <2>1. Made(M, LexIonumber(M, acc, res))
    BY <1>3, AlikeSelf, MadeOf DEF LexIonumber
  <2> QED BY <1>4, <1>12, <2>1 DEF R
<1>13. CASE type # "T_EVALEXPR" /\ R = Settled(LexCommand(M, acc, res))
  BY <1>3, <1>4, <1>13, LexCommandFacts DEF R
<1>14. CASE type # "T_EVALEXPR" /\ R = Settled(LexKeywords(M, acc, res))
  BY <1>3, <1>4, <1>14, LexKeywordsFacts DEF R
<1> QED BY <1>2, <1>5, <1>6, <1>7, <1>8, <1>9, <1>10, <1>11, <1>12, <1>13, <1>14, Zenon

\* An arithmetic expansion is open at the end of the text only.
EvalAtEnd(L) == L.eval = GENERAL \/ L.pos >= Len(L.script)
NotHalfRead(L) == L.exp = GENERAL /\ L.last_exp = GENERAL

\* What tokenify_next() does to the lexer.
Cut(L, N) ==
  /\ Near(L, N.L) /\ N.L.pos \in Nat
  /\ L.pos <= Len(L.script) => N.L.pos <= Len(L.script)
  /\ L.pos <= Len(L.script) + 1 => N.L.pos <= Len(L.script) + 1
  /\ EvalAtEnd(L) => EvalAtEnd(N.L)
  /\ NotHalfRead(L) /\ N.res.type \notin SubStarts => NotHalfRead(N.L)

LEMMA TokenFacts ==
  ASSUME NEW L, Typed(L), L.pos \in Nat
  PROVE  Cut(L, TokenifyNext(L))
<1> DEFINE M == IF SkipsBlanks(L) THEN SkipBlanks(L) ELSE L
           A == Accumulate(M)
           B == IF SkipsBlanks(A.L) THEN SkipBlanks(A.L) ELSE A.L
           S == [M EXCEPT !.soft = GENERAL]
           space == A.L.soft = GENERAL /\ SpaceAt(A.L)
           N == TokenifyNext(L)
<1>1. \/ AtEnd(M) /\ N = Lexed(S, Token(EndType(M), <<>>, FALSE))
      \/ ~AtEnd(M) /\ N = LexAccumulator(B, A.acc, A.type, space)
  BY DEF TokenifyNext, TokenRead
<1>2. ASSUME NEW K, Typed(K), K.pos \in Nat, NEW J, J = IF SkipsBlanks(K) THEN SkipBlanks(K) ELSE K
      PROVE  /\ Near(K, J) /\ J.pos \in Nat /\ K.pos <= J.pos
             /\ \A c \in Contexts : J[c] = K[c]
             /\ K.pos <= Len(K.script) => J.pos <= Len(K.script)
             /\ K.pos >= Len(K.script) => J.pos = K.pos
  <2>1. Near(K, K)
    BY <1>2 DEF Near
  <2> QED BY <1>2, <2>1, SkipBlanksFacts
<1>3. /\ Near(L, M) /\ M.pos \in Nat /\ L.pos <= M.pos
      /\ \A c \in Contexts : M[c] = L[c]
      /\ L.pos <= Len(L.script) => M.pos <= Len(L.script)
      /\ L.pos >= Len(L.script) => M.pos = L.pos
  BY <1>2
<1> HIDE DEF M, A, B, S, space, N
<1>4. Typed(M) /\ M.script = L.script /\ Len(L.script) \in Nat
  BY <1>3 DEF Near, Typed
<1>5. M.eval = L.eval /\ M.exp = L.exp /\ M.last_exp = L.last_exp
  <2>1. "eval" \in Contexts /\ "exp" \in Contexts /\ "last_exp" \in Contexts
    BY ContextFacts
  <2>2. M["eval"] = L["eval"] /\ M["exp"] = L["exp"] /\ M["last_exp"] = L["last_exp"]
    BY <1>3, <2>1
  <2> QED BY <2>2
<1>6. CASE AtEnd(M) /\ N = Lexed(S, Token(EndType(M), <<>>, FALSE))
  <2>1. /\ Near(M, S) /\ S.pos = M.pos /\ S.eval = M.eval
        /\ S.exp = M.exp /\ S.last_exp = M.last_exp
    <3>1. /\ Near(M, S) /\ S.pos = M.pos /\ S.eval = M.eval
          /\ \A d \in Contexts : S[d] = IF d = "soft" THEN GENERAL ELSE M[d]
      BY <1>4, SetContext, ValueFacts, ContextFacts DEF S
    <3>2. S["exp"] = M["exp"] /\ S["last_exp"] = M["last_exp"]
      BY <3>1, ContextFacts
    <3> QED BY <3>1, <3>2
  <2>2. N.L = S
    BY <1>6 DEF Lexed
  <2>3. M.pos >= Len(L.script)
    BY <1>4, <1>6 DEF AtEnd
  <2>4. Near(L, S)
    BY <1>3, <2>1, NearTwice
  <2>5. S.pos \in Nat /\ (L.pos <= Len(L.script) + 1 => S.pos <= Len(L.script) + 1)
    BY <1>3, <1>4, <2>1
  <2>6. EvalAtEnd(S) /\ (NotHalfRead(L) => NotHalfRead(S))
    BY <1>4, <1>5, <2>1, <2>3, <2>4 DEF EvalAtEnd, NotHalfRead, Near
  <2> QED BY <1>3, <2>1, <2>2, <2>4, <2>5, <2>6 DEF Cut, N
<1>7. CASE ~AtEnd(M) /\ N = LexAccumulator(B, A.acc, A.type, space)
  <2>1. M.pos \in 0 .. Len(M.script)
    BY <1>3, <1>4, <1>7 DEF AtEnd
  <2>2. InTurn(M, A)
    BY <1>4, <2>1, AccumulateFacts DEF A
  <2>3. Near(M, A.L) /\ Typed(A.L) /\ A.L.script = L.script /\ A.L.pos \in 0 .. Len(L.script)
    BY <1>4, <2>2 DEF InTurn, Near
  <2>4. /\ Near(A.L, B) /\ B.pos \in Nat /\ A.L.pos <= B.pos /\ B.pos <= Len(L.script)
        /\ B["eval"] = A.L["eval"] /\ Typed(B)
    <3>1. "eval" \in Contexts /\ A.L.pos \in Nat /\ A.L.pos <= Len(A.L.script)
      BY <1>4, <2>3, ContextFacts
    <3> QED BY <1>2, <2>3, <3>1 DEF B, Near
  <2>5. Accumulated(B, N) /\ (A.type = "T_EVALEXPR" => N.L.eval = GENERAL)
    BY <1>7, <2>4, LexAccumulatorFacts
  <2>6. Near(L, N.L) /\ N.L.pos = B.pos
    BY <1>3, <2>3, <2>4, <2>5, NearTwice DEF Accumulated
  <2>7. ASSUME EvalAtEnd(L) PROVE EvalAtEnd(N.L)
    <3>1. M.eval = GENERAL
      BY <1>3, <1>4, <1>5, <1>7, <2>7 DEF EvalAtEnd, AtEnd
    <3>2. A.L.eval = GENERAL \/ A.type = "T_EVALEXPR" \/ A.L.pos >= Len(L.script)
      BY <1>4, <2>2, <3>1 DEF InTurn
    <3>3. N.L.eval = GENERAL \/ N.L.pos >= Len(L.script)
      BY <1>4, <2>3, <2>4, <2>5, <2>6, <3>2 DEF Accumulated
    <3> QED BY <2>6, <3>3 DEF EvalAtEnd, Near
  <2>8. N.res.type \notin SubStarts => NotHalfRead(N.L)
    BY <2>5 DEF Accumulated, NotHalfRead
  <2>9. N.L.pos \in Nat /\ N.L.pos <= Len(L.script) /\ N.L.pos <= Len(L.script) + 1
    BY <1>4, <2>4, <2>6
  <2> QED BY <2>6, <2>7, <2>8, <2>9 DEF Cut, N
<1> QED BY <1>1, <1>6, <1>7

-----------------------------------------------------------------------------
(***************************************************************************)
(* Whole lexers                                                            *)
(***************************************************************************)
LEMMA NewLexerFacts ==
  /\ Typed(NewLexer) /\ NotHalfRead(NewLexer) /\ NewLexer.eval = GENERAL
  /\ \A c \in Contexts : NewLexer[c] = GENERAL
  /\ NewLexer.script = <<>> /\ NewLexer.token_list = <<>>
  /\ NewLexer.pos = 0 /\ NewLexer.array_pos = 0
<1>1. DOMAIN NewLexer = Fields
  BY DEF NewLexer, Fields
<1>2. \A c \in Contexts : NewLexer[c] = GENERAL
  BY DEF NewLexer
<1>3. /\ NewLexer.script = <<>> /\ NewLexer.token_list = <<>>
      /\ NewLexer.pos = 0 /\ NewLexer.array_pos = 0
  BY ContextFacts DEF NewLexer
<1>4. IsSequence(<<>>)
  <2>1. <<>> \in Seq({})
    OBVIOUS
  <2> QED BY <2>1 DEF IsSequence
<1>5. Typed(NewLexer)
  BY <1>1, <1>2, <1>3, <1>4, ValueFacts DEF Typed
<1>6. NewLexer.eval = GENERAL /\ NewLexer.exp = GENERAL /\ NewLexer.last_exp = GENERAL
  <2>1. NewLexer["eval"] = GENERAL /\ NewLexer["exp"] = GENERAL /\ NewLexer["last_exp"] = GENERAL
    BY <1>2, ContextFacts
  <2> QED BY <2>1
<1> QED BY <1>2, <1>3, <1>5, <1>6 DEF NotHalfRead

\* What revert_context() and revert_lexer() do to contexts.
LEMMA RevertedFacts ==
  ASSUME NEW L, Typed(L), NEW set, set \subseteq Contexts, NEW other,
         \A c \in set : other[c] \in Values[c], NEW M, M = Reverted(L, set, other)
  PROVE  /\ Near(L, M) /\ M.pos = L.pos
         /\ \A c \in Contexts : M[c] = IF c \in set THEN other[c] ELSE L[c]
<1>1. \A f \in Fields : M[f] = IF f \in set THEN other[f] ELSE L[f]
  BY DEF Reverted, Typed
<1>2. DOMAIN M = Fields
  BY DEF Reverted, Typed
<1>3. /\ {"script", "pos", "token_list", "array_pos"} \subseteq Fields
      /\ \A f \in {"script", "pos", "token_list", "array_pos"} : f \notin set
  BY ContextFacts DEF Fields
<1>4. M.script = L.script /\ M.pos = L.pos /\ M.token_list = L.token_list /\ M.array_pos = L.array_pos
  BY <1>1, <1>3
<1>5. \A c \in Contexts : M[c] = IF c \in set THEN other[c] ELSE L[c]
  BY <1>1 DEF Fields
<1>6. Typed(M)
  BY <1>2, <1>4, <1>5 DEF Typed
<1> QED BY <1>4, <1>5, <1>6 DEF Near

LEMMA SetFacts == /\ SubSaved \subseteq Contexts /\ Saved \subseteq Contexts
                  /\ "eval" \notin SubSaved /\ "eval" \notin Saved
                  /\ "exp" \in SubSaved /\ "last_exp" \in SubSaved
                  /\ "exp" \in Saved /\ "last_exp" \in Saved
BY DEF Contexts, SubSaved, Saved

\* Contexts that start anew.
LEMMA NewContextsFacts ==
  ASSUME NEW L, Typed(L), NEW set \in {Saved, SubSaved}, NEW M, M = NewContexts(L, set)
  PROVE  Near(L, M) /\ M.pos = L.pos /\ M.eval = L.eval /\ NotHalfRead(M)
<1>1. set \subseteq Contexts /\ "eval" \notin set /\ "exp" \in set /\ "last_exp" \in set
  BY SetFacts
<1>2. \A c \in set : NewLexer[c] \in Values[c]
  BY <1>1, NewLexerFacts, ValueFacts
<1>3. /\ Near(L, M) /\ M.pos = L.pos
      /\ \A c \in Contexts : M[c] = IF c \in set THEN NewLexer[c] ELSE L[c]
  BY <1>1, <1>2, RevertedFacts DEF NewContexts
<1>4. M["eval"] = L["eval"] /\ M["exp"] = GENERAL /\ M["last_exp"] = GENERAL
  BY <1>1, <1>3, NewLexerFacts, ContextFacts
<1> QED BY <1>3, <1>4 DEF NotHalfRead

\* M differs from L in its lists only.
AlikeContexts(L, M) ==
  /\ Typed(M) /\ M.pos = L.pos /\ M.eval = L.eval /\ \A c \in Contexts : M[c] = L[c]

Others == {"script", "token_list", "array_pos"}
With(L, f, v, M) == M = [L EXCEPT ![f] = v]
Fits(f, v) == /\ f = "script" => Len(v) \in Nat
              /\ f = "token_list" => IsSequence(v)

LEMMA WithFacts ==
  ASSUME NEW L, NEW v
  PROVE  /\ With(L, "token_list", v, [L EXCEPT !.token_list = v])
         /\ With(L, "array_pos", v, [L EXCEPT !.array_pos = v])
         /\ With(L, "script", v, [L EXCEPT !.script = v])
BY DEF With

LEMMA SetField ==
  ASSUME NEW L, Typed(L), NEW f \in Others, NEW v,
         Fits(f, v),
         NEW M, With(L, f, v, M)
  PROVE  /\ AlikeContexts(L, M)
         /\ \A g \in Others : M[g] = IF g = f THEN v ELSE L[g]
<1>1. \A g \in Fields : M[g] = IF g = f THEN v ELSE L[g]
  BY DEF With, Typed, Fields, Others
<1>2. DOMAIN M = Fields
  BY DEF With, Typed
<1>3. "pos" \in Fields /\ Contexts \subseteq Fields /\ f \notin Contexts /\ f # "pos"
  BY ContextFacts DEF Fields, Others
<1>4. M.pos = L.pos /\ \A c \in Contexts : M[c] = L[c]
  BY <1>1, <1>3
<1>5. \A g \in Others : M[g] = IF g = f THEN v ELSE L[g]
  BY <1>1 DEF Fields, Others
<1>6. Len(M.script) \in Nat /\ IsSequence(M.token_list)
  <2>1. Len(L["script"]) \in Nat /\ IsSequence(L["token_list"])
    BY DEF Typed
  <2>2. Len(M["script"]) \in Nat /\ IsSequence(M["token_list"])
    BY <1>5, <2>1 DEF Others, Fits
  <2> QED BY <2>2
<1>7. Typed(M)
  BY <1>2, <1>4, <1>6 DEF Typed
<1>8. M["eval"] = L["eval"]
  BY <1>4, ContextFacts
<1> QED BY <1>4, <1>5, <1>7, <1>8 DEF AlikeContexts

LEMMA AppendFacts ==
  ASSUME NEW s, IsSequence(s), NEW x
  PROVE  /\ IsSequence(Append(s, x)) /\ Len(s) \in Nat /\ Len(Append(s, x)) = Len(s) + 1
         /\ \A i \in 1 .. Len(s) : Append(s, x)[i] = s[i]
         /\ Append(s, x)[Len(s) + 1] = x
<1>1. PICK S : s \in Seq(S)
  BY DEF IsSequence
<1>2. s \in Seq(S \cup {x})
  BY <1>1
<1>3. Append(s, x) \in Seq(S \cup {x})
  BY <1>2
<1> QED BY <1>2, <1>3 DEF IsSequence

LEMMA FrontFacts ==
  ASSUME NEW s, IsSequence(s), s # <<>>
  PROVE  /\ IsSequence(Front(s)) /\ Len(s) \in Nat /\ Len(s) >= 1
         /\ Len(Front(s)) = Len(s) - 1 /\ \A i \in 1 .. Len(s) - 1 : Front(s)[i] = s[i]
         /\ Last(s) = s[Len(s)]
<1>1. PICK S : s \in Seq(S)
  BY DEF IsSequence
<1>2. Len(s) \in Nat /\ Len(s) >= 1
  BY <1>1
<1>3. Front(s) = SubSeq(s, 1, Len(s) - 1)
  BY DEF Front
<1> PICK l \in Nat : l = Len(s) - 1
  BY <1>2
<1>4. Front(s) \in Seq(S) /\ Len(Front(s)) = Len(s) - 1
  BY <1>1, <1>2, <1>3
<1>5. \A i \in 1 .. Len(s) - 1 : Front(s)[i] = s[i]
  BY <1>1, <1>2, <1>3
<1> QED BY <1>2, <1>4, <1>5 DEF IsSequence, Last

LEMMA AddFacts ==
  ASSUME NEW L, Typed(L), NEW res, NEW M, M = Add(L, res)
  PROVE  /\ AlikeContexts(L, M) /\ M.script = L.script /\ M.array_pos = L.array_pos
         /\ Len(L.token_list) \in Nat /\ Len(M.token_list) = Len(L.token_list) + 1
         /\ NotHalfRead(L) => NotHalfRead(M)
<1>1. /\ IsSequence(Append(L.token_list, res)) /\ Len(L.token_list) \in Nat
      /\ Len(Append(L.token_list, res)) = Len(L.token_list) + 1
  BY AppendFacts DEF Typed
<1>2. M = [L EXCEPT !["token_list"] = Append(L.token_list, res)]
  BY DEF Add
<1>3. /\ AlikeContexts(L, M)
      /\ \A g \in Others : M[g] = IF g = "token_list" THEN Append(L.token_list, res) ELSE L[g]
  <2> DEFINE f == "token_list"
             v == Append(L.token_list, res)
  <2>1. Fits(f, v) /\ With(L, f, v, M) /\ f \in Others
    BY <1>1, <1>2 DEF Others, Fits, With
  <2> HIDE DEF v, f
  <2>2. /\ AlikeContexts(L, M)
        /\ \A g \in Others : M[g] = IF g = f THEN v ELSE L[g]
    BY <2>1, SetField
  <2> QED BY <2>2 DEF v, f
<1>4. /\ M["script"] = L["script"] /\ M["array_pos"] = L["array_pos"]
      /\ M["token_list"] = Append(L.token_list, res)
  BY <1>3 DEF Others
<1>5. M["exp"] = L["exp"] /\ M["last_exp"] = L["last_exp"]
  BY <1>3, ContextFacts DEF AlikeContexts
<1> QED BY <1>1, <1>3, <1>4, <1>5 DEF NotHalfRead

\* find_end_sub() finds nothing, or a character of the script.
LEMMA FindEndSubFacts ==
  ASSUME NEW L, Len(L.script) \in Nat, L.pos \in Nat, NEW start
  PROVE  FindEndSub(L, start) = -1 \/ FindEndSub(L, start) \in 0 .. Len(L.script) - 1
<1> DEFINE ends == {i \in L.pos .. Len(L.script) - 1 :
                     IF start \in DollarStarts THEN Parentheses(L, L.pos, i + 1) = 0
                     ELSE Char(L, i) = BACKQUOTE}
           first == CHOOSE i \in ends : \A j \in ends : i <= j
<1>1. FindEndSub(L, start) = IF ends = {} THEN -1 ELSE first
  BY DEF FindEndSub
<1>2. ends \subseteq L.pos .. Len(L.script) - 1
  OBVIOUS
<1> HIDE DEF ends
<1>3. ends \subseteq Nat /\ ends \subseteq 0 .. Len(L.script) - 1
  BY <1>2
<1>4. ASSUME ends # {} PROVE first \in ends
  <2>1. \E i \in ends : \A j \in ends : i <= j
    BY <1>3, <1>4, Smallest
  <2> QED BY <2>1
<1> HIDE DEF first
<1> QED BY <1>1, <1>3, <1>4

\* What save_lexer() and lexer_reset() leave of a lexer.
LEMMA FreshFacts ==
  ASSUME NEW L, Typed(L), NEW M, M = Fresh(L)
  PROVE  /\ Typed(M) /\ NotHalfRead(M) /\ M.eval = L.eval /\ M.pos = 0
         /\ M.script = <<>> /\ M.token_list = <<>> /\ M.array_pos = 0
<1> DEFINE A == NewContexts(L, Saved)
           B == [A EXCEPT !.pos = 0]
           C == [B EXCEPT !.token_list = <<>>]
           D == [C EXCEPT !.array_pos = 0]
           E == [D EXCEPT !.script = <<>>]
<1>1. M = E
  BY DEF Fresh
<1>2. /\ With(B, "token_list", <<>>, C) /\ With(C, "array_pos", 0, D)
      /\ With(D, "script", <<>>, E)
  <2> HIDE DEF B
  <2>1. With(B, "token_list", <<>>, C)
    BY WithFacts
  <2> HIDE DEF C
  <2>2. With(C, "array_pos", 0, D)
    BY WithFacts
  <2> HIDE DEF D
  <2>3. With(D, "script", <<>>, E)
    BY WithFacts
  <2> QED BY <2>1, <2>2, <2>3
<1>3. Near(L, A) /\ A.eval = L.eval /\ NotHalfRead(A)
  BY NewContextsFacts
<1>4. Near(A, B) /\ B.pos = 0 /\ B.eval = A.eval /\ \A c \in Contexts : B[c] = A[c]
  BY <1>3, SetPos DEF Near
<1> HIDE DEF A, B, C, D, E
<1>5. /\ Fits("token_list", <<>>) /\ Fits("array_pos", 0) /\ Fits("script", <<>>)
      /\ "token_list" \in Others /\ "array_pos" \in Others /\ "script" \in Others
  <2>1. IsSequence(<<>>)
    BY NewLexerFacts DEF Typed
  <2> QED BY <2>1 DEF Fits, Others
<1>6. /\ AlikeContexts(B, C)
      /\ \A g \in Others : C[g] = IF g = "token_list" THEN <<>> ELSE B[g]
  BY <1>2, <1>4, <1>5, SetField DEF Near
<1>7. /\ AlikeContexts(C, D)
      /\ \A g \in Others : D[g] = IF g = "array_pos" THEN 0 ELSE C[g]
  BY <1>2, <1>5, <1>6, SetField DEF AlikeContexts
<1>8. /\ AlikeContexts(D, E)
      /\ \A g \in Others : E[g] = IF g = "script" THEN <<>> ELSE D[g]
  BY <1>2, <1>5, <1>7, SetField DEF AlikeContexts
<1>9. E["script"] = <<>> /\ E["token_list"] = <<>> /\ E["array_pos"] = 0
  BY <1>6, <1>7, <1>8 DEF Others
<1>10. Typed(E) /\ E.pos = 0 /\ E.eval = L.eval
  BY <1>3, <1>4, <1>6, <1>7, <1>8 DEF AlikeContexts
<1>11. E["exp"] = A["exp"] /\ E["last_exp"] = A["last_exp"]
  BY <1>4, <1>6, <1>7, <1>8, ContextFacts DEF AlikeContexts
<1> QED BY <1>1, <1>3, <1>9, <1>10, <1>11 DEF NotHalfRead

LEMMA CharsFacts ==
  ASSUME NEW text, Len(text) \in Nat
  PROVE  Len(Chars(text)) = Len(text)
<1> DEFINE S == {SubSeq(text, i, i) : i \in 1 .. Len(text)}
<1>1. Chars(text) \in [1 .. Len(text) -> S]
  BY DEF Chars
<1> HIDE DEF S
<1>2. Chars(text) \in Seq(S) /\ DOMAIN Chars(text) = 1 .. Len(text)
  BY <1>1
<1>3. Len(Chars(text)) \in Nat /\ DOMAIN Chars(text) = 1 .. Len(Chars(text))
  BY <1>2, LenProperties
<1> QED BY <1>2, <1>3

LEMMA BeginFacts ==
  ASSUME NEW L, Typed(L), NEW text, Len(text) \in Nat, NEW M, M = Begin(L, text)
  PROVE  /\ AlikeContexts(L, M) /\ (NotHalfRead(L) => NotHalfRead(M))
         /\ Len(M.script) = Len(text)
         /\ M.token_list = L.token_list /\ M.array_pos = L.array_pos
<1> DEFINE f == "script"
           v == Chars(text)
<1>1. Fits(f, v) /\ With(L, f, v, M) /\ f \in Others
  BY CharsFacts DEF Fits, With, Others, Begin
<1> HIDE DEF f, v
<1>2. AlikeContexts(L, M) /\ \A g \in Others : M[g] = IF g = f THEN v ELSE L[g]
  BY <1>1, SetField
<1>3. M["script"] = Chars(text) /\ M["token_list"] = L["token_list"] /\ M["array_pos"] = L["array_pos"]
  BY <1>2 DEF Others, f, v
<1>4. M["exp"] = L["exp"] /\ M["last_exp"] = L["last_exp"]
  BY <1>2, ContextFacts DEF AlikeContexts
<1> QED BY <1>2, <1>3, <1>4, CharsFacts DEF NotHalfRead

-----------------------------------------------------------------------------
(***************************************************************************)
(* One step of lexer_start()                                               *)
(***************************************************************************)
\* M is L after some tokens more, perhaps none.
Grown(L, M) ==
  /\ Typed(M) /\ M.pos \in Nat /\ M.script = L.script /\ M.array_pos = L.array_pos
  /\ Len(L.token_list) \in Nat /\ Len(M.token_list) \in Nat
  /\ Len(L.token_list) <= Len(M.token_list)
  /\ EvalAtEnd(L) => EvalAtEnd(M)

LEMMA GrownTwice ==
  ASSUME NEW L, NEW M, NEW N, Grown(L, M), Grown(M, N)
  PROVE  Grown(L, N)
BY DEF Grown

LEMMA GrownNear ==
  ASSUME NEW L, Typed(L), NEW M, Near(L, M), M.pos \in Nat, EvalAtEnd(L) => EvalAtEnd(M)
  PROVE  Grown(L, M)
<1>1. Len(L.token_list) \in Nat
  BY AppendFacts DEF Typed
<1> QED BY <1>1 DEF Near, Grown

\* The context of the arithmetic expansion stays, and the cursor does not go back.
LEMMA GrownOnwards ==
  ASSUME NEW L, Typed(L), NEW M, Near(L, M), L.pos \in Nat, M.pos \in Nat, L.pos <= M.pos, M.eval = L.eval
  PROVE  Grown(L, M)
<1>1. EvalAtEnd(L) => EvalAtEnd(M)
  BY DEF EvalAtEnd, Near, Typed
<1> QED BY <1>1, GrownNear

LEMMA GrownAdd ==
  ASSUME NEW L, Typed(L), L.pos \in Nat, NEW res, NEW M, M = Add(L, res)
  PROVE  Grown(L, M) /\ M.pos = L.pos /\ (NotHalfRead(L) => NotHalfRead(M))
<1>1. /\ AlikeContexts(L, M) /\ M.script = L.script /\ M.array_pos = L.array_pos
      /\ Len(L.token_list) \in Nat /\ Len(M.token_list) = Len(L.token_list) + 1
      /\ NotHalfRead(L) => NotHalfRead(M)
  BY AddFacts
<1> QED BY <1>1 DEF Grown, AlikeContexts, EvalAtEnd

LEMMA GrownToken ==
  ASSUME NEW L, Typed(L), L.pos \in Nat
  PROVE  Grown(L, TokenifyNext(L).L)
<1>1. Cut(L, TokenifyNext(L))
  BY TokenFacts
<1> QED BY <1>1, GrownNear DEF Cut

\* A lexer between two tokens.
Ready(L) == Typed(L) /\ L.pos \in Nat /\ NotHalfRead(L)

LEMMA SettledReady ==
  ASSUME NEW L, Typed(L), L.pos \in Nat, NEW res, NEW M, M = Settled(Lexed(L, res)).L
  PROVE  Near(L, M) /\ Grown(L, M) /\ M.pos = L.pos /\ NotHalfRead(M)
<1> DEFINE R == Lexed(L, res)
<1>1. Made(L, R)
  BY AlikeSelf, MadeOf
<1> HIDE DEF R
<1>2. /\ Made(L, Settled(R))
      /\ Settled(R).L.exp = GENERAL /\ Settled(R).L.last_exp = GENERAL
  BY <1>1, SettledFacts
<1>3. Alike(L, M) /\ NotHalfRead(M)
  BY <1>2 DEF R, Made, NotHalfRead
<1> QED BY <1>3, GrownOnwards DEF Alike

\* The script does not end before the cursor.
Within(L) == L.pos <= Len(L.script) + 1

LEMMA TokenAdded ==
  ASSUME NEW L, Ready(L), NEW N, N = TokenifyNext(L), N.res.type \notin SubStarts,
         NEW M, M = Add(N.L, N.res)
  PROVE  Ready(M) /\ Grown(L, M) /\ (Within(L) => Within(M))
<1>1. Typed(L) /\ L.pos \in Nat /\ NotHalfRead(L)
  BY DEF Ready
<1>2. Cut(L, N) /\ Grown(L, N.L)
  BY <1>1, TokenFacts, GrownToken
<1>3. Typed(N.L) /\ N.L.pos \in Nat /\ NotHalfRead(N.L) /\ N.L.script = L.script
      /\ (Within(L) => Within(N.L))
  BY <1>1, <1>2 DEF Cut, Near, Within
<1>4. Grown(N.L, M) /\ M.pos = N.L.pos /\ NotHalfRead(M)
  BY <1>3, GrownAdd
<1> QED BY <1>2, <1>3, <1>4, GrownTwice DEF Ready, Within, Grown

LEMMA SubOpened ==
  ASSUME NEW L, Ready(L), NEW N, N = TokenifyNext(L),
         NEW M, M = NewContexts(Add(N.L, N.res), SubSaved)
  PROVE  /\ Ready(M) /\ Grown(L, M) /\ (Within(L) => Within(M))
         /\ \A c \in SubSaved : N.L[c] \in Values[c]
<1>1. Typed(L) /\ L.pos \in Nat
  BY DEF Ready
<1>2. Cut(L, N) /\ Grown(L, N.L)
  BY <1>1, TokenFacts, GrownToken
<1>3. Typed(N.L) /\ N.L.pos \in Nat /\ (Within(L) => Within(N.L)) /\ N.L.script = L.script
  BY <1>1, <1>2 DEF Cut, Near, Within
<1>4. \A c \in SubSaved : N.L[c] \in Values[c]
  BY <1>3, SetFacts DEF Typed
<1> DEFINE K == Add(N.L, N.res)
<1>5. Grown(N.L, K) /\ K.pos = N.L.pos
  BY <1>3, GrownAdd
<1> HIDE DEF K
<1>6. Typed(K) /\ K.pos \in Nat /\ K.script = L.script
  BY <1>3, <1>5 DEF Grown
<1>7. M = NewContexts(K, SubSaved)
  BY DEF K
<1>8. Near(K, M) /\ M.pos = K.pos /\ M.eval = K.eval /\ NotHalfRead(M)
  BY <1>6, <1>7, NewContextsFacts
<1>9. Grown(K, M)
  BY <1>6, <1>8, GrownOnwards
<1> QED BY <1>2, <1>3, <1>4, <1>5, <1>6, <1>8, <1>9, GrownTwice DEF Ready, Within, Grown

\* A token that stands for an error ends the substitution that has no end.
LEMMA ErrorAdded ==
  ASSUME NEW L, Ready(L), NEW res, NEW M, M = Add(Settled(Lexed(L, res)).L, res)
  PROVE  Ready(M) /\ Grown(L, M) /\ (Within(L) => Within(M))
<1> DEFINE S == Settled(Lexed(L, res)).L
<1>1. Near(L, S) /\ Grown(L, S) /\ S.pos = L.pos /\ NotHalfRead(S)
  BY SettledReady DEF Ready
<1> HIDE DEF S
<1>2. Typed(S) /\ S.pos \in Nat /\ M = Add(S, res)
  BY <1>1 DEF Grown, S
<1>3. Grown(S, M) /\ M.pos = S.pos /\ NotHalfRead(M)
  BY <1>1, <1>2, GrownAdd
<1> QED BY <1>1, <1>3, GrownTwice DEF Ready, Within, Grown

LEMMA QuoteReadFacts ==
  ASSUME NEW B, Typed(B), B.pos \in Nat, NEW L, L = QuoteRead(B)
  PROVE  /\ Near(B, L) /\ L.eval = B.eval
         /\ L.pos = B.pos \/ (L.pos = B.pos + 1 /\ B.pos < Len(B.script))
<1> DEFINE D == [B EXCEPT !.last_soft = "IN_DQUOTE", !.soft = Toggled(B.soft, "IN_DQUOTE")]
           k == D.pos + 1
           E == [D EXCEPT !.pos = k]
           EE == [B EXCEPT !.last_soft = "IN_DQUOTE", !.soft = Toggled(@, "IN_DQUOTE"), !.pos = @ + 1]
<1>1. (L = EE /\ Char(B, B.pos) # NUL) \/ L = B
  BY Zenon DEF QuoteRead, NUL
<1>2. EE = E
  <2>1. "pos" # "soft" /\ "pos" # "last_soft"
    OBVIOUS
  <2> QED BY <2>1
<1>3. Alike(B, D)
  <2>1. "IN_DQUOTE" \in Values["last_soft"] /\ Toggled(B.soft, "IN_DQUOTE") \in Values["soft"]
    BY ValueFacts, Names DEF Toggled
  <2> QED BY <2>1, AlikeSetTwo, Names
<1> HIDE DEF D, EE
<1>4. k \in Nat /\ Typed(D) /\ k = B.pos + 1
  BY <1>3 DEF Alike, Near
<1>5. Near(D, E) /\ E.pos = k /\ E.eval = D.eval
  BY <1>4, SetPos
<1> HIDE DEF E, k
<1>6. Near(B, B) /\ Near(B, E) /\ E.eval = B.eval
  BY <1>3, <1>5, NearTwice DEF Alike, Near
<1>7. Char(B, B.pos) # NUL => B.pos < Len(B.script)
  BY CharFacts DEF Typed
<1> QED BY <1>1, <1>2, <1>4, <1>5, <1>6, <1>7

\* What lex_sub() does to the lexer when it is back from lexer_start().
LEMMA SubClosed ==
  ASSUME NEW inner, Typed(inner), inner.pos \in Nat,
         NEW copy, \A c \in SubSaved : copy[c] \in Values[c],
         NEW L, L = QuoteRead([Reverted(inner, SubSaved, copy) EXCEPT !.pos = @ + 1]),
         NEW res, NEW M, M = Add(Settled(Lexed(IF L.soft = GENERAL THEN SkipBlanks(L) ELSE L, res)).L, res)
  PROVE  Ready(M) /\ Grown(inner, M) /\ (inner.pos <= Len(inner.script) => Within(M))
<1> DEFINE R == Reverted(inner, SubSaved, copy)
           n == R.pos + 1
           B == [R EXCEPT !.pos = n]
           K == IF L.soft = GENERAL THEN SkipBlanks(L) ELSE L
           S == Settled(Lexed(K, res)).L
<1>1. Near(inner, R) /\ R.pos = inner.pos /\ R.eval = inner.eval
  <2>1. /\ Near(inner, R) /\ R.pos = inner.pos
        /\ \A c \in Contexts : R[c] = IF c \in SubSaved THEN copy[c] ELSE inner[c]
    BY SetFacts, RevertedFacts
  <2>2. R["eval"] = inner["eval"]
    BY <2>1, SetFacts, ContextFacts
  <2> QED BY <2>1, <2>2
<1>2. L = QuoteRead(B)
  OBVIOUS
<1> HIDE DEF R
<1>3. n \in Nat /\ Typed(R)
  BY <1>1 DEF Near
<1>4. Near(R, B) /\ B.pos = inner.pos + 1 /\ B.eval = R.eval
  BY <1>1, <1>3, SetPos
<1> HIDE DEF B, n
<1>5. Near(inner, B) /\ Typed(B) /\ B.pos \in Nat /\ B.script = inner.script
  BY <1>1, <1>4, NearTwice DEF Near
<1>6. /\ Near(B, L) /\ L.eval = B.eval
      /\ L.pos = B.pos \/ (L.pos = B.pos + 1 /\ B.pos < Len(B.script))
  BY <1>2, <1>5, QuoteReadFacts
<1>7. Near(inner, L) /\ L.eval = inner.eval /\ Typed(L) /\ L.script = inner.script
  BY <1>1, <1>4, <1>5, <1>6, NearTwice DEF Near
<1>8. Len(L.script) \in Nat
  BY <1>7 DEF Typed
<1>9. /\ L.pos \in Nat /\ inner.pos <= L.pos
      /\ inner.pos <= Len(inner.script) => Within(L)
  <2>1. PICK p \in Nat : p = inner.pos
    OBVIOUS
  <2>2. PICK l \in Nat : l = Len(inner.script)
    BY <1>7, <1>8
  <2>3. Len(L.script) = l /\ Len(B.script) = l
    BY <1>5, <1>7, <2>2
  <2>4. L.pos = p + 1 \/ (L.pos = p + 2 /\ p + 1 < l)
    BY <1>4, <1>6, <2>1, <2>3
  <2> QED BY <2>1, <2>2, <2>3, <2>4 DEF Within
<1>10. /\ Near(L, K) /\ K.eval = L.eval /\ K.pos \in Nat /\ L.pos <= K.pos
       /\ Within(L) => Within(K)
  <2>1. CASE L.soft = GENERAL
    <3>1. K = SkipBlanks(L)
      BY <2>1
    <3>2. /\ Near(L, K) /\ K.pos \in Nat /\ \A c \in Contexts : K[c] = L[c]
          /\ L.pos <= K.pos
          /\ L.pos <= Len(L.script) => K.pos <= Len(L.script)
          /\ L.pos >= Len(L.script) => K.pos = L.pos
      BY <1>7, <1>8, <1>9, <3>1, SkipBlanksFacts
    <3>3. K["eval"] = L["eval"] /\ K.script = L.script
      BY <3>2, ContextFacts DEF Near
    <3> QED BY <1>7, <1>8, <1>9, <3>2, <3>3 DEF Within
  <2>2. CASE L.soft # GENERAL
    <3>1. K = L
      BY <2>2
    <3> QED BY <1>7, <1>8, <1>9, <3>1 DEF Near
  <2> QED BY <2>1, <2>2
<1> HIDE DEF K
<1>11. Typed(K) /\ Grown(inner, L) /\ Grown(L, K)
  BY <1>7, <1>8, <1>9, <1>10, GrownOnwards DEF Near
<1>12. Near(K, S) /\ Grown(K, S) /\ S.pos = K.pos /\ NotHalfRead(S)
  BY <1>10, <1>11, SettledReady
<1>13. M = Add(S, res)
  BY DEF K
<1> HIDE DEF S
<1>14. Typed(S) /\ S.pos \in Nat /\ S.script = K.script
  BY <1>12 DEF Grown
<1>15. Grown(S, M) /\ M.pos = S.pos /\ NotHalfRead(M)
  BY <1>12, <1>13, <1>14, GrownAdd
<1>16. Grown(inner, M)
  BY <1>11, <1>12, <1>15, GrownTwice
<1>17. M.script = K.script /\ M.pos = K.pos
  BY <1>12, <1>14, <1>15 DEF Grown
<1> QED BY <1>9, <1>10, <1>15, <1>16, <1>17 DEF Ready, Grown, Within

-----------------------------------------------------------------------------
(***************************************************************************)
(* The invariant: what is on record of the substitutions and of the dots   *)
(***************************************************************************)
SubOK(sub, n) == sub.end \in 0 .. n - 1 /\ \A c \in SubSaved : sub.copy[c] \in Values[c]
SubsOK(stack, n) == IsSequence(stack) /\ \A i \in 1 .. Len(stack) : SubOK(stack[i], n)
CallsOK(stack) == IsSequence(stack) /\ \A i \in 1 .. Len(stack) : Ready(stack[i].save)

ReadInv ==
  /\ Ready(lexer) /\ SubsOK(subs, Len(lexer.script)) /\ CallsOK(calls)
  /\ phase \in {"lex", "parse", "return", "done", "error", "crash"}
  /\ phase # "lex" => subs = <<>>

LEMMA EmptyOK == IsSequence(<<>>) /\ CallsOK(<<>>) /\ \A n : SubsOK(<<>>, n)
<1>1. IsSequence(<<>>) /\ Len(<<>>) = 0
  BY NewLexerFacts DEF Typed
<1> QED BY <1>1 DEF CallsOK, SubsOK

LEMMA SubsAppend ==
  ASSUME NEW stack, NEW n, SubsOK(stack, n), NEW sub, SubOK(sub, n)
  PROVE  SubsOK(Append(stack, sub), n)
<1>1. /\ IsSequence(Append(stack, sub)) /\ Len(stack) \in Nat
      /\ Len(Append(stack, sub)) = Len(stack) + 1
      /\ \A i \in 1 .. Len(stack) : Append(stack, sub)[i] = stack[i]
      /\ Append(stack, sub)[Len(stack) + 1] = sub
  BY AppendFacts DEF SubsOK
<1>2. \A i \in 1 .. Len(stack) + 1 : i \in 1 .. Len(stack) \/ i = Len(stack) + 1
  BY <1>1
<1>3. \A i \in 1 .. Len(stack) : SubOK(stack[i], n)
  BY DEF SubsOK
<1>4. \A i \in 1 .. Len(stack) + 1 : SubOK(Append(stack, sub)[i], n)
  BY <1>1, <1>2, <1>3
<1> QED BY <1>1, <1>4 DEF SubsOK

LEMMA SubsFront ==
  ASSUME NEW stack, NEW n, SubsOK(stack, n), stack # <<>>
  PROVE  SubsOK(Front(stack), n) /\ SubOK(Last(stack), n)
<1>1. /\ IsSequence(Front(stack)) /\ Len(stack) \in Nat /\ Len(stack) >= 1
      /\ Len(Front(stack)) = Len(stack) - 1
      /\ \A i \in 1 .. Len(stack) - 1 : Front(stack)[i] = stack[i]
      /\ Last(stack) = stack[Len(stack)]
  BY FrontFacts DEF SubsOK
<1>2. \A i \in 1 .. Len(stack) : SubOK(stack[i], n)
  BY DEF SubsOK
<1>3. \A i \in 1 .. Len(stack) - 1 : i \in 1 .. Len(stack)
  BY <1>1
<1>4. Len(stack) \in 1 .. Len(stack)
  BY <1>1
<1>5. \A i \in 1 .. Len(stack) - 1 : SubOK(Front(stack)[i], n)
  BY <1>1, <1>2, <1>3
<1> QED BY <1>1, <1>2, <1>4, <1>5 DEF SubsOK

LEMMA CallsAppend ==
  ASSUME NEW stack, CallsOK(stack), NEW call, Ready(call.save)
  PROVE  CallsOK(Append(stack, call))
<1>1. /\ IsSequence(Append(stack, call)) /\ Len(stack) \in Nat
      /\ Len(Append(stack, call)) = Len(stack) + 1
      /\ \A i \in 1 .. Len(stack) : Append(stack, call)[i] = stack[i]
      /\ Append(stack, call)[Len(stack) + 1] = call
  BY AppendFacts DEF CallsOK
<1>2. \A i \in 1 .. Len(stack) + 1 : i \in 1 .. Len(stack) \/ i = Len(stack) + 1
  BY <1>1
<1>3. \A i \in 1 .. Len(stack) : Ready(stack[i].save)
  BY DEF CallsOK
<1>4. \A i \in 1 .. Len(stack) + 1 : Ready(Append(stack, call)[i].save)
  BY <1>1, <1>2, <1>3
<1> QED BY <1>1, <1>4 DEF CallsOK

LEMMA CallsFront ==
  ASSUME NEW stack, CallsOK(stack), stack # <<>>
  PROVE  CallsOK(Front(stack)) /\ Ready(Last(stack).save)
<1>1. /\ IsSequence(Front(stack)) /\ Len(stack) \in Nat /\ Len(stack) >= 1
      /\ Len(Front(stack)) = Len(stack) - 1
      /\ \A i \in 1 .. Len(stack) - 1 : Front(stack)[i] = stack[i]
      /\ Last(stack) = stack[Len(stack)]
  BY FrontFacts DEF CallsOK
<1>2. \A i \in 1 .. Len(stack) : Ready(stack[i].save)
  BY DEF CallsOK
<1>3. \A i \in 1 .. Len(stack) - 1 : i \in 1 .. Len(stack)
  BY <1>1
<1>4. Len(stack) \in 1 .. Len(stack)
  BY <1>1
<1>5. \A i \in 1 .. Len(stack) - 1 : Ready(Front(stack)[i].save)
  BY <1>1, <1>2, <1>3
<1> QED BY <1>1, <1>2, <1>4, <1>5 DEF CallsOK

\* What the other steps of lexer_start() and exec_script() do to the lexer.
LEMMA TextLexed ==
  ASSUME NEW L, Ready(L), NEW N, N = TokenifyNext(L), N.res.type \notin SubStarts
  PROVE  Ready(N.L) /\ Grown(L, N.L) /\ (Within(L) => Within(N.L))
BY TokenFacts, GrownToken DEF Ready, Cut, Near, Within

LEMMA PlaceSet ==
  ASSUME NEW L, Ready(L), NEW place, NEW M, With(L, "array_pos", place, M)
  PROVE  /\ Ready(M) /\ M.script = L.script /\ M.pos = L.pos /\ M.eval = L.eval
         /\ M.token_list = L.token_list /\ M.array_pos = place
<1>1. Fits("array_pos", place) /\ "array_pos" \in Others
  BY DEF Fits, Others
<1>2. AlikeContexts(L, M) /\ \A g \in Others : M[g] = IF g = "array_pos" THEN place ELSE L[g]
  BY <1>1, SetField DEF Ready
<1>3. M["script"] = L["script"] /\ M["token_list"] = L["token_list"] /\ M["array_pos"] = place
  BY <1>2 DEF Others
<1>4. M["exp"] = L["exp"] /\ M["last_exp"] = L["last_exp"]
  BY <1>2, ContextFacts DEF AlikeContexts
<1> QED BY <1>2, <1>3, <1>4 DEF AlikeContexts, Ready, NotHalfRead

LEMMA Started ==
  ASSUME NEW L, Typed(L), NEW text, Len(text) \in Nat, NEW M, M = Begin(Fresh(L), text)
  PROVE  /\ Ready(M) /\ M.pos = 0 /\ M.array_pos = 0 /\ M.eval = L.eval
         /\ Len(M.script) \in Nat /\ Len(M.token_list) = 0
<1> DEFINE F == Fresh(L)
<1>1. /\ Typed(F) /\ NotHalfRead(F) /\ F.eval = L.eval /\ F.pos = 0
      /\ F.script = <<>> /\ F.token_list = <<>> /\ F.array_pos = 0
  BY FreshFacts
<1>2. M = Begin(F, text)
  OBVIOUS
<1> HIDE DEF F
<1>3. /\ AlikeContexts(F, M) /\ (NotHalfRead(F) => NotHalfRead(M))
      /\ Len(M.script) = Len(text)
      /\ M.token_list = F.token_list /\ M.array_pos = F.array_pos
  BY <1>1, <1>2, BeginFacts
<1> QED BY <1>1, <1>3 DEF AlikeContexts, Ready

LEMMA Resumed ==
  ASSUME NEW L, Ready(L), NEW K, Ready(K), NEW M, M = [K EXCEPT !.eval = L.eval]
  PROVE  /\ Ready(M) /\ Near(K, M) /\ M.pos = K.pos /\ M.eval = L.eval
<1>1. Typed(L) /\ Typed(K)
  BY DEF Ready
<1>2. "eval" \in Contexts /\ L["eval"] \in Values["eval"]
  BY <1>1, ContextFacts DEF Typed
<1> DEFINE v == L["eval"]
<1>3. v \in Values["eval"] /\ M = [K EXCEPT !.eval = v] /\ v = L.eval
  BY <1>2
<1> HIDE DEF v
<1>4. /\ Near(K, M) /\ M.pos = K.pos /\ M.eval = v
      /\ \A d \in Contexts : M[d] = IF d = "eval" THEN v ELSE K[d]
  BY <1>1, <1>2, <1>3, SetContext
<1>5. M["exp"] = K["exp"] /\ M["last_exp"] = K["last_exp"]
  BY <1>4, ContextFacts
<1> QED BY <1>3, <1>4, <1>5 DEF Ready, NotHalfRead, Near

\* One step of lexer_start().
LEMMA LexStep ==
  ASSUME Ready(lexer), SubsOK(subs, Len(lexer.script)), Lexing
  PROVE  /\ Ready(lexer') /\ Grown(lexer, lexer') /\ SubsOK(subs', Len(lexer'.script))
         /\ Within(lexer) /\ Contained => Within(lexer')
<1> DEFINE N == TokenifyNext(lexer)
           n == Len(lexer.script)
<1>1. LexToken(N) \/ OpenSub(N) \/ CloseSub(N)
  BY DEF Lexing
<1>2. /\ Cut(lexer, N) /\ Grown(lexer, N.L) /\ N = TokenifyNext(lexer)
      /\ Typed(N.L) /\ N.L.pos \in Nat /\ N.L.script = lexer.script
  BY TokenFacts, GrownToken DEF Ready, Cut, Near
<1>3. n \in Nat /\ lexer.pos \in Nat
  BY DEF Ready, Typed
<1> HIDE DEF N
<1>4. \A M : Grown(lexer, M) => Len(M.script) = n
  BY DEF Grown
<1>5. CASE LexToken(N)
  <2>1. lexer' = Add(N.L, N.res) /\ subs' = subs /\ N.res.type \notin SubStarts
    BY <1>5 DEF LexToken
  <2>2. Ready(lexer') /\ Grown(lexer, lexer') /\ (Within(lexer) => Within(lexer'))
    BY <1>2, <2>1, TokenAdded
  <2> QED BY <1>4, <2>1, <2>2
<1>6. CASE OpenSub(N)
  <2> DEFINE L == NewContexts(Add(N.L, N.res), SubSaved)
             end == FindEndSub(L, N.res.type)
             copy == [c \in SubSaved |-> N.L[c]]
             sub == [type |-> N.res.type, end |-> end, copy |-> copy]
             res == [N.res EXCEPT !.type = "T_ERROR"]
             E == Add(Settled(Lexed(L, res)).L, res)
  <2>1. \/ end # -1 /\ lexer' = L /\ subs' = Append(subs, sub)
        \/ end = -1 /\ lexer' = E /\ subs' = subs
    BY <1>6 DEF OpenSub
  <2>2. /\ Ready(L) /\ Grown(lexer, L) /\ (Within(lexer) => Within(L))
        /\ \A c \in SubSaved : N.L[c] \in Values[c]
    BY <1>2, SubOpened
  <2> HIDE DEF L
  <2>3. Len(L.script) = n /\ L.pos \in Nat
    BY <1>4, <2>2 DEF Ready
  <2>4. Ready(E) /\ Grown(L, E) /\ (Within(L) => Within(E))
    BY <2>2, ErrorAdded
  <2> HIDE DEF E, res
  <2>5. Grown(lexer, E)
    BY <2>2, <2>4, GrownTwice
  <2>6. end = -1 \/ end \in 0 .. n - 1
    BY <1>3, <2>3, FindEndSubFacts
  <2>7. sub.end = end /\ \A c \in SubSaved : sub.copy[c] = N.L[c]
    OBVIOUS
  <2> HIDE DEF sub, end
  <2>8. CASE end # -1 /\ lexer' = L /\ subs' = Append(subs, sub)
    <3>1. SubOK(sub, n)
      BY <2>2, <2>6, <2>7, <2>8 DEF SubOK
    <3>2. SubsOK(subs', n)
      BY <2>8, <3>1, SubsAppend
    <3> QED BY <1>4, <2>2, <2>8, <3>2
  <2>9. CASE lexer' = E /\ subs' = subs
    BY <1>4, <2>2, <2>4, <2>5, <2>9
  <2> QED BY <2>1, <2>8, <2>9
<1>7. CASE CloseSub(N)
  <2> DEFINE sub == Last(subs)
             inner == IF lexer.pos >= sub.end THEN lexer ELSE N.L
             L == QuoteRead([Reverted(inner, SubSaved, sub.copy) EXCEPT !.pos = @ + 1])
             res == Token(SubEnd(sub.type), <<>>, SpaceAt(L))
             S == Settled(Lexed(IF L.soft = GENERAL THEN SkipBlanks(L) ELSE L, res))
  <2>1. lexer' = Add(S.L, S.res) /\ subs' = Front(subs) /\ subs # <<>>
    BY <1>7 DEF CloseSub, SubOver, Nested
  <2>2. S.res = res
    BY DEF Settled, Lexed
  <2> HIDE DEF res
  <2>3. lexer' = Add(Settled(Lexed(IF L.soft = GENERAL THEN SkipBlanks(L) ELSE L, res)).L, res)
    BY <2>1, <2>2
  <2> HIDE DEF S
  <2>4. SubsOK(Front(subs), n) /\ SubOK(sub, n)
    BY <2>1, SubsFront
  <2> DEFINE copy == sub.copy
  <2>5. (\A c \in SubSaved : copy[c] \in Values[c]) /\ sub.end \in 0 .. n - 1
    BY <2>4 DEF SubOK
  <2>6. inner = lexer \/ (inner = N.L /\ ~(lexer.pos >= sub.end))
    OBVIOUS
  <2>7. /\ Typed(inner) /\ inner.pos \in Nat /\ Grown(lexer, inner) /\ inner.script = lexer.script
    <3>1. Grown(lexer, lexer) /\ Typed(lexer) /\ lexer.pos \in Nat
      BY GrownOnwards DEF Ready, Near
    <3> QED BY <1>2, <2>6, <3>1
  <2>8. Contained => inner.pos <= Len(inner.script)
    <3>1. ASSUME inner = N.L, ~(lexer.pos >= sub.end) PROVE inner.pos <= n
      <4>1. lexer.pos <= n
        BY <1>3, <2>5, <3>1
      <4> QED BY <1>2, <3>1, <4>1 DEF Cut
    <3>2. ASSUME Contained PROVE lexer.pos <= n
      <4>1. Len(subs) \in DOMAIN subs /\ sub = subs[Len(subs)]
        <5>1. PICK T : subs \in Seq(T)
          BY DEF SubsOK, IsSequence
        <5> QED BY <2>1, <5>1 DEF Last
      <4>2. lexer.pos <= sub.end
        BY <3>2, <4>1 DEF Contained
      <4> QED BY <1>3, <2>5, <4>2
    <3> QED BY <2>6, <2>7, <3>1, <3>2
  <2> DEFINE Q == QuoteRead([Reverted(inner, SubSaved, copy) EXCEPT !.pos = @ + 1])
  <2>9. Q = L
    OBVIOUS
  <2> HIDE DEF inner, copy
  <2>10. Ready(lexer') /\ Grown(inner, lexer') /\ (inner.pos <= Len(inner.script) => Within(lexer'))
    <3>1. Q = QuoteRead([Reverted(inner, SubSaved, copy) EXCEPT !.pos = @ + 1])
      OBVIOUS
    <3> HIDE DEF Q
    <3>2. lexer' = Add(Settled(Lexed(IF Q.soft = GENERAL THEN SkipBlanks(Q) ELSE Q, res)).L, res)
      BY <2>3, <2>9
    <3> QED BY <2>5, <2>7, <3>1, <3>2, SubClosed
  <2>11. Grown(lexer, lexer')
    BY <2>7, <2>10, GrownTwice
  <2>12. SubsOK(subs', Len(lexer'.script))
    BY <1>4, <2>1, <2>4, <2>11
  <2> QED BY <2>8, <2>10, <2>11, <2>12
<1> QED BY <1>1, <1>5, <1>6, <1>7

LEMMA InvInit ==
  ASSUME NEW script, Len(script) \in Nat, NEW list, IsSequence(list),
         Reads(script) \/ ReadsTokens(list)
  PROVE  ReadInv /\ lexer.eval = GENERAL /\ Within(lexer) /\ lexer.array_pos = 0 /\ calls = <<>>
<1>1. Ready(NewLexer) /\ NewLexer.pos = 0 /\ NewLexer.array_pos = 0 /\ NewLexer.eval = GENERAL
      /\ Typed(NewLexer) /\ NotHalfRead(NewLexer)
  BY NewLexerFacts DEF Ready
<1>2. CASE Reads(script)
  <2>1. /\ lexer = Begin(NewLexer, script)
        /\ phase = "lex" /\ subs = <<>> /\ calls = <<>>
    BY <1>2 DEF Reads
  <2>2. /\ AlikeContexts(NewLexer, lexer) /\ (NotHalfRead(NewLexer) => NotHalfRead(lexer))
        /\ lexer.array_pos = NewLexer.array_pos
    BY <1>1, <2>1, BeginFacts
  <2>3. Ready(lexer) /\ lexer.pos = 0 /\ lexer.eval = GENERAL
    BY <1>1, <2>2 DEF AlikeContexts, Ready
  <2>4. Within(lexer)
    BY <2>3 DEF Within, Ready, Typed
  <2> QED BY <1>1, <2>1, <2>2, <2>3, <2>4, EmptyOK DEF ReadInv
<1>3. CASE ReadsTokens(list)
  <2>1. /\ lexer = [NewLexer EXCEPT !.token_list = list]
        /\ phase = "parse" /\ subs = <<>> /\ calls = <<>>
    BY <1>3 DEF ReadsTokens
  <2>2. With(NewLexer, "token_list", list, lexer)
    BY <2>1, WithFacts
  <2>3. Fits("token_list", list) /\ "token_list" \in Others
    BY DEF Fits, Others
  <2>4. /\ AlikeContexts(NewLexer, lexer)
        /\ \A g \in Others : lexer[g] = IF g = "token_list" THEN list ELSE NewLexer[g]
    BY <1>1, <2>2, <2>3, SetField
  <2>5. lexer["array_pos"] = NewLexer["array_pos"]
    BY <2>4 DEF Others
  <2>6. lexer["exp"] = NewLexer["exp"] /\ lexer["last_exp"] = NewLexer["last_exp"]
    BY <2>4, ContextFacts DEF AlikeContexts
  <2>7. Ready(lexer) /\ lexer.pos = 0 /\ lexer.eval = GENERAL
    BY <1>1, <2>4, <2>6 DEF AlikeContexts, Ready, NotHalfRead
  <2>8. Within(lexer)
    BY <2>7 DEF Within, Ready, Typed
  <2> QED BY <1>1, <2>1, <2>5, <2>7, <2>8, EmptyOK DEF ReadInv
<1> QED BY <1>2, <1>3

\* No step leaves the invariant.
LEMMA InvNext ==
  ASSUME ReadInv, [Next]_vars
  PROVE  ReadInv'
<1>1. /\ Ready(lexer) /\ Typed(lexer) /\ SubsOK(subs, Len(lexer.script)) /\ CallsOK(calls)
      /\ phase \in {"lex", "parse", "return", "done", "error", "crash"}
      /\ phase # "lex" => subs = <<>>
  BY DEF ReadInv, Ready
<1>2. CASE Lex
  <2>1. phase = "lex" /\ Lexing /\ phase' = phase /\ calls' = calls
    BY <1>2 DEF Lex
  <2>2. Ready(lexer') /\ SubsOK(subs', Len(lexer'.script))
    BY <1>1, <2>1, LexStep
  <2> QED BY <1>1, <2>1, <2>2 DEF ReadInv
<1>3. CASE LexEnd
  <2>1. /\ phase' = "parse" /\ lexer' = TokenifyNext(lexer).L /\ subs' = subs /\ calls' = calls
        /\ subs = <<>> /\ TokenifyNext(lexer).res.type = "T_EOF"
    BY <1>3 DEF LexEnd, AllLexed, Nested
  <2>2. "T_EOF" \notin SubStarts
    BY DEF SubStarts, DollarStarts
  <2>3. Ready(lexer')
    BY <1>1, <2>1, <2>2, TextLexed
  <2> QED BY <1>1, <2>1, <2>3, EmptyOK DEF ReadInv
<1>4. CASE ReadLine
  <2> DEFINE R == LineFrom(lexer)
             read == [lexer EXCEPT !.array_pos = R.s.array_pos]
  <2>1. /\ phase = "parse" /\ subs' = subs
        /\ \/ lexer' = read /\ phase' = phase /\ calls' = calls
           \/ \E f \in Files :
              /\ phase' = "lex" /\ lexer' = Begin(Fresh(read), Contents[f])
              /\ calls' = Append(calls, [save |-> read, errnoSet |-> R.ast # Dot(R.ast)])
    BY <1>4 DEF ReadLine, Sourced
  <2> DEFINE set == R.ast # Dot(R.ast)
  <2>2. Ready(read) /\ read.script = lexer.script
    <3> DEFINE place == R.s.array_pos
    <3>1. With(lexer, "array_pos", place, read)
      BY WithFacts
    <3> HIDE DEF read, place
    <3> QED BY <1>1, <3>1, PlaceSet
  <2> HIDE DEF read
  <2>3. CASE lexer' = read /\ phase' = phase /\ calls' = calls
    BY <1>1, <2>1, <2>2, <2>3 DEF ReadInv
  <2>4. ASSUME NEW f \in Files, phase' = "lex", lexer' = Begin(Fresh(read), Contents[f]),
               calls' = Append(calls, [save |-> read, errnoSet |-> set])
        PROVE  ReadInv'
    <3>1. Ready(lexer')
      BY <2>2, <2>4, Started, ContentsAssumption DEF Ready
    <3> DEFINE call == [save |-> read, errnoSet |-> set]
    <3>2. call.save = read /\ calls' = Append(calls, call)
      BY <2>4
    <3> HIDE DEF call
    <3>3. CallsOK(calls')
      BY <1>1, <2>2, <3>2, CallsAppend
    <3>4. SubsOK(subs', Len(lexer'.script))
      BY <1>1, <2>1, EmptyOK
    <3> QED BY <2>4, <3>1, <3>3, <3>4 DEF ReadInv
  <2> QED BY <2>1, <2>3, <2>4
<1>5. CASE EndScript
  <2> DEFINE save == Last(calls).save
  <2>1. /\ phase \in {"parse", "return"} /\ subs' = subs
        /\ \/ calls = <<>> /\ phase' = "done" /\ lexer' = Fresh(lexer) /\ calls' = calls
           \/ /\ calls # <<>> /\ lexer' = [save EXCEPT !.eval = lexer.eval]
              /\ calls' = Front(calls) /\ phase' \in {"parse", "return"}
    BY <1>5 DEF EndScript
  <2>2. SubsOK(subs', Len(lexer'.script)) /\ subs' = <<>>
    BY <1>1, <2>1, EmptyOK
  <2>3. CASE calls = <<>> /\ phase' = "done" /\ lexer' = Fresh(lexer) /\ calls' = calls
    <3>1. Ready(lexer')
      BY <1>1, <2>3, FreshFacts DEF Ready
    <3> QED BY <1>1, <2>2, <2>3, <3>1 DEF ReadInv
  <2>4. CASE /\ calls # <<>> /\ lexer' = [save EXCEPT !.eval = lexer.eval]
             /\ calls' = Front(calls) /\ phase' \in {"parse", "return"}
    <3>1. CallsOK(calls') /\ Ready(save)
      BY <1>1, <2>4, CallsFront
    <3> HIDE DEF save
    <3>2. Ready(lexer')
      BY <1>1, <2>4, <3>1, Resumed
    <3> QED BY <2>2, <2>4, <3>1, <3>2 DEF ReadInv
  <2> QED BY <2>1, <2>3, <2>4
<1>6. CASE BadLine
  BY <1>1, <1>6 DEF BadLine, ReadInv
<1>7. CASE UNCHANGED vars
  BY <1>1, <1>7 DEF vars, ReadInv
<1>8. CASE Finished
  BY <1>7, <1>8 DEF Finished
<1> QED BY <1>2, <1>3, <1>4, <1>5, <1>6, <1>7, <1>8 DEF Next

LEMMA InvSettled ==
  ASSUME ReadInv
  PROVE  LexerSettled
<1>1. Typed(lexer) /\ NotHalfRead(lexer)
  BY DEF ReadInv, Ready
<1>2. ContextsOK
  <2>1. \A c \in {"fun", "exp", "soft", "redir", "var", "for", "last_exp", "last_soft", "word",
                  "case", "eval"} : lexer[c] \in Values[c]
    BY <1>1, ContextFacts DEF Typed
  <2> QED BY <2>1 DEF ContextsOK, Values
<1>3. \A i \in DOMAIN subs : subs[i].end \in 0 .. Len(lexer.script) - 1
  <2>1. PICK T : subs \in Seq(T)
    BY DEF ReadInv, SubsOK, IsSequence
  <2>2. DOMAIN subs = 1 .. Len(subs)
    BY <2>1
  <2> QED BY <2>2 DEF ReadInv, SubsOK, SubOK
<1> QED BY <1>1, <1>2, <1>3 DEF LexerSettled, BetweenTokens, NotHalfRead, ReadInv

\* Whatever the script or the tokens, the files and the parser: every context has
\* one of its values, no token leaves a quote or an escape half read
\* (lexer.c:lex_accumulator), every substitution ends in the script, and none is
\* open when a line is parsed or when a dot sets the lexer aside.
THEOREM LexerCorrect ==
  ASSUME NEW script, Len(script) \in Nat, NEW list, IsSequence(list)
  PROVE  ReadSpec(script, list) => []LexerSettled
<1>1. Reads(script) \/ ReadsTokens(list) => ReadInv
  BY InvInit
<1>2. ReadInv /\ [Next]_vars => ReadInv'
  BY InvNext
<1>3. ReadInv => LexerSettled
  BY InvSettled
<1> QED BY <1>1, <1>2, <1>3, PTL DEF ReadSpec

-----------------------------------------------------------------------------
(***************************************************************************)
(* Where the cursor is                                                     *)
(***************************************************************************)
\* The cursor of the lexer is in the script or next to its end, and so are those
\* of the lexers that dots have set aside.
InsideCalls(stack) == \A i \in 1 .. Len(stack) : Within(stack[i].save)
Inside == Within(lexer) /\ InsideCalls(calls)

LEMMA InsideAppend ==
  ASSUME NEW stack, IsSequence(stack), InsideCalls(stack), NEW call, Within(call.save)
  PROVE  InsideCalls(Append(stack, call))
<1>1. /\ Len(stack) \in Nat /\ Len(Append(stack, call)) = Len(stack) + 1
      /\ \A i \in 1 .. Len(stack) : Append(stack, call)[i] = stack[i]
      /\ Append(stack, call)[Len(stack) + 1] = call
  BY AppendFacts
<1>2. \A i \in 1 .. Len(stack) + 1 : i \in 1 .. Len(stack) \/ i = Len(stack) + 1
  BY <1>1
<1>3. \A i \in 1 .. Len(stack) : Within(stack[i].save)
  BY DEF InsideCalls
<1>4. \A i \in 1 .. Len(stack) + 1 : Within(Append(stack, call)[i].save)
  BY <1>1, <1>2, <1>3
<1> QED BY <1>1, <1>4 DEF InsideCalls

LEMMA InsideFront ==
  ASSUME NEW stack, IsSequence(stack), stack # <<>>, InsideCalls(stack)
  PROVE  InsideCalls(Front(stack)) /\ Within(Last(stack).save)
<1>1. /\ Len(stack) \in Nat /\ Len(stack) >= 1 /\ Len(Front(stack)) = Len(stack) - 1
      /\ \A i \in 1 .. Len(stack) - 1 : Front(stack)[i] = stack[i]
      /\ Last(stack) = stack[Len(stack)]
  BY FrontFacts
<1>2. \A i \in 1 .. Len(stack) : Within(stack[i].save)
  BY DEF InsideCalls
<1>3. \A i \in 1 .. Len(stack) - 1 : i \in 1 .. Len(stack)
  BY <1>1
<1>4. Len(stack) \in 1 .. Len(stack)
  BY <1>1
<1>5. \A i \in 1 .. Len(stack) - 1 : Within(Front(stack)[i].save)
  BY <1>1, <1>2, <1>3
<1> QED BY <1>1, <1>2, <1>4, <1>5 DEF InsideCalls

\* The parser only moves the place in the tokens.
LEMMA LineRead ==
  ASSUME Ready(lexer), NEW read, read = [lexer EXCEPT !.array_pos = LineFrom(lexer).s.array_pos]
  PROVE  /\ Ready(read) /\ read.script = lexer.script /\ read.pos = lexer.pos
         /\ read.eval = lexer.eval
<1> DEFINE place == LineFrom(lexer).s.array_pos
<1>1. With(lexer, "array_pos", place, read)
  BY WithFacts
<1> HIDE DEF place
<1> QED BY <1>1, PlaceSet

LEMMA InsideNext ==
  ASSUME ReadInv, Inside, Contained, [Next]_vars
  PROVE  Inside'
<1>1. /\ Ready(lexer) /\ Typed(lexer) /\ SubsOK(subs, Len(lexer.script))
      /\ CallsOK(calls) /\ IsSequence(calls)
  BY DEF ReadInv, Ready, CallsOK
<1>2. Within(lexer) /\ InsideCalls(calls)
  BY DEF Inside
<1>3. CASE Lex
  <2>1. Lexing /\ calls' = calls
    BY <1>3 DEF Lex
  <2>2. Within(lexer')
    BY <1>1, <1>2, <2>1, LexStep
  <2> QED BY <1>2, <2>1, <2>2 DEF Inside
<1>4. CASE LexEnd
  <2>1. /\ lexer' = TokenifyNext(lexer).L /\ calls' = calls
        /\ TokenifyNext(lexer).res.type = "T_EOF"
    BY <1>4 DEF LexEnd, AllLexed
  <2>2. "T_EOF" \notin SubStarts
    BY DEF SubStarts, DollarStarts
  <2>3. Within(lexer')
    BY <1>1, <1>2, <2>1, <2>2, TextLexed
  <2> QED BY <1>2, <2>1, <2>3 DEF Inside
<1>5. CASE ReadLine
  <2> DEFINE R == LineFrom(lexer)
             read == [lexer EXCEPT !.array_pos = R.s.array_pos]
             set == R.ast # Dot(R.ast)
  <2>1. \/ lexer' = read /\ calls' = calls
        \/ \E f \in Sourced(R.ast) :
           /\ lexer' = Begin(Fresh(read), Contents[f])
           /\ calls' = Append(calls, [save |-> read, errnoSet |-> set])
    BY <1>5 DEF ReadLine
  <2>2. Ready(read) /\ read.script = lexer.script /\ read.pos = lexer.pos
    BY <1>1, LineRead
  <2> HIDE DEF read
  <2>3. Within(read)
    BY <1>2, <2>2 DEF Within
  <2>4. CASE lexer' = read /\ calls' = calls
    BY <1>2, <2>3, <2>4 DEF Inside
  <2>5. ASSUME NEW f \in Sourced(R.ast), lexer' = Begin(Fresh(read), Contents[f]),
               calls' = Append(calls, [save |-> read, errnoSet |-> set])
        PROVE  Inside'
    <3>1. f \in Files
      BY DEF Sourced
    <3>2. lexer'.pos = 0 /\ Len(lexer'.script) \in Nat
      BY <2>2, <2>5, <3>1, Started, ContentsAssumption DEF Ready
    <3>3. Within(lexer')
      BY <3>2 DEF Within
    <3> DEFINE call == [save |-> read, errnoSet |-> set]
    <3>4. call.save = read /\ calls' = Append(calls, call)
      BY <2>5
    <3> HIDE DEF call
    <3>5. InsideCalls(calls')
      BY <1>1, <1>2, <2>3, <3>4, InsideAppend
    <3> QED BY <3>3, <3>5 DEF Inside
  <2> QED BY <2>1, <2>4, <2>5
<1>6. CASE EndScript
  <2> DEFINE save == Last(calls).save
  <2>1. \/ calls = <<>> /\ lexer' = Fresh(lexer) /\ calls' = calls
        \/ calls # <<>> /\ lexer' = [save EXCEPT !.eval = lexer.eval] /\ calls' = Front(calls)
    BY <1>6 DEF EndScript
  <2>2. CASE calls = <<>> /\ lexer' = Fresh(lexer) /\ calls' = calls
    <3>1. lexer'.pos = 0 /\ lexer'.script = <<>>
      BY <1>1, <2>2, FreshFacts
    <3>2. Within(lexer')
      BY <3>1 DEF Within
    <3> QED BY <1>2, <2>2, <3>2 DEF Inside
  <2>3. CASE calls # <<>> /\ lexer' = [save EXCEPT !.eval = lexer.eval] /\ calls' = Front(calls)
    <3>1. InsideCalls(calls') /\ Within(save)
      BY <1>1, <1>2, <2>3, InsideFront
    <3>2. Ready(save)
      BY <1>1, <2>3, CallsFront
    <3> HIDE DEF save
    <3>3. Near(save, lexer') /\ lexer'.pos = save.pos
      BY <1>1, <2>3, <3>2, Resumed
    <3>4. Within(lexer')
      BY <3>1, <3>3 DEF Near, Within
    <3> QED BY <3>1, <3>4 DEF Inside
  <2> QED BY <2>1, <2>2, <2>3
<1>7. CASE BadLine
  BY <1>2, <1>7 DEF BadLine, Inside
<1>8. CASE UNCHANGED vars
  BY <1>2, <1>8 DEF vars, Inside
<1>9. CASE Finished
  BY <1>8, <1>9 DEF Finished
<1> QED BY <1>3, <1>4, <1>5, <1>6, <1>7, <1>8, <1>9 DEF Next

\* There is one way out of a script: lex_sub() goes on behind the last token of a
\* substitution that reached beyond its end.  Every other step of the lexer, of the
\* parser and of dots leaves all cursors in their scripts or next to the end, over
\* quotes, escapes and contexts that are half read at it (lexer.c:lex_accumulator,
\* lex_sub, exec_script.c:exec_script).
THEOREM CursorLeavesBySub ==
  ASSUME NEW script, Len(script) \in Nat, NEW list, IsSequence(list)
  PROVE  ReadSpec(script, list) => [][Inside /\ Contained => Inside']_vars
<1>1. Reads(script) \/ ReadsTokens(list) => ReadInv
  BY InvInit
<1>2. ReadInv /\ [Next]_vars => ReadInv'
  BY InvNext
<1>3. ReadInv /\ [Next]_vars => [Inside /\ Contained => Inside']_vars
  BY InsideNext
<1> QED BY <1>1, <1>2, <1>3, PTL DEF ReadSpec

-----------------------------------------------------------------------------
(***************************************************************************)
(* Arithmetic expansions                                                   *)
(***************************************************************************)
\* No expansion is half read before the end, of a script that no dot reads.
EvalInv == EvalAtEnd(lexer) /\ calls = <<>>

LEMMA EvalNext ==
  ASSUME Files = {}, ReadInv, EvalInv, [Next]_vars
  PROVE  EvalInv'
<1>1. Ready(lexer) /\ Typed(lexer) /\ SubsOK(subs, Len(lexer.script))
  BY DEF ReadInv, Ready
<1>2. EvalAtEnd(lexer) /\ calls = <<>>
  BY DEF EvalInv
<1>3. CASE Lex
  <2>1. Lexing /\ calls' = calls
    BY <1>3 DEF Lex
  <2>2. Grown(lexer, lexer')
    BY <1>1, <2>1, LexStep
  <2> QED BY <1>2, <2>1, <2>2 DEF EvalInv, Grown
<1>4. CASE LexEnd
  <2>1. /\ lexer' = TokenifyNext(lexer).L /\ calls' = calls
        /\ TokenifyNext(lexer).res.type = "T_EOF"
    BY <1>4 DEF LexEnd, AllLexed
  <2>2. "T_EOF" \notin SubStarts
    BY DEF SubStarts, DollarStarts
  <2>3. Grown(lexer, lexer')
    BY <1>1, <2>1, <2>2, TextLexed
  <2> QED BY <1>2, <2>1, <2>3 DEF EvalInv, Grown
<1>5. CASE ReadLine
  <2> DEFINE R == LineFrom(lexer)
             read == [lexer EXCEPT !.array_pos = R.s.array_pos]
  <2>1. lexer' = read /\ calls' = calls
    BY <1>5 DEF ReadLine, Sourced
  <2>2. Ready(read) /\ read.script = lexer.script /\ read.pos = lexer.pos /\ read.eval = lexer.eval
    BY <1>1, LineRead
  <2> HIDE DEF read
  <2> QED BY <1>2, <2>1, <2>2 DEF EvalInv, EvalAtEnd
<1>6. CASE EndScript
  <2>1. lexer' = Fresh(lexer) /\ calls' = calls
    BY <1>2, <1>6 DEF EndScript
  <2>2. lexer'.pos = 0 /\ lexer'.script = <<>>
    BY <1>1, <2>1, FreshFacts
  <2>3. EvalAtEnd(lexer')
    BY <2>2 DEF EvalAtEnd
  <2> QED BY <1>2, <2>1, <2>3 DEF EvalInv
<1>7. CASE BadLine
  BY <1>2, <1>7 DEF BadLine, EvalInv
<1>8. CASE UNCHANGED vars
  BY <1>2, <1>8 DEF vars, EvalInv
<1>9. CASE Finished
  BY <1>8, <1>9 DEF Finished
<1> QED BY <1>3, <1>4, <1>5, <1>6, <1>7, <1>8, <1>9 DEF Next

\* A script that sources no file is at its end when an arithmetic expansion is open
\* between two tokens: look_ahead() takes everything up to the brackets that close
\* it, or to the end.  (A dot may go on with the context of another script, which
\* save_lexer() leaves out.)
THEOREM EvalOpenAtEnd ==
  ASSUME NEW script, Len(script) \in Nat, NEW list, IsSequence(list), Files = {}
  PROVE  ReadSpec(script, list) => [](lexer.eval = GENERAL \/ lexer.pos >= Len(lexer.script))
<1>1. Reads(script) \/ ReadsTokens(list) => ReadInv /\ EvalInv
  BY InvInit DEF EvalInv, EvalAtEnd
<1>2. ReadInv /\ EvalInv /\ [Next]_vars => ReadInv' /\ EvalInv'
  BY InvNext, EvalNext
<1>3. EvalInv => (lexer.eval = GENERAL \/ lexer.pos >= Len(lexer.script))
  BY DEF EvalInv, EvalAtEnd
<1> QED BY <1>1, <1>2, <1>3, PTL DEF ReadSpec
=============================================================================
