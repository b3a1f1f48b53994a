--------------------------------- MODULE Lexer ---------------------------------
(***************************************************************************)
(* The lexer (lexer/): lexer_start() cuts the whole script into tokens     *)
(* before anything of it is parsed.  One record, g_lexer_info, holds the   *)
(* cursor and a dozen contexts that each character and each token may      *)
(* change and that decide what the next ones mean.  A step is one token;   *)
(* lex_sub(), the start of a substitution, sets most contexts aside and    *)
(* calls lexer_start() again: subs is the stack of those calls.            *)
(*                                                                         *)
(* A script is a sequence of characters.  A string of TLA+ cannot hold a   *)
(* backquote: "%" stands for one.                                          *)
(***************************************************************************)
EXTENDS Integers, Sequences, SequencesExt, TLC

VARIABLES
  lexer,   \* g_lexer_info: script, pos, token_list, array_pos and the contexts
  subs     \* the lex_sub() that are active, outermost first

GENERAL == "GENERAL"   \* what each context is when nothing is open
NUL == "NUL"           \* the character behind the script
BACKQUOTE == "%"

\* The contexts that a substitution and the file of a dot set aside.  Of
\* g_lexer_info.eval_context neither takes care, of case only the first does.
Saved == {"fun", "exp", "soft", "redir", "var", "for", "last_exp", "last_soft", "word"}
SubSaved == Saved \cup {"case"}
Contexts == SubSaved \cup {"eval"}

\* lexer with the contexts in set as they are in other.
Reverted(L, set, other) == [f \in DOMAIN L |-> IF f \in set THEN other[f] ELSE L[f]]

NewLexer ==
  [f \in Contexts \cup {"script", "pos", "token_list", "array_pos"} |->
     IF f \in Contexts THEN GENERAL ELSE IF f \in {"script", "token_list"} THEN <<>> ELSE 0]
NewContexts(L, set) == Reverted(L, set, NewLexer)

\* The characters that are no part of a name.
Signs == {" ", "\t", "\n", ";", "|", "&", ">", "<", "(", ")", BACKQUOTE, "$", "\"", "'",
          "\\", "{", "}", "=", "!", "@", "*", "?", "#", "-", "+", ".", "/", NUL}
Digits == {"0", "1", "2", "3", "4", "5", "6", "7", "8", "9"}
Blank == {" ", "\t"}

IsName(text) == text # <<>> /\ \A k \in 1 .. Len(text) : text[k] \notin Signs

\* script[i], counted from 0.
Char(L, i) == IF i \in 0 .. Len(L.script) - 1 THEN L.script[i + 1] ELSE NUL

\* skip_class(isblank)
SkipBlanks(L) ==
  [L EXCEPT !.pos = CHOOSE p \in L.pos .. L.pos + Len(L.script) :
     /\ Char(L, p) \notin Blank
     /\ \A q \in L.pos .. p - 1 : Char(L, q) \in Blank]

Chars(string) == [i \in 1 .. Len(string) |-> SubSeq(string, i, i)]

\* converter.token_converter: the entries are the types, but for the last one,
\* whose place is that of T_EOF.
Converter ==
  ("if" :> "T_IF") @@ ("then" :> "T_THEN") @@ ("elif" :> "T_ELIF") @@ ("else" :> "T_ELSE")
  @@ ("fi" :> "T_FI") @@ ("while" :> "T_WHILE") @@ ("until" :> "T_UNTIL")
  @@ ("for" :> "T_FOR") @@ ("in" :> "T_IN") @@ ("do" :> "T_DO") @@ ("done" :> "T_DONE")
  @@ ("case" :> "T_CASE") @@ ("esac" :> "T_ESAC") @@ ("!" :> "T_NOT") @@ ("||" :> "T_OR")
  @@ ("&&" :> "T_AND") @@ ("\n" :> "T_NEWLINE") @@ (";" :> "T_SEMICOLON")
  @@ ("{" :> "T_O_BRKT") @@ ("}" :> "T_C_BRKT") @@ ("(" :> "T_O_PRTH")
  @@ (")" :> "T_C_PRTH") @@ ("|" :> "T_PIPE") @@ (">" :> "T_REDIR_1")
  @@ ("<" :> "T_REDIR_I_1") @@ (">&" :> "T_REDIR_A") @@ ("<&" :> "T_REDIR_I_A")
  @@ (">>" :> "T_REDIR_2") @@ ("<>" :> "T_REDIR_O_2") @@ (">|" :> "T_REDIR_PIPE")
  @@ (BACKQUOTE :> "T_BACKQUOTE") @@ ("$(" :> "T_D_PAREN") @@ (";;" :> "T_DOUBLE_SCOLON")
  @@ ("$((" :> "T_EVALEXPR") @@ ("))" :> "T_EOF")
TokenConverter ==
  [text \in {Chars(w) : w \in DOMAIN Converter} |-> Converter[CHOOSE w \in DOMAIN Converter : Chars(w) = text]]

\* converter.separator
Separators ==
  {t \in DOMAIN TokenConverter :
     TokenConverter[t] \in {"T_OR", "T_AND", "T_NEWLINE", "T_SEMICOLON", "T_O_PRTH",
       "T_C_PRTH", "T_PIPE", "T_REDIR_1", "T_REDIR_I_1", "T_REDIR_A", "T_REDIR_I_A",
       "T_REDIR_2", "T_REDIR_O_2", "T_REDIR_PIPE", "T_BACKQUOTE", "T_D_PAREN",
       "T_DOUBLE_SCOLON", "T_EVALEXPR", "T_EOF"}} \cup {<<" ">>}

Redirections == {"T_REDIR_1", "T_REDIR_I_1", "T_REDIR_A", "T_REDIR_I_A", "T_REDIR_2",
                 "T_REDIR_O_2", "T_REDIR_PIPE"}

\* is_token_seperator()
TokenSeparators ==
  Redirections \cup {"T_AND", "T_OR", "T_NEWLINE", "T_SEMICOLON", "T_C_PRTH",
    "T_O_PRTH", "T_PIPE", "T_BACKQUOTE", "T_D_PAREN", "T_DOUBLE_SCOLON", "T_EVALEXPR", "T_EOF"}

\* tokenify(): an empty text has no type at all.
Tokenify(text) ==
  IF text = <<>> THEN "NONE"
  ELSE IF text \in DOMAIN TokenConverter THEN TokenConverter[text] ELSE "T_WORD"

-----------------------------------------------------------------------------
(***************************************************************************)
(* One character                                                           *)
(***************************************************************************)

\* is_valid_var()
IsValidVar(acc) ==
  /\ acc # <<>> /\ acc[1] = "$"
  /\ \/ Len(acc) = 1
     \/ IsName(Tail(acc))
     \/ Len(acc) = 2 /\ acc[2] \in {"@", "*", "?", "$", "#"}

\* skip_character(): the character is part of no token.
SkipCharacter(L, c) ==
  /\ L.eval = GENERAL
  /\ \/ c = "\n" /\ L.exp = "IN_ESCAPE_EXP"
     \/ c = "\\" /\ L.exp = GENERAL /\ L.soft = GENERAL
     \/ c = "'" /\ L.exp # "IN_ESCAPE_EXP" /\ L.soft = GENERAL
     \/ c = "\"" /\ L.exp = GENERAL
     \/ c \in {"{", "}"} /\ L.var = "IN_VAR"

Toggled(context, in) == IF context = in THEN GENERAL ELSE in

\* detect_context(): what the character at the cursor opens or closes.
DetectContext(LL, c) ==
  LET L == IF LL.exp = GENERAL /\ LL.last_exp = "IN_ESCAPE_EXP"
           THEN [LL EXCEPT !.last_exp = "IN_SQUOTE_EXP"] ELSE LL
  IN IF c = "\\" /\ L.exp = GENERAL
     THEN [L EXCEPT !.exp = "IN_ESCAPE_EXP", !.last_exp = "IN_ESCAPE_EXP"]
     ELSE IF c = "'" /\ L.exp # "IN_ESCAPE_EXP" /\ L.soft # "IN_DQUOTE"
     THEN [L EXCEPT !.exp = Toggled(@, "IN_SQUOTE_EXP"), !.last_exp = "IN_SQUOTE_EXP"]
     ELSE IF c = "$" /\ L.for # "VAR_FOR" /\ L.exp = GENERAL
     THEN [L EXCEPT !.var = IF Char(L, L.pos + 1) = "(" THEN @ ELSE "IN_VAR"]
     ELSE IF c = "\"" /\ L.exp = GENERAL
     THEN [L EXCEPT !.soft = Toggled(@, "IN_DQUOTE"), !.last_soft = "IN_DQUOTE"]
     ELSE IF L.exp = "IN_ESCAPE_EXP"
     THEN [L EXCEPT !.exp = GENERAL]
     ELSE [L EXCEPT !.word = IF c = "}" /\ L.fun = "IN_FUN" THEN GENERAL ELSE @]

Go(L, acc) == [L |-> L, acc |-> acc, then |-> "go"]
Stop(L, acc) == [L |-> L, acc |-> acc, then |-> "stop"]

\* The last part of check_special(): the longest separator, outside quotes.
CheckSeparator(L, acc) ==
  LET longer == Append(acc, Char(L, L.pos))
  IN IF L.exp # GENERAL \/ L.last_exp # GENERAL \/ L.soft # GENERAL THEN Go(L, acc)
     ELSE IF L.pos < Len(L.script) /\ acc # <<>> /\ longer \in Separators \ {<<")", ")">>}
     THEN Stop([L EXCEPT !.pos = @ + 1], longer)
     ELSE IF L.var = GENERAL /\ L.for = GENERAL /\ IsSuffix(<<"(", ")">>, acc)
     THEN Stop([L EXCEPT !.fun = "IN_FUN_NAME"], acc)
     ELSE IF acc \in Separators THEN Stop(L, acc)
     ELSE Go(L, acc)

\* check_special(): is the token over, the character at pos - 1 read?
CheckSpecial(L, read) ==
  LET next == Char(L, L.pos)
      acc == IF L.soft = "IN_DQUOTE" /\ L.exp = "IN_ESCAPE_EXP"
                /\ next \in {"$", "\\", "\"", BACKQUOTE}
             THEN Front(read) ELSE read
  IN IF L.eval = "IN_EVAL" THEN (IF read = <<")", ")">> THEN Stop(L, read) ELSE Go(L, read))
     ELSE IF /\ L.exp = GENERAL /\ L.pos > 0
             /\ <<Char(L, L.pos - 1), next, Char(L, L.pos + 1)>> = <<"$", "(", "(">>
     THEN [L |-> [L EXCEPT !.pos = @ + 2, !.eval = "IN_EVAL"], acc |-> <<>>, then |-> "eval"]
     ELSE IF L.var = "IN_VAR" /\ ~ IsValidVar(read)
     THEN Stop([L EXCEPT !.pos = @ - 1], Front(read))
     ELSE IF L.soft = "IN_DQUOTE" /\ acc \in {<<"$", "(">>, <<BACKQUOTE>>} THEN Stop(L, acc)
     ELSE IF /\ L.soft = GENERAL /\ L.exp = GENERAL /\ L.word = GENERAL
             /\ Len(acc) > 1 /\ Last(acc) = "=" /\ IsName(Front(acc))
     THEN Stop([L EXCEPT !.var = "IN_VAR_NAME"], acc)
     ELSE IF L.last_exp = "IN_ESCAPE_EXP" /\ acc = <<"$">>
     THEN Stop([L EXCEPT !.exp = GENERAL], acc)
     ELSE CheckSeparator(L, acc)

\* look_ahead_dquote()
LookAheadDquote(L, acc) ==
  LET c == Char(L, L.pos)
  IN IF c = "$" /\ Char(L, L.pos - 1) = "$" THEN Go(L, acc)
     ELSE IF c = "$" /\ acc # <<>> THEN Stop(L, acc)
     ELSE IF c = "\"" /\ L.var = "IN_VAR"
     THEN Stop([L EXCEPT !.pos = @ + 1, !.soft = GENERAL], acc)
     ELSE Go(L, acc)

\* look_ahead_keywords(): may the character at pos still be of this token?
LookAheadKeywords(L, acc) ==
  LET c == Char(L, L.pos)
      before == Char(L, L.pos - 1)
      after == Char(L, L.pos + 1)
  IN IF c = "$" /\ before = "$" THEN Go(L, acc)
     ELSE IF c = "$" /\ L.pos > 0 THEN Stop(L, acc)
     ELSE IF c = "}" /\ L.fun = "IN_FUN" THEN Go(L, acc)
     ELSE IF L.var = "IN_VAR" /\ before # "$" /\ c \in {"\"", "'"} THEN Stop(L, acc)
     ELSE IF L.var \notin {GENERAL, "IN_VAR_INIT"} THEN Go(L, acc)
     ELSE IF <<c>> \in Separators
     THEN IF (c = "(" /\ after = ")") \/ (c = ")" /\ before = "(") THEN Go(L, acc) ELSE Stop(L, acc)
     ELSE IF <<c, after>> \in Separators THEN Stop(L, acc)
     ELSE Go(L, acc)

\* look_ahead()
LookAhead(L, acc) ==
  IF L.eval = "IN_EVAL"
  THEN IF <<Char(L, L.pos), Char(L, L.pos + 1)>> = <<")", ")">>
       THEN Stop([L EXCEPT !.pos = @ + 2], acc) ELSE Go(L, acc)
  ELSE IF L.exp # GENERAL THEN Go(L, acc)
  ELSE IF L.soft = "IN_DQUOTE" THEN LookAheadDquote(L, acc)
  ELSE LookAheadKeywords(L, acc)

-----------------------------------------------------------------------------
(***************************************************************************)
(* One token: each lex_...() takes what was read, [L, acc, res], and       *)
(* returns the lexer and the token.                                        *)
(***************************************************************************)
Token(type, command, space) == [type |-> type, command |-> command, is_space_after |-> space]
Lexed(L, res) == [L |-> L, res |-> res]
LastType(L) == IF L.token_list = <<>> THEN "NONE" ELSE Last(L.token_list).type

\* lex_for()
LexFor(L, acc, res) ==
  IF L.for = "VAR_FOR"
  THEN Lexed([L EXCEPT !.for = "IN_FOR"], [res EXCEPT !.type = "T_VAR", !.command = acc])
  ELSE IF res.type \in TokenSeparators
  THEN Lexed([L EXCEPT !.for = GENERAL, !.word = GENERAL], res)
  ELSE IF res.type \in {"T_IN", "T_DO"}
  THEN Lexed([L EXCEPT !.for = GENERAL, !.word = "IN_COMMAND"], res)
  ELSE Lexed(L, [res EXCEPT !.type = "T_WORD", !.command = acc])

\* lex_varname()
LexVarname(L, acc, res) ==
  Lexed([L EXCEPT !.var = IF res.is_space_after THEN GENERAL ELSE "IN_VAR_INIT"],
        [res EXCEPT !.type = "T_VAR_INIT", !.command = Front(acc)])

\* lex_var()
LexVar(L, acc, res) ==
  Lexed([L EXCEPT !.var = GENERAL, !.word = IF L.case = "IN_CASE" THEN GENERAL ELSE @],
        [res EXCEPT !.type = IF acc = <<"$">> THEN "T_WORD"
                             ELSE IF acc = <<>> THEN @
                             ELSE IF L.last_soft = "IN_DQUOTE" THEN "T_VAR_INQUOTE" ELSE "T_VAR",
                    !.command = IF Len(acc) > 1 /\ acc[1] = "$" THEN Tail(acc) ELSE acc])

\* lex_fun(): the word ends in "()".
LexFun(L, acc, res) ==
  IF Len(acc) < 3 THEN Lexed(L, [res EXCEPT !.type = "T_ERROR"])
  ELSE Lexed([L EXCEPT !.fun = "IN_FUN"],
             [res EXCEPT !.type = "T_FUN_INIT", !.command = Front(Front(acc))])

\* is_ionumber(), lex_ionumber()
IsIonumber(L, acc, res) ==
  /\ res.type = "T_WORD" /\ Len(acc) = 1 /\ acc[1] \in Digits
  /\ Char(L, L.pos) \in {">", "<"} /\ ~ res.is_space_after
LexIonumber(L, acc, res) ==
  Lexed(L, IF L.exp = "IN_SQUOTE_EXP" THEN [res EXCEPT !.type = "T_ERROR"]
           ELSE [res EXCEPT !.type = "T_IONUMBER", !.command = acc])

\* is_command(), lex_command(): a word, or a keyword where none is meant.
IsCommand(L, res) ==
  /\ ~ /\ L.word = "IN_COMMAND" /\ L.case = "IN_CASE" /\ res.type = "T_ESAC"
       /\ LastType(L) \notin {"NONE", "T_CASE"}
  /\ \/ res.type = "T_WORD" \/ L.last_exp # GENERAL
     \/ L.last_soft = "IN_DQUOTE" \/ L.word = "IN_COMMAND"
LexCommand(L, acc, res) ==
  IF L.exp = "IN_SQUOTE_EXP" THEN Lexed(L, [res EXCEPT !.type = "T_ERROR"])
  ELSE Lexed([L EXCEPT !.word = IF L.case = "IN_CASE" \/ L.var = "IN_VAR_INIT" THEN GENERAL
                                ELSE IF L.redir = GENERAL THEN "IN_COMMAND" ELSE @,
                       !.var = IF @ = "IN_VAR_INIT" THEN GENERAL ELSE @],
             [res EXCEPT !.type = "T_WORD", !.command = acc])

\* lex_keywords()
LexKeywords(L, acc, res) ==
  LET type == res.type
      inCase == L.case = "IN_CASE"
      other == type \notin Redirections \cup {"T_FOR", "T_C_BRKT"}
      pattern == \/ other /\ inCase /\ type \in TokenSeparators \cup {"T_CASE", "T_IN"}
                 \/ other /\ type = "T_CASE"
  IN Lexed([L EXCEPT
       !.for = IF type = "T_FOR" THEN "VAR_FOR" ELSE @,
       !.redir = IF type \in Redirections THEN "IN_REDIR" ELSE @,
       !.fun = IF type = "T_C_BRKT" THEN GENERAL ELSE @,
       !.word = IF inCase /\ type = "T_C_PRTH" THEN GENERAL
                ELSE IF pattern THEN "IN_COMMAND" ELSE @,
       !.case = IF inCase /\ type = "T_C_PRTH" THEN "IN_CASE_COMMAND"
                ELSE IF type = "T_CASE" THEN "IN_CASE"
                ELSE IF type = "T_SEMICOLON" /\ LastType(L) = "T_SEMICOLON" /\ @ = "IN_CASE_COMMAND"
                THEN "IN_CASE" ELSE @], res)

\* A plausible bug: the escape of a token is still there for the next one.
Unsettled(R) ==
  Lexed([R.L EXCEPT !.exp = GENERAL,
                    !.last_soft = IF R.L.soft = GENERAL THEN GENERAL ELSE @,
                    !.redir = IF R.res.type = "T_WORD" THEN GENERAL ELSE @], R.res)

\* The end of lex_accumulator(), for every token.
Settled(R) ==
  Lexed([R.L EXCEPT !.exp = GENERAL, !.last_exp = GENERAL,
                    !.last_soft = IF R.L.soft = GENERAL THEN GENERAL ELSE @,
                    !.redir = IF R.res.type = "T_WORD" THEN GENERAL ELSE @], R.res)

\* The tokens that start and end a substitution, by how it is spelled.
SubStart(type, soft) ==
  CASE type = "T_D_PAREN" /\ soft = GENERAL -> "T_COMMAND_SUB_START"
    [] type = "T_D_PAREN" /\ soft # GENERAL -> "T_COMMAND_SUB_START_Q"
    [] type = "T_BACKQUOTE" /\ soft = GENERAL -> "T_BACKQUOTE_START"
    [] type = "T_BACKQUOTE" /\ soft # GENERAL -> "T_BACKQUOTE_START_Q"
DollarStarts == {"T_COMMAND_SUB_START", "T_COMMAND_SUB_START_Q"}
SubStarts == DollarStarts \cup {"T_BACKQUOTE_START", "T_BACKQUOTE_START_Q"}
SubEnd(start) == IF start \in DollarStarts THEN "T_COMMAND_SUB_END" ELSE "T_BACKQUOTE_END"

\* lex_accumulator(): what was read, as a token.  What follows the start of a
\* substitution is left to OpenSub.
LexAccumulator(LL, acc, type, space) ==
  LET t == IF type \in {"T_ERROR", "T_EVALEXPR"} THEN type ELSE Tokenify(acc)
      res == Token(t, <<>>, space)
      L == IF t \in TokenSeparators THEN [LL EXCEPT !.word = GENERAL, !.var = GENERAL] ELSE LL
  IN IF t = "T_EVALEXPR"
     THEN Settled(Lexed([L EXCEPT !.eval = GENERAL],
                        [res EXCEPT !.command = acc]))
     ELSE IF t = "T_ERROR" THEN Settled(Lexed(L, res))
     ELSE IF L.for # GENERAL THEN Settled(LexFor(L, acc, res))
     ELSE IF t \in {"T_D_PAREN", "T_BACKQUOTE"}
     THEN Lexed(L, [res EXCEPT !.type = SubStart(t, L.soft)])
     ELSE IF L.var = "IN_VAR_NAME" THEN Settled(LexVarname(L, acc, res))
     ELSE IF L.var = "IN_VAR" /\ L.last_exp # "IN_SQUOTE_EXP" THEN Settled(LexVar(L, acc, res))
     ELSE IF L.fun = "IN_FUN_NAME" THEN Settled(LexFun(L, acc, res))
     ELSE IF IsIonumber(L, acc, res) THEN Settled(LexIonumber(L, acc, res))
     ELSE IF IsCommand(L, res) THEN Settled(LexCommand(L, acc, res))
     ELSE Settled(LexKeywords(L, acc, res))

SkipsBlanks(L) == L.soft = GENERAL /\ L.eval = GENERAL
AtEnd(L) == L.pos >= Len(L.script)
SpaceAt(L) == Char(L, L.pos) \in Blank \cup {"\n"}
EndType(L) == IF L.soft = "IN_DQUOTE" THEN "T_ERROR" ELSE "T_EOF"

\* The text of the accumulator: "eval" empties it without clearing its text.
Text(acc, type) == IF type = "T_EVALEXPR" /\ acc = <<>> THEN <<"$">> ELSE acc

\* A turn of the loop of tokenify_next(): one character, or the end.
Turn(R) ==
  LET c == Char(R.L, R.L.pos)
      read == IF SkipCharacter(R.L, c) THEN R.acc ELSE Append(R.acc, c)
      L == [DetectContext(R.L, c) EXCEPT !.pos = @ + 1]
      S == CheckSpecial(L, read)
      A == LookAhead(S.L, S.acc)
      type == IF S.then = "eval" THEN "T_EVALEXPR" ELSE R.type
  IN IF R.then = "stop" THEN R
     ELSE IF AtEnd(R.L)
     THEN [L |-> [R.L EXCEPT !.soft = GENERAL], acc |-> Text(R.acc, R.type),
           type |-> EndType(R.L), then |-> "stop"]
     ELSE IF S.then = "stop" THEN [L |-> S.L, acc |-> S.acc, type |-> R.type, then |-> "stop"]
     ELSE [L |-> A.L, acc |-> IF A.then = "stop" THEN Text(A.acc, type) ELSE A.acc,
           type |-> type, then |-> A.then]

\* The loop, up to the turn that stops it: it has at most as many as there are
\* characters, and one for the end.
Accumulate(L) ==
  LET turns == Len(L.script) - L.pos + 1
      after[k \in 0 .. turns] ==
        IF k = 0 THEN [L |-> L, acc |-> <<>>, type |-> "NONE", then |-> "go"]
        ELSE Turn(after[k - 1])
  IN after[CHOOSE k \in 0 .. turns : k = turns \/ after[k].then = "stop"]

\* What tokenify_next() does with what it has read.
TokenRead(A) ==
  LexAccumulator(IF SkipsBlanks(A.L) THEN SkipBlanks(A.L) ELSE A.L,
                 A.acc, A.type, A.L.soft = GENERAL /\ SpaceAt(A.L))

\* tokenify_next()
TokenifyNext(LL) ==
  LET L == IF SkipsBlanks(LL) THEN SkipBlanks(LL) ELSE LL
  IN IF AtEnd(L) THEN Lexed([L EXCEPT !.soft = GENERAL], Token(EndType(L), <<>>, FALSE))
     ELSE TokenRead(Accumulate(L))

-----------------------------------------------------------------------------
(***************************************************************************)
(* lexer_start(), one token a step                                         *)
(***************************************************************************)
Add(L, res) == [L EXCEPT !.token_list = Append(@, res)]
Nested == subs # <<>>

\* Of the characters at from .. to - 1: the brackets that open less those that close.
Parentheses(L, from, to) ==
  FoldLeftDomain(LAMBDA n, i : n + (CASE i <= from -> 0
                                      [] L.script[i] = "(" -> 1
                                      [] L.script[i] = ")" -> -1
                                      [] OTHER -> 0), 1, SubSeq(L.script, 1, to))

\* find_end_sub(): the next backquote, or the bracket that closes as many as
\* were opened, quoted or not; -1 when there is none.
FindEndSub(L, start) ==
  LET ends == {i \in L.pos .. Len(L.script) - 1 :
                IF start \in DollarStarts THEN Parentheses(L, L.pos, i + 1) = 0
                ELSE Char(L, i) = BACKQUOTE}
  IN IF ends = {} THEN -1 ELSE CHOOSE i \in ends : \A j \in ends : i <= j

\* The lexer_start() of a substitution returns; N is what tokenify_next()
\* returns now.
SubOver(N) == Nested /\ (lexer.pos >= Last(subs).end \/ N.res.type = "T_EOF")

\* A token that is neither the last nor the start of a substitution.
LexToken(N) ==
  /\ ~ SubOver(N) /\ N.res.type \notin SubStarts \cup {"T_EOF"}
  /\ lexer' = Add(N.L, N.res)
  /\ UNCHANGED subs

\* lex_sub(), as far as the call of lexer_start(): without an end there is none,
\* and the contexts are not given back.
OpenSub(N) ==
  /\ ~ SubOver(N) /\ N.res.type \in SubStarts
  /\ LET start == N.res
         L == NewContexts(Add(N.L, start), SubSaved)
         end == FindEndSub(L, start.type)
     IN \/ /\ end # -1
           /\ lexer' = L
           /\ subs' = Append(subs, [type |-> start.type, end |-> end, copy |-> [c \in SubSaved |-> N.L[c]]])
        \/ /\ end = -1
           /\ lexer' = Add(Settled(Lexed(L, [start EXCEPT !.type = "T_ERROR"])).L,
                           [start EXCEPT !.type = "T_ERROR"])
           /\ UNCHANGED subs

\* A quote behind the substitution is read at once.
QuoteRead(L) ==
  IF Char(L, L.pos) = "\""
  THEN [L EXCEPT !.last_soft = "IN_DQUOTE", !.soft = Toggled(@, "IN_DQUOTE"), !.pos = @ + 1]
  ELSE L

\* The rest of lex_sub().
CloseSub(N) ==
  /\ SubOver(N)
  /\ LET sub == Last(subs)
         inner == IF lexer.pos >= sub.end THEN lexer ELSE N.L
         back == [Reverted(inner, SubSaved, sub.copy) EXCEPT !.pos = @ + 1]
         L == QuoteRead(back)
         S == Settled(Lexed(IF L.soft = GENERAL THEN SkipBlanks(L) ELSE L,
                            Token(SubEnd(sub.type), <<>>, SpaceAt(L))))
     IN /\ lexer' = Add(S.L, S.res)
        /\ subs' = Front(subs)

Lexing == LET N == TokenifyNext(lexer) IN LexToken(N) \/ OpenSub(N) \/ CloseSub(N)

\* The whole script is in token_list.
AllLexed == ~ Nested /\ TokenifyNext(lexer).res.type = "T_EOF"
=============================================================================
