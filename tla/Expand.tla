-------------------------------- MODULE Expand --------------------------------
(***************************************************************************)
(* Word expansion (vars/expand_vars.c): expand_vars_vect() makes the words *)
(* of a command out of its tokens, get_word() one word at a time.  An      *)
(* unquoted value may make several words, and so does "@": get_word() then *)
(* leaves its cursors in the middle of a token and is called again.        *)
(*                                                                         *)
(* A token has a type, what it names (the text itself when it is a T_WORD) *)
(* and whether a space follows it.  A text is a sequence of characters.    *)
(***************************************************************************)
EXTENDS FieldSplit

CONSTANTS
  NULL,
  Tokens,   \* the token lists of the commands that are expanded
  Value,    \* the value of each variable, the output of each substitution
  Args      \* what the positional parameters may be

At == "@"
Newline == "n"   \* the newline character

\* The texts that variables, substitutions and parameters may hold.
Texts == Range(Value) \cup UNION {Range(args) : args \in Args}

\* The types of tokens, "@" being the name of a variable only.
Variables == {"T_VAR", "T_VAR_INQUOTE"}
Substitutions == {"T_COMMAND_SUB_START", "T_COMMAND_SUB_START_Q"}

ASSUME ExpandAssumption ==
  /\ \A text \in Texts : text \in Seq(Range(text))
  /\ \A args \in Args : args \in Seq(Range(args))
  /\ \A list \in Tokens :
       /\ list # <<>> /\ list \in Seq(Range(list))
       /\ \A k \in DOMAIN list :
            /\ list[k].type \in Variables \cup Substitutions \cup {"T_WORD"}
            /\ list[k].type \in Variables => list[k].command \in DOMAIN Value \cup {At}
            /\ list[k].type \in Substitutions => list[k].command \in DOMAIN Value

VARIABLES
  acc,        \* the static acc: the output of a substitution, or NULL
  params,     \* the positional parameters
  list,       \* the token vector being expanded
  i,          \* the token get_word() is at
  nb_strtok,  \* how many words it has taken of the value of that token
  nb_at,      \* the parameter "@" is at
  res,        \* the word being built
  ept,        \* the last token was empty
  loops,      \* the tokens the word has been built of, from -1
  words       \* the words of the command so far

vars == <<acc, params, list, i, nb_strtok, nb_at, res, ept, loops, words>>

Idle == list = <<>>
Token == list[i]

\* The start of get_word().
FreshWord == res' = <<>> /\ ept' = FALSE /\ loops' = -1

Start == /\ Idle
         /\ list' \in Tokens /\ params' \in Args
         /\ i' = 1 /\ nb_strtok' = 0 /\ nb_at' = 0 /\ words' = <<>> /\ FreshWord
         /\ UNCHANGED acc

\* get_word() is called until every token is used up; the words are then
\* those of the command, and all but acc goes out of scope.
Done == ~Idle /\ i > Len(list) /\ loops = -1

Clear == /\ params' = <<>> /\ list' = <<>> /\ i' = 1 /\ nb_strtok' = 0
         /\ nb_at' = 0 /\ words' = <<>> /\ FreshWord

Finish == Done /\ Clear /\ UNCHANGED acc

InWord == ~Idle /\ ~Done

\* get_word() returns: an empty word of one empty token is skipped, and
\* get_word() called again.
Return(text, empty, n) ==
  /\ words' = IF text = <<>> /\ n = 0 /\ empty THEN words ELSE Append(words, text)
  /\ FreshWord

\* The condition of the loop over tokens, behind a token that leaves "@" at at.
LoopOn(text, empty, at) ==
  LET next == IF at = 0 THEN i + 1 ELSE i
      n == loops + 1
  IN /\ i' = next
     /\ IF at = 0 /\ next <= Len(list) /\ ~Token.is_space_after
        THEN res' = text /\ ept' = empty /\ loops' = n /\ UNCHANGED words
        ELSE Return(text, empty, n)

\* T_WORD, and T_EVALEXPR, whose value is never empty.
Word ==
  /\ InWord /\ Token.type = "T_WORD"
  /\ LoopOn(res \o Token.command, FALSE, nb_at)
  /\ UNCHANGED <<acc, params, list, nb_strtok, nb_at>>

IsSub == Token.type \in Substitutions
IsQuoted == Token.type \in {"T_VAR_INQUOTE", "T_COMMAND_SUB_START_Q"}
IsAt == ~IsSub /\ Token.command = At

\* get_stdout() leaves the output in acc, unless acc still holds something.
Output == IF acc = NULL THEN Value[Token.command] ELSE acc

\* get_var(): "@" gives the parameter it is at and goes on to the next one.
NextAt == IF IsAt THEN (IF nb_at + 2 > Len(params) THEN 0 ELSE nb_at + 1)
          ELSE nb_at

Val == IF IsSub THEN Output
       ELSE IF ~IsAt THEN Value[Token.command]
       ELSE IF nb_at + 1 > Len(params) THEN <<>> ELSE params[nb_at + 1]

\* An empty "@" or unquoted variable.
IsEmpty ==
  /\ Val = <<>>
  /\ Token.type = "T_VAR" \/ (Token.type = "T_VAR_INQUOTE" /\ Token.command = At)

Expanding == InWord /\ Token.type # "T_WORD"

\* acc as the token leaves it before it is cleared.
Filled == IF IsSub THEN Output ELSE acc

\* A plausible bug: the loop starts again before it has moved on.
EmptyVarStays ==
  /\ Expanding /\ IsEmpty
  /\ FreshWord
  /\ UNCHANGED <<acc, params, list, i, nb_strtok, nb_at, words>>

EmptyVar ==
  /\ Expanding /\ IsEmpty
  /\ LoopOn(res, TRUE, NextAt)
  /\ nb_at' = NextAt
  /\ UNCHANGED <<acc, params, list, nb_strtok>>

Quoted ==
  /\ Expanding /\ ~IsEmpty /\ IsQuoted
  /\ LoopOn(res \o Val, FALSE, NextAt)
  /\ nb_at' = NextAt /\ acc' = Filled
  /\ UNCHANGED <<params, list, nb_strtok>>

Taken == MyStrsep(Val, nb_strtok)
MoreToTake == Taken.is /\ MyStrsep(Val, nb_strtok + 1).is

Unquoted == Expanding /\ ~IsEmpty /\ ~IsQuoted

\* A plausible bug: "@" moves on although its parameter has words left.
TakeWordOfAt ==
  /\ Unquoted /\ MoreToTake
  /\ Return(res \o Taken.text, FALSE, loops + 1)
  /\ nb_strtok' = nb_strtok + 1 /\ nb_at' = NextAt /\ acc' = Filled
  /\ UNCHANGED <<params, list, i>>

\* The value has more words: this one ends here.
TakeWord ==
  /\ Unquoted /\ MoreToTake
  /\ Return(res \o Taken.text, FALSE, loops + 1)
  /\ nb_strtok' = nb_strtok + 1 /\ acc' = Filled
  /\ UNCHANGED <<params, list, i, nb_at>>

\* A plausible bug: the next value is not split from its start.
TakeLastWordKeeps ==
  /\ Unquoted /\ ~MoreToTake
  /\ LoopOn(res \o Taken.text, FALSE, NextAt)
  /\ nb_at' = NextAt /\ acc' = NULL
  /\ UNCHANGED <<params, list, nb_strtok>>

\* The last word of the value, or none, goes on with the next token.
TakeLastWord ==
  /\ Unquoted /\ ~MoreToTake
  /\ LoopOn(res \o Taken.text, FALSE, NextAt)
  /\ nb_strtok' = 0 /\ nb_at' = NextAt /\ acc' = NULL
  /\ UNCHANGED <<params, list>>
-----------------------------------------------------------------------------
Init == /\ acc = NULL /\ params = <<>> /\ list = <<>> /\ i = 1 /\ nb_strtok = 0 /\ nb_at = 0
        /\ res = <<>> /\ ept = FALSE /\ loops = -1 /\ words = <<>>

GetWord == Word \/ EmptyVar \/ Quoted \/ TakeWord \/ TakeLastWord

Next == Start \/ GetWord \/ Finish

\* An expansion that has started runs on.
Fairness == WF_vars(GetWord \/ Finish)

Spec == Init /\ [][Next]_vars /\ Fairness
-----------------------------------------------------------------------------
(* What the words should be.  A token stands for a sequence of marks: its  *)
(* characters, quoted or not, "quote" where there is a word even if it is  *)
(* empty, and "break" between two parameters.                              *)

Mark(kind, c) == [kind |-> kind, char |-> c]
Quote == Mark("quote", "")
Break == Mark("break", "")
Marked(text, kind) == [k \in 1 .. Len(text) |-> Mark(kind, text[k])]

OneValue(token, text) ==
  IF token.type \in {"T_WORD", "T_VAR_INQUOTE", "T_COMMAND_SUB_START_Q"}
  THEN <<Quote>> \o Marked(text, "quoted") ELSE Marked(text, "plain")

\* A substitution drops the newlines at the end of the output.
Stripped(text) ==
  SubSeq(text, 1, CHOOSE k \in 0 .. Len(text) :
                    /\ \A m \in k + 1 .. Len(text) : text[m] = Newline
                    /\ k = 0 \/ text[k] # Newline)

Marks(token) ==
  IF token.type = "T_WORD" THEN OneValue(token, token.command)
  ELSE IF token.command = At
  THEN FlattenSeq([k \in 1 .. Len(params) |->
         (IF k = 1 THEN <<>> ELSE <<Break>>) \o OneValue(token, params[k])])
  ELSE OneValue(token, Stripped(Value[token.command]))

\* The marks of all tokens, with a break where a space follows one.
AllMarks ==
  FlattenSeq([k \in 1 .. Len(list) |->
    Marks(list[k]) \o IF list[k].is_space_after THEN <<Break>> ELSE <<>>])

\* The words: what is between breaks and unquoted characters of IFS, where
\* there is something.
Ends(m) == m.kind = "break" \/ (m.kind = "plain" /\ m.char \in Ifs)

Words ==
  LET marks == AllMarks \o <<Break>>
      ends == SelectSeq([k \in 1 .. Len(marks) |-> k], LAMBDA k : Ends(marks[k]))
      between(n) == SubSeq(marks, IF n = 1 THEN 1 ELSE ends[n - 1] + 1, ends[n] - 1)
      text(part) ==
        LET chars == SelectSeq(part, LAMBDA m : m # Quote)
        IN [k \in 1 .. Len(chars) |-> chars[k].char]
      found == SelectSeq([n \in 1 .. Len(ends) |-> n], LAMBDA n : between(n) # <<>>)
  IN [n \in 1 .. Len(found) |-> text(between(found[n]))]
-----------------------------------------------------------------------------
(* Properties *)

\* The cursors of get_word() point at what is there: a token, a parameter, a
\* word that the value of the token has.
CursorsInside ==
  InWord => /\ i \in 1 .. Len(list)
            /\ nb_at = 0 \/ (IsAt /\ nb_at < Len(params))
            /\ nb_strtok > 0 => Unquoted /\ Taken.is

\* Two unquoted tokens in one word, each with nothing in it.
EmptyJoin ==
  \E k \in 1 .. Len(list) - 1 :
    /\ ~list[k].is_space_after
    /\ \A m \in {k, k + 1} : Marks(list[m]) = <<>>

\* The words of a command are those that its tokens stand for, however quoted
\* and unquoted texts, values of several words and parameters are joined.
WordsAreRight == Done /\ ~EmptyJoin => words = Words

\* No expansion runs for ever.
Terminates == ~Idle ~> Idle
=============================================================================
