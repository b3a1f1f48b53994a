--------------------------------- MODULE MCRead --------------------------------
(***************************************************************************)
(* Scripts for ReadScript with the trees they stand for.  A sample is a    *)
(* text and the tree, word or list that it spells; the constructs of the   *)
(* shell make longer samples of shorter ones, so that a script and its     *)
(* trees are built side by side and never by the parser itself.            *)
(***************************************************************************)
EXTENDS ReadScript, Parser

VARIABLES
  expected,   \* the trees of the script in a set; {} where none are given
  tick        \* changes with each step, also with one that leads nowhere

Sample(text, tree) == [text |-> text, tree |-> tree]

-----------------------------------------------------------------------------
(***************************************************************************)
(* Words                                                                   *)
(***************************************************************************)
Part(type, command) ==
  [type |-> type, command |-> Chars(command), cmd_sub |-> NULL, is_space_after |-> FALSE]
SubPart(type, tree) ==
  [type |-> type, command |-> <<>>, cmd_sub |-> tree, is_space_after |-> FALSE]
Ended(parts) == [parts EXCEPT ![Len(parts)].is_space_after = TRUE]
QuotedParts(parts) == [i \in DOMAIN parts |-> Quoted(parts[i])]
Word(text, parts) == Sample(text, Ended(parts))
Plain(command) == Word(command, <<Part("T_WORD", command)>>)

a == Plain("a")
b == Plain("b")
c == Plain("c")
Call(words) == Cmd(SimpleCmd(words, <<>>), <<>>)
CallA == Sample("a", Call(a.tree))
CallB == Sample("b", Call(b.tree))
CallC == Sample("c", Call(c.tree))

Sub(command) ==
  {Word("$(" \o command.text \o ")", <<SubPart("T_COMMAND_SUB_START", command.tree)>>),
   Word("%" \o command.text \o "%", <<SubPart("T_COMMAND_SUB_START", command.tree)>>),
   Word("\"$(" \o command.text \o ")\"", <<SubPart("T_COMMAND_SUB_START_Q", command.tree)>>),
   Word("\"%" \o command.text \o "%\"", <<SubPart("T_COMMAND_SUB_START_Q", command.tree)>>)}

BasicWords == {a,
  Word("'a b'", <<Part("T_WORD", "a b")>>),
  Word("\"a b\"", <<Part("T_WORD", "a b")>>),
  Word("a\\ b", <<Part("T_WORD", "a b")>>),
  Word("';'", <<Part("T_WORD", ";")>>),
  Word("\\;", <<Part("T_WORD", ";")>>),
  Word("'$x'", <<Part("T_WORD", "$x")>>),
  Word("$x", <<Part("T_VAR", "x")>>),
  Word("${x}", <<Part("T_VAR", "x")>>),
  Word("$?", <<Part("T_VAR", "?")>>),
  Word("\"$x\"", <<Part("T_VAR_INQUOTE", "x")>>),
  Word("a$x", <<Part("T_WORD", "a"), Part("T_VAR", "x")>>),
  Word("$x$y", <<Part("T_VAR", "x"), Part("T_VAR", "y")>>),
  Word("\"a $x b\"", <<Part("T_WORD", "a "), Part("T_VAR_INQUOTE", "x"), Part("T_WORD", " b")>>),
  Word("$((1+2))", <<Part("T_EVALEXPR", "1+2")>>)}
SubWords == Sub(CallA) \cup
  {Word("$(a; b)", <<SubPart("T_COMMAND_SUB_START", Binary("AST_LIST", CallA.tree, CallB.tree))>>),
   Word("$(a $(b))", <<SubPart("T_COMMAND_SUB_START", Call(a.tree \o
          Ended(<<SubPart("T_COMMAND_SUB_START", CallB.tree)>>)))>>),
   Word("$(if a; then b; fi)", <<SubPart("T_COMMAND_SUB_START",
          Cmd(If(CallA.tree, CallB.tree, NULL), <<>>))>>)}
\* Words that are something else at the start of a command.
LateWords == {Plain("if"), Plain("done"), Plain("x=a"), Plain("!"), Plain("{"), Plain("}"), Plain("in")}
AnyWord == BasicWords \cup SubWords

-----------------------------------------------------------------------------
(***************************************************************************)
(* Simple commands                                                         *)
(***************************************************************************)
RedirsTo(words) == {
  [text |-> op \o f.text, tree |-> [ionumber |-> Chars(n), redir_type |-> t, word |-> QuotedParts(f.tree)]] :
  <<op, n, t>> \in {<<">", "1", "T_REDIR_1">>, <<"2>>", "2", "T_REDIR_2">>, <<"< ", "0", "T_REDIR_I_1">>,
                    <<"2>&", "2", "T_REDIR_A">>, <<"<>", "0", "T_REDIR_O_2">>},
  f \in words}
Redirs == RedirsTo({a, Word("$x", <<Part("T_VAR", "x")>>)})
Assign(w) == [text |-> "x=" \o w.text, tree |-> [name |-> <<"x">>, value |-> Vect(QuotedParts(w.tree))]]

Simple ==
  {Sample(w.text, Call(w.tree)) : w \in AnyWord}
  \cup {Sample("a " \o w.text \o " c", Call(a.tree \o w.tree \o c.tree)) : w \in AnyWord \cup LateWords}
  \cup {Sample(w.text \o " b", Call(w.tree \o b.tree)) : w \in AnyWord}
  \cup {Sample(x.text, Cmd(SimpleCmd(<<>>, <<x.tree>>), <<>>)) : x \in {Assign(w) : w \in AnyWord}}
  \cup {Sample(x.text \o " a b", Cmd(SimpleCmd(a.tree \o b.tree, <<x.tree>>), <<>>)) : x \in {Assign(w) : w \in BasicWords}}
  \cup {Sample("x= a", Cmd(SimpleCmd(a.tree, <<[name |-> <<"x">>, value |-> NULL]>>), <<>>))}
  \cup {Sample("a " \o r.text, Cmd(SimpleCmd(a.tree, <<>>), <<r.tree>>)) : r \in RedirsTo({a})}
  \cup {Sample(r.text \o " a", Cmd(SimpleCmd(a.tree, <<>>), <<r.tree>>)) : r \in Redirs}
  \cup {Sample("a " \o r.text \o " b >b", Cmd(SimpleCmd(a.tree \o b.tree, <<>>),
          <<r.tree, [ionumber |-> <<"1">>, redir_type |-> "T_REDIR_1", word |-> b.tree]>>)) : r \in Redirs}

-----------------------------------------------------------------------------
(***************************************************************************)
(* Lists, pipelines and compound commands                                  *)
(***************************************************************************)
Infix(type, x, op, y) == Sample(x.text \o op \o y.text, Binary(type, x.tree, y.tree))
Not(x) == Sample("! " \o x.text, Single(x.tree, "AST_NOT"))
Compound(text, tree) == Sample(text, Cmd(tree, <<>>))

\* Lists in the body of a compound command, with what ends them.
Bodies(x, y) == {
  Sample(x.text \o "; ", x.tree),
  Sample("\n" \o x.text \o "\n", x.tree),
  Sample(x.text \o "; " \o y.text \o ";", Binary("AST_LIST", x.tree, y.tree)),
  Sample(x.text \o "\n\n" \o y.text \o "\n", Binary("AST_LIST", x.tree, y.tree))}

Ifs(x, y, z) == {
  Compound("if " \o x.text \o "then " \o y.text \o "fi", If(x.tree, y.tree, NULL)),
  Compound("if " \o x.text \o "then " \o y.text \o "else " \o z.text \o "fi", If(x.tree, y.tree, z.tree)),
  Compound("if " \o x.text \o "then " \o y.text \o "elif " \o z.text \o "then " \o x.text \o "else "
            \o y.text \o "fi", If(x.tree, y.tree, If(z.tree, x.tree, y.tree)))}
Loops(x, y) == {
  Compound("while " \o x.text \o "do " \o y.text \o "done", Binary("AST_WHILE", x.tree, y.tree)),
  Compound("until " \o x.text \o "do " \o y.text \o "done", Binary("AST_UNTIL", x.tree, y.tree)),
  Compound("for i in a $x; do " \o y.text \o "done",
    For(<<"i">>, Vect(a.tree \o Ended(<<Part("T_VAR", "x")>>)), y.tree)),
  Compound("for i in\ndo " \o y.text \o "done", For(<<"i">>, Vect(<<>>), y.tree)),
  Compound("for i\ndo " \o y.text \o "done", For(<<"i">>, NULL, y.tree)),
  Compound("for i; do " \o y.text \o "done", For(<<"i">>, NULL, y.tree))} 
Groups(x) == {
  Compound("{ " \o x.text \o "}", x.tree),
  Compound("(" \o x.text \o ")", Single(x.tree, "AST_SUBSHELL"))}
Functions(x) == {
  Compound("f() " \o g.text, Func(g.tree.ast, <<"f">>)) : g \in Groups(x)}
Item(patterns, tree) ==
  [type |-> "case_item", seq |-> QuotedParts(patterns), statement |-> tree]
Cases(x, y) == {
  Compound("case $x in a) " \o x.text \o ";; b|c) " \o y.text \o ";; esac",
    Case(QuotedParts(Ended(<<Part("T_VAR", "x")>>)),
         <<Item(a.tree, x.tree), Item(b.tree \o c.tree, y.tree)>>)),
  Compound("case a in\n(a) " \o x.text \o ";;\nb)\n;;\nesac",
    Case(a.tree, <<Item(a.tree, x.tree), Item(b.tree, Call(<<>>))>>)),
  Compound("case a in *)\n" \o x.text \o "\nesac", Case(a.tree, <<Item(Plain("*").tree, x.tree)>>))}

\* With a redirection behind it, where the tree has a place for one.
Redirected(x) == Sample(x.text \o " 2>> a",
  [x.tree EXCEPT !.redirs = <<[ionumber |-> <<"2">>, redir_type |-> "T_REDIR_2", word |-> a.tree]>>])

Compounds(x, y) ==
  Ifs(x, y, x) \cup Loops(x, y) \cup Groups(y) \cup Functions(y)

\* Commands of each kind, one level deep, and lists of them.
BodyA == Sample("a; ", CallA.tree)
BodyB == Sample("b\n", CallB.tree)
Shallow == Compounds(BodyA, BodyB) \cup Cases(CallA, CallB)
Middle == {CallA, Sample("x=a", Cmd(SimpleCmd(<<>>, <<Assign(a).tree>>), <<>>)),
           Sample("a 2>b", Cmd(SimpleCmd(a.tree, <<>>),
             <<[ionumber |-> <<"2">>, redir_type |-> "T_REDIR_1", word |-> b.tree]>>))} \cup Shallow
Lists ==
  {Infix("AST_LIST", x, "; ", y) : x \in Middle, y \in {CallB}}
  \cup {Infix("AST_LIST", x, ";", y) : x \in {CallA}, y \in Middle}
  \cup {Infix("AST_AND", x, " && ", y) : x \in {CallA}, y \in Middle}
  \cup {Infix("AST_OR", x, "||\n", y) : x \in Middle, y \in {CallA}}
  \cup {Infix("AST_PIPE", x, " | ", y) : x \in Middle, y \in {CallA}}
  \cup {Infix("AST_PIPE", x, "|", y) : x \in {CallA}, y \in Middle}
  \cup {Not(x) : x \in Middle}
  \cup {Not(Infix("AST_PIPE", CallA, " | ", CallB))}
  \cup {Infix("AST_AND", CallA, " && ", Infix("AST_OR", CallB, " || ", CallC)),
        Infix("AST_PIPE", CallA, " | ", Infix("AST_PIPE", CallB, " | ", CallC)),
        Infix("AST_LIST", CallA, "; ", Infix("AST_LIST", CallB, "; ", Sample("c;", CallC.tree)))}
DeepLines == UNION {UNION {Compounds(x, BodyB) : x \in Bodies(s, CallB)} \cup Cases(s, CallB) : s \in Shallow}
CaselessLines == Simple \cup (Shallow \ Cases(CallA, CallB))
Lines == Simple \cup Shallow \cup {Redirected(x) : x \in Shallow} \cup Lists

\* Lines that tell whether something was left open before them.
Probes == {CallA, Sample("x=a b", Cmd(SimpleCmd(b.tree, <<Assign(a).tree>>), <<>>)),
           Sample("a if x=a", Call(a.tree \o Plain("if").tree \o Plain("x=a").tree)),
           Sample("a \"$x\" 2>b", Cmd(SimpleCmd(a.tree \o Ended(<<Part("T_VAR_INQUOTE", "x")>>), <<>>),
             <<[ionumber |-> <<"2">>, redir_type |-> "T_REDIR_1", word |-> b.tree]>>))}

Script(lines) == FoldLeft(LAMBDA s, l : Sample(s.text \o l.text \o "\n", Append(s.tree, l.tree)),
                          Sample("", <<>>), lines)
Samples == {Script(<<x>>) : x \in DeepLines} \cup {Script(<<x, y>>) : x \in Lines, y \in Probes}
           \cup {Script(<<x, y>>) : x, y \in Shallow}

-----------------------------------------------------------------------------
(***************************************************************************)
(* Sourced files.  The script may end inside of anything but a case, whose *)
(* context is not set aside.                                               *)
(***************************************************************************)
DotCall(file) == Sample(". " \o file, Call(Plain(".").tree \o Plain(file).tree))
CdFails == Sample("cd n", Call(Plain("cd").tree \o Plain("n").tree))
FileF == Script(<<Sample("x=a b", Cmd(SimpleCmd(b.tree, <<Assign(a).tree>>), <<>>)), CallB,
                  Compound("if a\nthen b; fi", If(CallA.tree, CallB.tree, NULL))>>)
GoingOn(file) == Infix("AST_LIST", DotCall(file), "; ", CdFails)

FileTexts == ("e" :> Sample("", <<>>)) @@ ("f" :> FileF)
             @@ ("g" :> Script(<<CallC, GoingOn("f"), CallB>>))
             @@ ("h" :> Script(<<DotCall("g"), CallA>>))
MCFiles == DOMAIN FileTexts
MCContents == [f \in MCFiles |-> FileTexts[f].text]

\* What is evaluated of each file: a line that only sources is the last one.
FileTrees ==
  LET g == <<CallC.tree, GoingOn("f").tree>> \o FileF.tree \o <<CallB.tree>>
  IN ("e" :> <<>>) @@ ("f" :> FileF.tree) @@ ("g" :> g) @@ ("h" :> <<DotCall("g").tree>> \o g)

DotSamples ==
  {Sample("a\n" \o GoingOn(f).text \o "\n" \o y.text,
          <<CallA.tree, GoingOn(f).tree>> \o FileTrees[f] \o <<y.tree>>) :
     f \in {"f", "g"}, y \in CaselessLines}
  \cup {Sample(DotCall(f).text \o "\n" \o y.text, <<DotCall(f).tree>> \o FileTrees[f]) :
          f \in MCFiles, y \in Probes}

-----------------------------------------------------------------------------
(***************************************************************************)
(* Lists of tokens, in the grammar and next to it: one of each rule, and   *)
(* what becomes of it when a token is taken out, put in or replaced.       *)
(***************************************************************************)
G == INSTANCE Grammar
MCDerived(g, place) == LET ends == G!Input(g, place + 1) IN {end - 1 : end \in ends}

Glued == {"T_VAR_INIT", "T_COMMAND_SUB_START", "T_IONUMBER"}
Tokens(types) == [i \in DOMAIN types |-> Token(types[i], <<"a">>, types[i] \notin Glued)]

RuleTokens == {
  <<"T_VAR_INIT", "T_WORD", "T_REDIR_1", "T_VAR", "T_WORD", "T_IONUMBER", "T_REDIR_I_A", "T_WORD", "T_NEWLINE">>,
  <<"T_NOT", "T_WORD", "T_PIPE", "T_NEWLINE", "T_WORD", "T_AND", "T_WORD", "T_OR", "T_WORD", "T_SEMICOLON">>,
  <<"T_WORD", "T_SEMICOLON", "T_COMMAND_SUB_START", "T_WORD", "T_NEWLINE", "T_WORD", "T_COMMAND_SUB_END", "T_NEWLINE">>,
  <<"T_IF", "T_WORD", "T_SEMICOLON", "T_THEN", "T_WORD", "T_NEWLINE", "T_FI", "T_REDIR_2", "T_WORD">>,
  <<"T_IF", "T_WORD", "T_SEMICOLON", "T_THEN", "T_WORD", "T_SEMICOLON", "T_ELIF", "T_WORD", "T_SEMICOLON",
    "T_THEN", "T_WORD", "T_SEMICOLON", "T_ELSE", "T_WORD", "T_SEMICOLON", "T_FI">>,
  <<"T_WHILE", "T_WORD", "T_NEWLINE", "T_DO", "T_WORD", "T_SEMICOLON", "T_DONE", "T_PIPE", "T_WORD", "T_NEWLINE">>,
  <<"T_FOR", "T_VAR", "T_IN", "T_WORD", "T_WORD", "T_SEMICOLON", "T_NEWLINE", "T_DO", "T_WORD", "T_NEWLINE", "T_DONE">>,
  <<"T_FOR", "T_VAR", "T_SEMICOLON", "T_DO", "T_WORD", "T_SEMICOLON", "T_DONE">>,
  <<"T_CASE", "T_WORD", "T_IN", "T_WORD", "T_PIPE", "T_WORD", "T_C_PRTH", "T_WORD", "T_DOUBLE_SCOLON", "T_O_PRTH",
    "T_WORD", "T_C_PRTH", "T_NEWLINE", "T_WORD", "T_DOUBLE_SCOLON", "T_ESAC">>,
  <<"T_O_BRKT", "T_WORD", "T_SEMICOLON", "T_WORD", "T_NEWLINE", "T_C_BRKT", "T_SEMICOLON", "T_WORD">>,
  <<"T_O_PRTH", "T_WORD", "T_C_PRTH", "T_AND", "T_NEWLINE", "T_NEWLINE", "T_WORD">>,
  <<"T_FUN_INIT", "T_NEWLINE", "T_O_BRKT", "T_NEWLINE", "T_WORD", "T_SEMICOLON", "T_C_BRKT", "T_REDIR_1", "T_WORD">>}
OtherTypes == {"T_WORD", "T_VAR_INIT", "T_IONUMBER", "T_REDIR_1", "T_NOT", "T_PIPE", "T_OR", "T_NEWLINE", "T_SEMICOLON",
               "T_DOUBLE_SCOLON", "T_IF", "T_THEN", "T_FI", "T_DO", "T_DONE", "T_IN", "T_ESAC", "T_FOR",
               "T_O_PRTH", "T_C_PRTH", "T_C_BRKT", "T_FUN_INIT", "T_COMMAND_SUB_END", "T_BACKQUOTE_END", "T_ERROR"}
Edited(types) ==
  {types} \cup {SubSeq(types, 1, n) : n \in 1 .. Len(types)}
  \cup {RemoveAt(types, i) : i \in DOMAIN types}
  \cup {ReplaceAt(types, i, t) : i \in DOMAIN types, t \in OtherTypes}
  \cup {InsertAt(types, i, t) : i \in DOMAIN types, t \in OtherTypes}

-----------------------------------------------------------------------------
\* Scripts that end in the middle of something.
CutTexts == UNION {{SubSeq(x.text, 1, n) : n \in 1 .. Len(x.text)} : x \in Simple \cup Shallow}

InitAll ==
  /\ tick = 0
  /\ \/ \E s \in Samples \cup DotSamples : Reads(s.text) /\ expected = {s.tree}
     \/ \E text \in CutTexts : Reads(text) /\ expected = {}
     \/ \E types \in UNION {Edited(r) : r \in RuleTokens} : ReadsTokens(Tokens(types)) /\ expected = {}
Ticks == tick' = 1 - tick /\ UNCHANGED expected
MCNext == \/ Lex /\ Ticks
          \/ LexEnd /\ Ticks
          \/ ReadLine /\ Ticks
          \/ EndScript /\ Ticks
          \/ BadLine /\ Ticks
          \/ Finished /\ UNCHANGED <<expected, tick>>

\* The shell is alone at work, and goes on while there is a step (a state that
\* has none is reported as a deadlock).
Fairness == []<>Over \/ []<><<TRUE>>_tick
MCSpec == InitAll /\ [][MCNext]_<<vars, expected, tick>> /\ Fairness

\* A script that was composed from commands is evaluated as these commands, in
\* their order, each once and with the words, redirections and bodies it was
\* composed from, whatever stands on the lines before it.
ReadsBack ==
  \A trees \in expected :
    /\ IsPrefix(evaluated, trees)
    /\ Over => phase = "done" /\ evaluated = trees

\* A script comes to its end, or the shell to its error: no token without a
\* character and no line without a token is read over and over.
EventuallyOver == <>Over
=============================================================================
