--------------------------------- MODULE Parser --------------------------------
(***************************************************************************)
(* The parser (parser/): a recursive descent over the tokens of g_lexer_   *)
(* info.token_list.  It keeps a cursor, array_pos, and reports an error    *)
(* through errno, which nobody clears before the line is over and which is *)
(* not looked at after every call: s is the pair of both.  An error does   *)
(* not stop the descent at once, and what the callers still do can make    *)
(* the shell follow a null pointer ("crash").                              *)
(*                                                                         *)
(* Each Parse... takes the tokens and s, and returns the new s and what    *)
(* the C function returns.                                                 *)
(***************************************************************************)
EXTENDS Integers, Sequences, SequencesExt

NULL == [type |-> "NULL"]
Result(s, ast) == [s |-> s, ast |-> ast]

Failing(s) == s.errno # "0"
Error(s) == IF s.errno = "crash" THEN s ELSE [s EXCEPT !.errno = "ERROR_PARSING"]
Failed(s) == Result(Error(s), NULL)

\* look_forward_token() and get_next_token(), behind the list an end of file.
Ahead(T, s, i) ==
  IF s.array_pos + i < Len(T) THEN T[s.array_pos + i + 1]
  ELSE [type |-> "T_EOF", command |-> <<>>, is_space_after |-> TRUE]
Peek(T, s) == Ahead(T, s, 0)
Type(T, s) == Peek(T, s).type
\* pop_token()
Pop(T, s) == [s EXCEPT !.array_pos = IF @ < Len(T) THEN @ + 1 ELSE @]

\* A plausible bug: one newline is skipped where there may be several.
SkipNewline(T, s) == IF Type(T, s) = "T_NEWLINE" THEN Pop(T, s) ELSE s

\* skip_newlines()
SkipNewlines(T, s) ==
  [s EXCEPT !.array_pos = CHOOSE p \in @ .. Len(T) + @ :
     /\ Ahead(T, [s EXCEPT !.array_pos = p], 0).type # "T_NEWLINE"
     /\ \A q \in @ .. p - 1 : T[q + 1].type = "T_NEWLINE"]

PartWord == {"T_WORD", "T_VAR", "T_VAR_INQUOTE", "T_COMMAND_SUB_START", "T_COMMAND_SUB_START_Q",
             "T_BACKQUOTE_START", "T_BACKQUOTE_START_Q", "T_EVALEXPR"}
Chevrons == {"T_REDIR_1", "T_REDIR_I_1", "T_REDIR_A", "T_REDIR_I_A", "T_REDIR_2",
             "T_REDIR_O_2", "T_REDIR_PIPE"}

\* check_ender_token()
Enders == {"T_EOF", "T_THEN", "T_ELSE", "T_ELIF", "T_FI", "T_C_PRTH", "T_C_BRKT", "T_DO",
           "T_DONE", "T_IN", "T_OR", "T_AND", "T_SEMICOLON", "T_PIPE", "T_ESAC",
           "T_COMMAND_SUB_END", "T_ERROR"}

\* A tok_vect, where there may be none.
Vect(list) == [type |-> "tok_vect", list |-> list]

\* builds.c, builds2.c
Binary(type, left, right) == [type |-> type, left |-> left, right |-> right]
Single(ast, type) == [type |-> type, ast |-> ast]
If(condition, true_c, false_c) ==
  [type |-> "AST_IF", condition |-> condition, true_c |-> true_c, false_c |-> false_c]
SimpleCmd(cmd_arg, vars) == [type |-> "AST_S_CMD", cmd_arg |-> cmd_arg, vars |-> vars]
Cmd(ast, redirs) == [type |-> "AST_CMD", ast |-> ast, redirs |-> redirs]
For(name, seq, statement) == [type |-> "AST_FOR", name |-> name, seq |-> seq, statement |-> statement]
Case(pattern, items) == [type |-> "AST_CASE", pattern |-> pattern, case_items |-> items]
Func(ast, name) == [type |-> "AST_FUNC", ast |-> ast, name |-> name]

RECURSIVE ParseList(_, _), ParseAndOr(_, _), ParsePipeline(_, _), ParseCompound(_, _),
          ParseCommand(_, _), ParseShellCommand(_, _), ParseIfRule(_, _, _),
          ParseRedirs(_, _, _), ParseVars(_, _, _, _), ParseWords(_, _, _, _),
          AddWord(_, _, _, _, _), ParseSeq(_, _, _), ParsePatterns(_, _, _), ParseCaseClause(_, _)

-----------------------------------------------------------------------------
(***************************************************************************)
(* Words, redirections, simple commands                                    *)
(***************************************************************************)
Quoted(part) ==
  [part EXCEPT !.type = CASE @ = "T_VAR" -> "T_VAR_INQUOTE"
                          [] @ = "T_COMMAND_SUB_START" -> "T_COMMAND_SUB_START_Q"
                          [] OTHER -> @]

\* add_word_vect(): the parts up to a blank are appended to vect; added is what
\* it returns, and has is whether this call appended one already.
AddWord(T, s, vect, quote, has) ==
  LET tok == Peek(T, s)
      popped == Pop(T, s)
      backquote == tok.type \in {"T_BACKQUOTE_START", "T_BACKQUOTE_START_Q"}
      isSub == backquote \/ tok.type \in {"T_COMMAND_SUB_START", "T_COMMAND_SUB_START_Q"}
      C == IF isSub THEN ParseCompound(T, popped) ELSE Result(popped, NULL)
      after == Peek(T, C.s)
      s2 == IF isSub THEN Pop(T, C.s) ELSE popped
      part == [type |-> CASE tok.type = "T_BACKQUOTE_START" -> "T_COMMAND_SUB_START"
                          [] tok.type = "T_BACKQUOTE_START_Q" -> "T_COMMAND_SUB_START_Q"
                          [] OTHER -> tok.type,
               command |-> tok.command, cmd_sub |-> C.ast,
               is_space_after |-> IF isSub THEN after.is_space_after ELSE tok.is_space_after]
      longer == Append(vect, IF quote THEN Quoted(part) ELSE part)
  IN IF tok.type \notin PartWord
     THEN [s |-> s, added |-> has,
           vect |-> IF has THEN [vect EXCEPT ![Len(vect)].is_space_after = TRUE] ELSE vect]
     ELSE IF isSub /\ after.type # (IF backquote THEN "T_BACKQUOTE_END" ELSE "T_COMMAND_SUB_END")
     THEN [s |-> Error(s2), added |-> FALSE, vect |-> vect]
     ELSE IF tok.is_space_after THEN [s |-> s2, added |-> TRUE, vect |-> longer]
     ELSE AddWord(T, s2, longer, quote, TRUE)
AddWordVect(T, s, vect, quote) == AddWord(T, s, vect, quote, FALSE)

\* is_redir(), err_redir()
IsRedir(T, s) == Type(T, s) \in Chevrons \cup {"T_IONUMBER"}
ErrRedir(T, s) ==
  IF Type(T, s) = "T_IONUMBER"
  THEN Ahead(T, s, 1).type \notin Chevrons \/ Ahead(T, s, 2).type \notin PartWord
  ELSE Ahead(T, s, 1).type \notin PartWord

\* parse_redirs(): the redirections are appended to list; ast is the list.
ParseRedirs(T, s, list) ==
  LET tok == Peek(T, s)
      numbered == tok.type = "T_IONUMBER"
      s1 == IF numbered THEN Pop(T, s) ELSE s
      type == Type(T, s1)
      W == AddWordVect(T, Pop(T, s1), <<>>, TRUE)
      ionumber == IF numbered THEN tok.command
                  ELSE IF type \in {"T_REDIR_I_1", "T_REDIR_I_A", "T_REDIR_O_2"} THEN <<"0">> ELSE <<"1">>
  IN IF ~ IsRedir(T, s) THEN Result(s, list)
     ELSE IF ErrRedir(T, s) THEN Result(Error(s), list)
     ELSE IF ~ W.added THEN Result(Error(W.s), list)
     ELSE ParseRedirs(T, W.s, Append(list, [ionumber |-> ionumber, redir_type |-> type, word |-> W.vect]))

\* parse_var_assignement(), then the words of parse_simple_command(): both
\* read redirections in between, and stop when errno is set behind them.
ParseVars(T, s, vars, redirs) ==
  LET R == ParseRedirs(T, s, redirs)
      tok == Peek(T, R.s)
      V == AddWordVect(T, Pop(T, R.s), <<>>, TRUE)
      W == IF tok.is_space_after THEN [s |-> Pop(T, R.s), value |-> NULL]
           ELSE [s |-> V.s, value |-> Vect(V.vect)]
  IN IF Failing(R.s) THEN Failed(R.s)
     ELSE IF tok.type = "T_VAR_INIT"
     THEN ParseVars(T, W.s, Append(vars, [name |-> tok.command, value |-> W.value]), R.ast)
     ELSE ParseWords(T, R.s, SimpleCmd(<<>>, vars), R.ast)

\* ast is what parse_command() makes of the command.
ParseWords(T, s, cmd, redirs) ==
  LET W == AddWordVect(T, s, cmd.cmd_arg, FALSE)
      R == ParseRedirs(T, W.s, redirs)
  IN IF ~ W.added THEN Result(W.s, Cmd(cmd, redirs))
     ELSE IF Failing(R.s) THEN Failed(R.s)
     ELSE ParseWords(T, R.s, [cmd EXCEPT !.cmd_arg = W.vect], R.ast)
ParseSimpleCommand(T, s) == ParseVars(T, s, <<>>, <<>>)

-----------------------------------------------------------------------------
(***************************************************************************)
(* Compound commands                                                       *)
(***************************************************************************)
\* A plausible bug: the token is popped, and nobody looks at what it is.
ExpectAny(T, s, types) == Pop(T, s)

\* The token at the cursor is popped and must be one of types.
Expect(T, s, types) == IF Type(T, s) \in types THEN Pop(T, s) ELSE Error(Pop(T, s))
\* The value of a rule: nothing when a part of it is missing or errno is set.
Built(s, parts, ast) == Result(s, IF Failing(s) \/ NULL \in parts THEN NULL ELSE ast)

\* parse_if_rule(): the fi of an elif is left to the if.
ParseIfRule(T, s, inElif) ==
  LET C == ParseCompound(T, s)
      sThen == Expect(T, C.s, {"T_THEN"})
      A == ParseCompound(T, sThen)
      next == Type(T, A.s)
      B == CASE next = "T_ELSE" -> ParseCompound(T, Pop(T, A.s))
             [] next = "T_ELIF" -> ParseIfRule(T, Pop(T, A.s), TRUE)
             [] OTHER -> Result(A.s, NULL)
      end == IF ~ inElif /\ Type(T, B.s) # "T_ERROR" THEN Expect(T, B.s, {"T_FI"})
             ELSE IF Type(T, B.s) = "T_FI" THEN B.s ELSE Error(B.s)
  IN IF C.ast = NULL \/ Failing(sThen) THEN Result(sThen, NULL)
     ELSE IF next \in {"T_EOF", "T_ERROR"} THEN Failed(A.s)
     ELSE IF A.ast = NULL \/ Failing(A.s) THEN Result(A.s, NULL)
     ELSE IF next \in {"T_ELSE", "T_ELIF"} /\ (B.ast = NULL \/ Failing(B.s)) THEN Result(B.s, NULL)
     ELSE Built(end, {}, If(C.ast, A.ast, B.ast))

\* parse_while_until_rule()
ParseWhileUntilRule(T, s, type) ==
  LET C == ParseCompound(T, s)
      sDo == Expect(T, C.s, {"T_DO"})
      A == ParseCompound(T, sDo)
      end == Expect(T, A.s, {"T_DONE"})
  IN IF C.ast = NULL \/ Failing(sDo) THEN Result(sDo, NULL)
     ELSE Built(end, {A.ast}, Binary(IF type = "T_WHILE" THEN "AST_WHILE" ELSE "AST_UNTIL", C.ast, A.ast))

\* The words behind "in".
ParseSeq(T, s, vect) ==
  LET W == AddWordVect(T, s, vect, FALSE)
  IN IF W.added THEN ParseSeq(T, W.s, W.vect) ELSE W

\* parse_for_rule()
ParseForRule(T, s) ==
  LET name == Peek(T, s)
      s1 == SkipNewlines(T, Expect(T, s, {"T_VAR"}))
      next == Type(T, s1)
      W == ParseSeq(T, Pop(T, s1), <<>>)
      s2 == CASE next = "T_DO" -> s1
              [] next = "T_IN" -> Expect(T, W.s, {"T_SEMICOLON", "T_NEWLINE"})
              [] OTHER -> Pop(T, s1)
      sDo == Expect(T, SkipNewlines(T, s2), {"T_DO"})
      A == ParseCompound(T, sDo)
      end == Expect(T, A.s, {"T_DONE"})
  IN IF name.type # "T_VAR" THEN Failed(Pop(T, s))
     ELSE IF next \notin {"T_SEMICOLON", "T_IN", "T_DO"} THEN Failed(s1)
     ELSE IF next = "T_IN" /\ Type(T, W.s) \notin {"T_SEMICOLON", "T_NEWLINE"} THEN Failed(s2)
     ELSE IF Type(T, SkipNewlines(T, s2)) # "T_DO" THEN Result(sDo, NULL)
     ELSE Built(end, {A.ast}, For(name.command, IF next = "T_IN" THEN Vect(W.vect) ELSE NULL, A.ast))

\* The patterns of parse_case_item(); one may be missing.
ParsePatterns(T, s, vect) ==
  LET W == AddWordVect(T, s, vect, TRUE)
  IN IF Type(T, W.s) = "T_PIPE" THEN ParsePatterns(T, Pop(T, W.s), W.vect) ELSE W

\* parse_case_item()
ParseCaseItem(T, s) ==
  LET P == ParsePatterns(T, IF Type(T, s) = "T_O_PRTH" THEN Pop(T, s) ELSE s, <<>>)
      s1 == Expect(T, P.s, {"T_C_PRTH"})
      A == ParseCompound(T, SkipNewlines(T, s1))
  IN IF Type(T, P.s) # "T_C_PRTH" THEN Failed(s1)
     ELSE Built(A.s, {}, [type |-> "case_item", seq |-> P.vect, statement |-> A.ast])

\* parse_case_clause(): when the item could not be read, what follows ";;" is
\* hung up behind a null pointer.
ParseCaseClause(T, s) ==
  LET I == ParseCaseItem(T, s)
      R == ParseCaseClause(T, SkipNewlines(T, Pop(T, I.s)))
  IN IF Type(T, s) = "T_ESAC" THEN Result(s, <<>>)
     ELSE IF Type(T, I.s) # "T_DOUBLE_SCOLON" THEN Result(SkipNewlines(T, I.s), <<I.ast>>)
     ELSE IF I.ast = NULL THEN Result([R.s EXCEPT !.errno = "crash"], <<>>)
     ELSE Result(R.s, <<I.ast>> \o R.ast)

\* parse_case_rule()
ParseCaseRule(T, s) ==
  LET W == AddWordVect(T, s, <<>>, TRUE)
      sWord == SkipNewlines(T, W.s)
      sIn == Expect(T, sWord, {"T_IN"})
      C == ParseCaseClause(T, SkipNewlines(T, sIn))
      end == Expect(T, C.s, {"T_ESAC"})
  IN IF ~ W.added THEN Failed(W.s)
     ELSE IF Type(T, sWord) # "T_IN" THEN Failed(sIn)
     ELSE IF Failing(C.s) THEN Result(C.s, NULL)
     ELSE Built(end, {}, Case(W.vect, C.ast))

\* O_BRKT(), O_PRTH(), parse_shell_command()
ParseShellCommand(T, s) ==
  LET type == Type(T, s)
      inner == Pop(T, s)
      C == ParseCompound(T, inner)
  IN CASE type = "T_O_BRKT" -> Built(Expect(T, C.s, {"T_C_BRKT"}), {}, C.ast)
       [] type = "T_O_PRTH" -> Built(Expect(T, C.s, {"T_C_PRTH"}), {}, Single(C.ast, "AST_SUBSHELL"))
       [] type = "T_IF" -> ParseIfRule(T, inner, FALSE)
       [] type = "T_FOR" -> ParseForRule(T, inner)
       [] type \in {"T_WHILE", "T_UNTIL"} -> ParseWhileUntilRule(T, inner, type)
       [] type = "T_CASE" -> ParseCaseRule(T, inner)
       [] OTHER -> Failed(inner)

\* parse_funcdec()
ParseFuncdec(T, s) ==
  LET C == ParseShellCommand(T, SkipNewlines(T, Pop(T, s)))
  IN Built(C.s, {}, Func(C.ast, Peek(T, s).command))

\* parse_command()
ParseCommand(T, s) ==
  LET type == Type(T, s)
      C == IF type = "T_FUN_INIT" THEN ParseFuncdec(T, s) ELSE ParseShellCommand(T, s)
      R == ParseRedirs(T, C.s, <<>>)
      S == ParseSimpleCommand(T, s)
  IN IF type \in {"T_EOF", "T_ERROR"} THEN Failed(s)
     ELSE IF type \in {"T_IF", "T_O_PRTH", "T_O_BRKT", "T_FOR", "T_WHILE", "T_UNTIL", "T_CASE", "T_FUN_INIT"}
     THEN Built(R.s, {C.ast}, Cmd(C.ast, R.ast))
     ELSE Built(S.s, {}, S.ast)

-----------------------------------------------------------------------------
(***************************************************************************)
(* Pipelines and lists                                                     *)
(***************************************************************************)
\* What the right side of "|", "&&" and "||" must be.
RightOf(R, ast) == IF R.ast = NULL THEN Failed(R.s) ELSE Built(R.s, {}, ast)

\* parse_pipeline()
ParsePipeline(T, s) ==
  LET type == Type(T, s)
      N == ParsePipeline(T, Pop(T, s))
      L == ParseCommand(T, s)
      R == ParsePipeline(T, SkipNewlines(T, Pop(T, L.s)))
  IN IF type \in {"T_EOF", "T_ERROR"} THEN Failed(s)
     ELSE IF type = "T_NOT" THEN Built(N.s, {N.ast}, Single(N.ast, "AST_NOT"))
     ELSE IF Type(T, L.s) = "T_ERROR" THEN Failed(L.s)
     ELSE IF L.ast = NULL \/ Failing(L.s) \/ Type(T, L.s) # "T_PIPE" THEN L
     ELSE RightOf(R, Binary("AST_PIPE", L.ast, R.ast))

\* parse_and_or(): the first operator of a list is the root of its tree.
ParseAndOr(T, s) ==
  LET L == ParsePipeline(T, s)
      type == Type(T, L.s)
      R == ParseAndOr(T, SkipNewlines(T, Pop(T, L.s)))
  IN IF type = "T_ERROR" THEN Failed(L.s)
     ELSE IF L.ast = NULL \/ Failing(L.s) \/ type \notin {"T_AND", "T_OR"} THEN L
     ELSE RightOf(R, Binary(IF type = "T_AND" THEN "AST_AND" ELSE "AST_OR", L.ast, R.ast))

\* The end of parse_list() and parse_compound(): L, and behind it R.
Listed(L, R) ==
  IF Failing(R.s) THEN Result(R.s, NULL)
  ELSE IF R.ast = NULL THEN Result(R.s, L.ast)
  ELSE Result(R.s, Binary("AST_LIST", L.ast, R.ast))

\* parse_list()
ParseList(T, s) ==
  LET L == ParseAndOr(T, s)
  IN IF Type(T, s) \in Enders \cup {"T_NEWLINE"} THEN Result(s, NULL)
     ELSE IF L.ast = NULL \/ Failing(L.s) THEN Result(L.s, NULL)
     ELSE IF Type(T, L.s) = "T_ERROR" THEN Failed(L.s)
     ELSE IF Type(T, L.s) # "T_SEMICOLON" THEN L
     ELSE Listed(L, ParseList(T, Pop(T, L.s)))

\* parse_compound()
ParseCompound(T, s) ==
  LET first == SkipNewlines(T, s)
      L == ParseAndOr(T, first)
  IN IF Type(T, first) \in Enders THEN Result(first, NULL)
     ELSE IF Type(T, L.s) = "T_ERROR" THEN Failed(L.s)
     ELSE IF L.ast = NULL \/ Failing(L.s) THEN Result(L.s, NULL)
     ELSE IF Type(T, L.s) \notin {"T_SEMICOLON", "T_NEWLINE"} THEN L
     ELSE Listed(L, ParseCompound(T, SkipNewlines(T, Pop(T, L.s))))

\* A plausible bug: the newline of an empty line is looked at and not popped.
ParseInputStuck(T, s) ==
  LET L == ParseList(T, s)
  IN CASE Type(T, s) = "T_EOF" -> Result([s EXCEPT !.errno = "ERROR_EMPTY_EOF"], NULL)
       [] Type(T, s) = "T_NEWLINE" -> Result(s, NULL)
       [] Type(T, s) = "T_ERROR" -> Failed(s)
       [] OTHER -> Built(Expect(T, L.s, {"T_EOF", "T_NEWLINE"}), {}, L.ast)

\* parse_input(): an empty line, or one list and the end of its line.
ParseInput(T, s) ==
  LET L == ParseList(T, s)
  IN CASE Type(T, s) = "T_EOF" -> Result([s EXCEPT !.errno = "ERROR_EMPTY_EOF"], NULL)
       [] Type(T, s) = "T_NEWLINE" -> Result(Pop(T, s), NULL)
       [] Type(T, s) = "T_ERROR" -> Failed(s)
       [] OTHER -> Built(Expect(T, L.s, {"T_EOF", "T_NEWLINE"}), {}, L.ast)
=============================================================================
