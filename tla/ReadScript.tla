------------------------------- MODULE ReadScript ------------------------------
(***************************************************************************)
(* exec_script() (parser/exec_script.c): a script is cut into tokens as a  *)
(* whole, then read and evaluated line by line.  A line that sources a     *)
(* file (builtins/dot.c) calls exec_script() again in the middle of it:    *)
(* the lexer is set aside, the file read with a fresh one, and the lexer   *)
(* put back.  Evaluation is EvalAst's; here it only notes the trees.       *)
(***************************************************************************)
EXTENDS Lexer

CONSTANTS
  Files,      \* the files that a script may source
  Contents,   \* the text of each
  Parse(_, _),   \* parse_input(), Parser's ParseInput, and where a line
  Derived(_, _)  \* may end, Grammar's Input.  Their recursion is too deep for the
                 \* statistics that TLC keeps of each expression, not of constants

ASSUME ContentsAssumption == \A f \in Files : Len(Contents[f]) \in Nat

VARIABLES
  phase,      \* "lex", "parse", "return"; "done"; the "error" of err(2, ...); a "crash"
  calls,      \* of the dots that run: the lexer saved, and is errno set behind it
  evaluated   \* the trees given to eval_ast() so far

vars == <<lexer, subs, phase, calls, evaluated>>

NoLine == [array_pos |-> 0, errno |-> "0"]
LineFrom(L) == Parse(L.token_list, [NoLine EXCEPT !.array_pos = L.array_pos])

\* The files that a line sources: it is ". file", or that and a command whose
\* last system call fails.
CommandWords(ast) ==
  IF ast.type = "AST_CMD" /\ ast.ast.type = "AST_S_CMD"
  THEN [i \in DOMAIN ast.ast.cmd_arg |-> ast.ast.cmd_arg[i].command] ELSE <<>>
Dot(ast) == IF ast.type = "AST_LIST" THEN ast.left ELSE ast
Sourced(ast) == {f \in Files : CommandWords(Dot(ast)) = <<Chars("."), Chars(f)>>}

\* lexer_start(script, size, -1) on a lexer without tokens.
Begin(L, script) == [L EXCEPT !.script = Chars(script)]

Lex ==
  /\ phase = "lex"
  /\ Lexing
  /\ UNCHANGED <<phase, calls, evaluated>>

\* tokenify_next() has answered T_EOF.
LexEnd ==
  /\ phase = "lex" /\ AllLexed
  /\ phase' = "parse"
  /\ lexer' = TokenifyNext(lexer).L
  /\ UNCHANGED <<subs, calls, evaluated>>

\* A plausible bug: only the cursors are reset, the contexts stay as they are.
FreshCursor(L) == [L EXCEPT !.pos = 0, !.token_list = <<>>, !.array_pos = 0, !.script = <<>>]

\* lexer_reset(), and what save_lexer() starts from.
Fresh(L) == [NewContexts(L, Saved) EXCEPT !.pos = 0, !.token_list = <<>>, !.array_pos = 0,
                                          !.script = <<>>]

\* An empty line, or one that is evaluated; a dot saves the lexer and starts
\* on its file.  The file ends with errno at ERROR_EMPTY_EOF, and the loop goes
\* on behind the line only when something else of the line sets errno.
ReadLine ==
  /\ phase = "parse"
  /\ LET R == LineFrom(lexer)
         read == [lexer EXCEPT !.array_pos = R.s.array_pos]
     IN /\ R.s.errno = "0"
        /\ evaluated' = IF R.ast.type = "NULL" THEN evaluated ELSE Append(evaluated, R.ast)
        /\ \/ /\ Sourced(R.ast) = {}
              /\ lexer' = read
              /\ UNCHANGED <<phase, calls>>
           \/ \E f \in Sourced(R.ast) :
              /\ phase' = "lex"
              /\ calls' = Append(calls, [save |-> read, errnoSet |-> R.ast # Dot(R.ast)])
              /\ lexer' = Begin(Fresh(read), Contents[f])
  /\ UNCHANGED subs

\* The loop is over: lexer_reset(), and revert_lexer() for a dot.
EndScript ==
  /\ \/ phase = "parse" /\ LineFrom(lexer).s.errno = "ERROR_EMPTY_EOF"
     \/ phase = "return"
  /\ IF calls = <<>>
     THEN /\ phase' = "done" /\ lexer' = Fresh(lexer)
          /\ UNCHANGED calls
     ELSE /\ lexer' = [Last(calls).save EXCEPT !.eval = lexer.eval]
          /\ calls' = Front(calls)
          /\ phase' = IF Last(calls).errnoSet THEN "parse" ELSE "return"
  /\ UNCHANGED <<subs, evaluated>>

\* err(2, "Error while parsing shell command."), or a null pointer followed.
BadLine ==
  /\ phase = "parse"
  /\ LET errno == LineFrom(lexer).s.errno
     IN /\ errno \in {"ERROR_PARSING", "crash"}
        /\ phase' = IF errno = "crash" THEN "crash" ELSE "error"
  /\ UNCHANGED <<lexer, subs, calls, evaluated>>

Over == phase \in {"done", "error", "crash"}
Finished == Over /\ UNCHANGED vars

Next == Lex \/ LexEnd \/ ReadLine \/ EndScript \/ BadLine \/ Finished

\* The scripts and the tokens that may be read at the start.
Reads(script) ==
  /\ lexer = Begin(NewLexer, script)
  /\ phase = "lex" /\ subs = <<>> /\ calls = <<>> /\ evaluated = <<>>
ReadsTokens(list) ==
  /\ lexer = [NewLexer EXCEPT !.token_list = list]
  /\ phase = "parse" /\ subs = <<>> /\ calls = <<>> /\ evaluated = <<>>

ReadSpec(script, list) == (Reads(script) \/ ReadsTokens(list)) /\ [][Next]_vars

-----------------------------------------------------------------------------
(***************************************************************************)
(* Properties                                                              *)
(***************************************************************************)
ContextsOK ==
  /\ lexer.fun \in {GENERAL, "IN_FUN_NAME", "IN_FUN"}
  /\ lexer.exp \in {GENERAL, "IN_ESCAPE_EXP", "IN_SQUOTE_EXP"}
  /\ lexer.last_exp \in {GENERAL, "IN_ESCAPE_EXP", "IN_SQUOTE_EXP"}
  /\ lexer.soft \in {GENERAL, "IN_DQUOTE"} /\ lexer.last_soft \in {GENERAL, "IN_DQUOTE"}
  /\ lexer.redir \in {GENERAL, "IN_REDIR"} /\ lexer.eval \in {GENERAL, "IN_EVAL"}
  /\ lexer.var \in {GENERAL, "IN_VAR", "IN_VAR_NAME", "IN_VAR_INIT"}
  /\ lexer.for \in {GENERAL, "VAR_FOR", "IN_FOR"} /\ lexer.word \in {GENERAL, "IN_COMMAND"}
  /\ lexer.case \in {GENERAL, "IN_CASE", "IN_CASE_COMMAND"}

\* Between two tokens no quote and no escape is half read.
BetweenTokens == lexer.exp = GENERAL /\ lexer.last_exp = GENERAL

\* The cursor does not leave a substitution that is read: the lexer that reads on
\* behind it starts at the bracket that find_end_sub() found.
Contained == \A i \in DOMAIN subs : lexer.pos <= subs[i].end

\* The lexer's record has its type, between two tokens no quote and no escape is
\* half read, and what was set aside for a substitution is gone with it: it ends
\* in the script, and none is open when a line is parsed.
LexerSettled ==
  /\ ContextsOK /\ BetweenTokens
  /\ phase \in {"lex", "parse", "return", "done", "error", "crash"}
  /\ phase # "lex" => subs = <<>>
  /\ \A i \in DOMAIN subs : subs[i].end \in 0 .. Len(lexer.script) - 1

\* And the cursors are in the script and in its tokens, no arithmetic expansion is
\* half read unless the script ends in one: what is open is on record in subs or
\* in a context that a token may leave.
TypeOK ==
  /\ LexerSettled /\ Contained
  /\ lexer.pos \in 0 .. Len(lexer.script) + 1 /\ lexer.array_pos \in 0 .. Len(lexer.token_list)
  /\ lexer.eval = GENERAL \/ lexer.pos >= Len(lexer.script)

\* Where a line may end according to the grammar.
AtLine == phase = "parse" /\ lexer.array_pos < Len(lexer.token_list)
Ends(lenient) ==
  Derived([T |-> lexer.token_list, lenient |-> lenient], lexer.array_pos)

\* What is a line of sh_grammar.txt is accepted, and read to an end it has there:
\* no rule gives up, or stops, where another alternative would have gone on.
GrammarAccepted ==
  AtLine /\ Ends(FALSE) # {} =>
    LET s == LineFrom(lexer).s IN s.errno = "0" /\ s.array_pos \in Ends(FALSE)

\* What is accepted is a line of the grammar with the liberties that Grammar
\* names: an error of a rule below is never lost on the way up.
AcceptedIsGrammar ==
  AtLine => LET s == LineFrom(lexer).s IN s.errno = "0" => s.array_pos \in Ends(TRUE)
=============================================================================
