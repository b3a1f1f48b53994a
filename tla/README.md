# A TLA+ verification project for 42sh

42sh is a POSIX-like shell in C (`src/src`). It reads a script, a string or its
standard input, parses one line at a time into a syntax tree and evaluates the
tree, forking for external commands, pipelines, subshells and command
substitutions. This directory holds TLA+ modules translated from its source,
TLC configurations that check them on small instances, and proofs checked by
TLAPS. Paths below are relative to `src/src`.

## The system

| part | state it keeps | operations | talks to |
|---|---|---|---|
| script loop (`parser/exec_script.c`) | `errno` as end-of-input flag, the current tree | `exec_script` | lexer, parser, evaluator; re-entered by the dot builtin |
| evaluator (`eval_ast/`, `execution/case.c`, `subshell.c`) | the C stack, "?" | `eval_ast`, `eval_ast2`, `treat_case`, `subhsell` | everything that executes |
| break/continue record (`ast_info/`) | `depth`, `type`, `code` behind the global `ast_info` | `inc_depth`, `set_b_c`, `b_c_is_done`, `is_breaking` | loops of the evaluator, builtins break and continue |
| simple commands (`execution/xexecution.c`, `builtins/builtins_dispatch.c`) | none | `exec_s_cmd`, `execute`, `exec_builtin` | functions, builtins, fork/exec |
| builtins (`builtins/`) | working directory, environment, variables | echo exit cd unset . export break continue pwd | variables, evaluator |
| pipelines, command substitution (`execution/pipe.c`, `command_sub.c`) | a pipe, child processes | `exec_pipe`, `get_stdout` | evaluator in children |
| redirections (`execution/redir.c`) | the descriptor table, a list of saved descriptors | `exec_redirs`, `apply_redir`, `unapply_redir` | evaluator |
| functions (`func/`, `execution/funcx.c`) | name-to-tree vector, the positional parameters | `add_fc`, `destroy_fc`, `get_fc`, `exec_func` | variables, tree handling |
| variables (`vars/`, `program_start/special_vars.c`) | vector of name and value, `at`, `argc` | `add_var`, `get_var`, `push_pop_arg`, ... | expansion, builtins |
| word expansion (`vars/expand_vars.c`) | the static accumulator `acc` | `expand_vars_vect`, `get_word` | variables, command substitution, arithmetic |
| arithmetic (`evalexpr/`) | operand stack | `launch_evalexpr` | expansion |
| lexer (`lexer/`) | input position, look-ahead, context stack | `look_ahead`, `get_token`, `lexer_start`, `save_lexer` ... | parser |
| parser (`parser/`) | the tree being built | `parse_input` and one function per rule | lexer |
| tree handling (`handle_ast/`) | none | duplicate, free | functions, script loop |
| allocator (`xalloc/`) | a linked list of every live block | `xmalloc`, `xcalloc`, `xrecalloc`, `xfree`, `xfree_all` | everything |
| start-up (`program_start/`, `main.c`) | `opt` | options, reading the script | script loop |

The shell is sequential; its concurrency is with the processes it forks, and it
always waits for one child before it does anything else. What is hard in it is
long-range: counters that loops, builtins, functions and `exec_script` must keep
paired along every early return, global state (`errno`, `ast_info`, the lexer,
`acc`) that a nested call changes under its caller, descriptors and parameters
that must be put back on every path, and pipes of bounded capacity.

### What makes each part correct

- **Evaluator, break/continue record**: a `break n` or `continue n` ends exactly
  the loops it is addressed to, through functions, `case`, negations and lists;
  nothing is executed in between; children take their counters with them; "?" is
  what the last command left; every status fits in a byte.
- **Script loop**: every line is executed up to the first that does not parse,
  although `errno` is both the end-of-input flag and everybody else's error code.
- **Pipelines, substitutions**: they end, no process keeps an end of a pipe, the
  status is that of the right process, no byte is lost and none is written past
  the buffer.
- **Redirections**: a command sees the descriptors its redirections stand for
  and leaves the table as it was, however deep redirected commands nest.
- **Functions, parameters**: no tree is freed twice, nor while it is executed;
  the four copies of the parameters agree and the caller has its own back.
- **Expansion, arithmetic**: the words and values are those of the language.
- **Allocator**: the list of blocks is intact through every order of calls.
- **Lexer, parser**: the contexts that a nested construct opens are closed with
  it; a script is evaluated as the commands it is composed of; what is accepted
  is what `parser/sh_grammar.txt` generates; every script is read to an end.

`PROJECT.json` lists the places in the code where these could go wrong, with the
properties that would show it.

## Modules

Modules under one heading are composed or refined as the text says.

**Reading.** `Lexer` is `lexer_start()`: the record `lexer` is `g_lexer_info`
with its dozen contexts, a step appends one token, and `subs` is the stack of
`lex_sub()` calls, one per substitution that is open. `Parser` is
`parse_input()` with one operator per rule; a state `s` is the place in the
vector of tokens and `errno`, a result is that and a tree. `Grammar` is
`sh_grammar.txt` as a recogniser, the reference `Parser` is compared with.
`ReadScript` extends `Lexer` with `exec_script()`: a script is cut into tokens as
a whole, then parsed and evaluated line by line, and a line that sources a file
does all of it again between `save_lexer()` and `revert_lexer()`. `MCRead`
composes it with `Parser` and `Grammar` and builds scripts beside the trees
they stand for. `Parse` and `Derived`, constants of `ReadScript`, are given
`ParseInput` and `Input` there: their recursion is too deep for the statistics
TLC keeps of every other expression. `ReadScript_proofs` has the proofs about
`Lexer` and `ReadScript`.

**Evaluator.** `AstInfo` has the operators on `*ast_info`. `EvalAst` extends it:
the C stack is the variable `stack`, one frame per active `eval_ast()` ("eval")
or `exec_script()` ("script") and one where a child was forked ("fork"). A step
goes from one call or return to the next; the macros `RETURN`, `EVAL_AST` and
`EVAL_AST_IN_LOOP` are `Return`, `Evaluated`/`EvalAstBreaks` and
`EvalInLoop`/`LoopBroken`. Because a parent only waits for its child, one stack
serves for all processes: the "fork" frame keeps the parent's globals, which
come back when the child exits. Trees are a constant set of records; what a
simple command names, how redirections end and what an external command returns
are data of the tree or a choice. `TreeCopy` is `handle_rec()` with `H_DUP`, the
copy a function is kept as. `LoopControl` is the abstract specification of break
and continue: a request is addressed to one open loop, by its number, and stays
so; it has no counters. `EvalAst` implements it with the refinement mapping in
`BreakReachesItsLoop`. `MCEvalAst` holds the families of scripts, `MCEvalRef` a
recursive semantics of the language (no stack, no counters) that the evaluator
is compared with. `EvalAst_proofs` and `EvalLoops_proofs` hold the proofs. Lines
are trees here: how a text becomes one is the matter of `ReadScript`.

**Redirections.** `Redirs` is the descriptor table of one process and the stack
of active `exec_redirs()`; `MCRedirs` its instances, each a table the shell
starts with and the lists its commands are written with. `Redirs_proofs` has the
proofs.

**Pipes.** `PipeEnds` is a pipe as the operating system gives it (bounded
buffer, readers, writers, end of file, SIGPIPE). `Pipeline` is `exec_pipe()`
with its two children, `CommandSub` is `get_stdout()` with its child, and
`SubPipe` composes both to `$(left | right)`: four processes and two pipes, the
child of `CommandSub` being the shell of `Pipeline`. `SubPipe_proofs`
holds the proofs about both, those of `Pipeline` first.

**Functions.** `FuncTable` is the table of functions and the memory of their
trees, as far as `handle_rec()` frees it: the `struct ast` around each node, the
child of a `!` or a `( )` and the items of a `case` are never freed before
`xfree_all()` and not followed (`Released` is the part that is freed, `Memory`
what is evaluated). `VarVector` is the vector of variables with its growth,
`Positional` the parameters, which are in four places, `exec_func()`'s way of
saving them and assignments to other variables; `CallStack` is what `Positional`
implements. `Calls` composes functions and parameters: calling a function is one
step of both. `MCCalls` makes names of functions and tree addresses
interchangeable. `Calls_proofs` holds the proofs about all of them. The loops over
arguments are recursive functions, and the decimal name of a number is a constant,
`Decimal`: all that counts is that numbers have different names, which the shell
gives to nothing else. A script may assign parameters like any name (`export 1=x`,
`for * in`): the one of `Calls` assigns `2`, the theorems are about any.

**Expansion.** `FieldSplit` is `my_strsep()`, `Expand` extends it with
`expand_vars_vect()` and `get_word()`; the cursors `i`, `nb_strtok`, `nb_at` and
the static `acc` are its variables. `MCExpand` gives the tokens, `Expand_proofs`
has the proofs.

**Arithmetic.** `EvalExpr` is `launch_evalexpr()` as a pure function, with the
grammar of expressions beside it as the reference; `MCEvalExpr` the alphabets.

**Allocator.** `XAlloc` is the linked list of headers, `Allocator` what it
implements: blocks with contents, and `xfree_all()` at the end. `XAlloc_proofs` has
the proofs.

## Runs

| run | what it explores | what it shows |
|---|---|---|
| `EvalAll` | about 190 scripts: two nested loops of every kind with break and continue 1 to 3 in bodies and conditions; the same through functions, subshells, pipes, substitutions, `case`, dot, exit, failing redirections; forks that fail; every sequence of statuses | `TypeOK`; `DepthMatchesLoops`: the counter is the number of open loops; `NothingRunsWhileBreaking`; `BreakReachesItsLoop`: `LoopControl` is implemented; `BreakIsHeard`; `AllLinesRun`; `BreakIsResolved` (liveness) |
| `EvalRef` | the same without dot and failing forks, lines with up to 8 choices | `MatchesReference`: status, function table and every "?" a command sees are those of the recursive semantics |
| `ReadAll` | scripts of every construct, two levels deep, with every form of word, one line behind another; with sourced files, two deep; the same cut off at every character; 12 lists of tokens, one for each rule, and every list one edit away | `TypeOK`; `ReadsBack`: what is evaluated is what the script was composed from; `GrammarAccepted`, `AcceptedIsGrammar`: a line is accepted, and ends, where the grammar says, with the liberties `Grammar` names; `EventuallyOver` (liveness): nothing is read for ever |
| `RedirAll` | redirected commands three deep: of different standard descriptors with room enough, the same when five descriptors are free at most, and of closed descriptors, of the same one twice and of those the shell uses itself near the end of the table | `TypeOK`; `CommandSees`; `SavedKept`; `SavedOpen`: what will be undone is open and nothing is shared; `Restored` |
| `SubPipe` | `$(left \| right)`, all interleavings, 0 to 3 bytes in a pipe of 3, two bytes per read, forks that fail, children that end early or are killed | `TypeOK`; `EndsInOrder`: a left command has a reader and no end stays open; `Fits`: the buffer has room; `TextIsComplete`; `StatusIsRight`; `SubTerminates` (liveness) |
| `Calls` | 3 functions, 5 trees, calls two deep, 0 to 2 arguments, assignments to `x`, `?` and `2`, a vector that starts with 3 places | `TypeOK`, with the bounds and the zeros behind the vector; `TreesHaveOwners`: no memory is freed for two owners; `RunningIsLive`; `ChangesOneFunction`; `ParametersAgree`, for the parameters the script does not assign; `SetsOneVariable`; `IsCallStack` (refinement) |
| `ExpandPlain` | all lists of up to 3 tokens of 7 kinds, apart or joined, 4 parameter lists | `CursorsInside`, `WordsAreRight`, `Terminates` |
| `ExprAll` | all texts of up to 6 characters over three alphabets | `SyntaxChecked`, `ValueIsRight` |
| `XAlloc` | 3 addresses, blocks of up to 2 units | `TypeOK`; `AllLinked`: the list is intact both ways; `FreeAllReturns`: `xfree_all()` ends and leaves nothing (liveness); `IsAllocator` (refinement) |
| `EvalDotLines` | a line with dot in the middle of a script | violated: see findings |
| `PipeFull` | `$(left \| right)`, one byte more than the pipe holds | violated: see findings |
| `FuncSubst` | `Calls` with substitutions in lines | violated: see findings |

Why the bounds are enough. Two nested loops and counts up to 3 give each relation
of depth and count (below, equal, above); a third loop adds none. Words of a `for`
matter as zero, last or not last. Statuses are tested for zero only, and 300 is
there for the cut to a byte. Three nested redirected commands put an activation
above, at and below each other. A pipe that takes as many bytes as are written,
and a chunk smaller than that, give more than one read, a last partial one and end
of file. Two nested calls and 0 to 2 arguments give each relation of the caller's
number and the callee's. Three tokens are two joins; five characters of an
expression are two operators with their operands or one in parentheses, and six
leave room for a sign or a blank. `MaxTrace` bounds the choices of one line (four
turns of an outer loop with an inner one). `MaxLeft` is 2: what a refused
redirection leaves applied is there for redirections that are refused in their
turn, and for those that are not. `MaxFd` is 20: nine saved and opened descriptors
fit when the shell starts with three, and do not when it starts with all but two
or four of the others taken. A vector of variables that starts with 3 places
instead of the 8 of `init_vars_vect()` has grown to 12 when the shell has set its
own, and grows again in the step that adds the twelfth name, which is an
assignment or a call. A construct within a construct shows whether a context
survives the inner one, and a probe on the next line whether it survives the line;
a third level meets no other context. One edit of a list that is in the grammar is
the smallest error, and puts every kind of token behind every other. The pipe of
the kernel has 65536 bytes and a read asks for 2048: only their order matters.

Each property has a mutant in `PROJECT.json`: a plausible error in the code
(`A plausible bug: ...` in the modules) under which the run reports it violated.

Fairness. `EvalAst`, `Redirs`, `Expand` and `XAlloc` are single processes that run
on until they end, hence weak fairness of their step relation; nothing says that a
loop's condition ever ends it, so `EvalAst` has no property of that kind.
`SubPipe` has weak fairness per process, as the kernel schedules them, with the
commands writing and reading all they can before they end; a blocked process is
not enabled. `MCRead` says of its one process that it goes on until it is over, as
`[]<>Over \/ []<><<TRUE>>_tick`: that is weak fairness of the steps of a process
that can always take one (deadlock is checked), and spares TLC the `ENABLED` of
the lexer's step. `Calls` has safety only. `CHECK_DEADLOCK FALSE` is in the runs
of `Redirs`, `SubPipe`, `Calls`, `XAlloc`, `Expand` and `EvalExpr`: the process
may have exited, the pipeline may be over, the bound of calls may be reached. For
`SubPipe` the liveness property takes the place of the deadlock check.

## Findings

1. `parser/exec_script.c:32` (`EvalDotLines`): dot leaves `errno` at
   `ERROR_EMPTY_EOF`, and the line it stands on is the last that is executed,
   unless a later command on that line sets `errno`.
2. `execution/pipe.c:39` (`PipeFull`): the right command is forked after the left
   has ended; a left command that writes more than the pipe holds never does.
   `get_stdout()` has the same order of `waitpid()` and `read()`.
3. `parser/xvector_tokens.c:112` (`FuncSubst`): the copy of a function's body
   shares its substitutions with the line that defines it, whose end frees them.

Other behaviours met while modelling, which the modules have as the code has
them and which narrow what the properties say:

- a `break` after a dot inside a loop is ignored: dot puts a fresh `*ast_info` in
  the place of the one the loop counts in (hence the hypothesis of the theorems,
  and no dot in a loop in `EvalAll`);
- `continue` in the condition of `until` ends the loop, its status being 0;
- the copy of a function loses the type of its redirections
  (`handle_ast/handle_ast.c:69`), and executing one exits with 127
  (`TreeCopy`; not in the scripts of `EvalRef`);
- a function that redefines or unsets itself while it runs frees its own tree
  (`TouchesRunning` is FALSE in `Calls`);
- after a call with more arguments than the caller's, `$4` and so on stay set;
- `> o1 > o2` leaves the output redirected, and redirections before one that
  fails, and of descriptors that were closed, are never undone (`Restored` and
  `CommandSees` are for lists of different standard descriptors that are open);
- an earlier `EBADF` on the line makes an open descriptor "bad": `echo a 1< f`
  leaves it in `errno`, and of a later `> f 2>&1` on the line the `> f` stays
  applied. The variable `left` counts these; `Restored` and `CommandSees` hold
  until there is one, `SavedKept` and `SavedOpen` always;
- words: a value that begins with a separator gives an empty word, `"$@"` drops
  empty parameters, two empty tokens joined give an empty word, a trailing blank
  joins words, a quoted substitution leaves its output in `acc` for a later
  command (`ExpandPlain` has none of these inputs);
- arithmetic: `8/2*2` is 2, and `$((1i))` with `i=2` is 12 (`MixesProducts`,
  `NameFollowsOperand`);
- lexer: `${a}b` reads the variable `ab`; after a substitution among the
  arguments, or a redirection to a variable, the arguments that follow are no
  longer in the context of a command, and a keyword or an assignment is read as
  one; a blank after a substitution does not end the value of an assignment
  (`x=$(a) b` assigns the value of both); `case_context` never returns to
  `GENERAL` and is not part of `save_lexer()`; a quoted `)` or backquote ends a
  substitution, and so does the bracket of a `case` pattern in it; a blank right
  behind `$(` ends the word; `"a` before a backquote keeps it from being
  substituted; `\$((1))` is evaluated; `$'a '` and `for x $y` make the lexer
  append empty tokens for ever (`MCRead` composes no such text);
- parser: `&&` and `||` nest to the right; empty commands are accepted
  (`a && ; b`, `!`), as are `{ }`, `( )`, `if then`, `while do` and a second `!`;
  an `else` at the end of the script is dropped with its `if`; an empty item of a
  `case` runs an empty command; an item in error before a `;;` makes
  `parse_rule_case()` follow a null pointer (phase "crash");
- a child killed by a signal has status 0, and the comment in
  `execution/headers/execution.h:30` names the left command's status where
  `exec_pipe()` returns the right one's.

## Proofs

**Evaluator.** `EvalAst_proofs` proves `TypeCorrect`: `Spec => []TypeOK`, for every
set of trees, scripts and sourced files that satisfies `NodeAssumption` and
`ScriptAssumption`. The invariant is `TypeInv`: the types, and that frames stand
well on each other (`base` names the "fork" frame of the process, `level` is the
loops below), which is what makes the cut of the stack in `Exit` typed.

`EvalLoops_proofs` proves, for executions in which dot is never run inside a loop
(`[]NoDotInLoop`, a hypothesis because the statement is false without it):

- `DepthCorrect`: `DepthMatchesLoops` always holds;
- `BreaksAreSilent`: so does `NothingRunsWhileBreaking`;
- `LoopsRefine`: the evaluator implements `LoopControl`;
- `BreaksAreHeard`: so is `BreakIsHeard` true, that no loop goes on with a request
  pending for it.

The inductive invariant is `LoopInv == TypeInv /\ Shape(stack) /\ Counts`. `Counts`
says that `depth` is the loops open at the top and that a pending request is
being returned, with a count above 0; alone it does not survive the exit of a
child, so `Shape` records that a "fork" frame stands on a frame that waits, saved
counters that are quiet, and levels that grow upwards. Lemmas `Keep...` treat the
ways the stack and the counters move together (call, iterate, leave a loop,
fork, exit, request), `Kept...` the actions.

`EvalAst_proofs` also proves `EveryLineRuns`: `AllLinesRun` holds if a file is only
sourced by a process that executes no other script (`[]SourcedApart`), as a
subshell does; `EvalDotLines` shows that the hypothesis is needed. By `LinesInv` a
process executes one script at most, a parent that forks in the middle of its
own has another errno than `EmptyEOF`, and no errno that comes back to a script is
`EmptyEOF`, so the only end a script takes for its own is its own.

**Redirections.** `Redirs_proofs` proves `RedirTypeCorrect` and `SavedCorrect` for
every table, every list of redirections, closed and repeated descriptors
included, and every depth. `RedirInv` is the types with `SavedOpen`, which is
inductive with them: what `open()` and `dup()` return was not open
(`LowestFreeIsFree`), hence is none of the descriptors that some call is still
to put back, and `unapply_redir()` closes only its own (`OthersOpen`).

`CommandsSeeTheirs` (`CommandSees`), `SavedIsKept` (`SavedKept`) and
`RedirsUndone` (`Restored`) say what the redirections are for, under the
hypothesis `Undisturbed` that those properties have in them: the lists redirect
standard descriptors, each once, 0 to 2 are open at the start, and two descriptors
are free for each redirection of each level. Any command may leave `EBADF` in
`errno`. The first and the last are claims about the time before that has made
`exec_redirs()` leave a redirection applied (`left = 0`): the code gives no more,
as a command behind it is started with another table than its caller had.
`SavedIsKept` holds after it as well (`KeepInv`). For these starts `TidyInv` is
inductive with `RedirInv` while `left` is 0: a call's table is the one it found
but for what its infos hold (`Kept`), what it opened or saved was free then
(`Made`), the standard descriptors are what its list has made of them so far
(`Sees`), and enough descriptors are left for the calls inside (`Spare`). Lemmas
`Free...` count descriptors; `Meaning` is a recursive function, and that it
satisfies its own equation is shown from the least place where it would not
(`MeaningExists`, by `Smallest`).

**Pipes.** `SubPipe_proofs` proves `PipelineCorrect`: `TypeOK`, `EndsInOrder` and
`ReturnsRight` always hold, for every capacity of the pipe, every amount of
output and every interleaving. The ends of a pipe are only in order because of
who is where: `PipelineInv` says which processes hold which end (`EndsKept`),
that the right child starts after the left one has ended (`InTurn`), when a
status is there (`Reported`), and that what was read and what is in the pipe are
the bytes written, in order (`InOrder`). The second part carries this over to the
child of a substitution, where the steps of `SubPipe` are steps of `Pipeline` or
leave it alone (`PipelineSteps`): `SubTypeCorrect`, `SubEndsCorrect`; with the
same facts about the outer pipe (`TextInv`) it proves `SubRoomCorrect`
(`Fits`), `SubTextCorrect` (`TextIsComplete`) and `SubStatusCorrect`
(`StatusIsRight`).

**Functions.** `Calls_proofs` proves `OwnersCorrect` (`TreesHaveOwners`) and
`ChangesCorrect` (`ChangesOneFunction`) under `~Substitutes`, and `RunningCorrect`
(`RunningIsLive`) if `~TouchesRunning` as well. Both conditions are constants of
the module and both are needed: copies share the substitutions of their source
(third finding), and a body that is replaced or unset while it runs is freed (see
"Other behaviours"). `TreesHaveOwners` is about what `handle_rec()` frees of a
tree (`Released`): it is allocated when it is to be freed, and nobody else is
going to free it. That nothing else stays allocated is not claimed, and not so.
`RunsFromTable` that what runs is still in the table. `CallsUseTable` says that
`Calls`, where functions are called with arguments, implements `FuncTable`, so
what is proved of the table holds of it.

**Positional parameters.** `Calls_proofs` proves the rest of what `Calls` checks:
`CallsTypeCorrect` (`TypeOK`), `ParametersCorrect` (`ParametersAgree`),
`CallsRefine` (`IsCallStack`: exec_func() implements `CallStack`) and
`VariablesCorrect` (`SetsOneVariable`), for any names, values, arguments and
depth. The script may assign any name, those of parameters included (`export 1=x`,
`for * in`): `ParametersAgree` speaks of those it does not assign, and
`SetsOneVariable` lets calls and returns change the others. The invariant
`ParamInv` says that the shell and every save hold the parameters of some list of
arguments (`Passed`): argc, the variables (`Tells`) and the array (`Holds`: the
arguments and behind them nothing but NULL). `ParametersAgree` would not be
inductive: a longer array that was cut by a NULL would show its tail when the NULL
is overwritten, so that there is none has to be part of the invariant. The vector
is `Sound`: what `Fits` says, and names and values where they belong;
`AddVarFacts` is `add_var()` in all its cases. The loops over arguments are
recursive functions; their equations (`AddsSteps`, `SetsSteps`) and what they
compute (`AddVarsFacts`, `SetVarAtsFacts`) are inductions over numbers, which
`Induct` makes out of the well-foundedness of `<`.

**Word expansion.** `Expand_proofs` proves `CursorsCorrect` (`CursorsInside`) and
`TakesAreBounded` for any tokens, values, parameters and IFS. `ExpandInv` says more of
the cursors than the property does: where "@" is moved only a token "@" can
stand (`AtInside`), a value that has been begun is unquoted and has a further word
(`TakenInside`), and a word that has begun has a token to go on with (`Cursors`);
each of the three is needed when `get_word()` is called again. `OutputIsOwn` is
about the static `acc`: without a substitution between quotes it is empty
whenever a token is begun (`AccOfToken`), so every substitution gets its own
output. `FieldsOfText` is about `my_strsep()` and any text: word n stands at
`Place(s, n)`, is what is there up to the first character of IFS, and only
characters of IFS lie before the next one. `Left`, the loop of `my_strsep()`, is a
recursive function, and its equation (`LeftSteps`) an induction over the number of
words. `WordsAreRight` itself stays model-checked: it is false of a value that begins
with a separator, where `my_strsep()` gives an empty word.

**Reading a script.** `ReadScript_proofs` proves `LexerCorrect`, that
`LexerSettled` always holds, for any text, any tokens, any sourced files and
whatever `Parse` answers: the contexts keep to their values, no token leaves a
quote or an escape half read, and the stack of substitutions is empty whenever a
line is parsed. `ReadInv` adds what makes that inductive: what a substitution
copied and what a dot saved are themselves lexers between two tokens. A token is
up to a script's length of turns of a loop; `Accumulate` is a recursive function
over them, and `InTurn` what each turn leaves true (`TurnFacts`, by a lemma for
each function that a turn calls, `AccumulateFacts` by induction). `TokenFacts` is
what the rest uses of `tokenify_next()`: nothing but contexts and the cursor
changes, the cursor ends in the script, and an arithmetic expansion is only left
open at the end of it.

`CursorLeavesBySub` is about the cursors of the lexer and of the lexers that dots
have saved (`Inside`: in the script or next to its end). They are not always
there: in `$(a ')')` `find_end_sub()` counts the quoted bracket, the token reaches
beyond the substitution, and `lex_sub()` goes on from behind it
(`lexer_command_sub.c:121-122`), from further and further behind the script when
substitutions are inside each other. The theorem says that this is the only way
out: a step from `Inside` with `Contained`, which is "no token has reached beyond
a substitution", ends in `Inside`. It assumes nothing of the texts, the tokens,
the files or `Parse`.

`EvalOpenAtEnd` says that an arithmetic expansion is only open between two tokens
when the script is at its end, for scripts that source no file: neither
`save_lexer()` nor `lexer_reset()` touches `eval_context`, so that a file that ends
inside of `$((` leaves the script that sourced it in the middle of an expansion that
it does not have.

**Allocator.** `XAlloc_proofs` proves `AllocTypeCorrect` (`TypeOK`),
`LinksCorrect` (`AllLinked`) and `AllocRefines`: `XAlloc` implements `Allocator`.
In `AllocInv` the list is a sequence of addresses, each live block once, with the
two pointers of every header given by its place (`Linked`). Lemmas `...Facts` say
which pointers a call sets; lemmas `...Links` name the sequence it leaves behind:
a new block in front, one place less, or another address in the same place. That
nothing is left at the end follows from `Linked` when head is null.

Every constant is arbitrary but for the `...Assumption` of its module.

Only model-checked: liveness (`BreakIsResolved`, `SubTerminates`,
`EventuallyOver`, `FreeAllReturns`, `Terminates`); `WordsAreRight`; `TypeOK` of
`ReadScript`, as far as it is more than `LexerSettled` (where the cursors are, for
scripts whose substitutions hold no quoted bracket, and the place in the list of
tokens, which is the parser's matter); and everything that rests on recursive
operators, which are outside the provers' reach (`TreeCopy`, `MCEvalRef`,
`EvalExpr`, `Parser`, `Grammar`, and with the last two `ReadsBack`,
`GrammarAccepted` and `AcceptedIsGrammar` of `ReadScript`).

## Limits

One function name and one substitution per command in `EvalAst`; `waitpid()`
succeeds when `fork()` did; `pipe()`, `dup2()` and memory allocation succeed, but
for the descriptor table; access modes, file contents and stdio buffers are left
out, and so is what an external command does to files. In `EvalAst` the
substitutions of a function live as long as it does (`FuncSubst` has the truth
about that); scripts have none that is called on a later line. Assignments before
a command, the environment and the search along `PATH` are not modelled. `Expand`
takes one command's token list at a time. `EvalExpr` wraps results at a width of
16 bits where C leaves an overflow undefined, and so does its reference. `Lexer`
writes `%` for a backquote, which no string of TLA+ can hold; `Parser` leaves out
what is freed on the way to an error. `VarVector` has `RANDOM` as a variable like
any other. `FuncTable` has the functions as a sequence, so that the growth of
their vector (`func/func.c:41-46`) is not visible in `AddNew`, and no line within
a line, as a dot would execute it; memory that nobody frees is not followed.

Not modelled: the memory behind strings and vectors of tokens (`data_types/`)
and its growth, which is sequential and has no state beyond its length; options
and reading of the script, what echo, pwd, cd and export print and do to the
environment, and the search of dot along `PATH`, which are input and output; the
copies of stdio buffers that `fork()` makes (echo flushes its own); an `OLDPWD`
that is NULL when the environment has none; what a compiler makes of an
overflow in arithmetic;
the pretty printer, which is debug output of a tree.

## Plan

Done, in this order: `AstInfo`, `LoopControl`, `EvalAst` and its proofs (the
control of the shell is where one error spoils everything), `Redirs`, the pipe
modules, `XAlloc`, `EvalExpr`, `Positional`, `Expand`, `FuncTable`, the
compositions `SubPipe` and `Calls`, then `VarVector`, `Lexer`, `Parser` with
`Grammar`, their composition `ReadScript`, and the proofs of `Pipeline`,
`SubPipe`, `FuncTable`, `Redirs`, `XAlloc`,
`Calls`, `Expand` and `ReadScript`.

Left to do:

1. `EvalAst` with redirected commands as calls of `Redirs`, so that a break or an
   exit crosses `unapply_redir()`.
2. `ReadScript` with `EvalAst` in the place of its list of evaluated trees.
3. Options, the environment and the search along `PATH`, as far as they have state.
