------------------------------- MODULE EvalAst -------------------------------
(***************************************************************************)
(* The evaluator: exec_script() and the recursive eval_ast(), with the     *)
(* builtins that change control, functions, the dot builtin and the        *)
(* processes forked for pipelines, subshells and command substitutions.    *)
(*                                                                         *)
(* The C stack is the variable stack: a frame of kind "eval" for each      *)
(* active eval_ast(), "script" for each active exec_script(), and "fork"   *)
(* where a child process was forked.  A parent does nothing but wait for   *)
(* the child it has forked (waitpid), so one stack serves for all of them: *)
(* the frames above a "fork" frame are the child's, and the "fork" frame   *)
(* holds the parent's copy of the globals, which comes back when the child *)
(* exits.  A step runs from one call or return to the next one.            *)
(***************************************************************************)
EXTENDS AstInfo, Sequences

CONSTANTS
  Node,         \* the syntax trees (struct ast) that scripts are made of
  NULL,         \* the null pointer: an absent branch, a blank line
  BadLine,      \* a line the parser rejects
  Scripts,      \* the scripts 42sh may be started with: sequences of lines
  Sourced,      \* the lines of the file the dot builtin reads
  Dup,          \* the copy that handle_rec() makes of each tree (TreeCopy)
  Statuses,     \* the exit statuses of external commands
  ForkMayFail   \* whether fork() may return -1

\* enum ast_type.  until, and and or differ from while, list by a test only.
LoopTypes == {"AST_WHILE", "AST_UNTIL", "AST_FOR"}
BinaryTypes == {"AST_LIST", "AST_AND", "AST_OR"}
AstTypes == LoopTypes \cup BinaryTypes \cup
            {"AST_S_CMD", "AST_CMD", "AST_IF", "AST_CASE", "AST_PIPE",
             "AST_SUBSHELL", "AST_FUNC", "AST_NOT"}

\* A tree: kids are its sub-trees, subst the command substitution among the
\* words it expands (NULL when there is none); cmd is what the first word of a
\* simple command names, or what applying the redirections of an AST_CMD comes
\* to; arg is the count of break and continue, the status of exit, the number
\* of words of a for; of dot it is 0 when it has a file to execute, NoFile when it
\* is given none, and otherwise the status with which it gives up.
NoFile == 1

\* Trees with one sub-tree and with two.
HaveTwo == BinaryTypes \cup {"AST_WHILE", "AST_UNTIL", "AST_PIPE", "AST_IF"}
HaveOne == AstTypes \ {"AST_S_CMD", "AST_CASE"}

Simple == {"ext", "cd", "assign", "break", "continue", "exit", "call", "dot"}

ASSUME NodeAssumption ==
  /\ NULL \notin Node
  /\ \A n \in Node :
       /\ n.type \in AstTypes
       /\ n.kids \in Seq(Node \cup {NULL})
       /\ n.type \in HaveOne => Len(n.kids) >= 1
       /\ n.type \in HaveTwo => Len(n.kids) >= 2
       /\ n.type = "AST_IF" => Len(n.kids) = 3
       /\ n.subst \in Node \cup {NULL}
       /\ n.arg \in Nat
       /\ n.type = "AST_S_CMD" => n.cmd \in Simple

ASSUME ScriptAssumption ==
  /\ BadLine \notin Node \cup {NULL}
  /\ Scripts \subseteq Seq(Node \cup {NULL, BadLine})
  /\ Sourced \in Seq(Node \cup {NULL, BadLine})
  /\ Dup \in [Node -> Node]
  /\ Statuses \subseteq 0 .. 255
  /\ ForkMayFail \in BOOLEAN

VARIABLES
  stack,   \* the C stack
  ret,     \* the value being returned to the top frame, or NoRet
  info,    \* *ast_info
  last,    \* the shell variable "?"
  fcs,     \* the body of the one function name scripts use, or NULL
  errno,   \* errno, as far as exec_script looks at it
  ended    \* the exit status of 42sh, or NoRet while it runs

vars == <<stack, ret, info, last, fcs, errno, ended>>
globals == <<info, last, fcs, errno>>

NoRet == -1
EmptyEOF == 69     \* ERROR_EMPTY_EOF
ENOENT == 2        \* any other value errno is left at
-----------------------------------------------------------------------------
(* Frames *)

Frame(fn, node, level, base) ==
  [fn |-> fn, node |-> node, res |-> 0, i |-> 1, level |-> level,
   base |-> base, saved |-> NULL,
   pc |-> IF fn = "eval" /\ node # NULL /\ node.subst # NULL
          THEN "expand" ELSE "start"]

Top == stack[Len(stack)]

\* The frame is between inc_depth() and b_c_is_done().
InLoop(f) == f.pc \in {"loop_cond", "loop_body"}

\* The loop evaluations open above a frame and in it: frames record the number
\* below them as level, and the index of their process's "fork" frame as base
\* (0 in the shell itself).
LevelOf(f) == IF InLoop(f) THEN f.level + 1 ELSE f.level

WithTop(f) == [stack EXCEPT ![Len(stack)] = f]
Popped == SubSeq(stack, 1, Len(stack) - 1)

At(types, pc) == /\ stack # <<>>
                 /\ Top.fn = "eval" /\ Top.node # NULL
                 /\ Top.node.type \in types
                 /\ Top.pc = pc

Runs(types, pc) == At(types, pc) /\ ret = NoRet      \* nothing called yet
Back(types, pc) == At(types, pc) /\ ret # NoRet      \* the call has returned
AtCommand(c) == Runs({"AST_S_CMD"}, "start") /\ Top.node.cmd = c

\* eval_ast(child), called by the top frame f.
CallFrom(f, child) ==
  /\ stack' = Append(WithTop(f), Frame("eval", child, LevelOf(f), f.base))
  /\ ret' = NoRet

Call(child, pc) == CallFrom([Top EXCEPT !.pc = pc], child)

Leave(v) == stack' = Popped /\ ret' = v

\* The macro RETURN.
Return(v) == Leave(v) /\ last' = v

\* fork(): the child evaluates the tree, the parent waits at pc.
Fork(child, pc) ==
  LET k == Len(stack) + 1
      f == [Top EXCEPT !.pc = pc]
      child_frame == [Frame("fork", NULL, LevelOf(f), k) EXCEPT
                        !.saved = [info |-> info, last |-> last,
                                   fcs |-> fcs, errno |-> errno]]
  IN /\ stack' = Append(Append(WithTop(f), child_frame),
                        Frame("eval", child, LevelOf(f), k))
     /\ ret' = NoRet
     /\ UNCHANGED <<globals, ended>>

\* A plausible bug: the status is not cut to a byte.
ExitWide(code) ==
  IF Top.base = 0
  THEN ended' = code /\ stack' = <<>> /\ ret' = NoRet /\ UNCHANGED globals
  ELSE LET saved == stack[Top.base].saved IN
       /\ stack' = SubSeq(stack, 1, Top.base - 1)
       /\ ret' = code
       /\ info' = saved.info /\ last' = saved.last
       /\ fcs' = saved.fcs /\ errno' = saved.errno
       /\ UNCHANGED ended

\* exit(): waitpid() gives the parent the low byte; the shell itself ends.
Exit(code) ==
  IF Top.base = 0
  THEN /\ ended' = code % 256
       /\ stack' = <<>> /\ ret' = NoRet
       /\ UNCHANGED globals
  ELSE LET saved == stack[Top.base].saved IN
       /\ stack' = SubSeq(stack, 1, Top.base - 1)
       /\ ret' = code % 256
       /\ info' = saved.info /\ last' = saved.last
       /\ fcs' = saved.fcs /\ errno' = saved.errno
       /\ UNCHANGED ended
-----------------------------------------------------------------------------
(* eval_ast(): the null tree, and what every tree has in common *)

EvalNull ==
  /\ stack # <<>> /\ Top.fn = "eval" /\ Top.node = NULL
  /\ Leave(0)
  /\ UNCHANGED <<globals, ended>>

\* A plausible bug: the status of the substitution is dropped.
SubstituteQuiet ==
  \/ Runs(AstTypes, "expand") /\ Fork(Top.node.subst, "expanding")
  \/ /\ Back(AstTypes, "expanding")
     /\ stack' = WithTop([Top EXCEPT !.pc = "start"])
     /\ ret' = NoRet
     /\ UNCHANGED <<info, last, fcs, errno, ended>>

\* get_stdout(): the substitution among the words to expand runs first, in a
\* child, and leaves its status in "?".
Substitute ==
  \/ Runs(AstTypes, "expand") /\ Fork(Top.node.subst, "expanding")
  \/ /\ Back(AstTypes, "expanding")
     /\ stack' = WithTop([Top EXCEPT !.pc = "start"])
     /\ ret' = NoRet /\ last' = ret
     /\ UNCHANGED <<info, fcs, errno, ended>>

\* The macro EVAL_AST: the child's status goes to "?", and a break or continue
\* that is pending ends the caller at once.
EvalAstTypes == {"AST_IF", "AST_NOT", "AST_CASE"} \cup BinaryTypes

EvalAstBreaks ==
  /\ Back(EvalAstTypes, "first") \/ Back(EvalAstTypes, "second")
  /\ IsBreaking(info)
  /\ Return(ret)
  /\ UNCHANGED <<info, fcs, errno, ended>>

Begin(types) ==
  /\ Runs(types, "start")
  /\ Call(Top.node.kids[1], "first")
  /\ UNCHANGED <<globals, ended>>

\* A plausible bug: plain eval_ast() in the place of EVAL_AST.
EvaluatedAnyway(types, pc) == Back(types, pc)

Evaluated(types, pc) == Back(types, pc) /\ ~IsBreaking(info)

EvalSecond(child) ==
  Call(child, "second") /\ last' = ret /\ UNCHANGED <<info, fcs, errno, ended>>

Result(v) == Return(v) /\ UNCHANGED <<info, fcs, errno, ended>>
-----------------------------------------------------------------------------
(* Trees without loops *)

EvalIf ==
  \/ Begin({"AST_IF"})
  \/ /\ Evaluated({"AST_IF"}, "first")
     /\ EvalSecond(Top.node.kids[IF ret = 0 THEN 2 ELSE 3])
  \/ Evaluated({"AST_IF"}, "second") /\ Result(ret)

\* AST_LIST always evaluates its right side, AST_AND and AST_OR by the status
\* of the left one.
NeedsRight(type, status) ==
  type = "AST_LIST" \/ (type = "AST_AND" <=> status = 0)

EvalBinary ==
  \/ Begin(BinaryTypes)
  \/ /\ Evaluated(BinaryTypes, "first")
     /\ IF NeedsRight(Top.node.type, ret)
        THEN EvalSecond(Top.node.kids[2])
        ELSE Result(ret)
  \/ Evaluated(BinaryTypes, "second") /\ Result(ret)

EvalNot ==
  \/ Begin({"AST_NOT"})
  \/ /\ Evaluated({"AST_NOT"}, "first")
     /\ Result(IF ret = 0 THEN 1 ELSE 0)

\* treat_case(): any one of the items may be the first to match, or none.
EvalCase ==
  \/ Runs({"AST_CASE"}, "start") /\ Result(0)
  \/ /\ Runs({"AST_CASE"}, "start")
     /\ \E k \in DOMAIN Top.node.kids : Call(Top.node.kids[k], "first")
     /\ UNCHANGED <<globals, ended>>
  \/ Evaluated({"AST_CASE"}, "first") /\ Result(ret)

\* exec_redirs(): a bad file descriptor skips the command, a file that cannot
\* be opened and a type of redirection without a case end the process (what
\* happens to descriptors: module Redirs).
EvalCmd ==
  \/ Begin({"AST_CMD"}) /\ Top.node.cmd \in {"ok", "redirected"}
  \/ Runs({"AST_CMD"}, "start") /\ Top.node.cmd = "bad_fd" /\ Result(2)
  \/ Runs({"AST_CMD"}, "start") /\ Top.node.cmd = "no_file" /\ Exit(2)
  \/ Runs({"AST_CMD"}, "start") /\ Top.node.cmd = "no_type" /\ Exit(127)
  \/ Back({"AST_CMD"}, "first") /\ Result(ret)

\* The null tree has itself for a copy.
Copy(n) == IF n = NULL THEN NULL ELSE Dup[n]

\* add_fc(): the table holds a copy of the body (its memory: FuncTable).
EvalFunc ==
  /\ Runs({"AST_FUNC"}, "start")
  /\ fcs' = Copy(Top.node.kids[1])
  /\ Return(0)
  /\ UNCHANGED <<info, errno, ended>>
-----------------------------------------------------------------------------
(* Forked children *)

\* subhsell().
EvalSubshell ==
  \/ Runs({"AST_SUBSHELL"}, "start") /\ Fork(Top.node.kids[1], "first")
  \/ Back({"AST_SUBSHELL"}, "first") /\ Result(ret)

\* exec_pipe(): the right side is forked when the left one has exited.
EvalPipe ==
  \/ Runs({"AST_PIPE"}, "start") /\ Fork(Top.node.kids[1], "first")
  \/ Back({"AST_PIPE"}, "first") /\ Fork(Top.node.kids[2], "second")
  \/ Back({"AST_PIPE"}, "second") /\ Result(ret)

\* A child calls exit() with what its tree evaluates to.
ChildExits ==
  /\ stack # <<>> /\ Top.fn = "fork" /\ ret # NoRet
  /\ Exit(ret)

\* fork() returns -1.  exec_pipe() does not test its second fork: waitpid(-1)
\* then finds no child and the pipeline returns 1.
ForkFails ==
  /\ ForkMayFail
  /\ \/ Runs({"AST_PIPE", "AST_SUBSHELL"}, "start") /\ Exit(2)
     \/ Runs(AstTypes, "expand") /\ Exit(2)
     \/ AtCommand("ext") /\ Exit(1)
     \/ Back({"AST_PIPE"}, "first") /\ Result(1)
-----------------------------------------------------------------------------
(* Simple commands: exec_s_cmd(), execute() and the builtins *)

External == /\ AtCommand("ext")
            /\ \E status \in Statuses : Result(status)

\* Only assignments: exec_s_cmd() returns 0 whatever expanding them did.
Assign == AtCommand("assign") /\ Result(0)

\* A chdir() that fails leaves errno behind.
Cd ==
  /\ AtCommand("cd")
  /\ \/ Result(0)
     \/ errno' = ENOENT /\ Return(2) /\ UNCHANGED <<info, fcs, ended>>

BreakContinue(c, type) ==
  /\ AtCommand(c)
  /\ IF Top.node.arg = 0
     THEN Exit(2)
     ELSE /\ info' = SetBC(info, Top.node.arg, type)
          /\ Return(0)
          /\ UNCHANGED <<fcs, errno, ended>>

XExit == AtCommand("exit") /\ Exit(Top.node.arg)

\* A function name that is not defined is looked for in PATH and not found.
ExecFunc ==
  \/ AtCommand("call") /\ fcs = NULL /\ Result(127)
  \/ /\ AtCommand("call") /\ fcs # NULL
     /\ Call(fcs, "first")
     /\ UNCHANGED <<globals, ended>>
  \/ /\ Back({"AST_S_CMD"}, "first") /\ Top.node.cmd = "call"
     /\ Result(ret)

Dot ==
  \/ AtCommand("dot") /\ Top.node.arg = NoFile /\ Result(0)
  \/ AtCommand("dot") /\ Top.node.arg \notin {0, NoFile} /\ Exit(Top.node.arg)
  \/ /\ AtCommand("dot") /\ Top.node.arg = 0
     /\ stack' = Append(WithTop([Top EXCEPT !.pc = "first"]),
                        Frame("script", Sourced, Top.level, Top.base))
     /\ errno' = 0
     /\ UNCHANGED <<ret, info, last, fcs, ended>>
  \/ /\ Back({"AST_S_CMD"}, "first") /\ Top.node.cmd = "dot"
     /\ Result(ret)
-----------------------------------------------------------------------------
(* Loops: the macro EVAL_AST_IN_LOOP around each evaluation *)

\* inc_depth(), then eval_ast().
EvalInLoop(f, child, record) ==
  info' = IncDepth(record) /\ CallFrom(f, child)

\* b_c_is_done() says A_BREAK: the loop returns 0 without RETURN.
LoopBroken ==
  /\ BCResult(info) = Break
  /\ info' = BCIsDone(info)
  /\ Leave(0)

GoesOn(type, status) == type = "AST_WHILE" <=> status = 0

While == {"AST_WHILE", "AST_UNTIL"}

\* After the condition.  A continue there has left continued = 1: the next
\* turn has no body.
WhileCondition ==
  /\ Back(While, "loop_cond")
  /\ \/ LoopBroken /\ UNCHANGED <<last, fcs, errno, ended>>
     \/ /\ BCResult(info) # Break /\ GoesOn(Top.node.type, ret)
        /\ IF BCResult(info) = Continue
           THEN EvalInLoop(Top, Top.node.kids[1], BCIsDone(info))
           ELSE EvalInLoop([Top EXCEPT !.pc = "loop_body"],
                           Top.node.kids[2], BCIsDone(info))
        /\ UNCHANGED <<last, fcs, errno, ended>>
     \/ /\ BCResult(info) # Break /\ ~GoesOn(Top.node.type, ret)
        /\ info' = BCIsDone(info)
        /\ Return(Top.res)
        /\ UNCHANGED <<fcs, errno, ended>>

WhileBody ==
  /\ Back(While, "loop_body")
  /\ last' = ret
  /\ \/ LoopBroken
     \/ /\ BCResult(info) # Break
        /\ EvalInLoop([Top EXCEPT !.pc = "loop_cond", !.res = ret],
                      Top.node.kids[1], BCIsDone(info))
  /\ UNCHANGED <<fcs, errno, ended>>

EvalWhile ==
  \/ /\ Runs(While, "start")
     /\ EvalInLoop([Top EXCEPT !.pc = "loop_cond"], Top.node.kids[1], info)
     /\ UNCHANGED <<last, fcs, errno, ended>>
  \/ WhileCondition
  \/ WhileBody

EvalFor ==
  \/ Runs({"AST_FOR"}, "start") /\ Top.node.arg = 0 /\ Result(0)
  \/ /\ Runs({"AST_FOR"}, "start") /\ Top.node.arg > 0
     /\ EvalInLoop([Top EXCEPT !.pc = "loop_body"], Top.node.kids[1], info)
     /\ UNCHANGED <<last, fcs, errno, ended>>
  \/ /\ Back({"AST_FOR"}, "loop_body")
     /\ last' = ret
     /\ \/ LoopBroken
        \/ /\ BCResult(info) # Break /\ Top.i < Top.node.arg
           /\ EvalInLoop([Top EXCEPT !.i = @ + 1, !.res = ret],
                         Top.node.kids[1], BCIsDone(info))
        \/ /\ BCResult(info) # Break /\ Top.i = Top.node.arg
           /\ info' = BCIsDone(info)
           /\ Return(ret)
     /\ UNCHANGED <<fcs, errno, ended>>
-----------------------------------------------------------------------------
(* exec_script() *)

AtScript == stack # <<>> /\ Top.fn = "script"

Lines == Top.node

\* launch_program() returns the status to main(), dot returns it as its own and
\* leaves errno at ERROR_EMPTY_EOF.
ScriptEnds(status) ==
  IF Len(stack) = 1
  THEN Exit(status)
  ELSE Leave(status) /\ errno' = EmptyEOF /\ UNCHANGED <<info, last, fcs, ended>>

\* A plausible bug: the loop runs while errno is 0.
NextLineErrno ==
  /\ AtScript /\ ret = NoRet
  /\ IF errno # 0 \/ Top.i > Len(Lines) THEN ScriptEnds(Top.res)
     ELSE IF Lines[Top.i] = BadLine THEN Exit(2)
     ELSE /\ CallFrom([Top EXCEPT !.i = @ + 1], Lines[Top.i])
          /\ info' = FreshInfo
          /\ UNCHANGED <<last, fcs, errno, ended>>

\* The line loop: it tests errno, which the line just evaluated may have
\* changed, before parse_input() resets it.
NextLine ==
  /\ AtScript /\ ret = NoRet
  /\ \/ /\ errno = EmptyEOF \/ Top.i > Len(Lines)
        /\ ScriptEnds(Top.res)
     \/ /\ errno # EmptyEOF /\ Top.i <= Len(Lines)
        /\ Lines[Top.i] = BadLine
        /\ Exit(2)
     \/ /\ errno # EmptyEOF /\ Top.i <= Len(Lines)
        /\ Lines[Top.i] = NULL
        /\ stack' = WithTop([Top EXCEPT !.i = @ + 1])
        /\ errno' = 0
        /\ UNCHANGED <<ret, info, last, fcs, ended>>
     \/ /\ errno # EmptyEOF /\ Top.i <= Len(Lines)
        /\ Lines[Top.i] \notin {NULL, BadLine}
        /\ CallFrom([Top EXCEPT !.i = @ + 1], Lines[Top.i])
        /\ info' = FreshInfo
        /\ errno' = 0
        /\ UNCHANGED <<last, fcs, ended>>

LineDone ==
  /\ AtScript /\ ret # NoRet
  /\ stack' = WithTop([Top EXCEPT !.res = ret])
  /\ ret' = NoRet
  /\ UNCHANGED <<globals, ended>>

ExecScript == NextLine \/ LineDone
-----------------------------------------------------------------------------
Init ==
  /\ \E s \in Scripts : stack = <<Frame("script", s, 0, 0)>>
  /\ ret = NoRet
  /\ info = FreshInfo       \* a null pointer until the first line is evaluated
  /\ last = 0
  /\ fcs = NULL
  /\ errno = 0
  /\ ended = NoRet

SCmd == \/ External \/ Assign \/ Cd \/ XExit \/ ExecFunc \/ Dot
        \/ BreakContinue("break", Break)
        \/ BreakContinue("continue", Continue)

Tree == \/ EvalIf \/ EvalBinary \/ EvalNot \/ EvalCase \/ EvalCmd \/ EvalFunc
        \/ EvalSubshell \/ EvalPipe \/ EvalWhile \/ EvalFor

Terminated == ended # NoRet /\ UNCHANGED vars

Step == \/ EvalNull \/ Substitute \/ EvalAstBreaks \/ Tree \/ SCmd
        \/ ChildExits \/ ForkFails \/ ExecScript

Next == Step \/ Terminated

\* At each moment one process runs and the others wait for it.
Fairness == WF_vars(Step)

Spec == Init /\ [][Next]_vars /\ Fairness
-----------------------------------------------------------------------------
(* Properties *)

Pc == {"start", "expand", "expanding", "first", "second", "loop_cond",
       "loop_body"}
Info == [depth : Int, type : InfoType, code : Nat]
Globals == [info : Info, last : 0 .. 255, fcs : Node \cup {NULL},
            errno : {0, EmptyEOF, ENOENT}]
Trees == Node \cup {NULL}
Scripted == Seq(Node \cup {NULL, BadLine})
Frames == [fn : {"eval", "script", "fork"}, node : Trees \cup Scripted,
           pc : Pc, res : 0 .. 255, i : Nat \ {0}, level : Nat, base : Nat,
           saved : Globals \cup {NULL}]
\* Which node and which saved globals belong to which kind of frame.
Fits(f) == /\ f.fn = "eval" => f.node \in Trees
           /\ f.fn = "script" => f.node \in Scripted
           /\ f.fn = "fork" => f.saved \in Globals

TypeOK ==
  /\ stack \in Seq(Frames)
  /\ \A k \in 1 .. Len(stack) : Fits(stack[k])
  /\ ret \in 0 .. 255 \cup {NoRet}
  /\ [info |-> info, last |-> last, fcs |-> fcs, errno |-> errno] \in Globals
  /\ ended \in 0 .. 255 \cup {NoRet}
  /\ ended = NoRet <=> stack # <<>>

\* The counter that break and continue are measured against is the number of
\* loop evaluations really open, in this process and in those it was forked
\* from, and the whole stack agrees on it (inc_depth() and b_c_is_done() stay
\* paired along every early return).
DepthMatchesLoops ==
  /\ stack # <<>> => info.depth = LevelOf(Top)
  /\ \A k \in 1 .. Len(stack) - 1 : stack[k + 1].level = LevelOf(stack[k])

\* From a break or continue to the loop it is addressed to nothing is
\* evaluated any more: everything in between returns (is_breaking()).
NothingRunsWhileBreaking ==
  IsBreaking(info) => ret # NoRet /\ info.code > 0 /\ info.depth > 0

\* The counters keep the promise of break and continue: the loop a request is
\* addressed to is read off depth and code, and the loops that are open off the
\* stack.
OpenLoops == IF stack = <<>> THEN 0 ELSE LevelOf(Top)
Target ==
  IF ~IsBreaking(info) THEN 0
  ELSE IF info.code < info.depth THEN info.depth - info.code + 1 ELSE 1

Loops == INSTANCE LoopControl WITH
  process <- IF stack = <<>> THEN -1 ELSE Top.base,
  open <- OpenLoops,
  target <- Target,
  kind <- info.type

BreakReachesItsLoop == Loops!Spec

\* break and continue inside a loop are never ignored.
BreakIsHeard ==
  [][(AtCommand("break") \/ AtCommand("continue"))
       /\ Top.node.arg > 0 /\ OpenLoops > 0
     => IsBreaking(info')]_vars

\* exec_script() executes every line of a script up to one that does not parse,
\* unless the process exits.
AllLinesRun ==
  [][AtScript /\ ret = NoRet /\ Top.i <= Len(Lines)
       /\ Len(stack') < Len(stack)
     => Lines[Top.i] = BadLine]_vars

\* A break or continue that is pending is always resolved.
BreakIsResolved == IsBreaking(info) ~> ~IsBreaking(info)
=============================================================================
