--------------------------- MODULE EvalLoops_proofs ---------------------------
(***************************************************************************)
(* Proofs that the break/continue counters agree with the loops that are   *)
(* open, and that the evaluator implements LoopControl.  They hold as long *)
(* as the dot builtin is not run inside a loop: exec_script() then puts a  *)
(* fresh record in the place of the one the loop counts in.                *)
(***************************************************************************)
EXTENDS EvalAst_proofs

\* No exec_script() is active inside a loop.
NoDotInLoop ==
  \A k \in 1 .. Len(stack) : stack[k].fn = "script" => stack[k].level = 0

\* The frame waits for the child process it has forked.
Waits(f) ==
  \/ f.pc = "expanding"
  \/ /\ f.fn = "eval"
     /\ f.node.type \in {"AST_PIPE", "AST_SUBSHELL"}
     /\ f.pc \in {"first", "second"}

Quiet(level) == [depth |-> level, type |-> Nothing, code |-> 0]

\* Only an eval_ast() of a tree gets past its start; a "fork" frame holds the
\* counters its parent waits with.
FrameOK(f) ==
  /\ f.fn # "eval" \/ f.node = NULL => f.pc = "start"
  /\ f.fn = "fork" => f.base # 0 /\ f.saved.info = Quiet(f.level)

\* A frame g stands on f: a "fork" frame on one that waits, in a process of its
\* own, any other in the same process.
StandsOn(g, f) ==
  /\ g.fn = "fork" <=> Waits(f)
  /\ g.fn # "fork" => g.base = f.base

Shape(s) ==
  /\ \A k \in 1 .. Len(s) : FrameOK(s[k])
  /\ \A k \in 1 .. Len(s) - 1 : StandsOn(s[k + 1], s[k])
  /\ \A j, k \in 1 .. Len(s) : j <= k => s[j].level <= s[k].level

\* The counters r, with v being returned to the frame f.
Counted(r, v, f) ==
  /\ r.depth = LevelOf(f)
  /\ IF IsBreaking(r)
     THEN v # NoRet /\ r.code > 0 /\ r.depth > 0 /\ ~Waits(f)
     ELSE r.code = 0

Counts == IF stack = <<>> THEN ~IsBreaking(info) ELSE Counted(info, ret, Top)

LoopInv == TypeInv /\ Shape(stack) /\ Counts

LoopStep == [Loops!Next]_(Loops!vars)

LEMMA TopAt ==
  ASSUME TypeInv, stack # <<>>
  PROVE  /\ Len(stack) \in Nat \ {0} /\ Len(stack) \in 1 .. Len(stack)
         /\ Top = stack[Len(stack)]
         /\ Top \in Frames /\ Top.level \in Nat /\ LevelOf(Top) \in Nat
         /\ Top.base \in 0 .. Len(stack)
         /\ info \in Info /\ info.depth \in Int /\ info.code \in Nat
<1>1. Top \in Frames BY TopFacts
<1> QED BY <1>1, TopFacts, FrameFields, Unmoved DEF Top, Info

(* Shapes of stacks *)

LEMMA SamePc ==
  ASSUME NEW f \in Frames, NEW p
  PROVE  /\ [f EXCEPT !.pc = p].pc = p /\ [f EXCEPT !.pc = p].fn = f.fn
         /\ [f EXCEPT !.pc = p].node = f.node
         /\ [f EXCEPT !.pc = p].level = f.level
         /\ \A r : [f EXCEPT !.pc = p, !.res = r].pc = p
                   /\ [f EXCEPT !.pc = p, !.res = r].fn = f.fn
                   /\ [f EXCEPT !.pc = p, !.res = r].node = f.node
         /\ \A r : [f EXCEPT !.i = @ + 1, !.res = r].pc = f.pc
                   /\ [f EXCEPT !.i = @ + 1, !.res = r].fn = f.fn
                   /\ [f EXCEPT !.i = @ + 1, !.res = r].node = f.node
  BY DEF Frames

LEMMA ShapeSet ==
  ASSUME NEW s \in Seq(Frames), s # <<>>, Shape(s),
         NEW f \in Frames, FrameOK(f), f.fn = s[Len(s)].fn,
         f.base = s[Len(s)].base, f.level = s[Len(s)].level,
         NEW t \in Seq(Frames), Len(t) = Len(s), Len(s) \in Nat \ {0},
         \A k \in 1 .. Len(s) : t[k] = IF k = Len(s) THEN f ELSE s[k]
  PROVE  Shape(t)
<1>1. \A k \in 1 .. Len(s) :
        t[k].fn = s[k].fn /\ t[k].base = s[k].base /\ t[k].level = s[k].level
  OBVIOUS
<1>2. \A k \in 1 .. Len(t) : FrameOK(t[k]) BY DEF Shape
<1>3. ASSUME NEW k \in 1 .. Len(t) - 1 PROVE StandsOn(t[k + 1], t[k])
  <2>1. k \in 1 .. Len(s) /\ k + 1 \in 1 .. Len(s) /\ k # Len(s) OBVIOUS
  <2>2. t[k] = s[k] BY <2>1
  <2>3. StandsOn(s[k + 1], s[k]) BY DEF Shape
  <2> QED BY <1>1, <2>1, <2>2, <2>3 DEF StandsOn
<1>4. ASSUME NEW j \in 1 .. Len(t), NEW k \in 1 .. Len(t), j <= k
      PROVE  t[j].level <= t[k].level
  BY <1>1, <1>4 DEF Shape
<1> QED BY <1>2, <1>3, <1>4 DEF Shape

LEMMA ShapePush ==
  ASSUME NEW s \in Seq(Frames), s # <<>>, Shape(s),
         NEW g \in Frames, FrameOK(g), StandsOn(g, s[Len(s)]),
         g.level = LevelOf(s[Len(s)]),
         NEW t, t = Append(s, g)
  PROVE  /\ Shape(t) /\ t \in Seq(Frames) /\ Len(t) = Len(s) + 1
         /\ t[Len(s) + 1] = g /\ t # <<>>
<1>0. Len(s) \in Nat \ {0} BY EmptySeq
<1>1. /\ t \in Seq(Frames) /\ t # <<>> /\ Len(t) = Len(s) + 1
      /\ \A k \in 1 .. Len(s) : t[k] = s[k]
      /\ t[Len(s) + 1] = g
  BY AppendProperties
<1>2. \A k \in 1 .. Len(s) : t[k] = s[k] /\ t[k] \in Frames BY <1>1, ElementOfSeq
<1>3. \A k \in 1 .. Len(t) : FrameOK(t[k]) BY <1>0, <1>1 DEF Shape
<1>4. ASSUME NEW k \in 1 .. Len(t) - 1 PROVE StandsOn(t[k + 1], t[k])
  <2>1. CASE k = Len(s) BY <1>0, <1>1, <2>1
  <2>2. CASE k \in 1 .. Len(s) - 1
    <3>1. k \in 1 .. Len(s) /\ k + 1 \in 1 .. Len(s) BY <1>0, <2>2
    <3> QED BY <1>1, <2>2, <3>1 DEF Shape
  <2> QED BY <1>0, <1>1, <2>1, <2>2
<1>5. \A k \in 1 .. Len(s) : s[k].level \in Nat /\ s[k].level <= g.level
  <2>1. Len(s) \in 1 .. Len(s) BY <1>0
  <2>2. \A k \in 1 .. Len(s) : s[k].level \in Nat /\ s[k].level <= s[Len(s)].level
    BY <1>0, <1>1, <1>2, <2>1, FrameFields DEF Shape
  <2>3. s[Len(s)].level <= LevelOf(s[Len(s)])
    BY <2>1, <2>2 DEF LevelOf
  <2>4. LevelOf(s[Len(s)]) \in Nat BY <1>1, <1>2, <2>1, FrameFields
  <2> QED BY <2>1, <2>2, <2>3, <2>4
<1>6. ASSUME NEW j \in 1 .. Len(t), NEW k \in 1 .. Len(t), j <= k
      PROVE  t[j].level <= t[k].level
  <2>1. CASE k \in 1 .. Len(s)
    <3>1. j \in 1 .. Len(s) BY <1>0, <1>6, <2>1
    <3> QED BY <1>1, <1>6, <2>1, <3>1 DEF Shape
  <2>2. CASE k = Len(s) + 1 /\ j \in 1 .. Len(s) BY <1>1, <1>5, <2>2
  <2>3. CASE k = Len(s) + 1 /\ j = Len(s) + 1
    <3>1. g.level \in Nat BY FrameFields
    <3> QED BY <1>1, <2>3, <3>1
  <2> QED BY <1>0, <1>1, <2>1, <2>2, <2>3
<1> QED BY <1>1, <1>3, <1>4, <1>6 DEF Shape

LEMMA ShapeCut ==
  ASSUME NEW s \in Seq(Frames), Shape(s), NEW m \in 1 .. Len(s), m > 1,
         NEW t, t = SubSeq(s, 1, m - 1)
  PROVE  /\ Shape(t) /\ Len(t) = m - 1 /\ t # <<>> /\ m - 1 \in 1 .. Len(s)
         /\ t[Len(t)] = s[m - 1]
<1>0. Len(s) \in Nat /\ m \in Nat BY LenProperties
<1>1. /\ t \in Seq(Frames) /\ Len(t) = m - 1 /\ t # <<>>
      /\ \A k \in 1 .. m - 1 : t[k] = s[k]
  BY <1>0, CutFacts
<1>2. \A k \in 1 .. m - 1 : k \in 1 .. Len(s) BY <1>0
<1>3. m - 1 \in 1 .. m - 1 BY <1>0
<1>4. \A k \in 1 .. Len(t) : FrameOK(t[k]) BY <1>1, <1>2 DEF Shape
<1>5. ASSUME NEW k \in 1 .. Len(t) - 1 PROVE StandsOn(t[k + 1], t[k])
  <2>1. k \in 1 .. m - 1 /\ k + 1 \in 1 .. m - 1 /\ k \in 1 .. Len(s) - 1
    BY <1>0, <1>1
  <2> QED BY <1>1, <2>1 DEF Shape
<1>6. ASSUME NEW j \in 1 .. Len(t), NEW k \in 1 .. Len(t), j <= k
      PROVE  t[j].level <= t[k].level
  <2>1. j \in 1 .. m - 1 /\ k \in 1 .. m - 1 BY <1>1
  <2> QED BY <1>1, <1>2, <1>6, <2>1 DEF Shape
<1> QED BY <1>1, <1>2, <1>3, <1>4, <1>5, <1>6 DEF Shape
-----------------------------------------------------------------------------
(* Steps of LoopControl *)

Process == IF stack = <<>> THEN -1 ELSE Top.base

LEMMA StutterStep ==
  ASSUME Process' = Process, OpenLoops' = OpenLoops, Target' = Target,
         info'.type = info.type
  PROVE  LoopStep
  BY DEF LoopStep, Loops!vars, Process

LEMMA EnterStep ==
  ASSUME Target = 0, OpenLoops' = OpenLoops + 1,
         Process' = Process, Target' = Target, info'.type = info.type
  PROVE  LoopStep
  BY DEF LoopStep, Loops!Next, Loops!Enter, Loops!Pending, Process

LEMMA RequestStep ==
  ASSUME Target = 0, OpenLoops > 0, Target' \in 1 .. OpenLoops,
         info'.type \in {Break, Continue},
         Process' = Process, OpenLoops' = OpenLoops
  PROVE  LoopStep
  BY DEF LoopStep, Loops!Next, Loops!Request, Loops!Pending, Process, Break,
         Continue

LEMMA LeaveStep ==
  ASSUME OpenLoops > 0, OpenLoops' = OpenLoops - 1, Process' = Process,
         IF Target = OpenLoops THEN Target' = 0 /\ info'.type = Nothing
         ELSE Target' = Target /\ info'.type = info.type
  PROVE  LoopStep
  BY DEF LoopStep, Loops!Next, Loops!Leave, Loops!Resolve, Process, Nothing

LEMMA IterateStep ==
  ASSUME OpenLoops > 0, OpenLoops' = OpenLoops, Process' = Process,
         Target # 0 => Target = OpenLoops /\ info.type = Continue,
         Target' = 0, info'.type = Nothing
  PROVE  LoopStep
  BY DEF LoopStep, Loops!Next, Loops!Iterate, Loops!Resolve, Loops!Pending,
         Process, Nothing, Continue

LEMMA ForkStep ==
  ASSUME Target = 0, Process' > Process,
         OpenLoops' = OpenLoops, Target' = Target, info'.type = info.type
  PROVE  LoopStep
  BY DEF LoopStep, Loops!Next, Loops!Fork, Loops!Pending, Process

LEMMA EndStep ==
  ASSUME Process' < Process, OpenLoops' <= OpenLoops,
         Target' = 0, info'.type = Nothing
  PROVE  LoopStep
  BY DEF LoopStep, Loops!Next, Loops!End, Loops!Resolve, Process, Nothing
-----------------------------------------------------------------------------
(* What every step keeps, by the shape it gives the stack *)

Kept == Shape(stack)' /\ Counts' /\ LoopStep

LEMMA QuietTarget == ~IsBreaking(info) => Target = 0 /\ info.type = Nothing
  BY DEF Target, IsBreaking

LEMMA Counting ==
  ASSUME LoopInv, stack # <<>>
  PROVE  /\ info.depth = LevelOf(Top) /\ OpenLoops = LevelOf(Top)
         /\ IsBreaking(info) => ret # NoRet /\ info.code > 0 /\ info.depth > 0
                                /\ ~Waits(Top)
         /\ ~IsBreaking(info) => info.code = 0
         /\ Process = Top.base /\ FrameOK(Top)
<1>1. FrameOK(Top) BY TopAt DEF LoopInv, Shape
<1> QED BY <1>1 DEF LoopInv, Counts, Counted, OpenLoops, Process

LEMMA Replaced ==
  ASSUME LoopInv, stack # <<>>, NEW f, Replaces(f, stack), FrameOK(f),
         NEW s, s = WithTop(f)
  PROVE  /\ Shape(s) /\ s \in Seq(Frames) /\ s # <<>> /\ s[Len(s)] = f
         /\ Len(s) = Len(stack)
<1>1. stack \in Seq(Frames) /\ f \in Frames
  BY DEF LoopInv, TypeInv, WellFormed, Replaces
<1>2. /\ s \in Seq(Frames) /\ Len(s) = Len(stack) /\ Len(stack) \in Nat \ {0}
      /\ \A k \in 1 .. Len(stack) : s[k] = IF k = Len(stack) THEN f ELSE stack[k]
  BY <1>1, SetTopFacts DEF WithTop
<1>3. Shape(s) BY <1>1, <1>2, ShapeSet DEF Replaces, LoopInv
<1>4. s # <<>> /\ s[Len(s)] = f BY <1>2, EmptySeq
<1> QED BY <1>2, <1>3, <1>4

LEMMA Pushed ==
  ASSUME LoopInv, stack # <<>>, NEW f, Replaces(f, stack), FrameOK(f),
         NEW g \in Frames, FrameOK(g), StandsOn(g, f), g.level = LevelOf(f),
         stack' = Append(WithTop(f), g)
  PROVE  Shape(stack') /\ stack' # <<>> /\ Top' = g
<1> DEFINE s == WithTop(f)
<1>1. /\ Shape(s) /\ s \in Seq(Frames) /\ s # <<>> /\ s[Len(s)] = f
  BY Replaced
<1>2. stack' = Append(s, g) OBVIOUS
<1> HIDE DEF s
<1>3. /\ Shape(stack') /\ Len(stack') = Len(s) + 1 /\ stack'[Len(s) + 1] = g
      /\ stack' # <<>>
  BY <1>1, <1>2, ShapePush
<1> QED BY <1>3 DEF Top

LEMMA KeepSet ==
  ASSUME LoopInv, stack # <<>>, NEW f, Replaces(f, stack), FrameOK(f),
         stack' = WithTop(f), LevelOf(f) = LevelOf(Top), info' = info,
         ~IsBreaking(info)
  PROVE  Kept
<1>1. Shape(stack') /\ stack' # <<>> /\ Top' = f BY Replaced DEF Top
<1>2. f.base = Top.base BY DEF Replaces, Top
<1>3. Counts' BY <1>1, Counting DEF Counts, Counted, IsBreaking
<1>4. Process' = Process /\ OpenLoops' = OpenLoops /\ Target' = Target
  BY <1>1, <1>2, Counting DEF Process, OpenLoops, Target, IsBreaking
<1> QED BY <1>1, <1>3, <1>4, StutterStep DEF Kept

LEMMA EvalFrame ==
  ASSUME NEW child \in Trees, NEW f \in Frames, ~Waits(f), NEW g,
         g = Frame("eval", child, LevelOf(f), f.base)
  PROVE  /\ g \in Frames /\ FrameOK(g) /\ StandsOn(g, f)
         /\ g.level = LevelOf(f) /\ LevelOf(g) = LevelOf(f)
         /\ g.base = f.base
<1>1. LevelOf(f) \in Nat /\ f.base \in Nat BY FrameFields
<1>2. g \in Frames BY <1>1, NewFrame
<1>3. /\ g.fn = "eval" /\ g.level = LevelOf(f) /\ g.base = f.base
      /\ g.pc \in {"expand", "start"} /\ (g.node = NULL => g.pc = "start")
  BY DEF Frame
<1> QED BY <1>2, <1>3 DEF FrameOK, StandsOn, LevelOf, InLoop

LEMMA KeepCall ==
  ASSUME LoopInv, stack # <<>>, NEW f, Replaces(f, stack), FrameOK(f),
         ~Waits(f), NEW child \in Trees, CallFrom(f, child),
         LevelOf(f) = LevelOf(Top), info' = info, ~IsBreaking(info)
  PROVE  Kept
<1> DEFINE g == Frame("eval", child, LevelOf(f), f.base)
<1>1. /\ g \in Frames /\ FrameOK(g) /\ StandsOn(g, f) /\ g.level = LevelOf(f)
      /\ LevelOf(g) = LevelOf(f) /\ g.base = f.base
  BY EvalFrame DEF Replaces
<1>2. stack' = Append(WithTop(f), g) /\ ret' = NoRet BY DEF CallFrom
<1> HIDE DEF g
<1>3. Shape(stack') /\ stack' # <<>> /\ Top' = g BY <1>1, <1>2, Pushed
<1>4. f.base = Top.base BY DEF Replaces, Top
<1>5. Counts' BY <1>1, <1>3, Counting DEF Counts, Counted, IsBreaking
<1>6. Process' = Process /\ OpenLoops' = OpenLoops /\ Target' = Target
  BY <1>1, <1>3, <1>4, Counting DEF Process, OpenLoops, Target, IsBreaking
<1> QED BY <1>3, <1>5, <1>6, StutterStep DEF Kept

\* What b_c_is_done() does, by where the break or continue is addressed to.
LEMMA DoneFacts ==
  ASSUME NEW r \in Info, r.depth > 0,
         IF IsBreaking(r) THEN r.code > 0 ELSE r.code = 0,
         NEW d, d = BCIsDone(r)
  PROVE  /\ d.depth = r.depth - 1
         /\ ~IsBreaking(r) =>
              d.type = Nothing /\ d.code = 0 /\ BCResult(r) = Nothing
         /\ IsBreaking(r) /\ (r.depth = 1 \/ r.code = 1) =>
              d.type = Nothing /\ d.code = 0 /\ BCResult(r) = r.type
         /\ IsBreaking(r) /\ r.depth > 1 /\ r.code > 1 =>
              d.type = r.type /\ d.code = r.code - 1 /\ BCResult(r) = Break
<1>1. r.depth \in Int /\ r.code \in Nat /\ r.type \in InfoType BY DEF Info
<1>2. /\ LeftOne(r).depth = r.depth - 1 /\ LeftOne(r).type = r.type
      /\ LeftOne(r).code = IF r.code # 0 THEN r.code - 1 ELSE 0
      /\ LeftOne(r) \in Info
  BY <1>1, InfoClosed DEF LeftOne, Info
<1>3. Reached(r) <=> r.depth = 1 \/ r.code \in {0, 1}
  BY <1>1, <1>2 DEF Reached
<1> DEFINE l == LeftOne(r)
<1> HIDE DEF l
<1>4. CASE IsBreaking(r) /\ Reached(r)
  <2>1. d = [l EXCEPT !.code = 0, !.type = Nothing] BY <1>4 DEF BCIsDone, l
  <2>2. l \in Info BY <1>2 DEF l
  <2>3. d.depth = l.depth /\ d.code = 0 /\ d.type = Nothing
    BY <2>1, <2>2 DEF Info
  <2>4. BCResult(r) = r.type BY <1>4 DEF BCResult
  <2> QED BY <1>1, <1>2, <1>3, <1>4, <2>3, <2>4 DEF l
<1>5. CASE IsBreaking(r) /\ ~Reached(r)
  <2>1. d = LeftOne(r) /\ BCResult(r) = Break BY <1>5 DEF BCIsDone, BCResult
  <2> QED BY <1>1, <1>2, <1>3, <1>5, <2>1
<1>6. CASE ~IsBreaking(r)
  <2>1. d = LeftOne(r) /\ BCResult(r) = Nothing
    BY <1>6 DEF BCIsDone, BCResult, IsBreaking
  <2> QED BY <1>1, <1>2, <1>6, <2>1 DEF IsBreaking
<1> QED BY <1>4, <1>5, <1>6

\* A loop starts its first evaluation.
LEMMA KeepEnter ==
  ASSUME LoopInv, stack # <<>>, NEW f, Replaces(f, stack), FrameOK(f),
         ~Waits(f), InLoop(f), NEW child \in Trees, EvalInLoop(f, child, info),
         ~InLoop(Top), ~IsBreaking(info)
  PROVE  Kept
<1> DEFINE g == Frame("eval", child, LevelOf(f), f.base)
<1>1. /\ g \in Frames /\ FrameOK(g) /\ StandsOn(g, f) /\ g.level = LevelOf(f)
      /\ LevelOf(g) = LevelOf(f) /\ g.base = f.base
  BY EvalFrame DEF Replaces
<1>2. stack' = Append(WithTop(f), g) /\ ret' = NoRet /\ info' = IncDepth(info)
  BY DEF EvalInLoop, CallFrom
<1> HIDE DEF g
<1>3. Shape(stack') /\ stack' # <<>> /\ Top' = g BY <1>1, <1>2, Pushed
<1>4. f.base = Top.base /\ LevelOf(f) = LevelOf(Top) + 1
  BY DEF Replaces, Top, LevelOf
<1>5. info'.depth = info.depth + 1 /\ info'.type = info.type
      /\ info'.code = info.code
  BY <1>2, TopAt DEF IncDepth, Info, LoopInv
<1>6. Counts'
  BY <1>1, <1>3, <1>4, <1>5, Counting DEF Counts, Counted, IsBreaking
<1>7. Process' = Process /\ OpenLoops' = OpenLoops + 1 /\ Target' = Target
  BY <1>1, <1>3, <1>4, <1>5, Counting DEF Process, OpenLoops, Target, IsBreaking
<1> QED BY <1>3, <1>5, <1>6, <1>7, EnterStep, QuietTarget DEF Kept

\* A loop starts its next evaluation.
LEMMA KeepIterate ==
  ASSUME LoopInv, stack # <<>>, NEW f, Replaces(f, stack), FrameOK(f),
         ~Waits(f), InLoop(f), NEW child \in Trees,
         EvalInLoop(f, child, BCIsDone(info)), InLoop(Top),
         BCResult(info) # Break
  PROVE  Kept
<1> DEFINE g == Frame("eval", child, LevelOf(f), f.base)
           d == BCIsDone(info)
<1>1. /\ g \in Frames /\ FrameOK(g) /\ StandsOn(g, f) /\ g.level = LevelOf(f)
      /\ LevelOf(g) = LevelOf(f) /\ g.base = f.base
  BY EvalFrame DEF Replaces
<1>2. stack' = Append(WithTop(f), g) /\ ret' = NoRet /\ info' = IncDepth(d)
  BY DEF EvalInLoop, CallFrom
<1>3. info \in Info /\ info.depth = LevelOf(Top) /\ LevelOf(Top) = Top.level + 1
      /\ Top.level \in Nat /\ info.code \in Nat
  BY TopAt, Counting DEF LevelOf, LoopInv
<1>4. info.depth > 0 BY <1>3
<1>5. d \in Info /\ d.depth = info.depth - 1 /\ d.type = Nothing /\ d.code = 0
  BY <1>3, <1>4, DoneFacts, Counting, InfoClosed DEF Info
<1>6. IsBreaking(info) => (info.depth = 1 \/ info.code = 1) /\ info.type = Continue
  BY <1>3, <1>4, DoneFacts, Counting DEF Info, InfoType, IsBreaking
<1> HIDE DEF g, d
<1>7. Shape(stack') /\ stack' # <<>> /\ Top' = g BY <1>1, <1>2, Pushed
<1>8. f.base = Top.base /\ LevelOf(f) = LevelOf(Top)
  BY DEF Replaces, Top, LevelOf
<1>9. info'.depth = info.depth /\ info'.type = Nothing /\ info'.code = 0
  BY <1>2, <1>3, <1>5 DEF IncDepth, Info
<1>10. Counts'
  BY <1>1, <1>7, <1>8, <1>9, Counting DEF Counts, Counted, IsBreaking
<1>11. Process' = Process /\ OpenLoops' = OpenLoops /\ OpenLoops > 0
  BY <1>1, <1>3, <1>4, <1>7, <1>8, Counting DEF Process, OpenLoops
<1>12. Target' = 0 BY <1>9 DEF Target, IsBreaking
<1>13. Target # 0 => Target = OpenLoops /\ info.type = Continue
  BY <1>3, <1>6, Counting DEF Target
<1> QED BY <1>7, <1>9, <1>10, <1>11, <1>12, <1>13, IterateStep DEF Kept

LEMMA Below ==
  ASSUME LoopInv, stack # <<>>, NEW m \in 1 .. Len(stack), m > 1,
         stack' = SubSeq(stack, 1, m - 1)
  PROVE  /\ Shape(stack') /\ stack' # <<>> /\ Top' = stack[m - 1]
         /\ m - 1 \in 1 .. Len(stack) /\ LevelOf(Top') = stack[m].level
         /\ StandsOn(stack[m], Top') /\ Top'.base \in 0 .. m - 1
<1>1. stack \in Seq(Frames) /\ m \in Nat /\ Len(stack) \in Nat
  BY TopAt DEF LoopInv, TypeInv, WellFormed
<1>2. /\ Shape(stack') /\ stack' # <<>> /\ Top' = stack[m - 1]
      /\ m - 1 \in 1 .. Len(stack)
  BY <1>1, ShapeCut DEF Top, LoopInv
<1>3. m - 1 \in 1 .. Len(stack) - 1 /\ (m - 1) + 1 = m BY <1>1
<1>4. stack[m].level = LevelOf(stack[m - 1])
  BY <1>3 DEF LoopInv, TypeInv, WellFormed, Based
<1>5. StandsOn(stack[m], stack[m - 1]) BY <1>3 DEF LoopInv, Shape
<1>6. stack[m - 1].base \in 0 .. m - 1
  BY <1>2 DEF LoopInv, TypeInv, WellFormed, Based
<1> QED BY <1>2, <1>4, <1>5, <1>6

LEMMA BelowTop ==
  ASSUME LoopInv, stack # <<>>, Len(stack) > 1, Top.fn # "fork",
         NEW v \in 0 .. 255, Leave(v)
  PROVE  /\ Shape(stack') /\ stack' # <<>> /\ Top'.base = Top.base
         /\ LevelOf(Top') = Top.level /\ ~Waits(Top') /\ ret' # NoRet
<1>1. stack' = SubSeq(stack, 1, Len(stack) - 1) /\ ret' = v
  BY DEF Leave, Popped
<1>2. ret' # NoRet BY <1>1 DEF NoRet
<1>3. Len(stack) \in 1 .. Len(stack) /\ Top = stack[Len(stack)]
  BY TopAt DEF LoopInv
<1> QED BY <1>1, <1>2, <1>3, Below DEF StandsOn

LEMMA KeepLeave ==
  ASSUME LoopInv, stack # <<>>, Len(stack) > 1, Top.fn # "fork", ~InLoop(Top),
         NEW v \in 0 .. 255, Leave(v), info' = info
  PROVE  Kept
<1>1. LevelOf(Top') = LevelOf(Top) BY BelowTop DEF LevelOf
<1>2. Counts' BY <1>1, BelowTop, Counting DEF Counts, Counted, IsBreaking
<1>3. Process' = Process /\ OpenLoops' = OpenLoops /\ Target' = Target
  BY <1>1, BelowTop, Counting DEF Process, OpenLoops, Target, IsBreaking
<1> QED BY <1>2, <1>3, BelowTop, StutterStep DEF Kept

\* A loop leaves its last evaluation and returns.
LEMMA KeepDone ==
  ASSUME LoopInv, stack # <<>>, Len(stack) > 1, Top.fn # "fork", InLoop(Top),
         NEW v \in 0 .. 255, Leave(v), info' = BCIsDone(info)
  PROVE  Kept
<1>1. info \in Info /\ info.depth = Top.level + 1 /\ Top.level \in Nat
      /\ info.code \in Nat /\ info.depth > 0
  BY TopAt, Counting DEF LevelOf, LoopInv
<1>2. /\ stack' # <<>> /\ Top'.base = Top.base /\ LevelOf(Top') = Top.level
      /\ ~Waits(Top') /\ ret' # NoRet
  BY BelowTop
<1>3. info'.depth = Top.level /\ info'.depth = info.depth - 1
      /\ info'.code \in Nat
  <2>1. BCIsDone(info).depth = info.depth - 1 /\ BCIsDone(info) \in Info
    BY <1>1, DoneFacts, Counting, InfoClosed
  <2> QED BY <1>1, <2>1 DEF Info
<1>6. OpenLoops' = OpenLoops - 1 /\ OpenLoops > 0 /\ Process' = Process
  <2>1. OpenLoops = info.depth /\ Process = Top.base BY Counting
  <2>2. OpenLoops' = Top.level /\ Process' = Top.base
    BY <1>2 DEF OpenLoops, Process
  <2> QED BY <1>1, <2>1, <2>2
<1>4. CASE ~IsBreaking(info) \/ info.depth = 1 \/ info.code = 1
  <2>1. info'.type = Nothing /\ info'.code = 0
    BY <1>1, <1>4, DoneFacts, Counting
  <2>2. Counts'
    BY <1>2, <1>3, <2>1 DEF Counts, Counted, IsBreaking
  <2>4. Target \in {0, OpenLoops} /\ Target' = 0
    BY <1>1, <1>4, <2>1, Counting DEF Target, IsBreaking
  <2>5. Target = 0 => info.type = Nothing
    BY <1>1, Counting DEF Target, IsBreaking
  <2> QED BY <1>6, <2>1, <2>2, <2>4, <2>5, BelowTop, LeaveStep DEF Kept
<1>5. CASE IsBreaking(info) /\ info.depth # 1 /\ info.code # 1
  <2>1. info.depth > 1 /\ info.code > 1 BY <1>1, <1>5, Counting
  <2>2. info'.type = info.type /\ info'.code = info.code - 1
    BY <1>1, <1>5, <2>1, DoneFacts, Counting
  <2>3. Counts'
    <3>1. info'.code > 0 /\ info'.depth > 0 BY <1>1, <1>3, <2>1, <2>2
    <3> QED BY <1>2, <1>3, <1>5, <2>2, <3>1 DEF Counts, Counted, IsBreaking
  <2>5. Target' = Target /\ Target # OpenLoops
    <3>1. IsBreaking(info') BY <1>5, <2>2 DEF IsBreaking
    <3>2. CASE info.code < info.depth
      <4>1. info'.code < info'.depth BY <1>1, <1>3, <2>2, <3>2
      <4>2. Target = info.depth - info.code + 1 BY <1>5, <3>2 DEF Target
      <4>3. Target' = info'.depth - info'.code + 1 BY <3>1, <4>1 DEF Target
      <4>4. OpenLoops = info.depth BY Counting
      <4>5. info.code \in Int /\ info.depth \in Int BY <1>1
      <4>6. Target' = (info.depth - 1) - (info.code - 1) + 1
        BY <1>3, <2>2, <4>3
      <4>7. Target' = Target BY <4>2, <4>5, <4>6
      <4>8. Target # info.depth BY <2>1, <4>2, <4>5
      <4> QED BY <4>4, <4>7, <4>8
    <3>3. CASE ~(info.code < info.depth)
      <4>1. ~(info'.code < info'.depth) BY <1>1, <1>3, <2>2, <3>3
      <4>2. Target = 1 BY <1>5, <3>3 DEF Target
      <4>3. Target' = 1 BY <3>1, <4>1 DEF Target
      <4> QED BY <1>1, <2>1, <4>2, <4>3, Counting
    <3> QED BY <3>2, <3>3
  <2> QED BY <1>6, <2>2, <2>3, <2>5, BelowTop, LeaveStep DEF Kept
<1> QED BY <1>4, <1>5

\* A process ends.
LEMMA KeepExit ==
  ASSUME LoopInv, stack # <<>>, NEW code \in Nat, Exit(code),
         ~IsBreaking(info) \/ Top.base # 0
  PROVE  Kept
<1>0. code % 256 \in 0 .. 255 BY ByteOf
<1>1. CASE Top.base = 0
  <2>1. stack' = <<>> /\ info' = info /\ ~IsBreaking(info)
    BY <1>1 DEF Exit, globals
  <2>2. Shape(<<>>) BY EmptySeq DEF Shape
  <2>3. Counts' BY <2>1 DEF Counts, IsBreaking
  <2>4. Process' < Process /\ OpenLoops' <= OpenLoops
    BY <1>1, <2>1, TopAt, Counting DEF Process, OpenLoops, LoopInv
  <2>5. Target' = 0 /\ info'.type = Nothing
    BY <2>1 DEF Target, IsBreaking
  <2> QED BY <2>1, <2>2, <2>3, <2>4, <2>5, EndStep DEF Kept
<1>2. CASE Top.base # 0
  <2> DEFINE m == Top.base
  <2>1. /\ m \in 1 .. Len(stack) /\ m > 1 /\ stack[m].fn = "fork"
        /\ m \in Nat
    BY <1>2, TopFacts DEF LoopInv
  <2>2. /\ stack' = SubSeq(stack, 1, m - 1) /\ ret' = code % 256
        /\ info' = stack[m].saved.info
    BY <1>2 DEF Exit
  <2>3. info' = Quiet(stack[m].level) BY <2>1, <2>2 DEF LoopInv, Shape, FrameOK
  <2> HIDE DEF m
  <2>4. /\ Shape(stack') /\ stack' # <<>> /\ LevelOf(Top') = stack[m].level
        /\ Top'.base \in 0 .. m - 1
    BY <2>1, <2>2, Below
  <2>5. info'.depth = stack[m].level /\ info'.type = Nothing /\ info'.code = 0
    BY <2>3 DEF Quiet
  <2>6. Counts' BY <2>4, <2>5 DEF Counts, Counted, IsBreaking
  <2>7. stack[m].level \in Nat /\ stack[m].level <= Top.level
    <3>1. stack[m] \in Frames
      BY <2>1, ElementOfSeq DEF LoopInv, TypeInv, WellFormed
    <3>2. stack[m].level \in Nat BY <3>1, FrameFields
    <3>3. Len(stack) \in 1 .. Len(stack) /\ m <= Len(stack)
      BY <2>1, TopAt DEF LoopInv
    <3> QED BY <2>1, <3>2, <3>3 DEF LoopInv, Shape, Top
  <2>8. Top.level \in Nat /\ Top.level <= LevelOf(Top)
    BY TopAt DEF LevelOf, LoopInv
  <2>9. OpenLoops' <= OpenLoops
    BY <2>4, <2>7, <2>8, TopAt, Counting DEF OpenLoops, LoopInv
  <2>10. Process' < Process
    BY <2>1, <2>4, Counting DEF Process, m
  <2>11. Target' = 0 BY <2>5 DEF Target, IsBreaking
  <2> QED BY <2>4, <2>5, <2>6, <2>9, <2>10, <2>11, EndStep DEF Kept
<1> QED BY <1>1, <1>2

\* A child is forked.
LEMMA KeepFork ==
  ASSUME LoopInv, stack # <<>>, Top.fn = "eval", Top.node # NULL, ~InLoop(Top),
         NEW child \in Trees, NEW p \in Pc, Waits([Top EXCEPT !.pc = p]),
         ~InLoop([Top EXCEPT !.pc = p]), ~IsBreaking(info), Fork(child, p)
  PROVE  Kept
<1> DEFINE k == Len(stack) + 1
           f == [Top EXCEPT !.pc = p]
           g == [info |-> info, last |-> last, fcs |-> fcs, errno |-> errno]
           c == [Frame("fork", NULL, LevelOf(f), k) EXCEPT !.saved = g]
           e == Frame("eval", child, LevelOf(f), k)
           s == WithTop(f)
           t == Append(s, c)
<1>0. stack' = Append(t, e) /\ ret' = NoRet /\ info' = info
  BY DEF Fork, globals
<1>1. Replaces(f, stack) BY ReplacesTop DEF LoopInv
<1>2. f \in Frames /\ f.fn = "eval" /\ f.level = Top.level /\ Waits(f)
      /\ ~InLoop(f) /\ f.base = Top.base /\ f.node = Top.node
  BY <1>1, TopFacts, SamePc DEF Replaces, Top, LoopInv
<1>3. LevelOf(f) = Top.level /\ LevelOf(Top) = Top.level /\ Top.level \in Nat
  BY <1>2, TopAt DEF LevelOf, LoopInv
<1>4. FrameOK(f) BY <1>2 DEF FrameOK
<1>5. g \in Globals BY DEF Globals, GlobalsOK, TypeInv, Trees, LoopInv
<1>6. k \in Nat /\ Len(stack) \in Nat BY TopAt DEF LoopInv
<1>7. c \in Frames /\ e \in Frames BY <1>3, <1>5, <1>6, NewFrame, NewFork
<1>8. /\ c.level = Top.level /\ c.base = k /\ c.fn = "fork"
      /\ c.pc = "start" /\ c.saved = g
  BY <1>3 DEF Frame
<1>9. /\ e.fn = "eval" /\ e.level = Top.level /\ e.base = k
      /\ e.pc \in {"expand", "start"} /\ (e.node = NULL => e.pc = "start")
  BY <1>3 DEF Frame
<1>10. info = Quiet(Top.level)
  <2>1. info \in Info /\ info.depth = Top.level /\ info.type = Nothing
        /\ info.code = 0
    BY <1>3, TopAt, Counting DEF IsBreaking, LoopInv
  <2> QED BY <2>1 DEF Info, Quiet
<1>11. g.info = info OBVIOUS
<1> HIDE DEF k, f, g, c, e, s
<1>24. k # 0 BY <1>6 DEF k
<1>12. FrameOK(c) /\ StandsOn(c, f) /\ ~Waits(c) /\ LevelOf(c) = Top.level
  BY <1>2, <1>8, <1>10, <1>11, <1>24 DEF FrameOK, StandsOn, Waits, LevelOf, InLoop
<1>13. FrameOK(e) /\ StandsOn(e, c) /\ ~Waits(e) /\ LevelOf(e) = Top.level
  <2>1. ~Waits(e) BY <1>9 DEF Waits
  <2> QED BY <1>8, <1>9, <1>12, <2>1 DEF FrameOK, StandsOn, LevelOf, InLoop
<1>14. /\ Shape(s) /\ s \in Seq(Frames) /\ s # <<>> /\ s[Len(s)] = f
       /\ Len(s) = Len(stack)
  BY <1>1, <1>4, Replaced DEF s
<1>15. /\ Shape(t) /\ t \in Seq(Frames) /\ t # <<>> /\ t[Len(s) + 1] = c
       /\ Len(t) = Len(s) + 1
  BY <1>3, <1>7, <1>8, <1>12, <1>14, ShapePush DEF t
<1>16. t[Len(t)] = c BY <1>15
<1> HIDE DEF t
<1>17. /\ Shape(stack') /\ stack' # <<>> /\ stack'[Len(t) + 1] = e
       /\ Len(stack') = Len(t) + 1
  BY <1>0, <1>7, <1>9, <1>12, <1>13, <1>15, <1>16, ShapePush
<1>18. Top' = e BY <1>17 DEF Top
<1>19. info.depth = Top.level /\ Process = Top.base /\ OpenLoops = Top.level
  BY <1>3, Counting
<1>20. Counts'
  BY <1>0, <1>13, <1>17, <1>18, <1>19, Counting DEF Counts, Counted, IsBreaking
<1>21. OpenLoops' = OpenLoops /\ Target' = Target
  BY <1>0, <1>13, <1>17, <1>18, <1>19 DEF OpenLoops, Target, IsBreaking
<1>22. Process' = k BY <1>9, <1>17, <1>18 DEF Process
<1>23. Process' > Process
  <2>1. Top.base \in 0 .. Len(stack) BY TopAt DEF LoopInv
  <2> QED BY <1>6, <1>19, <1>22, <2>1 DEF k
<1> QED BY <1>0, <1>17, <1>20, <1>21, <1>23, ForkStep, QuietTarget DEF Kept

\* break and continue.
LEMMA KeepRequest ==
  ASSUME LoopInv, stack # <<>>, Len(stack) > 1, Top.fn # "fork", ~InLoop(Top),
         ~IsBreaking(info), NEW n \in Nat \ {0}, NEW type \in {Break, Continue},
         info' = SetBC(info, n, type), Leave(0)
  PROVE  Kept
<1>0. 0 \in 0 .. 255 OBVIOUS
<1>1. CASE info.depth = 0
  <2>1. info' = info BY <1>1 DEF SetBC
  <2> QED BY <1>0, <2>1, KeepLeave
<1>2. CASE info.depth # 0
  <2>1. info \in Info /\ info.depth = Top.level /\ Top.level \in Nat
    BY TopAt, Counting DEF LevelOf, LoopInv
  <2>2. info' = [info EXCEPT !.code = n, !.type = type] BY <1>2 DEF SetBC
  <2>3. info'.depth = info.depth /\ info'.code = n /\ info'.type = type
    BY <2>1, <2>2 DEF Info
  <2>4. info.depth > 0 /\ type # Nothing
    BY <1>2, <2>1 DEF Break, Continue, Nothing
  <2>5. /\ Shape(stack') /\ stack' # <<>> /\ Top'.base = Top.base
        /\ LevelOf(Top') = Top.level /\ ~Waits(Top') /\ ret' # NoRet
    BY <1>0, BelowTop
  <2>6. Counts' BY <2>1, <2>3, <2>4, <2>5 DEF Counts, Counted, IsBreaking
  <2>7. OpenLoops = Top.level /\ Process = Top.base BY <2>1, Counting
  <2>8. OpenLoops' = OpenLoops /\ Process' = Process
    BY <2>5, <2>7 DEF OpenLoops, Process
  <2>9. Target' \in 1 .. OpenLoops
    <3>1. Target' = IF n < info.depth THEN info.depth - n + 1 ELSE 1
      BY <2>3, <2>4 DEF Target, IsBreaking
    <3> QED BY <2>1, <2>4, <2>7, <3>1
  <2>10. OpenLoops > 0 BY <2>1, <2>4, <2>7
  <2> QED BY <2>3, <2>5, <2>6, <2>8, <2>9, <2>10, RequestStep, QuietTarget
          DEF Kept
<1> QED BY <1>1, <1>2
-----------------------------------------------------------------------------
(* Every action *)

LoopPc == {"loop_cond", "loop_body"}

LEMMA Silent ==
  ASSUME LoopInv, stack # <<>>, ret = NoRet \/ Waits(Top)
  PROVE  ~IsBreaking(info)
  BY Counting

LEMMA EvalTop ==
  ASSUME LoopInv, NEW types, types \subseteq AstTypes, NEW pc, At(types, pc)
  PROVE  /\ stack # <<>> /\ Len(stack) > 1 /\ Top.fn = "eval" /\ Top.pc = pc
         /\ Top.node.type \in types /\ (InLoop(Top) <=> pc \in LoopPc)
         /\ Top \in Frames
         /\ \A f : Replaces(f, stack) /\ f.node = Top.node => FrameOK(f)
<1>1. stack # <<>> /\ Len(stack) > 1 /\ Top.fn = "eval"
  BY EvalFrames DEF LoopInv
<1>2. Top.pc = pc /\ Top.node.type \in types BY DEF At
<1>3. \A f : Replaces(f, stack) => f.fn = "eval" BY <1>1 DEF Replaces, Top
<1>4. \A f : f.fn = "eval" /\ f.node # NULL => FrameOK(f) BY DEF FrameOK
<1>5. Top.node # NULL BY DEF At
<1> QED BY <1>1, <1>2, <1>3, <1>4, <1>5, TopFacts DEF InLoop, LoopPc, LoopInv

LEMMA LeaveKept ==
  ASSUME LoopInv, NEW types, types \subseteq AstTypes,
         NEW pc, pc \notin LoopPc, At(types, pc),
         NEW v, v \in 0 .. 255 \/ (v = ret /\ ret # NoRet),
         Leave(v), info' = info
  PROVE  Kept
<1>1. v \in 0 .. 255 BY Unmoved DEF LoopInv
<1> QED BY <1>1, EvalTop, KeepLeave

LEMMA CallKept ==
  ASSUME LoopInv, NEW types, types \subseteq AstTypes,
         NEW pc, pc \notin LoopPc, At(types, pc),
         types \cap {"AST_PIPE", "AST_SUBSHELL"} = {},
         NEW p \in {"first", "second"}, NEW child \in Trees,
         ~IsBreaking(info), Call(child, p), info' = info
  PROVE  Kept
<1> DEFINE f == [Top EXCEPT !.pc = p]
<1>0. p \in Pc BY DEF Pc
<1>1. Replaces(f, stack) BY <1>0, EvalFrames DEF LoopInv
<1>2. /\ Top \in Frames /\ stack # <<>> /\ ~InLoop(Top)
      /\ Top.node.type \in types
  BY EvalTop
<1>3. f.pc = p /\ f.node = Top.node /\ f.level = Top.level BY <1>2, SamePc
<1>7. FrameOK(f) BY <1>1, <1>3, EvalTop
<1>4. CallFrom(f, child) BY DEF Call
<1> HIDE DEF f
<1>5. ~Waits(f) BY <1>2, <1>3 DEF Waits
<1>6. LevelOf(f) = LevelOf(Top) BY <1>2, <1>3 DEF LevelOf, InLoop
<1> QED BY <1>1, <1>2, <1>4, <1>5, <1>6, <1>7, KeepCall

LEMMA ForkKept ==
  ASSUME LoopInv, NEW types, types \subseteq AstTypes,
         NEW pc, pc \notin LoopPc, At(types, pc), NEW p,
         \/ p = "expanding"
         \/ /\ p \in {"first", "second"}
            /\ types \subseteq {"AST_PIPE", "AST_SUBSHELL"},
         ret = NoRet \/ Waits(Top), NEW child \in Trees, Fork(child, p)
  PROVE  Kept
<1> DEFINE f == [Top EXCEPT !.pc = p]
<1>0. p \in Pc BY DEF Pc
<1>1. /\ Top \in Frames /\ stack # <<>> /\ ~InLoop(Top) /\ Top.fn = "eval"
      /\ Top.node.type \in types /\ Top.node # NULL
  BY EvalTop DEF At
<1>2. f.pc = p /\ f.node = Top.node /\ f.fn = "eval" BY <1>1, SamePc
<1>3. Waits(f) BY <1>1, <1>2 DEF Waits
<1>4. ~InLoop(f) BY <1>2 DEF InLoop
<1>5. ~IsBreaking(info) BY <1>1, Silent
<1> QED BY <1>0, <1>1, <1>3, <1>4, <1>5, KeepFork

LEMMA ExitKept ==
  ASSUME LoopInv, NEW types, types \subseteq AstTypes, NEW pc, At(types, pc),
         ret = NoRet, NEW v \in Nat, Exit(v)
  PROVE  Kept
  BY EvalTop, Silent, KeepExit

LEMMA TreeTypes ==
  /\ EvalAstTypes \subseteq AstTypes /\ {"AST_IF"} \subseteq AstTypes
  /\ {"AST_NOT"} \subseteq AstTypes /\ {"AST_CASE"} \subseteq AstTypes
  /\ {"AST_CMD"} \subseteq AstTypes /\ {"AST_FUNC"} \subseteq AstTypes
  /\ {"AST_SUBSHELL"} \subseteq AstTypes /\ {"AST_PIPE"} \subseteq AstTypes
  /\ {"AST_S_CMD"} \subseteq AstTypes /\ {"AST_FOR"} \subseteq AstTypes
  /\ BinaryTypes \subseteq AstTypes /\ While \subseteq AstTypes
  /\ {"AST_PIPE", "AST_SUBSHELL"} \subseteq AstTypes
  /\ BinaryTypes \cap {"AST_PIPE", "AST_SUBSHELL"} = {}
  BY DEF EvalAstTypes, AstTypes, BinaryTypes, LoopTypes, While

LEMMA BeginKept ==
  ASSUME LoopInv, NEW types, types \subseteq HaveOne,
         types \cap {"AST_PIPE", "AST_SUBSHELL"} = {}, Begin(types)
  PROVE  Kept
<1>1. At(types, "start") /\ ret = NoRet /\ info' = info
      /\ Call(Top.node.kids[1], "first")
  BY DEF Begin, Runs, globals
<1>2. types \subseteq AstTypes BY DEF HaveOne
<1>3. Top.node.kids[1] \in Trees BY <1>1, <1>2, NodeFacts DEF LoopInv
<1>4. ~IsBreaking(info) BY <1>1, <1>2, EvalTop, Silent
<1> QED BY <1>1, <1>2, <1>3, <1>4, CallKept DEF LoopPc

LEMMA ResultKept ==
  ASSUME LoopInv, NEW types, types \subseteq AstTypes,
         NEW pc, pc \notin LoopPc, At(types, pc),
         NEW v, v \in 0 .. 255 \/ (v = ret /\ ret # NoRet), Result(v)
  PROVE  Kept
  BY LeaveKept DEF Result, Return

LEMMA SecondKept ==
  ASSUME LoopInv, NEW types, types \subseteq AstTypes,
         types \cap {"AST_PIPE", "AST_SUBSHELL"} = {},
         Evaluated(types, "first"), NEW child \in Trees, EvalSecond(child)
  PROVE  Kept
  BY CallKept DEF Evaluated, Back, EvalSecond, LoopPc

LEMMA KeptGeneral ==
  ASSUME LoopInv, EvalNull \/ Substitute \/ EvalAstBreaks \/ ChildExits
  PROVE  Kept
<1> USE DEF LoopPc
<1>1. CASE EvalNull
  <2>1. stack # <<>> /\ Top.fn = "eval" /\ Leave(0) /\ info' = info
        /\ Top.node = NULL
    BY <1>1 DEF EvalNull, globals
  <2>2. Len(stack) > 1 BY <2>1, TopFacts DEF LoopInv
  <2>3. ~InLoop(Top) BY <2>1, Counting DEF FrameOK, InLoop
  <2>4. 0 \in 0 .. 255 OBVIOUS
  <2> QED BY <2>1, <2>2, <2>3, <2>4, KeepLeave
<1>2. CASE Runs(AstTypes, "expand") /\ Fork(Top.node.subst, "expanding")
  <2>1. At(AstTypes, "expand") /\ ret = NoRet BY <1>2 DEF Runs
  <2>2. Top.node.subst \in Trees BY <2>1, NodeFacts DEF LoopInv
  <2> QED BY <1>2, <2>1, <2>2, ForkKept
<1>3. CASE /\ Back(AstTypes, "expanding")
           /\ stack' = WithTop([Top EXCEPT !.pc = "start"])
           /\ ret' = NoRet /\ last' = ret
           /\ UNCHANGED <<info, fcs, errno, ended>>
  <2> DEFINE f == [Top EXCEPT !.pc = "start"]
  <2>1. At(AstTypes, "expanding") BY <1>3 DEF Back
  <2>2. /\ stack # <<>> /\ Top \in Frames /\ Top.pc = "expanding"
        /\ Replaces(f, stack)
    BY <2>1, EvalTop, EvalFrames DEF Pc, LoopInv
  <2>3. f.pc = "start" /\ f.node = Top.node /\ f.level = Top.level
    BY <2>2, SamePc
  <2>4. FrameOK(f) BY <2>1, <2>2, <2>3, EvalTop
  <2>5. ~IsBreaking(info) BY <2>2, Silent DEF Waits
  <2>6. LevelOf(f) = LevelOf(Top) BY <2>2, <2>3 DEF LevelOf, InLoop
  <2>7. stack' = WithTop(f) /\ info' = info BY <1>3
  <2> HIDE DEF f
  <2> QED BY <2>2, <2>4, <2>5, <2>6, <2>7, KeepSet
<1>4. CASE EvalAstBreaks
  <2>1. PICK pc \in {"first", "second"} : At(EvalAstTypes, pc)
    BY <1>4 DEF EvalAstBreaks, Back
  <2>2. ret # NoRet /\ Result(ret)
    BY <1>4 DEF EvalAstBreaks, Back, Result
  <2> QED BY <2>1, <2>2, TreeTypes, ResultKept
<1>5. CASE ChildExits
  <2>1. stack # <<>> /\ Exit(ret) /\ ret # NoRet /\ Top.fn = "fork"
    BY <1>5 DEF ChildExits
  <2>2. ret \in 0 .. 255 BY <2>1, Unmoved DEF LoopInv
  <2>3. ret \in Nat BY <2>2
  <2>4. Top.base # 0 BY <2>1, Counting DEF FrameOK
  <2> QED BY <2>1, <2>3, <2>4, KeepExit
<1> QED BY <1>1, <1>2, <1>3, <1>4, <1>5 DEF Substitute

LEMMA KeptTree ==
  ASSUME LoopInv, EvalIf \/ EvalBinary \/ EvalNot \/ EvalCase
  PROVE  Kept
<1> USE TreeTypes DEF LoopPc
<1>0. /\ {"AST_IF"} \subseteq HaveOne /\ {"AST_NOT"} \subseteq HaveOne
      /\ BinaryTypes \subseteq HaveOne /\ BinaryTypes \subseteq HaveTwo
      /\ "AST_IF" \in HaveTwo
      /\ {"AST_IF"} \cap {"AST_PIPE", "AST_SUBSHELL"} = {}
      /\ {"AST_NOT"} \cap {"AST_PIPE", "AST_SUBSHELL"} = {}
      /\ {"AST_CASE"} \cap {"AST_PIPE", "AST_SUBSHELL"} = {}
  BY DEF HaveOne, HaveTwo, AstTypes, BinaryTypes, LoopTypes
<1>1. CASE EvalIf
  <2>1. CASE Begin({"AST_IF"}) BY <2>1, <1>0, BeginKept
  <2>2. CASE /\ Evaluated({"AST_IF"}, "first")
             /\ EvalSecond(Top.node.kids[IF ret = 0 THEN 2 ELSE 3])
    <3>1. At({"AST_IF"}, "first") BY <2>2 DEF Evaluated, Back
    <3>2. Top.node.type = "AST_IF" BY <3>1 DEF At
    <3>3. Top.node.kids[2] \in Trees /\ Top.node.kids[3] \in Trees
      BY <1>0, <3>1, <3>2, NodeFacts DEF LoopInv
    <3> QED BY <1>0, <2>2, <3>3, SecondKept
  <2>3. CASE Evaluated({"AST_IF"}, "second") /\ Result(ret)
    BY <2>3, ResultKept DEF Evaluated, Back
  <2> QED BY <1>1, <2>1, <2>2, <2>3 DEF EvalIf
<1>2. CASE EvalBinary
  <2>1. CASE Begin(BinaryTypes) BY <2>1, <1>0, BeginKept
  <2>2. CASE /\ Evaluated(BinaryTypes, "first")
             /\ EvalSecond(Top.node.kids[2])
    <3>1. At(BinaryTypes, "first") BY <2>2 DEF Evaluated, Back
    <3>2. Top.node.kids[2] \in Trees BY <1>0, <3>1, NodeFacts DEF LoopInv
    <3> QED BY <1>0, <2>2, <3>2, SecondKept
  <2>3. CASE Evaluated(BinaryTypes, "first") /\ Result(ret)
    BY <2>3, ResultKept DEF Evaluated, Back
  <2>4. CASE Evaluated(BinaryTypes, "second") /\ Result(ret)
    BY <2>4, ResultKept DEF Evaluated, Back
  <2> QED BY <1>2, <2>1, <2>2, <2>3, <2>4 DEF EvalBinary
<1>3. CASE EvalNot
  <2>1. CASE Begin({"AST_NOT"}) BY <2>1, <1>0, BeginKept
  <2>2. CASE /\ Evaluated({"AST_NOT"}, "first")
             /\ Result(IF ret = 0 THEN 1 ELSE 0)
    BY <2>2, ResultKept DEF Evaluated, Back
  <2> QED BY <1>3, <2>1, <2>2 DEF EvalNot
<1>4. CASE EvalCase
  <2>1. CASE Runs({"AST_CASE"}, "start") /\ Result(0)
    BY <2>1, ResultKept DEF Runs
  <2>2. CASE /\ Runs({"AST_CASE"}, "start")
             /\ \E k \in DOMAIN Top.node.kids : Call(Top.node.kids[k], "first")
             /\ UNCHANGED <<globals, ended>>
    <3>1. At({"AST_CASE"}, "start") /\ ret = NoRet /\ info' = info
      BY <2>2 DEF Runs, globals
    <3>2. PICK k \in DOMAIN Top.node.kids : Call(Top.node.kids[k], "first")
      BY <2>2
    <3>3. Top.node.kids[k] \in Trees BY <3>1, NodeFacts DEF LoopInv
    <3>4. ~IsBreaking(info) BY <3>1, EvalTop, Silent
    <3> QED BY <1>0, <3>1, <3>2, <3>3, <3>4, CallKept
  <2>3. CASE Evaluated({"AST_CASE"}, "first") /\ Result(ret)
    BY <2>3, ResultKept DEF Evaluated, Back
  <2> QED BY <1>4, <2>1, <2>2, <2>3 DEF EvalCase
<1> QED BY <1>1, <1>2, <1>3, <1>4

LEMMA KeptChildren ==
  ASSUME LoopInv, EvalCmd \/ EvalFunc \/ EvalSubshell \/ EvalPipe \/ ForkFails
  PROVE  Kept
<1> USE TreeTypes, Types DEF LoopPc
<1>0. {"AST_CMD"} \cap {"AST_PIPE", "AST_SUBSHELL"} = {} OBVIOUS
<1>1. CASE EvalCmd
  <2>1. CASE Begin({"AST_CMD"}) BY <1>0, <2>1, BeginKept
  <2>2. CASE Runs({"AST_CMD"}, "start") /\ Result(2)
    BY <2>2, ResultKept DEF Runs
  <2>3. CASE Runs({"AST_CMD"}, "start") /\ Exit(2)
    BY <2>3, ExitKept DEF Runs
  <2>4. CASE Runs({"AST_CMD"}, "start") /\ Exit(127)
    BY <2>4, ExitKept DEF Runs
  <2>5. CASE Back({"AST_CMD"}, "first") /\ Result(ret)
    BY <2>5, ResultKept DEF Back
  <2> QED BY <1>1, <2>1, <2>2, <2>3, <2>4, <2>5 DEF EvalCmd
<1>2. CASE EvalFunc
  <2>1. At({"AST_FUNC"}, "start") /\ Leave(0) /\ info' = info
    BY <1>2 DEF EvalFunc, Runs, Return
  <2> QED BY <2>1, LeaveKept
<1>3. CASE EvalSubshell
  <2>1. CASE Runs({"AST_SUBSHELL"}, "start") /\ Fork(Top.node.kids[1], "first")
    <3>1. At({"AST_SUBSHELL"}, "start") /\ ret = NoRet BY <2>1 DEF Runs
    <3>2. Top.node.kids[1] \in Trees BY <3>1, NodeFacts DEF LoopInv
    <3> QED BY <2>1, <3>1, <3>2, ForkKept
  <2>2. CASE Back({"AST_SUBSHELL"}, "first") /\ Result(ret)
    BY <2>2, ResultKept DEF Back
  <2> QED BY <1>3, <2>1, <2>2 DEF EvalSubshell
<1>4. CASE EvalPipe
  <2>1. CASE Runs({"AST_PIPE"}, "start") /\ Fork(Top.node.kids[1], "first")
    <3>1. At({"AST_PIPE"}, "start") /\ ret = NoRet BY <2>1 DEF Runs
    <3>2. Top.node.kids[1] \in Trees BY <3>1, NodeFacts DEF LoopInv
    <3> QED BY <2>1, <3>1, <3>2, ForkKept
  <2>2. CASE Back({"AST_PIPE"}, "first") /\ Fork(Top.node.kids[2], "second")
    <3>1. At({"AST_PIPE"}, "first") BY <2>2 DEF Back
    <3>2. Top.node.kids[2] \in Trees BY <3>1, NodeFacts DEF LoopInv
    <3>3. Waits(Top) BY <3>1 DEF Waits, At
    <3> QED BY <2>2, <3>1, <3>2, <3>3, ForkKept
  <2>3. CASE Back({"AST_PIPE"}, "second") /\ Result(ret)
    BY <2>3, ResultKept DEF Back
  <2> QED BY <1>4, <2>1, <2>2, <2>3 DEF EvalPipe
<1>5. CASE ForkFails
  <2>1. CASE Runs({"AST_PIPE", "AST_SUBSHELL"}, "start") /\ Exit(2)
    BY <2>1, ExitKept DEF Runs
  <2>2. CASE Runs(AstTypes, "expand") /\ Exit(2)
    BY <2>2, ExitKept DEF Runs
  <2>3. CASE AtCommand("ext") /\ Exit(1)
    BY <2>3, ExitKept DEF AtCommand, Runs
  <2>4. CASE Back({"AST_PIPE"}, "first") /\ Result(1)
    BY <2>4, ResultKept DEF Back
  <2> QED BY <1>5, <2>1, <2>2, <2>3, <2>4 DEF ForkFails
<1> QED BY <1>1, <1>2, <1>3, <1>4, <1>5

LEMMA SimpleTop ==
  ASSUME LoopInv, At({"AST_S_CMD"}, "start")
  PROVE  /\ stack # <<>> /\ Len(stack) > 1 /\ Top \in Frames
         /\ Top.node.type = "AST_S_CMD" /\ Top.fn = "eval" /\ ~InLoop(Top)
<1>1. {"AST_S_CMD"} \subseteq AstTypes BY TreeTypes
<1>2. Top.pc = "start" /\ Top.node.type = "AST_S_CMD" BY DEF At
<1> QED BY <1>1, <1>2, EvalTop DEF InLoop

LEMMA KeptSimple ==
  ASSUME LoopInv, SCmd
  PROVE  Kept
<1> USE TreeTypes DEF LoopPc
<1> DEFINE S == {"AST_S_CMD"}
<1>0. S \cap {"AST_PIPE", "AST_SUBSHELL"} = {} OBVIOUS
<1>1. CASE External
  <2>1. At(S, "start") BY <1>1 DEF External, AtCommand, Runs
  <2>2. PICK v \in Statuses : Result(v) BY <1>1 DEF External
  <2> QED BY <2>1, <2>2, ScriptAssumption, ResultKept
<1>2. CASE Assign BY <1>2, ResultKept DEF Assign, AtCommand, Runs
<1>3. CASE Cd
  <2>1. At(S, "start") BY <1>3 DEF Cd, AtCommand, Runs
  <2>2. CASE Result(0) BY <2>1, <2>2, ResultKept
  <2>3. CASE errno' = ENOENT /\ Return(2) /\ UNCHANGED <<info, fcs, ended>>
    <3>1. Leave(2) /\ info' = info BY <2>3 DEF Return
    <3> QED BY <2>1, <3>1, LeaveKept
  <2> QED BY <1>3, <2>2, <2>3 DEF Cd
<1>4. ASSUME NEW c, NEW type \in {Break, Continue}, BreakContinue(c, type)
      PROVE  Kept
  <2>1. At(S, "start") /\ ret = NoRet BY <1>4 DEF BreakContinue, AtCommand, Runs
  <2>2. CASE Top.node.arg = 0
    <3>1. Exit(2) BY <1>4, <2>2 DEF BreakContinue
    <3> QED BY <2>1, <3>1, ExitKept
  <2>3. CASE Top.node.arg # 0
    <3>1. info' = SetBC(info, Top.node.arg, type) /\ Leave(0)
      BY <1>4, <2>3 DEF BreakContinue, Return
    <3>2. Top.node.arg \in Nat \ {0} BY <2>1, <2>3, NodeFacts DEF LoopInv
    <3>3. stack # <<>> /\ Len(stack) > 1 /\ Top.fn # "fork" /\ ~InLoop(Top)
      BY <2>1, SimpleTop
    <3>4. ~IsBreaking(info) BY <2>1, <3>3, Silent
    <3> QED BY <3>1, <3>2, <3>3, <3>4, KeepRequest
  <2> QED BY <2>2, <2>3
<1>5. CASE XExit
  <2>1. At(S, "start") /\ ret = NoRet /\ Exit(Top.node.arg)
    BY <1>5 DEF XExit, AtCommand, Runs
  <2>2. Top.node.arg \in Nat BY <2>1, NodeFacts DEF LoopInv
  <2> QED BY <2>1, <2>2, ExitKept
<1>6. CASE ExecFunc
  <2>1. CASE AtCommand("call") /\ Result(127)
    BY <2>1, ResultKept DEF AtCommand, Runs
  <2>2. CASE AtCommand("call") /\ Call(fcs, "first") /\ UNCHANGED <<globals, ended>>
    <3>1. At(S, "start") /\ ret = NoRet BY <2>2 DEF AtCommand, Runs
    <3>2. info' = info BY <2>2 DEF globals
    <3>3. fcs \in Trees BY Unmoved DEF LoopInv
    <3>4. ~IsBreaking(info) BY <3>1, EvalTop, Silent
    <3> QED BY <1>0, <2>2, <3>1, <3>2, <3>3, <3>4, CallKept
  <2>3. CASE Back(S, "first") /\ Result(ret)
    BY <2>3, ResultKept DEF Back
  <2> QED BY <1>6, <2>1, <2>2, <2>3 DEF ExecFunc
<1>7. CASE Dot
  <2>1. CASE AtCommand("dot") /\ Exit(Top.node.arg)
    <3>1. At(S, "start") /\ ret = NoRet BY <2>1 DEF AtCommand, Runs
    <3>2. Top.node.arg \in Nat BY <3>1, NodeFacts DEF LoopInv
    <3> QED BY <2>1, <3>1, <3>2, ExitKept
  <2>2. CASE /\ AtCommand("dot")
             /\ stack' = Append(WithTop([Top EXCEPT !.pc = "first"]),
                                Frame("script", Sourced, Top.level, Top.base))
             /\ errno' = 0
             /\ UNCHANGED <<ret, info, last, fcs, ended>>
    <3> DEFINE f == [Top EXCEPT !.pc = "first"]
               g == Frame("script", Sourced, Top.level, Top.base)
    <3>1. At(S, "start") /\ ret = NoRet BY <2>2 DEF AtCommand, Runs
    <3>2. /\ stack # <<>> /\ Top \in Frames /\ Top.node.type \in S
          /\ ~InLoop(Top) /\ Top.fn = "eval"
      BY <3>1, SimpleTop
    <3>3. Replaces(f, stack) BY <3>1, EvalFrames DEF Pc, LoopInv
    <3>4. f.pc = "first" /\ f.node = Top.node /\ f.level = Top.level
      BY <3>2, SamePc
    <3>5. FrameOK(f) BY <3>1, <3>3, <3>4, EvalTop
    <3>6. ~Waits(f) BY <3>2, <3>4 DEF Waits
    <3>7. g \in Frames
      <4>1. Sourced \in Scripted BY ScriptAssumption DEF Scripted
      <4> QED BY <3>2, <4>1, NewScript, FrameFields
    <3>8. g.fn = "script" /\ g.pc = "start" /\ g.level = Top.level
          /\ g.base = Top.base
      BY DEF Frame
    <3>9. stack' = Append(WithTop(f), g) /\ info' = info BY <2>2
    <3>10. f.base = Top.base BY <3>3 DEF Replaces, Top
    <3> HIDE DEF f, g
    <3>11. LevelOf(f) = Top.level /\ LevelOf(Top) = Top.level
           /\ LevelOf(g) = Top.level
      BY <3>2, <3>4, <3>8 DEF LevelOf, InLoop
    <3>12. FrameOK(g) /\ StandsOn(g, f)
      BY <3>6, <3>8, <3>10 DEF FrameOK, StandsOn
    <3>13. Shape(stack') /\ stack' # <<>> /\ Top' = g
      BY <3>2, <3>3, <3>5, <3>7, <3>8, <3>9, <3>11, <3>12, Pushed
    <3>14. ~IsBreaking(info) BY <3>1, <3>2, Silent
    <3>15. Counts'
      BY <3>2, <3>9, <3>11, <3>13, <3>14, Counting
      DEF Counts, Counted, IsBreaking
    <3>16. Process' = Process /\ OpenLoops' = OpenLoops /\ Target' = Target
      BY <3>2, <3>8, <3>9, <3>11, <3>13, Counting
      DEF Process, OpenLoops, Target, IsBreaking
    <3> QED BY <3>9, <3>13, <3>15, <3>16, StutterStep DEF Kept
  <2>3. CASE Back(S, "first") /\ Result(ret)
    BY <2>3, ResultKept DEF Back
  <2>4. CASE AtCommand("dot") /\ Result(0)
    BY <2>4, ResultKept DEF AtCommand, Runs
  <2> QED BY <1>7, <2>1, <2>2, <2>3, <2>4 DEF Dot
<1> QED BY <1>1, <1>2, <1>3, <1>4, <1>5, <1>6, <1>7 DEF SCmd

LEMMA LoopFrame ==
  ASSUME LoopInv, NEW types, types \subseteq AstTypes,
         types \cap {"AST_PIPE", "AST_SUBSHELL"} = {},
         NEW pc, At(types, pc), NEW f, Replaces(f, stack), f.node = Top.node,
         f.pc \in LoopPc
  PROVE  FrameOK(f) /\ ~Waits(f) /\ InLoop(f)
<1>1. FrameOK(f) BY EvalTop
<1>2. Top.node.type \in types BY DEF At
<1> QED BY <1>1, <1>2 DEF Waits, InLoop, LoopPc

LEMMA LoopTypesApart ==
  /\ While \subseteq AstTypes /\ While \cap {"AST_PIPE", "AST_SUBSHELL"} = {}
  /\ {"AST_FOR"} \subseteq AstTypes
  /\ {"AST_FOR"} \cap {"AST_PIPE", "AST_SUBSHELL"} = {}
  /\ While \subseteq HaveOne /\ While \subseteq HaveTwo
  /\ {"AST_FOR"} \subseteq HaveOne
  /\ "loop_cond" \in LoopPc /\ "loop_body" \in LoopPc /\ "start" \notin LoopPc
  /\ 0 \in 0 .. 255
  BY TreeTypes, Types DEF While, LoopPc

LEMMA LoopTop ==
  ASSUME LoopInv, NEW T, T = While \/ T = {"AST_FOR"}, NEW pc, At(T, pc)
  PROVE  /\ stack # <<>> /\ Len(stack) > 1 /\ Top.fn # "fork" /\ Top \in Frames
         /\ Top.pc = pc
         /\ InLoop(Top) <=> pc \in LoopPc
         /\ ret = NoRet => ~IsBreaking(info)
         /\ Top.node.kids[1] \in Trees
         /\ T = While => Top.node.kids[2] \in Trees
         /\ Top.res \in 0 .. 255
         /\ ret # NoRet => ret \in 0 .. 255
<1>0. /\ T \subseteq AstTypes /\ T \subseteq HaveOne
      /\ T = While => T \subseteq HaveTwo
  BY LoopTypesApart
<1>1. /\ stack # <<>> /\ Len(stack) > 1 /\ Top.fn = "eval" /\ Top.pc = pc
      /\ Top.node.type \in T /\ (InLoop(Top) <=> pc \in LoopPc)
      /\ Top \in Frames
  <2>1. Top.pc = pc /\ Top.node.type \in T BY DEF At
  <2> QED BY <1>0, <2>1, EvalTop DEF InLoop, LoopPc
<1>2. ret = NoRet => ~IsBreaking(info) BY <1>1, Silent
<1>3. Top.node.kids[1] \in Trees BY <1>0, NodeFacts DEF LoopInv
<1>4. T = While => Top.node.kids[2] \in Trees BY <1>0, NodeFacts DEF LoopInv
<1>5. Top.res \in 0 .. 255 BY <1>1, FrameFields
<1>6. ret # NoRet => ret \in 0 .. 255 BY Unmoved DEF LoopInv
<1>7. Top.fn # "fork" BY <1>1
<1> QED BY <1>1, <1>2, <1>3, <1>4, <1>5, <1>6, <1>7

LEMMA LoopReplaced ==
  ASSUME LoopInv, NEW T, T = While \/ T = {"AST_FOR"}, NEW pc, At(T, pc),
         NEW f, Replaces(f, stack), f.node = Top.node, f.pc \in LoopPc
  PROVE  FrameOK(f) /\ ~Waits(f) /\ InLoop(f)
  BY LoopTypesApart, LoopFrame

LEMMA AtPc ==
  ASSUME LoopInv, NEW T, T = While \/ T = {"AST_FOR"}, NEW pc, At(T, pc),
         NEW p \in LoopPc
  PROVE  LET f == [Top EXCEPT !.pc = p]
         IN  Replaces(f, stack) /\ FrameOK(f) /\ ~Waits(f) /\ InLoop(f)
<1> DEFINE f == [Top EXCEPT !.pc = p]
<1>1. p \in Pc BY DEF LoopPc, Pc
<1>2. Top \in Frames /\ T \subseteq AstTypes BY LoopTop, LoopTypesApart
<1>3. Replaces(f, stack) BY <1>1, <1>2, EvalFrames DEF LoopInv
<1>4. f.pc = p /\ f.node = Top.node BY <1>2, SamePc
<1> HIDE DEF f
<1>5. FrameOK(f) /\ ~Waits(f) /\ InLoop(f) BY <1>3, <1>4, LoopReplaced
<1> QED BY <1>3, <1>5 DEF f

LEMMA AtPcWith ==
  ASSUME LoopInv, NEW T, T = While \/ T = {"AST_FOR"}, NEW pc, At(T, pc),
         NEW p \in LoopPc, NEW r \in 0 .. 255
  PROVE  LET f == [Top EXCEPT !.pc = p, !.res = r]
         IN  Replaces(f, stack) /\ FrameOK(f) /\ ~Waits(f) /\ InLoop(f)
<1> DEFINE f == [Top EXCEPT !.pc = p, !.res = r]
<1>1. p \in Pc BY DEF LoopPc, Pc
<1>2. Top \in Frames /\ T \subseteq AstTypes BY LoopTop, LoopTypesApart
<1>3. Replaces(f, stack) BY <1>1, <1>2, EvalFrames DEF LoopInv
<1>4. f.pc = p /\ f.node = Top.node BY <1>2, SamePc
<1> HIDE DEF f
<1>5. FrameOK(f) /\ ~Waits(f) /\ InLoop(f) BY <1>3, <1>4, LoopReplaced
<1> QED BY <1>3, <1>5 DEF f

LEMMA AtNext ==
  ASSUME LoopInv, NEW T, T = While \/ T = {"AST_FOR"}, NEW pc \in LoopPc,
         At(T, pc), NEW r \in 0 .. 255
  PROVE  LET f == [Top EXCEPT !.i = @ + 1, !.res = r]
         IN  Replaces(f, stack) /\ FrameOK(f) /\ ~Waits(f) /\ InLoop(f)
<1> DEFINE f == [Top EXCEPT !.i = @ + 1, !.res = r]
<1>2. Top \in Frames /\ T \subseteq AstTypes /\ Top.pc = pc
  BY LoopTop, LoopTypesApart
<1>3. Replaces(f, stack) BY <1>2, EvalFrames DEF LoopInv
<1>4. f.pc = pc /\ f.node = Top.node BY <1>2, SamePc
<1> HIDE DEF f
<1>5. FrameOK(f) /\ ~Waits(f) /\ InLoop(f) BY <1>3, <1>4, LoopReplaced
<1> QED BY <1>3, <1>5 DEF f

LEMMA AtSame ==
  ASSUME LoopInv, NEW T, T = While \/ T = {"AST_FOR"}, NEW pc \in LoopPc,
         At(T, pc)
  PROVE  Replaces(Top, stack) /\ FrameOK(Top) /\ ~Waits(Top) /\ InLoop(Top)
<1>1. Top \in Frames /\ T \subseteq AstTypes /\ Top.pc = pc
  BY LoopTop, LoopTypesApart
<1>2. Replaces(Top, stack) BY <1>1, EvalFrames DEF LoopInv
<1> QED BY <1>1, <1>2, LoopReplaced

LEMMA KeptWhile ==
  ASSUME LoopInv, EvalWhile
  PROVE  Kept
<1> DEFINE Kid(k) == Top.node.kids[k]
<1>1. CASE /\ Runs(While, "start")
           /\ EvalInLoop([Top EXCEPT !.pc = "loop_cond"], Kid(1), info)
  <2>1. At(While, "start") /\ ret = NoRet BY <1>1 DEF Runs
  <2> DEFINE f == [Top EXCEPT !.pc = "loop_cond"]
  <2>2. /\ stack # <<>> /\ ~InLoop(Top) /\ ~IsBreaking(info)
        /\ Kid(1) \in Trees
        /\ Replaces(f, stack) /\ FrameOK(f) /\ ~Waits(f) /\ InLoop(f)
    BY <2>1, LoopTypesApart, LoopTop, AtPc
  <2>3. EvalInLoop(f, Kid(1), info) BY <1>1
  <2> HIDE DEF f
  <2> QED BY <2>2, <2>3, KeepEnter
<1>2. CASE WhileCondition
  <2>1. At(While, "loop_cond") /\ ret # NoRet BY <1>2 DEF WhileCondition, Back
  <2>2. /\ stack # <<>> /\ Len(stack) > 1 /\ Top.fn # "fork" /\ InLoop(Top)
        /\ Kid(1) \in Trees /\ Kid(2) \in Trees /\ Top.res \in 0 .. 255
        /\ Replaces(Top, stack) /\ FrameOK(Top) /\ ~Waits(Top)
    BY <2>1, LoopTypesApart, LoopTop, AtSame
  <2>3. CASE LoopBroken
    BY <2>2, <2>3, LoopTypesApart, KeepDone DEF LoopBroken
  <2>4. CASE /\ BCResult(info) # Break
             /\ EvalInLoop(Top, Kid(1), BCIsDone(info))
    BY <2>2, <2>4, KeepIterate
  <2>5. CASE /\ BCResult(info) # Break
             /\ EvalInLoop([Top EXCEPT !.pc = "loop_body"], Kid(2),
                           BCIsDone(info))
    <3> DEFINE f == [Top EXCEPT !.pc = "loop_body"]
    <3>1. Replaces(f, stack) /\ FrameOK(f) /\ ~Waits(f) /\ InLoop(f)
      BY <2>1, LoopTypesApart, AtPc
    <3>2. EvalInLoop(f, Kid(2), BCIsDone(info)) BY <2>5
    <3> HIDE DEF f
    <3> QED BY <2>2, <2>5, <3>1, <3>2, KeepIterate
  <2>6. CASE info' = BCIsDone(info) /\ Return(Top.res)
    BY <2>2, <2>6, KeepDone DEF Return
  <2> QED BY <1>2, <2>3, <2>4, <2>5, <2>6 DEF WhileCondition
<1>3. CASE WhileBody
  <2>1. At(While, "loop_body") /\ ret # NoRet BY <1>3 DEF WhileBody, Back
  <2> DEFINE f == [Top EXCEPT !.pc = "loop_cond", !.res = ret]
  <2>2. ret \in 0 .. 255 BY <2>1, Unmoved DEF LoopInv
  <2>3. /\ stack # <<>> /\ Len(stack) > 1 /\ Top.fn # "fork" /\ InLoop(Top)
        /\ Kid(1) \in Trees
        /\ Replaces(f, stack) /\ FrameOK(f) /\ ~Waits(f) /\ InLoop(f)
    <3>1. /\ stack # <<>> /\ Len(stack) > 1 /\ Top.fn # "fork" /\ InLoop(Top)
          /\ Kid(1) \in Trees
      BY <2>1, LoopTypesApart, LoopTop
    <3>2. Replaces(f, stack) /\ FrameOK(f) /\ ~Waits(f) /\ InLoop(f)
      BY <2>1, <2>2, LoopTypesApart, AtPcWith
    <3> QED BY <3>1, <3>2
  <2>4. CASE LoopBroken
    BY <2>3, <2>4, LoopTypesApart, KeepDone DEF LoopBroken
  <2>5. CASE BCResult(info) # Break /\ EvalInLoop(f, Kid(1), BCIsDone(info))
    <3> HIDE DEF f
    <3> QED BY <2>3, <2>5, KeepIterate
  <2> QED BY <1>3, <2>4, <2>5 DEF WhileBody
<1> QED BY <1>1, <1>2, <1>3 DEF EvalWhile

LEMMA KeptFor ==
  ASSUME LoopInv, EvalFor
  PROVE  Kept
<1> DEFINE F == {"AST_FOR"}
           body == Top.node.kids[1]
<1>1. CASE Runs(F, "start") /\ Result(0)
  BY <1>1, LoopTypesApart, ResultKept DEF Runs
<1>2. CASE /\ Runs(F, "start")
           /\ EvalInLoop([Top EXCEPT !.pc = "loop_body"], body, info)
  <2> DEFINE f == [Top EXCEPT !.pc = "loop_body"]
  <2>1. At(F, "start") /\ ret = NoRet BY <1>2 DEF Runs
  <2>2. /\ stack # <<>> /\ ~InLoop(Top) /\ ~IsBreaking(info) /\ body \in Trees
        /\ Replaces(f, stack) /\ FrameOK(f) /\ ~Waits(f) /\ InLoop(f)
    BY <2>1, LoopTypesApart, LoopTop, AtPc
  <2>3. EvalInLoop(f, body, info) BY <1>2
  <2> HIDE DEF f
  <2> QED BY <2>2, <2>3, KeepEnter
<1>3. CASE /\ Back(F, "loop_body")
           /\ \/ LoopBroken
              \/ /\ BCResult(info) # Break
                 /\ EvalInLoop([Top EXCEPT !.i = @ + 1, !.res = ret], body,
                               BCIsDone(info))
              \/ info' = BCIsDone(info) /\ Return(ret)
  <2> DEFINE f == [Top EXCEPT !.i = @ + 1, !.res = ret]
  <2>1. At(F, "loop_body") /\ ret # NoRet BY <1>3 DEF Back
  <2>2. ret \in 0 .. 255 BY <2>1, Unmoved DEF LoopInv
  <2>3. /\ stack # <<>> /\ Len(stack) > 1 /\ Top.fn # "fork" /\ InLoop(Top)
        /\ body \in Trees
        /\ Replaces(f, stack) /\ FrameOK(f) /\ ~Waits(f) /\ InLoop(f)
    <3>1. /\ stack # <<>> /\ Len(stack) > 1 /\ Top.fn # "fork" /\ InLoop(Top)
          /\ body \in Trees
      BY <2>1, LoopTypesApart, LoopTop
    <3>2. Replaces(f, stack) /\ FrameOK(f) /\ ~Waits(f) /\ InLoop(f)
      BY <2>1, <2>2, LoopTypesApart, AtNext
    <3> QED BY <3>1, <3>2
  <2>4. CASE LoopBroken
    BY <2>3, <2>4, LoopTypesApart, KeepDone DEF LoopBroken
  <2>5. CASE BCResult(info) # Break /\ EvalInLoop(f, body, BCIsDone(info))
    <3> HIDE DEF f
    <3> QED BY <2>3, <2>5, KeepIterate
  <2>6. CASE info' = BCIsDone(info) /\ Return(ret)
    BY <2>2, <2>3, <2>6, KeepDone DEF Return
  <2> QED BY <1>3, <2>4, <2>5, <2>6
<1> QED BY <1>1, <1>2, <1>3 DEF EvalFor

LEMMA ScriptTop ==
  ASSUME LoopInv, NoDotInLoop, AtScript
  PROVE  /\ stack # <<>> /\ Top.fn = "script" /\ Top \in Frames
         /\ ~InLoop(Top) /\ LevelOf(Top) = 0 /\ FrameOK(Top)
         /\ ~IsBreaking(info) /\ info = FreshInfo
<1>1. /\ stack # <<>> /\ Top.fn = "script" /\ Top \in Frames
      /\ Len(stack) \in 1 .. Len(stack) /\ Top = stack[Len(stack)]
      /\ info \in Info
  BY TopAt DEF AtScript, LoopInv
<1>2. Top.pc = "start" /\ FrameOK(Top) BY <1>1, Counting DEF FrameOK
<1>3. ~InLoop(Top) BY <1>2 DEF InLoop
<1>4. LevelOf(Top) = 0 BY <1>1, <1>3 DEF NoDotInLoop, LevelOf
<1>5. info.depth = 0 /\ ~IsBreaking(info) BY <1>1, <1>4, Counting
<1>6. info.code = 0 /\ info.type = Nothing
  BY <1>1, <1>5, Counting DEF IsBreaking
<1>7. info = FreshInfo BY <1>1, <1>5, <1>6 DEF Info, FreshInfo
<1> QED BY <1>1, <1>2, <1>3, <1>4, <1>5, <1>7

LEMMA ScriptFrame ==
  ASSUME LoopInv, NoDotInLoop, AtScript, NEW f, Replaces(f, stack),
         f.pc = Top.pc, f.node = Top.node
  PROVE  FrameOK(f) /\ ~Waits(f) /\ LevelOf(f) = LevelOf(Top)
<1>1. f.fn = "script" /\ f.level = Top.level
  BY ScriptTop DEF Replaces, Top
<1>2. Top.pc = "start" BY ScriptTop DEF FrameOK
<1> QED BY <1>1, <1>2 DEF FrameOK, Waits, LevelOf, InLoop

LEMMA KeptScript ==
  ASSUME LoopInv, NoDotInLoop, ExecScript
  PROVE  Kept
<1>0. AtScript /\ stack # <<>> /\ ~IsBreaking(info) /\ Top.fn # "fork"
      /\ ~InLoop(Top) /\ Top \in Frames /\ info = FreshInfo
  <2>1. AtScript BY DEF ExecScript, NextLine, LineDone
  <2> QED BY <2>1, ScriptTop
<1>1. /\ Top.node \in Scripted /\ Top.res \in 0 .. 255 /\ Top.res \in Nat
      /\ Top.i \in Nat \ {0} /\ Len(stack) \in Nat \ {0}
  <2>1. Top.res \in 0 .. 255 BY <1>0, FrameFields
  <2>2. Top.res \in Nat BY <2>1
  <2>3. Top.node \in Scripted
    BY <1>0, TopFacts DEF Fits, LoopInv, AtScript
  <2> QED BY <1>0, <2>1, <2>2, <2>3, TopFacts, FrameFields DEF LoopInv
<1> DEFINE next == [Top EXCEPT !.i = @ + 1]
<1>2. /\ Replaces(next, stack) /\ FrameOK(next) /\ ~Waits(next)
      /\ LevelOf(next) = LevelOf(Top)
  <2>1. Replaces(next, stack) BY <1>0, ReplacesTop DEF LoopInv
  <2>2. next.pc = Top.pc /\ next.node = Top.node BY <1>0 DEF Frames
  <2> HIDE DEF next
  <2> QED BY <1>0, <2>1, <2>2, ScriptFrame
<1>3. CASE ScriptEnds(Top.res)
  <2>1. CASE Len(stack) = 1
    <3>1. Exit(Top.res) BY <1>3, <2>1 DEF ScriptEnds
    <3> QED BY <1>0, <1>1, <3>1, KeepExit
  <2>2. CASE Len(stack) # 1
    <3>1. Leave(Top.res) /\ info' = info BY <1>3, <2>2 DEF ScriptEnds
    <3> DEFINE n == Len(stack)
    <3>2. n \in Nat \ {0} /\ n # 1 BY <1>1, <2>2
    <3>3. n > 1
      <4> HIDE DEF n
      <4> QED BY <3>2
    <3> QED BY <1>0, <1>1, <3>1, <3>3, KeepLeave
  <2> QED BY <2>1, <2>2
<1>4. CASE Exit(2) BY <1>0, <1>4, KeepExit
<1>5. CASE stack' = WithTop(next) /\ info' = info
  <2> HIDE DEF next
  <2> QED BY <1>0, <1>2, <1>5, KeepSet
<1>6. CASE /\ Top.i <= Len(Lines) /\ Lines[Top.i] \notin {NULL, BadLine}
           /\ CallFrom(next, Lines[Top.i])
           /\ info' = FreshInfo
  <2>1. Lines \in Seq(Node \cup {NULL, BadLine}) BY <1>1 DEF Lines, Scripted
  <2>2. Top.i \in 1 .. Len(Lines) BY <1>1, <1>6, <2>1, LenProperties
  <2>3. Lines[Top.i] \in Node \cup {NULL, BadLine}
    BY <2>1, <2>2, ElementOfSeq
  <2>4. Lines[Top.i] \in Trees BY <1>6, <2>3 DEF Trees
  <2>5. info' = info BY <1>0, <1>6
  <2> HIDE DEF next
  <2> QED BY <1>0, <1>2, <1>6, <2>4, <2>5, KeepCall
<1>7. CASE LineDone
  <2> DEFINE f == [Top EXCEPT !.res = ret]
  <2>1. stack' = WithTop(f) /\ info' = info /\ ret # NoRet
    BY <1>7 DEF LineDone, globals
  <2>2. ret \in 0 .. 255 BY <2>1, Unmoved DEF LoopInv
  <2>3. Replaces(f, stack) BY <1>0, <2>2, ReplacesTop DEF LoopInv
  <2>4. f.pc = Top.pc /\ f.node = Top.node BY <1>0 DEF Frames
  <2> HIDE DEF f
  <2>5. FrameOK(f) /\ LevelOf(f) = LevelOf(Top)
    BY <1>0, <2>3, <2>4, ScriptFrame
  <2> QED BY <1>0, <2>1, <2>3, <2>5, KeepSet
<1> QED BY <1>3, <1>4, <1>5, <1>6, <1>7 DEF ExecScript, NextLine
-----------------------------------------------------------------------------
(* The theorems *)

LEMMA InitLoops == Init => LoopInv /\ Loops!Init
<1> SUFFICES ASSUME Init PROVE LoopInv /\ Loops!Init OBVIOUS
<1>1. PICK s \in Scripts : stack = <<Frame("script", s, 0, 0)>> BY DEF Init
<1> DEFINE f == Frame("script", s, 0, 0)
<1>2. f.fn = "script" /\ f.level = 0 /\ f.base = 0 /\ f.pc = "start"
  BY DEF Frame
<1> HIDE DEF f
<1>3. stack = <<f>> BY <1>1 DEF f
<1>4. stack # <<>> /\ Len(stack) = 1 /\ stack[1] = f /\ Top = f
  BY <1>3 DEF Top
<1>5. FrameOK(f) /\ LevelOf(f) = 0
  BY <1>2 DEF FrameOK, LevelOf, InLoop
<1>6. Shape(stack) BY <1>2, <1>4, <1>5 DEF Shape
<1>7. info = FreshInfo /\ info.depth = 0 /\ info.code = 0 /\ ~IsBreaking(info)
      /\ info.type = "A_NOTHING"
  BY DEF Init, FreshInfo, IsBreaking, Nothing
<1>8. Counts BY <1>4, <1>5, <1>7 DEF Counts, Counted
<1>9. Loops!Init
  BY <1>2, <1>4, <1>5, <1>7 DEF Loops!Init, OpenLoops, Target
<1> QED BY <1>6, <1>8, <1>9, InitTyped DEF LoopInv

LEMMA StepLoops ==
  LoopInv /\ NoDotInLoop /\ [Next]_vars => LoopInv' /\ LoopStep
<1> SUFFICES ASSUME LoopInv, NoDotInLoop, [Next]_vars
             PROVE  LoopInv' /\ LoopStep
  OBVIOUS
<1>1. TypeInv' BY StepTyped DEF LoopInv
<1>2. CASE UNCHANGED vars
  <2>1. stack' = stack /\ ret' = ret /\ info' = info BY <1>2 DEF vars
  <2>2. Shape(stack') /\ Counts'
    BY <2>1 DEF LoopInv, Counts, Counted, Top, LevelOf, InLoop, Waits,
                IsBreaking
  <2>3. Process' = Process /\ OpenLoops' = OpenLoops /\ Target' = Target
    BY <2>1 DEF Process, OpenLoops, Target, Top, LevelOf, InLoop, IsBreaking
  <2> QED BY <1>1, <2>1, <2>2, <2>3, StutterStep DEF LoopInv
<1>3. CASE Step
  <2>1. Kept
    BY <1>3, KeptGeneral, KeptTree, KeptChildren, KeptSimple, KeptWhile,
       KeptFor, KeptScript
    DEF Step, Tree
  <2> QED BY <1>1, <2>1 DEF Kept, LoopInv
<1> QED BY <1>2, <1>3 DEF Next, Terminated

LEMMA LoopInvHolds == Spec /\ []NoDotInLoop => []LoopInv
<1>1. Init => LoopInv BY InitLoops
<1>2. LoopInv /\ NoDotInLoop /\ [Next]_vars => LoopInv' BY StepLoops
<1> QED BY <1>1, <1>2, PTL DEF Spec

\* As long as the dot builtin is not run inside a loop, ast_info->depth is the
\* number of loop evaluations open on the C stack, whatever early returns,
\* exits and children the scripts go through: inc_depth() and b_c_is_done()
\* stay paired.
THEOREM DepthCorrect == Spec /\ []NoDotInLoop => []DepthMatchesLoops
<1>1. LoopInv => DepthMatchesLoops
  <2> SUFFICES ASSUME LoopInv PROVE DepthMatchesLoops OBVIOUS
  <2>1. stack # <<>> => info.depth = LevelOf(Top) BY Counting
  <2>2. \A k \in 1 .. Len(stack) - 1 : stack[k + 1].level = LevelOf(stack[k])
    BY DEF LoopInv, TypeInv, WellFormed, Based
  <2> QED BY <2>1, <2>2 DEF DepthMatchesLoops
<1> QED BY <1>1, LoopInvHolds, PTL

\* Under the same condition nothing is evaluated between a break or a continue
\* and the loop it is addressed to, and a pending one always has a loop around
\* it: is_breaking() is tested wherever it has to be.
THEOREM BreaksAreSilent == Spec /\ []NoDotInLoop => []NothingRunsWhileBreaking
<1>1. LoopInv => NothingRunsWhileBreaking
  <2> SUFFICES ASSUME LoopInv, IsBreaking(info)
               PROVE  ret # NoRet /\ info.code > 0 /\ info.depth > 0
    BY DEF NothingRunsWhileBreaking
  <2>1. stack # <<>> BY DEF LoopInv, Counts
  <2> QED BY <2>1, Counting
<1> QED BY <1>1, LoopInvHolds, PTL

\* Under the same condition the evaluator implements LoopControl: every break
\* and continue takes effect at the loop it was addressed to when it was made.
THEOREM LoopsRefine == Spec /\ []NoDotInLoop => BreakReachesItsLoop
<1>1. Init => Loops!Init BY InitLoops
<1>2. LoopInv /\ NoDotInLoop /\ [Next]_vars => [Loops!Next]_(Loops!vars)
  BY StepLoops DEF LoopStep
<1> QED BY <1>1, <1>2, LoopInvHolds, PTL
    DEF Spec, BreakReachesItsLoop, Loops!Spec

\* The only step of a break or a continue is the builtin's.
LEMMA OnlyBuiltin ==
  ASSUME AtCommand("break") \/ AtCommand("continue"), Step
  PROVE  \E c \in {"break", "continue"}, type \in {Break, Continue} :
           BreakContinue(c, type)
<1>1. /\ stack # <<>> /\ Top.fn = "eval" /\ Top.node # NULL
      /\ Top.node.type = "AST_S_CMD" /\ Top.pc = "start" /\ ret = NoRet
      /\ Top.node.cmd \in {"break", "continue"}
  BY DEF AtCommand, Runs, At
<1>2. BreakContinue("break", Break) \/ BreakContinue("continue", Continue)
  BY <1>1
  DEF Step, Tree, SCmd, EvalNull, Substitute, EvalAstBreaks, ChildExits, ForkFails, ExecScript,
      EvalIf, EvalBinary, EvalNot, EvalCase, EvalCmd, EvalFunc, EvalSubshell, EvalPipe,
      EvalWhile, EvalFor, Begin, Evaluated, WhileCondition, WhileBody,
      External, Assign, Cd, XExit, ExecFunc, Dot, NextLine, AtScript,
      LineDone, Runs, Back, At, AtCommand, BinaryTypes, While
<1> QED BY <1>2

LEMMA HeardStep ==
  ASSUME LoopInv, [Next]_vars, vars' # vars,
         AtCommand("break") \/ AtCommand("continue"),
         Top.node.arg > 0, OpenLoops > 0
  PROVE  IsBreaking(info')
<1>1. stack # <<>> BY DEF AtCommand, Runs, At
<1>2. Step BY DEF Next, Terminated
<1>3. PICK c \in {"break", "continue"}, type \in {Break, Continue} :
        BreakContinue(c, type)
  BY <1>2, OnlyBuiltin
<1>4. Top.node.arg # 0 BY <1>3
<1>5. info' = SetBC(info, Top.node.arg, type) BY <1>3, <1>4 DEF BreakContinue
<1>6. info.depth # 0 BY <1>1, Counting
<1>7. info \in Info BY DEF LoopInv, TypeInv, GlobalsOK
<1>8. info'.type = type BY <1>5, <1>6, <1>7 DEF SetBC, Info
<1> QED BY <1>8 DEF IsBreaking, Break, Continue, Nothing

\* Under the same condition a break or a continue inside a loop, in this
\* process or in one it was forked from, is never taken for one outside every
\* loop and dropped: set_b_c() sees the depth of the loops that are open.
THEOREM BreaksAreHeard == Spec /\ []NoDotInLoop => BreakIsHeard
<1>1. LoopInv /\ [Next]_vars =>
        [(AtCommand("break") \/ AtCommand("continue"))
           /\ Top.node.arg > 0 /\ OpenLoops > 0
         => IsBreaking(info')]_vars
  BY HeardStep
<1> QED BY <1>1, LoopInvHolds, PTL DEF Spec, BreakIsHeard
=============================================================================
