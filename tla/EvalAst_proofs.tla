---------------------------- MODULE EvalAst_proofs ----------------------------
(***************************************************************************)
(* Proofs about the evaluator.  They go by the shapes a step gives the     *)
(* stack: the top frame changes, a frame or two are pushed, the stack is   *)
(* cut at some frame.                                                      *)
(***************************************************************************)
EXTENDS EvalAst, SequenceTheorems, TLAPS

LEMMA SetTopFacts ==
  ASSUME NEW S, NEW s \in Seq(S), s # <<>>, NEW f \in S,
         NEW t, t = [s EXCEPT ![Len(s)] = f]
  PROVE  /\ t \in Seq(S) /\ Len(t) = Len(s) /\ Len(s) \in Nat \ {0}
         /\ \A k \in 1 .. Len(s) : t[k] = IF k = Len(s) THEN f ELSE s[k]
<1>1. Len(s) \in Nat \ {0} BY EmptySeq
<1>2. Len(s) \in 1 .. Len(s) BY <1>1
<1> QED BY <1>1, <1>2, ExceptSeq

LEMMA PushFacts ==
  ASSUME NEW S, NEW s \in Seq(S), s # <<>>, NEW f \in S, NEW g \in S,
         NEW t, t = Append([s EXCEPT ![Len(s)] = f], g)
  PROVE  /\ t \in Seq(S) /\ Len(t) = Len(s) + 1 /\ Len(s) \in Nat \ {0}
         /\ \A k \in 1 .. Len(s) : t[k] = IF k = Len(s) THEN f ELSE s[k]
         /\ t[Len(s) + 1] = g
<1> DEFINE u == [s EXCEPT ![Len(s)] = f]
<1>1. /\ u \in Seq(S) /\ Len(u) = Len(s) /\ Len(s) \in Nat \ {0}
      /\ \A k \in 1 .. Len(s) : u[k] = IF k = Len(s) THEN f ELSE s[k]
  BY SetTopFacts
<1>2. t = Append(u, g) OBVIOUS
<1> HIDE DEF u
<1>3. /\ t \in Seq(S) /\ Len(t) = Len(u) + 1
      /\ \A k \in 1 .. Len(u) : t[k] = u[k]
      /\ t[Len(u) + 1] = g
  BY <1>1, <1>2, AppendProperties
<1>4. QED BY <1>1, <1>3

LEMMA CutFacts ==
  ASSUME NEW S, NEW s \in Seq(S), NEW m \in 1 .. Len(s),
         NEW t, t = SubSeq(s, 1, m - 1)
  PROVE  /\ t \in Seq(S) /\ Len(t) = m - 1 /\ (t = <<>> <=> m = 1)
         /\ \A k \in 1 .. m - 1 : t[k] = s[k]
<1>1. Len(s) \in Nat /\ m \in Int /\ m - 1 \in Int /\ 1 \in Int BY LenProperties
<1>2. \A i \in 1 .. m - 1 : s[i] \in S BY <1>1, ElementOfSeq
<1>3. /\ t \in Seq(S) /\ Len(t) = IF 1 <= m - 1 THEN (m - 1) - 1 + 1 ELSE 0
      /\ \A i \in 1 .. (m - 1) - 1 + 1 : t[i] = s[1 + i - 1]
  BY <1>1, <1>2, SubSeqProperties
<1>4. t = <<>> <=> Len(t) = 0 BY <1>3, EmptySeq
<1> QED BY <1>1, <1>3, <1>4
-----------------------------------------------------------------------------
(* Type correctness *)

\* The shell's own frame is at the bottom, base leads from every frame to the
\* "fork" frame of its process, level counts the loops below.
Based(s) ==
  /\ s # <<>> => s[1].fn = "script" /\ s[1].level = 0
  /\ \A k \in 1 .. Len(s) :
       /\ Fits(s[k])
       /\ s[k].base \in 0 .. k
       /\ s[k].base # 0 => s[k].base > 1 /\ s[s[k].base].fn = "fork"
  /\ \A k \in 1 .. Len(s) - 1 : s[k + 1].level = LevelOf(s[k])

WellFormed(s) == s \in Seq(Frames) /\ Based(s)

RetOK == ret \in 0 .. 255 \cup {NoRet}
GlobalsOK == /\ info \in Info /\ last \in 0 .. 255
             /\ fcs \in Trees /\ errno \in {0, EmptyEOF, ENOENT}
EndedOK == /\ ended \in 0 .. 255 \cup {NoRet}
           /\ ended = NoRet <=> stack # <<>>
TypeInv == WellFormed(stack) /\ RetOK /\ GlobalsOK /\ EndedOK

LEMMA NewFrame ==
  ASSUME NEW level \in Nat, NEW base \in Nat, NEW n \in Trees
  PROVE  Frame("eval", n, level, base) \in Frames
  BY DEF Frame, Frames, Pc, Trees

LEMMA NewFork ==
  ASSUME NEW level \in Nat, NEW base \in Nat, NEW g \in Globals
  PROVE  [Frame("fork", NULL, level, base) EXCEPT !.saved = g] \in Frames
  BY DEF Frame, Frames, Pc, Trees

LEMMA NewScript ==
  ASSUME NEW level \in Nat, NEW base \in Nat, NEW s \in Scripted
  PROVE  Frame("script", s, level, base) \in Frames
  BY DEF Frame, Frames, Pc

LEMMA FrameFields ==
  ASSUME NEW f \in Frames
  PROVE  /\ f.fn \in {"eval", "script", "fork"}
         /\ f.pc \in Pc /\ f.res \in 0 .. 255 /\ f.i \in Nat \ {0}
         /\ f.level \in Nat /\ f.base \in Nat /\ LevelOf(f) \in Nat
  BY DEF Frames, LevelOf
-----------------------------------------------------------------------------
(* The shapes of a step *)

\* f may stand where s[Len(s)] stands.
Replaces(f, s) ==
  /\ f \in Frames /\ Fits(f)
  /\ f.fn = s[Len(s)].fn /\ f.base = s[Len(s)].base
  /\ f.level = s[Len(s)].level

LEMMA SameShape ==
  ASSUME NEW s, WellFormed(s), s # <<>>, NEW f, Replaces(f, s),
         NEW t \in Seq(Frames), Len(t) = Len(s), Len(s) \in Nat \ {0},
         \A k \in 1 .. Len(s) : t[k] = IF k = Len(s) THEN f ELSE s[k]
  PROVE  WellFormed(t)
<1> USE DEF WellFormed, Replaces
<1>1. \A k \in 1 .. Len(s) :
        Fits(t[k]) /\ t[k].fn = s[k].fn /\ t[k].base = s[k].base
        /\ t[k].level = s[k].level
  BY DEF Based
<1>2. t[1].fn = "script" /\ t[1].level = 0
  <2>1. 1 \in 1 .. Len(s) /\ s[1].fn = "script" /\ s[1].level = 0
    BY DEF Based
  <2> QED BY <1>1, <2>1
<1>3. ASSUME NEW k \in 1 .. Len(t)
      PROVE  /\ Fits(t[k]) /\ t[k].base \in 0 .. k
             /\ t[k].base # 0 => t[k].base > 1 /\ t[t[k].base].fn = "fork"
  <2>1. k \in 1 .. Len(s) OBVIOUS
  <2>2. t[k].base # 0 => t[k].base \in 1 .. Len(s)
    BY <1>1, <2>1 DEF Based
  <2> QED BY <1>1, <2>1, <2>2 DEF Based
<1>4. ASSUME NEW k \in 1 .. Len(t) - 1
      PROVE  t[k + 1].level = LevelOf(t[k])
  <2>1. k \in 1 .. Len(s) /\ k + 1 \in 1 .. Len(s) /\ k # Len(s) OBVIOUS
  <2>2. t[k] = s[k] /\ t[k + 1].level = s[k + 1].level BY <1>1, <2>1
  <2>3. s[k + 1].level = LevelOf(s[k]) BY DEF Based
  <2> QED BY <2>2, <2>3
<1> QED BY <1>2, <1>3, <1>4 DEF Based

LEMMA WellFormedSet ==
  ASSUME NEW s, WellFormed(s), s # <<>>, NEW f, Replaces(f, s),
         NEW t, t = [s EXCEPT ![Len(s)] = f]
  PROVE  /\ WellFormed(t) /\ t # <<>>
         /\ Len(t) = Len(s) /\ Len(s) \in Nat \ {0}
         /\ \A k \in 1 .. Len(s) : t[k] = IF k = Len(s) THEN f ELSE s[k]
<1>1. /\ t \in Seq(Frames) /\ Len(t) = Len(s) /\ Len(s) \in Nat \ {0}
      /\ \A k \in 1 .. Len(s) : t[k] = IF k = Len(s) THEN f ELSE s[k]
  BY SetTopFacts DEF WellFormed, Replaces
<1>2. WellFormed(t) BY <1>1, SameShape
<1>3. t # <<>> BY <1>1, EmptySeq
<1> QED BY <1>1, <1>2, <1>3

LEMMA WellFormedPush ==
  ASSUME NEW s, WellFormed(s), s # <<>>, NEW g, g \in Frames, Fits(g),
         g.level = LevelOf(s[Len(s)]),
         \/ g.base = s[Len(s)].base
         \/ g.base = Len(s) + 1 /\ g.fn = "fork",
         NEW t, t = Append(s, g)
  PROVE  WellFormed(t) /\ t # <<>>
<1> USE DEF WellFormed
<1>0. Len(s) \in Nat \ {0} BY EmptySeq
<1>1. /\ t \in Seq(Frames) /\ t # <<>> /\ Len(t) = Len(s) + 1
      /\ \A k \in 1 .. Len(s) : t[k] = s[k]
      /\ t[Len(s) + 1] = g
  BY AppendProperties
<1>2. t[1].fn = "script" /\ t[1].level = 0
  BY <1>0, <1>1 DEF Based
<1>3. ASSUME NEW k \in 1 .. Len(t)
      PROVE  /\ Fits(t[k]) /\ t[k].base \in 0 .. k
             /\ t[k].base # 0 => t[k].base > 1 /\ t[t[k].base].fn = "fork"
  <2>1. CASE k \in 1 .. Len(s)
    <3>1. t[k] = s[k] /\ Fits(s[k]) /\ s[k].base \in 0 .. k
      BY <1>1, <2>1 DEF Based
    <3>2. s[k].base # 0 => s[k].base \in 1 .. Len(s) BY <1>0, <2>1, <3>1
    <3> QED BY <1>1, <2>1, <3>1, <3>2 DEF Based
  <2>2. CASE k = Len(s) + 1 /\ g.base = s[Len(s)].base
    <3>1. Len(s) \in 1 .. Len(s) BY <1>0
    <3>2. s[Len(s)].base \in 0 .. Len(s) BY <3>1 DEF Based
    <3>3. s[Len(s)].base # 0 => s[Len(s)].base \in 1 .. Len(s) BY <1>0, <3>2
    <3> QED BY <1>0, <1>1, <2>2, <3>1, <3>2, <3>3 DEF Based
  <2>3. CASE k = Len(s) + 1 /\ g.base = Len(s) + 1 /\ g.fn = "fork"
    BY <1>0, <1>1, <2>3
  <2> QED BY <1>0, <1>1, <2>1, <2>2, <2>3
<1>4. ASSUME NEW k \in 1 .. Len(t) - 1
      PROVE  t[k + 1].level = LevelOf(t[k])
  <2>1. CASE k = Len(s) BY <1>0, <1>1, <2>1
  <2>2. CASE k \in 1 .. Len(s) - 1
    <3>1. k \in 1 .. Len(s) /\ k + 1 \in 1 .. Len(s) BY <1>0, <2>2
    <3> QED BY <1>1, <2>2, <3>1 DEF Based
  <2> QED BY <1>0, <1>1, <2>1, <2>2
<1> QED BY <1>1, <1>2, <1>3, <1>4 DEF Based

LEMMA WellFormedCut ==
  ASSUME NEW s, WellFormed(s), NEW m \in 1 .. Len(s), m > 1,
         NEW t, t = SubSeq(s, 1, m - 1)
  PROVE  WellFormed(t) /\ t # <<>>
<1> USE DEF WellFormed
<1>0. Len(s) \in Nat BY LenProperties
<1>1. /\ t \in Seq(Frames) /\ Len(t) = m - 1 /\ t # <<>>
      /\ \A k \in 1 .. m - 1 : t[k] = s[k]
  BY <1>0, CutFacts
<1>2. s # <<>> BY <1>0, EmptySeq
<1>3. t[1].fn = "script" /\ t[1].level = 0
  BY <1>0, <1>1, <1>2 DEF Based
<1>4. ASSUME NEW k \in 1 .. Len(t)
      PROVE  /\ Fits(t[k]) /\ t[k].base \in 0 .. k
             /\ t[k].base # 0 => t[k].base > 1 /\ t[t[k].base].fn = "fork"
  <2>1. k \in 1 .. Len(s) /\ t[k] = s[k] BY <1>0, <1>1
  <2>2. s[k].base # 0 => s[k].base \in 1 .. m - 1
    BY <1>0, <1>1, <2>1 DEF Based
  <2> QED BY <1>1, <2>1, <2>2 DEF Based
<1>5. ASSUME NEW k \in 1 .. Len(t) - 1
      PROVE  t[k + 1].level = LevelOf(t[k])
  <2>1. /\ k \in 1 .. Len(s) - 1 /\ k \in 1 .. m - 1
        /\ k + 1 \in 1 .. m - 1
    BY <1>0, <1>1
  <2> QED BY <1>1, <2>1 DEF Based
<1> QED BY <1>1, <1>3, <1>4, <1>5 DEF Based

LEMMA TopFacts ==
  ASSUME TypeInv, stack # <<>>
  PROVE  /\ Len(stack) \in Nat \ {0} /\ Len(stack) \in 1 .. Len(stack)
         /\ Top \in Frames /\ Fits(Top)
         /\ Top.base \in 0 .. Len(stack)
         /\ Top.base # 0 => Top.base > 1 /\ stack[Top.base].fn = "fork"
         /\ Top.fn # "script" => Len(stack) > 1
         /\ Replaces(Top, stack)
<1>1. Len(stack) \in Nat \ {0} BY EmptySeq DEF TypeInv, WellFormed
<1>2. Len(stack) \in 1 .. Len(stack) BY <1>1
<1>3. Top \in Frames BY <1>2, ElementOfSeq DEF Top, TypeInv, WellFormed
<1>4. /\ Fits(Top) /\ Top.base \in 0 .. Len(stack)
      /\ Top.base # 0 => Top.base > 1 /\ stack[Top.base].fn = "fork"
  BY <1>2 DEF TypeInv, WellFormed, Based, Top
<1>5. Top.fn # "script" => Len(stack) > 1
  BY <1>1 DEF TypeInv, WellFormed, Based, Top
<1> QED BY <1>1, <1>2, <1>3, <1>4, <1>5 DEF Replaces, Top

LEMMA ReplacesTop ==
  ASSUME TypeInv, stack # <<>>
  PROVE  /\ \A p \in Pc : Replaces([Top EXCEPT !.pc = p], stack)
         /\ \A r \in 0 .. 255 : Replaces([Top EXCEPT !.res = r], stack)
         /\ Replaces([Top EXCEPT !.i = @ + 1], stack)
         /\ \A p \in Pc, r \in 0 .. 255 :
              Replaces([Top EXCEPT !.pc = p, !.res = r], stack)
         /\ \A r \in 0 .. 255 :
              Replaces([Top EXCEPT !.i = @ + 1, !.res = r], stack)
<1> DEFINE f == Top
<1>1. f \in Frames /\ Fits(f) BY TopFacts
<1>2. f = stack[Len(stack)] BY DEF Top
<1>3. f.i + 1 \in Nat \ {0} BY <1>1, FrameFields
<1> HIDE DEF f
<1>4. ASSUME NEW g \in Frames, g.fn = f.fn, g.node = f.node, g.saved = f.saved,
             g.base = f.base, g.level = f.level
      PROVE  Replaces(g, stack)
  BY <1>1, <1>2, <1>4 DEF Replaces, Fits
<1>5. ASSUME NEW p \in Pc, NEW r \in 0 .. 255
      PROVE  /\ Replaces([f EXCEPT !.pc = p], stack)
             /\ Replaces([f EXCEPT !.res = r], stack)
             /\ Replaces([f EXCEPT !.pc = p, !.res = r], stack)
  BY <1>1, <1>4 DEF Frames
<1>6. ASSUME NEW j \in Nat \ {0}, NEW r \in 0 .. 255
      PROVE  /\ Replaces([f EXCEPT !.i = j], stack)
             /\ Replaces([f EXCEPT !.i = j, !.res = r], stack)
  BY <1>1, <1>4 DEF Frames
<1>7. 0 \in 0 .. 255 /\ "start" \in Pc BY DEF Pc
<1>8. \A p \in Pc : Replaces([f EXCEPT !.pc = p], stack) BY <1>5, <1>7
<1>9. \A r \in 0 .. 255 : Replaces([f EXCEPT !.res = r], stack) BY <1>5, <1>7
<1>10. \A p \in Pc, r \in 0 .. 255 : Replaces([f EXCEPT !.pc = p, !.res = r], stack) BY <1>5
<1>11. Replaces([f EXCEPT !.i = @ + 1], stack) BY <1>3, <1>6, <1>7
<1>12. \A r \in 0 .. 255 : Replaces([f EXCEPT !.i = @ + 1, !.res = r], stack) BY <1>3, <1>6
<1> QED BY <1>8, <1>9, <1>10, <1>11, <1>12, Zenon DEF f

LEMMA NodeFacts ==
  ASSUME TypeInv, NEW types, types \subseteq AstTypes, NEW pc, At(types, pc)
  PROVE  /\ stack # <<>> /\ Top.node \in Node /\ Top.node.type \in types
         /\ Top.fn = "eval" /\ Len(stack) > 1
         /\ Top.node.subst \in Trees /\ Top.node.arg \in Nat
         /\ \A k \in DOMAIN Top.node.kids : Top.node.kids[k] \in Trees
         /\ Top.node.type \in HaveOne => Top.node.kids[1] \in Trees
         /\ Top.node.type \in HaveTwo => Top.node.kids[2] \in Trees
         /\ Top.node.type = "AST_IF" => Top.node.kids[3] \in Trees
<1>1. stack # <<>> /\ Top.node \in Node /\ Top.node.type \in types
      /\ Top.fn = "eval"
  BY TopFacts DEF At, Fits, Trees
<1>2. /\ Top.node.kids \in Seq(Trees)
      /\ Top.node.type \in HaveOne => Len(Top.node.kids) >= 1
      /\ Top.node.type \in HaveTwo => Len(Top.node.kids) >= 2
      /\ Top.node.type = "AST_IF" => Len(Top.node.kids) = 3
      /\ Top.node.subst \in Trees /\ Top.node.arg \in Nat
  BY <1>1, NodeAssumption DEF Trees
<1>3. /\ DOMAIN Top.node.kids = 1 .. Len(Top.node.kids)
      /\ Len(Top.node.kids) \in Nat
      /\ \A k \in 1 .. Len(Top.node.kids) : Top.node.kids[k] \in Trees
  BY <1>2, LenProperties, ElementOfSeq
<1>4. /\ Top.node.type \in HaveOne => Top.node.kids[1] \in Trees
      /\ Top.node.type \in HaveTwo => Top.node.kids[2] \in Trees
      /\ Top.node.type = "AST_IF" => Top.node.kids[3] \in Trees
  BY <1>2, <1>3
<1>5. Len(stack) > 1 BY <1>1, TopFacts
<1> QED BY <1>1, <1>2, <1>3, <1>4, <1>5

LEMMA CallOK ==
  ASSUME TypeInv, stack # <<>>, NEW f, Replaces(f, stack),
         NEW child \in Trees, CallFrom(f, child)
  PROVE  WellFormed(stack)' /\ RetOK' /\ stack' # <<>>
<1> DEFINE s == WithTop(f)
           g == Frame("eval", child, LevelOf(f), f.base)
<1>1. /\ WellFormed(s) /\ s # <<>> /\ Len(s) = Len(stack)
      /\ Len(stack) \in Nat \ {0}
      /\ \A k \in 1 .. Len(stack) : s[k] = IF k = Len(stack) THEN f ELSE stack[k]
  BY WellFormedSet DEF WithTop, TypeInv
<1>2. s[Len(s)] = f BY <1>1
<1>3. LevelOf(f) \in Nat /\ f.base \in Nat BY FrameFields DEF Replaces
<1>4. g \in Frames BY <1>3, NewFrame
<1>5. Fits(g) /\ g.level = LevelOf(f) /\ g.base = f.base BY DEF Frame, Fits, Trees
<1>6. stack' = Append(s, g) /\ ret' = NoRet BY DEF CallFrom
<1> HIDE DEF s, g
<1>7. WellFormed(stack') /\ stack' # <<>>
  BY <1>1, <1>2, <1>4, <1>5, <1>6, WellFormedPush
<1> QED BY <1>6, <1>7 DEF RetOK

LEMMA SetOK ==
  ASSUME TypeInv, stack # <<>>, NEW f, Replaces(f, stack), stack' = WithTop(f)
  PROVE  WellFormed(stack)' /\ stack' # <<>>
<1>1. WellFormed(stack') /\ stack' # <<>>
  BY WellFormedSet DEF WithTop, TypeInv
<1> QED BY <1>1

LEMMA LeaveOK ==
  ASSUME TypeInv, stack # <<>>, Len(stack) > 1, NEW v \in 0 .. 255, Leave(v)
  PROVE  WellFormed(stack)' /\ RetOK' /\ stack' # <<>>
<1>1. Len(stack) \in 1 .. Len(stack) BY TopFacts
<1>2. WellFormed(stack') /\ stack' # <<>>
  BY <1>1, WellFormedCut DEF Leave, Popped, TypeInv
<1> QED BY <1>2 DEF Leave, RetOK

LEMMA ByteOf == \A n \in Nat : n % 256 \in 0 .. 255
OBVIOUS

LEMMA ExitOK ==
  ASSUME TypeInv, stack # <<>>, NEW code \in Nat, Exit(code)
  PROVE  TypeInv'
<1>0. code % 256 \in 0 .. 255 BY ByteOf
<1>1. CASE Top.base = 0
  <2>1. stack' = <<>> /\ ret' = NoRet /\ ended' = code % 256
        /\ UNCHANGED globals
    BY <1>1 DEF Exit
  <2>2. WellFormed(<<>>) BY EmptySeq DEF WellFormed, Based
  <2>3. RetOK' /\ EndedOK' BY <1>0, <2>1 DEF RetOK, EndedOK, NoRet
  <2>4. GlobalsOK' BY <2>1 DEF globals, GlobalsOK, TypeInv
  <2> QED BY <2>1, <2>2, <2>3, <2>4 DEF TypeInv
<1>2. CASE Top.base # 0
  <2>1. /\ Top.base \in 1 .. Len(stack) /\ Top.base > 1
        /\ stack[Top.base].fn = "fork"
    BY <1>2, TopFacts
  <2>2. stack[Top.base].saved \in Globals
    BY <2>1 DEF TypeInv, WellFormed, Based, Fits
  <2> DEFINE saved == stack[Top.base].saved
  <2>3. /\ stack' = SubSeq(stack, 1, Top.base - 1)
        /\ ret' = code % 256 /\ UNCHANGED ended
        /\ info' = saved.info /\ last' = saved.last
        /\ fcs' = saved.fcs /\ errno' = saved.errno
    BY <1>2 DEF Exit
  <2>4. WellFormed(stack') /\ stack' # <<>>
    BY <2>1, <2>3, WellFormedCut DEF TypeInv
  <2>5. GlobalsOK' BY <2>2, <2>3 DEF Globals, GlobalsOK, Trees
  <2>6. RetOK' /\ EndedOK'
    BY <1>0, <2>3, <2>4 DEF RetOK, EndedOK, TypeInv
  <2> QED BY <2>4, <2>5, <2>6 DEF TypeInv
<1> QED BY <1>1, <1>2

LEMMA ForkOK ==
  ASSUME TypeInv, stack # <<>>, Top.fn = "eval", NEW child \in Trees,
         NEW p \in Pc, Fork(child, p)
  PROVE  TypeInv'
<1> DEFINE k == Len(stack) + 1
           f == [Top EXCEPT !.pc = p]
           g == [info |-> info, last |-> last, fcs |-> fcs, errno |-> errno]
           c == [Frame("fork", NULL, LevelOf(f), k) EXCEPT !.saved = g]
           e == Frame("eval", child, LevelOf(f), k)
           s == WithTop(f)
           t == Append(s, c)
<1>0. stack' = Append(t, e) /\ ret' = NoRet /\ UNCHANGED <<globals, ended>>
  BY DEF Fork
<1>1. Replaces(f, stack) BY ReplacesTop
<1>2. /\ WellFormed(s) /\ s # <<>> /\ Len(s) = Len(stack)
      /\ Len(stack) \in Nat \ {0}
      /\ \A j \in 1 .. Len(stack) : s[j] = IF j = Len(stack) THEN f ELSE stack[j]
  BY <1>1, WellFormedSet DEF WithTop, TypeInv
<1>3. s[Len(s)] = f BY <1>2
<1>4. LevelOf(f) \in Nat /\ k \in Nat
  BY <1>1, <1>2, FrameFields DEF Replaces
<1>5. g \in Globals BY DEF Globals, GlobalsOK, TypeInv, Trees
<1>6. c \in Frames /\ e \in Frames BY <1>4, <1>5, NewFrame, NewFork
<1>7. /\ Fits(c) /\ c.level = LevelOf(f) /\ c.base = k /\ c.fn = "fork"
      /\ ~InLoop(c)
  BY <1>5 DEF Frame, Fits, InLoop
<1>8. Fits(e) /\ e.level = LevelOf(f) /\ e.base = k
  BY DEF Frame, Fits, Trees
<1>9. k = Len(s) + 1 BY <1>2
<1> HIDE DEF k, f, g, c, e, s
<1>10. WellFormed(t) /\ t # <<>>
  BY <1>2, <1>3, <1>6, <1>7, <1>9, WellFormedPush
<1>11. t[Len(t)] = c
  <2>1. s \in Seq(Frames) BY <1>2 DEF WellFormed
  <2> QED BY <1>6, <2>1, AppendProperties DEF t
<1>12. LevelOf(c) = LevelOf(f) BY <1>7 DEF LevelOf
<1> HIDE DEF t
<1>13. WellFormed(stack') /\ stack' # <<>>
  BY <1>0, <1>6, <1>7, <1>8, <1>10, <1>11, <1>12, WellFormedPush
<1>14. RetOK' /\ GlobalsOK' /\ EndedOK'
  BY <1>0, <1>13 DEF RetOK, GlobalsOK, EndedOK, TypeInv, globals
<1> QED BY <1>13, <1>14 DEF TypeInv
-----------------------------------------------------------------------------
(* Every action keeps TypeInv *)

LEMMA InfoClosed ==
  /\ FreshInfo \in Info
  /\ \A r \in Info : IncDepth(r) \in Info /\ LeftOne(r) \in Info
  /\ \A r \in Info : BCIsDone(r) \in Info
  /\ \A r \in Info, n \in Nat, t \in InfoType : SetBC(r, n, t) \in Info
<1> USE DEF Info, InfoType
<1>1. FreshInfo \in Info BY DEF FreshInfo
<1>2. ASSUME NEW r \in Info PROVE IncDepth(r) \in Info /\ LeftOne(r) \in Info
  <2>1. IncDepth(r) \in Info BY DEF IncDepth
  <2>2. r.depth - 1 \in Int /\ r.code \in Nat OBVIOUS
  <2> DEFINE c == IF r.code # 0 THEN r.code - 1 ELSE r.code
  <2>3. c \in Nat BY <2>2
  <2>4. LeftOne(r) = [r EXCEPT !.depth = r.depth - 1, !.code = c]
    BY DEF LeftOne
  <2> HIDE DEF c
  <2>5. LeftOne(r) \in Info BY <2>2, <2>3, <2>4
  <2> QED BY <2>1, <2>5
<1>3. ASSUME NEW r \in Info PROVE BCIsDone(r) \in Info
  <2> DEFINE l == LeftOne(r)
  <2>1. l \in Info BY <1>2
  <2> HIDE DEF l
  <2>2. [l EXCEPT !.code = 0, !.type = Nothing] \in Info BY <2>1
  <2> QED BY <2>1, <2>2 DEF BCIsDone, l
<1>4. ASSUME NEW r \in Info, NEW n \in Nat, NEW t \in InfoType
      PROVE  SetBC(r, n, t) \in Info
  <2>1. [r EXCEPT !.code = n, !.type = t] \in Info OBVIOUS
  <2> QED BY <2>1 DEF SetBC
<1> QED BY <1>1, <1>2, <1>3, <1>4

\* What a step may do to the globals.
Moved == /\ info' \in Info /\ last' \in 0 .. 255 /\ fcs' \in Trees
         /\ errno' \in {0, EmptyEOF, ENOENT} /\ UNCHANGED ended

LEMMA Unmoved ==
  ASSUME TypeInv
  PROVE  /\ info \in Info /\ last \in 0 .. 255 /\ fcs \in Trees
         /\ errno \in {0, EmptyEOF, ENOENT}
         /\ ret # NoRet => ret \in 0 .. 255
  BY DEF TypeInv, GlobalsOK, RetOK

LEMMA CallTyped ==
  ASSUME TypeInv, stack # <<>>, Moved, NEW f, Replaces(f, stack),
         NEW child \in Trees, CallFrom(f, child)
  PROVE  TypeInv'
<1>1. WellFormed(stack)' /\ RetOK' /\ stack' # <<>> BY CallOK
<1> QED BY <1>1 DEF TypeInv, GlobalsOK, EndedOK, Moved

LEMMA SetTyped ==
  ASSUME TypeInv, stack # <<>>, Moved, NEW f, Replaces(f, stack),
         stack' = WithTop(f), ret' \in {ret, NoRet}
  PROVE  TypeInv'
<1>1. WellFormed(stack)' /\ stack' # <<>> BY SetOK
<1> QED BY <1>1 DEF TypeInv, GlobalsOK, EndedOK, RetOK, Moved

LEMMA LeaveTyped ==
  ASSUME TypeInv, stack # <<>>, Moved, Len(stack) > 1, NEW v \in 0 .. 255,
         Leave(v)
  PROVE  TypeInv'
<1>1. WellFormed(stack)' /\ RetOK' /\ stack' # <<>> BY LeaveOK
<1> QED BY <1>1 DEF TypeInv, GlobalsOK, EndedOK, Moved

LEMMA ResultTyped ==
  ASSUME TypeInv, stack # <<>>, Len(stack) > 1, NEW v \in 0 .. 255, Result(v)
  PROVE  TypeInv'
  BY LeaveTyped, Unmoved DEF Result, Return, Moved

LEMMA TypeGeneral ==
  ASSUME TypeInv, EvalNull \/ Substitute \/ EvalAstBreaks \/ ChildExits
  PROVE  TypeInv'
<1> USE Unmoved
<1>1. CASE EvalNull
  <2>1. stack # <<>> /\ Len(stack) > 1 BY <1>1, TopFacts DEF EvalNull
  <2> QED BY <1>1, <2>1, LeaveTyped DEF EvalNull, Moved, globals
<1>2. CASE Runs(AstTypes, "expand") /\ Fork(Top.node.subst, "expanding")
  BY <1>2, NodeFacts, ForkOK DEF Runs, Pc
<1>3. CASE /\ Back(AstTypes, "expanding")
           /\ stack' = WithTop([Top EXCEPT !.pc = "start"])
           /\ ret' = NoRet /\ last' = ret
           /\ UNCHANGED <<info, fcs, errno, ended>>
  <2>1. stack # <<>> BY <1>3, NodeFacts DEF Back
  <2>2. Replaces([Top EXCEPT !.pc = "start"], stack)
    BY <2>1, ReplacesTop DEF Pc
  <2>3. Moved BY <1>3 DEF Moved, Back
  <2> QED BY <1>3, <2>1, <2>2, <2>3, SetTyped
<1>4. CASE EvalAstBreaks
  <2>1. stack # <<>> /\ Len(stack) > 1 /\ ret \in 0 .. 255
    BY <1>4, NodeFacts DEF EvalAstBreaks, Back, EvalAstTypes, AstTypes
  <2> QED BY <1>4, <2>1, ResultTyped DEF EvalAstBreaks, Result
<1>5. CASE ChildExits
  <2>1. stack # <<>> /\ Exit(ret) /\ ret # NoRet BY <1>5 DEF ChildExits
  <2>2. ret \in 0 .. 255 BY <2>1, Unmoved
  <2>3. ret \in Nat BY <2>2
  <2> QED BY <2>1, <2>3, ExitOK
<1> QED BY <1>1, <1>2, <1>3, <1>4, <1>5 DEF Substitute

LEMMA EvalFrames ==
  ASSUME TypeInv, NEW types, types \subseteq AstTypes, NEW pc, At(types, pc)
  PROVE  /\ stack # <<>> /\ Len(stack) > 1 /\ Top.fn = "eval"
         /\ \A p \in Pc : Replaces([Top EXCEPT !.pc = p], stack)
         /\ \A p \in Pc, r \in 0 .. 255 :
              Replaces([Top EXCEPT !.pc = p, !.res = r], stack)
         /\ \A r \in 0 .. 255 :
              Replaces([Top EXCEPT !.i = @ + 1, !.res = r], stack)
         /\ Replaces(Top, stack)
  BY NodeFacts, ReplacesTop, TopFacts

LEMMA BeginTyped ==
  ASSUME TypeInv, NEW types, types \subseteq HaveOne, Begin(types)
  PROVE  TypeInv'
<1>1. At(types, "start") BY DEF Begin, Runs
<1>2. types \subseteq AstTypes BY DEF HaveOne
<1>4. Top.node.kids[1] \in Trees BY <1>1, <1>2, NodeFacts
<1>5. Replaces([Top EXCEPT !.pc = "first"], stack) /\ stack # <<>>
  BY <1>1, <1>2, EvalFrames DEF Pc
<1>6. Moved BY Unmoved DEF Begin, globals, Moved
<1> QED BY <1>4, <1>5, <1>6, CallTyped DEF Begin, Call

LEMMA SecondTyped ==
  ASSUME TypeInv, NEW types, types \subseteq AstTypes, NEW pc,
         Evaluated(types, pc), NEW child \in Trees, EvalSecond(child)
  PROVE  TypeInv'
<1>1. Replaces([Top EXCEPT !.pc = "second"], stack) /\ stack # <<>>
  BY EvalFrames DEF Pc, Evaluated, Back
<1>2. ret # NoRet /\ last' = ret /\ UNCHANGED <<info, fcs, errno, ended>>
  BY DEF Evaluated, Back, EvalSecond
<1>3. Moved BY <1>2, Unmoved DEF Moved
<1> QED BY <1>1, <1>3, CallTyped DEF EvalSecond, Call

LEMMA ReturnsTyped ==
  ASSUME TypeInv, NEW types, types \subseteq AstTypes, NEW pc, At(types, pc),
         NEW v, v \in 0 .. 255 \/ (v = ret /\ ret # NoRet), Result(v)
  PROVE  TypeInv'
<1>1. v \in 0 .. 255 BY Unmoved
<1> QED BY <1>1, EvalFrames, ResultTyped

LEMMA TypeTree ==
  ASSUME TypeInv, EvalIf \/ EvalBinary \/ EvalNot \/ EvalCase
  PROVE  TypeInv'
<1>0. /\ {"AST_IF"} \subseteq HaveOne
      /\ {"AST_NOT"} \subseteq HaveOne
      /\ BinaryTypes \subseteq HaveOne
      /\ {"AST_CASE"} \subseteq AstTypes
      /\ {"AST_IF"} \subseteq AstTypes /\ {"AST_NOT"} \subseteq AstTypes
      /\ BinaryTypes \subseteq AstTypes /\ BinaryTypes \subseteq HaveTwo
      /\ "AST_IF" \in HaveTwo
  BY DEF HaveOne, HaveTwo, AstTypes, BinaryTypes, LoopTypes
<1>1. CASE EvalIf
  <2>1. CASE Begin({"AST_IF"}) BY <2>1, <1>0, BeginTyped
  <2>2. CASE /\ Evaluated({"AST_IF"}, "first")
             /\ EvalSecond(Top.node.kids[IF ret = 0 THEN 2 ELSE 3])
    <3>1. At({"AST_IF"}, "first") BY <2>2 DEF Evaluated, Back
    <3>3. Top.node.type = "AST_IF" BY <3>1 DEF At
    <3>2. Top.node.kids[2] \in Trees /\ Top.node.kids[3] \in Trees
      BY <1>0, <3>1, <3>3, NodeFacts
    <3> QED BY <1>0, <2>2, <3>2, SecondTyped
  <2>3. CASE Evaluated({"AST_IF"}, "second") /\ Result(ret)
    BY <1>0, <2>3, ReturnsTyped DEF Evaluated, Back
  <2> QED BY <1>1, <2>1, <2>2, <2>3 DEF EvalIf
<1>2. CASE EvalBinary
  <2>1. CASE Begin(BinaryTypes) BY <2>1, <1>0, BeginTyped
  <2>2. CASE /\ Evaluated(BinaryTypes, "first")
             /\ EvalSecond(Top.node.kids[2])
    <3>1. At(BinaryTypes, "first") BY <2>2 DEF Evaluated, Back
    <3>2. Top.node.kids[2] \in Trees
      BY <1>0, <3>1, NodeFacts
    <3> QED BY <1>0, <2>2, <3>2, SecondTyped
  <2>3. CASE Evaluated(BinaryTypes, "first") /\ Result(ret)
    BY <1>0, <2>3, ReturnsTyped DEF Evaluated, Back
  <2>4. CASE Evaluated(BinaryTypes, "second") /\ Result(ret)
    BY <1>0, <2>4, ReturnsTyped DEF Evaluated, Back
  <2> QED BY <1>2, <2>1, <2>2, <2>3, <2>4 DEF EvalBinary
<1>3. CASE EvalNot
  <2>1. CASE Begin({"AST_NOT"}) BY <2>1, <1>0, BeginTyped
  <2>2. CASE /\ Evaluated({"AST_NOT"}, "first")
             /\ Result(IF ret = 0 THEN 1 ELSE 0)
    BY <1>0, <2>2, ReturnsTyped DEF Evaluated, Back
  <2> QED BY <1>3, <2>1, <2>2 DEF EvalNot
<1>4. CASE EvalCase
  <2>1. CASE Runs({"AST_CASE"}, "start") /\ Result(0)
    BY <1>0, <2>1, ReturnsTyped DEF Runs
  <2>2. CASE /\ Runs({"AST_CASE"}, "start")
             /\ \E k \in DOMAIN Top.node.kids : Call(Top.node.kids[k], "first")
             /\ UNCHANGED <<globals, ended>>
    <3>1. At({"AST_CASE"}, "start") BY <2>2 DEF Runs
    <3>2. PICK k \in DOMAIN Top.node.kids : Call(Top.node.kids[k], "first")
      BY <2>2
    <3>3. Top.node.kids[k] \in Trees BY <1>0, <3>1, NodeFacts
    <3>4. Replaces([Top EXCEPT !.pc = "first"], stack) /\ stack # <<>>
      BY <1>0, <3>1, EvalFrames DEF Pc
    <3>5. Moved BY <2>2, Unmoved DEF globals, Moved
    <3> QED BY <3>2, <3>3, <3>4, <3>5, CallTyped DEF Call
  <2>3. CASE Evaluated({"AST_CASE"}, "first") /\ Result(ret)
    BY <1>0, <2>3, ReturnsTyped DEF Evaluated, Back
  <2> QED BY <1>4, <2>1, <2>2, <2>3 DEF EvalCase
<1> QED BY <1>1, <1>2, <1>3, <1>4

LEMMA Types ==
  /\ {"AST_CMD"} \subseteq HaveOne /\ {"AST_FUNC"} \subseteq HaveOne
  /\ {"AST_SUBSHELL"} \subseteq HaveOne /\ {"AST_PIPE"} \subseteq HaveOne
  /\ {"AST_FOR"} \subseteq HaveOne
  /\ {"AST_PIPE"} \subseteq HaveTwo /\ While \subseteq HaveTwo
  /\ While \subseteq HaveOne /\ HaveOne \subseteq AstTypes
  /\ {"AST_S_CMD"} \subseteq AstTypes
  /\ {"AST_PIPE", "AST_SUBSHELL"} \subseteq AstTypes
BY DEF HaveOne, HaveTwo, While, AstTypes, BinaryTypes, LoopTypes

LEMMA ExitTyped ==
  ASSUME TypeInv, NEW types, types \subseteq AstTypes, NEW pc, At(types, pc),
         NEW v \in Nat, Exit(v)
  PROVE  TypeInv'
  BY EvalFrames, ExitOK

LEMMA TypeChildren ==
  ASSUME TypeInv, EvalCmd \/ EvalFunc \/ EvalSubshell \/ EvalPipe \/ ForkFails
  PROVE  TypeInv'
<1> USE Types
<1>1. CASE EvalCmd
  <2>1. CASE Begin({"AST_CMD"}) BY <2>1, BeginTyped
  <2>2. CASE Runs({"AST_CMD"}, "start") /\ Result(2)
    BY <2>2, ReturnsTyped DEF Runs
  <2>3. CASE Runs({"AST_CMD"}, "start") /\ Exit(2)
    BY <2>3, ExitTyped DEF Runs
  <2>4. CASE Runs({"AST_CMD"}, "start") /\ Exit(127)
    BY <2>4, ExitTyped DEF Runs
  <2>5. CASE Back({"AST_CMD"}, "first") /\ Result(ret)
    BY <2>5, ReturnsTyped DEF Back
  <2> QED BY <1>1, <2>1, <2>2, <2>3, <2>4, <2>5 DEF EvalCmd
<1>2. CASE EvalFunc
  <2>1. At({"AST_FUNC"}, "start") BY <1>2 DEF EvalFunc, Runs
  <2>2. Copy(Top.node.kids[1]) \in Trees
    <3>1. Top.node.kids[1] \in Trees BY <2>1, NodeFacts
    <3>2. \A n \in Trees : Copy(n) \in Trees
      BY ScriptAssumption DEF Copy, Trees
    <3> QED BY <3>1, <3>2
  <2>3. stack # <<>> /\ Len(stack) > 1 BY <2>1, EvalFrames
  <2>4. Moved BY <1>2, <2>2, Unmoved DEF EvalFunc, Return, Moved
  <2> QED BY <1>2, <2>3, <2>4, LeaveTyped DEF EvalFunc, Return
<1>3. CASE EvalSubshell
  <2>1. CASE Runs({"AST_SUBSHELL"}, "start") /\ Fork(Top.node.kids[1], "first")
    <3>1. At({"AST_SUBSHELL"}, "start") BY <2>1 DEF Runs
    <3>2. Top.node.kids[1] \in Trees BY <3>1, NodeFacts
    <3> QED BY <2>1, <3>1, <3>2, EvalFrames, ForkOK DEF Pc
  <2>2. CASE Back({"AST_SUBSHELL"}, "first") /\ Result(ret)
    BY <2>2, ReturnsTyped DEF Back
  <2> QED BY <1>3, <2>1, <2>2 DEF EvalSubshell
<1>4. CASE EvalPipe
  <2>1. CASE Runs({"AST_PIPE"}, "start") /\ Fork(Top.node.kids[1], "first")
    <3>1. At({"AST_PIPE"}, "start") BY <2>1 DEF Runs
    <3>2. Top.node.kids[1] \in Trees BY <3>1, NodeFacts
    <3> QED BY <2>1, <3>1, <3>2, EvalFrames, ForkOK DEF Pc
  <2>2. CASE Back({"AST_PIPE"}, "first") /\ Fork(Top.node.kids[2], "second")
    <3>1. At({"AST_PIPE"}, "first") BY <2>2 DEF Back
    <3>2. Top.node.kids[2] \in Trees BY <3>1, NodeFacts
    <3> QED BY <2>2, <3>1, <3>2, EvalFrames, ForkOK DEF Pc
  <2>3. CASE Back({"AST_PIPE"}, "second") /\ Result(ret)
    BY <2>3, ReturnsTyped DEF Back
  <2> QED BY <1>4, <2>1, <2>2, <2>3 DEF EvalPipe
<1>5. CASE ForkFails
  <2>1. CASE Runs({"AST_PIPE", "AST_SUBSHELL"}, "start") /\ Exit(2)
    BY <2>1, ExitTyped DEF Runs
  <2>2. CASE Runs(AstTypes, "expand") /\ Exit(2)
    BY <2>2, ExitTyped DEF Runs
  <2>3. CASE AtCommand("ext") /\ Exit(1)
    BY <2>3, ExitTyped DEF AtCommand, Runs
  <2>4. CASE Back({"AST_PIPE"}, "first") /\ Result(1)
    BY <2>4, ReturnsTyped DEF Back
  <2> QED BY <1>5, <2>1, <2>2, <2>3, <2>4 DEF ForkFails
<1> QED BY <1>1, <1>2, <1>3, <1>4, <1>5

LEMMA TypeSimple ==
  ASSUME TypeInv, SCmd
  PROVE  TypeInv'
<1> USE Types
<1> DEFINE S == {"AST_S_CMD"}
<1>1. CASE External
  <2>1. At(S, "start") BY <1>1 DEF External, AtCommand, Runs
  <2>2. PICK v \in Statuses : Result(v) BY <1>1 DEF External
  <2> QED BY <2>1, <2>2, ScriptAssumption, ReturnsTyped
<1>2. CASE Assign
  BY <1>2, ReturnsTyped DEF Assign, AtCommand, Runs
<1>3. CASE Cd
  <2>1. At(S, "start") BY <1>3 DEF Cd, AtCommand, Runs
  <2>2. CASE Result(0) BY <2>1, <2>2, ReturnsTyped
  <2>3. CASE errno' = ENOENT /\ Return(2) /\ UNCHANGED <<info, fcs, ended>>
    <3>1. Moved BY <2>3, Unmoved DEF Return, Moved
    <3>2. stack # <<>> /\ Len(stack) > 1 BY <2>1, EvalFrames
    <3>3. Leave(2) /\ 2 \in 0 .. 255 BY <2>3 DEF Return
    <3> QED BY <3>1, <3>2, <3>3, LeaveTyped
  <2> QED BY <1>3, <2>2, <2>3 DEF Cd
<1>4. ASSUME NEW c, NEW type \in InfoType, BreakContinue(c, type)
      PROVE  TypeInv'
  <2>1. At(S, "start") BY <1>4 DEF BreakContinue, AtCommand, Runs
  <2>2. CASE Top.node.arg = 0
    BY <1>4, <2>1, <2>2, ExitTyped DEF BreakContinue
  <2>3. CASE Top.node.arg # 0
    <3>1. info' = SetBC(info, Top.node.arg, type) /\ Return(0)
          /\ UNCHANGED <<fcs, errno, ended>>
      BY <1>4, <2>3 DEF BreakContinue
    <3>2. Top.node.arg \in Nat BY <2>1, NodeFacts
    <3>3. info' \in Info BY <3>1, <3>2, Unmoved, InfoClosed
    <3>4. Moved BY <3>1, <3>3, Unmoved DEF Return, Moved
    <3>5. stack # <<>> /\ Len(stack) > 1 BY <2>1, EvalFrames
    <3>6. Leave(0) /\ 0 \in 0 .. 255 BY <3>1 DEF Return
    <3> QED BY <3>4, <3>5, <3>6, LeaveTyped
  <2> QED BY <2>2, <2>3
<1>5. CASE XExit
  <2>1. At(S, "start") /\ Exit(Top.node.arg)
    BY <1>5 DEF XExit, AtCommand, Runs
  <2> QED BY <2>1, NodeFacts, ExitTyped
<1>6. CASE ExecFunc
  <2>1. CASE AtCommand("call") /\ Result(127)
    BY <2>1, ReturnsTyped DEF AtCommand, Runs
  <2>2. CASE AtCommand("call") /\ Call(fcs, "first") /\ UNCHANGED <<globals, ended>>
    <3>1. At(S, "start") BY <2>2 DEF AtCommand, Runs
    <3>2. Moved BY <2>2, Unmoved DEF globals, Moved
    <3>3. fcs \in Trees BY Unmoved
    <3>4. Replaces([Top EXCEPT !.pc = "first"], stack) /\ stack # <<>>
      BY <3>1, EvalFrames DEF Pc
    <3> QED BY <2>2, <3>2, <3>3, <3>4, CallTyped DEF Call
  <2>3. CASE Back(S, "first") /\ Result(ret)
    BY <2>3, ReturnsTyped DEF Back
  <2> QED BY <1>6, <2>1, <2>2, <2>3 DEF ExecFunc
<1>7. CASE Dot
  <2>1. CASE AtCommand("dot") /\ Exit(Top.node.arg)
    <3>1. At(S, "start") BY <2>1 DEF AtCommand, Runs
    <3> QED BY <2>1, <3>1, NodeFacts, ExitTyped
  <2>2. CASE /\ AtCommand("dot")
             /\ stack' = Append(WithTop([Top EXCEPT !.pc = "first"]),
                                Frame("script", Sourced, Top.level, Top.base))
             /\ errno' = 0
             /\ UNCHANGED <<ret, info, last, fcs, ended>>
    <3> DEFINE f == [Top EXCEPT !.pc = "first"]
               s == WithTop(f)
               g == Frame("script", Sourced, Top.level, Top.base)
    <3>1. At(S, "start") BY <2>2 DEF AtCommand, Runs
    <3>2. Replaces(f, stack) /\ stack # <<>> BY <3>1, EvalFrames DEF Pc
    <3>3. /\ WellFormed(s) /\ s # <<>> /\ Len(s) = Len(stack)
          /\ Len(stack) \in Nat \ {0}
          /\ \A j \in 1 .. Len(stack) : s[j] = IF j = Len(stack) THEN f ELSE stack[j]
      BY <3>2, WellFormedSet DEF WithTop, TypeInv
    <3>4. s[Len(s)] = f BY <3>3
    <3>5. Sourced \in Scripted BY ScriptAssumption DEF Scripted
    <3>6. Top \in Frames BY <3>2, TopFacts
    <3>7. g \in Frames BY <3>5, <3>6, NewScript, FrameFields
    <3>8. Fits(g) /\ g.level = Top.level /\ g.base = Top.base
      BY <3>5 DEF Frame, Fits
    <3>9. LevelOf(f) = Top.level /\ f.base = Top.base
      BY <3>6 DEF Frames, LevelOf, InLoop
    <3>10. stack' = Append(s, g) BY <2>2
    <3> HIDE DEF f, s, g
    <3>11. WellFormed(stack') /\ stack' # <<>>
      BY <3>3, <3>4, <3>7, <3>8, <3>9, <3>10, WellFormedPush
    <3>12. GlobalsOK' /\ RetOK'
      BY <2>2 DEF TypeInv, GlobalsOK, RetOK
    <3>13. EndedOK' BY <2>2, <3>2, <3>11 DEF TypeInv, EndedOK
    <3> QED BY <3>11, <3>12, <3>13 DEF TypeInv
  <2>3. CASE Back(S, "first") /\ Result(ret)
    BY <2>3, ReturnsTyped DEF Back
  <2>4. CASE AtCommand("dot") /\ Result(0)
    BY <2>4, ReturnsTyped DEF AtCommand, Runs
  <2> QED BY <1>7, <2>1, <2>2, <2>3, <2>4 DEF Dot
<1>8. Break \in InfoType /\ Continue \in InfoType BY DEF InfoType
<1> QED BY <1>1, <1>2, <1>3, <1>4, <1>5, <1>6, <1>7, <1>8 DEF SCmd

LEMMA LoopCallTyped ==
  ASSUME TypeInv, stack # <<>>, NEW f, Replaces(f, stack), NEW child \in Trees,
         NEW r \in Info, EvalInLoop(f, child, r),
         last' \in 0 .. 255, UNCHANGED <<fcs, errno, ended>>
  PROVE  TypeInv'
<1>1. info' = IncDepth(r) /\ CallFrom(f, child) BY DEF EvalInLoop
<1>2. IncDepth(r) \in Info BY InfoClosed
<1>3. Moved BY <1>1, <1>2, Unmoved DEF Moved
<1> QED BY <1>1, <1>3, CallTyped

LEMMA BrokenTyped ==
  ASSUME TypeInv, stack # <<>>, Len(stack) > 1, LoopBroken,
         last' \in 0 .. 255, UNCHANGED <<fcs, errno, ended>>
  PROVE  TypeInv'
<1>1. info' = BCIsDone(info) /\ Leave(0) BY DEF LoopBroken
<1>2. BCIsDone(info) \in Info BY Unmoved, InfoClosed
<1>3. Moved BY <1>1, <1>2, Unmoved DEF Moved
<1>4. 0 \in 0 .. 255 OBVIOUS
<1> QED BY <1>1, <1>3, <1>4, LeaveTyped

LEMMA LoopReturnTyped ==
  ASSUME TypeInv, stack # <<>>, Len(stack) > 1, NEW v \in 0 .. 255,
         info' = BCIsDone(info), Return(v), UNCHANGED <<fcs, errno, ended>>
  PROVE  TypeInv'
<1>1. BCIsDone(info) \in Info BY Unmoved, InfoClosed
<1>2. Leave(v) /\ last' = v BY DEF Return
<1>3. Moved BY <1>1, <1>2, Unmoved DEF Moved
<1> QED BY <1>2, <1>3, LeaveTyped

LEMMA TypeWhile ==
  ASSUME TypeInv, EvalWhile
  PROVE  TypeInv'
<1> DEFINE Kid(k) == Top.node.kids[k]
<1>0. ASSUME NEW pc, At(While, pc)
      PROVE  /\ stack # <<>> /\ Len(stack) > 1 /\ Kid(1) \in Trees
             /\ Kid(2) \in Trees /\ Top.res \in 0 .. 255
             /\ \A p \in Pc : Replaces([Top EXCEPT !.pc = p], stack)
             /\ \A p \in Pc, r \in 0 .. 255 :
                  Replaces([Top EXCEPT !.pc = p, !.res = r], stack)
             /\ Replaces(Top, stack)
  <2>1. While \subseteq AstTypes BY Types
  <2>2. Top.node.type \in While BY <1>0 DEF At
  <2>3. Top.node.type \in HaveOne /\ Top.node.type \in HaveTwo
    BY <2>2, Types
  <2>4. stack # <<>> /\ Len(stack) > 1 /\ Kid(1) \in Trees /\ Kid(2) \in Trees
    BY <1>0, <2>1, <2>3, NodeFacts
  <2>5. Top.res \in 0 .. 255 BY <2>4, TopFacts, FrameFields
  <2> QED BY <1>0, <2>1, <2>4, <2>5, EvalFrames
<1>1. "loop_cond" \in Pc /\ "loop_body" \in Pc BY DEF Pc
<1>2. info \in Info /\ BCIsDone(info) \in Info BY Unmoved, InfoClosed
<1>3. UNCHANGED last => last' \in 0 .. 255 BY Unmoved
<1>4. CASE /\ Runs(While, "start")
           /\ EvalInLoop([Top EXCEPT !.pc = "loop_cond"], Kid(1), info)
           /\ UNCHANGED <<last, fcs, errno, ended>>
  <2>1. At(While, "start") BY <1>4 DEF Runs
  <2>2. stack # <<>> /\ Kid(1) \in Trees
        /\ Replaces([Top EXCEPT !.pc = "loop_cond"], stack)
    BY <1>0, <1>1, <2>1
  <2> QED BY <1>2, <1>3, <1>4, <2>2, LoopCallTyped
<1>5. CASE WhileCondition
  <2>1. At(While, "loop_cond") BY <1>5 DEF WhileCondition, Back
  <2>2. /\ stack # <<>> /\ Len(stack) > 1 /\ Kid(1) \in Trees
        /\ Kid(2) \in Trees /\ Top.res \in 0 .. 255
        /\ Replaces([Top EXCEPT !.pc = "loop_body"], stack)
        /\ Replaces(Top, stack)
    BY <1>0, <1>1, <2>1
  <2>3. CASE LoopBroken /\ UNCHANGED <<last, fcs, errno, ended>>
    BY <1>3, <2>2, <2>3, BrokenTyped
  <2>4. CASE /\ EvalInLoop(Top, Kid(1), BCIsDone(info))
             /\ UNCHANGED <<last, fcs, errno, ended>>
    BY <1>2, <1>3, <2>2, <2>4, LoopCallTyped
  <2>5. CASE /\ EvalInLoop([Top EXCEPT !.pc = "loop_body"], Kid(2),
                           BCIsDone(info))
             /\ UNCHANGED <<last, fcs, errno, ended>>
    BY <1>2, <1>3, <2>2, <2>5, LoopCallTyped
  <2>6. CASE /\ info' = BCIsDone(info) /\ Return(Top.res)
             /\ UNCHANGED <<fcs, errno, ended>>
    BY <2>2, <2>6, LoopReturnTyped
  <2> QED BY <1>5, <2>3, <2>4, <2>5, <2>6 DEF WhileCondition
<1>6. CASE WhileBody
  <2>1. At(While, "loop_body") /\ ret # NoRet /\ last' = ret
        /\ UNCHANGED <<fcs, errno, ended>>
    BY <1>6 DEF WhileBody, Back
  <2>2. ret \in 0 .. 255 BY <2>1, Unmoved
  <2>3. /\ stack # <<>> /\ Len(stack) > 1 /\ Kid(1) \in Trees
        /\ Replaces([Top EXCEPT !.pc = "loop_cond", !.res = ret], stack)
    BY <1>0, <1>1, <2>1, <2>2
  <2>4. CASE LoopBroken BY <2>1, <2>2, <2>3, <2>4, BrokenTyped
  <2>5. CASE EvalInLoop([Top EXCEPT !.pc = "loop_cond", !.res = ret], Kid(1),
                        BCIsDone(info))
    BY <1>2, <2>1, <2>2, <2>3, <2>5, LoopCallTyped
  <2> QED BY <1>6, <2>4, <2>5 DEF WhileBody
<1> QED BY <1>4, <1>5, <1>6 DEF EvalWhile

LEMMA TypeFor ==
  ASSUME TypeInv, EvalFor
  PROVE  TypeInv'
<1> DEFINE F == {"AST_FOR"}
           body == Top.node.kids[1]
<1>0. ASSUME NEW pc, At(F, pc)
      PROVE  /\ stack # <<>> /\ Len(stack) > 1 /\ body \in Trees
             /\ Replaces([Top EXCEPT !.pc = "loop_body"], stack)
             /\ \A r \in 0 .. 255 :
                  Replaces([Top EXCEPT !.i = @ + 1, !.res = r], stack)
  <2>1. F \subseteq AstTypes BY Types
  <2>2. Top.node.type \in HaveOne BY <1>0, Types DEF At
  <2>3. body \in Trees BY <1>0, <2>1, <2>2, NodeFacts
  <2>4. "loop_body" \in Pc BY DEF Pc
  <2> QED BY <1>0, <2>1, <2>3, <2>4, EvalFrames
<1>1. info \in Info /\ BCIsDone(info) \in Info BY Unmoved, InfoClosed
<1>2. UNCHANGED last => last' \in 0 .. 255 BY Unmoved
<1>3. CASE Runs(F, "start") /\ Result(0)
  BY <1>3, Types, ReturnsTyped DEF Runs
<1>4. CASE /\ Runs(F, "start")
           /\ EvalInLoop([Top EXCEPT !.pc = "loop_body"], body, info)
           /\ UNCHANGED <<last, fcs, errno, ended>>
  <2>1. At(F, "start") BY <1>4 DEF Runs
  <2>2. /\ stack # <<>> /\ body \in Trees
        /\ Replaces([Top EXCEPT !.pc = "loop_body"], stack)
    BY <1>0, <2>1
  <2> QED BY <1>1, <1>2, <1>4, <2>2, LoopCallTyped
<1>5. CASE /\ Back(F, "loop_body") /\ last' = ret
           /\ \/ LoopBroken
              \/ EvalInLoop([Top EXCEPT !.i = @ + 1, !.res = ret], body,
                            BCIsDone(info))
              \/ info' = BCIsDone(info) /\ Return(ret)
           /\ UNCHANGED <<fcs, errno, ended>>
  <2>1. At(F, "loop_body") /\ ret # NoRet BY <1>5 DEF Back
  <2>2. ret \in 0 .. 255 BY <2>1, Unmoved
  <2>3. /\ stack # <<>> /\ Len(stack) > 1 /\ body \in Trees
        /\ Replaces([Top EXCEPT !.i = @ + 1, !.res = ret], stack)
    BY <1>0, <2>1, <2>2
  <2>4. CASE LoopBroken BY <1>5, <2>2, <2>3, <2>4, BrokenTyped
  <2>5. CASE EvalInLoop([Top EXCEPT !.i = @ + 1, !.res = ret], body,
                        BCIsDone(info))
    BY <1>1, <1>5, <2>2, <2>3, <2>5, LoopCallTyped
  <2>6. CASE info' = BCIsDone(info) /\ Return(ret)
    BY <1>5, <2>2, <2>3, <2>6, LoopReturnTyped
  <2> QED BY <1>5, <2>4, <2>5, <2>6
<1> QED BY <1>3, <1>4, <1>5 DEF EvalFor

LEMMA TypeScript ==
  ASSUME TypeInv, ExecScript
  PROVE  TypeInv'
<1>0. AtScript /\ stack # <<>> /\ Top.fn = "script"
  BY DEF ExecScript, NextLine, LineDone, AtScript
<1>1. /\ Top.node \in Scripted /\ Top.res \in 0 .. 255
      /\ Top.i \in Nat \ {0} /\ Len(stack) \in Nat \ {0}
  BY <1>0, TopFacts, FrameFields DEF Fits
<1>2. ASSUME Top.i <= Len(Lines), Lines[Top.i] \notin {NULL, BadLine}
      PROVE  Lines[Top.i] \in Trees
  <2>1. Lines \in Seq(Node \cup {NULL, BadLine}) BY <1>1 DEF Lines, Scripted
  <2>2. Top.i \in 1 .. Len(Lines) BY <1>1, <1>2, <2>1, LenProperties
  <2>3. Lines[Top.i] \in Node \cup {NULL, BadLine}
    BY <2>1, <2>2, ElementOfSeq
  <2> QED BY <1>2, <2>3 DEF Trees
<1>3. CASE ScriptEnds(Top.res)
  <2>1. CASE Len(stack) = 1
    <3>1. Exit(Top.res) /\ Top.res \in Nat BY <1>1, <1>3, <2>1 DEF ScriptEnds
    <3> QED BY <1>0, <3>1, ExitOK
  <2>2. CASE Len(stack) # 1
    <3>1. Leave(Top.res) /\ errno' = EmptyEOF
          /\ UNCHANGED <<info, last, fcs, ended>>
      BY <1>3, <2>2 DEF ScriptEnds
    <3>2. Moved BY <3>1, Unmoved DEF Moved
    <3> DEFINE n == Len(stack)
    <3>3. n \in Nat \ {0} /\ n # 1 BY <1>1, <2>2
    <3>4. n > 1
      <4> HIDE DEF n
      <4> QED BY <3>3
    <3> QED BY <1>0, <1>1, <3>1, <3>2, <3>4, LeaveTyped
  <2> QED BY <2>1, <2>2
<1>4. CASE Exit(2) BY <1>0, <1>4, ExitOK
<1>5. CASE /\ stack' = WithTop([Top EXCEPT !.i = @ + 1])
           /\ errno' = 0
           /\ UNCHANGED <<ret, info, last, fcs, ended>>
  <2>1. Moved BY <1>5, Unmoved DEF Moved
  <2>2. Replaces([Top EXCEPT !.i = @ + 1], stack) BY <1>0, ReplacesTop
  <2> QED BY <1>0, <1>5, <2>1, <2>2, SetTyped
<1>6. CASE /\ Top.i <= Len(Lines) /\ Lines[Top.i] \notin {NULL, BadLine}
           /\ CallFrom([Top EXCEPT !.i = @ + 1], Lines[Top.i])
           /\ info' = FreshInfo /\ errno' = 0
           /\ UNCHANGED <<last, fcs, ended>>
  <2>1. Moved BY <1>6, Unmoved, InfoClosed DEF Moved
  <2>2. Replaces([Top EXCEPT !.i = @ + 1], stack) BY <1>0, ReplacesTop
  <2>3. Lines[Top.i] \in Trees BY <1>2, <1>6
  <2> QED BY <1>0, <1>6, <2>1, <2>2, <2>3, CallTyped
<1>7. CASE LineDone
  <2>1. Moved BY <1>7, Unmoved DEF LineDone, globals, Moved
  <2>2. ret \in 0 .. 255 BY <1>7, Unmoved DEF LineDone
  <2>3. Replaces([Top EXCEPT !.res = ret], stack) BY <1>0, <2>2, ReplacesTop
  <2> QED BY <1>0, <1>7, <2>1, <2>3, SetTyped DEF LineDone
<1> QED BY <1>3, <1>4, <1>5, <1>6, <1>7 DEF ExecScript, NextLine

LEMMA InitTyped == Init => TypeInv
<1> SUFFICES ASSUME Init PROVE TypeInv OBVIOUS
<1>1. PICK s \in Scripts : stack = <<Frame("script", s, 0, 0)>> BY DEF Init
<1> DEFINE f == Frame("script", s, 0, 0)
<1>2. s \in Scripted BY ScriptAssumption DEF Scripted
<1>3. f \in Frames BY <1>2, NewScript
<1>4. Fits(f) /\ f.fn = "script" /\ f.level = 0 /\ f.base = 0
  BY <1>2 DEF Fits, Frame
<1> HIDE DEF f
<1>5. /\ <<f>> \in Seq(Frames) /\ Len(<<f>>) = 1 /\ <<f>>[1] = f
      /\ <<f>> # <<>>
  BY <1>3
<1>6. Based(<<f>>) BY <1>4, <1>5 DEF Based
<1>7. WellFormed(stack) /\ stack # <<>> BY <1>1, <1>5, <1>6 DEF WellFormed, f
<1>8. GlobalsOK BY InfoClosed DEF Init, GlobalsOK, Trees
<1>9. RetOK /\ EndedOK BY <1>7 DEF Init, RetOK, EndedOK
<1> QED BY <1>7, <1>8, <1>9 DEF TypeInv

LEMMA StepTyped == TypeInv /\ [Next]_vars => TypeInv'
<1> SUFFICES ASSUME TypeInv, [Next]_vars PROVE TypeInv' OBVIOUS
<1>1. CASE UNCHANGED vars
  BY <1>1 DEF vars, TypeInv, WellFormed, GlobalsOK, RetOK, EndedOK
<1>2. CASE Step
  BY <1>2, TypeGeneral, TypeTree, TypeChildren, TypeSimple, TypeWhile, TypeFor,
     TypeScript
  DEF Step, Tree
<1> QED BY <1>1, <1>2 DEF Next, Terminated

LEMMA TypeInvHolds == Spec => []TypeInv
<1>1. Init => TypeInv BY InitTyped
<1>2. TypeInv /\ [Next]_vars => TypeInv' BY StepTyped
<1> QED BY <1>1, <1>2, PTL DEF Spec

\* Every reachable state is well typed: statuses fit in a byte, every frame
\* holds the tree or the script its kind calls for, and the shell has an exit
\* status exactly when its stack is empty.
THEOREM TypeCorrect == Spec => []TypeOK
<1>1. TypeInv => TypeOK
  BY DEF TypeInv, TypeOK, WellFormed, Based, GlobalsOK, Globals, RetOK,
     EndedOK, Trees
<1> QED BY <1>1, TypeInvHolds, PTL
-----------------------------------------------------------------------------
(***************************************************************************)
(* Every line of a script: exec_script() takes errno = ERROR_EMPTY_EOF for *)
(* the end of its own script, which is also what it leaves behind.         *)
(***************************************************************************)
\* The process with base b executes a script.
ScriptOf(s, b) == \E k \in 1 .. Len(s) : s[k].fn = "script" /\ s[k].base = b

\* A file is sourced only by a process that executes no other script, as a
\* subshell does: its exec_script() leaves errno to nobody.
SourcedApart ==
  AtCommand("dot") /\ Top.node.arg = 0 => ~ScriptOf(stack, Top.base)

\* A process executes one script at most; its frames follow each other; a
\* parent that executes a script waits with another errno.
Apart(s) ==
  /\ \A j, k \in 1 .. Len(s) :
       s[j].fn = "script" /\ s[k].fn = "script" /\ s[j].base = s[k].base => j = k
  /\ \A k \in 1 .. Len(s) - 1 :
       IF s[k + 1].fn = "fork"
       THEN /\ s[k + 1].base = k + 1
            /\ ScriptOf(s, s[k].base) => s[k + 1].saved.errno # EmptyEOF
       ELSE s[k + 1].base = s[k].base
  /\ \A j, k \in 1 .. Len(s) : j <= k => s[j].base <= s[k].base

\* errno, left to the frames s, does not end their script.
Heeded(s, e) == s # <<>> /\ ScriptOf(s, s[Len(s)].base) => e # EmptyEOF

LinesInv == TypeInv /\ Apart(stack) /\ Heeded(stack, errno)

LEMMA ApartSet ==
  ASSUME NEW s, WellFormed(s), s # <<>>, Apart(s), NEW f, Replaces(f, s),
         f.fn # "fork", NEW t, t = [s EXCEPT ![Len(s)] = f], NEW e,
         Heeded(s, e)
  PROVE  Apart(t) /\ Heeded(t, e)
<1>1. /\ Len(t) = Len(s) /\ Len(s) \in Nat \ {0}
      /\ \A k \in 1 .. Len(s) : t[k] = IF k = Len(s) THEN f ELSE s[k]
  BY WellFormedSet
<1>2. \A k \in 1 .. Len(s) : /\ t[k].fn = s[k].fn /\ t[k].base = s[k].base
                             /\ s[k].fn = "fork" => t[k] = s[k]
  BY <1>1 DEF Replaces
<1>3. \A b : ScriptOf(t, b) <=> ScriptOf(s, b)
  BY <1>1, <1>2 DEF ScriptOf
<1>4. ASSUME NEW k \in 1 .. Len(t) - 1
      PROVE  IF t[k + 1].fn = "fork"
             THEN /\ t[k + 1].base = k + 1
                  /\ ScriptOf(t, t[k].base) => t[k + 1].saved.errno # EmptyEOF
             ELSE t[k + 1].base = t[k].base
  <2>1. k \in 1 .. Len(s) - 1 /\ k \in 1 .. Len(s) /\ k + 1 \in 1 .. Len(s)
    BY <1>1
  <2>2. IF s[k + 1].fn = "fork"
        THEN /\ s[k + 1].base = k + 1
             /\ ScriptOf(s, s[k].base) => s[k + 1].saved.errno # EmptyEOF
        ELSE s[k + 1].base = s[k].base
    BY <2>1 DEF Apart
  <2> QED BY <1>2, <1>3, <2>1, <2>2
<1>5. \A j, k \in 1 .. Len(t) :
        t[j].fn = "script" /\ t[k].fn = "script" /\ t[j].base = t[k].base => j = k
  <2> SUFFICES ASSUME NEW j \in 1 .. Len(t), NEW k \in 1 .. Len(t),
                      t[j].fn = "script", t[k].fn = "script", t[j].base = t[k].base
               PROVE  j = k
    OBVIOUS
  <2>1. j \in 1 .. Len(s) /\ k \in 1 .. Len(s)
    BY <1>1
  <2>2. s[j].fn = "script" /\ s[k].fn = "script" /\ s[j].base = s[k].base
    BY <1>2, <2>1
  <2> QED BY <2>1, <2>2 DEF Apart
<1>6. t[Len(t)].base = s[Len(s)].base
  <2>1. Len(s) \in 1 .. Len(s) BY <1>1
  <2> QED BY <1>1, <1>2, <2>1
<1>7. ASSUME NEW j \in 1 .. Len(t), NEW k \in 1 .. Len(t), j <= k
      PROVE  t[j].base <= t[k].base
  <2>1. j \in 1 .. Len(s) /\ k \in 1 .. Len(s) BY <1>1
  <2>2. s[j].base <= s[k].base BY <1>7, <2>1 DEF Apart
  <2> QED BY <1>2, <2>1, <2>2
<1>8. Apart(t)
  BY <1>4, <1>5, <1>7 DEF Apart
<1> QED BY <1>3, <1>6, <1>8 DEF Heeded

\* g may be pushed on s.
MayPush(s, g) ==
  /\ IF g.fn = "fork"
     THEN /\ g.base = Len(s) + 1
          /\ ScriptOf(s, s[Len(s)].base) => g.saved.errno # EmptyEOF
     ELSE g.base = s[Len(s)].base
  /\ g.fn = "script" => ~ScriptOf(s, g.base)

LEMMA ScriptPush ==
  ASSUME NEW s, WellFormed(s), s # <<>>, NEW g \in Frames, NEW t, t = Append(s, g)
  PROVE  /\ Len(t) = Len(s) + 1 /\ t[Len(t)] = g /\ t[Len(s) + 1] = g
         /\ \A k \in 1 .. Len(s) : t[k] = s[k]
         /\ \A b : ScriptOf(t, b) <=> ScriptOf(s, b) \/ (g.fn = "script" /\ g.base = b)
         /\ \A k \in 1 .. Len(s) : s[k].base \in 0 .. Len(s)
         /\ Len(s) \in Nat \ {0}
<1>0. s \in Seq(Frames) /\ Len(s) \in Nat \ {0}
  BY EmptySeq DEF WellFormed
<1>1. /\ Len(t) = Len(s) + 1 /\ \A k \in 1 .. Len(s) : t[k] = s[k]
      /\ t[Len(s) + 1] = g /\ t[Len(t)] = g
  BY <1>0, AppendProperties
<1>2. \A k \in 1 .. Len(s) : s[k].base \in 0 .. Len(s)
  <2>1. \A k \in 1 .. Len(s) : s[k].base \in 0 .. k BY DEF WellFormed, Based
  <2> QED BY <1>0, <2>1
<1>3. \A b : ScriptOf(t, b) <=> ScriptOf(s, b) \/ (g.fn = "script" /\ g.base = b)
  BY <1>0, <1>1 DEF ScriptOf
<1> QED BY <1>0, <1>1, <1>2, <1>3

LEMMA ApartPush ==
  ASSUME NEW s, WellFormed(s), s # <<>>, Apart(s), NEW g \in Frames, MayPush(s, g),
         NEW t, t = Append(s, g)
  PROVE  Apart(t)
<1>0. Len(s) \in Nat \ {0} BY ScriptPush
<1>1. /\ Len(t) = Len(s) + 1 /\ \A k \in 1 .. Len(s) : t[k] = s[k]
      /\ t[Len(s) + 1] = g
  BY ScriptPush
<1>2. \A k \in 1 .. Len(s) : s[k].base \in 0 .. Len(s)
  BY ScriptPush
<1>3. \A b : ScriptOf(t, b) <=> ScriptOf(s, b) \/ (g.fn = "script" /\ g.base = b)
  BY <1>0, <1>1 DEF ScriptOf
<1>9. /\ IF g.fn = "fork"
         THEN /\ g.base = Len(s) + 1
              /\ ScriptOf(s, s[Len(s)].base) => g.saved.errno # EmptyEOF
         ELSE g.base = s[Len(s)].base
      /\ g.fn = "script" => ~ScriptOf(s, g.base)
  BY DEF MayPush
<1>4. ASSUME NEW k \in 1 .. Len(t) - 1
      PROVE  IF t[k + 1].fn = "fork"
             THEN /\ t[k + 1].base = k + 1
                  /\ ScriptOf(t, t[k].base) => t[k + 1].saved.errno # EmptyEOF
             ELSE t[k + 1].base = t[k].base
  <2>1. CASE k = Len(s)
    <3>1. t[k] = s[Len(s)] /\ t[k + 1] = g /\ k + 1 = Len(s) + 1
      BY <1>0, <1>1, <2>1
    <3>2. g.fn = "fork" => (ScriptOf(t, t[k].base) => ScriptOf(s, t[k].base))
      BY <1>3
    <3> QED BY <1>9, <2>1, <3>1, <3>2
  <2>2. CASE k \in 1 .. Len(s) - 1
    <3>1. /\ k \in 1 .. Len(s) /\ k + 1 \in 1 .. Len(s)
          /\ t[k] = s[k] /\ t[k + 1] = s[k + 1]
      BY <1>0, <1>1, <2>2
    <3>2. IF s[k + 1].fn = "fork"
          THEN /\ s[k + 1].base = k + 1
               /\ ScriptOf(s, s[k].base) => s[k + 1].saved.errno # EmptyEOF
          ELSE s[k + 1].base = s[k].base
      BY <2>2 DEF Apart
    <3>3. CASE t[k + 1].fn # "fork" BY <3>1, <3>2, <3>3
    <3>4. CASE t[k + 1].fn = "fork" /\ ~(g.fn = "script" /\ g.base = s[k].base)
      BY <1>3, <3>1, <3>2, <3>4
    <3>5. CASE t[k + 1].fn = "fork" /\ g.fn = "script" /\ g.base = s[k].base
      <4>1. s[Len(s)].base = s[k].base /\ s[k + 1].base = k + 1
        BY <1>9, <3>1, <3>2, <3>5
      <4>2. s[k + 1].base <= s[Len(s)].base
        BY <1>0, <3>1 DEF Apart
      <4>3. s[k].base \in 0 .. k
        BY <3>1 DEF WellFormed, Based
      <4> QED BY <2>2, <4>1, <4>2, <4>3
    <3> QED BY <3>3, <3>4, <3>5
  <2> QED BY <1>0, <1>1, <2>1, <2>2
<1>5. \A j, k \in 1 .. Len(t) :
        t[j].fn = "script" /\ t[k].fn = "script" /\ t[j].base = t[k].base => j = k
  BY <1>0, <1>1, <1>9 DEF Apart, ScriptOf
<1>6. \A j, k \in 1 .. Len(t) : j <= k => t[j].base <= t[k].base
  <2>1. \A j \in 1 .. Len(s) : s[j].base <= s[Len(s)].base /\ s[j].base \in Nat
    BY <1>0, <1>2 DEF Apart
  <2>2. s[Len(s)].base <= g.base /\ g.base \in Nat /\ s[Len(s)].base \in Nat
    BY <1>0, <1>2, <1>9
  <2>3. \A j \in 1 .. Len(s) : s[j].base <= g.base
    BY <2>1, <2>2
  <2>4. ASSUME NEW j \in 1 .. Len(t), NEW k \in 1 .. Len(t), j <= k
        PROVE  t[j].base <= t[k].base
    <3>1. CASE k \in 1 .. Len(s)
      <4>1. j \in 1 .. Len(s) BY <1>0, <2>4, <3>1
      <4> QED BY <1>1, <2>4, <3>1, <4>1 DEF Apart
    <3>2. CASE k = Len(s) + 1 /\ j \in 1 .. Len(s) BY <1>1, <2>3, <3>2
    <3>3. CASE k = Len(s) + 1 /\ j = Len(s) + 1 BY <1>1, <2>2, <3>3
    <3> QED BY <1>0, <1>1, <3>1, <3>2, <3>3
  <2> QED BY <2>4
<1> QED BY <1>4, <1>5, <1>6 DEF Apart

\* t is s without the frames from the m-th on.
CutOf(s, m, t) ==
  /\ Len(s) \in Nat /\ m \in Nat /\ Len(t) = m - 1 /\ m - 1 \in 1 .. m - 1
  /\ \A k \in 1 .. m - 1 : t[k] = s[k] /\ k \in 1 .. Len(s)
  /\ \A b : ScriptOf(t, b) => ScriptOf(s, b)

LEMMA ScriptCut ==
  ASSUME NEW s, WellFormed(s), NEW m \in 1 .. Len(s), m > 1,
         NEW t, t = SubSeq(s, 1, m - 1)
  PROVE  CutOf(s, m, t)
<1>0. s \in Seq(Frames) /\ Len(s) \in Nat /\ m \in Nat
  BY LenProperties DEF WellFormed
<1>1. /\ Len(t) = m - 1 /\ \A k \in 1 .. m - 1 : t[k] = s[k]
      /\ \A k \in 1 .. m - 1 : k \in 1 .. Len(s)
      /\ m - 1 \in 1 .. m - 1
  BY <1>0, CutFacts
<1>2. \A b : ScriptOf(t, b) => ScriptOf(s, b)
  BY <1>1 DEF ScriptOf
<1> QED BY <1>0, <1>1, <1>2 DEF CutOf

LEMMA ApartCut ==
  ASSUME NEW s, WellFormed(s), Apart(s), NEW m \in 1 .. Len(s), m > 1,
         NEW t, t = SubSeq(s, 1, m - 1)
  PROVE  Apart(t)
<1> CutOf(s, m, t)
  BY ScriptCut
<1>0. Len(s) \in Nat /\ m \in Nat
  BY DEF CutOf
<1>1. /\ Len(t) = m - 1
      /\ \A k \in 1 .. m - 1 : t[k] = s[k] /\ k \in 1 .. Len(s)
  BY DEF CutOf
<1>2. \A b : ScriptOf(t, b) => ScriptOf(s, b)
  BY DEF CutOf
<1>3. ASSUME NEW k \in 1 .. Len(s) - 1
      PROVE  IF s[k + 1].fn = "fork"
             THEN /\ s[k + 1].base = k + 1
                  /\ ScriptOf(s, s[k].base) => s[k + 1].saved.errno # EmptyEOF
             ELSE s[k + 1].base = s[k].base
  BY DEF Apart
<1>4. ASSUME NEW k \in 1 .. Len(t) - 1
      PROVE  IF t[k + 1].fn = "fork"
             THEN /\ t[k + 1].base = k + 1
                  /\ ScriptOf(t, t[k].base) => t[k + 1].saved.errno # EmptyEOF
             ELSE t[k + 1].base = t[k].base
  <2>1. k \in 1 .. m - 1 /\ k + 1 \in 1 .. m - 1 /\ k \in 1 .. Len(s) - 1
    BY <1>0, <1>1
  <2>2. t[k] = s[k] /\ t[k + 1] = s[k + 1]
    BY <1>1, <2>1
  <2> QED BY <1>2, <1>3, <2>1, <2>2
<1>5. \A j, k \in 1 .. Len(t) :
        t[j].fn = "script" /\ t[k].fn = "script" /\ t[j].base = t[k].base => j = k
  BY <1>1 DEF Apart
<1>6. \A j, k \in 1 .. Len(t) : j <= k => t[j].base <= t[k].base
  BY <1>1 DEF Apart
<1> QED BY <1>4, <1>5, <1>6 DEF Apart

\* The same, with errno.
LEMMA HeededPush ==
  ASSUME NEW s, WellFormed(s), s # <<>>, Apart(s), NEW e, Heeded(s, e),
         NEW g \in Frames, g.fn # "fork", g.base = s[Len(s)].base,
         g.fn = "script" => ~ScriptOf(s, g.base) /\ e # EmptyEOF,
         NEW t, t = Append(s, g)
  PROVE  Apart(t) /\ Heeded(t, e)
<1>1. MayPush(s, g) BY DEF MayPush
<1>2. Apart(t) BY <1>1, ApartPush
<1>3. t[Len(t)] = g BY ScriptPush
<1>4. \A b : ScriptOf(t, b) <=> ScriptOf(s, b) \/ (g.fn = "script" /\ g.base = b)
  BY ScriptPush
<1> QED BY <1>2, <1>3, <1>4 DEF Heeded

LEMMA HeededFork ==
  ASSUME NEW s, WellFormed(s), s # <<>>, Apart(s),
         NEW g \in Frames, g.fn = "fork", g.base = Len(s) + 1,
         Heeded(s, g.saved.errno), NEW t, t = Append(s, g)
  PROVE  Apart(t) /\ \A e : Heeded(t, e)
<1>1. MayPush(s, g) BY DEF MayPush, Heeded
<1>2. Apart(t) BY <1>1, ApartPush
<1>3. t[Len(t)] = g BY ScriptPush
<1>4. \A b : ScriptOf(t, b) <=> ScriptOf(s, b) \/ (g.fn = "script" /\ g.base = b)
  BY ScriptPush
<1>5. ~ScriptOf(s, g.base)
  <2>1. \A k \in 1 .. Len(s) : s[k].base \in 0 .. Len(s) BY ScriptPush
  <2>2. Len(s) \in Nat BY ScriptPush
  <2> QED BY <2>1, <2>2 DEF ScriptOf
<1> QED BY <1>2, <1>3, <1>4, <1>5 DEF Heeded

LEMMA HeededCut ==
  ASSUME NEW s, WellFormed(s), Apart(s), NEW m \in 1 .. Len(s), m > 1,
         NEW t, t = SubSeq(s, 1, m - 1), NEW e,
         \/ s[m].fn = "fork" /\ e = s[m].saved.errno
         \/ s[m].fn = "script" /\ m = Len(s)
         \/ s[m].fn = "eval" /\ m = Len(s) /\ Heeded(s, e)
  PROVE  Apart(t) /\ Heeded(t, e)
<1>1. Apart(t) /\ CutOf(s, m, t) BY ApartCut, ScriptCut
<1>2. /\ Len(s) \in Nat /\ m \in Nat /\ Len(t) = m - 1 /\ m - 1 \in 1 .. m - 1
      /\ \A k \in 1 .. m - 1 : t[k] = s[k] /\ k \in 1 .. Len(s)
  BY <1>1 DEF CutOf
<1>3. \A b : ScriptOf(t, b) => ScriptOf(s, b) BY <1>1 DEF CutOf
<1>4. PICK l \in 1 .. Len(s) - 1 : l = m - 1
  BY <1>2
<1>5. IF s[l + 1].fn = "fork"
      THEN /\ s[l + 1].base = l + 1
           /\ ScriptOf(s, s[l].base) => s[l + 1].saved.errno # EmptyEOF
      ELSE s[l + 1].base = s[l].base
  BY DEF Apart
<1>6. t[Len(t)] = s[l] /\ s[l + 1] = s[m] BY <1>2, <1>4
<1>7. CASE s[m].fn = "fork" /\ e = s[m].saved.errno
  BY <1>1, <1>3, <1>5, <1>6, <1>7 DEF Heeded
<1>8. CASE s[m].fn = "script" /\ m = Len(s)
  <2>1. ~ScriptOf(t, s[m].base)
    <3> SUFFICES ASSUME ScriptOf(t, s[m].base) PROVE FALSE OBVIOUS
    <3>1. PICK k \in 1 .. Len(t) : t[k].fn = "script" /\ t[k].base = s[m].base
      BY DEF ScriptOf
    <3>2. k \in 1 .. Len(s) /\ t[k] = s[k] /\ k # m
      BY <1>2
    <3> QED BY <1>8, <3>1, <3>2 DEF Apart
  <2> QED BY <1>1, <1>5, <1>6, <1>8, <2>1 DEF Heeded
<1>9. CASE s[m].fn = "eval" /\ m = Len(s) /\ Heeded(s, e)
  <2>1. s # <<>> BY EmptySeq DEF WellFormed
  <2> QED BY <1>1, <1>3, <1>5, <1>6, <1>9, <2>1 DEF Heeded
<1> QED BY <1>7, <1>8, <1>9

-----------------------------------------------------------------------------
(* What a step does to the stack and to errno *)

Leaves == /\ stack # <<>> /\ Top.fn = "eval" /\ stack' = Popped
          /\ errno' \in {errno, ENOENT}
Goes(f) == /\ stack # <<>> /\ Replaces(f, stack) /\ f.fn # "fork"
           /\ stack' = WithTop(f) /\ errno' \in {errno, 0}
Calls(f, g) == /\ stack # <<>> /\ Replaces(f, stack) /\ f.fn # "fork"
               /\ g \in Frames /\ g.fn = "eval" /\ g.base = f.base
               /\ stack' = Append(WithTop(f), g) /\ errno' \in {errno, 0}
Forks(child, pc) == /\ stack # <<>> /\ Top.fn = "eval" /\ child \in Trees /\ pc \in Pc
                    /\ Fork(child, pc)
Exits(code) == stack # <<>> /\ Exit(code)
Sources(f, g) == /\ AtCommand("dot") /\ Top.node.arg = 0
                 /\ Replaces(f, stack) /\ f.fn # "fork"
                 /\ g \in Frames /\ g.fn = "script" /\ g.base = f.base
                 /\ stack' = Append(WithTop(f), g) /\ errno' = 0
Ends == AtScript /\ Len(stack) > 1 /\ stack' = Popped /\ errno' = EmptyEOF

Shaped == \/ Leaves \/ Ends
          \/ \E f : Goes(f)
          \/ \E f, g : Calls(f, g) \/ Sources(f, g)
          \/ \E child, pc : Forks(child, pc)
          \/ \E code : Exits(code)

Heard == Apart(stack') /\ Heeded(stack', errno')

LEMMA LinesTop ==
  ASSUME LinesInv, stack # <<>>
  PROVE  /\ TypeInv /\ WellFormed(stack) /\ Apart(stack) /\ Heeded(stack, errno)
         /\ Len(stack) \in Nat \ {0} /\ Len(stack) \in 1 .. Len(stack)
         /\ Top = stack[Len(stack)]
         /\ \A e \in {errno, 0, ENOENT} : Heeded(stack, e)
<1>1. TypeInv /\ WellFormed(stack) /\ Apart(stack) /\ Heeded(stack, errno)
  BY DEF LinesInv, TypeInv
<1>2. 0 # EmptyEOF /\ ENOENT # EmptyEOF BY DEF EmptyEOF, ENOENT
<1>3. Heeded(stack, 0) /\ Heeded(stack, ENOENT) BY <1>2 DEF Heeded
<1> QED BY <1>1, <1>3, TopFacts DEF Top

LEMMA LeavesHeard ==
  ASSUME LinesInv, Leaves \/ Ends
  PROVE  Heard
<1> DEFINE m == Len(stack)
<1>1. stack # <<>> BY DEF Leaves, Ends, AtScript
<1>2. Len(stack) > 1
  BY <1>1, LinesTop, TopFacts DEF Leaves, Ends
<1>3. m \in 1 .. Len(stack) /\ m > 1 /\ m = Len(stack) /\ stack' = SubSeq(stack, 1, m - 1)
  BY <1>1, <1>2, LinesTop DEF Leaves, Ends, Popped
<1>4. \/ stack[m].fn = "script" /\ m = Len(stack)
      \/ stack[m].fn = "eval" /\ m = Len(stack) /\ Heeded(stack, errno')
  BY <1>1, LinesTop DEF Leaves, Ends, AtScript
<1>5. WellFormed(stack) /\ Apart(stack) BY <1>1, LinesTop
<1> HIDE DEF m
<1> QED BY <1>3, <1>4, <1>5, HeededCut DEF Heard

LEMMA GoesHeard ==
  ASSUME LinesInv, NEW f, Goes(f)
  PROVE  Heard
<1>1. stack # <<>> /\ Replaces(f, stack) /\ f.fn # "fork" BY DEF Goes
<1>2. stack' = [stack EXCEPT ![Len(stack)] = f] BY DEF Goes, WithTop
<1>3. WellFormed(stack) /\ Apart(stack) /\ Heeded(stack, errno')
  BY <1>1, LinesTop DEF Goes
<1> QED BY <1>1, <1>2, <1>3, ApartSet DEF Heard

\* The top frame has become f.
LEMMA TopBecomes ==
  ASSUME LinesInv, stack # <<>>, NEW f, Replaces(f, stack), f.fn # "fork",
         NEW s, s = WithTop(f)
  PROVE  /\ WellFormed(s) /\ s # <<>> /\ Apart(s)
         /\ Len(s) = Len(stack) /\ s[Len(s)] = f /\ f.base = Top.base
         /\ \A e \in {errno, 0, ENOENT} : Heeded(s, e)
         /\ \A b : ScriptOf(s, b) <=> ScriptOf(stack, b)
<1>1. s = [stack EXCEPT ![Len(stack)] = f] BY DEF WithTop
<1>2. WellFormed(stack) /\ Apart(stack) /\ \A e \in {errno, 0, ENOENT} : Heeded(stack, e)
  BY LinesTop
<1>3. /\ WellFormed(s) /\ s # <<>> /\ Len(s) = Len(stack) /\ Len(stack) \in Nat \ {0}
      /\ \A k \in 1 .. Len(stack) : s[k] = IF k = Len(stack) THEN f ELSE stack[k]
  BY <1>1, <1>2, WellFormedSet
<1>4. ASSUME NEW e \in {errno, 0, ENOENT} PROVE Apart(s) /\ Heeded(s, e)
  <2>1. Heeded(stack, e) BY <1>2
  <2> QED BY <1>1, <1>2, <2>1, ApartSet
<1>5. s[Len(s)] = f BY <1>3
<1>6. f.base = Top.base /\ f.fn = Top.fn BY DEF Replaces, Top
<1>7. \A b : ScriptOf(s, b) <=> ScriptOf(stack, b)
  BY <1>3, <1>6 DEF ScriptOf, Top
<1> QED BY <1>3, <1>4, <1>5, <1>6, <1>7

LEMMA CallsHeard ==
  ASSUME LinesInv, SourcedApart, NEW f, NEW g, Calls(f, g) \/ Sources(f, g)
  PROVE  Heard
<1> DEFINE s == WithTop(f)
<1>1. stack # <<>> /\ Replaces(f, stack) /\ f.fn # "fork"
  BY DEF Calls, Sources, AtCommand, Runs, At
<1>2. /\ WellFormed(s) /\ s # <<>> /\ Apart(s)
      /\ Len(s) = Len(stack) /\ s[Len(s)] = f /\ f.base = Top.base
      /\ \A e \in {errno, 0, ENOENT} : Heeded(s, e)
      /\ \A b : ScriptOf(s, b) <=> ScriptOf(stack, b)
  BY <1>1, TopBecomes
<1>3. /\ stack' = Append(s, g) /\ g \in Frames /\ g.fn # "fork" /\ g.base = f.base
      /\ errno' \in {errno, 0}
  BY DEF Calls, Sources
<1>4. g.fn = "script" => ~ScriptOf(stack, Top.base) /\ errno' # EmptyEOF
  BY DEF Calls, Sources, SourcedApart, EmptyEOF
<1> HIDE DEF s
<1>5. g.base = s[Len(s)].base BY <1>2, <1>3
<1>6. g.fn = "script" => ~ScriptOf(s, g.base) /\ errno' # EmptyEOF
  BY <1>2, <1>3, <1>4
<1>7. Heeded(s, errno') BY <1>2, <1>3
<1> QED BY <1>2, <1>3, <1>5, <1>6, <1>7, HeededPush DEF Heard

LEMMA ForksHeard ==
  ASSUME LinesInv, NEW child, NEW pc, Forks(child, pc)
  PROVE  Heard
<1> DEFINE k == Len(stack) + 1
           f == [Top EXCEPT !.pc = pc]
           g == [info |-> info, last |-> last, fcs |-> fcs, errno |-> errno]
           c == [Frame("fork", NULL, LevelOf(f), k) EXCEPT !.saved = g]
           e == Frame("eval", child, LevelOf(f), k)
           s == WithTop(f)
           t == Append(s, c)
<1>1. /\ stack' = Append(t, e) /\ errno' = errno /\ Top.fn = "eval" /\ pc \in Pc
      /\ child \in Trees /\ stack # <<>>
  BY DEF Forks, Fork, globals
<1>2. Replaces(f, stack) BY <1>1, LinesTop, ReplacesTop
<1>3. f.fn # "fork" /\ f \in Frames BY <1>1, <1>2 DEF Replaces, Top
<1>4. /\ WellFormed(s) /\ s # <<>> /\ Apart(s) /\ Len(s) = Len(stack)
      /\ s[Len(s)] = f /\ Heeded(s, errno)
  BY <1>1, <1>2, <1>3, TopBecomes
<1>5. LevelOf(f) \in Nat /\ k \in Nat
  BY <1>1, <1>3, LinesTop, FrameFields
<1>6. g \in Globals
  <2>1. TypeInv BY <1>1, LinesTop
  <2> QED BY <2>1 DEF Globals, GlobalsOK, TypeInv, Trees
<1>7. c \in Frames /\ e \in Frames
  BY <1>1, <1>5, <1>6, NewFrame, NewFork
<1>8. /\ c.fn = "fork" /\ c.base = k /\ c.saved = g /\ c.level = LevelOf(f)
      /\ ~InLoop(c) /\ Fits(c) /\ g.errno = errno
  BY <1>6 DEF Frame, InLoop, Fits
<1>9. e.fn = "eval" /\ e.base = k BY DEF Frame
<1> HIDE DEF f, g, c, e, s
<1>10. k = Len(s) + 1 /\ c.base = Len(s) + 1 /\ Heeded(s, c.saved.errno)
       /\ c.level = LevelOf(s[Len(s)])
  BY <1>4, <1>8
<1>11. t = Append(s, c) OBVIOUS
<1> HIDE DEF t, k
<1>12. Apart(t) /\ \A r : Heeded(t, r)
  BY <1>4, <1>7, <1>8, <1>10, <1>11, HeededFork
<1>13. WellFormed(t) /\ t # <<>>
  BY <1>4, <1>7, <1>8, <1>10, <1>11, WellFormedPush
<1>14. t[Len(t)] = c
  <2>1. s \in Seq(Frames) BY <1>4 DEF WellFormed
  <2> QED BY <1>7, <1>11, <2>1, AppendProperties
<1>15. /\ Heeded(t, errno') /\ e.fn # "fork" /\ e.base = t[Len(t)].base
       /\ e.fn = "script" => ~ScriptOf(t, e.base) /\ errno' # EmptyEOF
  BY <1>8, <1>9, <1>12, <1>14
<1> QED BY <1>1, <1>7, <1>12, <1>13, <1>15, HeededPush DEF Heard

LEMMA ExitsHeard ==
  ASSUME LinesInv, NEW code, Exits(code)
  PROVE  Heard
<1>0. stack # <<>> BY DEF Exits
<1>1. CASE Top.base = 0
  <2>1. stack' = <<>> BY <1>1 DEF Exits, Exit
  <2> QED BY <2>1 DEF Heard, Apart, Heeded
<1>2. CASE Top.base # 0
  <2> DEFINE m == Top.base
  <2>1. m \in 1 .. Len(stack) /\ m > 1 /\ stack[m].fn = "fork"
    BY <1>0, <1>2, LinesTop, TopFacts
  <2>2. stack' = SubSeq(stack, 1, m - 1) /\ errno' = stack[m].saved.errno
    BY <1>2 DEF Exits, Exit
  <2>3. WellFormed(stack) /\ Apart(stack) BY <1>0, LinesTop
  <2>4. \/ stack[m].fn = "fork" /\ errno' = stack[m].saved.errno
        \/ stack[m].fn = "script" /\ m = Len(stack)
        \/ stack[m].fn = "eval" /\ m = Len(stack) /\ Heeded(stack, errno')
    BY <2>1, <2>2
  <2>5. stack' = SubSeq(stack, 1, m - 1) /\ m \in 1 .. Len(stack) /\ m > 1
    BY <2>1, <2>2
  <2> HIDE DEF m
  <2> QED BY <2>3, <2>4, <2>5, HeededCut DEF Heard
<1> QED BY <1>1, <1>2

LEMMA ShapedHeard ==
  ASSUME LinesInv, SourcedApart, Shaped
  PROVE  Heard
  BY LeavesHeard, GoesHeard, CallsHeard, ForksHeard, ExitsHeard DEF Shaped
-----------------------------------------------------------------------------
(* Every action has one of the shapes *)

LEMMA LeaveShaped ==
  ASSUME stack # <<>>, Top.fn = "eval", NEW v, Leave(v), errno' \in {errno, ENOENT}
  PROVE  Shaped
  BY DEF Shaped, Leaves, Leave

LEMMA GoShaped ==
  ASSUME stack # <<>>, NEW f, Replaces(f, stack), f.fn # "fork",
         stack' = WithTop(f), errno' \in {errno, 0}
  PROVE  Shaped
<1>1. Goes(f) BY DEF Goes
<1> QED BY <1>1 DEF Shaped

LEMMA CallShaped ==
  ASSUME stack # <<>>, NEW f, Replaces(f, stack), f.fn # "fork",
         NEW child \in Trees, CallFrom(f, child), errno' \in {errno, 0}
  PROVE  Shaped
<1> DEFINE g == Frame("eval", child, LevelOf(f), f.base)
<1>1. LevelOf(f) \in Nat /\ f.base \in Nat BY FrameFields DEF Replaces
<1>2. g \in Frames BY <1>1, NewFrame
<1>3. g.fn = "eval" /\ g.base = f.base BY DEF Frame
<1>4. stack' = Append(WithTop(f), g) BY DEF CallFrom
<1> HIDE DEF g
<1>5. Calls(f, g) BY <1>2, <1>3, <1>4 DEF Calls
<1> QED BY <1>5 DEF Shaped

LEMMA ForkShaped ==
  ASSUME stack # <<>>, Top.fn = "eval", NEW child \in Trees, NEW pc \in Pc,
         Fork(child, pc)
  PROVE  Shaped
<1>1. Forks(child, pc) BY DEF Forks
<1> QED BY <1>1 DEF Shaped

LEMMA ExitShaped ==
  ASSUME stack # <<>>, NEW code, Exit(code)
  PROVE  Shaped
<1>1. Exits(code) BY DEF Exits
<1> QED BY <1>1 DEF Shaped

LEMMA ResultShaped ==
  ASSUME NEW types, NEW pc, At(types, pc), NEW v, Result(v)
  PROVE  Shaped
<1>1. stack # <<>> /\ Top.fn = "eval" BY DEF At
<1>2. Leave(v) /\ errno' = errno BY DEF Result, Return
<1> QED BY <1>1, <1>2, LeaveShaped

LEMMA ExitAtShaped ==
  ASSUME NEW types, NEW pc, At(types, pc), NEW v, Exit(v)
  PROVE  Shaped
<1>1. stack # <<>> BY DEF At
<1> QED BY <1>1, ExitShaped

\* A tree calls eval_ast() and goes on at pc.
LEMMA CallAtShaped ==
  ASSUME TypeInv, NEW types, types \subseteq AstTypes, NEW pc, At(types, pc),
         NEW child \in Trees, NEW p \in Pc, Call(child, p), errno' = errno
  PROVE  Shaped
<1>1. stack # <<>> /\ Top.fn = "eval" /\ Replaces([Top EXCEPT !.pc = p], stack)
  BY EvalFrames
<1> DEFINE f == [Top EXCEPT !.pc = p]
<1>2. f.fn # "fork" BY <1>1 DEF Replaces, Top
<1>3. CallFrom(f, child) BY DEF Call
<1> HIDE DEF f
<1>4. Replaces(f, stack) BY <1>1 DEF f
<1> QED BY <1>1, <1>2, <1>3, <1>4, CallShaped

\* So does a loop.
LEMMA LoopShaped ==
  ASSUME TypeInv, NEW types, types \subseteq AstTypes, NEW pc, At(types, pc),
         NEW f, Replaces(f, stack), NEW child \in Trees, NEW r,
         EvalInLoop(f, child, r), errno' = errno
  PROVE  Shaped
<1>1. stack # <<>> /\ Top.fn = "eval" BY DEF At
<1>2. f.fn # "fork" BY <1>1 DEF Replaces, Top
<1>3. CallFrom(f, child) BY DEF EvalInLoop
<1> QED BY <1>1, <1>2, <1>3, CallShaped

LEMMA BeginShaped ==
  ASSUME TypeInv, NEW types, types \subseteq HaveOne, Begin(types)
  PROVE  Shaped
<1>1. At(types, "start") /\ Call(Top.node.kids[1], "first") /\ errno' = errno
  BY DEF Begin, Runs, globals
<1>2. types \subseteq AstTypes /\ "first" \in Pc BY DEF HaveOne, Pc
<1>3. Top.node.kids[1] \in Trees BY <1>1, <1>2, NodeFacts
<1> QED BY <1>1, <1>2, <1>3, CallAtShaped

LEMMA SecondShaped ==
  ASSUME TypeInv, NEW types, types \subseteq AstTypes, NEW pc,
         Evaluated(types, pc), NEW child \in Trees, EvalSecond(child)
  PROVE  Shaped
<1>1. At(types, pc) /\ Call(child, "second") /\ errno' = errno /\ "second" \in Pc
  BY DEF Evaluated, Back, EvalSecond, Pc
<1> QED BY <1>1, CallAtShaped

LEMMA ForkAtShaped ==
  ASSUME TypeInv, NEW types, NEW pc, At(types, pc), NEW child \in Trees,
         NEW p \in {"first", "second", "expanding"}, Fork(child, p)
  PROVE  Shaped
<1>1. stack # <<>> /\ Top.fn = "eval" /\ p \in Pc BY DEF At, Pc
<1> QED BY <1>1, ForkShaped

LEMMA ShapedGeneral ==
  ASSUME TypeInv, EvalNull \/ Substitute \/ EvalAstBreaks \/ ChildExits
  PROVE  Shaped
<1>1. CASE EvalNull
  BY <1>1, LeaveShaped DEF EvalNull, globals
<1>2. CASE Runs(AstTypes, "expand") /\ Fork(Top.node.subst, "expanding")
  <2>1. At(AstTypes, "expand") BY <1>2 DEF Runs
  <2>2. Top.node.subst \in Trees BY <2>1, NodeFacts
  <2> QED BY <1>2, <2>1, <2>2, ForkAtShaped
<1>3. CASE /\ Back(AstTypes, "expanding")
           /\ stack' = WithTop([Top EXCEPT !.pc = "start"])
           /\ UNCHANGED <<info, fcs, errno, ended>>
  <2> DEFINE f == [Top EXCEPT !.pc = "start"]
  <2>1. At(AstTypes, "expanding") BY <1>3 DEF Back
  <2>2. stack # <<>> /\ Top.fn = "eval" /\ Replaces(f, stack)
    BY <2>1, EvalFrames DEF Pc
  <2>3. f.fn # "fork" BY <2>2 DEF Replaces, Top
  <2>4. stack' = WithTop(f) /\ errno' = errno BY <1>3
  <2> HIDE DEF f
  <2> QED BY <2>2, <2>3, <2>4, GoShaped
<1>4. CASE EvalAstBreaks
  <2>1. PICK pc : At(EvalAstTypes, pc)
    BY <1>4 DEF EvalAstBreaks, Back
  <2>2. Result(ret) BY <1>4 DEF EvalAstBreaks, Result
  <2> QED BY <2>1, <2>2, ResultShaped
<1>5. CASE ChildExits
  BY <1>5, ExitShaped DEF ChildExits
<1> QED BY <1>1, <1>2, <1>3, <1>4, <1>5 DEF Substitute

LEMMA ShapedTree ==
  ASSUME TypeInv, EvalIf \/ EvalBinary \/ EvalNot \/ EvalCase
  PROVE  Shaped
<1>0. /\ {"AST_IF"} \subseteq HaveOne
      /\ {"AST_NOT"} \subseteq HaveOne
      /\ BinaryTypes \subseteq HaveOne
      /\ {"AST_CASE"} \subseteq AstTypes
      /\ {"AST_IF"} \subseteq AstTypes
      /\ BinaryTypes \subseteq AstTypes /\ BinaryTypes \subseteq HaveTwo
      /\ "AST_IF" \in HaveTwo
  BY DEF HaveOne, HaveTwo, AstTypes, BinaryTypes, LoopTypes
<1>1. ASSUME NEW types, NEW pc, NEW v, Evaluated(types, pc), Result(v) PROVE Shaped
  BY <1>1, ResultShaped DEF Evaluated, Back
<1>2. CASE EvalIf
  <2>1. CASE Begin({"AST_IF"}) BY <2>1, <1>0, BeginShaped
  <2>2. CASE /\ Evaluated({"AST_IF"}, "first")
             /\ EvalSecond(Top.node.kids[IF ret = 0 THEN 2 ELSE 3])
    <3>1. At({"AST_IF"}, "first") BY <2>2 DEF Evaluated, Back
    <3>2. Top.node.type = "AST_IF" BY <3>1 DEF At
    <3>3. Top.node.kids[2] \in Trees /\ Top.node.kids[3] \in Trees
      BY <1>0, <3>1, <3>2, NodeFacts
    <3> QED BY <1>0, <2>2, <3>3, SecondShaped
  <2>3. CASE Evaluated({"AST_IF"}, "second") /\ Result(ret) BY <1>1, <2>3
  <2> QED BY <1>2, <2>1, <2>2, <2>3 DEF EvalIf
<1>3. CASE EvalBinary
  <2>1. CASE Begin(BinaryTypes) BY <2>1, <1>0, BeginShaped
  <2>2. CASE /\ Evaluated(BinaryTypes, "first")
             /\ EvalSecond(Top.node.kids[2])
    <3>1. At(BinaryTypes, "first") BY <2>2 DEF Evaluated, Back
    <3>2. Top.node.kids[2] \in Trees
      BY <1>0, <3>1, NodeFacts
    <3> QED BY <1>0, <2>2, <3>2, SecondShaped
  <2>3. CASE Evaluated(BinaryTypes, "first") /\ Result(ret) BY <1>1, <2>3
  <2>4. CASE Evaluated(BinaryTypes, "second") /\ Result(ret) BY <1>1, <2>4
  <2> QED BY <1>3, <2>1, <2>2, <2>3, <2>4 DEF EvalBinary
<1>4. CASE EvalNot
  <2>1. CASE Begin({"AST_NOT"}) BY <2>1, <1>0, BeginShaped
  <2>2. CASE /\ Evaluated({"AST_NOT"}, "first")
             /\ Result(IF ret = 0 THEN 1 ELSE 0)
    BY <1>1, <2>2
  <2> QED BY <1>4, <2>1, <2>2 DEF EvalNot
<1>5. CASE EvalCase
  <2>1. CASE Runs({"AST_CASE"}, "start") /\ Result(0)
    BY <2>1, ResultShaped DEF Runs
  <2>2. CASE /\ Runs({"AST_CASE"}, "start")
             /\ \E k \in DOMAIN Top.node.kids : Call(Top.node.kids[k], "first")
             /\ UNCHANGED <<globals, ended>>
    <3>1. At({"AST_CASE"}, "start") /\ errno' = errno BY <2>2 DEF Runs, globals
    <3>2. PICK k \in DOMAIN Top.node.kids : Call(Top.node.kids[k], "first")
      BY <2>2
    <3>3. Top.node.kids[k] \in Trees /\ "first" \in Pc BY <1>0, <3>1, NodeFacts DEF Pc
    <3> QED BY <1>0, <3>1, <3>2, <3>3, CallAtShaped
  <2>3. CASE Evaluated({"AST_CASE"}, "first") /\ Result(ret) BY <1>1, <2>3
  <2> QED BY <1>5, <2>1, <2>2, <2>3 DEF EvalCase
<1> QED BY <1>2, <1>3, <1>4, <1>5

LEMMA ShapedChildren ==
  ASSUME TypeInv, EvalCmd \/ EvalFunc \/ EvalSubshell \/ EvalPipe \/ ForkFails
  PROVE  Shaped
<1>1. ASSUME NEW types, NEW pc, NEW v, Runs(types, pc) \/ Back(types, pc), Result(v)
      PROVE  Shaped
  BY <1>1, ResultShaped DEF Runs, Back
<1>2. ASSUME NEW types, NEW pc, NEW v, Runs(types, pc), Exit(v) PROVE Shaped
  BY <1>2, ExitAtShaped DEF Runs
<1>3. ASSUME NEW t \in {"AST_SUBSHELL", "AST_PIPE"}, NEW pc, NEW p \in {"first", "second"},
             Runs({t}, pc) \/ Back({t}, pc), NEW k \in {1, 2}, k = 2 => t = "AST_PIPE",
             Fork(Top.node.kids[k], p)
      PROVE  Shaped
  <2>1. At({t}, pc) BY <1>3 DEF Runs, Back
  <2>2. {t} \subseteq AstTypes /\ Top.node.type = t BY <2>1, Types DEF At
  <2>3. t \in HaveOne /\ (k = 2 => t \in HaveTwo) BY <1>3, Types
  <2>4. Top.node.kids[k] \in Trees BY <2>1, <2>2, <2>3, NodeFacts
  <2> QED BY <1>3, <2>1, <2>4, ForkAtShaped
<1>4. CASE EvalCmd
  <2>1. CASE Begin({"AST_CMD"}) BY <2>1, BeginShaped, Types
  <2>2. CASE Runs({"AST_CMD"}, "start") /\ Result(2) BY <1>1, <2>2
  <2>3. CASE Runs({"AST_CMD"}, "start") /\ Exit(2) BY <1>2, <2>3
  <2>4. CASE Runs({"AST_CMD"}, "start") /\ Exit(127) BY <1>2, <2>4
  <2>5. CASE Back({"AST_CMD"}, "first") /\ Result(ret) BY <1>1, <2>5
  <2> QED BY <1>4, <2>1, <2>2, <2>3, <2>4, <2>5 DEF EvalCmd
<1>5. CASE EvalFunc
  <2>1. stack # <<>> /\ Top.fn = "eval" BY <1>5 DEF EvalFunc, Runs, At
  <2>2. Leave(0) /\ errno' = errno BY <1>5 DEF EvalFunc, Return
  <2> QED BY <2>1, <2>2, LeaveShaped
<1>6. CASE EvalSubshell
  <2>1. CASE Runs({"AST_SUBSHELL"}, "start") /\ Fork(Top.node.kids[1], "first")
    BY <1>3, <2>1
  <2>2. CASE Back({"AST_SUBSHELL"}, "first") /\ Result(ret) BY <1>1, <2>2
  <2> QED BY <1>6, <2>1, <2>2 DEF EvalSubshell
<1>7. CASE EvalPipe
  <2>1. CASE Runs({"AST_PIPE"}, "start") /\ Fork(Top.node.kids[1], "first")
    BY <1>3, <2>1
  <2>2. CASE Back({"AST_PIPE"}, "first") /\ Fork(Top.node.kids[2], "second")
    BY <1>3, <2>2
  <2>3. CASE Back({"AST_PIPE"}, "second") /\ Result(ret) BY <1>1, <2>3
  <2> QED BY <1>7, <2>1, <2>2, <2>3 DEF EvalPipe
<1>8. CASE ForkFails
  <2>1. CASE Runs({"AST_PIPE", "AST_SUBSHELL"}, "start") /\ Exit(2) BY <1>2, <2>1
  <2>2. CASE Runs(AstTypes, "expand") /\ Exit(2) BY <1>2, <2>2
  <2>3. CASE AtCommand("ext") /\ Exit(1) BY <1>2, <2>3 DEF AtCommand
  <2>4. CASE Back({"AST_PIPE"}, "first") /\ Result(1) BY <1>1, <2>4
  <2> QED BY <1>8, <2>1, <2>2, <2>3, <2>4 DEF ForkFails
<1> QED BY <1>4, <1>5, <1>6, <1>7, <1>8

LEMMA ShapedSimple ==
  ASSUME TypeInv, SCmd
  PROVE  Shaped
<1> DEFINE S == {"AST_S_CMD"}
<1>0. S \subseteq AstTypes /\ "first" \in Pc BY Types DEF Pc
<1>1. ASSUME NEW c, AtCommand(c) PROVE At(S, "start")
  BY <1>1 DEF AtCommand, Runs
<1>2. ASSUME NEW c, NEW v, AtCommand(c), Result(v) PROVE Shaped
  BY <1>1, <1>2, ResultShaped
<1>3. ASSUME NEW c, NEW v, AtCommand(c), Exit(v) PROVE Shaped
  BY <1>1, <1>3, ExitAtShaped
<1>4. ASSUME Back(S, "first"), Result(ret) PROVE Shaped
  BY <1>4, ResultShaped DEF Back
<1>5. CASE External \/ Assign BY <1>2, <1>5 DEF External, Assign
<1>6. CASE Cd
  <2>1. stack # <<>> /\ Top.fn = "eval" BY <1>1, <1>6 DEF Cd, At
  <2>2. CASE Result(0) BY <1>2, <1>6, <2>2 DEF Cd
  <2>3. CASE errno' = ENOENT /\ Return(2)
    BY <2>1, <2>3, LeaveShaped DEF Return
  <2> QED BY <1>6, <2>2, <2>3 DEF Cd
<1>7. ASSUME NEW c, NEW type, BreakContinue(c, type) PROVE Shaped
  <2>1. stack # <<>> /\ Top.fn = "eval" /\ AtCommand(c)
    BY <1>1, <1>7 DEF BreakContinue, At
  <2>2. CASE Exit(2) BY <1>3, <2>1, <2>2
  <2>3. CASE Leave(0) /\ errno' = errno BY <2>1, <2>3, LeaveShaped
  <2> QED BY <1>7, <2>2, <2>3 DEF BreakContinue, Return
<1>8. CASE XExit BY <1>3, <1>8 DEF XExit
<1>9. CASE ExecFunc
  <2>1. CASE AtCommand("call") /\ Result(127) BY <1>2, <2>1
  <2>2. CASE AtCommand("call") /\ Call(fcs, "first") /\ UNCHANGED <<globals, ended>>
    <3>1. At(S, "start") /\ errno' = errno BY <1>1, <2>2 DEF globals
    <3>2. fcs \in Trees BY Unmoved
    <3> QED BY <1>0, <2>2, <3>1, <3>2, CallAtShaped
  <2>3. CASE Back(S, "first") /\ Result(ret) BY <1>4, <2>3
  <2> QED BY <1>9, <2>1, <2>2, <2>3 DEF ExecFunc
<1>10. CASE Dot
  <2>1. CASE AtCommand("dot") /\ Exit(Top.node.arg) BY <1>3, <2>1
  <2>2. CASE /\ AtCommand("dot") /\ Top.node.arg = 0
             /\ stack' = Append(WithTop([Top EXCEPT !.pc = "first"]),
                                Frame("script", Sourced, Top.level, Top.base))
             /\ errno' = 0
             /\ UNCHANGED <<ret, info, last, fcs, ended>>
    <3> DEFINE f == [Top EXCEPT !.pc = "first"]
               g == Frame("script", Sourced, Top.level, Top.base)
    <3>1. At(S, "start") BY <1>1, <2>2
    <3>2. /\ stack # <<>> /\ Top.fn = "eval" /\ Replaces(f, stack)
          /\ Top \in Frames
      BY <1>0, <3>1, EvalFrames, TopFacts
    <3>3. f.fn # "fork" /\ f.base = Top.base BY <3>2 DEF Replaces, Top
    <3>4. Sourced \in Scripted BY ScriptAssumption DEF Scripted
    <3>5. g \in Frames BY <3>2, <3>4, NewScript, FrameFields
    <3>6. g.fn = "script" /\ g.base = Top.base BY DEF Frame
    <3>7. stack' = Append(WithTop(f), g) /\ AtCommand("dot") /\ Top.node.arg = 0 /\ errno' = 0
      BY <2>2
    <3> HIDE DEF f, g
    <3>8. Sources(f, g) BY <3>2, <3>3, <3>5, <3>6, <3>7 DEF Sources
    <3> QED BY <3>8 DEF Shaped
  <2>3. CASE Back(S, "first") /\ Result(ret) BY <1>4, <2>3
  <2>4. CASE AtCommand("dot") /\ Result(0) BY <1>2, <2>4
  <2> QED BY <1>10, <2>1, <2>2, <2>3, <2>4 DEF Dot
<1> QED BY <1>5, <1>6, <1>7, <1>8, <1>9, <1>10 DEF SCmd

LEMMA ShapedLoops ==
  ASSUME TypeInv, EvalWhile \/ EvalFor
  PROVE  Shaped
<1>0. /\ While \subseteq AstTypes /\ {"AST_FOR"} \subseteq AstTypes
      /\ "loop_cond" \in Pc /\ "loop_body" \in Pc
  BY Types DEF Pc
<1>1. ASSUME NEW types, NEW pc, At(types, pc), NEW v, Leave(v), errno' = errno
      PROVE  Shaped
  BY <1>1, LeaveShaped DEF At
<1>2. ASSUME NEW pc, At(While, pc)
      PROVE  /\ Top.node.kids[1] \in Trees /\ Top.node.kids[2] \in Trees
             /\ Replaces(Top, stack)
             /\ \A p \in {"loop_cond", "loop_body"} : Replaces([Top EXCEPT !.pc = p], stack)
             /\ \A p \in {"loop_cond", "loop_body"} :
                  ret # NoRet => Replaces([Top EXCEPT !.pc = p, !.res = ret], stack)
  <2>1. Top.node.type \in HaveOne /\ Top.node.type \in HaveTwo
    BY <1>2, Types DEF At
  <2>2. Top.node.kids[1] \in Trees /\ Top.node.kids[2] \in Trees
    BY <1>0, <1>2, <2>1, NodeFacts
  <2>3. ret # NoRet => ret \in 0 .. 255 BY Unmoved
  <2> QED BY <1>0, <1>2, <2>2, <2>3, EvalFrames
<1>3. ASSUME NEW pc, At(While, pc), NEW f, Replaces(f, stack), NEW k \in {1, 2}, NEW r,
             EvalInLoop(f, Top.node.kids[k], r), errno' = errno
      PROVE  Shaped
  <2>1. Top.node.kids[k] \in Trees BY <1>2, <1>3
  <2> QED BY <1>0, <1>3, <2>1, LoopShaped
<1>4. CASE /\ Runs(While, "start")
           /\ EvalInLoop([Top EXCEPT !.pc = "loop_cond"], Top.node.kids[1], info)
           /\ UNCHANGED <<last, fcs, errno, ended>>
  <2>1. At(While, "start") BY <1>4 DEF Runs
  <2>2. Replaces([Top EXCEPT !.pc = "loop_cond"], stack) BY <1>2, <2>1
  <2> QED BY <1>3, <1>4, <2>1, <2>2
<1>5. CASE WhileCondition
  <2>1. At(While, "loop_cond") BY <1>5 DEF WhileCondition, Back
  <2>2. Replaces([Top EXCEPT !.pc = "loop_body"], stack) /\ Replaces(Top, stack)
    BY <1>2, <2>1
  <2>3. errno' = errno BY <1>5 DEF WhileCondition
  <2>4. CASE LoopBroken \/ Return(Top.res)
    BY <1>1, <2>1, <2>3, <2>4 DEF LoopBroken, Return
  <2>5. CASE EvalInLoop(Top, Top.node.kids[1], BCIsDone(info))
    BY <1>3, <2>1, <2>2, <2>3, <2>5
  <2>6. CASE EvalInLoop([Top EXCEPT !.pc = "loop_body"], Top.node.kids[2], BCIsDone(info))
    BY <1>3, <2>1, <2>2, <2>3, <2>6
  <2> QED BY <1>5, <2>4, <2>5, <2>6 DEF WhileCondition
<1>6. CASE WhileBody
  <2>1. At(While, "loop_body") /\ ret # NoRet /\ errno' = errno
    BY <1>6 DEF WhileBody, Back
  <2>2. Replaces([Top EXCEPT !.pc = "loop_cond", !.res = ret], stack)
    BY <1>2, <2>1
  <2>3. CASE LoopBroken
    BY <1>1, <2>1, <2>3 DEF LoopBroken
  <2>4. CASE EvalInLoop([Top EXCEPT !.pc = "loop_cond", !.res = ret], Top.node.kids[1],
                        BCIsDone(info))
    BY <1>3, <2>1, <2>2, <2>4
  <2> QED BY <1>6, <2>3, <2>4 DEF WhileBody
<1> DEFINE F == {"AST_FOR"}
<1>7. ASSUME NEW pc, At(F, pc)
      PROVE  /\ Top.node.kids[1] \in Trees
             /\ Replaces([Top EXCEPT !.pc = "loop_body"], stack)
             /\ ret # NoRet => Replaces([Top EXCEPT !.i = @ + 1, !.res = ret], stack)
  <2>1. Top.node.type \in HaveOne BY <1>7, Types DEF At
  <2>2. Top.node.kids[1] \in Trees BY <1>0, <1>7, <2>1, NodeFacts
  <2>3. ret # NoRet => ret \in 0 .. 255 BY Unmoved
  <2> QED BY <1>0, <1>7, <2>2, <2>3, EvalFrames
<1>8. CASE EvalFor
  <2>1. CASE Runs(F, "start") /\ Result(0) BY <2>1, ResultShaped DEF Runs
  <2>2. CASE /\ Runs(F, "start")
             /\ EvalInLoop([Top EXCEPT !.pc = "loop_body"], Top.node.kids[1], info)
             /\ UNCHANGED <<last, fcs, errno, ended>>
    <3>1. At(F, "start") BY <2>2 DEF Runs
    <3>2. Top.node.kids[1] \in Trees /\ Replaces([Top EXCEPT !.pc = "loop_body"], stack)
      BY <1>7, <3>1
    <3> QED BY <1>0, <2>2, <3>1, <3>2, LoopShaped
  <2>3. CASE /\ Back(F, "loop_body")
             /\ \/ LoopBroken
                \/ EvalInLoop([Top EXCEPT !.i = @ + 1, !.res = ret],
                              Top.node.kids[1], BCIsDone(info))
                \/ Return(ret)
             /\ UNCHANGED <<fcs, errno, ended>>
    <3>1. At(F, "loop_body") /\ ret # NoRet /\ errno' = errno BY <2>3 DEF Back
    <3>2. /\ Top.node.kids[1] \in Trees
          /\ Replaces([Top EXCEPT !.i = @ + 1, !.res = ret], stack)
      BY <1>7, <3>1
    <3>3. CASE LoopBroken \/ Return(ret)
      BY <1>1, <3>1, <3>3 DEF LoopBroken, Return
    <3>4. CASE EvalInLoop([Top EXCEPT !.i = @ + 1, !.res = ret],
                          Top.node.kids[1], BCIsDone(info))
      BY <1>0, <3>1, <3>2, <3>4, LoopShaped
    <3> QED BY <2>3, <3>3, <3>4
  <2> QED BY <1>8, <2>1, <2>2, <2>3 DEF EvalFor
<1> QED BY <1>4, <1>5, <1>6, <1>8 DEF EvalWhile

LEMMA ShapedScript ==
  ASSUME TypeInv, ExecScript
  PROVE  Shaped
<1>0. AtScript /\ stack # <<>> /\ Top.fn = "script"
  BY DEF ExecScript, NextLine, LineDone, AtScript
<1>1. /\ Top.node \in Scripted /\ Top.i \in Nat \ {0} /\ Len(stack) \in Nat \ {0}
  BY <1>0, TopFacts, FrameFields DEF Fits
<1> DEFINE next == [Top EXCEPT !.i = @ + 1]
<1>2. Replaces(next, stack) /\ next.fn # "fork"
  <2>1. Replaces(next, stack) BY <1>0, ReplacesTop
  <2> QED BY <1>0, <2>1 DEF Replaces, Top
<1>3. CASE ScriptEnds(Top.res)
  <2>1. CASE Len(stack) = 1
    BY <1>0, <1>3, <2>1, ExitShaped DEF ScriptEnds
  <2>2. CASE Len(stack) # 1
    <3>1. stack' = Popped /\ errno' = EmptyEOF BY <1>3, <2>2 DEF ScriptEnds, Leave
    <3> DEFINE n == Len(stack)
    <3>2. n \in Nat \ {0} /\ n # 1 BY <1>1, <2>2
    <3>3. n > 1
      <4> HIDE DEF n
      <4> QED BY <3>2
    <3> QED BY <1>0, <3>1, <3>3 DEF Shaped, Ends
  <2> QED BY <2>1, <2>2
<1>4. CASE Exit(2) BY <1>0, <1>4, ExitShaped
<1>5. CASE stack' = WithTop(next) /\ errno' = 0
  <2> HIDE DEF next
  <2> QED BY <1>0, <1>2, <1>5, GoShaped
<1>6. CASE /\ Top.i <= Len(Lines) /\ Lines[Top.i] \notin {NULL, BadLine}
           /\ CallFrom(next, Lines[Top.i])
           /\ errno' = 0
  <2>1. Lines \in Seq(Node \cup {NULL, BadLine}) BY <1>1 DEF Lines, Scripted
  <2>2. Top.i \in 1 .. Len(Lines) BY <1>1, <1>6, <2>1, LenProperties
  <2>3. Lines[Top.i] \in Node \cup {NULL, BadLine}
    BY <2>1, <2>2, ElementOfSeq
  <2>4. Lines[Top.i] \in Trees BY <1>6, <2>3 DEF Trees
  <2> HIDE DEF next
  <2> QED BY <1>0, <1>2, <1>6, <2>4, CallShaped
<1>7. CASE LineDone
  <2> DEFINE f == [Top EXCEPT !.res = ret]
  <2>1. stack' = WithTop(f) /\ errno' = errno /\ ret # NoRet
    BY <1>7 DEF LineDone, globals
  <2>2. ret \in 0 .. 255 BY <2>1, Unmoved
  <2>3. Replaces(f, stack) BY <1>0, <2>2, ReplacesTop
  <2>4. f.fn # "fork" BY <1>0, <2>3 DEF Replaces, Top
  <2> HIDE DEF f
  <2> QED BY <1>0, <2>1, <2>3, <2>4, GoShaped
<1> QED BY <1>3, <1>4, <1>5, <1>6, <1>7 DEF ExecScript, NextLine

LEMMA StepShaped ==
  ASSUME TypeInv, Step
  PROVE  Shaped
  BY ShapedGeneral, ShapedTree, ShapedChildren, ShapedSimple, ShapedLoops, ShapedScript
  DEF Step, Tree
-----------------------------------------------------------------------------
LEMMA InitLines == Init => LinesInv
<1> SUFFICES ASSUME Init PROVE LinesInv OBVIOUS
<1>1. PICK s \in Scripts : stack = <<Frame("script", s, 0, 0)>> BY DEF Init
<1> DEFINE f == Frame("script", s, 0, 0)
<1>2. f.base = 0 BY DEF Frame
<1> HIDE DEF f
<1>3. stack = <<f>> BY <1>1 DEF f
<1>4. Len(stack) = 1 /\ stack[1] = f BY <1>3
<1>5. \A j \in 1 .. Len(stack) : j = 1 BY <1>4
<1>6. 1 .. Len(stack) - 1 = {} BY <1>4
<1>7. \A j, k \in 1 .. Len(stack) : j <= k => stack[j].base <= stack[k].base
  BY <1>2, <1>4, <1>5
<1>8. Apart(stack) BY <1>5, <1>6, <1>7 DEF Apart
<1>9. Heeded(stack, errno) BY DEF Init, Heeded, EmptyEOF
<1> QED BY <1>8, <1>9, InitTyped DEF LinesInv

LEMMA StepLines == LinesInv /\ SourcedApart /\ [Next]_vars => LinesInv'
<1> SUFFICES ASSUME LinesInv, SourcedApart, [Next]_vars PROVE LinesInv' OBVIOUS
<1>1. TypeInv' BY StepTyped DEF LinesInv
<1>2. CASE UNCHANGED vars
  <2>1. stack' = stack /\ errno' = errno BY <1>2 DEF vars
  <2>2. Apart(stack') /\ Heeded(stack', errno') BY <2>1 DEF LinesInv
  <2> QED BY <1>1, <2>2 DEF LinesInv
<1>3. CASE Step
  <2>1. Heard BY <1>3, StepShaped, ShapedHeard DEF LinesInv
  <2> QED BY <1>1, <2>1 DEF LinesInv, Heard
<1> QED BY <1>2, <1>3 DEF Next, Terminated

LEMMA LinesStep ==
  ASSUME LinesInv, [Next]_vars, AtScript, ret = NoRet, Top.i <= Len(Lines),
         Len(stack') < Len(stack)
  PROVE  Lines[Top.i] = BadLine
<1>0. stack # <<>> /\ Top.fn = "script" BY DEF AtScript
<1>1. Len(stack) \in Nat \ {0} /\ Len(stack) \in 1 .. Len(stack) /\ Heeded(stack, errno)
      /\ Top = stack[Len(stack)] /\ TypeInv
  BY <1>0, LinesTop
<1>2. errno # EmptyEOF
  BY <1>0, <1>1 DEF Heeded, ScriptOf
<1>3. stack' # stack BY <1>1
<1>4. Step BY <1>3 DEF Next, Terminated, vars
<1>5. NextLine
  BY <1>0, <1>4
  DEF Step, Tree, SCmd, EvalNull, Substitute, EvalAstBreaks, ChildExits, ForkFails, ExecScript,
      EvalIf, EvalBinary, EvalNot, EvalCase, EvalCmd, EvalFunc, EvalSubshell, EvalPipe,
      EvalWhile, EvalFor, Begin, Evaluated, WhileCondition, WhileBody,
      External, Assign, Cd, XExit, ExecFunc, Dot, BreakContinue,
      LineDone, Runs, Back, At, AtCommand
<1>6. Top.i \in Nat /\ Len(Lines) \in Nat /\ ~(Top.i > Len(Lines))
  <2>1. Top.i \in Nat /\ Top.node \in Scripted BY <1>0, <1>1, TopFacts, FrameFields DEF Fits
  <2>2. Len(Lines) \in Nat BY <2>1, LenProperties DEF Lines, Scripted
  <2> QED BY <2>1, <2>2
<1>7. ASSUME NEW f, NEW child, CallFrom(f, child) \/ stack' = WithTop(f), Replaces(f, stack),
             child \in Trees
      PROVE  FALSE
  <2>1. WithTop(f) \in Seq(Frames) /\ Len(WithTop(f)) = Len(stack)
    BY <1>0, <1>1, <1>7, WellFormedSet DEF WithTop, TypeInv, WellFormed
  <2>2. CASE stack' = WithTop(f) BY <1>1, <2>1, <2>2
  <2>3. CASE CallFrom(f, child)
    <3> DEFINE g == Frame("eval", child, LevelOf(f), f.base)
    <3>1. g \in Frames BY <1>7, NewFrame, FrameFields DEF Replaces
    <3>2. stack' = Append(WithTop(f), g) BY <2>3 DEF CallFrom
    <3>3. Len(stack') = Len(stack) + 1 BY <2>1, <3>1, <3>2, AppendProperties
    <3> QED BY <1>1, <3>3
  <2> QED BY <1>7, <2>2, <2>3
<1>8. Replaces([Top EXCEPT !.i = @ + 1], stack) BY <1>0, <1>1, ReplacesTop
<1>9. NULL \in Trees BY DEF Trees
<1>10. Lines[Top.i] # BadLine => Lines[Top.i] \in Trees
  <2>1. Top.i \in Nat \ {0} /\ Top.node \in Scripted BY <1>0, <1>1, TopFacts, FrameFields DEF Fits
  <2>2. Lines \in Seq(Node \cup {NULL, BadLine}) /\ Top.i \in 1 .. Len(Lines)
    BY <1>6, <2>1 DEF Lines, Scripted
  <2>3. Lines[Top.i] \in Node \cup {NULL, BadLine}
    BY <2>2, ElementOfSeq
  <2> QED BY <2>3 DEF Trees
<1> QED BY <1>2, <1>5, <1>6, <1>7, <1>8, <1>9, <1>10 DEF NextLine

\* exec_script() executes every line of every script up to one that does not
\* parse, as long as files are sourced only in processes of their own: what the
\* commands of a line leave in errno, a failing cd among them, never ends the
\* loop of lines early.
THEOREM EveryLineRuns == Spec /\ []SourcedApart => AllLinesRun
<1>1. Init => LinesInv BY InitLines
<1>2. LinesInv /\ SourcedApart /\ [Next]_vars => LinesInv' BY StepLines
<1>3. LinesInv /\ [Next]_vars =>
        [AtScript /\ ret = NoRet /\ Top.i <= Len(Lines) /\ Len(stack') < Len(stack)
           => Lines[Top.i] = BadLine]_vars
  BY LinesStep
<1> QED BY <1>1, <1>2, <1>3, PTL DEF Spec, AllLinesRun
=============================================================================
