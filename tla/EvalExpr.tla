------------------------------- MODULE EvalExpr -------------------------------
(***************************************************************************)
(* Arithmetic expansion (evalexpr/): launch_evalexpr() replaces the names  *)
(* in the text between $(( and )), checks it, splits it into a tree and    *)
(* evaluates the tree.  The text grows character by character, so that a   *)
(* run covers every text of up to MaxLength characters; what its value     *)
(* should be is defined from the grammar.                                  *)
(***************************************************************************)
EXTENDS Integers, Sequences, SequencesExt

CONSTANTS
  Alphabets,  \* sets of characters: a text is made of the ones of one set
  MaxLength,  \* bound: the length of a text
  Variable,   \* the name of the variable that is set, a sequence of letters
  Text,       \* its value, a sequence of characters
  IntWidth    \* the bits of an int

VARIABLE line

Digits == {"0", "1", "2", "3", "4", "5", "6", "7", "8", "9"}
Letters == {"i", "j"}

ASSUME EvalExprAssumption ==
  /\ UNION Alphabets \subseteq Digits \cup Letters \cup
       {"+", "-", "/", "*", "%", "^", "(", ")", " "}
  /\ MaxLength \in Nat /\ IntWidth \in Nat \ {0}
  /\ Variable \in Seq(Letters) /\ Text \in Seq(Digits \cup {"-"})

\* What the arithmetic of the machine makes of an integer.
Wrap(n) == LET half == 2 ^ (IntWidth - 1)
           IN ((n + half) % (2 * half)) - half

\* Division as in C: the quotient is rounded towards 0.
Sign(n) == IF n < 0 THEN -1 ELSE 1
Magnitude(n) == Sign(n) * n
Quotient(m, n) == Sign(m) * Sign(n) * (Magnitude(m) \div Magnitude(n))
Remainder(m, n) == m - n * Quotient(m, n)

\* myPow(): x times itself, y times; a negative exponent is one of 0.
MyPow(x, y) ==
  LET pow[k \in Nat] ==
        LET half == pow[k \div 2]
        IN IF k = 0 THEN 1
           ELSE Wrap(Wrap(half * half) * IF k % 2 = 1 THEN x ELSE 1)
  IN pow[IF y < 0 THEN 0 ELSE y]

Apply(op, m, n) ==
  CASE op = "+" -> Wrap(m + n)
    [] op = "-" -> Wrap(m - n)
    [] op = "*" -> Wrap(m * n)
    [] op = "/" -> Wrap(Quotient(m, n))
    [] op = "%" -> Remainder(m, n)
    [] op = "^" -> MyPow(m, n)

\* atoi() of a text of digits.
Atoi(s) ==
  LET digit == [c \in Digits |-> CHOOSE n \in 0 .. 9 : ToString(n) = c]
  IN Wrap(FoldLeft(LAMBDA n, c : 10 * n + digit[c], 0, s))
-----------------------------------------------------------------------------
(* Checking and rewriting the text *)

\* adapt(): each run of letters gives way to the value of the variable it
\* names, or to 0 when that is empty.
RunTo(s, k) ==
  LET start == CHOOSE b \in 1 .. k :
        /\ \A m \in b .. k : s[m] \in Letters
        /\ b = 1 \/ s[b - 1] \notin Letters
  IN SubSeq(s, start, k)

Adapt(s) ==
  FlattenSeq([k \in 1 .. Len(s) |->
    IF s[k] \notin Letters THEN <<s[k]>>
    ELSE IF k < Len(s) /\ s[k + 1] \in Letters THEN <<>>
    ELSE IF RunTo(s, k) = Variable /\ Text # <<>> THEN Text
    ELSE <<"0">>])

\* verifSpaces(): two numbers with nothing but space between them.
NumbersTouch(s) ==
  \E b, e \in 1 .. Len(s) :
    /\ b + 1 < e /\ s[b] \in Digits /\ s[e] \in Digits
    /\ \A k \in b + 1 .. e - 1 : s[k] = " "

\* valid()
WithoutSpace(s) == SelectSeq(s, LAMBDA c : c # " ")

Count(s, c) == Len(SelectSeq(s, LAMBDA d : d = c))
Depth(s, k) == Count(SubSeq(s, 1, k), "(") - Count(SubSeq(s, 1, k), ")")

\* validchar(), the space left out.
ValidChar(c, c2) == c = c2 \/ c \in Digits

\* fullCheck() and the test of the length that follows it.
FullCheck(s) ==
  /\ \A k \in 1 .. Len(s) :
       /\ s[k] = "(" /\ k > 1 => ~ValidChar(s[k - 1], ")")
       /\ s[k] = ")" /\ k < Len(s) => ~ValidChar(s[k + 1], "(")
       /\ Depth(s, k) >= 0
  /\ Depth(s, Len(s)) = 0
  /\ s # <<>>
-----------------------------------------------------------------------------
(* The tree *)

\* operators, without the parentheses: two signs come twice, first as binary
\* operators, then as unary ones.
Operators == <<"+", "-", "/", "*", "%", "^", "-", "+">>

Number(n) == [type |-> "NUMBER", value |-> n]
Node(op, left, right) == [type |-> op, left |-> left, right |-> right]
Nothing == [type |-> "NULL"]
SyntaxError == [type |-> "error"]

\* Where operator number i may split s: outside parentheses, and, for the
\* binary signs, behind an operand.
SplitsAnywhere(s, i) ==
  {k \in 1 .. Len(s) : s[k] = Operators[i] /\ Depth(s, k) = 0}

Splits(s, i) ==
  {k \in SplitsAnywhere(s, i) : i <= 2 => k > 1 /\ ValidChar(s[k - 1], ")")}

Smallest(S) == CHOOSE k \in S : \A m \in S : k <= m
Greatest(S) == CHOOSE k \in S : \A m \in S : k >= m

\* A plausible bug: every operator is looked for from the left.
SplitAtFirst(s, i) == Smallest(Splits(s, i))

\* The first five operators are looked for from the end, the others from the
\* start.
SplitAt(s, i) == IF i <= 5 THEN Greatest(Splits(s, i)) ELSE Smallest(Splits(s, i))

\* build_r(): the operator that comes first in Operators splits the text.
RECURSIVE BuildR(_)
BuildR(s) ==
  LET found == {i \in DOMAIN Operators : Splits(s, i) # {}}
      i == Smallest(found)
      k == SplitAt(s, i)
  IN  IF s = <<>> THEN SyntaxError
      ELSE IF found # {}
      THEN Node(Operators[i],
                IF i <= 6 THEN BuildR(SubSeq(s, 1, k - 1)) ELSE Nothing,
                BuildR(SubSeq(s, k + 1, Len(s))))
      ELSE IF s[1] = "(" THEN BuildR(SubSeq(s, 2, Len(s) - 1))
      ELSE Number(Atoi(s))

\* A missing operand exits the shell when it is met; where in the tree that is
\* makes no difference.
RECURSIVE HasError(_)
HasError(tree) ==
  \/ tree.type = "error"
  \/ tree.type \in Range(Operators) /\ (HasError(tree.left) \/ HasError(tree.right))

\* expr_evaluate(): the values of tree, none when it divides by 0.
RECURSIVE ExprEvaluate(_)
ExprEvaluate(tree) ==
  CASE tree.type = "NULL" -> {0}
    [] tree.type = "NUMBER" -> {tree.value}
    [] OTHER ->
         {Apply(tree.type, m, n) :
            m \in ExprEvaluate(tree.left),
            n \in ExprEvaluate(tree.right)
                  \ (IF tree.type \in {"/", "%"} THEN {0} ELSE {})}

\* launch_evalexpr() as far as the tree.  An error exits the shell.
Checked(s) == ~NumbersTouch(s) /\ FullCheck(WithoutSpace(s))

Tree(s) == IF Checked(s) THEN BuildR(WithoutSpace(s)) ELSE SyntaxError

LaunchEvalexpr(s) ==
  LET tree == Tree(Adapt(s))
  IN IF HasError(tree) THEN {} ELSE ExprEvaluate(tree)
-----------------------------------------------------------------------------
(* The grammar, with the value of each phrase:                             *)
(*   sum     ::= product | sum ("+" | "-") product                         *)
(*   product ::= power | product ("*" | "/" | "%") power                   *)
(*   power   ::= unary | unary "^" power                                   *)
(*   unary   ::= operand | ("+" | "-") unary                               *)
(*   operand ::= digits | name | "(" sum ")"                               *)
(* A phrase has no value in the set only when it divides by 0; a text that *)
(* is no phrase has the value "none".                                      *)

Phrase(values) == [is |-> TRUE, values |-> values]
NoPhrase == [is |-> FALSE, values |-> {}]

Before(s, k) == SubSeq(s, 1, k - 1)
Behind(s, k) == SubSeq(s, k + 1, Len(s))

Both(op, p, q) ==
  Phrase({Apply(op, m, n) : m \in p.values,
          n \in q.values \ (IF op \in {"/", "%"} THEN {0} ELSE {})})

\* The phrase that P and Q make of s with one of ops between them, or alone.
Split(s, ops, P(_), Q(_), alone) ==
  LET at == {k \in 1 .. Len(s) :
               s[k] \in ops /\ P(Before(s, k)).is /\ Q(Behind(s, k)).is}
  IN IF at # {}
     THEN LET k == Smallest(at) IN Both(s[k], P(Before(s, k)), Q(Behind(s, k)))
     ELSE alone

RECURSIVE Sum(_), Product(_), Power(_), Unary(_)

Operand(s) ==
  IF s # <<>> /\ (\A k \in 1 .. Len(s) : s[k] \in Digits) THEN Phrase({Atoi(s)})
  ELSE IF s # <<>> /\ (\A k \in 1 .. Len(s) : s[k] \in Letters)
  THEN Phrase({IF s = Variable /\ Text # <<>>
               THEN IF Text[1] = "-" THEN Wrap(-Atoi(Tail(Text))) ELSE Atoi(Text)
               ELSE 0})
  ELSE IF Len(s) > 2 /\ s[1] = "(" /\ s[Len(s)] = ")"
  THEN Sum(SubSeq(s, 2, Len(s) - 1))
  ELSE NoPhrase

Unary(s) ==
  IF s # <<>> /\ s[1] \in {"+", "-"}
  THEN IF Unary(Tail(s)).is THEN Both(s[1], Phrase({0}), Unary(Tail(s))) ELSE NoPhrase
  ELSE Operand(s)

Power(s) == Split(s, {"^"}, Unary, Power, Unary(s))
Product(s) == Split(s, {"*", "/", "%"}, Product, Power, Power(s))
Sum(s) == Split(s, {"+", "-"}, Sum, Product, Product(s))

\* Numbers and names do not run on over a space.
Word == Digits \cup Letters
Blanks(s) ==
  \E b, e \in 1 .. Len(s) :
    /\ b + 1 < e /\ s[b] \in Word /\ s[e] \in Word
    /\ \A k \in b + 1 .. e - 1 : s[k] = " "

Expression(s) == IF Blanks(s) THEN NoPhrase ELSE Sum(WithoutSpace(s))
-----------------------------------------------------------------------------
Init == line = <<>>

Next == /\ Len(line) < MaxLength
        /\ \E alphabet \in Alphabets, c \in UNION Alphabets :
             /\ {c} \cup ToSet(line) \subseteq alphabet
             /\ line' = Append(line, c)

Spec == Init /\ [][Next]_line
-----------------------------------------------------------------------------
(* Properties *)

\* A name with a digit in it: the shell's lexer would take it for one word, and
\* the grammar above leaves it out.
NameGoesOn ==
  \E k \in 1 .. Len(line) - 1 : line[k] \in Letters /\ line[k + 1] \in Digits

\* A name right behind an operand.
NameFollowsOperand ==
  \E b, e \in 1 .. Len(line) :
    /\ b < e /\ line[e] \in Letters
    /\ line[b] \in Digits \cup {")"} \/ (line[b] \in Letters /\ b + 1 < e)
    /\ \A k \in b + 1 .. e - 1 : line[k] = " "

Refused == HasError(Tree(Adapt(line)))

\* A text is refused exactly when it is no expression, whatever signs, spaces
\* and parentheses it holds, as long as each name stands apart.
SyntaxChecked ==
  ~NameGoesOn /\ ~NameFollowsOperand => (Refused <=> ~Expression(line).is)

\* Two different operators among * / and % outside parentheses.
MixesProducts ==
  \E j, k \in 1 .. Len(line) :
    line[j] \in {"*", "/", "%"} /\ line[k] \in {"*", "/", "%"} \ {line[j]}

\* The value of an expression is the one its grammar gives it, when no product
\* mixes operators.
ValueIsRight ==
  Expression(line).is /\ ~MixesProducts
    => LaunchEvalexpr(line) = Expression(line).values
=============================================================================
