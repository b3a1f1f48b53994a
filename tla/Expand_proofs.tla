----------------------------- MODULE Expand_proofs -----------------------------
(***************************************************************************)
(* Proofs about word expansion, for any IFS, any text and any tokens: what *)
(* my_strsep() makes of a value, and where the cursors of get_word() are.  *)
(***************************************************************************)
EXTENDS Expand, SequenceTheorems, WellFoundedInduction, TLAPS

-----------------------------------------------------------------------------
(***************************************************************************)
(* Numbers                                                                 *)
(***************************************************************************)
LEMMA Smallest ==
  ASSUME NEW S, S \subseteq Nat, S # {}
  PROVE  \E n \in S : \A m \in S : n <= m
<1>1. PICK n \in S : \A m \in S : <<m, n>> \notin OpToRel(<, Nat)
  BY NatLessThanWellFounded, WFMin, Zenon
<1>2. \A m \in S : ~(m < n)
  BY <1>1, Zenon DEF OpToRel
<1>3. \A m \in S : n <= m
  BY <1>2
<1> QED BY <1>3

\* A set of numbers that holds 0 and, with every number, the next one holds all.
LEMMA Induct ==
  ASSUME NEW S, S \subseteq Nat, 0 \in S, \A n \in S : n + 1 \in S
  PROVE  \A n \in Nat : n \in S
<1> DEFINE T == Nat \ S
<1>1. SUFFICES ASSUME T # {} PROVE FALSE
  OBVIOUS
<1>2. PICK n \in T : \A m \in T : n <= m
  BY <1>1, Smallest
<1>3. n \in Nat /\ n # 0 /\ n - 1 \in Nat
  OBVIOUS
<1>4. n - 1 \in S
  BY <1>2, <1>3
<1>5. (n - 1) + 1 \in S /\ (n - 1) + 1 = n
  BY <1>3, <1>4
<1> QED BY <1>5

-----------------------------------------------------------------------------
(***************************************************************************)
(* One word of a text                                                      *)
(***************************************************************************)
LEMMA WordEndFacts ==
  ASSUME NEW S, NEW s \in Seq(S)
  PROVE  /\ WordEnd(s) \in 0 .. Len(s)
         /\ \A m \in 1 .. WordEnd(s) : s[m] \notin Ifs
         /\ WordEnd(s) < Len(s) => s[WordEnd(s) + 1] \in Ifs
<1> DEFINE OK(k) == /\ \A m \in 1 .. k : s[m] \notin Ifs
                    /\ k = Len(s) \/ s[k + 1] \in Ifs
           T == {k \in 0 .. Len(s) : k = Len(s) \/ s[k + 1] \in Ifs}
<1>1. Len(s) \in Nat /\ Len(s) \in T /\ T \subseteq Nat
  OBVIOUS
<1> HIDE DEF T
<1>2. PICK k \in T : \A m \in T : k <= m
  BY <1>1, Smallest
<1>3. ASSUME NEW m \in 1 .. k PROVE s[m] \notin Ifs
  <2>1. k \in 0 .. Len(s)
    BY DEF T
  <2>2. PICK l \in Nat : l + 1 = m
    BY <2>1
  <2>3. l \in 0 .. Len(s) /\ l < k
    BY <1>1, <2>1, <2>2
  <2>4. l \notin T
    BY <1>1, <1>2, <2>1, <2>3
  <2> QED BY <2>2, <2>3, <2>4 DEF T
<1>4. k \in 0 .. Len(s) /\ OK(k)
  BY <1>3 DEF T
<1>5. WordEnd(s) = CHOOSE n \in 0 .. Len(s) : OK(n)
  BY DEF WordEnd
<1> HIDE DEF OK
<1>6. WordEnd(s) \in 0 .. Len(s) /\ OK(WordEnd(s))
  BY <1>4, <1>5
<1> QED BY <1>1, <1>6 DEF OK

\* What is skipped is in IFS.
LEMMA SkipFacts ==
  ASSUME NEW S, NEW s \in Seq(S), NEW k \in 1 .. Len(s)
  PROVE  /\ Skip(s, k) \in k + 1 .. Len(s) + 1
         /\ \A l \in k + 1 .. Skip(s, k) - 1 : s[l] \in Ifs
<1> DEFINE solid(n) == {l \in k .. n : s[l] \notin Whitespace}
           goes(n) == InIfs(s, n) /\ (s[n] \in Whitespace \/ solid(n - 1) = {})
           OK(m) == (\A l \in k + 1 .. m - 1 : goes(l)) /\ ~goes(m)
           T == {m \in k + 1 .. Len(s) + 1 : ~goes(m)}
<1>1. \A n : goes(n) => n <= Len(s) /\ s[n] \in Ifs
  BY DEF InIfs
<1>2. Skip(s, k) = CHOOSE m \in k + 1 .. Len(s) + 1 : OK(m)
  BY DEF Skip
<1> HIDE DEF goes
<1>3. Len(s) \in Nat /\ k \in Nat /\ Len(s) + 1 \in T /\ T \subseteq Nat
  BY <1>1
<1> HIDE DEF T
<1>4. PICK m \in T : \A l \in T : m <= l
  BY <1>3, Smallest
<1>5. m \in k + 1 .. Len(s) + 1 /\ ~goes(m)
  BY DEF T
<1>6. ASSUME NEW l \in k + 1 .. m - 1 PROVE goes(l)
  <2>1. l \in k + 1 .. Len(s) + 1 /\ l < m
    BY <1>3, <1>5
  <2>2. l \notin T
    BY <1>3, <1>4, <1>5, <2>1
  <2> QED BY <2>1, <2>2 DEF T
<1>7. OK(m)
  BY <1>5, <1>6
<1> HIDE DEF OK
<1>8. Skip(s, k) \in k + 1 .. Len(s) + 1 /\ OK(Skip(s, k))
  BY <1>2, <1>5, <1>7
<1>9. \A l \in k + 1 .. Skip(s, k) - 1 : goes(l)
  BY <1>8 DEF OK
<1> QED BY <1>1, <1>8, <1>9

\* The text r is what is left of s behind its first e characters, which are in no
\* field separator, and d more, which are in IFS; d is 0 only at the end of s.
Dropped(s, e, d, r) ==
  /\ e \in Nat /\ d \in Nat /\ e + d <= Len(s) /\ Len(r) = Len(s) - e - d
  /\ \A k \in 1 .. Len(r) : r[k] = s[e + d + k]
  /\ \A k \in e + 1 .. e + d : s[k] \in Ifs
  /\ e < Len(s) => d >= 1

LEMMA RestFacts ==
  ASSUME NEW S, NEW s \in Seq(S)
  PROVE  Rest(s) \in Seq(S) /\ \E d : Dropped(s, WordEnd(s), d, Rest(s))
<1> DEFINE e == WordEnd(s)
<1>1. Len(s) \in Nat /\ e \in 0 .. Len(s) /\ (e < Len(s) => s[e + 1] \in Ifs)
  BY WordEndFacts
<1>2. Rest(s) = IF e = Len(s) THEN <<>> ELSE SubSeq(s, Skip(s, e + 1), Len(s))
  BY DEF Rest, From
<1> HIDE DEF e
<1>3. CASE e = Len(s)
  <2>1. Rest(s) = <<>>
    BY <1>2, <1>3
  <2>2. Dropped(s, e, 0, <<>>)
    BY <1>1, <1>3 DEF Dropped
  <2> QED BY <2>1, <2>2 DEF e
<1>4. CASE e < Len(s)
  <2>1. PICK k \in 1 .. Len(s) : k = e + 1
    BY <1>1, <1>4
  <2>2. PICK m : m = Skip(s, k)
    OBVIOUS
  <2>3. m \in k + 1 .. Len(s) + 1 /\ \A l \in k + 1 .. m - 1 : s[l] \in Ifs
    BY <2>2, SkipFacts
  <2>4. m \in Int /\ Len(s) \in Int /\ \A l \in m .. Len(s) : s[l] \in S
    BY <1>1, <2>1, <2>3
  <2> DEFINE r == SubSeq(s, m, Len(s))
  <2>5. /\ r \in Seq(S) /\ Len(r) = (IF m <= Len(s) THEN Len(s) - m + 1 ELSE 0)
        /\ \A l \in 1 .. Len(s) - m + 1 : r[l] = s[m + l - 1]
    BY <2>4, SubSeqProperties
  <2>6. Rest(s) = r
    <3>1. e # Len(s)
      BY <1>1, <1>4
    <3> QED BY <1>2, <2>1, <2>2, <3>1
  <2> HIDE DEF r
  <2>12. e \in Nat /\ k \in Nat /\ m \in Nat /\ m >= k + 1 /\ m <= Len(s) + 1
    BY <1>1, <2>3
  <2>7. PICK d \in Nat : d = m - 1 - e
    BY <2>1, <2>12
  <2>8. d >= 1 /\ e + d <= Len(s) /\ Len(r) = Len(s) - e - d
    <3>1. Len(r) = Len(s) - m + 1
      <4>1. CASE m <= Len(s)
        BY <2>5, <4>1
      <4>2. CASE m = Len(s) + 1
        <5>1. Len(r) = 0
          BY <1>1, <2>5, <2>12, <4>2
        <5> QED BY <1>1, <4>2, <5>1
      <4> QED BY <1>1, <2>12, <4>1, <4>2
    <3> QED BY <1>1, <2>1, <2>7, <2>12, <3>1
  <2>9. \A l \in 1 .. Len(r) : r[l] = s[e + d + l]
    <3>1. TAKE l \in 1 .. Len(r)
    <3>2. l \in 1 .. Len(s) - m + 1 /\ m + l - 1 = e + d + l
      BY <1>1, <2>3, <2>7, <2>8
    <3> QED BY <2>5, <3>2
  <2>10. \A l \in e + 1 .. e + d : s[l] \in Ifs
    <3>1. TAKE l \in e + 1 .. e + d
    <3>2. l = e + 1 \/ l \in k + 1 .. m - 1
      BY <1>1, <2>1, <2>3, <2>7
    <3> QED BY <1>1, <1>4, <2>3, <3>2
  <2>11. Dropped(s, e, d, r)
    BY <1>1, <2>8, <2>9, <2>10 DEF Dropped
  <2> QED BY <2>5, <2>6, <2>11 DEF e
<1> QED BY <1>1, <1>3, <1>4

-----------------------------------------------------------------------------
(***************************************************************************)
(* All words of a text                                                     *)
(***************************************************************************)
\* The function that Left is made of.
LeftOf(s, n, f) == f = [k \in 0 .. n |-> IF k = 0 THEN s ELSE Rest(f[k - 1])]

LEMMA LeftExists ==
  ASSUME NEW s
  PROVE  \A n \in Nat : \E f : LeftOf(s, n, f)
<1> DEFINE S == {n \in Nat : \E f : LeftOf(s, n, f)}
<1>1. 0 \in S
  <2> DEFINE f == [k \in 0 .. 0 |-> s]
  <2>1. f = [k \in 0 .. 0 |-> IF k = 0 THEN s ELSE Rest(f[k - 1])]
    OBVIOUS
  <2> HIDE DEF f
  <2>2. LeftOf(s, 0, f)
    BY <2>1 DEF LeftOf
  <2> QED BY <2>2
<1>2. ASSUME NEW n \in S PROVE n + 1 \in S
  <2>1. n \in Nat
    OBVIOUS
  <2>2. PICK f : LeftOf(s, n, f)
    OBVIOUS
  <2>3. PICK l \in Nat : l = n + 1
    BY <2>1
  <2> DEFINE g == [k \in 0 .. l |-> IF k = l THEN Rest(f[n]) ELSE f[k]]
  <2>4. ASSUME NEW k \in 0 .. l PROVE g[k] = IF k = 0 THEN s ELSE Rest(g[k - 1])
    <3>1. CASE k = l
      <4>1. g[k] = Rest(f[n]) /\ k # 0 /\ k - 1 = n
        BY <2>1, <2>3, <3>1
      <4>2. g[n] = f[n]
        BY <2>1, <2>3
      <4> QED BY <3>1, <4>1, <4>2
    <3>2. CASE k # l
      <4>1. k \in 0 .. n /\ g[k] = f[k]
        BY <2>1, <2>3, <3>2
      <4>2. f[k] = IF k = 0 THEN s ELSE Rest(f[k - 1])
        BY <2>2, <4>1 DEF LeftOf
      <4>3. k # 0 => g[k - 1] = f[k - 1]
        BY <2>1, <2>3, <4>1
      <4> QED BY <4>1, <4>2, <4>3
    <3> QED BY <3>1, <3>2
  <2>5. g = [k \in 0 .. l |-> g[k]]
    OBVIOUS
  <2> HIDE DEF g
  <2>6. LeftOf(s, l, g)
    BY <2>4, <2>5 DEF LeftOf
  <2> QED BY <2>1, <2>3, <2>6
<1>3. S \subseteq Nat
  OBVIOUS
<1> HIDE DEF S
<1>4. \A n \in Nat : n \in S
  BY <1>1, <1>2, <1>3, Induct
<1> QED BY <1>4 DEF S

\* Where both are defined two such functions agree.
LEMMA LeftUnique ==
  ASSUME NEW s, NEW m \in Nat, NEW n \in Nat, NEW f, NEW g, LeftOf(s, m, f), LeftOf(s, n, g)
  PROVE  \A k \in Nat : k <= m /\ k <= n => f[k] = g[k]
<1> DEFINE S == {k \in Nat : k <= m /\ k <= n => f[k] = g[k]}
<1>1. \A k \in 0 .. m : f[k] = IF k = 0 THEN s ELSE Rest(f[k - 1])
  BY DEF LeftOf
<1>2. \A k \in 0 .. n : g[k] = IF k = 0 THEN s ELSE Rest(g[k - 1])
  BY DEF LeftOf
<1>3. 0 \in S
  BY <1>1, <1>2
<1>4. ASSUME NEW k \in S PROVE k + 1 \in S
  <2>1. PICK l \in Nat : l = k + 1
    OBVIOUS
  <2>2. ASSUME l <= m, l <= n PROVE f[l] = g[l]
    <3>1. l \in 0 .. m /\ l \in 0 .. n /\ l # 0 /\ l - 1 = k /\ f[k] = g[k]
      BY <2>1, <2>2
    <3> QED BY <1>1, <1>2, <3>1
  <2> QED BY <2>1, <2>2
<1>5. S \subseteq Nat
  OBVIOUS
<1> HIDE DEF S
<1>6. \A k \in Nat : k \in S
  BY <1>3, <1>4, <1>5, Induct
<1> QED BY <1>6 DEF S

LEMMA LeftSteps ==
  ASSUME NEW s, NEW n \in Nat
  PROVE  Left(s, 0) = s /\ Left(s, n + 1) = Rest(Left(s, n))
<1> DEFINE F(k) == CHOOSE f : LeftOf(s, k, f)
<1>1. ASSUME NEW k \in Nat PROVE LeftOf(s, k, F(k)) /\ Left(s, k) = F(k)[k]
  BY <1>1, LeftExists DEF LeftOf, Left
<1> HIDE DEF F
<1>2. PICK l \in Nat : l = n + 1
  OBVIOUS
<1>3. Left(s, l) = Rest(F(l)[n])
  <2>1. \A k \in 0 .. l : F(l)[k] = IF k = 0 THEN s ELSE Rest(F(l)[k - 1])
    BY <1>1 DEF LeftOf
  <2>2. l \in 0 .. l /\ l # 0 /\ l - 1 = n
    BY <1>2
  <2> QED BY <1>1, <2>1, <2>2
<1>4. F(l)[n] = F(n)[n]
  BY <1>1, <1>2, LeftUnique
<1>5. Left(s, 0) = s
  BY <1>1 DEF LeftOf
<1> QED BY <1>1, <1>2, <1>3, <1>4, <1>5

\* The characters of s before its word number n.
Place(s, n) == Len(s) - Len(Left(s, n))

LEMMA LeftFacts ==
  ASSUME NEW S, NEW s \in Seq(S)
  PROVE  \A n \in Nat : /\ Left(s, n) \in Seq(S) /\ Place(s, n) \in 0 .. Len(s)
                        /\ \A k \in 1 .. Len(Left(s, n)) : Left(s, n)[k] = s[Place(s, n) + k]
<1> DEFINE T == {n \in Nat : /\ Left(s, n) \in Seq(S) /\ Place(s, n) \in 0 .. Len(s)
                             /\ \A k \in 1 .. Len(Left(s, n)) : Left(s, n)[k] = s[Place(s, n) + k]}
<1>1. 0 \in T
  <2>1. Left(s, 0) = s /\ Place(s, 0) = 0
    BY LeftSteps DEF Place
  <2> QED BY <2>1
<1>2. ASSUME NEW n \in T PROVE n + 1 \in T
  <2> DEFINE a == Left(s, n)
             b == Left(s, n + 1)
             p == Place(s, n)
             q == Place(s, n + 1)
  <2>1. n \in Nat /\ a \in Seq(S) /\ p \in 0 .. Len(s) /\ \A k \in 1 .. Len(a) : a[k] = s[p + k]
    OBVIOUS
  <2>2. p = Len(s) - Len(a) /\ q = Len(s) - Len(b) /\ b = Rest(a)
    BY <2>1, LeftSteps DEF Place
  <2> HIDE DEF a, b, p, q
  <2>3. b \in Seq(S)
    BY <2>1, <2>2, RestFacts
  <2>4. PICK d : Dropped(a, WordEnd(a), d, b)
    BY <2>1, <2>2, RestFacts
  <2>5. PICK l \in Nat : l = WordEnd(a) + d
    BY <2>4 DEF Dropped
  <2>6. Len(b) = Len(a) - l /\ l <= Len(a) /\ \A k \in 1 .. Len(b) : b[k] = a[l + k]
    BY <2>4, <2>5, <2>1 DEF Dropped
  <2>7. Len(a) \in Nat /\ Len(b) \in Nat /\ Len(s) \in Nat
    BY <2>1, <2>3
  <2>8. q = p + l /\ q \in 0 .. Len(s)
    BY <2>1, <2>2, <2>6, <2>7
  <2>9. ASSUME NEW k \in 1 .. Len(b) PROVE b[k] = s[q + k]
    <3>1. PICK j \in 1 .. Len(a) : j = l + k
      BY <2>6, <2>7
    <3>2. b[k] = a[j] /\ a[j] = s[p + j] /\ p + j = q + k
      BY <2>1, <2>6, <2>8, <3>1
    <3> QED BY <3>2
  <2>10. n + 1 \in Nat
    BY <2>1
  <2> QED BY <2>3, <2>8, <2>9, <2>10 DEF b, q
<1>3. T \subseteq Nat
  OBVIOUS
<1> HIDE DEF T
<1>4. \A n \in Nat : n \in T
  BY <1>1, <1>2, <1>3, Induct
<1> QED BY <1>4 DEF T

\* From a word to the next one.
LEMMA NextPlace ==
  ASSUME NEW S, NEW s \in Seq(S), NEW n \in Nat
  PROVE  \E e \in Nat :
           /\ e = WordEnd(Left(s, n))
           /\ Place(s, n) + e <= Place(s, n + 1)
           /\ Place(s, n) < Len(s) => Place(s, n) < Place(s, n + 1)
           /\ \A k \in 1 .. e : s[Place(s, n) + k] \notin Ifs
           /\ \A k \in Place(s, n) + e + 1 .. Place(s, n + 1) : s[k] \in Ifs
<1> DEFINE a == Left(s, n)
           b == Left(s, n + 1)
           p == Place(s, n)
           q == Place(s, n + 1)
           e == WordEnd(a)
<1>1. /\ a \in Seq(S) /\ b \in Seq(S) /\ p \in 0 .. Len(s)
      /\ \A k \in 1 .. Len(a) : a[k] = s[p + k]
  <2>1. n + 1 \in Nat
    OBVIOUS
  <2> QED BY <2>1, LeftFacts
<1>2. p = Len(s) - Len(a) /\ q = Len(s) - Len(b) /\ b = Rest(a)
  BY LeftSteps DEF Place
<1> HIDE DEF a, b, p, q
<1>3. e \in 0 .. Len(a) /\ \A k \in 1 .. e : a[k] \notin Ifs
  BY <1>1, WordEndFacts
<1>4. PICK d : Dropped(a, e, d, b)
  BY <1>1, <1>2, RestFacts
<1> HIDE DEF e
<1>5. Len(a) \in Nat /\ Len(b) \in Nat /\ Len(s) \in Nat
  BY <1>1
<1>6. /\ d \in Nat /\ e + d <= Len(a) /\ Len(b) = Len(a) - e - d
      /\ \A k \in e + 1 .. e + d : a[k] \in Ifs
      /\ e < Len(a) => d >= 1
  BY <1>4 DEF Dropped
<1>7. q = p + e + d
  BY <1>1, <1>2, <1>3, <1>5, <1>6
<1>8. p < Len(s) => p < q
  BY <1>1, <1>2, <1>3, <1>5, <1>6, <1>7
<1>9. ASSUME NEW k \in 1 .. e PROVE s[p + k] \notin Ifs
  BY <1>1, <1>3, <1>5
<1>10. ASSUME NEW k \in p + e + 1 .. q PROVE s[k] \in Ifs
  <2>1. PICK j \in 1 .. Len(a) : p + j = k /\ j \in e + 1 .. e + d
    <3>1. k - p \in e + 1 .. e + d /\ p + (k - p) = k
      BY <1>1, <1>3, <1>6, <1>7
    <3>2. k - p \in 1 .. Len(a)
      BY <1>3, <1>5, <1>6, <3>1
    <3> QED BY <3>1, <3>2
  <2> QED BY <1>1, <1>6, <2>1
<1>11. e \in Nat /\ p + e <= q
  BY <1>1, <1>3, <1>6, <1>7
<1> QED BY <1>8, <1>9, <1>10, <1>11 DEF a, p, q, e

\* What my_strsep() makes of any text, vars/expand_vars.c: word number n stands at
\* Place(s, n), holds no character of IFS, and is all that is not IFS up to the
\* place of the next word, which is further on; there is a word for as long as
\* there are characters left.  So nothing but IFS is lost, nothing is taken twice
\* and the words of a text come in its order.
THEOREM FieldsOfText ==
  ASSUME NEW S, NEW s \in Seq(S), NEW n \in Nat
  PROVE  LET p == Place(s, n)
             q == Place(s, n + 1)
             word == MyStrsep(s, n).text
         IN /\ Place(s, 0) = 0 /\ p \in 0 .. Len(s)
            /\ MyStrsep(s, n).is <=> p < Len(s)
            /\ p < Len(s) =>
                 /\ word \in Seq(S) /\ p < q /\ p + Len(word) <= q
                 /\ \A k \in 1 .. Len(word) : word[k] = s[p + k] /\ word[k] \notin Ifs
                 /\ \A k \in p + Len(word) + 1 .. q : s[k] \in Ifs
<1> DEFINE a == Left(s, n)
           p == Place(s, n)
           q == Place(s, n + 1)
           e == WordEnd(a)
           w == SubSeq(a, 1, e)
<1>1. Place(s, 0) = 0
  BY LeftSteps DEF Place
<1>2. /\ a \in Seq(S) /\ p \in 0 .. Len(s)
      /\ \A k \in 1 .. Len(a) : a[k] = s[p + k]
  BY LeftFacts
<1>3. p = Len(s) - Len(a)
  BY DEF Place
<1>4. e \in 0 .. Len(a)
  BY <1>2, WordEndFacts
<1>5. p + e <= q /\ (p < Len(s) => p < q)
  BY NextPlace
<1>6. /\ \A k \in 1 .. e : s[p + k] \notin Ifs
      /\ \A k \in p + e + 1 .. q : s[k] \in Ifs
  BY NextPlace
<1>7. MyStrsep(s, n) = IF a = <<>> THEN NoWord ELSE AWord(w)
  BY DEF MyStrsep
<1> HIDE DEF a, p, q, e
<1>8. Len(a) \in Nat /\ Len(s) \in Nat
  BY <1>2
<1>9. w \in Seq(S) /\ Len(w) = e /\ \A k \in 1 .. e : w[k] = a[k]
  <2>1. \A k \in 1 .. e : a[k] \in S
    BY <1>2, <1>4, <1>8
  <2>2. 1 \in Int /\ e \in Int
    BY <1>4, <1>8
  <2>3. /\ w \in Seq(S) /\ Len(w) = (IF 1 <= e THEN e - 1 + 1 ELSE 0)
        /\ \A k \in 1 .. e - 1 + 1 : w[k] = a[1 + k - 1]
    BY <2>1, <2>2, SubSeqProperties
  <2>4. e \in Nat /\ e - 1 + 1 = e
    BY <1>4, <1>8
  <2>5. Len(w) = e
    BY <2>3, <2>4
  <2>6. ASSUME NEW k \in 1 .. e PROVE w[k] = a[k]
    BY <2>3, <2>4
  <2> QED BY <2>3, <2>5, <2>6
<1> HIDE DEF w
<1>10. a = <<>> <=> p = Len(s)
  BY <1>2, <1>3, <1>8
<1>11. CASE p = Len(s)
  <2>1. ~MyStrsep(s, n).is
    BY <1>7, <1>10, <1>11 DEF NoWord
  <2> QED BY <1>1, <1>2, <1>8, <1>11, <2>1 DEF p, q
<1>12. CASE p # Len(s)
  <2>1. p < Len(s)
    BY <1>2, <1>8, <1>12
  <2>2. MyStrsep(s, n).is /\ MyStrsep(s, n).text = w
    BY <1>7, <1>10, <1>12 DEF AWord
  <2>3. ASSUME NEW k \in 1 .. Len(w) PROVE w[k] = s[p + k] /\ w[k] \notin Ifs
    <3>1. k \in 1 .. e /\ k \in 1 .. Len(a)
      BY <1>4, <1>8, <1>9
    <3>2. w[k] = a[k] /\ a[k] = s[p + k] /\ s[p + k] \notin Ifs
      BY <1>2, <1>6, <1>9, <3>1
    <3> QED BY <3>2
  <2>4. \A k \in p + Len(w) + 1 .. q : s[k] \in Ifs
    BY <1>6, <1>9
  <2>5. w \in Seq(S) /\ p < q /\ p + Len(w) <= q
    <3>1. p < q
      BY <1>5, <2>1
    <3>2. p + Len(w) <= q
      BY <1>5, <1>9
    <3> QED BY <1>9, <3>1, <3>2
  <2> DEFINE word == MyStrsep(s, n).text
  <2>6. word = w
    BY <2>2
  <2> HIDE DEF word
  <2>7. /\ word \in Seq(S) /\ p < q /\ p + Len(word) <= q
        /\ \A k \in 1 .. Len(word) : word[k] = s[p + k] /\ word[k] \notin Ifs
        /\ \A k \in p + Len(word) + 1 .. q : s[k] \in Ifs
    BY <2>3, <2>4, <2>5, <2>6
  <2> QED BY <1>1, <1>2, <2>1, <2>2, <2>7, Zenon DEF p, q, word
<1> QED BY <1>11, <1>12

\* A text has fewer words than it has characters.
LEMMA WordsOfText ==
  ASSUME NEW S, NEW s \in Seq(S), NEW n \in Nat, MyStrsep(s, n).is
  PROVE  n < Len(s)
<1> DEFINE T == {k \in Nat : Place(s, k) < Len(s) => k <= Place(s, k)}
<1>1. Len(s) \in Nat
  OBVIOUS
<1>2. ASSUME NEW k \in Nat
      PROVE  /\ Place(s, k) \in 0 .. Len(s) /\ Place(s, 0) = 0
             /\ Place(s, k) < Len(s) => Place(s, k) < Place(s, k + 1)
             /\ MyStrsep(s, k).is <=> Place(s, k) < Len(s)
  BY FieldsOfText
<1>3. 0 \in T
  BY <1>2
<1>4. ASSUME NEW k \in T PROVE k + 1 \in T
  <2>1. PICK l \in Nat : l = k + 1
    OBVIOUS
  <2>2. Place(s, k) \in 0 .. Len(s) /\ Place(s, l) \in 0 .. Len(s)
    BY <1>2
  <2>3. ASSUME Place(s, l) < Len(s) PROVE l <= Place(s, l)
    <3>1. CASE Place(s, k) < Len(s)
      <4>1. Place(s, k) < Place(s, l) /\ k <= Place(s, k)
        BY <1>2, <2>1, <3>1
      <4> QED BY <1>1, <2>1, <2>2, <4>1
    <3>2. CASE Place(s, k) = Len(s)
      <4>1. Len(Left(s, k)) = 0
        BY <1>1, <3>2, LeftFacts DEF Place
      <4>2. Left(s, k) = <<>>
        BY <4>1, LeftFacts
      <4>3. Place(s, k) <= Place(s, l)
        <5>1. PICK e \in Nat : Place(s, k) + e <= Place(s, k + 1)
          BY NextPlace
        <5> QED BY <2>1, <2>2, <5>1
      <4> QED BY <1>1, <2>2, <2>3, <3>2, <4>3
    <3> QED BY <1>1, <2>2, <3>1, <3>2
  <2> QED BY <2>1, <2>3
<1>5. T \subseteq Nat
  OBVIOUS
<1> HIDE DEF T
<1>6. \A k \in Nat : k \in T
  BY <1>3, <1>4, <1>5, Induct
<1>7. n \in Nat /\ Place(s, n) < Len(s) /\ n <= Place(s, n) /\ Place(s, n) \in 0 .. Len(s)
  BY <1>2, <1>6 DEF T
<1> QED BY <1>1, <1>7

-----------------------------------------------------------------------------
(***************************************************************************)
(* The cursors of get_word()                                               *)
(***************************************************************************)
\* The lists that the state holds are ones of the constants.
Held ==
  /\ list = <<>> \/ list \in Tokens
  /\ params = <<>> \/ params \in Args
  /\ acc \in Texts \cup {NULL}

\* The cursors are numbers; a word that has begun has a token to go on with.
Cursors ==
  /\ i \in Nat /\ nb_strtok \in Nat /\ nb_at \in Nat /\ loops \in Nat \cup {-1}
  /\ IF Idle THEN nb_strtok = 0 /\ nb_at = 0 /\ loops = -1
     ELSE i \in 1 .. Len(list) + 1 /\ (loops # -1 => i <= Len(list))

\* "@" is at one of the parameters, and only a token that is "@" moves it.
AtInside == nb_at > 0 =>
  /\ i <= Len(list) /\ Token.type \in Variables /\ Token.command = At
  /\ nb_at < Len(params)

\* A value that has been begun is unquoted and has the word that is next.
TakenInside == nb_strtok > 0 => i <= Len(list) /\ Unquoted /\ Taken.is

ExpandInv == Held /\ Cursors /\ AtInside /\ TakenInside

\* A token is at the cursor, whatever word it belongs to.
LEMMA AToken ==
  ASSUME Held, Cursors, ~Idle
  PROVE  /\ Len(list) \in Nat /\ list \in Tokens
         /\ InWord <=> i <= Len(list)
         /\ i <= Len(list) =>
              /\ i \in 1 .. Len(list)
              /\ Token.type \in Variables \cup Substitutions \cup {"T_WORD"}
              /\ Token.type \in Variables => Token.command \in DOMAIN Value \cup {At}
              /\ Token.type \in Substitutions => Token.command \in DOMAIN Value
<1>1. list \in Tokens
  BY DEF Held, Idle
<1>2. /\ list \in Seq(Range(list))
      /\ \A k \in DOMAIN list :
            /\ list[k].type \in Variables \cup Substitutions \cup {"T_WORD"}
            /\ list[k].type \in Variables => list[k].command \in DOMAIN Value \cup {At}
            /\ list[k].type \in Substitutions => list[k].command \in DOMAIN Value
  BY <1>1, ExpandAssumption, Zenon
<1>3. Len(list) \in Nat /\ DOMAIN list = 1 .. Len(list)
  BY <1>2
<1>4. i \in 1 .. Len(list) + 1 /\ (loops # -1 => i <= Len(list))
  BY DEF Cursors
<1>5. InWord <=> i <= Len(list)
  BY <1>3, <1>4 DEF InWord, Done
<1>6. i <= Len(list) => i \in 1 .. Len(list)
  BY <1>3, <1>4
<1> QED BY <1>1, <1>2, <1>3, <1>5, <1>6, Zenon DEF Token

LEMMA ParamsFacts ==
  ASSUME Held
  PROVE  Len(params) \in Nat /\ \A k \in 1 .. Len(params) : params[k] \in Texts
<1>1. CASE params = <<>>
  BY <1>1
<1>2. CASE params \in Args
  <2>1. params \in Seq(Range(params))
    BY <1>2, ExpandAssumption, Zenon
  <2>2. Len(params) \in Nat /\ DOMAIN params = 1 .. Len(params)
    BY <2>1
  <2>3. ASSUME NEW k \in 1 .. Len(params) PROVE params[k] \in Range(params)
    BY <2>2 DEF Range
  <2> QED BY <1>2, <2>2, <2>3, Zenon DEF Texts
<1> QED BY <1>1, <1>2 DEF Held

\* What a token that is expanded stands for is a text.
LEMMA ValIsText ==
  ASSUME ExpandInv, Expanding
  PROVE  Val \in Texts \cup {<<>>} /\ Filled \in Texts \cup {NULL}
<1>0. Held /\ Cursors /\ AtInside
  BY DEF ExpandInv
<1>1. ~Idle /\ InWord /\ Token.type # "T_WORD"
  BY DEF Expanding, InWord
<1>2. /\ Token.type \in Variables \cup Substitutions
      /\ Token.type \in Variables => Token.command \in DOMAIN Value \cup {At}
      /\ Token.type \in Substitutions => Token.command \in DOMAIN Value
  BY <1>0, <1>1, AToken
<1>3. ASSUME NEW name \in DOMAIN Value PROVE Value[name] \in Texts
  BY DEF Texts, Range
<1>4. CASE IsSub
  <2>1. Output \in Texts
    BY <1>0, <1>2, <1>3, <1>4 DEF Held, Output, IsSub
  <2> QED BY <1>4, <2>1 DEF Val, Filled
<1>5. CASE ~IsSub
  <2>1. Filled = acc
    BY <1>5 DEF Filled
  <2>2. CASE Token.command # At
    <3>1. Token.command \in DOMAIN Value
      BY <1>2, <1>5, <2>2 DEF IsSub
    <3>2. Val = Value[Token.command]
      BY <1>5, <2>2 DEF Val, IsAt
    <3> QED BY <1>0, <1>3, <2>1, <3>1, <3>2 DEF Held
  <2>3. CASE Token.command = At
    <3>1. Val = IF nb_at + 1 > Len(params) THEN <<>> ELSE params[nb_at + 1]
      BY <1>5, <2>3 DEF Val, IsAt
    <3>2. nb_at \in Nat /\ Len(params) \in Nat /\ \A k \in 1 .. Len(params) : params[k] \in Texts
      BY <1>0, ParamsFacts DEF Cursors
    <3>3. CASE nb_at + 1 > Len(params)
      BY <1>0, <2>1, <3>1, <3>3 DEF Held
    <3>4. CASE ~(nb_at + 1 > Len(params))
      <4>1. nb_at + 1 \in 1 .. Len(params)
        BY <3>2, <3>4
      <4> QED BY <1>0, <2>1, <3>1, <3>2, <3>4, <4>1 DEF Held
    <3> QED BY <3>3, <3>4
  <2> QED BY <2>2, <2>3
<1> QED BY <1>4, <1>5

LEMMA InitCursors == Init => ExpandInv
<1> SUFFICES ASSUME Init PROVE ExpandInv
  OBVIOUS
<1>1. Held
  BY DEF Init, Held
<1>2. Cursors
  BY DEF Init, Cursors, Idle
<1>3. AtInside /\ TakenInside
  BY DEF Init, AtInside, TakenInside
<1> QED BY <1>1, <1>2, <1>3 DEF ExpandInv

\* The loop over tokens goes on with a token that is there, or a word ends.
LEMMA LoopOnCursors ==
  ASSUME ExpandInv, InWord, NEW text, NEW empty, NEW at \in Nat,
         LoopOn(text, empty, at), nb_at' = at, nb_strtok' = 0, UNCHANGED <<params, list>>,
         acc' \in Texts \cup {NULL},
         at > 0 => Token.type \in Variables /\ Token.command = At /\ at < Len(params)
  PROVE  ExpandInv'
<1>0. Held /\ Cursors /\ AtInside /\ ~Idle
  BY DEF ExpandInv, InWord
<1>1. Len(list) \in Nat /\ i \in 1 .. Len(list)
  BY <1>0, AToken
<1> DEFINE next == IF at = 0 THEN i + 1 ELSE i
<1>2. i' = next /\ (loops' = -1 \/ (loops' = loops + 1 /\ next <= Len(list)))
  BY DEF LoopOn, Return, FreshWord
<1>3. next \in 1 .. Len(list) + 1 /\ (at > 0 => next = i)
  BY <1>1
<1> HIDE DEF next
<1>4. Held'
  BY <1>0 DEF Held
<1>5. ~Idle'
  BY <1>0 DEF Idle
<1>6. Cursors'
  <2>1. loops \in Nat \cup {-1}
    BY <1>0 DEF Cursors
  <2>2. loops' \in Nat \cup {-1} /\ (loops' # -1 => next <= Len(list))
    BY <1>2, <2>1
  <2>3. i' \in Nat /\ i' \in 1 .. Len(list') + 1 /\ (loops' # -1 => i' <= Len(list'))
    BY <1>1, <1>2, <1>3, <2>2
  <2> QED BY <1>5, <2>2, <2>3 DEF Cursors
<1>7. AtInside'
  <2> SUFFICES ASSUME at > 0
               PROVE  /\ i' <= Len(list') /\ Token'.type \in Variables
                      /\ Token'.command = At /\ at < Len(params')
    BY DEF AtInside
  <2>1. i' = i
    BY <1>2, <1>3
  <2>2. Token' = Token
    BY <2>1 DEF Token
  <2> QED BY <1>1, <2>1, <2>2
<1>8. TakenInside'
  BY DEF TakenInside
<1> QED BY <1>4, <1>6, <1>7, <1>8 DEF ExpandInv

\* What get_var() leaves "@" at.
LEMMA NextAtFacts ==
  ASSUME ExpandInv, Expanding
  PROVE  /\ NextAt \in Nat
         /\ NextAt > 0 => /\ Token.type \in Variables /\ Token.command = At
                          /\ NextAt < Len(params)
<1>0. Held /\ Cursors /\ AtInside /\ InWord /\ ~Idle /\ Token.type # "T_WORD"
  BY DEF ExpandInv, Expanding, InWord
<1>1. nb_at \in Nat /\ Len(params) \in Nat
  BY <1>0, ParamsFacts DEF Cursors
<1>2. CASE IsAt
  <2>1. Token.type \in Variables /\ Token.command = At
    BY <1>0, <1>2, AToken DEF IsAt, IsSub
  <2>2. NextAt = IF nb_at + 2 > Len(params) THEN 0 ELSE nb_at + 1
    BY <1>2 DEF NextAt
  <2>3. NextAt \in Nat /\ (NextAt > 0 => NextAt < Len(params))
    BY <1>1, <2>2
  <2> QED BY <2>1, <2>3
<1>3. CASE ~IsAt
  <2>1. NextAt = nb_at
    BY <1>3 DEF NextAt
  <2> QED BY <1>0, <1>1, <2>1 DEF AtInside
<1> QED BY <1>2, <1>3

LEMMA WordCursors == ASSUME ExpandInv, Word PROVE ExpandInv'
<1>1. InWord /\ Token.type = "T_WORD"
  BY DEF Word
<1>2. Held /\ Cursors /\ AtInside /\ TakenInside
  BY DEF ExpandInv
<1>3. nb_at \in Nat /\ ~(nb_at > 0)
  BY <1>1, <1>2 DEF Cursors, AtInside, Variables
<1>4. nb_strtok = 0
  BY <1>1, <1>2 DEF Cursors, TakenInside, Unquoted, Expanding
<1>5. nb_at' = nb_at /\ nb_strtok' = 0 /\ UNCHANGED <<params, list>>
  BY <1>4 DEF Word
<1>6. acc' \in Texts \cup {NULL}
  BY <1>2 DEF Word, Held
<1>7. LoopOn(res \o Token.command, FALSE, nb_at)
  BY DEF Word
<1> QED BY <1>1, <1>3, <1>5, <1>6, <1>7, LoopOnCursors

LEMMA EmptyVarCursors == ASSUME ExpandInv, EmptyVar PROVE ExpandInv'
<1>1. Expanding /\ IsEmpty /\ LoopOn(res, TRUE, NextAt)
  BY DEF EmptyVar
<1>2. InWord /\ Held /\ Cursors /\ TakenInside
  BY <1>1 DEF Expanding, ExpandInv
<1>3. nb_strtok = 0
  BY <1>1, <1>2 DEF Cursors, TakenInside, Unquoted
<1>4. nb_at' = NextAt /\ nb_strtok' = 0 /\ UNCHANGED <<params, list>>
  BY <1>3 DEF EmptyVar
<1>5. acc' \in Texts \cup {NULL}
  BY <1>2 DEF EmptyVar, Held
<1> QED BY <1>1, <1>2, <1>4, <1>5, NextAtFacts, LoopOnCursors

LEMMA QuotedCursors == ASSUME ExpandInv, Quoted PROVE ExpandInv'
<1>1. Expanding /\ IsQuoted /\ LoopOn(res \o Val, FALSE, NextAt)
  BY DEF Quoted
<1>2. InWord /\ Cursors /\ TakenInside
  BY <1>1 DEF Expanding, ExpandInv
<1>3. nb_strtok = 0
  BY <1>1, <1>2 DEF Cursors, TakenInside, Unquoted
<1>4. nb_at' = NextAt /\ nb_strtok' = 0 /\ UNCHANGED <<params, list>> /\ acc' = Filled
  BY <1>3 DEF Quoted
<1>5. acc' \in Texts \cup {NULL}
  BY <1>1, <1>4, ValIsText
<1> QED BY <1>1, <1>2, <1>4, <1>5, NextAtFacts, LoopOnCursors

LEMMA LastWordCursors == ASSUME ExpandInv, TakeLastWord PROVE ExpandInv'
<1>1. Expanding /\ LoopOn(res \o Taken.text, FALSE, NextAt) /\ InWord
  BY DEF TakeLastWord, Unquoted, Expanding
<1>2. nb_at' = NextAt /\ nb_strtok' = 0 /\ UNCHANGED <<params, list>> /\ acc' = NULL
  BY DEF TakeLastWord
<1>3. acc' \in Texts \cup {NULL}
  BY <1>2
<1> QED BY <1>1, <1>2, <1>3, NextAtFacts, LoopOnCursors

\* The value stays what it was while its words are taken.
LEMMA TakeWordCursors == ASSUME ExpandInv, TakeWord PROVE ExpandInv'
<1>1. Unquoted /\ Expanding /\ InWord /\ ~Idle /\ ~IsEmpty /\ ~IsQuoted
  BY DEF TakeWord, Unquoted, Expanding, InWord
<1>2. MyStrsep(Val, nb_strtok + 1).is
  BY DEF TakeWord, MoreToTake
<1>3. /\ nb_strtok' = nb_strtok + 1 /\ acc' = Filled /\ loops' = -1
      /\ UNCHANGED <<params, list, i, nb_at>>
  BY DEF TakeWord, Return, FreshWord
<1>4. Held /\ Cursors /\ AtInside
  BY DEF ExpandInv
<1>5. i \in 1 .. Len(list) /\ Len(list) \in Nat
  BY <1>1, <1>4, AToken
<1>6. Token' = Token /\ Idle' = Idle
  BY <1>3 DEF Token, Idle
<1>7. Val' = Val
  <2>1. Output' = (IF acc' = NULL THEN Value[Token.command] ELSE acc') /\ IsSub' = IsSub /\ IsAt' = IsAt
    BY <1>6 DEF Output, IsSub, IsAt
  <2>2. IsSub => Output' = Output
    BY <1>3, <2>1 DEF Filled, Output
  <2>3. Val' = IF IsSub THEN Output'
               ELSE IF ~IsAt THEN Value[Token.command]
               ELSE IF nb_at + 1 > Len(params) THEN <<>> ELSE params[nb_at + 1]
    BY <1>3, <1>6, <2>1 DEF Val
  <2> QED BY <2>2, <2>3 DEF Val
<1>8. IsEmpty' = IsEmpty /\ IsQuoted' = IsQuoted
  BY <1>6, <1>7 DEF IsEmpty, IsQuoted
<1>9. Held'
  BY <1>1, <1>3, <1>4, ValIsText DEF Held
<1>10. Cursors'
  BY <1>1, <1>3, <1>4, <1>5, <1>6 DEF Cursors
<1>11. AtInside'
  BY <1>3, <1>4, <1>6 DEF AtInside
<1>12. InWord'
  BY <1>1, <1>3, <1>5, <1>6 DEF InWord, Done
<1>13. Unquoted'
  BY <1>1, <1>6, <1>8, <1>12 DEF Unquoted, Expanding
<1>14. Taken'.is
  BY <1>2, <1>3, <1>7 DEF Taken
<1>15. TakenInside'
  BY <1>3, <1>5, <1>13, <1>14 DEF TakenInside
<1> QED BY <1>9, <1>10, <1>11, <1>15 DEF ExpandInv

LEMMA StepCursors == ExpandInv /\ [Next]_vars => ExpandInv'
<1> SUFFICES ASSUME ExpandInv, [Next]_vars PROVE ExpandInv'
  OBVIOUS
<1>1. CASE Start
  <2>1. Idle /\ list' \in Tokens /\ params' \in Args /\ acc' = acc
    BY <1>1 DEF Start
  <2>2. i' = 1 /\ nb_strtok' = 0 /\ nb_at' = 0 /\ loops' = -1
    BY <1>1 DEF Start, FreshWord
  <2>3. Held'
    BY <2>1 DEF Held, ExpandInv
  <2>4. list' \in Seq(Range(list')) /\ list' # <<>>
    BY <2>1, ExpandAssumption, Zenon
  <2>5. i' \in 1 .. Len(list') + 1
    BY <2>2, <2>4
  <2>6. Cursors'
    BY <2>2, <2>4, <2>5 DEF Cursors, Idle
  <2>7. AtInside' /\ TakenInside'
    BY <2>2 DEF AtInside, TakenInside
  <2> QED BY <2>3, <2>6, <2>7 DEF ExpandInv
<1>2. CASE GetWord
  BY <1>2, WordCursors, EmptyVarCursors, QuotedCursors, TakeWordCursors, LastWordCursors
     DEF GetWord
<1>3. CASE Finish
  <2>1. /\ params' = <<>> /\ list' = <<>> /\ i' = 1 /\ nb_strtok' = 0 /\ nb_at' = 0
        /\ loops' = -1 /\ acc' = acc
    BY <1>3 DEF Finish, Clear, FreshWord
  <2>2. Held'
    BY <2>1 DEF Held, ExpandInv
  <2>3. Cursors'
    BY <2>1 DEF Cursors, Idle
  <2>4. AtInside' /\ TakenInside'
    BY <2>1 DEF AtInside, TakenInside
  <2> QED BY <2>2, <2>3, <2>4 DEF ExpandInv
<1>4. CASE UNCHANGED vars
  <2>1. UNCHANGED <<acc, params, list, i, nb_strtok, nb_at, loops>>
    BY <1>4 DEF vars
  <2>2. Held' /\ Cursors' /\ AtInside'
    BY <2>1 DEF ExpandInv, Held, Cursors, AtInside, Idle, Token
  <2>3. Unquoted' = Unquoted /\ Taken' = Taken
    BY <2>1 DEF Unquoted, Taken, Expanding, InWord, Done, Idle, Token, IsEmpty, IsQuoted,
                Val, Output, IsSub, IsAt
  <2>4. TakenInside'
    BY <2>1, <2>3 DEF ExpandInv, TakenInside
  <2> QED BY <2>2, <2>4 DEF ExpandInv
<1> QED BY <1>1, <1>2, <1>3, <1>4 DEF Next

LEMMA ExpandInvHolds == Spec => []ExpandInv
<1>1. Init => ExpandInv
  BY InitCursors
<1> QED BY <1>1, StepCursors, PTL DEF Spec

LEMMA InsideByInv == ASSUME ExpandInv PROVE CursorsInside
<1> SUFFICES ASSUME InWord
             PROVE  /\ i \in 1 .. Len(list)
                    /\ nb_at = 0 \/ (IsAt /\ nb_at < Len(params))
                    /\ nb_strtok > 0 => Unquoted /\ Taken.is
  BY DEF CursorsInside
<1>1. Held /\ Cursors /\ AtInside /\ TakenInside /\ ~Idle
  BY DEF ExpandInv, InWord
<1>2. i \in 1 .. Len(list)
  BY <1>1, AToken
<1>3. nb_at = 0 \/ (IsAt /\ nb_at < Len(params))
  BY <1>1 DEF Cursors, AtInside, IsAt, IsSub, Variables, Substitutions
<1> QED BY <1>1, <1>2, <1>3 DEF TakenInside

\* get_word() keeps its cursors inside, whatever the tokens, the values and the
\* parameters are, vars/expand_vars.c: it is called again in the middle of a token
\* and finds there a parameter and a word that the value has.
THEOREM CursorsCorrect == Spec => []CursorsInside
<1> QED BY ExpandInvHolds, InsideByInv, PTL

\* What get_word() takes of one value is bounded by the characters that the value
\* has, vars/expand_vars.c: a command of any length is made of finitely many words.
TakesBounded == InWord => nb_strtok = 0 \/ nb_strtok < Len(Val)

LEMMA BoundedByInv == ASSUME ExpandInv PROVE TakesBounded
<1> SUFFICES ASSUME nb_strtok # 0, InWord PROVE nb_strtok < Len(Val)
  BY DEF TakesBounded
<1>1. nb_strtok \in Nat /\ Unquoted /\ Expanding /\ Taken.is
  BY DEF ExpandInv, Cursors, TakenInside, Unquoted
<1>2. Val \in Texts \cup {<<>>}
  BY <1>1, ValIsText
<1>3. \E S : Val \in Seq(S)
  <2>1. CASE Val \in Texts
    BY <2>1, ExpandAssumption, Zenon
  <2>2. CASE Val = <<>>
    <3>1. Val \in Seq({})
      BY <2>2
    <3> QED BY <3>1
  <2> QED BY <1>2, <2>1, <2>2
<1>4. PICK S : Val \in Seq(S)
  BY <1>3
<1> QED BY <1>1, <1>4, WordsOfText DEF Taken

\* A word that get_word() has begun in a value lies inside that value: the count of
\* words it has taken stays below the number of its characters, vars/expand_vars.c.
THEOREM TakesAreBounded == Spec => []TakesBounded
<1> QED BY ExpandInvHolds, BoundedByInv, PTL

-----------------------------------------------------------------------------
(***************************************************************************)
(* The static acc                                                          *)
(***************************************************************************)
\* What get_stdout() finds in acc is what it has itself put there, for the token
\* whose words are being taken.
AccOfToken == acc # NULL =>
  /\ ~Idle /\ i <= Len(list) /\ IsSub /\ nb_strtok > 0
  /\ acc = Value[Token.command]

\* No substitution stands between quotes.
NoQuotedSub ==
  \A tokens \in Tokens : \A k \in DOMAIN tokens : tokens[k].type # "T_COMMAND_SUB_START_Q"

\* Every substitution is replaced by its own output.
OwnOutput == InWord /\ IsSub => Output = Value[Token.command]

LEMMA StepAcc ==
  ASSUME NoQuotedSub, ExpandInv, AccOfToken, [Next]_vars
  PROVE  AccOfToken'
<1>0. Held /\ Cursors /\ TakenInside /\ nb_strtok \in Nat
  BY DEF ExpandInv, Cursors
<1>1. CASE Start
  BY <1>1 DEF Start, AccOfToken
<1>2. CASE Finish
  <2>1. acc = NULL
    BY <1>0, <1>2, AToken DEF AccOfToken, Finish, Done, InWord
  <2> QED BY <1>2, <2>1 DEF Finish, AccOfToken
<1>3. ASSUME nb_strtok = 0, UNCHANGED acc PROVE AccOfToken'
  BY <1>0, <1>3 DEF AccOfToken
<1>4. CASE Word
  BY <1>0, <1>3, <1>4 DEF Word, TakenInside, Unquoted, Expanding
<1>5. CASE EmptyVar
  BY <1>0, <1>3, <1>5 DEF EmptyVar, TakenInside, Unquoted
<1>6. CASE Quoted
  <2>1. Expanding /\ IsQuoted /\ InWord /\ ~Idle /\ acc' = Filled
    BY <1>6 DEF Quoted, Expanding, InWord
  <2>2. i \in 1 .. Len(list) /\ list \in Tokens
    BY <1>0, <2>1, AToken
  <2>3. i \in DOMAIN list
    <3>1. list \in Seq(Range(list))
      BY <2>2, ExpandAssumption, Zenon
    <3> QED BY <2>2, <3>1
  <2>4. Token.type # "T_COMMAND_SUB_START_Q"
    BY <2>2, <2>3, Zenon DEF NoQuotedSub, Token
  <2>5. ~IsSub
    BY <2>1, <2>4 DEF IsQuoted, IsSub, Substitutions
  <2>6. nb_strtok = 0
    BY <1>0, <2>1 DEF TakenInside, Unquoted
  <2>7. acc' = acc
    BY <2>1, <2>5 DEF Filled
  <2> QED BY <1>3, <2>6, <2>7
<1>7. CASE TakeWord
  <2>1. /\ Unquoted /\ nb_strtok' = nb_strtok + 1 /\ acc' = Filled
        /\ UNCHANGED <<params, list, i, nb_at>>
    BY <1>7 DEF TakeWord
  <2>2. InWord /\ ~Idle
    BY <2>1 DEF Unquoted, Expanding, InWord
  <2>3. i <= Len(list)
    BY <1>0, <2>2, AToken
  <2>4. Token' = Token /\ IsSub' = IsSub /\ Idle' = Idle
    BY <2>1 DEF Token, IsSub, Idle
  <2>5. CASE IsSub
    <3>1. acc' = Value[Token.command]
      BY <2>1, <2>5 DEF Filled, Output, AccOfToken
    <3> QED BY <1>0, <2>1, <2>2, <2>3, <2>4, <2>5, <3>1 DEF AccOfToken
  <2>6. CASE ~IsSub
    <3>1. acc' = NULL
      BY <2>1, <2>6 DEF Filled, AccOfToken
    <3> QED BY <3>1 DEF AccOfToken
  <2> QED BY <2>5, <2>6
<1>8. CASE TakeLastWord
  BY <1>8 DEF TakeLastWord, AccOfToken
<1>9. CASE UNCHANGED vars
  <2>1. UNCHANGED <<acc, params, list, i, nb_strtok, nb_at>>
    BY <1>9 DEF vars
  <2>2. Token' = Token /\ IsSub' = IsSub /\ Idle' = Idle
    BY <2>1 DEF Token, IsSub, Idle
  <2> QED BY <2>1, <2>2 DEF AccOfToken
<1> QED BY <1>1, <1>2, <1>4, <1>5, <1>6, <1>7, <1>8, <1>9 DEF Next, GetWord

\* As long as no substitution stands between quotes each one gets its own output,
\* although get_stdout() puts it into a variable that outlives the command,
\* vars/expand_vars.c: acc is empty again before the next token is looked at.
THEOREM OutputIsOwn ==
  ASSUME NoQuotedSub
  PROVE  Spec => []OwnOutput
<1>1. Init => AccOfToken
  BY DEF Init, AccOfToken
<1>2. ExpandInv /\ AccOfToken /\ [Next]_vars => AccOfToken'
  BY StepAcc
<1>3. AccOfToken => OwnOutput
  BY DEF AccOfToken, OwnOutput, Output
<1> QED BY <1>1, <1>2, <1>3, ExpandInvHolds, PTL DEF Spec
=============================================================================
