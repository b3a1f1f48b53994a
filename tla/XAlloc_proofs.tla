---------------------------- MODULE XAlloc_proofs ----------------------------
(***************************************************************************)
(* The list of headers is intact and xalloc implements Allocator, for any  *)
(* number of addresses, bytes and sizes.                                   *)
(***************************************************************************)
EXTENDS XAlloc, FiniteSetTheorems, SequenceTheorems, TLAPS

Header == [next : Addr \cup {NULL}, previous : Addr \cup {NULL}, data : Seq(Byte)]

\* p is a pointer to one of S, or null.
PointsTo(p, S) == p \in S \cup {NULL}

\* h is the memory of the blocks S.
IsHeap(h, S) == h \in [S -> Header] /\ DOMAIN h = S
Heap == IsHeap(heap, Live) /\ Live \subseteq Addr /\ PointsTo(head, Live)

\* What stands at place k of the n addresses s.
At(s, n, k) == IF k \in 1 .. n THEN s[k] ELSE NULL

\* The n addresses s are those of the blocks, each once, ...
Counts(s, n) ==
  /\ n \in Nat /\ s \in [1 .. n -> Live]
  /\ \A j, k \in 1 .. n : s[j] = s[k] => j = k
  /\ \A a \in Live : \E k \in 1 .. n : s[k] = a

\* ... and are linked in that order, in both directions.
Chained(s, n) ==
  /\ head = At(s, n, 1)
  /\ \A k \in 1 .. n : /\ heap[s[k]].next = At(s, n, k + 1)
                       /\ heap[s[k]].previous = At(s, n, k - 1)

Phases == {"running", "xfree_all", "over"}
Linked == \E n \in Nat : \E s \in [1 .. n -> Live] : Counts(s, n) /\ Chained(s, n)
AllocInv == Heap /\ Linked /\ phase \in Phases

-----------------------------------------------------------------------------
(***************************************************************************)
(* What a call does to each header                                         *)
(***************************************************************************)
LEMMA PutHeap ==
  ASSUME NEW S, NEW h, IsHeap(h, S), NEW a, NEW header \in Header
  PROVE  IsHeap(Put(h, a, header), S \cup {a})
BY DEF Put, IsHeap

LEMMA PutAt ==
  ASSUME NEW S, NEW h, IsHeap(h, S), NEW a, NEW header \in Header
  PROVE  \A b \in S \cup {a} : Put(h, a, header)[b] = IF b = a THEN header ELSE h[b]
BY DEF Put, IsHeap

LEMMA DropHeap ==
  ASSUME NEW S, NEW h, IsHeap(h, S), NEW a
  PROVE  IsHeap(Drop(h, a), S \ {a})
BY DEF Drop, IsHeap

LEMMA DropAt ==
  ASSUME NEW S, NEW h, IsHeap(h, S), NEW a
  PROVE  \A b \in S : b # a => Drop(h, a)[b] = h[b]
BY DEF Drop, IsHeap

\* g is h but for the pointer next, or previous, of a, which is p.
NextSet(g, h, S, a, p) ==
  \A b \in S : /\ g[b].next = IF b = a THEN p ELSE h[b].next
               /\ g[b].previous = h[b].previous /\ g[b].data = h[b].data
PreviousSet(g, h, S, a, p) ==
  \A b \in S : /\ g[b].previous = IF b = a THEN p ELSE h[b].previous
               /\ g[b].next = h[b].next /\ g[b].data = h[b].data

LEMMA SetNextHeap ==
  ASSUME NEW S, NEW h, IsHeap(h, S), NEW a, NEW p, PointsTo(p, Addr)
  PROVE  IsHeap(SetNext(h, a, p), S)
BY DEF SetNext, Header, IsHeap, PointsTo

LEMMA SetPreviousHeap ==
  ASSUME NEW S, NEW h, IsHeap(h, S), NEW a, NEW p, PointsTo(p, Addr)
  PROVE  IsHeap(SetPrevious(h, a, p), S)
BY DEF SetPrevious, Header, IsHeap, PointsTo

LEMMA SetNextAt ==
  ASSUME NEW S, NULL \notin S, NEW h, IsHeap(h, S), NEW a, NEW p
  PROVE  NextSet(SetNext(h, a, p), h, S, a, p)
BY DEF SetNext, Header, IsHeap, NextSet

LEMMA SetPreviousAt ==
  ASSUME NEW S, NULL \notin S, NEW h, IsHeap(h, S), NEW a, NEW p
  PROVE  PreviousSet(SetPrevious(h, a, p), h, S, a, p)
BY DEF SetPrevious, Header, IsHeap, PreviousSet

LEMMA HeapFacts ==
  ASSUME Heap
  PROVE  IsHeap(heap, Live) /\ NULL \notin Live /\ PointsTo(head, Addr)
BY XAllocAssumption DEF Heap, PointsTo

\* init_xmalloc() changes the header it makes and one pointer of the old first.
LEMMA InitFacts ==
  ASSUME Heap, NEW a \in Free, NEW data \in Seq(Byte), InitXmalloc(a, data)
  PROVE  /\ Live' = Live \cup {a} /\ IsHeap(heap', Live') /\ head' = a
         /\ heap'[a].next = head /\ heap'[a].previous = NULL /\ heap'[a].data = data
         /\ \A b \in Live : /\ heap'[b].next = heap[b].next
                            /\ heap'[b].previous = IF b = head THEN a ELSE heap[b].previous
                            /\ heap'[b].data = heap[b].data
<1> DEFINE old == SetPrevious(heap, head, a)
           header == [next |-> head, previous |-> NULL, data |-> data]
<1>1. heap' = Put(old, a, header) /\ head' = a
  BY DEF InitXmalloc
<1>2. a \in Addr /\ a \notin Live
  BY DEF Free
<1>3. IsHeap(heap, Live) /\ NULL \notin Live /\ PointsTo(head, Addr) /\ PointsTo(a, Addr)
  BY <1>2, HeapFacts DEF PointsTo
<1>4. IsHeap(old, Live)
  BY <1>3, SetPreviousHeap
<1>5. PreviousSet(old, heap, Live, head, a)
  BY <1>3, SetPreviousAt
<1>6. header \in Header
  BY <1>3 DEF Header, PointsTo
<1> HIDE DEF old, header
<1>7. IsHeap(heap', Live \cup {a})
  BY <1>1, <1>4, <1>6, PutHeap
<1>8. \A b \in Live \cup {a} : heap'[b] = IF b = a THEN header ELSE old[b]
  BY <1>1, <1>4, <1>6, PutAt
<1>9. Live' = Live \cup {a}
  BY <1>7 DEF Live, IsHeap
<1>10. heap'[a] = header /\ \A b \in Live : heap'[b] = old[b]
  BY <1>2, <1>8
<1>11. heap'[a].next = head /\ heap'[a].previous = NULL /\ heap'[a].data = data
  BY <1>10 DEF header
<1>12. \A b \in Live : /\ heap'[b].next = heap[b].next
                       /\ heap'[b].previous = IF b = head THEN a ELSE heap[b].previous
                       /\ heap'[b].data = heap[b].data
  BY <1>5, <1>10 DEF PreviousSet
<1> QED BY <1>1, <1>7, <1>9, <1>11, <1>12

\* a is linked between p and n.
Between(a, p, n) == heap[a].previous = p /\ heap[a].next = n

\* xfree() links the neighbours of a to each other.
LEMMA UnlinkFacts ==
  ASSUME Heap, NEW a \in Live, Unlink(a),
         NEW p, NEW n, PointsTo(p, Live), PointsTo(n, Live), Between(a, p, n)
  PROVE  /\ Live' = Live \ {a} /\ IsHeap(heap', Live')
         /\ head' = IF p = NULL THEN n ELSE head
         /\ \A b \in Live \ {a} :
              /\ heap'[b].next = IF b = p THEN n ELSE heap[b].next
              /\ heap'[b].previous = IF b = n THEN p ELSE heap[b].previous
              /\ heap'[b].data = heap[b].data
<1> DEFINE first == SetPrevious(heap, n, p)
           second == SetNext(first, p, n)
<1>1. heap' = Drop(second, a) /\ head' = IF p = NULL THEN n ELSE head
  BY DEF Unlink, Between
<1>2. IsHeap(heap, Live) /\ NULL \notin Live /\ PointsTo(p, Addr) /\ PointsTo(n, Addr)
  BY HeapFacts DEF Heap, PointsTo
<1>3. IsHeap(first, Live)
  BY <1>2, SetPreviousHeap
<1>4. PreviousSet(first, heap, Live, n, p)
  BY <1>2, SetPreviousAt
<1> HIDE DEF first
<1>5. IsHeap(second, Live)
  BY <1>2, <1>3, SetNextHeap
<1>6. NextSet(second, first, Live, p, n)
  BY <1>2, <1>3, SetNextAt
<1> HIDE DEF second
<1>7. IsHeap(heap', Live \ {a})
  BY <1>1, <1>5, DropHeap
<1>8. \A b \in Live : b # a => heap'[b] = second[b]
  BY <1>1, <1>5, DropAt
<1>9. Live' = Live \ {a}
  BY <1>7 DEF Live, IsHeap
<1>10. \A b \in Live \ {a} :
         /\ heap'[b].next = IF b = p THEN n ELSE heap[b].next
         /\ heap'[b].previous = IF b = n THEN p ELSE heap[b].previous
         /\ heap'[b].data = heap[b].data
  BY <1>4, <1>6, <1>8 DEF PreviousSet, NextSet
<1> QED BY <1>1, <1>7, <1>9, <1>10

\* Where realloc() may move a.
MayMove(a, b) == b \in Free \cup {a}

\* It has moved a to b: the neighbours are told.
\* The block a of the heap, between p and n, has become the block b with data.
Replaced(a, b, data, p, n) ==
  /\ Live' = (Live \ {a}) \cup {b} /\ IsHeap(heap', Live')
  /\ head' = IF p = NULL THEN b ELSE head
  /\ heap'[b].next = n /\ heap'[b].previous = p /\ heap'[b].data = data
  /\ \A c \in Live \ {a} :
       /\ heap'[c].next = IF c = p THEN b ELSE heap[c].next
       /\ heap'[c].previous = IF c = n THEN b ELSE heap[c].previous
       /\ heap'[c].data = heap[c].data

LEMMA ReplaceFacts ==
  ASSUME Heap, NEW a \in Live, NEW b, MayMove(a, b), NEW data \in Seq(Byte), Replace(a, b, data),
         NEW p, NEW n, PointsTo(p, Live \ {a}), PointsTo(n, Live \ {a}), Between(a, p, n)
  PROVE  Replaced(a, b, data, p, n)
<1> DEFINE S == (Live \ {a}) \cup {b}
           header == [heap[a] EXCEPT !.data = data]
           left == Drop(heap, a)
           moved == Put(left, b, header)
           first == SetNext(moved, p, b)
<1>1. heap' = SetPrevious(first, n, b) /\ head' = IF p = NULL THEN b ELSE head
  BY DEF Replace, Between
<1>2. IsHeap(heap, Live) /\ NULL \notin Live
  BY HeapFacts
<1>3. /\ b \notin Live \ {a} /\ NULL \notin S /\ PointsTo(b, Addr)
      /\ PointsTo(p, Addr) /\ PointsTo(n, Addr) /\ b # p /\ b # n
  BY XAllocAssumption DEF Heap, Free, PointsTo, MayMove
<1>4. header = [next |-> n, previous |-> p, data |-> data] /\ header \in Header
  <2>1. heap[a] \in Header
    BY <1>2 DEF IsHeap
  <2>2. header = [next |-> n, previous |-> p, data |-> data]
    BY <2>1 DEF Header, Between
  <2> HIDE DEF header
  <2> QED BY <2>2, <1>3 DEF Header, PointsTo
<1> HIDE DEF header
<1>5. IsHeap(left, Live \ {a})
  BY <1>2, DropHeap
<1>6. \A c \in Live : c # a => left[c] = heap[c]
  BY <1>2, DropAt
<1> HIDE DEF left
<1>7. IsHeap(moved, S)
  BY <1>4, <1>5, PutHeap
<1>8. \A c \in S : moved[c] = IF c = b THEN header ELSE left[c]
  BY <1>4, <1>5, PutAt
<1> HIDE DEF moved
<1>9. IsHeap(first, S)
  BY <1>3, <1>7, SetNextHeap
<1>10. NextSet(first, moved, S, p, b)
  BY <1>3, <1>7, SetNextAt
<1> HIDE DEF first
<1>11. IsHeap(heap', S)
  BY <1>1, <1>3, <1>9, SetPreviousHeap
<1>12. PreviousSet(heap', first, S, n, b)
  BY <1>1, <1>3, <1>9, SetPreviousAt
<1>13. Live' = S
  BY <1>11 DEF Live, IsHeap
<1>14. \A c \in S : /\ heap'[c].next = IF c = p THEN b ELSE moved[c].next
                    /\ heap'[c].previous = IF c = n THEN b ELSE moved[c].previous
                    /\ heap'[c].data = moved[c].data
  BY <1>10, <1>12 DEF NextSet, PreviousSet
<1>15. heap'[b].next = n /\ heap'[b].previous = p /\ heap'[b].data = data
  <2>1. moved[b] = header /\ b \in S
    BY <1>8
  <2> QED BY <2>1, <1>3, <1>4, <1>14
<1>16. \A c \in Live \ {a} : c \in S /\ moved[c] = heap[c]
  BY <1>3, <1>6, <1>8
<1>17. \A c \in Live \ {a} :
              /\ heap'[c].next = IF c = p THEN b ELSE heap[c].next
              /\ heap'[c].previous = IF c = n THEN b ELSE heap[c].previous
              /\ heap'[c].data = heap[c].data
  BY <1>14, <1>16
<1> QED BY <1>1, <1>11, <1>13, <1>15, <1>17 DEF Replaced

-----------------------------------------------------------------------------
(***************************************************************************)
(* The list stays whole                                                    *)
(***************************************************************************)
\* The neighbours of the block at place i.
LEMMA Neighbours ==
  ASSUME NEW n \in Nat, NEW s \in [1 .. n -> Live], Counts(s, n), Chained(s, n), NEW i \in 1 .. n
  PROVE  /\ Between(s[i], At(s, n, i - 1), At(s, n, i + 1))
         /\ PointsTo(At(s, n, i - 1), Live \ {s[i]}) /\ PointsTo(At(s, n, i + 1), Live \ {s[i]})
<1>1. Between(s[i], At(s, n, i - 1), At(s, n, i + 1))
  BY DEF Chained, Between
<1>2. \A j \in 1 .. n : j # i => s[j] \in Live /\ s[j] # s[i]
  BY DEF Counts
<1>3. ASSUME NEW j \in Nat, j # i PROVE PointsTo(At(s, n, j), Live \ {s[i]})
  BY <1>2, <1>3 DEF At, PointsTo
<1>4. i - 1 \in Nat /\ i + 1 \in Nat /\ i - 1 # i /\ i + 1 # i
  OBVIOUS
<1> QED BY <1>1, <1>3, <1>4

LEMMA InitLinks ==
  ASSUME AllocInv, NEW a \in Free, NEW data \in Seq(Byte), InitXmalloc(a, data)
  PROVE  Linked'
<1>0. PICK n \in Nat : \E s \in [1 .. n -> Live] : Counts(s, n) /\ Chained(s, n)
  BY DEF AllocInv, Linked
<1>1. PICK s \in [1 .. n -> Live] : Counts(s, n) /\ Chained(s, n)
  BY <1>0
<1> DEFINE t == [k \in 1 .. n + 1 |-> IF k = 1 THEN a ELSE s[k - 1]]
<1>2. /\ Live' = Live \cup {a} /\ head' = a
      /\ heap'[a].next = head /\ heap'[a].previous = NULL
      /\ \A b \in Live : /\ heap'[b].next = heap[b].next
                         /\ heap'[b].previous = IF b = head THEN a ELSE heap[b].previous
  BY InitFacts DEF AllocInv
<1>3. a \notin Live /\ NULL \notin Live
  BY HeapFacts DEF Free, AllocInv
<1>4. /\ t \in [1 .. n + 1 -> Live'] /\ t[1] = a
      /\ \A k \in 1 .. n : s[k] \in Live /\ t[k + 1] = s[k]
  BY <1>2
<1>5. \A j, k \in 1 .. n : s[j] = s[k] => j = k
  BY <1>1 DEF Counts
<1>6. \A j \in 2 .. n + 1 : j - 1 \in 1 .. n /\ t[j] = s[j - 1] /\ t[j] \in Live
  BY <1>4
<1>7. \A k \in 1 .. n + 1 : k = 1 \/ k \in 2 .. n + 1
  OBVIOUS
<1> HIDE DEF t
<1>8. Counts(t, n + 1)'
  <2>1. \A j, k \in 1 .. n + 1 : t[j] = t[k] => j = k
    BY <1>3, <1>4, <1>5, <1>6, <1>7
  <2>2. ASSUME NEW b \in Live' PROVE \E k \in 1 .. n + 1 : t[k] = b
    <3>1. CASE b = a
      BY <3>1, <1>4
    <3>2. CASE b \in Live
      <4>1. PICK k \in 1 .. n : s[k] = b
        BY <3>2, <1>1 DEF Counts
      <4>2. k + 1 \in 1 .. n + 1 /\ t[k + 1] = b
        BY <4>1, <1>4
      <4> QED BY <4>2
    <3> QED BY <1>2, <3>1, <3>2
  <2> QED BY <1>4, <2>1, <2>2 DEF Counts
<1>9. \A k \in Nat : At(t, n + 1, k + 1) = IF k = 0 THEN a ELSE At(s, n, k)
  BY <1>4 DEF At
<1>10. head = At(s, n, 1)
  BY <1>1 DEF Chained
<1>11. ASSUME NEW k \in 1 .. n + 1
       PROVE  heap'[t[k]].next = At(t, n + 1, k + 1) /\ heap'[t[k]].previous = At(t, n + 1, k - 1)
  <2>1. CASE k = 1
    <3>1. At(t, n + 1, k - 1) = NULL
      BY <2>1 DEF At
    <3>2. At(t, n + 1, k + 1) = At(s, n, 1)
      BY <2>1, <1>9
    <3> QED BY <2>1, <3>1, <3>2, <1>2, <1>4, <1>10
  <2>2. CASE k # 1
    <3>1. PICK j \in 1 .. n : k = j + 1
      BY <2>2
    <3>2. t[k] = s[j] /\ s[j] \in Live
      BY <3>1, <1>4
    <3>3. heap[s[j]].next = At(s, n, j + 1) /\ heap[s[j]].previous = At(s, n, j - 1)
      BY <1>1 DEF Chained
    <3>4. heap'[t[k]].next = At(t, n + 1, k + 1)
      BY <3>1, <3>2, <3>3, <1>2, <1>9
    <3>5. s[j] = head <=> j = 1
      BY <3>2, <1>3, <1>5, <1>10 DEF At
    <3>6. At(t, n + 1, k - 1) = IF j = 1 THEN a ELSE At(s, n, j - 1)
      <4>1. PICK l \in Nat : l = j - 1
        OBVIOUS
      <4>2. At(t, n + 1, l + 1) = IF l = 0 THEN a ELSE At(s, n, l)
        BY <1>9
      <4>3. l + 1 = k - 1 /\ (l = 0 <=> j = 1)
        BY <3>1, <4>1
      <4> QED BY <4>1, <4>2, <4>3
    <3> QED BY <3>2, <3>3, <3>4, <3>5, <3>6, <1>2
  <2> QED BY <2>1, <2>2
<1>12. head' = At(t, n + 1, 1)
  BY <1>2, <1>4 DEF At
<1>13. Chained(t, n + 1)'
  BY <1>11, <1>12 DEF Chained, At
<1> QED BY <1>4, <1>8, <1>13 DEF Linked

LEMMA UnlinkLinks ==
  ASSUME AllocInv, NEW a \in Live, Unlink(a)
  PROVE  Linked' /\ Live' = Live \ {a} /\ IsHeap(heap', Live')
         /\ \A b \in Live \ {a} : heap'[b].data = heap[b].data
<1>0. PICK n \in Nat : \E s \in [1 .. n -> Live] : Counts(s, n) /\ Chained(s, n)
  BY DEF AllocInv, Linked
<1>1. PICK s \in [1 .. n -> Live] : Counts(s, n) /\ Chained(s, n)
  BY <1>0
<1>2. PICK i \in 1 .. n : s[i] = a
  BY <1>1 DEF Counts
<1> DEFINE p == At(s, n, i - 1)
           q == At(s, n, i + 1)
           m == n - 1
           t == [k \in 1 .. m |-> IF k < i THEN s[k] ELSE s[k + 1]]
<1>3. Between(a, p, q) /\ PointsTo(p, Live) /\ PointsTo(q, Live)
  BY <1>1, <1>2, Neighbours DEF PointsTo
<1>4. Heap
  BY DEF AllocInv
<1>5. /\ Live' = Live \ {a} /\ IsHeap(heap', Live')
      /\ head' = IF p = NULL THEN q ELSE head
      /\ \A b \in Live \ {a} : /\ heap'[b].next = IF b = p THEN q ELSE heap[b].next
                               /\ heap'[b].previous = IF b = q THEN p ELSE heap[b].previous
                               /\ heap'[b].data = heap[b].data
  BY <1>3, <1>4, UnlinkFacts
<1>6. NULL \notin Live
  BY <1>4, HeapFacts
<1>7. \A j, k \in 1 .. n : s[j] = s[k] => j = k
  BY <1>1 DEF Counts
<1>8. \A k \in 1 .. n : k # i => s[k] \in Live \ {a}
  BY <1>2, <1>7
<1>9. m \in Nat /\ n = m + 1
  OBVIOUS
<1> HIDE DEF m
<1>10. \A k \in 1 .. m : IF k < i THEN k \in 1 .. n /\ t[k] = s[k]
                                  ELSE k + 1 \in 1 .. n /\ k + 1 # i /\ t[k] = s[k + 1]
  BY <1>9
<1>11. t \in [1 .. m -> Live']
  BY <1>5, <1>8, <1>9
<1> HIDE DEF t
<1>12. Counts(t, m)'
  <2>1. \A j, k \in 1 .. m : t[j] = t[k] => j = k
    BY <1>7, <1>9, <1>10
  <2>2. ASSUME NEW b \in Live' PROVE \E k \in 1 .. m : t[k] = b
    <3>1. PICK k \in 1 .. n : s[k] = b
      BY <1>1, <1>5 DEF Counts
    <3>2. k # i
      BY <3>1, <1>2, <1>5
    <3>3. CASE k < i
      BY <3>1, <3>3, <1>9, <1>10
    <3>4. CASE k > i
      <4>1. k - 1 \in 1 .. m /\ ~(k - 1 < i) /\ (k - 1) + 1 = k
        BY <3>4, <1>9
      <4> QED BY <3>1, <4>1, <1>10
    <3> QED BY <3>2, <3>3, <3>4
  <2> QED BY <1>9, <1>11, <2>1, <2>2 DEF Counts
\* What stands where in t.
<1>13. \A k \in Int : At(t, m, k) = IF k < i THEN At(s, n, k) ELSE At(s, n, k + 1)
  BY <1>9, <1>10 DEF At
<1>14. \A j \in 1 .. n : (s[j] = p <=> j = i - 1) /\ (s[j] = q <=> j = i + 1)
  BY <1>6, <1>7 DEF At
<1>15. ASSUME NEW k \in 1 .. m
       PROVE  heap'[t[k]].next = At(t, m, k + 1) /\ heap'[t[k]].previous = At(t, m, k - 1)
  <2>1. PICK j \in 1 .. n : t[k] = s[j] /\ j # i /\ j = IF k < i THEN k ELSE k + 1
    BY <1>10, <1>9
  <2>2. s[j] \in Live \ {a}
    BY <2>1, <1>8
  <2>3. heap[s[j]].next = At(s, n, j + 1) /\ heap[s[j]].previous = At(s, n, j - 1)
    BY <1>1 DEF Chained
  <2>4. heap'[s[j]].next = (IF j = i - 1 THEN q ELSE At(s, n, j + 1))
        /\ heap'[s[j]].previous = (IF j = i + 1 THEN p ELSE At(s, n, j - 1))
    BY <2>2, <2>3, <1>5, <1>14
  <2>5. At(t, m, k + 1) = IF k + 1 < i THEN At(s, n, k + 1) ELSE At(s, n, (k + 1) + 1)
    BY <1>13
  <2>6. At(t, m, k - 1) = IF k - 1 < i THEN At(s, n, k - 1) ELSE At(s, n, (k - 1) + 1)
    BY <1>13
  <2>7. At(t, m, k + 1) = IF j = i - 1 THEN q ELSE At(s, n, j + 1)
    <3>1. CASE j = i - 1
      <4>1. k = i - 1
        BY <2>1, <3>1
      <4>2. ~(k + 1 < i) /\ (k + 1) + 1 = i + 1
        BY <4>1
      <4> QED BY <2>5, <3>1, <4>2
    <3>2. CASE j # i - 1 /\ k < i
      <4>1. k = j /\ k + 1 < i
        BY <2>1, <3>2
      <4> QED BY <2>5, <3>2, <4>1
    <3>3. CASE j # i - 1 /\ ~(k < i)
      <4>1. j = k + 1 /\ ~(k + 1 < i)
        BY <2>1, <3>3
      <4> QED BY <2>5, <3>3, <4>1
    <3> QED BY <3>1, <3>2, <3>3
  <2>8. At(t, m, k - 1) = IF j = i + 1 THEN p ELSE At(s, n, j - 1)
    <3>1. CASE j = i + 1
      <4>1. k = i
        BY <2>1, <3>1
      <4> QED BY <2>6, <3>1, <4>1
    <3>2. CASE j # i + 1 /\ k < i
      <4>1. k = j /\ k - 1 < i
        BY <2>1, <3>2
      <4> QED BY <2>6, <3>2, <4>1
    <3>3. CASE j # i + 1 /\ ~(k < i)
      <4>1. j = k + 1 /\ ~(k - 1 < i) /\ (k - 1) + 1 = j - 1
        BY <2>1, <3>3
      <4> QED BY <2>6, <3>3, <4>1
    <3> QED BY <3>1, <3>2, <3>3
  <2> HIDE DEF p, q
  <2> QED BY <2>1, <2>4, <2>7, <2>8
<1>16. head' = At(t, m, 1)
  <2>1. head = At(s, n, 1)
    BY <1>1 DEF Chained
  <2>2. CASE i = 1
    <3>1. p = NULL /\ q = At(t, m, 1)
      <4>1. p = NULL
        BY <2>2 DEF At
      <4>2. At(t, m, 1) = At(s, n, 1 + 1)
        BY <2>2, <1>13
      <4> QED BY <2>2, <4>1, <4>2
    <3> QED BY <3>1, <1>5
  <2>3. CASE i # 1
    <3>1. p # NULL
      BY <2>3, <1>6 DEF At
    <3>2. At(t, m, 1) = At(s, n, 1)
      BY <2>3, <1>13
    <3> QED BY <3>1, <3>2, <2>1, <1>5
  <2> QED BY <2>2, <2>3
<1>17. Chained(t, m)'
  BY <1>15, <1>16 DEF Chained, At
<1> QED BY <1>5, <1>9, <1>11, <1>12, <1>17 DEF Linked

LEMMA ReplaceLinks ==
  ASSUME AllocInv, NEW a \in Live, NEW b, MayMove(a, b), NEW data \in Seq(Byte), Replace(a, b, data)
  PROVE  /\ Linked' /\ Live' = (Live \ {a}) \cup {b} /\ IsHeap(heap', Live') /\ heap'[b].data = data
         /\ \A c \in Live \ {a} : heap'[c].data = heap[c].data
         /\ PointsTo(head', Live')
<1>0. PICK n \in Nat : \E s \in [1 .. n -> Live] : Counts(s, n) /\ Chained(s, n)
  BY DEF AllocInv, Linked
<1>1. PICK s \in [1 .. n -> Live] : Counts(s, n) /\ Chained(s, n)
  BY <1>0
<1>2. PICK i \in 1 .. n : s[i] = a
  BY <1>1 DEF Counts
<1> DEFINE p == At(s, n, i - 1)
           q == At(s, n, i + 1)
           t == [k \in 1 .. n |-> IF k = i THEN b ELSE s[k]]
<1>3. Between(a, p, q) /\ PointsTo(p, Live \ {a}) /\ PointsTo(q, Live \ {a})
  BY <1>1, <1>2, Neighbours
<1>4. Heap
  BY DEF AllocInv
<1>5. /\ Live' = (Live \ {a}) \cup {b} /\ IsHeap(heap', Live')
      /\ head' = IF p = NULL THEN b ELSE head
      /\ heap'[b].next = q /\ heap'[b].previous = p /\ heap'[b].data = data
      /\ \A c \in Live \ {a} : /\ heap'[c].next = IF c = p THEN b ELSE heap[c].next
                               /\ heap'[c].previous = IF c = q THEN b ELSE heap[c].previous
                               /\ heap'[c].data = heap[c].data
  <2> HIDE DEF p, q
  <2>1. Replaced(a, b, data, p, q)
    BY <1>3, <1>4, ReplaceFacts
  <2> QED BY <2>1 DEF Replaced
<1>6. NULL \notin Live /\ b \notin Live \ {a}
  BY <1>4, HeapFacts DEF Free, MayMove
<1>7. \A j, k \in 1 .. n : s[j] = s[k] => j = k
  BY <1>1 DEF Counts
<1>8. \A k \in 1 .. n : k # i => s[k] \in Live \ {a}
  BY <1>2, <1>7
<1>9. /\ t \in [1 .. n -> Live'] /\ t[i] = b
      /\ \A k \in 1 .. n : k # i => t[k] = s[k]
  BY <1>5, <1>8
<1> HIDE DEF t
<1>10. Counts(t, n)'
  <2>1. \A j, k \in 1 .. n : t[j] = t[k] => j = k
    BY <1>6, <1>7, <1>8, <1>9
  <2>2. ASSUME NEW c \in Live' PROVE \E k \in 1 .. n : t[k] = c
    <3>1. CASE c = b
      BY <3>1, <1>9
    <3>2. CASE c # b
      <4>1. c \in Live /\ c # a
        BY <3>2, <1>5
      <4>2. PICK k \in 1 .. n : s[k] = c
        BY <4>1, <1>1 DEF Counts
      <4> QED BY <4>1, <4>2, <1>2, <1>9
    <3> QED BY <3>1, <3>2
  <2> QED BY <1>9, <2>1, <2>2 DEF Counts
<1>11. \A k \in Int : At(t, n, k) = IF k = i THEN b ELSE At(s, n, k)
  BY <1>9 DEF At
<1>12. \A j \in 1 .. n : (s[j] = p <=> j = i - 1) /\ (s[j] = q <=> j = i + 1)
  BY <1>6, <1>7 DEF At
<1>13. ASSUME NEW k \in 1 .. n
       PROVE  heap'[t[k]].next = At(t, n, k + 1) /\ heap'[t[k]].previous = At(t, n, k - 1)
  <2>1. /\ At(t, n, k + 1) = IF k + 1 = i THEN b ELSE At(s, n, k + 1)
        /\ At(t, n, k - 1) = IF k - 1 = i THEN b ELSE At(s, n, k - 1)
    BY <1>11
  <2>2. CASE k = i
    BY <2>1, <2>2, <1>5, <1>9
  <2>3. CASE k # i
    <3>1. t[k] = s[k] /\ s[k] \in Live \ {a}
      BY <2>3, <1>8, <1>9
    <3>2. heap[s[k]].next = At(s, n, k + 1) /\ heap[s[k]].previous = At(s, n, k - 1)
      BY <1>1 DEF Chained
    <3>3. (s[k] = p <=> k + 1 = i) /\ (s[k] = q <=> k - 1 = i)
      BY <1>12
    <3> HIDE DEF p, q
    <3> QED BY <2>1, <3>1, <3>2, <3>3, <1>5
  <2> QED BY <2>2, <2>3
<1>14. head' = At(t, n, 1)
  <2>1. head = At(s, n, 1) /\ At(t, n, 1) = IF 1 = i THEN b ELSE At(s, n, 1)
    BY <1>1, <1>11 DEF Chained
  <2>2. p = NULL <=> i = 1
    BY <1>6 DEF At
  <2> QED BY <2>1, <2>2, <1>5
<1>15. Chained(t, n)'
  BY <1>13, <1>14 DEF Chained, At
<1>16. PointsTo(head', Live')
  BY <1>9, <1>14 DEF At, PointsTo
<1> QED BY <1>5, <1>9, <1>10, <1>15, <1>16 DEF Linked

-----------------------------------------------------------------------------
(***************************************************************************)
(* The invariant                                                           *)
(***************************************************************************)
\* What a call has to do.
LEMMA KeepsInv ==
  ASSUME IsHeap(heap', Live'), Live' \subseteq Addr, Linked', phase' \in Phases
  PROVE  AllocInv'
<1>1. PICK n \in Nat : \E s \in [1 .. n -> Live'] : Chained(s, n)'
  BY DEF Linked
<1>2. PICK s \in [1 .. n -> Live'] : Chained(s, n)'
  BY <1>1
<1>3. PointsTo(head', Live')
  BY <1>2 DEF Chained, At, PointsTo
<1> QED BY <1>3 DEF AllocInv, Heap, PointsTo

LEMMA FreeHeadIsUnlink ==
  ASSUME AllocInv, FreeHead
  PROVE  head \in Live /\ Unlink(head)
BY DEF AllocInv, Heap, PointsTo, FreeHead

LEMMA ConcatFacts ==
  ASSUME NEW s \in Seq(Byte), NEW t \in Seq(Byte)
  PROVE  /\ s \o t \in Seq(Byte) /\ Len(s \o t) = Len(s) + Len(t)
         /\ \A k \in 1 .. Len(s) : (s \o t)[k] = s[k]
BY ConcatProperties

LEMMA RecallocedBytes ==
  ASSUME NEW data \in Seq(Byte), NEW size \in Nat
  PROVE  /\ Recalloced(data, size) \in Seq(Byte)
         /\ \A k \in 1 .. Len(data) :
              k <= Len(Recalloced(data, size)) => Recalloced(data, size)[k] = data[k]
<1> DEFINE l == IF Len(data) < size THEN Len(data) ELSE size
           m == IF Len(data) < size THEN size - Len(data) ELSE 0
<1>1. Len(data) \in Nat /\ l \in Nat /\ l <= Len(data) /\ m \in Nat
  BY LenProperties
<1> HIDE DEF l, m
<1>2. /\ SubSeq(data, 1, l) \in Seq(Byte) /\ Len(SubSeq(data, 1, l)) = l
      /\ \A k \in 1 .. l : SubSeq(data, 1, l)[k] = data[k]
  BY <1>1
<1>3. Zeros(m) \in Seq(Byte) /\ Len(Zeros(m)) = m
  BY <1>1, XAllocAssumption DEF Zeros
<1>4. Recalloced(data, size) = SubSeq(data, 1, l) \o Zeros(m)
  BY DEF Recalloced, Kept, l, m
<1>5. /\ Recalloced(data, size) \in Seq(Byte) /\ Len(Recalloced(data, size)) = l + m
      /\ \A k \in 1 .. l : Recalloced(data, size)[k] = data[k]
  <2> DEFINE kept == SubSeq(data, 1, l)
             zeros == Zeros(m)
  <2>1. kept \in Seq(Byte) /\ zeros \in Seq(Byte) /\ Len(kept) = l /\ Len(zeros) = m
    BY <1>2, <1>3
  <2>2. \A k \in 1 .. l : kept[k] = data[k]
    BY <1>2
  <2>3. Recalloced(data, size) = kept \o zeros
    BY <1>4
  <2> HIDE DEF kept, zeros
  <2>4. /\ kept \o zeros \in Seq(Byte) /\ Len(kept \o zeros) = l + m
        /\ \A k \in 1 .. l : (kept \o zeros)[k] = kept[k]
    BY <2>1, ConcatFacts
  <2> QED BY <2>2, <2>3, <2>4
<1>6. \A k \in 1 .. Len(data) : k <= l + m => k \in 1 .. l
  <2>1. Len(data) \in Nat
    BY LenProperties
  <2> QED BY <2>1 DEF l, m
<1> QED BY <1>5, <1>6

LEMMA DataBytes ==
  ASSUME NEW size \in Size, NEW data \in Data(size)
  PROVE  data \in Seq(Byte) /\ Len(data) = size
BY XAllocAssumption DEF Data

LEMMA ZerosBytes ==
  ASSUME NEW size \in Size
  PROVE  Zeros(size) \in Seq(Byte)
BY XAllocAssumption DEF Zeros

\* What xrealloc() keeps.
LEMMA KeptBytes ==
  ASSUME NEW old \in Seq(Byte), NEW size \in Size, NEW data \in Data(size),
         Kept(data, Len(old)) = Kept(old, size)
  PROVE  \A k \in 1 .. Len(old) : k <= Len(data) => data[k] = old[k]
<1> DEFINE l == IF Len(old) < size THEN Len(old) ELSE size
           m == IF Len(data) < Len(old) THEN Len(data) ELSE Len(old)
<1>1. data \in Seq(Byte) /\ Len(data) = size /\ Len(data) \in Nat /\ Len(old) \in Nat
  BY DataBytes, LenProperties
<1>2. l = m /\ l \in Nat /\ l <= Len(old) /\ l <= Len(data)
  BY <1>1
<1>3. SubSeq(data, 1, m) = SubSeq(old, 1, l)
  BY DEF Kept
<1>4. \A k \in 1 .. Len(old) : k <= Len(data) => k \in 1 .. l
  BY <1>1
<1> HIDE DEF l, m
<1>5. \A k \in 1 .. l : SubSeq(data, 1, l)[k] = data[k]
  BY <1>1, <1>2
<1>6. \A k \in 1 .. l : SubSeq(old, 1, l)[k] = old[k]
  BY <1>1, <1>2
<1> QED BY <1>2, <1>3, <1>4, <1>5, <1>6

LEMMA DataIsBytes ==
  ASSUME Heap, NEW a \in Live
  PROVE  heap[a].data \in Seq(Byte)
<1>1. heap[a] \in Header
  BY DEF Heap, IsHeap
<1> QED BY <1>1 DEF Header

LEMMA AllocInit == Init => AllocInv
<1> SUFFICES ASSUME Init PROVE AllocInv
  OBVIOUS
<1>1. Live = {} /\ head = NULL /\ phase = "running" /\ heap = <<>>
  BY DEF Init, Live
<1>2. IsHeap(heap, Live)
  BY <1>1 DEF IsHeap
<1>3. <<>> \in [1 .. 0 -> Live] /\ Counts(<<>>, 0) /\ Chained(<<>>, 0)
  BY <1>1 DEF Counts, Chained, At
<1>4. Linked
  BY <1>3 DEF Linked
<1> QED BY <1>1, <1>2, <1>4 DEF AllocInv, Heap, PointsTo, Phases

-----------------------------------------------------------------------------
(***************************************************************************)
(* Every call keeps the list whole and does what Allocator says            *)
(***************************************************************************)
\* The blocks that Allocator sees.
LEMMA BlocksFacts ==
  /\ Blocks!Live = Live /\ Blocks!Live' = Live'
  /\ \A a \in Live : [b \in Live |-> heap[b].data][a] = heap[a].data
  /\ \A a \in Live' : [b \in Live' |-> heap'[b].data][a] = heap'[a].data
BY DEF Blocks!Live

LEMMA InitCreates ==
  ASSUME AllocInv, Running, UNCHANGED phase,
         NEW a \in Free, NEW data \in Seq(Byte), InitXmalloc(a, data)
  PROVE  AllocInv' /\ Blocks!Create
<1>1. /\ Live' = Live \cup {a} /\ IsHeap(heap', Live') /\ heap'[a].data = data
      /\ \A b \in Live : heap'[b].data = heap[b].data
  BY InitFacts DEF AllocInv
<1>2. Linked'
  BY InitLinks
<1>3. Live' \subseteq Addr /\ phase' \in Phases
  BY <1>1 DEF AllocInv, Heap, Free
<1>4. AllocInv'
  BY <1>1, <1>2, <1>3, KeepsInv
<1>5. a \in Addr \ Live /\ phase # "over" /\ phase' = phase
  BY DEF Free, Running
<1>6. Blocks!Create
  BY <1>1, <1>5, BlocksFacts DEF Blocks!Create, Blocks!Untouched
<1> QED BY <1>4, <1>6

LEMMA UnlinkFrees ==
  ASSUME AllocInv, phase # "over", UNCHANGED phase, NEW a \in Live, Unlink(a)
  PROVE  AllocInv' /\ Blocks!Free
<1>1. /\ Linked' /\ Live' = Live \ {a} /\ IsHeap(heap', Live')
      /\ \A b \in Live \ {a} : heap'[b].data = heap[b].data
  BY UnlinkLinks
<1>2. Live' \subseteq Addr /\ phase' \in Phases
  BY <1>1 DEF AllocInv, Heap
<1>3. AllocInv'
  BY <1>1, <1>2, KeepsInv
<1>4. Blocks!Free
  BY <1>1, BlocksFacts DEF Blocks!Free, Blocks!Untouched
<1> QED BY <1>3, <1>4

LEMMA ReplaceResizes ==
  ASSUME AllocInv, Running, UNCHANGED phase,
         NEW a \in Live, NEW b, MayMove(a, b), NEW data \in Seq(Byte), Replace(a, b, data),
         \A k \in 1 .. Len(heap[a].data) : k <= Len(data) => data[k] = heap[a].data[k]
  PROVE  AllocInv' /\ Blocks!Resize
<1>1. /\ Linked' /\ Live' = (Live \ {a}) \cup {b} /\ IsHeap(heap', Live') /\ heap'[b].data = data
      /\ \A c \in Live \ {a} : heap'[c].data = heap[c].data
  BY ReplaceLinks
<1>2. Live' \subseteq Addr /\ phase' \in Phases
  BY <1>1 DEF AllocInv, Heap, MayMove, Free
<1>3. AllocInv'
  BY <1>1, <1>2, KeepsInv
<1>4. b \in Addr \ (Live \ {a}) /\ phase # "over" /\ phase' = phase
  BY DEF MayMove, Free, Running, AllocInv, Heap
<1>5. Blocks!Keeps(data, heap[a].data)
  BY DEF Blocks!Keeps
<1>6. /\ [c \in Live' |-> heap'[c].data][b] = data
      /\ [c \in Live |-> heap[c].data][a] = heap[a].data
  BY <1>1
<1>7. \A c \in Live \ {a} : [d \in Live' |-> heap'[d].data][c] = [d \in Live |-> heap[d].data][c]
  BY <1>1
<1>8. Blocks!Resize
  BY <1>1, <1>4, <1>5, <1>6, <1>7, BlocksFacts DEF Blocks!Resize, Blocks!Untouched
<1> QED BY <1>3, <1>8

LEMMA AllocStep ==
  ASSUME AllocInv, [Next]_vars
  PROVE  AllocInv' /\ [Blocks!Next]_(Blocks!vars)
<1>1. Heap
  BY DEF AllocInv
<1>2. CASE XMalloc
  <2>1. PICK a \in Free, size \in Size : \E data \in Data(size) : InitXmalloc(a, data)
    BY <1>2 DEF XMalloc
  <2>2. PICK data \in Data(size) : InitXmalloc(a, data)
    BY <2>1
  <2>3. data \in Seq(Byte)
    BY DataBytes
  <2> QED BY <1>2, <2>2, <2>3, InitCreates DEF XMalloc, Blocks!Next
<1>3. CASE XCalloc
  <2>1. PICK a \in Free, size \in Size : InitXmalloc(a, Zeros(size))
    BY <1>3 DEF XCalloc
  <2>2. Zeros(size) \in Seq(Byte)
    BY ZerosBytes
  <2> QED BY <1>3, <2>1, <2>2, InitCreates DEF XCalloc, Blocks!Next
<1>4. CASE XFree
  <2>1. PICK a \in Live : Unlink(a)
    BY <1>4 DEF XFree
  <2>2. phase # "over"
    BY <1>4 DEF XFree, Running
  <2> QED BY <1>4, <2>1, <2>2, UnlinkFrees DEF XFree, Blocks!Next
<1>5. CASE XRealloc
  <2>1. PICK a \in Live, size \in Size :
          \E b \in Free \cup {a}, data \in Data(size) :
            Kept(data, Len(heap[a].data)) = Kept(heap[a].data, size) /\ Replace(a, b, data)
    BY <1>5 DEF XRealloc
  <2>2. PICK b \in Free \cup {a}, data \in Data(size) :
            Kept(data, Len(heap[a].data)) = Kept(heap[a].data, size) /\ Replace(a, b, data)
    BY <2>1
  <2>3. MayMove(a, b)
    BY DEF MayMove
  <2>4. heap[a].data \in Seq(Byte) /\ data \in Seq(Byte)
    BY <1>1, DataIsBytes, DataBytes
  <2>5. \A k \in 1 .. Len(heap[a].data) : k <= Len(data) => data[k] = heap[a].data[k]
    BY <2>2, <2>4, KeptBytes
  <2>6. Running /\ UNCHANGED phase
    BY <1>5 DEF XRealloc
  <2> QED BY <2>2, <2>3, <2>4, <2>5, <2>6, ReplaceResizes DEF Blocks!Next
<1>6. CASE XRecalloc
  <2>1. PICK a \in Live, size \in Size :
          \E b \in Free \cup {a} : Replace(a, b, Recalloced(heap[a].data, size))
    BY <1>6 DEF XRecalloc
  <2>2. PICK b \in Free \cup {a} : Replace(a, b, Recalloced(heap[a].data, size))
    BY <2>1
  <2> DEFINE data == Recalloced(heap[a].data, size)
  <2>3. MayMove(a, b)
    BY DEF MayMove
  <2>4. heap[a].data \in Seq(Byte) /\ size \in Nat
    BY <1>1, DataIsBytes, XAllocAssumption
  <2>5. /\ data \in Seq(Byte)
        /\ \A k \in 1 .. Len(heap[a].data) : k <= Len(data) => data[k] = heap[a].data[k]
    BY <2>4, RecallocedBytes
  <2>6. Running /\ UNCHANGED phase /\ Replace(a, b, data)
    BY <1>6, <2>2 DEF XRecalloc
  <2> HIDE DEF data
  <2> QED BY <2>3, <2>5, <2>6, ReplaceResizes DEF Blocks!Next
<1>7. CASE FreeHead
  <2>1. head \in Live /\ Unlink(head)
    BY <1>7, FreeHeadIsUnlink
  <2>2. phase # "over" /\ UNCHANGED phase
    BY <1>7 DEF FreeHead
  <2> QED BY <2>1, <2>2, UnlinkFrees DEF Blocks!Next
<1>8. CASE XFreeAll \/ FreedAll \/ UNCHANGED vars
  <2>1. UNCHANGED <<heap, head>> /\ Live' = Live
    BY <1>8 DEF XFreeAll, FreedAll, vars, Live
  <2>2. phase' \in Phases
    BY <1>8 DEF XFreeAll, FreedAll, vars, Phases, AllocInv
  <2>3. Linked'
    <3>1. PICK n \in Nat : \E s \in [1 .. n -> Live] : Counts(s, n) /\ Chained(s, n)
      BY DEF AllocInv, Linked
    <3>2. PICK s \in [1 .. n -> Live] : Counts(s, n) /\ Chained(s, n)
      BY <3>1
    <3>3. Counts(s, n)' /\ Chained(s, n)' /\ s \in [1 .. n -> Live']
      BY <2>1, <3>2 DEF Counts, Chained, At
    <3> QED BY <3>3 DEF Linked
  <2>4. AllocInv'
    BY <2>1, <2>2, <2>3, <1>1, KeepsInv DEF Heap
  <2>5. CASE XFreeAll \/ UNCHANGED vars
    <3>1. (phase = "over") = (phase' = "over")
      BY <2>5 DEF XFreeAll, Running, vars
    <3>2. UNCHANGED Blocks!vars
      BY <2>1, <3>1 DEF Blocks!vars
    <3> QED BY <2>4, <3>2
  <2>6. CASE FreedAll
    <3>1. Live = {}
      <4>1. PICK n \in Nat : \E s \in [1 .. n -> Live] : Counts(s, n) /\ Chained(s, n)
        BY DEF AllocInv, Linked
      <4>2. PICK s \in [1 .. n -> Live] : Counts(s, n) /\ Chained(s, n)
        BY <4>1
      <4>3. At(s, n, 1) = NULL /\ NULL \notin Live
        BY <4>2, <2>6, <1>1, HeapFacts DEF Chained, FreedAll
      <4>4. n = 0
        BY <4>3 DEF At
      <4> QED BY <4>2, <4>4 DEF Counts
    <3>2. Blocks!End
      BY <2>1, <2>6, <3>1, BlocksFacts DEF Blocks!End, FreedAll
    <3> QED BY <2>4, <3>2 DEF Blocks!Next
  <2> QED BY <1>8, <2>5, <2>6
<1> QED BY <1>2, <1>3, <1>4, <1>5, <1>6, <1>7, <1>8 DEF Next

-----------------------------------------------------------------------------
(***************************************************************************)
(* The theorems                                                            *)
(***************************************************************************)
LEMMA AllocInvTyped == AllocInv => TypeOK
<1> SUFFICES ASSUME AllocInv PROVE TypeOK
  OBVIOUS
<1>1. PICK n \in Nat : \E s \in [1 .. n -> Live] : Counts(s, n) /\ Chained(s, n)
  BY DEF AllocInv, Linked
<1>2. PICK s \in [1 .. n -> Live] : Counts(s, n) /\ Chained(s, n)
  BY <1>1
<1>3. \A k \in Int : At(s, n, k) \in Pointer
  BY DEF At, Pointer
<1>4. ASSUME NEW a \in Live
      PROVE  heap[a] \in [next : Pointer, previous : Pointer, data : Seq(Byte)]
  <2>1. PICK k \in 1 .. n : s[k] = a
    BY <1>2 DEF Counts
  <2>2. heap[a].next = At(s, n, k + 1) /\ heap[a].previous = At(s, n, k - 1)
    BY <1>2, <2>1 DEF Chained
  <2>3. heap[a].next \in Pointer /\ heap[a].previous \in Pointer
    BY <1>3, <2>2
  <2>4. heap[a] \in Header
    BY DEF AllocInv, Heap, IsHeap
  <2> QED BY <2>3, <2>4 DEF Header
<1>5. heap = [a \in Live |-> heap[a]]
  BY DEF AllocInv, Heap, IsHeap
<1> DEFINE Typed == [next : Pointer, previous : Pointer, data : Seq(Byte)]
<1> HIDE DEF Typed
<1>6. heap \in [Live -> Typed]
  BY <1>4, <1>5 DEF Typed
<1> QED BY <1>6 DEF TypeOK, Typed, AllocInv, Heap, PointsTo, Pointer, Phases

LEMMA AllocInvLinked == AllocInv => AllLinked
<1> SUFFICES ASSUME AllocInv PROVE AllLinked
  OBVIOUS
<1>1. PICK n \in Nat : \E s \in [1 .. n -> Live] : Counts(s, n) /\ Chained(s, n)
  BY DEF AllocInv, Linked
<1>2. PICK s \in [1 .. n -> Live] : Counts(s, n) /\ Chained(s, n)
  BY <1>1
<1>3. /\ \A j, k \in 1 .. n : s[j] = s[k] => j = k
      /\ {s[k] : k \in 1 .. n} = Live
  BY <1>2 DEF Counts
<1>4. s \in Bijection(1 .. n, Live)
  BY <1>3 DEF Bijection, Injection, Surjection, IsInjective
<1>5. Cardinality(Live) = n
  BY <1>4, FS_CountingElements DEF ExistsBijection
<1>6. s \in Seq(Live) /\ Len(s) = n
  OBVIOUS
<1>7. head = IF s = <<>> THEN NULL ELSE s[1]
  <2>1. head = At(s, n, 1)
    BY <1>2 DEF Chained
  <2> QED BY <1>6, <2>1 DEF At
<1>8. \A k \in 1 .. n : /\ heap[s[k]].next = IF k = n THEN NULL ELSE s[k + 1]
                        /\ heap[s[k]].previous = IF k = 1 THEN NULL ELSE s[k - 1]
  BY <1>2 DEF Chained, At
<1>9. IsList(s)
  BY <1>6, <1>7, <1>8 DEF IsList
<1>10. n \in 0 .. Cardinality(Live)
  BY <1>5
<1> QED BY <1>3, <1>9, <1>10 DEF AllLinked

LEMMA AllocSafe == Spec => []AllocInv
BY AllocInit, AllocStep, PTL DEF Spec

\* No pointer of the list leads to a block that was freed, for any number of
\* blocks, sizes and calls.
THEOREM AllocTypeCorrect == Spec => []TypeOK
BY AllocSafe, AllocInvTyped, PTL

\* Every live block is in the list once, and the list is linked in both
\* directions from head to its end: xfree_all() finds them all.
THEOREM LinksCorrect == Spec => []AllLinked
BY AllocSafe, AllocInvLinked, PTL

\* xmalloc(), xcalloc(), xrealloc(), xrecalloc() and xfree() never change a
\* block they are not asked to change, and nothing is left when xfree_all()
\* returns: xalloc implements Allocator.
THEOREM AllocRefines == Spec => IsAllocator
<1>1. Init => Blocks!Init
  <2> SUFFICES ASSUME Init PROVE Blocks!Init
    OBVIOUS
  <2>1. Live = {} /\ phase = "running"
    BY DEF Init, Live
  <2> QED BY <2>1, BlocksFacts DEF Blocks!Init
<1>2. AllocInv /\ [Next]_vars => [Blocks!Next]_(Blocks!vars)
  BY AllocStep
<1> QED BY <1>1, <1>2, AllocSafe, PTL DEF Spec, IsAllocator, Blocks!Spec
=============================================================================
