-------------------------------- MODULE XAlloc --------------------------------
(***************************************************************************)
(* The allocator (xalloc/xalloc.c): every block that 42sh allocates has a  *)
(* header in front of it, and the headers form a doubly linked list from   *)
(* head, through which xfree_all() finds what is still allocated when the  *)
(* shell exits.  An address stands for a header and the data behind it.    *)
(***************************************************************************)
EXTENDS Integers, Sequences, FiniteSets

CONSTANTS
  Addr,    \* the addresses malloc() may return
  NULL,
  Byte,    \* the values of a byte, 0 among them
  Size     \* the sizes that are asked for

ASSUME XAllocAssumption ==
  NULL \notin Addr /\ 0 \in Byte /\ Size \subseteq Nat

VARIABLES
  heap,    \* struct xmalloc_t of each block malloc() has given out, its data
  head,    \* the first header of the list
  phase    \* "running", "xfree_all" in xfree_all(), "over" when it returns

vars == <<heap, head, phase>>

Live == DOMAIN heap
Free == Addr \ Live
Running == phase = "running"

Data(size) == [1 .. size -> Byte]
Zeros(size) == [k \in 1 .. size |-> 0]

\* A null pointer is not followed.
SetNext(h, a, n) == IF a = NULL THEN h ELSE [h EXCEPT ![a].next = n]
SetPrevious(h, a, p) == IF a = NULL THEN h ELSE [h EXCEPT ![a].previous = p]

Put(h, a, header) == [b \in DOMAIN h \cup {a} |-> IF b = a THEN header ELSE h[b]]
Drop(h, a) == [b \in DOMAIN h \ {a} |-> h[b]]
-----------------------------------------------------------------------------
\* A plausible bug: the old first header is not told.
InitXmallocOneWay(a, data) ==
  /\ heap' = Put(heap, a, [next |-> head, previous |-> NULL, data |-> data])
  /\ head' = a

\* init_xmalloc(): the new header goes to the front.
InitXmalloc(a, data) ==
  /\ heap' = Put(SetPrevious(heap, head, a), a,
                 [next |-> head, previous |-> NULL, data |-> data])
  /\ head' = a

\* What the program finds in the block, or puts there.
XMalloc ==
  /\ Running
  /\ \E a \in Free, size \in Size : \E data \in Data(size) : InitXmalloc(a, data)
  /\ UNCHANGED phase

\* The total size is 0 for no element at all; no caller asks for elements of
\* size 0, by which xcalloc() would divide.
XCalloc ==
  /\ Running
  /\ \E a \in Free, size \in Size : InitXmalloc(a, Zeros(size))
  /\ UNCHANGED phase

\* A plausible bug: the next header keeps pointing to the one that is freed.
UnlinkOneWay(a) ==
  LET h == heap[a] IN
  /\ heap' = Drop(SetNext(heap, h.previous, h.next), a)
  /\ head' = IF h.previous = NULL THEN h.next ELSE head

\* xfree(): the neighbours are linked to each other.
Unlink(a) ==
  LET h == heap[a] IN
  /\ heap' = Drop(SetNext(SetPrevious(heap, h.next, h.previous),
                          h.previous, h.next), a)
  /\ head' = IF h.previous = NULL THEN h.next ELSE head

XFree == Running /\ (\E a \in Live : Unlink(a)) /\ UNCHANGED phase

\* The bytes of data that fit in size.
Kept(data, size) ==
  SubSeq(data, 1, IF Len(data) < size THEN Len(data) ELSE size)

\* xrealloc(): realloc() has moved the block from a to b, which may be a.
Replace(a, b, data) ==
  LET h == heap[a]
      moved == Put(Drop(heap, a), b, [h EXCEPT !.data = data])
  IN
  /\ heap' = SetPrevious(SetNext(moved, h.previous, b), h.next, b)
  /\ head' = IF h.previous = NULL THEN b ELSE head

\* What is behind the bytes kept is whatever was in memory ...
XRealloc ==
  /\ Running
  /\ \E a \in Live, size \in Size :
       \E b \in Free \cup {a}, data \in Data(size) :
         /\ Kept(data, Len(heap[a].data)) = Kept(heap[a].data, size)
         /\ Replace(a, b, data)
  /\ UNCHANGED phase

\* A plausible bug: the block is filled from its start when it grows.
RecallocedAll(data, size) ==
  IF Len(data) < size THEN Zeros(size) ELSE Kept(data, size)

Recalloced(data, size) ==
  Kept(data, size) \o Zeros(IF Len(data) < size THEN size - Len(data) ELSE 0)

\* ... and xrecalloc() fills it with zeros.
XRecalloc ==
  /\ Running
  /\ \E a \in Live, size \in Size : \E b \in Free \cup {a} :
       Replace(a, b, Recalloced(heap[a].data, size))
  /\ UNCHANGED phase

\* xfree_all(), when the shell exits or check_xmalloc() finds that there is no
\* memory left: frees head until it is null.
XFreeAll == Running /\ phase' = "xfree_all" /\ UNCHANGED <<heap, head>>

\* A plausible bug: the block is freed but stays first in the list.
FreeHeadStays ==
  phase = "xfree_all" /\ head # NULL /\ heap' = Drop(heap, head)
  /\ UNCHANGED <<head, phase>>

FreeHead == phase = "xfree_all" /\ head # NULL /\ Unlink(head) /\ UNCHANGED phase

FreedAll == phase = "xfree_all" /\ head = NULL /\ phase' = "over"
            /\ UNCHANGED <<heap, head>>
-----------------------------------------------------------------------------
Init == heap = <<>> /\ head = NULL /\ phase = "running"

Next == \/ XMalloc \/ XCalloc \/ XFree \/ XRealloc \/ XRecalloc
        \/ XFreeAll \/ FreeHead \/ FreedAll

\* xfree_all() runs to its end.
Fairness == WF_vars(FreeHead \/ FreedAll)

Spec == Init /\ [][Next]_vars /\ Fairness
-----------------------------------------------------------------------------
(* Properties *)

Pointer == Live \cup {NULL}

\* A pointer of the list is null or points to a header that is not freed.
TypeOK ==
  /\ Live \subseteq Addr
  /\ heap \in [Live -> [next : Pointer, previous : Pointer, data : Seq(Byte)]]
  /\ head \in Pointer
  /\ phase \in {"running", "xfree_all", "over"}

\* The addresses s are the list, from head to the end, in both directions.
IsList(s) ==
  /\ head = IF s = <<>> THEN NULL ELSE s[1]
  /\ \A k \in 1 .. Len(s) :
       /\ heap[s[k]].next = IF k = Len(s) THEN NULL ELSE s[k + 1]
       /\ heap[s[k]].previous = IF k = 1 THEN NULL ELSE s[k - 1]

\* Every live block is in the list, once, whatever order blocks are created,
\* resized and freed in.
AllLinked ==
  \E n \in 0 .. Cardinality(Live) :
    \E s \in [1 .. n -> Live] :
      /\ \A j, k \in 1 .. n : s[j] = s[k] => j = k
      /\ {s[k] : k \in 1 .. n} = Live
      /\ IsList(s)

\* xfree_all() returns and leaves no block behind.
FreeAllReturns == phase = "xfree_all" ~> phase = "over" /\ Live = {}

\* xalloc is an allocator.
Blocks == INSTANCE Allocator WITH
  blocks <- [a \in Live |-> heap[a].data],
  over <- phase = "over"

IsAllocator == Blocks!Spec
=============================================================================
