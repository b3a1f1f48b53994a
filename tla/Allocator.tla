------------------------------ MODULE Allocator ------------------------------
(***************************************************************************)
(* What xalloc.h promises: blocks of memory that live from the call that   *)
(* creates them to the one that frees them, keep what is in them when they *)
(* are resized, and are all freed by xfree_all().                          *)
(***************************************************************************)
EXTENDS Integers, Sequences

CONSTANTS
  Addr,  \* the addresses of blocks
  Byte   \* the values of a byte

VARIABLES
  blocks,   \* the live blocks: the bytes in each, by address
  over      \* the program has freed everything and ends

vars == <<blocks, over>>

Live == DOMAIN blocks

\* The blocks in A are as they were.
Untouched(A) == \A a \in A : blocks'[a] = blocks[a]

Init == Live = {} /\ over = FALSE

Create ==
  /\ ~over
  /\ \E a \in Addr \ Live :
       /\ Live' = Live \cup {a}
       /\ blocks'[a] \in Seq(Byte)
       /\ Untouched(Live)
  /\ UNCHANGED over

Free ==
  /\ ~over
  /\ \E a \in Live : Live' = Live \ {a} /\ Untouched(Live \ {a})
  /\ UNCHANGED over

\* Whether data holds what was in old, as far as it reaches.
Keeps(data, old) ==
  \A k \in 1 .. Len(old) : k <= Len(data) => data[k] = old[k]

\* The block may move; what fits of it is kept.
Resize ==
  /\ ~over
  /\ \E a \in Live :
       \E b \in Addr \ (Live \ {a}) :
         /\ Live' = (Live \ {a}) \cup {b}
         /\ blocks'[b] \in Seq(Byte)
         /\ Keeps(blocks'[b], blocks[a])
         /\ Untouched(Live \ {a})
  /\ UNCHANGED over

\* Nothing is left when the program ends.
End == ~over /\ Live = {} /\ over' = TRUE /\ UNCHANGED blocks

Next == Create \/ Free \/ Resize \/ End

Spec == Init /\ [][Next]_vars
=============================================================================
