----------------------------- MODULE LoopControl -----------------------------
(***************************************************************************)
(* What break and continue promise, without the counters that implement    *)
(* them: a request is addressed, when it is made, to one of the loops open *)
(* at that moment; the loops inside that one are left without being        *)
(* evaluated again, and the loop itself is left (break) or goes on         *)
(* (continue).  A child process starts inside the loops of its parent and  *)
(* takes its requests with it when it exits.                               *)
(***************************************************************************)
EXTENDS Integers

VARIABLES
  process,   \* the process that runs: a child's number is above its parent's
  open,      \* how many loop evaluations are open around it, outermost first
  target,    \* the loop the pending request is addressed to, 0 if none is
  kind       \* "A_NOTHING", "A_BREAK" or "A_CONTINUE"

vars == <<process, open, target, kind>>

Pending == target # 0

Init == process = 0 /\ open = 0 /\ target = 0 /\ kind = "A_NOTHING"

Enter ==
  /\ ~Pending
  /\ open' = open + 1
  /\ UNCHANGED <<process, target, kind>>

\* break n, continue n: any of the open loops.
Request ==
  /\ ~Pending /\ open > 0
  /\ target' \in 1 .. open
  /\ kind' \in {"A_BREAK", "A_CONTINUE"}
  /\ UNCHANGED <<process, open>>

Resolve == target' = 0 /\ kind' = "A_NOTHING"

\* An evaluation ends and its loop with it.
Leave ==
  /\ open > 0
  /\ open' = open - 1
  /\ IF target = open THEN Resolve ELSE UNCHANGED <<target, kind>>
  /\ UNCHANGED process

\* An evaluation ends and the loop starts another one: only with nothing
\* pending, or a continue addressed to this very loop.
Iterate ==
  /\ open > 0
  /\ Pending => target = open /\ kind = "A_CONTINUE"
  /\ Resolve
  /\ UNCHANGED <<process, open>>

Fork ==
  /\ ~Pending
  /\ process' > process
  /\ UNCHANGED <<open, target, kind>>

\* A process ends; its parent was forked inside some of the loops.
End ==
  /\ process' < process
  /\ open' <= open
  /\ Resolve

Next == Enter \/ Request \/ Leave \/ Iterate \/ Fork \/ End

Spec == Init /\ [][Next]_vars
=============================================================================
