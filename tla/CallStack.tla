------------------------------ MODULE CallStack ------------------------------
(***************************************************************************)
(* What a shell promises about the positional parameters: a function sees  *)
(* the arguments of its call, and its caller has its own again when it     *)
(* returns.                                                                *)
(***************************************************************************)
EXTENDS Naturals, Sequences

CONSTANT Args   \* the argument lists of the script and of calls

VARIABLES
  args,     \* the parameters
  callers   \* those of the callers, outermost first

vars == <<args, callers>>

Init == args \in Args /\ callers = <<>>

Call == /\ args' \in Args
        /\ callers' = Append(callers, args)

Return == /\ callers # <<>>
          /\ args' = callers[Len(callers)]
          /\ callers' = SubSeq(callers, 1, Len(callers) - 1)

Next == Call \/ Return

Spec == Init /\ [][Next]_vars
=============================================================================
