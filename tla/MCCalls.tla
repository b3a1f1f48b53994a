------------------------------- MODULE MCCalls -------------------------------
(* Instances of Calls: names of functions and addresses of trees are interchangeable. *)
EXTENDS Calls, TLC

MCSymmetry == Permutations(Name) \cup Permutations(Tree)

MCArgs == {<<>>, <<"a">>, <<"", "a">>}
MCDecimal == [i \in 0 .. MaxArgs + 1 |-> ToString(i)]
=============================================================================
