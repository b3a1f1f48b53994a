------------------------------ MODULE VarVector ------------------------------
(***************************************************************************)
(* The variables of the shell (vars/xvars.c): a vector of names and values *)
(* in allocated memory, searched from the front, that grows before it is   *)
(* full.  Nothing is ever taken out: a variable that is unset is "".       *)
(***************************************************************************)
EXTENDS Integers, Sequences, FiniteSetsExt

CONSTANTS
  NULL,
  FirstCap     \* the capacity that init_vars_vect() starts with: 8

Zero == [name |-> NULL, value |-> NULL]

\* init_vars_vect(): the memory is cleared.
NoVariables == [len |-> 0, cap |-> FirstCap, list |-> [k \in 1 .. FirstCap |-> Zero]]

\* The places that hold name.
Places(vect, name) == {k \in 1 .. vect.len : vect.list[k].name = name}

\* When add_var() grows the vector first: one place always stays unused.
Full(vect) == vect.len >= vect.cap - 1

\* A plausible bug: xcalloc() in the place of xrecalloc(), nothing is copied.
GrownEmpty(vect) ==
  [vect EXCEPT !.cap = 2 * @, !.list = [k \in 1 .. 2 * vect.cap |-> Zero]]

\* xrecalloc() to twice the room.
Grown(vect) ==
  [vect EXCEPT !.cap = 2 * @, !.list = @ \o [k \in 1 .. vect.cap |-> Zero]]

\* A name that is not there gets the first unused place.
NewPlace(vect, name, value) ==
  LET roomy == IF Full(vect) THEN Grown(vect) ELSE vect
  IN [roomy EXCEPT !.list[roomy.len + 1] = [name |-> name, value |-> value], !.len = @ + 1]

\* add_var()
AddVar(vect, name, value) ==
  LET places == Places(vect, name)
  IN IF places # {} THEN [vect EXCEPT !.list[Min(places)].value = value]
     ELSE NewPlace(vect, name, value)

\* add_var() of the pairs <<name, value>>, one after another.
AddVars(vect, pairs) ==
  LET after[k \in 0 .. Len(pairs)] ==
        IF k = 0 THEN vect ELSE AddVar(after[k - 1], pairs[k][1], pairs[k][2])
  IN  after[Len(pairs)]

\* get_var(), of a name that has no meaning of its own.
GetVar(vect, name) ==
  LET places == Places(vect, name)
  IN IF places # {} THEN vect.list[Min(places)].value ELSE ""

\* The variables fit in the memory with a place to spare, what is behind them is
\* zero, and no name has two places.
Fits(vect) ==
  /\ vect.len < vect.cap /\ DOMAIN vect.list = 1 .. vect.cap
  /\ \A k \in 1 .. vect.cap : k <= vect.len <=> vect.list[k] # Zero
  /\ \A k \in 1 .. vect.len : Places(vect, vect.list[k].name) = {k}
=============================================================================
