----------------------------- MODULE MCScopes -----------------------------
(* Two builds and a target, a variable and one that it may refer to.       *)
EXTENDS Scopes

CONSTANTS F, G            \* names

L(w) == [text |-> w]
D(n) == [delay |-> n]
I(n) == [immediate |-> n]

TwoOuter == [n \in Name |-> IF n = F THEN <<L("-W")>> ELSE Nil]
Sides == {<<L("-g")>>, <<D(F), L("-O2")>>, <<D(G)>>, <<I(F), D(F)>>}
Flags == {<<L("-g")>>, <<L("-O2")>>}
=============================================================================
