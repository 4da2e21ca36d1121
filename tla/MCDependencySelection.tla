------------------------- MODULE MCDependencySelection -------------------------
(* Instance of DependencySelection for TLC: two repositories of the same        *)
(* priority, one of them with two channels, and a third below them.  Modules a  *)
(* and b depend on x, and x and y may depend on each other.                     *)
EXTENDS DependencySelection, TLC

CONSTANTS a, b, x, y, r1, r2, r3, c1, c2, v1, v2

TheRepository ==
    r1 :> [priority |-> 1, channels |-> <<[name |-> c1, priority |-> 0],
                                          [name |-> c2, priority |-> 0]>>] @@
    r2 :> [priority |-> 1, channels |-> <<[name |-> c1, priority |-> 0]>>] @@
    r3 :> [priority |-> 0, channels |-> <<[name |-> c1, priority |-> 0]>>]

M1 == <<r1, c2>>
M2 == <<r2, c1>>
O1 == <<r1, c1>>
O3 == <<r3, c1>>

\* variants: which origins offer what, with what dependencies, in version v.
Offering(v, variants) ==
    [o \in Origin |-> [m \in Module |->
        IF \E t \in variants : t[1] = o /\ t[2] = m
        THEN [version |-> v, deps |-> (CHOOSE t \in variants : t[1] = o /\ t[2] = m)[3]]
        ELSE NotOffered]]

TheCatalog == {
    \* x, in a circle with y, is offered by M1 without y and by O3 with it
    Offering(v1, {<<O3, a, {x}>>, <<O1, b, {x}>>, <<M1, x, {y}>>, <<O3, x, {y}>>, <<O3, y, {x}>>}),
    \* M1 and M2 differ in what x needs
    Offering(v2, {<<O3, a, {x}>>, <<M2, x, {y}>>, <<M2, y, {}>>, <<M1, x, {}>>})}

Adding(m, o) == [kind |-> "add", id |-> m, origin |-> o]
Of(kind, m) == [kind |-> kind, id |-> m]

TheAsked == {
    {Adding(a, O3), Adding(b, O1)}, {Of("update", a), Of("remove", x)}}

TheNamed == {{a}, {b}}

=============================================================================
