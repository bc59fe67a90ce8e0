--------------------------- MODULE MCDefinitions ---------------------------
(***************************************************************************)
(* Instances of Definitions for TLC: every way in which three definitions  *)
(* a, b and c can refer to each other and themselves, with up to two       *)
(* references each, or to y, a submodule's, or to z, which is undefined;   *)
(* the module may also have a y of its own, that refers to a and z.        *)
(***************************************************************************)
EXTENDS Definitions

Lists(S, n) == UNION {[1..i -> S] : i \in 0..n}

Own3 == {"a", "b", "c"}
Names == Own3 \cup {"y", "z"}

Kinds == {<<"identity", TRUE>>, <<"identity", FALSE>>, <<"feature", TRUE>>,
          <<"typedef", TRUE>>}

References ==
  Lists(Own3, 2) \cup {<<"y">>, <<"z">>, <<"a", "z">>, <<"z", "a">>, <<"z", "z">>}

AllScenarios ==
  {[kind |-> k[1], v11 |-> k[2], own |-> own, given |-> {"y"},
    refs |-> [d \in Names |-> IF d \in Own3 THEN r[d]
                             ELSE IF d = "y" /\ Len(own) = 4 THEN <<"a", "z">>
                             ELSE <<>>]] :
     k \in Kinds, own \in {<<"a", "b", "c">>, <<"y", "a", "b", "c">>},
     r \in [Own3 -> References]}
=============================================================================
