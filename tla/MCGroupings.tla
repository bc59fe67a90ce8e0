---------------------------- MODULE MCGroupings ----------------------------
(***************************************************************************)
(* Instances of Groupings for TLC: three groupings, each with              *)
(*  - up to two `uses' of a, b and c, or one of y, a submodule's, of z,    *)
(*    which is undefined, or of n, which it does not have; or              *)
(*  - a nested grouping n that uses one of a, b, c, z and itself, and a    *)
(*    `uses' of n, followed or not by one of a, b or c.                    *)
(***************************************************************************)
EXTENDS Groupings

Lists(S, lo, hi) == UNION {[1..i -> S] : i \in lo..hi}

Own3 == {"a", "b", "c"}
Names == Own3 \cup {"y", "z"}

Shape(uses, nested) == [uses |-> uses, nested |-> nested]

Shapes ==
  {Shape(u, <<>>) : u \in Lists(Own3, 0, 2) \cup {<<"y">>, <<"z">>, <<"n">>}} \cup
  {Shape(<<"n">>, <<<<r>>>>) : r \in Own3 \cup {"z", "n"}} \cup
  {Shape(<<"n", u>>, <<<<r>>>>) : u \in Own3, r \in Own3}

AllScenarios ==
  {[own |-> <<"a", "b", "c">>, given |-> {"y"}, body |-> b] :
     b \in [Own3 -> Shapes]}
=============================================================================
