----------------------------- MODULE MCIfFeature -----------------------------
(***************************************************************************)
(* Instances of IfFeature for TLC: expressions of up to six tokens with    *)
(* white space between them, and short texts of any pieces.                *)
(***************************************************************************)
EXTENDS IfFeature

Upto(S, n) == UNION {[1 .. i -> S] : i \in 0 .. n}
Spaced(s) == [i \in 1 .. 2 * Len(s) - 1 |-> IF i % 2 = 1 THEN s[(i + 1) \div 2] ELSE "sp"]
Expressions == {Spaced(s) : s \in Upto({"or", "and", "not", "x", "(", ")"}, 5) \ {<<>>}}
Long == {Spaced(<<"x", s[1], "y", s[2], s[3], s[4], "x">>) :
           s \in [1 .. 4 -> {"or", "and", "not", "y", "(", ")"}]}
Texts == Upto(Piece \ {"y"}, 4)

MCScenario ==
  [text : Expressions \cup Long, version : {2}, given : {{<<"x">>}, AllFeatures, NoFeatures}]
  \cup [text : Texts, version : {2}, given : {{<<"x">>}}]
  \cup [text : Upto(Piece \ {"y"}, 3), version : {1}, given : {{<<"x">>}}]
=============================================================================
