------------------------------ MODULE IfFeature ------------------------------
(***************************************************************************)
(* The argument of an if-feature statement on its way through the program: *)
(* the validator accepts it (chk_if_feature_expr_rs and                    *)
(* yang_parse_if_feature_expr, c_src/rust_atom), the Erlang code parses it *)
(* a second time (src/yang_if_feature.erl) and evaluates the expression    *)
(* (check_if_features, src/yang.erl).                                      *)
(*                                                                         *)
(* A text is a sequence of pieces; the words "or", "and", "not" and "x"    *)
(* are one piece each, so "x" followed by "or" is one identifier.          *)
(***************************************************************************)
EXTENDS Integers, Sequences, FiniteSets

CONSTANTS
  Scenario    \* [text, version, given], see ScenarioType

Word == {"or", "and", "not", "x", "y"}
Piece == Word \cup {"1", "sp", "(", ")", ":", "$"}

(* given: the features that are enabled for the module; AllFeatures: no    *)
(* features are given for it; NoFeatures: the map of features is none.     *)
AllFeatures == {<<"all">>}
NoFeatures == {<<"none">>}
ScenarioType ==
  [text : Seq(Piece), version : {1, 2},
   given : SUBSET {<<"x">>, <<"y">>} \cup {AllFeatures, NoFeatures}]

ASSUME ScenarioAssumption == Scenario \subseteq ScenarioType

VARIABLES
  scn,        \* the scenario, never changed
  phase,      \* "validate", "parse", "evaluate", "rejected", "crashed", "done"
  expr,       \* the expression that the Erlang parser has made, else NoExpr
  value       \* if_feature_result

vars == <<scn, phase, expr, value>>

NoExpr == <<"none">>

-----------------------------------------------------------------------------
(* Both lexers work on the text from a position on.                        *)
Text == scn.text
End == Len(Text) + 1
At(p) == IF p < End THEN Text[p] ELSE "eof"
Identifier1 == Word
Identifier2 == Word \cup {"1"}
Least(S) == CHOOSE p \in S : \A q \in S : p <= q
SkipWhite(p) == Least({q \in p .. End : At(q) # "sp"})
IdentifierEnd(p) == Least({q \in p .. End : At(q) \notin Identifier2})
Delimiter(p) == At(p) \in {"eof", "sp", "(", ")"}

(* get_tok_impl.  The token, and the position behind it.  A token that is  *)
(* pushed back (push_tok) is read again.                                   *)
Operators == {"or", "and", "not"}
Tok(from) ==
  LET p == SkipWhite(from)
      e == IdentifierEnd(p)
      token(t, end) == [tok |-> t, end |-> end]
  IN  IF p = End THEN token("eof", p)
      ELSE IF Text[p] \in {"(", ")"} THEN token(Text[p], p + 1)
      ELSE IF Text[p] \in Operators /\ Delimiter(p + 1) THEN token(Text[p], p + 1)
      ELSE IF Text[p] \notin Identifier1 THEN token("error", p)
      ELSE IF At(e) # ":" THEN token("identifier", e)
      ELSE IF At(e + 1) \notin Identifier1 THEN token("error", e + 1)
      ELSE token("identifier", IdentifierEnd(e + 1))

(* parse_x and parse_y from a position on: the position behind what they   *)
(* have read, 0 if they fail.  "more" is the loop of parse_x.              *)
(* Fault: only one operator follows.                                       *)
NoMore(parse, p) == IF Tok(p).tok \in {"and", "or"} THEN parse["y", Tok(p).end] ELSE p
More(parse, p) ==
  IF Tok(p).tok \notin {"and", "or"} THEN p
  ELSE IF parse["y", Tok(p).end] = 0 THEN 0
  ELSE parse["more", parse["y", Tok(p).end]]

Parse ==
  LET parse[what \in {"x", "y", "more"}, p \in 1 .. End] ==
        LET t == Tok(p)
            x == parse["x", t.end]
        IN  CASE what = "x" -> IF parse["y", p] = 0 THEN 0 ELSE parse["more", parse["y", p]]
              [] what = "more" -> More(parse, p)
              [] what = "y" ->
                   \* "not" is an identifier when what follows fails
                   CASE t.tok = "not" -> IF x = 0 THEN t.end ELSE x
                     [] t.tok = "(" -> IF x # 0 /\ Tok(x).tok = ")" THEN Tok(x).end ELSE 0
                     [] t.tok \in {"identifier", "or", "and"} -> t.end
                     [] OTHER -> 0
  IN  parse
ParseExpr == LET end == Parse["x", 1] IN end # 0 /\ Tok(end).tok = "eof"

(* The regular expression identifier-ref, for version 1.                   *)
IdentifierRef(s) ==
  LET colons == {i \in DOMAIN s : s[i] = ":"}
      ident(w) == w # <<>> /\ w[1] \in Identifier1 /\ \A i \in DOMAIN w : w[i] \in Identifier2
  IN  IF colons = {} THEN ident(s)
      ELSE LET c == Least(colons)
           IN  ident(SubSeq(s, 1, c - 1)) /\ ident(SubSeq(s, c + 1, Len(s)))

(* chk_if_feature_expr_rs.                                                 *)
ValidArgument == IF scn.version = 1 THEN IdentifierRef(Text) ELSE ParseExpr

-----------------------------------------------------------------------------
(* yang_if_feature.erl.  get_tok: a word is an operator only when a white  *)
(* space or a parenthesis follows; at the end of the text it is an         *)
(* identifier, though one that looks like the operator.                    *)
ErlSeparator(p) == At(p) \in {"sp", "(", ")"}
ErlTok(from) ==
  LET p == SkipWhite(from)
      e == IdentifierEnd(p)
      f == IdentifierEnd(e + 1)
      token(t, end) == [tok |-> t, end |-> end, id |-> SubSeq(Text, p, end - 1)]
      identifier(end) == IF At(end) = "eof" \/ ErlSeparator(end)
                         THEN token(IF Text[p] \in Operators /\ end = p + 1 THEN Text[p] ELSE "identifier", end)
                         ELSE token("crash", p)
  IN  IF p = End THEN token("eof", p)
      ELSE IF Text[p] \in {"(", ")"} THEN token(Text[p], p + 1)
      ELSE IF Text[p] \notin Identifier1 THEN token("crash", p)
      ELSE IF At(e) = ":" THEN identifier(f) ELSE identifier(e)

(* Fault: the one at the end of the text is one as well.                   *)
AnyNot(t) == t.tok = "not"
IsNot(t) == t.tok = "not" /\ t.end # End

(* expr, term and factor: the expression and the position behind it, 0 for *)
(* an exception.                                                           *)
(* Fault: "and" and "or" have the same precedence.                         *)
AnyOperator(what) == {"or", "and"}
ErlOperator(what) == IF what = "expr" THEN {"or"} ELSE {"and"}
Failed == [expr |-> NoExpr, end |-> 0]
ErlParse ==
  LET parse[what \in {"expr", "term", "factor"}, p \in 1 .. End] ==
        LET t == ErlTok(p)
            operand == IF what = "expr" THEN parse["term", p] ELSE parse["factor", p]
            op == ErlTok(operand.end)
            right == parse[what, op.end]
            factor == parse["factor", t.end]
            inner == parse["expr", t.end]
        IN  IF what = "factor"
            THEN CASE t.tok \in {"eof", "crash"} -> Failed
                   [] IsNot(t) ->
                        IF factor.end = 0 THEN Failed
                        ELSE [expr |-> <<"not", factor.expr>>, end |-> factor.end]
                   [] t.tok = "(" ->
                        IF inner.end = 0 \/ ErlTok(inner.end).tok # ")" THEN Failed
                        ELSE [expr |-> inner.expr, end |-> ErlTok(inner.end).end]
                   [] OTHER -> [expr |-> <<"identifier", t.id>>, end |-> t.end]
            ELSE IF operand.end = 0 \/ op.tok = "crash" THEN Failed
            ELSE IF op.tok \notin ErlOperator(what) THEN operand
            ELSE IF right.end = 0 THEN Failed
            ELSE [expr |-> <<op.tok, operand.expr, right.expr>>, end |-> right.end]
      result == parse["expr", 1]
  IN  IF result.end # 0 /\ ErlTok(result.end).tok = "eof" THEN result.expr ELSE NoExpr

(* eval, and check_if_features around it.  The features that are named are *)
(* taken to exist.                                                         *)
RECURSIVE Eval(_)
Eval(e) ==
  CASE e[1] = "or" -> Eval(e[2]) \/ Eval(e[3])
    [] e[1] = "and" -> Eval(e[2]) /\ Eval(e[3])
    [] e[1] = "not" -> ~Eval(e[2])
    [] e[1] = "identifier" -> scn.given = AllFeatures \/ e[2] \in scn.given
CheckIfFeatures(e) == scn.given # NoFeatures /\ Eval(e)

-----------------------------------------------------------------------------
Init ==
  /\ scn \in Scenario
  /\ phase = "validate" /\ expr = NoExpr /\ value = FALSE

Validate ==
  /\ phase = "validate"
  /\ phase' = IF ValidArgument THEN "parse" ELSE "rejected"
  /\ UNCHANGED <<scn, expr, value>>

(* get_feature_expr0, which has no case for a text that is not parsed.     *)
GetFeatureExpr ==
  /\ phase = "parse"
  /\ expr' = ErlParse
  /\ phase' = IF expr' = NoExpr THEN "crashed" ELSE "evaluate"
  /\ UNCHANGED <<scn, value>>

Evaluate ==
  /\ phase = "evaluate"
  /\ value' = CheckIfFeatures(expr)
  /\ phase' = "done"
  /\ UNCHANGED <<scn, expr>>

Terminated == phase \in {"rejected", "crashed", "done"} /\ UNCHANGED vars

Next == Validate \/ GetFeatureExpr \/ Evaluate \/ Terminated
Spec == Init /\ [][Next]_vars

-----------------------------------------------------------------------------
(* The reference: the grammar in yang_if_feature.erl on the tokens of the  *)
(* text, where an operator may be the name of a feature as well.           *)
(*   if-feature-expr = "(" if-feature-expr ")" / identifier /              *)
(*                     if-feature-expr boolean-operator if-feature-expr /  *)
(*                     not-keyword if-feature-expr                         *)
Tokens ==
  LET from[p \in 1 .. End] ==
        IF Tok(p).tok \in {"eof", "error"} THEN <<[tok |-> Tok(p).tok, name |-> <<>>]>>
        ELSE <<[tok |-> Tok(p).tok, name |-> SubSeq(Text, SkipWhite(p), Tok(p).end - 1)]>>
               \o from[Tok(p).end]
  IN  from[1]

(* Whether the tokens are an expression; names: those that may be features.*)
IsExpression(tokens, names) ==
  LET n == Len(tokens)
      t(i) == tokens[i].tok
      derive[i \in 1 .. n, j \in 0 .. n] ==
        \/ i = j /\ t(i) \in names
        \/ /\ i < j /\ t(i) = "(" /\ t(j) = ")" /\ derive[i + 1, j - 1]
        \/ /\ i < j /\ t(i) = "not" /\ derive[i + 1, j]
        \/ \E k \in i + 1 .. j - 1 :
             t(k) \in {"and", "or"} /\ derive[i, k - 1] /\ derive[k + 1, j]
  IN  t(n) = "eof" /\ n > 1 /\ derive[1, n - 1]

(* The value of an expression in which the operators are no names: "not"   *)
(* binds most and "or" least.                                              *)
Names == {"identifier"}
Meaning(tokens) ==
  LET t(i) == tokens[i].tok
      level(i, k) == Cardinality({m \in i .. k - 1 : t(m) = "("})
                       - Cardinality({m \in i .. k : t(m) = ")"})
      top(i, j, op) == {k \in i .. j : t(k) = op /\ level(i, k) = 0}
      enabled(i) == scn.given = AllFeatures \/ tokens[i].name \in scn.given
      value_[i \in DOMAIN tokens, j \in DOMAIN tokens] ==
        CASE top(i, j, "or") # {} ->
               LET k == Least(top(i, j, "or")) IN value_[i, k - 1] \/ value_[k + 1, j]
          [] top(i, j, "or") = {} /\ top(i, j, "and") # {} ->
               LET k == Least(top(i, j, "and")) IN value_[i, k - 1] /\ value_[k + 1, j]
          [] OTHER ->
               CASE t(i) = "not" -> ~value_[i + 1, j]
                 [] t(i) = "(" -> value_[i + 1, j - 1]
                 [] OTHER -> enabled(i)
  IN  value_[1, Len(tokens) - 1]

-----------------------------------------------------------------------------
(* What is accepted follows the grammar, and what follows the grammar is   *)
(* accepted, unless "not" is the name of a feature: it is taken for one    *)
(* only when nothing that follows it is an expression (parse_y).           *)
AcceptsTheLanguage ==
  (scn.version = 2 /\ phase # "validate") =>
    LET tokens == Tokens
    IN  /\ phase # "rejected" => IsExpression(tokens, Names \cup Operators)
        /\ IsExpression(tokens, Names \cup {"and", "or"}) => phase # "rejected"

(* The value is the one the text says, whichever of the two parsers read it*)
(* (check_if_features is false for everything without a map of features).  *)
EvaluatesAsWritten ==
  phase = "done" =>
    LET tokens == Tokens
    IN  IsExpression(tokens, Names)
          => value = (scn.given # NoFeatures /\ Meaning(tokens))

(* The second parser accepts what the first one does, unless that took a   *)
(* "not" for the name of a feature before the end of the text ...          *)
NotIsAName ==
  \E i \in DOMAIN Text :
    Text[i] = "not" /\ i < Len(Text) /\ Delimiter(i + 1) /\ Parse["x", i + 1] = 0
SecondParserAccepts == phase = "crashed" => NotIsAName

(* ... although "syntax is already checked by the C parser; this call will *)
(* not fail" (get_feature_expr0, yang.erl).                                *)
ThisCallWillNotFail == phase # "crashed"
=============================================================================
