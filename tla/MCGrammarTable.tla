--------------------------- MODULE MCGrammarTable ---------------------------
(***************************************************************************)
(* Instances of GrammarTable for TLC: a core grammar in the shape of the   *)
(* real one - a statement with substatements, one with alternatives that   *)
(* are selected by their argument, a cut - and the calls of plugins whose  *)
(* grammars refer to the core, to each other and to nothing.               *)
(***************************************************************************)
EXTENDS GrammarTable

MCModule == {"a", "b"}
MCBuiltin == "core"
MCCut == "$cut"
MCKeyword == {"c", "l", "v", "x", "y", "z", "$cut"}
MCMatchType == {"=n", "=d"}
MCTypeName == {"string", "=n", "=d", "t", "u"}
MCNoType == "none"

R(m, k) == [name |-> <<m, k>>, occ |-> "?"]
S(k, arg, rules) == [keyword |-> k, arg |-> arg, rules |-> rules, occ |-> "?", usein |-> <<>>]
Used(spec, names) == [spec EXCEPT !.usein = names, !.occ = "*"]

Core ==
  <<S("c", "string", <<R("core", "l"), R("core", "$cut"), R("core", "v"), R("core", "v"),
                       R("core", "v")>>),
    S("l", "string", <<>>), S("v", "=n", <<>>), S("v", "=d", <<R("core", "l")>>),
    S("v", "string", <<>>)>>
(* A core grammar with too many alternatives, and one with an unknown type.*)
CoreTooMany == [Core EXCEPT ![1].rules = Append(@, R("core", "v"))]
CoreUnknown == [Core EXCEPT ![2].arg = "t"]

G(m, specs) == [op |-> "grammar", module |-> m, specs |-> specs]
T(ts) == [op |-> "types", types |-> ts]
Ty(n, r) == [name |-> n, regexp |-> r]

InC == <<<<"core", "c">>>>

Calls ==
  {T(<<Ty("t", "good")>>), T(<<Ty("t", "none"), Ty("t", "good")>>),
   T(<<Ty("t", "bad"), Ty("u", "good")>>), T(<<Ty("u", "good"), Ty("string", "good")>>),
   G("a", <<Used(S("x", "t", <<>>), InC)>>),
   G("a", <<Used(S("x", "string", <<R("b", "y"), R("core", "l")>>), InC)>>),
   G("a", <<S("x", "none", <<R("a", "y"), R("a", "$cut"), R("b", "y")>>),
            Used(S("y", "u", <<>>), <<<<"b", "y">>, <<"a", "x">>>>)>>),
   G("a", <<Used(S("y", "none", <<>>), <<<<"core", "v">>>>), S("z", "string", <<R("a", "z")>>)>>),
   G("b", <<Used(S("y", "u", <<>>), <<<<"core", "v">>, <<"core", "z">>, <<"core", "l">>>>)>>),
   G("b", <<Used(S("y", "none", <<R("a", "x")>>), <<<<"core", "c">>, <<"core", "l">>>>)>>),
   G("b", <<S("y", "t", <<R("b", "y"), R("core", "c")>>),
            Used(S("l", "t", <<>>), <<<<"b", "y">>>>)>>),
   G("b", <<S("z", "none", <<R("core", "z")>>)>>)}

(* As in core_types.rs, a string is not checked.                           *)
CoreTypes == <<Ty("string", "none"), Ty("=n", "good"), Ty("=d", "good")>>

MCScenario ==
  {[types |-> CoreTypes, core |-> Core, calls |-> c] : c \in [1 .. 3 -> Calls]}
    \cup {[types |-> CoreTypes, core |-> c, calls |-> <<>>] : c \in {CoreTooMany, CoreUnknown}}
=============================================================================
