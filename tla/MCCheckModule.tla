---------------------------- MODULE MCCheckModule ----------------------------
(***************************************************************************)
(* Instances of CheckModule for TLC: a small grammar in the shape of the   *)
(* core grammar, with a module "e" of extension statements, and trees that *)
(* vary in the header or in the body.                                      *)
(***************************************************************************)
EXTENDS CheckModule

MCKeyword == {"module", "submodule", "yang-version", "prefix", "belongs-to", "import",
              "description", "container", "name", "note", "leaf", "data", "deviate",
              "mark", "tag", "$cut", "other"}
MCAtom == {"m", "e", "u", "1", "1.1", "n", "d", "!"}
MCModule == {"core", "e"}
MCType == {"any", "id", "version", "=n", "=d", "deviate-arg"}

(* Everything but "!" is of the simple types.                              *)
Good(t) == CASE t = "any" -> MCAtom
             [] t = "id" -> MCAtom \ {"!"}
             [] t = "version" -> {"1", "1.1"}
             [] t = "=n" -> {"n"} [] t = "=d" -> {"d"}
             [] t = "deviate-arg" -> {"n", "d", "m"}
MCAccepts == UNION {{<<t, a, v>> : a \in Good(t), v \in {1, 2}} : t \in MCType}

R(m, k, min, occ, spec) == [name |-> <<m, k>>, min |-> min, occ |-> occ, spec |-> spec]
C(k, occ) == R("core", k, 1, occ, k)
CutHere == R("core", "$cut", 1, "*", "name")
S(arg, rules) == [arg |-> arg, match |-> FALSE, rules |-> rules]
M(arg, rules) == [S(arg, rules) EXCEPT !.match = TRUE]

ModuleRules == <<C("import", "*"), CutHere, C("description", "?"), CutHere,
                 C("container", "*"), C("leaf", "*"), R("e", "mark", 1, "?", "mark")>>

MCGrammar ==
  [s \in {"module", "submodule", "yang-version", "prefix", "belongs-to", "import",
          "description", "container", "name", "note", "leaf", "data", "deviate-n",
          "deviate-d", "deviate", "mark", "tag"} |->
     CASE s = "module" -> S("id", <<C("yang-version", "?"), C("prefix", "1"), CutHere>>
                                     \o ModuleRules)
       [] s = "submodule" -> S("id", <<C("yang-version", "?"), C("belongs-to", "1"), CutHere>>
                                     \o ModuleRules)
       [] s = "yang-version" -> S("version", <<>>)
       [] s \in {"prefix", "note"} -> S("id", <<>>)
       [] s \in {"belongs-to", "import"} ->
            S("id", <<C("prefix", "1"), R("core", "description", 2, "?", "description")>>)
       [] s = "container" ->
            S("id", <<C("name", "1"), C("note", "?"), CutHere, C("leaf", "+"),
                      R("core", "data", 2, "*", "data"), R("core", "deviate", 1, "*", "deviate-n"),
                      R("core", "deviate", 1, "*", "deviate-d"), R("core", "deviate", 1, "*", "deviate"),
                      R("e", "mark", 0, "?", "mark"), R("e", "tag", 0, "1", "tag")>>)
       [] s = "leaf" -> S("id", <<C("note", "?"), C("name", "1")>>)
       [] s = "deviate-n" -> M("=n", <<>>)
       [] s = "deviate-d" -> M("=d", <<C("note", "1")>>)
       [] s = "deviate" -> S("deviate-arg", <<C("note", "?")>>)
       [] s = "tag" -> S("any", <<C("note", "?"), R("e", "mark", 0, "1", "mark"), C("name", "1")>>)
       [] OTHER -> S(None, <<>>)]

(* A statement, a statement with those in it, a list of statements.        *)
N(p, k, a) == [parent |-> 0, prefix |-> p, keyword |-> k, arg |-> a]
K(k, a) == N("none", k, a)
Tree1(n, subs) ==
  <<n>> \o [i \in DOMAIN subs |-> [subs[i] EXCEPT !.parent = @ + 1]]
Shift(s, by) ==
  [i \in DOMAIN s |-> [s[i] EXCEPT !.parent = IF @ = 0 THEN 0 ELSE @ + by]]
Join(s) ==
  LET upto[i \in 0 .. Len(s)] ==
        IF i = 0 THEN <<>> ELSE upto[i - 1] \o Shift(s[i], Len(upto[i - 1]))
  IN  upto[Len(s)]
Lists(parts, len) == UNION {[1 .. i -> parts] : i \in 0 .. len}

Import(m, p) == Tree1(K("import", m), <<K("prefix", p)>>)
Prefix(p) == <<K("prefix", p)>>
LeafIn == Tree1(K("leaf", "n"), <<K("name", "none")>>)
TagIn == Tree1(N("e", "tag", "n"), <<N("e", "mark", "none"), K("name", "none")>>)

(* Headers: what comes first in a module in any order.                     *)
HeaderPart ==
  {Prefix("m"), Import("e", "e"), Import("e", "m"), Import("u", "u"),
   <<K("import", "u")>>, <<K("yang-version", "1.1")>>, <<N("u", "yang-version", "1.1")>>,
   <<K("description", "none")>>, <<N("e", "mark", "none")>>,
   <<N("u", "other", "n"), [K("import", "!") EXCEPT !.parent = 1]>>,
   Tree1(K("belongs-to", "m"), <<K("prefix", "m"), K("description", "none")>>)}
Headers ==
  {[tree |-> Tree1(top, Join(h)), canonical |-> FALSE] :
     top \in {K("module", "m"), K("submodule", "m")}, h \in Lists(HeaderPart, 3)}
Tops ==
  {[tree |-> Tree1(top, Prefix("m") \o <<K("other", "!")>>), canonical |-> FALSE] :
     top \in {N("m", "module", "m"), N("u", "module", "m"), K("container", "m"), K("module", "none")}}

(* Bodies: the substatements of a container, in a valid module.            *)
BodyPart ==
  {<<K("name", "none")>>, <<K("note", "n")>>, LeafIn, <<K("leaf", "!")>>,
   <<K("data", "none")>>, TagIn, <<N("e", "mark", "none")>>,
   <<K("deviate", "n")>>, <<K("deviate", "d")>>, <<K("deviate", "!")>>,
   <<N("u", "other", "n"), [K("name", "!") EXCEPT !.parent = 1]>>, <<K("other", "none")>>,
   Tree1(N("e", "tag", "none"), <<K("name", "none"), N("e", "mark", "none")>>)}
InContainer(body, v) ==
  Tree1(K("module", "m"),
        Join(<<<<K("yang-version", v)>>, Prefix("m"), Import("e", "e"), Import("u", "u"),
                Tree1(K("container", "n"), Join(body))>>))
Bodies ==
  {[tree |-> InContainer(b, v), canonical |-> c] :
     b \in Lists(BodyPart, 2), v \in {"1", "1.1"}, c \in BOOLEAN}
  \cup {[tree |-> InContainer(<<b[1], LeafIn, b[2], TagIn, b[3]>>, "1"), canonical |-> c] :
     b \in [1 .. 3 -> BodyPart], c \in BOOLEAN}

MCScenario == Headers \cup Tops \cup Bodies
=============================================================================
