--------------------------- MODULE MCModuleLoader ---------------------------
(***************************************************************************)
(* Instance of ModuleLoader for TLC.  Each ...Choice spans a family of     *)
(* environments, small enough to enumerate and wide enough for one         *)
(* question; the run takes them together.  The files are called m, s, t, b *)
(* in all of them, z is the name of no file.                               *)
(***************************************************************************)
EXTENDS ModuleLoader

Lists(S, n) == UNION {[1..i -> S] : i \in 0..n}

Import1(n, r) == [kw |-> "import", name |-> n, rev |-> r]
Include1(n) == [kw |-> "include", name |-> n, rev |-> NoRevision]

(* A module in a file of its name, with its own namespace and a body.      *)
Plain(n, links) ==
  [fname |-> n, frev |-> NoRevision, name |-> n, rev |-> NoRevision,
   kind |-> "module", owner |-> n, v11 |-> FALSE, ns |-> n, links |-> links,
   body |-> TRUE, wellformed |-> TRUE, ordered |-> TRUE]

Args(s) == [i \in DOMAIN s |-> [file |-> s[i], cause |-> "primary"]]

-----------------------------------------------------------------------------
MCFile == {"m", "s", "t", "b"}
MCName == MCFile \cup {"z"}
MCRevision == {1, 2}

(* Graphs: modules m, s and b with every list of up to two imports of each *)
(* other and themselves, m also of a module z that does not exist; m and s *)
(* are given on the command line, t is there and never asked for.  These   *)
(* scenarios are what IsGraph says.                                        *)
GraphChoice ==
  [m : Lists({"m", "s", "b", "z"}, 2), s : Lists({"m", "s", "b"}, 2), b : Lists({"m", "s", "b"}, 2),
   t : {<<>>}]
Graph(c) ==
  [file |-> [f \in MCFile |->
                Plain(f, [i \in DOMAIN c[f] |-> Import1(c[f][i], NoRevision)])],
   argv |-> Args(<<"m", "s">>), canonical |-> FALSE]

-----------------------------------------------------------------------------
(* Revisions: module m in two files named m@1 and m@2 (here s), the second *)
(* possibly holding another revision or another module; b imports m in any *)
(* way, m may import m or b.                                               *)
RevImports == {Import1("m", r) : r \in {0, 1, 2}}

RevChoice ==
  [first : Lists(RevImports \cup {Import1("b", 0)}, 1), second : Lists({Import1("m", 1)}, 1),
   b : Lists(RevImports, 3), holds : {<<"m", 2>>, <<"m", 1>>, <<"b", 2>>},
   v11 : BOOLEAN, wellformed : BOOLEAN,
   argv : {Args(<<"b">>), <<[file |-> "b", cause |-> "primary"],
                            [file |-> "s", cause |-> "deviation"]>>}]
Rev(c) ==
  [file |-> [f \in MCFile |->
       CASE f = "m" -> [Plain("m", c.first) EXCEPT !.frev = 1, !.rev = 1, !.v11 = c.v11]
         [] f = "s" -> [Plain(c.holds[1], c.second) EXCEPT
                          !.fname = "m", !.frev = 2, !.rev = c.holds[2], !.ns = "m",
                          !.wellformed = c.wellformed]
         [] f = "b" -> Plain("b", c.b)
         [] OTHER -> Plain(f, <<>>)],
   argv |-> c.argv, canonical |-> FALSE]

-----------------------------------------------------------------------------
(* Submodules: module m with submodules s and t, and module b; s and t may *)
(* include each other, import b, belong to b, have yang-version 1.1 or be  *)
(* out of canonical order, m may have no body.                             *)
Sub(n, links) == [Plain(n, links) EXCEPT !.kind = "submodule", !.owner = "m"]

SubChoice ==
  [m : {l \in Lists({Include1("s"), Include1("t"), Import1("b", 0)}, 3) : IsInjective(l)},
   s : Lists({Include1("t"), Import1("b", 0), Import1("t", 0)}, 1),
   t : Lists({Include1("s"), Include1("m")}, 1),
   tis : {<<"m", FALSE, "submodule">>, <<"b", FALSE, "submodule">>,
          <<"m", TRUE, "submodule">>, <<"t", FALSE, "module">>},
   body : BOOLEAN, order : {<<FALSE, TRUE>>, <<TRUE, TRUE>>, <<TRUE, FALSE>>},
   argv : {Args(<<"m", "s">>), Args(<<"s", "m">>)}]
Submodules(c) ==
  [file |-> [f \in MCFile |->
       CASE f = "m" -> [Plain("m", c.m) EXCEPT !.rev = IF c.body THEN 1 ELSE 0, !.body = c.body]
         [] f = "s" -> [Sub("s", c.s) EXCEPT !.ordered = c.order[2]]
         [] f = "t" -> [Sub("t", c.t) EXCEPT !.owner = c.tis[1], !.v11 = c.tis[2],
                                             !.kind = c.tis[3]]
         [] OTHER -> Plain("b", <<>>)],
   argv |-> c.argv, canonical |-> c.order[1]]

-----------------------------------------------------------------------------
Choice ==
  ({"graph"} \X GraphChoice) \cup ({"rev"} \X RevChoice) \cup ({"sub"} \X SubChoice)
MCScenarios ==
  {CASE c[1] = "graph" -> Graph(c[2])
     [] c[1] = "rev" -> Rev(c[2])
     [] c[1] = "sub" -> Submodules(c[2]) : c \in Choice}
=============================================================================
