----------------------------- MODULE CheckModule -----------------------------
(***************************************************************************)
(* yang_grammar_check_module (c_src/rust_atom/src/grammar.rs): the check of*)
(* a parsed module against the grammars, and what the NIF parse            *)
(* (c_src/rustler_yang_parser/src/lib.rs) makes of it.                     *)
(*                                                                         *)
(* First the prefixes of the module's header are collected, its version is *)
(* found, and all statements get the module that their prefix stands for.  *)
(* Then chk_statements walks the tree; for the substatements of a statement*)
(* it works on a copy of the list of rules, in which match_rule notes what *)
(* was found and what may not come any more.                               *)
(*                                                                         *)
(* The recursion of chk_statements is the variable `stack'.  A scenario is *)
(* a statement tree, as the sequence of its statements in document order,  *)
(* and whether the canonical order was asked for.                          *)
(***************************************************************************)
EXTENDS Integers, Sequences, FiniteSets

CONSTANTS
  Keyword,    \* keywords
  Atom,       \* module names, prefixes and arguments
  None,       \* no prefix, no argument, no argument type, no module
  Builtin,    \* the null module name of the core grammar
  Module,     \* the modules that have a grammar, Builtin among them
  Type,       \* argument types
  Accepts,    \* <<type, argument, version>> for which the validator is true
  Grammar,    \* for each statement <<module, keyword>> or alternative of one,
              \* its rules and argument type, see SpecType
  Scenario    \* the environments to consider, see ScenarioType

Name == Module \X Keyword
Cut == <<Builtin, "$cut">>
Version == {1, 2}

(* A rule in the tables; spec is the specification it was resolved to, which*)
(* is an element of DOMAIN Grammar.  A specification with match set is     *)
(* selected by its argument.                                               *)
Occurrence == {"?", "1", "*", "+"}
RuleType == [name : Name, min : 0 .. 2, occ : Occurrence, spec : DOMAIN Grammar]
SpecType == [arg : Type \cup {None}, match : BOOLEAN, rules : Seq(RuleType)]

(* A statement; parent is the number of the statement around it.           *)
Statement == [parent : Nat, prefix : Atom \cup {None}, keyword : Keyword,
              arg : Atom \cup {None}]
ScenarioType == [tree : Seq(Statement), canonical : BOOLEAN]

ASSUME GrammarAssumption ==
  /\ Builtin \in Module /\ None \notin Module /\ None \notin Atom /\ None \notin Type
  /\ \A s \in DOMAIN Grammar : Grammar[s] \in SpecType
  /\ {"module", "submodule"} \subseteq DOMAIN Grammar
(* A validator is called with an argument only.                            *)
ASSUME AcceptsAssumption == Accepts \subseteq Type \X Atom \X Version
(* No cut is between two rules for the same statement (in the core grammar *)
(* the alternatives of deviate follow each other), and what an alternative *)
(* is selected by is the same word in both versions.                       *)
ASSUME AlternativesAssumption ==
  \A s \in DOMAIN Grammar :
    LET rules == Grammar[s].rules
    IN  /\ \A i, j, k \in DOMAIN rules :
             (rules[i].name = rules[j].name /\ rules[i].name # Cut /\ i < k /\ k < j)
               => rules[k].name # Cut
        /\ Grammar[s].match =>
             \A arg \in Atom \cup {None} :
               <<Grammar[s].arg, arg, 1>> \in Accepts <=> <<Grammar[s].arg, arg, 2>> \in Accepts

(* A keyword is an identifier, which "$cut" is not.                        *)
ASSUME ScenarioAssumption ==
  \A s \in Scenario :
    /\ s \in ScenarioType /\ s.tree # <<>>
    /\ s.tree[1].parent = 0
    /\ \A n \in 2 .. Len(s.tree) : s.tree[n].parent \in 1 .. n - 1
    /\ \A n \in DOMAIN s.tree : s.tree[n].keyword # "$cut"

VARIABLES
  scn,        \* the scenario, never changed
  phase,      \* "prefixes", "check", "done"
  modname,    \* module_name of each statement, None where it is not known
  version,    \* yang_version, the same for all statements
  stack,      \* the calls of chk_statements, innermost first
  res,        \* the result of the check
  errors      \* the error context, oldest first

vars == <<scn, phase, modname, version, stack, res, errors>>

Tree == scn.tree
Nodes == DOMAIN Tree
Kw(n) == Tree[n].keyword
Plain(n) == Tree[n].prefix = None
IsA(n, kw) == Plain(n) /\ Kw(n) = kw

(* The statements in a statement, those around it, and the next one (0:    *)
(* none) of the same list.                                                 *)
Sub(n) == {m \in Nodes : Tree[m].parent = n}
Around(n) ==
  LET above[m \in Nodes] ==
        IF m = 1 THEN {} ELSE {Tree[m].parent} \cup above[Tree[m].parent]
  IN  above[n]
First(S) == IF S = {} THEN 0 ELSE CHOOSE m \in S : \A k \in S : m <= k
(* Fault: the one after it in the file.                                    *)
NextInFile(n) == First({m \in Nodes : m > n})
NextOf(n) == First({m \in Nodes : m > n /\ Tree[m].parent = Tree[n].parent})

ErrorCode == {"ALREADY_FOUND", "EXPECTED", "EXPECTED_SUBSTATEMENT", "UNEXPECTED",
              "UNEXPECTED_IN_VERSION", "UNDEFINED_PREFIX", "DUPLICATE_PREFIX",
              "MISSING_ARGUMENT", "UNEXPECTED_ARGUMENT", "BAD_ARGUMENT"}

(* An error at a statement; rule is the number of the rule that an expected*)
(* statement is missing for, 0 otherwise.                                  *)
Error(code, n, rule) == [code |-> code, at |-> n, rule |-> rule]

-----------------------------------------------------------------------------
(* The header.  nprefixes: an upper limit of the prefixes to come.         *)
HeaderKeyword ==
  {"yang-version", "namespace", "prefix", "belongs-to", "import", "include"}

(* The tables of the two statements that head a file: what the loops over  *)
(* the header take as given.  One of prefix and belongs-to, and at most one*)
(* of each that has its own rule; and the cuts keep the imports before the *)
(* body, and what may stand before yang-version together with it.          *)
ASSUME HeaderAssumption ==
  \A s \in {"module", "submodule"} :
    LET rules == Grammar[s].rules
        other == IF s = "module" THEN "belongs-to" ELSE "prefix"
        first == IF s = "module" THEN {"yang-version", "namespace", "prefix"}
                 ELSE {"yang-version", "belongs-to"}
        CutBetween(i, j) == \E c \in i .. j : rules[c].name = Cut
    IN  /\ ~Grammar[s].match
        /\ \A i \in DOMAIN rules : rules[i].name # <<Builtin, other>>
        /\ \A i, j \in DOMAIN rules, k \in {"yang-version", "prefix", "belongs-to"} :
             (rules[i].name = <<Builtin, k>> /\ rules[j].name = <<Builtin, k>>) =>
               i = j /\ rules[i].occ \in {"1", "?"}
        /\ \A i, j \in DOMAIN rules, k \in Keyword \ {"$cut"} : rules[j].name = <<Builtin, k>> =>
             /\ (rules[i].name = <<Builtin, "import">> /\ k \notin HeaderKeyword)
                  => CutBetween(i, j)
             /\ (rules[i].name = <<Builtin, "yang-version">> /\ k \notin first)
                  => CutBetween(i, j)

(* Fault: the prefix of the module itself is not counted.                  *)
ImportsOnly ==
  Cardinality({i \in Sub(1) : IsA(i, "import")})
NPrefixes ==
  LET body == {n \in Sub(1) : Plain(n) /\ Kw(n) \notin HeaderKeyword}
  IN  1 + Cardinality({i \in Sub(1) : IsA(i, "import") /\ \A b \in body : i < b})

(* The statements that declare a prefix, in order: `prefix' itself, and the*)
(* first one in belongs-to and in import.                                  *)
Declaring(n) ==
  IF IsA(n, "prefix") /\ Tree[1].arg # None THEN n
  ELSE IF (IsA(n, "belongs-to") \/ IsA(n, "import")) /\ Tree[n].arg # None
       THEN First({p \in Sub(n) : IsA(p, "prefix")})
       ELSE 0
Declarations ==
  {n \in Sub(1) : Declaring(n) # 0 /\ Tree[Declaring(n)].arg # None}
Declared(n) == Tree[Declaring(n)].arg
DeclaredModule(n) == IF Kw(n) = "prefix" THEN Tree[1].arg ELSE Tree[n].arg

(* add_prefix, for the declarations up to the n-th statement: those taken  *)
(* into the map, and those refused as duplicates.  The loop ends when there*)
(* are NPrefixes in the map.                                               *)
PrefixMap ==
  LET upto[n \in 0 .. Len(Tree)] ==
        IF n = 0 THEN [taken |-> {}, refused |-> {}]
        ELSE LET r == upto[n - 1]
             IN  IF n \notin Declarations \/ Cardinality(r.taken) = NPrefixes THEN r
                 ELSE IF \E d \in r.taken : Declared(d) = Declared(n)
                      THEN [r EXCEPT !.refused = @ \cup {n}]
                      ELSE [r EXCEPT !.taken = @ \cup {n}]
  IN  upto[Len(Tree)]

(* The version: the yang-version statement, unless another statement than  *)
(* those that may stand before it comes first.                             *)
Stops(n) ==
  \/ Kw(n) = "yang-version"
  \/ /\ Plain(n)
     /\ IF Kw(1) = "module" THEN Kw(n) \notin {"namespace", "prefix"}
        ELSE Kw(n) # "belongs-to"
VersionStatement == First({n \in Sub(1) : Stops(n)})
HeaderVersion ==
  IF VersionStatement # 0 /\ Kw(VersionStatement) = "yang-version"
       /\ Tree[VersionStatement].arg = "1.1"
  THEN 2 ELSE 1

(* set_module_name_from_prefix; declared: the declarations in the map.     *)
ModuleOf(declared, n) ==
  LET found == {d \in declared : Declared(d) = Tree[n].prefix}
  IN  IF Plain(n) THEN Builtin
      ELSE IF found = {} THEN None ELSE DeclaredModule(First(found))

(* The numbers of a set in ascending order.                                *)
InOrder(S) == [i \in 1 .. Cardinality(S) |->
                 CHOOSE m \in S : Cardinality({k \in S : k < m}) = i - 1]
ErrorsAt(code, S) == [i \in 1 .. Cardinality(S) |-> Error(code, InOrder(S)[i], 0)]

-----------------------------------------------------------------------------
(* A call of chk_statements: parent (0: none), the statement it has come to*)
(* (0: the end of the list), the rules, and its copy of their occurrence   *)
(* with "0" - given already - and "-" - may not come any more; start is the*)
(* first rule of the section.                                              *)
TopRule == [name |-> <<Builtin, Kw(1)>>, min |-> 1, occ |-> "1", spec |-> Kw(1)]
Frame(parent, cur, rules) ==
  [parent |-> parent, cur |-> cur, rules |-> rules,
   occ |-> [i \in DOMAIN rules |-> rules[i].occ], start |-> 1]

Matches(r, n) ==
  /\ r.name = <<modname[n], Kw(n)>>
  /\ (r.name # Cut /\ Grammar[r.spec].match) =>
        <<Grammar[r.spec].arg, Tree[n].arg, version>> \in Accepts

Mandatory == {"1", "+"}

(* match_rule.  hit: the first rule from start that matches, 0 if none.    *)
(* passed: the rules before it, which the statement leaves behind; a       *)
(* statement with a prefix may stand anywhere and leaves none behind.      *)
Hit(f, n) == First({i \in f.start .. Len(f.rules) : Matches(f.rules[i], n)})
Passed(f, n) ==
  IF Plain(n) THEN f.start .. (IF Hit(f, n) = 0 THEN Len(f.rules) ELSE Hit(f, n) - 1)
  ELSE {}
Cuts(f, S) == {i \in S : f.rules[i].name = Cut}

(* The first rule left behind that still has to be given; without canonical*)
(* order this is noticed at the next cut only.                             *)
Skipped(f, n) ==
  First({i \in Passed(f, n) :
           /\ f.occ[i] \in Mandatory
           /\ scn.canonical \/ \E c \in Cuts(f, Passed(f, n)) : i < c})

(* The section moves on past the cuts left behind, and in canonical order  *)
(* what is left behind may not come any more; both up to rule `end'.       *)
(* Fault: rules that are left behind may still come.                       *)
NothingLeftBehind(f, n, end) == f
LeaveBehind(f, n, end) ==
  LET gone == {i \in Passed(f, n) : i < end}
      cuts == Cuts(f, gone)
  IN  [f EXCEPT !.start = IF cuts = {} THEN @
                          ELSE (CHOOSE c \in cuts : \A d \in cuts : d <= c) + 1,
                !.occ = [i \in DOMAIN @ |->
                           IF scn.canonical /\ i \in gone \ cuts THEN "-" ELSE @[i]]]

(* What match_rule returns: the rule found (0: false), the list as it      *)
(* leaves it, and the errors it adds.                                      *)
(* Fault: a rule is not noted as reported.                                 *)
ReportAgain(f, i) == f
Given(f, i) == [f EXCEPT !.occ[i] = "0"]

Matched(rule, frame, errs) == [rule |-> rule, frame |-> frame, errors |-> errs]
TooOld(r, n) ==
  IF r.min > version THEN <<Error("UNEXPECTED_IN_VERSION", n, 0)>> ELSE <<>>
TakeRule(f, n, hit, old) ==
  CASE f.occ[hit] \in {"1", "?"} -> Matched(hit, [f EXCEPT !.occ[hit] = "0"], old)
    [] f.occ[hit] = "*" -> Matched(hit, f, old)
    [] f.occ[hit] = "+" -> Matched(hit, [f EXCEPT !.occ[hit] = "*"], old)
    [] f.occ[hit] = "0" -> Matched(0, f, Append(old, Error("ALREADY_FOUND", n, 0)))
    [] f.occ[hit] = "-" -> Matched(0, f, Append(old, Error("UNEXPECTED", n, 0)))
AfterSkipping(f, n, hit, skipped) ==
  IF skipped # 0
  THEN Matched(0, Given(LeaveBehind(f, n, skipped), skipped), <<Error("EXPECTED", n, skipped)>>)
  ELSE IF hit = 0
  THEN Matched(0, LeaveBehind(f, n, Len(f.rules) + 1), <<Error("UNEXPECTED", n, 0)>>)
  ELSE TakeRule(LeaveBehind(f, n, Len(f.rules) + 1), n, hit, TooOld(f.rules[hit], n))
MatchRule(f, n) == AfterSkipping(f, n, Hit(f, n), Skipped(f, n))

ArgumentErrors(spec, n) ==
  LET type == Grammar[spec].arg
      arg == Tree[n].arg
  IN  IF type # None /\ arg # None /\ <<type, arg, version>> \notin Accepts
      THEN <<Error("BAD_ARGUMENT", n, 0)>>
      ELSE IF type # None /\ arg = None THEN <<Error("MISSING_ARGUMENT", n, 0)>>
      ELSE IF type = None /\ arg # None THEN <<Error("UNEXPECTED_ARGUMENT", n, 0)>>
      ELSE <<>>

Top == Head(stack)

(* Whether chk_statements looks at a statement at all.                     *)
Known(n) == modname[n] \in Module

Advance(f) == [f EXCEPT !.cur = NextOf(f.cur)]

-----------------------------------------------------------------------------
Init ==
  /\ scn \in Scenario
  /\ phase = "prefixes"
  /\ modname = [n \in Nodes |-> None] /\ version = 1
  /\ stack = <<>> /\ res = TRUE /\ errors = <<>>

(* The file holds something else than a module.                            *)
NotAModule ==
  /\ phase = "prefixes" /\ Kw(1) \notin {"module", "submodule"}
  /\ errors' = <<Error("UNEXPECTED", 1, 0)>>
  /\ res' = FALSE /\ phase' = "done"
  /\ UNCHANGED <<scn, modname, version, stack>>

(* resolve_module_names_from_prefixes, and the call of chk_statements.     *)
ResolvePrefixes ==
  /\ phase = "prefixes" /\ Kw(1) \in {"module", "submodule"}
  /\ version' = HeaderVersion
  /\ \E map \in {PrefixMap} :
       /\ modname' = [n \in Nodes |-> ModuleOf(map.taken, n)]
       /\ errors' = ErrorsAt("DUPLICATE_PREFIX",
                             {n \in Nodes : \E d \in map.refused : n = Declaring(d)})
                    \o ErrorsAt("UNDEFINED_PREFIX",
                                {n \in Nodes : ModuleOf(map.taken, n) = None})
  /\ stack' = <<Frame(0, 1, <<TopRule>>)>>
  /\ phase' = "check"
  /\ UNCHANGED <<scn, res>>

(* A statement of an unknown module is skipped with all that is in it.     *)
SkipUnknown ==
  /\ phase = "check" /\ Top.cur # 0 /\ ~Known(Top.cur)
  /\ stack' = <<Advance(Top)>> \o Tail(stack)
  /\ UNCHANGED <<scn, phase, modname, version, res, errors>>

(* A statement that no rule admits here is skipped as well.                *)
Reject ==
  /\ phase = "check" /\ Top.cur # 0 /\ Known(Top.cur)
  /\ \E m \in {MatchRule(Top, Top.cur)} :
         /\ m.rule = 0
         /\ stack' = <<Advance(m.frame)>> \o Tail(stack)
         /\ errors' = errors \o m.errors
  /\ res' = FALSE
  /\ UNCHANGED <<scn, phase, modname, version>>

(* The recursive call for the substatements, with a copy of their rules.   *)
Call(n, spec, m) ==
  /\ stack' = <<Frame(n, First(Sub(n)), Grammar[spec].rules), m.frame>> \o Tail(stack)
  /\ errors' = errors \o m.errors \o ArgumentErrors(spec, n)
  /\ res' = (res /\ ArgumentErrors(spec, n) = <<>>)
Enter ==
  /\ phase = "check" /\ Top.cur # 0 /\ Known(Top.cur)
  /\ \E m \in {MatchRule(Top, Top.cur)} :
         /\ m.rule # 0
         /\ Call(Top.cur, Top.rules[m.rule].spec, m)
  /\ UNCHANGED <<scn, phase, modname, version>>

(* The end of a list: what is still missing is reported at the statement   *)
(* around it; add_stmt_err does nothing when there is none.                *)
(* Fault: a missing "+" is not reported.                                   *)
Missing(f) == {i \in DOMAIN f.rules : f.occ[i] \in Mandatory}
OnlyOnes(f) ==
  [i \in 1 .. Cardinality({k \in Missing(f) : f.occ[k] = "1"}) |->
     Error("EXPECTED_SUBSTATEMENT", f.parent, InOrder({k \in Missing(f) : f.occ[k] = "1"})[i])]
MissingErrors(f) ==
  IF f.parent = 0 THEN <<>>
  ELSE [i \in 1 .. Cardinality(Missing(f)) |->
          Error("EXPECTED_SUBSTATEMENT", f.parent, InOrder(Missing(f))[i])]
Leave ==
  /\ phase = "check" /\ Top.cur = 0
  /\ errors' = errors \o MissingErrors(Top)
  /\ res' = (res /\ Missing(Top) = {})
  /\ IF Len(stack) = 1
     THEN stack' = <<>> /\ phase' = "done"
     ELSE stack' = <<Advance(stack[2])>> \o Tail(Tail(stack)) /\ UNCHANGED phase
  /\ UNCHANGED <<scn, modname, version>>

Terminated == phase = "done" /\ UNCHANGED vars

Next ==
  \/ NotAModule \/ ResolvePrefixes
  \/ SkipUnknown \/ Reject \/ Enter \/ Leave
  \/ Terminated

Spec == Init /\ [][Next]_vars

(* parse (NIF): the result of yang_grammar_check_module is not used, a tree*)
(* is returned when the error context is empty.                            *)
Accepted == phase = "done" /\ errors = <<>>

-----------------------------------------------------------------------------
(* The reference: what a module must look like, statement by statement,    *)
(* without the order in which it is checked.  Nothing here refers to the   *)
(* variables of the check.                                                 *)
RefVersion ==
  IF \E n \in Sub(1) : IsA(n, "yang-version") /\ Tree[n].arg = "1.1" THEN 2 ELSE 1

(* For each statement its module, the rules for what is in it, its own rule*)
(* among those of the statement around it, and its specification.  0: there*)
(* is none, or it is of an unknown module.                                 *)
RefStatements ==
  LET declared == Declarations
      modules == [n \in Nodes |-> ModuleOf(declared, n)]
      top == [module |-> modules[1], rule |-> 1, spec |-> Kw(1),
              rules |-> Grammar[Kw(1)].rules, known |-> modules[1] \in Module]
      fits(n, r) ==
        /\ r.name = <<modules[n], Kw(n)>>
        /\ (r.name # Cut /\ Grammar[r.spec].match) =>
              <<Grammar[r.spec].arg, Tree[n].arg, RefVersion>> \in Accepts
      ref[n \in Nodes] ==
        IF n = 1 THEN top
        ELSE LET above == ref[Tree[n].parent].rules
                 rule == First({i \in DOMAIN above : fits(n, above[i])})
                 spec == IF rule = 0 THEN None ELSE above[rule].spec
             IN  [module |-> modules[n], rule |-> rule, spec |-> spec,
                  rules |-> IF rule = 0 THEN <<>> ELSE Grammar[spec].rules,
                  known |-> ref[Tree[n].parent].known /\ modules[n] \in Module]
  IN  ref

HeaderValid(ref) ==
  /\ Kw(1) \in {"module", "submodule"} /\ Plain(1)
  /\ \A d, e \in Declarations : Declared(d) = Declared(e) => d = e
  /\ \A n \in Nodes : ref[n].module # None

RuleValid(ref, n) ==
  n # 1 => /\ ref[n].rule # 0
           /\ ref[Tree[n].parent].rules[ref[n].rule].min <= RefVersion

ArgumentValid(ref, n) ==
  LET type == Grammar[ref[n].spec].arg
  IN  IF type = None THEN Tree[n].arg = None
      ELSE <<type, Tree[n].arg, RefVersion>> \in Accepts

KnownIn(ref, n) == {c \in Sub(n) : ref[c].known}
CountsValid(ref, n) ==
  \A i \in DOMAIN ref[n].rules :
    LET occ == ref[n].rules[i].occ
        given == Cardinality({c \in KnownIn(ref, n) : ref[c].rule = i})
    IN  /\ occ \in {"1", "+"} => given > 0
        /\ occ \in {"1", "?"} => given < 2

(* A statement without prefix puts an end to the sections, in canonical    *)
(* order to the rules, before its own.                                     *)
OrderValid(ref, n) ==
  LET section(i) == Cardinality({j \in 1 .. i : ref[n].rules[j].name = Cut})
  IN  \A c, d \in KnownIn(ref, n) :
        (c < d /\ Plain(c)) =>
          /\ section(ref[c].rule) <= section(ref[d].rule)
          /\ scn.canonical => ref[c].rule <= ref[d].rule

Valid ==
  LET ref == RefStatements
  IN  /\ HeaderValid(ref)
      /\ \A n \in Nodes : ref[n].known =>
           /\ RuleValid(ref, n) /\ ArgumentValid(ref, n)
           /\ CountsValid(ref, n) /\ OrderValid(ref, n)

-----------------------------------------------------------------------------
(* A yang-version statement with a prefix is taken for the version of the  *)
(* module, and a module statement with a prefix is not checked at all.     *)
Deviant == ~Plain(1) \/ \E n \in Sub(1) : Kw(n) = "yang-version" /\ ~Plain(n)

(* A module is accepted exactly when it is valid: match_rule forgets and   *)
(* marks rules as it goes and moves from section to section, but what it   *)
(* lets through does not depend on that.  In the same way the loop over    *)
(* the prefixes may stop early without harm.                               *)
AcceptsExactly ==
  (phase = "done" /\ ~Deviant) => (errors = <<>> <=> Valid)

Rejected == {errors[i].at : i \in {i \in DOMAIN errors :
               errors[i].code \in {"EXPECTED", "UNEXPECTED", "ALREADY_FOUND"}}}
Entered(n) == \A p \in Around(n) \cup {n} : Known(p) /\ p \notin Rejected

Expecting(n, i) ==
  {k \in DOMAIN errors : errors[k].rule = i /\
     \/ errors[k].code = "EXPECTED" /\ errors[k].at \in Sub(n)
     \/ errors[k].code = "EXPECTED_SUBSTATEMENT" /\ errors[k].at = n}

(* Every mandatory substatement is accounted for: either it is there, or it*)
(* is reported missing, once, at one of the three places where that is     *)
(* noticed - at a later statement, at a cut, at the end - and never both.  *)
AccountedFor ==
  phase = "done" =>
    LET ref == RefStatements
    IN  \A n \in Nodes : Entered(n) =>
          \A i \in DOMAIN ref[n].rules : ref[n].rules[i].occ \in Mandatory =>
            IF \E c \in Sub(n) : Entered(c) /\ ref[c].rule = i
            THEN Expecting(n, i) = {}
            ELSE Cardinality(Expecting(n, i)) = 1

(* Nothing but an undefined prefix is reported in a statement of an unknown*)
(* module or in one that was rejected itself (chk_statements skips both    *)
(* with what is in them, and goes on with the next one).                   *)
NothingBelowSkipped ==
  \A k \in DOMAIN errors :
    errors[k].code \notin {"UNDEFINED_PREFIX", "DUPLICATE_PREFIX"} =>
      \A p \in Around(errors[k].at) : Known(p) /\ p \notin Rejected

(* A check that fails leaves an error for parse, which looks at nothing    *)
(* else; except that a module statement with a prefix is skipped, and that *)
(* it is missing then is reported nowhere.                                 *)
FailureLeavesError == (phase = "done" /\ ~res /\ Plain(1)) => errors # <<>>
=============================================================================
