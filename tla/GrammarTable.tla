---------------------------- MODULE GrammarTable ----------------------------
(***************************************************************************)
(* The tables of argument types and statement grammars                     *)
(* (c_src/rust_atom/src/grammar.rs) and the calls that fill them           *)
(* (c_src/rustler_yang_parser/src/lib.rs).                                 *)
(*                                                                         *)
(* The tables are process globals.  Loading the NIF installs the core      *)
(* types and the core grammar; plugins then call install_arg_types and     *)
(* install_grammar, in the order in which they are loaded, and ignore what *)
(* these return.  A rule names a statement; fix_grammar resolves the name  *)
(* to a specification, in all grammars, after each installation.           *)
(*                                                                         *)
(* A scenario is the core grammar and the sequence of the plugins' calls.  *)
(***************************************************************************)
EXTENDS Naturals, Sequences, FiniteSets

CONSTANTS
  Module,     \* the modules that plugins install a grammar for
  Builtin,    \* the null module name of the core grammar
  Keyword,    \* keywords, Cut among them
  Cut,        \* "$cut", a mark in a list of rules and no statement
  TypeName,   \* names of argument types
  MatchType,  \* those that begin with "=": the argument selects the rule
  NoType,     \* a statement without argument, or memory that was not set
  Scenario    \* the environments to consider, see ScenarioType

AnyModule == Module \cup {Builtin}
Occurrence == {"?", "1", "*", "+"}
Name == AnyModule \X Keyword

(* What a caller gives.  regexp: none was given, or one that compiles or   *)
(* does not.  The core types are constants of the library, with a function *)
(* or a regexp that compiles ("good") or, as "string", with neither.  A    *)
(* core specification has no use-in list.                                  *)
NewType == [name : TypeName, regexp : {"none", "good", "bad"}]
NewRule == [name : Name, occ : Occurrence]
NewSpec == [keyword : Keyword, arg : TypeName \cup {NoType}, rules : Seq(NewRule),
            occ : Occurrence, usein : Seq(Name)]
Call == [op : {"types"}, types : Seq(NewType)]
          \cup [op : {"grammar"}, module : Module, specs : Seq(NewSpec)]
ScenarioType == [types : Seq(NewType), core : Seq(NewSpec), calls : Seq(Call)]

ASSUME NamesAssumption ==
  /\ Builtin \notin Module
  /\ Cut \in Keyword
  /\ MatchType \subseteq TypeName
  /\ NoType \notin TypeName
ASSUME ScenarioAssumption ==
  /\ Scenario \subseteq ScenarioType
  /\ \A s \in Scenario :
       s.types # <<>> /\ \A i \in DOMAIN s.types : s.types[i].regexp # "bad"

VARIABLES
  scn,      \* the scenario, never changed
  types,    \* TYPES: NTYPES slots
  grammar,  \* GRAMMAR: NGRAMMAR grammars
  fixed,    \* what fix_grammar returned when it was last called
  pending,  \* use-in entries that the call being served has still to add
  results,  \* what the calls returned so far
  pc        \* "load", "call", "usein", or "unloaded" when the NIF is not there

vars == <<scn, types, grammar, fixed, pending, results, pc>>

(* A rule's pointer to a specification, <<grammar, specification>>.        *)
Null == <<0, 0>>
Rule == [name : Name, occ : Occurrence, spec : Nat \X Nat]
Spec_ == [keyword : Keyword, arg : Nat, match : BOOLEAN, rules : Seq(Rule)]
Grammar == [module : AnyModule, specs : Seq(Spec_)]

(* check: "cb" - a validation function; "any" - no regexp was given; "raw" *)
(* - the flag of a regexp is still set, which nothing but the installation *)
(* looks at.                                                               *)
Slot == [name : TypeName \cup {NoType}, check : {"cb", "any", "raw"}]

TypeOK ==
  /\ types \in Seq(Slot)
  /\ grammar \in Seq(Grammar)
  /\ fixed \in BOOLEAN
  /\ pending \subseteq (Nat \X Nat)
  /\ results \in Seq({"ok", "error", "badarg"})
  /\ pc \in {"load", "call", "usein", "unloaded"}

-----------------------------------------------------------------------------
(* get_grammar.  The operators that look something up yield the set of     *)
(* what they find, which has at most one element.                          *)
GrammarOf(tab, m) ==
  {g \in DOMAIN tab : tab[g].module = m /\ \A h \in 1 .. g-1 : tab[h].module # m}

(* Fault: the slot that was filled last.                                   *)
TypeIdxLast(name) ==
  {i \in DOMAIN types : types[i].name = name /\ \A j \in DOMAIN types : types[j].name = name => j <= i}

(* yang_get_arg_type_idx: the first slot of that name.                     *)
TypeIdx(name) ==
  {i \in DOMAIN types : types[i].name = name /\ \A j \in 1 .. i-1 : types[j].name # name}

(* yang_get_statement_spec: the first one not selected by its argument.    *)
StatementSpec(tab, m, k) ==
  UNION {{<<g, s>> : s \in {s \in DOMAIN tab[g].specs :
                   /\ tab[g].specs[s].keyword = k /\ ~tab[g].specs[s].match
                   /\ \A r \in 1 .. s-1 :
                        tab[g].specs[r].keyword = k => tab[g].specs[r].match}} :
         g \in GrammarOf(tab, m)}

(* Fault: the neighbours of a rule are not counted.                        *)
NoOffset(rules, k) == 0

(* The rules right before rule k that have its keyword, in fix_grammar.    *)
Offset(rules, k) ==
  Cardinality({j \in 1 .. k-1 : \A i \in j .. k : rules[i].name[2] = rules[k].name[2]})

(* get_spec_from_rule: of the specifications with the keyword of the rule  *)
(* the one with n of them before it.                                       *)
SpecFromRule(specs, kw, n) ==
  {s \in DOMAIN specs :
     /\ specs[s].keyword = kw
     /\ Cardinality({r \in 1 .. s-1 : specs[r].keyword = kw}) = n}

Target(tab, rules, k) ==
  UNION {{<<g, s>> : s \in SpecFromRule(tab[g].specs, rules[k].name[2], Offset(rules, k))} :
         g \in GrammarOf(tab, rules[k].name[1])}

(* The rules of all grammars, as positions <<g, s, k>> of a table.         *)
Positions(tab) ==
  UNION {UNION {{<<g, s, k>> : k \in DOMAIN tab[g].specs[s].rules} :
                s \in DOMAIN tab[g].specs} : g \in DOMAIN tab}
RuleAt(tab, p) == tab[p[1]].specs[p[2]].rules[p[3]]
Before(p, q) ==
  \/ p[1] < q[1]
  \/ p[1] = q[1] /\ p[2] < q[2]
  \/ p[1] = q[1] /\ p[2] = q[2] /\ p[3] < q[3]

Unresolved(tab) ==
  {p \in Positions(tab) : RuleAt(tab, p).spec = Null /\ RuleAt(tab, p).name[2] # Cut}
Stuck(tab) ==
  {p \in Unresolved(tab) : Target(tab, tab[p[1]].specs[p[2]].rules, p[3]) = {}}

(* Fault: only the grammar that was added is fixed.                        *)
FixableLast(tab) ==
  {p \in Unresolved(tab) :
     p[1] = Len(tab) /\ ~\E q \in Stuck(tab) : q = p \/ Before(q, p)}

(* fix_grammar walks all rules of all grammars and returns false at the    *)
(* first one that it cannot resolve; those after it are left as they are.  *)
Fixable(tab) == {p \in Unresolved(tab) : ~\E q \in Stuck(tab) : q = p \/ Before(q, p)}

FixedRule(tab, g, s, k) ==
  LET rules == tab[g].specs[s].rules
  IN  IF <<g, s, k>> \in Fixable(tab)
      THEN [name |-> rules[k].name, occ |-> rules[k].occ,
            spec |-> CHOOSE t \in Target(tab, rules, k) : TRUE]
      ELSE rules[k]

FixGrammar(tab) ==
  [g \in DOMAIN tab |->
     [module |-> tab[g].module,
      specs |-> [s \in DOMAIN tab[g].specs |->
        [keyword |-> tab[g].specs[s].keyword, arg |-> tab[g].specs[s].arg,
         match |-> tab[g].specs[s].match,
         rules |-> [k \in DOMAIN tab[g].specs[s].rules |-> FixedRule(tab, g, s, k)]]]]]

-----------------------------------------------------------------------------
(* yang_install_grammar_str (core) and install_grammar (NIF) turn what     *)
(* they are given into specifications; the name of the argument's type     *)
(* becomes its index, 0 for none.                                          *)
NewSpecs(specs, core) ==
  [s \in DOMAIN specs |->
     [keyword |-> specs[s].keyword,
      arg |-> IF specs[s].arg = NoType THEN 0
              ELSE CHOOSE i \in TypeIdx(specs[s].arg) : TRUE,
      match |-> core /\ specs[s].arg \in MatchType,
      rules |-> [k \in DOMAIN specs[s].rules |->
                   [name |-> specs[s].rules[k].name, occ |-> specs[s].rules[k].occ,
                    spec |-> Null]]]]

TypesKnown(specs) ==
  \A s \in DOMAIN specs : specs[s].arg = NoType \/ TypeIdx(specs[s].arg) # {}

(* yang_install_grammar: the grammar is in the table, for good, before its *)
(* rules are looked at.                                                    *)
AddGrammar(m, specs, core) ==
  LET tab == Append(grammar, [module |-> m, specs |-> NewSpecs(specs, core)])
  IN  /\ grammar' = FixGrammar(tab)
      /\ fixed' = (Stuck(tab) = {})

Return(r) == results' = Append(results, r)

(* The call being served or served next.                                   *)
Current == scn.calls[Len(results) + 1]

Init ==
  /\ scn \in Scenario
  /\ types = <<>> /\ grammar = <<>> /\ fixed = TRUE
  /\ pending = {} /\ results = <<>> /\ pc = "load"

(* yang_install_arg_types counts the new types in NTYPES first, then it    *)
(* copies and compiles them one by one.  The slot of one that it came to:  *)
NewSlot(t) ==
  [name |-> t.name,
   check |-> CASE t.regexp = "none" -> "any" [] t.regexp = "good" -> "cb"
               [] t.regexp = "bad" -> "raw"]

(* load, first half: yang_init_grammar installs the core types.            *)
LoadTypes ==
  /\ pc = "load" /\ types = <<>>
  /\ types' = [i \in DOMAIN scn.types |-> NewSlot(scn.types[i])]
  /\ UNCHANGED <<scn, grammar, fixed, pending, results, pc>>

(* load, second half: the core grammar.  The NIF is not loaded when this   *)
(* fails.                                                                  *)
LoadGrammar ==
  /\ pc = "load" /\ types # <<>>
  /\ IF TypesKnown(scn.core)
     THEN AddGrammar(Builtin, scn.core, TRUE)
     ELSE UNCHANGED <<grammar, fixed>>
  /\ pc' = IF TypesKnown(scn.core) /\ fixed' THEN "call" ELSE "unloaded"
  /\ UNCHANGED <<scn, types, pending, results>>

(* A regexp that does not compile ends the call: NTYPES counts the types   *)
(* after it, but their slots hold what was in the memory before.           *)
Stale == Slot

InstallArgTypes ==
  LET new == Current.types
      bad == {i \in DOMAIN new : new[i].regexp = "bad"}
      copied(i) == \A j \in bad : i <= j
  IN  /\ pc = "call" /\ Len(results) < Len(scn.calls) /\ Current.op = "types"
      /\ \E memory \in [{i \in DOMAIN new : ~copied(i)} -> Stale] :
           types' = types \o [i \in DOMAIN new |->
                               IF copied(i) THEN NewSlot(new[i]) ELSE memory[i]]
      /\ Return(IF bad = {} THEN "ok" ELSE "error")
      /\ UNCHANGED <<scn, grammar, fixed, pending, pc>>

IsGrammarCall ==
  pc = "call" /\ Len(results) < Len(scn.calls) /\ Current.op = "grammar"

(* install_grammar of the NIF, an argument type that it cannot find.       *)
UnknownType ==
  /\ IsGrammarCall /\ ~TypesKnown(Current.specs)
  /\ Return("badarg")
  /\ UNCHANGED <<scn, types, grammar, fixed, pending, pc>>

(* A module that has a grammar already.                                    *)
InstalledAlready ==
  /\ IsGrammarCall /\ TypesKnown(Current.specs)
  /\ GrammarOf(grammar, Current.module) # {}
  /\ Return("error")
  /\ UNCHANGED <<scn, types, grammar, fixed, pending, pc>>

UseInEntries(specs) ==
  UNION {{<<s, j>> : j \in DOMAIN specs[s].usein} : s \in DOMAIN specs}

InstallGrammar ==
  /\ IsGrammarCall /\ TypesKnown(Current.specs)
  /\ GrammarOf(grammar, Current.module) = {}
  /\ AddGrammar(Current.module, Current.specs, FALSE)
  /\ IF fixed'
     THEN /\ pc' = "usein" /\ pending' = UseInEntries(Current.specs)
          /\ UNCHANGED results
     ELSE Return("error") /\ UNCHANGED <<pc, pending>>
  /\ UNCHANGED <<scn, types>>

(* The loop over the use-in lists, an entry at a time.                     *)
NextEntry ==
  CHOOSE p \in pending :
    \A q \in pending : p[1] < q[1] \/ (p[1] = q[1] /\ p[2] <= q[2])
UseInSpec(p) == Current.specs[p[1]]

(* Fault: the rule is added without its specification.                     *)
AddRuleUnresolved(tab, t, rule) ==
  [tab EXCEPT ![t[1]].specs[t[2]].rules = Append(@, [rule EXCEPT !.spec = Null])]

(* yang_add_rule_to_spec.                                                  *)
AddRule(tab, t, rule) ==
  [tab EXCEPT ![t[1]].specs[t[2]].rules = Append(@, rule)]

AddUseIn ==
  LET p == NextEntry
      parent == UseInSpec(p).usein[p[2]]
  IN  /\ pc = "usein" /\ pending # {}
      /\ \E own \in StatementSpec(grammar, Current.module, UseInSpec(p).keyword),
            t \in StatementSpec(grammar, parent[1], parent[2]) :
           grammar' = AddRule(grammar, t,
                        [name |-> <<Current.module, UseInSpec(p).keyword>>,
                         occ |-> UseInSpec(p).occ, spec |-> own])
      /\ pending' = pending \ {p}
      /\ UNCHANGED <<scn, types, fixed, results, pc>>

(* The statement to be used in is not known: the entries before this one   *)
(* stay, the others are never added.                                       *)
UseInFails ==
  LET p == NextEntry
      parent == UseInSpec(p).usein[p[2]]
  IN  /\ pc = "usein" /\ pending # {}
      /\ \/ StatementSpec(grammar, Current.module, UseInSpec(p).keyword) = {}
         \/ StatementSpec(grammar, parent[1], parent[2]) = {}
      /\ Return("error") /\ pc' = "call" /\ pending' = {}
      /\ UNCHANGED <<scn, types, grammar, fixed>>

UseInDone ==
  /\ pc = "usein" /\ pending = {}
  /\ Return("ok") /\ pc' = "call"
  /\ UNCHANGED <<scn, types, grammar, fixed, pending>>

Terminated ==
  /\ pc = "unloaded" \/ (pc = "call" /\ Len(results) = Len(scn.calls))
  /\ UNCHANGED vars

Next ==
  \/ LoadTypes \/ LoadGrammar
  \/ InstallArgTypes
  \/ UnknownType \/ InstalledAlready \/ InstallGrammar
  \/ AddUseIn \/ UseInFails \/ UseInDone
  \/ Terminated

Spec == Init /\ [][Next]_vars

-----------------------------------------------------------------------------
(* A resolved rule leads to a specification with its module and keyword,   *)
(* whichever grammar came first, and the rules that are selected by their  *)
(* argument lead to different ones, in their order (fix_grammar and        *)
(* get_spec_from_rule, the offset).                                        *)
RulesLeadRight ==
  \A p \in Positions(grammar) :
    LET r == RuleAt(grammar, p)
        rules == grammar[p[1]].specs[p[2]].rules
    IN  r.spec # Null =>
          /\ r.spec[1] \in DOMAIN grammar
          /\ r.spec[2] \in DOMAIN grammar[r.spec[1]].specs
          /\ grammar[r.spec[1]].module = r.name[1]
          /\ LET own == grammar[r.spec[1]].specs[r.spec[2]]
             IN  /\ own.keyword = r.name[2]
                 /\ (p[3] < Len(rules) /\ own.match /\ rules[p[3] + 1].name = r.name
                       /\ rules[p[3] + 1].spec # Null) =>
                      rules[p[3] + 1].spec[2] > r.spec[2]

(* Once a rule cannot be resolved no installation succeeds, and nothing    *)
(* else makes one fail: fix_grammar fails exactly when some grammar in the *)
(* table, not only the one being installed, has a rule for a statement     *)
(* that does not exist.  When it succeeds nothing is left unresolved, the  *)
(* rules of earlier failures included.                                     *)
FailsWhileUnresolvable ==
  /\ fixed => Unresolved(grammar) = {}
  /\ ~fixed => Stuck(grammar) # {}

Served == {i \in DOMAIN results : scn.calls[i].op = "grammar" /\ results[i] = "ok"}

(* The specification of statement m:k that rules added by use-in lead to.  *)
FirstSpec(m, k) == CHOOSE t \in StatementSpec(grammar, m, k) : TRUE

(* A plugin that was told `ok' has its grammar in the table as given, every*)
(* rule resolved, and every statement of a use-in list has got its rule:   *)
(* install_grammar adds these one by one and stops at the first failure    *)
(* (the doc of get_statement_spec: "the spec is fully expanded").          *)
OkMeansInstalled ==
  \A i \in Served :
    LET given == scn.calls[i].specs
        m == scn.calls[i].module
    IN  \E g \in DOMAIN grammar :
          /\ grammar[g].module = m
          /\ \A s \in DOMAIN given :
               /\ grammar[g].specs[s].keyword = given[s].keyword
               /\ \A k \in DOMAIN given[s].rules :
                    LET r == grammar[g].specs[s].rules[k]
                    IN  /\ r.name = given[s].rules[k].name
                        /\ r.occ = given[s].rules[k].occ
                        /\ r.spec # Null \/ r.name[2] = Cut
               /\ \A j \in DOMAIN given[s].usein :
                    LET parent == FirstSpec(given[s].usein[j][1], given[s].usein[j][2])
                        rules == grammar[parent[1]].specs[parent[2]].rules
                    IN  \E k \in DOMAIN rules :
                          /\ rules[k].name = <<m, given[s].keyword>>
                          /\ rules[k].occ = given[s].occ
                          /\ rules[k].spec = FirstSpec(m, given[s].keyword)

(* The types that are given before call i, as pairs of a call, 0 for load, *)
(* and a position, and those of them that have a name first.               *)
TypesOf(c) ==
  IF c = 0 THEN scn.types
  ELSE IF scn.calls[c].op = "types" THEN scn.calls[c].types ELSE <<>>
Given(i) == UNION {{<<c, j>> : j \in DOMAIN TypesOf(c)} : c \in 0 .. i-1}
Definition(d) == TypesOf(d[1])[d[2]]
Precedes(d, e) == d[1] < e[1] \/ (d[1] = e[1] /\ d[2] < e[2])
FirstGiven(i, name) ==
  {d \in Given(i) : /\ Definition(d).name = name
                    /\ \A e \in Given(i) : Precedes(e, d) => Definition(e).name # name}

Fails(d) == Definition(d).regexp = "bad"
Wanted(d) == IF Definition(d).regexp = "good" THEN "cb"
             ELSE IF Definition(d).regexp = "none" THEN "any" ELSE "raw"
CheckOf(m, s) == LET g == CHOOSE g \in GrammarOf(grammar, m) : TRUE
                 IN  types[grammar[g].specs[s].arg].check

(* The argument of an installed statement is checked as the type was given *)
(* that had the name first, "string" not at all, whatever is installed     *)
(* later (arg_type_idx, the realloc'd table).  A failed install_arg_types  *)
(* changes this for no type before the regexp that does not compile; that  *)
(* type stays in the table without its check, and grammars that name it    *)
(* are installed.  A grammar with a type that was not given is accepted    *)
(* only when the slots that such a failure leaves unset happen to have it. *)
ArgumentsChecked ==
  \A i \in Served : \A s \in DOMAIN scn.calls[i].specs :
    LET first == FirstGiven(i, scn.calls[i].specs[s].arg)
    IN  scn.calls[i].specs[s].arg # NoType =>
          /\ \A d \in first :
               (\A e \in Given(i) : Precedes(e, d) => ~Fails(e)) =>
                 CheckOf(scn.calls[i].module, s) = Wanted(d)
          /\ first = {} => \E e \in Given(i) : Fails(e)
=============================================================================
