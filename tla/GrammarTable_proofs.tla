------------------------ MODULE GrammarTable_proofs ------------------------
(***************************************************************************)
(* Proofs about GrammarTable, for all grammars and sequences of calls: what*)
(* fix_grammar returns is true of the whole table, whenever it was called; *)
(* rules lead to the statements that they name; what a plugin was told is  *)
(* true from then on, of its grammar and of the types of its arguments.    *)
(***************************************************************************)
EXTENDS GrammarTable, FiniteSetTheorems, WellFoundedInduction, TLAPS

(* The parts of a table.                                                   *)
LEMMA PartsTyped ==
  ASSUME NEW tab \in Seq(Grammar), NEW g \in DOMAIN tab
  PROVE  /\ g \in Nat /\ g # 0
         /\ tab[g] \in Grammar
         /\ tab[g].specs \in Seq(Spec_)
         /\ \A s \in DOMAIN tab[g].specs :
              /\ s \in Nat /\ s # 0
              /\ tab[g].specs[s] \in Spec_
              /\ tab[g].specs[s].rules \in Seq(Rule)
              /\ \A k \in DOMAIN tab[g].specs[s].rules :
                   /\ k \in Nat
                   /\ tab[g].specs[s].rules[k] \in Rule
<1>1. g \in Nat /\ g # 0 /\ tab[g] \in Grammar
  OBVIOUS
<1>2. tab[g].specs \in Seq(Spec_)
  BY <1>1 DEF Grammar
<1>3. ASSUME NEW s \in DOMAIN tab[g].specs
      PROVE  s \in Nat /\ s # 0 /\ tab[g].specs[s] \in Spec_
  BY <1>2
<1>4. ASSUME NEW s \in DOMAIN tab[g].specs
      PROVE  tab[g].specs[s].rules \in Seq(Rule)
  BY <1>3 DEF Spec_
<1>5. ASSUME NEW s \in DOMAIN tab[g].specs, NEW k \in DOMAIN tab[g].specs[s].rules
      PROVE  k \in Nat /\ tab[g].specs[s].rules[k] \in Rule
  BY <1>4
<1> QED  BY <1>1, <1>2, <1>3, <1>4, <1>5

(* What is found in a table is a pointer into it, never the null pointer.  *)
LEMMA TargetPoints ==
  ASSUME NEW tab \in Seq(Grammar), NEW rules, NEW k, NEW t \in Target(tab, rules, k)
  PROVE  t \in Nat \X Nat /\ t # Null
<1>1. PICK g \in GrammarOf(tab, rules[k].name[1]) :
        t \in {<<g, s>> : s \in SpecFromRule(tab[g].specs, rules[k].name[2], Offset(rules, k))}
  BY DEF Target
<1>2. g \in DOMAIN tab
  BY <1>1 DEF GrammarOf
<1>3. PICK s \in DOMAIN tab[g].specs : t = <<g, s>>
  BY <1>1 DEF SpecFromRule
<1> QED  BY <1>2, <1>3, PartsTyped DEF Null

LEMMA StatementSpecPoints ==
  ASSUME NEW tab \in Seq(Grammar), NEW m, NEW kw, NEW t \in StatementSpec(tab, m, kw)
  PROVE  /\ t \in Nat \X Nat /\ t # Null
         /\ t[1] \in DOMAIN tab /\ t[2] \in DOMAIN tab[t[1]].specs
<1>1. PICK g \in GrammarOf(tab, m) : \E s \in DOMAIN tab[g].specs : t = <<g, s>>
  BY DEF StatementSpec
<1>2. PICK s \in DOMAIN tab[g].specs : t = <<g, s>>
  BY <1>1
<1>3. g \in DOMAIN tab
  BY <1>1 DEF GrammarOf
<1> QED  BY <1>2, <1>3, PartsTyped DEF Null

LEMMA TargetIn ==
  ASSUME NEW tab, NEW rules, NEW k, NEW t
  PROVE  t \in Target(tab, rules, k) <=>
           \E g \in GrammarOf(tab, rules[k].name[1]) :
             \E s \in SpecFromRule(tab[g].specs, rules[k].name[2], Offset(rules, k)) : t = <<g, s>>
BY DEF Target

LEMMA PositionsIn ==
  ASSUME NEW tab, NEW p
  PROVE  p \in Positions(tab) <=>
           \E g \in DOMAIN tab : \E s \in DOMAIN tab[g].specs :
             \E k \in DOMAIN tab[g].specs[s].rules : p = <<g, s, k>>
BY DEF Positions

-----------------------------------------------------------------------------
(* fix_grammar changes nothing but the pointers of rules.                  *)
LEMMA FixKeeps ==
  ASSUME NEW tab
  PROVE  /\ DOMAIN FixGrammar(tab) = DOMAIN tab
         /\ \A g \in DOMAIN tab :
              /\ FixGrammar(tab)[g].module = tab[g].module
              /\ DOMAIN FixGrammar(tab)[g].specs = DOMAIN tab[g].specs
              /\ \A s \in DOMAIN tab[g].specs :
                   /\ FixGrammar(tab)[g].specs[s].keyword = tab[g].specs[s].keyword
                   /\ FixGrammar(tab)[g].specs[s].arg = tab[g].specs[s].arg
                   /\ FixGrammar(tab)[g].specs[s].match = tab[g].specs[s].match
                   /\ DOMAIN FixGrammar(tab)[g].specs[s].rules = DOMAIN tab[g].specs[s].rules
                   /\ \A k \in DOMAIN tab[g].specs[s].rules :
                        FixGrammar(tab)[g].specs[s].rules[k] = FixedRule(tab, g, s, k)
BY DEF FixGrammar

LEMMA FixedRuleKeeps ==
  ASSUME NEW tab, NEW g, NEW s, NEW k
  PROVE  /\ FixedRule(tab, g, s, k).name = tab[g].specs[s].rules[k].name
         /\ <<g, s, k>> \notin Fixable(tab) =>
              FixedRule(tab, g, s, k) = tab[g].specs[s].rules[k]
         /\ <<g, s, k>> \in Fixable(tab) =>
              FixedRule(tab, g, s, k).spec
                = CHOOSE t \in Target(tab, tab[g].specs[s].rules, k) : TRUE
BY DEF FixedRule

LEMMA FixTyped ==
  ASSUME NEW tab \in Seq(Grammar)
  PROVE  FixGrammar(tab) \in Seq(Grammar)
<1>1. ASSUME NEW g \in DOMAIN tab, NEW s \in DOMAIN tab[g].specs,
             NEW k \in DOMAIN tab[g].specs[s].rules
      PROVE  FixedRule(tab, g, s, k) \in Rule
  <2> DEFINE r == tab[g].specs[s].rules[k]
  <2>1. r \in Rule
    BY PartsTyped
  <2>2. CASE <<g, s, k>> \notin Fixable(tab)
    BY <2>1, <2>2, FixedRuleKeeps
  <2>3. CASE <<g, s, k>> \in Fixable(tab)
    <3>1. <<g, s, k>> \in Unresolved(tab) /\ <<g, s, k>> \notin Stuck(tab)
      BY <2>3 DEF Fixable
    <3>2. Target(tab, tab[g].specs[s].rules, k) # {}
      BY <3>1 DEF Stuck
    <3>3. (CHOOSE t \in Target(tab, tab[g].specs[s].rules, k) : TRUE) \in Nat \X Nat
      BY <3>2, TargetPoints
    <3> QED  BY <2>1, <2>3, <3>3 DEF FixedRule, Rule
  <2> QED  BY <2>2, <2>3
<1>2. ASSUME NEW g \in DOMAIN tab, NEW s \in DOMAIN tab[g].specs
      PROVE  FixGrammar(tab)[g].specs[s] \in Spec_
  <2>1. tab[g].specs[s] \in Spec_ /\ tab[g].specs[s].rules \in Seq(Rule)
    BY PartsTyped
  <2>2. PICK n \in Nat : DOMAIN tab[g].specs[s].rules = 1 .. n
    BY <2>1
  <2>3. [k \in DOMAIN tab[g].specs[s].rules |-> FixedRule(tab, g, s, k)] \in Seq(Rule)
    BY <1>1, <2>2
  <2>4. FixGrammar(tab)[g].specs[s] =
          [keyword |-> tab[g].specs[s].keyword, arg |-> tab[g].specs[s].arg,
           match |-> tab[g].specs[s].match,
           rules |-> [k \in DOMAIN tab[g].specs[s].rules |-> FixedRule(tab, g, s, k)]]
    BY DEF FixGrammar
  <2> QED  BY <2>1, <2>3, <2>4 DEF Spec_
<1>3. ASSUME NEW g \in DOMAIN tab
      PROVE  FixGrammar(tab)[g] \in Grammar
  <2>1. tab[g] \in Grammar /\ tab[g].specs \in Seq(Spec_)
    BY PartsTyped
  <2>2. PICK n \in Nat : DOMAIN tab[g].specs = 1 .. n
    BY <2>1
  <2> DEFINE sp == FixGrammar(tab)[g].specs
  <2>3. sp = [s \in 1 .. n |-> sp[s]]
    BY <2>2 DEF FixGrammar
  <2>4. sp \in Seq(Spec_)
    <3> HIDE DEF sp
    <3>1. \A s \in 1 .. n : sp[s] \in Spec_
      BY <1>2, <2>2 DEF sp
    <3> QED  BY <2>3, <3>1
  <2>5. FixGrammar(tab)[g] = [module |-> tab[g].module, specs |-> sp]
    BY DEF FixGrammar
  <2> HIDE DEF sp
  <2> QED  BY <2>1, <2>4, <2>5 DEF Grammar
<1>4. PICK n \in Nat : DOMAIN tab = 1 .. n
  OBVIOUS
<1> DEFINE fx == FixGrammar(tab)
<1>5. fx = [g \in 1 .. n |-> fx[g]]
  BY <1>4 DEF FixGrammar
<1>6. \A g \in 1 .. n : fx[g] \in Grammar
  BY <1>3, <1>4
<1> HIDE DEF fx
<1>7. fx \in Seq(Grammar)
  BY <1>5, <1>6
<1> QED  BY <1>7 DEF fx

(* What every operation leaves alone: grammars, statements and the names   *)
(* of the rules there were.                                                *)
Grown(tab, new) ==
  /\ DOMAIN tab \subseteq DOMAIN new
  /\ \A g \in DOMAIN tab :
       /\ new[g].module = tab[g].module
       /\ DOMAIN new[g].specs = DOMAIN tab[g].specs
       /\ \A s \in DOMAIN tab[g].specs :
            /\ new[g].specs[s].keyword = tab[g].specs[s].keyword
            /\ new[g].specs[s].match = tab[g].specs[s].match
            /\ new[g].specs[s].arg = tab[g].specs[s].arg
            /\ DOMAIN tab[g].specs[s].rules \subseteq DOMAIN new[g].specs[s].rules
            /\ \A k \in DOMAIN tab[g].specs[s].rules :
                 new[g].specs[s].rules[k].name = tab[g].specs[s].rules[k].name

(* Then what was found is found.                                           *)
LEMMA GrownFinds ==
  ASSUME NEW tab \in Seq(Grammar), NEW new, Grown(tab, new),
         NEW g \in DOMAIN tab, NEW s \in DOMAIN tab[g].specs,
         NEW k \in DOMAIN tab[g].specs[s].rules
  PROVE  Target(tab, tab[g].specs[s].rules, k) \subseteq Target(new, new[g].specs[s].rules, k)
<1> DEFINE old == tab[g].specs[s].rules
           nru == new[g].specs[s].rules
<1>1. old \in Seq(Rule) /\ k \in Nat
  BY PartsTyped
<1>2. \A i \in DOMAIN old : nru[i].name = old[i].name
  BY DEF Grown
<1>3. \A j \in 1 .. k-1 : \A i \in j .. k : i \in DOMAIN old
  <2> HIDE DEF old
  <2> QED  BY <1>1 DEF old
<1>4. Offset(nru, k) = Offset(old, k)
  <2> HIDE DEF old, nru
  <2>1. {j \in 1 .. k-1 : \A i \in j .. k : nru[i].name[2] = nru[k].name[2]}
          = {j \in 1 .. k-1 : \A i \in j .. k : old[i].name[2] = old[k].name[2]}
    <3>1. nru[k].name = old[k].name
      BY <1>2 DEF old
    <3> QED  BY <1>2, <1>3, <3>1
  <2> QED  BY <2>1 DEF Offset
<1>5. \A m : GrammarOf(tab, m) \subseteq GrammarOf(new, m)
  <2> SUFFICES ASSUME NEW m, NEW h \in GrammarOf(tab, m)
               PROVE  h \in GrammarOf(new, m)
    OBVIOUS
  <2>1. h \in DOMAIN tab /\ tab[h].module = m /\ \A i \in 1 .. h-1 : tab[i].module # m
    BY DEF GrammarOf
  <2>2. \A i \in 1 .. h-1 : i \in DOMAIN tab
    BY <2>1
  <2> QED  BY <2>1, <2>2 DEF GrammarOf, Grown
<1>6. ASSUME NEW h \in DOMAIN tab, NEW kw, NEW n
      PROVE  SpecFromRule(new[h].specs, kw, n) = SpecFromRule(tab[h].specs, kw, n)
  <2> DEFINE osp == tab[h].specs
             nsp == new[h].specs
  <2>1. osp \in Seq(Spec_)
    BY PartsTyped
  <2>2. DOMAIN nsp = DOMAIN osp /\ \A r \in DOMAIN osp : nsp[r].keyword = osp[r].keyword
    BY DEF Grown
  <2> HIDE DEF osp, nsp
  <2>3. ASSUME NEW r \in DOMAIN osp
        PROVE  {q \in 1 .. r-1 : nsp[q].keyword = kw} = {q \in 1 .. r-1 : osp[q].keyword = kw}
    <3>1. \A q \in 1 .. r-1 : q \in DOMAIN osp
      BY <2>1
    <3> QED  BY <2>2, <3>1
  <2>4. \A r \in DOMAIN osp :
          Cardinality({q \in 1 .. r-1 : nsp[q].keyword = kw})
            = Cardinality({q \in 1 .. r-1 : osp[q].keyword = kw})
    BY <2>3
  <2>5. {r \in DOMAIN nsp : nsp[r].keyword = kw
                              /\ Cardinality({q \in 1 .. r-1 : nsp[q].keyword = kw}) = n}
          = {r \in DOMAIN osp : osp[r].keyword = kw
                                /\ Cardinality({q \in 1 .. r-1 : osp[q].keyword = kw}) = n}
    BY <2>2, <2>4
  <2> QED  BY <2>5 DEF SpecFromRule, osp, nsp
<1>7. nru[k].name = old[k].name
  BY <1>2
<1>8. \A m : \A h \in GrammarOf(tab, m) : h \in DOMAIN tab
  BY DEF GrammarOf
<1> HIDE DEF old, nru
<1>9. ASSUME NEW t \in Target(tab, old, k)
      PROVE  t \in Target(new, nru, k)
  BY <1>4, <1>5, <1>6, <1>7, <1>8, TargetIn
<1> QED  BY <1>9 DEF old, nru

LEMMA FixGrown ==
  ASSUME NEW tab \in Seq(Grammar)
  PROVE  Grown(tab, FixGrammar(tab))
<1> SUFFICES ASSUME NEW g \in DOMAIN tab, NEW s \in DOMAIN tab[g].specs,
                    NEW k \in DOMAIN tab[g].specs[s].rules
             PROVE  FixGrammar(tab)[g].specs[s].rules[k].name = tab[g].specs[s].rules[k].name
  BY FixKeeps DEF Grown
<1>1. FixGrammar(tab)[g].specs[s].rules[k] = FixedRule(tab, g, s, k)
  BY FixKeeps
<1>2. FixedRule(tab, g, s, k).name = tab[g].specs[s].rules[k].name
  BY DEF FixedRule
<1> QED  BY <1>1, <1>2

(* A fixed table has the same statements and the same rules for them.      *)
LEMMA FixFinds ==
  ASSUME NEW tab \in Seq(Grammar), NEW g \in DOMAIN tab, NEW s \in DOMAIN tab[g].specs,
         NEW k \in DOMAIN tab[g].specs[s].rules
  PROVE  Target(FixGrammar(tab), FixGrammar(tab)[g].specs[s].rules, k)
           = Target(tab, tab[g].specs[s].rules, k)
<1> DEFINE fx == FixGrammar(tab)
<1>1. Grown(tab, fx) /\ fx \in Seq(Grammar)
  BY FixGrown, FixTyped
<1>2. Grown(fx, tab)
  BY <1>1, FixKeeps DEF Grown
<1>3. g \in DOMAIN fx /\ s \in DOMAIN fx[g].specs /\ k \in DOMAIN fx[g].specs[s].rules
  BY FixKeeps
<1> HIDE DEF fx
<1>4. Target(tab, tab[g].specs[s].rules, k) \subseteq Target(fx, fx[g].specs[s].rules, k)
  BY <1>1, GrownFinds
<1>5. Target(fx, fx[g].specs[s].rules, k) \subseteq Target(tab, tab[g].specs[s].rules, k)
  BY <1>1, <1>2, <1>3, GrownFinds
<1> QED  BY <1>4, <1>5 DEF fx

LEMMA FixResolves ==
  ASSUME NEW tab \in Seq(Grammar), Stuck(tab) = {}
  PROVE  Unresolved(FixGrammar(tab)) = {}
<1> DEFINE fx == FixGrammar(tab)
<1> SUFFICES ASSUME NEW p \in Unresolved(fx)
             PROVE  FALSE
  OBVIOUS
<1>1. p \in Positions(fx) /\ RuleAt(fx, p).spec = Null /\ RuleAt(fx, p).name[2] # Cut
  BY DEF Unresolved
<1>2. PICK g \in DOMAIN fx : \E s \in DOMAIN fx[g].specs :
             \E k \in DOMAIN fx[g].specs[s].rules : p = <<g, s, k>>
  BY <1>1, PositionsIn
<1>3. PICK s \in DOMAIN fx[g].specs : \E k \in DOMAIN fx[g].specs[s].rules : p = <<g, s, k>>
  BY <1>2
<1>4. PICK k \in DOMAIN fx[g].specs[s].rules : p = <<g, s, k>>
  BY <1>3
<1>5. g \in DOMAIN tab /\ s \in DOMAIN tab[g].specs /\ k \in DOMAIN tab[g].specs[s].rules
  BY FixKeeps
<1>6. RuleAt(fx, p) = FixedRule(tab, g, s, k)
  BY <1>4, <1>5, FixKeeps DEF RuleAt
<1>7. p \in Positions(tab)
  BY <1>4, <1>5, PositionsIn
<1>8. RuleAt(tab, p) = tab[g].specs[s].rules[k]
  BY <1>4 DEF RuleAt
<1>9. CASE p \in Fixable(tab)
  <2>1. p \in Unresolved(tab) /\ p \notin Stuck(tab)
    BY <1>9 DEF Fixable
  <2>2. Target(tab, tab[g].specs[s].rules, k) # {}
    BY <1>4, <2>1 DEF Stuck
  <2>3. (CHOOSE t \in Target(tab, tab[g].specs[s].rules, k) : TRUE) # Null
    BY <2>2, TargetPoints
  <2>4. FixedRule(tab, g, s, k).spec
          = CHOOSE t \in Target(tab, tab[g].specs[s].rules, k) : TRUE
    BY <1>4, <1>9, FixedRuleKeeps
  <2>5. RuleAt(fx, p).spec # Null
    BY <1>6, <2>3, <2>4
  <2> QED  BY <1>1, <2>5
<1>10. CASE p \notin Fixable(tab)
  <2>1. RuleAt(tab, p) = RuleAt(fx, p)
    BY <1>4, <1>6, <1>8, <1>10, FixedRuleKeeps
  <2>2. p \in Unresolved(tab)
    BY <1>1, <1>7, <2>1 DEF Unresolved
  <2> QED  BY <1>10, <2>2 DEF Fixable
<1> QED  BY <1>9, <1>10

LEMMA StuckStays ==
  ASSUME NEW tab \in Seq(Grammar), Stuck(tab) # {}
  PROVE  Stuck(FixGrammar(tab)) # {}
<1> DEFINE fx == FixGrammar(tab)
<1>1. PICK p \in Stuck(tab) : TRUE
  OBVIOUS
<1>2. /\ p \in Positions(tab) /\ RuleAt(tab, p).spec = Null /\ RuleAt(tab, p).name[2] # Cut
      /\ Target(tab, tab[p[1]].specs[p[2]].rules, p[3]) = {}
  BY <1>1 DEF Stuck, Unresolved
<1>3. PICK g \in DOMAIN tab : \E s \in DOMAIN tab[g].specs :
             \E k \in DOMAIN tab[g].specs[s].rules : p = <<g, s, k>>
  BY <1>2, PositionsIn
<1>4. PICK s \in DOMAIN tab[g].specs : \E k \in DOMAIN tab[g].specs[s].rules : p = <<g, s, k>>
  BY <1>3
<1>5. PICK k \in DOMAIN tab[g].specs[s].rules : p = <<g, s, k>>
  BY <1>4
<1>6. p \notin Fixable(tab)
  BY <1>1 DEF Fixable
<1>7. RuleAt(fx, p) = RuleAt(tab, p)
  BY <1>5, <1>6, FixKeeps, FixedRuleKeeps DEF RuleAt
<1>8. p \in Positions(fx)
  BY <1>5, FixKeeps, PositionsIn
<1>9. Target(fx, fx[p[1]].specs[p[2]].rules, p[3]) = {}
  BY <1>2, <1>5, FixFinds
<1>10. p \in Stuck(fx)
  BY <1>2, <1>7, <1>8, <1>9 DEF Stuck, Unresolved
<1> QED  BY <1>10

-----------------------------------------------------------------------------
(* What the operations build is a table again.                             *)
LEMMA AddRuleTyped ==
  ASSUME NEW tab \in Seq(Grammar), NEW g \in DOMAIN tab, NEW s \in DOMAIN tab[g].specs,
         NEW rule \in Rule
  PROVE  AddRule(tab, <<g, s>>, rule) \in Seq(Grammar)
<1> DEFINE rules == Append(tab[g].specs[s].rules, rule)
           spec == [tab[g].specs[s] EXCEPT !.rules = rules]
           specs == [tab[g].specs EXCEPT ![s] = spec]
           gram == [tab[g] EXCEPT !.specs = specs]
<1>1. rules \in Seq(Rule)
  BY PartsTyped
<1>2. spec \in Spec_
  <2> HIDE DEF rules
  <2>1. tab[g].specs[s] \in Spec_
    BY PartsTyped
  <2> QED  BY <1>1, <2>1 DEF Spec_
<1>3. specs \in Seq(Spec_)
  <2> HIDE DEF spec
  <2> QED  BY <1>2, PartsTyped
<1>4. gram \in Grammar
  <2> HIDE DEF specs
  <2> QED  BY <1>3, PartsTyped DEF Grammar
<1>5. [tab EXCEPT ![g] = gram] \in Seq(Grammar)
  <2> HIDE DEF gram
  <2> QED  BY <1>4
<1>6. AddRule(tab, <<g, s>>, rule) = [tab EXCEPT ![g] = gram]
  BY DEF AddRule
<1> QED  BY <1>5, <1>6

(* A rule that is added with its pointer leaves nothing to resolve.        *)
LEMMA AddRuleResolved ==
  ASSUME NEW tab \in Seq(Grammar), NEW g \in DOMAIN tab, NEW s \in DOMAIN tab[g].specs,
         NEW rule \in Rule, rule.spec # Null, Unresolved(tab) = {}
  PROVE  Unresolved(AddRule(tab, <<g, s>>, rule)) = {}
<1> DEFINE new == AddRule(tab, <<g, s>>, rule)
           old == tab[g].specs[s].rules
<1>1. old \in Seq(Rule)
  BY PartsTyped
<1>2. DOMAIN new = DOMAIN tab
  BY DEF AddRule
<1>3. \A h \in DOMAIN tab : DOMAIN new[h].specs = DOMAIN tab[h].specs
  BY PartsTyped DEF AddRule, Grammar
<1>4. ASSUME NEW h \in DOMAIN tab, NEW r \in DOMAIN tab[h].specs
      PROVE  new[h].specs[r].rules = IF h = g /\ r = s THEN Append(old, rule)
                                     ELSE tab[h].specs[r].rules
  BY PartsTyped DEF AddRule, Grammar, Spec_
<1> HIDE DEF new
<1> SUFFICES ASSUME NEW p \in Unresolved(new)
             PROVE  FALSE
  BY DEF new
<1>5. p \in Positions(new) /\ RuleAt(new, p).spec = Null /\ RuleAt(new, p).name[2] # Cut
  BY DEF Unresolved
<1>6. PICK h \in DOMAIN new : \E r \in DOMAIN new[h].specs :
             \E k \in DOMAIN new[h].specs[r].rules : p = <<h, r, k>>
  BY <1>5, PositionsIn
<1>7. PICK r \in DOMAIN new[h].specs : \E k \in DOMAIN new[h].specs[r].rules : p = <<h, r, k>>
  BY <1>6
<1>8. PICK k \in DOMAIN new[h].specs[r].rules : p = <<h, r, k>>
  BY <1>7
<1>9. h \in DOMAIN tab /\ r \in DOMAIN tab[h].specs
  BY <1>2, <1>3
<1>10. RuleAt(new, p) = new[h].specs[r].rules[k]
  BY <1>8 DEF RuleAt
<1>11. \/ RuleAt(new, p) = rule
       \/ k \in DOMAIN tab[h].specs[r].rules /\ RuleAt(new, p) = tab[h].specs[r].rules[k]
  <2>1. CASE h = g /\ r = s
    <3>1. new[h].specs[r].rules = Append(old, rule)
      BY <1>4, <1>9, <2>1
    <3> HIDE DEF old
    <3>2. \/ Append(old, rule)[k] = rule
          \/ k \in DOMAIN old /\ Append(old, rule)[k] = old[k]
      BY <1>1, <1>8, <3>1
    <3> QED  BY <1>10, <2>1, <3>1, <3>2 DEF old
  <2>2. CASE ~(h = g /\ r = s)
    <3>1. new[h].specs[r].rules = tab[h].specs[r].rules
      BY <1>4, <1>9, <2>2
    <3> QED  BY <1>8, <1>10, <3>1
  <2> QED  BY <2>1, <2>2
<1>12. k \in DOMAIN tab[h].specs[r].rules /\ RuleAt(new, p) = tab[h].specs[r].rules[k]
  BY <1>5, <1>11
<1>13. p \in Positions(tab) /\ RuleAt(tab, p) = RuleAt(new, p)
  BY <1>8, <1>9, <1>12, PositionsIn DEF RuleAt
<1> QED  BY <1>5, <1>13 DEF Unresolved

LEMMA NewSpecsTyped ==
  ASSUME TypeOK, NEW specs \in Seq(NewSpec), NEW core \in BOOLEAN, TypesKnown(specs)
  PROVE  NewSpecs(specs, core) \in Seq(Spec_)
<1>1. ASSUME NEW s \in DOMAIN specs
      PROVE  NewSpecs(specs, core)[s] \in Spec_
  <2>1. specs[s] \in NewSpec
    OBVIOUS
  <2>2. specs[s].keyword \in Keyword /\ specs[s].rules \in Seq(NewRule)
    BY <2>1 DEF NewSpec
  <2> DEFINE arg == IF specs[s].arg = NoType THEN 0
                    ELSE CHOOSE i \in TypeIdx(specs[s].arg) : TRUE
             old == specs[s].rules
             rules == [k \in DOMAIN old |->
                         [name |-> old[k].name, occ |-> old[k].occ, spec |-> Null]]
  <2>3. arg \in Nat
    <3>1. CASE specs[s].arg = NoType
      BY <3>1
    <3>2. CASE specs[s].arg # NoType
      <4>1. TypeIdx(specs[s].arg) # {}
        BY <3>2 DEF TypesKnown
      <4>2. TypeIdx(specs[s].arg) \subseteq DOMAIN types
        BY DEF TypeIdx
      <4>3. (CHOOSE i \in TypeIdx(specs[s].arg) : TRUE) \in DOMAIN types
        BY <4>1, <4>2
      <4>4. \A i \in DOMAIN types : i \in Nat
        BY DEF TypeOK
      <4> QED  BY <3>2, <4>3, <4>4
    <3> QED  BY <3>1, <3>2
  <2>4. rules \in Seq(Rule)
    <3>1. PICK n \in Nat : DOMAIN old = 1 .. n
      BY <2>2
    <3>2. \A k \in DOMAIN old : old[k] \in NewRule
      BY <2>2
    <3>3. Null \in Nat \X Nat
      BY DEF Null
    <3>4. \A k \in DOMAIN old :
            [name |-> old[k].name, occ |-> old[k].occ, spec |-> Null] \in Rule
      BY <3>2, <3>3 DEF NewRule, Rule
    <3>5. rules = [k \in 1 .. n |-> rules[k]] /\ \A k \in 1 .. n : rules[k] \in Rule
      BY <3>1, <3>4
    <3> HIDE DEF old, rules
    <3> QED  BY <3>1, <3>5
  <2>5. NewSpecs(specs, core)[s] =
          [keyword |-> specs[s].keyword, arg |-> arg,
           match |-> core /\ specs[s].arg \in MatchType, rules |-> rules]
    BY DEF NewSpecs
  <2>6. (core /\ specs[s].arg \in MatchType) \in BOOLEAN
    OBVIOUS
  <2> HIDE DEF arg, rules
  <2> QED  BY <2>2, <2>3, <2>4, <2>5, <2>6 DEF Spec_
<1>2. PICK n \in Nat : DOMAIN specs = 1 .. n
  OBVIOUS
<1> DEFINE new == NewSpecs(specs, core)
<1>3. new = [s \in 1 .. n |-> new[s]]
  BY <1>2 DEF NewSpecs
<1>4. \A s \in 1 .. n : new[s] \in Spec_
  BY <1>1, <1>2
<1> HIDE DEF new
<1>5. new \in Seq(Spec_)
  BY <1>3, <1>4
<1> QED  BY <1>5 DEF new

(* The call being served is one of the scenario's.                         *)
LEMMA CallTyped ==
  ASSUME scn \in Scenario, TypeOK, Len(results) < Len(scn.calls)
  PROVE  /\ Current.op = "types" => Current.types \in Seq(NewType)
         /\ Current.op = "grammar" => Current.module \in Module /\ Current.specs \in Seq(NewSpec)
<1>1. scn.calls \in Seq(Call)
  BY ScenarioAssumption DEF ScenarioType
<1>2. Len(results) \in Nat
  BY DEF TypeOK
<1>3. Current \in Call
  BY <1>1, <1>2 DEF Current
<1> QED  BY <1>3 DEF Call

LEMMA InstallTyped ==
  ASSUME TypeOK, NEW m \in AnyModule, NEW specs \in Seq(NewSpec), NEW core \in BOOLEAN,
         TypesKnown(specs), AddGrammar(m, specs, core)
  PROVE  grammar' \in Seq(Grammar) /\ fixed' \in BOOLEAN /\ FailsWhileUnresolvable'
<1> DEFINE g == [module |-> m, specs |-> NewSpecs(specs, core)]
<1>1. g \in Grammar
  BY NewSpecsTyped DEF Grammar
<1>2. PICK tab : tab = Append(grammar, g)
  OBVIOUS
<1>3. tab \in Seq(Grammar)
  <2> HIDE DEF g
  <2> QED  BY <1>1, <1>2 DEF TypeOK
<1>4. grammar' = FixGrammar(tab) /\ fixed' = (Stuck(tab) = {})
  BY <1>2 DEF AddGrammar
<1>5. grammar' \in Seq(Grammar)
  BY <1>3, <1>4, FixTyped
<1>6. fixed' => Unresolved(grammar') = {}
  BY <1>3, <1>4, FixResolves
<1>7. ~fixed' => Stuck(grammar') # {}
  BY <1>3, <1>4, StuckStays
<1> QED  BY <1>4, <1>5, <1>6, <1>7 DEF FailsWhileUnresolvable

LEMMA NewSlotTyped ==
  ASSUME NEW t \in NewType
  PROVE  NewSlot(t) \in Slot
<1>1. t.name \in TypeName /\ t.regexp \in {"none", "good", "bad"}
  BY DEF NewType
<1>2. CASE t.regexp = "none"
  BY <1>1, <1>2 DEF NewSlot, Slot
<1>3. CASE t.regexp = "good"
  BY <1>1, <1>3 DEF NewSlot, Slot
<1>4. CASE t.regexp = "bad"
  BY <1>1, <1>4 DEF NewSlot, Slot
<1> QED  BY <1>1, <1>2, <1>3, <1>4

LEMMA LeastNumber ==
  ASSUME NEW S \in SUBSET Nat, S # {}
  PROVE  \E n \in S : \A m \in S : n <= m
<1> DEFINE R == OpToRel(<, Nat)
<1>1. \A i, j \in Nat : i < j => <<i, j>> \in R
  BY DEF OpToRel
<1> HIDE DEF R
<1>2. PICK n \in S : \A m \in S : ~(<<m, n>> \in R)
  BY NatLessThanWellFounded, WFMin DEF R
<1>3. \A m \in S : ~(m < n)
  BY <1>1, <1>2
<1> QED  BY <1>3

(* The least of a set of pairs.                                            *)
LEMMA LeastPair ==
  ASSUME NEW S \in SUBSET (Nat \X Nat), S # {}
  PROVE  \E a \in S : \A b \in S : a[1] < b[1] \/ (a[1] = b[1] /\ a[2] <= b[2])
<1>1. PICK e : e \in S
  OBVIOUS
<1> DEFINE A == {p[1] : p \in S}
<1>2. A \in SUBSET Nat /\ e[1] \in A
  BY <1>1
<1>3. PICK x \in A : \A y \in A : x <= y
  <2> HIDE DEF A
  <2> QED  BY <1>2, LeastNumber
<1> DEFINE B == {p[2] : p \in {q \in S : q[1] = x}}
<1>4. PICK b \in S : b[1] = x
  BY <1>3
<1>5. B \in SUBSET Nat /\ b[2] \in B
  BY <1>4
<1>6. PICK z \in B : \A y \in B : z <= y
  <2> HIDE DEF B
  <2> QED  BY <1>5, LeastNumber
<1>7. PICK c \in S : c[1] = x /\ c[2] = z
  BY <1>6
<1>8. ASSUME NEW q \in S
      PROVE  c[1] < q[1] \/ (c[1] = q[1] /\ c[2] <= q[2])
  <2>1. x <= q[1] /\ q[1] \in Nat /\ q[2] \in Nat /\ x \in Nat
    BY <1>2, <1>3
  <2>2. CASE q[1] = x
    <3>1. q[2] \in B
      BY <2>2
    <3> QED  BY <1>6, <1>7, <2>2, <3>1
  <2>3. CASE q[1] # x
    BY <1>7, <2>1, <2>3
  <2> QED  BY <2>2, <2>3
<1> QED  BY <1>8

(* The use-in entry that is served next is one that is pending.            *)
LEMMA NextEntryPending ==
  ASSUME pending \subseteq Nat \X Nat, pending # {}
  PROVE  NextEntry \in pending
<1>1. \E p \in pending : \A q \in pending : p[1] < q[1] \/ (p[1] = q[1] /\ p[2] <= q[2])
  BY LeastPair
<1> QED  BY <1>1 DEF NextEntry

-----------------------------------------------------------------------------
(* While use-in entries are added the table is resolved.  (A call that is  *)
(* not finished has no result, so it is the current one.)                  *)
Adding ==
  pc = "usein" =>
    /\ fixed
    /\ Len(results) < Len(scn.calls) /\ Current.op = "grammar"
    /\ pending \subseteq UseInEntries(Current.specs)

IInv == scn \in Scenario /\ TypeOK /\ Adding /\ FailsWhileUnresolvable

LEMMA InitHolds == Init => IInv
<1> SUFFICES ASSUME Init PROVE IInv
  OBVIOUS
<1>1. Unresolved(grammar) = {}
  BY DEF Init, Unresolved, Positions
<1>2. types \in Seq(Slot) /\ grammar \in Seq(Grammar)
  BY DEF Init
<1>3. TypeOK
  BY <1>2 DEF Init, TypeOK
<1> QED  BY <1>1, <1>3 DEF Init, IInv, Adding, FailsWhileUnresolvable

LEMMA ReturnTyped ==
  ASSUME TypeOK, NEW r \in {"ok", "error", "badarg"}, Return(r)
  PROVE  results' \in Seq({"ok", "error", "badarg"})
BY DEF TypeOK, Return

LEMMA UseInEntriesTyped ==
  ASSUME NEW specs \in Seq(NewSpec)
  PROVE  /\ UseInEntries(specs) \subseteq Nat \X Nat
         /\ \A p \in UseInEntries(specs) : specs[p[1]] \in NewSpec
<1> SUFFICES ASSUME NEW p \in UseInEntries(specs)
             PROVE  p \in Nat \X Nat /\ specs[p[1]] \in NewSpec
  OBVIOUS
<1>1. PICK s \in DOMAIN specs : \E j \in DOMAIN specs[s].usein : p = <<s, j>>
  BY DEF UseInEntries
<1>2. specs[s] \in NewSpec /\ s \in Nat
  OBVIOUS
<1>3. specs[s].usein \in Seq(Name)
  BY <1>2 DEF NewSpec
<1>4. PICK j \in DOMAIN specs[s].usein : p = <<s, j>>
  BY <1>1
<1>5. j \in Nat
  BY <1>3
<1> QED  BY <1>2, <1>4, <1>5

LEMMA StepHolds == IInv /\ [Next]_vars => IInv'
<1> SUFFICES ASSUME IInv, [Next]_vars
             PROVE  IInv'
  OBVIOUS
<1> USE DEF IInv
<1>1. CASE LoadTypes
  <2> DEFINE new == [i \in DOMAIN scn.types |-> NewSlot(scn.types[i])]
  <2>1. scn.types \in Seq(NewType)
    BY ScenarioAssumption DEF ScenarioType
  <2>2. PICK n \in Nat : DOMAIN scn.types = 1 .. n
    BY <2>1
  <2>3. new = [i \in 1 .. n |-> new[i]] /\ \A i \in 1 .. n : new[i] \in Slot
    BY <2>1, <2>2, NewSlotTyped
  <2> HIDE DEF new
  <2>4. new \in Seq(Slot)
    BY <2>3
  <2>5. types' \in Seq(Slot)
    BY <1>1, <2>4 DEF LoadTypes, new
  <2>6. TypeOK'
    BY <1>1, <2>5 DEF LoadTypes, TypeOK
  <2> QED  BY <1>1, <2>6 DEF LoadTypes, Adding, FailsWhileUnresolvable
<1>2. CASE LoadGrammar
  <2>1. scn.core \in Seq(NewSpec)
    BY ScenarioAssumption DEF ScenarioType
  <2>2. grammar' \in Seq(Grammar) /\ fixed' \in BOOLEAN /\ FailsWhileUnresolvable'
    <3>1. CASE TypesKnown(scn.core)
      <4>1. AddGrammar(Builtin, scn.core, TRUE)
        BY <1>2, <3>1 DEF LoadGrammar
      <4> QED  BY <2>1, <3>1, <4>1, InstallTyped DEF AnyModule
    <3>2. CASE ~TypesKnown(scn.core)
      BY <1>2, <3>2 DEF LoadGrammar, TypeOK, FailsWhileUnresolvable
    <3> QED  BY <3>1, <3>2
  <2>3. pc' \in {"call", "unloaded"} /\ UNCHANGED <<scn, types, pending, results>>
    BY <1>2 DEF LoadGrammar
  <2> QED  BY <2>2, <2>3 DEF TypeOK, Adding
<1>3. CASE InstallArgTypes
  <2>1. PICK memory, copied :
          /\ copied \in [DOMAIN Current.types -> BOOLEAN]
          /\ memory \in [{i \in DOMAIN Current.types : ~copied[i]} -> Stale]
          /\ types' = types \o [i \in DOMAIN Current.types |->
                                IF copied[i] THEN NewSlot(Current.types[i]) ELSE memory[i]]
    <3> DEFINE bad == {i \in DOMAIN Current.types : Current.types[i].regexp = "bad"}
               co == [i \in DOMAIN Current.types |-> \A j \in bad : i <= j]
    <3>1. PICK memory \in [{i \in DOMAIN Current.types : ~ \A j \in bad : i <= j} -> Stale] :
            types' = types \o [i \in DOMAIN Current.types |->
                       IF \A j \in bad : i <= j THEN NewSlot(Current.types[i]) ELSE memory[i]]
      BY <1>3 DEF InstallArgTypes
    <3>2. \A i \in DOMAIN Current.types : co[i] = \A j \in bad : i <= j
      OBVIOUS
    <3>3. co \in [DOMAIN Current.types -> BOOLEAN]
      OBVIOUS
    <3>4. {i \in DOMAIN Current.types : ~ \A j \in bad : i <= j}
            = {i \in DOMAIN Current.types : ~co[i]}
      BY <3>2
    <3>5. [i \in DOMAIN Current.types |->
             IF \A j \in bad : i <= j THEN NewSlot(Current.types[i]) ELSE memory[i]]
          = [i \in DOMAIN Current.types |->
               IF co[i] THEN NewSlot(Current.types[i]) ELSE memory[i]]
      BY <3>2
    <3> HIDE DEF co, bad
    <3> QED  BY <3>1, <3>3, <3>4, <3>5
  <2>2. Current.types \in Seq(NewType)
    BY <1>3, CallTyped DEF InstallArgTypes
  <2>3. PICK n \in Nat : DOMAIN Current.types = 1 .. n
    BY <2>2
  <2> DEFINE new == [i \in DOMAIN Current.types |->
                       IF copied[i] THEN NewSlot(Current.types[i]) ELSE memory[i]]
  <2>4. \A i \in 1 .. n : new[i] \in Slot
    <3> TAKE i \in 1 .. n
    <3>1. Current.types[i] \in NewType
      BY <2>2, <2>3
    <3>2. NewSlot(Current.types[i]) \in Slot
      BY <3>1, NewSlotTyped
    <3>3. ~copied[i] => memory[i] \in Slot
      BY <2>1, <2>3 DEF Stale
    <3> QED  BY <2>3, <3>2, <3>3
  <2>5. new = [i \in 1 .. n |-> new[i]]
    BY <2>3
  <2>6. types' = types \o new
    BY <2>1
  <2> HIDE DEF new
  <2>7. types' \in Seq(Slot)
    <3>1. new \in Seq(Slot)
      BY <2>4, <2>5
    <3> QED  BY <2>6, <3>1 DEF TypeOK
  <2>8. results' \in Seq({"ok", "error", "badarg"})
    <3>1. PICK r \in {"ok", "error"} : Return(r)
      BY <1>3 DEF InstallArgTypes
    <3> QED  BY <3>1, ReturnTyped
  <2>9. UNCHANGED <<scn, grammar, fixed, pending, pc>> /\ pc = "call"
    BY <1>3 DEF InstallArgTypes
  <2> QED  BY <2>7, <2>8, <2>9 DEF TypeOK, Adding, FailsWhileUnresolvable
<1>4. CASE UnknownType \/ InstalledAlready
  <2>1. results' \in Seq({"ok", "error", "badarg"})
    <3>1. PICK r \in {"badarg", "error"} : Return(r)
      BY <1>4 DEF UnknownType, InstalledAlready
    <3> QED  BY <3>1, ReturnTyped
  <2>2. UNCHANGED <<scn, types, grammar, fixed, pending, pc>> /\ pc = "call"
    BY <1>4 DEF UnknownType, InstalledAlready, IsGrammarCall
  <2> QED  BY <2>1, <2>2 DEF TypeOK, Adding, FailsWhileUnresolvable
<1>5. CASE InstallGrammar
  <2>1. Current.module \in AnyModule /\ Current.specs \in Seq(NewSpec)
    BY <1>5, CallTyped DEF InstallGrammar, IsGrammarCall, AnyModule
  <2>2. grammar' \in Seq(Grammar) /\ fixed' \in BOOLEAN /\ FailsWhileUnresolvable'
    BY <1>5, <2>1, InstallTyped DEF InstallGrammar
  <2>3. UNCHANGED <<scn, types>>
    BY <1>5 DEF InstallGrammar
  <2>4. CASE fixed'
    <3>1. pc' = "usein" /\ pending' = UseInEntries(Current.specs) /\ UNCHANGED results
      BY <1>5, <2>4 DEF InstallGrammar
    <3>2. Current' = Current
      BY <2>3, <3>1 DEF Current
    <3>3. Adding'
      BY <1>5, <2>3, <2>4, <3>1, <3>2 DEF Adding, InstallGrammar, IsGrammarCall
    <3>4. pending' \subseteq Nat \X Nat
      BY <2>1, <3>1, UseInEntriesTyped
    <3> QED  BY <2>2, <2>3, <3>1, <3>3, <3>4 DEF TypeOK
  <2>5. CASE ~fixed'
    <3>1. UNCHANGED <<pc, pending>> /\ pc = "call"
      BY <1>5, <2>5 DEF InstallGrammar, IsGrammarCall
    <3>2. results' \in Seq({"ok", "error", "badarg"})
      BY <1>5, <2>5, ReturnTyped DEF InstallGrammar
    <3> QED  BY <2>2, <2>3, <3>1, <3>2 DEF TypeOK, Adding
  <2> QED  BY <2>4, <2>5
<1>6. CASE AddUseIn
  <2> DEFINE p == NextEntry
  <2>1. pc = "usein" /\ pending # {} /\ fixed /\ p \in pending
    BY <1>6, NextEntryPending DEF AddUseIn, Adding, TypeOK
  <2>2. UseInSpec(p) \in NewSpec /\ Current.module \in AnyModule
    BY <2>1, CallTyped, UseInEntriesTyped DEF Adding, UseInSpec, AnyModule
  <2>3. PICK own \in StatementSpec(grammar, Current.module, UseInSpec(p).keyword) :
          \E t \in StatementSpec(grammar, UseInSpec(p).usein[p[2]][1], UseInSpec(p).usein[p[2]][2]) :
            grammar' = AddRule(grammar, t,
                         [name |-> <<Current.module, UseInSpec(p).keyword>>,
                          occ |-> UseInSpec(p).occ, spec |-> own])
    BY <1>6 DEF AddUseIn
  <2> DEFINE rule == [name |-> <<Current.module, UseInSpec(p).keyword>>,
                      occ |-> UseInSpec(p).occ, spec |-> own]
  <2>4. PICK t : /\ t \in StatementSpec(grammar, UseInSpec(p).usein[p[2]][1],
                                        UseInSpec(p).usein[p[2]][2])
                 /\ grammar' = AddRule(grammar, t, rule)
    BY <2>3
  <2>5. own \in Nat \X Nat /\ own # Null
    BY StatementSpecPoints DEF TypeOK
  <2>6. rule \in Rule /\ rule.spec # Null
    BY <2>2, <2>5 DEF Rule, Name, NewSpec
  <2>7. t = <<t[1], t[2]>> /\ t[1] \in DOMAIN grammar /\ t[2] \in DOMAIN grammar[t[1]].specs
    BY <2>4, StatementSpecPoints DEF TypeOK
  <2> HIDE DEF rule, p
  <2>8. PICK g, s : t = <<g, s>> /\ g \in DOMAIN grammar /\ s \in DOMAIN grammar[g].specs
    BY <2>7
  <2>9. grammar' \in Seq(Grammar)
    BY <2>4, <2>6, <2>8, AddRuleTyped DEF TypeOK
  <2>10. Unresolved(grammar') = {}
    BY <2>1, <2>4, <2>6, <2>8, AddRuleResolved DEF TypeOK, FailsWhileUnresolvable
  <2>11. pending' \subseteq pending /\ UNCHANGED <<scn, types, fixed, results, pc>>
    BY <1>6 DEF AddUseIn
  <2>12. Adding'
    BY <2>11 DEF Adding, Current
  <2>13. TypeOK'
    BY <2>9, <2>11 DEF TypeOK
  <2> QED  BY <2>1, <2>10, <2>11, <2>12, <2>13 DEF FailsWhileUnresolvable
<1>7. CASE UseInFails \/ UseInDone
  <2>1. results' \in Seq({"ok", "error", "badarg"})
    <3>1. PICK r \in {"ok", "error"} : Return(r)
      BY <1>7 DEF UseInFails, UseInDone
    <3> QED  BY <3>1, ReturnTyped
  <2>2. UNCHANGED <<scn, types, grammar, fixed>> /\ pc' = "call"
    BY <1>7 DEF UseInFails, UseInDone
  <2>3. pending' \in {pending, {}}
    BY <1>7 DEF UseInFails, UseInDone
  <2> QED  BY <2>1, <2>2, <2>3 DEF TypeOK, Adding, FailsWhileUnresolvable
<1>8. CASE Terminated \/ UNCHANGED vars
  BY <1>8 DEF Terminated, vars, TypeOK, Adding, Current, FailsWhileUnresolvable
<1> QED  BY <1>1, <1>2, <1>3, <1>4, <1>5, <1>6, <1>7, <1>8 DEF Next

(* The state of the tables is as described, with one flag for what the last*)
(* installation returned.                                                  *)
THEOREM TypeCorrect == Spec => []TypeOK
<1>1. IInv => TypeOK
  BY DEF IInv
<1> QED  BY <1>1, InitHolds, StepHolds, PTL DEF Spec

(* fix_grammar, called for one grammar after another on a table that       *)
(* plugins add to, and whose rules use-in extends without it, says of all  *)
(* of them: there is no unresolved rule anywhere after it succeeded, and   *)
(* one for a missing statement while it fails.                             *)
THEOREM TableResolved == Spec => []FailsWhileUnresolvable
<1>1. IInv => FailsWhileUnresolvable
  BY DEF IInv
<1> QED  BY <1>1, InitHolds, StepHolds, PTL DEF Spec

-----------------------------------------------------------------------------
(* Where resolved rules lead.  Only statements of the core are selected by *)
(* their argument, and a rule for one of these was resolved by counting:   *)
(* it is not from a use-in list.                                           *)
Right(tab, r) ==
  /\ r.spec[1] \in DOMAIN tab
  /\ r.spec[2] \in DOMAIN tab[r.spec[1]].specs
  /\ tab[r.spec[1]].module = r.name[1]
  /\ tab[r.spec[1]].specs[r.spec[2]].keyword = r.name[2]

Leading(tab, rules, k) ==
  rules[k].spec # Null =>
    /\ Right(tab, rules[k])
    /\ rules[k].name[1] = Builtin => rules[k].spec \in Target(tab, rules, k)

Leads(tab) ==
  \A g \in DOMAIN tab : \A s \in DOMAIN tab[g].specs :
    \A k \in DOMAIN tab[g].specs[s].rules : Leading(tab, tab[g].specs[s].rules, k)

MatchesInCore(tab) ==
  \A g \in DOMAIN tab : \A s \in DOMAIN tab[g].specs :
    tab[g].specs[s].match => tab[g].module = Builtin

LEMMA GrownRight ==
  ASSUME NEW tab \in Seq(Grammar), NEW new, Grown(tab, new), NEW r, Right(tab, r)
  PROVE  Right(new, r)
BY DEF Grown, Right

(* A table is in order if what was added or set since it was is.           *)
LEMMA GrownLeads ==
  ASSUME NEW tab \in Seq(Grammar), NEW new, Grown(tab, new), Leads(tab),
         \A g \in DOMAIN new : \A s \in DOMAIN new[g].specs :
           \A k \in DOMAIN new[g].specs[s].rules :
             \/ Leading(new, new[g].specs[s].rules, k)
             \/ /\ g \in DOMAIN tab /\ k \in DOMAIN tab[g].specs[s].rules
                /\ new[g].specs[s].rules[k] = tab[g].specs[s].rules[k]
  PROVE  Leads(new)
<1> SUFFICES ASSUME NEW g \in DOMAIN new, NEW s \in DOMAIN new[g].specs,
                    NEW k \in DOMAIN new[g].specs[s].rules,
                    g \in DOMAIN tab, k \in DOMAIN tab[g].specs[s].rules,
                    new[g].specs[s].rules[k] = tab[g].specs[s].rules[k]
             PROVE  Leading(new, new[g].specs[s].rules, k)
  BY DEF Leads
<1>1. s \in DOMAIN tab[g].specs
  BY DEF Grown
<1>2. Leading(tab, tab[g].specs[s].rules, k)
  BY <1>1 DEF Leads
<1>3. Target(tab, tab[g].specs[s].rules, k) \subseteq Target(new, new[g].specs[s].rules, k)
  BY <1>1, GrownFinds
<1> QED  BY <1>2, <1>3, GrownRight DEF Leading

(* What fix_grammar finds is the statement that the rule names.            *)
LEMMA TargetRight ==
  ASSUME NEW tab \in Seq(Grammar), NEW rules, NEW k,
         rules[k].spec \in Target(tab, rules, k)
  PROVE  Right(tab, rules[k])
<1>1. PICK g \in GrammarOf(tab, rules[k].name[1]) :
        \E s \in SpecFromRule(tab[g].specs, rules[k].name[2], Offset(rules, k)) :
          rules[k].spec = <<g, s>>
  BY TargetIn
<1>2. PICK s \in SpecFromRule(tab[g].specs, rules[k].name[2], Offset(rules, k)) :
        rules[k].spec = <<g, s>>
  BY <1>1
<1>3. g \in DOMAIN tab /\ tab[g].module = rules[k].name[1]
  BY DEF GrammarOf
<1>4. s \in DOMAIN tab[g].specs /\ tab[g].specs[s].keyword = rules[k].name[2]
  BY DEF SpecFromRule
<1> QED  BY <1>2, <1>3, <1>4 DEF Right

-----------------------------------------------------------------------------
(* The operations on the table.                                            *)
LEMMA FixLeads ==
  ASSUME NEW tab \in Seq(Grammar), Leads(tab), MatchesInCore(tab)
  PROVE  Leads(FixGrammar(tab)) /\ MatchesInCore(FixGrammar(tab))
<1> DEFINE fx == FixGrammar(tab)
<1>1. MatchesInCore(fx)
  BY FixKeeps DEF MatchesInCore
<1>2. ASSUME NEW g \in DOMAIN fx, NEW s \in DOMAIN fx[g].specs,
             NEW k \in DOMAIN fx[g].specs[s].rules
      PROVE  \/ Leading(fx, fx[g].specs[s].rules, k)
             \/ /\ g \in DOMAIN tab /\ k \in DOMAIN tab[g].specs[s].rules
                /\ fx[g].specs[s].rules[k] = tab[g].specs[s].rules[k]
  <2>1. /\ g \in DOMAIN tab /\ s \in DOMAIN tab[g].specs /\ k \in DOMAIN tab[g].specs[s].rules
        /\ fx[g].specs[s].rules[k] = FixedRule(tab, g, s, k)
    BY FixKeeps
  <2>2. CASE <<g, s, k>> \notin Fixable(tab)
    BY <2>1, <2>2, FixedRuleKeeps
  <2>3. CASE <<g, s, k>> \in Fixable(tab)
    <3>1. <<g, s, k>> \in Unresolved(tab) /\ <<g, s, k>> \notin Stuck(tab)
      BY <2>3 DEF Fixable
    <3>2. Target(tab, tab[g].specs[s].rules, k) # {}
      BY <3>1 DEF Stuck
    <3>3. fx[g].specs[s].rules[k].spec \in Target(tab, tab[g].specs[s].rules, k)
      <4>1. FixedRule(tab, g, s, k).spec = CHOOSE t \in Target(tab, tab[g].specs[s].rules, k) : TRUE
        BY <2>3, FixedRuleKeeps
      <4>2. (CHOOSE t \in Target(tab, tab[g].specs[s].rules, k) : TRUE)
              \in Target(tab, tab[g].specs[s].rules, k)
        BY <3>2
      <4> QED  BY <2>1, <4>1, <4>2
    <3>4. fx[g].specs[s].rules[k].spec \in Target(fx, fx[g].specs[s].rules, k)
      BY <2>1, <3>3, FixFinds
    <3>5. Right(fx, fx[g].specs[s].rules[k])
      BY <3>4, FixTyped, TargetRight
    <3> QED  BY <3>4, <3>5 DEF Leading
  <2> QED  BY <2>2, <2>3
<1>3. Grown(tab, fx)
  BY FixGrown
<1> HIDE DEF fx
<1>4. Leads(fx)
  BY <1>2, <1>3, GrownLeads
<1> QED  BY <1>1, <1>4 DEF fx

LEMMA AppendLeads ==
  ASSUME NEW tab \in Seq(Grammar), Leads(tab), MatchesInCore(tab), NEW gr \in Grammar,
         \A s \in DOMAIN gr.specs : \A k \in DOMAIN gr.specs[s].rules :
           gr.specs[s].rules[k].spec = Null,
         \A s \in DOMAIN gr.specs : gr.specs[s].match => gr.module = Builtin
  PROVE  Leads(Append(tab, gr)) /\ MatchesInCore(Append(tab, gr))
<1>1. PICK new : new = Append(tab, gr)
  OBVIOUS
<1>2. /\ DOMAIN tab \subseteq DOMAIN new
      /\ \A g \in DOMAIN tab : new[g] = tab[g]
      /\ \A g \in DOMAIN new : g \in DOMAIN tab \/ new[g] = gr
  BY <1>1
<1>3. Grown(tab, new)
  BY <1>2 DEF Grown
<1>4. MatchesInCore(new)
  BY <1>2 DEF MatchesInCore
<1>5. ASSUME NEW g \in DOMAIN new, NEW s \in DOMAIN new[g].specs,
             NEW k \in DOMAIN new[g].specs[s].rules
      PROVE  \/ Leading(new, new[g].specs[s].rules, k)
             \/ /\ g \in DOMAIN tab /\ k \in DOMAIN tab[g].specs[s].rules
                /\ new[g].specs[s].rules[k] = tab[g].specs[s].rules[k]
  BY <1>2 DEF Leading
<1>6. Leads(new)
  BY <1>3, <1>5, GrownLeads
<1> QED  BY <1>1, <1>4, <1>6

(* What there is stays as it is, but for the null pointers.                *)
Kept(tab, new) ==
  /\ Grown(tab, new)
  /\ \A g \in DOMAIN tab : \A s \in DOMAIN tab[g].specs :
       \A k \in DOMAIN tab[g].specs[s].rules :
         LET old == tab[g].specs[s].rules[k]
             r == new[g].specs[s].rules[k]
         IN  r.occ = old.occ /\ (old.spec # Null => r.spec = old.spec)

LEMMA AddRuleKeeps ==
  ASSUME NEW tab \in Seq(Grammar), NEW g \in DOMAIN tab, NEW s \in DOMAIN tab[g].specs,
         NEW rule \in Rule, NEW new, new = AddRule(tab, <<g, s>>, rule)
  PROVE  /\ Kept(tab, new)
         /\ DOMAIN new = DOMAIN tab
         /\ \A h \in DOMAIN tab : \A r \in DOMAIN tab[h].specs :
              \A k \in DOMAIN new[h].specs[r].rules :
                \/ new[h].specs[r].rules[k] = rule
                \/ /\ k \in DOMAIN tab[h].specs[r].rules
                   /\ new[h].specs[r].rules[k] = tab[h].specs[r].rules[k]
         /\ \E k \in DOMAIN new[g].specs[s].rules : new[g].specs[s].rules[k] = rule
<1> DEFINE old == tab[g].specs[s].rules
<1>1. old \in Seq(Rule)
  BY PartsTyped
<1>2. DOMAIN new = DOMAIN tab
  BY DEF AddRule
<1>3. \A h \in DOMAIN tab : /\ new[h].module = tab[h].module
                            /\ DOMAIN new[h].specs = DOMAIN tab[h].specs
  BY PartsTyped DEF AddRule, Grammar
<1>4. ASSUME NEW h \in DOMAIN tab, NEW r \in DOMAIN tab[h].specs
      PROVE  /\ new[h].specs[r].rules = IF h = g /\ r = s THEN Append(old, rule)
                                        ELSE tab[h].specs[r].rules
             /\ new[h].specs[r].keyword = tab[h].specs[r].keyword
             /\ new[h].specs[r].match = tab[h].specs[r].match
             /\ new[h].specs[r].arg = tab[h].specs[r].arg
  <2>1. new[h].specs[r].rules = IF h = g /\ r = s THEN Append(old, rule)
                                ELSE tab[h].specs[r].rules
    BY PartsTyped DEF AddRule, Grammar, Spec_
  <2>2. new[h].specs[r].keyword = tab[h].specs[r].keyword
    BY PartsTyped DEF AddRule, Grammar, Spec_
  <2>3. new[h].specs[r].match = tab[h].specs[r].match
    BY PartsTyped DEF AddRule, Grammar, Spec_
  <2>4. new[h].specs[r].arg = tab[h].specs[r].arg
    BY PartsTyped DEF AddRule, Grammar, Spec_
  <2> QED  BY <2>1, <2>2, <2>3, <2>4
<1>5. PICK seq : seq = Append(old, rule)
  OBVIOUS
<1>6. /\ DOMAIN old \subseteq DOMAIN seq
      /\ \A k \in DOMAIN old : seq[k] = old[k]
      /\ \A k \in DOMAIN seq : seq[k] = rule \/ k \in DOMAIN old
      /\ \E k \in DOMAIN seq : seq[k] = rule
  <2> HIDE DEF old
  <2>1. Len(old) + 1 \in DOMAIN seq /\ seq[Len(old) + 1] = rule
    BY <1>1, <1>5
  <2> QED  BY <1>1, <1>5, <2>1
<1>7. ASSUME NEW h \in DOMAIN tab, NEW r \in DOMAIN tab[h].specs
      PROVE  /\ DOMAIN tab[h].specs[r].rules \subseteq DOMAIN new[h].specs[r].rules
             /\ \A k \in DOMAIN tab[h].specs[r].rules :
                  new[h].specs[r].rules[k] = tab[h].specs[r].rules[k]
             /\ \A k \in DOMAIN new[h].specs[r].rules :
                  new[h].specs[r].rules[k] = rule \/ k \in DOMAIN tab[h].specs[r].rules
  <2>0. new[h].specs[r].rules = IF h = g /\ r = s THEN Append(old, rule)
                                ELSE tab[h].specs[r].rules
    BY <1>4
  <2>1. CASE h = g /\ r = s
    <3>1. new[h].specs[r].rules = seq /\ tab[h].specs[r].rules = old
      BY <1>5, <2>0, <2>1
    <3> HIDE DEF old
    <3> QED  BY <1>6, <3>1
  <2>2. CASE ~(h = g /\ r = s)
    BY <2>0, <2>2
  <2> QED  BY <2>1, <2>2
<1>8. Kept(tab, new)
  <2>1. Grown(tab, new)
    BY <1>2, <1>3, <1>4, <1>7 DEF Grown
  <2> QED  BY <1>7, <2>1 DEF Kept
<1>9. \E k \in DOMAIN new[g].specs[s].rules : new[g].specs[s].rules[k] = rule
  BY <1>4, <1>5, <1>6
<1> QED  BY <1>2, <1>7, <1>8, <1>9

LEMMA AddRuleLeads ==
  ASSUME NEW tab \in Seq(Grammar), Leads(tab), MatchesInCore(tab),
         NEW g \in DOMAIN tab, NEW s \in DOMAIN tab[g].specs, NEW rule \in Rule,
         rule.name[1] # Builtin, Right(tab, rule)
  PROVE  /\ Leads(AddRule(tab, <<g, s>>, rule))
         /\ MatchesInCore(AddRule(tab, <<g, s>>, rule))
<1>1. PICK new : new = AddRule(tab, <<g, s>>, rule)
  OBVIOUS
<1>2. /\ Grown(tab, new)
      /\ DOMAIN new = DOMAIN tab
      /\ \A h \in DOMAIN tab : \A r \in DOMAIN tab[h].specs :
           \A k \in DOMAIN new[h].specs[r].rules :
             \/ new[h].specs[r].rules[k] = rule
             \/ /\ k \in DOMAIN tab[h].specs[r].rules
                /\ new[h].specs[r].rules[k] = tab[h].specs[r].rules[k]
  BY <1>1, AddRuleKeeps DEF Kept
<1>3. Right(new, rule)
  BY <1>2, GrownRight
<1>4. ASSUME NEW h \in DOMAIN new, NEW r \in DOMAIN new[h].specs,
             NEW k \in DOMAIN new[h].specs[r].rules
      PROVE  \/ Leading(new, new[h].specs[r].rules, k)
             \/ /\ h \in DOMAIN tab /\ k \in DOMAIN tab[h].specs[r].rules
                /\ new[h].specs[r].rules[k] = tab[h].specs[r].rules[k]
  BY <1>2, <1>3 DEF Leading, Grown
<1>5. Leads(new)
  BY <1>2, <1>4, GrownLeads
<1>6. MatchesInCore(new)
  BY <1>2 DEF MatchesInCore, Grown
<1> QED  BY <1>1, <1>5, <1>6

LEMMA InstallLeads ==
  ASSUME TypeOK, NEW m \in AnyModule, NEW specs \in Seq(NewSpec), NEW core \in BOOLEAN,
         TypesKnown(specs), AddGrammar(m, specs, core), core => m = Builtin,
         Leads(grammar), MatchesInCore(grammar)
  PROVE  Leads(grammar') /\ MatchesInCore(grammar')
<1>1. PICK g : g = [module |-> m, specs |-> NewSpecs(specs, core)]
  OBVIOUS
<1>2. g \in Grammar
  BY <1>1, NewSpecsTyped DEF Grammar
<1>3. /\ \A s \in DOMAIN g.specs : \A k \in DOMAIN g.specs[s].rules :
           g.specs[s].rules[k].spec = Null
      /\ \A s \in DOMAIN g.specs : g.specs[s].match => g.module = Builtin
  BY <1>1 DEF NewSpecs
<1>4. grammar \in Seq(Grammar)
  BY DEF TypeOK
<1>5. PICK tab : tab = Append(grammar, g)
  OBVIOUS
<1>6. tab \in Seq(Grammar) /\ Leads(tab) /\ MatchesInCore(tab)
  BY <1>2, <1>3, <1>4, <1>5, AppendLeads
<1>7. grammar' = FixGrammar(tab)
  BY <1>1, <1>5 DEF AddGrammar
<1> QED  BY <1>6, <1>7, FixLeads

LEMMA LeadsInit == Init => Leads(grammar) /\ MatchesInCore(grammar)
BY DEF Init, Leads, MatchesInCore

LEMMA LeadsStep ==
  ASSUME IInv, [Next]_vars, Leads(grammar), MatchesInCore(grammar)
  PROVE  Leads(grammar') /\ MatchesInCore(grammar')
<1> USE DEF IInv
<1>1. CASE LoadGrammar
  <2>1. scn.core \in Seq(NewSpec)
    BY ScenarioAssumption DEF ScenarioType
  <2>2. CASE TypesKnown(scn.core)
    <3>1. AddGrammar(Builtin, scn.core, TRUE)
      BY <1>1, <2>2 DEF LoadGrammar
    <3> QED  BY <2>1, <2>2, <3>1, InstallLeads DEF AnyModule
  <2>3. CASE ~TypesKnown(scn.core)
    BY <1>1, <2>3 DEF LoadGrammar
  <2> QED  BY <2>2, <2>3
<1>2. CASE InstallGrammar
  <2>1. Current.module \in AnyModule /\ Current.specs \in Seq(NewSpec)
    BY <1>2, CallTyped DEF InstallGrammar, IsGrammarCall, AnyModule
  <2> QED  BY <1>2, <2>1, InstallLeads DEF InstallGrammar
<1>3. CASE AddUseIn
  <2> DEFINE p == NextEntry
  <2>1. pc = "usein" /\ pending # {} /\ p \in pending
    BY <1>3, NextEntryPending DEF AddUseIn, Adding, TypeOK
  <2>2. UseInSpec(p) \in NewSpec /\ Current.module \in Module
    BY <2>1, CallTyped, UseInEntriesTyped DEF Adding, UseInSpec
  <2>3. PICK own \in StatementSpec(grammar, Current.module, UseInSpec(p).keyword) :
          \E t \in StatementSpec(grammar, UseInSpec(p).usein[p[2]][1], UseInSpec(p).usein[p[2]][2]) :
            grammar' = AddRule(grammar, t,
                         [name |-> <<Current.module, UseInSpec(p).keyword>>,
                          occ |-> UseInSpec(p).occ, spec |-> own])
    BY <1>3 DEF AddUseIn
  <2> DEFINE rule == [name |-> <<Current.module, UseInSpec(p).keyword>>,
                      occ |-> UseInSpec(p).occ, spec |-> own]
  <2>4. PICK t : /\ t \in StatementSpec(grammar, UseInSpec(p).usein[p[2]][1],
                                        UseInSpec(p).usein[p[2]][2])
                 /\ grammar' = AddRule(grammar, t, rule)
    BY <2>3
  <2>5. own \in Nat \X Nat
    BY StatementSpecPoints DEF TypeOK
  <2>6. rule \in Rule /\ rule.name[1] # Builtin
    BY <2>2, <2>5, NamesAssumption DEF Rule, Name, NewSpec, AnyModule
  <2>7. Right(grammar, rule)
    <3>1. PICK h \in GrammarOf(grammar, Current.module) :
            \E r \in DOMAIN grammar[h].specs :
              own = <<h, r>> /\ grammar[h].specs[r].keyword = UseInSpec(p).keyword
      BY DEF StatementSpec
    <3>2. h \in DOMAIN grammar /\ grammar[h].module = Current.module
      BY DEF GrammarOf
    <3> QED  BY <3>1, <3>2 DEF Right
  <2>8. t = <<t[1], t[2]>> /\ t[1] \in DOMAIN grammar /\ t[2] \in DOMAIN grammar[t[1]].specs
    BY <2>4, StatementSpecPoints DEF TypeOK
  <2> HIDE DEF rule, p
  <2>9. PICK g, s : t = <<g, s>> /\ g \in DOMAIN grammar /\ s \in DOMAIN grammar[g].specs
    BY <2>8
  <2> QED  BY <2>4, <2>6, <2>7, <2>9, AddRuleLeads DEF TypeOK
<1>4. CASE UNCHANGED grammar
  BY <1>4
<1>5. \/ LoadGrammar \/ InstallGrammar \/ AddUseIn \/ UNCHANGED grammar
  BY DEF Next, vars, LoadTypes, InstallArgTypes, UnknownType, InstalledAlready,
         UseInFails, UseInDone, Terminated
<1> QED  BY <1>1, <1>2, <1>3, <1>4, <1>5

-----------------------------------------------------------------------------
(* Two rules for one statement, one after the other, are resolved to       *)
(* different specifications, in their order.                               *)
LEMMA OffsetGrows ==
  ASSUME NEW rules \in Seq(Rule), NEW k \in Nat, k + 1 \in DOMAIN rules, k \in DOMAIN rules,
         rules[k + 1].name = rules[k].name
  PROVE  Offset(rules, k) \in Nat /\ Offset(rules, k + 1) = Offset(rules, k) + 1
<1> DEFINE kw == rules[k].name[2]
           A == {j \in 1 .. k-1 : \A i \in j .. k : rules[i].name[2] = kw}
           B == {j \in 1 .. (k+1)-1 : \A i \in j .. k+1 : rules[i].name[2] = rules[k+1].name[2]}
<1>1. B = A \cup {k}
  <2>1. rules[k+1].name[2] = kw /\ k # 0
    OBVIOUS
  <2>2. ASSUME NEW j \in 1 .. k-1
        PROVE  (\A i \in j .. k+1 : rules[i].name[2] = kw) <=> (\A i \in j .. k : rules[i].name[2] = kw)
    <3>1. \A i : i \in j .. k+1 <=> i \in j .. k \/ i = k + 1
      OBVIOUS
    <3> HIDE DEF kw
    <3> QED  BY <2>1, <3>1
  <2>3. \A i \in k .. k+1 : rules[i].name[2] = kw
    <3>1. \A i \in k .. k+1 : i = k \/ i = k + 1
      OBVIOUS
    <3> QED  BY <2>1, <3>1
  <2>4. \A j : j \in 1 .. (k+1)-1 <=> j \in 1 .. k-1 \/ j = k
    BY <2>1
  <2> HIDE DEF kw
  <2> QED  BY <2>1, <2>2, <2>3, <2>4
<1>2. IsFiniteSet(A) /\ k \notin A
  <2>1. A \subseteq 1 .. k-1
    OBVIOUS
  <2>2. IsFiniteSet(1 .. k-1)
    BY FS_Interval
  <2>3. k \notin A
    OBVIOUS
  <2> HIDE DEF A
  <2> QED  BY <2>1, <2>2, <2>3, FS_Subset
<1>3. Cardinality(A) \in Nat
  BY <1>2, FS_CardinalityType
<1>4. Cardinality(B) = Cardinality(A) + 1
  <2> HIDE DEF A, B
  <2> QED  BY <1>1, <1>2, FS_AddElement
<1> QED  BY <1>3, <1>4 DEF Offset

LEMMA LaterSpec ==
  ASSUME NEW specs \in Seq(Spec_), NEW kw, NEW n \in Nat,
         NEW s \in SpecFromRule(specs, kw, n), NEW t \in SpecFromRule(specs, kw, n + 1)
  PROVE  t > s
<1> DEFINE A == {r \in 1 .. s-1 : specs[r].keyword = kw}
           B == {r \in 1 .. t-1 : specs[r].keyword = kw}
<1>1. /\ s \in Nat /\ t \in Nat
      /\ Cardinality(A) = n /\ Cardinality(B) = n + 1
  BY DEF SpecFromRule
<1>2. IsFiniteSet(A)
  <2>1. A \subseteq 1 .. s-1
    OBVIOUS
  <2>2. IsFiniteSet(1 .. s-1)
    BY <1>1, FS_Interval
  <2> HIDE DEF A
  <2> QED  BY <2>1, <2>2, FS_Subset
<1>3. SUFFICES ASSUME t <= s PROVE FALSE
  BY <1>1
<1>4. B \subseteq A
  BY <1>1, <1>3
<1> HIDE DEF A, B
<1>5. Cardinality(B) <= Cardinality(A)
  BY <1>2, <1>4, FS_Subset
<1> QED  BY <1>1, <1>5

LEMMA LeadsRight ==
  ASSUME TypeOK, Leads(grammar), MatchesInCore(grammar)
  PROVE  RulesLeadRight
<1> SUFFICES ASSUME NEW p \in Positions(grammar), RuleAt(grammar, p).spec # Null
             PROVE  LET r == RuleAt(grammar, p)
                        rules == grammar[p[1]].specs[p[2]].rules
                    IN  /\ Right(grammar, r)
                        /\ (/\ p[3] < Len(rules) /\ grammar[r.spec[1]].specs[r.spec[2]].match
                            /\ rules[p[3] + 1].name = r.name /\ rules[p[3] + 1].spec # Null) =>
                             rules[p[3] + 1].spec[2] > r.spec[2]
  BY DEF RulesLeadRight, Right
<1> DEFINE r == RuleAt(grammar, p)
           rules == grammar[p[1]].specs[p[2]].rules
           k == p[3]
<1>1. PICK g \in DOMAIN grammar : \E s \in DOMAIN grammar[g].specs :
             \E i \in DOMAIN grammar[g].specs[s].rules : p = <<g, s, i>>
  BY PositionsIn
<1>2. p[1] \in DOMAIN grammar /\ p[2] \in DOMAIN grammar[p[1]].specs /\ k \in DOMAIN rules
  BY <1>1
<1>3. grammar \in Seq(Grammar)
  BY DEF TypeOK
<1>4. rules \in Seq(Rule) /\ k \in Nat
  BY <1>2, <1>3, PartsTyped
<1>5. \A i \in DOMAIN rules : Leading(grammar, rules, i)
  BY <1>2 DEF Leads
<1>6. r = rules[k]
  BY DEF RuleAt
<1>7. Right(grammar, r)
  BY <1>2, <1>5, <1>6 DEF Leading
<1> HIDE DEF r, rules, k
<1>8. ASSUME k < Len(rules), grammar[r.spec[1]].specs[r.spec[2]].match,
             rules[k + 1].name = r.name, rules[k + 1].spec # Null
      PROVE  rules[k + 1].spec[2] > r.spec[2]
  <2>1. k + 1 \in DOMAIN rules /\ k + 1 \in Nat
    BY <1>4, <1>8
  <2>2. r.name[1] = Builtin
    BY <1>7, <1>8 DEF Right, MatchesInCore
  <2>3. r.spec \in Target(grammar, rules, k) /\ rules[k + 1].spec \in Target(grammar, rules, k + 1)
    BY <1>2, <1>5, <1>6, <1>8, <2>1, <2>2 DEF Leading, r
  <2>4. PICK h \in GrammarOf(grammar, r.name[1]) :
          \E s \in SpecFromRule(grammar[h].specs, r.name[2], Offset(rules, k)) : r.spec = <<h, s>>
    BY <1>6, <2>3, TargetIn
  <2>5. PICK h2 \in GrammarOf(grammar, r.name[1]) :
          \E t \in SpecFromRule(grammar[h2].specs, r.name[2], Offset(rules, k + 1)) :
            rules[k + 1].spec = <<h2, t>>
    BY <1>8, <2>3, TargetIn
  <2>6. h2 = h /\ h \in DOMAIN grammar
    <3>1. /\ h \in DOMAIN grammar /\ h2 \in DOMAIN grammar
          /\ h \in Nat /\ h2 \in Nat /\ h # 0 /\ h2 # 0
      BY <1>3, PartsTyped DEF GrammarOf
    <3>2. ~(h < h2) /\ ~(h2 < h)
      BY <3>1 DEF GrammarOf
    <3> QED  BY <3>1, <3>2
  <2>7. grammar[h].specs \in Seq(Spec_)
    BY <1>3, <2>6, PartsTyped
  <2>8. Offset(rules, k) \in Nat /\ Offset(rules, k + 1) = Offset(rules, k) + 1
    BY <1>2, <1>4, <1>6, <1>8, <2>1, OffsetGrows
  <2>9. PICK s \in SpecFromRule(grammar[h].specs, r.name[2], Offset(rules, k)) : r.spec = <<h, s>>
    BY <2>4
  <2>10. PICK t \in SpecFromRule(grammar[h].specs, r.name[2], Offset(rules, k) + 1) :
           rules[k + 1].spec = <<h, t>>
    BY <2>5, <2>6, <2>8
  <2>11. t > s
    BY <2>7, <2>8, LaterSpec
  <2> QED  BY <2>9, <2>10, <2>11
<1> QED  BY <1>7, <1>8 DEF r, rules, k

(* A resolved rule leads to a specification of the statement that it names,*)
(* and rules that are selected by their argument to different ones, in     *)
(* their order, whichever grammars were installed when it was resolved     *)
(* and whatever has been added since (fix_grammar, get_spec_from_rule).    *)
THEOREM RulesAlwaysLeadRight == Spec => []RulesLeadRight
<1> DEFINE J == IInv /\ Leads(grammar) /\ MatchesInCore(grammar)
<1>1. Init => J
  BY InitHolds, LeadsInit
<1>2. J /\ [Next]_vars => J'
  <2> SUFFICES ASSUME J, [Next]_vars PROVE J'
    OBVIOUS
  <2>1. IInv'
    BY StepHolds
  <2>2. (Leads(grammar) /\ MatchesInCore(grammar))'
    BY LeadsStep
  <2> QED  BY <2>1, <2>2
<1>3. J => RulesLeadRight
  BY LeadsRight DEF IInv
<1> HIDE DEF J
<1> QED  BY <1>1, <1>2, <1>3, PTL DEF Spec

-----------------------------------------------------------------------------
(* What a call has installed, and that nothing takes it away again.        *)
LEMMA FixKept ==
  ASSUME NEW tab \in Seq(Grammar)
  PROVE  Kept(tab, FixGrammar(tab))
<1>1. ASSUME NEW g \in DOMAIN tab, NEW s \in DOMAIN tab[g].specs,
             NEW k \in DOMAIN tab[g].specs[s].rules
      PROVE  /\ FixGrammar(tab)[g].specs[s].rules[k].occ = tab[g].specs[s].rules[k].occ
             /\ tab[g].specs[s].rules[k].spec # Null =>
                  FixGrammar(tab)[g].specs[s].rules[k].spec = tab[g].specs[s].rules[k].spec
  <2>1. FixGrammar(tab)[g].specs[s].rules[k] = FixedRule(tab, g, s, k)
    BY FixKeeps
  <2>2. FixedRule(tab, g, s, k).occ = tab[g].specs[s].rules[k].occ
    BY DEF FixedRule
  <2>3. ASSUME tab[g].specs[s].rules[k].spec # Null
        PROVE  <<g, s, k>> \notin Fixable(tab)
    BY <2>3 DEF Fixable, Unresolved, RuleAt
  <2>4. tab[g].specs[s].rules[k].spec # Null => FixedRule(tab, g, s, k) = tab[g].specs[s].rules[k]
    BY <2>3, FixedRuleKeeps
  <2> QED  BY <2>1, <2>2, <2>4
<1>2. Grown(tab, FixGrammar(tab))
  BY FixGrown
<1> QED  BY <1>1, <1>2 DEF Kept

LEMMA AppendKept ==
  ASSUME NEW tab \in Seq(Grammar), NEW gr
  PROVE  Kept(tab, Append(tab, gr))
<1>1. PICK new : new = Append(tab, gr)
  OBVIOUS
<1>2. DOMAIN tab \subseteq DOMAIN new /\ \A g \in DOMAIN tab : new[g] = tab[g]
  BY <1>1
<1> QED  BY <1>1, <1>2 DEF Kept, Grown

LEMMA KeptKept ==
  ASSUME NEW a, NEW b, NEW c, Kept(a, b), Kept(b, c)
  PROVE  Kept(a, c)
<1>1. Grown(a, c)
  <2>1. DOMAIN a \subseteq DOMAIN c
    BY DEF Kept, Grown
  <2>2. ASSUME NEW g \in DOMAIN a
        PROVE  c[g].module = a[g].module /\ DOMAIN c[g].specs = DOMAIN a[g].specs
    BY DEF Kept, Grown
  <2>3. ASSUME NEW g \in DOMAIN a, NEW s \in DOMAIN a[g].specs
        PROVE  /\ c[g].specs[s].keyword = a[g].specs[s].keyword
               /\ c[g].specs[s].match = a[g].specs[s].match
               /\ c[g].specs[s].arg = a[g].specs[s].arg
               /\ DOMAIN a[g].specs[s].rules \subseteq DOMAIN c[g].specs[s].rules
               /\ \A k \in DOMAIN a[g].specs[s].rules :
                    c[g].specs[s].rules[k].name = a[g].specs[s].rules[k].name
    BY DEF Kept, Grown
  <2> QED  BY <2>1, <2>2, <2>3 DEF Grown
<1>2. ASSUME NEW g \in DOMAIN a, NEW s \in DOMAIN a[g].specs,
             NEW k \in DOMAIN a[g].specs[s].rules
      PROVE  /\ c[g].specs[s].rules[k].occ = a[g].specs[s].rules[k].occ
             /\ a[g].specs[s].rules[k].spec # Null =>
                  c[g].specs[s].rules[k].spec = a[g].specs[s].rules[k].spec
  BY DEF Kept, Grown
<1> QED  BY <1>1, <1>2 DEF Kept

LEMMA StatementSpecIn ==
  ASSUME NEW tab, NEW m, NEW kw, NEW t
  PROVE  t \in StatementSpec(tab, m, kw) <=>
           \E g \in GrammarOf(tab, m) : \E s \in DOMAIN tab[g].specs :
             /\ t = <<g, s>>
             /\ tab[g].specs[s].keyword = kw /\ ~tab[g].specs[s].match
             /\ \A r \in 1 .. s-1 : tab[g].specs[r].keyword = kw => tab[g].specs[r].match
BY DEF StatementSpec

LEMMA OneGrammar ==
  ASSUME NEW tab \in Seq(Grammar), NEW m, NEW g \in GrammarOf(tab, m), NEW h \in GrammarOf(tab, m)
  PROVE  g = h
<1>1. g \in DOMAIN tab /\ h \in DOMAIN tab /\ g \in Nat /\ h \in Nat /\ g # 0 /\ h # 0
  BY PartsTyped DEF GrammarOf
<1>2. ~(g < h) /\ ~(h < g)
  BY <1>1 DEF GrammarOf
<1> QED  BY <1>1, <1>2

LEMMA OneStatementSpec ==
  ASSUME NEW tab \in Seq(Grammar), NEW m, NEW kw,
         NEW t \in StatementSpec(tab, m, kw), NEW u \in StatementSpec(tab, m, kw)
  PROVE  t = u
<1>1. PICK g \in GrammarOf(tab, m) : \E s \in DOMAIN tab[g].specs :
             /\ t = <<g, s>>
             /\ tab[g].specs[s].keyword = kw /\ ~tab[g].specs[s].match
             /\ \A r \in 1 .. s-1 : tab[g].specs[r].keyword = kw => tab[g].specs[r].match
  BY StatementSpecIn
<1>2. PICK h \in GrammarOf(tab, m) : \E s \in DOMAIN tab[h].specs :
             /\ u = <<h, s>>
             /\ tab[h].specs[s].keyword = kw /\ ~tab[h].specs[s].match
             /\ \A r \in 1 .. s-1 : tab[h].specs[r].keyword = kw => tab[h].specs[r].match
  BY StatementSpecIn
<1>3. g = h /\ g \in DOMAIN tab
  BY OneGrammar DEF GrammarOf
<1>4. PICK a \in DOMAIN tab[g].specs :
             /\ t = <<g, a>>
             /\ tab[g].specs[a].keyword = kw /\ ~tab[g].specs[a].match
             /\ \A r \in 1 .. a-1 : tab[g].specs[r].keyword = kw => tab[g].specs[r].match
  BY <1>1
<1>5. PICK b \in DOMAIN tab[g].specs :
             /\ u = <<g, b>>
             /\ tab[g].specs[b].keyword = kw /\ ~tab[g].specs[b].match
             /\ \A r \in 1 .. b-1 : tab[g].specs[r].keyword = kw => tab[g].specs[r].match
  BY <1>2, <1>3
<1>6. a \in Nat /\ b \in Nat /\ a # 0 /\ b # 0
  BY <1>3, PartsTyped
<1>7. ~(a < b) /\ ~(b < a)
  BY <1>4, <1>5, <1>6
<1> QED  BY <1>4, <1>5, <1>6, <1>7

LEMMA GrownStatementSpec ==
  ASSUME NEW tab \in Seq(Grammar), NEW new, Grown(tab, new), NEW m, NEW kw
  PROVE  StatementSpec(tab, m, kw) \subseteq StatementSpec(new, m, kw)
<1> SUFFICES ASSUME NEW t \in StatementSpec(tab, m, kw)
             PROVE  t \in StatementSpec(new, m, kw)
  OBVIOUS
<1>1. PICK g \in GrammarOf(tab, m) : \E s \in DOMAIN tab[g].specs :
             /\ t = <<g, s>>
             /\ tab[g].specs[s].keyword = kw /\ ~tab[g].specs[s].match
             /\ \A r \in 1 .. s-1 : tab[g].specs[r].keyword = kw => tab[g].specs[r].match
  BY StatementSpecIn
<1>2. /\ g \in DOMAIN tab /\ tab[g].module = m
      /\ \A h \in 1 .. g-1 : h \in DOMAIN tab /\ tab[h].module # m
  BY DEF GrammarOf
<1>3. g \in GrammarOf(new, m)
  BY <1>2 DEF GrammarOf, Grown
<1>4. PICK s \in DOMAIN tab[g].specs :
             /\ t = <<g, s>>
             /\ tab[g].specs[s].keyword = kw /\ ~tab[g].specs[s].match
             /\ \A r \in 1 .. s-1 : tab[g].specs[r].keyword = kw => tab[g].specs[r].match
  BY <1>1
<1>5. tab[g].specs \in Seq(Spec_)
  BY <1>2, PartsTyped
<1>6. \A r \in 1 .. s-1 : r \in DOMAIN tab[g].specs
  <2> DEFINE sp == tab[g].specs
  <2>1. sp \in Seq(Spec_) /\ s \in DOMAIN sp
    BY <1>5
  <2> HIDE DEF sp
  <2>2. \A r \in 1 .. s-1 : r \in DOMAIN sp
    BY <2>1
  <2> QED  BY <2>2 DEF sp
<1>7. s \in DOMAIN new[g].specs
  BY <1>2 DEF Grown
<1>8. \A r \in DOMAIN tab[g].specs : /\ new[g].specs[r].keyword = tab[g].specs[r].keyword
                                     /\ new[g].specs[r].match = tab[g].specs[r].match
  BY <1>2 DEF Grown
<1> QED  BY <1>3, <1>4, <1>6, <1>7, <1>8, StatementSpecIn

(* Statement sp of module m has its rule in the statement parent.          *)
HasRule(tab, m, sp, parent) ==
  \E t \in StatementSpec(tab, parent[1], parent[2]), own \in StatementSpec(tab, m, sp.keyword) :
    \E k \in DOMAIN tab[t[1]].specs[t[2]].rules :
      /\ tab[t[1]].specs[t[2]].rules[k].name = <<m, sp.keyword>>
      /\ tab[t[1]].specs[t[2]].rules[k].occ = sp.occ
      /\ tab[t[1]].specs[t[2]].rules[k].spec = own

(* Grammar g is as given, and resolved.                                    *)
AsGiven(tab, g, m, given) ==
  /\ tab[g].module = m
  /\ DOMAIN given = DOMAIN tab[g].specs
  /\ \A s \in DOMAIN given :
       /\ tab[g].specs[s].keyword = given[s].keyword
       /\ DOMAIN given[s].rules \subseteq DOMAIN tab[g].specs[s].rules
       /\ \A k \in DOMAIN given[s].rules :
            LET r == tab[g].specs[s].rules[k]
            IN  /\ r.name = given[s].rules[k].name
                /\ r.occ = given[s].rules[k].occ
                /\ r.spec # Null \/ r.name[2] = Cut

(* A call is served but for the use-in entries that are not in done.       *)
Installed(tab, call, done) ==
  /\ \E g \in DOMAIN tab : AsGiven(tab, g, call.module, call.specs)
  /\ \A s \in DOMAIN call.specs : \A j \in DOMAIN call.specs[s].usein :
       <<s, j>> \in done => HasRule(tab, call.module, call.specs[s], call.specs[s].usein[j])

OkInv ==
  /\ \A i \in Served :
       Installed(grammar, scn.calls[i], UseInEntries(scn.calls[i].specs))
  /\ pc = "usein" =>
       Installed(grammar, Current, UseInEntries(Current.specs) \ pending)

LEMMA KeptHasRule ==
  ASSUME NEW tab \in Seq(Grammar), NEW new, Kept(tab, new), NEW m, NEW sp, NEW parent,
         HasRule(tab, m, sp, parent)
  PROVE  HasRule(new, m, sp, parent)
<1>1. PICK t \in StatementSpec(tab, parent[1], parent[2]), own \in StatementSpec(tab, m, sp.keyword) :
        \E k \in DOMAIN tab[t[1]].specs[t[2]].rules :
          /\ tab[t[1]].specs[t[2]].rules[k].name = <<m, sp.keyword>>
          /\ tab[t[1]].specs[t[2]].rules[k].occ = sp.occ
          /\ tab[t[1]].specs[t[2]].rules[k].spec = own
  BY DEF HasRule
<1>2. PICK k \in DOMAIN tab[t[1]].specs[t[2]].rules :
          /\ tab[t[1]].specs[t[2]].rules[k].name = <<m, sp.keyword>>
          /\ tab[t[1]].specs[t[2]].rules[k].occ = sp.occ
          /\ tab[t[1]].specs[t[2]].rules[k].spec = own
  BY <1>1
<1>3. t[1] \in DOMAIN tab /\ t[2] \in DOMAIN tab[t[1]].specs /\ own # Null
  BY StatementSpecPoints
<1>4. /\ k \in DOMAIN new[t[1]].specs[t[2]].rules
      /\ new[t[1]].specs[t[2]].rules[k].name = <<m, sp.keyword>>
      /\ new[t[1]].specs[t[2]].rules[k].occ = sp.occ
      /\ new[t[1]].specs[t[2]].rules[k].spec = own
  BY <1>2, <1>3 DEF Kept, Grown
<1>5. Grown(tab, new)
  BY DEF Kept
<1>6. t \in StatementSpec(new, parent[1], parent[2]) /\ own \in StatementSpec(new, m, sp.keyword)
  BY <1>5, GrownStatementSpec
<1> QED  BY <1>4, <1>6 DEF HasRule

LEMMA KeptInstalled ==
  ASSUME NEW tab \in Seq(Grammar), NEW new, Kept(tab, new), NEW call, NEW done,
         Installed(tab, call, done)
  PROVE  Installed(new, call, done)
<1>1. PICK g \in DOMAIN tab : AsGiven(tab, g, call.module, call.specs)
  BY DEF Installed
<1>2. g \in DOMAIN new /\ new[g].module = call.module /\ DOMAIN call.specs = DOMAIN new[g].specs
  BY <1>1 DEF Kept, Grown, AsGiven
<1>3. ASSUME NEW s \in DOMAIN call.specs
      PROVE  /\ new[g].specs[s].keyword = call.specs[s].keyword
             /\ DOMAIN call.specs[s].rules \subseteq DOMAIN new[g].specs[s].rules
  BY <1>1 DEF Kept, Grown, AsGiven
<1>4. ASSUME NEW s \in DOMAIN call.specs, NEW k \in DOMAIN call.specs[s].rules
      PROVE  LET r == new[g].specs[s].rules[k]
             IN  /\ r.name = call.specs[s].rules[k].name
                 /\ r.occ = call.specs[s].rules[k].occ
                 /\ r.spec # Null \/ r.name[2] = Cut
  <2>1. /\ s \in DOMAIN tab[g].specs /\ k \in DOMAIN tab[g].specs[s].rules
        /\ tab[g].specs[s].rules[k].name = call.specs[s].rules[k].name
        /\ tab[g].specs[s].rules[k].occ = call.specs[s].rules[k].occ
        /\ tab[g].specs[s].rules[k].spec # Null \/ tab[g].specs[s].rules[k].name[2] = Cut
    BY <1>1 DEF AsGiven
  <2> QED  BY <2>1 DEF Kept, Grown
<1>5. AsGiven(new, g, call.module, call.specs)
  BY <1>2, <1>3, <1>4 DEF AsGiven
<1>6. ASSUME NEW s \in DOMAIN call.specs, NEW j \in DOMAIN call.specs[s].usein, <<s, j>> \in done
      PROVE  HasRule(new, call.module, call.specs[s], call.specs[s].usein[j])
  <2>1. HasRule(tab, call.module, call.specs[s], call.specs[s].usein[j])
    BY <1>6 DEF Installed
  <2> QED  BY <2>1, KeptHasRule
<1> QED  BY <1>2, <1>5, <1>6 DEF Installed

(* An installation whose rules could all be resolved.                      *)
LEMMA InstallInstalls ==
  ASSUME TypeOK, NEW call, call.module \in AnyModule, call.specs \in Seq(NewSpec),
         TypesKnown(call.specs), AddGrammar(call.module, call.specs, FALSE), fixed',
         Unresolved(grammar') = {}
  PROVE  Kept(grammar, grammar') /\ Installed(grammar', call, {})
<1>1. PICK gr : gr = [module |-> call.module, specs |-> NewSpecs(call.specs, FALSE)]
  OBVIOUS
<1>2. gr \in Grammar
  BY <1>1, NewSpecsTyped DEF Grammar
<1>3. PICK tab : tab = Append(grammar, gr)
  OBVIOUS
<1>4. tab \in Seq(Grammar) /\ Len(tab) \in DOMAIN tab /\ tab[Len(tab)] = gr
  BY <1>2, <1>3 DEF TypeOK
<1>5. grammar' = FixGrammar(tab)
  BY <1>1, <1>3 DEF AddGrammar
<1>6. Kept(grammar, grammar')
  <2>1. Kept(grammar, tab)
    BY <1>3, AppendKept DEF TypeOK
  <2>2. Kept(tab, grammar')
    BY <1>4, <1>5, FixKept
  <2> QED  BY <2>1, <2>2, KeptKept
<1> DEFINE g == Len(tab)
<1>7. /\ g \in DOMAIN grammar' /\ grammar'[g].module = call.module
      /\ DOMAIN call.specs = DOMAIN grammar'[g].specs
  <2>1. DOMAIN gr.specs = DOMAIN call.specs /\ gr.module = call.module
    BY <1>1 DEF NewSpecs
  <2> QED  BY <1>4, <1>5, <2>1, FixKeeps
<1>8. ASSUME NEW s \in DOMAIN call.specs
      PROVE  /\ grammar'[g].specs[s].keyword = call.specs[s].keyword
             /\ DOMAIN call.specs[s].rules = DOMAIN grammar'[g].specs[s].rules
  <2>1. /\ s \in DOMAIN gr.specs /\ gr.specs[s].keyword = call.specs[s].keyword
        /\ DOMAIN gr.specs[s].rules = DOMAIN call.specs[s].rules
    BY <1>1 DEF NewSpecs
  <2> QED  BY <1>4, <1>5, <2>1, FixKeeps
<1>9. ASSUME NEW s \in DOMAIN call.specs, NEW k \in DOMAIN call.specs[s].rules
      PROVE  LET r == grammar'[g].specs[s].rules[k]
             IN  /\ r.name = call.specs[s].rules[k].name
                 /\ r.occ = call.specs[s].rules[k].occ
                 /\ r.spec # Null \/ r.name[2] = Cut
  <2>1. /\ s \in DOMAIN gr.specs /\ k \in DOMAIN gr.specs[s].rules
        /\ gr.specs[s].rules[k].name = call.specs[s].rules[k].name
        /\ gr.specs[s].rules[k].occ = call.specs[s].rules[k].occ
    BY <1>1 DEF NewSpecs
  <2>2. /\ grammar'[g].specs[s].rules[k].name = call.specs[s].rules[k].name
        /\ grammar'[g].specs[s].rules[k].occ = call.specs[s].rules[k].occ
    <3>1. Kept(tab, grammar')
      BY <1>4, <1>5, FixKept
    <3> QED  BY <1>4, <2>1, <3>1 DEF Kept, Grown
  <2>3. <<g, s, k>> \in Positions(grammar')
    BY <1>7, <1>8, PositionsIn
  <2>4. RuleAt(grammar', <<g, s, k>>) = grammar'[g].specs[s].rules[k]
    BY DEF RuleAt
  <2> QED  BY <2>2, <2>3, <2>4 DEF Unresolved
<1> HIDE DEF g
<1>10. AsGiven(grammar', g, call.module, call.specs)
  BY <1>7, <1>8, <1>9 DEF AsGiven
<1> QED  BY <1>6, <1>7, <1>10 DEF Installed

LEMMA ServedSteps ==
  ASSUME TypeOK, scn' = scn, NEW r, Return(r),
         Current.op = "grammar" => r # "ok"
  PROVE  Served' = Served
<1>1. results' = Append(results, r) /\ DOMAIN results' = DOMAIN results \cup {Len(results) + 1}
  BY DEF Return, TypeOK
<1>2. \A i \in DOMAIN results : results'[i] = results[i]
  BY <1>1 DEF TypeOK
<1>3. results'[Len(results) + 1] = r
  BY <1>1 DEF TypeOK
<1> QED  BY <1>1, <1>2, <1>3 DEF Served, Current

LEMMA OkInit == Init => OkInv
<1>1. Init => Served = {}
  BY DEF Init, Served
<1> QED  BY <1>1 DEF Init, OkInv

LEMMA OkServed ==
  ASSUME IInv, OkInv, scn' = scn, Kept(grammar, grammar'), NEW i \in Served
  PROVE  Installed(grammar', scn'.calls[i], UseInEntries(scn'.calls[i].specs))
<1>1. Installed(grammar, scn.calls[i], UseInEntries(scn.calls[i].specs))
  BY DEF OkInv
<1> QED  BY <1>1, KeptInstalled DEF IInv, TypeOK

LEMMA SameKept ==
  ASSUME NEW tab PROVE Kept(tab, tab)
BY DEF Kept, Grown

(* No step takes anything away from the grammars.                          *)
LEMMA GrammarKept ==
  ASSUME IInv, [Next]_vars
  PROVE  Kept(grammar, grammar')
<1> USE DEF IInv
<1>1. ASSUME NEW m \in AnyModule, NEW specs \in Seq(NewSpec), NEW core \in BOOLEAN,
             TypesKnown(specs), AddGrammar(m, specs, core)
      PROVE  Kept(grammar, grammar')
  <2>1. [module |-> m, specs |-> NewSpecs(specs, core)] \in Grammar
    BY <1>1, NewSpecsTyped DEF Grammar
  <2>2. PICK gr \in Grammar : grammar' = FixGrammar(Append(grammar, gr))
    BY <1>1, <2>1 DEF AddGrammar
  <2>3. PICK tab : tab = Append(grammar, gr)
    OBVIOUS
  <2>4. tab \in Seq(Grammar) /\ Kept(grammar, tab)
    BY <2>2, <2>3, AppendKept DEF TypeOK
  <2> QED  BY <2>2, <2>3, <2>4, FixKept, KeptKept
<1>2. CASE LoadGrammar
  <2>1. scn.core \in Seq(NewSpec)
    BY ScenarioAssumption DEF ScenarioType
  <2>2. CASE TypesKnown(scn.core)
    BY <1>1, <1>2, <2>1, <2>2 DEF LoadGrammar, AnyModule
  <2>3. CASE ~TypesKnown(scn.core)
    BY <1>2, <2>3, SameKept DEF LoadGrammar
  <2> QED  BY <2>2, <2>3
<1>3. CASE InstallGrammar
  <2>1. Current.module \in AnyModule /\ Current.specs \in Seq(NewSpec)
    BY <1>3, CallTyped DEF InstallGrammar, IsGrammarCall, AnyModule
  <2> QED  BY <1>1, <1>3, <2>1 DEF InstallGrammar
<1>4. CASE AddUseIn
  <2> DEFINE p == NextEntry
  <2>1. pc = "usein" /\ pending # {} /\ p \in pending
    BY <1>4, NextEntryPending DEF AddUseIn, Adding, TypeOK
  <2>2. UseInSpec(p) \in NewSpec /\ Current.module \in Module
    BY <2>1, CallTyped, UseInEntriesTyped DEF Adding, UseInSpec
  <2>3. PICK own \in StatementSpec(grammar, Current.module, UseInSpec(p).keyword),
             t \in StatementSpec(grammar, UseInSpec(p).usein[p[2]][1], UseInSpec(p).usein[p[2]][2]) :
            grammar' = AddRule(grammar, t,
                         [name |-> <<Current.module, UseInSpec(p).keyword>>,
                          occ |-> UseInSpec(p).occ, spec |-> own])
    BY <1>4 DEF AddUseIn
  <2>4. own \in Nat \X Nat
    BY StatementSpecPoints DEF TypeOK
  <2>5. PICK rule \in Rule : grammar' = AddRule(grammar, t, rule)
    BY <2>2, <2>3, <2>4 DEF Rule, Name, NewSpec, AnyModule
  <2>6. t \in Nat \X Nat /\ t[1] \in DOMAIN grammar /\ t[2] \in DOMAIN grammar[t[1]].specs
    BY StatementSpecPoints DEF TypeOK
  <2> HIDE DEF p
  <2>7. PICK g \in DOMAIN grammar : g = t[1]
    BY <2>6
  <2>8. PICK s \in DOMAIN grammar[g].specs : s = t[2]
    BY <2>6, <2>7
  <2>9. grammar' = AddRule(grammar, <<g, s>>, rule) /\ grammar \in Seq(Grammar)
    <3>1. t = <<g, s>>
      BY <2>6, <2>7, <2>8
    <3> QED  BY <2>5, <3>1 DEF IInv, TypeOK
  <2> QED  BY <2>9, AddRuleKeeps
<1>5. \/ LoadGrammar \/ InstallGrammar \/ AddUseIn \/ UNCHANGED grammar
  BY DEF Next, vars, LoadTypes, InstallArgTypes, UnknownType, InstalledAlready,
         UseInFails, UseInDone, Terminated
<1> QED  BY <1>2, <1>3, <1>4, <1>5, SameKept

LEMMA OkStep ==
  ASSUME IInv, IInv', [Next]_vars, OkInv
  PROVE  OkInv'
<1> USE DEF IInv
<1>1. CASE LoadTypes \/ Terminated \/ UNCHANGED vars
  <2>1. UNCHANGED <<scn, grammar, pending, results, pc>>
    BY <1>1 DEF LoadTypes, Terminated, vars
  <2> QED  BY <2>1 DEF OkInv, Served, Current
<1>2. CASE LoadGrammar
  <2>1. UNCHANGED <<scn, results>> /\ pc' # "usein"
    BY <1>2 DEF LoadGrammar
  <2>2. Kept(grammar, grammar')
    BY GrammarKept
  <2>3. Served' = Served
    BY <2>1 DEF Served
  <2> QED  BY <2>1, <2>2, <2>3, OkServed DEF OkInv
<1>3. CASE InstallArgTypes \/ UnknownType \/ InstalledAlready \/ UseInFails
  <2>1. PICK r : Return(r) /\ (Current.op = "grammar" => r # "ok")
    <3>1. CASE InstallArgTypes
      BY <3>1 DEF InstallArgTypes
    <3>2. CASE UnknownType \/ InstalledAlready \/ UseInFails
      BY <3>2 DEF UnknownType, InstalledAlready, UseInFails
    <3> QED  BY <1>3, <3>1, <3>2
  <2>2. UNCHANGED <<scn, grammar>> /\ pc' = "call"
    BY <1>3 DEF InstallArgTypes, UnknownType, InstalledAlready, UseInFails, IsGrammarCall
  <2>3. Served' = Served
    BY <2>1, <2>2, ServedSteps
  <2> QED  BY <2>2, <2>3, SameKept, OkServed DEF OkInv
<1>4. CASE InstallGrammar
  <2>1. Current.module \in AnyModule /\ Current.specs \in Seq(NewSpec)
    BY <1>4, CallTyped DEF InstallGrammar, IsGrammarCall, AnyModule
  <2>2. scn' = scn
    BY <1>4 DEF InstallGrammar
  <2>3. CASE fixed'
    <3>1. pc' = "usein" /\ pending' = UseInEntries(Current.specs) /\ results' = results
      BY <1>4, <2>3 DEF InstallGrammar
    <3>2. Kept(grammar, grammar') /\ Installed(grammar', Current, {})
      <4>1. Unresolved(grammar') = {}
        BY <2>3 DEF FailsWhileUnresolvable
      <4> QED  BY <1>4, <2>1, <2>3, <4>1, InstallInstalls DEF InstallGrammar
    <3>3. Current' = Current /\ Served' = Served
      BY <2>2, <3>1 DEF Current, Served
    <3>4. Installed(grammar', Current', UseInEntries(Current'.specs) \ pending')
      <4>1. UseInEntries(Current'.specs) \ pending' = {}
        BY <3>1, <3>3
      <4> QED  BY <3>2, <3>3, <4>1
    <3> QED  BY <2>2, <3>2, <3>3, <3>4, OkServed DEF OkInv
  <2>4. CASE ~fixed'
    <3>1. Return("error") /\ pc' = "call"
      BY <1>4, <2>4 DEF InstallGrammar, IsGrammarCall
    <3>2. Served' = Served
      BY <2>2, <3>1, ServedSteps
    <3>3. Kept(grammar, grammar')
      BY GrammarKept
    <3> QED  BY <2>2, <3>1, <3>2, <3>3, OkServed DEF OkInv
  <2> QED  BY <2>3, <2>4
<1>5. CASE AddUseIn
  <2> DEFINE p == NextEntry
             parent == UseInSpec(p).usein[p[2]]
             sp == UseInSpec(p)
             m == Current.module
  <2>1. pc = "usein" /\ pending # {} /\ p \in pending
    BY <1>5, NextEntryPending DEF AddUseIn, Adding, TypeOK
  <2>2. sp \in NewSpec /\ m \in Module
    BY <2>1, CallTyped, UseInEntriesTyped DEF Adding, UseInSpec
  <2>3. PICK own \in StatementSpec(grammar, m, sp.keyword),
             t \in StatementSpec(grammar, parent[1], parent[2]) :
            grammar' = AddRule(grammar, t,
                         [name |-> <<m, sp.keyword>>, occ |-> sp.occ, spec |-> own])
    BY <1>5 DEF AddUseIn
  <2>4. UNCHANGED <<scn, results, pc>> /\ pending' = pending \ {p}
    BY <1>5 DEF AddUseIn
  <2> DEFINE rule == [name |-> <<m, sp.keyword>>, occ |-> sp.occ, spec |-> own]
  <2>5. rule \in Rule
    <3>1. own \in Nat \X Nat
      BY StatementSpecPoints DEF TypeOK
    <3> QED  BY <2>2, <3>1 DEF Rule, Name, NewSpec, AnyModule
  <2>6. rule.name = <<m, sp.keyword>> /\ rule.occ = sp.occ /\ rule.spec = own
    OBVIOUS
  <2>7. grammar' = AddRule(grammar, t, rule)
    BY <2>3
  <2>8. t \in Nat \X Nat /\ t[1] \in DOMAIN grammar /\ t[2] \in DOMAIN grammar[t[1]].specs
    BY StatementSpecPoints DEF TypeOK
  <2> HIDE DEF rule, p, parent, sp, m
  <2>9. grammar' = AddRule(grammar, <<t[1], t[2]>>, rule)
    BY <2>7, <2>8
  <2>10. /\ Kept(grammar, grammar')
         /\ \E k \in DOMAIN grammar'[t[1]].specs[t[2]].rules :
              grammar'[t[1]].specs[t[2]].rules[k] = rule
    <3>1. PICK g \in DOMAIN grammar : g = t[1]
      BY <2>8
    <3>2. PICK s \in DOMAIN grammar[g].specs : s = t[2]
      BY <2>8, <3>1
    <3>3. grammar' = AddRule(grammar, <<g, s>>, rule) /\ grammar \in Seq(Grammar)
      BY <2>9, <3>1, <3>2 DEF TypeOK
    <3>4. /\ Kept(grammar, grammar')
          /\ \E k \in DOMAIN grammar'[g].specs[s].rules :
               grammar'[g].specs[s].rules[k] = rule
      BY <2>5, <3>3, AddRuleKeeps
    <3> QED  BY <3>1, <3>2, <3>4
  <2>11. HasRule(grammar', m, sp, parent)
    <3>1. /\ own \in StatementSpec(grammar', m, sp.keyword)
          /\ t \in StatementSpec(grammar', parent[1], parent[2])
      BY <2>10, GrownStatementSpec DEF TypeOK, Kept
    <3> QED  BY <2>6, <2>10, <3>1 DEF HasRule
  <2>12. Current' = Current /\ Served' = Served
    BY <2>4 DEF Current, Served
  <2>13. Installed(grammar', Current, UseInEntries(Current.specs) \ pending)
    BY <2>1, <2>10, KeptInstalled DEF OkInv, TypeOK
  <2>14. Installed(grammar', Current, UseInEntries(Current.specs) \ (pending \ {p}))
    <3>1. ASSUME NEW s \in DOMAIN Current.specs, NEW j \in DOMAIN Current.specs[s].usein,
                 <<s, j>> \in UseInEntries(Current.specs) \ (pending \ {p})
          PROVE  HasRule(grammar', Current.module, Current.specs[s], Current.specs[s].usein[j])
      <4>1. CASE <<s, j>> = p
        <5>1. sp = Current.specs[s] /\ parent = Current.specs[s].usein[j]
          BY <4>1 DEF sp, parent, UseInSpec
        <5> QED  BY <2>11, <5>1 DEF m
      <4>2. CASE <<s, j>> # p
        BY <2>13, <3>1, <4>2 DEF Installed
      <4> QED  BY <4>1, <4>2
    <3> QED  BY <2>13, <3>1 DEF Installed
  <2> QED  BY <2>4, <2>10, <2>12, <2>14, OkServed DEF OkInv
<1>6. CASE UseInDone
  <2>1. /\ pc = "usein" /\ pending = {} /\ Return("ok") /\ pc' = "call"
        /\ UNCHANGED <<scn, grammar>>
    BY <1>6 DEF UseInDone
  <2>2. Installed(grammar, Current, UseInEntries(Current.specs))
    <3>1. UseInEntries(Current.specs) \ pending = UseInEntries(Current.specs)
      BY <2>1
    <3> QED  BY <2>1, <3>1 DEF OkInv
  <2>3. Served' \subseteq Served \cup {Len(results) + 1}
    <3>1. /\ DOMAIN results' = DOMAIN results \cup {Len(results) + 1}
          /\ \A i \in DOMAIN results : results'[i] = results[i]
      BY <2>1 DEF Return, TypeOK
    <3> QED  BY <2>1, <3>1 DEF Served
  <2>4. ASSUME NEW i \in Served'
        PROVE  Installed(grammar', scn'.calls[i], UseInEntries(scn'.calls[i].specs))
    <3>1. CASE i \in Served
      BY <2>1, <3>1, SameKept, OkServed
    <3>2. CASE i = Len(results) + 1
      BY <2>1, <2>2, <3>2 DEF Current
    <3> QED  BY <2>3, <3>1, <3>2
  <2> QED  BY <2>1, <2>4 DEF OkInv
<1> QED  BY <1>1, <1>2, <1>3, <1>4, <1>5, <1>6 DEF Next

LEMMA OkInstalled ==
  ASSUME TypeOK, OkInv
  PROVE  OkMeansInstalled
<1> SUFFICES ASSUME NEW i \in Served
             PROVE  LET given == scn.calls[i].specs
                        m == scn.calls[i].module
                    IN  \E g \in DOMAIN grammar :
                          /\ grammar[g].module = m
                          /\ \A s \in DOMAIN given :
                               /\ grammar[g].specs[s].keyword = given[s].keyword
                               /\ \A k \in DOMAIN given[s].rules :
                                    LET r == grammar[g].specs[s].rules[k]
                                    IN  /\ r.name = given[s].rules[k].name
                                        /\ r.occ = given[s].rules[k].occ
                                        /\ r.spec # Null \/ r.name[2] = Cut
                               /\ \A j \in DOMAIN given[s].usein :
                                    LET parent == FirstSpec(given[s].usein[j][1], given[s].usein[j][2])
                                        rules == grammar[parent[1]].specs[parent[2]].rules
                                    IN  \E k \in DOMAIN rules :
                                          /\ rules[k].name = <<m, given[s].keyword>>
                                          /\ rules[k].occ = given[s].occ
                                          /\ rules[k].spec = FirstSpec(m, given[s].keyword)
  BY DEF OkMeansInstalled
<1> DEFINE given == scn.calls[i].specs
           m == scn.calls[i].module
<1>1. Installed(grammar, scn.calls[i], UseInEntries(given))
  BY DEF OkInv
<1>2. PICK g \in DOMAIN grammar : AsGiven(grammar, g, m, given)
  BY <1>1 DEF Installed
<1>3. ASSUME NEW s \in DOMAIN given, NEW j \in DOMAIN given[s].usein
      PROVE  LET parent == FirstSpec(given[s].usein[j][1], given[s].usein[j][2])
                 rules == grammar[parent[1]].specs[parent[2]].rules
             IN  \E k \in DOMAIN rules :
                   /\ rules[k].name = <<m, given[s].keyword>>
                   /\ rules[k].occ = given[s].occ
                   /\ rules[k].spec = FirstSpec(m, given[s].keyword)
  <2> DEFINE up == given[s].usein[j]
  <2>1. <<s, j>> \in UseInEntries(given)
    BY DEF UseInEntries
  <2>2. HasRule(grammar, m, given[s], up)
    BY <1>1, <2>1 DEF Installed
  <2> HIDE DEF given, m, up
  <2>3. PICK t \in StatementSpec(grammar, up[1], up[2]), own \in StatementSpec(grammar, m, given[s].keyword) :
          \E k \in DOMAIN grammar[t[1]].specs[t[2]].rules :
            /\ grammar[t[1]].specs[t[2]].rules[k].name = <<m, given[s].keyword>>
            /\ grammar[t[1]].specs[t[2]].rules[k].occ = given[s].occ
            /\ grammar[t[1]].specs[t[2]].rules[k].spec = own
    BY <2>2 DEF HasRule
  <2>4. t = FirstSpec(up[1], up[2])
    <3>1. FirstSpec(up[1], up[2]) \in StatementSpec(grammar, up[1], up[2])
      BY DEF FirstSpec
    <3> QED  BY <3>1, OneStatementSpec DEF TypeOK
  <2>5. own = FirstSpec(m, given[s].keyword)
    <3>1. FirstSpec(m, given[s].keyword) \in StatementSpec(grammar, m, given[s].keyword)
      BY DEF FirstSpec
    <3> QED  BY <3>1, OneStatementSpec DEF TypeOK
  <2> QED  BY <2>3, <2>4, <2>5 DEF up
<1>4. /\ grammar[g].module = m
      /\ \A s \in DOMAIN given :
           /\ grammar[g].specs[s].keyword = given[s].keyword
           /\ \A k \in DOMAIN given[s].rules :
                LET r == grammar[g].specs[s].rules[k]
                IN  /\ r.name = given[s].rules[k].name
                    /\ r.occ = given[s].rules[k].occ
                    /\ r.spec # Null \/ r.name[2] = Cut
  BY <1>2 DEF AsGiven
<1> HIDE DEF given, m
<1> QED  BY <1>3, <1>4 DEF given, m

(* What a plugin is told is true for as long as the NIF is loaded: its     *)
(* grammar is in the table as given and resolved, and its statements have  *)
(* their rules in those they are used in, whatever other plugins install   *)
(* and however they fail (install_grammar, yang_add_rule_to_spec).         *)
THEOREM OkStaysInstalled == Spec => []OkMeansInstalled
<1> DEFINE J == IInv /\ OkInv
<1>1. Init => J
  BY InitHolds, OkInit
<1>2. J /\ [Next]_vars => J'
  <2> SUFFICES ASSUME J, [Next]_vars PROVE J'
    OBVIOUS
  <2>1. IInv'
    BY StepHolds
  <2>2. OkInv'
    BY <2>1, OkStep
  <2> QED  BY <2>1, <2>2
<1>3. J => OkMeansInstalled
  BY OkInstalled DEF IInv
<1> HIDE DEF J
<1> QED  BY <1>1, <1>2, <1>3, PTL DEF Spec

-----------------------------------------------------------------------------
(* How arguments are checked.  The operators of the property with the      *)
(* scenario as a parameter.                                                *)
TypesIn(sc, c) ==
  IF c = 0 THEN sc.types
  ELSE IF sc.calls[c].op = "types" THEN sc.calls[c].types ELSE <<>>
GivenIn(sc, i) == UNION {{<<c, j>> : j \in DOMAIN TypesIn(sc, c)} : c \in 0 .. i-1}
DefIn(sc, d) == TypesIn(sc, d[1])[d[2]]
FirstIn(sc, i, name) ==
  {d \in GivenIn(sc, i) :
     /\ DefIn(sc, d).name = name
     /\ \A e \in GivenIn(sc, i) : Precedes(e, d) => DefIn(sc, e).name # name}
Intact(sc, i, d) ==
  \A e \in GivenIn(sc, i) : Precedes(e, d) => DefIn(sc, e).regexp # "bad"

CheckOfType(t) ==
  IF t.regexp = "good" THEN "cb" ELSE IF t.regexp = "none" THEN "any" ELSE "raw"

(* What the property says of the check that a type called name has got.    *)
CheckedSo(sc, i, name, check) ==
  /\ \A d \in FirstIn(sc, i, name) :
       Intact(sc, i, d) => check = CheckOfType(DefIn(sc, d))
  /\ FirstIn(sc, i, name) = {} => \E e \in GivenIn(sc, i) : DefIn(sc, e).regexp = "bad"

(* The first slot with a name.                                             *)
FirstSlot(tys, name) ==
  {i \in DOMAIN tys : tys[i].name = name /\ \A j \in 1 .. i-1 : tys[j].name # name}

(* The table after call i-1: it holds every name that was given before the *)
(* first failure, with the check of its first type.                        *)
SlotsRight(sc, tys, i) ==
  \A name \in TypeName :
    /\ \A d \in FirstIn(sc, i, name) : Intact(sc, i, d) => FirstSlot(tys, name) # {}
    /\ \A k \in FirstSlot(tys, name) : CheckedSo(sc, i, name, tys[k].check)

ArgsRight(sc, tab, tys, i) ==
  \E g \in GrammarOf(tab, sc.calls[i].module) :
    /\ DOMAIN sc.calls[i].specs = DOMAIN tab[g].specs
    /\ \A s \in DOMAIN sc.calls[i].specs :
         sc.calls[i].specs[s].arg # NoType =>
           /\ tab[g].specs[s].arg \in DOMAIN tys
           /\ CheckedSo(sc, i, sc.calls[i].specs[s].arg, tys[tab[g].specs[s].arg].check)

ArgInv ==
  /\ pc = "load" => results = <<>>
  /\ types # <<>> => SlotsRight(scn, types, Len(results) + 1)
  /\ \A i \in Served : ArgsRight(scn, grammar, types, i)
  /\ pc \in {"call", "usein"} => types # <<>>
  /\ pc = "usein" => ArgsRight(scn, grammar, types, Len(results) + 1)

LEMMA GivenThere ==
  ASSUME NEW sc, NEW i, NEW a
  PROVE  a \in GivenIn(sc, i) <=>
           \E c \in 0 .. i-1 : \E j \in DOMAIN TypesIn(sc, c) : a = <<c, j>>
BY DEF GivenIn

LEMMA TypesTyped ==
  ASSUME NEW sc \in Scenario, NEW c \in Nat, c <= Len(sc.calls)
  PROVE  TypesIn(sc, c) \in Seq(NewType)
<1>1. sc.calls \in Seq(Call) /\ sc.types \in Seq(NewType)
  BY ScenarioAssumption DEF ScenarioType
<1>2. CASE c = 0
  BY <1>1, <1>2 DEF TypesIn
<1>3. CASE c # 0 /\ sc.calls[c].op # "types"
  <2>1. TypesIn(sc, c) = <<>>
    BY <1>3 DEF TypesIn
  <2> QED  BY <2>1
<1>4. CASE c # 0 /\ sc.calls[c].op = "types"
  <2>1. sc.calls[c] \in Call
    BY <1>1, <1>4
  <2>2. sc.calls[c].types \in Seq(NewType)
    BY <1>4, <2>1 DEF Call
  <2> QED  BY <1>4, <2>2 DEF TypesIn
<1> QED  BY <1>2, <1>3, <1>4

LEMMA GivenTyped ==
  ASSUME NEW sc \in Scenario, NEW i \in Nat, i <= Len(sc.calls) + 1
  PROVE  GivenIn(sc, i) \subseteq Nat \X Nat
<1> SUFFICES ASSUME NEW a \in GivenIn(sc, i)
             PROVE  a \in Nat \X Nat
  OBVIOUS
<1>1. PICK c \in 0 .. i-1 : \E j \in DOMAIN TypesIn(sc, c) : a = <<c, j>>
  BY GivenThere
<1>2. PICK j \in DOMAIN TypesIn(sc, c) : a = <<c, j>>
  BY <1>1
<1>3. Len(sc.calls) \in Nat
  BY ScenarioAssumption DEF ScenarioType
<1>4. c \in Nat /\ c <= Len(sc.calls)
  BY <1>3
<1>5. TypesIn(sc, c) \in Seq(NewType)
  BY <1>4, TypesTyped
<1>6. j \in Nat
  BY <1>5
<1> QED  BY <1>2, <1>4, <1>6

LEMMA SlotChecks ==
  ASSUME NEW t \in NewType
  PROVE  NewSlot(t).check = CheckOfType(t)
<1>1. t.regexp \in {"none", "good", "bad"}
  BY DEF NewType
<1>2. CASE t.regexp = "none"
  BY <1>2 DEF NewSlot, CheckOfType
<1>3. CASE t.regexp = "good"
  BY <1>3 DEF NewSlot, CheckOfType
<1>4. CASE t.regexp = "bad"
  BY <1>4 DEF NewSlot, CheckOfType
<1> QED  BY <1>1, <1>2, <1>3, <1>4

(* A name that is given is given first somewhere.                          *)
LEMMA FirstExists ==
  ASSUME NEW sc \in Scenario, NEW i \in Nat, i <= Len(sc.calls) + 1, NEW name,
         NEW a \in GivenIn(sc, i), DefIn(sc, a).name = name
  PROVE  FirstIn(sc, i, name) # {}
<1> DEFINE S == {d \in GivenIn(sc, i) : DefIn(sc, d).name = name}
<1>1. S \in SUBSET (Nat \X Nat) /\ a \in S
  BY GivenTyped
<1>2. PICK d \in S : \A b \in S : d[1] < b[1] \/ (d[1] = b[1] /\ d[2] <= b[2])
  <2> HIDE DEF S
  <2> QED  BY <1>1, LeastPair
<1>3. ASSUME NEW e \in GivenIn(sc, i), Precedes(e, d), DefIn(sc, e).name = name
      PROVE  FALSE
  <2>1. e \in S
    BY <1>3
  <2>2. e \in Nat \X Nat /\ d \in Nat \X Nat
    BY <1>1, <2>1
  <2>3. d[1] < e[1] \/ (d[1] = e[1] /\ d[2] <= e[2])
    BY <1>2, <2>1
  <2>4. e[1] < d[1] \/ (e[1] = d[1] /\ e[2] < d[2])
    BY <1>3 DEF Precedes
  <2> HIDE DEF S
  <2> QED  BY <2>2, <2>3, <2>4
<1>4. d \in FirstIn(sc, i, name)
  BY <1>2, <1>3 DEF FirstIn
<1> QED  BY <1>4

(* A call that installs no types gives none.                               *)
LEMMA GivenNothing ==
  ASSUME NEW sc, NEW n \in Nat, sc.calls[n + 1].op # "types"
  PROVE  GivenIn(sc, n + 2) = GivenIn(sc, n + 1)
<1>1. \A c : c \in 0 .. (n + 2) - 1 <=> c \in 0 .. (n + 1) - 1 \/ c = n + 1
  OBVIOUS
<1>2. DOMAIN TypesIn(sc, n + 1) = {}
  BY DEF TypesIn
<1>3. ASSUME NEW a
      PROVE  a \in GivenIn(sc, n + 2) <=> a \in GivenIn(sc, n + 1)
  BY <1>1, <1>2, GivenThere
<1> QED  BY <1>3

LEMMA SlotsSame ==
  ASSUME NEW sc, NEW n \in Nat, sc.calls[n + 1].op # "types", NEW tys, SlotsRight(sc, tys, n + 1)
  PROVE  SlotsRight(sc, tys, n + 2)
<1>1. GivenIn(sc, n + 2) = GivenIn(sc, n + 1)
  BY GivenNothing
<1>2. \A name : FirstIn(sc, n + 2, name) = FirstIn(sc, n + 1, name)
  BY <1>1 DEF FirstIn
<1>3. \A d : Intact(sc, n + 2, d) <=> Intact(sc, n + 1, d)
  BY <1>1 DEF Intact
<1>4. \A name, check : CheckedSo(sc, n + 2, name, check) <=> CheckedSo(sc, n + 1, name, check)
  BY <1>1, <1>2, <1>3 DEF CheckedSo
<1> QED  BY <1>2, <1>3, <1>4 DEF SlotsRight

LEMMA SlotFound ==
  ASSUME NEW tys \in Seq(Slot), NEW name
  PROVE  /\ FirstSlot(tys, name) # {} <=> \E i \in DOMAIN tys : tys[i].name = name
         /\ \A i, j \in FirstSlot(tys, name) : i = j
<1> DEFINE N == {i \in DOMAIN tys : tys[i].name = name}
<1>1. N \in SUBSET Nat /\ \A i \in N : i # 0
  OBVIOUS
<1>2. ASSUME N # {}
      PROVE  FirstSlot(tys, name) # {}
  <2>1. PICK n \in N : \A m \in N : n <= m
    <3> HIDE DEF N
    <3> QED  BY <1>1, <1>2, LeastNumber
  <2>2. \A j \in 1 .. n-1 : j \in DOMAIN tys /\ ~(n <= j)
    BY <1>1, <2>1
  <2>3. \A j \in 1 .. n-1 : tys[j].name # name
    BY <2>1, <2>2
  <2> QED  BY <2>1, <2>3 DEF FirstSlot
<1>3. ASSUME NEW i \in FirstSlot(tys, name), NEW j \in FirstSlot(tys, name)
      PROVE  i = j
  <2>1. i \in Nat /\ j \in Nat /\ i # 0 /\ j # 0
    BY DEF FirstSlot
  <2>2. ~(i < j) /\ ~(j < i)
    BY <2>1 DEF FirstSlot
  <2> QED  BY <2>1, <2>2
<1> QED  BY <1>2, <1>3 DEF FirstSlot

(* The slots of types that are installed by call i, in a table that was    *)
(* right before: up to the first type that fails they are as given.        *)
LEMMA SlotsAdded ==
  ASSUME NEW sc \in Scenario, NEW i \in Nat, i <= Len(sc.calls),
         NEW tys \in Seq(Slot), SlotsRight(sc, tys, i),
         NEW new \in Seq(Slot), DOMAIN new = DOMAIN TypesIn(sc, i),
         \A j \in DOMAIN new :
           (\A l \in DOMAIN new : l < j => TypesIn(sc, i)[l].regexp # "bad") =>
             new[j] = NewSlot(TypesIn(sc, i)[j])
  PROVE  SlotsRight(sc, tys \o new, i + 1)
<1> DEFINE given == TypesIn(sc, i)
           both == tys \o new
<1>1. i + 1 \in Nat /\ i + 1 <= Len(sc.calls) + 1
  <2>1. Len(sc.calls) \in Nat
    BY ScenarioAssumption DEF ScenarioType
  <2> QED  BY <2>1
<1>2. /\ both \in Seq(Slot)
      /\ \A k \in DOMAIN tys : k \in DOMAIN both /\ both[k] = tys[k]
      /\ \A j \in DOMAIN new : Len(tys) + j \in DOMAIN both /\ both[Len(tys) + j] = new[j]
      /\ \A k \in DOMAIN both : k \in DOMAIN tys \/ (k - Len(tys) \in DOMAIN new /\ k > Len(tys))
  OBVIOUS
<1>3. /\ Len(tys) \in Nat /\ DOMAIN tys = 1 .. Len(tys)
      /\ \A j \in DOMAIN new : j \in Nat /\ j # 0
      /\ \A k \in DOMAIN both : k \in Nat
  BY <1>2
<1>4. \A a : a \in GivenIn(sc, i + 1) <=>
               a \in GivenIn(sc, i) \/ \E j \in DOMAIN new : a = <<i, j>>
  <2>1. \A c : c \in 0 .. (i + 1) - 1 <=> c \in 0 .. i - 1 \/ c = i
    OBVIOUS
  <2> QED  BY <2>1, GivenThere
<1>5. \A a \in GivenIn(sc, i) : a[1] \in Nat /\ a[1] < i
  <2> TAKE a \in GivenIn(sc, i)
  <2>1. PICK c \in 0 .. i-1 : \E j \in DOMAIN TypesIn(sc, c) : a = <<c, j>>
    BY GivenThere
  <2> QED  BY <2>1
<1>6. \A j \in DOMAIN new : DefIn(sc, <<i, j>>) = given[j]
  BY DEF DefIn
<1>7. \A j \in DOMAIN new : \A a \in GivenIn(sc, i) : Precedes(a, <<i, j>>)
  BY <1>5 DEF Precedes
<1>8. \A j, l \in DOMAIN new : l < j => Precedes(<<i, l>>, <<i, j>>)
  BY DEF Precedes
<1>9. \A j \in DOMAIN new : \A a \in GivenIn(sc, i) : ~Precedes(<<i, j>>, a)
  BY <1>5 DEF Precedes
<1>10. \A j \in DOMAIN new :
         (\A l \in DOMAIN new : l < j => given[l].regexp # "bad") =>
           new[j] = NewSlot(given[j]) /\ new[j].name = given[j].name
  <2> SUFFICES ASSUME NEW j \in DOMAIN new,
                      \A l \in DOMAIN new : l < j => given[l].regexp # "bad"
               PROVE  new[j] = NewSlot(given[j]) /\ new[j].name = given[j].name
    OBVIOUS
  <2>1. new[j] = NewSlot(given[j])
    OBVIOUS
  <2> HIDE DEF given
  <2> QED  BY <2>1 DEF NewSlot
<1> HIDE DEF given, both
<1>11. \A name, d : d \in FirstIn(sc, i, name) => d \in FirstIn(sc, i + 1, name)
  <2> SUFFICES ASSUME NEW name, NEW d \in FirstIn(sc, i, name)
               PROVE  d \in FirstIn(sc, i + 1, name)
    OBVIOUS
  <2>1. /\ d \in GivenIn(sc, i) /\ DefIn(sc, d).name = name
        /\ \A e \in GivenIn(sc, i) : Precedes(e, d) => DefIn(sc, e).name # name
    BY DEF FirstIn
  <2>2. \A e \in GivenIn(sc, i + 1) : Precedes(e, d) => e \in GivenIn(sc, i)
    BY <1>4, <1>9, <2>1
  <2>3. d \in GivenIn(sc, i + 1)
    BY <1>4, <2>1
  <2> QED  BY <2>1, <2>2, <2>3 DEF FirstIn
<1>12. \A name, d : d \in FirstIn(sc, i + 1, name) /\ d \in GivenIn(sc, i) => d \in FirstIn(sc, i, name)
  BY <1>4 DEF FirstIn
<1>13. \A d : Intact(sc, i + 1, d) => Intact(sc, i, d)
  BY <1>4 DEF Intact
(* A slot that was the first with its name stays the first.                *)
<1>14. ASSUME NEW name, FirstSlot(tys, name) # {}
       PROVE  /\ FirstSlot(both, name) # {}
              /\ \A k \in FirstSlot(both, name) : k \in FirstSlot(tys, name) /\ both[k] = tys[k]
  <2>1. PICK k : k \in FirstSlot(tys, name)
    BY <1>14
  <2>2. k \in DOMAIN tys /\ tys[k].name = name /\ \A j \in 1 .. k-1 : j \in DOMAIN tys /\ tys[j].name # name
    BY <2>1 DEF FirstSlot
  <2>3. k \in FirstSlot(both, name)
    BY <1>2, <2>2 DEF FirstSlot
  <2>4. \A m \in FirstSlot(both, name) : m = k
    BY <1>2, <2>3, SlotFound
  <2> QED  BY <1>2, <2>1, <2>2, <2>3, <2>4
(* Otherwise it is one of those that were added.                           *)
<1>15. ASSUME NEW name, FirstSlot(tys, name) = {}, NEW k \in FirstSlot(both, name)
       PROVE  \E j \in DOMAIN new : /\ k = Len(tys) + j /\ both[k] = new[j] /\ new[j].name = name
                                    /\ \A l \in DOMAIN new : l < j => new[l].name # name
  <2>1. \A m \in DOMAIN tys : tys[m].name # name
    BY <1>15, SlotFound
  <2>2. /\ k \in DOMAIN both /\ both[k].name = name
        /\ \A m \in 1 .. k-1 : both[m].name # name
    BY DEF FirstSlot
  <2>3. k \notin DOMAIN tys
    BY <1>2, <2>1, <2>2
  <2>4. PICK j \in DOMAIN new : j = k - Len(tys) /\ k > Len(tys)
    BY <1>2, <2>2, <2>3
  <2>5. k \in Nat /\ j \in Nat /\ k = Len(tys) + j
    BY <1>3, <2>2, <2>4
  <2>6. both[k] = new[j]
    BY <1>2, <2>5
  <2>7. ASSUME NEW l \in DOMAIN new, l < j
        PROVE  new[l].name # name
    <3>1. Len(tys) + l \in 1 .. k-1
      BY <1>3, <2>5, <2>7
    <3> QED  BY <1>2, <2>2, <3>1
  <2> QED  BY <2>2, <2>5, <2>6, <2>7
(* A name that is given first by this call, after nothing that failed.     *)
<1>16. ASSUME NEW name \in TypeName, NEW d \in FirstIn(sc, i + 1, name), Intact(sc, i + 1, d),
              d \notin GivenIn(sc, i)
       PROVE  /\ FirstSlot(tys, name) = {}
              /\ FirstSlot(both, name) # {}
              /\ \A k \in FirstSlot(both, name) : both[k].check = CheckOfType(DefIn(sc, d))
  <2>1. /\ d \in GivenIn(sc, i + 1) /\ DefIn(sc, d).name = name
        /\ \A e \in GivenIn(sc, i + 1) : Precedes(e, d) => DefIn(sc, e).name # name
    BY <1>16 DEF FirstIn
  <2>2. PICK j \in DOMAIN new : d = <<i, j>>
    BY <1>4, <1>16, <2>1
  <2>3. \A e \in GivenIn(sc, i) : DefIn(sc, e).name # name /\ DefIn(sc, e).regexp # "bad"
    BY <1>4, <1>7, <1>16, <2>1, <2>2 DEF Intact
  <2>4. FirstSlot(tys, name) = {}
    <3>1. FirstIn(sc, i, name) = {}
      BY <2>3 DEF FirstIn
    <3> QED  BY <2>3, <3>1 DEF SlotsRight, CheckedSo
  <2>5. \A l \in DOMAIN new : l < j => given[l].name # name /\ given[l].regexp # "bad"
    <3> SUFFICES ASSUME NEW l \in DOMAIN new, l < j
                 PROVE  given[l].name # name /\ given[l].regexp # "bad"
      OBVIOUS
    <3>1. Precedes(<<i, l>>, d) /\ <<i, l>> \in GivenIn(sc, i + 1)
      BY <1>4, <1>8, <2>2
    <3>2. DefIn(sc, <<i, l>>).name # name /\ DefIn(sc, <<i, l>>).regexp # "bad"
      BY <1>16, <2>1, <3>1 DEF Intact
    <3> QED  BY <1>6, <3>2
  <2>6. new[j].check = CheckOfType(given[j]) /\ new[j].name = given[j].name
    <3>1. given \in Seq(NewType) /\ DOMAIN given = DOMAIN new
      BY TypesTyped DEF given
    <3>2. given[j] \in NewType
      BY <3>1
    <3> QED  BY <1>10, <2>5, <3>2, SlotChecks
  <2>7. given[j] = DefIn(sc, d)
    BY <1>6, <2>2
  <2>8. \A l \in DOMAIN new : l < j => new[l].name # name
    <3> SUFFICES ASSUME NEW l \in DOMAIN new, l < j
                 PROVE  new[l].name # name
      OBVIOUS
    <3>1. \A m \in DOMAIN new : m < l => m < j
      BY <1>3
    <3>2. new[l].name = given[l].name
      BY <1>10, <2>5, <3>1
    <3> QED  BY <2>5, <3>2
  <2>9. FirstSlot(both, name) # {}
    <3>1. Len(tys) + j \in DOMAIN both /\ both[Len(tys) + j].name = name
      BY <1>2, <2>1, <2>6, <2>7
    <3> QED  BY <1>2, <3>1, SlotFound
  <2>10. ASSUME NEW k \in FirstSlot(both, name)
         PROVE  both[k].check = CheckOfType(DefIn(sc, d))
    <3>1. PICK m \in DOMAIN new : /\ both[k] = new[m] /\ new[m].name = name
                                  /\ \A l \in DOMAIN new : l < m => new[l].name # name
      BY <1>15, <2>4
    <3>2. new[j].name = name
      BY <2>1, <2>6, <2>7
    <3>3. ~(j < m) /\ ~(m < j)
      BY <2>8, <3>1, <3>2
    <3>4. j = m
      BY <1>3, <3>3
    <3> QED  BY <2>6, <2>7, <3>1, <3>4
  <2> QED  BY <2>4, <2>9, <2>10
<1>17. ASSUME NEW name \in TypeName, NEW d \in FirstIn(sc, i + 1, name), Intact(sc, i + 1, d)
       PROVE  /\ FirstSlot(both, name) # {}
              /\ \A k \in FirstSlot(both, name) : both[k].check = CheckOfType(DefIn(sc, d))
  <2>1. CASE d \in GivenIn(sc, i)
    <3>1. d \in FirstIn(sc, i, name) /\ Intact(sc, i, d)
      BY <1>12, <1>13, <1>17, <2>1
    <3>2. FirstSlot(tys, name) # {}
      BY <3>1 DEF SlotsRight
    <3>3. \A k \in FirstSlot(tys, name) : tys[k].check = CheckOfType(DefIn(sc, d))
      BY <3>1 DEF SlotsRight, CheckedSo
    <3> QED  BY <1>14, <3>2, <3>3
  <2>2. CASE d \notin GivenIn(sc, i)
    BY <1>16, <1>17, <2>2
  <2> QED  BY <2>1, <2>2
<1>18. ASSUME NEW name \in TypeName, NEW k \in FirstSlot(both, name), FirstIn(sc, i + 1, name) = {}
       PROVE  \E e \in GivenIn(sc, i + 1) : DefIn(sc, e).regexp = "bad"
  <2>1. CASE FirstSlot(tys, name) # {}
    <3>1. FirstIn(sc, i, name) = {}
      BY <1>11, <1>18
    <3>2. PICK e \in GivenIn(sc, i) : DefIn(sc, e).regexp = "bad"
      BY <2>1, <3>1 DEF SlotsRight, CheckedSo
    <3> QED  BY <1>4, <3>2
  <2>2. CASE FirstSlot(tys, name) = {}
    <3>1. PICK j \in DOMAIN new : new[j].name = name
      BY <1>15, <2>2
    <3>2. <<i, j>> \in GivenIn(sc, i + 1) /\ DefIn(sc, <<i, j>>) = given[j]
      BY <1>4, <1>6
    <3>3. given[j].name # name
      <4>1. PICK a : a = <<i, j>>
        OBVIOUS
      <4>2. a \in GivenIn(sc, i + 1) /\ DefIn(sc, a) = given[j]
        BY <3>2, <4>1
      <4> QED  BY <1>1, <1>18, <4>2, FirstExists
    <3>4. PICK l \in DOMAIN new : given[l].regexp = "bad"
      BY <1>10, <3>1, <3>3
    <3>5. <<i, l>> \in GivenIn(sc, i + 1) /\ DefIn(sc, <<i, l>>) = given[l]
      BY <1>4, <1>6
    <3> QED  BY <3>4, <3>5
  <2> QED  BY <2>1, <2>2
<1>19. SlotsRight(sc, both, i + 1)
  BY <1>17, <1>18 DEF SlotsRight, CheckedSo
<1> QED  BY <1>19 DEF both

(* What is checked as it should be stays so.                               *)
LEMMA ArgsStay ==
  ASSUME NEW sc, NEW tab \in Seq(Grammar), NEW new, Kept(tab, new), NEW tys, NEW tysn,
         \A k \in DOMAIN tys : k \in DOMAIN tysn /\ tysn[k] = tys[k],
         NEW i, ArgsRight(sc, tab, tys, i)
  PROVE  ArgsRight(sc, new, tysn, i)
<1>1. PICK g \in GrammarOf(tab, sc.calls[i].module) :
        /\ DOMAIN sc.calls[i].specs = DOMAIN tab[g].specs
        /\ \A s \in DOMAIN sc.calls[i].specs :
             sc.calls[i].specs[s].arg # NoType =>
               /\ tab[g].specs[s].arg \in DOMAIN tys
               /\ CheckedSo(sc, i, sc.calls[i].specs[s].arg, tys[tab[g].specs[s].arg].check)
  BY DEF ArgsRight
<1>2. /\ g \in DOMAIN tab /\ tab[g].module = sc.calls[i].module
      /\ \A h \in 1 .. g-1 : h \in DOMAIN tab /\ tab[h].module # sc.calls[i].module
  BY DEF GrammarOf
<1>3. g \in GrammarOf(new, sc.calls[i].module)
  BY <1>2 DEF GrammarOf, Kept, Grown
<1>4. /\ DOMAIN new[g].specs = DOMAIN tab[g].specs
      /\ \A s \in DOMAIN tab[g].specs : new[g].specs[s].arg = tab[g].specs[s].arg
  BY <1>2 DEF Kept, Grown
<1>5. ASSUME NEW s \in DOMAIN sc.calls[i].specs, sc.calls[i].specs[s].arg # NoType
      PROVE  /\ new[g].specs[s].arg \in DOMAIN tysn
             /\ CheckedSo(sc, i, sc.calls[i].specs[s].arg, tysn[new[g].specs[s].arg].check)
  <2>1. new[g].specs[s].arg = tab[g].specs[s].arg
    BY <1>1, <1>4
  <2>2. /\ tab[g].specs[s].arg \in DOMAIN tys
        /\ CheckedSo(sc, i, sc.calls[i].specs[s].arg, tys[tab[g].specs[s].arg].check)
    BY <1>1, <1>5
  <2> QED  BY <2>1, <2>2
<1> QED  BY <1>1, <1>3, <1>4, <1>5 DEF ArgsRight

LEMMA ResultsGrow ==
  ASSUME TypeOK, NEW r, Return(r)
  PROVE  /\ Len(results) \in Nat
         /\ Len(results') = Len(results) + 1
         /\ DOMAIN results = 1 .. Len(results)
         /\ results'[Len(results) + 1] = r
         /\ \A i \in 1 .. Len(results) : results'[i] = results[i]
BY DEF TypeOK, Return

LEMMA ArgInit == Init => ArgInv
<1>1. Init => Served = {}
  BY DEF Init, Served
<1> QED  BY <1>1 DEF Init, ArgInv

(* The calls that were served before.                                      *)
LEMMA ArgServed ==
  ASSUME IInv, ArgInv, [Next]_vars, scn' = scn,
         \A k \in DOMAIN types : k \in DOMAIN types' /\ types'[k] = types[k],
         NEW i \in Served
  PROVE  ArgsRight(scn', grammar', types', i)
<1>1. ArgsRight(scn, grammar, types, i)
  BY DEF ArgInv
<1>2. Kept(grammar, grammar')
  BY GrammarKept
<1> QED  BY <1>1, <1>2, ArgsStay DEF IInv, TypeOK

(* A call that returns something else than the `ok' of install_grammar.    *)
LEMMA ArgReturned ==
  ASSUME IInv, ArgInv, [Next]_vars, scn' = scn, NEW r, Return(r),
         Current.op = "grammar" => r # "ok",
         \A k \in DOMAIN types : k \in DOMAIN types' /\ types'[k] = types[k],
         types' # <<>>, pc' = "call", pc # "load",
         SlotsRight(scn, types', Len(results) + 2)
  PROVE  ArgInv'
<1>1. Served' = Served
  BY ServedSteps DEF IInv
<1>2. \A i \in Served' : ArgsRight(scn', grammar', types', i)
  BY <1>1, ArgServed
<1>3. Len(results') + 1 = Len(results) + 2
  BY ResultsGrow DEF IInv
<1>4. SlotsRight(scn', types', Len(results') + 1)
  BY <1>3
<1> QED  BY <1>2, <1>4 DEF ArgInv

(* A step within a call, or none.                                          *)
LEMMA ArgStays ==
  ASSUME IInv, ArgInv, [Next]_vars, UNCHANGED <<scn, types, results>>,
         pc' = "load" => pc = "load",
         pc' \in {"call", "usein"} => types # <<>>,
         pc' = "usein" => ArgsRight(scn, grammar', types, Len(results) + 1)
  PROVE  ArgInv'
<1>1. Served' = Served
  BY DEF Served
<1>2. \A i \in Served' : ArgsRight(scn', grammar', types', i)
  BY <1>1, ArgServed
<1> QED  BY <1>2 DEF ArgInv

LEMMA ArgStep ==
  ASSUME IInv, [Next]_vars, ArgInv
  PROVE  ArgInv'
<1> DEFINE n == Len(results)
<1>0. n \in Nat
  BY DEF IInv, TypeOK
<1>1. CASE LoadTypes
  <2>1. /\ pc = "load" /\ pc' = "load" /\ UNCHANGED <<scn, grammar, results>>
        /\ types = <<>> /\ results = <<>>
    BY <1>1 DEF LoadTypes, ArgInv
  <2>2. Served' = {}
    BY <2>1 DEF Served
  <2>3. SlotsRight(scn, types', 1)
    <3>1. GivenIn(scn, 0) = {}
      <4>1. \A c : c \notin 0 .. 0-1
        OBVIOUS
      <4> QED  BY <4>1, GivenThere
    <3>2. SlotsRight(scn, <<>>, 0)
      BY <3>1 DEF SlotsRight, FirstIn, FirstSlot
    <3>3. types' \in Seq(Slot)
      <4>1. TypeOK'
        BY StepHolds DEF IInv
      <4> QED  BY <4>1 DEF TypeOK
    <3>4. /\ DOMAIN types' = DOMAIN TypesIn(scn, 0)
          /\ \A k \in DOMAIN types' : types'[k] = NewSlot(TypesIn(scn, 0)[k])
      BY <1>1 DEF LoadTypes, TypesIn
    <3>5. scn \in Scenario /\ 0 <= Len(scn.calls)
      BY ScenarioAssumption DEF IInv, ScenarioType
    <3>6. SlotsRight(scn, <<>> \o types', 0 + 1)
      <4>1. PICK tys : tys = types'
        OBVIOUS
      <4>2. SlotsRight(scn, <<>> \o tys, 0 + 1)
        <5>1. 0 \in Nat /\ <<>> \in Seq(Slot)
          OBVIOUS
        <5>2. /\ tys \in Seq(Slot) /\ DOMAIN tys = DOMAIN TypesIn(scn, 0)
              /\ \A j \in DOMAIN tys :
                   (\A l \in DOMAIN tys : l < j => TypesIn(scn, 0)[l].regexp # "bad") =>
                     tys[j] = NewSlot(TypesIn(scn, 0)[j])
          BY <3>3, <3>4, <4>1
        <5> QED  BY <3>2, <3>5, <5>1, <5>2, SlotsAdded
      <4> QED  BY <4>1, <4>2
    <3>7. <<>> \o types' = types'
      BY <3>3
    <3> QED  BY <3>6, <3>7
  <2>4. SlotsRight(scn', types', Len(results') + 1)
    BY <2>1, <2>3
  <2> QED  BY <2>1, <2>2, <2>4 DEF ArgInv
<1>2. CASE LoadGrammar
  <2>1. /\ pc = "load" /\ types # <<>> /\ pc' \in {"call", "unloaded"}
        /\ UNCHANGED <<scn, types, results>>
    BY <1>2 DEF LoadGrammar
  <2> QED  BY <2>1, ArgStays
<1>3. CASE InstallArgTypes
  <2> DEFINE new == Current.types
  <2>1. /\ pc = "call" /\ pc' = "call" /\ n < Len(scn.calls) /\ Current.op = "types"
        /\ UNCHANGED <<scn, grammar>> /\ types # <<>>
    BY <1>3 DEF InstallArgTypes, ArgInv
  <2>2. new \in Seq(NewType)
    BY <2>1, CallTyped DEF IInv
  <2> DEFINE bad == {i \in DOMAIN new : new[i].regexp = "bad"}
  <2>3. PICK slots : /\ DOMAIN slots = DOMAIN new /\ types' = types \o slots
                     /\ \A i \in DOMAIN new :
                          (\A j \in bad : i <= j) => slots[i] = NewSlot(new[i])
                     /\ slots \in Seq(Slot)
    <3>1. PICK memory \in [{i \in DOMAIN new : ~ \A j \in bad : i <= j} -> Stale] :
            types' = types \o [i \in DOMAIN new |->
                       IF \A j \in bad : i <= j THEN NewSlot(new[i]) ELSE memory[i]]
      BY <1>3 DEF InstallArgTypes
    <3> DEFINE slots == [i \in DOMAIN new |->
                          IF \A j \in bad : i <= j THEN NewSlot(new[i]) ELSE memory[i]]
    <3>2. PICK k \in Nat : DOMAIN new = 1 .. k
      BY <2>2
    <3>3. \A i \in 1 .. k : slots[i] \in Slot
      <4> TAKE i \in 1 .. k
      <4>1. NewSlot(new[i]) \in Slot
        BY <2>2, <3>2, NewSlotTyped
      <4>2. CASE \A j \in bad : i <= j
        BY <3>2, <4>1, <4>2
      <4>3. CASE ~ \A j \in bad : i <= j
        BY <3>1, <3>2, <4>3 DEF Stale
      <4> QED  BY <4>2, <4>3
    <3>4. slots = [i \in 1 .. k |-> slots[i]]
      BY <3>2
    <3>5. slots \in Seq(Slot)
      <4> HIDE DEF slots
      <4> QED  BY <3>3, <3>4
    <3>6. \A i \in DOMAIN new : (\A j \in bad : i <= j) => slots[i] = NewSlot(new[i])
      <4> HIDE DEF bad
      <4> QED  OBVIOUS
    <3>7. DOMAIN slots = DOMAIN new /\ types' = types \o slots
      BY <3>1
    <3> HIDE DEF slots, bad, new
    <3> QED  BY <3>5, <3>6, <3>7
  <2>4. types \in Seq(Slot) /\ scn \in Scenario
    BY DEF IInv, TypeOK
  <2>5. \A k \in DOMAIN types : k \in DOMAIN types' /\ types'[k] = types[k]
    <3> HIDE DEF bad, new
    <3> QED  BY <2>3, <2>4
  <2>6. types' # <<>>
    <3> HIDE DEF bad, new
    <3> QED  BY <2>1, <2>3, <2>4
  <2>7. Return(IF bad = {} THEN "ok" ELSE "error")
    BY <1>3 DEF InstallArgTypes
  <2> HIDE DEF bad
  <2>8. SlotsRight(scn, types', n + 2)
    <3>1. SlotsRight(scn, types, n + 1)
      BY <2>1 DEF ArgInv
    <3>2. new = TypesIn(scn, n + 1)
      BY <1>0, <2>1 DEF Current, TypesIn
    <3>3. ASSUME NEW j \in DOMAIN slots,
                 \A l \in DOMAIN slots : l < j => TypesIn(scn, n + 1)[l].regexp # "bad"
          PROVE  slots[j] = NewSlot(TypesIn(scn, n + 1)[j])
      <4>1. \A l \in DOMAIN slots : l \in Nat
        BY <2>3
      <4>2. \A l \in bad : j <= l
        BY <2>3, <3>2, <3>3, <4>1 DEF bad
      <4> QED  BY <2>3, <3>2, <4>2
    <3>4. n + 1 \in Nat /\ n + 1 <= Len(scn.calls)
      <4>1. Len(scn.calls) \in Nat
        BY <2>4, ScenarioAssumption DEF ScenarioType
      <4> QED  BY <1>0, <2>1, <4>1
    <3>5. (n + 1) + 1 = n + 2
      BY <1>0
    <3> HIDE DEF n, new
    <3>6. SlotsRight(scn, types \o slots, (n + 1) + 1)
      BY <2>3, <2>4, <3>1, <3>2, <3>3, <3>4, SlotsAdded
    <3> QED  BY <2>3, <3>5, <3>6
  <2> QED  BY <2>1, <2>5, <2>6, <2>7, <2>8, ArgReturned
<1>4. CASE UnknownType \/ InstalledAlready \/ UseInFails \/ (InstallGrammar /\ ~fixed')
  <2>1. /\ UNCHANGED <<scn, types>> /\ pc' = "call" /\ pc \in {"call", "usein"}
        /\ Current.op = "grammar" /\ types # <<>>
    BY <1>4 DEF UnknownType, InstalledAlready, UseInFails, InstallGrammar, IsGrammarCall,
                Adding, IInv, ArgInv
  <2>2. PICK r \in {"badarg", "error"} : Return(r)
    BY <1>4 DEF UnknownType, InstalledAlready, UseInFails, InstallGrammar
  <2>3. SlotsRight(scn, types', n + 2)
    <3>1. SlotsRight(scn, types, n + 1)
      BY <2>1 DEF ArgInv
    <3>2. scn.calls[n + 1].op # "types"
      BY <2>1 DEF Current
    <3> QED  BY <1>0, <2>1, <3>1, <3>2, SlotsSame
  <2> QED  BY <2>1, <2>2, <2>3, ArgReturned
<1>5. CASE InstallGrammar /\ fixed'
  <2>1. /\ IsGrammarCall /\ pc' = "usein" /\ UNCHANGED <<scn, types, results>>
        /\ TypesKnown(Current.specs) /\ AddGrammar(Current.module, Current.specs, FALSE)
        /\ GrammarOf(grammar, Current.module) = {}
    BY <1>5 DEF InstallGrammar
  <2>2. Current.module \in AnyModule /\ Current.specs \in Seq(NewSpec) /\ types # <<>>
    BY <2>1, CallTyped DEF IInv, IsGrammarCall, AnyModule, ArgInv
  <2>3. ArgsRight(scn, grammar', types, n + 1)
    <3>1. SlotsRight(scn, types, n + 1)
      BY <2>2 DEF ArgInv
    <3>2. PICK gr : gr = [module |-> Current.module, specs |-> NewSpecs(Current.specs, FALSE)]
      OBVIOUS
    <3>3. gr \in Grammar
      BY <2>1, <2>2, <3>2, NewSpecsTyped DEF IInv, Grammar
    <3>4. PICK tab : tab = Append(grammar, gr)
      OBVIOUS
    <3> DEFINE g == Len(grammar) + 1
    <3>5. /\ tab \in Seq(Grammar) /\ g \in DOMAIN tab /\ tab[g] = gr
          /\ \A h \in 1 .. g-1 : h \in DOMAIN grammar /\ tab[h] = grammar[h]
      BY <3>3, <3>4 DEF IInv, TypeOK
    <3>6. grammar' = FixGrammar(tab)
      BY <2>1, <3>2, <3>4 DEF AddGrammar
    <3>7. \A h \in DOMAIN grammar : grammar[h].module # Current.module
      <4> DEFINE N == {h \in DOMAIN grammar : grammar[h].module = Current.module}
      <4>1. N \in SUBSET Nat /\ \A h \in N : h # 0
        BY DEF IInv, TypeOK
      <4>2. ASSUME N # {} PROVE FALSE
        <5>1. PICK h \in N : \A k \in N : h <= k
          <6> HIDE DEF N
          <6> QED  BY <4>1, <4>2, LeastNumber
        <5>2. \A k \in 1 .. h-1 : k \in DOMAIN grammar /\ ~(h <= k)
          BY <4>1, <5>1 DEF IInv, TypeOK
        <5>3. h \in GrammarOf(grammar, Current.module)
          BY <5>1, <5>2 DEF GrammarOf
        <5> QED  BY <2>1, <5>3
      <4> QED  BY <4>2
    <3>8. g \in GrammarOf(tab, Current.module)
      <4>1. tab[g].module = Current.module
        BY <3>2, <3>5
      <4> HIDE DEF g
      <4> QED  BY <3>5, <3>7, <4>1 DEF GrammarOf
    <3> HIDE DEF g
    <3>9. ArgsRight(scn, tab, types, n + 1)
      <4>1. /\ DOMAIN Current.specs = DOMAIN tab[g].specs
            /\ \A s \in DOMAIN Current.specs : Current.specs[s].arg # NoType =>
                 tab[g].specs[s].arg = CHOOSE i \in TypeIdx(Current.specs[s].arg) : TRUE
        BY <3>2, <3>5 DEF NewSpecs
      <4>2. ASSUME NEW s \in DOMAIN Current.specs, Current.specs[s].arg # NoType
            PROVE  /\ tab[g].specs[s].arg \in DOMAIN types
                   /\ CheckedSo(scn, n + 1, Current.specs[s].arg, types[tab[g].specs[s].arg].check)
        <5> DEFINE name == Current.specs[s].arg
        <5>1. name \in TypeName
          <6>1. Current.specs[s] \in NewSpec
            BY <2>2
          <6> QED  BY <4>2, <6>1 DEF NewSpec
        <5>2. TypeIdx(name) # {} /\ TypeIdx(name) = FirstSlot(types, name)
          BY <2>1, <4>2 DEF TypesKnown, TypeIdx, FirstSlot
        <5>3. tab[g].specs[s].arg \in FirstSlot(types, name)
          BY <4>1, <4>2, <5>2
        <5> HIDE DEF name
        <5>4. tab[g].specs[s].arg \in DOMAIN types
          BY <5>3 DEF FirstSlot
        <5> QED  BY <3>1, <5>1, <5>3, <5>4 DEF SlotsRight, name
      <4>3. Current = scn.calls[n + 1]
        BY DEF Current
      <4> QED  BY <3>8, <4>1, <4>2, <4>3 DEF ArgsRight
    <3>10. Kept(tab, grammar')
      BY <3>5, <3>6, FixKept
    <3> QED  BY <3>5, <3>9, <3>10, ArgsStay
  <2> QED  BY <2>1, <2>2, <2>3, ArgStays
<1>6. CASE AddUseIn
  <2>1. pc = "usein" /\ UNCHANGED <<scn, types, results, pc>> /\ types # <<>>
    BY <1>6 DEF AddUseIn, ArgInv
  <2>2. ArgsRight(scn, grammar', types, n + 1)
    <3>1. ArgsRight(scn, grammar, types, n + 1)
      BY <2>1 DEF ArgInv
    <3>2. Kept(grammar, grammar') /\ grammar \in Seq(Grammar)
      BY GrammarKept DEF IInv, TypeOK
    <3> QED  BY <3>1, <3>2, ArgsStay
  <2> QED  BY <2>1, <2>2, ArgStays
<1>7. CASE UseInDone
  <2>1. /\ pc = "usein" /\ Return("ok") /\ pc' = "call"
        /\ UNCHANGED <<scn, types, grammar>> /\ types # <<>>
        /\ Current.op = "grammar"
    BY <1>7 DEF UseInDone, ArgInv, IInv, Adding
  <2>2. Len(results') + 1 = n + 2
    BY <2>1, ResultsGrow DEF IInv
  <2>3. Served' \subseteq Served \cup {n + 1}
    <3>1. DOMAIN results' = DOMAIN results \cup {n + 1}
      BY <2>1 DEF Return, IInv, TypeOK
    <3>2. \A i \in DOMAIN results : results'[i] = results[i]
      BY <2>1, ResultsGrow DEF IInv
    <3> QED  BY <2>1, <3>1, <3>2 DEF Served
  <2>4. ASSUME NEW i \in Served'
        PROVE  ArgsRight(scn', grammar', types', i)
    <3>1. CASE i \in Served
      BY <2>1, <3>1, ArgServed
    <3>2. CASE i = n + 1
      BY <2>1, <3>2 DEF ArgInv
    <3> QED  BY <2>3, <3>1, <3>2
  <2>5. SlotsRight(scn', types', Len(results') + 1)
    <3>1. SlotsRight(scn, types, n + 1)
      BY <2>1 DEF ArgInv
    <3>2. scn.calls[n + 1].op # "types"
      BY <2>1 DEF Current
    <3>3. SlotsRight(scn, types, n + 2)
      BY <1>0, <3>1, <3>2, SlotsSame
    <3> HIDE DEF n
    <3> QED  BY <2>1, <2>2, <3>3
  <2> QED  BY <2>1, <2>4, <2>5 DEF ArgInv
<1>8. CASE Terminated \/ UNCHANGED vars
  <2>1. UNCHANGED vars
    BY <1>8 DEF Terminated
  <2> QED  BY <2>1, ArgStays DEF vars, ArgInv
<1> QED  BY <1>1, <1>2, <1>3, <1>4, <1>5, <1>6, <1>7, <1>8 DEF Next

LEMMA ArgsChecked ==
  ASSUME IInv, ArgInv
  PROVE  ArgumentsChecked
<1>1. \A c : TypesOf(c) = TypesIn(scn, c)
  BY DEF TypesOf, TypesIn
<1>2. \A i : Given(i) = GivenIn(scn, i)
  BY <1>1 DEF Given, GivenIn
<1>3. \A d : Definition(d) = DefIn(scn, d)
  BY <1>1 DEF Definition, DefIn
<1>4. \A i, name : FirstGiven(i, name) = FirstIn(scn, i, name)
  BY <1>2, <1>3 DEF FirstGiven, FirstIn
<1> SUFFICES ASSUME NEW i \in Served, NEW s \in DOMAIN scn.calls[i].specs,
                    scn.calls[i].specs[s].arg # NoType
             PROVE  /\ \A d \in FirstGiven(i, scn.calls[i].specs[s].arg) :
                         (\A e \in Given(i) : Precedes(e, d) => ~Fails(e)) =>
                           CheckOf(scn.calls[i].module, s) = Wanted(d)
                    /\ FirstGiven(i, scn.calls[i].specs[s].arg) = {} =>
                         \E e \in Given(i) : Fails(e)
  BY DEF ArgumentsChecked
<1> DEFINE name == scn.calls[i].specs[s].arg
           m == scn.calls[i].module
<1>5. ArgsRight(scn, grammar, types, i)
  BY DEF ArgInv
<1>6. PICK g \in GrammarOf(grammar, m) : CheckedSo(scn, i, name, types[grammar[g].specs[s].arg].check)
  BY <1>5 DEF ArgsRight
<1>7. (CHOOSE h \in GrammarOf(grammar, m) : TRUE) = g
  BY OneGrammar DEF IInv, TypeOK
<1>8. CheckedSo(scn, i, name, CheckOf(m, s))
  BY <1>6, <1>7 DEF CheckOf
<1> HIDE DEF name, m
<1>9. ASSUME NEW d \in FirstGiven(i, name), \A e \in Given(i) : Precedes(e, d) => ~Fails(e)
      PROVE  CheckOf(m, s) = Wanted(d)
  <2>1. d \in FirstIn(scn, i, name) /\ Intact(scn, i, d)
    BY <1>2, <1>3, <1>4, <1>9 DEF Intact, Fails
  <2>2. CheckOf(m, s) = CheckOfType(DefIn(scn, d))
    BY <1>8, <2>1 DEF CheckedSo
  <2> QED  BY <1>3, <2>2 DEF CheckOfType, Wanted
<1>10. FirstGiven(i, name) = {} => \E e \in Given(i) : Fails(e)
  BY <1>2, <1>3, <1>4, <1>8 DEF CheckedSo, Fails
<1> QED  BY <1>9, <1>10 DEF name, m

(* Whatever types and grammars are installed in whichever order: the       *)
(* arguments of a statement are checked as the type was given that had its *)
(* name first, then and later (arg_type_idx, which is an index and not a   *)
(* pointer), whatever installation of types failed at that type or after   *)
(* it; without such a failure every type that a grammar names was given.   *)
THEOREM ArgumentsStayChecked == Spec => []ArgumentsChecked
<1> DEFINE J == IInv /\ ArgInv
<1>1. Init => J
  BY InitHolds, ArgInit
<1>2. J /\ [Next]_vars => J'
  <2> SUFFICES ASSUME J, [Next]_vars PROVE J'
    OBVIOUS
  <2>1. IInv'
    BY StepHolds
  <2>2. ArgInv'
    BY ArgStep
  <2> QED  BY <2>1, <2>2
<1>3. J => ArgumentsChecked
  BY ArgsChecked
<1> HIDE DEF J
<1> QED  BY <1>1, <1>2, <1>3, PTL DEF Spec
=============================================================================
