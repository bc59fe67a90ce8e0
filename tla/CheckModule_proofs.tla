------------------------- MODULE CheckModule_proofs -------------------------
(***************************************************************************)
(* Proofs about CheckModule, for every grammar, every tree and both orders:*)
(* a check that fails leaves an error in the context, nothing is noted in  *)
(* a statement that the check skips, a mandatory substatement of every     *)
(* other statement is there or is reported missing once, and a module is   *)
(* accepted exactly when it is valid.                                      *)
(***************************************************************************)
EXTENDS CheckModule, FiniteSetTheorems, WellFoundedInduction, TLAPS

(* What the occurrence of a rule may become in a copy of the rules.        *)
Occ == Occurrence \cup {"0", "-"}

FrameOK(f) ==
  /\ f \in [parent : Nat, cur : Nat, rules : Seq(RuleType), occ : [DOMAIN f.rules -> Occ],
            start : Nat \ {0}]

IsSeq(s) == \E T : s \in Seq(T)

-----------------------------------------------------------------------------
(* Numbers and sequences.                                                  *)
LEMMA LeastNumber ==
  ASSUME NEW S \in SUBSET Nat, S # {}
  PROVE  \E n \in S : \A m \in S : n <= m
<1> DEFINE R == OpToRel(<, Nat)
<1>1. \A i, j \in Nat : i < j => <<i, j>> \in R
  BY DEF OpToRel
<1> HIDE DEF R
<1>2. PICK n \in S : \A m \in S : ~(<<m, n>> \in R)
  BY NatLessThanWellFounded, WFMin DEF R
<1>3. \A m \in S : ~(m < n)
  BY <1>1, <1>2
<1> QED  BY <1>3

LEMMA GreatestNumber ==
  ASSUME NEW n \in Nat, NEW S \in SUBSET (0 .. n), S # {}
  PROVE  \E c \in S : \A d \in S : d <= c
<1> DEFINE D == {n - c : c \in S}
<1>1. D \in SUBSET Nat /\ D # {}
  <2>1. \A c \in S : n - c \in Nat
    OBVIOUS
  <2>2. PICK c : c \in S
    OBVIOUS
  <2>3. n - c \in D
    BY <2>2
  <2> QED  BY <2>1, <2>3
<1>2. PICK x \in D : \A y \in D : x <= y
  <2> HIDE DEF D
  <2> QED  BY <1>1, LeastNumber
<1>3. PICK c \in S : x = n - c
  BY <1>2
<1>4. \A d \in S : n - c <= n - d
  BY <1>2, <1>3
<1>5. \A d \in S : d <= c
  BY <1>4
<1> QED  BY <1>5

LEMMA FirstOf ==
  ASSUME NEW S \in SUBSET (Nat \ {0})
  PROVE  /\ First(S) \in Nat
         /\ First(S) = 0 <=> S = {}
         /\ S # {} => First(S) \in S
<1>1. CASE S = {}
  BY <1>1 DEF First
<1>2. CASE S # {}
  <2>1. \E m \in S : \A k \in S : m <= k
    BY <1>2, LeastNumber
  <2>2. First(S) = CHOOSE m \in S : \A k \in S : m <= k
    BY <1>2 DEF First
  <2>3. First(S) \in S
    BY <2>1, <2>2
  <2> QED  BY <1>2, <2>3
<1> QED  BY <1>1, <1>2

LEMMA Concat ==
  ASSUME NEW s, NEW t, IsSeq(s), IsSeq(t)
  PROVE  IsSeq(s \o t) /\ (s \o t = <<>> => s = <<>> /\ t = <<>>)
<1>1. PICK S : s \in Seq(S)
  BY DEF IsSeq
<1>2. PICK T : t \in Seq(T)
  BY DEF IsSeq
<1> DEFINE U == S \cup T
<1>3. s \in Seq(U) /\ t \in Seq(U)
  BY <1>1, <1>2
<1> HIDE DEF U
<1>4. s \o t \in Seq(U) /\ Len(s \o t) = Len(s) + Len(t) /\ Len(s) \in Nat /\ Len(t) \in Nat
  BY <1>3
<1>5. s \o t = <<>> => Len(s) = 0 /\ Len(t) = 0
  BY <1>4
<1>6. \A u \in Seq(U) : Len(u) = 0 => u = <<>>
  OBVIOUS
<1> QED  BY <1>3, <1>4, <1>5, <1>6 DEF IsSeq

LEMMA Enumerated ==
  ASSUME NEW n \in Nat, NEW s, DOMAIN s = 1 .. n, s = [i \in 1 .. n |-> s[i]]
  PROVE  IsSeq(s) /\ (s = <<>> => n = 0)
<1> DEFINE T == {s[i] : i \in 1 .. n}
<1>1. \A i \in 1 .. n : s[i] \in T
  OBVIOUS
<1> HIDE DEF T
<1>2. s \in Seq(T)
  BY <1>1
<1>3. Len(s) = n
  BY <1>2
<1> QED  BY <1>2, <1>3 DEF IsSeq

LEMMA Short ==
  ASSUME NEW a, NEW b
  PROVE  /\ IsSeq(<<>>) /\ IsSeq(<<a>>) /\ IsSeq(Append(<<>>, a)) /\ IsSeq(Append(<<a>>, b))
         /\ <<a>> # <<>> /\ Append(<<>>, a) # <<>> /\ Append(<<a>>, b) # <<>>
<1>1. <<>> \in Seq({a}) /\ <<a>> \in Seq({a}) /\ Append(<<>>, a) \in Seq({a})
  OBVIOUS
<1>2. Append(<<a>>, b) \in Seq({a, b}) /\ Len(Append(<<a>>, b)) = 2 /\ Len(Append(<<>>, a)) = 1
  OBVIOUS
<1>3. Len(<<a>>) = 1 /\ Len(<<>>) = 0
  OBVIOUS
<1>4. IsSeq(<<>>) /\ IsSeq(<<a>>) /\ IsSeq(Append(<<>>, a)) /\ IsSeq(Append(<<a>>, b))
  BY <1>1, <1>2 DEF IsSeq
<1>5. Append(<<a>>, b) # <<>> /\ Append(<<>>, a) # <<>> /\ <<a>> # <<>>
  <2> DEFINE two == Append(<<a>>, b)
             one == Append(<<>>, a)
  <2>1. Len(two) = 2 /\ Len(one) = 1
    BY <1>2
  <2> HIDE DEF two, one
  <2>2. two # <<>> /\ one # <<>>
    BY <1>3, <2>1
  <2>3. <<a>> # <<>>
    BY <1>3
  <2> QED  BY <2>2, <2>3 DEF two, one
<1> QED  BY <1>4, <1>5

-----------------------------------------------------------------------------
(* match_rule.                                                             *)
LEMMA FrameParts ==
  ASSUME NEW f, FrameOK(f)
  PROVE  /\ f.parent \in Nat /\ f.cur \in Nat /\ f.start \in Nat /\ f.start # 0
         /\ f.rules \in Seq(RuleType) /\ Len(f.rules) \in Nat
         /\ DOMAIN f.rules = 1 .. Len(f.rules)
         /\ f.occ \in [DOMAIN f.rules -> Occ]
BY DEF FrameOK

LEMMA HitOK ==
  ASSUME NEW f, FrameOK(f), NEW n
  PROVE  /\ Hit(f, n) \in Nat
         /\ Hit(f, n) # 0 => Hit(f, n) \in DOMAIN f.rules
         /\ Passed(f, n) \subseteq DOMAIN f.rules
         /\ Skipped(f, n) \in Nat
         /\ Skipped(f, n) # 0 => Skipped(f, n) \in Passed(f, n)
<1> DEFINE H == {i \in f.start .. Len(f.rules) : Matches(f.rules[i], n)}
<1>1. H \in SUBSET (Nat \ {0}) /\ \A h \in H : f.start <= h /\ h <= Len(f.rules)
  BY FrameParts
<1>2. Hit(f, n) = First(H)
  BY DEF Hit
<1> HIDE DEF H
<1>3. Hit(f, n) \in Nat /\ (Hit(f, n) # 0 => Hit(f, n) \in H)
  BY <1>1, <1>2, FirstOf
<1>4. Hit(f, n) # 0 => Hit(f, n) \in DOMAIN f.rules
  BY <1>1, <1>3, FrameParts
<1>5. Passed(f, n) \subseteq DOMAIN f.rules
  <2> SUFFICES ASSUME NEW i \in Passed(f, n)
               PROVE  i \in 1 .. Len(f.rules)
    BY FrameParts
  <2>1. i \in f.start .. (IF Hit(f, n) = 0 THEN Len(f.rules) ELSE Hit(f, n) - 1)
    BY DEF Passed
  <2>2. Hit(f, n) # 0 => Hit(f, n) <= Len(f.rules)
    BY <1>1, <1>3
  <2> QED  BY <1>3, <2>1, <2>2, FrameParts
<1> DEFINE K == {i \in Passed(f, n) :
                   /\ f.occ[i] \in Mandatory
                   /\ scn.canonical \/ \E c \in Cuts(f, Passed(f, n)) : i < c}
<1>6. Skipped(f, n) = First(K)
  BY DEF Skipped
<1>7. K \in SUBSET (Nat \ {0}) /\ K \subseteq Passed(f, n)
  BY <1>5, FrameParts
<1> HIDE DEF K
<1>8. Skipped(f, n) \in Nat /\ (Skipped(f, n) # 0 => Skipped(f, n) \in Passed(f, n))
  BY <1>6, <1>7, FirstOf
<1> QED  BY <1>3, <1>4, <1>5, <1>8

LEMMA LeaveBehindOK ==
  ASSUME NEW f, FrameOK(f), NEW n, NEW end
  PROVE  LET g == LeaveBehind(f, n, end)
         IN  /\ FrameOK(g)
             /\ g.parent = f.parent /\ g.cur = f.cur /\ g.rules = f.rules
             /\ \A i \in DOMAIN f.rules : i \notin Passed(f, n) => g.occ[i] = f.occ[i]
<1> DEFINE gone == {i \in Passed(f, n) : i < end}
           cuts == Cuts(f, gone)
           start == IF cuts = {} THEN f.start
                    ELSE (CHOOSE c \in cuts : \A d \in cuts : d <= c) + 1
           occ == [i \in DOMAIN f.occ |->
                     IF scn.canonical /\ i \in gone \ cuts THEN "-" ELSE f.occ[i]]
           g == LeaveBehind(f, n, end)
<1>1. cuts \subseteq 1 .. Len(f.rules)
  BY HitOK, FrameParts DEF Cuts
<1>2. start \in Nat \ {0}
  <2>1. CASE cuts = {}
    BY <2>1, FrameParts
  <2>2. CASE cuts # {}
    <3>1. cuts \in SUBSET (0 .. Len(f.rules)) /\ Len(f.rules) \in Nat
      BY <1>1, FrameParts
    <3> HIDE DEF cuts
    <3>2. \E c \in cuts : \A d \in cuts : d <= c
      BY <2>2, <3>1, GreatestNumber
    <3> DEFINE last == CHOOSE c \in cuts : \A d \in cuts : d <= c
    <3>3. last \in cuts
      BY <3>2
    <3>4. start = last + 1
      BY <2>2
    <3> HIDE DEF last, start
    <3>5. last \in Nat
      BY <3>1, <3>3
    <3> QED  BY <3>4, <3>5
  <2> QED  BY <2>1, <2>2
<1>3. occ \in [DOMAIN f.rules -> Occ]
  <2>1. DOMAIN f.occ = DOMAIN f.rules /\ \A i \in DOMAIN f.rules : f.occ[i] \in Occ
    BY FrameParts
  <2>2. "-" \in Occ
    BY DEF Occ
  <2> HIDE DEF gone, cuts
  <2> QED  BY <2>1, <2>2
<1>4. g = [f EXCEPT !.start = start, !.occ = occ]
  BY DEF LeaveBehind
<1>5. \A i \in DOMAIN f.rules : i \notin Passed(f, n) => occ[i] = f.occ[i]
  BY FrameParts
<1> HIDE DEF start, occ, g, gone, cuts
<1>6. g.parent = f.parent /\ g.cur = f.cur /\ g.rules = f.rules /\ g.occ = occ /\ g.start = start
  BY <1>4 DEF FrameOK
<1>7. g \in [parent : Nat, cur : Nat, rules : Seq(RuleType), occ : [DOMAIN f.rules -> Occ],
             start : Nat \ {0}]
  BY <1>2, <1>3, <1>4 DEF FrameOK
<1>8. FrameOK(g)
  BY <1>6, <1>7 DEF FrameOK
<1> QED  BY <1>5, <1>6, <1>8 DEF g

(* A rule of the copy gets another occurrence.                             *)
LEMMA OccChanged ==
  ASSUME NEW f, FrameOK(f), NEW i \in DOMAIN f.rules, NEW o \in Occ
  PROVE  LET g == [f EXCEPT !.occ[i] = o]
         IN  /\ FrameOK(g)
             /\ g.parent = f.parent /\ g.cur = f.cur /\ g.rules = f.rules
             /\ g.occ[i] = o
             /\ \A j \in DOMAIN f.rules : j # i => g.occ[j] = f.occ[j]
<1> DEFINE occ == [f.occ EXCEPT ![i] = o]
           g == [f EXCEPT !.occ = occ]
<1>1. /\ occ \in [DOMAIN f.rules -> Occ] /\ occ[i] = o
      /\ \A j \in DOMAIN f.rules : j # i => occ[j] = f.occ[j]
  BY FrameParts
<1> HIDE DEF occ
<1>2. g.parent = f.parent /\ g.cur = f.cur /\ g.rules = f.rules /\ g.occ = occ
  BY DEF FrameOK
<1>3. g \in [parent : Nat, cur : Nat, rules : Seq(RuleType), occ : [DOMAIN f.rules -> Occ],
             start : Nat \ {0}]
  BY <1>1 DEF FrameOK
<1>4. FrameOK(g)
  BY <1>2, <1>3 DEF FrameOK
<1> QED  BY <1>1, <1>2, <1>4 DEF occ

LEMMA TakeRuleOK ==
  ASSUME NEW f, FrameOK(f), NEW n, NEW hit \in DOMAIN f.rules, NEW old,
         old = <<>> \/ \E e : old = <<e>>, NEW m, m = TakeRule(f, n, hit, old)
  PROVE  /\ FrameOK(m.frame) /\ m.frame.parent = f.parent
         /\ m.frame.cur = f.cur /\ m.frame.rules = f.rules
         /\ IsSeq(m.errors)
         /\ m.rule = 0 => m.errors # <<>>
         /\ m.rule # 0 => m.rule = hit
         /\ f.occ[hit] = "1" => m.frame.occ[hit] = "0"
<1>1. f.occ[hit] \in {"1", "?", "*", "+", "0", "-"}
  BY FrameParts DEF Occ, Occurrence
<1>2. hit # 0
  BY FrameParts
<1>3. IsSeq(old) /\ \A e : IsSeq(Append(old, e)) /\ Append(old, e) # <<>>
  BY Short
<1>4. CASE f.occ[hit] \in {"1", "?"}
  <2> DEFINE g == [f EXCEPT !.occ[hit] = "0"]
  <2>1. m = Matched(hit, g, old)
    BY <1>4 DEF TakeRule
  <2>2. "0" \in Occ
    BY DEF Occ
  <2>3. /\ FrameOK(g) /\ g.parent = f.parent /\ g.cur = f.cur /\ g.rules = f.rules
        /\ g.occ[hit] = "0" /\ \A j \in DOMAIN f.rules : j # hit => g.occ[j] = f.occ[j]
    BY <2>2, OccChanged
  <2> HIDE DEF g
  <2>4. m.rule = hit /\ m.frame = g /\ m.errors = old
    BY <2>1 DEF Matched
  <2>5. f.occ[hit] = "1" => m.frame.occ[hit] = "0"
    BY <1>4, <2>3, <2>4
  <2> QED  BY <1>2, <1>3, <2>3, <2>4, <2>5
<1>5. CASE f.occ[hit] = "*"
  <2>1. m = Matched(hit, f, old)
    BY <1>5 DEF TakeRule
  <2> QED  BY <1>2, <1>3, <1>5, <2>1 DEF Matched
<1>6. CASE f.occ[hit] = "+"
  <2> DEFINE g == [f EXCEPT !.occ[hit] = "*"]
  <2>1. m = Matched(hit, g, old)
    BY <1>6 DEF TakeRule
  <2>2. "*" \in Occ
    BY DEF Occ, Occurrence
  <2>3. /\ FrameOK(g) /\ g.parent = f.parent /\ g.cur = f.cur /\ g.rules = f.rules
        /\ g.occ[hit] = "*" /\ \A j \in DOMAIN f.rules : j # hit => g.occ[j] = f.occ[j]
    BY <2>2, OccChanged
  <2> HIDE DEF g
  <2>4. m.rule = hit /\ m.frame = g /\ m.errors = old
    BY <2>1 DEF Matched
  <2>5. f.occ[hit] = "1" => m.frame.occ[hit] = "0"
    BY <1>6, <2>3, <2>4
  <2> QED  BY <1>2, <1>3, <2>3, <2>4, <2>5
<1>7. CASE f.occ[hit] \in {"0", "-"}
  <2>1. PICK code : m = Matched(0, f, Append(old, Error(code, n, 0)))
    BY <1>7 DEF TakeRule
  <2> QED  BY <1>3, <1>7, <2>1 DEF Matched
<1> QED  BY <1>1, <1>4, <1>5, <1>6, <1>7

LEMMA MatchOK ==
  ASSUME NEW f, FrameOK(f), NEW n, NEW m, m = MatchRule(f, n)
  PROVE  /\ FrameOK(m.frame) /\ m.frame.parent = f.parent
         /\ m.frame.cur = f.cur /\ m.frame.rules = f.rules
         /\ IsSeq(m.errors)
         /\ m.rule = 0 => m.errors # <<>>
         /\ m.rule # 0 => m.rule \in DOMAIN f.rules
         /\ (m.rule # 0 /\ f.occ[m.rule] = "1" /\ Len(f.rules) = 1) => m.frame.occ[1] = "0"
<1> DEFINE hit == Hit(f, n)
           skipped == Skipped(f, n)
<1>1. m = AfterSkipping(f, n, hit, skipped)
  BY DEF MatchRule
<1>2. CASE skipped # 0
  <2> DEFINE g == LeaveBehind(f, n, skipped)
  <2>1. m = Matched(0, Given(g, skipped), <<Error("EXPECTED", n, skipped)>>)
    BY <1>1, <1>2 DEF AfterSkipping
  <2>2. FrameOK(g) /\ g.parent = f.parent /\ g.cur = f.cur /\ g.rules = f.rules
    BY LeaveBehindOK
  <2>3. skipped \in DOMAIN f.rules
    BY <1>2, HitOK
  <2>4. "0" \in Occ
    BY DEF Occ
  <2> HIDE DEF g, skipped
  <2>5. /\ FrameOK(Given(g, skipped)) /\ Given(g, skipped).parent = f.parent
        /\ Given(g, skipped).cur = f.cur /\ Given(g, skipped).rules = f.rules
    BY <2>2, <2>3, <2>4, OccChanged DEF Given
  <2> QED  BY <2>1, <2>5, Short DEF Matched
<1>3. CASE skipped = 0 /\ hit = 0
  <2> DEFINE g == LeaveBehind(f, n, Len(f.rules) + 1)
  <2>1. m = Matched(0, g, <<Error("UNEXPECTED", n, 0)>>)
    BY <1>1, <1>3 DEF AfterSkipping
  <2>2. FrameOK(g) /\ g.parent = f.parent /\ g.cur = f.cur /\ g.rules = f.rules
    BY LeaveBehindOK
  <2> HIDE DEF g
  <2> QED  BY <2>1, <2>2, Short DEF Matched
<1>4. CASE skipped = 0 /\ hit # 0
  <2> DEFINE g == LeaveBehind(f, n, Len(f.rules) + 1)
             old == TooOld(f.rules[hit], n)
  <2>1. m = TakeRule(g, n, hit, old)
    BY <1>1, <1>4 DEF AfterSkipping
  <2>2. FrameOK(g) /\ g.parent = f.parent /\ g.cur = f.cur /\ g.rules = f.rules
    BY LeaveBehindOK
  <2>3. hit \in DOMAIN f.rules /\ hit \in Nat
    BY <1>4, HitOK
  <2>4. old = <<>> \/ \E e : old = <<e>>
    BY DEF TooOld
  <2>5. hit \notin Passed(f, n)
    BY <1>4, <2>3, FrameParts DEF Passed
  <2>6. g.occ[hit] = f.occ[hit]
    BY <2>3, <2>5, LeaveBehindOK
  <2>7. Len(f.rules) = 1 => hit = 1
    BY <2>3, FrameParts
  <2> HIDE DEF g, old, hit
  <2>8. /\ FrameOK(m.frame) /\ m.frame.parent = g.parent
        /\ m.frame.cur = g.cur /\ m.frame.rules = g.rules /\ IsSeq(m.errors)
        /\ m.rule = 0 => m.errors # <<>>
        /\ m.rule # 0 => m.rule = hit
        /\ g.occ[hit] = "1" => m.frame.occ[hit] = "0"
    <3>1. FrameOK(g) /\ hit \in DOMAIN g.rules
      BY <2>2, <2>3
    <3> QED  BY <2>1, <2>4, <3>1, TakeRuleOK
  <2>9. (m.rule # 0 /\ f.occ[m.rule] = "1" /\ Len(f.rules) = 1) => m.frame.occ[1] = "0"
    BY <2>6, <2>7, <2>8
  <2> QED  BY <2>2, <2>3, <2>8, <2>9
<1> QED  BY <1>2, <1>3, <1>4

-----------------------------------------------------------------------------
(* The tree and the frames made from it.                                   *)
LEMMA TreeTyped ==
  ASSUME scn \in Scenario
  PROVE  /\ Tree \in Seq(Statement) /\ Len(Tree) \in Nat /\ Nodes = 1 .. Len(Tree) /\ 1 \in Nodes
         /\ \A n \in 2 .. Len(Tree) : Tree[n].parent # Tree[1].parent
         /\ IsFiniteSet(Nodes)
<1>1. /\ Tree \in Seq(Statement) /\ Tree # <<>> /\ Tree[1].parent = 0
      /\ \A n \in 2 .. Len(Tree) : Tree[n].parent \in 1 .. n - 1
  BY ScenarioAssumption DEF Tree, ScenarioType
<1>2. Len(Tree) \in Nat /\ Nodes = 1 .. Len(Tree) /\ 1 \in Nodes
  BY <1>1 DEF Nodes
<1>3. IsFiniteSet(1 .. Len(Tree))
  BY <1>2, FS_Interval
<1> QED  BY <1>1, <1>2, <1>3

LEMMA ErrorsAtOK ==
  ASSUME NEW code, NEW S, IsFiniteSet(S)
  PROVE  IsSeq(ErrorsAt(code, S))
<1> DEFINE s == ErrorsAt(code, S)
<1>1. Cardinality(S) \in Nat
  BY FS_CardinalityType
<1>2. DOMAIN s = 1 .. Cardinality(S) /\ s = [i \in 1 .. Cardinality(S) |-> s[i]]
  BY DEF ErrorsAt
<1> HIDE DEF s
<1>3. IsSeq(s)
  BY <1>1, <1>2, Enumerated
<1> QED  BY <1>3 DEF s

LEMMA MissingErrorsOK ==
  ASSUME NEW f, FrameOK(f), f.parent # 0
  PROVE  IsSeq(MissingErrors(f)) /\ (MissingErrors(f) = <<>> => Missing(f) = {})
<1> DEFINE s == MissingErrors(f)
<1>1. IsFiniteSet(Missing(f))
  <2>1. Len(f.rules) \in Nat /\ DOMAIN f.rules = 1 .. Len(f.rules)
    BY FrameParts
  <2>2. IsFiniteSet(1 .. Len(f.rules))
    BY <2>1, FS_Interval
  <2>3. Missing(f) \subseteq 1 .. Len(f.rules)
    BY <2>1 DEF Missing
  <2> QED  BY <2>2, <2>3, FS_Subset
<1>2. Cardinality(Missing(f)) \in Nat /\ (Cardinality(Missing(f)) = 0 <=> Missing(f) = {})
  BY <1>1, FS_CardinalityType, FS_EmptySet
<1>3. DOMAIN s = 1 .. Cardinality(Missing(f)) /\ s = [i \in 1 .. Cardinality(Missing(f)) |-> s[i]]
  BY DEF MissingErrors
<1> HIDE DEF s
<1>4. IsSeq(s) /\ (s = <<>> => Cardinality(Missing(f)) = 0)
  BY <1>2, <1>3, Enumerated
<1> QED  BY <1>2, <1>4 DEF s

LEMMA FrameMade ==
  ASSUME NEW parent \in Nat, NEW cur \in Nat, NEW rules \in Seq(RuleType)
  PROVE  LET f == Frame(parent, cur, rules)
         IN  /\ FrameOK(f) /\ f.parent = parent /\ f.cur = cur /\ f.rules = rules
             /\ \A i \in DOMAIN rules : f.occ[i] = rules[i].occ
<1> DEFINE occ == [i \in DOMAIN rules |-> rules[i].occ]
<1>1. \A i \in DOMAIN rules : rules[i].occ \in Occ
  <2>1. \A i \in DOMAIN rules : rules[i] \in RuleType
    OBVIOUS
  <2>2. \A r \in RuleType : r.occ \in Occurrence
    BY DEF RuleType
  <2> QED  BY <2>1, <2>2 DEF Occ
<1>2. occ \in [DOMAIN rules -> Occ] /\ \A i \in DOMAIN rules : occ[i] = rules[i].occ
  BY <1>1
<1>3. Frame(parent, cur, rules) =
        [parent |-> parent, cur |-> cur, rules |-> rules, occ |-> occ, start |-> 1]
  BY DEF Frame
<1> HIDE DEF occ
<1> QED  BY <1>2, <1>3 DEF FrameOK

LEMMA Advanced ==
  ASSUME scn \in Scenario, NEW f, FrameOK(f)
  PROVE  LET g == Advance(f)
         IN  /\ FrameOK(g) /\ g.parent = f.parent /\ g.rules = f.rules /\ g.occ = f.occ
             /\ f.cur = 1 => g.cur = 0
<1> DEFINE S == {m \in Nodes : m > f.cur /\ Tree[m].parent = Tree[f.cur].parent}
           cur == First(S)
<1>1. S \in SUBSET (Nat \ {0})
  BY TreeTyped
<1>2. cur \in Nat /\ (cur = 0 <=> S = {})
  <2> HIDE DEF S
  <2> QED  BY <1>1, FirstOf
<1>3. f.cur = 1 => S = {}
  BY TreeTyped
<1>4. Advance(f) = [f EXCEPT !.cur = cur]
  BY DEF Advance, NextOf
<1> HIDE DEF S, cur
<1> QED  BY <1>2, <1>3, <1>4 DEF FrameOK

-----------------------------------------------------------------------------
(* The stack of calls: the last frame is the outermost call, the only one  *)
(* without a statement around it, and with the rule for the module alone.  *)
StackOK(s) ==
  /\ IsSeq(s) /\ s # <<>>
  /\ \A i \in 1 .. Len(s) : FrameOK(s[i]) /\ (s[i].parent = 0 <=> i = Len(s))
  /\ Len(s[Len(s)].rules) = 1
Single(s) == Len(s) = 1
OuterOf(s) == s[Len(s)]

LEMMA StackParts ==
  ASSUME NEW s, StackOK(s)
  PROVE  /\ Len(s) \in Nat \ {0} /\ Head(s) = s[1] /\ FrameOK(s[1])
         /\ s[1].parent = 0 <=> Single(s)
         /\ Single(s) => s[1] = OuterOf(s)
         /\ Len(OuterOf(s).rules) = 1
<1>1. PICK T : s \in Seq(T)
  BY DEF StackOK, IsSeq
<1>2. Len(s) \in Nat \ {0} /\ Head(s) = s[1]
  BY <1>1 DEF StackOK
<1>3. 1 \in 1 .. Len(s)
  BY <1>2
<1>4. FrameOK(s[1]) /\ (s[1].parent = 0 <=> 1 = Len(s))
  BY <1>3 DEF StackOK
<1>5. Len(OuterOf(s).rules) = 1
  BY DEF StackOK, OuterOf
<1> QED  BY <1>2, <1>4, <1>5 DEF Single, OuterOf

LEMMA OneOrMore == \A n \in Nat \ {0} : (n = 1 \/ n > 1) /\ (2 = n + 1 <=> n = 1)
OBVIOUS

LEMMA Replaced ==
  ASSUME NEW s, StackOK(s), NEW g, FrameOK(g), g.parent = s[1].parent, g.rules = s[1].rules,
         NEW t, t = <<g>> \o Tail(s)
  PROVE  /\ StackOK(t) /\ (Single(t) <=> Single(s))
         /\ Single(s) => OuterOf(t) = g
         /\ ~Single(s) => OuterOf(t) = OuterOf(s)
<1>1. PICK T : s \in Seq(T)
  BY DEF StackOK, IsSeq
<1> DEFINE U == T \cup {g}
<1>2. s \in Seq(U) /\ g \in U
  BY <1>1
<1> HIDE DEF U
<1>3. s # <<>>
  BY DEF StackOK
<1>4. t \in Seq(U) /\ Len(t) = Len(s) /\ t[1] = g /\ \A i \in 2 .. Len(s) : t[i] = s[i]
  BY <1>2, <1>3
<1>5. Len(s) \in Nat \ {0}
  BY StackParts
<1>6. t # <<>>
  BY <1>4, <1>5
<1>7. Len(s) > 1 => t[Len(t)] = s[Len(s)]
  BY <1>4, <1>5
<1>8. \A i \in 1 .. Len(t) : FrameOK(t[i]) /\ (t[i].parent = 0 <=> i = Len(t))
  <2> SUFFICES ASSUME NEW i \in 1 .. Len(t)
               PROVE  FrameOK(t[i]) /\ (t[i].parent = 0 <=> i = Len(t))
    OBVIOUS
  <2>1. CASE i = 1
    BY <2>1, <1>4, <1>5, StackParts DEF Single
  <2>2. CASE i # 1
    <3>1. i \in 1 .. Len(s) /\ t[i] = s[i]
      BY <2>2, <1>4, <1>5
    <3>2. FrameOK(s[i]) /\ (s[i].parent = 0 <=> i = Len(s))
      BY <3>1 DEF StackOK
    <3> QED  BY <3>1, <3>2, <1>4
  <2> QED  BY <2>1, <2>2
<1>9. Len(t[Len(t)].rules) = 1
  <2>1. CASE Len(s) = 1
    BY <2>1, <1>4 DEF StackOK
  <2>2. CASE Len(s) > 1
    BY <2>2, <1>7 DEF StackOK
  <2> QED  BY <2>1, <2>2, <1>5
<1>10. StackOK(t)
  BY <1>4, <1>6, <1>8, <1>9 DEF StackOK, IsSeq
<1> QED  BY <1>4, <1>5, <1>7, <1>10, OneOrMore DEF Single, OuterOf

LEMMA Pushed ==
  ASSUME NEW s, StackOK(s), NEW h, FrameOK(h), h.parent = s[1].parent, h.rules = s[1].rules,
         NEW g, FrameOK(g), g.parent # 0, NEW t, t = <<g, h>> \o Tail(s)
  PROVE  /\ StackOK(t) /\ ~Single(t)
         /\ ~Single(s) => OuterOf(t) = OuterOf(s)
         /\ Single(s) => OuterOf(t) = h
<1>1. PICK T : s \in Seq(T)
  BY DEF StackOK, IsSeq
<1> DEFINE U == T \cup {g, h}
<1>2. s \in Seq(U) /\ g \in U /\ h \in U
  BY <1>1
<1> HIDE DEF U
<1>3. s # <<>>
  BY DEF StackOK
<1>4. /\ t \in Seq(U) /\ Len(t) = Len(s) + 1 /\ t[1] = g /\ t[2] = h
      /\ \A i \in 3 .. Len(s) + 1 : t[i] = s[i - 1]
  BY <1>2, <1>3
<1>5. Len(s) \in Nat \ {0}
  BY StackParts
<1>6. t # <<>>
  BY <1>4, <1>5
<1>7. (Len(s) > 1 => t[Len(t)] = s[Len(s)]) /\ (Len(s) = 1 => t[Len(t)] = h)
  BY <1>4, <1>5
<1>8. \A i \in 1 .. Len(t) : FrameOK(t[i]) /\ (t[i].parent = 0 <=> i = Len(t))
  <2> SUFFICES ASSUME NEW i \in 1 .. Len(t)
               PROVE  FrameOK(t[i]) /\ (t[i].parent = 0 <=> i = Len(t))
    OBVIOUS
  <2>1. CASE i = 1
    BY <2>1, <1>4, <1>5
  <2>2. CASE i = 2
    <3>1. h.parent = 0 <=> Len(s) = 1
      BY StackParts DEF Single
    <3>2. 2 = Len(t) <=> Len(s) = 1
      BY <1>4, <1>5, OneOrMore
    <3> QED  BY <2>2, <3>1, <3>2, <1>4
  <2>3. CASE i > 2
    <3>1. i - 1 \in 1 .. Len(s) /\ t[i] = s[i - 1] /\ (i = Len(t) <=> i - 1 = Len(s))
      BY <2>3, <1>4, <1>5
    <3>2. FrameOK(s[i - 1]) /\ (s[i - 1].parent = 0 <=> i - 1 = Len(s))
      BY <3>1 DEF StackOK
    <3> QED  BY <3>1, <3>2
  <2> QED  BY <2>1, <2>2, <2>3
<1>9. Len(t[Len(t)].rules) = 1
  <2>1. Len(s[Len(s)].rules) = 1
    BY DEF StackOK
  <2>2. CASE Len(s) = 1
    <3>1. s[1] = s[Len(s)] /\ t[Len(t)] = h
      BY <2>2, <1>7
    <3> QED  BY <2>1, <3>1
  <2>3. CASE Len(s) > 1
    BY <2>1, <2>3, <1>7
  <2> QED  BY <2>2, <2>3, <1>5, OneOrMore
<1>10. StackOK(t)
  BY <1>4, <1>6, <1>8, <1>9 DEF StackOK, IsSeq
<1>11. Len(t) # 1
  <2>1. \A n \in Nat \ {0} : n + 1 # 1
    OBVIOUS
  <2> QED  BY <1>4, <1>5, <2>1
<1> QED  BY <1>5, <1>7, <1>10, <1>11, OneOrMore DEF Single, OuterOf

LEMMA Returned ==
  ASSUME NEW s, StackOK(s), ~Single(s)
  PROVE  StackOK(Tail(s)) /\ Tail(s)[1] = s[2] /\ OuterOf(Tail(s)) = OuterOf(s)
<1>1. PICK T : s \in Seq(T)
  BY DEF StackOK, IsSeq
<1>2. Len(s) \in Nat /\ Len(s) > 1
  <2>1. Len(s) \in Nat \ {0}
    BY StackParts
  <2> QED  BY <2>1, OneOrMore DEF Single
<1>3. /\ Tail(s) \in Seq(T) /\ Len(Tail(s)) = Len(s) - 1
      /\ \A i \in 1 .. Len(s) - 1 : Tail(s)[i] = s[i + 1]
  BY <1>1, <1>2
<1> DEFINE t == Tail(s)
<1> HIDE DEF t
<1>4. t \in Seq(T) /\ Len(t) = Len(s) - 1 /\ \A i \in 1 .. Len(s) - 1 : t[i] = s[i + 1]
  BY <1>3 DEF t
<1>5. t # <<>>
  BY <1>2, <1>4
<1>6. \A i \in 1 .. Len(t) : FrameOK(t[i]) /\ (t[i].parent = 0 <=> i = Len(t))
  <2> SUFFICES ASSUME NEW i \in 1 .. Len(t)
               PROVE  FrameOK(t[i]) /\ (t[i].parent = 0 <=> i = Len(t))
    OBVIOUS
  <2>1. i + 1 \in 1 .. Len(s) /\ t[i] = s[i + 1] /\ (i = Len(t) <=> i + 1 = Len(s))
    BY <1>2, <1>4
  <2> QED  BY <2>1 DEF StackOK
<1>7. t[Len(t)] = s[Len(s)] /\ t[1] = s[2]
  BY <1>2, <1>4
<1>8. StackOK(t)
  BY <1>4, <1>5, <1>6, <1>7 DEF StackOK, IsSeq
<1> QED  BY <1>7, <1>8 DEF t, OuterOf

-----------------------------------------------------------------------------
(* What holds of the outermost call while no error is noted: either it is  *)
(* still at the module, which is still to come, or the module was given.   *)
Outer == OuterOf(stack)
OuterInv ==
  \/ errors # <<>>
  \/ Single(stack) /\ Outer.cur = 1 /\ Outer.occ[1] = "1"
  \/ Outer.occ[1] = "0" /\ Outer.cur = IF Single(stack) THEN 0 ELSE 1

IInv ==
  /\ scn \in Scenario
  /\ phase \in {"prefixes", "check", "done"}
  /\ res \in BOOLEAN
  /\ phase = "prefixes" => res = TRUE /\ errors = <<>>
  /\ phase = "check" =>
       /\ IsSeq(errors) /\ StackOK(stack)
       /\ ~res => errors # <<>>
       /\ Plain(1) => modname[1] = Builtin /\ OuterInv
  /\ FailureLeavesError

LEMMA InitHolds == Init => IInv
BY DEF Init, IInv, FailureLeavesError

LEMMA ResolveHolds == IInv /\ ResolvePrefixes => IInv'
<1> SUFFICES ASSUME IInv, ResolvePrefixes
             PROVE  IInv'
  OBVIOUS
<1>1. /\ phase = "prefixes" /\ phase' = "check" /\ res = TRUE /\ UNCHANGED <<scn, res>>
      /\ scn \in Scenario /\ Kw(1) \in {"module", "submodule"}
  BY DEF IInv, ResolvePrefixes
<1>2. modname'[1] = ModuleOf(PrefixMap.taken, 1)
  BY <1>1, TreeTyped DEF ResolvePrefixes
<1>3. Plain(1) => modname'[1] = Builtin
  BY <1>2 DEF ModuleOf
<1>4. IsSeq(errors')
  <2> DEFINE twice == {n \in Nodes : \E d \in PrefixMap.refused : n = Declaring(d)}
             undefined == {n \in Nodes : ModuleOf(PrefixMap.taken, n) = None}
  <2>1. errors' = ErrorsAt("DUPLICATE_PREFIX", twice) \o ErrorsAt("UNDEFINED_PREFIX", undefined)
    BY DEF ResolvePrefixes
  <2>2. twice \subseteq Nodes /\ undefined \subseteq Nodes
    OBVIOUS
  <2> HIDE DEF twice, undefined
  <2>3. IsFiniteSet(twice) /\ IsFiniteSet(undefined)
    BY <1>1, <2>2, TreeTyped, FS_Subset
  <2>4. IsSeq(ErrorsAt("DUPLICATE_PREFIX", twice)) /\ IsSeq(ErrorsAt("UNDEFINED_PREFIX", undefined))
    BY <2>3, ErrorsAtOK
  <2> QED  BY <2>1, <2>4, Concat
<1>5. TopRule \in RuleType
  <2>1. Tree[1] \in Statement
    BY <1>1, TreeTyped
  <2>2. Kw(1) \in Keyword
    BY <2>1 DEF Kw, Statement
  <2> QED  BY <1>1, <2>2, GrammarAssumption DEF TopRule, RuleType, Name, Occurrence
<1> DEFINE f == Frame(0, 1, <<TopRule>>)
<1>6. f.parent = 0 /\ f.cur = 1 /\ Len(f.rules) = 1 /\ f.occ[1] = "1" /\ FrameOK(f)
  <2>1. <<TopRule>> \in Seq(RuleType) /\ 1 \in DOMAIN <<TopRule>> /\ <<TopRule>>[1] = TopRule
    BY <1>5
  <2>2. TopRule.occ = "1"
    BY DEF TopRule
  <2> DEFINE rules == <<TopRule>>
  <2> HIDE DEF rules
  <2>3. rules \in Seq(RuleType) /\ 1 \in DOMAIN rules /\ rules[1] = TopRule
    BY <2>1 DEF rules
  <2>4. /\ FrameOK(Frame(0, 1, rules)) /\ Frame(0, 1, rules).parent = 0
        /\ Frame(0, 1, rules).cur = 1 /\ Frame(0, 1, rules).rules = rules
        /\ Frame(0, 1, rules).occ[1] = rules[1].occ
    BY <2>3, FrameMade
  <2>5. Len(rules) = 1
    BY DEF rules
  <2> QED  BY <2>2, <2>3, <2>4, <2>5 DEF rules
<1> HIDE DEF f
<1>7. stack' = <<f>> /\ Len(stack') = 1 /\ stack'[1] = f /\ stack' \in Seq({f})
  BY DEF ResolvePrefixes, f
<1>8. StackOK(stack') /\ OuterInv'
  <2>1. IsSeq(stack') /\ stack' # <<>>
    BY <1>7 DEF IsSeq
  <2>2. \A i \in 1 .. Len(stack') : i = 1
    BY <1>7
  <2>3. StackOK(stack')
    BY <1>6, <1>7, <2>1, <2>2 DEF StackOK
  <2> QED  BY <1>6, <1>7, <2>3 DEF OuterInv, Outer, OuterOf, Single
<1> QED  BY <1>1, <1>3, <1>4, <1>8 DEF IInv, FailureLeavesError, Plain, Tree

LEMMA SkipHolds == IInv /\ SkipUnknown => IInv'
<1> SUFFICES ASSUME IInv, SkipUnknown
             PROVE  IInv'
  OBVIOUS
<1>1. /\ phase = "check" /\ scn \in Scenario /\ IsSeq(errors) /\ StackOK(stack)
      /\ UNCHANGED <<scn, phase, modname, version, res, errors>>
  BY DEF IInv, SkipUnknown
<1>2. Top = stack[1] /\ FrameOK(Top) /\ (Single(stack) => Top = Outer) /\ Len(Outer.rules) = 1
  BY <1>1, StackParts DEF Top, Outer
<1> DEFINE g == Advance(Top)
<1>3. FrameOK(g) /\ g.parent = Top.parent /\ g.rules = Top.rules
  BY <1>1, <1>2, Advanced
<1>4. stack' = <<g>> \o Tail(stack)
  BY DEF SkipUnknown
<1> HIDE DEF g
<1>5. StackOK(stack') /\ (Single(stack') <=> Single(stack)) /\ (~Single(stack) => Outer' = Outer)
  <2>1. PICK t : t = stack'
    OBVIOUS
  <2>2. /\ t = <<g>> \o Tail(stack) /\ StackOK(stack) /\ FrameOK(g)
        /\ g.parent = stack[1].parent /\ g.rules = stack[1].rules
    BY <1>1, <1>2, <1>3, <1>4, <2>1
  <2>3. /\ StackOK(t) /\ (Single(t) <=> Single(stack))
        /\ ~Single(stack) => OuterOf(t) = OuterOf(stack)
    BY <2>2, Replaced
  <2> QED  BY <2>1, <2>3 DEF Outer
<1>6. Plain(1) /\ errors = <<>> => ~Single(stack)
  <2> SUFFICES ASSUME Plain(1), errors = <<>>, Single(stack)
               PROVE  FALSE
    OBVIOUS
  <2>1. Top = Outer /\ modname[1] = Builtin /\ OuterInv
    BY <1>1, <1>2 DEF IInv, Outer
  <2>2. Top.cur # 0 /\ ~Known(Top.cur)
    BY DEF SkipUnknown
  <2>3. Top.cur = 1
    BY <2>1, <2>2 DEF OuterInv
  <2> QED  BY <2>1, <2>2, <2>3, GrammarAssumption DEF Known
<1>7. Plain(1) => OuterInv'
  <2> SUFFICES ASSUME Plain(1), errors = <<>>
               PROVE  OuterInv'
    BY <1>1 DEF OuterInv
  <2>1. ~Single(stack)
    BY <1>6
  <2>2. OuterInv
    BY <1>1 DEF IInv
  <2> QED  BY <1>1, <1>5, <2>1, <2>2 DEF OuterInv
<1> QED  BY <1>1, <1>5, <1>7 DEF IInv, FailureLeavesError, Plain, Tree

LEMMA RejectHolds == IInv /\ Reject => IInv'
<1> SUFFICES ASSUME IInv, Reject
             PROVE  IInv'
  OBVIOUS
<1>1. /\ phase = "check" /\ scn \in Scenario /\ IsSeq(errors) /\ StackOK(stack)
      /\ UNCHANGED <<scn, phase, modname, version>> /\ res' = FALSE
  BY DEF IInv, Reject
<1>2. Top = stack[1] /\ FrameOK(Top) /\ (Single(stack) => Top = Outer) /\ Len(Outer.rules) = 1
  BY <1>1, StackParts DEF Top, Outer
<1>3. PICK m : /\ m = MatchRule(Top, Top.cur) /\ m.rule = 0
               /\ stack' = <<Advance(m.frame)>> \o Tail(stack)
               /\ errors' = errors \o m.errors
  BY DEF Reject
<1>4. /\ FrameOK(m.frame) /\ m.frame.parent = Top.parent /\ m.frame.rules = Top.rules
      /\ IsSeq(m.errors) /\ m.errors # <<>>
  BY <1>2, <1>3, MatchOK
<1> DEFINE g == Advance(m.frame)
<1>5. FrameOK(g) /\ g.parent = Top.parent /\ g.rules = Top.rules
  BY <1>1, <1>4, Advanced
<1>6. stack' = <<g>> \o Tail(stack)
  BY <1>3
<1> HIDE DEF g
<1>7. StackOK(stack')
  <2>1. PICK t : t = stack'
    OBVIOUS
  <2>2. /\ t = <<g>> \o Tail(stack) /\ StackOK(stack) /\ FrameOK(g)
        /\ g.parent = stack[1].parent /\ g.rules = stack[1].rules
    BY <1>1, <1>2, <1>5, <1>6, <2>1
  <2>3. StackOK(t)
    BY <2>2, Replaced
  <2> QED  BY <2>1, <2>3
<1>8. IsSeq(errors') /\ errors' # <<>>
  BY <1>1, <1>3, <1>4, Concat
<1> QED  BY <1>1, <1>7, <1>8 DEF IInv, FailureLeavesError, OuterInv, Plain, Tree

LEMMA EnterHolds == IInv /\ Enter => IInv'
<1> SUFFICES ASSUME IInv, Enter
             PROVE  IInv'
  OBVIOUS
<1>1. /\ phase = "check" /\ scn \in Scenario /\ IsSeq(errors) /\ StackOK(stack)
      /\ res \in BOOLEAN /\ (~res => errors # <<>>)
      /\ UNCHANGED <<scn, phase, modname, version>> /\ Top.cur # 0
  BY DEF IInv, Enter
<1>2. Top = stack[1] /\ FrameOK(Top) /\ (Single(stack) => Top = Outer) /\ Len(Outer.rules) = 1
  BY <1>1, StackParts DEF Top, Outer
<1>3. PICK m : /\ m = MatchRule(Top, Top.cur) /\ m.rule # 0
               /\ Call(Top.cur, Top.rules[m.rule].spec, m)
  BY DEF Enter
<1>4. /\ FrameOK(m.frame) /\ m.frame.parent = Top.parent /\ m.frame.rules = Top.rules
      /\ m.frame.cur = Top.cur /\ IsSeq(m.errors) /\ m.rule \in DOMAIN Top.rules
      /\ (Top.occ[m.rule] = "1" /\ Len(Top.rules) = 1) => m.frame.occ[1] = "0"
  BY <1>2, <1>3, MatchOK
<1> DEFINE spec == Top.rules[m.rule].spec
           h == m.frame
           g == Frame(Top.cur, First(Sub(Top.cur)), Grammar[spec].rules)
           bad == ArgumentErrors(spec, Top.cur)
<1>5. Grammar[spec].rules \in Seq(RuleType)
  <2>1. Top.rules \in Seq(RuleType)
    BY <1>2, FrameParts
  <2>2. Top.rules[m.rule] \in RuleType
    BY <1>4, <2>1
  <2>3. spec \in DOMAIN Grammar
    BY <2>2 DEF RuleType
  <2> QED  BY <2>3, GrammarAssumption DEF SpecType
<1>6. FrameOK(g) /\ g.parent # 0
  <2>1. Top.cur \in Nat
    BY <1>2, FrameParts
  <2>2. Sub(Top.cur) \in SUBSET (Nat \ {0})
    BY <1>1, TreeTyped DEF Sub
  <2>3. First(Sub(Top.cur)) \in Nat
    BY <2>2, FirstOf
  <2> HIDE DEF spec
  <2>4. FrameOK(g) /\ g.parent = Top.cur
    BY <1>5, <2>1, <2>3, FrameMade
  <2> QED  BY <1>1, <2>4
<1>7. IsSeq(bad)
  BY Short DEF ArgumentErrors
<1>8. /\ stack' = <<g, h>> \o Tail(stack)
      /\ errors' = (errors \o m.errors) \o bad
      /\ res' = (res /\ bad = <<>>)
  BY <1>3 DEF Call
<1> HIDE DEF spec, h, g, bad
<1>9. /\ StackOK(stack') /\ ~Single(stack')
      /\ ~Single(stack) => Outer' = Outer
      /\ Single(stack) => Outer' = h
  <2>1. PICK t : t = stack'
    OBVIOUS
  <2>2. h = m.frame
    BY DEF h
  <2>3. /\ t = <<g, h>> \o Tail(stack) /\ StackOK(stack) /\ FrameOK(h) /\ FrameOK(g)
        /\ h.parent = stack[1].parent /\ h.rules = stack[1].rules /\ g.parent # 0
    BY <1>1, <1>2, <1>4, <1>6, <1>8, <2>1, <2>2
  <2>4. /\ StackOK(t) /\ ~Single(t)
        /\ ~Single(stack) => OuterOf(t) = OuterOf(stack)
        /\ Single(stack) => OuterOf(t) = h
    BY <2>3, Pushed
  <2> QED  BY <2>1, <2>4 DEF Outer
<1>10. /\ IsSeq(errors') /\ (errors # <<>> => errors' # <<>>)
       /\ bad # <<>> => errors' # <<>>
  <2>1. PICK e : e = errors \o m.errors
    OBVIOUS
  <2>2. IsSeq(e) /\ (e = <<>> => errors = <<>>)
    BY <1>1, <1>4, <2>1, Concat
  <2>3. errors' = e \o bad
    BY <1>8, <2>1
  <2>4. IsSeq(e \o bad) /\ (e \o bad = <<>> => e = <<>> /\ bad = <<>>)
    BY <1>7, <2>2, Concat
  <2> QED  BY <2>2, <2>3, <2>4
<1>11. Plain(1) => OuterInv'
  <2> SUFFICES ASSUME Plain(1), errors = <<>>
               PROVE  OuterInv'
    BY <1>10 DEF OuterInv
  <2>1. OuterInv
    BY <1>1 DEF IInv
  <2>2. ~Single(stack')
    BY <1>9
  <2>3. CASE Single(stack)
    <3>1. Top = Outer
      BY <1>2, <2>3
    <3>2. Top.cur = 1 /\ Top.occ[1] = "1"
      BY <1>1, <2>1, <2>3, <3>1 DEF OuterInv
    <3>3. Len(Top.rules) = 1
      BY <1>2, <3>1
    <3>4. m.rule = 1
      <4>1. DOMAIN Top.rules = 1 .. Len(Top.rules)
        BY <1>2, FrameParts
      <4> QED  BY <1>4, <3>3, <4>1
    <3>5. h.occ[1] = "0" /\ h.cur = 1
      BY <1>4, <3>2, <3>3, <3>4 DEF h
    <3> QED  BY <1>9, <2>2, <2>3, <3>5 DEF OuterInv
  <2>4. CASE ~Single(stack)
    BY <1>9, <2>1, <2>2, <2>4 DEF OuterInv
  <2> QED  BY <1>2, <2>3, <2>4
<1> QED  BY <1>1, <1>8, <1>9, <1>10, <1>11 DEF IInv, FailureLeavesError, Plain, Tree

LEMMA LeaveHolds == IInv /\ Leave => IInv'
<1> SUFFICES ASSUME IInv, Leave
             PROVE  IInv'
  OBVIOUS
<1>1. /\ phase = "check" /\ scn \in Scenario /\ IsSeq(errors) /\ StackOK(stack)
      /\ res \in BOOLEAN /\ (~res => errors # <<>>)
      /\ UNCHANGED <<scn, modname, version>> /\ Top.cur = 0
      /\ errors' = errors \o MissingErrors(Top) /\ res' = (res /\ Missing(Top) = {})
  BY DEF IInv, Leave
<1>2. /\ Top = stack[1] /\ FrameOK(Top) /\ (Single(stack) => Top = Outer) /\ Len(Outer.rules) = 1
      /\ Top.parent = 0 <=> Single(stack)
  BY <1>1, StackParts DEF Top, Outer
<1>3. CASE Single(stack)
  <2>1. phase' = "done" /\ Top = Outer
    BY <1>2, <1>3 DEF Leave, Single
  <2>2. MissingErrors(Top) = <<>>
    BY <1>2, <1>3 DEF MissingErrors
  <2>3. IsSeq(MissingErrors(Top))
    BY <2>2, Short
  <2>4. errors # <<>> => errors' # <<>>
    BY <1>1, <2>3, Concat
  <2>5. Plain(1) /\ errors = <<>> => Missing(Top) = {}
    <3> SUFFICES ASSUME Plain(1), errors = <<>>
                 PROVE  Missing(Top) = {}
      OBVIOUS
    <3>1. OuterInv
      BY <1>1 DEF IInv
    <3>2. Top.occ[1] = "0"
      BY <1>1, <1>3, <2>1, <3>1 DEF OuterInv
    <3>3. DOMAIN Top.rules = 1 .. Len(Top.rules) /\ Len(Top.rules) = 1
      BY <1>2, <2>1, FrameParts
    <3>4. \A i \in DOMAIN Top.rules : i = 1
      BY <3>3
    <3> QED  BY <3>2, <3>4 DEF Missing, Mandatory
  <2>6. (~res' /\ Plain(1)) => errors' # <<>>
    BY <1>1, <2>4, <2>5
  <2> QED  BY <1>1, <2>1, <2>6 DEF IInv, FailureLeavesError, Plain, Tree
<1>4. CASE ~Single(stack)
  <2>1. phase' = "check" /\ stack' = <<Advance(stack[2])>> \o Tail(Tail(stack))
    BY <1>1, <1>4 DEF Leave, Single
  <2>2. IsSeq(MissingErrors(Top)) /\ (MissingErrors(Top) = <<>> => Missing(Top) = {})
    BY <1>2, <1>4, MissingErrorsOK
  <2>3. IsSeq(errors') /\ (errors' = <<>> => errors = <<>> /\ MissingErrors(Top) = <<>>)
    BY <1>1, <2>2, Concat
  <2>4. PICK s : s = Tail(stack)
    OBVIOUS
  <2>5. StackOK(s) /\ s[1] = stack[2] /\ OuterOf(s) = Outer
    BY <1>1, <1>4, <2>4, Returned DEF Outer
  <2> DEFINE g == Advance(stack[2])
  <2>6. FrameOK(stack[2]) /\ (Single(s) => Outer = stack[2])
    BY <2>5, StackParts
  <2>7. /\ FrameOK(g) /\ g.parent = stack[2].parent /\ g.rules = stack[2].rules
        /\ g.occ = stack[2].occ /\ (stack[2].cur = 1 => g.cur = 0)
    BY <1>1, <2>6, Advanced
  <2> HIDE DEF g
  <2>8. stack' = <<g>> \o Tail(s)
    BY <2>1, <2>4 DEF g
  <2>9. /\ StackOK(stack') /\ (Single(stack') <=> Single(s))
        /\ ~Single(s) => Outer' = Outer
        /\ Single(s) => Outer' = g /\ Outer = stack[2]
    <3>1. PICK t : t = stack'
      OBVIOUS
    <3>2. /\ StackOK(t) /\ (Single(t) <=> Single(s))
          /\ Single(s) => OuterOf(t) = g
          /\ ~Single(s) => OuterOf(t) = OuterOf(s)
      <4>1. /\ t = <<g>> \o Tail(s) /\ StackOK(s) /\ FrameOK(g)
            /\ g.parent = s[1].parent /\ g.rules = s[1].rules
        BY <2>5, <2>7, <2>8, <3>1
      <4> QED  BY <4>1, Replaced
    <3> QED  BY <3>1, <3>2, <2>5, <2>6 DEF Outer
  <2>10. Plain(1) => OuterInv'
    <3> SUFFICES ASSUME Plain(1), errors = <<>>
                 PROVE  OuterInv'
      BY <2>3 DEF OuterInv
    <3>1. OuterInv
      BY <1>1 DEF IInv
    <3>2. Outer.occ[1] = "0" /\ Outer.cur = 1
      BY <1>4, <3>1 DEF OuterInv
    <3>3. CASE Single(s)
      BY <2>5, <2>7, <2>9, <3>2, <3>3 DEF OuterInv
    <3>4. CASE ~Single(s)
      BY <2>5, <2>9, <3>2, <3>4 DEF OuterInv
    <3> QED  BY <3>3, <3>4
  <2> QED  BY <1>1, <2>1, <2>2, <2>3, <2>9, <2>10 DEF IInv, FailureLeavesError, Plain, Tree
<1> QED  BY <1>3, <1>4

LEMMA StepHolds == IInv /\ [Next]_vars => IInv'
<1>1. IInv /\ NotAModule => IInv'
  <2> SUFFICES ASSUME IInv, NotAModule
               PROVE  IInv'
    OBVIOUS
  <2>1. errors' # <<>>
    BY Short DEF NotAModule
  <2> QED  BY <2>1 DEF IInv, NotAModule, FailureLeavesError
<1>2. IInv /\ (Terminated \/ UNCHANGED vars) => IInv'
  BY DEF IInv, Terminated, vars, FailureLeavesError, OuterInv, Outer, Plain, Tree
<1> QED  BY <1>1, <1>2, ResolveHolds, SkipHolds, RejectHolds, EnterHolds, LeaveHolds DEF Next

(* A check of a module that fails leaves an error in the context, which is *)
(* all that parse looks at; whatever the grammars and the module are.      *)
THEOREM FailureNoticed == Spec => []FailureLeavesError
<1>1. IInv => FailureLeavesError
  BY DEF IInv
<1> QED  BY <1>1, InitHolds, StepHolds, PTL DEF Spec

-----------------------------------------------------------------------------
(* The statements around a statement.  Around is a recursive function over *)
(* the numbers of the statements, and that there is such a function is an  *)
(* induction on the length of the tree.                                    *)
LEMMA NumberInduction ==
  ASSUME NEW A, 0 \in A, \A n \in Nat : n \in A => n + 1 \in A
  PROVE  Nat \subseteq A
<1> SUFFICES ASSUME Nat \ A # {}
             PROVE  FALSE
  OBVIOUS
<1>1. PICK x \in Nat \ A : \A y \in Nat \ A : x <= y
  BY LeastNumber
<1>2. x # 0 /\ x - 1 \in Nat
  BY <1>1
<1>3. x - 1 \in A
  BY <1>1, <1>2
<1> QED  BY <1>2, <1>3

LEMMA ParentOf ==
  ASSUME scn \in Scenario, NEW n \in Nodes
  PROVE  /\ n \in Nat \ {0} /\ Tree[n].parent \in Nat
         /\ n = 1 => Tree[n].parent = 0
         /\ n # 1 => Tree[n].parent \in Nodes /\ Tree[n].parent < n
<1>1. Nodes = 1 .. Len(Tree) /\ Len(Tree) \in Nat /\ 1 \in Nodes
  BY TreeTyped
<1>2. n \in 2 .. Len(Tree) => Tree[n].parent \in 1 .. n - 1
  BY ScenarioAssumption DEF Tree
<1>3. Tree[1].parent = 0
  BY ScenarioAssumption DEF Tree
<1> QED  BY <1>1, <1>2, <1>3

LEMMA AroundOf ==
  ASSUME scn \in Scenario, NEW n \in Nodes
  PROVE  Around(n) = IF n = 1 THEN {} ELSE {Tree[n].parent} \cup Around(Tree[n].parent)
<1> DEFINE p(m) == Tree[m].parent
           len == Len(Tree)
           A == {k \in Nat : k <= len => \E f : f = [m \in 1 .. k |->
                   IF m = 1 THEN {} ELSE {p(m)} \cup f[p(m)]]}
<1>1. Nodes = 1 .. len /\ len \in Nat
  BY TreeTyped
<1>2. \A m \in 1 .. len : m # 1 => p(m) \in 1 .. m - 1
  BY <1>1, ParentOf
<1>3. 0 \in A
  <2> DEFINE f == [m \in 1 .. 0 |-> {}]
  <2>1. f = [m \in 1 .. 0 |-> IF m = 1 THEN {} ELSE {p(m)} \cup f[p(m)]]
    OBVIOUS
  <2> QED  BY <2>1
<1>4. ASSUME NEW k \in Nat, k \in A PROVE k + 1 \in A
  <2> SUFFICES ASSUME k + 1 <= len
               PROVE  \E f : f = [m \in 1 .. k + 1 |->
                                    IF m = 1 THEN {} ELSE {p(m)} \cup f[p(m)]]
    OBVIOUS
  <2> HIDE DEF p
  <2>1. PICK f : f = [m \in 1 .. k |-> IF m = 1 THEN {} ELSE {p(m)} \cup f[p(m)]]
    BY <1>1, <1>4
  <2> DEFINE g == [m \in 1 .. k + 1 |-> IF m = 1 THEN {} ELSE {p(m)} \cup f[p(m)]]
  <2> HIDE DEF len
  <2>2. \A m \in 1 .. k : g[m] = f[m]
    <3>1. \A m \in 1 .. k : f[m] = IF m = 1 THEN {} ELSE {p(m)} \cup f[p(m)]
      BY <2>1
    <3>2. \A m \in 1 .. k : m \in 1 .. k + 1
      OBVIOUS
    <3> QED  BY <3>1, <3>2
  <2>3. ASSUME NEW m \in 1 .. k + 1, m # 1 PROVE p(m) \in 1 .. k
    <3>1. m \in 1 .. len /\ m - 1 \in 1 .. k
      BY <1>1, <2>3
    <3>2. p(m) \in 1 .. m - 1
      BY <1>2, <2>3, <3>1
    <3> QED  BY <3>1, <3>2
  <2>4. g = [m \in 1 .. k + 1 |-> IF m = 1 THEN {} ELSE {p(m)} \cup g[p(m)]]
    BY <2>2, <2>3
  <2> QED  BY <2>4
<1>5. len \in A
  <2> HIDE DEF A
  <2> QED  BY <1>1, <1>3, <1>4, NumberInduction
<1>6. \E f : f = [m \in Nodes |-> IF m = 1 THEN {} ELSE {p(m)} \cup f[p(m)]]
  BY <1>1, <1>5
<1> DEFINE a == CHOOSE f : f = [m \in Nodes |-> IF m = 1 THEN {} ELSE {p(m)} \cup f[p(m)]]
<1>7. a = [m \in Nodes |-> IF m = 1 THEN {} ELSE {p(m)} \cup a[p(m)]]
  BY <1>6
<1>8. \A m : Around(m) = a[m]
  BY DEF Around
<1> HIDE DEF a
<1>9. a[n] = IF n = 1 THEN {} ELSE {p(n)} \cup a[p(n)]
  BY <1>7
<1> QED  BY <1>8, <1>9

(* They come before it, and with a statement those around that one.        *)
LEMMA AroundBefore ==
  ASSUME scn \in Scenario
  PROVE  \A n \in Nodes :
           /\ \A m \in Around(n) : m \in Nodes /\ m < n
           /\ \A m \in Nodes : m # 1 /\ m \in Around(n) => Tree[m].parent \in Around(n)
<1> DEFINE Good(n) == /\ \A m \in Around(n) : m \in Nodes /\ m < n
                      /\ \A m \in Nodes : m # 1 /\ m \in Around(n) => Tree[m].parent \in Around(n)
           A == {k \in Nat : \A n \in Nodes : n <= k => Good(n)}
<1>1. 0 \in A
  BY ParentOf
<1>2. ASSUME NEW k \in Nat, k \in A PROVE k + 1 \in A
  <2> SUFFICES ASSUME NEW n \in Nodes, n <= k + 1
               PROVE  Good(n)
    OBVIOUS
  <2>1. CASE n = 1
    BY <2>1, AroundOf
  <2>2. CASE n # 1
    <3>1. /\ Tree[n].parent \in Nodes /\ Tree[n].parent < n
          /\ n \in Nat /\ Tree[n].parent \in Nat
      BY <2>2, ParentOf
    <3> DEFINE p == Tree[n].parent
    <3>2. Good(p)
      BY <1>2, <3>1
    <3>3. Around(n) = {p} \cup Around(p)
      BY <2>2, AroundOf
    <3>4. \A m \in Nodes : m \in Nat
      BY ParentOf
    <3>5. ASSUME NEW m \in Around(n) PROVE m \in Nodes /\ m < n
      <4>1. m = p \/ (m \in Around(p) /\ m \in Nodes /\ m < p /\ m \in Nat)
        BY <3>2, <3>3, <3>4, <3>5
      <4> HIDE DEF p
      <4> QED  BY <3>1, <4>1 DEF p
    <3>6. ASSUME NEW m \in Nodes, m # 1, m \in Around(n) PROVE Tree[m].parent \in Around(n)
      <4>1. CASE m = p
        BY <3>3, <3>6, <4>1, AroundOf
      <4>2. CASE m \in Around(p)
        BY <3>2, <3>3, <3>6, <4>2
      <4> QED  BY <3>3, <3>6, <4>1, <4>2
    <3> QED  BY <3>5, <3>6
  <2> QED  BY <2>1, <2>2
<1>3. ASSUME NEW n \in Nodes PROVE Good(n)
  <2>1. n \in A
    <3> HIDE DEF A
    <3> QED  BY <1>1, <1>2, NumberInduction, ParentOf
  <2>2. n <= n
    BY ParentOf
  <2> QED  BY <2>1, <2>2
<1> QED  BY <1>3

-----------------------------------------------------------------------------
(* The calls of chk_statements on a stack s: each but the innermost one is *)
(* at the statement that the next works for, and around that are those the *)
(* outer calls work for.  ToCome: what these calls have still to look at.  *)
OpenFrom(s, i) == {s[j].parent : j \in i .. Len(s)} \ {0}
PathOK(s) ==
  \A i \in 1 .. Len(s) :
    /\ s[i].cur # 0 => s[i].cur \in Nodes /\ Tree[s[i].cur].parent = s[i].parent
    /\ i > 1 => s[i].cur = s[i - 1].parent
    /\ s[i].parent # 0 => s[i].parent \in Nodes /\ Around(s[i].parent) = OpenFrom(s, i + 1)
ToCome(s) ==
  {m \in Nodes : \E i \in 1 .. Len(s) :
     /\ Tree[m].parent = s[i].parent /\ s[i].cur # 0 /\ m >= s[i].cur
     /\ i > 1 => m > s[i].cur}

LEMMA NextSibling ==
  ASSUME scn \in Scenario, NEW c \in Nodes, NextOf(c) # 0
  PROVE  NextOf(c) \in Nodes /\ NextOf(c) > c /\ Tree[NextOf(c)].parent = Tree[c].parent
<1> DEFINE S == {m \in Nodes : m > c /\ Tree[m].parent = Tree[c].parent}
<1>1. S \in SUBSET (Nat \ {0})
  BY ParentOf
<1>2. First(S) # 0 => First(S) \in S
  <2> HIDE DEF S
  <2> QED  BY <1>1, FirstOf
<1> QED  BY <1>2 DEF NextOf

LEMMA FirstInside ==
  ASSUME scn \in Scenario, NEW c, First(Sub(c)) # 0
  PROVE  First(Sub(c)) \in Sub(c)
<1>1. Sub(c) \in SUBSET (Nat \ {0})
  BY ParentOf DEF Sub
<1> QED  BY <1>1, FirstOf

(* Around what the innermost call has come to is what is open.             *)
LEMMA OpenAround ==
  ASSUME scn \in Scenario, NEW s, StackOK(s), PathOK(s)
  PROVE  /\ s[1].parent # 0 => Around(s[1].parent) \cup {s[1].parent} = OpenFrom(s, 1)
         /\ s[1].parent = 0 => OpenFrom(s, 1) = {}
         /\ s[1].cur # 0 => Around(s[1].cur) = OpenFrom(s, 1) /\ s[1].cur \in ToCome(s)
         /\ OpenFrom(s, 1) \subseteq Nodes
<1>1. Len(s) \in Nat \ {0} /\ (s[1].parent = 0 <=> Len(s) = 1)
  BY StackParts DEF Single
<1>2. 1 \in 1 .. Len(s) /\ 1 .. Len(s) = {1} \cup (2 .. Len(s))
  BY <1>1
<1>3. OpenFrom(s, 1) = ({s[1].parent} \cup OpenFrom(s, 1 + 1)) \ {0}
  BY <1>2 DEF OpenFrom
<1>4. s[1].parent # 0 => Around(s[1].parent) \cup {s[1].parent} = OpenFrom(s, 1)
  <2> SUFFICES ASSUME s[1].parent # 0
               PROVE  Around(s[1].parent) \cup {s[1].parent} = OpenFrom(s, 1)
    OBVIOUS
  <2>1. Around(s[1].parent) = OpenFrom(s, 1 + 1)
    BY <1>2 DEF PathOK
  <2>2. 0 \notin OpenFrom(s, 1 + 1)
    BY DEF OpenFrom
  <2> QED  BY <1>3, <2>1, <2>2
<1>5. s[1].parent = 0 => OpenFrom(s, 1) = {}
  <2> SUFFICES ASSUME s[1].parent = 0
               PROVE  OpenFrom(s, 1) = {}
    OBVIOUS
  <2>1. Len(s) = 1 /\ \A j \in 1 .. 1 : j = 1
    BY <1>1
  <2> QED  BY <2>1 DEF OpenFrom
<1>6. ASSUME s[1].cur # 0
      PROVE  Around(s[1].cur) = OpenFrom(s, 1) /\ s[1].cur \in ToCome(s)
  <2>1. s[1].cur \in Nodes /\ Tree[s[1].cur].parent = s[1].parent
    BY <1>2, <1>6 DEF PathOK
  <2>2. s[1].cur \in ToCome(s)
    BY <1>2, <1>6, <2>1, ParentOf DEF ToCome
  <2>3. s[1].cur = 1 <=> s[1].parent = 0
    BY <2>1, ParentOf, TreeTyped
  <2>4. Around(s[1].cur) = OpenFrom(s, 1)
    BY <1>4, <1>5, <2>1, <2>3, AroundOf
  <2> QED  BY <2>2, <2>4
<1>7. OpenFrom(s, 1) \subseteq Nodes
  BY DEF OpenFrom, PathOK
<1> QED  BY <1>4, <1>5, <1>6, <1>7

LEMMA ParentsDiffer ==
  ASSUME scn \in Scenario, NEW s, StackOK(s), PathOK(s), NEW i \in 2 .. Len(s)
  PROVE  s[i].parent # s[1].parent
<1>1. /\ Len(s) \in Nat \ {0} /\ s[1].parent # 0
      /\ 1 \in 1 .. Len(s) /\ i \in 1 + 1 .. Len(s)
  <2>1. Len(s) \in Nat \ {0} /\ (s[1].parent = 0 <=> Len(s) = 1)
    BY StackParts DEF Single
  <2>2. \A n \in Nat \ {0} : i \in 2 .. n => n # 1 /\ 1 \in 1 .. n /\ i \in 1 + 1 .. n
    OBVIOUS
  <2>3. Len(s) # 1 /\ 1 \in 1 .. Len(s) /\ i \in 1 + 1 .. Len(s)
    BY <2>1, <2>2
  <2> QED  BY <2>1, <2>3
<1>2. CASE s[i].parent = 0
  BY <1>1, <1>2
<1>3. CASE s[i].parent # 0
  <2>1. s[i].parent \in OpenFrom(s, 1 + 1)
    BY <1>3 DEF OpenFrom
  <2>2. s[1].parent \in Nodes /\ Around(s[1].parent) = OpenFrom(s, 1 + 1)
    BY <1>1 DEF PathOK
  <2>3. s[i].parent < s[1].parent /\ s[i].parent \in Nodes
    BY <2>1, <2>2, AroundBefore
  <2>4. s[i].parent \in Nat /\ s[1].parent \in Nat
    BY <2>2, <2>3, ParentOf
  <2>5. \A a, b \in Nat : a < b => a # b
    OBVIOUS
  <2> QED  BY <2>3, <2>4, <2>5
<1> QED  BY <1>2, <1>3

LEMMA MovedOn ==
  ASSUME scn \in Scenario, NEW s, StackOK(s), PathOK(s), s[1].cur # 0,
         NEW g, g.parent = s[1].parent, g.cur = NextOf(s[1].cur),
         NEW t, t = <<g>> \o Tail(s)
  PROVE  PathOK(t) /\ OpenFrom(t, 1) = OpenFrom(s, 1) /\ ToCome(t) \subseteq ToCome(s) \ {s[1].cur}
<1>1. PICK T : s \in Seq(T)
  BY DEF StackOK, IsSeq
<1> DEFINE U == T \cup {g}
<1>2. s \in Seq(U) /\ g \in U
  BY <1>1
<1> HIDE DEF U
<1>3. s # <<>>
  BY DEF StackOK
<1>4. Len(t) = Len(s) /\ t[1] = g /\ \A i \in 2 .. Len(s) : t[i] = s[i]
  BY <1>2, <1>3
<1>5. Len(s) \in Nat \ {0} /\ 1 \in 1 .. Len(s)
  BY StackParts
<1>6. \A i \in 1 .. Len(s) : t[i].parent = s[i].parent /\ (i # 1 => t[i].cur = s[i].cur)
  <2> SUFFICES ASSUME NEW i \in 1 .. Len(s)
               PROVE  t[i].parent = s[i].parent /\ (i # 1 => t[i].cur = s[i].cur)
    OBVIOUS
  <2>1. i = 1 \/ i \in 2 .. Len(s)
    BY <1>5
  <2> QED  BY <1>4, <2>1
<1>7. ASSUME NEW i \in Nat \ {0} PROVE OpenFrom(t, i) = OpenFrom(s, i)
  <2>1. \A j \in i .. Len(s) : j \in 1 .. Len(s)
    BY <1>5
  <2> QED  BY <1>4, <1>6, <2>1 DEF OpenFrom
<1>8. s[1].cur \in Nodes /\ Tree[s[1].cur].parent = s[1].parent
  BY <1>5 DEF PathOK
<1>9. PathOK(t)
  <2> SUFFICES ASSUME NEW i \in 1 .. Len(s)
               PROVE  /\ t[i].cur # 0 => t[i].cur \in Nodes /\ Tree[t[i].cur].parent = t[i].parent
                      /\ i > 1 => t[i].cur = t[i - 1].parent
                      /\ t[i].parent # 0 => /\ t[i].parent \in Nodes
                                            /\ Around(t[i].parent) = OpenFrom(t, i + 1)
    BY <1>4 DEF PathOK
  <2>1. t[i].parent # 0 => t[i].parent \in Nodes /\ Around(t[i].parent) = OpenFrom(t, i + 1)
    BY <1>5, <1>6, <1>7 DEF PathOK
  <2>2. CASE i = 1
    BY <1>4, <1>8, <2>1, <2>2, NextSibling
  <2>3. CASE i # 1
    <3>1. i - 1 \in 1 .. Len(s)
      BY <1>5, <2>3
    <3> QED  BY <1>6, <2>1, <2>3, <3>1 DEF PathOK
  <2> QED  BY <2>2, <2>3
<1>10. ASSUME NEW m \in ToCome(t) PROVE m \in ToCome(s) /\ m # s[1].cur
  <2>1. m \in Nodes /\ m \in Nat
    BY ParentOf DEF ToCome
  <2>2. PICK i \in 1 .. Len(s) : /\ Tree[m].parent = t[i].parent /\ t[i].cur # 0
                                 /\ m >= t[i].cur /\ (i > 1 => m > t[i].cur)
    BY <1>4 DEF ToCome
  <2>3. CASE i = 1
    <3>1. NextOf(s[1].cur) \in Nodes /\ NextOf(s[1].cur) > s[1].cur /\ m >= NextOf(s[1].cur)
      BY <1>4, <1>8, <2>2, <2>3, NextSibling
    <3>2. s[1].cur \in Nat /\ NextOf(s[1].cur) \in Nat
      BY <1>8, <3>1, ParentOf
    <3>3. m > s[1].cur
      BY <2>1, <3>1, <3>2
    <3> QED  BY <1>5, <1>6, <2>1, <2>2, <2>3, <3>2, <3>3 DEF ToCome
  <2>4. CASE i # 1
    <3>1. i \in 2 .. Len(s) /\ i > 1
      BY <1>5, <2>4
    <3>2. s[i].parent # s[1].parent
      BY <3>1, ParentsDiffer
    <3> QED  BY <1>6, <1>8, <2>1, <2>2, <3>1, <3>2 DEF ToCome
  <2> QED  BY <2>3, <2>4
<1>11. OpenFrom(t, 1) = OpenFrom(s, 1)
  BY <1>7
<1> QED  BY <1>9, <1>10, <1>11

LEMMA WentIn ==
  ASSUME scn \in Scenario, NEW s, StackOK(s), PathOK(s), s[1].cur # 0,
         NEW h, h.parent = s[1].parent, h.cur = s[1].cur,
         NEW g, g.parent = s[1].cur, g.cur = First(Sub(s[1].cur)),
         NEW t, t = <<g, h>> \o Tail(s)
  PROVE  /\ PathOK(t) /\ OpenFrom(t, 1) = OpenFrom(s, 1) \cup {s[1].cur}
         /\ ToCome(t) \subseteq (ToCome(s) \ {s[1].cur}) \cup Sub(s[1].cur)
<1> PICK c : c = s[1].cur
  OBVIOUS
<1>1. PICK T : s \in Seq(T)
  BY DEF StackOK, IsSeq
<1> DEFINE U == T \cup {g, h}
<1>2. s \in Seq(U) /\ g \in U /\ h \in U
  BY <1>1
<1> HIDE DEF U
<1>3. s # <<>>
  BY DEF StackOK
<1>4. /\ Len(t) = Len(s) + 1 /\ t[1] = g /\ t[2] = h
      /\ \A i \in 3 .. Len(s) + 1 : t[i] = s[i - 1]
  BY <1>2, <1>3
<1>5. Len(s) \in Nat \ {0} /\ 1 \in 1 .. Len(s)
  BY StackParts
<1>6. \A i \in 2 .. Len(s) + 1 :
        i - 1 \in 1 .. Len(s) /\ t[i].parent = s[i - 1].parent /\ t[i].cur = s[i - 1].cur
  <2> SUFFICES ASSUME NEW i \in 2 .. Len(s) + 1
               PROVE  i - 1 \in 1 .. Len(s) /\ t[i].parent = s[i - 1].parent /\ t[i].cur = s[i - 1].cur
    OBVIOUS
  <2>1. i = 2 \/ i \in 3 .. Len(s) + 1
    BY <1>5
  <2> QED  BY <1>4, <1>5, <2>1
<1>7. ASSUME NEW i \in Nat \ {0} PROVE OpenFrom(t, i + 1) = OpenFrom(s, i)
  <2>1. \A j \in i + 1 .. Len(s) + 1 : j \in 2 .. Len(s) + 1 /\ j - 1 \in i .. Len(s)
    BY <1>5
  <2>2. \A j \in i .. Len(s) : j + 1 \in i + 1 .. Len(s) + 1 /\ (j + 1) - 1 = j
    BY <1>5
  <2>3. {t[j].parent : j \in i + 1 .. Len(s) + 1} = {s[j].parent : j \in i .. Len(s)}
    <3>1. \A j \in i + 1 .. Len(s) + 1 : t[j].parent \in {s[k].parent : k \in i .. Len(s)}
      BY <1>6, <2>1
    <3>2. \A j \in i .. Len(s) : s[j].parent \in {t[k].parent : k \in i + 1 .. Len(s) + 1}
      <4>1. \A j \in i .. Len(s) : s[j].parent = t[j + 1].parent /\ j + 1 \in i + 1 .. Len(s) + 1
        BY <1>6, <2>1, <2>2
      <4> QED  BY <4>1
    <3> QED  BY <3>1, <3>2
  <2> QED  BY <1>4, <2>3 DEF OpenFrom
<1>8. c \in Nodes /\ Tree[c].parent = s[1].parent /\ Around(c) = OpenFrom(s, 1)
  BY <1>5, OpenAround DEF PathOK
<1>9. PathOK(t)
  <2> SUFFICES ASSUME NEW i \in 1 .. Len(s) + 1
               PROVE  /\ t[i].cur # 0 => t[i].cur \in Nodes /\ Tree[t[i].cur].parent = t[i].parent
                      /\ i > 1 => t[i].cur = t[i - 1].parent
                      /\ t[i].parent # 0 => /\ t[i].parent \in Nodes
                                            /\ Around(t[i].parent) = OpenFrom(t, i + 1)
    BY <1>4 DEF PathOK
  <2>1. CASE i = 1
    <3>1. OpenFrom(t, 1 + 1) = OpenFrom(s, 1)
      <4>1. 1 \in Nat \ {0}
        OBVIOUS
      <4> QED  BY <1>7, <4>1
    <3>2. First(Sub(c)) # 0 => First(Sub(c)) \in Nodes /\ Tree[First(Sub(c))].parent = c
      BY FirstInside DEF Sub
    <3> QED  BY <1>4, <1>8, <2>1, <3>1, <3>2
  <2>2. CASE i # 1
    <3>1. i \in 2 .. Len(s) + 1 /\ i - 1 \in Nat \ {0} /\ (i - 1) + 1 = i
      BY <1>5, <2>2
    <3>2. /\ i - 1 \in 1 .. Len(s) /\ t[i].parent = s[i - 1].parent /\ t[i].cur = s[i - 1].cur
          /\ OpenFrom(t, i + 1) = OpenFrom(s, (i - 1) + 1)
      <4>1. OpenFrom(t, i + 1) = OpenFrom(s, i)
        <5>1. i \in Nat \ {0}
          BY <3>1
        <5> QED  BY <1>7, <5>1
      <4> QED  BY <1>6, <3>1, <4>1
    <3>3. t[i].cur = t[i - 1].parent
      <4>1. CASE i = 2
        BY <1>4, <4>1
      <4>2. CASE i # 2
        <5>1. i - 1 \in 2 .. Len(s) + 1 /\ i - 1 > 1
          BY <1>5, <3>1, <4>2
        <5> QED  BY <1>6, <3>2, <5>1 DEF PathOK
      <4> QED  BY <4>1, <4>2
    <3> QED  BY <3>2, <3>3 DEF PathOK
  <2> QED  BY <2>1, <2>2
<1>10. OpenFrom(t, 1) = OpenFrom(s, 1) \cup {c}
  <2>1. 1 .. Len(t) = {1} \cup (2 .. Len(t))
    BY <1>4, <1>5
  <2>2. OpenFrom(t, 1 + 1) = OpenFrom(s, 1)
    <3>1. 1 \in Nat \ {0}
      OBVIOUS
    <3> QED  BY <1>7, <3>1
  <2>3. OpenFrom(t, 1) = ({t[1].parent} \cup OpenFrom(t, 1 + 1)) \ {0}
    BY <2>1 DEF OpenFrom
  <2>4. 0 \notin OpenFrom(s, 1)
    BY DEF OpenFrom
  <2> QED  BY <1>4, <2>2, <2>3, <2>4
<1>11. ASSUME NEW m \in ToCome(t) PROVE m \in (ToCome(s) \ {c}) \cup Sub(c)
  <2>1. m \in Nodes /\ m \in Nat
    BY ParentOf DEF ToCome
  <2>2. PICK i \in 1 .. Len(s) + 1 : /\ Tree[m].parent = t[i].parent /\ t[i].cur # 0
                                     /\ m >= t[i].cur /\ (i > 1 => m > t[i].cur)
    BY <1>4 DEF ToCome
  <2>3. CASE i = 1
    BY <1>4, <2>1, <2>2, <2>3 DEF Sub
  <2>4. CASE i # 1
    <3>1. i \in 2 .. Len(s) + 1 /\ i > 1
      BY <1>5, <2>4
    <3>2. /\ i - 1 \in 1 .. Len(s) /\ t[i].parent = s[i - 1].parent /\ t[i].cur = s[i - 1].cur
      BY <1>6, <3>1
    <3>3. m > s[i - 1].cur /\ s[i - 1].cur # 0 /\ Tree[m].parent = s[i - 1].parent
      BY <2>2, <3>1, <3>2
    <3>4. s[i - 1].cur \in Nat
      BY <3>2, <3>3, ParentOf DEF PathOK
    <3>5. m \in ToCome(s)
      BY <2>1, <3>2, <3>3, <3>4 DEF ToCome
    <3>6. m # c
      <4>1. CASE i = 2
        BY <3>3, <3>4, <2>1, <4>1
      <4>2. CASE i # 2
        <5>1. i - 1 \in 2 .. Len(s)
          BY <1>5, <3>1, <4>2
        <5>2. s[i - 1].parent # s[1].parent
          BY <5>1, ParentsDiffer
        <5> QED  BY <1>8, <3>3, <5>2
      <4> QED  BY <4>1, <4>2
    <3> QED  BY <3>5, <3>6
  <2> QED  BY <2>3, <2>4
<1> QED  BY <1>9, <1>10, <1>11

LEMMA CameBack ==
  ASSUME scn \in Scenario, NEW s, StackOK(s), PathOK(s), ~Single(s), NEW t, t = Tail(s)
  PROVE  /\ PathOK(t) /\ OpenFrom(t, 1) \subseteq OpenFrom(s, 1)
         /\ ToCome(t) \subseteq ToCome(s) \cup {s[2].cur}
         /\ s[2].cur = s[1].parent /\ s[1].parent # 0 /\ t[1] = s[2]
<1>1. PICK T : s \in Seq(T)
  BY DEF StackOK, IsSeq
<1>2. Len(s) \in Nat /\ Len(s) > 1
  <2>1. Len(s) \in Nat \ {0}
    BY StackParts
  <2> QED  BY <2>1, OneOrMore DEF Single
<1>3. Len(t) = Len(s) - 1 /\ \A i \in 1 .. Len(s) - 1 : t[i] = s[i + 1]
  BY <1>1, <1>2
<1>4. ASSUME NEW i \in Nat \ {0} PROVE OpenFrom(t, i) = OpenFrom(s, i + 1)
  <2>1. \A j \in i .. Len(s) - 1 : j \in 1 .. Len(s) - 1 /\ j + 1 \in i + 1 .. Len(s)
    BY <1>2
  <2>2. \A j \in i + 1 .. Len(s) : j - 1 \in i .. Len(s) - 1 /\ (j - 1) + 1 = j
    BY <1>2
  <2>3. {t[j].parent : j \in i .. Len(s) - 1} = {s[j].parent : j \in i + 1 .. Len(s)}
    <3>1. \A j \in i .. Len(s) - 1 : t[j].parent \in {s[k].parent : k \in i + 1 .. Len(s)}
      BY <1>3, <2>1
    <3>2. \A j \in i + 1 .. Len(s) : s[j].parent = t[j - 1].parent /\ j - 1 \in i .. Len(s) - 1
      BY <1>3, <2>1, <2>2
    <3> QED  BY <3>1, <3>2
  <2> QED  BY <1>3, <2>3 DEF OpenFrom
<1>5. PathOK(t)
  <2> SUFFICES ASSUME NEW i \in 1 .. Len(s) - 1
               PROVE  /\ t[i].cur # 0 => t[i].cur \in Nodes /\ Tree[t[i].cur].parent = t[i].parent
                      /\ i > 1 => t[i].cur = t[i - 1].parent
                      /\ t[i].parent # 0 => /\ t[i].parent \in Nodes
                                            /\ Around(t[i].parent) = OpenFrom(t, i + 1)
    BY <1>3 DEF PathOK
  <2>1. /\ i + 1 \in 1 .. Len(s) /\ t[i] = s[i + 1] /\ i + 1 \in Nat \ {0} /\ i + 1 > 1
        /\ i > 1 => i - 1 \in 1 .. Len(s) - 1 /\ (i - 1) + 1 = i /\ (i + 1) - 1 = i
    BY <1>2, <1>3
  <2>2. OpenFrom(t, i + 1) = OpenFrom(s, (i + 1) + 1)
    BY <1>4, <2>1
  <2>3. i > 1 => t[i - 1] = s[i]
    BY <1>3, <2>1
  <2> QED  BY <2>1, <2>2, <2>3 DEF PathOK
<1>6. OpenFrom(t, 1) \subseteq OpenFrom(s, 1)
  <2>1. OpenFrom(t, 1) = OpenFrom(s, 1 + 1)
    BY <1>4
  <2> QED  BY <1>2, <2>1 DEF OpenFrom
<1>7. ASSUME NEW m \in ToCome(t) PROVE m \in ToCome(s) \cup {s[2].cur}
  <2>1. m \in Nodes /\ m \in Nat
    BY ParentOf DEF ToCome
  <2>2. PICK i \in 1 .. Len(s) - 1 : /\ Tree[m].parent = t[i].parent /\ t[i].cur # 0
                                     /\ m >= t[i].cur /\ (i > 1 => m > t[i].cur)
    BY <1>3 DEF ToCome
  <2>3. i + 1 \in 1 .. Len(s) /\ t[i] = s[i + 1] /\ i + 1 > 1 /\ (i = 1 => i + 1 = 2) /\ (i # 1 => i > 1)
    BY <1>2, <1>3
  <2>4. s[i + 1].cur \in Nat
    BY <2>2, <2>3, ParentOf DEF PathOK
  <2>5. CASE m = t[i].cur /\ i = 1
    BY <2>3, <2>5
  <2>6. CASE m > t[i].cur
    BY <2>1, <2>2, <2>3, <2>4, <2>6 DEF ToCome
  <2> QED  BY <2>1, <2>2, <2>3, <2>4, <2>5, <2>6
<1>8. s[2].cur = s[1].parent
  BY <1>2 DEF PathOK
<1>9. s[1].parent # 0
  BY <1>2, StackParts
<1> QED  BY <1>2, <1>3, <1>5, <1>6, <1>7, <1>8, <1>9

-----------------------------------------------------------------------------
(* The errors, whatever their order.                                       *)
Errs(s) == {s[k] : k \in DOMAIN s}
Prefixes == {"UNDEFINED_PREFIX", "DUPLICATE_PREFIX"}
Refusing == {"EXPECTED", "UNEXPECTED", "ALREADY_FOUND"}
Refused(E) == {e.at : e \in {x \in E : x.code \in Refusing}}
Clean(E, p) == Known(p) /\ p \notin Refused(E)
Below(E) == \A e \in E : e.code \notin Prefixes => \A p \in Around(e.at) : Clean(E, p)

LEMMA ErrsConcat ==
  ASSUME NEW s, NEW t, IsSeq(s), IsSeq(t)
  PROVE  Errs(s \o t) = Errs(s) \cup Errs(t)
<1>1. PICK S : s \in Seq(S)
  BY DEF IsSeq
<1>2. PICK T : t \in Seq(T)
  BY DEF IsSeq
<1> DEFINE U == S \cup T
           u == s \o t
<1>3. s \in Seq(U) /\ t \in Seq(U)
  BY <1>1, <1>2
<1> HIDE DEF U
<1>4. /\ Len(s) \in Nat /\ Len(t) \in Nat /\ DOMAIN s = 1 .. Len(s) /\ DOMAIN t = 1 .. Len(t)
      /\ DOMAIN u = 1 .. Len(s) + Len(t)
      /\ \A k \in 1 .. Len(s) + Len(t) : u[k] = IF k <= Len(s) THEN s[k] ELSE t[k - Len(s)]
  BY <1>3
<1> HIDE DEF u
<1>5. ASSUME NEW k \in DOMAIN u PROVE u[k] \in Errs(s) \cup Errs(t)
  <2>1. CASE k <= Len(s)
    BY <1>4, <2>1 DEF Errs
  <2>2. CASE ~(k <= Len(s))
    <3>1. k - Len(s) \in 1 .. Len(t)
      BY <1>4, <2>2
    <3> QED  BY <1>4, <2>2, <3>1 DEF Errs
  <2> QED  BY <2>1, <2>2
<1>6. ASSUME NEW k \in DOMAIN s PROVE s[k] \in Errs(u)
  <2>1. k \in 1 .. Len(s) + Len(t) /\ k <= Len(s)
    BY <1>4
  <2> QED  BY <1>4, <2>1 DEF Errs
<1>7. ASSUME NEW k \in DOMAIN t PROVE t[k] \in Errs(u)
  <2>1. /\ k + Len(s) \in 1 .. Len(s) + Len(t) /\ ~(k + Len(s) <= Len(s))
        /\ (k + Len(s)) - Len(s) = k
    BY <1>4
  <2> QED  BY <1>4, <2>1 DEF Errs
<1>8. Errs(u) = Errs(s) \cup Errs(t)
  BY <1>5, <1>6, <1>7 DEF Errs
<1> QED  BY <1>8 DEF u

LEMMA ErrsShort ==
  ASSUME NEW a, NEW b
  PROVE  /\ Errs(<<>>) = {} /\ Errs(<<a>>) = {a}
         /\ Errs(Append(<<>>, b)) = {b} /\ Errs(Append(<<a>>, b)) = {a, b}
<1>1. <<>> \in Seq({b}) /\ <<a>> \in Seq({a, b}) /\ <<b>> \in Seq({b})
  OBVIOUS
<1>2. Append(<<>>, b) = <<>> \o <<b>> /\ Append(<<a>>, b) = <<a>> \o <<b>>
  BY <1>1
<1>3. \A x : Errs(<<x>>) = {x}
  BY DEF Errs
<1>4. Errs(<<>>) = {}
  BY DEF Errs
<1>5. Errs(<<>> \o <<b>>) = {b} /\ Errs(<<a>> \o <<b>>) = {a, b}
  <2>1. IsSeq(<<>>) /\ IsSeq(<<a>>) /\ IsSeq(<<b>>)
    BY Short
  <2> QED  BY <1>3, <1>4, <2>1, ErrsConcat
<1> QED  BY <1>2, <1>3, <1>4, <1>5

LEMMA RejectedAre == Rejected = Refused(Errs(errors)) /\ (NothingBelowSkipped <=> Below(Errs(errors)))
<1>1. Rejected = Refused(Errs(errors))
  BY DEF Rejected, Refused, Refusing, Errs
<1> QED  BY <1>1 DEF NothingBelowSkipped, Below, Clean, Errs, Prefixes

LEMMA MatchErrors ==
  ASSUME NEW f, FrameOK(f), NEW n, NEW m, m = MatchRule(f, n)
  PROVE  \A e \in Errs(m.errors) : e.at = n /\ (m.rule # 0 => e.code \notin Refusing)
<1> DEFINE hit == Hit(f, n)
           skipped == Skipped(f, n)
<1>1. m = AfterSkipping(f, n, hit, skipped)
  BY DEF MatchRule
<1>2. \A code, r : Error(code, n, r).at = n /\ Error(code, n, r).code = code
  BY DEF Error
<1>3. CASE skipped # 0
  <2>1. m.rule = 0 /\ m.errors = <<Error("EXPECTED", n, skipped)>>
    BY <1>1, <1>3 DEF AfterSkipping, Matched
  <2>2. Errs(m.errors) = {Error("EXPECTED", n, skipped)}
    BY <2>1, ErrsShort
  <2> QED  BY <1>2, <2>1, <2>2
<1>4. CASE skipped = 0 /\ hit = 0
  <2>1. m.rule = 0 /\ m.errors = <<Error("UNEXPECTED", n, 0)>>
    BY <1>1, <1>4 DEF AfterSkipping, Matched
  <2>2. Errs(m.errors) = {Error("UNEXPECTED", n, 0)}
    BY <2>1, ErrsShort
  <2> QED  BY <1>2, <2>1, <2>2
<1>5. CASE skipped = 0 /\ hit # 0
  <2> DEFINE g == LeaveBehind(f, n, Len(f.rules) + 1)
             old == TooOld(f.rules[hit], n)
  <2>1. m = TakeRule(g, n, hit, old)
    BY <1>1, <1>5 DEF AfterSkipping
  <2>2. FrameOK(g) /\ hit \in DOMAIN g.rules
    BY <1>5, LeaveBehindOK, HitOK
  <2>3. old = <<>> \/ old = <<Error("UNEXPECTED_IN_VERSION", n, 0)>>
    BY DEF TooOld
  <2>4. ASSUME NEW x
        PROVE  /\ Errs(old) \subseteq {Error("UNEXPECTED_IN_VERSION", n, 0)}
               /\ Errs(Append(old, x)) \subseteq {Error("UNEXPECTED_IN_VERSION", n, 0), x}
    <3> HIDE DEF old
    <3>1. CASE old = <<>>
      <4>1. Errs(old) = {} /\ Errs(Append(old, x)) = {x}
        BY <3>1, ErrsShort
      <4> QED  BY <4>1
    <3>2. CASE old = <<Error("UNEXPECTED_IN_VERSION", n, 0)>>
      <4> DEFINE a == Error("UNEXPECTED_IN_VERSION", n, 0)
      <4>1. old = <<a>>
        BY <3>2
      <4> HIDE DEF a
      <4>2. Errs(old) = {a} /\ Errs(Append(old, x)) = {a, x}
        BY <4>1, ErrsShort
      <4> QED  BY <4>2 DEF a
    <3> QED  BY <2>3, <3>1, <3>2
  <2> HIDE DEF g, old, hit
  <2>5. g.occ[hit] \in {"1", "?", "*", "+", "0", "-"}
    BY <2>2, FrameParts DEF Occ, Occurrence
  <2>6. \/ m.errors = old
        \/ m.rule = 0 /\ \E code : m.errors = Append(old, Error(code, n, 0))
    BY <2>1, <2>5 DEF TakeRule, Matched
  <2>7. CASE m.errors = old
    BY <1>2, <2>4, <2>7 DEF Refusing
  <2>8. ASSUME m.rule = 0, NEW code, m.errors = Append(old, Error(code, n, 0))
        PROVE  \A e \in Errs(m.errors) : e.at = n
    <3>1. Errs(m.errors) \subseteq {Error("UNEXPECTED_IN_VERSION", n, 0), Error(code, n, 0)}
      BY <2>4, <2>8
    <3> QED  BY <1>2, <3>1
  <2> QED  BY <2>6, <2>7, <2>8
<1> QED  BY <1>3, <1>4, <1>5

LEMMA OtherErrors ==
  /\ \A spec, n : \A e \in Errs(ArgumentErrors(spec, n)) : e.at = n /\ e.code \notin Refusing
  /\ \A f : \A e \in Errs(MissingErrors(f)) : e.at = f.parent /\ e.code \notin Refusing
  /\ \A code, S : \A e \in Errs(ErrorsAt(code, S)) : e.code = code
<1>1. \A code, n, r : Error(code, n, r).at = n /\ Error(code, n, r).code = code
  BY DEF Error
<1>2. ASSUME NEW spec, NEW n, NEW e \in Errs(ArgumentErrors(spec, n))
      PROVE  e.at = n /\ e.code \notin Refusing
  <2> DEFINE s == ArgumentErrors(spec, n)
  <2>1. \/ s = <<>>
        \/ \E code \in {"BAD_ARGUMENT", "MISSING_ARGUMENT", "UNEXPECTED_ARGUMENT"} :
             s = <<Error(code, n, 0)>>
    BY DEF ArgumentErrors
  <2>2. e \in Errs(s)
    BY <1>2
  <2> HIDE DEF s
  <2>3. PICK code \in {"BAD_ARGUMENT", "MISSING_ARGUMENT", "UNEXPECTED_ARGUMENT"} :
          s = <<Error(code, n, 0)>>
    BY <2>1, <2>2, ErrsShort
  <2>4. e = Error(code, n, 0)
    BY <2>2, <2>3, ErrsShort
  <2> QED  BY <1>1, <2>4 DEF Refusing
<1>3. ASSUME NEW f, NEW e \in Errs(MissingErrors(f))
      PROVE  e.at = f.parent /\ e.code \notin Refusing
  <2>1. f.parent # 0
    BY <1>3, ErrsShort DEF MissingErrors
  <2>2. \E r : e = Error("EXPECTED_SUBSTATEMENT", f.parent, r)
    BY <1>3, <2>1 DEF MissingErrors, Errs
  <2> QED  BY <1>1, <2>2 DEF Refusing
<1>4. ASSUME NEW code, NEW S, NEW e \in Errs(ErrorsAt(code, S))
      PROVE  e.code = code
  BY <1>1, <1>4 DEF ErrorsAt, Errs
<1> QED  BY <1>2, <1>3, <1>4

LEMMA AdvanceParts ==
  ASSUME NEW f, FrameOK(f)
  PROVE  Advance(f).parent = f.parent /\ Advance(f).cur = NextOf(f.cur)
BY DEF Advance, FrameOK

-----------------------------------------------------------------------------
(* The statements the calls work for were neither of an unknown module nor *)
(* rejected, and nothing is noted yet at or in what is still to come.      *)
PathInv(E, s) ==
  /\ PathOK(s)
  /\ OpenFrom(s, 1) \cap ToCome(s) = {}
  /\ \A p \in OpenFrom(s, 1) : Clean(E, p)
  /\ \A e \in E : e.code \notin Prefixes =>
       e.at \in Nodes /\ (Around(e.at) \cup {e.at}) \cap ToCome(s) = {}

BelowInv ==
  /\ Below(Errs(errors))
  /\ phase = "check" => PathInv(Errs(errors), stack)

(* A step that adds the errors N and goes from the calls s to t.           *)
LEMMA BelowStep ==
  ASSUME scn \in Scenario, NEW E, NEW N, NEW s, NEW t, Below(E), PathInv(E, s),
         PathOK(t), OpenFrom(t, 1) \cap ToCome(t) = {},
         \A m \in ToCome(t) : m \in ToCome(s) \/ (m # 1 /\ Tree[m].parent \in ToCome(s)),
         \A p \in OpenFrom(t, 1) : p \in OpenFrom(s, 1) \/ (Known(p) /\ p \in ToCome(s)),
         Refused(N) \subseteq ToCome(s), Refused(N) \cap OpenFrom(t, 1) = {},
         \A e \in N : /\ e.at \in Nodes /\ Around(e.at) \subseteq OpenFrom(s, 1)
                      /\ (Around(e.at) \cup {e.at}) \cap ToCome(t) = {}
  PROVE  Below(E \cup N) /\ PathInv(E \cup N, t)
<1>1. Refused(E \cup N) = Refused(E) \cup Refused(N)
  BY DEF Refused
<1>2. Below(E \cup N)
  <2> SUFFICES ASSUME NEW e \in E \cup N, e.code \notin Prefixes, NEW p \in Around(e.at)
               PROVE  Clean(E \cup N, p)
    BY DEF Below
  <2>1. Clean(E, p) /\ p \notin ToCome(s)
    BY DEF Below, PathInv
  <2> QED  BY <1>1, <2>1 DEF Clean
<1>3. ASSUME NEW p \in OpenFrom(t, 1) PROVE Clean(E \cup N, p)
  <2>1. p \notin Refused(N)
    BY <1>3
  <2>2. CASE p \in OpenFrom(s, 1)
    BY <1>1, <2>1, <2>2 DEF PathInv, Clean
  <2>3. CASE Known(p) /\ p \in ToCome(s)
    <3>1. p \notin Refused(E)
      BY <2>3 DEF Refused, Refusing, Prefixes, PathInv
    <3> QED  BY <1>1, <2>1, <2>3, <3>1 DEF Clean
  <2> QED  BY <1>3, <2>2, <2>3
<1>4. ASSUME NEW e \in E \cup N, e.code \notin Prefixes
      PROVE  e.at \in Nodes /\ (Around(e.at) \cup {e.at}) \cap ToCome(t) = {}
  <2>1. CASE e \in N
    BY <2>1
  <2>2. CASE e \in E
    <3>1. e.at \in Nodes /\ (Around(e.at) \cup {e.at}) \cap ToCome(s) = {}
      BY <1>4, <2>2 DEF PathInv
    <3>2. ASSUME NEW m \in Around(e.at) \cup {e.at}, m \in ToCome(t) PROVE FALSE
      <4>1. m # 1 /\ Tree[m].parent \in ToCome(s)
        BY <3>1, <3>2
      <4>2. m \in Nodes
        BY <3>1, AroundBefore
      <4>3. Tree[m].parent \in Around(e.at)
        <5>1. CASE m = e.at
          BY <4>1, <4>2, <5>1, AroundOf
        <5>2. CASE m \in Around(e.at)
          BY <3>1, <4>1, <4>2, <5>2, AroundBefore
        <5> QED  BY <5>1, <5>2
      <4> QED  BY <3>1, <4>1, <4>3
    <3> QED  BY <3>1, <3>2
  <2> QED  BY <2>1, <2>2
<1> QED  BY <1>2, <1>3, <1>4 DEF PathInv

(* A step that goes on to the next statement of the list.                  *)
LEMMA BelowMoved ==
  ASSUME scn \in Scenario, NEW E, NEW N, NEW s, StackOK(s), s[1].cur # 0, Below(E), PathInv(E, s),
         NEW g, g.parent = s[1].parent, g.cur = NextOf(s[1].cur),
         NEW t, t = <<g>> \o Tail(s), \A e \in N : e.at = s[1].cur
  PROVE  Below(E \cup N) /\ PathInv(E \cup N, t)
<1> DEFINE c == s[1].cur
<1>1. PathOK(t) /\ OpenFrom(t, 1) = OpenFrom(s, 1) /\ ToCome(t) \subseteq ToCome(s) \ {c}
  BY MovedOn DEF PathInv
<1>2. Around(c) = OpenFrom(s, 1) /\ c \in ToCome(s) /\ c \in Nodes
  <2>1. Around(c) = OpenFrom(s, 1) /\ c \in ToCome(s)
    BY OpenAround DEF PathInv
  <2> QED  BY <2>1 DEF ToCome
<1>3. OpenFrom(s, 1) \cap ToCome(s) = {}
  BY DEF PathInv
<1>4. OpenFrom(t, 1) \cap ToCome(t) = {}
  BY <1>1, <1>3
<1>5. Refused(N) \subseteq ToCome(s) /\ Refused(N) \cap OpenFrom(t, 1) = {}
  BY <1>1, <1>2, <1>3 DEF Refused
<1>6. \A e \in N : /\ e.at \in Nodes /\ Around(e.at) \subseteq OpenFrom(s, 1)
                   /\ (Around(e.at) \cup {e.at}) \cap ToCome(t) = {}
  BY <1>1, <1>2, <1>3
<1> HIDE DEF c
<1> QED  BY <1>1, <1>4, <1>5, <1>6, BelowStep

LEMMA BelowEntered ==
  ASSUME scn \in Scenario, NEW E, NEW N, NEW s, StackOK(s), Below(E), PathInv(E, s),
         s[1].cur # 0, Known(s[1].cur),
         NEW h, h.parent = s[1].parent, h.cur = s[1].cur,
         NEW g, g.parent = s[1].cur, g.cur = First(Sub(s[1].cur)),
         NEW t, t = <<g, h>> \o Tail(s),
         \A e \in N : e.at = s[1].cur /\ e.code \notin Refusing
  PROVE  Below(E \cup N) /\ PathInv(E \cup N, t)
<1> PICK c : c = s[1].cur
  OBVIOUS
<1>1. /\ PathOK(t) /\ OpenFrom(t, 1) = OpenFrom(s, 1) \cup {c}
      /\ ToCome(t) \subseteq (ToCome(s) \ {c}) \cup Sub(c)
  <2>1. PathOK(s)
    BY DEF PathInv
  <2> QED  BY <2>1, WentIn
<1>2. Around(c) = OpenFrom(s, 1) /\ c \in ToCome(s) /\ c \in Nodes
  <2>1. Around(c) = OpenFrom(s, 1) /\ c \in ToCome(s)
    BY OpenAround DEF PathInv
  <2> QED  BY <2>1 DEF ToCome
<1>3. OpenFrom(s, 1) \cap ToCome(s) = {}
  BY DEF PathInv
<1>4. ASSUME NEW m \in Sub(c) PROVE m # 1 /\ m \notin OpenFrom(s, 1) /\ m # c
  <2>1. m \in Nodes /\ Tree[m].parent = c
    BY <1>4 DEF Sub
  <2>2. m # 1 /\ c < m
    BY <2>1, ParentOf
  <2>3. m \in Nat /\ c \in Nat
    BY <1>2, <2>1, ParentOf
  <2>4. ~(m < c) /\ m # c
    BY <2>2, <2>3
  <2>5. m \notin OpenFrom(s, 1)
    BY <1>2, <2>4, AroundBefore
  <2> QED  BY <2>2, <2>4, <2>5
<1>5. OpenFrom(t, 1) \cap ToCome(t) = {}
  BY <1>1, <1>3, <1>4
<1>6. \A m \in ToCome(t) : m \in ToCome(s) \/ (m # 1 /\ Tree[m].parent \in ToCome(s))
  BY <1>1, <1>2, <1>4 DEF Sub
<1>7. Refused(N) = {}
  BY DEF Refused
<1>8. \A e \in N : /\ e.at \in Nodes /\ Around(e.at) \subseteq OpenFrom(s, 1)
                   /\ (Around(e.at) \cup {e.at}) \cap ToCome(t) = {}
  BY <1>1, <1>2, <1>5
<1>9. \A p \in OpenFrom(t, 1) : p \in OpenFrom(s, 1) \/ (Known(p) /\ p \in ToCome(s))
  BY <1>1, <1>2
<1>10. Refused(N) \subseteq ToCome(s) /\ Refused(N) \cap OpenFrom(t, 1) = {}
  BY <1>7
<1> QED  BY <1>1, <1>5, <1>6, <1>8, <1>9, <1>10, BelowStep

LEMMA BelowReturned ==
  ASSUME scn \in Scenario, NEW E, NEW N, NEW s, StackOK(s), ~Single(s), Below(E), PathInv(E, s),
         NEW g, g.parent = s[2].parent, g.cur = NextOf(s[2].cur),
         NEW t, t = <<g>> \o Tail(Tail(s)),
         \A e \in N : e.at = s[1].parent /\ e.code \notin Refusing
  PROVE  Below(E \cup N) /\ PathInv(E \cup N, t)
<1>1. PICK u : u = Tail(s)
  OBVIOUS
<1>2. StackOK(u)
  BY <1>1, Returned
<1>3. /\ PathOK(u) /\ OpenFrom(u, 1) \subseteq OpenFrom(s, 1)
      /\ ToCome(u) \subseteq ToCome(s) \cup {s[2].cur}
      /\ s[2].cur = s[1].parent /\ s[1].parent # 0 /\ u[1] = s[2]
  BY <1>1, CameBack DEF PathInv
<1> DEFINE p == s[1].parent
<1>4. u[1].cur # 0 /\ g.parent = u[1].parent /\ g.cur = NextOf(u[1].cur) /\ t = <<g>> \o Tail(u)
  BY <1>1, <1>3
<1>5. PathOK(t) /\ OpenFrom(t, 1) = OpenFrom(u, 1) /\ ToCome(t) \subseteq ToCome(u) \ {u[1].cur}
  BY <1>2, <1>3, <1>4, MovedOn
<1>6. ToCome(t) \subseteq ToCome(s) /\ p \notin ToCome(t)
  BY <1>3, <1>5
<1>7. Around(p) \cup {p} = OpenFrom(s, 1) /\ OpenFrom(s, 1) \subseteq Nodes
  BY <1>3, OpenAround DEF PathInv
<1>8. OpenFrom(s, 1) \cap ToCome(s) = {}
  BY DEF PathInv
<1>9. OpenFrom(t, 1) \cap ToCome(t) = {}
  BY <1>3, <1>5, <1>6, <1>8
<1>10. Refused(N) \subseteq ToCome(s) /\ Refused(N) \cap OpenFrom(t, 1) = {}
  BY DEF Refused
<1>11. \A e \in N : /\ e.at \in Nodes /\ Around(e.at) \subseteq OpenFrom(s, 1)
                    /\ (Around(e.at) \cup {e.at}) \cap ToCome(t) = {}
  BY <1>6, <1>7, <1>8
<1>12. \A q \in OpenFrom(t, 1) : q \in OpenFrom(s, 1)
  BY <1>3, <1>5
<1>13. \A m \in ToCome(t) : m \in ToCome(s)
  BY <1>6
<1> QED  BY <1>5, <1>9, <1>10, <1>11, <1>12, <1>13, BelowStep

(* What the parts of the invariant say depends on the scenario and on the  *)
(* names of the modules alone, which the steps of the check leave as they  *)
(* are.                                                                    *)
LEMMA SameTree ==
  ASSUME UNCHANGED scn
  PROVE  /\ Tree' = Tree /\ Nodes' = Nodes /\ \A n : Around(n)' = Around(n)
         /\ \A s, i : OpenFrom(s, i)' = OpenFrom(s, i)
         /\ \A s : (PathOK(s)' <=> PathOK(s)) /\ ToCome(s)' = ToCome(s)
<1>1. Tree' = Tree /\ Nodes' = Nodes
  BY DEF Tree, Nodes
<1>2. \A n : Around(n)' = Around(n)
  BY <1>1 DEF Around
<1>3. \A s, i : OpenFrom(s, i)' = OpenFrom(s, i)
  BY DEF OpenFrom
<1>4. \A s : PathOK(s)' <=> PathOK(s)
  BY <1>1, <1>2, <1>3 DEF PathOK
<1>5. \A s : ToCome(s)' = ToCome(s)
  BY <1>1 DEF ToCome
<1> QED  BY <1>1, <1>2, <1>3, <1>4, <1>5

LEMMA BelowAfter ==
  ASSUME UNCHANGED scn, NEW E, E = Errs(errors)', NEW t, t = stack',
         UNCHANGED modname \/ \A e \in E : e.code \in Prefixes,
         Below(E), phase' = "check" => PathInv(E, t),
         phase' = "check" => UNCHANGED modname \/ OpenFrom(t, 1) = {}
  PROVE  BelowInv'
<1>1. /\ Tree' = Tree /\ Nodes' = Nodes /\ \A n : Around(n)' = Around(n)
      /\ OpenFrom(t, 1)' = OpenFrom(t, 1)
      /\ (PathOK(t)' <=> PathOK(t)) /\ ToCome(t)' = ToCome(t)
  BY SameTree
<1>2. UNCHANGED modname => \A p : Clean(E, p)' <=> Clean(E, p)
  BY DEF Clean, Known
<1>3. Below(E)'
  BY <1>1, <1>2 DEF Below
<1>4. phase' = "check" => PathInv(E, t)'
  BY <1>1, <1>2 DEF PathInv
<1> QED  BY <1>3, <1>4 DEF BelowInv

LEMMA InitBelow == Init => BelowInv
<1>1. Errs(<<>>) = {}
  BY ErrsShort
<1> QED  BY <1>1 DEF Init, BelowInv, Below

LEMMA NotAModuleBelow == IInv /\ NotAModule => BelowInv'
<1> SUFFICES ASSUME IInv, NotAModule
             PROVE  BelowInv'
  OBVIOUS
<1> DEFINE e == Error("UNEXPECTED", 1, 0)
<1>1. errors' = <<e>> /\ phase' = "done" /\ UNCHANGED <<scn, modname>> /\ scn \in Scenario
  BY DEF NotAModule, IInv
<1>2. e.at = 1 /\ Around(1) = {}
  BY <1>1, TreeTyped, AroundOf DEF Error
<1> HIDE DEF e
<1>3. Errs(<<e>>) = {e}
  BY ErrsShort
<1>4. PICK E : E = Errs(errors)'
  OBVIOUS
<1>5. E = {e}
  BY <1>1, <1>3, <1>4 DEF Errs
<1>6. Below(E)
  BY <1>2, <1>5 DEF Below
<1> QED  BY <1>1, <1>4, <1>6, BelowAfter

LEMMA ResolveBelow == IInv /\ ResolvePrefixes => BelowInv'
<1> SUFFICES ASSUME IInv, ResolvePrefixes
             PROVE  BelowInv'
  OBVIOUS
<1>1. phase' = "check" /\ UNCHANGED scn /\ scn \in Scenario
  BY DEF ResolvePrefixes, IInv
<1> DEFINE f == Frame(0, 1, <<TopRule>>)
<1>2. f.parent = 0 /\ f.cur = 1
  BY DEF Frame
<1> HIDE DEF f
<1>3. stack' = <<f>> /\ Len(stack') = 1 /\ stack'[1] = f
  BY DEF ResolvePrefixes, f
<1>4. \A x \in Errs(errors') : x.code \in Prefixes
  <2> DEFINE twice == {n \in Nodes : \E d \in PrefixMap.refused : n = Declaring(d)}
             undefined == {n \in Nodes : ModuleOf(PrefixMap.taken, n) = None}
             a == ErrorsAt("DUPLICATE_PREFIX", twice)
             b == ErrorsAt("UNDEFINED_PREFIX", undefined)
  <2>1. errors' = a \o b
    BY DEF ResolvePrefixes
  <2>2. IsFiniteSet(twice) /\ IsFiniteSet(undefined)
    <3>1. twice \subseteq Nodes /\ undefined \subseteq Nodes
      OBVIOUS
    <3> HIDE DEF twice, undefined
    <3> QED  BY <1>1, <3>1, TreeTyped, FS_Subset
  <2> HIDE DEF twice, undefined
  <2>3. IsSeq(a) /\ IsSeq(b)
    BY <2>2, ErrorsAtOK
  <2>4. (\A x \in Errs(a) : x.code = "DUPLICATE_PREFIX") /\ (\A x \in Errs(b) : x.code = "UNDEFINED_PREFIX")
    BY OtherErrors
  <2> HIDE DEF a, b
  <2>5. Errs(errors') = Errs(a) \cup Errs(b)
    BY <2>1, <2>3, ErrsConcat
  <2> QED  BY <2>4, <2>5 DEF Prefixes
<1>5. PICK E, t : E = Errs(errors)' /\ t = stack'
  OBVIOUS
<1>6. \A x \in E : x.code \in Prefixes
  BY <1>4, <1>5 DEF Errs
<1>7. PathOK(t) /\ OpenFrom(t, 1) = {}
  <2>1. \A i \in 1 .. 1 : i = 1 /\ ~(i > 1)
    OBVIOUS
  <2>2. 1 \in Nodes /\ Tree[1].parent = 0
    BY <1>1, TreeTyped, ParentOf
  <2>3. Len(t) = 1 /\ t[1] = f
    BY <1>3, <1>5
  <2> QED  BY <1>2, <2>1, <2>2, <2>3 DEF PathOK, OpenFrom
<1>8. Below(E) /\ PathInv(E, t)
  BY <1>6, <1>7 DEF Below, PathInv
<1> QED  BY <1>1, <1>5, <1>6, <1>7, <1>8, BelowAfter

LEMMA CheckBelow ==
  ASSUME IInv, BelowInv, SkipUnknown \/ Reject \/ Enter \/ Leave
  PROVE  BelowInv'
<1>1. /\ phase = "check" /\ scn \in Scenario /\ IsSeq(errors) /\ StackOK(stack)
      /\ Below(Errs(errors)) /\ PathInv(Errs(errors), stack)
      /\ UNCHANGED <<scn, modname>>
  BY DEF IInv, BelowInv, SkipUnknown, Reject, Enter, Leave
<1>2. Top = stack[1] /\ FrameOK(Top) /\ (Top.parent = 0 <=> Single(stack))
  BY <1>1, StackParts DEF Top
<1> DEFINE E == Errs(errors)
<1>3. CASE SkipUnknown
  <2> DEFINE g == Advance(Top)
  <2>1. /\ g.parent = stack[1].parent /\ g.cur = NextOf(stack[1].cur) /\ stack[1].cur # 0
        /\ stack' = <<g>> \o Tail(stack) /\ errors' = errors
    BY <1>2, <1>3, AdvanceParts DEF SkipUnknown
  <2> HIDE DEF g
  <2>2. PICK t : t = stack'
    OBVIOUS
  <2>3. Below(E \cup {}) /\ PathInv(E \cup {}, t)
    <3>1. t = <<g>> \o Tail(stack)
      BY <2>1, <2>2
    <3> HIDE DEF E
    <3> QED  BY <1>1, <2>1, <3>1, BelowMoved DEF E
  <2>4. E \cup {} = E /\ E = Errs(errors)'
    BY <2>1 DEF Errs
  <2> QED  BY <1>1, <2>2, <2>3, <2>4, BelowAfter
<1>4. CASE Reject
  <2>1. PICK m : /\ m = MatchRule(Top, Top.cur) /\ Top.cur # 0
                 /\ stack' = <<Advance(m.frame)>> \o Tail(stack)
                 /\ errors' = errors \o m.errors
    BY <1>4 DEF Reject
  <2>2. /\ FrameOK(m.frame) /\ m.frame.parent = Top.parent /\ m.frame.cur = Top.cur
        /\ IsSeq(m.errors)
    BY <1>2, <2>1, MatchOK
  <2> DEFINE g == Advance(m.frame)
             N == Errs(m.errors)
  <2>3. /\ g.parent = stack[1].parent /\ g.cur = NextOf(stack[1].cur) /\ stack[1].cur # 0
        /\ \A e \in N : e.at = stack[1].cur
    BY <1>2, <2>1, <2>2, AdvanceParts, MatchErrors
  <2>4. stack' = <<g>> \o Tail(stack)
    BY <2>1
  <2>5. E \cup N = Errs(errors \o m.errors)
    BY <1>1, <2>2, ErrsConcat
  <2>6. E \cup N = Errs(errors)'
    BY <2>1, <2>5 DEF Errs
  <2> HIDE DEF g, N, E
  <2>7. PICK t : t = stack'
    OBVIOUS
  <2>8. Below(E \cup N) /\ PathInv(E \cup N, t)
    <3>1. t = <<g>> \o Tail(stack)
      BY <2>4, <2>7
    <3> QED  BY <1>1, <2>3, <3>1, BelowMoved DEF E
  <2> QED  BY <1>1, <2>6, <2>7, <2>8, BelowAfter
<1>5. CASE Enter
  <2>1. PICK m : /\ m = MatchRule(Top, Top.cur) /\ m.rule # 0 /\ Top.cur # 0 /\ Known(Top.cur)
                 /\ Call(Top.cur, Top.rules[m.rule].spec, m)
    BY <1>5 DEF Enter
  <2>2. /\ FrameOK(m.frame) /\ m.frame.parent = Top.parent /\ m.frame.cur = Top.cur
        /\ IsSeq(m.errors)
    BY <1>2, <2>1, MatchOK
  <2> DEFINE spec == Top.rules[m.rule].spec
             h == m.frame
             g == Frame(Top.cur, First(Sub(Top.cur)), Grammar[spec].rules)
             bad == ArgumentErrors(spec, Top.cur)
             N == Errs(m.errors) \cup Errs(bad)
  <2>3. /\ stack' = <<g, h>> \o Tail(stack)
        /\ errors' = (errors \o m.errors) \o bad
    BY <2>1 DEF Call
  <2>4. IsSeq(bad)
    BY Short DEF ArgumentErrors
  <2>5. g.parent = Top.cur /\ g.cur = First(Sub(Top.cur))
    BY DEF Frame
  <2>6. \A e \in N : e.at = Top.cur /\ e.code \notin Refusing
    <3>1. \A e \in Errs(m.errors) : e.at = Top.cur /\ e.code \notin Refusing
      BY <1>2, <2>1, MatchErrors
    <3>2. \A e \in Errs(bad) : e.at = Top.cur /\ e.code \notin Refusing
      BY OtherErrors
    <3> QED  BY <3>1, <3>2
  <2> HIDE DEF spec, h, g, bad
  <2>7. E \cup N = Errs((errors \o m.errors) \o bad)
    <3>1. IsSeq(errors \o m.errors) /\ Errs(errors \o m.errors) = E \cup Errs(m.errors)
      BY <1>1, <2>2, Concat, ErrsConcat
    <3>2. Errs((errors \o m.errors) \o bad) = Errs(errors \o m.errors) \cup Errs(bad)
      BY <2>4, <3>1, ErrsConcat
    <3> QED  BY <3>1, <3>2
  <2>8. E \cup N = Errs(errors)'
    BY <2>3, <2>7 DEF Errs
  <2> HIDE DEF N, E
  <2>9. PICK t : t = stack'
    OBVIOUS
  <2>10. Below(E \cup N) /\ PathInv(E \cup N, t)
    <3>1. t = <<g, h>> \o Tail(stack)
      BY <2>3, <2>9
    <3>2. /\ h.parent = stack[1].parent /\ h.cur = stack[1].cur
          /\ g.parent = stack[1].cur /\ g.cur = First(Sub(stack[1].cur))
          /\ stack[1].cur # 0 /\ Known(stack[1].cur)
          /\ \A e \in N : e.at = stack[1].cur /\ e.code \notin Refusing
      BY <1>2, <2>1, <2>2, <2>5, <2>6 DEF h
    <3> QED  BY <1>1, <3>1, <3>2, BelowEntered DEF E
  <2> QED  BY <1>1, <2>8, <2>9, <2>10, BelowAfter
<1>6. CASE Leave /\ Single(stack)
  <2>1. MissingErrors(Top) = <<>>
    BY <1>2, <1>6 DEF MissingErrors
  <2>2. errors' = errors \o <<>> /\ phase' = "done"
    BY <1>6, <2>1 DEF Leave, Single
  <2>3. Errs(errors \o <<>>) = E \cup Errs(<<>>) /\ Errs(<<>>) = {}
    BY <1>1, Short, ErrsConcat, ErrsShort
  <2>4. E = Errs(errors)'
    BY <2>2, <2>3 DEF Errs
  <2> QED  BY <1>1, <2>2, <2>4, BelowAfter
<1>7. CASE Leave /\ ~Single(stack)
  <2> DEFINE bad == MissingErrors(Top)
             g == Advance(stack[2])
             N == Errs(bad)
  <2>1. stack' = <<g>> \o Tail(Tail(stack)) /\ errors' = errors \o bad
    BY <1>7 DEF Leave, Single
  <2>2. IsSeq(bad) /\ \A e \in N : e.at = stack[1].parent /\ e.code \notin Refusing
    BY <1>2, <1>7, MissingErrorsOK, OtherErrors
  <2>3. g.parent = stack[2].parent /\ g.cur = NextOf(stack[2].cur)
    <3>1. StackOK(Tail(stack)) /\ Tail(stack)[1] = stack[2]
      BY <1>1, <1>7, Returned
    <3>2. FrameOK(stack[2])
      BY <3>1, StackParts
    <3> QED  BY <3>2, AdvanceParts
  <2>4. E \cup N = Errs(errors \o bad)
    BY <1>1, <2>2, ErrsConcat
  <2>5. E \cup N = Errs(errors)'
    BY <2>1, <2>4 DEF Errs
  <2> HIDE DEF bad, g, N, E
  <2>6. PICK t : t = stack'
    OBVIOUS
  <2>7. Below(E \cup N) /\ PathInv(E \cup N, t)
    <3>1. t = <<g>> \o Tail(Tail(stack))
      BY <2>1, <2>6
    <3> QED  BY <1>1, <1>7, <2>2, <2>3, <3>1, BelowReturned DEF E
  <2> QED  BY <1>1, <2>5, <2>6, <2>7, BelowAfter
<1> QED  BY <1>3, <1>4, <1>5, <1>6, <1>7

LEMMA StepBelow == IInv /\ BelowInv /\ [Next]_vars => BelowInv'
<1>1. ASSUME BelowInv, Terminated \/ UNCHANGED vars PROVE BelowInv'
  <2>1. UNCHANGED <<scn, modname, phase, stack, errors>>
    BY <1>1 DEF Terminated, vars
  <2>2. PICK E, t : E = Errs(errors) /\ t = stack
    OBVIOUS
  <2>3. E = Errs(errors)' /\ t = stack'
    BY <2>1, <2>2 DEF Errs
  <2> QED  BY <1>1, <2>1, <2>2, <2>3, BelowAfter DEF BelowInv
<1> QED  BY <1>1, NotAModuleBelow, ResolveBelow, CheckBelow DEF Next

(* Whatever the grammars and the module are, nothing but a prefix that is  *)
(* not defined is reported in a statement that is skipped.                 *)
THEOREM NothingBelow == Spec => []NothingBelowSkipped
<1>1. BelowInv => NothingBelowSkipped
  BY RejectedAre DEF BelowInv
<1>2. Init => IInv /\ BelowInv
  BY InitHolds, InitBelow
<1>3. IInv /\ BelowInv /\ [Next]_vars => IInv' /\ BelowInv'
  BY StepHolds, StepBelow
<1> QED  BY <1>1, <1>2, <1>3, PTL DEF Spec

-----------------------------------------------------------------------------
(* What the reference says of a statement, by what it says of the one      *)
(* around it.                                                              *)
Fits(n, r) ==
  /\ r.name = <<ModuleOf(Declarations, n), Kw(n)>>
  /\ (r.name # Cut /\ Grammar[r.spec].match) =>
        <<Grammar[r.spec].arg, Tree[n].arg, RefVersion>> \in Accepts
RuleFor(n, rules) == First({i \in DOMAIN rules : Fits(n, rules[i])})
RefFirst ==
  [module |-> ModuleOf(Declarations, 1), rule |-> 1, spec |-> Kw(1),
   rules |-> Grammar[Kw(1)].rules, known |-> ModuleOf(Declarations, 1) \in Module]
RefIn(n, above) ==
  LET rule == RuleFor(n, above.rules)
      spec == IF rule = 0 THEN None ELSE above.rules[rule].spec
  IN  [module |-> ModuleOf(Declarations, n), rule |-> rule, spec |-> spec,
       rules |-> IF rule = 0 THEN <<>> ELSE Grammar[spec].rules,
       known |-> above.known /\ ModuleOf(Declarations, n) \in Module]

LEMMA RefIsFunction ==
  RefStatements =
    CHOOSE f : f = [n \in Nodes |-> IF n = 1 THEN RefFirst ELSE RefIn(n, f[Tree[n].parent])]
<1> DEFINE modules == [n \in Nodes |-> ModuleOf(Declarations, n)]
           top == [module |-> modules[1], rule |-> 1, spec |-> Kw(1),
                   rules |-> Grammar[Kw(1)].rules, known |-> modules[1] \in Module]
           fits(n, r) ==
             /\ r.name = <<modules[n], Kw(n)>>
             /\ (r.name # Cut /\ Grammar[r.spec].match) =>
                   <<Grammar[r.spec].arg, Tree[n].arg, RefVersion>> \in Accepts
           in(n, r) ==
             LET above == r.rules
                 rule == First({i \in DOMAIN above : fits(n, above[i])})
                 spec == IF rule = 0 THEN None ELSE above[rule].spec
             IN  [module |-> modules[n], rule |-> rule, spec |-> spec,
                  rules |-> IF rule = 0 THEN <<>> ELSE Grammar[spec].rules,
                  known |-> r.known /\ modules[n] \in Module]
<1>1. RefStatements = CHOOSE f : f = [n \in Nodes |-> IF n = 1 THEN top ELSE in(n, f[Tree[n].parent])]
  BY DEF RefStatements
<1>2. \A n \in Nodes : modules[n] = ModuleOf(Declarations, n)
  OBVIOUS
<1>3. \A n \in Nodes : \A r : in(n, r) = RefIn(n, r)
  <2> SUFFICES ASSUME NEW n \in Nodes, NEW r
               PROVE  in(n, r) = RefIn(n, r)
    OBVIOUS
  <2>1. PICK above : above = r.rules
    OBVIOUS
  <2>2. modules[n] = ModuleOf(Declarations, n)
    BY <1>2
  <2> HIDE DEF modules
  <2>3. \A x : fits(n, x) <=> Fits(n, x)
    BY <2>2 DEF Fits
  <2> HIDE DEF fits
  <2>4. First({i \in DOMAIN above : fits(n, above[i])}) = RuleFor(n, above)
    BY <2>3 DEF RuleFor
  <2>5. PICK rule : rule = RuleFor(n, above)
    OBVIOUS
  <2>6. RefIn(n, r) =
          LET spec == IF rule = 0 THEN None ELSE above[rule].spec
          IN  [module |-> ModuleOf(Declarations, n), rule |-> rule, spec |-> spec,
               rules |-> IF rule = 0 THEN <<>> ELSE Grammar[spec].rules,
               known |-> r.known /\ ModuleOf(Declarations, n) \in Module]
    BY <2>1, <2>5 DEF RefIn
  <2> QED  BY <2>1, <2>2, <2>4, <2>5, <2>6
<1>4. 1 \in Nodes => top = RefFirst
  <2> HIDE DEF modules
  <2> QED  BY <1>2 DEF RefFirst
<1> HIDE DEF in, top
<1>5. \A f : [n \in Nodes |-> IF n = 1 THEN top ELSE in(n, f[Tree[n].parent])]
           = [n \in Nodes |-> IF n = 1 THEN RefFirst ELSE RefIn(n, f[Tree[n].parent])]
  BY <1>3, <1>4
<1> QED  BY <1>1, <1>5

LEMMA RefOf ==
  ASSUME scn \in Scenario, NEW n \in Nodes
  PROVE  RefStatements[n] = IF n = 1 THEN RefFirst ELSE RefIn(n, RefStatements[Tree[n].parent])
<1> DEFINE p(m) == Tree[m].parent
           len == Len(Tree)
           A == {k \in Nat : k <= len => \E f : f = [m \in 1 .. k |->
                   IF m = 1 THEN RefFirst ELSE RefIn(m, f[p(m)])]}
<1>1. Nodes = 1 .. len /\ len \in Nat
  BY TreeTyped
<1>2. \A m \in 1 .. len : m # 1 => p(m) \in 1 .. m - 1
  BY <1>1, ParentOf
<1>3. 0 \in A
  <2> DEFINE f == [m \in 1 .. 0 |-> {}]
  <2>1. f = [m \in 1 .. 0 |-> IF m = 1 THEN RefFirst ELSE RefIn(m, f[p(m)])]
    OBVIOUS
  <2> QED  BY <2>1
<1>4. ASSUME NEW k \in Nat, k \in A PROVE k + 1 \in A
  <2> SUFFICES ASSUME k + 1 <= len
               PROVE  \E f : f = [m \in 1 .. k + 1 |->
                                    IF m = 1 THEN RefFirst ELSE RefIn(m, f[p(m)])]
    OBVIOUS
  <2> HIDE DEF p
  <2>1. PICK f : f = [m \in 1 .. k |-> IF m = 1 THEN RefFirst ELSE RefIn(m, f[p(m)])]
    BY <1>1, <1>4
  <2> DEFINE g == [m \in 1 .. k + 1 |-> IF m = 1 THEN RefFirst ELSE RefIn(m, f[p(m)])]
  <2> HIDE DEF len
  <2>2. \A m \in 1 .. k : g[m] = f[m]
    <3>1. \A m \in 1 .. k : f[m] = IF m = 1 THEN RefFirst ELSE RefIn(m, f[p(m)])
      BY <2>1
    <3>2. \A m \in 1 .. k : m \in 1 .. k + 1
      OBVIOUS
    <3> QED  BY <3>1, <3>2
  <2>3. ASSUME NEW m \in 1 .. k + 1, m # 1 PROVE p(m) \in 1 .. k
    <3>1. m \in 1 .. len /\ m - 1 \in 1 .. k
      BY <1>1, <2>3
    <3>2. p(m) \in 1 .. m - 1
      BY <1>2, <2>3, <3>1
    <3> QED  BY <3>1, <3>2
  <2>4. g = [m \in 1 .. k + 1 |-> IF m = 1 THEN RefFirst ELSE RefIn(m, g[p(m)])]
    BY <2>2, <2>3
  <2> QED  BY <2>4
<1>5. len \in A
  <2> HIDE DEF A
  <2> QED  BY <1>1, <1>3, <1>4, NumberInduction
<1>6. \E f : f = [m \in Nodes |-> IF m = 1 THEN RefFirst ELSE RefIn(m, f[p(m)])]
  BY <1>1, <1>5
<1>7. RefStatements = [m \in Nodes |-> IF m = 1 THEN RefFirst ELSE RefIn(m, RefStatements[p(m)])]
  BY <1>6, RefIsFunction, Zenon
<1> HIDE DEF p
<1>8. RefStatements[n] = IF n = 1 THEN RefFirst ELSE RefIn(n, RefStatements[p(n)])
  BY <1>7, Zenon
<1> QED  BY <1>8 DEF p

RefRule(n) == RefStatements[n].rule
RefRules(n) == RefStatements[n].rules

LEMMA RefRuleOf ==
  ASSUME scn \in Scenario
  PROVE  /\ RefRules(1) = Grammar[Kw(1)].rules
         /\ \A n \in Nodes : n # 1 =>
              LET rules == RefRules(Tree[n].parent)
                  rule == RuleFor(n, rules)
              IN  /\ RefRule(n) = rule
                  /\ RefRules(n) = IF rule = 0 THEN <<>> ELSE Grammar[rules[rule].spec].rules
<1>1. 1 \in Nodes
  BY TreeTyped
<1>2. RefStatements[1] = RefFirst
  BY <1>1, RefOf
<1>3. RefRules(1) = Grammar[Kw(1)].rules
  BY <1>2 DEF RefRules, RefFirst
<1>4. ASSUME NEW n \in Nodes, n # 1
      PROVE  LET rules == RefRules(Tree[n].parent)
                 rule == RuleFor(n, rules)
             IN  /\ RefRule(n) = rule
                 /\ RefRules(n) = IF rule = 0 THEN <<>> ELSE Grammar[rules[rule].spec].rules
  <2>1. PICK above : above = RefStatements[Tree[n].parent]
    OBVIOUS
  <2>2. RefStatements[n] = RefIn(n, above)
    BY <1>4, <2>1, RefOf
  <2>3. /\ RefStatements[n].rule = RuleFor(n, above.rules)
        /\ RefStatements[n].rules = IF RuleFor(n, above.rules) = 0 THEN <<>>
                                    ELSE Grammar[above.rules[RuleFor(n, above.rules)].spec].rules
    BY <2>2 DEF RefIn
  <2> QED  BY <2>1, <2>3 DEF RefRule, RefRules
<1> QED  BY <1>3, <1>4

-----------------------------------------------------------------------------
(* More on numbers: the least of a set, and its numbers in ascending order,*)
(* each of which comes once.                                               *)
LEMMA FirstLeast ==
  ASSUME NEW S \in SUBSET (Nat \ {0}), NEW x \in S
  PROVE  First(S) \in S /\ First(S) <= x
<1>1. \E m \in S : \A k \in S : m <= k
  BY LeastNumber
<1>2. First(S) = CHOOSE m \in S : \A k \in S : m <= k
  BY DEF First
<1> QED  BY <1>1, <1>2

LEMMA FirstIs ==
  ASSUME NEW S \in SUBSET (Nat \ {0}), NEW x \in S, \A y \in S : x <= y
  PROVE  First(S) = x
<1>1. First(S) \in S /\ First(S) <= x
  BY FirstLeast
<1>2. x <= First(S) /\ x \in Nat /\ First(S) \in Nat
  BY <1>1
<1> QED  BY <1>1, <1>2

LEMMA EachOnce ==
  ASSUME NEW n \in Nat, NEW S \in SUBSET (1 .. n)
  PROVE  /\ IsFiniteSet(S) /\ Cardinality(S) \in Nat
         /\ \A k \in 1 .. Cardinality(S) : InOrder(S)[k] \in S
         /\ \A m \in S : \E k \in 1 .. Cardinality(S) :
              InOrder(S)[k] = m /\ \A l \in 1 .. Cardinality(S) : InOrder(S)[l] = m => l = k
<1> DEFINE before(m) == {k \in S : k < m}
           rank == [m \in S |-> Cardinality(before(m)) + 1]
           c == Cardinality(S)
           order == InOrder(S)
<1>1. IsFiniteSet(S) /\ c \in Nat
  <2>1. IsFiniteSet(1 .. n)
    BY FS_Interval
  <2> QED  BY <2>1, FS_Subset, FS_CardinalityType
<1>2. ASSUME NEW a \in S, NEW T \in SUBSET S, a \notin T PROVE Cardinality(T) \in Nat /\ Cardinality(T) < c
  <2>1. IsFiniteSet(T) /\ Cardinality(T) <= c /\ (c = Cardinality(T) => S = T)
    BY <1>1, FS_Subset
  <2>2. Cardinality(T) \in Nat /\ Cardinality(T) # c
    BY <1>2, <2>1, FS_CardinalityType
  <2> QED  BY <1>1, <2>1, <2>2
<1>3. ASSUME NEW m \in S PROVE rank[m] \in 1 .. c
  <2>1. before(m) \in SUBSET S /\ m \notin before(m)
    OBVIOUS
  <2>2. Cardinality(before(m)) \in Nat /\ Cardinality(before(m)) < c
    <3> HIDE DEF before, c
    <3> QED  BY <1>2, <2>1
  <2>3. rank[m] = Cardinality(before(m)) + 1
    OBVIOUS
  <2> HIDE DEF before, rank, c
  <2> QED  BY <1>1, <2>2, <2>3
<1>4. ASSUME NEW m \in S, NEW k \in S, k < m PROVE rank[k] # rank[m]
  <2>1. before(k) \in SUBSET before(m) /\ k \in before(m) /\ k \notin before(k)
    <3>1. \A x \in S : x \in Nat
      OBVIOUS
    <3>2. \A x \in S : x < k => x < m
      BY <1>4, <3>1
    <3>3. ~(k < k)
      BY <3>1
    <3> QED  BY <1>4, <3>2, <3>3
  <2>2. IsFiniteSet(before(m)) /\ IsFiniteSet(before(k))
    <3>1. before(m) \in SUBSET S /\ before(k) \in SUBSET S
      OBVIOUS
    <3> HIDE DEF before
    <3> QED  BY <1>1, <3>1, FS_Subset
  <2>3. rank[m] = Cardinality(before(m)) + 1 /\ rank[k] = Cardinality(before(k)) + 1
    OBVIOUS
  <2> HIDE DEF before, rank
  <2>4. Cardinality(before(m)) = Cardinality(before(k)) => before(m) = before(k)
    BY <2>1, <2>2, FS_Subset
  <2>5. Cardinality(before(m)) \in Nat /\ Cardinality(before(k)) \in Nat
    BY <2>2, FS_CardinalityType
  <2> QED  BY <2>1, <2>3, <2>4, <2>5
<1>5. \A m, k \in S : rank[m] = rank[k] => m = k
  <2> SUFFICES ASSUME NEW m \in S, NEW k \in S, rank[m] = rank[k], m # k
               PROVE  FALSE
    OBVIOUS
  <2>1. m < k \/ k < m
    <3> HIDE DEF rank
    <3> QED  OBVIOUS
  <2> HIDE DEF rank
  <2> QED  BY <1>4, <2>1
<1>6. \A k \in 1 .. c : \E m \in S : rank[m] = k
  <2>1. rank \in [S -> 1 .. c]
    <3>1. \A m \in S : rank[m] \in 1 .. c
      BY <1>3
    <3> HIDE DEF before, c
    <3> QED  BY <3>1
  <2> HIDE DEF rank
  <2>2. rank \in Injection(S, 1 .. c)
    BY <1>5, <2>1 DEF Injection, IsInjective
  <2>3. IsFiniteSet(1 .. c) /\ Cardinality(1 .. c) = c
    <3> HIDE DEF c
    <3> QED  BY <1>1, FS_Interval
  <2>4. rank \in Surjection(S, 1 .. c)
    BY <2>2, <2>3, FS_Injection
  <2> QED  BY <2>4 DEF Surjection
<1>7. ASSUME NEW k \in 1 .. c PROVE order[k] \in S /\ rank[order[k]] = k
  <2>1. order[k] = CHOOSE m \in S : Cardinality(before(m)) = k - 1
    BY <1>7 DEF InOrder
  <2>2. PICK m \in S : rank[m] = k
    BY <1>6, <1>7
  <2>3. \A x \in S : IsFiniteSet(before(x)) /\ Cardinality(before(x)) \in Nat
    <3>1. \A x \in S : before(x) \in SUBSET S
      OBVIOUS
    <3> HIDE DEF before
    <3> QED  BY <1>1, <3>1, FS_Subset, FS_CardinalityType
  <2>4. \A x \in S : rank[x] = Cardinality(before(x)) + 1
    OBVIOUS
  <2> HIDE DEF before, rank, order, c
  <2>5. Cardinality(before(m)) = k - 1
    BY <1>1, <2>2, <2>3, <2>4
  <2>6. order[k] \in S /\ Cardinality(before(order[k])) = k - 1
    BY <2>1, <2>5
  <2>7. PICK x \in S : x = order[k]
    BY <2>6
  <2>8. rank[x] = Cardinality(before(x)) + 1 /\ Cardinality(before(x)) = k - 1
    BY <2>4, <2>6, <2>7
  <2>9. k \in Int
    BY <1>1
  <2> QED  BY <2>7, <2>8, <2>9
<1> HIDE DEF before, rank, order, c
<1>8. ASSUME NEW m \in S
      PROVE  \E k \in 1 .. c : order[k] = m /\ \A l \in 1 .. c : order[l] = m => l = k
  <2>1. rank[m] \in 1 .. c /\ order[rank[m]] = m
    BY <1>3, <1>5, <1>7
  <2>2. \A l \in 1 .. c : order[l] = m => l = rank[m]
    BY <1>7
  <2> QED  BY <2>1, <2>2
<1> QED  BY <1>1, <1>7, <1>8 DEF order, c

-----------------------------------------------------------------------------
(* The map of the prefixes.  The loop that fills it may stop early, but for*)
(* a prefix that is in the map it is the first declaration that counts.    *)
NoPrefix == [taken |-> {}, refused |-> {}]
AddPrefix(r, n) ==
  IF n \notin Declarations \/ Cardinality(r.taken) = NPrefixes THEN r
  ELSE IF \E d \in r.taken : Declared(d) = Declared(n)
       THEN [r EXCEPT !.refused = @ \cup {n}]
       ELSE [r EXCEPT !.taken = @ \cup {n}]

LEMMA PrefixSteps ==
  ASSUME scn \in Scenario
  PROVE  \E u : /\ u[0] = NoPrefix /\ PrefixMap = u[Len(Tree)]
                /\ \A n \in 1 .. Len(Tree) : u[n] = AddPrefix(u[n - 1], n)
<1> DEFINE len == Len(Tree)
           A == {k \in Nat : \E f : f = [n \in 0 .. k |->
                   IF n = 0 THEN NoPrefix ELSE AddPrefix(f[n - 1], n)]}
           u == CHOOSE f : f = [n \in 0 .. len |->
                  IF n = 0 THEN NoPrefix ELSE AddPrefix(f[n - 1], n)]
<1>1. len \in Nat
  BY TreeTyped
<1>2. 0 \in A
  <2> DEFINE f == [n \in 0 .. 0 |-> NoPrefix]
  <2>1. f = [n \in 0 .. 0 |-> IF n = 0 THEN NoPrefix ELSE AddPrefix(f[n - 1], n)]
    <3>1. \A n \in 0 .. 0 : n = 0
      OBVIOUS
    <3> QED  BY <3>1
  <2> QED  BY <2>1
<1>3. ASSUME NEW k \in Nat, k \in A PROVE k + 1 \in A
  <2>1. PICK f : f = [n \in 0 .. k |-> IF n = 0 THEN NoPrefix ELSE AddPrefix(f[n - 1], n)]
    BY <1>3
  <2> DEFINE g == [n \in 0 .. k + 1 |-> IF n = 0 THEN NoPrefix ELSE AddPrefix(f[n - 1], n)]
  <2>2. \A n \in 0 .. k : g[n] = f[n]
    <3>1. \A n \in 0 .. k : f[n] = IF n = 0 THEN NoPrefix ELSE AddPrefix(f[n - 1], n)
      BY <2>1
    <3>2. \A n \in 0 .. k : n \in 0 .. k + 1
      OBVIOUS
    <3> QED  BY <3>1, <3>2
  <2>3. \A n \in 0 .. k + 1 : n # 0 => n - 1 \in 0 .. k
    OBVIOUS
  <2>4. g = [n \in 0 .. k + 1 |-> IF n = 0 THEN NoPrefix ELSE AddPrefix(g[n - 1], n)]
    BY <2>2, <2>3
  <2> HIDE DEF g
  <2>5. \E h : h = [n \in 0 .. k + 1 |-> IF n = 0 THEN NoPrefix ELSE AddPrefix(h[n - 1], n)]
    BY <2>4
  <2> QED  BY <2>5
<1>4. len \in A
  <2> HIDE DEF A
  <2> QED  BY <1>1, <1>2, <1>3, NumberInduction
<1>5. u = [n \in 0 .. len |-> IF n = 0 THEN NoPrefix ELSE AddPrefix(u[n - 1], n)]
  <2>1. \E f : f = [n \in 0 .. len |-> IF n = 0 THEN NoPrefix ELSE AddPrefix(f[n - 1], n)]
    BY <1>4
  <2> QED  BY <2>1, Zenon
<1>6. PrefixMap = u[len]
  BY DEF PrefixMap, NoPrefix, AddPrefix
<1> HIDE DEF u
<1>7. u[0] = NoPrefix
  <2>1. 0 \in 0 .. len
    BY <1>1
  <2> QED  BY <1>5, <2>1
<1>8. ASSUME NEW n \in 1 .. len PROVE u[n] = AddPrefix(u[n - 1], n)
  <2>1. n \in 0 .. len /\ n # 0
    BY <1>1, <1>8
  <2> QED  BY <1>5, <2>1
<1> QED  BY <1>6, <1>7, <1>8

(* T: what is in the map after the declarations up to k.                   *)
FirstOnes(T, k) ==
  /\ T \subseteq Declarations /\ \A d \in T : d <= k
  /\ \A d \in T, e \in Declarations : e < d => Declared(e) # Declared(d)
  /\ \/ Cardinality(T) = NPrefixes
     \/ \A e \in Declarations : e <= k => \E d \in T : Declared(d) = Declared(e)

LEMMA TakenFirst ==
  ASSUME scn \in Scenario
  PROVE  FirstOnes(PrefixMap.taken, Len(Tree))
<1>1. PICK u : /\ u[0] = NoPrefix /\ PrefixMap = u[Len(Tree)]
               /\ \A n \in 1 .. Len(Tree) : u[n] = AddPrefix(u[n - 1], n)
  BY PrefixSteps
<1>2. Len(Tree) \in Nat /\ \A d \in Declarations : d \in Nat \ {0}
  <2>1. \A d \in Declarations : d \in Nodes
    BY DEF Declarations, Sub
  <2> QED  BY <2>1, TreeTyped, ParentOf
<1> DEFINE T(k) == u[k].taken
           A == {k \in Nat : k <= Len(Tree) => FirstOnes(T(k), k)}
<1>3. 0 \in A
  <2>1. T(0) = {}
    BY <1>1 DEF NoPrefix
  <2>2. \A e \in Declarations : ~(e <= 0)
    BY <1>2
  <2>3. FirstOnes({}, 0)
    BY <2>2 DEF FirstOnes
  <2> QED  BY <2>1, <2>3
<1>4. ASSUME NEW k \in Nat, k \in A PROVE k + 1 \in A
  <2> SUFFICES ASSUME k + 1 <= Len(Tree)
               PROVE  FirstOnes(T(k + 1), k + 1)
    OBVIOUS
  <2> DEFINE n == k + 1
  <2>1. FirstOnes(T(k), k) /\ u[n] = AddPrefix(u[k], n)
    <3>1. n \in 1 .. Len(Tree) /\ n - 1 = k /\ k <= Len(Tree)
      BY <1>2
    <3> QED  BY <1>1, <1>4, <3>1
  <2>2. PICK r : r = u[k]
    OBVIOUS
  <2>3. T(k) = r.taken /\ T(n) = AddPrefix(r, n).taken
    BY <2>1, <2>2
  <2>4. \A d \in Nat : (d <= k => d <= n) /\ (d <= n => d <= k \/ d = n) /\ (d < n => d <= k)
    OBVIOUS
  <2>5. n \in Nat /\ n <= n
    OBVIOUS
  <2> HIDE DEF n, T
  <2>6. CASE n \notin Declarations \/ Cardinality(r.taken) = NPrefixes
    <3>1. T(n) = T(k)
      BY <2>3, <2>6 DEF AddPrefix
    <3>2. n \notin Declarations \/ Cardinality(T(n)) = NPrefixes
      BY <2>3, <2>6, <3>1
    <3>3. FirstOnes(T(n), k)
      BY <2>1, <3>1
    <3> HIDE DEF Declarations
    <3> QED  BY <1>2, <2>4, <3>2, <3>3 DEF FirstOnes, n
  <2>7. CASE n \in Declarations /\ Cardinality(r.taken) # NPrefixes /\ \E d \in r.taken : Declared(d) = Declared(n)
    <3>1. AddPrefix(r, n) = [r EXCEPT !.refused = @ \cup {n}]
      BY <2>7 DEF AddPrefix
    <3>2. T(n) = T(k)
      BY <2>3, <3>1
    <3>3. FirstOnes(T(n), k) /\ \E d \in T(n) : Declared(d) = Declared(n)
      BY <2>1, <2>3, <2>7, <3>2
    <3> QED  BY <1>2, <2>4, <3>3 DEF FirstOnes, n
  <2>8. CASE n \in Declarations /\ Cardinality(r.taken) # NPrefixes /\ ~\E d \in r.taken : Declared(d) = Declared(n)
    <3>1. AddPrefix(r, n) = [r EXCEPT !.taken = @ \cup {n}]
      BY <2>8 DEF AddPrefix
    <3>2. T(n) = T(k) \cup {n}
      BY <2>1, <2>3, <3>1
    <3>3. /\ T(k) \subseteq Declarations /\ \A d \in T(k) : d <= k
          /\ \A d \in T(k), e \in Declarations : e < d => Declared(e) # Declared(d)
          /\ \A e \in Declarations : e <= k => \E d \in T(k) : Declared(d) = Declared(e)
      BY <2>1, <2>3, <2>8 DEF FirstOnes
    <3>4. n \in Declarations /\ ~\E d \in T(k) : Declared(d) = Declared(n)
      BY <2>3, <2>8
    <3>5. \A d \in Declarations : d \in Nat
      BY <1>2
    <3> HIDE DEF Declarations, Declared
    <3>6. T(n) \subseteq Declarations /\ \A d \in T(n) : d <= n
      BY <2>4, <2>5, <3>2, <3>3, <3>4, <3>5
    <3>7. ASSUME NEW d \in T(n), NEW e \in Declarations, e < d PROVE Declared(e) # Declared(d)
      <4>1. CASE d \in T(k)
        BY <3>3, <3>7, <4>1
      <4>2. CASE d = n
        <5>1. e <= k
          BY <2>4, <3>5, <3>7, <4>2
        <5> QED  BY <3>3, <3>4, <4>2, <5>1
      <4> QED  BY <3>2, <3>7, <4>1, <4>2
    <3>8. ASSUME NEW e \in Declarations, e <= n PROVE \E d \in T(n) : Declared(d) = Declared(e)
      <4>1. e <= k \/ e = n
        BY <2>4, <3>5, <3>8
      <4> QED  BY <3>2, <3>3, <4>1
    <3>9. FirstOnes(T(n), n)
      BY <3>6, <3>7, <3>8 DEF FirstOnes
    <3> QED  BY <3>9 DEF n
  <2> QED  BY <2>6, <2>7, <2>8 DEF n
<1> HIDE DEF A, T
<1>5. Len(Tree) \in A
  BY <1>2, <1>3, <1>4, NumberInduction
<1>6. Len(Tree) <= Len(Tree)
  BY <1>2
<1>7. FirstOnes(T(Len(Tree)), Len(Tree))
  BY <1>5, <1>6 DEF A
<1> QED  BY <1>1, <1>7 DEF T

(* The module of a statement, where it is known, is the one that all the   *)
(* declarations give.                                                      *)
LEMMA SameModule ==
  ASSUME scn \in Scenario, NEW n, ModuleOf(PrefixMap.taken, n) # None
  PROVE  ModuleOf(Declarations, n) = ModuleOf(PrefixMap.taken, n)
<1>1. CASE Plain(n)
  BY <1>1 DEF ModuleOf
<1>2. CASE ~Plain(n)
  <2> DEFINE D == {d \in PrefixMap.taken : Declared(d) = Tree[n].prefix}
             E == {d \in Declarations : Declared(d) = Tree[n].prefix}
             len == Len(Tree)
  <2>1. D # {}
    BY <1>2 DEF ModuleOf
  <2>2. FirstOnes(PrefixMap.taken, len)
    BY TakenFirst
  <2>3. \A d \in Declarations : d \in Nat \ {0}
    <3>1. \A d \in Declarations : d \in Nodes
      BY DEF Declarations, Sub
    <3> QED  BY <3>1, ParentOf
  <2>4. D \in SUBSET (Nat \ {0}) /\ E \in SUBSET (Nat \ {0}) /\ D \subseteq E
    BY <2>2, <2>3 DEF FirstOnes
  <2>5. ASSUME NEW d \in D, NEW e \in E, e < d PROVE FALSE
    BY <2>2, <2>5 DEF FirstOnes
  <2> HIDE DEF D, E
  <2>6. First(D) \in D
    BY <2>1, <2>4, FirstLeast
  <2>7. \A e \in E : First(D) <= e
    <3>1. PICK d \in D : d = First(D)
      BY <2>6
    <3>2. d \in Nat /\ \A e \in E : e \in Nat /\ ~(e < d)
      BY <2>4, <2>5
    <3> QED  BY <3>1, <3>2
  <2>8. First(E) = First(D)
    BY <2>4, <2>6, <2>7, FirstIs
  <2> USE DEF D, E
  <2> QED  BY <1>2, <2>1, <2>4, <2>8 DEF ModuleOf
<1> QED  BY <1>1, <1>2

-----------------------------------------------------------------------------
(* match_rule and the reference.  What a section starts after is a cut.    *)
StartOK(f) ==
  f.start = 1 \/ (f.start - 1 \in DOMAIN f.rules /\ f.rules[f.start - 1].name = Cut)
OfGrammar(rules) == \E s \in DOMAIN Grammar : rules = Grammar[s].rules
ModulesOK ==
  /\ version \in {1, 2}
  /\ \A n \in Nodes : modname[n] = ModuleOf(PrefixMap.taken, n)

(* A rule matches a statement as in the reference, once its module is the  *)
(* one that all the declarations give.                                     *)
LEMMA MatchIsFit ==
  ASSUME scn \in Scenario, version \in {1, 2}, NEW c \in Nodes,
         modname[c] = ModuleOf(Declarations, c), NEW r \in RuleType
  PROVE  Matches(r, c) <=> Fits(c, r)
<1>1. Tree[c].arg \in Atom \cup {None}
  <2>1. Tree[c] \in Statement
    BY TreeTyped
  <2> QED  BY <2>1 DEF Statement
<1>2. PICK spec : spec = r.spec
  OBVIOUS
<1>3. spec \in DOMAIN Grammar
  BY <1>2 DEF RuleType
<1>4. RefVersion \in {1, 2}
  BY DEF RefVersion
<1>5. Grammar[spec].match =>
        (<<Grammar[spec].arg, Tree[c].arg, version>> \in Accepts
           <=> <<Grammar[spec].arg, Tree[c].arg, RefVersion>> \in Accepts)
  BY <1>1, <1>3, <1>4, AlternativesAssumption
<1> QED  BY <1>2, <1>5 DEF Matches, Fits

(* The rule that match_rule finds is the one of the reference: it looks for*)
(* it from the start of the section only, but what is before that is not   *)
(* for the same statement.                                                 *)
LEMMA HitIsRef ==
  ASSUME scn \in Scenario, ModulesOK, NEW f, FrameOK(f), StartOK(f), OfGrammar(f.rules),
         NEW c \in Nodes, c # 1, Known(c), f.rules = RefRules(Tree[c].parent), Hit(f, c) # 0
  PROVE  RefRule(c) = Hit(f, c) /\ RefRules(c) = Grammar[f.rules[Hit(f, c)].spec].rules
<1> DEFINE S == {i \in DOMAIN f.rules : Fits(c, f.rules[i])}
           H == {i \in f.start .. Len(f.rules) : Matches(f.rules[i], c)}
           hit == Hit(f, c)
<1>1. /\ f.rules \in Seq(RuleType) /\ Len(f.rules) \in Nat /\ DOMAIN f.rules = 1 .. Len(f.rules)
      /\ f.start \in Nat /\ f.start # 0
  BY FrameParts
<1>2. modname[c] = ModuleOf(Declarations, c)
  BY SameModule, GrammarAssumption DEF ModulesOK, Known
<1>3. Tree[c].arg \in Atom \cup {None} /\ Kw(c) # "$cut"
  <2>1. Tree[c] \in Statement
    BY TreeTyped
  <2>2. Kw(c) # "$cut"
    BY ScenarioAssumption DEF Tree, Nodes, Kw
  <2> QED  BY <2>1, <2>2 DEF Statement
<1>4. ASSUME NEW i \in DOMAIN f.rules PROVE Matches(f.rules[i], c) <=> Fits(c, f.rules[i])
  <2>1. f.rules[i] \in RuleType
    BY <1>1, <1>4
  <2> QED  BY <1>2, <2>1, MatchIsFit DEF ModulesOK
<1>5. S \in SUBSET (Nat \ {0}) /\ H \in SUBSET (Nat \ {0}) /\ H \subseteq S
  BY <1>1, <1>4
<1>6. hit = First(H) /\ H # {}
  <2>1. hit = First(H)
    BY DEF Hit
  <2> HIDE DEF H, hit
  <2> QED  BY <1>5, <2>1, FirstOf DEF hit
<1>7. hit \in H /\ hit \in S
  <2> HIDE DEF S, H, hit
  <2> QED  BY <1>5, <1>6, FirstOf
<1>8. ASSUME NEW y \in S, y < hit PROVE FALSE
  <2>1. y \in Nat /\ hit \in Nat /\ y \in DOMAIN f.rules /\ hit \in DOMAIN f.rules /\ f.start <= hit
    BY <1>1, <1>7
  <2>2. y < f.start
    <3> SUFFICES ASSUME ~(y < f.start)
                 PROVE  FALSE
      OBVIOUS
    <3>1. y \in H
      BY <1>1, <1>4, <1>8, <2>1
    <3>2. First(H) <= y
      <4> HIDE DEF H, hit
      <4> QED  BY <1>5, <3>1, FirstLeast
    <3> HIDE DEF H, hit
    <3> QED  BY <1>6, <1>8, <2>1, <3>2
  <2>3. PICK k : k = f.start - 1
    OBVIOUS
  <2>4. k \in DOMAIN f.rules /\ f.rules[k].name = Cut /\ k < hit /\ y <= k
    BY <1>1, <2>1, <2>2, <2>3 DEF StartOK
  <2>5. f.rules[y].name = <<modname[c], Kw(c)>> /\ f.rules[hit].name = <<modname[c], Kw(c)>>
    BY <1>2, <1>7, <1>8 DEF Fits
  <2>6. f.rules[y].name # Cut /\ y # k
    BY <1>3, <2>4, <2>5 DEF Cut
  <2>7. y < k
    BY <1>1, <2>1, <2>4, <2>6
  <2>8. PICK s \in DOMAIN Grammar : f.rules = Grammar[s].rules
    BY DEF OfGrammar
  <2> HIDE DEF hit
  <2> QED  BY <2>1, <2>4, <2>5, <2>6, <2>7, <2>8, AlternativesAssumption
<1>9. First(S) = hit
  <2>1. \A y \in S : hit <= y
    <3>1. hit \in Nat /\ \A y \in S : y \in Nat
      BY <1>5, <1>7
    <3> HIDE DEF S, hit
    <3> QED  BY <1>8, <3>1
  <2> HIDE DEF S, H, hit
  <2> QED  BY <1>5, <1>7, <2>1, FirstIs
<1>10. RuleFor(c, f.rules) = hit
  BY <1>9 DEF RuleFor
<1> HIDE DEF S, H
<1> QED  BY <1>10, RefRuleOf

-----------------------------------------------------------------------------
(* What match_rule does to the copy of the rules.                          *)
LEMMA LeftBehind ==
  ASSUME NEW f, FrameOK(f), StartOK(f), NEW n, NEW end
  PROVE  LET g == LeaveBehind(f, n, end)
         IN  /\ StartOK(g)
             /\ \A i \in DOMAIN f.rules :
                  \/ g.occ[i] = f.occ[i]
                  \/ g.occ[i] = "-" /\ scn.canonical /\ i \in Passed(f, n) /\ i < end
<1> DEFINE gone == {i \in Passed(f, n) : i < end}
           cuts == Cuts(f, gone)
           start == IF cuts = {} THEN f.start
                    ELSE (CHOOSE c \in cuts : \A d \in cuts : d <= c) + 1
           occ == [i \in DOMAIN f.occ |->
                     IF scn.canonical /\ i \in gone \ cuts THEN "-" ELSE f.occ[i]]
           g == LeaveBehind(f, n, end)
<1>1. cuts \subseteq 1 .. Len(f.rules) /\ \A c \in cuts : f.rules[c].name = Cut
  BY HitOK, FrameParts DEF Cuts
<1>2. start = f.start \/ (start - 1 \in DOMAIN f.rules /\ f.rules[start - 1].name = Cut)
  <2>1. CASE cuts = {}
    BY <2>1
  <2>2. CASE cuts # {}
    <3>1. cuts \in SUBSET (0 .. Len(f.rules)) /\ Len(f.rules) \in Nat
      BY <1>1, FrameParts
    <3> HIDE DEF cuts
    <3>2. \E c \in cuts : \A d \in cuts : d <= c
      BY <2>2, <3>1, GreatestNumber
    <3> DEFINE last == CHOOSE c \in cuts : \A d \in cuts : d <= c
    <3>3. last \in cuts
      BY <3>2
    <3>4. start = last + 1
      BY <2>2
    <3> HIDE DEF last, start
    <3>5. last \in Nat /\ last \in DOMAIN f.rules
      BY <1>1, <3>1, <3>3, FrameParts
    <3>6. start - 1 = last
      BY <3>4, <3>5
    <3> QED  BY <1>1, <3>3, <3>5, <3>6
  <2> QED  BY <2>1, <2>2
<1>3. g = [f EXCEPT !.start = start, !.occ = occ]
  BY DEF LeaveBehind
<1>4. ASSUME NEW i \in DOMAIN f.rules
      PROVE  \/ occ[i] = f.occ[i]
             \/ occ[i] = "-" /\ scn.canonical /\ i \in Passed(f, n) /\ i < end
  BY FrameParts
<1> HIDE DEF start, occ, g, gone, cuts
<1>5. g.rules = f.rules /\ g.occ = occ /\ g.start = start
  BY <1>3 DEF FrameOK
<1>6. StartOK(g)
  BY <1>2, <1>5 DEF StartOK
<1> QED  BY <1>4, <1>5, <1>6 DEF g

LEMMA OccKeeps ==
  ASSUME NEW f, FrameOK(f), StartOK(f), NEW i \in DOMAIN f.rules, NEW o \in Occ
  PROVE  LET g == [f EXCEPT !.occ[i] = o]
         IN  StartOK(g) /\ g.occ[i] = o /\ \A j \in DOMAIN f.rules : j # i => g.occ[j] = f.occ[j]
<1> DEFINE g == [f EXCEPT !.occ[i] = o]
<1>1. g.rules = f.rules /\ g.start = f.start
  BY DEF FrameOK
<1>2. g.occ[i] = o /\ \A j \in DOMAIN f.rules : j # i => g.occ[j] = f.occ[j]
  <2>1. g.occ = [f.occ EXCEPT ![i] = o]
    BY DEF FrameOK
  <2>2. f.occ \in [DOMAIN f.rules -> Occ]
    BY FrameParts
  <2> QED  BY <2>1, <2>2
<1> HIDE DEF g
<1>3. StartOK(g)
  BY <1>1 DEF StartOK
<1> QED  BY <1>2, <1>3 DEF g

(* A rule is taken; a rule is left as it is, or it may not come any more;  *)
(* none of the errors is for a rule.                                       *)
Used(old, new) ==
  (old \in {"1", "?"} /\ new = "0") \/ (old \in {"*", "+"} /\ new = "*")
Kept(old, new) == new = old \/ (new = "-" /\ old \notin Mandatory)
ForNoRule(E, i) ==
  \A e \in E : e.rule = i => e.code # "EXPECTED" /\ e.code # "EXPECTED_SUBSTATEMENT"

Taken(f, n, hit, old, m) ==
  /\ StartOK(m.frame)
  /\ \A j \in DOMAIN f.rules : j # hit => m.frame.occ[j] = f.occ[j]
  /\ \/ m.rule = hit /\ Used(f.occ[hit], m.frame.occ[hit]) /\ m.errors = old
     \/ /\ m.rule = 0 /\ m.frame.occ[hit] = f.occ[hit] /\ f.occ[hit] \notin Mandatory
        /\ \E code \in {"ALREADY_FOUND", "UNEXPECTED"} :
             m.errors = Append(old, Error(code, n, 0))
NoneMissing(E) == \A e \in E : e.code # "EXPECTED_SUBSTATEMENT"

LEMMA TakeChanges ==
  ASSUME NEW f, FrameOK(f), StartOK(f), NEW n, NEW hit, hit \in DOMAIN f.rules, NEW old,
         NEW m, m = TakeRule(f, n, hit, old)
  PROVE  Taken(f, n, hit, old, m)
<1>1. f.occ[hit] \in {"1", "?", "*", "+", "0", "-"}
  BY FrameParts DEF Occ, Occurrence
<1>2. "0" \in Occ /\ "*" \in Occ
  BY DEF Occ, Occurrence
<1>3. CASE f.occ[hit] \in {"1", "?"}
  <2> DEFINE g == [f EXCEPT !.occ[hit] = "0"]
  <2>1. m = Matched(hit, g, old)
    BY <1>3 DEF TakeRule
  <2>2. StartOK(g) /\ g.occ[hit] = "0" /\ \A j \in DOMAIN f.rules : j # hit => g.occ[j] = f.occ[j]
    BY <1>2, OccKeeps
  <2> HIDE DEF g
  <2>3. m.rule = hit /\ m.frame = g /\ m.errors = old
    BY <2>1 DEF Matched
  <2> QED  BY <1>3, <2>2, <2>3 DEF Taken, Used
<1>4. CASE f.occ[hit] = "*"
  <2>1. m.rule = hit /\ m.frame = f /\ m.errors = old
    BY <1>4 DEF TakeRule, Matched
  <2> QED  BY <1>4, <2>1 DEF Taken, Used
<1>5. CASE f.occ[hit] = "+"
  <2> DEFINE g == [f EXCEPT !.occ[hit] = "*"]
  <2>1. m = Matched(hit, g, old)
    BY <1>5 DEF TakeRule
  <2>2. StartOK(g) /\ g.occ[hit] = "*" /\ \A j \in DOMAIN f.rules : j # hit => g.occ[j] = f.occ[j]
    BY <1>2, OccKeeps
  <2> HIDE DEF g
  <2>3. m.rule = hit /\ m.frame = g /\ m.errors = old
    BY <2>1 DEF Matched
  <2> QED  BY <1>5, <2>2, <2>3 DEF Taken, Used
<1>6. CASE f.occ[hit] \in {"0", "-"}
  <2>1. PICK code \in {"ALREADY_FOUND", "UNEXPECTED"} :
          m = Matched(0, f, Append(old, Error(code, n, 0)))
    BY <1>6 DEF TakeRule
  <2>2. m.rule = 0 /\ m.frame = f /\ m.errors = Append(old, Error(code, n, 0))
    BY <2>1 DEF Matched
  <2>3. f.occ[hit] \notin Mandatory
    BY <1>6 DEF Mandatory
  <2> QED  BY <2>2, <2>3 DEF Taken
<1> QED  BY <1>1, <1>3, <1>4, <1>5, <1>6

LEMMA SkippedIs ==
  ASSUME NEW f, FrameOK(f), NEW n
  PROVE  /\ Skipped(f, n) # 0 => f.occ[Skipped(f, n)] \in Mandatory
         /\ \A i \in Passed(f, n) : scn.canonical /\ f.occ[i] \in Mandatory =>
              Skipped(f, n) # 0 /\ Skipped(f, n) <= i
<1> DEFINE K == {i \in Passed(f, n) :
                   /\ f.occ[i] \in Mandatory
                   /\ scn.canonical \/ \E c \in Cuts(f, Passed(f, n)) : i < c}
<1>1. Skipped(f, n) = First(K)
  BY DEF Skipped
<1>2. K \in SUBSET (Nat \ {0})
  BY HitOK, FrameParts
<1>3. \A i \in K : f.occ[i] \in Mandatory
  OBVIOUS
<1>4. \A i \in Passed(f, n) : scn.canonical /\ f.occ[i] \in Mandatory => i \in K
  OBVIOUS
<1> HIDE DEF K
<1>5. Skipped(f, n) # 0 => Skipped(f, n) \in K
  BY <1>1, <1>2, FirstOf
<1>6. \A i \in K : Skipped(f, n) \in K /\ Skipped(f, n) <= i
  BY <1>1, <1>2, FirstLeast
<1>7. 0 \notin K
  BY <1>2
<1> QED  BY <1>3, <1>4, <1>5, <1>6, <1>7

LEMMA MatchChanges ==
  ASSUME NEW f, FrameOK(f), StartOK(f), NEW n, NEW m, m = MatchRule(f, n)
  PROVE  /\ StartOK(m.frame)
         /\ m.rule # 0 => /\ m.rule = Hit(f, n)
                          /\ Used(f.occ[m.rule], m.frame.occ[m.rule])
         /\ m.rule = 0 => n \in Refused(Errs(m.errors))
         /\ \A i \in DOMAIN f.rules : i # m.rule =>
              \/ Kept(f.occ[i], m.frame.occ[i]) /\ ForNoRule(Errs(m.errors), i)
              \/ /\ m.rule = 0 /\ f.occ[i] \in Mandatory /\ m.frame.occ[i] = "0"
                 /\ m.errors = <<Error("EXPECTED", n, i)>>
         /\ m.rule # 0 => \A i : ForNoRule(Errs(m.errors), i)
         /\ NoneMissing(Errs(m.errors))
<1> DEFINE hit == Hit(f, n)
           skipped == Skipped(f, n)
<1>1. m = AfterSkipping(f, n, hit, skipped)
  BY DEF MatchRule
<1>2. \A code, r : /\ Error(code, n, r).at = n /\ Error(code, n, r).code = code
                   /\ Error(code, n, r).rule = r
  BY DEF Error
<1>3. Passed(f, n) \subseteq DOMAIN f.rules /\ DOMAIN f.rules \subseteq Nat \ {0}
  BY HitOK, FrameParts
<1>4. CASE skipped # 0
  <2> DEFINE g == LeaveBehind(f, n, skipped)
             e == Error("EXPECTED", n, skipped)
  <2>1. m.rule = 0 /\ m.frame = Given(g, skipped) /\ m.errors = <<e>>
    BY <1>1, <1>4 DEF AfterSkipping, Matched
  <2>2. /\ FrameOK(g) /\ g.rules = f.rules /\ StartOK(g)
        /\ \A i \in DOMAIN f.rules :
             \/ g.occ[i] = f.occ[i]
             \/ g.occ[i] = "-" /\ scn.canonical /\ i \in Passed(f, n) /\ i < skipped
    BY LeaveBehindOK, LeftBehind
  <2>3. skipped \in DOMAIN f.rules /\ skipped \in Nat /\ f.occ[skipped] \in Mandatory
    BY <1>3, <1>4, HitOK, SkippedIs
  <2>4. ASSUME NEW i \in DOMAIN f.rules PROVE Kept(f.occ[i], g.occ[i])
    <3>1. CASE g.occ[i] = f.occ[i]
      BY <3>1 DEF Kept
    <3>2. CASE g.occ[i] = "-" /\ scn.canonical /\ i \in Passed(f, n) /\ i < skipped
      <4>1. f.occ[i] \in Mandatory => skipped <= i
        BY <3>2, SkippedIs
      <4>2. i \in Nat
        BY <1>3
      <4> HIDE DEF g, skipped
      <4> QED  BY <2>3, <3>2, <4>1, <4>2 DEF Kept
    <3> QED  BY <2>2, <3>1, <3>2
  <2>5. Errs(m.errors) = {e}
    BY <2>1, ErrsShort
  <2>6. /\ n \in Refused(Errs(m.errors)) /\ \A i : i # skipped => ForNoRule(Errs(m.errors), i)
        /\ NoneMissing(Errs(m.errors))
    BY <1>2, <2>5 DEF Refused, Refusing, ForNoRule, NoneMissing
  <2>7. "0" \in Occ
    BY DEF Occ
  <2> HIDE DEF g, skipped, e
  <2>8. /\ StartOK(m.frame) /\ m.frame.occ[skipped] = "0"
        /\ \A i \in DOMAIN f.rules : i # skipped => m.frame.occ[i] = g.occ[i]
    BY <2>1, <2>2, <2>3, <2>7, OccKeeps DEF Given
  <2>9. ASSUME NEW i \in DOMAIN f.rules
        PROVE  \/ Kept(f.occ[i], m.frame.occ[i]) /\ ForNoRule(Errs(m.errors), i)
               \/ /\ m.rule = 0 /\ f.occ[i] \in Mandatory /\ m.frame.occ[i] = "0"
                  /\ m.errors = <<Error("EXPECTED", n, i)>>
    <3>1. CASE i = skipped
      BY <2>1, <2>3, <2>8, <3>1 DEF e
    <3>2. CASE i # skipped
      BY <2>4, <2>6, <2>8, <3>2
    <3> QED  BY <3>1, <3>2
  <2> QED  BY <2>1, <2>6, <2>8, <2>9
<1>5. ASSUME skipped = 0, NEW i \in DOMAIN f.rules, NEW end
      PROVE  Kept(f.occ[i], LeaveBehind(f, n, end).occ[i])
  <2>1. \/ LeaveBehind(f, n, end).occ[i] = f.occ[i]
        \/ LeaveBehind(f, n, end).occ[i] = "-" /\ scn.canonical /\ i \in Passed(f, n)
    BY LeftBehind
  <2> QED  BY <1>5, <2>1, SkippedIs DEF Kept
<1>6. CASE skipped = 0 /\ hit = 0
  <2> DEFINE g == LeaveBehind(f, n, Len(f.rules) + 1)
  <2>1. m.rule = 0 /\ m.frame = g /\ m.errors = <<Error("UNEXPECTED", n, 0)>>
    BY <1>1, <1>6 DEF AfterSkipping, Matched
  <2>2. Errs(m.errors) = {Error("UNEXPECTED", n, 0)}
    BY <2>1, ErrsShort
  <2>3. /\ n \in Refused(Errs(m.errors)) /\ \A i : ForNoRule(Errs(m.errors), i)
        /\ NoneMissing(Errs(m.errors))
    BY <1>2, <2>2 DEF Refused, Refusing, ForNoRule, NoneMissing
  <2>4. StartOK(g)
    BY LeftBehind
  <2>5. \A i \in DOMAIN f.rules : Kept(f.occ[i], m.frame.occ[i])
    BY <1>5, <1>6, <2>1
  <2> QED  BY <2>1, <2>3, <2>4, <2>5
<1>7. CASE skipped = 0 /\ hit # 0
  <2> DEFINE g == LeaveBehind(f, n, Len(f.rules) + 1)
             old == TooOld(f.rules[hit], n)
  <2>1. m = TakeRule(g, n, hit, old)
    BY <1>1, <1>7 DEF AfterSkipping
  <2>2. FrameOK(g) /\ g.rules = f.rules /\ StartOK(g)
    BY LeaveBehindOK, LeftBehind
  <2>3. hit \in DOMAIN f.rules /\ hit \in Nat
    BY <1>7, HitOK
  <2>4. \A i \in DOMAIN f.rules : Kept(f.occ[i], g.occ[i])
    BY <1>5, <1>7
  <2>5. g.occ[hit] = f.occ[hit]
    <3>1. hit \notin Passed(f, n)
      BY <1>7, <2>3, FrameParts DEF Passed
    <3> QED  BY <2>3, <3>1, LeaveBehindOK
  <2>6. old = <<>> \/ old = <<Error("UNEXPECTED_IN_VERSION", n, 0)>>
    BY DEF TooOld
  <2>7. ASSUME NEW x
        PROVE  /\ Errs(old) \subseteq {Error("UNEXPECTED_IN_VERSION", n, 0)}
               /\ Errs(Append(old, x)) \subseteq {Error("UNEXPECTED_IN_VERSION", n, 0), x}
               /\ x \in Errs(Append(old, x))
    <3> DEFINE a == Error("UNEXPECTED_IN_VERSION", n, 0)
    <3>1. old = <<>> \/ old = <<a>>
      BY <2>6
    <3> HIDE DEF old, a
    <3>2. CASE old = <<>>
      <4>1. Errs(old) = {} /\ Errs(Append(old, x)) = {x}
        BY <3>2, ErrsShort
      <4> QED  BY <4>1
    <3>3. CASE old = <<a>>
      <4>1. Errs(old) = {a} /\ Errs(Append(old, x)) = {a, x}
        BY <3>3, ErrsShort
      <4> QED  BY <4>1 DEF a
    <3> QED  BY <3>1, <3>2, <3>3 DEF a
  <2> HIDE DEF g, old, hit
  <2>8. /\ StartOK(m.frame)
        /\ \A j \in DOMAIN f.rules : j # hit => m.frame.occ[j] = g.occ[j]
        /\ \/ m.rule = hit /\ Used(f.occ[hit], m.frame.occ[hit]) /\ m.errors = old
           \/ /\ m.rule = 0 /\ m.frame.occ[hit] = f.occ[hit]
              /\ \E code \in {"ALREADY_FOUND", "UNEXPECTED"} :
                   m.errors = Append(old, Error(code, n, 0))
    <3>1. hit \in DOMAIN g.rules /\ DOMAIN g.rules = DOMAIN f.rules
      BY <2>2, <2>3
    <3>2. Taken(g, n, hit, old, m)
      BY <2>1, <2>2, <3>1, TakeChanges
    <3> QED  BY <2>5, <3>1, <3>2 DEF Taken
  <2>9. CASE m.rule = hit /\ Used(f.occ[hit], m.frame.occ[hit]) /\ m.errors = old
    <3>1. (\A i : ForNoRule(Errs(m.errors), i)) /\ NoneMissing(Errs(m.errors))
      BY <1>2, <2>7, <2>9 DEF ForNoRule, NoneMissing
    <3>2. m.rule # 0
      BY <1>7, <2>9 DEF hit
    <3> QED  BY <2>4, <2>8, <2>9, <3>1, <3>2 DEF hit
  <2>10. ASSUME m.rule = 0, m.frame.occ[hit] = f.occ[hit],
                NEW code \in {"ALREADY_FOUND", "UNEXPECTED"}, m.errors = Append(old, Error(code, n, 0))
         PROVE  /\ n \in Refused(Errs(m.errors)) /\ \A i : ForNoRule(Errs(m.errors), i)
                /\ NoneMissing(Errs(m.errors))
                /\ \A i \in DOMAIN f.rules : Kept(f.occ[i], m.frame.occ[i])
    <3>1. PICK x : x = Error(code, n, 0)
      OBVIOUS
    <3>2. /\ Errs(m.errors) \subseteq {Error("UNEXPECTED_IN_VERSION", n, 0), x}
          /\ x \in Errs(m.errors)
      BY <2>7, <2>10, <3>1
    <3>3. x.code = code /\ x.at = n
      BY <1>2, <3>1
    <3>4. n \in Refused(Errs(m.errors))
      BY <3>2, <3>3 DEF Refused, Refusing
    <3>5. (\A i : ForNoRule(Errs(m.errors), i)) /\ NoneMissing(Errs(m.errors))
      BY <1>2, <3>2, <3>3 DEF ForNoRule, NoneMissing
    <3>6. \A i \in DOMAIN f.rules : Kept(f.occ[i], m.frame.occ[i])
      BY <2>4, <2>8, <2>10 DEF Kept
    <3> QED  BY <3>4, <3>5, <3>6
  <2> QED  BY <2>8, <2>9, <2>10
<1> QED  BY <1>4, <1>6, <1>7

-----------------------------------------------------------------------------
(* The errors that say that rule i of what is in statement n was not met.  *)
Wants(e, n, i) ==
  e.rule = i /\ \/ e.code = "EXPECTED" /\ e.at \in Sub(n)
                \/ e.code = "EXPECTED_SUBSTATEMENT" /\ e.at = n
NoneFor(es, n, i) == \A k \in DOMAIN es : ~Wants(es[k], n, i)
OneFor(es, n, i) ==
  \E k \in DOMAIN es : Wants(es[k], n, i) /\ \A l \in DOMAIN es : Wants(es[l], n, i) => l = k

LEMMA NoneForErrs ==
  ASSUME NEW es, NEW n, NEW i
  PROVE  /\ NoneFor(es, n, i) <=> \A e \in Errs(es) : ~Wants(e, n, i)
         /\ ForNoRule(Errs(es), i) => NoneFor(es, n, i)
BY DEF NoneFor, Errs, ForNoRule, Wants

LEMMA ForConcat ==
  ASSUME NEW s, NEW t, IsSeq(s), IsSeq(t), NEW n, NEW i
  PROVE  /\ NoneFor(s, n, i) /\ NoneFor(t, n, i) => NoneFor(s \o t, n, i)
         /\ OneFor(s, n, i) /\ NoneFor(t, n, i) => OneFor(s \o t, n, i)
         /\ NoneFor(s, n, i) /\ OneFor(t, n, i) => OneFor(s \o t, n, i)
<1>1. PICK S : s \in Seq(S)
  BY DEF IsSeq
<1>2. PICK T : t \in Seq(T)
  BY DEF IsSeq
<1> DEFINE U == S \cup T
           u == s \o t
<1>3. s \in Seq(U) /\ t \in Seq(U)
  BY <1>1, <1>2
<1> HIDE DEF U
<1>4. /\ Len(s) \in Nat /\ Len(t) \in Nat /\ DOMAIN s = 1 .. Len(s) /\ DOMAIN t = 1 .. Len(t)
      /\ DOMAIN u = 1 .. Len(s) + Len(t)
      /\ \A k \in 1 .. Len(s) + Len(t) : u[k] = IF k <= Len(s) THEN s[k] ELSE t[k - Len(s)]
  BY <1>3
<1> HIDE DEF u
<1>5. ASSUME NEW k \in DOMAIN u
      PROVE  \/ k \in DOMAIN s /\ u[k] = s[k]
             \/ k - Len(s) \in DOMAIN t /\ u[k] = t[k - Len(s)] /\ k \notin DOMAIN s
  <2>1. CASE k <= Len(s)
    BY <1>4, <2>1
  <2>2. CASE ~(k <= Len(s))
    BY <1>4, <2>2
  <2> QED  BY <2>1, <2>2
<1>6. \A k \in DOMAIN s : k \in DOMAIN u /\ u[k] = s[k]
  BY <1>4
<1>7. ASSUME NEW k \in DOMAIN t PROVE k + Len(s) \in DOMAIN u /\ u[k + Len(s)] = t[k]
  BY <1>4
<1>8. \A k \in DOMAIN u, l \in DOMAIN t : k - Len(s) = l => k = l + Len(s)
  BY <1>4
<1>9. NoneFor(s, n, i) /\ NoneFor(t, n, i) => NoneFor(u, n, i)
  BY <1>5 DEF NoneFor
<1>10. ASSUME OneFor(s, n, i), NoneFor(t, n, i) PROVE OneFor(u, n, i)
  BY <1>5, <1>6, <1>10 DEF OneFor, NoneFor
<1>11. ASSUME NoneFor(s, n, i), OneFor(t, n, i) PROVE OneFor(u, n, i)
  <2>1. PICK k \in DOMAIN t : Wants(t[k], n, i) /\ \A l \in DOMAIN t : Wants(t[l], n, i) => l = k
    BY <1>11 DEF OneFor
  <2>2. k + Len(s) \in DOMAIN u /\ Wants(u[k + Len(s)], n, i)
    BY <1>7, <2>1
  <2>3. \A l \in DOMAIN u : Wants(u[l], n, i) => l = k + Len(s)
    BY <1>5, <1>8, <1>11, <2>1 DEF NoneFor
  <2> QED  BY <2>2, <2>3 DEF OneFor
<1> QED  BY <1>9, <1>10, <1>11 DEF u

(* At the end of a list each missing rule is reported once, and no other.  *)
LEMMA MissingFor ==
  ASSUME NEW f, FrameOK(f), f.parent # 0, NEW i \in DOMAIN f.rules
  PROVE  /\ i \in Missing(f) => OneFor(MissingErrors(f), f.parent, i)
         /\ i \notin Missing(f) => NoneFor(MissingErrors(f), f.parent, i)
         /\ \A n : n # f.parent => NoneFor(MissingErrors(f), n, i)
<1> DEFINE s == MissingErrors(f)
           c == Cardinality(Missing(f))
           order == InOrder(Missing(f))
<1>1. Len(f.rules) \in Nat /\ Missing(f) \in SUBSET (1 .. Len(f.rules))
  BY FrameParts DEF Missing
<1>2. /\ \A k \in 1 .. c : order[k] \in Missing(f)
      /\ \A m \in Missing(f) : \E k \in 1 .. c :
           order[k] = m /\ \A l \in 1 .. c : order[l] = m => l = k
  BY <1>1, EachOnce
<1>3. /\ DOMAIN s = 1 .. c
      /\ \A k \in 1 .. c : /\ s[k].at = f.parent /\ s[k].code = "EXPECTED_SUBSTATEMENT"
                           /\ s[k].rule = order[k]
  BY DEF MissingErrors, Error
<1> HIDE DEF s, c, order
<1>4. \A k \in 1 .. c : \A n : Wants(s[k], n, i) <=> n = f.parent /\ order[k] = i
  BY <1>3 DEF Wants
<1>5. i \in Missing(f) => OneFor(s, f.parent, i)
  BY <1>2, <1>3, <1>4 DEF OneFor
<1>6. i \notin Missing(f) => NoneFor(s, f.parent, i)
  BY <1>2, <1>3, <1>4 DEF NoneFor
<1>7. \A n : n # f.parent => NoneFor(s, n, i)
  BY <1>3, <1>4 DEF NoneFor
<1> QED  BY <1>5, <1>6, <1>7 DEF s

-----------------------------------------------------------------------------
(* The account of a statement n.  E: the errors in es; S: the statements   *)
(* still to come.  Found: a substatement that rule i admits was entered.   *)
(* While the call for n is under way, its copy of the rules tells what is  *)
(* found and reported.                                                     *)
Found(E, S, n, i) == \E c \in Sub(n) \ S : Clean(E, c) /\ RefRule(c) = i
Told(found, es, n, i) == IF found THEN NoneFor(es, n, i) ELSE OneFor(es, n, i)
RuleOK(o, found, es, n, i) ==
  IF o \in Mandatory THEN ~found /\ NoneFor(es, n, i)
  ELSE o # "?" /\ (o = "*" => found) /\ Told(found, es, n, i)
Must(n) == {i \in DOMAIN RefRules(n) : RefRules(n)[i].occ \in Mandatory}
RulesOK(f, E, S, es) ==
  \A i \in Must(f.parent) : RuleOK(f.occ[i], Found(E, S, f.parent, i), es, f.parent, i)
CallOK(f, E, S, es) ==
  /\ StartOK(f)
  /\ f.parent = 0 => f.rules = <<TopRule>>
  /\ f.parent # 0 => /\ f.rules = RefRules(f.parent) /\ OfGrammar(f.rules)
                     /\ RulesOK(f, E, S, es)

(* A statement is closed when the call for it is over.                     *)
Closed(E, s, n) ==
  /\ (Around(n) \cup {n}) \cap ToCome(s) = {} /\ n \notin OpenFrom(s, 1)
  /\ \A p \in Around(n) \cup {n} : Clean(E, p)
AllTold(E, S, es, n) == \A i \in Must(n) : Told(Found(E, S, n, i), es, n, i)
Account(es, s) ==
  /\ \A j \in 1 .. Len(s) : CallOK(s[j], Errs(es), ToCome(s), es)
  /\ \A n \in Nodes : Closed(Errs(es), s, n) => AllTold(Errs(es), ToCome(s), es, n)

(* What becomes of a rule when errors are added.                           *)
LEMMA RuleStays ==
  ASSUME NEW es, NEW new, IsSeq(es), IsSeq(new), NEW n, NEW i, NoneFor(new, n, i), NEW found
  PROVE  /\ Told(found, es, n, i) => Told(found, es \o new, n, i)
         /\ \A o, o2 : RuleOK(o, found, es, n, i) /\ Kept(o, o2) => RuleOK(o2, found, es \o new, n, i)
         /\ \A o, o2 : RuleOK(o, found, es, n, i) /\ Used(o, o2) => RuleOK(o2, TRUE, es \o new, n, i)
<1>1. /\ NoneFor(es, n, i) => NoneFor(es \o new, n, i)
      /\ OneFor(es, n, i) => OneFor(es \o new, n, i)
  BY ForConcat
<1>2. Told(found, es, n, i) => Told(found, es \o new, n, i)
  BY <1>1 DEF Told
<1>3. ASSUME NEW o, NEW o2, RuleOK(o, found, es, n, i), Kept(o, o2)
      PROVE  RuleOK(o2, found, es \o new, n, i)
  BY <1>1, <1>2, <1>3 DEF RuleOK, Kept, Mandatory
<1>4. ASSUME NEW o, NEW o2, RuleOK(o, found, es, n, i), Used(o, o2)
      PROVE  RuleOK(o2, TRUE, es \o new, n, i)
  <2>1. NoneFor(es, n, i)
    BY <1>4 DEF RuleOK, Used, Mandatory, Told
  <2> QED  BY <1>1, <1>4, <2>1 DEF RuleOK, Used, Mandatory, Told
<1> QED  BY <1>2, <1>3, <1>4

LEMMA RuleReported ==
  ASSUME NEW es, NEW new, IsSeq(es), IsSeq(new), NEW n, NEW i, OneFor(new, n, i), NEW found,
         NEW o \in Mandatory, RuleOK(o, found, es, n, i)
  PROVE  RuleOK("0", found, es \o new, n, i) /\ Told(found, es \o new, n, i)
<1>1. ~found /\ NoneFor(es, n, i)
  BY DEF RuleOK
<1>2. OneFor(es \o new, n, i)
  BY <1>1, ForConcat
<1> QED  BY <1>1, <1>2 DEF RuleOK, Told, Mandatory

(* Nothing changes for a statement when all in it is as it was.            *)
Same(E, S, E2, S2, n) ==
  \A c \in Sub(n) : (c \in S2 <=> c \in S) /\ (c \notin S => (Clean(E2, c) <=> Clean(E, c)))

LEMMA SameFound ==
  ASSUME NEW E, NEW S, NEW E2, NEW S2, NEW n, Same(E, S, E2, S2, n), NEW i
  PROVE  Found(E2, S2, n, i) = Found(E, S, n, i)
BY DEF Found, Same

LEMMA SameAccount ==
  ASSUME NEW es, NEW new, IsSeq(es), IsSeq(new), NEW E, NEW S, NEW E2, NEW S2, NEW n,
         Same(E, S, E2, S2, n), \A i \in Must(n) : NoneFor(new, n, i)
  PROVE  /\ AllTold(E, S, es, n) => AllTold(E2, S2, es \o new, n)
         /\ \A f, g : /\ f.parent = n /\ g.parent = n /\ g.occ = f.occ /\ RulesOK(f, E, S, es)
                      => RulesOK(g, E2, S2, es \o new)
<1>1. ASSUME NEW i \in Must(n)
      PROVE  /\ Told(Found(E, S, n, i), es, n, i) => Told(Found(E2, S2, n, i), es \o new, n, i)
             /\ \A o : RuleOK(o, Found(E, S, n, i), es, n, i)
                         => RuleOK(o, Found(E2, S2, n, i), es \o new, n, i)
  <2>1. PICK found : found = Found(E, S, n, i)
    OBVIOUS
  <2>2. Found(E2, S2, n, i) = found
    BY <2>1, SameFound
  <2>3. \A o : Kept(o, o)
    BY DEF Kept
  <2> QED  BY <2>1, <2>2, <2>3, RuleStays
<1> QED  BY <1>1 DEF AllTold, RulesOK

-----------------------------------------------------------------------------
(* What is left to look at is exactly what a step leaves of it.            *)
LEMMA MovedExactly ==
  ASSUME scn \in Scenario, NEW s, StackOK(s), PathOK(s), s[1].cur # 0,
         NEW g, g.parent = s[1].parent, g.cur = NextOf(s[1].cur),
         NEW t, t = <<g>> \o Tail(s)
  PROVE  ToCome(t) = ToCome(s) \ {s[1].cur}
<1>1. PICK T : s \in Seq(T)
  BY DEF StackOK, IsSeq
<1> DEFINE U == T \cup {g}
<1>2. s \in Seq(U) /\ g \in U
  BY <1>1
<1> HIDE DEF U
<1>3. s # <<>>
  BY DEF StackOK
<1>4. Len(t) = Len(s) /\ t[1] = g /\ \A i \in 2 .. Len(s) : t[i] = s[i]
  BY <1>2, <1>3
<1>5. Len(s) \in Nat \ {0} /\ 1 \in 1 .. Len(s)
  BY StackParts
<1>6. s[1].cur \in Nodes /\ Tree[s[1].cur].parent = s[1].parent
  BY <1>5 DEF PathOK
<1>7. ASSUME NEW m \in ToCome(s), m # s[1].cur PROVE m \in ToCome(t)
  <2>1. m \in Nodes /\ m \in Nat /\ s[1].cur \in Nat
    BY <1>6, ParentOf DEF ToCome
  <2>2. PICK i \in 1 .. Len(s) : /\ Tree[m].parent = s[i].parent /\ s[i].cur # 0
                                 /\ m >= s[i].cur /\ (i > 1 => m > s[i].cur)
    BY DEF ToCome
  <2>3. CASE i = 1
    <3> DEFINE S == {k \in Nodes : k > s[1].cur /\ Tree[k].parent = Tree[s[1].cur].parent}
    <3>1. m \in S
      BY <1>6, <1>7, <2>1, <2>2, <2>3
    <3>2. S \in SUBSET (Nat \ {0})
      BY ParentOf
    <3> HIDE DEF S
    <3>3. First(S) \in S /\ First(S) <= m
      BY <3>1, <3>2, FirstLeast
    <3>4. g.cur = First(S)
      BY DEF NextOf, S
    <3>5. g.cur # 0 /\ m >= g.cur
      BY <2>1, <3>2, <3>3, <3>4
    <3>6. /\ 1 \in 1 .. Len(t) /\ Tree[m].parent = t[1].parent /\ t[1].cur # 0 /\ m >= t[1].cur
          /\ ~(1 > 1)
      BY <1>4, <1>5, <2>2, <2>3, <3>5
    <3> QED  BY <2>1, <3>6 DEF ToCome
  <2>4. CASE i # 1
    <3>1. i \in 2 .. Len(s)
      BY <1>5, <2>4
    <3>2. i \in 1 .. Len(t) /\ t[i] = s[i]
      BY <1>4, <3>1
    <3> QED  BY <2>1, <2>2, <3>2 DEF ToCome
  <2> QED  BY <2>3, <2>4
<1>8. ToCome(t) \subseteq ToCome(s) \ {s[1].cur}
  BY MovedOn
<1> QED  BY <1>7, <1>8

LEMMA WentExactly ==
  ASSUME scn \in Scenario, NEW s, StackOK(s), PathOK(s), s[1].cur # 0,
         NEW h, h.parent = s[1].parent, h.cur = s[1].cur,
         NEW g, g.parent = s[1].cur, g.cur = First(Sub(s[1].cur)),
         NEW t, t = <<g, h>> \o Tail(s)
  PROVE  ToCome(t) = (ToCome(s) \ {s[1].cur}) \cup Sub(s[1].cur)
<1> PICK c : c = s[1].cur
  OBVIOUS
<1>1. PICK T : s \in Seq(T)
  BY DEF StackOK, IsSeq
<1> DEFINE U == T \cup {g, h}
<1>2. s \in Seq(U) /\ g \in U /\ h \in U
  BY <1>1
<1> HIDE DEF U
<1>3. s # <<>>
  BY DEF StackOK
<1>4. /\ Len(t) = Len(s) + 1 /\ t[1] = g /\ t[2] = h
      /\ \A i \in 3 .. Len(s) + 1 : t[i] = s[i - 1]
  BY <1>2, <1>3
<1>5. Len(s) \in Nat \ {0} /\ 1 \in 1 .. Len(s)
  BY StackParts
<1>6. c \in Nodes /\ c \in Nat
  BY <1>5, ParentOf DEF PathOK
<1>7. ASSUME NEW m \in ToCome(s), m # c PROVE m \in ToCome(t)
  <2>1. m \in Nodes /\ m \in Nat
    BY ParentOf DEF ToCome
  <2>2. PICK i \in 1 .. Len(s) : /\ Tree[m].parent = s[i].parent /\ s[i].cur # 0
                                 /\ m >= s[i].cur /\ (i > 1 => m > s[i].cur)
    BY DEF ToCome
  <2>3. /\ i + 1 \in 1 .. Len(t) /\ t[i + 1].parent = s[i].parent /\ t[i + 1].cur = s[i].cur
    <3>1. CASE i = 1
      BY <1>4, <1>5, <3>1
    <3>2. CASE i # 1
      <4>1. i + 1 \in 3 .. Len(s) + 1 /\ (i + 1) - 1 = i
        BY <1>5, <3>2
      <4> QED  BY <1>4, <1>5, <4>1
    <3> QED  BY <3>1, <3>2
  <2>4. m > s[i].cur
    <3>1. CASE i = 1
      BY <1>6, <1>7, <2>1, <2>2, <3>1
    <3>2. CASE i # 1
      <4>1. i > 1
        BY <1>5, <3>2
      <4> QED  BY <2>2, <4>1
    <3> QED  BY <3>1, <3>2
  <2> QED  BY <2>1, <2>2, <2>3, <2>4 DEF ToCome
<1>8. ASSUME NEW m \in Sub(c) PROVE m \in ToCome(t)
  <2>1. Sub(c) \in SUBSET (Nat \ {0}) /\ m \in Nodes /\ m \in Nat /\ Tree[m].parent = c
    BY ParentOf DEF Sub
  <2>2. First(Sub(c)) \in Sub(c) /\ First(Sub(c)) <= m
    BY <2>1, FirstLeast
  <2>3. g.cur # 0 /\ m >= g.cur
    BY <2>1, <2>2
  <2>4. /\ 1 \in 1 .. Len(t) /\ Tree[m].parent = t[1].parent /\ t[1].cur # 0 /\ m >= t[1].cur
        /\ ~(1 > 1)
    BY <1>4, <1>5, <2>1, <2>3
  <2> QED  BY <2>1, <2>4 DEF ToCome
<1>9. ToCome(t) \subseteq (ToCome(s) \ {c}) \cup Sub(c)
  BY WentIn
<1> QED  BY <1>7, <1>8, <1>9

LEMMA CameExactly ==
  ASSUME scn \in Scenario, NEW s, StackOK(s), PathOK(s), ~Single(s), s[1].cur = 0,
         NEW t, t = Tail(s)
  PROVE  /\ ToCome(s) \subseteq ToCome(t)
         /\ OpenFrom(s, 1) \subseteq OpenFrom(t, 1) \cup {s[1].parent}
         /\ \A j \in 1 .. Len(t) : j + 1 \in 2 .. Len(s) /\ t[j] = s[j + 1]
<1>1. PICK T : s \in Seq(T)
  BY DEF StackOK, IsSeq
<1>2. Len(s) \in Nat /\ Len(s) > 1
  <2>1. Len(s) \in Nat \ {0}
    BY StackParts
  <2> QED  BY <2>1, OneOrMore DEF Single
<1>3. Len(t) = Len(s) - 1 /\ \A i \in 1 .. Len(s) - 1 : t[i] = s[i + 1]
  BY <1>1, <1>2
<1>4. \A j \in 2 .. Len(s) : j - 1 \in 1 .. Len(t) /\ t[j - 1] = s[j]
  <2>1. \A j \in 2 .. Len(s) : j - 1 \in 1 .. Len(s) - 1 /\ (j - 1) + 1 = j
    BY <1>2
  <2> QED  BY <1>3, <2>1
<1>5. ASSUME NEW m \in ToCome(s) PROVE m \in ToCome(t)
  <2>1. m \in Nodes /\ m \in Nat
    BY ParentOf DEF ToCome
  <2>2. PICK i \in 1 .. Len(s) : /\ Tree[m].parent = s[i].parent /\ s[i].cur # 0
                                 /\ m >= s[i].cur /\ (i > 1 => m > s[i].cur)
    BY DEF ToCome
  <2>3. i \in 2 .. Len(s) /\ i > 1
    BY <1>2, <2>2
  <2>4. /\ i - 1 \in 1 .. Len(t) /\ Tree[m].parent = t[i - 1].parent /\ t[i - 1].cur # 0
        /\ m >= t[i - 1].cur /\ m > t[i - 1].cur
    BY <1>4, <2>2, <2>3
  <2> QED  BY <2>1, <2>4 DEF ToCome
<1>6. ASSUME NEW p \in OpenFrom(s, 1) PROVE p \in OpenFrom(t, 1) \cup {s[1].parent}
  <2>1. p # 0 /\ \E j \in 1 .. Len(s) : p = s[j].parent
    BY DEF OpenFrom
  <2>2. PICK j \in 1 .. Len(s) : p = s[j].parent
    BY <2>1
  <2>3. j = 1 \/ j \in 2 .. Len(s)
    BY <1>2
  <2>4. j \in 2 .. Len(s) => p \in OpenFrom(t, 1)
    BY <1>4, <2>1, <2>2 DEF OpenFrom
  <2> QED  BY <2>2, <2>3, <2>4
<1>7. \A j \in 1 .. Len(t) : j + 1 \in 2 .. Len(s) /\ t[j] = s[j + 1]
  BY <1>2, <1>3
<1> QED  BY <1>5, <1>6, <1>7

(* Under a statement around another there is one that leads to that one;   *)
(* and all are in the first statement.                                     *)
LEMMA LeadsTo ==
  ASSUME scn \in Scenario
  PROVE  \A n \in Nodes :
           /\ 1 \in Around(n) \cup {n}
           /\ \A c \in Around(n) : \E m \in Around(n) \cup {n} : m \in Sub(c)
<1> DEFINE Good(n) == /\ 1 \in Around(n) \cup {n}
                      /\ \A c \in Around(n) : \E m \in Around(n) \cup {n} : m \in Sub(c)
           A == {k \in Nat : \A n \in Nodes : n <= k => Good(n)}
<1>1. 0 \in A
  BY ParentOf
<1>2. ASSUME NEW k \in Nat, k \in A PROVE k + 1 \in A
  <2> SUFFICES ASSUME NEW n \in Nodes, n <= k + 1
               PROVE  Good(n)
    OBVIOUS
  <2>1. CASE n = 1
    BY <2>1, AroundOf
  <2>2. CASE n # 1
    <3>1. /\ Tree[n].parent \in Nodes /\ Tree[n].parent < n
          /\ n \in Nat /\ Tree[n].parent \in Nat
      BY <2>2, ParentOf
    <3> DEFINE p == Tree[n].parent
    <3>2. Good(p)
      BY <1>2, <3>1
    <3>3. Around(n) = {p} \cup Around(p) /\ n \in Sub(p)
      BY <2>2, AroundOf DEF Sub
    <3> HIDE DEF p
    <3> QED  BY <3>2, <3>3
  <2> QED  BY <2>1, <2>2
<1>3. ASSUME NEW n \in Nodes PROVE Good(n)
  <2>1. n \in A
    <3> HIDE DEF A
    <3> QED  BY <1>1, <1>2, NumberInduction, ParentOf
  <2>2. n <= n
    BY ParentOf
  <2> QED  BY <2>1, <2>2
<1> QED  BY <1>3

-----------------------------------------------------------------------------
(* The steps keep the account.                                             *)
Alike(f, g) ==
  g.parent = f.parent /\ g.occ = f.occ /\ g.rules = f.rules /\ g.start = f.start

LEMMA CallStays ==
  ASSUME NEW es, NEW new, IsSeq(es), IsSeq(new), NEW E, NEW S, NEW E2, NEW S2,
         NEW f, CallOK(f, E, S, es), NEW g, Alike(f, g),
         f.parent # 0 => /\ Same(E, S, E2, S2, f.parent)
                         /\ \A i \in Must(f.parent) : NoneFor(new, f.parent, i)
  PROVE  CallOK(g, E2, S2, es \o new)
<1>1. StartOK(g) /\ (g.parent = 0 => g.rules = <<TopRule>>) /\ g.parent = f.parent
  BY DEF CallOK, StartOK, Alike
<1>2. ASSUME f.parent # 0 PROVE RulesOK(g, E2, S2, es \o new)
  <2>1. PICK n : n = f.parent
    OBVIOUS
  <2>2. Same(E, S, E2, S2, n) /\ \A i \in Must(n) : NoneFor(new, n, i)
    BY <1>2, <2>1
  <2>3. f.parent = n /\ g.parent = n /\ g.occ = f.occ /\ RulesOK(f, E, S, es)
    BY <1>2, <2>1 DEF CallOK, Alike
  <2> QED  BY <2>2, <2>3, SameAccount
<1> QED  BY <1>1, <1>2 DEF CallOK, Alike

(* A statement that is skipped or rejected.                                *)
LEMMA AccountMoved ==
  ASSUME scn \in Scenario, NEW es, NEW new, IsSeq(es), IsSeq(new),
         NEW s, StackOK(s), PathInv(Errs(es), s), Account(es, s), s[1].cur # 0,
         NEW g, g.parent = s[1].parent, g.cur = NextOf(s[1].cur), g.rules = s[1].rules, StartOK(g),
         \A i \in DOMAIN s[1].rules :
           \/ Kept(s[1].occ[i], g.occ[i]) /\ ForNoRule(Errs(new), i)
           \/ /\ s[1].occ[i] \in Mandatory /\ g.occ[i] = "0"
              /\ new = <<Error("EXPECTED", s[1].cur, i)>>,
         NoneMissing(Errs(new)), \A e \in Errs(new) : e.at = s[1].cur,
         ~Known(s[1].cur) \/ s[1].cur \in Refused(Errs(new)),
         NEW t, t = <<g>> \o Tail(s)
  PROVE  Account(es \o new, t)
<1> PICK c, p : c = s[1].cur /\ p = s[1].parent
  OBVIOUS
<1> DEFINE E == Errs(es)
           N == Errs(new)
           S == ToCome(s)
           E2 == E \cup N
           S2 == S \ {c}
<1>1. E2 = Errs(es \o new)
  BY ErrsConcat
<1>2. PathOK(s) /\ Len(s) \in Nat \ {0} /\ 1 \in 1 .. Len(s)
  BY StackParts DEF PathInv
<1>3. c \in Nodes /\ Tree[c].parent = p /\ c \in S
  BY <1>2, OpenAround DEF PathOK
<1>4. /\ \A x : x # c => (Clean(E2, x) <=> Clean(E, x))
      /\ \A x : Clean(E2, x) => Clean(E, x)
      /\ ~Clean(E2, c)
  <2>1. Refused(E2) = Refused(E) \cup Refused(N)
    BY DEF Refused
  <2>2. Refused(N) \subseteq {c}
    BY DEF Refused
  <2> HIDE DEF E2
  <2> QED  BY <2>1, <2>2 DEF Clean
<1>5. \A q : q # p => c \notin Sub(q)
  BY <1>3 DEF Sub
<1>6. \A q : q # p => Same(E, S, E2, S2, q)
  <2> HIDE DEF E, E2, S
  <2> QED  BY <1>4, <1>5 DEF Same
<1>7. \A i : Found(E2, S2, p, i) = Found(E, S, p, i)
  <2> HIDE DEF E, E2, S
  <2> QED  BY <1>3, <1>4 DEF Found
<1>8. \A q, i : q # p => NoneFor(new, q, i)
  <2>1. \A q, i : q # p => \A e \in N : ~Wants(e, q, i)
    BY <1>5 DEF Wants, NoneMissing
  <2> QED  BY <2>1, NoneForErrs
<1>9. ToCome(t) = S2 /\ OpenFrom(t, 1) = OpenFrom(s, 1)
  BY <1>2, MovedExactly, MovedOn
<1>10. Len(t) = Len(s) /\ t[1] = g /\ \A j \in 2 .. Len(s) : t[j] = s[j]
  <2>1. PICK T : s \in Seq(T)
    BY DEF StackOK, IsSeq
  <2> DEFINE U == T \cup {g}
  <2>2. s \in Seq(U) /\ g \in U
    BY <2>1
  <2> HIDE DEF U
  <2>3. s # <<>>
    BY DEF StackOK
  <2> QED  BY <2>2, <2>3
<1>11. \A j \in 1 .. Len(s) : CallOK(s[j], E, S, es)
  BY DEF Account
<1>12. CallOK(g, E2, S2, es \o new)
  <2>1. CallOK(s[1], E, S, es)
    BY <1>2, <1>11
  <2>2. ASSUME p # 0, NEW i \in Must(p)
        PROVE  RuleOK(g.occ[i], Found(E2, S2, p, i), es \o new, p, i)
    <3>1. i \in DOMAIN s[1].rules /\ RuleOK(s[1].occ[i], Found(E, S, p, i), es, p, i)
      BY <2>1, <2>2 DEF CallOK, RulesOK, Must
    <3>2. PICK found : found = Found(E, S, p, i)
      OBVIOUS
    <3>3. CASE Kept(s[1].occ[i], g.occ[i]) /\ ForNoRule(N, i)
      <4>1. NoneFor(new, p, i)
        BY <3>3, NoneForErrs
      <4>2. RuleOK(g.occ[i], found, es \o new, p, i)
        BY <3>1, <3>2, <3>3, <4>1, RuleStays
      <4> QED  BY <1>7, <3>2, <4>2
    <3>4. CASE /\ s[1].occ[i] \in Mandatory /\ g.occ[i] = "0"
               /\ new = <<Error("EXPECTED", c, i)>>
      <4>1. OneFor(new, p, i)
        <5>1. Wants(Error("EXPECTED", c, i), p, i)
          BY <1>3 DEF Wants, Error, Sub
        <5>2. DOMAIN new = {1} /\ new[1] = Error("EXPECTED", c, i)
          BY <3>4
        <5> QED  BY <5>1, <5>2 DEF OneFor
      <4>2. RuleOK("0", found, es \o new, p, i)
        BY <3>1, <3>2, <3>4, <4>1, RuleReported
      <4> QED  BY <1>7, <3>2, <3>4, <4>2
    <3> QED  BY <3>1, <3>3, <3>4
  <2> HIDE DEF E, S, E2, S2
  <2> QED  BY <2>1, <2>2 DEF CallOK, RulesOK
<1>13. ASSUME NEW j \in 2 .. Len(s) PROVE CallOK(s[j], E2, S2, es \o new)
  <2>1. s[j].parent # p /\ CallOK(s[j], E, S, es) /\ Alike(s[j], s[j])
    <3>1. j \in 1 .. Len(s)
      BY <1>2
    <3> QED  BY <1>2, <1>11, <3>1, ParentsDiffer DEF Alike
  <2> HIDE DEF E, S, E2, S2
  <2> QED  BY <1>6, <1>8, <2>1, CallStays
<1>14. ASSUME NEW n \in Nodes, Closed(E2, t, n) PROVE AllTold(E2, S2, es \o new, n)
  <2>1. n # p
    <3>1. p # 0 => p \in OpenFrom(s, 1)
      BY <1>2 DEF OpenFrom
    <3>2. n # 0
      BY ParentOf
    <3> QED  BY <1>9, <1>14, <3>1, <3>2 DEF Closed
  <2>2. Closed(E, s, n)
    <3>1. c \notin Around(n) \cup {n}
      BY <1>4, <1>14 DEF Closed
    <3> HIDE DEF E, E2
    <3> QED  BY <1>4, <1>9, <1>14, <3>1 DEF Closed
  <2>3. AllTold(E, S, es, n)
    BY <2>2 DEF Account
  <2>4. Same(E, S, E2, S2, n) /\ \A i \in Must(n) : NoneFor(new, n, i)
    BY <1>6, <1>8, <2>1
  <2> HIDE DEF E, S, E2, S2
  <2> QED  BY <2>3, <2>4, SameAccount
<1>15. \A j \in 1 .. Len(t) : CallOK(t[j], E2, S2, es \o new)
  <2> SUFFICES ASSUME NEW j \in 1 .. Len(s)
               PROVE  CallOK(t[j], E2, S2, es \o new)
    BY <1>10
  <2>1. j = 1 \/ j \in 2 .. Len(s)
    BY <1>2
  <2> QED  BY <1>10, <1>12, <1>13, <2>1
<1> HIDE DEF E, S, E2, S2
<1> QED  BY <1>1, <1>9, <1>14, <1>15 DEF Account

(* A statement that is entered.                                            *)
LEMMA AccountEntered ==
  ASSUME scn \in Scenario, NEW es, NEW new, IsSeq(es), IsSeq(new),
         NEW s, StackOK(s), PathInv(Errs(es), s), Account(es, s),
         s[1].cur # 0, Known(s[1].cur),
         NEW h, h.parent = s[1].parent, h.cur = s[1].cur, h.rules = s[1].rules, StartOK(h),
         NEW rule, Used(s[1].occ[rule], h.occ[rule]),
         \A i \in DOMAIN s[1].rules : i # rule => Kept(s[1].occ[i], h.occ[i]),
         s[1].parent # 0 => RefRule(s[1].cur) = rule,
         NEW g, g.parent = s[1].cur, g.cur = First(Sub(s[1].cur)), g.rules = RefRules(s[1].cur),
         OfGrammar(g.rules), StartOK(g), \A i \in DOMAIN g.rules : g.occ[i] = g.rules[i].occ,
         \A e \in Errs(new) : e.at = s[1].cur /\ e.code \notin Refusing,
         \A i : ForNoRule(Errs(new), i),
         NEW t, t = <<g, h>> \o Tail(s)
  PROVE  Account(es \o new, t)
<1> PICK c, p : c = s[1].cur /\ p = s[1].parent
  OBVIOUS
<1> DEFINE E == Errs(es)
           N == Errs(new)
           S == ToCome(s)
           E2 == E \cup N
           S2 == (S \ {c}) \cup Sub(c)
<1>1. E2 = Errs(es \o new)
  BY ErrsConcat
<1>2. PathOK(s) /\ Len(s) \in Nat \ {0} /\ 1 \in 1 .. Len(s)
  BY StackParts DEF PathInv
<1>3. c \in Nodes /\ Tree[c].parent = p /\ c \in S /\ c # 0 /\ p # c /\ Around(c) = OpenFrom(s, 1)
  <2>1. c \in Nodes /\ Tree[c].parent = p /\ c \in S /\ Around(c) = OpenFrom(s, 1)
    BY <1>2, OpenAround DEF PathOK
  <2>2. c \in Nat \ {0} /\ (c = 1 => p = 0) /\ (c # 1 => p \in Nodes /\ p < c)
    BY <2>1, ParentOf
  <2>3. c # 1 => p \in Nat
    BY <2>2, ParentOf
  <2>4. p # c
    BY <2>2, <2>3
  <2> QED  BY <2>1, <2>2, <2>4
<1>4. \A x : Clean(E2, x) <=> Clean(E, x)
  <2>1. Refused(E2) = Refused(E)
    BY DEF Refused
  <2> HIDE DEF E, E2
  <2> QED  BY <2>1 DEF Clean
<1>5. Clean(E, c)
  <2>1. c \notin Refused(E)
    BY <1>3 DEF PathInv, Refused, Refusing, Prefixes
  <2> QED  BY <2>1 DEF Clean
<1>6. \A q : q # p => c \notin Sub(q)
  BY <1>3 DEF Sub
<1>7. \A q : q # c => Sub(q) \cap Sub(c) = {}
  BY DEF Sub
<1>8. \A q : q # p /\ q # c => Same(E, S, E2, S2, q)
  <2> HIDE DEF E, E2, S
  <2> QED  BY <1>4, <1>6, <1>7 DEF Same
<1>9. \A q, i : NoneFor(new, q, i)
  BY NoneForErrs
<1>10. /\ \A i : i # rule /\ p # 0 => Found(E2, S2, p, i) = Found(E, S, p, i)
       /\ p # 0 => Found(E2, S2, p, rule) = TRUE
  <2>1. c \in Sub(p) /\ c \notin Sub(c) /\ Sub(p) \cap Sub(c) = {}
    BY <1>3, <1>7 DEF Sub
  <2>2. p # 0 => RefRule(c) = rule
    OBVIOUS
  <2> HIDE DEF E, E2, S
  <2> QED  BY <1>3, <1>4, <1>5, <2>1, <2>2 DEF Found
<1>11. ToCome(t) = S2 /\ OpenFrom(t, 1) = OpenFrom(s, 1) \cup {c}
  <2>1. ToCome(t) = S2
    BY <1>2, WentExactly
  <2>2. OpenFrom(t, 1) = OpenFrom(s, 1) \cup {c}
    BY <1>2, WentIn
  <2> QED  BY <2>1, <2>2
<1>12. /\ Len(t) = Len(s) + 1 /\ t[1] = g /\ t[2] = h
       /\ \A i \in 3 .. Len(s) + 1 : t[i] = s[i - 1] /\ i - 1 \in 2 .. Len(s)
  <2>1. PICK T : s \in Seq(T)
    BY DEF StackOK, IsSeq
  <2> DEFINE U == T \cup {g, h}
  <2>2. s \in Seq(U) /\ g \in U /\ h \in U
    BY <2>1
  <2> HIDE DEF U
  <2>3. s # <<>>
    BY DEF StackOK
  <2> QED  BY <2>2, <2>3
<1>13. \A j \in 1 .. Len(s) : CallOK(s[j], E, S, es)
  BY DEF Account
<1>14. CallOK(h, E2, S2, es \o new)
  <2>1. CallOK(s[1], E, S, es)
    BY <1>2, <1>13
  <2>2. ASSUME p # 0, NEW i \in Must(p)
        PROVE  RuleOK(h.occ[i], Found(E2, S2, p, i), es \o new, p, i)
    <3>1. i \in DOMAIN s[1].rules /\ RuleOK(s[1].occ[i], Found(E, S, p, i), es, p, i)
      BY <2>1, <2>2 DEF CallOK, RulesOK, Must
    <3>2. PICK found : found = Found(E, S, p, i)
      OBVIOUS
    <3>3. NoneFor(new, p, i)
      BY <1>9
    <3>4. CASE i # rule
      <4>1. RuleOK(h.occ[i], found, es \o new, p, i)
        BY <3>1, <3>2, <3>3, <3>4, RuleStays
      <4> QED  BY <1>10, <2>2, <3>2, <3>4, <4>1
    <3>5. CASE i = rule
      <4>1. RuleOK(h.occ[i], TRUE, es \o new, p, i)
        BY <3>1, <3>2, <3>3, <3>5, RuleStays
      <4> QED  BY <1>10, <2>2, <3>5, <4>1
    <3> QED  BY <3>4, <3>5
  <2> HIDE DEF E, S, E2, S2
  <2> QED  BY <2>1, <2>2 DEF CallOK, RulesOK
<1>15. CallOK(g, E2, S2, es \o new)
  <2>1. ASSUME NEW i \in Must(c) PROVE RuleOK(g.occ[i], Found(E2, S2, c, i), es \o new, c, i)
    <3>1. ~Found(E2, S2, c, i)
      BY DEF Found
    <3>2. NoneFor(es, c, i)
      <4> SUFFICES ASSUME NEW e \in E, Wants(e, c, i)
                   PROVE  FALSE
        BY NoneForErrs
      <4>1. e.code \notin Prefixes /\ (e.at = c \/ e.at \in Sub(c))
        BY DEF Wants, Prefixes
      <4>2. e.at \in Nodes /\ (Around(e.at) \cup {e.at}) \cap S = {}
        BY <4>1 DEF PathInv
      <4>3. e.at \in Sub(c) => c \in Around(e.at)
        <5>1. e.at \in Sub(c) => e.at # 1 /\ Tree[e.at].parent = c
          BY <1>3, <4>2, ParentOf DEF Sub
        <5> QED  BY <4>2, <5>1, AroundOf
      <4> QED  BY <1>3, <4>1, <4>2, <4>3
    <3>3. NoneFor(es \o new, c, i)
      BY <1>9, <3>2, ForConcat
    <3>4. g.occ[i] \in Mandatory
      BY <2>1 DEF Must
    <3> QED  BY <3>1, <3>3, <3>4 DEF RuleOK
  <2> HIDE DEF E, S, E2, S2
  <2> QED  BY <1>3, <2>1 DEF CallOK, RulesOK
<1>16. ASSUME NEW j \in 2 .. Len(s) PROVE CallOK(s[j], E2, S2, es \o new)
  <2>1. s[j].parent # p /\ CallOK(s[j], E, S, es) /\ Alike(s[j], s[j])
    <3>1. j \in 1 .. Len(s)
      BY <1>2
    <3> QED  BY <1>2, <1>13, <3>1, ParentsDiffer DEF Alike
  <2>2. s[j].parent # c
    <3>1. j \in 1 .. Len(s)
      BY <1>2
    <3>2. s[j].parent # 0 => s[j].parent \in OpenFrom(s, 1)
      BY <3>1 DEF OpenFrom
    <3>3. c \notin OpenFrom(s, 1)
      BY <1>3 DEF PathInv
    <3> QED  BY <1>3, <3>2, <3>3
  <2> HIDE DEF E, S, E2, S2
  <2> QED  BY <1>8, <1>9, <2>1, <2>2, CallStays
<1>17. ASSUME NEW n \in Nodes, Closed(E2, t, n) PROVE AllTold(E2, S2, es \o new, n)
  <2>1. n # c /\ n \notin OpenFrom(s, 1)
    BY <1>11, <1>17 DEF Closed
  <2>2. n # p
    <3>1. p # 0 => p \in OpenFrom(s, 1)
      BY <1>2 DEF OpenFrom
    <3>2. n # 0
      BY ParentOf
    <3> QED  BY <2>1, <3>1, <3>2
  <2>3. c \notin Around(n)
    BY <1>11, <1>17, LeadsTo DEF Closed
  <2>4. Closed(E, s, n)
    <3> HIDE DEF E, E2, S
    <3>1. (Around(n) \cup {n}) \cap S = {}
      BY <1>11, <1>17, <2>1, <2>3 DEF Closed
    <3>2. \A q \in Around(n) \cup {n} : Clean(E, q)
      BY <1>4, <1>17 DEF Closed
    <3> QED  BY <2>1, <3>1, <3>2 DEF Closed, S
  <2>5. AllTold(E, S, es, n)
    BY <2>4 DEF Account
  <2>6. Same(E, S, E2, S2, n) /\ \A i \in Must(n) : NoneFor(new, n, i)
    BY <1>8, <1>9, <2>1, <2>2
  <2> HIDE DEF E, S, E2, S2
  <2> QED  BY <2>5, <2>6, SameAccount
<1>18. \A j \in 1 .. Len(t) : CallOK(t[j], E2, S2, es \o new)
  <2> SUFFICES ASSUME NEW j \in 1 .. Len(s) + 1
               PROVE  CallOK(t[j], E2, S2, es \o new)
    BY <1>12
  <2>1. j = 1 \/ j = 2 \/ j \in 3 .. Len(s) + 1
    BY <1>2
  <2> QED  BY <1>12, <1>14, <1>15, <1>16, <2>1
<1> HIDE DEF E, S, E2, S2
<1> QED  BY <1>1, <1>11, <1>17, <1>18 DEF Account

(* The end of a list.                                                      *)
LEMMA AccountReturned ==
  ASSUME scn \in Scenario, NEW es, IsSeq(es),
         NEW s, StackOK(s), ~Single(s), PathInv(Errs(es), s), Account(es, s), s[1].cur = 0,
         NEW g, g.cur = NextOf(s[2].cur), Alike(s[2], g),
         NEW t, t = <<g>> \o Tail(Tail(s))
  PROVE  Account(es \o MissingErrors(s[1]), t)
<1> PICK p, f, new : p = s[1].parent /\ f = s[1] /\ new = MissingErrors(f)
  OBVIOUS
<1> PICK u : u = Tail(s)
  OBVIOUS
<1> DEFINE E == Errs(es)
           N == Errs(new)
           S == ToCome(s)
           E2 == E \cup N
<1>1. PathOK(s) /\ Len(s) \in Nat \ {0} /\ 1 \in 1 .. Len(s) /\ FrameOK(f)
  BY StackParts DEF PathInv
<1>2. StackOK(u) /\ u[1] = s[2]
  BY Returned
<1>3. /\ PathOK(u) /\ OpenFrom(u, 1) \subseteq OpenFrom(s, 1)
      /\ ToCome(u) \subseteq S \cup {p} /\ s[2].cur = p /\ p # 0
  BY <1>1, CameBack
<1>4. /\ S \subseteq ToCome(u) /\ OpenFrom(s, 1) \subseteq OpenFrom(u, 1) \cup {p}
      /\ \A j \in 1 .. Len(u) : j + 1 \in 2 .. Len(s) /\ u[j] = s[j + 1]
  BY <1>1, CameExactly
<1>5. IsSeq(new)
  BY <1>1, <1>3, MissingErrorsOK
<1>6. E2 = Errs(es \o new)
  BY <1>5, ErrsConcat
<1>7. p \in OpenFrom(s, 1) /\ p \notin S
  <2>1. p \in OpenFrom(s, 1)
    BY <1>1, <1>3 DEF OpenFrom
  <2> QED  BY <2>1 DEF PathInv
<1>8. /\ u[1].cur # 0 /\ g.parent = u[1].parent /\ g.cur = NextOf(u[1].cur)
      /\ t = <<g>> \o Tail(u)
  BY <1>2, <1>3 DEF Alike
<1>9. ToCome(t) = S /\ OpenFrom(t, 1) = OpenFrom(u, 1)
  <2>1. ToCome(t) = ToCome(u) \ {u[1].cur}
    BY <1>2, <1>3, <1>8, MovedExactly
  <2>2. OpenFrom(t, 1) = OpenFrom(u, 1)
    BY <1>2, <1>3, <1>8, MovedOn
  <2>3. u[1].cur = p
    BY <1>2, <1>3
  <2> HIDE DEF S
  <2>4. ToCome(t) = S
    <3>1. PICK a, b : a = ToCome(t) /\ b = ToCome(u)
      OBVIOUS
    <3>2. a = b \ {p} /\ b \subseteq S \cup {p} /\ S \subseteq b /\ p \notin S
      BY <1>3, <1>4, <1>7, <2>1, <2>3, <3>1
    <3>3. a = S
      BY <3>2
    <3> QED  BY <3>1, <3>3
  <2> QED  BY <2>2, <2>4
<1>10. \A x : Clean(E2, x) <=> Clean(E, x)
  <2>1. \A e \in N : e.code \notin Refusing
    BY OtherErrors
  <2>2. Refused(E2) = Refused(E)
    <3> HIDE DEF N
    <3> QED  BY <2>1 DEF Refused
  <2> HIDE DEF E, E2
  <2> QED  BY <2>2 DEF Clean
<1>11. \A q : Same(E, S, E2, S, q)
  <2> HIDE DEF E, E2, S
  <2> QED  BY <1>10 DEF Same
<1>12. \A q, i : q # p => NoneFor(new, q, i)
  <2> SUFFICES ASSUME NEW q, q # p, NEW i
               PROVE  \A e \in N : ~Wants(e, q, i)
    BY NoneForErrs
  <2>1. \A e \in N : e.at = p /\ e.code \notin Refusing
    BY OtherErrors
  <2> QED  BY <2>1 DEF Wants, Refusing
<1>13. \A j \in 1 .. Len(s) : CallOK(s[j], E, S, es)
  BY DEF Account
<1>14. ASSUME NEW j \in 2 .. Len(s), NEW k, Alike(s[j], k) PROVE CallOK(k, E2, S, es \o new)
  <2>1. s[j].parent # p /\ CallOK(s[j], E, S, es)
    <3>1. j \in 1 .. Len(s)
      BY <1>1
    <3> QED  BY <1>1, <1>13, <3>1, ParentsDiffer
  <2> HIDE DEF E, S, E2
  <2> QED  BY <1>5, <1>11, <1>12, <1>14, <2>1, CallStays
<1>15. Len(t) = Len(u) /\ t[1] = g /\ \A j \in 2 .. Len(u) : t[j] = u[j]
  <2>1. PICK T : u \in Seq(T)
    BY <1>2 DEF StackOK, IsSeq
  <2> DEFINE U == T \cup {g}
  <2>2. u \in Seq(U) /\ g \in U
    BY <2>1
  <2> HIDE DEF U
  <2>3. u # <<>>
    BY <1>2 DEF StackOK
  <2> QED  BY <1>8, <2>2, <2>3
<1>16. \A j \in 1 .. Len(t) : CallOK(t[j], E2, S, es \o new)
  <2> SUFFICES ASSUME NEW j \in 1 .. Len(u)
               PROVE  CallOK(t[j], E2, S, es \o new)
    BY <1>15
  <2>1. j + 1 \in 2 .. Len(s) /\ u[j] = s[j + 1]
    BY <1>4
  <2>2. j = 1 \/ j \in 2 .. Len(u)
    <3>1. Len(u) \in Nat
      BY <1>2, StackParts
    <3> QED  BY <3>1
  <2>3. Alike(s[j + 1], t[j])
    BY <1>2, <1>15, <2>1, <2>2 DEF Alike
  <2> HIDE DEF E, S, E2
  <2> QED  BY <1>14, <2>1, <2>3
<1>17. AllTold(E2, S, es \o new, p)
  <2> SUFFICES ASSUME NEW i \in Must(p)
               PROVE  Told(Found(E2, S, p, i), es \o new, p, i)
    BY DEF AllTold
  <2>1. CallOK(f, E, S, es)
    BY <1>1, <1>13
  <2>2. i \in DOMAIN f.rules /\ RuleOK(f.occ[i], Found(E, S, p, i), es, p, i)
    BY <1>3, <2>1 DEF CallOK, RulesOK, Must
  <2>3. PICK found : found = Found(E, S, p, i)
    OBVIOUS
  <2>4. Found(E2, S, p, i) = found
    <3> HIDE DEF E, S, E2
    <3> QED  BY <1>11, <2>3, SameFound
  <2>5. CASE f.occ[i] \in Mandatory
    <3>1. OneFor(new, p, i)
      BY <1>1, <1>3, <2>2, <2>5, MissingFor DEF Missing
    <3> QED  BY <1>5, <2>2, <2>3, <2>4, <2>5, <3>1, RuleReported
  <2>6. CASE f.occ[i] \notin Mandatory
    <3>1. NoneFor(new, p, i)
      BY <1>1, <1>3, <2>2, <2>6, MissingFor DEF Missing
    <3>2. Told(found, es, p, i)
      BY <2>2, <2>3, <2>6 DEF RuleOK
    <3> QED  BY <1>5, <2>4, <3>1, <3>2, RuleStays
  <2> QED  BY <2>5, <2>6
<1>18. ASSUME NEW n \in Nodes, Closed(E2, t, n) PROVE AllTold(E2, S, es \o new, n)
  <2>1. CASE n = p
    BY <1>17, <2>1
  <2>2. CASE n # p
    <3>1. Closed(E, s, n)
      <4> HIDE DEF E, E2
      <4> QED  BY <1>4, <1>9, <1>10, <1>18, <2>2 DEF Closed
    <3>2. AllTold(E, S, es, n)
      BY <3>1 DEF Account
    <3>3. Same(E, S, E2, S, n) /\ \A i \in Must(n) : NoneFor(new, n, i)
      BY <1>11, <1>12, <2>2
    <3> HIDE DEF E, S, E2
    <3> QED  BY <1>5, <3>2, <3>3, SameAccount
  <2> QED  BY <2>1, <2>2
<1> HIDE DEF E, S, E2
<1> QED  BY <1>6, <1>9, <1>16, <1>18 DEF Account

-----------------------------------------------------------------------------
(* The invariant, step by step.                                            *)
AccountInv ==
  /\ phase = "check" => ModulesOK /\ Account(errors, stack)
  /\ AccountedFor

LEMMA SameReference ==
  ASSUME UNCHANGED scn
  PROVE  /\ RefStatements' = RefStatements /\ TopRule' = TopRule
         /\ \A n : Sub(n)' = Sub(n)
         /\ \A n : ModuleOf(PrefixMap.taken, n)' = ModuleOf(PrefixMap.taken, n)
<1>1. Tree' = Tree /\ Nodes' = Nodes /\ \A n : Sub(n)' = Sub(n) /\ (Plain(n)' <=> Plain(n)) /\ Kw(n)' = Kw(n)
  BY DEF Tree, Nodes, Sub, Plain, Kw
<1>2. \A n, kw : IsA(n, kw)' <=> IsA(n, kw)
  BY <1>1 DEF IsA
<1>3. \A n : Declaring(n)' = Declaring(n)
  BY <1>1, <1>2 DEF Declaring
<1>4. Declarations' = Declarations /\ \A n : Declared(n)' = Declared(n) /\ DeclaredModule(n)' = DeclaredModule(n)
  BY <1>1, <1>3 DEF Declarations, Declared, DeclaredModule
<1>5. \A D, n : ModuleOf(D, n)' = ModuleOf(D, n)
  BY <1>1, <1>4 DEF ModuleOf
<1>6. NPrefixes' = NPrefixes
  BY <1>1, <1>2 DEF NPrefixes
<1>7. PrefixMap' = PrefixMap
  BY DEF PrefixMap, NPrefixes, Declarations, Declaring, Declared, IsA, Sub, Plain, Kw, Nodes, Tree
<1>8. RefVersion' = RefVersion
  BY <1>1, <1>2 DEF RefVersion
<1>9. RefStatements' = RefStatements
  BY DEF RefStatements, Declarations, Declaring, Declared, DeclaredModule, ModuleOf, RefVersion,
         IsA, Sub, Plain, Kw, Nodes, Tree
<1>10. TopRule' = TopRule
  BY <1>1 DEF TopRule
<1>11. ASSUME NEW n PROVE ModuleOf(PrefixMap.taken, n)' = ModuleOf(PrefixMap.taken, n)
  BY <1>1, <1>4, <1>7 DEF ModuleOf
<1> QED  BY <1>1, <1>9, <1>10, <1>11

LEMMA AccountAfter ==
  ASSUME UNCHANGED <<scn, modname, version>>, phase' # "done",
         NEW es, es = errors', NEW t, t = stack', ModulesOK, Account(es, t)
  PROVE  AccountInv'
<1>1. /\ Nodes' = Nodes /\ \A n : Around(n)' = Around(n)
      /\ OpenFrom(t, 1)' = OpenFrom(t, 1) /\ ToCome(t)' = ToCome(t)
  BY SameTree
<1>2. /\ RefStatements' = RefStatements /\ TopRule' = TopRule
      /\ \A n : Sub(n)' = Sub(n)
      /\ \A n : ModuleOf(PrefixMap.taken, n)' = ModuleOf(PrefixMap.taken, n)
  BY SameReference
<1>3. \A E, p : Clean(E, p)' <=> Clean(E, p)
  BY DEF Clean, Known
<1>4. /\ \A n : RefRule(n)' = RefRule(n) /\ RefRules(n)' = RefRules(n)
      /\ \A n : Must(n)' = Must(n)
  BY <1>2 DEF RefRule, RefRules, Must
<1>5. \A E, S, n, i : Found(E, S, n, i)' <=> Found(E, S, n, i)
  BY <1>2, <1>3, <1>4 DEF Found
<1>6. \A n, i : (NoneFor(es, n, i)' <=> NoneFor(es, n, i)) /\ (OneFor(es, n, i)' <=> OneFor(es, n, i))
  BY <1>2 DEF NoneFor, OneFor, Wants
<1>7. /\ \A found, n, i : Told(found, es, n, i)' <=> Told(found, es, n, i)
      /\ \A o, found, n, i : RuleOK(o, found, es, n, i)' <=> RuleOK(o, found, es, n, i)
  BY <1>6 DEF Told, RuleOK
<1>8. ASSUME NEW f, NEW E, NEW S
      PROVE  CallOK(f, E, S, es)' <=> CallOK(f, E, S, es)
  <2>1. RulesOK(f, E, S, es)' <=> RulesOK(f, E, S, es)
    BY <1>4, <1>5, <1>6 DEF RulesOK, RuleOK, Told
  <2> QED  BY <1>2, <1>4, <2>1 DEF CallOK
<1>9. ASSUME NEW n, NEW E, NEW S
      PROVE  /\ AllTold(E, S, es, n)' <=> AllTold(E, S, es, n)
             /\ Closed(E, t, n)' <=> Closed(E, t, n)
  BY <1>1, <1>3, <1>4, <1>5, <1>6 DEF AllTold, Told, Closed
<1>10. Account(es, t)'
  BY <1>1, <1>8, <1>9 DEF Account
<1>11. ModulesOK'
  BY <1>1, <1>2 DEF ModulesOK
<1> QED  BY <1>10, <1>11 DEF AccountInv, AccountedFor

LEMMA InitAccount == Init => AccountInv
BY DEF Init, AccountInv, AccountedFor

LEMMA NotAModuleAccount == IInv /\ NotAModule => AccountInv'
<1> SUFFICES ASSUME IInv, NotAModule
             PROVE  AccountInv'
  OBVIOUS
<1> DEFINE e == Error("UNEXPECTED", 1, 0)
<1>1. errors' = <<e>> /\ phase' = "done" /\ UNCHANGED <<scn, modname>> /\ scn \in Scenario
  BY DEF NotAModule, IInv
<1>2. e.at = 1 /\ e.code = "UNEXPECTED"
  BY DEF Error
<1> HIDE DEF e
<1>3. 1 \in DOMAIN errors' /\ errors'[1] = e
  BY <1>1
<1>4. 1 \in Rejected'
  BY <1>2, <1>3 DEF Rejected
<1>5. Nodes' = Nodes /\ \A n : Around(n)' = Around(n)
  BY <1>1, SameTree
<1>6. \A n \in Nodes : ~Entered(n)'
  BY <1>1, <1>4, <1>5, LeadsTo DEF Entered
<1> QED  BY <1>1, <1>5, <1>6 DEF AccountInv, AccountedFor

LEMMA ResolveAccount == IInv /\ ResolvePrefixes => AccountInv'
<1> SUFFICES ASSUME IInv, ResolvePrefixes
             PROVE  AccountInv'
  OBVIOUS
<1>1. phase' = "check" /\ UNCHANGED scn /\ scn \in Scenario /\ version' = HeaderVersion
  BY DEF ResolvePrefixes, IInv
<1>2. /\ Nodes' = Nodes /\ \A n : Around(n)' = Around(n)
      /\ \A s : ToCome(s)' = ToCome(s)
      /\ TopRule' = TopRule
      /\ \A n : ModuleOf(PrefixMap.taken, n)' = ModuleOf(PrefixMap.taken, n)
  BY <1>1, SameTree, SameReference
<1>3. ModulesOK'
  <2>1. modname' = [n \in Nodes |-> ModuleOf(PrefixMap.taken, n)]
    BY DEF ResolvePrefixes
  <2>2. version' \in {1, 2}
    BY <1>1 DEF HeaderVersion
  <2> QED  BY <1>2, <2>1, <2>2 DEF ModulesOK
<1> PICK f : f = Frame(0, 1, <<TopRule>>)
  OBVIOUS
<1>4. f.parent = 0 /\ f.cur = 1 /\ f.start = 1 /\ f.rules = <<TopRule>>
  BY DEF Frame
<1>5. stack' = <<f>> /\ Len(stack') = 1 /\ stack'[1] = f
  BY DEF ResolvePrefixes
<1>6. PICK es, t : es = errors' /\ t = stack'
  OBVIOUS
<1>7. Len(t) = 1 /\ t[1] = f /\ \A j \in 1 .. 1 : j = 1
  BY <1>5, <1>6
<1>8. \A E, S : CallOK(f, E, S, es)'
  BY <1>2, <1>4 DEF CallOK, StartOK
<1>9. 1 \in ToCome(t)
  <2>1. 1 \in Nodes /\ Tree[1].parent = 0
    BY <1>1, TreeTyped, ParentOf
  <2>2. 1 \in 1 .. Len(t) /\ ~(1 > 1) /\ 1 >= 1 /\ 1 # 0
    BY <1>7
  <2> QED  BY <1>4, <1>7, <2>1, <2>2 DEF ToCome
<1>10. ASSUME NEW n \in Nodes, NEW E PROVE ~Closed(E, t, n)'
  BY <1>1, <1>2, <1>9, LeadsTo DEF Closed
<1>11. Account(es, t)'
  BY <1>2, <1>7, <1>8, <1>10 DEF Account
<1> QED  BY <1>1, <1>3, <1>6, <1>11 DEF AccountInv, AccountedFor

LEMMA SkipAccount ==
  ASSUME IInv, BelowInv, AccountInv, SkipUnknown
  PROVE  AccountInv'
<1>1. /\ phase = "check" /\ scn \in Scenario /\ IsSeq(errors) /\ StackOK(stack)
      /\ PathInv(Errs(errors), stack) /\ ModulesOK /\ Account(errors, stack)
      /\ UNCHANGED <<scn, phase, modname, version, errors>>
  BY DEF IInv, BelowInv, AccountInv, SkipUnknown
<1>2. Top = stack[1] /\ FrameOK(Top) /\ 1 \in 1 .. Len(stack)
  BY <1>1, StackParts DEF Top
<1> DEFINE g == Advance(Top)
<1>3. /\ g.parent = Top.parent /\ g.cur = NextOf(Top.cur) /\ g.rules = Top.rules /\ g.occ = Top.occ
      /\ g.start = Top.start
  BY <1>2 DEF Advance, FrameOK
<1>4. stack' = <<g>> \o Tail(stack) /\ Top.cur # 0 /\ ~Known(Top.cur)
  BY DEF SkipUnknown
<1> HIDE DEF g
<1>5. StartOK(g)
  <2>1. StartOK(stack[1])
    BY <1>1, <1>2 DEF Account, CallOK
  <2> QED  BY <1>2, <1>3, <2>1 DEF StartOK
<1>6. PICK new : new = <<>>
  OBVIOUS
<1>7. IsSeq(new) /\ Errs(new) = {} /\ errors \o new = errors
  <2>1. PICK T : errors \in Seq(T)
    BY <1>1 DEF IsSeq
  <2>2. errors \o <<>> = errors
    BY <2>1
  <2> QED  BY <1>6, <2>2, Short, ErrsShort
<1>8. /\ NoneMissing(Errs(new)) /\ \A e \in Errs(new) : e.at = stack[1].cur
      /\ \A i : ForNoRule(Errs(new), i) /\ \A o : Kept(o, o)
  BY <1>7 DEF NoneMissing, ForNoRule, Kept
<1>9. PICK t : t = stack'
  OBVIOUS
<1>10. Account(errors \o new, t)
  <2>1. t = <<g>> \o Tail(stack)
    BY <1>4, <1>9
  <2>2. \A i \in DOMAIN stack[1].rules : Kept(stack[1].occ[i], g.occ[i]) /\ ForNoRule(Errs(new), i)
    BY <1>2, <1>3, <1>8
  <2>3. /\ stack[1].cur # 0 /\ ~Known(stack[1].cur) /\ g.parent = stack[1].parent
        /\ g.cur = NextOf(stack[1].cur) /\ g.rules = stack[1].rules
    BY <1>2, <1>3, <1>4
  <2> QED  BY <1>1, <1>5, <1>7, <1>8, <2>1, <2>2, <2>3, AccountMoved
<1>11. PICK es : es = errors'
  OBVIOUS
<1>12. Account(es, t) /\ phase' # "done"
  BY <1>1, <1>7, <1>10, <1>11
<1> QED  BY <1>1, <1>9, <1>11, <1>12, AccountAfter

LEMMA RejectAccount ==
  ASSUME IInv, BelowInv, AccountInv, Reject
  PROVE  AccountInv'
<1>1. /\ phase = "check" /\ scn \in Scenario /\ IsSeq(errors) /\ StackOK(stack)
      /\ PathInv(Errs(errors), stack) /\ ModulesOK /\ Account(errors, stack)
      /\ UNCHANGED <<scn, phase, modname, version>>
  BY DEF IInv, BelowInv, AccountInv, Reject
<1>2. Top = stack[1] /\ FrameOK(Top) /\ 1 \in 1 .. Len(stack)
  BY <1>1, StackParts DEF Top
<1>3. PICK m : /\ m = MatchRule(Top, Top.cur) /\ m.rule = 0 /\ Top.cur # 0
               /\ stack' = <<Advance(m.frame)>> \o Tail(stack)
               /\ errors' = errors \o m.errors
  BY DEF Reject
<1>4. PICK new : new = m.errors
  OBVIOUS
<1>5. /\ FrameOK(m.frame) /\ m.frame.parent = Top.parent /\ m.frame.cur = Top.cur
      /\ m.frame.rules = Top.rules /\ IsSeq(new)
  BY <1>2, <1>3, <1>4, MatchOK
<1> DEFINE g == Advance(m.frame)
<1>6. /\ g.parent = Top.parent /\ g.cur = NextOf(Top.cur) /\ g.rules = Top.rules
      /\ g.occ = m.frame.occ /\ g.start = m.frame.start
  BY <1>5 DEF Advance, FrameOK
<1>7. stack' = <<g>> \o Tail(stack)
  BY <1>3
<1> HIDE DEF g
<1>8. StartOK(Top)
  BY <1>1, <1>2 DEF Account, CallOK
<1>9. /\ StartOK(m.frame) /\ Top.cur \in Refused(Errs(new)) /\ NoneMissing(Errs(new))
      /\ \A i \in DOMAIN Top.rules :
           \/ Kept(Top.occ[i], m.frame.occ[i]) /\ ForNoRule(Errs(new), i)
           \/ /\ Top.occ[i] \in Mandatory /\ m.frame.occ[i] = "0"
              /\ new = <<Error("EXPECTED", Top.cur, i)>>
  <2>1. \A i \in DOMAIN Top.rules : i # m.rule
    BY <1>2, <1>3, FrameParts
  <2> QED  BY <1>2, <1>3, <1>4, <1>8, <2>1, MatchChanges
<1>10. StartOK(g)
  BY <1>5, <1>6, <1>9 DEF StartOK
<1>11. \A e \in Errs(new) : e.at = Top.cur
  BY <1>2, <1>3, <1>4, MatchErrors
<1>12. PICK t, es : t = stack' /\ es = errors'
  OBVIOUS
<1>13. Account(errors \o new, t)
  <2>1. t = <<g>> \o Tail(stack)
    BY <1>7, <1>12
  <2>2. \A i \in DOMAIN stack[1].rules :
           \/ Kept(stack[1].occ[i], g.occ[i]) /\ ForNoRule(Errs(new), i)
           \/ /\ stack[1].occ[i] \in Mandatory /\ g.occ[i] = "0"
              /\ new = <<Error("EXPECTED", stack[1].cur, i)>>
    BY <1>2, <1>6, <1>9
  <2>3. /\ stack[1].cur # 0 /\ stack[1].cur \in Refused(Errs(new)) /\ g.parent = stack[1].parent
        /\ g.cur = NextOf(stack[1].cur) /\ g.rules = stack[1].rules
        /\ \A e \in Errs(new) : e.at = stack[1].cur
    BY <1>2, <1>3, <1>6, <1>9, <1>11
  <2> QED  BY <1>1, <1>5, <1>9, <1>10, <2>1, <2>2, <2>3, AccountMoved
<1>14. Account(es, t) /\ phase' # "done"
  BY <1>1, <1>3, <1>4, <1>12, <1>13
<1> QED  BY <1>1, <1>12, <1>14, AccountAfter

LEMMA EnterAccount ==
  ASSUME IInv, BelowInv, AccountInv, Enter
  PROVE  AccountInv'
<1>1. /\ phase = "check" /\ scn \in Scenario /\ IsSeq(errors) /\ StackOK(stack)
      /\ PathInv(Errs(errors), stack) /\ ModulesOK /\ Account(errors, stack)
      /\ UNCHANGED <<scn, phase, modname, version>>
  BY DEF IInv, BelowInv, AccountInv, Enter
<1>2. Top = stack[1] /\ FrameOK(Top) /\ 1 \in 1 .. Len(stack)
  BY <1>1, StackParts DEF Top
<1>3. PICK m : /\ m = MatchRule(Top, Top.cur) /\ m.rule # 0 /\ Top.cur # 0 /\ Known(Top.cur)
               /\ Call(Top.cur, Top.rules[m.rule].spec, m)
  BY DEF Enter
<1>4. PICK c, rule, spec, h : /\ c = Top.cur /\ rule = m.rule /\ spec = Top.rules[rule].spec
                              /\ h = m.frame
  OBVIOUS
<1>5. /\ FrameOK(h) /\ h.parent = Top.parent /\ h.cur = c /\ h.rules = Top.rules
      /\ IsSeq(m.errors) /\ rule \in DOMAIN Top.rules
  BY <1>2, <1>3, <1>4, MatchOK
<1>6. PICK bad : bad = ArgumentErrors(spec, c)
  OBVIOUS
<1>7. PICK g : g = Frame(c, First(Sub(c)), Grammar[spec].rules)
  OBVIOUS
<1>8. /\ stack' = <<g, h>> \o Tail(stack)
      /\ errors' = (errors \o m.errors) \o bad
  BY <1>3, <1>4, <1>6, <1>7 DEF Call
<1>9. IsSeq(bad)
  BY <1>6, Short DEF ArgumentErrors
<1>10. PICK new : new = m.errors \o bad
  OBVIOUS
<1>11. /\ IsSeq(new) /\ errors' = errors \o new /\ Errs(new) = Errs(m.errors) \cup Errs(bad)
  <2>1. IsSeq(new) /\ Errs(new) = Errs(m.errors) \cup Errs(bad)
    BY <1>5, <1>9, <1>10, Concat, ErrsConcat
  <2>2. PICK A : errors \in Seq(A)
    BY <1>1 DEF IsSeq
  <2>3. PICK B : m.errors \in Seq(B)
    BY <1>5 DEF IsSeq
  <2>4. PICK C : bad \in Seq(C)
    BY <1>9 DEF IsSeq
  <2> DEFINE U == A \cup B \cup C
  <2>5. PICK x, y, z : x = errors /\ y = m.errors /\ z = bad
    OBVIOUS
  <2>6. x \in Seq(U) /\ y \in Seq(U) /\ z \in Seq(U)
    BY <2>2, <2>3, <2>4, <2>5
  <2> HIDE DEF U
  <2>7. (x \o y) \o z = x \o (y \o z)
    BY <2>6
  <2> QED  BY <1>8, <1>10, <2>1, <2>5, <2>7
<1>12. StartOK(Top)
  BY <1>1, <1>2 DEF Account, CallOK
<1>13. /\ StartOK(h) /\ rule = Hit(Top, c) /\ Used(Top.occ[rule], h.occ[rule])
       /\ \A i \in DOMAIN Top.rules : i # rule => Kept(Top.occ[i], h.occ[i])
       /\ \A i : ForNoRule(Errs(m.errors), i)
  <2>1. PICK f, n : f = Top /\ n = Top.cur
    OBVIOUS
  <2>2. FrameOK(f) /\ StartOK(f) /\ m = MatchRule(f, n)
    BY <1>2, <1>3, <1>12, <2>1
  <2>3. /\ StartOK(m.frame)
        /\ m.rule # 0 => m.rule = Hit(f, n) /\ Used(f.occ[m.rule], m.frame.occ[m.rule])
        /\ m.rule # 0 => \A i \in DOMAIN f.rules : i # m.rule => Kept(f.occ[i], m.frame.occ[i])
        /\ m.rule # 0 => \A i : ForNoRule(Errs(m.errors), i)
    BY <2>2, MatchChanges
  <2>4. m.rule # 0 /\ f = Top /\ n = c /\ rule = m.rule /\ h = m.frame
    BY <1>3, <1>4, <2>1
  <2> QED  BY <2>3, <2>4
<1>14. /\ \A e \in Errs(new) : e.at = c /\ e.code \notin Refusing
       /\ \A i : ForNoRule(Errs(new), i)
  <2>1. \A e \in Errs(m.errors) : e.at = c /\ e.code \notin Refusing
    BY <1>2, <1>3, <1>4, MatchErrors
  <2>2. \A e \in Errs(bad) : e.at = c /\ e.code \notin Refusing
    BY <1>6, OtherErrors
  <2>3. \A e \in Errs(bad) : e.code # "EXPECTED_SUBSTATEMENT" /\ e.code # "EXPECTED"
    <3>1. \/ bad = <<>>
          \/ \E code \in {"BAD_ARGUMENT", "MISSING_ARGUMENT", "UNEXPECTED_ARGUMENT"} :
               bad = <<Error(code, c, 0)>>
      BY <1>6 DEF ArgumentErrors
    <3>2. CASE bad = <<>>
      BY <3>2, ErrsShort
    <3>3. ASSUME NEW code \in {"BAD_ARGUMENT", "MISSING_ARGUMENT", "UNEXPECTED_ARGUMENT"},
                 bad = <<Error(code, c, 0)>>
          PROVE  \A e \in Errs(bad) : e.code # "EXPECTED_SUBSTATEMENT" /\ e.code # "EXPECTED"
      <4>1. PICK x : x = Error(code, c, 0)
        OBVIOUS
      <4>2. Errs(bad) = {x}
        BY <3>3, <4>1, ErrsShort
      <4>3. x.code = code
        BY <4>1 DEF Error
      <4> QED  BY <4>2, <4>3
    <3> QED  BY <3>1, <3>2, <3>3
  <2> QED  BY <1>11, <1>13, <2>1, <2>2, <2>3 DEF ForNoRule
<1>15. spec \in DOMAIN Grammar /\ Grammar[spec].rules \in Seq(RuleType)
  <2>1. Top.rules \in Seq(RuleType)
    BY <1>2, FrameParts
  <2>2. Top.rules[rule] \in RuleType
    BY <1>5, <2>1
  <2>3. spec \in DOMAIN Grammar
    BY <1>4, <2>2 DEF RuleType
  <2> QED  BY <2>3, GrammarAssumption DEF SpecType
<1>16. c \in Nodes /\ Tree[c].parent = Top.parent
  <2>1. PathOK(stack)
    BY <1>1 DEF PathInv
  <2> QED  BY <1>2, <1>3, <1>4, <2>1 DEF PathOK
<1>17. /\ FrameOK(g) /\ g.parent = c /\ g.cur = First(Sub(c)) /\ g.rules = Grammar[spec].rules
       /\ \A i \in DOMAIN g.rules : g.occ[i] = g.rules[i].occ
       /\ g.start = 1
  <2>1. Sub(c) \in SUBSET (Nat \ {0}) /\ c \in Nat
    BY <1>1, <1>16, ParentOf DEF Sub
  <2>2. First(Sub(c)) \in Nat
    BY <2>1, FirstOf
  <2>3. g.start = 1
    BY <1>7 DEF Frame
  <2>4. PICK rules : rules = Grammar[spec].rules
    OBVIOUS
  <2>5. rules \in Seq(RuleType) /\ g = Frame(c, First(Sub(c)), rules)
    BY <1>7, <1>15, <2>4
  <2> QED  BY <2>1, <2>2, <2>3, <2>4, <2>5, FrameMade
<1>18. CallOK(Top, Errs(errors), ToCome(stack), errors)
  BY <1>1, <1>2 DEF Account
<1>19. Top.parent # 0 => RefRule(c) = rule /\ RefRules(c) = Grammar[spec].rules
  <2> SUFFICES ASSUME Top.parent # 0
               PROVE  RefRule(c) = rule /\ RefRules(c) = Grammar[spec].rules
    OBVIOUS
  <2>1. Top.rules = RefRules(Tree[c].parent) /\ OfGrammar(Top.rules)
    BY <1>16, <1>18 DEF CallOK
  <2>2. c # 1
    BY <1>1, <1>16, ParentOf
  <2>3. Known(c) /\ Hit(Top, c) # 0
    BY <1>3, <1>4, <1>13
  <2> QED  BY <1>1, <1>2, <1>4, <1>12, <1>13, <1>16, <2>1, <2>2, <2>3, HitIsRef
<1>20. Top.parent = 0 => RefRules(c) = Grammar[spec].rules
  <2> SUFFICES ASSUME Top.parent = 0
               PROVE  RefRules(c) = Grammar[spec].rules
    OBVIOUS
  <2>1. c = 1
    <3>1. c # 1 => Tree[c].parent \in Nodes
      BY <1>1, <1>16, ParentOf
    <3>2. 0 \notin Nodes
      BY <1>1, ParentOf
    <3> QED  BY <1>16, <3>1, <3>2
  <2>2. Top.rules = <<TopRule>>
    BY <1>18 DEF CallOK
  <2>3. DOMAIN Top.rules = {1} /\ Top.rules[1] = TopRule
    BY <2>2
  <2>4. spec = Kw(1)
    BY <1>4, <1>5, <2>3 DEF TopRule
  <2> QED  BY <1>1, <2>1, <2>4, RefRuleOf
<1>21. g.rules = RefRules(c) /\ OfGrammar(g.rules) /\ StartOK(g)
  BY <1>15, <1>17, <1>19, <1>20 DEF OfGrammar, StartOK
<1>22. PICK t, es : t = stack' /\ es = errors'
  OBVIOUS
<1>23. Account(errors \o new, t)
  <2>1. t = <<g, h>> \o Tail(stack)
    BY <1>8, <1>22
  <2>2. /\ stack[1].cur # 0 /\ Known(stack[1].cur)
        /\ h.parent = stack[1].parent /\ h.cur = stack[1].cur /\ h.rules = stack[1].rules
        /\ Used(stack[1].occ[rule], h.occ[rule])
        /\ \A i \in DOMAIN stack[1].rules : i # rule => Kept(stack[1].occ[i], h.occ[i])
        /\ stack[1].parent # 0 => RefRule(stack[1].cur) = rule
    BY <1>2, <1>3, <1>4, <1>5, <1>13, <1>19
  <2>3. /\ g.parent = stack[1].cur /\ g.cur = First(Sub(stack[1].cur))
        /\ g.rules = RefRules(stack[1].cur)
        /\ \A e \in Errs(new) : e.at = stack[1].cur /\ e.code \notin Refusing
    BY <1>2, <1>4, <1>14, <1>17, <1>21
  <2> QED  BY <1>1, <1>11, <1>13, <1>14, <1>17, <1>21, <2>1, <2>2, <2>3, AccountEntered
<1>24. Account(es, t) /\ phase' # "done"
  BY <1>1, <1>11, <1>22, <1>23
<1> QED  BY <1>1, <1>22, <1>24, AccountAfter

(* At the end of the check all that was entered is closed.                 *)
LEMMA AllClosed ==
  ASSUME scn \in Scenario, StackOK(stack), PathOK(stack), Single(stack), stack[1].cur = 0,
         Account(errors, stack)
  PROVE  LET ref == RefStatements
         IN  \A n \in Nodes : Entered(n) =>
               \A i \in DOMAIN ref[n].rules : ref[n].rules[i].occ \in Mandatory =>
                 IF \E c \in Sub(n) : Entered(c) /\ ref[c].rule = i
                 THEN Expecting(n, i) = {}
                 ELSE Cardinality(Expecting(n, i)) = 1
<1> DEFINE E == Errs(errors)
<1>1. \A i \in 1 .. Len(stack) : i = 1
  BY DEF Single
<1>2. ToCome(stack) = {}
  BY <1>1 DEF ToCome
<1>3. OpenFrom(stack, 1) = {}
  BY StackParts, OpenAround
<1>4. \A n : Entered(n) <=> \A p \in Around(n) \cup {n} : Clean(E, p)
  BY RejectedAre DEF Entered, Clean
<1>5. SUFFICES ASSUME NEW n \in Nodes, Entered(n), NEW i \in Must(n)
               PROVE  IF \E c \in Sub(n) : Entered(c) /\ RefRule(c) = i
                      THEN Expecting(n, i) = {}
                      ELSE Cardinality(Expecting(n, i)) = 1
  BY DEF Must, RefRules, RefRule
<1>6. Closed(E, stack, n)
  BY <1>2, <1>3, <1>4, <1>5 DEF Closed
<1>7. Told(Found(E, {}, n, i), errors, n, i)
  BY <1>2, <1>6 DEF Account, AllTold
<1>8. Found(E, {}, n, i) <=> \E c \in Sub(n) : Entered(c) /\ RefRule(c) = i
  <2>1. ASSUME NEW c \in Sub(n) PROVE Entered(c) <=> Clean(E, c)
    <3>1. c \in Nodes /\ Tree[c].parent = n /\ n # 0
      BY ParentOf DEF Sub
    <3>2. c # 1
      BY <3>1, ParentOf
    <3>3. Around(c) = {n} \cup Around(n)
      BY <3>1, <3>2, AroundOf
    <3> HIDE DEF E
    <3> QED  BY <1>4, <1>5, <3>3
  <2> HIDE DEF E
  <2> QED  BY <2>1 DEF Found
<1>9. Expecting(n, i) = {k \in DOMAIN errors : Wants(errors[k], n, i)}
  BY DEF Expecting, Wants
<1>10. NoneFor(errors, n, i) => Expecting(n, i) = {}
  BY <1>9 DEF NoneFor
<1>11. OneFor(errors, n, i) => Cardinality(Expecting(n, i)) = 1
  <2> SUFFICES ASSUME OneFor(errors, n, i)
               PROVE  Cardinality(Expecting(n, i)) = 1
    OBVIOUS
  <2>1. \E k : Expecting(n, i) = {k}
    BY <1>9 DEF OneFor
  <2> QED  BY <2>1, FS_Singleton
<1> HIDE DEF E
<1> QED  BY <1>7, <1>8, <1>10, <1>11 DEF Told

LEMMA LeaveAccount ==
  ASSUME IInv, BelowInv, AccountInv, Leave
  PROVE  AccountInv'
<1>1. /\ phase = "check" /\ scn \in Scenario /\ IsSeq(errors) /\ StackOK(stack)
      /\ PathInv(Errs(errors), stack) /\ ModulesOK /\ Account(errors, stack)
      /\ UNCHANGED <<scn, modname, version>>
  BY DEF IInv, BelowInv, AccountInv, Leave
<1>2. /\ Top = stack[1] /\ FrameOK(Top) /\ 1 \in 1 .. Len(stack) /\ Top.cur = 0
      /\ Top.parent = 0 <=> Single(stack)
  BY <1>1, StackParts DEF Top, Leave
<1>3. CASE Single(stack)
  <2>1. phase' = "done" /\ errors' = errors \o <<>>
    BY <1>2, <1>3 DEF Leave, Single, MissingErrors
  <2>2. PICK T : errors \in Seq(T)
    BY <1>1 DEF IsSeq
  <2>3. errors \o <<>> = errors
    BY <2>2
  <2>4. errors' = errors
    BY <2>1, <2>3
  <2>5. LET ref == RefStatements
        IN  \A n \in Nodes : Entered(n) =>
              \A i \in DOMAIN ref[n].rules : ref[n].rules[i].occ \in Mandatory =>
                IF \E c \in Sub(n) : Entered(c) /\ ref[c].rule = i
                THEN Expecting(n, i) = {}
                ELSE Cardinality(Expecting(n, i)) = 1
    BY <1>1, <1>2, <1>3, AllClosed DEF PathInv
  <2>6. Nodes' = Nodes /\ RefStatements' = RefStatements /\ \A n : Sub(n)' = Sub(n)
    BY <1>1, SameTree, SameReference
  <2>7. \A n : Entered(n)' <=> Entered(n)
    <3>1. \A n : Around(n)' = Around(n)
      BY <1>1, SameTree
    <3>2. Rejected' = Rejected
      BY <2>4 DEF Rejected
    <3> QED  BY <1>1, <3>1, <3>2 DEF Entered, Known
  <2>8. \A n, i : Expecting(n, i)' = Expecting(n, i)
    BY <2>4, <2>6 DEF Expecting
  <2> QED  BY <2>1, <2>5, <2>6, <2>7, <2>8 DEF AccountInv, AccountedFor
<1>4. CASE ~Single(stack)
  <2>1. PICK g : g = Advance(stack[2])
    OBVIOUS
  <2>2. /\ stack' = <<g>> \o Tail(Tail(stack)) /\ errors' = errors \o MissingErrors(Top)
        /\ phase' = phase
    BY <1>4, <2>1 DEF Leave, Single
  <2>3. FrameOK(stack[2])
    <3>1. StackOK(Tail(stack)) /\ Tail(stack)[1] = stack[2]
      BY <1>1, <1>4, Returned
    <3> QED  BY <3>1, StackParts
  <2>4. g.cur = NextOf(stack[2].cur) /\ Alike(stack[2], g)
    BY <2>1, <2>3 DEF Advance, FrameOK, Alike
  <2>5. PICK t, es : t = stack' /\ es = errors'
    OBVIOUS
  <2>6. Account(errors \o MissingErrors(stack[1]), t)
    <3>1. t = <<g>> \o Tail(Tail(stack)) /\ stack[1].cur = 0
      BY <1>2, <2>2, <2>5
    <3> QED  BY <1>1, <1>4, <2>4, <3>1, AccountReturned
  <2>7. Account(es, t) /\ phase' # "done"
    BY <1>1, <1>2, <2>2, <2>5, <2>6
  <2> QED  BY <1>1, <2>5, <2>7, AccountAfter
<1> QED  BY <1>3, <1>4

LEMMA StillAccount ==
  ASSUME AccountInv, Terminated \/ UNCHANGED vars
  PROVE  AccountInv'
<1>1. UNCHANGED <<scn, phase, modname, version, stack, errors>>
  BY DEF Terminated, vars
<1>2. CASE phase' = "done"
  <2>1. Nodes' = Nodes /\ RefStatements' = RefStatements /\ \A n : Sub(n)' = Sub(n)
    BY <1>1, SameTree, SameReference
  <2>2. \A n : Entered(n)' <=> Entered(n)
    <3>1. \A n : Around(n)' = Around(n)
      BY <1>1, SameTree
    <3>2. Rejected' = Rejected
      BY <1>1 DEF Rejected
    <3> QED  BY <1>1, <3>1, <3>2 DEF Entered, Known
  <2>3. \A n, i : Expecting(n, i)' = Expecting(n, i)
    BY <1>1, <2>1 DEF Expecting
  <2> QED  BY <1>1, <1>2, <2>1, <2>2, <2>3 DEF AccountInv, AccountedFor
<1>3. CASE phase' = "check"
  <2>1. PICK t, es : t = stack' /\ es = errors'
    OBVIOUS
  <2>2. ModulesOK /\ Account(es, t)
    BY <1>1, <1>3, <2>1 DEF AccountInv
  <2> QED  BY <1>1, <1>3, <2>1, <2>2, AccountAfter
<1>4. CASE phase' # "done" /\ phase' # "check"
  BY <1>4 DEF AccountInv, AccountedFor
<1> QED  BY <1>2, <1>3, <1>4

(* Whatever the grammars and the module are, a mandatory substatement of a *)
(* statement that was entered is there, or it is reported missing, once.   *)
THEOREM MissingReportedOnce == Spec => []AccountedFor
<1>1. AccountInv => AccountedFor
  BY DEF AccountInv
<1>2. Init => IInv /\ BelowInv /\ AccountInv
  BY InitHolds, InitBelow, InitAccount
<1>3. IInv /\ BelowInv /\ AccountInv /\ [Next]_vars => IInv' /\ BelowInv' /\ AccountInv'
  BY StepHolds, StepBelow, NotAModuleAccount, ResolveAccount, SkipAccount, RejectAccount,
     EnterAccount, LeaveAccount, StillAccount DEF Next
<1> QED  BY <1>1, <1>2, <1>3, PTL DEF Spec

-----------------------------------------------------------------------------
(* The reference once more: which statements count, and what it says of    *)
(* one by itself and of two in the same list.  OwnOK and PairOK are its    *)
(* conditions for the statements the check is through with, in which the   *)
(* version is the one the check has found.                                 *)
RefKnown(n) == RefStatements[n].known
RefSpec(n) == RefStatements[n].spec
Looked(S, n) == RefKnown(n) /\ (Around(n) \cup {n}) \cap S = {}

OwnOK(n) ==
  /\ n # 1 => RefRule(n) # 0 /\ RefRules(Tree[n].parent)[RefRule(n)].min <= version
  /\ ArgumentErrors(RefSpec(n), n) = <<>>
CutIn(rules, i, j) == \E k \in DOMAIN rules : rules[k].name = Cut /\ i < k /\ k < j
PairOK(rules, c, d) ==
  /\ Plain(c) => /\ ~CutIn(rules, RefRule(d), RefRule(c))
                 /\ scn.canonical => RefRule(c) <= RefRule(d)
  /\ RefRule(c) = RefRule(d) => rules[RefRule(c)].occ \notin {"1", "?"}
BeforeOK(S, d) ==
  \A c \in Nodes : (Looked(S, c) /\ c < d /\ Tree[c].parent = Tree[d].parent) =>
    PairOK(RefRules(Tree[d].parent), c, d)
PassedOK(S) == \A n \in Nodes : Looked(S, n) => OwnOK(n) /\ BeforeOK(S, n)

LEMMA RefKnownOf ==
  ASSUME scn \in Scenario
  PROVE  /\ RefKnown(1) <=> ModuleOf(Declarations, 1) \in Module
         /\ RefSpec(1) = Kw(1)
         /\ \A n \in Nodes :
              /\ RefStatements[n].module = ModuleOf(Declarations, n)
              /\ n # 1 =>
                   /\ RefKnown(n) <=> RefKnown(Tree[n].parent) /\ ModuleOf(Declarations, n) \in Module
                   /\ RefSpec(n) = IF RefRule(n) = 0 THEN None
                                   ELSE RefRules(Tree[n].parent)[RefRule(n)].spec
<1>1. RefStatements[1] = RefFirst
  BY TreeTyped, RefOf
<1>2. RefKnown(1) <=> ModuleOf(Declarations, 1) \in Module
  <2>1. PICK x : x = RefFirst
    OBVIOUS
  <2>2. x.known <=> ModuleOf(Declarations, 1) \in Module
    BY <2>1 DEF RefFirst
  <2> QED  BY <1>1, <2>1, <2>2 DEF RefKnown
<1>3. RefSpec(1) = Kw(1) /\ RefStatements[1].module = ModuleOf(Declarations, 1)
  BY <1>1 DEF RefSpec, RefFirst
<1>4. ASSUME NEW n \in Nodes, n # 1
      PROVE  /\ RefStatements[n].module = ModuleOf(Declarations, n)
             /\ RefKnown(n) <=> RefKnown(Tree[n].parent) /\ ModuleOf(Declarations, n) \in Module
             /\ RefSpec(n) = IF RefRule(n) = 0 THEN None
                             ELSE RefRules(Tree[n].parent)[RefRule(n)].spec
  <2>1. PICK above : above = RefStatements[Tree[n].parent]
    OBVIOUS
  <2>2. RefStatements[n] = RefIn(n, above)
    BY <1>4, <2>1, RefOf
  <2>3. PICK rule : rule = RuleFor(n, above.rules)
    OBVIOUS
  <2>4. PICK x : x = RefIn(n, above)
    OBVIOUS
  <2>5. /\ x.module = ModuleOf(Declarations, n) /\ x.rule = rule
        /\ x.spec = IF rule = 0 THEN None ELSE above.rules[rule].spec
        /\ x.known <=> above.known /\ ModuleOf(Declarations, n) \in Module
    BY <2>3, <2>4 DEF RefIn
  <2> QED  BY <2>1, <2>2, <2>4, <2>5 DEF RefKnown, RefSpec, RefRule, RefRules
<1> QED  BY <1>2, <1>3, <1>4

(* When all modules are known, a statement counts for the reference when   *)
(* the check does not skip it nor one around it.                           *)
AllNamed == \A n \in Nodes : modname[n] = ModuleOf(Declarations, n) /\ modname[n] # None

LEMMA KnownAround ==
  ASSUME scn \in Scenario, AllNamed
  PROVE  \A n \in Nodes : RefKnown(n) <=> \A p \in Around(n) \cup {n} : Known(p)
<1> DEFINE I(n) == RefKnown(n) <=> \A p \in Around(n) \cup {n} : Known(p)
           A == {k \in Nat : \A n \in Nodes : n <= k => I(n)}
<1>1. 0 \in A
  <2>1. \A n \in Nodes : n \in Nat \ {0}
    BY ParentOf
  <2> QED  BY <2>1
<1>2. ASSUME NEW k \in Nat, k \in A PROVE k + 1 \in A
  <2> SUFFICES ASSUME NEW n \in Nodes, n <= k + 1
               PROVE  I(n)
    OBVIOUS
  <2>1. n \in Nat \ {0} /\ modname[n] = ModuleOf(Declarations, n)
    BY ParentOf DEF AllNamed
  <2>2. CASE n = 1
    <3>1. Around(1) = {}
      BY <2>2, AroundOf
    <3> QED  BY <2>1, <2>2, <3>1, RefKnownOf DEF Known
  <2>3. CASE n # 1
    <3>1. PICK p : p = Tree[n].parent
      OBVIOUS
    <3>2. p \in Nodes /\ p \in Nat /\ p <= k
      BY <2>1, <2>3, <3>1, ParentOf
    <3>3. I(p)
      BY <1>2, <3>2
    <3>4. Around(n) = {p} \cup Around(p)
      BY <2>3, <3>1, AroundOf
    <3>5. RefKnown(n) <=> RefKnown(p) /\ modname[n] \in Module
      BY <2>1, <2>3, <3>1, RefKnownOf
    <3> QED  BY <3>3, <3>4, <3>5 DEF Known
  <2> QED  BY <2>2, <2>3
<1> HIDE DEF I
<1>3. Nat \subseteq A
  <2> HIDE DEF A
  <2> QED  BY <1>1, <1>2, NumberInduction
<1>4. \A n \in Nodes : I(n)
  <2> SUFFICES ASSUME NEW n \in Nodes PROVE I(n)
    OBVIOUS
  <2>1. n \in Nat
    BY ParentOf
  <2> QED  BY <1>3, <2>1
<1> QED  BY <1>4 DEF I

(* match_rule when it finds a rule and notes no error.  Admits: the rule is*)
(* there, may still come, and none is missing before it; Admitted: what    *)
(* becomes of the copy of the rules then.                                  *)
Admits(f, n) ==
  /\ Hit(f, n) # 0 /\ Skipped(f, n) = 0
  /\ f.occ[Hit(f, n)] \notin {"0", "-"}
  /\ f.rules[Hit(f, n)].min <= version
StartMoved(f, n, g) ==
  LET cuts == Cuts(f, Passed(f, n))
  IN  IF cuts = {} THEN g.start = f.start
      ELSE \E k \in cuts : g.start = k + 1 /\ \A j \in cuts : j <= k
OccMoved(f, n, g, i) ==
  g.occ[i] = IF scn.canonical /\ i \in Passed(f, n) /\ f.rules[i].name # Cut THEN "-" ELSE f.occ[i]
Admitted(f, n, g) ==
  /\ StartMoved(f, n, g)
  /\ Used(f.occ[Hit(f, n)], g.occ[Hit(f, n)])
  /\ \A i \in DOMAIN f.rules : i # Hit(f, n) => OccMoved(f, n, g, i)

LEMMA LeftExactly ==
  ASSUME NEW f, FrameOK(f), NEW n, NEW g, g = LeaveBehind(f, n, Len(f.rules) + 1)
  PROVE  StartMoved(f, n, g) /\ \A i \in DOMAIN f.rules : OccMoved(f, n, g, i)
<1> DEFINE passed == Passed(f, n)
           gone == {i \in passed : i < Len(f.rules) + 1}
           cuts == Cuts(f, gone)
           start == IF cuts = {} THEN f.start
                    ELSE (CHOOSE c \in cuts : \A d \in cuts : d <= c) + 1
           occ == [i \in DOMAIN f.occ |->
                     IF scn.canonical /\ i \in gone \ cuts THEN "-" ELSE f.occ[i]]
<1>1. gone = passed /\ passed \subseteq 1 .. Len(f.rules) /\ Len(f.rules) \in Nat
  <2>1. passed \subseteq 1 .. Len(f.rules) /\ Len(f.rules) \in Nat
    BY HitOK, FrameParts
  <2> HIDE DEF passed
  <2>2. \A i \in passed : i < Len(f.rules) + 1
    BY <2>1
  <2> QED  BY <2>1, <2>2
<1>2. cuts = Cuts(f, passed)
  BY <1>1
<1>3. g = [f EXCEPT !.start = start, !.occ = occ]
  BY DEF LeaveBehind
<1>4. \A i \in DOMAIN f.rules :
        occ[i] = IF scn.canonical /\ i \in passed /\ f.rules[i].name # Cut THEN "-" ELSE f.occ[i]
  <2>1. DOMAIN f.occ = DOMAIN f.rules
    BY FrameParts
  <2>2. \A i : i \in cuts <=> i \in passed /\ f.rules[i].name = Cut
    BY <1>2 DEF Cuts
  <2> HIDE DEF gone, cuts, passed
  <2> QED  BY <1>1, <2>1, <2>2
<1> HIDE DEF occ
<1>5. IF cuts = {} THEN start = f.start
      ELSE \E k \in cuts : start = k + 1 /\ \A j \in cuts : j <= k
  <2>1. cuts \in SUBSET (0 .. Len(f.rules))
    BY <1>1, <1>2 DEF Cuts
  <2> HIDE DEF cuts
  <2>2. CASE cuts # {}
    <3>1. \E c \in cuts : \A d \in cuts : d <= c
      BY <1>1, <2>1, <2>2, GreatestNumber
    <3> QED  BY <2>2, <3>1
  <2> QED  BY <2>2
<1> HIDE DEF start, cuts
<1>6. g.occ = occ /\ g.start = start
  BY <1>3 DEF FrameOK
<1>7. StartMoved(f, n, g)
  <2>1. IF cuts = {} THEN g.start = f.start
        ELSE \E k \in cuts : g.start = k + 1 /\ \A j \in cuts : j <= k
    BY <1>5, <1>6
  <2> QED  BY <1>2, <2>1 DEF StartMoved
<1> QED  BY <1>4, <1>6, <1>7 DEF OccMoved

LEMMA MatchExactly ==
  ASSUME NEW f, FrameOK(f), StartOK(f), version \in {1, 2}, NEW n, NEW m, m = MatchRule(f, n)
  PROVE  /\ (m.rule # 0 /\ m.errors = <<>>) <=> Admits(f, n)
         /\ Admits(f, n) => m.rule = Hit(f, n) /\ Admitted(f, n, m.frame)
<1> DEFINE hit == Hit(f, n)
           skipped == Skipped(f, n)
           g == LeaveBehind(f, n, Len(f.rules) + 1)
           old == TooOld(f.rules[hit], n)
<1>1. m = AfterSkipping(f, n, hit, skipped)
  BY DEF MatchRule
<1>2. CASE skipped # 0 \/ hit = 0
  <2>1. m.rule = 0
    BY <1>1, <1>2 DEF AfterSkipping, Matched
  <2>2. ~Admits(f, n)
    BY <1>2 DEF Admits
  <2> QED  BY <2>1, <2>2
<1>3. CASE skipped = 0 /\ hit # 0
  <2>1. m = TakeRule(g, n, hit, old)
    BY <1>1, <1>3 DEF AfterSkipping
  <2>2. FrameOK(g) /\ g.rules = f.rules /\ StartOK(g)
    BY LeaveBehindOK, LeftBehind
  <2>3. hit \in DOMAIN f.rules /\ hit \in Nat
    BY <1>3, HitOK
  <2>4. hit \notin Passed(f, n)
    BY <1>3, <2>3, FrameParts DEF Passed
  <2>5. StartMoved(f, n, g) /\ \A i \in DOMAIN f.rules : OccMoved(f, n, g, i)
    BY LeftExactly
  <2>6. g.occ[hit] = f.occ[hit]
    BY <2>3, <2>4, LeaveBehindOK
  <2>7. old = <<>> <=> f.rules[hit].min <= version
    <3>1. f.rules[hit] \in RuleType
      BY <2>3, FrameParts
    <3>2. PICK min : min = f.rules[hit].min
      OBVIOUS
    <3>3. min \in 0 .. 2
      BY <3>1, <3>2 DEF RuleType
    <3>4. old = IF min > version THEN <<Error("UNEXPECTED_IN_VERSION", n, 0)>> ELSE <<>>
      BY <3>2 DEF TooOld
    <3>5. min > version <=> ~(min <= version)
      BY <3>3
    <3> HIDE DEF old
    <3> QED  BY <3>2, <3>4, <3>5, Short
  <2>8. \A x : Append(old, x) # <<>>
    <3>1. old = <<>> \/ old = <<Error("UNEXPECTED_IN_VERSION", n, 0)>>
      BY DEF TooOld
    <3> HIDE DEF old
    <3> QED  BY <3>1, Short
  <2>9. g.occ[hit] \in {"1", "?", "*", "+", "0", "-"}
    BY <2>2, <2>3, FrameParts DEF Occ, Occurrence
  <2> HIDE DEF g, old, hit, skipped
  <2>10. m.rule # 0 <=> f.occ[hit] \notin {"0", "-"}
    <3>1. CASE g.occ[hit] \in {"0", "-"}
      BY <2>1, <2>6, <3>1 DEF TakeRule, Matched
    <3>2. CASE g.occ[hit] \in {"1", "?"}
      BY <1>3, <2>1, <2>6, <3>2 DEF TakeRule, Matched
    <3>3. CASE g.occ[hit] = "*"
      BY <1>3, <2>1, <2>6, <3>3 DEF TakeRule, Matched
    <3>4. CASE g.occ[hit] = "+"
      BY <1>3, <2>1, <2>6, <3>4 DEF TakeRule, Matched
    <3> QED  BY <2>9, <3>1, <3>2, <3>3, <3>4
  <2>11. Taken(g, n, hit, old, m)
    BY <2>1, <2>2, <2>3, TakeChanges
  <2>12. m.rule # 0 => m.rule = hit /\ m.errors = old /\ Used(f.occ[hit], m.frame.occ[hit])
    BY <2>6, <2>11 DEF Taken
  <2>13. (m.rule # 0 /\ m.errors = <<>>) <=> Admits(f, n)
    BY <1>3, <2>7, <2>10, <2>12 DEF Admits, hit, skipped
  <2>14. m.rule # 0 => m.frame.start = g.start
    <3>1. CASE g.occ[hit] \in {"0", "-"}
      BY <2>6, <2>10, <3>1
    <3>2. CASE g.occ[hit] \in {"1", "?"}
      <4>1. m.frame = [g EXCEPT !.occ[hit] = "0"]
        BY <2>1, <3>2 DEF TakeRule, Matched
      <4> QED  BY <2>2, <4>1 DEF FrameOK
    <3>3. CASE g.occ[hit] = "*"
      BY <2>1, <3>3 DEF TakeRule, Matched
    <3>4. CASE g.occ[hit] = "+"
      <4>1. m.frame = [g EXCEPT !.occ[hit] = "*"]
        BY <2>1, <3>4 DEF TakeRule, Matched
      <4> QED  BY <2>2, <4>1 DEF FrameOK
    <3> QED  BY <2>9, <3>1, <3>2, <3>3, <3>4
  <2>15. m.rule # 0 => Admitted(f, n, m.frame)
    <3> SUFFICES ASSUME m.rule # 0 PROVE Admitted(f, n, m.frame)
      OBVIOUS
    <3>1. StartMoved(f, n, m.frame)
      BY <2>5, <2>14 DEF StartMoved
    <3>2. Used(f.occ[Hit(f, n)], m.frame.occ[Hit(f, n)])
      BY <2>12 DEF hit
    <3>3. \A i \in DOMAIN f.rules : i # hit => m.frame.occ[i] = g.occ[i]
      BY <2>2, <2>11 DEF Taken
    <3>4. \A i \in DOMAIN f.rules : i # Hit(f, n) => OccMoved(f, n, m.frame, i)
      BY <2>5, <3>3 DEF OccMoved, hit
    <3> QED  BY <3>1, <3>2, <3>4 DEF Admitted
  <2> QED  BY <2>12, <2>13, <2>15 DEF hit
<1> QED  BY <1>2, <1>3

(* What a copy of the rules tells of the statements P that were taken from *)
(* the list so far; match_rule keeps no other record of them.              *)
TellsCount(f, P, i) ==
  /\ f.occ[i] = "0" => f.rules[i].occ \in {"1", "?"} /\ \E c \in P : RefRule(c) = i
  /\ f.occ[i] \in {"1", "?", "+"} => f.rules[i].occ = f.occ[i] /\ \A c \in P : RefRule(c) # i
  /\ f.occ[i] = "*" => f.rules[i].occ \in {"*", "+"}
  /\ f.occ[i] = "-" => scn.canonical /\ \E c \in P : Plain(c) /\ i < RefRule(c)
TellsOrder(f, P, i) ==
  IF f.rules[i].name = Cut
  THEN i >= f.start => \A c \in P : Plain(c) => ~(i < RefRule(c))
  ELSE /\ i < f.start => \E c \in P : Plain(c) /\ CutIn(f.rules, i, RefRule(c))
       /\ scn.canonical => \A c \in P : Plain(c) /\ i < RefRule(c) => f.occ[i] = "-"
Tells(f, P) == \A i \in DOMAIN f.rules : TellsCount(f, P, i) /\ TellsOrder(f, P, i)

LEMMA HitFrom ==
  ASSUME NEW f, FrameOK(f), NEW n
  PROVE  /\ Hit(f, n) # 0 =>
              /\ Hit(f, n) \in DOMAIN f.rules /\ Hit(f, n) \in Nat /\ f.start <= Hit(f, n)
              /\ \A i \in DOMAIN f.rules :
                   i \in Passed(f, n) <=> Plain(n) /\ f.start <= i /\ i < Hit(f, n)
         /\ \A i \in DOMAIN f.rules : f.start <= i /\ Matches(f.rules[i], n) => Hit(f, n) # 0
<1> DEFINE H == {i \in f.start .. Len(f.rules) : Matches(f.rules[i], n)}
           hit == Hit(f, n)
<1>1. /\ H \in SUBSET (Nat \ {0}) /\ \A h \in H : f.start <= h /\ h <= Len(f.rules)
      /\ DOMAIN f.rules = 1 .. Len(f.rules) /\ Len(f.rules) \in Nat /\ f.start \in Nat /\ f.start # 0
  BY FrameParts
<1>2. hit = First(H)
  BY DEF Hit
<1>3. \A i \in DOMAIN f.rules : f.start <= i /\ Matches(f.rules[i], n) => i \in H
  BY <1>1
<1>4. Passed(f, n) = IF Plain(n) THEN f.start .. (IF hit = 0 THEN Len(f.rules) ELSE hit - 1) ELSE {}
  BY DEF Passed
<1> HIDE DEF H, hit
<1>5. (hit = 0 <=> H = {}) /\ (hit # 0 => hit \in H)
  BY <1>1, <1>2, FirstOf
<1>6. hit # 0 => hit \in DOMAIN f.rules /\ hit \in Nat /\ f.start <= hit
  <2> SUFFICES ASSUME hit # 0
               PROVE  hit \in DOMAIN f.rules /\ hit \in Nat /\ f.start <= hit
    OBVIOUS
  <2>1. PICK h \in H : h = hit
    BY <1>5
  <2>2. h \in Nat \ {0} /\ f.start <= h /\ h <= Len(f.rules)
    BY <1>1
  <2> QED  BY <1>1, <2>1, <2>2
<1>7. hit # 0 => \A i \in DOMAIN f.rules : i \in Passed(f, n) <=> Plain(n) /\ f.start <= i /\ i < hit
  BY <1>1, <1>4, <1>6
<1> QED  BY <1>3, <1>5, <1>6, <1>7 DEF hit

(* It goes on to tell it, and of two statements that were taken it tells   *)
(* that the reference allows them in this order.                           *)
LEMMA TellsAfter ==
  ASSUME NEW f, FrameOK(f), NEW P, Tells(f, P), \A c \in P : RefRule(c) \in Nat,
         NEW n, RefRule(n) = Hit(f, n), Admits(f, n), f.rules[Hit(f, n)].name # Cut,
         NEW g, FrameOK(g), g.rules = f.rules, Admitted(f, n, g)
  PROVE  Tells(g, P \cup {n}) /\ \A c \in P : PairOK(f.rules, c, n)
<1> DEFINE hit == Hit(f, n)
           P2 == P \cup {n}
<1>1. /\ hit \in DOMAIN f.rules /\ hit \in Nat /\ hit # 0 /\ f.start <= hit
      /\ \A i \in DOMAIN f.rules : i \in Passed(f, n) <=> Plain(n) /\ f.start <= i /\ i < hit
  BY HitFrom DEF Admits
<1>2. /\ f.start \in Nat /\ \A i \in DOMAIN f.rules : i \in Nat
      /\ \A i \in DOMAIN f.rules : f.occ[i] \in {"1", "?", "*", "+", "0", "-"}
  BY FrameParts DEF Occ, Occurrence
<1>3. RefRule(n) = hit /\ f.occ[hit] \notin {"0", "-"} /\ f.rules[hit].name # Cut
  BY DEF Admits
<1>4. \A i \in DOMAIN f.rules : TellsCount(f, P, i) /\ TellsOrder(f, P, i)
  BY DEF Tells
<1>5. /\ Used(f.occ[hit], g.occ[hit]) /\ StartMoved(f, n, g)
      /\ \A i \in DOMAIN f.rules : i # hit => OccMoved(f, n, g, i)
  BY DEF Admitted
<1> HIDE DEF hit
<1>6. ASSUME NEW i \in DOMAIN f.rules
      PROVE  TellsCount(g, P2, i)
  <2>1. CASE i = hit
    <3>1. CASE f.occ[hit] \in {"1", "?"} /\ g.occ[hit] = "0"
      BY <1>1, <1>3, <1>4, <2>1, <3>1 DEF TellsCount
    <3>2. CASE f.occ[hit] \in {"*", "+"} /\ g.occ[hit] = "*"
      BY <1>1, <1>4, <2>1, <3>2 DEF TellsCount
    <3> QED  BY <1>5, <3>1, <3>2 DEF Used
  <2>2. CASE i # hit /\ g.occ[i] = "-" /\ scn.canonical /\ i \in Passed(f, n)
    BY <1>1, <1>3, <1>6, <2>2 DEF TellsCount
  <2>3. CASE i # hit /\ g.occ[i] = f.occ[i]
    BY <1>3, <1>4, <1>6, <2>3 DEF TellsCount
  <2> QED  BY <1>5, <1>6, <2>1, <2>2, <2>3 DEF OccMoved
<1>7. DEFINE cuts == Cuts(f, Passed(f, n))
<1>8. /\ cuts = {} => g.start = f.start
      /\ cuts # {} => \E k \in cuts : g.start = k + 1 /\ \A j \in cuts : j <= k
  BY <1>5 DEF StartMoved
<1>9. \A k : k \in cuts <=> k \in Passed(f, n) /\ f.rules[k].name = Cut
  BY DEF Cuts
<1>10. Passed(f, n) \subseteq DOMAIN f.rules
  BY HitOK
<1> HIDE DEF cuts
<1>11. ASSUME NEW i \in DOMAIN f.rules, f.rules[i].name = Cut, i >= g.start, NEW c \in P2, Plain(c)
       PROVE  ~(i < RefRule(c))
  <2>1. i >= f.start /\ i \notin cuts
    <3>1. CASE cuts = {}
      BY <1>8, <1>11, <3>1
    <3>2. ASSUME NEW k \in cuts, g.start = k + 1, \A j \in cuts : j <= k
          PROVE  i >= f.start /\ i \notin cuts
      <4>1. k \in Nat /\ f.start <= k
        BY <1>1, <1>2, <1>9, <1>10
      <4>2. i > k
        BY <1>2, <1>11, <3>2, <4>1
      <4>3. i >= f.start /\ ~(i <= k)
        BY <1>2, <4>1, <4>2
      <4> QED  BY <3>2, <4>3
    <3> QED  BY <1>8, <3>1, <3>2
  <2>2. CASE c \in P
    BY <1>4, <1>11, <2>1, <2>2 DEF TellsOrder
  <2>3. CASE c = n
    BY <1>1, <1>2, <1>3, <1>9, <1>11, <2>1, <2>3
  <2> QED  BY <2>2, <2>3
<1>12. ASSUME NEW i \in DOMAIN f.rules, f.rules[i].name # Cut, i < g.start
       PROVE  \E c \in P2 : Plain(c) /\ CutIn(f.rules, i, RefRule(c))
  <2>1. CASE i < f.start
    BY <1>4, <1>12, <2>1 DEF TellsOrder
  <2>2. CASE ~(i < f.start)
    <3>1. cuts # {}
      BY <1>8, <1>12, <2>2
    <3>2. PICK k \in cuts : g.start = k + 1
      BY <1>8, <3>1
    <3>3. k \in DOMAIN f.rules /\ k \in Nat /\ Plain(n) /\ k < hit /\ f.rules[k].name = Cut
      BY <1>1, <1>2, <1>9, <1>10
    <3>4. i < k
      <4>1. i # k
        BY <1>12, <3>3
      <4>2. i < k + 1
        BY <1>12, <3>2
      <4> QED  BY <1>2, <3>3, <4>1, <4>2
    <3>5. CutIn(f.rules, i, hit)
      BY <3>3, <3>4 DEF CutIn
    <3> QED  BY <1>3, <3>3, <3>5
  <2> QED  BY <2>1, <2>2
<1>13. ASSUME NEW i \in DOMAIN f.rules, f.rules[i].name # Cut, scn.canonical,
              NEW c \in P2, Plain(c), i < RefRule(c)
       PROVE  g.occ[i] = "-"
  <2>1. CASE f.occ[i] = "-"
    <3>1. i # hit
      BY <1>3, <2>1
    <3> QED  BY <1>5, <1>13, <2>1, <3>1 DEF OccMoved
  <2>2. CASE c \in P
    <3>1. f.occ[i] = "-"
      BY <1>4, <1>13, <2>2 DEF TellsOrder
    <3> QED  BY <2>1, <3>1
  <2>3. CASE c = n /\ i < f.start
    <3>1. PICK d \in P : Plain(d) /\ CutIn(f.rules, i, RefRule(d))
      BY <1>4, <1>13, <2>3 DEF TellsOrder
    <3>2. i < RefRule(d)
      BY <1>2, <3>1 DEF CutIn
    <3>3. f.occ[i] = "-"
      BY <1>4, <1>13, <3>1, <3>2 DEF TellsOrder
    <3> QED  BY <2>1, <3>3
  <2>4. CASE c = n /\ ~(i < f.start)
    <3>1. i \in Passed(f, n) /\ i # hit
      BY <1>1, <1>2, <1>3, <1>13, <2>4
    <3> QED  BY <1>5, <1>13, <3>1 DEF OccMoved
  <2> QED  BY <2>2, <2>3, <2>4
<1>14. \A i \in DOMAIN g.rules : TellsOrder(g, P2, i)
  BY <1>11, <1>12, <1>13 DEF TellsOrder
<1>15. Tells(g, P \cup {n})
  BY <1>6, <1>14 DEF Tells
<1>16. ASSUME NEW c \in P
       PROVE  PairOK(f.rules, c, n)
  <2>1. ASSUME Plain(c), CutIn(f.rules, hit, RefRule(c))
        PROVE  FALSE
    <3>1. PICK k \in DOMAIN f.rules : f.rules[k].name = Cut /\ hit < k /\ k < RefRule(c)
      BY <2>1 DEF CutIn
    <3>2. k >= f.start
      BY <1>1, <1>2, <3>1
    <3> QED  BY <1>4, <2>1, <3>1, <3>2 DEF TellsOrder
  <2>2. ASSUME Plain(c), scn.canonical
        PROVE  RefRule(c) <= hit
    <3>1. ~(hit < RefRule(c))
      BY <1>1, <1>3, <1>4, <2>2 DEF TellsOrder
    <3> QED  BY <1>1, <3>1
  <2>3. ASSUME RefRule(c) = hit
        PROVE  f.rules[hit].occ \notin {"1", "?"}
    BY <1>1, <1>2, <1>3, <1>4, <2>3 DEF TellsCount
  <2> QED  BY <1>3, <2>1, <2>2, <2>3 DEF PairOK
<1> QED  BY <1>15, <1>16

(* What the reference allows is found, and taken without an error.         *)
LEMMA FoundWhenValid ==
  ASSUME NEW f, FrameOK(f), NEW P, Tells(f, P), \A c \in P : RefRule(c) \in Nat,
         NEW n, RefRule(n) \in DOMAIN f.rules, Matches(f.rules[RefRule(n)], n),
         f.rules[RefRule(n)].name # Cut, \A c \in P : PairOK(f.rules, c, n)
  PROVE  Hit(f, n) # 0
<1>1. f.start \in Nat /\ RefRule(n) \in Nat
  BY FrameParts
<1>2. ASSUME RefRule(n) < f.start PROVE FALSE
  <2>1. PICK c \in P : Plain(c) /\ CutIn(f.rules, RefRule(n), RefRule(c))
    BY <1>2 DEF Tells, TellsOrder
  <2> QED  BY <2>1 DEF PairOK
<1>3. f.start <= RefRule(n)
  BY <1>1, <1>2
<1> QED  BY <1>3, HitFrom

LEMMA AdmitsWhenValid ==
  ASSUME NEW f, FrameOK(f), NEW P, Tells(f, P), \A c \in P : RefRule(c) \in Nat,
         NEW n, Hit(f, n) # 0, RefRule(n) = Hit(f, n), f.rules[Hit(f, n)].min <= version,
         \A c \in P : PairOK(f.rules, c, n),
         \A i \in DOMAIN f.rules : f.rules[i].occ \in Mandatory =>
           \E d : RefRule(d) = i /\ (d \in P \/ d = n \/ PairOK(f.rules, n, d))
  PROVE  Admits(f, n)
<1> DEFINE hit == Hit(f, n)
           skipped == Skipped(f, n)
           K == {i \in Passed(f, n) : /\ f.occ[i] \in Mandatory
                                      /\ scn.canonical \/ \E c \in Cuts(f, Passed(f, n)) : i < c}
<1>1. /\ hit \in DOMAIN f.rules /\ hit \in Nat
      /\ \A i \in DOMAIN f.rules : i \in Passed(f, n) <=> Plain(n) /\ f.start <= i /\ i < hit
  BY HitFrom
<1>2. Passed(f, n) \subseteq DOMAIN f.rules /\ DOMAIN f.rules \subseteq Nat \ {0}
  BY HitOK, FrameParts
<1>3. skipped = First(K) /\ K \in SUBSET (Nat \ {0})
  BY <1>2 DEF Skipped
<1>4. ASSUME NEW i \in K PROVE FALSE
  <2>1. i \in DOMAIN f.rules /\ i \in Nat /\ Plain(n) /\ i < hit /\ f.occ[i] \in Mandatory
    BY <1>1, <1>2
  <2>2. scn.canonical \/ CutIn(f.rules, i, hit)
    <3>1. ASSUME NEW c \in Cuts(f, Passed(f, n)), i < c
          PROVE  CutIn(f.rules, i, hit)
      <4>1. c \in Passed(f, n) /\ f.rules[c].name = Cut
        BY <3>1 DEF Cuts
      <4>2. c \in DOMAIN f.rules /\ c < hit
        BY <1>1, <1>2, <4>1
      <4> QED  BY <3>1, <4>1, <4>2 DEF CutIn
    <3> QED  BY <3>1
  <2> HIDE DEF K, hit
  <2>3. f.rules[i].occ \in Mandatory /\ \A c \in P : RefRule(c) # i
    BY <2>1 DEF Tells, TellsCount, Mandatory
  <2>4. PICK d : RefRule(d) = i /\ (d \in P \/ d = n \/ PairOK(f.rules, n, d))
    BY <2>1, <2>3
  <2>5. RefRule(n) = hit /\ hit # i
    BY <1>1, <2>1 DEF hit
  <2>6. PairOK(f.rules, n, d)
    BY <2>3, <2>4, <2>5
  <2>7. ~CutIn(f.rules, i, hit) /\ (scn.canonical => hit <= i)
    BY <2>1, <2>4, <2>5, <2>6 DEF PairOK
  <2> QED  BY <1>1, <2>1, <2>2, <2>7
<1>5. skipped = 0
  <2> HIDE DEF K, skipped
  <2>1. K = {}
    BY <1>4
  <2> QED  BY <1>3, <2>1, FirstOf
<1>6. f.occ[hit] # "0"
  <2> SUFFICES ASSUME f.occ[hit] = "0" PROVE FALSE
    OBVIOUS
  <2>1. TellsCount(f, P, hit)
    BY <1>1 DEF Tells
  <2>2. f.rules[hit].occ \in {"1", "?"} /\ \E c \in P : RefRule(c) = hit
    BY <2>1 DEF TellsCount
  <2> QED  BY <2>2 DEF PairOK
<1>7. f.occ[hit] # "-"
  <2> SUFFICES ASSUME f.occ[hit] = "-" PROVE FALSE
    OBVIOUS
  <2>1. TellsCount(f, P, hit)
    BY <1>1 DEF Tells
  <2>2. PICK c \in P : scn.canonical /\ Plain(c) /\ hit < RefRule(c)
    BY <2>1 DEF TellsCount
  <2>3. RefRule(c) <= hit
    BY <2>2 DEF PairOK
  <2> QED  BY <1>1, <2>2, <2>3
<1> QED  BY <1>5, <1>6, <1>7 DEF Admits

-----------------------------------------------------------------------------
(* The header of a module that fits its table.                             *)
HeaderFits ==
  LET rules == Grammar[Kw(1)].rules
  IN  /\ Kw(1) \in {"module", "submodule"}
      /\ \A c \in Sub(1) : Plain(c) =>
           RefRule(c) \in DOMAIN rules /\ rules[RefRule(c)].name = <<Builtin, Kw(c)>>
      /\ \A c, d \in Sub(1) : (c < d /\ Plain(c) /\ Plain(d)) => PairOK(rules, c, d)

LEMMA HeaderShape ==
  ASSUME scn \in Scenario, HeaderFits
  PROVE  LET first == IF Kw(1) = "module" THEN {"yang-version", "namespace", "prefix"}
                      ELSE {"yang-version", "belongs-to"}
             other == IF Kw(1) = "module" THEN "belongs-to" ELSE "prefix"
         IN  /\ \A c \in Sub(1) : ~IsA(c, other)
             /\ \A k \in {"yang-version", "prefix", "belongs-to"}, c, d \in Sub(1) :
                  IsA(c, k) /\ IsA(d, k) => c = d
             /\ \A b, i \in Sub(1) :
                  (IsA(i, "import") /\ Plain(b) /\ Kw(b) \notin HeaderKeyword) => i < b
             /\ \A b, i \in Sub(1) :
                  (IsA(i, "yang-version") /\ Plain(b) /\ Kw(b) \notin first) => i < b
<1> DEFINE first == IF Kw(1) = "module" THEN {"yang-version", "namespace", "prefix"}
                    ELSE {"yang-version", "belongs-to"}
           other == IF Kw(1) = "module" THEN "belongs-to" ELSE "prefix"
<1>1. PICK s \in {"module", "submodule"} : s = Kw(1)
  BY DEF HeaderFits
<1>2. PICK rules : rules = Grammar[s].rules
  OBVIOUS
<1> DEFINE CutBetween(i, j) == \E c \in i .. j : rules[c].name = Cut
<1>3. /\ \A i \in DOMAIN rules : rules[i].name # <<Builtin, other>>
      /\ \A i, j \in DOMAIN rules, k \in {"yang-version", "prefix", "belongs-to"} :
           (rules[i].name = <<Builtin, k>> /\ rules[j].name = <<Builtin, k>>) =>
             i = j /\ rules[i].occ \in {"1", "?"}
      /\ \A i, j \in DOMAIN rules, k \in Keyword \ {"$cut"} : rules[j].name = <<Builtin, k>> =>
           /\ (rules[i].name = <<Builtin, "import">> /\ k \notin HeaderKeyword) => CutBetween(i, j)
           /\ (rules[i].name = <<Builtin, "yang-version">> /\ k \notin first) => CutBetween(i, j)
  BY <1>1, <1>2, HeaderAssumption
<1>4. rules \in Seq(RuleType) /\ DOMAIN rules = 1 .. Len(rules) /\ Len(rules) \in Nat
  <2>1. Grammar[s] \in SpecType
    BY GrammarAssumption
  <2>2. rules \in Seq(RuleType)
    BY <1>2, <2>1 DEF SpecType
  <2> QED  BY <2>2
<1>5. /\ \A c \in Sub(1) : Plain(c) =>
           RefRule(c) \in DOMAIN rules /\ rules[RefRule(c)].name = <<Builtin, Kw(c)>>
      /\ \A c, d \in Sub(1) : (c < d /\ Plain(c) /\ Plain(d)) => PairOK(rules, c, d)
  BY <1>1, <1>2 DEF HeaderFits
<1>6. \A c \in Sub(1) : c \in Nat /\ Kw(c) \in Keyword \ {"$cut"}
  <2> SUFFICES ASSUME NEW c \in Sub(1)
               PROVE  c \in Nat /\ Kw(c) \in Keyword \ {"$cut"}
    OBVIOUS
  <2>1. c \in Nodes /\ c \in Nat
    BY ParentOf DEF Sub
  <2>2. Tree[c] \in Statement
    BY <2>1, TreeTyped
  <2>3. Kw(c) # "$cut"
    BY <2>1, ScenarioAssumption DEF Tree, Nodes, Kw
  <2> QED  BY <2>1, <2>2, <2>3 DEF Statement, Kw
<1> HIDE DEF other, first, CutBetween
<1>7. ASSUME NEW c \in Sub(1), IsA(c, other) PROVE FALSE
  BY <1>3, <1>5, <1>7 DEF IsA
<1>8. ASSUME NEW k \in {"yang-version", "prefix", "belongs-to"}, NEW c \in Sub(1), NEW d \in Sub(1),
             IsA(c, k), IsA(d, k), c < d
      PROVE  FALSE
  <2>1. /\ Plain(c) /\ Plain(d) /\ RefRule(c) \in DOMAIN rules /\ RefRule(d) \in DOMAIN rules
        /\ rules[RefRule(c)].name = <<Builtin, k>> /\ rules[RefRule(d)].name = <<Builtin, k>>
    BY <1>5, <1>8 DEF IsA
  <2>2. RefRule(c) = RefRule(d) /\ rules[RefRule(c)].occ \in {"1", "?"}
    BY <1>3, <2>1
  <2>3. PairOK(rules, c, d)
    BY <1>5, <1>8, <2>1
  <2> QED  BY <2>2, <2>3 DEF PairOK
<1>9. ASSUME NEW b \in Sub(1), NEW i \in Sub(1), Plain(b), Plain(i), Kw(i) # Kw(b),
             CutBetween(RefRule(i), RefRule(b))
      PROVE  i < b
  <2>1. /\ RefRule(b) \in DOMAIN rules /\ RefRule(i) \in DOMAIN rules
        /\ rules[RefRule(b)].name = <<Builtin, Kw(b)>> /\ rules[RefRule(i)].name = <<Builtin, Kw(i)>>
    BY <1>5, <1>9
  <2>2. rules[RefRule(b)].name # Cut /\ rules[RefRule(i)].name # Cut
    BY <1>6, <2>1 DEF Cut
  <2>3. PICK k \in RefRule(i) .. RefRule(b) : rules[k].name = Cut
    BY <1>9 DEF CutBetween
  <2>4. k # RefRule(b) /\ k # RefRule(i)
    BY <2>2, <2>3
  <2>5. k \in DOMAIN rules /\ RefRule(i) < k /\ k < RefRule(b)
    BY <1>4, <2>1, <2>3, <2>4
  <2>6. CutIn(rules, RefRule(i), RefRule(b))
    BY <2>3, <2>5 DEF CutIn
  <2>7. ~(b < i)
    <3> SUFFICES ASSUME b < i PROVE FALSE
      OBVIOUS
    <3>1. PairOK(rules, b, i)
      BY <1>5, <1>9
    <3> QED  BY <1>9, <2>6, <3>1 DEF PairOK
  <2>8. b # i
    BY <1>9
  <2> QED  BY <1>6, <2>7, <2>8
<1>10. ASSUME NEW b \in Sub(1), NEW i \in Sub(1), IsA(i, "import"), Plain(b), Kw(b) \notin HeaderKeyword
       PROVE  i < b
  <2>1. /\ RefRule(b) \in DOMAIN rules /\ RefRule(i) \in DOMAIN rules /\ Plain(i) /\ Kw(i) = "import"
        /\ rules[RefRule(b)].name = <<Builtin, Kw(b)>> /\ rules[RefRule(i)].name = <<Builtin, "import">>
    BY <1>5, <1>10 DEF IsA
  <2>2. CutBetween(RefRule(i), RefRule(b)) /\ Kw(i) # Kw(b)
    BY <1>3, <1>6, <1>10, <2>1 DEF HeaderKeyword
  <2> QED  BY <1>9, <1>10, <2>1, <2>2
<1>11. ASSUME NEW b \in Sub(1), NEW i \in Sub(1), IsA(i, "yang-version"), Plain(b), Kw(b) \notin first
       PROVE  i < b
  <2>1. /\ RefRule(b) \in DOMAIN rules /\ RefRule(i) \in DOMAIN rules
        /\ Plain(i) /\ Kw(i) = "yang-version"
        /\ rules[RefRule(b)].name = <<Builtin, Kw(b)>>
        /\ rules[RefRule(i)].name = <<Builtin, "yang-version">>
    BY <1>5, <1>11 DEF IsA
  <2>2. CutBetween(RefRule(i), RefRule(b)) /\ Kw(i) # Kw(b)
    BY <1>3, <1>6, <1>11, <2>1 DEF first
  <2> QED  BY <1>9, <1>11, <2>1, <2>2
<1>12. \A k \in {"yang-version", "prefix", "belongs-to"}, c, d \in Sub(1) :
         IsA(c, k) /\ IsA(d, k) => c = d
  <2> SUFFICES ASSUME NEW k \in {"yang-version", "prefix", "belongs-to"},
                      NEW c \in Sub(1), NEW d \in Sub(1), IsA(c, k), IsA(d, k)
               PROVE  c = d
    OBVIOUS
  <2>1. ~(c < d) /\ ~(d < c)
    BY <1>8
  <2> QED  BY <1>6, <2>1
<1> QED  BY <1>7, <1>10, <1>11, <1>12 DEF first, other

(* There is room for all the prefixes, so the loop does not stop early.    *)
LEMMA RoomForPrefixes ==
  ASSUME scn \in Scenario, HeaderFits
  PROVE  IsFiniteSet(Declarations) /\ Cardinality(Declarations) <= NPrefixes /\ NPrefixes \in Nat
<1> DEFINE I == {i \in Sub(1) : IsA(i, "import")}
           body == {n \in Sub(1) : Plain(n) /\ Kw(n) \notin HeaderKeyword}
           J == {i \in Sub(1) : IsA(i, "import") /\ \A b \in body : i < b}
           own == IF Kw(1) = "module" THEN "prefix" ELSE "belongs-to"
           O == {n \in Sub(1) : IsA(n, own)}
<1>1. IsFiniteSet(Sub(1))
  <2>1. Sub(1) \subseteq Nodes
    BY DEF Sub
  <2> QED  BY <2>1, TreeTyped, FS_Subset
<1>2. J = I
  BY HeaderShape
<1>3. NPrefixes = 1 + Cardinality(I)
  BY <1>2 DEF NPrefixes
<1>4. Declarations \subseteq I \cup O
  <2> SUFFICES ASSUME NEW n \in Declarations PROVE n \in I \cup O
    OBVIOUS
  <2>1. n \in Sub(1) /\ Declaring(n) # 0
    BY DEF Declarations
  <2>2. IsA(n, "prefix") \/ IsA(n, "belongs-to") \/ IsA(n, "import")
    BY <2>1 DEF Declaring
  <2>3. ~IsA(n, IF Kw(1) = "module" THEN "belongs-to" ELSE "prefix")
    BY <2>1, HeaderShape
  <2> QED  BY <2>1, <2>2, <2>3
<1>5. \A c, d \in O : c = d
  <2>1. own \in {"yang-version", "prefix", "belongs-to"}
    OBVIOUS
  <2>2. \A c, d \in Sub(1) : IsA(c, own) /\ IsA(d, own) => c = d
    BY <2>1, HeaderShape
  <2> QED  BY <2>2
<1>6. IsFiniteSet(I) /\ I \subseteq Sub(1)
  BY <1>1, FS_Subset
<1> HIDE DEF I, O
<1>7. IsFiniteSet(O) /\ Cardinality(O) <= 1 /\ Cardinality(O) \in Nat
  <2>1. CASE O = {}
    BY <2>1, FS_EmptySet
  <2>2. ASSUME NEW c \in O
        PROVE  IsFiniteSet(O) /\ Cardinality(O) <= 1 /\ Cardinality(O) \in Nat
    <3>1. O = {c}
      BY <1>5, <2>2
    <3>2. IsFiniteSet({c}) /\ Cardinality({c}) = 1
      BY FS_Singleton
    <3> QED  BY <3>1, <3>2
  <2> QED  BY <2>1, <2>2
<1>8. /\ IsFiniteSet(I \cup O) /\ Cardinality(I) \in Nat /\ Cardinality(I \cup O) \in Nat
      /\ Cardinality(I \cup O) <= Cardinality(I) + Cardinality(O)
  <2>1. IsFiniteSet(I \cup O) /\ Cardinality(I) \in Nat /\ Cardinality(I \cup O) \in Nat
    BY <1>6, <1>7, FS_Union, FS_CardinalityType
  <2>2. Cardinality(I \cup O) = Cardinality(I) + Cardinality(O) - Cardinality(I \cap O)
    BY <1>6, <1>7, FS_Union
  <2>3. Cardinality(I \cap O) \in Nat
    BY <1>6, FS_Subset, FS_CardinalityType
  <2> QED  BY <1>7, <2>1, <2>2, <2>3
<1>9. IsFiniteSet(Declarations) /\ Cardinality(Declarations) <= Cardinality(I \cup O)
  BY <1>4, <1>8, FS_Subset
<1>10. Cardinality(Declarations) \in Nat
  BY <1>9, FS_CardinalityType
<1> QED  BY <1>3, <1>7, <1>8, <1>9, <1>10

(* The version that is looked for first is the one of the module.          *)
LEMMA VersionFound ==
  ASSUME scn \in Scenario, HeaderFits, ~Deviant
  PROVE  HeaderVersion = RefVersion
<1> DEFINE K == {n \in Sub(1) : Stops(n)}
           v == VersionStatement
<1>1. K \in SUBSET (Nat \ {0}) /\ v = First(K)
  <2>1. \A n \in Sub(1) : n \in Nat \ {0}
    BY ParentOf DEF Sub
  <2> QED  BY <2>1 DEF VersionStatement
<1>2. \A n \in Sub(1) : Kw(n) = "yang-version" => IsA(n, "yang-version")
  BY DEF Deviant, IsA
<1>3. \A n \in K : n \in Sub(1) /\ Stops(n)
  OBVIOUS
<1>4. CASE \E n \in Sub(1) : IsA(n, "yang-version")
  <2>1. PICK y \in Sub(1) : IsA(y, "yang-version")
    BY <1>4
  <2>2. y \in K
    BY <2>1 DEF Stops, IsA
  <2>3. ASSUME NEW n \in K PROVE y <= n
    <3>1. CASE n = y
      BY <1>1, <3>1
    <3>2. CASE n # y
      <4>1. Kw(n) # "yang-version"
        <5> SUFFICES ASSUME Kw(n) = "yang-version" PROVE FALSE
          OBVIOUS
        <5>1. IsA(n, "yang-version") /\ n \in Sub(1)
          BY <1>2, <1>3
        <5> QED  BY <2>1, <3>2, <5>1, HeaderShape
      <4>2. /\ n \in Sub(1) /\ Plain(n)
            /\ Kw(n) \notin IF Kw(1) = "module" THEN {"yang-version", "namespace", "prefix"}
                            ELSE {"yang-version", "belongs-to"}
        BY <1>3, <4>1 DEF Stops
      <4>3. y < n
        BY <2>1, <4>2, HeaderShape
      <4> QED  BY <1>1, <2>2, <4>3
    <3> QED  BY <3>1, <3>2
  <2> HIDE DEF K, v
  <2>4. v = y
    BY <1>1, <2>2, <2>3, FirstIs
  <2>5. y # 0
    BY <1>1, <2>2
  <2>6. HeaderVersion = IF Tree[y].arg = "1.1" THEN 2 ELSE 1
    BY <2>1, <2>4, <2>5 DEF HeaderVersion, v, IsA
  <2>7. (\E n \in Sub(1) : IsA(n, "yang-version") /\ Tree[n].arg = "1.1") <=> Tree[y].arg = "1.1"
    BY <2>1, HeaderShape
  <2> QED  BY <2>6, <2>7 DEF RefVersion
<1>5. CASE ~\E n \in Sub(1) : IsA(n, "yang-version")
  <2>1. v = 0 \/ v \in Sub(1)
    <3>1. v # 0 => v \in K
      <4> HIDE DEF K, v
      <4> QED  BY <1>1, FirstOf
    <3> QED  BY <1>3, <3>1
  <2>2. v # 0 => Kw(v) # "yang-version"
    BY <1>2, <1>5, <2>1
  <2> QED  BY <1>5, <2>2 DEF HeaderVersion, RefVersion
<1> QED  BY <1>4, <1>5

(* While there is room, the map holds all declarations, unless two are of  *)
(* the same prefix, and then the later one is refused.                     *)
DistinctUpTo(k) ==
  \A d, e \in Declarations : (d <= k /\ e <= k /\ Declared(d) = Declared(e)) => d = e
DeclaredUpTo(k) == {d \in Declarations : d <= k}
AllTaken(r, k) ==
  /\ r.refused \subseteq Declarations
  /\ r.refused = {} <=> DistinctUpTo(k)
  /\ DistinctUpTo(k) => r.taken = DeclaredUpTo(k)
Distinct == \A d, e \in Declarations : Declared(d) = Declared(e) => d = e

LEMMA PrefixAdded ==
  ASSUME scn \in Scenario, IsFiniteSet(Declarations), NPrefixes \in Nat,
         Cardinality(Declarations) <= NPrefixes,
         NEW k \in Nat, NEW r, AllTaken(r, k), NEW q, q = AddPrefix(r, k + 1),
         r \in [taken : SUBSET Nat, refused : SUBSET Nat]
  PROVE  AllTaken(q, k + 1) /\ q \in [taken : SUBSET Nat, refused : SUBSET Nat]
<1> DEFINE n == k + 1
<1>1. \A d \in Declarations : d \in Nat /\ (d <= n <=> d <= k \/ d = n) /\ (d = n => ~(d <= k))
  <2>1. \A d \in Declarations : d \in Nodes
    BY DEF Declarations, Sub
  <2>2. \A d \in Declarations : d \in Nat
    BY <2>1, ParentOf
  <2> HIDE DEF Declarations
  <2> QED  BY <2>2
<1>2. n \in Nat
  OBVIOUS
<1>3. q = AddPrefix(r, n)
  OBVIOUS
<1>4. DistinctUpTo(n) => DistinctUpTo(k)
  BY <1>1 DEF DistinctUpTo
<1> HIDE DEF n
<1>5. CASE n \notin Declarations
  <2>1. q = r
    BY <1>3, <1>5 DEF AddPrefix
  <2>2. DeclaredUpTo(n) = DeclaredUpTo(k) /\ (DistinctUpTo(n) <=> DistinctUpTo(k))
    BY <1>1, <1>5 DEF DeclaredUpTo, DistinctUpTo
  <2>3. AllTaken(r, n)
    BY <2>2 DEF AllTaken
  <2> QED  BY <2>1, <2>3 DEF n
<1>6. CASE n \in Declarations /\ ~DistinctUpTo(k)
  <2>1. r.refused # {} /\ r.refused \subseteq Declarations
    BY <1>6 DEF AllTaken
  <2>2. q.refused = r.refused \/ q.refused = r.refused \cup {n}
    BY <1>3 DEF AddPrefix
  <2>3. q.refused # {} /\ q.refused \subseteq Declarations
    BY <1>6, <2>1, <2>2
  <2>4. q \in [taken : SUBSET Nat, refused : SUBSET Nat]
    BY <1>2, <1>3 DEF AddPrefix
  <2>5. AllTaken(q, n)
    BY <1>4, <1>6, <2>3 DEF AllTaken
  <2> QED  BY <2>4, <2>5 DEF n
<1>7. CASE n \in Declarations /\ DistinctUpTo(k)
  <2>1. r.refused = {} /\ r.taken = DeclaredUpTo(k)
    BY <1>7 DEF AllTaken
  <2>2. DeclaredUpTo(k) \subseteq Declarations /\ n \notin DeclaredUpTo(k)
    BY <1>1, <1>7 DEF DeclaredUpTo
  <2>3. Cardinality(r.taken) # NPrefixes
    <3>1. /\ Cardinality(DeclaredUpTo(k)) \in Nat /\ Cardinality(Declarations) \in Nat
          /\ Cardinality(DeclaredUpTo(k)) < Cardinality(Declarations)
      BY <1>7, <2>2, FS_Subset, FS_CardinalityType
    <3> HIDE DEF Declarations
    <3> QED  BY <2>1, <3>1
  <2>4. CASE \E d \in r.taken : Declared(d) = Declared(n)
    <3>1. q = [r EXCEPT !.refused = @ \cup {n}]
      BY <1>3, <1>7, <2>3, <2>4 DEF AddPrefix
    <3>2. q.refused = {n} /\ q \in [taken : SUBSET Nat, refused : SUBSET Nat]
      BY <1>2, <2>1, <3>1
    <3>3. ~DistinctUpTo(n)
      BY <1>1, <1>7, <2>1, <2>4 DEF DistinctUpTo, DeclaredUpTo
    <3>4. AllTaken(q, n)
      BY <1>7, <3>2, <3>3 DEF AllTaken
    <3> QED  BY <3>2, <3>4 DEF n
  <2>5. CASE ~\E d \in r.taken : Declared(d) = Declared(n)
    <3>1. q = [r EXCEPT !.taken = @ \cup {n}]
      BY <1>3, <1>7, <2>3, <2>5 DEF AddPrefix
    <3>2. /\ q.refused = {} /\ q.taken = DeclaredUpTo(k) \cup {n}
          /\ q \in [taken : SUBSET Nat, refused : SUBSET Nat]
      BY <1>2, <2>1, <3>1
    <3>3. DeclaredUpTo(n) = DeclaredUpTo(k) \cup {n}
      BY <1>1, <1>7 DEF DeclaredUpTo
    <3>4. DistinctUpTo(n)
      <4>1. \A d \in Declarations : d <= k => Declared(d) # Declared(n)
        BY <2>1, <2>5 DEF DeclaredUpTo
      <4> QED  BY <1>1, <1>7, <4>1 DEF DistinctUpTo
    <3>5. AllTaken(q, n)
      BY <3>2, <3>3, <3>4 DEF AllTaken
    <3> QED  BY <3>2, <3>5 DEF n
  <2> QED  BY <2>4, <2>5
<1> QED  BY <1>5, <1>6, <1>7

LEMMA PrefixesTaken ==
  ASSUME scn \in Scenario, HeaderFits
  PROVE  /\ PrefixMap.refused = {} <=> Distinct
         /\ Distinct => PrefixMap.taken = Declarations
<1>1. PICK u : /\ u[0] = NoPrefix /\ PrefixMap = u[Len(Tree)]
               /\ \A n \in 1 .. Len(Tree) : u[n] = AddPrefix(u[n - 1], n)
  BY PrefixSteps
<1>2. Len(Tree) \in Nat /\ \A d \in Declarations : d \in Nat \ {0} /\ d <= Len(Tree)
  <2>1. \A d \in Declarations : d \in Nodes
    BY DEF Declarations, Sub
  <2> QED  BY <2>1, TreeTyped, ParentOf
<1> DEFINE Typed(r) == r \in [taken : SUBSET Nat, refused : SUBSET Nat]
           A == {k \in Nat : k <= Len(Tree) => AllTaken(u[k], k) /\ Typed(u[k])}
<1>3. 0 \in A
  <2>1. u[0].taken = {} /\ u[0].refused = {} /\ Typed(u[0])
    BY <1>1 DEF NoPrefix
  <2>2. DistinctUpTo(0) /\ DeclaredUpTo(0) = {}
    <3>1. \A e \in Declarations : ~(e <= 0)
      BY <1>2
    <3> QED  BY <3>1 DEF DistinctUpTo, DeclaredUpTo
  <2>3. AllTaken(u[0], 0)
    BY <2>1, <2>2 DEF AllTaken
  <2> QED  BY <2>1, <2>3
<1>4. ASSUME NEW k \in Nat, k \in A PROVE k + 1 \in A
  <2> SUFFICES ASSUME k + 1 <= Len(Tree)
               PROVE  AllTaken(u[k + 1], k + 1) /\ Typed(u[k + 1])
    OBVIOUS
  <2>1. AllTaken(u[k], k) /\ Typed(u[k]) /\ u[k + 1] = AddPrefix(u[k], k + 1)
    <3>1. k + 1 \in 1 .. Len(Tree) /\ (k + 1) - 1 = k /\ k <= Len(Tree)
      BY <1>2
    <3> QED  BY <1>1, <1>4, <3>1
  <2>2. PICK r, q : r = u[k] /\ q = u[k + 1]
    OBVIOUS
  <2>3. AllTaken(r, k) /\ r \in [taken : SUBSET Nat, refused : SUBSET Nat] /\ q = AddPrefix(r, k + 1)
    BY <2>1, <2>2
  <2>4. AllTaken(q, k + 1) /\ q \in [taken : SUBSET Nat, refused : SUBSET Nat]
    BY <2>3, RoomForPrefixes, PrefixAdded
  <2> QED  BY <2>2, <2>4
<1> HIDE DEF A
<1>5. Len(Tree) \in A
  BY <1>2, <1>3, <1>4, NumberInduction
<1>6. AllTaken(PrefixMap, Len(Tree))
  <2>1. Len(Tree) <= Len(Tree)
    BY <1>2
  <2> QED  BY <1>1, <1>5, <2>1 DEF A
<1>7. (DistinctUpTo(Len(Tree)) <=> Distinct) /\ DeclaredUpTo(Len(Tree)) = Declarations
  BY <1>2 DEF DistinctUpTo, Distinct, DeclaredUpTo
<1> QED  BY <1>6, <1>7 DEF AllTaken

-----------------------------------------------------------------------------
(* The invariant of a check without errors.  Seen: the statements in n that*)
(* were taken.                                                             *)
Seen(S, n) == {c \in Sub(n) \ S : Known(c)}
FrameTells(f, S) == f.parent # 0 => Tells(f, Seen(S, f.parent))
Exact(s) ==
  /\ PassedOK(ToCome(s))
  /\ \A j \in 1 .. Len(s) : FrameTells(s[j], ToCome(s))

LEMMA RefTyped ==
  ASSUME scn \in Scenario, Kw(1) \in {"module", "submodule"}
  PROVE  \A n \in Nodes :
           /\ RefRules(n) \in Seq(RuleType)
           /\ n # 1 => LET rules == RefRules(Tree[n].parent)
                       IN  /\ RefRule(n) \in Nat
                           /\ RefRule(n) # 0 => /\ RefRule(n) \in DOMAIN rules
                                                /\ rules[RefRule(n)] \in RuleType
                                                /\ Fits(n, rules[RefRule(n)])
<1>1. \A s \in DOMAIN Grammar : Grammar[s].rules \in Seq(RuleType)
  <2>1. \A s \in DOMAIN Grammar : Grammar[s] \in SpecType
    BY GrammarAssumption
  <2> QED  BY <2>1 DEF SpecType
<1> DEFINE R(n, rules) == /\ RefRule(n) \in Nat
                          /\ RefRule(n) # 0 => /\ RefRule(n) \in DOMAIN rules
                                               /\ rules[RefRule(n)] \in RuleType
                                               /\ Fits(n, rules[RefRule(n)])
           I(n) == RefRules(n) \in Seq(RuleType) /\ (n # 1 => R(n, RefRules(Tree[n].parent)))
           A == {k \in Nat : \A n \in Nodes : n <= k => I(n)}
<1>2. 0 \in A
  <2>1. \A n \in Nodes : n \in Nat \ {0}
    BY ParentOf
  <2> QED  BY <2>1
<1>3. ASSUME NEW k \in Nat, k \in A PROVE k + 1 \in A
  <2> SUFFICES ASSUME NEW n \in Nodes, n <= k + 1
               PROVE  I(n)
    OBVIOUS
  <2>1. n \in Nat \ {0}
    BY ParentOf
  <2>2. CASE n = 1
    <3>1. Kw(1) \in DOMAIN Grammar
      BY GrammarAssumption
    <3> QED  BY <1>1, <2>2, <3>1, RefRuleOf
  <2>3. CASE n # 1
    <3>1. PICK p, rules : p = Tree[n].parent /\ rules = RefRules(p)
      OBVIOUS
    <3>2. p \in Nodes /\ p \in Nat /\ p <= k
      BY <2>1, <2>3, <3>1, ParentOf
    <3>3. rules \in Seq(RuleType)
      BY <1>3, <3>1, <3>2
    <3> DEFINE S == {i \in DOMAIN rules : Fits(n, rules[i])}
    <3>4. RefRule(n) = First(S)
      BY <2>3, <3>1, RefRuleOf DEF RuleFor
    <3>5. S \in SUBSET (Nat \ {0})
      BY <3>3
    <3>6. \A i \in S : i \in DOMAIN rules /\ rules[i] \in RuleType /\ Fits(n, rules[i])
      BY <3>3
    <3> HIDE DEF S
    <3>7. RefRule(n) \in Nat /\ (RefRule(n) # 0 => RefRule(n) \in S)
      BY <3>4, <3>5, FirstOf
    <3>8. R(n, rules)
      BY <3>6, <3>7
    <3>9. RefRules(n) = IF RefRule(n) = 0 THEN <<>> ELSE Grammar[rules[RefRule(n)].spec].rules
      BY <2>3, <3>1, RefRuleOf
    <3>10. RefRules(n) \in Seq(RuleType)
      <4>1. CASE RefRule(n) = 0
        BY <3>9, <4>1
      <4>2. CASE RefRule(n) # 0
        <5>1. rules[RefRule(n)].spec \in DOMAIN Grammar
          BY <3>8, <4>2 DEF RuleType
        <5> QED  BY <1>1, <3>9, <4>2, <5>1
      <4> QED  BY <4>1, <4>2
    <3> QED  BY <3>1, <3>8, <3>10
  <2> QED  BY <2>2, <2>3
<1> HIDE DEF I
<1>4. Nat \subseteq A
  <2> HIDE DEF A
  <2> QED  BY <1>2, <1>3, NumberInduction
<1>5. \A n \in Nodes : I(n)
  <2> SUFFICES ASSUME NEW n \in Nodes PROVE I(n)
    OBVIOUS
  <2>1. n \in Nat
    BY ParentOf
  <2> QED  BY <1>4, <2>1
<1> QED  BY <1>5 DEF I

LEMMA PassedLess ==
  ASSUME NEW S, NEW S2, PassedOK(S), \A n \in Nodes : Looked(S2, n) => Looked(S, n)
  PROVE  PassedOK(S2)
BY DEF PassedOK, BeforeOK

LEMMA TellsAlike ==
  ASSUME NEW f, NEW g, Alike(f, g), NEW S, NEW S2,
         f.parent # 0 => Seen(S2, f.parent) = Seen(S, f.parent), FrameTells(f, S)
  PROVE  FrameTells(g, S2)
<1>1. \A P : Tells(f, P) => Tells(g, P)
  <2> SUFFICES ASSUME NEW P, Tells(f, P)
               PROVE  Tells(g, P)
    OBVIOUS
  <2>1. g.occ = f.occ /\ g.rules = f.rules /\ g.start = f.start
    BY DEF Alike
  <2>2. ASSUME NEW i \in DOMAIN f.rules PROVE TellsCount(g, P, i) /\ TellsOrder(g, P, i)
    <3>1. TellsCount(f, P, i) /\ TellsOrder(f, P, i)
      BY DEF Tells
    <3>2. TellsCount(g, P, i)
      BY <2>1, <3>1 DEF TellsCount
    <3>3. TellsOrder(g, P, i)
      BY <2>1, <3>1 DEF TellsOrder
    <3> QED  BY <3>2, <3>3
  <2> QED  BY <2>1, <2>2 DEF Tells
<1> QED  BY <1>1 DEF FrameTells, Alike

(* A statement of an unknown module changes nothing.                       *)
LEMMA ExactMoved ==
  ASSUME scn \in Scenario, AllNamed, NEW s, StackOK(s), PathOK(s), Exact(s),
         s[1].cur # 0, ~Known(s[1].cur),
         NEW g, Alike(s[1], g), g.cur = NextOf(s[1].cur), NEW t, t = <<g>> \o Tail(s)
  PROVE  Exact(t)
<1> PICK c : c = s[1].cur
  OBVIOUS
<1> PICK S, S2 : S = ToCome(s) /\ S2 = ToCome(t)
  OBVIOUS
<1>1. S2 = S \ {c}
  BY MovedExactly DEF Alike
<1>2. ~Known(c) /\ Len(s) \in Nat \ {0}
  BY StackParts
<1>3. \A n \in Nodes : Looked(S2, n) => Looked(S, n)
  <2> SUFFICES ASSUME NEW n \in Nodes, Looked(S2, n)
               PROVE  Looked(S, n)
    OBVIOUS
  <2>1. \A p \in Around(n) \cup {n} : Known(p)
    BY KnownAround DEF Looked
  <2> QED  BY <1>1, <1>2, <2>1 DEF Looked
<1>4. PassedOK(S2)
  BY <1>3, PassedLess DEF Exact
<1>5. \A p : Seen(S2, p) = Seen(S, p)
  BY <1>1, <1>2 DEF Seen
<1>6. Len(t) = Len(s) /\ t[1] = g /\ \A j \in 2 .. Len(s) : t[j] = s[j]
  <2>1. PICK T : s \in Seq(T)
    BY DEF StackOK, IsSeq
  <2> DEFINE U == T \cup {g}
  <2>2. s \in Seq(U) /\ g \in U
    BY <2>1
  <2> HIDE DEF U
  <2>3. s # <<>>
    BY DEF StackOK
  <2> QED  BY <2>2, <2>3
<1>7. ASSUME NEW j \in 1 .. Len(t) PROVE FrameTells(t[j], S2)
  <2>1. Alike(s[j], t[j])
    <3>1. j = 1 \/ j \in 2 .. Len(s)
      BY <1>2, <1>6
    <3> QED  BY <1>6, <3>1 DEF Alike
  <2>2. FrameTells(s[j], S)
    BY <1>6 DEF Exact
  <2> QED  BY <1>5, <2>1, <2>2, TellsAlike
<1> QED  BY <1>4, <1>7 DEF Exact

(* The end of a list.                                                      *)
LEMMA ExactReturned ==
  ASSUME scn \in Scenario, NEW E, NEW s, StackOK(s), PathInv(E, s), Exact(s), ~Single(s), s[1].cur = 0,
         NEW g, g.cur = NextOf(s[2].cur), Alike(s[2], g), NEW t, t = <<g>> \o Tail(Tail(s))
  PROVE  Exact(t)
<1> PICK p, u, S : p = s[1].parent /\ u = Tail(s) /\ S = ToCome(s)
  OBVIOUS
<1>1. PathOK(s) /\ Len(s) \in Nat \ {0} /\ 1 \in 1 .. Len(s)
  BY StackParts DEF PathInv
<1>2. StackOK(u) /\ u[1] = s[2]
  BY Returned
<1>3. /\ PathOK(u) /\ ToCome(u) \subseteq S \cup {p} /\ s[2].cur = p /\ p # 0
  BY <1>1, CameBack
<1>4. /\ S \subseteq ToCome(u)
      /\ \A j \in 1 .. Len(u) : j + 1 \in 2 .. Len(s) /\ u[j] = s[j + 1]
  BY <1>1, CameExactly
<1>5. p \in OpenFrom(s, 1) /\ p \notin S
  <2>1. p \in OpenFrom(s, 1)
    BY <1>1, <1>3 DEF OpenFrom
  <2> QED  BY <2>1 DEF PathInv
<1>6. /\ u[1].cur # 0 /\ g.parent = u[1].parent /\ g.cur = NextOf(u[1].cur)
      /\ t = <<g>> \o Tail(u)
  BY <1>2, <1>3 DEF Alike
<1>7. ToCome(t) = S
  <2>1. ToCome(t) = ToCome(u) \ {u[1].cur}
    BY <1>2, <1>3, <1>6, MovedExactly
  <2>2. u[1].cur = p
    BY <1>2, <1>3
  <2>3. PICK a, b : a = ToCome(t) /\ b = ToCome(u)
    OBVIOUS
  <2>4. a = b \ {p} /\ b \subseteq S \cup {p} /\ S \subseteq b /\ p \notin S
    BY <1>3, <1>4, <1>5, <2>1, <2>2, <2>3
  <2>5. a = S
    BY <2>4
  <2> QED  BY <2>3, <2>5
<1>8. Len(t) = Len(u) /\ t[1] = g /\ \A j \in 2 .. Len(u) : t[j] = u[j]
  <2>1. PICK T : u \in Seq(T)
    BY <1>2 DEF StackOK, IsSeq
  <2> DEFINE U == T \cup {g}
  <2>2. u \in Seq(U) /\ g \in U
    BY <2>1
  <2> HIDE DEF U
  <2>3. u # <<>>
    BY <1>2 DEF StackOK
  <2> QED  BY <1>6, <2>2, <2>3
<1>9. ASSUME NEW j \in 1 .. Len(t) PROVE FrameTells(t[j], S)
  <2>1. j \in 1 .. Len(u) /\ j + 1 \in 2 .. Len(s) /\ u[j] = s[j + 1]
    BY <1>4, <1>8
  <2>2. j = 1 \/ j \in 2 .. Len(u)
    <3>1. Len(u) \in Nat
      BY <1>2, StackParts
    <3> QED  BY <2>1, <3>1
  <2>3. Alike(s[j + 1], t[j])
    BY <1>2, <1>8, <2>1, <2>2 DEF Alike
  <2>4. j + 1 \in 1 .. Len(s)
    BY <1>1, <2>1
  <2>5. FrameTells(s[j + 1], S)
    BY <2>4 DEF Exact
  <2> QED  BY <2>3, <2>5, TellsAlike
<1>10. PassedOK(S)
  BY DEF Exact
<1> QED  BY <1>7, <1>9, <1>10 DEF Exact

LEMMA NotCut ==
  ASSUME scn \in Scenario, Kw(1) \in {"module", "submodule"}, NEW c \in Nodes, c # 1, RefRule(c) # 0
  PROVE  /\ RefRules(Tree[c].parent)[RefRule(c)].name # Cut
         /\ RefRules(Tree[c].parent)[RefRule(c)].name = <<ModuleOf(Declarations, c), Kw(c)>>
<1>1. RefRules(Tree[c].parent)[RefRule(c)].name = <<ModuleOf(Declarations, c), Kw(c)>>
  BY RefTyped DEF Fits
<1>2. Kw(c) # "$cut"
  BY ScenarioAssumption DEF Tree, Nodes, Kw
<1> QED  BY <1>1, <1>2 DEF Cut

(* A statement that is entered.                                            *)
LEMMA LookedEntered ==
  ASSUME scn \in Scenario, NEW S, NEW c, c \in S, NEW S2, S2 = (S \ {c}) \cup Sub(c),
         NEW n \in Nodes, Looked(S2, n)
  PROVE  n = c \/ Looked(S, n)
<1>1. n # c => c \notin Around(n)
  BY LeadsTo DEF Looked
<1> QED  BY <1>1 DEF Looked

LEMMA ExactEntered ==
  ASSUME scn \in Scenario, Kw(1) \in {"module", "submodule"}, AllNamed,
         NEW E, NEW s, StackOK(s), PathInv(E, s), Exact(s),
         s[1].cur # 0, Known(s[1].cur), Admits(s[1], s[1].cur), OwnOK(s[1].cur),
         s[1].parent # 0 => /\ s[1].rules = RefRules(s[1].parent)
                            /\ RefRule(s[1].cur) = Hit(s[1], s[1].cur),
         NEW h, FrameOK(h), h.parent = s[1].parent, h.cur = s[1].cur, h.rules = s[1].rules,
         Admitted(s[1], s[1].cur, h),
         NEW g, FrameOK(g), g.parent = s[1].cur, g.cur = First(Sub(s[1].cur)), g.start = 1,
         \A i \in DOMAIN g.rules : g.occ[i] = g.rules[i].occ,
         NEW t, t = <<g, h>> \o Tail(s)
  PROVE  Exact(t)
<1> PICK f, c, p : f = s[1] /\ c = s[1].cur /\ p = s[1].parent
  OBVIOUS
<1> PICK S, S2 : S = ToCome(s) /\ S2 = ToCome(t)
  OBVIOUS
<1>1. PathOK(s) /\ Len(s) \in Nat \ {0} /\ 1 \in 1 .. Len(s) /\ FrameOK(f)
  BY StackParts DEF PathInv
<1>2. c \in Nodes /\ Tree[c].parent = p /\ c \in S /\ c # 0 /\ p # c
  <2>1. c \in Nodes /\ Tree[c].parent = p /\ c \in S
    BY <1>1, OpenAround DEF PathOK
  <2>2. c \in Nat \ {0} /\ (c = 1 => p = 0) /\ (c # 1 => p \in Nodes /\ p < c)
    BY <2>1, ParentOf
  <2>3. c # 1 => p \in Nat
    BY <2>2, ParentOf
  <2>4. p # c
    BY <2>2, <2>3
  <2> QED  BY <2>1, <2>2, <2>4
<1>3. S2 = (S \ {c}) \cup Sub(c)
  BY <1>1, WentExactly
<1>4. /\ Len(t) = Len(s) + 1 /\ t[1] = g /\ t[2] = h
      /\ \A i \in 3 .. Len(s) + 1 : t[i] = s[i - 1] /\ i - 1 \in 2 .. Len(s)
  <2>1. PICK T : s \in Seq(T)
    BY DEF StackOK, IsSeq
  <2> DEFINE U == T \cup {g, h}
  <2>2. s \in Seq(U) /\ g \in U /\ h \in U
    BY <2>1
  <2> HIDE DEF U
  <2>3. s # <<>>
    BY DEF StackOK
  <2> QED  BY <2>2, <2>3
<1>5. \A q : q # p => c \notin Sub(q)
  BY <1>2 DEF Sub
<1>6. \A q : q # c => Sub(q) \cap Sub(c) = {}
  BY DEF Sub
<1>7. \A q : q # p /\ q # c => Seen(S2, q) = Seen(S, q)
  <2> SUFFICES ASSUME NEW q, q # p, q # c
               PROVE  Seen(S2, q) = Seen(S, q)
    OBVIOUS
  <2>1. ASSUME NEW x \in Sub(q) PROVE x \in S2 <=> x \in S
    <3>1. x # c
      BY <1>5
    <3>2. x \notin Sub(c)
      BY <1>6
    <3> QED  BY <1>3, <3>1, <3>2
  <2> QED  BY <2>1 DEF Seen
<1>8. p # 0 => c # 1 /\ p \in Nodes
  BY <1>2, ParentOf
<1> DEFINE P == Seen(S, p)
<1>9. ASSUME p # 0
      PROVE  Seen(S2, p) = P \cup {c} /\ Tells(h, P \cup {c}) /\ \A d \in P : PairOK(RefRules(p), d, c)
  <2>1. c \in Sub(p) /\ c \notin Sub(c) /\ Sub(p) \cap Sub(c) = {}
    BY <1>2, <1>6 DEF Sub
  <2>2. Seen(S2, p) = P \cup {c}
    BY <1>3, <2>1 DEF Seen
  <2>3. Tells(f, P)
    BY <1>1, <1>9 DEF Exact, FrameTells
  <2>4. \A d \in P : RefRule(d) \in Nat
    <3> SUFFICES ASSUME NEW d \in P PROVE RefRule(d) \in Nat
      OBVIOUS
    <3>1. d \in Nodes /\ Tree[d].parent = p
      BY DEF Seen, Sub
    <3>2. d # 1
      BY <1>9, <3>1, ParentOf
    <3> QED  BY <3>1, <3>2, RefTyped
  <2>5. RefRule(c) = Hit(f, c) /\ f.rules = RefRules(p) /\ Admits(f, c)
    BY <1>9
  <2>6. f.rules[Hit(f, c)].name # Cut
    <3>1. Hit(f, c) # 0
      BY <2>5 DEF Admits
    <3> QED  BY <1>2, <1>8, <1>9, <2>5, <3>1, NotCut
  <2>7. FrameOK(h) /\ h.rules = f.rules /\ Admitted(f, c, h)
    OBVIOUS
  <2> HIDE DEF P
  <2>8. Tells(h, P \cup {c}) /\ \A d \in P : PairOK(f.rules, d, c)
    BY <1>1, <2>3, <2>4, <2>5, <2>6, <2>7, TellsAfter
  <2> QED  BY <2>2, <2>5, <2>8
<1>10. PassedOK(S2)
  <2> SUFFICES ASSUME NEW n \in Nodes, Looked(S2, n)
               PROVE  OwnOK(n) /\ BeforeOK(S2, n)
    BY DEF PassedOK
  <2>1. CASE n = c
    <3> SUFFICES ASSUME NEW d \in Nodes, Looked(S2, d), d < c, Tree[d].parent = Tree[c].parent
                 PROVE  PairOK(RefRules(Tree[c].parent), d, c)
      BY <2>1 DEF BeforeOK
    <3>1. d \in Nat /\ c \in Nat
      BY <1>2, ParentOf
    <3>2. Looked(S, d)
      <4>1. d # c
        BY <3>1
      <4> QED  BY <1>2, <1>3, <4>1, LookedEntered
    <3>3. p # 0
      <4> SUFFICES ASSUME p = 0 PROVE FALSE
        OBVIOUS
      <4>1. \A m \in Nodes : Tree[m].parent = 0 => m = 1
        <5>1. 0 \notin Nodes
          BY ParentOf
        <5> QED  BY <5>1, ParentOf
      <4>2. d = 1 /\ c = 1
        BY <1>2, <4>1
      <4> QED  BY <4>2
    <3>4. d \in Seen(S, p)
      <4>1. Known(d)
        BY <3>2, KnownAround DEF Looked
      <4> QED  BY <1>2, <3>2, <4>1 DEF Seen, Sub, Looked
    <3> QED  BY <1>2, <1>9, <3>3, <3>4
  <2>2. CASE n # c
    <3>1. Looked(S, n)
      BY <1>2, <1>3, <2>2, LookedEntered
    <3>2. OwnOK(n) /\ BeforeOK(S, n)
      BY <3>1 DEF Exact, PassedOK
    <3> SUFFICES ASSUME NEW d \in Nodes, Looked(S2, d), d < n, Tree[d].parent = Tree[n].parent
                 PROVE  PairOK(RefRules(Tree[n].parent), d, n)
      BY <3>2 DEF BeforeOK
    <3>3. d # c
      <4> SUFFICES ASSUME d = c PROVE FALSE
        OBVIOUS
      <4>1. n \in Nat /\ c \in Nat
        BY <1>2, ParentOf
      <4>2. n >= c /\ Tree[n].parent = s[1].parent /\ s[1].cur = c
        BY <1>2, <4>1
      <4>3. n \in S
        BY <1>1, <1>2, <4>2 DEF ToCome
      <4> QED  BY <3>1, <4>3 DEF Looked
    <3>4. Looked(S, d)
      BY <1>2, <1>3, <3>3, LookedEntered
    <3> QED  BY <3>2, <3>4 DEF BeforeOK
  <2> QED  BY <2>1, <2>2
<1>11. FrameTells(g, S2)
  <2>1. Seen(S2, c) = {}
    BY <1>3 DEF Seen
  <2>2. ASSUME NEW i \in DOMAIN g.rules PROVE TellsCount(g, {}, i) /\ TellsOrder(g, {}, i)
    <3>1. g.rules[i].occ \in {"?", "1", "*", "+"} /\ i \in Nat /\ ~(i < 1)
      <4>1. g.rules \in Seq(RuleType)
        BY FrameParts
      <4>2. g.rules[i] \in RuleType /\ i \in 1 .. Len(g.rules)
        BY <4>1
      <4> QED  BY <4>2 DEF RuleType, Occurrence
    <3>2. g.occ[i] = g.rules[i].occ
      BY <2>2
    <3> QED  BY <3>1, <3>2 DEF TellsCount, TellsOrder
  <2>3. Tells(g, {})
    BY <2>2 DEF Tells
  <2> QED  BY <2>1, <2>3 DEF FrameTells
<1>12. FrameTells(h, S2)
  BY <1>9 DEF FrameTells
<1>13. ASSUME NEW j \in 2 .. Len(s) PROVE FrameTells(s[j], S2)
  <2>1. j \in 1 .. Len(s)
    BY <1>1
  <2>2. s[j].parent # p
    BY <1>1, ParentsDiffer
  <2>3. s[j].parent # c
    <3>1. s[j].parent # 0 => s[j].parent \in OpenFrom(s, 1)
      BY <2>1 DEF OpenFrom
    <3>2. c \notin OpenFrom(s, 1)
      BY <1>2 DEF PathInv
    <3> QED  BY <1>2, <3>1, <3>2
  <2>4. FrameTells(s[j], S)
    BY <2>1 DEF Exact
  <2> QED  BY <1>7, <2>2, <2>3, <2>4 DEF FrameTells
<1>14. \A j \in 1 .. Len(t) : FrameTells(t[j], S2)
  <2> SUFFICES ASSUME NEW j \in 1 .. Len(s) + 1
               PROVE  FrameTells(t[j], S2)
    BY <1>4
  <2>1. j = 1 \/ j = 2 \/ j \in 3 .. Len(s) + 1
    BY <1>1
  <2> QED  BY <1>4, <1>11, <1>12, <1>13, <2>1
<1> QED  BY <1>10, <1>14 DEF Exact

-----------------------------------------------------------------------------
(* The conditions of the reference without counting: of two statements in a*)
(* list, and of each rule that asks for one.                               *)
LEMMA CountIs ==
  ASSUME NEW S, IsFiniteSet(S)
  PROVE  /\ Cardinality(S) > 0 <=> S # {}
         /\ Cardinality(S) < 2 <=> \A c, d \in S : c = d
<1>1. Cardinality(S) \in Nat /\ (Cardinality(S) = 0 <=> S = {})
  BY FS_CardinalityType, FS_EmptySet
<1>2. Cardinality(S) = 1 <=> \E x : S = {x}
  BY FS_Singleton
<1>3. (S = {} \/ \E x : S = {x}) <=> \A c, d \in S : c = d
  <2>1. ASSUME \A c, d \in S : c = d, NEW x \in S PROVE S = {x}
    BY <2>1
  <2> QED  BY <2>1
<1>4. Cardinality(S) < 2 <=> Cardinality(S) = 0 \/ Cardinality(S) = 1
  BY <1>1
<1> QED  BY <1>1, <1>2, <1>3, <1>4

LEMMA Sections ==
  ASSUME NEW rules \in Seq(RuleType), NEW i \in DOMAIN rules, NEW j \in DOMAIN rules,
         rules[i].name # Cut
  PROVE  Cardinality({k \in 1 .. i : rules[k].name = Cut})
           <= Cardinality({k \in 1 .. j : rules[k].name = Cut})
         <=> ~CutIn(rules, j, i)
<1> DEFINE U(x) == {k \in 1 .. x : rules[k].name = Cut}
<1>1. i \in Nat /\ j \in Nat /\ i <= Len(rules) /\ Len(rules) \in Nat /\ DOMAIN rules = 1 .. Len(rules)
  OBVIOUS
<1>2. \A x \in Nat : IsFiniteSet(U(x)) /\ Cardinality(U(x)) \in Nat
  <2> SUFFICES ASSUME NEW x \in Nat
               PROVE  IsFiniteSet(U(x)) /\ Cardinality(U(x)) \in Nat
    OBVIOUS
  <2>1. IsFiniteSet(1 .. x)
    BY FS_Interval
  <2>2. U(x) \subseteq 1 .. x
    OBVIOUS
  <2> HIDE DEF U
  <2> QED  BY <2>1, <2>2, FS_Subset, FS_CardinalityType
<1>3. CASE i <= j
  <2>1. U(i) \subseteq U(j)
    BY <1>1, <1>3
  <2>2. ~CutIn(rules, j, i)
    BY <1>1, <1>3 DEF CutIn
  <2>3. Cardinality(U(i)) <= Cardinality(U(j))
    <3> HIDE DEF U
    <3> QED  BY <1>1, <1>2, <2>1, FS_Subset
  <2> QED  BY <2>2, <2>3
<1>4. CASE j < i
  <2>1. U(j) \subseteq U(i)
    BY <1>1, <1>4
  <2>2. Cardinality(U(j)) <= Cardinality(U(i)) /\ (Cardinality(U(i)) = Cardinality(U(j)) => U(i) = U(j))
    <3> HIDE DEF U
    <3> QED  BY <1>1, <1>2, <2>1, FS_Subset
  <2>3. U(i) = U(j) <=> ~CutIn(rules, j, i)
    <3>1. ASSUME U(i) = U(j), CutIn(rules, j, i) PROVE FALSE
      <4>1. PICK k \in DOMAIN rules : rules[k].name = Cut /\ j < k /\ k < i
        BY <3>1 DEF CutIn
      <4>2. k \in U(i) /\ k \notin U(j)
        BY <1>1, <4>1
      <4> QED  BY <3>1, <4>2
    <3>2. ASSUME ~CutIn(rules, j, i) PROVE U(i) \subseteq U(j)
      <4> SUFFICES ASSUME NEW k \in U(i), k \notin U(j)
                   PROVE  FALSE
        OBVIOUS
      <4>1. k \in 1 .. i /\ rules[k].name = Cut /\ k # i
        OBVIOUS
      <4>2. k \in DOMAIN rules /\ j < k /\ k < i
        BY <1>1, <4>1
      <4> QED  BY <3>2, <4>1, <4>2 DEF CutIn
    <3> HIDE DEF U
    <3> QED  BY <2>1, <3>1, <3>2
  <2>4. Cardinality(U(i)) \in Nat /\ Cardinality(U(j)) \in Nat
    BY <1>1, <1>2
  <2>5. Cardinality(U(i)) <= Cardinality(U(j)) <=> U(i) = U(j)
    <3> HIDE DEF U
    <3> QED  BY <2>2, <2>4
  <2> QED  BY <2>3, <2>5
<1> QED  BY <1>1, <1>3, <1>4

ListOK(n) ==
  /\ \A c, d \in Sub(n) : (RefKnown(c) /\ RefKnown(d) /\ c < d) => PairOK(RefRules(n), c, d)
  /\ \A i \in DOMAIN RefRules(n) : RefRules(n)[i].occ \in Mandatory =>
       \E c \in Sub(n) : RefKnown(c) /\ RefRule(c) = i

LEMMA ListExactly ==
  ASSUME scn \in Scenario, Kw(1) \in {"module", "submodule"}, NEW n \in Nodes,
         \A c \in Sub(n) : RefKnown(c) => RefRule(c) # 0
  PROVE  CountsValid(RefStatements, n) /\ OrderValid(RefStatements, n) <=> ListOK(n)
<1> PICK rules : rules = RefRules(n)
  OBVIOUS
<1> DEFINE G(i) == {c \in KnownIn(RefStatements, n) : RefStatements[c].rule = i}
           section(i) == Cardinality({j \in 1 .. i : rules[j].name = Cut})
           K == {c \in Sub(n) : RefKnown(c)}
<1>1. K = KnownIn(RefStatements, n)
  BY DEF KnownIn, RefKnown
<1>2. \A i : G(i) = {c \in K : RefRule(c) = i}
  BY <1>1 DEF RefRule
<1>3. /\ rules \in Seq(RuleType)
      /\ \A c \in K : /\ c \in Nat /\ RefRule(c) \in DOMAIN rules /\ RefRule(c) \in Nat
                      /\ rules[RefRule(c)].name # Cut
  <2>1. rules \in Seq(RuleType)
    BY RefTyped
  <2>2. ASSUME NEW c \in K
        PROVE  /\ c \in Nat /\ RefRule(c) \in DOMAIN rules /\ RefRule(c) \in Nat
               /\ rules[RefRule(c)].name # Cut
    <3>1. c \in Nodes /\ Tree[c].parent = n /\ RefRule(c) # 0
      BY DEF Sub
    <3>2. c # 1 /\ c \in Nat
      <4>1. n # 0
        BY ParentOf
      <4> QED  BY <3>1, <4>1, ParentOf
    <3> QED  BY <3>1, <3>2, RefTyped, NotCut
  <2> QED  BY <2>1, <2>2
<1>4. \A i : IsFiniteSet(G(i))
  <2>1. \A i : G(i) \subseteq Nodes
    BY <1>2 DEF Sub
  <2> HIDE DEF G
  <2> QED  BY <2>1, TreeTyped, FS_Subset
<1>5. CountsValid(RefStatements, n) <=>
        \A i \in DOMAIN rules : /\ rules[i].occ \in {"1", "+"} => G(i) # {}
                                /\ rules[i].occ \in {"1", "?"} => \A c, d \in G(i) : c = d
  <2>1. CountsValid(RefStatements, n) <=>
          \A i \in DOMAIN rules : /\ rules[i].occ \in {"1", "+"} => Cardinality(G(i)) > 0
                                  /\ rules[i].occ \in {"1", "?"} => Cardinality(G(i)) < 2
    BY DEF CountsValid, RefRules
  <2>2. ASSUME NEW i
        PROVE  (Cardinality(G(i)) > 0 <=> G(i) # {}) /\ (Cardinality(G(i)) < 2 <=> \A c, d \in G(i) : c = d)
    <3> HIDE DEF G
    <3> QED  BY <1>4, CountIs
  <2> HIDE DEF G
  <2> QED  BY <2>1, <2>2
<1>6. OrderValid(RefStatements, n) <=>
        \A c, d \in K : (c < d /\ Plain(c)) => /\ ~CutIn(rules, RefRule(d), RefRule(c))
                                               /\ scn.canonical => RefRule(c) <= RefRule(d)
  <2>1. OrderValid(RefStatements, n) <=>
          \A c, d \in K : (c < d /\ Plain(c)) => /\ section(RefRule(c)) <= section(RefRule(d))
                                                 /\ scn.canonical => RefRule(c) <= RefRule(d)
    BY <1>1 DEF OrderValid, RefRule, RefRules
  <2>2. ASSUME NEW c \in K, NEW d \in K
        PROVE  section(RefRule(c)) <= section(RefRule(d)) <=> ~CutIn(rules, RefRule(d), RefRule(c))
    <3>1. PICK i, j : i = RefRule(c) /\ j = RefRule(d)
      OBVIOUS
    <3>2. i \in DOMAIN rules /\ j \in DOMAIN rules /\ rules[i].name # Cut
      BY <1>3, <3>1
    <3>3. section(i) <= section(j) <=> ~CutIn(rules, j, i)
      BY <1>3, <3>2, Sections
    <3> QED  BY <3>1, <3>3
  <2> HIDE DEF section, K
  <2> QED  BY <2>1, <2>2
<1> HIDE DEF section
<1>7. ASSUME CountsValid(RefStatements, n), OrderValid(RefStatements, n) PROVE ListOK(n)
  <2>1. ASSUME NEW c \in K, NEW d \in K, c < d PROVE PairOK(rules, c, d)
    <3>1. RefRule(c) = RefRule(d) => rules[RefRule(c)].occ \notin {"1", "?"}
      <4> SUFFICES ASSUME RefRule(c) = RefRule(d), rules[RefRule(c)].occ \in {"1", "?"}
                   PROVE  FALSE
        OBVIOUS
      <4>1. PICK i \in DOMAIN rules : i = RefRule(c)
        BY <1>3
      <4>2. c \in G(i) /\ d \in G(i)
        BY <1>2, <4>1
      <4> HIDE DEF G, K
      <4>3. c = d
        BY <1>5, <1>7, <4>1, <4>2
      <4> QED  BY <1>3, <2>1, <4>3
    <3> HIDE DEF K
    <3> QED  BY <1>6, <1>7, <2>1, <3>1 DEF PairOK
  <2>2. ASSUME NEW i \in DOMAIN rules, rules[i].occ \in Mandatory
        PROVE  \E c \in Sub(n) : RefKnown(c) /\ RefRule(c) = i
    <3>1. G(i) # {}
      <4> HIDE DEF G
      <4> QED  BY <1>5, <1>7, <2>2 DEF Mandatory
    <3> QED  BY <1>2, <3>1
  <2> QED  BY <2>1, <2>2 DEF ListOK
<1>8. ASSUME ListOK(n) PROVE CountsValid(RefStatements, n) /\ OrderValid(RefStatements, n)
  <2>1. \A c, d \in K : c < d => PairOK(rules, c, d)
    BY <1>8 DEF ListOK
  <2>2. OrderValid(RefStatements, n)
    <3> HIDE DEF K
    <3> QED  BY <1>6, <2>1 DEF PairOK
  <2>3. ASSUME NEW i \in DOMAIN rules, rules[i].occ \in {"1", "+"} PROVE G(i) # {}
    <3>1. \E c \in Sub(n) : RefKnown(c) /\ RefRule(c) = i
      BY <1>8, <2>3 DEF ListOK, Mandatory
    <3> QED  BY <1>2, <3>1
  <2>4. ASSUME NEW i \in DOMAIN rules, rules[i].occ \in {"1", "?"}, NEW c \in G(i), NEW d \in G(i)
        PROVE  c = d
    <3>1. c \in K /\ d \in K /\ RefRule(c) = i /\ RefRule(d) = i
      BY <1>2
    <3> HIDE DEF K
    <3>2. ~(c < d) /\ ~(d < c)
      BY <2>1, <2>4, <3>1 DEF PairOK
    <3> QED  BY <1>3, <3>1, <3>2
  <2>5. CountsValid(RefStatements, n)
    <3> HIDE DEF G
    <3> QED  BY <1>5, <2>3, <2>4
  <2> QED  BY <2>2, <2>5
<1> QED  BY <1>7, <1>8

(* The argument of a statement.                                            *)
LEMMA ArgumentExactly ==
  ASSUME scn \in Scenario, version = RefVersion, NEW n \in Nodes, RefSpec(n) \in DOMAIN Grammar
  PROVE  ArgumentErrors(RefSpec(n), n) = <<>> <=> ArgumentValid(RefStatements, n)
<1> PICK type, arg : type = Grammar[RefSpec(n)].arg /\ arg = Tree[n].arg
  OBVIOUS
<1>1. type \in Type \cup {None}
  <2>1. Grammar[RefSpec(n)] \in SpecType
    BY GrammarAssumption
  <2> QED  BY <2>1 DEF SpecType
<1>2. arg \in Atom \cup {None}
  <2>1. Tree[n] \in Statement
    BY TreeTyped
  <2> QED  BY <2>1 DEF Statement
<1>3. <<type, arg, version>> \in Accepts => type # None /\ arg # None
  <2>1. <<type, arg, version>> \in Accepts => type \in Type /\ arg \in Atom
    BY AcceptsAssumption
  <2> QED  BY <2>1, GrammarAssumption
<1>4. ArgumentErrors(RefSpec(n), n) = <<>> <=>
        /\ ~(type # None /\ arg # None /\ <<type, arg, version>> \notin Accepts)
        /\ ~(type # None /\ arg = None)
        /\ ~(type = None /\ arg # None)
  BY Short DEF ArgumentErrors
<1>5. ArgumentValid(RefStatements, n) <=>
        IF type = None THEN arg = None ELSE <<type, arg, version>> \in Accepts
  BY DEF ArgumentValid, RefSpec
<1> QED  BY <1>3, <1>4, <1>5

RefOwn(n) ==
  /\ n # 1 => RefRule(n) # 0 /\ RefRules(Tree[n].parent)[RefRule(n)].min <= RefVersion
  /\ ArgumentValid(RefStatements, n)
RefValid ==
  /\ Kw(1) \in {"module", "submodule"} /\ Plain(1) /\ Distinct
  /\ \A n \in Nodes : ModuleOf(Declarations, n) # None
  /\ \A n \in Nodes : RefKnown(n) => RefOwn(n) /\ ListOK(n)

LEMMA SubKnown ==
  ASSUME scn \in Scenario, NEW n \in Nodes, NEW c \in Sub(n)
  PROVE  c \in Nodes /\ c # 1 /\ Tree[c].parent = n /\ c \in Nat /\ n < c
<1>1. c \in Nodes /\ Tree[c].parent = n /\ n # 0
  BY ParentOf DEF Sub
<1> QED  BY <1>1, ParentOf

LEMMA ValidIs ==
  ASSUME scn \in Scenario
  PROVE  Valid <=> RefValid
<1> DEFINE Head1 == Kw(1) \in {"module", "submodule"} /\ Plain(1) /\ Distinct
           Named == \A n \in Nodes : ModuleOf(Declarations, n) # None
           Own == \A n \in Nodes : RefKnown(n) => RefOwn(n)
           Lists == \A n \in Nodes : RefKnown(n) =>
                      CountsValid(RefStatements, n) /\ OrderValid(RefStatements, n)
<1>1. HeaderValid(RefStatements) <=> Head1 /\ Named
  BY RefKnownOf DEF HeaderValid, Distinct
<1>2. \A n : RuleValid(RefStatements, n) /\ ArgumentValid(RefStatements, n) <=> RefOwn(n)
  BY DEF RuleValid, RefOwn, RefRule, RefRules
<1>3. Valid <=> Head1 /\ Named /\ Own /\ Lists
  <2>1. Valid <=> /\ HeaderValid(RefStatements)
                  /\ \A n \in Nodes : RefKnown(n) =>
                       /\ RuleValid(RefStatements, n) /\ ArgumentValid(RefStatements, n)
                       /\ CountsValid(RefStatements, n) /\ OrderValid(RefStatements, n)
    BY DEF Valid, RefKnown
  <2> HIDE DEF Head1, Named
  <2> QED  BY <1>1, <1>2, <2>1
<1>4. ASSUME Head1, Own
      PROVE  Lists <=> \A n \in Nodes : RefKnown(n) => ListOK(n)
  <2>1. ASSUME NEW n \in Nodes
        PROVE  CountsValid(RefStatements, n) /\ OrderValid(RefStatements, n) <=> ListOK(n)
    <3>1. \A c \in Sub(n) : RefKnown(c) => RefRule(c) # 0
      BY <1>4, SubKnown DEF RefOwn
    <3> QED  BY <1>4, <3>1, ListExactly
  <2> QED  BY <2>1
<1>5. RefValid <=> Head1 /\ Named /\ Own /\ \A n \in Nodes : RefKnown(n) => ListOK(n)
  BY DEF RefValid
<1> HIDE DEF Head1, Named, Own, Lists
<1> QED  BY <1>3, <1>4, <1>5

LEMMA HeaderFrom ==
  ASSUME scn \in Scenario, Kw(1) \in {"module", "submodule"}, Plain(1),
         \A c \in Sub(1) : RefKnown(c) => RefRule(c) # 0,
         \A c, d \in Sub(1) : (RefKnown(c) /\ RefKnown(d) /\ c < d) => PairOK(RefRules(1), c, d)
  PROVE  HeaderFits
<1>1. RefRules(1) = Grammar[Kw(1)].rules /\ 1 \in Nodes
  BY RefRuleOf, TreeTyped
<1>2. \A n : Plain(n) => ModuleOf(Declarations, n) = Builtin
  BY DEF ModuleOf
<1>3. \A c \in Sub(1) : Plain(c) => RefKnown(c)
  BY <1>1, <1>2, SubKnown, RefKnownOf, GrammarAssumption
<1>4. ASSUME NEW c \in Sub(1), Plain(c)
      PROVE  RefRule(c) \in DOMAIN RefRules(1) /\ RefRules(1)[RefRule(c)].name = <<Builtin, Kw(c)>>
  <2>1. c \in Nodes /\ c # 1 /\ Tree[c].parent = 1 /\ RefRule(c) # 0
    BY <1>1, <1>3, <1>4, SubKnown
  <2> QED  BY <1>2, <1>4, <2>1, RefTyped, NotCut
<1> QED  BY <1>1, <1>3, <1>4 DEF HeaderFits


-----------------------------------------------------------------------------
(* The invariant: while there is no error, what was passed is as the       *)
(* reference wants it; and a valid module does not get an error.           *)
FoundInv ==
  /\ phase = "check" =>
       /\ Kw(1) \in {"module", "submodule"} /\ version = HeaderVersion
       /\ errors = <<>> => PrefixMap.refused = {} /\ AllNamed /\ Exact(stack)
       /\ (Valid /\ ~Deviant) => errors = <<>> /\ version = RefVersion
  /\ AcceptsExactly

LEMMA SameHeader ==
  ASSUME UNCHANGED scn
  PROVE  /\ PrefixMap' = PrefixMap /\ HeaderVersion' = HeaderVersion /\ RefVersion' = RefVersion
         /\ Kw(1)' = Kw(1) /\ (Deviant' <=> Deviant) /\ Declarations' = Declarations
         /\ \A n : ModuleOf(Declarations, n)' = ModuleOf(Declarations, n)
         /\ Valid' <=> Valid
<1>1. Tree' = Tree /\ Nodes' = Nodes /\ \A n : Sub(n)' = Sub(n) /\ (Plain(n)' <=> Plain(n)) /\ Kw(n)' = Kw(n)
  BY DEF Tree, Nodes, Sub, Plain, Kw
<1>2. \A n, kw : IsA(n, kw)' <=> IsA(n, kw)
  BY <1>1 DEF IsA
<1>3. \A n : Declaring(n)' = Declaring(n)
  BY <1>1, <1>2 DEF Declaring
<1>4. Declarations' = Declarations /\ \A n : Declared(n)' = Declared(n) /\ DeclaredModule(n)' = DeclaredModule(n)
  BY <1>1, <1>3 DEF Declarations, Declared, DeclaredModule
<1>5. \A n : ModuleOf(Declarations, n)' = ModuleOf(Declarations, n)
  BY <1>1, <1>4 DEF ModuleOf
<1>6. PrefixMap' = PrefixMap
  BY DEF PrefixMap, NPrefixes, Declarations, Declaring, Declared, IsA, Sub, Plain, Kw, Nodes, Tree
<1>7. RefVersion' = RefVersion
  BY <1>1, <1>2 DEF RefVersion
<1>8. HeaderVersion' = HeaderVersion
  BY DEF HeaderVersion, VersionStatement, Stops, Sub, Plain, Kw, Nodes, Tree
<1>9. Deviant' <=> Deviant
  BY <1>1 DEF Deviant
<1>10. RefStatements' = RefStatements
  BY SameReference
<1>11. HeaderValid(RefStatements)' <=> HeaderValid(RefStatements)
  BY <1>1, <1>4, <1>10 DEF HeaderValid
<1>12. \A n : KnownIn(RefStatements, n)' = KnownIn(RefStatements, n)
  BY <1>1, <1>10 DEF KnownIn
<1>13. ASSUME NEW n
       PROVE  /\ RuleValid(RefStatements, n)' <=> RuleValid(RefStatements, n)
              /\ ArgumentValid(RefStatements, n)' <=> ArgumentValid(RefStatements, n)
  BY <1>1, <1>7, <1>10 DEF RuleValid, ArgumentValid
<1>14. ASSUME NEW n
       PROVE  CountsValid(RefStatements, n)' <=> CountsValid(RefStatements, n)
  <2>1. PICK ref, K : ref = RefStatements /\ K = KnownIn(RefStatements, n)
    OBVIOUS
  <2>2. ref = RefStatements' /\ K = KnownIn(RefStatements, n)'
    BY <1>10, <1>12, <2>1
  <2> DEFINE C == \A i \in DOMAIN ref[n].rules :
                    LET occ == ref[n].rules[i].occ
                        given == Cardinality({c \in K : ref[c].rule = i})
                    IN  /\ occ \in {"1", "+"} => given > 0
                        /\ occ \in {"1", "?"} => given < 2
  <2>3. CountsValid(RefStatements, n) <=> C
    BY <2>1 DEF CountsValid
  <2>4. CountsValid(RefStatements, n)' <=> C
    BY <2>2 DEF CountsValid
  <2> QED  BY <2>3, <2>4
<1>15. ASSUME NEW n
       PROVE  OrderValid(RefStatements, n)' <=> OrderValid(RefStatements, n)
  BY <1>1, <1>10, <1>12 DEF OrderValid
<1>16. Valid' <=> Valid
  BY <1>1, <1>10, <1>11, <1>13, <1>14, <1>15 DEF Valid
<1> QED  BY <1>1, <1>4, <1>5, <1>6, <1>7, <1>8, <1>9, <1>16

LEMMA SameExact ==
  ASSUME UNCHANGED <<scn, modname, version>>, NEW t
  PROVE  (Exact(t)' <=> Exact(t)) /\ (AllNamed' <=> AllNamed)
<1>1. /\ Nodes' = Nodes /\ \A n : Around(n)' = Around(n)
      /\ ToCome(t)' = ToCome(t)
  BY SameTree
<1>2. RefStatements' = RefStatements /\ \A n : Sub(n)' = Sub(n)
  BY SameReference
<1>3. /\ Tree' = Tree /\ scn' = scn /\ version' = version
      /\ \A n : (Plain(n)' <=> Plain(n)) /\ (Known(n)' <=> Known(n))
  BY DEF Tree, Plain, Known
<1>4. /\ \A n : RefRule(n)' = RefRule(n) /\ RefRules(n)' = RefRules(n) /\ RefSpec(n)' = RefSpec(n)
      /\ \A n : RefKnown(n)' <=> RefKnown(n)
  BY <1>2 DEF RefRule, RefRules, RefSpec, RefKnown
<1>5. \A S, n : Looked(S, n)' <=> Looked(S, n)
  BY <1>1, <1>4 DEF Looked
<1>6. ASSUME NEW n PROVE OwnOK(n)' <=> OwnOK(n)
  <2>1. \A s : ArgumentErrors(s, n)' = ArgumentErrors(s, n)
    BY <1>3 DEF ArgumentErrors
  <2>2. ArgumentErrors(RefSpec(n), n)' = ArgumentErrors(RefSpec(n), n)
    BY <1>3, <1>4 DEF ArgumentErrors
  <2> QED  BY <1>3, <1>4, <2>2 DEF OwnOK
<1>7. ASSUME NEW n, NEW S PROVE BeforeOK(S, n)' <=> BeforeOK(S, n)
  BY <1>1, <1>3, <1>4, <1>5 DEF BeforeOK, PairOK, CutIn
<1>8. ASSUME NEW S PROVE PassedOK(S)' <=> PassedOK(S)
  BY <1>1, <1>5, <1>6, <1>7 DEF PassedOK
<1>9. ASSUME NEW S, NEW n PROVE Seen(S, n)' = Seen(S, n)
  BY <1>2, <1>3 DEF Seen
<1>10. ASSUME NEW f, NEW P PROVE Tells(f, P)' <=> Tells(f, P)
  BY <1>3, <1>4 DEF Tells, TellsCount, TellsOrder, CutIn
<1>11. ASSUME NEW f, NEW S PROVE FrameTells(f, S)' <=> FrameTells(f, S)
  <2>1. PICK P : P = Seen(S, f.parent)
    OBVIOUS
  <2>2. P = Seen(S, f.parent)'
    BY <1>9, <2>1
  <2> QED  BY <1>10, <2>1, <2>2 DEF FrameTells
<1>12. Exact(t)' <=> Exact(t)
  BY <1>1, <1>8, <1>11 DEF Exact
<1>13. AllNamed' <=> AllNamed
  <2>1. \A n : ModuleOf(Declarations, n)' = ModuleOf(Declarations, n)
    BY SameHeader
  <2> QED  BY <1>1, <2>1 DEF AllNamed
<1> QED  BY <1>12, <1>13

LEMMA FoundAfter ==
  ASSUME UNCHANGED <<scn, modname, version>>, FoundInv, phase = "check", phase' = "check",
         NEW t, t = stack', errors' = <<>> => errors = <<>> /\ Exact(t),
         Valid /\ ~Deviant => errors' = <<>>
  PROVE  FoundInv'
<1>1. (Exact(t)' <=> Exact(t)) /\ (AllNamed' <=> AllNamed)
  BY SameExact
<1>2. /\ PrefixMap' = PrefixMap /\ HeaderVersion' = HeaderVersion /\ RefVersion' = RefVersion
      /\ Kw(1)' = Kw(1) /\ (Deviant' <=> Deviant) /\ (Valid' <=> Valid)
  BY SameHeader
<1> QED  BY <1>1, <1>2 DEF FoundInv, AcceptsExactly

LEMMA FoundAtEnd ==
  ASSUME UNCHANGED scn, phase' = "done", ~Deviant => (errors' = <<>> <=> Valid)
  PROVE  FoundInv'
<1>1. (Deviant' <=> Deviant) /\ (Valid' <=> Valid)
  BY SameHeader
<1> QED  BY <1>1 DEF FoundInv, AcceptsExactly

LEMMA InitFound == Init => FoundInv
BY DEF Init, FoundInv, AcceptsExactly

LEMMA NotAModuleFound ==
  ASSUME IInv, NotAModule
  PROVE  FoundInv'
<1>1. /\ errors' = <<Error("UNEXPECTED", 1, 0)>> /\ phase' = "done" /\ UNCHANGED scn
      /\ scn \in Scenario /\ Kw(1) \notin {"module", "submodule"}
  BY DEF NotAModule, IInv
<1>2. errors' # <<>>
  BY <1>1, Short
<1>3. ~Valid
  BY <1>1, ValidIs DEF RefValid
<1> QED  BY <1>1, <1>2, <1>3, FoundAtEnd

LEMMA StillFound ==
  ASSUME FoundInv, Terminated \/ UNCHANGED vars
  PROVE  FoundInv'
<1>1. UNCHANGED <<scn, phase, modname, version, stack, errors>>
  BY DEF Terminated, vars
<1>2. CASE phase = "check"
  <2>1. PICK t : t = stack'
    OBVIOUS
  <2>2. errors' = <<>> => errors = <<>> /\ Exact(t)
    BY <1>1, <1>2, <2>1 DEF FoundInv
  <2>3. Valid /\ ~Deviant => errors' = <<>>
    BY <1>1, <1>2 DEF FoundInv
  <2> QED  BY <1>1, <1>2, <2>1, <2>2, <2>3, FoundAfter
<1>3. CASE phase = "done"
  BY <1>1, <1>3, FoundAtEnd DEF FoundInv, AcceptsExactly
<1>4. CASE phase \notin {"check", "done"}
  BY <1>1, <1>4 DEF FoundInv, AcceptsExactly
<1> QED  BY <1>2, <1>3, <1>4

LEMMA SkipFound ==
  ASSUME IInv, BelowInv, FoundInv, SkipUnknown
  PROVE  FoundInv'
<1>1. /\ phase = "check" /\ scn \in Scenario /\ StackOK(stack) /\ PathOK(stack)
      /\ UNCHANGED <<scn, phase, modname, version, errors>>
  BY DEF IInv, BelowInv, SkipUnknown, PathInv
<1>2. Top = stack[1] /\ FrameOK(Top)
  BY <1>1, StackParts DEF Top
<1> DEFINE g == Advance(Top)
<1>3. g.cur = NextOf(Top.cur) /\ Alike(Top, g)
  BY <1>2 DEF Advance, FrameOK, Alike
<1>4. stack' = <<g>> \o Tail(stack) /\ Top.cur # 0 /\ ~Known(Top.cur)
  BY DEF SkipUnknown
<1> HIDE DEF g
<1>5. PICK t : t = stack'
  OBVIOUS
<1>6. errors' = <<>> => errors = <<>> /\ Exact(t)
  <2> SUFFICES ASSUME errors' = <<>>
               PROVE  Exact(t)
    BY <1>1
  <2>1. AllNamed /\ Exact(stack)
    BY <1>1 DEF FoundInv
  <2>2. t = <<g>> \o Tail(stack) /\ stack[1].cur # 0 /\ ~Known(stack[1].cur)
    BY <1>2, <1>4, <1>5
  <2> QED  BY <1>1, <1>2, <1>3, <2>1, <2>2, ExactMoved
<1>7. Valid /\ ~Deviant => errors' = <<>>
  BY <1>1 DEF FoundInv
<1> QED  BY <1>1, <1>5, <1>6, <1>7, FoundAfter

(* The first step.                                                         *)
LEMMA Listed ==
  ASSUME NEW code, NEW S, IsFiniteSet(S)
  PROVE  ErrorsAt(code, S) = <<>> <=> S = {}
<1> DEFINE s == ErrorsAt(code, S)
<1>1. Cardinality(S) \in Nat /\ (Cardinality(S) = 0 <=> S = {})
  BY FS_CardinalityType, FS_EmptySet
<1>2. s = [i \in 1 .. Cardinality(S) |-> Error(code, InOrder(S)[i], 0)]
  BY DEF ErrorsAt
<1>3. DOMAIN s = 1 .. Cardinality(S) /\ s = [i \in 1 .. Cardinality(S) |-> s[i]]
  BY <1>2
<1> HIDE DEF s
<1>4. s = <<>> => Cardinality(S) = 0
  BY <1>1, <1>3, Enumerated
<1>5. Cardinality(S) = 0 => s = <<>>
  BY <1>3
<1> QED  BY <1>1, <1>4, <1>5 DEF s

LEMMA RefusedOnes ==
  ASSUME scn \in Scenario
  PROVE  PrefixMap.refused \subseteq Declarations
<1>1. PICK u : /\ u[0] = NoPrefix /\ PrefixMap = u[Len(Tree)]
               /\ \A n \in 1 .. Len(Tree) : u[n] = AddPrefix(u[n - 1], n)
  BY PrefixSteps
<1>2. Len(Tree) \in Nat
  BY TreeTyped
<1> DEFINE Typed(r) == \E T, R : r = [taken |-> T, refused |-> R] /\ R \subseteq Declarations
           A == {k \in Nat : k <= Len(Tree) => Typed(u[k])}
<1>3. Typed(u[0])
  <2>1. u[0] = [taken |-> {}, refused |-> {}]
    BY <1>1 DEF NoPrefix
  <2>2. PICK none : none = {}
    OBVIOUS
  <2>3. u[0] = [taken |-> none, refused |-> none] /\ none \subseteq Declarations
    BY <2>1, <2>2
  <2> QED  BY <2>3
<1>4. ASSUME NEW r, Typed(r), NEW n PROVE Typed(AddPrefix(r, n))
  <2>1. PICK T, R : r = [taken |-> T, refused |-> R] /\ R \subseteq Declarations
    BY <1>4
  <2>2. PICK q : q = AddPrefix(r, n)
    OBVIOUS
  <2>3. \/ q = r
        \/ n \in Declarations /\ q = [taken |-> T, refused |-> R \cup {n}]
        \/ q = [taken |-> T \cup {n}, refused |-> R]
    BY <2>1, <2>2 DEF AddPrefix
  <2>4. n \in Declarations => R \cup {n} \subseteq Declarations
    BY <2>1
  <2> QED  BY <2>1, <2>2, <2>3, <2>4
<1> HIDE DEF Typed
<1>5. 0 \in A
  BY <1>3
<1>6. ASSUME NEW k \in Nat, k \in A PROVE k + 1 \in A
  <2> SUFFICES ASSUME k + 1 <= Len(Tree)
               PROVE  Typed(u[k + 1])
    OBVIOUS
  <2>1. k + 1 \in 1 .. Len(Tree) /\ (k + 1) - 1 = k /\ k <= Len(Tree)
    BY <1>2
  <2> QED  BY <1>1, <1>4, <1>6, <2>1
<1>7. Len(Tree) \in A
  <2> HIDE DEF A
  <2> QED  BY <1>2, <1>5, <1>6, NumberInduction
<1>8. Typed(PrefixMap)
  <2>1. Len(Tree) <= Len(Tree)
    BY <1>2
  <2> QED  BY <1>1, <1>7, <2>1
<1> QED  BY <1>8 DEF Typed

LEMMA DeclaringIn ==
  ASSUME scn \in Scenario
  PROVE  \A d \in Declarations : Declaring(d) \in Nodes
<1> SUFFICES ASSUME NEW d \in Declarations
             PROVE  Declaring(d) \in Nodes
  OBVIOUS
<1>1. d \in Nodes /\ Declaring(d) # 0
  BY DEF Declarations, Sub
<1> DEFINE P == {p \in Sub(d) : IsA(p, "prefix")}
<1>2. P \in SUBSET (Nat \ {0}) /\ P \subseteq Nodes
  BY ParentOf DEF Sub
<1>3. Declaring(d) = d \/ Declaring(d) = First(P)
  BY <1>1 DEF Declaring
<1> HIDE DEF P
<1>4. First(P) # 0 => First(P) \in P
  BY <1>2, FirstOf
<1> QED  BY <1>1, <1>2, <1>3, <1>4

LEMMA ValidHeader ==
  ASSUME scn \in Scenario, RefValid
  PROVE  HeaderFits /\ RefKnown(1)
<1>1. 1 \in Nodes /\ Kw(1) \in {"module", "submodule"} /\ Plain(1)
  BY TreeTyped DEF RefValid
<1>2. RefKnown(1)
  <2>1. ModuleOf(Declarations, 1) = Builtin
    BY <1>1 DEF ModuleOf
  <2> QED  BY <2>1, RefKnownOf, GrammarAssumption
<1>3. \A c \in Sub(1) : RefKnown(c) => RefRule(c) # 0
  BY <1>1, SubKnown DEF RefValid, RefOwn
<1>4. ListOK(1)
  BY <1>1, <1>2 DEF RefValid
<1> QED  BY <1>1, <1>2, <1>3, <1>4, HeaderFrom DEF ListOK

LEMMA ResolveFound ==
  ASSUME IInv, ResolvePrefixes
  PROVE  FoundInv'
<1>1. /\ phase' = "check" /\ UNCHANGED scn /\ scn \in Scenario /\ version' = HeaderVersion
      /\ Kw(1) \in {"module", "submodule"}
      /\ modname' = [n \in Nodes |-> ModuleOf(PrefixMap.taken, n)]
  BY DEF ResolvePrefixes, IInv
<1> DEFINE twice == {n \in Nodes : \E d \in PrefixMap.refused : n = Declaring(d)}
           undefined == {n \in Nodes : ModuleOf(PrefixMap.taken, n) = None}
<1>2. errors' = ErrorsAt("DUPLICATE_PREFIX", twice) \o ErrorsAt("UNDEFINED_PREFIX", undefined)
  BY DEF ResolvePrefixes
<1>3. errors' = <<>> <=> twice = {} /\ undefined = {}
  <2>1. twice \subseteq Nodes /\ undefined \subseteq Nodes
    OBVIOUS
  <2> HIDE DEF twice, undefined
  <2>2. IsFiniteSet(twice) /\ IsFiniteSet(undefined)
    BY <1>1, <2>1, TreeTyped, FS_Subset
  <2>3. PICK a, b : a = ErrorsAt("DUPLICATE_PREFIX", twice) /\ b = ErrorsAt("UNDEFINED_PREFIX", undefined)
    OBVIOUS
  <2>4. IsSeq(a) /\ IsSeq(b)
    BY <2>2, <2>3, ErrorsAtOK
  <2>5. (a = <<>> <=> twice = {}) /\ (b = <<>> <=> undefined = {})
    BY <2>2, <2>3, Listed
  <2>6. a \o b = <<>> => a = <<>> /\ b = <<>>
    BY <2>4, Concat
  <2>7. <<>> \o <<>> = <<>>
    OBVIOUS
  <2>8. errors' = a \o b
    BY <1>2, <2>3
  <2>9. a = <<>> /\ b = <<>> => a \o b = <<>>
    BY <2>7
  <2> QED  BY <2>5, <2>6, <2>8, <2>9
<1>4. twice = {} <=> PrefixMap.refused = {}
  BY <1>1, RefusedOnes, DeclaringIn
<1>5. undefined = {} <=> \A n \in Nodes : ModuleOf(PrefixMap.taken, n) # None
  OBVIOUS
<1> HIDE DEF twice, undefined
<1>6. /\ Nodes' = Nodes /\ \A n : Around(n)' = Around(n) /\ \A s : ToCome(s)' = ToCome(s)
  BY <1>1, SameTree
<1>7. /\ PrefixMap' = PrefixMap /\ HeaderVersion' = HeaderVersion /\ RefVersion' = RefVersion
      /\ Kw(1)' = Kw(1) /\ (Deviant' <=> Deviant) /\ (Valid' <=> Valid)
      /\ \A n : ModuleOf(Declarations, n)' = ModuleOf(Declarations, n)
  BY <1>1, SameHeader
<1>8. errors' = <<>> => AllNamed'
  <2> SUFFICES ASSUME errors' = <<>>, NEW n \in Nodes
               PROVE  modname'[n] = ModuleOf(Declarations, n) /\ modname'[n] # None
    BY <1>6, <1>7 DEF AllNamed
  <2>1. ModuleOf(PrefixMap.taken, n) # None
    BY <1>3, <1>5
  <2> QED  BY <1>1, <2>1, SameModule
<1> PICK f : f = Frame(0, 1, <<TopRule>>)
  OBVIOUS
<1>9. f.parent = 0 /\ f.cur = 1
  BY DEF Frame
<1>10. PICK t : t = stack'
  OBVIOUS
<1>11. Len(t) = 1 /\ t[1] = f /\ \A j \in 1 .. 1 : j = 1
  BY <1>10 DEF ResolvePrefixes
<1>12. 1 \in ToCome(t)
  <2>1. 1 \in Nodes /\ Tree[1].parent = 0
    BY <1>1, TreeTyped, ParentOf
  <2>2. 1 \in 1 .. Len(t) /\ ~(1 > 1) /\ 1 >= 1 /\ 1 # 0
    BY <1>11
  <2> QED  BY <1>9, <1>11, <2>1, <2>2 DEF ToCome
<1>13. Exact(t)'
  <2>1. PassedOK(ToCome(t))'
    <3>1. ASSUME NEW n \in Nodes PROVE ~Looked(ToCome(t), n)'
      BY <1>1, <1>6, <1>12, LeadsTo DEF Looked
    <3> QED  BY <1>6, <3>1 DEF PassedOK
  <2>2. \A S : FrameTells(f, S)'
    BY <1>9 DEF FrameTells
  <2>3. ASSUME NEW j \in 1 .. Len(t) PROVE FrameTells(t[j], ToCome(t))'
    BY <1>11, <2>2
  <2> QED  BY <2>1, <2>3 DEF Exact
<1>14. Valid /\ ~Deviant => errors' = <<>> /\ version' = RefVersion
  <2> SUFFICES ASSUME Valid, ~Deviant
               PROVE  errors' = <<>> /\ version' = RefVersion
    OBVIOUS
  <2>1. RefValid
    BY <1>1, ValidIs
  <2>2. HeaderFits
    BY <1>1, <2>1, ValidHeader
  <2>3. PrefixMap.refused = {} /\ PrefixMap.taken = Declarations
    BY <1>1, <2>1, <2>2, PrefixesTaken DEF RefValid
  <2>4. \A n \in Nodes : ModuleOf(PrefixMap.taken, n) # None
    BY <2>1, <2>3 DEF RefValid
  <2>5. HeaderVersion = RefVersion
    BY <1>1, <2>2, VersionFound
  <2> QED  BY <1>1, <1>3, <1>4, <1>5, <2>3, <2>4, <2>5
<1> QED  BY <1>1, <1>3, <1>4, <1>7, <1>8, <1>10, <1>13, <1>14 DEF FoundInv, AcceptsExactly

(* What the innermost call has come to, and what it took before.           *)
LEMMA AroundCall ==
  ASSUME scn \in Scenario, AllNamed, NEW E, NEW s, StackOK(s), PathInv(E, s), s[1].parent # 0
  PROVE  LET p == s[1].parent
             S == ToCome(s)
         IN  /\ p \in Nodes /\ RefKnown(p)
             /\ \A d \in Sub(p) : /\ d \in Nodes /\ d # 1 /\ d \in Nat /\ Tree[d].parent = p
                                  /\ RefKnown(d) <=> Known(d)
                                  /\ d \in S => s[1].cur # 0 /\ s[1].cur <= d
                                  /\ d \notin S /\ s[1].cur # 0 => d < s[1].cur
<1> PICK p, S, c : p = s[1].parent /\ S = ToCome(s) /\ c = s[1].cur
  OBVIOUS
<1>1. PathOK(s) /\ Len(s) \in Nat \ {0} /\ 1 \in 1 .. Len(s) /\ FrameOK(s[1])
  BY StackParts DEF PathInv
<1>2. p \in Nodes /\ Around(p) \cup {p} = OpenFrom(s, 1)
  BY <1>1, OpenAround DEF PathOK
<1>3. \A q \in Around(p) \cup {p} : Known(q)
  BY <1>2 DEF PathInv, Clean
<1>4. RefKnown(p)
  BY <1>2, <1>3, KnownAround
<1>5. ASSUME NEW d \in Sub(p)
      PROVE  /\ d \in Nodes /\ d # 1 /\ d \in Nat /\ Tree[d].parent = p
             /\ RefKnown(d) <=> Known(d)
             /\ d \in S => c # 0 /\ c <= d
             /\ d \notin S /\ c # 0 => d < c
  <2>1. d \in Nodes /\ d # 1 /\ d \in Nat /\ Tree[d].parent = p
    BY <1>2, SubKnown
  <2>2. Around(d) = {p} \cup Around(p)
    BY <2>1, AroundOf
  <2>3. RefKnown(d) <=> Known(d)
    BY <1>3, <2>1, <2>2, KnownAround
  <2>4. d \in S => c # 0 /\ c <= d
    <3> SUFFICES ASSUME d \in S
                 PROVE  c # 0 /\ c <= d
      OBVIOUS
    <3>1. PICK i \in 1 .. Len(s) : Tree[d].parent = s[i].parent /\ s[i].cur # 0 /\ d >= s[i].cur
      BY DEF ToCome
    <3>2. i = 1
      <4> SUFFICES ASSUME i # 1 PROVE FALSE
        OBVIOUS
      <4>1. i \in 2 .. Len(s)
        BY <1>1
      <4> QED  BY <1>1, <2>1, <3>1, <4>1, ParentsDiffer
    <3>3. c \in Nat
      BY <1>1, FrameParts
    <3> QED  BY <2>1, <3>1, <3>2, <3>3
  <2>5. d \notin S /\ c # 0 => d < c
    <3> SUFFICES ASSUME c # 0, ~(d < c)
                 PROVE  d \in S
      OBVIOUS
    <3>1. c \in Nat
      BY <1>1, FrameParts
    <3>2. d >= c /\ ~(1 > 1)
      BY <2>1, <3>1
    <3> QED  BY <1>1, <2>1, <3>2 DEF ToCome
  <2> QED  BY <2>1, <2>3, <2>4, <2>5
<1> QED  BY <1>2, <1>4, <1>5

CallIs(f) ==
  /\ StartOK(f)
  /\ f.parent = 0 => f.rules = <<TopRule>>
  /\ f.parent # 0 => f.rules = RefRules(f.parent) /\ OfGrammar(f.rules)

LEMMA CurrentIs ==
  ASSUME scn \in Scenario, AllNamed, ModulesOK, NEW E, NEW s, StackOK(s), PathInv(E, s),
         CallIs(s[1]), s[1].cur # 0, Known(s[1].cur)
  PROVE  LET f == s[1]
             c == s[1].cur
         IN  /\ c \in Nodes /\ Tree[c].parent = f.parent /\ RefKnown(c)
             /\ f.parent = 0 <=> c = 1
             /\ c # 1 => c \in Sub(f.parent)
             /\ Hit(f, c) # 0 => /\ f.rules[Hit(f, c)].spec = RefSpec(c)
                                 /\ f.parent # 0 => RefRule(c) = Hit(f, c)
<1> PICK f, c : f = s[1] /\ c = s[1].cur
  OBVIOUS
<1>1. PathOK(s) /\ Len(s) \in Nat \ {0} /\ 1 \in 1 .. Len(s) /\ FrameOK(f)
  BY StackParts DEF PathInv
<1>2. c \in Nodes /\ Tree[c].parent = f.parent /\ Around(c) = OpenFrom(s, 1)
  BY <1>1, OpenAround DEF PathOK
<1>3. RefKnown(c)
  <2>1. \A q \in Around(c) \cup {c} : Known(q)
    BY <1>2 DEF PathInv, Clean
  <2> QED  BY <1>2, <2>1, KnownAround
<1>4. f.parent = 0 <=> c = 1
  <2>1. c # 1 => f.parent \in Nodes
    BY <1>2, ParentOf
  <2>2. 0 \notin Nodes
    BY ParentOf
  <2> QED  BY <1>2, <2>1, <2>2, ParentOf
<1>5. ASSUME Hit(f, c) # 0, f.parent # 0
      PROVE  f.rules[Hit(f, c)].spec = RefSpec(c) /\ RefRule(c) = Hit(f, c)
  <2>1. c # 1 /\ f.rules = RefRules(Tree[c].parent) /\ OfGrammar(f.rules) /\ StartOK(f) /\ Known(c)
    BY <1>2, <1>4, <1>5 DEF CallIs
  <2>2. RefRule(c) = Hit(f, c)
    BY <1>1, <1>2, <1>5, <2>1, HitIsRef
  <2> QED  BY <1>2, <1>5, <2>1, <2>2, RefKnownOf
<1>6. ASSUME Hit(f, c) # 0, f.parent = 0
      PROVE  f.rules[Hit(f, c)].spec = RefSpec(c)
  <2>1. Hit(f, c) \in DOMAIN f.rules
    BY <1>1, <1>6, HitOK
  <2>2. f.rules = <<TopRule>>
    BY <1>6 DEF CallIs
  <2>3. DOMAIN f.rules = {1} /\ f.rules[1] = TopRule
    BY <2>2
  <2>4. f.rules[Hit(f, c)].spec = Kw(1)
    BY <2>1, <2>3 DEF TopRule
  <2> QED  BY <1>4, <1>6, <2>4, RefKnownOf
<1> QED  BY <1>2, <1>3, <1>4, <1>5, <1>6 DEF Sub

(* In a valid module the statement the check has come to is taken.         *)
LEMMA AdmitsInValid ==
  ASSUME scn \in Scenario, RefValid, version = RefVersion, AllNamed, ModulesOK,
         NEW E, NEW s, StackOK(s), PathInv(E, s), Exact(s), CallIs(s[1]),
         s[1].cur # 0, Known(s[1].cur), s[1].parent = 0 => s[1].occ[1] = "1"
  PROVE  Admits(s[1], s[1].cur)
<1> PICK f, c, p, S : f = s[1] /\ c = s[1].cur /\ p = s[1].parent /\ S = ToCome(s)
  OBVIOUS
<1>1. /\ FrameOK(f) /\ Len(s) \in Nat \ {0} /\ 1 \in 1 .. Len(s)
      /\ Kw(1) \in {"module", "submodule"} /\ version \in {1, 2}
  BY StackParts DEF ModulesOK, RefValid
<1>2. /\ c \in Nodes /\ Tree[c].parent = p /\ RefKnown(c) /\ (p = 0 <=> c = 1) /\ (c # 1 => c \in Sub(p))
      /\ Hit(f, c) # 0 /\ p # 0 => RefRule(c) = Hit(f, c)
  BY CurrentIs
<1>3. CASE p # 0
  <2> DEFINE P == Seen(S, p)
             i == RefRule(c)
  <2>1. /\ p \in Nodes /\ RefKnown(p)
        /\ \A d \in Sub(p) : /\ d \in Nodes /\ d # 1 /\ d \in Nat /\ Tree[d].parent = p
                             /\ RefKnown(d) <=> Known(d)
                             /\ d \in S => c # 0 /\ c <= d
                             /\ d \notin S /\ c # 0 => d < c
    BY <1>3, AroundCall
  <2>2. f.rules = RefRules(p) /\ c # 1 /\ c \in Sub(p) /\ c \in Nat
    BY <1>2, <1>3, <2>1 DEF CallIs
  <2>3. Tells(f, P)
    BY <1>1, <1>3 DEF Exact, FrameTells
  <2>4. /\ i # 0 /\ f.rules[i].min <= version /\ i \in DOMAIN f.rules
        /\ f.rules[i] \in RuleType /\ Fits(c, f.rules[i]) /\ f.rules[i].name # Cut
    <3>1. RefOwn(c)
      BY <1>2 DEF RefValid
    <3>2. i # 0 /\ f.rules[i].min <= version
      BY <1>2, <2>2, <3>1 DEF RefOwn
    <3> QED  BY <1>1, <1>2, <2>2, <3>2, RefTyped, NotCut
  <2>5. Matches(f.rules[i], c)
    <3>1. modname[c] = ModuleOf(Declarations, c)
      BY <1>2 DEF AllNamed
    <3> QED  BY <1>1, <1>2, <2>4, <3>1, MatchIsFit
  <2>6. ListOK(p)
    BY <2>1 DEF RefValid
  <2>7. \A d \in P : RefRule(d) \in Nat /\ PairOK(f.rules, d, c)
    <3> SUFFICES ASSUME NEW d \in P
                 PROVE  RefRule(d) \in Nat /\ PairOK(f.rules, d, c)
      OBVIOUS
    <3>1. d \in Sub(p) /\ d \notin S /\ Known(d)
      BY DEF Seen
    <3>2. d < c /\ RefKnown(d) /\ d \in Nodes /\ d # 1
      BY <2>1, <3>1
    <3> QED  BY <1>1, <1>2, <2>2, <2>6, <3>1, <3>2, RefTyped DEF ListOK
  <2>8. \A j \in DOMAIN f.rules : f.rules[j].occ \in Mandatory =>
           \E d : RefRule(d) = j /\ (d \in P \/ d = c \/ PairOK(f.rules, c, d))
    <3> SUFFICES ASSUME NEW j \in DOMAIN f.rules, f.rules[j].occ \in Mandatory
                 PROVE  \E d : RefRule(d) = j /\ (d \in P \/ d = c \/ PairOK(f.rules, c, d))
      OBVIOUS
    <3>1. PICK d \in Sub(p) : RefKnown(d) /\ RefRule(d) = j
      BY <2>2, <2>6 DEF ListOK
    <3>2. CASE d \notin S
      BY <2>1, <3>1, <3>2 DEF Seen
    <3>3. CASE d \in S
      <4>1. d = c \/ c < d
        <5>1. d \in Nat /\ c <= d
          BY <2>1, <3>3
        <5> QED  BY <2>2, <5>1
      <4>2. c < d => PairOK(f.rules, c, d)
        BY <1>2, <2>2, <2>6, <3>1 DEF ListOK
      <4> QED  BY <3>1, <4>1, <4>2
    <3> QED  BY <3>2, <3>3
  <2>9. Hit(f, c) # 0
    <3> PICK Q : Q = P
      OBVIOUS
    <3> HIDE DEF P
    <3> QED  BY <1>1, <2>3, <2>4, <2>5, <2>7, FoundWhenValid
  <2>10. RefRule(c) = Hit(f, c)
    BY <1>2, <1>3, <2>9
  <2> HIDE DEF P
  <2> QED  BY <1>1, <2>3, <2>4, <2>7, <2>8, <2>9, <2>10, AdmitsWhenValid
<1>4. CASE p = 0
  <2>1. c = 1 /\ f.rules = <<TopRule>> /\ f.occ[1] = "1"
    BY <1>2, <1>4 DEF CallIs
  <2>2. DOMAIN f.rules = {1} /\ Len(f.rules) = 1 /\ f.rules[1] = TopRule
    BY <2>1
  <2>3. TopRule.name = <<Builtin, Kw(1)>> /\ TopRule.name # Cut /\ TopRule.min = 1 /\ TopRule.spec = Kw(1)
    BY <1>1 DEF TopRule, Cut
  <2>4. f.start = 1
    <3>1. StartOK(f)
      BY DEF CallIs
    <3>2. f.start - 1 \in DOMAIN f.rules => f.rules[f.start - 1].name # Cut
      BY <2>2, <2>3
    <3> QED  BY <3>1, <3>2 DEF StartOK
  <2>5. Matches(f.rules[1], 1)
    <3>1. ~Grammar[Kw(1)].match
      BY <1>1, HeaderAssumption
    <3>2. modname[1] = Builtin
      BY <1>2, <2>1 DEF AllNamed, RefValid, ModuleOf
    <3> QED  BY <2>2, <2>3, <3>1, <3>2 DEF Matches
  <2>6. Hit(f, 1) = 1
    <3>1. Hit(f, 1) # 0
      BY <1>1, <2>2, <2>4, <2>5, HitFrom
    <3>2. Hit(f, 1) \in DOMAIN f.rules
      BY <1>1, <3>1, HitOK
    <3> QED  BY <2>2, <3>2
  <2>7. Skipped(f, 1) = 0
    <3>1. \A i \in DOMAIN f.rules : i \notin Passed(f, 1)
      BY <1>1, <2>2, <2>6, HitFrom
    <3> QED  BY <1>1, <3>1, HitOK
  <2> QED  BY <1>1, <2>1, <2>2, <2>3, <2>6, <2>7 DEF Admits
<1> QED  BY <1>3, <1>4

LEMMA WhenChecking ==
  ASSUME IInv, BelowInv, AccountInv, FoundInv, phase = "check"
  PROVE  /\ scn \in Scenario /\ IsSeq(errors) /\ StackOK(stack) /\ PathInv(Errs(errors), stack)
         /\ ModulesOK /\ CallIs(stack[1]) /\ FrameOK(stack[1]) /\ Top = stack[1]
         /\ Kw(1) \in {"module", "submodule"}
         /\ errors = <<>> => AllNamed /\ Exact(stack)
         /\ Valid /\ ~Deviant =>
              /\ RefValid /\ errors = <<>> /\ version = RefVersion
              /\ stack[1].parent = 0 /\ stack[1].cur # 0 => stack[1].occ[1] = "1"
<1>1. /\ scn \in Scenario /\ IsSeq(errors) /\ StackOK(stack) /\ PathInv(Errs(errors), stack)
      /\ ModulesOK /\ Account(errors, stack) /\ Kw(1) \in {"module", "submodule"}
      /\ errors = <<>> => AllNamed /\ Exact(stack)
  BY DEF IInv, BelowInv, AccountInv, FoundInv
<1>2. FrameOK(stack[1]) /\ Top = stack[1] /\ 1 \in 1 .. Len(stack)
  BY <1>1, StackParts DEF Top
<1>3. CallIs(stack[1])
  BY <1>1, <1>2 DEF Account, CallOK, CallIs
<1>4. ASSUME Valid, ~Deviant
      PROVE  /\ RefValid /\ errors = <<>> /\ version = RefVersion
             /\ stack[1].parent = 0 /\ stack[1].cur # 0 => stack[1].occ[1] = "1"
  <2>1. RefValid /\ errors = <<>> /\ version = RefVersion
    BY <1>1, <1>4, ValidIs DEF FoundInv
  <2>2. OuterInv
    BY <2>1 DEF IInv, RefValid
  <2>3. stack[1].parent = 0 => Single(stack) /\ stack[1] = Outer
    BY <1>1, StackParts DEF Outer
  <2> QED  BY <2>1, <2>2, <2>3 DEF OuterInv
<1> QED  BY <1>1, <1>2, <1>3, <1>4

LEMMA RejectFound ==
  ASSUME IInv, BelowInv, AccountInv, FoundInv, Reject
  PROVE  FoundInv'
<1>1. phase = "check" /\ UNCHANGED <<scn, phase, modname, version>>
  BY DEF Reject
<1>2. /\ scn \in Scenario /\ IsSeq(errors) /\ StackOK(stack) /\ PathInv(Errs(errors), stack)
      /\ ModulesOK /\ CallIs(stack[1]) /\ FrameOK(stack[1]) /\ Top = stack[1]
      /\ errors = <<>> => AllNamed /\ Exact(stack)
      /\ Valid /\ ~Deviant =>
           /\ RefValid /\ errors = <<>> /\ version = RefVersion
           /\ stack[1].parent = 0 /\ stack[1].cur # 0 => stack[1].occ[1] = "1"
  BY <1>1, WhenChecking
<1>3. PICK m : /\ m = MatchRule(Top, Top.cur) /\ m.rule = 0 /\ Top.cur # 0 /\ Known(Top.cur)
               /\ errors' = errors \o m.errors
  BY DEF Reject
<1>4. errors' # <<>>
  <2>1. IsSeq(m.errors) /\ m.errors # <<>>
    BY <1>2, <1>3, MatchOK
  <2> QED  BY <1>2, <1>3, <2>1, Concat
<1>5. ~(Valid /\ ~Deviant)
  <2> SUFFICES ASSUME Valid, ~Deviant PROVE FALSE
    OBVIOUS
  <2>1. Admits(Top, Top.cur)
    BY <1>2, <1>3, AdmitsInValid
  <2>2. StartOK(Top) /\ version \in {1, 2}
    BY <1>2 DEF CallIs, ModulesOK
  <2> QED  BY <1>2, <1>3, <2>1, <2>2, MatchExactly
<1>6. PICK t : t = stack'
  OBVIOUS
<1> QED  BY <1>1, <1>4, <1>5, <1>6, FoundAfter

LEMMA EnterFound ==
  ASSUME IInv, BelowInv, AccountInv, FoundInv, Enter
  PROVE  FoundInv'
<1>1. phase = "check" /\ UNCHANGED <<scn, phase, modname, version>>
  BY DEF Enter
<1>2. /\ scn \in Scenario /\ IsSeq(errors) /\ StackOK(stack) /\ PathInv(Errs(errors), stack)
      /\ ModulesOK /\ CallIs(stack[1]) /\ FrameOK(stack[1]) /\ Top = stack[1]
      /\ Kw(1) \in {"module", "submodule"}
      /\ errors = <<>> => AllNamed /\ Exact(stack)
      /\ Valid /\ ~Deviant =>
           /\ RefValid /\ errors = <<>> /\ version = RefVersion
           /\ stack[1].parent = 0 /\ stack[1].cur # 0 => stack[1].occ[1] = "1"
  BY <1>1, WhenChecking
<1>3. PICK m : /\ m = MatchRule(Top, Top.cur) /\ m.rule # 0 /\ Top.cur # 0 /\ Known(Top.cur)
               /\ Call(Top.cur, Top.rules[m.rule].spec, m)
  BY DEF Enter
<1>4. PICK f, c, spec, h : f = Top /\ c = Top.cur /\ spec = Top.rules[m.rule].spec /\ h = m.frame
  OBVIOUS
<1>5. /\ FrameOK(f) /\ FrameOK(h) /\ h.parent = f.parent /\ h.cur = c /\ h.rules = f.rules
      /\ IsSeq(m.errors) /\ m.rule \in DOMAIN f.rules
  BY <1>2, <1>3, <1>4, MatchOK
<1>6. PICK bad, g : bad = ArgumentErrors(spec, c) /\ g = Frame(c, First(Sub(c)), Grammar[spec].rules)
  OBVIOUS
<1>7. stack' = <<g, h>> \o Tail(stack) /\ errors' = (errors \o m.errors) \o bad
  BY <1>3, <1>4, <1>6 DEF Call
<1>8. errors' = <<>> <=> errors = <<>> /\ m.errors = <<>> /\ bad = <<>>
  <2>1. IsSeq(bad)
    BY <1>6, Short DEF ArgumentErrors
  <2>2. PICK x, y : x = errors /\ y = m.errors
    OBVIOUS
  <2>3. IsSeq(x) /\ IsSeq(y) /\ errors' = (x \o y) \o bad
    BY <1>2, <1>5, <1>7, <2>2
  <2>4. errors' = <<>> => x = <<>> /\ y = <<>> /\ bad = <<>>
    <3>1. PICK z : z = x \o y
      OBVIOUS
    <3>2. IsSeq(z) /\ (z = <<>> => x = <<>> /\ y = <<>>)
      BY <2>3, <3>1, Concat
    <3>3. errors' = z \o bad
      BY <2>3, <3>1
    <3> QED  BY <2>1, <3>2, <3>3, Concat
  <2>5. x = <<>> /\ y = <<>> /\ bad = <<>> => errors' = <<>>
    <3>1. <<>> \o <<>> = <<>>
      OBVIOUS
    <3> QED  BY <2>3, <3>1
  <2> QED  BY <2>2, <2>4, <2>5
<1>9. /\ (m.rule # 0 /\ m.errors = <<>>) <=> Admits(f, c)
      /\ Admits(f, c) => m.rule = Hit(f, c) /\ Admitted(f, c, h)
  <2>1. StartOK(f) /\ version \in {1, 2} /\ m = MatchRule(f, c)
    BY <1>2, <1>3, <1>4 DEF CallIs, ModulesOK
  <2> QED  BY <1>4, <1>5, <2>1, MatchExactly
<1>10. spec \in DOMAIN Grammar /\ Grammar[spec].rules \in Seq(RuleType)
  <2>1. f.rules \in Seq(RuleType)
    BY <1>5, FrameParts
  <2>2. f.rules[m.rule] \in RuleType
    BY <1>5, <2>1
  <2>3. spec \in DOMAIN Grammar
    BY <1>4, <2>2 DEF RuleType
  <2> QED  BY <2>3, GrammarAssumption DEF SpecType
<1>11. ASSUME AllNamed, Admits(f, c)
       PROVE  /\ c \in Nodes /\ Tree[c].parent = f.parent /\ RefKnown(c) /\ (f.parent = 0 <=> c = 1)
              /\ spec = RefSpec(c) /\ (f.parent # 0 => RefRule(c) = Hit(f, c))
  <2>1. f = stack[1] /\ c = stack[1].cur /\ c # 0 /\ Known(c) /\ m.rule = Hit(f, c) /\ Hit(f, c) # 0
    BY <1>2, <1>3, <1>4, <1>9, <1>11
  <2>2. /\ c \in Nodes /\ Tree[c].parent = f.parent /\ RefKnown(c) /\ (f.parent = 0 <=> c = 1)
        /\ Hit(f, c) # 0 => /\ f.rules[Hit(f, c)].spec = RefSpec(c)
                            /\ f.parent # 0 => RefRule(c) = Hit(f, c)
    BY <1>2, <1>11, <2>1, CurrentIs
  <2> QED  BY <1>4, <2>1, <2>2
<1>12. PICK t : t = stack'
  OBVIOUS
<1>13. errors' = <<>> => errors = <<>> /\ Exact(t)
  <2> SUFFICES ASSUME errors' = <<>>
               PROVE  Exact(t)
    BY <1>8
  <2>1. AllNamed /\ Exact(stack) /\ Admits(f, c) /\ bad = <<>>
    BY <1>2, <1>3, <1>8, <1>9
  <2>2. /\ c \in Nodes /\ Tree[c].parent = f.parent /\ RefKnown(c) /\ (f.parent = 0 <=> c = 1)
        /\ spec = RefSpec(c) /\ (f.parent # 0 => RefRule(c) = Hit(f, c))
    BY <1>11, <2>1
  <2>3. f.parent # 0 => f.rules = RefRules(f.parent)
    BY <1>2, <1>4 DEF CallIs
  <2>4. OwnOK(c)
    BY <1>6, <2>1, <2>2, <2>3 DEF OwnOK, Admits
  <2>5. /\ FrameOK(g) /\ g.parent = c /\ g.cur = First(Sub(c)) /\ g.start = 1
        /\ \A i \in DOMAIN g.rules : g.occ[i] = g.rules[i].occ
    <3>1. Sub(c) \in SUBSET (Nat \ {0}) /\ c \in Nat
      BY <1>2, <2>2, ParentOf DEF Sub
    <3>2. First(Sub(c)) \in Nat
      BY <3>1, FirstOf
    <3>3. g.start = 1
      BY <1>6 DEF Frame
    <3>4. PICK rules : rules = Grammar[spec].rules
      OBVIOUS
    <3>5. rules \in Seq(RuleType) /\ g = Frame(c, First(Sub(c)), rules)
      BY <1>6, <1>10, <3>4
    <3> QED  BY <3>1, <3>2, <3>3, <3>5, FrameMade
  <2>6. Admitted(f, c, h)
    BY <1>9, <2>1
  <2>7. f = stack[1] /\ c = stack[1].cur /\ c # 0 /\ Known(c) /\ t = <<g, h>> \o Tail(stack)
    BY <1>2, <1>3, <1>4, <1>7, <1>12
  <2>8. /\ stack[1].cur # 0 /\ Known(stack[1].cur) /\ Admits(stack[1], stack[1].cur)
        /\ OwnOK(stack[1].cur)
        /\ stack[1].parent # 0 => /\ stack[1].rules = RefRules(stack[1].parent)
                                  /\ RefRule(stack[1].cur) = Hit(stack[1], stack[1].cur)
        /\ h.parent = stack[1].parent /\ h.cur = stack[1].cur /\ h.rules = stack[1].rules
        /\ Admitted(stack[1], stack[1].cur, h)
        /\ g.parent = stack[1].cur /\ g.cur = First(Sub(stack[1].cur))
    BY <1>5, <2>1, <2>2, <2>3, <2>4, <2>5, <2>6, <2>7
  <2> QED  BY <1>2, <1>5, <2>1, <2>5, <2>7, <2>8, ExactEntered
<1>14. Valid /\ ~Deviant => errors' = <<>>
  <2> SUFFICES ASSUME Valid, ~Deviant
               PROVE  errors' = <<>>
    OBVIOUS
  <2>1. RefValid /\ errors = <<>> /\ version = RefVersion /\ AllNamed /\ Exact(stack)
    BY <1>2
  <2>2. Admits(f, c)
    BY <1>2, <1>3, <1>4, <2>1, AdmitsInValid
  <2>3. c \in Nodes /\ RefKnown(c) /\ spec = RefSpec(c)
    BY <1>11, <2>1, <2>2
  <2>4. ArgumentValid(RefStatements, c)
    BY <2>1, <2>3 DEF RefValid, RefOwn
  <2>5. bad = <<>>
    BY <1>2, <1>6, <1>10, <2>1, <2>3, <2>4, ArgumentExactly
  <2> QED  BY <1>8, <1>9, <2>1, <2>2, <2>5
<1> QED  BY <1>1, <1>12, <1>13, <1>14, FoundAfter

(* The end of a list.                                                      *)
LEMMA NothingMissing ==
  ASSUME scn \in Scenario, RefValid, AllNamed, NEW E, NEW s, StackOK(s), PathInv(E, s), Exact(s),
         CallIs(s[1]), s[1].parent # 0, s[1].cur = 0
  PROVE  Missing(s[1]) = {} /\ MissingErrors(s[1]) = <<>>
<1> PICK f, p, S : f = s[1] /\ p = s[1].parent /\ S = ToCome(s)
  OBVIOUS
<1>1. Len(s) \in Nat \ {0} /\ 1 \in 1 .. Len(s) /\ f.rules = RefRules(p)
  BY StackParts DEF CallIs
<1>2. p \in Nodes /\ RefKnown(p) /\ \A d \in Sub(p) : (RefKnown(d) <=> Known(d)) /\ d \notin S
  BY AroundCall
<1>3. Tells(f, Seen(S, p))
  BY <1>1 DEF Exact, FrameTells
<1>4. ASSUME NEW i \in Missing(f) PROVE FALSE
  <2>1. i \in DOMAIN f.rules /\ f.occ[i] \in {"1", "+"}
    BY DEF Missing, Mandatory
  <2>2. f.rules[i].occ = f.occ[i] /\ \A c \in Seen(S, p) : RefRule(c) # i
    BY <1>3, <2>1 DEF Tells, TellsCount
  <2>3. PICK d \in Sub(p) : RefKnown(d) /\ RefRule(d) = i
    BY <1>1, <1>2, <2>1, <2>2 DEF RefValid, ListOK, Mandatory
  <2>4. d \in Seen(S, p)
    BY <1>2, <2>3 DEF Seen
  <2> QED  BY <2>2, <2>3, <2>4
<1>5. Missing(f) = {}
  BY <1>4
<1>6. MissingErrors(f) = <<>>
  <2>1. Cardinality(Missing(f)) = 0
    BY <1>5, FS_EmptySet
  <2>2. PICK n, e : n = Cardinality(Missing(f)) /\ e = InOrder(Missing(f))
    OBVIOUS
  <2>3. f.parent # 0
    OBVIOUS
  <2>4. MissingErrors(f) = [i \in 1 .. n |-> Error("EXPECTED_SUBSTATEMENT", f.parent, e[i])]
    BY <2>2, <2>3 DEF MissingErrors
  <2> QED  BY <2>1, <2>2, <2>4
<1> QED  BY <1>5, <1>6

LEMMA EndValid ==
  ASSUME scn \in Scenario, Kw(1) \in {"module", "submodule"}, ~Deviant,
         StackOK(stack), PathInv(Errs(errors), stack), Single(stack), stack[1].cur = 0,
         errors = <<>>, Account(errors, stack), AllNamed, Exact(stack),
         PrefixMap.refused = {}, version = HeaderVersion
  PROVE  RefValid
<1>1. Plain(1) /\ 1 \in Nodes
  BY TreeTyped DEF Deviant
<1>2. ToCome(stack) = {}
  <2>1. \A j \in 1 .. Len(stack) : j = 1
    BY DEF Single
  <2> QED  BY <2>1 DEF ToCome
<1>3. \A n \in Nodes : RefKnown(n) => OwnOK(n) /\ BeforeOK({}, n)
  BY <1>2 DEF Exact, PassedOK, Looked
<1>4. ASSUME NEW n \in Nodes, NEW c \in Sub(n), NEW d \in Sub(n), RefKnown(c), RefKnown(d), c < d
      PROVE  PairOK(RefRules(n), c, d)
  <2>1. /\ c \in Nodes /\ d \in Nodes /\ Tree[c].parent = n /\ Tree[d].parent = n
        /\ Looked({}, c)
    BY <1>4 DEF Sub, Looked
  <2> QED  BY <1>3, <1>4, <2>1 DEF BeforeOK
<1>5. HeaderFits
  <2>1. \A c \in Sub(1) : RefKnown(c) => RefRule(c) # 0
    BY <1>1, <1>3, SubKnown DEF OwnOK
  <2> QED  BY <1>1, <1>4, <2>1, HeaderFrom
<1>6. Distinct
  BY <1>5, PrefixesTaken
<1>7. version = RefVersion
  BY <1>5, VersionFound
<1>8. ASSUME NEW n \in Nodes, RefKnown(n) PROVE RefOwn(n)
  <2>1. OwnOK(n)
    BY <1>3, <1>8
  <2>2. RefSpec(n) \in DOMAIN Grammar
    <3>1. CASE n = 1
      BY <3>1, RefKnownOf, GrammarAssumption
    <3>2. CASE n # 1
      <4>1. RefRule(n) # 0
        BY <2>1, <3>2 DEF OwnOK
      <4>2. RefRules(Tree[n].parent)[RefRule(n)] \in RuleType
        BY <3>2, <4>1, RefTyped
      <4>3. RefSpec(n) = RefRules(Tree[n].parent)[RefRule(n)].spec
        BY <3>2, <4>1, RefKnownOf
      <4> QED  BY <4>2, <4>3 DEF RuleType
    <3> QED  BY <3>1, <3>2
  <2>3. ArgumentValid(RefStatements, n)
    BY <1>7, <2>1, <2>2, ArgumentExactly DEF OwnOK
  <2> QED  BY <1>7, <2>1, <2>3 DEF OwnOK, RefOwn
<1>9. \A n \in Nodes : Entered(n) <=> RefKnown(n)
  <2>1. Rejected = {}
    BY DEF Rejected
  <2> QED  BY <2>1, KnownAround DEF Entered
<1>10. ASSUME NEW n \in Nodes, RefKnown(n), NEW i \in DOMAIN RefRules(n), RefRules(n)[i].occ \in Mandatory
       PROVE  \E c \in Sub(n) : RefKnown(c) /\ RefRule(c) = i
  <2>1. IF \E c \in Sub(n) : Entered(c) /\ RefRule(c) = i
        THEN Expecting(n, i) = {}
        ELSE Cardinality(Expecting(n, i)) = 1
    <3>1. PathOK(stack)
      BY DEF PathInv
    <3> QED  BY <1>9, <1>10, <3>1, AllClosed DEF RefRules, RefRule
  <2>2. Expecting(n, i) = {}
    BY DEF Expecting
  <2>3. Cardinality(Expecting(n, i)) # 1
    BY <2>2, FS_EmptySet
  <2>4. PICK c \in Sub(n) : Entered(c) /\ RefRule(c) = i
    BY <2>1, <2>3
  <2> QED  BY <1>9, <2>4 DEF Sub
<1>11. \A n \in Nodes : RefKnown(n) => ListOK(n)
  BY <1>4, <1>10 DEF ListOK
<1>12. \A n \in Nodes : ModuleOf(Declarations, n) # None
  BY DEF AllNamed
<1> QED  BY <1>1, <1>6, <1>8, <1>11, <1>12 DEF RefValid

LEMMA LeaveFound ==
  ASSUME IInv, BelowInv, AccountInv, FoundInv, Leave
  PROVE  FoundInv'
<1>1. phase = "check" /\ UNCHANGED <<scn, modname, version>> /\ errors' = errors \o MissingErrors(Top)
  BY DEF Leave
<1>2. /\ scn \in Scenario /\ IsSeq(errors) /\ StackOK(stack) /\ PathInv(Errs(errors), stack)
      /\ ModulesOK /\ CallIs(stack[1]) /\ FrameOK(stack[1]) /\ Top = stack[1]
      /\ Kw(1) \in {"module", "submodule"}
      /\ errors = <<>> => AllNamed /\ Exact(stack)
      /\ Valid /\ ~Deviant => RefValid /\ errors = <<>> /\ version = RefVersion
  BY <1>1, WhenChecking
<1>3. stack[1].cur = 0 /\ (stack[1].parent = 0 <=> Single(stack))
  BY <1>2, StackParts DEF Leave
<1>4. \A x : x = <<>> => x \o <<>> = <<>>
  <2>1. <<>> \o <<>> = <<>>
    OBVIOUS
  <2> QED  BY <2>1
<1>5. CASE Single(stack)
  <2>1. phase' = "done" /\ errors' = errors \o <<>>
    BY <1>1, <1>2, <1>3, <1>5 DEF Leave, Single, MissingErrors
  <2>2. errors' = <<>> <=> errors = <<>>
    BY <1>2, <1>4, <2>1, Concat, Short
  <2>3. ~Deviant /\ errors = <<>> => Valid
    <3> SUFFICES ASSUME ~Deviant, errors = <<>>
                 PROVE  RefValid
      BY <1>2, ValidIs
    <3>1. PrefixMap.refused = {} /\ version = HeaderVersion /\ AllNamed /\ Exact(stack)
      BY <1>1 DEF FoundInv
    <3>2. Account(errors, stack)
      BY <1>1 DEF AccountInv
    <3> QED  BY <1>2, <1>3, <1>5, <3>1, <3>2, EndValid
  <2> QED  BY <1>1, <1>2, <2>1, <2>2, <2>3, FoundAtEnd
<1>6. CASE ~Single(stack)
  <2>1. PICK g : g = Advance(stack[2])
    OBVIOUS
  <2>2. stack' = <<g>> \o Tail(Tail(stack)) /\ phase' = "check"
    BY <1>1, <1>6, <2>1 DEF Leave, Single
  <2>3. FrameOK(stack[2])
    <3>1. StackOK(Tail(stack)) /\ Tail(stack)[1] = stack[2]
      BY <1>2, <1>6, Returned
    <3> QED  BY <3>1, StackParts
  <2>4. g.cur = NextOf(stack[2].cur) /\ Alike(stack[2], g)
    BY <2>1, <2>3 DEF Advance, FrameOK, Alike
  <2>5. PICK t : t = stack'
    OBVIOUS
  <2>6. errors' = <<>> => errors = <<>> /\ Exact(t)
    <3> SUFFICES ASSUME errors' = <<>>
                 PROVE  errors = <<>> /\ Exact(t)
      OBVIOUS
    <3>1. IsSeq(MissingErrors(Top))
      BY <1>2, <1>3, <1>6, MissingErrorsOK
    <3>2. errors = <<>>
      BY <1>1, <1>2, <3>1, Concat
    <3>3. Exact(stack) /\ t = <<g>> \o Tail(Tail(stack))
      BY <1>2, <2>2, <2>5, <3>2
    <3> QED  BY <1>2, <1>3, <1>6, <2>4, <3>2, <3>3, ExactReturned
  <2>7. Valid /\ ~Deviant => errors' = <<>>
    <3> SUFFICES ASSUME Valid, ~Deviant
                 PROVE  errors' = <<>>
      OBVIOUS
    <3>1. RefValid /\ errors = <<>> /\ AllNamed /\ Exact(stack)
      BY <1>2
    <3>2. MissingErrors(Top) = <<>>
      BY <1>2, <1>3, <1>6, <3>1, NothingMissing
    <3> QED  BY <1>1, <1>4, <3>1, <3>2
  <2> QED  BY <1>1, <2>2, <2>5, <2>6, <2>7, FoundAfter
<1> QED  BY <1>5, <1>6

(* Whatever the grammars and the module are, as far as the tables of the   *)
(* two statements that head a file are as the loops over the header expect *)
(* them: a module is accepted exactly when it is valid.                    *)
THEOREM AcceptedIsValid == Spec => []AcceptsExactly
<1>1. FoundInv => AcceptsExactly
  BY DEF FoundInv
<1>2. Init => IInv /\ BelowInv /\ AccountInv /\ FoundInv
  BY InitHolds, InitBelow, InitAccount, InitFound
<1>3. IInv /\ BelowInv /\ AccountInv /\ [Next]_vars => IInv' /\ BelowInv' /\ AccountInv'
  BY StepHolds, StepBelow, NotAModuleAccount, ResolveAccount, SkipAccount, RejectAccount,
     EnterAccount, LeaveAccount, StillAccount DEF Next
<1>4. IInv /\ BelowInv /\ AccountInv /\ FoundInv /\ [Next]_vars => FoundInv'
  BY NotAModuleFound, ResolveFound, SkipFound, RejectFound, EnterFound, LeaveFound, StillFound DEF Next
<1> QED  BY <1>1, <1>2, <1>3, <1>4, PTL DEF Spec
=============================================================================
