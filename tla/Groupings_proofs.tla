------------------------- MODULE Groupings_proofs --------------------------
(***************************************************************************)
(* Proofs about Groupings, for any names and any scenarios: without a      *)
(* circle the sort gives an order in which every grouping used is done,    *)
(* every grouping then ends up with all leaves it needs, and circles are   *)
(* reported exactly.                                                       *)
(*                                                                         *)
(* The invariant is a conjunction of five, besides the types.  SortInv:    *)
(* nothing sorted so far comes before what it uses.  CallInv: the marks    *)
(* "processing" are the calls.  CircleInv: until a circle is reported, the *)
(* groupings done use each other in no circle, nor themselves inside a     *)
(* nested one.  OrderInv: without a circle, what the names to come use is  *)
(* done or comes before them.  LeavesInv: each grouping done has the       *)
(* leaves of all groupings it reaches.                                     *)
(***************************************************************************)
EXTENDS Groupings, WellFoundedInduction, SequenceTheorems, TLAPS

(* Which comes before which.                                               *)
EdgesOf(g) == IF AllUses(g) = {} THEN {<<g, Dummy>>} ELSE AllUses(g) \X {g}
Edges == UNION {EdgesOf(g) : g \in Own}

(* No element comes after or at one that it should come before.            *)
Apart(P, s) == \A i, j \in DOMAIN s : i <= j => <<s[j], s[i]>> \notin P

SortInv ==
  /\ phase \in {"pairs", "sort"} =>
       stack = <<>> /\ errors = <<>> /\ \A g \in Own : status[g] = "raw"
  /\ phase = "pairs" =>
       /\ sorted = <<>> /\ Range(pairs) \subseteq Edges
       /\ \A g \in Own : g \in Range(todo) \/ EdgesOf(g) \subseteq Range(pairs)
  /\ phase = "sort" =>
       /\ Own \subseteq Range(all)
       /\ \A p \in Edges : p \in Range(pairs) \/ p[1] \in Range(sorted)
       /\ \A p \in Range(pairs) :
            p \in Edges /\ p[1] \notin Range(sorted) /\ p[2] \notin Range(sorted)
       /\ Apart(Edges, sorted)

(* The calls of add_grouping: each but the innermost one is at a `uses' of *)
(* the grouping that the next works for.                                   *)
CallsOK(s) ==
  /\ \A i \in DOMAIN s :
       /\ s[i].def \in Own /\ (s[i].part = "nested" => HasInner(s[i].def))
       /\ i > 1 => /\ s[i].part = "body" /\ s[i].at <= Len(scn.body[s[i].def].uses)
                   /\ scn.body[s[i].def].uses[s[i].at] = s[i - 1].def
  /\ \A i, j \in DOMAIN s : s[i].def = s[j].def => i = j
CallInv ==
  /\ CallsOK(stack)
  /\ \A g \in scn.given : status[g] = "done" /\ leaves[g] = {g} /\ copy[g] = {g}
  /\ \A g \in Own : status[g] = "processing" <=> \E i \in DOMAIN stack : stack[i].def = g
  /\ phase \in {"running", "done"} => \A g \in Own : status[g] = "raw" => g \in Range(todo)
  /\ phase = "done" => stack = <<>> /\ todo = <<>>

(* What is known of a call while no circle has been reported.              *)
Passed(f) ==
  /\ f.part = "nested" => \A k \in 1 .. f.at - 1 : scn.body[f.def].nested[1][k] # Inner
  /\ f.part = "body" =>
       /\ Inner \notin NestedUses(f.def)
       /\ \A k \in 1 .. f.at - 1 :
            scn.body[f.def].uses[k] \in Own => status[scn.body[f.def].uses[k]] = "done"
NoneCircular == \A k \in DOMAIN errors : errors[k].code # "CIRCULAR_DEPENDENCY"
SelfNested == \E g \in Own : Inner \in NestedUses(g)
Done == {g \in Own : status[g] = "done"}
CircleInv ==
  /\ ~NoneCircular => Circle(InOwnStatements) \/ SelfNested
  /\ NoneCircular =>
       /\ \A g \in Done : Inner \notin NestedUses(g) /\ BodyUses(g) \subseteq Done
       /\ \A S \in (SUBSET Done) \ {{}} : \E g \in S : BodyUses(g) \cap S = {}
       /\ \A i \in DOMAIN stack : Passed(stack[i])

(* Without a circle the order is a good one, and the groupings that are    *)
(* used are done.                                                          *)
OrderInv ==
  ~Circle(InAnyStatement) /\ phase \in {"running", "done"} =>
    /\ Len(stack) <= 1
    /\ \A i \in DOMAIN todo : \A u \in AllUses(todo[i]) :
         \/ status[u] = "done" \/ \E k \in DOMAIN stack : stack[k].def = u
         \/ \E j \in 1 .. i - 1 : todo[j] = u
    /\ \A k \in DOMAIN stack : \A u \in AllUses(stack[k].def) :
         status[u] = "done" /\ copy[u] = leaves[u]

(* The groupings that a grouping needs, directly or not.                   *)
Closed(S) == \A h \in S \cap Own : Needs(h) \subseteq S
Reach(g) == {l \in Known : \A S \in SUBSET Known : g \in S /\ Closed(S) => l \in S}
ReachOf(U) == UNION {Reach(u) : u \in U \cap Known}
Gathered(s, n) == {s[k] : k \in 1 .. n - 1}
Gathers(f) ==
  /\ f.at <= Len(Stmts(f)) + 1
  /\ f.part = "nested" => f.leaves = ReachOf(Gathered(scn.body[f.def].nested[1], f.at))
  /\ f.part = "body" =>
       /\ f.inner = ReachOf(NestedUses(f.def))
       /\ f.leaves = ReachOf(Gathered(scn.body[f.def].uses, f.at)) \cup
                       (IF Inner \in Gathered(scn.body[f.def].uses, f.at) THEN f.inner ELSE {})
LeavesInv ==
  ~Circle(InAnyStatement) =>
    /\ \A g \in Done : leaves[g] = Reach(g)
    /\ \A i \in DOMAIN stack : Gathers(stack[i])

-----------------------------------------------------------------------------
(* Numbers.                                                                *)
LEMMA LeastNumber ==
  ASSUME NEW S \in SUBSET Nat, S # {}
  PROVE  \E n \in S : \A m \in S : n <= m
<1> DEFINE R == OpToRel(<, Nat)
<1>1. \A i, j \in Nat : i < j => <<i, j>> \in R
  BY DEF OpToRel
<1> HIDE DEF R
<1>2. PICK n \in S : \A m \in S : ~(<<m, n>> \in R)
  BY NatLessThanWellFounded, WFMin DEF R
<1>3. \A m \in S : ~(m < n)
  BY <1>1, <1>2
<1> QED  BY <1>3

LEMMA GreatestNumber ==
  ASSUME NEW n \in Nat, NEW S \in SUBSET (1 .. n), S # {}
  PROVE  \E c \in S : \A d \in S : d <= c
<1> DEFINE D == {n - c : c \in S}
<1>1. D \in SUBSET Nat /\ D # {}
  <2>1. \A c \in S : n - c \in Nat
    OBVIOUS
  <2>2. PICK c : c \in S
    OBVIOUS
  <2>3. n - c \in D
    BY <2>2
  <2> QED  BY <2>1, <2>3
<1>2. PICK x \in D : \A y \in D : x <= y
  <2> HIDE DEF D
  <2> QED  BY <1>1, LeastNumber
<1>3. PICK c \in S : x = n - c
  BY <1>2
<1>4. \A d \in S : n - c <= n - d
  BY <1>2, <1>3
<1>5. \A d \in S : d <= c
  BY <1>4
<1> QED  BY <1>5

(* The numbers that have a property are a set here.                        *)
LEMMA NumberInduction ==
  ASSUME NEW A, 0 \in A, \A n \in Nat : n \in A => n + 1 \in A
  PROVE  Nat \subseteq A
<1> SUFFICES ASSUME Nat \ A # {}
             PROVE  FALSE
  OBVIOUS
<1>1. PICK x \in Nat \ A : \A y \in Nat \ A : x <= y
  BY LeastNumber
<1>2. x # 0 /\ x - 1 \in Nat
  BY <1>1
<1>3. x - 1 \in A
  BY <1>1, <1>2
<1> QED  BY <1>2, <1>3

-----------------------------------------------------------------------------
(* The elements of r are those of s at the places I, in the same order;    *)
(* m says where each comes from.                                           *)
Places(r, s, I, m) ==
  /\ m \in [1 .. Len(r) -> I \cap (1 .. Len(s))]
  /\ \A k \in 1 .. Len(r) : r[k] = s[m[k]]
  /\ \A k, l \in 1 .. Len(r) : k < l => m[k] < m[l]
  /\ \A i \in I \cap (1 .. Len(s)) : \E k \in 1 .. Len(r) : m[k] = i

(* One element more.                                                       *)
LEMMA PlacesStep ==
  ASSUME NEW T, NEW s \in Seq(T), NEW I, NEW k \in Nat, k + 1 <= Len(s), k + 1 \in I,
         NEW r \in Seq(T), NEW m, Places(r, s, I \cap (1 .. k), m)
  PROVE  /\ Append(r, s[k + 1]) \in Seq(T)
         /\ \E n : Places(Append(r, s[k + 1]), s, I \cap (1 .. k + 1), n)
<1> DEFINE t == Append(r, s[k + 1])
           n == [j \in 1 .. Len(r) + 1 |-> IF j = Len(r) + 1 THEN k + 1 ELSE m[j]]
           J == I \cap (1 .. k)
           K == I \cap (1 .. k + 1)
<1>1. k + 1 \in 1 .. Len(s) /\ s[k + 1] \in T
  OBVIOUS
<1>2. /\ t \in Seq(T) /\ Len(t) = Len(r) + 1 /\ Len(r) \in Nat /\ t[Len(r) + 1] = s[k + 1]
      /\ \A j \in 1 .. Len(r) : t[j] = r[j]
  BY <1>1
<1>3. K = J \cup {k + 1}
  OBVIOUS
<1>4. \A j \in 1 .. Len(r) + 1 : j \in 1 .. Len(r) \/ j = Len(r) + 1
  BY <1>2
<1>5. \A j \in 1 .. Len(r) : n[j] = m[j]
  <2> SUFFICES ASSUME NEW j \in 1 .. Len(r)
               PROVE  n[j] = m[j]
    OBVIOUS
  <2>1. j \in 1 .. Len(r) + 1 /\ j # Len(r) + 1
    BY <1>2
  <2> QED  BY <2>1
<1>6. n[Len(r) + 1] = k + 1
  <2>1. Len(r) + 1 \in 1 .. Len(r) + 1
    BY <1>2
  <2> QED  BY <2>1
<1>7. n = [j \in 1 .. Len(r) + 1 |-> n[j]]
  OBVIOUS
<1>8. /\ m \in [1 .. Len(r) -> J \cap (1 .. Len(s))]
      /\ \A j \in 1 .. Len(r) : r[j] = s[m[j]]
      /\ \A j, l \in 1 .. Len(r) : j < l => m[j] < m[l]
      /\ \A i \in J \cap (1 .. Len(s)) : \E j \in 1 .. Len(r) : m[j] = i
  BY DEF Places
<1>9. \A j \in J : j < k + 1
  OBVIOUS
<1> HIDE DEF t, n, J, K
<1>10. \A j \in 1 .. Len(r) : m[j] \in J /\ m[j] \in 1 .. Len(s)
  BY <1>8
<1>11. n \in [1 .. Len(t) -> K \cap (1 .. Len(s))]
  <2>1. \A j \in 1 .. Len(r) + 1 : n[j] \in K \cap (1 .. Len(s))
    BY <1>1, <1>3, <1>4, <1>5, <1>6, <1>10
  <2> QED  BY <1>2, <1>7, <2>1
<1>12. \A j \in 1 .. Len(t) : t[j] = s[n[j]]
  BY <1>2, <1>4, <1>5, <1>6, <1>8
<1>13. \A j, l \in 1 .. Len(t) : j < l => n[j] < n[l]
  <2> SUFFICES ASSUME NEW j \in 1 .. Len(t), NEW l \in 1 .. Len(t), j < l
               PROVE  n[j] < n[l]
    OBVIOUS
  <2>1. j \in 1 .. Len(r)
    BY <1>2
  <2>2. CASE l \in 1 .. Len(r)
    BY <1>5, <1>8, <2>1, <2>2
  <2>3. CASE l = Len(r) + 1
    BY <1>5, <1>6, <1>9, <1>10, <2>1, <2>3
  <2> QED  BY <1>2, <1>4, <2>2, <2>3
<1>14. \A i \in K \cap (1 .. Len(s)) : \E j \in 1 .. Len(t) : n[j] = i
  <2> SUFFICES ASSUME NEW i \in K \cap (1 .. Len(s))
               PROVE  \E j \in 1 .. Len(t) : n[j] = i
    OBVIOUS
  <2>1. CASE i = k + 1
    <3>1. Len(r) + 1 \in 1 .. Len(t)
      BY <1>2
    <3> QED  BY <1>6, <2>1, <3>1
  <2>2. CASE i \in J
    <3>1. PICK j \in 1 .. Len(r) : m[j] = i
      BY <1>8, <2>2
    <3>2. j \in 1 .. Len(t) /\ n[j] = i
      BY <1>2, <1>5, <3>1
    <3> QED  BY <3>2
  <2> QED  BY <1>3, <2>1, <2>2
<1>15. Places(t, s, K, n)
  BY <1>11, <1>12, <1>13, <1>14 DEF Places
<1> QED  BY <1>2, <1>15 DEF t, K

(* The function of a recursive definition over 0 .. n.                     *)
Upto(s, I, k) ==
  CHOOSE f : f = [j \in 0 .. k |->
    IF j = 0 THEN <<>> ELSE IF j \in I THEN Append(f[j - 1], s[j]) ELSE f[j - 1]]
IsUpto(f, s, I, k) ==
  f = [j \in 0 .. k |->
    IF j = 0 THEN <<>> ELSE IF j \in I THEN Append(f[j - 1], s[j]) ELSE f[j - 1]]

LEMMA UptoStep ==
  ASSUME NEW s, NEW I, NEW k \in Nat, NEW f, IsUpto(f, s, I, k)
  PROVE  \E g : IsUpto(g, s, I, k + 1)
<1> DEFINE g == [j \in 0 .. k + 1 |->
          IF j = 0 THEN <<>> ELSE IF j \in I THEN Append(f[j - 1], s[j]) ELSE f[j - 1]]
<1>1. \A j \in 0 .. k : f[j] = IF j = 0 THEN <<>> ELSE
          IF j \in I THEN Append(f[j - 1], s[j]) ELSE f[j - 1]
  BY DEF IsUpto
<1>2. \A j \in 0 .. k : j \in 0 .. k + 1
  OBVIOUS
<1>3. \A j \in 0 .. k : g[j] = f[j]
  BY <1>1, <1>2
<1>4. \A j \in 0 .. k + 1 : j # 0 => j - 1 \in 0 .. k
  OBVIOUS
<1>5. g = [j \in 0 .. k + 1 |->
          IF j = 0 THEN <<>> ELSE IF j \in I THEN Append(g[j - 1], s[j]) ELSE g[j - 1]]
  BY <1>3, <1>4
<1> HIDE DEF g
<1> QED  BY <1>5 DEF IsUpto

LEMMA UptoOK ==
  ASSUME NEW s, NEW I, NEW n \in Nat
  PROVE  IsUpto(Upto(s, I, n), s, I, n)
<1> DEFINE A == {k \in Nat : \E f : IsUpto(f, s, I, k)}
<1>1. 0 \in A
  <2> DEFINE f == [j \in 0 .. 0 |-> <<>>]
  <2>1. IsUpto(f, s, I, 0)
    BY DEF IsUpto
  <2> HIDE DEF f
  <2> QED  BY <2>1
<1>2. ASSUME NEW k \in Nat, k \in A PROVE k + 1 \in A
  <2>1. k + 1 \in Nat
    OBVIOUS
  <2>2. \E f : IsUpto(f, s, I, k)
    BY <1>2
  <2>3. \E f : IsUpto(f, s, I, k + 1)
    BY <2>2, UptoStep
  <2> QED  BY <2>1, <2>3
<1>3. n \in A
  <2> HIDE DEF A
  <2> QED  BY <1>1, <1>2, NumberInduction
<1>4. \E f : IsUpto(f, s, I, n)
  BY <1>3
<1> QED  BY <1>4 DEF Upto, IsUpto

LEMMA ChosenOK ==
  ASSUME NEW T, NEW s \in Seq(T), NEW I
  PROVE  Chosen(s, I) \in Seq(T) /\ \E m : Places(Chosen(s, I), s, I, m)
<1> DEFINE len == Len(s)
           u == Upto(s, I, len)
           P(k) == u[k] \in Seq(T) /\ \E m : Places(u[k], s, I \cap (1 .. k), m)
           B == {k \in Nat : k <= len => P(k)}
<1>1. len \in Nat
  OBVIOUS
<1>2. Chosen(s, I) = u[len]
  BY DEF Chosen, Upto
<1>3. IsUpto(u, s, I, len)
  BY <1>1, UptoOK
<1>4. \A j \in 0 .. len : u[j] =
        IF j = 0 THEN <<>> ELSE IF j \in I THEN Append(u[j - 1], s[j]) ELSE u[j - 1]
  <2> HIDE DEF u, len
  <2> QED  BY <1>3 DEF IsUpto
<1> HIDE DEF u
<1>5. P(0)
  <2>1. u[0] = <<>>
    BY <1>1, <1>4
  <2>2. <<>> \in Seq(T) /\ Len(<<>>) = 0 /\ 1 .. 0 = {}
    OBVIOUS
  <2> DEFINE m == [j \in {} |-> 0]
  <2>3. Places(<<>>, s, I \cap (1 .. 0), m)
    BY <2>2 DEF Places
  <2> HIDE DEF m
  <2> QED  BY <2>1, <2>2, <2>3
<1>6. ASSUME NEW k \in Nat, k + 1 <= len, P(k) PROVE P(k + 1)
  <2>1. PICK m : Places(u[k], s, I \cap (1 .. k), m)
    BY <1>6
  <2>2. u[k + 1] = IF k + 1 \in I THEN Append(u[k], s[k + 1]) ELSE u[k]
    <3>1. k + 1 \in 0 .. len /\ k + 1 # 0 /\ (k + 1) - 1 = k
      BY <1>1, <1>6
    <3> QED  BY <1>4, <3>1
  <2>3. CASE k + 1 \in I
    <3>1. k + 1 <= Len(s) /\ u[k] \in Seq(T)
      BY <1>6
    <3>2. /\ Append(u[k], s[k + 1]) \in Seq(T)
          /\ \E n : Places(Append(u[k], s[k + 1]), s, I \cap (1 .. k + 1), n)
      <4> HIDE DEF len
      <4> QED  BY <2>1, <2>3, <3>1, PlacesStep
    <3> QED  BY <2>2, <2>3, <3>2
  <2>4. CASE k + 1 \notin I
    <3>1. I \cap (1 .. k + 1) = I \cap (1 .. k)
      BY <2>4
    <3> QED  BY <1>6, <2>2, <2>4, <3>1
  <2> QED  BY <2>3, <2>4
<1>7. P(len)
  <2>1. 0 \in B
    BY <1>5
  <2>2. ASSUME NEW k \in Nat, k \in B PROVE k + 1 \in B
    <3>1. k + 1 \in Nat
      OBVIOUS
    <3>2. k + 1 <= len => P(k)
      <4>1. k + 1 <= len => k <= len
        BY <1>1
      <4>2. k <= len => P(k)
        BY <2>2
      <4> HIDE DEF P
      <4> QED  BY <4>1, <4>2
    <3>3. k + 1 <= len => P(k + 1)
      <4> HIDE DEF P, len
      <4> QED  BY <1>6, <3>2
    <3> HIDE DEF P
    <3> QED  BY <3>1, <3>3
  <2>3. len \in B
    <3> HIDE DEF B, P, len
    <3> QED  BY <1>1, <2>1, <2>2, NumberInduction
  <2> HIDE DEF P
  <2> QED  BY <1>1, <2>3
<1>8. \A r, m : Places(r, s, I \cap (1 .. len), m) => Places(r, s, I, m)
  BY DEF Places
<1> QED  BY <1>2, <1>7, <1>8

-----------------------------------------------------------------------------
(* What the lists hold.                                                    *)
LEMMA FunctionIsSeq ==
  ASSUME NEW T, NEW n \in Nat, NEW f \in [1 .. n -> T]
  PROVE  f \in Seq(T)
BY SeqDef

LEMMA RangeIsIn ==
  ASSUME NEW T, NEW s \in Seq(T)
  PROVE  /\ DOMAIN s = 1 .. Len(s) /\ Len(s) \in Nat
         /\ \A x : x \in Range(s) <=> \E i \in 1 .. Len(s) : x = s[i]
         /\ Range(s) \subseteq T
         /\ \A U : Range(s) \subseteq U => s \in Seq(U)
         /\ s # <<>> => Head(s) = s[1] /\ Head(s) \in Range(s) /\ Tail(s) \in Seq(T)
                         /\ Range(s) = {Head(s)} \cup Range(Tail(s))
<1>1. DOMAIN s = 1 .. Len(s) /\ Len(s) \in Nat
  OBVIOUS
<1>2. \A x : x \in Range(s) <=> \E i \in 1 .. Len(s) : x = s[i]
  BY <1>1 DEF Range
<1>3. Range(s) \subseteq T
  BY <1>2
<1>4. ASSUME NEW U, Range(s) \subseteq U PROVE s \in Seq(U)
  <2>1. s \in [1 .. Len(s) -> U]
    <3>1. \A i \in 1 .. Len(s) : s[i] \in U
      BY <1>2, <1>4
    <3>2. s \in [1 .. Len(s) -> T]
      OBVIOUS
    <3> QED  BY <3>1, <3>2
  <2> QED  BY <1>1, <2>1, FunctionIsSeq
<1>5. ASSUME s # <<>>
      PROVE  Head(s) = s[1] /\ Head(s) \in Range(s) /\ Tail(s) \in Seq(T)
               /\ Range(s) = {Head(s)} \cup Range(Tail(s))
  <2> DEFINE t == Tail(s)
  <2>1. /\ 1 \in 1 .. Len(s) /\ Head(s) = s[1] /\ t \in Seq(T) /\ Len(t) = Len(s) - 1
        /\ \A i \in 1 .. Len(t) : t[i] = s[i + 1]
    BY <1>1, <1>5
  <2>2. DOMAIN t = 1 .. Len(t)
    BY <2>1
  <2> HIDE DEF t
  <2>3. \A x : x \in Range(t) <=> \E i \in 1 .. Len(t) : x = t[i]
    BY <2>2 DEF Range
  <2>4. \A x : (\E i \in 1 .. Len(s) : x = s[i]) <=> x = s[1] \/ \E i \in 1 .. Len(t) : x = s[i + 1]
    <3>1. \A i \in 1 .. Len(s) : i = 1 \/ (i - 1 \in 1 .. Len(t) /\ (i - 1) + 1 = i)
      BY <1>1, <2>1
    <3>2. \A i \in 1 .. Len(t) : i + 1 \in 1 .. Len(s)
      BY <1>1, <2>1
    <3> QED  BY <2>1, <3>1, <3>2
  <2>5. \A x : (\E i \in 1 .. Len(t) : x = t[i]) <=> \E i \in 1 .. Len(t) : x = s[i + 1]
    BY <2>1
  <2>6. \A x : x \in Range(s) <=> x = s[1] \/ x \in Range(t)
    BY <1>2, <2>3, <2>4, <2>5
  <2> QED  BY <2>1, <2>6 DEF t
<1> QED  BY <1>1, <1>2, <1>3, <1>4, <1>5

LEMMA ConcatApart ==
  ASSUME NEW T, NEW s \in Seq(T), NEW t \in Seq(T), NEW P, Apart(P, s), Apart(P, t),
         \A x \in Range(s), y \in Range(t) : <<y, x>> \notin P
  PROVE  Apart(P, s \o t)
<1> DEFINE u == s \o t
<1>1. /\ Len(u) = Len(s) + Len(t)
      /\ \A i \in 1 .. Len(u) : u[i] = IF i <= Len(s) THEN s[i] ELSE t[i - Len(s)]
      /\ DOMAIN u = 1 .. Len(u) /\ DOMAIN s = 1 .. Len(s) /\ DOMAIN t = 1 .. Len(t)
      /\ Len(s) \in Nat /\ Len(t) \in Nat
  OBVIOUS
<1> HIDE DEF u
<1>2. ASSUME NEW i \in 1 .. Len(u), NEW j \in 1 .. Len(u), i <= j
      PROVE  <<u[j], u[i]>> \notin P
  <2>1. CASE j <= Len(s)
    <3>1. i \in DOMAIN s /\ j \in DOMAIN s /\ u[i] = s[i] /\ u[j] = s[j]
      BY <1>1, <1>2, <2>1
    <3> QED  BY <1>2, <3>1 DEF Apart
  <2>2. CASE ~(i <= Len(s))
    <3>1. /\ i - Len(s) \in DOMAIN t /\ j - Len(s) \in DOMAIN t /\ i - Len(s) <= j - Len(s)
          /\ ~(j <= Len(s))
      BY <1>1, <1>2, <2>2
    <3>2. u[i] = t[i - Len(s)] /\ u[j] = t[j - Len(s)]
      BY <1>1, <2>2, <3>1
    <3> QED  BY <3>1, <3>2 DEF Apart
  <2>3. CASE i <= Len(s) /\ ~(j <= Len(s))
    <3>1. i \in DOMAIN s /\ j - Len(s) \in DOMAIN t /\ u[i] = s[i] /\ u[j] = t[j - Len(s)]
      BY <1>1, <2>3
    <3>2. u[i] \in Range(s) /\ u[j] \in Range(t)
      BY <3>1 DEF Range
    <3> QED  BY <3>2
  <2> QED  BY <2>1, <2>2, <2>3
<1>3. Apart(P, u)
  BY <1>1, <1>2 DEF Apart
<1> QED  BY <1>3 DEF u

LEMMA ChosenRange ==
  ASSUME NEW T, NEW s \in Seq(T), NEW I
  PROVE  /\ Chosen(s, I) \in Seq(T)
         /\ \A x : x \in Range(Chosen(s, I)) <=> \E i \in DOMAIN s : i \in I /\ x = s[i]
<1> DEFINE r == Chosen(s, I)
<1>1. PICK m : r \in Seq(T) /\ Places(r, s, I, m)
  BY ChosenOK
<1> HIDE DEF r
<1>2. DOMAIN r = 1 .. Len(r) /\ DOMAIN s = 1 .. Len(s)
  BY <1>1
<1>3. /\ \A k \in 1 .. Len(r) : m[k] \in I \cap (1 .. Len(s)) /\ r[k] = s[m[k]]
      /\ \A i \in I \cap (1 .. Len(s)) : \E k \in 1 .. Len(r) : m[k] = i
  BY <1>1 DEF Places
<1>4. \A x : x \in Range(r) <=> \E i \in DOMAIN s : i \in I /\ x = s[i]
  BY <1>2, <1>3 DEF Range
<1> QED  BY <1>1, <1>4 DEF r

LEMMA ChosenApart ==
  ASSUME NEW T, NEW s \in Seq(T), NEW I, NEW P, Apart(P, s)
  PROVE  Apart(P, Chosen(s, I))
<1> DEFINE r == Chosen(s, I)
<1>1. PICK m : r \in Seq(T) /\ Places(r, s, I, m)
  BY ChosenOK
<1> HIDE DEF r
<1>2. DOMAIN r = 1 .. Len(r) /\ DOMAIN s = 1 .. Len(s)
  BY <1>1
<1>3. /\ \A k \in 1 .. Len(r) : m[k] \in DOMAIN s /\ r[k] = s[m[k]]
      /\ \A k, l \in 1 .. Len(r) : k < l => m[k] < m[l]
  BY <1>1, <1>2 DEF Places
<1>4. ASSUME NEW i \in DOMAIN r, NEW j \in DOMAIN r, i <= j
      PROVE  <<r[j], r[i]>> \notin P
  <2>1. i = j \/ i < j
    BY <1>2, <1>4
  <2>2. m[i] \in DOMAIN s /\ m[j] \in DOMAIN s /\ r[i] = s[m[i]] /\ r[j] = s[m[j]]
    BY <1>2, <1>3
  <2>3. i < j => m[i] < m[j]
    BY <1>2, <1>3
  <2>4. m[i] <= m[j]
    BY <1>2, <2>1, <2>2, <2>3
  <2> QED  BY <2>2, <2>4 DEF Apart
<1>5. Apart(P, r)
  BY <1>4 DEF Apart
<1> QED  BY <1>5 DEF r

LEMMA SubtractOK ==
  ASSUME NEW T, NEW s \in Seq(T), NEW t
  PROVE  /\ Subtract(s, t) \in Seq(T)
         /\ Range(Subtract(s, t)) = Range(s) \ Range(t)
         /\ \A P : Apart(P, s) => Apart(P, Subtract(s, t))
<1> DEFINE I == {i \in DOMAIN s : s[i] \notin Range(t)}
<1>1. Subtract(s, t) = Chosen(s, I)
  BY DEF Subtract
<1>2. \A i : i \in I <=> i \in DOMAIN s /\ s[i] \notin Range(t)
  OBVIOUS
<1> HIDE DEF I
<1>3. /\ Chosen(s, I) \in Seq(T)
      /\ \A x : x \in Range(Chosen(s, I)) <=> \E i \in DOMAIN s : i \in I /\ x = s[i]
  BY ChosenRange
<1>4. \A x : x \in Range(s) <=> \E i \in DOMAIN s : x = s[i]
  BY DEF Range
<1>5. \A P : Apart(P, s) => Apart(P, Chosen(s, I))
  BY ChosenApart
<1>6. \A x : x \in Range(Chosen(s, I)) <=> x \in Range(s) /\ x \notin Range(t)
  BY <1>2, <1>3, <1>4
<1> QED  BY <1>1, <1>3, <1>5, <1>6

LEMMA FirstOccurrencesOK ==
  ASSUME NEW T, NEW s \in Seq(T)
  PROVE  FirstOccurrences(s) \in Seq(T) /\ Range(FirstOccurrences(s)) = Range(s)
<1> DEFINE I == {i \in DOMAIN s : \A j \in 1 .. i - 1 : s[j] # s[i]}
<1>1. FirstOccurrences(s) = Chosen(s, I)
  BY DEF FirstOccurrences
<1>2. DOMAIN s = 1 .. Len(s)
  OBVIOUS
<1>3. \A i \in DOMAIN s : \E f \in I : s[f] = s[i]
  <2> SUFFICES ASSUME NEW i \in DOMAIN s
               PROVE  \E f \in I : s[f] = s[i]
    OBVIOUS
  <2> DEFINE S == {j \in DOMAIN s : s[j] = s[i]}
  <2>1. S \in SUBSET Nat /\ S # {}
    BY <1>2
  <2>2. PICK f \in S : \A j \in S : f <= j
    <3> HIDE DEF S
    <3> QED  BY <2>1, LeastNumber
  <2>3. f \in DOMAIN s /\ s[f] = s[i] /\ f \in 1 .. Len(s)
    BY <1>2, <2>2
  <2>4. \A j \in 1 .. f - 1 : j \in DOMAIN s /\ ~(f <= j)
    BY <1>2, <2>3
  <2>5. \A j \in 1 .. f - 1 : s[j] # s[f]
    BY <2>2, <2>3, <2>4
  <2>6. f \in I
    BY <2>3, <2>5
  <2> QED  BY <2>3, <2>6
<1>4. I \subseteq DOMAIN s
  OBVIOUS
<1> HIDE DEF I
<1>5. /\ Chosen(s, I) \in Seq(T)
      /\ \A x : x \in Range(Chosen(s, I)) <=> \E i \in DOMAIN s : i \in I /\ x = s[i]
  BY ChosenRange
<1>6. \A x : x \in Range(s) <=> \E i \in DOMAIN s : x = s[i]
  BY DEF Range
<1>7. \A x : x \in Range(Chosen(s, I)) <=> x \in Range(s)
  BY <1>3, <1>4, <1>5, <1>6
<1> QED  BY <1>1, <1>5, <1>7

LEMMA LastOccurrencesOK ==
  ASSUME NEW T, NEW s \in Seq(T)
  PROVE  /\ LastOccurrences(s) \in Seq(T)
         /\ Range(LastOccurrences(s)) = Range(s)
         /\ \A P : Apart(P, s) => Apart(P, LastOccurrences(s))
<1> DEFINE I == {i \in DOMAIN s : \A j \in (i + 1) .. Len(s) : s[j] # s[i]}
<1>1. LastOccurrences(s) = Chosen(s, I)
  BY DEF LastOccurrences
<1>2. DOMAIN s = 1 .. Len(s) /\ Len(s) \in Nat
  OBVIOUS
<1>3. \A i \in DOMAIN s : \E f \in I : s[f] = s[i]
  <2> SUFFICES ASSUME NEW i \in DOMAIN s
               PROVE  \E f \in I : s[f] = s[i]
    OBVIOUS
  <2> DEFINE S == {j \in DOMAIN s : s[j] = s[i]}
  <2>1. S \in SUBSET (1 .. Len(s)) /\ S # {}
    BY <1>2
  <2>2. PICK f \in S : \A j \in S : j <= f
    <3> HIDE DEF S
    <3> QED  BY <1>2, <2>1, GreatestNumber
  <2>3. f \in DOMAIN s /\ s[f] = s[i] /\ f \in 1 .. Len(s)
    BY <1>2, <2>2
  <2>4. \A j \in (f + 1) .. Len(s) : j \in DOMAIN s /\ ~(j <= f)
    BY <1>2, <2>3
  <2>5. \A j \in (f + 1) .. Len(s) : s[j] # s[f]
    BY <2>2, <2>3, <2>4
  <2>6. f \in I
    BY <2>3, <2>5
  <2> QED  BY <2>3, <2>6
<1>4. I \subseteq DOMAIN s
  OBVIOUS
<1> HIDE DEF I
<1>5. /\ Chosen(s, I) \in Seq(T)
      /\ \A x : x \in Range(Chosen(s, I)) <=> \E i \in DOMAIN s : i \in I /\ x = s[i]
  BY ChosenRange
<1>6. \A x : x \in Range(s) <=> \E i \in DOMAIN s : x = s[i]
  BY DEF Range
<1>7. \A x : x \in Range(Chosen(s, I)) <=> x \in Range(s)
  BY <1>3, <1>4, <1>5, <1>6
<1>8. \A P : Apart(P, s) => Apart(P, Chosen(s, I))
  BY ChosenApart
<1> QED  BY <1>1, <1>5, <1>7, <1>8

LEMMA ReversedOK ==
  ASSUME NEW T, NEW s \in Seq(T)
  PROVE  Reversed(s) \in Seq(T) /\ Range(Reversed(s)) = Range(s)
<1> DEFINE r == Reversed(s)
<1>1. DOMAIN s = 1 .. Len(s) /\ Len(s) \in Nat /\ \A i \in 1 .. Len(s) : s[i] \in T
  OBVIOUS
<1>2. r = [i \in 1 .. Len(s) |-> s[Len(s) + 1 - i]]
  BY <1>1 DEF Reversed
<1>3. \A i \in 1 .. Len(s) : Len(s) + 1 - i \in 1 .. Len(s) /\ Len(s) + 1 - (Len(s) + 1 - i) = i
  BY <1>1
<1>4. \A i \in 1 .. Len(s) : r[i] = s[Len(s) + 1 - i]
  BY <1>2
<1>5. r \in Seq(T)
  <2>1. r \in [1 .. Len(s) -> T]
    BY <1>1, <1>2, <1>3
  <2> QED  BY <1>1, <2>1, FunctionIsSeq
<1>6. DOMAIN r = 1 .. Len(s)
  BY <1>2
<1> HIDE DEF r
<1>7. \A x : x \in Range(r) <=> x \in Range(s)
  <2>1. ASSUME NEW i \in 1 .. Len(s) PROVE \E j \in 1 .. Len(s) : r[i] = s[j]
    BY <1>3, <1>4
  <2>2. ASSUME NEW j \in 1 .. Len(s) PROVE \E i \in 1 .. Len(s) : s[j] = r[i]
    <3>1. r[Len(s) + 1 - j] = s[j] /\ Len(s) + 1 - j \in 1 .. Len(s)
      BY <1>3, <1>4
    <3> QED  BY <3>1
  <2>3. \A x : x \in Range(r) <=> \E i \in 1 .. Len(s) : x = r[i]
    BY <1>6 DEF Range
  <2>4. \A x : x \in Range(s) <=> \E i \in 1 .. Len(s) : x = s[i]
    BY <1>1 DEF Range
  <2> QED  BY <2>1, <2>2, <2>3, <2>4
<1> QED  BY <1>5, <1>7 DEF r

(* The pairs.                                                              *)
LEMMA LhsRhs ==
  ASSUME NEW T, NEW s \in Seq(T \X T)
  PROVE  /\ Lhs(s) \in Seq(T) /\ Rhs(s) \in Seq(T)
         /\ \A x : x \in Range(Lhs(s)) <=> \E p \in Range(s) : x = p[1]
         /\ \A x : x \in Range(Rhs(s)) <=> \E p \in Range(s) : x = p[2]
<1>1. DOMAIN s = 1 .. Len(s) /\ Len(s) \in Nat
      /\ \A i \in 1 .. Len(s) : s[i][1] \in T /\ s[i][2] \in T
  <2>1. \A i \in 1 .. Len(s) : s[i] \in T \X T
    OBVIOUS
  <2> QED  BY <2>1
<1>2. Lhs(s) \in [1 .. Len(s) -> T] /\ Rhs(s) \in [1 .. Len(s) -> T]
  BY <1>1 DEF Lhs, Rhs
<1>3. Lhs(s) \in Seq(T) /\ Rhs(s) \in Seq(T)
  BY <1>1, <1>2, FunctionIsSeq
<1>4. \A x : x \in Range(Lhs(s)) <=> \E p \in Range(s) : x = p[1]
  BY <1>1 DEF Range, Lhs
<1>5. \A x : x \in Range(Rhs(s)) <=> \E p \in Range(s) : x = p[2]
  BY <1>1 DEF Range, Rhs
<1> QED  BY <1>3, <1>4, <1>5

LEMMA ConcatRange ==
  ASSUME NEW T, NEW s \in Seq(T), NEW t \in Seq(T)
  PROVE  s \o t \in Seq(T) /\ Range(s \o t) = Range(s) \cup Range(t)
<1> DEFINE u == s \o t
<1>1. /\ u \in Seq(T) /\ Len(u) = Len(s) + Len(t)
      /\ \A i \in 1 .. Len(u) : u[i] = IF i <= Len(s) THEN s[i] ELSE t[i - Len(s)]
      /\ DOMAIN u = 1 .. Len(u) /\ DOMAIN s = 1 .. Len(s) /\ DOMAIN t = 1 .. Len(t)
      /\ Len(s) \in Nat /\ Len(t) \in Nat
  OBVIOUS
<1> HIDE DEF u
<1>2. ASSUME NEW i \in 1 .. Len(u) PROVE u[i] \in Range(s) \cup Range(t)
  <2>1. CASE i <= Len(s)
    <3>1. i \in DOMAIN s /\ u[i] = s[i]
      BY <1>1, <2>1
    <3> QED  BY <3>1 DEF Range
  <2>2. CASE ~(i <= Len(s))
    <3>1. i - Len(s) \in DOMAIN t /\ u[i] = t[i - Len(s)]
      BY <1>1, <2>2
    <3> QED  BY <3>1 DEF Range
  <2> QED  BY <2>1, <2>2
<1>3. ASSUME NEW i \in 1 .. Len(s) PROVE s[i] \in Range(u)
  <2>1. i \in DOMAIN u /\ u[i] = s[i]
    BY <1>1
  <2> QED  BY <2>1 DEF Range
<1>4. ASSUME NEW i \in 1 .. Len(t) PROVE t[i] \in Range(u)
  <2>1. Len(s) + i \in DOMAIN u /\ ~(Len(s) + i <= Len(s)) /\ (Len(s) + i) - Len(s) = i
    BY <1>1
  <2>2. u[Len(s) + i] = t[i]
    BY <1>1, <2>1
  <2> QED  BY <2>1, <2>2 DEF Range
<1>5. Range(u) \subseteq Range(s) \cup Range(t)
  BY <1>1, <1>2 DEF Range
<1>6. Range(s) \cup Range(t) \subseteq Range(u)
  BY <1>1, <1>3, <1>4 DEF Range
<1> QED  BY <1>1, <1>5, <1>6 DEF u

LEMMA LeftOK ==
  ASSUME NEW T, NEW s \in Seq(T \X T)
  PROVE  /\ Left(s) \in Seq(T \X T)
         /\ \A p : p \in Range(Left(s)) <=> p \in Range(s) /\ p[1] \in Range(Rhs(s))
<1> DEFINE I == {i \in DOMAIN s : s[i][1] \in Range(Rhs(s))}
<1>1. Left(s) = Chosen(s, I)
  BY DEF Left
<1>2. \A i : i \in I <=> i \in DOMAIN s /\ s[i][1] \in Range(Rhs(s))
  OBVIOUS
<1> HIDE DEF I
<1>3. /\ Chosen(s, I) \in Seq(T \X T)
      /\ \A x : x \in Range(Chosen(s, I)) <=> \E i \in DOMAIN s : i \in I /\ x = s[i]
  BY ChosenRange
<1>4. \A x : x \in Range(s) <=> \E i \in DOMAIN s : x = s[i]
  BY DEF Range
<1> QED  BY <1>1, <1>2, <1>3, <1>4

-----------------------------------------------------------------------------
(* The scenario.                                                           *)
LEMMA ScenarioOK ==
  ASSUME scn \in Scenario
  PROVE  /\ scn.own \in Seq(Own) /\ Own \subseteq Grouping
         /\ Known \subseteq Grouping /\ scn.given \cap Own = {}
         /\ Dummy \notin Own /\ Inner \notin Known
         /\ \A g \in Own : /\ scn.body[g].uses \in Seq(Ref)
                           /\ scn.body[g].nested \in Seq(Seq(Ref))
                           /\ HasInner(g) => scn.body[g].nested[1] \in Seq(Ref)
<1>1. IsScenario(scn)
  BY ScenarioAssumption
<1>2. scn.own \in Seq(Grouping)
  BY <1>1 DEF IsScenario
<1>3. Own \subseteq Grouping /\ scn.own \in Seq(Own)
  BY <1>2, RangeIsIn DEF Own
<1>4. scn.given \subseteq Grouping \ Own
  BY <1>1 DEF IsScenario, Own
<1>5. \A g \in Own : scn.body[g] \in Body
  BY <1>1 DEF IsScenario, Own
<1>6. \A g \in Own : /\ scn.body[g].uses \in Seq(Ref)
                     /\ scn.body[g].nested \in Seq(Seq(Ref))
  BY <1>5 DEF Body
<1>7. \A g \in Own : HasInner(g) => scn.body[g].nested[1] \in Seq(Ref)
  <2> SUFFICES ASSUME NEW g \in Own, HasInner(g)
               PROVE  scn.body[g].nested[1] \in Seq(Ref)
    OBVIOUS
  <2>1. scn.body[g].nested \in Seq(Seq(Ref)) /\ scn.body[g].nested # <<>>
    BY <1>6 DEF HasInner
  <2> DEFINE n == scn.body[g].nested
  <2>2. n \in Seq(Seq(Ref)) /\ n # <<>>
    BY <2>1
  <2> HIDE DEF n
  <2>3. 1 \in 1 .. Len(n)
    BY <2>2
  <2>4. n[1] \in Seq(Ref)
    BY <2>2, <2>3
  <2> QED  BY <2>4 DEF n
<1> QED  BY <1>3, <1>4, <1>6, <1>7, NamesAssumption DEF Known, Ref

LEMMA SiblingsOK ==
  ASSUME NEW s \in Seq(Ref)
  PROVE  Siblings(s) \in Seq(Own) /\ Range(Siblings(s)) = Range(s) \cap Own
<1> DEFINE I == {i \in DOMAIN s : s[i] \in Own}
           r == Chosen(s, I)
<1>1. Siblings(s) = r
  BY DEF Siblings
<1>2. \A i : i \in I <=> i \in DOMAIN s /\ s[i] \in Own
  OBVIOUS
<1> HIDE DEF I
<1>3. r \in Seq(Ref) /\ \A x : x \in Range(r) <=> \E i \in DOMAIN s : i \in I /\ x = s[i]
  BY ChosenRange
<1>4. \A x : x \in Range(s) <=> \E i \in DOMAIN s : x = s[i]
  BY DEF Range
<1> HIDE DEF r
<1>5. Range(r) = Range(s) \cap Own
  BY <1>2, <1>3, <1>4
<1>6. r \in Seq(Own)
  BY <1>3, <1>5, RangeIsIn
<1> QED  BY <1>1, <1>5, <1>6

LEMMA DepsOK ==
  ASSUME scn \in Scenario, NEW g \in Own
  PROVE  Deps(g) \in Seq(Own) /\ Range(Deps(g)) = AllUses(g)
<1> DEFINE n == IF HasInner(g) THEN scn.body[g].nested[1] ELSE <<>>
           refs == n \o scn.body[g].uses
<1>1. n \in Seq(Ref) /\ scn.body[g].uses \in Seq(Ref)
  BY ScenarioOK
<1>2. Range(n) = NestedUses(g)
  BY DEF NestedUses, Range
<1>3. Deps(g) = Reversed(FirstOccurrences(Siblings(refs)))
  BY DEF Deps
<1> HIDE DEF n
<1>4. refs \in Seq(Ref) /\ Range(refs) = NestedUses(g) \cup Range(scn.body[g].uses)
  BY <1>1, <1>2, ConcatRange
<1> HIDE DEF refs
<1>5. Siblings(refs) \in Seq(Own) /\ Range(Siblings(refs)) = Range(refs) \cap Own
  BY <1>4, SiblingsOK
<1> DEFINE s == Siblings(refs)
           f == FirstOccurrences(s)
<1> HIDE DEF s
<1>6. f \in Seq(Own) /\ Range(f) = Range(s)
  BY <1>5, FirstOccurrencesOK DEF s
<1> HIDE DEF f
<1>7. Reversed(f) \in Seq(Own) /\ Range(Reversed(f)) = Range(f)
  BY <1>6, ReversedOK
<1>8. Range(refs) \cap Own = AllUses(g)
  BY <1>4 DEF AllUses, BodyUses
<1> QED  BY <1>3, <1>5, <1>6, <1>7, <1>8 DEF f, s

LEMMA PairsOK ==
  ASSUME scn \in Scenario, NEW g \in Own
  PROVE  PairsOf(g, Deps(g)) \in Seq(Listed \X Listed) /\ Range(PairsOf(g, Deps(g))) = EdgesOf(g)
<1> DEFINE d == Deps(g)
           r == PairsOf(g, d)
<1>1. d \in Seq(Own) /\ Range(d) = AllUses(g)
  BY DepsOK
<1> HIDE DEF d
<1>2. g \in Listed /\ Dummy \in Listed /\ Own \subseteq Listed
  BY DEF Listed
<1>3. DOMAIN d = 1 .. Len(d) /\ Len(d) \in Nat /\ \A x : x \in Range(d) <=> \E i \in 1 .. Len(d) : x = d[i]
  BY <1>1, RangeIsIn
<1>4. CASE d = <<>>
  <2>1. r = <<<<g, Dummy>>>>
    BY <1>4 DEF PairsOf
  <2>2. AllUses(g) = {}
    BY <1>1, <1>4 DEF Range
  <2>3. r \in Seq(Listed \X Listed) /\ DOMAIN r = {1} /\ r[1] = <<g, Dummy>>
    BY <1>2, <2>1
  <2> HIDE DEF r
  <2>4. \A x : x \in Range(r) <=> x = <<g, Dummy>>
    BY <2>3 DEF Range
  <2>5. EdgesOf(g) = {<<g, Dummy>>}
    BY <2>2 DEF EdgesOf
  <2>6. Range(r) = EdgesOf(g)
    BY <2>4, <2>5
  <2> QED  BY <2>3, <2>6 DEF r, d
<1>5. CASE d # <<>>
  <2>1. r = [i \in 1 .. Len(d) |-> <<d[i], g>>]
    BY <1>3, <1>5 DEF PairsOf
  <2>2. Head(d) \in Range(d)
    BY <1>1, <1>5, RangeIsIn
  <2>3. EdgesOf(g) = AllUses(g) \X {g}
    BY <1>1, <2>2 DEF EdgesOf
  <2>4. \A i \in 1 .. Len(d) : d[i] \in Listed
    BY <1>1, <1>2
  <2>5. r \in [1 .. Len(d) -> Listed \X Listed]
    BY <1>2, <2>1, <2>4
  <2>6. r \in Seq(Listed \X Listed) /\ DOMAIN r = 1 .. Len(d) /\ \A i \in 1 .. Len(d) : r[i] = <<d[i], g>>
    BY <1>3, <2>1, <2>5, FunctionIsSeq
  <2> HIDE DEF r
  <2>7. \A x : x \in Range(r) <=> \E i \in 1 .. Len(d) : x = <<d[i], g>>
    BY <2>6 DEF Range
  <2>8. \A x : x \in AllUses(g) \X {g} <=> \E i \in 1 .. Len(d) : x = <<d[i], g>>
    <3>1. \A u : u \in AllUses(g) <=> \E i \in 1 .. Len(d) : u = d[i]
      BY <1>1, <1>3
    <3> QED  BY <3>1
  <2>9. Range(r) = EdgesOf(g)
    BY <2>3, <2>7, <2>8
  <2> QED  BY <2>6, <2>9 DEF r, d
<1> QED  BY <1>4, <1>5

LEMMA EdgesOK ==
  ASSUME scn \in Scenario
  PROVE  /\ \A p \in Edges : p = <<p[1], p[2]>> /\ p[1] \in Own /\ p[2] \in Listed
         /\ \A p \in Edges : p[2] \in Own => p[1] \in AllUses(p[2])
         /\ \A g \in Own : \A u \in AllUses(g) : <<u, g>> \in Edges
         /\ \A g \in Own : \E p \in EdgesOf(g) : g = p[1] \/ g = p[2]
<1>1. Dummy \notin Own
  BY ScenarioOK
<1>2. \A g \in Own : AllUses(g) \subseteq Own
  BY DEF AllUses, BodyUses
<1>3. ASSUME NEW g \in Own, NEW p \in EdgesOf(g)
      PROVE  /\ p = <<p[1], p[2]>> /\ p[1] \in Own /\ p[2] \in Listed
             /\ p[2] \in Own => p[1] \in AllUses(p[2])
  <2>1. p = <<g, Dummy>> \/ \E u \in AllUses(g) : p = <<u, g>>
    BY DEF EdgesOf
  <2>2. CASE p = <<g, Dummy>>
    BY <1>1, <2>2 DEF Listed
  <2>3. ASSUME NEW u \in AllUses(g), p = <<u, g>>
        PROVE  p = <<p[1], p[2]>> /\ p[1] = u /\ p[2] = g /\ u \in Own
    BY <1>2, <2>3
  <2> QED  BY <2>1, <2>2, <2>3 DEF Listed
<1>4. \A g \in Own : \A u \in AllUses(g) : <<u, g>> \in Edges
  <2> SUFFICES ASSUME NEW g \in Own, NEW u \in AllUses(g)
               PROVE  <<u, g>> \in Edges
    OBVIOUS
  <2>1. <<u, g>> \in EdgesOf(g)
    BY DEF EdgesOf
  <2> QED  BY <2>1 DEF Edges
<1>5. \A g \in Own : \E p \in EdgesOf(g) : g = p[1] \/ g = p[2]
  <2> SUFFICES ASSUME NEW g \in Own
               PROVE  \E p \in EdgesOf(g) : g = p[1] \/ g = p[2]
    OBVIOUS
  <2>1. CASE AllUses(g) = {}
    <3>1. <<g, Dummy>> \in EdgesOf(g)
      BY <2>1 DEF EdgesOf
    <3> QED  BY <3>1
  <2>2. CASE AllUses(g) # {}
    <3>1. PICK u : u \in AllUses(g)
      BY <2>2
    <3>2. <<u, g>> \in EdgesOf(g)
      BY <2>2, <3>1 DEF EdgesOf
    <3> QED  BY <3>2
  <2> QED  BY <2>1, <2>2
<1>6. \A p \in Edges : \E g \in Own : p \in EdgesOf(g)
  BY DEF Edges
<1> QED  BY <1>3, <1>4, <1>5, <1>6

-----------------------------------------------------------------------------
(* The types.                                                              *)
LEMMA FieldOK ==
  ASSUME NEW f \in Frame
  PROVE  /\ \A x \in {"nested", "body"} : [f EXCEPT !.part = x] \in Frame
         /\ \A x \in Nat \ {0} : [f EXCEPT !.at = x] \in Frame
         /\ \A x \in SUBSET Grouping : [f EXCEPT !.leaves = x] \in Frame
         /\ \A x \in SUBSET Grouping : [f EXCEPT !.inner = x] \in Frame
BY DEF Frame

LEMMA FieldsOK ==
  ASSUME NEW f \in Frame, NEW at \in Nat \ {0}, NEW l \in SUBSET Grouping, NEW i \in SUBSET Grouping
  PROVE  /\ [[f EXCEPT !.at = at] EXCEPT !.leaves = l] \in Frame
         /\ [f EXCEPT !.part = "body", !.at = at, !.leaves = l, !.inner = i] \in Frame
<1>1. PICK a : a = [f EXCEPT !.at = at]
  OBVIOUS
<1>2. a \in Frame
  BY <1>1, FieldOK
<1>3. [a EXCEPT !.leaves = l] \in Frame
  BY <1>2, FieldOK
<1>4. PICK b : b = [f EXCEPT !.part = "body"]
  OBVIOUS
<1>5. b \in Frame
  BY <1>4, FieldOK
<1>6. PICK c : c = [b EXCEPT !.at = at]
  OBVIOUS
<1>7. c \in Frame
  BY <1>5, <1>6, FieldOK
<1>8. PICK d : d = [c EXCEPT !.leaves = l]
  OBVIOUS
<1>9. d \in Frame
  BY <1>7, <1>8, FieldOK
<1>10. [d EXCEPT !.inner = i] \in Frame
  BY <1>9, FieldOK
<1>11. [[f EXCEPT !.at = at] EXCEPT !.leaves = l] = [a EXCEPT !.leaves = l]
  BY <1>1, Zenon
<1>12. [f EXCEPT !.part = "body", !.at = at, !.leaves = l, !.inner = i] = [d EXCEPT !.inner = i]
  BY <1>4, <1>6, <1>8
<1> QED  BY <1>3, <1>10, <1>11, <1>12

LEMMA AdvancedFields ==
  ASSUME NEW f \in Frame, NEW ls \in SUBSET Grouping, NEW g,
         g = [[f EXCEPT !.at = @ + 1] EXCEPT !.leaves = @ \cup ls]
  PROVE  /\ g \in Frame /\ g.def = f.def /\ g.part = f.part /\ g.at = f.at + 1
         /\ g.leaves = f.leaves \cup ls /\ g.inner = f.inner
<1>1. /\ g.def = f.def /\ g.part = f.part /\ g.at = f.at + 1
      /\ g.leaves = f.leaves \cup ls /\ g.inner = f.inner
  BY DEF Frame
<1>2. /\ f.at + 1 \in Nat \ {0} /\ f.leaves \cup ls \in SUBSET Grouping
      /\ [f EXCEPT !.at = f.at + 1].leaves = f.leaves
  BY DEF Frame
<1>3. PICK x \in Nat \ {0}, l \in SUBSET Grouping : x = f.at + 1 /\ l = f.leaves \cup ls
  BY <1>2
<1>4. [[f EXCEPT !.at = x] EXCEPT !.leaves = l] \in Frame
  BY FieldsOK
<1>5. [[f EXCEPT !.at = x] EXCEPT !.leaves = l] = g
  BY <1>2, <1>3, Zenon
<1>6. g \in Frame
  BY <1>4, <1>5, Zenon
<1> QED  BY <1>1, <1>6

LEMMA BodyFields ==
  ASSUME NEW f \in Frame, NEW ls \in SUBSET Grouping, NEW h,
         h = [f EXCEPT !.part = "body", !.at = 1, !.leaves = {}, !.inner = ls]
  PROVE  /\ h \in Frame /\ h.def = f.def /\ h.part = "body" /\ h.at = 1
         /\ h.leaves = {} /\ h.inner = ls
<1>1. /\ h.def = f.def /\ h.part = "body" /\ h.at = 1
      /\ h.leaves = {} /\ h.inner = ls
  BY DEF Frame
<1>2. PICK one \in Nat \ {0} : one = 1
  OBVIOUS
<1>3. PICK none \in SUBSET Grouping : none = {}
  OBVIOUS
<1>4. [f EXCEPT !.part = "body", !.at = one, !.leaves = none, !.inner = ls] \in Frame
  BY FieldsOK
<1>5. [f EXCEPT !.part = "body", !.at = one, !.leaves = none, !.inner = ls] = h
  BY <1>2, <1>3, Zenon
<1>6. h \in Frame
  BY <1>4, <1>5, Zenon
<1> QED  BY <1>1, <1>6

LEMMA FirstReplaced ==
  ASSUME NEW T, NEW st \in Seq(T), st # <<>>, NEW f \in T, NEW u, u = [st EXCEPT ![1] = f]
  PROVE  /\ u \in Seq(T) /\ Len(u) = Len(st) /\ 1 \in 1 .. Len(st) /\ u[1] = f
         /\ \A i \in 1 .. Len(st) : i > 1 => u[i] = st[i]
<1>1. 1 \in 1 .. Len(st) /\ Len(st) \in Nat
  OBVIOUS
<1>2. /\ u \in Seq(T) /\ Len(u) = Len(st)
      /\ \A j \in 1 .. Len(st) : u[j] = IF j = 1 THEN f ELSE st[j]
  BY <1>1, ExceptSeq
<1> QED  BY <1>1, <1>2

LEMMA FrameStep ==
  ASSUME NEW st \in Seq(Frame), st # <<>>, NEW ls \in SUBSET Grouping
  PROVE  \A u : u = [st EXCEPT ![1].at = @ + 1, ![1].leaves = @ \cup ls] =>
           /\ u \in Seq(Frame) /\ Len(u) = Len(st) /\ 1 \in 1 .. Len(st) /\ st[1] = Head(st)
           /\ u[1].def = st[1].def /\ u[1].part = st[1].part /\ u[1].at = st[1].at + 1
           /\ u[1].leaves = st[1].leaves \cup ls /\ u[1].inner = st[1].inner
           /\ \A i \in 1 .. Len(st) : i > 1 => u[i] = st[i]
<1>1. 1 \in 1 .. Len(st) /\ st[1] \in Frame /\ Len(st) \in Nat /\ st[1] = Head(st)
  OBVIOUS
<1>2. PICK f : f = st[1]
  OBVIOUS
<1>3. f \in Frame
  BY <1>1, <1>2
<1>4. \A g : g = [[f EXCEPT !.at = @ + 1] EXCEPT !.leaves = @ \cup ls] =>
        /\ g \in Frame /\ g.def = f.def /\ g.part = f.part /\ g.at = f.at + 1
        /\ g.leaves = f.leaves \cup ls /\ g.inner = f.inner
  BY <1>3, AdvancedFields
<1>5. \A g \in Frame : \A u : u = [st EXCEPT ![1] = g] =>
        /\ u \in Seq(Frame) /\ Len(u) = Len(st) /\ u[1] = g
        /\ \A i \in 1 .. Len(st) : i > 1 => u[i] = st[i]
  BY FirstReplaced
<1>6. PICK g : g = [[f EXCEPT !.at = @ + 1] EXCEPT !.leaves = @ \cup ls]
  OBVIOUS
<1>7. /\ g \in Frame /\ g.def = f.def /\ g.part = f.part /\ g.at = f.at + 1
      /\ g.leaves = f.leaves \cup ls /\ g.inner = f.inner
  BY <1>4, <1>6, Zenon
<1>8. [st EXCEPT ![1].at = @ + 1, ![1].leaves = @ \cup ls] = [st EXCEPT ![1] = g]
  BY <1>1, <1>2, <1>6
<1>9. PICK v : v = [st EXCEPT ![1] = g]
  OBVIOUS
<1>10. /\ v \in Seq(Frame) /\ Len(v) = Len(st) /\ v[1] = g
       /\ \A i \in 1 .. Len(st) : i > 1 => v[i] = st[i]
  <2>1. g \in Frame
    BY <1>7, Zenon
  <2>2. \A u : u = [st EXCEPT ![1] = g] =>
          /\ u \in Seq(Frame) /\ Len(u) = Len(st) /\ u[1] = g
          /\ \A i \in 1 .. Len(st) : i > 1 => u[i] = st[i]
    BY <1>5, <2>1, Zenon
  <2> QED  BY <1>9, <2>2, Zenon
<1>11. \A u : u = [st EXCEPT ![1].at = @ + 1, ![1].leaves = @ \cup ls] => u = v
  BY <1>8, <1>9, Zenon
<1> QED  BY <1>1, <1>2, <1>7, <1>10, <1>11, Zenon

(* The next `uses' of the innermost call.                                  *)
LEMMA TopOK ==
  ASSUME TypeOK, stack # <<>>
  PROVE  /\ Top \in Frame /\ Top = stack[1] /\ 1 \in 1 .. Len(stack)
         /\ Len(stack) \in Nat /\ DOMAIN stack = 1 .. Len(stack)
BY DEF TypeOK, Top

LEMMA AdvancedOK ==
  ASSUME TypeOK, stack # <<>>, NEW ls \in SUBSET Grouping
  PROVE  Advanced(ls) \in Seq(Frame)
<1>1. stack \in Seq(Frame)
  BY DEF TypeOK
<1> QED  BY <1>1, FrameStep DEF Advanced

LEMMA ReportOK ==
  ASSUME TypeOK, NEW code \in {"DEFINITION_NOT_FOUND", "CIRCULAR_DEPENDENCY", "DUPLICATE_DEFINITION"},
         NEW d \in Ref, NEW part \in {"nested", "body"}, NEW at \in Nat, Report(code, d, part, at)
  PROVE  errors' \in Seq(Error)
<1>1. [code |-> code, def |-> d, part |-> part, at |-> at] \in Error
  BY DEF Error
<1> QED  BY <1>1 DEF Report, TypeOK

LEMMA OpenOK ==
  ASSUME TypeOK, NEW g \in Grouping, Open(g)
  PROVE  /\ stack' \in Seq(Frame) /\ status' \in [Grouping -> {"raw", "processing", "done"}]
         /\ Len(stack') = Len(stack) + 1
         /\ stack'[1].def = g /\ stack'[1].part = (IF HasInner(g) THEN "nested" ELSE "body")
         /\ stack'[1].at = 1 /\ stack'[1].leaves = {} /\ stack'[1].inner = {}
         /\ \A i \in 1 .. Len(stack) : stack'[i + 1] = stack[i]
<1> DEFINE f == [def |-> g, part |-> IF HasInner(g) THEN "nested" ELSE "body",
                 at |-> 1, leaves |-> {}, inner |-> {}]
<1>1. f \in Frame
  BY DEF Frame
<1>2. stack' = <<f>> \o stack /\ status' = [status EXCEPT ![g] = "processing"]
  BY DEF Open
<1>3. stack \in Seq(Frame) /\ status \in [Grouping -> {"raw", "processing", "done"}]
  BY DEF TypeOK
<1>5. /\ f.def = g /\ f.part = (IF HasInner(g) THEN "nested" ELSE "body")
      /\ f.at = 1 /\ f.leaves = {} /\ f.inner = {}
  OBVIOUS
<1> HIDE DEF f
<1>4. /\ stack' \in Seq(Frame) /\ Len(stack') = Len(stack) + 1 /\ stack'[1] = f
      /\ \A i \in 1 .. Len(stack) : stack'[i + 1] = stack[i]
  <2>1. <<f>> \in Seq(Frame) /\ Len(<<f>>) = 1 /\ <<f>>[1] = f
    BY <1>1
  <2>2. \A i \in 1 .. Len(stack) : i + 1 > 1 /\ (i + 1) - 1 = i /\ i + 1 \in 1 .. Len(stack) + 1
    BY <1>3
  <2> QED  BY <1>2, <1>3, <2>1, <2>2
<1> QED  BY <1>2, <1>3, <1>4, <1>5

(* The order that is found.                                                *)
LEMMA OrderFound ==
  ASSUME TypeOK, Sorted, NEW P
  PROVE  /\ todo' \in Seq(Listed) /\ Range(todo') = (Range(sorted) \cup Range(all)) \ {Dummy}
         /\ todo' \in Seq(Own)
         /\ Apart(P, sorted \o Subtract(all, sorted)) => Apart(P, todo')
<1> DEFINE names == sorted \o Subtract(all, sorted)
           order == LastOccurrences(names)
<1>1. todo' = Subtract(order, <<Dummy>>)
  BY DEF Sorted, Ordered
<1>2. sorted \in Seq(Listed) /\ all \in Seq(Listed) /\ scn \in Scenario
  BY DEF TypeOK
<1>3. names \in Seq(Listed) /\ Range(names) = Range(sorted) \cup Range(all)
  <2> DEFINE t == Subtract(all, sorted)
  <2>1. t \in Seq(Listed) /\ Range(t) = Range(all) \ Range(sorted)
    BY <1>2, SubtractOK
  <2> HIDE DEF t
  <2>2. sorted \o t \in Seq(Listed) /\ Range(sorted \o t) = Range(sorted) \cup Range(t)
    BY <1>2, <2>1, ConcatRange
  <2> QED  BY <2>1, <2>2 DEF t
<1> HIDE DEF names
<1>4. /\ order \in Seq(Listed) /\ Range(order) = Range(names)
      /\ Apart(P, names) => Apart(P, order)
  BY <1>3, LastOccurrencesOK
<1> HIDE DEF order
<1>5. /\ todo' \in Seq(Listed) /\ Range(todo') = Range(order) \ Range(<<Dummy>>)
      /\ Apart(P, order) => Apart(P, todo')
  BY <1>1, <1>4, SubtractOK
<1>6. Range(<<Dummy>>) = {Dummy}
  BY DEF Range
<1>7. Range(todo') = (Range(sorted) \cup Range(all)) \ {Dummy}
  BY <1>3, <1>4, <1>5, <1>6
<1>8. Range(todo') \subseteq Own
  <2>1. Range(todo') \subseteq Listed
    BY <1>5, RangeIsIn
  <2> QED  BY <1>7, <2>1 DEF Listed
<1>9. todo' \in Seq(Own)
  BY <1>5, <1>8, RangeIsIn
<1> QED  BY <1>4, <1>5, <1>7, <1>9 DEF names

LEMMA InitTypeOK == Init => TypeOK
<1> SUFFICES ASSUME Init
             PROVE  TypeOK
  OBVIOUS
<1>1. scn \in Scenario /\ todo \in Seq(Own)
  BY ScenarioOK DEF Init
<1>2. Known \subseteq Grouping
  BY <1>1, ScenarioOK
<1> QED  BY <1>1, <1>2 DEF Init, TypeOK, Known

(* What is in scope is a call on the stack.                                *)
LEMMA OuterInner ==
  ASSUME TypeOK, UsesOuter
  PROVE  \E ls \in SUBSET Grouping : stack' = Advanced(ls)
<1>1. PICK i \in InScope(2) : stack' = Advanced(stack[i].inner)
  BY DEF UsesOuter
<1>2. i \in 2 .. Len(stack) /\ stack \in Seq(Frame)
  BY DEF InScope, TypeOK
<1>3. stack[i] \in Frame
  BY <1>2
<1>4. stack[i].inner \in SUBSET Grouping
  BY <1>3 DEF Frame
<1> QED  BY <1>1, <1>4

LEMMA TypeStep ==
  ASSUME TypeOK, [Next]_vars
  PROVE  TypeOK'
<1>1. scn' = scn /\ scn \in Scenario
  BY DEF TypeOK, vars, Next, CollectDeps, SortPairs, Round, Cycle, Sorted, Ordered, Start, StartDone,
         UsesMissing, UsesInner, UsesOuter, UsesFromNested, UsesRaw, UsesDone, UsesCircular,
         CloseNested, Close, Finish, Terminated
<1>2. Own' = Own /\ Listed' = Listed /\ Known' = Known
  BY <1>1 DEF Own, Listed, Known
<1>3. /\ Own \subseteq Grouping /\ Known \subseteq Grouping /\ scn.own \in Seq(Own)
      /\ Own \subseteq Listed /\ Grouping \subseteq Ref /\ Inner \in Ref
  BY <1>1, ScenarioOK DEF Listed, Ref
<1>4. /\ todo \in Seq(Own) /\ pairs \in Seq(Listed \X Listed) /\ sorted \in Seq(Listed)
      /\ all \in Seq(Listed) /\ stack \in Seq(Frame) /\ errors \in Seq(Error)
      /\ status \in [Grouping -> {"raw", "processing", "done"}]
      /\ leaves \in [Grouping -> SUBSET Grouping] /\ copy \in [Grouping -> SUBSET Grouping]
      /\ phase \in {"pairs", "sort", "running", "done"}
  BY DEF TypeOK
<1>5. todo # <<>> => Head(todo) \in Own /\ Tail(todo) \in Seq(Own)
  BY <1>4
<1>6. stack # <<>> => Top \in Frame /\ Tail(stack) \in Seq(Frame)
  BY <1>4, TopOK
<1>7. UNCHANGED vars => TypeOK'
  BY <1>1, <1>2, <1>4 DEF vars, sorting, TypeOK
<1>8. ASSUME CollectDeps PROVE TypeOK'
  <2> DEFINE p == PairsOf(Head(todo), Deps(Head(todo)))
  <2>1. p \in Seq(Listed \X Listed)
    BY <1>1, <1>5, <1>8, PairsOK DEF CollectDeps
  <2>2. pairs' = p \o pairs
    BY <1>8 DEF CollectDeps
  <2> HIDE DEF p
  <2>3. pairs' \in Seq(Listed \X Listed)
    BY <1>4, <2>1, <2>2
  <2> QED  BY <1>1, <1>2, <1>4, <1>5, <1>8, <2>3 DEF CollectDeps, TypeOK
<1>9. ASSUME SortPairs PROVE TypeOK'
  <2>1. Lhs(pairs) \in Seq(Listed) /\ Rhs(pairs) \in Seq(Listed)
    BY <1>4, LhsRhs
  <2>2. all' \in Seq(Listed)
    BY <1>9, <2>1 DEF SortPairs, All
  <2> QED  BY <1>1, <1>2, <1>4, <1>9, <2>2 DEF SortPairs, TypeOK
<1>10. ASSUME Round PROVE TypeOK'
  <2>1. Lhs(pairs) \in Seq(Listed) /\ Left(pairs) \in Seq(Listed \X Listed)
    BY <1>4, LhsRhs, LeftOK
  <2>2. Taken(pairs) \in Seq(Listed)
    BY <2>1, SubtractOK DEF Taken
  <2>3. sorted' \in Seq(Listed) /\ pairs' \in Seq(Listed \X Listed)
    BY <1>4, <1>10, <2>1, <2>2 DEF Round
  <2> QED  BY <1>1, <1>2, <1>4, <1>10, <2>3 DEF Round, TypeOK
<1>11. ASSUME Cycle PROVE TypeOK'
  <2>1. todo' \in Seq(Own)
    BY <1>3, <1>11, ReversedOK DEF Cycle, Ordered
  <2> QED  BY <1>1, <1>2, <1>4, <1>11, <2>1 DEF Cycle, Ordered, TypeOK
<1>12. ASSUME Sorted PROVE TypeOK'
  <2>1. todo' \in Seq(Own)
    BY <1>12, OrderFound
  <2> QED  BY <1>1, <1>2, <1>4, <1>12, <2>1 DEF Sorted, Ordered, TypeOK
<1>13. ASSUME Start PROVE TypeOK'
  <2>1. Head(todo) \in Grouping /\ Tail(todo) \in Seq(Own) /\ Open(Head(todo))
    BY <1>3, <1>5, <1>13 DEF Start, Running
  <2>2. stack' \in Seq(Frame) /\ status' \in [Grouping -> {"raw", "processing", "done"}]
    BY <2>1, OpenOK
  <2> QED  BY <1>1, <1>2, <1>4, <1>13, <2>1, <2>2 DEF Start, sorting, TypeOK
<1>14. ASSUME StartDone PROVE TypeOK'
  BY <1>1, <1>2, <1>4, <1>5, <1>14 DEF StartDone, Running, sorting, TypeOK
<1>15. ASSUME UsesMissing PROVE TypeOK'
  <2>1. Top.def \in Ref /\ Top.part \in {"nested", "body"} /\ Top.at \in Nat
    BY <1>3, <1>6, <1>15 DEF UsesMissing, Following, Frame
  <2>2. Report("DEFINITION_NOT_FOUND", Top.def, Top.part, Top.at)
    BY <1>15 DEF UsesMissing
  <2>3. errors' \in Seq(Error)
    BY <2>1, <2>2, ReportOK
  <2>4. stack' \in Seq(Frame)
    BY <1>15, AdvancedOK DEF UsesMissing, Following
  <2> QED  BY <1>1, <1>2, <1>4, <1>15, <2>3, <2>4 DEF UsesMissing, sorting, TypeOK
<1>16. ASSUME UsesInner PROVE TypeOK'
  <2>1. errors' \in Seq(Error)
    <3>1. CASE Report("CIRCULAR_DEPENDENCY", Inner, "body", 0)
      BY <1>3, <3>1, ReportOK
    <3> QED  BY <1>4, <1>16, <3>1 DEF UsesInner
  <2>2. Top.inner \in SUBSET Grouping
    BY <1>6, <1>16 DEF UsesInner, Following, Frame
  <2>3. stack' \in Seq(Frame)
    BY <1>16, <2>2, AdvancedOK DEF UsesInner, Following
  <2> QED  BY <1>1, <1>2, <1>4, <1>16, <2>1, <2>3 DEF UsesInner, sorting, TypeOK
<1>17. ASSUME UsesFromNested PROVE TypeOK'
  <2>1. copy[Used] \in SUBSET Grouping
    BY <1>3, <1>4, <1>17 DEF UsesFromNested
  <2>2. stack' \in Seq(Frame)
    BY <1>17, <2>1, AdvancedOK DEF UsesFromNested, Following
  <2> QED  BY <1>1, <1>2, <1>4, <1>17, <2>2 DEF UsesFromNested, sorting, TypeOK
<1>18. ASSUME UsesRaw PROVE TypeOK'
  <2>1. Used \in Grouping /\ Open(Used)
    BY <1>3, <1>18 DEF UsesRaw
  <2>2. stack' \in Seq(Frame) /\ status' \in [Grouping -> {"raw", "processing", "done"}]
    BY <2>1, OpenOK
  <2>3. errors' \in Seq(Error)
    <3>1. CASE Report("DUPLICATE_DEFINITION", Used, "nested", 0)
      BY <1>3, <2>1, <3>1, ReportOK
    <3> QED  BY <1>4, <1>18, <3>1 DEF UsesRaw
  <2> QED  BY <1>1, <1>2, <1>4, <1>18, <2>2, <2>3 DEF UsesRaw, sorting, TypeOK
<1>19. ASSUME UsesDone PROVE TypeOK'
  <2>1. leaves[Used] \in SUBSET Grouping
    BY <1>3, <1>4, <1>19 DEF UsesDone
  <2>2. stack' \in Seq(Frame)
    BY <1>19, <2>1, AdvancedOK DEF UsesDone, Following
  <2> QED  BY <1>1, <1>2, <1>4, <1>19, <2>2 DEF UsesDone, sorting, TypeOK
<1>20. ASSUME UsesCircular PROVE TypeOK'
  <2>1. Used \in Ref /\ Report("CIRCULAR_DEPENDENCY", Used, "body", 0)
    BY <1>3, <1>20 DEF UsesCircular
  <2>2. errors' \in Seq(Error)
    BY <2>1, ReportOK
  <2>3. stack' \in Seq(Frame)
    BY <1>20, AdvancedOK DEF UsesCircular, Following
  <2> QED  BY <1>1, <1>2, <1>4, <1>20, <2>2, <2>3 DEF UsesCircular, sorting, TypeOK
<1>21. ASSUME CloseNested PROVE TypeOK'
  <2>2. PICK f : f = [Top EXCEPT !.part = "body", !.at = 1, !.leaves = {}, !.inner = Top.leaves]
    OBVIOUS
  <2>1. Top \in Frame /\ 1 \in 1 .. Len(stack) /\ Top = stack[1]
    BY <1>21, TopOK DEF CloseNested, Exhausted
  <2>3. f \in Frame
    <3>1. Top.leaves \in SUBSET Grouping
      BY <2>1 DEF Frame
    <3> QED  BY <2>1, <2>2, <3>1, BodyFields, Zenon
  <2>4. stack' = [stack EXCEPT ![1] = f] /\ stack # <<>>
    BY <1>21, <2>1, <2>2 DEF CloseNested, Exhausted
  <2>5. stack' \in Seq(Frame)
    BY <1>4, <2>3, <2>4, FirstReplaced
  <2> QED  BY <1>1, <1>2, <1>4, <1>21, <2>5 DEF CloseNested, sorting, TypeOK
<1>22. ASSUME Close PROVE TypeOK'
  <2>1. Top \in Frame /\ Tail(stack) \in Seq(Frame)
    BY <1>6, <1>22 DEF Close, Exhausted
  <2>2. leaves' \in [Grouping -> SUBSET Grouping] /\ status' \in [Grouping -> {"raw", "processing", "done"}]
    BY <1>4, <1>22, <2>1 DEF Close, Frame
  <2> QED  BY <1>1, <1>2, <1>4, <1>22, <2>1, <2>2 DEF Close, sorting, TypeOK
<1>23. ASSUME Finish PROVE TypeOK'
  BY <1>1, <1>2, <1>4, <1>23 DEF Finish, sorting, TypeOK
<1>24. ASSUME UsesOuter PROVE TypeOK'
  <2>1. PICK ls \in SUBSET Grouping : stack' = Advanced(ls)
    BY <1>24, OuterInner
  <2>2. stack' \in Seq(Frame)
    BY <1>24, <2>1, AdvancedOK DEF UsesOuter, Following
  <2> QED  BY <1>1, <1>2, <1>4, <1>24, <2>2 DEF UsesOuter, sorting, TypeOK
<1> QED  BY <1>7, <1>8, <1>9, <1>10, <1>11, <1>12, <1>13, <1>14, <1>15, <1>16, <1>17, <1>18,
           <1>19, <1>20, <1>21, <1>22, <1>23, <1>24 DEF Next, Terminated

-----------------------------------------------------------------------------
(* The order.                                                              *)
LEMMA InitSortInv == Init => SortInv
<1> SUFFICES ASSUME Init
             PROVE  SortInv
  OBVIOUS
<1>1. scn \in Scenario /\ Own \subseteq Grouping /\ scn.given \cap Own = {}
  BY ScenarioOK DEF Init
<1>2. \A g \in Own : status[g] = "raw"
  BY <1>1 DEF Init
<1>3. Range(pairs) = {} /\ Range(todo) = Own
  BY DEF Init, Range, Own
<1> QED  BY <1>2, <1>3 DEF Init, SortInv

(* The left-hand sides of what is left when a round takes nothing.         *)
LEMMA CycleFound ==
  ASSUME TypeOK, SortInv, Cycle
  PROVE  Circle(InAnyStatement)
<1>1. pairs \in Seq(Listed \X Listed) /\ pairs # <<>> /\ scn \in Scenario /\ Taken(pairs) = <<>>
  BY DEF TypeOK, Cycle
<1>2. \A p \in Range(pairs) : p \in Edges
  BY DEF SortInv, Cycle
<1>3. /\ Lhs(pairs) \in Seq(Listed)
      /\ \A x : x \in Range(Lhs(pairs)) <=> \E p \in Range(pairs) : x = p[1]
      /\ \A x : x \in Range(Rhs(pairs)) <=> \E p \in Range(pairs) : x = p[2]
  <2>1. sorted \in Seq(Listed) /\ pairs \in Seq(Listed \X Listed)
    BY DEF TypeOK
  <2> QED  BY <2>1, LhsRhs
<1>5. Range(Lhs(pairs)) \subseteq Range(Rhs(pairs))
  <2>1. Range(Taken(pairs)) = Range(Lhs(pairs)) \ Range(Rhs(pairs))
    BY <1>3, SubtractOK DEF Taken
  <2>2. Range(<<>>) = {}
    BY DEF Range
  <2> QED  BY <1>1, <2>1, <2>2
<1>6. Head(pairs) \in Range(pairs)
  BY <1>1, RangeIsIn
<1> DEFINE S == {p[1] : p \in Range(pairs)}
<1>7. \A x : x \in S <=> \E p \in Range(pairs) : x = p[1]
  OBVIOUS
<1> HIDE DEF S
<1>8. S \subseteq Own /\ S # {}
  BY <1>1, <1>2, <1>6, <1>7, EdgesOK
<1>9. ASSUME NEW g \in S PROVE AllUses(g) \cap S # {}
  <2>1. PICK q \in Range(pairs) : g = q[2]
    BY <1>3, <1>5, <1>7
  <2>2. q[1] \in AllUses(g) /\ q[1] \in S
    BY <1>1, <1>2, <1>7, <1>8, <2>1, EdgesOK
  <2> QED  BY <2>2
<1>10. \A g \in S : InAnyStatement[g] \cap S # {}
  BY <1>8, <1>9 DEF InAnyStatement
<1> QED  BY <1>8, <1>10 DEF Circle

LEMMA SortedApart ==
  ASSUME TypeOK, SortInv, Sorted
  PROVE  Range(todo') = Own /\ Apart(Edges, todo')
<1> DEFINE t == Subtract(all, sorted)
<1>1. sorted \in Seq(Listed) /\ all \in Seq(Listed) /\ scn \in Scenario /\ Dummy \notin Own
  BY ScenarioOK DEF TypeOK
<1>2. /\ Own \subseteq Range(all) /\ Apart(Edges, sorted)
      /\ \A p \in Edges : p \in Range(pairs) \/ p[1] \in Range(sorted)
  BY DEF SortInv, Sorted
<1>3. Range(pairs) = {}
  BY DEF Sorted, Range
<1>4. t \in Seq(Listed) /\ Range(t) = Range(all) \ Range(sorted)
  BY <1>1, SubtractOK
<1> HIDE DEF t
<1>5. \A p \in Edges : p[1] \notin Range(t)
  BY <1>2, <1>3, <1>4
<1>6. \A x \in Range(t) : \A y : <<x, y>> \notin Edges
  <2> SUFFICES ASSUME NEW x \in Range(t), NEW y, <<x, y>> \in Edges
               PROVE  FALSE
    OBVIOUS
  <2>1. <<x, y>>[1] = x
    OBVIOUS
  <2> QED  BY <1>5, <2>1
<1>7. Apart(Edges, t)
  <2> SUFFICES ASSUME NEW i \in DOMAIN t, NEW j \in DOMAIN t
               PROVE  <<t[j], t[i]>> \notin Edges
    BY DEF Apart
  <2>1. t[j] \in Range(t)
    BY DEF Range
  <2> QED  BY <1>6, <2>1
<1>8. Apart(Edges, sorted \o t)
  BY <1>1, <1>2, <1>4, <1>6, <1>7, ConcatApart
<1>9. /\ Range(todo') = (Range(sorted) \cup Range(all)) \ {Dummy}
      /\ todo' \in Seq(Own) /\ Apart(Edges, todo')
  BY <1>8, OrderFound DEF t
<1>10. Range(todo') \subseteq Own
  BY <1>9, RangeIsIn
<1> QED  BY <1>1, <1>2, <1>9, <1>10

LEMMA RoundSortInv ==
  ASSUME TypeOK, SortInv, Round
  PROVE  /\ \A p \in Edges : p \in Range(pairs') \/ p[1] \in Range(sorted')
         /\ \A p \in Range(pairs') :
              p \in Edges /\ p[1] \notin Range(sorted') /\ p[2] \notin Range(sorted')
         /\ Apart(Edges, sorted')
<1> DEFINE t == Taken(pairs)
<1>1. sorted \in Seq(Listed) /\ pairs \in Seq(Listed \X Listed)
  BY DEF TypeOK
<1>2. /\ \A p \in Edges : p \in Range(pairs) \/ p[1] \in Range(sorted)
      /\ \A p \in Range(pairs) :
           p \in Edges /\ p[1] \notin Range(sorted) /\ p[2] \notin Range(sorted)
      /\ Apart(Edges, sorted)
  BY DEF SortInv, Round
<1>3. /\ Lhs(pairs) \in Seq(Listed)
      /\ \A x : x \in Range(Lhs(pairs)) <=> \E p \in Range(pairs) : x = p[1]
      /\ \A x : x \in Range(Rhs(pairs)) <=> \E p \in Range(pairs) : x = p[2]
  BY <1>1, LhsRhs
<1>4. t \in Seq(Listed) /\ Range(t) = Range(Lhs(pairs)) \ Range(Rhs(pairs))
  BY <1>3, SubtractOK DEF Taken
<1>5. \A p : p \in Range(Left(pairs)) <=> p \in Range(pairs) /\ p[1] \in Range(Rhs(pairs))
  BY <1>1, LeftOK
<1>6. sorted' = sorted \o t /\ pairs' = Left(pairs)
  BY DEF Round
<1> HIDE DEF t
<1>7. Range(sorted') = Range(sorted) \cup Range(t)
  BY <1>1, <1>4, <1>6, ConcatRange
<1>8. \A p \in Edges : p \in Range(pairs') \/ p[1] \in Range(sorted')
  <2> SUFFICES ASSUME NEW p \in Edges, p \in Range(pairs)
               PROVE  p \in Range(pairs') \/ p[1] \in Range(sorted')
    BY <1>2, <1>7
  <2>1. p[1] \in Range(Lhs(pairs))
    BY <1>3
  <2> QED  BY <1>4, <1>5, <1>6, <1>7, <2>1
<1>9. \A p \in Range(pairs') :
        p \in Edges /\ p[1] \notin Range(sorted') /\ p[2] \notin Range(sorted')
  <2> SUFFICES ASSUME NEW p \in Range(pairs')
               PROVE  p \in Edges /\ p[1] \notin Range(sorted') /\ p[2] \notin Range(sorted')
    OBVIOUS
  <2>1. p \in Range(pairs) /\ p[1] \in Range(Rhs(pairs))
    BY <1>5, <1>6
  <2>2. p[2] \in Range(Rhs(pairs))
    BY <1>3, <2>1
  <2> QED  BY <1>2, <1>4, <1>7, <2>1, <2>2
<1>10. ASSUME NEW x \in Range(sorted'), NEW y \in Range(t), <<y, x>> \in Edges
       PROVE  FALSE
  <2>1. PICK p : p = <<y, x>>
    OBVIOUS
  <2>2. p[1] = y /\ p[2] = x /\ p \in Edges
    BY <1>10, <2>1
  <2>3. PICK q \in Range(pairs) : y = q[1]
    BY <1>3, <1>4
  <2>4. y \notin Range(sorted)
    BY <1>2, <2>3
  <2>5. p \in Range(pairs)
    BY <1>2, <2>2, <2>4
  <2>6. x \in Range(Rhs(pairs)) /\ x \notin Range(sorted)
    BY <1>2, <1>3, <2>2, <2>5
  <2> QED  BY <1>4, <1>7, <2>6
<1>11. Apart(Edges, t)
  <2> SUFFICES ASSUME NEW i \in DOMAIN t, NEW j \in DOMAIN t
               PROVE  <<t[j], t[i]>> \notin Edges
    BY DEF Apart
  <2>1. t[j] \in Range(t) /\ t[i] \in Range(t)
    BY DEF Range
  <2> QED  BY <1>7, <1>10, <2>1
<1>12. Apart(Edges, sorted')
  <2>1. \A x \in Range(sorted), y \in Range(t) : <<y, x>> \notin Edges
    BY <1>7, <1>10
  <2> QED  BY <1>1, <1>2, <1>4, <1>6, <1>11, <2>1, ConcatApart
<1> QED  BY <1>8, <1>9, <1>12

LEMMA SameScenario ==
  ASSUME [Next]_vars
  PROVE  /\ scn' = scn /\ Own' = Own /\ Known' = Known /\ Edges' = Edges
         /\ \A g : /\ EdgesOf(g)' = EdgesOf(g) /\ AllUses(g)' = AllUses(g)
                   /\ BodyUses(g)' = BodyUses(g) /\ NestedUses(g)' = NestedUses(g)
                   /\ Needs(g)' = Needs(g) /\ HasInner(g)' = HasInner(g)
         /\ Circle(InAnyStatement)' = Circle(InAnyStatement)
         /\ Circle(InOwnStatements)' = Circle(InOwnStatements)
         /\ SelfNested' = SelfNested
<1>1. scn' = scn
  BY DEF vars, Next, CollectDeps, SortPairs, Round, Cycle, Sorted, Ordered, Start, StartDone,
         UsesMissing, UsesInner, UsesOuter, UsesFromNested, UsesRaw, UsesDone, UsesCircular,
         CloseNested, Close, Finish, Terminated
<1>2. Own' = Own /\ Known' = Known
  BY <1>1 DEF Own, Known
<1>3. \A g : BodyUses(g)' = BodyUses(g) /\ NestedUses(g)' = NestedUses(g) /\ HasInner(g)' = HasInner(g)
  BY <1>1, <1>2 DEF BodyUses, NestedUses, HasInner
<1>4. \A g : AllUses(g)' = AllUses(g) /\ Needs(g)' = Needs(g)
  BY <1>1, <1>2, <1>3 DEF AllUses, Needs
<1>5. \A g : EdgesOf(g)' = EdgesOf(g)
  BY <1>4 DEF EdgesOf
<1>6. Edges' = Edges
  BY <1>2, <1>5 DEF Edges
<1>7. Circle(InAnyStatement)' = Circle(InAnyStatement)
  BY <1>2, <1>4 DEF Circle, InAnyStatement
<1>8. Circle(InOwnStatements)' = Circle(InOwnStatements)
  BY <1>2, <1>3 DEF Circle, InOwnStatements
<1>9. SelfNested' = SelfNested
  BY <1>2, <1>3 DEF SelfNested
<1> QED  BY <1>1, <1>2, <1>3, <1>4, <1>5, <1>6, <1>7, <1>8, <1>9

LEMMA SortStep ==
  ASSUME TypeOK, SortInv, [Next]_vars
  PROVE  SortInv'
<1>1. /\ scn' = scn /\ scn \in Scenario /\ Own' = Own /\ Edges' = Edges
      /\ \A g : EdgesOf(g)' = EdgesOf(g)
  BY SameScenario DEF TypeOK
<1>2. todo \in Seq(Own) /\ pairs \in Seq(Listed \X Listed)
  BY DEF TypeOK
<1>3. UNCHANGED vars => SortInv'
  BY <1>1 DEF vars, sorting, SortInv
<1>4. ASSUME CollectDeps PROVE SortInv'
  <2> DEFINE h == Head(todo)
             p == PairsOf(h, Deps(h))
  <2>1. todo # <<>> /\ pairs' = p \o pairs /\ todo' = Tail(todo) /\ phase = "pairs"
    BY <1>4 DEF CollectDeps
  <2>2. h \in Own /\ Range(todo) = {h} \cup Range(Tail(todo))
    BY <1>2, <2>1, RangeIsIn
  <2> HIDE DEF h
  <2>3. p \in Seq(Listed \X Listed) /\ Range(p) = EdgesOf(h)
    BY <1>1, <2>2, PairsOK
  <2> HIDE DEF p
  <2>4. Range(pairs') = EdgesOf(h) \cup Range(pairs)
    BY <1>2, <2>1, <2>3, ConcatRange
  <2>5. /\ stack = <<>> /\ errors = <<>> /\ \A g \in Own : status[g] = "raw"
        /\ sorted = <<>> /\ Range(pairs) \subseteq Edges
        /\ \A g \in Own : g \in Range(todo) \/ EdgesOf(g) \subseteq Range(pairs)
    BY <2>1 DEF SortInv
  <2>6. EdgesOf(h) \subseteq Edges
    BY <2>2 DEF Edges
  <2>7. Range(pairs') \subseteq Edges
    BY <2>4, <2>5, <2>6
  <2>8. \A g \in Own : g \in Range(todo') \/ EdgesOf(g) \subseteq Range(pairs')
    BY <2>1, <2>2, <2>4, <2>5
  <2>9. phase' = "pairs" /\ UNCHANGED <<sorted, status, stack, errors>>
    BY <1>4, <2>1 DEF CollectDeps
  <2> QED  BY <1>1, <2>5, <2>7, <2>8, <2>9 DEF SortInv
<1>5. ASSUME SortPairs PROVE SortInv'
  <2>1. /\ phase = "pairs" /\ phase' = "sort" /\ todo = <<>> /\ all' = Lhs(pairs) \o Rhs(pairs)
        /\ UNCHANGED <<pairs, sorted, status, stack, errors>>
    BY <1>5 DEF SortPairs, All
  <2>2. /\ stack = <<>> /\ errors = <<>> /\ \A g \in Own : status[g] = "raw"
        /\ sorted = <<>> /\ Range(pairs) \subseteq Edges
        /\ \A g \in Own : g \in Range(todo) \/ EdgesOf(g) \subseteq Range(pairs)
    BY <2>1 DEF SortInv
  <2>3. \A g \in Own : EdgesOf(g) \subseteq Range(pairs)
    <3>1. Range(todo) = {}
      BY <2>1 DEF Range
    <3> QED  BY <2>2, <3>1
  <2>4. /\ Lhs(pairs) \in Seq(Listed) /\ Rhs(pairs) \in Seq(Listed)
        /\ \A x : x \in Range(Lhs(pairs)) <=> \E p \in Range(pairs) : x = p[1]
        /\ \A x : x \in Range(Rhs(pairs)) <=> \E p \in Range(pairs) : x = p[2]
    BY <1>2, LhsRhs
  <2>5. Range(all') = Range(Lhs(pairs)) \cup Range(Rhs(pairs))
    BY <2>1, <2>4, ConcatRange
  <2>6. Own \subseteq Range(all')
    <3> SUFFICES ASSUME NEW g \in Own
                 PROVE  g \in Range(all')
      OBVIOUS
    <3>1. PICK p \in EdgesOf(g) : g = p[1] \/ g = p[2]
      BY <1>1, EdgesOK
    <3>2. p \in Range(pairs)
      BY <2>3
    <3> QED  BY <2>4, <2>5, <3>1, <3>2
  <2>7. Edges \subseteq Range(pairs)
    BY <2>3 DEF Edges
  <2>8. Range(sorted) = {} /\ Apart(Edges, sorted)
    BY <2>2 DEF Range, Apart
  <2> QED  BY <1>1, <2>1, <2>2, <2>6, <2>7, <2>8 DEF SortInv
<1>6. ASSUME Round PROVE SortInv'
  <2>1. /\ \A p \in Edges : p \in Range(pairs') \/ p[1] \in Range(sorted')
        /\ \A p \in Range(pairs') :
              p \in Edges /\ p[1] \notin Range(sorted') /\ p[2] \notin Range(sorted')
        /\ Apart(Edges, sorted')
    BY <1>6, RoundSortInv
  <2>2. phase = "sort" /\ phase' = "sort" /\ UNCHANGED <<all, status, stack, errors>>
    BY <1>6 DEF Round
  <2>3. stack = <<>> /\ errors = <<>> /\ (\A g \in Own : status[g] = "raw") /\ Own \subseteq Range(all)
    BY <2>2 DEF SortInv
  <2> QED  BY <1>1, <2>1, <2>2, <2>3 DEF SortInv
<1>7. phase' \in {"running", "done"} => SortInv'
  BY DEF SortInv
<1>8. Cycle \/ Sorted \/ Start \/ StartDone \/ UsesMissing \/ UsesInner \/ UsesOuter \/ UsesFromNested
        \/ UsesRaw \/ UsesDone \/ UsesCircular \/ CloseNested \/ Close \/ Finish
        => phase' \in {"running", "done"}
  BY DEF Cycle, Sorted, Ordered, Start, StartDone, Running, UsesMissing, UsesInner, UsesOuter, UsesFromNested,
         UsesRaw, UsesDone, UsesCircular, Following, CloseNested, Close, Exhausted, Finish
<1> QED  BY <1>3, <1>4, <1>5, <1>6, <1>7, <1>8 DEF Next, Terminated

-----------------------------------------------------------------------------
(* The calls.                                                              *)
LEMMA CallsKept ==
  ASSUME NEW s \in Seq(Frame), NEW t \in Seq(Frame), Len(t) = Len(s),
         \A i \in 1 .. Len(s) : /\ t[i].def = s[i].def /\ t[i].part \in {s[i].part, "body"}
                                /\ i > 1 => t[i] = s[i],
         CallsOK(s)
  PROVE  /\ CallsOK(t)
         /\ \A g : (\E i \in DOMAIN s : s[i].def = g) <=> \E i \in DOMAIN t : t[i].def = g
<1>1. DOMAIN s = 1 .. Len(s) /\ DOMAIN t = 1 .. Len(s) /\ Len(s) \in Nat
  OBVIOUS
<1>2. /\ \A i \in 1 .. Len(s) :
           /\ s[i].def \in Own /\ (s[i].part = "nested" => HasInner(s[i].def))
           /\ i > 1 => /\ s[i].part = "body" /\ s[i].at <= Len(scn.body[s[i].def].uses)
                       /\ scn.body[s[i].def].uses[s[i].at] = s[i - 1].def
      /\ \A i, j \in 1 .. Len(s) : s[i].def = s[j].def => i = j
  BY <1>1 DEF CallsOK
<1>3. \A i \in 1 .. Len(s) : t[i].def \in Own /\ (t[i].part = "nested" => HasInner(t[i].def))
  <2> SUFFICES ASSUME NEW i \in 1 .. Len(s)
               PROVE  t[i].def \in Own /\ (t[i].part = "nested" => HasInner(t[i].def))
    OBVIOUS
  <2>1. t[i].def = s[i].def /\ (t[i].part = s[i].part \/ t[i].part = "body")
    OBVIOUS
  <2>2. t[i].part = "nested" => s[i].part = "nested"
    BY <2>1
  <2>3. s[i].def \in Own /\ (s[i].part = "nested" => HasInner(s[i].def))
    BY <1>2
  <2> QED  BY <2>1, <2>2, <2>3
<1>4. ASSUME NEW i \in 1 .. Len(s), i > 1
      PROVE  /\ t[i].part = "body" /\ t[i].at <= Len(scn.body[t[i].def].uses)
             /\ scn.body[t[i].def].uses[t[i].at] = t[i - 1].def
  <2>1. t[i] = s[i] /\ i - 1 \in 1 .. Len(s)
    BY <1>1, <1>4
  <2>2. t[i - 1].def = s[i - 1].def
    BY <2>1
  <2> QED  BY <1>2, <1>4, <2>1, <2>2
<1>5. \A i, j \in 1 .. Len(s) : t[i].def = t[j].def => i = j
  BY <1>2
<1>6. CallsOK(t)
  BY <1>1, <1>3, <1>4, <1>5 DEF CallsOK
<1> QED  BY <1>1, <1>6

LEMMA CallsPrimed ==
  ASSUME [Next]_vars, NEW t, t = stack', CallsOK(t)
  PROVE  CallsOK(stack)'
<1>1. scn' = scn /\ Own' = Own
  BY SameScenario
<1> QED  BY <1>1 DEF CallsOK, HasInner

(* The steps that move on to the next `uses'.                              *)
Moves == UsesMissing \/ UsesInner \/ UsesOuter \/ UsesFromNested \/ UsesDone \/ UsesCircular

LEMMA MovesOK ==
  ASSUME TypeOK, Moves
  PROVE  /\ phase = "running" /\ stack # <<>> /\ Top.at <= Len(Stmts(Top))
         /\ UNCHANGED <<scn, pairs, sorted, all, todo, status, leaves, copy, phase>>
         /\ stack' \in Seq(Frame) /\ Len(stack') = Len(stack) /\ 1 \in 1 .. Len(stack)
         /\ stack[1] = Top
         /\ stack'[1].def = Top.def /\ stack'[1].part = Top.part /\ stack'[1].at = Top.at + 1
         /\ stack'[1].inner = Top.inner
         /\ \A i \in 1 .. Len(stack) : i > 1 => stack'[i] = stack[i]
         /\ \A ls \in SUBSET Grouping :
              stack' = Advanced(ls) => stack'[1].leaves = Top.leaves \cup ls
<1>1. /\ phase = "running" /\ stack # <<>> /\ Top.at <= Len(Stmts(Top))
      /\ UNCHANGED <<scn, pairs, sorted, all, todo, status, leaves, copy, phase>>
  BY DEF Moves, UsesMissing, UsesInner, UsesOuter, UsesFromNested, UsesDone, UsesCircular, Following,
         sorting
<1>2. \E ls \in SUBSET Grouping : stack' = Advanced(ls)
  <2>1. Top \in Frame /\ leaves \in [Grouping -> SUBSET Grouping]
        /\ copy \in [Grouping -> SUBSET Grouping] /\ Known \subseteq Grouping
    BY <1>1, TopOK, ScenarioOK DEF TypeOK
  <2>2. CASE UsesMissing \/ UsesCircular
    BY <2>2 DEF UsesMissing, UsesCircular
  <2>3. CASE UsesInner
    <3>1. stack' = Advanced({}) \/ stack' = Advanced(Top.inner)
      BY <2>3 DEF UsesInner
    <3>2. Top.inner \in SUBSET Grouping
      BY <2>1 DEF Frame
    <3> QED  BY <3>1, <3>2
  <2>4. CASE UsesFromNested
    <3>1. Used \in Grouping /\ stack' = Advanced(copy[Used])
      BY <2>1, <2>4 DEF UsesFromNested
    <3> QED  BY <2>1, <3>1
  <2>5. CASE UsesDone
    <3>1. Used \in Grouping /\ stack' = Advanced(leaves[Used])
      BY <2>1, <2>5 DEF UsesDone
    <3> QED  BY <2>1, <3>1
  <2>6. CASE UsesOuter
    BY <2>6, OuterInner
  <2> QED  BY <2>2, <2>3, <2>4, <2>5, <2>6 DEF Moves
<1>3. stack \in Seq(Frame)
  BY DEF TypeOK
<1>4. ASSUME NEW ls \in SUBSET Grouping, stack' = Advanced(ls)
      PROVE  /\ stack' \in Seq(Frame) /\ Len(stack') = Len(stack) /\ 1 \in 1 .. Len(stack)
             /\ stack[1] = Top
             /\ stack'[1].def = Top.def /\ stack'[1].part = Top.part /\ stack'[1].at = Top.at + 1
             /\ stack'[1].inner = Top.inner /\ stack'[1].leaves = Top.leaves \cup ls
             /\ \A i \in 1 .. Len(stack) : i > 1 => stack'[i] = stack[i]
  <2>1. \A u : u = Advanced(ls) =>
           /\ u \in Seq(Frame) /\ Len(u) = Len(stack) /\ 1 \in 1 .. Len(stack) /\ stack[1] = Head(stack)
           /\ u[1].def = stack[1].def /\ u[1].part = stack[1].part /\ u[1].at = stack[1].at + 1
           /\ u[1].leaves = stack[1].leaves \cup ls /\ u[1].inner = stack[1].inner
           /\ \A i \in 1 .. Len(stack) : i > 1 => u[i] = stack[i]
    BY <1>1, <1>3, FrameStep DEF Advanced
  <2>2. /\ stack' \in Seq(Frame) /\ Len(stack') = Len(stack) /\ 1 \in 1 .. Len(stack) /\ stack[1] = Head(stack)
        /\ stack'[1].def = stack[1].def /\ stack'[1].part = stack[1].part
        /\ stack'[1].at = stack[1].at + 1
        /\ stack'[1].leaves = stack[1].leaves \cup ls /\ stack'[1].inner = stack[1].inner
        /\ \A i \in 1 .. Len(stack) : i > 1 => stack'[i] = stack[i]
    BY <1>4, <2>1, Zenon
  <2>3. stack[1] = Top
    BY <2>2 DEF Top
  <2> QED  BY <2>2, <2>3
<1> QED  BY <1>1, <1>2, <1>4

LEMMA CloseNestedOK ==
  ASSUME TypeOK, CloseNested
  PROVE  /\ phase = "running" /\ stack # <<>> /\ Top.part = "nested" /\ ~(Top.at <= Len(Stmts(Top)))
         /\ UNCHANGED <<scn, pairs, sorted, all, todo, status, leaves, copy, errors, phase>>
         /\ stack' \in Seq(Frame) /\ Len(stack') = Len(stack) /\ 1 \in 1 .. Len(stack)
         /\ stack[1] = Top
         /\ stack'[1].def = Top.def /\ stack'[1].part = "body" /\ stack'[1].at = 1
         /\ stack'[1].leaves = {} /\ stack'[1].inner = Top.leaves
         /\ \A i \in 1 .. Len(stack) : i > 1 => stack'[i] = stack[i]
<1>1. /\ phase = "running" /\ stack # <<>> /\ Top.part = "nested" /\ Top.at > Len(Stmts(Top))
      /\ UNCHANGED <<scn, pairs, sorted, all, todo, status, leaves, copy, errors, phase>>
  BY DEF CloseNested, Exhausted, sorting
<1>2. Top \in Frame /\ Top = stack[1] /\ 1 \in 1 .. Len(stack) /\ stack \in Seq(Frame)
  BY <1>1, TopOK DEF TypeOK
<1>3. \A h : h = [Top EXCEPT !.part = "body", !.at = 1, !.leaves = {}, !.inner = Top.leaves] =>
        /\ h \in Frame /\ h.def = Top.def /\ h.part = "body" /\ h.at = 1
        /\ h.leaves = {} /\ h.inner = Top.leaves
  <2>1. Top.leaves \in SUBSET Grouping
    BY <1>2 DEF Frame
  <2>2. Top \in Frame
    BY <1>2
  <2> HIDE DEF Top
  <2> QED  BY <2>1, <2>2, BodyFields, Zenon
<1>4. \A h \in Frame : \A u : u = [stack EXCEPT ![1] = h] =>
        /\ u \in Seq(Frame) /\ Len(u) = Len(stack) /\ u[1] = h
        /\ \A i \in 1 .. Len(stack) : i > 1 => u[i] = stack[i]
  BY <1>1, <1>2, FirstReplaced
<1>5. PICK h : h = [Top EXCEPT !.part = "body", !.at = 1, !.leaves = {}, !.inner = Top.leaves]
  OBVIOUS
<1>6. /\ h \in Frame /\ h.def = Top.def /\ h.part = "body" /\ h.at = 1
      /\ h.leaves = {} /\ h.inner = Top.leaves
  BY <1>3, <1>5, Zenon
<1>7. stack' = [stack EXCEPT ![1] = h]
  BY <1>2, <1>5 DEF CloseNested
<1>8. /\ stack' \in Seq(Frame) /\ Len(stack') = Len(stack) /\ stack'[1] = h
      /\ \A i \in 1 .. Len(stack) : i > 1 => stack'[i] = stack[i]
  <2>1. h \in Frame
    BY <1>6, Zenon
  <2>2. \A u : u = [stack EXCEPT ![1] = h] =>
          /\ u \in Seq(Frame) /\ Len(u) = Len(stack) /\ u[1] = h
          /\ \A i \in 1 .. Len(stack) : i > 1 => u[i] = stack[i]
    BY <1>4, <2>1, Zenon
  <2> QED  BY <1>7, <2>2, Zenon
<1>9. ~(Top.at <= Len(Stmts(Top)))
  <2>1. Top.at \in Nat
    BY <1>2 DEF Frame
  <2>2. Len(Stmts(Top)) \in Nat \/ TRUE
    OBVIOUS
  <2> QED  BY <1>1, <2>1
<1> QED  BY <1>1, <1>2, <1>6, <1>8, <1>9

LEMMA OpenCalls ==
  ASSUME TypeOK, CallInv, [Next]_vars, NEW g \in Own, status[g] = "raw", Open(g),
         stack # <<>> => /\ stack[1].part = "body" /\ stack[1].at <= Len(scn.body[stack[1].def].uses)
                         /\ scn.body[stack[1].def].uses[stack[1].at] = g
  PROVE  /\ CallsOK(stack)'
         /\ \A h \in Own : status'[h] = "processing" <=> \E i \in DOMAIN stack' : stack'[i].def = h
         /\ \A h \in Grouping : h # g => status'[h] = status[h]
<1> DEFINE s == stack
<1>1. s \in Seq(Frame) /\ scn \in Scenario /\ status \in [Grouping -> {"raw", "processing", "done"}]
  BY DEF TypeOK
<1>2. g \in Grouping /\ Own \subseteq Grouping
  BY <1>1, ScenarioOK
<1>3. PICK t : t = stack'
  OBVIOUS
<1>4. /\ t \in Seq(Frame) /\ Len(t) = Len(s) + 1
      /\ \A i \in 1 .. Len(s) : t[i + 1] = s[i]
      /\ t[1].def = g /\ t[1].part = (IF HasInner(g) THEN "nested" ELSE "body")
  BY <1>2, <1>3, OpenOK
<1>5. /\ DOMAIN s = 1 .. Len(s) /\ DOMAIN t = 1 .. Len(t) /\ Len(s) \in Nat
  BY <1>1, <1>4
<1>6. /\ \A i \in 1 .. Len(s) :
           /\ s[i].def \in Own /\ (s[i].part = "nested" => HasInner(s[i].def))
           /\ i > 1 => /\ s[i].part = "body" /\ s[i].at <= Len(scn.body[s[i].def].uses)
                       /\ scn.body[s[i].def].uses[s[i].at] = s[i - 1].def
      /\ \A i, j \in 1 .. Len(s) : s[i].def = s[j].def => i = j
      /\ \A h \in Own : status[h] = "processing" <=> \E i \in 1 .. Len(s) : s[i].def = h
  BY <1>5 DEF CallInv, CallsOK
<1>7. s # <<>> => /\ s[1].part = "body" /\ s[1].at <= Len(scn.body[s[1].def].uses)
                  /\ scn.body[s[1].def].uses[s[1].at] = g
  OBVIOUS
<1>8. \A h \in Grouping : status'[h] = IF h = g THEN "processing" ELSE status[h]
  BY <1>1, <1>2 DEF Open
<1> HIDE DEF s
<1>9. \A i \in 1 .. Len(t) : i = 1 \/ (i - 1 \in 1 .. Len(s) /\ t[i] = s[i - 1] /\ i > 1)
  <2> SUFFICES ASSUME NEW i \in 1 .. Len(t), i # 1
               PROVE  i - 1 \in 1 .. Len(s) /\ t[i] = s[i - 1] /\ i > 1
    OBVIOUS
  <2>1. i - 1 \in 1 .. Len(s) /\ (i - 1) + 1 = i
    BY <1>4, <1>5
  <2> QED  BY <1>4, <2>1
<1>10. \A i \in 1 .. Len(t) : t[i].def \in Own /\ (t[i].part = "nested" => HasInner(t[i].def))
  <2> SUFFICES ASSUME NEW i \in 1 .. Len(t)
               PROVE  t[i].def \in Own /\ (t[i].part = "nested" => HasInner(t[i].def))
    OBVIOUS
  <2>1. CASE i = 1
    BY <1>4, <2>1
  <2>2. CASE i # 1
    BY <1>6, <1>9, <2>2
  <2> QED  BY <2>1, <2>2
<1>11. ASSUME NEW i \in 1 .. Len(t), i > 1
       PROVE  /\ t[i].part = "body" /\ t[i].at <= Len(scn.body[t[i].def].uses)
              /\ scn.body[t[i].def].uses[t[i].at] = t[i - 1].def
  <2>1. i - 1 \in 1 .. Len(s) /\ t[i] = s[i - 1]
    BY <1>9, <1>11
  <2>2. CASE i = 2
    <3>1. s # <<>> /\ t[i] = s[1] /\ t[i - 1] = t[1]
      BY <1>1, <2>1, <2>2
    <3> QED  BY <1>4, <1>7, <3>1
  <2>3. CASE i # 2
    <3>1. i - 1 > 1 /\ (i - 1) - 1 \in 1 .. Len(s) /\ ((i - 1) - 1) + 1 = i - 1
      BY <1>5, <1>11, <2>1, <2>3
    <3>2. t[i - 1] = s[(i - 1) - 1]
      BY <1>4, <3>1
    <3> QED  BY <1>6, <2>1, <3>1, <3>2
  <2> QED  BY <2>2, <2>3
<1>12. \A i \in 1 .. Len(s) : s[i].def # g
  BY <1>6
<1>13. ASSUME NEW i \in 1 .. Len(t), NEW j \in 1 .. Len(t), t[i].def = t[j].def
       PROVE  i = j
  <2>1. CASE i = 1 \/ j = 1
    BY <1>4, <1>9, <1>12, <1>13, <2>1
  <2>2. CASE i # 1 /\ j # 1
    <3>1. i - 1 \in 1 .. Len(s) /\ j - 1 \in 1 .. Len(s) /\ s[i - 1].def = s[j - 1].def
      BY <1>9, <1>13, <2>2
    <3>2. i - 1 = j - 1
      BY <1>6, <3>1
    <3> QED  BY <3>2
  <2> QED  BY <2>1, <2>2
<1>14. CallsOK(t)
  BY <1>5, <1>10, <1>11, <1>13 DEF CallsOK
<1>15. \A h : (\E i \in 1 .. Len(t) : t[i].def = h) <=> h = g \/ \E i \in 1 .. Len(s) : s[i].def = h
  <2>1. 1 \in 1 .. Len(t) /\ \A i \in 1 .. Len(s) : i + 1 \in 1 .. Len(t)
    BY <1>4, <1>5
  <2> QED  BY <1>4, <1>9, <2>1
<1>16. \A h \in Own : status'[h] = "processing" <=> \E i \in 1 .. Len(t) : t[i].def = h
  BY <1>2, <1>6, <1>8, <1>15
<1>17. CallsOK(stack)'
  BY <1>3, <1>14, CallsPrimed
<1> QED  BY <1>3, <1>5, <1>8, <1>16, <1>17

LEMMA CloseCalls ==
  ASSUME TypeOK, CallInv, Close, [Next]_vars
  PROVE  /\ CallsOK(stack)' /\ Top.def \in Own
         /\ stack' \in Seq(Frame) /\ Len(stack') = Len(stack) - 1
         /\ \A i \in 1 .. Len(stack') : i + 1 \in 1 .. Len(stack) /\ stack'[i] = stack[i + 1]
         /\ \A h \in Own : status'[h] = "processing" <=> \E i \in DOMAIN stack' : stack'[i].def = h
         /\ \A h \in Grouping : /\ status'[h] = IF h = Top.def THEN "done" ELSE status[h]
                                /\ leaves'[h] = IF h = Top.def THEN {h} \cup Top.leaves ELSE leaves[h]
<1> DEFINE s == stack
<1>1. /\ s \in Seq(Frame) /\ scn \in Scenario /\ status \in [Grouping -> {"raw", "processing", "done"}]
      /\ leaves \in [Grouping -> SUBSET Grouping]
  BY DEF TypeOK
<1>2. stack # <<>> /\ Own \subseteq Grouping /\ stack' = Tail(stack)
  BY <1>1, ScenarioOK DEF Close, Exhausted
<1>3. PICK t : t = stack'
  OBVIOUS
<1>4. /\ t \in Seq(Frame) /\ Len(t) = Len(s) - 1
      /\ \A i \in 1 .. Len(t) : i + 1 \in 1 .. Len(s) /\ t[i] = s[i + 1]
      /\ DOMAIN s = 1 .. Len(s) /\ DOMAIN t = 1 .. Len(t) /\ Len(s) \in Nat /\ Len(t) \in Nat
      /\ 1 \in 1 .. Len(s)
  BY <1>1, <1>2, <1>3
<1>5. Top = s[1]
  BY <1>2, TopOK
<1>6. /\ \A i \in 1 .. Len(s) :
           /\ s[i].def \in Own /\ (s[i].part = "nested" => HasInner(s[i].def))
           /\ i > 1 => /\ s[i].part = "body" /\ s[i].at <= Len(scn.body[s[i].def].uses)
                       /\ scn.body[s[i].def].uses[s[i].at] = s[i - 1].def
      /\ \A i, j \in 1 .. Len(s) : s[i].def = s[j].def => i = j
      /\ \A h \in Own : status[h] = "processing" <=> \E i \in 1 .. Len(s) : s[i].def = h
  BY <1>4 DEF CallInv, CallsOK
<1>7. Top.def \in Own /\ Top.def \in Grouping
  BY <1>2, <1>4, <1>5, <1>6
<1>8. \A h \in Grouping : /\ status'[h] = IF h = Top.def THEN "done" ELSE status[h]
                          /\ leaves'[h] = IF h = Top.def THEN {h} \cup Top.leaves ELSE leaves[h]
  BY <1>1, <1>7 DEF Close
<1> HIDE DEF s
<1>9. \A i \in 1 .. Len(t) : t[i].def \in Own /\ (t[i].part = "nested" => HasInner(t[i].def))
  BY <1>4, <1>6
<1>10. ASSUME NEW i \in 1 .. Len(t), i > 1
       PROVE  /\ t[i].part = "body" /\ t[i].at <= Len(scn.body[t[i].def].uses)
              /\ scn.body[t[i].def].uses[t[i].at] = t[i - 1].def
  <2>1. i + 1 \in 1 .. Len(s) /\ i + 1 > 1 /\ (i + 1) - 1 = i /\ i - 1 \in 1 .. Len(t) /\ (i - 1) + 1 = i
    BY <1>4, <1>10
  <2>2. t[i] = s[i + 1] /\ t[i - 1] = s[i]
    BY <1>4, <2>1
  <2>3. /\ s[i + 1].part = "body" /\ s[i + 1].at <= Len(scn.body[s[i + 1].def].uses)
        /\ scn.body[s[i + 1].def].uses[s[i + 1].at] = s[(i + 1) - 1].def
    BY <1>6, <2>1
  <2> QED  BY <2>1, <2>2, <2>3
<1>11. ASSUME NEW i \in 1 .. Len(t), NEW j \in 1 .. Len(t), t[i].def = t[j].def
       PROVE  i = j
  <2>1. i + 1 = j + 1
    BY <1>4, <1>6, <1>11
  <2> QED  BY <2>1
<1>12. CallsOK(t)
  BY <1>4, <1>9, <1>10, <1>11 DEF CallsOK
<1>13. \A h : (\E i \in 1 .. Len(t) : t[i].def = h) <=> h # Top.def /\ \E i \in 1 .. Len(s) : s[i].def = h
  <2>1. ASSUME NEW i \in 1 .. Len(t) PROVE t[i].def # Top.def /\ \E j \in 1 .. Len(s) : s[j].def = t[i].def
    <3>1. i + 1 # 1 /\ i + 1 \in 1 .. Len(s) /\ t[i] = s[i + 1]
      BY <1>4
    <3> QED  BY <1>4, <1>5, <1>6, <3>1
  <2>2. ASSUME NEW j \in 1 .. Len(s), s[j].def # Top.def PROVE \E i \in 1 .. Len(t) : t[i].def = s[j].def
    <3>1. j # 1
      BY <1>5, <2>2
    <3>2. j - 1 \in 1 .. Len(t) /\ (j - 1) + 1 = j
      BY <1>4, <3>1
    <3>3. t[j - 1] = s[j]
      BY <1>4, <3>2
    <3> QED  BY <3>2, <3>3
  <2>3. ASSUME NEW h PROVE (\E i \in 1 .. Len(t) : t[i].def = h)
                              => h # Top.def /\ \E i \in 1 .. Len(s) : s[i].def = h
    BY <2>1
  <2>4. ASSUME NEW h PROVE h # Top.def /\ (\E i \in 1 .. Len(s) : s[i].def = h)
                              => \E i \in 1 .. Len(t) : t[i].def = h
    BY <2>2
  <2> QED  BY <2>3, <2>4
<1>14. \A h \in Own : status'[h] = "processing" <=> \E i \in 1 .. Len(t) : t[i].def = h
  BY <1>2, <1>6, <1>8, <1>13
<1>15. CallsOK(stack)'
  BY <1>3, <1>12, CallsPrimed
<1> QED  BY <1>3, <1>4, <1>7, <1>8, <1>14, <1>15 DEF s

LEMMA InitCallInv == Init => CallInv
<1> SUFFICES ASSUME Init
             PROVE  CallInv
  OBVIOUS
<1>1. scn \in Scenario /\ Own \subseteq Grouping /\ scn.given \cap Own = {} /\ scn.given \subseteq Grouping
  BY ScenarioOK DEF Init, Known
<1>2. /\ \A g \in Own : status[g] = "raw"
      /\ \A g \in scn.given : status[g] = "done" /\ leaves[g] = {g} /\ copy[g] = {g}
  BY <1>1 DEF Init
<1>3. DOMAIN stack = {} /\ phase = "pairs"
  BY DEF Init
<1> QED  BY <1>2, <1>3 DEF CallInv, CallsOK

LEMMA CallStep ==
  ASSUME TypeOK, SortInv, CallInv, [Next]_vars
  PROVE  CallInv'
<1>1. /\ scn' = scn /\ scn \in Scenario /\ Own' = Own
      /\ Own \subseteq Grouping /\ scn.given \cap Own = {} /\ scn.given \subseteq Grouping
      /\ Dummy \notin Own /\ scn.own \in Seq(Own)
  BY SameScenario, ScenarioOK DEF TypeOK, Known
<1>2. /\ CallsOK(stack)
      /\ \A g \in scn.given : status[g] = "done" /\ leaves[g] = {g} /\ copy[g] = {g}
      /\ \A g \in Own : status[g] = "processing" <=> \E i \in DOMAIN stack : stack[i].def = g
      /\ phase \in {"running", "done"} => \A g \in Own : status[g] = "raw" => g \in Range(todo)
      /\ phase = "done" => stack = <<>> /\ todo = <<>>
  BY DEF CallInv
<1>3. /\ todo \in Seq(Own) /\ stack \in Seq(Frame)
      /\ status \in [Grouping -> {"raw", "processing", "done"}]
  BY DEF TypeOK
<1>4. stack' = stack => CallsOK(stack)'
  BY <1>2, CallsPrimed
<1>5. todo # <<>> => Head(todo) \in Own /\ Range(todo) = {Head(todo)} \cup Range(Tail(todo))
  BY <1>3, RangeIsIn
<1>6. stack = <<>> => DOMAIN stack = {}
  OBVIOUS
<1>7. ASSUME UNCHANGED vars PROVE CallInv'
  <2>1. UNCHANGED <<todo, status, leaves, copy, stack, phase>>
    BY <1>7 DEF vars
  <2> QED  BY <1>1, <1>2, <1>4, <2>1 DEF CallInv
<1>8. ASSUME CollectDeps \/ SortPairs \/ Round PROVE CallInv'
  <2>1. UNCHANGED <<status, leaves, copy, stack>> /\ phase' \in {"pairs", "sort"}
    BY <1>8 DEF CollectDeps, SortPairs, Round
  <2> QED  BY <1>1, <1>2, <1>4, <2>1 DEF CallInv
<1>9. ASSUME Cycle \/ Sorted PROVE CallInv'
  <2>1. UNCHANGED <<status, leaves, copy, stack>> /\ phase' = "running"
    BY <1>9 DEF Cycle, Sorted, Ordered
  <2>2. Range(todo') = Own
    <3>1. CASE Cycle
      <4>1. todo' = Reversed(scn.own)
        BY <3>1 DEF Cycle, Ordered
      <4> QED  BY <1>1, <4>1, ReversedOK DEF Own
    <3>2. CASE Sorted
      BY <3>2, SortedApart
    <3> QED  BY <1>9, <3>1, <3>2
  <2> QED  BY <1>1, <1>2, <1>4, <2>1, <2>2 DEF CallInv
<1>10. ASSUME Start PROVE CallInv'
  <2> DEFINE h == Head(todo)
  <2>1. /\ stack = <<>> /\ todo # <<>> /\ status[h] = "raw" /\ Open(h)
        /\ todo' = Tail(todo) /\ copy' = leaves /\ leaves' = leaves /\ phase = "running" /\ phase' = phase
    BY <1>10 DEF Start, Running
  <2>2. h \in Own /\ Range(todo) = {h} \cup Range(Tail(todo))
    BY <1>5, <2>1
  <2> HIDE DEF h
  <2>3. /\ CallsOK(stack)'
        /\ \A g \in Own : status'[g] = "processing" <=> \E i \in DOMAIN stack' : stack'[i].def = g
        /\ \A g \in Grouping : g # h => status'[g] = status[g]
    BY <2>1, <2>2, OpenCalls
  <2>4. status'[h] = "processing"
    BY <1>1, <1>3, <2>1, <2>2 DEF Open
  <2>5. \A g \in scn.given : status'[g] = "done" /\ leaves'[g] = {g} /\ copy'[g] = {g}
    BY <1>1, <1>2, <2>1, <2>2, <2>3
  <2>6. \A g \in Own : status'[g] = "raw" => g \in Range(todo')
    BY <1>1, <1>2, <2>1, <2>2, <2>3, <2>4
  <2> QED  BY <1>1, <2>1, <2>3, <2>5, <2>6 DEF CallInv
<1>11. ASSUME StartDone PROVE CallInv'
  <2>1. /\ todo # <<>> /\ status[Head(todo)] = "done" /\ todo' = Tail(todo) /\ copy' = leaves
        /\ UNCHANGED <<status, leaves, stack, phase>> /\ phase = "running"
    BY <1>11 DEF StartDone, Running
  <2>2. \A g \in Own : status'[g] = "raw" => g \in Range(todo')
    BY <1>2, <1>5, <2>1
  <2> QED  BY <1>1, <1>2, <1>4, <2>1, <2>2 DEF CallInv
<1>12. ASSUME Moves \/ CloseNested PROVE CallInv'
  <2>1. /\ stack' \in Seq(Frame) /\ Len(stack') = Len(stack)
        /\ \A i \in 1 .. Len(stack) : /\ stack'[i].def = stack[i].def
                                      /\ stack'[i].part \in {stack[i].part, "body"}
                                      /\ i > 1 => stack'[i] = stack[i]
        /\ UNCHANGED <<todo, status, leaves, copy, phase>> /\ phase = "running"
    <3>1. /\ stack' \in Seq(Frame) /\ Len(stack') = Len(stack)
          /\ stack'[1].def = stack[1].def /\ stack'[1].part \in {stack[1].part, "body"}
          /\ \A i \in 1 .. Len(stack) : i > 1 => stack'[i] = stack[i]
          /\ UNCHANGED <<todo, status, leaves, copy, phase>> /\ phase = "running"
      BY <1>12, MovesOK, CloseNestedOK
    <3>2. \A i \in 1 .. Len(stack) : i = 1 \/ i > 1
      OBVIOUS
    <3> QED  BY <3>1, <3>2
  <2>2. PICK t : t = stack'
    OBVIOUS
  <2>3. /\ CallsOK(t)
        /\ \A g : (\E i \in DOMAIN stack : stack[i].def = g) <=> \E i \in DOMAIN t : t[i].def = g
    <3>1. /\ t \in Seq(Frame) /\ Len(t) = Len(stack)
          /\ \A i \in 1 .. Len(stack) : /\ t[i].def = stack[i].def
                                        /\ t[i].part \in {stack[i].part, "body"}
                                        /\ i > 1 => t[i] = stack[i]
      BY <2>1, <2>2
    <3>2. stack \in Seq(Frame) /\ CallsOK(stack)
      BY <1>2, <1>3
    <3> QED  BY <3>1, <3>2, CallsKept, Zenon
  <2>4. CallsOK(stack)'
    BY <2>2, <2>3, CallsPrimed
  <2>5. \A g \in Own : status'[g] = "processing" <=> \E i \in DOMAIN stack' : stack'[i].def = g
    BY <1>2, <2>1, <2>2, <2>3
  <2> QED  BY <1>1, <1>2, <2>1, <2>4, <2>5 DEF CallInv
<1>13. ASSUME UsesRaw PROVE CallInv'
  <2> DEFINE g == Used
  <2>1. /\ stack # <<>> /\ g \in Known /\ Top.part = "body" /\ status[g] = "raw" /\ Open(g)
        /\ Top.at <= Len(Stmts(Top)) /\ phase = "running"
        /\ UNCHANGED <<todo, leaves, copy, phase>>
    BY <1>13 DEF UsesRaw, Following
  <2>2. g \in Own
    BY <1>2, <2>1 DEF Known
  <2>3. /\ stack[1].part = "body" /\ stack[1].at <= Len(scn.body[stack[1].def].uses)
        /\ scn.body[stack[1].def].uses[stack[1].at] = g
    BY <2>1, TopOK DEF Stmts, Used
  <2> HIDE DEF g
  <2>4. /\ CallsOK(stack)'
        /\ \A h \in Own : status'[h] = "processing" <=> \E i \in DOMAIN stack' : stack'[i].def = h
        /\ \A h \in Grouping : h # g => status'[h] = status[h]
    BY <2>1, <2>2, <2>3, OpenCalls
  <2>5. status'[g] = "processing"
    BY <1>1, <1>3, <2>1, <2>2 DEF Open
  <2>6. \A h \in scn.given : status'[h] = "done" /\ leaves'[h] = {h} /\ copy'[h] = {h}
    BY <1>1, <1>2, <2>1, <2>2, <2>4
  <2>7. \A h \in Own : status'[h] = "raw" => h \in Range(todo')
    BY <1>1, <1>2, <2>1, <2>2, <2>4, <2>5
  <2> QED  BY <1>1, <2>1, <2>4, <2>6, <2>7 DEF CallInv
<1>14. ASSUME Close PROVE CallInv'
  <2>1. /\ CallsOK(stack)' /\ Top.def \in Own
        /\ \A h \in Own : status'[h] = "processing" <=> \E i \in DOMAIN stack' : stack'[i].def = h
        /\ \A h \in Grouping : /\ status'[h] = IF h = Top.def THEN "done" ELSE status[h]
                               /\ leaves'[h] = IF h = Top.def THEN {h} \cup Top.leaves ELSE leaves[h]
    BY <1>14, CloseCalls
  <2>2. phase = "running" /\ UNCHANGED <<todo, copy, phase>>
    BY <1>14 DEF Close, Exhausted
  <2>3. \A h \in scn.given : status'[h] = "done" /\ leaves'[h] = {h} /\ copy'[h] = {h}
    <3> SUFFICES ASSUME NEW h \in scn.given
                 PROVE  status'[h] = "done" /\ leaves'[h] = {h} /\ copy'[h] = {h}
      OBVIOUS
    <3>1. h \in Grouping /\ h # Top.def
      BY <1>1, <2>1
    <3> QED  BY <1>2, <2>1, <2>2, <3>1
  <2>4. \A h \in Own : status'[h] = "raw" => h \in Range(todo')
    BY <1>1, <1>2, <2>1, <2>2
  <2> QED  BY <1>1, <2>1, <2>2, <2>3, <2>4 DEF CallInv
<1>15. ASSUME Finish PROVE CallInv'
  <2>1. /\ UNCHANGED <<todo, status, leaves, copy, stack>> /\ phase = "running" /\ phase' = "done"
        /\ stack = <<>> /\ todo = <<>>
    BY <1>15 DEF Finish
  <2> QED  BY <1>1, <1>2, <1>4, <2>1 DEF CallInv
<1> QED  BY <1>7, <1>8, <1>9, <1>10, <1>11, <1>12, <1>13, <1>14, <1>15 DEF Next, Moves, Terminated

-----------------------------------------------------------------------------
(* Without a circle every grouping used is done.                           *)
(* The loop of mk_groupings0 takes the next name, and that is done or      *)
(* being added.                                                            *)
LEMMA TodoShift ==
  ASSUME NEW t \in Seq(Own), t # <<>>, NEW D, Head(t) \in D,
         \A i \in DOMAIN t : \A u \in AllUses(t[i]) : u \in D \/ \E j \in 1 .. i - 1 : t[j] = u
  PROVE  \A i \in DOMAIN Tail(t) : \A u \in AllUses(Tail(t)[i]) :
           u \in D \/ \E j \in 1 .. i - 1 : Tail(t)[j] = u
<1> DEFINE r == Tail(t)
<1>1. /\ DOMAIN t = 1 .. Len(t) /\ DOMAIN r = 1 .. Len(r) /\ Len(t) \in Nat /\ Len(r) \in Nat
      /\ Len(r) = Len(t) - 1 /\ Head(t) = t[1]
      /\ \A i \in 1 .. Len(r) : r[i] = t[i + 1]
  OBVIOUS
<1> HIDE DEF r
<1>2. ASSUME NEW i \in 1 .. Len(r), NEW u \in AllUses(r[i]), u \notin D
      PROVE  \E j \in 1 .. i - 1 : r[j] = u
  <2>1. i + 1 \in 1 .. Len(t) /\ r[i] = t[i + 1] /\ (i + 1) - 1 = i
    BY <1>1
  <2>2. PICK j \in 1 .. (i + 1) - 1 : t[j] = u
    BY <1>1, <1>2, <2>1
  <2>3. j # 1
    BY <1>1, <1>2, <2>2
  <2>4. j - 1 \in 1 .. i - 1 /\ j - 1 \in 1 .. Len(r) /\ (j - 1) + 1 = j
    BY <1>1, <2>2, <2>3
  <2>5. r[j - 1] = u
    BY <1>1, <2>2, <2>4
  <2> QED  BY <2>4, <2>5
<1>3. \A i \in DOMAIN r : \A u \in AllUses(r[i]) : u \in D \/ \E j \in 1 .. i - 1 : r[j] = u
  BY <1>1, <1>2
<1> QED  BY <1>3 DEF r

(* The names taken care of.                                                *)
Handled == {u \in Own : status[u] = "done"} \cup {stack[k].def : k \in DOMAIN stack}

LEMMA OrderParts ==
  ASSUME TypeOK, CallInv, OrderInv, ~Circle(InAnyStatement), phase \in {"running", "done"}
  PROVE  /\ Len(stack) <= 1
         /\ \A i \in DOMAIN todo : \A u \in AllUses(todo[i]) :
              u \in Handled \/ \E j \in 1 .. i - 1 : todo[j] = u
         /\ \A k \in DOMAIN stack : \A u \in AllUses(stack[k].def) :
              status[u] = "done" /\ copy[u] = leaves[u]
<1>1. \A g : AllUses(g) \subseteq Own
  BY DEF AllUses, BodyUses
<1>2. /\ Len(stack) <= 1
      /\ \A i \in DOMAIN todo : \A u \in AllUses(todo[i]) :
           \/ status[u] = "done" \/ \E k \in DOMAIN stack : stack[k].def = u
           \/ \E j \in 1 .. i - 1 : todo[j] = u
      /\ \A k \in DOMAIN stack : \A u \in AllUses(stack[k].def) :
           status[u] = "done" /\ copy[u] = leaves[u]
  BY DEF OrderInv
<1>3. \A u : u \in Handled <=> (u \in Own /\ status[u] = "done") \/ \E k \in DOMAIN stack : stack[k].def = u
  BY DEF Handled
<1> QED  BY <1>1, <1>2, <1>3

(* From what is handled to the invariant, after the step.                  *)
LEMMA OrderAfter ==
  ASSUME [Next]_vars, ~Circle(InAnyStatement), NEW D,
         \A u \in D : status'[u] = "done" \/ \E k \in DOMAIN stack' : stack'[k].def = u,
         \A i \in DOMAIN todo' : \A u \in AllUses(todo'[i]) : u \in D \/ \E j \in 1 .. i - 1 : todo'[j] = u,
         Len(stack') <= 1,
         \A k \in DOMAIN stack' : \A u \in AllUses(stack'[k].def) :
           status'[u] = "done" /\ copy'[u] = leaves'[u]
  PROVE  OrderInv'
<1>1. /\ Circle(InAnyStatement)' = Circle(InAnyStatement)
      /\ \A g : AllUses(g)' = AllUses(g)
  BY SameScenario
<1>2. \A i \in DOMAIN todo' : \A u \in AllUses(todo'[i]) :
        \/ status'[u] = "done" \/ \E k \in DOMAIN stack' : stack'[k].def = u
        \/ \E j \in 1 .. i - 1 : todo'[j] = u
  OBVIOUS
<1>3. \A i \in DOMAIN todo' : AllUses(todo[i])' = AllUses(todo'[i])
  BY SameScenario DEF AllUses, BodyUses, NestedUses, HasInner
<1>4. \A k \in DOMAIN stack' : AllUses(stack[k].def)' = AllUses(stack'[k].def)
  BY SameScenario DEF AllUses, BodyUses, NestedUses, HasInner
<1> QED  BY <1>1, <1>2, <1>3, <1>4 DEF OrderInv

LEMMA UsedInBody ==
  ASSUME TypeOK, stack # <<>>, Top.part = "body", Top.at <= Len(Stmts(Top)), Top.def \in Own
  PROVE  /\ Used \in Range(scn.body[Top.def].uses) /\ Top.at \in 1 .. Len(scn.body[Top.def].uses)
         /\ Used = scn.body[Top.def].uses[Top.at]
         /\ Used \in Own => Used \in BodyUses(Top.def) /\ Used \in AllUses(Top.def)
<1>1. Top \in Frame /\ scn \in Scenario
  BY TopOK DEF TypeOK
<1>2. PICK s : s = scn.body[Top.def].uses
  OBVIOUS
<1>3. s \in Seq(Ref)
  BY <1>1, <1>2, ScenarioOK
<1>4. Stmts(Top) = s /\ Used = s[Top.at]
  BY <1>2 DEF Stmts, Used
<1>5. Top.at \in 1 .. Len(s) /\ DOMAIN s = 1 .. Len(s)
  <2>1. Top.at \in Nat \ {0}
    BY <1>1 DEF Frame
  <2> QED  BY <1>3, <1>4, <2>1
<1>6. Used \in Range(s)
  BY <1>4, <1>5 DEF Range
<1> QED  BY <1>2, <1>4, <1>5, <1>6 DEF BodyUses, AllUses

LEMMA UsedInNested ==
  ASSUME TypeOK, stack # <<>>, Top.part = "nested", Top.at <= Len(Stmts(Top)), Top.def \in Own,
         HasInner(Top.def)
  PROVE  /\ Used \in NestedUses(Top.def) /\ Top.at \in 1 .. Len(scn.body[Top.def].nested[1])
         /\ Used = scn.body[Top.def].nested[1][Top.at]
         /\ Used \in Own => Used \in AllUses(Top.def)
<1>1. Top \in Frame /\ scn \in Scenario
  BY TopOK DEF TypeOK
<1>2. PICK s : s = scn.body[Top.def].nested[1]
  OBVIOUS
<1>3. s \in Seq(Ref)
  BY <1>1, <1>2, ScenarioOK
<1>4. Stmts(Top) = s /\ Used = s[Top.at]
  BY <1>2 DEF Stmts, Used
<1>5. Top.at \in 1 .. Len(s) /\ DOMAIN s = 1 .. Len(s)
  <2>1. Top.at \in Nat \ {0}
    BY <1>1 DEF Frame
  <2> QED  BY <1>3, <1>4, <2>1
<1>6. Used \in Range(s) /\ NestedUses(Top.def) = Range(s)
  BY <1>2, <1>4, <1>5 DEF Range, NestedUses
<1> QED  BY <1>2, <1>4, <1>5, <1>6 DEF AllUses

LEMMA OrderStep ==
  ASSUME TypeOK, SortInv, CallInv, OrderInv, [Next]_vars
  PROVE  OrderInv'
<1>1. SUFFICES ASSUME ~Circle(InAnyStatement), phase' \in {"running", "done"}
               PROVE  OrderInv'
  BY SameScenario DEF OrderInv
<1>2. /\ todo \in Seq(Own) /\ stack \in Seq(Frame) /\ scn \in Scenario /\ Own \subseteq Grouping
      /\ status \in [Grouping -> {"raw", "processing", "done"}]
  BY ScenarioOK DEF TypeOK
<1>3. \A g : AllUses(g) \subseteq Own
  BY DEF AllUses, BodyUses
<1>4. \A u : u \in Handled <=> (u \in Own /\ status[u] = "done") \/ \E k \in DOMAIN stack : stack[k].def = u
  BY DEF Handled
<1>5. stack = <<>> => DOMAIN stack = {} /\ Len(stack) = 0
  OBVIOUS
<1>6. ASSUME UNCHANGED <<todo, status, leaves, copy>>, phase \in {"running", "done"}, Len(stack') = Len(stack),
             stack' \in Seq(Frame), \A k \in 1 .. Len(stack) : stack'[k].def = stack[k].def
      PROVE  OrderInv'
  <2>1. /\ Len(stack) <= 1
        /\ \A i \in DOMAIN todo : \A u \in AllUses(todo[i]) :
             u \in Handled \/ \E j \in 1 .. i - 1 : todo[j] = u
        /\ \A k \in DOMAIN stack : \A u \in AllUses(stack[k].def) :
             status[u] = "done" /\ copy[u] = leaves[u]
    BY <1>1, <1>6, OrderParts
  <2>2. DOMAIN stack = 1 .. Len(stack) /\ DOMAIN stack' = 1 .. Len(stack)
    BY <1>2, <1>6
  <2>3. \A u \in Handled : status'[u] = "done" \/ \E k \in DOMAIN stack' : stack'[k].def = u
    BY <1>4, <1>6, <2>2
  <2>4. \A k \in DOMAIN stack' : \A u \in AllUses(stack'[k].def) :
          status'[u] = "done" /\ copy'[u] = leaves'[u]
    BY <1>6, <2>1, <2>2
  <2>5. \A i \in DOMAIN todo' : \A u \in AllUses(todo'[i]) :
          u \in Handled \/ \E j \in 1 .. i - 1 : todo'[j] = u
    BY <1>6, <2>1
  <2> QED  BY <1>1, <1>6, <2>1, <2>3, <2>4, <2>5, OrderAfter
<1>7. ASSUME Sorted PROVE OrderInv'
  <2>1. Range(todo') = Own /\ Apart(Edges, todo') /\ todo' \in Seq(Own)
    BY <1>7, SortedApart, OrderFound
  <2>2. stack' = <<>>
    BY <1>7 DEF Sorted, Ordered, SortInv
  <2>3. DOMAIN todo' = 1 .. Len(todo') /\ Len(todo') \in Nat
    BY <2>1
  <2>4. ASSUME NEW i \in DOMAIN todo', NEW u \in AllUses(todo'[i])
        PROVE  \E j \in 1 .. i - 1 : todo'[j] = u
    <3>1. PICK j \in DOMAIN todo' : todo'[j] = u
      <4>1. u \in Range(todo')
        BY <1>3, <2>1
      <4> QED  BY <4>1 DEF Range
    <3>2. todo'[i] \in Own
      BY <2>1
    <3>3. <<u, todo'[i]>> \in Edges
      BY <1>2, <3>2, EdgesOK
    <3>4. ~(i <= j)
      BY <2>1, <3>1, <3>3 DEF Apart
    <3>5. j \in 1 .. i - 1
      BY <2>3, <3>4
    <3> QED  BY <3>1, <3>5
  <2>5. DOMAIN stack' = {} /\ Len(stack') <= 1
    BY <2>2
  <2>6. \A i \in DOMAIN todo' : \A u \in AllUses(todo'[i]) : u \in {} \/ \E j \in 1 .. i - 1 : todo'[j] = u
    BY <2>4
  <2> QED  BY <1>1, <2>5, <2>6, OrderAfter
<1>8. ASSUME Start PROVE OrderInv'
  <2> DEFINE h == Head(todo)
  <2>1. /\ stack = <<>> /\ todo # <<>> /\ status[h] = "raw" /\ Open(h) /\ phase = "running"
        /\ todo' = Tail(todo) /\ copy' = leaves /\ leaves' = leaves
    BY <1>8 DEF Start, Running
  <2>2. h \in Own /\ h = todo[1] /\ 1 \in DOMAIN todo
    BY <1>2, <2>1
  <2>3. /\ \A i \in DOMAIN todo : \A u \in AllUses(todo[i]) :
             u \in Handled \/ \E j \in 1 .. i - 1 : todo[j] = u
    BY <1>1, <2>1, OrderParts
  <2>4. \A u \in AllUses(h) : u \in Handled
    <3>1. \A j \in 1 .. 1 - 1 : FALSE
      OBVIOUS
    <3> QED  BY <2>2, <2>3, <3>1
  <2>11. PICK D : \A u : u \in D <=> u \in Handled \/ u = h
    <3>1. \A u : u \in Handled \cup {h} <=> u \in Handled \/ u = h
      OBVIOUS
    <3> QED  BY <3>1
  <2>5. \A i \in DOMAIN todo' : \A u \in AllUses(todo'[i]) :
          u \in D \/ \E j \in 1 .. i - 1 : todo'[j] = u
    <3>1. \A i \in DOMAIN todo : \A u \in AllUses(todo[i]) :
            u \in D \/ \E j \in 1 .. i - 1 : todo[j] = u
      BY <2>3, <2>11
    <3>2. Head(todo) \in D
      BY <2>11
    <3>3. todo \in Seq(Own) /\ todo # <<>>
      BY <1>2, <2>1
    <3>4. \A i \in DOMAIN Tail(todo) : \A u \in AllUses(Tail(todo)[i]) :
            u \in D \/ \E j \in 1 .. i - 1 : Tail(todo)[j] = u
      BY <3>1, <3>2, <3>3, TodoShift
    <3> QED  BY <2>1, <3>4
  <2> HIDE DEF h
  <2>6. /\ Len(stack') = 1 /\ DOMAIN stack' = {1} /\ stack'[1].def = h
    <3>1. h \in Grouping
      BY <1>2, <2>2
    <3>2. stack' \in Seq(Frame) /\ Len(stack') = Len(stack) + 1 /\ stack'[1].def = h
      BY <2>1, <3>1, OpenOK
    <3> QED  BY <1>5, <2>1, <3>2
  <2>7. \A u \in Handled : u \in Own /\ status[u] = "done"
    BY <1>4, <1>5, <2>1
  <2>8. \A u \in Handled : status'[u] = "done"
    BY <1>2, <2>1, <2>2, <2>7 DEF Open
  <2>9. \A k \in DOMAIN stack' : \A u \in AllUses(stack'[k].def) :
          status'[u] = "done" /\ copy'[u] = leaves'[u]
    BY <2>1, <2>4, <2>6, <2>8
  <2>10. \A u \in D : status'[u] = "done" \/ \E k \in DOMAIN stack' : stack'[k].def = u
    BY <2>6, <2>8, <2>11
  <2>12. Len(stack') <= 1
    BY <2>6
  <2> QED  BY <1>1, <2>5, <2>9, <2>10, <2>12, OrderAfter
<1>9. ASSUME StartDone PROVE OrderInv'
  <2> DEFINE h == Head(todo)
  <2>1. /\ stack = <<>> /\ todo # <<>> /\ status[h] = "done" /\ phase = "running"
        /\ todo' = Tail(todo) /\ status' = status /\ stack' = stack
    BY <1>9 DEF StartDone, Running
  <2>2. h \in Own
    BY <1>2, <2>1
  <2>3. h \in Handled
    BY <1>4, <2>1, <2>2
  <2>4. \A i \in DOMAIN todo : \A u \in AllUses(todo[i]) :
          u \in Handled \/ \E j \in 1 .. i - 1 : todo[j] = u
    BY <1>1, <2>1, OrderParts
  <2>5. \A i \in DOMAIN todo' : \A u \in AllUses(todo'[i]) :
          u \in Handled \/ \E j \in 1 .. i - 1 : todo'[j] = u
    <3>1. Head(todo) \in Handled /\ todo \in Seq(Own) /\ todo # <<>>
      BY <1>2, <2>1, <2>3
    <3>2. \A i \in DOMAIN Tail(todo) : \A u \in AllUses(Tail(todo)[i]) :
            u \in Handled \/ \E j \in 1 .. i - 1 : Tail(todo)[j] = u
      BY <2>4, <3>1, TodoShift
    <3> QED  BY <2>1, <3>2
  <2>6. \A u \in Handled : status'[u] = "done" \/ \E k \in DOMAIN stack' : stack'[k].def = u
    BY <1>4, <2>1
  <2>7. DOMAIN stack' = {} /\ Len(stack') <= 1
    BY <1>5, <2>1
  <2> QED  BY <1>1, <2>5, <2>6, <2>7, OrderAfter
<1>10. ~UsesRaw
  <2> SUFFICES ASSUME UsesRaw
               PROVE  FALSE
    OBVIOUS
  <2>1. /\ stack # <<>> /\ Used \in Known /\ Top.part = "body" /\ status[Used] = "raw"
        /\ Top.at <= Len(Stmts(Top)) /\ phase = "running"
    BY DEF UsesRaw, Following
  <2>2. Top = stack[1] /\ 1 \in DOMAIN stack
    BY <2>1, TopOK
  <2>3. Top.def \in Own /\ Used \in Own
    BY <2>1, <2>2 DEF CallInv, CallsOK, Known
  <2>4. Used \in AllUses(Top.def)
    BY <2>1, <2>3, UsedInBody
  <2>5. status[Used] = "done"
    BY <1>1, <2>1, <2>2, <2>4, OrderParts
  <2> QED  BY <2>1, <2>5
<1>11. ASSUME Close PROVE OrderInv'
  <2>1. /\ stack' \in Seq(Frame) /\ Len(stack') = Len(stack) - 1 /\ Top.def \in Own
        /\ \A h \in Grouping : status'[h] = IF h = Top.def THEN "done" ELSE status[h]
    BY <1>11, CloseCalls
  <2>2. phase = "running" /\ stack # <<>> /\ todo' = todo
    BY <1>11 DEF Close, Exhausted
  <2>3. /\ Len(stack) <= 1
        /\ \A i \in DOMAIN todo : \A u \in AllUses(todo[i]) :
             u \in Handled \/ \E j \in 1 .. i - 1 : todo[j] = u
    BY <1>1, <2>2, OrderParts
  <2>4. DOMAIN stack = {1} /\ stack[1] = Top
    <3>1. Top = stack[1] /\ 1 \in 1 .. Len(stack) /\ Len(stack) \in Nat /\ DOMAIN stack = 1 .. Len(stack)
      BY <2>2, TopOK
    <3> QED  BY <2>3, <3>1
  <2>5. DOMAIN stack' = {} /\ Len(stack') <= 1
    <3>1. DOMAIN stack = 1 .. Len(stack) /\ Len(stack) \in Nat
      BY <1>2
    <3>2. Len(stack) = 1
      BY <2>3, <2>4, <3>1
    <3>3. DOMAIN stack' = 1 .. Len(stack')
      BY <2>1
    <3>4. Len(stack') = 0
      BY <2>1, <3>2
    <3>5. 1 .. 0 = {}
      OBVIOUS
    <3> QED  BY <3>3, <3>4, <3>5
  <2>6. \A u \in Handled : status'[u] = "done"
    BY <1>2, <1>4, <2>1, <2>4
  <2>7. \A i \in DOMAIN todo' : \A u \in AllUses(todo'[i]) :
          u \in Handled \/ \E j \in 1 .. i - 1 : todo'[j] = u
    BY <2>2, <2>3
  <2> QED  BY <1>1, <2>5, <2>6, <2>7, OrderAfter
<1>12. ASSUME Moves \/ CloseNested PROVE OrderInv'
  <2>1. /\ stack' \in Seq(Frame) /\ Len(stack') = Len(stack)
        /\ stack'[1].def = stack[1].def
        /\ \A i \in 1 .. Len(stack) : i > 1 => stack'[i] = stack[i]
        /\ UNCHANGED <<todo, status, leaves, copy>> /\ phase = "running"
    BY <1>12, MovesOK, CloseNestedOK
  <2>2. \A i \in 1 .. Len(stack) : i = 1 \/ i > 1
    OBVIOUS
  <2> QED  BY <1>6, <2>1, <2>2
<1>13. ASSUME Finish \/ (UNCHANGED vars) PROVE OrderInv'
  <2>1. UNCHANGED <<todo, status, leaves, copy, stack>> /\ phase \in {"running", "done"}
    BY <1>1, <1>13 DEF Finish, vars
  <2> QED  BY <1>2, <1>6, <2>1
<1>14. ~Cycle
  BY <1>1, CycleFound
<1>15. ~(CollectDeps \/ SortPairs \/ Round)
  BY <1>1 DEF CollectDeps, SortPairs, Round
<1> QED  BY <1>7, <1>8, <1>9, <1>10, <1>11, <1>12, <1>13, <1>14, <1>15 DEF Next, Moves, Terminated

-----------------------------------------------------------------------------
(* What is reported.                                                       *)
LEMMA ReportStep ==
  ASSUME TypeOK, NEW code, NEW d, NEW part, NEW at, Report(code, d, part, at)
  PROVE  NoneCircular' <=> NoneCircular /\ code # "CIRCULAR_DEPENDENCY"
<1> DEFINE e == [code |-> code, def |-> d, part |-> part, at |-> at]
<1>1. errors' = Append(errors, e) /\ errors \in Seq(Error) /\ e.code = code
  BY DEF Report, TypeOK
<1> HIDE DEF e
<1>2. PICK r : r = errors'
  OBVIOUS
<1>3. /\ DOMAIN errors = 1 .. Len(errors) /\ Len(errors) \in Nat
      /\ DOMAIN r = 1 .. Len(errors) + 1
      /\ \A k \in 1 .. Len(errors) : r[k] = errors[k]
      /\ r[Len(errors) + 1] = e
  BY <1>1, <1>2
<1>4. \A k : k \in 1 .. Len(errors) + 1 <=> k \in 1 .. Len(errors) \/ k = Len(errors) + 1
  BY <1>3
<1>5. (\A k \in DOMAIN r : r[k].code # "CIRCULAR_DEPENDENCY")
        <=> (\A k \in 1 .. Len(errors) : errors[k].code # "CIRCULAR_DEPENDENCY")
              /\ code # "CIRCULAR_DEPENDENCY"
  BY <1>1, <1>3, <1>4
<1> QED  BY <1>2, <1>3, <1>5 DEF NoneCircular

Reporting == UsesCircular \/ (UsesInner /\ Top.part = "nested")

LEMMA ErrorsStep ==
  ASSUME TypeOK, [Next]_vars
  PROVE  NoneCircular' <=> NoneCircular /\ ~Reporting
<1>1. errors' = errors => (NoneCircular' <=> NoneCircular)
  BY DEF NoneCircular
<1>2. CASE UsesMissing
  <2>1. Report("DEFINITION_NOT_FOUND", Top.def, Top.part, Top.at) /\ ~Reporting
    BY <1>2 DEF UsesMissing, UsesCircular, UsesInner, Reporting
  <2> QED  BY <2>1, ReportStep
<1>3. CASE UsesInner
  <2>1. CASE Top.part = "nested"
    <3>1. Report("CIRCULAR_DEPENDENCY", Inner, "body", 0) /\ Reporting
      BY <1>3, <2>1 DEF UsesInner, Reporting
    <3> QED  BY <3>1, ReportStep
  <2>2. CASE Top.part # "nested"
    <3>1. errors' = errors /\ Used = Inner
      BY <1>3, <2>2 DEF UsesInner
    <3>2. ~Reporting
      BY <2>2, <3>1, ScenarioOK DEF Reporting, UsesCircular, TypeOK
    <3> QED  BY <1>1, <3>1, <3>2
  <2> QED  BY <2>1, <2>2
<1>4. CASE UsesCircular
  <2>1. Report("CIRCULAR_DEPENDENCY", Used, "body", 0) /\ Reporting
    BY <1>4 DEF UsesCircular, Reporting
  <2> QED  BY <2>1, ReportStep
<1>5. CASE UsesRaw
  <2>1. ~Reporting
    BY <1>5 DEF UsesRaw, UsesInner, UsesCircular, Reporting
  <2>2. CASE Report("DUPLICATE_DEFINITION", Used, "nested", 0)
    BY <2>1, <2>2, ReportStep
  <2>3. CASE errors' = errors
    BY <1>1, <2>1, <2>3
  <2> QED  BY <1>5, <2>2, <2>3 DEF UsesRaw
<1>6. ~(UsesMissing \/ UsesInner \/ UsesRaw \/ UsesCircular) => errors' = errors
  BY DEF Next, vars, CollectDeps, SortPairs, Round, Cycle, Sorted, Ordered, Start, StartDone,
         UsesOuter, UsesFromNested, UsesDone, CloseNested, Close, Finish, Terminated
<1> QED  BY <1>1, <1>2, <1>3, <1>4, <1>5, <1>6 DEF Reporting

(* The calls from the innermost one to the one for the grouping used.      *)
LEMMA CircleReported ==
  ASSUME TypeOK, CallInv, Reporting
  PROVE  Circle(InOwnStatements) \/ SelfNested
<1>1. CASE UsesCircular
  <2>1. /\ stack # <<>> /\ Used \in Known /\ Top.part = "body" /\ status[Used] = "processing"
        /\ Top.at <= Len(Stmts(Top))
    BY <1>1 DEF UsesCircular, Following
  <2>2. /\ Used \in Own /\ \E i \in DOMAIN stack : stack[i].def = Used
    BY <2>1 DEF CallInv, Known
  <2>3. PICK s : s = stack
    OBVIOUS
  <2>4. /\ s \in Seq(Frame) /\ scn \in Scenario /\ DOMAIN s = 1 .. Len(s) /\ Len(s) \in Nat
        /\ 1 \in 1 .. Len(s) /\ Top = s[1]
    BY <2>1, <2>3, TopOK DEF TypeOK
  <2>5. \A i \in 1 .. Len(s) :
           /\ s[i].def \in Own
           /\ i > 1 => /\ s[i].part = "body" /\ s[i].at <= Len(scn.body[s[i].def].uses)
                       /\ scn.body[s[i].def].uses[s[i].at] = s[i - 1].def
    BY <2>3, <2>4 DEF CallInv, CallsOK
  <2>6. PICK k \in 1 .. Len(s) : s[k].def = Used
    BY <2>2, <2>3, <2>4
  <2> DEFINE S == {s[i].def : i \in 1 .. k}
  <2>7. \A g : g \in S <=> \E i \in 1 .. k : g = s[i].def
    OBVIOUS
  <2> HIDE DEF S
  <2>8. \A i \in 1 .. k : i \in 1 .. Len(s)
    BY <2>4
  <2>9. S \subseteq Own /\ S # {}
    <3>1. 1 \in 1 .. k
      BY <2>4, <2>6
    <3> QED  BY <2>5, <2>7, <2>8, <3>1
  <2>10. ASSUME NEW i \in 1 .. k PROVE BodyUses(s[i].def) \cap S # {}
    <3>1. CASE i = 1
      <4>1. Top.def \in Own
        BY <2>4, <2>5
      <4>2. Used \in BodyUses(Top.def)
        BY <2>1, <2>2, <4>1, UsedInBody
      <4>3. k \in 1 .. k
        BY <2>4, <2>6
      <4>4. Used \in S
        BY <2>6, <2>7, <4>3
      <4> QED  BY <2>4, <3>1, <4>2, <4>4
    <3>2. CASE i # 1
      <4>1. i > 1 /\ i \in 1 .. Len(s) /\ i - 1 \in 1 .. k
        BY <2>4, <2>8, <3>2
      <4>2. /\ s[i].at <= Len(scn.body[s[i].def].uses) /\ s[i].def \in Own
            /\ scn.body[s[i].def].uses[s[i].at] = s[i - 1].def
        BY <2>5, <4>1
      <4>3. PICK u : u = scn.body[s[i].def].uses
        OBVIOUS
      <4>4. u \in Seq(Ref)
        BY <2>4, <4>2, <4>3, ScenarioOK
      <4>5. s[i].at \in Nat \ {0}
        <5>1. s[i] \in Frame
          BY <2>4, <4>1
        <5> QED  BY <5>1 DEF Frame
      <4>6. s[i].at \in 1 .. Len(u) /\ DOMAIN u = 1 .. Len(u)
        BY <4>2, <4>3, <4>4, <4>5
      <4>7. s[i - 1].def \in Range(u)
        BY <4>2, <4>3, <4>6 DEF Range
      <4>8. s[i - 1].def \in S
        BY <2>7, <4>1
      <4> QED  BY <2>9, <4>3, <4>7, <4>8 DEF BodyUses
    <3> QED  BY <3>1, <3>2
  <2>11. \A g \in S : InOwnStatements[g] \cap S # {}
    BY <2>7, <2>9, <2>10 DEF InOwnStatements
  <2> QED  BY <2>9, <2>11 DEF Circle
<1>2. CASE UsesInner /\ Top.part = "nested"
  <2>1. stack # <<>> /\ Used = Inner /\ HasInner(Top.def) /\ Top.at <= Len(Stmts(Top))
    BY <1>2 DEF UsesInner, Following
  <2>2. Top.def \in Own
    BY <2>1, TopOK DEF CallInv, CallsOK
  <2>3. Inner \in NestedUses(Top.def)
    BY <1>2, <2>1, <2>2, UsedInNested
  <2> QED  BY <2>2, <2>3 DEF SelfNested
<1> QED  BY <1>1, <1>2 DEF Reporting

(* What is known of a call is kept.                                        *)
LEMMA PassedKept ==
  ASSUME [Next]_vars, NEW f, Passed(f), \A u \in Own : status[u] = "done" => status'[u] = "done"
  PROVE  Passed(f)'
<1>1. scn' = scn /\ Own' = Own /\ \A g : NestedUses(g)' = NestedUses(g)
  BY SameScenario
<1> QED  BY <1>1 DEF Passed

LEMMA MovePassed ==
  ASSUME TypeOK, CallInv, Moves, [Next]_vars, Passed(Top), ~Reporting, NEW f, f = stack'[1]
  PROVE  Passed(f)'
<1>1. scn' = scn /\ Own' = Own /\ (\A g : NestedUses(g)' = NestedUses(g)) /\ status' = status
  BY SameScenario, MovesOK
<1>2. f.def = Top.def /\ f.part = Top.part /\ f.at = Top.at + 1
  BY MovesOK
<1>3. stack # <<>> /\ Top.at <= Len(Stmts(Top)) /\ Top = stack[1] /\ Top \in Frame
  BY MovesOK, TopOK
<1>4. Top.def \in Own /\ (Top.part = "nested" => HasInner(Top.def)) /\ Top.at \in Nat \ {0}
      /\ Inner \notin Known /\ Own \subseteq Known
  BY <1>3, TopOK, ScenarioOK DEF CallInv, CallsOK, Frame, TypeOK, Known
<1>5. CASE Top.part = "nested"
  <2>1. Used = scn.body[Top.def].nested[1][Top.at]
    BY <1>3, <1>4, <1>5, UsedInNested
  <2>2. Used # Inner
    BY <1>4, <1>5 DEF Moves, Reporting, UsesMissing, UsesInner, UsesOuter, UsesFromNested, UsesDone,
                          UsesCircular
  <2>3. \A k \in 1 .. Top.at - 1 : scn.body[Top.def].nested[1][k] # Inner
    BY <1>5 DEF Passed
  <2>4. \A k \in 1 .. f.at - 1 : k \in 1 .. Top.at - 1 \/ k = Top.at
    BY <1>2, <1>4
  <2>5. \A k \in 1 .. f.at - 1 : scn.body[f.def].nested[1][k] # Inner
    BY <1>2, <2>1, <2>2, <2>3, <2>4
  <2> QED  BY <1>1, <1>2, <1>5, <2>5 DEF Passed
<1>6. CASE Top.part = "body"
  <2>1. Used = scn.body[Top.def].uses[Top.at]
    BY <1>3, <1>4, <1>6, UsedInBody
  <2>2. Used \in Own => status[Used] = "done"
    BY <1>4, <1>6 DEF Moves, Reporting, UsesMissing, UsesInner, UsesOuter, UsesFromNested, UsesDone,
                          UsesCircular
  <2>3. /\ Inner \notin NestedUses(Top.def)
        /\ \A k \in 1 .. Top.at - 1 :
             scn.body[Top.def].uses[k] \in Own => status[scn.body[Top.def].uses[k]] = "done"
    BY <1>6 DEF Passed
  <2>4. \A k \in 1 .. f.at - 1 : k \in 1 .. Top.at - 1 \/ k = Top.at
    BY <1>2, <1>4
  <2>5. \A k \in 1 .. f.at - 1 :
             scn.body[f.def].uses[k] \in Own => status[scn.body[f.def].uses[k]] = "done"
    BY <1>2, <2>1, <2>2, <2>3, <2>4
  <2> QED  BY <1>1, <1>2, <1>6, <2>3, <2>5 DEF Passed
<1> QED  BY <1>3, <1>5, <1>6 DEF Frame

LEMMA OpenPassed ==
  ASSUME TypeOK, [Next]_vars, NEW g \in Own, NEW f,
         f.def = g, f.part = (IF HasInner(g) THEN "nested" ELSE "body"), f.at = 1
  PROVE  Passed(f)'
<1>1. scn' = scn /\ Own' = Own /\ \A h : NestedUses(h)' = NestedUses(h)
  BY SameScenario
<1>2. \A k \in 1 .. f.at - 1 : FALSE
  OBVIOUS
<1>3. f.part = "body" => NestedUses(g) = {}
  BY DEF NestedUses
<1> QED  BY <1>1, <1>2, <1>3 DEF Passed

(* The invariant after a step, from the groupings then done.               *)
LEMMA CircleAfter ==
  ASSUME [Next]_vars, TypeOK, TypeOK', NoneCircular',
         NEW D, \A u : u \in D <=> u \in Own /\ status'[u] = "done",
         \A g \in D : Inner \notin NestedUses(g) /\ BodyUses(g) \subseteq D,
         \A S \in (SUBSET D) \ {{}} : \E g \in S : BodyUses(g) \cap S = {},
         NEW t, t = stack', \A i \in DOMAIN t : Passed(t[i])'
  PROVE  CircleInv'
<1>1. /\ scn' = scn /\ Own' = Own
      /\ \A g : BodyUses(g)' = BodyUses(g) /\ NestedUses(g)' = NestedUses(g)
  BY SameScenario
<1>2. Done' = D
  BY <1>1 DEF Done
<1>3. \A g \in Done' : Inner \notin NestedUses(g)' /\ BodyUses(g)' \subseteq Done'
  BY <1>1, <1>2
<1>4. \A S \in (SUBSET Done') \ {{}} : \E g \in S : BodyUses(g)' \cap S = {}
  BY <1>1, <1>2
<1>5. (\A i \in DOMAIN stack : Passed(stack[i]))'
  BY DEF Passed
<1> QED  BY <1>3, <1>4, <1>5 DEF CircleInv

LEMMA InitCircleInv == Init => CircleInv
<1> SUFFICES ASSUME Init
             PROVE  CircleInv
  OBVIOUS
<1>1. scn \in Scenario /\ Own \subseteq Grouping /\ scn.given \cap Own = {}
  BY ScenarioOK DEF Init
<1>2. \A g \in Own : status[g] # "done"
  BY <1>1 DEF Init
<1>3. Done = {} /\ DOMAIN stack = {} /\ DOMAIN errors = {}
  BY <1>2 DEF Done, Init
<1> QED  BY <1>3 DEF CircleInv, NoneCircular

LEMMA CircleStep ==
  ASSUME TypeOK, TypeOK', CallInv, CircleInv, [Next]_vars
  PROVE  CircleInv'
<1>1. CASE ~NoneCircular'
  <2>1. Circle(InOwnStatements) \/ SelfNested
    BY <1>1, ErrorsStep, CircleReported DEF CircleInv
  <2> QED  BY <1>1, <2>1, SameScenario DEF CircleInv
<1>2. CASE NoneCircular'
  <2>1. NoneCircular /\ ~Reporting
    BY <1>2, ErrorsStep
  <2>2. /\ \A g \in Done : Inner \notin NestedUses(g) /\ BodyUses(g) \subseteq Done
        /\ \A S \in (SUBSET Done) \ {{}} : \E g \in S : BodyUses(g) \cap S = {}
        /\ \A i \in DOMAIN stack : Passed(stack[i])
    BY <2>1 DEF CircleInv
  <2>3. /\ stack \in Seq(Frame) /\ stack' \in Seq(Frame) /\ scn \in Scenario /\ Own \subseteq Grouping
        /\ status \in [Grouping -> {"raw", "processing", "done"}]
    BY ScenarioOK DEF TypeOK
  <2>4. \A u : u \in Done <=> u \in Own /\ status[u] = "done"
    BY DEF Done
  <2>5. PICK s, t : s = stack /\ t = stack'
    OBVIOUS
  <2>6. /\ s \in Seq(Frame) /\ t \in Seq(Frame) /\ DOMAIN s = 1 .. Len(s) /\ DOMAIN t = 1 .. Len(t)
        /\ Len(s) \in Nat /\ Len(t) \in Nat
        /\ \A i \in 1 .. Len(s) : Passed(s[i])
    BY <2>2, <2>3, <2>5
  <2>7. ASSUME \A u \in Own : status'[u] = "done" <=> status[u] = "done",
               \A i \in DOMAIN t : Passed(t[i])'
        PROVE  CircleInv'
    <3>1. \A u : u \in Done <=> u \in Own /\ status'[u] = "done"
      BY <2>4, <2>7
    <3> QED  BY <1>2, <2>2, <2>5, <2>7, <3>1, CircleAfter
  <2>8. ASSUME NEW g \in Own, status[g] = "raw", Open(g)
        PROVE  CircleInv'
    <3>1. g \in Grouping
      BY <2>3
    <3>2. \A u \in Own : status'[u] = IF u = g THEN "processing" ELSE status[u]
      BY <2>3, <2>8 DEF Open
    <3>3. \A u \in Own : status'[u] = "done" <=> status[u] = "done"
      BY <2>8, <3>2
    <3>4. /\ Len(t) = Len(s) + 1 /\ t[1].def = g /\ t[1].at = 1
          /\ t[1].part = (IF HasInner(g) THEN "nested" ELSE "body")
          /\ \A i \in 1 .. Len(s) : t[i + 1] = s[i]
      BY <2>5, <2>8, <3>1, OpenOK
    <3>5. ASSUME NEW i \in DOMAIN t PROVE Passed(t[i])'
      <4>1. CASE i = 1
        <5>1. PICK f : f = t[1]
          OBVIOUS
        <5>2. Passed(f)'
          BY <3>4, <5>1, OpenPassed
        <5> QED  BY <4>1, <5>1, <5>2
      <4>2. CASE i # 1
        <5>1. i - 1 \in 1 .. Len(s) /\ (i - 1) + 1 = i
          BY <2>6, <3>4, <4>2
        <5>2. t[i] = s[i - 1] /\ Passed(s[i - 1])
          BY <2>6, <3>4, <5>1
        <5>3. PICK f : f = t[i]
          OBVIOUS
        <5>4. Passed(f)
          BY <5>2, <5>3
        <5>5. Passed(f)'
          BY <3>3, <5>4, PassedKept
        <5> QED  BY <5>3, <5>5
      <4> QED  BY <4>1, <4>2
    <3> QED  BY <2>7, <3>3, <3>5
  <2>9. ASSUME \A i \in DOMAIN t : i \in 1 .. Len(s) /\ (i > 1 => t[i] = s[i]),
               status' = status, 1 \in DOMAIN t => Passed(t[1])'
        PROVE  CircleInv'
    <3>1. ASSUME NEW i \in DOMAIN t PROVE Passed(t[i])'
      <4>1. CASE i = 1
        BY <2>9, <4>1
      <4>2. CASE i # 1
        <5>1. PICK f : f = t[i]
          OBVIOUS
        <5>2. i > 1
          BY <2>6, <4>2
        <5>3. Passed(f)
          BY <2>6, <2>9, <5>1, <5>2
        <5>4. Passed(f)'
          BY <2>9, <5>3, PassedKept
        <5> QED  BY <5>1, <5>4
      <4> QED  BY <4>1, <4>2
    <3> QED  BY <2>7, <2>9, <3>1
  <2>10. ASSUME UNCHANGED <<status, stack>> PROVE CircleInv'
    <3>1. ASSUME 1 \in DOMAIN t PROVE Passed(t[1])'
      <4>1. PICK f : f = t[1]
        OBVIOUS
      <4>2. Passed(f)
        BY <2>5, <2>6, <2>10, <3>1, <4>1
      <4>3. Passed(f)'
        BY <2>10, <4>2, PassedKept
      <4> QED  BY <4>1, <4>3
    <3> QED  BY <2>5, <2>6, <2>9, <2>10, <3>1
  <2>11. CASE CollectDeps \/ SortPairs \/ Round \/ Cycle \/ Sorted \/ StartDone \/ Finish \/ UNCHANGED vars
    BY <2>10, <2>11 DEF CollectDeps, SortPairs, Round, Cycle, Sorted, Ordered, StartDone, Running, Finish, vars
  <2>12. CASE Start
    <3>1. Open(Head(todo)) /\ status[Head(todo)] = "raw" /\ Head(todo) \in Own
      BY <2>12 DEF Start, Running, TypeOK
    <3> QED  BY <2>8, <3>1
  <2>13. CASE UsesRaw
    <3>1. Open(Used) /\ status[Used] = "raw" /\ Used \in Known
      BY <2>13 DEF UsesRaw
    <3>2. Used \in Own
      BY <3>1 DEF CallInv, Known
    <3> QED  BY <2>8, <3>1, <3>2
  <2>14. CASE Moves
    <3>1. /\ Len(t) = Len(s) /\ status' = status /\ 1 \in 1 .. Len(s) /\ s[1] = Top
          /\ \A i \in 1 .. Len(s) : i > 1 => t[i] = s[i]
      BY <2>5, <2>14, MovesOK
    <3>2. PICK f : f = t[1]
      OBVIOUS
    <3>3. Passed(Top)
      BY <2>6, <3>1
    <3>4. Passed(f)'
      BY <2>1, <2>5, <2>14, <3>2, <3>3, MovePassed
    <3> QED  BY <2>6, <2>9, <3>1, <3>2, <3>4
  <2>15. CASE CloseNested
    <3>1. /\ Len(t) = Len(s) /\ status' = status /\ 1 \in 1 .. Len(s) /\ s[1] = Top
          /\ t[1].def = Top.def /\ t[1].part = "body" /\ t[1].at = 1
          /\ \A i \in 1 .. Len(s) : i > 1 => t[i] = s[i]
          /\ Top.part = "nested" /\ ~(Top.at <= Len(Stmts(Top)))
      BY <2>5, <2>15, CloseNestedOK
    <3>2. Passed(Top) /\ Top.def \in Own /\ HasInner(Top.def) /\ Top \in Frame
      BY <2>5, <2>6, <3>1 DEF CallInv, CallsOK
    <3>3. Inner \notin NestedUses(Top.def)
      <4>1. PICK n : n = scn.body[Top.def].nested[1]
        OBVIOUS
      <4>2. n \in Seq(Ref) /\ NestedUses(Top.def) = Range(n) /\ Stmts(Top) = n
        BY <2>3, <3>1, <3>2, <4>1, ScenarioOK DEF NestedUses, Stmts
      <4>3. \A k \in 1 .. Top.at - 1 : n[k] # Inner
        BY <3>1, <3>2, <4>1 DEF Passed
      <4>4. Top.at \in Nat
        BY <3>2 DEF Frame
      <4>5. \A k \in 1 .. Len(n) : k \in 1 .. Top.at - 1
        BY <3>1, <4>2, <4>4
      <4>6. DOMAIN n = 1 .. Len(n)
        BY <4>2
      <4> QED  BY <4>2, <4>3, <4>5, <4>6 DEF Range
    <3>4. PICK f : f = t[1]
      OBVIOUS
    <3>5. Passed(f)'
      <4>1. scn' = scn /\ \A g : NestedUses(g)' = NestedUses(g)
        BY SameScenario
      <4>2. f.def = Top.def /\ f.part = "body" /\ f.at = 1
        BY <3>1, <3>4
      <4>3. \A k \in 1 .. f.at - 1 : FALSE
        BY <4>2
      <4> QED  BY <3>3, <4>1, <4>2, <4>3 DEF Passed
    <3> QED  BY <2>6, <2>9, <3>1, <3>4, <3>5
  <2>16. CASE Close
    <3> DEFINE d == Top.def
    <3>1. /\ d \in Own /\ Len(t) = Len(s) - 1
          /\ \A i \in 1 .. Len(t) : i + 1 \in 1 .. Len(s) /\ t[i] = s[i + 1]
          /\ \A h \in Grouping : status'[h] = IF h = d THEN "done" ELSE status[h]
      BY <2>5, <2>16, CloseCalls
    <3>2. stack # <<>> /\ Top.part = "body" /\ Top.at > Len(Stmts(Top))
      BY <2>16 DEF Close, Exhausted
    <3>3. Top = s[1] /\ 1 \in 1 .. Len(s) /\ Top \in Frame
      BY <2>5, <3>2, TopOK
    <3>4. Passed(Top)
      BY <2>6, <3>3
    <3>5. d \notin Done
      <4>1. status[d] = "processing"
        BY <2>5, <2>6, <3>1, <3>3 DEF CallInv
      <4> QED  BY <2>4, <4>1
    <3>6. Inner \notin NestedUses(d)
      BY <3>2, <3>4 DEF Passed
    <3>7. BodyUses(d) \subseteq Done
      <4>1. PICK n : n = scn.body[d].uses
        OBVIOUS
      <4>2. n \in Seq(Ref) /\ Stmts(Top) = n
        BY <2>3, <3>1, <3>2, <4>1, ScenarioOK DEF Stmts
      <4>3. \A k \in 1 .. Top.at - 1 : n[k] \in Own => status[n[k]] = "done"
        BY <3>2, <3>4, <4>1 DEF Passed
      <4>4. Top.at \in Nat
        BY <3>3 DEF Frame
      <4>5. \A k \in 1 .. Len(n) : k \in 1 .. Top.at - 1
        BY <3>2, <4>2, <4>4
      <4>6. DOMAIN n = 1 .. Len(n)
        BY <4>2
      <4>7. \A u \in Range(n) : u \in Own => u \in Done
        BY <2>4, <4>3, <4>5, <4>6 DEF Range
      <4> QED  BY <4>1, <4>7 DEF BodyUses
    <3> HIDE DEF d
    <3>8. PICK D : D = Done \cup {d}
      OBVIOUS
    <3>9. \A u : u \in D <=> u \in Own /\ status'[u] = "done"
      BY <2>3, <2>4, <3>1, <3>8
    <3>10. \A g \in D : Inner \notin NestedUses(g) /\ BodyUses(g) \subseteq D
      BY <2>2, <3>6, <3>7, <3>8
    <3>11. ASSUME NEW S \in (SUBSET D) \ {{}} PROVE \E g \in S : BodyUses(g) \cap S = {}
      <4>1. CASE S \ {d} = {}
        <5>1. d \in S /\ S = {d}
          BY <4>1
        <5> QED  BY <3>5, <3>7, <5>1
      <4>2. CASE S \ {d} # {}
        <5>1. S \ {d} \in (SUBSET Done) \ {{}}
          BY <3>8, <4>2
        <5>2. PICK g \in S \ {d} : BodyUses(g) \cap (S \ {d}) = {}
          BY <2>2, <5>1
        <5>3. g \in Done /\ BodyUses(g) \subseteq Done
          BY <2>2, <5>1, <5>2
        <5> QED  BY <3>5, <5>2, <5>3
      <4> QED  BY <4>1, <4>2
    <3>12. \A u \in Own : status[u] = "done" => status'[u] = "done"
      BY <2>3, <3>1
    <3>13. ASSUME NEW i \in DOMAIN t PROVE Passed(t[i])'
      <4>1. PICK f : f = t[i]
        OBVIOUS
      <4>2. Passed(f)
        BY <2>6, <3>1, <4>1
      <4>3. Passed(f)'
        BY <3>12, <4>2, PassedKept
      <4> QED  BY <4>1, <4>3
    <3> QED  BY <1>2, <2>5, <3>9, <3>10, <3>11, <3>13, CircleAfter
  <2> QED  BY <2>11, <2>12, <2>13, <2>14, <2>15, <2>16 DEF Next, Moves, Terminated
<1> QED  BY <1>1, <1>2

-----------------------------------------------------------------------------
(* What a grouping needs.                                                  *)
LEMMA ReachOwn ==
  ASSUME NEW g \in Own
  PROVE  \A l : l \in Reach(g) <=> l = g \/ \E u \in Needs(g) : l \in Reach(u)
<1>1. \A h : Needs(h) \subseteq Known
  BY DEF Needs
<1>2. \A u, l : l \in Reach(u) <=>
        l \in Known /\ \A S \in SUBSET Known : u \in S /\ Closed(S) => l \in S
  BY DEF Reach
<1>3. \A S : Closed(S) <=> \A h \in S : h \in Own => Needs(h) \subseteq S
  BY DEF Closed
<1>4. g \in Known
  BY DEF Known
<1>5. \A u \in Known : u \in Reach(u)
  BY <1>2
<1>6. PICK T : \A l : l \in T <=> l = g \/ \E u \in Needs(g) : l \in Reach(u)
  <2> DEFINE W == {g} \cup UNION {Reach(u) : u \in Needs(g)}
  <2>1. \A l : l \in W <=> l = g \/ \E u \in Needs(g) : l \in Reach(u)
    OBVIOUS
  <2> QED  BY <2>1
<1>7. T \in SUBSET Known
  BY <1>2, <1>4, <1>6
<1>8. ASSUME NEW u, NEW h \in Reach(u), h \in Own PROVE Needs(h) \subseteq Reach(u)
  <2> SUFFICES ASSUME NEW n \in Needs(h)
               PROVE  n \in Reach(u)
    OBVIOUS
  <2>1. n \in Known
    BY <1>1
  <2>2. ASSUME NEW S \in SUBSET Known, u \in S, Closed(S) PROVE n \in S
    <3>1. h \in S
      BY <1>2, <2>2
    <3> QED  BY <1>3, <1>8, <2>2, <3>1
  <2> QED  BY <1>2, <2>1, <2>2
<1>9. Closed(T)
  <2> SUFFICES ASSUME NEW h \in T, h \in Own, NEW n \in Needs(h)
               PROVE  n \in T
    BY <1>3
  <2>1. CASE h = g
    BY <1>1, <1>5, <1>6, <2>1
  <2>2. ASSUME NEW u \in Needs(g), h \in Reach(u) PROVE n \in T
    <3>1. n \in Reach(u)
      BY <1>8, <2>2
    <3> QED  BY <1>6, <3>1
  <2> QED  BY <1>6, <2>1, <2>2
<1>10. \A l \in Reach(g) : l \in T
  BY <1>2, <1>6, <1>7, <1>9
<1>11. ASSUME NEW u \in Needs(g), NEW l \in Reach(u) PROVE l \in Reach(g)
  <2>1. ASSUME NEW S \in SUBSET Known, g \in S, Closed(S) PROVE l \in S
    <3>1. u \in S
      BY <1>3, <2>1
    <3> QED  BY <1>2, <2>1, <3>1
  <2>2. l \in Known
    BY <1>2
  <2> QED  BY <1>2, <2>1, <2>2
<1>12. g \in Reach(g)
  BY <1>4, <1>5
<1> QED  BY <1>6, <1>10, <1>11, <1>12

LEMMA ReachGiven ==
  ASSUME scn \in Scenario, NEW g \in scn.given
  PROVE  Reach(g) = {g}
<1>1. scn.given \cap Own = {} /\ g \in Known
  BY ScenarioOK DEF Known
<1>2. {g} \in SUBSET Known /\ Closed({g})
  BY <1>1 DEF Closed
<1>3. \A l : l \in Reach(g) <=>
        l \in Known /\ \A S \in SUBSET Known : g \in S /\ Closed(S) => l \in S
  BY DEF Reach
<1>4. g \in Reach(g)
  BY <1>1, <1>3
<1>5. \A l \in Reach(g) : l \in {g}
  BY <1>2, <1>3
<1> QED  BY <1>4, <1>5

LEMMA ReachOfOK ==
  /\ \A U, x : x \in ReachOf(U) <=> \E u \in U : u \in Known /\ x \in Reach(u)
  /\ \A x : x \in Known => ReachOf({x}) = Reach(x)
  /\ \A x : x \notin Known => ReachOf({x}) = {}
  /\ \A U, V : ReachOf(U \cup V) = ReachOf(U) \cup ReachOf(V)
  /\ ReachOf({}) = {}
<1>1. \A U, x : x \in ReachOf(U) <=> \E u \in U : u \in Known /\ x \in Reach(u)
  BY DEF ReachOf
<1>2. ASSUME NEW x, x \in Known PROVE ReachOf({x}) = Reach(x)
  <2>1. \A y : y \in ReachOf({x}) <=> y \in Reach(x)
    BY <1>1, <1>2
  <2> QED  BY <2>1
<1>3. ASSUME NEW x, x \notin Known PROVE ReachOf({x}) = {}
  <2>1. \A y : y \notin ReachOf({x})
    BY <1>1, <1>3
  <2> QED  BY <2>1
<1>4. ASSUME NEW U, NEW V PROVE ReachOf(U \cup V) = ReachOf(U) \cup ReachOf(V)
  <2>1. \A y : y \in ReachOf(U \cup V) <=> y \in ReachOf(U) \/ y \in ReachOf(V)
    BY <1>1
  <2> QED  BY <2>1
<1>5. ReachOf({}) = {}
  <2>1. \A y : y \notin ReachOf({})
    BY <1>1
  <2> QED  BY <2>1
<1> QED  BY <1>1, <1>2, <1>3, <1>4, <1>5

LEMMA GatheredOK ==
  /\ \A s : Gathered(s, 1) = {}
  /\ \A s : \A n \in Nat \ {0} : Gathered(s, n + 1) = Gathered(s, n) \cup {s[n]}
  /\ \A T : \A s \in Seq(T) : Gathered(s, Len(s) + 1) = Range(s)
<1>1. \A s, n, x : x \in Gathered(s, n) <=> \E k \in 1 .. n - 1 : x = s[k]
  BY DEF Gathered
<1>2. ASSUME NEW s PROVE Gathered(s, 1) = {}
  <2>1. \A k \in 1 .. 1 - 1 : FALSE
    OBVIOUS
  <2> QED  BY <1>1, <2>1
<1>3. ASSUME NEW s, NEW n \in Nat \ {0} PROVE Gathered(s, n + 1) = Gathered(s, n) \cup {s[n]}
  <2>1. \A k : k \in 1 .. (n + 1) - 1 <=> k \in 1 .. n - 1 \/ k = n
    OBVIOUS
  <2>2. \A x : x \in Gathered(s, n + 1) <=> x \in Gathered(s, n) \/ x = s[n]
    BY <1>1, <2>1
  <2> QED  BY <2>2
<1>4. ASSUME NEW T, NEW s \in Seq(T) PROVE Gathered(s, Len(s) + 1) = Range(s)
  <2>1. (Len(s) + 1) - 1 = Len(s)
    OBVIOUS
  <2>2. \A x : x \in Range(s) <=> \E k \in 1 .. Len(s) : x = s[k]
    BY RangeIsIn
  <2>3. \A x : x \in Gathered(s, Len(s) + 1) <=> x \in Range(s)
    BY <1>1, <2>1, <2>2
  <2> QED  BY <2>3
<1> QED  BY <1>2, <1>3, <1>4

LEMMA SameReach ==
  ASSUME [Next]_vars
  PROVE  /\ \A g : Reach(g)' = Reach(g)
         /\ \A f : Gathers(f)' <=> Gathers(f)
<1>1. /\ scn' = scn /\ Own' = Own /\ Known' = Known
      /\ \A g : Needs(g)' = Needs(g) /\ NestedUses(g)' = NestedUses(g)
  BY SameScenario
<1>2. \A S : Closed(S)' <=> Closed(S)
  BY <1>1 DEF Closed
<1>3. \A g : Reach(g)' = Reach(g)
  BY <1>1, <1>2 DEF Reach
<1>4. \A U : ReachOf(U)' = ReachOf(U)
  BY <1>1, <1>3 DEF ReachOf
<1>5. \A f : Stmts(f)' = Stmts(f)
  BY <1>1 DEF Stmts
<1>6. \A s, n : Gathered(s, n)' = Gathered(s, n)
  BY DEF Gathered
<1>7. \A f : Gathers(f)' <=> Gathers(f)
  BY <1>1, <1>4, <1>5, <1>6 DEF Gathers
<1> QED  BY <1>3, <1>7

(* What the next `uses' adds to the leaves.                                *)
LEMMA NextLeaves ==
  ASSUME TypeOK, CallInv, OrderInv, LeavesInv, Moves, ~Circle(InAnyStatement)
  PROVE  \E ls \in SUBSET Grouping :
           /\ stack' = Advanced(ls)
           /\ Used \in Known => ls = Reach(Used)
           /\ Used \notin Known /\ ~(Used = Inner /\ Top.part = "body") => ls = {}
           /\ Used = Inner /\ Top.part = "body" =>
                ls = Top.inner \/ (ls = {} /\ NestedUses(Top.def) = {})
<1>1. /\ stack # <<>> /\ Top.at <= Len(Stmts(Top)) /\ Top = stack[1] /\ Top \in Frame
      /\ phase = "running" /\ 1 \in DOMAIN stack
  BY MovesOK, TopOK
<1>2. /\ Top.def \in Own /\ (Top.part = "nested" => HasInner(Top.def))
      /\ Inner \notin Known /\ Own \subseteq Known /\ Known \subseteq Grouping
  BY <1>1, ScenarioOK DEF CallInv, CallsOK, TypeOK, Known
<1>3. /\ leaves \in [Grouping -> SUBSET Grouping] /\ copy \in [Grouping -> SUBSET Grouping]
      /\ scn \in Scenario
  BY DEF TypeOK
<1>4. ASSUME NEW u \in AllUses(Top.def), u \in Own
      PROVE  status[u] = "done" /\ copy[u] = leaves[u] /\ leaves[u] = Reach(u)
  <2>1. status[u] = "done" /\ copy[u] = leaves[u]
    BY <1>1, <1>4, OrderParts
  <2>2. u \in Done
    BY <1>4, <2>1 DEF Done
  <2> QED  BY <2>1, <2>2 DEF LeavesInv
<1>5. ASSUME NEW g \in scn.given PROVE leaves[g] = Reach(g) /\ copy[g] = Reach(g) /\ status[g] = "done"
  BY <1>3, ReachGiven DEF CallInv
<1>6. Used \in Own => Used \in AllUses(Top.def)
  BY <1>1, <1>2, UsedInBody, UsedInNested DEF Frame
<1>7. Used \in Known => status[Used] = "done" /\ leaves[Used] = Reach(Used) /\ copy[Used] = Reach(Used)
  BY <1>4, <1>5, <1>6 DEF Known
<1>8. CASE UsesMissing
  <2>1. /\ stack' = Advanced({}) /\ Used \notin Known /\ (Used = Inner => ~HasInner(Top.def))
    BY <1>8 DEF UsesMissing
  <2>2. Used = Inner => NestedUses(Top.def) = {}
    BY <2>1 DEF NestedUses
  <2> QED  BY <2>1, <2>2
<1>9. CASE UsesInner
  <2>1. /\ Used = Inner
        /\ Top.part = "nested" => stack' = Advanced({})
        /\ Top.part # "nested" => stack' = Advanced(Top.inner)
    BY <1>9 DEF UsesInner
  <2>2. Top.inner \in SUBSET Grouping /\ Top.part \in {"nested", "body"}
    BY <1>1 DEF Frame
  <2> QED  BY <1>2, <2>1, <2>2
<1>10. CASE UsesFromNested
  <2>1. stack' = Advanced(copy[Used]) /\ Used \in Known /\ copy[Used] \in SUBSET Grouping
    BY <1>2, <1>3, <1>10 DEF UsesFromNested
  <2> QED  BY <1>2, <1>7, <2>1
<1>11. CASE UsesDone
  <2>1. stack' = Advanced(leaves[Used]) /\ Used \in Known /\ leaves[Used] \in SUBSET Grouping
    BY <1>2, <1>3, <1>11 DEF UsesDone
  <2> QED  BY <1>2, <1>7, <2>1
<1>12. ~UsesCircular
  BY <1>7 DEF UsesCircular
<1>13. ~UsesOuter
  <2>1. Len(stack) <= 1 /\ Len(stack) \in Nat
    BY <1>1, OrderParts DEF TypeOK
  <2>2. InScope(2) = {}
    BY <2>1 DEF InScope
  <2> QED  BY <2>2 DEF UsesOuter
<1> QED  BY <1>8, <1>9, <1>10, <1>11, <1>12, <1>13 DEF Moves

LEMMA MoveGathers ==
  ASSUME TypeOK, CallInv, OrderInv, LeavesInv, Moves, ~Circle(InAnyStatement), Gathers(Top),
         NEW f, f = stack'[1]
  PROVE  Gathers(f)
<1>1. PICK ls \in SUBSET Grouping :
        /\ stack' = Advanced(ls)
        /\ Used \in Known => ls = Reach(Used)
        /\ Used \notin Known /\ ~(Used = Inner /\ Top.part = "body") => ls = {}
        /\ Used = Inner /\ Top.part = "body" =>
             ls = Top.inner \/ (ls = {} /\ NestedUses(Top.def) = {})
  BY NextLeaves
<1>2. /\ f.def = Top.def /\ f.part = Top.part /\ f.at = Top.at + 1 /\ f.inner = Top.inner
      /\ f.leaves = Top.leaves \cup ls
  BY <1>1, MovesOK
<1>3. /\ stack # <<>> /\ Top.at <= Len(Stmts(Top)) /\ Top = stack[1] /\ Top \in Frame
      /\ 1 \in DOMAIN stack
  BY MovesOK, TopOK
<1>4. /\ Top.def \in Own /\ (Top.part = "nested" => HasInner(Top.def)) /\ Inner \notin Known
      /\ Top.at \in Nat \ {0} /\ Top.part \in {"nested", "body"}
  BY <1>3, ScenarioOK DEF CallInv, CallsOK, Frame, TypeOK
<1>5. Stmts(f) = Stmts(Top)
  BY <1>2 DEF Stmts
<1>6. CASE Top.part = "nested"
  <2>1. PICK n : n = scn.body[Top.def].nested[1]
    OBVIOUS
  <2>2. Used = n[Top.at] /\ Top.at \in 1 .. Len(n) /\ Stmts(Top) = n
    BY <1>3, <1>4, <1>6, <2>1, UsedInNested DEF Stmts
  <2>3. ls = ReachOf({Used})
    BY <1>1, <1>6, ReachOfOK
  <2>4. Top.leaves = ReachOf(Gathered(n, Top.at))
    BY <1>6, <2>1 DEF Gathers
  <2>5. Gathered(n, f.at) = Gathered(n, Top.at) \cup {Used}
    BY <1>2, <1>4, <2>2, GatheredOK
  <2>6. f.leaves = ReachOf(Gathered(n, f.at))
    BY <1>2, <2>3, <2>4, <2>5, ReachOfOK
  <2>7. f.at <= Len(Stmts(f)) + 1
    BY <1>2, <1>5, <2>2
  <2>8. f.part = "nested" /\ f.leaves = ReachOf(Gathered(scn.body[f.def].nested[1], f.at))
    BY <1>2, <1>6, <2>1, <2>6
  <2> QED  BY <2>7, <2>8 DEF Gathers
<1>7. CASE Top.part = "body"
  <2>1. PICK n : n = scn.body[Top.def].uses
    OBVIOUS
  <2>2. Used = n[Top.at] /\ Top.at \in 1 .. Len(n) /\ Stmts(Top) = n
    BY <1>3, <1>4, <1>7, <2>1, UsedInBody DEF Stmts
  <2>3. PICK G : G = Gathered(n, Top.at)
    OBVIOUS
  <2>4. /\ Top.inner = ReachOf(NestedUses(Top.def))
        /\ Top.leaves = ReachOf(G) \cup (IF Inner \in G THEN Top.inner ELSE {})
    BY <1>7, <2>1, <2>3 DEF Gathers
  <2>5. Gathered(n, f.at) = G \cup {Used}
    BY <1>2, <1>4, <2>2, <2>3, GatheredOK
  <2>6. ReachOf(G \cup {Used}) = ReachOf(G) \cup ReachOf({Used})
    BY ReachOfOK
  <2>7. f.leaves = ReachOf(G \cup {Used}) \cup (IF Inner \in G \cup {Used} THEN f.inner ELSE {})
    <3>1. CASE Used = Inner
      <4>1. ReachOf({Used}) = {}
        BY <1>4, <3>1, ReachOfOK
      <4>2. ls = Top.inner \/ (ls = {} /\ Top.inner = {})
        BY <1>1, <1>7, <2>4, <3>1, ReachOfOK
      <4> QED  BY <1>2, <2>4, <2>6, <3>1, <4>1, <4>2
    <3>2. CASE Used # Inner
      <4>1. ls = ReachOf({Used})
        BY <1>1, <3>2, ReachOfOK
      <4>2. Inner \in G \cup {Used} <=> Inner \in G
        BY <3>2
      <4> QED  BY <1>2, <2>4, <2>6, <4>1, <4>2
    <3> QED  BY <3>1, <3>2
  <2>8. f.at <= Len(Stmts(f)) + 1
    BY <1>2, <1>5, <2>2
  <2>9. f.part = "body" /\ f.inner = ReachOf(NestedUses(f.def)) /\ scn.body[f.def].uses = n
    BY <1>2, <1>7, <2>1, <2>4
  <2>10. f.leaves = ReachOf(Gathered(n, f.at)) \cup (IF Inner \in Gathered(n, f.at) THEN f.inner ELSE {})
    BY <2>5, <2>7
  <2> QED  BY <2>8, <2>9, <2>10 DEF Gathers
<1> QED  BY <1>4, <1>6, <1>7

LEMMA OpenGathers ==
  ASSUME scn \in Scenario, NEW g \in Own, NEW f, f.def = g, f.at = 1, f.leaves = {}, f.inner = {},
         f.part = (IF HasInner(g) THEN "nested" ELSE "body")
  PROVE  Gathers(f)
<1>1. \A s : Gathered(s, f.at) = {}
  BY GatheredOK
<1>2. ReachOf({}) = {}
  BY ReachOfOK
<1>3. f.part = "body" => NestedUses(g) = {}
  BY DEF NestedUses
<1>4. f.at <= Len(Stmts(f)) + 1
  <2>1. PICK n : n = Stmts(f)
    OBVIOUS
  <2>2. n \in Seq(Ref)
    BY <2>1, ScenarioOK DEF Stmts
  <2>3. Len(n) \in Nat
    BY <2>2
  <2> QED  BY <2>1, <2>3
<1> QED  BY <1>1, <1>2, <1>3, <1>4 DEF Gathers

LEMMA CloseNestedGathers ==
  ASSUME TypeOK, CallInv, CloseNested, Gathers(Top), NEW f, f = stack'[1]
  PROVE  Gathers(f)
<1>1. /\ f.def = Top.def /\ f.part = "body" /\ f.at = 1 /\ f.leaves = {} /\ f.inner = Top.leaves
      /\ stack # <<>> /\ Top.part = "nested" /\ ~(Top.at <= Len(Stmts(Top)))
  BY CloseNestedOK
<1>2. Top = stack[1] /\ Top \in Frame /\ 1 \in DOMAIN stack /\ scn \in Scenario
  BY <1>1, TopOK DEF TypeOK
<1>3. Top.def \in Own /\ HasInner(Top.def) /\ Top.at \in Nat
  BY <1>1, <1>2 DEF CallInv, CallsOK, Frame
<1>4. PICK n : n = scn.body[Top.def].nested[1]
  OBVIOUS
<1>5. n \in Seq(Ref) /\ Stmts(Top) = n /\ NestedUses(Top.def) = Range(n)
  BY <1>1, <1>2, <1>3, <1>4, ScenarioOK DEF Stmts, NestedUses
<1>6. Top.at <= Len(n) + 1 /\ Top.leaves = ReachOf(Gathered(n, Top.at))
  BY <1>1, <1>4, <1>5 DEF Gathers
<1>7. Top.at = Len(n) + 1
  BY <1>1, <1>3, <1>5, <1>6
<1>8. f.inner = ReachOf(NestedUses(f.def))
  <2>1. Gathered(n, Len(n) + 1) = Range(n)
    BY <1>5, GatheredOK
  <2> QED  BY <1>1, <1>5, <1>6, <1>7, <2>1
<1>9. f.at <= Len(Stmts(f)) + 1
  <2>1. PICK m : m = Stmts(f)
    OBVIOUS
  <2>2. m \in Seq(Ref)
    BY <1>1, <1>2, <1>3, <2>1, ScenarioOK DEF Stmts
  <2>3. Len(m) \in Nat
    BY <2>2
  <2> QED  BY <1>1, <2>1, <2>3
<1>10. \A s : Gathered(s, f.at) = {}
  BY <1>1, GatheredOK
<1>11. f.leaves = ReachOf(Gathered(scn.body[f.def].uses, f.at)) \cup
                    (IF Inner \in Gathered(scn.body[f.def].uses, f.at) THEN f.inner ELSE {})
  BY <1>1, <1>10, ReachOfOK
<1> QED  BY <1>1, <1>8, <1>9, <1>11 DEF Gathers

LEMMA CloseReach ==
  ASSUME TypeOK, CallInv, Close, Gathers(Top)
  PROVE  {Top.def} \cup Top.leaves = Reach(Top.def)
<1>1. stack # <<>> /\ Top.part = "body" /\ Top.at > Len(Stmts(Top))
  BY DEF Close, Exhausted
<1>2. Top = stack[1] /\ Top \in Frame /\ 1 \in DOMAIN stack /\ scn \in Scenario
  BY <1>1, TopOK DEF TypeOK
<1>3. PICK d : d = Top.def
  OBVIOUS
<1>4. d \in Own /\ Top.at \in Nat
  BY <1>1, <1>2, <1>3 DEF CallInv, CallsOK, Frame
<1>5. PICK n : n = scn.body[d].uses
  OBVIOUS
<1>6. n \in Seq(Ref) /\ Stmts(Top) = n
  BY <1>1, <1>2, <1>3, <1>4, <1>5, ScenarioOK DEF Stmts
<1>7. /\ Top.at <= Len(n) + 1 /\ Top.inner = ReachOf(NestedUses(d))
      /\ Top.leaves = ReachOf(Gathered(n, Top.at)) \cup
                        (IF Inner \in Gathered(n, Top.at) THEN Top.inner ELSE {})
  BY <1>1, <1>3, <1>5, <1>6 DEF Gathers
<1>8. Top.at = Len(n) + 1
  BY <1>1, <1>4, <1>6, <1>7
<1>9. Gathered(n, Top.at) = Range(n)
  BY <1>6, <1>8, GatheredOK
<1>10. \A x : x \in Top.leaves <=>
         x \in ReachOf(Range(n)) \/ (Inner \in Range(n) /\ x \in ReachOf(NestedUses(d)))
  BY <1>7, <1>9
<1>11. \A u : u \in Needs(d) <=>
         u \in Known /\ (u \in Range(n) \/ (Inner \in Range(n) /\ u \in NestedUses(d)))
  BY <1>5 DEF Needs
<1>12. \A U, x : x \in ReachOf(U) <=> \E u \in U : u \in Known /\ x \in Reach(u)
  BY ReachOfOK
<1>13. \A x : x \in Top.leaves <=> \E u \in Needs(d) : x \in Reach(u)
  <2> SUFFICES ASSUME NEW x
               PROVE  x \in Top.leaves <=> \E u \in Needs(d) : x \in Reach(u)
    OBVIOUS
  <2>1. x \in ReachOf(Range(n)) <=> \E u \in Range(n) : u \in Known /\ x \in Reach(u)
    BY <1>12
  <2>2. x \in ReachOf(NestedUses(d)) <=> \E u \in NestedUses(d) : u \in Known /\ x \in Reach(u)
    BY <1>12
  <2> QED  BY <1>10, <1>11, <2>1, <2>2
<1>14. \A x : x \in Reach(d) <=> x = d \/ \E u \in Needs(d) : x \in Reach(u)
  BY <1>4, ReachOwn
<1>15. \A x : x \in {d} \cup Top.leaves <=> x \in Reach(d)
  BY <1>13, <1>14
<1> QED  BY <1>3, <1>15

LEMMA LeavesAfter ==
  ASSUME [Next]_vars, ~Circle(InAnyStatement), NEW t, t = stack',
         \A g \in Own : status'[g] = "done" => leaves'[g] = Reach(g),
         \A i \in DOMAIN t : Gathers(t[i])
  PROVE  LeavesInv'
<1>1. Own' = Own /\ (\A g : Reach(g)' = Reach(g)) /\ \A f : Gathers(f)' <=> Gathers(f)
  BY SameScenario, SameReach
<1>2. \A g \in Done' : leaves'[g] = Reach(g)'
  BY <1>1 DEF Done
<1>3. (\A i \in DOMAIN stack : Gathers(stack[i]))'
  <2>1. \A i \in DOMAIN t : Gathers(t[i])'
    BY <1>1
  <2> QED  BY <2>1 DEF Gathers
<1> QED  BY <1>2, <1>3 DEF LeavesInv

LEMMA InitLeavesInv == Init => LeavesInv
<1> SUFFICES ASSUME Init
             PROVE  LeavesInv
  OBVIOUS
<1>1. scn \in Scenario /\ Own \subseteq Grouping /\ scn.given \cap Own = {}
  BY ScenarioOK DEF Init
<1>2. \A g \in Own : status[g] # "done"
  BY <1>1 DEF Init
<1>3. Done = {} /\ DOMAIN stack = {}
  BY <1>2 DEF Done, Init
<1> QED  BY <1>3 DEF LeavesInv

LEMMA LeavesStep ==
  ASSUME TypeOK, TypeOK', CallInv, OrderInv, LeavesInv, [Next]_vars
  PROVE  LeavesInv'
<1> SUFFICES ASSUME ~Circle(InAnyStatement)
             PROVE  LeavesInv'
  BY SameScenario DEF LeavesInv
<1>1. /\ stack \in Seq(Frame) /\ stack' \in Seq(Frame) /\ scn \in Scenario /\ Own \subseteq Grouping
      /\ status \in [Grouping -> {"raw", "processing", "done"}]
  BY ScenarioOK DEF TypeOK
<1>2. PICK s, t : s = stack /\ t = stack'
  OBVIOUS
<1>3. /\ s \in Seq(Frame) /\ t \in Seq(Frame) /\ DOMAIN s = 1 .. Len(s) /\ DOMAIN t = 1 .. Len(t)
      /\ Len(s) \in Nat /\ Len(t) \in Nat
      /\ \A i \in 1 .. Len(s) : Gathers(s[i])
  BY <1>1, <1>2 DEF LeavesInv
<1>4. \A g \in Own : status[g] = "done" => leaves[g] = Reach(g)
  BY DEF LeavesInv, Done
<1>5. ASSUME leaves' = leaves, \A g \in Own : status'[g] = "done" => status[g] = "done",
             \A i \in DOMAIN t : Gathers(t[i])
      PROVE  LeavesInv'
  <2>1. \A g \in Own : status'[g] = "done" => leaves'[g] = Reach(g)
    BY <1>4, <1>5
  <2> QED  BY <1>2, <1>5, <2>1, LeavesAfter
<1>6. ASSUME NEW g \in Own, Open(g), leaves' = leaves
      PROVE  LeavesInv'
  <2>1. g \in Grouping
    BY <1>1
  <2>2. \A u \in Own : status'[u] = "done" => status[u] = "done"
    BY <1>1, <1>6 DEF Open
  <2>3. /\ Len(t) = Len(s) + 1 /\ t[1].def = g /\ t[1].at = 1 /\ t[1].leaves = {} /\ t[1].inner = {}
        /\ t[1].part = (IF HasInner(g) THEN "nested" ELSE "body")
        /\ \A i \in 1 .. Len(s) : t[i + 1] = s[i]
    BY <1>2, <1>6, <2>1, OpenOK
  <2>4. Gathers(t[1])
    BY <1>1, <2>3, OpenGathers
  <2>5. ASSUME NEW i \in DOMAIN t, i # 1 PROVE Gathers(t[i])
    <3>1. i - 1 \in 1 .. Len(s) /\ (i - 1) + 1 = i
      BY <1>3, <2>3, <2>5
    <3> QED  BY <1>3, <2>3, <3>1
  <2> QED  BY <1>5, <1>6, <2>2, <2>4, <2>5
<1>7. ASSUME Len(t) = Len(s), \A i \in 1 .. Len(s) : i > 1 => t[i] = s[i],
             leaves' = leaves, status' = status, Gathers(t[1])
      PROVE  LeavesInv'
  <2>1. ASSUME NEW i \in DOMAIN t PROVE Gathers(t[i])
    <3>1. i = 1 \/ (i > 1 /\ i \in 1 .. Len(s))
      BY <1>3, <1>7
    <3> QED  BY <1>3, <1>7, <3>1
  <2> QED  BY <1>5, <1>7, <2>1
<1>8. CASE CollectDeps \/ SortPairs \/ Round \/ Cycle \/ Sorted \/ StartDone \/ Finish \/ UNCHANGED vars
  <2>1. UNCHANGED <<leaves, status, stack>>
    BY <1>8 DEF CollectDeps, SortPairs, Round, Cycle, Sorted, Ordered, StartDone, Running, Finish, vars
  <2> QED  BY <1>2, <1>3, <1>5, <2>1
<1>9. CASE Start
  <2>1. Open(Head(todo)) /\ Head(todo) \in Own /\ leaves' = leaves
    BY <1>9 DEF Start, Running, TypeOK
  <2> QED  BY <1>6, <2>1
<1>10. CASE UsesRaw
  <2>1. Open(Used) /\ status[Used] = "raw" /\ Used \in Known /\ leaves' = leaves
    BY <1>10 DEF UsesRaw
  <2>2. Used \in Own
    BY <2>1 DEF CallInv, Known
  <2> QED  BY <1>6, <2>1, <2>2
<1>11. CASE Moves
  <2>1. /\ Len(t) = Len(s) /\ status' = status /\ leaves' = leaves /\ 1 \in 1 .. Len(s) /\ s[1] = Top
        /\ \A i \in 1 .. Len(s) : i > 1 => t[i] = s[i]
    BY <1>2, <1>11, MovesOK
  <2>2. Gathers(Top)
    BY <1>3, <2>1
  <2>3. PICK f : f = t[1]
    OBVIOUS
  <2>4. Gathers(f)
    BY <1>2, <1>11, <2>2, <2>3, MoveGathers
  <2> QED  BY <1>7, <2>1, <2>3, <2>4
<1>12. CASE CloseNested
  <2>1. /\ Len(t) = Len(s) /\ status' = status /\ leaves' = leaves /\ 1 \in 1 .. Len(s) /\ s[1] = Top
        /\ \A i \in 1 .. Len(s) : i > 1 => t[i] = s[i]
    BY <1>2, <1>12, CloseNestedOK
  <2>2. Gathers(Top)
    BY <1>3, <2>1
  <2>3. PICK f : f = t[1]
    OBVIOUS
  <2>4. Gathers(f)
    BY <1>2, <1>12, <2>2, <2>3, CloseNestedGathers
  <2> QED  BY <1>7, <2>1, <2>3, <2>4
<1>13. CASE Close
  <2>1. /\ Top.def \in Own
        /\ \A i \in 1 .. Len(t) : i + 1 \in 1 .. Len(s) /\ t[i] = s[i + 1]
        /\ \A h \in Grouping : /\ status'[h] = IF h = Top.def THEN "done" ELSE status[h]
                               /\ leaves'[h] = IF h = Top.def THEN {h} \cup Top.leaves ELSE leaves[h]
    BY <1>2, <1>13, CloseCalls
  <2>2. stack # <<>>
    BY <1>13 DEF Close, Exhausted
  <2>3. Gathers(Top)
    <3>1. Top = s[1] /\ 1 \in 1 .. Len(s)
      BY <1>2, <2>2, TopOK
    <3> QED  BY <1>3, <3>1
  <2>4. {Top.def} \cup Top.leaves = Reach(Top.def)
    BY <1>13, <2>3, CloseReach
  <2>5. ASSUME NEW g \in Own, status'[g] = "done" PROVE leaves'[g] = Reach(g)
    <3>1. g \in Grouping
      BY <1>1
    <3>2. CASE g = Top.def
      BY <2>1, <2>4, <3>1, <3>2
    <3>3. CASE g # Top.def
      BY <1>4, <2>1, <2>5, <3>1, <3>3
    <3> QED  BY <3>2, <3>3
  <2>6. \A i \in DOMAIN t : Gathers(t[i])
    BY <1>3, <2>1
  <2> QED  BY <1>2, <2>5, <2>6, LeavesAfter
<1> QED  BY <1>8, <1>9, <1>10, <1>11, <1>12, <1>13 DEF Next, Moves, Terminated

-----------------------------------------------------------------------------
IInv == TypeOK /\ SortInv /\ CallInv /\ CircleInv /\ OrderInv /\ LeavesInv

LEMMA InitIInv == Init => IInv
<1> SUFFICES ASSUME Init
             PROVE  IInv
  OBVIOUS
<1>1. OrderInv
  BY DEF Init, OrderInv
<1> QED  BY <1>1, InitTypeOK, InitSortInv, InitCallInv, InitCircleInv, InitLeavesInv DEF IInv

LEMMA StepIInv == IInv /\ [Next]_vars => IInv'
BY TypeStep, SortStep, CallStep, CircleStep, OrderStep, LeavesStep DEF IInv

LEMMA Invariance == Spec => []IInv
BY InitIInv, StepIInv, PTL DEF Spec

LEMMA AllDone ==
  ASSUME TypeOK, CallInv, phase = "done", NEW g \in Own
  PROVE  status[g] = "done"
<1>1. stack = <<>> /\ todo = <<>>
  BY DEF CallInv
<1>2. DOMAIN stack = {} /\ Range(todo) = {}
  BY <1>1 DEF Range
<1>3. status[g] # "raw" /\ status[g] # "processing"
  BY <1>2 DEF CallInv
<1>4. g \in Grouping
  BY ScenarioOK DEF TypeOK
<1> QED  BY <1>3, <1>4 DEF TypeOK

(* Type correctness.                                                       *)
THEOREM TypeCorrect == Spec => []TypeOK
<1>1. IInv => TypeOK
  BY DEF IInv
<1> QED  BY <1>1, Invariance, PTL

(* "so that all groupings are handled when they are used": whatever the    *)
(* module, without a circle no `uses' finds a grouping that is not done,   *)
(* nor a nested grouping one that its copy of the map does not have.       *)
THEOREM GroupingsInOrder == Spec => []HandledWhenUsed
<1>1. ASSUME IInv PROVE HandledWhenUsed
  <2> SUFFICES ASSUME ~Circle(InAnyStatement), stack # <<>>
               PROVE  /\ Len(stack) = 1
                      /\ \A u \in AllUses(Top.def) : status[u] = "done" /\ copy[u] = leaves[u]
    BY DEF HandledWhenUsed
  <2>1. phase \in {"running", "done"}
    BY <1>1 DEF IInv, TypeOK, SortInv
  <2>2. /\ Len(stack) <= 1
        /\ \A k \in DOMAIN stack : \A u \in AllUses(stack[k].def) :
             status[u] = "done" /\ copy[u] = leaves[u]
    BY <1>1, <2>1, OrderParts DEF IInv
  <2>3. Top = stack[1] /\ 1 \in 1 .. Len(stack) /\ Len(stack) \in Nat /\ DOMAIN stack = 1 .. Len(stack)
    BY <1>1, TopOK DEF IInv
  <2>4. Len(stack) = 1
    BY <2>2, <2>3
  <2> QED  BY <2>2, <2>3, <2>4
<1> QED  BY <1>1, Invariance, PTL

(* mk_children leaves nothing out: whatever the module, without a circle   *)
(* every grouping ends with the leaves of all those it needs.              *)
THEOREM GroupingsExpanded == Spec => []ExpandedCompletely
<1>1. ASSUME IInv PROVE ExpandedCompletely
  <2> SUFFICES ASSUME phase = "done", ~Circle(InAnyStatement), NEW g \in Own
               PROVE  leaves[g] = Reach(g)
    BY DEF ExpandedCompletely, Reach, Closed
  <2>1. status[g] = "done"
    BY <1>1, AllDone DEF IInv
  <2> QED  BY <1>1, <2>1 DEF IInv, LeavesInv, Done
<1> QED  BY <1>1, Invariance, PTL

(* The CIRCULAR_DEPENDENCY errors are those of a circle of groupings or of *)
(* a nested grouping that uses itself, in whatever order the groupings are *)
(* put together.                                                           *)
THEOREM CirclesReported == Spec => []DirectCircleReported
<1>1. ASSUME IInv PROVE DirectCircleReported
  <2> SUFFICES ASSUME phase = "done"
               PROVE  Reported("CIRCULAR_DEPENDENCY") # {}
                        <=> (Circle(InOwnStatements) \/ SelfNested)
    BY DEF DirectCircleReported, SelfNested
  <2>1. Reported("CIRCULAR_DEPENDENCY") # {} <=> ~NoneCircular
    BY DEF Reported, NoneCircular
  <2>2. \A g \in Own : status[g] = "done"
    BY <1>1, AllDone DEF IInv
  <2>3. Done = Own
    BY <2>2 DEF Done
  <2>4. ASSUME NoneCircular PROVE ~Circle(InOwnStatements) /\ ~SelfNested
    <3>1. /\ \A g \in Own : Inner \notin NestedUses(g)
          /\ \A S \in (SUBSET Own) \ {{}} : \E g \in S : BodyUses(g) \cap S = {}
      BY <1>1, <2>3, <2>4 DEF IInv, CircleInv
    <3>2. \A S \in (SUBSET Own) \ {{}} : \E g \in S : InOwnStatements[g] \cap S = {}
      <4> SUFFICES ASSUME NEW S \in (SUBSET Own) \ {{}}
                   PROVE  \E g \in S : InOwnStatements[g] \cap S = {}
        OBVIOUS
      <4>1. PICK g \in S : BodyUses(g) \cap S = {}
        BY <3>1
      <4>2. InOwnStatements[g] = BodyUses(g)
        BY DEF InOwnStatements
      <4> QED  BY <4>1, <4>2
    <3> QED  BY <3>1, <3>2 DEF Circle, SelfNested
  <2>5. ~NoneCircular => Circle(InOwnStatements) \/ SelfNested
    BY <1>1 DEF IInv, CircleInv
  <2> QED  BY <2>1, <2>4, <2>5
<1> QED  BY <1>1, Invariance, PTL
=============================================================================
