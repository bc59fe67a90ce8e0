--------------------------- MODULE Parser_proofs ---------------------------
(***************************************************************************)
(* Proofs about Parser, for every file: each failing call frees what it    *)
(* has allocated; from what the functions of the lexer return, types, where*)
(* the parser hangs, and how it stops; and that it accepts exactly the     *)
(* language of the reference, with its statements.                         *)
(***************************************************************************)
EXTENDS Parser, SequenceTheorems, WellFoundedInduction, TLAPS, FiniteSetTheorems

Lost == {<<"arg", 0>>}
Allocated == {"stmt", "arg"} \X (1 .. Len(tree))

Made == \E T : tree \in Seq(T)

(* The statements on the stack; the outermost one is the first one made.   *)
StackInv ==
  /\ stack \in Seq(Nat)
  /\ stack # <<>> => stack[Len(stack)] = 1

(* Between two statements of the outermost level there is nothing.         *)
PhaseInv ==
  /\ phase = "open" => stack = <<>> /\ tree = <<>>
  /\ phase = "statement" /\ stack = <<>> => tree = <<>>
  /\ phase = "block" => stack # <<>>

HeapInv ==
  /\ heap \subseteq Lost \cup Allocated
  /\ phase = "open" => heap = {}
  /\ phase = "unwind" /\ stack = <<>> => heap \subseteq Lost
  /\ phase = "done" /\ ~ok => heap \subseteq Lost

IInv == Made /\ StackInv /\ PhaseInv /\ HeapInv /\ ok \in BOOLEAN

(* A new statement is the next one in the tree.                            *)
LEMMA Appended ==
  ASSUME NEW T, NEW s \in Seq(T), NEW e
  PROVE  Append(s, e) \in Seq(T \cup {e}) /\ Len(Append(s, e)) = Len(s) + 1
<1>1. s \in Seq(T \cup {e})
  OBVIOUS
<1> QED  BY <1>1

LEMMA Pushed ==
  ASSUME StackInv, NEW n \in Nat, stack = <<>> => n = 1
  PROVE  LET s == <<n>> \o stack IN s \in Seq(Nat) /\ s # <<>> /\ s[Len(s)] = 1
<1> DEFINE s == <<n>> \o stack
<1>1. s \in Seq(Nat) /\ Len(s) = Len(stack) + 1 /\ Len(stack) \in Nat
  BY DEF StackInv
<1>2. CASE stack = <<>>
  BY <1>1, <1>2
<1>3. CASE stack # <<>>
  <2>1. Len(stack) # 0
    BY <1>3 DEF StackInv
  <2>2. s[Len(s)] = stack[Len(stack)]
    BY <1>1, <2>1 DEF StackInv
  <2> QED  BY <1>1, <1>3, <2>2 DEF StackInv
<1> QED  BY <1>2, <1>3

LEMMA Popped ==
  ASSUME StackInv, stack # <<>>
  PROVE  /\ Tail(stack) \in Seq(Nat)
         /\ Tail(stack) # <<>> => Tail(stack)[Len(Tail(stack))] = 1
         /\ Tail(stack) = <<>> => Head(stack) = 1 /\ Len(stack) = 1
         /\ Len(stack) = 1 <=> Tail(stack) = <<>>
<1>1. /\ Tail(stack) \in Seq(Nat) /\ Len(stack) \in Nat /\ Len(stack) # 0
      /\ Len(Tail(stack)) = Len(stack) - 1
  BY DEF StackInv
<1>2. Tail(stack) = <<>> <=> Len(stack) = 1
  <2>1. \A t \in Seq(Nat) : t = <<>> <=> Len(t) = 0
    BY EmptySeq
  <2> DEFINE t == Tail(stack)
  <2>2. t \in Seq(Nat) /\ Len(t) = Len(stack) - 1
    BY <1>1
  <2> HIDE DEF t
  <2>3. t = <<>> <=> Len(t) = 0
    BY <2>1, <2>2
  <2>4. t = <<>> <=> Len(stack) = 1
    BY <1>1, <2>2, <2>3
  <2> QED  BY <2>4 DEF t
<1>3. CASE Tail(stack) = <<>>
  BY <1>1, <1>2, <1>3 DEF StackInv
<1>4. CASE Tail(stack) # <<>>
  <2>1. Tail(stack)[Len(Tail(stack))] = stack[Len(stack)]
    BY <1>1, <1>2, <1>4 DEF StackInv
  <2> QED  BY <1>1, <1>2, <1>4, <2>1 DEF StackInv
<1> QED  BY <1>3, <1>4

-----------------------------------------------------------------------------
LEMMA InitHolds == Init => IInv
<1> SUFFICES ASSUME Init PROVE IInv
  OBVIOUS
<1>1. tree \in Seq({}) /\ stack \in Seq(Nat)
  BY DEF Init
<1> QED  BY <1>1 DEF Init, IInv, Made, StackInv, PhaseInv, HeapInv, Lost

(* The three actions that allocate a statement.                            *)
LEMMA NewStatementHolds ==
  ASSUME IInv, NEW h, NewStatement(h), phase = "statement"
  PROVE  /\ Made'
         /\ Len(tree') = Len(tree) + 1 /\ Len(tree) \in Nat
         /\ heap' \subseteq (Lost \cup Allocated)'
         /\ stack = <<>> => Len(tree) + 1 = 1
<1>1. PICK T : tree \in Seq(T)
  BY DEF IInv, Made
<1>2. PICK e : tree' = Append(tree, e)
  BY DEF NewStatement
<1>3. tree' \in Seq(T \cup {e}) /\ Len(tree') = Len(tree) + 1 /\ Len(tree) \in Nat
  BY <1>1, <1>2, Appended
<1>4. Owned(Len(tree) + 1, h.arg) \subseteq {"stmt", "arg"} \X {Len(tree) + 1}
  BY DEF Owned
<1>5. Allocated' = {"stmt", "arg"} \X (1 .. Len(tree'))
  BY DEF Allocated
<1>6. heap' = heap \cup Owned(Len(tree) + 1, h.arg)
  BY DEF NewStatement
<1>7. heap' \subseteq Lost \cup ({"stmt", "arg"} \X (1 .. Len(tree')))
  <2>1. 1 .. Len(tree) \subseteq 1 .. Len(tree') /\ Len(tree) + 1 \in 1 .. Len(tree')
    BY <1>3
  <2> HIDE <1>3
  <2> QED  BY <1>4, <1>6, <2>1 DEF IInv, HeapInv, Allocated
<1>8. stack = <<>> => tree = <<>>
  BY DEF IInv, PhaseInv
<1> QED  BY <1>3, <1>5, <1>7, <1>8 DEF Made, Lost

LEMMA StepHolds == IInv /\ [Next]_vars => IInv'
<1> SUFFICES ASSUME IInv, [Next]_vars
             PROVE  IInv'
  OBVIOUS
<1> USE DEF IInv
<1>1. CASE CannotOpen \/ Open
  BY <1>1 DEF CannotOpen, Open, Made, StackInv, PhaseInv, HeapInv, Lost, Allocated
<1>2. CASE HeaderFails
  <2>1. phase = "statement" /\ phase' = "unwind" /\ UNCHANGED <<stack, tree, ok>>
    BY <1>2 DEF HeaderFails
  <2>2. heap' \subseteq heap \cup Lost
    BY <1>2 DEF HeaderFails, Lost
  <2>3. stack = <<>> => Allocated = {}
    BY <2>1 DEF PhaseInv, Allocated
  <2> QED  BY <2>1, <2>2, <2>3 DEF Made, StackInv, PhaseInv, HeapInv, Allocated, Lost
<1>3. CASE ReadPastTheEnd \/ StillReading
  BY <1>3 DEF ReadPastTheEnd, StillReading, vars, Made, StackInv, PhaseInv, HeapInv, Lost, Allocated
<1>4. CASE Simple
  <2>1. PICK h : NewStatement(h)
    BY <1>4 DEF Simple
  <2>2. phase = "statement" /\ UNCHANGED <<stack, ok>>
    BY <1>4 DEF Simple
  <2>3. phase' = IF stack = <<>> THEN "end" ELSE "block"
    BY <1>4 DEF Simple
  <2> QED  BY <2>1, <2>2, <2>3, NewStatementHolds DEF StackInv, PhaseInv, HeapInv
<1>5. CASE OpenBlock \/ Unterminated
  <2>1. PICK h : NewStatement(h)
    BY <1>5 DEF OpenBlock, Unterminated
  <2>2. phase = "statement" /\ stack' = <<Len(tree) + 1>> \o stack /\ UNCHANGED ok
    BY <1>5 DEF OpenBlock, Unterminated
  <2>3. phase' \in {"block", "unwind"}
    BY <1>5 DEF OpenBlock, Unterminated
  <2>4. StackInv' /\ stack' # <<>>
    BY <2>1, <2>2, NewStatementHolds, Pushed DEF StackInv
  <2> QED  BY <2>1, <2>2, <2>3, <2>4, NewStatementHolds DEF PhaseInv, HeapInv
<1>6. CASE BlockEof \/ NextInBlock
  BY <1>6 DEF BlockEof, NextInBlock, Made, StackInv, PhaseInv, HeapInv, Lost, Allocated
<1>7. CASE CloseBlock
  <2>1. stack # <<>> /\ stack' = Tail(stack) /\ UNCHANGED <<tree, heap, ok>>
    BY <1>7 DEF CloseBlock, PhaseInv
  <2>2. phase' = IF Len(stack) = 1 THEN "end" ELSE "block"
    BY <1>7 DEF CloseBlock
  <2> QED  BY <2>1, <2>2, Popped DEF Made, StackInv, PhaseInv, HeapInv, Allocated, Lost
<1>8. CASE FreeStatement
  <2>1. /\ phase = "unwind" /\ stack # <<>> /\ stack' = Tail(stack)
        /\ UNCHANGED <<phase, tree, ok>>
    BY <1>8 DEF FreeStatement
  <2>2. heap' = heap \ ({"stmt", "arg"} \X (Head(stack) .. Len(tree)))
    BY <1>8 DEF FreeStatement, LinkedTo
  <2>3. stack' = <<>> => heap' \subseteq Lost
    <3>1. stack' = <<>> => Head(stack) = 1
      BY <2>1, Popped
    <3> QED  BY <2>2, <3>1 DEF HeapInv, Allocated
  <2> QED  BY <2>1, <2>2, <2>3, Popped DEF Made, StackInv, PhaseInv, HeapInv, Allocated, Lost
<1>9. CASE Fail \/ Finish
  BY <1>9 DEF Fail, Finish, Made, StackInv, PhaseInv, HeapInv, Allocated, Lost
<1>10. CASE Terminated \/ UNCHANGED vars
  BY <1>10 DEF Terminated, vars, Made, StackInv, PhaseInv, HeapInv, Allocated, Lost
<1> QED  BY <1>1, <1>2, <1>3, <1>4, <1>5, <1>6, <1>7, <1>8, <1>9, <1>10 DEF Next

(* yang_parse, when it fails, has freed every statement it has made, with  *)
(* its argument: the recursive calls of parse_statement free one after the *)
(* other what is linked to theirs, and all is linked to the first one.     *)
THEOREM FailureFrees == Spec => []FailureFreesAll
<1>1. IInv => FailureFreesAll
  BY DEF IInv, HeapInv, FailureFreesAll, Lost
<1> QED  BY <1>1, InitHolds, StepHolds, PTL DEF Spec

-----------------------------------------------------------------------------
(* The recursive functions of the lexer go forward in the text.            *)
LEMMA LeastNumber ==
  ASSUME NEW S \in SUBSET Nat, S # {}
  PROVE  \E n \in S : \A m \in S : n <= m
<1> DEFINE R == OpToRel(<, Nat)
<1>1. \A i, j \in Nat : i < j => <<i, j>> \in R
  BY DEF OpToRel
<1> HIDE DEF R
<1>2. PICK n \in S : \A m \in S : ~(<<m, n>> \in R)
  BY NatLessThanWellFounded, WFMin DEF R
<1>3. \A m \in S : ~(m < n)
  BY <1>1, <1>2
<1> QED  BY <1>3

LEMMA DownInduction ==
  ASSUME NEW n \in Nat, NEW S,
         \A p \in 1 .. n : (\A q \in p + 1 .. n : q \in S) => p \in S
  PROVE  \A p \in 1 .. n : p \in S
<1> SUFFICES ASSUME NEW p \in 1 .. n, p \notin S
             PROVE  FALSE
  OBVIOUS
<1> DEFINE D == {k \in Nat : n - k \in 1 .. n /\ n - k \notin S}
<1>1. n - p \in D
  <2>1. n - p \in Nat /\ n - (n - p) = p
    OBVIOUS
  <2> QED  BY <2>1
<1>2. PICK d \in D : \A e \in D : d <= e
  <2>1. D \in SUBSET Nat /\ D # {}
    BY <1>1
  <2> HIDE DEF D
  <2> QED  BY <2>1, LeastNumber
<1>3. d \in Nat /\ n - d \in 1 .. n /\ n - d \notin S
  BY <1>2
<1>4. \A q \in (n - d) + 1 .. n : q \in S
  <2> SUFFICES ASSUME NEW q \in (n - d) + 1 .. n, q \notin S
               PROVE  FALSE
    OBVIOUS
  <2>1. n - q \in Nat /\ n - (n - q) = q /\ n - q < d /\ q \in 1 .. n
    BY <1>3
  <2>2. n - q \in D
    BY <2>1
  <2> QED  BY <1>2, <1>3, <2>1, <2>2
<1> QED  BY <1>3, <1>4

(* A function that is defined by its values further on: at p it is v[p],   *)
(* or made by F[p] from its value at next[p].                              *)
Forward(n, U, Stop, v, next, F) ==
  \A p \in 1 .. n :
    /\ p \in Stop => v[p] \in U
    /\ p \notin Stop => next[p] \in p + 1 .. n /\ \A x \in U : F[p][x] \in U
Follows(f, n, Stop, v, next, F) ==
  \A p \in 1 .. n : f[p] = IF p \in Stop THEN v[p] ELSE F[p][f[next[p]]]

LEMMA Recursion ==
  ASSUME NEW n \in Nat, NEW U, NEW Stop, NEW v, NEW next, NEW F,
         Forward(n, U, Stop, v, next, F)
  PROVE  \E f \in [1 .. n -> U] : Follows(f, n, Stop, v, next, F)
<1>0. /\ \A p \in 1 .. n : p \in Stop => v[p] \in U
      /\ \A p \in 1 .. n : p \notin Stop =>
           next[p] \in p + 1 .. n /\ \A x \in U : F[p][x] \in U
  BY DEF Forward
<1> DEFINE Value(f, p) == IF p \in Stop THEN v[p] ELSE F[p][f[next[p]]]
           To(k, f) == \A p \in 1 .. n : p > n - k => f[p] = Value(f, p)
           A == {k \in 0 .. n : \E f \in [1 .. n -> U] : To(k, f)}
<1>1. 0 \in A
  <2>1. PICK f : f \in [1 .. n -> U]
    <3>1. CASE n = 0
      <4>1. [p \in 1 .. n |-> p] \in [1 .. n -> U]
        BY <3>1
      <4> QED  BY <4>1
    <3>2. CASE n # 0
      <4>1. n \in 1 .. n /\ ~(\E q : q \in n + 1 .. n)
        BY <3>2
      <4>2. v[n] \in U
        BY <1>0, <4>1
      <4>3. [p \in 1 .. n |-> v[n]] \in [1 .. n -> U]
        BY <4>2
      <4> QED  BY <4>3
    <3> QED  BY <3>1, <3>2
  <2>2. To(0, f)
    OBVIOUS
  <2> QED  BY <2>1, <2>2
<1>2. ASSUME NEW k \in 0 .. n, k \in A, k # n
      PROVE  k + 1 \in A
  <2>1. PICK f \in [1 .. n -> U] : To(k, f)
    BY <1>2
  <2>2. PICK c : c = n - k
    OBVIOUS
  <2>3. c \in 1 .. n /\ \A p \in 1 .. n : p > n - (k + 1) <=> p = c \/ p > n - k
    BY <1>2, <2>2
  <2>4. Value(f, c) \in U
    <3>1. CASE c \in Stop
      BY <1>0, <2>3, <3>1
    <3>2. CASE c \notin Stop
      <4>1. next[c] \in 1 .. n
        BY <1>0, <2>3, <3>2
      <4>2. f[next[c]] \in U
        BY <2>1, <4>1
      <4> QED  BY <1>0, <2>3, <3>2, <4>2
    <3> QED  BY <3>1, <3>2
  <2> DEFINE g == [p \in 1 .. n |-> IF p = c THEN Value(f, c) ELSE f[p]]
  <2>5. g \in [1 .. n -> U]
    <3>1. \A p \in 1 .. n : (IF p = c THEN Value(f, c) ELSE f[p]) \in U
      <4> HIDE DEF Value
      <4> QED  BY <2>1, <2>4
    <3> QED  BY <3>1
  <2>6. \A p \in 1 .. n : g[p] = IF p = c THEN Value(f, c) ELSE f[p]
    OBVIOUS
  <2> HIDE DEF g
  <2>7. \A p \in 1 .. n : p >= c => Value(g, p) = Value(f, p)
    <3> SUFFICES ASSUME NEW p \in 1 .. n, p >= c, p \notin Stop
                 PROVE  g[next[p]] = f[next[p]]
      OBVIOUS
    <3>1. next[p] \in 1 .. n /\ next[p] # c
      BY <1>0, <2>3
    <3> QED  BY <2>6, <3>1
  <2>8. To(k + 1, g)
    <3> SUFFICES ASSUME NEW p \in 1 .. n, p > n - (k + 1)
                 PROVE  g[p] = Value(g, p)
      OBVIOUS
    <3>1. p >= c /\ (p = c \/ p > n - k)
      BY <2>2, <2>3
    <3>2. Value(g, p) = Value(f, p)
      BY <2>7, <3>1
    <3>3. CASE p = c
      BY <2>6, <3>2, <3>3
    <3>4. CASE p # c
      BY <2>1, <2>6, <3>1, <3>2, <3>4
    <3> QED  BY <3>3, <3>4
  <2>9. k + 1 \in 0 .. n
    BY <1>2
  <2> QED  BY <2>5, <2>8, <2>9
<1>3. n \in A
  <2> SUFFICES ASSUME n \notin A
               PROVE  FALSE
    OBVIOUS
  <2>1. PICK M : M = {k \in Nat : k <= n /\ k \notin A}
    OBVIOUS
  <2> HIDE DEF A
  <2>2. M \in SUBSET Nat /\ n \in M
    BY <2>1
  <2>3. PICK m \in M : \A j \in M : m <= j
    BY <2>2, LeastNumber
  <2>4. m \in Nat /\ m <= n /\ m \notin A /\ m # 0
    BY <1>1, <2>1, <2>3
  <2>5. m - 1 \in 0 .. n /\ m - 1 # n /\ m - 1 \in Nat /\ (m - 1) + 1 = m
    BY <2>4
  <2>6. m - 1 \in A
    BY <2>1, <2>3, <2>4, <2>5
  <2> QED  BY <1>2, <2>4, <2>5, <2>6
<1>4. PICK f \in [1 .. n -> U] : To(n, f)
  BY <1>3
<1>5. \A p \in 1 .. n : f[p] = Value(f, p)
  BY <1>4
<1> QED  BY <1>5 DEF Follows

-----------------------------------------------------------------------------
(* Positions in a text.                                                    *)
LEMMA TextOK ==
  ASSUME text \in Seq(Char)
  PROVE  /\ Len(text) \in Nat /\ End = Len(text) + 1 /\ DOMAIN text = 1 .. Len(text)
         /\ \A p \in 1 .. Len(text) : text[p] \in Char /\ At(p) = text[p] /\ p < End
         /\ \A p \in Nat : p < End => p <= Len(text) /\ At(p) = text[p]
         /\ \A p \in Nat : p >= End => At(p) = "eof"
BY DEF End, At

LEMMA FirstAtOK ==
  ASSUME text \in Seq(Char), NEW p \in 1 .. End, NEW S, S \subseteq From(p)
  PROVE  /\ FirstAt(S) \in p .. End
         /\ FirstAt(S) = End <=> S = {}
         /\ FirstAt(S) # End => FirstAt(S) \in S
<1>1. CASE S = {}
  BY <1>1, TextOK DEF FirstAt
<1>2. CASE S # {}
  <2>1. S \in SUBSET Nat /\ \A q \in S : q \in p .. End /\ q # End
    BY TextOK DEF From
  <2>2. \E q \in S : \A r \in S : q <= r
    BY <1>2, <2>1, LeastNumber
  <2>3. FirstAt(S) \in S
    BY <1>2, <2>2 DEF FirstAt
  <2> QED  BY <1>2, <2>1, <2>3
<1> QED  BY <1>1, <1>2

LEMMA WhiteBefore ==
  ASSUME text \in Seq(Char), NEW p \in 1 .. End
  PROVE  /\ White(p) => p < End /\ p + 1 \in p + 1 .. End
         /\ LineComment(p) => p < End /\ p + 1 < End
         /\ BlockComment(p) => p < End /\ p + 1 < End
<1>1. p \in Nat /\ p + 1 \in Nat
  BY TextOK
<1>2. At(p) # "eof" => p < End
  BY <1>1, TextOK
<1>3. At(p + 1) # "eof" => p + 1 < End
  BY <1>1, TextOK
<1>4. p < End => p + 1 \in p + 1 .. End
  BY <1>1, TextOK
<1> QED  BY <1>2, <1>3, <1>4 DEF White, LineComment, BlockComment

LEMMA AfterLineOK ==
  ASSUME text \in Seq(Char), NEW p \in 1 .. End, p < End
  PROVE  AfterLine(p) \in p + 1 .. End
<1> DEFINE S == {q \in From(p) : text[q] = "nl"}
<1>1. S \subseteq From(p)
  OBVIOUS
<1>2. AfterLine(p) = IF FirstAt(S) = End THEN End ELSE FirstAt(S) + 1
  BY DEF AfterLine
<1> HIDE DEF S
<1>3. FirstAt(S) \in p .. End
  BY <1>1, FirstAtOK
<1> QED  BY <1>2, <1>3, TextOK

LEMMA BlockEndOK ==
  ASSUME text \in Seq(Char), NEW p \in 1 .. End
  PROVE  BlockEnd(p) \in p .. End
<1> DEFINE S == {q \in From(p) : text[q] = "*" /\ At(q + 1) = "/"}
<1>1. S \subseteq From(p)
  OBVIOUS
<1>2. BlockEnd(p) = IF FirstAt(S) = End THEN End ELSE FirstAt(S) + 2
  BY DEF BlockEnd
<1>3. \A q \in S : At(q + 1) = "/"
  OBVIOUS
<1> HIDE DEF S
<1>4. FirstAt(S) \in p .. End /\ (FirstAt(S) # End => FirstAt(S) \in S)
  BY <1>1, FirstAtOK
<1>5. CASE FirstAt(S) = End
  BY <1>2, <1>4, <1>5
<1>6. CASE FirstAt(S) # End
  <2>1. PICK q : q = FirstAt(S)
    OBVIOUS
  <2>2. q \in p .. End /\ At(q + 1) = "/" /\ q + 1 \in Nat
    BY <1>3, <1>4, <1>6, <2>1, TextOK
  <2>3. q + 1 < End
    BY <2>2, TextOK
  <2> QED  BY <1>2, <1>6, <2>1, <2>2, <2>3, TextOK
<1> QED  BY <1>5, <1>6

LEMMA AfterBlockOK ==
  ASSUME text \in Seq(Char), NEW p \in 1 .. End, p + 1 < End
  PROVE  AfterBlock(p) \in p + 1 .. End
<1>1. p + 2 \in 1 .. End
  BY TextOK
<1>2. BlockEnd(p + 2) \in p + 2 .. End
  BY <1>1, BlockEndOK
<1> QED  BY <1>2, TextOK DEF AfterBlock

-----------------------------------------------------------------------------
(* White space.                                                            *)
SkipFunction == CHOOSE skip : skip =
  [p \in 1 .. End |->
     IF White(p) THEN skip[p + 1]
     ELSE IF LineComment(p) THEN skip[AfterLine(p)]
     ELSE IF BlockComment(p) THEN skip[AfterBlock(p)]
     ELSE p]

LEMMA SkipExists ==
  ASSUME text \in Seq(Char)
  PROVE  SkipFunction =
           [p \in 1 .. End |->
              IF White(p) THEN SkipFunction[p + 1]
              ELSE IF LineComment(p) THEN SkipFunction[AfterLine(p)]
              ELSE IF BlockComment(p) THEN SkipFunction[AfterBlock(p)]
              ELSE p]
<1> DEFINE U == 1 .. End
           Stop == {p \in 1 .. End : ~White(p) /\ ~LineComment(p) /\ ~BlockComment(p)}
           v == [p \in 1 .. End |-> p]
           next == [p \in 1 .. End |-> IF White(p) THEN p + 1
                                       ELSE IF LineComment(p) THEN AfterLine(p) ELSE AfterBlock(p)]
           F == [p \in 1 .. End |-> [x \in U |-> x]]
<1>1. End \in Nat
  BY TextOK
<1>2. \A p \in 1 .. End : p \in Stop => v[p] \in U
  OBVIOUS
<1>3. \A p \in 1 .. End : p \notin Stop => next[p] \in p + 1 .. End /\ \A x \in U : F[p][x] \in U
  BY WhiteBefore, AfterLineOK, AfterBlockOK
<1>4. \A p \in 1 .. End : v[p] = p /\ \A x \in U : F[p][x] = x
  OBVIOUS
<1>5. \A p \in 1 .. End :
        next[p] = IF White(p) THEN p + 1 ELSE IF LineComment(p) THEN AfterLine(p) ELSE AfterBlock(p)
  OBVIOUS
<1>6. \A p \in 1 .. End : p \in Stop <=> ~White(p) /\ ~LineComment(p) /\ ~BlockComment(p)
  OBVIOUS
<1> HIDE DEF U, Stop, v, next, F
<1>7. PICK f \in [1 .. End -> U] : Follows(f, End, Stop, v, next, F)
  <2>1. Forward(End, U, Stop, v, next, F)
    BY <1>2, <1>3 DEF Forward
  <2> QED  BY <1>1, <2>1, Recursion
<1>11. \A p \in 1 .. End : f[p] = IF p \in Stop THEN v[p] ELSE F[p][f[next[p]]]
  BY <1>7 DEF Follows
<1>8. \A p \in 1 .. End : p \notin Stop => f[p] = f[next[p]]
  <2> SUFFICES ASSUME NEW p \in 1 .. End, p \notin Stop
               PROVE  f[p] = f[next[p]]
    OBVIOUS
  <2>1. next[p] \in 1 .. End
    BY <1>1, <1>3
  <2> QED  BY <1>4, <1>7, <1>11, <2>1
<1>9. \A p \in 1 .. End :
        f[p] = IF White(p) THEN f[p + 1] ELSE IF LineComment(p) THEN f[AfterLine(p)]
               ELSE IF BlockComment(p) THEN f[AfterBlock(p)] ELSE p
  BY <1>4, <1>5, <1>6, <1>8, <1>11
<1>10. f = [p \in 1 .. End |->
              IF White(p) THEN f[p + 1] ELSE IF LineComment(p) THEN f[AfterLine(p)]
              ELSE IF BlockComment(p) THEN f[AfterBlock(p)] ELSE p]
  BY <1>7, <1>9
<1> QED  BY <1>10, Zenon DEF SkipFunction

LEMMA SkipOK ==
  ASSUME text \in Seq(Char), NEW p \in 1 .. End
  PROVE  Skip(p) \in p .. End
<1> DEFINE f == SkipFunction
           S == {q \in 1 .. End : f[q] \in q .. End}
<1>1. Skip(p) = f[p]
  BY DEF Skip, SkipFunction
<1>2. \A q \in 1 .. End :
        f[q] = IF White(q) THEN f[q + 1] ELSE IF LineComment(q) THEN f[AfterLine(q)]
               ELSE IF BlockComment(q) THEN f[AfterBlock(q)] ELSE q
  BY SkipExists
<1> HIDE DEF f
<1>3. ASSUME NEW q \in 1 .. End, \A r \in q + 1 .. End : r \in S PROVE q \in S
  <2>1. \A r \in q + 1 .. End : f[r] \in q .. End
    BY <1>3, TextOK
  <2>2. White(q) => f[q + 1] \in q .. End
    BY <2>1, WhiteBefore
  <2>3. LineComment(q) => f[AfterLine(q)] \in q .. End
    BY <2>1, WhiteBefore, AfterLineOK
  <2>4. BlockComment(q) => f[AfterBlock(q)] \in q .. End
    BY <2>1, WhiteBefore, AfterBlockOK
  <2>5. q \in q .. End
    BY TextOK
  <2> QED  BY <1>2, <2>2, <2>3, <2>4, <2>5
<1>4. End \in Nat
  BY TextOK
<1>5. \A q \in 1 .. End : q \in S
  <2> HIDE DEF S
  <2> QED  BY <1>3, <1>4, DownInduction
<1> QED  BY <1>1, <1>5

-----------------------------------------------------------------------------
(* Keywords.                                                               *)
LEMMA IdentifierEndOK ==
  ASSUME text \in Seq(Char), NEW p \in 1 .. End
  PROVE  IdentifierEnd(p) \in p .. End
<1> DEFINE S == {q \in From(p) : text[q] \notin Identifier2}
<1>1. S \subseteq From(p) /\ IdentifierEnd(p) = FirstAt(S)
  BY DEF IdentifierEnd
<1> HIDE DEF S
<1> QED  BY <1>1, FirstAtOK

LEMMA PartOfText ==
  ASSUME text \in Seq(Char), NEW m \in Int, NEW n \in Int, m >= 1, n <= Len(text)
  PROVE  SubSeq(text, m, n) \in Seq(Char)
<1>1. SubSeq(text, m, n) = [i \in 1 .. (IF m <= n THEN n - m + 1 ELSE 0) |-> text[i + m - 1]]
  BY SubSeqProperties
<1>2. Len(text) \in Nat
  BY TextOK
<1>3. PICK k \in Nat : k = IF m <= n THEN n - m + 1 ELSE 0
  <2>1. m <= n => n - m + 1 \in Nat
    OBVIOUS
  <2> QED  BY <2>1
<1>4. \A i \in 1 .. k : text[i + m - 1] \in Char
  <2> SUFFICES ASSUME NEW i \in 1 .. k
               PROVE  text[i + m - 1] \in Char
    OBVIOUS
  <2>1. i + m - 1 \in 1 .. Len(text)
    BY <1>2, <1>3
  <2> QED  BY <2>1
<1>5. [i \in 1 .. k |-> text[i + m - 1]] \in [1 .. k -> Char]
  BY <1>4
<1> QED  BY <1>1, <1>3, <1>5, SeqDef

KeywordCodes == {"none", "EXPECTED_SEPARATOR", "BAD_KEYWORD"}

LEMMA GetKeywordOK ==
  ASSUME text \in Seq(Char), NEW p \in 1 .. End, p < End
  PROVE  /\ GetKeyword(p).err \in KeywordCodes
         /\ GetKeyword(p).end \in p .. End
         /\ GetKeyword(p).prefix \in Seq(Char) \cup {None}
         /\ GetKeyword(p).keyword \in Seq(Char)
<1>1. PICK e : e = IdentifierEnd(p)
  OBVIOUS
<1>2. e \in p .. End /\ e \in Nat /\ p \in Nat /\ End \in Nat /\ Len(text) \in Nat /\ End = Len(text) + 1
  BY <1>1, IdentifierEndOK, TextOK
<1>3. PICK start : start = IF At(e) = ":" THEN e + 1 ELSE p
  OBVIOUS
<1>4. start \in p .. End /\ start \in 1 .. End
  <2>1. At(e) = ":" => e < End
    BY <1>2, TextOK
  <2> QED  BY <1>2, <1>3, <2>1
<1>5. PICK end : end = IdentifierEnd(start)
  OBVIOUS
<1>6. end \in start .. End
  BY <1>4, <1>5, IdentifierEndOK
<1>7. GetKeyword(p) = KeywordTo(p, start, end)
  BY <1>1, <1>3, <1>5 DEF GetKeyword, KeywordFrom
<1>8. SubSeq(text, p, start - 2) \in Seq(Char) /\ SubSeq(text, start, end - 1) \in Seq(Char)
  <2>1. start - 2 \in Int /\ start - 2 <= Len(text) /\ end - 1 \in Int /\ end - 1 <= Len(text) /\ start >= 1
    BY <1>2, <1>4, <1>6
  <2> QED  BY <1>2, <1>4, <2>1, PartOfText
<1>9. KeywordTo(p, start, end).end \in p .. End
  BY <1>2, <1>4, <1>6 DEF KeywordTo
<1> QED  BY <1>7, <1>8, <1>9 DEF KeywordTo, KeywordCodes

-----------------------------------------------------------------------------
(* The indentation of a further line.                                      *)
Indented(p, q, column) ==
  (q - p) + 7 * Cardinality({r \in p .. q - 1 : text[r] = "tab"}) < column /\ At(q) \in {"sp", "tab"}
IndentFunction(p, column) == CHOOSE after : after =
  [q \in 1 .. End |->
     IF (q - p) + 7 * Cardinality({r \in p .. q - 1 : text[r] = "tab"}) < column /\ At(q) \in {"sp", "tab"}
     THEN after[q + 1] ELSE q]

LEMMA IndentExists ==
  ASSUME text \in Seq(Char), NEW b, NEW column
  PROVE  \A q \in 1 .. End : IndentFunction(b, column)[q] =
           IF Indented(b, q, column) THEN IndentFunction(b, column)[q + 1] ELSE q
<1> DEFINE U == 1 .. End
           Stop == {p \in 1 .. End : ~Indented(b, p, column)}
           v == [p \in 1 .. End |-> p]
           next == [p \in 1 .. End |-> p + 1]
           F == [p \in 1 .. End |-> [x \in U |-> x]]
<1>1. End \in Nat
  BY TextOK
<1>2. \A p \in 1 .. End : p \in Stop => v[p] \in U
  OBVIOUS
<1>3. \A p \in 1 .. End : p \notin Stop => next[p] \in p + 1 .. End /\ \A x \in U : F[p][x] \in U
  <2> SUFFICES ASSUME NEW p \in 1 .. End, Indented(b, p, column)
               PROVE  p + 1 \in p + 1 .. End
    OBVIOUS
  <2>1. At(p) # "eof"
    BY DEF Indented
  <2> QED  BY <2>1, TextOK
<1>4. \A p \in 1 .. End : v[p] = p /\ next[p] = p + 1 /\ \A x \in U : F[p][x] = x
  OBVIOUS
<1>5. \A p \in 1 .. End : p \in Stop <=> ~Indented(b, p, column)
  OBVIOUS
<1> HIDE DEF U, Stop, v, next, F
<1>6. PICK f \in [1 .. End -> U] : Follows(f, End, Stop, v, next, F)
  <2>1. Forward(End, U, Stop, v, next, F)
    BY <1>2, <1>3 DEF Forward
  <2> QED  BY <1>1, <2>1, Recursion
<1>7. \A p \in 1 .. End : f[p] = IF p \in Stop THEN v[p] ELSE F[p][f[next[p]]]
  BY <1>6 DEF Follows
<1>8. \A p \in 1 .. End : p \notin Stop => f[p] = f[p + 1]
  <2> SUFFICES ASSUME NEW p \in 1 .. End, p \notin Stop
               PROVE  f[p] = f[p + 1]
    OBVIOUS
  <2>1. next[p] \in 1 .. End
    BY <1>1, <1>3
  <2> QED  BY <1>4, <1>6, <1>7, <2>1
<1>9. \A p \in 1 .. End : f[p] = IF Indented(b, p, column) THEN f[p + 1] ELSE p
  BY <1>4, <1>5, <1>7, <1>8
<1>10. f = [p \in 1 .. End |-> IF Indented(b, p, column) THEN f[p + 1] ELSE p]
  BY <1>6, <1>9
<1>11. \E g : g = [p \in 1 .. End |-> IF Indented(b, p, column) THEN g[p + 1] ELSE p]
  BY <1>10
<1>12. IndentFunction(b, column) =
         CHOOSE g : g = [p \in 1 .. End |-> IF Indented(b, p, column) THEN g[p + 1] ELSE p]
  BY DEF IndentFunction, Indented
<1>13. IndentFunction(b, column) =
         [p \in 1 .. End |-> IF Indented(b, p, column) THEN IndentFunction(b, column)[p + 1] ELSE p]
  BY <1>11, <1>12, Zenon
<1> QED  BY <1>13, Zenon

LEMMA AfterIndentOK ==
  ASSUME text \in Seq(Char), NEW p \in 1 .. End, NEW column
  PROVE  AfterIndent(p, column) \in p .. End
<1> DEFINE f == IndentFunction(p, column)
           S == {q \in 1 .. End : f[q] \in q .. End}
<1>1. AfterIndent(p, column) = f[p]
  BY DEF AfterIndent, IndentFunction
<1>2. \A q \in 1 .. End : f[q] = IF Indented(p, q, column) THEN f[q + 1] ELSE q
  BY IndentExists
<1> HIDE DEF f
<1>3. End \in Nat
  BY TextOK
<1>4. ASSUME NEW q \in 1 .. End, \A r \in q + 1 .. End : r \in S PROVE q \in S
  <2>1. CASE Indented(p, q, column)
    <3>1. At(q) # "eof"
      BY <2>1 DEF Indented
    <3>2. q + 1 \in q + 1 .. End
      BY <3>1, TextOK
    <3>3. f[q + 1] \in q .. End
      BY <1>3, <1>4, <3>2
    <3> QED  BY <1>2, <2>1, <3>3
  <2>2. CASE ~Indented(p, q, column)
    BY <1>2, <1>3, <2>2
  <2> QED  BY <2>1, <2>2
<1>5. \A q \in 1 .. End : q \in S
  <2> HIDE DEF S
  <2> QED  BY <1>3, <1>4, DownInduction
<1> QED  BY <1>1, <1>5

-----------------------------------------------------------------------------
(* Quoted strings.                                                         *)
EscapeErrors == [code : EscapeCodes, at : Nat]
Read == [end : 1 .. End, value : Seq(Char), errs : Seq(EscapeErrors), closed : BOOLEAN]
ReadFrom(p) == {r \in Read : r.end \in p .. End}

Quote == "\""
Backslash == "\\"
Escapable == {"\"", "\\"}

LEMMA Specials == Backslash \in Char /\ Escapable \subseteq Char /\ "eof" \notin Escapable
BY Zenon DEF Quote, Backslash, Escapable, Char

Add(chars, r) == [r EXCEPT !.value = chars \o @]
AddError(e, r) == [r EXCEPT !.errs = <<e>> \o @]
Over(q, p) == p = End \/ text[p] = text[q]
OverValue(q, p) ==
  IF p = End THEN [end |-> End, value |-> <<>>, errs |-> <<>>, closed |-> FALSE]
  ELSE [end |-> p + 1, value |-> <<>>, errs |-> <<>>, closed |-> TRUE]
NewLine(q, p) == text[q] = Quote /\ text[p] = "nl"
Escape(q, p) == text[q] = Quote /\ text[p] = Backslash
Further(q, p) ==
  IF NewLine(q, p) THEN AfterIndent(p + 1, Column(q))
  ELSE IF Escape(q, p) /\ At(p + 1) \in Escapable THEN p + 2 ELSE p + 1
Extended(q, v, p, r) ==
  IF NewLine(q, p) THEN Add(<<"nl">>, r)
  ELSE IF Escape(q, p)
       THEN IF At(p + 1) \in Escapable THEN Add(<<text[p + 1]>>, r)
            ELSE AddError(Error(EscapeError(v), p), Add(<<Backslash>>, r))
  ELSE Add(<<text[p]>>, r)

LEMMA AddOK ==
  ASSUME NEW r \in Read, NEW chars \in Seq(Char), NEW e \in EscapeErrors
  PROVE  /\ Add(chars, r) \in Read /\ Add(chars, r).end = r.end
         /\ AddError(e, r) \in Read /\ AddError(e, r).end = r.end
<1>1. chars \o r.value \in Seq(Char)
  BY DEF Read
<1>2. <<e>> \o r.errs \in Seq(EscapeErrors)
  BY DEF Read
<1> QED  BY <1>1, <1>2 DEF Read, Add, AddError

LEMMA FurtherOK ==
  ASSUME text \in Seq(Char), NEW q \in 1 .. Len(text), NEW p \in 1 .. End, ~Over(q, p)
  PROVE  Further(q, p) \in p + 1 .. End
<1>1. p < End /\ p + 1 \in 1 .. End /\ p \in Nat /\ End \in Nat
  BY TextOK DEF Over
<1>2. AfterIndent(p + 1, Column(q)) \in p + 1 .. End
  BY <1>1, AfterIndentOK
<1>3. At(p + 1) \in Escapable => p + 1 < End
  BY <1>1, TextOK, Specials
<1> QED  BY <1>1, <1>2, <1>3 DEF Further

LEMMA MadeOK ==
  ASSUME text \in Seq(Char), NEW q \in 1 .. Len(text), NEW v, NEW p \in 1 .. End, ~Over(q, p),
         NEW r \in Read
  PROVE  Extended(q, v, p, r) \in Read /\ Extended(q, v, p, r).end = r.end
<1>1. p < End /\ p \in 1 .. Len(text) /\ p \in Nat /\ End \in Nat
  BY TextOK DEF Over
<1>2. <<"nl">> \in Seq(Char) /\ <<Backslash>> \in Seq(Char) /\ <<text[p]>> \in Seq(Char)
  <2>1. "nl" \in Char /\ Backslash \in Char /\ text[p] \in Char
    <3>1. "nl" \in Char
      BY Zenon DEF Char
    <3> QED  BY <1>1, <3>1, Specials
  <2> QED  BY <2>1
<1>3. At(p + 1) \in Escapable => <<text[p + 1]>> \in Seq(Char)
  <2> SUFFICES ASSUME At(p + 1) \in Escapable
               PROVE  <<text[p + 1]>> \in Seq(Char)
    OBVIOUS
  <2>1. p + 1 \in Nat /\ p + 1 < End
    BY <1>1, TextOK, Specials
  <2>2. text[p + 1] \in Char
    BY <1>1, <2>1, TextOK
  <2> QED  BY <2>2
<1>4. Error(EscapeError(v), p) \in EscapeErrors
  BY <1>1 DEF Error, EscapeError, EscapeErrors, EscapeCodes
<1>5. \A chars \in Seq(Char) : Add(chars, r) \in Read /\ Add(chars, r).end = r.end
  BY <1>4, AddOK
<1>6. \A s \in Read : AddError(Error(EscapeError(v), p), s) \in Read
                      /\ AddError(Error(EscapeError(v), p), s).end = s.end
  BY <1>2, <1>4, AddOK
<1>7. CASE NewLine(q, p)
  BY <1>2, <1>5, <1>7 DEF Extended
<1>8. CASE ~NewLine(q, p) /\ Escape(q, p) /\ At(p + 1) \in Escapable
  BY <1>3, <1>5, <1>8 DEF Extended
<1>9. CASE ~NewLine(q, p) /\ Escape(q, p) /\ At(p + 1) \notin Escapable
  <2>1. Add(<<Backslash>>, r) \in Read /\ Add(<<Backslash>>, r).end = r.end
    BY <1>2, <1>5
  <2> QED  BY <1>6, <1>9, <2>1 DEF Extended
<1>10. CASE ~NewLine(q, p) /\ ~Escape(q, p)
  BY <1>2, <1>5, <1>10 DEF Extended
<1> QED  BY <1>7, <1>8, <1>9, <1>10

LEMMA OverOK ==
  ASSUME text \in Seq(Char), NEW q, NEW p \in 1 .. End, Over(q, p)
  PROVE  OverValue(q, p) \in Read /\ OverValue(q, p).end \in p .. End
<1>1. <<>> \in Seq(Char) /\ <<>> \in Seq(EscapeErrors)
  OBVIOUS
<1>2. End \in 1 .. End /\ End \in p .. End /\ (p # End => p + 1 \in 1 .. End /\ p + 1 \in p .. End)
  BY TextOK
<1> QED  BY <1>1, <1>2 DEF OverValue, Read

RestFunction(q, v) == CHOOSE rest : rest =
  [p \in 1 .. End |->
     IF p = End THEN [end |-> End, value |-> <<>>, errs |-> <<>>, closed |-> FALSE]
     ELSE IF text[p] = text[q] THEN [end |-> p + 1, value |-> <<>>, errs |-> <<>>, closed |-> TRUE]
     ELSE IF NewLine(q, p) THEN Add(<<"nl">>, rest[AfterIndent(p + 1, Column(q))])
     ELSE IF Escape(q, p)
          THEN IF At(p + 1) \in Escapable THEN Add(<<text[p + 1]>>, rest[p + 2])
               ELSE AddError(Error(EscapeError(v), p), Add(<<Backslash>>, rest[p + 1]))
     ELSE Add(<<text[p]>>, rest[p + 1])]

LEMMA QuotedIsRest ==
  ASSUME NEW q, NEW v
  PROVE  Quoted(q, v) = RestFunction(q, v)[q + 1]
BY DEF Quoted, RestFunction, NewLine, Escape, Escapable, Quote, Backslash, Add, AddError

LEMMA RestExists ==
  ASSUME text \in Seq(Char), NEW q \in 1 .. Len(text), NEW v
  PROVE  \A p \in 1 .. End : RestFunction(q, v)[p] =
           IF Over(q, p) THEN OverValue(q, p) ELSE Extended(q, v, p, RestFunction(q, v)[Further(q, p)])
<1> DEFINE Stop == {p \in 1 .. End : Over(q, p)}
           w == [p \in 1 .. End |-> OverValue(q, p)]
           next == [p \in 1 .. End |-> Further(q, p)]
           F == [p \in 1 .. End |-> [r \in Read |-> Extended(q, v, p, r)]]
<1>1. End \in Nat
  BY TextOK
<1>2. \A p \in 1 .. End : w[p] = OverValue(q, p) /\ next[p] = Further(q, p)
                          /\ \A r \in Read : F[p][r] = Extended(q, v, p, r)
  OBVIOUS
<1>3. \A p \in 1 .. End : p \in Stop <=> Over(q, p)
  OBVIOUS
<1> HIDE DEF Stop, w, next, F
<1>4. \A p \in 1 .. End : p \in Stop => w[p] \in Read
  BY <1>2, <1>3, OverOK
<1>5. \A p \in 1 .. End : p \notin Stop =>
        next[p] \in p + 1 .. End /\ \A r \in Read : F[p][r] \in Read
  BY <1>2, <1>3, FurtherOK, MadeOK
<1>6. PICK f \in [1 .. End -> Read] : Follows(f, End, Stop, w, next, F)
  <2>1. Forward(End, Read, Stop, w, next, F)
    BY <1>4, <1>5 DEF Forward
  <2> QED  BY <1>1, <2>1, Recursion
<1>7. \A p \in 1 .. End : f[p] = IF p \in Stop THEN w[p] ELSE F[p][f[next[p]]]
  BY <1>6 DEF Follows
<1>8. \A p \in 1 .. End : f[p] = IF Over(q, p) THEN OverValue(q, p) ELSE Extended(q, v, p, f[Further(q, p)])
  <2> SUFFICES ASSUME NEW p \in 1 .. End
               PROVE  f[p] = IF Over(q, p) THEN OverValue(q, p) ELSE Extended(q, v, p, f[Further(q, p)])
    OBVIOUS
  <2>1. CASE Over(q, p)
    BY <1>2, <1>3, <1>7, <2>1
  <2>2. CASE ~Over(q, p)
    <3>1. next[p] \in 1 .. End /\ next[p] = Further(q, p)
      BY <1>1, <1>2, <1>3, <1>5, <2>2
    <3>2. f[next[p]] \in Read
      BY <1>6, <3>1
    <3> QED  BY <1>2, <1>3, <1>7, <2>2, <3>1, <3>2
  <2> QED  BY <2>1, <2>2
<1>9. f = [p \in 1 .. End |-> IF Over(q, p) THEN OverValue(q, p) ELSE Extended(q, v, p, f[Further(q, p)])]
  BY <1>6, <1>8
<1>10. ASSUME NEW g, NEW p \in 1 .. End
       PROVE  (IF Over(q, p) THEN OverValue(q, p) ELSE Extended(q, v, p, g[Further(q, p)])) =
         (IF p = End THEN [end |-> End, value |-> <<>>, errs |-> <<>>, closed |-> FALSE]
          ELSE IF text[p] = text[q] THEN [end |-> p + 1, value |-> <<>>, errs |-> <<>>, closed |-> TRUE]
          ELSE IF NewLine(q, p) THEN Add(<<"nl">>, g[AfterIndent(p + 1, Column(q))])
          ELSE IF Escape(q, p)
               THEN IF At(p + 1) \in Escapable THEN Add(<<text[p + 1]>>, g[p + 2])
                    ELSE AddError(Error(EscapeError(v), p), Add(<<Backslash>>, g[p + 1]))
          ELSE Add(<<text[p]>>, g[p + 1]))
  <2>1. CASE Over(q, p)
    BY <2>1 DEF Over, OverValue
  <2>2. CASE ~Over(q, p)
    <3>1. CASE NewLine(q, p)
      BY <2>2, <3>1 DEF Over, Extended, Further
    <3>2. CASE ~NewLine(q, p) /\ Escape(q, p)
      BY <2>2, <3>2 DEF Over, Extended, Further
    <3>3. CASE ~NewLine(q, p) /\ ~Escape(q, p)
      BY <2>2, <3>3 DEF Over, Extended, Further
    <3> QED  BY <3>1, <3>2, <3>3
  <2> QED  BY <2>1, <2>2
<1>11. f = [p \in 1 .. End |->
          IF p = End THEN [end |-> End, value |-> <<>>, errs |-> <<>>, closed |-> FALSE]
          ELSE IF text[p] = text[q] THEN [end |-> p + 1, value |-> <<>>, errs |-> <<>>, closed |-> TRUE]
          ELSE IF NewLine(q, p) THEN Add(<<"nl">>, f[AfterIndent(p + 1, Column(q))])
          ELSE IF Escape(q, p)
               THEN IF At(p + 1) \in Escapable THEN Add(<<text[p + 1]>>, f[p + 2])
                    ELSE AddError(Error(EscapeError(v), p), Add(<<Backslash>>, f[p + 1]))
          ELSE Add(<<text[p]>>, f[p + 1])]
  BY <1>9, <1>10, Zenon
<1>12. RestFunction(q, v) = [p \in 1 .. End |->
          IF p = End THEN [end |-> End, value |-> <<>>, errs |-> <<>>, closed |-> FALSE]
          ELSE IF text[p] = text[q] THEN [end |-> p + 1, value |-> <<>>, errs |-> <<>>, closed |-> TRUE]
          ELSE IF NewLine(q, p) THEN Add(<<"nl">>, RestFunction(q, v)[AfterIndent(p + 1, Column(q))])
          ELSE IF Escape(q, p)
               THEN IF At(p + 1) \in Escapable THEN Add(<<text[p + 1]>>, RestFunction(q, v)[p + 2])
                    ELSE AddError(Error(EscapeError(v), p), Add(<<Backslash>>, RestFunction(q, v)[p + 1]))
          ELSE Add(<<text[p]>>, RestFunction(q, v)[p + 1])]
  BY <1>11, Zenon DEF RestFunction
<1> QED  BY <1>10, <1>12, Zenon

LEMMA QuotedOK ==
  ASSUME text \in Seq(Char), NEW q \in 1 .. Len(text), NEW v
  PROVE  Quoted(q, v) \in Read /\ Quoted(q, v).end \in q + 1 .. End
<1> DEFINE f == RestFunction(q, v)
           S == {p \in 1 .. End : f[p] \in Read /\ f[p].end \in p .. End}
<1>1. Quoted(q, v) = f[q + 1] /\ q + 1 \in 1 .. End
  BY QuotedIsRest, TextOK
<1>2. \A p \in 1 .. End : f[p] =
        IF Over(q, p) THEN OverValue(q, p) ELSE Extended(q, v, p, f[Further(q, p)])
  BY RestExists
<1> HIDE DEF f
<1>3. End \in Nat
  BY TextOK
<1>4. ASSUME NEW p \in 1 .. End, \A r \in p + 1 .. End : r \in S PROVE p \in S
  <2>1. CASE Over(q, p)
    BY <1>2, <2>1, OverOK
  <2>2. CASE ~Over(q, p)
    <3>1. PICK n : n = Further(q, p)
      OBVIOUS
    <3>2. n \in p + 1 .. End
      BY <2>2, <3>1, FurtherOK
    <3>3. PICK r : r = f[n]
      OBVIOUS
    <3>4. r \in Read /\ r.end \in p .. End
      BY <1>3, <1>4, <3>2, <3>3
    <3>5. f[p] = Extended(q, v, p, r)
      BY <1>2, <2>2, <3>1, <3>3
    <3> QED  BY <2>2, <3>4, <3>5, MadeOK
  <2> QED  BY <2>1, <2>2
<1>5. \A p \in 1 .. End : p \in S
  <2> HIDE DEF S
  <2> QED  BY <1>3, <1>4, DownInduction
<1> QED  BY <1>1, <1>5

-----------------------------------------------------------------------------
(* Arguments.                                                              *)
StringCodes == {"none", "EOF", "EXPECTED_QUOTED_STRING", "EXPECTED_STRING"}
StringRead == [err : StringCodes, end : 1 .. End, value : Seq(Char), errs : Seq(EscapeErrors)]

Behind(q, v) == Skip(Quoted(q, v).end)
NextString(q, v) == Skip(Behind(q, v) + 1)
Continues(q, v) ==
  /\ Quoted(q, v).closed /\ Behind(q, v) # End /\ text[Behind(q, v)] = "+"
  /\ NextString(q, v) # End /\ text[NextString(q, v)] \in Quotes
LastString(q, v) ==
  IF ~Quoted(q, v).closed \/ Behind(q, v) = End
  THEN StringResult("EOF", End, Quoted(q, v).value, Quoted(q, v).errs)
  ELSE IF text[Behind(q, v)] # "+"
  THEN StringResult("none", Behind(q, v), Quoted(q, v).value, Quoted(q, v).errs)
  ELSE IF NextString(q, v) = End
  THEN StringResult("EOF", End, Quoted(q, v).value, Quoted(q, v).errs)
  ELSE StringResult("EXPECTED_QUOTED_STRING", NextString(q, v), Quoted(q, v).value, Quoted(q, v).errs)

LEMMA BehindOK ==
  ASSUME text \in Seq(Char), NEW q \in 1 .. Len(text), NEW v
  PROVE  /\ Behind(q, v) \in q + 1 .. End
         /\ Behind(q, v) # End => NextString(q, v) \in q + 1 .. End
<1>1. PICK e : e = Quoted(q, v).end
  OBVIOUS
<1>2. e \in q + 1 .. End
  BY <1>1, QuotedOK
<1>3. PICK b : b = Skip(e)
  OBVIOUS
<1>4. b \in q + 1 .. End /\ b \in 1 .. End
  <2>1. e \in 1 .. End
    BY <1>2, TextOK
  <2>2. b \in e .. End
    BY <1>3, <2>1, SkipOK
  <2> QED  BY <1>2, <2>2, TextOK
<1>5. Behind(q, v) = b
  BY <1>1, <1>3 DEF Behind
<1>6. b # End => Skip(b + 1) \in q + 1 .. End
  <2> SUFFICES ASSUME b # End
               PROVE  Skip(b + 1) \in q + 1 .. End
    OBVIOUS
  <2>1. b + 1 \in 1 .. End
    BY <1>4, TextOK
  <2>2. Skip(b + 1) \in b + 1 .. End
    BY <2>1, SkipOK
  <2> QED  BY <1>4, <2>2, TextOK
<1> QED  BY <1>4, <1>5, <1>6 DEF NextString

LEMMA LastStringOK ==
  ASSUME text \in Seq(Char), NEW q \in 1 .. Len(text), NEW v
  PROVE  LastString(q, v) \in StringRead
<1>1. Quoted(q, v).value \in Seq(Char) /\ Quoted(q, v).errs \in Seq(EscapeErrors)
  BY QuotedOK DEF Read
<1>2. End \in 1 .. End /\ Behind(q, v) \in 1 .. End /\ (Behind(q, v) # End => NextString(q, v) \in 1 .. End)
  BY BehindOK, TextOK
<1> QED  BY <1>1, <1>2 DEF LastString, StringResult, StringRead, StringCodes

LEMMA ConcatenatedOK ==
  ASSUME text \in Seq(Char), NEW q \in 1 .. Len(text), NEW v, NEW r \in StringRead
  PROVE  Concatenated(Quoted(q, v), r) \in StringRead
<1>1. Quoted(q, v).value \in Seq(Char) /\ Quoted(q, v).errs \in Seq(EscapeErrors)
  BY QuotedOK DEF Read
<1>2. r.value \in Seq(Char) /\ r.errs \in Seq(EscapeErrors)
  BY DEF StringRead
<1>3. Quoted(q, v).value \o r.value \in Seq(Char) /\ Quoted(q, v).errs \o r.errs \in Seq(EscapeErrors)
  BY <1>1, <1>2
<1> QED  BY <1>3 DEF Concatenated, StringRead

QuotedFunction(v) == CHOOSE quoted : quoted =
  [q \in 1 .. Len(text) |->
     IF Quoted(q, v).closed
     THEN IF Behind(q, v) = End THEN StringResult("EOF", End, Quoted(q, v).value, Quoted(q, v).errs)
          ELSE IF text[Behind(q, v)] = "+"
               THEN IF NextString(q, v) = End
                    THEN StringResult("EOF", End, Quoted(q, v).value, Quoted(q, v).errs)
                    ELSE IF text[NextString(q, v)] \notin Quotes
                         THEN StringResult("EXPECTED_QUOTED_STRING", NextString(q, v),
                                           Quoted(q, v).value, Quoted(q, v).errs)
                         ELSE Concatenated(Quoted(q, v), quoted[NextString(q, v)])
               ELSE StringResult("none", Behind(q, v), Quoted(q, v).value, Quoted(q, v).errs)
     ELSE StringResult("EOF", End, Quoted(q, v).value, Quoted(q, v).errs)]

LEMMA QuotedStringsIs ==
  ASSUME NEW start, NEW v
  PROVE  QuotedStrings(start, v) = QuotedFunction(v)[start]
BY DEF QuotedStrings, QuotedFunction, Behind, NextString

LEMMA QuotedExists ==
  ASSUME text \in Seq(Char), NEW v
  PROVE  \A q \in 1 .. Len(text) : QuotedFunction(v)[q] =
           IF Continues(q, v) THEN Concatenated(Quoted(q, v), QuotedFunction(v)[NextString(q, v)])
           ELSE LastString(q, v)
<1> DEFINE N == Len(text)
           Stop == {q \in 1 .. N : ~Continues(q, v)}
           w == [q \in 1 .. N |-> LastString(q, v)]
           next == [q \in 1 .. N |-> NextString(q, v)]
           F == [q \in 1 .. N |-> [r \in StringRead |-> Concatenated(Quoted(q, v), r)]]
           Body(g, q) ==
             IF Quoted(q, v).closed
             THEN IF Behind(q, v) = End THEN StringResult("EOF", End, Quoted(q, v).value, Quoted(q, v).errs)
                  ELSE IF text[Behind(q, v)] = "+"
                       THEN IF NextString(q, v) = End
                            THEN StringResult("EOF", End, Quoted(q, v).value, Quoted(q, v).errs)
                            ELSE IF text[NextString(q, v)] \notin Quotes
                                 THEN StringResult("EXPECTED_QUOTED_STRING", NextString(q, v),
                                                   Quoted(q, v).value, Quoted(q, v).errs)
                                 ELSE Concatenated(Quoted(q, v), g[NextString(q, v)])
                       ELSE StringResult("none", Behind(q, v), Quoted(q, v).value, Quoted(q, v).errs)
             ELSE StringResult("EOF", End, Quoted(q, v).value, Quoted(q, v).errs)
<1>1. N \in Nat /\ \A q \in 1 .. N : q \in 1 .. Len(text)
  BY TextOK
<1>2. \A q \in 1 .. N : w[q] = LastString(q, v) /\ next[q] = NextString(q, v)
                        /\ \A r \in StringRead : F[q][r] = Concatenated(Quoted(q, v), r)
  OBVIOUS
<1>3. \A q \in 1 .. N : q \in Stop <=> ~Continues(q, v)
  OBVIOUS
<1>4. ASSUME NEW g, NEW q \in 1 .. N
      PROVE  (IF Continues(q, v) THEN Concatenated(Quoted(q, v), g[NextString(q, v)]) ELSE LastString(q, v))
               = Body(g, q)
  <2>1. CASE Continues(q, v)
    BY <2>1 DEF Continues
  <2>2. CASE ~Continues(q, v)
    BY <2>2 DEF Continues, LastString
  <2> QED  BY <2>1, <2>2
<1>5. QuotedFunction(v) = CHOOSE g : g = [q \in 1 .. N |-> Body(g, q)]
  BY DEF QuotedFunction
<1> HIDE DEF Stop, w, next, F, Body
<1>6. \A q \in 1 .. N : q \in Stop => w[q] \in StringRead
  BY <1>1, <1>2, <1>3, LastStringOK
<1>7. \A q \in 1 .. N : q \notin Stop =>
        next[q] \in q + 1 .. N /\ \A r \in StringRead : F[q][r] \in StringRead
  <2> SUFFICES ASSUME NEW q \in 1 .. N, Continues(q, v)
               PROVE  next[q] \in q + 1 .. N /\ \A r \in StringRead : F[q][r] \in StringRead
    BY <1>3
  <2>1. NextString(q, v) \in q + 1 .. End /\ NextString(q, v) # End
    BY <1>1, BehindOK DEF Continues
  <2>2. NextString(q, v) \in q + 1 .. N
    BY <2>1, TextOK
  <2> QED  BY <1>1, <1>2, <2>2, ConcatenatedOK
<1> HIDE DEF N
<1>8. PICK f \in [1 .. N -> StringRead] : Follows(f, N, Stop, w, next, F)
  <2>1. Forward(N, StringRead, Stop, w, next, F)
    BY <1>6, <1>7 DEF Forward
  <2> QED  BY <1>1, <2>1, Recursion
<1>9. \A q \in 1 .. N : f[q] = IF q \in Stop THEN w[q] ELSE F[q][f[next[q]]]
  BY <1>8 DEF Follows
<1>10. \A q \in 1 .. N :
         f[q] = IF Continues(q, v) THEN Concatenated(Quoted(q, v), f[NextString(q, v)]) ELSE LastString(q, v)
  <2> SUFFICES ASSUME NEW q \in 1 .. N
               PROVE  f[q] = IF Continues(q, v) THEN Concatenated(Quoted(q, v), f[NextString(q, v)])
                             ELSE LastString(q, v)
    OBVIOUS
  <2>1. CASE ~Continues(q, v)
    BY <1>2, <1>3, <1>9, <2>1
  <2>2. CASE Continues(q, v)
    <3>1. next[q] \in 1 .. N /\ next[q] = NextString(q, v)
      BY <1>1, <1>2, <1>3, <1>7, <2>2
    <3>2. f[next[q]] \in StringRead
      BY <1>8, <3>1
    <3> QED  BY <1>2, <1>3, <1>9, <2>2, <3>1, <3>2
  <2> QED  BY <2>1, <2>2
<1>11. f = [q \in 1 .. N |-> Body(f, q)]
  <2>1. \A q \in 1 .. N : f[q] = Body(f, q)
    BY <1>4, <1>10
  <2> QED  BY <1>8, <2>1
<1>12. QuotedFunction(v) = [q \in 1 .. N |-> Body(QuotedFunction(v), q)]
  BY <1>5, <1>11, Zenon
<1>13. \A q \in 1 .. N : QuotedFunction(v)[q] = Body(QuotedFunction(v), q)
  BY <1>12, Zenon
<1> QED  BY <1>4, <1>13 DEF N

LEMMA QuotedStringsOK ==
  ASSUME text \in Seq(Char), NEW start \in 1 .. Len(text), NEW v
  PROVE  QuotedStrings(start, v) \in StringRead
<1> DEFINE f == QuotedFunction(v)
           S == {q \in 1 .. Len(text) : f[q] \in StringRead}
<1>1. QuotedStrings(start, v) = f[start]
  BY QuotedStringsIs
<1>2. \A q \in 1 .. Len(text) : f[q] =
           IF Continues(q, v) THEN Concatenated(Quoted(q, v), f[NextString(q, v)]) ELSE LastString(q, v)
  BY QuotedExists
<1> HIDE DEF f
<1>3. ASSUME NEW q \in 1 .. Len(text), \A r \in q + 1 .. Len(text) : r \in S PROVE q \in S
  <2>1. CASE Continues(q, v)
    <3>1. NextString(q, v) \in q + 1 .. End /\ NextString(q, v) # End
      BY <2>1, BehindOK DEF Continues
    <3>2. PICK n : n = NextString(q, v)
      OBVIOUS
    <3>3. n \in q + 1 .. Len(text)
      BY <3>1, <3>2, TextOK
    <3>4. f[n] \in StringRead
      BY <1>3, <3>3
    <3> QED  BY <1>2, <2>1, <3>2, <3>4, ConcatenatedOK
  <2>2. CASE ~Continues(q, v)
    BY <1>2, <2>2, LastStringOK
  <2> QED  BY <2>1, <2>2
<1>4. Len(text) \in Nat
  BY TextOK
<1>5. \A q \in 1 .. Len(text) : q \in S
  <2> HIDE DEF S
  <2>1. PICK n : n = Len(text)
    OBVIOUS
  <2> QED  BY <1>3, <1>4, <2>1, DownInduction
<1> QED  BY <1>1, <1>5

(* What ends an unquoted string, and what no text ends with that has none. *)
Ends(q) == Separator(q) \/ text[q] \in {"}", "\"", "'"}

LEMMA UnquotedEndOK ==
  ASSUME text \in Seq(Char), NEW p \in 1 .. Len(text)
  PROVE  /\ UnquotedEnd(p) \in p .. End
         /\ UnquotedEnd(p) = End => ~Ends(Len(text))
<1> DEFINE S == {q \in From(p) : Ends(q)}
<1>1. S \subseteq From(p) /\ UnquotedEnd(p) = FirstAt(S)
  BY DEF UnquotedEnd, Ends
<1>2. \A q \in From(p) : Ends(q) => q \in S
  OBVIOUS
<1> HIDE DEF S
<1>3. FirstAt(S) \in p .. End /\ (FirstAt(S) = End => S = {})
  <2>1. p \in 1 .. End
    BY TextOK
  <2> QED  BY <1>1, <2>1, FirstAtOK
<1>4. Len(text) \in From(p)
  BY TextOK DEF From
<1> QED  BY <1>1, <1>2, <1>3, <1>4

LEMMA LastIsPlain ==
  ASSUME text \in Seq(Char), text # <<>>, ~Ends(Len(text))
  PROVE  text[Len(text)] \notin {"nl", ";", "{", "}", "\"", "'"}
<1>1. At(Len(text)) = text[Len(text)]
  <2>1. Len(text) # 0 /\ Len(text) \in Nat
    OBVIOUS
  <2> QED  BY <2>1, TextOK
<1>2. text[Len(text)] \notin {"}", "\"", "'"}
  BY Zenon DEF Ends
<1>3. text[Len(text)] \notin {";", "{"} /\ text[Len(text)] # "nl"
  BY <1>1, Zenon DEF Ends, Separator, White
<1> QED  BY <1>2, <1>3, Zenon

ArgumentRead ==
  [err : StringCodes \cup {"hang"}, end : 1 .. End, value : Seq(Char) \cup {None}, errs : Seq(EscapeErrors)]

LEMMA ArgumentOK ==
  ASSUME text \in Seq(Char), NEW q \in 1 .. Len(text)
  PROVE  /\ Argument(q) \in ArgumentRead
         /\ Argument(q).err = "hang" => ~Ends(Len(text))
<1>1. <<>> \in Seq(Char) /\ <<>> \in Seq(EscapeErrors) /\ q \in 1 .. End /\ End \in 1 .. End
  BY TextOK
<1>2. \A r \in StringRead : r \in ArgumentRead /\ r.err # "hang"
  BY DEF StringRead, ArgumentRead, StringCodes
<1>3. UnquotedString(q, UnquotedEnd(q)) \in ArgumentRead
      /\ (UnquotedString(q, UnquotedEnd(q)).err = "hang" => ~Ends(Len(text)))
  <2>1. PICK e : e = UnquotedEnd(q)
    OBVIOUS
  <2>2. e \in 1 .. End /\ (e = End => ~Ends(Len(text)))
    BY <1>1, <2>1, UnquotedEndOK, TextOK
  <2>3. SubSeq(text, q, e - 1) \in Seq(Char)
    <3>1. e - 1 \in Int /\ e - 1 <= Len(text) /\ q \in Int /\ q >= 1
      BY <2>2, TextOK
    <3> QED  BY <3>1, PartOfText
  <2>4. "none" \in StringCodes
    BY DEF StringCodes
  <2> QED  BY <1>1, <2>1, <2>2, <2>3, <2>4 DEF UnquotedString, StringResult, ArgumentRead
<1>4. GetString(q, version) \in ArgumentRead
      /\ (GetString(q, version).err = "hang" => ~Ends(Len(text)))
  <2>1. CASE text[q] = "}"
    BY <1>1, <2>1 DEF GetString, StringResult, ArgumentRead, StringCodes
  <2>2. CASE text[q] # "}" /\ text[q] \in Quotes
    <3>1. QuotedStrings(q, version) \in StringRead
      BY QuotedStringsOK
    <3> QED  BY <1>2, <2>2, <3>1 DEF GetString
  <2>3. CASE text[q] # "}" /\ text[q] \notin Quotes
    BY <1>3, <2>3 DEF GetString
  <2> QED  BY <2>1, <2>2, <2>3
<1>5. CASE text[q] \in {"{", ";"}
  BY <1>1, <1>5 DEF Argument, StringResult, ArgumentRead, StringCodes
<1>6. CASE text[q] \notin {"{", ";"}
  BY <1>4, <1>6 DEF Argument
<1> QED  BY <1>5, <1>6

HeaderCodes == StringCodes \cup KeywordCodes \cup {"hang"}
HeaderRead ==
  [err : HeaderCodes, end : 1 .. End, errs : Seq(EscapeErrors), at : 1 .. End,
   prefix : Seq(Char) \cup {None}, keyword : Seq(Char), arg : Seq(Char) \cup {None}]

LEMMA HeaderFailureOK ==
  ASSUME text \in Seq(Char), NEW err \in HeaderCodes, NEW p \in 1 .. End
  PROVE  /\ HeaderFailure(err, p) \in HeaderRead
         /\ HeaderFailure(err, p).err = err /\ HeaderFailure(err, p).arg = None
<1>1. <<>> \in Seq(Char) /\ <<>> \in Seq(EscapeErrors)
  OBVIOUS
<1> QED  BY <1>1 DEF HeaderFailure, HeaderRead

(* The beginning of a statement.                                           *)
HeaderFacts(h) ==
  /\ h \in HeaderRead
  /\ h.err = "none" => h.end < End
  /\ h.err \notin {"none", "hang"} /\ h.arg # None => h.err = "EOF"
  /\ h.err = "hang" => ~Ends(Len(text)) /\ text # <<>>

LEMMA HeaderOK ==
  ASSUME text \in Seq(Char), NEW start \in 1 .. End
  PROVE  HeaderFacts(Header(start))
<1>1. PICK p : p = Skip(start)
  OBVIOUS
<1>2. p \in 1 .. End /\ End \in 1 .. End /\ End \in Nat
  BY <1>1, SkipOK, TextOK
<1>3. CASE p = End
  <2>1. Header(start) = HeaderFailure("EOF", End)
    BY <1>1, <1>3 DEF Header
  <2>2. "EOF" \in HeaderCodes
    BY DEF HeaderCodes, StringCodes
  <2> QED  BY <1>2, <2>1, <2>2, HeaderFailureOK DEF HeaderFacts
<1>4. CASE p # End
  <2>1. PICK kw : kw = GetKeyword(p)
    OBVIOUS
  <2>2. /\ kw.err \in KeywordCodes /\ kw.end \in 1 .. End
        /\ kw.prefix \in Seq(Char) \cup {None} /\ kw.keyword \in Seq(Char)
    <3>1. p < End
      BY <1>2, <1>4
    <3>2. kw.end \in p .. End
      BY <1>2, <2>1, <3>1, GetKeywordOK
    <3>3. kw.end \in 1 .. End
      BY <1>2, <3>2
    <3> QED  BY <1>2, <2>1, <3>1, <3>3, GetKeywordOK
  <2>3. Header(start) = WithKeyword(p, kw)
    BY <1>1, <1>4, <2>1 DEF Header
  <2>4. CASE kw.err # "none"
    <3>1. Header(start) = HeaderFailure(kw.err, kw.end)
      BY <2>3, <2>4 DEF WithKeyword
    <3>2. kw.err \in HeaderCodes /\ kw.err # "hang"
      BY <2>2 DEF HeaderCodes, KeywordCodes
    <3> QED  BY <2>2, <2>4, <3>1, <3>2, HeaderFailureOK DEF HeaderFacts
  <2>5. PICK q : q = Skip(kw.end)
    OBVIOUS
  <2>6. q \in 1 .. End
    BY <2>2, <2>5, SkipOK, TextOK
  <2>7. CASE kw.err = "none" /\ q = End
    <3>1. Header(start) = HeaderFailure("EOF", End)
      BY <2>3, <2>5, <2>7 DEF WithKeyword
    <3>2. "EOF" \in HeaderCodes
      BY DEF HeaderCodes, StringCodes
    <3> QED  BY <1>2, <3>1, <3>2, HeaderFailureOK DEF HeaderFacts
  <2>8. CASE kw.err = "none" /\ q # End
    <3>1. PICK a : a = Argument(q)
      OBVIOUS
    <3>2. q \in 1 .. Len(text)
      BY <2>6, <2>8, TextOK
    <3>3. a \in ArgumentRead /\ (a.err = "hang" => ~Ends(Len(text)))
      BY <3>1, <3>2, ArgumentOK
    <3>4. Skip(a.end) \in 1 .. End
      <4>1. a.end \in 1 .. End
        BY <3>3 DEF ArgumentRead
      <4>2. Skip(a.end) \in a.end .. End
        BY <4>1, SkipOK
      <4> QED  BY <4>1, <4>2, TextOK
    <3>5. Header(start) = WithArgument(p, kw, a)
      BY <2>3, <2>5, <2>8, <3>1 DEF WithKeyword
    <3>6. PICK e : e = Skip(a.end)
      OBVIOUS
    <3>7. PICK h : h = WithArgument(p, kw, a)
      OBVIOUS
    <3>8. /\ h.err = IF a.err # "none" THEN a.err ELSE IF e = End THEN "EOF" ELSE "none"
          /\ h.end = IF a.err # "none" THEN a.end ELSE e
          /\ h.arg = IF a.err # "none" THEN None ELSE a.value
      BY <3>6, <3>7 DEF WithArgument
    <3>9. h \in HeaderRead
      <4>1. /\ (IF a.err # "none" THEN a.err ELSE IF e = End THEN "EOF" ELSE "none") \in HeaderCodes
            /\ (IF a.err # "none" THEN a.end ELSE e) \in 1 .. End
            /\ (IF a.err # "none" THEN None ELSE a.value) \in Seq(Char) \cup {None}
            /\ a.errs \in Seq(EscapeErrors)
        BY <3>3, <3>4, <3>6 DEF ArgumentRead, HeaderCodes, StringCodes
      <4> QED  BY <1>2, <2>2, <3>6, <3>7, <4>1 DEF WithArgument, HeaderRead
    <3>10. h.err = "none" => h.end < End
      BY <3>4, <3>6, <3>8, <1>2
    <3>11. h.err \notin {"none", "hang"} /\ h.arg # None => h.err = "EOF"
      BY <3>8
    <3>12. h.err = "hang" => ~Ends(Len(text)) /\ text # <<>>
      <4>1. text # <<>>
        BY <3>2
      <4> QED  BY <3>3, <3>8, <4>1
    <3> QED  BY <3>5, <3>7, <3>9, <3>10, <3>11, <3>12 DEF HeaderFacts
  <2> QED  BY <2>2, <2>4, <2>7, <2>8
<1> QED  BY <1>3, <1>4

-----------------------------------------------------------------------------
(* What is known of the position and of the errors: while the parse goes on*)
(* there are none but those for escapes, then one more.                    *)
ReadInv ==
  /\ phase \notin {"open", "done"} => text \in Seq(Char) /\ pos \in 1 .. End
  /\ phase = "open" => pos = 1
  /\ phase = "hung" => ~Ends(Len(text)) /\ text # <<>>

Unstopped == \A i \in DOMAIN errors : errors[i].code \in EscapeCodes
Stopped ==
  /\ errors # <<>>
  /\ \A i \in DOMAIN errors : errors[i].code \notin EscapeCodes <=> i = Len(errors)
  /\ heap \cap Lost # {} => errors[Len(errors)].code = "EOF"
ErrorInv ==
  /\ phase \notin {"unwind", "done"} => Unstopped /\ heap \cap Lost = {}
  /\ phase = "unwind" => Stopped
  /\ phase = "done" /\ ~ok => Stopped

TextInv == TypeOK /\ ReadInv /\ ErrorInv

LEMMA InitText == Init => TextInv
<1> SUFFICES ASSUME Init
             PROVE  TextInv
  OBVIOUS
<1>1. /\ <<>> \in Seq(Nat) /\ <<>> \in Seq(Statement) /\ <<>> \in Seq(ParseError)
      /\ DOMAIN errors = {}
  BY DEF Init
<1> QED  BY <1>1 DEF Init, TextInv, TypeOK, ReadInv, ErrorInv, Unstopped

LEMMA NoFileIsNone == NoFile \notin Seq(Char)
<1>1. "nofile" \notin Char
  BY Zenon DEF Char, Letter
<1> SUFFICES ASSUME NoFile \in Seq(Char)
             PROVE  FALSE
  OBVIOUS
<1>2. NoFile[1] = "nofile" /\ Len(NoFile) = 1
  BY DEF NoFile
<1>3. NoFile[1] \in Char
  BY <1>2
<1> QED  BY <1>1, <1>2, <1>3

LEMMA ErrorTypes ==
  /\ EscapeErrors \subseteq ParseError
  /\ \A e \in EscapeErrors : e.code \in EscapeCodes
  /\ \A code \in StopCodes, at \in Nat :
        /\ Error(code, at) \in ParseError /\ Error(code, at).code = code
        /\ code \notin EscapeCodes
<1>1. EscapeErrors \subseteq ParseError
  BY DEF EscapeErrors, ParseError
<1>2. \A e \in EscapeErrors : e.code \in EscapeCodes
  BY DEF EscapeErrors
<1>3. ASSUME NEW code \in StopCodes, NEW at \in Nat
      PROVE  /\ Error(code, at) \in ParseError /\ Error(code, at).code = code
             /\ code \notin EscapeCodes
  <2>1. Error(code, at) \in ParseError /\ Error(code, at).code = code
    BY DEF Error, ParseError
  <2>2. code \notin EscapeCodes
    BY DEF StopCodes, EscapeCodes
  <2> QED  BY <2>1, <2>2
<1> QED  BY <1>1, <1>2, <1>3

(* Errors for escapes follow those reported already ...                    *)
LEMMA EscapesStay ==
  ASSUME errors \in Seq(ParseError), Unstopped, NEW es \in Seq(EscapeErrors)
  PROVE  /\ errors \o es \in Seq(ParseError)
         /\ \A i \in DOMAIN (errors \o es) : (errors \o es)[i].code \in EscapeCodes
<1> DEFINE new == errors \o es
<1>1. es \in Seq(ParseError) /\ Len(es) \in Nat /\ Len(errors) \in Nat
  BY ErrorTypes
<1>2. \A i \in 1 .. Len(es) : es[i].code \in EscapeCodes
  <2>1. \A i \in 1 .. Len(es) : es[i] \in EscapeErrors
    OBVIOUS
  <2> QED  BY <2>1, ErrorTypes
<1>3. /\ new \in Seq(ParseError) /\ Len(new) = Len(errors) + Len(es)
      /\ \A i \in 1 .. Len(new) : new[i] = IF i <= Len(errors) THEN errors[i] ELSE es[i - Len(errors)]
  BY <1>1
<1> HIDE DEF new
<1>4. ASSUME NEW i \in DOMAIN new
      PROVE  new[i].code \in EscapeCodes
  <2>1. i \in 1 .. Len(new) /\ Len(new) \in Nat
    BY <1>1, <1>3
  <2>2. CASE i <= Len(errors)
    <3>1. i \in DOMAIN errors
      BY <1>1, <2>1, <2>2
    <3> QED  BY <1>3, <2>1, <2>2, <3>1 DEF Unstopped
  <2>3. CASE ~(i <= Len(errors))
    <3>1. i - Len(errors) \in 1 .. Len(es)
      BY <1>1, <1>3, <2>1, <2>3
    <3> QED  BY <1>2, <1>3, <2>1, <2>3, <3>1
  <2> QED  BY <2>2, <2>3
<1> QED  BY <1>3, <1>4 DEF new

LastError(new, code) ==
  /\ new \in Seq(ParseError) /\ new # <<>>
  /\ \A i \in DOMAIN new : new[i].code \notin EscapeCodes <=> i = Len(new)
  /\ new[Len(new)].code = code

(* ... and the one with which the parse stops is the last.                 *)
LEMMA StopsWith ==
  ASSUME errors \in Seq(ParseError), Unstopped, NEW es \in Seq(EscapeErrors),
         NEW code \in StopCodes, NEW at \in Nat
  PROVE  LastError(errors \o Append(es, Error(code, at)), code)
<1>1. PICK before : before = errors \o es
  OBVIOUS
<1>2. /\ before \in Seq(ParseError) /\ Len(before) \in Nat
      /\ \A i \in 1 .. Len(before) : before[i].code \in EscapeCodes
  <2>1. before \in Seq(ParseError) /\ \A i \in DOMAIN before : before[i].code \in EscapeCodes
    BY <1>1, EscapesStay
  <2> QED  BY <2>1
<1>3. PICK e : e = Error(code, at)
  OBVIOUS
<1>4. e \in ParseError /\ e.code = code /\ code \notin EscapeCodes
  BY <1>3, ErrorTypes
<1>5. errors \o Append(es, e) = Append(before, e)
  <2>1. es \in Seq(ParseError)
    BY ErrorTypes
  <2> QED  BY <1>1, <1>4, <2>1
<1>6. PICK new : new = Append(before, e)
  OBVIOUS
<1>7. /\ new \in Seq(ParseError) /\ Len(new) = Len(before) + 1
      /\ new[Len(before) + 1] = e /\ \A i \in 1 .. Len(before) : new[i] = before[i]
  BY <1>2, <1>4, <1>6
<1>8. new # <<>> /\ DOMAIN new = 1 .. Len(before) + 1
  BY <1>2, <1>7
<1>9. \A i \in DOMAIN new : new[i].code \notin EscapeCodes <=> i = Len(new)
  BY <1>2, <1>4, <1>7, <1>8
<1>10. LastError(new, code)
  BY <1>2, <1>4, <1>7, <1>8, <1>9 DEF LastError
<1> QED  BY <1>3, <1>5, <1>6, <1>10

LEMMA StopsFor == {"EOF", "FOPEN", "INCOMPLETE_STATEMENT", "TRAILING_GARBAGE"} \subseteq StopCodes
  BY DEF StopCodes

LEMMA Nested ==
  ASSUME NEW s \in Seq(Nat), NEW n \in Nat
  PROVE  <<n>> \o s \in Seq(Nat) /\ (s # <<>> => Tail(s) \in Seq(Nat))
<1>1. <<n>> \in Seq(Nat)
  OBVIOUS
<1> QED  BY <1>1

(* The statement that is allocated.                                        *)
LEMMA NewStatementTypes ==
  ASSUME TypeOK, text \in Seq(Char), NEW h, HeaderFacts(h), NewStatement(h)
  PROVE  /\ tree' \in Seq(Statement) /\ heap' \subseteq {"stmt", "arg"} \X Nat
         /\ version' \in {1, 2} /\ Len(tree) + 1 \in Nat
         /\ h.end \in 1 .. Len(text) /\ h.end + 1 \in 1 .. End /\ h.errs \in Seq(EscapeErrors)
         /\ heap' \cap Lost = heap \cap Lost
<1>1. /\ h.err = "none" /\ h.end \in 1 .. End /\ h.at \in 1 .. End /\ h.errs \in Seq(EscapeErrors)
      /\ h.prefix \in Seq(Char) \cup {None} /\ h.keyword \in Seq(Char) /\ h.arg \in Seq(Char) \cup {None}
      /\ h.end < End
  BY DEF NewStatement, HeaderFacts, HeaderRead
<1>2. h.end \in 1 .. Len(text) /\ h.end + 1 \in 1 .. End /\ h.at \in Nat
  BY <1>1, TextOK
<1>3. Len(tree) + 1 \in Nat /\ Len(tree) + 1 # 0
  BY DEF TypeOK
<1>4. tree' \in Seq(Statement)
  <2>1. PICK n : n = IF stack = <<>> THEN 0 ELSE Head(stack)
    OBVIOUS
  <2>2. n \in Nat
    BY <2>1 DEF TypeOK
  <2>3. [parent |-> n, prefix |-> h.prefix, keyword |-> h.keyword, arg |-> h.arg, at |-> h.at] \in Statement
    BY <1>1, <1>2, <2>2 DEF Statement
  <2>4. tree' = Append(tree, [parent |-> n, prefix |-> h.prefix, keyword |-> h.keyword,
                              arg |-> h.arg, at |-> h.at])
    BY <2>1 DEF NewStatement
  <2> QED  BY <2>3, <2>4 DEF TypeOK
<1>5. heap' = heap \cup Owned(Len(tree) + 1, h.arg) /\ version' = NewVersion(h)
  BY DEF NewStatement
<1>6. Owned(Len(tree) + 1, h.arg) \subseteq {"stmt", "arg"} \X {Len(tree) + 1}
  BY DEF Owned
<1>7. heap' \subseteq {"stmt", "arg"} \X Nat
  BY <1>3, <1>5, <1>6 DEF TypeOK
<1>8. Owned(Len(tree) + 1, h.arg) \cap Lost = {}
  BY <1>3, <1>6 DEF Lost
<1>9. version' \in {1, 2}
  BY <1>5 DEF NewVersion, TypeOK
<1> QED  BY <1>1, <1>2, <1>3, <1>4, <1>5, <1>7, <1>8, <1>9

LEMMA TextStep == IInv /\ TextInv /\ [Next]_vars => TextInv'
<1> SUFFICES ASSUME IInv, TextInv, [Next]_vars
             PROVE  TextInv'
  OBVIOUS
<1>1. TypeOK /\ ReadInv /\ ErrorInv
  BY DEF TextInv
<1>2. ASSUME text \in Seq(Char), pos \in 1 .. End PROVE pos \in Nat /\ End \in Nat /\ Skip(pos) \in 1 .. End
             /\ Skip(pos) \in Nat
  <2>1. Skip(pos) \in pos .. End
    BY <1>2, SkipOK
  <2> QED  BY <1>2, <2>1, TextOK
<1>3. Error("EOF", End) \in ParseError /\ End \in Nat
  <2>1. End \in Nat
    <3>1. CASE text \in Seq(Char)
      BY <3>1, TextOK
    <3>2. CASE text = NoFile
      BY <3>2 DEF End, NoFile
    <3> QED  BY <1>1, <3>1, <3>2, ScenarioAssumption DEF TypeOK
  <2> QED  BY <2>1, StopsFor, ErrorTypes
<1>4. CASE CannotOpen
  <2>1. /\ phase = "open" /\ errors' = <<Error("FOPEN", 0)>> /\ phase' = "done"
        /\ UNCHANGED <<text, pos, stack, tree, heap, version, ok>>
    BY <1>4 DEF CannotOpen
  <2>2. heap = {}
    BY <2>1 DEF IInv, HeapInv
  <2>3. Error("FOPEN", 0) \in ParseError /\ Error("FOPEN", 0).code \notin EscapeCodes
    BY StopsFor, ErrorTypes
  <2>4. errors' \in Seq(ParseError) /\ Stopped'
    <3>1. errors' # <<>> /\ Len(errors') = 1 /\ DOMAIN errors' = {1} /\ errors'[1] = Error("FOPEN", 0)
      BY <2>1
    <3> QED  BY <2>1, <2>2, <2>3, <3>1 DEF Stopped
  <2> QED  BY <1>1, <2>1, <2>4 DEF TextInv, TypeOK, ReadInv, ErrorInv
<1>5. CASE Open /\ text = <<>>
  <2>1. /\ phase = "open" /\ errors' = <<Error("EOF", End)>> /\ phase' = "done"
        /\ UNCHANGED <<text, pos, stack, tree, heap, version, ok>>
    BY <1>5 DEF Open
  <2>2. heap = {}
    BY <2>1 DEF IInv, HeapInv
  <2>3. Error("EOF", End).code \notin EscapeCodes
    BY <1>3, StopsFor, ErrorTypes
  <2>4. errors' \in Seq(ParseError) /\ Stopped'
    <3>1. errors' # <<>> /\ Len(errors') = 1 /\ DOMAIN errors' = {1} /\ errors'[1] = Error("EOF", End)
      BY <2>1
    <3> QED  BY <1>3, <2>1, <2>2, <2>3, <3>1 DEF Stopped
  <2> QED  BY <1>1, <2>1, <2>4 DEF TextInv, TypeOK, ReadInv, ErrorInv
<1>6. CASE Open /\ text # <<>>
  <2>1. /\ phase = "open" /\ phase' = "statement"
        /\ UNCHANGED <<text, pos, stack, tree, heap, version, ok, errors>> /\ text # NoFile
    BY <1>6 DEF Open
  <2>2. text \in Seq(Char) /\ pos \in 1 .. End
    <3>1. text \in Seq(Char)
      BY <1>1, <2>1, ScenarioAssumption DEF TypeOK
    <3> QED  BY <1>1, <2>1, <3>1, TextOK DEF ReadInv
  <2>3. pos' \in 1 .. End'
    BY <2>1, <2>2 DEF End
  <2> QED  BY <1>1, <2>1, <2>2, <2>3 DEF TextInv, TypeOK, ReadInv, ErrorInv, Unstopped
<1>7. ASSUME phase = "statement"
      PROVE  text \in Seq(Char) /\ pos \in 1 .. End /\ HeaderFacts(Header(pos)) /\ Unstopped
             /\ heap \cap Lost = {} /\ errors \in Seq(ParseError)
  BY <1>1, <1>7, HeaderOK DEF ReadInv, ErrorInv, TypeOK
<1>8. CASE HeaderFails
  <2>1. PICK h : /\ h = Header(pos) /\ h.err \notin {"none", "hang"}
                 /\ errors' = errors \o Append(h.errs, Error(h.err, h.end)) /\ pos' = h.end
                 /\ heap' = IF h.arg = None THEN heap ELSE heap \cup {<<"arg", 0>>}
    BY <1>8 DEF HeaderFails
  <2>2. phase = "statement" /\ phase' = "unwind" /\ UNCHANGED <<text, stack, tree, version, ok>>
    BY <1>8 DEF HeaderFails
  <2>3. /\ h.err \in StopCodes /\ h.errs \in Seq(EscapeErrors)
        /\ h.end \in 1 .. End /\ h.end \in Nat /\ (h.arg # None => h.err = "EOF")
    <3>1. HeaderFacts(h)
      BY <1>7, <2>1, <2>2
    <3>2. h.err \in HeaderCodes /\ h.errs \in Seq(EscapeErrors) /\ h.end \in 1 .. End
      BY <3>1 DEF HeaderFacts, HeaderRead
    <3>3. h.err \in StopCodes
      BY <2>1, <3>2 DEF HeaderCodes, StringCodes, KeywordCodes, StopCodes
    <3> QED  BY <1>3, <2>1, <3>1, <3>2, <3>3 DEF HeaderFacts
  <2>4. /\ errors' \in Seq(ParseError) /\ errors' # <<>>
        /\ \A i \in DOMAIN errors' : errors'[i].code \notin EscapeCodes <=> i = Len(errors')
        /\ errors'[Len(errors')].code = h.err
    <3>1. LastError(errors \o Append(h.errs, Error(h.err, h.end)), h.err)
      BY <1>7, <2>2, <2>3, StopsWith
    <3> QED  BY <2>1, <3>1 DEF LastError
  <2>5. Stopped'
    BY <1>7, <2>1, <2>2, <2>3, <2>4 DEF Stopped
  <2>6. heap' \subseteq {"stmt", "arg"} \X Nat
    BY <1>1, <2>1 DEF TypeOK
  <2>7. pos' \in 1 .. End' /\ pos' \in Nat /\ text' \in Seq(Char)
    BY <1>7, <2>1, <2>2, <2>3 DEF End
  <2> QED  BY <1>1, <2>2, <2>4, <2>5, <2>6, <2>7 DEF TextInv, TypeOK, ReadInv, ErrorInv
<1>9. CASE ReadPastTheEnd
  <2>1. /\ phase = "statement" /\ Header(pos).err = "hang" /\ phase' = "hung"
        /\ UNCHANGED <<text, pos, stack, tree, heap, version, ok, errors>>
    BY <1>9 DEF ReadPastTheEnd
  <2>2. ~Ends(Len(text)) /\ text # <<>> /\ text \in Seq(Char) /\ pos \in 1 .. End
    BY <1>7, <2>1 DEF HeaderFacts
  <2>3. ~Ends(Len(text))' /\ pos' \in 1 .. End'
    BY <2>1, <2>2 DEF Ends, Separator, White, LineComment, BlockComment, At, End
  <2> QED  BY <1>1, <1>7, <2>1, <2>2, <2>3 DEF TextInv, TypeOK, ReadInv, ErrorInv, Unstopped
<1>10. CASE Simple \/ OpenBlock
  <2>1. PICK h : /\ h = Header(pos) /\ NewStatement(h) /\ pos' = h.end + 1 /\ errors' = errors \o h.errs
    BY <1>10 DEF Simple, OpenBlock
  <2>2. /\ phase = "statement" /\ phase' \in {"end", "block"} /\ UNCHANGED <<text, ok>>
        /\ stack' = stack \/ stack' = <<Len(tree) + 1>> \o stack
    BY <1>10 DEF Simple, OpenBlock
  <2>3. HeaderFacts(h) /\ text \in Seq(Char)
    BY <1>7, <2>1, <2>2
  <2>4. /\ tree' \in Seq(Statement) /\ heap' \subseteq {"stmt", "arg"} \X Nat
        /\ version' \in {1, 2} /\ Len(tree) + 1 \in Nat
        /\ h.end + 1 \in 1 .. End /\ h.errs \in Seq(EscapeErrors) /\ heap' \cap Lost = heap \cap Lost
    BY <1>1, <2>1, <2>3, NewStatementTypes
  <2>5. errors' \in Seq(ParseError) /\ Unstopped'
    BY <1>7, <2>1, <2>2, <2>4, EscapesStay DEF Unstopped
  <2>6. stack' \in Seq(Nat)
    BY <1>1, <2>2, <2>4, Nested DEF TypeOK
  <2>7. pos' \in 1 .. End' /\ pos' \in Nat
    BY <1>3, <2>1, <2>2, <2>4 DEF End
  <2> QED  BY <1>1, <1>7, <2>2, <2>3, <2>4, <2>5, <2>6, <2>7 DEF TextInv, TypeOK, ReadInv, ErrorInv, Lost
<1>11. CASE Unterminated
  <2>1. PICK h : /\ h = Header(pos) /\ NewStatement(h) /\ pos' = h.end
                 /\ errors' = errors \o Append(h.errs, Error("INCOMPLETE_STATEMENT", h.end))
    BY <1>11 DEF Unterminated
  <2>2. /\ phase = "statement" /\ phase' = "unwind" /\ UNCHANGED <<text, ok>>
        /\ stack' = <<Len(tree) + 1>> \o stack
    BY <1>11 DEF Unterminated
  <2>3. HeaderFacts(h) /\ text \in Seq(Char)
    BY <1>7, <2>1, <2>2
  <2>4. /\ tree' \in Seq(Statement) /\ heap' \subseteq {"stmt", "arg"} \X Nat
        /\ version' \in {1, 2} /\ Len(tree) + 1 \in Nat
        /\ h.end \in 1 .. Len(text) /\ h.errs \in Seq(EscapeErrors) /\ heap' \cap Lost = heap \cap Lost
    BY <1>1, <2>1, <2>3, NewStatementTypes
  <2>5. "INCOMPLETE_STATEMENT" \in StopCodes /\ h.end \in Nat
    BY <2>4, StopsFor
  <2>6. errors' \in Seq(ParseError) /\ Stopped'
    <3>1. /\ errors' \in Seq(ParseError) /\ errors' # <<>>
          /\ \A i \in DOMAIN errors' : errors'[i].code \notin EscapeCodes <=> i = Len(errors')
      <4>1. LastError(errors \o Append(h.errs, Error("INCOMPLETE_STATEMENT", h.end)), "INCOMPLETE_STATEMENT")
        BY <1>7, <2>2, <2>4, <2>5, StopsWith
      <4> QED  BY <2>1, <4>1 DEF LastError
    <3>2. heap' \cap Lost' = {}
      BY <1>7, <2>2, <2>4 DEF Lost
    <3> QED  BY <3>1, <3>2 DEF Stopped
  <2>7. stack' \in Seq(Nat)
    BY <1>1, <2>2, <2>4, Nested DEF TypeOK
  <2>8. pos' \in 1 .. End' /\ pos' \in Nat
    BY <2>1, <2>2, <2>4, TextOK, <2>3 DEF End
  <2> QED  BY <1>1, <2>2, <2>3, <2>4, <2>6, <2>7, <2>8 DEF TextInv, TypeOK, ReadInv, ErrorInv
<1>12. ASSUME phase = "block"
       PROVE  text \in Seq(Char) /\ Skip(pos) \in 1 .. End /\ Skip(pos) \in Nat /\ Unstopped
              /\ heap \cap Lost = {} /\ errors \in Seq(ParseError)
  BY <1>1, <1>2, <1>12 DEF ReadInv, ErrorInv, TypeOK
<1>13. CASE BlockEof
  <2>1. /\ phase = "block" /\ errors' = errors \o EofError /\ pos' = End /\ phase' = "unwind"
        /\ UNCHANGED <<text, stack, tree, heap, version, ok>>
    BY <1>13 DEF BlockEof
  <2>2. PICK es : es = <<>>
    OBVIOUS
  <2>3. es \in Seq(EscapeErrors) /\ EofError = Append(es, Error("EOF", End)) /\ "EOF" \in StopCodes
    <3>1. EofError = Append(es, Error("EOF", End))
      BY <2>2 DEF EofError
    <3> QED  BY <2>2, <3>1, StopsFor
  <2>4. /\ errors' \in Seq(ParseError) /\ errors' # <<>>
        /\ \A i \in DOMAIN errors' : errors'[i].code \notin EscapeCodes <=> i = Len(errors')
    <3>1. LastError(errors \o Append(es, Error("EOF", End)), "EOF")
      BY <1>3, <1>12, <2>1, <2>3, StopsWith
    <3> QED  BY <2>1, <2>3, <3>1 DEF LastError
  <2>5. Stopped'
    BY <1>12, <2>1, <2>4 DEF Stopped, Lost
  <2>6. pos' \in 1 .. End' /\ pos' \in Nat
    BY <1>12, <2>1, TextOK DEF End
  <2> QED  BY <1>1, <1>12, <2>1, <2>4, <2>5, <2>6 DEF TextInv, TypeOK, ReadInv, ErrorInv
<1>14. CASE CloseBlock \/ NextInBlock
  <2>1. /\ phase = "block" /\ phase' \in {"end", "block", "statement"}
        /\ pos' = Skip(pos) \/ (pos' = Skip(pos) + 1 /\ At(Skip(pos)) = "}")
        /\ stack' = stack \/ (stack # <<>> /\ stack' = Tail(stack))
        /\ UNCHANGED <<text, tree, heap, version, ok, errors>>
    BY <1>14 DEF CloseBlock, NextInBlock, IInv, PhaseInv
  <2>2. At(Skip(pos)) = "}" => Skip(pos) < End
    BY <1>12 DEF At
  <2>3. pos' \in 1 .. End' /\ pos' \in Nat
    <3>1. PICK p \in 1 .. End : p = Skip(pos) /\ p \in Nat /\ (At(Skip(pos)) = "}" => p < End)
      BY <1>12, <2>1, <2>2
    <3>2. p < End => p + 1 \in 1 .. End /\ p + 1 \in Nat
      <4>1. PICK e : e = End /\ e \in Nat
        BY <1>3
      <4>2. p \in 1 .. e /\ (p < e => p + 1 \in 1 .. e /\ p + 1 \in Nat)
        BY <4>1
      <4> QED  BY <4>1, <4>2
    <3>3. pos' = p \/ (pos' = p + 1 /\ p < End)
      BY <2>1, <3>1
    <3>4. pos' \in 1 .. End /\ pos' \in Nat
      BY <3>1, <3>2, <3>3
    <3> QED  BY <2>1, <3>4 DEF End
  <2>4. stack' \in Seq(Nat)
    BY <1>1, <2>1, Nested DEF TypeOK
  <2> QED  BY <1>1, <1>12, <2>1, <2>3, <2>4 DEF TextInv, TypeOK, ReadInv, ErrorInv, Unstopped
<1>15. CASE FreeStatement
  <2>1. /\ phase = "unwind" /\ stack # <<>> /\ stack' = Tail(stack)
        /\ UNCHANGED <<text, pos, phase, tree, version, ok, errors>> /\ heap' \subseteq heap
    BY <1>15 DEF FreeStatement
  <2>2. stack' \in Seq(Nat)
    BY <1>1, <2>1 DEF TypeOK
  <2>3. Stopped'
    BY <1>1, <2>1 DEF ErrorInv, Stopped, Lost
  <2>4. pos' \in 1 .. End'
    BY <1>1, <2>1 DEF ReadInv, End
  <2> QED  BY <1>1, <2>1, <2>2, <2>3, <2>4 DEF TextInv, TypeOK, ReadInv, ErrorInv
<1>16. CASE Fail
  BY <1>1, <1>16 DEF Fail, TextInv, TypeOK, ReadInv, ErrorInv, Stopped, Lost
<1>17. CASE Finish
  <2>1. /\ phase = "end" /\ ok' = TRUE /\ phase' = "done" /\ pos' = Skip(pos)
        /\ errors' = IF Skip(pos) = End THEN errors ELSE Append(errors, Error("TRAILING_GARBAGE", Skip(pos)))
        /\ UNCHANGED <<text, stack, tree, heap, version>>
    BY <1>17 DEF Finish
  <2>2. Skip(pos) \in Nat
    BY <1>1, <1>2, <2>1 DEF ReadInv
  <2>3. errors' \in Seq(ParseError)
    <3>1. Error("TRAILING_GARBAGE", Skip(pos)) \in ParseError
      BY <2>2, StopsFor, ErrorTypes
    <3> QED  BY <1>1, <2>1, <3>1 DEF TypeOK
  <2> QED  BY <1>1, <2>1, <2>2, <2>3 DEF TextInv, TypeOK, ReadInv, ErrorInv
<1>18. CASE StillReading \/ Terminated \/ UNCHANGED vars
  <2>1. UNCHANGED vars
    BY <1>18 DEF StillReading, Terminated
  <2>2. End' = End /\ Ends(Len(text))' = Ends(Len(text))
    BY <2>1 DEF vars, End, Ends, Separator, White, LineComment, BlockComment, At
  <2> QED  BY <1>1, <2>1, <2>2 DEF vars, TextInv, TypeOK, ReadInv, ErrorInv, Stopped, Unstopped, Lost
<1> QED  BY <1>4, <1>5, <1>6, <1>8, <1>9, <1>10, <1>11, <1>13, <1>14, <1>15, <1>16, <1>17, <1>18 DEF Next

(* Type correctness.                                                       *)
THEOREM TypeCorrect == Spec => []TypeOK
<1>1. TextInv => TypeOK
  BY DEF TextInv
<1> QED  BY <1>1, InitHolds, StepHolds, InitText, TextStep, PTL DEF Spec

(* Whatever the file, get_string fails to return only if the last          *)
(* character is part of a word: all loops of the lexer stop at the end of  *)
(* the buffer but the one over unquoted strings.                           *)
THEOREM HangsInWordsOnly == Spec => []ReadsToTheEnd
<1>1. TextInv => ReadsToTheEnd
  BY LastIsPlain DEF TextInv, ReadInv, ReadsToTheEnd
<1> QED  BY <1>1, InitHolds, StepHolds, InitText, TextStep, PTL DEF Spec

(* Whatever the file, a parse that fails has stopped at the first error    *)
(* that is not about an escape, and reports it last and only once; an      *)
(* argument is lost only when the file ended behind it.                    *)
THEOREM FailuresStopAtOnce == Spec => [](phase = "done" /\ ~ok => StoppedAtOnce)
<1>1. IInv /\ TextInv => (phase = "done" /\ ~ok => StoppedAtOnce)
  <2> SUFFICES ASSUME IInv, TextInv, phase = "done", ~ok
               PROVE  StoppedAtOnce
    OBVIOUS
  <2>1. Stopped /\ heap \subseteq Lost
    BY DEF TextInv, ErrorInv, IInv, HeapInv
  <2>2. heap # {} => heap \cap Lost # {}
    BY <2>1
  <2> QED  BY <2>1, <2>2 DEF Stopped, StoppedAtOnce
<1> QED  BY <1>1, InitHolds, StepHolds, InitText, TextStep, PTL DEF Spec

-----------------------------------------------------------------------------
(* The reference reads the characters from left to right.                  *)
-----------------------------------------------------------------------------
(* The language of the reference. What follows shows that the parser, at   *)
(* each position between two tokens, has read what the automaton of the    *)
(* reference has read when it is there: over blanks, words, keywords,      *)
(* strings and strings joined by "+", up to the beginning of a statement   *)
(* (HeaderReads), and from there for each action (RefStep).                *)
LEMMA UpInduction ==
  ASSUME NEW a \in Int, NEW b \in Int, NEW S, a \in S,
         \A p \in a .. b - 1 : p \in S => p + 1 \in S
  PROVE  \A p \in a .. b : p \in S
<1> SUFFICES ASSUME NEW p \in a .. b, p \notin S
             PROVE  FALSE
  OBVIOUS
<1> DEFINE D == {k \in Nat : a + k \in a .. b /\ a + k \notin S}
<1>1. p - a \in D
  <2>1. p - a \in Nat /\ a + (p - a) = p
    OBVIOUS
  <2> QED  BY <2>1
<1>2. PICK d \in D : \A e \in D : d <= e
  <2>1. D \in SUBSET Nat /\ D # {}
    BY <1>1
  <2> HIDE DEF D
  <2> QED  BY <2>1, LeastNumber
<1>3. d \in Nat /\ a + d \in a .. b /\ a + d \notin S /\ d # 0
  BY <1>2
<1>4. d - 1 \in Nat /\ a + (d - 1) \in a .. b - 1 /\ (a + (d - 1)) + 1 = a + d
  BY <1>3
<1>5. a + (d - 1) \in S
  <2>1. d - 1 \notin D
    BY <1>2, <1>3, <1>4
  <2> QED  BY <1>4, <2>1
<1> QED  BY <1>3, <1>4, <1>5

(* The modes: the recursive function satisfies its equation.               *)
ModeFunction == CHOOSE m : m =
  [p \in 1 .. End |-> IF p = 1 THEN "code" ELSE ModeAfter(m[p - 1], p - 1)]

LEMMA ModeStep ==
  ASSUME text \in Seq(Char)
  PROVE  Mode[1] = "code" /\ \A p \in 1 .. Len(text) : Mode[p + 1] = ModeAfter(Mode[p], p)
<1> DEFINE Value(f, p) == IF p = 1 THEN "code" ELSE ModeAfter(f[p - 1], p - 1)
           Upto(f, k) == f = [p \in 1 .. k |-> Value(f, p)]
           S == {k \in 0 .. End : \E f : Upto(f, k)}
<1>1. End \in Nat /\ End = Len(text) + 1 /\ Len(text) \in Nat
  BY TextOK
<1>2. 0 \in S
  <2> DEFINE e == [p \in 1 .. 0 |-> "code"]
  <2>1. \A p \in 1 .. 0 : FALSE
    OBVIOUS
  <2>2. Upto(e, 0)
    <3> HIDE DEF Value
    <3> QED  BY <2>1
  <2>3. \E f : Upto(f, 0)
    <3> HIDE DEF Upto
    <3> QED  BY <2>2
  <2>4. 0 \in 0 .. End
    BY <1>1
  <2> HIDE DEF Upto, e
  <2> QED  BY <2>3, <2>4
<1>3. ASSUME NEW k \in 0 .. End - 1, k \in S
      PROVE  k + 1 \in S
  <2>1. PICK f : Upto(f, k)
    BY <1>3
  <2> DEFINE g == [p \in 1 .. k + 1 |-> IF p = k + 1 THEN Value(f, k + 1) ELSE f[p]]
  <2>2. \A p \in 1 .. k + 1 : g[p] = IF p = k + 1 THEN Value(f, k + 1) ELSE f[p]
    OBVIOUS
  <2>3. \A p \in 1 .. k : f[p] = Value(f, p)
    BY <2>1
  <2>4. DOMAIN g = 1 .. k + 1 /\ g = [p \in 1 .. k + 1 |-> g[p]]
    OBVIOUS
  <2> HIDE DEF g
  <2>5. \A p \in 1 .. k + 1 : Value(g, p) = Value(f, p)
    <3> SUFFICES ASSUME NEW p \in 1 .. k + 1, p # 1
                 PROVE  g[p - 1] = f[p - 1]
      OBVIOUS
    <3>1. p - 1 \in 1 .. k + 1 /\ p - 1 # k + 1
      BY <1>3
    <3> QED  BY <2>2, <3>1
  <2>6. \A p \in 1 .. k + 1 : g[p] = Value(g, p)
    <3> SUFFICES ASSUME NEW p \in 1 .. k + 1
                 PROVE  g[p] = Value(f, p)
      BY <2>5
    <3>1. p = k + 1 \/ p \in 1 .. k
      BY <1>3
    <3> QED  BY <2>2, <2>3, <3>1
  <2>7. Upto(g, k + 1)
    <3> HIDE DEF Value
    <3> QED  BY <2>4, <2>6
  <2> QED  BY <1>1, <1>3, <2>7
<1>4. End \in S
  <2> HIDE DEF S
  <2>1. PICK a \in Int, b \in Int : a = 0 /\ b = End
    BY <1>1
  <2>2. \A p \in a .. b - 1 : p \in S => p + 1 \in S
    BY <1>3, <2>1
  <2>3. \A p \in a .. b : p \in S
    BY <1>2, <2>1, <2>2, UpInduction
  <2> QED  BY <1>1, <2>1, <2>3
<1>5. PICK f : Upto(f, End)
  BY <1>4
<1>6. ModeFunction = [p \in 1 .. End |-> IF p = 1 THEN "code"
                                         ELSE ModeAfter(ModeFunction[p - 1], p - 1)]
  BY <1>5, Zenon DEF ModeFunction
<1>7. Mode = ModeFunction
  BY DEF Mode, ModeFunction
<1>8. \A p \in 1 .. End : Mode[p] = IF p = 1 THEN "code" ELSE ModeAfter(Mode[p - 1], p - 1)
  BY <1>6, <1>7, Zenon
<1>9. Mode[1] = "code"
  <2>1. 1 \in 1 .. End
    BY <1>1
  <2> QED  BY <1>8, <2>1
<1>10. ASSUME NEW p \in 1 .. Len(text)
       PROVE  Mode[p + 1] = ModeAfter(Mode[p], p)
  <2>1. p + 1 \in 1 .. End /\ p + 1 # 1 /\ (p + 1) - 1 = p
    BY <1>1
  <2>2. Mode[p + 1] = ModeAfter(Mode[(p + 1) - 1], (p + 1) - 1)
    BY <1>8, <2>1, Zenon
  <2> QED  BY <2>1, <2>2
<1> QED  BY <1>9, <1>10

LEMMA ModeOfCode ==
  ASSUME text \in Seq(Char), NEW p \in 1 .. Len(text), Mode[p] = "code"
  PROVE  /\ White(p) => Mode[p + 1] = "code"
         /\ LineComment(p) => Mode[p + 1] = "line"
         /\ BlockComment(p) => Mode[p + 1] = "open"
         /\ text[p] = Quote => Mode[p + 1] = "double"
         /\ text[p] = "'" => Mode[p + 1] = "single"
         /\ ~LineComment(p) /\ ~BlockComment(p) /\ text[p] \notin Quotes => Mode[p + 1] = "code"
<1>1. Mode[p + 1] = ModeInCode(p)
  <2>1. Mode[p + 1] = ModeAfter(Mode[p], p)
    BY ModeStep
  <2> QED  BY <2>1, Zenon DEF ModeAfter
<1>2. At(p) = text[p]
  BY TextOK
<1>3. White(p) => ModeInCode(p) = "code"
  BY <1>2, Zenon DEF White, ModeInCode, LineComment, BlockComment
<1>4. LineComment(p) => ModeInCode(p) = "line"
  BY <1>2, Zenon DEF ModeInCode, LineComment, BlockComment
<1>5. BlockComment(p) => ModeInCode(p) = "open"
  BY <1>2, Zenon DEF ModeInCode, LineComment, BlockComment
<1>6. text[p] = Quote => ModeInCode(p) = "double"
  BY <1>2, Zenon DEF ModeInCode, LineComment, BlockComment, Quote
<1>7. text[p] = "'" => ModeInCode(p) = "single"
  BY <1>2, Zenon DEF ModeInCode, LineComment, BlockComment
<1>8. ~LineComment(p) /\ ~BlockComment(p) /\ text[p] \notin Quotes => ModeInCode(p) = "code"
  BY Zenon DEF ModeInCode, Quotes
<1> QED  BY <1>1, <1>3, <1>4, <1>5, <1>6, <1>7, <1>8, Zenon

LEMMA ModeOfOthers ==
  ASSUME text \in Seq(Char), NEW p \in 1 .. Len(text)
  PROVE  /\ Mode[p] = "line" => Mode[p + 1] = IF text[p] = "nl" THEN "code" ELSE "line"
         /\ Mode[p] = "open" => Mode[p + 1] = "block"
         /\ Mode[p] = "block" =>
              Mode[p + 1] = IF text[p] = "*" /\ At(p + 1) = "/" THEN "close" ELSE "block"
         /\ Mode[p] = "close" => Mode[p + 1] = "code"
         /\ Mode[p] = "escape" => Mode[p + 1] = "double"
         /\ Mode[p] = "single" => Mode[p + 1] = IF text[p] = "'" THEN "code" ELSE "single"
<1>1. Mode[p + 1] = ModeAfter(Mode[p], p)
  BY ModeStep
<1>2. Mode[p] = "line" => ModeAfter(Mode[p], p) = IF text[p] = "nl" THEN "code" ELSE "line"
  BY Zenon DEF ModeAfter
<1>3. Mode[p] = "open" => ModeAfter(Mode[p], p) = "block"
  BY Zenon DEF ModeAfter
<1>4. Mode[p] = "block" =>
        ModeAfter(Mode[p], p) = IF text[p] = "*" /\ At(p + 1) = "/" THEN "close" ELSE "block"
  BY Zenon DEF ModeAfter
<1>5. Mode[p] = "close" => ModeAfter(Mode[p], p) = "code"
  BY Zenon DEF ModeAfter
<1>6. Mode[p] = "escape" => ModeAfter(Mode[p], p) = "double"
  BY Zenon DEF ModeAfter
<1>7. Mode[p] = "single" => ModeAfter(Mode[p], p) = IF text[p] = "'" THEN "code" ELSE "single"
  BY Zenon DEF ModeAfter
<1> QED  BY <1>1, <1>2, <1>3, <1>4, <1>5, <1>6, <1>7, Zenon

LEMMA ModeOfDouble ==
  ASSUME text \in Seq(Char), NEW p \in 1 .. Len(text), Mode[p] = "double"
  PROVE  /\ text[p] = Quote => Mode[p + 1] = "code"
         /\ text[p] = Backslash /\ At(p + 1) \in Escapable => Mode[p + 1] = "escape"
         /\ text[p] # Quote /\ ~(text[p] = Backslash /\ At(p + 1) \in Escapable) =>
              Mode[p + 1] = "double"
<1>1. Mode[p + 1] = ModeInDouble(p)
  <2>1. Mode[p + 1] = ModeAfter(Mode[p], p)
    BY ModeStep
  <2> QED  BY <2>1, Zenon DEF ModeAfter
<1>2. text[p] = Quote => ModeInDouble(p) = "code"
  BY Zenon DEF ModeInDouble, Quote
<1>3. text[p] = Backslash /\ At(p + 1) \in Escapable => ModeInDouble(p) = "escape"
  BY Zenon DEF ModeInDouble, Backslash, Escapable
<1>4. text[p] # Quote /\ ~(text[p] = Backslash /\ At(p + 1) \in Escapable) => ModeInDouble(p) = "double"
  BY Zenon DEF ModeInDouble, Quote, Backslash, Escapable
<1> QED  BY <1>1, <1>2, <1>3, <1>4, Zenon

(* What is the first of a set of positions.                                *)
LEMMA FirstIs ==
  ASSUME text \in Seq(Char), NEW p \in 1 .. End, NEW S, S \subseteq From(p),
         NEW e \in p .. End, e = End \/ e \in S, \A q \in p .. e - 1 : q \notin S
  PROVE  FirstAt(S) = e
<1>1. FirstAt(S) \in p .. End /\ (FirstAt(S) = End <=> S = {})
      /\ (FirstAt(S) # End => FirstAt(S) \in S)
  BY FirstAtOK
<1>2. \A q \in S : q \in p .. End - 1
  BY TextOK DEF From
<1>3. \A q \in S : ~(q < e)
  BY <1>2, TextOK
<1>4. S # {} => FirstAt(S) <= e
  <2> SUFFICES ASSUME S # {}
               PROVE  FirstAt(S) <= e
    OBVIOUS
  <2>1. S \in SUBSET Nat
    BY TextOK DEF From
  <2>2. \E q \in S : \A r \in S : q <= r
    BY <2>1, LeastNumber
  <2>3. \A r \in S : FirstAt(S) <= r
    BY <2>2 DEF FirstAt
  <2>4. CASE e \in S
    BY <2>3, <2>4
  <2>5. CASE e \notin S
    BY <1>1, <2>5, TextOK
  <2> QED  BY <2>4, <2>5
<1>5. CASE S = {}
  BY <1>1, <1>5
<1>6. CASE S # {}
  <2>1. FirstAt(S) \in S /\ FirstAt(S) <= e /\ ~(FirstAt(S) < e)
    BY <1>1, <1>3, <1>4, <1>6
  <2> QED  BY <1>1, <2>1, TextOK
<1> QED  BY <1>5, <1>6

LEMMA FirstLeast ==
  ASSUME text \in Seq(Char), NEW p \in 1 .. End, NEW S, S \subseteq From(p)
  PROVE  \A q \in p .. FirstAt(S) - 1 : q \notin S
<1> SUFFICES ASSUME NEW q \in p .. FirstAt(S) - 1, q \in S
             PROVE  FALSE
  OBVIOUS
<1>1. S \in SUBSET Nat /\ S # {}
  BY TextOK DEF From
<1>2. \E r \in S : \A s \in S : r <= s
  BY <1>1, LeastNumber
<1>3. FirstAt(S) <= q
  BY <1>1, <1>2 DEF FirstAt
<1>4. FirstAt(S) \in p .. End
  BY FirstAtOK
<1>5. FirstAt(S) \in Int /\ q \in Int
  BY <1>4, TextOK
<1> QED  BY <1>3, <1>5

(* In a comment no character has the mode of code.                         *)
LEMMA InLineComment ==
  ASSUME text \in Seq(Char), NEW p \in 1 .. Len(text), Mode[p] = "code", LineComment(p)
  PROVE  /\ \A r \in p + 1 .. AfterLine(p) - 1 : Mode[r] = "line"
         /\ AfterLine(p) < End => Mode[AfterLine(p)] = "code"
<1> DEFINE S == {q \in From(p) : text[q] = "nl"}
           f == FirstAt(S)
           L == {r \in Int : Mode[r] = "line"}
<1>1. Len(text) \in Nat /\ End = Len(text) + 1 /\ p \in 1 .. End
  BY TextOK
<1>2. AfterLine(p) = IF f = End THEN End ELSE f + 1
  BY DEF AfterLine
<1>3. f \in p .. End /\ (f # End => f \in S)
  BY <1>1, FirstAtOK
<1>4. \A q \in p .. f - 1 : q \notin S
  BY <1>1, FirstLeast
<1>5. text[p] # "nl"
  BY TextOK DEF LineComment
<1>6. \A q \in S : text[q] = "nl"
  OBVIOUS
<1>7. \A q \in 1 .. Len(text) : q >= p /\ text[q] = "nl" => q \in S
  BY DEF From
<1> HIDE DEF f, S
<1>8. f \in p + 1 .. End /\ p + 1 \in Int /\ f \in Int
  <2>1. f # p
    BY <1>1, <1>3, <1>5, <1>6
  <2> QED  BY <1>1, <1>3, <2>1
<1>9. p + 1 \in L
  BY ModeOfCode
<1>10. \A r \in p + 1 .. f - 1 : r \in L => r + 1 \in L
  <2> SUFFICES ASSUME NEW r \in p + 1 .. f - 1, r \in L
               PROVE  r + 1 \in L
    OBVIOUS
  <2>1. r \in 1 .. Len(text) /\ r \in p .. f - 1 /\ r >= p /\ r + 1 \in Int
    BY <1>1, <1>8
  <2>2. text[r] # "nl"
    BY <1>4, <1>7, <2>1
  <2> QED  BY <2>1, <2>2, ModeOfOthers
<1>11. \A r \in p + 1 .. f : r \in L
  <2> HIDE DEF L
  <2>1. PICK a \in Int : a = p + 1
    BY <1>8
  <2> QED  BY <1>8, <1>9, <1>10, <2>1, UpInduction
<1>12. CASE f = End
  BY <1>2, <1>8, <1>11, <1>12
<1>13. CASE f # End
  <2>1. f \in 1 .. Len(text) /\ text[f] = "nl" /\ Mode[f] = "line"
    BY <1>1, <1>3, <1>6, <1>8, <1>11, <1>13
  <2>2. Mode[f + 1] = "code"
    BY <2>1, ModeOfOthers
  <2>3. AfterLine(p) = f + 1 /\ (f + 1) - 1 = f
    BY <1>2, <1>8, <1>13
  <2> QED  BY <1>11, <2>2, <2>3
<1> QED  BY <1>12, <1>13

LEMMA InBlockComment ==
  ASSUME text \in Seq(Char), NEW p \in 1 .. Len(text), Mode[p] = "code", BlockComment(p)
  PROVE  /\ \A r \in p + 1 .. AfterBlock(p) - 1 : Mode[r] \in {"open", "block", "close"}
         /\ AfterBlock(p) < End => Mode[AfterBlock(p)] = "code"
<1> DEFINE S == {q \in From(p + 2) : text[q] = "*" /\ At(q + 1) = "/"}
           f == FirstAt(S)
           L == {r \in Int : Mode[r] = "block"}
<1>1. Len(text) \in Nat /\ End = Len(text) + 1 /\ p \in 1 .. End
  BY TextOK
<1>2. AfterBlock(p) = IF f = End THEN End ELSE f + 2
  BY DEF AfterBlock, BlockEnd
<1>3. p + 1 \in 1 .. Len(text) /\ p + 2 \in 1 .. End /\ (p + 1) + 1 = p + 2
  <2>1. p + 1 < End
    BY <1>1, WhiteBefore
  <2> QED  BY <1>1, <2>1
<1>4. f \in p + 2 .. End /\ (f # End => f \in S)
  BY <1>3, FirstAtOK
<1>5. \A q \in p + 2 .. f - 1 : q \notin S
  BY <1>3, FirstLeast
<1>6. \A q \in S : text[q] = "*" /\ At(q + 1) = "/"
  OBVIOUS
<1>7. \A q \in 1 .. Len(text) : q >= p + 2 /\ text[q] = "*" /\ At(q + 1) = "/" => q \in S
  BY DEF From
<1> HIDE DEF f, S
<1>8. f \in Int /\ p + 2 \in Int
  BY <1>1, <1>4
<1>9. Mode[p + 1] = "open" /\ p + 2 \in L
  <2>1. Mode[p + 1] = "open"
    BY ModeOfCode
  <2>2. Mode[(p + 1) + 1] = "block"
    BY <1>3, <2>1, ModeOfOthers
  <2> QED  BY <1>3, <1>8, <2>1, <2>2
<1>10. \A r \in p + 2 .. f - 1 : r \in L => r + 1 \in L
  <2> SUFFICES ASSUME NEW r \in p + 2 .. f - 1, r \in L
               PROVE  r + 1 \in L
    OBVIOUS
  <2>1. r \in 1 .. Len(text) /\ r >= p + 2 /\ r + 1 \in Int
    BY <1>1, <1>4, <1>8
  <2>2. ~(text[r] = "*" /\ At(r + 1) = "/")
    BY <1>5, <1>7, <2>1
  <2> QED  BY <2>1, <2>2, ModeOfOthers
<1>11. \A r \in p + 2 .. f : r \in L
  <2> HIDE DEF L
  <2>1. PICK a \in Int : a = p + 2
    BY <1>8
  <2> QED  BY <1>8, <1>9, <1>10, <2>1, UpInduction
<1>12. \A r \in p + 1 .. f : Mode[r] \in {"open", "block"}
  <2> SUFFICES ASSUME NEW r \in p + 1 .. f
               PROVE  Mode[r] \in {"open", "block"}
    OBVIOUS
  <2>1. r = p + 1 \/ r \in p + 2 .. f
    BY <1>1, <1>8
  <2> QED  BY <1>9, <1>11, <2>1
<1>13. CASE f = End
  BY <1>1, <1>2, <1>8, <1>12, <1>13
<1>14. CASE f # End
  <2>1. f \in 1 .. Len(text) /\ text[f] = "*" /\ At(f + 1) = "/" /\ Mode[f] = "block"
    <3>1. f \in p + 2 .. f
      BY <1>4, <1>8
    <3> QED  BY <1>1, <1>4, <1>6, <1>8, <1>11, <1>14, <3>1
  <2>2. Mode[f + 1] = "close"
    BY <2>1, ModeOfOthers
  <2>3. f + 1 \in 1 .. Len(text) /\ (f + 1) + 1 = f + 2
    <3>1. f + 1 \in Nat
      BY <2>1
    <3>2. f + 1 < End
      BY <2>1, <3>1, TextOK
    <3> QED  BY <1>1, <2>1, <3>2
  <2>4. Mode[f + 2] = "code"
    <3>1. Mode[(f + 1) + 1] = "code"
      BY <2>2, <2>3, ModeOfOthers
    <3> QED  BY <2>3, <3>1
  <2>5. AfterBlock(p) = f + 2
    BY <1>2, <1>14
  <2>6. \A r \in p + 1 .. (f + 2) - 1 : r \in p + 1 .. f \/ r = f + 1
    BY <1>1, <1>8
  <2> QED  BY <1>12, <2>2, <2>4, <2>5, <2>6
<1> QED  BY <1>13, <1>14

-----------------------------------------------------------------------------
(* Where no token begins: between p and q nothing is read as such.         *)
CodeAt(p) == p < End => Mode[p] = "code"
Blank(p, q) == \A r \in p .. q - 1 : ~Plain(Mode, r)

LEMMA SkipsBlank ==
  ASSUME text \in Seq(Char), NEW start \in 1 .. End, CodeAt(start)
  PROVE  /\ Skip(start) \in start .. End /\ Blank(start, Skip(start))
         /\ Skip(start) < End => Plain(Mode, Skip(start))
<1> DEFINE f == SkipFunction
           Fine(p) == /\ f[p] \in p .. End /\ Blank(p, f[p])
                      /\ f[p] < End => Plain(Mode, f[p])
           S == {p \in 1 .. End : CodeAt(p) => Fine(p)}
<1>1. Skip(start) = f[start]
  BY DEF Skip, SkipFunction
<1>2. \A q \in 1 .. End :
        f[q] = IF White(q) THEN f[q + 1] ELSE IF LineComment(q) THEN f[AfterLine(q)]
               ELSE IF BlockComment(q) THEN f[AfterBlock(q)] ELSE q
  BY SkipExists
<1> HIDE DEF f
<1>3. End \in Nat /\ End = Len(text) + 1 /\ Len(text) \in Nat
  BY TextOK
<1>4. ASSUME NEW p \in 1 .. End, NEW n \in p + 1 .. End, n \in S, CodeAt(n), Blank(p, n), f[p] = f[n]
      PROVE  Fine(p)
  <2>1. n \in 1 .. End /\ Fine(n)
    BY <1>4
  <2>2. f[p] \in p .. End
    BY <1>3, <1>4, <2>1
  <2>3. Blank(p, f[p])
    <3> SUFFICES ASSUME NEW r \in p .. f[p] - 1
                 PROVE  ~Plain(Mode, r)
      BY DEF Blank
    <3>1. r \in p .. n - 1 \/ r \in n .. f[n] - 1
      BY <1>3, <1>4, <2>2
    <3> QED  BY <1>4, <2>1, <3>1 DEF Blank
  <2> QED  BY <1>4, <2>1, <2>2, <2>3
<1>5. ASSUME NEW p \in 1 .. End, \A r \in p + 1 .. End : r \in S PROVE p \in S
  <2> SUFFICES ASSUME CodeAt(p)
               PROVE  Fine(p)
    OBVIOUS
  <2>1. p < End => p \in 1 .. Len(text) /\ Mode[p] = "code"
    BY <1>3 DEF CodeAt
  <2>2. CASE White(p)
    <3>1. p < End /\ p + 1 \in p + 1 .. End /\ f[p] = f[p + 1]
      BY <1>2, <2>2, WhiteBefore
    <3>2. CodeAt(p + 1)
      BY <2>1, <2>2, <3>1, ModeOfCode DEF CodeAt
    <3>3. Blank(p, p + 1)
      <4>1. \A r \in p .. (p + 1) - 1 : r = p
        BY <1>3
      <4> QED  BY <2>2, <4>1 DEF Blank, Plain
    <3> QED  BY <1>4, <1>5, <3>1, <3>2, <3>3
  <2>3. CASE ~White(p) /\ LineComment(p)
    <3>1. p < End /\ AfterLine(p) \in p + 1 .. End /\ f[p] = f[AfterLine(p)]
      BY <1>2, <2>3, WhiteBefore, AfterLineOK
    <3>2. CodeAt(AfterLine(p)) /\ \A r \in p + 1 .. AfterLine(p) - 1 : Mode[r] # "code"
      BY <2>1, <2>3, <3>1, InLineComment DEF CodeAt
    <3>3. Blank(p, AfterLine(p))
      <4> SUFFICES ASSUME NEW r \in p .. AfterLine(p) - 1
                   PROVE  ~Plain(Mode, r)
        BY DEF Blank
      <4>1. r = p \/ r \in p + 1 .. AfterLine(p) - 1
        BY <1>3, <3>1
      <4> QED  BY <2>3, <3>2, <4>1 DEF Plain
    <3> QED  BY <1>4, <1>5, <3>1, <3>2, <3>3
  <2>4. CASE ~White(p) /\ ~LineComment(p) /\ BlockComment(p)
    <3>1. p < End /\ AfterBlock(p) \in p + 1 .. End /\ f[p] = f[AfterBlock(p)]
      BY <1>2, <2>4, WhiteBefore, AfterBlockOK
    <3>2. CodeAt(AfterBlock(p)) /\ \A r \in p + 1 .. AfterBlock(p) - 1 : Mode[r] # "code"
      BY <2>1, <2>4, <3>1, InBlockComment DEF CodeAt
    <3>3. Blank(p, AfterBlock(p))
      <4> SUFFICES ASSUME NEW r \in p .. AfterBlock(p) - 1
                   PROVE  ~Plain(Mode, r)
        BY DEF Blank
      <4>1. r = p \/ r \in p + 1 .. AfterBlock(p) - 1
        BY <1>3, <3>1
      <4> QED  BY <2>4, <3>2, <4>1 DEF Plain
    <3> QED  BY <1>4, <1>5, <3>1, <3>2, <3>3
  <2>5. CASE ~White(p) /\ ~LineComment(p) /\ ~BlockComment(p)
    <3>1. f[p] = p
      BY <1>2, <2>5
    <3>2. Blank(p, p)
      BY <1>3 DEF Blank
    <3> QED  BY <1>3, <2>1, <2>5, <3>1, <3>2 DEF Plain
  <2> QED  BY <2>2, <2>3, <2>4, <2>5
<1>6. \A p \in 1 .. End : p \in S
  <2> HIDE DEF S
  <2> QED  BY <1>3, <1>5, DownInduction
<1> QED  BY <1>1, <1>6

-----------------------------------------------------------------------------
(* The automaton, at a position: what it is when it has read the tokens    *)
(* that begin before it.                                                   *)
Begins == TokenStarts(Mode)
Count(p) == Before(Begins, p)

(* The tokens are numbered in the order in which they begin.               *)
LEMMA CountOK ==
  ASSUME text \in Seq(Char)
  PROVE  /\ Cardinality(Begins) \in Nat /\ Count(1) = 0 /\ Count(End) = Cardinality(Begins)
         /\ \A p \in 1 .. End : Count(p) \in 0 .. Cardinality(Begins)
         /\ \A p \in 1 .. End : \A q \in p .. End :
              (\A r \in p .. q - 1 : r \notin Begins) => Count(p) = Count(q)
         /\ \A p \in Begins : /\ Count(p + 1) = Count(p) + 1
                              /\ \A q \in Begins : p < q => Count(p) < Count(q)
<1> DEFINE N == 1 .. Len(text)
           B(p) == {q \in Begins : q < p}
<1>1. Len(text) \in Nat /\ End = Len(text) + 1
  BY TextOK
<1>2. Begins \subseteq N
  BY DEF Begins, TokenStarts
<1>3. IsFiniteSet(Begins)
  <2>1. IsFiniteSet(N)
    BY <1>1, FS_Interval
  <2> QED  BY <1>2, <2>1, FS_Subset
<1>4. \A p : Count(p) = Cardinality(B(p)) /\ B(p) \subseteq Begins
  BY DEF Count, Before
<1>5. \A p, q : q \in B(p) <=> q \in Begins /\ q < p
  OBVIOUS
<1> HIDE DEF B
<1>6. \A p : IsFiniteSet(B(p)) /\ Count(p) \in Nat
  <2>1. \A p : IsFiniteSet(B(p))
    BY <1>3, <1>4, FS_Subset
  <2> QED  BY <1>4, <2>1, FS_CardinalityType
<1>7. Cardinality(Begins) \in Nat
  BY <1>3, FS_CardinalityType
<1>8. \A p : Count(p) <= Cardinality(Begins)
  BY <1>3, <1>4, FS_Subset
<1>9. Count(1) = 0
  <2>1. B(1) = {}
    <3>1. \A q \in Begins : ~(q < 1)
      BY <1>1, <1>2
    <3>2. \A q : q \notin B(1)
      BY <1>5, <3>1
    <3> QED  BY <3>2, Zenon
  <2> QED  BY <1>4, <2>1, FS_EmptySet
<1>10. Count(End) = Cardinality(Begins)
  <2>1. B(End) = Begins
    <3>1. \A q \in Begins : q < End
      BY <1>1, <1>2
    <3>2. \A q : q \in B(End) <=> q \in Begins
      BY <1>5, <3>1
    <3> QED  BY <3>2, Zenon
  <2> QED  BY <1>4, <2>1
<1>11. ASSUME NEW p \in 1 .. End, NEW q \in p .. End, \A r \in p .. q - 1 : r \notin Begins
       PROVE  Count(p) = Count(q)
  <2>1. \A r \in Begins : r < p <=> r < q
    BY <1>1, <1>2, <1>11
  <2>2. B(p) = B(q)
    <3>1. \A r : r \in B(p) <=> r \in B(q)
      BY <1>5, <2>1
    <3> QED  BY <3>1, Zenon
  <2> QED  BY <1>4, <2>2
<1>12. ASSUME NEW p \in Begins
       PROVE  Count(p + 1) = Count(p) + 1
  <2>1. B(p + 1) = B(p) \cup {p} /\ p \notin B(p)
    <3>1. p \in Int /\ \A r \in Begins : r \in Int
      BY <1>2
    <3>2. \A r \in Begins : r < p + 1 <=> (r < p \/ r = p)
      BY <3>1
    <3>3. ~(p < p)
      BY <3>1
    <3> QED  BY <1>5, <3>2, <3>3
  <2>2. Cardinality(B(p) \cup {p}) = Cardinality(B(p)) + 1
    BY <1>6, <2>1, FS_AddElement
  <2> QED  BY <1>4, <2>1, <2>2
<1>13. ASSUME NEW p \in Begins, NEW q \in Begins, p < q
       PROVE  Count(p) < Count(q)
  <2>1. p + 1 \in 1 .. End /\ q \in p + 1 .. End
    BY <1>1, <1>2, <1>13
  <2>2. B(p + 1) \subseteq B(q)
    <3>1. \A r \in Begins : r < p + 1 => r < q
      BY <1>2, <1>13
    <3> QED  BY <1>5, <3>1
  <2>3. Cardinality(B(p + 1)) <= Cardinality(B(q))
    BY <1>6, <2>2, FS_Subset
  <2>4. Count(p) \in Nat /\ Count(q) \in Nat /\ Count(p) + 1 <= Count(q)
    BY <1>4, <1>6, <1>12, <2>3
  <2> QED  BY <2>4
<1>14. \A p \in 1 .. End : Count(p) \in 0 .. Cardinality(Begins)
  BY <1>6, <1>7, <1>8
<1> QED  BY <1>7, <1>9, <1>10, <1>11, <1>12, <1>13, <1>14

LEMMA TokensOK ==
  ASSUME text \in Seq(Char)
  PROVE  /\ Len(Tokens(Mode)) = Cardinality(Begins)
         /\ \A p \in Begins : Tokens(Mode)[Count(p) + 1] = TokenAt(Mode, p)
<1> DEFINE n == Cardinality(Begins)
           Nth(i) == CHOOSE p \in Begins : Count(p) = i - 1
<1>1. Tokens(Mode) = [i \in 1 .. n |-> TokenAt(Mode, Nth(i))]
  BY Zenon DEF Tokens, Begins, Count
<1>2. n \in Nat
  BY CountOK
<1>3. Len(Tokens(Mode)) = n
  BY <1>1, <1>2
<1>4. ASSUME NEW p \in Begins
      PROVE  Tokens(Mode)[Count(p) + 1] = TokenAt(Mode, p)
  <2>1. p \in 1 .. Len(text)
    BY DEF Begins, TokenStarts
  <2>2. p \in 1 .. End /\ p + 1 \in 1 .. End /\ \A q \in Begins : q \in 1 .. Len(text)
    BY <2>1, TextOK DEF Begins, TokenStarts
  <2>3. Count(p) + 1 \in 1 .. n
    <3>1. Count(p + 1) = Count(p) + 1 /\ Count(p) \in 0 .. n /\ Count(p + 1) \in 0 .. n
      BY <2>2, CountOK
    <3> QED  BY <1>2, <3>1
  <2>4. \A q \in Begins : Count(q) = (Count(p) + 1) - 1 => q = p
    <3> SUFFICES ASSUME NEW q \in Begins, Count(q) = (Count(p) + 1) - 1
                 PROVE  q = p
      OBVIOUS
    <3>1. Count(p) \in Nat /\ Count(q) = Count(p)
      BY <2>2, CountOK
    <3>2. ~(Count(p) < Count(q)) /\ ~(Count(q) < Count(p))
      BY <3>1
    <3>3. ~(p < q) /\ ~(q < p)
      BY <3>2, CountOK
    <3> QED  BY <2>2, <3>3
  <2>5. Nth(Count(p) + 1) = p
    <3>1. Count(p) = (Count(p) + 1) - 1
      BY <2>2, CountOK
    <3> QED  BY <2>4, <3>1
  <2> HIDE DEF Nth
  <2> QED  BY <1>1, <2>3, <2>5
<1> QED  BY <1>3, <1>4

RefFunction == CHOOSE upto : upto =
  [i \in 0 .. Len(Tokens(Mode)) |->
     IF i = 0 THEN RefStart ELSE ReadToken(upto[i - 1], Tokens(Mode)[i], Mode)]

LEMMA RefExists ==
  ASSUME text \in Seq(Char)
  PROVE  /\ RefFunction[0] = RefStart
         /\ \A i \in 1 .. Cardinality(Begins) :
              RefFunction[i] = ReadToken(RefFunction[i - 1], Tokens(Mode)[i], Mode)
<1> DEFINE n == Cardinality(Begins)
           Value(f, i) == IF i = 0 THEN RefStart ELSE ReadToken(f[i - 1], Tokens(Mode)[i], Mode)
           Upto(f, k) == f = [i \in 0 .. k |-> Value(f, i)]
           S == {k \in 0 .. n : \E f : Upto(f, k)}
<1>1. n \in Nat /\ Len(Tokens(Mode)) = n
  BY CountOK, TokensOK
<1> HIDE DEF n
<1>2. 0 \in S
  <2> DEFINE e == [i \in 0 .. 0 |-> RefStart]
  <2>1. \A i \in 0 .. 0 : Value(e, i) = RefStart
    OBVIOUS
  <2>2. Upto(e, 0)
    <3> HIDE DEF Value
    <3> QED  BY <2>1
  <2>3. \E f : Upto(f, 0)
    <3> HIDE DEF Upto
    <3> QED  BY <2>2
  <2>4. 0 \in 0 .. n
    BY <1>1
  <2> HIDE DEF Upto, e
  <2> QED  BY <2>3, <2>4
<1>3. ASSUME NEW k \in 0 .. n - 1, k \in S
      PROVE  k + 1 \in S
  <2>1. PICK f : Upto(f, k)
    BY <1>3
  <2> DEFINE g == [i \in 0 .. k + 1 |-> IF i = k + 1 THEN Value(f, k + 1) ELSE f[i]]
  <2>2. \A i \in 0 .. k + 1 : g[i] = IF i = k + 1 THEN Value(f, k + 1) ELSE f[i]
    OBVIOUS
  <2>3. \A i \in 0 .. k : f[i] = Value(f, i)
    BY <2>1
  <2>4. DOMAIN g = 0 .. k + 1 /\ g = [i \in 0 .. k + 1 |-> g[i]]
    OBVIOUS
  <2> HIDE DEF g
  <2>5. \A i \in 0 .. k + 1 : Value(g, i) = Value(f, i)
    <3> SUFFICES ASSUME NEW i \in 0 .. k + 1, i # 0
                 PROVE  g[i - 1] = f[i - 1]
      OBVIOUS
    <3>1. i - 1 \in 0 .. k + 1 /\ i - 1 # k + 1
      BY <1>3
    <3> QED  BY <2>2, <3>1
  <2>6. \A i \in 0 .. k + 1 : g[i] = Value(g, i)
    <3> SUFFICES ASSUME NEW i \in 0 .. k + 1
                 PROVE  g[i] = Value(f, i)
      BY <2>5
    <3>1. i = k + 1 \/ i \in 0 .. k
      BY <1>3
    <3> QED  BY <2>2, <2>3, <3>1
  <2>7. Upto(g, k + 1)
    <3> HIDE DEF Value
    <3> QED  BY <2>4, <2>6
  <2>8. \E h : Upto(h, k + 1)
    <3> HIDE DEF Upto
    <3> QED  BY <2>7
  <2> HIDE DEF Upto
  <2> QED  BY <1>1, <1>3, <2>8
<1>4. n \in S
  <2> HIDE DEF S
  <2>1. PICK a \in Int, b \in Int : a = 0 /\ b = n
    BY <1>1
  <2>2. \A p \in a .. b - 1 : p \in S => p + 1 \in S
    BY <1>3, <2>1
  <2>3. \A p \in a .. b : p \in S
    BY <1>2, <2>1, <2>2, UpInduction
  <2> QED  BY <1>1, <2>1, <2>3
<1>5. PICK f : Upto(f, n)
  BY <1>4
<1>6. RefFunction = [i \in 0 .. n |-> IF i = 0 THEN RefStart
                                      ELSE ReadToken(RefFunction[i - 1], Tokens(Mode)[i], Mode)]
  BY <1>1, <1>5, Zenon DEF RefFunction
<1>7. \A i \in 0 .. n : RefFunction[i] = IF i = 0 THEN RefStart
                                         ELSE ReadToken(RefFunction[i - 1], Tokens(Mode)[i], Mode)
  BY <1>6, Zenon
<1>8. 0 \in 0 .. n /\ \A i \in 1 .. n : i \in 0 .. n /\ i # 0
  BY <1>1
<1> QED  BY <1>7, <1>8, Zenon DEF n

RefAt(p) == RefFunction[Count(p)]

LEMMA RefMoves ==
  ASSUME text \in Seq(Char)
  PROVE  /\ RefAt(1) = RefStart /\ RefRead = RefAt(End)
         /\ \A p \in 1 .. End : \A q \in p .. End :
              (\A r \in p .. q - 1 : r \notin Begins) => RefAt(q) = RefAt(p)
         /\ \A p \in Begins : RefAt(p + 1) = ReadToken(RefAt(p), TokenAt(Mode, p), Mode)
<1>1. RefAt(1) = RefStart
  BY CountOK, RefExists DEF RefAt
<1>2. RefRead = RefAt(End)
  <2>1. RefRead = RefFunction[Len(Tokens(Mode))]
    BY DEF RefRead, RefFunction
  <2> QED  BY <2>1, CountOK, TokensOK DEF RefAt
<1>3. ASSUME NEW p \in 1 .. End, NEW q \in p .. End, \A r \in p .. q - 1 : r \notin Begins
      PROVE  RefAt(q) = RefAt(p)
  BY <1>3, CountOK DEF RefAt
<1>4. ASSUME NEW p \in Begins
      PROVE  RefAt(p + 1) = ReadToken(RefAt(p), TokenAt(Mode, p), Mode)
  <2>1. p \in 1 .. End /\ p + 1 \in 1 .. End
    BY TextOK DEF Begins, TokenStarts
  <2>2. /\ Count(p + 1) = Count(p) + 1 /\ Count(p) \in Nat
        /\ Count(p + 1) \in 0 .. Cardinality(Begins) /\ Cardinality(Begins) \in Nat
    BY <2>1, CountOK
  <2>3. Count(p + 1) \in 1 .. Cardinality(Begins) /\ Count(p + 1) - 1 = Count(p)
    BY <2>2
  <2>4. RefFunction[Count(p + 1)] = ReadToken(RefFunction[Count(p)], Tokens(Mode)[Count(p) + 1], Mode)
    BY <2>2, <2>3, RefExists
  <2> QED  BY <2>4, TokensOK DEF RefAt
<1> QED  BY <1>1, <1>2, <1>3, <1>4

(* A position where a token may begin, if one does not before.             *)
Boundary(p) == CodeAt(p) /\ (InWord(Mode, p) => ~InWord(Mode, p - 1))

LEMMA BeginsOK ==
  ASSUME text \in Seq(Char), NEW p \in Begins
  PROVE  /\ p \in 1 .. Len(text) /\ p \in 1 .. End /\ p + 1 \in 1 .. End /\ p < End
         /\ Plain(Mode, p) /\ Mode[p] = "code" /\ Boundary(p)
BY TextOK DEF Begins, TokenStarts, Plain, Boundary, CodeAt

LEMMA SkipToken ==
  ASSUME text \in Seq(Char), NEW p \in 1 .. End, Boundary(p)
  PROVE  /\ Skip(p) \in p .. End /\ Skip(p) \in 1 .. End /\ RefAt(Skip(p)) = RefAt(p)
         /\ Skip(p) < End => Skip(p) \in Begins
         /\ Skip(p) = End => RefRead = RefAt(p)
<1>1. PICK s : s = Skip(p)
  OBVIOUS
<1>2. s \in p .. End /\ Blank(p, s) /\ (s < End => Plain(Mode, s))
  BY <1>1, SkipsBlank DEF Boundary
<1>3. s \in 1 .. End /\ End = Len(text) + 1 /\ Len(text) \in Nat
  BY <1>2, TextOK
<1>4. RefAt(s) = RefAt(p)
  <2>1. \A r \in p .. s - 1 : r \notin Begins
    BY <1>2 DEF Blank, Begins, TokenStarts
  <2> QED  BY <1>2, <2>1, RefMoves
<1>5. s < End => s \in Begins
  <2> SUFFICES ASSUME s < End, InWord(Mode, s)
               PROVE  ~InWord(Mode, s - 1)
    BY <1>2, <1>3 DEF Begins, TokenStarts
  <2>1. CASE s = p
    BY <2>1 DEF Boundary
  <2>2. CASE s # p
    <3>1. s - 1 \in p .. s - 1
      BY <1>2, <1>3, <2>2
    <3> QED  BY <1>2, <3>1 DEF Blank, InWord
  <2> QED  BY <2>1, <2>2
<1> QED  BY <1>1, <1>2, <1>3, <1>4, <1>5, RefMoves

(* The first character of a token is punctuation, a quote or one of a      *)
(* word.                                                                   *)
LEMMA Apart == Punctuation \cap Quotes = {} /\ "/" \notin Punctuation /\ "open" \notin Punctuation
               /\ "word" \notin Punctuation /\ "string" \notin Punctuation /\ "}" \notin Quotes
<1>1. \A c \in Punctuation : c \notin Quotes
  BY Zenon DEF Punctuation, Quotes
<1>2. Punctuation \cap Quotes = {}
  BY <1>1, Zenon
<1>3. "/" \notin Punctuation /\ "open" \notin Punctuation /\ "word" \notin Punctuation
      /\ "string" \notin Punctuation /\ "}" \notin Quotes
  BY Zenon DEF Punctuation, Quotes
<1> QED  BY <1>2, <1>3

LEMMA PunctuationToken ==
  ASSUME text \in Seq(Char), NEW p \in Begins, text[p] \in Punctuation
  PROVE  /\ TokenAt(Mode, p) = [from |-> p, to |-> p, kind |-> text[p]]
         /\ RefAt(p + 1) = ReadToken(RefAt(p), TokenAt(Mode, p), Mode) /\ Boundary(p + 1)
<1>1. /\ p \in 1 .. Len(text) /\ p \in 1 .. End /\ p + 1 \in 1 .. End
      /\ Plain(Mode, p) /\ Mode[p] = "code"
  BY BeginsOK
<1>2. text[p] \notin Quotes /\ ~InWord(Mode, p)
  BY Apart DEF InWord
<1>3. TokenAt(Mode, p) = [from |-> p, to |-> p, kind |-> text[p]]
  BY <1>2 DEF TokenAt, LastOf, KindOf
<1>4. Mode[p + 1] = "code"
  BY <1>1, <1>2, ModeOfCode DEF Plain
<1>5. (p + 1) - 1 = p
  BY <1>1
<1>6. Boundary(p + 1)
  BY <1>2, <1>4, <1>5 DEF Boundary, CodeAt
<1> QED  BY <1>3, <1>6, RefMoves

(* A character of a word.                                                  *)
WordChar(p) ==
  /\ p \in 1 .. Len(text) /\ ~White(p) /\ ~LineComment(p) /\ ~BlockComment(p)
  /\ text[p] \notin Punctuation \cup Quotes

LEMMA WordCharOK ==
  ASSUME text \in Seq(Char), NEW p \in 1 .. Len(text), Mode[p] = "code"
  PROVE  /\ InWord(Mode, p) <=> WordChar(p)
         /\ WordChar(p) => Mode[p + 1] = "code"
BY ModeOfCode DEF InWord, Plain, WordChar

LEMMA WordToken ==
  ASSUME text \in Seq(Char), NEW p \in Begins, NEW e \in p + 1 .. End,
         \A r \in p .. e - 1 : WordChar(r), ~WordChar(e)
  PROVE  /\ TokenAt(Mode, p) = [from |-> p, to |-> e - 1, kind |-> "word"]
         /\ RefAt(e) = ReadToken(RefAt(p), TokenAt(Mode, p), Mode) /\ Boundary(e) /\ e \in 1 .. End
<1>1. /\ p \in 1 .. Len(text) /\ p \in 1 .. End /\ p + 1 \in 1 .. End /\ e \in 1 .. End
      /\ Mode[p] = "code" /\ Len(text) \in Nat /\ End = Len(text) + 1 /\ e \in p .. End
  BY BeginsOK, TextOK
<1> DEFINE S == {r \in Int : Mode[r] = "code"}
<1>2. \A r \in p .. e : r \in S
  <2>1. p \in Int /\ e \in Int /\ p \in S
    BY <1>1
  <2>2. \A r \in p .. e - 1 : r \in S => r + 1 \in S
    <3> SUFFICES ASSUME NEW r \in p .. e - 1, r \in S
                 PROVE  r + 1 \in S
      OBVIOUS
    <3>1. r \in 1 .. Len(text) /\ WordChar(r) /\ r + 1 \in Int
      BY <1>1
    <3> QED  BY <3>1, WordCharOK
  <2> HIDE DEF S
  <2> QED  BY <2>1, <2>2, UpInduction
<1>3. \A r \in p .. e : Mode[r] = "code"
  BY <1>2
<1>4. \A r \in p .. e - 1 : InWord(Mode, r)
  <2> SUFFICES ASSUME NEW r \in p .. e - 1
               PROVE  InWord(Mode, r)
    OBVIOUS
  <2>1. r \in p .. e /\ r \in 1 .. Len(text)
    BY <1>1
  <2> QED  BY <1>3, <2>1, WordCharOK
<1>5. ~InWord(Mode, e)
  BY DEF InWord, Plain, WordChar
<1>6. FirstAt({q \in From(p) : ~InWord(Mode, q)}) = e
  <2> DEFINE F == {q \in From(p) : ~InWord(Mode, q)}
  <2>1. F \subseteq From(p)
    OBVIOUS
  <2>2. e = End \/ e \in F
    BY <1>1, <1>5 DEF From
  <2>3. \A q \in p .. e - 1 : q \notin F
    BY <1>4
  <2> HIDE DEF F
  <2>4. FirstAt(F) = e
    BY <1>1, <2>1, <2>2, <2>3, FirstIs
  <2> QED  BY <2>4 DEF F
<1>7. InWord(Mode, p)
  BY <1>1, <1>4
<1>8. TokenAt(Mode, p) = [from |-> p, to |-> e - 1, kind |-> "word"]
  BY <1>6, <1>7 DEF TokenAt, LastOf, KindOf
<1>9. RefAt(e) = RefAt(p + 1)
  <2>1. \A r \in p + 1 .. e - 1 : r \notin Begins
    <3> SUFFICES ASSUME NEW r \in p + 1 .. e - 1
                 PROVE  r \notin Begins
      OBVIOUS
    <3>1. r \in p .. e - 1 /\ r - 1 \in p .. e - 1
      BY <1>1
    <3> QED  BY <1>4, <3>1 DEF Begins, TokenStarts
  <2> QED  BY <1>1, <2>1, RefMoves
<1>10. Boundary(e)
  BY <1>1, <1>3, <1>5 DEF Boundary, CodeAt
<1> QED  BY <1>1, <1>8, <1>9, <1>10, RefMoves

(* Where the word at p ends.                                               *)
WordEnd(p) == FirstAt({q \in From(p) : ~WordChar(q)})

LEMMA WordEndOK ==
  ASSUME text \in Seq(Char), NEW p \in 1 .. Len(text), WordChar(p)
  PROVE  /\ WordEnd(p) \in p + 1 .. End /\ ~WordChar(WordEnd(p))
         /\ \A r \in p .. WordEnd(p) - 1 : WordChar(r)
<1> DEFINE F == {q \in From(p) : ~WordChar(q)}
           e == FirstAt(F)
<1>1. p \in 1 .. End /\ End = Len(text) + 1 /\ Len(text) \in Nat /\ WordEnd(p) = e
  BY TextOK DEF WordEnd
<1>2. e \in p .. End /\ (e # End => e \in F) /\ \A q \in p .. e - 1 : q \notin F
  BY <1>1, FirstAtOK, FirstLeast
<1>3. \A q \in 1 .. Len(text) : q >= p /\ ~WordChar(q) => q \in F
  BY DEF From
<1>4. \A q \in F : ~WordChar(q)
  OBVIOUS
<1> HIDE DEF e, F
<1>5. ~WordChar(e)
  <2>1. ~WordChar(End)
    BY <1>1 DEF WordChar
  <2> QED  BY <1>2, <1>4, <2>1
<1>6. e \in p + 1 .. End
  <2>1. e # p
    BY <1>5
  <2> QED  BY <1>1, <1>2, <2>1
<1>7. \A r \in p .. e - 1 : WordChar(r)
  <2> SUFFICES ASSUME NEW r \in p .. e - 1
               PROVE  WordChar(r)
    OBVIOUS
  <2>1. r \in 1 .. Len(text) /\ r >= p
    BY <1>1, <1>6
  <2> QED  BY <1>2, <1>3, <2>1
<1> QED  BY <1>1, <1>5, <1>6, <1>7

-----------------------------------------------------------------------------
(* Keywords: what get_keyword takes and what the automaton does.           *)
LEMMA PartIs ==
  ASSUME NEW T, NEW s \in Seq(T), NEW m \in 1 .. Len(s) + 1, NEW n \in m - 1 .. Len(s)
  PROVE  /\ SubSeq(s, m, n) \in Seq(T) /\ Len(SubSeq(s, m, n)) = n - m + 1
         /\ DOMAIN SubSeq(s, m, n) = 1 .. n - m + 1
         /\ \A i \in 1 .. n - m + 1 : SubSeq(s, m, n)[i] = s[i + m - 1]
<1>1. Len(s) \in Nat /\ m \in Int /\ n \in Int
  OBVIOUS
<1>2. SubSeq(s, m, n) = [i \in 1 .. (IF m <= n THEN n - m + 1 ELSE 0) |-> s[i + m - 1]]
  BY <1>1, SubSeqProperties
<1>3. PICK k \in Nat : k = IF m <= n THEN n - m + 1 ELSE 0
  <2>1. m <= n => n - m + 1 \in Nat
    BY <1>1
  <2> QED  BY <2>1
<1>4. k = n - m + 1
  BY <1>1, <1>3
<1>5. \A i \in 1 .. k : s[i + m - 1] \in T
  <2> SUFFICES ASSUME NEW i \in 1 .. k
               PROVE  s[i + m - 1] \in T
    OBVIOUS
  <2>1. i + m - 1 \in 1 .. Len(s)
    BY <1>1, <1>4
  <2> QED  BY <2>1
<1>6. PICK f : f = [i \in 1 .. k |-> s[i + m - 1]]
  OBVIOUS
<1>7. f \in [1 .. k -> T] /\ \A i \in 1 .. k : f[i] = s[i + m - 1]
  BY <1>5, <1>6
<1>8. f \in Seq(T) /\ Len(f) = k /\ DOMAIN f = 1 .. k
  BY <1>7, SeqDef
<1>9. SubSeq(s, m, n) = f
  BY <1>2, <1>3, <1>6
<1> QED  BY <1>4, <1>7, <1>8, <1>9

LEMMA PartOfPart ==
  ASSUME NEW T, NEW s \in Seq(T), NEW m \in 1 .. Len(s) + 1, NEW n \in m - 1 .. Len(s),
         NEW i \in 1 .. n - m + 2, NEW j \in i - 1 .. n - m + 1
  PROVE  SubSeq(SubSeq(s, m, n), i, j) = SubSeq(s, m + i - 1, m + j - 1)
<1>1. PICK w : w = SubSeq(s, m, n)
  OBVIOUS
<1>2. Len(s) \in Nat /\ m \in Int /\ n \in Int /\ i \in Int /\ j \in Int
  OBVIOUS
<1>3. /\ w \in Seq(T) /\ Len(w) = n - m + 1
      /\ \A k \in 1 .. n - m + 1 : w[k] = s[k + m - 1]
  BY <1>1, PartIs
<1>4. i \in 1 .. Len(w) + 1 /\ j \in i - 1 .. Len(w)
  BY <1>2, <1>3
<1>5. PICK u : u = SubSeq(w, i, j)
  OBVIOUS
<1>6. u \in Seq(T) /\ Len(u) = j - i + 1 /\ \A k \in 1 .. j - i + 1 : u[k] = w[k + i - 1]
  BY <1>3, <1>4, <1>5, PartIs
<1>7. PICK mm, nn : mm = m + i - 1 /\ nn = m + j - 1
  OBVIOUS
<1>8. mm \in 1 .. Len(s) + 1 /\ nn \in mm - 1 .. Len(s) /\ nn - mm + 1 = j - i + 1
  BY <1>2, <1>7
<1>9. PICK v : v = SubSeq(s, mm, nn)
  OBVIOUS
<1>10. v \in Seq(T) /\ Len(v) = j - i + 1 /\ \A k \in 1 .. j - i + 1 : v[k] = s[k + mm - 1]
  <2>1. v \in Seq(T) /\ Len(v) = nn - mm + 1 /\ \A k \in 1 .. nn - mm + 1 : v[k] = s[k + mm - 1]
    BY <1>8, <1>9, PartIs
  <2> QED  BY <1>8, <2>1
<1>11. \A k \in 1 .. j - i + 1 : u[k] = v[k]
  <2> SUFFICES ASSUME NEW k \in 1 .. j - i + 1
               PROVE  u[k] = v[k]
    OBVIOUS
  <2>1. k + i - 1 \in 1 .. n - m + 1 /\ (k + i - 1) + m - 1 = k + mm - 1
    BY <1>2, <1>7
  <2>2. w[k + i - 1] = s[(k + i - 1) + m - 1]
    BY <1>3, <2>1
  <2> QED  BY <1>6, <1>10, <2>1, <2>2
<1>12. u = v
  BY <1>6, <1>10, <1>11
<1> QED  BY <1>1, <1>5, <1>7, <1>9, <1>12

LEMMA IdentifierChars ==
  ASSUME text \in Seq(Char), NEW p \in 1 .. Len(text), text[p] \in Identifier2 \cup {":"}
  PROVE  WordChar(p) /\ ~Separator(p)
<1>1. At(p) = text[p]
  BY TextOK
<1>2. ~White(p) /\ ~LineComment(p) /\ ~BlockComment(p)
  BY <1>1, Zenon DEF White, LineComment, BlockComment, Identifier2, Letter
<1>3. text[p] \notin Punctuation \cup Quotes /\ text[p] \notin {";", "{"}
  BY Zenon DEF Punctuation, Quotes, Identifier2, Letter
<1> QED  BY <1>1, <1>2, <1>3 DEF WordChar, Separator

LEMMA SeparatorEnds ==
  ASSUME text \in Seq(Char), NEW p \in 1 .. End, Separator(p)
  PROVE  p < End /\ p \in 1 .. Len(text) /\ ~WordChar(p) /\ text[p] \notin Identifier2 \cup {":"}
<1>1. p < End
  <2>1. At(p) \in {";", "{"} => At(p) # "eof"
    BY Zenon
  <2>2. At(p) # "eof" => p < End
    BY TextOK
  <2> QED  BY <2>1, <2>2, WhiteBefore DEF Separator
<1>2. p \in 1 .. Len(text) /\ At(p) = text[p]
  BY <1>1, TextOK
<1>3. At(p) \in {";", "{"} => At(p) \in Punctuation
  BY Zenon DEF Punctuation
<1>4. ~WordChar(p)
  BY <1>2, <1>3 DEF WordChar, Separator
<1> QED  BY <1>1, <1>2, <1>4, IdentifierChars

(* Identifiers and keywords, by their positions in the text.               *)
IdentAt(p, e) ==
  e \in p + 1 .. End /\ text[p] \in Identifier1 /\ \A r \in p .. e - 1 : text[r] \in Identifier2
Unprefixed(p, e) == IdentAt(p, e) /\ Separator(e)
Prefixed(p, a, e) == IdentAt(p, a) /\ a < End /\ text[a] = ":" /\ IdentAt(a + 1, e) /\ Separator(e)

LEMMA IdentifierEndIs ==
  ASSUME text \in Seq(Char), NEW p \in 1 .. Len(text), NEW e, IdentAt(p, e),
         e = End \/ text[e] \notin Identifier2
  PROVE  IdentifierEnd(p) = e
<1> DEFINE S == {q \in From(p) : text[q] \notin Identifier2}
<1>1. p \in 1 .. End /\ Len(text) \in Nat /\ End = Len(text) + 1
  BY TextOK
<1>2. e \in p .. End /\ (e = End \/ e \in S) /\ S \subseteq From(p)
  BY <1>1 DEF IdentAt, From
<1>3. \A q \in p .. e - 1 : q \notin S
  BY DEF IdentAt
<1>4. IdentifierEnd(p) = FirstAt(S)
  BY DEF IdentifierEnd
<1> HIDE DEF S
<1> QED  BY <1>1, <1>2, <1>3, <1>4, FirstIs

LEMMA IdentifierIs ==
  ASSUME text \in Seq(Char), NEW p \in 1 .. Len(text), text[p] \in Identifier1
  PROVE  IdentAt(p, IdentifierEnd(p))
         /\ (IdentifierEnd(p) < End => text[IdentifierEnd(p)] \notin Identifier2)
<1> DEFINE S == {q \in From(p) : text[q] \notin Identifier2}
           e == FirstAt(S)
<1>1. p \in 1 .. End /\ Len(text) \in Nat /\ End = Len(text) + 1
  BY TextOK
<1>2. IdentifierEnd(p) = e /\ S \subseteq From(p)
  BY DEF IdentifierEnd
<1>3. \A q \in S : text[q] \notin Identifier2
  OBVIOUS
<1>4. \A q \in 1 .. Len(text) : q >= p /\ text[q] \notin Identifier2 => q \in S
  BY DEF From
<1> HIDE DEF S
<1>5. e \in p .. End /\ (e # End => e \in S) /\ \A q \in p .. e - 1 : q \notin S
  BY <1>1, <1>2, FirstAtOK, FirstLeast
<1> HIDE DEF e
<1>6. text[p] \in Identifier2
  BY DEF Identifier1, Identifier2
<1>7. e \in p + 1 .. End
  <2>1. e # p
    BY <1>1, <1>3, <1>5, <1>6
  <2> QED  BY <1>1, <1>5, <2>1
<1>8. \A r \in p .. e - 1 : text[r] \in Identifier2
  <2> SUFFICES ASSUME NEW r \in p .. e - 1
               PROVE  text[r] \in Identifier2
    OBVIOUS
  <2>1. r \in 1 .. Len(text) /\ r >= p
    BY <1>1, <1>7
  <2> QED  BY <1>4, <1>5, <2>1
<1> QED  BY <1>1, <1>2, <1>3, <1>5, <1>7, <1>8 DEF IdentAt

LEMMA IdentOfPart ==
  ASSUME text \in Seq(Char), NEW p \in 1 .. End, NEW e \in p .. End
  PROVE  Ident(SubSeq(text, p, e - 1)) <=> IdentAt(p, e)
<1>1. Len(text) \in Nat /\ End = Len(text) + 1
  BY TextOK
<1>2. PICK w : w = SubSeq(text, p, e - 1)
  OBVIOUS
<1>3. /\ w \in Seq(Char) /\ Len(w) = e - p /\ DOMAIN w = 1 .. e - p
      /\ \A i \in 1 .. e - p : w[i] = text[i + p - 1]
  <2>1. p \in 1 .. Len(text) + 1 /\ e - 1 \in p - 1 .. Len(text) /\ (e - 1) - p + 1 = e - p
    BY <1>1
  <2>2. PICK n : n = e - 1
    OBVIOUS
  <2>3. /\ SubSeq(text, p, n) \in Seq(Char) /\ Len(SubSeq(text, p, n)) = n - p + 1
        /\ DOMAIN SubSeq(text, p, n) = 1 .. n - p + 1
        /\ \A i \in 1 .. n - p + 1 : SubSeq(text, p, n)[i] = text[i + p - 1]
    BY <2>1, <2>2, PartIs
  <2> QED  BY <1>2, <2>1, <2>2, <2>3
<1>4. w # <<>> <=> e \in p + 1 .. End
  BY <1>1, <1>3
<1>5. e \in p + 1 .. End => w[1] = text[p]
  BY <1>1, <1>3
<1>6. (\A i \in DOMAIN w : w[i] \in Identifier2) <=> \A r \in p .. e - 1 : text[r] \in Identifier2
  <2>1. ASSUME \A i \in DOMAIN w : w[i] \in Identifier2, NEW r \in p .. e - 1
        PROVE  text[r] \in Identifier2
    <3>1. r - p + 1 \in 1 .. e - p /\ (r - p + 1) + p - 1 = r
      BY <1>1
    <3>2. w[r - p + 1] = text[(r - p + 1) + p - 1]
      BY <1>3, <3>1
    <3> QED  BY <1>3, <2>1, <3>1, <3>2
  <2>2. ASSUME \A r \in p .. e - 1 : text[r] \in Identifier2, NEW i \in DOMAIN w
        PROVE  w[i] \in Identifier2
    <3>1. i \in 1 .. e - p /\ i + p - 1 \in p .. e - 1
      BY <1>1, <1>3
    <3> QED  BY <1>3, <2>2, <3>1
  <2> QED  BY <2>1, <2>2
<1> QED  BY <1>2, <1>4, <1>5, <1>6 DEF Ident, IdentAt

LEMMA IdentifierFacts == ":" \notin Identifier2 /\ Identifier1 \subseteq Identifier2 /\ "eof" \notin Identifier1
                         /\ "eof" # ":" /\ "none" \notin Char /\ "word" \notin Char
<1>1. ":" \notin Identifier2 /\ "eof" \notin Identifier1
  BY Zenon DEF Identifier1, Identifier2, Letter
<1>2. "none" \notin Char /\ "word" \notin Char
  BY Zenon DEF Char, Letter
<1> QED  BY <1>1, <1>2 DEF Identifier1, Identifier2

LEMMA PartIsNotNone ==
  ASSUME NEW w \in Seq(Char)
  PROVE  w # None
<1> SUFFICES ASSUME w = None
             PROVE  FALSE
  OBVIOUS
<1>1. Len(w) = 1 /\ w[1] = "none"
  BY DEF None
<1>2. w[1] \in Char
  BY <1>1
<1> QED  BY <1>1, <1>2, IdentifierFacts

(* What get_keyword and the automaton make of the word at p.               *)
KeywordHere(p) ==
  /\ GetKeyword(p).err = "none" /\ IsKeyword(TokenAt(Mode, p))
  /\ GetKeyword(p).end \in p + 1 .. End
  /\ TokenAt(Mode, p).from = p
  /\ KeywordOf(WordOf(TokenAt(Mode, p))) =
       [prefix |-> GetKeyword(p).prefix, keyword |-> GetKeyword(p).keyword]
  /\ RefAt(GetKeyword(p).end) = ReadToken(RefAt(p), TokenAt(Mode, p), Mode)
  /\ Boundary(GetKeyword(p).end)

LEMMA ColonsOfUnprefixed ==
  ASSUME text \in Seq(Char), NEW p \in 1 .. Len(text), NEW e, Unprefixed(p, e)
  PROVE  LET w == SubSeq(text, p, e - 1)
         IN  w \in Seq(Char) /\ DOMAIN w = 1 .. e - p /\ {i \in DOMAIN w : w[i] = ":"} = {}
<1>1. Len(text) \in Nat /\ End = Len(text) + 1 /\ e \in p + 1 .. End
      /\ \A r \in p .. e - 1 : text[r] \in Identifier2
  BY TextOK DEF Unprefixed, IdentAt
<1>2. PICK n : n = e - 1
  OBVIOUS
<1>3. p \in 1 .. Len(text) + 1 /\ n \in p - 1 .. Len(text) /\ n - p + 1 = e - p
  BY <1>1, <1>2
<1>4. PICK w : w = SubSeq(text, p, n)
  OBVIOUS
<1>5. w \in Seq(Char) /\ DOMAIN w = 1 .. n - p + 1 /\ \A i \in 1 .. n - p + 1 : w[i] = text[i + p - 1]
  BY <1>3, <1>4, PartIs
<1>6. \A i \in DOMAIN w : w[i] # ":"
  <2> SUFFICES ASSUME NEW i \in DOMAIN w
               PROVE  w[i] # ":"
    OBVIOUS
  <2>1. i + p - 1 \in p .. e - 1 /\ w[i] = text[i + p - 1]
    BY <1>1, <1>3, <1>5
  <2> QED  BY <1>1, <2>1, IdentifierFacts
<1> QED  BY <1>2, <1>3, <1>4, <1>5, <1>6

LEMMA UnprefixedIs ==
  ASSUME text \in Seq(Char), NEW p \in Begins, NEW e, Unprefixed(p, e)
  PROVE  KeywordHere(p)
<1>1. /\ p \in 1 .. Len(text) /\ p \in 1 .. End /\ e \in p + 1 .. End /\ e \in 1 .. End
      /\ text[p] \in Identifier1 /\ Len(text) \in Nat /\ End = Len(text) + 1
      /\ \A r \in p .. e - 1 : text[r] \in Identifier2
  BY BeginsOK, TextOK DEF Unprefixed, IdentAt
<1>2. e \in 1 .. Len(text) /\ ~WordChar(e) /\ text[e] \notin Identifier2 /\ text[e] # ":"
      /\ At(e) = text[e] /\ At(p) = text[p]
  BY <1>1, SeparatorEnds, TextOK DEF Unprefixed
<1>3. IdentifierEnd(p) = e
  BY <1>1, <1>2, IdentifierEndIs DEF Unprefixed
<1>4. GetKeyword(p) = KeywordTo(p, p, e)
  BY <1>2, <1>3 DEF GetKeyword, KeywordFrom
<1>5. /\ GetKeyword(p).err = "none" /\ GetKeyword(p).end = e /\ GetKeyword(p).prefix = None
      /\ GetKeyword(p).keyword = SubSeq(text, p, e - 1)
  BY <1>1, <1>2, <1>4 DEF KeywordTo, Unprefixed
<1>6. \A r \in p .. e - 1 : WordChar(r)
  <2> SUFFICES ASSUME NEW r \in p .. e - 1
               PROVE  WordChar(r)
    OBVIOUS
  <2>1. r \in 1 .. Len(text) /\ text[r] \in Identifier2
    BY <1>1
  <2> QED  BY <2>1, IdentifierChars
<1>7. /\ TokenAt(Mode, p) = [from |-> p, to |-> e - 1, kind |-> "word"]
      /\ RefAt(e) = ReadToken(RefAt(p), TokenAt(Mode, p), Mode) /\ Boundary(e)
  BY <1>1, <1>2, <1>6, WordToken
<1>8. PICK t : t = TokenAt(Mode, p)
  OBVIOUS
<1>9. PICK w : w = SubSeq(text, p, e - 1)
  OBVIOUS
<1>10. t.from = p /\ t.to = e - 1 /\ t.kind = "word" /\ WordOf(t) = w
  <2>1. t.from = p /\ t.to = e - 1 /\ t.kind = "word"
    BY <1>7, <1>8
  <2>2. WordOf(t) = SubSeq(text, p, e - 1)
    BY <2>1, Zenon DEF WordOf
  <2> QED  BY <1>9, <2>1, <2>2
<1>11. w \in Seq(Char) /\ {i \in DOMAIN w : w[i] = ":"} = {}
  BY <1>1, <1>9, ColonsOfUnprefixed
<1>12. KeywordOf(w) = [prefix |-> None, keyword |-> w]
  BY <1>11 DEF KeywordOf
<1>13. Ident(w)
  BY <1>1, <1>9, IdentOfPart DEF Unprefixed
<1>14. IsKeyword(t)
  <2>1. Cardinality({i \in DOMAIN w : w[i] = ":"}) <= 1
    <3>1. \A S : S = {} => Cardinality(S) <= 1
      BY FS_EmptySet
    <3> QED  BY <1>11, <3>1, Zenon
  <2>2. Separator(t.to + 1)
    BY <1>1, <1>10 DEF Unprefixed
  <2> QED  BY <1>10, <1>12, <1>13, <2>1, <2>2 DEF IsKeyword
<1> QED  BY <1>1, <1>5, <1>7, <1>8, <1>9, <1>10, <1>12, <1>14 DEF KeywordHere

LEMMA ColonsOfPrefixed ==
  ASSUME text \in Seq(Char), NEW p \in 1 .. Len(text), NEW a, NEW e, Prefixed(p, a, e)
  PROVE  LET w == SubSeq(text, p, e - 1)
         IN  /\ w \in Seq(Char) /\ DOMAIN w = 1 .. e - p /\ {i \in DOMAIN w : w[i] = ":"} = {a - p + 1}
             /\ KeywordOf(w) = [prefix |-> SubSeq(text, p, a - 1), keyword |-> SubSeq(text, a + 1, e - 1)]
<1>1. /\ Len(text) \in Nat /\ End = Len(text) + 1 /\ a \in p + 1 .. End /\ e \in a + 2 .. End
      /\ \A r \in p .. a - 1 : text[r] \in Identifier2
      /\ \A r \in a + 1 .. e - 1 : text[r] \in Identifier2
      /\ text[a] = ":"
  <2>1. /\ Len(text) \in Nat /\ End = Len(text) + 1 /\ a \in p + 1 .. End /\ e \in (a + 1) + 1 .. End
        /\ \A r \in p .. a - 1 : text[r] \in Identifier2
        /\ \A r \in a + 1 .. e - 1 : text[r] \in Identifier2
        /\ text[a] = ":"
    BY TextOK DEF Prefixed, IdentAt
  <2> QED  BY <2>1
<1>2. PICK n, c : n = e - 1 /\ c = a - p + 1
  OBVIOUS
<1>3. /\ p \in 1 .. Len(text) + 1 /\ n \in p - 1 .. Len(text) /\ n - p + 1 = e - p
      /\ c \in 2 .. e - p - 1 /\ c + p - 1 = a
  BY <1>1, <1>2
<1>4. PICK w : w = SubSeq(text, p, n)
  OBVIOUS
<1>5. /\ w \in Seq(Char) /\ DOMAIN w = 1 .. n - p + 1 /\ Len(w) = n - p + 1
      /\ \A i \in 1 .. n - p + 1 : w[i] = text[i + p - 1]
  BY <1>3, <1>4, PartIs
<1>6. \A i \in DOMAIN w : w[i] = ":" <=> i = c
  <2> SUFFICES ASSUME NEW i \in DOMAIN w
               PROVE  w[i] = ":" <=> i = c
    OBVIOUS
  <2>1. i \in 1 .. e - p /\ w[i] = text[i + p - 1]
    BY <1>3, <1>5
  <2>2. CASE i = c
    BY <1>1, <1>3, <2>1, <2>2
  <2>3. CASE i # c
    <3>1. i + p - 1 \in p .. a - 1 \/ i + p - 1 \in a + 1 .. e - 1
      BY <1>1, <1>3, <2>1, <2>3
    <3> QED  BY <1>1, <2>1, <2>3, <3>1, IdentifierFacts
  <2> QED  BY <2>2, <2>3
<1>7. {i \in DOMAIN w : w[i] = ":"} = {c}
  <2>1. c \in DOMAIN w
    BY <1>1, <1>3, <1>5
  <2> QED  BY <1>6, <2>1
<1>8. KeywordOf(w) = [prefix |-> SubSeq(w, 1, c - 1), keyword |-> SubSeq(w, c + 1, Len(w))]
  <2>1. (CHOOSE i \in {c} : TRUE) = c
    OBVIOUS
  <2> QED  BY <1>7, <2>1 DEF KeywordOf
<1>9. SubSeq(w, 1, c - 1) = SubSeq(text, p, a - 1)
  <2>1. PICK i, j : i = 1 /\ j = c - 1
    OBVIOUS
  <2>2. i \in 1 .. n - p + 2 /\ j \in i - 1 .. n - p + 1 /\ p + i - 1 = p /\ p + j - 1 = a - 1
    BY <1>1, <1>2, <1>3, <2>1
  <2>3. SubSeq(SubSeq(text, p, n), i, j) = SubSeq(text, p + i - 1, p + j - 1)
    BY <1>3, <2>2, PartOfPart
  <2> QED  BY <1>4, <2>1, <2>2, <2>3
<1>10. SubSeq(w, c + 1, Len(w)) = SubSeq(text, a + 1, e - 1)
  <2>1. PICK i, j : i = c + 1 /\ j = n - p + 1
    OBVIOUS
  <2>2. i \in 1 .. n - p + 2 /\ j \in i - 1 .. n - p + 1 /\ p + i - 1 = a + 1 /\ p + j - 1 = e - 1
    BY <1>1, <1>2, <1>3, <2>1
  <2>3. SubSeq(SubSeq(text, p, n), i, j) = SubSeq(text, p + i - 1, p + j - 1)
    BY <1>3, <2>2, PartOfPart
  <2> QED  BY <1>4, <1>5, <2>1, <2>2, <2>3
<1> QED  BY <1>2, <1>3, <1>4, <1>5, <1>7, <1>8, <1>9, <1>10

LEMMA PrefixedIs ==
  ASSUME text \in Seq(Char), NEW p \in Begins, NEW a, NEW e, Prefixed(p, a, e)
  PROVE  KeywordHere(p)
<1>1. /\ p \in 1 .. Len(text) /\ p \in 1 .. End /\ Len(text) \in Nat /\ End = Len(text) + 1
      /\ a \in p + 1 .. End /\ e \in a + 2 .. End /\ e \in p + 1 .. End /\ e \in 1 .. End
      /\ a \in 1 .. Len(text) /\ a + 1 \in 1 .. Len(text) /\ a \in p .. End /\ e \in a + 1 .. End
      /\ a \in 1 .. End /\ a + 1 \in 1 .. End
      /\ text[p] \in Identifier1 /\ text[a] = ":" /\ text[a + 1] \in Identifier1
      /\ \A r \in p .. a - 1 : text[r] \in Identifier2
      /\ \A r \in a + 1 .. e - 1 : text[r] \in Identifier2
  <2>1. /\ p \in 1 .. Len(text) /\ p \in 1 .. End /\ Len(text) \in Nat /\ End = Len(text) + 1
        /\ a \in p + 1 .. End /\ e \in (a + 1) + 1 .. End
        /\ text[p] \in Identifier1 /\ text[a] = ":" /\ text[a + 1] \in Identifier1
        /\ \A r \in p .. a - 1 : text[r] \in Identifier2
        /\ \A r \in a + 1 .. e - 1 : text[r] \in Identifier2
    BY BeginsOK, TextOK DEF Prefixed, IdentAt
  <2> QED  BY <2>1
<1>2. /\ e \in 1 .. Len(text) /\ ~WordChar(e) /\ text[e] \notin Identifier2 /\ text[e] # ":"
      /\ At(a) = ":" /\ At(p) = text[p] /\ At(a + 1) = text[a + 1]
  BY <1>1, SeparatorEnds, TextOK DEF Prefixed
<1>3. IdentifierEnd(p) = a /\ IdentifierEnd(a + 1) = e
  <2>1. IdentifierEnd(p) = a
    BY <1>1, IdentifierEndIs, IdentifierFacts DEF Prefixed
  <2>2. IdentifierEnd(a + 1) = e
    BY <1>1, <1>2, IdentifierEndIs DEF Prefixed
  <2> QED  BY <2>1, <2>2
<1>4. GetKeyword(p) = KeywordTo(p, a + 1, e)
  BY <1>2, <1>3 DEF GetKeyword, KeywordFrom
<1>5. /\ GetKeyword(p).err = "none" /\ GetKeyword(p).end = e
      /\ GetKeyword(p).prefix = SubSeq(text, p, a - 1)
      /\ GetKeyword(p).keyword = SubSeq(text, a + 1, e - 1)
  <2>1. a + 1 # p /\ (a + 1) - 2 = a - 1
    BY <1>1
  <2> QED  BY <1>1, <1>2, <1>4, <2>1 DEF KeywordTo, Prefixed
<1>6. \A r \in p .. e - 1 : WordChar(r)
  <2> SUFFICES ASSUME NEW r \in p .. e - 1
               PROVE  WordChar(r)
    OBVIOUS
  <2>1. r \in 1 .. Len(text) /\ (r \in p .. a - 1 \/ r = a \/ r \in a + 1 .. e - 1)
    BY <1>1
  <2> QED  BY <1>1, <2>1, IdentifierChars
<1>7. /\ TokenAt(Mode, p) = [from |-> p, to |-> e - 1, kind |-> "word"]
      /\ RefAt(e) = ReadToken(RefAt(p), TokenAt(Mode, p), Mode) /\ Boundary(e)
  BY <1>1, <1>2, <1>6, WordToken
<1>8. PICK t : t = TokenAt(Mode, p)
  OBVIOUS
<1>9. PICK w : w = SubSeq(text, p, e - 1)
  OBVIOUS
<1>10. t.from = p /\ t.to = e - 1 /\ t.kind = "word" /\ WordOf(t) = w
  <2>1. t.from = p /\ t.to = e - 1 /\ t.kind = "word"
    BY <1>7, <1>8
  <2>2. WordOf(t) = SubSeq(text, p, e - 1)
    BY <2>1, Zenon DEF WordOf
  <2> QED  BY <1>9, <2>1, <2>2
<1>11. /\ {i \in DOMAIN w : w[i] = ":"} = {a - p + 1}
       /\ KeywordOf(w) = [prefix |-> SubSeq(text, p, a - 1), keyword |-> SubSeq(text, a + 1, e - 1)]
  BY <1>1, <1>9, ColonsOfPrefixed
<1>12. Ident(SubSeq(text, p, a - 1)) /\ Ident(SubSeq(text, a + 1, e - 1))
  BY <1>1, IdentOfPart DEF Prefixed
<1>13. IsKeyword(t)
  <2>1. Cardinality({i \in DOMAIN w : w[i] = ":"}) <= 1
    <3>1. Cardinality({i \in DOMAIN w : w[i] = ":"}) = 1
      BY <1>11, FS_Singleton, Zenon
    <3>2. \A n : n = 1 => n <= 1
      OBVIOUS
    <3> QED  BY <3>1, <3>2, Zenon
  <2>2. Separator(t.to + 1)
    BY <1>1, <1>10 DEF Prefixed
  <2> QED  BY <1>10, <1>11, <1>12, <2>1, <2>2 DEF IsKeyword
<1> QED  BY <1>1, <1>5, <1>7, <1>8, <1>9, <1>10, <1>11, <1>13 DEF KeywordHere

LEMMA OneColon ==
  ASSUME NEW w \in Seq(Char), Cardinality({i \in DOMAIN w : w[i] = ":"}) <= 1, NEW c \in DOMAIN w, w[c] = ":"
  PROVE  \A i \in DOMAIN w : w[i] = ":" => i = c
<1> DEFINE C == {i \in DOMAIN w : w[i] = ":"}
<1>1. IsFiniteSet(C)
  <2>1. DOMAIN w = 1 .. Len(w) /\ Len(w) \in Nat
    OBVIOUS
  <2>2. IsFiniteSet(1 .. Len(w))
    BY <2>1, FS_Interval
  <2>3. C \in SUBSET (1 .. Len(w))
    BY <2>1
  <2> HIDE DEF C
  <2> QED  BY <2>2, <2>3, FS_Subset
<1>2. Cardinality(C) <= 1 /\ \A i \in DOMAIN w : w[i] = ":" => i \in C
  OBVIOUS
<1> HIDE DEF C
<1>3. c \in C
  BY <1>2
<1>4. Cardinality(C) \in Nat /\ (Cardinality(C) = 0 <=> C = {})
  BY <1>1, FS_CardinalityType, FS_EmptySet
<1>5. Cardinality(C) = 1
  BY <1>2, <1>3, <1>4
<1>6. PICK x : C = {x}
  BY <1>1, <1>5, FS_Singleton
<1> QED  BY <1>2, <1>3, <1>6

LEMMA KeywordTaken ==
  ASSUME text \in Seq(Char), NEW p \in Begins, GetKeyword(p).err = "none"
  PROVE  KeywordHere(p)
<1>1. /\ p \in 1 .. Len(text) /\ p \in 1 .. End /\ Len(text) \in Nat /\ End = Len(text) + 1
      /\ At(p) = text[p]
  BY BeginsOK, TextOK
<1>2. PICK a : a = IdentifierEnd(p)
  OBVIOUS
<1>3. PICK start : start = IF At(a) = ":" THEN a + 1 ELSE p
  OBVIOUS
<1>4. PICK e : e = IdentifierEnd(start)
  OBVIOUS
<1>5. GetKeyword(p) = KeywordTo(p, start, e)
  BY <1>2, <1>3, <1>4 DEF GetKeyword, KeywordFrom
<1>6. At(p) \in Identifier1 /\ At(start) \in Identifier1 /\ Separator(e)
  BY <1>5 DEF KeywordTo
<1>7. IdentAt(p, a)
  BY <1>1, <1>2, <1>6, IdentifierIs
<1>8. CASE At(a) = ":"
  <2>1. a \in p + 1 .. End /\ a \in Nat
    BY <1>1, <1>7 DEF IdentAt
  <2>2. a < End /\ text[a] = ":"
    BY <1>8, <2>1, TextOK, IdentifierFacts
  <2>3. a + 1 \in Nat /\ start = a + 1
    BY <1>3, <1>8, <2>1
  <2>4. a + 1 < End
    BY <1>6, <2>3, TextOK, IdentifierFacts
  <2>5. a + 1 \in 1 .. Len(text) /\ text[a + 1] \in Identifier1
    BY <1>1, <1>6, <2>1, <2>3, <2>4, TextOK
  <2>6. IdentAt(a + 1, e)
    BY <1>4, <2>3, <2>5, IdentifierIs
  <2>7. Prefixed(p, a, e)
    BY <1>6, <1>7, <2>2, <2>6 DEF Prefixed
  <2> QED  BY <2>7, PrefixedIs
<1>9. CASE At(a) # ":"
  <2>1. Unprefixed(p, a)
    BY <1>2, <1>3, <1>4, <1>6, <1>7, <1>9 DEF Unprefixed
  <2> QED  BY <2>1, UnprefixedIs
<1> QED  BY <1>8, <1>9

(* The word that begins at p.                                              *)
LEMMA WordAt ==
  ASSUME text \in Seq(Char), NEW p \in Begins, TokenAt(Mode, p).kind = "word"
  PROVE  WordChar(p) /\ TokenAt(Mode, p) = [from |-> p, to |-> WordEnd(p) - 1, kind |-> "word"]
<1>1. p \in 1 .. Len(text) /\ Mode[p] = "code" /\ Plain(Mode, p)
  BY BeginsOK
<1>2. KindOf(Mode, p) = "word"
  BY DEF TokenAt
<1>3. text[p] # "word"
  BY <1>1, IdentifierFacts
<1>4. InWord(Mode, p)
  BY <1>2, <1>3 DEF KindOf
<1>5. WordChar(p)
  BY <1>1, <1>4, WordCharOK
<1> QED  BY <1>1, <1>5, WordEndOK, WordToken

LEMMA KeywordRead ==
  ASSUME text \in Seq(Char), NEW p \in Begins, IsKeyword(TokenAt(Mode, p))
  PROVE  KeywordHere(p)
<1>1. /\ p \in 1 .. Len(text) /\ p \in 1 .. End /\ Len(text) \in Nat /\ End = Len(text) + 1
  BY BeginsOK, TextOK
<1>2. PICK t : t = TokenAt(Mode, p)
  OBVIOUS
<1>3. PICK e : e = WordEnd(p)
  OBVIOUS
<1>4. t.kind = "word"
  BY <1>2 DEF IsKeyword
<1>5. WordChar(p) /\ t = [from |-> p, to |-> e - 1, kind |-> "word"]
  BY <1>2, <1>3, <1>4, WordAt
<1>6. e \in p + 1 .. End /\ e \in p .. End /\ e \in Int
  BY <1>1, <1>3, <1>5, WordEndOK
<1>7. PICK w : w = WordOf(t)
  OBVIOUS
<1>8. w = SubSeq(text, p, e - 1)
  <2>1. t.from = p /\ t.to = e - 1
    BY <1>5
  <2> QED  BY <1>7, <2>1, Zenon DEF WordOf
<1>9. /\ Separator(e) /\ Cardinality({i \in DOMAIN w : w[i] = ":"}) <= 1
      /\ Ident(KeywordOf(w).keyword) /\ (KeywordOf(w).prefix # None => Ident(KeywordOf(w).prefix))
  <2>1. t.to + 1 = e
    BY <1>5, <1>6
  <2> QED  BY <1>2, <1>7, <2>1 DEF IsKeyword
<1>10. /\ w \in Seq(Char) /\ DOMAIN w = 1 .. e - p /\ Len(w) = e - p
       /\ \A i \in 1 .. e - p : w[i] = text[i + p - 1]
  <2>1. PICK n : n = e - 1
    OBVIOUS
  <2>2. p \in 1 .. Len(text) + 1 /\ n \in p - 1 .. Len(text) /\ n - p + 1 = e - p
    BY <1>1, <1>6, <2>1
  <2>3. /\ SubSeq(text, p, n) \in Seq(Char) /\ Len(SubSeq(text, p, n)) = n - p + 1
        /\ DOMAIN SubSeq(text, p, n) = 1 .. n - p + 1
        /\ \A i \in 1 .. n - p + 1 : SubSeq(text, p, n)[i] = text[i + p - 1]
    BY <2>2, PartIs
  <2> QED  BY <1>8, <2>1, <2>2, <2>3
<1> DEFINE C == {i \in DOMAIN w : w[i] = ":"}
<1>11. CASE C = {}
  <2>1. KeywordOf(w) = [prefix |-> None, keyword |-> w]
    BY <1>11 DEF KeywordOf
  <2>2. Ident(w)
    BY <1>9, <2>1
  <2>3. IdentAt(p, e)
    BY <1>1, <1>6, <1>8, <2>2, IdentOfPart
  <2>4. Unprefixed(p, e)
    BY <1>9, <2>3 DEF Unprefixed
  <2> QED  BY <2>4, UnprefixedIs
<1>12. CASE C # {}
  <2>1. PICK c : c = CHOOSE i \in C : TRUE
    OBVIOUS
  <2>2. c \in C
    BY <1>12, <2>1
  <2>3. c \in 1 .. e - p /\ w[c] = ":" /\ c \in DOMAIN w
    BY <1>10, <2>2
  <2>4. PICK a : a = p + c - 1
    OBVIOUS
  <2>5. /\ a \in p .. e - 1 /\ a \in 1 .. Len(text) /\ a \in p .. End /\ c = a - p + 1
        /\ a < End /\ text[a] = ":" /\ a + 1 \in 1 .. End /\ e \in a + 1 .. End /\ a \in 1 .. End
    <3>1. a \in p .. e - 1 /\ c + p - 1 = a /\ c = a - p + 1
      BY <1>1, <1>6, <2>3, <2>4
    <3>2. text[a] = ":"
      BY <1>10, <2>3, <3>1
    <3>3. /\ a \in 1 .. Len(text) /\ a \in p .. End /\ a < End /\ a + 1 \in 1 .. End
          /\ e \in a + 1 .. End /\ a \in 1 .. End
      BY <1>1, <1>6, <3>1
    <3> QED  BY <3>1, <3>2, <3>3
  <2>6. KeywordOf(w) = [prefix |-> SubSeq(w, 1, c - 1), keyword |-> SubSeq(w, c + 1, Len(w))]
    BY <1>12, <2>1 DEF KeywordOf
  <2>7. SubSeq(w, 1, c - 1) = SubSeq(text, p, a - 1) /\ SubSeq(w, 1, c - 1) # None
    <3>1. PICK i, j, n : i = 1 /\ j = c - 1 /\ n = e - 1
      OBVIOUS
    <3>2. /\ p \in 1 .. Len(text) + 1 /\ n \in p - 1 .. Len(text)
          /\ i \in 1 .. n - p + 2 /\ j \in i - 1 .. n - p + 1 /\ p + i - 1 = p /\ p + j - 1 = a - 1
          /\ i \in 1 .. Len(w) + 1 /\ j \in i - 1 .. Len(w)
      BY <1>1, <1>6, <1>10, <2>3, <2>4, <3>1
    <3>3. SubSeq(SubSeq(text, p, n), i, j) = SubSeq(text, p + i - 1, p + j - 1)
      BY <3>2, PartOfPart
    <3>4. SubSeq(w, i, j) \in Seq(Char)
      BY <1>10, <3>2, PartIs
    <3> QED  BY <1>8, <3>1, <3>2, <3>3, <3>4, PartIsNotNone
  <2>8. SubSeq(w, c + 1, Len(w)) = SubSeq(text, a + 1, e - 1)
    <3>1. PICK i, j, n : i = c + 1 /\ j = n - p + 1 /\ n = e - 1
      OBVIOUS
    <3>2. /\ p \in 1 .. Len(text) + 1 /\ n \in p - 1 .. Len(text)
          /\ i \in 1 .. n - p + 2 /\ j \in i - 1 .. n - p + 1 /\ p + i - 1 = a + 1 /\ p + j - 1 = e - 1
          /\ j = Len(w)
      <4>1. j = e - p /\ n - p + 2 = e - p + 1 /\ n - p + 1 = e - p
        BY <1>1, <1>6, <3>1
      <4>2. i \in 1 .. e - p + 1 /\ j \in i - 1 .. e - p /\ p + i - 1 = a + 1 /\ p + j - 1 = e - 1
        BY <1>1, <1>6, <2>3, <2>4, <3>1, <4>1
      <4>3. p \in 1 .. Len(text) + 1 /\ n \in p - 1 .. Len(text)
        BY <1>1, <1>6, <3>1
      <4> QED  BY <1>10, <4>1, <4>2, <4>3
    <3>3. SubSeq(SubSeq(text, p, n), i, j) = SubSeq(text, p + i - 1, p + j - 1)
      BY <3>2, PartOfPart
    <3> QED  BY <1>8, <3>1, <3>2, <3>3
  <2>9. Ident(SubSeq(text, p, a - 1)) /\ Ident(SubSeq(text, a + 1, e - 1))
    <3>1. KeywordOf(w).prefix = SubSeq(w, 1, c - 1) /\ KeywordOf(w).keyword = SubSeq(w, c + 1, Len(w))
      <4>1. PICK x, y : x = SubSeq(w, 1, c - 1) /\ y = SubSeq(w, c + 1, Len(w))
        BY Zenon
      <4>2. KeywordOf(w) = [prefix |-> x, keyword |-> y]
        BY <2>6, <4>1, Zenon
      <4>3. KeywordOf(w).prefix = x /\ KeywordOf(w).keyword = y
        BY <4>2
      <4> QED  BY <4>1, <4>3, Zenon
    <3> QED  BY <1>9, <2>7, <2>8, <3>1, Zenon
  <2>10. IdentAt(p, a) /\ IdentAt(a + 1, e)
    BY <1>1, <2>5, <2>9, IdentOfPart
  <2>11. Prefixed(p, a, e)
    BY <1>9, <2>5, <2>10 DEF Prefixed
  <2> QED  BY <2>11, PrefixedIs
<1> QED  BY <1>11, <1>12

(* get_keyword accepts the words that are keywords.                        *)
LEMMA KeywordsAgree ==
  ASSUME text \in Seq(Char), NEW p \in Begins
  PROVE  /\ GetKeyword(p).err = "none" => KeywordHere(p)
         /\ GetKeyword(p).err # "none" => ~IsKeyword(TokenAt(Mode, p))
BY KeywordTaken, KeywordRead DEF KeywordHere

-----------------------------------------------------------------------------
(* The indentation of the lines of a string.                               *)
LEMMA LineStartOK ==
  ASSUME text \in Seq(Char), NEW p \in 1 .. End
  PROVE  /\ LineStart(p) \in 1 .. p
         /\ LineStart(p) = 1 \/ text[LineStart(p) - 1] = "nl"
         /\ \A r \in LineStart(p) .. p - 1 : text[r] # "nl"
<1> DEFINE B == {r \in 1 .. p - 1 : text[r] = "nl"}
<1>1. End \in Nat /\ p \in Nat
  BY TextOK
<1>2. LineStart(p) = IF B = {} THEN 1 ELSE 1 + (CHOOSE r \in B : \A s \in B : s <= r)
  BY DEF LineStart
<1>3. \A r \in B : r \in 1 .. p - 1 /\ text[r] = "nl"
  OBVIOUS
<1>4. \A r \in 1 .. p - 1 : text[r] = "nl" => r \in B
  OBVIOUS
<1> HIDE DEF B
<1>5. CASE B = {}
  BY <1>1, <1>2, <1>4, <1>5
<1>6. CASE B # {}
  <2>1. \E r \in B : \A s \in B : s <= r
    <3> DEFINE D == {k \in Nat : p - k \in B}
    <3>1. D \in SUBSET Nat /\ D # {}
      <4>1. PICK r \in B : TRUE
        BY <1>6
      <4>2. p - r \in Nat /\ p - (p - r) = r
        BY <1>1, <1>3, <4>1
      <4>3. p - r \in D
        BY <4>1, <4>2
      <4> QED  BY <4>3
    <3>2. \A k : k \in D <=> k \in Nat /\ p - k \in B
      OBVIOUS
    <3> HIDE DEF D
    <3>3. PICK d \in D : \A e \in D : d <= e
      BY <3>1, LeastNumber
    <3>4. p - d \in B /\ d \in Nat
      BY <3>2, <3>3
    <3>5. \A s \in B : s <= p - d
      <4> SUFFICES ASSUME NEW s \in B
                   PROVE  s <= p - d
        OBVIOUS
      <4>1. p - s \in Nat /\ p - (p - s) = s /\ s \in Nat
        BY <1>1, <1>3
      <4>2. d <= p - s
        BY <3>2, <3>3, <4>1
      <4> QED  BY <1>1, <3>4, <4>1, <4>2
    <3> QED  BY <3>4, <3>5
  <2>2. PICK m : m = CHOOSE r \in B : \A s \in B : s <= r
    OBVIOUS
  <2>3. m \in B /\ \A s \in B : s <= m
    BY <2>1, <2>2
  <2>4. LineStart(p) = 1 + m /\ m \in 1 .. p - 1 /\ text[m] = "nl"
    BY <1>2, <1>3, <1>6, <2>2, <2>3
  <2>5. LineStart(p) \in 1 .. p /\ LineStart(p) - 1 = m
    BY <1>1, <2>4
  <2>6. \A r \in LineStart(p) .. p - 1 : text[r] # "nl"
    <3> SUFFICES ASSUME NEW r \in LineStart(p) .. p - 1, text[r] = "nl"
                 PROVE  FALSE
      OBVIOUS
    <3>1. r \in 1 .. p - 1 /\ r > m
      BY <1>1, <2>4
    <3>2. r <= m
      BY <1>4, <2>3, <3>1
    <3> QED  BY <2>4, <3>1, <3>2
  <2> QED  BY <2>4, <2>5, <2>6
<1> QED  BY <1>5, <1>6

LEMMA LineStartIs ==
  ASSUME text \in Seq(Char), NEW p \in 1 .. End, NEW n \in 1 .. p,
         n = 1 \/ text[n - 1] = "nl", \A r \in n .. p - 1 : text[r] # "nl"
  PROVE  LineStart(p) = n
<1>1. PICK m : m = LineStart(p)
  OBVIOUS
<1>2. m \in 1 .. p /\ (m = 1 \/ text[m - 1] = "nl") /\ \A r \in m .. p - 1 : text[r] # "nl"
  BY <1>1, LineStartOK
<1>3. p \in Nat
  BY TextOK
<1>4. ~(m < n)
  <2>1. m < n => n - 1 \in m .. p - 1
    BY <1>2, <1>3
  <2> QED  BY <1>2, <2>1
<1>5. ~(n < m)
  <2>1. n < m => m - 1 \in n .. p - 1
    BY <1>2, <1>3
  <2> QED  BY <1>2, <2>1
<1> QED  BY <1>1, <1>2, <1>3, <1>4, <1>5

Tabs(a, b) == Cardinality({r \in a .. b : text[r] = "tab"})

LEMMA TabsGrow ==
  ASSUME NEW a \in Int, NEW b \in Int
  PROVE  Tabs(a, b) \in Nat /\ Tabs(a, b) <= Tabs(a, b + 1) /\ Tabs(a, b + 1) \in Nat
<1> DEFINE S == {r \in a .. b : text[r] = "tab"}
           T == {r \in a .. b + 1 : text[r] = "tab"}
<1>1. IsFiniteSet(a .. b + 1)
  BY FS_Interval
<1>2. S \subseteq T /\ T \subseteq a .. b + 1
  OBVIOUS
<1>3. Tabs(a, b) = Cardinality(S) /\ Tabs(a, b + 1) = Cardinality(T)
  BY DEF Tabs
<1> HIDE DEF S, T
<1>4. IsFiniteSet(T) /\ IsFiniteSet(S)
  BY <1>1, <1>2, FS_Subset
<1>5. Cardinality(S) <= Cardinality(T)
  BY <1>2, <1>4, FS_Subset
<1> QED  BY <1>3, <1>4, <1>5, FS_CardinalityType

(* What is removed: InIndent, for a string that begins at q.               *)
Removed(q, p) ==
  /\ text[q] = Quote /\ LineStart(p) > q
  /\ \A r \in LineStart(p) .. p : text[r] \in {"sp", "tab"}
  /\ (p - LineStart(p)) + 7 * Tabs(LineStart(p), p - 1) < Column(q)

LEMMA RemovedIs ==
  ASSUME NEW t, NEW p
  PROVE  InIndent(t, p) <=> Removed(t.from, p)
BY Zenon DEF InIndent, Removed, Tabs, Quote

LEMMA StaysIn ==
  ASSUME text \in Seq(Char), NEW q, NEW p \in 1 .. Len(text), p + 1 \in 1 .. End,
         ~Removed(q, p), text[p] # "nl", Column(q) \in Int
  PROVE  ~Removed(q, p + 1)
<1> SUFFICES ASSUME Removed(q, p + 1)
             PROVE  FALSE
  OBVIOUS
<1>1. p \in 1 .. End /\ p \in Nat
  BY TextOK
<1>2. PICK n : n = LineStart(p)
  OBVIOUS
<1>3. n \in 1 .. p /\ (n = 1 \/ text[n - 1] = "nl") /\ \A r \in n .. p - 1 : text[r] # "nl"
  BY <1>1, <1>2, LineStartOK
<1>4. LineStart(p + 1) = n
  <2>1. n \in 1 .. p + 1 /\ (p + 1) - 1 = p /\ \A r \in n .. p : r = p \/ r \in n .. p - 1
    BY <1>1, <1>3
  <2>2. \A r \in n .. (p + 1) - 1 : text[r] # "nl"
    BY <1>3, <2>1
  <2> QED  BY <1>3, <2>1, <2>2, LineStartIs
<1>5. /\ text[q] = Quote /\ n > q
      /\ \A r \in n .. p + 1 : text[r] \in {"sp", "tab"}
      /\ ((p + 1) - n) + 7 * Tabs(n, (p + 1) - 1) < Column(q)
  BY <1>4 DEF Removed
<1>6. \A r \in n .. p : text[r] \in {"sp", "tab"}
  <2>1. \A r \in n .. p : r \in n .. p + 1
    BY <1>1, <1>3
  <2> QED  BY <1>5, <2>1
<1>7. (p - n) + 7 * Tabs(n, p - 1) < Column(q)
  <2>1. /\ (p + 1) - 1 = p /\ (p - 1) + 1 = p /\ p - 1 \in Int /\ n \in Int
    BY <1>1, <1>3
  <2>2. PICK k \in Nat, l \in Nat : k = Tabs(n, p - 1) /\ l = Tabs(n, p) /\ k <= l
    <3>1. Tabs(n, p - 1) \in Nat /\ Tabs(n, p - 1) <= Tabs(n, (p - 1) + 1) /\ Tabs(n, (p - 1) + 1) \in Nat
      BY <2>1, TabsGrow
    <3> QED  BY <2>1, <3>1
  <2>3. ((p + 1) - n) + 7 * l < Column(q)
    BY <1>5, <2>1, <2>2
  <2>4. (p - n) + 7 * k < Column(q)
    BY <1>1, <2>1, <2>2, <2>3
  <2> QED  BY <2>2, <2>4
<1> QED  BY <1>2, <1>5, <1>6, <1>7 DEF Removed

LEMMA ColumnOK ==
  ASSUME text \in Seq(Char), NEW q \in 1 .. Len(text)
  PROVE  Column(q) \in Int
<1>1. q \in 1 .. End /\ q \in Int
  BY TextOK
<1>2. LineStart(q) \in Int
  BY <1>1, LineStartOK
<1>3. PICK n, k : n = LineStart(q) /\ k = Tabs(n, q)
  OBVIOUS
<1>4. k \in Nat /\ n \in Int
  BY <1>1, <1>2, <1>3, TabsGrow
<1>5. Column(q) = q - n + 1 + 7 * k
  BY <1>3, Zenon DEF Column, Tabs
<1> QED  BY <1>1, <1>4, <1>5

(* The position behind an indentation.                                     *)
LEMMA AfterIndentIs ==
  ASSUME text \in Seq(Char), NEW b \in 1 .. End, NEW column
  PROVE  /\ \A r \in b .. AfterIndent(b, column) - 1 : Indented(b, r, column)
         /\ ~Indented(b, AfterIndent(b, column), column)
<1> DEFINE f == IndentFunction(b, column)
           Fine(p) == /\ f[p] \in p .. End /\ ~Indented(b, f[p], column)
                      /\ \A r \in p .. f[p] - 1 : Indented(b, r, column)
           S == {p \in 1 .. End : Fine(p)}
<1>1. AfterIndent(b, column) = f[b]
  BY DEF AfterIndent, IndentFunction
<1>2. \A p \in 1 .. End : f[p] = IF Indented(b, p, column) THEN f[p + 1] ELSE p
  BY IndentExists
<1> HIDE DEF f
<1>3. End \in Nat
  BY TextOK
<1>4. ASSUME NEW p \in 1 .. End, \A r \in p + 1 .. End : r \in S PROVE p \in S
  <2>1. CASE Indented(b, p, column)
    <3>1. At(p) # "eof"
      BY <2>1 DEF Indented
    <3>2. p + 1 \in p + 1 .. End
      BY <3>1, TextOK
    <3>3. Fine(p + 1)
      BY <1>4, <3>2
    <3>4. f[p] = f[p + 1] /\ f[p] \in p .. End
      BY <1>2, <1>3, <2>1, <3>3
    <3>5. \A r \in p .. f[p] - 1 : Indented(b, r, column)
      <4> SUFFICES ASSUME NEW r \in p .. f[p] - 1
                   PROVE  Indented(b, r, column)
        OBVIOUS
      <4>1. r = p \/ r \in p + 1 .. f[p + 1] - 1
        BY <1>3, <3>4
      <4> QED  BY <2>1, <3>3, <4>1
    <3> QED  BY <3>3, <3>4, <3>5
  <2>2. CASE ~Indented(b, p, column)
    BY <1>2, <1>3, <2>2
  <2> QED  BY <2>1, <2>2
<1>5. \A p \in 1 .. End : p \in S
  <2> HIDE DEF S
  <2> QED  BY <1>3, <1>4, DownInduction
<1> QED  BY <1>1, <1>5

(* At the end of a line the parser goes on where the indentation ends.     *)
LEMMA NextLine ==
  ASSUME text \in Seq(Char), NEW q \in 1 .. Len(text), NEW p \in q + 1 .. Len(text),
         text[q] = Quote, text[p] = "nl", NEW n, n = AfterIndent(p + 1, Column(q))
  PROVE  /\ n \in p + 1 .. End
         /\ \A r \in p + 1 .. n - 1 : Removed(q, r) /\ text[r] \in {"sp", "tab"}
         /\ n < End => ~Removed(q, n)
<1>1. PICK b : b = p + 1
  OBVIOUS
<1>2. /\ Len(text) \in Nat /\ End = Len(text) + 1 /\ b \in 1 .. End /\ b - 1 = p /\ b > q
      /\ p \in Nat /\ q \in Nat /\ b \in Nat
  BY <1>1, TextOK
<1>3. n \in b .. End /\ n \in Nat
  BY <1>1, <1>2, AfterIndentOK
<1>4. (\A r \in b .. n - 1 : Indented(b, r, Column(q))) /\ ~Indented(b, n, Column(q))
  BY <1>1, <1>2, AfterIndentIs
<1>5. \A r \in b .. n - 1 : text[r] \in {"sp", "tab"} /\ r \in 1 .. Len(text)
  <2> SUFFICES ASSUME NEW r \in b .. n - 1
               PROVE  text[r] \in {"sp", "tab"} /\ r \in 1 .. Len(text)
    OBVIOUS
  <2>1. r \in 1 .. Len(text)
    BY <1>2, <1>3
  <2>2. At(r) = text[r]
    BY <2>1, TextOK
  <2> QED  BY <1>4, <2>1, <2>2 DEF Indented
<1>6. \A r \in b .. n : LineStart(r) = b
  <2> SUFFICES ASSUME NEW r \in b .. n
               PROVE  LineStart(r) = b
    OBVIOUS
  <2>1. r \in 1 .. End /\ b \in 1 .. r
    BY <1>2, <1>3
  <2>2. \A s \in b .. r - 1 : text[s] # "nl"
    <3> SUFFICES ASSUME NEW s \in b .. r - 1
                 PROVE  text[s] # "nl"
      OBVIOUS
    <3>1. s \in b .. n - 1
      BY <1>2, <1>3, <2>1
    <3> QED  BY <1>5, <3>1
  <2>3. b = 1 \/ text[b - 1] = "nl"
    BY <1>2
  <2> QED  BY <2>1, <2>2, <2>3, LineStartIs
<1>7. \A r \in b .. n - 1 : Removed(q, r)
  <2> SUFFICES ASSUME NEW r \in b .. n - 1
               PROVE  Removed(q, r)
    OBVIOUS
  <2>1. LineStart(r) = b
    <3>1. r \in b .. n
      BY <1>2, <1>3
    <3> QED  BY <1>6, <3>1
  <2>2. \A s \in b .. r : text[s] \in {"sp", "tab"}
    <3> SUFFICES ASSUME NEW s \in b .. r
                 PROVE  text[s] \in {"sp", "tab"}
      OBVIOUS
    <3>1. s \in b .. n - 1
      BY <1>2, <1>3
    <3> QED  BY <1>5, <3>1
  <2>3. (r - b) + 7 * Tabs(b, r - 1) < Column(q)
    BY <1>4, Zenon DEF Indented, Tabs
  <2> QED  BY <1>2, <2>1, <2>2, <2>3 DEF Removed
<1>8. n < End => ~Removed(q, n)
  <2> SUFFICES ASSUME n < End, Removed(q, n)
               PROVE  FALSE
    OBVIOUS
  <2>1. LineStart(n) = b
    <3>1. n \in b .. n
      BY <1>2, <1>3
    <3> QED  BY <1>6, <3>1
  <2>2. text[n] \in {"sp", "tab"} /\ (n - b) + 7 * Tabs(b, n - 1) < Column(q)
    <3>1. n \in b .. n
      BY <1>2, <1>3
    <3> QED  BY <2>1, <3>1 DEF Removed
  <2>3. At(n) = text[n]
    BY <1>3, TextOK
  <2>4. Indented(b, n, Column(q))
    BY <2>2, <2>3, Zenon DEF Indented, Tabs
  <2> QED  BY <1>4, <2>4
<1> QED  BY <1>1, <1>3, <1>5, <1>7, <1>8

-----------------------------------------------------------------------------
(* A step in a string: from p to n = Further(q, p).                        *)
Apostrophe == "'"
ModeIn(q) == IF text[q] = Quote THEN "double" ELSE "single"
InString(q, p) == Mode[p] = ModeIn(q) /\ (p < End => ~Removed(q, p))
Keeps(q, p) == ~Removed(q, p) /\ Mode[p + 1] # "escape"
Illegal(q, p) ==
  text[q] = Quote /\ text[p] = Backslash /\ Mode[p] = "double" /\ Mode[p + 1] = "double"
Escaped(q, p) == Escape(q, p) /\ At(p + 1) \in Escapable
Marks(q, p) == IF Escape(q, p) /\ ~Escaped(q, p) THEN {p} ELSE {}
StringStep(q, p, n) ==
  /\ n \in p + 1 .. End /\ InString(q, n)
  /\ \A r \in p .. n - 1 : Mode[r] # "code" /\ (Illegal(q, r) <=> r \in Marks(q, p))
  /\ Escaped(q, p) => n = p + 2 /\ ~Keeps(q, p) /\ Keeps(q, p + 1)
  /\ ~Escaped(q, p) => Keeps(q, p) /\ \A r \in p + 1 .. n - 1 : ~Keeps(q, r)

LEMMA QuoteFacts ==
  /\ Quotes = {Quote, Apostrophe} /\ Quote # Apostrophe /\ Backslash # Quote /\ Backslash # "nl"
  /\ Backslash \notin {"sp", "tab"} /\ Quote # "nl" /\ Quote \notin {"sp", "tab"}
  /\ "nl" \notin Escapable /\ "sp" \notin Escapable /\ "tab" \notin Escapable
  /\ Escapable = {Quote, Backslash} /\ Quotes \cap {"sp", "tab", "nl"} = {}
  /\ Quote \in Quotes /\ Apostrophe # Backslash
<1>1. Quotes = {Quote, Apostrophe} /\ Escapable = {Quote, Backslash} /\ Quote \in Quotes
  BY Zenon DEF Quotes, Quote, Apostrophe, Escapable, Backslash
<1>2. /\ Quote # Apostrophe /\ Backslash # Quote /\ Backslash # "nl" /\ Apostrophe # Backslash
      /\ Backslash \notin {"sp", "tab"} /\ Quote # "nl" /\ Quote \notin {"sp", "tab"}
      /\ "nl" \notin Escapable /\ "sp" \notin Escapable /\ "tab" \notin Escapable
  BY Zenon DEF Quote, Apostrophe, Escapable, Backslash
<1>3. \A c \in Quotes : c \notin {"sp", "tab", "nl"}
  BY Zenon DEF Quotes
<1>4. Quotes \cap {"sp", "tab", "nl"} = {}
  BY <1>3
<1> QED  BY <1>1, <1>2, <1>4

LEMMA StringStepOne ==
  ASSUME text \in Seq(Char), NEW q \in 1 .. Len(text), NEW p \in q + 1 .. Len(text),
         InString(q, p), Mode[p + 1] = ModeIn(q), ~NewLine(q, p), ~Escaped(q, p)
  PROVE  StringStep(q, p, p + 1)
<1>1. /\ p \in 1 .. Len(text) /\ p + 1 \in 1 .. End /\ p < End /\ p + 1 \in p + 1 .. End
      /\ \A r \in p .. (p + 1) - 1 : r = p
      /\ \A r \in p + 1 .. (p + 1) - 1 : FALSE
  BY TextOK
<1>2. ~Removed(q, p)
  BY <1>1 DEF InString
<1>3. ~Removed(q, p + 1)
  <2>1. CASE text[q] = Quote
    BY <1>1, <1>2, <2>1, StaysIn, ColumnOK DEF NewLine
  <2>2. CASE text[q] # Quote
    BY <2>2 DEF Removed
  <2> QED  BY <2>1, <2>2
<1>4. Mode[p] # "code" /\ Mode[p + 1] # "escape"
  BY DEF InString, ModeIn
<1>5. Illegal(q, p) <=> p \in Marks(q, p)
  <2>1. text[q] = Quote => Mode[p] = "double" /\ Mode[p + 1] = "double"
    BY DEF InString, ModeIn
  <2> QED  BY <2>1 DEF Illegal, Marks, Escape
<1> QED  BY <1>1, <1>2, <1>3, <1>4, <1>5 DEF StringStep, InString, Keeps

LEMMA StringStepOK ==
  ASSUME text \in Seq(Char), NEW q \in 1 .. Len(text), text[q] \in Quotes,
         NEW p \in q + 1 .. End, InString(q, p), ~Over(q, p)
  PROVE  StringStep(q, p, Further(q, p))
<1>1. /\ p \in q + 1 .. Len(text) /\ p \in 1 .. Len(text) /\ p + 1 \in 1 .. End /\ p < End
      /\ Len(text) \in Nat /\ End = Len(text) + 1 /\ text[p] # text[q] /\ q \in Nat /\ p \in Nat
      /\ ~Removed(q, p)
  BY TextOK DEF Over, InString
<1>2. CASE text[q] # Quote
  <2>1. text[q] = "'"
    BY <1>2, QuoteFacts, Zenon DEF Apostrophe
  <2>2. ~NewLine(q, p) /\ ~Escape(q, p) /\ ~Escaped(q, p) /\ Further(q, p) = p + 1
    BY <1>2 DEF NewLine, Escape, Escaped, Further
  <2>3. Mode[p] = "single" /\ ModeIn(q) = "single"
    BY <1>2 DEF InString, ModeIn
  <2>4. Mode[p + 1] = "single"
    BY <1>1, <2>1, <2>3, ModeOfOthers
  <2> QED  BY <1>1, <2>2, <2>3, <2>4, StringStepOne
<1>3. CASE text[q] = Quote
  <2>1. Mode[p] = "double" /\ ModeIn(q) = "double" /\ text[p] # Quote
    BY <1>1, <1>3 DEF InString, ModeIn
  <2>2. /\ text[p] = Backslash /\ At(p + 1) \in Escapable => Mode[p + 1] = "escape"
        /\ ~(text[p] = Backslash /\ At(p + 1) \in Escapable) => Mode[p + 1] = "double"
    BY <1>1, <2>1, ModeOfDouble
  <2>3. CASE text[p] = "nl"
    <3>1. NewLine(q, p) /\ ~Escape(q, p) /\ ~Escaped(q, p) /\ Marks(q, p) = {}
      BY <1>3, <2>3, QuoteFacts DEF NewLine, Escape, Escaped, Marks
    <3>2. PICK n : n = AfterIndent(p + 1, Column(q))
      OBVIOUS
    <3>3. Further(q, p) = n
      BY <3>1, <3>2 DEF Further
    <3>4. /\ n \in p + 1 .. End /\ n \in Nat
          /\ \A r \in p + 1 .. n - 1 : Removed(q, r) /\ text[r] \in {"sp", "tab"}
          /\ n < End => ~Removed(q, n)
      <4>1. /\ n \in p + 1 .. End
            /\ \A r \in p + 1 .. n - 1 : Removed(q, r) /\ text[r] \in {"sp", "tab"}
            /\ n < End => ~Removed(q, n)
        BY <1>1, <1>3, <2>3, <3>2, NextLine
      <4> QED  BY <1>1, <4>1
    <3>5. Mode[p + 1] = "double"
      BY <2>2, <2>3, QuoteFacts
    <3>6. \A r \in p + 1 .. n : Mode[r] = "double"
      <4> DEFINE S == {r \in Int : Mode[r] = "double"}
      <4>1. PICK a \in Int : a = p + 1
        BY <1>1
      <4>2. a \in S
        BY <3>5, <4>1
      <4>3. \A r \in a .. n - 1 : r \in S => r + 1 \in S
        <5> SUFFICES ASSUME NEW r \in a .. n - 1, r \in S
                     PROVE  r + 1 \in S
          OBVIOUS
        <5>1. r \in 1 .. Len(text) /\ r \in p + 1 .. n - 1 /\ r + 1 \in Int
          BY <1>1, <3>4, <4>1
        <5>2. text[r] # Quote /\ text[r] # Backslash
          BY <3>4, <5>1, QuoteFacts
        <5> QED  BY <5>1, <5>2, ModeOfDouble
      <4> HIDE DEF S
      <4>4. \A r \in a .. n : r \in S
        BY <3>4, <4>2, <4>3, UpInduction
      <4> QED  BY <4>1, <4>4 DEF S
    <3>7. InString(q, n)
      <4>1. n \in p + 1 .. n
        BY <1>1, <3>4
      <4> QED  BY <2>1, <3>4, <3>6, <4>1 DEF InString
    <3>8. \A r \in p .. n - 1 : Mode[r] # "code" /\ ~Illegal(q, r)
      <4> SUFFICES ASSUME NEW r \in p .. n - 1
                   PROVE  Mode[r] # "code" /\ ~Illegal(q, r)
        OBVIOUS
      <4>1. r = p \/ (r \in p + 1 .. n - 1 /\ r \in p + 1 .. n)
        BY <1>1, <3>4
      <4>2. text[r] # Backslash
        BY <2>3, <3>4, <4>1, QuoteFacts
      <4> QED  BY <2>1, <3>6, <4>1, <4>2 DEF Illegal
    <3>9. Keeps(q, p) /\ \A r \in p + 1 .. n - 1 : ~Keeps(q, r)
      BY <1>1, <3>4, <3>5 DEF Keeps
    <3> QED  BY <3>1, <3>3, <3>4, <3>7, <3>8, <3>9 DEF StringStep
  <2>4. CASE text[p] # "nl" /\ text[p] = Backslash /\ At(p + 1) \in Escapable
    <3>1. Escaped(q, p) /\ ~NewLine(q, p) /\ Marks(q, p) = {} /\ Further(q, p) = p + 2
      BY <1>3, <2>4 DEF Escape, Escaped, NewLine, Marks, Further
    <3>2. p + 1 < End
      BY <1>1, <2>4, Specials, TextOK
    <3>3. /\ p + 1 \in 1 .. Len(text) /\ (p + 1) + 1 = p + 2 /\ p + 2 \in 1 .. End /\ p + 2 \in p + 1 .. End
          /\ text[p + 1] \in Escapable
          /\ \A r \in p .. (p + 2) - 1 : r = p \/ r = p + 1
      BY <1>1, <2>4, <3>2, TextOK
    <3>4. Mode[p + 1] = "escape"
      BY <2>2, <2>4
    <3>5. Mode[p + 2] = "double"
      <4>1. Mode[(p + 1) + 1] = "double"
        BY <3>3, <3>4, ModeOfOthers
      <4> QED  BY <3>3, <4>1
    <3>6. ~Removed(q, p + 1)
      BY <1>1, <2>4, StaysIn, ColumnOK
    <3>7. ~Removed(q, p + 2)
      <4>1. text[p + 1] # "nl"
        BY <3>3, QuoteFacts
      <4>2. ~Removed(q, (p + 1) + 1)
        BY <3>3, <3>6, <4>1, StaysIn, ColumnOK
      <4> QED  BY <3>3, <4>2
    <3>8. InString(q, p + 2)
      BY <2>1, <3>5, <3>7 DEF InString
    <3>9. ~Illegal(q, p) /\ ~Illegal(q, p + 1) /\ Mode[p] # "code" /\ Mode[p + 1] # "code"
      BY <2>1, <3>4 DEF Illegal
    <3>10. ~Keeps(q, p) /\ Keeps(q, p + 1)
      BY <3>3, <3>4, <3>5, <3>6 DEF Keeps
    <3> QED  BY <3>1, <3>3, <3>8, <3>9, <3>10 DEF StringStep
  <2>5. CASE text[p] # "nl" /\ ~(text[p] = Backslash /\ At(p + 1) \in Escapable)
    <3>1. ~NewLine(q, p) /\ ~Escaped(q, p) /\ Further(q, p) = p + 1
      BY <1>3, <2>5 DEF NewLine, Escape, Escaped, Further
    <3>2. Mode[p + 1] = ModeIn(q)
      BY <2>1, <2>2, <2>5
    <3> QED  BY <1>1, <3>1, <3>2, StringStepOne
  <2> QED  BY <2>3, <2>4, <2>5
<1> QED  BY <1>2, <1>3

-----------------------------------------------------------------------------
(* The rest of a string, and what the reference says of it.                *)
Members(s) == {s[i] : i \in DOMAIN s}
EscapesIn(q, v, a, b) == {Error(EscapeError(v), r) : r \in {r \in a .. b : Illegal(q, r)}}
Values(V, q, e) ==
  \A p \in q .. e - 2 :
     /\ V[p] \in Seq(Char)
     /\ p # q => V[p] = IF Keeps(q, p) THEN Append(V[p - 1], text[p]) ELSE V[p - 1]
RestIs(q, v, p, r) ==
  /\ r.closed =>
       /\ r.end \in p + 1 .. End /\ Mode[r.end] = "code" /\ text[r.end - 1] = text[q]
       /\ \A i \in p .. r.end - 1 : Mode[i] # "code"
       /\ Members(r.errs) = EscapesIn(q, v, p, r.end - 2)
       /\ \A V : Values(V, q, r.end) => V[r.end - 2] = V[p - 1] \o r.value
  /\ ~r.closed => \A i \in p .. End : Mode[i] # "code"

LEMMA MembersOf ==
  ASSUME NEW T, NEW s \in Seq(T), NEW t \in Seq(T)
  PROVE  Members(s \o t) = Members(s) \cup Members(t)
<1>1. PICK u : u = s \o t
  OBVIOUS
<1>2. /\ u \in Seq(T) /\ Len(u) = Len(s) + Len(t) /\ Len(s) \in Nat /\ Len(t) \in Nat
      /\ DOMAIN u = 1 .. Len(s) + Len(t) /\ DOMAIN s = 1 .. Len(s) /\ DOMAIN t = 1 .. Len(t)
      /\ \A i \in 1 .. Len(s) + Len(t) : u[i] = IF i <= Len(s) THEN s[i] ELSE t[i - Len(s)]
  BY <1>1
<1>3. ASSUME NEW x \in Members(u) PROVE x \in Members(s) \cup Members(t)
  <2>1. PICK i \in DOMAIN u : x = u[i]
    BY <1>3 DEF Members
  <2>2. CASE i <= Len(s)
    <3>1. i \in DOMAIN s /\ x = s[i]
      BY <1>2, <2>1, <2>2
    <3> QED  BY <3>1 DEF Members
  <2>3. CASE ~(i <= Len(s))
    <3>1. i - Len(s) \in DOMAIN t /\ x = t[i - Len(s)]
      BY <1>2, <2>1, <2>3
    <3> QED  BY <3>1 DEF Members
  <2> QED  BY <2>2, <2>3
<1>4. ASSUME NEW x \in Members(s) PROVE x \in Members(u)
  <2>1. PICK i \in DOMAIN s : x = s[i]
    BY <1>4 DEF Members
  <2>2. i \in DOMAIN u /\ u[i] = x
    BY <1>2, <2>1
  <2> QED  BY <2>2 DEF Members
<1>5. ASSUME NEW x \in Members(t) PROVE x \in Members(u)
  <2>1. PICK i \in DOMAIN t : x = t[i]
    BY <1>5 DEF Members
  <2>2. i + Len(s) \in DOMAIN u /\ u[i + Len(s)] = x
    <3>1. i + Len(s) \in 1 .. Len(s) + Len(t) /\ ~(i + Len(s) <= Len(s)) /\ (i + Len(s)) - Len(s) = i
      BY <1>2
    <3> QED  BY <1>2, <2>1, <3>1
  <2> QED  BY <2>2 DEF Members
<1> QED  BY <1>1, <1>3, <1>4, <1>5

LEMMA MembersOfOne ==
  ASSUME NEW e
  PROVE  Members(<<e>>) = {e} /\ Members(<<>>) = {}
BY DEF Members

CharsAt(q, p) == IF Escaped(q, p) THEN <<text[p + 1]>> ELSE <<text[p]>>

LEMMA CharsOK ==
  ASSUME text \in Seq(Char), NEW q \in 1 .. Len(text), NEW v, NEW p \in 1 .. Len(text), NEW r \in Read
  PROVE  /\ CharsAt(q, p) \in Seq(Char)
         /\ Extended(q, v, p, r).closed = r.closed /\ Extended(q, v, p, r).end = r.end
         /\ Extended(q, v, p, r).value = CharsAt(q, p) \o r.value
         /\ Extended(q, v, p, r).errs =
              IF Marks(q, p) = {} THEN r.errs ELSE <<Error(EscapeError(v), p)>> \o r.errs
<1>1. CharsAt(q, p) \in Seq(Char)
  <2>1. <<text[p]>> \in Seq(Char)
    BY TextOK
  <2>2. Escaped(q, p) => <<text[p + 1]>> \in Seq(Char)
    <3> SUFFICES ASSUME At(p + 1) \in Escapable
                 PROVE  <<text[p + 1]>> \in Seq(Char)
      BY DEF Escaped
    <3>1. p + 1 \in 1 .. Len(text)
      BY TextOK, Specials
    <3>2. text[p + 1] \in Char
      BY <3>1, TextOK
    <3> QED  BY <3>2
  <2> QED  BY <2>1, <2>2 DEF CharsAt
<1>2. \A c : /\ Add(c, r).closed = r.closed /\ Add(c, r).end = r.end /\ Add(c, r).value = c \o r.value
             /\ Add(c, r).errs = r.errs
  BY DEF Add, Read
<1>3. \A c, e : /\ AddError(e, Add(c, r)).closed = r.closed /\ AddError(e, Add(c, r)).end = r.end
                /\ AddError(e, Add(c, r)).value = c \o r.value
                /\ AddError(e, Add(c, r)).errs = <<e>> \o r.errs
  BY DEF Add, AddError, Read
<1>4. CASE NewLine(q, p)
  <2>1. ~Escape(q, p) /\ text[p] = "nl"
    BY <1>4, QuoteFacts DEF NewLine, Escape
  <2>2. Extended(q, v, p, r) = Add(<<text[p]>>, r) /\ CharsAt(q, p) = <<text[p]>> /\ Marks(q, p) = {}
    BY <1>4, <2>1 DEF Extended, CharsAt, Escaped, Marks
  <2> QED  BY <1>1, <1>2, <2>2
<1>5. CASE ~NewLine(q, p) /\ Escaped(q, p)
  <2>1. Extended(q, v, p, r) = Add(<<text[p + 1]>>, r) /\ CharsAt(q, p) = <<text[p + 1]>> /\ Marks(q, p) = {}
    BY <1>5 DEF Extended, CharsAt, Escaped, Marks
  <2> QED  BY <1>1, <1>2, <2>1
<1>6. CASE ~NewLine(q, p) /\ Escape(q, p) /\ ~Escaped(q, p)
  <2>1. /\ Extended(q, v, p, r) = AddError(Error(EscapeError(v), p), Add(<<text[p]>>, r))
        /\ CharsAt(q, p) = <<text[p]>> /\ Marks(q, p) # {}
    BY <1>6 DEF Extended, CharsAt, Escaped, Escape, Marks
  <2> QED  BY <1>1, <1>3, <2>1
<1>7. CASE ~NewLine(q, p) /\ ~Escape(q, p)
  <2>1. Extended(q, v, p, r) = Add(<<text[p]>>, r) /\ CharsAt(q, p) = <<text[p]>> /\ Marks(q, p) = {}
    BY <1>7 DEF Extended, CharsAt, Escaped, Marks
  <2> QED  BY <1>1, <1>2, <2>1
<1> QED  BY <1>4, <1>5, <1>6, <1>7

(* The value, over one step.                                               *)
LEMMA ValuesStep ==
  ASSUME text \in Seq(Char), NEW q \in 1 .. Len(text), NEW p \in q + 1 .. Len(text),
         NEW n, StringStep(q, p, n), NEW e \in n + 1 .. End, NEW V, Values(V, q, e)
  PROVE  V[n - 1] = V[p - 1] \o CharsAt(q, p) /\ V[p - 1] \in Seq(Char)
<1>1. /\ n \in p + 1 .. End /\ Len(text) \in Nat /\ End = Len(text) + 1 /\ p \in Nat /\ q \in Nat
      /\ e \in Nat /\ n \in Nat
  BY TextOK DEF StringStep
<1>2. p - 1 \in q .. e - 2 /\ p \in q .. e - 2 /\ p # q
  BY <1>1
<1>3. V[p - 1] \in Seq(Char) /\ V[p] = IF Keeps(q, p) THEN Append(V[p - 1], text[p]) ELSE V[p - 1]
  BY <1>2 DEF Values
<1>4. CASE Escaped(q, p)
  <2>1. n = p + 2 /\ ~Keeps(q, p) /\ Keeps(q, p + 1)
    BY <1>4 DEF StringStep
  <2>2. p + 1 \in q .. e - 2 /\ p + 1 # q /\ (p + 1) - 1 = p /\ n - 1 = p + 1
    BY <1>1, <2>1
  <2>3. V[p + 1] = Append(V[p], text[p + 1])
    BY <2>1, <2>2 DEF Values
  <2>4. V[n - 1] = Append(V[p - 1], text[p + 1])
    BY <1>3, <2>1, <2>2, <2>3
  <2> QED  BY <1>3, <1>4, <2>4 DEF CharsAt
<1>5. CASE ~Escaped(q, p)
  <2>1. Keeps(q, p) /\ \A r \in p + 1 .. n - 1 : ~Keeps(q, r)
    BY <1>5 DEF StringStep
  <2>2. V[n - 1] = V[p]
    <3>1. PICK a \in Int, m \in Int : a = p /\ m = n - 1
      BY <1>1
    <3> DEFINE S == {r \in Int : V[r] = V[a]}
    <3>2. a \in S /\ m \in a .. m
      BY <1>1, <3>1
    <3>3. \A r \in a .. m - 1 : r \in S => r + 1 \in S
      <4> SUFFICES ASSUME NEW r \in a .. m - 1, r \in S
                   PROVE  r + 1 \in S
        OBVIOUS
      <4>1. r + 1 \in q .. e - 2 /\ r + 1 # q /\ (r + 1) - 1 = r /\ r + 1 \in p + 1 .. n - 1 /\ r + 1 \in Int
        BY <1>1, <3>1
      <4>2. V[r + 1] = V[r]
        BY <2>1, <4>1 DEF Values
      <4> QED  BY <4>1, <4>2
    <3> HIDE DEF S
    <3>4. \A r \in a .. m : r \in S
      BY <3>2, <3>3, UpInduction
    <3> QED  BY <3>1, <3>2, <3>4 DEF S
  <2>3. V[n - 1] = Append(V[p - 1], text[p])
    BY <1>3, <2>1, <2>2
  <2> QED  BY <1>3, <1>5, <2>3 DEF CharsAt
<1> QED  BY <1>3, <1>4, <1>5

LEMMA EscapesStep ==
  ASSUME text \in Seq(Char), NEW q \in 1 .. Len(text), NEW v, NEW p \in q + 1 .. Len(text),
         NEW n, StringStep(q, p, n), NEW e \in n + 1 .. End
  PROVE  EscapesIn(q, v, p, e - 2) =
           (IF Marks(q, p) = {} THEN {} ELSE {Error(EscapeError(v), p)}) \cup EscapesIn(q, v, n, e - 2)
<1>1. /\ n \in p + 1 .. End /\ End \in Nat /\ p \in Nat /\ n \in Nat /\ e \in Nat
      /\ \A r \in p .. n - 1 : Illegal(q, r) <=> r \in Marks(q, p)
  BY TextOK DEF StringStep
<1>2. p \in p .. n - 1 /\ \A r \in p .. e - 2 : r \in p .. n - 1 \/ r \in n .. e - 2
  BY <1>1
<1>3. \A r \in p .. n - 1 : r \in p .. e - 2
  BY <1>1
<1>4. \A r \in n .. e - 2 : r \in p .. e - 2
  BY <1>1
<1>5. Marks(q, p) = {} \/ Marks(q, p) = {p}
  BY DEF Marks
<1>6. CASE Marks(q, p) = {}
  <2>1. \A r \in p .. n - 1 : ~Illegal(q, r)
    BY <1>1, <1>6
  <2>2. \A r : r \in p .. e - 2 /\ Illegal(q, r) <=> r \in n .. e - 2 /\ Illegal(q, r)
    BY <1>2, <1>4, <2>1
  <2>3. {r \in p .. e - 2 : Illegal(q, r)} = {r \in n .. e - 2 : Illegal(q, r)}
    BY <2>2
  <2> QED  BY <1>6, <2>3 DEF EscapesIn
<1>7. CASE Marks(q, p) = {p}
  <2>1. \A r \in p .. n - 1 : Illegal(q, r) <=> r = p
    BY <1>1, <1>7
  <2>2. \A r : r \in p .. e - 2 /\ Illegal(q, r) <=> r = p \/ (r \in n .. e - 2 /\ Illegal(q, r))
    BY <1>2, <1>3, <1>4, <2>1
  <2>3. {r \in p .. e - 2 : Illegal(q, r)} = {p} \cup {r \in n .. e - 2 : Illegal(q, r)}
    BY <2>2
  <2>4. EscapesIn(q, v, p, e - 2) = {Error(EscapeError(v), p)} \cup EscapesIn(q, v, n, e - 2)
    BY <2>3 DEF EscapesIn
  <2> QED  BY <1>7, <2>4
<1> QED  BY <1>5, <1>6, <1>7

LEMMA RestOver ==
  ASSUME text \in Seq(Char), NEW q \in 1 .. Len(text), NEW v, text[q] \in Quotes,
         NEW p \in q + 1 .. End, InString(q, p), Over(q, p)
  PROVE  RestIs(q, v, p, OverValue(q, p))
<1>1. Len(text) \in Nat /\ End = Len(text) + 1 /\ p \in Nat /\ q \in Nat
  BY TextOK
<1>2. Mode[p] # "code"
  BY DEF InString, ModeIn
<1>3. CASE p = End
  <2>1. ~OverValue(q, p).closed /\ \A i \in p .. End : i = p
    BY <1>1, <1>3 DEF OverValue
  <2> QED  BY <1>2, <2>1 DEF RestIs
<1>4. CASE p # End
  <2>1. text[p] = text[q] /\ p \in 1 .. Len(text)
    BY <1>1, <1>4 DEF Over
  <2>2. PICK r : r = OverValue(q, p)
    OBVIOUS
  <2>3. r.closed /\ r.end = p + 1 /\ r.value = <<>> /\ r.errs = <<>>
    BY <1>4, <2>2 DEF OverValue
  <2>4. Mode[p + 1] = "code"
    <3>1. CASE text[q] = Quote
      BY <2>1, <3>1, ModeOfDouble DEF InString, ModeIn
    <3>2. CASE text[q] # Quote
      <4>1. text[p] = "'"
        BY <2>1, <3>2, QuoteFacts, Zenon DEF Apostrophe
      <4> QED  BY <2>1, <3>2, <4>1, ModeOfOthers DEF InString, ModeIn
    <3> QED  BY <3>1, <3>2
  <2>5. r.end \in p + 1 .. End /\ r.end - 1 = p /\ r.end - 2 = p - 1 /\ \A i \in p .. r.end - 1 : i = p
    BY <1>1, <2>1, <2>3
  <2>6. Members(r.errs) = EscapesIn(q, v, p, r.end - 2)
    <3>1. \A i \in p .. r.end - 2 : FALSE
      BY <1>1, <2>5
    <3>2. EscapesIn(q, v, p, r.end - 2) = {}
      BY <3>1 DEF EscapesIn
    <3> QED  BY <2>3, <3>2, MembersOfOne
  <2>7. ASSUME NEW V, Values(V, q, r.end)
        PROVE  V[r.end - 2] = V[p - 1] \o r.value
    <3>1. p - 1 \in q .. r.end - 2
      BY <1>1, <2>5
    <3>2. V[p - 1] \in Seq(Char)
      BY <2>7, <3>1 DEF Values
    <3>3. V[p - 1] \o <<>> = V[p - 1]
      BY <3>2
    <3> QED  BY <2>3, <2>5, <3>3
  <2> QED  BY <1>2, <2>1, <2>2, <2>3, <2>4, <2>5, <2>6, <2>7 DEF RestIs
<1> QED  BY <1>3, <1>4

LEMMA RestContinues ==
  ASSUME text \in Seq(Char), NEW q \in 1 .. Len(text), NEW v, text[q] \in Quotes,
         NEW p \in q + 1 .. End, InString(q, p), ~Over(q, p),
         NEW n, n = Further(q, p), NEW r \in Read, RestIs(q, v, n, r)
  PROVE  RestIs(q, v, p, Extended(q, v, p, r))
<1>1. /\ Len(text) \in Nat /\ End = Len(text) + 1 /\ p \in Nat /\ q \in Nat
      /\ p \in q + 1 .. Len(text) /\ p \in 1 .. Len(text)
  BY TextOK DEF Over
<1>2. StringStep(q, p, n)
  BY StringStepOK
<1>3. n \in p + 1 .. End /\ n \in Nat /\ \A i \in p .. n - 1 : Mode[i] # "code"
  BY <1>1, <1>2 DEF StringStep
<1>4. /\ CharsAt(q, p) \in Seq(Char)
      /\ Extended(q, v, p, r).closed = r.closed /\ Extended(q, v, p, r).end = r.end
      /\ Extended(q, v, p, r).value = CharsAt(q, p) \o r.value
      /\ Extended(q, v, p, r).errs =
           IF Marks(q, p) = {} THEN r.errs ELSE <<Error(EscapeError(v), p)>> \o r.errs
  <2>1. p \in 1 .. Len(text) /\ r \in Read
    BY <1>1
  <2> QED  BY <2>1, CharsOK, Zenon
<1> DEFINE x == Extended(q, v, p, r)
<1>5. /\ CharsAt(q, p) \in Seq(Char) /\ x.closed = r.closed /\ x.end = r.end
      /\ x.value = CharsAt(q, p) \o r.value
      /\ x.errs = IF Marks(q, p) = {} THEN r.errs ELSE <<Error(EscapeError(v), p)>> \o r.errs
  BY <1>4
<1> HIDE DEF x
<1>6. r.value \in Seq(Char) /\ r.errs \in Seq(EscapeErrors)
  BY DEF Read
<1>7. ASSUME x.closed
      PROVE  /\ x.end \in p + 1 .. End /\ Mode[x.end] = "code" /\ text[x.end - 1] = text[q]
             /\ \A i \in p .. x.end - 1 : Mode[i] # "code"
             /\ Members(x.errs) = EscapesIn(q, v, p, x.end - 2)
             /\ \A V : Values(V, q, x.end) => V[x.end - 2] = V[p - 1] \o x.value
  <2>1. PICK e : e = r.end
    OBVIOUS
  <2>2. /\ e \in n + 1 .. End /\ Mode[e] = "code" /\ text[e - 1] = text[q]
        /\ \A i \in n .. e - 1 : Mode[i] # "code"
        /\ Members(r.errs) = EscapesIn(q, v, n, e - 2)
        /\ \A V : Values(V, q, e) => V[e - 2] = V[n - 1] \o r.value
    BY <1>5, <1>7, <2>1 DEF RestIs
  <2>3. e \in p + 1 .. End /\ e \in Nat
    BY <1>1, <1>3, <2>2
  <2>4. \A i \in p .. e - 1 : Mode[i] # "code"
    <3> SUFFICES ASSUME NEW i \in p .. e - 1
                 PROVE  Mode[i] # "code"
      OBVIOUS
    <3>1. i \in p .. n - 1 \/ i \in n .. e - 1
      BY <1>1, <1>3, <2>3
    <3> QED  BY <1>3, <2>2, <3>1
  <2>5. Members(x.errs) = EscapesIn(q, v, p, e - 2)
    <3>1. EscapesIn(q, v, p, e - 2) =
            (IF Marks(q, p) = {} THEN {} ELSE {Error(EscapeError(v), p)}) \cup EscapesIn(q, v, n, e - 2)
      BY <1>1, <1>2, <2>2, EscapesStep
    <3>2. CASE Marks(q, p) = {}
      BY <1>5, <2>2, <3>1, <3>2
    <3>3. CASE Marks(q, p) # {}
      <4>1. PICK y : y = Error(EscapeError(v), p)
        OBVIOUS
      <4>2. y \in EscapeErrors
        BY <1>1, <4>1 DEF Error, EscapeError, EscapeErrors, EscapeCodes
      <4>3. Members(<<y>> \o r.errs) = Members(<<y>>) \cup Members(r.errs)
        <5>1. \A z \in EscapeErrors : <<z>> \in Seq(EscapeErrors)
          OBVIOUS
        <5>2. <<y>> \in Seq(EscapeErrors)
          BY <4>2, <5>1, Zenon
        <5>3. PICK s \in Seq(EscapeErrors) : s = <<y>>
          BY <5>2, Zenon
        <5>4. PICK t \in Seq(EscapeErrors) : t = r.errs
          BY <1>6, Zenon
        <5>5. Members(s \o t) = Members(s) \cup Members(t)
          BY MembersOf
        <5> QED  BY <5>3, <5>4, <5>5
      <4>4. Members(x.errs) = {y} \cup Members(r.errs)
        BY <1>5, <3>3, <4>1, <4>3, MembersOfOne
      <4> QED  BY <2>2, <3>1, <3>3, <4>1, <4>4
    <3> QED  BY <3>2, <3>3
  <2>6. ASSUME NEW V, Values(V, q, e)
        PROVE  V[e - 2] = V[p - 1] \o x.value
    <3>1. V[n - 1] = V[p - 1] \o CharsAt(q, p) /\ V[p - 1] \in Seq(Char)
      <4>1. p \in q + 1 .. Len(text) /\ e \in n + 1 .. End /\ StringStep(q, p, n) /\ Values(V, q, e)
        BY <1>1, <1>2, <2>2, <2>6
      <4> QED  BY <4>1, ValuesStep
    <3>2. V[e - 2] = V[n - 1] \o r.value
      BY <2>2, <2>6
    <3>3. PICK a \in Seq(Char), b \in Seq(Char), c \in Seq(Char) :
            a = V[p - 1] /\ b = CharsAt(q, p) /\ c = r.value
      BY <1>5, <1>6, <3>1
    <3>4. (a \o b) \o c = a \o (b \o c)
      OBVIOUS
    <3> QED  BY <1>5, <3>1, <3>2, <3>3, <3>4
  <2> QED  BY <1>5, <2>1, <2>2, <2>3, <2>4, <2>5, <2>6
<1>8. ASSUME ~x.closed PROVE \A i \in p .. End : Mode[i] # "code"
  <2> SUFFICES ASSUME NEW i \in p .. End
               PROVE  Mode[i] # "code"
    OBVIOUS
  <2>1. i \in p .. n - 1 \/ i \in n .. End
    BY <1>1, <1>3
  <2>2. \A j \in n .. End : Mode[j] # "code"
    BY <1>5, <1>8 DEF RestIs
  <2> QED  BY <1>3, <2>1, <2>2
<1>9. RestIs(q, v, p, x)
  BY <1>7, <1>8 DEF RestIs
<1> QED  BY <1>9 DEF x

(* By induction from the end of the text: the rest of the string, wherever *)
(* its reading goes on.                                                    *)
LEMMA RestHolds ==
  ASSUME text \in Seq(Char), NEW q \in 1 .. Len(text), NEW v, text[q] \in Quotes
  PROVE  \A p \in q + 1 .. End : InString(q, p) => RestIs(q, v, p, RestFunction(q, v)[p])
<1> DEFINE f == RestFunction(q, v)
           S == {p \in 1 .. End : f[p] \in Read /\ (p > q /\ InString(q, p) => RestIs(q, v, p, f[p]))}
<1>1. \A p \in 1 .. End : f[p] =
        IF Over(q, p) THEN OverValue(q, p) ELSE Extended(q, v, p, f[Further(q, p)])
  BY RestExists
<1> HIDE DEF f
<1>2. End \in Nat
  BY TextOK
<1>3. ASSUME NEW p \in 1 .. End, \A r \in p + 1 .. End : r \in S PROVE p \in S
  <2>1. CASE Over(q, p)
    <3>1. f[p] = OverValue(q, p) /\ f[p] \in Read
      BY <1>1, <2>1, OverOK
    <3>2. p > q /\ InString(q, p) => RestIs(q, v, p, f[p])
      <4> SUFFICES ASSUME p > q, InString(q, p)
                   PROVE  RestIs(q, v, p, OverValue(q, p))
        BY <3>1
      <4>1. p \in q + 1 .. End
        BY <1>2
      <4> QED  BY <2>1, <4>1, RestOver
    <3> QED  BY <3>1, <3>2
  <2>2. CASE ~Over(q, p)
    <3>1. PICK n : n = Further(q, p)
      OBVIOUS
    <3>2. n \in p + 1 .. End
      BY <2>2, <3>1, FurtherOK
    <3>3. PICK r : r = f[n]
      OBVIOUS
    <3>4. r \in Read /\ (n > q /\ InString(q, n) => RestIs(q, v, n, r))
      BY <1>3, <3>2, <3>3
    <3>5. f[p] = Extended(q, v, p, r)
      BY <1>1, <2>2, <3>1, <3>3
    <3>6. f[p] \in Read
      BY <2>2, <3>4, <3>5, MadeOK
    <3>7. p > q /\ InString(q, p) => RestIs(q, v, p, f[p])
      <4> SUFFICES ASSUME p > q, InString(q, p)
                   PROVE  RestIs(q, v, p, Extended(q, v, p, r))
        BY <3>5
      <4>1. p \in q + 1 .. End /\ n > q
        BY <1>2, <3>2
      <4>2. StringStep(q, p, n)
        BY <2>2, <3>1, <4>1, StringStepOK
      <4>3. RestIs(q, v, n, r)
        BY <3>4, <4>1, <4>2 DEF StringStep
      <4> QED  BY <2>2, <3>1, <3>4, <4>1, <4>3, RestContinues
    <3> QED  BY <3>6, <3>7
  <2> QED  BY <2>1, <2>2
<1>4. \A p \in 1 .. End : p \in S
  <2> HIDE DEF S
  <2> QED  BY <1>2, <1>3, DownInduction
<1>5. \A p \in q + 1 .. End : p \in 1 .. End /\ p > q
  BY <1>2
<1> QED  BY <1>4, <1>5 DEF f

LEMMA StringOpens ==
  ASSUME text \in Seq(Char), NEW q \in 1 .. Len(text), Mode[q] = "code", text[q] \in Quotes
  PROVE  InString(q, q + 1)
<1>1. q + 1 \in 1 .. End /\ (q + 1) - 1 = q
  BY TextOK
<1>2. Mode[q + 1] = ModeIn(q)
  <2>1. CASE text[q] = Quote
    BY <2>1, ModeOfCode DEF ModeIn
  <2>2. CASE text[q] # Quote
    <3>1. text[q] = "'"
      BY <2>2, QuoteFacts, Zenon DEF Apostrophe
    <3> QED  BY <2>2, <3>1, ModeOfCode DEF ModeIn
  <2> QED  BY <2>1, <2>2
<1>3. ~Removed(q, q + 1)
  <2>1. PICK m : m = LineStart(q + 1)
    OBVIOUS
  <2>2. m \in 1 .. q + 1 /\ (m = 1 \/ text[m - 1] = "nl")
    BY <1>1, <2>1, LineStartOK
  <2>3. text[q] # "nl"
    BY QuoteFacts
  <2>4. ~(m > q)
    <3> SUFFICES ASSUME m > q
                 PROVE  FALSE
      OBVIOUS
    <3>1. m = q + 1 /\ m # 1 /\ m - 1 = q
      BY <2>2
    <3> QED  BY <2>2, <2>3, <3>1
  <2> QED  BY <2>1, <2>4 DEF Removed
<1> QED  BY <1>2, <1>3 DEF InString

(* The value that the reference gives a string.                            *)
ValueFunction(t) == CHOOSE value : value =
  [p \in t.from .. t.to - 1 |->
     IF p = t.from THEN <<>>
     ELSE IF Kept(t, p, Mode) THEN Append(value[p - 1], text[p]) ELSE value[p - 1]]

LEMMA ValueExists ==
  ASSUME text \in Seq(Char), NEW t, NEW q \in 1 .. Len(text), NEW e \in q + 2 .. End,
         t.from = q, t.to = e - 1
  PROVE  /\ StringValue(t, Mode) = ValueFunction(t)[e - 2]
         /\ Values(ValueFunction(t), q, e) /\ ValueFunction(t)[q] = <<>>
<1> DEFINE Value(f, p) ==
             IF p = q THEN <<>> ELSE IF Keeps(q, p) THEN Append(f[p - 1], text[p]) ELSE f[p - 1]
           Upto(f, k) == f = [p \in q .. k |-> Value(f, p)] /\ \A p \in q .. k : f[p] \in Seq(Char)
           S == {k \in q .. e - 2 : \E f : Upto(f, k)}
<1>1. /\ End \in Nat /\ End = Len(text) + 1 /\ Len(text) \in Nat /\ e \in Nat /\ q \in Nat
      /\ t.to - 1 = e - 2 /\ e - 2 \in q .. e - 2
  BY TextOK
<1>2. \A p : Kept(t, p, Mode) <=> Keeps(q, p)
  BY RemovedIs DEF Kept, Keeps
<1>3. q \in S
  <2> DEFINE f == [p \in q .. q |-> <<>>]
  <2>1. \A p \in q .. q : p = q
    BY <1>1
  <2>2. <<>> \in Seq(Char)
    OBVIOUS
  <2>3. \A p \in q .. q : Value(f, p) = <<>> /\ f[p] \in Seq(Char)
    BY <2>1, <2>2
  <2>4. Upto(f, q)
    <3> HIDE DEF Value
    <3> QED  BY <2>3
  <2>5. \E g : Upto(g, q)
    <3> HIDE DEF Upto
    <3> QED  BY <2>4
  <2>6. q \in q .. e - 2
    BY <1>1
  <2> HIDE DEF Upto, f
  <2> QED  BY <2>5, <2>6
<1>4. ASSUME NEW k \in q .. (e - 2) - 1, k \in S
      PROVE  k + 1 \in S
  <2>1. PICK f : Upto(f, k)
    BY <1>4
  <2> DEFINE g == [p \in q .. k + 1 |-> IF p = k + 1 THEN Value(f, k + 1) ELSE f[p]]
  <2>2. \A p \in q .. k + 1 : g[p] = IF p = k + 1 THEN Value(f, k + 1) ELSE f[p]
    OBVIOUS
  <2>3. \A p \in q .. k : f[p] = Value(f, p) /\ f[p] \in Seq(Char)
    BY <2>1
  <2>4. DOMAIN g = q .. k + 1 /\ g = [p \in q .. k + 1 |-> g[p]]
    OBVIOUS
  <2> HIDE DEF g
  <2>5. \A p \in q .. k + 1 : Value(g, p) = Value(f, p)
    <3> SUFFICES ASSUME NEW p \in q .. k + 1, p # q
                 PROVE  g[p - 1] = f[p - 1]
      OBVIOUS
    <3>1. p - 1 \in q .. k + 1 /\ p - 1 # k + 1
      BY <1>1, <1>4
    <3> QED  BY <2>2, <3>1
  <2>6. \A p \in q .. k + 1 : p = k + 1 \/ p \in q .. k
    BY <1>1, <1>4
  <2>7. \A p \in q .. k + 1 : g[p] = Value(g, p)
    <3> HIDE DEF Value
    <3> QED  BY <2>2, <2>3, <2>5, <2>6
  <2>8. Value(f, k + 1) \in Seq(Char)
    <3>1. k \in q .. k /\ (k + 1) - 1 = k /\ k + 1 \in 1 .. Len(text)
      BY <1>1, <1>4
    <3>2. f[k] \in Seq(Char) /\ text[k + 1] \in Char
      BY <2>3, <3>1, TextOK
    <3>3. \A s \in Seq(Char), c \in Char : Append(s, c) \in Seq(Char)
      OBVIOUS
    <3>4. <<>> \in Seq(Char)
      OBVIOUS
    <3> QED  BY <3>1, <3>2, <3>3, <3>4
  <2>9. \A p \in q .. k + 1 : g[p] \in Seq(Char)
    <3> HIDE DEF Value
    <3> QED  BY <2>2, <2>3, <2>6, <2>8
  <2>10. Upto(g, k + 1)
    <3> HIDE DEF Value
    <3> QED  BY <2>4, <2>7, <2>9
  <2>11. \E h : Upto(h, k + 1)
    <3> HIDE DEF Upto
    <3> QED  BY <2>10
  <2>12. k + 1 \in q .. e - 2
    BY <1>1, <1>4
  <2> HIDE DEF Upto
  <2> QED  BY <2>11, <2>12
<1>5. e - 2 \in S
  <2> HIDE DEF S
  <2>1. PICK b \in Int : b = e - 2
    BY <1>1
  <2>2. \A k \in q .. b - 1 : k \in S => k + 1 \in S
    BY <1>4, <2>1
  <2>3. PICK a \in Int : a = q
    BY <1>1
  <2>4. \A k \in a .. b : k \in S
    <3>1. a \in S /\ \A k \in a .. b - 1 : k \in S => k + 1 \in S
      BY <1>3, <2>2, <2>3
    <3> QED  BY <3>1, UpInduction
  <2> QED  BY <1>1, <2>1, <2>3, <2>4
<1>6. PICK f : Upto(f, e - 2)
  BY <1>5
<1>7. f = [p \in t.from .. t.to - 1 |->
             IF p = t.from THEN <<>>
             ELSE IF Kept(t, p, Mode) THEN Append(f[p - 1], text[p]) ELSE f[p - 1]]
  BY <1>1, <1>2, <1>6
<1>8. ValueFunction(t) = [p \in t.from .. t.to - 1 |->
             IF p = t.from THEN <<>>
             ELSE IF Kept(t, p, Mode) THEN Append(ValueFunction(t)[p - 1], text[p])
             ELSE ValueFunction(t)[p - 1]]
  BY <1>7, Zenon DEF ValueFunction
<1> DEFINE V == ValueFunction(t)
<1>9. \A p \in q .. e - 2 : V[p] = Value(V, p)
  <2>1. \A p \in t.from .. t.to - 1 : V[p] =
             IF p = t.from THEN <<>>
             ELSE IF Kept(t, p, Mode) THEN Append(V[p - 1], text[p]) ELSE V[p - 1]
    BY <1>8, Zenon
  <2> HIDE DEF V
  <2> QED  BY <1>1, <1>2, <2>1
<1>10. StringValue(t, Mode) = V[e - 2]
  BY <1>1 DEF StringValue, ValueFunction
<1> HIDE DEF V
<1>11. V[q] = <<>>
  BY <1>1, <1>9
<1>12. \A p \in q .. e - 2 : V[p] \in Seq(Char)
  <2> DEFINE T == {p \in Int : V[p] \in Seq(Char)}
  <2>1. PICK b \in Int : b = e - 2
    BY <1>1
  <2>2. q \in T
    <3>1. <<>> \in Seq(Char)
      OBVIOUS
    <3>2. V[q] \in Seq(Char)
      BY <1>11, <3>1, Zenon
    <3>3. q \in Int
      BY <1>1
    <3> QED  BY <3>2, <3>3, Zenon
  <2>3. \A p \in q .. b - 1 : p \in T => p + 1 \in T
    <3> SUFFICES ASSUME NEW p \in q .. b - 1, p \in T
                 PROVE  p + 1 \in T
      OBVIOUS
    <3>1. p + 1 \in q .. e - 2 /\ p + 1 # q /\ (p + 1) - 1 = p /\ p + 1 \in 1 .. Len(text) /\ p + 1 \in Int
      BY <1>1, <2>1
    <3>2. V[p + 1] = IF Keeps(q, p + 1) THEN Append(V[p], text[p + 1]) ELSE V[p]
      BY <1>9, <3>1
    <3>3. \A s \in Seq(Char), c \in Char : Append(s, c) \in Seq(Char)
      OBVIOUS
    <3>4. text[p + 1] \in Char
      BY <3>1, TextOK
    <3> QED  BY <3>1, <3>2, <3>3, <3>4
  <2> HIDE DEF T
  <2>4. PICK a \in Int : a = q
    BY <1>1
  <2>5. \A p \in a .. b : p \in T
    <3>1. a \in T /\ \A k \in a .. b - 1 : k \in T => k + 1 \in T
      BY <2>2, <2>3, <2>4
    <3> QED  BY <3>1, UpInduction
  <2> QED  BY <2>1, <2>4, <2>5 DEF T
<1>13. Values(V, q, e)
  BY <1>9, <1>12 DEF Values
<1> QED  BY <1>10, <1>11, <1>13 DEF V

(* The errors for the illegal escapes of the string t.                     *)
EscapesFor(v, t, mode) == {Error(EscapeError(v), p) : p \in IllegalEscapes(t, mode)}

(* What begins with a quote: get_string reads the string that the          *)
(* reference takes for a token.                                            *)
LEMMA StringToken ==
  ASSUME text \in Seq(Char), NEW q \in Begins, text[q] \in Quotes, NEW v,
         NEW r, r = Quoted(q, v), NEW t, t = TokenAt(Mode, q)
  PROVE  /\ r.closed => /\ r.end \in q + 2 .. End /\ t.from = q /\ t.kind = "string"
                        /\ StringValue(t, Mode) = r.value
                        /\ EscapesFor(v, t, Mode) = Members(r.errs)
                        /\ RefAt(r.end) = ReadToken(RefAt(q), t, Mode) /\ Boundary(r.end)
         /\ ~r.closed => t.kind = "open" /\ RefRead = ReadToken(RefAt(q), t, Mode)
<1>1. /\ q \in 1 .. Len(text) /\ q \in 1 .. End /\ q + 1 \in 1 .. End /\ Mode[q] = "code"
      /\ Len(text) \in Nat /\ End = Len(text) + 1 /\ q + 1 \in q + 1 .. End /\ (q + 1) - 1 = q
      /\ ~InWord(Mode, q)
  BY BeginsOK, TextOK DEF InWord
<1>2. RestIs(q, v, q + 1, r) /\ r \in Read
  <2>1. r = RestFunction(q, v)[q + 1]
    BY QuotedIsRest
  <2>2. InString(q, q + 1)
    BY <1>1, StringOpens
  <2>3. RestIs(q, v, q + 1, RestFunction(q, v)[q + 1])
    BY <1>1, <2>2, RestHolds
  <2> QED  BY <1>1, <2>1, <2>3, QuotedOK
<1> DEFINE S == {p \in From(q + 1) : Mode[p] = "code"}
<1>3. S \subseteq From(q + 1) /\ LastOf(Mode, q) = FirstAt(S) - 1
  BY <1>1 DEF LastOf
<1>4. \A p \in S : Mode[p] = "code"
  OBVIOUS
<1>5. \A p \in 1 .. Len(text) : p >= q + 1 /\ Mode[p] = "code" => p \in S
  BY DEF From
<1> HIDE DEF S
<1>6. /\ t.from = q /\ t.to = LastOf(Mode, q)
      /\ t.kind = IF Mode[End] # "code" /\ t.to = Len(text) THEN "open" ELSE "string"
  BY <1>1 DEF TokenAt, KindOf
<1>7. RefAt(q + 1) = ReadToken(RefAt(q), t, Mode)
  BY RefMoves
<1>8. ASSUME r.closed
      PROVE  /\ r.end \in q + 2 .. End /\ t.from = q /\ t.kind = "string"
             /\ StringValue(t, Mode) = r.value
             /\ EscapesFor(v, t, Mode) = Members(r.errs)
             /\ RefAt(r.end) = ReadToken(RefAt(q), t, Mode) /\ Boundary(r.end)
  <2>1. PICK e : e = r.end
    OBVIOUS
  <2>2. /\ e \in (q + 1) + 1 .. End /\ Mode[e] = "code" /\ text[e - 1] = text[q]
        /\ \A i \in q + 1 .. e - 1 : Mode[i] # "code"
        /\ Members(r.errs) = EscapesIn(q, v, q + 1, e - 2)
        /\ \A V : Values(V, q, e) => V[e - 2] = V[(q + 1) - 1] \o r.value
    BY <1>2, <1>8, <2>1 DEF RestIs
  <2>3. e \in q + 2 .. End /\ e \in q + 1 .. End /\ e \in 1 .. End /\ e - 1 \in q + 1 .. e - 1
    BY <1>1, <2>2
  <2>4. FirstAt(S) = e
    <3>1. e = End \/ e \in S
      BY <1>1, <1>5, <2>2, <2>3
    <3>2. \A p \in q + 1 .. e - 1 : p \notin S
      BY <1>4, <2>2
    <3> QED  BY <1>1, <1>3, <2>3, <3>1, <3>2, FirstIs
  <2>5. t.to = e - 1 /\ t.kind = "string"
    <3>1. t.to = e - 1
      BY <1>3, <1>6, <2>4
    <3>2. t.to = Len(text) => Mode[End] = "code"
      BY <1>1, <2>2, <2>3, <3>1
    <3> QED  BY <1>6, <3>1, <3>2
  <2>6. StringValue(t, Mode) = r.value
    <3>1. /\ StringValue(t, Mode) = ValueFunction(t)[e - 2]
          /\ Values(ValueFunction(t), q, e) /\ ValueFunction(t)[q] = <<>>
      BY <1>1, <1>6, <2>3, <2>5, ValueExists
    <3>2. ValueFunction(t)[e - 2] = <<>> \o r.value
      BY <1>1, <2>2, <3>1
    <3>3. r.value \in Seq(Char)
      BY <1>2 DEF Read
    <3>4. <<>> \o r.value = r.value
      BY <3>3
    <3> QED  BY <3>1, <3>2, <3>4
  <2>7. EscapesFor(v, t, Mode) = Members(r.errs)
    <3>1. t.to - 1 = e - 2
      BY <2>3, <2>5, <1>1
    <3>2. \A p : p \in IllegalEscapes(t, Mode) <=> p \in {p2 \in q + 1 .. e - 2 : Illegal(q, p2)}
      BY <1>6, <3>1, Zenon DEF IllegalEscapes, Illegal, Quote, Backslash
    <3>3. IllegalEscapes(t, Mode) = {p2 \in q + 1 .. e - 2 : Illegal(q, p2)}
      BY <3>2, Zenon
    <3> QED  BY <2>2, <3>3 DEF EscapesIn, EscapesFor
  <2>8. RefAt(e) = RefAt(q + 1)
    <3>1. \A p \in q + 1 .. e - 1 : p \notin Begins
      BY <2>2 DEF Begins, TokenStarts, Plain
    <3> QED  BY <1>1, <2>3, <3>1, RefMoves
  <2>9. Boundary(e)
    BY <2>2, <2>3 DEF Boundary, CodeAt, InWord, Plain
  <2> QED  BY <1>6, <1>7, <2>1, <2>3, <2>5, <2>6, <2>7, <2>8, <2>9
<1>9. ASSUME ~r.closed
      PROVE  t.kind = "open" /\ RefRead = ReadToken(RefAt(q), t, Mode)
  <2>1. \A i \in q + 1 .. End : Mode[i] # "code"
    BY <1>2, <1>9 DEF RestIs
  <2>2. End \in q + 1 .. End /\ \A i \in q + 1 .. End - 1 : i \in q + 1 .. End
    BY <1>1
  <2>3. FirstAt(S) = End
    <3>1. \A p \in q + 1 .. End - 1 : p \notin S
      BY <1>4, <2>1, <2>2
    <3> QED  BY <1>1, <1>3, <2>2, <3>1, FirstIs
  <2>4. t.kind = "open"
    BY <1>1, <1>3, <1>6, <2>1, <2>2, <2>3
  <2>5. RefAt(End) = RefAt(q + 1)
    <3>1. \A p \in q + 1 .. End - 1 : p \notin Begins
      BY <2>1, <2>2 DEF Begins, TokenStarts, Plain
    <3> QED  BY <1>1, <2>2, <3>1, RefMoves
  <2> QED  BY <1>7, <2>4, <2>5, RefMoves
<1> QED  BY <1>8, <1>9

-----------------------------------------------------------------------------
(* The text never changes, nor does what the reference says of it.         *)
LEMMA SameTokens ==
  ASSUME text' = text, NEW S, NEW p, NEW m
  PROVE  /\ FirstAt(S)' = FirstAt(S) /\ At(p)' = At(p) /\ Plain(m, p)' = Plain(m, p)
         /\ InWord(m, p)' = InWord(m, p) /\ TokenAt(m, p)' = TokenAt(m, p)
<1>1. FirstAt(S)' = FirstAt(S) /\ At(p)' = At(p)
  BY DEF FirstAt, At, End
<1>2. LastOf(m, p)' = LastOf(m, p) /\ InWord(m, p)' = InWord(m, p) /\ Plain(m, p)' = Plain(m, p)
  BY DEF LastOf, From, FirstAt, End, InWord, Plain, White, LineComment, BlockComment, At
<1>3. KindOf(m, p)' = KindOf(m, p)
  BY <1>2 DEF KindOf, InWord, Plain, White, LineComment, BlockComment, At, End
<1>4. TokenAt(m, p)' = TokenAt(m, p)
  BY <1>2, <1>3 DEF TokenAt
<1> QED  BY <1>1, <1>2, <1>4

LEMMA SameMode ==
  ASSUME text' = text
  PROVE  Mode' = Mode /\ Begins' = Begins /\ Tokens(Mode)' = Tokens(Mode)
<1>1. Mode' = Mode
  BY DEF Mode, ModeAfter, ModeInCode, ModeInDouble, LineComment, BlockComment, At, End
<1>2. ASSUME NEW m
      PROVE  TokenStarts(m)' = TokenStarts(m) /\ Tokens(m)' = Tokens(m)
  <2>1. \A p : /\ Plain(m, p)' = Plain(m, p) /\ InWord(m, p)' = InWord(m, p)
               /\ TokenAt(m, p)' = TokenAt(m, p)
    BY SameTokens
  <2>2. TokenStarts(m)' = TokenStarts(m)
    BY <2>1 DEF TokenStarts
  <2> QED  BY <2>1, <2>2 DEF Tokens, Before
<1> QED  BY <1>1, <1>2 DEF Begins

LEMMA SameValue ==
  ASSUME text' = text, NEW t, NEW m
  PROVE  StringValue(t, m)' = StringValue(t, m) /\ IllegalEscapes(t, m)' = IllegalEscapes(t, m)
<1>1. ASSUME NEW p
      PROVE  Kept(t, p, m)' = Kept(t, p, m)
  BY DEF Kept, InIndent, LineStart, Column
<1>2. StringValue(t, m)' = StringValue(t, m)
  BY <1>1 DEF StringValue
<1>3. IllegalEscapes(t, m)' = IllegalEscapes(t, m)
  BY DEF IllegalEscapes
<1> QED  BY <1>2, <1>3

LEMMA SameReading ==
  ASSUME text' = text, NEW r, NEW t, NEW m
  PROVE  ReadToken(r, t, m)' = ReadToken(r, t, m)
<1>1. StringValue(t, m)' = StringValue(t, m) /\ IllegalEscapes(t, m)' = IllegalEscapes(t, m)
  BY SameValue
<1>2. ReadString(r, t, m)' = ReadString(r, t, m)
  BY <1>1 DEF ReadString, WithLastArg, LastArg, VersionOf, AllBut1, Is11, Error, EscapeError
<1>3. WordOf(t)' = WordOf(t)
  BY DEF WordOf
<1>4. IsKeyword(t)' = IsKeyword(t)
  BY <1>3 DEF IsKeyword, Separator, White, LineComment, BlockComment, At, End, Ident, KeywordOf
<1>5. NewOf(r, t)' = NewOf(r, t)
  BY <1>3 DEF NewOf, KeywordOf
<1> QED  BY <1>2, <1>3, <1>4, <1>5 DEF ReadToken, WithLastArg

LEMMA SameReference ==
  ASSUME text' = text, NEW p
  PROVE  /\ End' = End /\ At(p)' = At(p) /\ Begins' = Begins /\ Boundary(p)' = Boundary(p)
         /\ RefAt(p)' = RefAt(p) /\ RefRead' = RefRead
<1>1. End' = End /\ Mode' = Mode /\ Begins' = Begins /\ Tokens(Mode)' = Tokens(Mode)
  BY SameMode DEF End
<1>2. \A r, t, m : ReadToken(r, t, m)' = ReadToken(r, t, m)
  BY SameReading
<1>3. RefFunction' = RefFunction
  BY <1>1, <1>2 DEF RefFunction, RefStart
<1>4. RefRead' = RefRead
  BY <1>1, <1>2 DEF RefRead, RefStart
<1>5. Count(p)' = Count(p)
  BY <1>1 DEF Count, Before
<1>6. RefAt(p)' = RefAt(p)
  BY <1>3, <1>5 DEF RefAt
<1>7. Boundary(p)' = Boundary(p)
  <2>1. \A q, m : InWord(m, q)' = InWord(m, q)
    BY SameTokens
  <2> QED  BY <1>1, <2>1 DEF Boundary, CodeAt
<1>8. At(p)' = At(p)
  BY SameTokens
<1> QED  BY <1>1, <1>4, <1>6, <1>7, <1>8

-----------------------------------------------------------------------------
(* What one token does to the automaton. Its states and the kinds of       *)
(* tokens have names here, which the proofs expand in these lemmas only.   *)
Ref(state, k, statements, escapes) ==
  [state |-> state, stack |-> k, tree |-> statements, escapes |-> escapes]
AtKeyword == "keyword"
AtArgument == "argument"
AtWord == "word"
AtString == "string"
AtPlus == "plus"
AtEnd == "end"
AtError == "error"
AtGarbage == "garbage"
Semicolon == ";"
OpenBrace == "{"
CloseBrace == "}"
States == {AtKeyword, AtArgument, AtWord, AtString, AtPlus, AtEnd, AtGarbage}
AfterEnd(k) == IF k = <<>> THEN AtEnd ELSE AtKeyword
AfterClose(k) == IF Len(k) = 1 THEN AtEnd ELSE AtKeyword
Shaped(r) == r = Ref(r.state, r.stack, r.tree, r.escapes)
Bad == RefRead.state \notin {AtEnd, AtGarbage}
Kind(t, kind) == t.kind = kind
Plus(t) == t.kind = AtWord /\ text[t.from] = "+" /\ t.from = t.to

LEMMA RefFields ==
  ASSUME NEW st, NEW k, NEW T, NEW E, NEW r, r = Ref(st, k, T, E)
  PROVE  r.state = st /\ r.stack = k /\ r.tree = T /\ r.escapes = E /\ Shaped(r)
<1>1. r.state = st /\ r.stack = k /\ r.tree = T /\ r.escapes = E
  BY DEF Ref
<1> QED  BY <1>1 DEF Shaped

LEMMA ReadsKeyword ==
  ASSUME NEW k, NEW T, NEW E, NEW t, NEW mode,
         NEW r, r = Ref(AtKeyword, k, T, E),
         IsKeyword(t)
  PROVE  ReadToken(r, t, mode) = Ref(AtArgument, k, Append(T, NewOf(r, t)), E)
<1>1. r.state = "keyword" /\ r.stack = k /\ r.tree = T /\ r.escapes = E
  BY DEF Ref, AtKeyword, AtArgument
<1>2. t.kind = "word"
  BY DEF IsKeyword
<1>3. ReadToken(r, t, mode) = [r EXCEPT !.state = "argument", !.tree = Append(@, NewOf(r, t))]
  BY <1>1, <1>2 DEF ReadToken, AtKeyword, AtArgument
<1> QED  BY <1>1, <1>3 DEF Ref, AtKeyword, AtArgument

LEMMA ReadsClose ==
  ASSUME NEW k, NEW T, NEW E, NEW t, NEW mode,
         NEW r, r = Ref(AtKeyword, k, T, E),
         Kind(t, CloseBrace), k # <<>>
  PROVE  ReadToken(r, t, mode) = Ref(AfterClose(k), Tail(k), T, E)
<1>1. r.state = "keyword" /\ r.stack = k /\ r.tree = T /\ r.escapes = E
  BY DEF Ref, AtKeyword, AtEnd, CloseBrace, AfterClose
<1>2. ~IsKeyword(t)
  BY DEF IsKeyword, Kind, AtKeyword, AtEnd, CloseBrace, AfterClose
<1>3. ReadToken(r, t, mode) =
        [r EXCEPT !.stack = Tail(@), !.state = IF Len(r.stack) = 1 THEN "end" ELSE "keyword"]
  BY <1>1, <1>2 DEF ReadToken, Kind, AtKeyword, AtEnd, CloseBrace, AfterClose
<1> QED  BY <1>1, <1>3 DEF Ref, AtKeyword, AtEnd, CloseBrace, AfterClose

LEMMA ReadsNoKeyword ==
  ASSUME NEW k, NEW T, NEW E, NEW t, NEW mode,
         NEW r, r = Ref(AtKeyword, k, T, E),
         ~IsKeyword(t), ~Kind(t, CloseBrace) \/ k = <<>>
  PROVE  ReadToken(r, t, mode) = Ref(AtError, k, T, E)
<1>1. r.state = "keyword" /\ r.stack = k /\ r.tree = T /\ r.escapes = E
  BY DEF Ref, AtKeyword, AtError, CloseBrace
<1>2. ReadToken(r, t, mode) = [r EXCEPT !.state = "error"]
  BY <1>1 DEF ReadToken, Kind, AtKeyword, AtError, CloseBrace
<1> QED  BY <1>1, <1>2 DEF Ref, AtKeyword, AtError, CloseBrace

LEMMA ReadsWord ==
  ASSUME NEW k, NEW T, NEW E, NEW t, NEW mode,
         NEW r, r = Ref(AtArgument, k, T, E),
         Kind(t, AtWord)
  PROVE  ReadToken(r, t, mode) = Ref(AtWord, k, WithLastArg(r, WordOf(t)), E)
<1>1. r.state = "argument" /\ r.stack = k /\ r.tree = T /\ r.escapes = E
  BY DEF Ref, AtArgument, AtWord
<1>2. ReadToken(r, t, mode) = [r EXCEPT !.state = "word", !.tree = WithLastArg(r, WordOf(t))]
  BY <1>1 DEF ReadToken, Kind, AtArgument, AtWord
<1> QED  BY <1>1, <1>2 DEF Ref, AtArgument, AtWord

LEMMA ReadsString ==
  ASSUME NEW k, NEW T, NEW E, NEW t, NEW mode,
         NEW r, r = Ref(AtArgument, k, T, E) \/ r = Ref(AtPlus, k, T, E),
         Kind(t, AtString)
  PROVE  ReadToken(r, t, mode) = ReadString(r, t, mode)
<1>1. r.state \in {"argument", "plus"} /\ r.stack = k /\ r.tree = T /\ r.escapes = E
  BY DEF Ref, AtArgument, AtString, AtPlus
<1> QED  BY <1>1 DEF ReadToken, Kind, AtArgument, AtString, AtPlus

LEMMA ReadsPlus ==
  ASSUME NEW k, NEW T, NEW E, NEW t, NEW mode,
         NEW r, r = Ref(AtString, k, T, E),
         Plus(t)
  PROVE  ReadToken(r, t, mode) = Ref(AtPlus, k, T, E)
<1>1. r.state = "string" /\ r.stack = k /\ r.tree = T /\ r.escapes = E
  BY DEF Ref, AtString, AtPlus
<1>2. ReadToken(r, t, mode) = [r EXCEPT !.state = "plus"]
  BY <1>1 DEF ReadToken, Plus, AtString, AtPlus, AtWord
<1> QED  BY <1>1, <1>2 DEF Ref, AtString, AtPlus

LEMMA ReadsEnd ==
  ASSUME NEW k, NEW T, NEW E, NEW t, NEW mode,
         NEW r, r = Ref(AtArgument, k, T, E) \/ r = Ref(AtWord, k, T, E) \/ r = Ref(AtString, k, T, E),
         Kind(t, Semicolon)
  PROVE  ReadToken(r, t, mode) = Ref(AfterEnd(k), k, T, E)
<1>0. ASSUME NEW st, r = Ref(st, k, T, E)
      PROVE  r.state = st /\ r.stack = k /\ r.tree = T /\ r.escapes = E
  BY <1>0 DEF Ref
<1>1. r.state \in {AtArgument, AtWord, AtString} /\ r.stack = k /\ r.tree = T /\ r.escapes = E
  <2>1. CASE r = Ref(AtArgument, k, T, E)
    BY <1>0, <2>1
  <2>2. CASE r = Ref(AtWord, k, T, E)
    BY <1>0, <2>2
  <2>3. CASE r = Ref(AtString, k, T, E)
    BY <1>0, <2>3
  <2> QED  BY <2>1, <2>2, <2>3
<1>2. ReadToken(r, t, mode) = [r EXCEPT !.state = IF r.stack = <<>> THEN "end" ELSE "keyword"]
  BY <1>1 DEF ReadToken, Kind, AtKeyword, AtArgument, AtWord, AtString, AtEnd, Semicolon, AfterEnd
<1> QED  BY <1>1, <1>2 DEF Ref, AtKeyword, AtArgument, AtWord, AtString, AtEnd, Semicolon, AfterEnd

LEMMA ReadsOpen ==
  ASSUME NEW k, NEW T, NEW E, NEW t, NEW mode,
         NEW r, r = Ref(AtArgument, k, T, E) \/ r = Ref(AtWord, k, T, E) \/ r = Ref(AtString, k, T, E),
         Kind(t, OpenBrace)
  PROVE  ReadToken(r, t, mode) = Ref(AtKeyword, <<Len(T)>> \o k, T, E)
<1>0. ASSUME NEW st, r = Ref(st, k, T, E)
      PROVE  r.state = st /\ r.stack = k /\ r.tree = T /\ r.escapes = E
  BY <1>0 DEF Ref
<1>1. r.state \in {AtArgument, AtWord, AtString} /\ r.stack = k /\ r.tree = T /\ r.escapes = E
  <2>1. CASE r = Ref(AtArgument, k, T, E)
    BY <1>0, <2>1
  <2>2. CASE r = Ref(AtWord, k, T, E)
    BY <1>0, <2>2
  <2>3. CASE r = Ref(AtString, k, T, E)
    BY <1>0, <2>3
  <2> QED  BY <2>1, <2>2, <2>3
<1>2. ReadToken(r, t, mode) = [r EXCEPT !.state = "keyword", !.stack = <<Len(r.tree)>> \o @]
  BY <1>1 DEF ReadToken, Kind, AtKeyword, AtArgument, AtWord, AtString, OpenBrace
<1> QED  BY <1>1, <1>2 DEF Ref, AtKeyword, AtArgument, AtWord, AtString, OpenBrace

LEMMA ReadsMore ==
  ASSUME NEW k, NEW T, NEW E, NEW t, NEW mode,
         NEW r, r = Ref(AtEnd, k, T, E)
  PROVE  ReadToken(r, t, mode) = Ref(AtGarbage, k, T, E)
<1>1. r.state = "end" /\ r.stack = k /\ r.tree = T /\ r.escapes = E
  BY DEF Ref, AtEnd, AtGarbage
<1>2. ReadToken(r, t, mode) = [r EXCEPT !.state = "garbage"]
  BY <1>1 DEF ReadToken, AtEnd, AtGarbage
<1> QED  BY <1>1, <1>2 DEF Ref, AtEnd, AtGarbage

LEMMA ReadsGarbage ==
  ASSUME NEW k, NEW T, NEW E, NEW t, NEW mode,
         NEW r, r = Ref(AtGarbage, k, T, E)
  PROVE  ReadToken(r, t, mode) = r
<1>1. r.state = "garbage" /\ r.stack = k /\ r.tree = T /\ r.escapes = E
  BY DEF Ref, AtGarbage
<1> QED  BY <1>1 DEF ReadToken, AtGarbage

LEMMA ReadsNoArgument ==
  ASSUME NEW k, NEW T, NEW E, NEW t, NEW mode,
         NEW r, r = Ref(AtArgument, k, T, E),
         ~Kind(t, AtWord), ~Kind(t, AtString), ~Kind(t, Semicolon), ~Kind(t, OpenBrace)
  PROVE  ReadToken(r, t, mode) = Ref(AtError, k, T, E)
<1>1. r.state = "argument" /\ r.stack = k /\ r.tree = T /\ r.escapes = E
  BY DEF Ref, AtArgument, AtWord, AtString, AtError, Semicolon, OpenBrace
<1>2. ReadToken(r, t, mode) = [r EXCEPT !.state = "error"]
  BY <1>1 DEF ReadToken, Kind, AtArgument, AtWord, AtString, AtError, Semicolon, OpenBrace
<1> QED  BY <1>1, <1>2 DEF Ref, AtArgument, AtWord, AtString, AtError, Semicolon, OpenBrace

LEMMA ReadsNoString ==
  ASSUME NEW k, NEW T, NEW E, NEW t, NEW mode,
         NEW r, r = Ref(AtPlus, k, T, E),
         ~Kind(t, AtString)
  PROVE  ReadToken(r, t, mode) = Ref(AtError, k, T, E)
<1>1. r.state = "plus" /\ r.stack = k /\ r.tree = T /\ r.escapes = E
  BY DEF Ref, AtString, AtPlus, AtError
<1>2. ReadToken(r, t, mode) = [r EXCEPT !.state = "error"]
  BY <1>1 DEF ReadToken, Kind, AtString, AtPlus, AtError
<1> QED  BY <1>1, <1>2 DEF Ref, AtString, AtPlus, AtError

LEMMA ReadsAfterWord ==
  ASSUME NEW k, NEW T, NEW E, NEW t, NEW mode,
         NEW r, r = Ref(AtWord, k, T, E),
         ~Kind(t, Semicolon), ~Kind(t, OpenBrace)
  PROVE  ReadToken(r, t, mode) = Ref(AtError, k, T, E)
<1>1. r.state = "word" /\ r.stack = k /\ r.tree = T /\ r.escapes = E
  BY DEF Ref, AtWord, AtError, Semicolon, OpenBrace
<1>2. ReadToken(r, t, mode) = [r EXCEPT !.state = "error"]
  BY <1>1 DEF ReadToken, Kind, AtWord, AtError, Semicolon, OpenBrace
<1> QED  BY <1>1, <1>2 DEF Ref, AtWord, AtError, Semicolon, OpenBrace

LEMMA ReadsAfterString ==
  ASSUME NEW k, NEW T, NEW E, NEW t, NEW mode,
         NEW r, r = Ref(AtString, k, T, E),
         ~Kind(t, Semicolon), ~Kind(t, OpenBrace), ~Plus(t)
  PROVE  ReadToken(r, t, mode) = Ref(AtError, k, T, E)
<1>1. r.state = "string" /\ r.stack = k /\ r.tree = T /\ r.escapes = E
  BY DEF Ref, AtString, AtError, Semicolon, OpenBrace
<1>2. ReadToken(r, t, mode) = [r EXCEPT !.state = "error"]
  BY <1>1 DEF ReadToken, Kind, Plus, AtString, AtError, Semicolon, OpenBrace, AtWord
<1> QED  BY <1>1, <1>2 DEF Ref, AtString, AtError, Semicolon, OpenBrace

LEMMA ReadsError ==
  ASSUME NEW k, NEW T, NEW E, NEW t, NEW mode,
         NEW r, r = Ref(AtError, k, T, E)
  PROVE  ReadToken(r, t, mode) = Ref(AtError, k, T, E)
<1>1. r.state = "error" /\ r.stack = k /\ r.tree = T /\ r.escapes = E
  BY DEF Ref, AtError
<1>2. ReadToken(r, t, mode) = [r EXCEPT !.state = "error"]
  BY <1>1 DEF ReadToken, AtError
<1> QED  BY <1>1, <1>2 DEF Ref, AtError

EscapesOf(T, t, mode) == EscapesFor(VersionOf(AllBut1(T)), t, mode)
Lengthened(r, t, mode) ==
  WithLastArg(r, (IF LastArg(r) = None THEN <<>> ELSE LastArg(r)) \o StringValue(t, mode))

LEMMA ReadStringIs ==
  ASSUME NEW st, NEW k, NEW T, NEW E, NEW t, NEW mode, NEW r, r = Ref(st, k, T, E)
  PROVE  ReadString(r, t, mode) = Ref(AtString, k, Lengthened(r, t, mode), E \cup EscapesOf(T, t, mode))
<1>1. r.state = st /\ r.stack = k /\ r.tree = T /\ r.escapes = E
  BY DEF Ref
<1>2. PICK tt, ee :
        tt = Lengthened(r, t, mode) /\ ee = E \cup EscapesOf(T, t, mode)
  OBVIOUS
<1>3. ReadString(r, t, mode) = [r EXCEPT !.state = AtString, !.tree = tt, !.escapes = ee]
  BY <1>1, <1>2 DEF ReadString, AtString, Lengthened, EscapesOf, EscapesFor
<1>4. PICK s : s = [r EXCEPT !.state = AtString]
  OBVIOUS
<1>5. s = Ref(AtString, k, T, E)
  BY <1>4 DEF Ref
<1>6. PICK u : u = [s EXCEPT !.tree = tt]
  OBVIOUS
<1>7. u = Ref(AtString, k, tt, E)
  BY <1>5, <1>6 DEF Ref
<1>8. [u EXCEPT !.escapes = ee] = Ref(AtString, k, tt, ee)
  BY <1>7 DEF Ref
<1>9. [r EXCEPT !.state = AtString, !.tree = tt, !.escapes = ee] = [u EXCEPT !.escapes = ee]
  BY <1>4, <1>6
<1> QED  BY <1>2, <1>3, <1>8, <1>9

LEMMA RefShaped == \A st, k, T, E : Shaped(Ref(st, k, T, E))
BY RefFields

LEMMA ReadTokenShaped ==
  ASSUME NEW r, Shaped(r), NEW t, NEW mode
  PROVE  Shaped(ReadToken(r, t, mode))
<1>1. PICK k, T, E : r = Ref(r.state, k, T, E)
  BY DEF Shaped
<1>3. CASE r.state = AtKeyword
  <2>0. r = Ref(AtKeyword, k, T, E)
    BY <1>1, <1>3
  <2>1. CASE IsKeyword(t)
    <3>1. ReadToken(r, t, mode) = Ref(AtArgument, k, Append(T, NewOf(r, t)), E)
      BY <2>0, <2>1, ReadsKeyword
    <3> QED  BY <3>1, RefShaped
  <2>2. CASE Kind(t, CloseBrace) /\ k # <<>>
    <3>1. ReadToken(r, t, mode) = Ref(AfterClose(k), Tail(k), T, E)
      BY <2>0, <2>2, ReadsClose
    <3> QED  BY <3>1, RefShaped
  <2>3. CASE ~IsKeyword(t) /\ (~Kind(t, CloseBrace) \/ k = <<>>)
    <3>1. ReadToken(r, t, mode) = Ref(AtError, k, T, E)
      BY <2>0, <2>3, ReadsNoKeyword
    <3> QED  BY <3>1, RefShaped
  <2> QED  BY <2>1, <2>2, <2>3
<1>4. CASE r.state \in {AtArgument, AtPlus} /\ Kind(t, AtString)
  <2>1. ReadToken(r, t, mode) = ReadString(r, t, mode)
    <3>1. CASE r.state = AtArgument
      BY <1>1, <1>4, <3>1, ReadsString
    <3>2. CASE r.state = AtPlus
      BY <1>1, <1>4, <3>2, ReadsString
    <3> QED  BY <1>4, <3>1, <3>2
  <2>2. Shaped(ReadString(r, t, mode))
    <3>1. ReadString(r, t, mode) = Ref(AtString, k, Lengthened(r, t, mode), E \cup EscapesOf(T, t, mode))
      BY <1>1, ReadStringIs
    <3> QED  BY <3>1, RefShaped
  <2> QED  BY <2>1, <2>2
<1>5. CASE r.state = AtArgument /\ ~Kind(t, AtString)
  <2>0. r = Ref(AtArgument, k, T, E)
    BY <1>1, <1>5
  <2>1. CASE Kind(t, AtWord)
    <3>1. ReadToken(r, t, mode) = Ref(AtWord, k, WithLastArg(r, WordOf(t)), E)
      BY <2>0, <2>1, ReadsWord
    <3> QED  BY <3>1, RefShaped
  <2>2. CASE Kind(t, Semicolon)
    <3>1. ReadToken(r, t, mode) = Ref(AfterEnd(k), k, T, E)
      BY <2>0, <2>2, ReadsEnd
    <3> QED  BY <3>1, RefShaped
  <2>3. CASE Kind(t, OpenBrace)
    <3>1. ReadToken(r, t, mode) = Ref(AtKeyword, <<Len(T)>> \o k, T, E)
      BY <2>0, <2>3, ReadsOpen
    <3> QED  BY <3>1, RefShaped
  <2>4. CASE ~Kind(t, AtWord) /\ ~Kind(t, Semicolon) /\ ~Kind(t, OpenBrace)
    <3>1. ReadToken(r, t, mode) = Ref(AtError, k, T, E)
      BY <1>5, <2>0, <2>4, ReadsNoArgument
    <3> QED  BY <3>1, RefShaped
  <2> QED  BY <2>1, <2>2, <2>3, <2>4
<1>6. CASE r.state = AtPlus /\ ~Kind(t, AtString)
  <2>1. r = Ref(AtPlus, k, T, E)
    BY <1>1, <1>6
  <2>2. ReadToken(r, t, mode) = Ref(AtError, k, T, E)
    BY <1>6, <2>1, ReadsNoString
  <2> QED  BY <2>2, RefShaped
<1>7. CASE r.state = AtWord
  <2>0. r = Ref(AtWord, k, T, E)
    BY <1>1, <1>7
  <2>1. CASE Kind(t, Semicolon)
    <3>1. ReadToken(r, t, mode) = Ref(AfterEnd(k), k, T, E)
      BY <2>0, <2>1, ReadsEnd
    <3> QED  BY <3>1, RefShaped
  <2>2. CASE Kind(t, OpenBrace)
    <3>1. ReadToken(r, t, mode) = Ref(AtKeyword, <<Len(T)>> \o k, T, E)
      BY <2>0, <2>2, ReadsOpen
    <3> QED  BY <3>1, RefShaped
  <2>3. CASE ~Kind(t, Semicolon) /\ ~Kind(t, OpenBrace)
    <3>1. ReadToken(r, t, mode) = Ref(AtError, k, T, E)
      BY <2>0, <2>3, ReadsAfterWord
    <3> QED  BY <3>1, RefShaped
  <2> QED  BY <2>1, <2>2, <2>3
<1>8. CASE r.state = AtString
  <2>0. r = Ref(AtString, k, T, E)
    BY <1>1, <1>8
  <2>1. CASE Kind(t, Semicolon)
    <3>1. ReadToken(r, t, mode) = Ref(AfterEnd(k), k, T, E)
      BY <2>0, <2>1, ReadsEnd
    <3> QED  BY <3>1, RefShaped
  <2>2. CASE Kind(t, OpenBrace)
    <3>1. ReadToken(r, t, mode) = Ref(AtKeyword, <<Len(T)>> \o k, T, E)
      BY <2>0, <2>2, ReadsOpen
    <3> QED  BY <3>1, RefShaped
  <2>3. CASE Plus(t)
    <3>1. ReadToken(r, t, mode) = Ref(AtPlus, k, T, E)
      BY <2>0, <2>3, ReadsPlus
    <3> QED  BY <3>1, RefShaped
  <2>4. CASE ~Kind(t, Semicolon) /\ ~Kind(t, OpenBrace) /\ ~Plus(t)
    <3>1. ReadToken(r, t, mode) = Ref(AtError, k, T, E)
      BY <2>0, <2>4, ReadsAfterString
    <3> QED  BY <3>1, RefShaped
  <2> QED  BY <2>1, <2>2, <2>3, <2>4
<1>9. CASE r.state = AtEnd
  <2>1. r = Ref(AtEnd, k, T, E)
    BY <1>1, <1>9
  <2>2. ReadToken(r, t, mode) = Ref(AtGarbage, k, T, E)
    BY <2>1, ReadsMore
  <2> QED  BY <2>2, RefShaped
<1>10. CASE r.state = AtGarbage
  <2>1. r = Ref(AtGarbage, k, T, E)
    BY <1>1, <1>10
  <2>2. ReadToken(r, t, mode) = r
    BY <2>1, ReadsGarbage
  <2> QED  BY <2>2
<1>11. CASE r.state \notin States
  <2>1. ReadToken(r, t, mode) = [r EXCEPT !.state = AtError]
    BY <1>11 DEF ReadToken, States, AtKeyword, AtArgument, AtWord, AtString, AtPlus, AtEnd, AtGarbage, AtError
  <2> QED  BY <1>1, <2>1 DEF Ref, Shaped
<1> QED  BY <1>3, <1>4, <1>5, <1>6, <1>7, <1>8, <1>9, <1>10, <1>11 DEF States

LEMMA RefNext ==
  ASSUME text \in Seq(Char), NEW p \in 1 .. Len(text)
  PROVE  RefAt(p + 1) = IF p \in Begins THEN ReadToken(RefAt(p), TokenAt(Mode, p), Mode) ELSE RefAt(p)
<1>1. p \in 1 .. End /\ p + 1 \in p .. End /\ \A r \in p .. (p + 1) - 1 : r = p
  BY TextOK
<1> QED  BY <1>1, RefMoves

LEMMA AlwaysShaped ==
  ASSUME text \in Seq(Char)
  PROVE  \A p \in 1 .. End : Shaped(RefAt(p))
<1> DEFINE S == {p \in Int : Shaped(RefAt(p))}
<1>1. Len(text) \in Nat /\ End = Len(text) + 1
  BY TextOK
<1>2. PICK a \in Int, b \in Int : a = 1 /\ b = End
  BY <1>1
<1>3. a \in S
  BY <1>2, RefMoves, RefFields DEF RefStart, Ref, AtKeyword
<1>4. \A p \in a .. b - 1 : p \in S => p + 1 \in S
  <2> SUFFICES ASSUME NEW p \in a .. b - 1, p \in S
               PROVE  p + 1 \in S
    OBVIOUS
  <2>1. p \in 1 .. Len(text) /\ p + 1 \in Int /\ Shaped(RefAt(p))
    BY <1>1, <1>2
  <2>2. Shaped(RefAt(p + 1))
    BY <2>1, RefNext, ReadTokenShaped
  <2> QED  BY <2>1, <2>2
<1> HIDE DEF S
<1>5. \A p \in a .. b : p \in S
  BY <1>3, <1>4, UpInduction
<1> QED  BY <1>2, <1>5 DEF S

(* After an error, and after what follows the module, nothing matters.     *)
LEMMA ErrorStays ==
  ASSUME text \in Seq(Char), NEW p \in 1 .. End, RefAt(p).state = AtError
  PROVE  Bad
<1> DEFINE S == {q \in Int : RefAt(q).state = AtError}
<1>1. Len(text) \in Nat /\ End = Len(text) + 1
  BY TextOK
<1>2. PICK a \in Int, b \in Int : a = p /\ b = End
  BY <1>1
<1>3. a \in S
  BY <1>2
<1>4. \A q \in a .. b - 1 : q \in S => q + 1 \in S
  <2> SUFFICES ASSUME NEW q \in a .. b - 1, q \in S
               PROVE  q + 1 \in S
    OBVIOUS
  <2>1. q \in 1 .. Len(text) /\ q + 1 \in Int /\ RefAt(q).state = AtError /\ q \in 1 .. End
    BY <1>1, <1>2
  <2>2. PICK k, T, E : RefAt(q) = Ref(AtError, k, T, E)
    BY <2>1, AlwaysShaped DEF Shaped
  <2>3. ReadToken(RefAt(q), TokenAt(Mode, q), Mode) = Ref(AtError, k, T, E)
    BY <2>2, ReadsError
  <2>4. RefAt(q + 1).state = AtError
    BY <2>1, <2>2, <2>3, RefNext, RefFields
  <2> QED  BY <2>1, <2>4
<1> HIDE DEF S
<1>5. b \in S
  <2>1. \A q \in a .. b : q \in S
    BY <1>3, <1>4, UpInduction
  <2> QED  BY <1>2, <2>1
<1>6. RefRead.state = AtError
  BY <1>2, <1>5, RefMoves DEF S
<1> QED  BY <1>6 DEF Bad, AtError, AtEnd, AtGarbage

LEMMA GarbageStays ==
  ASSUME text \in Seq(Char), NEW p \in 1 .. End, RefAt(p).state = AtGarbage
  PROVE  RefRead = RefAt(p)
<1> DEFINE S == {q \in Int : RefAt(q) = RefAt(p)}
<1>1. Len(text) \in Nat /\ End = Len(text) + 1
  BY TextOK
<1>2. PICK a \in Int, b \in Int : a = p /\ b = End
  BY <1>1
<1>3. a \in S
  BY <1>2
<1>4. \A q \in a .. b - 1 : q \in S => q + 1 \in S
  <2> SUFFICES ASSUME NEW q \in a .. b - 1, q \in S
               PROVE  q + 1 \in S
    OBVIOUS
  <2>1. q \in 1 .. Len(text) /\ q + 1 \in Int /\ RefAt(q) = RefAt(p)
    BY <1>1, <1>2
  <2>2. PICK k, T, E : RefAt(p) = Ref(AtGarbage, k, T, E)
    BY AlwaysShaped DEF Shaped
  <2>3. ReadToken(RefAt(q), TokenAt(Mode, q), Mode) = RefAt(p)
    BY <2>1, <2>2, ReadsGarbage
  <2>4. RefAt(q + 1) = RefAt(p)
    BY <2>1, <2>3, RefNext
  <2> QED  BY <2>1, <2>4
<1> HIDE DEF S
<1>5. b \in S
  <2>1. \A q \in a .. b : q \in S
    BY <1>3, <1>4, UpInduction
  <2> QED  BY <1>2, <2>1
<1> QED  BY <1>2, <1>5, RefMoves DEF S

(* The last statement, when a part of its argument has been read.          *)
More(s, w) == [s EXCEPT !.arg = (IF s.arg = None THEN <<>> ELSE s.arg) \o w]

LEMMA MoreOK ==
  ASSUME NEW s \in Statement, NEW w \in Seq(Char)
  PROVE  /\ More(s, w) \in Statement
         /\ \A u \in Seq(Char) : More(More(s, w), u) = More(s, w \o u)
<1>1. PICK a : a = IF s.arg = None THEN <<>> ELSE s.arg
  OBVIOUS
<1>2. a \in Seq(Char)
  BY <1>1 DEF Statement
<1>3. a \o w \in Seq(Char) /\ \A u \in Seq(Char) : (a \o w) \o u = a \o (w \o u)
  BY <1>2
<1>4. PICK b : b = a \o w
  OBVIOUS
<1>5. b \in Seq(Char) /\ b # None
  BY <1>3, <1>4, PartIsNotNone
<1>6. More(s, w) = [s EXCEPT !.arg = b]
  BY <1>1, <1>4 DEF More
<1>7. More(s, w) \in Statement /\ More(s, w).arg = b
  BY <1>5, <1>6 DEF Statement
<1>8. ASSUME NEW u \in Seq(Char)
      PROVE  More(More(s, w), u) = More(s, w \o u)
  <2>1. PICK m : m = More(s, w)
    OBVIOUS
  <2>2. More(m, u) = [m EXCEPT !.arg = b \o u]
    BY <1>5, <1>7, <2>1 DEF More
  <2>3. PICK c : c = b \o u
    OBVIOUS
  <2>4. [m EXCEPT !.arg = c] = [s EXCEPT !.arg = c]
    BY <1>6, <2>1 DEF Statement
  <2>5. c = a \o (w \o u)
    BY <1>3, <1>4, <2>3
  <2>6. More(s, w \o u) = [s EXCEPT !.arg = c]
    BY <1>1, <2>5 DEF More
  <2> QED  BY <2>1, <2>2, <2>3, <2>4, <2>6
<1> QED  BY <1>7, <1>8

LEMMA LastIs ==
  ASSUME NEW T \in Seq(Statement), NEW s \in Statement, NEW r, r.tree = Append(T, s)
  PROVE  /\ LastArg(r) = s.arg /\ AllBut1(r.tree) = T
         /\ \A a \in Seq(Char) : WithLastArg(r, a) = Append(T, [s EXCEPT !.arg = a])
<1>1. PICK n : n = Len(T) + 1
  OBVIOUS
<1>2. /\ n \in Nat /\ Append(T, s) \in Seq(Statement) /\ Len(Append(T, s)) = n /\ Append(T, s)[n] = s
      /\ \A i \in 1 .. Len(T) : Append(T, s)[i] = T[i]
  BY <1>1
<1>3. LastArg(r) = s.arg
  BY <1>2 DEF LastArg
<1>4. AllBut1(r.tree) = T
  <2>1. AllBut1(r.tree) = SubSeq(Append(T, s), 1, Len(T))
    BY <1>1, <1>2 DEF AllBut1
  <2> QED  BY <2>1, <1>2
<1>5. ASSUME NEW a \in Seq(Char)
      PROVE  WithLastArg(r, a) = Append(T, [s EXCEPT !.arg = a])
  <2>1. PICK u : u = [s EXCEPT !.arg = a]
    OBVIOUS
  <2>2. u \in Statement
    BY <2>1 DEF Statement
  <2>3. WithLastArg(r, a) = [Append(T, s) EXCEPT ![n] = u]
    BY <1>2, <2>1 DEF WithLastArg
  <2>4. [Append(T, s) EXCEPT ![n] = u] = Append(T, u)
    <3>1. PICK x : x = Append(T, s)
      OBVIOUS
    <3>2. PICK y : y = Append(T, u)
      OBVIOUS
    <3>3. /\ x \in Seq(Statement) /\ DOMAIN x = 1 .. n /\ y \in Seq(Statement) /\ DOMAIN y = 1 .. n
          /\ y[n] = u /\ \A i \in 1 .. Len(T) : x[i] = y[i]
      BY <1>1, <1>2, <2>2, <3>1, <3>2
    <3>4. y = [i \in 1 .. n |-> y[i]]
      BY <3>3
    <3>5. [x EXCEPT ![n] = u] = [i \in 1 .. n |-> IF i = n THEN u ELSE x[i]]
      BY <3>3
    <3>6. \A i \in 1 .. n : (IF i = n THEN u ELSE x[i]) = y[i]
      BY <1>1, <3>3
    <3> QED  BY <3>1, <3>2, <3>4, <3>5, <3>6
  <2> QED  BY <2>1, <2>3, <2>4
<1> QED  BY <1>3, <1>4, <1>5

(* Where the reference stops.                                              *)
LEMMA RefStops ==
  ASSUME text \in Seq(Char), NEW p \in 1 .. End, Boundary(p), Skip(p) = End,
         NEW st \in {AtKeyword, AtArgument, AtWord, AtString, AtPlus},
         NEW k, NEW T, NEW E, RefAt(p) = Ref(st, k, T, E)
  PROVE  Bad
<1>1. RefRead = Ref(st, k, T, E)
  BY SkipToken
<1>2. RefRead.state = st
  BY <1>1, RefFields
<1> QED  BY <1>2 DEF Bad, AtKeyword, AtArgument, AtWord, AtString, AtPlus, AtEnd, AtGarbage

LEMMA RefFails ==
  ASSUME text \in Seq(Char), NEW p \in Begins, NEW k, NEW T, NEW E,
         ReadToken(RefAt(p), TokenAt(Mode, p), Mode) = Ref(AtError, k, T, E)
  PROVE  Bad
<1>1. RefAt(p + 1) = Ref(AtError, k, T, E) /\ p + 1 \in 1 .. End
  BY RefMoves, BeginsOK
<1>2. RefAt(p + 1).state = AtError
  BY <1>1, RefFields
<1> QED  BY <1>1, <1>2, ErrorStays

LEMMA SkipStays ==
  ASSUME text \in Seq(Char), NEW p \in Begins
  PROVE  Skip(p) = p
<1>1. p \in 1 .. End /\ ~White(p) /\ ~LineComment(p) /\ ~BlockComment(p)
  BY BeginsOK DEF Plain
<1>2. SkipFunction[p] = p
  BY <1>1, SkipExists
<1> QED  BY <1>2 DEF Skip, SkipFunction

(* The kind of a token is told by its first character.                     *)
LEMMA KindIs ==
  ASSUME text \in Seq(Char), NEW p \in Begins, NEW t, t = TokenAt(Mode, p)
  PROVE  /\ Kind(t, Semicolon) <=> text[p] = Semicolon
         /\ Kind(t, OpenBrace) <=> text[p] = OpenBrace
         /\ Kind(t, CloseBrace) <=> text[p] = CloseBrace
         /\ Kind(t, AtWord) <=> WordChar(p)
         /\ Kind(t, AtString) => text[p] \in Quotes
         /\ WordChar(p) <=> text[p] \notin Punctuation \cup Quotes
<1>1. /\ p \in 1 .. Len(text) /\ Plain(Mode, p) /\ Mode[p] = "code" /\ text[p] \in Char
      /\ ~White(p) /\ ~LineComment(p) /\ ~BlockComment(p)
  BY BeginsOK, TextOK DEF Plain
<1>2. WordChar(p) <=> text[p] \notin Punctuation \cup Quotes
  BY <1>1 DEF WordChar
<1>3. InWord(Mode, p) <=> WordChar(p)
  BY <1>1, WordCharOK
<1>4. t.kind = KindOf(Mode, p)
  BY DEF TokenAt
<1>5. CASE WordChar(p)
  <2>1. t.kind = "word"
    BY <1>3, <1>4, <1>5 DEF KindOf
  <2> QED  BY <1>2, <1>5, <2>1, Apart DEF Kind, Semicolon, OpenBrace, CloseBrace, AtWord, AtString, Punctuation
<1>6. CASE text[p] \in Quotes
  <2>1. t.kind \in {"open", "string"}
    BY <1>2, <1>3, <1>4, <1>6 DEF KindOf
  <2> QED  BY <1>2, <1>6, <2>1, Apart DEF Kind, Semicolon, OpenBrace, CloseBrace, AtWord, AtString, Punctuation
<1>7. CASE text[p] \in Punctuation
  <2>1. t.kind = text[p] /\ text[p] \notin Quotes
    BY <1>2, <1>3, <1>4, <1>7, Apart DEF KindOf
  <2> QED  BY <1>2, <1>7, <2>1, Apart DEF Kind, Semicolon, OpenBrace, CloseBrace, AtWord, AtString, Punctuation
<1> QED  BY <1>2, <1>5, <1>6, <1>7

(* Names that keep sequences and sets of errors from the provers where     *)
(* nothing is said of them but that they are the same.                     *)
Grown(T, s) == Append(T, s)
With(E, es) == E \cup Members(es)
BeforeString == {AtArgument, AtPlus}

(* One quoted string is read in both.                                      *)
LEMMA OneString ==
  ASSUME text \in Seq(Char), NEW q \in Begins, text[q] \in Quotes,
         NEW st \in BeforeString, NEW k, NEW T \in Seq(Statement), NEW s \in Statement, NEW E,
         RefAt(q) = Ref(st, k, Grown(T, s), E), NEW r, r = Quoted(q, VersionOf(T))
  PROVE  /\ r.closed => /\ r.end \in 1 .. End /\ Boundary(r.end)
                        /\ RefAt(r.end) = Ref(AtString, k, Grown(T, More(s, r.value)), With(E, r.errs))
         /\ ~r.closed => Bad
<1>1. PICK t : t = TokenAt(Mode, q)
  OBVIOUS
<1>2. PICK v : v = VersionOf(T)
  OBVIOUS
<1>3. PICK a : a = RefAt(q)
  OBVIOUS
<1>4. a = Ref(st, k, Grown(T, s), E)
  BY <1>3
<1>5. a.tree = Grown(T, s)
  BY <1>4 DEF Ref, Grown
<1>6. q \in 1 .. Len(text) /\ r \in Read
  BY BeginsOK, QuotedOK
<1>7. ASSUME r.closed
      PROVE  /\ r.end \in 1 .. End /\ Boundary(r.end)
             /\ RefAt(r.end) = Ref(AtString, k, Grown(T, More(s, r.value)), With(E, r.errs))
  <2>1. /\ r.end \in q + 2 .. End /\ t.kind = "string" /\ StringValue(t, Mode) = r.value
        /\ EscapesFor(v, t, Mode) = Members(r.errs)
        /\ RefAt(r.end) = ReadToken(a, t, Mode) /\ Boundary(r.end)
    BY <1>1, <1>2, <1>3, <1>7, StringToken
  <2>2. Kind(t, AtString)
    BY <2>1 DEF Kind, AtString
  <2>3. ReadToken(a, t, Mode) = ReadString(a, t, Mode)
    <3>1. CASE st = AtArgument
      BY <1>4, <2>2, <3>1, ReadsString
    <3>2. CASE st = AtPlus
      BY <1>4, <2>2, <3>2, ReadsString
    <3> QED  BY <3>1, <3>2 DEF BeforeString
  <2>4. ReadString(a, t, Mode) =
          Ref(AtString, k, Lengthened(a, t, Mode), E \cup EscapesOf(Grown(T, s), t, Mode))
    BY <1>4, ReadStringIs
  <2>5. Lengthened(a, t, Mode) = Grown(T, More(s, r.value))
    <3>1. PICK w : w = (IF s.arg = None THEN <<>> ELSE s.arg) \o r.value
      OBVIOUS
    <3>2. w \in Seq(Char)
      BY <1>6, <3>1 DEF Statement, Read
    <3>3. LastArg(a) = s.arg /\ WithLastArg(a, w) = Append(T, [s EXCEPT !.arg = w])
      BY <1>5, <3>2, LastIs DEF Grown
    <3>4. Lengthened(a, t, Mode) = WithLastArg(a, w)
      BY <2>1, <3>1, <3>3 DEF Lengthened
    <3> QED  BY <3>1, <3>3, <3>4 DEF More, Grown
  <2>6. EscapesOf(Grown(T, s), t, Mode) = Members(r.errs)
    <3>1. AllBut1(Grown(T, s)) = T
      BY <1>5, LastIs DEF Grown
    <3> QED  BY <1>2, <2>1, <3>1 DEF EscapesOf
  <2>7. r.end \in 1 .. End
    BY <1>6, <2>1
  <2>8. RefAt(r.end) = Ref(AtString, k, Grown(T, More(s, r.value)), With(E, r.errs))
    BY <2>1, <2>3, <2>4, <2>5, <2>6 DEF With
  <2> QED  BY <2>1, <2>7, <2>8
<1>8. ASSUME ~r.closed
      PROVE  Bad
  <2>1. t.kind = "open" /\ RefRead = ReadToken(a, t, Mode)
    BY <1>1, <1>3, <1>8, StringToken
  <2>2. ~Kind(t, AtWord) /\ ~Kind(t, AtString) /\ ~Kind(t, Semicolon) /\ ~Kind(t, OpenBrace)
    BY <2>1 DEF Kind, AtWord, AtString, Semicolon, OpenBrace
  <2>3. ReadToken(a, t, Mode) = Ref(AtError, k, Grown(T, s), E)
    <3>1. CASE st = AtArgument
      BY <1>4, <2>2, <3>1, ReadsNoArgument
    <3>2. CASE st = AtPlus
      BY <1>4, <2>2, <3>2, ReadsNoString
    <3> QED  BY <3>1, <3>2 DEF BeforeString
  <2>4. RefRead.state = AtError
    BY <2>1, <2>3, RefFields
  <2> QED  BY <2>4 DEF Bad, AtError, AtEnd, AtGarbage
<1> QED  BY <1>7, <1>8

(* A "+" behind a string: get_string reads on whatever follows it, to the  *)
(* reference it is a word of one character or the beginning of a longer one*)
LEMMA PlusHere ==
  ASSUME text \in Seq(Char), NEW q \in Begins, text[q] = "+",
         NEW k, NEW T, NEW E, RefAt(q) = Ref(AtString, k, T, E)
  PROVE  /\ q + 1 \in 1 .. End /\ Skip(q + 1) \in 1 .. End
         /\ \/ Skip(q + 1) < End /\ text[Skip(q + 1)] \notin Quotes /\ Bad
            \/ Boundary(q + 1) /\ RefAt(q + 1) = Ref(AtPlus, k, T, E)
<1>1. /\ q \in 1 .. Len(text) /\ q \in 1 .. End /\ q + 1 \in 1 .. End /\ Mode[q] = "code"
      /\ Len(text) \in Nat /\ End = Len(text) + 1 /\ q + 1 \in q + 1 .. End
  BY BeginsOK, TextOK
<1>2. Skip(q + 1) \in q + 1 .. End
  BY <1>1, SkipOK
<1>3. "+" \notin Punctuation \cup Quotes /\ "+" # Semicolon /\ "+" # OpenBrace
  BY DEF Punctuation, Quotes, Semicolon, OpenBrace
<1>4. WordChar(q)
  BY <1>3, KindIs
<1>5. PICK t : t = TokenAt(Mode, q)
  OBVIOUS
<1>6. CASE ~WordChar(q + 1)
  <2>1. \A r \in q .. (q + 1) - 1 : WordChar(r)
    BY <1>1, <1>4
  <2>2. /\ t = [from |-> q, to |-> (q + 1) - 1, kind |-> "word"]
        /\ RefAt(q + 1) = ReadToken(RefAt(q), t, Mode) /\ Boundary(q + 1)
    BY <1>1, <1>5, <1>6, <2>1, WordToken
  <2>3. Plus(t)
    BY <1>1, <2>2 DEF Plus, AtWord
  <2>4. RefAt(q + 1) = Ref(AtPlus, k, T, E)
    BY <2>2, <2>3, ReadsPlus
  <2> QED  BY <1>1, <1>2, <2>2, <2>4
<1>7. CASE WordChar(q + 1)
  <2>1. Skip(q + 1) = q + 1 /\ q + 1 < End /\ text[q + 1] \notin Quotes
    <3>1. SkipFunction[q + 1] = q + 1
      BY <1>1, <1>7, SkipExists DEF WordChar
    <3> QED  BY <1>1, <1>7, <3>1 DEF Skip, SkipFunction, WordChar
  <2>2. ~Plus(t)
    <3>1. PICK e : e = WordEnd(q)
      OBVIOUS
    <3>2. e \in q + 1 .. End /\ ~WordChar(e) /\ \A r \in q .. e - 1 : WordChar(r)
      BY <1>1, <1>4, <3>1, WordEndOK
    <3>3. t = [from |-> q, to |-> e - 1, kind |-> "word"]
      BY <1>5, <3>2, WordToken
    <3>4. e # q + 1
      BY <1>7, <3>2
    <3> QED  BY <1>1, <3>2, <3>3, <3>4 DEF Plus
  <2>3. ~Kind(t, Semicolon) /\ ~Kind(t, OpenBrace)
    BY <1>3, <1>5, KindIs
  <2>4. ReadToken(RefAt(q), t, Mode) = Ref(AtError, k, T, E)
    BY <2>2, <2>3, ReadsAfterString
  <2>5. Bad
    BY <1>5, <2>4, RefFails
  <2> QED  BY <1>1, <1>2, <2>1, <2>5
<1> QED  BY <1>6, <1>7

(* What get_string makes of the strings from q on, and the reference too.  *)
StringsAre(h, k, T, s, E) ==
  /\ h.err = "none" => /\ h.end \in Begins /\ text[h.end] # "+"
                       /\ RefAt(h.end) = Ref(AtString, k, Grown(T, More(s, h.value)), With(E, h.errs))
  /\ h.err # "none" => Bad

LEMMA StringsLast ==
  ASSUME text \in Seq(Char), NEW q \in Begins, text[q] \in Quotes,
         NEW st \in BeforeString, NEW k, NEW T \in Seq(Statement), NEW s \in Statement, NEW E,
         RefAt(q) = Ref(st, k, Grown(T, s), E), NEW v, v = VersionOf(T), ~Continues(q, v)
  PROVE  StringsAre(LastString(q, v), k, T, s, E)
<1>1. PICK r : r = Quoted(q, v)
  OBVIOUS
<1>2. PICK h : h = LastString(q, v)
  OBVIOUS
<1>3. r \in Read /\ q \in 1 .. Len(text) /\ r = Quoted(q, VersionOf(T))
  BY <1>1, QuotedOK, BeginsOK
<1>6. /\ r.closed => /\ r.end \in 1 .. End /\ Boundary(r.end)
                     /\ RefAt(r.end) = Ref(AtString, k, Grown(T, More(s, r.value)), With(E, r.errs))
      /\ ~r.closed => Bad
  BY <1>3, OneString
<1>4. CASE ~r.closed
  <2>1. h.err = "EOF"
    BY <1>1, <1>2, <1>4 DEF LastString, StringResult
  <2>2. Bad
    BY <1>4, <1>6
  <2> QED  BY <1>2, <2>1, <2>2 DEF StringsAre
<1>5. CASE r.closed
  <2> DEFINE F == With(E, r.errs)
             U == Grown(T, More(s, r.value))
  <2>1. r.end \in 1 .. End /\ Boundary(r.end) /\ RefAt(r.end) = Ref(AtString, k, U, F)
    BY <1>5, <1>6
  <2>2. PICK b : b = Behind(q, v)
    OBVIOUS
  <2>3. b = Skip(r.end)
    BY <1>1, <2>2 DEF Behind
  <2>4. /\ b \in 1 .. End /\ RefAt(b) = Ref(AtString, k, U, F)
        /\ b < End => b \in Begins
    BY <2>1, <2>3, SkipToken
  <2> HIDE DEF F, U
  <2>5. CASE b = End
    <3>1. h.err = "EOF"
      BY <1>2, <2>2, <2>5 DEF LastString, StringResult
    <3>2. Bad
      BY <2>1, <2>3, <2>5, RefStops
    <3> QED  BY <1>2, <3>1, <3>2 DEF StringsAre
  <2>6. CASE b # End /\ text[b] # "+"
    <3>1. /\ h.err = "none" /\ h.end = b /\ h.value = r.value /\ h.errs = r.errs
      BY <1>1, <1>2, <1>5, <2>2, <2>6 DEF LastString, StringResult
    <3>2. b \in Begins
      BY <1>3, <2>4, <2>6, TextOK
    <3> QED  BY <1>2, <2>4, <2>6, <3>1, <3>2 DEF StringsAre, F, U
  <2>7. CASE b # End /\ text[b] = "+"
    <3>1. b \in Begins /\ b < End
      BY <1>3, <2>4, <2>7, TextOK
    <3>2. PICK n : n = Skip(b + 1)
      OBVIOUS
    <3>3. n = NextString(q, v)
      BY <2>2, <3>2 DEF NextString
    <3>4. h.err # "none"
      BY <1>1, <1>2, <1>5, <2>2, <2>7 DEF LastString, StringResult
    <3>5. n = End \/ text[n] \notin Quotes
      BY <1>1, <1>5, <2>2, <2>7, <3>3 DEF Continues
    <3>6. /\ b + 1 \in 1 .. End /\ n \in 1 .. End
          /\ \/ n < End /\ text[n] \notin Quotes /\ Bad
             \/ Boundary(b + 1) /\ RefAt(b + 1) = Ref(AtPlus, k, U, F)
      BY <2>4, <2>7, <3>1, <3>2, PlusHere
    <3>7. ASSUME Boundary(b + 1), RefAt(b + 1) = Ref(AtPlus, k, U, F)
          PROVE  Bad
      <4>1. CASE n = End
        BY <3>2, <3>6, <3>7, <4>1, RefStops
      <4>2. CASE n # End
        <5>1. n < End
          BY <3>6, <4>2, TextOK
        <5>2. n \in Begins /\ RefAt(n) = Ref(AtPlus, k, U, F)
          BY <3>2, <3>6, <3>7, <5>1, SkipToken
        <5>3. ~Kind(TokenAt(Mode, n), AtString)
          BY <3>5, <4>2, <5>2, KindIs
        <5>4. ReadToken(RefAt(n), TokenAt(Mode, n), Mode) = Ref(AtError, k, U, F)
          BY <5>2, <5>3, ReadsNoString
        <5> QED  BY <5>2, <5>4, RefFails
      <4> QED  BY <4>1, <4>2
    <3> QED  BY <1>2, <3>4, <3>6, <3>7 DEF StringsAre
  <2> QED  BY <2>5, <2>6, <2>7
<1> QED  BY <1>4, <1>5

(* After a "+" the reading goes on at the next string.                     *)
LEMMA StringsNext ==
  ASSUME text \in Seq(Char), NEW q \in Begins, text[q] \in Quotes,
         NEW st \in BeforeString, NEW k, NEW T \in Seq(Statement), NEW s \in Statement, NEW E,
         RefAt(q) = Ref(st, k, Grown(T, s), E), NEW v, v = VersionOf(T), Continues(q, v),
         NEW r, r = Quoted(q, v), NEW n, n = NextString(q, v)
  PROVE  /\ n \in Begins /\ n \in q + 1 .. Len(text) /\ text[n] \in Quotes
         /\ RefAt(n) = Ref(AtPlus, k, Grown(T, More(s, r.value)), With(E, r.errs))
<1>1. r \in Read /\ q \in 1 .. Len(text) /\ r = Quoted(q, VersionOf(T))
  BY QuotedOK, BeginsOK
<1>2. PICK b : b = Behind(q, v)
  OBVIOUS
<1>3. /\ r.closed /\ b # End /\ text[b] = "+" /\ n # End /\ text[n] \in Quotes
  BY <1>2 DEF Continues
<1>4. b \in q + 1 .. End /\ n \in q + 1 .. End /\ n \in q + 1 .. Len(text)
  BY <1>1, <1>2, <1>3, BehindOK, TextOK
<1>5. PICK U, F : U = Grown(T, More(s, r.value)) /\ F = With(E, r.errs)
  OBVIOUS
<1>6. r.end \in 1 .. End /\ Boundary(r.end) /\ RefAt(r.end) = Ref(AtString, k, U, F)
  <2>1. /\ r.end \in 1 .. End /\ Boundary(r.end)
        /\ RefAt(r.end) = Ref(AtString, k, Grown(T, More(s, r.value)), With(E, r.errs))
    BY <1>1, <1>3, OneString
  <2> QED  BY <1>5, <2>1
<1>7. b \in Begins /\ RefAt(b) = Ref(AtString, k, U, F)
  <2>1. b = Skip(r.end)
    BY <1>2 DEF Behind
  <2>2. b < End
    BY <1>1, <1>3, <1>4, TextOK
  <2> QED  BY <1>6, <2>1, <2>2, SkipToken
<1>8. n = Skip(b + 1)
  BY <1>2 DEF NextString
<1>9. Boundary(b + 1) /\ RefAt(b + 1) = Ref(AtPlus, k, U, F) /\ b + 1 \in 1 .. End
  BY <1>3, <1>7, <1>8, PlusHere
<1>10. n < End
  BY <1>1, <1>3, <1>4, TextOK
<1>11. n \in Begins /\ RefAt(n) = Ref(AtPlus, k, U, F)
  BY <1>8, <1>9, <1>10, SkipToken
<1> QED  BY <1>3, <1>4, <1>5, <1>11

LEMMA StringsJoined ==
  ASSUME NEW r \in Read, NEW h \in StringRead, NEW k, NEW T \in Seq(Statement), NEW s \in Statement, NEW E,
         StringsAre(h, k, T, More(s, r.value), With(E, r.errs))
  PROVE  StringsAre(Concatenated(r, h), k, T, s, E)
<1>1. PICK c : c = Concatenated(r, h)
  OBVIOUS
<1>2. /\ r.value \in Seq(Char) /\ h.value \in Seq(Char)
      /\ r.errs \in Seq(EscapeErrors) /\ h.errs \in Seq(EscapeErrors)
  BY DEF Read, StringRead
<1>3. /\ c.err = h.err /\ c.end = h.end /\ c.value = r.value \o h.value /\ c.errs = r.errs \o h.errs
  BY <1>1 DEF Concatenated, StringRead
<1>4. CASE h.err # "none"
  BY <1>1, <1>3, <1>4 DEF StringsAre
<1>5. CASE h.err = "none"
  <2>1. /\ h.end \in Begins /\ text[h.end] # "+"
        /\ RefAt(h.end) =
             Ref(AtString, k, Grown(T, More(More(s, r.value), h.value)), With(With(E, r.errs), h.errs))
    BY <1>5 DEF StringsAre
  <2>2. More(More(s, r.value), h.value) = More(s, c.value)
    BY <1>2, <1>3, MoreOK
  <2>3. With(With(E, r.errs), h.errs) = With(E, c.errs)
    <3>1. Members(c.errs) = Members(r.errs) \cup Members(h.errs)
      BY <1>2, <1>3, MembersOf
    <3> QED  BY <3>1, Zenon DEF With
  <2> QED  BY <1>1, <1>3, <1>5, <2>1, <2>2, <2>3 DEF StringsAre
<1> QED  BY <1>4, <1>5

(* Strings joined by "+", by induction from the last one.                  *)
LEMMA StringsRead ==
  ASSUME text \in Seq(Char), NEW T \in Seq(Statement), NEW k, NEW v, v = VersionOf(T)
  PROVE  \A q \in Begins, st \in BeforeString, s \in Statement : \A E :
           text[q] \in Quotes /\ RefAt(q) = Ref(st, k, Grown(T, s), E)
             => StringsAre(QuotedStrings(q, v), k, T, s, E)
<1> DEFINE S == {q \in Nat : q \in Begins /\ text[q] \in Quotes =>
                   \A st \in BeforeString, s \in Statement : \A E :
                     RefAt(q) = Ref(st, k, Grown(T, s), E) => StringsAre(QuotedFunction(v)[q], k, T, s, E)}
<1>1. Len(text) \in Nat
  BY TextOK
<1>2. \A q \in 1 .. Len(text) : (\A m \in q + 1 .. Len(text) : m \in S) => q \in S
  <2> SUFFICES ASSUME NEW q \in 1 .. Len(text), \A m \in q + 1 .. Len(text) : m \in S,
                      q \in Begins, text[q] \in Quotes,
                      NEW st \in BeforeString, NEW s \in Statement, NEW E,
                      RefAt(q) = Ref(st, k, Grown(T, s), E)
               PROVE  StringsAre(QuotedFunction(v)[q], k, T, s, E)
    OBVIOUS
  <2>1. CASE ~Continues(q, v)
    <3>1. QuotedFunction(v)[q] = LastString(q, v)
      BY <2>1, QuotedExists
    <3>2. StringsAre(LastString(q, v), k, T, s, E)
      BY <2>1, StringsLast
    <3> QED  BY <3>1, <3>2
  <2>2. CASE Continues(q, v)
    <3>1. PICK r, n : r = Quoted(q, v) /\ n = NextString(q, v)
      OBVIOUS
    <3>2. PICK h : h = QuotedFunction(v)[n]
      OBVIOUS
    <3>3. QuotedFunction(v)[q] = Concatenated(r, h)
      BY <2>2, <3>1, <3>2, QuotedExists
    <3>4. n \in q + 1 .. Len(text) /\ n \in 1 .. Len(text) /\ r \in Read
      <4>1. n # End /\ Behind(q, v) # End
        BY <2>2, <3>1 DEF Continues
      <4> QED  BY <3>1, <4>1, BehindOK, QuotedOK, TextOK
    <3>5. h \in StringRead
      BY <3>2, <3>4, QuotedStringsOK, QuotedStringsIs
    <3>6. StringsAre(h, k, T, More(s, r.value), With(E, r.errs))
      <4>1. /\ n \in Begins /\ text[n] \in Quotes
            /\ RefAt(n) = Ref(AtPlus, k, Grown(T, More(s, r.value)), With(E, r.errs))
        BY <2>2, <3>1, StringsNext
      <4>2. n \in S /\ AtPlus \in BeforeString /\ More(s, r.value) \in Statement
        BY <3>4, MoreOK DEF BeforeString, Read
      <4> QED  BY <3>2, <4>1, <4>2
    <3> QED  BY <3>3, <3>4, <3>5, <3>6, StringsJoined
  <2> QED  BY <2>1, <2>2
<1> HIDE DEF S
<1>3. \A q \in 1 .. Len(text) : q \in S
  BY <1>1, <1>2, DownInduction
<1> SUFFICES ASSUME NEW q \in Begins, NEW st \in BeforeString, NEW s \in Statement, NEW E,
                    text[q] \in Quotes, RefAt(q) = Ref(st, k, Grown(T, s), E)
             PROVE  StringsAre(QuotedStrings(q, v), k, T, s, E)
  OBVIOUS
<1>4. q \in S
  BY <1>3, BeginsOK
<1> QED  BY <1>4, QuotedStringsIs DEF S

(* What follows the argument.                                              *)
Endings == {Semicolon, OpenBrace}
AfterArgument == {AtArgument, AtWord, AtString}
BehindArgument(p, st, k, U, F) ==
  /\ p \in 1 .. End /\ Boundary(p) /\ RefAt(p) = Ref(st, k, U, F)
  /\ st = AtArgument => p \in Begins /\ text[p] \in Endings
  /\ st = AtString => p \in Begins /\ text[p] # "+"
Ended(n, k, U, F) ==
  /\ n \in Begins /\ n + 1 \in 1 .. End /\ Boundary(n + 1)
  /\ text[n] = Semicolon => RefAt(n + 1) = Ref(AfterEnd(k), k, U, F)
  /\ text[n] = OpenBrace => RefAt(n + 1) = Ref(AtKeyword, <<Len(U)>> \o k, U, F)

LEMMA StatementEnds ==
  ASSUME text \in Seq(Char), NEW p, NEW st \in AfterArgument, NEW k, NEW U, NEW F,
         BehindArgument(p, st, k, U, F), NEW n, n = Skip(p)
  PROVE  /\ n = End => Bad
         /\ n # End => /\ n \in Begins
                       /\ text[n] \in Endings => Ended(n, k, U, F)
                       /\ text[n] \notin Endings => Bad
<1>1. /\ p \in 1 .. End /\ Boundary(p) /\ RefAt(p) = Ref(st, k, U, F)
      /\ st = AtArgument => p \in Begins /\ text[p] \in Endings
      /\ st = AtString => p \in Begins /\ text[p] # "+"
  BY DEF BehindArgument
<1>2. n = End => Bad
  BY <1>1, RefStops DEF AfterArgument
<1>3. ASSUME n # End
      PROVE  n \in Begins /\ RefAt(n) = Ref(st, k, U, F)
  <2>1. n \in p .. End /\ n < End
    BY <1>1, <1>3, SkipToken, TextOK
  <2> QED  BY <1>1, <2>1, SkipToken
<1>4. PICK t : t = TokenAt(Mode, n)
  OBVIOUS
<1>5. ASSUME n # End, text[n] \in Endings
      PROVE  Ended(n, k, U, F)
  <2>1. n \in Begins /\ RefAt(n) = Ref(st, k, U, F) /\ text[n] \in Punctuation
    BY <1>3, <1>5 DEF Endings, Semicolon, OpenBrace, Punctuation
  <2>2. RefAt(n + 1) = ReadToken(RefAt(n), t, Mode) /\ Boundary(n + 1) /\ n + 1 \in 1 .. End
    BY <1>4, <2>1, PunctuationToken, BeginsOK
  <2>3. \/ RefAt(n) = Ref(AtArgument, k, U, F) \/ RefAt(n) = Ref(AtWord, k, U, F)
        \/ RefAt(n) = Ref(AtString, k, U, F)
    BY <2>1 DEF AfterArgument
  <2>4. text[n] = Semicolon => RefAt(n + 1) = Ref(AfterEnd(k), k, U, F)
    <3>1. text[n] = Semicolon => Kind(t, Semicolon)
      BY <1>4, <2>1, KindIs
    <3> QED  BY <2>2, <2>3, <3>1, ReadsEnd
  <2>5. text[n] = OpenBrace => RefAt(n + 1) = Ref(AtKeyword, <<Len(U)>> \o k, U, F)
    <3>1. text[n] = OpenBrace => Kind(t, OpenBrace)
      BY <1>4, <2>1, KindIs
    <3> QED  BY <2>2, <2>3, <3>1, ReadsOpen
  <2> QED  BY <2>1, <2>2, <2>4, <2>5 DEF Ended
<1>6. ASSUME n # End, text[n] \notin Endings
      PROVE  Bad
  <2>1. n \in Begins /\ RefAt(n) = Ref(st, k, U, F)
    BY <1>3, <1>6
  <2>2. ~Kind(t, Semicolon) /\ ~Kind(t, OpenBrace)
    BY <1>4, <1>6, <2>1, KindIs DEF Endings
  <2>3. st # AtArgument
    <3> SUFFICES ASSUME st = AtArgument PROVE FALSE
      OBVIOUS
    <3>1. p \in Begins /\ text[p] \in Endings
      BY <1>1
    <3>2. n = p
      BY <3>1, SkipStays
    <3> QED  BY <1>6, <3>1, <3>2
  <2>4. CASE st = AtWord
    <3>1. ReadToken(RefAt(n), t, Mode) = Ref(AtError, k, U, F)
      BY <2>1, <2>2, <2>4, ReadsAfterWord
    <3> QED  BY <1>4, <2>1, <3>1, RefFails
  <2>5. CASE st = AtString
    <3>1. p \in Begins /\ text[p] # "+"
      BY <1>1, <2>5
    <3>2. n = p
      BY <3>1, SkipStays
    <3>3. ~Plus(t)
      <4>1. t.from = n
        BY <1>4 DEF TokenAt
      <4> QED  BY <3>1, <3>2, <4>1 DEF Plus
    <3>4. ReadToken(RefAt(n), t, Mode) = Ref(AtError, k, U, F)
      BY <2>1, <2>2, <2>5, <3>3, ReadsAfterString
    <3> QED  BY <1>4, <2>1, <3>4, RefFails
  <2> QED  BY <2>3, <2>4, <2>5 DEF AfterArgument
<1> QED  BY <1>2, <1>3, <1>5, <1>6

(* An unquoted argument ends where the word ends.                          *)
LEMMA WordEndsAlike ==
  ASSUME text \in Seq(Char), NEW p \in 1 .. Len(text)
  PROVE  UnquotedEnd(p) = WordEnd(p)
<1>1. ASSUME NEW q \in From(p)
      PROVE  Ends(q) <=> ~WordChar(q)
  <2>1. q \in 1 .. Len(text) /\ At(q) = text[q]
    BY TextOK DEF From
  <2> QED  BY <2>1 DEF Ends, WordChar, Separator, Punctuation, Quotes
<1>2. {q \in From(p) : Ends(q)} = {q \in From(p) : ~WordChar(q)}
  BY <1>1
<1> QED  BY <1>2 DEF UnquotedEnd, WordEnd, Ends

(* The argument a of the statement s: get_string and the reference read    *)
(* the same one, or both find that there is none.                          *)
WithArg(s, a) == [s EXCEPT !.arg = a]
ArgumentIs(a, k, T, s, E) ==
  /\ a.err = "none" =>
       \E st \in AfterArgument : BehindArgument(a.end, st, k, Grown(T, WithArg(s, a.value)), With(E, a.errs))
  /\ a.err \notin {"none", "hang"} => Bad

LEMMA NoArgument ==
  ASSUME text \in Seq(Char), NEW q \in Begins, text[q] \in Endings,
         NEW k, NEW T \in Seq(Statement), NEW s \in Statement, s.arg = None, NEW E,
         RefAt(q) = Ref(AtArgument, k, Grown(T, s), E), NEW a, a = Argument(q)
  PROVE  ArgumentIs(a, k, T, s, E)
<1>1. a = StringResult("none", q, None, <<>>)
  BY DEF Argument, Endings, Semicolon, OpenBrace
<1>2. a.err = "none" /\ a.end = q /\ a.value = None /\ a.errs = <<>>
  BY <1>1 DEF StringResult
<1>3. WithArg(s, a.value) = s
  BY <1>2 DEF WithArg, Statement
<1>4. With(E, a.errs) = E
  BY <1>2 DEF With, Members
<1>5. q \in 1 .. End /\ Boundary(q)
  BY BeginsOK
<1>6. BehindArgument(a.end, AtArgument, k, Grown(T, WithArg(s, a.value)), With(E, a.errs))
  BY <1>2, <1>3, <1>4, <1>5 DEF BehindArgument, AtArgument, AtString
<1> QED  BY <1>2, <1>6 DEF ArgumentIs, AfterArgument

LEMMA WordArgument ==
  ASSUME text \in Seq(Char), NEW q \in Begins, WordChar(q),
         NEW k, NEW T \in Seq(Statement), NEW s \in Statement, s.arg = None, NEW E,
         RefAt(q) = Ref(AtArgument, k, Grown(T, s), E), NEW a, a = UnquotedString(q, UnquotedEnd(q))
  PROVE  ArgumentIs(a, k, T, s, E)
<1>1. PICK e : e = WordEnd(q)
  OBVIOUS
<1>2. PICK t : t = TokenAt(Mode, q)
  OBVIOUS
<1>3. PICK r : r = RefAt(q)
  OBVIOUS
<1>4. /\ q \in 1 .. Len(text) /\ e \in q + 1 .. End /\ ~WordChar(e) /\ \A p \in q .. e - 1 : WordChar(p)
  BY <1>1, BeginsOK, WordEndOK
<1>5. UnquotedEnd(q) = e
  BY <1>1, <1>4, WordEndsAlike
<1>6. CASE e = End
  <2>1. a.err = "hang"
    BY <1>5, <1>6 DEF UnquotedString, StringResult
  <2> QED  BY <2>1 DEF ArgumentIs
<1>7. CASE e # End
  <2>1. PICK w : w = SubSeq(text, q, e - 1)
    OBVIOUS
  <2>2. a.err = "none" /\ a.end = e /\ a.value = w /\ a.errs = <<>>
    BY <1>5, <1>7, <2>1 DEF UnquotedString, StringResult
  <2>3. /\ t = [from |-> q, to |-> e - 1, kind |-> "word"]
        /\ RefAt(e) = ReadToken(r, t, Mode) /\ Boundary(e) /\ e \in 1 .. End
    BY <1>2, <1>3, <1>4, WordToken
  <2>4. Kind(t, AtWord) /\ WordOf(t) = w
    BY <2>1, <2>3 DEF Kind, AtWord, WordOf
  <2>5. w \in Seq(Char)
    BY <1>4, <2>1, PartOfText, TextOK
  <2>6. WithLastArg(r, w) = Grown(T, WithArg(s, w))
    <3>1. r = Ref(AtArgument, k, Grown(T, s), E)
      BY <1>3
    <3>2. r.tree = Append(T, s)
      BY <3>1 DEF Ref, Grown
    <3> QED  BY <2>5, <3>2, LastIs DEF Grown, WithArg
  <2>7. RefAt(e) = Ref(AtWord, k, Grown(T, WithArg(s, w)), E)
    BY <1>3, <2>3, <2>4, <2>6, ReadsWord
  <2>8. With(E, a.errs) = E
    BY <2>2 DEF With, Members
  <2>9. BehindArgument(a.end, AtWord, k, Grown(T, WithArg(s, a.value)), With(E, a.errs))
    BY <2>2, <2>3, <2>7, <2>8 DEF BehindArgument, AtArgument, AtString, AtWord
  <2> QED  BY <2>2, <2>9 DEF ArgumentIs, AfterArgument
<1> QED  BY <1>6, <1>7

LEMMA QuotedArgument ==
  ASSUME text \in Seq(Char), NEW q \in Begins, text[q] \in Quotes,
         NEW k, NEW T \in Seq(Statement), NEW s \in Statement, s.arg = None, NEW E,
         RefAt(q) = Ref(AtArgument, k, Grown(T, s), E), NEW v, v = VersionOf(T), NEW a, a = QuotedStrings(q, v)
  PROVE  ArgumentIs(a, k, T, s, E)
<1>1. AtArgument \in BeforeString
  BY DEF BeforeString
<1>2. StringsAre(a, k, T, s, E)
  BY <1>1, StringsRead
<1>3. a.value \in Seq(Char)
  <2>1. q \in 1 .. Len(text)
    BY BeginsOK
  <2> QED  BY <2>1, QuotedStringsOK DEF StringRead
<1>4. More(s, a.value) = WithArg(s, a.value)
  <2>1. <<>> \o a.value = a.value
    BY <1>3
  <2> QED  BY <2>1 DEF More, WithArg
<1>5. CASE a.err # "none"
  BY <1>2, <1>5 DEF StringsAre, ArgumentIs
<1>6. CASE a.err = "none"
  <2>1. /\ a.end \in Begins /\ text[a.end] # "+"
        /\ RefAt(a.end) = Ref(AtString, k, Grown(T, WithArg(s, a.value)), With(E, a.errs))
    BY <1>2, <1>4, <1>6 DEF StringsAre
  <2>2. a.end \in 1 .. End /\ Boundary(a.end)
    BY <2>1, BeginsOK
  <2>3. BehindArgument(a.end, AtString, k, Grown(T, WithArg(s, a.value)), With(E, a.errs))
    BY <2>1, <2>2 DEF BehindArgument, AtArgument, AtString
  <2> QED  BY <1>6, <2>3 DEF ArgumentIs, AfterArgument
<1> QED  BY <1>5, <1>6

LEMMA ArgumentReads ==
  ASSUME text \in Seq(Char), NEW q \in Begins,
         NEW k, NEW T \in Seq(Statement), NEW s \in Statement, s.arg = None, NEW E,
         RefAt(q) = Ref(AtArgument, k, Grown(T, s), E), version = VersionOf(T), NEW a, a = Argument(q)
  PROVE  ArgumentIs(a, k, T, s, E)
<1>1. CASE text[q] \in Endings
  BY <1>1, NoArgument
<1>2. CASE text[q] \notin Endings /\ text[q] = CloseBrace
  <2>1. a.err = "EXPECTED_STRING"
    BY <1>2 DEF Argument, GetString, StringResult, Endings, Semicolon, OpenBrace, CloseBrace
  <2>2. PICK t : t = TokenAt(Mode, q)
    OBVIOUS
  <2>3. ~Kind(t, AtWord) /\ ~Kind(t, AtString) /\ ~Kind(t, Semicolon) /\ ~Kind(t, OpenBrace)
    <3>1. CloseBrace \in Punctuation /\ CloseBrace \notin Quotes
      BY Apart DEF CloseBrace, Punctuation
    <3> QED  BY <1>2, <2>2, <3>1, KindIs DEF Endings
  <2>4. ReadToken(RefAt(q), t, Mode) = Ref(AtError, k, Grown(T, s), E)
    BY <2>3, ReadsNoArgument
  <2>5. Bad
    BY <2>2, <2>4, RefFails
  <2> QED  BY <2>1, <2>5 DEF ArgumentIs
<1>3. CASE text[q] \notin Endings /\ text[q] # CloseBrace /\ text[q] \in Quotes
  <2>1. a = QuotedStrings(q, version)
    BY <1>3 DEF Argument, GetString, Endings, Semicolon, OpenBrace, CloseBrace
  <2> QED  BY <1>3, <2>1, QuotedArgument
<1>4. CASE text[q] \notin Endings /\ text[q] # CloseBrace /\ text[q] \notin Quotes
  <2>1. a = UnquotedString(q, UnquotedEnd(q))
    BY <1>4 DEF Argument, GetString, Endings, Semicolon, OpenBrace, CloseBrace
  <2>2. text[q] \notin Punctuation \cup Quotes
    BY <1>4 DEF Punctuation, Endings, Semicolon, OpenBrace, CloseBrace
  <2>3. WordChar(q)
    BY <2>2, KindIs
  <2> QED  BY <2>1, <2>3, WordArgument
<1> QED  BY <1>1, <1>2, <1>3, <1>4

(* The statement that the header h begins in the blocks k.                 *)
Begun(h, k) ==
  [parent |-> IF k = <<>> THEN 0 ELSE Head(k), prefix |-> h.prefix, keyword |-> h.keyword,
   arg |-> h.arg, at |-> h.at]
HeaderIs(h, k, T, E) ==
  /\ h.err = "none" =>
       /\ h.end \in Begins
       /\ text[h.end] \in Endings => Ended(h.end, k, Grown(T, Begun(h, k)), With(E, h.errs))
       /\ text[h.end] \notin Endings => Bad
  /\ h.err \notin {"none", "hang"} => Bad

(* The keyword begins a statement without argument; what is no keyword is  *)
(* an error in both.                                                       *)
LEMMA KeywordStarts ==
  ASSUME text \in Seq(Char), NEW p \in Begins, NEW k \in Seq(Nat), NEW T \in Seq(Statement), NEW E,
         RefAt(p) = Ref(AtKeyword, k, T, E), NEW kw, kw = GetKeyword(p), kw.err = "none",
         NEW s, s = [parent |-> IF k = <<>> THEN 0 ELSE Head(k), prefix |-> kw.prefix,
                     keyword |-> kw.keyword, arg |-> None, at |-> p]
  PROVE  /\ s \in Statement /\ s.arg = None
         /\ kw.end \in 1 .. End /\ Boundary(kw.end) /\ RefAt(kw.end) = Ref(AtArgument, k, Grown(T, s), E)
<1>1. PICK t : t = TokenAt(Mode, p)
  OBVIOUS
<1>2. PICK r : r = RefAt(p)
  OBVIOUS
<1>3. /\ p \in 1 .. End /\ p \in Nat /\ p < End
      /\ kw.prefix \in Seq(Char) \cup {None} /\ kw.keyword \in Seq(Char)
  BY BeginsOK, TextOK, GetKeywordOK
<1>4. s \in Statement /\ s.arg = None
  <2>1. PICK n : n = IF k = <<>> THEN 0 ELSE Head(k)
    OBVIOUS
  <2>2. n \in Nat
    BY <2>1
  <2>3. s = [parent |-> n, prefix |-> kw.prefix, keyword |-> kw.keyword, arg |-> None, at |-> p]
    BY <2>1
  <2> QED  BY <1>3, <2>2, <2>3 DEF Statement
<1>5. KeywordHere(p)
  BY KeywordsAgree
<1>6. /\ IsKeyword(t) /\ t.from = p
      /\ kw.end \in p + 1 .. End /\ Boundary(kw.end) /\ RefAt(kw.end) = ReadToken(r, t, Mode)
  BY <1>1, <1>2, <1>5 DEF KeywordHere
<1>7. KeywordOf(WordOf(t)).prefix = kw.prefix /\ KeywordOf(WordOf(t)).keyword = kw.keyword
  <2>1. KeywordOf(WordOf(t)) = [prefix |-> kw.prefix, keyword |-> kw.keyword]
    BY <1>1, <1>5 DEF KeywordHere
  <2> QED  BY <2>1
<1>8. r = Ref(AtKeyword, k, T, E)
  BY <1>2
<1>9. NewOf(r, t) = s
  <2>1. r.stack = k
    BY <1>8 DEF Ref
  <2> QED  BY <1>6, <1>7, <2>1 DEF NewOf
<1>10. ReadToken(r, t, Mode) = Ref(AtArgument, k, Append(T, NewOf(r, t)), E)
  BY <1>6, <1>8, ReadsKeyword
<1> QED  BY <1>3, <1>4, <1>6, <1>9, <1>10 DEF Grown

LEMMA NoKeywordHere ==
  ASSUME text \in Seq(Char), NEW p \in Begins, NEW k, NEW T, NEW E,
         RefAt(p) = Ref(AtKeyword, k, T, E), GetKeyword(p).err # "none", k = <<>> \/ text[p] # CloseBrace
  PROVE  Bad
<1>1. PICK t : t = TokenAt(Mode, p)
  OBVIOUS
<1>2. ~IsKeyword(t) /\ (~Kind(t, CloseBrace) \/ k = <<>>)
  BY <1>1, KeywordsAgree, KindIs
<1>3. ReadToken(RefAt(p), t, Mode) = Ref(AtError, k, T, E)
  BY <1>2, ReadsNoKeyword
<1> QED  BY <1>1, <1>3, RefFails

(* The beginning of a statement: what Header returns is what the automaton *)
(* has read, and if Header fails, the reference rejects the text.          *)
LEMMA HeaderReads ==
  ASSUME text \in Seq(Char), NEW start \in 1 .. End, Boundary(start),
         NEW k \in Seq(Nat), NEW T \in Seq(Statement), NEW E, RefAt(start) = Ref(AtKeyword, k, T, E),
         version = VersionOf(T), k = <<>> \/ At(Skip(start)) # CloseBrace, NEW h, h = Header(start)
  PROVE  HeaderIs(h, k, T, E)
<1>1. PICK p : p = Skip(start)
  OBVIOUS
<1>2. p \in 1 .. End /\ RefAt(p) = Ref(AtKeyword, k, T, E) /\ (p < End => p \in Begins)
  BY <1>1, SkipToken
<1>3. CASE p = End
  <2>1. h.err = "EOF"
    BY <1>1, <1>3 DEF Header, HeaderFailure
  <2>2. Bad
    BY <1>1, <1>3, RefStops
  <2> QED  BY <2>1, <2>2 DEF HeaderIs
<1>4. CASE p # End
  <2>1. p \in Begins /\ p < End
    BY <1>2, <1>4, TextOK
  <2>2. PICK kw : kw = GetKeyword(p)
    OBVIOUS
  <2>3. h = WithKeyword(p, kw)
    BY <1>1, <1>4, <2>2 DEF Header
  <2>4. CASE kw.err # "none"
    <3>1. h.err = kw.err
      BY <2>3, <2>4 DEF WithKeyword, HeaderFailure
    <3>2. k = <<>> \/ text[p] # CloseBrace
      BY <1>1, <1>2, <2>1, TextOK
    <3>3. Bad
      BY <1>2, <2>1, <2>2, <2>4, <3>2, NoKeywordHere
    <3> QED  BY <2>4, <3>1, <3>3 DEF HeaderIs
  <2>5. CASE kw.err = "none"
    <3>1. PICK s : s = [parent |-> IF k = <<>> THEN 0 ELSE Head(k), prefix |-> kw.prefix,
                        keyword |-> kw.keyword, arg |-> None, at |-> p]
      OBVIOUS
    <3>2. /\ s \in Statement /\ s.arg = None
          /\ kw.end \in 1 .. End /\ Boundary(kw.end) /\ RefAt(kw.end) = Ref(AtArgument, k, Grown(T, s), E)
      BY <1>2, <2>1, <2>2, <2>5, <3>1, KeywordStarts
    <3>3. PICK q : q = Skip(kw.end)
      OBVIOUS
    <3>4. q \in 1 .. End /\ RefAt(q) = Ref(AtArgument, k, Grown(T, s), E) /\ (q < End => q \in Begins)
      BY <3>2, <3>3, SkipToken
    <3>5. CASE q = End
      <4>1. h.err = "EOF"
        BY <2>3, <2>5, <3>3, <3>5 DEF WithKeyword, HeaderFailure
      <4>2. Bad
        BY <3>2, <3>3, <3>5, RefStops
      <4> QED  BY <4>1, <4>2 DEF HeaderIs
    <3>6. CASE q # End
      <4>1. q \in Begins
        BY <3>4, <3>6, TextOK
      <4>2. PICK a : a = Argument(q)
        OBVIOUS
      <4>3. ArgumentIs(a, k, T, s, E)
        BY <3>2, <3>4, <4>1, <4>2, ArgumentReads
      <4>4. h = WithArgument(p, kw, a)
        BY <2>3, <2>5, <3>3, <3>6, <4>2 DEF WithKeyword
      <4>5. CASE a.err # "none"
        <5>1. h.err = a.err
          BY <4>4, <4>5 DEF WithArgument
        <5> QED  BY <4>3, <4>5, <5>1 DEF ArgumentIs, HeaderIs
      <4>6. CASE a.err = "none"
        <5>1. PICK n : n = Skip(a.end)
          OBVIOUS
        <5>2. /\ h.err = IF n = End THEN "EOF" ELSE "none"
              /\ h.end = n /\ h.errs = a.errs
              /\ h.prefix = kw.prefix /\ h.keyword = kw.keyword /\ h.arg = a.value /\ h.at = p
          BY <4>4, <4>6, <5>1 DEF WithArgument
        <5>3. WithArg(s, a.value) = Begun(h, k)
          BY <3>1, <5>2 DEF WithArg, Begun
        <5>4. PICK st \in AfterArgument : BehindArgument(a.end, st, k, Grown(T, Begun(h, k)), With(E, h.errs))
          BY <4>3, <4>6, <5>2, <5>3 DEF ArgumentIs
        <5>5. /\ n = End => Bad
              /\ n # End => /\ n \in Begins
                            /\ text[n] \in Endings => Ended(n, k, Grown(T, Begun(h, k)), With(E, h.errs))
                            /\ text[n] \notin Endings => Bad
          BY <5>1, <5>4, StatementEnds
        <5> QED  BY <5>2, <5>5 DEF HeaderIs
      <4> QED  BY <4>5, <4>6
    <3> QED  BY <3>5, <3>6
  <2> QED  BY <2>4, <2>5
<1> QED  BY <1>3, <1>4

-----------------------------------------------------------------------------
(* The inductive invariant: between two calls the automaton is where the   *)
(* parser is, with its stack, its statements and its errors; once a call   *)
(* has failed the reference rejects the text, whatever follows.            *)
Reads(p, st, k, T, es) == Boundary(p) /\ RefAt(p) = Ref(st, k, T, Members(es))
RefInv ==
  /\ phase = "open" => version = 1 /\ errors = <<>>
  /\ phase \in {"statement", "block"} => Reads(pos, AtKeyword, stack, tree, errors) /\ version = VersionOf(tree)
  /\ phase = "statement" /\ stack # <<>> => pos \in Begins /\ text[pos] # CloseBrace
  /\ phase = "end" => Reads(pos, AtEnd, <<>>, tree, errors)
  /\ phase = "unwind" => Bad
  /\ phase = "done" /\ text # NoFile => ParsedAs(RefRead)
  /\ ok => phase = "done"

LEMMA InitReads == Init => RefInv
BY DEF Init, RefInv

LEMMA ReadsThere ==
  ASSUME text' = text, NEW p, pos' = p, NEW st, NEW k, NEW T, NEW es,
         stack' = k, tree' = T, errors' = es, Reads(p, st, k, T, es)
  PROVE  Reads(pos, st, stack, tree, errors)'
<1>1. Boundary(p)' /\ RefAt(p)' = Ref(st, k, T, Members(es))
  BY SameReference DEF Reads
<1>2. Boundary(pos)' = Boundary(p)' /\ RefAt(pos)' = RefAt(p)'
  OBVIOUS
<1> QED  BY <1>1, <1>2 DEF Reads

LEMMA SameReads ==
  ASSUME UNCHANGED vars, RefInv
  PROVE  RefInv'
<1>1. /\ text' = text /\ pos' = pos /\ phase' = phase /\ stack' = stack /\ tree' = tree
      /\ version' = version /\ ok' = ok /\ errors' = errors
  BY DEF vars
<1>2. Bad' = Bad /\ ParsedAs(RefRead)' = ParsedAs(RefRead) /\ Begins' = Begins
  <2>1. RefRead' = RefRead /\ Begins' = Begins
    BY <1>1, SameReference
  <2> QED  BY <1>1, <2>1 DEF Bad, ParsedAs, Codes
<1>3. PICK p, k, T, es : p = pos /\ k = stack /\ T = tree /\ es = errors
  OBVIOUS
<1>4. ASSUME NEW st, Reads(pos, st, stack, tree, errors)
      PROVE  Reads(pos, st, stack, tree, errors)'
  BY <1>1, <1>3, <1>4, ReadsThere
<1>5. ASSUME Reads(pos, AtEnd, <<>>, tree, errors)
      PROVE  Reads(pos, AtEnd, <<>>, tree, errors)'
  BY <1>1, <1>5, SameReference DEF Reads
<1> QED  BY <1>1, <1>2, <1>4, <1>5 DEF RefInv

LEMMA VersionNext ==
  ASSUME NEW T \in Seq(Statement), NEW u, version = VersionOf(T), NEW h,
         u.keyword = h.keyword, u.arg = h.arg
  PROVE  NewVersion(h) = VersionOf(Append(T, u))
<1>1. PICK n : n = Len(T) + 1
  OBVIOUS
<1>2. /\ n \in Nat /\ DOMAIN Append(T, u) = 1 .. n /\ Append(T, u)[n] = u
      /\ DOMAIN T = 1 .. n - 1 /\ \A i \in 1 .. n - 1 : Append(T, u)[i] = T[i] /\ i \in 1 .. n
      /\ n \in 1 .. n /\ \A i \in 1 .. n : i = n \/ i \in 1 .. n - 1
  BY <1>1
<1>3. Is11(u) <=> h.keyword = <<"V">> /\ h.arg = <<"W">>
  BY DEF Is11
<1>4. (\E i \in DOMAIN Append(T, u) : Is11(Append(T, u)[i])) <=> Is11(u) \/ \E i \in DOMAIN T : Is11(T[i])
  BY <1>2
<1> QED  BY <1>3, <1>4 DEF NewVersion, VersionOf

(* Each action keeps it.                                                   *)
LEMMA OpenReads ==
  ASSUME IInv, TextInv, RefInv, CannotOpen \/ Open
  PROVE  RefInv'
<1>1. /\ pos = 1 /\ stack = <<>> /\ tree = <<>> /\ version = 1 /\ errors = <<>> /\ ~ok
      /\ text' = text /\ pos' = pos /\ stack' = stack /\ tree' = tree /\ version' = version /\ ok' = ok
      /\ phase = "open"
  BY DEF IInv, PhaseInv, TextInv, ReadInv, RefInv, CannotOpen, Open
<1>2. CASE text = NoFile
  <2>1. phase' = "done"
    BY <1>2 DEF CannotOpen, Open
  <2> QED  BY <1>1, <1>2, <2>1 DEF RefInv
<1>3. CASE text # NoFile
  <2>1. text \in Seq(Char)
    BY <1>3, ScenarioAssumption DEF TextInv, TypeOK
  <2>2. End \in Nat /\ 1 \in 1 .. End /\ Mode[1] = "code"
    BY <2>1, TextOK, ModeStep
  <2>3. Boundary(1)
    <3>1. ~InWord(Mode, 0)
      BY <2>1, TextOK DEF InWord, Plain
    <3> QED  BY <2>2, <3>1 DEF Boundary, CodeAt
  <2>4. RefAt(1) = Ref(AtKeyword, <<>>, <<>>, {})
    BY <2>1, RefMoves DEF RefStart, Ref, AtKeyword
  <2>5. Members(<<>>) = {}
    BY DEF Members
  <2>6. CASE text = <<>>
    <3>1. phase' = "done" /\ ok' = FALSE
      BY <1>1, <1>3, <2>6 DEF CannotOpen, Open
    <3>2. RefRead = Ref(AtKeyword, <<>>, <<>>, {})
      <4>1. End = 1
        BY <2>1, <2>6, TextOK
      <4> QED  BY <2>1, <2>4, <4>1, RefMoves
    <3>3. RefRead.state = "keyword"
      BY <3>2 DEF Ref, AtKeyword
    <3>4. RefRead' = RefRead
      BY <1>1, SameReference
    <3>5. ParsedAs(RefRead)'
      BY <3>1, <3>3, <3>4 DEF ParsedAs
    <3> QED  BY <3>1, <3>5 DEF RefInv
  <2>7. CASE text # <<>>
    <3>1. phase' = "statement" /\ errors' = errors /\ ok' = ok
      BY <1>1, <1>3, <2>7 DEF CannotOpen, Open
    <3>2. Reads(1, AtKeyword, <<>>, <<>>, <<>>)
      BY <2>3, <2>4, <2>5 DEF Reads
    <3>3. Reads(pos, AtKeyword, stack, tree, errors)'
      BY <1>1, <3>1, <3>2, ReadsThere
    <3>4. version' = VersionOf(tree')
      BY <1>1 DEF VersionOf
    <3> QED  BY <1>1, <3>1, <3>3, <3>4 DEF RefInv
  <2> QED  BY <2>6, <2>7
<1> QED  BY <1>2, <1>3

(* What Header makes of the state, and what the reference makes of it.     *)
LEMMA StatementReads ==
  ASSUME IInv, TextInv, RefInv, phase = "statement", NEW h, h = Header(pos)
  PROVE  /\ HeaderIs(h, stack, tree, Members(errors)) /\ HeaderFacts(h)
         /\ text \in Seq(Char) /\ h.errs \in Seq(ParseError) /\ errors \in Seq(ParseError)
         /\ version = VersionOf(tree) /\ tree \in Seq(Statement) /\ stack \in Seq(Nat) /\ ~ok
<1>1. /\ text \in Seq(Char) /\ pos \in 1 .. End /\ stack \in Seq(Nat) /\ tree \in Seq(Statement)
      /\ errors \in Seq(ParseError) /\ ~ok
  BY DEF TextInv, TypeOK, ReadInv, RefInv
<1>2. /\ Reads(pos, AtKeyword, stack, tree, errors) /\ version = VersionOf(tree)
      /\ stack # <<>> => pos \in Begins /\ text[pos] # CloseBrace
  BY DEF RefInv
<1>3. stack = <<>> \/ At(Skip(pos)) # CloseBrace
  BY <1>1, <1>2, SkipStays, BeginsOK, TextOK
<1>4. HeaderIs(h, stack, tree, Members(errors))
  BY <1>1, <1>2, <1>3, HeaderReads DEF Reads
<1>5. HeaderFacts(h)
  BY <1>1, HeaderOK
<1>6. h.errs \in Seq(ParseError)
  <2>1. h.errs \in Seq(EscapeErrors)
    BY <1>5 DEF HeaderFacts, HeaderRead
  <2> QED  BY <2>1, ErrorTypes
<1> QED  BY <1>1, <1>2, <1>4, <1>5, <1>6

LEMMA FailsReads ==
  ASSUME RefInv, text' = text, phase' = "unwind", ok' = ok, ~ok, Bad
  PROVE  RefInv'
<1>1. RefRead' = RefRead
  BY SameReference
<1>2. Bad'
  BY <1>1 DEF Bad
<1> QED  BY <1>2 DEF RefInv

(* A statement is allocated.                                               *)
LEMMA AllocatedReads ==
  ASSUME IInv, TextInv, RefInv, phase = "statement", NEW h, h = Header(pos), NewStatement(h),
         errors' = errors \o h.errs
  PROVE  /\ tree' = Grown(tree, Begun(h, stack)) /\ With(Members(errors), h.errs) = Members(errors')
         /\ version' = VersionOf(tree') /\ Len(tree') = Len(tree) + 1
         /\ h.end \in Begins /\ h.end \in 1 .. Len(text)
         /\ text[h.end] \in Endings =>
              Ended(h.end, stack, Grown(tree, Begun(h, stack)), With(Members(errors), h.errs))
<1>1. /\ HeaderIs(h, stack, tree, Members(errors)) /\ HeaderFacts(h)
      /\ text \in Seq(Char) /\ h.errs \in Seq(ParseError) /\ errors \in Seq(ParseError)
      /\ version = VersionOf(tree) /\ tree \in Seq(Statement) /\ stack \in Seq(Nat)
  BY StatementReads
<1>2. tree' = Append(tree, Begun(h, stack)) /\ h.err = "none" /\ version' = NewVersion(h)
  BY DEF NewStatement, Begun
<1>3. With(Members(errors), h.errs) = Members(errors')
  BY <1>1, MembersOf DEF With
<1>4. version' = VersionOf(tree')
  <2>1. PICK u : u = Begun(h, stack)
    OBVIOUS
  <2>2. u.keyword = h.keyword /\ u.arg = h.arg
    BY <2>1 DEF Begun
  <2> QED  BY <1>1, <1>2, <2>1, <2>2, VersionNext
<1>5. Len(tree') = Len(tree) + 1
  BY <1>1, <1>2
<1>6. /\ h.end \in Begins
      /\ text[h.end] \in Endings =>
              Ended(h.end, stack, Grown(tree, Begun(h, stack)), With(Members(errors), h.errs))
  BY <1>1, <1>2 DEF HeaderIs
<1>7. h.end \in 1 .. Len(text)
  BY <1>1, <1>6, BeginsOK
<1> QED  BY <1>2, <1>3, <1>4, <1>5, <1>6, <1>7 DEF Grown

LEMMA SimpleReads ==
  ASSUME IInv, TextInv, RefInv, Simple
  PROVE  RefInv'
<1>1. PICK h : /\ h = Header(pos) /\ NewStatement(h) /\ text[h.end] = Semicolon
               /\ pos' = h.end + 1 /\ errors' = errors \o h.errs
  BY DEF Simple, Semicolon
<1>2. /\ phase = "statement" /\ phase' = (IF stack = <<>> THEN "end" ELSE "block")
      /\ text' = text /\ stack' = stack /\ ok' = ok /\ ~ok
  BY DEF Simple, RefInv
<1>3. /\ tree' = Grown(tree, Begun(h, stack)) /\ With(Members(errors), h.errs) = Members(errors')
      /\ version' = VersionOf(tree')
      /\ text[h.end] \in Endings =>
              Ended(h.end, stack, Grown(tree, Begun(h, stack)), With(Members(errors), h.errs))
  BY <1>1, <1>2, AllocatedReads
<1>4. PICK p, k, T, es : p = pos' /\ k = stack /\ T = tree' /\ es = errors'
  OBVIOUS
<1>5. Boundary(p) /\ RefAt(p) = Ref(AfterEnd(k), k, T, Members(es))
  BY <1>1, <1>3, <1>4 DEF Ended, Endings
<1>6. CASE stack = <<>>
  <2>1. Reads(p, AtEnd, <<>>, T, es)
    BY <1>4, <1>5, <1>6 DEF Reads, AfterEnd
  <2>2. Reads(pos, AtEnd, stack, tree, errors)'
    BY <1>2, <1>4, <1>6, <2>1, ReadsThere
  <2> QED  BY <1>2, <1>6, <2>2 DEF RefInv
<1>7. CASE stack # <<>>
  <2>1. Reads(p, AtKeyword, k, T, es)
    BY <1>4, <1>5, <1>7 DEF Reads, AfterEnd
  <2>2. Reads(pos, AtKeyword, stack, tree, errors)'
    BY <1>2, <1>4, <2>1, ReadsThere
  <2> QED  BY <1>2, <1>3, <1>7, <2>2 DEF RefInv
<1> QED  BY <1>6, <1>7

LEMMA OpenBlockReads ==
  ASSUME IInv, TextInv, RefInv, OpenBlock
  PROVE  RefInv'
<1>1. PICK h : /\ h = Header(pos) /\ NewStatement(h) /\ text[h.end] = OpenBrace
               /\ pos' = h.end + 1 /\ errors' = errors \o h.errs
  BY DEF OpenBlock, OpenBrace
<1>2. /\ phase = "statement" /\ phase' = "block"
      /\ text' = text /\ stack' = <<Len(tree) + 1>> \o stack /\ ok' = ok /\ ~ok
  BY DEF OpenBlock, RefInv
<1>3. /\ tree' = Grown(tree, Begun(h, stack)) /\ With(Members(errors), h.errs) = Members(errors')
      /\ version' = VersionOf(tree') /\ Len(tree') = Len(tree) + 1
      /\ text[h.end] \in Endings =>
              Ended(h.end, stack, Grown(tree, Begun(h, stack)), With(Members(errors), h.errs))
  BY <1>1, <1>2, AllocatedReads
<1>4. PICK p, k, T, es : p = pos' /\ k = stack' /\ T = tree' /\ es = errors'
  OBVIOUS
<1>5. Boundary(p) /\ RefAt(p) = Ref(AtKeyword, <<Len(T)>> \o stack, T, Members(es))
  BY <1>1, <1>3, <1>4 DEF Ended, Endings
<1>6. <<Len(T)>> \o stack = k
  BY <1>2, <1>3, <1>4
<1>7. Reads(p, AtKeyword, k, T, es)
  BY <1>5, <1>6 DEF Reads
<1>8. Reads(pos, AtKeyword, stack, tree, errors)'
  BY <1>2, <1>4, <1>7, ReadsThere
<1> QED  BY <1>2, <1>3, <1>8 DEF RefInv

LEMMA FailingReads ==
  ASSUME IInv, TextInv, RefInv, HeaderFails \/ Unterminated \/ BlockEof \/ FreeStatement
  PROVE  RefInv'
<1>1. text' = text /\ phase' = "unwind" /\ ok' = ok /\ ~ok
  BY DEF HeaderFails, Unterminated, BlockEof, FreeStatement, RefInv
<1>2. CASE HeaderFails
  <2>1. PICK h : h = Header(pos) /\ h.err \notin {"none", "hang"} /\ phase = "statement"
    BY <1>2 DEF HeaderFails
  <2>2. Bad
    BY <2>1, StatementReads DEF HeaderIs
  <2> QED  BY <1>1, <2>2, FailsReads
<1>3. CASE Unterminated
  <2>1. PICK h : h = Header(pos) /\ h.err = "none" /\ text[h.end] \notin {";", "{"} /\ phase = "statement"
    BY <1>3 DEF Unterminated, NewStatement
  <2>2. Bad
    BY <2>1, StatementReads DEF HeaderIs, Endings, Semicolon, OpenBrace
  <2> QED  BY <1>1, <2>2, FailsReads
<1>4. CASE BlockEof
  <2>1. /\ text \in Seq(Char) /\ pos \in 1 .. End /\ Skip(pos) = End
        /\ Reads(pos, AtKeyword, stack, tree, errors)
    BY <1>4 DEF BlockEof, TextInv, ReadInv, RefInv
  <2>2. Bad
    BY <2>1, RefStops DEF Reads
  <2> QED  BY <1>1, <2>2, FailsReads
<1>5. CASE FreeStatement
  <2>1. Bad
    BY <1>5 DEF FreeStatement, RefInv
  <2> QED  BY <1>1, <2>1, FailsReads
<1> QED  BY <1>2, <1>3, <1>4, <1>5

LEMMA BlockReads ==
  ASSUME IInv, TextInv, RefInv, CloseBlock \/ NextInBlock
  PROVE  RefInv'
<1>1. /\ text' = text /\ tree' = tree /\ errors' = errors /\ version' = version /\ ok' = ok /\ ~ok
      /\ phase = "block"
  BY DEF CloseBlock, NextInBlock, RefInv
<1>2. /\ text \in Seq(Char) /\ pos \in 1 .. End /\ Reads(pos, AtKeyword, stack, tree, errors)
      /\ version = VersionOf(tree) /\ stack # <<>> /\ stack \in Seq(Nat)
  BY <1>1 DEF TextInv, TypeOK, ReadInv, RefInv, IInv, PhaseInv
<1>3. PICK n : n = Skip(pos)
  OBVIOUS
<1>4. n \in 1 .. End /\ RefAt(n) = RefAt(pos) /\ (n < End => n \in Begins)
  BY <1>2, <1>3, SkipToken DEF Reads
<1>5. At(n) # "eof" => n \in Begins /\ At(n) = text[n]
  BY <1>2, <1>4, TextOK
<1>6. PICK k, T, es : k = stack /\ T = tree /\ es = errors
  OBVIOUS
<1>7. RefAt(n) = Ref(AtKeyword, k, T, Members(es))
  BY <1>2, <1>4, <1>6 DEF Reads
<1>8. CASE CloseBlock
  <2>1. /\ At(n) = CloseBrace /\ pos' = n + 1 /\ stack' = Tail(stack)
        /\ phase' = (IF Len(stack) = 1 THEN "end" ELSE "block")
    BY <1>3, <1>8 DEF CloseBlock, CloseBrace
  <2>2. n \in Begins /\ text[n] = CloseBrace /\ CloseBrace \in Punctuation
    BY <1>5, <2>1 DEF CloseBrace, Punctuation
  <2>3. PICK t : t = TokenAt(Mode, n)
    OBVIOUS
  <2>4. RefAt(n + 1) = ReadToken(RefAt(n), t, Mode) /\ Boundary(n + 1) /\ Kind(t, CloseBrace)
    BY <1>2, <2>2, <2>3, PunctuationToken, KindIs
  <2>5. RefAt(n + 1) = Ref(AfterClose(k), Tail(k), T, Members(es))
    BY <1>2, <1>6, <1>7, <2>4, ReadsClose
  <2>6. CASE Len(stack) = 1
    <3>1. Tail(stack) = <<>>
      BY <1>2, <2>6, Popped DEF IInv
    <3>2. Reads(n + 1, AtEnd, <<>>, T, es)
      BY <1>6, <2>4, <2>5, <2>6, <3>1 DEF Reads, AfterClose
    <3>3. Reads(pos, AtEnd, stack, tree, errors)'
      BY <1>1, <1>6, <2>1, <3>1, <3>2, ReadsThere
    <3>4. stack' = <<>> /\ phase' = "end"
      BY <2>1, <2>6, <3>1
    <3> QED  BY <1>1, <3>3, <3>4 DEF RefInv
  <2>7. CASE Len(stack) # 1
    <3>1. Reads(n + 1, AtKeyword, Tail(k), T, es)
      BY <1>6, <2>4, <2>5, <2>7 DEF Reads, AfterClose
    <3>2. Reads(pos, AtKeyword, stack, tree, errors)'
      BY <1>1, <1>6, <2>1, <3>1, ReadsThere
    <3> QED  BY <1>1, <1>2, <2>1, <2>7, <3>2 DEF RefInv
  <2> QED  BY <2>6, <2>7
<1>9. CASE NextInBlock
  <2>1. /\ At(n) # "eof" /\ At(n) # CloseBrace /\ pos' = n /\ stack' = stack /\ phase' = "statement"
    BY <1>3, <1>9 DEF NextInBlock, CloseBrace
  <2>2. n \in Begins /\ text[n] # CloseBrace /\ Boundary(n)
    BY <1>2, <1>5, <2>1, BeginsOK
  <2>3. Reads(n, AtKeyword, k, T, es)
    BY <1>7, <2>2 DEF Reads
  <2>4. Reads(pos, AtKeyword, stack, tree, errors)'
    BY <1>1, <1>6, <2>1, <2>3, ReadsThere
  <2>5. Begins' = Begins
    BY <1>1, SameReference
  <2> QED  BY <1>1, <1>2, <2>1, <2>2, <2>4, <2>5 DEF RefInv
<1> QED  BY <1>8, <1>9

(* The end of the file is reached, or something follows the module.        *)
LEMMA FinishReads ==
  ASSUME IInv, TextInv, RefInv, Finish
  PROVE  RefInv'
<1>1. /\ text' = text /\ tree' = tree /\ phase' = "done" /\ ok' = TRUE /\ phase = "end"
      /\ errors' = (IF Skip(pos) = End THEN errors ELSE Append(errors, Error("TRAILING_GARBAGE", Skip(pos))))
  BY DEF Finish
<1>2. /\ text \in Seq(Char) /\ pos \in 1 .. End /\ Reads(pos, AtEnd, <<>>, tree, errors)
      /\ errors \in Seq(ParseError) /\ Unstopped
  BY <1>1 DEF TextInv, TypeOK, ReadInv, ErrorInv, RefInv
<1>3. PICK n : n = Skip(pos)
  OBVIOUS
<1>4. /\ n \in 1 .. End /\ RefAt(n) = Ref(AtEnd, <<>>, tree, Members(errors))
      /\ (n < End => n \in Begins) /\ (n = End => RefRead = RefAt(n))
  BY <1>2, <1>3, SkipToken DEF Reads
<1>5. RefRead' = RefRead
  BY <1>1, SameReference
<1>6. "TRAILING_GARBAGE" \notin EscapeCodes
  BY DEF EscapeCodes
<1>7. CASE n = End
  <2>1. RefRead = Ref(AtEnd, <<>>, tree, Members(errors)) /\ errors' = errors
    BY <1>1, <1>3, <1>4, <1>7
  <2>2. RefRead.state = "end" /\ RefRead.tree = tree /\ RefRead.escapes = Members(errors)
    BY <2>1 DEF Ref, AtEnd
  <2>3. {errors[i] : i \in {i \in DOMAIN errors : errors[i].code \in EscapeCodes}} = Members(errors)
    BY <1>2 DEF Unstopped, Members
  <2>4. "TRAILING_GARBAGE" \notin Codes
    BY <1>2, <1>6 DEF Unstopped, Codes
  <2>5. ParsedAs(RefRead)'
    BY <1>1, <1>5, <2>1, <2>2, <2>3, <2>4 DEF ParsedAs, Codes
  <2> QED  BY <1>1, <2>5 DEF RefInv
<1>8. CASE n # End
  <2>1. PICK e : e = Error("TRAILING_GARBAGE", n)
    OBVIOUS
  <2>2. errors' = Append(errors, e) /\ e.code = "TRAILING_GARBAGE"
    BY <1>1, <1>3, <1>8, <2>1 DEF Error
  <2>3. n \in Begins /\ n + 1 \in 1 .. End
    BY <1>2, <1>4, <1>8, BeginsOK, TextOK
  <2>4. RefAt(n + 1) = Ref(AtGarbage, <<>>, tree, Members(errors))
    BY <1>2, <1>4, <2>3, RefMoves, ReadsMore
  <2>5. RefAt(n + 1).state = "garbage" /\ RefAt(n + 1).tree = tree /\ RefAt(n + 1).escapes = Members(errors)
    BY <2>4 DEF Ref, AtGarbage
  <2>6. RefRead = RefAt(n + 1)
    <3>1. RefAt(n + 1).state = AtGarbage
      BY <2>5 DEF AtGarbage
    <3> QED  BY <1>2, <2>3, <3>1, GarbageStays
  <2>7. /\ DOMAIN errors' = 1 .. Len(errors) + 1 /\ DOMAIN errors = 1 .. Len(errors) /\ Len(errors) \in Nat
        /\ errors'[Len(errors) + 1] = e /\ \A i \in 1 .. Len(errors) : errors'[i] = errors[i]
    BY <1>2, <2>2
  <2>8. "TRAILING_GARBAGE" \in Codes'
    <3>1. Len(errors) + 1 \in DOMAIN errors'
      BY <2>7
    <3> QED  BY <2>2, <2>7, <3>1 DEF Codes
  <2>9. {errors'[i] : i \in {i \in DOMAIN errors' : errors'[i].code \in EscapeCodes}} = Members(errors)
    <3>1. {i \in DOMAIN errors' : errors'[i].code \in EscapeCodes} = DOMAIN errors
      <4>1. \A i \in DOMAIN errors' : errors'[i].code \in EscapeCodes <=> i \in DOMAIN errors
        <5> SUFFICES ASSUME NEW i \in DOMAIN errors'
                     PROVE  errors'[i].code \in EscapeCodes <=> i \in DOMAIN errors
          OBVIOUS
        <5>1. CASE i = Len(errors) + 1
          BY <1>6, <2>2, <2>7, <5>1
        <5>2. CASE i # Len(errors) + 1
          BY <1>2, <2>7, <5>2 DEF Unstopped
        <5> QED  BY <5>1, <5>2
      <4>2. DOMAIN errors \subseteq DOMAIN errors'
        BY <2>7
      <4> QED  BY <4>1, <4>2, Zenon
    <3>2. \A i \in DOMAIN errors : errors'[i] = errors[i]
      BY <2>7
    <3>3. {errors'[i] : i \in DOMAIN errors} = Members(errors)
      BY <3>2, Zenon DEF Members
    <3> QED  BY <3>1, <3>3
  <2>10. ParsedAs(RefRead)'
    BY <1>1, <1>5, <2>5, <2>6, <2>8, <2>9 DEF ParsedAs
  <2> QED  BY <1>1, <2>10 DEF RefInv
<1> QED  BY <1>7, <1>8

LEMMA FailReads ==
  ASSUME IInv, TextInv, RefInv, Fail
  PROVE  RefInv'
<1>1. text' = text /\ phase' = "done" /\ ok' = ok /\ ~ok /\ Bad
  BY DEF Fail, RefInv
<1>2. RefRead' = RefRead
  BY <1>1, SameReference
<1>3. RefRead.state \notin {"end", "garbage"}
  BY <1>1 DEF Bad, AtEnd, AtGarbage
<1>4. ParsedAs(RefRead)'
  BY <1>1, <1>2, <1>3 DEF ParsedAs
<1> QED  BY <1>1, <1>4 DEF RefInv

LEMMA RefStep == IInv /\ TextInv /\ RefInv /\ [Next]_vars => RefInv'
<1> SUFFICES ASSUME IInv, TextInv, RefInv, [Next]_vars
             PROVE  RefInv'
  OBVIOUS
<1>1. CASE CannotOpen \/ Open
  BY <1>1, OpenReads
<1>2. CASE HeaderFails \/ Unterminated \/ BlockEof \/ FreeStatement
  BY <1>2, FailingReads
<1>3. CASE ReadPastTheEnd
  <2>1. phase' = "hung" /\ ok' = ok /\ ~ok
    BY <1>3 DEF ReadPastTheEnd, RefInv
  <2> QED  BY <2>1 DEF RefInv
<1>4. CASE Simple
  BY <1>4, SimpleReads
<1>5. CASE OpenBlock
  BY <1>5, OpenBlockReads
<1>6. CASE CloseBlock \/ NextInBlock
  BY <1>6, BlockReads
<1>7. CASE Fail
  BY <1>7, FailReads
<1>8. CASE Finish
  BY <1>8, FinishReads
<1>9. CASE StillReading \/ Terminated \/ UNCHANGED vars
  <2>1. UNCHANGED vars
    BY <1>9 DEF StillReading, Terminated
  <2> QED  BY <2>1, SameReads
<1> QED  BY <1>1, <1>2, <1>3, <1>4, <1>5, <1>6, <1>7, <1>8, <1>9 DEF Next

(* For every file: yang_parse accepts it exactly when it is in the         *)
(* language that the two passes of the reference define, with the          *)
(* statements, arguments and errors for escapes that they say; otherwise   *)
(* it stops at one error and has lost at most an argument (ParsesExactly). *)
THEOREM ParsedExactly == Spec => []ParsesExactly
<1>1. IInv /\ TextInv /\ RefInv => (phase = "done" => (text # NoFile => ParsedAs(RefRead)))
  BY DEF RefInv
<1>2. (phase = "done" => (text # NoFile => ParsedAs(RefRead))) /\ (phase = "done" /\ ~ok => StoppedAtOnce)
        => ParsesExactly
  BY DEF ParsesExactly
<1>3. Init => IInv /\ TextInv /\ RefInv
  BY InitHolds, InitText, InitReads
<1>4. IInv /\ TextInv /\ RefInv /\ [Next]_vars => (IInv /\ TextInv /\ RefInv)'
  BY StepHolds, TextStep, RefStep
<1> QED  BY <1>1, <1>2, <1>3, <1>4, FailuresStopAtOnce, PTL DEF Spec
=============================================================================
