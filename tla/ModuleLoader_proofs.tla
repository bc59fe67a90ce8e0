------------------------ MODULE ModuleLoader_proofs ------------------------
(***************************************************************************)
(* Proofs about ModuleLoader, for any files, names, revisions and          *)
(* scenarios.                                                              *)
(***************************************************************************)
EXTENDS ModuleLoader, SequenceTheorems, FiniteSetTheorems, TLAPS

(* References are to stored modules.                                       *)
DepsLoaded == \A k \in DOMAIN modrevs : Deps(k) \subseteq Loaded

IInv == TypeOK /\ ProcessingIsStack /\ DepsLoaded /\ CallChain

-----------------------------------------------------------------------------
(* A nonempty finite set of naturals has a greatest element: an element    *)
(* with as few greater ones as possible has none.                          *)
LEMMA Greatest ==
  ASSUME NEW S, S \subseteq Nat, IsFiniteSet(S), S # {}
  PROVE  \E r \in S : \A q \in S : q <= r
<1> DEFINE Above(r) == {q \in S : q > r}
           T == {Above(r) : r \in S}
<1>1. IsWellFoundedOn(StrictSubsetOrdering(S), SUBSET S)
  BY FS_StrictSubsetOrderingWellFounded, FS_FiniteSubsetsOfFinite
<1>2. T \subseteq SUBSET S /\ T # {}
  OBVIOUS
<1> HIDE DEF T
<1>3. PICK A \in T : \A B \in T : <<B, A>> \notin StrictSubsetOrdering(S)
  BY <1>1, <1>2, WFMin
<1>4. PICK r \in S : A = Above(r)
  BY DEF T
<1>5. ASSUME NEW q \in S, q > r PROVE FALSE
  <2>1. Above(q) \in T
    BY DEF T
  <2>2. Above(q) \subseteq Above(r) /\ q \in Above(r) /\ q \notin Above(q)
    <3>1. q \in Nat /\ r \in Nat /\ \A x \in S : x \in Nat
      OBVIOUS
    <3>2. \A x \in S : x > q => x > r
      BY <1>5, <3>1
    <3>3. ~(q > q)
      BY <3>1
    <3> QED BY <1>5, <3>2, <3>3, Zenon
  <2>3. <<Above(q), A>> \in StrictSubsetOrdering(S)
    BY <1>2, <1>4, <2>1, <2>2 DEF StrictSubsetOrdering
  <2> QED BY <1>3, <2>1, <2>3
<1> QED BY <1>5

LEMMA LatestFacts ==
  ASSUME NEW S \in SUBSET AnyRevision, S # {}
  PROVE  Latest(S) \in S /\ \A q \in S : q <= Latest(S)
<1>1. AnyRevision \subseteq Nat /\ IsFiniteSet(AnyRevision)
  BY RevisionAssumption, FS_AddElement DEF AnyRevision, NoRevision
<1>2. S \subseteq Nat /\ IsFiniteSet(S)
  BY <1>1, FS_Subset
<1> QED BY <1>2, Greatest DEF Latest

-----------------------------------------------------------------------------
(* What adding an element in front of a list or at its end does.           *)
LEMMA ConsRange ==
  ASSUME NEW S, NEW s \in Seq(S), NEW e \in S
  PROVE  <<e>> \o s \in Seq(S) /\ Range(<<e>> \o s) = {e} \cup Range(s)
<1> DEFINE s1 == <<e>>
<1>1. s1 \in Seq(S) /\ Range(s1) = {e}
  BY DEF Range
<1> HIDE DEF s1
<1>2. s1 \o s \in Seq(S)
  BY <1>1, ConcatProperties
<1>3. Range(s1 \o s) = Range(s1) \cup Range(s)
  BY <1>1, RangeConcatenation
<1> QED BY <1>1, <1>2, <1>3 DEF s1

LEMMA AppendRange ==
  ASSUME NEW S, NEW s \in Seq(S), NEW e \in S
  PROVE  Append(s, e) \in Seq(S) /\ Range(Append(s, e)) = Range(s) \cup {e}
<1> DEFINE s1 == <<e>>
<1>1. s1 \in Seq(S) /\ Range(s1) = {e} /\ Append(s, e) = s \o s1
  BY AppendIsConcat DEF Range
<1> HIDE DEF s1
<1>2. s \o s1 \in Seq(S)
  BY <1>1, ConcatProperties
<1>3. Range(s \o s1) = Range(s) \cup Range(s1)
  BY <1>1, RangeConcatenation
<1> QED BY <1>1, <1>2, <1>3

-----------------------------------------------------------------------------
LEMMA FileFacts ==
  ASSUME TypeOK
  PROVE  /\ \A f \in File : scn.file[f] \in FileType /\ KeyOf(f) \in Key
         /\ \A k \in DOMAIN modrevs :
              /\ k \in Key /\ modrevs[k] \in Module /\ FileOf(k) \in FileType
              /\ State(k) \in {"processing", "module"}
         /\ \A k : State(k) = "absent" <=> k \notin DOMAIN modrevs
  BY DEF TypeOK, ScenarioType, FileType, KeyOf, Key, AnyRevision, Module,
         FileOf, State

LEMMA TopFacts ==
  ASSUME IInv, stack # <<>>
  PROVE  /\ Top = stack[1] /\ Top \in Frame /\ 1 \in DOMAIN stack
         /\ Top.key \in DOMAIN modrevs /\ State(Top.key) = "processing"
         /\ modrevs[Top.key] \in Module /\ FileOf(Top.key) \in FileType
<1>1. Top = stack[1] /\ Top \in Frame /\ 1 \in DOMAIN stack
  BY LenProperties DEF IInv, TypeOK, Top
<1>2. Top.key \in Processing
  BY <1>1 DEF IInv, ProcessingIsStack
<1> QED
  BY <1>1, <1>2, FileFacts DEF IInv, Processing

LEMMA AdvancedFacts ==
  ASSUME TypeOK, stack # <<>>
  PROVE  /\ Advanced \in Seq(Frame) /\ Len(Advanced) = Len(stack)
         /\ DOMAIN Advanced = DOMAIN stack
         /\ Advanced[1] = [key |-> stack[1].key, at |-> stack[1].at + 1]
         /\ \A i \in DOMAIN stack : i # 1 => Advanced[i] = stack[i]
         /\ \A i \in DOMAIN stack : Advanced[i].key = stack[i].key
<1> DEFINE e == [key |-> stack[1].key, at |-> stack[1].at + 1]
<1>1. stack \in Seq(Frame) /\ stack[1] \in Frame /\ 1 \in 1..Len(stack)
  BY LenProperties DEF TypeOK
<1>2. e \in Frame
  BY <1>1 DEF Frame
<1>3. Advanced = [stack EXCEPT ![1] = e]
  <2>1. Top = stack[1]
    BY <1>1 DEF Top
  <2> QED BY <2>1 DEF Advanced
<1> HIDE DEF e
<1>4. /\ [stack EXCEPT ![1] = e] \in Seq(Frame)
      /\ Len([stack EXCEPT ![1] = e]) = Len(stack)
      /\ \A j \in 1..Len(stack) :
           [stack EXCEPT ![1] = e][j] = IF j = 1 THEN e ELSE stack[j]
  BY <1>1, <1>2, ExceptSeq
<1>5. DOMAIN Advanced = DOMAIN stack /\ DOMAIN stack = 1..Len(stack)
  BY <1>1, <1>3
<1>6. Advanced[1] = e /\ e.key = stack[1].key
  BY <1>1, <1>3, <1>4 DEF e
<1>7. \A i \in DOMAIN stack : i # 1 => Advanced[i] = stack[i]
  BY <1>3, <1>4, <1>5
<1> QED
  BY <1>1, <1>3, <1>4, <1>5, <1>6, <1>7 DEF e

LEMMA LinkFacts ==
  ASSUME IInv, stack # <<>>, Top.at <= Len(FileOf(Top.key).links)
  PROVE  /\ Link \in LinkStmt
         /\ Target(Link) \in Key
<1>1. FileOf(Top.key).links \in Seq(LinkStmt) /\ Top.at \in Nat \ {0}
  BY TopFacts DEF FileType, Frame
<1>2. Link \in LinkStmt
  BY <1>1, ElementOfSeq DEF Link
<1>3. Target(Link) \in Key
  <2>1. Link.name \in Name /\ Link.rev \in AnyRevision
    BY <1>2 DEF LinkStmt
  <2>2. Revs(Link.name) \subseteq AnyRevision
    BY DEF Revs
  <2> QED BY <2>1, <2>2, LatestFacts DEF Target, Key
<1> QED BY <1>2, <1>3

-----------------------------------------------------------------------------
(* The ways a step changes modrevs, stack and ret.                         *)
Cause == {"primary", "deviation", "import", "include"}

LEMMA HereWithFacts ==
  ASSUME IInv, stack # <<>>, scn' = scn,
         NEW st \in {"processing", "module"},
         NEW imps \in Seq(Import), NEW subs \in Seq(Include),
         modrevs' = HereWith(st, imps, subs)
  PROVE  /\ DOMAIN modrevs' = DOMAIN modrevs
         /\ modrevs' \in [DOMAIN modrevs' -> Module]
         /\ \A k \in DOMAIN modrevs : k # Top.key => modrevs'[k] = modrevs[k]
         /\ modrevs'[Top.key].state = st
         /\ modrevs'[Top.key].file = Here.file
         /\ modrevs'[Top.key].imports = imps
         /\ modrevs'[Top.key].submodules = subs
         /\ \A k \in DOMAIN modrevs : FileOf(k)' = FileOf(k)
<1>1. Top.key \in DOMAIN modrevs /\ Here \in Module
  BY TopFacts DEF Here
<1>2. \A k \in DOMAIN modrevs : modrevs[k] \in Module
  BY DEF IInv, TypeOK
<1> DEFINE r == [state |-> st, file |-> Here.file, cause |-> Here.cause,
                 modulerevision |-> Here.modulerevision,
                 imports |-> imps, submodules |-> subs]
<1>3. r \in Module
  BY <1>1 DEF Module
<1>4. modrevs' = [modrevs EXCEPT ![Top.key] = r]
  BY DEF HereWith
<1> HIDE DEF r
<1>5. /\ DOMAIN modrevs' = DOMAIN modrevs
      /\ \A k \in DOMAIN modrevs :
           modrevs'[k] = IF k = Top.key THEN r ELSE modrevs[k]
      /\ modrevs' \in [DOMAIN modrevs' -> Module]
  BY <1>1, <1>2, <1>3, <1>4
<1>6. \A k \in DOMAIN modrevs : modrevs'[k].file = modrevs[k].file
  BY <1>5 DEF r, Here
<1> QED BY <1>1, <1>5, <1>6 DEF r, FileOf

(* What the module being linked is, and that setting nothing sets nothing. *)
LEMMA HereFacts ==
  ASSUME IInv, stack # <<>>
  PROVE  /\ Here \in Module /\ Here.file \in File /\ Top.at \in Nat
         /\ Top.key \in DOMAIN modrevs /\ Top.key \in Key
         /\ Here.imports \in Seq(Import) /\ Here.submodules \in Seq(Include)
         /\ {e.key : e \in Range(Here.imports) \cup Range(Here.submodules)}
               \subseteq Loaded
         /\ modrevs = HereWith("processing", Here.imports, Here.submodules)
<1>1. Here \in Module /\ Top.key \in DOMAIN modrevs /\ Top.key \in Key
      /\ State(Top.key) = "processing" /\ Top.at \in Nat
  BY TopFacts DEF Here, IInv, TypeOK, Frame
<1>2. /\ Here.imports \in Seq(Import) /\ Here.submodules \in Seq(Include)
      /\ Here.file \in File
  BY <1>1 DEF Module
<1>3. {e.key : e \in Range(Here.imports) \cup Range(Here.submodules)}
        \subseteq Loaded
  BY <1>1 DEF IInv, DepsLoaded, Deps, Here
<1>4. Here = [state |-> "processing", file |-> Here.file,
              cause |-> Here.cause, modulerevision |-> Here.modulerevision,
              imports |-> Here.imports, submodules |-> Here.submodules]
  BY <1>1 DEF Module, State, Here
<1>5. modrevs = HereWith("processing", Here.imports, Here.submodules)
  BY <1>1, <1>4 DEF HereWith, Here, IInv, TypeOK
<1> QED BY <1>1, <1>2, <1>3, <1>5

(* parse_linkage goes on, with the statement's effect on the module.       *)
LEMMA AdvanceStep ==
  ASSUME IInv, stack # <<>>, scn' = scn,
         Top.at <= Len(FileOf(Top.key).links),
         NEW imps \in Seq(Import), NEW subs \in Seq(Include),
         {e.key : e \in Range(imps) \cup Range(subs)} \subseteq Loaded,
         modrevs' = HereWith("processing", imps, subs),
         stack' = Advanced, ret' = NoKey
  PROVE  /\ modrevs' \in [DOMAIN modrevs' -> Module]
         /\ DOMAIN modrevs' \subseteq Key
         /\ stack' \in Seq(Frame)
         /\ ProcessingIsStack' /\ DepsLoaded' /\ CallChain'
         /\ Loaded' = Loaded
<1>1. /\ DOMAIN modrevs' = DOMAIN modrevs
      /\ modrevs' \in [DOMAIN modrevs' -> Module]
      /\ \A k \in DOMAIN modrevs : k # Top.key => modrevs'[k] = modrevs[k]
      /\ modrevs'[Top.key].state = "processing"
      /\ modrevs'[Top.key].imports = imps
      /\ modrevs'[Top.key].submodules = subs
      /\ \A k \in DOMAIN modrevs : FileOf(k)' = FileOf(k)
  BY HereWithFacts
<1>2. /\ Advanced \in Seq(Frame) /\ DOMAIN Advanced = DOMAIN stack
      /\ Advanced[1] = [key |-> stack[1].key, at |-> stack[1].at + 1]
      /\ \A i \in DOMAIN stack : i # 1 => Advanced[i] = stack[i]
      /\ \A i \in DOMAIN stack : Advanced[i].key = stack[i].key
  BY AdvancedFacts DEF IInv
<1>3. Top.key \in DOMAIN modrevs /\ modrevs[Top.key].state = "processing"
  BY TopFacts DEF State
<1>4. \A k \in DOMAIN modrevs : State(k)' = State(k)
  BY <1>1, <1>3 DEF State
<1>5. Processing' = Processing /\ Loaded' = Loaded
  BY <1>1, <1>4 DEF Processing, Loaded
<1>6. ProcessingIsStack'
  BY <1>2, <1>5 DEF ProcessingIsStack, IInv
<1>7. DepsLoaded'
  BY <1>1, <1>3, <1>5 DEF DepsLoaded, IInv, Deps
<1>8. ChainOfStatements'
  <2> SUFFICES ASSUME NEW i \in DOMAIN stack
               PROVE  LET links == FileOf(stack[i].key).links
                      IN  /\ Advanced[i].at <= Len(links) + 1
                          /\ i > 1 => /\ Advanced[i].at <= Len(links)
                                      /\ Answers(Advanced[i - 1].key,
                                                 links[Advanced[i].at])
    <3>1. \A i \in DOMAIN stack : stack[i].key \in DOMAIN modrevs
      BY DEF IInv, ProcessingIsStack, Processing
    <3> QED BY <1>1, <1>2, <3>1 DEF ChainOfStatements, Answers
  <2>1. DOMAIN stack = 1 .. Len(stack) /\ Len(stack) \in Nat
        /\ stack[1] \in Frame
    BY LenProperties, TopFacts DEF IInv, TypeOK
  <2>2. CASE i = 1
    <3>1. Advanced[1].at = Top.at + 1 /\ stack[1].key = Top.key
      BY <1>2, TopFacts
    <3>2. Len(FileOf(Top.key).links) \in Nat /\ Top.at \in Nat
      BY TopFacts, LenProperties DEF FileType, Frame
    <3> QED BY <2>2, <3>1, <3>2
  <2>3. CASE i # 1
    <3>1. Advanced[i] = stack[i] /\ i - 1 \in DOMAIN stack
          /\ Advanced[i - 1].key = stack[i - 1].key
      BY <1>2, <2>1, <2>3
    <3> QED BY <3>1 DEF IInv, CallChain, ChainOfStatements
  <2> QED BY <2>2, <2>3
<1> QED BY <1>1, <1>2, <1>5, <1>6, <1>7, <1>8
        DEF IInv, TypeOK, CallChain, ReturnAnswers

(* A module is entered.                                                    *)
LEMMA EnterStep ==
  ASSUME IInv, scn' = scn, ret = NoKey, ret' = NoKey,
         NEW k \in Key, State(k) = "absent", NEW m \in Module,
         stack # <<>> => /\ Top.at <= Len(FileOf(Top.key).links)
                         /\ Answers(k, Link),
         m.state = "processing", m.imports = <<>>, m.submodules = <<>>,
         modrevs' = [x \in DOMAIN modrevs \cup {k} |->
                       IF x = k THEN m ELSE modrevs[x]],
         stack' = <<[key |-> k, at |-> 1]>> \o stack
  PROVE  /\ modrevs' \in [DOMAIN modrevs' -> Module]
         /\ DOMAIN modrevs' \subseteq Key
         /\ stack' \in Seq(Frame)
         /\ ProcessingIsStack' /\ DepsLoaded' /\ CallChain'
         /\ Loaded' = Loaded
<1> DEFINE e == [key |-> k, at |-> 1]
<1>1. k \notin DOMAIN modrevs
  BY FileFacts DEF IInv
<1>2. /\ DOMAIN modrevs' = DOMAIN modrevs \cup {k} /\ modrevs'[k] = m
      /\ \A x \in DOMAIN modrevs : modrevs'[x] = modrevs[x]
  BY <1>1
<1>3. modrevs' \in [DOMAIN modrevs' -> Module] /\ DOMAIN modrevs' \subseteq Key
  BY <1>2 DEF IInv, TypeOK
<1>4. e \in Frame /\ <<e>> \in Seq(Frame) /\ Len(<<e>>) = 1 /\ <<e>>[1] = e
  BY DEF Frame
<1>5. stack \in Seq(Frame)
  BY DEF IInv, TypeOK
<1> HIDE DEF e
<1>6. /\ stack' \in Seq(Frame) /\ Len(stack') = 1 + Len(stack)
      /\ \A i \in 1 .. 1 + Len(stack) :
           stack'[i] = IF i <= 1 THEN <<e>>[i] ELSE stack[i - 1]
  BY <1>4, <1>5, ConcatProperties DEF e
<1>7. /\ DOMAIN stack' = 1 .. Len(stack) + 1 /\ DOMAIN stack = 1 .. Len(stack)
      /\ Len(stack) \in Nat
  BY <1>5, <1>6, LenProperties
<1>8. /\ stack'[1] = e /\ e.key = k
      /\ \A i \in 1 .. Len(stack) : stack'[i + 1] = stack[i] /\ i + 1 \in DOMAIN stack'
      /\ \A i \in DOMAIN stack' : i # 1 => i - 1 \in DOMAIN stack
                                          /\ stack'[i] = stack[i - 1]
  BY <1>4, <1>6, <1>7 DEF e
<1>9. \A x \in DOMAIN modrevs : State(x)' = State(x)
  BY <1>2 DEF State
<1>10. State(k)' = "processing"
  BY <1>2 DEF State
<1>11. Processing' = Processing \cup {k} /\ Loaded' = Loaded
  BY <1>1, <1>2, <1>9, <1>10 DEF Processing, Loaded
<1>12. Processing \subseteq DOMAIN modrevs
  BY DEF Processing
<1>13. ProcessingIsStack'
  <2>1. Processing' = {stack'[i].key : i \in DOMAIN stack'}
    <3>1. \A i \in DOMAIN stack' : stack'[i].key \in Processing'
      BY <1>7, <1>8, <1>11 DEF ProcessingIsStack, IInv
    <3>2. \A x \in Processing' : \E i \in DOMAIN stack' : stack'[i].key = x
      <4>1. 1 \in DOMAIN stack' /\ stack'[1].key = k
        BY <1>7, <1>8
      <4>2. ASSUME NEW x \in Processing
            PROVE  \E i \in DOMAIN stack' : stack'[i].key = x
        <5>1. PICK h \in DOMAIN stack : stack[h].key = x
          BY DEF ProcessingIsStack, IInv
        <5> QED BY <1>7, <1>8, <5>1
      <4> QED BY <1>11, <4>1, <4>2
    <3> DEFINE P == Processing'
               s == stack'
    <3>3. P = {s[i].key : i \in DOMAIN s}
      <4>1. (\A i \in DOMAIN s : s[i].key \in P)
            /\ (\A x \in P : \E i \in DOMAIN s : s[i].key = x)
        BY <3>1, <3>2
      <4> HIDE DEF P, s
      <4> QED BY <4>1
    <3> QED BY <3>3
  <2>2. ASSUME NEW i \in DOMAIN stack', NEW j \in DOMAIN stack',
               stack'[i].key = stack'[j].key
        PROVE  i = j
    <3>1. \A h \in DOMAIN stack : stack[h].key # k
      BY <1>1, <1>12 DEF ProcessingIsStack, IInv
    <3> QED BY <1>7, <1>8, <2>2, <3>1 DEF ProcessingIsStack, IInv
  <2> QED BY <2>1, <2>2 DEF ProcessingIsStack
<1>14. DepsLoaded'
  <2>1. Deps(k)' = {}
    BY <1>2 DEF Deps, Range
  <2>2. \A x \in DOMAIN modrevs : Deps(x)' = Deps(x)
    BY <1>2 DEF Deps
  <2> QED BY <1>2, <1>11, <2>1, <2>2 DEF DepsLoaded, IInv
<1>15. ChainOfStatements'
  <2> SUFFICES ASSUME NEW i \in DOMAIN stack'
               PROVE  LET links == FileOf(stack[i].key)'.links
                      IN  /\ stack'[i].at <= Len(links) + 1
                          /\ i > 1 => /\ stack'[i].at <= Len(links)
                                      /\ Answers(stack'[i - 1].key,
                                                 links[stack'[i].at])
    BY DEF ChainOfStatements, Answers
  <2>1. \A x \in DOMAIN modrevs : FileOf(x)' = FileOf(x)
    BY <1>2 DEF FileOf
  <2>2. CASE i = 1
    <3>1. FileOf(k)' \in FileType
      BY <1>2 DEF FileOf, IInv, TypeOK, ScenarioType, Module
    <3>2. Len(FileOf(k)'.links) \in Nat
      BY <3>1, LenProperties DEF FileType
    <3> QED BY <1>8, <2>2, <3>2 DEF e
  <2>3. CASE i # 1
    <3> DEFINE j == i - 1
    <3>1. j \in DOMAIN stack /\ stack'[i] = stack[j] /\ j \in Nat /\ i = j + 1
      BY <1>7, <1>8, <2>3
    <3>2. stack[j].key \in DOMAIN modrevs
      BY <3>1 DEF IInv, ProcessingIsStack, Processing
    <3>3. FileOf(stack[i].key)' = FileOf(stack[j].key)
      BY <2>1, <3>1, <3>2
    <3>4. CASE j = 1
      <4>1. stack # <<>> /\ stack[1] = Top /\ stack'[i - 1].key = k
        BY <1>5, <1>7, <1>8, <3>1, <3>4, LenProperties DEF Top
      <4>2. Top.at <= Len(FileOf(Top.key).links) /\ Answers(k, Link)
        BY <4>1
      <4>3. Len(FileOf(Top.key).links) \in Nat /\ Top.at \in Nat
        BY <4>1, TopFacts, LenProperties DEF FileType, Frame
      <4> QED BY <3>1, <3>3, <3>4, <4>1, <4>2, <4>3 DEF Link
    <3>5. CASE j # 1
      <4>1. stack'[i - 1] = stack[j - 1]
        BY <1>7, <1>8, <3>1, <3>5
      <4> QED BY <1>7, <3>1, <3>3, <3>5, <4>1
              DEF IInv, CallChain, ChainOfStatements
    <3> QED BY <3>4, <3>5
  <2> QED BY <2>2, <2>3
<1> QED BY <1>3, <1>6, <1>11, <1>13, <1>14, <1>15
        DEF CallChain, ReturnAnswers

(* A module is left, stored, and returned to the one that asked for it.    *)
LEMMA FinishStep ==
  ASSUME IInv, Finish
  PROVE  /\ modrevs' \in [DOMAIN modrevs' -> Module]
         /\ DOMAIN modrevs' = DOMAIN modrevs
         /\ stack' \in Seq(Frame)
         /\ ret' \in Key \cup {NoKey}
         /\ ProcessingIsStack' /\ DepsLoaded' /\ CallChain'
         /\ Loaded' = Loaded \cup {Top.key}
         /\ \A k \in DOMAIN modrevs : Deps(k)' = Deps(k)
<1> USE DEF Finish
<1>1. /\ Top = stack[1] /\ Top \in Frame /\ 1 \in DOMAIN stack
      /\ Top.key \in DOMAIN modrevs /\ Top.key \in Key
      /\ Here \in Module /\ stack \in Seq(Frame)
      /\ State(Top.key) = "processing"
  BY TopFacts DEF Here, IInv, TypeOK
<1>2. Here.imports \in Seq(Import) /\ Here.submodules \in Seq(Include)
  BY <1>1 DEF Module
<1>3. /\ DOMAIN modrevs' = DOMAIN modrevs
      /\ modrevs' \in [DOMAIN modrevs' -> Module]
      /\ \A k \in DOMAIN modrevs : k # Top.key => modrevs'[k] = modrevs[k]
      /\ modrevs'[Top.key].state = "module"
      /\ modrevs'[Top.key].imports = Here.imports
      /\ modrevs'[Top.key].submodules = Here.submodules
      /\ \A k \in DOMAIN modrevs : FileOf(k)' = FileOf(k)
  BY <1>2, HereWithFacts DEF unlinked
<1>4. /\ stack' \in Seq(Frame) /\ Len(stack') = Len(stack) - 1
      /\ \A i \in 1 .. Len(stack') : stack'[i] = stack[i + 1]
      /\ DOMAIN stack = 1 .. Len(stack) /\ DOMAIN stack' = 1 .. Len(stack')
      /\ Len(stack) \in Nat /\ Len(stack') \in Nat
  BY <1>1, HeadTailProperties, LenProperties
<1>5. \A k \in DOMAIN modrevs :
        State(k)' = IF k = Top.key THEN "module" ELSE State(k)
  BY <1>3 DEF State
<1>6. /\ Processing' = Processing \ {Top.key}
      /\ Loaded' = Loaded \cup {Top.key}
  BY <1>1, <1>3, <1>5 DEF Processing, Loaded
<1>7. \A k \in DOMAIN modrevs : Deps(k)' = Deps(k)
  BY <1>1, <1>3 DEF Deps, Here
<1>8. DepsLoaded'
  BY <1>3, <1>6, <1>7 DEF DepsLoaded, IInv
<1>9. ProcessingIsStack'
  <2>1. \A i \in DOMAIN stack' : i + 1 \in DOMAIN stack
                                   /\ stack'[i] = stack[i + 1]
    BY <1>4
  <2>2. \A i \in DOMAIN stack : i # 1 => i - 1 \in DOMAIN stack'
                                          /\ stack'[i - 1] = stack[i]
    BY <1>4
  <2>3. \A i \in DOMAIN stack' : stack'[i].key \in Processing'
    <3> SUFFICES ASSUME NEW i \in DOMAIN stack'
                 PROVE  stack'[i].key \in Processing'
      OBVIOUS
    <3>1. i + 1 \in DOMAIN stack /\ stack'[i] = stack[i + 1] /\ i + 1 # 1
      BY <1>4
    <3>2. stack[i + 1].key \in Processing /\ stack[i + 1].key # stack[1].key
      BY <1>1, <3>1 DEF IInv, ProcessingIsStack
    <3> QED BY <1>1, <1>6, <3>1, <3>2
  <2>4. \A x \in Processing' : \E i \in DOMAIN stack' : stack'[i].key = x
    <3> SUFFICES ASSUME NEW x \in Processing, x # Top.key
                 PROVE  \E i \in DOMAIN stack' : stack'[i].key = x
      BY <1>6
    <3>1. PICK h \in DOMAIN stack : stack[h].key = x
      BY DEF IInv, ProcessingIsStack
    <3> QED BY <1>1, <2>2, <3>1
  <2>5. \A i, j \in DOMAIN stack' : stack'[i].key = stack'[j].key => i = j
    <3> SUFFICES ASSUME NEW i \in DOMAIN stack', NEW j \in DOMAIN stack',
                        stack'[i].key = stack'[j].key
                 PROVE  i = j
      OBVIOUS
    <3>1. i + 1 \in DOMAIN stack /\ j + 1 \in DOMAIN stack
          /\ stack[i + 1].key = stack[j + 1].key
      BY <2>1
    <3>2. i + 1 = j + 1
      BY <3>1 DEF IInv, ProcessingIsStack
    <3> QED BY <1>4, <3>2
  <2> DEFINE P == Processing'
             s == stack'
  <2>6. P = {s[i].key : i \in DOMAIN s}
    <3>1. (\A i \in DOMAIN s : s[i].key \in P)
          /\ (\A x \in P : \E i \in DOMAIN s : s[i].key = x)
      BY <2>3, <2>4
    <3> HIDE DEF P, s
    <3> QED BY <3>1
  <2> QED BY <2>5, <2>6 DEF ProcessingIsStack
<1>10. \A i \in DOMAIN stack' :
         /\ i + 1 \in DOMAIN stack /\ stack'[i] = stack[i + 1]
         /\ stack[i + 1].key \in DOMAIN modrevs
  BY <1>4 DEF IInv, ProcessingIsStack, Processing
<1>11. ChainOfStatements'
  <2> SUFFICES ASSUME NEW i \in DOMAIN stack'
               PROVE  LET links == FileOf(stack[i].key)'.links
                      IN  /\ stack'[i].at <= Len(links) + 1
                          /\ i > 1 => /\ stack'[i].at <= Len(links)
                                      /\ Answers(stack'[i - 1].key,
                                                 links[stack'[i].at])
    BY DEF ChainOfStatements, Answers
  <2> DEFINE j == i + 1
  <2>1. j \in DOMAIN stack /\ stack'[i] = stack[j] /\ j \in Nat /\ j > 1
        /\ (i > 1 => stack'[i - 1] = stack[j - 1])
    BY <1>4
  <2>2. FileOf(stack[i].key)' = FileOf(stack[j].key)
    BY <1>3, <1>10, <2>1
  <2>3. LET links == FileOf(stack[j].key).links
        IN  /\ stack[j].at <= Len(links) + 1
            /\ stack[j].at <= Len(links)
            /\ Answers(stack[j - 1].key, links[stack[j].at])
    BY <2>1 DEF IInv, CallChain, ChainOfStatements
  <2> QED BY <2>1, <2>2, <2>3
<1>12. ReturnAnswers'
  <2> SUFFICES ASSUME ret' # NoKey
               PROVE  /\ stack' # <<>> /\ Top'.at <= Len(FileOf(Top.key)'.links)
                      /\ ret' \in Loaded'
                      /\ Answers(ret', Link')
    BY DEF ReturnAnswers, Answers
  <2>1. stack' # <<>> /\ ret' = Top.key /\ ret' \in Loaded'
    BY <1>6
  <2>2. 1 \in DOMAIN stack' /\ Top' = stack'[1] /\ stack'[1] = stack[2]
        /\ 2 \in DOMAIN stack
    BY <1>4, <2>1, LenProperties DEF Top
  <2>3. FileOf(Top.key)' = FileOf(stack[2].key)
    BY <1>3, <1>10, <2>2
  <2>4. LET links == FileOf(stack[2].key).links
        IN  /\ stack[2].at <= Len(links)
            /\ Answers(stack[1].key, links[stack[2].at])
    BY <2>2 DEF IInv, CallChain, ChainOfStatements
  <2> QED BY <1>1, <2>1, <2>2, <2>3, <2>4 DEF Link
<1>13. ret' \in Key \cup {NoKey}
  BY <1>1
<1> QED BY <1>3, <1>4, <1>6, <1>7, <1>8, <1>9, <1>11, <1>12, <1>13 DEF CallChain

-----------------------------------------------------------------------------
(* The part of the invariant that is about modrevs, stack, ret and errors. *)
Core ==
  /\ modrevs \in [DOMAIN modrevs -> Module] /\ DOMAIN modrevs \subseteq Key
  /\ stack \in Seq(Frame)
  /\ ret \in Key \cup {NoKey}
  /\ errors \subseteq Error
  /\ ProcessingIsStack /\ DepsLoaded /\ CallChain

LEMMA ReportType ==
  ASSUME IInv, NEW codes \in SUBSET ErrorCode, NEW f \in File, NEW at \in Nat,
         Report(codes, f, at)
  PROVE  errors' \subseteq Error
  BY DEF Report, Error, IInv, TypeOK

LEMMA SameModules ==
  ASSUME IInv, UNCHANGED <<scn, modrevs, stack>>
  PROVE  /\ ProcessingIsStack' /\ DepsLoaded' /\ ChainOfStatements'
         /\ Loaded' = Loaded /\ Top' = Top /\ Link' = Link
         /\ FileOf(Top.key)' = FileOf(Top.key)
<1>1. \A k : State(k)' = State(k) /\ FileOf(k)' = FileOf(k)
             /\ Deps(k)' = Deps(k)
  BY DEF State, FileOf, Deps
<1>2. Processing' = Processing /\ Loaded' = Loaded
  BY <1>1 DEF Processing, Loaded
<1>3. Top' = Top
  BY DEF Top
<1>4. FileOf(Top.key)' = FileOf(Top.key)
  BY <1>3 DEF FileOf
<1>5. Link' = Link
  BY <1>3, <1>4 DEF Link
<1>6. ProcessingIsStack'
  BY <1>2 DEF IInv, ProcessingIsStack
<1>7. DepsLoaded'
  BY <1>1, <1>2 DEF IInv, DepsLoaded
<1>8. ChainOfStatements'
  BY <1>1 DEF IInv, CallChain, ChainOfStatements, Answers, FileOf
<1> QED BY <1>2, <1>3, <1>4, <1>5, <1>6, <1>7, <1>8

(* Only ret changes.                                                       *)
LEMMA FoundStep ==
  ASSUME IInv, scn' = scn, NEW k \in Loaded, Found(k),
         stack # <<>> => /\ Top.at <= Len(FileOf(Top.key).links)
                         /\ Answers(k, Link)
  PROVE  Core'
<1>1. UNCHANGED <<scn, modrevs, stack, errors>>
  BY DEF Found
<1>2. k \in Key
  BY DEF Loaded, IInv, TypeOK
<1>3. ret' \in Key \cup {NoKey}
  BY <1>2 DEF Found
<1>4. /\ ProcessingIsStack' /\ DepsLoaded' /\ ChainOfStatements'
      /\ Loaded' = Loaded /\ Top' = Top /\ Link' = Link
      /\ FileOf(Top.key)' = FileOf(Top.key)
  BY <1>1, SameModules
<1>5. ReturnAnswers'
  BY <1>1, <1>4 DEF Found, ReturnAnswers, Answers
<1> QED BY <1>1, <1>3, <1>4, <1>5 DEF Core, IInv, TypeOK, CallChain

(* A statement without effect: only the errors and the position change.    *)
LEMMA FailedStep ==
  ASSUME IInv, scn' = scn, ret = NoKey,
         stack # <<>> => Top.at <= Len(FileOf(Top.key).links),
         NEW codes \in SUBSET ErrorCode, NEW f \in File, NEW at \in Nat,
         Failed(codes, f, at)
  PROVE  Core'
<1>1. errors' \subseteq Error
  BY ReportType DEF Failed
<1>2. CASE stack = <<>>
  <2>1. UNCHANGED <<scn, modrevs, stack, ret>>
    BY <1>2 DEF Failed
  <2>2. ProcessingIsStack' /\ DepsLoaded' /\ ChainOfStatements'
    BY <2>1, SameModules
  <2>3. ReturnAnswers'
    BY <2>1 DEF ReturnAnswers
  <2> QED BY <1>1, <2>1, <2>2, <2>3 DEF Core, IInv, TypeOK, CallChain
<1>3. CASE stack # <<>>
  <2>1. /\ Here.imports \in Seq(Import) /\ Here.submodules \in Seq(Include)
        /\ {e.key : e \in Range(Here.imports) \cup Range(Here.submodules)}
              \subseteq Loaded
        /\ modrevs = HereWith("processing", Here.imports, Here.submodules)
    BY <1>3, HereFacts
  <2>2. modrevs' = HereWith("processing", Here.imports, Here.submodules)
        /\ stack' = Advanced /\ ret' = NoKey
    BY <1>3, <2>1 DEF Failed
  <2> QED BY <1>1, <1>3, <2>1, <2>2, AdvanceStep DEF Core
<1> QED BY <1>2, <1>3

LEMMA AddParsedStep ==
  ASSUME IInv, scn' = scn, ret = NoKey,
         NEW f \in File, NEW cause \in Cause, NEW incRev \in AnyRevision,
         stack # <<>> => /\ Top.at <= Len(FileOf(Top.key).links)
                         /\ Answers(KeyOf(f), Link),
         AddParsed(f, cause, incRev)
  PROVE  Core'
<1> DEFINE k == KeyOf(f)
<1>1. k \in Key /\ k[2] \in AnyRevision
  BY FileFacts DEF IInv, Key
<1>2. CASE State(k) = "processing"
  <2>1. Failed({"CIRCULAR_DEPENDENCY"}, f, 0)
    BY <1>2 DEF AddParsed
  <2> QED BY <2>1, FailedStep DEF ErrorCode
<1>3. CASE State(k) = "module"
  <2>1. k \in Loaded
    BY <1>3 DEF Loaded, State
  <2>2. Found(k)
    BY <1>3 DEF AddParsed
  <2> HIDE DEF k
  <2> QED BY <2>1, <2>2, FoundStep DEF k
<1>4. CASE State(k) = "absent"
  <2> DEFINE m == [state |-> "processing", file |-> f, cause |-> cause,
            modulerevision |->
              IF scn.file[f].kind = "module" THEN k[2] ELSE incRev,
            imports |-> <<>>, submodules |-> <<>>]
  <2>1. m \in Module /\ m.state = "processing" /\ m.imports = <<>>
        /\ m.submodules = <<>>
    BY <1>1 DEF Module, Cause
  <2>2. /\ modrevs' = [x \in DOMAIN modrevs \cup {k} |->
                        IF x = k THEN m ELSE modrevs[x]]
        /\ stack' = <<[key |-> k, at |-> 1]>> \o stack
        /\ UNCHANGED <<ret, errors>>
    BY <1>4 DEF AddParsed
  <2> HIDE DEF k, m
  <2>3. stack # <<>> => /\ Top.at <= Len(FileOf(Top.key).links)
                        /\ Answers(k, Link)
    BY DEF k
  <2> QED BY <1>1, <1>4, <2>1, <2>2, <2>3, EnterStep DEF Core, IInv, TypeOK
<1>5. State(k) \in {"processing", "module", "absent"}
  BY FileFacts DEF IInv
<1> QED BY <1>2, <1>3, <1>4, <1>5

-----------------------------------------------------------------------------
(* One lemma per kind of step.                                             *)

LEMMA FileForType ==
  ASSUME NEW n, NEW r
  PROVE  FileFor(n, r) \subseteq File
  BY DEF FileFor, Named

LEMMA LinkingFacts ==
  ASSUME IInv, Linking
  PROVE  /\ Link \in LinkStmt /\ Target(Link) \in Key
         /\ stack # <<>> /\ ret = NoKey
         /\ Top.at <= Len(FileOf(Top.key).links)
         /\ Here.file \in File /\ Top.at \in Nat
         /\ Here.modulerevision \in AnyRevision
  BY LinkFacts, TopFacts DEF Linking, Here, Module, Frame

LEMMA TargetAnswers ==
  ASSUME IInv, Linking PROVE Answers(Target(Link), Link)
  BY DEF Target, Answers

LEMMA LinkSteps ==
  ASSUME IInv, LinkKnown \/ LinkCircular \/ LinkNotFound \/ LinkUnparsable
                 \/ LinkFile
  PROVE  Core'
<1>1. Linking /\ scn' = scn
  BY DEF LinkKnown, LinkCircular, LinkNotFound, LinkUnparsable, LinkFile,
         unlinked
<1>2. /\ Link \in LinkStmt /\ Target(Link) \in Key
      /\ stack # <<>> /\ ret = NoKey
      /\ Top.at <= Len(FileOf(Top.key).links)
      /\ Here.file \in File /\ Top.at \in Nat
      /\ Here.modulerevision \in AnyRevision
  BY <1>1, LinkingFacts
<1>3. CASE LinkKnown
  <2> DEFINE k == Target(Link)
  <2>1. k \in Loaded /\ Answers(k, Link) /\ Found(k)
    BY <1>1, <1>2, <1>3, TargetAnswers DEF LinkKnown, Loaded, State
  <2> HIDE DEF k
  <2> QED BY <1>1, <1>2, <2>1, FoundStep
<1>4. CASE LinkCircular
  BY <1>1, <1>2, <1>4, FailedStep DEF LinkCircular, ErrorCode
<1>5. CASE LinkNotFound
  BY <1>1, <1>2, <1>5, FailedStep DEF LinkNotFound, ErrorCode
<1>6. CASE LinkUnparsable
  <2>1. PICK f \in File : Failed({"PARSE_ERROR"}, f, 0)
    BY <1>6, FileForType DEF LinkUnparsable
  <2> QED BY <1>1, <1>2, <2>1, FailedStep DEF ErrorCode
<1>7. CASE LinkFile
  <2> DEFINE incRev == IF Link.kw = "include" THEN Here.modulerevision
                       ELSE NoRevision
  <2>1. PICK f \in File :
          IF Mismatch(f, Link) # {} THEN Failed(Mismatch(f, Link), f, 0)
          ELSE AddParsed(f, Link.kw, incRev)
    BY <1>7, FileForType DEF LinkFile
  <2>2. CASE Mismatch(f, Link) # {}
    <3>1. Mismatch(f, Link) \in SUBSET ErrorCode
      BY DEF Mismatch, ErrorCode
    <3> QED BY <1>1, <1>2, <2>1, <2>2, <3>1, FailedStep
  <2>3. CASE Mismatch(f, Link) = {}
    <3>1. Answers(KeyOf(f), Link)
      BY <2>3 DEF Mismatch, Answers, KeyOf
    <3>2. Link.kw \in Cause /\ incRev \in AnyRevision
      BY <1>2 DEF LinkStmt, Cause, AnyRevision
    <3>3. AddParsed(f, Link.kw, incRev)
      BY <2>1, <2>3
    <3> HIDE DEF incRev
    <3> QED BY <1>1, <1>2, <3>1, <3>2, <3>3, AddParsedStep
  <2> QED BY <2>2, <2>3
<1> QED BY <1>3, <1>4, <1>5, <1>6, <1>7

LEMMA TakeImportStep ==
  ASSUME IInv, TakeImport
  PROVE  Core'
<1> USE DEF TakeImport
<1>1. scn' = scn /\ stack # <<>> /\ ret \in Loaded /\ ret \in Key
      /\ ret' = NoKey /\ stack' = Advanced
      /\ Top.at <= Len(FileOf(Top.key).links)
  BY DEF unlinked, IInv, CallChain, ReturnAnswers, Loaded, TypeOK
<1>2. Link \in LinkStmt
  BY <1>1, LinkFacts
<1>3. /\ Here.file \in File /\ Top.at \in Nat
      /\ Here.imports \in Seq(Import) /\ Here.submodules \in Seq(Include)
      /\ {e.key : e \in Range(Here.imports) \cup Range(Here.submodules)}
            \subseteq Loaded
      /\ modrevs = HereWith("processing", Here.imports, Here.submodules)
  BY <1>1, HereFacts
<1>4. errors' \subseteq Error
  <2>1. PICK codes \in SUBSET ErrorCode : Report(codes, Here.file, Top.at)
    BY DEF ErrorCode
  <2> QED BY <1>3, <2>1, ReportType
<1> DEFINE entry == [key |-> ret, requested |-> Link.rev]
           imps == <<entry>> \o Here.imports
<1>5. entry \in Import /\ entry.key = ret
  BY <1>1, <1>2 DEF Import, LinkStmt
<1>6. \/ modrevs' = modrevs
      \/ modrevs' = HereWith("processing", imps, Here.submodules)
  OBVIOUS
<1>7. CASE modrevs' = modrevs
  BY <1>1, <1>3, <1>4, <1>7, AdvanceStep DEF Core
<1>8. CASE modrevs' = HereWith("processing", imps, Here.submodules)
  <2> HIDE DEF entry
  <2>1. imps \in Seq(Import) /\ Range(imps) = {entry} \cup Range(Here.imports)
    BY <1>3, <1>5, ConsRange
  <2> HIDE DEF imps
  <2>2. {e.key : e \in Range(imps) \cup Range(Here.submodules)} \subseteq Loaded
    BY <1>1, <1>3, <1>5, <2>1
  <2> QED BY <1>1, <1>3, <1>4, <1>8, <2>1, <2>2, AdvanceStep DEF Core
<1> QED BY <1>6, <1>7, <1>8

LEMMA TakeIncludeStep ==
  ASSUME IInv, TakeInclude
  PROVE  Core'
<1> USE DEF TakeInclude
<1>1. scn' = scn /\ stack # <<>> /\ ret \in Loaded /\ ret \in Key
      /\ ret' = NoKey /\ stack' = Advanced
      /\ Top.at <= Len(FileOf(Top.key).links)
  BY DEF unlinked, IInv, CallChain, ReturnAnswers, Loaded, TypeOK
<1>2. /\ Here.file \in File /\ Top.at \in Nat
      /\ Here.imports \in Seq(Import) /\ Here.submodules \in Seq(Include)
      /\ {e.key : e \in Range(Here.imports) \cup Range(Here.submodules)}
            \subseteq Loaded
  BY <1>1, HereFacts
<1>3. modrevs[ret].file \in File
  BY <1>1 DEF Loaded, IInv, TypeOK, Module
<1>4. errors' \subseteq Error
  BY <1>2, <1>3 DEF Report, Error, ErrorCode, IInv, TypeOK
<1> DEFINE entry == [key |-> ret, at |-> Top.at]
           subs == Append(Here.submodules, entry)
<1>5. entry \in Include /\ entry.key = ret
  BY <1>1, <1>2 DEF Include
<1>6. modrevs' = HereWith("processing", Here.imports, subs)
  OBVIOUS
<1> HIDE DEF entry, TakeInclude
<1>7. subs \in Seq(Include) /\ Range(subs) = Range(Here.submodules) \cup {entry}
  BY <1>2, <1>5, AppendRange
<1> HIDE DEF subs
<1>8. {e.key : e \in Range(Here.imports) \cup Range(subs)} \subseteq Loaded
  BY <1>1, <1>2, <1>5, <1>7
<1> QED BY <1>1, <1>2, <1>4, <1>6, <1>7, <1>8, AdvanceStep DEF Core

LEMMA FinishCore ==
  ASSUME IInv, Finish
  PROVE  Core'
<1>1. stack # <<>>
  BY DEF Finish
<1>2. /\ Here.submodules \in Seq(Include)
      /\ {e.key : e \in Range(Here.imports) \cup Range(Here.submodules)}
            \subseteq Loaded
  BY <1>1, HereFacts
<1>3. MissingIncludes(Here) \subseteq Error
  <2> SUFFICES ASSUME NEW k \in {s.key : s \in Range(Here.submodules)},
                      NEW s \in Range(modrevs[k].submodules)
               PROVE  [code |-> "MISSING_INCLUDE", file |-> modrevs[k].file,
                       at |-> s.at] \in Error
    BY DEF MissingIncludes
  <2>1. k \in DOMAIN modrevs
    BY <1>2 DEF Loaded
  <2>2. modrevs[k] \in Module
    BY <2>1 DEF IInv, TypeOK
  <2>3. modrevs[k].file \in File /\ modrevs[k].submodules \in Seq(Include)
    BY <2>2 DEF Module
  <2>4. s \in Include
    BY <2>3, RangeOfSeq
  <2> QED BY <2>3, <2>4 DEF Include, Error, ErrorCode
<1>4. errors' \subseteq Error
  BY <1>3 DEF Finish, IInv, TypeOK
<1> QED BY <1>4, FinishStep DEF Core, IInv, TypeOK

LEMMA AddFileStep ==
  ASSUME IInv, AddFile \/ AddFileUnparsable
  PROVE  Core' /\ todo' \in Seq(Argument) /\ primary' \subseteq Name
<1>1. stack = <<>> /\ ret = NoKey /\ scn' = scn /\ todo # <<>>
  BY DEF AddFile, AddFileUnparsable, Idle, IInv, CallChain, ReturnAnswers
<1>2. Head(todo) \in Argument /\ Tail(todo) \in Seq(Argument)
  BY <1>1, HeadTailProperties DEF IInv, TypeOK
<1>3. Head(todo).file \in File /\ Head(todo).cause \in Cause
  BY <1>2 DEF Argument, Cause
<1>4. CASE AddFile
  <2>1. AddParsed(Head(todo).file, Head(todo).cause, NoRevision)
    BY <1>4 DEF AddFile
  <2>2. Core'
    BY <1>1, <1>3, <2>1, AddParsedStep DEF AnyRevision
  <2>3. scn.file[Head(todo).file].name \in Name
    BY <1>3, FileFacts DEF IInv, FileType
  <2> QED BY <1>2, <1>4, <2>2, <2>3 DEF AddFile, IInv, TypeOK
<1>5. CASE AddFileUnparsable
  <2>1. Failed({"PARSE_ERROR"}, Head(todo).file, 0)
    BY <1>1, <1>5 DEF AddFileUnparsable, Failed
  <2>2. Core'
    BY <1>1, <1>3, <2>1, FailedStep DEF ErrorCode
  <2> QED BY <1>2, <1>5, <2>2 DEF AddFileUnparsable, IInv, TypeOK
<1> QED BY <1>4, <1>5

LEMMA PostStep ==
  ASSUME IInv, PostAddModules
  PROVE  Core'
<1>1. UNCHANGED <<scn, modrevs, stack, ret>>
  BY DEF PostAddModules
<1>2. \A k \in LoadedModules :
        [code |-> "DUPLICATE_NAMESPACE", file |-> modrevs[k].file, at |-> 0]
          \in Error
  BY DEF LoadedModules, Loaded, IInv, TypeOK, Module, Error, ErrorCode
<1>3. errors' \subseteq Error
  BY <1>2 DEF PostAddModules, IInv, TypeOK
<1>4. ProcessingIsStack' /\ DepsLoaded' /\ ChainOfStatements'
      /\ Loaded' = Loaded /\ Top' = Top /\ Link' = Link
      /\ FileOf(Top.key)' = FileOf(Top.key)
  BY <1>1, SameModules
<1>5. ReturnAnswers'
  BY <1>1, <1>4 DEF IInv, CallChain, ReturnAnswers, Answers
<1> QED BY <1>1, <1>3, <1>4, <1>5 DEF Core, IInv, TypeOK, CallChain

-----------------------------------------------------------------------------
LEMMA InitIInv == Init => IInv
<1> SUFFICES ASSUME Init PROVE IInv
  OBVIOUS
<1> USE DEF Init
<1>1. scn \in ScenarioType
  BY ScenarioAssumption
<1>2. TypeOK
  BY <1>1 DEF TypeOK, ScenarioType
<1>3. Processing = {} /\ DOMAIN stack = {} /\ DOMAIN modrevs = {}
  BY DEF Processing
<1> QED
  BY <1>2, <1>3 DEF IInv, ProcessingIsStack, DepsLoaded, CallChain,
     ChainOfStatements, ReturnAnswers

LEMMA SameCore ==
  ASSUME IInv, UNCHANGED vars PROVE Core'
<1>1. UNCHANGED <<scn, modrevs, stack, ret, errors>>
  BY DEF vars
<1>2. ProcessingIsStack' /\ DepsLoaded' /\ ChainOfStatements'
      /\ Loaded' = Loaded /\ Top' = Top /\ Link' = Link
      /\ FileOf(Top.key)' = FileOf(Top.key)
  BY <1>1, SameModules
<1>3. ReturnAnswers'
  BY <1>1, <1>2 DEF IInv, CallChain, ReturnAnswers, Answers
<1> QED BY <1>1, <1>2, <1>3 DEF Core, IInv, TypeOK, CallChain

LEMMA NextCore ==
  ASSUME IInv, Next PROVE Core'
<1>1. CASE PostAddModules
  BY <1>1, PostStep
<1>2. CASE Terminated
  BY <1>2, SameCore DEF Terminated
<1> QED
  BY <1>1, <1>2, AddFileStep, LinkSteps, TakeImportStep, TakeIncludeStep,
     FinishCore DEF Next

LEMMA StepIInv == IInv /\ [Next]_vars => IInv'
<1> SUFFICES ASSUME IInv, [Next]_vars PROVE IInv'
  OBVIOUS
<1>1. CASE Next
  <2>1. Core'
    BY <1>1, NextCore
  <2>2. /\ scn' = scn /\ phase' \in {"add", "post"}
        /\ canonical' \in BOOLEAN
    BY <1>1 DEF Next, AddFile, AddFileUnparsable, LinkKnown, LinkCircular,
         LinkNotFound, LinkUnparsable, LinkFile, TakeImport, TakeInclude,
         Finish, PostAddModules, Terminated, unlinked, vars, CanonicalFor,
         IInv, TypeOK
  <2>3. todo' \in Seq(Argument) /\ primary' \subseteq Name
    <3>1. CASE AddFile \/ AddFileUnparsable
      BY <3>1, AddFileStep
    <3>2. CASE ~(AddFile \/ AddFileUnparsable)
      <4>1. todo' = todo /\ primary' = primary
        BY <1>1, <3>2 DEF Next, LinkKnown, LinkCircular, LinkNotFound,
           LinkUnparsable, LinkFile, TakeImport, TakeInclude, Finish,
           PostAddModules, Terminated, unlinked, vars
      <4> QED BY <4>1 DEF IInv, TypeOK
    <3> QED BY <3>1, <3>2
  <2> QED BY <2>1, <2>2, <2>3 DEF IInv, Core, TypeOK
<1>2. CASE UNCHANGED vars
  <2>1. Core'
    BY <1>2, SameCore
  <2> QED BY <1>2, <2>1 DEF IInv, Core, TypeOK, vars
<1> QED BY <1>1, <1>2

(* Types, for every scenario.                                              *)
THEOREM TypeCorrect == Spec => []TypeOK
<1>1. IInv => TypeOK
  BY DEF IInv
<1> QED BY <1>1, InitIInv, StepIInv, PTL DEF Spec

(* The mark 'processing' is on the modules of the call stack, and only on  *)
(* them, whatever files there are and in whatever way they fail.           *)
THEOREM MarkIsCallStack == Spec => []ProcessingIsStack
<1>1. IInv => ProcessingIsStack
  BY DEF IInv
<1> QED BY <1>1, InitIInv, StepIInv, PTL DEF Spec

(* The call stack is a chain of import and include statements, and what    *)
(* search_module returns is what the statement asked for.                  *)
THEOREM CallsAnswer == Spec => []CallChain
<1>1. IInv => CallChain
  BY DEF IInv
<1> QED BY <1>1, InitIInv, StepIInv, PTL DEF Spec

-----------------------------------------------------------------------------
(* ModuleLoader implements DepthFirst.                                     *)
DFStep == [DF!Next]_(DF!dfVars)

LEMMA SameMap ==
  ASSUME modrevs' = modrevs
  PROVE  DFStep
<1>1. \A k : State(k)' = State(k) /\ Deps(k)' = Deps(k)
  BY DEF State, Deps
<1>2. Status' = Status
  BY <1>1 DEF Status
<1>3. DependsOn' = DependsOn
  BY <1>1 DEF DependsOn
<1> QED BY <1>2, <1>3 DEF DFStep, DF!dfVars

LEMMA EnterMap ==
  ASSUME IInv, NEW f \in File, NEW cause, NEW incRev,
         AddParsed(f, cause, incRev)
  PROVE  DFStep
<1> DEFINE k == KeyOf(f)
<1>1. k \in Key
  BY FileFacts DEF IInv
<1>2. CASE State(k) # "absent"
  <2>1. State(k) \in {"processing", "module"}
    BY <1>2, FileFacts DEF IInv
  <2>2. modrevs' = modrevs
    BY <2>1 DEF AddParsed, Failed, Found
  <2> QED BY <2>2, SameMap
<1>3. CASE State(k) = "absent"
  <2> DEFINE m == [state |-> "processing", file |-> f, cause |-> cause,
            modulerevision |->
              IF scn.file[f].kind = "module" THEN k[2] ELSE incRev,
            imports |-> <<>>, submodules |-> <<>>]
  <2>1. /\ m.state = "processing" /\ m.imports = <<>> /\ m.submodules = <<>>
        /\ modrevs' = [x \in DOMAIN modrevs \cup {k} |->
                        IF x = k THEN m ELSE modrevs[x]]
    BY <1>3 DEF AddParsed
  <2> HIDE DEF k, m
  <2>2. k \notin DOMAIN modrevs
    BY <1>3, FileFacts DEF IInv
  <2>3. \A x \in Key \ {k} : /\ State(x)' = State(x)
                             /\ x \in DOMAIN modrevs' <=> x \in DOMAIN modrevs
                             /\ x \in DOMAIN modrevs => Deps(x)' = Deps(x)
    BY <2>1 DEF State, Deps
  <2>4. \A x : x = k => State(x)' = "processing" /\ Deps(x)' = {}
    BY <2>1 DEF State, Deps, Range
  <2>9. DOMAIN modrevs' = DOMAIN modrevs \cup {k}
    BY <2>1
  <2>5. Status[k] = "new" /\ Status' = [Status EXCEPT ![k] = "open"]
    <3>1. Status[k] = "new"
      BY <1>1, <2>2 DEF Status
    <3>2. \A x \in Key : Status'[x] = IF x = k THEN "open" ELSE Status[x]
      BY <2>3, <2>4, <2>9 DEF Status
    <3>3. /\ Status = [x \in Key |-> Status[x]]
          /\ Status' = [x \in Key |-> Status'[x]]
      BY DEF Status
    <3> QED BY <1>1, <3>1, <3>2, <3>3
  <2>6. DependsOn' = DependsOn
    BY <1>1, <2>2, <2>3, <2>4 DEF DependsOn
  <2>7. DF!Open(k)
    BY <2>5, <2>6 DEF DF!Open
  <2> QED BY <1>1, <2>7 DEF DFStep, DF!Next
<1> QED BY <1>2, <1>3

LEMMA FinishMap ==
  ASSUME IInv, Finish
  PROVE  DFStep
<1>1. stack # <<>> /\ scn' = scn
  BY DEF Finish, unlinked
<1>2. /\ Top.key \in DOMAIN modrevs /\ Top.key \in Key
      /\ Here.imports \in Seq(Import) /\ Here.submodules \in Seq(Include)
      /\ State(Top.key) = "processing"
  BY <1>1, HereFacts, TopFacts
<1>3. /\ DOMAIN modrevs' = DOMAIN modrevs
      /\ \A k \in DOMAIN modrevs : k # Top.key => modrevs'[k] = modrevs[k]
      /\ modrevs'[Top.key].state = "module"
      /\ \A k \in DOMAIN modrevs : Deps(k)' = Deps(k)
  BY <1>1, <1>2, HereWithFacts, FinishStep DEF Finish
<1> DEFINE t == Top.key
<1>4. \A k : State(k)' = IF k = t THEN "module" ELSE State(k)
  BY <1>2, <1>3 DEF State
<1>5. Status[t] = "open" /\ Status' = [Status EXCEPT ![t] = "closed"]
  <2>1. Status[t] = "open"
    BY <1>2 DEF Status
  <2>2. \A x \in Key : Status'[x] = IF x = t THEN "closed" ELSE Status[x]
    BY <1>2, <1>3, <1>4 DEF Status
  <2>3. /\ Status = [x \in Key |-> Status[x]]
        /\ Status' = [x \in Key |-> Status'[x]]
    BY DEF Status
  <2> HIDE DEF t
  <2> QED BY <1>2, <2>1, <2>2, <2>3 DEF t
<1>6. DependsOn' = DependsOn
  BY <1>3 DEF DependsOn
<1>7. DF!Close(t)
  BY <1>5, <1>6 DEF DF!Close
<1> QED BY <1>2, <1>7 DEF DFStep, DF!Next

LEMMA TakeMap ==
  ASSUME IInv, TakeImport \/ TakeInclude
  PROVE  DFStep
<1>1. scn' = scn /\ stack # <<>> /\ ret \in Loaded
  BY DEF TakeImport, TakeInclude, unlinked, IInv, CallChain, ReturnAnswers
<1>2. CASE modrevs' = modrevs
  BY <1>2, SameMap
<1>3. CASE modrevs' # modrevs
  <2> DEFINE t == Top.key
  <2>1. /\ Here.imports \in Seq(Import) /\ Here.submodules \in Seq(Include)
        /\ t \in DOMAIN modrevs /\ t \in Key /\ Top.at \in Nat
        /\ State(t) = "processing"
    BY <1>1, HereFacts, TopFacts
  <2>2. ret \in Key /\ Link \in LinkStmt
    <3>1. ret # NoKey
      BY <1>1 DEF TakeImport, TakeInclude
    <3>2. Top.at <= Len(FileOf(Top.key).links)
      BY <3>1 DEF IInv, CallChain, ReturnAnswers
    <3>3. ret \in Key
      BY <1>1 DEF Loaded, IInv, TypeOK
    <3> QED BY <1>1, <3>2, <3>3, LinkFacts
  <2>3. PICK imps \in Seq(Import), subs \in Seq(Include) :
          /\ modrevs' = HereWith("processing", imps, subs)
          /\ {e.key : e \in Range(imps) \cup Range(subs)} = Deps(t) \cup {ret}
    <3>1. CASE TakeImport
      <4> DEFINE entry == [key |-> ret, requested |-> Link.rev]
      <4>1. entry \in Import /\ entry.key = ret
        BY <2>2 DEF Import, LinkStmt
      <4>2. modrevs' = HereWith("processing", <<entry>> \o Here.imports,
                                Here.submodules)
        BY <1>3, <3>1 DEF TakeImport
      <4> HIDE DEF entry
      <4>3. /\ <<entry>> \o Here.imports \in Seq(Import)
            /\ Range(<<entry>> \o Here.imports)
                 = {entry} \cup Range(Here.imports)
        BY <2>1, <4>1, ConsRange
      <4> QED BY <2>1, <4>1, <4>2, <4>3 DEF Deps, Here
    <3>2. CASE TakeInclude
      <4> DEFINE entry == [key |-> ret, at |-> Top.at]
      <4>1. entry \in Include /\ entry.key = ret
        BY <2>1, <2>2 DEF Include
      <4>2. modrevs' = HereWith("processing", Here.imports,
                                Append(Here.submodules, entry))
        BY <3>2 DEF TakeInclude
      <4> HIDE DEF entry
      <4> DEFINE subs == Append(Here.submodules, entry)
      <4>3. /\ subs \in Seq(Include)
            /\ Range(subs) = Range(Here.submodules) \cup {entry}
        BY <2>1, <4>1, AppendRange
      <4>4. modrevs' = HereWith("processing", Here.imports, subs)
        BY <4>2
      <4> HIDE DEF subs
      <4>5. {e.key : e \in Range(Here.imports) \cup Range(subs)}
              = Deps(t) \cup {ret}
        BY <4>1, <4>3 DEF Deps, Here
      <4> QED BY <2>1, <4>3, <4>4, <4>5
    <3> QED BY <3>1, <3>2
  <2>4. /\ DOMAIN modrevs' = DOMAIN modrevs
        /\ \A k \in DOMAIN modrevs : k # t => modrevs'[k] = modrevs[k]
        /\ modrevs'[Top.key].state = "processing"
        /\ modrevs'[Top.key].imports = imps
        /\ modrevs'[Top.key].submodules = subs
    BY <1>1, <2>3, HereWithFacts
  <2>5. \A k \in Key : State(k)' = State(k)
    BY <2>1, <2>4 DEF State
  <2>6. \A k \in DOMAIN modrevs :
          Deps(k)' = IF k = t THEN Deps(t) \cup {ret} ELSE Deps(k)
    BY <2>3, <2>4 DEF Deps
  <2>7. Status' = Status
    BY <2>4, <2>5 DEF Status
  <2>8. Status[t] = "open" /\ Status[ret] = "closed"
    BY <1>1, <2>1, <2>2 DEF Status, Loaded
  <2>9. DependsOn' = [DependsOn EXCEPT ![t] = @ \cup {ret}]
    <3>1. DependsOn[t] = Deps(t)
      BY <2>1 DEF DependsOn
    <3>2. \A k \in Key : DependsOn'[k] = IF k = t THEN Deps(t) \cup {ret}
                                         ELSE DependsOn[k]
      BY <2>1, <2>4, <2>6 DEF DependsOn
    <3>3. /\ DependsOn = [k \in Key |-> DependsOn[k]]
          /\ DependsOn' = [k \in Key |-> DependsOn'[k]]
      BY DEF DependsOn
    <3> HIDE DEF t
    <3> QED BY <2>1, <3>1, <3>2, <3>3
  <2>10. DF!Depend(t, ret)
    BY <2>7, <2>8, <2>9 DEF DF!Depend
  <2> QED BY <2>1, <2>2, <2>10 DEF DFStep, DF!Next
<1> QED BY <1>2, <1>3

LEMMA StepMap == IInv /\ [Next]_vars => DFStep
<1> SUFFICES ASSUME IInv, [Next]_vars PROVE DFStep
  OBVIOUS
<1>1. CASE AddFile
  <2>1. stack = <<>> /\ todo # <<>>
        /\ AddParsed(Head(todo).file, Head(todo).cause, NoRevision)
    BY <1>1 DEF AddFile, Idle
  <2>2. Head(todo).file \in File
    <3>1. Head(todo) \in Argument
      BY <2>1, HeadTailProperties DEF IInv, TypeOK
    <3> QED BY <3>1 DEF Argument
  <2> QED BY <2>1, <2>2, EnterMap
<1>2. CASE LinkFile
  <2>1. PICK f \in File :
          IF Mismatch(f, Link) # {} THEN Failed(Mismatch(f, Link), f, 0)
          ELSE AddParsed(f, Link.kw, IF Link.kw = "include"
                                       THEN Here.modulerevision ELSE NoRevision)
    BY <1>2, FileForType DEF LinkFile
  <2>2. CASE Mismatch(f, Link) # {}
    BY <2>1, <2>2, SameMap DEF Failed
  <2>3. CASE Mismatch(f, Link) = {}
    BY <2>1, <2>3, EnterMap
  <2> QED BY <2>2, <2>3
<1>3. CASE Finish
  BY <1>3, FinishMap
<1>4. CASE TakeImport \/ TakeInclude
  BY <1>4, TakeMap
<1>5. CASE \/ AddFileUnparsable \/ LinkKnown \/ LinkCircular \/ LinkNotFound
           \/ LinkUnparsable \/ PostAddModules \/ Terminated \/ UNCHANGED vars
  <2>1. modrevs' = modrevs
    BY <1>5 DEF AddFileUnparsable, LinkKnown, LinkCircular, LinkNotFound,
       LinkUnparsable, PostAddModules, Terminated, vars, Failed, Found
  <2> QED BY <2>1, SameMap
<1> QED BY <1>1, <1>2, <1>3, <1>4, <1>5 DEF Next

LEMMA InitMap == Init => DF!Init
  BY DEF Init, DF!Init, Status, DependsOn, State

(* Whatever the files and the order they are asked for: a module is opened *)
(* once, refers to complete modules only, and is closed once.              *)
THEOREM ImplementsDepthFirst == Spec => RefinesDepthFirst
<1>1. Init => DF!Init
  BY InitMap
<1>2. IInv /\ [Next]_vars => [DF!Next]_(DF!dfVars)
  BY StepMap DEF DFStep
<1> QED
  BY <1>1, <1>2, InitIInv, StepIInv, PTL DEF Spec, RefinesDepthFirst, DF!Spec

-----------------------------------------------------------------------------
(* What DepthFirst promises.  Acyclicity alone is not inductive: what a new*)
(* dependency closes over must be known not to lead back.                  *)
DFInv == DF!TypeOK /\ DF!DependOnClosed /\ DF!Acyclic

(* A new dependency of an open node on a closed one makes no cycle: the    *)
(* closed nodes of a set already have a node that depends on none of them, *)
(* and a closed node depends on closed nodes only.                         *)
LEMMA DependKeepsAcyclic ==
  ASSUME DFInv, NEW n \in Key, NEW d \in Key, DF!Depend(n, d)
  PROVE  DF!Acyclic'
<1> USE DEF DFInv, DF!TypeOK
<1> SUFFICES ASSUME NEW S \in (SUBSET Key) \ {{}}
             PROVE  \E m \in S : DependsOn'[m] \cap S = {}
  BY DEF DF!Acyclic
<1> DEFINE T == {m \in S : Status[m] = "closed"}
<1>1. DependsOn' = [DependsOn EXCEPT ![n] = @ \cup {d}] /\ Status[n] = "open"
      /\ Status[d] = "closed"
  BY DEF DF!Depend
<1>2. CASE T = {}
  <2>1. PICK m \in S : DependsOn[m] \cap S = {}
    BY DEF DF!Acyclic
  <2>2. DependsOn'[m] \subseteq DependsOn[m] \cup {d}
    BY <1>1
  <2>3. d \notin S
    BY <1>1, <1>2
  <2> QED BY <2>1, <2>2, <2>3
<1>3. CASE T # {}
  <2>1. T \in (SUBSET Key) \ {{}}
    BY <1>3
  <2>2. PICK m \in T : DependsOn[m] \cap T = {}
    BY <2>1 DEF DF!Acyclic
  <2>3. DependsOn'[m] = DependsOn[m]
    BY <1>1
  <2>4. \A x \in DependsOn[m] \cap S : x \in T
    BY DEF DF!DependOnClosed
  <2> QED BY <2>2, <2>3, <2>4
<1> QED BY <1>2, <1>3

LEMMA StepKeepsDFInv == DFInv /\ [DF!Next]_(DF!dfVars) => DFInv'
<1> SUFFICES ASSUME DFInv, [DF!Next]_(DF!dfVars) PROVE DFInv'
  OBVIOUS
<1> USE DEF DFInv, DF!TypeOK
<1>1. ASSUME NEW n \in Key, DF!Open(n) PROVE DFInv'
  BY <1>1 DEF DF!Open, DF!DependOnClosed, DF!Acyclic
<1>2. ASSUME NEW n \in Key, DF!Close(n) PROVE DFInv'
  BY <1>2 DEF DF!Close, DF!DependOnClosed, DF!Acyclic
<1>3. ASSUME NEW n \in Key, NEW d \in Key, DF!Depend(n, d) PROVE DFInv'
  <2>1. DF!TypeOK' /\ DF!DependOnClosed'
    BY <1>3 DEF DF!Depend, DF!DependOnClosed
  <2>2. DF!Acyclic'
    BY <1>3, DependKeepsAcyclic
  <2> QED BY <2>1, <2>2
<1>4. CASE UNCHANGED DF!dfVars
  BY <1>4 DEF DF!dfVars, DF!DependOnClosed, DF!Acyclic
<1> QED BY <1>1, <1>2, <1>3, <1>4 DEF DF!Next

LEMMA InitDFInv == DF!Init => DFInv
  BY DEF DF!Init, DFInv, DF!TypeOK, DF!DependOnClosed, DF!Acyclic

(* Whatever implements DepthFirst keeps its dependencies closed and        *)
(* without cycles.                                                         *)
THEOREM NoCycles == RefinesDepthFirst => [](DF!DependOnClosed /\ DF!Acyclic)
<1>1. DFInv => DF!DependOnClosed /\ DF!Acyclic
  BY DEF DFInv
<1> QED BY <1>1, InitDFInv, StepKeepsDFInv, PTL DEF RefinesDepthFirst, DF!Spec

(* The modules in the context never refer to each other in a circle, even  *)
(* when the files do: the reference that would close it is reported.       *)
THEOREM ContextAcyclic == Spec => []NoImportCycle
<1>1. DF!Acyclic => NoImportCycle
  BY DEF NoImportCycle
<1> QED BY <1>1, NoCycles, ImplementsDepthFirst, PTL

-----------------------------------------------------------------------------
(* A file that search_file accepts holds a module that is not there yet.   *)
LEMMA SearchLemma == IInv => SearchFindsNew
<1> SUFFICES ASSUME IInv PROVE SearchFindsNew
  OBVIOUS
<1> SUFFICES ASSUME Linking, State(Target(Link)) = "absent",
                    NEW f \in File, Mismatch(f, Link) = {}
             PROVE  KeyOf(f) \notin DOMAIN modrevs
  <2>1. \A k : State(k) = "absent" <=> k \notin DOMAIN modrevs
    BY FileFacts DEF IInv
  <2>2. FileFor(Link.name, Target(Link)[2]) \subseteq File
    BY FileForType
  <2> QED BY <2>1, <2>2 DEF SearchFindsNew
<1>1. Target(Link) \notin DOMAIN modrevs /\ Link \in LinkStmt
  BY LinkingFacts, FileFacts DEF IInv
<1>2. scn.file[f].name = Link.name /\ scn.file[f].rev \in AnyRevision
      /\ (Link.rev # NoRevision => scn.file[f].rev = Link.rev)
  BY FileFacts DEF Mismatch, IInv, FileType
<1>3. CASE Link.rev # NoRevision
  BY <1>1, <1>2, <1>3 DEF KeyOf, Target
<1>4. CASE Link.rev = NoRevision
  <2>1. Revs(Link.name) = {}
    <3> SUFFICES ASSUME Revs(Link.name) # {} PROVE FALSE
      OBVIOUS
    <3>1. Latest(Revs(Link.name)) \in Revs(Link.name)
      BY LatestFacts DEF Revs
    <3> QED BY <1>1, <1>4, <3>1 DEF Target, Revs
  <2> QED BY <1>2, <2>1 DEF Revs, KeyOf
<1> QED BY <1>3, <1>4

(* A file that search_module has to read never holds a module that the     *)
(* context has, so the recursion meets only new modules.                   *)
THEOREM SearchesAreNew == Spec => []SearchFindsNew
<1> QED BY SearchLemma, InitIInv, StepIInv, PTL DEF Spec

-----------------------------------------------------------------------------
(* What a step does to the modules already in the context, and what it     *)
(* knows of one it adds.                                                   *)
Evolution ==
  /\ \A k \in DOMAIN modrevs :
       /\ k \in DOMAIN modrevs' /\ modrevs'[k].file = modrevs[k].file
       /\ k \in Loaded => modrevs'[k] = modrevs[k]
  /\ \A k \in DOMAIN modrevs' \ DOMAIN modrevs :
       Parses(modrevs'[k].file, canonical')

LEMMA EvolutionEnter ==
  ASSUME IInv, NEW f \in File, NEW cause, NEW incRev,
         Parses(f, canonical'), AddParsed(f, cause, incRev)
  PROVE  Evolution
<1>1. CASE State(KeyOf(f)) = "absent"
  <2> DEFINE k == KeyOf(f)
             m == [state |-> "processing", file |-> f, cause |-> cause,
            modulerevision |->
              IF scn.file[f].kind = "module" THEN k[2] ELSE incRev,
            imports |-> <<>>, submodules |-> <<>>]
  <2>1. /\ m.file = f
        /\ modrevs' = [x \in DOMAIN modrevs \cup {k} |->
                        IF x = k THEN m ELSE modrevs[x]]
    BY <1>1 DEF AddParsed
  <2>2. k \notin DOMAIN modrevs
    BY <1>1, FileFacts DEF IInv
  <2> HIDE DEF k, m
  <2> QED BY <2>1, <2>2 DEF Evolution
<1>2. CASE State(KeyOf(f)) # "absent"
  <2>1. State(KeyOf(f)) \in {"processing", "module"}
    BY <1>2, FileFacts DEF IInv
  <2>2. modrevs' = modrevs
    BY <2>1 DEF AddParsed, Failed, Found
  <2> QED BY <2>2 DEF Evolution
<1> QED BY <1>1, <1>2

LEMMA EvolutionHere ==
  ASSUME IInv, stack # <<>>, scn' = scn,
         NEW st \in {"processing", "module"},
         NEW imps \in Seq(Import), NEW subs \in Seq(Include),
         modrevs' = HereWith(st, imps, subs)
  PROVE  Evolution
<1>1. /\ DOMAIN modrevs' = DOMAIN modrevs
      /\ \A k \in DOMAIN modrevs : k # Top.key => modrevs'[k] = modrevs[k]
      /\ modrevs'[Top.key].file = modrevs[Top.key].file
  BY HereWithFacts DEF Here
<1>2. Top.key \notin Loaded
  BY TopFacts DEF Loaded
<1> QED BY <1>1, <1>2 DEF Evolution

LEMMA StepEvolution == IInv /\ [Next]_vars => Evolution
<1> SUFFICES ASSUME IInv, [Next]_vars PROVE Evolution
  OBVIOUS
<1>1. CASE AddFile
  <2>1. stack = <<>> /\ todo # <<>> /\ canonical' = canonical
        /\ AddParsed(Head(todo).file, Head(todo).cause, NoRevision)
        /\ Parses(Head(todo).file, canonical)
    BY <1>1 DEF AddFile, Idle
  <2>2. Head(todo).file \in File
    <3>1. Head(todo) \in Argument
      BY <2>1, HeadTailProperties DEF IInv, TypeOK
    <3> QED BY <3>1 DEF Argument
  <2>3. Parses(Head(todo).file, canonical')
    BY <2>1
  <2> QED BY <2>1, <2>2, <2>3, EvolutionEnter
<1>2. CASE LinkFile
  <2>1. canonical' = CanonicalFor(Link)
    BY <1>2 DEF LinkFile
  <2>2. PICK f \in File :
          /\ Parses(f, CanonicalFor(Link))
          /\ IF Mismatch(f, Link) # {} THEN Failed(Mismatch(f, Link), f, 0)
             ELSE AddParsed(f, Link.kw, IF Link.kw = "include"
                              THEN Here.modulerevision ELSE NoRevision)
    BY <1>2, FileForType DEF LinkFile
  <2>3. Parses(f, canonical')
    BY <2>1, <2>2
  <2>4. CASE Mismatch(f, Link) # {}
    BY <2>2, <2>4 DEF Failed, Evolution
  <2>5. CASE Mismatch(f, Link) = {}
    BY <2>2, <2>3, <2>5, EvolutionEnter
  <2> QED BY <2>4, <2>5
<1>3. CASE Finish \/ TakeImport \/ TakeInclude
  <2>1. stack # <<>> /\ scn' = scn
    BY <1>3 DEF Finish, TakeImport, TakeInclude, unlinked
  <2>2. Here.imports \in Seq(Import) /\ Here.submodules \in Seq(Include)
        /\ Top.at \in Nat
    BY <2>1, HereFacts
  <2>3. CASE Finish
    BY <2>1, <2>2, <2>3, EvolutionHere DEF Finish
  <2>4. CASE TakeImport \/ TakeInclude
    <3>1. ret # NoKey
      BY <2>4 DEF TakeImport, TakeInclude
    <3>2. ret \in Key /\ Top.at <= Len(FileOf(Top.key).links)
      BY <3>1 DEF IInv, TypeOK, CallChain, ReturnAnswers
    <3>3. Link \in LinkStmt
      BY <2>1, <3>2, LinkFacts
    <3>4. CASE TakeImport
      <4> DEFINE e == [key |-> ret, requested |-> Link.rev]
      <4>1. e \in Import
        BY <3>2, <3>3 DEF Import, LinkStmt
      <4>2. \/ modrevs' = modrevs
            \/ modrevs' = HereWith("processing", <<e>> \o Here.imports,
                                   Here.submodules)
        BY <3>4 DEF TakeImport
      <4> HIDE DEF e
      <4>3. <<e>> \o Here.imports \in Seq(Import)
        BY <2>2, <4>1, ConsRange
      <4>4. CASE modrevs' = modrevs
        BY <4>4 DEF Evolution
      <4> QED BY <2>1, <2>2, <4>2, <4>3, <4>4, EvolutionHere
    <3>5. CASE TakeInclude
      <4> DEFINE e == [key |-> ret, at |-> Top.at]
      <4>1. e \in Include
        BY <2>2, <3>2 DEF Include
      <4>2. modrevs' = HereWith("processing", Here.imports,
                                Append(Here.submodules, e))
        BY <3>5 DEF TakeInclude
      <4> HIDE DEF e
      <4>3. Append(Here.submodules, e) \in Seq(Include)
        BY <2>2, <4>1, AppendRange
      <4> QED BY <2>1, <2>2, <4>2, <4>3, EvolutionHere
    <3> QED BY <2>4, <3>4, <3>5
  <2> QED BY <1>3, <2>3, <2>4
<1>4. CASE \/ AddFileUnparsable \/ LinkKnown \/ LinkCircular \/ LinkNotFound
           \/ LinkUnparsable \/ PostAddModules \/ Terminated \/ UNCHANGED vars
  <2>1. modrevs' = modrevs
    BY <1>4 DEF AddFileUnparsable, LinkKnown, LinkCircular, LinkNotFound,
       LinkUnparsable, PostAddModules, Terminated, vars, Failed, Found
  <2> QED BY <2>1 DEF Evolution
<1> QED BY <1>1, <1>2, <1>3, <1>4 DEF Next

(* A stored module stays as it is, so the copies others hold are current.  *)
THEOREM StoredForGood == Spec => StoredOnce
<1>1. IInv /\ [Next]_vars =>
        [\A k \in Loaded : k \in DOMAIN modrevs' /\ modrevs'[k] = modrevs[k]]_vars
  BY StepEvolution DEF Evolution, Loaded
<1> QED BY <1>1, InitIInv, StepIInv, PTL DEF Spec, StoredOnce

(* While the context's canonical flag is up, all that was parsed was       *)
(* checked for canonical order.                                            *)
THEOREM CanonicalSoFar == Spec => []CanonicalUntilImport
<1>1. Init => CanonicalUntilImport
  BY DEF Init, CanonicalUntilImport
<1>2. IInv /\ CanonicalUntilImport /\ [Next]_vars => CanonicalUntilImport'
  <2> SUFFICES ASSUME IInv, CanonicalUntilImport, [Next]_vars, canonical',
                      NEW k \in DOMAIN modrevs'
               PROVE  scn'.file[modrevs'[k].file].ordered
    BY DEF CanonicalUntilImport, FileOf
  <2>1. canonical /\ scn' = scn
    BY DEF Next, AddFile, AddFileUnparsable, LinkKnown, LinkCircular,
         LinkNotFound, LinkUnparsable, LinkFile, TakeImport, TakeInclude,
         Finish, PostAddModules, Terminated, unlinked, vars, CanonicalFor
  <2>2. CASE k \in DOMAIN modrevs
    BY <2>1, <2>2, StepEvolution DEF Evolution, CanonicalUntilImport, FileOf
  <2>3. CASE k \notin DOMAIN modrevs
    BY <2>1, <2>3, StepEvolution DEF Evolution, Parses
  <2> QED BY <2>2, <2>3
<1> QED BY <1>1, <1>2, InitIInv, StepIInv, PTL DEF Spec

-----------------------------------------------------------------------------
(* What no step takes away: errors, and the references of a module.        *)
Kept ==
  /\ scn' = scn /\ errors \subseteq errors' /\ Loaded \subseteq Loaded'
  /\ \A k \in DOMAIN modrevs :
       /\ k \in DOMAIN modrevs' /\ modrevs'[k].file = modrevs[k].file
       /\ Range(modrevs[k].imports) \subseteq Range(modrevs'[k].imports)
       /\ Range(modrevs[k].submodules) \subseteq Range(modrevs'[k].submodules)

(* The statement has had its effect or an error says why not.              *)
Settled(k, i) == Resolved(k, i) \/ Reported(k, i)

LEMMA KeptSettled ==
  ASSUME Kept, NEW k \in DOMAIN modrevs, NEW i, Settled(k, i)
  PROVE  Settled(k, i)'
<1>1. /\ FileOf(k)' = FileOf(k) /\ modrevs'[k].file = modrevs[k].file
      /\ Loaded \subseteq Loaded' /\ scn' = scn
      /\ Range(modrevs[k].imports) \subseteq Range(modrevs'[k].imports)
      /\ Range(modrevs[k].submodules) \subseteq Range(modrevs'[k].submodules)
  BY DEF Kept, FileOf
<1>2. LoadedModules \subseteq LoadedModules'
  BY <1>1 DEF Kept, FileOf, LoadedModules, Loaded
<1>3. CASE Resolved(k, i)
  <2>1. CASE FileOf(k).links[i].kw = "import"
    BY <1>1, <1>2, <1>3, <2>1 DEF Resolved, Answers, Settled
  <2>2. CASE FileOf(k).links[i].kw # "import"
    BY <1>1, <1>3, <2>2 DEF Resolved, Answers, Settled
  <2> QED BY <2>1, <2>2
<1>4. CASE Reported(k, i)
  <2>1. PICK e \in errors :
          \/ e.file = modrevs[k].file /\ e.at = i
          \/ /\ e.file \in Named(FileOf(k).links[i].name) /\ e.at = 0
             /\ e.code \in {"PARSE_ERROR", "MODULENAME_MISMATCH",
                            "REVISION_MISMATCH"}
    BY <1>4 DEF Reported
  <2>2. e \in errors'
    BY DEF Kept
  <2>3. Named(FileOf(k).links[i].name)' = Named(FileOf(k).links[i].name)
    BY <1>1 DEF Named
  <2> QED BY <1>1, <2>1, <2>2, <2>3 DEF Reported, Settled
<1> QED BY <1>3, <1>4 DEF Settled

(* The position of no module changes.                                      *)
LEMMA StayLoses ==
  ASSUME NothingLost, Kept, UNCHANGED <<modrevs, stack>>
  PROVE  NothingLost'
<1> SUFFICES ASSUME NEW k \in DOMAIN modrevs, NEW i \in DOMAIN FileOf(k).links,
                    Passed(k, i)'
             PROVE  Settled(k, i)'
  BY DEF NothingLost, FileOf, Kept, Settled
<1>1. Passed(k, i)
  BY DEF Passed, State
<1> QED BY <1>1, KeptSettled DEF NothingLost, Settled

(* The innermost module goes on to its next statement.                     *)
LEMMA AdvanceLoses ==
  ASSUME IInv, NothingLost, Kept, stack # <<>>, stack' = Advanced,
         DOMAIN modrevs' = DOMAIN modrevs,
         \A k \in DOMAIN modrevs : modrevs'[k].state = modrevs[k].state,
         NEW t, t = Top.key, NEW n, n = Top.at, Settled(t, n)'
  PROVE  NothingLost'
<1> SUFFICES ASSUME NEW k \in DOMAIN modrevs, NEW i \in DOMAIN FileOf(k).links,
                    Passed(k, i)', ~(k = t /\ i = n)
             PROVE  Passed(k, i)
  <2>1. \A k \in DOMAIN modrevs : FileOf(k)' = FileOf(k)
    BY DEF Kept, FileOf
  <2> QED BY <2>1, KeptSettled DEF NothingLost, Settled
<1>1. /\ Top = stack[1] /\ Top \in Frame /\ 1 \in DOMAIN stack
      /\ DOMAIN Advanced = DOMAIN stack
      /\ Advanced[1] = [key |-> t, at |-> n + 1]
      /\ \A j \in DOMAIN stack : j # 1 => Advanced[j] = stack[j]
  BY TopFacts, AdvancedFacts DEF IInv
<1>2. i \in Nat /\ n \in Nat
  <2>1. FileOf(k).links \in Seq(LinkStmt)
    BY FileFacts DEF IInv, FileType
  <2> QED BY <1>1, <2>1, LenProperties DEF Frame
<1>3. CASE State(k)' = "module"
  BY <1>3 DEF State, Passed
<1>4. CASE State(k)' # "module"
  <2>1. PICK j \in DOMAIN stack : Advanced[j].key = k /\ i < Advanced[j].at
    BY <1>1, <1>4 DEF Passed
  <2>2. CASE j = 1
    <3>1. k = t /\ i < n + 1
      BY <1>1, <2>1, <2>2
    <3>2. i < n
      BY <1>2, <3>1
    <3> QED BY <1>1, <3>1, <3>2 DEF Passed
  <2>3. CASE j # 1
    BY <1>1, <2>1, <2>3 DEF Passed
  <2> QED BY <2>2, <2>3
<1> QED BY <1>3, <1>4

(* A module that is entered is past nothing.                               *)
LEMMA EnterLoses ==
  ASSUME IInv, NothingLost, Kept, Core', NEW k, State(k) = "absent", NEW m,
         m.state = "processing",
         modrevs' = [x \in DOMAIN modrevs \cup {k} |->
                       IF x = k THEN m ELSE modrevs[x]],
         stack' = <<[key |-> k, at |-> 1]>> \o stack
  PROVE  NothingLost'
<1> DEFINE e == [key |-> k, at |-> 1]
<1>1. /\ k \notin DOMAIN modrevs /\ stack \in Seq(Frame)
      /\ DOMAIN modrevs' = DOMAIN modrevs \cup {k} /\ modrevs'[k] = m
      /\ \A x \in DOMAIN modrevs : modrevs'[x] = modrevs[x]
  BY FileFacts DEF IInv, TypeOK
<1>2. k \in Key /\ FileOf(k)' \in FileType
  BY <1>1 DEF Core, Kept, FileOf, IInv, TypeOK, ScenarioType, Module
<1>3. e \in Frame /\ <<e>> \in Seq(Frame) /\ Len(<<e>>) = 1 /\ <<e>>[1] = e
      /\ e.key = k /\ e.at = 1
  BY <1>2 DEF Frame
<1> HIDE DEF e
<1>4. /\ Len(stack') = 1 + Len(stack) /\ Len(stack) \in Nat
      /\ DOMAIN stack' = 1 .. Len(stack) + 1 /\ DOMAIN stack = 1 .. Len(stack)
      /\ \A j \in 1 .. 1 + Len(stack) :
           stack'[j] = IF j <= 1 THEN <<e>>[j] ELSE stack[j - 1]
  <2>1. /\ stack' \in Seq(Frame) /\ Len(stack') = 1 + Len(stack)
        /\ \A j \in 1 .. 1 + Len(stack) :
             stack'[j] = IF j <= 1 THEN <<e>>[j] ELSE stack[j - 1]
    BY <1>1, <1>3, ConcatProperties DEF e
  <2> QED BY <1>1, <2>1, LenProperties
<1>5. /\ stack'[1] = e
      /\ \A j \in DOMAIN stack' : j # 1 => j - 1 \in DOMAIN stack
                                          /\ stack'[j] = stack[j - 1]
  BY <1>3, <1>4
<1>6. \A j \in DOMAIN stack : stack[j].key # k
  BY <1>1 DEF IInv, ProcessingIsStack, Processing
<1>7. ASSUME NEW i \in DOMAIN FileOf(k)'.links PROVE ~Passed(k, i)'
  <2>1. i \in Nat /\ ~(i < 1)
    BY <1>2, LenProperties DEF FileType
  <2>2. State(k)' # "module"
    BY <1>1 DEF State
  <2>3. \A j \in DOMAIN stack' : stack'[j].key = k => j = 1
    BY <1>5, <1>6
  <2> QED BY <1>3, <1>5, <2>1, <2>2, <2>3 DEF Passed
<1>8. ASSUME NEW x \in DOMAIN modrevs, NEW i \in DOMAIN FileOf(x)'.links,
             Passed(x, i)'
      PROVE  Settled(x, i)'
  <2>1. FileOf(x)' = FileOf(x)
    BY DEF Kept, FileOf
  <2>2. CASE State(x)' = "module"
    <3>1. Passed(x, i)
      BY <1>1, <2>2 DEF State, Passed
    <3> QED BY <2>1, <3>1, KeptSettled DEF NothingLost, Settled
  <2>3. CASE State(x)' # "module"
    <3>1. PICK j \in DOMAIN stack' : stack'[j].key = x /\ i < stack'[j].at
      BY <1>8, <2>3 DEF Passed
    <3>2. j # 1
      BY <1>1, <1>3, <1>5, <3>1
    <3>3. Passed(x, i)
      BY <1>5, <3>1, <3>2 DEF Passed
    <3> QED BY <2>1, <3>3, KeptSettled DEF NothingLost, Settled
  <2> QED BY <2>2, <2>3
<1> QED BY <1>1, <1>7, <1>8 DEF NothingLost, Settled

(* A module that is left is past its last statement.                       *)
LEMMA FinishLoses ==
  ASSUME IInv, NothingLost, Kept, Finish
  PROVE  NothingLost'
<1>1. /\ stack # <<>> /\ stack' = Tail(stack) /\ scn' = scn
      /\ Top.at > Len(FileOf(Top.key).links)
      /\ modrevs' = HereWith("module", Here.imports, Here.submodules)
  BY DEF Finish, unlinked
<1>2. /\ Top = stack[1] /\ Top \in Frame /\ 1 \in DOMAIN stack
      /\ FileOf(Top.key) \in FileType /\ stack \in Seq(Frame)
  BY <1>1, TopFacts DEF IInv, TypeOK
<1>3. /\ DOMAIN modrevs' = DOMAIN modrevs
      /\ \A k \in DOMAIN modrevs : k # Top.key => modrevs'[k] = modrevs[k]
      /\ \A k \in DOMAIN modrevs : FileOf(k)' = FileOf(k)
  <2>1. Here.imports \in Seq(Import) /\ Here.submodules \in Seq(Include)
    BY <1>1, HereFacts
  <2> QED BY <1>1, <2>1, HereWithFacts
<1>4. \A j \in DOMAIN stack' : /\ j + 1 \in DOMAIN stack
                               /\ stack'[j] = stack[j + 1]
  BY <1>1, <1>2, HeadTailProperties, LenProperties
<1> SUFFICES ASSUME NEW k \in DOMAIN modrevs, NEW i \in DOMAIN FileOf(k).links,
                    Passed(k, i)'
             PROVE  Passed(k, i)
  BY <1>3, KeptSettled DEF NothingLost, Settled
<1>5. CASE k = Top.key
  <2>1. /\ Top.at \in Nat /\ Len(FileOf(k).links) \in Nat
        /\ DOMAIN FileOf(k).links = 1 .. Len(FileOf(k).links)
    BY <1>2, <1>5, LenProperties DEF FileType, Frame
  <2>2. i < Top.at
    BY <1>1, <1>5, <2>1
  <2> QED BY <1>2, <1>5, <2>2 DEF Passed
<1>6. CASE k # Top.key
  <2>1. State(k)' = State(k)
    BY <1>3, <1>6 DEF State
  <2> QED BY <1>4, <2>1 DEF Passed
<1> QED BY <1>5, <1>6

(* When only the errors and the position may change, what is kept is clear.*)
LEMMA SameKept ==
  ASSUME scn' = scn, modrevs' = modrevs, errors \subseteq errors'
  PROVE  Kept
  BY DEF Kept, Loaded, State

(* A reference that is added, at either end, takes none away.              *)
LEMMA HereKept ==
  ASSUME IInv, stack # <<>>, scn' = scn, errors \subseteq errors',
         NEW st \in {"processing", "module"},
         NEW imps \in Seq(Import), NEW subs \in Seq(Include),
         Range(Here.imports) \subseteq Range(imps),
         Range(Here.submodules) \subseteq Range(subs),
         modrevs' = HereWith(st, imps, subs)
  PROVE  Kept
<1>1. /\ DOMAIN modrevs' = DOMAIN modrevs
      /\ \A k \in DOMAIN modrevs : k # Top.key => modrevs'[k] = modrevs[k]
      /\ modrevs'[Top.key].file = Here.file
      /\ modrevs'[Top.key].imports = imps
      /\ modrevs'[Top.key].submodules = subs
  BY HereWithFacts
<1>2. Top.key \notin Loaded
  BY TopFacts DEF Loaded
<1>3. Loaded \subseteq Loaded'
  BY <1>1, <1>2 DEF Loaded, State
<1>4. \A k \in DOMAIN modrevs :
        /\ modrevs'[k].file = modrevs[k].file
        /\ Range(modrevs[k].imports) \subseteq Range(modrevs'[k].imports)
        /\ Range(modrevs[k].submodules) \subseteq Range(modrevs'[k].submodules)
  BY <1>1 DEF Here
<1> QED BY <1>1, <1>3, <1>4 DEF Kept

(* A statement that fails leaves its error behind.                         *)
LEMMA FailedLoses ==
  ASSUME IInv, NothingLost, scn' = scn, Linking,
         NEW codes \in SUBSET ErrorCode, codes # {},
         NEW f, NEW at, Failed(codes, f, at),
         \/ f = Here.file /\ at = Top.at
         \/ /\ f \in Named(Link.name) /\ at = 0
            /\ codes \subseteq {"PARSE_ERROR", "MODULENAME_MISMATCH",
                                "REVISION_MISMATCH"}
  PROVE  NothingLost'
<1>1. stack # <<>> /\ stack' = Advanced /\ modrevs' = modrevs
      /\ errors' = errors \cup {[code |-> c, file |-> f, at |-> at] : c \in codes}
  BY DEF Failed, Report, Linking
<1>2. Kept
  BY <1>1, SameKept
<1>3. PICK e \in errors' : e.code \in codes /\ e.file = f /\ e.at = at
  <2>1. PICK c \in codes : TRUE
    OBVIOUS
  <2> DEFINE e == [code |-> c, file |-> f, at |-> at]
  <2>2. e \in errors' /\ e.code = c /\ e.file = f /\ e.at = at
    BY <1>1
  <2> HIDE DEF e
  <2> QED BY <2>2
<1>4. PICK t, n : t = Top.key /\ n = Top.at
  OBVIOUS
<1>5. /\ FileOf(t)' = FileOf(t) /\ modrevs'[t].file = Here.file
      /\ FileOf(t).links[n] = Link
      /\ \A x : Named(x)' = Named(x)
  BY <1>1, <1>4 DEF FileOf, Here, Link, Named
<1>6. Reported(t, n)'
  <2>1. \/ e.file = modrevs'[t].file /\ e.at = n
        \/ /\ e.file \in Named(FileOf(t).links[n].name) /\ e.at = 0
           /\ e.code \in {"PARSE_ERROR", "MODULENAME_MISMATCH",
                          "REVISION_MISMATCH"}
    BY <1>3, <1>4, <1>5
  <2> QED BY <1>3, <1>5, <2>1 DEF Reported
<1>7. \A k \in DOMAIN modrevs : modrevs'[k].state = modrevs[k].state
  BY <1>1
<1> QED BY <1>1, <1>2, <1>4, <1>6, <1>7, AdvanceLoses DEF Settled

LEMMA EnterKept ==
  ASSUME scn' = scn, NEW f, NEW cause, NEW incRev,
         KeyOf(f) \notin DOMAIN modrevs, AddParsed(f, cause, incRev)
  PROVE  Kept
<1> DEFINE k == KeyOf(f)
<1>1. /\ \A x \in DOMAIN modrevs : x \in DOMAIN modrevs'
                                   /\ modrevs'[x] = modrevs[x]
      /\ errors' = errors
  BY DEF AddParsed, State
<1> QED BY <1>1 DEF Kept, Loaded, State

LEMMA AddParsedLoses ==
  ASSUME IInv, NothingLost, scn' = scn, Core',
         NEW f \in File, NEW cause, NEW incRev,
         KeyOf(f) \notin DOMAIN modrevs, AddParsed(f, cause, incRev)
  PROVE  NothingLost'
<1>1. Kept
  BY EnterKept
<1> DEFINE k == KeyOf(f)
           m == [state |-> "processing", file |-> f, cause |-> cause,
            modulerevision |->
              IF scn.file[f].kind = "module" THEN k[2] ELSE incRev,
            imports |-> <<>>, submodules |-> <<>>]
<1>2. /\ State(k) = "absent" /\ m.state = "processing"
      /\ modrevs' = [x \in DOMAIN modrevs \cup {k} |->
                       IF x = k THEN m ELSE modrevs[x]]
      /\ stack' = <<[key |-> k, at |-> 1]>> \o stack
  BY DEF AddParsed, State
<1> HIDE DEF k, m
<1> QED BY <1>1, <1>2, EnterLoses

(* search_module: a call that fails leaves an error, one that reads a file *)
(* enters a new module.                                                    *)
LEMMA LinkLoses ==
  ASSUME IInv, NothingLost, LinkKnown \/ LinkCircular \/ LinkNotFound
                              \/ LinkUnparsable \/ LinkFile
  PROVE  NothingLost'
<1>1. Linking /\ scn' = scn
  BY DEF LinkKnown, LinkCircular, LinkNotFound, LinkUnparsable, LinkFile,
         unlinked
<1>2. CASE LinkKnown
  <2>1. UNCHANGED <<modrevs, stack, errors>>
    BY <1>2 DEF LinkKnown, Found
  <2> QED BY <1>1, <2>1, SameKept, StayLoses
<1>3. CASE LinkCircular
  BY <1>1, <1>3, FailedLoses DEF LinkCircular, ErrorCode
<1>4. CASE LinkNotFound
  BY <1>1, <1>4, FailedLoses DEF LinkNotFound, ErrorCode
<1>5. CASE LinkUnparsable
  <2>1. PICK f \in Named(Link.name) : Failed({"PARSE_ERROR"}, f, 0)
    BY <1>5 DEF LinkUnparsable, FileFor
  <2> QED BY <1>1, <2>1, FailedLoses DEF ErrorCode
<1>6. CASE LinkFile
  <2>1. PICK f \in FileFor(Link.name, Target(Link)[2]) :
          IF Mismatch(f, Link) # {} THEN Failed(Mismatch(f, Link), f, 0)
          ELSE AddParsed(f, Link.kw, IF Link.kw = "include"
                           THEN Here.modulerevision ELSE NoRevision)
    BY <1>6 DEF LinkFile
  <2>2. f \in Named(Link.name) /\ f \in File
    BY DEF FileFor, Named
  <2>3. CASE Mismatch(f, Link) # {}
    <3>1. /\ Mismatch(f, Link) \in SUBSET ErrorCode
          /\ Mismatch(f, Link) \subseteq {"PARSE_ERROR", "MODULENAME_MISMATCH",
                                          "REVISION_MISMATCH"}
      BY DEF Mismatch, ErrorCode
    <3> QED BY <1>1, <2>1, <2>2, <2>3, <3>1, FailedLoses
  <2>4. CASE Mismatch(f, Link) = {}
    <3>1. KeyOf(f) \notin DOMAIN modrevs
      BY <1>1, <1>6, <2>4, FileFacts, SearchLemma
         DEF LinkFile, SearchFindsNew, IInv
    <3> QED BY <1>1, <1>6, <2>1, <2>2, <2>4, <3>1, LinkSteps, AddParsedLoses
  <2> QED BY <2>3, <2>4
<1> QED BY <1>2, <1>3, <1>4, <1>5, <1>6

(* v_import: the import is kept, or the error is at the statement.         *)
LEMMA TakeImportLoses ==
  ASSUME IInv, NothingLost, TakeImport
  PROVE  NothingLost'
<1>0. PICK t, n : t = Top.key /\ n = Top.at
  OBVIOUS
<1> DEFINE bad == IF /\ Link.rev # NoRevision
                     /\ ~FileOf(Top.key).v11 /\ FileOf(ret).v11
                  THEN {"BAD_IMPORT_YANG_VERSION"}
                  ELSE IF FileOf(ret).kind # "module" THEN {"BAD_IMPORT"} ELSE {}
           entry == [key |-> ret, requested |-> Link.rev]
           imps == <<entry>> \o Here.imports
<1>1. /\ scn' = scn /\ stack # <<>> /\ ret # NoKey /\ Link.kw = "import"
      /\ stack' = Advanced
      /\ errors' = errors \cup
           {[code |-> c, file |-> Here.file, at |-> n] : c \in bad}
      /\ modrevs' = IF bad = {}
           THEN HereWith("processing", imps, Here.submodules) ELSE modrevs
  BY <1>0 DEF TakeImport, Report, unlinked
<1>2. /\ ret \in Loaded /\ ret \in Key /\ Answers(ret, Link)
      /\ Link \in LinkStmt
      /\ Here.imports \in Seq(Import) /\ Here.submodules \in Seq(Include)
      /\ t \in DOMAIN modrevs /\ State(t) = "processing"
      /\ FileOf(t).links[n] = Link
  <2>1. ret \in Loaded /\ Answers(ret, Link)
        /\ Top.at <= Len(FileOf(Top.key).links)
    BY <1>1 DEF IInv, CallChain, ReturnAnswers
  <2> QED BY <1>0, <1>1, <2>1, LinkFacts, HereFacts, TopFacts
          DEF Loaded, IInv, TypeOK, Link
<1>3. CASE bad # {}
  <2> HIDE DEF bad
  <2>1. modrevs' = modrevs /\ errors \subseteq errors'
    BY <1>1, <1>3
  <2>2. PICK e \in errors' : e.file = Here.file /\ e.at = n
    <3>1. PICK c \in bad : TRUE
      BY <1>3
    <3> DEFINE e == [code |-> c, file |-> Here.file, at |-> n]
    <3>2. e \in errors' /\ e.file = Here.file /\ e.at = n
      BY <1>1
    <3> HIDE DEF e
    <3> QED BY <3>2
  <2>3. Reported(t, n)'
    BY <1>0, <1>1, <2>1, <2>2 DEF Reported, Here
  <2>4. \A k \in DOMAIN modrevs : modrevs'[k].state = modrevs[k].state
    BY <2>1
  <2> QED BY <1>0, <1>1, <2>1, <2>3, <2>4, SameKept, AdvanceLoses DEF Settled
<1>4. CASE bad = {}
  <2>1. FileOf(ret).kind = "module" /\ errors \subseteq errors'
        /\ modrevs' = HereWith("processing", imps, Here.submodules)
    BY <1>1, <1>4
  <2>2. /\ entry \in Import /\ entry.key = ret /\ entry.requested = Link.rev
    BY <1>2 DEF Import, LinkStmt
  <2> HIDE DEF bad, entry
  <2>3. imps \in Seq(Import) /\ Range(imps) = {entry} \cup Range(Here.imports)
    BY <1>2, <2>2, ConsRange
  <2> HIDE DEF imps
  <2>4. Kept
    BY <1>1, <1>2, <2>1, <2>3, HereKept
  <2>5. /\ DOMAIN modrevs' = DOMAIN modrevs
        /\ \A k \in DOMAIN modrevs : k # Top.key => modrevs'[k] = modrevs[k]
        /\ modrevs'[t].state = "processing" /\ modrevs'[t].imports = imps
        /\ \A k \in DOMAIN modrevs : FileOf(k)' = FileOf(k)
    BY <1>0, <1>1, <1>2, <2>1, <2>3, HereWithFacts
  <2>6. \A k \in DOMAIN modrevs : modrevs'[k].state = modrevs[k].state
    BY <1>0, <1>2, <2>5 DEF State
  <2>7. ret \in LoadedModules'
    BY <1>2, <2>1, <2>4, <2>5 DEF Kept, LoadedModules, Loaded
  <2>8. Resolved(t, n)'
    <3>1. entry \in Range(imps)
      BY <2>3
    <3>2. FileOf(t)'.links[n] = Link
      BY <1>2, <2>5
    <3>3. entry.requested = Link.rev /\ Answers(entry.key, Link)
          /\ entry.key \in LoadedModules'
      BY <1>2, <2>2, <2>7
    <3> QED BY <1>1, <2>5, <3>1, <3>2, <3>3 DEF Resolved, Answers
  <2> QED BY <1>0, <1>1, <2>4, <2>5, <2>6, <2>8, AdvanceLoses DEF Settled
<1> QED BY <1>3, <1>4

(* v_include: the submodule is kept, whatever is wrong with it.            *)
LEMMA TakeIncludeLoses ==
  ASSUME IInv, NothingLost, TakeInclude
  PROVE  NothingLost'
<1>0. PICK t, n : t = Top.key /\ n = Top.at
  OBVIOUS
<1> DEFINE entry == [key |-> ret, at |-> n]
           subs == Append(Here.submodules, entry)
<1>1. /\ scn' = scn /\ stack # <<>> /\ ret # NoKey /\ Link.kw = "include"
      /\ stack' = Advanced /\ errors \subseteq errors'
      /\ modrevs' = HereWith("processing", Here.imports, subs)
  BY <1>0 DEF TakeInclude, Report, unlinked
<1>2. /\ ret \in Loaded /\ ret \in Key /\ Answers(ret, Link)
      /\ Link \in LinkStmt /\ n \in Nat
      /\ Here.imports \in Seq(Import) /\ Here.submodules \in Seq(Include)
      /\ t \in DOMAIN modrevs /\ State(t) = "processing"
      /\ FileOf(t).links[n] = Link
  <2>1. ret \in Loaded /\ Answers(ret, Link)
        /\ Top.at <= Len(FileOf(Top.key).links)
    BY <1>1 DEF IInv, CallChain, ReturnAnswers
  <2> QED BY <1>0, <1>1, <2>1, LinkFacts, HereFacts, TopFacts
          DEF Loaded, IInv, TypeOK, Link
<1>3. entry \in Include /\ entry.key = ret /\ entry.at = n
  BY <1>2 DEF Include
<1> HIDE DEF entry
<1>4. subs \in Seq(Include) /\ Range(subs) = Range(Here.submodules) \cup {entry}
  BY <1>2, <1>3, AppendRange
<1> HIDE DEF subs
<1>5. Kept
  BY <1>1, <1>2, <1>4, HereKept
<1>6. /\ DOMAIN modrevs' = DOMAIN modrevs
      /\ \A k \in DOMAIN modrevs : k # Top.key => modrevs'[k] = modrevs[k]
      /\ modrevs'[t].state = "processing" /\ modrevs'[t].submodules = subs
      /\ \A k \in DOMAIN modrevs : FileOf(k)' = FileOf(k)
  BY <1>0, <1>1, <1>2, <1>4, HereWithFacts
<1>7. \A k \in DOMAIN modrevs : modrevs'[k].state = modrevs[k].state
  BY <1>0, <1>2, <1>6 DEF State
<1>8. Resolved(t, n)'
  <2>1. entry \in Range(subs) /\ FileOf(t)'.links[n] = Link
    BY <1>2, <1>4, <1>6
  <2>2. entry.at = n /\ Answers(entry.key, Link) /\ entry.key \in Loaded'
    BY <1>2, <1>3, <1>5 DEF Kept
  <2> QED BY <1>1, <1>6, <2>1, <2>2 DEF Resolved, Answers
<1> QED BY <1>0, <1>1, <1>5, <1>6, <1>7, <1>8, AdvanceLoses DEF Settled

LEMMA StepLosesNothing == IInv /\ NothingLost /\ [Next]_vars => NothingLost'
<1> SUFFICES ASSUME IInv, NothingLost, [Next]_vars PROVE NothingLost'
  OBVIOUS
<1>1. CASE AddFile
  <2> DEFINE f == Head(todo).file
  <2>1. /\ stack = <<>> /\ scn' = scn /\ todo # <<>>
        /\ AddParsed(f, Head(todo).cause, NoRevision)
    BY <1>1 DEF AddFile, Idle
  <2>2. f \in File
    <3>1. Head(todo) \in Argument
      BY <2>1, HeadTailProperties DEF IInv, TypeOK
    <3> QED BY <3>1 DEF Argument
  <2> HIDE DEF f
  <2>3. CASE KeyOf(f) \notin DOMAIN modrevs
    BY <1>1, <2>1, <2>2, <2>3, AddFileStep, AddParsedLoses
  <2>4. CASE KeyOf(f) \in DOMAIN modrevs
    <3>1. State(KeyOf(f)) = "module"
      <4>1. KeyOf(f) \notin Processing
        BY <2>1 DEF IInv, ProcessingIsStack
      <4> QED BY <2>4, <4>1, FileFacts DEF Processing, IInv
    <3>2. UNCHANGED <<modrevs, stack, errors>>
      BY <2>1, <3>1 DEF AddParsed, Found
    <3> QED BY <2>1, <3>2, SameKept, StayLoses
  <2> QED BY <2>3, <2>4
<1>2. CASE LinkKnown \/ LinkCircular \/ LinkNotFound \/ LinkUnparsable \/ LinkFile
  BY <1>2, LinkLoses
<1>3. CASE TakeImport
  BY <1>3, TakeImportLoses
<1>4. CASE TakeInclude
  BY <1>4, TakeIncludeLoses
<1>5. CASE Finish
  <2>1. /\ stack # <<>> /\ scn' = scn /\ errors \subseteq errors'
        /\ modrevs' = HereWith("module", Here.imports, Here.submodules)
    BY <1>5 DEF Finish, unlinked
  <2>2. Here.imports \in Seq(Import) /\ Here.submodules \in Seq(Include)
    BY <2>1, HereFacts
  <2> QED BY <1>5, <2>1, <2>2, HereKept, FinishLoses
<1>6. CASE AddFileUnparsable \/ PostAddModules \/ Terminated \/ UNCHANGED vars
  <2>1. UNCHANGED <<scn, modrevs, stack>> /\ errors \subseteq errors'
    BY <1>6 DEF AddFileUnparsable, PostAddModules, Terminated, Report, vars
  <2> QED BY <2>1, SameKept, StayLoses
<1> QED BY <1>1, <1>2, <1>3, <1>4, <1>5, <1>6 DEF Next

(* Every import and include statement that parse_linkage is past has had   *)
(* its effect on the module or left an error, whatever the files hold.     *)
THEOREM NoStatementLost == Spec => []NothingLost
<1>1. Init => NothingLost
  BY DEF Init, NothingLost
<1> QED BY <1>1, InitIInv, StepIInv, StepLosesNothing, PTL DEF Spec

-----------------------------------------------------------------------------
(* The imports of module n that k has without having asked for a revision. *)
Undated(k, n) ==
  {e \in Range(modrevs[k].imports) : e.key[1] = n /\ e.requested = NoRevision}

(* A module that waits for a file, asked for without a revision, has no    *)
(* import of that name yet: no revision of it was known.                   *)
FirstOfName(k, at) ==
  LET l == FileOf(k).links[at]
  IN  l.rev = NoRevision => Undated(k, l.name) = {}

WaitsForFirst ==
  \A i \in DOMAIN stack : i > 1 => FirstOfName(stack[i].key, stack[i].at)

(* ... and what search_module returns is not older than those it has.      *)
ReturnsLatest ==
  ret # NoKey /\ Link.rev = NoRevision =>
    \A e \in Undated(Top.key, ret[1]) : e.key[2] <= ret[2]

OldInv == WaitsForFirst /\ ReturnsLatest /\ NeverAnOlderRevision

LEMMA ImportsKnown ==
  ASSUME IInv, NEW k \in DOMAIN modrevs, NEW e \in Range(modrevs[k].imports)
  PROVE  /\ e \in Import /\ e.key \in Loaded /\ e.key \in Key
         /\ e.key[2] \in Revs(e.key[1])
<1>1. modrevs[k].imports \in Seq(Import)
  BY FileFacts DEF IInv, Module
<1>2. e \in Import
  BY <1>1, RangeOfSeq
<1>3. e.key \in Loaded
  BY DEF IInv, DepsLoaded, Deps
<1>4. e.key \in DOMAIN modrevs /\ e.key \in Key
  BY <1>3 DEF Loaded, IInv, TypeOK
<1>5. e.key = <<e.key[1], e.key[2]>> /\ e.key[2] \in AnyRevision
  BY <1>4 DEF Key
<1> QED BY <1>2, <1>3, <1>4, <1>5 DEF Revs

(* No module's imports change, the innermost one goes on or stays.         *)
LEMMA OldSame ==
  ASSUME IInv, OldInv, UNCHANGED <<scn, modrevs>>, ret' = NoKey,
         stack' = stack \/ (stack # <<>> /\ stack' = Advanced)
  PROVE  OldInv'
<1>1. \A k, at : FirstOfName(k, at)' = FirstOfName(k, at)
  BY DEF FirstOfName, FileOf, Undated
<1>2. NeverAnOlderRevision'
  BY DEF OldInv, NeverAnOlderRevision
<1>3. ReturnsLatest'
  BY DEF ReturnsLatest
<1>4. WaitsForFirst'
  <2>1. DOMAIN stack' = DOMAIN stack
        /\ \A i \in DOMAIN stack : i # 1 => stack'[i] = stack[i]
    BY AdvancedFacts DEF IInv
  <2>2. \A i \in DOMAIN stack : i > 1 => i # 1
    BY LenProperties DEF IInv, TypeOK
  <2> QED BY <1>1, <2>1, <2>2 DEF OldInv, WaitsForFirst
<1> QED BY <1>2, <1>3, <1>4 DEF OldInv

(* The revision found in the context is the latest one.                    *)
LEMMA OldKnown ==
  ASSUME IInv, OldInv, LinkKnown
  PROVE  OldInv'
<1>1. /\ Linking /\ stack # <<>> /\ State(Target(Link)) = "module"
      /\ ret' = Target(Link) /\ UNCHANGED <<scn, modrevs, stack>>
  BY DEF LinkKnown, Found, Linking, unlinked
<1>2. /\ Top' = Top /\ Link' = Link
      /\ \A k, n : Undated(k, n)' = Undated(k, n)
  BY <1>1, SameModules DEF Undated
<1>3. WaitsForFirst' /\ NeverAnOlderRevision'
  BY <1>1 DEF OldInv, WaitsForFirst, NeverAnOlderRevision, FirstOfName, FileOf,
              Undated
<1>4. ReturnsLatest'
  <2> SUFFICES ASSUME Link.rev = NoRevision,
                      NEW e \in Undated(Top.key, Target(Link)[1])
               PROVE  e.key[2] <= Target(Link)[2]
    BY <1>1, <1>2 DEF ReturnsLatest
  <2>1. Top.key \in DOMAIN modrevs /\ Link \in LinkStmt
    BY <1>1, TopFacts, LinkingFacts
  <2>2. Target(Link)[1] = Link.name
    BY DEF Target
  <2>3. e.key[2] \in Revs(Link.name)
    BY <2>1, <2>2, ImportsKnown DEF Undated
  <2>4. Target(Link)[2] = Latest(Revs(Link.name))
    BY <2>3 DEF Target
  <2> QED BY <2>3, <2>4, LatestFacts DEF Revs
<1> QED BY <1>3, <1>4 DEF OldInv

(* A file is read for a name without revision-date only if none is known.  *)
LEMMA OldEnter ==
  ASSUME IInv, OldInv, scn' = scn, Core', NEW f \in File, NEW cause, NEW incRev,
         KeyOf(f) \notin DOMAIN modrevs, AddParsed(f, cause, incRev), ret = NoKey,
         stack # <<>> /\ Link.rev = NoRevision => Revs(Link.name) = {}
  PROVE  OldInv'
<1> DEFINE k == KeyOf(f)
           m == [state |-> "processing", file |-> f, cause |-> cause,
            modulerevision |->
              IF scn.file[f].kind = "module" THEN k[2] ELSE incRev,
            imports |-> <<>>, submodules |-> <<>>]
           e == [key |-> k, at |-> 1]
<1>1. /\ m.imports = <<>> /\ ret' = NoKey
      /\ modrevs' = [x \in DOMAIN modrevs \cup {k} |->
                       IF x = k THEN m ELSE modrevs[x]]
      /\ stack' = <<e>> \o stack
  BY DEF AddParsed, State
<1>2. k \in Key /\ e \in Frame /\ <<e>> \in Seq(Frame) /\ Len(<<e>>) = 1
  BY FileFacts DEF Frame, IInv
<1> HIDE DEF m, e
<1>3. /\ DOMAIN modrevs' = DOMAIN modrevs \cup {k} /\ modrevs'[k].imports = <<>>
      /\ \A x \in DOMAIN modrevs : modrevs'[x] = modrevs[x]
  BY <1>1
<1>4. /\ DOMAIN stack' = 1 .. Len(stack) + 1 /\ DOMAIN stack = 1 .. Len(stack)
      /\ Len(stack) \in Nat
      /\ \A j \in DOMAIN stack : stack'[j + 1] = stack[j]
  <2>1. stack \in Seq(Frame)
    BY DEF IInv, TypeOK
  <2>2. /\ stack' \in Seq(Frame) /\ Len(stack') = 1 + Len(stack)
        /\ \A j \in 1 .. 1 + Len(stack) :
             stack'[j] = IF j <= 1 THEN <<e>>[j] ELSE stack[j - 1]
    BY <1>1, <1>2, <2>1, ConcatProperties
  <2> QED BY <2>1, <2>2, LenProperties
<1>5. NeverAnOlderRevision'
  BY <1>3 DEF OldInv, NeverAnOlderRevision
<1>6. ReturnsLatest'
  BY <1>1 DEF ReturnsLatest
<1>7. WaitsForFirst'
  <2>1. \A x \in DOMAIN modrevs : \A at :
          FirstOfName(x, at)' = FirstOfName(x, at)
    BY <1>3 DEF FirstOfName, FileOf, Undated
  <2>2. \A j \in DOMAIN stack : stack[j].key \in DOMAIN modrevs
    BY DEF IInv, ProcessingIsStack, Processing
  <2>3. ASSUME NEW j \in DOMAIN stack
        PROVE  FirstOfName(stack[j].key, stack[j].at)
    <3>1. CASE j = 1
      <4>1. stack # <<>> /\ stack[j] = Top
            /\ FileOf(stack[j].key).links[stack[j].at] = Link
        BY <1>4, <3>1 DEF Top, Link
      <4>2. Link.rev = NoRevision => Revs(Link.name) = {}
        BY <4>1
      <4> QED BY <2>2, <4>1, <4>2, ImportsKnown DEF FirstOfName, Undated
    <3>2. CASE j # 1
      BY <1>4, <3>2 DEF OldInv, WaitsForFirst
    <3> QED BY <3>1, <3>2
  <2>4. ASSUME NEW i \in DOMAIN stack', i > 1
        PROVE  \E j \in DOMAIN stack : stack'[i] = stack[j]
    <3> DEFINE j == i - 1
    <3>1. j \in DOMAIN stack /\ i = j + 1
      BY <1>4, <2>4
    <3> QED BY <1>4, <3>1
  <2> QED BY <2>1, <2>2, <2>3, <2>4 DEF WaitsForFirst
<1> QED BY <1>5, <1>6, <1>7 DEF OldInv

(* The new import comes first in the list, and is not older than those of  *)
(* its name that follow.                                                   *)
LEMMA OldTake ==
  ASSUME IInv, OldInv, TakeImport \/ TakeInclude
  PROVE  OldInv'
<1>0. PICK t : t = Top.key
  OBVIOUS
<1>1. /\ scn' = scn /\ stack # <<>> /\ ret # NoKey /\ ret' = NoKey
      /\ stack' = Advanced /\ ret \in Key /\ Link \in LinkStmt
      /\ Top.at <= Len(FileOf(Top.key).links)
  <2>1. /\ stack # <<>> /\ ret # NoKey /\ ret' = NoKey /\ stack' = Advanced
        /\ scn' = scn
    BY DEF TakeImport, TakeInclude, unlinked
  <2>2. Top.at <= Len(FileOf(Top.key).links)
    BY <2>1 DEF IInv, CallChain, ReturnAnswers
  <2> QED BY <2>1, <2>2, LinkFacts DEF IInv, TypeOK
<1>2. /\ Here.imports \in Seq(Import) /\ Here.submodules \in Seq(Include)
      /\ t \in DOMAIN modrevs /\ Top.at \in Nat /\ Here = modrevs[t]
  BY <1>0, <1>1, HereFacts DEF Here
<1>3. CASE modrevs' = modrevs
  BY <1>1, <1>3, OldSame
<1>4. CASE modrevs' # modrevs
  <2>1. PICK imps \in Seq(Import), subs \in Seq(Include) :
          /\ modrevs' = HereWith("processing", imps, subs)
          /\ \/ imps = Here.imports
             \/ imps = <<[key |-> ret, requested |-> Link.rev]>> \o Here.imports
    <3>1. CASE TakeImport
      <4> DEFINE entry == [key |-> ret, requested |-> Link.rev]
      <4>1. entry \in Import
        BY <1>1 DEF Import, LinkStmt
      <4>2. modrevs' = HereWith("processing", <<entry>> \o Here.imports,
                                Here.submodules)
        BY <1>4, <3>1 DEF TakeImport
      <4> HIDE DEF entry
      <4>3. <<entry>> \o Here.imports \in Seq(Import)
        BY <1>2, <4>1, ConsRange
      <4> QED BY <1>2, <4>2, <4>3 DEF entry
    <3>2. CASE TakeInclude
      <4> DEFINE entry == [key |-> ret, at |-> Top.at]
      <4>1. entry \in Include
        BY <1>1, <1>2 DEF Include
      <4>2. modrevs' = HereWith("processing", Here.imports,
                                Append(Here.submodules, entry))
        BY <3>2 DEF TakeInclude
      <4> HIDE DEF entry
      <4>3. Append(Here.submodules, entry) \in Seq(Include)
        BY <1>2, <4>1, AppendRange
      <4> QED BY <1>2, <4>2, <4>3
    <3> QED BY <3>1, <3>2
  <2>2. /\ DOMAIN modrevs' = DOMAIN modrevs
        /\ \A k \in DOMAIN modrevs : k # t => modrevs'[k] = modrevs[k]
        /\ modrevs'[t].imports = imps
        /\ \A k \in DOMAIN modrevs : FileOf(k)' = FileOf(k)
    BY <1>0, <1>1, <2>1, HereWithFacts
  <2>3. WaitsForFirst'
    <3>1. /\ DOMAIN stack' = DOMAIN stack /\ 1 \in DOMAIN stack
          /\ stack[1].key = t
          /\ \A i \in DOMAIN stack : i # 1 => stack'[i] = stack[i]
      BY <1>0, <1>1, TopFacts, AdvancedFacts DEF IInv
    <3>2. \A i \in DOMAIN stack : /\ i > 1 => i # 1
                                  /\ stack[i].key \in DOMAIN modrevs
                                  /\ i # 1 => stack[i].key # t
      BY <3>1, LenProperties
         DEF IInv, TypeOK, ProcessingIsStack, Processing
    <3>3. \A k \in DOMAIN modrevs : \A at :
            k # t => FirstOfName(k, at)' = FirstOfName(k, at)
      BY <2>2 DEF FirstOfName, Undated
    <3> QED BY <3>1, <3>2, <3>3 DEF OldInv, WaitsForFirst
  <2>4. NeverAnOlderRevision'
    <3> SUFFICES ASSUME NEW i \in DOMAIN imps, NEW j \in DOMAIN imps, i < j,
                        imps[i].key[1] = imps[j].key[1],
                        imps[i].requested = NoRevision,
                        imps[j].requested = NoRevision
                 PROVE  imps[i].key[2] >= imps[j].key[2]
      BY <2>2 DEF OldInv, NeverAnOlderRevision
    <3>1. CASE imps = Here.imports
      BY <1>2, <3>1 DEF OldInv, NeverAnOlderRevision
    <3>2. CASE imps = <<[key |-> ret, requested |-> Link.rev]>> \o Here.imports
      <4> DEFINE entry == [key |-> ret, requested |-> Link.rev]
                 old == Here.imports
                 n == j - 1
      <4>1. entry \in Import /\ entry.key = ret /\ entry.requested = Link.rev
        BY <1>1 DEF Import, LinkStmt
      <4>2. imps = <<entry>> \o old /\ old \in Seq(Import)
        BY <1>2, <3>2
      <4> HIDE DEF entry, old
      <4>3. /\ DOMAIN imps = 1 .. Len(old) + 1 /\ DOMAIN old = 1 .. Len(old)
            /\ Len(old) \in Nat /\ imps[1] = entry
            /\ \A h \in DOMAIN imps : h # 1 => imps[h] = old[h - 1]
        <5>1. <<entry>> \in Seq(Import) /\ Len(<<entry>>) = 1
              /\ <<entry>>[1] = entry
          BY <4>1
        <5>2. /\ Len(imps) = 1 + Len(old)
              /\ \A h \in 1 .. 1 + Len(old) :
                   imps[h] = IF h <= 1 THEN <<entry>>[h] ELSE old[h - 1]
          BY <4>2, <5>1, ConcatProperties
        <5> QED BY <4>2, <5>1, <5>2, LenProperties
      <4>4. n \in DOMAIN old /\ imps[j] = old[n] /\ old[n] \in Range(old)
        BY <4>3 DEF Range
      <4>5. CASE i = 1
        <5>1. old[n] \in Undated(t, ret[1]) /\ Link.rev = NoRevision
          BY <1>2, <4>1, <4>3, <4>4, <4>5 DEF Undated, old
        <5>2. old[n].key[2] <= ret[2]
          BY <1>0, <1>1, <5>1 DEF OldInv, ReturnsLatest
        <5>3. old[n].key[2] \in AnyRevision /\ ret[2] \in AnyRevision
          <6>1. old[n] \in Import
            BY <4>2, <4>3, <4>4, ElementOfSeq
          <6>2. old[n].key \in Key
            BY <6>1 DEF Import
          <6> QED BY <1>1, <6>2 DEF Key
        <5>4. AnyRevision \subseteq Int
          BY RevisionAssumption DEF AnyRevision, NoRevision
        <5> QED BY <4>1, <4>3, <4>4, <4>5, <5>2, <5>3, <5>4
      <4>6. CASE i # 1
        <5>1. i - 1 \in DOMAIN old /\ imps[i] = old[i - 1] /\ i - 1 < n
          BY <4>3, <4>6
        <5>2. old = modrevs[t].imports
          BY <1>2 DEF old
        <5> QED BY <1>2, <4>4, <5>1, <5>2 DEF OldInv, NeverAnOlderRevision
      <4> QED BY <4>5, <4>6
    <3> QED BY <2>1, <3>1, <3>2
  <2> QED BY <1>1, <2>3, <2>4 DEF OldInv, ReturnsLatest
<1> QED BY <1>3, <1>4

(* The module that is returned is the first of its name where it is wanted.*)
LEMMA OldFinish ==
  ASSUME IInv, OldInv, Finish
  PROVE  OldInv'
<1>0. PICK t : t = Top.key
  OBVIOUS
<1>1. /\ stack # <<>> /\ stack' = Tail(stack) /\ scn' = scn
      /\ modrevs' = HereWith("module", Here.imports, Here.submodules)
      /\ ret' = IF Tail(stack) = <<>> THEN NoKey ELSE t
  BY <1>0 DEF Finish, unlinked
<1>2. /\ Here.imports \in Seq(Import) /\ Here.submodules \in Seq(Include)
      /\ Here = modrevs[t] /\ stack[1].key = t
      /\ stack \in Seq(Frame)
  BY <1>0, <1>1, HereFacts, TopFacts DEF Here, IInv, TypeOK
<1>3. /\ DOMAIN modrevs' = DOMAIN modrevs
      /\ \A k \in DOMAIN modrevs : modrevs'[k].imports = modrevs[k].imports
      /\ \A k \in DOMAIN modrevs : FileOf(k)' = FileOf(k)
  BY <1>0, <1>1, <1>2, HereWithFacts
<1>4. /\ \A j \in DOMAIN stack' : /\ j + 1 \in DOMAIN stack
                                  /\ stack'[j] = stack[j + 1] /\ j + 1 > 1
      /\ DOMAIN stack' = 1 .. Len(stack') /\ Len(stack') \in Nat
      /\ stack' \in Seq(Frame)
  BY <1>1, <1>2, HeadTailProperties, LenProperties
<1>5. \A j \in DOMAIN stack' : /\ stack'[j].key \in DOMAIN modrevs
                               /\ FirstOfName(stack'[j].key, stack'[j].at)
  BY <1>4 DEF OldInv, WaitsForFirst, IInv, ProcessingIsStack, Processing
<1>6. \A k \in DOMAIN modrevs : /\ \A n : Undated(k, n)' = Undated(k, n)
                                /\ \A at : FirstOfName(k, at)' = FirstOfName(k, at)
  BY <1>3 DEF FirstOfName, Undated
<1>7. WaitsForFirst'
  BY <1>5, <1>6 DEF WaitsForFirst
<1>8. NeverAnOlderRevision'
  BY <1>3 DEF OldInv, NeverAnOlderRevision
<1>9. ReturnsLatest'
  <2> SUFFICES ASSUME stack' # <<>>, Link'.rev = NoRevision
               PROVE  Undated(Top.key, ret[1])' = {}
    BY <1>1 DEF ReturnsLatest
  <2>1. 1 \in DOMAIN stack' /\ Top' = stack'[1] /\ stack'[1] = stack[2]
        /\ 2 \in DOMAIN stack
    BY <1>4, LenProperties DEF Top
  <2>2. PICK w, at : w = stack[2].key /\ at = stack[2].at
    OBVIOUS
  <2>3. /\ w \in DOMAIN modrevs /\ FirstOfName(w, at)
        /\ Top'.key = w /\ Top'.at = at
    BY <1>5, <2>1, <2>2
  <2>4. FileOf(Top.key)' = FileOf(w) /\ Link' = FileOf(w).links[at]
    <3>1. FileOf(Top.key)' = FileOf(w)'
      BY <2>3 DEF FileOf
    <3> QED BY <1>3, <2>3, <3>1 DEF Link
  <2>5. Undated(w, FileOf(w).links[at].name) = {}
    BY <2>3, <2>4 DEF FirstOfName
  <2>6. ret' = t /\ t[1] = FileOf(w).links[at].name
    <3>1. Answers(stack[1].key, FileOf(w).links[at])
      BY <2>1, <2>2 DEF IInv, CallChain, ChainOfStatements
    <3> QED BY <1>1, <1>2, <3>1 DEF Answers
  <2>7. Undated(Top.key, ret[1])' = Undated(w, t[1])'
    BY <2>3, <2>6 DEF Undated
  <2> QED BY <1>6, <2>3, <2>5, <2>6, <2>7
<1> QED BY <1>7, <1>8, <1>9 DEF OldInv

LEMMA StepOldInv == IInv /\ OldInv /\ [Next]_vars => OldInv'
<1> SUFFICES ASSUME IInv, OldInv, [Next]_vars PROVE OldInv'
  OBVIOUS
<1>1. CASE AddFile
  <2> DEFINE f == Head(todo).file
  <2>1. /\ stack = <<>> /\ ret = NoKey /\ scn' = scn /\ todo # <<>>
        /\ AddParsed(f, Head(todo).cause, NoRevision)
    BY <1>1 DEF AddFile, Idle, IInv, CallChain, ReturnAnswers
  <2>2. f \in File
    <3>1. Head(todo) \in Argument
      BY <2>1, HeadTailProperties DEF IInv, TypeOK
    <3> QED BY <3>1 DEF Argument
  <2> HIDE DEF f
  <2>3. CASE KeyOf(f) \notin DOMAIN modrevs
    BY <1>1, <2>1, <2>2, <2>3, AddFileStep, OldEnter
  <2>4. CASE KeyOf(f) \in DOMAIN modrevs
    <3>1. State(KeyOf(f)) \in {"processing", "module"}
      BY <2>4, FileFacts DEF IInv
    <3>2. UNCHANGED <<modrevs, stack>> /\ ret' = NoKey
      BY <2>1, <3>1 DEF AddParsed, Found, Failed
    <3> QED BY <2>1, <3>2, OldSame
  <2> QED BY <2>3, <2>4
<1>2. CASE LinkKnown
  BY <1>2, OldKnown
<1>3. CASE LinkFile
  <2>1. /\ Linking /\ scn' = scn /\ ret = NoKey /\ stack # <<>>
        /\ State(Target(Link)) = "absent"
    BY <1>3 DEF LinkFile, Linking, unlinked
  <2>2. PICK f \in FileFor(Link.name, Target(Link)[2]) :
          IF Mismatch(f, Link) # {} THEN Failed(Mismatch(f, Link), f, 0)
          ELSE AddParsed(f, Link.kw, IF Link.kw = "include"
                           THEN Here.modulerevision ELSE NoRevision)
    BY <1>3 DEF LinkFile
  <2>3. CASE Mismatch(f, Link) # {}
    BY <2>1, <2>2, <2>3, OldSame DEF Failed
  <2>4. CASE Mismatch(f, Link) = {}
    <3>1. KeyOf(f) \notin DOMAIN modrevs /\ f \in File
      BY <2>1, <2>4, FileFacts, FileForType, SearchLemma
         DEF SearchFindsNew, IInv
    <3>2. Link.rev = NoRevision => Revs(Link.name) = {}
      <4>1. Target(Link) \notin DOMAIN modrevs
        BY <2>1, FileFacts DEF IInv
      <4>2. ASSUME Link.rev = NoRevision, Revs(Link.name) # {} PROVE FALSE
        <5>1. Latest(Revs(Link.name)) \in Revs(Link.name)
          BY <4>2, LatestFacts DEF Revs
        <5> QED BY <4>1, <4>2, <5>1 DEF Target, Revs
      <4> QED BY <4>2
    <3> QED BY <1>3, <2>1, <2>2, <2>4, <3>1, <3>2, LinkSteps, OldEnter
  <2> QED BY <2>3, <2>4
<1>4. CASE LinkCircular \/ LinkNotFound \/ LinkUnparsable
  <2>1. /\ scn' = scn /\ ret' = NoKey /\ modrevs' = modrevs
        /\ stack # <<>> /\ stack' = Advanced
    BY <1>4 DEF LinkCircular, LinkNotFound, LinkUnparsable, Failed, Linking,
                unlinked
  <2> QED BY <2>1, OldSame
<1>5. CASE TakeImport \/ TakeInclude
  BY <1>5, OldTake
<1>6. CASE Finish
  BY <1>6, OldFinish
<1>7. CASE AddFileUnparsable \/ PostAddModules
  <2>1. UNCHANGED <<scn, modrevs, stack>> /\ ret' = NoKey
    BY <1>7 DEF AddFileUnparsable, PostAddModules, Idle, IInv, CallChain,
                ReturnAnswers
  <2> QED BY <2>1, OldSame
<1>8. CASE Terminated \/ UNCHANGED vars
  <2>1. UNCHANGED <<scn, modrevs, stack, ret>>
    BY <1>8 DEF Terminated, vars
  <2>2. Top' = Top /\ Link' = Link
    BY <2>1 DEF Top, Link, FileOf
  <2> QED BY <2>1, <2>2 DEF OldInv, WaitsForFirst, ReturnsLatest,
             NeverAnOlderRevision, FirstOfName, FileOf, Undated
<1> QED BY <1>1, <1>2, <1>3, <1>4, <1>5, <1>6, <1>7, <1>8 DEF Next

(* Within a module a later import that asks for no revision never gets an  *)
(* older one than an earlier import of the same module.                    *)
THEOREM RevisionsNeverFallBack == Spec => []NeverAnOlderRevision
<1>1. Init => OldInv
  BY DEF Init, OldInv, WaitsForFirst, ReturnsLatest, NeverAnOlderRevision
<1>2. OldInv => NeverAnOlderRevision
  BY DEF OldInv
<1> QED BY <1>1, <1>2, InitIInv, StepIInv, StepOldInv, PTL DEF Spec

-----------------------------------------------------------------------------
(* What holds as long as there are no errors: the files asked for are in   *)
(* the context or still to be added, ...                                   *)
ArgumentsAdded ==
  \A i \in DOMAIN scn.argv :
    \/ KeyOf(scn.argv[i].file) \in DOMAIN modrevs
    \/ \E j \in DOMAIN todo : todo[j] = scn.argv[i]

(* ... submodules belong where they are included, ...                      *)
SubmodulesBelong ==
  \A k \in DOMAIN modrevs : \A e \in Range(modrevs[k].submodules) :
    /\ FileOf(e.key).kind = "submodule"
    /\ FileOf(e.key).owner = FileOf(k).owner
    /\ FileOf(e.key).v11 = FileOf(k).v11

(* ... a stored module includes what its submodules include, ...           *)
IncludesComplete ==
  \A k \in Loaded :
    FileOf(k).kind = "module" /\ FileOf(k).body =>
      \A e \in Range(modrevs[k].submodules) :
        \A d \in Range(modrevs[e.key].submodules) :
          \E c \in Range(modrevs[k].submodules) : c.key = d.key

(* ... and in the end every namespace has one name.                        *)
NamespacesOwned ==
  \A j, k \in LoadedModules : FileOf(j).ns = FileOf(k).ns => j[1] = k[1]

CleanInv ==
  /\ phase = "post" => stack = <<>> /\ todo = <<>>
  /\ errors = {} => /\ ArgumentsAdded /\ SubmodulesBelong /\ IncludesComplete
                    /\ phase = "post" => NamespacesOwned

(* The only ways in which a module gets a submodule or becomes stored.     *)
Grows ==
  \A k \in DOMAIN modrevs' :
    /\ \A e \in Range(modrevs'[k].submodules) :
         \/ k \in DOMAIN modrevs /\ e \in Range(modrevs[k].submodules)
         \/ TakeInclude /\ k = Top.key /\ e.key = ret
    /\ modrevs'[k].state = "module" => k \in Loaded \/ (Finish /\ k = Top.key)

LEMMA SameGrows == modrevs' = modrevs => Grows
  BY DEF Grows, Loaded, State

LEMMA EnterGrows ==
  ASSUME IInv, NEW f \in File, NEW cause, NEW incRev,
         AddParsed(f, cause, incRev)
  PROVE  /\ KeyOf(f) \in DOMAIN modrevs' /\ Grows
         /\ scn' = scn => KeyOf(f) \in DOMAIN modrevs \/ Kept
<1> DEFINE k == KeyOf(f)
<1>1. CASE k \in DOMAIN modrevs
  <2>1. State(k) \in {"processing", "module"}
    BY <1>1, FileFacts DEF IInv
  <2>2. modrevs' = modrevs
    BY <2>1 DEF AddParsed, Found, Failed
  <2> QED BY <1>1, <2>2, SameGrows
<1>2. CASE k \notin DOMAIN modrevs
  <2> DEFINE m == [state |-> "processing", file |-> f, cause |-> cause,
            modulerevision |->
              IF scn.file[f].kind = "module" THEN k[2] ELSE incRev,
            imports |-> <<>>, submodules |-> <<>>]
  <2>1. /\ m.submodules = <<>> /\ m.state = "processing"
        /\ modrevs' = [x \in DOMAIN modrevs \cup {k} |->
                         IF x = k THEN m ELSE modrevs[x]]
    BY <1>2 DEF AddParsed, State
  <2> HIDE DEF m, k
  <2>2. Grows
    <3>1. Range(m.submodules) = {}
      BY <2>1 DEF Range
    <3> QED BY <1>2, <2>1, <3>1 DEF Grows, Loaded, State
  <2>3. scn' = scn => Kept
    BY <1>2, EnterKept DEF k
  <2> QED BY <2>1, <2>2, <2>3 DEF k
<1> QED BY <1>1, <1>2

LEMMA StepGrows == IInv /\ [Next]_vars => Kept /\ Grows
<1> SUFFICES ASSUME IInv, [Next]_vars PROVE Kept /\ Grows
  OBVIOUS
<1>1. CASE modrevs' = modrevs
  <2>1. scn' = scn
    BY DEF Next, AddFile, AddFileUnparsable, LinkKnown, LinkCircular,
       LinkNotFound, LinkUnparsable, LinkFile, TakeImport, TakeInclude,
       Finish, PostAddModules, Terminated, unlinked, vars
  <2>2. \A codes, f, at : \/ Report(codes, f, at)
                          \/ Failed(codes, f, at)
                          => errors \subseteq errors'
    BY DEF Report, Failed
  <2>3. errors \subseteq errors'
    <3>1. ASSUME NEW f, NEW cause, NEW incRev, AddParsed(f, cause, incRev)
          PROVE  errors \subseteq errors'
      <4>1. State(KeyOf(f)) \in {"processing", "module", "absent"}
        BY FileFacts DEF IInv
      <4> QED BY <2>2, <3>1, <4>1 DEF AddParsed, Found
    <3>2. CASE AddFile \/ LinkFile
      BY <2>2, <3>1, <3>2 DEF AddFile, LinkFile
    <3>3. CASE \/ AddFileUnparsable \/ LinkCircular \/ LinkNotFound
               \/ LinkUnparsable \/ TakeImport
      BY <2>2, <3>3 DEF AddFileUnparsable, LinkCircular, LinkNotFound,
                        LinkUnparsable, TakeImport
    <3>4. CASE TakeInclude
      BY <2>2, <3>4 DEF TakeInclude
    <3>5. CASE \/ LinkKnown \/ Finish \/ PostAddModules \/ Terminated
               \/ UNCHANGED vars
      BY <3>5 DEF LinkKnown, Found, Finish, PostAddModules, Terminated, vars
    <3> QED BY <3>2, <3>3, <3>4, <3>5 DEF Next
  <2> QED BY <1>1, <2>1, <2>3, SameKept, SameGrows
<1>2. CASE AddFile \/ LinkFile
  <2>1. scn' = scn
    BY <1>2 DEF AddFile, LinkFile, unlinked
  <2>2. modrevs' = modrevs \/ \E f \in File : \E cause, incRev :
          AddParsed(f, cause, incRev)
    <3>1. CASE AddFile
      <4>1. Head(todo) \in Argument
        BY <3>1, HeadTailProperties DEF AddFile, IInv, TypeOK
      <4> QED BY <3>1, <4>1 DEF AddFile, Argument
    <3>2. CASE LinkFile
      BY <3>2, FileForType DEF LinkFile, Failed
    <3> QED BY <1>2, <3>1, <3>2
  <2>3. CASE \E f \in File : \E cause, incRev : AddParsed(f, cause, incRev)
    <3>0. PICK f \in File : \E cause, incRev : AddParsed(f, cause, incRev)
      BY <2>3
    <3>1. PICK cause, incRev : AddParsed(f, cause, incRev)
      BY <3>0
    <3>2. Grows /\ (KeyOf(f) \in DOMAIN modrevs \/ Kept)
      BY <2>1, <3>1, EnterGrows
    <3>3. CASE KeyOf(f) \in DOMAIN modrevs
      <4>1. State(KeyOf(f)) \in {"processing", "module"}
        BY <3>3, FileFacts DEF IInv
      <4>2. modrevs' = modrevs
        BY <3>1, <4>1 DEF AddParsed, Found, Failed
      <4> QED BY <1>1, <4>2
    <3> QED BY <3>2, <3>3
  <2> QED BY <1>1, <2>2, <2>3
<1>3. CASE TakeImport \/ TakeInclude \/ Finish
  <2>0. PICK t : t = Top.key
    OBVIOUS
  <2>1. stack # <<>> /\ scn' = scn /\ errors \subseteq errors'
    BY <1>3 DEF TakeImport, TakeInclude, Finish, Report, unlinked
  <2>2. /\ Here.imports \in Seq(Import) /\ Here.submodules \in Seq(Include)
        /\ Here = modrevs[t] /\ t \in DOMAIN modrevs /\ Top.at \in Nat
    BY <2>0, <2>1, HereFacts DEF Here
  <2>3. CASE Finish
    <3>1. modrevs' = HereWith("module", Here.imports, Here.submodules)
      BY <2>3 DEF Finish
    <3>2. /\ DOMAIN modrevs' = DOMAIN modrevs
          /\ \A k \in DOMAIN modrevs : k # t => modrevs'[k] = modrevs[k]
          /\ modrevs'[t].submodules = modrevs[t].submodules
      BY <2>0, <2>1, <2>2, <3>1, HereWithFacts
    <3>3. Grows
      BY <2>0, <2>2, <2>3, <3>2 DEF Grows, Loaded, State
    <3> QED BY <2>1, <2>2, <3>1, <3>3, HereKept
  <2>4. CASE TakeImport \/ TakeInclude
    <3>1. ret \in Key /\ Link \in LinkStmt
      <4>1. ret # NoKey
        BY <2>4 DEF TakeImport, TakeInclude
      <4> QED BY <2>1, <4>1, LinkFacts
              DEF IInv, TypeOK, CallChain, ReturnAnswers
    <3>2. CASE TakeImport
      <4> DEFINE entry == [key |-> ret, requested |-> Link.rev]
                 imps == <<entry>> \o Here.imports
      <4>1. entry \in Import
        BY <3>1 DEF Import, LinkStmt
      <4>2. \/ modrevs' = modrevs
            \/ modrevs' = HereWith("processing", imps, Here.submodules)
        BY <3>2 DEF TakeImport
      <4> HIDE DEF entry
      <4>3. imps \in Seq(Import) /\ Range(Here.imports) \subseteq Range(imps)
        BY <2>2, <4>1, ConsRange
      <4> HIDE DEF imps
      <4>4. CASE modrevs' = HereWith("processing", imps, Here.submodules)
        <5>1. /\ DOMAIN modrevs' = DOMAIN modrevs
              /\ \A k \in DOMAIN modrevs : k # t => modrevs'[k] = modrevs[k]
              /\ modrevs'[t].submodules = modrevs[t].submodules
              /\ modrevs'[t].state = "processing"
          BY <2>0, <2>1, <2>2, <4>3, <4>4, HereWithFacts
        <5>2. Grows
          BY <2>2, <5>1 DEF Grows, Loaded, State
        <5> QED BY <2>1, <2>2, <4>3, <4>4, <5>2, HereKept
      <4> QED BY <1>1, <4>2, <4>4
    <3>3. CASE TakeInclude
      <4> DEFINE entry == [key |-> ret, at |-> Top.at]
                 subs == Append(Here.submodules, entry)
      <4>1. entry \in Include /\ entry.key = ret
        BY <2>2, <3>1 DEF Include
      <4>2. modrevs' = HereWith("processing", Here.imports, subs)
        BY <3>3 DEF TakeInclude
      <4> HIDE DEF entry
      <4>3. /\ subs \in Seq(Include)
            /\ Range(subs) = Range(Here.submodules) \cup {entry}
        BY <2>2, <4>1, AppendRange
      <4> HIDE DEF subs
      <4>4. /\ DOMAIN modrevs' = DOMAIN modrevs
            /\ \A k \in DOMAIN modrevs : k # t => modrevs'[k] = modrevs[k]
            /\ modrevs'[t].submodules = subs
            /\ modrevs'[t].state = "processing"
        BY <2>0, <2>1, <2>2, <4>2, <4>3, HereWithFacts
      <4>5. Grows
        BY <2>0, <2>2, <3>3, <4>1, <4>3, <4>4 DEF Grows, Loaded, State
      <4> QED BY <2>1, <2>2, <4>2, <4>3, <4>5, HereKept
    <3> QED BY <2>4, <3>2, <3>3
  <2> QED BY <1>3, <2>3, <2>4
<1>4. CASE \/ AddFileUnparsable \/ LinkKnown \/ LinkCircular \/ LinkNotFound
           \/ LinkUnparsable \/ PostAddModules \/ Terminated \/ UNCHANGED vars
  <2>1. modrevs' = modrevs
    BY <1>4 DEF AddFileUnparsable, LinkKnown, LinkCircular, LinkNotFound,
       LinkUnparsable, PostAddModules, Terminated, vars, Failed, Found
  <2> QED BY <1>1, <2>1
<1> QED BY <1>2, <1>3, <1>4 DEF Next

(* A file leaves the list of arguments when it is added, or with an error. *)
LEMMA StepArguments ==
  ASSUME IInv, [Next]_vars, ArgumentsAdded, errors' = {} \/ ~AddFileUnparsable
  PROVE  ArgumentsAdded'
<1>1. Kept
  BY StepGrows
<1>2. \A f : KeyOf(f)' = KeyOf(f)
  BY <1>1 DEF Kept, KeyOf
<1> SUFFICES ASSUME NEW i \in DOMAIN scn.argv,
                    KeyOf(scn.argv[i].file) \notin DOMAIN modrevs'
             PROVE  \E j \in DOMAIN todo' : todo'[j] = scn.argv[i]
  BY <1>1, <1>2 DEF ArgumentsAdded, Kept
<1>3. PICK j \in DOMAIN todo : todo[j] = scn.argv[i]
  BY <1>1 DEF ArgumentsAdded, Kept
<1>4. CASE AddFile
  <2>1. todo # <<>> /\ todo' = Tail(todo)
        /\ AddParsed(Head(todo).file, Head(todo).cause, NoRevision)
    BY <1>4 DEF AddFile
  <2>2. /\ Head(todo) \in Argument /\ Head(todo) = todo[1]
        /\ todo \in Seq(Argument)
    BY <2>1, HeadTailProperties DEF IInv, TypeOK
  <2>3. KeyOf(todo[1].file) \in DOMAIN modrevs'
    BY <2>1, <2>2, EnterGrows DEF Argument
  <2>4. j # 1
    BY <1>3, <2>3
  <2>5. j - 1 \in DOMAIN todo' /\ todo'[j - 1] = todo[j]
    BY <2>1, <2>2, <2>4, HeadTailProperties, LenProperties
  <2> QED BY <1>3, <2>5
<1>5. CASE AddFileUnparsable
  BY <1>5 DEF AddFileUnparsable, Report
<1>6. CASE ~(AddFile \/ AddFileUnparsable)
  <2>1. todo' = todo
    BY <1>6 DEF Next, LinkKnown, LinkCircular, LinkNotFound,
       LinkUnparsable, LinkFile, TakeImport, TakeInclude, Finish,
       PostAddModules, Terminated, unlinked, vars
  <2> QED BY <1>3, <2>1
<1> QED BY <1>4, <1>5, <1>6

LEMMA SubmodulesStored ==
  ASSUME IInv, NEW k \in DOMAIN modrevs, NEW e \in Range(modrevs[k].submodules)
  PROVE  e.key \in Loaded /\ e.key \in DOMAIN modrevs
  BY DEF IInv, DepsLoaded, Deps, Loaded

(* v_include checks a submodule when it is included.                       *)
LEMMA StepBelong ==
  ASSUME IInv, [Next]_vars, SubmodulesBelong, errors' = {}
  PROVE  SubmodulesBelong'
<1>1. Kept /\ Grows
  BY StepGrows
<1>2. \A k \in DOMAIN modrevs : FileOf(k)' = FileOf(k)
  BY <1>1 DEF Kept, FileOf
<1> SUFFICES ASSUME NEW k \in DOMAIN modrevs',
                    NEW e \in Range(modrevs'[k].submodules)
             PROVE  /\ FileOf(e.key)'.kind = "submodule"
                    /\ FileOf(e.key)'.owner = FileOf(k)'.owner
                    /\ FileOf(e.key)'.v11 = FileOf(k)'.v11
  BY DEF SubmodulesBelong
<1>3. CASE k \in DOMAIN modrevs /\ e \in Range(modrevs[k].submodules)
  BY <1>2, <1>3, SubmodulesStored DEF SubmodulesBelong
<1>4. CASE TakeInclude /\ k = Top.key /\ e.key = ret
  <2>1. stack # <<>> /\ ret \in Loaded
    BY <1>4 DEF TakeInclude, IInv, CallChain, ReturnAnswers
  <2>2. k \in DOMAIN modrevs /\ ret \in DOMAIN modrevs
    BY <1>4, <2>1, TopFacts DEF Loaded
  <2>3. /\ FileOf(ret).kind = "submodule"
        /\ FileOf(ret).owner = FileOf(Top.key).owner
        /\ FileOf(ret).v11 = FileOf(Top.key).v11
    <3>1. \A c, f, at : ~Report({c}, f, at)
      BY DEF Report
    <3> QED BY <1>4, <3>1 DEF TakeInclude
  <2> QED BY <1>2, <1>4, <2>2, <2>3
<1> QED BY <1>1, <1>3, <1>4 DEF Grows

(* v_all_includes checks a module when it is stored.                       *)
LEMMA StepIncludes ==
  ASSUME IInv, [Next]_vars, IncludesComplete, errors' = {}
  PROVE  IncludesComplete'
<1>1. Kept /\ Grows /\ Evolution
  BY StepGrows, StepEvolution
<1>2. \A k \in DOMAIN modrevs : FileOf(k)' = FileOf(k)
  BY <1>1 DEF Kept, FileOf
<1>0. ASSUME Finish, NEW t, t = Top.key
      PROVE  /\ modrevs'[t].submodules = modrevs[t].submodules
             /\ \A x \in DOMAIN modrevs : x # t => modrevs'[x] = modrevs[x]
  <2>1. /\ stack # <<>> /\ scn' = scn
        /\ modrevs' = HereWith("module", Here.imports, Here.submodules)
    BY <1>0 DEF Finish, unlinked
  <2>2. Here.imports \in Seq(Import) /\ Here.submodules \in Seq(Include)
    BY <2>1, HereFacts
  <2> QED BY <1>0, <2>1, <2>2, HereWithFacts DEF Here
<1> SUFFICES ASSUME NEW k \in Loaded', FileOf(k)'.kind = "module",
                    FileOf(k)'.body,
                    NEW e \in Range(modrevs'[k].submodules),
                    NEW d \in Range(modrevs'[e.key].submodules)
             PROVE  \E c \in Range(modrevs'[k].submodules) : c.key = d.key
  BY DEF IncludesComplete
<1>3. k \in DOMAIN modrevs' /\ modrevs'[k].state = "module"
  BY DEF Loaded, State
<1>4. CASE k \in Loaded
  <2>1. k \in DOMAIN modrevs /\ modrevs'[k] = modrevs[k]
    BY <1>1, <1>4 DEF Evolution, Loaded
  <2>2. e.key \in Loaded /\ e.key \in DOMAIN modrevs
    BY <2>1, SubmodulesStored
  <2>3. modrevs'[e.key] = modrevs[e.key]
    BY <1>1, <2>2 DEF Evolution
  <2> QED BY <1>2, <1>4, <2>1, <2>3 DEF IncludesComplete
<1>5. CASE Finish /\ k = Top.key
  <2>0. stack # <<>> /\ k = Top.key
    BY <1>5 DEF Finish
  <2>1. FileOf(k).kind = "module" /\ FileOf(k).body
          => MissingIncludes(Here) = {}
    BY <1>5 DEF Finish
  <2>2. /\ Here = modrevs[k] /\ k \in DOMAIN modrevs /\ k \notin Loaded
    BY <2>0, HereFacts, TopFacts DEF Here, Loaded
  <2>3. modrevs'[k].submodules = Here.submodules
        /\ \A x \in DOMAIN modrevs : x # k => modrevs'[x] = modrevs[x]
    BY <1>0, <1>5, <2>2
  <2>4. e \in Range(Here.submodules) /\ e.key \in Loaded /\ e.key \in DOMAIN modrevs
    BY <2>2, <2>3, SubmodulesStored
  <2>5. d \in Range(modrevs[e.key].submodules)
    BY <2>2, <2>3, <2>4
  <2>6. MissingIncludes(Here) = {}
    BY <1>2, <2>1, <2>2
  <2>7. d.key \in {s.key : s \in Range(Here.submodules)}
    <3> SUFFICES ASSUME d.key \notin {s.key : s \in Range(Here.submodules)}
                 PROVE  FALSE
      OBVIOUS
    <3> DEFINE r == [code |-> "MISSING_INCLUDE", file |-> modrevs[e.key].file,
                     at |-> d.at]
    <3>1. r \in MissingIncludes(Here)
      BY <2>4, <2>5 DEF MissingIncludes
    <3> QED BY <2>6, <3>1
  <2> QED BY <2>3, <2>7
<1> QED BY <1>1, <1>3, <1>4, <1>5 DEF Grows

(* v_unique_namespaces: the first name owns the namespace.                 *)
LEMMA PostNamespaces ==
  ASSUME PostAddModules, errors' = {}
  PROVE  NamespacesOwned'
<1>1. PICK first \in [Namespaces -> Name] :
        errors' = errors \cup
         {[code |-> "DUPLICATE_NAMESPACE", file |-> modrevs[k].file, at |-> 0] :
            k \in {j \in LoadedModules : first[FileOf(j).ns] # j[1]}}
  BY DEF PostAddModules
<1>2. \A k \in LoadedModules : first[FileOf(k).ns] = k[1]
  <2> SUFFICES ASSUME NEW k \in LoadedModules, first[FileOf(k).ns] # k[1]
               PROVE  FALSE
    OBVIOUS
  <2> DEFINE r == [code |-> "DUPLICATE_NAMESPACE", file |-> modrevs[k].file,
                   at |-> 0]
  <2>1. r \in errors'
    BY <1>1
  <2> QED BY <2>1
<1>3. UNCHANGED <<scn, modrevs>>
  BY DEF PostAddModules
<1>4. NamespacesOwned
  BY <1>2 DEF NamespacesOwned
<1> QED BY <1>3, <1>4 DEF NamespacesOwned, LoadedModules, Loaded, State, FileOf

LEMMA StepCleanInv == IInv /\ CleanInv /\ [Next]_vars => CleanInv'
<1> SUFFICES ASSUME IInv, CleanInv, [Next]_vars PROVE CleanInv'
  OBVIOUS
<1>1. errors \subseteq errors'
  BY StepGrows DEF Kept
<1>2. phase' = "post" =>
        \/ PostAddModules
        \/ phase = "post" /\ UNCHANGED vars
  BY DEF Next, AddFile, AddFileUnparsable, LinkKnown, LinkCircular,
       LinkNotFound, LinkUnparsable, LinkFile, TakeImport, TakeInclude,
       Finish, PostAddModules, Terminated, unlinked, vars, Idle, Linking,
       CleanInv
<1>3. phase' = "post" => stack' = <<>> /\ todo' = <<>>
  BY <1>2 DEF PostAddModules, Idle, CleanInv, vars
<1>4. ASSUME errors' = {}
      PROVE  ArgumentsAdded' /\ SubmodulesBelong' /\ IncludesComplete'
  <2>1. ArgumentsAdded /\ SubmodulesBelong /\ IncludesComplete
    BY <1>1, <1>4 DEF CleanInv
  <2> QED BY <1>4, <2>1, StepArguments, StepBelong, StepIncludes
<1>5. ASSUME errors' = {}, phase' = "post" PROVE NamespacesOwned'
  <2>1. CASE PostAddModules
    BY <1>5, <2>1, PostNamespaces
  <2>2. CASE phase = "post" /\ UNCHANGED vars
    BY <1>5, <2>2 DEF CleanInv, vars, NamespacesOwned, LoadedModules, Loaded,
       State, FileOf
  <2> QED BY <1>2, <1>5, <2>1, <2>2
<1> QED BY <1>3, <1>4, <1>5 DEF CleanInv

LEMMA CleanLemma == IInv /\ NothingLost /\ CleanInv => CleanRun
<1> SUFFICES ASSUME IInv, NothingLost, CleanInv, phase = "post", errors = {}
             PROVE  CleanRun
  BY DEF CleanRun
<1>1. /\ stack = <<>> /\ todo = <<>> /\ ArgumentsAdded /\ SubmodulesBelong
      /\ IncludesComplete /\ NamespacesOwned
  BY DEF CleanInv
<1>2. Loaded = DOMAIN modrevs
  <2>1. Processing = {}
    BY <1>1 DEF IInv, ProcessingIsStack
  <2> QED BY <2>1, FileFacts DEF Processing, Loaded, IInv
<1>3. \A i \in DOMAIN scn.argv : KeyOf(scn.argv[i].file) \in Loaded
  BY <1>1, <1>2 DEF ArgumentsAdded
<1>4. \A k \in Loaded : \A i \in DOMAIN FileOf(k).links : Resolved(k, i)
  BY <1>2 DEF NothingLost, Reported, Passed, Loaded
<1>5. ASSUME NEW k \in Loaded
      PROVE  LET subs == {s.key : s \in Range(modrevs[k].submodules)}
             IN  /\ \A s \in subs : /\ FileOf(s).kind = "submodule"
                                    /\ FileOf(s).owner = FileOf(k).owner
                                    /\ FileOf(s).v11 = FileOf(k).v11
                 /\ FileOf(k).kind = "module" /\ FileOf(k).body =>
                      \A s \in subs :
                        {t.key : t \in Range(modrevs[s].submodules)} \subseteq subs
  <2>1. \A e \in Range(modrevs[k].submodules) :
          /\ FileOf(e.key).kind = "submodule"
          /\ FileOf(e.key).owner = FileOf(k).owner
          /\ FileOf(e.key).v11 = FileOf(k).v11
    BY <1>1, <1>2 DEF SubmodulesBelong
  <2>2. FileOf(k).kind = "module" /\ FileOf(k).body =>
          \A e \in Range(modrevs[k].submodules) :
            \A d \in Range(modrevs[e.key].submodules) :
              \E c \in Range(modrevs[k].submodules) : c.key = d.key
    BY <1>1 DEF IncludesComplete
  <2> QED BY <2>1, <2>2
<1> QED BY <1>1, <1>2, <1>3, <1>4, <1>5 DEF CleanRun, NamespacesOwned

(* A run without errors has everything: the files asked for, what they     *)
(* refer to, and submodules and namespaces where they belong.              *)
THEOREM CleanRunsAreComplete == Spec => []CleanRun
<1>1. Init => NothingLost
  BY DEF Init, NothingLost
<1>2. Init => CleanInv
  BY DEF Init, CleanInv, ArgumentsAdded, SubmodulesBelong, IncludesComplete,
     Loaded, State
<1> QED BY <1>1, <1>2, InitIInv, StepIInv, StepLosesNothing, StepCleanInv,
           CleanLemma, PTL DEF Spec
-----------------------------------------------------------------------------
(* Where a module in the context comes from: its key is that of its file,  *)
(* a module is of its own revision.                                        *)
OfItsFile(k) ==
  /\ k = KeyOf(modrevs[k].file)
  /\ FileOf(k).kind = "module" => modrevs[k].modulerevision = k[2]
Origin == scn \in Scenario /\ \A k \in DOMAIN modrevs : OfItsFile(k)

SameOrigin(k) ==
  /\ k \in DOMAIN modrevs'
  /\ modrevs'[k].file = modrevs[k].file
  /\ modrevs'[k].cause = modrevs[k].cause
  /\ modrevs'[k].modulerevision = modrevs[k].modulerevision

(* A module with file f, which the context does not have, is entered.      *)
Entered(f, cause, incRev) ==
  /\ KeyOf(f) \notin DOMAIN modrevs
  /\ DOMAIN modrevs' = DOMAIN modrevs \cup {KeyOf(f)}
  /\ modrevs'[KeyOf(f)].file = f
  /\ modrevs'[KeyOf(f)].cause = cause
  /\ modrevs'[KeyOf(f)].modulerevision =
       IF scn.file[f].kind = "module" THEN KeyOf(f)[2] ELSE incRev
  /\ stack' = <<[key |-> KeyOf(f), at |-> 1]>> \o stack
  /\ UNCHANGED <<ret, errors>>

EnteredByArgument ==
  AddFile /\ Entered(Head(todo).file, Head(todo).cause, NoRevision)
EnteredByLink ==
  LinkFile /\ \E f \in FileFor(Link.name, Target(Link)[2]) :
    /\ Mismatch(f, Link) = {}
    /\ Entered(f, Link.kw, IF Link.kw = "include" THEN Here.modulerevision
                           ELSE NoRevision)

LEMMA SettingKeepsOrigin ==
  ASSUME IInv, stack # <<>>, NEW state, NEW imps, NEW subs,
         modrevs' = HereWith(state, imps, subs)
  PROVE  DOMAIN modrevs' = DOMAIN modrevs /\ \A k \in DOMAIN modrevs : SameOrigin(k)
<1> DEFINE m == [state |-> state, file |-> Here.file, cause |-> Here.cause,
                 modulerevision |-> Here.modulerevision,
                 imports |-> imps, submodules |-> subs]
<1>1. /\ m.file = Here.file /\ m.cause = Here.cause
      /\ m.modulerevision = Here.modulerevision
      /\ modrevs' = [modrevs EXCEPT ![Top.key] = m]
  BY DEF HereWith
<1> HIDE DEF m
<1>2. Top.key \in DOMAIN modrevs
  BY TopFacts
<1> QED BY <1>1, <1>2 DEF SameOrigin, Here

LEMMA AddingKeepsOrigin ==
  ASSUME IInv, NEW f \in File, NEW cause, NEW incRev, AddParsed(f, cause, incRev)
  PROVE  /\ \A k \in DOMAIN modrevs : SameOrigin(k)
         /\ DOMAIN modrevs' = DOMAIN modrevs \/ Entered(f, cause, incRev)
<1> DEFINE k == KeyOf(f)
<1>1. CASE State(k) = "absent"
  <2> DEFINE m == [state |-> "processing", file |-> f, cause |-> cause,
            modulerevision |->
              IF scn.file[f].kind = "module" THEN k[2] ELSE incRev,
            imports |-> <<>>, submodules |-> <<>>]
  <2>1. /\ m.file = f /\ m.cause = cause
        /\ m.modulerevision = IF scn.file[f].kind = "module" THEN k[2] ELSE incRev
        /\ modrevs' = [x \in DOMAIN modrevs \cup {k} |->
                        IF x = k THEN m ELSE modrevs[x]]
        /\ stack' = <<[key |-> k, at |-> 1]>> \o stack
        /\ UNCHANGED <<ret, errors>>
    BY <1>1 DEF AddParsed
  <2>2. k \notin DOMAIN modrevs
    BY <1>1, FileFacts DEF IInv
  <2> HIDE DEF m, k
  <2>3. \A x \in DOMAIN modrevs : SameOrigin(x)
    BY <2>1, <2>2 DEF SameOrigin
  <2>4. Entered(f, cause, incRev)
    BY <2>1, <2>2 DEF Entered, k
  <2> QED BY <2>3, <2>4
<1>2. CASE State(k) # "absent"
  <2>1. State(k) \in {"processing", "module"}
    BY <1>2, FileFacts DEF IInv
  <2>2. modrevs' = modrevs
    BY <2>1 DEF AddParsed, Failed, Found
  <2> QED BY <2>2 DEF SameOrigin
<1> QED BY <1>1, <1>2

(* No step changes the file, cause or module revision of a module, and the *)
(* two ways in which one is entered.                                       *)
LEMMA StepKeepsOrigin ==
  ASSUME IInv, [Next]_vars
  PROVE  /\ scn' = scn /\ \A k \in DOMAIN modrevs : SameOrigin(k)
         /\ \/ DOMAIN modrevs' = DOMAIN modrevs
            \/ EnteredByArgument \/ EnteredByLink
<1>0. scn' = scn
  BY StepGrows DEF Kept
<1>1. CASE AddFile
  <2>1. todo # <<>> /\ AddParsed(Head(todo).file, Head(todo).cause, NoRevision)
    BY <1>1 DEF AddFile
  <2>2. Head(todo).file \in File
    <3>1. Head(todo) \in Argument
      BY <2>1, HeadTailProperties DEF IInv, TypeOK
    <3> QED BY <3>1 DEF Argument
  <2>3. /\ \A k \in DOMAIN modrevs : SameOrigin(k)
        /\ \/ DOMAIN modrevs' = DOMAIN modrevs
           \/ Entered(Head(todo).file, Head(todo).cause, NoRevision)
    BY <2>1, <2>2, AddingKeepsOrigin
  <2> QED BY <1>0, <1>1, <2>3 DEF EnteredByArgument
<1>2. CASE LinkFile
  <2>1. PICK f \in FileFor(Link.name, Target(Link)[2]) :
          IF Mismatch(f, Link) # {} THEN Failed(Mismatch(f, Link), f, 0)
          ELSE AddParsed(f, Link.kw, IF Link.kw = "include"
                           THEN Here.modulerevision ELSE NoRevision)
    BY <1>2 DEF LinkFile
  <2>2. f \in File
    BY FileForType
  <2>3. CASE Mismatch(f, Link) # {}
    BY <1>0, <2>1, <2>3 DEF Failed, SameOrigin
  <2>4. CASE Mismatch(f, Link) = {}
    <3> DEFINE inc == IF Link.kw = "include" THEN Here.modulerevision ELSE NoRevision
    <3>1. AddParsed(f, Link.kw, inc)
      BY <2>1, <2>4
    <3>2. /\ \A k \in DOMAIN modrevs : SameOrigin(k)
          /\ DOMAIN modrevs' = DOMAIN modrevs \/ Entered(f, Link.kw, inc)
      BY <2>2, <3>1, AddingKeepsOrigin
    <3> QED BY <1>0, <1>2, <2>4, <3>2 DEF EnteredByLink
  <2> QED BY <2>3, <2>4
<1>3. CASE TakeImport \/ TakeInclude \/ Finish
  <2>1. stack # <<>>
    BY <1>3 DEF TakeImport, TakeInclude, Finish
  <2>2. modrevs' = modrevs \/ \E state, imps, subs : modrevs' = HereWith(state, imps, subs)
    BY <1>3 DEF TakeImport, TakeInclude, Finish
  <2> QED BY <1>0, <2>1, <2>2, SettingKeepsOrigin DEF SameOrigin
<1>4. CASE \/ AddFileUnparsable \/ LinkKnown \/ LinkCircular \/ LinkNotFound
           \/ LinkUnparsable \/ PostAddModules \/ Terminated \/ UNCHANGED vars
  <2>1. modrevs' = modrevs
    BY <1>4 DEF AddFileUnparsable, LinkKnown, LinkCircular, LinkNotFound,
       LinkUnparsable, PostAddModules, Terminated, vars, Failed, Found
  <2> QED BY <1>0, <2>1 DEF SameOrigin
<1> QED BY <1>1, <1>2, <1>3, <1>4 DEF Next

LEMMA StepOrigin == IInv /\ Origin /\ [Next]_vars => Origin'
<1> SUFFICES ASSUME IInv, Origin, [Next]_vars PROVE Origin'
  OBVIOUS
<1>1. /\ scn' = scn /\ \A k \in DOMAIN modrevs : SameOrigin(k)
      /\ \/ DOMAIN modrevs' = DOMAIN modrevs
         \/ \E f \in File : \E cause, incRev : Entered(f, cause, incRev)
  <2>1. EnteredByLink => \E f \in File : \E cause, incRev : Entered(f, cause, incRev)
    BY FileForType DEF EnteredByLink
  <2>2. EnteredByArgument => \E f \in File : \E cause, incRev : Entered(f, cause, incRev)
    <3>1. EnteredByArgument => Head(todo) \in Argument
      BY HeadTailProperties DEF EnteredByArgument, AddFile, IInv, TypeOK
    <3> QED BY <3>1 DEF EnteredByArgument, Argument
  <2> QED BY <2>1, <2>2, StepKeepsOrigin
<1>2. \A f : KeyOf(f)' = KeyOf(f)
  BY <1>1 DEF KeyOf
<1>3. ASSUME NEW k \in DOMAIN modrevs PROVE OfItsFile(k)'
  BY <1>1, <1>2 DEF Origin, OfItsFile, SameOrigin, FileOf
<1>4. ASSUME NEW k \in DOMAIN modrevs', k \notin DOMAIN modrevs PROVE OfItsFile(k)'
  <2>1. PICK f \in File : \E cause, incRev : Entered(f, cause, incRev)
    BY <1>1, <1>4
  <2>2. PICK cause, incRev : Entered(f, cause, incRev)
    BY <2>1
  <2>3. k = KeyOf(f)
    BY <1>4, <2>2 DEF Entered
  <2>4. modrevs'[k].file = f /\ modrevs'[k].modulerevision =
          IF scn.file[f].kind = "module" THEN k[2] ELSE incRev
    BY <2>2, <2>3 DEF Entered
  <2> QED BY <1>1, <1>2, <2>3, <2>4 DEF OfItsFile, FileOf
<1> QED BY <1>1, <1>3, <1>4 DEF Origin
-----------------------------------------------------------------------------
(* An include that will be refused as soon as the call that reads the      *)
(* submodule returns: the submodule belongs to another module.             *)
LinkAt(i) == FileOf(stack[i].key).links[stack[i].at]
WrongOwnerAt(i) ==
  LinkAt(i).kw = "include" /\ FileOf(stack[i - 1].key).owner # FileOf(stack[i].key).owner
WrongOwnerReturned ==
  ret # NoKey /\ Link.kw = "include" /\ FileOf(ret).owner # FileOf(Top.key).owner
RefusalToCome == WrongOwnerReturned \/ \E i \in DOMAIN stack : i > 1 /\ WrongOwnerAt(i)

HasItsModule(k) ==
  \E m \in DOMAIN modrevs :
    FileOf(m).kind = "module" /\ m = <<FileOf(k).owner, modrevs[k].modulerevision>>
ReadAlone == {k \in DOMAIN modrevs : FileOf(k).kind = "submodule" /\ modrevs[k].cause # "include"}
Handed(k) ==
  FileOf(k).kind = "submodule" =>
    HasItsModule(k) \/ (ReadAlone # {} /\ modrevs[k].modulerevision = NoRevision)
HandedDown ==
  errors = {} /\ ~RefusalToCome => \A k \in DOMAIN modrevs : Handed(k)

(* The frames below the innermost one stay where they are.                 *)
LEMMA WrongOwnerStays ==
  ASSUME IInv, scn' = scn, \A k \in DOMAIN modrevs : SameOrigin(k),
         NEW i \in DOMAIN stack, i > 1, NEW j \in DOMAIN stack', j > 1,
         stack'[j] = stack[i], stack'[j - 1].key = stack[i - 1].key, WrongOwnerAt(i)
  PROVE  RefusalToCome'
<1>1. i - 1 \in DOMAIN stack
  BY LenProperties DEF IInv, TypeOK
<1>2. stack[i].key \in DOMAIN modrevs /\ stack[i - 1].key \in DOMAIN modrevs
  BY <1>1 DEF IInv, ProcessingIsStack, Processing
<1>3. \A k \in DOMAIN modrevs : FileOf(k)' = FileOf(k)
  BY DEF SameOrigin, FileOf
<1>5. /\ scn'.file[modrevs'[stack'[j].key].file] = FileOf(stack[i].key)
      /\ scn'.file[modrevs'[stack'[j - 1].key].file] = FileOf(stack[i - 1].key)
  BY <1>2 DEF FileOf, SameOrigin
<1>6. WrongOwnerAt(j)'
  BY <1>5 DEF WrongOwnerAt, LinkAt, FileOf
<1> QED BY <1>6 DEF RefusalToCome

LEMMA ReturnRefused ==
  ASSUME IInv, WrongOwnerReturned, [Next]_vars, vars' # vars
  PROVE  errors' # {}
<1>1. TakeInclude
  BY DEF WrongOwnerReturned, Next, AddFile, AddFileUnparsable, LinkKnown, LinkCircular,
         LinkNotFound, LinkUnparsable, LinkFile, TakeImport, Finish, Idle, Linking,
         PostAddModules, Terminated, IInv, CallChain, ReturnAnswers
<1>2. FileOf(ret).owner # FileOf(Top.key).owner
  BY DEF WrongOwnerReturned
<1>3. \A c, f, at : Report({c}, f, at) => errors' # {}
  BY DEF Report
<1> QED BY <1>1, <1>2, <1>3 DEF TakeInclude

LEMMA RefusalStays ==
  ASSUME IInv, RefusalToCome, [Next]_vars, errors' = {}
  PROVE  RefusalToCome'
<1>0. scn' = scn /\ \A k \in DOMAIN modrevs : SameOrigin(k)
  BY StepKeepsOrigin
<1>1. CASE UNCHANGED vars
  BY <1>1 DEF vars, RefusalToCome, WrongOwnerReturned, WrongOwnerAt, LinkAt, Link, Top,
              FileOf
<1>2. CASE vars' # vars
  <2>1. ~WrongOwnerReturned
    BY <1>2, ReturnRefused
  <2>2. PICK i \in DOMAIN stack : i > 1 /\ WrongOwnerAt(i)
    BY <2>1 DEF RefusalToCome
  <2>3. /\ stack \in Seq(Frame) /\ DOMAIN stack = 1 .. Len(stack) /\ Len(stack) \in Nat
        /\ stack # <<>> /\ i - 1 \in DOMAIN stack
    BY <2>2, LenProperties DEF IInv, TypeOK
  <2>4. CASE stack' = Advanced
    <3>1. /\ DOMAIN Advanced = DOMAIN stack
          /\ \A j \in DOMAIN stack : j # 1 => Advanced[j] = stack[j]
          /\ \A j \in DOMAIN stack : Advanced[j].key = stack[j].key
      BY <2>3, AdvancedFacts DEF IInv
    <3> QED BY <1>0, <2>2, <2>3, <2>4, <3>1, WrongOwnerStays
  <2>5. CASE stack' = stack
    BY <1>0, <2>2, <2>5, WrongOwnerStays
  <2>6. CASE \E f \in File : stack' = <<[key |-> KeyOf(f), at |-> 1]>> \o stack
    <3>1. PICK f \in File : stack' = <<[key |-> KeyOf(f), at |-> 1]>> \o stack
      BY <2>6
    <3>2. [key |-> KeyOf(f), at |-> 1] \in Frame
      BY FileFacts DEF IInv, Frame
    <3>3. /\ DOMAIN stack' = 1 .. Len(stack) + 1
          /\ stack'[i + 1] = stack[i] /\ stack'[i] = stack[i - 1]
      BY <2>2, <2>3, <3>1, <3>2, ConcatProperties
    <3>4. i + 1 \in DOMAIN stack' /\ i + 1 > 1 /\ i + 1 - 1 = i
      BY <2>2, <2>3, <3>3
    <3> QED BY <1>0, <2>2, <3>3, <3>4, WrongOwnerStays
  <2>7. CASE Finish
    <3>1. stack' = Tail(stack) /\ ret' = IF Tail(stack) = <<>> THEN NoKey ELSE Top.key
      BY <2>7 DEF Finish
    <3>2. /\ DOMAIN stack' = 1 .. Len(stack) - 1
          /\ \A j \in 1 .. Len(stack) - 1 : stack'[j] = stack[j + 1]
      BY <2>3, <3>1, HeadTailProperties
    <3>3. CASE i > 2
      <4>1. i - 1 \in DOMAIN stack' /\ i - 1 > 1 /\ stack'[i - 1] = stack[i]
            /\ stack'[i - 1 - 1] = stack[i - 1]
        BY <2>2, <2>3, <3>2, <3>3
      <4> QED BY <1>0, <2>2, <4>1, WrongOwnerStays
    <3>4. CASE i = 2
      <4>1. /\ stack' # <<>> /\ stack'[1] = stack[2] /\ Head(stack') = stack'[1]
        <5>1. 1 \in DOMAIN stack' /\ stack'[1] = stack[2]
          BY <2>3, <3>2, <3>4
        <5>2. stack' # <<>>
          BY <5>1
        <5> QED BY <5>1, <5>2
      <4>2. ret' = stack[1].key /\ Top' = stack[2]
        BY <3>1, <4>1, TopFacts, <2>3 DEF Top
      <4>3. stack[1].key \in DOMAIN modrevs /\ stack[2].key \in DOMAIN modrevs
            /\ stack[1].key \in Key
        BY <2>2, <2>3, <3>4 DEF IInv, ProcessingIsStack, Processing, TypeOK
      <4>4. /\ scn'.file[modrevs'[Top'.key].file] = FileOf(stack[2].key)
            /\ scn'.file[modrevs'[ret'].file] = FileOf(stack[1].key)
        BY <1>0, <4>2, <4>3 DEF SameOrigin, FileOf
      <4>5. Link' = LinkAt(2)
        BY <4>2, <4>4 DEF Link, LinkAt, FileOf
      <4>6. ret' # NoKey
        BY <4>2, <4>3 DEF Key, NoKey
      <4>7. WrongOwnerReturned'
        BY <2>2, <3>4, <4>4, <4>5, <4>6 DEF WrongOwnerReturned, WrongOwnerAt, FileOf
      <4> QED BY <4>7 DEF RefusalToCome
    <3> QED BY <2>2, <2>3, <3>3, <3>4
  <2>8. CASE ~Finish
    <3>1. \A f, cause, incRev : AddParsed(f, cause, incRev) =>
            stack' \in {stack, Advanced, <<[key |-> KeyOf(f), at |-> 1]>> \o stack}
      <4> SUFFICES ASSUME NEW f, NEW cause, NEW incRev, AddParsed(f, cause, incRev)
                   PROVE  stack' \in {stack, Advanced, <<[key |-> KeyOf(f), at |-> 1]>> \o stack}
        OBVIOUS
      <4>1. State(KeyOf(f)) \in {"processing", "module", "absent"}
        BY FileFacts DEF IInv
      <4> QED BY <4>1 DEF AddParsed, Failed, Found
    <3>2. LinkFile => stack' \in {stack, Advanced}
                      \/ \E f \in File : stack' = <<[key |-> KeyOf(f), at |-> 1]>> \o stack
      BY <3>1, FileForType DEF LinkFile, Failed
    <3>3. ~AddFile
      BY <2>3 DEF AddFile, Idle
    <3>4. stack' \in {stack, Advanced}
          \/ \E f \in File : stack' = <<[key |-> KeyOf(f), at |-> 1]>> \o stack
      BY <1>2, <2>8, <3>2, <3>3 DEF Next, AddFileUnparsable, LinkKnown, LinkCircular, Failed,
         Found, LinkNotFound, LinkUnparsable, TakeImport, TakeInclude, PostAddModules, Terminated
    <3> QED BY <2>4, <2>5, <2>6, <3>4
  <2> QED BY <2>7, <2>8
<1> QED BY <1>1, <1>2

LEMMA HandedStays ==
  ASSUME IInv, [Next]_vars, NEW k \in DOMAIN modrevs, Handed(k)
  PROVE  Handed(k)'
<1>1. /\ scn' = scn /\ \A j \in DOMAIN modrevs : SameOrigin(j)
      /\ \A j \in DOMAIN modrevs : FileOf(j)' = FileOf(j)
  BY StepKeepsOrigin DEF SameOrigin, FileOf
<1>2. ReadAlone \subseteq ReadAlone'
  BY <1>1 DEF ReadAlone, SameOrigin
<1>3. HasItsModule(k) => HasItsModule(k)'
  <2> SUFFICES ASSUME NEW m \in DOMAIN modrevs, FileOf(m).kind = "module",
                      m = <<FileOf(k).owner, modrevs[k].modulerevision>>
               PROVE  HasItsModule(k)'
    BY DEF HasItsModule
  <2>1. /\ m \in DOMAIN modrevs' /\ FileOf(m)' = FileOf(m)
        /\ FileOf(k)' = FileOf(k)
        /\ modrevs'[k].modulerevision = modrevs[k].modulerevision
    BY <1>1 DEF SameOrigin
  <2>2. m = <<FileOf(k)'.owner, modrevs'[k].modulerevision>> /\ FileOf(m)'.kind = "module"
    BY <2>1
  <2> QED BY <2>1, <2>2 DEF HasItsModule
<1>4. FileOf(k)' = FileOf(k) /\ modrevs'[k].modulerevision = modrevs[k].modulerevision
  BY <1>1 DEF SameOrigin
<1> QED BY <1>2, <1>3, <1>4 DEF Handed

(* A submodule entered by an include has its module where the including    *)
(* one has it: either that is the module, or it passes on what it has.     *)
LEMMA IncludedHanded ==
  ASSUME IInv, Origin, EnteredByLink, Link.kw = "include", [Next]_vars,
         \A k \in DOMAIN modrevs : Handed(k), ~RefusalToCome',
         NEW k \in DOMAIN modrevs', k \notin DOMAIN modrevs
  PROVE  Handed(k)'
<1>0. PICK p \in DOMAIN modrevs : p = Top.key
  BY TopFacts DEF EnteredByLink, LinkFile, Linking
<1>1. PICK f \in FileFor(Link.name, Target(Link)[2]) : Entered(f, "include", Here.modulerevision)
  BY DEF EnteredByLink
<1>2. /\ k = KeyOf(f) /\ f \in File
      /\ modrevs'[k].file = f /\ scn' = scn
      /\ stack' = <<[key |-> k, at |-> 1]>> \o stack
      /\ modrevs'[k].modulerevision = IF scn.file[f].kind = "module" THEN k[2]
                                      ELSE modrevs[p].modulerevision
  BY <1>0, <1>1, StepKeepsOrigin, FileForType DEF Entered, Here
<1>3. FileOf(k)' = scn.file[f]
  BY <1>2 DEF FileOf
<1>4. stack # <<>> /\ stack \in Seq(Frame) /\ Top = stack[1]
      /\ Len(stack) \in Nat /\ Len(stack) # 0
  <2>1. stack # <<>>
    BY DEF EnteredByLink, LinkFile, Linking
  <2> QED BY <2>1, TopFacts, LenProperties, EmptySeq DEF IInv, TypeOK
<1>5. 2 \in DOMAIN stack' /\ stack'[2] = Top /\ stack'[1].key = k
  <2>1. [key |-> k, at |-> 1] \in Frame
    BY <1>2, FileFacts DEF IInv, Frame
  <2> QED BY <1>2, <1>4, <2>1, ConcatProperties
<1>6. FileOf(p)' = FileOf(p) /\ SameOrigin(p)
  BY StepKeepsOrigin DEF FileOf, SameOrigin
<1>7. FileOf(p).owner = scn.file[f].owner
  <2>1. ~WrongOwnerAt(2)'
    BY <1>5 DEF RefusalToCome
  <2>2. scn'.file[modrevs'[stack'[2].key].file] = FileOf(p)
    BY <1>0, <1>5, <1>6 DEF FileOf, SameOrigin
  <2>3. scn'.file[modrevs'[stack'[1].key].file] = scn.file[f]
    BY <1>5, <1>3 DEF FileOf
  <2>4. LinkAt(2)' = Link
    BY <1>0, <1>5, <2>2 DEF LinkAt, Link, FileOf
  <2> QED BY <2>1, <2>2, <2>3, <2>4 DEF WrongOwnerAt, FileOf
<1>8. CASE FileOf(p).kind = "module"
  <2>1. p = <<FileOf(p).name, FileOf(p).rev>> /\ modrevs[p].modulerevision = p[2]
    BY <1>4, <1>8 DEF Origin, OfItsFile, KeyOf, FileOf
  <2>2. modrevs[p].file \in File
    BY <1>4 DEF IInv, TypeOK, Module
  <2>3. FileOf(p).owner = FileOf(p).name
    BY <1>8, <2>2, ScenarioAssumption DEF Origin, FileOf
  <2>4. p = <<scn.file[f].owner, modrevs[p].modulerevision>>
    BY <1>7, <2>1, <2>3
  <2>5. FileOf(k)'.kind = "submodule" => modrevs'[k].modulerevision = modrevs[p].modulerevision
    BY <1>2, <1>3
  <2>6. FileOf(k)'.kind = "submodule" => HasItsModule(k)'
    BY <1>3, <1>4, <1>6, <1>8, <2>4, <2>5 DEF HasItsModule, SameOrigin
  <2> QED BY <2>6 DEF Handed
<1>9. CASE FileOf(p).kind # "module"
  <2>1. FileOf(p).kind = "submodule"
    BY <1>4, <1>9, FileFacts DEF IInv, FileType
  <2>2. Handed(p)'
    BY <1>4, HandedStays
  <2>3. FileOf(k)'.kind = "submodule" =>
          /\ modrevs'[k].modulerevision = modrevs'[p].modulerevision
          /\ FileOf(k)'.owner = FileOf(p)'.owner
    BY <1>2, <1>3, <1>6, <1>7 DEF SameOrigin
  <2>4. FileOf(k)'.kind = "submodule" /\ HasItsModule(p)' => HasItsModule(k)'
    BY <2>3 DEF HasItsModule
  <2> QED BY <1>6, <2>1, <2>2, <2>3, <2>4 DEF Handed
<1> QED BY <1>8, <1>9

LEMMA StepHanded == IInv /\ Origin /\ HandedDown /\ [Next]_vars => HandedDown'
<1> SUFFICES ASSUME IInv, Origin, HandedDown, [Next]_vars, errors' = {}, ~RefusalToCome',
                    NEW k \in DOMAIN modrevs'
             PROVE  Handed(k)'
  BY DEF HandedDown
<1>1. \A j \in DOMAIN modrevs : Handed(j)
  BY RefusalStays, StepGrows DEF HandedDown, Kept
<1>2. CASE k \in DOMAIN modrevs
  BY <1>1, <1>2, HandedStays
<1>3. CASE k \notin DOMAIN modrevs
  <2>1. EnteredByArgument \/ EnteredByLink
    BY <1>3, StepKeepsOrigin
  <2>2. CASE EnteredByLink /\ Link.kw = "include"
    BY <1>1, <1>3, <2>2, IncludedHanded
  <2>3. ASSUME NEW f, NEW cause, cause # "include", Entered(f, cause, NoRevision)
        PROVE  Handed(k)'
    <3>1. /\ modrevs'[k].cause # "include" /\ k = KeyOf(f)
          /\ modrevs'[k].modulerevision =
               IF scn.file[f].kind = "module" THEN KeyOf(f)[2] ELSE NoRevision
          /\ modrevs'[k].file = f
      BY <1>3, <2>3 DEF Entered
    <3>2. FileOf(k)' = scn.file[f]
      BY <3>1, StepKeepsOrigin DEF FileOf
    <3>3. FileOf(k)'.kind = "submodule" =>
            k \in ReadAlone' /\ modrevs'[k].modulerevision = NoRevision
      BY <3>1, <3>2 DEF ReadAlone
    <3> QED BY <3>3 DEF Handed
  <2>4. CASE EnteredByLink /\ Link.kw # "include"
    <3>1. PICK f \in FileFor(Link.name, Target(Link)[2]) : Entered(f, Link.kw, NoRevision)
      BY <2>4 DEF EnteredByLink
    <3> QED BY <2>3, <2>4, <3>1
  <2>5. CASE EnteredByArgument
    <3>1. Head(todo) \in Argument
      BY <2>5, HeadTailProperties DEF EnteredByArgument, AddFile, IInv, TypeOK
    <3>2. Head(todo).cause # "include"
      BY <3>1 DEF Argument
    <3> QED BY <2>3, <2>5, <3>2 DEF EnteredByArgument
  <2> QED BY <2>1, <2>2, <2>4, <2>5
<1> QED BY <1>2, <1>3

LEMMA HandedLemma ==
  IInv /\ Origin /\ HandedDown /\ CleanInv => RevisionHandedDown
<1> SUFFICES ASSUME IInv, Origin, HandedDown, CleanInv, phase = "post", errors = {},
                    NEW s \in Loaded, FileOf(s).kind = "submodule"
             PROVE  \/ <<FileOf(s).owner, modrevs[s].modulerevision>> \in LoadedModules
                    \/ /\ {k \in Loaded : FileOf(k).kind = "submodule"
                                          /\ modrevs[k].cause # "include"} # {}
                       /\ modrevs[s].modulerevision = NoRevision
  BY DEF RevisionHandedDown
<1>1. stack = <<>> /\ ret = NoKey
  BY DEF CleanInv, IInv, CallChain, ReturnAnswers
<1>2. ~RefusalToCome
  BY <1>1 DEF RefusalToCome, WrongOwnerReturned
<1>3. Loaded = DOMAIN modrevs
  <2>1. Processing = {}
    BY <1>1 DEF IInv, ProcessingIsStack
  <2> QED BY <2>1, FileFacts DEF IInv, Loaded, Processing
<1>4. Handed(s)
  BY <1>2, <1>3 DEF HandedDown
<1>5. HasItsModule(s) => <<FileOf(s).owner, modrevs[s].modulerevision>> \in LoadedModules
  BY <1>3 DEF HasItsModule, LoadedModules
<1> QED BY <1>3, <1>4, <1>5 DEF Handed, ReadAlone

(* After a run without errors every submodule is stored with the revision  *)
(* of a module it belongs to, or with none because a submodule was read by *)
(* itself, however deep the include chains.                                *)
THEOREM RevisionsHandedDown == Spec => []RevisionHandedDown
<1>1. Init => Origin /\ HandedDown /\ CleanInv
  BY DEF Init, Origin, HandedDown, CleanInv, ArgumentsAdded, SubmodulesBelong,
     IncludesComplete, Loaded, State
<1> QED BY <1>1, InitIInv, StepIInv, StepOrigin, StepHanded, StepCleanInv, HandedLemma,
           PTL DEF Spec
-----------------------------------------------------------------------------
(* Circles.  Whatever the files are, what is read is reached from the      *)
(* command line.                                                           *)
TodoGiven ==
  \A j \in DOMAIN todo : \E i \in DOMAIN scn.argv : todo[j] = scn.argv[i]
AllReached == \A k \in DOMAIN modrevs : Reached(modrevs[k].file)

(* In a graph of modules there are three errors, each with its reason.     *)
GraphError(e) ==
  LET links == scn.file[e.file].links
  IN  \/ e.code = "DUPLICATE_NAMESPACE" /\ e.at = 0
      \/ /\ e.at \in DOMAIN links /\ e.code = "CIRCULAR_DEPENDENCY"
         /\ \E k \in DOMAIN modrevs : k[1] = links[e.at].name
      \/ /\ e.at \in DOMAIN links /\ e.code = "MODULE_NOT_FOUND"
         /\ Named(links[e.at].name) = {}
NoSubmodules == \A k \in DOMAIN modrevs : Range(modrevs[k].submodules) = {}
CirclesOnly == (\E e \in errors : e.code = "CIRCULAR_DEPENDENCY") => HasCircle

GraphInv ==
  /\ TodoGiven /\ AllReached
  /\ IsGraph => /\ ArgumentsAdded /\ NoSubmodules /\ CirclesOnly
                /\ \A e \in errors : GraphError(e)

(* These are about the scenario, which no step changes.                    *)
LEMMA GraphStays ==
  ASSUME scn' = scn
  PROVE  /\ IsGraph' = IsGraph /\ HasCircle' = HasCircle
         /\ \A f : Reached(f)' = Reached(f) /\ Imports(f)' = Imports(f)
         /\ \A n : Named(n)' = Named(n)
<1>1. IsGraph' = IsGraph
  BY DEF IsGraph
<1>2. \A f : Imports(f)' = Imports(f)
  BY DEF Imports
<1>3. \A f : Reached(f)' = Reached(f)
  BY <1>2 DEF Reached
<1>4. HasCircle' = HasCircle
  BY <1>2, <1>3 DEF HasCircle
<1>5. \A n : Named(n)' = Named(n)
  BY DEF Named
<1> QED BY <1>1, <1>2, <1>3, <1>4, <1>5

LEMMA ReachedStep ==
  ASSUME NEW f \in File, NEW g \in Imports(f), Reached(f)
  PROVE  Reached(g)
BY DEF Reached

LEMMA ReachedArgument ==
  ASSUME NEW i \in DOMAIN scn.argv
  PROVE  Reached(scn.argv[i].file)
BY DEF Reached

LEMMA StepReached ==
  ASSUME IInv, [Next]_vars, TodoGiven, AllReached
  PROVE  TodoGiven' /\ AllReached'
<1>1. /\ scn' = scn /\ \A k \in DOMAIN modrevs : SameOrigin(k)
      /\ \/ DOMAIN modrevs' = DOMAIN modrevs
         \/ EnteredByArgument \/ EnteredByLink
  BY StepKeepsOrigin
<1>2. \A f : Reached(f)' = Reached(f)
  BY <1>1, GraphStays
<1>3. TodoGiven'
  <2>1. CASE todo' = todo
    BY <1>1, <2>1 DEF TodoGiven
  <2>2. CASE todo # <<>> /\ todo' = Tail(todo)
    <3>1. \A j \in DOMAIN todo' : j + 1 \in DOMAIN todo /\ todo'[j] = todo[j + 1]
      BY <2>2, HeadTailProperties, LenProperties DEF IInv, TypeOK
    <3> QED BY <1>1, <3>1 DEF TodoGiven
  <2>3. todo' = todo \/ (todo # <<>> /\ todo' = Tail(todo))
    BY DEF Next, AddFile, AddFileUnparsable, LinkKnown, LinkCircular, LinkNotFound,
       LinkUnparsable, LinkFile, TakeImport, TakeInclude, Finish,
       PostAddModules, Terminated, unlinked, vars
  <2> QED BY <2>1, <2>2, <2>3
<1>4. ASSUME NEW k \in DOMAIN modrevs' PROVE Reached(modrevs'[k].file)
  <2>1. CASE k \in DOMAIN modrevs
    BY <1>1, <2>1 DEF AllReached, SameOrigin
  <2>2. CASE EnteredByArgument /\ k \notin DOMAIN modrevs
    <3>1. modrevs'[k].file = Head(todo).file /\ todo # <<>>
      BY <2>2 DEF EnteredByArgument, Entered, AddFile
    <3>2. 1 \in DOMAIN todo /\ Head(todo) = todo[1]
      BY <3>1, HeadTailProperties, LenProperties, EmptySeq DEF IInv, TypeOK
    <3> QED BY <3>1, <3>2, ReachedArgument DEF TodoGiven
  <2>3. CASE EnteredByLink /\ k \notin DOMAIN modrevs
    <3>1. Linking
      BY <2>3 DEF EnteredByLink, LinkFile
    <3>2. PICK f \in FileFor(Link.name, Target(Link)[2]) :
            Mismatch(f, Link) = {} /\ k = KeyOf(f) /\ modrevs'[k].file = f
      BY <2>3 DEF EnteredByLink, Entered
    <3>3. f \in File /\ scn.file[f].fname = Link.name
      BY <3>2 DEF FileFor, Named
    <3>4. /\ Top.key \in DOMAIN modrevs /\ modrevs[Top.key].file \in File
          /\ Link \in Range(scn.file[modrevs[Top.key].file].links)
      <4>1. stack # <<>> /\ Top.at <= Len(FileOf(Top.key).links)
        BY <3>1 DEF Linking
      <4>2. /\ Top \in Frame /\ Top.key \in DOMAIN modrevs
            /\ modrevs[Top.key] \in Module /\ FileOf(Top.key) \in FileType
        BY <4>1, TopFacts
      <4>3. Top.at \in DOMAIN FileOf(Top.key).links
        BY <4>1, <4>2, LenProperties DEF Frame, FileType
      <4> QED BY <4>2, <4>3 DEF Link, Range, FileOf, Module
    <3>5. f \in Imports(modrevs[Top.key].file)
      BY <3>3, <3>4 DEF Imports
    <3> QED BY <3>2, <3>4, <3>5, ReachedStep DEF AllReached
  <2> QED BY <1>1, <2>1, <2>2, <2>3
<1> QED BY <1>1, <1>2, <1>3, <1>4 DEF AllReached

(* In a graph of modules every statement is an import of any revision, and *)
(* every file parses and is what its name says.                            *)
LEMMA GraphLink ==
  ASSUME IInv, IsGraph, stack # <<>>, Top.at <= Len(FileOf(Top.key).links)
  PROVE  /\ Link.kw = "import" /\ Link.rev = NoRevision /\ Link.name \in Name
         /\ modrevs[Top.key].file \in File
         /\ Top.at \in DOMAIN scn.file[modrevs[Top.key].file].links
         /\ Link = scn.file[modrevs[Top.key].file].links[Top.at]
         /\ Link \in Range(scn.file[modrevs[Top.key].file].links)
<1>1. /\ Top \in Frame /\ Top.key \in DOMAIN modrevs
      /\ modrevs[Top.key] \in Module /\ FileOf(Top.key) \in FileType
  BY TopFacts
<1>2. Top.at \in DOMAIN FileOf(Top.key).links
  BY <1>1, LenProperties DEF Frame, FileType
<1>3. Link \in Range(FileOf(Top.key).links) /\ modrevs[Top.key].file \in File
  BY <1>1, <1>2 DEF Link, Range, Module
<1>4. Link.kw = "import" /\ Link.rev = NoRevision
  BY <1>3 DEF IsGraph, FileOf
<1>5. Link.name \in Name
  BY LinkFacts DEF LinkStmt
<1> QED BY <1>2, <1>3, <1>4, <1>5 DEF FileOf, Link

LEMMA GraphParses ==
  ASSUME IsGraph, NEW f \in File, NEW c
  PROVE  Parses(f, c)
BY DEF IsGraph, Parses

(* Entering a module is then never refused.                                *)
LEMMA AddingNew ==
  ASSUME IInv, NEW f \in File, NEW cause, NEW incRev,
         AddParsed(f, cause, incRev), State(KeyOf(f)) # "processing"
  PROVE  errors' = errors
<1>1. State(KeyOf(f)) \in {"module", "absent"}
  BY FileFacts DEF IInv
<1> QED BY <1>1 DEF AddParsed, Found

LEMMA GraphAdds ==
  ASSUME IInv, IsGraph, NoSubmodules, TypeOK, AddFile \/ LinkFile
  PROVE  errors' = errors
<1>1. CASE AddFile
  <2>1. Head(todo).file \in File
    <3>1. Head(todo) \in Argument
      BY <1>1, HeadTailProperties DEF AddFile, IInv, TypeOK
    <3> QED BY <3>1 DEF Argument
  <2>2. State(KeyOf(Head(todo).file)) # "processing"
    <3>1. Processing = {}
      BY <1>1 DEF AddFile, Idle, IInv, ProcessingIsStack
    <3> QED BY <3>1 DEF Processing, State
  <2> QED BY <1>1, <2>1, <2>2, AddingNew DEF AddFile
<1>2. CASE LinkFile
  <2>1. /\ Linking /\ State(Target(Link)) = "absent"
        /\ stack # <<>> /\ Top.at <= Len(FileOf(Top.key).links)
    BY <1>2 DEF LinkFile, Linking
  <2>2. PICK f \in FileFor(Link.name, Target(Link)[2]) :
          IF Mismatch(f, Link) # {} THEN Failed(Mismatch(f, Link), f, 0)
          ELSE AddParsed(f, Link.kw, IF Link.kw = "include"
                           THEN Here.modulerevision ELSE NoRevision)
    BY <1>2 DEF LinkFile
  <2>3. f \in File /\ scn.file[f].fname = Link.name
    BY <2>2 DEF FileFor, Named
  <2>4. Mismatch(f, Link) = {}
    BY <2>1, <2>3, GraphLink DEF IsGraph, Mismatch
  <2>5. State(KeyOf(f)) = "absent"
    BY <2>1, <2>2, <2>4, SearchLemma DEF SearchFindsNew
  <2>6. AddParsed(f, Link.kw, IF Link.kw = "include"
                           THEN Here.modulerevision ELSE NoRevision)
    BY <2>2, <2>4
  <2> QED BY <2>3, <2>5, <2>6, AddingNew
<1> QED BY <1>1, <1>2

(* The errors of a step, and that no step gives a module a submodule.      *)
LEMMA GraphErrors ==
  ASSUME IInv, IsGraph, NoSubmodules, [Next]_vars
  PROVE  /\ ~AddFileUnparsable /\ NoSubmodules'
         /\ \A e \in errors' \ errors :
              \/ e.code = "DUPLICATE_NAMESPACE" /\ e.at = 0
              \/ /\ LinkCircular
                 /\ e = [code |-> "CIRCULAR_DEPENDENCY", file |-> Here.file, at |-> Top.at]
              \/ /\ LinkNotFound
                 /\ e = [code |-> "MODULE_NOT_FOUND", file |-> Here.file, at |-> Top.at]
<1>1. ~AddFileUnparsable
  <2>1. AddFileUnparsable => Head(todo) \in Argument
    BY HeadTailProperties DEF AddFileUnparsable, IInv, TypeOK
  <2> QED BY <2>1, GraphParses DEF AddFileUnparsable, Argument
<1>2. ~TakeInclude
  <2>1. TakeInclude => stack # <<>> /\ Top.at <= Len(FileOf(Top.key).links) /\ Link.kw = "include"
    BY DEF TakeInclude, IInv, CallChain, ReturnAnswers
  <2> QED BY <2>1, GraphLink
<1>3. ~LinkUnparsable
  BY FileForType, GraphParses DEF LinkUnparsable
<1>4. NoSubmodules'
  <2> SUFFICES ASSUME NEW k \in DOMAIN modrevs', NEW x \in Range(modrevs'[k].submodules)
               PROVE  FALSE
    BY DEF NoSubmodules
  <2> QED BY <1>2, StepGrows DEF Grows, NoSubmodules
<1>5. CASE AddFile \/ LinkFile
  BY <1>1, <1>4, <1>5, GraphAdds DEF IInv
<1>6. CASE LinkCircular
  BY <1>1, <1>4, <1>6 DEF LinkCircular, Failed, Report
<1>7. CASE LinkNotFound
  <2>1. Link.rev = NoRevision
    BY <1>7, GraphLink DEF LinkNotFound, Linking
  <2> QED BY <1>1, <1>4, <1>7, <2>1 DEF LinkNotFound, Failed, Report
<1>8. CASE TakeImport
  <2>1. /\ stack # <<>> /\ Top.at <= Len(FileOf(Top.key).links) /\ ret \in DOMAIN modrevs
    BY <1>8 DEF TakeImport, IInv, CallChain, ReturnAnswers, Loaded
  <2>2. FileOf(ret).kind = "module"
    <3>1. modrevs[ret].file \in File
      BY <2>1 DEF IInv, TypeOK, Module
    <3> QED BY <3>1 DEF IsGraph, FileOf
  <2>3. Link.rev = NoRevision
    BY <2>1, GraphLink
  <2> QED BY <1>1, <1>4, <1>8, <2>2, <2>3 DEF TakeImport, Report
<1>9. CASE Finish
  <2>1. Range(Here.submodules) = {}
    BY <1>9, TopFacts DEF Finish, NoSubmodules, Here
  <2>2. MissingIncludes(Here) = {}
    BY <2>1 DEF MissingIncludes
  <2> QED BY <1>1, <1>4, <1>9, <2>2 DEF Finish
<1>10. CASE PostAddModules
  BY <1>1, <1>4, <1>10 DEF PostAddModules
<1>11. CASE LinkKnown \/ Terminated \/ UNCHANGED vars
  BY <1>1, <1>4, <1>11 DEF LinkKnown, Found, Terminated, vars
<1> QED BY <1>1, <1>2, <1>3, <1>5, <1>6, <1>7, <1>8, <1>9, <1>10, <1>11 DEF Next

(* A module that is not found has no file.                                 *)
LEMMA GraphNotFound ==
  ASSUME IInv, IsGraph, LinkNotFound
  PROVE  Named(Link.name) = {}
<1>1. /\ Linking /\ State(Target(Link)) = "absent"
      /\ FileFor(Link.name, Target(Link)[2]) = {}
      /\ Link.rev = NoRevision
  BY GraphLink DEF LinkNotFound, Linking
<1>2. Target(Link)[2] = NoRevision
  <2>1. Revs(Link.name) = {}
    <3> SUFFICES ASSUME Revs(Link.name) # {} PROVE FALSE
      OBVIOUS
    <3>1. Latest(Revs(Link.name)) \in Revs(Link.name)
      BY LatestFacts DEF Revs
    <3>2. Target(Link) \in DOMAIN modrevs
      BY <1>1, <3>1 DEF Target, Revs
    <3> QED BY <1>1, <3>2, FileFacts DEF IInv
  <2> QED BY <1>1, <2>1 DEF Target
<1>3. ASSUME NEW f \in Named(Link.name) PROVE FALSE
  <2>1. \A g \in Named(Link.name) : g = f
    BY <1>3 DEF IsGraph, Named
  <2>2. scn.file[f].frev <= scn.file[f].frev
    <3>1. scn.file[f].frev \in AnyRevision
      BY <1>3, FileFacts DEF IInv, FileType, Named
    <3> QED BY <3>1, RevisionAssumption DEF AnyRevision, NoRevision
  <2>3. f \in FileFor(Link.name, Target(Link)[2])
    BY <1>2, <1>3, <2>1, <2>2 DEF FileFor
  <2> QED BY <1>1, <2>3
<1> QED BY <1>3

(* The files on the call stack from the module that is looked up to the    *)
(* innermost one import each other in a circle.                            *)
LEMMA GraphCircle ==
  ASSUME IInv, Origin, IsGraph, AllReached, LinkCircular
  PROVE  HasCircle
<1> DEFINE file(i) == modrevs[stack[i].key].file
<1>1. /\ Linking /\ stack # <<>> /\ Top.at <= Len(FileOf(Top.key).links)
      /\ State(Target(Link)) = "processing" /\ Answers(Target(Link), Link)
  BY TargetAnswers DEF LinkCircular, Linking
<1>2. PICK j \in DOMAIN stack : Target(Link) = stack[j].key
  <2>1. Target(Link) \in Processing
    BY <1>1 DEF Processing, State
  <2> QED BY <2>1 DEF IInv, ProcessingIsStack
<1>3. /\ DOMAIN stack = 1 .. Len(stack) /\ Len(stack) \in Nat /\ Top = stack[1]
      /\ 1 \in DOMAIN stack
  BY <1>1, TopFacts, LenProperties DEF IInv, TypeOK
<1>4. \A i \in DOMAIN stack :
        /\ stack[i].key \in DOMAIN modrevs /\ file(i) \in File
        /\ scn.file[file(i)].fname = stack[i].key[1]
        /\ Reached(file(i))
  <2> TAKE i \in DOMAIN stack
  <2>1. stack[i].key \in DOMAIN modrevs
    BY DEF IInv, ProcessingIsStack, Processing
  <2>2. file(i) \in File
    BY <2>1 DEF IInv, TypeOK, Module
  <2>3. stack[i].key[1] = scn.file[file(i)].name
    BY <2>1 DEF Origin, OfItsFile, KeyOf
  <2> QED BY <2>1, <2>2, <2>3 DEF IsGraph, AllReached
<1>5. file(j) \in Imports(file(1))
  <2>1. Link \in Range(scn.file[file(1)].links)
    BY <1>1, <1>3, GraphLink
  <2>2. Link.name = scn.file[file(j)].fname
    BY <1>1, <1>2, <1>4 DEF Answers
  <2> QED BY <1>2, <1>4, <2>1, <2>2 DEF Imports
<1>6. ASSUME NEW i \in DOMAIN stack, i > 1
      PROVE  i - 1 \in DOMAIN stack /\ file(i - 1) \in Imports(file(i))
  <2>1. i - 1 \in DOMAIN stack
    BY <1>3, <1>6
  <2> DEFINE links == scn.file[file(i)].links
  <2>2. stack[i].at <= Len(links) /\ Answers(stack[i - 1].key, links[stack[i].at])
    BY <1>6 DEF IInv, CallChain, ChainOfStatements, FileOf
  <2>3. stack[i].at \in DOMAIN links
    <3>1. scn.file[file(i)] \in FileType
      BY <1>4, FileFacts DEF IInv
    <3>2. links \in Seq(LinkStmt)
      BY <3>1 DEF FileType
    <3>3. stack[i] \in Frame
      BY DEF IInv, TypeOK
    <3> QED BY <2>2, <3>2, <3>3, LenProperties DEF Frame
  <2>4. links[stack[i].at] \in Range(links)
    BY <2>3 DEF Range
  <2>5. links[stack[i].at].name = scn.file[file(i - 1)].fname
    BY <1>4, <2>1, <2>2 DEF Answers
  <2> QED BY <1>4, <2>1, <2>4, <2>5 DEF Imports
<1> DEFINE S == {file(i) : i \in 1 .. j}
<1>7. \A i \in 1 .. j : i \in DOMAIN stack
  BY <1>2, <1>3
<1>8. S \in (SUBSET {f \in File : Reached(f)}) \ {{}}
  <2>1. file(j) \in S
    BY <1>2, <1>3
  <2> QED BY <1>4, <1>7, <2>1
<1>9. ASSUME NEW f \in S PROVE Imports(f) \cap S # {}
  <2>1. PICK i \in 1 .. j : f = file(i)
    OBVIOUS
  <2>2. CASE i = 1
    BY <1>2, <1>3, <1>5, <2>1, <2>2
  <2>3. CASE i # 1
    <3>0. i \in DOMAIN stack /\ i > 1
      BY <1>7, <2>3
    <3>1. file(i - 1) \in Imports(f)
      BY <1>6, <2>1, <3>0
    <3>2. i - 1 \in 1 .. j
      BY <1>2, <1>3, <2>3
    <3> QED BY <3>1, <3>2
  <2> QED BY <2>2, <2>3
<1> HIDE DEF S
<1> QED BY <1>8, <1>9 DEF HasCircle

LEMMA StepGraph ==
  ASSUME IInv, Origin, GraphInv, [Next]_vars
  PROVE  GraphInv'
<1>1. scn' = scn /\ Kept
  BY StepGrows DEF Kept
<1>2. TodoGiven' /\ AllReached'
  BY StepReached DEF GraphInv
<1> SUFFICES ASSUME IsGraph
             PROVE  /\ ArgumentsAdded' /\ NoSubmodules' /\ CirclesOnly'
                    /\ \A e \in errors' : GraphError(e)'
  BY <1>1, <1>2, GraphStays DEF GraphInv
<1>3. /\ ArgumentsAdded /\ NoSubmodules /\ CirclesOnly /\ AllReached
      /\ \A e \in errors : GraphError(e)
  BY DEF GraphInv
<1>4. ~AddFileUnparsable /\ NoSubmodules'
  BY <1>3, GraphErrors
<1>5. ArgumentsAdded'
  BY <1>3, <1>4, StepArguments
<1>6. \A e \in errors' \ errors :
        \/ e.code = "DUPLICATE_NAMESPACE" /\ e.at = 0
        \/ /\ LinkCircular
           /\ e = [code |-> "CIRCULAR_DEPENDENCY", file |-> Here.file, at |-> Top.at]
        \/ /\ LinkNotFound
           /\ e = [code |-> "MODULE_NOT_FOUND", file |-> Here.file, at |-> Top.at]
  BY <1>3, GraphErrors
<1>7. CirclesOnly'
  <2>1. CASE LinkCircular
    BY <1>1, <1>3, <2>1, GraphCircle, GraphStays DEF CirclesOnly
  <2>2. CASE ~LinkCircular
    <3>1. \A e \in errors' : e.code = "CIRCULAR_DEPENDENCY" => e \in errors
      BY <1>6, <2>2
    <3> QED BY <1>1, <1>3, <3>1, GraphStays DEF CirclesOnly
  <2> QED BY <2>1, <2>2
<1>8. ASSUME NEW e \in errors' PROVE GraphError(e)'
  <2>1. \A n : Named(n)' = Named(n)
    BY <1>1, GraphStays
  <2>2. CASE e \in errors
    <3>1. GraphError(e) /\ scn' = scn /\ DOMAIN modrevs \subseteq DOMAIN modrevs'
      BY <1>1, <1>3, <2>2 DEF Kept
    <3> QED BY <2>1, <3>1 DEF GraphError
  <2>3. CASE e.code = "DUPLICATE_NAMESPACE" /\ e.at = 0
    BY <2>3 DEF GraphError
  <2>4. CASE /\ LinkCircular
             /\ e = [code |-> "CIRCULAR_DEPENDENCY", file |-> Here.file, at |-> Top.at]
    <3>1. /\ e.code = "CIRCULAR_DEPENDENCY" /\ e.file = modrevs[Top.key].file /\ e.at = Top.at
      BY <2>4 DEF Here
    <3>2. /\ Linking /\ stack # <<>> /\ Top.at <= Len(FileOf(Top.key).links)
          /\ State(Target(Link)) = "processing" /\ Answers(Target(Link), Link)
      BY <2>4, TargetAnswers DEF LinkCircular, Linking
    <3>3. /\ e.at \in DOMAIN scn.file[e.file].links
          /\ Link = scn.file[e.file].links[e.at]
      BY <3>1, <3>2, GraphLink
    <3>4. Target(Link) \in DOMAIN modrevs /\ Target(Link)[1] = Link.name
      BY <3>2 DEF State, Answers
    <3>5. \E k \in DOMAIN modrevs' : k[1] = scn'.file[e.file].links[e.at].name
      BY <1>1, <3>3, <3>4 DEF Kept
    <3> QED BY <1>1, <3>1, <3>3, <3>5 DEF GraphError
  <2>5. CASE /\ LinkNotFound
             /\ e = [code |-> "MODULE_NOT_FOUND", file |-> Here.file, at |-> Top.at]
    <3>1. /\ e.code = "MODULE_NOT_FOUND" /\ e.file = modrevs[Top.key].file /\ e.at = Top.at
      BY <2>5 DEF Here
    <3>2. stack # <<>> /\ Top.at <= Len(FileOf(Top.key).links)
      BY <2>5 DEF LinkNotFound, Linking
    <3>3. /\ e.at \in DOMAIN scn.file[e.file].links
          /\ Link = scn.file[e.file].links[e.at]
      BY <3>1, <3>2, GraphLink
    <3>4. Named(Link.name) = {}
      BY <2>5, GraphNotFound
    <3> QED BY <1>1, <2>1, <3>1, <3>3, <3>4 DEF GraphError
  <2> QED BY <1>6, <2>2, <2>3, <2>4, <2>5
<1> QED BY <1>4, <1>5, <1>7, <1>8

-----------------------------------------------------------------------------
(* The end of a run: what the files of the context import is in it too.    *)
GraphEnd == IInv /\ Origin /\ GraphInv /\ NothingLost /\ CleanInv /\ IsGraph /\ phase = "post"

LEMMA KeyNames ==
  ASSUME IInv, Origin, IsGraph, NEW k \in DOMAIN modrevs, NEW g \in File,
         k[1] = scn.file[g].fname
  PROVE  modrevs[k].file = g /\ k = KeyOf(g)
<1>1. modrevs[k].file \in File /\ k = KeyOf(modrevs[k].file)
  BY DEF IInv, TypeOK, Module, Origin, OfItsFile
<1>2. scn.file[modrevs[k].file].fname = scn.file[g].fname
  BY <1>1 DEF IsGraph, KeyOf
<1> QED BY <1>1, <1>2 DEF IsGraph

LEMMA EndStored ==
  ASSUME GraphEnd
  PROVE  stack = <<>> /\ todo = <<>> /\ Loaded = DOMAIN modrevs
<1>1. stack = <<>> /\ todo = <<>>
  BY DEF GraphEnd, CleanInv
<1>2. Processing = {}
  BY <1>1 DEF GraphEnd, IInv, ProcessingIsStack
<1> QED BY <1>1, <1>2, FileFacts DEF GraphEnd, IInv, Loaded, Processing

LEMMA EndImports ==
  ASSUME GraphEnd, NEW f \in File, KeyOf(f) \in DOMAIN modrevs, NEW g \in Imports(f)
  PROVE  /\ KeyOf(g) \in DOMAIN modrevs
         /\ \/ KeyOf(g) \in Deps(KeyOf(f))
            \/ \E e \in errors : e.code = "CIRCULAR_DEPENDENCY"
<1> DEFINE k == KeyOf(f)
<1>0. IInv /\ Origin /\ GraphInv /\ NothingLost /\ IsGraph /\ g \in File
      /\ \A e \in errors : GraphError(e)
  BY DEF GraphEnd, GraphInv, Imports
<1>1. modrevs[k].file = f
  BY <1>0, KeyNames DEF KeyOf, IsGraph
<1> DEFINE links == scn.file[f].links
<1>2. links \in Seq(LinkStmt)
  BY <1>0, FileFacts DEF IInv, FileType
<1>3. PICK i \in DOMAIN links : links[i].name = scn.file[g].fname
  BY <1>2 DEF Imports, Range
<1>4. links[i].kw = "import" /\ links[i].rev = NoRevision
  BY <1>0 DEF IsGraph, Range
<1>5. Resolved(k, i) \/ Reported(k, i)
  <2>1. State(k) = "module" /\ k \in DOMAIN modrevs
    BY EndStored DEF Loaded
  <2>2. i \in DOMAIN FileOf(k).links
    BY <1>1 DEF FileOf
  <2> QED BY <1>0, <2>1, <2>2 DEF NothingLost, Passed
<1>6. CASE Resolved(k, i)
  <2>1. PICK e \in Range(modrevs[k].imports) : Answers(e.key, links[i]) /\ e.key \in LoadedModules
    BY <1>1, <1>4, <1>6 DEF Resolved, FileOf
  <2>2. e.key \in DOMAIN modrevs /\ e.key[1] = scn.file[g].fname
    BY <1>3, <2>1 DEF LoadedModules, Loaded, Answers
  <2>3. e.key = KeyOf(g)
    BY <1>0, <2>2, KeyNames
  <2> QED BY <2>1, <2>2, <2>3 DEF Deps
<1>7. CASE Reported(k, i)
  <2>1. PICK e \in errors :
          \/ e.file = f /\ e.at = i
          \/ /\ e.at = 0
             /\ e.code \in {"PARSE_ERROR", "MODULENAME_MISMATCH", "REVISION_MISMATCH"}
    BY <1>1, <1>7 DEF Reported
  <2>2. GraphError(e) /\ i # 0
    BY <1>0, <1>2, <1>3, LenProperties
  <2>3. e.file = f /\ e.at = i
    BY <2>1, <2>2, <1>2 DEF GraphError
  <2>4. Named(links[i].name) # {}
    BY <1>0, <1>3 DEF Named
  <2>5. e.code = "CIRCULAR_DEPENDENCY" /\ \E x \in DOMAIN modrevs : x[1] = links[i].name
    BY <2>2, <2>3, <2>4 DEF GraphError
  <2>6. KeyOf(g) \in DOMAIN modrevs
    BY <1>0, <1>3, <2>5, KeyNames
  <2> QED BY <2>5, <2>6
<1> QED BY <1>5, <1>6, <1>7

LEMMA CircularityLemma ==
  IInv /\ Origin /\ GraphInv /\ NothingLost /\ CleanInv /\ NoImportCycle => CircularityDecided
<1> SUFFICES ASSUME GraphEnd, NoImportCycle
             PROVE  /\ (\E e \in errors : e.code = "CIRCULAR_DEPENDENCY") <=> HasCircle
                    /\ Loaded = {KeyOf(f) : f \in {g \in File : Reached(g)}}
  BY DEF CircularityDecided, GraphEnd
<1>0. /\ IInv /\ Origin /\ GraphInv /\ IsGraph /\ Loaded = DOMAIN modrevs
      /\ todo = <<>> /\ AllReached /\ ArgumentsAdded /\ CirclesOnly
  BY EndStored DEF GraphEnd, GraphInv
<1>1. ASSUME NEW f \in File, Reached(f) PROVE KeyOf(f) \in DOMAIN modrevs
  <2> DEFINE C == {g \in File : KeyOf(g) \in DOMAIN modrevs}
  <2>1. \A i \in DOMAIN scn.argv : scn.argv[i].file \in C
    <3>1. \A i \in DOMAIN scn.argv : KeyOf(scn.argv[i].file) \in DOMAIN modrevs
      BY <1>0 DEF ArgumentsAdded
    <3>2. \A i \in DOMAIN scn.argv : scn.argv[i] \in Argument
      <4>1. scn.argv \in Seq(Argument)
        BY <1>0 DEF IInv, TypeOK, ScenarioType
      <4> QED BY <4>1
    <3> QED BY <3>1, <3>2 DEF Argument
  <2>2. \A g \in C : Imports(g) \subseteq C
    <3>1. \A g \in C : \A h \in Imports(g) : KeyOf(h) \in DOMAIN modrevs
      BY EndImports
    <3> QED BY <3>1 DEF Imports
  <2>3. C \in SUBSET File
    OBVIOUS
  <2> HIDE DEF C
  <2>4. f \in C
    BY <1>1, <2>1, <2>2, <2>3 DEF Reached
  <2> QED BY <2>4 DEF C
<1>2. Loaded = {KeyOf(f) : f \in {g \in File : Reached(g)}}
  <2>1. \A k \in DOMAIN modrevs :
          /\ modrevs[k].file \in File /\ k = KeyOf(modrevs[k].file)
          /\ Reached(modrevs[k].file)
    BY <1>0 DEF IInv, TypeOK, Module, Origin, OfItsFile, AllReached
  <2> QED BY <1>0, <1>1, <2>1
<1>3. ASSUME HasCircle PROVE \E e \in errors : e.code = "CIRCULAR_DEPENDENCY"
  <2> SUFFICES ASSUME ~\E e \in errors : e.code = "CIRCULAR_DEPENDENCY" PROVE FALSE
    OBVIOUS
  <2>1. PICK S \in (SUBSET {f \in File : Reached(f)}) \ {{}} :
          \A f \in S : Imports(f) \cap S # {}
    BY <1>3 DEF HasCircle
  <2> DEFINE K == {KeyOf(f) : f \in S}
  <2>2. K \in (SUBSET Key) \ {{}}
    BY <1>0, <2>1, FileFacts DEF IInv
  <2>3. PICK k \in K : DependsOn[k] \cap K = {}
    BY <2>2 DEF NoImportCycle, DF!Acyclic
  <2>4. PICK f \in S : k = KeyOf(f)
    OBVIOUS
  <2>5. PICK g \in Imports(f) : g \in S
    BY <2>1
  <2>6. KeyOf(f) \in DOMAIN modrevs
    BY <1>1, <2>1, <2>4
  <2>7. KeyOf(g) \in Deps(k)
    BY <2>1, <2>4, <2>5, <2>6, EndImports
  <2>8. DependsOn[k] = Deps(k)
    BY <1>0, <2>2, <2>4, <2>6 DEF DependsOn
  <2> QED BY <2>3, <2>5, <2>7, <2>8
<1> QED BY <1>0, <1>2, <1>3 DEF CirclesOnly

(* In every graph of modules, of any size, a circular dependency is        *)
(* reported exactly when there is a circle of imports, whatever the order  *)
(* of the search, and just the modules that can be reached are read.       *)
THEOREM CirclesAreDecided == Spec => []CircularityDecided
<1>1. Init => Origin /\ NothingLost /\ CleanInv
  BY DEF Init, Origin, NothingLost, CleanInv, ArgumentsAdded, SubmodulesBelong,
     IncludesComplete, Loaded, State
<1>2. Init => GraphInv
  BY DEF Init, GraphInv, TodoGiven, AllReached, ArgumentsAdded, NoSubmodules, CirclesOnly
<1>3. IInv /\ Origin /\ GraphInv /\ [Next]_vars => GraphInv'
  BY StepGraph
<1> QED BY <1>1, <1>2, <1>3, InitIInv, StepIInv, StepOrigin, StepLosesNothing,
           StepCleanInv, ContextAcyclic, CircularityLemma, PTL DEF Spec
=============================================================================
