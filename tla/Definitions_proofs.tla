------------------------- MODULE Definitions_proofs -------------------------
(***************************************************************************)
(* Proofs about Definitions, for any definitions and any references.       *)
(***************************************************************************)
EXTENDS Definitions, FiniteSetTheorems, TLAPS

(* Each definition on the stack waits at its reference to the next one.    *)
Path ==
  \A i \in DOMAIN stack :
    /\ stack[i].def \in Followed
    /\ stack[i].at <= Len(scn.refs[stack[i].def]) + 1
    /\ i > 1 => /\ stack[i].at <= Len(scn.refs[stack[i].def])
                /\ scn.refs[stack[i].def][stack[i].at] = stack[i - 1].def

(* No definition is forgotten.                                             *)
Pending ==
  /\ Range(todo) \subseteq Own
  /\ \A d \in Definition :
       /\ status[d] = "raw" => d \notin scn.given
       /\ d \in Validated /\ status[d] = "raw" => d \in Range(todo)

Circular == \E i \in DOMAIN errors : errors[i].code = "CIRCULAR_DEPENDENCY"

(* The definitions all of whose references have been validated.            *)
Done == {d \in Validated : status[d] = "done"}
Settled ==
  Done \cup {d \in Validated : status[d] = "processing"
                               /\ RefersTo(d) \cap Validated \subseteq Done}

(* As long as no circle is reported there is none among the settled ones.  *)
Sound ==
  ~Circular =>
    /\ \A d \in Settled : RefersTo(d) \cap Validated \subseteq Settled
    /\ \A S \in (SUBSET Settled) \ {{}} : \E d \in S : RefersTo(d) \cap S = {}
    /\ \A i \in DOMAIN stack : \A j \in 1..(stack[i].at - 1) :
         scn.refs[stack[i].def][j] \in Validated =>
           scn.refs[stack[i].def][j] \in Done

(* What is known of a circle that is reported, and of what crashes.        *)
Explained ==
  /\ Circular => CircleIn(Followed)
  /\ lost => /\ Kind = "identity" /\ ~scn.v11
             /\ \E d \in Own : Len(scn.refs[d]) >= 2

Ended == phase = "done" => stack = <<>> /\ todo = <<>>

IInv ==
  /\ Types /\ IsInjective(scn.own)
  /\ MarkIsStack /\ Path /\ Pending
  /\ Sound /\ Explained /\ CrashExplained /\ Ended

-----------------------------------------------------------------------------
(* Sequences and the parts of a scenario.                                  *)
LEMMA ScenarioFacts ==
  ASSUME Types
  PROVE  /\ scn.own \in Seq(Definition) /\ scn.given \subseteq Definition
         /\ scn.refs \in [Definition -> Seq(Definition)]
         /\ Own \subseteq Definition /\ Known \subseteq Definition
         /\ Followed \subseteq Own /\ Validated \subseteq Definition
         /\ Validated \cap scn.given = {}
         /\ \A d \in Definition : RefersTo(d) \subseteq Known
         /\ \A d \in Definition : RefersTo(d) =
              {scn.refs[d][j] : j \in 1..Len(scn.refs[d])} \cap Known
<1>1. /\ scn.own \in Seq(Definition) /\ scn.given \subseteq Definition
      /\ scn.refs \in [Definition -> Seq(Definition)]
  BY DEF Types, ScenarioType
<1>2. Own \subseteq Definition
  BY <1>1 DEF Own, Range
<1>3. \A d \in Definition : DOMAIN scn.refs[d] = 1..Len(scn.refs[d])
  BY <1>1
<1> QED BY <1>1, <1>2, <1>3 DEF Known, Followed, Validated, RefersTo, Range

LEMMA TopFacts ==
  ASSUME Types, stack # <<>>
  PROVE  /\ Top = stack[1] /\ 1 \in DOMAIN stack /\ Top \in Frame
         /\ Top.def \in Definition /\ Top.at \in Nat \ {0}
         /\ Top.bases \subseteq Definition
         /\ DOMAIN stack = 1..Len(stack) /\ Len(stack) \in Nat \ {0}
         /\ Tail(stack) \in Seq(Frame) /\ Len(Tail(stack)) = Len(stack) - 1
         /\ \A i \in 1..(Len(stack) - 1) : Tail(stack)[i] = stack[i + 1]
<1>1. stack \in Seq(Frame)
  BY DEF Types
<1>2. Top = stack[1] /\ 1 \in DOMAIN stack
  BY <1>1 DEF Top
<1>3. Top \in Frame
  BY <1>1, <1>2
<1> QED BY <1>1, <1>2, <1>3 DEF Frame

(* The reference the innermost definition has reached.                     *)
LEMMA RefFacts ==
  ASSUME Types, Following
  PROVE  /\ Ref \in Definition /\ stack # <<>>
         /\ Top.at \in 1..Len(scn.refs[Top.def])
         /\ Ref \in Known => Ref \in RefersTo(Top.def)
<1>1. stack # <<>> /\ Top.at <= Len(scn.refs[Top.def])
  BY DEF Following
<1>2. Top.def \in Definition /\ Top.at \in Nat \ {0}
  BY <1>1, TopFacts
<1>3. scn.refs[Top.def] \in Seq(Definition)
  BY <1>2, ScenarioFacts
<1>4. Top.at \in 1..Len(scn.refs[Top.def])
  BY <1>1, <1>2, <1>3
<1>5. Ref \in Definition
  BY <1>3, <1>4 DEF Ref
<1> QED BY <1>1, <1>2, <1>4, <1>5, ScenarioFacts DEF Ref

LEMMA AdvancedFacts ==
  ASSUME Types, stack # <<>>, NEW bs \in SUBSET Definition
  PROVE  /\ Advanced(bs) \in Seq(Frame) /\ Advanced(bs) # <<>>
         /\ DOMAIN Advanced(bs) = DOMAIN stack
         /\ \A i \in DOMAIN stack :
              /\ Advanced(bs)[i].def = stack[i].def
              /\ i # 1 => Advanced(bs)[i] = stack[i]
         /\ Advanced(bs)[1].at = Top.at + 1 /\ Advanced(bs)[1].bases = bs
<1> DEFINE fr == [def |-> Top.def, at |-> Top.at + 1, bases |-> bs]
<1>1. /\ Top = stack[1] /\ 1 \in DOMAIN stack /\ stack \in Seq(Frame)
      /\ Top.def \in Definition /\ Top.at \in Nat \ {0}
  BY TopFacts DEF Types
<1>2. fr \in Frame
  BY <1>1 DEF Frame
<1>3. fr.def = Top.def /\ fr.at = Top.at + 1 /\ fr.bases = bs
  OBVIOUS
<1> HIDE DEF fr
<1>4. Advanced(bs) = [stack EXCEPT ![1] = fr]
  BY DEF Advanced, fr
<1> QED BY <1>1, <1>2, <1>3, <1>4

LEMMA PushFacts ==
  ASSUME Types, NEW fr \in Frame
  PROVE  /\ <<fr>> \o stack \in Seq(Frame) /\ <<fr>> \o stack # <<>>
         /\ DOMAIN (<<fr>> \o stack) = 1..(Len(stack) + 1)
         /\ (<<fr>> \o stack)[1] = fr
         /\ \A i \in 2..(Len(stack) + 1) : (<<fr>> \o stack)[i] = stack[i - 1]
<1>1. stack \in Seq(Frame)
  BY DEF Types
<1> QED BY <1>1

LEMMA ReportFacts ==
  ASSUME Types, NEW c \in {"DUPLICATE_DEFINITION", "DEFINITION_NOT_FOUND",
                            "CIRCULAR_DEPENDENCY", "MULTIPLE_BASES"},
         NEW d \in Definition, NEW n \in Nat, Report(c, d, n)
  PROVE  /\ errors' \in Seq(Error)
         /\ Circular' <=> (Circular \/ c = "CIRCULAR_DEPENDENCY")
<1> DEFINE e == [code |-> c, def |-> d, at |-> n]
<1>1. errors \in Seq(Error) /\ e \in Error /\ e.code = c
  BY DEF Types, Error
<1> HIDE DEF e
<1>2. errors' = Append(errors, e)
  BY DEF Report, e
<1>3. /\ errors' \in Seq(Error) /\ DOMAIN errors' = 1..(Len(errors) + 1)
      /\ DOMAIN errors = 1..Len(errors) /\ Len(errors) \in Nat
      /\ \A i \in 1..Len(errors) : errors'[i] = errors[i]
      /\ errors'[Len(errors) + 1] = e
  BY <1>1, <1>2
<1> QED BY <1>1, <1>3 DEF Circular

-----------------------------------------------------------------------------
(* What depends on the scenario only does not change.                      *)
LEMMA SameScenario ==
  ASSUME scn' = scn
  PROVE  /\ Own' = Own /\ Known' = Known /\ Kind' = Kind
         /\ Followed' = Followed /\ Validated' = Validated
         /\ \A d : RefersTo(d)' = RefersTo(d)
         /\ CircleIn(Followed)' = CircleIn(Followed)
         /\ CircleIn(Validated)' = CircleIn(Validated)
<1>1. Own' = Own /\ Known' = Known /\ Kind' = Kind
  BY DEF Own, Known, Kind
<1>2. \A d : Rejected(d)' = Rejected(d)
  BY <1>1 DEF Rejected
<1>3. Followed' = Followed
  BY <1>1, <1>2 DEF Followed
<1>4. Validated' = Validated
  BY <1>3 DEF Validated
<1>5. \A d : RefersTo(d)' = RefersTo(d)
  BY <1>1 DEF RefersTo
<1> QED BY <1>1, <1>3, <1>4, <1>5 DEF CircleIn

(* A set without a circle, whose members refer to nothing outside it, can  *)
(* be extended by what refers only to it.                                  *)
LEMMA ExtendSettled ==
  ASSUME Types, NEW A \in SUBSET Validated, NEW B \in SUBSET Validated,
         A \subseteq B,
         \A d \in A : RefersTo(d) \cap Validated \subseteq A,
         \A S \in (SUBSET A) \ {{}} : \E d \in S : RefersTo(d) \cap S = {},
         \A d \in B \ A : RefersTo(d) \cap Validated \subseteq A
  PROVE  /\ \A d \in B : RefersTo(d) \cap Validated \subseteq B
         /\ \A S \in (SUBSET B) \ {{}} : \E d \in S : RefersTo(d) \cap S = {}
<1>1. \A d \in B : RefersTo(d) \cap Validated \subseteq A
  OBVIOUS
<1>2. ASSUME NEW S \in (SUBSET B) \ {{}}
      PROVE  \E d \in S : RefersTo(d) \cap S = {}
  <2>1. CASE S \cap A = {}
    BY <1>1, <2>1
  <2>2. CASE S \cap A # {}
    <3>1. S \cap A \in (SUBSET A) \ {{}}
      BY <2>2
    <3>2. PICK d \in S \cap A : RefersTo(d) \cap (S \cap A) = {}
      BY <3>1
    <3> QED BY <1>1, <3>2
  <2> QED BY <2>1, <2>2
<1> QED BY <1>1, <1>2

(* The part of Sound that is about the settled definitions.                *)
NoCircle ==
  /\ \A d \in Settled : RefersTo(d) \cap Validated \subseteq Settled
  /\ \A S \in (SUBSET Settled) \ {{}} : \E d \in S : RefersTo(d) \cap S = {}

LEMMA SettledGrows ==
  ASSUME Types, scn' = scn, NoCircle, Settled \subseteq Settled',
         \A d \in Settled' \ Settled : RefersTo(d) \cap Validated \subseteq Settled
  PROVE  NoCircle'
<1> DEFINE B == Settled'
<1>1. Validated' = Validated /\ \A d : RefersTo(d)' = RefersTo(d)
  BY SameScenario
<1>2. Settled \in SUBSET Validated /\ B \in SUBSET Validated
  BY <1>1 DEF Settled, Done
<1>3. /\ \A d \in B : RefersTo(d) \cap Validated \subseteq B
      /\ \A S \in (SUBSET B) \ {{}} : \E d \in S : RefersTo(d) \cap S = {}
  <2>1. Settled \subseteq B
    OBVIOUS
  <2>2. \A d \in B \ Settled : RefersTo(d) \cap Validated \subseteq Settled
    OBVIOUS
  <2> HIDE DEF B
  <2> QED BY <1>2, <2>1, <2>2, ExtendSettled DEF NoCircle
<1> QED BY <1>1, <1>3 DEF NoCircle

-----------------------------------------------------------------------------
(* The innermost definition passes a reference.                            *)
LEMMA AdvanceStep ==
  ASSUME IInv, Following, scn' = scn, status' = status, phase' = phase,
         todo' = todo, lost' = lost, above' = above,
         NEW bs \in SUBSET Definition, stack' = Advanced(bs),
         errors' \in Seq(Error), Circular => Circular',
         Circular' => CircleIn(Followed),
         Circular' \/ (Ref \in Validated => Ref \in Done)
  PROVE  IInv'
<1>0. Types /\ stack # <<>> /\ phase = "running"
  BY DEF IInv, Following
<1>1. /\ stack' \in Seq(Frame) /\ stack' # <<>> /\ DOMAIN stack' = DOMAIN stack
      /\ \A i \in DOMAIN stack :
           /\ stack'[i].def = stack[i].def
           /\ i # 1 => stack'[i] = stack[i]
      /\ stack'[1].at = Top.at + 1
  BY <1>0, AdvancedFacts
<1>2. /\ Own' = Own /\ Known' = Known /\ Kind' = Kind
      /\ Followed' = Followed /\ Validated' = Validated
      /\ \A d : RefersTo(d)' = RefersTo(d)
      /\ CircleIn(Followed)' = CircleIn(Followed)
      /\ CircleIn(Validated)' = CircleIn(Validated)
  BY SameScenario
<1>3. Types'
  BY <1>1 DEF IInv, Types
<1>4. MarkIsStack'
  BY <1>1 DEF IInv, MarkIsStack
<1>5. Path'
  <2>1. DOMAIN stack = 1..Len(stack) /\ Len(stack) \in Nat
    BY <1>0, TopFacts
  <2>2. ASSUME NEW i \in DOMAIN stack, i > 1
        PROVE  stack'[i] = stack[i] /\ stack'[i - 1].def = stack[i - 1].def
    <3>1. i - 1 \in DOMAIN stack /\ i # 1
      BY <2>1, <2>2
    <3> QED BY <1>1, <3>1
  <2>3. stack'[1].at <= Len(scn.refs[stack[1].def]) + 1
    <3>1. Top = stack[1] /\ Top.at <= Len(scn.refs[Top.def]) /\ Top.at \in Nat
      BY <1>0, TopFacts DEF Following
    <3>2. scn.refs[Top.def] \in Seq(Definition)
      BY <1>0, TopFacts, ScenarioFacts
    <3> QED BY <1>1, <3>1, <3>2
  <2>4. ASSUME NEW i \in DOMAIN stack
        PROVE  stack'[i].at <= Len(scn.refs[stack[i].def]) + 1
    <3>1. CASE i = 1
      BY <2>3, <3>1
    <3>2. CASE i # 1
      BY <1>1, <3>2 DEF IInv, Path
    <3> QED BY <3>1, <3>2
  <2> QED BY <1>1, <1>2, <2>2, <2>4 DEF IInv, Path
<1>6. Pending'
  BY <1>2 DEF IInv, Pending
<1>7. Sound'
  <2> SUFFICES ASSUME ~Circular' PROVE Sound'
    BY DEF Sound
  <2>1. Sound /\ ~Circular
    BY DEF IInv
  <2>2. Done' = Done
    BY <1>2 DEF Done
  <2>3. Settled' = Settled
    BY <1>2, <2>2 DEF Settled
  <2>4. ASSUME NEW i \in DOMAIN stack, NEW j \in 1..(stack'[i].at - 1),
               scn.refs[stack[i].def][j] \in Validated
        PROVE  scn.refs[stack[i].def][j] \in Done
    <3>1. CASE i # 1
      BY <1>1, <2>1, <2>4, <3>1 DEF Sound
    <3>2. CASE i = 1
      <4>1. Top = stack[1] /\ Top.at \in Nat
        BY <1>0, TopFacts
      <4>2. j \in 1..(stack[1].at - 1) \/ j = Top.at
        BY <1>1, <3>2, <4>1
      <4> QED BY <2>1, <2>4, <3>2, <4>1, <4>2 DEF Sound, Ref
    <3> QED BY <3>1, <3>2
  <2> QED BY <1>1, <1>2, <2>1, <2>2, <2>3, <2>4 DEF Sound
<1>8. Explained' /\ CrashExplained' /\ Ended'
  BY <1>0, <1>2 DEF IInv, Explained, CrashExplained, Ended
<1> QED BY <1>3, <1>4, <1>5, <1>6, <1>7, <1>8 DEF IInv

(* A reference to a definition on the stack closes a circle of followed    *)
(* definitions.                                                            *)
LEMMA CircleOnStack ==
  ASSUME IInv, Following, Ref \in Known, status[Ref] = "processing"
  PROVE  CircleIn(Followed)
<1>1. Types /\ stack # <<>> /\ Ref \in Definition
  BY RefFacts DEF IInv
<1>2. PICK n \in DOMAIN stack : stack[n].def = Ref
  BY <1>1 DEF IInv, MarkIsStack
<1>3. DOMAIN stack = 1..Len(stack) /\ Len(stack) \in Nat /\ Top = stack[1]
  BY <1>1, TopFacts
<1> DEFINE S == {stack[i].def : i \in 1..n}
<1>4. S \in (SUBSET Followed) \ {{}}
  <2>1. \A i \in 1..n : stack[i].def \in Followed
    BY <1>2, <1>3 DEF IInv, Path
  <2>2. 1 \in 1..n
    BY <1>2, <1>3
  <2>3. stack[1].def \in S
    BY <2>2
  <2> QED BY <2>1, <2>3
<1>5. ASSUME NEW i \in 1..n PROVE RefersTo(stack[i].def) \cap S # {}
  <2>1. CASE i = 1
    BY <1>1, <1>2, <1>3, <2>1, RefFacts
  <2>2. CASE i > 1
    <3>1. /\ stack[i].at <= Len(scn.refs[stack[i].def])
          /\ scn.refs[stack[i].def][stack[i].at] = stack[i - 1].def
          /\ stack[i - 1].def \in Followed /\ stack[i].def \in Followed
      BY <1>3, <2>2 DEF IInv, Path
    <3>2. stack[i] \in Frame
      BY <1>1, <1>3 DEF Types
    <3>3. stack[i].at \in 1..Len(scn.refs[stack[i].def])
      BY <3>1, <3>2, <1>1, ScenarioFacts DEF Frame
    <3>4. Followed \subseteq Known /\ stack[i].def \in Definition
      BY <1>1, <3>2, ScenarioFacts DEF Known, Frame
    <3>5. stack[i - 1].def \in RefersTo(stack[i].def)
      BY <1>1, <3>1, <3>3, <3>4, ScenarioFacts
    <3>6. i - 1 \in 1..n
      BY <1>3, <2>2
    <3> QED BY <3>5, <3>6
  <2> QED BY <2>1, <2>2
<1> HIDE DEF S
<1>6. \A d \in S : RefersTo(d) \cap S # {}
  BY <1>5 DEF S
<1> QED BY <1>4, <1>6 DEF CircleIn

-----------------------------------------------------------------------------
(* The three ways to pass a reference.                                     *)
LEMMA FollowMissingStep == IInv /\ FollowMissing => IInv'
<1> SUFFICES ASSUME IInv, FollowMissing PROVE IInv'
  OBVIOUS
<1>1. Types /\ Following /\ stack # <<>> /\ Ref \notin Known
  BY RefFacts DEF IInv, FollowMissing
<1>2. Top.def \in Definition /\ Top.at \in Nat /\ Top.bases \in SUBSET Definition
  BY <1>1, TopFacts
<1>3. errors' \in Seq(Error) /\ (Circular' <=> Circular)
  BY <1>1, <1>2, ReportFacts DEF FollowMissing
<1>4. Ref \notin Validated
  BY <1>1, ScenarioFacts DEF Validated, Known
<1> QED BY <1>1, <1>2, <1>3, <1>4, AdvanceStep DEF FollowMissing, IInv, Explained

LEMMA FollowDoneStep == IInv /\ FollowDone => IInv'
<1> SUFFICES ASSUME IInv, FollowDone PROVE IInv'
  OBVIOUS
<1>1. Types /\ Following /\ stack # <<>> /\ Ref \in Definition
  BY RefFacts DEF IInv, FollowDone
<1>2. WithRef \in SUBSET Definition
  BY <1>1, TopFacts DEF WithRef, Types
<1>3. errors' \in Seq(Error) /\ (Circular' <=> Circular)
  BY <1>1 DEF FollowDone, Types, Circular
<1>4. Ref \in Validated => Ref \in Done
  BY DEF FollowDone, Done
<1> QED BY <1>1, <1>2, <1>3, <1>4, AdvanceStep DEF FollowDone, IInv, Explained

LEMMA FollowCircularStep == IInv /\ FollowCircular => IInv'
<1> SUFFICES ASSUME IInv, FollowCircular PROVE IInv'
  OBVIOUS
<1>1. /\ Types /\ Following /\ stack # <<>> /\ Ref \in Definition
      /\ Ref \in Known /\ status[Ref] = "processing"
  BY RefFacts DEF IInv, FollowCircular
<1>2. WithRef \in SUBSET Definition
  BY <1>1, TopFacts DEF WithRef, Types
<1>3. errors' \in Seq(Error) /\ Circular'
  BY <1>1, ReportFacts DEF FollowCircular
<1>4. CircleIn(Followed)
  BY <1>1, CircleOnStack
<1>5. CASE Kind # "typedef"
  BY <1>1, <1>2, <1>3, <1>4, <1>5, AdvanceStep DEF FollowCircular
<1>6. CASE Kind = "typedef"
  <2>1. Followed = Validated
    BY <1>6 DEF Followed, Validated
  <2>2. /\ phase' = "crashed" /\ stack' = stack /\ status' = status
        /\ todo' = todo /\ above' = above /\ lost' = lost /\ scn' = scn
    BY <1>6 DEF FollowCircular
  <2>3. /\ Own' = Own /\ Known' = Known /\ Kind' = Kind
        /\ Followed' = Followed /\ Validated' = Validated
        /\ CircleIn(Followed)' = CircleIn(Followed)
        /\ CircleIn(Validated)' = CircleIn(Validated)
    BY <2>2, SameScenario
  <2>4. Types' /\ MarkIsStack' /\ Path' /\ Pending'
    BY <1>3, <2>2, <2>3 DEF IInv, Types, MarkIsStack, Path, Pending
  <2>5. Sound' /\ Ended'
    BY <1>3, <2>2 DEF Sound, Ended
  <2>6. Explained'
    BY <1>4, <2>2, <2>3 DEF IInv, Explained
  <2>7. CrashExplained'
    BY <1>4, <1>6, <2>1, <2>3 DEF CrashExplained
  <2> QED BY <2>2, <2>4, <2>5, <2>6, <2>7 DEF IInv
<1> QED BY <1>5, <1>6

-----------------------------------------------------------------------------
(* A definition is opened: from the loop, or for a reference.              *)
LEMMA OpenedStep ==
  ASSUME IInv, NEW d \in Definition, d \in Followed, scn' = scn,
         status' = [status EXCEPT ![d] = "processing"],
         stack' = <<[def |-> d, at |-> 1, bases |-> {}]>> \o stack,
         todo' \in Seq(Definition), Range(todo) \subseteq Range(todo') \cup {d},
         Range(todo') \subseteq Range(todo),
         above' = above, lost' = lost, errors' = errors, phase' = phase,
         phase = "running",
         \/ stack = <<>> /\ status[d] \in {"raw", "done"}
         \/ Following /\ Ref = d /\ status[d] = "raw"
  PROVE  IInv'
<1> DEFINE fr == [def |-> d, at |-> 1, bases |-> {}]
<1>0. fr \in Frame /\ fr.def = d /\ fr.at = 1
  BY DEF Frame
<1> HIDE DEF fr
<1>1. Types /\ MarkIsStack /\ Path /\ Pending /\ Sound /\ stack' = <<fr>> \o stack
  BY DEF IInv, fr
<1>2. /\ stack' \in Seq(Frame) /\ stack' # <<>>
      /\ DOMAIN stack' = 1..(Len(stack) + 1)
      /\ stack'[1] = fr
      /\ \A i \in 2..(Len(stack) + 1) : stack'[i] = stack[i - 1]
  BY <1>0, <1>1, PushFacts
<1>3. DOMAIN stack = 1..Len(stack) /\ Len(stack) \in Nat
      /\ (stack = <<>> <=> Len(stack) = 0)
  BY <1>1 DEF Types
<1>4. /\ Own' = Own /\ Known' = Known /\ Kind' = Kind
      /\ Followed' = Followed /\ Validated' = Validated
      /\ \A x : RefersTo(x)' = RefersTo(x)
      /\ CircleIn(Followed)' = CircleIn(Followed)
      /\ CircleIn(Validated)' = CircleIn(Validated)
  BY SameScenario
<1>5. /\ status \in [Definition -> {"raw", "processing", "done"}]
      /\ status'[d] = "processing"
      /\ \A x \in Definition : x # d => status'[x] = status[x]
  BY <1>1 DEF Types
<1>6. Types'
  BY <1>1, <1>2 DEF Types
<1>7. \A i \in DOMAIN stack : stack[i].def # d
  <2>1. status[d] # "processing"
    OBVIOUS
  <2> QED BY <2>1, <1>1 DEF MarkIsStack
<1>8. MarkIsStack'
  <2>1. ASSUME NEW x \in Definition
        PROVE  status'[x] = "processing" <=> \E i \in DOMAIN stack' : stack'[i].def = x
    <3>1. CASE x = d
      BY <1>0, <1>2, <1>3, <1>5, <3>1
    <3>2. CASE x # d
      <4>1. ASSUME NEW i \in DOMAIN stack' PROVE stack'[i].def = x => i - 1 \in DOMAIN stack /\ stack[i - 1].def = x
        BY <1>0, <1>2, <1>3, <3>2
      <4>2. ASSUME NEW i \in DOMAIN stack PROVE i + 1 \in DOMAIN stack' /\ stack'[i + 1] = stack[i]
        BY <1>2, <1>3
      <4>3. status[x] = "processing" <=> \E i \in DOMAIN stack : stack[i].def = x
        BY <1>1 DEF MarkIsStack
      <4>4. (\E i \in DOMAIN stack : stack[i].def = x) <=> \E i \in DOMAIN stack' : stack'[i].def = x
        BY <4>1, <4>2
      <4> QED BY <1>5, <3>2, <4>3, <4>4
    <3> QED BY <3>1, <3>2
  <2>2. ASSUME NEW i \in DOMAIN stack', NEW j \in DOMAIN stack',
               stack'[i].def = stack'[j].def
        PROVE  i = j
    <3>1. CASE i = 1 /\ j = 1
      BY <3>1
    <3>2. CASE i = 1 /\ j # 1
      BY <1>0, <1>2, <1>3, <1>7, <2>2, <3>2
    <3>3. CASE i # 1 /\ j = 1
      BY <1>0, <1>2, <1>3, <1>7, <2>2, <3>3
    <3>4. CASE i # 1 /\ j # 1
      <4>1. i - 1 \in DOMAIN stack /\ j - 1 \in DOMAIN stack
            /\ stack[i - 1].def = stack[j - 1].def
        BY <1>2, <1>3, <2>2, <3>4
      <4>2. i - 1 = j - 1
        BY <1>1, <4>1 DEF MarkIsStack
      <4> QED BY <1>2, <1>3, <4>2
    <3> QED BY <3>1, <3>2, <3>3, <3>4
  <2> QED BY <2>1, <2>2 DEF MarkIsStack
<1>9. Path'
  <2> SUFFICES ASSUME NEW i \in DOMAIN stack'
               PROVE  /\ stack'[i].def \in Followed
                      /\ stack'[i].at <= Len(scn.refs[stack'[i].def]) + 1
                      /\ i > 1 => /\ stack'[i].at <= Len(scn.refs[stack'[i].def])
                                  /\ scn.refs[stack'[i].def][stack'[i].at] = stack'[i - 1].def
    BY <1>4 DEF Path
  <2>1. CASE i = 1
    <3>1. scn.refs[d] \in Seq(Definition)
      BY <1>1, ScenarioFacts
    <3> QED BY <1>0, <1>2, <2>1, <3>1
  <2>2. CASE i = 2
    <3>1. stack # <<>> /\ stack'[2] = stack[1] /\ stack'[1].def = d /\ 1 \in DOMAIN stack
      BY <1>0, <1>2, <1>3, <2>2
    <3>2. Following /\ Ref = d
      BY <3>1
    <3>3. Top = stack[1]
      BY <1>1, <3>1, TopFacts
    <3>4. stack[1].at <= Len(scn.refs[stack[1].def]) /\ scn.refs[stack[1].def][stack[1].at] = d
      BY <3>2, <3>3 DEF Following, Ref
    <3> QED BY <1>1, <2>2, <3>1, <3>4 DEF Path
  <2>3. CASE i > 2
    <3>1. /\ i - 1 \in DOMAIN stack /\ i - 1 > 1
          /\ stack'[i] = stack[i - 1] /\ stack'[i - 1] = stack[(i - 1) - 1]
      BY <1>2, <1>3, <2>3
    <3> QED BY <1>1, <3>1 DEF Path
  <2> QED BY <1>2, <1>3, <2>1, <2>2, <2>3
<1>10. Pending'
  <2>1. Range(todo') \subseteq Own
    BY <1>1 DEF Pending
  <2>2. ASSUME NEW x \in Definition, status'[x] = "raw"
        PROVE  x \notin scn.given /\ (x \in Validated => x \in Range(todo'))
    BY <1>1, <1>5, <2>2 DEF Pending
  <2> QED BY <1>4, <2>1, <2>2 DEF Pending
<1>11. Sound'
  <2> SUFFICES ASSUME ~Circular' PROVE Sound'
    BY DEF Sound
  <2>1. ~Circular /\ NoCircle
    BY <1>1 DEF Circular, Sound, NoCircle
  <2>2. Done' = Done \ {d}
    BY <1>4, <1>5, ScenarioFacts, <1>1 DEF Done
  <2>3. \A x \in Settled' : x \in Settled \/ x = d
    <3> SUFFICES ASSUME NEW x \in Settled', x # d PROVE x \in Settled
      OBVIOUS
    <3>1. x \in Validated /\ x \in Definition /\ status'[x] = status[x]
      BY <1>4, <1>5, <1>1, ScenarioFacts DEF Settled, Done
    <3> QED BY <1>4, <2>2, <3>1 DEF Settled, Done
  <2>4. CASE status[d] = "raw"
    <3>1. d \notin Done /\ Done' = Done
      BY <2>2, <2>4 DEF Done
    <3>2. Settled \subseteq Settled'
      <4> SUFFICES ASSUME NEW x \in Settled PROVE x \in Settled'
        OBVIOUS
      <4>1. x # d /\ x \in Validated /\ x \in Definition
        BY <1>1, <2>4, ScenarioFacts DEF Settled, Done
      <4> QED BY <1>4, <1>5, <3>1, <4>1 DEF Settled
    <3>3. \A x \in Settled' \ Settled : RefersTo(x) \cap Validated \subseteq Settled
      <4> SUFFICES ASSUME d \in Settled', d \notin Settled
                   PROVE  RefersTo(d) \cap Validated \subseteq Settled
        BY <2>3
      <4>1. RefersTo(d) \cap Validated \subseteq Done
        BY <1>4, <3>1 DEF Settled
      <4> QED BY <4>1 DEF Settled
    <3>4. NoCircle'
      BY <1>1, <2>1, <3>2, <3>3, SettledGrows
    <3>5. \A i \in DOMAIN stack' : \A j \in 1..(stack'[i].at - 1) :
            scn.refs[stack'[i].def][j] \in Validated =>
              scn.refs[stack'[i].def][j] \in Done
      <4> SUFFICES ASSUME NEW i \in DOMAIN stack', NEW j \in 1..(stack'[i].at - 1),
                          scn.refs[stack'[i].def][j] \in Validated
                   PROVE  scn.refs[stack'[i].def][j] \in Done
        OBVIOUS
      <4>1. i # 1
        BY <1>0, <1>2
      <4>2. i - 1 \in DOMAIN stack /\ stack'[i] = stack[i - 1]
        BY <1>2, <1>3, <4>1
      <4> QED BY <1>1, <2>1, <4>2 DEF Sound
    <3> QED BY <1>4, <3>1, <3>4, <3>5 DEF Sound, NoCircle
  <2>5. CASE status[d] # "raw"
    <3>1. stack = <<>> /\ status[d] = "done"
      BY <2>5
    <3>2. \A x \in Definition : status[x] # "processing"
      BY <1>1, <1>3, <3>1 DEF MarkIsStack
    <3>3. Settled = Done
      BY <1>1, <3>2, ScenarioFacts DEF Settled
    <3>4. d \in Validated => d \in Done /\ d \notin RefersTo(d)
                             /\ RefersTo(d) \cap Validated \subseteq Done
      <4> SUFFICES ASSUME d \in Validated
                   PROVE  d \in Done /\ d \notin RefersTo(d)
                          /\ RefersTo(d) \cap Validated \subseteq Done
        OBVIOUS
      <4>1. d \in Done
        BY <3>1 DEF Done
      <4>2. {d} \in (SUBSET Settled) \ {{}}
        BY <3>3, <4>1
      <4>3. RefersTo(d) \cap {d} = {}
        BY <2>1, <4>2 DEF NoCircle
      <4> QED BY <2>1, <3>3, <4>1, <4>3 DEF NoCircle
    <3>5. Settled \subseteq Settled'
      <4> SUFFICES ASSUME NEW x \in Done PROVE x \in Settled'
        BY <3>3
      <4>1. CASE x = d
        BY <1>4, <1>5, <2>2, <3>4, <4>1 DEF Settled, Done
      <4>2. CASE x # d
        BY <2>2, <4>2 DEF Settled
      <4> QED BY <4>1, <4>2
    <3>6. d \in Settled' => d \in Settled
      BY <1>4, <1>5, <3>3, <3>4 DEF Settled, Done
    <3>7. NoCircle'
      BY <1>1, <2>1, <2>3, <3>5, <3>6, SettledGrows
    <3>8. \A i \in DOMAIN stack' : stack'[i].at = 1
      BY <1>0, <1>2, <1>3, <3>1
    <3> QED BY <3>7, <3>8 DEF Sound, NoCircle
  <2> QED BY <2>4, <2>5
<1>12. Explained' /\ CrashExplained' /\ Ended'
  BY <1>4 DEF IInv, Explained, CrashExplained, Ended, Circular
<1> QED BY <1>6, <1>8, <1>9, <1>10, <1>11, <1>12 DEF IInv

(* ... unless it is rejected.                                              *)
LEMMA RejectedStep ==
  ASSUME IInv, phase = "running", NEW d \in Own, Rejected(d), scn' = scn,
         Report("MULTIPLE_BASES", d, 2), lost' = TRUE,
         status' = status, stack' = stack, above' = above,
         todo' \in Seq(Definition), Range(todo) \subseteq Range(todo') \cup {d},
         Range(todo') \subseteq Range(todo),
         phase' \in {"running", "crashed"}
  PROVE  IInv'
<1>1. Types /\ d \in Definition
  BY ScenarioFacts DEF IInv
<1>2. /\ Own' = Own /\ Known' = Known /\ Kind' = Kind
      /\ Followed' = Followed /\ Validated' = Validated
      /\ \A x : RefersTo(x)' = RefersTo(x)
      /\ CircleIn(Followed)' = CircleIn(Followed)
      /\ CircleIn(Validated)' = CircleIn(Validated)
  BY SameScenario
<1>3. errors' \in Seq(Error) /\ (Circular' <=> Circular)
  BY <1>1, ReportFacts
<1>4. Types' /\ MarkIsStack' /\ Path'
  BY <1>2, <1>3 DEF IInv, Types, MarkIsStack, Path
<1>5. d \notin Validated
  BY DEF Validated, Followed
<1>6. Pending'
  BY <1>2, <1>5 DEF IInv, Pending
<1>7. Done' = Done /\ Settled' = Settled
  BY <1>2 DEF Done, Settled
<1>8. Sound'
  BY <1>2, <1>3, <1>7 DEF IInv, Sound
<1>9. Kind = "identity" /\ ~scn.v11 /\ Len(scn.refs[d]) >= 2
  BY DEF Rejected
<1>10. Explained' /\ CrashExplained' /\ Ended'
  BY <1>2, <1>3, <1>9 DEF IInv, Explained, CrashExplained, Ended
<1> QED BY <1>4, <1>6, <1>8, <1>10 DEF IInv

LEMMA TodoFacts ==
  ASSUME Types, Running
  PROVE  /\ Head(todo) \in Definition /\ Tail(todo) \in Seq(Definition)
         /\ Head(todo) \in Range(todo)
         /\ Range(todo) \subseteq Range(Tail(todo)) \cup {Head(todo)}
         /\ Range(Tail(todo)) \subseteq Range(todo)
<1>1. todo \in Seq(Definition) /\ todo # <<>>
  BY DEF Types, Running
<1>2. /\ Head(todo) = todo[1] /\ 1 \in DOMAIN todo
      /\ Tail(todo) \in Seq(Definition)
      /\ DOMAIN todo = 1..Len(todo) /\ DOMAIN Tail(todo) = 1..(Len(todo) - 1)
      /\ Len(todo) \in Nat
      /\ \A i \in 1..(Len(todo) - 1) : Tail(todo)[i] = todo[i + 1]
  BY <1>1
<1>3. ASSUME NEW i \in DOMAIN todo
      PROVE  todo[i] \in Range(Tail(todo)) \cup {Head(todo)}
  <2>1. CASE i = 1
    BY <1>2, <2>1
  <2>2. CASE i # 1
    <3>1. i - 1 \in DOMAIN Tail(todo) /\ Tail(todo)[i - 1] = todo[i]
      BY <1>2, <2>2
    <3> QED BY <3>1 DEF Range
  <2> QED BY <2>1, <2>2
<1>4. ASSUME NEW i \in DOMAIN Tail(todo) PROVE Tail(todo)[i] \in Range(todo)
  BY <1>2 DEF Range
<1>5. Head(todo) \in Range(todo) /\ Head(todo) \in Definition
  BY <1>1, <1>2 DEF Range
<1> QED BY <1>2, <1>3, <1>4, <1>5 DEF Range

LEMMA StartStep == IInv /\ Start => IInv'
<1> SUFFICES ASSUME IInv, Start PROVE IInv'
  OBVIOUS
<1> DEFINE d == Head(todo)
<1>1. /\ Types /\ Running /\ stack = <<>> /\ phase = "running"
      /\ LookedUp(d) = "raw" /\ Open(d) /\ todo' = Tail(todo)
      /\ scn' = scn /\ above' = above
  BY DEF IInv, Start, Running
<1>2. /\ d \in Definition /\ todo' \in Seq(Definition) /\ d \in Own
      /\ Range(todo) \subseteq Range(todo') \cup {d}
      /\ Range(todo') \subseteq Range(todo)
  BY <1>1, TodoFacts DEF IInv, Pending
<1> HIDE DEF d
<1>3. status[d] \in {"raw", "done"}
  <2>1. \A i \in DOMAIN stack : FALSE
    BY <1>1
  <2> QED BY <1>1, <1>2, <2>1 DEF IInv, MarkIsStack, Types
<1>4. CASE Rejected(d)
  <2>1. /\ Report("MULTIPLE_BASES", d, 2) /\ lost' = TRUE /\ phase' = phase
        /\ status' = status /\ stack' = stack
    BY <1>1, <1>4 DEF Open
  <2> QED BY <1>1, <1>2, <1>4, <2>1, RejectedStep
<1>5. CASE ~Rejected(d)
  <2>1. d \in Followed
    <3>1. status[d] = "raw" => d \notin scn.given
      BY <1>2 DEF IInv, Pending
    <3>2. status[d] # "raw" => Kind = "feature"
      BY <1>1 DEF LookedUp
    <3> QED BY <1>2, <1>5, <3>1, <3>2 DEF Followed
  <2>2. /\ status' = [status EXCEPT ![d] = "processing"]
        /\ stack' = <<[def |-> d, at |-> 1, bases |-> {}]>> \o stack
        /\ lost' = lost /\ errors' = errors /\ phase' = phase
    BY <1>1, <1>5 DEF Open
  <2> QED BY <1>1, <1>2, <1>3, <2>1, <2>2, OpenedStep
<1> QED BY <1>4, <1>5

LEMMA FollowRawStep == IInv /\ FollowRaw => IInv'
<1> SUFFICES ASSUME IInv, FollowRaw PROVE IInv'
  OBVIOUS
<1> DEFINE d == Ref
<1>1. /\ Types /\ Following /\ stack # <<>> /\ phase = "running"
      /\ d \in Known /\ status[d] = "raw" /\ Open(d) /\ Ref = d
      /\ scn' = scn /\ above' = above /\ todo' = todo
      /\ d \in Definition
  BY RefFacts DEF IInv, FollowRaw, Following
<1> HIDE DEF d
<1>2. d \in Own /\ d \notin scn.given
  BY <1>1 DEF IInv, Pending, Known
<1>3. todo' \in Seq(Definition)
  BY <1>1 DEF Types
<1>4. CASE Rejected(d)
  <2>1. /\ Report("MULTIPLE_BASES", d, 2) /\ lost' = TRUE
        /\ phase' = "crashed" /\ status' = status /\ stack' = stack
    BY <1>1, <1>4 DEF Open
  <2> QED BY <1>1, <1>2, <1>3, <1>4, <2>1, RejectedStep
<1>5. CASE ~Rejected(d)
  <2>1. d \in Followed
    BY <1>2, <1>5 DEF Followed
  <2>2. /\ status' = [status EXCEPT ![d] = "processing"]
        /\ stack' = <<[def |-> d, at |-> 1, bases |-> {}]>> \o stack
        /\ lost' = lost /\ errors' = errors /\ phase' = phase
    BY <1>1, <1>5 DEF Open
  <2> QED BY <1>1, <1>3, <2>1, <2>2, OpenedStep
<1> QED BY <1>4, <1>5

-----------------------------------------------------------------------------
(* The innermost definition is complete: with no circle reported it was    *)
(* settled already, since all it refers to is done.                        *)
LEMMA CloseStep == IInv /\ Close => IInv'
<1> SUFFICES ASSUME IInv, Close PROVE IInv'
  OBVIOUS
<1>1. /\ Types /\ MarkIsStack /\ Path /\ Pending /\ Sound
      /\ stack # <<>> /\ phase = "running" /\ Top.at > Len(scn.refs[Top.def])
      /\ stack' = Tail(stack) /\ status' = [status EXCEPT ![Top.def] = "done"]
      /\ above' = [above EXCEPT ![Top.def] = Top.bases]
      /\ scn' = scn /\ todo' = todo /\ lost' = lost /\ errors' = errors
      /\ phase' = phase
  BY DEF IInv, Close
<1>2. /\ Top = stack[1] /\ 1 \in DOMAIN stack
      /\ Top.def \in Definition /\ Top.at \in Nat \ {0} /\ Top.bases \subseteq Definition
      /\ DOMAIN stack = 1..Len(stack) /\ Len(stack) \in Nat \ {0}
      /\ stack' \in Seq(Frame) /\ Len(stack') = Len(stack) - 1
      /\ \A i \in 1..(Len(stack) - 1) : stack'[i] = stack[i + 1]
  BY <1>1, TopFacts
<1>3. DOMAIN stack' = 1..(Len(stack) - 1)
  BY <1>2
<1>4. /\ Own' = Own /\ Known' = Known /\ Kind' = Kind
      /\ Followed' = Followed /\ Validated' = Validated
      /\ \A x : RefersTo(x)' = RefersTo(x)
      /\ CircleIn(Followed)' = CircleIn(Followed)
      /\ CircleIn(Validated)' = CircleIn(Validated)
  BY <1>1, SameScenario
<1> DEFINE d == Top.def
<1>5. /\ status \in [Definition -> {"raw", "processing", "done"}]
      /\ status'[d] = "done" /\ status[d] = "processing"
      /\ \A x \in Definition : x # d => status'[x] = status[x]
  <2>1. status[d] = "processing"
    BY <1>1, <1>2 DEF MarkIsStack
  <2> QED BY <1>1, <1>2, <2>1 DEF Types
<1>6. Types'
  BY <1>1, <1>2 DEF Types
<1>7. MarkIsStack'
  <2>1. ASSUME NEW x \in Definition
        PROVE  status'[x] = "processing" <=> \E i \in DOMAIN stack' : stack'[i].def = x
    <3>1. CASE x = d
      <4>1. ASSUME NEW i \in DOMAIN stack', stack'[i].def = d PROVE FALSE
        <5>1. i + 1 \in DOMAIN stack /\ stack[i + 1].def = stack[1].def
          BY <1>2, <1>3, <4>1
        <5>2. i + 1 = 1
          BY <1>1, <1>2, <5>1 DEF MarkIsStack
        <5> QED BY <1>3, <5>2
      <4> QED BY <1>5, <3>1, <4>1
    <3>2. CASE x # d
      <4>1. ASSUME NEW i \in DOMAIN stack'
            PROVE  i + 1 \in DOMAIN stack /\ stack'[i] = stack[i + 1]
        BY <1>2, <1>3
      <4>2. ASSUME NEW i \in DOMAIN stack, stack[i].def = x
            PROVE  i - 1 \in DOMAIN stack' /\ stack'[i - 1] = stack[i]
        BY <1>2, <1>3, <3>2, <4>2
      <4>3. status[x] = "processing" <=> \E i \in DOMAIN stack : stack[i].def = x
        BY <1>1 DEF MarkIsStack
      <4>4. (\E i \in DOMAIN stack : stack[i].def = x) <=> \E i \in DOMAIN stack' : stack'[i].def = x
        BY <4>1, <4>2
      <4> QED BY <1>5, <3>2, <4>3, <4>4
    <3> QED BY <3>1, <3>2
  <2>2. ASSUME NEW i \in DOMAIN stack', NEW j \in DOMAIN stack',
               stack'[i].def = stack'[j].def
        PROVE  i = j
    <3>1. i + 1 \in DOMAIN stack /\ j + 1 \in DOMAIN stack
          /\ stack[i + 1].def = stack[j + 1].def
      BY <1>2, <1>3, <2>2
    <3>2. i + 1 = j + 1
      BY <1>1, <3>1 DEF MarkIsStack
    <3> QED BY <1>3, <3>2
  <2> QED BY <2>1, <2>2 DEF MarkIsStack
<1>8. Path'
  <2> SUFFICES ASSUME NEW i \in DOMAIN stack'
               PROVE  /\ stack'[i].def \in Followed
                      /\ stack'[i].at <= Len(scn.refs[stack'[i].def]) + 1
                      /\ i > 1 => /\ stack'[i].at <= Len(scn.refs[stack'[i].def])
                                  /\ scn.refs[stack'[i].def][stack'[i].at] = stack'[i - 1].def
    BY <1>1, <1>4 DEF Path
  <2>1. i + 1 \in DOMAIN stack /\ stack'[i] = stack[i + 1] /\ i + 1 > 1
    BY <1>2, <1>3
  <2>2. i > 1 => stack'[i - 1] = stack[(i + 1) - 1]
    BY <1>2, <1>3
  <2> QED BY <1>1, <2>1, <2>2 DEF Path
<1>9. Pending'
  BY <1>1, <1>4, <1>5 DEF Pending
<1>10. Sound'
  <2> SUFFICES ASSUME ~Circular' PROVE Sound'
    BY DEF Sound
  <2>1. ~Circular /\ NoCircle
    BY <1>1 DEF Circular, Sound, NoCircle
  <2>2. RefersTo(d) \cap Validated \subseteq Done
    <3> SUFFICES ASSUME NEW x \in RefersTo(d), x \in Validated PROVE x \in Done
      OBVIOUS
    <3>1. scn.refs[d] \in Seq(Definition)
      BY <1>1, <1>2, ScenarioFacts
    <3>2. PICK j \in 1..Len(scn.refs[d]) : x = scn.refs[d][j]
      <4>1. RefersTo(d) = {scn.refs[d][j] : j \in 1..Len(scn.refs[d])} \cap Known
        BY <1>1, <1>2, ScenarioFacts
      <4> QED BY <4>1
    <3>3. j \in 1..(stack[1].at - 1)
      BY <1>1, <1>2, <3>1, <3>2
    <3> QED BY <1>1, <1>2, <2>1, <3>2, <3>3 DEF Sound
  <2>3. Done \subseteq Done' /\ Done' \subseteq Done \cup {d}
        /\ (d \in Done' => d \in Settled)
    BY <1>1, <1>4, <1>5, <2>2, ScenarioFacts DEF Done, Settled
  <2>4. Settled \subseteq Settled'
    <3> SUFFICES ASSUME NEW x \in Settled PROVE x \in Settled'
      OBVIOUS
    <3>1. x \in Validated /\ x \in Definition
      BY <1>1, ScenarioFacts DEF Settled, Done
    <3>2. CASE x = d
      BY <1>4, <1>5, <3>1, <3>2 DEF Settled, Done
    <3>3. CASE x # d
      BY <1>4, <1>5, <2>3, <3>1, <3>3 DEF Settled
    <3> QED BY <3>2, <3>3
  <2>5. \A x \in Settled' \ Settled : RefersTo(x) \cap Validated \subseteq Settled
    <3> SUFFICES ASSUME NEW x \in Settled', x \notin Settled
                 PROVE  RefersTo(x) \cap Validated \subseteq Settled
      OBVIOUS
    <3>1. x \notin Done'
      BY <2>3 DEF Settled
    <3>2. RefersTo(x) \cap Validated \subseteq Done'
      BY <1>4, <3>1 DEF Settled
    <3> QED BY <2>3, <3>2 DEF Settled
  <2>6. NoCircle'
    BY <1>1, <2>1, <2>4, <2>5, SettledGrows
  <2>7. ASSUME NEW i \in DOMAIN stack', NEW j \in 1..(stack'[i].at - 1),
               scn.refs[stack'[i].def][j] \in Validated
        PROVE  scn.refs[stack'[i].def][j] \in Done'
    <3>1. i + 1 \in DOMAIN stack /\ stack'[i] = stack[i + 1]
      BY <1>2, <1>3
    <3> QED BY <1>1, <2>1, <2>3, <2>7, <3>1 DEF Sound
  <2> QED BY <1>1, <1>4, <2>6, <2>7 DEF Sound, NoCircle
<1>11. Explained' /\ CrashExplained' /\ Ended'
  BY <1>1, <1>4 DEF IInv, Explained, CrashExplained, Ended, Circular
<1> QED BY <1>1, <1>6, <1>7, <1>8, <1>9, <1>10, <1>11 DEF IInv

-----------------------------------------------------------------------------
(* The loop passes a definition that is done, ends, or runs into a crash.  *)
LEMMA LoopStep == IInv /\ (StartDone \/ StartCrash \/ Finish) => IInv'
<1> SUFFICES ASSUME IInv, StartDone \/ StartCrash \/ Finish PROVE IInv'
  OBVIOUS
<1>1. /\ scn' = scn /\ status' = status /\ above' = above /\ stack' = stack
      /\ lost' = lost /\ errors' = errors /\ phase = "running" /\ stack = <<>>
      /\ Types
  BY DEF IInv, StartDone, StartCrash, Finish, Running
<1>2. /\ Own' = Own /\ Known' = Known /\ Kind' = Kind
      /\ Followed' = Followed /\ Validated' = Validated
      /\ \A x : RefersTo(x)' = RefersTo(x)
      /\ CircleIn(Followed)' = CircleIn(Followed)
      /\ CircleIn(Validated)' = CircleIn(Validated)
  BY <1>1, SameScenario
<1>3. /\ todo' \in Seq(Definition) /\ phase' \in {"running", "done", "crashed"}
      /\ Range(todo') \subseteq Range(todo)
      /\ \A d \in Range(todo) : status[d] = "raw" => d \in Range(todo')
  <2>1. CASE StartDone
    <3>1. Running /\ todo' = Tail(todo) /\ phase' = phase
          /\ LookedUp(Head(todo)) = "done"
      BY <2>1 DEF StartDone
    <3>2. status[Head(todo)] = "done"
      BY <3>1 DEF LookedUp
    <3> QED BY <1>1, <3>1, <3>2, TodoFacts
  <2>2. CASE StartCrash \/ Finish
    BY <1>1, <2>2 DEF StartCrash, Finish, Types
  <2> QED BY <2>1, <2>2
<1>4. Types' /\ MarkIsStack' /\ Path'
  BY <1>1, <1>2, <1>3 DEF IInv, Types, MarkIsStack, Path
<1>5. Pending'
  BY <1>1, <1>2, <1>3 DEF IInv, Pending
<1>6. Done' = Done /\ Settled' = Settled /\ Circular' = Circular
  BY <1>1, <1>2 DEF Done, Settled, Circular
<1>7. Sound'
  BY <1>1, <1>2, <1>6 DEF IInv, Sound
<1>8. Explained'
  BY <1>1, <1>2, <1>6 DEF IInv, Explained
<1>9. CrashExplained' /\ Ended'
  <2>1. CASE StartCrash
    BY <1>1, <1>2, <2>1 DEF IInv, StartCrash, Explained, CrashExplained, Ended
  <2>2. CASE Finish
    BY <1>1, <2>2 DEF Finish, CrashExplained, Ended
  <2>3. CASE StartDone
    BY <1>1, <2>3 DEF StartDone, CrashExplained, Ended
  <2> QED BY <2>1, <2>2, <2>3
<1> QED BY <1>1, <1>4, <1>5, <1>7, <1>8, <1>9 DEF IInv

LEMMA InitIInv == Init => IInv
<1> SUFFICES ASSUME Init PROVE IInv
  OBVIOUS
<1>1. scn \in ScenarioType /\ IsInjective(scn.own)
  BY ScenarioAssumption DEF Init
<1>2. /\ scn.own \in Seq(Definition) /\ scn.given \subseteq Definition
  BY <1>1 DEF ScenarioType
<1>3. errors \in Seq(Error) /\ \A i \in DOMAIN errors : errors[i].code = "DUPLICATE_DEFINITION"
  <2>1. IsFiniteSet(Own)
    <3>1. IsFiniteSet(1..Len(scn.own))
      BY <1>2, FS_Interval
    <3>2. scn.own \in Surjection(1..Len(scn.own), Own)
      BY <1>2 DEF Own, Range, Surjection
    <3> QED BY <3>1, <3>2, FS_Surjection
  <2>2. Cardinality(Clashes) \in Nat /\ Clashes \subseteq Definition
    BY <1>2, <2>1, FS_Subset, FS_CardinalityType DEF Clashes
  <2>3. PICK s \in [1..Cardinality(Clashes) -> Clashes] :
          errors = [i \in DOMAIN s |->
                      [code |-> "DUPLICATE_DEFINITION", def |-> s[i], at |-> 0]]
    BY DEF Init
  <2>4. \A i \in 1..Cardinality(Clashes) :
          [code |-> "DUPLICATE_DEFINITION", def |-> s[i], at |-> 0] \in Error
    BY <2>2 DEF Error
  <2> QED BY <2>2, <2>3, <2>4
<1>4. Types
  <2>1. status \in [Definition -> {"raw", "processing", "done"}]
    BY DEF Init
  <2>2. above \in [Definition -> SUBSET Definition] /\ stack \in Seq(Frame)
    BY DEF Init
  <2> QED BY <1>1, <1>2, <1>3, <2>1, <2>2 DEF Init, Types
<1>5. stack = <<>> /\ DOMAIN stack = {}
  BY DEF Init
<1>6. MarkIsStack /\ Path
  BY <1>5 DEF Init, MarkIsStack, Path
<1>7. Pending
  BY <1>4, ScenarioFacts DEF Init, Pending, Validated, Followed, Own
<1>8. ~Circular
  BY <1>3 DEF Circular
<1>9. Done = {} /\ Settled = {}
  <2>1. \A d \in Validated : status[d] = "raw"
    BY <1>4, ScenarioFacts DEF Init
  <2> QED BY <2>1 DEF Done, Settled
<1>10. Sound
  BY <1>5, <1>9 DEF Sound
<1>11. Explained /\ CrashExplained /\ Ended
  BY <1>8 DEF Init, Explained, CrashExplained, Ended
<1> QED BY <1>1, <1>4, <1>6, <1>7, <1>10, <1>11 DEF IInv

LEMMA StutterStep == IInv /\ UNCHANGED vars => IInv'
<1> SUFFICES ASSUME IInv, UNCHANGED vars PROVE IInv'
  OBVIOUS
<1>1. /\ scn' = scn /\ todo' = todo /\ status' = status /\ above' = above
      /\ stack' = stack /\ lost' = lost /\ errors' = errors /\ phase' = phase
  BY DEF vars
<1>2. /\ Own' = Own /\ Known' = Known /\ Kind' = Kind
      /\ Followed' = Followed /\ Validated' = Validated
      /\ \A x : RefersTo(x)' = RefersTo(x)
      /\ CircleIn(Followed)' = CircleIn(Followed)
      /\ CircleIn(Validated)' = CircleIn(Validated)
  BY <1>1, SameScenario
<1>3. Done' = Done /\ Settled' = Settled /\ Circular' = Circular
  BY <1>1, <1>2 DEF Done, Settled, Circular
<1>4. Sound' /\ Explained' /\ CrashExplained' /\ Ended'
  BY <1>1, <1>2, <1>3 DEF IInv, Sound, Explained, CrashExplained, Ended
<1>5. Types' /\ MarkIsStack' /\ Path' /\ Pending'
  BY <1>1, <1>2 DEF IInv, Types, MarkIsStack, Path, Pending
<1> QED BY <1>1, <1>4, <1>5 DEF IInv

LEMMA StepIInv == IInv /\ [Next]_vars => IInv'
<1> SUFFICES ASSUME IInv, [Next]_vars PROVE IInv'
  OBVIOUS
<1>1. CASE StartDone \/ StartCrash \/ Finish
  BY <1>1, LoopStep
<1>2. CASE Start
  BY <1>2, StartStep
<1>3. CASE FollowMissing
  BY <1>3, FollowMissingStep
<1>4. CASE FollowRaw
  BY <1>4, FollowRawStep
<1>5. CASE FollowDone
  BY <1>5, FollowDoneStep
<1>6. CASE FollowCircular
  BY <1>6, FollowCircularStep
<1>7. CASE Close
  BY <1>7, CloseStep
<1>8. CASE Terminated \/ UNCHANGED vars
  BY <1>8, StutterStep DEF Terminated
<1> QED
  BY <1>1, <1>2, <1>3, <1>4, <1>5, <1>6, <1>7, <1>8 DEF Next

-----------------------------------------------------------------------------
(* The variables keep their types, and v_status marks exactly what is      *)
(* being validated, for definitions of any kind and number.                *)
THEOREM TypeCorrect == Spec => []TypeOK
<1>1. IInv => TypeOK
  BY DEF IInv, TypeOK
<1> QED BY <1>1, InitIInv, StepIInv, PTL DEF Spec

(* In the end everything to be validated has been.                         *)
LEMMA AllValidated ==
  ASSUME IInv, phase = "done", NEW d \in Validated
  PROVE  status[d] = "done"
<1>1. Types /\ stack = <<>> /\ todo = <<>>
  BY DEF IInv, Ended
<1>2. d \in Definition
  BY <1>1, ScenarioFacts
<1>3. status[d] # "processing"
  BY <1>1, <1>2 DEF IInv, MarkIsStack
<1>4. status[d] # "raw"
  BY <1>1, <1>2 DEF IInv, Pending, Range
<1> QED BY <1>1, <1>2, <1>3, <1>4 DEF Types

(* Circular definitions are reported in whichever order add_identity and   *)
(* the others reach them, and nothing else is reported as circular.        *)
THEOREM CirclesReported == Spec => []CircleDecided
<1>1. IInv => CircleDecided
  <2> SUFFICES ASSUME IInv, phase = "done"
               PROVE  /\ CircleIn(Validated) => Circular
                      /\ Circular => CircleIn(Followed)
    BY DEF CircleDecided, Circular, Reported
  <2>1. Types /\ stack = <<>> /\ todo = <<>>
    BY DEF IInv, Ended
  <2>2. \A d \in Validated : status[d] = "done"
    BY AllValidated
  <2>3. Validated \subseteq Settled
    BY <2>2 DEF Settled, Done
  <2>4. ASSUME ~Circular, CircleIn(Validated) PROVE FALSE
    <3>1. PICK S \in (SUBSET Validated) \ {{}} : \A d \in S : RefersTo(d) \cap S # {}
      BY <2>4 DEF CircleIn
    <3>2. S \in (SUBSET Settled) \ {{}}
      BY <2>3
    <3> QED BY <2>4, <3>1, <3>2 DEF IInv, Sound
  <2> QED BY <2>4 DEF IInv, Explained
<1> QED BY <1>1, InitIInv, StepIInv, PTL DEF Spec

(* mk_module_maps only crashes on circular typedefs and on an identity     *)
(* with several bases in a YANG 1 module.                                  *)
THEOREM CrashesExplained == Spec => []CrashExplained
<1>1. IInv => CrashExplained
  BY DEF IInv
<1> QED BY <1>1, InitIInv, StepIInv, PTL DEF Spec

-----------------------------------------------------------------------------
(* Typedefs as a depth-first search.                                       *)
DFStep == [DF!Next]_(DF!dfVars)

(* The typedefs d refers to before its current statement.                  *)
PassedBy(d) ==
  {b \in Typedefs :
     \E i \in DOMAIN stack :
       /\ stack[i].def = d
       /\ \E j \in 1..(stack[i].at - 1) : scn.refs[d][j] = b}

LEMMA MapFacts ==
  ASSUME IInv
  PROVE  /\ Typedefs \subseteq Definition
         /\ Typedefs = IF Kind = "typedef" THEN Validated ELSE {}
         /\ \A d \in Definition :
              /\ Status[d] = IF d \notin Typedefs \/ status[d] = "raw" THEN "new"
                             ELSE IF status[d] = "processing" THEN "open" ELSE "closed"
              /\ DependsOn[d] = IF Status[d] = "closed"
                                THEN RefersTo(d) \cap Typedefs ELSE PassedBy(d)
         /\ DOMAIN Status = Definition /\ DOMAIN DependsOn = Definition
<1>1. Types
  BY DEF IInv
<1>2. Kind = "typedef" => Own \ scn.given = Validated
  BY DEF Validated, Followed, Rejected
<1>3. Typedefs = IF Kind = "typedef" THEN Validated ELSE {}
  BY <1>2 DEF Typedefs
<1>4. Typedefs \subseteq Definition
  BY <1>1, <1>3, ScenarioFacts
<1> QED BY <1>3, <1>4 DEF Status, DependsOn, PassedBy

(* Nothing changes for the search.                                         *)
LEMMA SameMap ==
  ASSUME scn' = scn,
         \/ Kind # "typedef"
         \/ status' = status /\ \A d \in Definition : PassedBy(d)' = PassedBy(d)
  PROVE  DFStep
<1>1. Kind' = Kind /\ Own' = Own /\ \A d : RefersTo(d)' = RefersTo(d)
  BY SameScenario
<1>2. Typedefs' = Typedefs
  BY <1>1 DEF Typedefs
<1>3. Status' = Status
  BY <1>2 DEF Status, Typedefs
<1>4. DependsOn' = DependsOn
  <2>1. CASE Kind # "typedef"
    <3>1. Typedefs = {} /\ Typedefs' = {}
      BY <1>2, <2>1 DEF Typedefs
    <3> QED BY <3>1 DEF DependsOn
  <2>2. CASE status' = status /\ \A d \in Definition : PassedBy(d)' = PassedBy(d)
    BY <1>1, <1>2, <1>3, <2>2 DEF DependsOn, PassedBy
  <2> QED BY <2>1, <2>2
<1> QED BY <1>3, <1>4 DEF DFStep, DF!dfVars

(* A typedef is opened.                                                    *)
LEMMA OpenMap ==
  ASSUME IInv, Kind = "typedef", NEW d \in Definition, d \in Own, scn' = scn,
         status[d] = "raw", Open(d)
  PROVE  DFStep
<1>1. /\ Types /\ Pending /\ MarkIsStack
      /\ status' = [status EXCEPT ![d] = "processing"]
      /\ stack' = <<[def |-> d, at |-> 1, bases |-> {}]>> \o stack
  BY DEF IInv, Open, Rejected
<1> DEFINE fr == [def |-> d, at |-> 1, bases |-> {}]
<1>2. fr \in Frame /\ fr.def = d /\ fr.at = 1 /\ stack' = <<fr>> \o stack
  BY <1>1 DEF Frame
<1> HIDE DEF fr
<1>3. /\ DOMAIN stack' = 1..(Len(stack) + 1) /\ stack'[1] = fr
      /\ \A i \in 2..(Len(stack) + 1) : stack'[i] = stack[i - 1]
      /\ DOMAIN stack = 1..Len(stack) /\ Len(stack) \in Nat
  BY <1>1, <1>2, PushFacts DEF Types
<1>4. Kind' = Kind /\ Own' = Own /\ \A x : RefersTo(x)' = RefersTo(x)
  BY SameScenario
<1>5. Typedefs' = Typedefs /\ d \in Typedefs
  BY <1>1, <1>4 DEF Typedefs, Pending
<1>6. /\ status'[d] = "processing"
      /\ \A x \in Definition : x # d => status'[x] = status[x]
  BY <1>1 DEF Types
<1>7. Status[d] = "new" /\ Status' = [Status EXCEPT ![d] = "open"]
  BY <1>5, <1>6 DEF Status
<1>8. \A x \in Definition : PassedBy(x)' = PassedBy(x)
  <2> SUFFICES ASSUME NEW x \in Definition, NEW b
               PROVE  b \in PassedBy(x)' <=> b \in PassedBy(x)
    OBVIOUS
  <2>1. ASSUME NEW i \in DOMAIN stack', NEW j \in 1..(stack'[i].at - 1)
        PROVE  i - 1 \in DOMAIN stack /\ stack[i - 1] = stack'[i]
    <3>1. i # 1
      BY <1>2, <1>3
    <3> QED BY <1>3, <3>1
  <2>2. ASSUME NEW i \in DOMAIN stack PROVE i + 1 \in DOMAIN stack' /\ stack'[i + 1] = stack[i]
    BY <1>3
  <2>3. ASSUME b \in PassedBy(x)' PROVE b \in PassedBy(x)
    <3>1. PICK i \in DOMAIN stack' :
            stack'[i].def = x /\ \E j \in 1..(stack'[i].at - 1) : scn.refs[x][j] = b
      BY <2>3 DEF PassedBy
    <3>2. b \in Typedefs
      BY <1>5, <2>3 DEF PassedBy
    <3>3. i - 1 \in DOMAIN stack /\ stack[i - 1] = stack'[i]
      BY <2>1, <3>1
    <3> QED BY <3>1, <3>2, <3>3 DEF PassedBy
  <2>4. ASSUME b \in PassedBy(x) PROVE b \in PassedBy(x)'
    BY <1>5, <2>2, <2>4 DEF PassedBy
  <2> QED BY <2>3, <2>4
<1>9. DependsOn' = DependsOn
  <2>1. \A x \in Definition : Status'[x] = "closed" <=> Status[x] = "closed"
    BY <1>7 DEF Status
  <2> QED BY <1>4, <1>5, <1>8, <2>1 DEF DependsOn, PassedBy
<1> QED BY <1>7, <1>9 DEF DFStep, DF!Next, DF!Open

(* The innermost typedef passes a reference.                               *)
LEMMA FollowMap ==
  ASSUME IInv, Kind = "typedef", Following, scn' = scn, status' = status,
         NEW bs \in SUBSET Definition, stack' = Advanced(bs),
         Ref \in Typedefs => status[Ref] = "done"
  PROVE  DFStep
<1>1. Types /\ stack # <<>> /\ Ref \in Definition /\ MarkIsStack /\ Path
  BY RefFacts DEF IInv
<1>2. /\ DOMAIN stack' = DOMAIN stack
      /\ \A i \in DOMAIN stack :
           /\ stack'[i].def = stack[i].def
           /\ i # 1 => stack'[i] = stack[i]
      /\ stack'[1].at = Top.at + 1
  BY <1>1, AdvancedFacts
<1>3. /\ Top = stack[1] /\ 1 \in DOMAIN stack /\ Top.def \in Definition
      /\ Top.at \in Nat \ {0}
  BY <1>1, TopFacts
<1>n. PICK n \in Definition : n = Top.def
  BY <1>3
<1>4. Kind' = Kind /\ Own' = Own /\ \A x : RefersTo(x)' = RefersTo(x)
  BY SameScenario
<1>5. Typedefs' = Typedefs /\ Status' = Status
  BY <1>4 DEF Typedefs, Status
<1>6. ASSUME NEW x \in Definition, x # n PROVE PassedBy(x)' = PassedBy(x)
  <2>1. \A i \in DOMAIN stack : stack[i].def = x => stack'[i] = stack[i]
    BY <1>2, <1>3, <1>6, <1>n
  <2> QED BY <1>2, <1>5, <2>1 DEF PassedBy
<1>7. PassedBy(n)' = PassedBy(n) \cup ({Ref} \cap Typedefs)
  <2>1. \A i \in DOMAIN stack : stack[i].def = n <=> i = 1
    BY <1>1, <1>3, <1>n DEF MarkIsStack
  <2>2. \A j : j \in 1..(stack'[1].at - 1) <=> (j \in 1..(stack[1].at - 1) \/ j = Top.at)
    BY <1>2, <1>3
  <2>3. PassedBy(n) = {b \in Typedefs : \E j \in 1..(stack[1].at - 1) : scn.refs[n][j] = b}
    BY <1>3, <2>1 DEF PassedBy
  <2>4. PassedBy(n)' = {b \in Typedefs : \E j \in 1..(stack'[1].at - 1) : scn.refs[n][j] = b}
    BY <1>2, <1>3, <1>5, <2>1 DEF PassedBy
  <2> QED BY <1>3, <1>n, <2>2, <2>3, <2>4 DEF Ref
<1>8. status[n] = "processing" /\ n \in Typedefs
  BY <1>1, <1>3, <1>n, MapFacts DEF MarkIsStack, Path, Validated, Followed
<1>9. Status[n] = "open"
  BY <1>8 DEF Status
<1>10. CASE Ref \notin Typedefs
  <2>1. \A x \in Definition : PassedBy(x)' = PassedBy(x)
    BY <1>6, <1>7, <1>10
  <2> QED BY <2>1, SameMap
<1>11. CASE Ref \in Typedefs
  <2>1. Status[Ref] = "closed"
    BY <1>1, <1>11 DEF Status
  <2>2. DependsOn[n] = PassedBy(n)
    BY <1>3, <1>9, MapFacts
  <2>3. DependsOn' = [DependsOn EXCEPT ![n] = @ \cup {Ref}]
    <3>1. \A x \in Definition :
            DependsOn'[x] = IF x = n THEN DependsOn[n] \cup {Ref} ELSE DependsOn[x]
      <4> SUFFICES ASSUME NEW x \in Definition
                   PROVE  DependsOn'[x] = IF x = n THEN DependsOn[n] \cup {Ref}
                                          ELSE DependsOn[x]
        OBVIOUS
      <4>1. DependsOn'[x] = IF Status[x] = "closed" THEN RefersTo(x) \cap Typedefs
                            ELSE PassedBy(x)'
        BY <1>4, <1>5 DEF DependsOn, PassedBy
      <4>2. CASE x = n
        BY <1>7, <1>9, <1>11, <2>2, <4>1, <4>2
      <4>3. CASE x # n
        BY <1>6, <4>1, <4>3, MapFacts
      <4> QED BY <4>2, <4>3
    <3>2. DOMAIN DependsOn' = Definition /\ DOMAIN DependsOn = Definition
      BY DEF DependsOn
    <3> QED BY <3>1, <3>2 DEF DependsOn
  <2>4. DF!Depend(n, Ref)
    BY <1>5, <1>9, <2>1, <2>3 DEF DF!Depend
  <2> QED BY <1>1, <1>3, <2>4 DEF DFStep, DF!Next
<1> QED BY <1>10, <1>11

(* The innermost typedef is complete.                                      *)
LEMMA CloseMap ==
  ASSUME IInv, Kind = "typedef", Close
  PROVE  DFStep
<1>1. /\ Types /\ MarkIsStack /\ Path
      /\ stack # <<>> /\ Top.at > Len(scn.refs[Top.def])
      /\ stack' = Tail(stack) /\ status' = [status EXCEPT ![Top.def] = "done"]
      /\ scn' = scn
  BY DEF IInv, Close
<1>2. /\ Top = stack[1] /\ 1 \in DOMAIN stack
      /\ Top.def \in Definition /\ Top.at \in Nat \ {0}
      /\ DOMAIN stack = 1..Len(stack) /\ Len(stack) \in Nat \ {0}
      /\ stack' \in Seq(Frame) /\ Len(stack') = Len(stack) - 1
      /\ \A i \in 1..(Len(stack) - 1) : stack'[i] = stack[i + 1]
  BY <1>1, TopFacts
<1>3. DOMAIN stack' = 1..(Len(stack) - 1)
  BY <1>2
<1> DEFINE n == Top.def
<1>4. Kind' = Kind /\ Own' = Own /\ \A x : RefersTo(x)' = RefersTo(x)
  BY <1>1, SameScenario
<1>5. Typedefs' = Typedefs
  BY <1>1, <1>4 DEF Typedefs
<1>6. status[n] = "processing" /\ n \in Typedefs
  BY <1>1, <1>2, MapFacts DEF MarkIsStack, Path, Validated, Followed
<1>7. /\ status'[n] = "done"
      /\ \A x \in Definition : x # n => status'[x] = status[x]
  BY <1>1, <1>2 DEF Types
<1>8. Status[n] = "open" /\ Status' = [Status EXCEPT ![n] = "closed"]
  BY <1>2, <1>5, <1>6, <1>7 DEF Status
<1>9. ASSUME NEW x \in Definition, x # n PROVE PassedBy(x)' = PassedBy(x)
  <2> SUFFICES ASSUME NEW b PROVE b \in PassedBy(x)' <=> b \in PassedBy(x)
    OBVIOUS
  <2>1. ASSUME NEW i \in DOMAIN stack' PROVE i + 1 \in DOMAIN stack /\ stack[i + 1] = stack'[i]
    BY <1>2, <1>3
  <2>2. ASSUME NEW i \in DOMAIN stack, stack[i].def = x
        PROVE  i - 1 \in DOMAIN stack' /\ stack'[i - 1] = stack[i]
    BY <1>2, <1>3, <1>9, <2>2
  <2>3. ASSUME b \in PassedBy(x)' PROVE b \in PassedBy(x)
    <3>1. PICK i \in DOMAIN stack' :
            stack'[i].def = x /\ \E j \in 1..(stack'[i].at - 1) : scn.refs[x][j] = b
      BY <1>1, <2>3 DEF PassedBy
    <3>2. b \in Typedefs
      BY <1>5, <2>3 DEF PassedBy
    <3> QED BY <2>1, <3>1, <3>2 DEF PassedBy
  <2>4. ASSUME b \in PassedBy(x) PROVE b \in PassedBy(x)'
    <3>1. PICK i \in DOMAIN stack :
            stack[i].def = x /\ \E j \in 1..(stack[i].at - 1) : scn.refs[x][j] = b
      BY <2>4 DEF PassedBy
    <3>2. b \in Typedefs
      BY <2>4 DEF PassedBy
    <3>3. i - 1 \in DOMAIN stack' /\ stack'[i - 1] = stack[i]
      BY <2>2, <3>1
    <3> QED BY <1>1, <1>5, <3>1, <3>2, <3>3 DEF PassedBy
  <2> QED BY <2>3, <2>4
<1>10. PassedBy(n) = RefersTo(n) \cap Typedefs
  <2>1. \A i \in DOMAIN stack : stack[i].def = n <=> i = 1
    BY <1>1, <1>2 DEF MarkIsStack
  <2>2. PassedBy(n) = {b \in Typedefs : \E j \in 1..(stack[1].at - 1) : scn.refs[n][j] = b}
    BY <1>2, <2>1 DEF PassedBy
  <2>3. scn.refs[n] \in Seq(Definition) /\ RefersTo(n) = {scn.refs[n][j] : j \in 1..Len(scn.refs[n])} \cap Known
    BY <1>1, <1>2, ScenarioFacts
  <2>4. Typedefs \subseteq Known
    BY DEF Typedefs, Known
  <2>5. 1..Len(scn.refs[n]) \subseteq 1..(stack[1].at - 1)
    BY <1>1, <1>2, <2>3
  <2>6. RefersTo(n) \cap Typedefs \subseteq PassedBy(n)
    BY <2>2, <2>3, <2>5
  <2>7. ASSUME NEW b \in PassedBy(n) PROVE b \in RefersTo(n)
    <3>1. PICK j \in 1..(stack[1].at - 1) : scn.refs[n][j] = b
      BY <2>2
    <3>2. stack[1].at <= Len(scn.refs[n]) + 1
      BY <1>1, <1>2 DEF Path
    <3>3. j \in 1..Len(scn.refs[n])
      BY <1>2, <2>3, <3>1, <3>2
    <3> QED BY <2>2, <2>3, <2>4, <3>1, <3>3
  <2> QED BY <2>2, <2>6, <2>7
<1>11. DependsOn' = DependsOn
  <2>1. \A x \in Definition : DependsOn'[x] = DependsOn[x]
    <3> SUFFICES ASSUME NEW x \in Definition PROVE DependsOn'[x] = DependsOn[x]
      OBVIOUS
    <3>1. DependsOn'[x] = IF Status'[x] = "closed" THEN RefersTo(x) \cap Typedefs
                          ELSE PassedBy(x)'
      BY <1>1, <1>4, <1>5 DEF DependsOn, PassedBy
    <3>2. DependsOn[x] = IF Status[x] = "closed" THEN RefersTo(x) \cap Typedefs
                         ELSE PassedBy(x)
      BY MapFacts
    <3>3. CASE x = n
      BY <1>8, <1>10, <3>1, <3>2, <3>3, MapFacts
    <3>4. CASE x # n
      BY <1>8, <1>9, <3>1, <3>2, <3>4, MapFacts
    <3> QED BY <3>3, <3>4
  <2> QED BY <2>1 DEF DependsOn
<1>12. DF!Close(n)
  BY <1>8, <1>11 DEF DF!Close
<1> QED BY <1>2, <1>12 DEF DFStep, DF!Next

LEMMA StepMap == IInv /\ [Next]_vars => DFStep
<1> SUFFICES ASSUME IInv, [Next]_vars PROVE DFStep
  OBVIOUS
<1>1. scn' = scn
  BY DEF Next, vars, StartCrash, StartDone, Start, FollowMissing, FollowRaw,
     FollowDone, FollowCircular, Close, Finish, Terminated
<1>2. CASE Kind # "typedef"
  BY <1>1, <1>2, SameMap
<1>3. CASE Kind = "typedef"
  <2>0. Types
    BY DEF IInv
  <2>1. CASE StartDone \/ StartCrash \/ Finish \/ Terminated \/ UNCHANGED vars
    <3>1. stack' = stack /\ status' = status
      BY <2>1 DEF StartDone, StartCrash, Finish, Terminated, vars
    <3>2. Typedefs' = Typedefs
      BY <1>1, SameScenario DEF Typedefs
    <3>3. \A d \in Definition : PassedBy(d)' = PassedBy(d)
      BY <1>1, <3>1, <3>2 DEF PassedBy
    <3> QED BY <1>1, <3>1, <3>3, SameMap
  <2>2. CASE Start
    <3>1. Running /\ LookedUp(Head(todo)) = "raw" /\ Open(Head(todo))
      BY <2>2 DEF Start
    <3>2. Head(todo) \in Definition /\ Head(todo) \in Own
      BY <2>0, <3>1, TodoFacts DEF IInv, Pending
    <3>3. status[Head(todo)] = "raw"
      BY <1>3, <3>1 DEF LookedUp
    <3> QED BY <1>1, <1>3, <3>1, <3>2, <3>3, OpenMap
  <2>3. CASE FollowRaw
    <3>1. Following /\ Ref \in Known /\ status[Ref] = "raw" /\ Open(Ref)
      BY <2>3 DEF FollowRaw
    <3>2. Ref \in Definition /\ Ref \in Own
      BY <2>0, <3>1, RefFacts DEF IInv, Pending, Known
    <3> QED BY <1>1, <1>3, <3>1, <3>2, OpenMap
  <2>4. CASE FollowMissing
    <3>1. /\ Following /\ Ref \notin Known /\ status' = status
          /\ stack' = Advanced(Top.bases) /\ Top.bases \in SUBSET Definition
      BY <2>0, <2>4, TopFacts DEF FollowMissing, Following
    <3>2. Ref \notin Typedefs
      BY <3>1 DEF Typedefs, Known
    <3> QED BY <1>1, <1>3, <3>1, <3>2, FollowMap
  <2>5. CASE FollowDone
    <3>1. /\ Following /\ status[Ref] = "done" /\ status' = status
          /\ stack' = Advanced(WithRef)
      BY <2>5 DEF FollowDone
    <3>2. WithRef \in SUBSET Definition
      BY <2>0, <3>1, RefFacts, TopFacts DEF WithRef, Types
    <3> QED BY <1>1, <1>3, <3>1, <3>2, FollowMap
  <2>6. CASE FollowCircular
    <3>1. stack' = stack /\ status' = status
      BY <1>3, <2>6 DEF FollowCircular
    <3>2. Typedefs' = Typedefs
      BY <1>1, SameScenario DEF Typedefs
    <3>3. \A d \in Definition : PassedBy(d)' = PassedBy(d)
      BY <1>1, <3>1, <3>2 DEF PassedBy
    <3> QED BY <1>1, <3>1, <3>3, SameMap
  <2>7. CASE Close
    BY <1>3, <2>7, CloseMap
  <2> QED
    BY <2>1, <2>2, <2>3, <2>4, <2>5, <2>6, <2>7 DEF Next
<1> QED BY <1>2, <1>3

LEMMA InitMap == Init => DF!Init
<1> SUFFICES ASSUME Init PROVE DF!Init
  OBVIOUS
<1>1. \A d \in Definition : Status[d] = "new"
  BY DEF Init, Status, Typedefs
<1>2. \A d \in Definition : DependsOn[d] = {}
  <2>1. DOMAIN stack = {}
    BY DEF Init
  <2> QED BY <1>1, <2>1 DEF DependsOn
<1> QED BY <1>1, <1>2 DEF DF!Init, Status, DependsOn

(* The validation of typedefs is a depth-first search: mk_type only ever   *)
(* rests a type on one that is complete, whatever the definitions.         *)
THEOREM TypedefsDepthFirst == Spec => RefinesDepthFirst
<1>1. IInv /\ [Next]_vars => [DF!Next]_(DF!dfVars)
  BY StepMap DEF DFStep
<1> QED
  BY <1>1, InitMap, InitIInv, StepIInv, PTL DEF Spec, RefinesDepthFirst, DF!Spec

-----------------------------------------------------------------------------
(* The bases bs that are known to have been collected for d: without a     *)
(* circle, each has been validated and its own bases are among them.       *)
Closed(bs) == \A c \in bs \ scn.given : status[c] = "done" /\ above[c] \subseteq bs

(* The references of d up to the n-th are among bs.                        *)
Covers(d, n, bs) ==
  \A j \in 1..(n - 1) : scn.refs[d][j] \in Known => scn.refs[d][j] \in bs

(* What is stored with an identity, or has been collected so far.          *)
BasesRight ==
  /\ \A d \in Definition : status[d] # "done" \/ d \in scn.given => above[d] = {}
  /\ \A d \in scn.given : status[d] = "done"
  /\ \A d \in Definition \ scn.given :
       status[d] = "done" => d \in Validated /\ above[d] \subseteq DerivedFrom(d)
  /\ \A i \in DOMAIN stack : stack[i].bases \subseteq DerivedFrom(stack[i].def)
  /\ ~Circular =>
       /\ \A d \in Done : Covers(d, Len(scn.refs[d]) + 1, above[d])
                          /\ Closed(above[d])
       /\ \A i \in DOMAIN stack : /\ Closed(stack[i].bases)
                                  /\ Covers(stack[i].def, stack[i].at,
                                            stack[i].bases)

DerInv == Kind = "identity" => BasesRight

(* What a base is derived from, d is derived from.                         *)
LEMMA DerivedThrough ==
  ASSUME Types, NEW d \in Definition, NEW r \in RefersTo(d)
  PROVE  /\ r \in DerivedFrom(d)
         /\ r \in Validated => DerivedFrom(r) \subseteq DerivedFrom(d)
<1>1. r \in Known
  BY DEF RefersTo
<1>2. ASSUME NEW S \in SUBSET Known, RefersTo(d) \subseteq S,
             \A c \in S \cap Validated : RefersTo(c) \subseteq S
      PROVE  r \in S /\ (r \in Validated => DerivedFrom(r) \subseteq S)
  <2>1. r \in S
    BY <1>2
  <2>2. ASSUME r \in Validated, NEW b \in DerivedFrom(r) PROVE b \in S
    BY <1>2, <2>1, <2>2 DEF DerivedFrom
  <2> QED BY <2>1, <2>2
<1>3. r \in DerivedFrom(d)
  BY <1>1, <1>2 DEF DerivedFrom
<1>4. ASSUME r \in Validated, NEW b \in DerivedFrom(r)
      PROVE  b \in DerivedFrom(d)
  <2>1. b \in Known
    BY <1>4 DEF DerivedFrom
  <2> QED BY <1>2, <1>4, <2>1 DEF DerivedFrom
<1> QED BY <1>3, <1>4

LEMMA BasesType ==
  ASSUME Types, NEW i \in DOMAIN stack
  PROVE  stack[i].bases \in SUBSET Definition /\ stack[i].def \in Definition
<1>1. stack[i] \in Frame
  <2>1. stack \in Seq(Frame)
    BY DEF Types
  <2> QED BY <2>1
<1> QED BY <1>1 DEF Frame

LEMMA SameDerived ==
  ASSUME scn' = scn
  PROVE  /\ \A d : DerivedFrom(d)' = DerivedFrom(d)
         /\ Validated' = Validated /\ Known' = Known /\ Kind' = Kind
         /\ \A d, n, bs : Covers(d, n, bs)' = Covers(d, n, bs)
  BY SameScenario DEF DerivedFrom, Covers

(* No identity and no base changes.                                        *)
LEMMA SameBases ==
  ASSUME DerInv, UNCHANGED <<scn, status, above, stack>>, Circular => Circular'
  PROVE  DerInv'
<1>1. \A bs : Closed(bs)' = Closed(bs)
  BY DEF Closed
<1>2. Done' = Done
  BY SameDerived DEF Done
<1> QED BY <1>1, <1>2, SameDerived DEF DerInv, BasesRight

(* An identity is opened, without bases yet.                               *)
LEMMA OpenBases ==
  ASSUME IInv, DerInv, scn' = scn, above' = above, errors' = errors,
         NEW d \in Definition, status[d] = "raw",
         status' = [status EXCEPT ![d] = "processing"],
         stack' = <<[def |-> d, at |-> 1, bases |-> {}]>> \o stack
  PROVE  DerInv'
<1> SUFFICES ASSUME Kind = "identity" PROVE BasesRight'
  BY SameDerived DEF DerInv
<1>1. BasesRight /\ Types
  BY DEF DerInv, IInv
<1>2. /\ \A x \in Definition : x # d => status'[x] = status[x]
      /\ status'[d] = "processing"
  BY <1>1 DEF Types
<1>3. Done' = Done
  BY <1>2, SameDerived, ScenarioFacts, <1>1 DEF Done
<1>4. \A bs \in SUBSET Definition : Closed(bs) => Closed(bs)'
  BY <1>2 DEF Closed
<1>5. Circular' <=> Circular
  BY DEF Circular
<1> DEFINE fr == [def |-> d, at |-> 1, bases |-> {}]
<1>6. fr \in Frame /\ fr.def = d /\ fr.at = 1 /\ fr.bases = {}
  BY DEF Frame
<1>7. stack' = <<fr>> \o stack
  OBVIOUS
<1> HIDE DEF fr
<1>8. \A i \in DOMAIN stack' : \/ stack'[i] = fr
                               \/ \E j \in DOMAIN stack : stack'[i] = stack[j]
  <2>1. /\ DOMAIN stack' = 1..(Len(stack) + 1) /\ stack'[1] = fr
        /\ \A i \in 2..(Len(stack) + 1) : stack'[i] = stack[i - 1]
        /\ DOMAIN stack = 1..Len(stack) /\ Len(stack) \in Nat
    BY <1>1, <1>6, <1>7, PushFacts DEF Types
  <2>2. ASSUME NEW i \in DOMAIN stack', i # 1
        PROVE  i - 1 \in DOMAIN stack /\ stack'[i] = stack[i - 1]
    BY <2>1, <2>2
  <2> QED BY <2>1, <2>2
<1>9. \A i \in DOMAIN stack : stack[i].bases \in SUBSET Definition
  BY <1>1, BasesType
<1>10. \A i \in DOMAIN stack' : stack'[i].bases \subseteq DerivedFrom(stack'[i].def)
  BY <1>1, <1>6, <1>8 DEF BasesRight
<1>11. ~Circular => \A i \in DOMAIN stack' :
         /\ \A c \in stack'[i].bases \ scn.given :
              status'[c] = "done" /\ above'[c] \subseteq stack'[i].bases
         /\ Covers(stack'[i].def, stack'[i].at, stack'[i].bases)
  <2>1. Closed({})' /\ Covers(fr.def, 1, {})
    BY DEF Closed, Covers
  <2> SUFFICES ASSUME ~Circular, NEW i \in DOMAIN stack', NEW fr1, stack'[i] = fr1
               PROVE  Closed(fr1.bases)' /\ Covers(fr1.def, fr1.at, fr1.bases)
    BY DEF Closed
  <2>2. CASE fr1 = fr
    BY <1>6, <2>1, <2>2
  <2>3. CASE \E j \in DOMAIN stack : fr1 = stack[j]
    <3>1. PICK j \in DOMAIN stack : fr1 = stack[j]
      BY <2>3
    <3>2. Closed(fr1.bases) /\ Covers(fr1.def, fr1.at, fr1.bases)
          /\ fr1.bases \in SUBSET Definition
      BY <1>1, <1>9, <3>1 DEF BasesRight
    <3> QED BY <1>4, <3>2
  <2> QED BY <1>8, <2>2, <2>3
<1>12. \A x \in Definition : above[x] \in SUBSET Definition
  BY <1>1 DEF Types
<1>13. /\ \A x \in Definition : status'[x] # "done" \/ x \in scn.given => above[x] = {}
       /\ \A x \in scn.given : status'[x] = "done"
       /\ \A x \in Definition \ scn.given :
            status'[x] = "done" => x \in Validated /\ above[x] \subseteq DerivedFrom(x)
  <2>1. d \notin scn.given
    BY <1>1 DEF BasesRight
  <2>2. scn.given \subseteq Definition
    BY <1>1, ScenarioFacts
  <2> QED BY <1>1, <1>2, <2>1, <2>2 DEF BasesRight
<1>14. ~Circular => \A x \in Done : Covers(x, Len(scn.refs[x]) + 1, above[x])
                                    /\ Closed(above[x])'
  BY <1>1, <1>4, <1>12, ScenarioFacts DEF BasesRight, Done
<1>15. /\ \A x : DerivedFrom(x)' = DerivedFrom(x)
       /\ Validated' = Validated
       /\ \A x, n, bs : Covers(x, n, bs)' = Covers(x, n, bs)
  BY SameDerived
<1>16. ~Circular => \A i \in DOMAIN stack' : Closed(stack[i].bases)'
  BY <1>11 DEF Closed
<1> QED BY <1>3, <1>5, <1>10, <1>11, <1>13, <1>14, <1>15, <1>16 DEF BasesRight

(* The reference is passed, and taken with its bases if it is known.       *)
LEMMA AdvanceBases ==
  ASSUME IInv, DerInv, Following, UNCHANGED <<scn, status, above>>,
         Circular => Circular', NEW bs, stack' = Advanced(bs),
         \/ bs = Top.bases /\ Ref \notin Known
         \/ bs = WithRef /\ Ref \in Known /\ (Circular' \/ status[Ref] = "done")
  PROVE  DerInv'
<1> SUFFICES ASSUME Kind = "identity" PROVE BasesRight'
  BY SameDerived DEF DerInv
<1>1. BasesRight /\ Types /\ stack # <<>> /\ Ref \in Definition
  BY RefFacts DEF DerInv, IInv
<1>2. /\ Top = stack[1] /\ 1 \in DOMAIN stack /\ Top.def \in Definition
      /\ Top.bases \subseteq Definition /\ Top.at \in Nat
      /\ Ref \in Known => Ref \in RefersTo(Top.def)
      /\ Ref = scn.refs[Top.def][Top.at]
  BY <1>1, TopFacts, RefFacts DEF Ref
<1>3. /\ bs \in SUBSET Definition
      /\ bs = WithRef => bs = Top.bases \cup {Ref} \cup above[Ref]
  BY <1>1, <1>2 DEF WithRef, Types
<1>4. /\ DOMAIN stack' = DOMAIN stack
      /\ \A i \in DOMAIN stack : stack'[i].def = stack[i].def
                                 /\ (i # 1 => stack'[i] = stack[i])
      /\ stack'[1].at = Top.at + 1 /\ stack'[1].bases = bs
  BY <1>1, <1>3, AdvancedFacts
<1>5. bs \subseteq DerivedFrom(Top.def)
  <2>1. Top.bases \subseteq DerivedFrom(Top.def)
    BY <1>1, <1>2 DEF BasesRight
  <2>2. CASE Ref \in Known
    <3>1. Ref \in DerivedFrom(Top.def)
          /\ (Ref \in Validated => DerivedFrom(Ref) \subseteq DerivedFrom(Top.def))
      BY <1>1, <1>2, <2>2, DerivedThrough
    <3>2. above[Ref] = {} \/ (Ref \in Validated /\ above[Ref] \subseteq DerivedFrom(Ref))
      BY <1>1 DEF BasesRight
    <3> QED BY <1>3, <2>1, <2>2, <3>1, <3>2
  <2>3. CASE Ref \notin Known
    BY <2>1, <2>3
  <2> QED BY <2>2, <2>3
<1>6. \A b : Closed(b)' = Closed(b)
  BY DEF Closed
<1>7. ASSUME ~Circular' PROVE Closed(bs) /\ Covers(Top.def, Top.at + 1, bs)
  <2>1. Closed(Top.bases) /\ Covers(Top.def, Top.at, Top.bases)
    BY <1>1, <1>2, <1>7 DEF BasesRight
  <2>2. \A j \in 1..(Top.at + 1 - 1) : j \in 1..(Top.at - 1) \/ j = Top.at
    BY <1>2
  <2>3. CASE bs = Top.bases /\ Ref \notin Known
    BY <1>2, <2>1, <2>2, <2>3 DEF Covers
  <2>4. CASE bs = WithRef /\ status[Ref] = "done"
    <3>1. bs = Top.bases \cup {Ref} \cup above[Ref]
      BY <1>3, <2>4
    <3>2. Covers(Top.def, Top.at + 1, bs)
      <4> SUFFICES ASSUME NEW j \in 1..(Top.at + 1 - 1),
                          scn.refs[Top.def][j] \in Known
                   PROVE  scn.refs[Top.def][j] \in bs
        BY <1>2 DEF Covers
      <4>1. CASE j \in 1..(Top.at - 1)
        BY <2>1, <3>1, <4>1 DEF Covers
      <4>2. CASE j = Top.at
        BY <1>2, <3>1, <4>2
      <4> QED BY <2>2, <4>1, <4>2
    <3>3. CASE Ref \in scn.given
      <4>1. above[Ref] = {}
        BY <1>1, <3>3 DEF BasesRight
      <4> QED BY <2>1, <3>1, <3>2, <3>3, <4>1 DEF Closed
    <3>4. CASE Ref \notin scn.given
      <4>1. Ref \in Done
        BY <1>1, <2>4, <3>4 DEF BasesRight, Done
      <4>2. Closed(above[Ref])
        BY <1>1, <1>7, <4>1 DEF BasesRight
      <4> QED BY <2>1, <2>4, <3>1, <3>2, <4>2 DEF Closed
    <3> QED BY <3>3, <3>4
  <2> QED BY <1>7, <2>3, <2>4
<1>8. \A i \in DOMAIN stack : stack'[i].bases \subseteq DerivedFrom(stack'[i].def)
  BY <1>1, <1>2, <1>4, <1>5 DEF BasesRight
<1>9. ~Circular' => \A i \in DOMAIN stack :
        /\ Closed(stack'[i].bases)
        /\ Covers(stack'[i].def, stack'[i].at, stack'[i].bases)
  BY <1>1, <1>2, <1>4, <1>7 DEF BasesRight
<1>10. ~Circular' => \A i \in DOMAIN stack' : Closed(stack[i].bases)'
  BY <1>4, <1>9 DEF Closed
<1>11. Done' = Done
  BY SameDerived DEF Done
<1> QED BY <1>1, <1>4, <1>6, <1>8, <1>9, <1>10, <1>11, SameDerived DEF BasesRight

(* The bases that were collected are stored.                               *)
LEMMA CloseBases ==
  ASSUME IInv, DerInv, Close
  PROVE  DerInv'
<1> SUFFICES ASSUME Kind = "identity" PROVE BasesRight'
  BY SameDerived DEF DerInv, Close
<1>0. PICK t, bs : t = Top.def /\ bs = Top.bases
  OBVIOUS
<1>1. /\ BasesRight /\ Types /\ stack # <<>> /\ stack' = Tail(stack)
      /\ Top.at > Len(scn.refs[t])
      /\ status' = [status EXCEPT ![t] = "done"]
      /\ above' = [above EXCEPT ![t] = bs]
      /\ scn' = scn /\ errors' = errors
  BY <1>0 DEF DerInv, IInv, Close
<1>2. /\ Top = stack[1] /\ 1 \in DOMAIN stack /\ t \in Definition
      /\ bs \subseteq Definition /\ Top.at \in Nat
      /\ DOMAIN stack' = 1..(Len(stack) - 1) /\ DOMAIN stack = 1..Len(stack)
      /\ Len(stack) \in Nat
      /\ \A i \in 1..(Len(stack) - 1) : stack'[i] = stack[i + 1]
  BY <1>0, <1>1, TopFacts
<1>3. /\ status[t] = "processing" /\ t \in Followed
  BY <1>0, <1>2 DEF IInv, MarkIsStack, Path
<1>4. t \in Validated /\ t \notin scn.given
  BY <1>1, <1>3 DEF BasesRight, Validated
<1>5. /\ \A x \in Definition : x # t => status'[x] = status[x] /\ above'[x] = above[x]
      /\ status'[t] = "done" /\ above'[t] = bs /\ above[t] = {}
  BY <1>1, <1>2, <1>3 DEF Types, BasesRight
<1>6. ASSUME NEW b \in SUBSET Definition, Closed(b) PROVE Closed(b)'
  <2> SUFFICES ASSUME NEW c \in b \ scn.given
               PROVE  status'[c] = "done" /\ above'[c] \subseteq b
    BY <1>1 DEF Closed
  <2>1. status[c] = "done" /\ above[c] \subseteq b
    BY <1>6 DEF Closed
  <2> QED BY <1>3, <1>5, <2>1
<1>7. bs \subseteq DerivedFrom(t)
      /\ (~Circular => Closed(bs) /\ Covers(t, Top.at, bs))
  BY <1>0, <1>1, <1>2 DEF BasesRight
<1>8. \A i \in DOMAIN stack' : \E j \in DOMAIN stack : stack'[i] = stack[j]
  <2>1. \A i \in DOMAIN stack' : i + 1 \in DOMAIN stack
    BY <1>2
  <2> QED BY <1>2, <2>1
<1>9. \A i \in DOMAIN stack' : stack'[i].bases \subseteq DerivedFrom(stack'[i].def)
  BY <1>1, <1>8 DEF BasesRight
<1>10. ~Circular => \A i \in DOMAIN stack' :
         /\ \A b : b = stack'[i].bases => Closed(b)'
         /\ Covers(stack'[i].def, stack'[i].at, stack'[i].bases)
  BY <1>1, <1>6, <1>8, BasesType DEF BasesRight
<1>11. ~Circular => \A i \in DOMAIN stack' : Closed(stack[i].bases)'
  BY <1>10 DEF Closed
<1>12. Done' = Done \cup {t}
  BY <1>1, <1>4, <1>5, ScenarioFacts, SameDerived DEF Done
<1>13. \A x \in Done : x # t
  BY <1>3 DEF Done
<1>14. ASSUME ~Circular, NEW x \in Done'
       PROVE  Covers(x, Len(scn.refs[x]) + 1, above'[x]) /\ Closed(above[x])'
  <2>1. CASE x = t
    <3>1. Covers(t, Len(scn.refs[t]) + 1, bs)
      <4>1. Len(scn.refs[t]) \in Nat
        BY <1>1, <1>2, ScenarioFacts
      <4> QED BY <1>1, <1>2, <1>7, <1>14, <4>1 DEF Covers
    <3>2. Closed(bs)'
      BY <1>2, <1>6, <1>7, <1>14
    <3> QED BY <1>5, <2>1, <3>1, <3>2 DEF Closed
  <2>2. CASE x # t
    <3>1. x \in Done /\ x \in Definition
      BY <1>1, <1>12, <2>2, ScenarioFacts DEF Done
    <3>2. Closed(above[x]) /\ Covers(x, Len(scn.refs[x]) + 1, above[x])
      BY <1>1, <1>14, <3>1 DEF BasesRight
    <3>3. PICK b \in SUBSET Definition : b = above[x]
      BY <1>1, <3>1 DEF Types
    <3>4. Closed(b)' /\ above'[x] = b
      BY <1>5, <1>6, <2>2, <3>1, <3>2, <3>3
    <3> QED BY <3>2, <3>3, <3>4 DEF Closed
  <2> QED BY <2>1, <2>2
<1>15. /\ \A x \in Definition : status'[x] # "done" \/ x \in scn.given => above'[x] = {}
       /\ \A x \in scn.given : status'[x] = "done"
       /\ \A x \in Definition \ scn.given :
            status'[x] = "done" => x \in Validated /\ above'[x] \subseteq DerivedFrom(x)
  <2>1. scn.given \subseteq Definition
    BY <1>1, ScenarioFacts
  <2> QED BY <1>1, <1>4, <1>5, <1>7, <2>1 DEF BasesRight
<1>16. Circular' <=> Circular
  BY <1>1 DEF Circular
<1>17. /\ \A x : DerivedFrom(x)' = DerivedFrom(x)
       /\ Validated' = Validated
       /\ \A x, n, b : Covers(x, n, b)' = Covers(x, n, b)
  BY <1>1, SameDerived
<1>18. ~Circular => \A x \in Done' : Covers(x, Len(scn.refs[x]) + 1, above[x])'
                                     /\ Closed(above[x])'
  BY <1>1, <1>14 DEF Covers, Known, Own
<1> QED BY <1>1, <1>9, <1>10, <1>11, <1>15, <1>16, <1>17, <1>18 DEF BasesRight

LEMMA StepDerInv == IInv /\ DerInv /\ [Next]_vars => DerInv'
<1> SUFFICES ASSUME IInv, DerInv, [Next]_vars PROVE DerInv'
  OBVIOUS
<1>0. Types
  BY DEF IInv
<1>1. CASE StartDone \/ StartCrash \/ Finish \/ Terminated \/ UNCHANGED vars
  <2>1. UNCHANGED <<scn, status, above, stack, errors>>
    BY <1>1 DEF StartDone, StartCrash, Finish, Terminated, vars
  <2> QED BY <2>1, SameBases DEF Circular
<1>2. CASE Start \/ FollowRaw
  <2>1. PICK d \in Definition : Open(d) /\ (Kind = "identity" => status[d] = "raw")
    <3>1. CASE Start
      BY <1>0, <3>1, TodoFacts DEF Start, LookedUp
    <3>2. CASE FollowRaw
      BY <1>0, <3>2, RefFacts DEF FollowRaw
    <3> QED BY <1>2, <3>1, <3>2
  <2>2. scn' = scn /\ above' = above
    BY <1>2 DEF Start, FollowRaw
  <2>3. CASE Rejected(d)
    <3>1. Report("MULTIPLE_BASES", d, 2) /\ UNCHANGED <<status, stack>>
      BY <2>1, <2>3 DEF Open
    <3>2. Circular => Circular'
      BY <1>0, <3>1, ReportFacts
    <3> QED BY <2>2, <3>1, <3>2, SameBases
  <2>4. CASE ~Rejected(d)
    <3>1. /\ errors' = errors /\ status' = [status EXCEPT ![d] = "processing"]
          /\ stack' = <<[def |-> d, at |-> 1, bases |-> {}]>> \o stack
      BY <2>1, <2>4 DEF Open
    <3>2. CASE Kind = "identity"
      BY <2>1, <2>2, <3>1, <3>2, OpenBases
    <3>3. CASE Kind # "identity"
      BY <2>2, <3>3, SameDerived DEF DerInv
    <3> QED BY <3>2, <3>3
  <2> QED BY <2>3, <2>4
<1>3. CASE FollowMissing
  <2>1. Following /\ Ref \notin Known /\ stack # <<>>
        /\ UNCHANGED <<scn, status, above>> /\ stack' = Advanced(Top.bases)
    BY <1>3 DEF FollowMissing, Following
  <2>2. Circular => Circular'
    BY <1>0, <1>3, <2>1, TopFacts, ReportFacts DEF FollowMissing
  <2> QED BY <2>1, <2>2, AdvanceBases
<1>4. CASE FollowDone
  BY <1>4, AdvanceBases DEF FollowDone, Circular
<1>5. CASE FollowCircular
  <2>1. Circular'
    BY <1>0, <1>5, RefFacts, ReportFacts DEF FollowCircular
  <2>2. CASE Kind = "identity"
    BY <1>5, <2>1, <2>2, AdvanceBases DEF FollowCircular
  <2>3. CASE Kind # "identity"
    BY <1>5, <2>3, SameDerived DEF DerInv, FollowCircular
  <2> QED BY <2>2, <2>3
<1>6. CASE Close
  BY <1>6, CloseBases
<1> QED BY <1>1, <1>2, <1>3, <1>4, <1>5, <1>6 DEF Next

(* The bases stored with an identity lead to exactly what it is derived    *)
(* from, although they are copied while others are still being validated.  *)
THEOREM DerivationsComplete == Spec => []DerivationComplete
<1>1. Init => DerInv
  <2> SUFFICES ASSUME Init, Kind = "identity" PROVE BasesRight
    BY DEF DerInv
  <2>1. Types
    BY InitIInv DEF IInv
  <2>2. /\ above = [d \in Definition |-> {}] /\ stack = <<>>
        /\ status = [d \in Definition |-> IF d \in scn.given THEN "done" ELSE "raw"]
    BY DEF Init
  <2>3. Done = {} /\ DOMAIN stack = {} /\ scn.given \subseteq Definition
    BY <2>1, <2>2, ScenarioFacts DEF Done
  <2> QED BY <2>2, <2>3 DEF BasesRight
<1>2. IInv /\ CircleDecided /\ DerInv => DerivationComplete
  <2> SUFFICES ASSUME IInv, CircleDecided, DerInv, phase = "done",
                      Kind = "identity", ~CircleIn(Validated), NEW d \in Validated
               PROVE  above[d] = DerivedFrom(d)
    BY DEF DerivationComplete
  <2>1. BasesRight /\ Types /\ d \in Definition /\ d \notin scn.given
    BY ScenarioFacts DEF DerInv, IInv
  <2>2. ~Circular
    <3>1. Followed = Validated
      BY DEF Followed, Validated
    <3> QED BY <3>1 DEF CircleDecided, Circular, Reported
  <2>3. Done = Validated
    BY <2>1, AllValidated DEF Done
  <2>4. above[d] \subseteq DerivedFrom(d)
    BY <2>1, <2>3 DEF BasesRight, Done
  <2>5. /\ above[d] \subseteq Known
        /\ RefersTo(d) \subseteq above[d]
        /\ \A c \in above[d] \cap Validated : RefersTo(c) \subseteq above[d]
    <3>1. above[d] \subseteq Known
      BY <2>4 DEF DerivedFrom
    <3>2. ASSUME NEW c \in Validated PROVE RefersTo(c) \subseteq above[c]
      <4>1. c \in Definition /\ RefersTo(c) =
              {scn.refs[c][j] : j \in 1..Len(scn.refs[c])} \cap Known
        BY <2>1, ScenarioFacts
      <4>2. Covers(c, Len(scn.refs[c]) + 1, above[c]) /\ Len(scn.refs[c]) \in Nat
        BY <2>1, <2>2, <2>3, <4>1, ScenarioFacts DEF BasesRight
      <4> QED BY <4>1, <4>2 DEF Covers
    <3>3. ASSUME NEW c \in above[d] \cap Validated PROVE above[c] \subseteq above[d]
      <4>1. c \notin scn.given /\ Closed(above[d])
        BY <2>1, <2>2, <2>3, ScenarioFacts DEF BasesRight
      <4> QED BY <4>1 DEF Closed
    <3> QED BY <3>1, <3>2, <3>3
  <2>6. DerivedFrom(d) \subseteq above[d]
    BY <2>5 DEF DerivedFrom
  <2> QED BY <2>4, <2>6
<1> QED BY <1>1, <1>2, InitIInv, StepIInv, StepDerInv, CirclesReported, PTL DEF Spec
=============================================================================
