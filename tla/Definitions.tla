---------------------------- MODULE Definitions ----------------------------
(***************************************************************************)
(* How a module's identities, features and typedefs are validated          *)
(* (src/yang.erl, mk_module_maps ... mk_type).                             *)
(*                                                                         *)
(* mk_module_maps puts the definitions of one kind in a map, unvalidated,  *)
(* next to those of the submodules, which are validated already.  Then it  *)
(* goes through its own ones in map order; validating one first validates  *)
(* those it refers to, and v_status is what tells a definition being       *)
(* worked on from one that is done.                                        *)
(*                                                                         *)
(* The recursion add_identity/chk_base, add_feature/chk_if_feature or      *)
(* add_typedef/mk_type is the variable `stack'.  The three kinds follow    *)
(* one scheme and differ in four places, each marked by a test of Kind.    *)
(* References are to definitions of the module, its submodules or modules  *)
(* whose import succeeded.                                                 *)
(***************************************************************************)
EXTENDS Integers, Sequences, FiniteSets, Functions

CONSTANTS
  Definition,  \* names of definitions
  Scenario     \* the modules to consider, see ScenarioType

(* own: the module's definitions of the kind, in map order.  given: those  *)
(* of submodules and imported modules.  refs: the base, if-feature or type *)
(* arguments of a definition.  v11: the module has yang-version 1.1.       *)
ScenarioType ==
  [kind : {"identity", "feature", "typedef"}, v11 : BOOLEAN,
   own : Seq(Definition), given : SUBSET Definition,
   refs : [Definition -> Seq(Definition)]]

ASSUME ScenarioAssumption ==
  Scenario \subseteq ScenarioType /\ \A s \in Scenario : IsInjective(s.own)

VARIABLES
  scn,     \* the scenario, never changed
  todo,    \* what the iterator of mk_..._map0 has left
  status,  \* v_status of the entries of the result map
  above,   \* per entry, the definitions its bases lead to
  stack,   \* the definitions being validated, innermost first
  lost,    \* add_identity has returned the context in place of the map
  errors,  \* the errors added to #yctx.errors, in order
  phase    \* "running", "done", or "crashed" when yanger ends in an error:...

vars == <<scn, todo, status, above, stack, lost, errors, phase>>

-----------------------------------------------------------------------------
Kind == scn.kind
Own == Range(scn.own)
Known == Own \cup scn.given

(* bases is what chk_base has collected: the base identities as they are   *)
(* in the map at that moment, hence with their own bases; only which       *)
(* definitions they lead to matters.                                       *)
Frame == [def : Definition, at : Nat \ {0}, bases : SUBSET Definition]

Error ==
  [code : {"DUPLICATE_DEFINITION", "DEFINITION_NOT_FOUND",
           "CIRCULAR_DEPENDENCY", "MULTIPLE_BASES"},
   def : Definition, at : Nat]

Top == Head(stack)
Ref == scn.refs[Top.def][Top.at]

Report(code, d, at) ==
  errors' = Append(errors, [code |-> code, def |-> d, at |-> at])

(* The statement after the current one, with one more base.                *)
Advanced(bs) ==
  [stack EXCEPT ![1] = [def |-> Top.def, at |-> Top.at + 1, bases |-> bs]]

(* The reference is taken as the map has it now.                           *)
WithRef == Top.bases \cup {Ref} \cup above[Ref]

-----------------------------------------------------------------------------
(* Fault: the yang-version is not looked at.                              *)
RejectedAlways(d) == Kind = "identity" /\ Len(scn.refs[d]) >= 2

(* A second base in a YANG 1 module.                                       *)
Rejected(d) == Kind = "identity" /\ ~scn.v11 /\ Len(scn.refs[d]) >= 2

(* The clause for v_status undefined of add_identity, add_feature and      *)
(* add_typedef.  Where add_identity rejects the identity it returns the    *)
(* context where its callers expect the map: the next lookup fails, which  *)
(* is at once in chk_base and for the next definition in the loop.         *)
Open(d) ==
  IF Rejected(d)
  THEN /\ Report("MULTIPLE_BASES", d, 2)
       /\ lost' = TRUE
       /\ phase' = IF stack = <<>> THEN phase ELSE "crashed"
       /\ UNCHANGED <<status, stack>>
  ELSE /\ status' = [status EXCEPT ![d] = "processing"]
       /\ stack' = <<[def |-> d, at |-> 1, bases |-> {}]>> \o stack
       /\ UNCHANGED <<lost, errors, phase>>

(* mk_identities_map0, mk_features_map0, mk_typedefs0: the next definition *)
(* is looked up in the result map, except for a feature, which is taken    *)
(* from the map of unvalidated ones.                                       *)
LookedUp(d) == IF Kind = "feature" THEN "raw" ELSE status[d]

Running == phase = "running" /\ stack = <<>> /\ todo # <<>>

StartCrash ==
  /\ Running /\ lost
  /\ phase' = "crashed"
  /\ UNCHANGED <<scn, todo, status, above, stack, lost, errors>>

StartDone ==
  /\ Running /\ ~lost /\ LookedUp(Head(todo)) = "done"
  /\ todo' = Tail(todo)
  /\ UNCHANGED <<scn, status, above, stack, lost, errors, phase>>

Start ==
  /\ Running /\ ~lost /\ LookedUp(Head(todo)) = "raw"
  /\ Open(Head(todo))
  /\ todo' = Tail(todo)
  /\ UNCHANGED <<scn, above>>

-----------------------------------------------------------------------------
(* chk_base, chk_if_feature, mk_type: one reference of the innermost       *)
(* definition.  After add_... has returned, the reference is looked up     *)
(* once more; that is FollowDone.                                          *)
Following ==
  /\ phase = "running" /\ stack # <<>>
  /\ Top.at <= Len(scn.refs[Top.def])

FollowMissing ==
  /\ Following /\ Ref \notin Known
  /\ Report("DEFINITION_NOT_FOUND", Top.def, Top.at)
  /\ stack' = Advanced(Top.bases)
  /\ UNCHANGED <<scn, todo, status, above, lost, phase>>

FollowRaw ==
  /\ Following /\ Ref \in Known /\ status[Ref] = "raw"
  /\ Open(Ref)
  /\ UNCHANGED <<scn, todo, above>>

(* Fault: the reference is not passed.                                     *)
FollowDoneAgain ==
  /\ Following /\ Ref \in Known /\ status[Ref] = "done"
  /\ stack' = [stack EXCEPT ![1].bases = WithRef]
  /\ UNCHANGED <<scn, todo, status, above, lost, errors, phase>>

FollowDone ==
  /\ Following /\ Ref \in Known /\ status[Ref] = "done"
  /\ stack' = Advanced(WithRef)
  /\ UNCHANGED <<scn, todo, status, above, lost, errors, phase>>

(* The reference closes a circle.  An identity keeps it as a base without  *)
(* bases; the type of a typedef that is being worked on is undefined, and  *)
(* yang_types:mk_type_spec has no clause for that.                         *)
FollowCircular ==
  /\ Following /\ Ref \in Known /\ status[Ref] = "processing"
  /\ Report("CIRCULAR_DEPENDENCY", Ref, 0)
  /\ IF Kind = "typedef"
     THEN phase' = "crashed" /\ UNCHANGED stack
     ELSE stack' = Advanced(WithRef) /\ UNCHANGED phase
  /\ UNCHANGED <<scn, todo, status, above, lost>>

(* Faults: only the direct bases are kept; the mark stays.                 *)
CloseDirect ==
  /\ phase = "running" /\ stack # <<>>
  /\ Top.at > Len(scn.refs[Top.def])
  /\ status' = [status EXCEPT ![Top.def] = "done"]
  /\ above' = [above EXCEPT ![Top.def] = Range(scn.refs[Top.def]) \cap Known]
  /\ stack' = Tail(stack)
  /\ UNCHANGED <<scn, todo, lost, errors, phase>>

CloseMarked ==
  /\ phase = "running" /\ stack # <<>>
  /\ Top.at > Len(scn.refs[Top.def])
  /\ above' = [above EXCEPT ![Top.def] = Top.bases]
  /\ stack' = Tail(stack)
  /\ UNCHANGED <<scn, todo, status, lost, errors, phase>>

(* All references are followed: the definition goes back into the map.     *)
Close ==
  /\ phase = "running" /\ stack # <<>>
  /\ Top.at > Len(scn.refs[Top.def])
  /\ status' = [status EXCEPT ![Top.def] = "done"]
  /\ above' = [above EXCEPT ![Top.def] = Top.bases]
  /\ stack' = Tail(stack)
  /\ UNCHANGED <<scn, todo, lost, errors, phase>>

Finish ==
  /\ phase = "running" /\ stack = <<>> /\ todo = <<>>
  /\ phase' = "done"
  /\ UNCHANGED <<scn, todo, status, above, stack, lost, errors>>

-----------------------------------------------------------------------------
(* add_from_submodules: where a name is taken, the submodule's definition  *)
(* stays in the map and an error is reported, in the order of the map.     *)
Clashes == Own \cap scn.given

Init ==
  /\ scn \in Scenario
  /\ todo = scn.own
  /\ status = [d \in Definition |-> IF d \in scn.given THEN "done" ELSE "raw"]
  /\ above = [d \in Definition |-> {}]
  /\ stack = <<>>
  /\ lost = FALSE
  /\ \E s \in [1..Cardinality(Clashes) -> Clashes] :
       /\ IsInjective(s)
       /\ errors = [i \in DOMAIN s |->
                      [code |-> "DUPLICATE_DEFINITION", def |-> s[i], at |-> 0]]
  /\ phase = "running"

Terminated == phase # "running" /\ UNCHANGED vars

Next ==
  \/ StartCrash \/ StartDone \/ Start
  \/ FollowMissing \/ FollowRaw \/ FollowDone \/ FollowCircular
  \/ Close \/ Finish \/ Terminated

(* A sequential program that is run to its end.                            *)
Spec == Init /\ [][Next]_vars /\ WF_vars(Next)

-----------------------------------------------------------------------------
Types ==
  /\ scn \in ScenarioType
  /\ todo \in Seq(Definition)
  /\ status \in [Definition -> {"raw", "processing", "done"}]
  /\ above \in [Definition -> SUBSET Definition]
  /\ stack \in Seq(Frame)
  /\ lost \in BOOLEAN
  /\ errors \in Seq(Error)
  /\ phase \in {"running", "done", "crashed"}

(* The definitions marked as being worked on are those on the stack, each  *)
(* once.                                                                   *)
MarkIsStack ==
  /\ \A d \in Definition :
       status[d] = "processing" <=> \E i \in DOMAIN stack : stack[i].def = d
  /\ \A i, j \in DOMAIN stack : stack[i].def = stack[j].def => i = j

(* Types of the variables, and what v_status means.                        *)
TypeOK == Types /\ MarkIsStack

Reported(code) == {errors[i] : i \in {j \in DOMAIN errors : errors[j].code = code}}

(* The module's definitions whose references are followed, and to what.    *)
(* Where a submodule has a definition of the same name, that one is in the *)
(* map, and only a feature's references are followed nevertheless.         *)
Followed == {d \in Own : ~Rejected(d) /\ (d \in scn.given => Kind = "feature")}
Validated == Followed \ scn.given
RefersTo(d) == Range(scn.refs[d]) \cap Known
CircleIn(T) ==
  \E S \in (SUBSET T) \ {{}} : \A d \in S : RefersTo(d) \cap S # {}

(* A circular definition is reported when there is one, in whichever order *)
(* the definitions are reached, and is not reported without one.           *)
CircleDecided ==
  phase = "done" =>
    /\ CircleIn(Validated) => Reported("CIRCULAR_DEPENDENCY") # {}
    /\ Reported("CIRCULAR_DEPENDENCY") # {} => CircleIn(Followed)

(* What d is derived from, directly or not.                                *)
DerivedFrom(d) ==
  {b \in Known :
     \A S \in SUBSET Known :
       /\ RefersTo(d) \subseteq S
       /\ \A c \in S \cap Validated : RefersTo(c) \subseteq S
       => b \in S}

(* The bases stored with an identity are copies made while the others were *)
(* still being validated; without a circle they lead to exactly what the   *)
(* identity is derived from, which is all is_identity_derived looks at.    *)
DerivationComplete ==
  phase = "done" /\ Kind = "identity" /\ ~CircleIn(Validated) =>
    \A d \in Validated : above[d] = DerivedFrom(d)

(* Validation crashes on circular typedefs, and on a YANG 1 identity with  *)
(* several bases, and on nothing else.                                     *)
CrashExplained ==
  phase = "crashed" =>
    \/ Kind = "typedef" /\ CircleIn(Validated)
    \/ /\ Kind = "identity" /\ ~scn.v11
       /\ \E d \in Own : Len(scn.refs[d]) >= 2

(* Validation comes to an end, circular definitions or not.                *)
Termination == <>(phase # "running")

(* The typedefs of the module, and what each rests on so far.              *)
Typedefs == IF Kind = "typedef" THEN Own \ scn.given ELSE {}

Status ==
  [d \in Definition |->
     IF d \notin Typedefs \/ status[d] = "raw" THEN "new"
     ELSE IF status[d] = "processing" THEN "open" ELSE "closed"]

DependsOn ==
  [d \in Definition |->
     IF Status[d] = "closed" THEN RefersTo(d) \cap Typedefs
     ELSE {b \in Typedefs :
             \E i \in DOMAIN stack :
               /\ stack[i].def = d
               /\ \E j \in 1..(stack[i].at - 1) : scn.refs[d][j] = b}]

DF == INSTANCE DepthFirst WITH Node <- Definition, status <- Status, deps <- DependsOn

(* A typedef only ever rests on types that are complete.                   *)
RefinesDepthFirst == DF!Spec
=============================================================================
