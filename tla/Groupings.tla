----------------------------- MODULE Groupings -----------------------------
(***************************************************************************)
(* How a module's groupings are put together (src/yang.erl, mk_groupings   *)
(* ... mk_children).                                                       *)
(*                                                                         *)
(* mk_groupings sorts the groupings so that each comes after those it      *)
(* uses; if they depend on each other in a circle it takes them in reverse *)
(* map order.  add_grouping then collects the children of one: first its   *)
(* nested grouping is put together, then its own statements are gone       *)
(* through.  A `uses' there makes sure that the grouping used is added,    *)
(* and copies its children.  A `uses' inside the nested grouping cannot do *)
(* that: the groupings around it are a copy of the map, made when the loop *)
(* of mk_groupings0 came to the current top-level grouping.  What is added *)
(* from within another grouping sees its nested grouping, if that one has  *)
(* used something before.                                                  *)
(*                                                                         *)
(* Every grouping has one leaf of its own; what is followed is whose       *)
(* leaves a grouping ends up with.                                         *)
(***************************************************************************)
EXTENDS Integers, Sequences, FiniteSets, Functions, TopoSort

CONSTANTS
  Grouping,  \* names of top-level groupings
  Inner,     \* the name of a nested grouping, in whichever it is
  Dummy,     \* '$dummy' of mk_grouping_order
  Scenario   \* the modules to consider, see IsScenario

Ref == Grouping \cup {Inner}

(* own: the module's groupings, in map order.  given: those of submodules. *)
(* body: per own grouping, the groupings it uses, in the order of its      *)
(* statements, and the same for the grouping nested in it, if there is one.*)
Body == [uses : Seq(Ref), nested : Seq(Seq(Ref))]

IsScenario(s) ==
  /\ DOMAIN s = {"own", "given", "body"}
  /\ s.own \in Seq(Grouping) /\ IsInjective(s.own)
  /\ s.given \subseteq Grouping \ Range(s.own)
  /\ s.body \in [Range(s.own) -> Body]
  /\ \A g \in Range(s.own) : Len(s.body[g].nested) <= 1

ASSUME NamesAssumption == Inner \notin Grouping /\ Dummy \notin Ref

ASSUME ScenarioAssumption == \A s \in Scenario : IsScenario(s)

VARIABLES
  scn,     \* the scenario, never changed
  todo,    \* the names mk_grouping_order, later mk_groupings0, has left
  pairs,   \* the pairs to sort: what comes before what
  sorted,  \* the order so far
  all,     \* all names in the pairs
  status,  \* v_status of the entries of the map
  leaves,  \* the leaves of the entries: {} until they are done
  copy,    \* the copy of the map that nested groupings look into
  stack,   \* the groupings being added, innermost first
  errors,  \* the errors added to #yctx.errors, in order
  phase    \* "pairs", "sort", "running", "done"

sorting == <<pairs, sorted, all>>
vars == <<scn, sorting, todo, status, leaves, copy, stack, errors, phase>>

-----------------------------------------------------------------------------
Own == Range(scn.own)
Known == Own \cup scn.given

(* The call of add_grouping for a top-level grouping.  In part "nested" it *)
(* is inside the one for the grouping nested in it.                        *)
Frame ==
  [def : Grouping, part : {"nested", "body"}, at : Nat \ {0},
   leaves : SUBSET Grouping, inner : SUBSET Grouping]

Error ==
  [code : {"DEFINITION_NOT_FOUND", "CIRCULAR_DEPENDENCY", "DUPLICATE_DEFINITION"},
   def : Ref, part : {"nested", "body"}, at : Nat]

Report(code, d, part, at) ==
  errors' = Append(errors, [code |-> code, def |-> d, part |-> part, at |-> at])

Top == Head(stack)
Stmts(f) == IF f.part = "nested" THEN scn.body[f.def].nested[1] ELSE scn.body[f.def].uses
Used == Stmts(Top)[Top.at]

HasInner(g) == scn.body[g].nested # <<>>

(* mk_children_uses goes on with the grouping's own scope as the one that  *)
(* what it uses is added in.  So once it has found a first grouping, its   *)
(* nested grouping is seen by what its later `uses' add: in scope are the  *)
(* nested groupings of these calls, from the from'th of the stack on.      *)
InScope(from) ==
  {i \in from .. Len(stack) :
     /\ HasInner(stack[i].def)
     /\ \E j \in 1 .. stack[i].at - 1 : scn.body[stack[i].def].uses[j] \in Known \cup {Inner}}

(* The next `uses' of the current part, with these leaves copied.          *)
Advanced(ls) ==
  [stack EXCEPT ![1].at = @ + 1, ![1].leaves = @ \cup ls]

-----------------------------------------------------------------------------
Reversed(s) == [i \in DOMAIN s |-> s[Len(s) + 1 - i]]

Siblings(refs) == Chosen(refs, {i \in DOMAIN refs : refs[i] \in Own})

(* Fault: only the statements of the grouping itself are looked at.        *)
DepsOfBody(g) == Reversed(FirstOccurrences(Siblings(scn.body[g].uses)))

(* grouping_deps: the groupings of the map used in any statement of g, at  *)
(* whatever depth; the last one found first.                               *)
Deps(g) ==
  LET nested == IF HasInner(g) THEN scn.body[g].nested[1] ELSE <<>>
  IN  Reversed(FirstOccurrences(Siblings(nested \o scn.body[g].uses)))

PairsOf(g, deps) ==
  IF deps = <<>> THEN <<<<g, Dummy>>>> ELSE [i \in DOMAIN deps |-> <<deps[i], g>>]

(* mk_grouping_order puts the pairs of a grouping before those it has.     *)
CollectDeps ==
  /\ phase = "pairs" /\ todo # <<>>
  /\ \E deps \in {Deps(Head(todo))} : pairs' = PairsOf(Head(todo), deps) \o pairs
  /\ todo' = Tail(todo)
  /\ UNCHANGED <<scn, sorted, all, status, leaves, copy, stack, errors, phase>>

(* topo_sort, and topo_iterate.                                            *)
SortPairs ==
  /\ phase = "pairs" /\ todo = <<>>
  /\ all' = All(pairs) /\ phase' = "sort"
  /\ UNCHANGED <<scn, pairs, sorted, todo, status, leaves, copy, stack, errors>>

Round ==
  /\ phase = "sort" /\ pairs # <<>> /\ Taken(pairs) # <<>>
  /\ sorted' = sorted \o Taken(pairs) /\ pairs' = Left(pairs)
  /\ UNCHANGED <<scn, all, todo, status, leaves, copy, stack, errors, phase>>

(* With the order, topo_sort's or, if there is a cycle, the reverse one,   *)
(* mk_grouping_order returns.                                              *)
Ordered(order) ==
  /\ todo' = order /\ phase' = "running"
  /\ pairs' = <<>> /\ sorted' = <<>> /\ all' = <<>>
  /\ UNCHANGED <<scn, status, leaves, copy, stack, errors>>

Cycle ==
  /\ phase = "sort" /\ pairs # <<>> /\ Taken(pairs) = <<>>
  /\ Ordered(Reversed(scn.own))

Sorted ==
  /\ phase = "sort" /\ pairs = <<>>
  /\ \E names \in {sorted \o Subtract(all, sorted)} :
       \E order \in {LastOccurrences(names)} : Ordered(Subtract(order, <<Dummy>>))

-----------------------------------------------------------------------------
(* add_grouping for v_status undefined.                                    *)
Open(g) ==
  /\ status' = [status EXCEPT ![g] = "processing"]
  /\ stack' = <<[def |-> g, part |-> IF HasInner(g) THEN "nested" ELSE "body",
                 at |-> 1, leaves |-> {}, inner |-> {}]>> \o stack

(* mk_groupings0, the next name.                                           *)
Running == phase = "running" /\ stack = <<>> /\ todo # <<>>

Start ==
  /\ Running /\ status[Head(todo)] = "raw"
  /\ Open(Head(todo))
  /\ copy' = leaves
  /\ todo' = Tail(todo)
  /\ UNCHANGED <<scn, sorting, leaves, errors, phase>>

StartDone ==
  /\ Running /\ status[Head(todo)] = "done"
  /\ todo' = Tail(todo)
  /\ copy' = leaves
  /\ UNCHANGED <<scn, sorting, status, leaves, stack, errors, phase>>

(* mk_children, the next `uses'.                                           *)
Following ==
  phase = "running" /\ stack # <<>> /\ Top.at <= Len(Stmts(Top))

UsesMissing ==
  /\ Following /\ Used \notin Known
  /\ Used = Inner => ~HasInner(Top.def) /\ InScope(2) = {}
  /\ Report("DEFINITION_NOT_FOUND", Top.def, Top.part, Top.at)
  /\ stack' = Advanced({})
  /\ UNCHANGED <<scn, sorting, todo, status, leaves, copy, phase>>

(* The nested grouping, used by the grouping around it or by itself.       *)
UsesInner ==
  /\ Following /\ Used = Inner /\ HasInner(Top.def)
  /\ IF Top.part = "nested"
     THEN Report("CIRCULAR_DEPENDENCY", Inner, "body", 0) /\ stack' = Advanced({})
     ELSE stack' = Advanced(Top.inner) /\ UNCHANGED errors
  /\ UNCHANGED <<scn, sorting, todo, status, leaves, copy, phase>>

(* The nested grouping of the innermost call that has one in scope: this   *)
(* one was added from there.                                               *)
UsesOuter ==
  /\ Following /\ Used = Inner /\ ~HasInner(Top.def)
  /\ \E i \in InScope(2) :
       /\ \A j \in InScope(2) : i <= j
       /\ stack' = Advanced(stack[i].inner)
  /\ UNCHANGED <<scn, sorting, todo, status, leaves, copy, errors, phase>>

(* From inside the nested grouping: whatever the copy holds.               *)
UsesFromNested ==
  /\ Following /\ Used \in Known /\ Top.part = "nested"
  /\ stack' = Advanced(copy[Used])
  /\ UNCHANGED <<scn, sorting, todo, status, leaves, copy, errors, phase>>

(* The grouping used is added first.  Its nested grouping must not have    *)
(* the name of one in scope (mk_groupings0).                               *)
UsesRaw ==
  /\ Following /\ Used \in Known /\ Top.part = "body" /\ status[Used] = "raw"
  /\ Open(Used)
  /\ IF HasInner(Used) /\ InScope(1) # {}
     THEN Report("DUPLICATE_DEFINITION", Used, "nested", 0)
     ELSE UNCHANGED errors
  /\ UNCHANGED <<scn, sorting, todo, leaves, copy, phase>>

(* Fault: the children of the children are left out.                       *)
UsesDoneFlat ==
  /\ Following /\ Used \in Known /\ Top.part = "body" /\ status[Used] = "done"
  /\ stack' = Advanced({Used})
  /\ UNCHANGED <<scn, sorting, todo, status, leaves, copy, errors, phase>>

UsesDone ==
  /\ Following /\ Used \in Known /\ Top.part = "body" /\ status[Used] = "done"
  /\ stack' = Advanced(leaves[Used])
  /\ UNCHANGED <<scn, sorting, todo, status, leaves, copy, errors, phase>>

(* Fault: a circle is passed over.                                         *)
UsesCircularSilently ==
  /\ Following /\ Used \in Known /\ Top.part = "body"
  /\ status[Used] = "processing"
  /\ stack' = Advanced({})
  /\ UNCHANGED <<scn, sorting, todo, status, leaves, copy, errors, phase>>

(* The grouping used is being added and has no children yet.               *)
UsesCircular ==
  /\ Following /\ Used \in Known /\ Top.part = "body"
  /\ status[Used] = "processing"
  /\ Report("CIRCULAR_DEPENDENCY", Used, "body", 0)
  /\ stack' = Advanced({})
  /\ UNCHANGED <<scn, sorting, todo, status, leaves, copy, phase>>

Exhausted(part) ==
  /\ phase = "running" /\ stack # <<>>
  /\ Top.part = part /\ Top.at > Len(Stmts(Top))

(* The nested grouping is complete; mk_children starts on the statements.  *)
CloseNested ==
  /\ Exhausted("nested")
  /\ stack' = [stack EXCEPT
       ![1] = [@ EXCEPT !.part = "body", !.at = 1,
                        !.leaves = {}, !.inner = Top.leaves]]
  /\ UNCHANGED <<scn, sorting, todo, status, leaves, copy, errors, phase>>

(* Fault: the mark stays.                                                  *)
CloseMarked ==
  /\ Exhausted("body")
  /\ leaves' = [leaves EXCEPT ![Top.def] = {Top.def} \cup Top.leaves]
  /\ stack' = Tail(stack)
  /\ UNCHANGED <<scn, sorting, todo, status, copy, errors, phase>>

Close ==
  /\ Exhausted("body")
  /\ status' = [status EXCEPT ![Top.def] = "done"]
  /\ leaves' = [leaves EXCEPT ![Top.def] = {Top.def} \cup Top.leaves]
  /\ stack' = Tail(stack)
  /\ UNCHANGED <<scn, sorting, todo, copy, errors, phase>>

Finish ==
  /\ phase = "running" /\ stack = <<>> /\ todo = <<>>
  /\ phase' = "done"
  /\ UNCHANGED <<scn, sorting, todo, status, leaves, copy, stack, errors>>

-----------------------------------------------------------------------------
Init ==
  /\ scn \in Scenario
  /\ todo = scn.own /\ pairs = <<>> /\ sorted = <<>> /\ all = <<>>
  /\ status = [g \in Grouping |-> IF g \in scn.given THEN "done" ELSE "raw"]
  /\ leaves = [g \in Grouping |-> {g} \cap scn.given]
  /\ copy = leaves
  /\ stack = <<>>
  /\ errors = <<>>
  /\ phase = "pairs"

Terminated == phase = "done" /\ UNCHANGED vars

Next ==
  \/ CollectDeps \/ SortPairs \/ Round \/ Cycle \/ Sorted
  \/ Start \/ StartDone
  \/ UsesMissing \/ UsesInner \/ UsesOuter \/ UsesFromNested
  \/ UsesRaw \/ UsesDone \/ UsesCircular
  \/ CloseNested \/ Close \/ Finish \/ Terminated

(* A sequential program that is run to its end.                            *)
Spec == Init /\ [][Next]_vars /\ WF_vars(Next)

-----------------------------------------------------------------------------
(* What the lists to sort hold.                                            *)
Listed == Own \cup {Dummy}

(* The type invariant.                                                     *)
TypeOK ==
  /\ scn \in Scenario /\ phase \in {"pairs", "sort", "running", "done"}
  /\ todo \in Seq(Own) /\ pairs \in Seq(Listed \X Listed)
  /\ sorted \in Seq(Listed) /\ all \in Seq(Listed)
  /\ status \in [Grouping -> {"raw", "processing", "done"}]
  /\ leaves \in [Grouping -> SUBSET Grouping] /\ copy \in [Grouping -> SUBSET Grouping]
  /\ stack \in Seq(Frame) /\ errors \in Seq(Error)

(* The groupings used by the statements of g, with those of the nested one *)
(* if any (`all') or if g uses it (`needs').                               *)
BodyUses(g) == Range(scn.body[g].uses) \cap Own
NestedUses(g) == IF HasInner(g) THEN Range(scn.body[g].nested[1]) ELSE {}
AllUses(g) == BodyUses(g) \cup (NestedUses(g) \cap Own)
Needs(g) ==
  (Range(scn.body[g].uses) \cap Known) \cup
    (IF Inner \in Range(scn.body[g].uses) THEN NestedUses(g) \cap Known ELSE {})

Circle(edges) ==
  \E S \in (SUBSET Own) \ {{}} : \A g \in S : edges[g] \cap S # {}
InAnyStatement == [g \in Own |-> AllUses(g)]
InOwnStatements == [g \in Own |-> BodyUses(g)]

(* "so that all groupings are handled when they are used": without a       *)
(* circle the order saves the recursion, and what a nested grouping finds  *)
(* in its copy of the map is complete.                                     *)
HandledWhenUsed ==
  ~Circle(InAnyStatement) /\ stack # <<>> =>
    /\ Len(stack) = 1
    /\ \A u \in AllUses(Top.def) : status[u] = "done" /\ copy[u] = leaves[u]

(* Without a circle each grouping ends up with its own leaves and those of *)
(* every grouping it needs, directly or not.                               *)
ExpandedCompletely ==
  phase = "done" /\ ~Circle(InAnyStatement) =>
    \A g \in Own :
      leaves[g] =
        {l \in Known :
           \A S \in SUBSET Known :
             g \in S /\ (\A h \in S \cap Own : Needs(h) \subseteq S) => l \in S}

Reported(code) == {errors[i] : i \in {j \in DOMAIN errors : errors[j].code = code}}

(* A circle of groupings that use each other in their own statements is    *)
(* reported whatever the order, and so is a nested grouping that uses      *)
(* itself; nothing else is reported as one.                                *)
DirectCircleReported ==
  phase = "done" =>
    (Reported("CIRCULAR_DEPENDENCY") # {}
       <=> \/ Circle(InOwnStatements)
           \/ \E g \in Own : Inner \in NestedUses(g))

(* Circle or not, every grouping is put together and the loop ends.        *)
Termination == <>(phase = "done" /\ \A g \in Own : status[g] = "done")
=============================================================================
