------------------------------ MODULE Augments ------------------------------
(***************************************************************************)
(* The augment statements of a module and of its submodule, where they     *)
(* augment nodes of the module itself (src/yang.erl, augment_children and  *)
(* what parse_body does around it).                                        *)
(*                                                                         *)
(* The body of the submodule is handled first, then that of the module,    *)
(* which takes over the nodes of the submodule and applies its augments    *)
(* once more.  Augments are applied one by one and may refer to nodes that *)
(* a later one adds.  Where a node of the target path is not found a       *)
(* placeholder (kind '__tmp_augment__', here "tmp") takes   *)
(* its place and is noted in UndefAugNodes; the augment that adds the node *)
(* replaces it, with what has been put below it, and runs the hooks that   *)
(* were put off.  In a choice whatever is not a case gets a case around    *)
(* it.                                                                     *)
(*                                                                         *)
(* A tree is a function on the paths of its nodes; the order of siblings   *)
(* is left out.  A statement is known by the augment it is in.             *)
(***************************************************************************)
EXTENDS Integers, Sequences, FiniteSets, SequencesExt

CONSTANTS
  Name,     \* names of schema nodes
  Scenario  \* the modules to consider, see IsScenario

Kind == {"container", "choice", "case", "leaf"}
Path == Seq(Name) \ {<<>>}

Kinds(tree) ==
  /\ IsFiniteSet(DOMAIN tree) /\ DOMAIN tree \subseteq Path
  /\ \A p \in DOMAIN tree :
       /\ tree[p] \in Kind
       /\ Front(p) = <<>> \/ Front(p) \in DOMAIN tree

(* What mk_children makes of substatements: a leaf has no children, those  *)
(* of a choice are cases, and cases are nowhere else but at the top.       *)
WellFormed(tree) ==
  /\ Kinds(tree)
  /\ \A p \in DOMAIN tree : Len(p) > 1 =>
       /\ tree[Front(p)] # "leaf"
       /\ tree[Front(p)] = "choice" <=> tree[p] = "case"

(* inner: the nodes of the submodule, own: those of the module.  augment:  *)
(* the augment statements, the first sub of them in the submodule.  A      *)
(* module without a submodule has an empty one.  The submodule does not    *)
(* refer to nodes of the module: it would report them missing and leave    *)
(* the module with two children of one name.                               *)
IsScenario(s) ==
  /\ WellFormed(s.inner) /\ WellFormed(s.own)
  /\ \A n \in Name : <<n>> \in DOMAIN s.inner =>
       <<n>> \notin DOMAIN s.own /\ s.inner[<<n>>] # "case"
  /\ \A n \in Name : <<n>> \in DOMAIN s.own => s.own[<<n>>] # "case"
  /\ \A i \in DOMAIN s.augment :
       s.augment[i].target \in Path /\ WellFormed(s.augment[i].content)
  /\ s.sub \in 0..Len(s.augment)
  /\ \A i \in 1..s.sub : <<s.augment[i].target[1]>> \notin DOMAIN s.own

ASSUME ScenarioAssumption == \A s \in Scenario : IsScenario(s)

VARIABLES
  scn,     \* the scenario, never changed
  tree,    \* #module.children
  undef,   \* UndefAugNodes, the names by the position of the augment
  errors,  \* #yctx.errors
  next,    \* the augment to be applied next
  phase    \* whose body is handled: "submodule", "module", or "done"

vars == <<scn, tree, undef, errors, next, phase>>

(* by: the augment whose position is in the node's stmt, 0 for the         *)
(* module's own.  wrapper: made by mk_case_from_shorthand.  hooks: how     *)
(* often run_mk_sn_hooks ran in mode final, not counted for wrappers.      *)
Node(kind, by) == [kind |-> kind, by |-> by, hooks |-> 0, wrapper |-> FALSE]

(* by: the augment that the error is about; for names that clash, which    *)
(* are reported at one of the two statements, it is left out (0).          *)
Err(code, name, by) == [code |-> code, name |-> name, by |-> by]

OwnNodes(own) == [p \in DOMAIN own |-> [Node(own[p], 0) EXCEPT !.hooks = 1]]

-----------------------------------------------------------------------------
(* Trees of nodes.                                                         *)
IsTmp(T, p) == p \in DOMAIN T /\ T[p].kind = "tmp"
Heads(p) == {SubSeq(p, 1, n) : n \in 1..Len(p)}
Below(p, q) == IsStrictPrefix(p, q)

(* mk_case_from_shorthand for every choice: what is not a case moves down  *)
(* into a case of its name.                                                *)
NeedsCase(T, p) ==
  Len(p) > 1 /\ T[Front(p)].kind = "choice" /\ T[p].kind # "case"

Moved(T, p) ==
  FlattenSeq([n \in 1..Len(p) |->
    IF NeedsCase(T, SubSeq(p, 1, n)) THEN <<p[n], p[n]>> ELSE <<p[n]>>])

Cased(T) ==
  LET new == {p \in DOMAIN T : NeedsCase(T, p)}
      cases == [c \in {Front(Moved(T, p)) : p \in new} |->
                  LET p == CHOOSE p \in new : Front(Moved(T, p)) = c
                  IN  [Node("case", T[p].by) EXCEPT !.wrapper = TRUE]]
      moved == [q \in {Moved(T, p) : p \in DOMAIN T} |->
                  T[CHOOSE p \in DOMAIN T : Moved(T, p) = q]]
  IN  IF new = {} THEN T ELSE cases @@ moved

(* The nodes of the target path that are not there.                        *)
Missing(T, p) == {q \in Heads(p) : q \notin DOMAIN T}

(* augment_children0 adds a placeholder for each of them.                  *)
Extended(T, i) ==
  [p \in Missing(T, scn.augment[i].target) |-> Node("tmp", i)] @@ T

-----------------------------------------------------------------------------
(* insert_children: the content of augment i goes below its target in T,   *)
(* which has it.                                                           *)
Content(i) == scn.augment[i].content
At(i, r) == scn.augment[i].target \o r

(* Nodes that take the place of a placeholder, and their parents too.      *)
Replacing(T, i) ==
  {r \in DOMAIN Content(i) : \A s \in Heads(r) : IsTmp(T, At(i, s))}

(* The others that are tried, at the top or in one of these.               *)
Tried(T, i) ==
  {r \in DOMAIN Content(i) \ Replacing(T, i) :
     Len(r) = 1 \/ Front(r) \in Replacing(T, i)}

(* Fault: no check of the kinds.                                           *)
AnyKind(T, i, r) == FALSE

(* A leaf has no children, a case belongs in a choice, no choice in one.   *)
(* Only the target is looked at.                                           *)
BadKind(T, i, r) ==
  LET parent == T[scn.augment[i].target].kind
  IN  /\ Len(r) = 1
      /\ \/ parent = "leaf"
         \/ Content(i)[r] = "case" /\ parent \notin {"choice", "tmp"}
         \/ Content(i)[r] = "choice" /\ parent = "choice"

Duplicate(T, i, r) == At(i, r) \in DOMAIN T

Adding(T, i) ==
  {r \in DOMAIN Content(i) :
     \E s \in Heads(r) \cap Tried(T, i) : ~Duplicate(T, i, s) /\ ~BadKind(T, i, s)}

(* A leaf takes the place of the placeholder and of all that is below it.  *)
Lost(T, i) ==
  {p \in DOMAIN T :
     \E r \in Replacing(T, i) : Content(i)[r] = "leaf" /\ Below(At(i, r), p)}

(* Fault: what is below a placeholder goes with it.                        *)
InsertedAlone(T, i) ==
  LET placed == [p \in {At(i, r) : r \in Replacing(T, i) \cup Adding(T, i)} |->
                   Node(Content(i)[SubSeq(p, Len(At(i, <<>>)) + 1, Len(p))], i)]
  IN  [p \in {q \in DOMAIN T \ Lost(T, i) :
                \A r \in Replacing(T, i) : ~Below(At(i, r), q)} \cup DOMAIN placed |->
         IF p \in DOMAIN placed THEN placed[p] ELSE T[p]]

Inserted(T, i) ==
  LET placed == [p \in {At(i, r) : r \in Replacing(T, i) \cup Adding(T, i)} |->
                   Node(Content(i)[SubSeq(p, Len(At(i, <<>>)) + 1, Len(p))], i)]
  IN  [p \in (DOMAIN T \ Lost(T, i)) \cup DOMAIN placed |->
         IF p \in DOMAIN placed THEN placed[p] ELSE T[p]]

(* Fault: hooks are run although the target hangs on a placeholder.        *)
AlwaysFinal(T, i) == TRUE

(* Hooks are run on all that hangs on the new nodes and not on another     *)
(* placeholder, unless the target itself hangs on one.  A leaf in place of *)
(* a placeholder is left out.                                              *)
IsFinal(T, i) == \A q \in Heads(scn.augment[i].target) : ~IsTmp(T, q)

Hooked(T, N, i) ==
  LET tops == {At(i, r) : r \in {s \in DOMAIN Content(i) :
                  /\ Len(s) = 1
                  /\ \/ s \in Adding(T, i)
                     \/ s \in Replacing(T, i) /\ Content(i)[s] # "leaf"}}
      run == {p \in DOMAIN N : \E t \in tops : IsPrefix(t, p) /\
                \A q \in Heads(p) : IsPrefix(t, q) => ~IsTmp(N, q)}
  IN  IF IsFinal(T, i)
      THEN [p \in DOMAIN N |->
              IF p \in run THEN [N[p] EXCEPT !.hooks = @ + 1] ELSE N[p]]
      ELSE N

(* Fault: it does not matter where the node there comes from.              *)
NeverSame(T, i, r) == FALSE

(* The node that is there has the position of the statement itself.        *)
SameStatement(T, i, r) == T[At(i, r)].by = i

InsertErrors(T, i) ==
  {Err("BAD_AUGMENT_NODE_TYPE", Last(r), T[At(i, r)].by) :
     r \in {s \in Replacing(T, i) : Content(i)[s] = "leaf"}}
  \cup
  {Err("DUPLICATE_SCHEMA_NODE", Last(r), 0) :
     r \in {s \in Tried(T, i) : Duplicate(T, i, s) /\ ~SameStatement(T, i, s)}}
  \cup
  {Err("BAD_AUGMENT_NODE_TYPE2", Last(r), i) :
     r \in {s \in Tried(T, i) : ~Duplicate(T, i, s) /\ BadKind(T, i, s)}}

(* Each placeholder replaced takes the entry noted last for its position   *)
(* with it (keydelete).                                                    *)
Undefined(T, i, j) ==
  LET n == Cardinality({r \in Replacing(T, i) : T[At(i, r)].by = j})
  IN  SubSeq(undef[j], n + 1, Len(undef[j]))

-----------------------------------------------------------------------------
(* augment_children for one augment.                                       *)
LastAugment == IF phase = "submodule" THEN scn.sub ELSE Len(scn.augment)

ApplyAugment ==
  /\ phase # "done" /\ next <= LastAugment
  /\ LET i == next
         target == scn.augment[i].target
         lacking == Missing(tree, target)
         T == Extended(tree, i)
     IN  /\ tree' = Cased(Hooked(T, Inserted(T, i), i))
         /\ undef' = [j \in DOMAIN undef |->
              IF j = i /\ lacking # {}
              THEN Reverse(SubSeq(target, Len(target) - Cardinality(lacking) + 1,
                                  Len(target))) \o undef[j]
              ELSE Undefined(T, i, j)]
         /\ errors' = errors \cup InsertErrors(T, i)
  /\ next' = next + 1
  /\ UNCHANGED <<scn, phase>>

(* v_unique_names: nodes in the cases of a choice share the names of the   *)
(* nodes beside the choice.                                                *)
Transparent(T, p) ==
  \/ T[p].kind = "choice"
  \/ T[p].kind = "case" /\ Len(p) > 1 /\ T[Front(p)].kind = "choice"

Level(T, p) ==
  IF T[p].kind = "case" THEN Front(p)
  ELSE SubSeq(p, 1, Max({n \in 0..(Len(p) - 1) :
                           n = 0 \/ ~Transparent(T, SubSeq(p, 1, n))}))

Clash(T, p, q) == p # q /\ Last(p) = Last(q) /\ Level(T, p) = Level(T, q)

(* Of two such nodes the second is reported, unless it is a placeholder.   *)
NameErrors ==
  LET Named(p) == {q \in DOMAIN tree : Clash(tree, p, q)}
      real == {p \in DOMAIN tree : ~IsTmp(tree, p)}
      report(S) == {Err("DUPLICATE_SCHEMA_NODE", Last(p), 0) : p \in S}
      certain == report({p \in real : Named(p) \cap real # {}})
      possible == report({p \in real : Named(p) # {}})
  IN  {certain \cup S : S \in SUBSET possible}

(* report_undef_augment_nodes.                                             *)
UndefinedErrors ==
  UNION {{Err("NODE_NOT_FOUND", n, j) : n \in ToSet(undef[j])} : j \in DOMAIN undef}

(* The end of either body.                                                 *)
Report ==
  /\ next > LastAugment
  /\ \E names \in NameErrors : errors' = errors \cup UndefinedErrors \cup names
  /\ UNCHANGED scn

NoneUndefined == [j \in DOMAIN scn.augment |-> <<>>]

(* The module starts with what the submodule has made,                     *)
(* get_children_from_submodules.                                           *)
EndSubmodule ==
  /\ phase = "submodule" /\ Report
  /\ phase' = "module"
  /\ tree' = tree @@ OwnNodes(scn.own)
  /\ undef' = NoneUndefined
  /\ next' = 1

EndModule ==
  /\ phase = "module" /\ Report
  /\ phase' = "done"
  /\ UNCHANGED <<tree, undef, next>>

-----------------------------------------------------------------------------
Init ==
  /\ scn \in Scenario
  /\ tree = OwnNodes(scn.inner)
  /\ undef = NoneUndefined
  /\ errors = {}
  /\ next = 1
  /\ phase = "submodule"

Terminated == phase = "done" /\ UNCHANGED vars

Next == ApplyAugment \/ EndSubmodule \/ EndModule \/ Terminated

Spec == Init /\ [][Next]_vars

-----------------------------------------------------------------------------
(* The reference: all nodes that the statements add, whatever their order. *)
(* A node is a triple of its path, its kind and the augment it is in.      *)
KindAt(K, p) == (CHOOSE x \in K : x[1] = p)[2]
Paths(K) == {x[1] : x \in K}

Adds(K, i) ==
  LET a == scn.augment[i]
      case(r) == KindAt(K, a.target) = "choice" /\ a.content[<<r[1]>>] # "case"
  IN  IF a.target \notin Paths(K) THEN {}
      ELSE {<<At(i, IF case(r) THEN <<r[1]>> \o r ELSE r), a.content[r], i>> :
              r \in DOMAIN a.content}
           \cup {<<At(i, <<r[1]>>), "case", i>> : r \in {s \in DOMAIN a.content : case(s)}}

ClosureOf(own, I) ==
  LET C[n \in 0..Len(scn.augment)] ==
        IF n = 0 THEN {<<p, own[p], 0>> : p \in DOMAIN own}
        ELSE C[n - 1] \cup UNION {Adds(C[n - 1], i) : i \in I}
  IN  C[Len(scn.augment)]

Closure == ClosureOf(scn.inner @@ scn.own, DOMAIN scn.augment)
InnerClosure == ClosureOf(scn.inner, 1..scn.sub)

(* Every target is there, for an augment of the submodule already in that, *)
(* every node fits where it is put, and no two statements, nor two cases   *)
(* of a choice, add a node of the same name.                               *)
Reached ==
  \A i \in DOMAIN scn.augment :
    scn.augment[i].target \in Paths(IF i <= scn.sub THEN InnerClosure ELSE Closure)

Fits ==
  \A i \in DOMAIN scn.augment : \A r \in DOMAIN Content(i) : Len(r) = 1 =>
    LET parent == KindAt(Closure, scn.augment[i].target)
    IN  /\ parent # "leaf"
        /\ Content(i)[r] = "case" => parent = "choice"
        /\ Content(i)[r] = "choice" => parent # "choice"

Unique ==
  LET K == Closure
      T == [p \in Paths(K) |-> Node(KindAt(K, p), 0)]
  IN  /\ \A x, y \in K : x[1] = y[1] => x = y
      /\ \A p, q \in Paths(K) : ~Clash(T, p, q)

(* A node of the target of i is only added by an augment that comes later. *)
Ahead(p, i) ==
  /\ \E x \in Closure : x[1] = p /\ x[3] > i
  /\ \A x \in Closure : x[1] = p => x[3] > i

InOrder ==
  \A i \in DOMAIN scn.augment : \A p \in Heads(scn.augment[i].target) : ~Ahead(p, i)

(* A target in a choice is referred to before the choice, or the node in   *)
(* it, is there.                                                           *)
ChoiceAhead ==
  \E i \in DOMAIN scn.augment : \E p \in Heads(scn.augment[i].target) :
    /\ Len(p) > 1 /\ p \in Paths(Closure) /\ KindAt(Closure, Front(p)) = "choice"
    /\ Ahead(p, i) \/ Ahead(Front(p), i)

Tree == {<<p, tree[p].kind, tree[p].by>> : p \in DOMAIN tree}

-----------------------------------------------------------------------------
(* A module without faults is accepted and all its nodes are where they    *)
(* belong, in whichever order its augments come; except that a node in a   *)
(* choice may not be referred to before it is added: the case put around   *)
(* its placeholder is found then, and the node reported missing.           *)
AcceptsAnyOrder ==
  phase = "done" /\ Reached /\ Fits /\ Unique /\ ~ChoiceAhead =>
    errors = {} /\ Tree = Closure

(* A module is only accepted if every target is there and no name clashes, *)
(* and then it has all its nodes and no placeholder; a node that does not  *)
(* fit its target is found if the target was there before.                 *)
RejectsFaults ==
  phase = "done" /\ errors = {} =>
    /\ Reached /\ Unique /\ (InOrder => Fits)
    /\ ~ChoiceAhead => Tree = Closure

(* The hooks are run once for every node, also for those that waited below *)
(* a placeholder and those the including module applies again.             *)
HooksOnce ==
  phase = "done" /\ errors = {} =>
    \A p \in DOMAIN tree : tree[p].wrapper \/ tree[p].hooks = 1

(* The augments of a submodule change nothing when the module that         *)
(* includes it applies them again.                                         *)
AgainChangesNothing ==
  [][phase = "module" /\ next <= scn.sub /\ errors = {} =>
       UNCHANGED <<tree, undef, errors>>]_vars
=============================================================================
