---------------------------- MODULE ModuleLoader ----------------------------
(***************************************************************************)
(* How yanger finds, parses and registers modules and submodules           *)
(* (src/yang.erl, add_file ... parse_linkage, and the driver that calls    *)
(* add_file in src/yanger.erl).                                            *)
(*                                                                         *)
(* The code is a recursion: add_parsed_stmt_tree inserts the module as     *)
(* 'processing', parse_linkage walks its import and include statements and *)
(* calls search_module for each, which may parse another file and start    *)
(* over.  Here the Erlang call stack is the variable `stack', a module     *)
(* being built is the entry of its revision in `modrevs', and `ret' is the *)
(* module a call of search_module has just returned.                       *)
(*                                                                         *)
(* A scenario is everything outside the program: the files of the search   *)
(* path with their contents, the command line, and the -c option.          *)
(***************************************************************************)
EXTENDS Integers, Sequences, FiniteSets, Functions

CONSTANTS
  File,      \* the files of the search path
  Name,      \* module and submodule names
  Revision,  \* revision dates, as positive numbers in date order
  Scenario   \* the environments to consider, see ScenarioType

(* 'undefined': an atom, hence below every date in Erlang's term order.    *)
NoRevision == 0
AnyRevision == Revision \cup {NoRevision}

(* modrev(): the key of #yctx.modrevs.                                     *)
Key == Name \X AnyRevision

(* The keyword, the module named, and the revision-date substatement.      *)
LinkStmt == [kw : {"import", "include"}, name : Name, rev : AnyRevision]

(* fname and frev come from the file name "fname@frev.yang"; name, rev,    *)
(* kind, owner (belongs-to; a module owns itself), v11 (yang-version), ns  *)
(* and links from its contents.  body: some statement follows the linkage  *)
(* statements.  wellformed: the parser accepts the file; ordered: it also  *)
(* accepts it under the canonical statement order.                         *)
FileType ==
  [fname : Name, frev : AnyRevision, name : Name, rev : AnyRevision,
   kind : {"module", "submodule"}, owner : Name, v11 : BOOLEAN, ns : Name,
   links : Seq(LinkStmt), body : BOOLEAN, wellformed : BOOLEAN, ordered : BOOLEAN]

Argument == [file : File, cause : {"primary", "deviation"}]

ScenarioType ==
  [file : [File -> FileType], argv : Seq(Argument), canonical : BOOLEAN]

ASSUME RevisionAssumption ==
  Revision \subseteq Nat \ {0} /\ IsFiniteSet(Revision)
ASSUME ScenarioAssumption ==
  /\ Scenario \subseteq ScenarioType
  /\ \A s \in Scenario : \A f \in File :
       LET file == s.file[f]
       IN  /\ file.rev # NoRevision => file.body
           /\ file.kind = "module" => file.owner = file.name

VARIABLES
  scn,        \* the scenario, never changed
  todo,       \* the arguments not yet given to add_file
  canonical,  \* #yctx.canonical
  primary,    \* #yctx.primary_module_names
  modrevs,    \* #yctx.modrevs
  stack,      \* the modules inside parse_linkage, innermost first
  ret,        \* what search_module returned to the innermost module
  errors,     \* #yctx.errors
  phase       \* "add" while files are added, "post" afterwards

vars == <<scn, todo, canonical, primary, modrevs, stack, ret, errors, phase>>

-----------------------------------------------------------------------------
(* A frame is the module a parse_linkage call works for, and the linkage   *)
(* statement it has reached.                                               *)
Frame == [key : Key, at : Nat \ {0}]

Import == [key : Key, requested : AnyRevision]
Include == [key : Key, at : Nat]

(* #module{}; state tells the atom 'processing' from a stored module.      *)
(* While state is "processing" the other fields are the #module{} that     *)
(* parse_linkage carries along, which no lookup can see yet.               *)
Module ==
  [state : {"processing", "module"}, file : File,
   cause : {"primary", "deviation", "import", "include"},
   modulerevision : AnyRevision, imports : Seq(Import),
   submodules : Seq(Include)]

ErrorCode ==
  {"PARSE_ERROR", "MODULENAME_MISMATCH", "REVISION_MISMATCH",
   "CIRCULAR_DEPENDENCY", "MODULE_NOT_FOUND", "MODULE_REV_NOT_FOUND",
   "BAD_IMPORT", "BAD_IMPORT_YANG_VERSION", "BAD_INCLUDE",
   "BAD_INCLUDE_YANG_VERSION", "BAD_BELONGS_TO", "MISSING_INCLUDE",
   "DUPLICATE_NAMESPACE"}

(* Errors keep their code and the file and linkage statement (0: the file  *)
(* itself) they are reported at.                                           *)
Error == [code : ErrorCode, file : File, at : Nat]

NoKey == <<>>

State(k) == IF k \in DOMAIN modrevs THEN modrevs[k].state ELSE "absent"
Processing == {k \in DOMAIN modrevs : State(k) = "processing"}
Loaded == {k \in DOMAIN modrevs : State(k) = "module"}
FileOf(k) == scn.file[modrevs[k].file]
KeyOf(f) == <<scn.file[f].name, scn.file[f].rev>>

(* #yctx.revs: the revisions of a module seen so far, latest first; only   *)
(* the set and its head are ever used.                                     *)
Revs(n) == {r \in AnyRevision : <<n, r>> \in DOMAIN modrevs}
(* Fault: the list of revisions is kept in the wrong order.                *)
Earliest(S) == CHOOSE r \in S : \A q \in S : r <= q
Latest(S) == CHOOSE r \in S : \A q \in S : q <= r

(* #yctx.files, built by add_mod when the search path is scanned: the file *)
(* with exactly the revision asked for, otherwise the one with the latest  *)
(* revision in its name.  {} when there is none.                           *)
Named(n) == {f \in File : scn.file[f].fname = n}
FileFor(n, r) ==
  LET exact == {f \in Named(n) : scn.file[f].frev = r}
  IN  IF r # NoRevision /\ exact # {} THEN exact
      ELSE {f \in Named(n) :
              \A g \in Named(n) : scn.file[g].frev <= scn.file[f].frev}

(* Fault: the parser is never told to check the statement order.           *)
ParsesAnyOrder(f, c) == scn.file[f].wellformed

(* yang_parser:parse(File, Canonical).                                     *)
Parses(f, c) ==
  /\ scn.file[f].wellformed
  /\ c => scn.file[f].ordered

-----------------------------------------------------------------------------
Top == Head(stack)
Here == modrevs[Top.key]
Link == FileOf(Top.key).links[Top.at]

(* #module{} of the innermost module with some fields set.                 *)
HereWith(state, imports, submodules) ==
  [modrevs EXCEPT ![Top.key] =
     [state |-> state, file |-> Here.file, cause |-> Here.cause,
      modulerevision |-> Here.modulerevision,
      imports |-> imports, submodules |-> submodules]]

(* parse_linkage goes on with the statement after the current one.         *)
Advanced == [stack EXCEPT ![1] = [key |-> Top.key, at |-> Top.at + 1]]

(* add_error(Ctx, Pos, Code, _) with Pos in file f.                        *)
Report(codes, f, at) ==
  errors' = errors \cup {[code |-> c, file |-> f, at |-> at] : c \in codes}

(* The tail of search_module and of add_file: return {true, Ctx, M} to a   *)
(* linkage statement, or to the driver, which has no use for it here.      *)
Found(k) ==
  /\ ret' = IF stack = <<>> THEN NoKey ELSE k
  /\ UNCHANGED <<modrevs, stack, errors>>

(* Faults: the error is lost; parse_linkage goes on with the same          *)
(* statement.                                                              *)
FailedSilently(codes, f, at) ==
  /\ stack' = IF stack = <<>> THEN stack ELSE Advanced
  /\ UNCHANGED <<modrevs, ret, errors>>

FailedRepeated(codes, f, at) ==
  Report(codes, f, at) /\ UNCHANGED <<modrevs, stack, ret>>

(* ... or {false, Ctx}: the statement contributes nothing.                 *)
Failed(codes, f, at) ==
  /\ Report(codes, f, at)
  /\ stack' = IF stack = <<>> THEN stack ELSE Advanced
  /\ UNCHANGED <<modrevs, ret>>

(* Fault: a submodule is stored with its own revision for its module's.    *)
AddParsedOwnRevision(f, cause, incRev) ==
  LET k == KeyOf(f)
      m == [state |-> "processing", file |-> f, cause |-> cause,
            modulerevision |-> k[2], imports |-> <<>>, submodules |-> <<>>]
  IN  CASE State(k) = "processing" -> Failed({"CIRCULAR_DEPENDENCY"}, f, 0)
        [] State(k) = "module" -> Found(k)
        [] State(k) = "absent" ->
             /\ modrevs' = [x \in DOMAIN modrevs \cup {k} |->
                              IF x = k THEN m ELSE modrevs[x]]
             /\ stack' = <<[key |-> k, at |-> 1]>> \o stack
             /\ UNCHANGED <<ret, errors>>

(* add_parsed_stmt_tree, from the lookup in modrevs to parse_linkage.      *)
(* incRev is IncludingModuleRevision.                                      *)
AddParsed(f, cause, incRev) ==
  LET k == KeyOf(f)
      m == [state |-> "processing", file |-> f, cause |-> cause,
            modulerevision |->
              IF scn.file[f].kind = "module" THEN k[2] ELSE incRev,
            imports |-> <<>>, submodules |-> <<>>]
  IN  CASE State(k) = "processing" -> Failed({"CIRCULAR_DEPENDENCY"}, f, 0)
        [] State(k) = "module" -> Found(k)
        [] State(k) = "absent" ->
             /\ modrevs' = [x \in DOMAIN modrevs \cup {k} |->
                              IF x = k THEN m ELSE modrevs[x]]
             /\ stack' = <<[key |-> k, at |-> 1]>> \o stack
             /\ UNCHANGED <<ret, errors>>

-----------------------------------------------------------------------------
(* yanger:run calls add_file for each file named on the command line, then *)
(* for each deviation file.  A file whose name does not match its contents *)
(* only causes a warning here.                                             *)
Idle == phase = "add" /\ stack = <<>>

AddFile ==
  LET arg == Head(todo)
      f == arg.file
  IN  /\ Idle /\ todo # <<>> /\ Parses(f, canonical)
      /\ todo' = Tail(todo)
      /\ primary' = IF arg.cause = "primary"
                       THEN primary \cup {scn.file[f].name} ELSE primary
      /\ AddParsed(f, arg.cause, NoRevision)
      /\ UNCHANGED <<scn, canonical, phase>>

AddFileUnparsable ==
  LET f == Head(todo).file
  IN  /\ Idle /\ todo # <<>> /\ ~Parses(f, canonical)
      /\ todo' = Tail(todo)
      /\ Report({"PARSE_ERROR"}, f, 0)
      /\ UNCHANGED <<scn, canonical, primary, modrevs, stack, ret, phase>>

-----------------------------------------------------------------------------
(* parse_linkage's import and include statements: search_module, and       *)
(* search_file when the module is not in the context.                      *)
Linking ==
  /\ phase = "add" /\ stack # <<>> /\ ret = NoKey
  /\ Top.at <= Len(FileOf(Top.key).links)

(* search_module, get_modrev: the revision looked up is the latest one     *)
(* already known when none is asked for.                                   *)
Target(l) ==
  IF l.rev = NoRevision /\ Revs(l.name) # {}
  THEN <<l.name, Latest(Revs(l.name))>>
  ELSE <<l.name, l.rev>>

(* An import is never checked for canonical order, a submodule as far as   *)
(* the context currently says.                                             *)
CanonicalFor(l) == l.kw = "include" /\ canonical

(* add_parsed_stmt_tree's check that the file holds what was looked for.   *)
Mismatch(f, l) ==
  IF scn.file[f].name # l.name THEN {"MODULENAME_MISMATCH"}
  ELSE IF l.rev # NoRevision /\ scn.file[f].rev # l.rev
  THEN {"REVISION_MISMATCH"} ELSE {}

unlinked == <<scn, todo, primary, phase>>

LinkKnown ==
  /\ Linking /\ State(Target(Link)) = "module"
  /\ Found(Target(Link))
  /\ UNCHANGED <<unlinked, canonical>>

(* Faults: a module being built is handed out; its import is skipped.      *)
LinkCircularTaken ==
  /\ Linking /\ State(Target(Link)) = "processing"
  /\ Found(Target(Link))
  /\ UNCHANGED <<unlinked, canonical>>

LinkCircularSkipped ==
  /\ Linking /\ State(Target(Link)) = "processing"
  /\ Failed({}, Here.file, Top.at)
  /\ UNCHANGED <<unlinked, canonical>>

LinkCircular ==
  /\ Linking /\ State(Target(Link)) = "processing"
  /\ Failed({"CIRCULAR_DEPENDENCY"}, Here.file, Top.at)
  /\ UNCHANGED <<unlinked, canonical>>

LinkNotFound ==
  /\ Linking /\ State(Target(Link)) = "absent"
  /\ FileFor(Link.name, Target(Link)[2]) = {}
  /\ Failed({IF Link.rev = NoRevision THEN "MODULE_NOT_FOUND"
             ELSE "MODULE_REV_NOT_FOUND"}, Here.file, Top.at)
  /\ UNCHANGED <<unlinked, canonical>>

LinkUnparsable ==
  /\ Linking /\ State(Target(Link)) = "absent"
  /\ \E f \in FileFor(Link.name, Target(Link)[2]) :
       /\ ~Parses(f, CanonicalFor(Link))
       /\ Failed({"PARSE_ERROR"}, f, 0)
  /\ UNCHANGED <<unlinked, canonical>>

(* The file is parsed; from here on its canonical flag is the context's.   *)
LinkFile ==
  /\ Linking /\ State(Target(Link)) = "absent"
  /\ \E f \in FileFor(Link.name, Target(Link)[2]) :
       /\ Parses(f, CanonicalFor(Link))
       /\ IF Mismatch(f, Link) # {}
          THEN Failed(Mismatch(f, Link), f, 0)
          ELSE AddParsed(f, Link.kw, IF Link.kw = "include"
                                       THEN Here.modulerevision ELSE NoRevision)
  /\ canonical' = CanonicalFor(Link)
  /\ UNCHANGED unlinked

-----------------------------------------------------------------------------
(* v_import and v_include: what the returned module adds to this one.      *)
TakeImport ==
  LET imp == FileOf(ret)
      bad == IF /\ Link.rev # NoRevision
                /\ ~FileOf(Top.key).v11 /\ imp.v11
             THEN {"BAD_IMPORT_YANG_VERSION"}
             ELSE IF imp.kind # "module" THEN {"BAD_IMPORT"} ELSE {}
      entry == [key |-> ret, requested |-> Link.rev]
  IN  /\ stack # <<>> /\ ret # NoKey /\ Link.kw = "import"
      /\ Report(bad, Here.file, Top.at)
      /\ modrevs' = IF bad = {}
           THEN HereWith("processing", <<entry>> \o Here.imports,
                         Here.submodules)
           ELSE modrevs
      /\ ret' = NoKey
      /\ stack' = Advanced
      /\ UNCHANGED <<unlinked, canonical>>

(* A submodule is kept even if there is something wrong with it.           *)
TakeInclude ==
  LET sub == FileOf(ret)
      self == FileOf(Top.key)
      entry == [key |-> ret, at |-> Top.at]
  IN  /\ stack # <<>> /\ ret # NoKey /\ Link.kw = "include"
      /\ IF sub.v11 # self.v11
         THEN Report({"BAD_INCLUDE_YANG_VERSION"}, Here.file, Top.at)
         ELSE IF sub.kind # "submodule"
         THEN Report({"BAD_INCLUDE"}, Here.file, Top.at)
         ELSE IF sub.owner # self.owner
         THEN Report({"BAD_BELONGS_TO"}, modrevs[ret].file, 0)
         ELSE UNCHANGED errors
      /\ modrevs' = HereWith("processing", Here.imports,
                             Append(Here.submodules, entry))
      /\ ret' = NoKey
      /\ stack' = Advanced
      /\ UNCHANGED <<unlinked, canonical>>

(* Fault: the first submodule is not looked at.                            *)
MissingIncludesOfOthers(m) ==
  LET mine == {s.key : s \in Range(m.submodules)}
      missing(k) == {s \in Range(modrevs[k].submodules) : s.key \notin mine}
      others == {m.submodules[i].key : i \in DOMAIN m.submodules \ {1}}
  IN  UNION {{[code |-> "MISSING_INCLUDE", file |-> modrevs[k].file,
               at |-> s.at] : s \in missing(k)} : k \in others}

(* v_all_includes: the includes of m's submodules that m does not have.    *)
MissingIncludes(m) ==
  LET mine == {s.key : s \in Range(m.submodules)}
      missing(k) == {s \in Range(modrevs[k].submodules) : s.key \notin mine}
  IN  UNION {{[code |-> "MISSING_INCLUDE", file |-> modrevs[k].file,
               at |-> s.at] : s \in missing(k)} : k \in mine}

(* The end of the linkage statements: v_all_includes unless nothing comes  *)
(* after them, then the rest of the module, which is stored and returned.  *)
Finish ==
  /\ phase = "add" /\ stack # <<>> /\ ret = NoKey
  /\ Top.at > Len(FileOf(Top.key).links)
  /\ errors' = errors \cup
       (IF FileOf(Top.key).kind = "module" /\ FileOf(Top.key).body
        THEN MissingIncludes(Here) ELSE {})
  /\ modrevs' = HereWith("module", Here.imports, Here.submodules)
  /\ stack' = Tail(stack)
  /\ ret' = IF Tail(stack) = <<>> THEN NoKey ELSE Top.key
  /\ UNCHANGED <<unlinked, canonical>>

-----------------------------------------------------------------------------
(* v_unique_namespaces: the first name seen with a namespace, in the order *)
(* of modrevs, owns it; the modules of every other name are in error.      *)
LoadedModules == {k \in Loaded : FileOf(k).kind = "module"}
Namespaces == {FileOf(k).ns : k \in LoadedModules}
NamesOf(ns) == {k[1] : k \in {j \in LoadedModules : FileOf(j).ns = ns}}

PostAddModules ==
  /\ Idle /\ todo = <<>>
  /\ phase' = "post"
  /\ \E first \in {o \in [Namespaces -> Name] :
                     \A ns \in Namespaces : o[ns] \in NamesOf(ns)} :
       errors' = errors \cup
         {[code |-> "DUPLICATE_NAMESPACE", file |-> modrevs[k].file, at |-> 0] :
            k \in {j \in LoadedModules : first[FileOf(j).ns] # j[1]}}
  /\ UNCHANGED <<scn, todo, canonical, primary, modrevs, stack, ret>>

-----------------------------------------------------------------------------
Init ==
  /\ scn \in Scenario
  /\ todo = scn.argv
  /\ canonical = scn.canonical
  /\ primary = {}
  /\ modrevs = <<>>
  /\ stack = <<>>
  /\ ret = NoKey
  /\ errors = {}
  /\ phase = "add"

Terminated == phase = "post" /\ UNCHANGED vars

Next ==
  \/ AddFile \/ AddFileUnparsable
  \/ LinkKnown \/ LinkCircular \/ LinkNotFound
  \/ LinkUnparsable \/ LinkFile
  \/ TakeImport \/ TakeInclude \/ Finish
  \/ PostAddModules \/ Terminated

(* A sequential program that is run to its end.                            *)
Spec == Init /\ [][Next]_vars /\ WF_vars(Next)

-----------------------------------------------------------------------------
(* Types of the variables.                                                 *)
TypeOK ==
  /\ scn \in ScenarioType
  /\ todo \in Seq(Argument)
  /\ canonical \in BOOLEAN
  /\ primary \subseteq Name
  /\ DOMAIN modrevs \subseteq Key
  /\ modrevs \in [DOMAIN modrevs -> Module]
  /\ stack \in Seq(Frame)
  /\ ret \in Key \cup {NoKey}
  /\ errors \subseteq Error
  /\ phase \in {"add", "post"}

(* A statement asks for module k.                                          *)
Answers(k, l) == k[1] = l.name /\ (l.rev # NoRevision => k[2] = l.rev)

(* The modules marked processing are those inside parse_linkage, each      *)
(* once: the mark that get_modrev takes for a circular dependency is set   *)
(* on entry and cleared on every way out, failures included.               *)
ProcessingIsStack ==
  /\ Processing = {stack[i].key : i \in DOMAIN stack}
  /\ \A i, j \in DOMAIN stack : stack[i].key = stack[j].key => i = j

(* Every module but the innermost waits at the linkage statement that led  *)
(* to the next one, so a CIRCULAR_DEPENDENCY is a chain of statements; and *)
(* what search_module returns is stored and is what was asked for.         *)
ChainOfStatements ==
  \A i \in DOMAIN stack :
    LET links == FileOf(stack[i].key).links
    IN  /\ stack[i].at <= Len(links) + 1
        /\ i > 1 => /\ stack[i].at <= Len(links)
                    /\ Answers(stack[i - 1].key, links[stack[i].at])

ReturnAnswers ==
  ret # NoKey =>
    /\ stack # <<>> /\ Top.at <= Len(FileOf(Top.key).links)
    /\ ret \in Loaded
    /\ Answers(ret, Link)

CallChain == ChainOfStatements /\ ReturnAnswers

(* When get_modrev finds nothing under the revision it looks up, the file  *)
(* found instead cannot hold a module that is already there: the           *)
(* 'processing' and 'already added' clauses of add_parsed_stmt_tree are    *)
(* for files of the command line only.                                     *)
SearchFindsNew ==
  Linking /\ State(Target(Link)) = "absent" =>
    \A f \in FileFor(Link.name, Target(Link)[2]) :
      Mismatch(f, Link) = {} => State(KeyOf(f)) = "absent"

(* Statement i of module k has had its effect on k.                        *)
Resolved(k, i) ==
  LET l == FileOf(k).links[i]
  IN  IF l.kw = "import"
      THEN \E e \in Range(modrevs[k].imports) :
             /\ e.requested = l.rev /\ Answers(e.key, l)
             /\ e.key \in LoadedModules
      ELSE \E e \in Range(modrevs[k].submodules) :
             e.at = i /\ Answers(e.key, l) /\ e.key \in Loaded

(* ... or an error is reported, at the statement or at the file it names.  *)
Reported(k, i) ==
  LET l == FileOf(k).links[i]
  IN  \E e \in errors :
        \/ e.file = modrevs[k].file /\ e.at = i
        \/ /\ e.file \in Named(l.name) /\ e.at = 0
           /\ e.code \in {"PARSE_ERROR", "MODULENAME_MISMATCH",
                          "REVISION_MISMATCH"}

Passed(k, i) ==
  State(k) = "module" \/ \E j \in DOMAIN stack : stack[j].key = k /\ i < stack[j].at

(* No import or include statement is lost: once parse_linkage is past it,  *)
(* the module has what it asked for or there is an error that says why not.*)
NothingLost ==
  \A k \in DOMAIN modrevs : \A i \in DOMAIN FileOf(k).links :
    Passed(k, i) => Resolved(k, i) \/ Reported(k, i)

(* What a run without errors guarantees: the files asked for are stored,   *)
(* every reference is resolved, submodules belong where they are included, *)
(* a module that has a body includes all its submodules include, and no    *)
(* two modules share a namespace.                                          *)
CleanRun ==
  phase = "post" /\ errors = {} =>
    /\ \A i \in DOMAIN scn.argv : KeyOf(scn.argv[i].file) \in Loaded
    /\ Loaded = DOMAIN modrevs
    /\ \A k \in Loaded :
         LET f == FileOf(k)
             subs == {s.key : s \in Range(modrevs[k].submodules)}
         IN  /\ \A i \in DOMAIN f.links : Resolved(k, i)
             /\ \A s \in subs : /\ FileOf(s).kind = "submodule"
                                /\ FileOf(s).owner = f.owner
                                /\ FileOf(s).v11 = f.v11
             /\ f.kind = "module" /\ f.body =>
                  \A s \in subs :
                    {t.key : t \in Range(modrevs[s].submodules)} \subseteq subs
    /\ \A j, k \in LoadedModules :
         FileOf(j).ns = FileOf(k).ns => j[1] = k[1]

(* Down any chain of includes a submodule is stored with the revision of a *)
(* module it belongs to.  Only when a submodule is read because it is named*)
(* on the command line, before the module, may one be left with none.      *)
RevisionHandedDown ==
  phase = "post" /\ errors = {} =>
    LET subs == {k \in Loaded : FileOf(k).kind = "submodule"}
        readAlone == {k \in subs : modrevs[k].cause # "include"}
    IN  \A s \in subs :
          \/ <<FileOf(s).owner, modrevs[s].modulerevision>> \in LoadedModules
          \/ readAlone # {} /\ modrevs[s].modulerevision = NoRevision

(* A graph of modules: every file parses, holds a module of its name, which*)
(* no other file has, and only imports, whatever revision there is.        *)
IsGraph ==
  /\ \A f \in File :
       LET file == scn.file[f]
       IN  /\ file.kind = "module" /\ file.fname = file.name
           /\ file.wellformed /\ file.ordered
           /\ \A l \in Range(file.links) : l.kw = "import" /\ l.rev = NoRevision
  /\ \A f, g \in File : scn.file[f].fname = scn.file[g].fname => f = g

(* The files a file imports, and those reached from the command line.      *)
Imports(f) == {g \in File : \E l \in Range(scn.file[f].links) : l.name = scn.file[g].fname}
Reached(f) ==
  \A C \in SUBSET File :
    /\ \A i \in DOMAIN scn.argv : scn.argv[i].file \in C
    /\ \A g \in C : Imports(g) \subseteq C
    => f \in C

(* The reference: a set of reached files, each importing one of the set.   *)
HasCircle ==
  \E S \in (SUBSET {f \in File : Reached(f)}) \ {{}} :
    \A f \in S : Imports(f) \cap S # {}

(* A circular dependency is reported exactly when there is one, whichever  *)
(* way the depth-first search comes to it, and the modules read are those  *)
(* that can be reached.                                                    *)
CircularityDecided ==
  phase = "post" /\ IsGraph =>
    /\ (\E e \in errors : e.code = "CIRCULAR_DEPENDENCY") <=> HasCircle
    /\ Loaded = {KeyOf(f) : f \in {g \in File : Reached(g)}}

(* As long as the context checks canonical order, everything parsed so far *)
(* was checked.                                                            *)
CanonicalUntilImport ==
  canonical => \A k \in DOMAIN modrevs : FileOf(k).ordered

(* An import without revision-date gets the latest revision in the context *)
(* at that moment, so within a module a later one never gets an older      *)
(* revision than an earlier one (the list is in reverse order).            *)
NeverAnOlderRevision ==
  \A k \in DOMAIN modrevs :
    LET imp == modrevs[k].imports
    IN  \A i, j \in DOMAIN imp :
          i < j /\ imp[i].key[1] = imp[j].key[1]
            /\ imp[i].requested = NoRevision /\ imp[j].requested = NoRevision
            => imp[i].key[2] >= imp[j].key[2]

(* A stored module is never marked, rebuilt or replaced: the copies other  *)
(* modules hold of it stay equal to it, as v_all_includes supposes.        *)
StoredOnce ==
  [][\A k \in Loaded : k \in DOMAIN modrevs' /\ modrevs'[k] = modrevs[k]]_vars

(* Loading comes to an end, cycles or not.                                 *)
Termination == <>(phase = "post")

(* The modules a module refers to.                                         *)
Deps(k) == {e.key : e \in Range(modrevs[k].imports)
                          \cup Range(modrevs[k].submodules)}

Status ==
  [k \in Key |-> IF k \notin DOMAIN modrevs THEN "new"
                 ELSE IF State(k) = "processing" THEN "open" ELSE "closed"]
DependsOn == [k \in Key |-> IF k \in DOMAIN modrevs THEN Deps(k) ELSE {}]

DF == INSTANCE DepthFirst WITH Node <- Key, status <- Status, deps <- DependsOn

(* Among any modules in the context there is one that refers to none of    *)
(* them: import and include never close a cycle.                           *)
NoImportCycle == DF!Acyclic

(* The loader only ever refers to complete modules, hence without cycles.  *)
RefinesDepthFirst == DF!Spec
=============================================================================
