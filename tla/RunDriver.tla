----------------------------- MODULE RunDriver -----------------------------
(***************************************************************************)
(* One run of the yanger command (src/yanger.erl, do_main and run): files  *)
(* are added, then deviation modules; the modules are checked and          *)
(* transformed; and either nothing more is asked for or an output plugin   *)
(* writes them to standard output or to a file.                            *)
(*                                                                         *)
(* What a file, the checks or the plugin find is a set of problems;        *)
(* yang_error decides, by the options -W, -w and -E, whether a problem is  *)
(* an error, a warning or nothing.  What matters here is what becomes of   *)
(* the errors, of the output file and of the exit status.                  *)
(***************************************************************************)
EXTENDS Integers, Sequences, FiniteSets, Functions

CONSTANTS
  File,     \* files of the command line
  Code,     \* codes of problems
  Scenario  \* the runs to consider, see IsScenario

Place == File \cup {"post_add_modules", "emit"}

(* A problem as it is found, and as it is recorded.                        *)
Problem == [code : Code, expected : {"error", "warning"}]
Error == [code : Code, level : {"error", "warning"}, at : Place]

(* What adding a file, the checks or the plugin comes to, and finds.       *)
Outcome(results) == [result : results, found : SUBSET Problem]

(* primary, deviations: files on the command line and after                *)
(* --deviation-module.  levels: -W error, -W none, -w, -W and -E codes.    *)
(* unknown_feature: -F names a feature, or a module, that is not there.    *)
(* allow: the format was registered for models with errors.                *)
IsScenario(s) ==
  /\ s.primary \in Seq(File) /\ s.deviations \in Seq(File)
  /\ s.add \in [File -> Outcome({"ok", "fails", "crashes"})]
  /\ s.post \in Outcome({"ok", "crashes"})
  /\ s.levels \in [all_errors : BOOLEAN, none : BOOLEAN, no_warning : SUBSET Code,
                   warning : SUBSET Code, error : SUBSET Code]
  /\ s.unknown_feature \in BOOLEAN
  /\ s.format \in BOOLEAN /\ s.allow \in BOOLEAN
  /\ s.outfile \in BOOLEAN /\ s.can_open \in BOOLEAN
  /\ s.emit \in Outcome({"returns", "throws", "crashes"})

(* add_file fails only with an error.                                      *)
ASSUME ScenarioAssumption ==
  \A s \in Scenario :
    /\ IsScenario(s)
    /\ \A f \in File :
         s.add[f].result = "fails" =>
           \E p \in s.add[f].found : p.expected = "error"

VARIABLES
  scn,      \* the scenario, never changed
  pc,       \* what run does next
  todo,     \* the files it has left
  success,  \* whether every file was added
  modules,  \* the primary files that were
  errors,   \* #yctx.errors, which matter and not in which order
  printed,  \* what print_errors has printed
  file,     \* the output file: as "before", "open", "written" or "deleted"
  exit      \* how the run ended

vars == <<scn, pc, todo, success, modules, errors, printed, file, exit>>

Steps == {"files", "deviations", "post", "features", "decide", "emit",
          "report", "ended"}

Exits == {"running", "ok", "errors_printed", "bad_features", "file_error",
          "format_no_modules", "emit_error", "emit_crash", "internal_error"}

-----------------------------------------------------------------------------
(* build_error *)
Level(p) ==
  LET o == scn.levels
  IN  IF p.expected = "error" THEN "error"
      ELSE IF o.none \/ p.code \in o.no_warning THEN "none"
      ELSE IF o.all_errors THEN IF p.code \in o.warning THEN "warning" ELSE "error"
      ELSE IF p.code \in o.error THEN "error" ELSE "warning"

(* add_error for each problem; level none is not recorded.                 *)
Recorded(found, at) ==
  {[code |-> p.code, level |-> Level(p), at |-> at] :
     p \in {q \in found : Level(q) # "none"}}

(* Fault: a warning hides the errors.                                      *)
HasErrorsOnly(es) == es # {} /\ \A e \in es : e.level = "error"

HasErrors(es) == \E e \in es : e.level = "error"

(* What the run ends with: print_errors was called with es.                *)
Ends(how, es) ==
  /\ pc' = "ended"
  /\ exit' = how
  /\ printed' = printed \cup es

GoesOn(step) == pc' = step /\ UNCHANGED <<printed, exit>>

-----------------------------------------------------------------------------
(* yang:add_file for the next file, named on the command line or after     *)
(* --deviation-module; a crash is masked as an internal error.             *)
Adding == pc \in {"files", "deviations"} /\ todo # <<>>
Added == scn.add[Head(todo)]

AddFileCrashes ==
  /\ Adding /\ Added.result = "crashes"
  /\ Ends("internal_error", {})
  /\ UNCHANGED <<scn, todo, success, modules, errors, file>>

AddFile ==
  /\ Adding /\ Added.result # "crashes"
  /\ errors' = errors \cup Recorded(Added.found, Head(todo))
  /\ success' = (success /\ Added.result = "ok")
  /\ modules' = IF pc = "files" /\ Added.result = "ok"
                THEN Append(modules, Head(todo)) ELSE modules
  /\ todo' = Tail(todo)
  /\ UNCHANGED <<scn, pc, printed, file, exit>>

FilesAdded ==
  /\ pc = "files" /\ todo = <<>>
  /\ todo' = scn.deviations
  /\ GoesOn("deviations")
  /\ UNCHANGED <<scn, success, modules, errors, file>>

DeviationsAdded ==
  /\ pc = "deviations" /\ todo = <<>>
  /\ GoesOn("post")
  /\ UNCHANGED <<scn, todo, success, modules, errors, file>>

(* post_add_modules and the transformations.                               *)
PostAddModules ==
  /\ pc = "post"
  /\ IF scn.post.result = "crashes"
     THEN Ends("internal_error", {}) /\ UNCHANGED errors
     ELSE /\ errors' = errors \cup Recorded(scn.post.found, "post_add_modules")
          /\ GoesOn("features")
  /\ UNCHANGED <<scn, todo, success, modules, file>>

ValidateFeatures ==
  /\ pc = "features"
  /\ IF scn.unknown_feature THEN Ends("bad_features", {}) ELSE GoesOn("decide")
  /\ UNCHANGED <<scn, todo, success, modules, errors, file>>

-----------------------------------------------------------------------------
(* The choice at the end of run.                                           *)
Stops == (~success \/ HasErrors(errors)) /\ ~(scn.format /\ scn.allow)

StopOnErrors ==
  /\ pc = "decide" /\ Stops
  /\ Ends("errors_printed", errors)
  /\ UNCHANGED <<scn, todo, success, modules, errors, file>>

CheckOnly ==
  /\ pc = "decide" /\ ~Stops /\ ~scn.format
  /\ Ends("ok", errors)
  /\ UNCHANGED <<scn, todo, success, modules, errors, file>>

NothingToEmit ==
  /\ pc = "decide" /\ ~Stops /\ scn.format /\ modules = <<>>
  /\ IF HasErrors(errors)
     THEN Ends("errors_printed", errors)
     ELSE Ends("format_no_modules", {})
  /\ UNCHANGED <<scn, todo, success, modules, errors, file>>

OpenOutput ==
  /\ pc = "decide" /\ ~Stops /\ scn.format /\ modules # <<>>
  /\ \/ ~scn.outfile /\ GoesOn("emit") /\ UNCHANGED file
     \/ scn.outfile /\ scn.can_open /\ GoesOn("emit") /\ file' = "open"
     \/ scn.outfile /\ ~scn.can_open /\ Ends("file_error", {}) /\ UNCHANGED file
  /\ UNCHANGED <<scn, todo, success, modules, errors>>

-----------------------------------------------------------------------------
(* Fault: what the plugin found is kept for the output file only.          *)
EmitReturnsToFile ==
  /\ pc = "emit" /\ scn.emit.result = "returns"
  /\ errors' = IF scn.outfile THEN errors \cup Recorded(scn.emit.found, "emit") ELSE errors
  /\ GoesOn("report")
  /\ UNCHANGED <<scn, todo, success, modules, file>>

(* The output plugin returns; what it returns is added to the errors.      *)
EmitReturns ==
  /\ pc = "emit" /\ scn.emit.result = "returns"
  /\ errors' = errors \cup Recorded(scn.emit.found, "emit")
  /\ GoesOn("report")
  /\ UNCHANGED <<scn, todo, success, modules, file>>

(* It throws: run throws the same, and do_main prints that only.           *)
EmitThrows ==
  /\ pc = "emit" /\ scn.emit.result = "throws"
  /\ Ends("emit_error", {})
  /\ UNCHANGED <<scn, todo, success, modules, errors, file>>

(* It crashes.  With an output file, that is deleted and do_main prints an *)
(* internal error; without, print_error prints the errors first.           *)
(* Fault: the file stays.                                                  *)
EmitCrashesLeaving ==
  /\ pc = "emit" /\ scn.emit.result = "crashes"
  /\ IF file = "open" THEN Ends("internal_error", {}) ELSE Ends("emit_crash", errors)
  /\ UNCHANGED <<scn, todo, success, modules, errors, file>>

EmitCrashes ==
  /\ pc = "emit" /\ scn.emit.result = "crashes"
  /\ IF file = "open"
     THEN file' = "deleted" /\ Ends("internal_error", {})
     ELSE Ends("emit_crash", errors) /\ UNCHANGED file
  /\ UNCHANGED <<scn, todo, success, modules, errors>>

(* All errors are printed, the file is closed, and deleted if there was an *)
(* error.                                                                  *)
Report ==
  /\ pc = "report"
  /\ IF HasErrors(errors) THEN Ends("errors_printed", errors) ELSE Ends("ok", errors)
  /\ file' = IF ~scn.outfile THEN file
             ELSE IF HasErrors(errors) THEN "deleted" ELSE "written"
  /\ UNCHANGED <<scn, todo, success, modules, errors>>

-----------------------------------------------------------------------------
Init ==
  /\ scn \in Scenario
  /\ pc = "files"
  /\ todo = scn.primary
  /\ success = TRUE
  /\ modules = <<>>
  /\ errors = {}
  /\ printed = {}
  /\ file = "before"
  /\ exit = "running"

Terminated == pc = "ended" /\ UNCHANGED vars

Next ==
  \/ AddFile \/ AddFileCrashes \/ FilesAdded \/ DeviationsAdded
  \/ PostAddModules \/ ValidateFeatures
  \/ StopOnErrors \/ CheckOnly \/ NothingToEmit \/ OpenOutput
  \/ EmitReturns \/ EmitThrows \/ EmitCrashes \/ Report \/ Terminated

Spec == Init /\ [][Next]_vars

-----------------------------------------------------------------------------
(* Types of the variables.                                                 *)
TypeOK ==
  /\ IsScenario(scn)
  /\ pc \in Steps /\ exit \in Exits
  /\ todo \in Seq(File) /\ modules \in Seq(File)
  /\ success \in BOOLEAN
  /\ errors \subseteq Error /\ printed \subseteq Error
  /\ file \in {"before", "open", "written", "deleted"}

Files == Range(scn.primary) \cup Range(scn.deviations)

(* The exit status is 0 only if every file was added, nothing recorded     *)
(* since is an error, and what was asked for has been written; a run that  *)
(* says its errors are printed has printed one.                            *)
ExitTellsOutcome ==
  /\ exit = "ok" =>
       /\ \A f \in Files : scn.add[f].result = "ok"
       /\ ~HasErrors(errors)
       /\ scn.format => scn.emit.result = "returns"
       /\ scn.format /\ scn.outfile => file = "written"
  /\ exit = "errors_printed" => HasErrors(printed)

(* What is known when run decides whether to call the plugin, and whether  *)
(* it has to: a format was asked for, there is a module to emit, and either*)
(* nothing is an error or the format takes models with errors.             *)
Earlier ==
  (UNION {Recorded(scn.add[f].found, f) : f \in Files})
    \cup Recorded(scn.post.found, "post_add_modules")
Emits ==
  /\ scn.format /\ modules # <<>>
  /\ scn.allow \/ (success /\ ~HasErrors(Earlier))

(* Everything found on the way, in whichever step, is in what is printed   *)
(* at the end, also what the plugin finds while it writes, to a file or to *)
(* standard output; only the exits that print a single message are         *)
(* excepted.                                                               *)
NothingUnsaid ==
  exit \in {"ok", "errors_printed", "emit_crash"} =>
    LET said(found, at) == Recorded(found, at) \subseteq printed
    IN  /\ \A f \in Files : said(scn.add[f].found, f)
        /\ said(scn.post.found, "post_add_modules")
        /\ Emits /\ scn.emit.result = "returns" => said(scn.emit.found, "emit")

(* The help text of -W, -w and -E says which problems do no harm: warnings *)
(* that are neither listed after -E nor, after -W error, left out of -W.   *)
Harmless(found) ==
  \A p \in found :
    /\ p.expected = "warning"
    /\ \/ scn.levels.none \/ p.code \in scn.levels.no_warning
       \/ scn.levels.all_errors /\ p.code \in scn.levels.warning
       \/ ~scn.levels.all_errors /\ p.code \notin scn.levels.error

(* A run in which nothing else goes wrong succeeds, and does not report    *)
(* what it was told not to.                                                *)
HarmlessRunSucceeds ==
  /\ pc = "ended"
  /\ \A f \in Files : scn.add[f].result = "ok" /\ Harmless(scn.add[f].found)
  /\ scn.post.result = "ok" /\ Harmless(scn.post.found)
  /\ ~scn.unknown_feature
  /\ scn.format =>
       /\ scn.primary # <<>> /\ (scn.outfile => scn.can_open)
       /\ scn.emit.result = "returns" /\ Harmless(scn.emit.found)
  => /\ exit = "ok"
     /\ \A e \in printed :
          ~scn.levels.none /\ e.code \notin scn.levels.no_warning

(* A file that was there is only overwritten for models without errors, or *)
(* by a format that was registered for models with errors.                 *)
OverwritesForCleanModels ==
  [][file = "before" /\ file' # "before" =>
       (success /\ ~HasErrors(errors)) \/ scn.allow]_vars

(* What is left at the end is a complete file of a run that succeeded, or  *)
(* none; except that a plugin that throws leaves its file as it is.        *)
OutfileAtEnd ==
  pc = "ended" =>
    /\ file = "written" => exit = "ok"
    /\ file = "open" => exit = "emit_error"
    /\ file = "before" => ~(exit = "ok" /\ scn.format /\ scn.outfile)
=============================================================================
