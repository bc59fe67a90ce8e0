-------------------------- MODULE RunDriver_proofs --------------------------
(***************************************************************************)
(* Proofs of the safety properties of RunDriver, for every set of files,   *)
(* codes and scenarios.                                                    *)
(*                                                                         *)
(* The inductive invariant says of each step of the run what it has        *)
(* collected when it is reached (Collected, Checked, Emitted), that errors *)
(* hold nothing else (Origin, Early) and are an error if a file failed     *)
(* (Failed), that nothing is printed on the way (Silent), and what each way*)
(* to end leaves behind (Ended).                                           *)
(***************************************************************************)
EXTENDS RunDriver, TLAPS

Pending ==
  (IF pc \in {"files", "deviations"} THEN Range(todo) ELSE {})
    \cup (IF pc = "files" THEN Range(scn.deviations) ELSE {})

(* Every file dealt with is in errors with what was found in it, and was   *)
(* added if success is still TRUE.                                         *)
Collected ==
  exit # "internal_error" =>
    \A f \in Files :
      \/ f \in Pending
      \/ /\ success => scn.add[f].result = "ok"
         /\ Recorded(scn.add[f].found, f) \subseteq errors

(* What post_add_modules found is in errors.                               *)
Checked ==
  (pc \in {"features", "decide", "emit", "report"}
     \/ (pc = "ended" /\ exit # "internal_error")) =>
    Recorded(scn.post.found, "post_add_modules") \subseteq errors

EmitRecorded ==
  /\ scn.format
  /\ scn.emit.result = "returns"
  /\ Recorded(scn.emit.found, "emit") \subseteq errors

Emitted == pc = "report" => EmitRecorded

Origin ==
  \A e \in errors :
    \/ \E f \in Files : e \in Recorded(scn.add[f].found, f)
    \/ e \in Recorded(scn.post.found, "post_add_modules")
    \/ scn.format /\ e \in Recorded(scn.emit.found, "emit")

(* Until the plugin returns errors hold nothing but what was found before. *)
Early == pc \notin {"report", "ended"} => errors \subseteq Earlier

(* A file that was not added has left an error.                            *)
Failed == ~success => HasErrors(errors)

(* Primary files that were added are there to be emitted.                  *)
Kept ==
  exit # "internal_error" /\ success /\ scn.primary # <<>> =>
    modules # <<>> \/ (pc = "files" /\ todo # <<>>)

(* The output file is opened after the decision, and only then.            *)
Opened ==
  /\ pc \notin {"emit", "report", "ended"} => file = "before"
  /\ pc \in {"emit", "report"} =>
       scn.format /\ file = (IF scn.outfile THEN "open" ELSE "before")

Silent ==
  pc # "ended" => exit = "running" /\ printed = {}

EndedOk ==
  /\ success /\ ~HasErrors(errors) /\ printed = errors
  /\ IF scn.format
     THEN EmitRecorded /\ file = (IF scn.outfile THEN "written" ELSE "before")
     ELSE file = "before"

EndedPrinting ==
  /\ HasErrors(errors) /\ printed = errors
  /\ file \in {"before", "deleted"}
  /\ file = "deleted" => EmitRecorded
  /\ Emits => scn.emit.result # "returns" \/ EmitRecorded

Ended ==
  pc = "ended" =>
    /\ exit # "running"
    /\ exit = "ok" => EndedOk
    /\ exit = "errors_printed" => EndedPrinting
    /\ exit = "emit_crash" =>
         /\ printed = errors /\ file = "before"
         /\ scn.format /\ scn.emit.result = "crashes"
    /\ exit = "emit_error" =>
         scn.format /\ scn.emit.result = "throws" /\ file \in {"before", "open"}
    /\ exit = "bad_features" => scn.unknown_feature /\ file = "before"
    /\ exit = "file_error" =>
         scn.format /\ scn.outfile /\ ~scn.can_open /\ file = "before"
    /\ exit = "format_no_modules" =>
         scn.format /\ modules = <<>> /\ ~HasErrors(errors) /\ file = "before"
    /\ exit = "internal_error" =>
         /\ file \in {"before", "deleted"}
         /\ \/ \E f \in Files : scn.add[f].result = "crashes"
            \/ scn.post.result = "crashes"
            \/ scn.format /\ scn.emit.result = "crashes"

(* The files still to be added are files of the command line.              *)
Named ==
  /\ pc \in {"files", "deviations"} => Range(todo) \subseteq Files

IInv ==
  /\ scn \in Scenario /\ TypeOK /\ Named
  /\ Collected /\ Checked /\ Emitted /\ Origin /\ Early /\ Failed /\ Kept
  /\ Opened /\ Silent /\ Ended

-----------------------------------------------------------------------------
(* A sequence that is not empty is its head and its tail.                  *)
LEMMA HeadAndTail ==
  ASSUME NEW S, NEW s \in Seq(S), s # <<>>
  PROVE  /\ Head(s) \in S /\ Tail(s) \in Seq(S)
         /\ Head(s) \in Range(s)
         /\ Range(s) = {Head(s)} \cup Range(Tail(s))
PROOF
  <1>1. Head(s) \in S /\ Tail(s) \in Seq(S) /\ Len(s) \in Nat \ {0}
    OBVIOUS
  <1>2. 1 \in DOMAIN s /\ Head(s) = s[1]
    BY <1>1
  <1>3. \A x : x \in Range(Tail(s)) => x \in Range(s)
    <2>1. ASSUME NEW i \in DOMAIN Tail(s)
          PROVE  Tail(s)[i] \in Range(s)
      <3>1. Tail(s)[i] = s[i + 1] /\ i + 1 \in DOMAIN s
        BY <1>1
      <3>2. QED BY <3>1 DEF Range
    <2>2. QED BY <2>1 DEF Range
  <1>4. \A x : x \in Range(s) => x = Head(s) \/ x \in Range(Tail(s))
    <2>1. ASSUME NEW i \in DOMAIN s, i # 1
          PROVE  s[i] \in Range(Tail(s))
      <3>1. i - 1 \in DOMAIN Tail(s) /\ Tail(s)[i - 1] = s[i]
        BY <1>1, <2>1
      <3>2. QED BY <3>1 DEF Range
    <2>2. QED BY <2>1, <1>2 DEF Range
  <1>5. Head(s) \in Range(s)
    BY <1>2 DEF Range
  <1>6. QED BY <1>1, <1>3, <1>4, <1>5

(* What is recorded is an error with a level, of one of the problems.      *)
LEMMA RecordedType ==
  ASSUME NEW found \in SUBSET Problem, NEW at \in Place
  PROVE  Recorded(found, at) \subseteq Error
PROOF
  <1>1. ASSUME NEW p \in found, Level(p) # "none"
        PROVE  [code |-> p.code, level |-> Level(p), at |-> at] \in Error
    BY <1>1 DEF Problem, Error, Level
  <1>2. QED BY <1>1 DEF Recorded

(* An error that is found is recorded as one.                              *)
LEMMA ErrorsAreRecorded ==
  ASSUME NEW found \in SUBSET Problem, NEW at,
         NEW p \in found, p.expected = "error"
  PROVE  HasErrors(Recorded(found, at))
PROOF
  <1>1. Level(p) = "error"
    BY DEF Level
  <1>2. [code |-> p.code, level |-> "error", at |-> at] \in Recorded(found, at)
    BY <1>1 DEF Recorded
  <1>3. QED BY <1>2 DEF HasErrors

LEMMA ErrorsStay ==
  ASSUME NEW S, NEW T
  PROVE  /\ HasErrors(S) => HasErrors(S \cup T)
         /\ HasErrors(T) => HasErrors(S \cup T)
PROOF BY DEF HasErrors

(* A step does not change the scenario, and so not what is recorded of it. *)
LEMMA RecordedStays ==
  ASSUME scn' = scn
  PROVE  /\ \A f : Recorded(scn.add[f].found, f)' = Recorded(scn.add[f].found, f)
         /\ Recorded(scn.post.found, "post_add_modules")'
              = Recorded(scn.post.found, "post_add_modules")
         /\ Recorded(scn.emit.found, "emit")' = Recorded(scn.emit.found, "emit")
         /\ Files' = Files
PROOF BY DEF Recorded, Level, Files

LEMMA EarlierStays ==
  ASSUME scn' = scn
  PROVE  /\ Earlier' = Earlier
         /\ UNCHANGED <<modules, success>> => Emits' = Emits
PROOF
  <1>1. Earlier' = Earlier
    BY RecordedStays DEF Earlier
  <1>2. QED BY <1>1 DEF Emits, HasErrors

LEMMA EarlierHolds ==
  /\ \A f \in Files : Recorded(scn.add[f].found, f) \subseteq Earlier
  /\ Recorded(scn.post.found, "post_add_modules") \subseteq Earlier
PROOF
  <1>1. ASSUME NEW f \in Files
        PROVE  Recorded(scn.add[f].found, f) \subseteq Earlier
    <2>1. Recorded(scn.add[f].found, f) \in {Recorded(scn.add[g].found, g) : g \in Files}
      OBVIOUS
    <2>2. QED BY <2>1 DEF Earlier
  <1>2. Recorded(scn.post.found, "post_add_modules") \subseteq Earlier
    BY DEF Earlier
  <1>3. QED BY <1>1, <1>2

(* What the scenario lets a run find is well-formed.                       *)
LEMMA ScenarioType ==
  ASSUME TypeOK
  PROVE  /\ \A f \in File :
              /\ scn.add[f].found \in SUBSET Problem
              /\ scn.add[f].result \in {"ok", "fails", "crashes"}
              /\ Recorded(scn.add[f].found, f) \subseteq Error
         /\ scn.post.result \in {"ok", "crashes"}
         /\ Recorded(scn.post.found, "post_add_modules") \subseteq Error
         /\ scn.emit.result \in {"returns", "throws", "crashes"}
         /\ Recorded(scn.emit.found, "emit") \subseteq Error
         /\ Files \subseteq File
         /\ Range(todo) \subseteq File
PROOF
  <1>1. /\ scn.add \in [File -> Outcome({"ok", "fails", "crashes"})]
        /\ scn.post \in Outcome({"ok", "crashes"})
        /\ scn.emit \in Outcome({"returns", "throws", "crashes"})
        /\ scn.primary \in Seq(File) /\ scn.deviations \in Seq(File)
        /\ todo \in Seq(File)
    BY DEF TypeOK, IsScenario
  <1>2. /\ \A f \in File :
             /\ scn.add[f].found \in SUBSET Problem
             /\ scn.add[f].result \in {"ok", "fails", "crashes"}
        /\ scn.post.found \in SUBSET Problem
        /\ scn.post.result \in {"ok", "crashes"}
        /\ scn.emit.found \in SUBSET Problem
        /\ scn.emit.result \in {"returns", "throws", "crashes"}
    BY <1>1 DEF Outcome
  <1>3. \A at : at \in File \cup {"post_add_modules", "emit"} => at \in Place
    BY DEF Place
  <1>4. Files \subseteq File /\ Range(todo) \subseteq File
    BY <1>1 DEF Files, Range
  <1>5. QED BY <1>2, <1>3, <1>4, RecordedType

(* The invariant holds at the start.                                       *)
LEMMA InvInit == Init => IInv
PROOF
  <1> SUFFICES ASSUME Init PROVE IInv
    OBVIOUS
  <1>1. TypeOK
    BY ScenarioAssumption DEF Init, TypeOK, IsScenario, Steps, Exits
  <1>2. Named /\ Collected
    BY DEF Init, Named, Collected, Pending, Files
  <1>3. Checked /\ Emitted /\ Origin /\ Early /\ Failed /\ Kept
    BY DEF Init, Checked, Emitted, Origin, Early, Failed, Kept
  <1>4. Opened /\ Silent /\ Ended
    BY DEF Init, Opened, Silent, Ended
  <1>5. QED BY <1>1, <1>2, <1>3, <1>4 DEF Init, IInv

(* Adding a file: it is no longer pending, and what is found is recorded.  *)
LEMMA InvAddFile == IInv /\ AddFile => IInv'
PROOF
  <1> SUFFICES ASSUME IInv, AddFile PROVE IInv'
    OBVIOUS
  <1> USE DEF IInv
  <1>1. /\ pc \in {"files", "deviations"} /\ todo # <<>> /\ todo \in Seq(File)
        /\ scn' = scn /\ pc' = pc /\ printed' = printed /\ file' = file /\ exit' = exit
        /\ todo' = Tail(todo)
        /\ exit = "running" /\ printed = {}
    BY DEF AddFile, Adding, TypeOK, Silent
  <1> DEFINE f == Head(todo)
  <1>2. /\ f \in File /\ f \in Range(todo) /\ todo' \in Seq(File)
        /\ Range(todo) = {f} \cup Range(todo')
    BY <1>1, HeadAndTail
  <1>3. /\ errors' = errors \cup Recorded(scn.add[f].found, f)
        /\ success' = (success /\ scn.add[f].result = "ok")
        /\ scn.add[f].result # "crashes"
        /\ modules' = IF pc = "files" /\ scn.add[f].result = "ok"
                      THEN Append(modules, f) ELSE modules
    BY DEF AddFile, Added
  <1>4. f \in Files /\ Named'
    BY <1>1, <1>2, RecordedStays DEF Named
  <1>5. TypeOK'
    <2>1. modules' \in Seq(File) /\ success' \in BOOLEAN
      BY <1>2, <1>3 DEF TypeOK
    <2>2. errors' \subseteq Error
      BY <1>2, <1>3, ScenarioType DEF TypeOK
    <2>3. IsScenario(scn)'
      BY <1>1 DEF TypeOK, IsScenario
    <2>4. QED BY <1>1, <1>2, <2>1, <2>2, <2>3 DEF TypeOK
  <1>6. Collected'
    <2>1. \A g \in Files : g \in Pending => g \in Pending' \/ g = f
      BY <1>1, <1>2 DEF Pending
    <2>2. ASSUME NEW g \in Files, g \notin Pending'
          PROVE  /\ success' => scn.add[g].result = "ok"
                 /\ Recorded(scn.add[g].found, g) \subseteq errors'
      BY <2>1, <2>2, <1>1, <1>3 DEF Collected
    <2>3. QED BY <2>2, <1>1, RecordedStays DEF Collected
  <1>7. Origin'
    BY <1>1, <1>3, <1>4, RecordedStays DEF Origin
  <1>8. Failed'
    <2>1. CASE scn.add[f].result = "ok"
      BY <2>1, <1>3, ErrorsStay DEF Failed, TypeOK
    <2>2. CASE scn.add[f].result = "fails"
      <3>1. PICK p \in scn.add[f].found : p.expected = "error"
        BY <2>2, <1>2, ScenarioAssumption
      <3>2. HasErrors(Recorded(scn.add[f].found, f))
        BY <3>1, <1>2, ScenarioType, ErrorsAreRecorded
      <3>3. QED BY <3>2, <1>3, ErrorsStay DEF HasErrors, Failed
    <2>3. QED BY <2>1, <2>2, <1>2, <1>3, ScenarioType
  <1>9. Kept'
    <2>1. Append(modules, f) # <<>>
      BY <1>2 DEF TypeOK
    <2>2. success' => success /\ scn.add[f].result = "ok"
      BY <1>3
    <2>3. CASE pc = "files"
      BY <2>1, <2>2, <2>3, <1>1, <1>3 DEF Kept
    <2>4. CASE pc = "deviations"
      BY <2>2, <2>4, <1>1, <1>3 DEF Kept
    <2>5. QED BY <2>3, <2>4, <1>1
  <1>10. Checked' /\ Emitted' /\ Opened' /\ Silent' /\ Ended'
    BY <1>1 DEF Checked, Emitted, Opened, Silent, Ended
  <1>11. Early'
    BY <1>1, <1>3, <1>4, EarlierStays, EarlierHolds DEF Early
  <1>12. QED BY <1>1, <1>4, <1>5, <1>6, <1>7, <1>8, <1>9, <1>10, <1>11

(* The other steps of adding and checking.                                 *)
LEMMA InvAdding ==
  IInv /\ (AddFileCrashes \/ FilesAdded \/ DeviationsAdded \/ PostAddModules
             \/ ValidateFeatures) => IInv'
PROOF
  <1> SUFFICES ASSUME IInv, AddFileCrashes \/ FilesAdded \/ DeviationsAdded
                              \/ PostAddModules \/ ValidateFeatures
               PROVE IInv'
    OBVIOUS
  <1> USE DEF IInv
  <1>1. scn' = scn
    BY DEF AddFileCrashes, FilesAdded, DeviationsAdded, PostAddModules, ValidateFeatures
  <1>2. IsScenario(scn)'
    BY <1>1 DEF TypeOK, IsScenario
  <1>3. pc # "ended" /\ exit = "running" /\ printed = {} /\ file = "before"
    BY DEF AddFileCrashes, Adding, FilesAdded, DeviationsAdded, PostAddModules,
           ValidateFeatures, Silent, Opened
  <1>8. Early'
    <2>1. \/ errors' = errors
          \/ errors' = errors \cup Recorded(scn.post.found, "post_add_modules")
      BY DEF AddFileCrashes, FilesAdded, DeviationsAdded, PostAddModules, ValidateFeatures
    <2>2. pc \notin {"report", "ended"}
      BY DEF AddFileCrashes, Adding, FilesAdded, DeviationsAdded, PostAddModules,
             ValidateFeatures
    <2>3. QED BY <1>1, <2>1, <2>2, EarlierStays, EarlierHolds DEF Early
  <1>4. CASE AddFileCrashes
    <2>1. /\ pc' = "ended" /\ exit' = "internal_error" /\ printed' = {}
          /\ UNCHANGED <<todo, success, modules, errors, file>>
          /\ pc \in {"files", "deviations"} /\ todo # <<>>
          /\ scn.add[Head(todo)].result = "crashes"
      BY <1>3, <1>4 DEF AddFileCrashes, Ends, Adding, Added
    <2>2. Head(todo) \in Files
      BY <2>1, HeadAndTail DEF TypeOK, Named
    <2>3. TypeOK'
      BY <1>2, <2>1 DEF TypeOK, Steps, Exits
    <2>4. Origin' /\ Failed' /\ Named' /\ Collected' /\ Checked' /\ Emitted' /\ Kept'
      BY <1>1, <2>1, RecordedStays
      DEF Origin, Failed, Named, Collected, Checked, Emitted, Kept, HasErrors
    <2>5. Opened' /\ Silent' /\ Ended'
      BY <1>1, <1>3, <2>1, <2>2, RecordedStays DEF Opened, Silent, Ended
    <2>6. QED BY <1>1, <1>8, <2>3, <2>4, <2>5
  <1>5. CASE FilesAdded \/ DeviationsAdded \/ ValidateFeatures
    <2>1. /\ UNCHANGED <<success, modules, errors, file>>
          /\ exit' # "internal_error" /\ printed' = {}
          /\ pc' # "ended" => exit' = exit
      BY <1>3, <1>5 DEF FilesAdded, DeviationsAdded, ValidateFeatures, Ends, GoesOn
    <2>2. todo' \in Seq(File) /\ pc' \in Steps /\ exit' \in Exits
      BY <1>2, <1>3, <1>5
      DEF TypeOK, IsScenario, FilesAdded, DeviationsAdded, ValidateFeatures, Ends, GoesOn,
          Steps, Exits
    <2>3. TypeOK'
      BY <1>2, <2>1, <2>2 DEF TypeOK
    <2>4. Named' /\ Pending' = Pending
      BY <1>1, <1>5
      DEF Named, Pending, Files, FilesAdded, DeviationsAdded, ValidateFeatures, Ends, GoesOn,
          Range
    <2>5. Origin' /\ Failed' /\ Collected'
      BY <1>1, <1>3, <2>1, <2>4, RecordedStays DEF Origin, Failed, Collected, HasErrors
    <2>6. Kept' /\ Checked' /\ Emitted'
      BY <1>1, <1>3, <1>5, <2>1, RecordedStays
      DEF Kept, Checked, Emitted, FilesAdded, DeviationsAdded, ValidateFeatures, Ends, GoesOn
    <2>7. Opened' /\ Silent' /\ Ended'
      BY <1>1, <1>3, <1>5, <2>1
      DEF Opened, Silent, Ended, FilesAdded, DeviationsAdded, ValidateFeatures, Ends, GoesOn
    <2>8. QED BY <1>1, <1>8, <2>3, <2>4, <2>5, <2>6, <2>7
  <1>6. CASE PostAddModules
    <2>1. /\ pc = "post" /\ UNCHANGED <<todo, success, modules, file>> /\ printed' = {}
          /\ \/ /\ scn.post.result = "crashes" /\ errors' = errors
                /\ pc' = "ended" /\ exit' = "internal_error"
             \/ /\ errors' = errors \cup Recorded(scn.post.found, "post_add_modules")
                /\ pc' = "features" /\ exit' = exit
      BY <1>3, <1>6 DEF PostAddModules, Ends, GoesOn
    <2>2. TypeOK'
      <3>1. errors' \subseteq Error
        BY <2>1, ScenarioType DEF TypeOK
      <3>2. QED BY <1>2, <1>3, <2>1, <3>1 DEF TypeOK, Steps, Exits
    <2>3. Named' /\ Pending' = Pending
      BY <1>1, <2>1 DEF Named, Pending
    <2>4. Origin' /\ Failed'
      BY <1>1, <2>1, RecordedStays DEF Origin, Failed, HasErrors
    <2>5. Collected' /\ Checked' /\ Emitted' /\ Kept'
      BY <1>1, <1>3, <2>1, <2>3, RecordedStays DEF Collected, Checked, Emitted, Kept
    <2>6. Opened' /\ Silent' /\ Ended'
      BY <1>1, <1>3, <2>1 DEF Opened, Silent, Ended
    <2>7. QED BY <1>1, <1>8, <2>2, <2>3, <2>4, <2>5, <2>6
  <1>7. QED BY <1>4, <1>5, <1>6

(* From the decision on, todo, success and modules do not change, and what *)
(* has been collected stays.                                               *)
LEMMA InvLater ==
  ASSUME IInv, scn' = scn, UNCHANGED <<todo, success, modules>>,
         pc \in {"decide", "emit", "report"},
         pc' \in {"emit", "report", "ended"}, exit' \in Exits,
         \/ errors' = errors
         \/ scn.format /\ errors' = errors \cup Recorded(scn.emit.found, "emit"),
         printed' \subseteq errors'
  PROVE  /\ printed' \subseteq Error
         /\ IsScenario(scn)' /\ errors' \subseteq Error
         /\ Named' /\ Collected' /\ Checked' /\ Origin' /\ Failed' /\ Kept'
PROOF
  <1> USE DEF IInv
  <1>1. IsScenario(scn)'
    BY DEF TypeOK, IsScenario
  <1>2. errors' \subseteq Error
    BY ScenarioType DEF TypeOK
  <1>3. exit = "running"
    BY DEF Silent
  <1>4. Named' /\ Pending' = {} /\ Pending = {}
    BY DEF Named, Pending
  <1>5. Collected' /\ Checked'
    BY <1>3, <1>4, RecordedStays DEF Collected, Checked
  <1>6. Origin'
    BY RecordedStays DEF Origin
  <1>7. Failed'
    BY DEF Failed, HasErrors
  <1>8. Kept'
    BY <1>3 DEF Kept
  <1>9. QED BY <1>1, <1>2, <1>4, <1>5, <1>6, <1>7, <1>8

(* The decision.                                                           *)
LEMMA InvDecide ==
  IInv /\ (StopOnErrors \/ CheckOnly \/ NothingToEmit \/ OpenOutput) => IInv'
PROOF
  <1> SUFFICES ASSUME IInv, StopOnErrors \/ CheckOnly \/ NothingToEmit \/ OpenOutput
               PROVE IInv'
    OBVIOUS
  <1> USE DEF IInv
  <1>1. /\ scn' = scn /\ UNCHANGED <<todo, success, modules, errors>>
        /\ pc = "decide" /\ exit = "running" /\ printed = {} /\ file = "before"
    BY DEF StopOnErrors, CheckOnly, NothingToEmit, OpenOutput, Silent, Opened
  <1>2. ~success => HasErrors(errors)
    BY DEF Failed
  <1>3. HasErrors(errors)' = HasErrors(errors)
    BY <1>1 DEF HasErrors
  <1>4. \/ /\ pc' = "ended" /\ exit' = "errors_printed" /\ file' = file
           /\ printed' = errors /\ HasErrors(errors) /\ ~Emits
        \/ /\ pc' = "ended" /\ exit' = "ok" /\ file' = file /\ printed' = errors
           /\ success /\ ~HasErrors(errors) /\ ~scn.format
        \/ /\ pc' = "ended" /\ exit' = "format_no_modules" /\ file' = file /\ printed' = {}
           /\ scn.format /\ modules = <<>> /\ ~HasErrors(errors)
        \/ /\ pc' = "ended" /\ exit' = "file_error" /\ file' = file /\ printed' = {}
           /\ scn.format /\ scn.outfile /\ ~scn.can_open
        \/ /\ pc' = "emit" /\ exit' = exit /\ printed' = {} /\ scn.format
           /\ file' = IF scn.outfile THEN "open" ELSE "before"
    <2>1. CASE StopOnErrors
      <3>1. HasErrors(errors) => HasErrors(Earlier)
        BY <1>1 DEF Early, HasErrors
      <3>2. HasErrors(errors) /\ ~Emits
        BY <2>1, <1>2, <3>1 DEF StopOnErrors, Stops, Emits
      <3>3. QED BY <2>1, <3>2, <1>1 DEF StopOnErrors, Ends
    <2>2. CASE CheckOnly
      BY <2>2, <1>1 DEF CheckOnly, Stops, Ends
    <2>3. CASE NothingToEmit
      BY <2>3, <1>1 DEF NothingToEmit, Ends, Emits
    <2>4. CASE OpenOutput
      BY <2>4, <1>1 DEF OpenOutput, Ends, GoesOn
    <2>5. QED BY <2>1, <2>2, <2>3, <2>4
  <1>5. pc' \in {"emit", "ended"} /\ exit' \in Exits /\ printed' \subseteq errors'
    BY <1>1, <1>4 DEF Exits
  <1>6. /\ IsScenario(scn)' /\ errors' \subseteq Error /\ printed' \subseteq Error
        /\ Named' /\ Collected' /\ Checked' /\ Origin' /\ Failed' /\ Kept'
    BY <1>1, <1>5, InvLater
  <1>7. TypeOK'
    BY <1>1, <1>4, <1>5, <1>6 DEF TypeOK, Steps
  <1>8. Emitted' /\ Opened' /\ Silent'
    BY <1>1, <1>4 DEF Emitted, Opened, Silent
  <1>9. Ended'
    BY <1>1, <1>3, <1>4, EarlierStays DEF Ended, EndedOk, EndedPrinting
  <1>10. Early'
    BY <1>1, EarlierStays DEF Early
  <1>11. QED BY <1>1, <1>6, <1>7, <1>8, <1>9, <1>10

(* The output plugin, and the report after it.                             *)
LEMMA InvEmit ==
  IInv /\ (EmitReturns \/ EmitThrows \/ EmitCrashes \/ Report) => IInv'
PROOF
  <1> SUFFICES ASSUME IInv, EmitReturns \/ EmitThrows \/ EmitCrashes \/ Report
               PROVE IInv'
    OBVIOUS
  <1> USE DEF IInv
  <1>1. /\ scn' = scn /\ UNCHANGED <<todo, success, modules>>
        /\ pc \in {"emit", "report"} /\ exit = "running" /\ printed = {}
        /\ scn.format /\ file = IF scn.outfile THEN "open" ELSE "before"
    BY DEF EmitReturns, EmitThrows, EmitCrashes, Report, Silent, Opened
  <1>2. ~success => HasErrors(errors)
    BY DEF Failed
  <1>3. EmitRecorded' <=> /\ scn.emit.result = "returns"
                          /\ Recorded(scn.emit.found, "emit") \subseteq errors'
    BY <1>1, RecordedStays DEF EmitRecorded
  <1>4. CASE EmitReturns
    <2>1. /\ scn.emit.result = "returns" /\ pc' = "report" /\ exit' = exit
          /\ printed' = {} /\ file' = file
          /\ errors' = errors \cup Recorded(scn.emit.found, "emit")
      BY <1>1, <1>4 DEF EmitReturns, GoesOn
    <2>2. EmitRecorded'
      BY <1>3, <2>1
    <2>3. exit' \in Exits /\ printed' \subseteq errors'
      BY <2>1 DEF TypeOK
    <2>4. /\ IsScenario(scn)' /\ errors' \subseteq Error /\ printed' \subseteq Error
          /\ Named' /\ Collected' /\ Checked' /\ Origin' /\ Failed' /\ Kept'
      BY <1>1, <2>1, <2>3, InvLater
    <2>5. TypeOK'
      BY <1>1, <2>1, <2>3, <2>4 DEF TypeOK, Steps
    <2>6. Emitted' /\ Opened' /\ Silent' /\ Ended'
      BY <1>1, <2>1, <2>2 DEF Emitted, Opened, Silent, Ended
    <2>7. QED BY <1>1, <2>1, <2>4, <2>5, <2>6 DEF Early
  <1>5. CASE EmitThrows \/ EmitCrashes \/ Report
    <2>1. HasErrors(errors)' = HasErrors(errors)
      BY <1>5 DEF HasErrors, EmitThrows, EmitCrashes, Report
    <2>2. /\ errors' = errors /\ pc' = "ended"
          /\ \/ /\ scn.emit.result = "throws" /\ exit' = "emit_error"
                /\ printed' = {} /\ file' = file
             \/ /\ scn.emit.result = "crashes" /\ file = "open" /\ exit' = "internal_error"
                /\ printed' = {} /\ file' = "deleted"
             \/ /\ scn.emit.result = "crashes" /\ file # "open" /\ exit' = "emit_crash"
                /\ printed' = errors /\ file' = file
             \/ /\ EmitRecorded' /\ HasErrors(errors) /\ exit' = "errors_printed"
                /\ printed' = errors
                /\ file' = IF ~scn.outfile THEN file ELSE "deleted"
             \/ /\ EmitRecorded' /\ ~HasErrors(errors) /\ exit' = "ok" /\ printed' = errors
                /\ file' = IF ~scn.outfile THEN file ELSE "written"
      <3>1. CASE EmitThrows
        BY <3>1, <1>1 DEF EmitThrows, Ends
      <3>2. CASE EmitCrashes
        BY <3>2, <1>1 DEF EmitCrashes, Ends
      <3>3. CASE Report
        <4>1. EmitRecorded'
          BY <3>3, <1>3 DEF Report, Emitted, EmitRecorded
        <4>2. QED BY <3>3, <4>1, <1>1 DEF Report, Ends
      <3>4. QED BY <1>5, <3>1, <3>2, <3>3
    <2>3. exit' \in Exits /\ printed' \subseteq errors'
      BY <2>2 DEF Exits
    <2>4. /\ IsScenario(scn)' /\ errors' \subseteq Error /\ printed' \subseteq Error
          /\ Named' /\ Collected' /\ Checked' /\ Origin' /\ Failed' /\ Kept'
      BY <1>1, <2>2, <2>3, InvLater
    <2>5. TypeOK'
      BY <1>1, <2>2, <2>3, <2>4 DEF TypeOK, Steps
    <2>6. Emitted' /\ Opened' /\ Silent'
      BY <2>2 DEF Emitted, Opened, Silent
    <2>7. Ended'
      BY <1>1, <1>2, <2>1, <2>2 DEF Ended, EndedOk, EndedPrinting
    <2>8. QED BY <1>1, <2>2, <2>4, <2>5, <2>6, <2>7 DEF Early
  <1>6. QED BY <1>4, <1>5

LEMMA InvStutter == IInv /\ UNCHANGED vars => IInv'
PROOF
  <1> SUFFICES ASSUME IInv, UNCHANGED vars PROVE IInv'
    OBVIOUS
  <1> USE DEF IInv, vars
  <1>1. TypeOK'
    BY DEF TypeOK, IsScenario
  <1>2. Named' /\ Collected' /\ Checked'
    BY RecordedStays DEF Named, Collected, Checked, Pending
  <1>3. Emitted' /\ Origin' /\ Early' /\ Failed' /\ Kept'
    BY RecordedStays, EarlierStays
    DEF Emitted, EmitRecorded, Origin, Early, Failed, HasErrors, Kept
  <1>4. Opened' /\ Silent' /\ Ended'
    BY RecordedStays, EarlierStays
    DEF Opened, Silent, Ended, EndedOk, EndedPrinting, EmitRecorded, HasErrors
  <1>5. QED BY <1>1, <1>2, <1>3, <1>4

LEMMA InvStep == IInv /\ [Next]_vars => IInv'
PROOF
  <1>1. IInv /\ Terminated => IInv'
    BY InvStutter DEF Terminated
  <1>2. QED
    BY <1>1, InvStutter, InvAddFile, InvAdding, InvDecide, InvEmit DEF Next

LEMMA Invariant == Spec => []IInv
PROOF BY InvInit, InvStep, PTL DEF Spec

-----------------------------------------------------------------------------
(* The variables keep their types: what is recorded always has a level.    *)
THEOREM TypeCorrect == Spec => []TypeOK
PROOF
  <1>1. IInv => TypeOK
    BY DEF IInv
  <1>2. QED BY <1>1, Invariant, PTL

(* At the end nothing is pending.                                          *)
LEMMA CollectedAtEnd ==
  ASSUME IInv, exit \notin {"running", "internal_error"}
  PROVE  /\ pc = "ended"
         /\ \A f \in Files : /\ success => scn.add[f].result = "ok"
                             /\ Recorded(scn.add[f].found, f) \subseteq errors
         /\ Recorded(scn.post.found, "post_add_modules") \subseteq errors
PROOF
  <1>1. pc = "ended"
    BY DEF IInv, Silent
  <1>2. Pending = {}
    BY <1>1 DEF Pending
  <1>3. QED BY <1>1, <1>2 DEF IInv, Collected, Checked

(* Exit status 0 means that all went well and the output is complete, and  *)
(* a run that fails for its errors has printed one.                        *)
THEOREM ExitCorrect == Spec => []ExitTellsOutcome
PROOF
  <1>1. ASSUME IInv PROVE ExitTellsOutcome
    <2>1. CASE exit = "ok"
      <3>1. EndedOk /\ \A f \in Files : success => scn.add[f].result = "ok"
        BY <1>1, <2>1, CollectedAtEnd DEF IInv, Ended
      <3>2. QED BY <3>1, <2>1 DEF EndedOk, EmitRecorded, ExitTellsOutcome
    <2>2. CASE exit = "errors_printed"
      <3>1. EndedPrinting
        BY <1>1, <2>2, CollectedAtEnd DEF IInv, Ended
      <3>2. QED BY <3>1, <2>2 DEF EndedPrinting, HasErrors, ExitTellsOutcome
    <2>3. QED BY <2>1, <2>2 DEF ExitTellsOutcome
  <1>2. QED BY <1>1, Invariant, PTL

(* What is found in any file, by the checks or by the plugin is printed,   *)
(* whether or not there is an output file: a run that should call the      *)
(* plugin does not end with its errors before it has (Emits, EndedPrinting)*)
THEOREM NothingLeftUnsaid == Spec => []NothingUnsaid
PROOF
  <1>1. ASSUME IInv PROVE NothingUnsaid
    <2>1. ASSUME exit \in {"ok", "errors_printed", "emit_crash"}
          PROVE  /\ \A f \in Files : Recorded(scn.add[f].found, f) \subseteq printed
                 /\ Recorded(scn.post.found, "post_add_modules") \subseteq printed
                 /\ Emits /\ scn.emit.result = "returns" =>
                      Recorded(scn.emit.found, "emit") \subseteq printed
      <3>1. pc = "ended" /\ printed = errors
        BY <1>1, <2>1, CollectedAtEnd DEF IInv, Ended, EndedOk, EndedPrinting
      <3>2. Emits /\ scn.emit.result = "returns" => EmitRecorded
        BY <1>1, <2>1, <3>1 DEF IInv, Ended, EndedOk, EndedPrinting, Emits
      <3>3. QED BY <1>1, <2>1, <3>1, <3>2, CollectedAtEnd DEF EmitRecorded
    <2>2. QED BY <2>1 DEF NothingUnsaid
  <1>2. QED BY <1>1, Invariant, PTL

(* The output file is left complete by a run that succeeds, and otherwise  *)
(* deleted, unless the plugin threw.                                       *)
THEOREM OutfileCorrect == Spec => []OutfileAtEnd
PROOF
  <1>1. ASSUME IInv, pc = "ended"
        PROVE  /\ file = "written" => exit = "ok"
               /\ file = "open" => exit = "emit_error"
               /\ file = "before" => ~(exit = "ok" /\ scn.format /\ scn.outfile)
    BY <1>1 DEF IInv, Ended, EndedOk, EndedPrinting, TypeOK, Exits
  <1>2. IInv => OutfileAtEnd
    BY <1>1 DEF OutfileAtEnd
  <1>3. QED BY <1>2, Invariant, PTL

(* Harmless problems leave no error, and none of what is not to be         *)
(* reported.                                                               *)
LEMMA HarmlessRecorded ==
  ASSUME NEW found, Harmless(found), NEW at, NEW e \in Recorded(found, at)
  PROVE  /\ e.level # "error"
         /\ ~scn.levels.none /\ e.code \notin scn.levels.no_warning
PROOF
  <1>1. PICK p \in found :
          Level(p) # "none" /\ e = [code |-> p.code, level |-> Level(p), at |-> at]
    BY DEF Recorded
  <1>2. e.code = p.code /\ e.level = Level(p) /\ p.expected = "warning"
    BY <1>1 DEF Harmless
  <1>3. QED BY <1>1, <1>2 DEF Harmless, Level

(* A run in which nothing goes wrong but harmless warnings succeeds.       *)
THEOREM HarmlessSucceeds == Spec => []HarmlessRunSucceeds
PROOF
  <1>1. ASSUME IInv, pc = "ended",
               \A f \in Files : scn.add[f].result = "ok" /\ Harmless(scn.add[f].found),
               scn.post.result = "ok" /\ Harmless(scn.post.found),
               ~scn.unknown_feature,
               scn.format =>
                 /\ scn.primary # <<>> /\ (scn.outfile => scn.can_open)
                 /\ scn.emit.result = "returns" /\ Harmless(scn.emit.found)
        PROVE  /\ exit = "ok"
               /\ \A e \in printed :
                    ~scn.levels.none /\ e.code \notin scn.levels.no_warning
    <2>1. \A e \in errors :
            /\ e.level # "error"
            /\ ~scn.levels.none /\ e.code \notin scn.levels.no_warning
      BY <1>1, HarmlessRecorded DEF IInv, Origin
    <2>2. ~HasErrors(errors) /\ success
      BY <1>1, <2>1 DEF HasErrors, IInv, Failed
    <2>3. exit \in Exits
      BY <1>1 DEF IInv, TypeOK
    <2>4. exit = "ok"
      BY <1>1, <2>2, <2>3 DEF IInv, Ended, EndedPrinting, Kept, Exits
    <2>5. printed = errors
      BY <1>1, <2>4 DEF IInv, Ended, EndedOk
    <2>6. QED BY <2>1, <2>4, <2>5
  <1>2. IInv => HarmlessRunSucceeds
    BY <1>1 DEF HarmlessRunSucceeds
  <1>3. QED BY <1>2, Invariant, PTL

(* A file that was there is overwritten for models without errors only, or *)
(* by a format that is meant for models with errors.                       *)
THEOREM OverwritesSafely == Spec => OverwritesForCleanModels
PROOF
  <1>1. IInv /\ [Next]_vars =>
          [file = "before" /\ file' # "before" =>
             (success /\ ~HasErrors(errors)) \/ scn.allow]_vars
    <2> SUFFICES ASSUME IInv, Next, file = "before", file' # "before"
                 PROVE  (success /\ ~HasErrors(errors)) \/ scn.allow
      OBVIOUS
    <2>1. CASE OpenOutput
      BY <2>1 DEF OpenOutput, Stops
    <2>2. CASE EmitCrashes \/ Report
      BY <2>2 DEF EmitCrashes, Report, IInv, Opened
    <2>3. QED
      BY <2>1, <2>2
      DEF Next, AddFile, AddFileCrashes, FilesAdded, DeviationsAdded, PostAddModules,
          ValidateFeatures, StopOnErrors, CheckOnly, NothingToEmit, EmitReturns, EmitThrows,
          Terminated, vars
  <1>2. QED BY <1>1, Invariant, PTL DEF Spec, OverwritesForCleanModels
=============================================================================
