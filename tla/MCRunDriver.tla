---------------------------- MODULE MCRunDriver ----------------------------
(***************************************************************************)
(* Instances of RunDriver for TLC: two files f and g, both on the command  *)
(* line, one of them after --deviation-module, or only that; every outcome *)
(* for each of them, the checks and the plugin; and each of the options    *)
(* -W, -w and -E on its own, and -W error with an exception.               *)
(***************************************************************************)
EXTENDS RunDriver

Files2 == {"f", "g"}
Codes == {"w", "e"}

W == [code |-> "w", expected |-> "warning"]
E == [code |-> "e", expected |-> "error"]
Out(result, found) == [result |-> result, found |-> found]

AddOutcomes ==
  {Out("ok", {}), Out("ok", {W}), Out("ok", {E}), Out("fails", {W, E}),
   Out("crashes", {})}

PostOutcomes == {Out("ok", {}), Out("ok", {W}), Out("ok", {E}), Out("crashes", {})}

EmitOutcomes ==
  {Out("returns", {}), Out("returns", {W, E}), Out("returns", {W}),
   Out("throws", {}), Out("crashes", {})}

NoLevels ==
  [all_errors |-> FALSE, none |-> FALSE, no_warning |-> {}, warning |-> {}, error |-> {}]

Levels ==
  {NoLevels, [NoLevels EXCEPT !.all_errors = TRUE], [NoLevels EXCEPT !.none = TRUE],
   [NoLevels EXCEPT !.all_errors = TRUE, !.warning = {"w"}],
   [NoLevels EXCEPT !.no_warning = {"w"}], [NoLevels EXCEPT !.error = {"w"}]}

(* format, allow, outfile, can_open                                        *)
Outputs ==
  {<<FALSE, FALSE, FALSE, TRUE>>, <<TRUE, FALSE, FALSE, TRUE>>, <<TRUE, TRUE, TRUE, TRUE>>,
   <<TRUE, FALSE, TRUE, TRUE>>, <<TRUE, TRUE, FALSE, TRUE>>, <<TRUE, TRUE, TRUE, FALSE>>}

Asked ==
  {<<o, e>> \in Outputs \X EmitOutcomes :
     (o[1] /\ o[4]) \/ e = Out("returns", {})}

CommandLines == {<<<<"f", "g">>, <<>>>>, <<<<"f">>, <<"g">>>>, <<<<>>, <<"g">>>>}

AllScenarios ==
  {[primary |-> c[1], deviations |-> c[2], add |-> a, post |-> p, levels |-> l,
    unknown_feature |-> u, format |-> x[1][1], allow |-> x[1][2],
    outfile |-> x[1][3], can_open |-> x[1][4], emit |-> x[2]] :
     c \in CommandLines, a \in [Files2 -> AddOutcomes], p \in PostOutcomes,
     l \in Levels, u \in BOOLEAN, x \in Asked}
=============================================================================
