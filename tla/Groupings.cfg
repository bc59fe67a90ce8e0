SPECIFICATION Spec
CONSTANTS
  Grouping <- Names
  Inner = "n"
  Dummy = "$dummy"
  Scenario <- AllScenarios
INVARIANTS
  HandledWhenUsed
  ExpandedCompletely
  DirectCircleReported
PROPERTIES
  Termination
