SPECIFICATION Spec
CONSTANTS
  Name <- Names
  Scenario <- AllScenarios
INVARIANTS
  AcceptsAnyOrder
  RejectsFaults
  HooksOnce
PROPERTIES
  AgainChangesNothing
