SPECIFICATION Spec
CONSTANTS
  Scenario <- MCScenario
INVARIANTS
  ParsesExactly
  FailureFreesAll
  ReadsToTheEnd
