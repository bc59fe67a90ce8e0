SPECIFICATION Spec
CONSTANTS
  Scenario <- MCScenario
INVARIANT NeverHangs
