SPECIFICATION Spec
CONSTANTS
  Scenario <- MCScenario
INVARIANT ThisCallWillNotFail
