SPECIFICATION Spec
CONSTANTS
  File <- Files2
  Code <- Codes
  Scenario <- AllScenarios
INVARIANTS
  ExitTellsOutcome
  NothingUnsaid
  OutfileAtEnd
