SPECIFICATION Spec
CONSTANTS
  Definition <- Names
  Scenario <- AllScenarios
INVARIANTS
  CircleDecided
  DerivationComplete
  CrashExplained
PROPERTIES
  Termination
