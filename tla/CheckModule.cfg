SPECIFICATION Spec
CONSTANTS
  Keyword <- MCKeyword
  Atom <- MCAtom
  None = "none"
  Builtin = "core"
  Module <- MCModule
  Type <- MCType
  Accepts <- MCAccepts
  Grammar <- MCGrammar
  Scenario <- MCScenario
INVARIANTS
  AcceptsExactly
  AccountedFor
  NothingBelowSkipped
  FailureLeavesError
