SPECIFICATION Spec
CONSTANTS
  Module <- MCModule
  Builtin <- MCBuiltin
  Keyword <- MCKeyword
  Cut <- MCCut
  TypeName <- MCTypeName
  MatchType <- MCMatchType
  NoType <- MCNoType
  Scenario <- MCScenario
INVARIANTS
  RulesLeadRight
  FailsWhileUnresolvable
  OkMeansInstalled
  ArgumentsChecked
