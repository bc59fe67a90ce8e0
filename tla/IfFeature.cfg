SPECIFICATION Spec
CONSTANTS
  Scenario <- MCScenario
INVARIANTS
  AcceptsTheLanguage
  EvaluatesAsWritten
  SecondParserAccepts
