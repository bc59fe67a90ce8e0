CONSTANTS
  IntMax = 20
  UintMax = 41
  AtomMax = 6
  Year <- MCYear
  Scenario <- MCScenario
SPECIFICATION Spec
INVARIANTS
  ConvertsWhatItAccepts
  KeepsTheNumber
  DatesExist
