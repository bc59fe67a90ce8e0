SPECIFICATION Spec
CONSTANTS
  File <- MCFile
  Name <- MCName
  Revision <- MCRevision
  Scenario <- MCScenarios
INVARIANTS
  CircularityDecided
  NothingLost
  NeverAnOlderRevision
  CleanRun
  RevisionHandedDown
  CanonicalUntilImport
PROPERTIES
  RefinesDepthFirst
  Termination
