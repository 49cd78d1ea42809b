SPECIFICATION Spec
CONSTANTS
  MaxNavigations = 3
  MaxObservations = 2
  KeepKnew = TRUE
INVARIANTS
  SettledMeansAnswered
PROPERTIES
  NodesAreDrivenWhereSeen
