SPECIFICATION Spec
CONSTANTS
  MaxNavigations = 2
  MaxObservations = 2
  KeepKnew = TRUE
INVARIANTS
  CDPIsLeftAlone
