SPECIFICATION FairSpecBoth
CONSTANTS
  MaxNavigations = 2
  MaxObservations = 1
  KeepKnew = FALSE
  Armings <- MCArmings
  MaxArms = 2
  MaxTrouble = 3
INVARIANTS
  TypeOKBoth
  OnceIsSpentOnce
PROPERTIES
  ReadyInTheEnd
CHECK_DEADLOCK FALSE
