SPECIFICATION FairSpec
CONSTANTS
  Runs = {r1, r2}
  RunId <- MCRunId
  Operators = {o1, o2}
  Answers = {retry, abort}
  Malformed = Malformed
  None = None
  MaxHandoffs = 2
  MaxCrashes = 1
INVARIANTS
  TypeOK
  AnsweredBeforeWoken
  NoLostWakeup
  AcceptedAnswerStands
PROPERTIES
  KeepsHandoff
  AnswerReleasesRun
CHECK_DEADLOCK FALSE
