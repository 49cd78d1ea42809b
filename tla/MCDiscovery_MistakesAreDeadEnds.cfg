SPECIFICATION SpecBoth
CONSTANTS
  Inputs = {"id"}
  Outputs = {"status"}
  AllowedLocations = {"app"}
  Pages <- MCPages
  Nodes = {"box", "go", "field"}
  Locations = {"app", "out"}
  Expects <- MCExpects
  Names = {"none", "placeholder", "id", "status"}
  NoNode = NoNode
  NoPage = NoPage
  NoTurn = NoTurn
  NoFinish = NoFinish
  NoRecord = NoRecord
  Start <- MCStart
  App <- MCApp
  Drifts <- MCDrifts
  Turns <- MCTurns
  MAX_TURNS = 4
  MAX_REPEATS = 2
INVARIANTS
  MistakesAreDeadEnds
