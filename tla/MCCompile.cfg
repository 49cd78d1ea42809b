SPECIFICATION Spec
CONSTANTS
  Worlds = {"found", "slow", "absent"}
  Pages = {"form", "record", "loading", "nothing"}
  Acts = {"go", "site", "read"}
  Expects = {"opened", "status", "none", "typed", "quoted"}
  Outputs = {"status"}
  Ids <- MCIds
  NoPage = NoPage
  NoAct = NoAct
  NoExpect = NoExpect
  NoOutput = NoOutput
  NoArtifact = NoArtifact
  Start = "form"
  App <- MCApp
  Drifts <- MCDrifts
  Holds <- MCHolds
  Reads <- MCReads
  Inlines = {"quoted"}
  ValueEquals = {"typed"}
  StepName <- MCStepName
  Suffixed <- MCSuffixed
  Says <- MCSays
  Declares <- MCDeclares
  MaxTurns = 5
  MaxExtraTurns = 3
INVARIANTS
  TypeOK
  SuccessReplaysToSuccess
  BusinessReplaysToBusiness
  StepIdsAreUnique
