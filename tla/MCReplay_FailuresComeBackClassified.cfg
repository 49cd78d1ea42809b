SPECIFICATION Spec
CONSTANTS
  Steps <- MCSteps
  Business <- MCBusiness
  Success <- MCSuccess
  Checkpoint = "total"
  Inputs = {"memo", "plan"}
  Required = {}
  Outputs = {"amount"}
  Interstitials <- MCInterstitials
  AllowedLocations = {"app"}
  Pages <- MCPages
  Locations = {"app", "out"}
  Predicates <- MCPredicates
  Asks <- MCAsks
  Targets = {"balance", "submit", "close"}
  NoTarget = NoTarget
  NoLocation = NoLocation
  NoPage = NoPage
  NoInput = NoInput
  NoOutput = NoOutput
  NoFailure = NoFailure
  NoResult = NoResult
  Runs <- MCRuns
  MaxInterventions = 3
INVARIANT
  FailuresComeBackClassified
