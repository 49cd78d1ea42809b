SPECIFICATION Spec
CONSTANTS
  Node <- MCNode
  Texts = {"search", "find", "id", "id:", "new", "old", "old list", "form"}
  Contains <- MCContains
  NoText = NoText
  NoOrdinal = NoOrdinal
  NoDescriptor = NoDescriptor
  NoNode = NoNode
  Landmarks = {"heading"}
  NEARBY_WINDOW = 2
  Loads <- MCLoads
  Becomes <- MCBecomes
  MaxDrifts = 1
  Tenants <- MCTenants
INVARIANTS
  TypeOK
  ProvedTargetIsActedOn
  NeverOneOfSeveral
  ToleranceKeepsWhatIsStrict
  TenantFindsTheSame
  OverlayNeverMisleads
