SPECIFICATION PortalSpec
CONSTANTS
  ann = ann
  bob = bob
  AssetIds = {1, 2}
  EvidenceTiers = {"IdentifierScan", "SignedInspection"}
  Tabs = {1, 2}
  Slots = {1, 2}
  Window = 2
  People = {ann, bob}
  Nobody = nobody
  Scenes <- MCScenes
INVARIANTS
  ScoreInBand
  OneChangeNotOverstated
  OpenNotListedResolved
  OwnWriteShown
  MixedOnlyAfterSwitch
PROPERTIES
  ShellSettles
CHECK_DEADLOCK FALSE
