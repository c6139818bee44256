SPECIFICATION DeployedSpec
CONSTANTS
  ann = ann
  bob = bob
  zero = zero
  serial1 = serial1
  serial2 = serial2
  n1 = n1
  n2 = n2
  n3 = n3
  depot = depot
  yard = yard
  good = good
  damaged = damaged
  Accounts <- MCAccounts
  NoAccount = zero
  Grants <- MCGrants
  Controllers = {bob}
  InitialAdmin = ann
  MaxTime = 2
  Identifiers = {serial1}
  Windows = {0}
  DefaultWindow = 1
  MaxToken = 1
  Payloads <- MCPayloads
  Nonces = {n1, n2, n3}
  Locations = {depot, yard}
  Conditions = {good, damaged}
  MaxAttestation = 3
  MaxDivergence = 2
INVARIANTS
  TypeOK
  QuarantineIffOpen
  ConflictsRecorded
  SeparationOfDuties
  FreshnessCoversEvidence
  RecordedOnce
  OpenIsReconcilable
PROPERTIES
  ReleasedByResolution
  HistoryKept
  KeepsCustodyPromise
  ShowsLedger
