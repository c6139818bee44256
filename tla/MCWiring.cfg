SPECIFICATION Spec
CONSTANTS
  ann = ann
  bob = bob
  zero = zero
  serial1 = serial1
  serial2 = serial2
  n1 = n1
  n2 = n2
  n3 = n3
  depot = depot
  yard = yard
  good = good
  damaged = damaged
  Accounts <- MCAccounts
  NoAccount = zero
  Grants <- FleetGrants
  Controllers = {bob}
  InitialAdmin = ann
  MaxTime = 0
  Identifiers = {serial1, serial2}
  Windows = {0}
  DefaultWindow = 1
  MaxToken = 2
  Payloads <- FleetPayloads
  Nonces = {n1, n2, n3}
  Locations = {depot, yard}
  Conditions = {good, damaged}
  MaxAttestation = 2
  MaxDivergence = 1
INVARIANTS
  ConflictsRecorded
  OpenIsReconcilable
  IdentifierNamesOneToken
PROPERTIES
  KeepsCustodyPromise
