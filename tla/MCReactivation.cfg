SPECIFICATION Spec
CONSTANTS
  ann = ann
  bob = bob
  did1 = did1
  did2 = did2
  none = none
  zero = zero
  Accounts = {ann, bob}
  Grantable <- MCGrantable
  Deployer = ann
  MaxTime = 2
  Dids = {did1, did2}
  NoDid = none
  NoAccount = zero
PROPERTIES
  GrantsAuthorised
