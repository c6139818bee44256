SPECIFICATION GatewaySpec
CONSTANTS
  ann = ann
  bob = bob
  carl = carl
  did1 = did1
  did2 = did2
  did3 = did3
  none = none
  zero = zero
  r1 = r1
  r2 = r2
  Accounts = {ann, bob, carl}
  Grantable <- MCGrantable
  Deployer = ann
  MaxTime = 1
  Dids = {did1, did2, did3}
  NoDid = none
  NoAccount = zero
  Nonces = {n1, n2}
  Requests = {r1, r2}
  Seeded <- MCSeeded
  SeededRoles <- MCSeededRoles
  Wallets = {ann, bob}
  Hashes = {h1}
  Creds = {c1}
  Checks = {v1}
  Workloads <- MCWorkloads
SYMMETRY Interchangeable
INVARIANTS
  NonceSingleUse
CHECK_DEADLOCK FALSE
