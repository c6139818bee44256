SPECIFICATION Spec
CONSTANTS
  ann = ann
  bob = bob
  nobody = nobody
  Parties = {ann, bob}
  Buyer = ann
  Nobody = nobody
  issuer = issuer
  auditor = auditor
  norole = norole
  Roles = {issuer, auditor}
  NoRole = norole
  Terms <- GrantsMade
  MaxBlock = 3
  MaxTxs = 4
  Span = 1
  MaxAborts = 1
CHECK_DEADLOCK FALSE
INVARIANTS
  NoEventMissed
  PointInTimeExact
  DerivedWhileOrderly
PROPERTIES
  CatchesUp
