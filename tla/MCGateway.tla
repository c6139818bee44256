----------------------------- MODULE MCGateway -----------------------------
\* Three accounts, two of them seeded with a DID.
EXTENDS Gateway, TLC

CONSTANTS ann, bob, carl, did1, did2, did3, none, zero, r1, r2

MCGrantable == {<<ann, DEFAULT_ADMIN>>, <<ann, ADMIN>>, <<bob, MANAGER>>, <<bob, AUDITOR>>}
MCSeededRoles == {<<bob, MANAGER>>}
MCSeeded == did1 :> ann @@ did2 :> bob

load(kinds, inFlight, others) == [kinds |-> kinds, inFlight |-> inFlight, calls |-> others]

MCWorkloads == {
  load({"login"}, 2, 0),                              \* two logins with one nonce
  load({"login", "dids"}, 1, 3),                      \* a login against rotating keys
  load({"login", "attest", "pointInTime", "roles", "tick"}, 1, 2),
  load({"login", "grant", "allocate"}, 2, 2),         \* requests against each other
  load({"login", "mint", "roles"}, 1, 1),
  load({"login", "grant", "revokeRole", "revokeDid", "register", "rotate", "roles"}, 1, 2),
  load({"login", "issue", "withdraw", "verify", "dids"}, 1, 2)}

Interchangeable == Permutations(Requests)
=============================================================================
