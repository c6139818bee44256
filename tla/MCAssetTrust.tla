---------------------------- MODULE MCAssetTrust ----------------------------
\* A small deployment: two accounts that are Admins at times, one of them a
\* Manager and the observer at times; three payloads that conflict pairwise,
\* one of which expires early.
EXTENDS AssetTrust

CONSTANTS ann, bob, zero, serial1, serial2, n1, n2, n3, depot, yard, good, damaged

MCAccounts == {ann, bob}
MCGrants == {<<ann, ADMIN>>, <<bob, ADMIN>>, <<bob, MANAGER>>}

signed(o, c, l, k, n, until) ==
  [observer |-> o, tokenId |-> 1, custodian |-> c, locationId |-> l,
   condition |-> k, nonce |-> n, validUntil |-> until]

MCPayloads ==
  {signed(bob, bob, depot, good, n1, 2), signed(bob, bob, yard, good, n2, 2),
   signed(bob, ann, depot, damaged, n3, 1)}

\* For two tokens: one payload of the second token among those of the first.
FleetPayloads ==
  {signed(bob, bob, depot, good, n1, 1), signed(bob, ann, depot, good, n2, 1),
   [signed(bob, bob, depot, good, n3, 1) EXCEPT !.tokenId = 2]}
FleetGrants == {<<ann, ADMIN>>, <<bob, ADMIN>>}
=============================================================================
