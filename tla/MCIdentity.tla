----------------------------- MODULE MCIdentity -----------------------------
\* Two accounts; the deployer and a second holder of the administrative roles.
EXTENDS Identity

CONSTANTS ann, bob, did1, did2, none, zero

MCGrantable == {<<ann, DEFAULT_ADMIN>>, <<ann, ADMIN>>, <<bob, DEFAULT_ADMIN>>, <<bob, MANAGER>>}
=============================================================================
