----------------------------- MODULE MCIndexer -----------------------------
\* One token passing between two parties, one account with two roles, one DID.
EXTENDS Indexer

CONSTANTS ann, bob, nobody, issuer, auditor, norole

\* The one role for a time, the other for good.
GrantsMade == {<<issuer, TRUE>>, <<auditor, FALSE>>}
=============================================================================
