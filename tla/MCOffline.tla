----------------------------- MODULE MCOffline -----------------------------
\* A low-risk and a high-risk decision, two reconnects at a time, and limits
\* that one unit of time exceeds.
EXTENDS OfflineVerifier

CONSTANTS n1, n2

MCOperation == [n \in {n1, n2} |-> IF n = n1 THEN "identifier_scan" ELSE "transfer_ownership"]
=============================================================================
