------------------------- MODULE DivergenceRegistry -------------------------
(***************************************************************************)
(* contracts/src/DivergenceRegistry.sol: detection of conflicting           *)
(* observations, quarantine, and reconciliation with separation of duties.  *)
(***************************************************************************)
EXTENDS AttestationRegistry

CONSTANT MaxDivergence   \* bound on the number of divergence records

DivergenceIds == 1..MaxDivergence

ASSUME DivergenceAssumption == MaxDivergence \in Nat

VARIABLES
  records,          \* _records
  nextDivergence,   \* _nextId
  openDivergenceOf  \* per token, 0 or the id of its open divergence

divVars == <<records, nextDivergence, openDivergenceOf>>

NoRecord == [tokenId |-> 0]

DivergenceRecord ==
  [tokenId : Tokens, attestationA : AttestationIds, attestationB : AttestationIds,
   detectedAt : Times, resolved : BOOLEAN, resolvedAt : Times,
   proposer : Accounts \cup {NoAccount}, confirmer : Accounts \cup {NoAccount},
   acceptedCustodian : Accounts \cup {NoAccount}, pending : BOOLEAN]

DivTypeOK ==
  /\ records \in [DivergenceIds -> DivergenceRecord \cup {NoRecord}]
  /\ nextDivergence \in 1..(MaxDivergence + 1)
  /\ openDivergenceOf \in [Tokens -> 0..MaxDivergence]

DivInit ==
  /\ records = [d \in DivergenceIds |-> NoRecord]
  /\ nextDivergence = 1
  /\ openDivergenceOf = [t \in Tokens |-> 0]

detected == 1..(nextDivergence - 1)

-----------------------------------------------------------------------------
\* Mutation: the end of the window is not part of it.
strictlyWithin(a, b, window) == a - b < window /\ b - a < window
withinWindow(a, b, window) == a - b <= window /\ b - a <= window

conflicts(a, b) ==
  \/ a.custodian # b.custodian
  \/ a.locationId # b.locationId
  \/ a.condition # b.condition

\* Mutation: the scan starts at the second entry of the log.
rivalsFromSecond(incoming) ==
  {i \in attestationsOf(incoming.tokenId) : i > 1 /\ conflicts(incoming, attestations[i])}

\* The prior attestations of the token that the scan of onAttestation stops at.
rivals(incoming) ==
  {i \in attestationsOf(incoming.tokenId) :
     /\ withinWindow(incoming.timestamp, attestations[i].timestamp,
                     assets[incoming.tokenId].freshnessWindow)
     /\ conflicts(incoming, attestations[i])}

\* onAttestation(t, b) for the observation recorded under id b in the same
\* transaction; table is the asset table after updateFreshness.  The oldest
\* rival is the one recorded.
onAttestation(incoming, b, table) ==
  LET t == incoming.tokenId IN
  IF openDivergenceOf[t] # 0 \/ rivals(incoming) = {}
  THEN /\ assets' = table
       /\ UNCHANGED divVars
  ELSE /\ nftDivergenceWired
       /\ nextDivergence <= MaxDivergence
       /\ \E a \in rivals(incoming) :
            /\ \A i \in rivals(incoming) : a <= i
            /\ records' = [records EXCEPT ![nextDivergence] =
                 [tokenId |-> t, attestationA |-> a, attestationB |-> b,
                  detectedAt |-> now, resolved |-> FALSE, resolvedAt |-> 0,
                  proposer |-> NoAccount, confirmer |-> NoAccount,
                  acceptedCustodian |-> NoAccount, pending |-> FALSE]]
       /\ nextDivergence' = nextDivergence + 1
       /\ openDivergenceOf' = [openDivergenceOf EXCEPT ![t] = nextDivergence]
       /\ assets' = setQuarantine(table, t, TRUE)

-----------------------------------------------------------------------------
\* Mutations: the newest record is out of range; a resolved record passes.
requireOlder(d) == d + 1 \in detected /\ openDivergenceOf[records[d].tokenId] = d
requireKnown(d) == d \in detected

requireOpen(d) ==
  /\ d \in detected
  /\ ~records[d].resolved
  /\ openDivergenceOf[records[d].tokenId] = d

\* What _finalize makes of a record, and its effect on the token; the call of
\* applyReconciledState reverts while AssetNFT does not know this registry.
finalized(rec, confirmer) ==
  [rec EXCEPT !.resolved = TRUE, !.resolvedAt = now,
              !.confirmer = confirmer, !.pending = FALSE]

\* Mutation: the token's open divergence is not cleared.
releaseHalf(rec) ==
  /\ nftDivergenceWired
  /\ assets' = applyReconciledState(assets, rec.tokenId, rec.acceptedCustodian)
  /\ UNCHANGED openDivergenceOf

release(rec) ==
  /\ nftDivergenceWired
  /\ openDivergenceOf' = [openDivergenceOf EXCEPT ![rec.tokenId] = 0]
  /\ assets' = applyReconciledState(assets, rec.tokenId, rec.acceptedCustodian)

proposed(d, sender, custodian) ==
  [records[d] EXCEPT !.proposer = sender, !.acceptedCustodian = custodian, !.pending = TRUE]

ProposeReconciliation(sender, d, custodian) ==
  /\ adminOrManager(sender)
  /\ requireOpen(d)
  /\ ~records[d].pending
  /\ LET rec == proposed(d, sender, custodian) IN
       IF assets[rec.tokenId].highValue
       THEN /\ records' = [records EXCEPT ![d] = rec]
            /\ UNCHANGED <<openDivergenceOf, assets>>
       ELSE /\ records' = [records EXCEPT ![d] = finalized(rec, sender)]
            /\ release(rec)
  /\ UNCHANGED nextDivergence

\* Mutations: the proposer may confirm; a confirmer must hold both roles.
mayConfirmAlone(sender, d) == hasActiveRole(sender, ADMIN) /\ records[d].pending
mayConfirmAsBoth(sender, d) ==
  mayConfirmAlone(sender, d) /\ hasActiveRole(sender, MANAGER) /\ sender # records[d].proposer

mayConfirm(sender, d) ==
  /\ hasActiveRole(sender, ADMIN)
  /\ records[d].pending
  /\ sender # records[d].proposer

ConfirmReconciliation(sender, d) ==
  /\ requireOpen(d)
  /\ mayConfirm(sender, d)
  /\ records' = [records EXCEPT ![d] = finalized(records[d], sender)]
  /\ release(records[d])
  /\ UNCHANGED nextDivergence
=============================================================================
