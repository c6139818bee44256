----------------------------- MODULE AssetTrust -----------------------------
(***************************************************************************)
(* AssetNFT, AttestationRegistry and DivergenceRegistry wired together, one *)
(* action per transaction, with permissions changing between transactions.  *)
(***************************************************************************)
EXTENDS DivergenceRegistry, FiniteSets

vars == <<permVars, nftVars, attVars, divVars>>

TypeOK == PermTypeOK /\ NftTypeOK /\ AttTypeOK /\ DivTypeOK

Init == PermInit /\ NftInit /\ AttInit /\ DivInit

-----------------------------------------------------------------------------
PermissionChange == PermNext /\ UNCHANGED <<nftVars, attVars, divVars>>

AssetTransaction == NftNext /\ UNCHANGED <<permVars, attVars, divVars>>

WireDivergenceRegistry(sender) ==
  /\ SetAttDivergenceRegistry(sender)
  /\ UNCHANGED <<permVars, nftVars, divVars>>

SubmitAttestation(p) ==
  /\ record(p)
  /\ LET table == updateFreshness(assets, p.tokenId, now) IN
       IF divergenceFrom # 0
       THEN onAttestation(observation(p), nextAttestation, table)
       ELSE /\ assets' = table
            /\ UNCHANGED divVars
  /\ UNCHANGED <<permVars, nftConfig>>

Propose(sender, d, custodian) ==
  /\ ProposeReconciliation(sender, d, custodian)
  /\ UNCHANGED <<permVars, nftConfig, attVars>>

Confirm(sender, d) ==
  /\ ConfirmReconciliation(sender, d)
  /\ UNCHANGED <<permVars, nftConfig, attVars>>

Next ==
  \/ PermissionChange
  \/ AssetTransaction
  \/ \E p \in Payloads : SubmitAttestation(p)
  \/ \E sender \in Accounts :
       \/ WireDivergenceRegistry(sender)
       \/ \E d \in DivergenceIds :
            \/ Confirm(sender, d)
            \/ \E c \in Accounts : Propose(sender, d, c)

Spec == Init /\ [][Next]_vars

\* The state the deployment script leaves behind: the deployer, Admin from
\* RoleManager's constructor, has wired the three contracts.
DeployedInit ==
  /\ PermInit
  /\ assets = [t \in Tokens |-> NoAsset]
  /\ nextToken = 1
  /\ tokenByIdentifier = [i \in Identifiers |-> 0]
  /\ nftDivergenceWired = TRUE
  /\ nftAttestationWired = TRUE
  /\ attestations = [i \in AttestationIds |-> NoAttestation]
  /\ nextAttestation = 1
  /\ nonceUsed = {}
  /\ divergenceFrom = 1
  /\ DivInit

DeployedSpec == DeployedInit /\ [][Next]_vars

-----------------------------------------------------------------------------
\* AssetNFT's quarantine flag and DivergenceRegistry's bookkeeping live in two
\* contracts and are written by separate calls.  They never disagree: a token
\* is quarantined exactly while it has an open divergence, and that is the
\* only unresolved record of the token.
QuarantineIffOpen ==
  /\ \A t \in Tokens :
       /\ assets[t].quarantined <=> openDivergenceOf[t] # 0
       /\ openDivergenceOf[t] # 0 =>
            /\ openDivergenceOf[t] \in detected
            /\ records[openDivergenceOf[t]].tokenId = t
  /\ \A d \in detected :
       ~records[d].resolved <=> openDivergenceOf[records[d].tokenId] = d

\* No conflict goes unnoticed: once detection is wired, two observations of a
\* token that conflict within its window have led to a divergence record, or
\* the later one arrived while an earlier divergence was still open.
ConflictsRecorded ==
  \A a, b \in recorded :
    LET A == attestations[a]
        B == attestations[b] IN
    /\ a < b
    /\ divergenceFrom # 0 /\ divergenceFrom <= b
    /\ A.tokenId = B.tokenId
    /\ B.timestamp - A.timestamp <= assets[B.tokenId].freshnessWindow
    /\ <<A.custodian, A.locationId, A.condition>> # <<B.custodian, B.locationId, B.condition>>
    => \E d \in detected :
         /\ records[d].tokenId = B.tokenId
         /\ \/ records[d].attestationB = b
            \/ /\ records[d].attestationB < b
               /\ records[d].resolved => records[d].resolvedAt >= B.timestamp

\* A resolved divergence of a high-value asset was proposed by one account and
\* confirmed by another, whatever happened to their roles in between; a
\* resolved divergence of any other asset is the act of a single account.
SeparationOfDuties ==
  \A d \in detected :
    records[d].resolved =>
      /\ records[d].proposer \in Accounts /\ records[d].confirmer \in Accounts
      /\ assets[records[d].tokenId].highValue <=> records[d].proposer # records[d].confirmer

\* A token is at least as fresh as every observation of it and as its last
\* reconciliation, and never fresher than the present.
FreshnessCoversEvidence ==
  \A t \in Tokens :
    /\ assets[t].freshnessTimestamp <= now
    /\ \A i \in attestationsOf(t) : attestations[i].timestamp <= assets[t].freshnessTimestamp
    /\ \A d \in detected : records[d].tokenId = t /\ records[d].resolved =>
         records[d].resolvedAt <= assets[t].freshnessTimestamp

\* A signed payload, or any other payload with its nonce, is recorded once,
\* in the order of the log and with the time it was recorded at.
RecordedOnce ==
  \A i, j \in recorded : i < j =>
    /\ attestations[i].nonce # attestations[j].nonce
    /\ attestations[i].timestamp <= attestations[j].timestamp

\* An identifier names at most one token, for ever, and the index finds it.
IdentifierNamesOneToken ==
  \A t \in Tokens : Exists(t) => tokenByIdentifier[assets[t].assetIdentifier] = t

\* A quarantined asset can always be dealt with by those the contract names:
\* an unproposed divergence by any active Admin or Manager, a proposed one by
\* any active Admin other than the proposer.
OpenIsReconcilable ==
  \A d \in detected : ~records[d].resolved =>
    \A a \in Accounts :
      /\ ~records[d].pending /\ adminOrManager(a) =>
           \A c \in Accounts : ENABLED Propose(a, d, c)
      /\ records[d].pending /\ hasActiveRole(a, ADMIN) /\ a # records[d].proposer =>
           ENABLED Confirm(a, d)

\* A token leaves quarantine only by the resolution of its open divergence, to
\* the custodian that resolution accepted, and on the word of an account that
\* is an active Admin at that moment, or Manager if the asset is not high-value.
ReleasedByResolution ==
  [][\A t \in Tokens : assets[t].quarantined /\ ~assets'[t].quarantined =>
       LET old == records[openDivergenceOf[t]]
           new == records'[openDivergenceOf[t]] IN
       /\ ~old.resolved /\ new.resolved /\ ~new.pending
       /\ assets'[t].custodian = new.acceptedCustodian
       /\ IF assets[t].highValue THEN hasActiveRole(new.confirmer, ADMIN)
                                 ELSE adminOrManager(new.confirmer)]_vars

\* History is append-only: recorded observations and resolved divergences
\* never change, no record moves to other evidence, and a proposal stands once
\* made until it is confirmed.
HistoryKept ==
  [][/\ \A i \in recorded : i \in recorded' /\ attestations'[i] = attestations[i]
     /\ \A d \in detected :
          /\ d \in detected'
          /\ records[d].resolved => records'[d] = records[d]
          /\ records[d].pending => /\ records'[d].proposer = records[d].proposer
                                  /\ records'[d].acceptedCustodian = records[d].acceptedCustodian
          /\ \A f \in {"tokenId", "attestationA", "attestationB", "detectedAt"} :
               records'[d][f] = records[d][f]]_vars

-----------------------------------------------------------------------------
\* The three contracts together keep the promise of AssetCustody.
phase(asset) ==
  IF ~asset.exists THEN "absent" ELSE IF asset.quarantined THEN "frozen" ELSE "free"

cases(t)    == {d \in detected : records[d].tokenId = t}
resolved(t) == {d \in cases(t) : records[d].resolved}

Custody == INSTANCE AssetCustody WITH
  TokenIds <- Tokens,
  Parties  <- Accounts,
  Nobody   <- NoAccount,
  holding  <- [t \in Tokens |-> [phase |-> phase(assets[t]), owner |-> assets[t].owner,
                                 custodian |-> assets[t].custodian]],
  opened   <- [t \in Tokens |-> Cardinality(cases(t))],
  closed   <- [t \in Tokens |-> Cardinality(resolved(t))]

KeepsCustodyPromise == Custody!CustodySpec

\* What is read of them, together and at one moment, is a state of Ledger, and
\* changes from one transaction to the next as Ledger does.  (The evidence tier
\* is data that no contract looks at; one stands for all.)
Readable == INSTANCE Ledger WITH
  AssetIds      <- Tokens,
  EvidenceTiers <- {"tier"},
  time     <- now,
  asset    <- [t \in 1..(nextToken - 1) |->
                [fresh |-> assets[t].freshnessTimestamp, highValue |-> assets[t].highValue,
                 quarantined |-> assets[t].quarantined]],
  observed <- [i \in recorded |->
                [of |-> attestations[i].tokenId, tier |-> "tier", at |-> attestations[i].timestamp]],
  dispute  <- [d \in detected |->
                [of |-> records[d].tokenId, pending |-> records[d].pending,
                 resolved |-> records[d].resolved]],
  open     <- openDivergenceOf

ShowsLedger == Readable!LedgerSpec
=============================================================================
