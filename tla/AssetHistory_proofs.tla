------------------------ MODULE AssetHistory_proofs ------------------------
(***************************************************************************)
(* Proofs about what AssetTrust keeps of the past: the log of observations, *)
(* the divergences found in it and their resolution, and the identifiers.   *)
(***************************************************************************)
EXTENDS AssetTrust_proofs

-----------------------------------------------------------------------------
\* Every step is one of four kinds.  A still one leaves the log and the
\* divergences alone.
Still ==
  /\ UNCHANGED <<attestations, nextAttestation, nonceUsed, divVars>>
  /\ now \in Times /\ now' \in Times /\ now <= now'
  /\ \/ divergenceFrom' = divergenceFrom
     \/ divergenceFrom = 0 /\ divergenceFrom' = nextAttestation
  /\ \A t \in Tokens :
       /\ assets'[t].quarantined = assets[t].quarantined
       /\ Exists(t) => assets'[t].exists /\ assets'[t].freshnessTimestamp = assets[t].freshnessTimestamp
       /\ ~Exists(t) => \/ assets'[t] = assets[t]
                        \/ assets'[t].exists /\ assets'[t].freshnessTimestamp = now'

\* A divergence is resolved, as it was proposed before or by this step.
Resolves(d, rec, sender) ==
  /\ requireOpen(d) /\ rec \in DivergenceRecord /\ sender \in Accounts
  /\ rec.tokenId = records[d].tokenId
  /\ rec.attestationA = records[d].attestationA /\ rec.attestationB = records[d].attestationB
  /\ rec.detectedAt = records[d].detectedAt
  /\ rec.proposer \in Accounts /\ rec.acceptedCustodian \in Accounts
  /\ IF records[d].pending
     THEN /\ rec.proposer = records[d].proposer
          /\ rec.acceptedCustodian = records[d].acceptedCustodian
          /\ hasActiveRole(sender, ADMIN)
     ELSE ~assets[rec.tokenId].highValue /\ adminOrManager(sender)
  /\ Finalization(d, rec, sender)
  /\ UNCHANGED <<permVars, nftConfig, attVars, nextDivergence>>

\* One of a high-value asset is proposed.
Proposes(d, sender, c) ==
  /\ requireOpen(d) /\ ~records[d].pending
  /\ sender \in Accounts /\ c \in Accounts
  /\ Pending(d, sender, c)
  /\ UNCHANGED <<permVars, nftConfig, attVars, nextDivergence>>

LEMMA StillSteps ==
  ASSUME Typed, Typed',
         \/ UNCHANGED vars \/ PermissionChange \/ AssetTransaction
         \/ \E sender \in Accounts : WireDivergenceRegistry(sender)
  PROVE  Still
<1>1. now \in Times /\ now' \in Times
  BY DEF Typed, TypeOK, PermTypeOK
<1>2. CASE UNCHANGED vars
  BY <1>1, <1>2, PermissionsAssumption
  DEF vars, permVars, nftVars, attVars, Still, Times, Exists
<1>3. CASE PermissionChange
  <2>1. now <= now'
    BY <1>1, <1>3, PermissionsAssumption
    DEF PermissionChange, PermNext, Tick, RoleGranted, RoleLost, ControllerBound, ControllerLost,
        ControllerRotated, Times
  <2>. QED
    BY <1>1, <1>3, <2>1 DEF PermissionChange, nftVars, attVars, Still, Exists
<1>4. CASE AssetTransaction
  <2>1. /\ UNCHANGED <<attestations, nextAttestation, nonceUsed, divVars, divergenceFrom>>
        /\ now' = now /\ now <= now'
    BY <1>1, <1>4, PermissionsAssumption DEF AssetTransaction, attVars, permVars, Times
  <2>2. \A t \in Tokens :
          /\ assets'[t].quarantined = assets[t].quarantined
          /\ Exists(t) => assets'[t].freshnessTimestamp = assets[t].freshnessTimestamp
    BY <1>4, AssetTransactionFields
  <2>3. \A t \in Tokens : Exists(t) => assets'[t].exists
    <3>1. nextToken <= nextToken'
      BY <1>4, AssetAssumption DEF AssetTransaction, NftNext, SetNftDivergenceRegistry,
         SetNftAttestationRegistry, Mint, AssignCustody, TransferOwnershipTo, TransferFrom, nftConfig,
         Typed, TypeOK, NftTypeOK
    <3>2. \A t \in Tokens : (assets[t].exists <=> t < nextToken) /\ (assets'[t].exists <=> t < nextToken')
      BY DEF Typed, Shape, Exists
    <3>. QED
      BY <3>1, <3>2, AssetAssumption DEF Exists, Tokens, Typed, TypeOK, NftTypeOK
  <2>4. \A t \in Tokens : ~Exists(t) => \/ assets'[t] = assets[t]
                                        \/ assets'[t].exists /\ assets'[t].freshnessTimestamp = now'
    <3>. DEFINE New == \A t \in Tokens : ~Exists(t) =>
                         \/ assets'[t] = assets[t]
                         \/ assets'[t].exists /\ assets'[t].freshnessTimestamp = now'
    <3>0. assets \in [Tokens -> Asset \cup {NoAsset}]
      BY DEF Typed, TypeOK, NftTypeOK
    <3>1. ASSUME NEW sender \in Accounts,
                 SetNftDivergenceRegistry(sender) \/ SetNftAttestationRegistry(sender)
          PROVE  New
      BY <3>1 DEF SetNftDivergenceRegistry, SetNftAttestationRegistry
    <3>2. ASSUME NEW sender \in Accounts, NEW to \in Accounts, NEW i \in Identifiers,
                 NEW w \in Windows, NEW h \in BOOLEAN, NEW c \in Accounts \cup {NoAccount},
                 Mint(sender, to, i, w, h, c)
          PROVE  New
      <4>1. nextToken \in Tokens
        BY <3>2, AssetAssumption DEF Mint, Typed, TypeOK, NftTypeOK, Tokens
      <4>2. assets'[nextToken].exists /\ assets'[nextToken].freshnessTimestamp = now
        BY <3>0, <3>2, <4>1 DEF Mint
      <4>3. \A u \in Tokens : u # nextToken => assets'[u] = assets[u]
        BY <3>0, <3>2 DEF Mint
      <4>. QED
        BY <2>1, <4>2, <4>3
    <3>3. ASSUME NEW sender \in Accounts, NEW t \in Tokens, NEW c \in Accounts,
                 \/ AssignCustody(sender, t, c)
                 \/ TransferOwnershipTo(sender, t, c)
                 \/ TransferFrom(sender, t, c)
          PROVE  New
      <4>1. /\ Exists(t)
            /\ \/ assets' = [assets EXCEPT ![t].custodian = c]
               \/ assets' = [assets EXCEPT ![t].owner = c]
        BY <3>3 DEF AssignCustody, TransferOwnershipTo, TransferFrom, update, movable
      <4>2. \A u \in Tokens : u # t => assets'[u] = assets[u]
        BY <3>0, <4>1
      <4>. QED
        BY <4>1, <4>2
    <3>. QED
      BY <1>4, <3>1, <3>2, <3>3 DEF AssetTransaction, NftNext
  <2>. QED
    BY <1>1, <2>1, <2>2, <2>3, <2>4 DEF Still
<1>5. CASE \E sender \in Accounts : WireDivergenceRegistry(sender)
  BY <1>1, <1>5, PermissionsAssumption
  DEF WireDivergenceRegistry, SetAttDivergenceRegistry, permVars, nftVars, Still, Times, Exists
<1>. QED
  BY <1>2, <1>3, <1>4, <1>5

LEMMA ReconciliationKinds ==
  ASSUME Typed, NEW sender \in Accounts, NEW d \in DivergenceIds,
         Confirm(sender, d) \/ \E c \in Accounts : Propose(sender, d, c)
  PROVE  \/ \E rec : Resolves(d, rec, sender)
         \/ \E c : Proposes(d, sender, c)
<1>1. ASSUME Confirm(sender, d)
      PROVE  Resolves(d, records[d], sender)
  <2>1. /\ requireOpen(d) /\ records[d].pending
        /\ Finalization(d, records[d], sender)
        /\ UNCHANGED <<permVars, nftConfig, attVars, nextDivergence>>
    BY <1>1, ConfirmOutcome
  <2>2. records[d] \in DivergenceRecord /\ d \in detected
    BY <2>1, OpenRecord
  <2>3. records[d].proposer \in Accounts /\ records[d].acceptedCustodian \in Accounts
    BY <2>1, <2>2 DEF Typed, Shape
  <2>4. hasActiveRole(sender, ADMIN)
    BY <1>1 DEF Confirm, ConfirmReconciliation, mayConfirm
  <2>. QED
    BY <2>1, <2>2, <2>3, <2>4 DEF Resolves
<1>2. ASSUME NEW c \in Accounts, Propose(sender, d, c)
      PROVE  Proposes(d, sender, c) \/ Resolves(d, proposed(d, sender, c), sender)
  <2>1. /\ requireOpen(d) /\ ~records[d].pending
        /\ \/ Pending(d, sender, c)
           \/ /\ ~assets[records[d].tokenId].highValue
              /\ Finalization(d, proposed(d, sender, c), sender)
        /\ UNCHANGED <<permVars, nftConfig, attVars, nextDivergence>>
    BY <1>2, ProposeOutcomes
  <2>2. records[d] \in DivergenceRecord
    BY <2>1, OpenRecord
  <2>3. /\ proposed(d, sender, c) \in DivergenceRecord
        /\ proposed(d, sender, c).tokenId = records[d].tokenId
        /\ proposed(d, sender, c).proposer = sender
        /\ proposed(d, sender, c).acceptedCustodian = c
    BY <2>2, ProposalIsRecord
  <2>4. /\ proposed(d, sender, c).attestationA = records[d].attestationA
        /\ proposed(d, sender, c).attestationB = records[d].attestationB
        /\ proposed(d, sender, c).detectedAt = records[d].detectedAt
    BY <2>2 DEF proposed, DivergenceRecord
  <2>5. adminOrManager(sender)
    BY <1>2 DEF Propose, ProposeReconciliation
  <2>6. CASE Pending(d, sender, c)
    BY <2>1, <2>6 DEF Proposes
  <2>7. CASE /\ ~assets[records[d].tokenId].highValue
             /\ Finalization(d, proposed(d, sender, c), sender)
    BY <2>1, <2>3, <2>4, <2>5, <2>7 DEF Resolves
  <2>. QED
    BY <2>1, <2>6, <2>7
<1>. QED
  BY <1>1, <1>2

LEMMA StepKinds ==
  ASSUME Typed, [Next]_vars
  PROVE  \/ Still
         \/ \E p \in Payloads : SubmitAttestation(p)
         \/ \E d, rec, sender : Resolves(d, rec, sender)
         \/ \E d, sender, c : Proposes(d, sender, c)
<1>1. Typed'
  BY TypedStep
<1>2. CASE \/ UNCHANGED vars \/ PermissionChange \/ AssetTransaction
           \/ \E sender \in Accounts : WireDivergenceRegistry(sender)
  BY <1>1, <1>2, StillSteps
<1>3. CASE \E sender \in Accounts, d \in DivergenceIds :
             Confirm(sender, d) \/ \E c \in Accounts : Propose(sender, d, c)
  BY <1>3, ReconciliationKinds
<1>. QED
  BY <1>2, <1>3 DEF Next

-----------------------------------------------------------------------------
\* What a resolution and a proposal do to each record and token.
LEMMA ResolvesFields ==
  ASSUME Typed, NEW d, NEW rec, NEW sender, Resolves(d, rec, sender)
  PROVE  /\ d \in detected /\ ~records[d].resolved /\ records[d].tokenId \in Tokens
         /\ openDivergenceOf[records[d].tokenId] = d
         /\ detected' = detected
         /\ \A e \in detected : e # d => records'[e] = records[e]
         /\ records'[d].tokenId = records[d].tokenId
         /\ records'[d].attestationA = records[d].attestationA
         /\ records'[d].attestationB = records[d].attestationB
         /\ records'[d].detectedAt = records[d].detectedAt
         /\ records'[d].resolved = TRUE /\ records'[d].resolvedAt = now /\ records'[d].pending = FALSE
         /\ records'[d] \in DivergenceRecord
         /\ recorded' = recorded
         /\ UNCHANGED <<permVars, nftConfig, attVars>>
<1>1. requireOpen(d) /\ rec \in DivergenceRecord /\ sender \in Accounts
      /\ rec.tokenId = records[d].tokenId /\ rec.acceptedCustodian \in Accounts
      /\ rec.attestationA = records[d].attestationA /\ rec.attestationB = records[d].attestationB
      /\ rec.detectedAt = records[d].detectedAt
      /\ Finalization(d, rec, sender) /\ UNCHANGED <<permVars, nftConfig, attVars, nextDivergence>>
  BY DEF Resolves
<1>2. now \in Times
  BY DEF Typed, TypeOK, PermTypeOK
<1>3. /\ d \in detected /\ ~records[d].resolved /\ records[d].tokenId \in Tokens
      /\ openDivergenceOf[records[d].tokenId] = d
  BY <1>1, OpenRecord
<1>4. /\ finalized(rec, sender).attestationA = rec.attestationA
      /\ finalized(rec, sender).attestationB = rec.attestationB
      /\ finalized(rec, sender).detectedAt = rec.detectedAt
      /\ finalized(rec, sender).resolved = TRUE /\ finalized(rec, sender).pending = FALSE
  BY <1>1 DEF finalized, DivergenceRecord
<1>5. /\ finalized(rec, sender) \in DivergenceRecord
      /\ finalized(rec, sender).tokenId = rec.tokenId
      /\ finalized(rec, sender).proposer = rec.proposer
      /\ finalized(rec, sender).confirmer = sender
      /\ finalized(rec, sender).acceptedCustodian = rec.acceptedCustodian
      /\ finalized(rec, sender).resolvedAt = now
  BY <1>1, <1>2, FinalizedIsRecord
<1>6. /\ detected' = detected
      /\ \A e \in detected : records'[e] = IF e = d THEN finalized(rec, sender) ELSE records[e]
  BY <1>1, FinalizationFields
<1>7. records'[d] = finalized(rec, sender)
  BY <1>3, <1>6
<1>8. recorded' = recorded
  BY <1>1 DEF attVars, recorded
<1>. QED
  BY <1>1, <1>3, <1>4, <1>5, <1>6, <1>7, <1>8

LEMMA ResolvedBy ==
  ASSUME Typed, NEW d, NEW rec, NEW sender, Resolves(d, rec, sender)
  PROVE  /\ records'[d].proposer = rec.proposer /\ records'[d].confirmer = sender
         /\ records'[d].acceptedCustodian = rec.acceptedCustodian
<1>1. /\ requireOpen(d) /\ rec \in DivergenceRecord /\ sender \in Accounts
      /\ rec.tokenId = records[d].tokenId /\ rec.acceptedCustodian \in Accounts
      /\ Finalization(d, rec, sender) /\ UNCHANGED nextDivergence
  BY DEF Resolves
<1>2. records'[d] = finalized(rec, sender)
  BY <1>1, FinalizationFields, OpenRecord
<1>. QED
  BY <1>1, <1>2 DEF finalized, DivergenceRecord

LEMMA ResolvesTokens ==
  ASSUME Typed, NEW d, NEW rec, NEW sender, Resolves(d, rec, sender), NEW u \in Tokens
  PROVE  /\ openDivergenceOf'[u] = IF u = records[d].tokenId THEN 0 ELSE openDivergenceOf[u]
         /\ u # records[d].tokenId => assets'[u] = assets[u]
         /\ u = records[d].tokenId => /\ ~assets'[u].quarantined
                                      /\ assets'[u].custodian = rec.acceptedCustodian
                                      /\ assets'[u].owner = assets[u].owner
                                      /\ assets'[u].freshnessTimestamp = now
<1>1. /\ requireOpen(d) /\ rec \in DivergenceRecord /\ sender \in Accounts
      /\ rec.tokenId = records[d].tokenId /\ rec.acceptedCustodian \in Accounts
      /\ Finalization(d, rec, sender) /\ UNCHANGED nextDivergence
  BY DEF Resolves
<1>. QED
  BY <1>1, FinalizationFields

LEMMA ProposesFields ==
  ASSUME Typed, NEW d, NEW sender, NEW c, Proposes(d, sender, c)
  PROVE  /\ d \in detected /\ ~records[d].resolved /\ ~records[d].pending
         /\ detected' = detected
         /\ \A e \in detected : e # d => records'[e] = records[e]
         /\ records'[d].tokenId = records[d].tokenId
         /\ records'[d].attestationA = records[d].attestationA
         /\ records'[d].attestationB = records[d].attestationB
         /\ records'[d].detectedAt = records[d].detectedAt
         /\ records'[d].resolved = records[d].resolved /\ records'[d].pending = TRUE
         /\ records'[d] \in DivergenceRecord
         /\ assets[records[d].tokenId].highValue
         /\ recorded' = recorded
         /\ UNCHANGED <<assets, openDivergenceOf, permVars, nftConfig, attVars>>
<1>1. /\ requireOpen(d) /\ ~records[d].pending /\ sender \in Accounts /\ c \in Accounts
      /\ Pending(d, sender, c) /\ UNCHANGED <<permVars, nftConfig, attVars, nextDivergence>>
  BY DEF Proposes
<1>2. d \in detected /\ ~records[d].resolved /\ records[d] \in DivergenceRecord
  BY <1>1, OpenRecord
<1>3. /\ detected' = detected
      /\ \A e \in detected : records'[e] = IF e = d THEN proposed(d, sender, c) ELSE records[e]
  BY <1>1, RewriteFields DEF Pending
<1>4. records'[d] = proposed(d, sender, c)
  BY <1>2, <1>3
<1>5. /\ proposed(d, sender, c) \in DivergenceRecord
      /\ proposed(d, sender, c).tokenId = records[d].tokenId
      /\ proposed(d, sender, c).attestationA = records[d].attestationA
      /\ proposed(d, sender, c).attestationB = records[d].attestationB
      /\ proposed(d, sender, c).detectedAt = records[d].detectedAt
      /\ proposed(d, sender, c).resolved = records[d].resolved
      /\ proposed(d, sender, c).pending = TRUE
  BY <1>1, <1>2 DEF proposed, DivergenceRecord
<1>6. recorded' = recorded
  BY <1>1 DEF attVars, recorded
<1>. QED
  BY <1>1, <1>2, <1>3, <1>4, <1>5, <1>6 DEF Pending

\* And a submitted observation: it takes the next id of the log, with the
\* present as its time, and a divergence if it takes the next id of those.
LEMMA SubmitEffects ==
  ASSUME Typed, NEW p \in Payloads, SubmitAttestation(p)
  PROVE  /\ nextAttestation \notin recorded /\ recorded' = recorded \cup {nextAttestation}
         /\ \A i \in recorded : i < nextAttestation
         /\ \A i \in recorded : attestations'[i] = attestations[i]
         /\ attestations'[nextAttestation].tokenId = p.tokenId
         /\ attestations'[nextAttestation].nonce = p.nonce
         /\ attestations'[nextAttestation].timestamp = now
         /\ p.nonce \notin nonceUsed /\ nonceUsed' = nonceUsed \cup {p.nonce}
         /\ nextAttestation' = nextAttestation + 1
         /\ UNCHANGED <<permVars, nftConfig, divergenceFrom>>
         /\ detected \subseteq detected' /\ \A d \in detected : records'[d] = records[d]
<1>1. record(p) /\ UNCHANGED <<permVars, nftConfig>>
  BY SubmitOutcomes
<1>2. /\ nextAttestation \notin recorded /\ recorded' = recorded \cup {nextAttestation}
      /\ \A i \in recorded : attestations'[i] = attestations[i]
      /\ attestations'[nextAttestation] = observation(p)
  BY <1>1, RecordExtends
<1>3. \A i \in recorded : i < nextAttestation
  BY AttestationAssumption DEF recorded, Typed, TypeOK, AttTypeOK
<1>4. /\ p.nonce \notin nonceUsed /\ nonceUsed' = nonceUsed \cup {p.nonce}
      /\ nextAttestation' = nextAttestation + 1 /\ UNCHANGED divergenceFrom
  BY <1>1 DEF record, acceptable
<1>5. detected \subseteq detected' /\ \A d \in detected : records'[d] = records[d]
  <2>1. CASE Unremarkable(p)
    BY <2>1 DEF Unremarkable, divVars, detected
  <2>2. CASE \E a : Detection(p, a)
    BY <2>2, DetectionExtends
  <2>. QED
    BY <2>1, <2>2, SubmitOutcomes
<1>. QED
  BY <1>1, <1>2, <1>3, <1>4, <1>5 DEF observation

-----------------------------------------------------------------------------
\* RecordedOnce needs to know that what was recorded is past, and its nonce
\* used; the later proofs, that a divergence is about recorded observations.
Evidence ==
  /\ \A i \in recorded : attestations[i].nonce \in nonceUsed /\ attestations[i].timestamp <= now
  /\ \A d \in detected : records[d].attestationA \in recorded /\ records[d].attestationB \in recorded
  /\ RecordedOnce

LEMMA EvidenceStep == Typed /\ Evidence /\ [Next]_vars => Evidence'
<1>. SUFFICES ASSUME Typed, Evidence, [Next]_vars PROVE Evidence'
  OBVIOUS
<1>0. now \in Int /\ \A i \in recorded : attestations[i].timestamp \in Int
  BY PermissionsAssumption DEF Typed, TypeOK, PermTypeOK, Shape, Attestation, Times
<1>1. CASE Still
  <2>1. recorded' = recorded /\ detected' = detected /\ now' \in Int /\ now <= now'
        /\ UNCHANGED <<attestations, nonceUsed, records>>
    BY <1>1, PermissionsAssumption DEF Still, recorded, divVars, detected, Times
  <2>. QED
    BY <1>0, <2>1 DEF Evidence, RecordedOnce
<1>2. ASSUME NEW p \in Payloads, SubmitAttestation(p) PROVE Evidence'
  <2>. DEFINE n == nextAttestation
  <2>1. /\ n \notin recorded /\ recorded' = recorded \cup {n}
        /\ \A i \in recorded : i < n
        /\ \A i \in recorded : attestations'[i] = attestations[i]
        /\ attestations'[n].nonce = p.nonce /\ attestations'[n].timestamp = now
        /\ p.nonce \notin nonceUsed /\ nonceUsed' = nonceUsed \cup {p.nonce}
        /\ now' = now
    BY <1>2, SubmitEffects DEF permVars
  <2>2. n \in Int /\ recorded \subseteq Int
    BY AttestationAssumption DEF recorded, Typed, TypeOK, AttTypeOK
  <2>. HIDE DEF n
  <2>3. \A i \in recorded' : attestations'[i].nonce \in nonceUsed' /\ attestations'[i].timestamp <= now'
    BY <1>0, <2>1 DEF Evidence
  <2>4. ASSUME NEW i \in recorded', NEW j \in recorded', i < j
        PROVE  /\ attestations'[i].nonce # attestations'[j].nonce
               /\ attestations'[i].timestamp <= attestations'[j].timestamp
    <3>1. i \in recorded
      BY <2>1, <2>2, <2>4
    <3>2. CASE j = n
      BY <2>1, <3>1, <3>2 DEF Evidence
    <3>3. CASE j \in recorded
      BY <2>1, <2>4, <3>1, <3>3 DEF Evidence, RecordedOnce
    <3>. QED
      BY <2>1, <3>2, <3>3
  <2>5. \A d \in detected' : records'[d].attestationA \in recorded' /\ records'[d].attestationB \in recorded'
    <3>1. CASE Unremarkable(p)
      BY <2>1, <3>1 DEF Unremarkable, divVars, detected, Evidence
    <3>2. ASSUME NEW a, Detection(p, a)
          PROVE  \A d \in detected' : records'[d].attestationA \in recorded'
                                    /\ records'[d].attestationB \in recorded'
      <4>1. a \in recorded
        BY <3>2 DEF Detection, rivals, attestationsOf
      <4>2. /\ detected' = detected \cup {nextDivergence}
            /\ \A d \in detected : records'[d] = records[d]
            /\ records'[nextDivergence].attestationA = a
            /\ records'[nextDivergence].attestationB = n
        <5>1. records'[nextDivergence] =
                [tokenId |-> p.tokenId, attestationA |-> a, attestationB |-> nextAttestation,
                 detectedAt |-> now, resolved |-> FALSE, resolvedAt |-> 0,
                 proposer |-> NoAccount, confirmer |-> NoAccount,
                 acceptedCustodian |-> NoAccount, pending |-> FALSE]
          BY <1>2, <3>2, DetectionExtends
        <5>2. /\ detected' = detected \cup {nextDivergence}
              /\ \A d \in detected : records'[d] = records[d]
          BY <1>2, <3>2, DetectionExtends
        <5>. QED
          BY <5>1, <5>2 DEF n
      <4>. QED
        BY <2>1, <4>1, <4>2 DEF Evidence
    <3>. QED
      BY <1>2, <3>1, <3>2, SubmitOutcomes
  <2>. QED
    BY <2>3, <2>4, <2>5 DEF Evidence, RecordedOnce
<1>3. ASSUME NEW d, NEW rec, NEW sender, Resolves(d, rec, sender) PROVE Evidence'
  <2>1. /\ detected' = detected /\ recorded' = recorded
        /\ \A e \in detected : records'[e].attestationA = records[e].attestationA
                              /\ records'[e].attestationB = records[e].attestationB
        /\ UNCHANGED <<now, attestations, nonceUsed>>
    BY <1>3, ResolvesFields DEF permVars, attVars
  <2>. QED
    BY <2>1 DEF Evidence, RecordedOnce
<1>4. ASSUME NEW d, NEW sender, NEW c, Proposes(d, sender, c) PROVE Evidence'
  <2>1. /\ detected' = detected /\ recorded' = recorded
        /\ \A e \in detected : records'[e].attestationA = records[e].attestationA
                              /\ records'[e].attestationB = records[e].attestationB
        /\ UNCHANGED <<now, attestations, nonceUsed>>
    BY <1>4, ProposesFields DEF permVars, attVars
  <2>. QED
    BY <2>1 DEF Evidence, RecordedOnce
<1>. QED
  BY <1>1, <1>2, <1>3, <1>4, StepKinds

LEMMA AlwaysEvidence == Spec \/ DeployedSpec => []Evidence
<1>1. Started => Evidence
  <2>1. Started => recorded = {} /\ detected = {}
    BY DEF Started, Init, DeployedInit, AttInit, DivInit, recorded, detected
  <2>. QED
    BY <2>1 DEF Evidence, RecordedOnce
<1>. QED
  BY <1>1, AlwaysTyped, EvidenceStep, PTL DEF Spec, DeployedSpec, Started

\* For every log of AttestationRegistry, no nonce is recorded twice and times do
\* not run backwards (submitAttestation marks the nonce before its calls).
THEOREM EveryNonceOnce == Spec \/ DeployedSpec => []RecordedOnce
<1>1. Evidence => RecordedOnce
  BY DEF Evidence
<1>. QED
  BY <1>1, AlwaysEvidence, PTL

-----------------------------------------------------------------------------
\* A token that is minted has no past: what is recorded is about others.
LEMMA FreshnessStep ==
  Typed /\ Evidence /\ FreshnessCoversEvidence /\ [Next]_vars => FreshnessCoversEvidence'
<1>. SUFFICES ASSUME Typed, Evidence, FreshnessCoversEvidence, [Next]_vars
              PROVE  FreshnessCoversEvidence'
  OBVIOUS
<1>0. /\ now \in Int
      /\ \A t \in Tokens : assets[t].freshnessTimestamp \in Int
      /\ \A i \in recorded : attestations[i].timestamp \in Int /\ Exists(attestations[i].tokenId)
      /\ \A d \in detected : records[d].resolvedAt \in Int /\ Exists(records[d].tokenId)
  <2>1. now \in Int /\ \A i \in recorded : attestations[i].timestamp \in Int
    BY PermissionsAssumption DEF Typed, TypeOK, PermTypeOK, Shape, Attestation, Times
  <2>2. \A t \in Tokens : assets[t].freshnessTimestamp \in Int
    <3>1. \A t \in Tokens : assets[t] \in Asset \/ assets[t] = NoAsset
      BY DEF Typed, TypeOK, NftTypeOK
    <3>2. ASSUME NEW t \in Tokens, assets[t] \in Asset PROVE assets[t].freshnessTimestamp \in Int
      <4>1. assets[t].freshnessTimestamp \in Times
        BY <3>2 DEF Asset
      <4>. QED
        BY <4>1, PermissionsAssumption DEF Times
    <3>3. NoAsset.freshnessTimestamp \in Int
      BY DEF NoAsset
    <3>. QED
      BY <3>1, <3>2, <3>3
  <2>3. \A d \in detected : records[d].resolvedAt \in Int
    <3>1. \A d \in detected : records[d] \in DivergenceRecord
      BY DEF Typed, Shape
    <3>. QED
      BY <3>1, PermissionsAssumption DEF DivergenceRecord, Times
  <2>4. /\ \A i \in recorded : Exists(attestations[i].tokenId)
        /\ \A d \in detected : Exists(records[d].tokenId)
    BY DEF Typed, Shape
  <2>. QED
    BY <2>1, <2>2, <2>3, <2>4
<1>1. CASE Still
  <2>1. recorded' = recorded /\ detected' = detected /\ now' \in Int /\ now <= now'
        /\ UNCHANGED <<attestations, records>>
    BY <1>1, PermissionsAssumption DEF Still, recorded, divVars, detected, Times
  <2>2. ASSUME NEW t \in Tokens, Exists(t) \/ assets'[t] = assets[t]
        PROVE  assets'[t].freshnessTimestamp = assets[t].freshnessTimestamp
    BY <1>1, <2>2 DEF Still
  <2>3. ASSUME NEW t \in Tokens, ~Exists(t), assets'[t].freshnessTimestamp = now'
        PROVE  /\ assets'[t].freshnessTimestamp <= now'
               /\ \A i \in recorded : attestations[i].tokenId # t
               /\ \A d \in detected : records[d].tokenId # t
    BY <1>0, <2>1, <2>3
  <2>4. \A t \in Tokens : \/ Exists(t) \/ assets'[t] = assets[t]
                          \/ ~Exists(t) /\ assets'[t].freshnessTimestamp = now'
    BY <1>1 DEF Still
  <2>. QED
    BY <1>0, <2>1, <2>2, <2>3, <2>4 DEF FreshnessCoversEvidence, attestationsOf
<1>2. ASSUME NEW p \in Payloads, SubmitAttestation(p) PROVE FreshnessCoversEvidence'
  <2>. DEFINE n == nextAttestation
              t == p.tokenId
  <2>1. /\ recorded' = recorded \cup {n}
        /\ \A i \in recorded : attestations'[i] = attestations[i]
        /\ attestations'[n].tokenId = t /\ attestations'[n].timestamp = now
        /\ \A d \in detected : records'[d] = records[d]
        /\ now' = now
    BY <1>2, SubmitEffects DEF permVars
  <2>2. \A u \in Tokens : assets'[u].freshnessTimestamp =
          IF u = t /\ now > assets[u].freshnessTimestamp THEN now ELSE assets[u].freshnessTimestamp
    BY <1>2, SubmitFields
  <2>3. \A d \in detected' : d \in detected \/ ~records'[d].resolved
    <3>1. CASE Unremarkable(p)
      BY <3>1 DEF Unremarkable, divVars, detected
    <3>2. ASSUME NEW a, Detection(p, a)
          PROVE  \A d \in detected' : d \in detected \/ ~records'[d].resolved
      <4>1. records'[nextDivergence] =
              [tokenId |-> p.tokenId, attestationA |-> a, attestationB |-> nextAttestation,
               detectedAt |-> now, resolved |-> FALSE, resolvedAt |-> 0,
               proposer |-> NoAccount, confirmer |-> NoAccount,
               acceptedCustodian |-> NoAccount, pending |-> FALSE]
        BY <1>2, <3>2, DetectionExtends
      <4>2. detected' = detected \cup {nextDivergence}
        BY <1>2, <3>2, DetectionExtends
      <4>. QED
        BY <4>1, <4>2
    <3>. QED
      BY <1>2, <3>1, <3>2, SubmitOutcomes
  <2>. HIDE DEF n, t
  <2>4. ASSUME NEW u \in Tokens
        PROVE  /\ assets'[u].freshnessTimestamp <= now'
               /\ assets[u].freshnessTimestamp <= assets'[u].freshnessTimestamp
               /\ u = t => assets'[u].freshnessTimestamp = now
    BY <1>0, <2>1, <2>2 DEF FreshnessCoversEvidence
  <2>5. ASSUME NEW u \in Tokens
        PROVE  assets'[u].freshnessTimestamp \in Int
    BY <1>0, <2>2
  <2>. QED
    BY <1>0, <2>1, <2>3, <2>4, <2>5 DEF FreshnessCoversEvidence, attestationsOf
<1>3. ASSUME NEW d, NEW rec, NEW sender, Resolves(d, rec, sender) PROVE FreshnessCoversEvidence'
  <2>0. /\ detected' = detected /\ recorded' = recorded
        /\ \A e \in detected : e # d => records'[e] = records[e]
        /\ records'[d].tokenId = records[d].tokenId /\ records'[d].resolvedAt = now
        /\ UNCHANGED <<permVars, attVars>>
    BY <1>3, ResolvesFields
  <2>1. \A u \in Tokens :
           /\ u # records[d].tokenId => assets'[u] = assets[u]
           /\ u = records[d].tokenId => assets'[u].freshnessTimestamp = now
    BY <1>3, ResolvesTokens
  <2>. DEFINE t == records[d].tokenId
  <2>2. /\ detected' = detected /\ recorded' = recorded
        /\ \A e \in detected : e # d => records'[e] = records[e]
        /\ records'[d].tokenId = t /\ records'[d].resolvedAt = now
        /\ \A u \in Tokens : u # t => assets'[u] = assets[u]
        /\ \A u \in Tokens : u = t => assets'[u].freshnessTimestamp = now
        /\ UNCHANGED <<permVars, attVars>>
    BY <2>0, <2>1
  <2>. HIDE DEF t
  <2>3. ASSUME NEW u \in Tokens, u # t PROVE FreshnessCoversEvidence!(u)'
    BY <1>0, <2>2, <2>3 DEF FreshnessCoversEvidence, attestationsOf, permVars, attVars
  <2>4. ASSUME NEW u \in Tokens, u = t PROVE FreshnessCoversEvidence!(u)'
    BY <1>0, <2>2, <2>4 DEF FreshnessCoversEvidence, attestationsOf, Evidence, permVars, attVars
  <2>. QED
    BY <2>3, <2>4 DEF FreshnessCoversEvidence
<1>4. ASSUME NEW d, NEW sender, NEW c, Proposes(d, sender, c) PROVE FreshnessCoversEvidence'
  <2>1. /\ detected' = detected /\ recorded' = recorded
        /\ \A e \in detected : e # d => records'[e] = records[e]
        /\ records'[d].tokenId = records[d].tokenId /\ ~records'[d].resolved
        /\ UNCHANGED <<now, attestations, assets>>
    BY <1>4, ProposesFields DEF permVars, attVars
  <2>. QED
    BY <2>1 DEF FreshnessCoversEvidence, attestationsOf
<1>. QED
  BY <1>1, <1>2, <1>3, <1>4, StepKinds

\* For every log and window, AssetNFT has an asset as fresh as the newest
\* observation (updateFreshness) and the last reconciliation of it
\* (applyReconciledState), and never dates it in the future.
THEOREM FreshnessIsEarned == Spec \/ DeployedSpec => []FreshnessCoversEvidence
<1>1. Started => FreshnessCoversEvidence
  <2>1. Started => /\ recorded = {} /\ detected = {} /\ now = 0
                   /\ assets = [t \in Tokens |-> NoAsset]
    BY DEF Started, Init, DeployedInit, PermInit, NftInit, AttInit, DivInit, recorded, detected
  <2>. QED
    BY <2>1 DEF FreshnessCoversEvidence, attestationsOf, NoAsset
<1>. QED
  BY <1>1, AlwaysTyped, AlwaysEvidence, FreshnessStep, PTL DEF Spec, DeployedSpec, Started

-----------------------------------------------------------------------------
\* Only a mint changes the index, and only at an identifier that was free.
LEMMA IdentifierStep ==
  Typed /\ IdentifierNamesOneToken /\ [Next]_vars => IdentifierNamesOneToken'
<1>. SUFFICES ASSUME Typed, IdentifierNamesOneToken, [Next]_vars
              PROVE  IdentifierNamesOneToken'
  OBVIOUS
<1>1. Typed'
  BY TypedStep
<1>2. \A t \in Tokens : Exists(t) => assets[t] \in Asset
  BY DEF Typed, TypeOK, NftTypeOK, Exists, NoAsset
<1>3. \A t \in Tokens : Exists(t) => assets'[t].assetIdentifier = assets[t].assetIdentifier
  BY FixedAtMint
<1>4. CASE UNCHANGED <<nextToken, tokenByIdentifier>>
  <2>1. \A t \in Tokens : assets'[t].exists <=> assets[t].exists
    BY <1>1, <1>4 DEF Typed, Shape, Exists
  <2>. QED
    BY <1>3, <1>4, <2>1 DEF IdentifierNamesOneToken, Exists
<1>5. ASSUME NEW sender \in Accounts, NEW to \in Accounts, NEW i \in Identifiers,
             NEW w \in Windows, NEW h \in BOOLEAN, NEW c \in Accounts \cup {NoAccount},
             Mint(sender, to, i, w, h, c)
      PROVE  IdentifierNamesOneToken'
  <2>1. nextToken \in Tokens /\ nextToken # 0 /\ nextToken' = nextToken + 1
    BY <1>5, AssetAssumption DEF Mint, Typed, TypeOK, NftTypeOK, Tokens
  <2>2. /\ tokenByIdentifier[i] = 0
        /\ tokenByIdentifier'[i] = nextToken
        /\ \A j \in Identifiers : j # i => tokenByIdentifier'[j] = tokenByIdentifier[j]
    BY <1>5 DEF Mint, identifierFree, Typed, TypeOK, NftTypeOK
  <2>3. assets'[nextToken].assetIdentifier = i
    BY <1>5, <2>1 DEF Mint, Typed, TypeOK, NftTypeOK
  <2>4. \A t \in Tokens : assets'[t].exists => assets[t].exists \/ t = nextToken
    BY <1>1, <2>1, AssetAssumption DEF Typed, Shape, Exists, Tokens
  <2>5. \A t \in Tokens : Exists(t) => assets[t].assetIdentifier \in Identifiers \ {i}
    <3>1. \A t \in Tokens : Exists(t) => tokenByIdentifier[assets[t].assetIdentifier] # 0
      BY AssetAssumption DEF IdentifierNamesOneToken, Tokens
    <3>. QED
      BY <1>2, <2>2, <3>1 DEF Asset
  <2>. QED
    BY <1>3, <2>2, <2>3, <2>4, <2>5 DEF IdentifierNamesOneToken, Exists
<1>6. CASE UNCHANGED vars \/ PermissionChange
  BY <1>4, <1>6 DEF vars, PermissionChange, nftVars, nftConfig
<1>7. CASE AssetTransaction
  BY <1>4, <1>5, <1>7 DEF AssetTransaction, NftNext, SetNftDivergenceRegistry,
     SetNftAttestationRegistry, AssignCustody, TransferOwnershipTo, TransferFrom, nftConfig
<1>8. CASE \/ \E p \in Payloads : SubmitAttestation(p)
           \/ \E sender \in Accounts : WireDivergenceRegistry(sender)
           \/ \E sender \in Accounts, d \in DivergenceIds :
                Confirm(sender, d) \/ \E c \in Accounts : Propose(sender, d, c)
  BY <1>4, <1>8 DEF SubmitAttestation, WireDivergenceRegistry, Confirm, Propose, nftVars, nftConfig
<1>. QED
  BY <1>6, <1>7, <1>8 DEF Next

\* For every set of identifiers, no two tokens that AssetNFT.mint has made ever
\* carry the same one.
THEOREM IdentifiersAreUnique == Spec \/ DeployedSpec => []IdentifierNamesOneToken
<1>1. Started => IdentifierNamesOneToken
  <2>1. Started => assets = [t \in Tokens |-> NoAsset]
    BY DEF Started, Init, DeployedInit, NftInit
  <2>. QED
    BY <2>1 DEF IdentifierNamesOneToken, Exists, NoAsset
<1>. QED
  BY <1>1, AlwaysTyped, IdentifierStep, PTL DEF Spec, DeployedSpec, Started

-----------------------------------------------------------------------------
\* What no step undoes: an observation stays in the log, a divergence keeps its
\* evidence, and it changes only by being proposed or resolved, the latter once.
Kept(d) ==
  /\ d \in detected'
  /\ records'[d] \in DivergenceRecord
  /\ records'[d].tokenId = records[d].tokenId
  /\ records'[d].attestationA = records[d].attestationA
  /\ records'[d].attestationB = records[d].attestationB
  /\ records'[d].detectedAt = records[d].detectedAt
  /\ records[d].resolved => records'[d] = records[d]
  /\ records[d].pending => /\ records'[d].proposer = records[d].proposer
                           /\ records'[d].acceptedCustodian = records[d].acceptedCustodian
  /\ records'[d].resolved => records[d].resolved \/ records'[d].resolvedAt = now

LEMMA LogOnlyGrows ==
  ASSUME Typed, [Next]_vars
  PROVE  /\ \A i \in recorded : i \in recorded' /\ attestations'[i] = attestations[i]
         /\ \/ divergenceFrom' = divergenceFrom
            \/ divergenceFrom = 0 /\ divergenceFrom' = nextAttestation
         /\ recorded' = recorded \/ \E p \in Payloads : SubmitAttestation(p)
<1>1. CASE Still
  BY <1>1 DEF Still, recorded
<1>2. ASSUME NEW p \in Payloads, SubmitAttestation(p)
      PROVE  /\ \A i \in recorded : i \in recorded' /\ attestations'[i] = attestations[i]
             /\ divergenceFrom' = divergenceFrom
  BY <1>2, SubmitEffects
<1>3. ASSUME NEW d, NEW rec, NEW sender, Resolves(d, rec, sender)
      PROVE  recorded' = recorded /\ UNCHANGED attVars
  BY <1>3 DEF Resolves, attVars, recorded
<1>4. ASSUME NEW d, NEW sender, NEW c, Proposes(d, sender, c)
      PROVE  recorded' = recorded /\ UNCHANGED attVars
  BY <1>4 DEF Proposes, attVars, recorded
<1>. QED
  BY <1>1, <1>2, <1>3, <1>4, StepKinds DEF attVars

LEMMA EvidenceIsKept ==
  ASSUME Typed, [Next]_vars, NEW d \in detected
  PROVE  Kept(d)
<1>1. records[d] \in DivergenceRecord
  BY DEF Typed, Shape
<1>2. ASSUME d \in detected', records'[d] = records[d]
      PROVE  Kept(d)
  BY <1>1, <1>2 DEF Kept
<1>3. CASE Still
  BY <1>2, <1>3 DEF Still, divVars, detected
<1>4. ASSUME NEW p \in Payloads, SubmitAttestation(p) PROVE Kept(d)
  BY <1>2, <1>4, SubmitEffects
<1>5. ASSUME NEW e, NEW rec, NEW sender, Resolves(e, rec, sender) PROVE Kept(d)
  <2>1. CASE d # e
    <3>1. d \in detected' /\ records'[d] = records[d]
      BY <1>5, <2>1, ResolvesFields
    <3>. QED
      BY <1>2, <3>1
  <2>2. CASE d = e
    <3>1. /\ d \in detected' /\ records'[d] \in DivergenceRecord
          /\ records'[d].tokenId = records[d].tokenId
          /\ records'[d].attestationA = records[d].attestationA
          /\ records'[d].attestationB = records[d].attestationB
          /\ records'[d].detectedAt = records[d].detectedAt
          /\ ~records[d].resolved /\ records'[d].resolvedAt = now
      BY <1>5, <2>2, ResolvesFields
    <3>2. records'[d].proposer = rec.proposer /\ records'[d].acceptedCustodian = rec.acceptedCustodian
      BY <1>5, <2>2, ResolvedBy
    <3>3. records[d].pending => /\ rec.proposer = records[d].proposer
                                /\ rec.acceptedCustodian = records[d].acceptedCustodian
      BY <1>5, <2>2 DEF Resolves
    <3>. QED
      BY <3>1, <3>2, <3>3 DEF Kept
  <2>. QED
    BY <2>1, <2>2
<1>6. ASSUME NEW e, NEW sender, NEW c, Proposes(e, sender, c) PROVE Kept(d)
  <2>1. CASE d # e
    <3>1. d \in detected' /\ records'[d] = records[d]
      BY <1>6, <2>1, ProposesFields
    <3>. QED
      BY <1>2, <3>1
  <2>2. CASE d = e
    BY <1>6, <2>2, ProposesFields DEF Kept
  <2>. QED
    BY <2>1, <2>2
<1>. QED
  BY <1>3, <1>4, <1>5, <1>6, StepKinds

\* For every history, no transaction rewrites what AttestationRegistry's log and
\* DivergenceRegistry's records say: evidence, resolutions and standing
\* proposals are permanent.
THEOREM HistoryIsPermanent == Spec \/ DeployedSpec => HistoryKept
<1>. DEFINE Keeps ==
       /\ \A i \in recorded : i \in recorded' /\ attestations'[i] = attestations[i]
       /\ \A d \in detected :
            /\ d \in detected'
            /\ records[d].resolved => records'[d] = records[d]
            /\ records[d].pending => /\ records'[d].proposer = records[d].proposer
                                    /\ records'[d].acceptedCustodian = records[d].acceptedCustodian
            /\ \A f \in {"tokenId", "attestationA", "attestationB", "detectedAt"} :
                 records'[d][f] = records[d][f]
<1>1. ASSUME Typed, [Next]_vars PROVE Keeps
  <2>1. \A i \in recorded : i \in recorded' /\ attestations'[i] = attestations[i]
    BY <1>1, LogOnlyGrows
  <2>2. \A d \in detected : Kept(d)
    BY <1>1, EvidenceIsKept
  <2>3. \A d \in detected : records[d] \in DivergenceRecord
    BY <1>1 DEF Typed, Shape
  <2>4. ASSUME NEW d \in detected, NEW f \in {"tokenId", "attestationA", "attestationB", "detectedAt"}
        PROVE  records'[d][f] = records[d][f]
    BY <2>2, <2>3 DEF Kept, DivergenceRecord
  <2>. QED
    BY <2>1, <2>2, <2>4 DEF Kept
<1>2. Typed /\ [Next]_vars => [Keeps]_vars
  BY <1>1
<1>. QED
  BY <1>2, AlwaysTyped, PTL DEF Spec, DeployedSpec, HistoryKept

-----------------------------------------------------------------------------
\* The pairs of ConflictsRecorded, and what it says of the later one.
Conflict(a, b) ==
  LET A == attestations[a]
      B == attestations[b] IN
  /\ a < b
  /\ divergenceFrom # 0 /\ divergenceFrom <= b
  /\ A.tokenId = B.tokenId
  /\ B.timestamp - A.timestamp <= assets[B.tokenId].freshnessWindow
  /\ <<A.custodian, A.locationId, A.condition>> # <<B.custodian, B.locationId, B.condition>>

Answered(b) ==
  \E d \in detected :
    /\ records[d].tokenId = attestations[b].tokenId
    /\ \/ records[d].attestationB = b
       \/ /\ records[d].attestationB < b
          /\ records[d].resolved => records[d].resolvedAt >= attestations[b].timestamp

LEMMA ConflictsAreAnswered ==
  ConflictsRecorded <=> \A a, b \in recorded : Conflict(a, b) => Answered(b)
  BY DEF ConflictsRecorded, Conflict, Answered

\* An answer to a conflict stays one: the divergence is resolved, if at all, at
\* a time that is not before the observation.
LEMMA AnswersStand ==
  ASSUME Typed, Evidence, [Next]_vars, NEW b \in recorded, Answered(b)
  PROVE  Answered(b)'
<1>1. PICK d \in detected :
        /\ records[d].tokenId = attestations[b].tokenId
        /\ \/ records[d].attestationB = b
           \/ /\ records[d].attestationB < b
              /\ records[d].resolved => records[d].resolvedAt >= attestations[b].timestamp
  BY DEF Answered
<1>2. attestations'[b] = attestations[b]
  BY LogOnlyGrows
<1>3. now >= attestations[b].timestamp
  BY PermissionsAssumption
  DEF Evidence, Typed, TypeOK, PermTypeOK, Shape, Attestation, Times
<1>4. Kept(d)
  BY EvidenceIsKept
<1>5. d \in detected' /\ records'[d].tokenId = attestations'[b].tokenId
      /\ records'[d].attestationB = records[d].attestationB
  BY <1>1, <1>2, <1>4 DEF Kept
<1>6. \/ records[d].attestationB = b
      \/ /\ records[d].attestationB < b
         /\ records'[d].resolved => records'[d].resolvedAt >= attestations'[b].timestamp
  BY <1>1, <1>2, <1>3, <1>4 DEF Kept
<1>. QED
  BY <1>5, <1>6 DEF Answered

\* A conflicting observation is answered by the transaction that records it.
LEMMA NewConflictIsAnswered ==
  ASSUME Typed, Evidence, QuarantineIffOpen,
         NEW p \in Payloads, SubmitAttestation(p), NEW b, b = nextAttestation,
         NEW a \in recorded, Conflict(a, b)'
  PROVE  Answered(b)'
<1>. DEFINE t == p.tokenId
            B == observation(p)
<1>1. /\ \A i \in recorded : i < b
      /\ attestations'[a] = attestations[a]
      /\ divergenceFrom' = divergenceFrom
  BY SubmitEffects
<1>2. /\ t \in Tokens /\ attestations'[b] = B
      /\ B.tokenId = t /\ B.timestamp = now /\ B \in Attestation
  <2>1. record(p)
    BY SubmitOutcomes
  <2>. QED
    BY <2>1, RecordExtends DEF observation
<1>3. /\ divergenceFrom # 0
      /\ attestations[a].tokenId = t
      /\ now - attestations[a].timestamp <= assets[t].freshnessWindow
      /\ conflicts(B, attestations[a])
  <2>1. assets'[t].freshnessWindow = assets[t].freshnessWindow
    BY SubmitFields
  <2>. QED
    BY <1>1, <1>2, <2>1 DEF Conflict, conflicts
<1>. HIDE DEF B
<1>4. a \in rivals(B)
  <2>1. assets[t].freshnessWindow \in Nat /\ now \in Int /\ attestations[a].timestamp \in Int
    <3>1. now \in Times /\ attestations[a] \in Attestation /\ Exists(attestations[a].tokenId)
      BY DEF Typed, TypeOK, PermTypeOK, Shape
    <3>2. attestations[a].timestamp \in Times
      BY <3>1 DEF Attestation
    <3>3. assets[t] \in Asset
      BY <1>2, <1>3, <3>1, ExistingIsAsset DEF Typed, TypeOK, NftTypeOK, Exists
    <3>4. assets[t].freshnessWindow \in Nat
      BY <3>3 DEF Asset
    <3>. QED
      BY <3>1, <3>2, <3>4, PermissionsAssumption DEF Times
  <2>2. attestations[a].timestamp <= now
    BY DEF Evidence
  <2>3. withinWindow(B.timestamp, attestations[a].timestamp, assets[B.tokenId].freshnessWindow)
    BY <1>2, <1>3, <2>1, <2>2 DEF withinWindow
  <2>. QED
    BY <1>2, <1>3, <2>3 DEF rivals, attestationsOf
<1>5. ASSUME NEW x, Detection(p, x)
      PROVE  Answered(b)'
  <2>1. records'[nextDivergence] =
          [tokenId |-> p.tokenId, attestationA |-> x, attestationB |-> nextAttestation,
           detectedAt |-> now, resolved |-> FALSE, resolvedAt |-> 0,
           proposer |-> NoAccount, confirmer |-> NoAccount,
           acceptedCustodian |-> NoAccount, pending |-> FALSE]
    BY <1>5, DetectionExtends
  <2>2. nextDivergence \in detected'
    BY <1>5, DetectionExtends
  <2>3. records'[nextDivergence].tokenId = t /\ records'[nextDivergence].attestationB = b
    BY <2>1
  <2>. QED
    BY <1>2, <2>2, <2>3 DEF Answered
<1>6. CASE openDivergenceOf[t] # 0
  <2>. DEFINE d == openDivergenceOf[t]
  <2>1. d \in detected /\ records[d].tokenId = t /\ ~records[d].resolved
    BY <1>2, <1>6 DEF QuarantineIffOpen
  <2>2. records[d].attestationB < b
    BY <1>1, <2>1 DEF Evidence
  <2>3. d \in detected' /\ records'[d] = records[d]
    BY <2>1, SubmitEffects
  <2>. QED
    BY <1>2, <2>1, <2>2, <2>3 DEF Answered
<1>. QED
  BY <1>3, <1>4, <1>5, <1>6, SubmitOutcomes DEF B

LEMMA ConflictsStep ==
  Typed /\ Evidence /\ QuarantineIffOpen /\ ConflictsRecorded /\ [Next]_vars
    => ConflictsRecorded'
<1>. SUFFICES ASSUME Typed, Evidence, QuarantineIffOpen, ConflictsRecorded, [Next]_vars,
                     NEW a \in recorded', NEW b \in recorded', Conflict(a, b)'
              PROVE  Answered(b)'
  BY ConflictsAreAnswered DEF ConflictsRecorded, Conflict, Answered
<1>1. recorded \subseteq Int /\ nextAttestation \in Int
  BY AttestationAssumption DEF recorded, Typed, TypeOK, AttTypeOK
<1>2. CASE a \in recorded /\ b \in recorded
  <2>1. attestations'[a] = attestations[a] /\ attestations'[b] = attestations[b]
    BY <1>2, LogOnlyGrows
  <2>2. divergenceFrom # 0 /\ divergenceFrom <= b
    <3>1. divergenceFrom' = divergenceFrom \/ divergenceFrom' = nextAttestation
      BY LogOnlyGrows
    <3>2. b < nextAttestation
      BY <1>2, AttestationAssumption DEF recorded, Typed, TypeOK, AttTypeOK
    <3>3. divergenceFrom' # 0 /\ divergenceFrom' <= b
      BY DEF Conflict
    <3>. QED
      BY <1>1, <1>2, <3>1, <3>2, <3>3
  <2>3. assets'[attestations[b].tokenId].freshnessWindow = assets[attestations[b].tokenId].freshnessWindow
    <3>1. Exists(attestations[b].tokenId) /\ attestations[b].tokenId \in Tokens
      BY <1>2 DEF Typed, Shape, Attestation
    <3>. QED
      BY <3>1, FixedAtMint
  <2>4. Conflict(a, b)
    BY <2>1, <2>2, <2>3 DEF Conflict
  <2>. QED
    BY <1>2, <2>4, ConflictsAreAnswered, AnswersStand
<1>3. ASSUME NEW p \in Payloads, SubmitAttestation(p), ~(a \in recorded /\ b \in recorded)
      PROVE  Answered(b)'
  <2>1. recorded' = recorded \cup {nextAttestation} /\ \A i \in recorded : i < nextAttestation
    BY <1>3, SubmitEffects
  <2>2. a < b
    BY DEF Conflict
  <2>3. b = nextAttestation /\ a \in recorded
    BY <1>1, <1>3, <2>1, <2>2
  <2>. QED
    BY <1>3, <2>3, NewConflictIsAnswered
<1>. QED
  BY <1>2, <1>3, LogOnlyGrows

\* For every log, window and wiring, no two observations of an asset conflict
\* without a divergence to show for it, although onAttestation stops at the
\* first conflict it finds.
THEOREM NoConflictIsMissed == Spec \/ DeployedSpec => []ConflictsRecorded
<1>1. Started => ConflictsRecorded
  <2>1. Started => recorded = {}
    BY DEF Started, Init, DeployedInit, AttInit, recorded
  <2>. QED
    BY <2>1 DEF ConflictsRecorded
<1>. QED
  BY <1>1, AlwaysTyped, AlwaysEvidence, QuarantineMatchesDivergence, ConflictsStep, PTL
  DEF Spec, DeployedSpec, Started

-----------------------------------------------------------------------------
\* The only step that lifts a quarantine is the resolution of the divergence
\* that the token has open.
LEMMA LiftedByResolution ==
  ASSUME Typed, [Next]_vars, NEW t \in Tokens, assets[t].quarantined, ~assets'[t].quarantined
  PROVE  \E d, rec, sender : Resolves(d, rec, sender) /\ records[d].tokenId = t
<1>1. CASE Still
  BY <1>1 DEF Still
<1>2. ASSUME NEW p \in Payloads, SubmitAttestation(p) PROVE FALSE
  <2>1. CASE Unremarkable(p)
    BY <1>2, <2>1, SubmitFields
  <2>2. ASSUME NEW a, Detection(p, a) PROVE FALSE
    BY <1>2, <2>2, SubmitFields
  <2>. QED
    BY <1>2, <2>1, <2>2, SubmitOutcomes
<1>3. ASSUME NEW d, NEW sender, NEW c, Proposes(d, sender, c) PROVE FALSE
  BY <1>3 DEF Proposes, Pending
<1>4. ASSUME NEW d, NEW rec, NEW sender, Resolves(d, rec, sender)
      PROVE  records[d].tokenId = t
  BY <1>4, ResolvesTokens
<1>. QED
  BY <1>1, <1>2, <1>3, <1>4, StepKinds

\* For every token, quarantine is lifted only when DivergenceRegistry resolves
\* its open divergence (_finalize), to the custodian accepted there, on the word
\* of an account that may.
THEOREM OnlyResolutionReleases == Spec \/ DeployedSpec => ReleasedByResolution
<1>. DEFINE Released ==
       \A t \in Tokens : assets[t].quarantined /\ ~assets'[t].quarantined =>
         LET old == records[openDivergenceOf[t]]
             new == records'[openDivergenceOf[t]] IN
         /\ ~old.resolved /\ new.resolved /\ ~new.pending
         /\ assets'[t].custodian = new.acceptedCustodian
         /\ IF assets[t].highValue THEN hasActiveRole(new.confirmer, ADMIN)
                                   ELSE adminOrManager(new.confirmer)
<1>1. ASSUME Typed, [Next]_vars PROVE Released
  <2>. SUFFICES ASSUME NEW t \in Tokens, assets[t].quarantined, ~assets'[t].quarantined
                PROVE  Released!(t)!2
    OBVIOUS
  <2>1. PICK d, rec, sender : Resolves(d, rec, sender) /\ records[d].tokenId = t
    BY <1>1, LiftedByResolution
  <2>2. /\ openDivergenceOf[t] = d /\ ~records[d].resolved
        /\ records'[d].resolved = TRUE /\ records'[d].pending = FALSE
        /\ records'[d].confirmer = sender
        /\ records'[d].acceptedCustodian = rec.acceptedCustodian
    <3>1. Resolves(d, rec, sender) /\ Typed
      BY <1>1, <2>1
    <3>2. /\ openDivergenceOf[records[d].tokenId] = d /\ ~records[d].resolved
          /\ records'[d].resolved = TRUE /\ records'[d].pending = FALSE
      BY <3>1, ResolvesFields
    <3>3. /\ records'[d].confirmer = sender
          /\ records'[d].acceptedCustodian = rec.acceptedCustodian
      BY <3>1, ResolvedBy
    <3>. QED
      BY <2>1, <3>2, <3>3
  <2>3. assets'[t].custodian = rec.acceptedCustodian
    BY <1>1, <2>1, ResolvesTokens
  <2>4. IF assets[t].highValue THEN hasActiveRole(sender, ADMIN) ELSE adminOrManager(sender)
    <3>1. rec.tokenId = t
      BY <2>1 DEF Resolves
    <3>. QED
      BY <2>1, <3>1 DEF Resolves, adminOrManager
  <2>. QED
    BY <2>2, <2>3, <2>4
<1>2. Typed /\ [Next]_vars => [Released]_vars
  BY <1>1
<1>. QED
  BY <1>2, AlwaysTyped, PTL DEF Spec, DeployedSpec, ReleasedByResolution

=============================================================================
