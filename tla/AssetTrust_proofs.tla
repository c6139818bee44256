-------------------------- MODULE AssetTrust_proofs --------------------------
(***************************************************************************)
(* Proofs about AssetTrust, for every choice of accounts, grants, payloads, *)
(* windows and bounds.                                                      *)
(***************************************************************************)
EXTENDS AssetTrust, TLAPS

\* What the typing needs besides types: the ids below each counter hold real
\* entries about existing tokens, and a record that was proposed names its
\* proposer and the custodian it accepts.
Shape ==
  /\ \A t \in Tokens : Exists(t) <=> t < nextToken
  /\ \A i \in recorded : attestations[i] \in Attestation /\ Exists(attestations[i].tokenId)
  /\ \A d \in detected :
       /\ records[d] \in DivergenceRecord
       /\ Exists(records[d].tokenId)
       /\ records[d].pending \/ records[d].resolved =>
            records[d].proposer \in Accounts /\ records[d].acceptedCustodian \in Accounts
       /\ records[d].resolved => records[d].confirmer \in Accounts

Typed == TypeOK /\ Shape

-----------------------------------------------------------------------------
LEMMA ExistingIsAsset ==
  ASSUME NEW table \in [Tokens -> Asset \cup {NoAsset}], NEW t \in Tokens
  PROVE  table[t].exists => table[t] \in Asset
  BY DEF NoAsset

LEMMA FreshnessKeepsTable ==
  ASSUME NEW table \in [Tokens -> Asset \cup {NoAsset}], NEW t \in Tokens,
         table[t].exists, NEW ts \in Times
  PROVE  /\ updateFreshness(table, t, ts) \in [Tokens -> Asset \cup {NoAsset}]
         /\ updateFreshness(table, t, ts)[t].exists
         /\ \A u \in Tokens : updateFreshness(table, t, ts)[u].exists <=> table[u].exists
  <1>1. table[t] \in Asset
    BY ExistingIsAsset
  <1> QED
    BY <1>1 DEF updateFreshness, Asset

LEMMA QuarantineKeepsTable ==
  ASSUME NEW table \in [Tokens -> Asset \cup {NoAsset}], NEW t \in Tokens,
         table[t].exists, NEW flag \in BOOLEAN
  PROVE  /\ setQuarantine(table, t, flag) \in [Tokens -> Asset \cup {NoAsset}]
         /\ \A u \in Tokens : setQuarantine(table, t, flag)[u].exists <=> table[u].exists
  <1>1. table[t] \in Asset
    BY ExistingIsAsset
  <1> QED
    BY <1>1 DEF setQuarantine, Asset

LEMMA ReleaseKeepsTable ==
  ASSUME NEW table \in [Tokens -> Asset \cup {NoAsset}], NEW t \in Tokens,
         table[t].exists, NEW c \in Accounts, now \in Times
  PROVE  /\ applyReconciledState(table, t, c) \in [Tokens -> Asset \cup {NoAsset}]
         /\ \A u \in Tokens : applyReconciledState(table, t, c)[u].exists <=> table[u].exists
  <1>1. table[t] \in Asset
    BY ExistingIsAsset
  <1> QED
    BY <1>1 DEF applyReconciledState, Asset

-----------------------------------------------------------------------------
\* Whether the contracts are wired by later transactions or before the first.
Started == Init \/ DeployedInit

LEMMA TypedInit == Started => Typed
  <1> SUFFICES ASSUME Started PROVE Typed
    OBVIOUS
  <1>1. PermTypeOK
    BY PermissionsAssumption DEF Started, Init, DeployedInit, PermInit, PermTypeOK, Times
  <1>2. NftTypeOK
    <2>1. assets = [t \in Tokens |-> NoAsset] /\ assets \in [Tokens -> Asset \cup {NoAsset}]
      BY DEF Started, Init, DeployedInit, NftInit
    <2>2. nextToken \in 1..(MaxToken + 1)
      BY AssetAssumption DEF Started, Init, DeployedInit, NftInit
    <2>3. tokenByIdentifier \in [Identifiers -> 0..MaxToken]
      BY AssetAssumption DEF Started, Init, DeployedInit, NftInit
    <2> QED
      BY <2>1, <2>2, <2>3 DEF Started, Init, DeployedInit, NftInit, NftTypeOK
  <1>3. AttTypeOK
    BY AttestationAssumption DEF Started, Init, DeployedInit, AttInit, AttTypeOK
  <1>4. DivTypeOK
    BY DivergenceAssumption DEF Started, Init, DeployedInit, DivInit, DivTypeOK
  <1>5. recorded = {} /\ detected = {}
    BY DEF Started, Init, DeployedInit, AttInit, DivInit, recorded, detected
  <1>6. Shape
    BY <1>5, AssetAssumption DEF Started, Init, DeployedInit, NftInit, Shape, Exists, NoAsset, Tokens
  <1> QED
    BY <1>1, <1>2, <1>3, <1>4, <1>6 DEF Typed, TypeOK

\* Permissions change under the asset contracts without touching them.
LEMMA TypedPermission == Typed /\ PermissionChange => Typed'
  <1> SUFFICES ASSUME Typed, PermissionChange PROVE Typed'
    OBVIOUS
  <1>1. PermTypeOK'
    <2>1. CASE Tick
      BY <2>1, PermissionsAssumption DEF Tick, Typed, TypeOK, PermTypeOK, Times
    <2>2. ASSUME NEW g \in Grants, RoleGranted(g) \/ RoleLost(g) PROVE PermTypeOK'
      BY <2>2 DEF RoleGranted, RoleLost, Typed, TypeOK, PermTypeOK
    <2>3. ASSUME NEW a \in Controllers, ControllerBound(a) \/ ControllerLost(a)
          PROVE PermTypeOK'
      BY <2>3 DEF ControllerBound, ControllerLost, Typed, TypeOK, PermTypeOK
    <2>4. ASSUME NEW a \in Controllers, NEW b \in Controllers, ControllerRotated(a, b)
          PROVE PermTypeOK'
      BY <2>4 DEF ControllerRotated, Typed, TypeOK, PermTypeOK
    <2> QED
      BY <2>1, <2>2, <2>3, <2>4 DEF PermissionChange, PermNext
  <1> QED
    BY <1>1 DEF PermissionChange, Typed, TypeOK, NftTypeOK, AttTypeOK, DivTypeOK, Shape,
                recorded, detected, Exists, nftVars, nftConfig, attVars, divVars

LEMMA TypedAsset == Typed /\ AssetTransaction => Typed'
  <1> SUFFICES ASSUME Typed, AssetTransaction PROVE Typed'
    OBVIOUS
  <1> USE DEF Typed, TypeOK
  <1>0. /\ PermTypeOK' /\ AttTypeOK' /\ DivTypeOK'
        /\ recorded' = recorded /\ detected' = detected
        /\ attestations' = attestations /\ records' = records
    BY DEF AssetTransaction, permVars, attVars, divVars, PermTypeOK, AttTypeOK, DivTypeOK,
           recorded, detected
  <1> DEFINE Grows == /\ NftTypeOK'
                      /\ \A t \in Tokens : Exists(t)' <=> t < nextToken'
                      /\ \A t \in Tokens : Exists(t) => Exists(t)'
  <1>1. ASSUME NEW sender \in Accounts,
               SetNftDivergenceRegistry(sender) \/ SetNftAttestationRegistry(sender)
        PROVE  Grows
    BY <1>1 DEF SetNftDivergenceRegistry, SetNftAttestationRegistry, NftTypeOK, Shape, Exists
  <1>2. ASSUME NEW sender \in Accounts, NEW to \in Accounts, NEW i \in Identifiers,
               NEW w \in Windows, NEW h \in BOOLEAN, NEW c \in Accounts \cup {NoAccount},
               Mint(sender, to, i, w, h, c)
        PROVE  Grows
    <2>1. nextToken \in Tokens
      BY <1>2, AssetAssumption DEF Mint, NftTypeOK, Tokens
    <2>2. assets'[nextToken] \in Asset
      BY <1>2, <2>1, AssetAssumption DEF Mint, custodianOrOwner, NftTypeOK, Asset, PermTypeOK
    <2>3. \A u \in Tokens : u # nextToken => assets'[u] = assets[u]
      BY <1>2 DEF Mint, NftTypeOK
    <2>4. assets' = [u \in Tokens |-> assets'[u]]
      BY <1>2 DEF Mint, NftTypeOK
    <2>5. assets' \in [Tokens -> Asset \cup {NoAsset}]
      BY <2>2, <2>3, <2>4 DEF NftTypeOK
    <2>6. assets'[nextToken].exists
      BY <2>2 DEF Asset
    <2>7. \A t \in Tokens : Exists(t)' <=> t < nextToken'
      BY <1>2, <2>1, <2>3, <2>6 DEF Mint, NftTypeOK, Shape, Exists, Tokens
    <2>8. NftTypeOK'
      BY <1>2, <2>1, <2>5, AssetAssumption DEF Mint, NftTypeOK, Tokens
    <2> QED
      BY <2>3, <2>6, <2>7, <2>8 DEF Exists
  <1>3. ASSUME NEW sender \in Accounts, NEW t \in Tokens, NEW c \in Accounts,
               \/ AssignCustody(sender, t, c)
               \/ TransferOwnershipTo(sender, t, c)
               \/ TransferFrom(sender, t, c)
        PROVE  Grows
    <2>1. Exists(t)
      BY <1>3 DEF AssignCustody, TransferOwnershipTo, TransferFrom, update, movable
    <2>2. assets[t] \in Asset
      BY <2>1, ExistingIsAsset DEF NftTypeOK, Exists
    <2>3. /\ \/ assets' = [assets EXCEPT ![t].custodian = c]
             \/ assets' = [assets EXCEPT ![t].owner = c]
          /\ UNCHANGED nftConfig
      BY <1>3 DEF AssignCustody, TransferOwnershipTo, TransferFrom, update, movable
    <2>4. assets'[t] \in Asset
      <3>1. CASE assets' = [assets EXCEPT ![t].custodian = c]
        BY <2>2, <3>1 DEF NftTypeOK, Asset
      <3>2. CASE assets' = [assets EXCEPT ![t].owner = c]
        BY <2>2, <3>2 DEF NftTypeOK, Asset
      <3> QED
        BY <2>3, <3>1, <3>2
    <2>5. /\ assets' = [u \in Tokens |-> assets'[u]]
          /\ \A u \in Tokens : u # t => assets'[u] = assets[u]
      BY <2>3 DEF NftTypeOK
    <2>6. assets' \in [Tokens -> Asset \cup {NoAsset}]
      BY <2>4, <2>5 DEF NftTypeOK
    <2>7. assets'[t].exists
      BY <2>4 DEF Asset
    <2>8. \A u \in Tokens : Exists(u)' <=> Exists(u)
      BY <2>1, <2>5, <2>7 DEF Exists
    <2> QED
      BY <2>3, <2>6, <2>8 DEF NftTypeOK, Shape, nftConfig
  <1>4. Grows
    BY <1>1, <1>2, <1>3 DEF AssetTransaction, NftNext
  <1>5. /\ \A i \in recorded : attestations[i].tokenId \in Tokens
        /\ \A d \in detected : records[d].tokenId \in Tokens
    BY DEF Shape, Attestation, DivergenceRecord
  <1> QED
    BY <1>0, <1>4, <1>5 DEF Shape, Exists

LEMMA TypedWire ==
  Typed /\ (\E sender \in Accounts : WireDivergenceRegistry(sender)) => Typed'
  BY DEF Typed, TypeOK, PermTypeOK, NftTypeOK, AttTypeOK, DivTypeOK, Shape, recorded,
         detected, Exists, WireDivergenceRegistry, SetAttDivergenceRegistry, permVars,
         nftVars, nftConfig, divVars

\* The two outcomes of a submitted attestation: with and without a divergence.
Unremarkable(p) ==
  /\ assets' = updateFreshness(assets, p.tokenId, now)
  /\ UNCHANGED divVars

Detection(p, a) ==
  LET t == p.tokenId IN
  /\ divergenceFrom # 0
  /\ openDivergenceOf[t] = 0
  /\ nextDivergence <= MaxDivergence
  /\ a \in rivals(observation(p))
  /\ records' = [records EXCEPT ![nextDivergence] =
       [tokenId |-> t, attestationA |-> a, attestationB |-> nextAttestation,
        detectedAt |-> now, resolved |-> FALSE, resolvedAt |-> 0,
        proposer |-> NoAccount, confirmer |-> NoAccount,
        acceptedCustodian |-> NoAccount, pending |-> FALSE]]
  /\ nextDivergence' = nextDivergence + 1
  /\ openDivergenceOf' = [openDivergenceOf EXCEPT ![t] = nextDivergence]
  /\ assets' = setQuarantine(updateFreshness(assets, t, now), t, TRUE)

LEMMA SubmitOutcomes ==
  ASSUME NEW p \in Payloads, SubmitAttestation(p)
  PROVE  /\ \/ /\ Unremarkable(p)
               /\ \/ divergenceFrom = 0
                  \/ openDivergenceOf[p.tokenId] # 0
                  \/ rivals(observation(p)) = {}
            \/ \E a : Detection(p, a)
         /\ record(p)
         /\ UNCHANGED <<permVars, nftConfig>>
  <1>1. observation(p).tokenId = p.tokenId
    BY DEF observation
  <1> QED
    BY <1>1 DEF SubmitAttestation, onAttestation, Unremarkable, Detection

\* A submitted attestation takes the next id and leaves the rest of the log alone.
LEMMA RecordExtends ==
  ASSUME Typed, NEW p \in Payloads, record(p)
  PROVE  /\ nextAttestation \in AttestationIds
         /\ p.tokenId \in Tokens /\ Exists(p.tokenId)
         /\ observation(p) \in Attestation
         /\ attestations' = [attestations EXCEPT ![nextAttestation] = observation(p)]
         /\ attestations'[nextAttestation] = observation(p)
         /\ recorded' = recorded \cup {nextAttestation}
         /\ nextAttestation \notin recorded
         /\ \A i \in recorded : attestations'[i] = attestations[i]
         /\ AttTypeOK'
  <1>1. p \in Payload
    BY AttestationAssumption
  <1>2. nextAttestation \in AttestationIds
    BY AttestationAssumption DEF record, Typed, TypeOK, AttTypeOK, AttestationIds
  <1>3. observation(p) \in Attestation
    BY <1>1 DEF observation, Payload, Attestation, Typed, TypeOK, PermTypeOK
  <1>4. attestations' = [attestations EXCEPT ![nextAttestation] = observation(p)]
    BY DEF record
  <1>5. recorded' = recorded \cup {nextAttestation} /\ nextAttestation \notin recorded
    BY <1>2, AttestationAssumption DEF record, recorded, AttestationIds
  <1>6. \A i \in recorded : i \in AttestationIds /\ i # nextAttestation
    BY <1>2, AttestationAssumption DEF recorded, AttestationIds
  <1>7. attestations' \in [AttestationIds -> Attestation \cup {NoAttestation}]
    BY <1>2, <1>3, <1>4 DEF Typed, TypeOK, AttTypeOK
  <1>8. AttTypeOK'
    BY <1>1, <1>2, <1>7, AttestationAssumption
    DEF record, Typed, TypeOK, AttTypeOK, AttestationIds, Payload
  <1>9. attestations'[nextAttestation] = observation(p)
    BY <1>2, <1>4 DEF Typed, TypeOK, AttTypeOK
  <1>10. \A i \in recorded : attestations'[i] = attestations[i]
    BY <1>4, <1>6 DEF Typed, TypeOK, AttTypeOK
  <1> QED
    BY <1>1, <1>2, <1>3, <1>4, <1>5, <1>8, <1>9, <1>10 DEF record, acceptable, Payload

LEMMA TypedSubmit ==
  ASSUME Typed, NEW p \in Payloads, SubmitAttestation(p)
  PROVE  Typed'
  <1> DEFINE t == p.tokenId
             table == updateFreshness(assets, t, now)
             n == nextDivergence
  <1>1. record(p) /\ UNCHANGED <<permVars, nftConfig>>
    BY SubmitOutcomes
  <1>2. /\ table \in [Tokens -> Asset \cup {NoAsset}]
        /\ table[t].exists
        /\ \A u \in Tokens : table[u].exists <=> assets[u].exists
    BY <1>1, RecordExtends, FreshnessKeepsTable DEF Typed, TypeOK, NftTypeOK, PermTypeOK, Exists
  <1>3. PermTypeOK'
    BY <1>1 DEF permVars, Typed, TypeOK, PermTypeOK
  <1>4. AttTypeOK'
    BY <1>1, RecordExtends
  <1> DEFINE KeepsAssets == /\ assets' \in [Tokens -> Asset \cup {NoAsset}]
                            /\ \A u \in Tokens : Exists(u)' <=> Exists(u)
             Records == \A d \in detected' :
                          \/ d \in detected /\ records'[d] = records[d]
                          \/ /\ records'[d] \in DivergenceRecord
                             /\ records'[d].tokenId = t
                             /\ ~records'[d].pending /\ ~records'[d].resolved
  <1>5. ASSUME Unremarkable(p) PROVE KeepsAssets /\ Records /\ DivTypeOK'
    BY <1>2, <1>5 DEF Unremarkable, Exists, divVars, detected, Typed, TypeOK, DivTypeOK
  <1>6. ASSUME NEW a, Detection(p, a) PROVE KeepsAssets /\ Records /\ DivTypeOK'
    <2>1. KeepsAssets
      BY <1>2, <1>6, RecordExtends, <1>1, QuarantineKeepsTable DEF Detection, Exists
    <2>2. n \in DivergenceIds
      BY <1>6, DivergenceAssumption DEF Detection, Typed, TypeOK, DivTypeOK, DivergenceIds
    <2>3. t \in Tokens /\ nextAttestation \in AttestationIds
      BY <1>1, RecordExtends
    <2>4. a \in AttestationIds
      BY <1>6, AttestationAssumption
      DEF Detection, rivals, attestationsOf, recorded, Typed, TypeOK, AttTypeOK, AttestationIds
    <2>5. detected' = detected \cup {n} /\ n \notin detected
      BY <1>6, <2>2, DivergenceAssumption DEF Detection, detected, DivergenceIds
    <2>6. \A d \in detected : d \in DivergenceIds /\ d # n
      BY <2>2, <2>5, DivergenceAssumption DEF detected, DivergenceIds
    <2>7. /\ records'[n] \in DivergenceRecord
          /\ records'[n].tokenId = t
          /\ ~records'[n].pending /\ ~records'[n].resolved
      BY <1>6, <2>2, <2>3, <2>4, PermissionsAssumption
      DEF Detection, Typed, TypeOK, DivTypeOK, PermTypeOK, DivergenceRecord, Times
    <2>8. \A d \in DivergenceIds : d # n => records'[d] = records[d]
      BY <1>6 DEF Detection, Typed, TypeOK, DivTypeOK
    <2>9. Records
      BY <2>5, <2>6, <2>7, <2>8
    <2>10. records' \in [DivergenceIds -> DivergenceRecord \cup {NoRecord}]
      <3>1. records' = [d \in DivergenceIds |-> records'[d]]
        BY <1>6 DEF Detection, Typed, TypeOK, DivTypeOK
      <3> QED
        BY <2>7, <2>8, <3>1 DEF Typed, TypeOK, DivTypeOK
    <2>11. /\ nextDivergence' \in 1..(MaxDivergence + 1)
           /\ openDivergenceOf' \in [Tokens -> 0..MaxDivergence]
      BY <1>6, <2>2, <2>3, DivergenceAssumption
      DEF Detection, Typed, TypeOK, DivTypeOK, DivergenceIds
    <2> QED
      BY <2>1, <2>9, <2>10, <2>11 DEF DivTypeOK
  <1>7. KeepsAssets /\ Records /\ DivTypeOK'
    BY <1>5, <1>6, SubmitOutcomes
  <1>8. NftTypeOK'
    BY <1>1, <1>7 DEF nftConfig, Typed, TypeOK, NftTypeOK
  <1>9. Shape'
    <2>1. \A u \in Tokens : Exists(u)' <=> u < nextToken'
      BY <1>1, <1>7 DEF nftConfig, Typed, Shape
    <2>2. \A i \in recorded' : attestations'[i] \in Attestation /\ attestations'[i].tokenId \in Tokens
                                /\ Exists(attestations'[i].tokenId)
      <3>1. \A i \in recorded' : attestations'[i] \in Attestation /\ Exists(attestations'[i].tokenId)
        <4>1. observation(p).tokenId = t
          BY DEF observation
        <4>2. \A i \in recorded : attestations[i] \in Attestation /\ Exists(attestations[i].tokenId)
          BY DEF Typed, Shape
        <4>3. /\ recorded' = recorded \cup {nextAttestation}
              /\ \A i \in recorded : attestations'[i] = attestations[i]
          BY <1>1, RecordExtends
        <4>4. /\ attestations'[nextAttestation] \in Attestation
              /\ attestations'[nextAttestation].tokenId = t
              /\ Exists(t)
          BY <1>1, RecordExtends, <4>1
        <4> QED
          BY <4>2, <4>3, <4>4
      <3> QED
        BY <3>1 DEF Attestation
    <2>3. \A i \in recorded' : attestations'[i] \in Attestation /\ assets'[attestations'[i].tokenId].exists
      BY <1>7, <2>2 DEF Exists
    <2>4. \A d \in detected' :
             /\ records'[d] \in DivergenceRecord
             /\ Exists(records'[d].tokenId)
             /\ records'[d].pending \/ records'[d].resolved =>
                  records'[d].proposer \in Accounts /\ records'[d].acceptedCustodian \in Accounts
             /\ records'[d].resolved => records'[d].confirmer \in Accounts
      BY <1>1, <1>7, RecordExtends DEF Typed, Shape
    <2>5. \A d \in detected' : records'[d].tokenId \in Tokens
      BY <2>4 DEF DivergenceRecord
    <2> QED
      BY <1>7, <2>1, <2>3, <2>4, <2>5 DEF Shape, Exists
  <1> QED
    BY <1>3, <1>4, <1>7, <1>8, <1>9 DEF Typed, TypeOK

\* The two outcomes of the two reconciliation calls.
Rewritten(d, rec) == records' = [records EXCEPT ![d] = rec]

Pending(d, sender, c) ==
  /\ assets[records[d].tokenId].highValue
  /\ Rewritten(d, proposed(d, sender, c))
  /\ UNCHANGED <<assets, openDivergenceOf>>

Finalization(d, rec, confirmer) ==
  /\ nftDivergenceWired
  /\ Rewritten(d, finalized(rec, confirmer))
  /\ openDivergenceOf' = [openDivergenceOf EXCEPT ![rec.tokenId] = 0]
  /\ assets' = applyReconciledState(assets, rec.tokenId, rec.acceptedCustodian)

LEMMA OpenRecord ==
  ASSUME Typed, NEW d, requireOpen(d)
  PROVE  /\ d \in detected /\ d \in DivergenceIds
         /\ records[d] \in DivergenceRecord
         /\ records[d].tokenId \in Tokens
         /\ Exists(records[d].tokenId)
         /\ ~records[d].resolved
         /\ openDivergenceOf[records[d].tokenId] = d
  <1>1. d \in detected /\ ~records[d].resolved /\ openDivergenceOf[records[d].tokenId] = d
    BY DEF requireOpen
  <1>2. d \in DivergenceIds
    BY <1>1, DivergenceAssumption DEF detected, DivergenceIds, Typed, TypeOK, DivTypeOK
  <1>3. records[d] \in DivergenceRecord /\ Exists(records[d].tokenId)
    BY <1>1 DEF Typed, Shape
  <1>4. records[d].tokenId \in Tokens
    BY <1>3 DEF DivergenceRecord
  <1> QED
    BY <1>1, <1>2, <1>3, <1>4

LEMMA ProposalIsRecord ==
  ASSUME NEW d, records[d] \in DivergenceRecord, NEW sender \in Accounts, NEW c \in Accounts
  PROVE  /\ proposed(d, sender, c) \in DivergenceRecord
         /\ proposed(d, sender, c).tokenId = records[d].tokenId
         /\ proposed(d, sender, c).resolved = records[d].resolved
         /\ proposed(d, sender, c).proposer = sender
         /\ proposed(d, sender, c).acceptedCustodian = c
         /\ proposed(d, sender, c).pending
  BY DEF proposed, DivergenceRecord

LEMMA FinalizedIsRecord ==
  ASSUME NEW rec \in DivergenceRecord, NEW sender \in Accounts, now \in Times
  PROVE  /\ finalized(rec, sender) \in DivergenceRecord
         /\ finalized(rec, sender).tokenId = rec.tokenId
         /\ finalized(rec, sender).proposer = rec.proposer
         /\ finalized(rec, sender).confirmer = sender
         /\ finalized(rec, sender).acceptedCustodian = rec.acceptedCustodian
         /\ finalized(rec, sender).resolved
         /\ finalized(rec, sender).resolvedAt = now
         /\ ~finalized(rec, sender).pending
  BY DEF finalized, DivergenceRecord

LEMMA ProposeOutcomes ==
  ASSUME Typed, NEW sender \in Accounts, NEW d \in DivergenceIds, NEW c \in Accounts,
         Propose(sender, d, c)
  PROVE  /\ requireOpen(d) /\ ~records[d].pending
         /\ \/ Pending(d, sender, c)
            \/ /\ ~assets[records[d].tokenId].highValue
               /\ Finalization(d, proposed(d, sender, c), sender)
         /\ UNCHANGED <<permVars, nftConfig, attVars, nextDivergence>>
  <1>1. requireOpen(d)
    BY DEF Propose, ProposeReconciliation
  <1>2. proposed(d, sender, c).tokenId = records[d].tokenId
    <2>1. records[d] \in DivergenceRecord
      BY <1>1, OpenRecord
    <2> QED
      BY <2>1, ProposalIsRecord
  <1> QED
    BY <1>1, <1>2 DEF Propose, ProposeReconciliation, Pending, Finalization, Rewritten, release

LEMMA ConfirmOutcome ==
  ASSUME NEW sender \in Accounts, NEW d \in DivergenceIds, Confirm(sender, d)
  PROVE  /\ requireOpen(d) /\ records[d].pending /\ sender # records[d].proposer
         /\ Finalization(d, records[d], sender)
         /\ UNCHANGED <<permVars, nftConfig, attVars, nextDivergence>>
  BY DEF Confirm, ConfirmReconciliation, mayConfirm, Finalization, Rewritten, release

\* Rewriting the record of an open divergence keeps the shape of the records.
LEMMA TypedRewrite ==
  ASSUME Typed, NEW d, requireOpen(d), NEW rec \in DivergenceRecord,
         rec.tokenId = records[d].tokenId,
         rec.proposer \in Accounts, rec.acceptedCustodian \in Accounts,
         rec.resolved => rec.confirmer \in Accounts,
         Rewritten(d, rec),
         assets' \in [Tokens -> Asset \cup {NoAsset}],
         \A u \in Tokens : Exists(u)' <=> Exists(u),
         openDivergenceOf' \in [Tokens -> 0..MaxDivergence],
         UNCHANGED <<permVars, nftConfig, attVars, nextDivergence>>
  PROVE  Typed'
  <1>1. d \in detected /\ d \in DivergenceIds
    BY OpenRecord
  <1>2. DivTypeOK'
    BY <1>1 DEF Rewritten, Typed, TypeOK, DivTypeOK
  <1>3. PermTypeOK' /\ NftTypeOK' /\ AttTypeOK'
    BY DEF permVars, nftConfig, attVars, Typed, TypeOK, PermTypeOK, NftTypeOK, AttTypeOK
  <1>4. detected' = detected /\ recorded' = recorded /\ attestations' = attestations
        /\ nextToken' = nextToken
    BY DEF detected, recorded, attVars, nftConfig
  <1>5. \A e \in detected : records'[e] = IF e = d THEN rec ELSE records[e]
    <2>1. \A e \in detected : e \in DivergenceIds
      BY DivergenceAssumption DEF detected, DivergenceIds, Typed, TypeOK, DivTypeOK
    <2> QED
      BY <2>1 DEF Rewritten, Typed, TypeOK, DivTypeOK
  <1>6. \A e \in detected' :
           /\ records'[e] \in DivergenceRecord
           /\ records'[e].tokenId = records[e].tokenId
           /\ records'[e].pending \/ records'[e].resolved =>
                records'[e].proposer \in Accounts /\ records'[e].acceptedCustodian \in Accounts
           /\ records'[e].resolved => records'[e].confirmer \in Accounts
    BY <1>4, <1>5 DEF Typed, Shape
  <1>7. /\ \A i \in recorded : attestations[i].tokenId \in Tokens
        /\ \A e \in detected : records[e].tokenId \in Tokens
    BY DEF Typed, Shape, Attestation, DivergenceRecord
  <1>8. Shape'
    BY <1>4, <1>6, <1>7 DEF Typed, Shape, Exists
  <1> QED
    BY <1>2, <1>3, <1>8 DEF Typed, TypeOK

LEMMA TypedFinalization ==
  ASSUME Typed, NEW d, requireOpen(d), NEW rec \in DivergenceRecord, NEW sender \in Accounts,
         rec.tokenId = records[d].tokenId,
         rec.proposer \in Accounts, rec.acceptedCustodian \in Accounts,
         Finalization(d, rec, sender),
         UNCHANGED <<permVars, nftConfig, attVars, nextDivergence>>
  PROVE  Typed'
  <1>1. now \in Times
    BY DEF Typed, TypeOK, PermTypeOK
  <1>2. /\ assets' \in [Tokens -> Asset \cup {NoAsset}]
        /\ \A u \in Tokens : Exists(u)' <=> Exists(u)
    BY <1>1, OpenRecord, ReleaseKeepsTable DEF Finalization, Exists, Typed, TypeOK, NftTypeOK
  <1>3. openDivergenceOf' \in [Tokens -> 0..MaxDivergence]
    <2>1. openDivergenceOf \in [Tokens -> 0..MaxDivergence] /\ 0 \in 0..MaxDivergence
      BY DivergenceAssumption DEF Typed, TypeOK, DivTypeOK
    <2>2. openDivergenceOf' = [openDivergenceOf EXCEPT ![rec.tokenId] = 0]
      BY DEF Finalization
    <2> QED
      BY <2>1, <2>2
  <1>4. Rewritten(d, finalized(rec, sender))
    BY DEF Finalization
  <1>5. /\ finalized(rec, sender) \in DivergenceRecord
        /\ finalized(rec, sender).tokenId = records[d].tokenId
        /\ finalized(rec, sender).proposer \in Accounts
        /\ finalized(rec, sender).acceptedCustodian \in Accounts
        /\ finalized(rec, sender).confirmer \in Accounts
    BY <1>1, FinalizedIsRecord
  <1> QED
    BY <1>2, <1>3, <1>4, <1>5, TypedRewrite

LEMMA TypedPropose ==
  ASSUME Typed, NEW sender \in Accounts, NEW d \in DivergenceIds, NEW c \in Accounts,
         Propose(sender, d, c)
  PROVE  Typed'
  <1>1. /\ requireOpen(d)
        /\ \/ Pending(d, sender, c)
           \/ Finalization(d, proposed(d, sender, c), sender)
        /\ UNCHANGED <<permVars, nftConfig, attVars, nextDivergence>>
    BY ProposeOutcomes
  <1>2. /\ proposed(d, sender, c) \in DivergenceRecord
        /\ proposed(d, sender, c).tokenId = records[d].tokenId
        /\ proposed(d, sender, c).proposer \in Accounts
        /\ proposed(d, sender, c).acceptedCustodian \in Accounts
        /\ ~proposed(d, sender, c).resolved
    <2>1. records[d] \in DivergenceRecord /\ ~records[d].resolved
      BY <1>1, OpenRecord
    <2> QED
      BY <2>1, ProposalIsRecord
  <1>3. CASE Pending(d, sender, c)
    <2>1. /\ assets' = assets /\ openDivergenceOf' = openDivergenceOf
          /\ Rewritten(d, proposed(d, sender, c))
      BY <1>3 DEF Pending
    <2>2. /\ assets' \in [Tokens -> Asset \cup {NoAsset}]
          /\ \A u \in Tokens : Exists(u)' <=> Exists(u)
          /\ openDivergenceOf' \in [Tokens -> 0..MaxDivergence]
      BY <2>1 DEF Typed, TypeOK, NftTypeOK, DivTypeOK, Exists
    <2> QED
      BY <1>1, <1>2, <2>1, <2>2, TypedRewrite
  <1>4. CASE Finalization(d, proposed(d, sender, c), sender)
    BY <1>1, <1>2, <1>4, TypedFinalization
  <1> QED
    BY <1>1, <1>3, <1>4

LEMMA TypedConfirm ==
  ASSUME Typed, NEW sender \in Accounts, NEW d \in DivergenceIds, Confirm(sender, d)
  PROVE  Typed'
  <1>1. /\ requireOpen(d) /\ records[d].pending
        /\ Finalization(d, records[d], sender)
        /\ UNCHANGED <<permVars, nftConfig, attVars, nextDivergence>>
    BY ConfirmOutcome
  <1>2. /\ records[d] \in DivergenceRecord /\ d \in detected
    BY <1>1, OpenRecord
  <1>3. records[d].proposer \in Accounts /\ records[d].acceptedCustodian \in Accounts
    BY <1>1, <1>2 DEF Typed, Shape
  <1> QED
    BY <1>1, <1>2, <1>3, TypedFinalization

LEMMA TypedStep == Typed /\ [Next]_vars => Typed'
  <1> SUFFICES ASSUME Typed, [Next]_vars PROVE Typed'
    OBVIOUS
  <1>1. CASE UNCHANGED vars
    BY <1>1 DEF vars, permVars, nftVars, nftConfig, attVars, divVars, Typed, TypeOK, PermTypeOK,
                NftTypeOK, AttTypeOK, DivTypeOK, Shape, recorded, detected, Exists
  <1>2. CASE Next
    BY <1>2, TypedPermission, TypedAsset, TypedSubmit, TypedWire, TypedConfirm, TypedPropose
    DEF Next
  <1> QED
    BY <1>1, <1>2

LEMMA AlwaysTyped == Spec \/ DeployedSpec => []Typed
  BY TypedInit, TypedStep, PTL DEF Spec, DeployedSpec, Started

\* Every reachable state is well typed, and every id in use holds a real entry
\* about an existing token: the registries never read an unset record.
THEOREM Typing == Spec \/ DeployedSpec => []TypeOK
  <1>1. Typed => TypeOK
    BY DEF Typed
  <1> QED
    BY <1>1, AlwaysTyped, PTL

-----------------------------------------------------------------------------
\* What the registries' calls do to the fields of each token.
LEMMA FreshnessFields ==
  ASSUME NEW table \in [Tokens -> Asset \cup {NoAsset}], NEW t \in Tokens,
         table[t].exists, NEW ts \in Times
  PROVE  /\ \A u \in Tokens :
              LET new == updateFreshness(table, t, ts)[u] IN
              /\ new.quarantined = table[u].quarantined
              /\ new.highValue = table[u].highValue
              /\ new.freshnessWindow = table[u].freshnessWindow
              /\ new.assetIdentifier = table[u].assetIdentifier
              /\ new.owner = table[u].owner
              /\ new.custodian = table[u].custodian
              /\ u # t => new = table[u]
         /\ updateFreshness(table, t, ts)[t].freshnessTimestamp =
              IF ts > table[t].freshnessTimestamp THEN ts ELSE table[t].freshnessTimestamp
  <1>1. table[t] \in Asset
    BY ExistingIsAsset
  <1> QED
    BY <1>1 DEF updateFreshness, Asset

LEMMA QuarantineFields ==
  ASSUME NEW table \in [Tokens -> Asset \cup {NoAsset}], NEW t \in Tokens,
         table[t].exists, NEW flag \in BOOLEAN
  PROVE  \A u \in Tokens :
           LET new == setQuarantine(table, t, flag)[u] IN
           /\ new.quarantined = (IF u = t THEN flag ELSE table[u].quarantined)
           /\ new.highValue = table[u].highValue
           /\ new.freshnessWindow = table[u].freshnessWindow
           /\ new.freshnessTimestamp = table[u].freshnessTimestamp
           /\ new.assetIdentifier = table[u].assetIdentifier
           /\ new.owner = table[u].owner
           /\ new.custodian = table[u].custodian
  <1>1. table[t] \in Asset
    BY ExistingIsAsset
  <1> QED
    BY <1>1 DEF setQuarantine, Asset

LEMMA ReleaseFields ==
  ASSUME NEW table \in [Tokens -> Asset \cup {NoAsset}], NEW t \in Tokens,
         table[t].exists, NEW c \in Accounts
  PROVE  \A u \in Tokens :
           LET new == applyReconciledState(table, t, c)[u] IN
           /\ new.highValue = table[u].highValue
           /\ new.freshnessWindow = table[u].freshnessWindow
           /\ new.assetIdentifier = table[u].assetIdentifier
           /\ u # t => new = table[u]
           /\ u = t => /\ ~new.quarantined
                       /\ new.custodian = c
                       /\ new.owner = table[u].owner
                       /\ new.freshnessTimestamp = now
  <1>1. table[t] \in Asset
    BY ExistingIsAsset
  <1> QED
    BY <1>1 DEF applyReconciledState, Asset

\* No transaction of AssetNFT's own moves a quarantine flag, a value class or a
\* window of an existing token, or touches a token that is quarantined.
LEMMA AssetTransactionFields ==
  ASSUME Typed, AssetTransaction
  PROVE  \A u \in Tokens :
           /\ assets'[u].quarantined = assets[u].quarantined
           /\ Exists(u) => /\ assets'[u].highValue = assets[u].highValue
                           /\ assets'[u].freshnessWindow = assets[u].freshnessWindow
                           /\ assets'[u].freshnessTimestamp = assets[u].freshnessTimestamp
                           /\ assets'[u].assetIdentifier = assets[u].assetIdentifier
           /\ assets[u].quarantined => assets'[u] = assets[u]
  <1> DEFINE Fields == \A u \in Tokens :
           /\ assets'[u].quarantined = assets[u].quarantined
           /\ Exists(u) => /\ assets'[u].highValue = assets[u].highValue
                           /\ assets'[u].freshnessWindow = assets[u].freshnessWindow
                           /\ assets'[u].freshnessTimestamp = assets[u].freshnessTimestamp
                           /\ assets'[u].assetIdentifier = assets[u].assetIdentifier
           /\ assets[u].quarantined => assets'[u] = assets[u]
  <1>0. assets \in [Tokens -> Asset \cup {NoAsset}]
    BY DEF Typed, TypeOK, NftTypeOK
  <1>1. ASSUME NEW sender \in Accounts,
               SetNftDivergenceRegistry(sender) \/ SetNftAttestationRegistry(sender)
        PROVE  Fields
    BY <1>1 DEF SetNftDivergenceRegistry, SetNftAttestationRegistry
  <1>2. ASSUME NEW sender \in Accounts, NEW to \in Accounts, NEW i \in Identifiers,
               NEW w \in Windows, NEW h \in BOOLEAN, NEW c \in Accounts \cup {NoAccount},
               Mint(sender, to, i, w, h, c)
        PROVE  Fields
    <2>1. nextToken \in Tokens /\ ~Exists(nextToken)
      <3>1. nextToken \in Tokens /\ nextToken \in Nat
        BY <1>2, AssetAssumption DEF Mint, Typed, TypeOK, NftTypeOK, Tokens
      <3>2. Exists(nextToken) <=> nextToken < nextToken
        BY <3>1 DEF Typed, Shape
      <3>3. ~(nextToken < nextToken)
        BY <3>1
      <3> QED
        BY <3>1, <3>2, <3>3
    <2>2. assets[nextToken] = NoAsset
      BY <1>0, <2>1 DEF Exists, Asset
    <2>3. ~assets[nextToken].quarantined /\ ~assets'[nextToken].quarantined
      BY <1>0, <1>2, <2>1, <2>2 DEF Mint, NoAsset
    <2>4. \A u \in Tokens : u # nextToken => assets'[u] = assets[u]
      BY <1>0, <1>2 DEF Mint
    <2>5. assets[nextToken].quarantined = FALSE /\ assets'[nextToken].quarantined = FALSE
      BY <1>0, <1>2, <2>1, <2>2 DEF Mint, NoAsset
    <2> QED
      BY <2>1, <2>3, <2>4, <2>5
  <1>3. ASSUME NEW sender \in Accounts, NEW t \in Tokens, NEW c \in Accounts,
               \/ AssignCustody(sender, t, c)
               \/ TransferOwnershipTo(sender, t, c)
               \/ TransferFrom(sender, t, c)
        PROVE  Fields
    <2>1. /\ Exists(t) /\ ~assets[t].quarantined
          /\ \/ assets' = [assets EXCEPT ![t].custodian = c]
             \/ assets' = [assets EXCEPT ![t].owner = c]
      BY <1>3 DEF AssignCustody, TransferOwnershipTo, TransferFrom, update, movable
    <2>2. assets[t] \in Asset
      BY <1>0, <2>1, ExistingIsAsset DEF Exists
    <2>3. /\ assets'[t].quarantined = assets[t].quarantined
          /\ assets'[t].highValue = assets[t].highValue
          /\ assets'[t].freshnessWindow = assets[t].freshnessWindow
          /\ assets'[t].freshnessTimestamp = assets[t].freshnessTimestamp
          /\ assets'[t].assetIdentifier = assets[t].assetIdentifier
      BY <1>0, <2>1, <2>2 DEF Asset
    <2>4. \A u \in Tokens : u # t => assets'[u] = assets[u]
      BY <1>0, <2>1
    <2> QED
      BY <2>1, <2>3, <2>4
  <1> QED
    BY <1>1, <1>2, <1>3 DEF AssetTransaction, NftNext

\* The effects of a submitted attestation on the asset table.
LEMMA SubmitFields ==
  ASSUME Typed, NEW p \in Payloads, SubmitAttestation(p)
  PROVE  /\ p.tokenId \in Tokens /\ Exists(p.tokenId)
         /\ \A u \in Tokens :
              /\ assets'[u].highValue = assets[u].highValue
              /\ assets'[u].freshnessWindow = assets[u].freshnessWindow
              /\ assets'[u].assetIdentifier = assets[u].assetIdentifier
              /\ assets'[u].owner = assets[u].owner
              /\ assets'[u].custodian = assets[u].custodian
              /\ Unremarkable(p) => assets'[u].quarantined = assets[u].quarantined
              /\ \A a : Detection(p, a) =>
                   assets'[u].quarantined = (IF u = p.tokenId THEN TRUE ELSE assets[u].quarantined)
              /\ assets'[u].freshnessTimestamp =
                   IF u = p.tokenId /\ now > assets[u].freshnessTimestamp
                   THEN now ELSE assets[u].freshnessTimestamp
  <1> DEFINE t == p.tokenId
             table == updateFreshness(assets, t, now)
  <1>1. /\ assets \in [Tokens -> Asset \cup {NoAsset}] /\ now \in Times
    BY DEF Typed, TypeOK, NftTypeOK, PermTypeOK
  <1>2. t \in Tokens /\ Exists(t) /\ record(p)
    BY SubmitOutcomes, RecordExtends
  <1>3. /\ table \in [Tokens -> Asset \cup {NoAsset}] /\ table[t].exists
        /\ \A u \in Tokens :
              /\ table[u].quarantined = assets[u].quarantined
              /\ table[u].highValue = assets[u].highValue
              /\ table[u].freshnessWindow = assets[u].freshnessWindow
              /\ table[u].assetIdentifier = assets[u].assetIdentifier
              /\ table[u].owner = assets[u].owner
              /\ table[u].custodian = assets[u].custodian
              /\ u # t => table[u] = assets[u]
         /\ table[t].freshnessTimestamp =
              IF now > assets[t].freshnessTimestamp THEN now ELSE assets[t].freshnessTimestamp
    BY <1>1, <1>2, FreshnessKeepsTable, FreshnessFields DEF Exists
  <1>4. assets' = table \/ assets' = setQuarantine(table, t, TRUE)
    BY SubmitOutcomes DEF Unremarkable, Detection
  <1>5. Unremarkable(p) => assets' = table
    BY DEF Unremarkable
  <1>6. \A a : Detection(p, a) => assets' = setQuarantine(table, t, TRUE)
    BY DEF Detection
  <1> HIDE DEF table
  <1>7. \A u \in Tokens :
           LET new == setQuarantine(table, t, TRUE)[u] IN
           /\ new.quarantined = (IF u = t THEN TRUE ELSE table[u].quarantined)
           /\ new.highValue = table[u].highValue
           /\ new.freshnessWindow = table[u].freshnessWindow
           /\ new.freshnessTimestamp = table[u].freshnessTimestamp
           /\ new.assetIdentifier = table[u].assetIdentifier
           /\ new.owner = table[u].owner
           /\ new.custodian = table[u].custodian
    <2>1. table \in [Tokens -> Asset \cup {NoAsset}] /\ t \in Tokens /\ table[t].exists
      BY <1>2, <1>3
    <2>2. table[t] \in Asset
      BY <2>1, ExistingIsAsset
    <2> QED
      BY <2>1, <2>2 DEF setQuarantine, Asset
  <1>8. ASSUME NEW u \in Tokens
        PROVE  /\ assets'[u].highValue = assets[u].highValue
               /\ assets'[u].freshnessWindow = assets[u].freshnessWindow
               /\ assets'[u].assetIdentifier = assets[u].assetIdentifier
               /\ assets'[u].owner = assets[u].owner
               /\ assets'[u].custodian = assets[u].custodian
               /\ assets'[u].freshnessTimestamp =
                    IF u = t /\ now > assets[u].freshnessTimestamp
                    THEN now ELSE assets[u].freshnessTimestamp
    <2>1. /\ assets'[u].highValue = table[u].highValue
          /\ assets'[u].freshnessWindow = table[u].freshnessWindow
          /\ assets'[u].assetIdentifier = table[u].assetIdentifier
          /\ assets'[u].owner = table[u].owner
          /\ assets'[u].custodian = table[u].custodian
          /\ assets'[u].freshnessTimestamp = table[u].freshnessTimestamp
      BY <1>4, <1>7
    <2> QED
      BY <1>3, <2>1
  <1>9. ASSUME NEW u \in Tokens, Unremarkable(p)
        PROVE  assets'[u].quarantined = assets[u].quarantined
    BY <1>3, <1>5, <1>9
  <1>10. ASSUME NEW u \in Tokens, NEW a, Detection(p, a)
         PROVE  assets'[u].quarantined = (IF u = t THEN TRUE ELSE assets[u].quarantined)
    <2>1. assets'[u].quarantined = (IF u = t THEN TRUE ELSE table[u].quarantined)
      BY <1>6, <1>7, <1>10
    <2>2. table[u].quarantined = assets[u].quarantined
      BY <1>3
    <2> QED
      BY <2>1, <2>2
  <1> QED
    BY <1>2, <1>8, <1>9, <1>10

-----------------------------------------------------------------------------
\* Detected divergences after a step that opens one.
LEMMA DetectionExtends ==
  ASSUME Typed, NEW p \in Payloads, SubmitAttestation(p), NEW a, Detection(p, a)
  PROVE  /\ nextDivergence \in DivergenceIds
         /\ nextDivergence \notin detected
         /\ nextDivergence # 0
         /\ detected' = detected \cup {nextDivergence}
         /\ \A d \in detected : records'[d] = records[d]
         /\ records'[nextDivergence] =
              [tokenId |-> p.tokenId, attestationA |-> a, attestationB |-> nextAttestation,
               detectedAt |-> now, resolved |-> FALSE, resolvedAt |-> 0,
               proposer |-> NoAccount, confirmer |-> NoAccount,
               acceptedCustodian |-> NoAccount, pending |-> FALSE]
         /\ \A u \in Tokens : openDivergenceOf'[u] =
              IF u = p.tokenId THEN nextDivergence ELSE openDivergenceOf[u]
  <1>1. nextDivergence \in DivergenceIds /\ nextDivergence # 0
    BY DivergenceAssumption DEF Detection, Typed, TypeOK, DivTypeOK, DivergenceIds
  <1>2. nextDivergence \notin detected /\ detected' = detected \cup {nextDivergence}
    BY <1>1, DivergenceAssumption DEF Detection, detected, DivergenceIds
  <1>3. \A d \in detected : d \in DivergenceIds /\ d # nextDivergence
    BY <1>1, <1>2, DivergenceAssumption DEF detected, DivergenceIds
  <1>4. records \in [DivergenceIds -> DivergenceRecord \cup {NoRecord}]
    BY DEF Typed, TypeOK, DivTypeOK
  <1>5. openDivergenceOf \in [Tokens -> 0..MaxDivergence]
    BY DEF Typed, TypeOK, DivTypeOK
  <1>6. \A d \in detected : records'[d] = records[d]
    BY <1>3, <1>4 DEF Detection
  <1> QED
    BY <1>1, <1>2, <1>4, <1>5, <1>6 DEF Detection

\* Detected divergences after a step that rewrites one of them.
LEMMA RewriteFields ==
  ASSUME Typed, NEW d, requireOpen(d), NEW rec,
         Rewritten(d, rec), UNCHANGED nextDivergence
  PROVE  /\ detected' = detected
         /\ \A e \in detected : records'[e] = IF e = d THEN rec ELSE records[e]
  <1>1. d \in DivergenceIds
    BY OpenRecord
  <1>2. \A e \in detected : e \in DivergenceIds
    BY DivergenceAssumption DEF detected, DivergenceIds, Typed, TypeOK, DivTypeOK
  <1> QED
    BY <1>1, <1>2 DEF Rewritten, detected, Typed, TypeOK, DivTypeOK

LEMMA FinalizationFields ==
  ASSUME Typed, NEW d, requireOpen(d), NEW rec \in DivergenceRecord, NEW sender \in Accounts,
         rec.tokenId = records[d].tokenId, rec.acceptedCustodian \in Accounts,
         Finalization(d, rec, sender), UNCHANGED nextDivergence
  PROVE  /\ detected' = detected
         /\ \A e \in detected : records'[e] = IF e = d THEN finalized(rec, sender) ELSE records[e]
         /\ \A u \in Tokens :
              /\ openDivergenceOf'[u] = IF u = rec.tokenId THEN 0 ELSE openDivergenceOf[u]
              /\ assets'[u].highValue = assets[u].highValue
              /\ assets'[u].freshnessWindow = assets[u].freshnessWindow
              /\ assets'[u].assetIdentifier = assets[u].assetIdentifier
              /\ u # rec.tokenId => assets'[u] = assets[u]
              /\ u = rec.tokenId => /\ ~assets'[u].quarantined
                                    /\ assets'[u].custodian = rec.acceptedCustodian
                                    /\ assets'[u].owner = assets[u].owner
                                    /\ assets'[u].freshnessTimestamp = now
  <1>1. rec.tokenId \in Tokens /\ assets[rec.tokenId].exists
    BY OpenRecord DEF Exists
  <1>2. /\ assets \in [Tokens -> Asset \cup {NoAsset}]
        /\ openDivergenceOf \in [Tokens -> 0..MaxDivergence]
    BY DEF Typed, TypeOK, NftTypeOK, DivTypeOK
  <1>3. Rewritten(d, finalized(rec, sender))
    BY DEF Finalization
  <1>4. \A u \in Tokens : openDivergenceOf'[u] = IF u = rec.tokenId THEN 0 ELSE openDivergenceOf[u]
    BY <1>2 DEF Finalization
  <1>5. assets' = applyReconciledState(assets, rec.tokenId, rec.acceptedCustodian)
    BY DEF Finalization
  <1>6. /\ detected' = detected
        /\ \A e \in detected : records'[e] = IF e = d THEN finalized(rec, sender) ELSE records[e]
    BY <1>3, RewriteFields
  <1> QED
    BY <1>1, <1>2, <1>4, <1>5, <1>6, ReleaseFields

-----------------------------------------------------------------------------
\* The steps that leave the divergence records and quarantine flags alone.
Quiet ==
  /\ UNCHANGED divVars
  /\ \A t \in Tokens : assets'[t].quarantined = assets[t].quarantined

LEMMA QuietSteps ==
  ASSUME Typed, [Next]_vars
  PROVE  \/ Quiet
         \/ \E p \in Payloads : SubmitAttestation(p) /\ \E a : Detection(p, a)
         \/ \E sender \in Accounts, d \in DivergenceIds :
              Confirm(sender, d) \/ \E c \in Accounts : Propose(sender, d, c)
  <1>1. CASE UNCHANGED vars
    BY <1>1 DEF vars, nftVars, Quiet
  <1>2. CASE PermissionChange
    BY <1>2 DEF PermissionChange, nftVars, Quiet
  <1>3. CASE AssetTransaction
    BY <1>3, AssetTransactionFields DEF AssetTransaction, Quiet
  <1>4. ASSUME NEW p \in Payloads, SubmitAttestation(p), Unremarkable(p) PROVE Quiet
    BY <1>4, SubmitFields DEF Unremarkable, Quiet
  <1>5. ASSUME NEW sender \in Accounts, WireDivergenceRegistry(sender) PROVE Quiet
    BY <1>5 DEF WireDivergenceRegistry, nftVars, Quiet
  <1> QED
    BY <1>1, <1>2, <1>3, <1>4, <1>5, SubmitOutcomes DEF Next

LEMMA QuarantineInit == Started => QuarantineIffOpen
  <1> SUFFICES ASSUME Started PROVE QuarantineIffOpen
    OBVIOUS
  <1>1. detected = {}
    BY DEF Started, Init, DeployedInit, DivInit, detected
  <1> QED
    BY <1>1 DEF Started, Init, DeployedInit, NftInit, DivInit, QuarantineIffOpen, NoAsset

LEMMA QuarantineStep == Typed /\ QuarantineIffOpen /\ [Next]_vars => QuarantineIffOpen'
  <1> SUFFICES ASSUME Typed, QuarantineIffOpen, [Next]_vars PROVE QuarantineIffOpen'
    OBVIOUS
  <1>0. \A d \in detected : records[d].tokenId \in Tokens /\ d # 0
    <2>1. \A d \in detected : d # 0
      BY DivergenceAssumption DEF Typed, TypeOK, DivTypeOK, detected
    <2>2. \A d \in detected : records[d] \in DivergenceRecord
      BY DEF Typed, Shape
    <2> QED
      BY <2>1, <2>2 DEF DivergenceRecord
  <1>1. CASE Quiet
    BY <1>0, <1>1 DEF Quiet, QuarantineIffOpen, divVars, detected
  <1>2. ASSUME NEW p \in Payloads, NEW a, SubmitAttestation(p), Detection(p, a)
        PROVE  QuarantineIffOpen'
    <2> DEFINE t == p.tokenId
               n == nextDivergence
    <2>1. /\ n \notin detected /\ n # 0 /\ detected' = detected \cup {n}
          /\ \A d \in detected : records'[d] = records[d]
          /\ records'[n].tokenId = t /\ ~records'[n].resolved
          /\ \A u \in Tokens : openDivergenceOf'[u] = IF u = t THEN n ELSE openDivergenceOf[u]
      <3>1. records'[n] =
              [tokenId |-> t, attestationA |-> a, attestationB |-> nextAttestation,
               detectedAt |-> now, resolved |-> FALSE, resolvedAt |-> 0,
               proposer |-> NoAccount, confirmer |-> NoAccount,
               acceptedCustodian |-> NoAccount, pending |-> FALSE]
        BY <1>2, DetectionExtends
      <3>2. records'[n].tokenId = t /\ ~records'[n].resolved
        BY <3>1
      <3> QED
        BY <1>2, <3>2, DetectionExtends
    <2>2. /\ t \in Tokens /\ openDivergenceOf[t] = 0
          /\ \A u \in Tokens : assets'[u].quarantined = (IF u = t THEN TRUE ELSE assets[u].quarantined)
      BY <1>2, SubmitFields DEF Detection
    <2>3. \A u \in Tokens :
            /\ assets'[u].quarantined <=> openDivergenceOf'[u] # 0
            /\ openDivergenceOf'[u] # 0 =>
                 /\ openDivergenceOf'[u] \in detected'
                 /\ records'[openDivergenceOf'[u]].tokenId = u
      <3> SUFFICES ASSUME NEW u \in Tokens
                   PROVE  /\ assets'[u].quarantined <=> openDivergenceOf'[u] # 0
                          /\ openDivergenceOf'[u] # 0 =>
                               /\ openDivergenceOf'[u] \in detected'
                               /\ records'[openDivergenceOf'[u]].tokenId = u
        OBVIOUS
      <3>1. CASE u = t
        BY <2>1, <2>2, <3>1
      <3>2. CASE u # t
        <4>1. /\ assets'[u].quarantined = assets[u].quarantined
              /\ openDivergenceOf'[u] = openDivergenceOf[u]
          BY <2>1, <2>2, <3>2
        <4>2. /\ assets[u].quarantined <=> openDivergenceOf[u] # 0
              /\ openDivergenceOf[u] # 0 =>
                   /\ openDivergenceOf[u] \in detected
                   /\ records[openDivergenceOf[u]].tokenId = u
          BY DEF QuarantineIffOpen
        <4> QED
          BY <2>1, <4>1, <4>2
      <3> QED
        BY <3>1, <3>2
    <2>4. \A d \in detected' : ~records'[d].resolved <=> openDivergenceOf'[records'[d].tokenId] = d
      BY <1>0, <2>1, <2>2 DEF QuarantineIffOpen
    <2> QED
      BY <2>3, <2>4 DEF QuarantineIffOpen
  <1>3. ASSUME NEW d, requireOpen(d), NEW rec \in DivergenceRecord, NEW sender \in Accounts,
               rec.tokenId = records[d].tokenId, rec.acceptedCustodian \in Accounts,
               Finalization(d, rec, sender), UNCHANGED nextDivergence
        PROVE  QuarantineIffOpen'
    <2> DEFINE t == rec.tokenId
    <2>1. now \in Times
      BY DEF Typed, TypeOK, PermTypeOK
    <2>2. t \in Tokens /\ d \in detected /\ openDivergenceOf[t] = d /\ d # 0
      BY <1>0, <1>3, OpenRecord
    <2>3. finalized(rec, sender).tokenId = t /\ finalized(rec, sender).resolved
      BY <1>3, <2>1, FinalizedIsRecord
    <2>4. /\ detected' = detected
          /\ \A e \in detected : records'[e] = IF e = d THEN finalized(rec, sender) ELSE records[e]
          /\ \A u \in Tokens :
               /\ openDivergenceOf'[u] = IF u = t THEN 0 ELSE openDivergenceOf[u]
               /\ u # t => assets'[u] = assets[u]
               /\ u = t => ~assets'[u].quarantined
      BY <1>3, FinalizationFields
    <2>5. \A u \in Tokens :
            /\ assets'[u].quarantined <=> openDivergenceOf'[u] # 0
            /\ openDivergenceOf'[u] # 0 =>
                 /\ openDivergenceOf'[u] \in detected'
                 /\ records'[openDivergenceOf'[u]].tokenId = u
      BY <1>3, <2>2, <2>4 DEF QuarantineIffOpen
    <2>6. \A e \in detected' : ~records'[e].resolved <=> openDivergenceOf'[records'[e].tokenId] = e
      BY <1>0, <2>2, <2>3, <2>4 DEF QuarantineIffOpen
    <2> QED
      BY <2>5, <2>6 DEF QuarantineIffOpen
  <1>4. ASSUME NEW sender \in Accounts, NEW d \in DivergenceIds, Confirm(sender, d)
        PROVE  QuarantineIffOpen'
    <2>1. /\ requireOpen(d) /\ records[d].pending
          /\ Finalization(d, records[d], sender)
          /\ UNCHANGED nextDivergence
      BY <1>4, ConfirmOutcome
    <2>2. records[d] \in DivergenceRecord /\ d \in detected
      BY <2>1, OpenRecord
    <2>3. records[d].acceptedCustodian \in Accounts
      BY <2>1, <2>2 DEF Typed, Shape
    <2> QED
      BY <1>3, <2>1, <2>2, <2>3
  <1>5. ASSUME NEW sender \in Accounts, NEW d \in DivergenceIds, NEW c \in Accounts,
               Propose(sender, d, c)
        PROVE  QuarantineIffOpen'
    <2>1. /\ requireOpen(d)
          /\ Pending(d, sender, c) \/ Finalization(d, proposed(d, sender, c), sender)
          /\ UNCHANGED nextDivergence
      BY <1>5, ProposeOutcomes
    <2>2. records[d] \in DivergenceRecord /\ d \in detected
      BY <2>1, OpenRecord
    <2>3. /\ proposed(d, sender, c) \in DivergenceRecord
          /\ proposed(d, sender, c).tokenId = records[d].tokenId
          /\ proposed(d, sender, c).resolved = records[d].resolved
          /\ proposed(d, sender, c).acceptedCustodian \in Accounts
      BY <2>2, ProposalIsRecord
    <2>4. CASE Pending(d, sender, c)
      <3>1. /\ detected' = detected
            /\ \A e \in detected :
                 records'[e] = IF e = d THEN proposed(d, sender, c) ELSE records[e]
        BY <2>1, <2>4, RewriteFields DEF Pending
      <3>2. \A e \in detected : /\ records'[e].tokenId = records[e].tokenId
                                /\ records'[e].resolved = records[e].resolved
        BY <2>3, <3>1
      <3> QED
        BY <1>0, <2>4, <3>1, <3>2 DEF Pending, QuarantineIffOpen
    <2> QED
      BY <1>3, <2>1, <2>3, <2>4
  <1> QED
    BY <1>1, <1>2, <1>4, <1>5, QuietSteps

\* For every number of tokens, payloads and accounts, the quarantine flag of
\* AssetNFT and the open divergence of DivergenceRegistry agree.
THEOREM QuarantineMatchesDivergence == Spec \/ DeployedSpec => []QuarantineIffOpen
  BY AlwaysTyped, QuarantineInit, QuarantineStep, PTL DEF Spec, DeployedSpec, Started

-----------------------------------------------------------------------------
\* The identifier, the value class and the window of a token are fixed when it
\* is minted.
LEMMA FixedAtMint ==
  ASSUME Typed, [Next]_vars
  PROVE  \A u \in Tokens : Exists(u) =>
           /\ assets'[u].highValue = assets[u].highValue
           /\ assets'[u].freshnessWindow = assets[u].freshnessWindow
           /\ assets'[u].assetIdentifier = assets[u].assetIdentifier
  <1> DEFINE Fixed == \A u \in Tokens : Exists(u) =>
                        /\ assets'[u].highValue = assets[u].highValue
                        /\ assets'[u].freshnessWindow = assets[u].freshnessWindow
                        /\ assets'[u].assetIdentifier = assets[u].assetIdentifier
  <1>1. CASE UNCHANGED vars \/ PermissionChange
    BY <1>1 DEF vars, PermissionChange, nftVars
  <1>2. CASE AssetTransaction
    BY <1>2, AssetTransactionFields
  <1>3. ASSUME NEW p \in Payloads, SubmitAttestation(p) PROVE Fixed
    BY <1>3, SubmitFields
  <1>4. ASSUME NEW sender \in Accounts, WireDivergenceRegistry(sender) PROVE Fixed
    BY <1>4 DEF WireDivergenceRegistry, nftVars
  <1>5. ASSUME NEW sender \in Accounts, NEW d \in DivergenceIds, Confirm(sender, d) PROVE Fixed
    <2>1. /\ requireOpen(d) /\ records[d].pending /\ Finalization(d, records[d], sender)
          /\ UNCHANGED nextDivergence
      BY <1>5, ConfirmOutcome
    <2>2. records[d] \in DivergenceRecord /\ d \in detected
      BY <2>1, OpenRecord
    <2>3. records[d].acceptedCustodian \in Accounts
      BY <2>1, <2>2 DEF Typed, Shape
    <2> QED
      BY <2>1, <2>2, <2>3, FinalizationFields
  <1>6. ASSUME NEW sender \in Accounts, NEW d \in DivergenceIds, NEW c \in Accounts,
               Propose(sender, d, c)
        PROVE  Fixed
    <2>1. /\ requireOpen(d)
          /\ Pending(d, sender, c) \/ Finalization(d, proposed(d, sender, c), sender)
          /\ UNCHANGED nextDivergence
      BY <1>6, ProposeOutcomes
    <2>2. records[d] \in DivergenceRecord
      BY <2>1, OpenRecord
    <2>3. /\ proposed(d, sender, c) \in DivergenceRecord
          /\ proposed(d, sender, c).tokenId = records[d].tokenId
          /\ proposed(d, sender, c).acceptedCustodian \in Accounts
      BY <2>2, ProposalIsRecord
    <2>4. CASE Pending(d, sender, c)
      BY <2>4 DEF Pending
    <2> QED
      BY <2>1, <2>3, <2>4, FinalizationFields
  <1> QED
    BY <1>1, <1>2, <1>3, <1>4, <1>5, <1>6 DEF Next

\* SeparationOfDuties is not inductive: a confirmation compares the sender with
\* the proposer of a pending record, and only high-value assets have those.
Duties ==
  /\ SeparationOfDuties
  /\ \A d \in detected : records[d].pending => assets[records[d].tokenId].highValue

LEMMA DutiesStep == Typed /\ Duties /\ [Next]_vars => Duties'
  <1> SUFFICES ASSUME Typed, Duties, [Next]_vars PROVE Duties'
    OBVIOUS
  <1> DEFINE Kept(e) ==   \* what Duties says of one record
        /\ records[e].resolved =>
             /\ records[e].proposer \in Accounts /\ records[e].confirmer \in Accounts
             /\ assets[records[e].tokenId].highValue <=> records[e].proposer # records[e].confirmer
        /\ records[e].pending => assets[records[e].tokenId].highValue
  <1>0. \A e \in detected : records[e].tokenId \in Tokens /\ Exists(records[e].tokenId) /\ Kept(e)
    <2>1. \A e \in detected : records[e] \in DivergenceRecord /\ Exists(records[e].tokenId)
      BY DEF Typed, Shape
    <2>2. \A e \in detected : records[e].tokenId \in Tokens
      BY <2>1 DEF DivergenceRecord
    <2> QED
      BY <2>1, <2>2 DEF Duties, SeparationOfDuties
  <1>1. \A e \in detected : assets'[records[e].tokenId].highValue = assets[records[e].tokenId].highValue
    BY <1>0, FixedAtMint
  <1>2. SUFFICES \A e \in detected' : Kept(e)'
    BY DEF Duties, SeparationOfDuties
  <1>3. ASSUME NEW e \in detected, records'[e] = records[e] PROVE Kept(e)'
    BY <1>0, <1>1, <1>3
  <1>4. CASE Quiet
    BY <1>3, <1>4 DEF Quiet, divVars, detected
  <1>5. ASSUME NEW p \in Payloads, NEW a, SubmitAttestation(p), Detection(p, a)
        PROVE  \A e \in detected' : Kept(e)'
    <2>1. /\ detected' = detected \cup {nextDivergence}
          /\ \A d \in detected : records'[d] = records[d]
          /\ records'[nextDivergence] =
              [tokenId |-> p.tokenId, attestationA |-> a, attestationB |-> nextAttestation,
               detectedAt |-> now, resolved |-> FALSE, resolvedAt |-> 0,
               proposer |-> NoAccount, confirmer |-> NoAccount,
               acceptedCustodian |-> NoAccount, pending |-> FALSE]
      BY <1>5, DetectionExtends
    <2>2. ~records'[nextDivergence].resolved /\ ~records'[nextDivergence].pending
      BY <2>1
    <2> QED
      BY <1>3, <2>1, <2>2
  <1>6. ASSUME NEW d, requireOpen(d), NEW rec \in DivergenceRecord, NEW sender \in Accounts,
               rec.tokenId = records[d].tokenId, rec.proposer \in Accounts,
               rec.acceptedCustodian \in Accounts,
               assets[rec.tokenId].highValue <=> rec.proposer # sender,
               Finalization(d, rec, sender), UNCHANGED nextDivergence
        PROVE  \A e \in detected' : Kept(e)'
    <2>1. now \in Times
      BY DEF Typed, TypeOK, PermTypeOK
    <2>2. /\ detected' = detected /\ d \in detected
          /\ \A e \in detected : records'[e] = IF e = d THEN finalized(rec, sender) ELSE records[e]
      BY <1>6, FinalizationFields, OpenRecord
    <2>3. /\ finalized(rec, sender).tokenId = records[d].tokenId
          /\ finalized(rec, sender).proposer = rec.proposer
          /\ finalized(rec, sender).confirmer = sender
          /\ ~finalized(rec, sender).pending
      BY <1>6, <2>1, FinalizedIsRecord
    <2>4. records'[d] = finalized(rec, sender)
      BY <2>2
    <2>5. /\ records'[d].tokenId = records[d].tokenId
          /\ records'[d].proposer = rec.proposer /\ records'[d].confirmer = sender
          /\ ~records'[d].pending
      BY <2>3, <2>4
    <2>6. assets'[records'[d].tokenId].highValue <=> records'[d].proposer # records'[d].confirmer
      BY <1>1, <1>6, <2>2, <2>5
    <2>7. Kept(d)'
      BY <1>6, <2>5, <2>6
    <2> QED
      BY <1>3, <2>2, <2>7
  <1>7. ASSUME NEW sender \in Accounts, NEW d \in DivergenceIds, Confirm(sender, d)
        PROVE  \A e \in detected' : Kept(e)'
    <2>1. /\ requireOpen(d) /\ records[d].pending /\ sender # records[d].proposer
          /\ Finalization(d, records[d], sender)
          /\ UNCHANGED nextDivergence
      BY <1>7, ConfirmOutcome
    <2>2. records[d] \in DivergenceRecord /\ d \in detected
      BY <2>1, OpenRecord
    <2>3. records[d].acceptedCustodian \in Accounts /\ records[d].proposer \in Accounts
      BY <2>1, <2>2 DEF Typed, Shape
    <2>4. assets[records[d].tokenId].highValue
      BY <2>1, <2>2 DEF Duties
    <2> QED
      BY <1>6, <2>1, <2>2, <2>3, <2>4
  <1>8. ASSUME NEW sender \in Accounts, NEW d \in DivergenceIds, NEW c \in Accounts,
               Propose(sender, d, c)
        PROVE  \A e \in detected' : Kept(e)'
    <2>1. /\ requireOpen(d)
          /\ \/ Pending(d, sender, c)
             \/ /\ ~assets[records[d].tokenId].highValue
                /\ Finalization(d, proposed(d, sender, c), sender)
          /\ UNCHANGED nextDivergence
      BY <1>8, ProposeOutcomes
    <2>2. records[d] \in DivergenceRecord /\ d \in detected /\ ~records[d].resolved
      BY <2>1, OpenRecord
    <2>3. /\ proposed(d, sender, c) \in DivergenceRecord
          /\ proposed(d, sender, c).tokenId = records[d].tokenId
          /\ proposed(d, sender, c).resolved = records[d].resolved
          /\ proposed(d, sender, c).proposer = sender
          /\ proposed(d, sender, c).acceptedCustodian \in Accounts
      BY <2>2, ProposalIsRecord
    <2>4. CASE Pending(d, sender, c)
      <3>1. /\ detected' = detected
            /\ \A e \in detected :
                 records'[e] = IF e = d THEN proposed(d, sender, c) ELSE records[e]
        BY <2>1, <2>4, RewriteFields DEF Pending
      <3>2. records'[d] = proposed(d, sender, c)
        BY <2>2, <3>1
      <3>3. ~records'[d].resolved /\ records'[d].tokenId = records[d].tokenId
        BY <2>2, <2>3, <3>2
      <3>4. assets'[records'[d].tokenId].highValue
        BY <2>4, <3>3 DEF Pending
      <3>5. Kept(d)'
        BY <3>3, <3>4
      <3> QED
        BY <1>3, <3>1, <3>5
    <2> QED
      BY <1>6, <2>1, <2>3, <2>4
  <1> QED
    BY <1>4, <1>5, <1>7, <1>8, QuietSteps

\* No account ever resolves the divergence of a high-value asset alone.
THEOREM TwoAccountsRelease == Spec \/ DeployedSpec => []SeparationOfDuties
  <1>1. Started => Duties
    <2>1. Started => detected = {}
      BY DEF Started, Init, DeployedInit, DivInit, detected
    <2> QED
      BY <2>1 DEF Duties, SeparationOfDuties
  <1>2. Duties => SeparationOfDuties
    BY DEF Duties
  <1> QED
    BY <1>1, <1>2, AlwaysTyped, DutiesStep, PTL DEF Spec, DeployedSpec, Started

-----------------------------------------------------------------------------
\* What the two reconciliation calls ask for besides the caller's role and the
\* proposal: that the divergence is open, and that AssetNFT knows the registry
\* that releases the token.
NotBlocked == \A d \in detected : ~records[d].resolved => requireOpen(d) /\ nftDivergenceWired

\* A divergence is only detected by a registry that AssetNFT knows, and it knows
\* it for good.
WiredForDetection == detected # {} => nftDivergenceWired

LEMMA WiredStep == Typed /\ WiredForDetection /\ [Next]_vars => WiredForDetection'
  <1> SUFFICES ASSUME Typed, WiredForDetection, [Next]_vars PROVE WiredForDetection'
    OBVIOUS
  <1>1. nftDivergenceWired => nftDivergenceWired'
    <2>1. CASE UNCHANGED nftVars \/ UNCHANGED nftConfig
      BY <2>1 DEF nftVars, nftConfig
    <2>2. CASE AssetTransaction
      BY <2>2 DEF AssetTransaction, NftNext, SetNftDivergenceRegistry, SetNftAttestationRegistry,
                  Mint, AssignCustody, TransferOwnershipTo, TransferFrom, nftConfig
    <2>3. CASE UNCHANGED vars
      BY <2>3 DEF vars, nftVars, nftConfig
    <2>4. PermissionChange \/ (\E sender \in Accounts : WireDivergenceRegistry(sender)) => UNCHANGED nftVars
      BY DEF PermissionChange, WireDivergenceRegistry
    <2>5. (\E p \in Payloads : SubmitAttestation(p)) => UNCHANGED nftConfig
      BY DEF SubmitAttestation
    <2>6. (\E sender \in Accounts, d \in DivergenceIds :
             Confirm(sender, d) \/ \E c \in Accounts : Propose(sender, d, c)) => UNCHANGED nftConfig
      BY DEF Confirm, Propose
    <2> QED
      BY <2>1, <2>2, <2>3, <2>4, <2>5, <2>6 DEF Next
  <1>2. CASE Quiet
    BY <1>1, <1>2 DEF Quiet, WiredForDetection, detected, divVars
  <1>3. CASE \E p \in Payloads : SubmitAttestation(p) /\ \E a : Detection(p, a)
    <2>1. PICK p \in Payloads : SubmitAttestation(p) /\ \E a : Detection(p, a)
      BY <1>3
    <2>2. divergenceFrom # 0 /\ openDivergenceOf[p.tokenId] = 0 /\ rivals(observation(p)) # {}
      BY <2>1 DEF Detection
    <2>3. observation(p).tokenId = p.tokenId
      BY DEF observation
    <2>4. nftDivergenceWired
      BY <2>1, <2>2, <2>3 DEF SubmitAttestation, onAttestation
    <2> QED
      BY <1>1, <2>4 DEF WiredForDetection
  <1>4. ASSUME NEW sender \in Accounts, NEW d \in DivergenceIds,
               Confirm(sender, d) \/ \E c \in Accounts : Propose(sender, d, c)
        PROVE  WiredForDetection'
    <2>1. nextDivergence' = nextDivergence
      BY <1>4 DEF Confirm, Propose, ConfirmReconciliation, ProposeReconciliation
    <2> QED
      BY <1>1, <2>1 DEF WiredForDetection, detected
  <1> QED
    BY <1>2, <1>3, <1>4, QuietSteps

\* No reachable state has a divergence that the registry reports as unresolved
\* and whose reconciliation a guard of DivergenceRegistry or AssetNFT refuses to
\* every caller: the proposal or the confirmation of those the contract names
\* goes through.
THEOREM OpenIsNotBlocked == Spec \/ DeployedSpec => []NotBlocked
  <1>1. Started => WiredForDetection
    BY DEF Started, Init, DeployedInit, DivInit, detected, WiredForDetection
  <1>2. WiredForDetection /\ QuarantineIffOpen => NotBlocked
    BY DEF WiredForDetection, QuarantineIffOpen, NotBlocked, requireOpen
  <1> QED
    BY <1>1, <1>2, AlwaysTyped, WiredStep, QuarantineMatchesDivergence, PTL
    DEF Spec, DeployedSpec, Started
=============================================================================
