----------------------- MODULE AssetRefinement_proofs -----------------------
(***************************************************************************)
(* AssetTrust implements AssetCustody and shows a Ledger, for every number  *)
(* of tokens and of parties.                                                *)
(***************************************************************************)
EXTENDS AssetHistory_proofs, FiniteSetTheorems, SequenceTheorems

-----------------------------------------------------------------------------
\* The three variables of AssetCustody, as AssetTrust computes them.
entry(a)    == [phase |-> phase(a), owner |-> a.owner, custodian |-> a.custodian]
holdings    == [t \in Tokens |-> entry(assets[t])]
casesOpened == [t \in Tokens |-> Cardinality(cases(t))]
casesClosed == [t \in Tokens |-> Cardinality(resolved(t))]

LEMMA CasesAreFinite ==
  ASSUME Typed, NEW t
  PROVE  IsFiniteSet(cases(t)) /\ IsFiniteSet(resolved(t))
<1>1. nextDivergence - 1 \in Int
  BY DivergenceAssumption DEF Typed, TypeOK, DivTypeOK
<1>2. IsFiniteSet(detected)
  BY <1>1, FS_Interval DEF detected
<1>3. cases(t) \in SUBSET detected /\ resolved(t) \in SUBSET detected
  BY DEF cases, resolved
<1>. QED
  BY <1>2, <1>3, FS_Subset

\* A token has no unresolved case but the one it has open.
LEMMA AllButOneResolved ==
  ASSUME Typed, QuarantineIffOpen, NEW t \in Tokens
  PROVE  /\ openDivergenceOf[t] = 0 => cases(t) = resolved(t)
         /\ openDivergenceOf[t] # 0 =>
              /\ openDivergenceOf[t] \notin resolved(t)
              /\ cases(t) = resolved(t) \cup {openDivergenceOf[t]}
<1>1. \A d \in detected : d # 0
  BY DivergenceAssumption DEF detected, Typed, TypeOK, DivTypeOK
<1>. QED
  BY <1>1 DEF QuarantineIffOpen, cases, resolved

\* The steps of AssetCustody, in those terms.
LEMMA CustodySteps ==
  ASSUME NEW t \in Tokens, NEW o \in Accounts, NEW c \in Accounts,
         \/ /\ holdings[t] = [phase |-> "absent", owner |-> NoAccount, custodian |-> NoAccount]
            /\ holdings' = [holdings EXCEPT ![t] = [phase |-> "free", owner |-> o, custodian |-> c]]
            /\ UNCHANGED <<casesOpened, casesClosed>>
         \/ /\ holdings[t].phase = "free"
            /\ holdings' = [holdings EXCEPT ![t].owner = o, ![t].custodian = c]
            /\ UNCHANGED <<casesOpened, casesClosed>>
         \/ /\ holdings[t].phase = "free"
            /\ casesOpened[t] = casesClosed[t]
            /\ holdings' = [holdings EXCEPT ![t].phase = "frozen"]
            /\ casesOpened' = [casesOpened EXCEPT ![t] = casesOpened[t] + 1]
            /\ UNCHANGED casesClosed
         \/ /\ holdings[t].phase = "frozen"
            /\ casesOpened[t] = casesClosed[t] + 1
            /\ holdings' = [holdings EXCEPT ![t].phase = "free", ![t].custodian = c]
            /\ casesClosed' = [casesClosed EXCEPT ![t] = casesClosed[t] + 1]
            /\ UNCHANGED casesOpened
  PROVE  Custody!CustodyNext
<1>1. Custody!Appear(t, o, c) \/ Custody!HandOver(t, o, c) \/ Custody!Freeze(t) \/ Custody!Release(t, c)
  BY DEF Custody!Appear, Custody!HandOver, Custody!Freeze, Custody!Release, Custody!Absent,
         holdings, casesOpened, casesClosed, entry
<1>. QED
  BY <1>1 DEF Custody!CustodyNext

-----------------------------------------------------------------------------
\* A table of tokens, entry by entry.
LEMMA HoldingsTable ==
  /\ holdings = [t \in Tokens |-> holdings[t]]
  /\ \A t \in Tokens : holdings[t] = entry(assets[t])
  BY DEF holdings

LEMMA CountsTable ==
  /\ casesOpened = [t \in Tokens |-> casesOpened[t]]
  /\ casesClosed = [t \in Tokens |-> casesClosed[t]]
  /\ \A t \in Tokens : /\ casesOpened[t] = Cardinality(cases(t))
                       /\ casesClosed[t] = Cardinality(resolved(t))
  BY DEF casesOpened, casesClosed

\* An asset that shows the same phase, owner and custodian is the same entry.
LEMMA SameEntry ==
  ASSUME NEW a, NEW b, a.exists = b.exists, a.quarantined = b.quarantined,
         a.owner = b.owner, a.custodian = b.custodian
  PROVE  entry(a) = entry(b)
  BY DEF entry, phase

CustodyStep == Custody!CustodyNext \/ UNCHANGED <<holdings, casesOpened, casesClosed>>

\* Transactions of AssetNFT: a mint makes a token appear, a move hands it over.
LEMMA CustodyOfTransaction ==
  ASSUME Typed, AssetTransaction
  PROVE  CustodyStep
<1>0. assets \in [Tokens -> Asset \cup {NoAsset}]
  BY DEF Typed, TypeOK, NftTypeOK
<1>1. UNCHANGED <<casesOpened, casesClosed>>
  BY DEF AssetTransaction, divVars, casesOpened, casesClosed, cases, resolved, detected
<1>2. ASSUME NEW sender \in Accounts,
             SetNftDivergenceRegistry(sender) \/ SetNftAttestationRegistry(sender)
      PROVE  CustodyStep
  BY <1>1, <1>2 DEF SetNftDivergenceRegistry, SetNftAttestationRegistry, CustodyStep, holdings
<1>3. ASSUME NEW sender \in Accounts, NEW to \in Accounts, NEW i \in Identifiers,
             NEW w \in Windows, NEW h \in BOOLEAN, NEW c \in Accounts \cup {NoAccount},
             Mint(sender, to, i, w, h, c)
      PROVE  CustodyStep
  <2>. DEFINE t == nextToken
              k == custodianOrOwner(c, to)
              new == [phase |-> "free", owner |-> to, custodian |-> k]
  <2>1. t \in Tokens /\ k \in Accounts
    BY <1>3, AssetAssumption, PermissionsAssumption
    DEF Mint, custodianOrOwner, Typed, TypeOK, NftTypeOK, Tokens
  <2>2. assets[t] = NoAsset
    <3>1. ~Exists(t)
      BY <2>1, AssetAssumption DEF Typed, Shape, TypeOK, NftTypeOK
    <3>. QED
      BY <1>0, <2>1, <3>1 DEF Exists, Asset
  <2>3. holdings[t] = [phase |-> "absent", owner |-> NoAccount, custodian |-> NoAccount]
    BY <2>1, <2>2 DEF holdings, entry, phase, NoAsset
  <2>4. /\ assets'[t].exists = TRUE /\ assets'[t].quarantined = FALSE
        /\ assets'[t].owner = to /\ assets'[t].custodian = k
        /\ \A u \in Tokens : u # t => assets'[u] = assets[u]
    BY <1>0, <1>3, <2>1 DEF Mint
  <2>. HIDE DEF t, k
  <2>5. entry(assets'[t]) = new
    BY <2>4 DEF entry, phase
  <2>6. holdings' = [holdings EXCEPT ![t] = new]
    BY <2>1, <2>4, <2>5 DEF holdings
  <2>. QED
    BY <1>1, <2>1, <2>3, <2>6, CustodySteps DEF CustodyStep
<1>4. ASSUME NEW sender \in Accounts, NEW t \in Tokens, NEW c \in Accounts,
             \/ AssignCustody(sender, t, c)
             \/ TransferOwnershipTo(sender, t, c)
             \/ TransferFrom(sender, t, c)
      PROVE  CustodyStep
  <2>. DEFINE o == assets'[t].owner
              k == assets'[t].custodian
  <2>1. /\ Exists(t) /\ ~assets[t].quarantined
        /\ \/ assets' = [assets EXCEPT ![t].custodian = c]
           \/ assets' = [assets EXCEPT ![t].owner = c]
    BY <1>4 DEF AssignCustody, TransferOwnershipTo, TransferFrom, update, movable
  <2>2. assets[t] \in Asset
    BY <1>0, <2>1, ExistingIsAsset DEF Exists
  <2>3. /\ o \in Accounts /\ k \in Accounts
        /\ assets'[t].exists = assets[t].exists
        /\ assets'[t].quarantined = assets[t].quarantined
        /\ \A u \in Tokens : u # t => assets'[u] = assets[u]
    <3>1. CASE assets' = [assets EXCEPT ![t].custodian = c]
      BY <1>0, <2>2, <3>1 DEF Asset
    <3>2. CASE assets' = [assets EXCEPT ![t].owner = c]
      BY <1>0, <2>2, <3>2 DEF Asset
    <3>. QED
      BY <2>1, <3>1, <3>2
  <2>4. holdings[t].phase = "free"
    BY <2>1 DEF holdings, entry, phase, Exists
  <2>5. holdings' = [holdings EXCEPT ![t].owner = o, ![t].custodian = k]
    <3>1. phase(assets'[t]) = phase(assets[t])
      BY <2>3 DEF phase
    <3>2. /\ holdings'[t] = [phase |-> phase(assets[t]), owner |-> o, custodian |-> k]
          /\ holdings[t] = [phase |-> phase(assets[t]), owner |-> assets[t].owner,
                            custodian |-> assets[t].custodian]
      BY <3>1 DEF holdings, entry
    <3>3. /\ holdings = [u \in Tokens |-> holdings[u]] /\ holdings' = [u \in Tokens |-> holdings'[u]]
          /\ \A u \in Tokens : u # t => holdings'[u] = holdings[u]
      BY <2>3 DEF holdings
    <3>. HIDE DEF o, k
    <3>. DEFINE g == [holdings EXCEPT ![t].owner = o]
    <3>4. /\ g = [u \in Tokens |-> g[u]] /\ \A u \in Tokens : u # t => g[u] = holdings[u]
          /\ g[t] = [phase |-> phase(assets[t]), owner |-> o, custodian |-> assets[t].custodian]
      BY <3>2, <3>3
    <3>5. [holdings EXCEPT ![t].owner = o, ![t].custodian = k] = [g EXCEPT ![t].custodian = k]
      OBVIOUS
    <3>. HIDE DEF g
    <3>6. holdings' = [g EXCEPT ![t].custodian = k]
      BY <3>2, <3>3, <3>4
    <3>. QED
      BY <3>5, <3>6
  <2>. HIDE DEF o, k
  <2>. QED
    BY <1>1, <2>3, <2>4, <2>5, CustodySteps DEF CustodyStep
<1>. QED
  BY <1>2, <1>3, <1>4 DEF AssetTransaction, NftNext

\* A submitted observation freezes the token if it opens a case, and is not
\* seen by AssetCustody otherwise.
LEMMA CustodyOfSubmission ==
  ASSUME Typed, Typed', QuarantineIffOpen, NEW p \in Payloads, SubmitAttestation(p)
  PROVE  CustodyStep
<1>. DEFINE t == p.tokenId
<1>1. t \in Tokens /\ Exists(t) /\ nextToken' = nextToken
  BY SubmitFields DEF SubmitAttestation, nftConfig
<1>2. \A u \in Tokens : assets'[u].exists = assets[u].exists
  <2>1. \A u \in Tokens : (assets'[u].exists <=> assets[u].exists)
    BY <1>1 DEF Typed, Shape, Exists
  <2>2. \A u \in Tokens : assets[u].exists \in BOOLEAN /\ assets'[u].exists \in BOOLEAN
    <3>1. assets \in [Tokens -> Asset \cup {NoAsset}] /\ assets' \in [Tokens -> Asset \cup {NoAsset}]
      BY DEF Typed, TypeOK, NftTypeOK, Asset, Times
    <3>2. ASSUME NEW a \in Asset \cup {NoAsset} PROVE a.exists \in BOOLEAN
      <4>1. CASE a \in Asset
        <5>1. a.exists \in {TRUE}
          BY <4>1 DEF Asset
        <5>. QED
          BY <5>1
      <4>2. CASE a = NoAsset
        BY <4>2 DEF NoAsset
      <4>. QED
        BY <4>1, <4>2
    <3>. QED
      BY <3>1, <3>2
  <2>. QED
    BY <2>1, <2>2
<1>3. \A u \in Tokens : assets'[u].owner = assets[u].owner /\ assets'[u].custodian = assets[u].custodian
  BY SubmitFields
<1>4. CASE Unremarkable(p)
  <2>1. \A u \in Tokens : assets'[u].quarantined = assets[u].quarantined
    BY <1>4, SubmitFields
  <2>2. \A u \in Tokens : entry(assets'[u]) = entry(assets[u])
    BY <1>2, <1>3, <2>1 DEF entry, phase
  <2>3. UNCHANGED <<casesOpened, casesClosed>>
    BY <1>4 DEF Unremarkable, divVars, casesOpened, casesClosed, cases, resolved, detected
  <2>. QED
    BY <2>2, <2>3 DEF CustodyStep, holdings
<1>5. ASSUME NEW a, Detection(p, a) PROVE CustodyStep
  <2>. DEFINE d == nextDivergence
  <2>1. \A u \in Tokens :
          assets'[u].quarantined = (IF u = t THEN TRUE ELSE assets[u].quarantined)
    BY <1>5, SubmitFields
  <2>2. openDivergenceOf[t] = 0 /\ ~assets[t].quarantined
    BY <1>1, <1>5 DEF Detection, QuarantineIffOpen
  <2>3. holdings' = [holdings EXCEPT ![t].phase = "frozen"] /\ holdings[t].phase = "free"
    <3>1. \A u \in Tokens : u # t => entry(assets'[u]) = entry(assets[u])
      BY <1>2, <1>3, <2>1 DEF entry, phase
    <3>2. phase(assets[t]) = "free" /\ phase(assets'[t]) = "frozen"
      BY <1>1, <1>2, <2>1, <2>2 DEF phase, Exists
    <3>3. entry(assets'[t]) = [entry(assets[t]) EXCEPT !.phase = "frozen"]
      BY <1>1, <1>3, <3>2 DEF entry
    <3>4. entry(assets[t]).phase = "free"
      BY <3>2 DEF entry
    <3>. QED
      BY <1>1, <3>1, <3>3, <3>4 DEF holdings
  <2>4. /\ d \notin detected /\ detected' = detected \cup {d}
        /\ \A e \in detected : records'[e] = records[e]
    BY <1>5, DetectionExtends
  <2>5. records'[d].tokenId = t /\ ~records'[d].resolved
    <3>1. records'[nextDivergence] =
            [tokenId |-> p.tokenId, attestationA |-> a, attestationB |-> nextAttestation,
             detectedAt |-> now, resolved |-> FALSE, resolvedAt |-> 0,
             proposer |-> NoAccount, confirmer |-> NoAccount,
             acceptedCustodian |-> NoAccount, pending |-> FALSE]
      BY <1>5, DetectionExtends
    <3>. QED
      BY <3>1
  <2>. HIDE DEF d
  <2>6. /\ cases(t)' = cases(t) \cup {d} /\ d \notin cases(t)
        /\ \A u \in Tokens : u # t => cases(u)' = cases(u)
        /\ \A u \in Tokens : resolved(u)' = resolved(u)
    BY <2>4, <2>5 DEF cases, resolved
  <2>7. Cardinality(cases(t)') = Cardinality(cases(t)) + 1
    BY <2>6, CasesAreFinite, FS_AddElement
  <2>8. UNCHANGED casesClosed /\ casesOpened' = [casesOpened EXCEPT ![t] = casesOpened[t] + 1]
    BY <1>1, <2>6, <2>7 DEF casesOpened, casesClosed
  <2>9. casesOpened[t] = casesClosed[t]
    BY <1>1, <2>2, AllButOneResolved, CountsTable
  <2>10. InitialAdmin \in Accounts
    BY PermissionsAssumption
  <2>. QED
    BY <1>1, <2>3, <2>8, <2>9, <2>10, CustodySteps DEF CustodyStep
<1>. QED
  BY <1>4, <1>5, SubmitOutcomes

\* A resolution releases the token of the case; a proposal is not seen.
LEMMA CustodyOfResolution ==
  ASSUME Typed, Typed', QuarantineIffOpen, NEW d, NEW rec, NEW sender, Resolves(d, rec, sender)
  PROVE  CustodyStep
<1>. DEFINE c == rec.acceptedCustodian
<1>. SUFFICES ASSUME NEW t, t = records[d].tokenId PROVE CustodyStep
  OBVIOUS
<1>1. /\ d \in detected /\ ~records[d].resolved /\ t \in Tokens /\ openDivergenceOf[t] = d
      /\ detected' = detected /\ \A e \in detected : e # d => records'[e] = records[e]
      /\ records'[d].tokenId = t /\ records'[d].resolved = TRUE
  BY ResolvesFields
<1>2. nextToken' = nextToken /\ c \in Accounts /\ d # 0
  <2>1. d # 0
    BY <1>1, DivergenceAssumption DEF detected, Typed, TypeOK, DivTypeOK
  <2>. QED
    BY <2>1 DEF Resolves, nftConfig
<1>3. Exists(t) /\ Exists(t)' /\ assets[t].quarantined
  <2>1. Exists(t)
    BY <1>1 DEF Typed, Shape
  <2>2. Exists(t)'
    BY <1>1, <1>2, <2>1 DEF Typed, Shape, Exists
  <2>. QED
    BY <1>1, <1>2, <2>1, <2>2 DEF QuarantineIffOpen
<1>4. /\ ~assets'[t].quarantined /\ assets'[t].custodian = c /\ assets'[t].owner = assets[t].owner
      /\ \A u \in Tokens : u # t => assets'[u] = assets[u]
  <2>1. \A u \in Tokens :
          /\ u # records[d].tokenId => assets'[u] = assets[u]
          /\ u = records[d].tokenId => /\ ~assets'[u].quarantined
                                       /\ assets'[u].custodian = rec.acceptedCustodian
                                       /\ assets'[u].owner = assets[u].owner
    BY ResolvesTokens
  <2>. QED
    BY <1>1, <2>1
<1>. HIDE DEF c
<1>5. /\ holdings[t].phase = "frozen"
      /\ holdings' = [holdings EXCEPT ![t].phase = "free", ![t].custodian = c]
  <2>1. phase(assets[t]) = "frozen" /\ phase(assets'[t]) = "free"
    BY <1>3, <1>4 DEF phase, Exists
  <2>2. /\ holdings'[t] = [phase |-> "free", owner |-> assets[t].owner, custodian |-> c]
        /\ holdings[t] = [phase |-> "frozen", owner |-> assets[t].owner,
                          custodian |-> assets[t].custodian]
    BY <1>1, <1>4, <2>1 DEF holdings, entry
  <2>3. /\ holdings = [u \in Tokens |-> holdings[u]] /\ holdings' = [u \in Tokens |-> holdings'[u]]
        /\ \A u \in Tokens : u # t => holdings'[u] = holdings[u]
    BY <1>4 DEF holdings
  <2>4. holdings' = [holdings EXCEPT ![t].phase = "free", ![t].custodian = c]
    <3>. DEFINE g == [holdings EXCEPT ![t].phase = "free"]
    <3>1. /\ g = [u \in Tokens |-> g[u]] /\ \A u \in Tokens : u # t => g[u] = holdings[u]
          /\ g[t] = [phase |-> "free", owner |-> assets[t].owner, custodian |-> assets[t].custodian]
      BY <1>1, <2>2, <2>3
    <3>2. [holdings EXCEPT ![t].phase = "free", ![t].custodian = c] = [g EXCEPT ![t].custodian = c]
      OBVIOUS
    <3>. HIDE DEF g
    <3>3. holdings' = [g EXCEPT ![t].custodian = c]
      BY <1>1, <2>2, <2>3, <3>1
    <3>. QED
      BY <3>2, <3>3
  <2>. QED
    BY <2>2, <2>4
<1>6. /\ \A u \in Tokens : cases(u)' = cases(u)
      /\ \A u \in Tokens : u # t => resolved(u)' = resolved(u)
      /\ resolved(t)' = resolved(t) \cup {d} /\ d \notin resolved(t)
  <2>1. \A e \in detected : records'[e].tokenId = records[e].tokenId
    BY <1>1
  <2>2. \A u : cases(u)' = cases(u)
    BY <1>1, <2>1 DEF cases
  <2>. QED
    BY <1>1, <2>2 DEF resolved, cases
<1>7. Cardinality(resolved(t)') = Cardinality(resolved(t)) + 1
  BY <1>6, CasesAreFinite, FS_AddElement
<1>8. UNCHANGED casesOpened /\ casesClosed' = [casesClosed EXCEPT ![t] = casesClosed[t] + 1]
  BY <1>1, <1>6, <1>7 DEF casesOpened, casesClosed
<1>9. casesOpened[t] = casesClosed[t] + 1
  <2>1. cases(t) = resolved(t) \cup {d}
    BY <1>1, <1>2, AllButOneResolved
  <2>2. Cardinality(cases(t)) = Cardinality(resolved(t)) + 1
    BY <1>6, <2>1, CasesAreFinite, FS_AddElement
  <2>. QED
    BY <1>1, <2>2, CountsTable
<1>. QED
  BY <1>1, <1>2, <1>5, <1>8, <1>9, CustodySteps DEF CustodyStep

LEMMA CustodyStepHolds ==
  Typed /\ Typed' /\ QuarantineIffOpen /\ [Next]_vars => CustodyStep
<1>. SUFFICES ASSUME Typed, Typed', QuarantineIffOpen, [Next]_vars PROVE CustodyStep
  OBVIOUS
<1>1. CASE UNCHANGED <<nftVars, divVars>>
  BY <1>1 DEF nftVars, divVars, CustodyStep, holdings, casesOpened, casesClosed, cases, resolved, detected
<1>2. ASSUME NEW d, NEW sender, NEW c, Proposes(d, sender, c) PROVE CustodyStep
  <2>1. /\ detected' = detected /\ \A e \in detected : e # d => records'[e] = records[e]
        /\ records'[d].tokenId = records[d].tokenId /\ records'[d].resolved = records[d].resolved
        /\ assets' = assets
    BY <1>2, ProposesFields
  <2>2. \A e \in detected : records'[e].tokenId = records[e].tokenId
                            /\ records'[e].resolved = records[e].resolved
    BY <2>1
  <2>3. \A t : cases(t)' = cases(t) /\ resolved(t)' = resolved(t)
    BY <2>1, <2>2 DEF cases, resolved
  <2>. QED
    BY <2>1, <2>3 DEF CustodyStep, holdings, casesOpened, casesClosed
<1>3. CASE \/ UNCHANGED vars \/ PermissionChange
           \/ \E sender \in Accounts : WireDivergenceRegistry(sender)
  BY <1>1, <1>3 DEF vars, PermissionChange, WireDivergenceRegistry
<1>4. CASE AssetTransaction
  BY <1>4, CustodyOfTransaction
<1>5. CASE \E p \in Payloads : SubmitAttestation(p)
  BY <1>5, CustodyOfSubmission
<1>6. CASE \E sender \in Accounts, d \in DivergenceIds :
             Confirm(sender, d) \/ \E c \in Accounts : Propose(sender, d, c)
  BY <1>2, <1>6, ReconciliationKinds, CustodyOfResolution
<1>. QED
  BY <1>3, <1>4, <1>5, <1>6 DEF Next

\* The three contracts keep the promise of AssetCustody, whatever the tokens,
\* the parties and the permissions: owner and custodian move only while a token
\* is free, and each freeze and release opens and closes one case.
THEOREM CustodyIsKept == Spec \/ DeployedSpec => KeepsCustodyPromise
<1>1. Started => Custody!CustodyInit
  <2>1. Started => /\ assets = [t \in Tokens |-> NoAsset] /\ detected = {}
    BY DEF Started, Init, DeployedInit, NftInit, DivInit, detected
  <2>. SUFFICES ASSUME Started PROVE Custody!CustodyInit
    OBVIOUS
  <2>2. \A t : cases(t) = {} /\ resolved(t) = {}
    BY <2>1 DEF cases, resolved
  <2>3. Cardinality({}) = 0
    BY FS_EmptySet
  <2>. QED
    BY <2>1, <2>2, <2>3 DEF Custody!CustodyInit, Custody!Absent, NoAsset, phase
<1>2. Typed /\ Typed' /\ QuarantineIffOpen /\ [Next]_vars
        => [Custody!CustodyNext]_(Custody!custodyVars)
  BY CustodyStepHolds
  DEF CustodyStep, Custody!custodyVars, holdings, casesOpened, casesClosed, entry
<1>. QED
  BY <1>1, <1>2, AlwaysTyped, QuarantineMatchesDivergence, PTL
  DEF Spec, DeployedSpec, Started, KeepsCustodyPromise, Custody!CustodySpec

-----------------------------------------------------------------------------
\* The variables of Ledger, as AssetTrust computes them.
assetView(a) == [fresh |-> a.freshnessTimestamp, highValue |-> a.highValue,
                 quarantined |-> a.quarantined]
observationView(o) == [of |-> o.tokenId, tier |-> "tier", at |-> o.timestamp]
disputeView(r) == [of |-> r.tokenId, pending |-> r.pending, resolved |-> r.resolved]

assetViews       == [t \in 1..(nextToken - 1) |-> assetView(assets[t])]
observationViews == [i \in recorded |-> observationView(attestations[i])]
disputeViews     == [d \in detected |-> disputeView(records[d])]

AssetViews       == [fresh : Times, highValue : BOOLEAN, quarantined : BOOLEAN]
ObservationViews == [of : Tokens, tier : {"tier"}, at : Times]
DisputeViews     == [of : Tokens, pending : BOOLEAN, resolved : BOOLEAN]

\* A function on 1..n is a sequence of length n, and one that extends it by an
\* entry is the sequence with that entry appended.
LEMMA FunctionIsSequence ==
  ASSUME NEW S, NEW n \in Nat, NEW f \in [1..n -> S]
  PROVE  f \in Seq(S) /\ Len(f) = n
<1>1. f \in Seq(S)
  BY SeqDef
<1>2. Len(f) \in Nat /\ DOMAIN f = 1..Len(f)
  BY <1>1, LenProperties
<1>. QED
  BY <1>1, <1>2

LEMMA GrowsByAppend ==
  ASSUME NEW S, NEW n \in Nat, NEW f \in [1..n -> S], NEW g \in [1..(n + 1) -> S],
         \A i \in 1..n : g[i] = f[i]
  PROVE  g = Append(f, g[n + 1])
<1>. DEFINE x == g[n + 1]
            h == Append(f, x)
<1>1. x \in S
  OBVIOUS
<1>2. f \in Seq(S) /\ Len(f) = n
  BY FunctionIsSequence
<1>. HIDE DEF x
<1>3. /\ h \in Seq(S) /\ Len(h) = n + 1 /\ h[n + 1] = x
      /\ \A i \in 1..n : h[i] = f[i]
  BY <1>1, <1>2, AppendProperties
<1>. HIDE DEF h
<1>4. h \in [1..(n + 1) -> S]
  BY <1>3, LenProperties
<1>5. \A i \in 1..(n + 1) : g[i] = h[i]
  BY <1>3 DEF x
<1>6. g = h
  BY <1>4, <1>5
<1>. QED
  BY <1>6 DEF h, x

LEMMA ViewsAreSequences ==
  ASSUME Typed
  PROVE  /\ nextToken - 1 \in Nat /\ nextAttestation - 1 \in Nat /\ nextDivergence - 1 \in Nat
         /\ assetViews \in [1..(nextToken - 1) -> AssetViews]
         /\ observationViews \in [1..(nextAttestation - 1) -> ObservationViews]
         /\ disputeViews \in [1..(nextDivergence - 1) -> DisputeViews]
<1>1. nextToken - 1 \in Nat /\ nextAttestation - 1 \in Nat /\ nextDivergence - 1 \in Nat
  BY AssetAssumption, AttestationAssumption, DivergenceAssumption
  DEF Typed, TypeOK, NftTypeOK, AttTypeOK, DivTypeOK
<1>2. \A t \in 1..(nextToken - 1) : assets[t] \in Asset
  <2>1. \A t \in 1..(nextToken - 1) : t \in Tokens /\ t < nextToken
    BY AssetAssumption DEF Typed, TypeOK, NftTypeOK, Tokens
  <2>. QED
    BY <2>1, ExistingIsAsset DEF Typed, Shape, Exists, TypeOK, NftTypeOK
<1>3. \A i \in recorded : attestations[i] \in Attestation
  BY DEF Typed, Shape
<1>4. \A d \in detected : records[d] \in DivergenceRecord
  BY DEF Typed, Shape
<1>5. \A a \in Asset : assetView(a) \in AssetViews
  BY DEF Asset, assetView, AssetViews
<1>6. \A o \in Attestation : observationView(o) \in ObservationViews
  BY DEF Attestation, observationView, ObservationViews
<1>7. \A r \in DivergenceRecord : disputeView(r) \in DisputeViews
  BY DEF DivergenceRecord, disputeView, DisputeViews
<1>8. assetViews \in [1..(nextToken - 1) -> AssetViews]
  BY <1>2, <1>5 DEF assetViews
<1>9. observationViews \in [1..(nextAttestation - 1) -> ObservationViews]
  BY <1>3, <1>6 DEF observationViews, recorded
<1>10. disputeViews \in [1..(nextDivergence - 1) -> DisputeViews]
  BY <1>4, <1>7 DEF disputeViews, detected
<1>. QED
  BY <1>1, <1>8, <1>9, <1>10

ViewsOfAssets       == assetViews \in [1..(nextToken - 1) -> AssetViews]
ViewsOfObservations == observationViews \in [1..(nextAttestation - 1) -> ObservationViews]
ViewsOfDisputes     == disputeViews \in [1..(nextDivergence - 1) -> DisputeViews]

LEMMA ViewsTyped ==
  /\ Typed => ViewsOfAssets /\ ViewsOfObservations /\ ViewsOfDisputes
  /\ Typed' => ViewsOfAssets' /\ ViewsOfObservations' /\ ViewsOfDisputes'
<1>1. Typed => ViewsOfAssets /\ ViewsOfObservations /\ ViewsOfDisputes
  BY ViewsAreSequences DEF ViewsOfAssets, ViewsOfObservations, ViewsOfDisputes
<1>2. Typed' => ViewsOfAssets' /\ ViewsOfObservations' /\ ViewsOfDisputes'
  BY <1>1, PTL
<1>. QED
  BY <1>1, <1>2

LEMMA ViewLengths ==
  ASSUME Typed
  PROVE  /\ Len(assetViews) = nextToken - 1
         /\ Len(observationViews) = nextAttestation - 1
         /\ Len(disputeViews) = nextDivergence - 1
  BY ViewsAreSequences, FunctionIsSequence

-----------------------------------------------------------------------------
\* The steps of Ledger, in those terms.
LEMMA LedgerSteps ==
  /\ /\ now' = now + 1
     /\ UNCHANGED <<assetViews, observationViews, disputeViews, openDivergenceOf>>
     => Readable!LedgerNext
  /\ \A h \in BOOLEAN :
       /\ Len(assetViews) + 1 \in Tokens
       /\ assetViews' = Append(assetViews, [fresh |-> now, highValue |-> h, quarantined |-> FALSE])
       /\ UNCHANGED <<now, observationViews, disputeViews, openDivergenceOf>>
       => Readable!LedgerNext
  /\ \A t \in Tokens, conflict \in BOOLEAN :
       /\ t \in 1..Len(assetViews)
       /\ conflict => openDivergenceOf[t] = 0
                      /\ \E i \in 1..Len(observationViews) : observationViews[i].of = t
       /\ observationViews' = Append(observationViews, [of |-> t, tier |-> "tier", at |-> now])
       /\ assetViews' = [assetViews EXCEPT ![t].fresh = now, ![t].quarantined = @ \/ conflict]
       /\ IF conflict
          THEN /\ disputeViews' = Append(disputeViews, [of |-> t, pending |-> FALSE, resolved |-> FALSE])
               /\ openDivergenceOf' = [openDivergenceOf EXCEPT ![t] = Len(disputeViews')]
          ELSE UNCHANGED <<disputeViews, openDivergenceOf>>
       /\ UNCHANGED now
       => Readable!LedgerNext
  /\ \A d \in 1..Len(disputeViews) :
       /\ ~disputeViews[d].resolved
       /\ \/ /\ ~disputeViews[d].pending
             /\ assetViews[disputeViews[d].of].highValue
             /\ disputeViews' = [disputeViews EXCEPT ![d].pending = TRUE]
             /\ UNCHANGED <<now, assetViews, observationViews, openDivergenceOf>>
          \/ /\ disputeViews[d].pending \/ ~assetViews[disputeViews[d].of].highValue
             /\ disputeViews' = [disputeViews EXCEPT ![d].pending = FALSE, ![d].resolved = TRUE]
             /\ openDivergenceOf' = [openDivergenceOf EXCEPT ![disputeViews[d].of] = 0]
             /\ assetViews' = [assetViews EXCEPT ![disputeViews[d].of].fresh = now,
                                                 ![disputeViews[d].of].quarantined = FALSE]
             /\ UNCHANGED <<now, observationViews>>
       => Readable!LedgerNext
<1>1. ASSUME /\ now' = now + 1
             /\ UNCHANGED <<assetViews, observationViews, disputeViews, openDivergenceOf>>
      PROVE  Readable!LedgerNext
  BY <1>1 DEF Readable!LedgerNext, Readable!Passes, assetViews, assetView, observationViews,
     observationView, disputeViews, disputeView
<1>2. ASSUME NEW h \in BOOLEAN,
             /\ Len(assetViews) + 1 \in Tokens
             /\ assetViews' = Append(assetViews, [fresh |-> now, highValue |-> h, quarantined |-> FALSE])
             /\ UNCHANGED <<now, observationViews, disputeViews, openDivergenceOf>>
      PROVE  Readable!LedgerNext
  <2>1. Readable!Minted(h)
    BY <1>2 DEF Readable!Minted, assetViews, assetView, observationViews,
       observationView, disputeViews, disputeView
  <2>. QED
    BY <2>1 DEF Readable!LedgerNext
<1>3. ASSUME NEW t \in Tokens, NEW conflict \in BOOLEAN,
             /\ t \in 1..Len(assetViews)
             /\ conflict => openDivergenceOf[t] = 0
                            /\ \E i \in 1..Len(observationViews) : observationViews[i].of = t
             /\ observationViews' = Append(observationViews, [of |-> t, tier |-> "tier", at |-> now])
             /\ assetViews' = [assetViews EXCEPT ![t].fresh = now, ![t].quarantined = @ \/ conflict]
             /\ IF conflict
                THEN /\ disputeViews' = Append(disputeViews,
                                               [of |-> t, pending |-> FALSE, resolved |-> FALSE])
                     /\ openDivergenceOf' = [openDivergenceOf EXCEPT ![t] = Len(disputeViews')]
                ELSE UNCHANGED <<disputeViews, openDivergenceOf>>
             /\ UNCHANGED now
      PROVE  Readable!LedgerNext
  <2>1. Readable!Recorded(t, "tier", conflict)
    BY <1>3 DEF Readable!Recorded, Readable!minted, assetViews, assetView, observationViews,
       observationView, disputeViews, disputeView
  <2>. QED
    BY <2>1 DEF Readable!LedgerNext
<1>4. ASSUME NEW d \in 1..Len(disputeViews), ~disputeViews[d].resolved,
             ~disputeViews[d].pending, assetViews[disputeViews[d].of].highValue,
             disputeViews' = [disputeViews EXCEPT ![d].pending = TRUE],
             UNCHANGED <<now, assetViews, observationViews, openDivergenceOf>>
      PROVE  Readable!LedgerNext
  <2>1. Readable!Proposed(d) /\ d \in 1..Len(disputeViews)
    BY <1>4 DEF Readable!Proposed, Readable!unresolved, assetViews, assetView, observationViews,
       observationView, disputeViews, disputeView
  <2>. QED
    BY <2>1 DEF Readable!LedgerNext, disputeViews, disputeView
<1>5. ASSUME NEW d \in 1..Len(disputeViews), ~disputeViews[d].resolved,
             disputeViews[d].pending \/ ~assetViews[disputeViews[d].of].highValue,
             disputeViews' = [disputeViews EXCEPT ![d].pending = FALSE, ![d].resolved = TRUE],
             openDivergenceOf' = [openDivergenceOf EXCEPT ![disputeViews[d].of] = 0],
             assetViews' = [assetViews EXCEPT ![disputeViews[d].of].fresh = now,
                                              ![disputeViews[d].of].quarantined = FALSE],
             UNCHANGED <<now, observationViews>>
      PROVE  Readable!LedgerNext
  <2>1. Readable!Settled(d) /\ d \in 1..Len(disputeViews)
    BY <1>5 DEF Readable!Settled, assetViews, assetView, observationViews,
       observationView, disputeViews, disputeView
  <2>2. CASE disputeViews[d].pending
    <3>1. Readable!Confirmed(d)
      BY <1>5, <2>1, <2>2 DEF Readable!Confirmed, Readable!unresolved, disputeViews, disputeView
    <3>. QED
      BY <2>1, <3>1 DEF Readable!LedgerNext, disputeViews, disputeView
  <2>3. CASE ~disputeViews[d].pending
    <3>1. Readable!Proposed(d)
      BY <1>5, <2>1, <2>3 DEF Readable!Proposed, Readable!unresolved, assetViews, assetView,
         disputeViews, disputeView
    <3>. QED
      BY <2>1, <3>1 DEF Readable!LedgerNext, disputeViews, disputeView
  <2>. QED
    BY <2>2, <2>3
<1>. QED
  BY <1>1, <1>2, <1>3, <1>4, <1>5

LedgerStep ==
  Readable!LedgerNext
    \/ UNCHANGED <<now, assetViews, observationViews, disputeViews, openDivergenceOf>>

\* What AssetNFT does of its own: a mint is seen, a move or a wiring is not.
LEMMA LedgerOfTransaction ==
  ASSUME Typed, Typed', AssetTransaction
  PROVE  LedgerStep
<1>1. UNCHANGED <<now, observationViews, disputeViews, openDivergenceOf>>
  BY DEF AssetTransaction, permVars, attVars, divVars, observationViews, disputeViews,
         recorded, detected
<1>2. CASE nextToken' = nextToken
  <2>1. \A t \in 1..(nextToken - 1) : t \in Tokens /\ Exists(t)
    BY AssetAssumption DEF Typed, Shape, TypeOK, NftTypeOK, Tokens
  <2>2. \A t \in 1..(nextToken - 1) : assetView(assets'[t]) = assetView(assets[t])
    BY <2>1, AssetTransactionFields DEF assetView
  <2>3. UNCHANGED assetViews
    BY <1>2, <2>2 DEF assetViews
  <2>. QED
    BY <1>1, <2>3 DEF LedgerStep
<1>3. ASSUME NEW sender \in Accounts, NEW to \in Accounts, NEW i \in Identifiers,
             NEW w \in Windows, NEW h \in BOOLEAN, NEW c \in Accounts \cup {NoAccount},
             Mint(sender, to, i, w, h, c)
      PROVE  LedgerStep
  <2>. SUFFICES ASSUME NEW n, n = nextToken - 1 PROVE LedgerStep
    OBVIOUS
  <2>1. n \in Nat /\ n + 1 = nextToken /\ nextToken \in Tokens /\ nextToken' - 1 = n + 1
    BY <1>3, AssetAssumption DEF Mint, Typed, TypeOK, NftTypeOK, Tokens
  <2>2. /\ assets'[n + 1].freshnessTimestamp = now
        /\ assets'[n + 1].highValue = h
        /\ assets'[n + 1].quarantined = FALSE
        /\ \A u \in Tokens : u # n + 1 => assets'[u] = assets[u]
    BY <1>3, <2>1 DEF Mint, Typed, TypeOK, NftTypeOK
  <2>3. /\ assetViews \in [1..n -> AssetViews] /\ assetViews' \in [1..(n + 1) -> AssetViews]
        /\ Len(assetViews) = n
    <3>1. assetViews \in [1..(nextToken - 1) -> AssetViews] /\ Len(assetViews) = nextToken - 1
      BY ViewsAreSequences, ViewLengths
    <3>2. assetViews' \in [1..(nextToken' - 1) -> AssetViews]
      <4>1. Typed' => ViewsOfAssets'
        BY ViewsTyped
      <4>. QED
        BY <4>1 DEF ViewsOfAssets, AssetViews
    <3>. QED
      BY <2>1, <3>1, <3>2
  <2>4. \A u \in 1..n : assetViews'[u] = assetViews[u]
    <3>1. \A u \in 1..n : u \in Tokens /\ u # n + 1
      BY <2>1, AssetAssumption DEF Tokens
    <3>. QED
      BY <2>1, <2>2, <3>1 DEF assetViews
  <2>5. assetViews'[n + 1] = [fresh |-> now, highValue |-> h, quarantined |-> FALSE]
    <3>1. assetViews'[n + 1] = assetView(assets'[n + 1])
      BY <2>1 DEF assetViews
    <3>. QED
      BY <2>2, <3>1 DEF assetView
  <2>6. assetViews' = Append(assetViews, assetViews'[n + 1])
    BY <2>1, <2>3, <2>4, GrowsByAppend
  <2>7. Len(assetViews) + 1 \in Tokens
    BY <2>1, <2>3
  <2>8. assetViews' = Append(assetViews, [fresh |-> now, highValue |-> h, quarantined |-> FALSE])
    BY <2>5, <2>6
  <2>. QED
    BY <1>1, <2>7, <2>8, LedgerSteps DEF LedgerStep
<1>. QED
  BY <1>2, <1>3 DEF AssetTransaction, NftNext, SetNftDivergenceRegistry,
     SetNftAttestationRegistry, AssignCustody, TransferOwnershipTo, TransferFrom, nftConfig

\* A submitted observation is appended, refreshes its asset and, if it opens a
\* divergence, appends that and quarantines the asset.
LEMMA LedgerOfSubmission ==
  ASSUME Typed, Typed', QuarantineIffOpen, FreshnessCoversEvidence,
         NEW p \in Payloads, SubmitAttestation(p)
  PROVE  LedgerStep
<1>. DEFINE t == p.tokenId
<1>1. /\ t \in Tokens /\ Exists(t) /\ now' = now /\ nextToken' = nextToken
      /\ nextAttestation' = nextAttestation + 1
  BY SubmitFields, SubmitEffects DEF SubmitAttestation, nftConfig, permVars
<1>2. t \in 1..(nextToken - 1) /\ t \in 1..Len(assetViews)
  <2>1. t < nextToken
    BY <1>1 DEF Typed, Shape
  <2>. QED
    BY <1>1, <2>1, ViewLengths, AssetAssumption DEF Tokens, Typed, TypeOK, NftTypeOK
<1>3. observationViews' = Append(observationViews, [of |-> t, tier |-> "tier", at |-> now])
  <2>. SUFFICES ASSUME NEW n, n = nextAttestation - 1
                PROVE  observationViews' = Append(observationViews,
                                                  [of |-> t, tier |-> "tier", at |-> now])
    OBVIOUS
  <2>1. n \in Nat /\ n + 1 = nextAttestation /\ nextAttestation' - 1 = n + 1
    BY <1>1, AttestationAssumption DEF Typed, TypeOK, AttTypeOK
  <2>2. /\ observationViews \in [1..n -> ObservationViews]
        /\ observationViews' \in [1..(n + 1) -> ObservationViews]
    BY <2>1, ViewsTyped DEF ViewsOfObservations, ObservationViews
  <2>3. \A i \in 1..n : observationViews'[i] = observationViews[i]
    BY <2>1, SubmitEffects DEF observationViews, recorded
  <2>4. observationViews'[n + 1] = [of |-> t, tier |-> "tier", at |-> now]
    BY <2>1, SubmitEffects DEF observationViews, recorded, observationView
  <2>5. observationViews' = Append(observationViews, observationViews'[n + 1])
    BY <2>1, <2>2, <2>3, GrowsByAppend
  <2>. QED
    BY <2>4, <2>5
<1>4. ASSUME NEW q \in BOOLEAN,
             \A u \in Tokens : u # t => assets'[u].quarantined = assets[u].quarantined,
             assets'[t].quarantined = (assets[t].quarantined \/ q)
      PROVE  assetViews' = [assetViews EXCEPT ![t].fresh = now, ![t].quarantined = @ \/ q]
  <2>0. \A u \in 1..(nextToken - 1) : u \in Tokens
    BY AssetAssumption DEF Typed, TypeOK, NftTypeOK, Tokens
  <2>1. \A u \in Tokens : /\ assets'[u].highValue = assets[u].highValue
                          /\ assets'[u].freshnessTimestamp =
                               IF u = t /\ now > assets[u].freshnessTimestamp
                               THEN now ELSE assets[u].freshnessTimestamp
    BY SubmitFields
  <2>2. assets'[t].freshnessTimestamp = now
    <3>1. assets[t] \in Asset /\ now \in Times
      BY <1>1, ExistingIsAsset DEF Exists, Typed, TypeOK, NftTypeOK, PermTypeOK
    <3>2. assets[t].freshnessTimestamp \in Int /\ now \in Int
      <4>1. assets[t].freshnessTimestamp \in Times
        BY <3>1 DEF Asset
      <4>. QED
        BY <3>1, <4>1, PermissionsAssumption DEF Times
    <3>3. assets[t].freshnessTimestamp <= now
      BY <1>1 DEF FreshnessCoversEvidence
    <3>. QED
      BY <1>1, <2>1, <3>2, <3>3
  <2>3. /\ assetViews = [u \in 1..(nextToken - 1) |-> assetViews[u]]
        /\ assetViews' = [u \in 1..(nextToken - 1) |-> assetViews'[u]]
    BY <1>1 DEF assetViews
  <2>4. ASSUME NEW u \in 1..(nextToken - 1), u # t PROVE assetViews'[u] = assetViews[u]
    <3>1. assetViews'[u] = assetView(assets'[u]) /\ assetViews[u] = assetView(assets[u])
      BY <1>1, <2>4 DEF assetViews
    <3>. QED
      BY <1>4, <2>0, <2>1, <2>4, <3>1 DEF assetView
  <2>5. /\ assetViews[t] = [fresh |-> assets[t].freshnessTimestamp, highValue |-> assets[t].highValue,
                            quarantined |-> assets[t].quarantined]
        /\ assetViews'[t] = [fresh |-> now, highValue |-> assets[t].highValue,
                             quarantined |-> assets[t].quarantined \/ q]
    <3>1. assetViews'[t] = assetView(assets'[t]) /\ assetViews[t] = assetView(assets[t])
      BY <1>1, <1>2 DEF assetViews
    <3>. QED
      BY <1>1, <1>4, <2>1, <2>2, <3>1 DEF assetView
  <2>. HIDE DEF t
  <2>. DEFINE g == [assetViews EXCEPT ![t].fresh = now]
  <2>6. /\ g = [u \in 1..(nextToken - 1) |-> g[u]]
        /\ \A u \in 1..(nextToken - 1) : u # t => g[u] = assetViews[u]
        /\ g[t] = [fresh |-> now, highValue |-> assets[t].highValue,
                   quarantined |-> assets[t].quarantined]
    <3>1. /\ g = [u \in 1..(nextToken - 1) |-> g[u]]
          /\ \A u \in 1..(nextToken - 1) : u # t => g[u] = assetViews[u]
          /\ g[t] = [assetViews[t] EXCEPT !.fresh = now]
      BY <1>2, <2>3
    <3>. HIDE DEF g
    <3>2. [assetViews[t] EXCEPT !.fresh = now] = [fresh |-> now, highValue |-> assets[t].highValue,
                                                  quarantined |-> assets[t].quarantined]
      BY <2>5
    <3>. QED
      BY <3>1, <3>2
  <2>7. [assetViews EXCEPT ![t].fresh = now, ![t].quarantined = @ \/ q]
          = [g EXCEPT ![t].quarantined = @ \/ q]
    OBVIOUS
  <2>. HIDE DEF g
  <2>8. assetViews' = [g EXCEPT ![t].quarantined = @ \/ q]
    BY <1>2, <2>3, <2>4, <2>5, <2>6
  <2>. QED
    BY <2>7, <2>8
<1>5. CASE Unremarkable(p)
  <2>1. UNCHANGED <<disputeViews, openDivergenceOf>>
    BY <1>5 DEF Unremarkable, divVars, disputeViews, detected
  <2>2. \A u \in Tokens : assets'[u].quarantined = assets[u].quarantined
    BY <1>5, SubmitFields
  <2>3. assetViews' = [assetViews EXCEPT ![t].fresh = now, ![t].quarantined = @ \/ FALSE]
    <3>1. assets[t].quarantined \in BOOLEAN
      BY <1>1, ExistingIsAsset DEF Exists, Asset, Typed, TypeOK, NftTypeOK
    <3>2. assets'[t].quarantined = (assets[t].quarantined \/ FALSE)
      BY <1>1, <2>2, <3>1
    <3>. QED
      BY <1>4, <2>2, <3>2
  <2>. QED
    BY <1>1, <1>2, <1>3, <2>1, <2>3, LedgerSteps DEF LedgerStep
<1>6. ASSUME NEW a, Detection(p, a) PROVE LedgerStep
  <2>. SUFFICES ASSUME NEW n, n = nextDivergence - 1 PROVE LedgerStep
    OBVIOUS
  <2>1. /\ n \in Nat /\ n + 1 = nextDivergence /\ nextDivergence' - 1 = n + 1
        /\ openDivergenceOf[t] = 0
        /\ a \in recorded /\ attestations[a].tokenId = t
    BY <1>6, DivergenceAssumption
    DEF Detection, Typed, TypeOK, DivTypeOK, rivals, attestationsOf, observation
  <2>2. assetViews' = [assetViews EXCEPT ![t].fresh = now, ![t].quarantined = @ \/ TRUE]
    <3>1. \A u \in Tokens :
            assets'[u].quarantined = (IF u = t THEN TRUE ELSE assets[u].quarantined)
      BY <1>6, SubmitFields
    <3>. QED
      BY <1>1, <1>4, <3>1
  <2>3. \E i \in 1..Len(observationViews) : observationViews[i].of = t
    <3>1. a \in 1..Len(observationViews)
      BY <2>1, ViewLengths DEF recorded
    <3>2. observationViews[a].of = t
      BY <2>1 DEF observationViews, observationView
    <3>. QED
      BY <3>1, <3>2
  <2>4. /\ disputeViews \in [1..n -> DisputeViews]
        /\ disputeViews' \in [1..(n + 1) -> DisputeViews]
    BY <2>1, ViewsTyped DEF ViewsOfDisputes, DisputeViews
  <2>5. \A d \in 1..n : disputeViews'[d] = disputeViews[d]
    <3>1. \A d \in detected : records'[d] = records[d]
      BY SubmitEffects
    <3>. QED
      BY <2>1, <3>1 DEF disputeViews, detected
  <2>6. disputeViews'[n + 1] = [of |-> t, pending |-> FALSE, resolved |-> FALSE]
    <3>1. records'[nextDivergence] =
            [tokenId |-> p.tokenId, attestationA |-> a, attestationB |-> nextAttestation,
             detectedAt |-> now, resolved |-> FALSE, resolvedAt |-> 0,
             proposer |-> NoAccount, confirmer |-> NoAccount,
             acceptedCustodian |-> NoAccount, pending |-> FALSE]
      BY <1>6, DetectionExtends
    <3>2. disputeViews'[n + 1] = disputeView(records'[nextDivergence])
      BY <2>1 DEF disputeViews, detected
    <3>. QED
      BY <3>1, <3>2 DEF disputeView
  <2>7. disputeViews' = Append(disputeViews, disputeViews'[n + 1])
    BY <2>1, <2>4, <2>5, GrowsByAppend
  <2>8. Len(disputeViews') = nextDivergence
    BY <2>1, <2>4, FunctionIsSequence
  <2>9. openDivergenceOf' = [openDivergenceOf EXCEPT ![t] = Len(disputeViews')]
    BY <1>6, <2>8 DEF Detection
  <2>. QED
    BY <1>1, <1>2, <1>3, <2>1, <2>2, <2>3, <2>6, <2>7, <2>9, LedgerSteps DEF LedgerStep
<1>. QED
  BY <1>5, <1>6, SubmitOutcomes

\* A divergence that is open is one of the disputes, about an asset that shows.
LEMMA OpenDispute ==
  ASSUME Typed, NEW d, requireOpen(d)
  PROVE  /\ d \in detected /\ d \in 1..Len(disputeViews)
         /\ disputeViews[d] = [of |-> records[d].tokenId, pending |-> records[d].pending,
                               resolved |-> records[d].resolved]
         /\ disputeViews[d].of = records[d].tokenId /\ ~disputeViews[d].resolved
<1>1. d \in detected /\ ~records[d].resolved
  BY OpenRecord
<1>2. d \in 1..Len(disputeViews)
  BY <1>1, ViewLengths DEF detected
<1>3. disputeViews[d] = disputeView(records[d])
  BY <1>1 DEF disputeViews
<1>. QED
  BY <1>1, <1>2, <1>3 DEF disputeView

LEMMA DisputedAsset ==
  ASSUME Typed, NEW d, requireOpen(d), NEW t, t = records[d].tokenId
  PROVE  /\ t \in Tokens /\ t \in 1..(nextToken - 1)
         /\ assetViews[t] = [fresh |-> assets[t].freshnessTimestamp,
                             highValue |-> assets[t].highValue,
                             quarantined |-> assets[t].quarantined]
         /\ assetViews[t].highValue = assets[t].highValue
<1>1. t \in Tokens /\ Exists(t)
  BY OpenRecord
<1>2. t \in 1..(nextToken - 1)
  BY <1>1, AssetAssumption DEF Typed, Shape, TypeOK, NftTypeOK, Tokens
<1>3. assetViews[t] = assetView(assets[t])
  BY <1>2 DEF assetViews
<1>. QED
  BY <1>1, <1>2, <1>3 DEF assetView

LEMMA LedgerOfProposal ==
  ASSUME Typed, NEW d, NEW sender, NEW c, Proposes(d, sender, c)
  PROVE  LedgerStep
<1>. SUFFICES ASSUME NEW t, t = records[d].tokenId PROVE LedgerStep
  OBVIOUS
<1>1. requireOpen(d) /\ UNCHANGED nftConfig
  BY DEF Proposes
<1>2. /\ detected' = detected /\ \A e \in detected : e # d => records'[e] = records[e]
      /\ records'[d].tokenId = t /\ records'[d].resolved = records[d].resolved
      /\ records'[d].pending = TRUE
      /\ assets[t].highValue
      /\ UNCHANGED <<assets, openDivergenceOf, permVars, attVars>>
  BY ProposesFields
<1>3. /\ d \in detected /\ d \in 1..Len(disputeViews)
      /\ disputeViews[d] = [of |-> t, pending |-> records[d].pending,
                            resolved |-> records[d].resolved]
      /\ ~disputeViews[d].resolved /\ disputeViews[d].of = t
      /\ assetViews[t].highValue = assets[t].highValue
  BY <1>1, OpenDispute, DisputedAsset
<1>4. ~disputeViews[d].pending
  BY <1>3 DEF Proposes
<1>5. disputeViews' = [disputeViews EXCEPT ![d].pending = TRUE]
  <2>1. /\ disputeViews = [e \in detected |-> disputeViews[e]]
        /\ disputeViews' = [e \in detected |-> disputeViews'[e]]
        /\ \A e \in detected : e # d => disputeViews'[e] = disputeViews[e]
    BY <1>2 DEF disputeViews
  <2>2. disputeViews'[d] = [of |-> t, pending |-> TRUE, resolved |-> records[d].resolved]
    <3>1. disputeViews'[d] = disputeView(records'[d])
      BY <1>2, <1>3 DEF disputeViews
    <3>. QED
      BY <1>2, <3>1 DEF disputeView
  <2>. DEFINE g == [disputeViews EXCEPT ![d].pending = TRUE]
  <2>3. /\ g = [e \in detected |-> g[e]] /\ \A e \in detected : e # d => g[e] = disputeViews[e]
        /\ g[d] = [disputeViews[d] EXCEPT !.pending = TRUE]
    BY <1>3, <2>1
  <2>. HIDE DEF g
  <2>4. g[d] = [of |-> t, pending |-> TRUE, resolved |-> records[d].resolved]
    BY <1>3, <2>3
  <2>5. disputeViews' = g
    BY <2>1, <2>2, <2>3, <2>4
  <2>. QED
    BY <2>5 DEF g
<1>6. UNCHANGED <<now, assetViews, observationViews>>
  BY <1>1, <1>2 DEF permVars, attVars, nftConfig, assetViews, observationViews, recorded
<1>. QED
  BY <1>2, <1>3, <1>4, <1>5, <1>6, LedgerSteps DEF LedgerStep

LEMMA LedgerOfResolution ==
  ASSUME Typed, NEW d, NEW rec, NEW sender, Resolves(d, rec, sender)
  PROVE  LedgerStep
<1>. SUFFICES ASSUME NEW t, t = records[d].tokenId PROVE LedgerStep
  OBVIOUS
<1>1. /\ requireOpen(d) /\ UNCHANGED nftConfig
      /\ records[d].pending \/ ~assets[t].highValue
      /\ openDivergenceOf' = [openDivergenceOf EXCEPT ![t] = 0]
  BY DEF Resolves, Finalization
<1>2. /\ detected' = detected /\ \A e \in detected : e # d => records'[e] = records[e]
      /\ records'[d].tokenId = t /\ records'[d].resolved = TRUE /\ records'[d].pending = FALSE
      /\ UNCHANGED <<permVars, attVars>>
  BY ResolvesFields
<1>3. /\ d \in detected /\ d \in 1..Len(disputeViews) /\ t \in Tokens
      /\ t \in 1..(nextToken - 1)
      /\ disputeViews[d] = [of |-> t, pending |-> records[d].pending,
                            resolved |-> records[d].resolved]
      /\ ~disputeViews[d].resolved /\ disputeViews[d].of = t
      /\ assetViews[t] = [fresh |-> assets[t].freshnessTimestamp,
                          highValue |-> assets[t].highValue,
                          quarantined |-> assets[t].quarantined]
      /\ assetViews[t].highValue = assets[t].highValue
  BY <1>1, OpenDispute, DisputedAsset
<1>4. disputeViews[d].pending = records[d].pending
  BY <1>3
<1>5. disputeViews' = [disputeViews EXCEPT ![d].pending = FALSE, ![d].resolved = TRUE]
  <2>1. /\ disputeViews = [e \in detected |-> disputeViews[e]]
        /\ disputeViews' = [e \in detected |-> disputeViews'[e]]
        /\ \A e \in detected : e # d => disputeViews'[e] = disputeViews[e]
    BY <1>2 DEF disputeViews
  <2>2. disputeViews'[d] = [of |-> t, pending |-> FALSE, resolved |-> TRUE]
    <3>1. disputeViews'[d] = disputeView(records'[d])
      BY <1>2, <1>3 DEF disputeViews
    <3>. QED
      BY <1>2, <3>1 DEF disputeView
  <2>. DEFINE g == [disputeViews EXCEPT ![d].pending = FALSE]
  <2>3. /\ g = [e \in detected |-> g[e]] /\ \A e \in detected : e # d => g[e] = disputeViews[e]
        /\ g[d] = [disputeViews[d] EXCEPT !.pending = FALSE]
    BY <1>3, <2>1
  <2>4. [disputeViews EXCEPT ![d].pending = FALSE, ![d].resolved = TRUE] = [g EXCEPT ![d].resolved = TRUE]
    OBVIOUS
  <2>. HIDE DEF g
  <2>5. g[d] = [of |-> t, pending |-> FALSE, resolved |-> records[d].resolved]
    BY <1>3, <2>3
  <2>6. disputeViews' = [g EXCEPT ![d].resolved = TRUE]
    BY <1>3, <2>1, <2>2, <2>3, <2>5
  <2>. QED
    BY <2>4, <2>6
<1>6. assetViews' = [assetViews EXCEPT ![t].fresh = now, ![t].quarantined = FALSE]
  <2>1. assetViews' = [u \in 1..(nextToken - 1) |-> assetView(assets'[u])]
    BY <1>1 DEF nftConfig, assetViews
  <2>2. \A u \in Tokens :
          /\ u # t => assets'[u] = assets[u]
          /\ u = t => ~assets'[u].quarantined /\ assets'[u].freshnessTimestamp = now
    BY ResolvesTokens
  <2>3. assets'[t].highValue = assets[t].highValue /\ assets'[t].quarantined = FALSE
    <3>1. assets' = applyReconciledState(assets, t, rec.acceptedCustodian)
      BY DEF Resolves, Finalization
    <3>2. assets[t] \in Asset /\ assets \in [Tokens -> Asset \cup {NoAsset}]
      BY <1>1, OpenRecord, ExistingIsAsset DEF Exists, Typed, TypeOK, NftTypeOK
    <3>. QED
      BY <1>3, <3>1, <3>2 DEF applyReconciledState, Asset
  <2>4. /\ assetViews = [u \in 1..(nextToken - 1) |-> assetViews[u]]
        /\ assetViews' = [u \in 1..(nextToken - 1) |-> assetViews'[u]]
    BY <2>1 DEF assetViews
  <2>5. ASSUME NEW u \in 1..(nextToken - 1), u # t PROVE assetViews'[u] = assetViews[u]
    <3>1. u \in Tokens
      BY AssetAssumption DEF Typed, TypeOK, NftTypeOK, Tokens
    <3>. QED
      BY <2>1, <2>2, <2>5, <3>1 DEF assetViews
  <2>6. assetViews'[t] = [fresh |-> now, highValue |-> assets[t].highValue, quarantined |-> FALSE]
    BY <1>3, <2>1, <2>2, <2>3 DEF assetView
  <2>. DEFINE g == [assetViews EXCEPT ![t].fresh = now]
  <2>7. /\ g = [u \in 1..(nextToken - 1) |-> g[u]]
        /\ \A u \in 1..(nextToken - 1) : u # t => g[u] = assetViews[u]
        /\ g[t] = [assetViews[t] EXCEPT !.fresh = now]
    BY <1>3, <2>4
  <2>8. [assetViews EXCEPT ![t].fresh = now, ![t].quarantined = FALSE] = [g EXCEPT ![t].quarantined = FALSE]
    OBVIOUS
  <2>. HIDE DEF g
  <2>9. g[t] = [fresh |-> now, highValue |-> assets[t].highValue, quarantined |-> assets[t].quarantined]
    BY <1>3, <2>7
  <2>10. assetViews' = [g EXCEPT ![t].quarantined = FALSE]
    BY <1>3, <2>4, <2>5, <2>6, <2>7, <2>9
  <2>. QED
    BY <2>8, <2>10
<1>7. UNCHANGED <<now, observationViews>>
  BY <1>2 DEF permVars, attVars, observationViews, recorded
<1>8. disputeViews[d].pending \/ ~assetViews[disputeViews[d].of].highValue
  BY <1>1, <1>3, <1>4
<1>. QED
  BY <1>1, <1>3, <1>5, <1>6, <1>7, <1>8, LedgerSteps DEF LedgerStep

LEMMA LedgerStepHolds ==
  Typed /\ Typed' /\ QuarantineIffOpen /\ FreshnessCoversEvidence /\ [Next]_vars => LedgerStep
<1>. SUFFICES ASSUME Typed, Typed', QuarantineIffOpen, FreshnessCoversEvidence, [Next]_vars
              PROVE  LedgerStep
  OBVIOUS
<1>1. ASSUME UNCHANGED <<nftVars, attestations, nextAttestation, divVars>>, now' = now \/ now' = now + 1
      PROVE  LedgerStep
  <2>1. UNCHANGED <<assetViews, observationViews, disputeViews, openDivergenceOf>>
    BY <1>1 DEF nftVars, nftConfig, divVars, assetViews, observationViews, disputeViews,
       recorded, detected
  <2>. QED
    BY <1>1, <2>1, LedgerSteps DEF LedgerStep
<1>2. CASE \/ UNCHANGED vars \/ PermissionChange
           \/ \E sender \in Accounts : WireDivergenceRegistry(sender)
  BY <1>1, <1>2 DEF vars, PermissionChange, PermNext, Tick, RoleGranted, RoleLost, ControllerBound,
     ControllerLost, ControllerRotated, WireDivergenceRegistry, SetAttDivergenceRegistry,
     permVars, attVars
<1>3. CASE AssetTransaction
  BY <1>3, LedgerOfTransaction
<1>4. CASE \E p \in Payloads : SubmitAttestation(p)
  BY <1>4, LedgerOfSubmission
<1>5. CASE \E sender \in Accounts, d \in DivergenceIds :
             Confirm(sender, d) \/ \E c \in Accounts : Propose(sender, d, c)
  BY <1>5, ReconciliationKinds, LedgerOfProposal, LedgerOfResolution
<1>. QED
  BY <1>2, <1>3, <1>4, <1>5 DEF Next

\* Whatever the contracts do, what the readers of the chain see of them is a
\* behaviour of Ledger, over which the backend's public reads and the portal
\* are modelled.
THEOREM LedgerIsShown == Spec \/ DeployedSpec => ShowsLedger
<1>1. Started => Readable!LedgerInit
  <2>1. Started => /\ now = 0 /\ nextToken = 1 /\ nextAttestation = 1 /\ nextDivergence = 1
                   /\ openDivergenceOf = [t \in Tokens |-> 0]
    BY DEF Started, Init, DeployedInit, PermInit, NftInit, AttInit, DivInit
  <2>2. ASSUME NEW f, DOMAIN f = {}, f = [x \in DOMAIN f |-> f[x]] PROVE f = <<>>
    BY <2>2
  <2>. QED
    BY <2>1 DEF Readable!LedgerInit, recorded, detected
<1>2. Typed /\ Typed' /\ QuarantineIffOpen /\ FreshnessCoversEvidence /\ [Next]_vars
        => [Readable!LedgerNext]_(Readable!ledgerVars)
  BY LedgerStepHolds
  DEF LedgerStep, Readable!ledgerVars, assetViews, assetView, observationViews, observationView,
      disputeViews, disputeView
<1>. QED
  BY <1>1, <1>2, AlwaysTyped, QuarantineMatchesDivergence, FreshnessIsEarned, PTL
  DEF Spec, DeployedSpec, Started, ShowsLedger, Readable!LedgerSpec

=============================================================================
