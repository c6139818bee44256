------------------------ MODULE AttestationRegistry ------------------------
(***************************************************************************)
(* contracts/src/AttestationRegistry.sol: the append-only log of signed     *)
(* observations.  Observers sign payloads off chain, and whoever holds a    *)
(* signed payload may submit it, at any time and any number of times, so    *)
(* the payloads that are ever signed are a constant and the signature check *)
(* is membership in it.  submitAttestation ends with a call of              *)
(* DivergenceRegistry; the action is completed in AssetTrust.               *)
(***************************************************************************)
EXTENDS AssetNFT

CONSTANTS
  Payloads,        \* every payload an observer ever signs
  Nonces,
  Locations,       \* hashes of observed locations
  Conditions,      \* Unknown, Good, Damaged, Missing
  MaxAttestation   \* bound on the number of recorded attestations

AttestationIds == 1..MaxAttestation

Payload ==
  [observer : Accounts, tokenId : Tokens, custodian : Accounts,
   locationId : Locations, condition : Conditions, nonce : Nonces, validUntil : Nat]

ASSUME AttestationAssumption ==
  /\ Payloads \subseteq Payload
  /\ MaxAttestation \in Nat

VARIABLES
  attestations,     \* _attestations: the payload and the block time it was recorded at
  nextAttestation,  \* _nextId
  nonceUsed,        \* the nonces for which the mapping is true
  divergenceFrom    \* 0 while divergenceRegistry is unset, then the first id
                    \* that onAttestation is called for

attVars == <<attestations, nextAttestation, nonceUsed, divergenceFrom>>

NoAttestation == [tokenId |-> 0]

Attestation ==
  [observer : Accounts, tokenId : Tokens, custodian : Accounts, locationId : Locations,
   condition : Conditions, nonce : Nonces, timestamp : Times]

AttTypeOK ==
  /\ attestations \in [AttestationIds -> Attestation \cup {NoAttestation}]
  /\ nextAttestation \in 1..(MaxAttestation + 1)
  /\ nonceUsed \subseteq Nonces
  /\ divergenceFrom \in 0..(MaxAttestation + 1)

AttInit ==
  /\ attestations = [i \in AttestationIds |-> NoAttestation]
  /\ nextAttestation = 1
  /\ nonceUsed = {}
  /\ divergenceFrom = 0

recorded == 1..(nextAttestation - 1)
attestationsOf(t) == {i \in recorded : attestations[i].tokenId = t}

authorizedObserver(account) == \E role \in {ADMIN, MANAGER, USER} : hasActiveRole(account, role)

observation(p) ==
  [observer |-> p.observer, tokenId |-> p.tokenId, custodian |-> p.custodian,
   locationId |-> p.locationId, condition |-> p.condition, nonce |-> p.nonce,
   timestamp |-> now]

-----------------------------------------------------------------------------
SetAttDivergenceRegistry(sender) ==
  /\ hasActiveRole(sender, ADMIN)
  /\ divergenceFrom = 0
  /\ divergenceFrom' = nextAttestation
  /\ UNCHANGED <<attestations, nextAttestation, nonceUsed>>

\* Mutation: a used nonce is not refused.
acceptableAgain(p) ==
  /\ Exists(p.tokenId)
  /\ now <= p.validUntil
  /\ authorizedObserver(p.observer)
  /\ isActiveController(p.observer)

\* The guards of submitAttestation.
acceptable(p) ==
  /\ Exists(p.tokenId)
  /\ p.nonce \notin nonceUsed
  /\ now <= p.validUntil
  /\ authorizedObserver(p.observer)
  /\ isActiveController(p.observer)

\* submitAttestation up to its call of updateFreshness, which reverts while
\* AssetNFT does not know this registry.
record(p) ==
  /\ acceptable(p)
  /\ nftAttestationWired
  /\ nextAttestation <= MaxAttestation
  /\ nonceUsed' = nonceUsed \cup {p.nonce}
  /\ attestations' = [attestations EXCEPT ![nextAttestation] = observation(p)]
  /\ nextAttestation' = nextAttestation + 1
  /\ UNCHANGED divergenceFrom
=============================================================================
