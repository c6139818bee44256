------------------------------ MODULE AssetNFT ------------------------------
(***************************************************************************)
(* contracts/src/AssetNFT.sol: the asset record, its owner, custodian,      *)
(* freshness and quarantine flag.  setQuarantine, applyReconciledState and  *)
(* updateFreshness are calls of the two registries inside a transaction of  *)
(* theirs, so they are operators from an asset table to an asset table; the *)
(* registries' actions compose them.  Every account is externally owned:    *)
(* the ERC-721 receiver callback and the reentrancy guard play no part.     *)
(***************************************************************************)
EXTENDS Permissions

CONSTANTS
  Identifiers,    \* asset identifier commitments
  Windows,        \* freshness windows an Admin may ask for; 0 asks for the default
  DefaultWindow,  \* seven days
  MaxToken        \* bound on the number of tokens

Tokens == 1..MaxToken
NoIdentifier == "none"

ASSUME AssetAssumption ==
  /\ MaxToken \in Nat
  /\ Windows \subseteq Nat
  /\ DefaultWindow \in Nat \ {0}
  /\ NoIdentifier \notin Identifiers

VARIABLES
  assets,               \* _assets, together with ERC721's owner of each token
  nextToken,            \* _nextId
  tokenByIdentifier,    \* 0 while the identifier is free
  nftDivergenceWired,   \* divergenceRegistry != address(0)
  nftAttestationWired   \* attestationRegistry != address(0)

nftConfig == <<nextToken, tokenByIdentifier, nftDivergenceWired, nftAttestationWired>>
nftVars   == <<assets, nftConfig>>

NoAsset ==
  [assetIdentifier |-> NoIdentifier, owner |-> NoAccount, custodian |-> NoAccount,
   freshnessTimestamp |-> 0, freshnessWindow |-> 0,
   quarantined |-> FALSE, highValue |-> FALSE, exists |-> FALSE]

Asset ==
  [assetIdentifier : Identifiers, owner : Accounts, custodian : Accounts,
   freshnessTimestamp : Times, freshnessWindow : Nat,
   quarantined : BOOLEAN, highValue : BOOLEAN, exists : {TRUE}]

NftTypeOK ==
  /\ assets \in [Tokens -> Asset \cup {NoAsset}]
  /\ nextToken \in 1..(MaxToken + 1)
  /\ tokenByIdentifier \in [Identifiers -> 0..MaxToken]
  /\ nftDivergenceWired \in BOOLEAN
  /\ nftAttestationWired \in BOOLEAN

NftInit ==
  /\ assets = [t \in Tokens |-> NoAsset]
  /\ nextToken = 1
  /\ tokenByIdentifier = [i \in Identifiers |-> 0]
  /\ nftDivergenceWired = FALSE
  /\ nftAttestationWired = FALSE

Exists(t) == assets[t].exists

-----------------------------------------------------------------------------
\* Calls of the registries: functions of the asset table.
setQuarantine(table, t, flag) == [table EXCEPT ![t].quarantined = flag]

\* Mutations: a release that leaves the custodian, or the freshness, as it was.
releaseInPlace(table, t, newCustodian) == [table EXCEPT ![t].quarantined = FALSE,
                                                        ![t].freshnessTimestamp = now]
releaseStale(table, t, newCustodian) == [table EXCEPT ![t].custodian = newCustodian,
                                                      ![t].quarantined = FALSE]

applyReconciledState(table, t, newCustodian) ==
  [table EXCEPT ![t].custodian = newCustodian,
                ![t].quarantined = FALSE,
                ![t].freshnessTimestamp = now]

updateFreshness(table, t, observedAt) ==
  IF observedAt > table[t].freshnessTimestamp
  THEN [table EXCEPT ![t].freshnessTimestamp = observedAt]
  ELSE table

-----------------------------------------------------------------------------
\* Transactions of AssetNFT.
SetNftDivergenceRegistry(sender) ==
  /\ hasActiveRole(sender, ADMIN)
  /\ ~nftDivergenceWired
  /\ nftDivergenceWired' = TRUE
  /\ UNCHANGED <<assets, nextToken, tokenByIdentifier, nftAttestationWired>>

SetNftAttestationRegistry(sender) ==
  /\ hasActiveRole(sender, ADMIN)
  /\ ~nftAttestationWired
  /\ nftAttestationWired' = TRUE
  /\ UNCHANGED <<assets, nextToken, tokenByIdentifier, nftDivergenceWired>>

\* Mutation: the identifier index is never consulted.
identifierUnchecked(identifier) == TRUE
identifierFree(identifier) == tokenByIdentifier[identifier] = 0

\* Mutation: an omitted custodian stays the zero address.
asGiven(custodian, to) == custodian
custodianOrOwner(custodian, to) == IF custodian = NoAccount THEN to ELSE custodian

Mint(sender, to, identifier, window, highValue, custodian) ==
  /\ hasActiveRole(sender, ADMIN)
  /\ identifierFree(identifier)
  /\ nextToken <= MaxToken
  /\ nextToken' = nextToken + 1
  /\ assets' = [assets EXCEPT ![nextToken] =
       [assetIdentifier |-> identifier, owner |-> to,
        custodian |-> custodianOrOwner(custodian, to),
        freshnessTimestamp |-> now,
        freshnessWindow |-> IF window = 0 THEN DefaultWindow ELSE window,
        quarantined |-> FALSE, highValue |-> highValue, exists |-> TRUE]]
  /\ tokenByIdentifier' = [tokenByIdentifier EXCEPT ![identifier] = nextToken]
  /\ UNCHANGED <<nftDivergenceWired, nftAttestationWired>>

\* Mutation: quarantine does not stop a move.
existing(t) == Exists(t)
movable(t) == Exists(t) /\ ~assets[t].quarantined

\* allocate and transferCustody have the same body.
AssignCustody(sender, t, newCustodian) ==
  /\ adminOrManager(sender)
  /\ movable(t)
  /\ assets' = [assets EXCEPT ![t].custodian = newCustodian]
  /\ UNCHANGED nftConfig

\* ERC721's move of a token that has an owner, through the _update override.
update(t, to) ==
  /\ movable(t)
  /\ assets' = [assets EXCEPT ![t].owner = to]

TransferOwnershipTo(sender, t, newOwner) ==
  /\ adminOrManager(sender)
  /\ update(t, newOwner)
  /\ UNCHANGED nftConfig

\* transferFrom and safeTransferFrom: approvals are disabled, so the sender
\* must own the token as well as hold a role.
TransferFrom(sender, t, to) ==
  /\ adminOrManager(sender)
  /\ assets[t].owner = sender
  /\ update(t, to)
  /\ UNCHANGED nftConfig

NftNext ==
  \E sender \in Accounts :
    \/ SetNftDivergenceRegistry(sender)
    \/ SetNftAttestationRegistry(sender)
    \/ \E to \in Accounts, i \in Identifiers, w \in Windows, h \in BOOLEAN,
          c \in Accounts \cup {NoAccount} : Mint(sender, to, i, w, h, c)
    \/ \E t \in Tokens, c \in Accounts :
         \/ AssignCustody(sender, t, c)
         \/ TransferOwnershipTo(sender, t, c)
         \/ TransferFrom(sender, t, c)
=============================================================================
