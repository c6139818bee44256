--------------------------- MODULE Indexer_proofs ---------------------------
(***************************************************************************)
(* Proofs about Indexer, for any parties, span of a batch and bounds.       *)
(***************************************************************************)
EXTENDS Indexer, TLAPS

Row == [indexed : BOOLEAN, owner : Parties \cup {Nobody}, custodian : Parties \cup {Nobody},
        quarantined : BOOLEAN, fresh : 0..MaxBlock]

LEMMA EmittedType ==
  ASSUME NEW contract, NEW kind, NEW party \in Parties \cup {Nobody},
         NEW custodian \in Parties \cup {Nobody}, NEW id \in Nat,
         contract \in {"RoleManager", "DIDRegistry", "AssetNFT", "AttestationRegistry",
                       "DivergenceRegistry"},
         kind \in {"RoleGranted", "RoleExpirySet", "RoleRevoked", "DIDRegistered", "KeyRotated",
                   "DIDRevoked", "AssetMinted", "AssetTransferred", "AssetAllocated",
                   "AssetQuarantined", "AssetReconciled", "AttestationRecorded",
                   "DivergenceDetected"}
  PROVE  emitted(contract, kind, party, custodian, id) \in Event
BY DEF emitted, Event

LEMMA OnRoleType ==
  ASSUME NEW kind \in {"RoleGranted", "RoleExpirySet", "RoleRevoked"}, NEW r \in Roles,
         NEW timed \in BOOLEAN
  PROVE  onRole(kind, r, timed) \in Event
BY DEF onRole, Event

\* A transaction that leaves the count of transactions to Transact.
LEMMA TransactType ==
  ASSUME pending \in Block, NEW about, NEW E \in Seq(Event), NEW s \in State,
         Transact(about, E, s), s.txs = now.txs
  PROVE  UNCHANGED <<topic, blocks>> /\ pending' \in Block
<1>1. pending.state \in State /\ pending.events \in Seq(Event)
  BY DEF Block
<1>2. s.txs + 1 \in 0..MaxTxs
  BY EventsAssumption, <1>1 DEF Transact, State, now
<1>3. [s EXCEPT !.txs = @ + 1] \in State
  BY <1>2 DEF State
<1>4. pending.events \o E \in Seq(Event)
  BY <1>1
<1>. QED
  BY <1>3, <1>4 DEF Transact, Block

-----------------------------------------------------------------------------
\* The parts of the chain's state that the audit reconstructs one by one: the
\* kinds of events that set it, what such an event tells, and the part itself.
OwnerKinds      == {"AssetMinted", "AssetTransferred"}
CustodianKinds  == {"AssetMinted", "AssetAllocated", "AssetReconciled"}
QuarantineKinds == {"AssetQuarantined", "DivergenceDetected", "AssetReconciled"}
SeenKinds       == {"AttestationRecorded"}
RoleKinds       == {"RoleGranted", "RoleExpirySet", "RoleRevoked"}

ownerTold      == [e \in Event |-> e.party]
custodianTold  == [e \in Event |-> e.custodian]
quarantineTold == [e \in Event |-> e.kind # "AssetReconciled"]
seenTold       == [e \in Event |-> e.id]

ownerIn      == [s \in State |-> s.owner]
custodianIn  == [s \in State |-> s.custodian]
quarantineIn == [s \in State |-> s.quarantined]
seenIn       == [s \in State |-> s.seen]
heldIn(s)    == {r \in Roles : s.roles[r] # "none"}

\* The events of a transaction tell of a part if and only if it changes it, and
\* then all of them tell its new value.
eventsOf(N) == {N[i] : i \in DOMAIN N}
Tells(S, kinds, told, before, then) ==
  /\ \A e \in S : e.kind \in kinds => told[e] = then
  /\ (\A e \in S : e.kind \notin kinds) => then = before

\* For roles, a grant tells of one that is held from then on, a revocation of
\* the one that is lost.
RoleTold(e, s, then) ==
  IF e.kind = "RoleRevoked" THEN e.role \in heldIn(s) /\ heldIn(then) = heldIn(s) \ {e.role}
                            ELSE e.role \in heldIn(then)
RolesTold(S, s, then) ==
  /\ \A e \in S : e.kind \in RoleKinds => RoleTold(e, s, then)
  /\ (\A e \in S : e.kind \notin RoleKinds) => heldIn(then) = heldIn(s)

Explained(S, s, then) ==
  /\ Tells(S, OwnerKinds, ownerTold, s.owner, then.owner)
  /\ Tells(S, CustodianKinds, custodianTold, s.custodian, then.custodian)
  /\ Tells(S, QuarantineKinds, quarantineTold, s.quarantined, then.quarantined)
  /\ Tells(S, SeenKinds, seenTold, s.seen, then.seen)
  /\ RolesTold(S, s, then)

\* What the derived tables are compared with later: the value that the last of
\* a transaction's events of some sort, at the indices I, leaves of a part.
LeavesLast(N, I, told, was, is) ==
  \/ I = {} /\ is = was
  \/ \E i \in I : (\A j \in I : j <= i) /\ is = told[N[i]]

HoldKinds    == {"AssetQuarantined", "AssetReconciled"}
FreshKinds   == {"AssetMinted", "AttestationRecorded", "AssetReconciled"}
StatusKinds  == {"DIDRegistered", "DIDRevoked"}
ControlKinds == {"DIDRegistered", "KeyRotated"}
DidKinds     == {"DIDRegistered", "KeyRotated", "DIDRevoked"}
AfterMint    == {"AssetTransferred", "AssetAllocated", "AssetQuarantined", "AssetReconciled",
                 "AttestationRecorded", "DivergenceDetected"}

holdOf(quarantined) == IF quarantined THEN "held" ELSE "free"
holdTold   == [e \in Event |-> holdOf(e.kind = "AssetQuarantined")]
statusTold == [e \in Event |-> IF e.kind = "DIDRegistered" THEN "Active" ELSE "Revoked"]
termTold   == [e \in Event |-> CASE e.kind = "RoleGranted"   -> "unset"
                                 [] e.kind = "RoleExpirySet" -> IF e.timed THEN "timed" ELSE "plain"
                                 [] OTHER                    -> "none"]

ofKinds(N, kinds) == {i \in DOMAIN N : N[i].kind \in kinds}
ofRole(N, r)      == {i \in ofKinds(N, RoleKinds) : N[i].role = r}
lastCase(s)       == IF s.quarantined THEN {s.cases} ELSE {}

\* The contract that emits an event.
Placed(e) ==
  CASE e.kind \in RoleKinds             -> e.contract = "RoleManager"
    [] e.kind \in DidKinds              -> e.contract = "DIDRegistry"
    [] e.kind = "AttestationRecorded"   -> e.contract = "AttestationRegistry"
    [] e.kind = "DivergenceDetected"    -> e.contract = "DivergenceRegistry"
    [] e.kind = "AssetReconciled"       -> e.contract \in {"AssetNFT", "DivergenceRegistry"}
    [] OTHER                            -> e.contract = "AssetNFT"

\* The asset's parts, the token's mint, and its divergences: one opens on a free
\* token and a release ends it.
FollowsParts(N, b, s, then) ==
  /\ LeavesLast(N, ofKinds(N, OwnerKinds), ownerTold, s.owner, then.owner)
  /\ LeavesLast(N, ofKinds(N, CustodianKinds), custodianTold, s.custodian, then.custodian)
  /\ LeavesLast(N, ofKinds(N, HoldKinds), holdTold, holdOf(s.quarantined), holdOf(then.quarantined))
  /\ LeavesLast(N, ofKinds(N, FreshKinds), [e \in Event |-> b], s.fresh, then.fresh)
  /\ {N[i].id : i \in ofKinds(N, SeenKinds)} = (s.seen + 1)..then.seen /\ s.seen <= then.seen
FollowsMint(N, s, then) ==
  /\ ofKinds(N, {"AssetMinted"}) = {} => then.minted = s.minted
  /\ ofKinds(N, {"AssetMinted"}) # {} => ~s.minted /\ then.minted /\ DOMAIN N = {1}
  /\ ofKinds(N, AfterMint) # {} => s.minted \/ s.quarantined
FollowsCase(N, s, then) ==
  \/ /\ ofKinds(N, {"DivergenceDetected"}) = {} /\ ofKinds(N, {"AssetReconciled"}) = {}
     /\ then.cases = s.cases /\ then.quarantined = s.quarantined
  \/ /\ ofKinds(N, {"AssetReconciled"}) = {}
     /\ ~s.quarantined /\ then.quarantined /\ then.cases = s.cases + 1
     /\ \E i \in DOMAIN N : ofKinds(N, {"DivergenceDetected"}) = {i} /\ N[i].id = then.cases
  \/ /\ ofKinds(N, {"DivergenceDetected"}) = {}
     /\ s.quarantined /\ ~then.quarantined /\ then.cases = s.cases
     /\ \E i \in ofKinds(N, {"AssetReconciled"}) : N[i].contract = "DivergenceRegistry"
FollowsAsset(N, b, s, then) ==
  FollowsParts(N, b, s, then) /\ FollowsMint(N, s, then) /\ FollowsCase(N, s, then)

FollowsRoles(N, s, then) ==
  \A r \in Roles : LeavesLast(N, ofRole(N, r), termTold, s.roles[r], then.roles[r])

FollowsDid(N, s, then) ==
  /\ LeavesLast(N, ofKinds(N, StatusKinds), statusTold, s.did.status, then.did.status)
  /\ LeavesLast(N, ofKinds(N, ControlKinds), ownerTold, s.did.controller, then.did.controller)
  /\ ofKinds(N, {"KeyRotated", "DIDRevoked"}) # {} => s.did.status # "None"
  /\ then.did.status # "None" => s.did.status # "None" \/ ofKinds(N, {"DIDRegistered"}) # {}

\* The events N of a transaction in block b that leads from s to then.
Follows(N, b, s, then) ==
  /\ \A i \in DOMAIN N : Placed(N[i])
  /\ FollowsAsset(N, b, s, then) /\ FollowsRoles(N, s, then) /\ FollowsDid(N, s, then)

\* A transaction without events of some kinds leaves their parts alone.
AssetKinds == {"AssetMinted"} \cup AfterMint
SameAsset(s, then) ==
  /\ then.owner = s.owner /\ then.custodian = s.custodian /\ then.quarantined = s.quarantined
  /\ then.fresh = s.fresh /\ then.seen = s.seen /\ then.minted = s.minted /\ then.cases = s.cases

LEMMA QuietAsset ==
  ASSUME NEW N, NEW b, NEW s \in State, NEW then \in State,
         ofKinds(N, AssetKinds) = {}, SameAsset(s, then)
  PROVE  FollowsAsset(N, b, s, then)
<1>1. /\ ofKinds(N, OwnerKinds) = {} /\ ofKinds(N, CustodianKinds) = {} /\ ofKinds(N, HoldKinds) = {}
      /\ ofKinds(N, FreshKinds) = {} /\ ofKinds(N, SeenKinds) = {} /\ ofKinds(N, AfterMint) = {}
      /\ ofKinds(N, {"AssetMinted"}) = {} /\ ofKinds(N, {"DivergenceDetected"}) = {}
      /\ ofKinds(N, {"AssetReconciled"}) = {}
  BY DEF ofKinds, AssetKinds, AfterMint, OwnerKinds, CustodianKinds, HoldKinds, FreshKinds, SeenKinds
<1>2. holdOf(then.quarantined) = holdOf(s.quarantined)
  BY DEF SameAsset
<1>3. \A told, x : LeavesLast(N, {}, told, x, x)
  BY DEF LeavesLast
<1>4. (s.seen + 1)..then.seen = {} /\ s.seen <= then.seen
  BY DEF SameAsset, State
<1>. QED
  BY <1>1, <1>2, <1>3, <1>4
  DEF FollowsAsset, FollowsParts, FollowsMint, FollowsCase, SameAsset

LEMMA QuietRoles ==
  ASSUME NEW N, NEW s, NEW then, ofKinds(N, RoleKinds) = {}, then.roles = s.roles
  PROVE  FollowsRoles(N, s, then)
BY DEF FollowsRoles, LeavesLast, ofRole

LEMMA QuietDid ==
  ASSUME NEW N, NEW s, NEW then, ofKinds(N, DidKinds) = {}, then.did = s.did
  PROVE  FollowsDid(N, s, then)
<1>1. /\ ofKinds(N, StatusKinds) = {} /\ ofKinds(N, ControlKinds) = {}
      /\ ofKinds(N, {"KeyRotated", "DIDRevoked"}) = {} /\ ofKinds(N, {"DIDRegistered"}) = {}
  BY DEF ofKinds, DidKinds, StatusKinds, ControlKinds
<1>. QED
  BY <1>1 DEF FollowsDid, LeavesLast

Owned(s) == s.minted => s.owner \in Parties /\ s.custodian \in Parties

\* A transaction with its events and the state after it, but for the count.
Explains(N, s) ==
  /\ N \in Seq(Event) /\ Len(N) \in 1..3 /\ s \in State /\ s.txs = now.txs
  /\ \E about : Transact(about, N, s)
  /\ Explained(eventsOf(N), now, s)
  /\ Follows(N, thisBlock, now, s)
  /\ Owned(now) => Owned(s)

\* What each transaction leaves.
LEMMA AttestedFollows ==
  ASSUME now \in State, thisBlock \in Nat, Attested
  PROVE  Follows(<<recording(now.seen + 1)>>, thisBlock, now,
                 [now EXCEPT !.seen = @ + 1, !.fresh = thisBlock])
<1>. DEFINE e == recording(now.seen + 1)
            E == <<e>>
            s == [now EXCEPT !.seen = @ + 1, !.fresh = thisBlock]
<1>1. DOMAIN E = 1..1 /\ E[1] = e
  OBVIOUS
<1>2. /\ e.kind = "AttestationRecorded" /\ e.contract = "AttestationRegistry" /\ e.id = now.seen + 1
  BY DEF recording, opening, nft, emitted
<1>3. e \in Event
  BY EmittedType, EventsAssumption DEF recording, opening, nft, State
<1>4. /\ s.owner = now.owner /\ s.custodian = now.custodian /\ s.quarantined = now.quarantined
      /\ s.fresh = thisBlock /\ s.seen = now.seen + 1 /\ s.minted = now.minted
      /\ s.cases = now.cases /\ s.roles = now.roles /\ s.did = now.did
      /\ now.seen \in Nat /\ now.cases \in Nat
  BY DEF State
<1>. HIDE DEF e, E, s
<1>6. /\ ofKinds(E, OwnerKinds) = {} /\ ofKinds(E, CustodianKinds) = {} /\ ofKinds(E, HoldKinds) = {}
      /\ ofKinds(E, FreshKinds) = {1} /\ ofKinds(E, SeenKinds) = {1} /\ ofKinds(E, AfterMint) = {1}
      /\ ofKinds(E, {"AssetMinted"}) = {} /\ ofKinds(E, {"DivergenceDetected"}) = {} /\ ofKinds(E, {"AssetReconciled"}) = {}
      /\ ofKinds(E, RoleKinds) = {} /\ ofKinds(E, DidKinds) = {}
  BY <1>1, <1>2 DEF ofKinds, OwnerKinds, CustodianKinds, HoldKinds, FreshKinds, SeenKinds, AfterMint,
                      RoleKinds, DidKinds
<1>7. FollowsParts(E, thisBlock, now, s)
  <2>1. LeavesLast(E, ofKinds(E, OwnerKinds), ownerTold, now.owner, s.owner)
    BY <1>1, <1>2, <1>3, <1>4, <1>6 DEF LeavesLast, ownerTold
  <2>2. LeavesLast(E, ofKinds(E, CustodianKinds), custodianTold, now.custodian, s.custodian)
    BY <1>1, <1>2, <1>3, <1>4, <1>6 DEF LeavesLast, custodianTold
  <2>3. LeavesLast(E, ofKinds(E, HoldKinds), holdTold, holdOf(now.quarantined), holdOf(s.quarantined))
    BY <1>1, <1>2, <1>3, <1>4, <1>6 DEF LeavesLast, holdTold, holdOf
  <2>4. LeavesLast(E, ofKinds(E, FreshKinds), [n \in Event |-> thisBlock], now.fresh, s.fresh)
    BY <1>1, <1>2, <1>3, <1>4, <1>6 DEF LeavesLast
  <2>5. {E[i].id : i \in ofKinds(E, SeenKinds)} = (now.seen + 1)..s.seen /\ now.seen <= s.seen
    BY <1>1, <1>2, <1>4, <1>6
  <2>. QED
    BY <2>1, <2>2, <2>3, <2>4, <2>5 DEF FollowsParts
<1>8. FollowsMint(E, now, s)
  BY <1>1, <1>4, <1>6 DEF FollowsMint, Attested, free
<1>9. FollowsCase(E, now, s)
  BY <1>1, <1>2, <1>4, <1>6 DEF FollowsCase, Attested, free
<1>10. \A i \in DOMAIN E : Placed(E[i])
  BY <1>1, <1>2 DEF Placed, RoleKinds, DidKinds
<1>11. FollowsRoles(E, now, s) /\ FollowsDid(E, now, s)
  BY <1>4, <1>6, QuietRoles, QuietDid
<1>. QED
  BY <1>7, <1>8, <1>9, <1>10, <1>11 DEF Follows, FollowsAsset, E, s, e

LEMMA ConflictingFollows ==
  ASSUME now \in State, thisBlock \in Nat, Conflicting
  PROVE  Follows(<<recording(now.seen + 1), nft("AssetQuarantined", Nobody, Nobody), opening(now.cases + 1)>>, thisBlock, now,
                 [now EXCEPT !.seen = @ + 1, !.fresh = thisBlock, !.quarantined = TRUE, !.cases = @ + 1])
<1>. DEFINE e == recording(now.seen + 1)
            f == nft("AssetQuarantined", Nobody, Nobody)
            g == opening(now.cases + 1)
            E == <<e, f, g>>
            s == [now EXCEPT !.seen = @ + 1, !.fresh = thisBlock, !.quarantined = TRUE, !.cases = @ + 1]
<1>1. DOMAIN E = 1..3 /\ E[1] = e /\ E[2] = f /\ E[3] = g
  OBVIOUS
<1>2. /\ e.kind = "AttestationRecorded" /\ e.contract = "AttestationRegistry" /\ e.id = now.seen + 1
      /\ f.kind = "AssetQuarantined" /\ f.contract = "AssetNFT"
      /\ g.kind = "DivergenceDetected" /\ g.contract = "DivergenceRegistry" /\ g.id = now.cases + 1
  BY DEF recording, opening, nft, emitted
<1>3. e \in Event /\ f \in Event /\ g \in Event
  BY EmittedType, EventsAssumption DEF recording, opening, nft, State
<1>4. /\ s.owner = now.owner /\ s.custodian = now.custodian /\ s.quarantined = TRUE
      /\ s.fresh = thisBlock /\ s.seen = now.seen + 1 /\ s.minted = now.minted
      /\ s.cases = now.cases + 1 /\ s.roles = now.roles /\ s.did = now.did
      /\ now.seen \in Nat /\ now.cases \in Nat
  BY DEF State
<1>. HIDE DEF e, f, g, E, s
<1>6. /\ ofKinds(E, OwnerKinds) = {} /\ ofKinds(E, CustodianKinds) = {} /\ ofKinds(E, HoldKinds) = {2}
      /\ ofKinds(E, FreshKinds) = {1} /\ ofKinds(E, SeenKinds) = {1} /\ ofKinds(E, AfterMint) = {1, 2, 3}
      /\ ofKinds(E, {"AssetMinted"}) = {} /\ ofKinds(E, {"DivergenceDetected"}) = {3} /\ ofKinds(E, {"AssetReconciled"}) = {}
      /\ ofKinds(E, RoleKinds) = {} /\ ofKinds(E, DidKinds) = {}
  BY <1>1, <1>2 DEF ofKinds, OwnerKinds, CustodianKinds, HoldKinds, FreshKinds, SeenKinds, AfterMint,
                      RoleKinds, DidKinds
<1>7. FollowsParts(E, thisBlock, now, s)
  <2>1. LeavesLast(E, ofKinds(E, OwnerKinds), ownerTold, now.owner, s.owner)
    BY <1>1, <1>2, <1>3, <1>4, <1>6 DEF LeavesLast, ownerTold
  <2>2. LeavesLast(E, ofKinds(E, CustodianKinds), custodianTold, now.custodian, s.custodian)
    BY <1>1, <1>2, <1>3, <1>4, <1>6 DEF LeavesLast, custodianTold
  <2>3. LeavesLast(E, ofKinds(E, HoldKinds), holdTold, holdOf(now.quarantined), holdOf(s.quarantined))
    BY <1>1, <1>2, <1>3, <1>4, <1>6 DEF LeavesLast, holdTold, holdOf
  <2>4. LeavesLast(E, ofKinds(E, FreshKinds), [n \in Event |-> thisBlock], now.fresh, s.fresh)
    BY <1>1, <1>2, <1>3, <1>4, <1>6 DEF LeavesLast
  <2>5. {E[i].id : i \in ofKinds(E, SeenKinds)} = (now.seen + 1)..s.seen /\ now.seen <= s.seen
    BY <1>1, <1>2, <1>4, <1>6
  <2>. QED
    BY <2>1, <2>2, <2>3, <2>4, <2>5 DEF FollowsParts
<1>8. FollowsMint(E, now, s)
  BY <1>1, <1>4, <1>6 DEF FollowsMint, Conflicting, free
<1>9. FollowsCase(E, now, s)
  BY <1>1, <1>2, <1>4, <1>6 DEF FollowsCase, Conflicting, free
<1>10. \A i \in DOMAIN E : Placed(E[i])
  BY <1>1, <1>2 DEF Placed, RoleKinds, DidKinds
<1>11. FollowsRoles(E, now, s) /\ FollowsDid(E, now, s)
  BY <1>4, <1>6, QuietRoles, QuietDid
<1>. QED
  BY <1>7, <1>8, <1>9, <1>10, <1>11 DEF Follows, FollowsAsset, E, s, e, f, g

LEMMA DetectedFollows ==
  ASSUME now \in State, thisBlock \in Nat, Detected
  PROVE  Follows(<<nft("AssetQuarantined", Nobody, Nobody), opening(now.cases + 1)>>, thisBlock, now,
                 [now EXCEPT !.quarantined = TRUE, !.cases = @ + 1])
<1>. DEFINE e == nft("AssetQuarantined", Nobody, Nobody)
            f == opening(now.cases + 1)
            E == <<e, f>>
            s == [now EXCEPT !.quarantined = TRUE, !.cases = @ + 1]
<1>1. DOMAIN E = 1..2 /\ E[1] = e /\ E[2] = f
  OBVIOUS
<1>2. /\ e.kind = "AssetQuarantined" /\ e.contract = "AssetNFT"
      /\ f.kind = "DivergenceDetected" /\ f.contract = "DivergenceRegistry" /\ f.id = now.cases + 1
  BY DEF recording, opening, nft, emitted
<1>3. e \in Event /\ f \in Event
  BY EmittedType, EventsAssumption DEF recording, opening, nft, State
<1>4. /\ s.owner = now.owner /\ s.custodian = now.custodian /\ s.quarantined = TRUE
      /\ s.fresh = now.fresh /\ s.seen = now.seen /\ s.minted = now.minted
      /\ s.cases = now.cases + 1 /\ s.roles = now.roles /\ s.did = now.did
      /\ now.seen \in Nat /\ now.cases \in Nat
  BY DEF State
<1>. HIDE DEF e, f, E, s
<1>6. /\ ofKinds(E, OwnerKinds) = {} /\ ofKinds(E, CustodianKinds) = {} /\ ofKinds(E, HoldKinds) = {1}
      /\ ofKinds(E, FreshKinds) = {} /\ ofKinds(E, SeenKinds) = {} /\ ofKinds(E, AfterMint) = {1, 2}
      /\ ofKinds(E, {"AssetMinted"}) = {} /\ ofKinds(E, {"DivergenceDetected"}) = {2} /\ ofKinds(E, {"AssetReconciled"}) = {}
      /\ ofKinds(E, RoleKinds) = {} /\ ofKinds(E, DidKinds) = {}
  BY <1>1, <1>2 DEF ofKinds, OwnerKinds, CustodianKinds, HoldKinds, FreshKinds, SeenKinds, AfterMint,
                      RoleKinds, DidKinds
<1>7. FollowsParts(E, thisBlock, now, s)
  <2>1. LeavesLast(E, ofKinds(E, OwnerKinds), ownerTold, now.owner, s.owner)
    BY <1>1, <1>2, <1>3, <1>4, <1>6 DEF LeavesLast, ownerTold
  <2>2. LeavesLast(E, ofKinds(E, CustodianKinds), custodianTold, now.custodian, s.custodian)
    BY <1>1, <1>2, <1>3, <1>4, <1>6 DEF LeavesLast, custodianTold
  <2>3. LeavesLast(E, ofKinds(E, HoldKinds), holdTold, holdOf(now.quarantined), holdOf(s.quarantined))
    BY <1>1, <1>2, <1>3, <1>4, <1>6 DEF LeavesLast, holdTold, holdOf
  <2>4. LeavesLast(E, ofKinds(E, FreshKinds), [n \in Event |-> thisBlock], now.fresh, s.fresh)
    BY <1>1, <1>2, <1>3, <1>4, <1>6 DEF LeavesLast
  <2>5. {E[i].id : i \in ofKinds(E, SeenKinds)} = (now.seen + 1)..s.seen /\ now.seen <= s.seen
    BY <1>1, <1>2, <1>4, <1>6
  <2>. QED
    BY <2>1, <2>2, <2>3, <2>4, <2>5 DEF FollowsParts
<1>8. FollowsMint(E, now, s)
  BY <1>1, <1>4, <1>6 DEF FollowsMint, Detected, free
<1>9. FollowsCase(E, now, s)
  BY <1>1, <1>2, <1>4, <1>6 DEF FollowsCase, Detected, free
<1>10. \A i \in DOMAIN E : Placed(E[i])
  BY <1>1, <1>2 DEF Placed, RoleKinds, DidKinds
<1>11. FollowsRoles(E, now, s) /\ FollowsDid(E, now, s)
  BY <1>4, <1>6, QuietRoles, QuietDid
<1>. QED
  BY <1>7, <1>8, <1>9, <1>10, <1>11 DEF Follows, FollowsAsset, E, s, e, f

LEMMA MintedFollows ==
  ASSUME now \in State, thisBlock \in Nat, NEW c \in Parties, Minted(c)
  PROVE  Follows(<<nft("AssetMinted", Buyer, c)>>, thisBlock, now,
                 [now EXCEPT !.minted = TRUE, !.owner = Buyer, !.custodian = c, !.fresh = thisBlock])
<1>. DEFINE e == nft("AssetMinted", Buyer, c)
            E == <<e>>
            s == [now EXCEPT !.minted = TRUE, !.owner = Buyer, !.custodian = c, !.fresh = thisBlock]
<1>1. DOMAIN E = 1..1 /\ E[1] = e
  OBVIOUS
<1>2. /\ e.kind = "AssetMinted" /\ e.contract = "AssetNFT" /\ e.party = Buyer /\ e.custodian = c
  BY DEF recording, opening, nft, emitted
<1>3. e \in Event
  BY EmittedType, EventsAssumption DEF recording, opening, nft, State
<1>4. /\ s.owner = Buyer /\ s.custodian = c /\ s.quarantined = now.quarantined
      /\ s.fresh = thisBlock /\ s.seen = now.seen /\ s.minted = TRUE
      /\ s.cases = now.cases /\ s.roles = now.roles /\ s.did = now.did
      /\ now.seen \in Nat /\ now.cases \in Nat
  BY DEF State
<1>. HIDE DEF e, E, s
<1>6. /\ ofKinds(E, OwnerKinds) = {1} /\ ofKinds(E, CustodianKinds) = {1} /\ ofKinds(E, HoldKinds) = {}
      /\ ofKinds(E, FreshKinds) = {1} /\ ofKinds(E, SeenKinds) = {} /\ ofKinds(E, AfterMint) = {}
      /\ ofKinds(E, {"AssetMinted"}) = {1} /\ ofKinds(E, {"DivergenceDetected"}) = {} /\ ofKinds(E, {"AssetReconciled"}) = {}
      /\ ofKinds(E, RoleKinds) = {} /\ ofKinds(E, DidKinds) = {}
  BY <1>1, <1>2 DEF ofKinds, OwnerKinds, CustodianKinds, HoldKinds, FreshKinds, SeenKinds, AfterMint,
                      RoleKinds, DidKinds
<1>7. FollowsParts(E, thisBlock, now, s)
  <2>1. LeavesLast(E, ofKinds(E, OwnerKinds), ownerTold, now.owner, s.owner)
    BY <1>1, <1>2, <1>3, <1>4, <1>6 DEF LeavesLast, ownerTold
  <2>2. LeavesLast(E, ofKinds(E, CustodianKinds), custodianTold, now.custodian, s.custodian)
    BY <1>1, <1>2, <1>3, <1>4, <1>6 DEF LeavesLast, custodianTold
  <2>3. LeavesLast(E, ofKinds(E, HoldKinds), holdTold, holdOf(now.quarantined), holdOf(s.quarantined))
    BY <1>1, <1>2, <1>3, <1>4, <1>6 DEF LeavesLast, holdTold, holdOf
  <2>4. LeavesLast(E, ofKinds(E, FreshKinds), [n \in Event |-> thisBlock], now.fresh, s.fresh)
    BY <1>1, <1>2, <1>3, <1>4, <1>6 DEF LeavesLast
  <2>5. {E[i].id : i \in ofKinds(E, SeenKinds)} = (now.seen + 1)..s.seen /\ now.seen <= s.seen
    BY <1>1, <1>2, <1>4, <1>6
  <2>. QED
    BY <2>1, <2>2, <2>3, <2>4, <2>5 DEF FollowsParts
<1>8. FollowsMint(E, now, s)
  BY <1>1, <1>4, <1>6 DEF FollowsMint, Minted, free
<1>9. FollowsCase(E, now, s)
  BY <1>1, <1>2, <1>4, <1>6 DEF FollowsCase, Minted, free
<1>10. \A i \in DOMAIN E : Placed(E[i])
  BY <1>1, <1>2 DEF Placed, RoleKinds, DidKinds
<1>11. FollowsRoles(E, now, s) /\ FollowsDid(E, now, s)
  BY <1>4, <1>6, QuietRoles, QuietDid
<1>. QED
  BY <1>7, <1>8, <1>9, <1>10, <1>11 DEF Follows, FollowsAsset, E, s, e

LEMMA TransferredFollows ==
  ASSUME now \in State, thisBlock \in Nat, NEW o \in Parties, Transferred(o)
  PROVE  Follows(<<nft("AssetTransferred", o, Nobody)>>, thisBlock, now,
                 [now EXCEPT !.owner = o])
<1>. DEFINE e == nft("AssetTransferred", o, Nobody)
            E == <<e>>
            s == [now EXCEPT !.owner = o]
<1>1. DOMAIN E = 1..1 /\ E[1] = e
  OBVIOUS
<1>2. /\ e.kind = "AssetTransferred" /\ e.contract = "AssetNFT" /\ e.party = o
  BY DEF recording, opening, nft, emitted
<1>3. e \in Event
  BY EmittedType, EventsAssumption DEF recording, opening, nft, State
<1>4. /\ s.owner = o /\ s.custodian = now.custodian /\ s.quarantined = now.quarantined
      /\ s.fresh = now.fresh /\ s.seen = now.seen /\ s.minted = now.minted
      /\ s.cases = now.cases /\ s.roles = now.roles /\ s.did = now.did
      /\ now.seen \in Nat /\ now.cases \in Nat
  BY DEF State
<1>. HIDE DEF e, E, s
<1>6. /\ ofKinds(E, OwnerKinds) = {1} /\ ofKinds(E, CustodianKinds) = {} /\ ofKinds(E, HoldKinds) = {}
      /\ ofKinds(E, FreshKinds) = {} /\ ofKinds(E, SeenKinds) = {} /\ ofKinds(E, AfterMint) = {1}
      /\ ofKinds(E, {"AssetMinted"}) = {} /\ ofKinds(E, {"DivergenceDetected"}) = {} /\ ofKinds(E, {"AssetReconciled"}) = {}
      /\ ofKinds(E, RoleKinds) = {} /\ ofKinds(E, DidKinds) = {}
  BY <1>1, <1>2 DEF ofKinds, OwnerKinds, CustodianKinds, HoldKinds, FreshKinds, SeenKinds, AfterMint,
                      RoleKinds, DidKinds
<1>7. FollowsParts(E, thisBlock, now, s)
  <2>1. LeavesLast(E, ofKinds(E, OwnerKinds), ownerTold, now.owner, s.owner)
    BY <1>1, <1>2, <1>3, <1>4, <1>6 DEF LeavesLast, ownerTold
  <2>2. LeavesLast(E, ofKinds(E, CustodianKinds), custodianTold, now.custodian, s.custodian)
    BY <1>1, <1>2, <1>3, <1>4, <1>6 DEF LeavesLast, custodianTold
  <2>3. LeavesLast(E, ofKinds(E, HoldKinds), holdTold, holdOf(now.quarantined), holdOf(s.quarantined))
    BY <1>1, <1>2, <1>3, <1>4, <1>6 DEF LeavesLast, holdTold, holdOf
  <2>4. LeavesLast(E, ofKinds(E, FreshKinds), [n \in Event |-> thisBlock], now.fresh, s.fresh)
    BY <1>1, <1>2, <1>3, <1>4, <1>6 DEF LeavesLast
  <2>5. {E[i].id : i \in ofKinds(E, SeenKinds)} = (now.seen + 1)..s.seen /\ now.seen <= s.seen
    BY <1>1, <1>2, <1>4, <1>6
  <2>. QED
    BY <2>1, <2>2, <2>3, <2>4, <2>5 DEF FollowsParts
<1>8. FollowsMint(E, now, s)
  BY <1>1, <1>4, <1>6 DEF FollowsMint, Transferred, free
<1>9. FollowsCase(E, now, s)
  BY <1>1, <1>2, <1>4, <1>6 DEF FollowsCase, Transferred, free
<1>10. \A i \in DOMAIN E : Placed(E[i])
  BY <1>1, <1>2 DEF Placed, RoleKinds, DidKinds
<1>11. FollowsRoles(E, now, s) /\ FollowsDid(E, now, s)
  BY <1>4, <1>6, QuietRoles, QuietDid
<1>. QED
  BY <1>7, <1>8, <1>9, <1>10, <1>11 DEF Follows, FollowsAsset, E, s, e

LEMMA AllocatedFollows ==
  ASSUME now \in State, thisBlock \in Nat, NEW c \in Parties, Allocated(c)
  PROVE  Follows(<<nft("AssetAllocated", Nobody, c)>>, thisBlock, now,
                 [now EXCEPT !.custodian = c])
<1>. DEFINE e == nft("AssetAllocated", Nobody, c)
            E == <<e>>
            s == [now EXCEPT !.custodian = c]
<1>1. DOMAIN E = 1..1 /\ E[1] = e
  OBVIOUS
<1>2. /\ e.kind = "AssetAllocated" /\ e.contract = "AssetNFT" /\ e.custodian = c
  BY DEF recording, opening, nft, emitted
<1>3. e \in Event
  BY EmittedType, EventsAssumption DEF recording, opening, nft, State
<1>4. /\ s.owner = now.owner /\ s.custodian = c /\ s.quarantined = now.quarantined
      /\ s.fresh = now.fresh /\ s.seen = now.seen /\ s.minted = now.minted
      /\ s.cases = now.cases /\ s.roles = now.roles /\ s.did = now.did
      /\ now.seen \in Nat /\ now.cases \in Nat
  BY DEF State
<1>. HIDE DEF e, E, s
<1>6. /\ ofKinds(E, OwnerKinds) = {} /\ ofKinds(E, CustodianKinds) = {1} /\ ofKinds(E, HoldKinds) = {}
      /\ ofKinds(E, FreshKinds) = {} /\ ofKinds(E, SeenKinds) = {} /\ ofKinds(E, AfterMint) = {1}
      /\ ofKinds(E, {"AssetMinted"}) = {} /\ ofKinds(E, {"DivergenceDetected"}) = {} /\ ofKinds(E, {"AssetReconciled"}) = {}
      /\ ofKinds(E, RoleKinds) = {} /\ ofKinds(E, DidKinds) = {}
  BY <1>1, <1>2 DEF ofKinds, OwnerKinds, CustodianKinds, HoldKinds, FreshKinds, SeenKinds, AfterMint,
                      RoleKinds, DidKinds
<1>7. FollowsParts(E, thisBlock, now, s)
  <2>1. LeavesLast(E, ofKinds(E, OwnerKinds), ownerTold, now.owner, s.owner)
    BY <1>1, <1>2, <1>3, <1>4, <1>6 DEF LeavesLast, ownerTold
  <2>2. LeavesLast(E, ofKinds(E, CustodianKinds), custodianTold, now.custodian, s.custodian)
    BY <1>1, <1>2, <1>3, <1>4, <1>6 DEF LeavesLast, custodianTold
  <2>3. LeavesLast(E, ofKinds(E, HoldKinds), holdTold, holdOf(now.quarantined), holdOf(s.quarantined))
    BY <1>1, <1>2, <1>3, <1>4, <1>6 DEF LeavesLast, holdTold, holdOf
  <2>4. LeavesLast(E, ofKinds(E, FreshKinds), [n \in Event |-> thisBlock], now.fresh, s.fresh)
    BY <1>1, <1>2, <1>3, <1>4, <1>6 DEF LeavesLast
  <2>5. {E[i].id : i \in ofKinds(E, SeenKinds)} = (now.seen + 1)..s.seen /\ now.seen <= s.seen
    BY <1>1, <1>2, <1>4, <1>6
  <2>. QED
    BY <2>1, <2>2, <2>3, <2>4, <2>5 DEF FollowsParts
<1>8. FollowsMint(E, now, s)
  BY <1>1, <1>4, <1>6 DEF FollowsMint, Allocated, free
<1>9. FollowsCase(E, now, s)
  BY <1>1, <1>2, <1>4, <1>6 DEF FollowsCase, Allocated, free
<1>10. \A i \in DOMAIN E : Placed(E[i])
  BY <1>1, <1>2 DEF Placed, RoleKinds, DidKinds
<1>11. FollowsRoles(E, now, s) /\ FollowsDid(E, now, s)
  BY <1>4, <1>6, QuietRoles, QuietDid
<1>. QED
  BY <1>7, <1>8, <1>9, <1>10, <1>11 DEF Follows, FollowsAsset, E, s, e

LEMMA ReconciledFollows ==
  ASSUME now \in State, thisBlock \in Nat, NEW c \in Parties, Reconciled(c)
  PROVE  Follows(<<nft("AssetReconciled", Nobody, c), emitted("DivergenceRegistry", "AssetReconciled", Nobody, c, now.cases)>>, thisBlock, now,
                 [now EXCEPT !.quarantined = FALSE, !.custodian = c, !.fresh = thisBlock])
<1>. DEFINE e == nft("AssetReconciled", Nobody, c)
            f == emitted("DivergenceRegistry", "AssetReconciled", Nobody, c, now.cases)
            E == <<e, f>>
            s == [now EXCEPT !.quarantined = FALSE, !.custodian = c, !.fresh = thisBlock]
<1>1. DOMAIN E = 1..2 /\ E[1] = e /\ E[2] = f
  OBVIOUS
<1>2. /\ e.kind = "AssetReconciled" /\ e.contract = "AssetNFT" /\ e.custodian = c
      /\ f.kind = "AssetReconciled" /\ f.contract = "DivergenceRegistry" /\ f.custodian = c
  BY DEF recording, opening, nft, emitted
<1>3. e \in Event /\ f \in Event
  BY EmittedType, EventsAssumption DEF recording, opening, nft, State
<1>4. /\ s.owner = now.owner /\ s.custodian = c /\ s.quarantined = FALSE
      /\ s.fresh = thisBlock /\ s.seen = now.seen /\ s.minted = now.minted
      /\ s.cases = now.cases /\ s.roles = now.roles /\ s.did = now.did
      /\ now.seen \in Nat /\ now.cases \in Nat
  BY DEF State
<1>. HIDE DEF e, f, E, s
<1>6. /\ ofKinds(E, OwnerKinds) = {} /\ ofKinds(E, CustodianKinds) = {1, 2} /\ ofKinds(E, HoldKinds) = {1, 2}
      /\ ofKinds(E, FreshKinds) = {1, 2} /\ ofKinds(E, SeenKinds) = {} /\ ofKinds(E, AfterMint) = {1, 2}
      /\ ofKinds(E, {"AssetMinted"}) = {} /\ ofKinds(E, {"DivergenceDetected"}) = {} /\ ofKinds(E, {"AssetReconciled"}) = {1, 2}
      /\ ofKinds(E, RoleKinds) = {} /\ ofKinds(E, DidKinds) = {}
  BY <1>1, <1>2 DEF ofKinds, OwnerKinds, CustodianKinds, HoldKinds, FreshKinds, SeenKinds, AfterMint,
                      RoleKinds, DidKinds
<1>7. FollowsParts(E, thisBlock, now, s)
  <2>1. LeavesLast(E, ofKinds(E, OwnerKinds), ownerTold, now.owner, s.owner)
    BY <1>1, <1>2, <1>3, <1>4, <1>6 DEF LeavesLast, ownerTold
  <2>2. LeavesLast(E, ofKinds(E, CustodianKinds), custodianTold, now.custodian, s.custodian)
    BY <1>1, <1>2, <1>3, <1>4, <1>6 DEF LeavesLast, custodianTold
  <2>3. LeavesLast(E, ofKinds(E, HoldKinds), holdTold, holdOf(now.quarantined), holdOf(s.quarantined))
    BY <1>1, <1>2, <1>3, <1>4, <1>6 DEF LeavesLast, holdTold, holdOf
  <2>4. LeavesLast(E, ofKinds(E, FreshKinds), [n \in Event |-> thisBlock], now.fresh, s.fresh)
    BY <1>1, <1>2, <1>3, <1>4, <1>6 DEF LeavesLast
  <2>5. {E[i].id : i \in ofKinds(E, SeenKinds)} = (now.seen + 1)..s.seen /\ now.seen <= s.seen
    BY <1>1, <1>2, <1>4, <1>6
  <2>. QED
    BY <2>1, <2>2, <2>3, <2>4, <2>5 DEF FollowsParts
<1>8. FollowsMint(E, now, s)
  BY <1>1, <1>4, <1>6 DEF FollowsMint, Reconciled, free
<1>9. FollowsCase(E, now, s)
  BY <1>1, <1>2, <1>4, <1>6 DEF FollowsCase, Reconciled, free
<1>10. \A i \in DOMAIN E : Placed(E[i])
  BY <1>1, <1>2 DEF Placed, RoleKinds, DidKinds
<1>11. FollowsRoles(E, now, s) /\ FollowsDid(E, now, s)
  BY <1>4, <1>6, QuietRoles, QuietDid
<1>. QED
  BY <1>7, <1>8, <1>9, <1>10, <1>11 DEF Follows, FollowsAsset, E, s, e, f

LEMMA DidRegisteredFollows ==
  ASSUME now \in State, thisBlock \in Nat, NEW c \in Parties, DidRegistered(c)
  PROVE  Follows(<<onDid("DIDRegistered", c)>>, thisBlock, now,
                 [now EXCEPT !.did = [status |-> "Active", controller |-> c]])
<1>. DEFINE e == onDid("DIDRegistered", c)
            E == <<e>>
            s == [now EXCEPT !.did = [status |-> "Active", controller |-> c]]
<1>1. DOMAIN E = {1} /\ E[1] = e
  OBVIOUS
<1>2. e.kind = "DIDRegistered" /\ e.contract = "DIDRegistry" /\ e.party = c
  BY DEF onDid, emitted
<1>3. now.did \in Did
  BY DEF State
<1>4. e \in Event
  BY <1>3, EmittedType, EventsAssumption DEF onDid, Did
<1>5. [status |-> "Active", controller |-> c] \in Did
  BY <1>3 DEF Did
<1>6. s \in State /\ SameAsset(now, s) /\ s.roles = now.roles /\ s.did = [status |-> "Active", controller |-> c]
  BY <1>5 DEF State, SameAsset
<1>7. s.did.status = "Active" /\ s.did.controller = c
  BY <1>3, <1>6 DEF Did, DidRegistered
<1>. HIDE DEF e, E, s
<1>8. /\ ofKinds(E, AssetKinds) = {} /\ ofKinds(E, RoleKinds) = {}
      /\ ofKinds(E, StatusKinds) = {1}
      /\ ofKinds(E, ControlKinds) = {1}
      /\ ofKinds(E, {"KeyRotated", "DIDRevoked"}) = {}
      /\ ofKinds(E, {"DIDRegistered"}) = {1}
  BY <1>1, <1>2 DEF ofKinds, AssetKinds, AfterMint, RoleKinds, StatusKinds, ControlKinds
<1>9. FollowsDid(E, now, s)
  BY <1>1, <1>2, <1>4, <1>7, <1>8 DEF FollowsDid, LeavesLast, statusTold, ownerTold
<1>10. Placed(e)
  BY <1>2 DEF Placed, RoleKinds, DidKinds
<1>. QED
  BY <1>1, <1>6, <1>8, <1>9, <1>10, QuietAsset, QuietRoles DEF Follows, E, s, e

LEMMA KeyRotatedFollows ==
  ASSUME now \in State, thisBlock \in Nat, NEW c \in Parties, KeyRotated(c)
  PROVE  Follows(<<onDid("KeyRotated", c)>>, thisBlock, now,
                 [now EXCEPT !.did.controller = c])
<1>. DEFINE e == onDid("KeyRotated", c)
            E == <<e>>
            s == [now EXCEPT !.did.controller = c]
<1>1. DOMAIN E = {1} /\ E[1] = e
  OBVIOUS
<1>2. e.kind = "KeyRotated" /\ e.contract = "DIDRegistry" /\ e.party = c
  BY DEF onDid, emitted
<1>3. now.did \in Did
  BY DEF State
<1>4. e \in Event
  BY <1>3, EmittedType, EventsAssumption DEF onDid, Did
<1>5. [now.did EXCEPT !.controller = c] \in Did
  BY <1>3 DEF Did
<1>6. s \in State /\ SameAsset(now, s) /\ s.roles = now.roles /\ s.did = [now.did EXCEPT !.controller = c]
  BY <1>5 DEF State, SameAsset
<1>7. s.did.status = now.did.status /\ s.did.controller = c /\ now.did.status # "None"
  BY <1>3, <1>6 DEF Did, KeyRotated
<1>. HIDE DEF e, E, s
<1>8. /\ ofKinds(E, AssetKinds) = {} /\ ofKinds(E, RoleKinds) = {}
      /\ ofKinds(E, StatusKinds) = {}
      /\ ofKinds(E, ControlKinds) = {1}
      /\ ofKinds(E, {"KeyRotated", "DIDRevoked"}) = {1}
      /\ ofKinds(E, {"DIDRegistered"}) = {}
  BY <1>1, <1>2 DEF ofKinds, AssetKinds, AfterMint, RoleKinds, StatusKinds, ControlKinds
<1>9. FollowsDid(E, now, s)
  BY <1>1, <1>2, <1>4, <1>7, <1>8 DEF FollowsDid, LeavesLast, statusTold, ownerTold
<1>10. Placed(e)
  BY <1>2 DEF Placed, RoleKinds, DidKinds
<1>. QED
  BY <1>1, <1>6, <1>8, <1>9, <1>10, QuietAsset, QuietRoles DEF Follows, E, s, e

LEMMA DidRevokedFollows ==
  ASSUME now \in State, thisBlock \in Nat, DidRevoked
  PROVE  Follows(<<onDid("DIDRevoked", now.did.controller)>>, thisBlock, now,
                 [now EXCEPT !.did.status = "Revoked"])
<1>. DEFINE e == onDid("DIDRevoked", now.did.controller)
            E == <<e>>
            s == [now EXCEPT !.did.status = "Revoked"]
<1>1. DOMAIN E = {1} /\ E[1] = e
  OBVIOUS
<1>2. e.kind = "DIDRevoked" /\ e.contract = "DIDRegistry" /\ e.party = now.did.controller
  BY DEF onDid, emitted
<1>3. now.did \in Did
  BY DEF State
<1>4. e \in Event
  BY <1>3, EmittedType, EventsAssumption DEF onDid, Did
<1>5. [now.did EXCEPT !.status = "Revoked"] \in Did
  BY <1>3 DEF Did
<1>6. s \in State /\ SameAsset(now, s) /\ s.roles = now.roles /\ s.did = [now.did EXCEPT !.status = "Revoked"]
  BY <1>5 DEF State, SameAsset
<1>7. s.did.status = "Revoked" /\ s.did.controller = now.did.controller /\ now.did.status # "None"
  BY <1>3, <1>6 DEF Did, DidRevoked
<1>. HIDE DEF e, E, s
<1>8. /\ ofKinds(E, AssetKinds) = {} /\ ofKinds(E, RoleKinds) = {}
      /\ ofKinds(E, StatusKinds) = {1}
      /\ ofKinds(E, ControlKinds) = {}
      /\ ofKinds(E, {"KeyRotated", "DIDRevoked"}) = {1}
      /\ ofKinds(E, {"DIDRegistered"}) = {}
  BY <1>1, <1>2 DEF ofKinds, AssetKinds, AfterMint, RoleKinds, StatusKinds, ControlKinds
<1>9. FollowsDid(E, now, s)
  BY <1>1, <1>2, <1>4, <1>7, <1>8 DEF FollowsDid, LeavesLast, statusTold, ownerTold
<1>10. Placed(e)
  BY <1>2 DEF Placed, RoleKinds, DidKinds
<1>. QED
  BY <1>1, <1>6, <1>8, <1>9, <1>10, QuietAsset, QuietRoles DEF Follows, E, s, e

LEMMA RevokedFollows ==
  ASSUME now \in State, thisBlock \in Nat, NEW r \in Roles, Revoked(r)
  PROVE  Follows(<<onRole("RoleRevoked", r, FALSE)>>, thisBlock, now,
                 [now EXCEPT !.roles[r] = "none"])
<1>. DEFINE e == onRole("RoleRevoked", r, FALSE)
            E == <<e>>
            s == [now EXCEPT !.roles[r] = "none"]
<1>1. DOMAIN E = {1} /\ E[1] = e
  OBVIOUS
<1>2. e.kind = "RoleRevoked" /\ e.contract = "RoleManager" /\ e.role = r /\ e \in Event
  BY OnRoleType DEF onRole
<1>3. /\ s \in State /\ SameAsset(now, s) /\ s.did = now.did
      /\ \A q \in Roles : s.roles[q] = IF q = r THEN "none" ELSE now.roles[q]
  BY DEF State, SameAsset
<1>. HIDE DEF e, E, s
<1>4. /\ ofKinds(E, AssetKinds) = {} /\ ofKinds(E, DidKinds) = {}
      /\ \A q \in Roles : ofRole(E, q) = IF q = r THEN {1} ELSE {}
  BY <1>1, <1>2 DEF ofKinds, ofRole, AssetKinds, AfterMint, RoleKinds, DidKinds
<1>5. termTold[e] = "none"
  BY <1>2 DEF termTold
<1>6. FollowsRoles(E, now, s)
  BY <1>1, <1>3, <1>4, <1>5 DEF FollowsRoles, LeavesLast
<1>7. Placed(e)
  BY <1>2 DEF Placed, RoleKinds, DidKinds
<1>. QED
  BY <1>1, <1>3, <1>4, <1>6, <1>7, QuietAsset, QuietDid DEF Follows, E, s, e

LEMMA GrantedFollows ==
  ASSUME now \in State, thisBlock \in Nat, NEW r \in Roles, NEW timed \in BOOLEAN, Granted(r, timed)
  PROVE  Follows((IF now.roles[r] = "none" THEN <<onRole("RoleGranted", r, FALSE)>> ELSE <<>>)
                    \o <<onRole("RoleExpirySet", r, timed)>>,
                 thisBlock, now, [now EXCEPT !.roles[r] = IF timed THEN "timed" ELSE "plain"])
<1>. DEFINE e == onRole("RoleGranted", r, FALSE)
            f == onRole("RoleExpirySet", r, timed)
            G == IF now.roles[r] = "none" THEN <<e>> ELSE <<>>
            E == G \o <<f>>
            s == [now EXCEPT !.roles[r] = IF timed THEN "timed" ELSE "plain"]
<1>1. e \in Event /\ f \in Event
  BY OnRoleType
<1>2. /\ e.kind = "RoleGranted" /\ e.contract = "RoleManager" /\ e.role = r
      /\ f.kind = "RoleExpirySet" /\ f.contract = "RoleManager" /\ f.role = r /\ f.timed = timed
  BY DEF onRole
<1>3. /\ s \in State /\ SameAsset(now, s) /\ s.did = now.did
      /\ \A q \in Roles : s.roles[q] = IF q = r THEN IF timed THEN "timed" ELSE "plain" ELSE now.roles[q]
  BY DEF State, SameAsset
<1>4. termTold[f] = IF timed THEN "timed" ELSE "plain"
  BY <1>1, <1>2 DEF termTold
<1>. HIDE DEF e, f, s
<1>5. \E n \in 1..2 : DOMAIN E = 1..n /\ E[n] = f /\ \A i \in 1..n : E[i] \in {e, f}
  <2>1. CASE now.roles[r] = "none"
    <3>1. E = <<e>> \o <<f>>
      BY <2>1
    <3>2. DOMAIN E = 1..2 /\ E[1] = e /\ E[2] = f
      BY <1>1, <3>1
    <3>. QED
      BY <3>2
  <2>2. CASE now.roles[r] # "none"
    <3>1. E = <<f>>
      BY <1>1, <2>2
    <3>2. DOMAIN E = 1..1 /\ E[1] = f
      BY <3>1
    <3>. QED
      BY <3>2
  <2>. QED
    BY <2>1, <2>2
<1>6. PICK n \in 1..2 : DOMAIN E = 1..n /\ E[n] = f /\ \A i \in 1..n : E[i] \in {e, f}
  BY <1>5
<1>. HIDE DEF E
<1>7. /\ ofKinds(E, AssetKinds) = {} /\ ofKinds(E, DidKinds) = {}
      /\ \A q \in Roles : ofRole(E, q) = IF q = r THEN 1..n ELSE {}
  BY <1>2, <1>6 DEF ofKinds, ofRole, AssetKinds, AfterMint, RoleKinds, DidKinds
<1>8. FollowsRoles(E, now, s)
  <2>1. n \in 1..n /\ \A i \in 1..n : i <= n
    BY <1>6
  <2>. QED
    BY <1>3, <1>4, <1>6, <1>7, <2>1 DEF FollowsRoles, LeavesLast
<1>9. \A i \in DOMAIN E : Placed(E[i])
  BY <1>2, <1>6 DEF Placed, RoleKinds, DidKinds
<1>. QED
  BY <1>3, <1>7, <1>8, <1>9, QuietAsset, QuietDid DEF Follows, E, s, e, f

\* Every transaction's events explain what it changes.
LEMMA TransactionKinds ==
  ASSUME pending \in Block, thisBlock \in Nat, ChainNext
  PROVE  Mined \/ \E N, s : Explains(N, s)
<1>1. now \in State
  BY DEF now, Block
<1>2. thisBlock \in Nat /\ now.seen + 1 \in Nat /\ now.cases + 1 \in Nat
  BY <1>1 DEF State
<1>. DEFINE Kept == \E N, s : Explains(N, s)
<1>4. ASSUME Attested PROVE Kept
  <2>. DEFINE e == recording(now.seen + 1)
              E == <<e>>
              s == [now EXCEPT !.seen = @ + 1, !.fresh = thisBlock]
  <2>0. Follows(E, thisBlock, now, s)
    BY <1>1, <1>4, AttestedFollows
  <2>1. e \in Event
    BY <1>1, EmittedType, EventsAssumption DEF recording, State
  <2>2. s \in State /\ s.txs = now.txs
    BY <1>1, <1>2 DEF State
  <2>3. E \in Seq(Event)
    BY <2>1
  <2>4. Transact({"evidence"}, E, s)
    BY <1>4 DEF Attested
  <2>5. Len(E) \in 1..3 /\ (Owned(now) => Owned(s))
    BY <1>1, <1>4, EventsAssumption DEF Attested, free, Owned, State
  <2>6. eventsOf(E) = {e}
    BY DEF eventsOf
  <2>7. Explained({e}, now, s)
    BY <1>1, <1>4, <2>1, <2>2, EventsAssumption
    DEF Attested, free, Explained, Tells, RolesTold, RoleTold, heldIn, ownerTold, custodianTold,
        quarantineTold, seenTold, OwnerKinds, CustodianKinds, QuarantineKinds, SeenKinds,
        RoleKinds, recording, emitted, State
  <2>. HIDE DEF E, s
  <2>. QED
    BY <2>0, <2>2, <2>3, <2>4, <2>5, <2>6, <2>7 DEF Explains
<1>5. ASSUME Conflicting PROVE Kept
  <2>. DEFINE e == recording(now.seen + 1)
              f == nft("AssetQuarantined", Nobody, Nobody)
              g == opening(now.cases + 1)
              E == <<e, f, g>>
              s == [now EXCEPT !.seen = @ + 1, !.fresh = thisBlock, !.quarantined = TRUE, !.cases = @ + 1]
  <2>0. Follows(E, thisBlock, now, s)
    BY <1>1, <1>5, ConflictingFollows
  <2>1. e \in Event /\ f \in Event /\ g \in Event
    BY <1>1, EmittedType, EventsAssumption DEF recording, nft, opening, State
  <2>2. s \in State /\ s.txs = now.txs
    BY <1>1, <1>2 DEF State
  <2>3. E \in Seq(Event)
    BY <2>1
  <2>4. Transact({"evidence"}, E, s)
    BY <1>5 DEF Conflicting
  <2>5. Len(E) \in 1..3 /\ (Owned(now) => Owned(s))
    BY <1>1, <1>5, EventsAssumption DEF Conflicting, free, Owned, State
  <2>6. eventsOf(E) = {e, f, g}
    BY DEF eventsOf
  <2>7. /\ e.kind = "AttestationRecorded" /\ e.id = s.seen
        /\ f.kind = "AssetQuarantined" /\ g.kind = "DivergenceDetected"
        /\ s.custodian = now.custodian /\ s.quarantined = TRUE
    BY <1>1, <1>2 DEF State, recording, nft, opening, emitted
  <2>. HIDE DEF e, f, g
  <2>8. s.owner = now.owner /\ heldIn(s) = heldIn(now)
    BY <1>1 DEF State, heldIn
  <2>. HIDE DEF E, s
  <2>9. Explained({e, f, g}, now, s)
    BY <2>1, <2>7, <2>8
    DEF Explained, Tells, RolesTold, heldIn, ownerTold, custodianTold,
        quarantineTold, seenTold, OwnerKinds, CustodianKinds, QuarantineKinds, SeenKinds, RoleKinds
  <2>. QED
    BY <2>0, <2>2, <2>3, <2>4, <2>5, <2>6, <2>7, <2>8, <2>9 DEF Explains
<1>6. ASSUME Detected PROVE Kept
  <2>. DEFINE f == nft("AssetQuarantined", Nobody, Nobody)
              g == opening(now.cases + 1)
              E == <<f, g>>
              s == [now EXCEPT !.quarantined = TRUE, !.cases = @ + 1]
  <2>0. Follows(E, thisBlock, now, s)
    BY <1>1, <1>6, DetectedFollows
  <2>1. f \in Event /\ g \in Event
    BY <1>1, EmittedType, EventsAssumption DEF nft, opening, State
  <2>2. s \in State /\ s.txs = now.txs
    BY <1>1, <1>2 DEF State
  <2>3. E \in Seq(Event)
    BY <2>1
  <2>4. Transact({"custody"}, E, s)
    BY <1>6 DEF Detected
  <2>5. Len(E) \in 1..3 /\ (Owned(now) => Owned(s))
    BY <1>1, <1>6, EventsAssumption DEF Detected, free, Owned, State
  <2>6. eventsOf(E) = {f, g}
    BY DEF eventsOf
  <2>7. /\ f.kind = "AssetQuarantined" /\ g.kind = "DivergenceDetected"
        /\ s.custodian = now.custodian /\ s.quarantined = TRUE /\ s.seen = now.seen
    BY <1>1, <1>2 DEF State, recording, nft, opening, emitted
  <2>. HIDE DEF f, g
  <2>8. s.owner = now.owner /\ heldIn(s) = heldIn(now)
    BY <1>1 DEF State, heldIn
  <2>. HIDE DEF E, s
  <2>9. Explained({f, g}, now, s)
    BY <2>1, <2>7, <2>8
    DEF Explained, Tells, RolesTold, heldIn, ownerTold, custodianTold,
        quarantineTold, seenTold, OwnerKinds, CustodianKinds, QuarantineKinds, SeenKinds, RoleKinds
  <2>. QED
    BY <2>0, <2>2, <2>3, <2>4, <2>5, <2>6, <2>7, <2>8, <2>9 DEF Explains
<1>7. ASSUME DidRevoked PROVE Kept
  <2>. DEFINE e == onDid("DIDRevoked", now.did.controller)
              E == <<e>>
              s == [now EXCEPT !.did.status = "Revoked"]
  <2>0. Follows(E, thisBlock, now, s)
    BY <1>1, <1>7, DidRevokedFollows
  <2>1. now.did \in Did
    BY <1>1 DEF State
  <2>2. e \in Event
    BY <2>1, EmittedType, EventsAssumption DEF onDid, Did
  <2>3. [now.did EXCEPT !.status = "Revoked"] \in Did
    BY <2>1 DEF Did
  <2>4. s \in State /\ s.txs = now.txs
    BY <1>1, <2>3 DEF State
  <2>5. E \in Seq(Event)
    BY <2>2
  <2>6. Transact({"did"}, E, s)
    BY <1>7 DEF DidRevoked
  <2>7. Len(E) \in 1..3 /\ (Owned(now) => Owned(s))
    BY <1>1, <1>7, EventsAssumption DEF DidRevoked, free, Owned, State
  <2>8. eventsOf(E) = {e}
    BY DEF eventsOf
  <2>9. Explained({e}, now, s)
    BY <1>1, <1>7, <2>1, <2>2, EventsAssumption
    DEF DidRevoked, free, Explained, Tells, RolesTold, RoleTold, heldIn, ownerTold, custodianTold,
        quarantineTold, seenTold, OwnerKinds, CustodianKinds, QuarantineKinds, SeenKinds,
        RoleKinds, onDid, emitted, State
  <2>. HIDE DEF E, s
  <2>. QED
    BY <2>0, <2>2, <2>3, <2>4, <2>5, <2>6, <2>7, <2>8, <2>9 DEF Explains
<1>8. ASSUME NEW c \in Parties, Minted(c) PROVE Kept
  <2>. DEFINE e == nft("AssetMinted", Buyer, c)
              E == <<e>>
              s == [now EXCEPT !.minted = TRUE, !.owner = Buyer, !.custodian = c, !.fresh = thisBlock]
  <2>0. Follows(E, thisBlock, now, s)
    BY <1>1, <1>8, MintedFollows
  <2>1. e \in Event
    BY EmittedType, EventsAssumption DEF nft
  <2>2. s \in State /\ s.txs = now.txs
    BY <1>1, <1>2, EventsAssumption DEF State
  <2>3. E \in Seq(Event)
    BY <2>1
  <2>4. Transact({"custody", "evidence"}, E, s)
    BY <1>8 DEF Minted
  <2>5. Len(E) \in 1..3 /\ (Owned(now) => Owned(s))
    BY <1>1, <1>8, EventsAssumption DEF Minted, free, Owned, State
  <2>6. eventsOf(E) = {e}
    BY DEF eventsOf
  <2>7. Explained({e}, now, s)
    BY <1>1, <1>8, <2>1, <2>2, EventsAssumption
    DEF Minted, free, Explained, Tells, RolesTold, RoleTold, heldIn, ownerTold, custodianTold,
        quarantineTold, seenTold, OwnerKinds, CustodianKinds, QuarantineKinds, SeenKinds,
        RoleKinds, nft, emitted, State
  <2>. HIDE DEF E, s
  <2>. QED
    BY <2>0, <2>2, <2>3, <2>4, <2>5, <2>6, <2>7 DEF Explains
<1>9. ASSUME NEW o \in Parties, Transferred(o) PROVE Kept
  <2>. DEFINE e == nft("AssetTransferred", o, Nobody)
              E == <<e>>
              s == [now EXCEPT !.owner = o]
  <2>0. Follows(E, thisBlock, now, s)
    BY <1>1, <1>9, TransferredFollows
  <2>1. e \in Event
    BY EmittedType, EventsAssumption DEF nft
  <2>2. s \in State /\ s.txs = now.txs
    BY <1>1 DEF State
  <2>3. E \in Seq(Event)
    BY <2>1
  <2>4. Transact({"custody"}, E, s)
    BY <1>9 DEF Transferred
  <2>5. Len(E) \in 1..3 /\ (Owned(now) => Owned(s))
    BY <1>1, <1>9, EventsAssumption DEF Transferred, free, Owned, State
  <2>6. eventsOf(E) = {e}
    BY DEF eventsOf
  <2>7. Explained({e}, now, s)
    BY <1>1, <1>9, <2>1, <2>2, EventsAssumption
    DEF Transferred, free, Explained, Tells, RolesTold, RoleTold, heldIn, ownerTold, custodianTold,
        quarantineTold, seenTold, OwnerKinds, CustodianKinds, QuarantineKinds, SeenKinds,
        RoleKinds, nft, emitted, State
  <2>. HIDE DEF E, s
  <2>. QED
    BY <2>0, <2>2, <2>3, <2>4, <2>5, <2>6, <2>7 DEF Explains
<1>10. ASSUME NEW c \in Parties, Allocated(c) PROVE Kept
  <2>. DEFINE e == nft("AssetAllocated", Nobody, c)
              E == <<e>>
              s == [now EXCEPT !.custodian = c]
  <2>0. Follows(E, thisBlock, now, s)
    BY <1>1, <1>10, AllocatedFollows
  <2>1. e \in Event
    BY EmittedType, EventsAssumption DEF nft
  <2>2. s \in State /\ s.txs = now.txs
    BY <1>1 DEF State
  <2>3. E \in Seq(Event)
    BY <2>1
  <2>4. Transact({"custody"}, E, s)
    BY <1>10 DEF Allocated
  <2>5. Len(E) \in 1..3 /\ (Owned(now) => Owned(s))
    BY <1>1, <1>10, EventsAssumption DEF Allocated, free, Owned, State
  <2>6. eventsOf(E) = {e}
    BY DEF eventsOf
  <2>7. Explained({e}, now, s)
    BY <1>1, <1>10, <2>1, <2>2, EventsAssumption
    DEF Allocated, free, Explained, Tells, RolesTold, RoleTold, heldIn, ownerTold, custodianTold,
        quarantineTold, seenTold, OwnerKinds, CustodianKinds, QuarantineKinds, SeenKinds,
        RoleKinds, nft, emitted, State
  <2>. HIDE DEF E, s
  <2>. QED
    BY <2>0, <2>2, <2>3, <2>4, <2>5, <2>6, <2>7 DEF Explains
<1>11. ASSUME NEW c \in Parties, Reconciled(c) PROVE Kept
  <2>. DEFINE e == nft("AssetReconciled", Nobody, c)
              f == emitted("DivergenceRegistry", "AssetReconciled", Nobody, c, now.cases)
              E == <<e, f>>
              s == [now EXCEPT !.quarantined = FALSE, !.custodian = c, !.fresh = thisBlock]
  <2>0. Follows(E, thisBlock, now, s)
    BY <1>1, <1>11, ReconciledFollows
  <2>1. e \in Event /\ f \in Event
    BY <1>1, EmittedType, EventsAssumption DEF nft, State
  <2>2. s \in State /\ s.txs = now.txs
    BY <1>1, <1>2 DEF State
  <2>3. E \in Seq(Event)
    BY <2>1
  <2>4. Transact({"custody", "evidence"}, E, s)
    BY <1>11 DEF Reconciled
  <2>5. Len(E) \in 1..3 /\ (Owned(now) => Owned(s))
    BY <1>1, <1>11, EventsAssumption DEF Reconciled, free, Owned, State
  <2>6. eventsOf(E) = {e, f}
    BY DEF eventsOf
  <2>7. /\ e.kind = "AssetReconciled" /\ f.kind = "AssetReconciled"
        /\ e.custodian = s.custodian /\ f.custodian = s.custodian
        /\ s.quarantined = FALSE /\ s.seen = now.seen
    BY <1>1, <1>2 DEF State, recording, nft, opening, emitted
  <2>. HIDE DEF e, f
  <2>8. s.owner = now.owner /\ heldIn(s) = heldIn(now)
    BY <1>1 DEF State, heldIn
  <2>. HIDE DEF E, s
  <2>9. Explained({e, f}, now, s)
    BY <2>1, <2>7, <2>8
    DEF Explained, Tells, RolesTold, heldIn, ownerTold, custodianTold,
        quarantineTold, seenTold, OwnerKinds, CustodianKinds, QuarantineKinds, SeenKinds, RoleKinds
  <2>. QED
    BY <2>0, <2>2, <2>3, <2>4, <2>5, <2>6, <2>7, <2>8, <2>9 DEF Explains
<1>12. ASSUME NEW c \in Parties, DidRegistered(c) PROVE Kept
  <2>. DEFINE e == onDid("DIDRegistered", c)
              E == <<e>>
              s == [now EXCEPT !.did = [status |-> "Active", controller |-> c]]
  <2>0. Follows(E, thisBlock, now, s)
    BY <1>1, <1>12, DidRegisteredFollows
  <2>1. e \in Event
    BY EmittedType, EventsAssumption DEF onDid
  <2>2. [status |-> "Active", controller |-> c] \in Did
    BY DEF Did
  <2>3. s \in State /\ s.txs = now.txs
    BY <1>1, <2>2 DEF State
  <2>4. E \in Seq(Event)
    BY <2>1
  <2>5. Transact({"did"}, E, s)
    BY <1>12 DEF DidRegistered
  <2>6. Len(E) \in 1..3 /\ (Owned(now) => Owned(s))
    BY <1>1, <1>12, EventsAssumption DEF DidRegistered, free, Owned, State
  <2>7. eventsOf(E) = {e}
    BY DEF eventsOf
  <2>8. Explained({e}, now, s)
    BY <1>1, <1>12, <2>1, <2>2, EventsAssumption
    DEF DidRegistered, free, Explained, Tells, RolesTold, RoleTold, heldIn, ownerTold, custodianTold,
        quarantineTold, seenTold, OwnerKinds, CustodianKinds, QuarantineKinds, SeenKinds,
        RoleKinds, onDid, emitted, State
  <2>. HIDE DEF E, s
  <2>. QED
    BY <2>0, <2>2, <2>3, <2>4, <2>5, <2>6, <2>7, <2>8 DEF Explains
<1>13. ASSUME NEW c \in Parties, KeyRotated(c) PROVE Kept
  <2>. DEFINE e == onDid("KeyRotated", c)
              E == <<e>>
              s == [now EXCEPT !.did.controller = c]
  <2>0. Follows(E, thisBlock, now, s)
    BY <1>1, <1>13, KeyRotatedFollows
  <2>1. e \in Event
    BY EmittedType, EventsAssumption DEF onDid
  <2>2. [now.did EXCEPT !.controller = c] \in Did
    BY <1>1 DEF Did, State
  <2>3. s \in State /\ s.txs = now.txs
    BY <1>1, <2>2 DEF State
  <2>4. E \in Seq(Event)
    BY <2>1
  <2>5. Transact({"did"}, E, s)
    BY <1>13 DEF KeyRotated
  <2>6. Len(E) \in 1..3 /\ (Owned(now) => Owned(s))
    BY <1>1, <1>13, EventsAssumption DEF KeyRotated, free, Owned, State
  <2>7. eventsOf(E) = {e}
    BY DEF eventsOf
  <2>8. Explained({e}, now, s)
    BY <1>1, <1>13, <2>1, <2>2, EventsAssumption
    DEF KeyRotated, free, Explained, Tells, RolesTold, RoleTold, heldIn, ownerTold, custodianTold,
        quarantineTold, seenTold, OwnerKinds, CustodianKinds, QuarantineKinds, SeenKinds,
        RoleKinds, onDid, emitted, State
  <2>. HIDE DEF E, s
  <2>. QED
    BY <2>0, <2>2, <2>3, <2>4, <2>5, <2>6, <2>7, <2>8 DEF Explains
<1>14. ASSUME NEW r \in Roles, Revoked(r) PROVE Kept
  <2>. DEFINE e == onRole("RoleRevoked", r, FALSE)
              E == <<e>>
              s == [now EXCEPT !.roles[r] = "none"]
  <2>0. Follows(E, thisBlock, now, s)
    BY <1>1, <1>14, RevokedFollows
  <2>1. e \in Event
    BY OnRoleType
  <2>2. s \in State /\ s.txs = now.txs
    BY <1>1 DEF State
  <2>3. Transact({"roles"}, E, s)
    BY <1>14 DEF Revoked
  <2>4. Len(E) \in 1..3 /\ (Owned(now) => Owned(s))
    BY <1>1, <1>14, EventsAssumption DEF Revoked, Owned, State
  <2>5. e.kind = "RoleRevoked" /\ e.role = r
    BY DEF onRole
  <2>6. r \in heldIn(now) /\ heldIn(s) = heldIn(now) \ {r}
    BY <1>1, <1>14 DEF Revoked, State, heldIn
  <2>7. /\ s.owner = now.owner /\ s.custodian = now.custodian
        /\ s.quarantined = now.quarantined /\ s.seen = now.seen
    BY <1>1 DEF State
  <2>. HIDE DEF e
  <2>8. E \in Seq(Event)
    BY <2>1
  <2>9. eventsOf(E) = {e}
    BY DEF eventsOf
  <2>. HIDE DEF E, s
  <2>10. Explained({e}, now, s)
    BY <2>1, <2>5, <2>6, <2>7
    DEF Explained, Tells, RolesTold, RoleTold, OwnerKinds, CustodianKinds, QuarantineKinds,
        SeenKinds, RoleKinds
  <2>. QED
    BY <2>0, <2>2, <2>3, <2>4, <2>8, <2>9, <2>10 DEF Explains
<1>15. ASSUME NEW r \in Roles, NEW timed \in BOOLEAN, Granted(r, timed) PROVE Kept
  <2>. DEFINE e == onRole("RoleGranted", r, FALSE)
              f == onRole("RoleExpirySet", r, timed)
              E == (IF now.roles[r] = "none" THEN <<e>> ELSE <<>>) \o <<f>>
              s == [now EXCEPT !.roles[r] = IF timed THEN "timed" ELSE "plain"]
  <2>0. Follows(E, thisBlock, now, s)
    BY <1>1, <1>15, GrantedFollows
  <2>1. e \in Event /\ f \in Event
    BY OnRoleType
  <2>2. s \in State /\ s.txs = now.txs
    BY <1>1 DEF State
  <2>3. Transact({"roles"}, E, s)
    BY <1>15 DEF Granted
  <2>4. e.kind = "RoleGranted" /\ e.role = r /\ f.kind = "RoleExpirySet" /\ f.role = r
    BY DEF onRole
  <2>5. r \in heldIn(s)
    BY <1>1 DEF State, heldIn
  <2>6. /\ s.owner = now.owner /\ s.custodian = now.custodian
        /\ s.quarantined = now.quarantined /\ s.seen = now.seen
        /\ Owned(now) => Owned(s)
    BY <1>1 DEF State, Owned
  <2>. HIDE DEF e, f
  <2>7. /\ E \in Seq(Event) /\ Len(E) \in 1..3
        /\ eventsOf(E) = {e, f} \/ eventsOf(E) = {f}
    <3>1. CASE now.roles[r] = "none"
      <4>1. E = <<e>> \o <<f>>
        BY <3>1
      <4>2. E \in Seq(Event) /\ Len(E) = 2 /\ E[1] = e /\ E[2] = f
        BY <2>1, <4>1
      <4>. HIDE DEF E
      <4>3. eventsOf(E) = {e, f}
        BY <4>2 DEF eventsOf
      <4>. QED
        BY <4>2, <4>3
    <3>2. CASE now.roles[r] # "none"
      <4>1. E = <<f>>
        BY <2>1, <3>2
      <4>2. eventsOf(<<f>>) = {f} /\ <<f>> \in Seq(Event) /\ Len(<<f>>) = 1
        BY <2>1 DEF eventsOf
      <4>. HIDE DEF E
      <4>. QED
        BY <4>1, <4>2
    <3>. QED
      BY <3>1, <3>2
  <2>. HIDE DEF E, s
  <2>8. Explained(eventsOf(E), now, s)
    BY <2>1, <2>4, <2>5, <2>6, <2>7
    DEF Explained, Tells, RolesTold, RoleTold, OwnerKinds, CustodianKinds, QuarantineKinds,
        SeenKinds, RoleKinds
  <2>. QED
    BY <2>0, <2>2, <2>3, <2>6, <2>7, <2>8 DEF Explains
<1>. QED
  BY <1>4, <1>5, <1>6, <1>7, <1>8, <1>9, <1>10, <1>11, <1>12, <1>13, <1>14, <1>15
  DEF ChainNext

\* The chain keeps its type and only grows.
LEMMA ChainGrows ==
  ASSUME topic \in Topics, blocks \in Seq(Block), Len(blocks) <= MaxBlock, pending \in Block,
         ChainNext
  PROVE  /\ topic' = topic
         /\ blocks' \in Seq(Block) /\ Len(blocks') <= MaxBlock /\ pending' \in Block
         /\ Len(blocks) <= Len(blocks')
         /\ \A b \in 1..Len(blocks) : blocks'[b] = blocks[b]
<1>1. thisBlock \in Nat
  BY DEF thisBlock
<1>2. CASE Mined
  <2>1. pending.state \in State /\ <<>> \in Seq(Event)
    BY DEF Block
  <2>2. [pending EXCEPT !.events = <<>>] \in Block
    BY <2>1 DEF Block
  <2>. QED
    BY <2>2, <1>2, EventsAssumption DEF Mined
<1>3. ASSUME NEW N, NEW s, Explains(N, s)
      PROVE  UNCHANGED <<topic, blocks>> /\ pending' \in Block
  BY <1>3, TransactType DEF Explains
<1>. QED
  BY <1>1, <1>2, <1>3, TransactionKinds

-----------------------------------------------------------------------------
\* What the mined blocks hold never changes.
Grown == /\ blocks' \in Seq(Block) /\ Len(blocks) <= Len(blocks')
         /\ \A b \in 1..Len(blocks) : blocks'[b] = blocks[b]

LEMMA LogsStay ==
  ASSUME Grown, blocks \in Seq(Block), NEW first \in Nat \ {0}, NEW last \in 0..Len(blocks)
  PROVE  /\ logsOf(first, last)' = logsOf(first, last)
         /\ \A k \in logsOf(first, last) : event(k)' = event(k)
<1>1. ASSUME NEW k \in Keys, k[1] \in first..last PROVE blocks'[k[1]] = blocks[k[1]]
  BY <1>1, EventsAssumption DEF Keys, Grown
<1>. QED
  BY <1>1 DEF logsOf, event

LEMMA EventOfLog ==
  ASSUME blocks \in Seq(Block), NEW first \in Nat \ {0}, NEW last \in 0..Len(blocks),
         NEW k \in logsOf(first, last)
  PROVE  event(k) \in Event
<1>1. k \in Keys /\ k[1] \in 1..Len(blocks) /\ k[2] \in DOMAIN blocks[k[1]].events
  BY EventsAssumption DEF logsOf, Keys
<1>2. blocks[k[1]] \in Block
  BY <1>1
<1>3. blocks[k[1]].events \in Seq(Event)
  BY <1>2 DEF Block
<1>. QED
  BY <1>1, <1>3 DEF event

LEMMA NextStays ==
  ASSUME UNCHANGED <<blocks, todo>>, NEW k
  PROVE  isNext(k)' = isNext(k)
<1>1. ASSUME NEW j PROVE rank(j)' = rank(j)
  <2>1. event(j)' = event(j)
    BY DEF event
  <2>. QED
    BY <2>1 DEF rank
<1>2. ASSUME NEW i, NEW j PROVE handledBefore(i, j)' = handledBefore(i, j)
  BY <1>1 DEF handledBefore, precedes
<1>. QED
  BY <1>2 DEF isNext

\* The order of the tick is strict, so that one event is next.
LEMMA OneIsNext ==
  ASSUME todo \subseteq Keys, NEW j, NEW k, isNext(j), isNext(k)
  PROVE  j = k
<1>1. j \in Keys /\ k \in Keys
  BY DEF isNext
<1>2. j[1] \in Int /\ j[2] \in Int /\ k[1] \in Int /\ k[2] \in Int /\ rank(j) \in Int /\ rank(k) \in Int
  BY <1>1, EventsAssumption DEF Keys, rank
<1>3. j # k => handledBefore(j, k) /\ handledBefore(k, j)
  BY DEF isNext
<1>. QED
  BY <1>2, <1>3 DEF handledBefore, precedes

-----------------------------------------------------------------------------
\* Where the tick stands: what it has not dealt with is in its batch, what it
\* has dealt with is stored, and so is the event whose effects it applies.
BatchInv ==
  /\ cursor <= until
  /\ todo \subseteq logsOf(cursor + 1, until)
  /\ phase # "idle" => logsOf(cursor + 1, until) \subseteq stored \cup todo
  /\ phase \in {"first", "second"} => \A k \in todo : isNext(k) => k \in stored

IInv == TypeOK /\ BatchInv /\ NoEventMissed

LEMMA IInvInit == Init => IInv
<1>. SUFFICES ASSUME Init PROVE IInv
  OBVIOUS
<1>1. Genesis \in State
  BY EventsAssumption DEF Genesis, State, Did
<1>2. pending \in Block /\ blocks \in Seq(Block) /\ Len(blocks) = 0
  BY <1>1 DEF Init, ChainInit, Block
<1>3. TypeOK
  BY <1>1, <1>2, EventsAssumption, IndexerAssumption
  DEF Init, ChainInit, TypeOK, NoRow, CaseRow, GrantRow, State
<1>. QED
  BY <1>2, <1>3 DEF Init, IInv, BatchInv, NoEventMissed, logsOf

LEMMA IInvChain ==
  ASSUME IInv, ChainNext, UNCHANGED <<dbVars, tickVars, aborts, orderly>>
  PROVE  IInv'
<1>1. Grown /\ Len(blocks') <= MaxBlock /\ pending' \in Block /\ topic' = topic
  BY ChainGrows DEF IInv, TypeOK, Grown
<1>2. TypeOK'
  BY <1>1 DEF IInv, TypeOK, Grown, dbVars, derivedVars, tickVars, Keys
<1>3. logsOf(cursor + 1, until)' = logsOf(cursor + 1, until)
      /\ logsOf(1, cursor)' = logsOf(1, cursor)
      /\ \A k \in todo : event(k)' = event(k)
  BY <1>1, LogsStay DEF IInv, TypeOK, BatchInv, dbVars, derivedVars, tickVars
<1>4. \A k \in todo : isNext(k)' = isNext(k)
  BY <1>3 DEF isNext, handledBefore, rank, precedes, tickVars
<1>. QED
  BY <1>2, <1>3, <1>4 DEF IInv, BatchInv, NoEventMissed, dbVars, derivedVars, tickVars

LEMMA IInvPoll ==
  ASSUME IInv, Poll
  PROVE  IInv'
<1>1. lastOfBatch \in after(cursor)..Len(blocks)
  BY IndexerAssumption DEF IInv, TypeOK, Poll, lastOfBatch, after, head
<1>2. logsOf(after(cursor), lastOfBatch) \subseteq Keys
  BY DEF logsOf
<1>3. orderly' \in BOOLEAN
  BY DEF IInv, TypeOK, Poll
<1>4. TypeOK'
  BY <1>1, <1>2, <1>3 DEF IInv, TypeOK, Poll, chainVars, dbVars, derivedVars, after
<1>5. logsOf(cursor + 1, until)' = logsOf(after(cursor), lastOfBatch)
      /\ logsOf(1, cursor)' = logsOf(1, cursor)
  BY DEF Poll, logsOf, chainVars, dbVars, derivedVars, after
<1>. QED
  BY <1>1, <1>4, <1>5 DEF IInv, TypeOK, BatchInv, NoEventMissed, Poll, dbVars, derivedVars, after

LEMMA IInvStore ==
  ASSUME IInv, NEW k \in Keys, Store(k)
  PROVE  IInv'
<1>1. TypeOK'
  BY DEF IInv, TypeOK, Store, chainVars, derivedVars
<1>2. logsOf(cursor + 1, until)' = logsOf(cursor + 1, until)
      /\ logsOf(1, cursor)' = logsOf(1, cursor)
  BY DEF Store, logsOf, chainVars
<1>3. ASSUME phase' = "first", NEW j, isNext(j)' PROVE j \in stored'
  <2>1. todo' = todo
    BY <1>3 DEF Store
  <2>2. isNext(j)
    BY <2>1, <1>3, NextStays DEF Store, chainVars
  <2>3. j = k
    BY <2>2, OneIsNext DEF Store, IInv, TypeOK
  <2>. QED
    BY <2>3 DEF Store
<1>. QED
  BY <1>1, <1>2, <1>3 DEF IInv, BatchInv, NoEventMissed, Store

LEMMA IInvWriteFirst ==
  ASSUME IInv, NEW k \in Keys, WriteFirst(k)
  PROVE  IInv'
<1>1. event(k) \in Event
  BY EventOfLog DEF IInv, TypeOK, BatchInv, WriteFirst, isNext
<1>2. k[1] \in 0..MaxBlock
  BY EventsAssumption DEF Keys
<1>3. assetEffect(event(k), k[1]) \in Row
  BY <1>1, <1>2 DEF IInv, TypeOK, Row, assetEffect, Event
<1>4. attested' \subseteq Nat
  BY <1>1 DEF IInv, TypeOK, WriteFirst, Event
<1>5. grantEffect(event(k)) \in [Roles -> GrantRow]
  BY DEF IInv, TypeOK, grantEffect, GrantRow
<1>6. didEffect(event(k)) \in Did
  BY <1>1 DEF IInv, TypeOK, didEffect, Did, Event
<1>7. TypeOK'
  BY <1>3, <1>4, <1>5, <1>6 DEF IInv, TypeOK, Row, WriteFirst, chainVars
<1>8. logsOf(cursor + 1, until)' = logsOf(cursor + 1, until)
      /\ logsOf(1, cursor)' = logsOf(1, cursor)
  BY DEF WriteFirst, logsOf, chainVars
<1>9. \A j \in todo : isNext(j)' = isNext(j)
  BY NextStays DEF WriteFirst, chainVars
<1>. QED
  BY <1>7, <1>8, <1>9 DEF IInv, BatchInv, NoEventMissed, WriteFirst

LEMMA IInvWriteSecond ==
  ASSUME IInv, NEW k \in Keys, WriteSecond(k)
  PROVE  IInv'
<1>1. divergenceEffect(event(k)) \in [1..MaxTxs -> CaseRow]
  BY DEF IInv, TypeOK, divergenceEffect, confirmerOf, CaseRow
<1>2. freshEffect(event(k), k[1]) \in Row
  <2>1. k[1] \in 0..MaxBlock /\ row \in Row
    BY EventsAssumption DEF IInv, TypeOK, Row, Keys
  <2>. QED
    BY <2>1 DEF freshEffect, Row
<1>3. TypeOK'
  BY <1>1, <1>2 DEF IInv, TypeOK, Row, WriteSecond, chainVars
<1>4. logsOf(cursor + 1, until)' = logsOf(cursor + 1, until)
      /\ logsOf(1, cursor)' = logsOf(1, cursor)
  BY DEF WriteSecond, logsOf, chainVars
<1>5. k \in stored
  <2>1. k \in todo
    BY DEF WriteSecond, isNext
  <2>. QED
    BY <2>1 DEF IInv, BatchInv, WriteSecond
<1>. QED
  BY <1>3, <1>4, <1>5 DEF IInv, BatchInv, NoEventMissed, WriteSecond

LEMMA IInvAdvance ==
  ASSUME IInv, Advance
  PROVE  IInv'
<1>1. TypeOK'
  BY DEF IInv, TypeOK, Advance, chainVars, derivedVars
<1>2. logsOf(1, cursor)' \subseteq logsOf(1, cursor) \cup logsOf(cursor + 1, until)
  BY DEF IInv, TypeOK, Advance, logsOf, chainVars, Keys
<1>. QED
  BY <1>1, <1>2 DEF IInv, TypeOK, BatchInv, NoEventMissed, Advance

LEMMA IInvAbort ==
  ASSUME IInv, Abort
  PROVE  IInv'
<1>1. TypeOK'
  BY IndexerAssumption DEF IInv, TypeOK, Abort, chainVars, dbVars, derivedVars
<1>2. logsOf(1, cursor)' = logsOf(1, cursor)
  BY DEF Abort, logsOf, chainVars, dbVars, derivedVars
<1>. QED
  BY <1>1, <1>2 DEF IInv, TypeOK, BatchInv, NoEventMissed, Abort, dbVars, derivedVars

LEMMA IInvNext == IInv /\ [Next]_vars => IInv'
<1>. SUFFICES ASSUME IInv, [Next]_vars PROVE IInv'
  OBVIOUS
<1>1. CASE UNCHANGED vars
  <2>1. TypeOK'
    BY <1>1 DEF IInv, TypeOK, vars, chainVars, dbVars, derivedVars, tickVars
  <2>2. /\ blocks' = blocks /\ todo' = todo /\ stored' = stored
        /\ cursor' = cursor /\ until' = until /\ phase' = phase
    BY <1>1 DEF vars, chainVars, dbVars, tickVars
  <2>3. /\ logsOf(cursor + 1, until)' = logsOf(cursor + 1, until)
        /\ logsOf(1, cursor)' = logsOf(1, cursor)
    BY <2>2 DEF logsOf
  <2>4. \A k : isNext(k)' = isNext(k)
    BY <2>2, NextStays
  <2>5. BatchInv' /\ NoEventMissed'
    BY <2>2, <2>3, <2>4 DEF IInv, BatchInv, NoEventMissed
  <2>. QED
    BY <2>1, <2>5 DEF IInv
<1>. QED
  BY <1>1, IInvChain, IInvPoll, IInvStore, IInvWriteFirst, IInvWriteSecond, IInvAdvance,
     IInvAbort
  DEF Next, Tick

-----------------------------------------------------------------------------
\* The chain, the rows and the tick of indexer/src/index.ts keep their types.
THEOREM IndexerTyping == Spec => []TypeOK
<1>1. IInv => TypeOK
  BY DEF IInv
<1>. QED
  BY <1>1, IInvInit, IInvNext, PTL DEF Spec

\* Whatever the batches, failures and retries, IndexerCursor.lastBlock never
\* passes an event without a ChainEvent row (index.ts, tick).
THEOREM EveryEventStored == Spec => []NoEventMissed
<1>1. IInv => NoEventMissed
  BY DEF IInv
<1>. QED
  BY <1>1, IInvInit, IInvNext, PTL DEF Spec

-----------------------------------------------------------------------------
\* The reconstruction of routes/audit.ts.  What a block's events tell, n being
\* the number of its transactions: a part that none tells of is as before, a
\* part that some tell of is as one of them tells, and the events of a block's
\* only transaction tell nothing else.
Settled(S, n, kinds, told, was, is) ==
  /\ (\A e \in S : e.kind \notin kinds) => is = was
  /\ (\E e \in S : e.kind \in kinds) => \E e \in S : e.kind \in kinds /\ told[e] = is
  /\ n <= 1 => \A e \in S : e.kind \in kinds => told[e] = is

RolesSettled(S, n, s, then) ==
  /\ (\A e \in S : e.kind \notin RoleKinds) => heldIn(then) = heldIn(s)
  /\ n <= 1 => \A e \in S : e.kind \in RoleKinds => RoleTold(e, s, then)

BlockSettled(S, n, s, then) ==
  /\ Settled(S, n, OwnerKinds, ownerTold, s.owner, then.owner)
  /\ Settled(S, n, CustodianKinds, custodianTold, s.custodian, then.custodian)
  /\ Settled(S, n, QuarantineKinds, quarantineTold, s.quarantined, then.quarantined)
  /\ Settled(S, n, SeenKinds, seenTold, s.seen, then.seen)
  /\ RolesSettled(S, n, s, then)

\* One more transaction in the block.
LEMMA SettledStep ==
  ASSUME NEW S, NEW n \in Nat, n = 0 => S = {}, NEW N, NEW kinds, NEW told, NEW was, NEW is, NEW then,
         Settled(S, n, kinds, told, was, is), Tells(N, kinds, told, is, then)
  PROVE  Settled(S \cup N, n + 1, kinds, told, was, then)
<1>1. ASSUME \A e \in S \cup N : e.kind \notin kinds PROVE then = was
  BY <1>1 DEF Settled, Tells
<1>2. ASSUME \E e \in S \cup N : e.kind \in kinds
      PROVE  \E e \in S \cup N : e.kind \in kinds /\ told[e] = then
  <2>1. CASE \E e \in N : e.kind \in kinds
    BY <2>1 DEF Tells
  <2>2. CASE \A e \in N : e.kind \notin kinds
    <3>1. then = is /\ \E e \in S : e.kind \in kinds
      BY <1>2, <2>2 DEF Tells
    <3>. QED
      BY <3>1 DEF Settled
  <2>. QED
    BY <2>1, <2>2
<1>3. ASSUME n + 1 <= 1, NEW e \in S \cup N, e.kind \in kinds PROVE told[e] = then
  BY <1>3 DEF Tells
<1>. QED
  BY <1>1, <1>2, <1>3 DEF Settled

LEMMA RolesSettledStep ==
  ASSUME NEW S, NEW n \in Nat, n = 0 => S = {}, NEW N, NEW s, NEW is, NEW then,
         RolesSettled(S, n, s, is), RolesTold(N, is, then)
  PROVE  RolesSettled(S \cup N, n + 1, s, then)
<1>1. ASSUME \A e \in S \cup N : e.kind \notin RoleKinds PROVE heldIn(then) = heldIn(s)
  BY <1>1 DEF RolesSettled, RolesTold
<1>2. ASSUME n + 1 <= 1, NEW e \in S \cup N, e.kind \in RoleKinds PROVE RoleTold(e, s, then)
  <2>1. S = {} /\ e \in N
    BY <1>2
  <2>2. heldIn(is) = heldIn(s) /\ RoleTold(e, is, then)
    BY <1>2, <2>1 DEF RolesSettled, RolesTold
  <2>. QED
    BY <2>2 DEF RoleTold
<1>. QED
  BY <1>1, <1>2 DEF RolesSettled

LEMMA BlockSettledStep ==
  ASSUME NEW S, NEW n \in Nat, n = 0 => S = {}, NEW N, NEW s, NEW is, NEW then,
         BlockSettled(S, n, s, is), Explained(N, is, then)
  PROVE  BlockSettled(S \cup N, n + 1, s, then)
  BY SettledStep, RolesSettledStep DEF BlockSettled, Explained

\* The state after the block, and the latest events of some kinds up to it.
stateAt(t) == IF t = 0 THEN Genesis ELSE blocks[t].state
latestIn(t, kinds) ==
  {k \in logsOf(1, t) : /\ event(k).kind \in kinds
                        /\ \A j \in logsOf(1, t) : event(j).kind \in kinds => j[1] <= k[1]}
latestEvents(t, kinds) == {event(k) : k \in latestIn(t, kinds)}

singly(t)  == \A b \in 1..t : txsOf(b) <= 1
oneRole(t) == \A b \in 1..t : \A r, q \in heldIn(blocks[b].state) : r = q

\* What the latest events E tell of a part: its value, which is the one it had
\* at first if there is none.
Exactly(E, told, is, first, single) ==
  /\ E = {} => is = first
  /\ E # {} => \E e \in E : told[e] = is
  /\ single => \A e \in E : told[e] = is

\* And of the roles: the latest grant is of one that is held, and if there was
\* one at a time then, while one is held, the latest event is its grant.
ExactlyRoles(E, s, single, one) ==
  /\ single => \A e \in E : e.kind = "RoleRevoked" \/ e.role \in heldIn(s)
  /\ single /\ one /\ heldIn(s) # {} => E # {} /\ \A e \in E : e.kind # "RoleRevoked"

Reconstructs(t) ==
  LET s == stateAt(t) IN
  /\ Exactly(latestEvents(t, OwnerKinds), ownerTold, s.owner, Nobody, singly(t))
  /\ Exactly(latestEvents(t, CustodianKinds), custodianTold, s.custodian, Nobody, singly(t))
  /\ Exactly(latestEvents(t, QuarantineKinds), quarantineTold, s.quarantined, FALSE, singly(t))
  /\ Exactly(latestEvents(t, SeenKinds), seenTold, s.seen, 0, singly(t))
  /\ ExactlyRoles(latestEvents(t, RoleKinds), s, singly(t), oneRole(t))

newTxs == now.txs - stateAt(Len(blocks)).txs
Explaining ==
  /\ newTxs \in Nat /\ Len(pending.events) <= 3 * newTxs
  /\ BlockSettled(eventsOf(pending.events), newTxs, stateAt(Len(blocks)), now)
  /\ Owned(now) /\ \A t \in 1..Len(blocks) : Owned(blocks[t].state)
  /\ \A t \in 1..Len(blocks) : Len(blocks[t].events) <= 3 * MaxTxs
ChainTells == Explaining /\ \A t \in 0..Len(blocks) : Reconstructs(t)

\* The next block, with the events S: those that tell of a part are the latest,
\* and if there is none, the latest are as before.
LEMMA ExactlyNext ==
  ASSUME NEW E, NEW F, NEW S, NEW kinds, NEW told, NEW was, NEW is, NEW first, NEW n \in Nat,
         NEW d \in BOOLEAN, NEW b \in BOOLEAN, b => d /\ n <= 1,
         F = IF \E e \in S : e.kind \in kinds THEN {e \in S : e.kind \in kinds} ELSE E,
         Settled(S, n, kinds, told, was, is), Exactly(E, told, was, first, d)
  PROVE  Exactly(F, told, is, first, b)
<1>1. CASE \E e \in S : e.kind \in kinds
  BY <1>1 DEF Settled, Exactly
<1>2. CASE ~ \E e \in S : e.kind \in kinds
  BY <1>2 DEF Settled, Exactly
<1>. QED
  BY <1>1, <1>2

LEMMA ExactlyRolesNext ==
  ASSUME NEW E, NEW F, NEW S, NEW s, NEW then, NEW n \in Nat,
         NEW d \in BOOLEAN, NEW b \in BOOLEAN, b => d /\ n <= 1,
         NEW o \in BOOLEAN, NEW p \in BOOLEAN,
         p => o /\ \A r, q \in heldIn(then) : r = q,
         o => \A r, q \in heldIn(s) : r = q,
         F = IF \E e \in S : e.kind \in RoleKinds THEN {e \in S : e.kind \in RoleKinds} ELSE E,
         RolesSettled(S, n, s, then), ExactlyRoles(E, s, d, o)
  PROVE  ExactlyRoles(F, then, b, p)
<1>1. CASE \E e \in S : e.kind \in RoleKinds
  <2>1. ASSUME b, NEW e \in F PROVE RoleTold(e, s, then)
    BY <1>1, <2>1 DEF RolesSettled
  <2>2. ASSUME b, NEW e \in F PROVE e.kind = "RoleRevoked" \/ e.role \in heldIn(then)
    BY <2>1, <2>2 DEF RoleTold
  <2>3. ASSUME b, p, heldIn(then) # {}, NEW e \in F, e.kind = "RoleRevoked" PROVE FALSE
    <3>1. e.role \in heldIn(s) /\ heldIn(then) = heldIn(s) \ {e.role}
      BY <2>1, <2>3 DEF RoleTold
    <3>. QED
      BY <2>3, <3>1
  <2>4. F # {}
    BY <1>1
  <2>. QED
    BY <2>2, <2>3, <2>4 DEF ExactlyRoles
<1>2. CASE ~ \E e \in S : e.kind \in RoleKinds
  <2>1. heldIn(then) = heldIn(s) /\ F = E
    BY <1>2 DEF RolesSettled
  <2>. QED
    BY <2>1 DEF ExactlyRoles
<1>. QED
  BY <1>1, <1>2

-----------------------------------------------------------------------------
\* What the latest events of the mined blocks are does not change.
LEMMA LatestStay ==
  ASSUME Grown, blocks \in Seq(Block), NEW t \in 0..Len(blocks), NEW kinds
  PROVE  latestEvents(t, kinds)' = latestEvents(t, kinds)
<1>1. /\ logsOf(1, t)' = logsOf(1, t)
      /\ \A k \in logsOf(1, t) : event(k)' = event(k)
  BY LogsStay
<1>2. latestIn(t, kinds)' = latestIn(t, kinds)
  BY <1>1 DEF latestIn
<1>3. \A k \in latestIn(t, kinds) : event(k)' = event(k)
  BY <1>1 DEF latestIn
<1>. QED
  BY <1>2, <1>3 DEF latestEvents

LEMMA ReconstructsStay ==
  ASSUME Grown, blocks \in Seq(Block), NEW t \in 0..Len(blocks), Reconstructs(t)
  PROVE  Reconstructs(t)'
<1>1. \A b \in 1..t : blocks'[b] = blocks[b]
  BY DEF Grown
<1>2. stateAt(t)' = stateAt(t)
  BY <1>1 DEF stateAt
<1>3. \A b \in 1..t : txsOf(b)' = txsOf(b)
  <2>. TAKE b \in 1..t
  <2>1. b = 1 \/ b - 1 \in 1..t
    OBVIOUS
  <2>. QED
    BY <1>1, <2>1 DEF txsOf
<1>4. singly(t)' = singly(t)
  BY <1>3 DEF singly
<1>5. oneRole(t)' = oneRole(t)
  BY <1>1 DEF oneRole
<1>6. /\ latestEvents(t, OwnerKinds)' = latestEvents(t, OwnerKinds)
      /\ latestEvents(t, CustodianKinds)' = latestEvents(t, CustodianKinds)
      /\ latestEvents(t, QuarantineKinds)' = latestEvents(t, QuarantineKinds)
      /\ latestEvents(t, SeenKinds)' = latestEvents(t, SeenKinds)
      /\ latestEvents(t, RoleKinds)' = latestEvents(t, RoleKinds)
  BY LatestStay
<1>. QED
  BY <1>2, <1>4, <1>5, <1>6 DEF Reconstructs

\* A new block has the latest events, unless it has none of the kinds.
LEMMA LatestNext ==
  ASSUME blocks \in Seq(Block), pending \in Block, Mined, Len(pending.events) <= 3 * MaxTxs,
         NEW L, NEW u, L = Len(blocks), u = L + 1, NEW kinds
  PROVE  LET S == eventsOf(pending.events) IN
         latestEvents(u, kinds)' = IF \E e \in S : e.kind \in kinds
                                   THEN {e \in S : e.kind \in kinds}
                                   ELSE latestEvents(L, kinds)
<1>. DEFINE D == DOMAIN pending.events
            S == eventsOf(pending.events)
            new == {<<u, i>> : i \in D}
<1>1. L \in Nat /\ u \in 1..MaxBlock /\ D = 1..Len(pending.events) /\ Len(pending.events) \in Nat
  BY EventsAssumption DEF Mined, Block
<1>2. Grown /\ blocks'[u] = pending /\ Len(blocks') = u
  BY DEF Mined, Grown
<1>3. /\ logsOf(1, L)' = logsOf(1, L)
      /\ \A k \in logsOf(1, L) : event(k)' = event(k)
  BY <1>2, LogsStay
<1>4. D \subseteq 1..(3 * MaxTxs)
  BY <1>1, EventsAssumption
<1>5. ASSUME NEW k PROVE k \in logsOf(1, u)' <=> k \in logsOf(1, L) \/ k \in new
  <2>1. ASSUME k \in logsOf(1, u)' PROVE k \in logsOf(1, L) \/ k \in new
    <3>1. k \in Keys /\ k[1] \in 1..u /\ k[2] \in DOMAIN blocks'[k[1]].events
      BY <2>1 DEF logsOf, Keys
    <3>2. CASE k[1] = u
      <4>1. k = <<u, k[2]>>
        BY <3>1, <3>2 DEF Keys
      <4>. QED
        BY <4>1, <3>1, <3>2, <1>2
    <3>3. CASE k[1] # u
      <4>1. k[1] \in 1..L
        BY <3>1, <3>3, <1>1
      <4>. QED
        BY <4>1, <3>1, <1>2 DEF logsOf, Grown
    <3>. QED
      BY <3>2, <3>3
  <2>2. ASSUME k \in logsOf(1, L) PROVE k \in logsOf(1, u)'
    <3>1. k \in Keys /\ k[1] \in 1..L /\ k[2] \in DOMAIN blocks[k[1]].events
      BY <2>2 DEF logsOf
    <3>2. k[1] \in 1..u /\ blocks'[k[1]] = blocks[k[1]]
      BY <3>1, <1>1, <1>2 DEF Grown
    <3>. QED
      BY <3>1, <3>2 DEF logsOf, Keys
  <2>3. ASSUME k \in new PROVE k \in logsOf(1, u)'
    <3>1. PICK i \in D : k = <<u, i>>
      BY <2>3
    <3>. QED
      BY <3>1, <1>1, <1>2, <1>4 DEF logsOf, Keys
  <2>. QED
    BY <2>1, <2>2, <2>3
<1>6. \A i \in D : event(<<u, i>>)' = pending.events[i]
  BY <1>2 DEF event
<1>7. \A k \in logsOf(1, L) : k[1] \in 1..L
  BY DEF logsOf
<1>8. \A k \in logsOf(1, L) : k[1] < u
  BY <1>1, <1>7
<1>9. CASE \E e \in S : e.kind \in kinds
  <2>1. PICK i \in D : pending.events[i].kind \in kinds
    BY <1>9 DEF eventsOf
  <2>2. <<u, i>> \in logsOf(1, u)' /\ event(<<u, i>>)'.kind \in kinds
    BY <2>1, <1>5, <1>6
  <2>3. ASSUME NEW k PROVE k \in latestIn(u, kinds)' <=> k \in new /\ event(k)'.kind \in kinds
    <3>1. ASSUME k \in latestIn(u, kinds)' PROVE k \in new /\ event(k)'.kind \in kinds
      <4>1. k \in logsOf(1, u)' /\ event(k)'.kind \in kinds /\ u <= k[1]
        BY <3>1, <2>2 DEF latestIn
      <4>2. k \notin logsOf(1, L)
        BY <4>1, <1>1, <1>7, <1>8
      <4>. QED
        BY <4>1, <4>2, <1>5
    <3>2. ASSUME k \in new, event(k)'.kind \in kinds PROVE k \in latestIn(u, kinds)'
      <4>1. k \in logsOf(1, u)' /\ k[1] = u
        BY <3>2, <1>5
      <4>2. \A j \in logsOf(1, u)' : j[1] <= u
        BY <1>1 DEF logsOf
      <4>. QED
        BY <3>2, <4>1, <4>2 DEF latestIn
    <3>. QED
      BY <3>1, <3>2
  <2>4. \A k : k \in latestIn(u, kinds)' => \E n \in D : k = <<u, n>> /\ event(k)' = pending.events[n]
    BY <2>3, <1>6
  <2>5. ASSUME NEW n \in D, pending.events[n].kind \in kinds PROVE <<u, n>> \in latestIn(u, kinds)'
    BY <2>3, <2>5, <1>6
  <2>6. ASSUME NEW e, e \in latestEvents(u, kinds)' PROVE e \in S /\ e.kind \in kinds
    <3>1. PICK k : k \in latestIn(u, kinds)' /\ e = event(k)'
      BY <2>6 DEF latestEvents
    <3>. QED
      BY <3>1, <2>3, <2>4 DEF eventsOf
  <2>7. ASSUME NEW e \in S, e.kind \in kinds PROVE e \in latestEvents(u, kinds)'
    <3>1. PICK n \in D : e = pending.events[n]
      BY <2>7 DEF eventsOf
    <3>. QED
      BY <3>1, <2>5, <2>7, <1>6 DEF latestEvents
  <2>. QED
    BY <1>9, <2>6, <2>7
<1>10. CASE ~ \E e \in S : e.kind \in kinds
  <2>1. \A k \in new : event(k)'.kind \notin kinds
    BY <1>10, <1>6 DEF eventsOf
  <2>2. ASSUME NEW k PROVE k \in latestIn(u, kinds)' <=> k \in latestIn(L, kinds)
    BY <2>1, <1>3, <1>5 DEF latestIn
  <2>3. latestIn(u, kinds)' = latestIn(L, kinds) /\ latestIn(L, kinds) \subseteq logsOf(1, L)
    BY <2>2 DEF latestIn
  <2>4. latestEvents(u, kinds)' = latestEvents(L, kinds)
    BY <2>3, <1>3 DEF latestEvents
  <2>. QED
    BY <1>10, <2>4
<1>. QED
  BY <1>9, <1>10

LEMMA ReconstructsNext ==
  ASSUME blocks \in Seq(Block), pending \in Block, Mined, Explaining,
         Len(pending.events) <= 3 * MaxTxs,
         NEW L, NEW u, L = Len(blocks), u = L + 1, Reconstructs(L)
  PROVE  Reconstructs(u)'
<1>. DEFINE S == eventsOf(pending.events)
            s == stateAt(L)
            then == pending.state
            n == newTxs
<1>1. L \in Nat /\ u \in Nat \ {0} /\ u - 1 = L
  OBVIOUS
<1>2. Grown /\ blocks'[u] = pending /\ \A b \in 1..L : blocks'[b] = blocks[b]
  BY DEF Mined, Grown
<1>3. stateAt(u)' = then
  BY <1>1, <1>2 DEF stateAt
<1>4. txsOf(u)' = n
  <2>1. CASE L = 0
    <3>1. txsOf(u)' = then.txs - 0
      BY <2>1, <1>2 DEF txsOf
    <3>2. n = then.txs - 0
      BY <2>1 DEF newTxs, stateAt, Genesis, now
    <3>. QED
      BY <3>1, <3>2
  <2>2. CASE L # 0
    <3>1. blocks'[L] = blocks[L]
      BY <2>2, <1>1, <1>2
    <3>. QED
      BY <2>2, <3>1, <1>1, <1>2 DEF txsOf, newTxs, stateAt, now
  <2>. QED
    BY <2>1, <2>2
<1>5. \A b \in 1..L : txsOf(b)' = txsOf(b)
  <2>. TAKE b \in 1..L
  <2>1. b = 1 \/ b - 1 \in 1..L
    OBVIOUS
  <2>. QED
    BY <1>2, <2>1 DEF txsOf
<1>6. singly(u)' => singly(L) /\ n <= 1
  <2>1. 1..L \subseteq 1..u /\ u \in 1..u
    BY <1>1
  <2>. QED
    BY <2>1, <1>4, <1>5 DEF singly
<1>7. oneRole(u)' => oneRole(L) /\ \A r, q \in heldIn(then) : r = q
  <2>1. 1..L \subseteq 1..u /\ u \in 1..u
    BY <1>1
  <2>. QED
    BY <2>1, <1>2 DEF oneRole
<1>8. oneRole(L) => \A r, q \in heldIn(s) : r = q
  <2>1. CASE L = 0
    BY <2>1 DEF stateAt, heldIn, Genesis
  <2>2. CASE L # 0
    <3>1. L \in 1..L /\ s = blocks[L].state
      BY <2>2, <1>1 DEF stateAt
    <3>. QED
      BY <3>1 DEF oneRole
  <2>. QED
    BY <2>1, <2>2
<1>9. n \in Nat /\ BlockSettled(S, n, s, then)
  BY DEF Explaining, now
<1>10. singly(L) \in BOOLEAN /\ singly(u)' \in BOOLEAN /\ oneRole(L) \in BOOLEAN /\ oneRole(u)' \in BOOLEAN
  BY DEF singly, oneRole
<1>11. ASSUME NEW kinds
       PROVE  latestEvents(u, kinds)' = IF \E e \in S : e.kind \in kinds
                                        THEN {e \in S : e.kind \in kinds}
                                        ELSE latestEvents(L, kinds)
  BY LatestNext
<1>. HIDE DEF S, n
<1>12. Exactly(latestEvents(u, OwnerKinds)', ownerTold, then.owner, Nobody, singly(u)')
  <2>1. Exactly(latestEvents(L, OwnerKinds), ownerTold, s.owner, Nobody, singly(L))
    BY DEF Reconstructs
  <2>2. Settled(S, n, OwnerKinds, ownerTold, s.owner, then.owner)
    BY <1>9 DEF BlockSettled
  <2>3. latestEvents(u, OwnerKinds)' = IF \E e \in S : e.kind \in OwnerKinds
                                     THEN {e \in S : e.kind \in OwnerKinds}
                                     ELSE latestEvents(L, OwnerKinds)
    BY <1>11
  <2>. HIDE DEF s, then
  <2>. QED
    BY <2>1, <2>2, <2>3, <1>6, <1>9, <1>10, ExactlyNext
<1>13. Exactly(latestEvents(u, CustodianKinds)', custodianTold, then.custodian, Nobody, singly(u)')
  <2>1. Exactly(latestEvents(L, CustodianKinds), custodianTold, s.custodian, Nobody, singly(L))
    BY DEF Reconstructs
  <2>2. Settled(S, n, CustodianKinds, custodianTold, s.custodian, then.custodian)
    BY <1>9 DEF BlockSettled
  <2>3. latestEvents(u, CustodianKinds)' = IF \E e \in S : e.kind \in CustodianKinds
                                     THEN {e \in S : e.kind \in CustodianKinds}
                                     ELSE latestEvents(L, CustodianKinds)
    BY <1>11
  <2>. HIDE DEF s, then
  <2>. QED
    BY <2>1, <2>2, <2>3, <1>6, <1>9, <1>10, ExactlyNext
<1>14. Exactly(latestEvents(u, QuarantineKinds)', quarantineTold, then.quarantined, FALSE, singly(u)')
  <2>1. Exactly(latestEvents(L, QuarantineKinds), quarantineTold, s.quarantined, FALSE, singly(L))
    BY DEF Reconstructs
  <2>2. Settled(S, n, QuarantineKinds, quarantineTold, s.quarantined, then.quarantined)
    BY <1>9 DEF BlockSettled
  <2>3. latestEvents(u, QuarantineKinds)' = IF \E e \in S : e.kind \in QuarantineKinds
                                     THEN {e \in S : e.kind \in QuarantineKinds}
                                     ELSE latestEvents(L, QuarantineKinds)
    BY <1>11
  <2>. HIDE DEF s, then
  <2>4. PICK first : first = FALSE
    OBVIOUS
  <2>5. Exactly(latestEvents(L, QuarantineKinds), quarantineTold, s.quarantined, first, singly(L))
    BY <2>1, <2>4
  <2>6. Exactly(latestEvents(u, QuarantineKinds)', quarantineTold, then.quarantined, first, singly(u)')
    BY <2>2, <2>3, <2>5, <1>6, <1>9, <1>10, ExactlyNext
  <2>. QED
    BY <2>4, <2>6
<1>15. Exactly(latestEvents(u, SeenKinds)', seenTold, then.seen, 0, singly(u)')
  <2>1. Exactly(latestEvents(L, SeenKinds), seenTold, s.seen, 0, singly(L))
    BY DEF Reconstructs
  <2>2. Settled(S, n, SeenKinds, seenTold, s.seen, then.seen)
    BY <1>9 DEF BlockSettled
  <2>3. latestEvents(u, SeenKinds)' = IF \E e \in S : e.kind \in SeenKinds
                                     THEN {e \in S : e.kind \in SeenKinds}
                                     ELSE latestEvents(L, SeenKinds)
    BY <1>11
  <2>. HIDE DEF s, then
  <2>. QED
    BY <2>1, <2>2, <2>3, <1>6, <1>9, <1>10, ExactlyNext
<1>16. ExactlyRoles(latestEvents(u, RoleKinds)', then, singly(u)', oneRole(u)')
  <2>1. ExactlyRoles(latestEvents(L, RoleKinds), s, singly(L), oneRole(L))
    BY DEF Reconstructs
  <2>2. RolesSettled(S, n, s, then)
    BY <1>9 DEF BlockSettled
  <2>3. latestEvents(u, RoleKinds)' = IF \E e \in S : e.kind \in RoleKinds
                                      THEN {e \in S : e.kind \in RoleKinds}
                                      ELSE latestEvents(L, RoleKinds)
    BY <1>11
  <2>. HIDE DEF s, then
  <2>. QED
    BY <2>1, <2>2, <2>3, <1>6, <1>7, <1>8, <1>9, <1>10, ExactlyRolesNext
<1>. QED
  BY <1>3, <1>12, <1>13, <1>14, <1>15, <1>16 DEF Reconstructs

\* What is being built.
LEMMA ExplainingInit ==
  ASSUME ChainInit
  PROVE  ChainTells
<1>1. Genesis \in State /\ pending = [events |-> <<>>, state |-> Genesis] /\ blocks = <<>>
  BY EventsAssumption DEF ChainInit, Genesis, State, Did
<1>2. Len(blocks) = 0 /\ now = Genesis /\ stateAt(0) = Genesis /\ newTxs = 0
  BY <1>1 DEF now, stateAt, newTxs, State
<1>3. eventsOf(pending.events) = {} /\ Len(pending.events) = 0
  BY <1>1 DEF eventsOf
<1>4. BlockSettled({}, 0, Genesis, Genesis)
  BY DEF BlockSettled, Settled, RolesSettled
<1>5. Explaining
  <2>1. Owned(Genesis)
    BY DEF Owned, Genesis
  <2>2. 1..Len(blocks) = {} /\ stateAt(Len(blocks)) = Genesis
    BY <1>2
  <2>. QED
    BY <2>1, <2>2, <1>2, <1>3, <1>4 DEF Explaining
<1>6. \A kinds : latestEvents(0, kinds) = {}
  BY DEF latestEvents, latestIn, logsOf
<1>7. heldIn(Genesis) = {}
  BY DEF heldIn, Genesis
<1>8. Reconstructs(0)
  <2>1. \A told, is, b : Exactly({}, told, is, is, b)
    BY DEF Exactly
  <2>2. ExactlyRoles({}, Genesis, singly(0), oneRole(0))
    BY <1>7 DEF ExactlyRoles
  <2>3. /\ Genesis.owner = Nobody /\ Genesis.custodian = Nobody
        /\ Genesis.quarantined = FALSE /\ Genesis.seen = 0
    BY DEF Genesis
  <2>. QED
    BY <1>2, <1>6, <2>1, <2>2, <2>3 DEF Reconstructs
<1>. QED
  BY <1>2, <1>5, <1>8 DEF ChainTells

LEMMA ExplainingStep ==
  ASSUME blocks \in Seq(Block), pending \in Block, Explaining,
         NEW N, NEW s, Explains(N, s)
  PROVE  Explaining'
<1>1. /\ blocks' = blocks
      /\ pending' = [events |-> pending.events \o N, state |-> [s EXCEPT !.txs = @ + 1]]
      /\ s \in State /\ s.txs = now.txs /\ N \in Seq(Event) /\ Len(N) \in 1..3
  BY DEF Explains, Transact
<1>2. now \in State /\ now.txs \in Nat /\ pending.events \in Seq(Event)
  BY EventsAssumption DEF Block, now, State
<1>. DEFINE s1 == [s EXCEPT !.txs = @ + 1]
<1>3. /\ s1.owner = s.owner /\ s1.custodian = s.custodian /\ s1.quarantined = s.quarantined
      /\ s1.seen = s.seen /\ s1.minted = s.minted /\ s1.roles = s.roles /\ s1.txs = now.txs + 1
  BY <1>1 DEF State
<1>4. now' = s1
  BY <1>1 DEF now
<1>. HIDE DEF s1
<1>5. stateAt(Len(blocks))' = stateAt(Len(blocks))
  BY <1>1 DEF stateAt
<1>6. newTxs' = newTxs + 1 /\ newTxs \in Nat
  <2>1. stateAt(Len(blocks)).txs \in Int
    <3>1. CASE Len(blocks) = 0
      BY <3>1 DEF stateAt, Genesis
    <3>2. CASE Len(blocks) # 0
      <4>1. blocks[Len(blocks)] \in Block
        BY <3>2
      <4>. QED
        BY <4>1, <3>2, EventsAssumption DEF stateAt, Block, State
    <3>. QED
      BY <3>1, <3>2
  <2>2. PICK x : x = stateAt(Len(blocks))
    OBVIOUS
  <2>3. newTxs' = now'.txs - x.txs /\ newTxs = now.txs - x.txs
    BY <2>2, <1>5 DEF newTxs
  <2>4. now'.txs = now.txs + 1
    BY <1>3, <1>4
  <2>. QED
    BY <2>1, <2>2, <2>3, <2>4, <1>2 DEF Explaining
<1>7. /\ eventsOf(pending'.events) = eventsOf(pending.events) \cup eventsOf(N)
      /\ Len(pending'.events) = Len(pending.events) + Len(N)
  <2>. DEFINE P == pending.events
  <2>1. P \in Seq(Event) /\ N \in Seq(Event) /\ pending'.events = P \o N
    BY <1>1, <1>2
  <2>2. /\ Len(P \o N) = Len(P) + Len(N)
        /\ \A i \in 1..Len(P) : (P \o N)[i] = P[i]
        /\ \A i \in 1..Len(N) : (P \o N)[Len(P) + i] = N[i]
    BY <2>1
  <2>3. \A i \in 1..Len(P \o N) : i \in 1..Len(P) \/ \E j \in 1..Len(N) : i = Len(P) + j
    <3>. TAKE i \in 1..Len(P \o N)
    <3>1. i \notin 1..Len(P) => i - Len(P) \in 1..Len(N) /\ i = Len(P) + (i - Len(P))
      BY <2>1, <2>2
    <3>. QED
      BY <3>1
  <2>4. DOMAIN P = 1..Len(P) /\ DOMAIN N = 1..Len(N) /\ DOMAIN (P \o N) = 1..Len(P \o N)
    BY <2>1
  <2>5. 1..Len(P) \subseteq 1..Len(P \o N) /\ \A i \in 1..Len(N) : Len(P) + i \in 1..Len(P \o N)
    BY <2>1, <2>2
  <2>6. eventsOf(P \o N) \subseteq eventsOf(P) \cup eventsOf(N)
    <3>. SUFFICES ASSUME NEW i \in 1..Len(P \o N) PROVE (P \o N)[i] \in eventsOf(P) \cup eventsOf(N)
      BY <2>4 DEF eventsOf
    <3>1. CASE i \in 1..Len(P)
      BY <3>1, <2>2, <2>4 DEF eventsOf
    <3>2. CASE i \notin 1..Len(P)
      <4>1. PICK j \in 1..Len(N) : i = Len(P) + j
        BY <3>2, <2>3
      <4>2. (P \o N)[i] = N[j]
        BY <4>1, <2>2
      <4>. QED
        BY <4>2, <2>4 DEF eventsOf
    <3>. QED
      BY <3>1, <3>2
  <2>7. eventsOf(P) \subseteq eventsOf(P \o N)
    BY <2>2, <2>4, <2>5 DEF eventsOf
  <2>8. eventsOf(N) \subseteq eventsOf(P \o N)
    BY <2>2, <2>4, <2>5 DEF eventsOf
  <2>. QED
    BY <2>1, <2>2, <2>6, <2>7, <2>8
<1>8. newTxs = 0 => eventsOf(pending.events) = {}
  <2>1. Len(pending.events) \in Nat
    BY <1>2
  <2>2. newTxs = 0 => Len(pending.events) = 0
    BY <2>1, <1>6 DEF Explaining
  <2>. QED
    BY <2>2, <1>2 DEF eventsOf
<1>9. BlockSettled(eventsOf(pending'.events), newTxs + 1, stateAt(Len(blocks)), s1)
  <2>1. BlockSettled(eventsOf(pending.events) \cup eventsOf(N), newTxs + 1, stateAt(Len(blocks)), s)
    <3>1. BlockSettled(eventsOf(pending.events), newTxs, stateAt(Len(blocks)), now)
          /\ Explained(eventsOf(N), now, s)
      BY DEF Explaining, Explains
    <3>. QED
      BY <3>1, <1>6, <1>8, BlockSettledStep
  <2>2. heldIn(s1) = heldIn(s)
    BY <1>3 DEF heldIn
  <2>. QED
    BY <2>1, <2>2, <1>3, <1>7 DEF BlockSettled, RolesSettled, RoleTold
<1>10. Len(pending'.events) <= 3 * newTxs'
  <2>1. Len(pending.events) <= 3 * newTxs
    BY DEF Explaining
  <2>2. Len(pending.events) \in Nat
    BY <1>2
  <2>3. PICK p, q, n, m :
          p = Len(pending.events) /\ q = Len(pending'.events) /\ n = newTxs /\ m = Len(N)
    OBVIOUS
  <2>4. p \in Nat /\ n \in Nat /\ p <= 3 * n
    BY <2>1, <2>2, <2>3, <1>6
  <2>5. m \in 1..3 /\ q = p + m
    BY <2>3, <1>1, <1>7
  <2>. HIDE <2>3
  <2>6. q <= 3 * (n + 1)
    BY <2>4, <2>5
  <2>. QED
    BY <2>3, <2>6, <1>6
<1>11. Owned(now')
  BY <1>3, <1>4 DEF Explaining, Explains, Owned
<1>. QED
  BY <1>1, <1>4, <1>5, <1>6, <1>9, <1>10, <1>11 DEF Explaining

LEMMA ExplainingMined ==
  ASSUME blocks \in Seq(Block), pending \in Block, Explaining, Mined
  PROVE  Explaining' /\ Len(pending.events) <= 3 * MaxTxs
<1>. DEFINE u == Len(blocks) + 1
<1>1. /\ Len(blocks') = u /\ blocks'[u] = pending /\ \A b \in 1..Len(blocks) : blocks'[b] = blocks[b]
      /\ pending' = [pending EXCEPT !.events = <<>>] /\ u # 0
  BY DEF Mined
<1>2. pending'.events = <<>> /\ now' = pending.state /\ now = pending.state
  BY <1>1 DEF now, Block
<1>3. now \in State /\ now.txs \in 0..MaxTxs /\ pending.events \in Seq(Event)
  BY <1>2 DEF Block, State
<1>4. stateAt(Len(blocks))' = pending.state
  BY <1>1 DEF stateAt
<1>5. newTxs' = 0
  BY <1>2, <1>3, <1>4 DEF newTxs
<1>6. eventsOf(pending'.events) = {} /\ Len(pending'.events) = 0
  BY <1>2 DEF eventsOf
<1>7. BlockSettled({}, 0, pending.state, pending.state)
  BY DEF BlockSettled, Settled, RolesSettled
<1>8. Len(pending.events) <= 3 * MaxTxs
  <2>1. stateAt(Len(blocks)).txs \in Nat
    <3>1. CASE Len(blocks) = 0
      BY <3>1 DEF stateAt, Genesis
    <3>2. CASE Len(blocks) # 0
      <4>1. blocks[Len(blocks)] \in Block
        BY <3>2
      <4>. QED
        BY <4>1, <3>2, EventsAssumption DEF stateAt, Block, State
    <3>. QED
      BY <3>1, <3>2
  <2>2. newTxs <= MaxTxs
    BY <2>1, <1>3, EventsAssumption DEF newTxs
  <2>. QED
    BY <2>2, <1>3, EventsAssumption DEF Explaining
<1>9. \A t \in 1..u : Owned(blocks'[t].state) /\ Len(blocks'[t].events) <= 3 * MaxTxs
  <2>. TAKE t \in 1..u
  <2>1. t = u \/ t \in 1..Len(blocks)
    OBVIOUS
  <2>. QED
    BY <2>1, <1>1, <1>2, <1>8 DEF Explaining
<1>10. BlockSettled(eventsOf(pending'.events), newTxs', (stateAt(Len(blocks)))', now')
  BY <1>2, <1>4, <1>5, <1>6, <1>7
<1>11. Owned(now') /\ newTxs' \in Nat /\ Len(pending'.events) <= 3 * newTxs'
  BY <1>2, <1>5, <1>6 DEF Explaining
<1>12. \A t \in 1..Len(blocks') : Owned(blocks'[t].state) /\ Len(blocks'[t].events) <= 3 * MaxTxs
  BY <1>1, <1>9
<1>13. Explaining'
  BY <1>10, <1>11, <1>12 DEF Explaining
<1>. QED
  BY <1>8, <1>13

LEMMA ChainTellsStep ==
  ASSUME topic \in Topics, blocks \in Seq(Block), Len(blocks) <= MaxBlock, pending \in Block,
         ChainTells, ChainNext
  PROVE  ChainTells'
<1>1. Grown
  BY ChainGrows DEF Grown
<1>2. \A t \in 0..Len(blocks) : Reconstructs(t)'
  BY <1>1, ReconstructsStay DEF ChainTells
<1>3. CASE Mined
  <2>1. Explaining' /\ Len(pending.events) <= 3 * MaxTxs
    BY <1>3, ExplainingMined DEF ChainTells
  <2>2. \A L, u : L = Len(blocks) /\ u = L + 1 => Reconstructs(u)'
    BY <1>3, <2>1, ReconstructsNext DEF ChainTells
  <2>3. Len(blocks') = Len(blocks) + 1
    BY <1>3 DEF Mined
  <2>4. \A t \in 0..Len(blocks') : t \in 0..Len(blocks) \/ t = Len(blocks) + 1
    BY <2>3
  <2>. QED
    BY <1>2, <2>1, <2>2, <2>4 DEF ChainTells
<1>4. CASE \E N, s : Explains(N, s)
  <2>1. Explaining'
    BY <1>4, ExplainingStep DEF ChainTells
  <2>2. blocks' = blocks
    BY <1>4 DEF Explains, Transact
  <2>. QED
    BY <1>2, <2>1, <2>2 DEF ChainTells
<1>5. thisBlock \in Nat
  BY DEF thisBlock
<1>. QED
  BY <1>3, <1>4, <1>5, TransactionKinds

-----------------------------------------------------------------------------
\* The rows are of events of the chain, and these tell what its state was.
AuditInv == IInv /\ ChainTells /\ stored \subseteq logsOf(1, Len(blocks))

LEMMA ChainTellsStays ==
  ASSUME blocks \in Seq(Block), ChainTells, UNCHANGED <<blocks, pending>>
  PROVE  ChainTells'
<1>1. Grown
  BY DEF Grown
<1>2. \A t \in 0..Len(blocks') : Reconstructs(t)'
  BY <1>1, ReconstructsStay DEF ChainTells
<1>3. Explaining'
  BY DEF ChainTells, Explaining, newTxs, now, stateAt
<1>. QED
  BY <1>2, <1>3 DEF ChainTells

LEMMA AuditInvInit == Init => AuditInv
<1>. SUFFICES ASSUME Init PROVE AuditInv
  OBVIOUS
<1>1. IInv /\ ChainTells
  BY IInvInit, ExplainingInit DEF Init
<1>. QED
  BY <1>1 DEF Init, AuditInv

LEMMA AuditInvNext == AuditInv /\ [Next]_vars => AuditInv'
<1>. SUFFICES ASSUME AuditInv, [Next]_vars PROVE AuditInv'
  OBVIOUS
<1>1. IInv'
  BY IInvNext DEF AuditInv
<1>2. /\ topic \in Topics /\ blocks \in Seq(Block) /\ Len(blocks) <= MaxBlock /\ pending \in Block
      /\ cursor \in 0..Len(blocks) /\ until \in 0..Len(blocks)
      /\ todo \subseteq logsOf(cursor + 1, until)
      /\ ChainTells /\ stored \subseteq logsOf(1, Len(blocks))
  BY DEF AuditInv, IInv, TypeOK, BatchInv
<1>3. CASE ChainNext /\ UNCHANGED <<dbVars, tickVars, aborts, orderly>>
  <2>1. ChainTells'
    BY <1>2, <1>3, ChainTellsStep
  <2>2. Grown
    BY <1>2, <1>3, ChainGrows DEF Grown
  <2>3. PICK L \in Nat : L = Len(blocks)
    BY <1>2
  <2>4. logsOf(1, L)' = logsOf(1, L)
    BY <1>2, <2>2, <2>3, LogsStay
  <2>5. logsOf(1, L)' \subseteq logsOf(1, Len(blocks))'
    BY <2>2, <2>3 DEF logsOf, Grown, Keys
  <2>6. stored' \subseteq logsOf(1, Len(blocks))'
    BY <1>2, <1>3, <2>3, <2>4, <2>5 DEF dbVars
  <2>. QED
    BY <1>1, <2>1, <2>6 DEF AuditInv
<1>4. ASSUME UNCHANGED chainVars, stored' \subseteq logsOf(1, Len(blocks))
      PROVE  AuditInv'
  <2>1. blocks' = blocks /\ pending' = pending
    BY <1>4 DEF chainVars
  <2>2. ChainTells'
    BY <1>2, <2>1, ChainTellsStays
  <2>3. logsOf(1, Len(blocks))' = logsOf(1, Len(blocks))
    BY <2>1 DEF logsOf
  <2>. QED
    BY <1>1, <1>4, <2>2, <2>3 DEF AuditInv
<1>5. ASSUME NEW k \in Keys, Store(k) PROVE AuditInv'
  <2>1. k \in logsOf(cursor + 1, until) /\ stored' = stored \cup {k}
    BY <1>2, <1>5 DEF Store, isNext
  <2>2. k \in logsOf(1, Len(blocks))
    BY <1>2, <2>1 DEF logsOf, Keys
  <2>. QED
    BY <1>2, <1>4, <1>5, <2>1, <2>2 DEF Store
<1>6. CASE UNCHANGED <<chainVars, stored>>
  BY <1>2, <1>4, <1>6
<1>7. Poll \/ Advance \/ Abort \/ (\E k \in Keys : WriteFirst(k) \/ WriteSecond(k)) \/ UNCHANGED vars
      => UNCHANGED <<chainVars, stored>>
  BY DEF Poll, Advance, Abort, WriteFirst, WriteSecond, vars, dbVars
<1>. QED
  BY <1>3, <1>5, <1>6, <1>7 DEF Next, Tick

\* Up to the cursor, the rows are the events.
LEMMA RowsAreEvents ==
  ASSUME AuditInv, NEW t \in 1..cursor, NEW kinds
  PROVE  latest(t, kinds) = latestIn(t, kinds)
<1>1. ASSUME NEW k PROVE k \in stored /\ k[1] <= t <=> k \in logsOf(1, t)
  <2>1. ASSUME k \in stored, k[1] <= t PROVE k \in logsOf(1, t)
    <3>1. k \in logsOf(1, Len(blocks))
      BY <2>1 DEF AuditInv
    <3>. QED
      BY <2>1, <3>1 DEF logsOf, Keys
  <2>2. ASSUME k \in logsOf(1, t) PROVE k \in stored /\ k[1] <= t
    <3>1. k \in logsOf(1, cursor) /\ k[1] <= t
      BY <2>2 DEF logsOf, Keys, AuditInv, IInv, TypeOK
    <3>. QED
      BY <3>1 DEF AuditInv, IInv, NoEventMissed
  <2>. QED
    BY <2>1, <2>2
<1>. QED
  BY <1>1 DEF latest, latestIn

\* What the audit answers is what the latest events tell.
LEMMA AnswersAreTold ==
  ASSUME AuditInv, NEW t \in 1..cursor
  PROVE  /\ ownersAt(t) = {ownerTold[e] : e \in latestEvents(t, OwnerKinds)}
         /\ custodiansAt(t) = {custodianTold[e] : e \in latestEvents(t, CustodianKinds)}
         /\ quarantinesAt(t) = LET E == latestEvents(t, QuarantineKinds) IN
              IF E = {} THEN {FALSE} ELSE {quarantineTold[e] : e \in E}
         /\ attestationsAt(t) = LET E == latestEvents(t, SeenKinds) IN
              IF E = {} THEN {0} ELSE {seenTold[e] : e \in E}
         /\ rolesAt(t) = LET E == latestEvents(t, RoleKinds) IN
              IF E = {} THEN {NoRole}
              ELSE {IF e.kind = "RoleRevoked" THEN NoRole ELSE e.role : e \in E}
<1>1. blocks \in Seq(Block) /\ t \in 0..Len(blocks)
  BY DEF AuditInv, IInv, TypeOK
<1>2. ASSUME NEW kinds
      PROVE  latest(t, kinds) = latestIn(t, kinds) /\ \A k \in latestIn(t, kinds) : event(k) \in Event
  BY <1>1, RowsAreEvents, EventOfLog DEF latestIn
<1>3. ownersAt(t) = {ownerTold[e] : e \in latestEvents(t, OwnerKinds)}
  <2>1. ownersAt(t) = {event(k).party : k \in latestIn(t, OwnerKinds)}
    BY <1>2 DEF ownersAt, OwnerKinds
  <2>2. \A k \in latestIn(t, OwnerKinds) : ownerTold[event(k)] = event(k).party
    BY <1>2 DEF ownerTold
  <2>3. {ownerTold[e] : e \in latestEvents(t, OwnerKinds)} = {ownerTold[event(k)] : k \in latestIn(t, OwnerKinds)}
    BY DEF latestEvents
  <2>. QED
    BY <2>1, <2>2, <2>3
<1>4. custodiansAt(t) = {custodianTold[e] : e \in latestEvents(t, CustodianKinds)}
  <2>1. custodiansAt(t) = {event(k).custodian : k \in latestIn(t, CustodianKinds)}
    BY <1>2 DEF custodiansAt, CustodianKinds
  <2>2. \A k \in latestIn(t, CustodianKinds) : custodianTold[event(k)] = event(k).custodian
    BY <1>2 DEF custodianTold
  <2>3. {custodianTold[e] : e \in latestEvents(t, CustodianKinds)} = {custodianTold[event(k)] : k \in latestIn(t, CustodianKinds)}
    BY DEF latestEvents
  <2>. QED
    BY <2>1, <2>2, <2>3
<1>5. quarantinesAt(t) = LET E == latestEvents(t, QuarantineKinds) IN
        IF E = {} THEN {FALSE} ELSE {quarantineTold[e] : e \in E}
  BY <1>2 DEF quarantinesAt, QuarantineKinds, quarantineTold, latestEvents
<1>6. attestationsAt(t) = LET E == latestEvents(t, SeenKinds) IN
        IF E = {} THEN {0} ELSE {seenTold[e] : e \in E}
  BY <1>2 DEF attestationsAt, SeenKinds, seenTold, latestEvents
<1>7. rolesAt(t) = LET E == latestEvents(t, RoleKinds) IN
        IF E = {} THEN {NoRole} ELSE {IF e.kind = "RoleRevoked" THEN NoRole ELSE e.role : e \in E}
  BY <1>2 DEF rolesAt, RoleKinds, latestEvents
<1>. QED
  BY <1>3, <1>4, <1>5, <1>6, <1>7

\* The answer for one part.
LEMMA AnswerIsExact ==
  ASSUME NEW E, NEW told, NEW is, NEW first, NEW single, Exactly(E, told, is, first, single), E # {}
  PROVE  is \in {told[e] : e \in E} /\ (single => {told[e] : e \in E} = {is})
BY DEF Exactly

LEMMA AuditIsExactNow == AuditInv => PointInTimeExact
<1>. SUFFICES ASSUME AuditInv, NEW t \in 1..cursor
     PROVE LET s == blocks[t].state
               distinct == \A b \in 1..t : txsOf(b) <= 1
               alone    == \A b \in 1..t : \A r, q \in held(b) : r = q
               says(answers, value) == value \in answers /\ (distinct => answers = {value})
           IN /\ s.minted => /\ says(ownersAt(t), s.owner)
                             /\ says(custodiansAt(t), s.custodian)
                             /\ says(quarantinesAt(t), s.quarantined)
                             /\ says(attestationsAt(t), s.seen)
              /\ distinct => rolesAt(t) \subseteq held(t) \cup {NoRole}
              /\ distinct /\ alone /\ held(t) # {} => rolesAt(t) = held(t)
  BY DEF PointInTimeExact
<1>1. blocks \in Seq(Block) /\ t \in 1..Len(blocks)
  BY DEF AuditInv, IInv, TypeOK
<1>. DEFINE s == blocks[t].state
<1>2. stateAt(t) = s /\ Reconstructs(t) /\ Owned(s) /\ s \in State
  <2>1. blocks[t] \in Block
    BY <1>1
  <2>. QED
    BY <1>1, <2>1 DEF stateAt, AuditInv, ChainTells, Explaining, Block
<1>3. \A b : held(b) = heldIn(blocks[b].state)
  BY DEF held, heldIn
<1>4. (\A b \in 1..t : txsOf(b) <= 1) = singly(t)
  BY DEF singly
<1>5. (\A b \in 1..t : \A r, q \in held(b) : r = q) = oneRole(t)
  BY <1>3 DEF oneRole
<1>. HIDE DEF s
<1>6. /\ Exactly(latestEvents(t, OwnerKinds), ownerTold, s.owner, Nobody, singly(t))
      /\ Exactly(latestEvents(t, CustodianKinds), custodianTold, s.custodian, Nobody, singly(t))
      /\ Exactly(latestEvents(t, QuarantineKinds), quarantineTold, s.quarantined, FALSE, singly(t))
      /\ Exactly(latestEvents(t, SeenKinds), seenTold, s.seen, 0, singly(t))
      /\ ExactlyRoles(latestEvents(t, RoleKinds), s, singly(t), oneRole(t))
  BY <1>2 DEF Reconstructs
<1>7. ASSUME s.minted
      PROVE  /\ s.owner \in ownersAt(t) /\ (singly(t) => ownersAt(t) = {s.owner})
             /\ s.custodian \in custodiansAt(t) /\ (singly(t) => custodiansAt(t) = {s.custodian})
  <2>1. s.owner # Nobody /\ s.custodian # Nobody
    BY <1>2, <1>7, EventsAssumption DEF Owned
  <2>2. latestEvents(t, OwnerKinds) # {} /\ latestEvents(t, CustodianKinds) # {}
    BY <1>6, <2>1 DEF Exactly
  <2>3. /\ ownersAt(t) = {ownerTold[e] : e \in latestEvents(t, OwnerKinds)}
        /\ custodiansAt(t) = {custodianTold[e] : e \in latestEvents(t, CustodianKinds)}
    BY AnswersAreTold
  <2>4. s.owner \in ownersAt(t) /\ (singly(t) => ownersAt(t) = {s.owner})
    BY <1>6, <2>2, <2>3, AnswerIsExact
  <2>5. s.custodian \in custodiansAt(t) /\ (singly(t) => custodiansAt(t) = {s.custodian})
    BY <1>6, <2>2, <2>3, AnswerIsExact
  <2>. QED
    BY <2>4, <2>5
<1>8. s.quarantined \in quarantinesAt(t) /\ (singly(t) => quarantinesAt(t) = {s.quarantined})
  <2>. DEFINE E == latestEvents(t, QuarantineKinds)
  <2>1. quarantinesAt(t) = IF E = {} THEN {FALSE} ELSE {quarantineTold[e] : e \in E}
    BY AnswersAreTold
  <2>2. CASE E = {}
    <3>1. s.quarantined = FALSE
      BY <1>6, <2>2 DEF Exactly
    <3>. QED
      BY <2>1, <2>2, <3>1
  <2>3. CASE E # {}
    <3>1. PICK first : first = FALSE
      OBVIOUS
    <3>2. PICK is : is = s.quarantined
      OBVIOUS
    <3>3. Exactly(E, quarantineTold, is, first, singly(t))
      BY <1>6, <3>1, <3>2
    <3>. DEFINE A == {quarantineTold[e] : e \in E}
    <3>4. is \in A /\ (singly(t) => A = {is})
      BY <2>3, <3>3, AnswerIsExact
    <3>5. quarantinesAt(t) = A
      BY <2>1, <2>3
    <3>. HIDE DEF A
    <3>. QED
      BY <3>2, <3>4, <3>5
  <2>. QED
    BY <2>2, <2>3
<1>9. s.seen \in attestationsAt(t) /\ (singly(t) => attestationsAt(t) = {s.seen})
  <2>. DEFINE E == latestEvents(t, SeenKinds)
  <2>1. attestationsAt(t) = IF E = {} THEN {0} ELSE {seenTold[e] : e \in E}
    BY AnswersAreTold
  <2>2. CASE E = {}
    BY <1>6, <2>1, <2>2 DEF Exactly
  <2>3. CASE E # {}
    BY <1>6, <2>1, <2>3, AnswerIsExact
  <2>. QED
    BY <2>2, <2>3
<1>10. /\ singly(t) => rolesAt(t) \subseteq heldIn(s) \cup {NoRole}
       /\ singly(t) /\ oneRole(t) /\ heldIn(s) # {} => rolesAt(t) = heldIn(s)
  <2>. DEFINE E == latestEvents(t, RoleKinds)
              answer(e) == IF e.kind = "RoleRevoked" THEN NoRole ELSE e.role
  <2>1. rolesAt(t) = IF E = {} THEN {NoRole} ELSE {answer(e) : e \in E}
    BY AnswersAreTold
  <2>2. /\ singly(t) => \A e \in E : e.kind = "RoleRevoked" \/ e.role \in heldIn(s)
        /\ singly(t) /\ oneRole(t) /\ heldIn(s) # {} => E # {} /\ \A e \in E : e.kind # "RoleRevoked"
    BY <1>6 DEF ExactlyRoles
  <2>3. oneRole(t) => \A r, q \in heldIn(s) : r = q
    <3>1. t \in 1..t
      BY <1>1
    <3>. QED
      BY <3>1 DEF oneRole, s
  <2>. HIDE DEF E
  <2>4. ASSUME singly(t) PROVE rolesAt(t) \subseteq heldIn(s) \cup {NoRole}
    BY <2>1, <2>2, <2>4
  <2>5. ASSUME singly(t), oneRole(t), heldIn(s) # {} PROVE rolesAt(t) = heldIn(s)
    <3>1. E # {} /\ \A e \in E : answer(e) = e.role /\ e.role \in heldIn(s)
      BY <2>2, <2>5
    <3>. QED
      BY <2>1, <2>3, <2>5, <3>1
  <2>. QED
    BY <2>4, <2>5
<1>11. heldIn(s) = held(t)
  BY <1>3 DEF s
<1>. QED
  BY <1>4, <1>5, <1>7, <1>8, <1>9, <1>10, <1>11 DEF s

\* GET /audit/reconstruct (routes/audit.ts) answers with the state the chain
\* had at any moment up to the cursor, while no block holds two transactions,
\* also between the writes of a tick and after a failed one; otherwise the
\* chain's state is one of its possible answers.
THEOREM AuditIsExact == Spec => []PointInTimeExact
<1>. QED
  BY AuditInvInit, AuditInvNext, AuditIsExactNow, PTL DEF Spec

-----------------------------------------------------------------------------
\* The derived tables.  The keys of the events of some blocks, their events,
\* and those of some keys that are of some kinds, or about some role.
logOf(B) == {k \in (1..Len(B)) \X (1..(3 * MaxTxs)) : k[2] \in DOMAIN B[k[1]].events}
eventIn(B, k) == B[k[1]].events[k[2]]
among(B, S, kinds)   == {k \in S : eventIn(B, k).kind \in kinds}
amongRole(B, S, r)   == {k \in among(B, S, RoleKinds) : eventIn(B, k).role = r}
detections(B, S)     == among(B, S, {"DivergenceDetected"})
releases(B, S)       == among(B, S, {"AssetReconciled"})
endings(B, S)        == {k \in releases(B, S) : eventIn(B, k).contract = "DivergenceRegistry"}
idsOf(B, S)          == {eventIn(B, k).id : k \in among(B, S, SeenKinds)}

\* What each of the keys' events tells, and what the last of the keys S shows.
toldIn(B, told) == [k \in logOf(B) |-> told[eventIn(B, k)]]
blockIn(B)      == [k \in logOf(B) |-> k[1]]
Shows(S, told, value, first) ==
  \/ S = {} /\ value = first
  \/ \E k \in S : (\A j \in S : j = k \/ precedes(j, k)) /\ value = told[k]

\* More keys, all of them later.
LEMMA ShowsMore ==
  ASSUME NEW S, NEW T, NEW told, NEW more, NEW was, NEW is, NEW first,
         Shows(S, told, was, first),
         \A k \in S : more[k] = told[k],
         \A j \in S, k \in T : precedes(j, k),
         \/ T = {} /\ is = was
         \/ \E k \in T : (\A j \in T : j = k \/ precedes(j, k)) /\ is = more[k]
  PROVE  Shows(S \cup T, more, is, first)
<1>1. CASE T = {} /\ is = was
  <2>1. S \cup T = S
    BY <1>1
  <2>. QED
    BY <1>1, <2>1 DEF Shows
<1>2. CASE \E k \in T : (\A j \in T : j = k \/ precedes(j, k)) /\ is = more[k]
  <2>1. PICK k \in T : (\A j \in T : j = k \/ precedes(j, k)) /\ is = more[k]
    BY <1>2
  <2>2. \A j \in S \cup T : j = k \/ precedes(j, k)
    BY <2>1
  <2>. QED
    BY <2>1, <2>2 DEF Shows
<1>. QED
  BY <1>1, <1>2

\* There is one last key.
LEMMA ShowsOne ==
  ASSUME NEW S, S \subseteq Nat \X Nat, NEW told, NEW one, NEW other, NEW first,
         Shows(S, told, one, first), Shows(S, told, other, first)
  PROVE  one = other
<1>1. \A j, k \in S : ~(precedes(j, k) /\ precedes(k, j))
  BY DEF precedes
<1>. QED
  BY <1>1 DEF Shows

-----------------------------------------------------------------------------
\* What the events of some blocks say of the state after them: each part is as
\* the last event of some kinds told, or as at first.
Mints(B) == among(B, logOf(B), {"AssetMinted"})
SaysParts(B, s) ==
  LET L == logOf(B) IN
  /\ Shows(among(B, L, OwnerKinds), toldIn(B, ownerTold), s.owner, Nobody)
  /\ Shows(among(B, L, CustodianKinds), toldIn(B, custodianTold), s.custodian, Nobody)
  /\ Shows(among(B, L, HoldKinds), toldIn(B, holdTold), holdOf(s.quarantined), "free")
  /\ Shows(among(B, L, FreshKinds), blockIn(B), s.fresh, 0)
  /\ idsOf(B, L) = 1..s.seen
SaysMint(B, s) ==
  /\ s.minted <=> Mints(B) # {}
  /\ \A j, k \in Mints(B) : j = k
  /\ \A k \in among(B, logOf(B), AfterMint) : \E j \in Mints(B) : precedes(j, k)
SaysRoles(B, s) ==
  \A r \in Roles : Shows(amongRole(B, logOf(B), r), toldIn(B, termTold), s.roles[r], "none")
SaysDid(B, s) ==
  LET L == logOf(B)
      R == among(B, L, {"DIDRegistered"}) IN
  /\ Shows(among(B, L, StatusKinds), toldIn(B, statusTold), s.did.status, "None")
  /\ Shows(among(B, L, ControlKinds), toldIn(B, ownerTold), s.did.controller, Nobody)
  /\ s.did.status # "None" => R # {}
  /\ \A k \in among(B, L, {"KeyRotated", "DIDRevoked"}) : \E j \in R : precedes(j, k)
SaysCases(B, s) ==
  LET L == logOf(B)
      D == detections(B, L) IN
  /\ s.cases <= s.txs /\ lastCase(s) \subseteq 1..s.cases
  /\ {eventIn(B, k).id : k \in D} = 1..s.cases
  /\ \A j, k \in D : eventIn(B, j).id = eventIn(B, k).id => j = k
  /\ \A j \in D : IF eventIn(B, j).id \in lastCase(s)
                  THEN \A k \in releases(B, L) : precedes(k, j)
                  ELSE \E k \in endings(B, L) : precedes(j, k)
Says(B, s) ==
  /\ \A k \in logOf(B) : eventIn(B, k) \in Event /\ Placed(eventIn(B, k))
  /\ SaysParts(B, s) /\ SaysMint(B, s) /\ SaysRoles(B, s) /\ SaysDid(B, s) /\ SaysCases(B, s)

\* C has the events of B and then, at new, those of N, in block b.
Extended(B, C, N, new, b) ==
  /\ logOf(C) = logOf(B) \cup {new[i] : i \in DOMAIN N}
  /\ \A k \in logOf(B) : eventIn(C, k) = eventIn(B, k)
  /\ \A i \in DOMAIN N : eventIn(C, new[i]) = N[i] /\ new[i][1] = b
  /\ \A k \in logOf(B), i \in DOMAIN N : precedes(k, new[i])
  /\ \A i, j \in DOMAIN N : i <= j => new[i] = new[j] \/ precedes(new[i], new[j])

LEMMA AmongMore ==
  ASSUME NEW B, NEW C, NEW N, NEW new, NEW b, Extended(B, C, N, new, b), NEW kinds
  PROVE  among(C, logOf(C), kinds) = among(B, logOf(B), kinds) \cup {new[i] : i \in ofKinds(N, kinds)}
BY DEF Extended, among, ofKinds

\* The part that the events at the indices I tell of.
LEMMA ShowsNext ==
  ASSUME NEW B, NEW C, NEW N, NEW new, NEW b, Extended(B, C, N, new, b),
         NEW S, S \subseteq logOf(B), NEW I, I \subseteq DOMAIN N,
         NEW told, NEW was, NEW is, NEW first,
         DOMAIN N \subseteq Nat,
         Shows(S, toldIn(B, told), was, first), LeavesLast(N, I, told, was, is)
  PROVE  Shows(S \cup {new[i] : i \in I}, toldIn(C, told), is, first)
<1>. DEFINE T == {new[i] : i \in I}
<1>1. \A k \in S : toldIn(C, told)[k] = toldIn(B, told)[k]
  BY DEF Extended, toldIn
<1>2. \A j \in S, k \in T : precedes(j, k)
  BY DEF Extended
<1>3. \/ T = {} /\ is = was
      \/ \E k \in T : (\A j \in T : j = k \/ precedes(j, k)) /\ is = toldIn(C, told)[k]
  <2>1. CASE I = {} /\ is = was
    BY <2>1
  <2>2. ASSUME NEW i \in I, \A j \in I : j <= i, is = told[N[i]]
        PROVE  \E k \in T : (\A j \in T : j = k \/ precedes(j, k)) /\ is = toldIn(C, told)[k]
    <3>1. new[i] \in T /\ \A j \in T : j = new[i] \/ precedes(j, new[i])
      BY <2>2 DEF Extended
    <3>2. new[i] \in logOf(C) /\ eventIn(C, new[i]) = N[i]
      BY <2>2 DEF Extended
    <3>3. toldIn(C, told)[new[i]] = told[N[i]]
      BY <3>2 DEF toldIn
    <3>. QED
      BY <2>2, <3>1, <3>3
  <2>. QED
    BY <2>1, <2>2 DEF LeavesLast
<1>. HIDE DEF T
<1>4. PICK f : f = toldIn(B, told)
  OBVIOUS
<1>5. PICK g : g = toldIn(C, told)
  OBVIOUS
<1>6. Shows(S \cup T, g, is, first)
  BY <1>1, <1>2, <1>3, <1>4, <1>5, ShowsMore
<1>. QED
  BY <1>5, <1>6 DEF T

\* The next transaction.
LEMMA SaysPartsNext ==
  ASSUME NEW B, NEW C, NEW N \in Seq(Event), NEW new, NEW b, Extended(B, C, N, new, b),
         NEW s \in State, NEW then \in State, SaysParts(B, s), FollowsParts(N, b, s, then)
  PROVE  SaysParts(C, then)
<1>. DEFINE L == logOf(B)
            M == logOf(C)
            at(kinds) == {new[i] : i \in ofKinds(N, kinds)}
<1>1. /\ DOMAIN N \subseteq Nat
      /\ \A kinds : ofKinds(N, kinds) \subseteq DOMAIN N /\ among(B, L, kinds) \subseteq logOf(B)
      /\ \A kinds : among(C, M, kinds) = among(B, L, kinds) \cup at(kinds)
  BY AmongMore DEF ofKinds, among
<1>2. Shows(among(C, M, OwnerKinds), toldIn(C, ownerTold), then.owner, Nobody)
  BY <1>1, ShowsNext DEF SaysParts, FollowsParts
<1>3. Shows(among(C, M, CustodianKinds), toldIn(C, custodianTold), then.custodian, Nobody)
  BY <1>1, ShowsNext DEF SaysParts, FollowsParts
<1>4. Shows(among(C, M, HoldKinds), toldIn(C, holdTold), holdOf(then.quarantined), "free")
  BY <1>1, ShowsNext DEF SaysParts, FollowsParts
<1>5. Shows(among(C, M, FreshKinds), blockIn(C), then.fresh, 0)
  <2>. DEFINE S == among(B, L, FreshKinds)
              T == at(FreshKinds)
  <2>1. \A k \in S : blockIn(C)[k] = blockIn(B)[k]
    BY DEF Extended, blockIn, among
  <2>2. \A j \in S, k \in T : precedes(j, k)
    BY <1>1 DEF Extended, among
  <2>3. \/ T = {} /\ then.fresh = s.fresh
        \/ \E k \in T : (\A j \in T : j = k \/ precedes(j, k)) /\ then.fresh = blockIn(C)[k]
    <3>1. CASE ofKinds(N, FreshKinds) = {} /\ then.fresh = s.fresh
      BY <3>1
    <3>2. ASSUME NEW i \in ofKinds(N, FreshKinds), \A j \in ofKinds(N, FreshKinds) : j <= i,
                 then.fresh = [e \in Event |-> b][N[i]]
          PROVE  \E k \in T : (\A j \in T : j = k \/ precedes(j, k)) /\ then.fresh = blockIn(C)[k]
      <4>1. new[i] \in T /\ \A j \in T : j = new[i] \/ precedes(j, new[i])
        BY <1>1, <3>2 DEF Extended
      <4>2. new[i] \in logOf(C) /\ new[i][1] = b /\ N[i] \in Event
        BY <1>1, <3>2 DEF Extended
      <4>. QED
        BY <3>2, <4>1, <4>2 DEF blockIn
    <3>. QED
      BY <3>1, <3>2 DEF SaysParts, FollowsParts, LeavesLast
  <2>4. PICK f : f = blockIn(B)
    OBVIOUS
  <2>5. PICK g : g = blockIn(C)
    OBVIOUS
  <2>6. Shows(S, f, s.fresh, 0)
    BY <2>4 DEF SaysParts
  <2>. HIDE DEF S, T
  <2>7. Shows(S \cup T, g, then.fresh, 0)
    BY <2>1, <2>2, <2>3, <2>4, <2>5, <2>6, ShowsMore
  <2>. QED
    BY <1>1, <2>5, <2>7 DEF S, T
<1>6. idsOf(C, M) = 1..then.seen
  <2>1. idsOf(C, M) = idsOf(B, L) \cup {N[i].id : i \in ofKinds(N, SeenKinds)}
    BY <1>1 DEF idsOf, Extended, among
  <2>2. 1..then.seen = (1..s.seen) \cup ((s.seen + 1)..then.seen)
    BY DEF FollowsParts, State
  <2>. QED
    BY <2>1, <2>2 DEF SaysParts, FollowsParts
<1>. QED
  BY <1>2, <1>3, <1>4, <1>5, <1>6 DEF SaysParts

LEMMA SaysMintNext ==
  ASSUME NEW B, NEW C, NEW N \in Seq(Event), NEW new, NEW b, Extended(B, C, N, new, b),
         NEW s \in State, NEW then \in State, SaysParts(B, s), SaysMint(B, s), FollowsMint(N, s, then)
  PROVE  SaysMint(C, then)
<1>. DEFINE M == {new[i] : i \in ofKinds(N, {"AssetMinted"})}
            A == {new[i] : i \in ofKinds(N, AfterMint)}
            old == among(B, logOf(B), AfterMint)
<1>1. /\ Mints(C) = Mints(B) \cup M
      /\ among(C, logOf(C), AfterMint) = old \cup A
  BY AmongMore DEF Mints
<1>2. \A k \in Mints(B) : k \in logOf(B)
  BY DEF Mints, among
<1>3. ASSUME s.quarantined PROVE Mints(B) # {}
  <2>1. PICK k \in among(B, logOf(B), HoldKinds) : holdOf(s.quarantined) = toldIn(B, holdTold)[k]
    BY <1>3 DEF SaysParts, Shows, holdOf
  <2>2. k \in old \/ k \in Mints(B)
    BY <2>1 DEF among, HoldKinds, AfterMint
  <2>. QED
    BY <2>2 DEF SaysMint
<1>4. A # {} => Mints(B) # {}
  BY <1>3 DEF FollowsMint, SaysMint
<1>5. \A k \in A, j \in Mints(B) : precedes(j, k)
  BY <1>2 DEF Extended, ofKinds
<1>6. \A k \in among(C, logOf(C), AfterMint) : \E j \in Mints(C) : precedes(j, k)
  BY <1>1, <1>4, <1>5 DEF SaysMint
<1>7. CASE ofKinds(N, {"AssetMinted"}) = {}
  <2>1. Mints(C) = Mints(B) /\ (then.minted <=> s.minted)
    BY <1>1, <1>7 DEF FollowsMint
  <2>. QED
    BY <1>6, <2>1 DEF SaysMint
<1>8. CASE ofKinds(N, {"AssetMinted"}) # {}
  <2>1. ~s.minted /\ then.minted /\ DOMAIN N = {1}
    BY <1>8 DEF FollowsMint
  <2>2. Mints(B) = {} /\ M = {new[1]}
    BY <1>8, <2>1 DEF SaysMint, ofKinds
  <2>. QED
    BY <1>1, <1>6, <2>1, <2>2 DEF SaysMint
<1>. QED
  BY <1>7, <1>8

LEMMA SaysRolesNext ==
  ASSUME NEW B, NEW C, NEW N \in Seq(Event), NEW new, NEW b, Extended(B, C, N, new, b),
         NEW s \in State, NEW then \in State, SaysRoles(B, s), FollowsRoles(N, s, then)
  PROVE  SaysRoles(C, then)
<1>. SUFFICES ASSUME NEW r \in Roles
     PROVE Shows(amongRole(C, logOf(C), r), toldIn(C, termTold), then.roles[r], "none")
  BY DEF SaysRoles
<1>1. amongRole(C, logOf(C), r) = amongRole(B, logOf(B), r) \cup {new[i] : i \in ofRole(N, r)}
  BY DEF Extended, amongRole, among, ofRole, ofKinds
<1>2. /\ amongRole(B, logOf(B), r) \subseteq logOf(B) /\ ofRole(N, r) \subseteq DOMAIN N
      /\ DOMAIN N \subseteq Nat
  BY DEF amongRole, among, ofRole, ofKinds
<1>3. /\ Shows(amongRole(B, logOf(B), r), toldIn(B, termTold), s.roles[r], "none")
      /\ LeavesLast(N, ofRole(N, r), termTold, s.roles[r], then.roles[r])
  BY DEF SaysRoles, FollowsRoles
<1>. QED
  BY <1>1, <1>2, <1>3, ShowsNext

LEMMA SaysDidNext ==
  ASSUME NEW B, NEW C, NEW N \in Seq(Event), NEW new, NEW b, Extended(B, C, N, new, b),
         NEW s \in State, NEW then \in State, SaysDid(B, s), FollowsDid(N, s, then)
  PROVE  SaysDid(C, then)
<1>. DEFINE L == logOf(B)
            M == logOf(C)
            at(kinds) == {new[i] : i \in ofKinds(N, kinds)}
            R == among(B, L, {"DIDRegistered"})
            changes == {"KeyRotated", "DIDRevoked"}
<1>1. /\ DOMAIN N \subseteq Nat
      /\ \A kinds : ofKinds(N, kinds) \subseteq DOMAIN N /\ among(B, L, kinds) \subseteq logOf(B)
      /\ \A kinds : among(C, M, kinds) = among(B, L, kinds) \cup at(kinds)
  BY AmongMore DEF ofKinds, among
<1>2. Shows(among(C, M, StatusKinds), toldIn(C, statusTold), then.did.status, "None")
  BY <1>1, ShowsNext DEF SaysDid, FollowsDid
<1>3. Shows(among(C, M, ControlKinds), toldIn(C, ownerTold), then.did.controller, Nobody)
  BY <1>1, ShowsNext DEF SaysDid, FollowsDid
<1>4. among(C, M, {"DIDRegistered"}) = R \cup at({"DIDRegistered"})
      /\ among(C, M, changes) = among(B, L, changes) \cup at(changes)
  BY <1>1
<1>5. then.did.status # "None" => among(C, M, {"DIDRegistered"}) # {}
  BY <1>4 DEF SaysDid, FollowsDid
<1>6. ASSUME NEW k \in at(changes) PROVE \E j \in R : precedes(j, k)
  <2>1. R # {}
    BY <1>6 DEF SaysDid, FollowsDid
  <2>. QED
    BY <1>1, <1>6, <2>1 DEF Extended
<1>7. \A k \in among(C, M, changes) : \E j \in among(C, M, {"DIDRegistered"}) : precedes(j, k)
  BY <1>4, <1>6 DEF SaysDid
<1>. QED
  BY <1>2, <1>3, <1>5, <1>7 DEF SaysDid

\* A case that is not the open one has ended, and after the open one nothing has.
LEMMA SaysCasesNext ==
  ASSUME NEW B, NEW C, NEW N \in Seq(Event), NEW new, NEW b, Extended(B, C, N, new, b),
         NEW s \in State, NEW then \in State, SaysCases(B, s), FollowsCase(N, s, then),
         then.txs = s.txs + 1 \/ (then.txs = s.txs /\ N = <<>>)
  PROVE  SaysCases(C, then)
<1>. DEFINE L == logOf(B)
            M == logOf(C)
            D == detections(B, L)
            newD == {new[i] : i \in ofKinds(N, {"DivergenceDetected"})}
            newR == {new[i] : i \in ofKinds(N, {"AssetReconciled"})}
<1>1. /\ detections(C, M) = D \cup newD
      /\ releases(C, M) = releases(B, L) \cup newR
  BY AmongMore DEF detections, releases
<1>2. /\ \A k \in D \cup releases(B, L) : k \in L /\ eventIn(C, k) = eventIn(B, k)
      /\ endings(B, L) \subseteq endings(C, M)
  BY <1>1 DEF Extended, detections, releases, endings, among
<1>3. /\ \A k \in L : \A j \in newD \cup newR : precedes(k, j)
      /\ \A i \in ofKinds(N, {"AssetReconciled"}) : N[i].contract = "DivergenceRegistry" => new[i] \in endings(C, M)
  BY <1>1 DEF Extended, ofKinds, endings
<1>4. s.cases \in Nat /\ then.cases \in Nat /\ s.txs \in Nat /\ then.txs \in Nat
  BY EventsAssumption DEF State
<1>5. /\ s.cases <= s.txs /\ lastCase(s) \subseteq 1..s.cases
      /\ {eventIn(B, k).id : k \in D} = 1..s.cases
      /\ \A j, k \in D : eventIn(B, j).id = eventIn(B, k).id => j = k
      /\ \A j \in D : IF eventIn(B, j).id \in lastCase(s)
                      THEN \A k \in releases(B, L) : precedes(k, j)
                      ELSE \E k \in endings(B, L) : precedes(j, k)
  BY DEF SaysCases
<1>6. CASE /\ ofKinds(N, {"DivergenceDetected"}) = {} /\ ofKinds(N, {"AssetReconciled"}) = {}
           /\ then.cases = s.cases /\ then.quarantined = s.quarantined
  <2>1. detections(C, M) = D /\ releases(C, M) = releases(B, L) /\ lastCase(then) = lastCase(s)
    BY <1>1, <1>6 DEF lastCase
  <2>2. {eventIn(C, k).id : k \in D} = {eventIn(B, k).id : k \in D}
    BY <1>2
  <2>3. \A j \in D : eventIn(C, j).id = eventIn(B, j).id
    BY <1>2
  <2>4. then.cases <= then.txs
    BY <1>4, <1>5, <1>6
  <2>5. \A j \in D : IF eventIn(C, j).id \in lastCase(then)
                     THEN \A k \in releases(C, M) : precedes(k, j)
                     ELSE \E k \in endings(C, M) : precedes(j, k)
    BY <1>2, <1>5, <2>1, <2>3
  <2>. QED
    BY <1>5, <1>6, <2>1, <2>2, <2>3, <2>4, <2>5 DEF SaysCases
<1>7. CASE /\ ofKinds(N, {"AssetReconciled"}) = {}
           /\ ~s.quarantined /\ then.quarantined /\ then.cases = s.cases + 1
           /\ \E i \in DOMAIN N : ofKinds(N, {"DivergenceDetected"}) = {i} /\ N[i].id = then.cases
  <2>1. PICK i \in DOMAIN N : ofKinds(N, {"DivergenceDetected"}) = {i} /\ N[i].id = then.cases
    BY <1>7
  <2>2. /\ detections(C, M) = D \cup {new[i]} /\ releases(C, M) = releases(B, L)
        /\ lastCase(s) = {} /\ lastCase(then) = {s.cases + 1} /\ eventIn(C, new[i]).id = s.cases + 1
    <3>1. newD = {new[i]} /\ newR = {}
      BY <1>7, <2>1
    <3>2. lastCase(s) = {} /\ lastCase(then) = {s.cases + 1}
      BY <1>7 DEF lastCase
    <3>3. eventIn(C, new[i]) = N[i]
      BY DEF Extended
    <3>. QED
      BY <1>1, <1>7, <2>1, <3>1, <3>2, <3>3
  <2>3. {eventIn(C, k).id : k \in detections(C, M)} = 1..then.cases
    <3>1. {eventIn(C, k).id : k \in detections(C, M)} = {eventIn(B, k).id : k \in D} \cup {s.cases + 1}
      BY <1>2, <2>2
    <3>2. 1..(s.cases + 1) = (1..s.cases) \cup {s.cases + 1}
      BY <1>4
    <3>. QED
      BY <1>5, <1>7, <3>1, <3>2
  <2>4. \A j \in D : eventIn(C, j).id \in 1..s.cases /\ eventIn(C, j).id # s.cases + 1
    BY <1>2, <1>4, <1>5
  <2>5. \A j, k \in detections(C, M) : eventIn(C, j).id = eventIn(C, k).id => j = k
    BY <1>2, <1>5, <2>2, <2>4
  <2>6. \A k \in releases(C, M) : precedes(k, new[i])
    BY <1>2, <1>3, <2>1, <2>2
  <2>7. \A j \in D : \E k \in endings(C, M) : precedes(j, k)
    BY <1>2, <1>5, <2>2
  <2>8. then.cases <= then.txs /\ lastCase(then) \subseteq 1..then.cases
    BY <1>4, <1>5, <1>7, <2>1, <2>2
  <2>. QED
    BY <2>2, <2>3, <2>4, <2>5, <2>6, <2>7, <2>8 DEF SaysCases
<1>8. CASE /\ ofKinds(N, {"DivergenceDetected"}) = {}
           /\ s.quarantined /\ ~then.quarantined /\ then.cases = s.cases
           /\ \E i \in ofKinds(N, {"AssetReconciled"}) : N[i].contract = "DivergenceRegistry"
  <2>1. PICK i \in ofKinds(N, {"AssetReconciled"}) : N[i].contract = "DivergenceRegistry"
    BY <1>8
  <2>2. detections(C, M) = D /\ lastCase(then) = {} /\ new[i] \in endings(C, M) /\ new[i] \in newR
    BY <1>1, <1>3, <1>8, <2>1 DEF lastCase
  <2>3. \A j \in D : precedes(j, new[i])
    BY <1>2, <1>3, <2>2
  <2>4. {eventIn(C, k).id : k \in D} = {eventIn(B, k).id : k \in D}
    BY <1>2
  <2>. QED
    BY <1>2, <1>4, <1>5, <1>8, <2>2, <2>3, <2>4 DEF SaysCases
<1>. QED
  BY <1>6, <1>7, <1>8 DEF FollowsCase

LEMMA SaysNext ==
  ASSUME NEW B, NEW C, NEW N \in Seq(Event), NEW new, NEW b, Extended(B, C, N, new, b),
         NEW s \in State, NEW then \in State, Says(B, s), Follows(N, b, s, then),
         then.txs = s.txs + 1 \/ (then.txs = s.txs /\ N = <<>>)
  PROVE  Says(C, then)
<1>1. \A k \in logOf(C) : eventIn(C, k) \in Event /\ Placed(eventIn(C, k))
  <2>1. \A i \in DOMAIN N : N[i] \in Event
    OBVIOUS
  <2>. QED
    BY <2>1 DEF Says, Extended, Follows
<1>2. SaysParts(C, then) /\ SaysMint(C, then) /\ SaysCases(C, then)
  BY SaysPartsNext, SaysMintNext, SaysCasesNext DEF Says, Follows, FollowsAsset
<1>3. SaysRoles(C, then) /\ SaysDid(C, then)
  BY SaysRolesNext, SaysDidNext DEF Says, Follows
<1>. QED
  BY <1>1, <1>2, <1>3 DEF Says

LEMMA SaysNothing ==
  ASSUME NEW B, logOf(B) = {}
  PROVE  Says(B, Genesis)
<1>1. \A S, kinds : S = {} => among(B, S, kinds) = {}
  BY DEF among
<1>2. \A told, value : Shows({}, told, value, value)
  BY DEF Shows
<1>3. holdOf(Genesis.quarantined) = "free"
  BY DEF holdOf, Genesis
<1>4. SaysParts(B, Genesis)
  <2>1. \A kinds : among(B, logOf(B), kinds) = {}
    BY <1>1
  <2>2. idsOf(B, logOf(B)) = 1..Genesis.seen
    BY <2>1 DEF idsOf, Genesis
  <2>3. Genesis.owner = Nobody /\ Genesis.custodian = Nobody /\ Genesis.fresh = 0
    BY DEF Genesis
  <2>. QED
    BY <1>2, <1>3, <2>1, <2>2, <2>3 DEF SaysParts
<1>5. SaysMint(B, Genesis)
  BY <1>1 DEF SaysMint, Mints, Genesis
<1>6. SaysRoles(B, Genesis)
  BY <1>1, <1>2 DEF SaysRoles, amongRole, Genesis
<1>7. SaysDid(B, Genesis)
  BY <1>1, <1>2 DEF SaysDid, Genesis
<1>8. SaysCases(B, Genesis)
  BY <1>1 DEF SaysCases, detections, lastCase, Genesis
<1>. QED
  BY <1>4, <1>5, <1>6, <1>7, <1>8 DEF Says

\* A longer block that is being built, and an empty one after it.
LEMMA ExtendedByEvents ==
  ASSUME blocks \in Seq(Block), NEW p \in Block, NEW q \in Block, NEW N \in Seq(Event),
         q.events = p.events \o N, Len(q.events) <= 3 * MaxTxs
  PROVE  \E new : Extended(Append(blocks, p), Append(blocks, q), N, new, Len(blocks) + 1)
<1>. DEFINE L == Len(blocks)
            P == p.events
            B == Append(blocks, p)
            C == Append(blocks, q)
            new == [i \in DOMAIN N |-> <<L + 1, Len(P) + i>>]
            bound == 3 * MaxTxs
<1>1. /\ P \in Seq(Event) /\ L \in Nat /\ Len(P) \in Nat /\ Len(N) \in Nat /\ bound \in Nat
      /\ DOMAIN P = 1..Len(P) /\ DOMAIN N = 1..Len(N)
  BY EventsAssumption DEF Block
<1>2. /\ DOMAIN q.events = 1..(Len(P) + Len(N)) /\ Len(P) + Len(N) <= bound
      /\ \A i \in 1..Len(P) : q.events[i] = P[i]
      /\ \A i \in 1..Len(N) : q.events[Len(P) + i] = N[i]
  BY <1>1
<1>3. /\ Len(B) = L + 1 /\ Len(C) = L + 1 /\ B[L + 1] = p /\ C[L + 1] = q
      /\ \A n \in 1..L : B[n] = blocks[n] /\ C[n] = blocks[n]
  BY <1>1
<1>. HIDE DEF B, C, bound
<1>4. \A k \in logOf(B) : k = <<k[1], k[2]>> /\ k[1] \in 1..(L + 1) /\ k[2] \in 1..bound
                          /\ k[2] \in DOMAIN B[k[1]].events
  BY <1>3 DEF logOf, bound
<1>5. ASSUME NEW k \in logOf(B)
      PROVE  k \in logOf(C) /\ eventIn(C, k) = eventIn(B, k) /\ \A i \in DOMAIN N : precedes(k, new[i])
  <2>1. CASE k[1] = L + 1
    <3>1. k[2] \in 1..Len(P)
      BY <1>1, <1>3, <1>4, <2>1
    <3>2. k[2] \in DOMAIN C[k[1]].events /\ C[k[1]].events[k[2]] = B[k[1]].events[k[2]]
      BY <1>1, <1>2, <1>3, <2>1, <3>1
    <3>. QED
      BY <1>1, <1>3, <1>4, <2>1, <3>1, <3>2 DEF logOf, eventIn, precedes, bound
  <2>2. CASE k[1] # L + 1
    <3>1. k[1] \in 1..L
      BY <1>1, <1>4, <2>2
    <3>. QED
      BY <1>1, <1>3, <1>4, <3>1 DEF logOf, eventIn, precedes, bound
  <2>. QED
    BY <2>1, <2>2
<1>6. ASSUME NEW i \in DOMAIN N
      PROVE  /\ new[i] = <<L + 1, Len(P) + i>> /\ new[i] \in logOf(C)
             /\ eventIn(C, new[i]) = N[i] /\ new[i][1] = L + 1
  <2>1. Len(P) + i \in 1..(Len(P) + Len(N)) /\ Len(P) + i \in 1..bound
    BY <1>1, <1>2
  <2>. QED
    <3>1. new[i] \in (1..Len(C)) \X (1..bound) /\ new[i] = <<L + 1, Len(P) + i>>
      BY <1>1, <1>2, <1>3, <2>1
    <3>2. C[L + 1].events[Len(P) + i] = N[i] /\ Len(P) + i \in DOMAIN C[L + 1].events
      BY <1>1, <1>2, <1>3, <2>1
    <3>. QED
      BY <3>1, <3>2 DEF logOf, eventIn, bound
<1>7. ASSUME NEW k \in logOf(C), k \notin logOf(B) PROVE k \in {new[i] : i \in DOMAIN N}
  <2>1. k = <<k[1], k[2]>> /\ k[1] \in 1..(L + 1) /\ k[2] \in 1..bound /\ k[2] \in DOMAIN C[k[1]].events
    BY <1>3 DEF logOf, bound
  <2>2. k[1] = L + 1
    <3>. SUFFICES ASSUME k[1] # L + 1 PROVE FALSE
      OBVIOUS
    <3>1. k[1] \in 1..L
      BY <1>1, <2>1
    <3>. QED
      BY <1>3, <1>7, <2>1, <3>1 DEF logOf, bound
  <2>3. k[2] \in 1..(Len(P) + Len(N)) /\ k[2] \notin 1..Len(P)
    BY <1>1, <1>2, <1>3, <1>7, <2>1, <2>2 DEF logOf, bound
  <2>4. k[2] - Len(P) \in DOMAIN N /\ k[2] = Len(P) + (k[2] - Len(P))
    BY <1>1, <2>3
  <2>5. k = new[k[2] - Len(P)]
    BY <2>1, <2>2, <2>4
  <2>. QED
    BY <2>4, <2>5
<1>8. \A i, j \in DOMAIN N : i <= j => new[i] = new[j] \/ precedes(new[i], new[j])
  BY <1>1 DEF precedes
<1>9. logOf(C) = logOf(B) \cup {new[i] : i \in DOMAIN N}
  BY <1>5, <1>6, <1>7
<1>10. Extended(B, C, N, new, L + 1)
  BY <1>5, <1>6, <1>8, <1>9 DEF Extended
<1>. QED
  BY <1>10 DEF B, C

LEMMA ExtendedByBlock ==
  ASSUME NEW B \in Seq(Block), NEW p \in Block, p.events = <<>>
  PROVE  Extended(B, Append(B, p), <<>>, <<>>, 0)
<1>. DEFINE C == Append(B, p)
<1>1. /\ Len(C) = Len(B) + 1 /\ C[Len(B) + 1] = p /\ \A n \in 1..Len(B) : C[n] = B[n]
      /\ Len(B) \in Nat /\ 3 * MaxTxs \in Nat /\ DOMAIN p.events = {}
  BY EventsAssumption
<1>. HIDE DEF C
<1>2. \A k \in logOf(C) : k[1] \in 1..Len(B)
  BY <1>1 DEF logOf
<1>3. logOf(C) = logOf(B) /\ \A k \in logOf(B) : eventIn(C, k) = eventIn(B, k)
  BY <1>1, <1>2 DEF logOf, eventIn
<1>. QED
  BY <1>3 DEF Extended, C

\* Both the mined blocks and those with the one that is being built.
ChainSays ==
  /\ Says(blocks, stateAt(Len(blocks)))
  /\ Says(Append(blocks, pending), now)

LEMMA ChainSaysInit == ChainInit => ChainSays
<1>. SUFFICES ASSUME ChainInit PROVE ChainSays
  OBVIOUS
<1>1. /\ blocks = <<>> /\ Len(blocks) = 0 /\ now = Genesis /\ stateAt(0) = Genesis
      /\ pending.events = <<>>
  BY DEF ChainInit, now, stateAt
<1>2. logOf(blocks) = {}
  BY <1>1 DEF logOf
<1>3. Len(Append(blocks, pending)) = 1 /\ Append(blocks, pending)[1] = pending
  BY <1>1
<1>4. logOf(Append(blocks, pending)) = {}
  BY <1>1, <1>3 DEF logOf
<1>. QED
  BY <1>1, <1>2, <1>4, SaysNothing DEF ChainSays

LEMMA FollowsCounted ==
  ASSUME NEW N, NEW b, NEW s, NEW then \in State, NEW more, more = [then EXCEPT !.txs = @ + 1],
         Follows(N, b, s, then)
  PROVE  Follows(N, b, s, more)
<1>1. SameAsset(then, more) /\ more.roles = then.roles /\ more.did = then.did
  BY DEF SameAsset, State
<1>2. holdOf(more.quarantined) = holdOf(then.quarantined)
  BY <1>1 DEF SameAsset
<1>. QED
  BY <1>1, <1>2
  DEF Follows, FollowsAsset, FollowsParts, FollowsMint, FollowsCase, FollowsRoles, FollowsDid, SameAsset

LEMMA NothingFollows ==
  ASSUME NEW b, NEW s \in State
  PROVE  Follows(<<>>, b, s, s)
<1>1. \A kinds : ofKinds(<<>>, kinds) = {}
  BY DEF ofKinds
<1>. QED
  BY <1>1, QuietAsset, QuietRoles, QuietDid DEF Follows, SameAsset

LEMMA ChainSaysNext ==
  ASSUME topic \in Topics, blocks \in Seq(Block), Len(blocks) <= MaxBlock, pending \in Block,
         ChainTells, ChainSays, ChainNext
  PROVE  ChainSays'
<1>1. now \in State /\ thisBlock \in Nat /\ blocks' \in Seq(Block) /\ pending' \in Block
  BY ChainGrows DEF Block, now, thisBlock
<1>2. CASE Mined
  <2>1. /\ blocks' = Append(blocks, pending) /\ pending' = [pending EXCEPT !.events = <<>>]
        /\ blocks'[Len(blocks')] = pending /\ Len(blocks') # 0
    BY <1>2 DEF Mined
  <2>2. stateAt(Len(blocks))' = now /\ now' = now /\ pending'.events = <<>>
    BY <2>1 DEF stateAt, now, Block
  <2>3. Says(blocks', now)
    BY <2>1 DEF ChainSays
  <2>4. Extended(blocks', Append(blocks', pending'), <<>>, <<>>, 0)
    BY <1>1, <2>2, ExtendedByBlock
  <2>5. Says(Append(blocks', pending'), now)
    <3>1. PICK B : B = blocks'
      OBVIOUS
    <3>2. PICK C : C = Append(blocks', pending')
      OBVIOUS
    <3>3. <<>> \in Seq(Event)
      OBVIOUS
    <3>4. Extended(B, C, <<>>, <<>>, 0) /\ Says(B, now) /\ Follows(<<>>, 0, now, now)
      BY <1>1, <2>3, <2>4, <3>1, <3>2, <3>3, NothingFollows
    <3>5. Says(C, now)
      BY <1>1, <3>3, <3>4, SaysNext
    <3>. QED
      BY <3>2, <3>5
  <2>. QED
    BY <2>2, <2>3, <2>5 DEF ChainSays
<1>3. ASSUME NEW N, NEW s, Explains(N, s) PROVE ChainSays'
  <2>1. /\ blocks' = blocks /\ N \in Seq(Event) /\ s \in State /\ s.txs = now.txs
        /\ pending' = [events |-> pending.events \o N, state |-> [s EXCEPT !.txs = @ + 1]]
        /\ Follows(N, thisBlock, now, s)
    BY <1>3 DEF Explains, Transact
  <2>. DEFINE more == [s EXCEPT !.txs = @ + 1]
  <2>2. now' = more /\ pending'.events = pending.events \o N
    BY <2>1 DEF now
  <2>3. more \in State /\ more.txs = now.txs + 1
    BY <1>1, <2>1, <2>2 DEF State, Block, now
  <2>4. Follows(N, thisBlock, now, more)
    BY <2>1, FollowsCounted
  <2>. HIDE DEF more
  <2>5. Len(pending'.events) <= 3 * MaxTxs
    <3>1. Explaining'
      BY <1>3, ExplainingStep DEF ChainTells
    <3>2. now'.txs <= MaxTxs /\ now'.txs \in Nat /\ newTxs' \in Nat /\ Len(pending'.events) <= 3 * newTxs'
      BY <2>2, <2>3, <3>1, EventsAssumption DEF Explaining, State
    <3>3. stateAt(Len(blocks))'.txs \in Nat
      <4>1. CASE Len(blocks') = 0
        BY <4>1 DEF stateAt, Genesis
      <4>2. CASE Len(blocks') # 0
        <5>1. blocks'[Len(blocks')] \in Block
          BY <1>1, <4>2
        <5>. QED
          BY <5>1, <4>2, EventsAssumption DEF stateAt, Block, State
      <4>. QED
        BY <4>1, <4>2
    <3>. QED
      BY <1>1, <3>2, <3>3, EventsAssumption DEF newTxs, Block
  <2>6. PICK new : Extended(Append(blocks, pending), Append(blocks, pending'), N, new, Len(blocks) + 1)
    BY <1>1, <2>1, <2>2, <2>5, ExtendedByEvents
  <2>7. Says(Append(blocks, pending'), more)
    <3>1. Says(Append(blocks, pending), now)
      BY DEF ChainSays
    <3>. QED
      BY <1>1, <2>1, <2>3, <2>4, <2>6, <3>1, SaysNext DEF thisBlock
  <2>8. stateAt(Len(blocks))' = stateAt(Len(blocks))
    BY <2>1 DEF stateAt
  <2>. QED
    BY <2>1, <2>2, <2>7, <2>8 DEF ChainSays
<1>. QED
  BY <1>1, <1>2, <1>3, TransactionKinds

-----------------------------------------------------------------------------
\* The events whose effects the tables have: all of them in done, the first
\* write only in begun.
doing == {k \in todo : phase \in {"first", "second"} /\ isNext(k)}
done  == stored \ doing
begun == IF phase = "second" THEN stored ELSE done

TellsRow(S, D) ==
  LET B == blocks IN
  /\ row.indexed <=> among(B, S, {"AssetMinted"}) # {}
  /\ Shows(among(B, S, OwnerKinds), toldIn(B, ownerTold), row.owner, Nobody)
  /\ Shows(among(B, S, CustodianKinds), toldIn(B, custodianTold), row.custodian, Nobody)
  /\ Shows(among(B, S, HoldKinds), toldIn(B, holdTold), holdOf(row.quarantined), "free")
  /\ Shows(among(B, S, {"AssetMinted"}) \cup among(B, D, SeenKinds), blockIn(B), row.fresh, 0)

termShown == [none |-> "none", inactive |-> "none", unset |-> "unset", epoch |-> "plain",
              timed |-> "timed"]
TellsRest(S) ==
  LET B == blocks IN
  /\ attested = idsOf(B, S)
  /\ \A r \in Roles : Shows(amongRole(B, S, r), toldIn(B, termTold), termShown[grants[r]], "none")
  /\ Shows(among(B, S, StatusKinds), toldIn(B, statusTold), didRow.status, "None")
  /\ Shows(among(B, S, ControlKinds), toldIn(B, ownerTold), didRow.controller, Nobody)

\* A divergence has a row once it is detected, which is resolved once it is
\* followed by the registry's release, and then only if it is followed by one.
TellsCases(D) ==
  LET B == blocks IN
  /\ \A d \in DOMAIN cases : cases[d] # "none" <=> \E j \in detections(B, D) : eventIn(B, j).id = d
  /\ \A d \in resolvedRows : \E j \in detections(B, D) :
       eventIn(B, j).id = d /\ \E k \in releases(B, D) : precedes(j, k)
  /\ \A j \in detections(B, D), k \in endings(B, D) :
       precedes(j, k) => eventIn(B, j).id \in resolvedRows

\* The rows are of events that the tick can have come to, no batch holds an
\* event that its order of handling mixes up with a release, and with an event
\* the earlier ones of its contract, and of those handled before, are done.
Window ==
  /\ phase # "idle" => until <= cursor + 1 + Span
  /\ \A k \in stored : k[1] <= IF phase = "idle" THEN cursor + 1 + Span ELSE until
Unmixed == phase # "idle" => ~overtaken(logsOf(cursor + 1, until))
Closed  == \A k \in done, j \in logOf(blocks) : rank(j) <= rank(k) /\ precedes(j, k) => j \in done
Told    == TellsRow(begun, done) /\ TellsRest(begun) /\ TellsCases(done)

TablesInv == AuditInv /\ ChainSays /\ Window /\ (orderly => Unmixed /\ Closed /\ Told)

LEMMA LogsAreLog ==
  ASSUME AuditInv
  PROVE  /\ logsOf(1, Len(blocks)) = logOf(blocks) /\ stored \subseteq logOf(blocks)
         /\ logOf(blocks) \subseteq Keys
         /\ \A first \in Nat \ {0}, last \in 0..Len(blocks) :
              logsOf(first, last) = {k \in logOf(blocks) : k[1] \in first..last}
<1>1. blocks \in Seq(Block) /\ Len(blocks) <= MaxBlock /\ Len(blocks) \in Nat
  BY DEF AuditInv, IInv, TypeOK
<1>2. \A k \in Keys : k[1] \in 1..Len(blocks) => k \in (1..Len(blocks)) \X (1..(3 * MaxTxs))
  BY DEF Keys
<1>3. (1..Len(blocks)) \X (1..(3 * MaxTxs)) \subseteq Keys
  BY <1>1, EventsAssumption DEF Keys
<1>4. logsOf(1, Len(blocks)) = logOf(blocks)
  BY <1>2, <1>3 DEF logsOf, logOf
<1>5. ASSUME NEW first \in Nat \ {0}, NEW last \in 0..Len(blocks)
      PROVE  logsOf(first, last) = {k \in logOf(blocks) : k[1] \in first..last}
  <2>1. first..last \subseteq 1..Len(blocks)
    BY <1>1
  <2>. QED
    BY <1>4, <2>1 DEF logsOf
<1>. QED
  BY <1>3, <1>4, <1>5 DEF AuditInv, logOf

\* The order in which a tick handles the contracts.
LEMMA RankOfKind ==
  ASSUME NEW k, Placed(event(k)), event(k) \in Event
  PROVE  /\ rank(k) \in 1..5
         /\ event(k).kind \in RoleKinds => rank(k) = 1
         /\ event(k).kind \in DidKinds => rank(k) = 2
         /\ event(k).kind \in {"AssetMinted", "AssetTransferred", "AssetAllocated", "AssetQuarantined"}
            => rank(k) = 3
         /\ event(k).kind = "AttestationRecorded" => rank(k) = 4
         /\ event(k).kind = "DivergenceDetected" => rank(k) = 5
         /\ event(k).kind = "AssetReconciled" => rank(k) \in {3, 5}
         /\ event(k).contract = "DivergenceRegistry" => rank(k) = 5
BY DEF Placed, Event, rank, RoleKinds, DidKinds

LEMMA NextEvent ==
  ASSUME TablesInv, NEW k \in Keys, phase \in {"first", "second"}, isNext(k)
  PROVE  /\ doing = {k} /\ stored = done \cup {k} /\ k \notin done
         /\ stored \subseteq logOf(blocks) /\ k[1] \in (cursor + 1)..until
         /\ \A j \in stored : event(j) \in Event /\ Placed(event(j))
<1>1. doing = {k}
  BY OneIsNext DEF TablesInv, AuditInv, IInv, TypeOK, doing, isNext
<1>2. k \in stored /\ k \in logsOf(cursor + 1, until)
  BY DEF TablesInv, AuditInv, IInv, BatchInv, isNext
<1>3. stored \subseteq logOf(blocks)
  BY LogsAreLog DEF TablesInv
<1>4. \A j \in logOf(blocks) : event(j) \in Event /\ Placed(event(j))
  BY DEF TablesInv, ChainSays, Says, event, eventIn
<1>. QED
  BY <1>1, <1>2, <1>3, <1>4 DEF done, logsOf

\* What comes before the event in the chain and in the order of the contracts is
\* done, and what is done comes before it or is of a contract handled before.
LEMMA NextInOrder ==
  ASSUME TablesInv, orderly, NEW k \in Keys, phase \in {"first", "second"}, isNext(k)
  PROVE  /\ \A j \in logOf(blocks) : rank(j) <= rank(k) /\ precedes(j, k) => j \in done
         /\ \A j \in done : \/ precedes(j, k)
                            \/ /\ precedes(k, j) /\ rank(j) < rank(k)
                               /\ event(k).kind = "AssetReconciled"
                                  => event(j).kind \notin {"AssetAllocated", "AssetQuarantined", "AssetReconciled"}
<1>1. /\ doing = {k} /\ stored = done \cup {k} /\ k \notin done /\ stored \subseteq logOf(blocks)
      /\ k[1] \in (cursor + 1)..until
      /\ \A j \in stored : event(j) \in Event /\ Placed(event(j))
  BY NextEvent
<1>2. logOf(blocks) \subseteq Keys /\ cursor \in Nat /\ until \in 0..Len(blocks) /\ cursor \in 0..Len(blocks)
  BY LogsAreLog DEF TablesInv, AuditInv, IInv, TypeOK
<1>3. \A j \in Keys : j[1] \in Int /\ j[2] \in Int /\ rank(j) \in 1..5
  BY EventsAssumption DEF Keys, rank
<1>4. /\ logsOf(1, cursor) = {j \in logOf(blocks) : j[1] \in 1..cursor}
      /\ logsOf(cursor + 1, until) = {j \in logOf(blocks) : j[1] \in (cursor + 1)..until}
  BY <1>2, LogsAreLog DEF TablesInv
<1>5. ASSUME NEW j \in logOf(blocks), rank(j) <= rank(k), precedes(j, k) PROVE j \in done
  <2>1. j \in Keys /\ j[1] <= k[1] /\ j[1] \in 1..Len(blocks) /\ j # k
    BY <1>2, <1>3, <1>5 DEF precedes, logOf
  <2>2. CASE j[1] <= cursor
    <3>1. j \in stored
      BY <1>2, <1>4, <2>1, <2>2 DEF TablesInv, AuditInv, IInv, NoEventMissed
    <3>. QED
      BY <1>1, <2>1, <3>1
  <2>3. CASE j[1] > cursor
    <3>1. j \in stored \cup todo
      <4>1. j \in logsOf(cursor + 1, until)
        BY <1>1, <1>2, <1>4, <2>1, <2>3
      <4>. QED
        BY <4>1 DEF TablesInv, AuditInv, IInv, BatchInv
    <3>2. ~handledBefore(k, j)
      BY <1>3, <1>5, <2>1 DEF handledBefore, precedes
    <3>. QED
      BY <1>1, <2>1, <3>1, <3>2 DEF isNext
  <2>. QED
    BY <1>2, <1>3, <2>1, <2>2, <2>3
<1>6. ASSUME NEW j \in done, ~precedes(j, k)
      PROVE  /\ precedes(k, j) /\ rank(j) < rank(k)
             /\ event(k).kind = "AssetReconciled"
                => event(j).kind \notin {"AssetAllocated", "AssetQuarantined", "AssetReconciled"}
  <2>1. j \in Keys /\ j # k /\ j \in stored /\ k \in logOf(blocks)
    BY <1>1, <1>2
  <2>2. precedes(k, j)
    <3>1. j = <<j[1], j[2]>> /\ k = <<k[1], k[2]>>
      BY <2>1 DEF Keys
    <3>. QED
      BY <1>3, <1>6, <2>1, <3>1 DEF precedes
  <2>3. rank(j) < rank(k)
    <3>1. ~(rank(k) <= rank(j))
      BY <1>1, <2>1, <2>2 DEF TablesInv, Closed
    <3>. QED
      BY <1>3, <2>1, <3>1
  <2>4. j \in logsOf(cursor + 1, until) /\ k \in logsOf(cursor + 1, until)
    <3>1. j[1] <= until /\ k[1] <= j[1] /\ j \in logOf(blocks)
      BY <1>1, <1>3, <2>1, <2>2 DEF TablesInv, Window, precedes
    <3>. QED
      BY <1>1, <1>2, <1>3, <1>4, <2>1, <3>1
  <2>5. handledBefore(j, k)
    BY <2>3 DEF handledBefore
  <2>6. ~overtaken(logsOf(cursor + 1, until))
    BY DEF TablesInv, Unmixed
  <2>. QED
    BY <2>2, <2>3, <2>4, <2>5, <2>6 DEF overtaken
<1>. QED
  BY <1>5, <1>6

\* So the event is the last one, in the chain's order, of those that set the
\* same part of a row.
NextIsLast(k) ==
  LET B == blocks
      e == eventIn(blocks, k) IN
  /\ e.kind \in OwnerKinds => \A j \in among(B, done, OwnerKinds) : precedes(j, k)
  /\ e.kind \in CustodianKinds => \A j \in among(B, done, CustodianKinds) : precedes(j, k)
  /\ e.kind \in HoldKinds => \A j \in among(B, done, HoldKinds) : precedes(j, k)
  /\ e.kind \in SeenKinds => \A j \in among(B, done, {"AssetMinted"}) \cup among(B, done, SeenKinds) : precedes(j, k)
  /\ e.kind \in RoleKinds => \A j \in among(B, done, RoleKinds) : precedes(j, k)
  /\ e.kind \in DidKinds => \A j \in among(B, done, DidKinds) : precedes(j, k)
  /\ e.kind = "AssetMinted" => among(B, done, AssetKinds) = {}
  /\ e.kind \in AfterMint => among(B, done, {"AssetMinted"}) # {}
  /\ e.kind \in {"KeyRotated", "DIDRevoked"} => among(B, done, {"DIDRegistered"}) # {}
  /\ e.kind = "DivergenceDetected" =>
       /\ \A j \in endings(B, done) : precedes(j, k)
       /\ \A j \in detections(B, done) : eventIn(B, j).id # e.id
  /\ e.kind = "AssetReconciled" => \A j \in detections(B, done) : precedes(j, k)

LEMMA NextIsLastNow ==
  ASSUME TablesInv, orderly, NEW k \in Keys, phase \in {"first", "second"}, isNext(k)
  PROVE  NextIsLast(k)
<1>. DEFINE B == blocks
            L == logOf(blocks)
            e == eventIn(blocks, k)
<1>1. /\ done \subseteq L /\ k \in L /\ k \notin done
      /\ \A j \in L : eventIn(B, j) = event(j) /\ event(j) \in Event /\ Placed(event(j))
  <2>1. \A j \in L : eventIn(B, j) = event(j) /\ event(j) \in Event /\ Placed(event(j))
    BY DEF TablesInv, ChainSays, Says, event, eventIn
  <2>. QED
    BY <2>1, NextEvent
<1>2. \A j \in done : \/ precedes(j, k)
                      \/ /\ precedes(k, j) /\ rank(j) < rank(k)
                         /\ e.kind = "AssetReconciled"
                            => eventIn(B, j).kind \notin {"AssetAllocated", "AssetQuarantined", "AssetReconciled"}
  BY <1>1, NextInOrder
<1>3. \A j \in L : rank(j) <= rank(k) /\ precedes(j, k) => j \in done
  BY NextInOrder
<1>4. ASSUME NEW j \in L
      PROVE  /\ rank(j) \in 1..5
             /\ eventIn(B, j).kind \in RoleKinds => rank(j) = 1
             /\ eventIn(B, j).kind \in DidKinds => rank(j) = 2
             /\ eventIn(B, j).kind \in {"AssetMinted", "AssetTransferred", "AssetAllocated", "AssetQuarantined"}
                => rank(j) = 3
             /\ eventIn(B, j).kind = "AttestationRecorded" => rank(j) = 4
             /\ eventIn(B, j).kind = "DivergenceDetected" => rank(j) = 5
             /\ eventIn(B, j).kind = "AssetReconciled" => rank(j) \in {3, 5}
             /\ eventIn(B, j).contract = "DivergenceRegistry" => rank(j) = 5
  BY <1>1, RankOfKind
<1>e. e = eventIn(B, k)
  OBVIOUS
<1>5. /\ \A i, j \in Mints(B) : i = j
      /\ \A j \in L : eventIn(B, j).kind \in AfterMint => \E i \in Mints(B) : precedes(i, j)
      /\ \A i \in Mints(B) : i \in L /\ eventIn(B, i).kind = "AssetMinted"
  BY DEF TablesInv, ChainSays, Says, SaysMint, Mints, among
<1>6. \A i, j \in L : ~(precedes(i, j) /\ precedes(j, i))
  BY DEF precedes, logOf
<1>. HIDE DEF B, L
<1>7. ASSUME e.kind \in AfterMint PROVE \E i \in Mints(B) : i \in done /\ precedes(i, k)
  <2>1. PICK i \in Mints(B) : precedes(i, k)
    BY <1>1, <1>e, <1>5, <1>7
  <2>2. rank(i) = 3 /\ rank(k) \in 3..5
    BY <1>1, <1>e, <1>4, <1>5, <1>7 DEF AfterMint
  <2>. QED
    BY <1>3, <1>5, <2>1, <2>2
<1>8. ASSUME e.kind = "AssetMinted", NEW j \in done, eventIn(B, j).kind \in AssetKinds PROVE FALSE
  <2>1. k \in Mints(B)
    BY <1>1, <1>e, <1>8 DEF Mints, among, e, B, L
  <2>2. eventIn(B, j).kind # "AssetMinted"
    <3>1. eventIn(B, j).kind = "AssetMinted" => j \in Mints(B)
      BY <1>1 DEF Mints, among, B, L
    <3>. QED
      BY <1>1, <1>e, <1>5, <2>1, <3>1
  <2>3. precedes(k, j)
    BY <1>1, <1>e, <1>5, <1>8, <2>1, <2>2 DEF AssetKinds
  <2>4. ~precedes(j, k)
    BY <1>1, <1>e, <1>6, <2>3
  <2>5. rank(j) < rank(k) /\ rank(k) = 3 /\ rank(j) \in 3..5
    BY <1>1, <1>e, <1>2, <1>4, <1>8, <2>2, <2>4 DEF AssetKinds, AfterMint
  <2>. QED
    BY <2>5
<1>9. ASSUME NEW j \in done, eventIn(B, j).kind = "AssetMinted", e.kind \in AfterMint PROVE precedes(j, k)
  <2>1. j \in Mints(B)
    BY <1>1, <1>e, <1>9 DEF Mints, among, B, L
  <2>. QED
    BY <1>5, <1>7, <1>9, <2>1
<1>10. e.kind \in OwnerKinds => \A j \in among(B, done, OwnerKinds) : precedes(j, k)
  BY <1>1, <1>e, <1>2, <1>4 DEF among, OwnerKinds
<1>11. ASSUME e.kind \in CustodianKinds, NEW j \in among(B, done, CustodianKinds) PROVE precedes(j, k)
  <2>1. j \in done /\ eventIn(B, j).kind \in CustodianKinds
    BY <1>11 DEF among
  <2>2. CASE e.kind = "AssetMinted"
    BY <1>8, <2>1, <2>2 DEF CustodianKinds, AssetKinds, AfterMint
  <2>3. CASE e.kind # "AssetMinted" /\ eventIn(B, j).kind = "AssetMinted"
    BY <1>9, <1>11, <2>1, <2>3 DEF CustodianKinds, AfterMint
  <2>4. CASE e.kind # "AssetMinted" /\ eventIn(B, j).kind # "AssetMinted"
    <3>1. eventIn(B, j).kind \in {"AssetAllocated", "AssetReconciled"} /\ rank(j) \in {3, 5}
      BY <1>1, <1>e, <1>4, <2>1, <2>4 DEF CustodianKinds
    <3>2. e.kind = "AssetAllocated" \/ e.kind = "AssetReconciled"
      BY <1>11, <2>4 DEF CustodianKinds
    <3>3. e.kind = "AssetAllocated" => rank(k) = 3
      BY <1>1, <1>e, <1>4
    <3>. QED
      BY <1>2, <2>1, <3>1, <3>2, <3>3
  <2>. QED
    BY <2>2, <2>3, <2>4
<1>12. ASSUME e.kind \in HoldKinds, NEW j \in among(B, done, HoldKinds) PROVE precedes(j, k)
  <2>1. j \in done /\ eventIn(B, j).kind \in {"AssetQuarantined", "AssetReconciled"} /\ rank(j) \in {3, 5}
    BY <1>1, <1>e, <1>4, <1>12 DEF among, HoldKinds
  <2>2. e.kind = "AssetQuarantined" => rank(k) = 3
    BY <1>1, <1>e, <1>4
  <2>. QED
    BY <1>2, <1>12, <2>1, <2>2 DEF HoldKinds
<1>13. ASSUME e.kind \in SeenKinds, NEW j \in among(B, done, {"AssetMinted"}) \cup among(B, done, SeenKinds)
       PROVE  precedes(j, k)
  <2>1. j \in done /\ (eventIn(B, j).kind = "AssetMinted" \/ eventIn(B, j).kind = "AttestationRecorded")
    BY <1>13 DEF among, SeenKinds
  <2>2. CASE eventIn(B, j).kind = "AssetMinted"
    BY <1>9, <1>13, <2>1, <2>2 DEF SeenKinds, AfterMint
  <2>3. CASE eventIn(B, j).kind = "AttestationRecorded"
    BY <1>1, <1>e, <1>2, <1>4, <1>13, <2>1, <2>3 DEF SeenKinds
  <2>. QED
    BY <2>1, <2>2, <2>3
<1>14. e.kind \in RoleKinds => \A j \in among(B, done, RoleKinds) : precedes(j, k)
  BY <1>1, <1>e, <1>2, <1>4 DEF among
<1>15. e.kind \in DidKinds => \A j \in among(B, done, DidKinds) : precedes(j, k)
  BY <1>1, <1>e, <1>2, <1>4 DEF among
<1>16. e.kind = "AssetMinted" => among(B, done, AssetKinds) = {}
  BY <1>1, <1>e, <1>8 DEF among
<1>17. e.kind \in AfterMint => among(B, done, {"AssetMinted"}) # {}
  BY <1>1, <1>e, <1>5, <1>7 DEF among
<1>18. ASSUME e.kind \in {"KeyRotated", "DIDRevoked"} PROVE among(B, done, {"DIDRegistered"}) # {}
  <2>1. PICK j \in among(B, L, {"DIDRegistered"}) : precedes(j, k)
    <3>1. k \in among(B, L, {"KeyRotated", "DIDRevoked"})
      BY <1>1, <1>e, <1>18 DEF among
    <3>. QED
      BY <3>1 DEF TablesInv, ChainSays, Says, SaysDid, B, L
  <2>2. j \in L /\ eventIn(B, j).kind = "DIDRegistered"
    BY <2>1 DEF among
  <2>3. rank(j) = 2 /\ rank(k) = 2
    BY <1>1, <1>e, <1>4, <1>18, <2>2 DEF DidKinds
  <2>4. j \in done
    BY <1>3, <2>1, <2>2, <2>3
  <2>. QED
    BY <2>2, <2>4 DEF among
<1>19. ASSUME e.kind = "DivergenceDetected"
       PROVE  /\ \A j \in endings(B, done) : precedes(j, k)
              /\ \A j \in detections(B, done) : eventIn(B, j).id # e.id
  <2>1. rank(k) = 5
    BY <1>1, <1>e, <1>4, <1>19
  <2>2. \A j \in endings(B, done) : j \in done /\ rank(j) = 5
    BY <1>1, <1>e, <1>4 DEF endings, releases, among
  <2>3. \A j \in endings(B, done) : precedes(j, k)
    BY <1>2, <2>1, <2>2
  <2>4. \A i, j \in detections(B, L) : eventIn(B, i).id = eventIn(B, j).id => i = j
    BY DEF TablesInv, ChainSays, Says, SaysCases, B, L
  <2>5. k \in detections(B, L) /\ \A j \in detections(B, done) : j \in detections(B, L) /\ j # k
    BY <1>1, <1>e, <1>19 DEF detections, among
  <2>6. \A j \in detections(B, done) : eventIn(B, j).id # e.id
    BY <1>1, <1>e, <2>4, <2>5
  <2>. QED
    BY <2>3, <2>6
<1>20. ASSUME e.kind = "AssetReconciled", NEW j \in detections(B, done) PROVE precedes(j, k)
  <2>1. j \in done /\ rank(j) = 5 /\ rank(k) \in {3, 5}
    BY <1>1, <1>e, <1>4, <1>20 DEF detections, among
  <2>. QED
    BY <1>2, <2>1
<1>. QED
  BY <1>10, <1>11, <1>12, <1>13, <1>14, <1>15, <1>16, <1>17, <1>18, <1>19, <1>20 DEF NextIsLast, B, e

-----------------------------------------------------------------------------
\* One more key: the part is set by its event, or left alone.
LEMMA OneMore ==
  ASSUME NEW B, NEW D, NEW k, NEW kinds, NEW told, NEW was, NEW is, NEW first,
         Shows(among(B, D, kinds), told, was, first),
         IF eventIn(B, k).kind \in kinds
         THEN (\A j \in among(B, D, kinds) : precedes(j, k)) /\ is = told[k]
         ELSE is = was
  PROVE  Shows(among(B, D \cup {k}, kinds), told, is, first)
<1>1. CASE eventIn(B, k).kind \in kinds
  <2>1. among(B, D \cup {k}, kinds) = among(B, D, kinds) \cup {k}
    BY <1>1 DEF among
  <2>2. \A j \in among(B, D, kinds), i \in {k} : precedes(j, i)
    BY <1>1
  <2>3. \E i \in {k} : (\A j \in {k} : j = i \/ precedes(j, i)) /\ is = told[i]
    BY <1>1
  <2>4. Shows(among(B, D, kinds) \cup {k}, told, is, first)
    BY <2>2, <2>3, ShowsMore
  <2>. QED
    BY <2>1, <2>4
<1>2. CASE eventIn(B, k).kind \notin kinds
  <2>1. among(B, D \cup {k}, kinds) = among(B, D, kinds)
    BY <1>2 DEF among
  <2>. QED
    BY <1>2, <2>1
<1>. QED
  BY <1>1, <1>2

LEMMA AssetEffectTells ==
  ASSUME row \in Row, NEW e \in Event, NEW b \in 0..MaxBlock, NEW is, is = assetEffect(e, b),
         e.kind = "AssetMinted" => ~row.indexed, e.kind \in AfterMint => row.indexed
  PROVE  /\ is.indexed <=> row.indexed \/ e.kind = "AssetMinted"
         /\ is.owner = IF e.kind \in OwnerKinds THEN e.party ELSE row.owner
         /\ is.custodian = IF e.kind \in CustodianKinds THEN e.custodian ELSE row.custodian
         /\ is.quarantined = IF e.kind \in HoldKinds THEN e.kind = "AssetQuarantined" ELSE row.quarantined
         /\ is.fresh = IF e.kind = "AssetMinted" THEN b ELSE row.fresh
<1>1. CASE e.kind = "AssetMinted"
  BY <1>1 DEF assetEffect, Row, OwnerKinds, CustodianKinds, HoldKinds
<1>2. CASE e.kind = "AssetTransferred"
  BY <1>2 DEF assetEffect, Row, OwnerKinds, CustodianKinds, HoldKinds, AfterMint
<1>3. CASE e.kind = "AssetAllocated"
  BY <1>3 DEF assetEffect, Row, OwnerKinds, CustodianKinds, HoldKinds, AfterMint
<1>4. CASE e.kind = "AssetQuarantined"
  BY <1>4 DEF assetEffect, Row, OwnerKinds, CustodianKinds, HoldKinds, AfterMint
<1>5. CASE e.kind = "AssetReconciled"
  BY <1>5 DEF assetEffect, Row, OwnerKinds, CustodianKinds, HoldKinds, AfterMint
<1>6. CASE e.kind \notin OwnerKinds \cup CustodianKinds \cup HoldKinds
  <2>1. is = row
    BY <1>6 DEF assetEffect, OwnerKinds, CustodianKinds, HoldKinds
  <2>. QED
    BY <1>6, <2>1 DEF OwnerKinds, CustodianKinds, HoldKinds
<1>. QED
  BY <1>1, <1>2, <1>3, <1>4, <1>5, <1>6 DEF OwnerKinds, CustodianKinds, HoldKinds

LEMMA HoldOfEqual ==
  ASSUME NEW p \in BOOLEAN, NEW q \in BOOLEAN
  PROVE  holdOf(p) = holdOf(q) => p = q
BY DEF holdOf

\* The first write of an event: to the asset's row, ...
LEMMA FirstWriteTellsRow ==
  ASSUME TablesInv, orderly, NEW k \in Keys, WriteFirst(k)
  PROVE  TellsRow(begun, done)'
<1>. DEFINE B == blocks
            e == eventIn(blocks, k)
            D == done
            o == toldIn(B, ownerTold)
            c == toldIn(B, custodianTold)
            h == toldIn(B, holdTold)
            b == blockIn(B)
<1>1. /\ phase = "first" /\ isNext(k) /\ row \in Row /\ k \in logOf(B) /\ k[1] \in 0..MaxBlock
      /\ e = event(k) /\ e \in Event /\ stored = D \cup {k}
  <2>1. phase = "first" /\ isNext(k) /\ row \in Row
    BY DEF WriteFirst, TablesInv, AuditInv, IInv, TypeOK, Row
  <2>. QED
    BY <2>1, NextEvent, EventsAssumption DEF event, eventIn, Keys
<1>2. NextIsLast(k) /\ TellsRow(D, D)
  BY <1>1, NextIsLastNow DEF TablesInv, Told, begun
<1>3. row' = assetEffect(e, k[1])
  BY <1>1 DEF WriteFirst
<1>4. done' = D /\ begun' = D \cup {k} /\ blocks' = B
  <2>1. blocks' = blocks /\ stored' = stored /\ todo' = todo /\ phase' = "second" /\ phase = "first"
    BY DEF WriteFirst, chainVars
  <2>2. isNext(k)' /\ \A j : isNext(j)' = isNext(j)
    BY <1>1, <2>1, NextStays
  <2>3. doing' = doing
    BY <2>1, <2>2 DEF doing
  <2>. QED
    BY <1>1, <2>1, <2>3 DEF done, begun
<1>5. /\ o[k] = e.party /\ c[k] = e.custodian /\ h[k] = holdOf(e.kind = "AssetQuarantined") /\ b[k] = k[1]
  BY <1>1 DEF toldIn, blockIn, ownerTold, custodianTold, holdTold
<1>6. /\ row.indexed <=> among(B, D, {"AssetMinted"}) # {}
      /\ Shows(among(B, D, OwnerKinds), o, row.owner, Nobody)
      /\ Shows(among(B, D, CustodianKinds), c, row.custodian, Nobody)
      /\ Shows(among(B, D, HoldKinds), h, holdOf(row.quarantined), "free")
      /\ Shows(among(B, D, {"AssetMinted"}) \cup among(B, D, SeenKinds), b, row.fresh, 0)
  BY <1>2 DEF TellsRow
<1>7. /\ e.kind \in OwnerKinds => \A j \in among(B, D, OwnerKinds) : precedes(j, k)
      /\ e.kind \in CustodianKinds => \A j \in among(B, D, CustodianKinds) : precedes(j, k)
      /\ e.kind \in HoldKinds => \A j \in among(B, D, HoldKinds) : precedes(j, k)
      /\ e.kind = "AssetMinted" => among(B, D, AssetKinds) = {}
      /\ e.kind \in AfterMint => row.indexed
  BY <1>2, <1>6 DEF NextIsLast
<1>. HIDE DEF B, e, D, o, c, h, b
<1>8. e.kind = "AssetMinted" => among(B, D, {"AssetMinted"}) = {} /\ among(B, D, SeenKinds) = {}
  BY <1>7 DEF among, AssetKinds, AfterMint, SeenKinds
<1>9. PICK is : is = row'
  OBVIOUS
<1>10. /\ is.indexed <=> row.indexed \/ e.kind = "AssetMinted"
       /\ is.owner = IF e.kind \in OwnerKinds THEN e.party ELSE row.owner
       /\ is.custodian = IF e.kind \in CustodianKinds THEN e.custodian ELSE row.custodian
       /\ is.quarantined = IF e.kind \in HoldKinds THEN e.kind = "AssetQuarantined" ELSE row.quarantined
       /\ is.fresh = IF e.kind = "AssetMinted" THEN k[1] ELSE row.fresh
  BY <1>1, <1>3, <1>6, <1>7, <1>8, <1>9, AssetEffectTells
<1>e. e = eventIn(B, k)
  BY DEF e, B
<1>11. is.indexed <=> among(B, D \cup {k}, {"AssetMinted"}) # {}
  <2>1. among(B, D \cup {k}, {"AssetMinted"}) # {}
        <=> among(B, D, {"AssetMinted"}) # {} \/ e.kind = "AssetMinted"
    BY <1>e DEF among
  <2>. QED
    BY <1>6, <1>10, <2>1
<1>12. Shows(among(B, D \cup {k}, OwnerKinds), o, is.owner, Nobody)
  <2>1. IF eventIn(B, k).kind \in OwnerKinds
        THEN (\A j \in among(B, D, OwnerKinds) : precedes(j, k)) /\ is.owner = o[k]
        ELSE is.owner = row.owner
    BY <1>5, <1>7, <1>10, <1>e
  <2>. QED
    BY <1>6, <2>1, OneMore
<1>13. Shows(among(B, D \cup {k}, CustodianKinds), c, is.custodian, Nobody)
  <2>1. IF eventIn(B, k).kind \in CustodianKinds
        THEN (\A j \in among(B, D, CustodianKinds) : precedes(j, k)) /\ is.custodian = c[k]
        ELSE is.custodian = row.custodian
    BY <1>5, <1>7, <1>10, <1>e
  <2>. QED
    BY <1>6, <2>1, OneMore
<1>14. Shows(among(B, D \cup {k}, HoldKinds), h, holdOf(is.quarantined), "free")
  <2>1. holdOf(is.quarantined) = IF e.kind \in HoldKinds THEN holdOf(e.kind = "AssetQuarantined")
                                                         ELSE holdOf(row.quarantined)
    BY <1>10
  <2>2. IF eventIn(B, k).kind \in HoldKinds
        THEN (\A j \in among(B, D, HoldKinds) : precedes(j, k)) /\ holdOf(is.quarantined) = h[k]
        ELSE holdOf(is.quarantined) = holdOf(row.quarantined)
    BY <1>5, <1>7, <1>e, <2>1
  <2>. QED
    BY <1>6, <2>2, OneMore
<1>15. Shows(among(B, D \cup {k}, {"AssetMinted"}) \cup among(B, D, SeenKinds), b, is.fresh, 0)
  <2>1. CASE e.kind = "AssetMinted"
    <3>1. among(B, D \cup {k}, {"AssetMinted"}) \cup among(B, D, SeenKinds) = {k}
      BY <1>8, <1>e, <2>1 DEF among
    <3>. QED
      BY <1>5, <1>10, <2>1, <3>1 DEF Shows
  <2>2. CASE e.kind # "AssetMinted"
    <3>1. among(B, D \cup {k}, {"AssetMinted"}) = among(B, D, {"AssetMinted"})
      BY <1>e, <2>2 DEF among
    <3>. QED
      BY <1>6, <1>10, <2>2, <3>1
  <2>. QED
    BY <2>1, <2>2
<1>16. TellsRow(begun, done)' <=>
         /\ is.indexed <=> among(B, D \cup {k}, {"AssetMinted"}) # {}
         /\ Shows(among(B, D \cup {k}, OwnerKinds), o, is.owner, Nobody)
         /\ Shows(among(B, D \cup {k}, CustodianKinds), c, is.custodian, Nobody)
         /\ Shows(among(B, D \cup {k}, HoldKinds), h, holdOf(is.quarantined), "free")
         /\ Shows(among(B, D \cup {k}, {"AssetMinted"}) \cup among(B, D, SeenKinds), b, is.fresh, 0)
  BY <1>4, <1>9 DEF TellsRow, o, c, h, b
<1>. QED
  BY <1>11, <1>12, <1>13, <1>14, <1>15, <1>16

\* ... or to one of the others.
LEMMA GrantEffectTells ==
  ASSUME grants \in [Roles -> GrantRow], NEW e \in Event, NEW is, is = grantEffect(e), NEW r \in Roles
  PROVE  termShown[is[r]] = IF e.kind \in RoleKinds /\ e.role = r THEN termTold[e] ELSE termShown[grants[r]]
<1>1. CASE e.kind = "RoleGranted"
  BY <1>1 DEF grantEffect, termShown, termTold, RoleKinds, GrantRow
<1>2. CASE e.kind = "RoleExpirySet"
  BY <1>2 DEF grantEffect, termShown, termTold, RoleKinds, GrantRow
<1>3. CASE e.kind = "RoleRevoked"
  BY <1>3 DEF grantEffect, termShown, termTold, RoleKinds, GrantRow
<1>4. CASE e.kind \notin RoleKinds
  BY <1>4 DEF grantEffect, RoleKinds
<1>. QED
  BY <1>1, <1>2, <1>3, <1>4 DEF RoleKinds

LEMMA DidEffectTells ==
  ASSUME didRow \in Did, NEW e \in Event, NEW is, is = didEffect(e),
         e.kind \in {"KeyRotated", "DIDRevoked"} => didRow.status # "None"
  PROVE  /\ is.status = IF e.kind \in StatusKinds THEN statusTold[e] ELSE didRow.status
         /\ is.controller = IF e.kind \in ControlKinds THEN e.party ELSE didRow.controller
<1>1. CASE e.kind = "DIDRegistered"
  BY <1>1 DEF didEffect, Did, StatusKinds, ControlKinds, statusTold
<1>2. CASE e.kind = "KeyRotated"
  BY <1>2 DEF didEffect, Did, StatusKinds, ControlKinds, statusTold
<1>3. CASE e.kind = "DIDRevoked"
  BY <1>3 DEF didEffect, Did, StatusKinds, ControlKinds, statusTold
<1>4. CASE e.kind \notin DidKinds
  BY <1>4 DEF didEffect, StatusKinds, ControlKinds, DidKinds
<1>. QED
  BY <1>1, <1>2, <1>3, <1>4 DEF DidKinds

LEMMA FirstWriteTellsRest ==
  ASSUME TablesInv, orderly, NEW k \in Keys, WriteFirst(k)
  PROVE  TellsRest(begun)'
<1>. DEFINE B == blocks
            e == eventIn(blocks, k)
            D == done
            t == toldIn(B, termTold)
            u == toldIn(B, statusTold)
            o == toldIn(B, ownerTold)
<1>1. /\ phase = "first" /\ isNext(k) /\ grants \in [Roles -> GrantRow] /\ didRow \in Did
      /\ k \in logOf(B) /\ D \subseteq logOf(B)
      /\ e = event(k) /\ e \in Event /\ stored = D \cup {k}
  <2>1. phase = "first" /\ isNext(k) /\ grants \in [Roles -> GrantRow] /\ didRow \in Did
    BY DEF WriteFirst, TablesInv, AuditInv, IInv, TypeOK
  <2>. QED
    BY <2>1, NextEvent DEF event, eventIn
<1>2. NextIsLast(k) /\ TellsRest(D)
  BY <1>1, NextIsLastNow DEF TablesInv, Told, begun
<1>3. /\ attested' = attested \cup (IF e.kind = "AttestationRecorded" THEN {e.id} ELSE {})
      /\ grants' = grantEffect(e) /\ didRow' = didEffect(e)
  BY <1>1 DEF WriteFirst
<1>4. begun' = D \cup {k} /\ blocks' = B
  <2>1. blocks' = blocks /\ stored' = stored /\ phase' = "second"
    BY DEF WriteFirst, chainVars
  <2>. QED
    BY <1>1, <2>1 DEF begun
<1>5. t[k] = termTold[e] /\ u[k] = statusTold[e] /\ o[k] = e.party
  BY <1>1 DEF toldIn, ownerTold
<1>6. /\ attested = idsOf(B, D)
      /\ \A r \in Roles : Shows(amongRole(B, D, r), t, termShown[grants[r]], "none")
      /\ Shows(among(B, D, StatusKinds), u, didRow.status, "None")
      /\ Shows(among(B, D, ControlKinds), o, didRow.controller, Nobody)
  BY <1>2 DEF TellsRest
<1>7. /\ e.kind \in RoleKinds => \A j \in among(B, D, RoleKinds) : precedes(j, k)
      /\ e.kind \in DidKinds => \A j \in among(B, D, DidKinds) : precedes(j, k)
      /\ e.kind \in {"KeyRotated", "DIDRevoked"} => among(B, D, {"DIDRegistered"}) # {}
  BY <1>2 DEF NextIsLast
<1>8. e.kind \in {"KeyRotated", "DIDRevoked"} => didRow.status # "None"
  <2>1. SUFFICES ASSUME e.kind \in {"KeyRotated", "DIDRevoked"} PROVE didRow.status # "None"
    OBVIOUS
  <2>2. PICK j \in D : eventIn(B, j).kind = "DIDRegistered"
    BY <1>7, <2>1 DEF among
  <2>3. j \in among(B, D, StatusKinds)
    BY <2>2 DEF among, StatusKinds
  <2>4. \A i \in among(B, D, StatusKinds) : i \in logOf(B) /\ eventIn(B, i) \in Event
    BY <1>1 DEF among, TablesInv, ChainSays, Says
  <2>5. \A i \in among(B, D, StatusKinds) : u[i] \in {"Active", "Revoked"}
    BY <2>4 DEF toldIn, statusTold
  <2>. QED
    BY <1>6, <2>3, <2>5 DEF Shows
<1>e. e = eventIn(B, k)
  OBVIOUS
<1>. HIDE DEF B, e, D, t, u, o
<1>9. idsOf(B, D \cup {k}) = attested'
  <2>1. among(B, D \cup {k}, SeenKinds)
        = among(B, D, SeenKinds) \cup (IF e.kind = "AttestationRecorded" THEN {k} ELSE {})
    BY <1>e DEF among, SeenKinds
  <2>. QED
    BY <1>3, <1>6, <1>e, <2>1 DEF idsOf
<1>10. PICK g : g = grants'
  OBVIOUS
<1>11. ASSUME NEW r \in Roles
       PROVE  Shows(amongRole(B, D \cup {k}, r), t, termShown[g[r]], "none")
  <2>1. termShown[g[r]] = IF e.kind \in RoleKinds /\ e.role = r THEN termTold[e] ELSE termShown[grants[r]]
    BY <1>1, <1>3, <1>10, GrantEffectTells
  <2>2. CASE e.kind \in RoleKinds /\ e.role = r
    <3>1. amongRole(B, D \cup {k}, r) = amongRole(B, D, r) \cup {k}
      BY <1>e, <2>2 DEF amongRole, among
    <3>2. \A j \in amongRole(B, D, r), i \in {k} : precedes(j, i)
      BY <1>7, <2>2 DEF amongRole
    <3>3. PICK v : v = termShown[g[r]]
      OBVIOUS
    <3>4. PICK w : w = termShown[grants[r]]
      OBVIOUS
    <3>5. Shows(amongRole(B, D, r), t, w, "none")
      BY <1>6, <3>4
    <3>6. \E i \in {k} : (\A j \in {k} : j = i \/ precedes(j, i)) /\ v = t[i]
      BY <1>5, <2>1, <2>2, <3>3
    <3>7. Shows(amongRole(B, D, r) \cup {k}, t, v, "none")
      BY <3>2, <3>5, <3>6, ShowsMore
    <3>. QED
      BY <3>1, <3>3, <3>7
  <2>3. CASE ~(e.kind \in RoleKinds /\ e.role = r)
    <3>1. amongRole(B, D \cup {k}, r) = amongRole(B, D, r)
      BY <1>e, <2>3 DEF amongRole, among
    <3>. QED
      BY <1>6, <2>1, <2>3, <3>1
  <2>. QED
    BY <2>2, <2>3
<1>12. PICK d : d = didRow'
  OBVIOUS
<1>13. /\ d.status = IF e.kind \in StatusKinds THEN statusTold[e] ELSE didRow.status
       /\ d.controller = IF e.kind \in ControlKinds THEN e.party ELSE didRow.controller
  BY <1>1, <1>3, <1>8, <1>12, DidEffectTells
<1>14. /\ e.kind \in StatusKinds => \A j \in among(B, D, StatusKinds) : precedes(j, k)
       /\ e.kind \in ControlKinds => \A j \in among(B, D, ControlKinds) : precedes(j, k)
  BY <1>7 DEF among, StatusKinds, ControlKinds, DidKinds
<1>15. Shows(among(B, D \cup {k}, StatusKinds), u, d.status, "None")
  BY <1>5, <1>6, <1>13, <1>14, <1>e, OneMore
<1>16. Shows(among(B, D \cup {k}, ControlKinds), o, d.controller, Nobody)
  BY <1>5, <1>6, <1>13, <1>14, <1>e, OneMore
<1>17. TellsRest(begun)' <=>
         /\ attested' = idsOf(B, D \cup {k})
         /\ \A r \in Roles : Shows(amongRole(B, D \cup {k}, r), t, termShown[g[r]], "none")
         /\ Shows(among(B, D \cup {k}, StatusKinds), u, d.status, "None")
         /\ Shows(among(B, D \cup {k}, ControlKinds), o, d.controller, Nobody)
  BY <1>4, <1>10, <1>12 DEF TellsRest, t, u, o
<1>. QED
  BY <1>9, <1>11, <1>15, <1>16, <1>17

\* The second write: to the divergences' rows, or to the asset's row again.
LEMMA SecondWriteIsDone ==
  ASSUME TablesInv, NEW k \in Keys, WriteSecond(k)
  PROVE  /\ phase = "second" /\ isNext(k) /\ begun = stored /\ stored = done \cup {k} /\ k \notin done
         /\ done' = stored /\ begun' = stored /\ blocks' = blocks /\ stored' = stored
<1>1. phase = "second" /\ isNext(k) /\ blocks' = blocks /\ stored' = stored /\ phase' = "store"
  BY DEF WriteSecond, chainVars
<1>2. doing' = {}
  BY <1>1 DEF doing
<1>. QED
  BY <1>1, <1>2, NextEvent DEF done, begun

LEMMA SecondWriteTellsRow ==
  ASSUME TablesInv, orderly, NEW k \in Keys, WriteSecond(k)
  PROVE  TellsRow(begun, done)'
<1>. DEFINE B == blocks
            e == eventIn(blocks, k)
            D == done
            S == stored
            b == blockIn(B)
<1>1. /\ phase = "second" /\ isNext(k) /\ row \in Row /\ k \in logOf(B)
      /\ e = event(k) /\ e \in Event /\ S = D \cup {k} /\ begun = S
      /\ done' = S /\ begun' = S /\ blocks' = B
  <2>1. phase = "second" /\ isNext(k) /\ row \in Row
    BY DEF WriteSecond, TablesInv, AuditInv, IInv, TypeOK, Row
  <2>. QED
    BY <2>1, NextEvent, SecondWriteIsDone DEF event, eventIn
<1>2. NextIsLast(k) /\ TellsRow(S, D)
  BY <1>1, NextIsLastNow DEF TablesInv, Told
<1>3. row' = freshEffect(e, k[1])
  BY <1>1 DEF WriteSecond
<1>4. b[k] = k[1]
  BY <1>1 DEF blockIn
<1>5. /\ e.kind \in SeenKinds => row.indexed
      /\ e.kind \in SeenKinds =>
           \A j \in among(B, D, {"AssetMinted"}) \cup among(B, D, SeenKinds) : precedes(j, k)
  BY <1>1, <1>2 DEF NextIsLast, TellsRow, SeenKinds, AfterMint, among
<1>6. /\ row.indexed <=> among(B, S, {"AssetMinted"}) # {}
      /\ Shows(among(B, S, OwnerKinds), toldIn(B, ownerTold), row.owner, Nobody)
      /\ Shows(among(B, S, CustodianKinds), toldIn(B, custodianTold), row.custodian, Nobody)
      /\ Shows(among(B, S, HoldKinds), toldIn(B, holdTold), holdOf(row.quarantined), "free")
      /\ Shows(among(B, S, {"AssetMinted"}) \cup among(B, D, SeenKinds), b, row.fresh, 0)
  BY <1>2 DEF TellsRow
<1>7. PICK is : is = row'
  OBVIOUS
<1>8. /\ is.indexed = row.indexed /\ is.owner = row.owner /\ is.custodian = row.custodian
      /\ is.quarantined = row.quarantined
      /\ is.fresh = IF e.kind \in SeenKinds THEN k[1] ELSE row.fresh
  BY <1>1, <1>3, <1>5, <1>7 DEF freshEffect, SeenKinds, Row
<1>9. TellsRow(begun, done)' <=>
        /\ is.indexed <=> among(B, S, {"AssetMinted"}) # {}
        /\ Shows(among(B, S, OwnerKinds), toldIn(B, ownerTold), is.owner, Nobody)
        /\ Shows(among(B, S, CustodianKinds), toldIn(B, custodianTold), is.custodian, Nobody)
        /\ Shows(among(B, S, HoldKinds), toldIn(B, holdTold), holdOf(is.quarantined), "free")
        /\ Shows(among(B, S, {"AssetMinted"}) \cup among(B, S, SeenKinds), b, is.fresh, 0)
  BY <1>1, <1>7 DEF TellsRow
<1>e. e = eventIn(B, k)
  OBVIOUS
<1>. HIDE DEF B, e, D, S, b
<1>10. Shows(among(B, S, {"AssetMinted"}) \cup among(B, S, SeenKinds), b, is.fresh, 0)
  <2>. DEFINE M == among(B, S, {"AssetMinted"})
  <2>1. CASE e.kind \in SeenKinds
    <3>1. M = among(B, D, {"AssetMinted"})
      BY <1>1, <1>e, <2>1 DEF among, SeenKinds
    <3>2. M \cup among(B, S, SeenKinds) = (M \cup among(B, D, SeenKinds)) \cup {k}
      BY <1>1, <1>e, <2>1 DEF among
    <3>3. \A j \in M \cup among(B, D, SeenKinds), i \in {k} : precedes(j, i)
      BY <1>5, <2>1, <3>1
    <3>4. \E i \in {k} : (\A j \in {k} : j = i \/ precedes(j, i)) /\ is.fresh = b[i]
      BY <1>4, <1>8, <2>1
    <3>. HIDE DEF M
    <3>5. PICK was : was = row.fresh
      OBVIOUS
    <3>6. PICK then : then = is.fresh
      OBVIOUS
    <3>7. Shows(M \cup among(B, D, SeenKinds), b, was, 0)
      BY <1>6, <3>5 DEF M
    <3>8. Shows((M \cup among(B, D, SeenKinds)) \cup {k}, b, then, 0)
      BY <3>3, <3>4, <3>6, <3>7, ShowsMore
    <3>. QED
      BY <3>2, <3>6, <3>8 DEF M
  <2>2. CASE e.kind \notin SeenKinds
    <3>1. among(B, S, SeenKinds) = among(B, D, SeenKinds)
      BY <1>1, <1>e, <2>2 DEF among
    <3>. QED
      BY <1>6, <1>8, <2>2, <3>1
  <2>. QED
    BY <2>1, <2>2
<1>. QED
  BY <1>6, <1>8, <1>9, <1>10

LEMMA CaseIds ==
  ASSUME TablesInv, NEW j \in detections(blocks, logOf(blocks))
  PROVE  eventIn(blocks, j).id \in 1..MaxTxs
<1>1. stateAt(Len(blocks)) \in State
  <2>1. blocks \in Seq(Block)
    BY DEF TablesInv, AuditInv, IInv, TypeOK
  <2>2. CASE Len(blocks) = 0
    BY <2>2, EventsAssumption DEF stateAt, Genesis, State, Did
  <2>3. CASE Len(blocks) # 0
    <3>1. blocks[Len(blocks)] \in Block
      BY <2>1, <2>3
    <3>. QED
      BY <2>3, <3>1 DEF stateAt, Block
  <2>. QED
    BY <2>2, <2>3
<1>2. PICK s \in State : s = stateAt(Len(blocks))
  BY <1>1
<1>3. s.cases <= s.txs /\ eventIn(blocks, j).id \in 1..s.cases
  BY <1>2 DEF TablesInv, ChainSays, Says, SaysCases
<1>. QED
  BY <1>3, EventsAssumption DEF State

LEMMA SecondWriteTellsCases ==
  ASSUME TablesInv, orderly, NEW k \in Keys, WriteSecond(k)
  PROVE  TellsCases(done)'
<1>. DEFINE B == blocks
            e == eventIn(blocks, k)
            D == done
            S == stored
            is == cases'
            over(c) == {d \in DOMAIN c : c[d] \in {"byConfirmer", "byRegistry"}}
<1>1. /\ phase = "second" /\ isNext(k) /\ cases \in [1..MaxTxs -> CaseRow] /\ k \in logOf(B)
      /\ D \subseteq logOf(B) /\ e = event(k) /\ e \in Event /\ S = D \cup {k}
      /\ done' = S /\ blocks' = B
  <2>1. phase = "second" /\ isNext(k) /\ cases \in [1..MaxTxs -> CaseRow]
    BY DEF WriteSecond, TablesInv, AuditInv, IInv, TypeOK, Row
  <2>. QED
    BY <2>1, NextEvent, SecondWriteIsDone DEF event, eventIn
<1>2. NextIsLast(k) /\ TellsCases(D)
  BY <1>1, NextIsLastNow DEF TablesInv, Told
<1>3. cases' = divergenceEffect(e)
  BY <1>1 DEF WriteSecond
<1>4. /\ \A d \in DOMAIN cases : cases[d] # "none" <=> \E j \in detections(B, D) : eventIn(B, j).id = d
      /\ \A d \in over(cases) : \E j \in detections(B, D) :
           eventIn(B, j).id = d /\ \E i \in releases(B, D) : precedes(j, i)
      /\ \A j \in detections(B, D), i \in endings(B, D) :
           precedes(j, i) => eventIn(B, j).id \in over(cases)
  BY <1>2 DEF TellsCases, resolvedRows
<1>5. TellsCases(done)' <=>
        /\ \A d \in DOMAIN is : is[d] # "none" <=> \E j \in detections(B, S) : eventIn(B, j).id = d
        /\ \A d \in over(is) : \E j \in detections(B, S) :
             eventIn(B, j).id = d /\ \E i \in releases(B, S) : precedes(j, i)
        /\ \A j \in detections(B, S), i \in endings(B, S) :
             precedes(j, i) => eventIn(B, j).id \in over(is)
  BY <1>1 DEF TellsCases, resolvedRows
<1>6. \A j \in detections(B, S) : eventIn(B, j).id \in 1..MaxTxs
  <2>1. detections(B, S) \subseteq detections(B, logOf(B))
    BY <1>1 DEF detections, among
  <2>. QED
    BY <2>1, CaseIds
<1>7. /\ e.kind = "DivergenceDetected" =>
           /\ \A j \in endings(B, D) : precedes(j, k)
           /\ \A j \in detections(B, D) : eventIn(B, j).id # e.id
      /\ e.kind = "AssetReconciled" => \A j \in detections(B, D) : precedes(j, k)
  BY <1>2 DEF NextIsLast
<1>8. \A i, j \in S : ~(precedes(i, j) /\ precedes(j, i))
  BY <1>1 DEF precedes, logOf
<1>e. e = eventIn(B, k)
  OBVIOUS
<1>9. DOMAIN cases = 1..MaxTxs /\ \A d \in 1..MaxTxs : cases[d] \in CaseRow
  BY <1>1
<1>10. PICK c : c = is
  OBVIOUS
<1>. HIDE DEF B, e, D, S, is
<1>11. CASE e.kind = "DivergenceDetected"
  <2>1. /\ detections(B, S) = detections(B, D) \cup {k} /\ releases(B, S) = releases(B, D)
        /\ endings(B, S) = endings(B, D)
    BY <1>1, <1>e, <1>11 DEF detections, releases, endings, among
  <2>2. e.id \in 1..MaxTxs /\ cases[e.id] = "none"
    BY <1>4, <1>6, <1>7, <1>9, <1>11, <1>e, <2>1
  <2>3. c = [cases EXCEPT ![e.id] = "unresolved"]
    BY <1>3, <1>10, <1>11, <2>2 DEF divergenceEffect, is
  <2>4. DOMAIN c = 1..MaxTxs /\ \A d \in 1..MaxTxs : c[d] = IF d = e.id THEN "unresolved" ELSE cases[d]
    BY <1>9, <2>3
  <2>5. \A d \in 1..MaxTxs : c[d] # "none" <=> \E j \in detections(B, S) : eventIn(B, j).id = d
    BY <1>4, <1>9, <1>e, <2>1, <2>4
  <2>6. over(c) = over(cases)
    BY <1>9, <2>2, <2>4
  <2>7. \A i \in endings(B, S) : ~precedes(k, i)
    <3>1. \A i \in endings(B, S) : i \in S /\ k \in S
      BY <1>1 DEF endings, releases, among
    <3>. QED
      BY <1>7, <1>8, <1>11, <2>1, <3>1
  <2>. QED
    BY <1>4, <1>5, <1>10, <2>1, <2>4, <2>5, <2>6, <2>7
<1>12. CASE e.kind = "AssetReconciled"
  <2>1. /\ detections(B, S) = detections(B, D) /\ releases(B, S) = releases(B, D) \cup {k}
        /\ \A i \in endings(B, S) : i = k \/ i \in endings(B, D)
    BY <1>1, <1>e, <1>12 DEF detections, releases, endings, among
  <2>2. c = [d \in 1..MaxTxs |-> IF cases[d] = "unresolved" THEN confirmerOf(e) ELSE cases[d]]
    BY <1>3, <1>9, <1>10, <1>12 DEF divergenceEffect, is
  <2>3. DOMAIN c = 1..MaxTxs /\ over(c) = {d \in 1..MaxTxs : cases[d] # "none"}
    <3>1. confirmerOf(e) \in {"byConfirmer", "byRegistry"}
      BY DEF confirmerOf
    <3>. QED
      BY <1>9, <2>2, <3>1 DEF CaseRow
  <2>4. \A d \in 1..MaxTxs : c[d] # "none" <=> cases[d] # "none"
    BY <2>2 DEF confirmerOf
  <2>5. \A d \in over(c) : \E j \in detections(B, S) :
          eventIn(B, j).id = d /\ \E i \in releases(B, S) : precedes(j, i)
    BY <1>4, <1>7, <1>9, <1>12, <2>1, <2>3
  <2>6. \A j \in detections(B, S) : eventIn(B, j).id \in over(c)
    BY <1>4, <1>6, <1>9, <2>1, <2>3
  <2>. QED
    BY <1>4, <1>5, <1>9, <1>10, <2>1, <2>3, <2>4, <2>5, <2>6
<1>13. CASE e.kind \notin {"DivergenceDetected", "AssetReconciled"}
  <2>1. /\ detections(B, S) = detections(B, D) /\ releases(B, S) = releases(B, D)
        /\ endings(B, S) = endings(B, D)
    BY <1>1, <1>e, <1>13 DEF detections, releases, endings, among
  <2>2. is = cases
    BY <1>3, <1>13 DEF divergenceEffect, is
  <2>. QED
    BY <1>4, <1>5, <2>1, <2>2
<1>. QED
  BY <1>11, <1>12, <1>13

-----------------------------------------------------------------------------
\* The steps of the tick.
TablesHold == Window /\ (orderly => Unmixed /\ Closed /\ Told)

LEMMA ToldStays ==
  ASSUME Told, UNCHANGED <<blocks, derivedVars>>, done' = done, begun' = begun
  PROVE  Told'
<1>1. /\ blocks' = blocks /\ row' = row /\ cases' = cases /\ attested' = attested
      /\ grants' = grants /\ didRow' = didRow
  BY DEF derivedVars
<1>2. TellsRow(begun, done)'
  BY <1>1 DEF Told, TellsRow
<1>3. TellsRest(begun)'
  BY <1>1 DEF Told, TellsRest
<1>4. TellsCases(done)'
  BY <1>1 DEF Told, TellsCases, resolvedRows
<1>. QED
  BY <1>2, <1>3, <1>4 DEF Told

LEMMA ClosedStays ==
  ASSUME Closed, blocks' = blocks, done' = done
  PROVE  Closed'
<1>1. \A j : rank(j)' = rank(j)
  BY DEF rank, event
<1>. QED
  BY <1>1 DEF Closed

LEMMA OrderStays ==
  ASSUME blocks' = blocks
  PROVE  \A j, k : event(j)' = event(j) /\ handledBefore(j, k)' = handledBefore(j, k)
<1>1. \A j : event(j)' = event(j)
  BY DEF event
<1>2. \A j : rank(j)' = rank(j)
  BY <1>1 DEF rank
<1>. QED
  BY <1>1, <1>2 DEF handledBefore

LEMMA TablesPoll ==
  ASSUME TablesInv, Poll
  PROVE  TablesHold'
<1>1. /\ phase = "idle" /\ phase' = "store" /\ blocks' = blocks /\ stored' = stored /\ cursor' = cursor
      /\ until' = lastOfBatch /\ todo' = logsOf(cursor + 1, lastOfBatch)
      /\ orderly' = (orderly /\ ~overtaken(todo')) /\ UNCHANGED derivedVars
  BY DEF Poll, chainVars, dbVars, after
<1>2. done' = done /\ begun' = begun
  BY <1>1 DEF done, begun, doing
<1>3. Window'
  <2>1. \A k \in stored : k[1] \in 1..Len(blocks) /\ k[1] <= cursor + 1 + Span
    BY <1>1, LogsAreLog DEF TablesInv, Window, logOf
  <2>2. cursor \in Nat /\ Len(blocks) \in Nat /\ Span \in Nat
    BY IndexerAssumption DEF TablesInv, AuditInv, IInv, TypeOK
  <2>3. lastOfBatch <= cursor + 1 + Span /\ \A k \in stored : k[1] <= lastOfBatch
    BY <2>1, <2>2 DEF lastOfBatch, after, head
  <2>. QED
    BY <1>1, <2>3 DEF Window
<1>4. ASSUME orderly' PROVE Unmixed'
  <2>1. ~overtaken(logsOf(cursor + 1, lastOfBatch))
    <3>1. PICK T : T = todo'
      OBVIOUS
    <3>. QED
      BY <1>1, <1>4, <3>1 DEF overtaken
  <2>2. overtaken(logsOf(cursor + 1, until))' <=> overtaken(logsOf(cursor + 1, lastOfBatch))
    <3>1. logsOf(cursor + 1, until)' = logsOf(cursor + 1, lastOfBatch)
      BY <1>1 DEF logsOf
    <3>2. blocks' = blocks
      BY <1>1
    <3>. QED
      BY <3>1, <3>2, OrderStays DEF overtaken
  <2>. QED
    BY <2>1, <2>2 DEF Unmixed
<1>5. ASSUME orderly' PROVE Closed' /\ Told'
  BY <1>1, <1>2, <1>5, ClosedStays, ToldStays DEF TablesInv
<1>. QED
  BY <1>3, <1>4, <1>5 DEF TablesHold

LEMMA UnmixedStays ==
  ASSUME Unmixed, phase # "idle", blocks' = blocks, cursor' = cursor, until' = until
  PROVE  Unmixed'
<1>1. logsOf(cursor + 1, until)' = logsOf(cursor + 1, until)
  BY DEF logsOf
<1>2. overtaken(logsOf(cursor + 1, until))' <=> overtaken(logsOf(cursor + 1, until))
  BY <1>1, OrderStays DEF overtaken
<1>. QED
  BY <1>2 DEF Unmixed

LEMMA TablesAdvance ==
  ASSUME TablesInv, Advance
  PROVE  TablesHold'
<1>1. /\ phase = "store" /\ phase' = "idle" /\ blocks' = blocks /\ stored' = stored
      /\ cursor' = until /\ orderly' = orderly /\ UNCHANGED derivedVars
  BY DEF Advance, chainVars
<1>2. done' = done /\ begun' = begun
  BY <1>1 DEF done, begun, doing
<1>3. Window'
  <2>1. \A k \in stored : k[1] \in Nat /\ k[1] <= until
    BY <1>1, LogsAreLog DEF TablesInv, Window, logOf
  <2>2. until \in Nat /\ Span \in Nat
    BY IndexerAssumption DEF TablesInv, AuditInv, IInv, TypeOK
  <2>. QED
    BY <1>1, <2>1, <2>2 DEF Window
<1>4. Unmixed'
  BY <1>1 DEF Unmixed
<1>5. ASSUME orderly' PROVE Closed' /\ Told'
  BY <1>1, <1>2, <1>5, ClosedStays, ToldStays DEF TablesInv
<1>. QED
  BY <1>3, <1>4, <1>5 DEF TablesHold

LEMMA TablesAbort ==
  ASSUME TablesInv, Abort
  PROVE  TablesHold'
<1>1. /\ phase # "idle" /\ phase' = "idle" /\ blocks' = blocks /\ stored' = stored
      /\ cursor' = cursor /\ orderly' = (orderly /\ phase = "store") /\ UNCHANGED derivedVars
  BY DEF Abort, chainVars, dbVars
<1>2. orderly' => orderly /\ done' = done /\ begun' = begun
  BY <1>1 DEF done, begun, doing
<1>3. Window'
  <2>1. /\ \A k \in stored : k[1] \in Nat /\ k[1] <= until
        /\ until <= cursor + 1 + Span
    BY <1>1, LogsAreLog DEF TablesInv, Window, logOf
  <2>2. until \in Nat /\ cursor \in Nat /\ Span \in Nat
    BY IndexerAssumption DEF TablesInv, AuditInv, IInv, TypeOK
  <2>. QED
    BY <1>1, <2>1, <2>2 DEF Window
<1>4. Unmixed'
  BY <1>1 DEF Unmixed
<1>5. ASSUME orderly' PROVE Closed' /\ Told'
  BY <1>1, <1>2, <1>5, ClosedStays, ToldStays DEF TablesInv
<1>. QED
  BY <1>3, <1>4, <1>5 DEF TablesHold

LEMMA TablesStore ==
  ASSUME TablesInv, NEW k \in Keys, Store(k)
  PROVE  TablesHold'
<1>1. /\ phase = "store" /\ isNext(k) /\ blocks' = blocks /\ stored' = stored \cup {k}
      /\ cursor' = cursor /\ until' = until /\ orderly' = orderly /\ UNCHANGED derivedVars
      /\ todo' \subseteq Keys
      /\ IF k \in stored THEN phase' = "store" ELSE todo' = todo /\ phase' = "first"
  BY DEF Store, chainVars, TablesInv, AuditInv, IInv, TypeOK
<1>2. done' = done /\ begun' = begun
  <2>1. done = stored /\ begun = stored
    BY <1>1 DEF done, begun, doing
  <2>2. CASE k \in stored
    BY <1>1, <2>1, <2>2 DEF done, begun, doing
  <2>3. CASE k \notin stored
    <3>1. todo' = todo /\ phase' = "first" /\ k \in todo /\ todo \subseteq Keys
      BY <1>1, <2>3 DEF isNext
    <3>2. \A j : isNext(j)' = isNext(j)
      BY <1>1, <3>1, NextStays
    <3>3. doing' = {k}
      BY <1>1, <3>1, <3>2, OneIsNext DEF doing
    <3>. QED
      BY <1>1, <2>1, <2>3, <3>1, <3>3 DEF done, begun
  <2>. QED
    BY <2>2, <2>3
<1>3. Window'
  <2>1. k \in logsOf(cursor + 1, until)
    BY <1>1 DEF TablesInv, AuditInv, IInv, BatchInv, isNext
  <2>2. k[1] <= until
    BY <2>1 DEF logsOf, Keys, TablesInv, AuditInv, IInv, TypeOK
  <2>3. phase' # "idle"
    BY <1>1
  <2>. QED
    BY <1>1, <2>2, <2>3 DEF TablesInv, Window
<1>4. ASSUME orderly' PROVE Unmixed' /\ Closed' /\ Told'
  BY <1>1, <1>2, <1>4, UnmixedStays, ClosedStays, ToldStays DEF TablesInv
<1>. QED
  BY <1>3, <1>4 DEF TablesHold

LEMMA TablesWriteFirst ==
  ASSUME TablesInv, NEW k \in Keys, WriteFirst(k)
  PROVE  TablesHold'
<1>1. /\ phase = "first" /\ phase' = "second" /\ isNext(k) /\ blocks' = blocks /\ stored' = stored
      /\ cursor' = cursor /\ until' = until /\ todo' = todo /\ orderly' = orderly /\ cases' = cases
  BY DEF WriteFirst, chainVars
<1>2. done' = done
  BY <1>1, NextStays DEF done, doing
<1>3. Window'
  BY <1>1 DEF TablesInv, Window
<1>4. ASSUME orderly' PROVE Told'
  <2>1. TellsCases(done)'
    BY <1>1, <1>2, <1>4 DEF TablesInv, Told, TellsCases, resolvedRows
  <2>. QED
    BY <1>1, <1>4, <2>1, FirstWriteTellsRow, FirstWriteTellsRest DEF Told
<1>5. ASSUME orderly' PROVE Unmixed' /\ Closed'
  BY <1>1, <1>2, <1>5, UnmixedStays, ClosedStays DEF TablesInv
<1>. QED
  BY <1>3, <1>4, <1>5 DEF TablesHold

LEMMA TablesWriteSecond ==
  ASSUME TablesInv, NEW k \in Keys, WriteSecond(k)
  PROVE  TablesHold'
<1>1. /\ phase = "second" /\ phase' = "store" /\ isNext(k) /\ blocks' = blocks /\ stored' = stored
      /\ cursor' = cursor /\ until' = until /\ orderly' = orderly
      /\ UNCHANGED <<attested, grants, didRow>>
  BY DEF WriteSecond, chainVars
<1>2. done' = stored /\ begun' = begun /\ stored = done \cup {k}
  BY SecondWriteIsDone
<1>3. Window'
  BY <1>1 DEF TablesInv, Window
<1>4. ASSUME orderly' PROVE Told'
  <2>1. TellsRest(begun)'
    BY <1>1, <1>2, <1>4 DEF TablesInv, Told, TellsRest
  <2>. QED
    BY <1>1, <1>4, <2>1, SecondWriteTellsRow, SecondWriteTellsCases DEF Told
<1>5. ASSUME orderly' PROVE Closed'
  <2>1. \A j : rank(j)' = rank(j)
    BY <1>1 DEF rank, event
  <2>2. \A j \in logOf(blocks) : rank(j) <= rank(k) /\ precedes(j, k) => j \in done
    BY <1>1, <1>5, NextInOrder
  <2>. QED
    BY <1>1, <1>2, <1>5, <2>1, <2>2 DEF TablesInv, Closed
<1>6. ASSUME orderly' PROVE Unmixed'
  BY <1>1, <1>6, UnmixedStays DEF TablesInv
<1>. QED
  BY <1>3, <1>4, <1>5, <1>6 DEF TablesHold

\* A transaction or a block of the chain: the rows' events stay what they are.
LEMMA ShowsSame ==
  ASSUME NEW S, NEW told, NEW more, NEW is, NEW first, Shows(S, told, is, first),
         \A k \in S : more[k] = told[k]
  PROVE  Shows(S, more, is, first)
BY DEF Shows

LEMMA TablesChain ==
  ASSUME TablesInv, ChainNext, UNCHANGED <<dbVars, tickVars, aborts, orderly>>
  PROVE  TablesHold'
<1>. DEFINE L == logOf(blocks)
<1>1. /\ Grown /\ blocks \in Seq(Block) /\ cursor \in 0..Len(blocks) /\ until \in 0..Len(blocks)
      /\ stored \subseteq L /\ todo \subseteq logsOf(cursor + 1, until) /\ cursor \in Nat
  BY ChainGrows, LogsAreLog DEF Grown, TablesInv, AuditInv, IInv, TypeOK, BatchInv
<1>2. /\ stored' = stored /\ row' = row /\ cases' = cases /\ attested' = attested /\ grants' = grants
      /\ didRow' = didRow /\ cursor' = cursor /\ phase' = phase /\ until' = until /\ todo' = todo
      /\ orderly' = orderly
  BY DEF dbVars, derivedVars, tickVars
<1>3. \A k \in L : /\ blocks'[k[1]] = blocks[k[1]] /\ k \in logOf(blocks') /\ event(k)' = event(k)
                   /\ eventIn(blocks', k) = eventIn(blocks, k) /\ rank(k)' = rank(k)
                   /\ k[1] \in 1..Len(blocks)
  <2>1. \A k \in L : blocks'[k[1]] = blocks[k[1]] /\ k[1] \in 1..Len(blocks) /\ k[1] \in 1..Len(blocks')
    BY <1>1 DEF Grown, logOf
  <2>2. \A k \in L : k \in logOf(blocks') /\ event(k)' = event(k) /\ eventIn(blocks', k) = eventIn(blocks, k)
    BY <2>1 DEF logOf, event, eventIn
  <2>. QED
    BY <2>1, <2>2 DEF rank
<1>4. /\ logsOf(cursor + 1, until)' = logsOf(cursor + 1, until)
      /\ logsOf(cursor + 1, until) \subseteq L
  BY <1>1, <1>2, LogsStay, LogsAreLog DEF TablesInv
<1>5. \A k \in todo : isNext(k)' = isNext(k)
  BY <1>1, <1>2, <1>3, <1>4 DEF isNext, handledBefore
<1>6. done' = done /\ begun' = begun /\ done \subseteq L /\ begun \subseteq L
  <2>1. doing' = doing
    BY <1>2, <1>5 DEF doing
  <2>. QED
    BY <1>1, <1>2, <2>1 DEF done, begun
<1>7. Window'
  BY <1>2 DEF TablesInv, Window
<1>8. ASSUME orderly PROVE Unmixed'
  <2>1. overtaken(logsOf(cursor + 1, until))' <=> overtaken(logsOf(cursor + 1, until))
    BY <1>3, <1>4 DEF overtaken, handledBefore
  <2>. QED
    BY <1>2, <1>8, <2>1 DEF TablesInv, Unmixed
<1>9. ASSUME orderly PROVE Closed'
  <2>1. ASSUME NEW k \in done, NEW j \in logOf(blocks'), precedes(j, k) PROVE j \in L
    <3>1. j[1] \in 1..Len(blocks)
      BY <1>1, <1>3, <1>6, <2>1 DEF precedes, logOf, Grown
    <3>. QED
      BY <1>1, <2>1, <3>1 DEF logOf, Grown
  <2>2. Closed
    BY <1>9 DEF TablesInv
  <2>. QED
    BY <1>3, <1>6, <2>1, <2>2 DEF Closed
<1>10. ASSUME orderly PROVE Told'
  <2>. DEFINE B == blocks
              C == blocks'
              D == done
              S == begun
  <2>1. TellsRow(S, D) /\ TellsRest(S) /\ TellsCases(D)
    BY <1>10 DEF TablesInv, Told
  <2>2. /\ \A kinds : among(C, S, kinds) = among(B, S, kinds) /\ among(C, D, kinds) = among(B, D, kinds)
        /\ \A r : amongRole(C, S, r) = amongRole(B, S, r)
        /\ \A kinds : among(B, S, kinds) \subseteq L /\ among(B, D, kinds) \subseteq L
        /\ \A r : amongRole(B, S, r) \subseteq L
    BY <1>3, <1>6 DEF among, amongRole
  <2>3. /\ \A told : \A k \in L : toldIn(C, told)[k] = toldIn(B, told)[k]
        /\ \A k \in L : blockIn(C)[k] = blockIn(B)[k]
    BY <1>3 DEF toldIn, blockIn
  <2>4. TellsRow(S, D)' <=>
          /\ row.indexed <=> among(C, S, {"AssetMinted"}) # {}
          /\ Shows(among(C, S, OwnerKinds), toldIn(C, ownerTold), row.owner, Nobody)
          /\ Shows(among(C, S, CustodianKinds), toldIn(C, custodianTold), row.custodian, Nobody)
          /\ Shows(among(C, S, HoldKinds), toldIn(C, holdTold), holdOf(row.quarantined), "free")
          /\ Shows(among(C, S, {"AssetMinted"}) \cup among(C, D, SeenKinds), blockIn(C), row.fresh, 0)
    BY <1>2, <1>6 DEF TellsRow
  <2>5. TellsRest(S)' <=>
          /\ attested = idsOf(C, S)
          /\ \A r \in Roles : Shows(amongRole(C, S, r), toldIn(C, termTold), termShown[grants[r]], "none")
          /\ Shows(among(C, S, StatusKinds), toldIn(C, statusTold), didRow.status, "None")
          /\ Shows(among(C, S, ControlKinds), toldIn(C, ownerTold), didRow.controller, Nobody)
    BY <1>2, <1>6 DEF TellsRest
  <2>6. TellsCases(D)' <=>
          /\ \A d \in DOMAIN cases : cases[d] # "none" <=> \E j \in detections(C, D) : eventIn(C, j).id = d
          /\ \A d \in resolvedRows : \E j \in detections(C, D) :
               eventIn(C, j).id = d /\ \E k \in releases(C, D) : precedes(j, k)
          /\ \A j \in detections(C, D), k \in endings(C, D) :
               precedes(j, k) => eventIn(C, j).id \in resolvedRows
    BY <1>2, <1>6 DEF TellsCases, resolvedRows
  <2>7. /\ idsOf(C, S) = idsOf(B, S)
        /\ detections(C, D) = detections(B, D) /\ releases(C, D) = releases(B, D)
        /\ endings(C, D) = endings(B, D)
        /\ \A j \in detections(B, D) : eventIn(C, j).id = eventIn(B, j).id
    BY <1>3, <1>6, <2>2 DEF idsOf, detections, releases, endings, among
  <2>. HIDE DEF B, C, D, S, L
  <2>8. TellsCases(D)'
    BY <2>1, <2>6, <2>7 DEF TellsCases, B
  <2>9. TellsRow(S, D)'
    <3>1. /\ row.indexed <=> among(C, S, {"AssetMinted"}) # {}
          /\ Shows(among(C, S, OwnerKinds), toldIn(B, ownerTold), row.owner, Nobody)
          /\ Shows(among(C, S, CustodianKinds), toldIn(B, custodianTold), row.custodian, Nobody)
          /\ Shows(among(C, S, HoldKinds), toldIn(B, holdTold), holdOf(row.quarantined), "free")
          /\ Shows(among(C, S, {"AssetMinted"}) \cup among(C, D, SeenKinds), blockIn(B), row.fresh, 0)
      BY <2>1, <2>2 DEF TellsRow, B
    <3>2. \A kinds : among(C, S, kinds) \subseteq L /\ among(C, D, kinds) \subseteq L
      BY <2>2
    <3>3. Shows(among(C, S, OwnerKinds), toldIn(C, ownerTold), row.owner, Nobody)
      BY <2>3, <3>1, <3>2, ShowsSame
    <3>4. Shows(among(C, S, CustodianKinds), toldIn(C, custodianTold), row.custodian, Nobody)
      BY <2>3, <3>1, <3>2, ShowsSame
    <3>5. Shows(among(C, S, HoldKinds), toldIn(C, holdTold), holdOf(row.quarantined), "free")
      BY <2>3, <3>1, <3>2, ShowsSame
    <3>6. Shows(among(C, S, {"AssetMinted"}) \cup among(C, D, SeenKinds), blockIn(C), row.fresh, 0)
      BY <2>3, <3>1, <3>2, ShowsSame
    <3>. QED
      BY <2>4, <3>1, <3>3, <3>4, <3>5, <3>6
  <2>10. TellsRest(S)'
    <3>1. /\ attested = idsOf(C, S)
          /\ \A r \in Roles : Shows(amongRole(C, S, r), toldIn(B, termTold), termShown[grants[r]], "none")
          /\ Shows(among(C, S, StatusKinds), toldIn(B, statusTold), didRow.status, "None")
          /\ Shows(among(C, S, ControlKinds), toldIn(B, ownerTold), didRow.controller, Nobody)
      BY <2>1, <2>2, <2>7 DEF TellsRest, B
    <3>2. /\ \A kinds : among(C, S, kinds) \subseteq L
          /\ \A r : amongRole(C, S, r) \subseteq L
      BY <2>2
    <3>3. ASSUME NEW r \in Roles
          PROVE  Shows(amongRole(C, S, r), toldIn(C, termTold), termShown[grants[r]], "none")
      BY <2>3, <3>1, <3>2, ShowsSame
    <3>4. Shows(among(C, S, StatusKinds), toldIn(C, statusTold), didRow.status, "None")
      BY <2>3, <3>1, <3>2, ShowsSame
    <3>5. Shows(among(C, S, ControlKinds), toldIn(C, ownerTold), didRow.controller, Nobody)
      BY <2>3, <3>1, <3>2, ShowsSame
    <3>. QED
      BY <2>5, <3>1, <3>3, <3>4, <3>5
  <2>. QED
    BY <2>8, <2>9, <2>10 DEF Told, D, S
<1>. QED
  BY <1>2, <1>7, <1>8, <1>9, <1>10 DEF TablesHold

-----------------------------------------------------------------------------
LEMMA TablesInvInit == Init => TablesInv
<1>. SUFFICES ASSUME Init PROVE TablesInv
  OBVIOUS
<1>1. AuditInv /\ ChainSays
  BY AuditInvInit, ChainSaysInit DEF Init
<1>2. /\ stored = {} /\ row = NoRow /\ cases = [d \in 1..MaxTxs |-> "none"] /\ attested = {}
      /\ grants = [r \in Roles |-> "none"] /\ didRow = Genesis.did /\ phase = "idle"
  BY DEF Init
<1>3. done = {} /\ begun = {}
  BY <1>2 DEF done, begun, doing
<1>4. \A B, kinds, r : among(B, {}, kinds) = {} /\ amongRole(B, {}, r) = {}
  BY DEF among, amongRole
<1>5. TellsRow(begun, done)
  BY <1>2, <1>3, <1>4 DEF TellsRow, Shows, NoRow, holdOf
<1>6. TellsRest(begun)
  <2>1. \A r \in Roles : termShown[grants[r]] = "none"
    BY <1>2 DEF termShown
  <2>2. didRow.status = "None" /\ didRow.controller = Nobody
    BY <1>2 DEF Genesis
  <2>. QED
    BY <1>2, <1>3, <1>4, <2>1, <2>2 DEF TellsRest, Shows, idsOf
<1>7. TellsCases(done)
  <2>1. resolvedRows = {} /\ \A d \in DOMAIN cases : cases[d] = "none"
    BY <1>2 DEF resolvedRows
  <2>. QED
    BY <1>3, <1>4, <2>1 DEF TellsCases, detections, releases, endings
<1>8. Window /\ Unmixed /\ Closed
  BY <1>2, <1>3 DEF Window, Unmixed, Closed
<1>. QED
  BY <1>1, <1>5, <1>6, <1>7, <1>8 DEF TablesInv, Told

LEMMA TablesInvNext == TablesInv /\ [Next]_vars => TablesInv'
<1>. SUFFICES ASSUME TablesInv, [Next]_vars PROVE TablesInv'
  OBVIOUS
<1>1. AuditInv'
  BY AuditInvNext DEF TablesInv
<1>2. /\ topic \in Topics /\ blocks \in Seq(Block) /\ Len(blocks) <= MaxBlock /\ pending \in Block
      /\ ChainTells /\ ChainSays
  BY DEF TablesInv, AuditInv, IInv, TypeOK
<1>3. UNCHANGED chainVars => ChainSays'
  BY <1>2 DEF chainVars, ChainSays, stateAt, now
<1>4. SUFFICES ChainSays' /\ TablesHold'
  BY <1>1 DEF TablesInv, TablesHold
<1>5. CASE ChainNext /\ UNCHANGED <<dbVars, tickVars, aborts, orderly>>
  BY <1>2, <1>5, ChainSaysNext, TablesChain
<1>6. CASE Poll
  BY <1>3, <1>6, TablesPoll DEF Poll
<1>7. CASE Advance
  BY <1>3, <1>7, TablesAdvance DEF Advance
<1>8. CASE Abort
  BY <1>3, <1>8, TablesAbort DEF Abort
<1>9. ASSUME NEW k \in Keys, Store(k) PROVE ChainSays' /\ TablesHold'
  BY <1>3, <1>9, TablesStore DEF Store
<1>10. ASSUME NEW k \in Keys, WriteFirst(k) PROVE ChainSays' /\ TablesHold'
  BY <1>3, <1>10, TablesWriteFirst DEF WriteFirst
<1>11. ASSUME NEW k \in Keys, WriteSecond(k) PROVE ChainSays' /\ TablesHold'
  BY <1>3, <1>11, TablesWriteSecond DEF WriteSecond
<1>12. CASE UNCHANGED vars
  <2>1. /\ blocks' = blocks /\ stored' = stored /\ cursor' = cursor /\ phase' = phase /\ until' = until
        /\ todo' = todo /\ orderly' = orderly /\ UNCHANGED derivedVars /\ UNCHANGED chainVars
    BY <1>12 DEF vars, chainVars, dbVars, tickVars
  <2>2. doing' = doing
    BY <2>1, NextStays DEF doing
  <2>3. done' = done /\ begun' = begun
    BY <2>1, <2>2 DEF done, begun
  <2>4. Window' <=> Window
    BY <2>1 DEF Window
  <2>5. Unmixed => Unmixed'
    <3>1. CASE phase = "idle"
      BY <2>1, <3>1 DEF Unmixed
    <3>2. CASE phase # "idle"
      BY <2>1, <3>2, UnmixedStays
    <3>. QED
      BY <3>1, <3>2
  <2>. QED
    BY <1>3, <2>1, <2>3, <2>4, <2>5, ClosedStays, ToldStays DEF TablesInv, TablesHold
<1>. QED
  BY <1>5, <1>6, <1>7, <1>8, <1>9, <1>10, <1>11, <1>12 DEF Next, Tick

\* Once the indexer has caught up, the tables have the effects of all events.
LEMMA AllTold ==
  ASSUME TablesInv, orderly, caughtUp
  PROVE  /\ chainState \in State /\ Says(blocks, chainState) /\ logOf(blocks) \subseteq Nat \X Nat
         /\ TellsRow(logOf(blocks), logOf(blocks)) /\ TellsRest(logOf(blocks))
         /\ TellsCases(logOf(blocks))
<1>1. /\ phase = "idle" /\ cursor = Len(blocks) /\ Len(blocks) > 0 /\ blocks \in Seq(Block)
      /\ chainState = blocks[Len(blocks)].state
  BY DEF caughtUp, head, chainState, TablesInv, AuditInv, IInv, TypeOK
<1>2. chainState \in State
  <2>1. blocks[Len(blocks)] \in Block
    BY <1>1
  <2>. QED
    BY <1>1, <2>1 DEF Block
<1>3. Says(blocks, chainState)
  BY <1>1 DEF TablesInv, ChainSays, stateAt
<1>4. stored = logOf(blocks) /\ logOf(blocks) \subseteq Keys
  <2>1. stored \subseteq logOf(blocks) /\ logsOf(1, Len(blocks)) = logOf(blocks) /\ logOf(blocks) \subseteq Keys
    BY LogsAreLog DEF TablesInv
  <2>. QED
    BY <1>1, <2>1 DEF TablesInv, AuditInv, IInv, NoEventMissed
<1>5. done = stored /\ begun = stored
  BY <1>1 DEF done, begun, doing
<1>6. Keys \subseteq Nat \X Nat
  BY EventsAssumption DEF Keys
<1>. QED
  BY <1>2, <1>3, <1>4, <1>5, <1>6 DEF TablesInv, Told

LEMMA DerivedRow ==
  ASSUME TablesInv, orderly, caughtUp
  PROVE  /\ row = [indexed |-> chainState.minted, owner |-> chainState.owner,
                   custodian |-> chainState.custodian, quarantined |-> chainState.quarantined,
                   fresh |-> row.fresh]
         /\ row.fresh <= chainState.fresh
         /\ row.fresh < chainState.fresh => released(chainState.fresh)
<1>1. PICK s \in State : s = chainState
  BY AllTold
<1>2. PICK B : B = blocks
  OBVIOUS
<1>. DEFINE L == logOf(B)
<1>3. Says(B, s) /\ L \subseteq Nat \X Nat /\ TellsRow(L, L) /\ row \in Row
  BY <1>1, <1>2, AllTold DEF TablesInv, AuditInv, IInv, TypeOK, Row
<1>4. /\ Shows(among(B, L, OwnerKinds), toldIn(B, ownerTold), s.owner, Nobody)
      /\ Shows(among(B, L, CustodianKinds), toldIn(B, custodianTold), s.custodian, Nobody)
      /\ Shows(among(B, L, HoldKinds), toldIn(B, holdTold), holdOf(s.quarantined), "free")
      /\ Shows(among(B, L, FreshKinds), blockIn(B), s.fresh, 0)
      /\ s.minted <=> among(B, L, {"AssetMinted"}) # {}
  BY <1>3 DEF Says, SaysParts, SaysMint, Mints
<1>5. /\ row.indexed <=> among(B, L, {"AssetMinted"}) # {}
      /\ Shows(among(B, L, OwnerKinds), toldIn(B, ownerTold), row.owner, Nobody)
      /\ Shows(among(B, L, CustodianKinds), toldIn(B, custodianTold), row.custodian, Nobody)
      /\ Shows(among(B, L, HoldKinds), toldIn(B, holdTold), holdOf(row.quarantined), "free")
      /\ Shows(among(B, L, {"AssetMinted"}) \cup among(B, L, SeenKinds), blockIn(B), row.fresh, 0)
  BY <1>2, <1>3 DEF TellsRow
<1>6. \A kinds : among(B, L, kinds) \subseteq L /\ among(B, L, kinds) \subseteq Nat \X Nat
  BY <1>3 DEF among
<1>. HIDE DEF L
<1>7. row.owner = s.owner /\ row.custodian = s.custodian
  BY <1>4, <1>5, <1>6, ShowsOne
<1>8. row.quarantined = s.quarantined
  <2>1. holdOf(row.quarantined) = holdOf(s.quarantined)
    BY <1>4, <1>5, <1>6, ShowsOne
  <2>2. row.quarantined \in BOOLEAN /\ s.quarantined \in BOOLEAN
    BY <1>3 DEF Row, State
  <2>. QED
    BY <2>1, <2>2, HoldOfEqual
<1>9. row.indexed = s.minted
  <2>1. row.indexed \in BOOLEAN /\ s.minted \in BOOLEAN
    BY <1>3 DEF Row, State
  <2>. QED
    BY <1>4, <1>5, <2>1
<1>10. row = [indexed |-> s.minted, owner |-> s.owner, custodian |-> s.custodian,
              quarantined |-> s.quarantined, fresh |-> row.fresh]
  BY <1>3, <1>7, <1>8, <1>9 DEF Row
<1>11. row.fresh <= s.fresh /\ (row.fresh < s.fresh => released(s.fresh))
  <2>. DEFINE R == among(B, L, {"AssetMinted"}) \cup among(B, L, SeenKinds)
              F == among(B, L, FreshKinds)
              b == blockIn(B)
  <2>1. \A k \in L : b[k] = k[1] /\ k[1] \in Nat /\ k[2] \in Nat
    BY <1>3 DEF blockIn, L
  <2>2. R \subseteq F /\ F \subseteq L
    BY <1>6 DEF among, SeenKinds, FreshKinds
  <2>3. \A k \in F \ R : released(k[1])
    <3>1. \A k \in F \ R : k \in L /\ eventIn(B, k).kind = "AssetReconciled"
      BY DEF among, SeenKinds, FreshKinds
    <3>2. \A k \in L : k[2] \in DOMAIN blocks[k[1]].events
      BY <1>2 DEF logOf, L
    <3>. QED
      BY <1>2, <3>1, <3>2 DEF released, eventIn
  <2>4. Shows(R, b, row.fresh, 0) /\ Shows(F, b, s.fresh, 0)
    BY <1>4, <1>5
  <2>. HIDE DEF R, F, b
  <2>5. CASE F = {}
    <3>1. row.fresh = 0 /\ s.fresh = 0
      BY <2>2, <2>4, <2>5 DEF Shows
    <3>. QED
      BY <3>1
  <2>6. ASSUME NEW k \in F, \A j \in F : j = k \/ precedes(j, k), s.fresh = b[k]
        PROVE  row.fresh <= s.fresh /\ (row.fresh < s.fresh => released(s.fresh))
    <3>1. s.fresh = k[1] /\ k[1] \in Nat /\ k \in L
      BY <2>1, <2>2, <2>6
    <3>2. CASE R = {}
      <4>1. row.fresh = 0 /\ k \in F \ R
        BY <2>4, <3>2, <2>6 DEF Shows
      <4>. QED
        BY <2>3, <3>1, <4>1
    <3>3. ASSUME NEW i \in R, \A j \in R : j = i \/ precedes(j, i), row.fresh = b[i]
          PROVE  row.fresh <= s.fresh /\ (row.fresh < s.fresh => released(s.fresh))
      <4>1. row.fresh = i[1] /\ i[1] \in Nat /\ i \in F
        BY <2>1, <2>2, <3>3
      <4>2. i = k \/ precedes(i, k)
        BY <2>6, <4>1
      <4>3. i[1] <= k[1]
        BY <3>1, <4>1, <4>2 DEF precedes
      <4>4. i[1] < k[1] => k \in F \ R
        <5>1. k \in R => k = i \/ precedes(k, i)
          BY <3>3
        <5>. QED
          BY <2>6, <3>1, <4>1, <5>1 DEF precedes
      <4>. QED
        BY <2>3, <3>1, <4>1, <4>3, <4>4
    <3>. QED
      BY <2>4, <3>2, <3>3 DEF Shows
  <2>. QED
    BY <2>4, <2>5, <2>6 DEF Shows
<1>. QED
  BY <1>1, <1>10, <1>11

LEMMA DerivedRest ==
  ASSUME TablesInv, orderly, caughtUp
  PROVE  /\ attested = 1..chainState.seen
         /\ \A r \in Roles : grants[r] \in grantShows[chainState.roles[r]]
         /\ didRow = chainState.did
<1>1. PICK s \in State : s = chainState
  BY AllTold
<1>2. PICK B : B = blocks
  OBVIOUS
<1>. DEFINE L == logOf(B)
<1>3. /\ Says(B, s) /\ L \subseteq Nat \X Nat /\ TellsRest(L)
      /\ grants \in [Roles -> GrantRow] /\ didRow \in Did
  BY <1>1, <1>2, AllTold DEF TablesInv, AuditInv, IInv, TypeOK
<1>4. /\ \A r \in Roles : Shows(amongRole(B, L, r), toldIn(B, termTold), s.roles[r], "none")
      /\ Shows(among(B, L, StatusKinds), toldIn(B, statusTold), s.did.status, "None")
      /\ Shows(among(B, L, ControlKinds), toldIn(B, ownerTold), s.did.controller, Nobody)
      /\ idsOf(B, L) = 1..s.seen
  BY <1>3 DEF Says, SaysParts, SaysRoles, SaysDid
<1>5. /\ \A r \in Roles : Shows(amongRole(B, L, r), toldIn(B, termTold), termShown[grants[r]], "none")
      /\ Shows(among(B, L, StatusKinds), toldIn(B, statusTold), didRow.status, "None")
      /\ Shows(among(B, L, ControlKinds), toldIn(B, ownerTold), didRow.controller, Nobody)
      /\ attested = idsOf(B, L)
  BY <1>2, <1>3 DEF TellsRest
<1>6. /\ \A kinds : among(B, L, kinds) \subseteq Nat \X Nat
      /\ \A r : amongRole(B, L, r) \subseteq Nat \X Nat
  BY <1>3 DEF among, amongRole
<1>. HIDE DEF L
<1>7. didRow = s.did
  <2>1. didRow.status = s.did.status /\ didRow.controller = s.did.controller
    BY <1>4, <1>5, <1>6, ShowsOne
  <2>2. s.did \in Did
    BY DEF State
  <2>. QED
    BY <1>3, <2>1, <2>2 DEF Did
<1>8. ASSUME NEW r \in Roles PROVE grants[r] \in grantShows[s.roles[r]]
  <2>1. termShown[grants[r]] = s.roles[r]
    BY <1>4, <1>5, <1>6, ShowsOne
  <2>2. s.roles[r] \in {"none", "plain", "timed"} /\ grants[r] \in GrantRow
    BY <1>3 DEF State
  <2>. QED
    BY <2>1, <2>2 DEF termShown, grantShows, GrantRow
<1>. QED
  BY <1>1, <1>4, <1>5, <1>7, <1>8

LEMMA DerivedCases ==
  ASSUME TablesInv, orderly, caughtUp
  PROVE  /\ {d \in DOMAIN cases : cases[d] = "unresolved"} = lastCase(chainState)
         /\ resolvedRows = (1..chainState.cases) \ lastCase(chainState)
<1>1. PICK s \in State : s = chainState
  BY AllTold
<1>2. PICK B : B = blocks
  OBVIOUS
<1>. DEFINE L == logOf(B)
            D == detections(B, L)
<1>3. /\ SaysCases(B, s) /\ L \subseteq Nat \X Nat /\ TellsCases(L)
      /\ cases \in [1..MaxTxs -> CaseRow]
  BY <1>1, <1>2, AllTold DEF Says, TablesInv, AuditInv, IInv, TypeOK
<1>4. /\ s.cases <= s.txs /\ lastCase(s) \subseteq 1..s.cases
      /\ {eventIn(B, j).id : j \in D} = 1..s.cases
      /\ \A j, k \in D : eventIn(B, j).id = eventIn(B, k).id => j = k
      /\ \A j \in D : IF eventIn(B, j).id \in lastCase(s)
                      THEN \A k \in releases(B, L) : precedes(k, j)
                      ELSE \E k \in endings(B, L) : precedes(j, k)
  BY <1>3 DEF SaysCases
<1>5. /\ \A d \in DOMAIN cases : cases[d] # "none" <=> \E j \in D : eventIn(B, j).id = d
      /\ \A d \in resolvedRows : \E j \in D :
           eventIn(B, j).id = d /\ \E k \in releases(B, L) : precedes(j, k)
      /\ \A j \in D, k \in endings(B, L) : precedes(j, k) => eventIn(B, j).id \in resolvedRows
  BY <1>2, <1>3 DEF TellsCases
<1>6. \A j \in D, k \in releases(B, L) : ~(precedes(j, k) /\ precedes(k, j))
  <2>1. \A j \in D, k \in releases(B, L) : j \in Nat \X Nat /\ k \in Nat \X Nat
    BY <1>3 DEF detections, releases, among
  <2>. QED
    BY <2>1 DEF precedes
<1>7. /\ DOMAIN cases = 1..MaxTxs /\ 1..s.cases \subseteq 1..MaxTxs
      /\ \A d \in 1..MaxTxs : cases[d] \in CaseRow
  BY <1>3, <1>4, EventsAssumption DEF State
<1>. HIDE DEF L, D
<1>8. \A d \in 1..MaxTxs : cases[d] # "none" <=> d \in 1..s.cases
  BY <1>4, <1>5, <1>7
<1>9. \A d \in 1..s.cases : d \in resolvedRows <=> d \notin lastCase(s)
  <2>. TAKE d \in 1..s.cases
  <2>1. PICK j \in D : eventIn(B, j).id = d
    BY <1>4
  <2>2. ASSUME d \in lastCase(s), d \in resolvedRows PROVE FALSE
    <3>1. PICK i \in D, k \in releases(B, L) : eventIn(B, i).id = d /\ precedes(i, k)
      BY <1>5, <2>2
    <3>2. precedes(k, i)
      BY <1>4, <2>2, <3>1
    <3>. QED
      BY <1>6, <3>1, <3>2
  <2>3. ASSUME d \notin lastCase(s) PROVE d \in resolvedRows
    <3>1. PICK k \in endings(B, L) : precedes(j, k)
      BY <1>4, <2>1, <2>3
    <3>. QED
      BY <1>5, <2>1, <3>1
  <2>. QED
    BY <2>2, <2>3
<1>10. \A d \in 1..MaxTxs : /\ d \in resolvedRows <=> cases[d] \in {"byConfirmer", "byRegistry"}
                            /\ cases[d] \in CaseRow
  BY <1>7 DEF resolvedRows
<1>11. resolvedRows \subseteq 1..MaxTxs
  BY <1>7 DEF resolvedRows
<1>12. resolvedRows = (1..s.cases) \ lastCase(s)
  BY <1>7, <1>8, <1>9, <1>10, <1>11 DEF CaseRow
<1>13. {d \in DOMAIN cases : cases[d] = "unresolved"} = lastCase(s)
  BY <1>4, <1>7, <1>8, <1>9, <1>10 DEF CaseRow
<1>. QED
  BY <1>1, <1>12, <1>13

\* Once the indexer has caught up, and as long as no batch mixed up a release
\* with what came after it and no tick failed between storing an event and the
\* last of its effects, the tables that applySideEffects (indexer/src/index.ts)
\* keeps say what the chain says: SCHEMA.md:8 calls them "derived current-state
\* tables updated by the indexer".
THEOREM TablesShowChain == Spec => []DerivedWhileOrderly
<1>1. TablesInv => DerivedWhileOrderly
  BY DerivedRow, DerivedRest, DerivedCases DEF DerivedWhileOrderly, derived, lastCase
<1>2. TablesInv /\ [Next]_vars => TablesInv'
  BY TablesInvNext
<1>3. Init => TablesInv
  BY TablesInvInit
<1>. QED
  BY <1>1, <1>2, <1>3, PTL DEF Spec
=============================================================================
