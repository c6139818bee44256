---------------------------- MODULE ChainEvents ----------------------------
(***************************************************************************)
(* The chain as the indexer and the auditor see it: blocks of transactions, *)
(* each with the events that the contracts emit, in log order.  One         *)
(* behaviour follows the events of one topic: the custody of one token      *)
(* (whose transactions are those that AssetCustody allows), the evidence    *)
(* about it, the roles of one account, or one DID.  Events that the indexer *)
(* stores without applying them to a table (Transfer, FreshnessUpdated,     *)
(* ReconciliationProposed, ...) are left out.                               *)
(***************************************************************************)
EXTENDS Integers, Sequences

CONSTANTS
  Parties,   \* accounts that own or hold the token, or control the DID
  Buyer,     \* the one that the token is minted to
  Nobody,    \* the value of a field that is not set
  Roles,     \* the roles that the account may be granted
  NoRole,    \* none of them
  Terms,     \* the grants there may be: a role, and whether for a limited time
  MaxBlock,  \* bound on the number of blocks
  MaxTxs     \* bound on the number of transactions

ASSUME EventsAssumption ==
  /\ MaxBlock \in Nat /\ MaxTxs \in Nat
  /\ Buyer \in Parties /\ Nobody \notin Parties /\ NoRole \notin Roles
  /\ Terms \subseteq Roles \X BOOLEAN

VARIABLES
  topic,   \* what the behaviour is about
  blocks,  \* the mined blocks: the events of each, and the state after it
  pending  \* the same for the block that is being built

chainVars == <<topic, blocks, pending>>

Topics == {"custody", "evidence", "roles", "did"}

Event ==
  [contract : {"RoleManager", "DIDRegistry", "AssetNFT", "AttestationRegistry",
               "DivergenceRegistry"},
   kind : {"RoleGranted", "RoleExpirySet", "RoleRevoked", "DIDRegistered", "KeyRotated",
           "DIDRevoked", "AssetMinted", "AssetTransferred", "AssetAllocated",
           "AssetQuarantined", "AssetReconciled", "AttestationRecorded", "DivergenceDetected"},
   party : Parties \cup {Nobody}, custodian : Parties \cup {Nobody},
   id : Nat, role : Roles \cup {NoRole}, timed : BOOLEAN]

\* cases counts the divergences detected so far, the last of which is open
\* while quarantined; seen counts the observations; fresh is the block that
\* the token's freshness dates from; txs counts the transactions.
Did == [status : {"None", "Active", "Revoked"}, controller : Parties \cup {Nobody}]
State ==
  [minted : BOOLEAN, owner : Parties \cup {Nobody}, custodian : Parties \cup {Nobody},
   quarantined : BOOLEAN, cases : Nat, seen : Nat, fresh : Nat,
   roles : [Roles -> {"none", "plain", "timed"}], did : Did, txs : 0..MaxTxs]

Block == [events : Seq(Event), state : State]

Genesis ==
  [minted |-> FALSE, owner |-> Nobody, custodian |-> Nobody,
   quarantined |-> FALSE, cases |-> 0, seen |-> 0, fresh |-> 0,
   roles |-> [r \in Roles |-> "none"], did |-> [status |-> "None", controller |-> Nobody],
   txs |-> 0]

ChainInit ==
  /\ topic \in Topics
  /\ blocks = <<>>
  /\ pending = [events |-> <<>>, state |-> Genesis]

-----------------------------------------------------------------------------
emitted(contract, kind, party, custodian, id) ==
  [contract |-> contract, kind |-> kind, party |-> party, custodian |-> custodian, id |-> id,
   role |-> NoRole, timed |-> FALSE]
nft(kind, party, custodian) == emitted("AssetNFT", kind, party, custodian, 0)
onRole(kind, r, timed) ==
  [contract |-> "RoleManager", kind |-> kind, party |-> Nobody, custodian |-> Nobody, id |-> 0,
   role |-> r, timed |-> timed]
onDid(kind, controller) == emitted("DIDRegistry", kind, controller, Nobody, 0)

now       == pending.state
thisBlock == Len(blocks) + 1
free      == now.minted /\ ~now.quarantined

\* A transaction joins the block that is being built.
Transact(about, events, state) ==
  /\ topic \in about
  /\ now.txs < MaxTxs
  /\ pending' = [events |-> pending.events \o events, state |-> [state EXCEPT !.txs = @ + 1]]
  /\ UNCHANGED <<topic, blocks>>

Minted(c) ==
  /\ ~now.minted
  /\ Transact({"custody", "evidence"}, <<nft("AssetMinted", Buyer, c)>>,
              [now EXCEPT !.minted = TRUE, !.owner = Buyer, !.custodian = c, !.fresh = thisBlock])

Transferred(o) ==
  /\ free
  /\ Transact({"custody"}, <<nft("AssetTransferred", o, Nobody)>>, [now EXCEPT !.owner = o])

Allocated(c) ==
  /\ free
  /\ Transact({"custody"}, <<nft("AssetAllocated", Nobody, c)>>, [now EXCEPT !.custodian = c])

recording(id) == emitted("AttestationRegistry", "AttestationRecorded", Nobody, Nobody, id)
opening(id)   == emitted("DivergenceRegistry", "DivergenceDetected", Nobody, Nobody, id)

Attested ==
  /\ now.minted
  /\ Transact({"evidence"}, <<recording(now.seen + 1)>>,
              [now EXCEPT !.seen = @ + 1, !.fresh = thisBlock])

\* An observation that conflicts with an earlier one.  setQuarantine is called
\* before DivergenceDetected is emitted.
Conflicting ==
  /\ free /\ now.seen > 0
  /\ Transact({"evidence"},
              <<recording(now.seen + 1), nft("AssetQuarantined", Nobody, Nobody),
                opening(now.cases + 1)>>,
              [now EXCEPT !.seen = @ + 1, !.fresh = thisBlock, !.quarantined = TRUE, !.cases = @ + 1])

\* The same where the behaviour does not follow the observations.
Detected ==
  /\ free
  /\ Transact({"custody"}, <<nft("AssetQuarantined", Nobody, Nobody), opening(now.cases + 1)>>,
              [now EXCEPT !.quarantined = TRUE, !.cases = @ + 1])

\* Both contracts have an event of this name; AssetNFT's comes first.
Reconciled(c) ==
  /\ now.quarantined
  /\ Transact({"custody", "evidence"},
              <<nft("AssetReconciled", Nobody, c),
                emitted("DivergenceRegistry", "AssetReconciled", Nobody, c, now.cases)>>,
              [now EXCEPT !.quarantined = FALSE, !.custodian = c, !.fresh = thisBlock])

\* AccessControl emits RoleGranted only for a new member.
Granted(r, timed) ==
  /\ <<r, timed>> \in Terms
  /\ Transact({"roles"},
              (IF now.roles[r] = "none" THEN <<onRole("RoleGranted", r, FALSE)>> ELSE <<>>)
                \o <<onRole("RoleExpirySet", r, timed)>>,
              [now EXCEPT !.roles[r] = IF timed THEN "timed" ELSE "plain"])

\* A revocation or a renunciation of what is not held emits nothing.
Revoked(r) ==
  /\ now.roles[r] # "none"
  /\ Transact({"roles"}, <<onRole("RoleRevoked", r, FALSE)>>, [now EXCEPT !.roles[r] = "none"])

DidRegistered(c) ==
  /\ now.did.status = "None"
  /\ Transact({"did"}, <<onDid("DIDRegistered", c)>>,
              [now EXCEPT !.did = [status |-> "Active", controller |-> c]])

KeyRotated(c) ==
  /\ now.did.status = "Active" /\ c # now.did.controller
  /\ Transact({"did"}, <<onDid("KeyRotated", c)>>, [now EXCEPT !.did.controller = c])

DidRevoked ==
  /\ now.did.status = "Active"
  /\ Transact({"did"}, <<onDid("DIDRevoked", now.did.controller)>>,
              [now EXCEPT !.did.status = "Revoked"])

\* The block is mined, with what it holds by then.  A block without events
\* would only move the cursor, and is left out.
Mined ==
  /\ Len(blocks) < MaxBlock
  /\ pending.events # <<>>
  /\ blocks' = Append(blocks, pending)
  /\ pending' = [pending EXCEPT !.events = <<>>]
  /\ UNCHANGED topic

ChainNext ==
  \/ Mined
  \/ Attested \/ Conflicting \/ Detected \/ DidRevoked
  \/ \E c \in Parties :
       Minted(c) \/ Transferred(c) \/ Allocated(c) \/ Reconciled(c) \/ DidRegistered(c) \/ KeyRotated(c)
  \/ \E r \in Roles : Revoked(r) \/ \E timed \in BOOLEAN : Granted(r, timed)
=============================================================================
