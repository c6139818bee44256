------------------------------ MODULE Indexer ------------------------------
(***************************************************************************)
(* indexer/src/index.ts: a poller that copies contract events to ChainEvent *)
(* rows and applies each of them to derived tables, and the reconstruction  *)
(* of routes/audit.ts that reads the rows.  Every await is a point where    *)
(* the tick can fail or the process can stop; nothing it has written by     *)
(* then is undone.                                                          *)
(***************************************************************************)
EXTENDS ChainEvents

CONSTANTS
  Span,       \* a batch reaches from its first block to at most Span blocks further
  MaxAborts   \* bound on the number of ticks that fail

ASSUME IndexerAssumption == Span \in Nat /\ MaxAborts \in Nat

VARIABLES
  stored,   \* ChainEvent: the keys <<block, index in block>> of the rows
  row,      \* Asset: the row of the token
  cases,    \* Divergence: the rows, by divergence id
  attested, \* Attestation: the ids of the rows
  grants,   \* RoleGrant: the newest row of the account, by role
  didRow,   \* DidRecord: the row of the DID
  cursor,   \* IndexerCursor.lastBlock
  phase,    \* where the tick is
  until,    \* the last block of the tick's batch
  todo,     \* the keys of the batch that are not dealt with
  aborts,   \* the number of ticks that failed
  orderly   \* history: no batch so far held an event that its order of handling
            \* puts before a reconciliation it came after, and no tick failed
            \* between storing an event and the last of its effects

derivedVars == <<row, cases, attested, grants, didRow>>
dbVars   == <<stored, derivedVars, cursor>>
tickVars == <<phase, until, todo>>
vars     == <<chainVars, dbVars, tickVars, aborts, orderly>>

Keys  == (1..MaxBlock) \X (1..(3 * MaxTxs))
NoRow == [indexed |-> FALSE, owner |-> Nobody, custodian |-> Nobody, quarantined |-> FALSE,
          fresh |-> 0]

\* A divergence without a row, an unresolved one, and two that are resolved:
\* with the account that confirmed, and with the registry's address, as confirmer.
CaseRow == {"none", "unresolved", "byConfirmer", "byRegistry"}

\* No row, an inactive one, and an active one with its expiresAt: not set, 1970
\* (which is what the event's "0" becomes), or a time.  A revocation is applied
\* to all active rows, so no row is active unless the newest is.
GrantRow == {"none", "inactive", "unset", "epoch", "timed"}

TypeOK ==
  /\ topic \in Topics
  /\ blocks \in Seq(Block) /\ Len(blocks) <= MaxBlock /\ pending \in Block
  /\ stored \subseteq Keys /\ todo \subseteq Keys
  /\ row \in [indexed : BOOLEAN, owner : Parties \cup {Nobody},
              custodian : Parties \cup {Nobody}, quarantined : BOOLEAN, fresh : 0..MaxBlock]
  /\ cases \in [1..MaxTxs -> CaseRow]
  /\ attested \subseteq Nat
  /\ grants \in [Roles -> GrantRow]
  /\ didRow \in Did
  /\ cursor \in 0..Len(blocks) /\ until \in 0..Len(blocks)
  /\ phase \in {"idle", "store", "first", "second"}
  /\ aborts \in 0..MaxAborts
  /\ orderly \in BOOLEAN

Init ==
  /\ ChainInit
  /\ stored = {} /\ row = NoRow /\ cases = [d \in 1..MaxTxs |-> "none"] /\ attested = {}
  /\ grants = [r \in Roles |-> "none"] /\ didRow = Genesis.did
  /\ cursor = 0
  /\ phase = "idle" /\ until = 0 /\ todo = {}
  /\ aborts = 0
  /\ orderly = TRUE

-----------------------------------------------------------------------------
head     == Len(blocks)
event(k) == blocks[k[1]].events[k[2]]

\* The keys of the events in the given blocks.
logsOf(first, last) == {k \in Keys : k[1] \in first..last /\ k[2] \in DOMAIN blocks[k[1]].events}

\* The order of the chain, and the order of the tick: one contract after the
\* other, and each contract's events in the order of the chain.
precedes(j, k) == j[1] < k[1] \/ (j[1] = k[1] /\ j[2] < k[2])
rank(k) ==
  CASE event(k).contract = "RoleManager"         -> 1
    [] event(k).contract = "DIDRegistry"         -> 2
    [] event(k).contract = "AssetNFT"            -> 3
    [] event(k).contract = "AttestationRegistry" -> 4
    [] OTHER                                     -> 5
handledBefore(j, k) == rank(j) < rank(k) \/ (rank(j) = rank(k) /\ precedes(j, k))
isNext(k) == k \in todo /\ \A j \in todo \ {k} : handledBefore(k, j)

\* An allocation or a quarantine that follows a release in the same batch.
overtaken(logs) ==
  \E j, k \in logs :
    /\ precedes(j, k) /\ handledBefore(k, j)
    /\ event(j).kind = "AssetReconciled"
    /\ event(k).kind \in {"AssetAllocated", "AssetQuarantined", "AssetReconciled"}

\* Mutation: the batch starts one block late.
later(block) == block + 2
after(block) == block + 1
lastOfBatch == IF after(cursor) + Span < head THEN after(cursor) + Span ELSE head

Poll ==
  /\ phase = "idle"
  /\ after(cursor) <= head
  /\ until' = lastOfBatch
  /\ todo' = logsOf(after(cursor), lastOfBatch)
  /\ phase' = "store"
  /\ orderly' = (orderly /\ ~overtaken(todo'))
  /\ UNCHANGED <<chainVars, dbVars, aborts>>

\* Mutation: the unique constraint makes the tick fail instead.
StoreOnce(k) ==
  /\ phase = "store"
  /\ isNext(k)
  /\ k \notin stored
  /\ stored' = stored \cup {k}
  /\ phase' = "first"
  /\ UNCHANGED <<chainVars, derivedVars, cursor, until, todo, aborts, orderly>>

\* An event that is stored already fails on the unique constraint, and the
\* rest of its handling is skipped.
Store(k) ==
  /\ phase = "store"
  /\ isNext(k)
  /\ stored' = stored \cup {k}
  /\ IF k \in stored
     THEN todo' = todo \ {k} /\ phase' = phase
     ELSE todo' = todo /\ phase' = "first"
  /\ UNCHANGED <<chainVars, derivedVars, cursor, until, aborts, orderly>>

\* applySideEffects writes to at most two tables, one awaited write after the
\* other.  Mutation: a release leaves the custodian as it was.
releaseOnly(e, block) ==
  IF e.kind = "AssetMinted"
  THEN [row EXCEPT !.indexed = TRUE, !.owner = e.party, !.custodian = e.custodian,
                   !.fresh = IF row.indexed THEN @ ELSE block]
  ELSE IF ~row.indexed THEN row
  ELSE CASE e.kind = "AssetTransferred" -> [row EXCEPT !.owner = e.party]
         [] e.kind = "AssetAllocated"   -> [row EXCEPT !.custodian = e.custodian]
         [] e.kind = "AssetQuarantined" -> [row EXCEPT !.quarantined = TRUE]
         [] e.kind = "AssetReconciled"  -> [row EXCEPT !.quarantined = FALSE]
         [] OTHER -> row

\* Its first write where that is to the asset row: an upsert for a mint, an
\* update of no row or one for the rest.
assetEffect(e, block) ==
  IF e.kind = "AssetMinted"
  THEN [row EXCEPT !.indexed = TRUE, !.owner = e.party, !.custodian = e.custodian,
                   !.fresh = IF row.indexed THEN @ ELSE block]
  ELSE IF ~row.indexed THEN row
  ELSE CASE e.kind = "AssetTransferred" -> [row EXCEPT !.owner = e.party]
         [] e.kind = "AssetAllocated"   -> [row EXCEPT !.custodian = e.custodian]
         [] e.kind = "AssetQuarantined" -> [row EXCEPT !.quarantined = TRUE]
         [] e.kind = "AssetReconciled"  -> [row EXCEPT !.quarantined = FALSE, !.custodian = e.custodian]
         [] OTHER -> row

\* To the RoleGrant rows: one more of them, or an update of the active ones.
grantEffect(e) ==
  CASE e.kind = "RoleGranted"   -> [grants EXCEPT ![e.role] = "unset"]
    [] e.kind = "RoleExpirySet" -> [grants EXCEPT ![e.role] = IF e.timed THEN "timed" ELSE "epoch"]
    [] e.kind = "RoleRevoked"   -> [grants EXCEPT ![e.role] = IF @ = "none" THEN @ ELSE "inactive"]
    [] OTHER -> grants

\* To the DidRecord row: an upsert, or an update of no row or one.
didEffect(e) ==
  CASE e.kind = "DIDRegistered" -> [status |-> "Active", controller |-> e.party]
    [] e.kind = "KeyRotated" /\ didRow.status # "None" -> [didRow EXCEPT !.controller = e.party]
    [] e.kind = "DIDRevoked" /\ didRow.status # "None" -> [didRow EXCEPT !.status = "Revoked"]
    [] OTHER -> didRow

WriteFirst(k) ==
  /\ phase = "first"
  /\ isNext(k)
  /\ row' = assetEffect(event(k), k[1])
  /\ attested' = attested \cup (IF event(k).kind = "AttestationRecorded" THEN {event(k).id} ELSE {})
  /\ grants' = grantEffect(event(k))
  /\ didRow' = didEffect(event(k))
  /\ phase' = "second"
  /\ UNCHANGED <<chainVars, stored, cases, cursor, until, todo, aborts, orderly>>

\* AssetNFT's event names no confirmer but its actor, which is the registry.
confirmerOf(e) == IF e.contract = "AssetNFT" THEN "byRegistry" ELSE "byConfirmer"

\* The write to the divergence rows: an upsert that changes no row it finds,
\* and an update of all unresolved rows of the token.
divergenceEffect(e) ==
  CASE e.kind = "DivergenceDetected" ->
         [cases EXCEPT ![e.id] = IF @ = "none" THEN "unresolved" ELSE @]
    [] e.kind = "AssetReconciled" ->
         [d \in DOMAIN cases |-> IF cases[d] = "unresolved" THEN confirmerOf(e) ELSE cases[d]]
    [] OTHER -> cases

\* The freshness of the row is the time of the observation that was handled last.
freshEffect(e, block) ==
  IF e.kind = "AttestationRecorded" /\ row.indexed THEN [row EXCEPT !.fresh = block] ELSE row

WriteSecond(k) ==
  /\ phase = "second"
  /\ isNext(k)
  /\ cases' = divergenceEffect(event(k))
  /\ row' = freshEffect(event(k), k[1])
  /\ todo' = todo \ {k}
  /\ phase' = "store"
  /\ UNCHANGED <<chainVars, stored, attested, grants, didRow, cursor, until, aborts, orderly>>

\* Mutation: the cursor moves to the head, past blocks mined during the tick.
AdvanceToHead ==
  /\ phase = "store"
  /\ todo = {}
  /\ cursor' = head
  /\ phase' = "idle"
  /\ UNCHANGED <<chainVars, stored, derivedVars, until, todo, aborts, orderly>>

Advance ==
  /\ phase = "store"
  /\ todo = {}
  /\ cursor' = until
  /\ phase' = "idle"
  /\ UNCHANGED <<chainVars, stored, derivedVars, until, todo, aborts, orderly>>

\* The tick throws, or the process stops and is started again.
Abort ==
  /\ phase # "idle"
  /\ aborts < MaxAborts
  /\ aborts' = aborts + 1
  /\ phase' = "idle" /\ todo' = {} /\ until' = cursor
  /\ orderly' = (orderly /\ phase = "store")
  /\ UNCHANGED <<chainVars, dbVars>>

Tick == Poll \/ Advance \/ \E k \in Keys : Store(k) \/ WriteFirst(k) \/ WriteSecond(k)

Next ==
  \/ ChainNext /\ UNCHANGED <<dbVars, tickVars, aborts, orderly>>
  \/ Tick
  \/ Abort

\* main polls for ever, and every await of a tick returns or throws.
Spec == Init /\ [][Next]_vars /\ WF_vars(Tick)

-----------------------------------------------------------------------------
\* The reconstruction of the moment t (a block's timestamp) from the stored
\* events: the events up to t in the order of their timestamps, which leaves
\* the order inside a block open, so that any of the latest events that set a
\* value may be the one that decides it.
latest(t, kinds) ==
  {k \in stored : /\ k[1] <= t /\ event(k).kind \in kinds
                  /\ \A j \in stored : j[1] <= t /\ event(j).kind \in kinds => j[1] <= k[1]}

ownersAt(t) ==
  {event(k).party : k \in latest(t, {"AssetMinted", "AssetTransferred"})}
custodiansAt(t) ==
  {event(k).custodian : k \in latest(t, {"AssetMinted", "AssetAllocated", "AssetReconciled"})}
quarantinesAt(t) ==
  LET K == latest(t, {"AssetQuarantined", "DivergenceDetected", "AssetReconciled"}) IN
  IF K = {} THEN {FALSE} ELSE {event(k).kind # "AssetReconciled" : k \in K}

attestationsAt(t) ==
  LET K == latest(t, {"AttestationRecorded"}) IN
  IF K = {} THEN {0} ELSE {event(k).id : k \in K}

\* One role is kept of an account, the one that was granted last; any
\* revocation deletes it.  The expiry is not looked at.
rolesAt(t) ==
  LET K == latest(t, {"RoleGranted", "RoleExpirySet", "RoleRevoked"}) IN
  IF K = {} THEN {NoRole}
  ELSE {IF event(k).kind = "RoleRevoked" THEN NoRole ELSE event(k).role : k \in K}

-----------------------------------------------------------------------------
\* Through failing ticks, retries and batches, the cursor never passes an
\* event that has no row.
NoEventMissed == \A k \in logsOf(1, cursor) : k \in stored

\* While no block holds two transactions, the audit of any moment up to the
\* cursor has one answer; it is the state the chain had then, also in the
\* middle of a batch or after a failure, and the role it names, if any, is one
\* that was granted and not revoked by then: the only one, if the account never
\* had two.  With several transactions in a block the chain's state is still
\* one of the possible answers.
txsOf(b) == blocks[b].state.txs - IF b = 1 THEN 0 ELSE blocks[b - 1].state.txs
held(b) == {r \in Roles : blocks[b].state.roles[r] # "none"}
PointInTimeExact ==
  \A t \in 1..cursor :
    LET s == blocks[t].state
        distinct == \A b \in 1..t : txsOf(b) <= 1
        oneRole  == \A b \in 1..t : \A r, q \in held(b) : r = q
        says(answers, value) == value \in answers /\ (distinct => answers = {value})
    IN /\ s.minted => /\ says(ownersAt(t), s.owner)
                      /\ says(custodiansAt(t), s.custodian)
                      /\ says(quarantinesAt(t), s.quarantined)
                      /\ says(attestationsAt(t), s.seen)
       /\ distinct => rolesAt(t) \subseteq held(t) \cup {NoRole}
       /\ distinct /\ oneRole /\ held(t) # {} => rolesAt(t) = held(t)

\* The derived tables say what the chain says.  The freshness of a row falls
\* behind the chain's only by a reconciliation, which the indexer does not count.
caughtUp == phase = "idle" /\ cursor = head /\ head > 0
chainState == blocks[head].state
resolvedRows == {d \in DOMAIN cases : cases[d] \in {"byConfirmer", "byRegistry"}}
released(b) == \E i \in DOMAIN blocks[b].events : blocks[b].events[i].kind = "AssetReconciled"
grantShows == [none |-> {"none", "inactive"}, plain |-> {"epoch"}, timed |-> {"timed"}]
derived ==
  LET s == chainState
      last == IF s.quarantined THEN {s.cases} ELSE {}
  IN /\ row = [indexed |-> s.minted, owner |-> s.owner, custodian |-> s.custodian,
               quarantined |-> s.quarantined, fresh |-> row.fresh]
     /\ row.fresh <= s.fresh
     /\ row.fresh < s.fresh => released(s.fresh)
     /\ {d \in DOMAIN cases : cases[d] = "unresolved"} = last
     /\ resolvedRows = (1..s.cases) \ last
     /\ attested = 1..s.seen
     /\ \A r \in Roles : grants[r] \in grantShows[s.roles[r]]
     /\ didRow = s.did

\* They do once the indexer has caught up, as long as no batch mixed up a
\* release with what followed it and no tick failed half-way through an event.
DerivedWhileOrderly == orderly /\ caughtUp => derived

\* SCHEMA.md:8 calls them "derived current-state tables updated by the
\* indexer", without such conditions.
DerivedMatchesChain == caughtUp => derived

\* Every block is indexed in the end.
CatchesUp == \A b \in 1..MaxBlock : head >= b ~> cursor >= b
=============================================================================
