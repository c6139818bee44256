-------------------------- MODULE OfflineVerifier --------------------------
(***************************************************************************)
(* The offline verifier (apps/verifier-pwa) and the backend routes it       *)
(* reconciles with (backend/src/routes/offline.ts).  A decision is taken    *)
(* against a cached snapshot, signed, and queued in IndexedDB; reconnecting *)
(* sends the queue, over a network that may lose a request or its answer,   *)
(* from a page that may be reloaded at any await, and more than once.       *)
(***************************************************************************)
EXTENDS Integers, Sequences, FiniteSets

CONSTANTS
  Decisions,   \* the random nonces of the decisions
  Operation,   \* what each decides: the page offers a scan and a transfer
  Runs,        \* numbers for the reconnect() calls in flight, the first free one next
  OwnDid,      \* formatDid of the verifier's address
  OtherDid,    \* another DID its key may come to control
  None,        \* null and undefined
  HighLimit,   \* STALENESS_LIMITS_SECONDS.high
  TokenTtl,    \* jwtTtlSeconds
  MaxTime,     \* bound on the clock
  MaxEvents,   \* bound on logins, losses, page loads, changes of standing
  MaxWork      \* bound on the decisions taken and the reconnects in flight

ASSUME OfflineAssumption ==
  /\ OwnDid # OtherDid /\ None \notin {OwnDid, OtherDid} \cup Int \cup Decisions
  /\ HighLimit \in Nat /\ TokenTtl \in Nat
  /\ Runs \subseteq Nat /\ MaxTime \in Nat /\ MaxEvents \in Nat /\ MaxWork \in Nat

Dids == {OwnDid, OtherDid}

VARIABLES
  now,       \* the clock, of the device and of the server
  standing,  \* on chain: the DID the key actively controls, and any role
  left,      \* history: when the key ceased to control a DID
  rows,      \* per nonce, the OfflineDecision rows
  page,      \* React state: token and snapshot
  idb,       \* IndexedDB, store kv: token and snapshot
  queue,     \* IndexedDB, store queue
  cached,    \* the service worker's copy of GET /offline/snapshot
  sync,      \* loginAndSync() in flight
  run,       \* reconnect() calls in flight: their page side
  post,      \* and the POST /offline/reconcile each waits for
  events     \* how many logins, losses, loads and changes there have been

offlineVars == <<now, standing, left, rows, page, idb, queue, cached, sync, run, post, events>>

-----------------------------------------------------------------------------
\* packages/policy/src/risk.ts
HIGH_RISK_OPERATIONS == {"transfer_ownership", "transfer_custody", "allocate", "role_change",
                         "reconciliation", "mint", "revoke_did"}
riskTierOf(op) == IF op \in HIGH_RISK_OPERATIONS THEN "high" ELSE "low"

elapsed(from, to) == IF to > from THEN to - from ELSE 0

evaluateOfflineOperation(op, capturedAt, at) ==
  LET age == elapsed(capturedAt, at) IN
  [risk |-> riskTierOf(op), age |-> age,
   allowed |-> ~(riskTierOf(op) = "high" /\ age > HighLimit)]

-----------------------------------------------------------------------------
\* An error answer stored in place of a snapshot has neither capturedAt nor
\* identity: the page throws while it renders it.
Good(t, d)   == [kind |-> "good", capturedAt |-> t, did |-> d]
Broken       == [kind |-> "broken"]
Snapshot     == {None, Broken} \cup [kind : {"good"}, capturedAt : Int, did : Dids]
Token        == {None} \cup 0..MaxTime   \* by the time it was issued

\* lost is history: how long before the decision the key ceased to control
\* the DID it decides as.
Item == [risk : {"low", "high"}, age : Nat, allowed : BOOLEAN, did : Dids, lost : Nat, reconciled : BOOLEAN,
         outcome : {None, "accepted", "rejected", "duplicate", "refused", "error"}]
Row  == [risk : {"low", "high"}, age : Nat, allowed : BOOLEAN, did : Dids, accepted : BOOLEAN]

ASSUME NoneAssumption == None \notin Item

idleSync == [at |-> "idle", token |-> None, answer |-> None]
idleRun  == [at |-> "idle", todo |-> {}, token |-> None, did |-> None]
idlePost == [at |-> "idle", nonce |-> None, token |-> None, did |-> None, outcome |-> None]

OfflineTypeOK ==
  /\ now \in 0..MaxTime
  /\ standing \in [did : Dids \cup {None}, role : BOOLEAN]
  /\ left \in [Dids -> 0..MaxTime]
  /\ rows \in [Decisions -> Seq(Row)]
  /\ page \in [token : Token, snapshot : Snapshot, loading : BOOLEAN]
  /\ idb \in [token : Token, snapshot : Snapshot]
  /\ queue \in [Decisions -> {None} \cup Item]
  /\ cached \in Snapshot
  /\ sync \in [at : {"idle", "fetch", "store", "finish"}, token : Token, answer : Snapshot]
  /\ run \in [Runs -> [at : {"idle", "next", "wait"}, todo : SUBSET Decisions, token : Token,
                       did : Dids \cup {None}]]
  /\ post \in [Runs -> [at : {"idle", "sent", "fresh", "judged", "answer"},
                        nonce : Decisions \cup {None}, token : Token, did : Dids \cup {None},
                        outcome : {None, "accepted", "rejected", "duplicate", "refused", "error"}]]
  /\ events \in 0..MaxEvents

OfflineInit ==
  /\ now = 0
  /\ standing = [did |-> OwnDid, role |-> TRUE]
  /\ left = [d \in Dids |-> 0]
  /\ rows = [n \in Decisions |-> <<>>]
  /\ page = [token |-> None, snapshot |-> None, loading |-> FALSE]
  /\ idb = [token |-> None, snapshot |-> None]
  /\ queue = [n \in Decisions |-> None]
  /\ cached = None
  /\ sync = idleSync
  /\ run = [r \in Runs |-> idleRun]
  /\ post = [r \in Runs |-> idlePost]
  /\ events = 0

-----------------------------------------------------------------------------
event == events < MaxEvents /\ events' = events + 1

\* The environment: the key loses its DID or comes to control another one, by
\* revocation or rotation, and gains or loses its role.
Tick ==
  /\ now < MaxTime
  /\ now' = now + 1
  /\ UNCHANGED <<standing, left, rows, page, idb, queue, cached, sync, run, post, events>>

standingChanges ==
  /\ event
  /\ \/ standing' = [standing EXCEPT !.role = ~@]
     \/ \E d \in (Dids \cup {None}) \ {standing.did} : standing' = [standing EXCEPT !.did = d]
  /\ left' = [d \in Dids |-> IF standing.did = d /\ standing'.did # d THEN now ELSE left[d]]
  /\ UNCHANGED <<now, rows, page, idb, queue, cached, sync, run, post>>

valid(token) == token # None /\ now - token <= TokenTtl

\* A page that has rendered a broken snapshot has no buttons.
usable == page.snapshot # Broken

-----------------------------------------------------------------------------
\* The page: loading it, useEffect, and the demo button that ages the cache.
\* Handlers of the page that was left end where they are.
loadPage ==
  /\ event
  /\ page' = [token |-> None, snapshot |-> None, loading |-> TRUE]
  /\ sync' = idleSync
  /\ run' = [r \in Runs |-> idleRun]
  /\ UNCHANGED <<now, standing, left, rows, idb, queue, cached, post>>

useEffect ==
  /\ page.loading
  /\ page' = [page EXCEPT !.loading = FALSE,
                          !.snapshot = IF idb.snapshot # None THEN idb.snapshot ELSE @]
  /\ UNCHANGED <<now, standing, left, rows, idb, queue, cached, sync, run, post, events>>

snapshotInUse == IF page.snapshot # None THEN page.snapshot ELSE idb.snapshot

ageSnapshot ==
  LET s == snapshotInUse
      aged == Good(s.capturedAt - HighLimit - 1, s.did)
  IN
  /\ usable /\ s \notin {None, Broken}
  /\ event
  /\ idb' = [idb EXCEPT !.snapshot = aged]
  /\ page' = [page EXCEPT !.snapshot = aged]
  /\ UNCHANGED <<now, standing, left, rows, queue, cached, sync, run, post>>

-----------------------------------------------------------------------------
\* loginAndSync.  The login itself is Sessions; here it succeeds while the key
\* controls the verifier's own DID, and otherwise throws.
login ==
  /\ usable /\ sync.at = "idle"
  /\ standing.did = OwnDid
  /\ event
  /\ page' = [page EXCEPT !.token = now]
  /\ sync' = [sync EXCEPT !.at = "fetch", !.token = now]
  /\ UNCHANGED <<now, standing, left, rows, idb, queue, cached, run, post>>

\* The service worker keeps a copy of every answer, and gives it when the
\* network fails; without a copy the page gets what is no JSON, and throws.
fallBack == IF cached = None THEN idleSync ELSE [sync EXCEPT !.at = "store", !.answer = cached]

\* The server dates its answer after its reads; their latency is no time here.
\* Nothing asks whether the answer is an error.
snapshot ==
  /\ sync.at = "fetch"
  /\ \/ /\ \/ /\ valid(sync.token) /\ standing.did # None
              /\ cached' = Good(now, standing.did) /\ UNCHANGED events
           \/ /\ ~valid(sync.token) \/ standing.did = None
              /\ cached' = Broken /\ UNCHANGED events
           \/ event /\ cached' = Broken
        /\ sync' = [sync EXCEPT !.at = "store", !.answer = cached']
     \/ event /\ UNCHANGED cached /\ sync' = fallBack
  /\ UNCHANGED <<now, standing, left, rows, page, idb, queue, run, post>>

\* (Mutation: the page dates the snapshot by its own clock.)
stampSnapshot ==
  LET answer == IF sync.answer = Broken THEN Broken ELSE [sync.answer EXCEPT !.capturedAt = now] IN
  /\ sync.at = "store"
  /\ idb' = [idb EXCEPT !.snapshot = answer]
  /\ sync' = [sync EXCEPT !.at = "finish", !.answer = answer]
  /\ UNCHANGED <<now, standing, left, rows, page, queue, cached, run, post, events>>

storeSnapshot ==
  /\ sync.at = "store"
  /\ idb' = [idb EXCEPT !.snapshot = sync.answer]
  /\ sync' = [sync EXCEPT !.at = "finish"]
  /\ UNCHANGED <<now, standing, left, rows, page, queue, cached, run, post, events>>

finishSync ==
  /\ sync.at = "finish"
  /\ idb' = [idb EXCEPT !.token = sync.token]
  /\ page' = [page EXCEPT !.snapshot = sync.answer]
  /\ sync' = idleSync
  /\ UNCHANGED <<now, standing, left, rows, queue, cached, run, post, events>>

-----------------------------------------------------------------------------
busy == {r \in Runs : run[r] # idleRun \/ post[r] # idlePost}
work == Cardinality({n \in Decisions : queue[n] # None}) + Cardinality(busy)

\* decide.  A broken snapshot read from IndexedDB passes the age check, since
\* NaN is not greater than any limit, and then throws at its identity.
decide(n, op) ==
  LET s == snapshotInUse
      gate == evaluateOfflineOperation(op, s.capturedAt, now)
  IN
  /\ usable /\ s \notin {None, Broken}
  /\ queue[n] = None /\ work < MaxWork
  /\ queue' = [queue EXCEPT ![n] =
       [risk |-> gate.risk, age |-> gate.age, allowed |-> gate.allowed, did |-> s.did,
        lost |-> IF standing.did = s.did THEN 0 ELSE now - left[s.did],
        reconciled |-> FALSE, outcome |-> None]]
  /\ UNCHANGED <<now, standing, left, rows, page, idb, cached, sync, run, post, events>>

\* reconnect: the token and the DID are those of the page that was clicked; a
\* page that has not loaded its snapshot yet sends no DID at all.
unreconciled == {n \in Decisions : queue[n] # None /\ ~queue[n].reconciled}

reconnect(r) ==
  LET token == IF page.token # None THEN page.token ELSE idb.token IN
  /\ usable /\ r \notin busy /\ {q \in Runs : q < r} \subseteq busy
  /\ token # None /\ unreconciled # {} /\ work < MaxWork
  /\ run' = [run EXCEPT ![r] =
       [at |-> "next", todo |-> unreconciled, token |-> token,
        did |-> IF page.snapshot = None THEN None ELSE page.snapshot.did]]
  /\ UNCHANGED <<now, standing, left, rows, page, idb, queue, cached, sync, post, events>>

send(r, n) ==
  /\ run[r].at = "next" /\ n \in run[r].todo
  /\ post[r] = idlePost
  /\ run' = [run EXCEPT ![r].at = "wait", ![r].todo = @ \ {n}]
  /\ post' = [post EXCEPT ![r] = [at |-> "sent", nonce |-> n, token |-> run[r].token,
                                  did |-> run[r].did, outcome |-> None]]
  /\ UNCHANGED <<now, standing, left, rows, page, idb, queue, cached, sync, events>>

endRun(r) ==
  /\ run[r].at = "next" /\ run[r].todo = {}
  /\ run' = [run EXCEPT ![r] = idleRun]
  /\ UNCHANGED <<now, standing, left, rows, page, idb, queue, cached, sync, post, events>>

\* Any JSON answer settles the item, an error too (mutation: a duplicate is
\* taken for no answer).
retryOnDuplicate(item, outcome) ==
  IF outcome = "duplicate" THEN item ELSE [item EXCEPT !.reconciled = TRUE, !.outcome = outcome]
settle(item, outcome) == [item EXCEPT !.reconciled = TRUE, !.outcome = outcome]

deliver(r) ==
  /\ run[r].at = "wait" /\ post[r].at = "answer"
  /\ queue' = [queue EXCEPT ![post[r].nonce] = settle(queue[post[r].nonce], post[r].outcome)]
  /\ run' = [run EXCEPT ![r].at = "next"]
  /\ post' = [post EXCEPT ![r] = idlePost]
  /\ UNCHANGED <<now, standing, left, rows, page, idb, cached, sync, events>>

\* fetch rejects, and reconnect with it; the request may have arrived or not,
\* and the server goes on with one that has.
lose(r) ==
  /\ event /\ run[r].at = "wait"
  /\ run' = [run EXCEPT ![r] = idleRun]
  /\ post' = [post EXCEPT ![r] = IF post[r].at \in {"sent", "answer"} THEN idlePost ELSE @]
  /\ UNCHANGED <<now, standing, left, rows, page, idb, queue, cached, sync>>

\* Nobody waits for the answer to a page that was left.
dropAnswer(r) ==
  /\ run[r].at # "wait" /\ post[r].at \in {"sent", "answer"}
  /\ post' = [post EXCEPT ![r] = idlePost]
  /\ UNCHANGED <<now, standing, left, rows, page, idb, queue, cached, sync, run, events>>

-----------------------------------------------------------------------------
\* POST /offline/reconcile
respond(r, outcome) == post' = [post EXCEPT ![r].at = "answer", ![r].outcome = outcome]

serverUnchanged == <<now, standing, left, page, idb, queue, cached, sync, run, events>>

\* The schema asks for a DID, and the signature covers the one that was signed
\* on the device.
parses(r) == post[r].did # None
signatureValid(r) == post[r].did = queue[post[r].nonce].did

receive(r) ==
  /\ post[r].at = "sent"
  /\ IF ~valid(post[r].token) \/ ~parses(r) \/ ~signatureValid(r)
     THEN respond(r, "refused")
     ELSE IF rows[post[r].nonce] # <<>> THEN respond(r, "duplicate")
     ELSE post' = [post EXCEPT ![r].at = "fresh", ![r].token = None]
  /\ UNCHANGED <<rows, serverUnchanged>>

\* A failing call to the chain is a rejection as well.  The age is the
\* device's own.
judge(r) ==
  LET item == queue[post[r].nonce]
      stale == item.allowed /\ item.risk = "high" /\ item.age > HighLimit
      permitted == standing.did = post[r].did /\ standing.role /\ ~stale
  IN
  /\ post[r].at = "fresh"
  /\ \E outcome \in {"rejected"} \cup (IF permitted THEN {"accepted"} ELSE {}) :
       post' = [post EXCEPT ![r].at = "judged", ![r].outcome = outcome]
  /\ UNCHANGED <<rows, serverUnchanged>>

\* The unique index on nonce (mutation: none).
noIndex(n)     == TRUE
uniqueNonce(n) == rows[n] = <<>>

rowOf(r) ==
  LET item == queue[post[r].nonce] IN
  [risk |-> item.risk, age |-> item.age, allowed |-> item.allowed,
   did |-> post[r].did, accepted |-> post[r].outcome = "accepted"]

\* (Mutation: upsert.)
replace(r) ==
  /\ post[r].at = "judged"
  /\ rows' = [rows EXCEPT ![post[r].nonce] = <<rowOf(r)>>]
  /\ respond(r, post[r].outcome)
  /\ UNCHANGED serverUnchanged

create(r) ==
  LET n == post[r].nonce IN
  /\ post[r].at = "judged"
  /\ IF uniqueNonce(n)
     THEN rows' = [rows EXCEPT ![n] = Append(@, rowOf(r))] /\ respond(r, post[r].outcome)
     ELSE UNCHANGED rows /\ respond(r, "error")
  /\ UNCHANGED serverUnchanged

databaseFails(r) ==
  /\ event
  /\ post[r].at \in {"sent", "judged"}
  /\ respond(r, "error")
  /\ UNCHANGED <<now, standing, left, rows, page, idb, queue, cached, sync, run>>

-----------------------------------------------------------------------------
RunStep(r) ==
  \/ \E n \in Decisions : send(r, n)
  \/ endRun(r)
  \/ deliver(r)
  \/ dropAnswer(r)
  \/ receive(r)
  \/ judge(r)
  \/ create(r)

SyncStep == snapshot \/ storeSnapshot \/ finishSync

OfflineNext ==
  \/ Tick \/ standingChanges
  \/ loadPage \/ useEffect \/ ageSnapshot
  \/ login \/ SyncStep
  \/ \E n \in Decisions : decide(n, Operation[n])
  \/ \E r \in Runs : reconnect(r) \/ RunStep(r) \/ lose(r) \/ databaseFails(r)

\* What has been started goes on, the page that has been loaded loads its
\* snapshot, and its user goes on to reconnect while anything is unsettled.
Fairness ==
  /\ WF_offlineVars(useEffect)
  /\ WF_offlineVars(SyncStep)
  /\ \A r \in Runs : WF_offlineVars(RunStep(r)) /\ WF_offlineVars(reconnect(r))

OfflineSpec == OfflineInit /\ [][OfflineNext]_offlineVars /\ Fairness

-----------------------------------------------------------------------------
settled(n) == queue[n] # None /\ queue[n].reconciled

\* Two reconnects at once, a retry after a lost answer, a page reloaded in
\* between: the server has at most one row per decision, and what it says of
\* the decision is what the device signed.
RecordedOnce ==
  \A n \in Decisions :
    /\ Len(rows[n]) <= 1
    /\ \A i \in 1..Len(rows[n]) :
         LET row == rows[n][i] IN
         /\ queue[n] # None
         /\ <<row.risk, row.age, row.allowed, row.did>> =
              <<queue[n].risk, queue[n].age, queue[n].allowed, queue[n].did>>

\* What the device shows of a settled decision is what happened to it: an
\* outcome it shows is that of the row, and a duplicate was recorded before.
\* Only a refusal or an error leaves a settled decision without a row.
SettledAsRecorded ==
  \A n \in Decisions : settled(n) =>
    CASE queue[n].outcome = "accepted" -> rows[n] # <<>> /\ rows[n][1].accepted
      [] queue[n].outcome = "rejected" -> rows[n] # <<>> /\ ~rows[n][1].accepted
      [] queue[n].outcome = "duplicate" -> rows[n] # <<>>
      [] OTHER -> queue[n].outcome \in {"refused", "error"}

\* A high-risk operation is allowed only to a DID that the chain showed under
\* the device's key no longer ago than the limit, whether the snapshot came
\* from the network, the service worker's copy, IndexedDB or the page.
AllowedWithinLimit ==
  \A n \in Decisions :
    queue[n] # None /\ queue[n].risk = "high" /\ queue[n].allowed => queue[n].lost <= HighLimit

\* The server answers for every decision in the end, whatever requests and
\* answers were lost and whatever was recorded without the device's knowing,
\* unless the page has broken or no token is left to reconnect with.  An error
\* is an answer: what the device makes of it is the next property's subject.
QueueAnswered ==
  \A n \in Decisions :
    (queue[n] # None) ~> \/ queue[n] # None /\ queue[n].outcome # None
                         \/ Broken \in {page.snapshot, idb.snapshot}
                         \/ {page.token, idb.token} = {None}

\* The documentation's promise, a decision is reconciled when the network is
\* back, which the code does not keep: an expired session or an error of the
\* server settles a decision that has no row and is not sent again (a
\* violation run shows it).
ReconciledIsRecorded == \A n \in Decisions : settled(n) => rows[n] # <<>>
=============================================================================
