# ANUBANDH in TLA+

ANUBANDH records who owns and who holds physical assets, collects signed
observations of them, notices when observations disagree, freezes the asset and
lets accountable people release it. Five Solidity contracts decide; a Node
backend forwards role-checked requests to them; an indexer copies their events
to PostgreSQL for audits; an offline verifier takes decisions against a cached
snapshot. This directory models the program, checks the models with TLC and
proves the most important properties with TLAPS.

Contents: [inventory](#inventory), [modules](#modules), [runs](#runs-and-what-they-show),
[bounds](#bounds), [fairness](#fairness), [proofs](#proofs), [findings](#findings),
[what is left out](#what-is-left-out), [plan](#plan).

## Inventory

| Component | State | Operations | Interacts with |
|---|---|---|---|
| `RoleManager.sol` | membership per account and role (OpenZeppelin), expiry per account and role | `grantRole`, `grantRoleWithExpiry`, `revokeRole`, `renounceRole`; `hasRole` depends on the block time | asked by every other contract and by the backend |
| `DIDRegistry.sol` | DID record (controller, status), reverse mapping controller to DID | `register`, `rotateKey`, `revoke`; `isActiveController` | asks RoleManager; asked by AttestationRegistry and the backend |
| `AssetNFT.sol` | asset per token (owner, custodian, freshness, window, quarantine, value), identifier index, two wirings | `mint`, `allocate`, `transferCustody`, `transferOwnershipTo`, ERC-721 transfers; `setQuarantine`, `applyReconciledState`, `updateFreshness` for the registries | asks RoleManager; called by both registries |
| `AttestationRegistry.sol` | append-only observations, used nonces, one wiring | `submitAttestation` | asks RoleManager, DIDRegistry, AssetNFT; calls `updateFreshness` and `onAttestation` |
| `DivergenceRegistry.sol` | divergence records, open divergence per token | `onAttestation`, `proposeReconciliation`, `confirmReconciliation` | reads AttestationRegistry; calls AssetNFT |
| `Deploy.s.sol` | | constructs and wires the contracts, grants first roles | |
| indexer (`indexer/src/index.ts`) | `ChainEvent` rows, derived tables, cursor | poll, store, apply, advance the cursor | reads the chain, writes PostgreSQL |
| audit (`routes/audit.ts`) | none | fold of `ChainEvent` rows up to a time | reads what the indexer wrote |
| login (`routes/auth.ts`, `auth.ts`, `chain.ts`) | login nonces, signed sessions | challenge, login, session check, role check per request | PostgreSQL, RoleManager, DIDRegistry |
| policy enforcement routes (`routes/*.ts`) | documents of minted assets | one contract transaction each, after a session and a role check | login, contracts, document store |
| public reads (`routes/assets.ts`, `divergence.ts`, ...) | none | answers put together from several calls to the chain | contracts, confidence |
| confidence (`policy/confidence.ts`) | none | score of an observation | public reads, audit |
| credentials (`routes/credentials.ts`) | credential rows with a revoked flag | issue, revoke, verify | PostgreSQL, DIDRegistry |
| offline verifier (`apps/verifier-pwa`, `routes/offline.ts`, `policy/risk.ts`) | snapshot, token and queue in IndexedDB, the service worker's copies, `OfflineDecision` rows | log in and sync, age, decide, reconnect; snapshot and reconcile on the server | login, PostgreSQL, contracts |
| portal (`apps/web`) | token and key in localStorage, which tabs share; the state of the open page | log in, check the session, load, write and load again, sign out | routes |
| document store (`packages/storage`) | two files per document | put, get | mint |
| schemas, scripts, tests | | | |

What is hard, and what makes each part correct:

- **Asset contracts.** One observation runs through three contracts in one
  transaction, and the fact that a token is frozen is kept twice. The order of
  observations, reconciliations, moves, role changes and the passing of time is
  arbitrary, and so is the order in which the contracts are wired. Correct
  means: both copies agree, no conflict in the window is missed, a frozen token
  does not move, it leaves quarantine only through the people the contract
  names, and they always can release it.
- **Permission contracts.** Whether a role is active is spread over two
  mappings that every call treats differently, and control of a DID over two
  mappings that must be inverse to each other. Correct means: a role is active
  exactly as the last call about it says, the mappings agree, revocation is
  final.
- **Indexer and audit.** A poller without transactions that may stop anywhere
  and that applies a batch contract by contract. Correct means: derived rows
  equal the chain once the cursor has caught up, and a reconstruction equals
  the chain at that time.
- **Login and requests.** Node interleaves requests at every `await`, and the
  chain moves in between: a nonce is read and marked in two steps, a DID is
  checked with two calls and a role with up to four, and the contract checks
  once more. Correct means: a nonce that has opened a session opens no more, a
  session's DID was active, nobody is admitted or turned away against every
  state of the chain during the request, and whatever fails, a hash on chain has
  its document.
- **Reads.** A page of assets or divergences is put together from calls that
  see different blocks, and the age in a score is taken between two clocks, the
  backend's and the chain's. Correct means: what it says together was true, or
  errs on the safe side.
- **Offline verifier.** Answers are lost or are errors, a queue is replayed by
  several reconnects at once, pages are reloaded, and the snapshot ages. Correct
  means: no decision is recorded twice or differently from what was signed, an
  outcome shown is the recorded one, every decision is answered in the end, and
  a risky operation is allowed only on a fresh snapshot. That every decision is
  also recorded does not hold (findings).
- **Portal.** Tabs share one storage, loads overlap, answers come late or not at
  all, and the last one is shown. Correct means: a page keeps its own write on
  display, token and key belong together, and a tab does not hang between its
  login and its pages.

`PROJECT.json` lists these as hazards at their lines with the properties that
cover them.

## Modules

| Module | Models | Extends |
|---|---|---|
| `RoleManager` | `RoleManager.sol` | |
| `DIDRegistry` | `DIDRegistry.sol` | `RoleManager` |
| `Identity` | both contracts, one action per transaction, and their properties | `DIDRegistry` |
| `Permissions` | what the asset contracts can see of those two: active roles, active controllers, block time | |
| `AssetNFT` | `AssetNFT.sol` | `Permissions` |
| `AttestationRegistry` | `AttestationRegistry.sol` | `AssetNFT` |
| `DivergenceRegistry` | `DivergenceRegistry.sol` | `AttestationRegistry` |
| `AssetTrust` | the three asset contracts, one action per transaction, and their properties | `DivergenceRegistry` |
| `AssetCustody` | abstract: what an asset holder is promised | |
| `Ledger` | abstract: what readers of the chain can see of assets, observations and divergences | |
| `ChainEvents` | the chain as the indexer sees it: blocks of transactions and their events | |
| `Indexer` | `indexer/src/index.ts` and the reconstruction of `routes/audit.ts`, with their properties | `ChainEvents` |
| `Sessions` | login: `routes/auth.ts`, `assertActiveDid`, sessions | `Identity` |
| `Gateway` | the guarded routes: `auth.ts`, `chain.ts`, `routes/*.ts`, the document store's `put`, credentials | `Sessions` |
| `Confidence` | `policy/confidence.ts`, in exact fractions | |
| `Views` | the public reads of `routes/*.ts` | `Ledger`, `Confidence` |
| `Portal` | `apps/web`: login, shell, pages; against `Views` and the ledger | `Views` |
| `OfflineVerifier` | `apps/verifier-pwa` with its service worker, `routes/offline.ts`, `policy/risk.ts` | |
| `MCIdentity`, `MCAssetTrust`, `MCIndexer`, `MCGateway`, `MCOffline`, `MCPortal` | small instances | the modules they are named after |
| `Identity_proofs`, `AssetTrust_proofs`, `Indexer_proofs`, `OfflineVerifier_proofs`, `Portal_proofs` | theorems and proofs | the modules they are named after |
| `AssetHistory_proofs`, `AssetRefinement_proofs` | theorems about `AssetTrust`: its log and records; its two refinements | `AssetTrust_proofs` |
| `Gateway_proofs` | theorems about `Gateway` and, in it, `Sessions` | `Gateway`, `Identity_proofs` |

**State.** Solidity mappings are functions or sets; a struct is a record with
the fields that some guard or property reads. Metadata and observation hashes,
evidence tier, asset class, the accepted location and condition, and the events
are left out of the contracts' state, since no contract reads them back. An
address is a model value, `NoAccount` is the zero address.

**Transactions.** A transaction is one action; a revert is an action that is not
enabled. A call from one contract into another is an operator on the state the
callee owns, composed by the caller's action: `SubmitAttestation` records the
observation, applies `updateFreshness` to the asset table and hands the result
to `onAttestation`, which writes DivergenceRegistry's state and the table. The
revert of a nested call (a registry that AssetNFT does not know yet) disables
the whole action.

**Permissions changing in between.** `AssetTrust` does not contain RoleManager and
DIDRegistry but the abstraction `Permissions`: between two transactions any role
may be granted, lost or expire and any key bound, lost or rotated. `Identity`
shows that the two contracts step only like that (`StepsLikePermissions`, run
and theorem), so what holds of `AssetTrust` holds of the five contracts.

**Signatures.** Observers sign payloads off chain. `Payloads` is the set of all
payloads ever signed; anyone may submit one at any time and repeatedly. A nonce
may occur in several payloads.

**Role history.** `RoleManager.granted` is a history variable. It records the
time until which the last call about a pair grants it and appears in no guard.

**Renounce.** `renounceRole` is OpenZeppelin's, whose `_revokeRole` asks the
overridden `hasRole`: a membership that has expired is left in place.

**How the parts are composed.** `Gateway` contains the permission contracts
(through `Sessions` and `Identity`), because what it must get right is about them;
what a forwarded transaction then does is `AssetTrust`'s subject. `Portal` contains
the ledger instead and takes from the backend's guards only that a write may be
refused, since what it must get right is about reads and writes. `AssetTrust`
implements the ledger (`ShowsLedger`, run deployed), as `Identity` implements
`Permissions`, so each composition rests on a component that is shown to behave
like its stand-in.

**Chain and indexer.** `ChainEvents` has the transactions of the contracts, each with
its events in log order; several may join one block. A behaviour follows one
`topic`, which Init chooses: the custody of a token (the transactions that
`AssetCustody` allows), the evidence about it, the roles of an account, or a DID.
Different topics are about different columns or different tables, and what happens
to one does not depend on the others, so that the topics can be taken one at a
time and add up instead of multiplying. A
tick of the indexer is a sequence of actions with one database write each:
`Poll` reads cursor and head and fixes the batch, `Store` writes the event row,
`WriteFirst` and `WriteSecond` are the at most two writes of `applySideEffects`,
`Advance` moves the cursor. Blocks are mined in between, and `Abort` ends the tick
anywhere (an error of the database or the node, a restart). `todo` is a set and
`isNext` picks from it in the order of the two loops. The logs of all contracts
are read at `Poll`; the code reads those of the second contract later, but mined
blocks do not change. `orderly` is a history variable that appears in no guard.

**Reconstruction.** The audit sorts by timestamp, and the events of one block
share theirs. `ownersAt`, `custodiansAt`, `quarantinesAt`, `attestationsAt` and `rolesAt` are the
sets of answers that some order within the blocks gives.

**Handlers.** A handler of the backend is a record with the step it has reached
(`at`) and its local variables; an action is what it does from one `await` to the
next. An error answer, and any awaited call that throws, ends it. Two reads are
one step where the second is of something that never changes once written, or
where only one of the two answers can matter; the comment at the action says so.

**Sessions.** `login` has the `POST /auth/login` handlers: row and signature are read at
`beginLogin`, `assertActiveDid` is `didOfController` and `readActive`, `markUsed` is the
update, `signSession` the token. Signing a login message is represented by the
address that the nonce's row was made for. `SeededInit` is what `demo-setup.ts`
leaves.

**Gateway.** `req` has the guarded requests. `beginRequest` is `requireAuth`, each
`readRole` is one call of `onChainRole`, and `allowed` is the table of `requireRoles`.
`grant`, `revokeRoleOf` and `identity` run RoleManager's and DIDRegistry's own actions;
`putBin`, `putJson`, `createDocument` and `mint` are the four awaits of a mint; `issue`,
`withdraw` and the steps of `check` are the credentials. `reverts` is the contract's
own check turning the transaction away. `OtherTransaction` is the chain moving
without the backend. `workload` is chosen in Init and says which requests one
behaviour has.

**Views and portal.** `call[t][s]` is a fetch of tab t together with the handler that
serves it. A page is the load it does, the writes it makes, and whether a write
uses the stored key (`page`, `pageOf`). `send` is the route up to the transaction,
`wait` the receipt, `written` the reload after it. A write takes the token of the
last rendering and the key stored now; the fetch of `/ready` that precedes the
signing of an observation has no effect on either and is left out. `scene` is
chosen in Init and says which pages, tabs and transactions one behaviour has.

**What a page shows.** `tab[t].page` is the page a tab is on. A load's answer goes to
`setItems`, `setAsset`, `setInfo` or `setOpenId`, whichever load it belongs to: `showLoad`
replaces what is displayed, of which the model keeps the block it was read from
(`shown.from`). No button waits for a load, so loads from before and after a write
can be in flight together and be answered in any order. A page that is left
(`pageLeft`) is told of nothing any more, and the next one starts `Blank`.
`shown.reloaded` and `shown.crossed` are history: whether the answer of a load sent after
the last write has come, and whether an earlier load was still unanswered when
the page was told of that write.

**Two clocks.** Blocks carry the chain's time (`Ledger.time`). The age of an observation
is the backend's `Date.now()` minus such a time (`assets.ts:31`), and `Views.clock` is that
`Date.now()`. The two move independently, so that either may be ahead.

**Offline verifier.** `page` is React's state, `idb` and `queue` IndexedDB, `cached` the
service worker's copy. `login`, `snapshot`, `storeSnapshot` and `finishSync` are the
awaits of `loginAndSync`; a decision is an item of `queue`, whose key is its nonce.
`run` is the page's side of a `reconnect`, `post` the request it waits for, which
lives on when the page is left: `receive`, `judge` and `create` are the awaits of the
reconcile route. `lose`, `dropAnswer`, `databaseFails` and `loadPage` are the faults. The
reads of the DID and the role within one judgement are one step, as is `decide`,
whose awaits only touch what the page alone writes. `now` is the time of the device
and of the server: the age limit is checked between the date the server gives a
snapshot and the device's clock, and a difference between the two would add to the
limit. That difference is not modelled.

**Scores.** `Confidence` has weights and penalties in tenths and the decay as a
fraction, so that the product is exact. The code multiplies doubles, which can
differ only where the product lies within a rounding error of a half.

**History.** `granted`, `late`, `held`, `opened`, `ever`, `always`, `wasActive`, `good`, `lost`, `left`,
`begun`, `best`, `from`, `wrote`, `reloaded`, `crossed`, `turn` and `switched` are history, like `orderly`:
they appear in no guard.

**Mutations.** An operator directly before a definition and with its parameters,
introduced as a mutation, is a plausible slip of the code. Each property was
checked to fail when the definition is replaced by the slip (the pairs are
`mutants` in `PROJECT.json`).

## Runs and what they show

`tlc -config <cfg> <module>` in this directory.

| Run | Config | Result | States |
|---|---|---|---|
| deployed | `MCDeployed.cfg` of `MCAssetTrust` | holds | 534 thousand |
| wiring | `MCWiring.cfg` of `MCAssetTrust` | holds | 103 thousand |
| identity | `MCIdentity.cfg` of `MCIdentity` | holds | 351 thousand |
| indexer | `MCIndexer.cfg` of `MCIndexer` | holds | 698 thousand |
| requests | `MCGateway.cfg` of `MCGateway` | holds | 1.21 million |
| offline | `MCOffline.cfg` of `MCOffline` | holds | 1.37 million |
| portal | `MCPortal.cfg` of `MCPortal` | holds | 1.08 million |
| lapsedadmin | `MCReactivation.cfg` of `MCIdentity` | violated, see findings | |
| order | `MCBatchOrder.cfg` of `MCIndexer` | violated, see findings | |
| lost | `MCLostEffects.cfg` of `MCIndexer` | violated, see findings | |
| nonce | `MCNonceReuse.cfg` of `MCGateway` | violated, see findings | |
| queue | `MCLostDecision.cfg` of `MCOffline` | violated, see findings | |

**deployed** starts from the wired contracts.

- `QuarantineIffOpen`: the flag in AssetNFT and the open divergence in
  DivergenceRegistry agree, and the open one is the only unresolved record.
- `ConflictsRecorded`: every pair of conflicting observations within the window
  has a record for the later one, or an earlier record was still open then.
- `SeparationOfDuties`: a high-value release took two accounts, any other one.
- `FreshnessCoversEvidence`: a token is as fresh as its observations and its
  last reconciliation, and not fresher than the present.
- `RecordedOnce`: one observation per nonce, in the order of time.
- `OpenIsReconcilable`: whoever the contract names can act on an open divergence
  in every reachable state (`ENABLED`).
- `ReleasedByResolution`: a token leaves quarantine only by resolving its
  divergence, to the accepted custodian, on the word of an entitled account.
- `HistoryKept`: observations and resolved records never change, and a proposal
  stands until it is confirmed.
- `KeepsCustodyPromise`: the composition implements `AssetCustody`, which knows
  only absent, free and frozen tokens, who owns and holds them, and how many
  cases were opened and closed.
- `ShowsLedger`: it implements `Ledger` too, over which the public reads and the
  portal are modelled.

**wiring** starts from freshly constructed contracts. The three wiring
transactions happen in any order among mints, moves and observations of two
tokens: detection cannot open a divergence that AssetNFT would refuse to
release, and identifiers stay unique (`IdentifierNamesOneToken`).

**identity** starts from RoleManager's constructor.

- `ActiveAsGranted`: `hasRole` answers as the last call about the pair says.
- `ControlIsMutual`: the two DID mappings are inverse to each other.
- `OperationalGrantsAuthorised`: an operational role turns active only while
  its admin role is actively held by someone.
- `RevocationFinal`: a revoked DID never changes, its key controls no other.
- `StepsLikePermissions`: both contracts implement `Permissions`.

**indexer** starts from an empty chain and an empty database.

- `NoEventMissed`: the cursor never passes an event without a row.
- `PointInTimeExact`: the audit of a moment up to the cursor gives the chain's
  state of that moment, whatever the indexer is doing meanwhile; if some block
  holds two transactions, it is one of the possible answers. Its sample of roles
  names no role that was not granted or was revoked, and is complete for an
  account that never had two at once.
- `DerivedWhileOrderly`: a caught-up indexer has the right `Asset`, `Divergence`,
  `Attestation`, `RoleGrant` and `DidRecord` rows, unless a batch held an allocation,
  quarantine or release after an earlier release, or a tick failed between an
  event's row and its effects. The row's freshness may only lag behind the
  chain's, and only by a reconciliation. (The `expiresAt` of a grant without expiry is 1970
  and not null: the event's `"0"` is a truthy string, `index.ts:84`.)
- `CatchesUp`: every mined block is indexed in the end.

**requests** starts from the seeded contracts, with no session.

- `NonceSpent`: a nonce that has opened a session opens none for a login that
  begins later. That is less than the documentation promises: two logins that
  overlap both open a session with one nonce, which run **nonce** shows.
- `SessionHeldDid`: the DID of every session was active and controlled by the
  session's address at one moment of the login, although the two facts are read
  separately while keys rotate.
- `VerdictJustified`: who is admitted held an allowed role during the request; who
  is refused lacked each of them at some moment, or had, in the order in which
  `onChainRole` asks, an earlier role that is not allowed.
- `GatesAgree`: a request that the backend admits and the contract turns away lost
  the role in between. Granting and revoking Admin is excepted: the backend asks
  for Admin, RoleManager for DEFAULT_ADMIN.
- `HashBacked`: whichever await of a mint fails, a metadata hash that the backend has
  put on chain has both files and its row.
- `VerifiedWhileGood`: a credential reported as unrevoked and of an active issuer
  was both at the moment the row was read, and issued by an active DID.

**offline** starts from a device that has never logged in.

- `RecordedOnce` (of `OfflineVerifier`): one row per decision, saying what was signed.
- `SettledAsRecorded`: an outcome shown on the device (accepted, rejected,
  duplicate) is that of the row, and only a refusal or an error settles a
  decision without one. It says nothing of a decision that is shown as refused
  or as an error: it may be recorded or not. That it may not be is run **queue**.
- `AllowedWithinLimit`: a high-risk operation was allowed only to a DID that the
  key still controlled no longer ago than the limit, wherever the snapshot
  came from.
- `QueueAnswered`: the server answers for every queued decision in the end, a
  recorded one whose answer was lost included, or the page has broken (it stored
  an error answer as its snapshot), or there is no token.

**portal** starts from the login page and an empty ledger.

- `ScoreInBand`: every score shown lies between a fifth and all of what evidence
  and open divergence allow.
- `OneChangeNotOverstated`: a score read across at most one transaction is no
  higher than the asset's own score, by the backend's clock, at the first read or
  at the last. By the chain's clock this does not hold: evidence that has aged on
  the chain alone has not decayed for the backend (findings).
- `OpenNotListedResolved`: the divergence announced as open is not listed as resolved
  or older than another.
- `OwnWriteShown`: once the load after a write has been answered, the page shows a
  chain that has the write and never goes back before it, unless an earlier load
  was unanswered when the page was told of the write. Without that exception TLC
  finds the earlier load's answer coming last and taking the display back.
- `MixedOnlyAfterSwitch`: a write with one account's session and another's key comes
  from a page that another tab's login has overtaken.
- `ShellSettles`: a tab that checks its session gets to its pages or to the login.

The runs **order** and **lost** show that both exceptions of `DerivedWhileOrderly` are
needed. Its one column that is open, the account that confirmed a release, is the
subject of a finding.

## Bounds

`MaxTime`, `MaxToken`, `MaxAttestation` and `MaxDivergence` bound the block time and the
three counters and are guards of the actions that would exceed them;
`Payloads`, `Grants` and `Grantable` bound what is submitted and granted.

- deployed: one token (the contracts treat tokens independently; two are in
  wiring), window 1 and times 0 to 2, so that two observations are together,
  exactly one window apart, or too far apart. Three payloads in pairwise
  conflict in three ways, one expiring early, and two divergences: a token is
  frozen, released, frozen and released again. Two accounts, both Admin at
  times and one Manager: proposer and confirmer can be equal or different and
  the roles can change between the two steps.
- wiring: no time, two observations of which two tokens get one each or one
  both, one divergence: enough for every order of wiring and detection.
- identity: two accounts, four pairs that include an account's own admin role
  and the admin of another's, expiries before, at and after each time, two DIDs
  for two keys, so that a key may be wanted by both.

- indexer: one token between two parties, one account with two roles, of which one
  is granted for a time, one DID; four transactions in up to three
  blocks, batches of one or two blocks (`Span` 1 for the code's 200), one failing
  tick. A mint, a divergence, its release and a move after it fit, in one block,
  in one batch of two blocks, or apart, and a retry can meet a larger batch than
  the failed tick. The parties are interchangeable, so the token is minted to a
  fixed one. Blocks without events of the topic are left out.
- requests: three accounts, two with a DID and a key in the backend, four pairs,
  two requests that can be swapped. `MCWorkloads` lists seven mixes: overlapping
  logins on one nonce; a login against three DID transactions; each family of
  routes against role transactions; two guarded requests at once. `inFlight` and
  `calls` bound the requests in flight and the transactions. Two transactions
  during a request suffice to gain and lose a role between any two of its reads.
- offline: one low- and one high-risk decision, two reconnects at a time, limits
  of one unit of time. `MaxEvents` 3 bounds logins, losses, reloads and changes
  of standing together, `MaxWork` 3 decisions and reconnects together, so that
  two reconnects can race for one decision, or one retry two.
- portal: two tabs with two fetches each, two people, two assets. `MCScenes` lists
  nine scenes: each kind of page read while up to five transactions run; the
  backend's clock behind the chain's, equal to it, and ahead of it up to and
  beyond the window of 2; two pages that write twice while they load, with loads
  overtaking each other and answers lost; two tabs that log in as two people and
  write; two tabs, or two fetches of one, with changes of page, expiring sessions
  and sign-outs. `pages` are the pages a scene visits, `lastTime` and `lastClock` bound
  the two clocks. Where `browses` is off, a tab leaves the dashboard once.

States at a bound of the contracts have no successor but the passing of
permissions, which never stops. The indexer has nothing to do once it has caught
up with the last block, and the browser, the device and the backend wait for people who
may have gone home, so their runs check no deadlock.

## Fairness

Of people and clients none is assumed. Nothing in the contracts makes anyone
start a transaction, so no liveness is claimed of them. `OpenIsReconcilable` states
what the contracts can promise instead: the release is possible now, for
everyone entitled to it.

`Indexer` assumes `WF_vars(Tick)`: `main` calls `tick` for ever, pauses between two calls
and survives an exception (`index.ts:263-270`), and every `await` of a tick returns
or throws. Ticks that fail for ever are excluded by the bound on `Abort`; with
them nothing could be promised.

`OfflineVerifier` assumes that what has been started goes on: the effect of a page
that was loaded, the awaits of a sync, and, for each reconnect, those of page and
server (`WF` of `useEffect`, `SyncStep` and `RunStep(r)`). React, the browser and Node see to
that; losses are actions of their own. It also assumes that the user, who has the
button in front of him, presses Reconnect as long as something is unsettled
(`WF` of `reconnect(r)`); the code does not do so by itself. Losses are bounded by
`MaxEvents`: if every answer is lost, nothing is ever settled. `QueueAnswered` rests on
this; it does not say that the answer is the one hoped for.

`Portal` assumes per tab that its due effect, the handlers that serve it and the
answers that have come are taken up (`WF` of `Progress`). Clicks are not assumed.

## Proofs

`tlapm <module>.tla` proves every obligation of the eight proof modules, for all
values of the constants under the assumptions named in the modules:
`PermissionsAssumption`, `AssetAssumption`, `AttestationAssumption`,
`DivergenceAssumption`, `RoleAssumption`, `DidAssumption`, `SeedAssumption`,
`EventsAssumption`, `IndexerAssumption`, `OfflineAssumption`, `NoneAssumption`,
`WindowAssumption` and `SceneAssumption`. They say that the counters and the
window are naturals, that the sets of grants, payloads, windows and scenes have
their types, that the zero address is no account and `None` no other value, and
that what the deployer and the seed are granted is among the pairs. TLC evaluates
them in every run.

The theorems about the asset contracts hold of `Spec`, which starts from freshly
constructed contracts and has every order of wiring, and of `DeployedSpec`, which
starts where `Deploy.s.sol` ends.

| Theorem | States | Argument |
|---|---|---|
| `AssetTrust_proofs!Typing` | `[]TypeOK` | `Typed` = `TypeOK` and `Shape`: ids below each counter hold real entries about existing tokens, a record that was proposed names a proposer and a custodian. Without `Shape` a release could write an unset custodian. |
| `AssetTrust_proofs!QuarantineMatchesDivergence` | `[]QuarantineIffOpen` | inductive together with `Typed`; one case per transaction |
| `AssetTrust_proofs!TwoAccountsRelease` | `[]SeparationOfDuties` | strengthened by `Duties`: only a high-value asset has a pending proposal, and value is fixed at mint |
| `AssetTrust_proofs!OpenIsNotBlocked` | `[]NotBlocked` | `WiredForDetection`: only a registry that AssetNFT knows detects, and it is known for good; with `QuarantineIffOpen`, neither `requireOpen` nor AssetNFT's check of its caller refuses the call |
| `AssetHistory_proofs!EveryNonceOnce` | `[]RecordedOnce` | `Evidence`: what was recorded is past and its nonce used, and a divergence is about recorded observations. `StepKinds` sorts the steps into still ones, observations, proposals and resolutions; all proofs of this module go through it. |
| `AssetHistory_proofs!FreshnessIsEarned` | `[]FreshnessCoversEvidence` | from `Evidence`: a new observation and a release are dated now, and nothing else writes a date but a mint |
| `AssetHistory_proofs!IdentifiersAreUnique` | `[]IdentifierNamesOneToken` | inductive: an identifier that is taken finds its token |
| `AssetHistory_proofs!HistoryIsPermanent` | `HistoryKept` | `LogOnlyGrows`; a resolved record is no longer anyone's open one, so neither proposal nor confirmation reaches it |
| `AssetHistory_proofs!NoConflictIsMissed` | `[]ConflictsRecorded` | a new observation finds an open divergence or scans all its rivals (`NewConflictIsAnswered`); an answer stands, since records are kept and a resolution is dated no earlier than the observations before it (`AnswersStand`) |
| `AssetHistory_proofs!OnlyResolutionReleases` | `ReleasedByResolution` | from `QuarantineIffOpen`: a lifted quarantine is a closed divergence |
| `AssetRefinement_proofs!CustodyIsKept` | `KeepsCustodyPromise` | initial state and every step mapped; the counts of cases are cardinalities of sets of records, of which all but the open one are resolved (`AllButOneResolved`) |
| `AssetRefinement_proofs!LedgerIsShown` | `ShowsLedger` | the tables seen as sequences (`ViewsAreSequences`), each transaction mapped to a transaction of `Ledger` or a stutter |
| `Identity_proofs!IdentityTyping` | `[]TypeOK` | part of `Typed` |
| `Identity_proofs!RolesAsGranted` | `[]ActiveAsGranted` | `Traced`: the three shapes the two mappings can have for a pair, among them an expired membership that was renounced |
| `Identity_proofs!ControlStaysMutual` | `[]ControlIsMutual` | inductive with the types |
| `Identity_proofs!RevokedForGood` | `RevocationFinal` | from `ControlIsMutual`: no other DID's call can touch the key's entry |
| `Identity_proofs!OperationalGrants` | `OperationalGrantsAuthorised` | an operational role differs from its admin role, so the reset of its own expiry does not help the caller |
| `Identity_proofs!PermissionsSound` | `StepsLikePermissions` | initial state and every step mapped; a role call moves one pair, a DID call one key or a swap of two |
| `Gateway_proofs!GatewayTyping` | `[]GatewayTypeOK` | `Sound`: a nonce that can open a session has an address, only a mint has a document at hand, a verification's row is there; over the invariants of `Identity` |
| `Gateway_proofs!MintedIsFetchable` | `[]HashBacked` | `Stored`: a mint in flight has written what its next await presupposes, and nothing removes a file or a row |
| `Gateway_proofs!NonceOpensOnce` | `[]NonceSpent` | `Spent`: a login about to sign has marked its nonce, nothing unmarks it, so a login that begins later finds it used |
| `Gateway_proofs!SessionsHeldTheirDid` | `[]SessionHeldDid` | `Held`: if the DID that the first read found was not active, it is revoked, keeps its key for good, and the second read refuses. This is what `RevocationFinal` is for. |
| `Gateway_proofs!VerifiedCredentialsWereGood` | `[]VerifiedWhileGood` | `Acting`, `Rows`, `Judging`: the same argument, for the three reads of a verification and for the issue |
| `Gateway_proofs!VerdictsAreJustified` | `[]VerdictJustified` | `Weighing`: a role held all along is held now and one held now has been held, and the roles asked before the present one were not held all along |
| `Gateway_proofs!GatesStayAligned` | `[]GatesAgree` | from `Weighing`: the contract asks for the roles that the backend admitted by |
| `Indexer_proofs!IndexerTyping` | `[]TypeOK` | `ChainGrows`: mined blocks hold well-typed events and never change |
| `Indexer_proofs!EveryEventStored` | `[]NoEventMissed` | `BatchInv`: every event of the current batch is stored or still to do, and the event whose effects are being applied is stored. `OneIsNext` (the tick's order is strict) makes that event the one that leaves `todo`. |
| `Indexer_proofs!AuditIsExact` | `[]PointInTimeExact` | `ChainTells`: each block's state is told by the last event that sets a field, in its block or an earlier one; one transaction has no two events that set a field differently. The rows up to the cursor are exactly the events up to it, since rows are only made of mined events. |
| `Indexer_proofs!TablesShowChain` | `[]DerivedWhileOrderly` | `TablesInv`, see below |
| `OfflineVerifier_proofs!OfflineTyping` | `[]OfflineTypeOK` | part of `Typed`, with the times at which the key ceased to control a DID, all past |
| `OfflineVerifier_proofs!OneRowPerDecision` | `[]RecordedOnce` | `Sent`: a request that goes on to a row is of a queued decision and carries the DID it was signed with. The unique index does the rest. |
| `OfflineVerifier_proofs!SettledIsRecorded` | `[]SettledAsRecorded` | `Answered`: an answer on its way already says what the row says, and stays true because a row never changes |
| `OfflineVerifier_proofs!HighRiskWithinLimit` | `[]AllowedWithinLimit` | `Fresh`: wherever a snapshot is kept, the DID was under the key when it was dated |
| `Portal_proofs!ScoresStayInBand` | `[]ScoreInBand` | the decay is a fraction between a fifth and one (`DecayRange`), and rounding is monotone (`ScoreBand`), for every age and window |
| `Portal_proofs!ScoresAreNotOverstated` | `[]OneChangeNotOverstated` | `Reading`: until a second transaction, either the evidence read is still the latest or its score is bounded by the first one. A transaction leaves an asset's evidence or keeps its divergence open (`Aged`), and a score falls with the backend's clock and with a divergence (`ScoreFalls`). Nothing is assumed of the chain's time. |
| `Portal_proofs!OpenDivergenceIsNewest` | `[]OpenNotListedResolved` | `LedgerSound`: an open divergence is the newest and the only unresolved one of its asset. `Listing`: what was read as resolved is resolved by the time the open id is read. |
| `Portal_proofs!OwnWritesAreShown` | `[]OwnWriteShown` | `Conduct`: a write is answered with a block that has been mined, and a load begins no earlier than what its tab has been told. `Displayed`: unless an earlier load was unanswered when the page was told, all loads in flight were sent after the write, and every one of them, in whatever order they are answered, brings it; a page that is left takes its loads along (`NoLoadsLeft`). |
| `Portal_proofs!TokenAndKeyGoTogether` | `[]MixedOnlyAfterSwitch` | `BrowserSound`: the stored pair is of one login, and a tab's token goes with the stored key unless a login has been stored since it rendered |

The inductive invariants are checked by TLC on the small instances before they are
proved. The five theorems of `Portal_proofs` rest on one invariant, `PortalInv`, which
joins the ledger, the browser and every request in flight; a step is a step of the
chain (`World`) and a change of one request, and `ConductStays` says that all the
other requests stand.

What is left to TLC:

- `OpenIsReconcilable` is about `ENABLED`, which the prover does not handle. What
  it rests on is proved: `OpenIsNotBlocked` leaves only the guards on the caller
  and on the proposal's state, which `OpenIsReconcilable` has as hypotheses.
- `CatchesUp`, `QueueAnswered` and `ShellSettles` are liveness, which the prover
  does not handle either.

`TablesInv`, from which `TablesShowChain` follows, says of every moment, also in the
middle of an event, which events each column has taken in.

- `Says` is about the chain alone, for the mined blocks and with the one being
  built: each part of the state is what the last event of certain kinds told
  (`Shows`). A token's mint precedes its other events, a DID's registration its
  other events, and a divergence's detection the release that ends it, which
  precedes the next detection. `Follows` is the same of one transaction and is
  proved for each of the twelve.
- `done` is the set of events whose effects are complete, `begun` has in addition the
  one whose first write is done. `Told` says of each column what `Says` says of the
  state, with one of these sets for all events.
- `Closed`: with an event, all earlier ones of its contract and of those handled
  before it are in `done`. `Unmixed`: the batch in hand has no release before an
  allocation, quarantine or release that is handled earlier. `Window`: nothing
  that is stored lies beyond the batch, so a failed batch is contained in the next
  one and `Unmixed` is about all of what a retry finds half done.

From `Closed` and `Unmixed` the next event is the last, in the order of the chain, among
those in `done` that set the same columns (`NextIsLast`): this is where the tick's
order, one contract after the other, and the chain's come together, and where
`orderly` is needed. A caught-up indexer has all events in `done`, and two readings
of the same last event agree (`ShowsOne`). The row's freshness ignores
releases, so it can lag by one.

A score is computed by `Confidence` from exact fractions, and so are the theorems
about it; what the code's doubles do is said under Scores.

## Findings

Each of the first five is what a run shows.

- **lapsedadmin** (`GrantsAuthorised`). `RoleManager.sol:10` says that every
  `onlyRole` check respects expiry. `grantRole` resets the expiry of the grant it is
  about before that check (line 63). DEFAULT_ADMIN is its own admin role, so a
  holder whose grant has lapsed passes it for that same grant. The
  operational roles are not affected (`OperationalGrantsAuthorised`).
- **nonce** (`NonceSingleUse`). `learn-these/SECURITY.md:30` promises a "single-use nonce
  in PostgreSQL with TTL", and line 11 lists nonce reuse among the threats. The
  login reads the row at `auth.ts:41` and marks it at line 76, several awaits later
  and without a condition; two logins that overlap both open a session.
- **queue** (`ReconciledIsRecorded`). `learn-these/DEMO.md:66` says that each queued item
  shows an accepted or rejected reason, and `UNDERSTANDING.md:136` that a decision is
  reconciled when the network returns. `reconnect` marks an item as reconciled after
  any JSON answer (`verifier-pwa/src/app/page.tsx:179`): after an expired session or a
  server error, the decision has no row and is never sent again.
- **order** (`DerivedMatchesChain`). `learn-these/SCHEMA.md:8` calls the tables "derived
  current-state tables updated by the indexer". A batch is handled one contract after the other
  (`index.ts:203`). A release in DivergenceRegistry's log is applied after an
  allocation or a new quarantine that followed it on the chain, and overwrites
  them in the `Asset` row.
- **lost** (`DerivedMatchesChain`). Against the same line: the event row is written before its side effects
  and outside a transaction (`index.ts:222-234`). When the tick fails in between,
  the retry meets the row's unique constraint and skips the side effects (line
  237).

Three more are read off single lines that the models translate, and have no run.

- `DivergenceRegistry.sol:16-17` says that a high-value release needs a Manager's
  proposal. Line 137 accepts any Admin as proposer as well, so two Admins
  suffice.
- Against `SCHEMA.md:8` again: both contracts emit `AssetReconciled`. AssetNFT's is handled
  first, has no confirmer, and resolves the `Divergence` row with its actor, the
  registry's own address (`index.ts:148`, `confirmerOf`); DivergenceRegistry's event,
  with the account that confirmed, then finds no unresolved row.
- `learn-these/DEMO.md:75-76` advances Anvil's time by three days with `evm_increaseTime` and
  says that freshness decay then lowers the score. The age is taken from the
  backend's clock (`assets.ts:31`), which does not move, and the score stays.

## What is left out

Inside the contracts: ERC-721 receiver callbacks and the reentrancy guard (all
accounts are externally owned), gas, the width of `uint64` times (no arithmetic on
them but a difference of two block times), the syntax of DID strings and
cryptography. A chain reorganisation cannot happen on the project's single-node
chain.

Of the backend: `GET /auth/me`, which decodes the token; `GET /offline/decisions` and
`GET /audit/events`, which list rows; the document store's `get`, which no route calls; a
credential's signature, which `verify` reports as valid always, and its expiry;
validation of inputs, except where a modelled client fails it. Of the audit: the
confidence, which is the score of the last observation with a window of seven
days whatever the asset's is.

Of the portal: the audit page, which only reads, layout and wording. Of the
service worker: the static pages. Seeding and the scripts, of which `demo-setup.ts`
gives the initial state of `Sessions`, and the unit tests and smoke scripts, which
were read for the intended behaviour.

`PROJECT.json` names these gaps per component.

## Plan

What is modelled is checked, and proved where the prover can. What would help to
keep it so are shorter proofs: the case splits over the transactions occur in
three modules for the asset contracts, and twice in `Indexer_proofs`.
