------------------------------- MODULE Views -------------------------------
(***************************************************************************)
(* The backend's public reads (backend/src/routes).  An answer is put       *)
(* together from several calls to the chain, and transactions run between   *)
(* two of them.  Reads of what never changes once written (an observation,  *)
(* say) are part of the step that finds it.  The chain dates its records by *)
(* the time of its blocks, and the backend takes their age by its own       *)
(* clock: either may be ahead of the other.                                 *)
(***************************************************************************)
EXTENDS Ledger, Confidence

CONSTANTS
  Tabs,    \* browser tabs
  Slots,   \* bound: the requests of a tab that can be in flight
  Window   \* freshnessWindow of every asset

ASSUME WindowAssumption == Window \in Nat

VARIABLES
  call,   \* per tab and slot, a fetch and the handler that serves it
  block,  \* number of transactions so far
  clock   \* the backend's Date.now(), in the unit of the chain's time

Idle == [at |-> "idle"]
NoEvidence == [tier |-> "IdentifierScan", at |-> 0]

\* A fetch of a public route.  from is history: the block when the handler
\* began; wrote is history: the block of the last write the tab knew done.
fetchOf(route, i, wrote) ==
  [at |-> "sent", route |-> route, of |-> i, upto |-> i, from |-> 0, wrote |-> wrote,
   begun |-> 0, best |-> 0, quarantined |-> FALSE, latest |-> NoEvidence,
   ids |-> {}, rows |-> <<>>, openId |-> 0]

becomes(t, s, c) == call' = [call EXCEPT ![t][s] = c]
received(t, s, routes) == call[t][s].at = "sent" /\ call[t][s].route \in routes
stage(t, s, step) == call[t][s].at = step
readOnly == UNCHANGED <<ledgerVars, block, clock>>

observationsOf(i) == {k \in 1..Len(observed) : observed[k].of = i}

-----------------------------------------------------------------------------
\* GET /assets: the number of assets, and then asset by asset.
list(t, s) ==
  /\ received(t, s, {"assets"})
  /\ becomes(t, s, [call[t][s] EXCEPT !.at = IF asset = <<>> THEN "ok" ELSE "getAsset",
                                      !.of = 1, !.upto = Len(asset), !.from = block])
  /\ readOnly

\* GET /assets/:tokenId.
single(t, s) ==
  /\ received(t, s, {"asset"})
  /\ becomes(t, s, [call[t][s] EXCEPT !.at = "getAsset", !.from = block])
  /\ readOnly

\* The score of asset i by the chain, and the backend's clock, as they stand.
latestOf(i) ==
  IF observationsOf(i) = {} THEN [tier |-> "IdentifierScan", at |-> asset[i].fresh]
  ELSE observed[CHOOSE k \in observationsOf(i) : \A j \in observationsOf(i) : j <= k]

exactScore(i) ==
  computeConfidence(latestOf(i).tier, latestOf(i).at, clock, Window, open[i] # 0)

\* The route's getAsset and confidenceForToken's are one step: the second is
\* used only for the time of an asset that has not been observed since.
\* getAsset reverts for an id that is not minted.
getAsset(t, s) ==
  LET c == call[t][s]  i == c.of IN
  /\ stage(t, s, "getAsset")
  /\ becomes(t, s, IF i \in minted
       THEN [c EXCEPT !.at = "attestationsOf", !.quarantined = asset[i].quarantined,
                      !.latest = [tier |-> "IdentifierScan", at |-> asset[i].fresh],
                      !.begun = block, !.best = exactScore(i)]
       ELSE [c EXCEPT !.at = "failed"])
  /\ readOnly

attestationsOf(t, s) ==
  LET c == call[t][s] IN
  /\ stage(t, s, "attestationsOf")
  /\ becomes(t, s, [c EXCEPT !.at = "openDivergenceOf",
       !.latest = IF observationsOf(c.of) = {} THEN @ ELSE latestOf(c.of)])
  /\ readOnly

\* best is history: the most the asset has scored while its row was read, or
\* anything if more than one transaction ran.
rowOf(c, hasOpenDivergence) ==
  [of |-> c.of, tier |-> c.latest.tier, hasOpenDivergence |-> hasOpenDivergence,
   score |-> computeConfidence(c.latest.tier, c.latest.at, clock, Window, hasOpenDivergence),
   best |-> IF block > c.begun + 1 THEN 100
            ELSE IF exactScore(c.of) > c.best THEN exactScore(c.of) ELSE c.best]

withRow(c, row) ==
  [c EXCEPT !.at = IF c.of = c.upto THEN "ok" ELSE "getAsset", !.of = @ + 1, !.rows = Append(@, row)]

\* Mutation: the flag that getAsset returned stands for the last read.
confidenceByFlag(t, s) ==
  /\ stage(t, s, "openDivergenceOf")
  /\ becomes(t, s, withRow(call[t][s], rowOf(call[t][s], call[t][s].quarantined)))
  /\ readOnly

\* The last read, the clock, and the score.
confidenceForToken(t, s) ==
  /\ stage(t, s, "openDivergenceOf")
  /\ becomes(t, s, withRow(call[t][s], rowOf(call[t][s], open[call[t][s].of] # 0)))
  /\ readOnly

-----------------------------------------------------------------------------
\* GET /divergence/asset/:tokenId: the ids, each record, and the open id last.
divergencesOf(t, s) ==
  LET c == call[t][s] IN
  /\ received(t, s, {"divergences"})
  /\ becomes(t, s, [c EXCEPT !.at = "getDivergence", !.from = block,
       !.ids = {d \in 1..Len(dispute) : dispute[d].of = c.of}])
  /\ readOnly

getDivergence(t, s) ==
  LET c == call[t][s] IN
  /\ stage(t, s, "getDivergence")
  /\ \E d \in c.ids :
       /\ \A other \in c.ids : d <= other
       /\ becomes(t, s, [c EXCEPT !.ids = @ \ {d},
            !.rows = Append(@, [id |-> d, resolved |-> dispute[d].resolved])])
  /\ readOnly

\* Mutation: the newest of the records is taken for the open one.
newestDivergence(t, s) ==
  LET c == call[t][s] IN
  /\ stage(t, s, "getDivergence") /\ c.ids = {}
  /\ becomes(t, s, [c EXCEPT !.at = "ok",
       !.openId = IF c.rows = <<>> THEN 0 ELSE c.rows[Len(c.rows)].id])
  /\ readOnly

openDivergenceOf(t, s) ==
  LET c == call[t][s] IN
  /\ stage(t, s, "getDivergence") /\ c.ids = {}
  /\ becomes(t, s, [c EXCEPT !.at = "ok", !.openId = open[c.of]])
  /\ readOnly

\* GET /attestations/asset/:tokenId: what it lists never changes.  GET
\* /roles/:address and /identity/:did read values the ledger does not have.
readOnce(t, s) ==
  /\ received(t, s, {"attestations", "role", "did"})
  /\ becomes(t, s, [call[t][s] EXCEPT !.at = "ok", !.from = block])
  /\ readOnly

ViewStep(t, s) ==
  \/ list(t, s)
  \/ single(t, s)
  \/ getAsset(t, s)
  \/ attestationsOf(t, s)
  \/ confidenceForToken(t, s)
  \/ divergencesOf(t, s)
  \/ getDivergence(t, s)
  \/ openDivergenceOf(t, s)
  \/ readOnce(t, s)
=============================================================================
