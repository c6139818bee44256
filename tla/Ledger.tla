------------------------------- MODULE Ledger -------------------------------
(***************************************************************************)
(* What the readers of the chain can see of it: assets, the observations    *)
(* recorded of them, and the divergences, without roles, signatures, or     *)
(* what the observations say.  AssetTrust implements it (ShowsLedger).      *)
(***************************************************************************)
EXTENDS Integers, Sequences

CONSTANTS AssetIds, EvidenceTiers

VARIABLES
  time,      \* block time
  asset,     \* AssetNFT: the minted assets, by id
  observed,  \* AttestationRegistry: the observations of all assets, by id
  dispute,   \* DivergenceRegistry: the records of all assets, by id
  open       \* per asset, 0 or the id of its open divergence

ledgerVars == <<time, asset, observed, dispute, open>>

LedgerInit ==
  /\ time = 0
  /\ asset = <<>>
  /\ observed = <<>>
  /\ dispute = <<>>
  /\ open = [t \in AssetIds |-> 0]

minted == 1..Len(asset)

Passes ==
  /\ time' = time + 1
  /\ UNCHANGED <<asset, observed, dispute, open>>

Minted(highValue) ==
  /\ Len(asset) + 1 \in AssetIds
  /\ asset' = Append(asset, [fresh |-> time, highValue |-> highValue, quarantined |-> FALSE])
  /\ UNCHANGED <<time, observed, dispute, open>>

\* One transaction records the observation, refreshes the asset, and opens a
\* divergence, which quarantines the asset, if the observation conflicts with
\* one before it and the asset has no open divergence.
Recorded(t, tier, conflicts) ==
  /\ t \in minted
  /\ conflicts => open[t] = 0 /\ \E i \in 1..Len(observed) : observed[i].of = t
  /\ observed' = Append(observed, [of |-> t, tier |-> tier, at |-> time])
  /\ asset' = [asset EXCEPT ![t].fresh = time, ![t].quarantined = @ \/ conflicts]
  /\ IF conflicts
     THEN /\ dispute' = Append(dispute, [of |-> t, pending |-> FALSE, resolved |-> FALSE])
          /\ open' = [open EXCEPT ![t] = Len(dispute')]
     ELSE UNCHANGED <<dispute, open>>
  /\ UNCHANGED time

unresolved(d) == d \in 1..Len(dispute) /\ ~dispute[d].resolved

Settled(d) ==
  /\ dispute' = [dispute EXCEPT ![d].pending = FALSE, ![d].resolved = TRUE]
  /\ open' = [open EXCEPT ![dispute[d].of] = 0]
  /\ asset' = [asset EXCEPT ![dispute[d].of].fresh = time, ![dispute[d].of].quarantined = FALSE]
  /\ UNCHANGED <<time, observed>>

Proposed(d) ==
  /\ unresolved(d) /\ ~dispute[d].pending
  /\ IF asset[dispute[d].of].highValue
     THEN /\ dispute' = [dispute EXCEPT ![d].pending = TRUE]
          /\ UNCHANGED <<time, asset, observed, open>>
     ELSE Settled(d)

Confirmed(d) ==
  /\ unresolved(d) /\ dispute[d].pending
  /\ Settled(d)

LedgerNext ==
  \/ Passes
  \/ \E highValue \in BOOLEAN : Minted(highValue)
  \/ \E t \in AssetIds, tier \in EvidenceTiers, conflicts \in BOOLEAN : Recorded(t, tier, conflicts)
  \/ \E d \in 1..Len(dispute) : Proposed(d) \/ Confirmed(d)

LedgerSpec == LedgerInit /\ [][LedgerNext]_ledgerVars
=============================================================================
