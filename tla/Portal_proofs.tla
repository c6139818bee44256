---------------------------- MODULE Portal_proofs ----------------------------
(***************************************************************************)
(* Proofs about Portal: the scores and the lists that a page is shown, its  *)
(* own writes, and the account a write goes out for, with any number of     *)
(* tabs, of requests in flight, of accounts and of transactions.            *)
(***************************************************************************)
EXTENDS Portal, TLAPS

-----------------------------------------------------------------------------
\* A score is a division, rounded down.
LEMMA Division ==
  ASSUME NEW a \in Nat, NEW d \in Nat, d > 0
  PROVE  /\ a \div d \in Nat
         /\ d * (a \div d) <= a
         /\ \A q \in Nat : (d * q <= a <=> q <= a \div d)
OBVIOUS

LEMMA DivisionMonotone ==
  ASSUME NEW a \in Nat, NEW b \in Nat, a <= b, NEW d \in Nat, d > 0
  PROVE  a \div d <= b \div d
<1>1. d * (a \div d) <= a /\ a \div d \in Nat
  BY Division
<1>2. d * (a \div d) <= b
  BY <1>1
<1>. QED
  BY <1>1, <1>2, Division

\* What a score is before the decay: at most 100.
Weights == {4, 10, 40, 100}
weight(tier, hasOpenDivergence) ==
  EVIDENCE_WEIGHT[tier] * divergencePenalty(hasOpenDivergence)

LEMMA WeightsAre ==
  ASSUME NEW tier \in Tiers, NEW f \in BOOLEAN
  PROVE  weight(tier, f) \in Weights /\ weight(tier, TRUE) <= weight(tier, f)
BY DEF weight, Weights, Tiers, EVIDENCE_WEIGHT, divergencePenalty

\* The decay is a fraction between a fifth and one.
LEMMA DecayRange ==
  ASSUME NEW age \in Nat, NEW window \in Nat
  PROVE  \E n, d \in Nat : /\ freshnessDecay(age, window) = <<n, d>>
                           /\ 0 < d /\ n <= d /\ d <= 5 * n
<1>1. CASE window = 0
  BY <1>1 DEF freshnessDecay, FRESHNESS_FLOOR
<1>2. CASE window > 0 /\ age = 0
  BY <1>2 DEF freshnessDecay
<1>3. CASE window > 0 /\ age >= window
  BY <1>3 DEF freshnessDecay, FRESHNESS_FLOOR
<1>4. CASE window > 0 /\ age > 0 /\ age < window
  <2>1. freshnessDecay(age, window) = <<5 * window - 4 * age, 5 * window>>
    BY <1>4 DEF freshnessDecay
  <2>2. 5 * window - 4 * age \in Nat /\ 5 * window \in Nat
    BY <1>4
  <2>. QED
    BY <1>4, <2>1, <2>2
<1>. QED
  BY <1>1, <1>2, <1>3, <1>4

LEMMA RoundBand ==
  ASSUME NEW m \in Weights, NEW n \in Nat, NEW d \in Nat, 0 < d, n <= d, d <= 5 * n
  PROVE  round(m * n, d) \in Nat /\ round(m, 5) <= round(m * n, d) /\ round(m * n, d) <= m
<1>1. 2 * (4 * n) + d \in Nat /\ 2 * (10 * n) + d \in Nat /\ 2 * (40 * n) + d \in Nat
      /\ 2 * (100 * n) + d \in Nat /\ 2 * d \in Nat /\ 2 * d > 0
  OBVIOUS
<1>2. CASE m = 4
  <2>1. round(m * n, d) = (2 * (4 * n) + d) \div (2 * d) /\ round(m, 5) = 1
    BY <1>2 DEF round
  <2>2. (2 * d) * 1 <= 2 * (4 * n) + d /\ ~ (2 * d) * 5 <= 2 * (4 * n) + d
    OBVIOUS
  <2>3. /\ (2 * (4 * n) + d) \div (2 * d) \in Nat
        /\ 1 <= (2 * (4 * n) + d) \div (2 * d) /\ ~ 5 <= (2 * (4 * n) + d) \div (2 * d)
    BY <1>1, <2>2, Division
  <2>. QED
    BY <1>2, <2>1, <2>3
<1>3. CASE m = 10
  <2>1. round(m * n, d) = (2 * (10 * n) + d) \div (2 * d) /\ round(m, 5) = 2
    BY <1>3 DEF round
  <2>2. (2 * d) * 2 <= 2 * (10 * n) + d /\ ~ (2 * d) * 11 <= 2 * (10 * n) + d
    OBVIOUS
  <2>3. /\ (2 * (10 * n) + d) \div (2 * d) \in Nat
        /\ 2 <= (2 * (10 * n) + d) \div (2 * d) /\ ~ 11 <= (2 * (10 * n) + d) \div (2 * d)
    BY <1>1, <2>2, Division
  <2>. QED
    BY <1>3, <2>1, <2>3
<1>4. CASE m = 40
  <2>1. round(m * n, d) = (2 * (40 * n) + d) \div (2 * d) /\ round(m, 5) = 8
    BY <1>4 DEF round
  <2>2. (2 * d) * 8 <= 2 * (40 * n) + d /\ ~ (2 * d) * 41 <= 2 * (40 * n) + d
    OBVIOUS
  <2>3. /\ (2 * (40 * n) + d) \div (2 * d) \in Nat
        /\ 8 <= (2 * (40 * n) + d) \div (2 * d) /\ ~ 41 <= (2 * (40 * n) + d) \div (2 * d)
    BY <1>1, <2>2, Division
  <2>. QED
    BY <1>4, <2>1, <2>3
<1>5. CASE m = 100
  <2>1. round(m * n, d) = (2 * (100 * n) + d) \div (2 * d) /\ round(m, 5) = 20
    BY <1>5 DEF round
  <2>2. (2 * d) * 20 <= 2 * (100 * n) + d /\ ~ (2 * d) * 101 <= 2 * (100 * n) + d
    OBVIOUS
  <2>3. /\ (2 * (100 * n) + d) \div (2 * d) \in Nat
        /\ 20 <= (2 * (100 * n) + d) \div (2 * d) /\ ~ 101 <= (2 * (100 * n) + d) \div (2 * d)
    BY <1>1, <2>2, Division
  <2>. QED
    BY <1>5, <2>1, <2>3
<1>. QED
  BY <1>2, <1>3, <1>4, <1>5 DEF Weights

\* The product of the weight and the decay, rounded.
decayed(m, age, window) ==
  round(m * freshnessDecay(age, window)[1], freshnessDecay(age, window)[2])

LEMMA DecayedBand ==
  ASSUME NEW m \in Weights, NEW age \in Nat, NEW window \in Nat
  PROVE  /\ decayed(m, age, window) \in Nat
         /\ round(m, 5) <= decayed(m, age, window) /\ decayed(m, age, window) <= m
<1>1. PICK n, d \in Nat : /\ freshnessDecay(age, window) = <<n, d>>
                          /\ 0 < d /\ n <= d /\ d <= 5 * n
  BY DecayRange
<1>2. decayed(m, age, window) = round(m * n, d)
  BY <1>1 DEF decayed
<1>. QED
  BY <1>1, <1>2, RoundBand

\* It falls with the age, and with the weight.
LEMMA RoundMonotone ==
  ASSUME NEW m \in Weights, NEW n \in Nat, NEW more \in Nat, n <= more, NEW d \in Nat, 0 < d
  PROVE  round(m * n, d) <= round(m * more, d)
<1>1. m \in Nat
  BY DEF Weights
<1>2. m * n \in Nat /\ m * more \in Nat /\ m * n <= m * more
  BY DEF Weights
<1>. DEFINE a == 2 * (m * n) + d
            b == 2 * (m * more) + d
<1>3. a \in Nat /\ b \in Nat /\ a <= b /\ 2 * d \in Nat /\ 2 * d > 0
  BY <1>2
<1>. HIDE DEF a, b
<1>4. a \div (2 * d) <= b \div (2 * d)
  BY <1>3, DivisionMonotone
<1>. QED
  BY <1>4 DEF a, b, round

LEMMA DecayedFalls ==
  ASSUME NEW m \in Weights, NEW age \in Nat, NEW later \in Nat, age <= later, NEW window \in Nat
  PROVE  decayed(m, later, window) <= decayed(m, age, window)
<1>1. CASE window = 0 \/ later = age
  BY <1>1, DecayedBand DEF decayed, freshnessDecay
<1>2. CASE window > 0 /\ age = 0
  <2>1. freshnessDecay(age, window) = <<1, 1>>
    BY <1>2 DEF freshnessDecay
  <2>2. decayed(m, age, window) = m
    BY <2>1 DEF decayed, round, Weights
  <2>. QED
    BY <2>2, DecayedBand
<1>3. CASE window > 0 /\ later >= window
  <2>1. freshnessDecay(later, window) = <<1, 5>>
    BY <1>3 DEF freshnessDecay, FRESHNESS_FLOOR
  <2>2. decayed(m, later, window) = round(m, 5)
    BY <2>1 DEF decayed, Weights
  <2>. QED
    BY <2>2, DecayedBand
<1>4. CASE window > 0 /\ age > 0 /\ later < window
  <2>. DEFINE n == 5 * window - 4 * later
              more == 5 * window - 4 * age
              d == 5 * window
  <2>1. freshnessDecay(age, window) = <<more, d>> /\ freshnessDecay(later, window) = <<n, d>>
    BY <1>4 DEF freshnessDecay
  <2>2. n \in Nat /\ more \in Nat /\ n <= more /\ d \in Nat /\ 0 < d
    BY <1>4
  <2>. HIDE DEF n, more, d
  <2>3. round(m * n, d) <= round(m * more, d)
    BY <2>2, RoundMonotone
  <2>. QED
    BY <2>1, <2>3 DEF decayed
<1>. QED
  BY <1>1, <1>2, <1>3, <1>4

LEMMA DecayedByWeight ==
  ASSUME NEW m \in Weights, NEW more \in Weights, m <= more, NEW age \in Nat, NEW window \in Nat
  PROVE  decayed(m, age, window) <= decayed(more, age, window)
<1>1. PICK n, d \in Nat : /\ freshnessDecay(age, window) = <<n, d>>
                          /\ 0 < d /\ n <= d /\ d <= 5 * n
  BY DecayRange
<1>2. decayed(m, age, window) = round(m * n, d) /\ decayed(more, age, window) = round(more * n, d)
  BY <1>1 DEF decayed
<1>3. m * n \in Nat /\ more * n \in Nat /\ m * n <= more * n
  BY DEF Weights
<1>. DEFINE a == 2 * (m * n) + d
            b == 2 * (more * n) + d
<1>4. a \in Nat /\ b \in Nat /\ a <= b /\ 2 * d \in Nat /\ 2 * d > 0
  BY <1>1, <1>3
<1>. HIDE DEF a, b
<1>5. a \div (2 * d) <= b \div (2 * d)
  BY <1>4, DivisionMonotone
<1>. QED
  BY <1>2, <1>5 DEF a, b, round

\* So a score lies in its band, falls with time, and is lower with a divergence.
LEMMA ScoreBand ==
  ASSUME NEW tier \in Tiers, NEW at \in Nat, NEW now \in Nat, NEW window \in Nat, NEW f \in BOOLEAN
  PROVE  /\ computeConfidence(tier, at, now, window, f) \in Nat
         /\ round(weight(tier, f), 5) <= computeConfidence(tier, at, now, window, f)
         /\ computeConfidence(tier, at, now, window, f) <= weight(tier, f)
         /\ computeConfidence(tier, at, now, window, f) <= 100
<1>1. ageSeconds(now, at) \in Nat
  BY DEF ageSeconds
<1>2. computeConfidence(tier, at, now, window, f) = decayed(weight(tier, f), ageSeconds(now, at), window)
  BY DEF computeConfidence, decayed, weight
<1>3. weight(tier, f) \in Weights
  BY WeightsAre
<1>. HIDE DEF weight
<1>4. weight(tier, f) <= 100 /\ weight(tier, f) \in Nat
  BY <1>3 DEF Weights
<1>5. /\ decayed(weight(tier, f), ageSeconds(now, at), window) \in Nat
      /\ round(weight(tier, f), 5) <= decayed(weight(tier, f), ageSeconds(now, at), window)
      /\ decayed(weight(tier, f), ageSeconds(now, at), window) <= weight(tier, f)
  BY <1>1, <1>3, DecayedBand
<1>. QED
  BY <1>2, <1>4, <1>5

LEMMA ScoreFalls ==
  ASSUME NEW tier \in Tiers, NEW at \in Nat, NEW now \in Nat, NEW later \in Nat, now <= later,
         NEW window \in Nat, NEW f \in BOOLEAN, NEW g \in BOOLEAN, f => g
  PROVE  computeConfidence(tier, at, later, window, g) <= computeConfidence(tier, at, now, window, f)
<1>1. ageSeconds(now, at) \in Nat /\ ageSeconds(later, at) \in Nat
      /\ ageSeconds(now, at) <= ageSeconds(later, at)
  BY DEF ageSeconds
<1>2. weight(tier, f) \in Weights /\ weight(tier, g) \in Weights /\ weight(tier, g) <= weight(tier, f)
  <2>1. weight(tier, f) \in Weights /\ weight(tier, g) \in Weights
    BY WeightsAre
  <2>2. CASE g = TRUE
    BY <2>1, <2>2, WeightsAre
  <2>3. CASE g = FALSE
    <3>1. f = g
      BY <2>3
    <3>2. weight(tier, f) = weight(tier, g)
      BY <3>1 DEF weight, divergencePenalty
    <3>. QED
      BY <2>1, <3>2 DEF Weights
  <2>. QED
    BY <2>1, <2>2, <2>3
<1>3. /\ computeConfidence(tier, at, later, window, g)
           = decayed(weight(tier, g), ageSeconds(later, at), window)
      /\ computeConfidence(tier, at, now, window, f)
           = decayed(weight(tier, f), ageSeconds(now, at), window)
  BY DEF computeConfidence, decayed, weight
<1>4. decayed(weight(tier, g), ageSeconds(later, at), window)
        <= decayed(weight(tier, f), ageSeconds(later, at), window)
  BY <1>1, <1>2, DecayedByWeight
<1>5. decayed(weight(tier, f), ageSeconds(later, at), window)
        <= decayed(weight(tier, f), ageSeconds(now, at), window)
  BY <1>1, <1>2, DecayedFalls
<1>6. /\ decayed(weight(tier, g), ageSeconds(later, at), window) \in Nat
      /\ decayed(weight(tier, f), ageSeconds(later, at), window) \in Nat
      /\ decayed(weight(tier, f), ageSeconds(now, at), window) \in Nat
  BY <1>1, <1>2, DecayedBand
<1>. QED
  BY <1>3, <1>4, <1>5, <1>6

-----------------------------------------------------------------------------
\* The ledger: an open divergence is the newest of its asset, the only one not
\* resolved, and no divergence is without an observation.
Asset       == [fresh : Nat, highValue : BOOLEAN, quarantined : BOOLEAN]
Evidence    == [tier : Tiers, at : Nat]
Observation == [of : Nat, tier : Tiers, at : Nat]
Dispute     == [of : Nat, pending : BOOLEAN, resolved : BOOLEAN]

LedgerTyped ==
  /\ time \in Nat
  /\ asset \in Seq(Asset) /\ minted \subseteq AssetIds
  /\ observed \in Seq(Observation)
  /\ dispute \in Seq(Dispute)
  /\ open \in [AssetIds -> Nat]

DisputeSound(d) ==
  /\ dispute[d].of \in minted
  /\ observationsOf(dispute[d].of) # {}
  /\ open[dispute[d].of] # 0 => d <= open[dispute[d].of]
  /\ ~dispute[d].resolved => open[dispute[d].of] = d

AssetSound(i) ==
  /\ open[i] # 0 => /\ open[i] \in 1..Len(dispute)
                    /\ dispute[open[i]].of = i /\ ~dispute[open[i]].resolved
  /\ observationsOf(i) # {} => \E k \in observationsOf(i) : \A j \in observationsOf(i) : j <= k

LedgerSound ==
  /\ LedgerTyped
  /\ \A d \in 1..Len(dispute) : DisputeSound(d)
  /\ \A i \in AssetIds : AssetSound(i)

\* What a transaction does to what was read before it: the evidence is as it
\* was, or there is newer evidence and the divergence that was open still is.
Aged(i) ==
  \/ latestOf(i)' = latestOf(i) /\ (observationsOf(i)' = {} => observationsOf(i) = {})
  \/ observationsOf(i)' # {} /\ (open[i] # 0 => open'[i] # 0)

Grows ==
  /\ time' = time
  /\ minted \subseteq minted'
  /\ \A i \in minted : Aged(i)
  /\ \A d \in 1..Len(dispute) : /\ d \in 1..Len(dispute') /\ dispute'[d].of = dispute[d].of
                                /\ dispute[d].resolved => dispute'[d].resolved

\* A transaction, as Portal has them.
Moves ==
  \/ UNCHANGED ledgerVars
  \/ \E highValue \in BOOLEAN : Minted(highValue)
  \/ \E i \in Nat, tier \in Tiers, conflicts \in BOOLEAN : Recorded(i, tier, conflicts)
  \/ \E d \in 1..Len(dispute) : Proposed(d) \/ Confirmed(d)

LEMMA EffectMoves ==
  ASSUME NEW kind, NEW i \in Nat, effectOf(kind, i)
  PROVE  Moves
<1>1. CASE kind = "mint"
  BY <1>1 DEF effectOf, Moves
<1>2. CASE kind = "attest"
  BY <1>2 DEF effectOf, Moves
<1>3. CASE kind \in {"propose", "confirm"}
  BY <1>3 DEF effectOf, Moves
<1>4. CASE kind \notin {"mint", "attest", "propose", "confirm"}
  BY <1>4 DEF effectOf, Moves
<1>. QED
  BY <1>1, <1>2, <1>3, <1>4

LEMMA OneReplaced ==
  ASSUME NEW S, NEW q \in Seq(S), NEW i \in 1..Len(q), NEW v \in S
  PROVE  LET p == [q EXCEPT ![i] = v] IN
         p \in Seq(S) /\ Len(p) = Len(q) /\ p[i] = v /\ \A j \in 1..Len(q) \ {i} : p[j] = q[j]
OBVIOUS

LEMMA LatestKept ==
  ASSUME LedgerSound, NEW i \in minted, observationsOf(i)' = observationsOf(i),
         \A k \in observationsOf(i) : observed'[k] = observed[k],
         observationsOf(i) = {} => asset'[i].fresh = asset[i].fresh
  PROVE  latestOf(i)' = latestOf(i)
<1>1. CASE observationsOf(i) = {}
  BY <1>1 DEF latestOf
<1>2. CASE observationsOf(i) # {}
  <2>. DEFINE S == observationsOf(i)
              k == CHOOSE m \in S : \A j \in S : j <= m
  <2>1. k \in S
    BY <1>2 DEF LedgerSound, LedgerTyped, AssetSound
  <2>2. latestOf(i) = observed[k]
    BY <1>2 DEF latestOf
  <2>3. latestOf(i)' = observed'[k]
    BY <1>2 DEF latestOf
  <2>. QED
    BY <2>1, <2>2, <2>3
<1>. QED
  BY <1>1, <1>2

LEMMA MintMoves ==
  ASSUME LedgerSound, NEW highValue \in BOOLEAN, Minted(highValue)
  PROVE  LedgerSound' /\ Grows
<1>. DEFINE new == [fresh |-> time, highValue |-> highValue, quarantined |-> FALSE]
<1>1. /\ asset' = Append(asset, new) /\ Len(asset) + 1 \in AssetIds /\ new \in Asset
      /\ time' = time /\ observed' = observed /\ dispute' = dispute /\ open' = open
  BY DEF Minted, LedgerSound, LedgerTyped, Asset
<1>2. asset \in Seq(Asset)
  BY DEF LedgerSound, LedgerTyped
<1>3. asset' \in Seq(Asset) /\ Len(asset') = Len(asset) + 1
      /\ \A i \in minted : asset'[i] = asset[i]
  BY <1>1, <1>2 DEF minted
<1>4. minted \subseteq minted' /\ minted' = minted \cup {Len(asset) + 1} /\ Len(asset) + 1 \notin minted
  BY <1>2, <1>3 DEF minted
<1>5. \A i : observationsOf(i)' = observationsOf(i)
  BY <1>1 DEF observationsOf
<1>6. \A i \in minted : Aged(i)
  BY <1>1, <1>3, <1>5, LatestKept DEF Aged
<1>7. LedgerTyped'
  BY <1>1, <1>3, <1>4 DEF LedgerSound, LedgerTyped
<1>8. \A d \in 1..Len(dispute) : DisputeSound(d)'
  BY <1>1, <1>4, <1>5 DEF LedgerSound, DisputeSound
<1>9. \A i \in AssetIds : AssetSound(i)'
  BY <1>1, <1>5 DEF LedgerSound, AssetSound
<1>. QED
  BY <1>1, <1>4, <1>6, <1>7, <1>8, <1>9 DEF LedgerSound, Grows

LEMMA RecordMoves ==
  ASSUME LedgerSound, NEW t \in Nat, NEW tier \in Tiers, NEW conflicts \in BOOLEAN,
         Recorded(t, tier, conflicts)
  PROVE  LedgerSound' /\ Grows
<1>. DEFINE new == [of |-> t, tier |-> tier, at |-> time]
            n == Len(observed) + 1
            case == [of |-> t, pending |-> FALSE, resolved |-> FALSE]
            m == Len(dispute) + 1
<1>1. LedgerTyped
  BY DEF LedgerSound
<1>2. /\ t \in minted /\ observed' = Append(observed, new) /\ new \in Observation
      /\ asset' = [asset EXCEPT ![t].fresh = time, ![t].quarantined = @ \/ conflicts]
      /\ time' = time
  BY <1>1 DEF Recorded, LedgerTyped, Observation
<1>3. observed' \in Seq(Observation) /\ Len(observed') = n
      /\ observed'[n] = new /\ \A k \in 1..Len(observed) : observed'[k] = observed[k]
  BY <1>1, <1>2 DEF LedgerTyped
<1>4. asset' \in Seq(Asset) /\ Len(asset') = Len(asset)
      /\ \A i \in minted \ {t} : asset'[i] = asset[i]
  <2>1. asset[t] \in Asset
    BY <1>1, <1>2 DEF LedgerTyped, minted
  <2>2. [[asset[t] EXCEPT !.fresh = time] EXCEPT !.quarantined = @ \/ conflicts] \in Asset
    BY <1>1, <2>1 DEF LedgerTyped, Asset
  <2>3. asset' = [asset EXCEPT ![t] = [[asset[t] EXCEPT !.fresh = time] EXCEPT !.quarantined = @ \/ conflicts]]
    BY <1>1, <1>2, <2>1 DEF LedgerTyped, Asset, minted
  <2>4. t \in 1..Len(asset) /\ asset \in Seq(Asset)
    BY <1>1, <1>2 DEF LedgerTyped, minted
  <2>. QED
    BY <2>2, <2>3, <2>4, OneReplaced DEF minted
<1>5. minted' = minted
  BY <1>4 DEF minted
<1>6. observationsOf(t)' = observationsOf(t) \cup {n}
  BY <1>1, <1>3 DEF observationsOf, LedgerTyped
<1>7. \A i : i # t => observationsOf(i)' = observationsOf(i)
  <2>. SUFFICES ASSUME NEW i, i # t PROVE observationsOf(i)' = observationsOf(i)
    OBVIOUS
  <2>1. 1..Len(observed') = 1..Len(observed) \cup {n}
    BY <1>1, <1>3 DEF LedgerTyped
  <2>2. observed'[n].of # i
    BY <1>3
  <2>. HIDE DEF new
  <2>. QED
    BY <1>3, <2>1, <2>2 DEF observationsOf
<1>8. /\ \A i : observationsOf(i) \subseteq 1..Len(observed)
      /\ \A i : observationsOf(i) # {} => observationsOf(i)' # {}
  BY <1>6, <1>7 DEF observationsOf
<1>9. n \in observationsOf(t)' /\ \A j \in observationsOf(t)' : j <= n
  BY <1>1, <1>6, <1>8 DEF LedgerTyped
<1>10. /\ dispute' \in Seq(Dispute) /\ Len(dispute) <= Len(dispute')
       /\ \A d \in 1..Len(dispute) : d \in 1..Len(dispute') /\ dispute'[d] = dispute[d]
       /\ open' \in [AssetIds -> Nat]
  <2>1. CASE conflicts
    <3>1. dispute' = Append(dispute, case) /\ open' = [open EXCEPT ![t] = Len(dispute')]
      BY <2>1 DEF Recorded
    <3>2. dispute \in Seq(Dispute) /\ case \in Dispute /\ open \in [AssetIds -> Nat]
      BY <1>1, <1>2 DEF LedgerTyped, Dispute
    <3>3. dispute' \in Seq(Dispute) /\ Len(dispute') = Len(dispute) + 1
          /\ \A d \in 1..Len(dispute) : dispute'[d] = dispute[d]
      BY <3>1, <3>2
    <3>4. Len(dispute) \in Nat /\ Len(dispute') \in Nat
      BY <3>2, <3>3
    <3>5. \A d \in 1..Len(dispute) : d \in 1..Len(dispute')
      BY <3>3, <3>4
    <3>6. open' \in [AssetIds -> Nat]
      BY <3>1, <3>2, <3>4
    <3>. QED
      BY <3>3, <3>4, <3>5, <3>6
  <2>2. CASE ~conflicts
    BY <1>1, <2>2 DEF Recorded, LedgerTyped
  <2>. QED
    BY <2>1, <2>2
<1>11. LedgerTyped'
  BY <1>1, <1>2, <1>3, <1>4, <1>5, <1>10 DEF LedgerTyped
<1>12. \A i \in minted : Aged(i)
  <2>. TAKE i \in minted
  <2>1. CASE i = t
    <3>1. open[t] # 0 => open'[t] # 0
      BY <1>1, <1>2 DEF Recorded, LedgerTyped
    <3>. QED
      BY <2>1, <3>1, <1>9 DEF Aged
  <2>2. CASE i # t
    <3>1. latestOf(i)' = latestOf(i)
      BY <1>3, <1>4, <1>7, <1>8, <2>2, LatestKept
    <3>. QED
      BY <3>1, <1>7, <2>2 DEF Aged
  <2>. QED
    BY <2>1, <2>2
<1>13. Grows
  BY <1>2, <1>5, <1>10, <1>12 DEF Grows
<1>14. \A i \in AssetIds :
         observationsOf(i)' # {} => \E k \in observationsOf(i)' : \A j \in observationsOf(i)' : j <= k
  <2>. TAKE i \in AssetIds
  <2>1. CASE i = t
    BY <2>1, <1>9
  <2>2. CASE i # t
    BY <2>2, <1>7 DEF LedgerSound, AssetSound
  <2>. QED
    BY <2>1, <2>2
<1>15. CASE ~conflicts
  <2>1. dispute' = dispute /\ open' = open
    BY <1>15 DEF Recorded
  <2>2. \A d \in 1..Len(dispute') : DisputeSound(d)'
    BY <2>1, <1>5, <1>8 DEF LedgerSound, DisputeSound
  <2>3. \A i \in AssetIds : AssetSound(i)'
    BY <2>1, <1>14 DEF LedgerSound, AssetSound
  <2>. QED
    BY <1>11, <1>13, <2>2, <2>3 DEF LedgerSound
<1>16. CASE conflicts
  <2>1. dispute' = Append(dispute, case) /\ open[t] = 0
    BY <1>16 DEF Recorded
  <2>2. Len(dispute') = m /\ dispute'[m] = case /\ m \in Nat
    BY <1>1, <2>1 DEF LedgerTyped
  <2>3. open' = [open EXCEPT ![t] = m] /\ t \in AssetIds
    BY <1>1, <1>2, <1>16, <2>2 DEF Recorded, LedgerTyped
  <2>4. open'[t] = m /\ \A i \in AssetIds \ {t} : open'[i] = open[i]
    BY <1>1, <2>3 DEF LedgerTyped
  <2>5. ASSUME NEW d \in 1..Len(dispute') PROVE DisputeSound(d)'
    <3>1. CASE d = m
      BY <3>1, <2>2, <2>4, <1>2, <1>5, <1>9 DEF DisputeSound
    <3>2. CASE d # m
      <4>1. d \in 1..Len(dispute) /\ dispute'[d] = dispute[d] /\ DisputeSound(d)
        BY <3>2, <2>2, <1>10 DEF LedgerSound
      <4>2. dispute[d].of \in minted /\ dispute[d].of \in AssetIds
        BY <4>1, <1>1 DEF DisputeSound, LedgerTyped
      <4>3. CASE dispute[d].of = t
        <5>1. dispute[d].resolved /\ d <= m
          BY <4>1, <4>3, <2>1, <2>2 DEF DisputeSound
        <5>. QED
          BY <4>1, <4>3, <5>1, <2>4, <1>5, <1>8 DEF DisputeSound
      <4>4. CASE dispute[d].of # t
        BY <4>1, <4>2, <4>4, <2>4, <1>5, <1>8 DEF DisputeSound
      <4>. QED
        BY <4>3, <4>4
    <3>. QED
      BY <3>1, <3>2
  <2>6. ASSUME NEW i \in AssetIds PROVE AssetSound(i)'
    <3>1. CASE i = t
      <4>1. open'[i] \in 1..Len(dispute') /\ dispute'[open'[i]].of = i /\ ~dispute'[open'[i]].resolved
        BY <3>1, <2>2, <2>4
      <4>. QED
        BY <4>1, <1>14 DEF AssetSound
    <3>2. CASE i # t
      <4>1. open'[i] = open[i] /\ AssetSound(i)
        BY <3>2, <2>4 DEF LedgerSound
      <4>2. open[i] # 0 => open[i] \in 1..Len(dispute') /\ dispute'[open[i]] = dispute[open[i]]
        BY <4>1, <1>10 DEF AssetSound
      <4>. QED
        BY <4>1, <4>2, <1>14 DEF AssetSound
    <3>. QED
      BY <3>1, <3>2
  <2>. QED
    BY <1>11, <1>13, <2>5, <2>6 DEF LedgerSound
<1>. QED
  BY <1>15, <1>16

\* A proposal that waits for its confirmation.
LEMMA PendingMoves ==
  ASSUME LedgerSound, NEW d \in 1..Len(dispute), dispute' = [dispute EXCEPT ![d].pending = TRUE],
         UNCHANGED <<time, asset, observed, open>>
  PROVE  LedgerSound' /\ Grows
<1>1. LedgerTyped
  BY DEF LedgerSound
<1>2. /\ dispute' \in Seq(Dispute) /\ Len(dispute') = Len(dispute)
      /\ \A e \in 1..Len(dispute) : /\ dispute'[e].of = dispute[e].of
                                    /\ dispute'[e].resolved = dispute[e].resolved
  <2>1. dispute \in Seq(Dispute) /\ dispute[d] \in Dispute
    BY <1>1 DEF LedgerTyped
  <2>2. dispute' = [dispute EXCEPT ![d] = [dispute[d] EXCEPT !.pending = TRUE]]
    BY <2>1
  <2>3. [dispute[d] EXCEPT !.pending = TRUE] \in Dispute
    BY <2>1 DEF Dispute
  <2>. QED
    BY <2>1, <2>2, <2>3 DEF Dispute
<1>3. minted' = minted /\ \A i : observationsOf(i)' = observationsOf(i)
  BY DEF minted, observationsOf
<1>4. LedgerTyped'
  BY <1>1, <1>2, <1>3 DEF LedgerTyped
<1>5. \A e \in 1..Len(dispute') : DisputeSound(e)'
  BY <1>2, <1>3 DEF LedgerSound, DisputeSound
<1>6. \A i \in AssetIds : AssetSound(i)'
  BY <1>2, <1>3 DEF LedgerSound, AssetSound
<1>7. \A i \in minted : Aged(i)
  BY <1>3, LatestKept DEF Aged
<1>. QED
  BY <1>2, <1>3, <1>4, <1>5, <1>6, <1>7 DEF LedgerSound, Grows

LEMMA SettledMoves ==
  ASSUME LedgerSound, NEW d \in 1..Len(dispute), unresolved(d), Settled(d)
  PROVE  LedgerSound' /\ Grows
<1>. DEFINE t == dispute[d].of
<1>1. LedgerTyped /\ dispute \in Seq(Dispute) /\ dispute[d] \in Dispute /\ asset \in Seq(Asset)
  BY DEF LedgerSound, LedgerTyped
<1>2. /\ t \in minted /\ t \in AssetIds /\ observationsOf(t) # {} /\ open[t] = d
      /\ ~dispute[d].resolved
  BY <1>1 DEF LedgerSound, DisputeSound, LedgerTyped, unresolved
<1>3. /\ dispute' \in Seq(Dispute) /\ Len(dispute') = Len(dispute)
      /\ \A e \in 1..Len(dispute) : /\ dispute'[e].of = dispute[e].of
                                    /\ dispute'[e].resolved <=> dispute[e].resolved \/ e = d
  <2>1. dispute' = [dispute EXCEPT ![d] = [[dispute[d] EXCEPT !.pending = FALSE] EXCEPT !.resolved = TRUE]]
    BY <1>1 DEF Settled
  <2>2. [[dispute[d] EXCEPT !.pending = FALSE] EXCEPT !.resolved = TRUE] \in Dispute
    BY <1>1 DEF Dispute
  <2>3. PICK v : v = [[dispute[d] EXCEPT !.pending = FALSE] EXCEPT !.resolved = TRUE]
    OBVIOUS
  <2>4. /\ dispute' \in Seq(Dispute) /\ Len(dispute') = Len(dispute) /\ dispute'[d] = v
        /\ \A e \in 1..Len(dispute) \ {d} : dispute'[e] = dispute[e]
    <3>1. v \in Dispute /\ dispute' = [dispute EXCEPT ![d] = v]
      BY <2>1, <2>2, <2>3
    <3>. QED
      BY <1>1, <3>1, OneReplaced
  <2>5. dispute'[d].of = dispute[d].of /\ dispute'[d].resolved = TRUE
    BY <1>1, <2>3, <2>4 DEF Dispute
  <2>6. ASSUME NEW e \in 1..Len(dispute), e # d
        PROVE  dispute'[e].of = dispute[e].of /\ dispute'[e].resolved = dispute[e].resolved
    BY <2>4, <2>6
  <2>7. ASSUME NEW e \in 1..Len(dispute)
        PROVE  dispute'[e].of = dispute[e].of
               /\ (dispute'[e].resolved <=> dispute[e].resolved \/ e = d)
    BY <2>5, <2>6
  <2>. QED
    BY <2>4, <2>7
<1>4. open' = [open EXCEPT ![t] = 0] /\ time' = time /\ observed' = observed
  BY DEF Settled
<1>5. open'[t] = 0 /\ (\A i \in AssetIds \ {t} : open'[i] = open[i]) /\ open' \in [AssetIds -> Nat]
  BY <1>1, <1>2, <1>4 DEF LedgerTyped
<1>6. asset' \in Seq(Asset) /\ Len(asset') = Len(asset)
      /\ \A i \in minted \ {t} : asset'[i] = asset[i]
  <2>1. asset[t] \in Asset
    BY <1>1, <1>2 DEF minted
  <2>2. [[asset[t] EXCEPT !.fresh = time] EXCEPT !.quarantined = FALSE] \in Asset
    BY <1>1, <2>1 DEF LedgerTyped, Asset
  <2>3. asset' = [asset EXCEPT ![t] = [[asset[t] EXCEPT !.fresh = time] EXCEPT !.quarantined = FALSE]]
    BY <1>1, <1>2, <2>1 DEF Settled, Asset, minted
  <2>. QED
    BY <1>1, <1>2, <2>2, <2>3, OneReplaced DEF minted
<1>7. minted' = minted /\ \A i : observationsOf(i)' = observationsOf(i)
  BY <1>4, <1>6 DEF minted, observationsOf
<1>8. LedgerTyped'
  BY <1>1, <1>3, <1>4, <1>5, <1>6, <1>7 DEF LedgerTyped
<1>9. ASSUME NEW e \in 1..Len(dispute) PROVE DisputeSound(e)'
  <2>1. DisputeSound(e) /\ dispute[e].of \in AssetIds
    BY <1>1 DEF LedgerSound, DisputeSound, LedgerTyped
  <2>2. CASE dispute[e].of = t
    <3>1. e # d => dispute[e].resolved
      BY <1>2, <2>1, <2>2 DEF DisputeSound
    <3>. QED
      BY <2>1, <2>2, <3>1, <1>3, <1>5, <1>7 DEF DisputeSound
  <2>3. CASE dispute[e].of # t
    BY <2>1, <2>3, <1>3, <1>5, <1>7 DEF DisputeSound
  <2>. QED
    BY <2>2, <2>3
<1>10. ASSUME NEW i \in AssetIds PROVE AssetSound(i)'
  <2>1. AssetSound(i)
    BY DEF LedgerSound
  <2>2. CASE i = t
    BY <2>1, <2>2, <1>5, <1>7 DEF AssetSound
  <2>3. CASE i # t
    <3>1. open'[i] = open[i] /\ (open[i] # 0 => open[i] # d)
      BY <2>1, <2>3, <1>5 DEF AssetSound
    <3>. QED
      BY <2>1, <3>1, <1>3, <1>7 DEF AssetSound
  <2>. QED
    BY <2>2, <2>3
<1>11. \A i \in minted : Aged(i)
  <2>. TAKE i \in minted
  <2>1. observationsOf(i) = {} => i # t
    BY <1>2
  <2>2. latestOf(i)' = latestOf(i)
    BY <2>1, <1>4, <1>6, <1>7, LatestKept
  <2>. QED
    BY <2>2, <1>7 DEF Aged
<1>. QED
  BY <1>3, <1>4, <1>7, <1>8, <1>9, <1>10, <1>11 DEF LedgerSound, Grows

LEMMA LedgerMoves ==
  ASSUME LedgerSound, Moves
  PROVE  LedgerSound' /\ Grows
<1>1. CASE UNCHANGED ledgerVars
  <2>1. /\ time' = time /\ asset' = asset /\ observed' = observed
        /\ dispute' = dispute /\ open' = open
    BY <1>1 DEF ledgerVars
  <2>2. minted' = minted /\ \A i : observationsOf(i)' = observationsOf(i)
    BY <2>1 DEF minted, observationsOf
  <2>3. LedgerSound'
    BY <2>1, <2>2 DEF LedgerSound, LedgerTyped, DisputeSound, AssetSound
  <2>4. \A i \in minted : Aged(i)
    BY <2>1, <2>2, LatestKept DEF Aged
  <2>. QED
    BY <2>1, <2>2, <2>3, <2>4 DEF Grows
<1>2. ASSUME NEW d \in 1..Len(dispute), Proposed(d) \/ Confirmed(d) PROVE LedgerSound' /\ Grows
  <2>1. CASE Settled(d)
    BY <1>2, <2>1, SettledMoves DEF Proposed, Confirmed
  <2>2. CASE ~Settled(d)
    BY <1>2, <2>2, PendingMoves DEF Proposed, Confirmed
  <2>. QED
    BY <2>1, <2>2
<1>. QED
  BY <1>1, <1>2, MintMoves, RecordMoves DEF Moves

-----------------------------------------------------------------------------
\* The requests.
Tokens      == [who : People \cup {Nobody}, serial : Nat]
ScoreRoutes == {"asset", "assets"}
LoadRoutes  == {"assets", "asset", "divergences", "attestations", "role", "did"}
WriteRoutes == {"mint", "transfer", "allocate", "propose", "confirm", "attest", "grant", "revoke",
                "register", "revokeDid"}
Stages      == {"sent", "getAsset", "attestationsOf", "openDivergenceOf", "getDivergence",
                "ok", "failed"}

ScoreRow == [of : Nat, tier : Tiers, hasOpenDivergence : BOOLEAN, score : Nat, best : Nat]
CaseRow  == [id : Nat, resolved : BOOLEAN]

LoginCall   == [at : {"sent", "ok", "failed"}, route : {"login"}, key : People, token : Tokens]
SessionCall == [at : {"sent", "ok", "failed"}, route : {"session"}, token : Tokens,
                mounted : BOOLEAN]
WriteCall   == [at : {"sent", "pending", "ok", "failed"}, route : WriteRoutes, of : AssetIds \cap Nat,
                token : Tokens, key : People \cup {Nobody}, switched : BOOLEAN, block : Nat,
                heard : BOOLEAN]
FetchCall   == [at : Stages, route : LoadRoutes, of : Nat, upto : Nat, from : Nat, wrote : Nat,
                begun : Nat, best : Nat, quarantined : BOOLEAN, latest : Evidence \cup Observation,
                ids : SUBSET Nat, rows : Seq(ScoreRow \cup CaseRow), openId : Nat]
Calls == {Idle} \cup LoginCall \cup SessionCall \cup WriteCall \cup FetchCall

\* Which of them a call is.
LEMMA CallKinds ==
  ASSUME NEW c \in Calls
  PROVE  /\ c \in FetchCall <=> c.at # "idle" /\ c.route \in LoadRoutes
         /\ c \in WriteCall <=> c.at # "idle" /\ c.route \in WriteRoutes
         /\ c \in LoginCall <=> c.at # "idle" /\ c.route = "login"
         /\ c \in SessionCall <=> c.at # "idle" /\ c.route = "session"
         /\ c.at \in {"getAsset", "attestationsOf", "openDivergenceOf", "getDivergence"}
              => c \in FetchCall
         /\ c.at = "pending" => c \in WriteCall
         /\ c = Idle <=> c.at = "idle"
BY DEF Calls, Idle, FetchCall, WriteCall, LoginCall, SessionCall, LoadRoutes, WriteRoutes, Stages

LEMMA PageRoutes ==
  /\ \A route : (\E p \in Pages : p.load = route) => route \in LoadRoutes
  /\ \A route : (\E p \in Pages : route \in p.writes) <=> route \in WriteRoutes
  /\ \A route \in WriteRoutes : pageOf(route).load \in LoadRoutes
<1>1. \A route : (\E p \in Pages : p.load = route) => route \in LoadRoutes
  BY DEF Pages, page, dashboardPage, assetsPage, assetPage, divergencePage, attestationsPage,
         rolesPage, identityPage, LoadRoutes
<1>2. \A route : (\E p \in Pages : route \in p.writes) <=> route \in WriteRoutes
  BY DEF Pages, page, dashboardPage, assetsPage, assetPage, divergencePage, attestationsPage,
         rolesPage, identityPage, WriteRoutes
<1>3. ASSUME NEW route \in WriteRoutes PROVE pageOf(route).load \in LoadRoutes
  <2>1. pageOf(route) \in Pages
    BY <1>2 DEF pageOf
  <2>. QED
    BY <2>1, <1>1
<1>. QED
  BY <1>1, <1>2, <1>3

LEMMA WritesAndLoads ==
  ASSUME NEW c \in Calls
  PROVE  /\ isWrite(c) <=> c \in WriteCall
         /\ isLoad(c) <=> c \in FetchCall
<1>1. isWrite(c) <=> c.at # "idle" /\ c.route \in WriteRoutes
  BY CallKinds, PageRoutes DEF isWrite
<1>2. isLoad(c) <=> c.at # "idle" /\ c.route \in LoadRoutes
  BY CallKinds
  DEF isLoad, Pages, page, dashboardPage, assetsPage, assetPage, divergencePage, attestationsPage,
      rolesPage, identityPage, LoadRoutes
<1>. QED
  BY <1>1, <1>2, CallKinds

-----------------------------------------------------------------------------
\* A row that is shown.
RowSound(r) ==
  /\ round(weight(r.tier, r.hasOpenDivergence), 5) <= r.score
  /\ r.score <= weight(r.tier, r.hasOpenDivergence)
  /\ r.score <= r.best

\* What the asset would score by the evidence e.
scoreBy(e, i) == computeConfidence(e.tier, e.at, clock, Window, open[i] # 0)

\* A handler that puts a score together.  With one transaction at most since it
\* began, either what it has read still holds, or it scores no more than the
\* asset did at first.
Reading(c) ==
  LET i == c.of IN
  /\ i \in minted /\ c.begun <= block
  /\ c.at = "attestationsOf" =>
       /\ observationsOf(i) = {} => c.latest = latestOf(i)
       /\ c.begun = block => scoreBy(latestOf(i), i) <= c.best
  /\ c.at = "openDivergenceOf" =>
       /\ c.begun = block => c.latest = latestOf(i) /\ scoreBy(c.latest, i) <= c.best
       /\ c.begun + 1 = block => c.latest = latestOf(i) \/ scoreBy(c.latest, i) <= c.best

\* A handler that lists divergences: the ids it has yet to look up, the rows it
\* has, and the id it announces as open.
IdOf(d, i)  == d \in 1..Len(dispute) /\ dispute[d].of = i
RowOf(r, i) == IdOf(r.id, i) /\ (r.resolved => dispute[r.id].resolved)
IsNewest(openId, rows) ==
  \A j \in 1..Len(rows) : rows[j].id <= openId /\ (rows[j].id = openId => ~rows[j].resolved)

Listing(c) ==
  /\ c.at = "getDivergence" => \A d \in c.ids : IdOf(d, c.of)
  /\ \A j \in 1..Len(c.rows) : RowOf(c.rows[j], c.of)
  /\ c.at = "ok" /\ c.openId # 0 => IsNewest(c.openId, c.rows)

Fetched(c) ==
  /\ c.at \in {"getAsset", "attestationsOf", "openDivergenceOf"} => c.route \in ScoreRoutes
  /\ c.at = "getDivergence" => c.route = "divergences"
  /\ c.wrote <= block
  /\ c.at \notin {"sent", "failed"} => c.wrote <= c.from
  /\ c.route \in ScoreRoutes =>
       \A j \in 1..Len(c.rows) : c.rows[j] \in ScoreRow /\ RowSound(c.rows[j])
  /\ c.at \in {"attestationsOf", "openDivergenceOf"} => Reading(c)
  /\ c.route = "divergences" => /\ c.of \in AssetIds
                                /\ \A j \in 1..Len(c.rows) : c.rows[j] \in CaseRow
                                /\ Listing(c)

Conduct(c) ==
  /\ c \in LoginCall => (c.at = "ok" => c.token.who = c.key)
  /\ c \in WriteCall => /\ c.key \notin {Nobody, c.token.who} => c.switched
                        /\ c.block <= block
  /\ c \in FetchCall => Fetched(c)

-----------------------------------------------------------------------------
\* The portal: the stored token and key are of one login, and so is a tab's
\* token of the stored key unless a login has been stored since it was read.
Shown    == [from : Nat, reloaded : BOOLEAN, crossed : BOOLEAN]
TabState == [at : {"login", "shell"}, page : Pages, me : People \cup {Nobody}, token : Tokens,
             turn : Nat, effect : BOOLEAN, shown : Shown, wrote : Nat]
Storage  == [token : Tokens, key : People \cup {Nobody}, turn : Nat]

BrowserTyped ==
  /\ block \in Nat /\ clock \in Nat /\ live \subseteq Tokens /\ logins \in Nat
  /\ stored \in Storage /\ tab \in [Tabs -> TabState] /\ scene \in Scenes

TabSound(t) ==
  /\ tab[t].turn <= stored.turn
  /\ tab[t].token # NoToken /\ tab[t].turn = stored.turn => tab[t].token.who = stored.key
  /\ tab[t].wrote <= block

BrowserSound ==
  /\ stored.token # NoToken => stored.token.who = stored.key
  /\ \A t \in Tabs : TabSound(t)

CallsTyped == call \in [Tabs -> [Slots -> Calls]]
Conducted  == \A t \in Tabs, s \in Slots : Conduct(call[t][s])

PortalInv == LedgerSound /\ BrowserTyped /\ BrowserSound /\ CallsTyped /\ Conducted

LEMMA LoginState == AtLogin \in TabState
<1>1. dashboardPage \in Pages /\ NoToken \in Tokens /\ Blank \in Shown
  BY DEF Pages, NoToken, Tokens, Blank, Shown
<1>. HIDE DEF dashboardPage, NoToken, Blank
<1>. QED
  BY <1>1 DEF AtLogin, TabState

LEMMA PortalInvInit == PortalInit => PortalInv
<1>. SUFFICES ASSUME PortalInit PROVE PortalInv
  OBVIOUS
<1>1. /\ time = 0 /\ asset = <<>> /\ observed = <<>> /\ dispute = <<>>
      /\ open = [t \in AssetIds |-> 0]
  BY DEF PortalInit, LedgerInit
<1>2. LedgerSound
  BY <1>1 DEF LedgerSound, LedgerTyped, DisputeSound, AssetSound, minted, observationsOf
<1>3. NoToken \in Tokens /\ AtLogin \in TabState
  BY LoginState DEF NoToken, Tokens
<1>4. BrowserTyped
  BY <1>3 DEF PortalInit, BrowserTyped, Storage
<1>5. BrowserSound
  BY DEF PortalInit, BrowserSound, TabSound, AtLogin
<1>6. Idle \in Calls
  BY DEF Calls
<1>7. CallsTyped
  BY <1>6 DEF PortalInit, CallsTyped
<1>8. Conduct(Idle)
  BY <1>6, CallKinds DEF Conduct, Idle, LoginCall, WriteCall, FetchCall, Stages
<1>9. Conducted
  BY <1>8 DEF PortalInit, Conducted
<1>. QED
  BY <1>2, <1>4, <1>5, <1>7, <1>9 DEF PortalInv

-----------------------------------------------------------------------------
\* What a step does to the chain and to the clocks.
World ==
  \/ Moves /\ block' = block + 1 /\ clock' = clock
  \/ Passes /\ UNCHANGED <<block, clock>>
  \/ UNCHANGED <<ledgerVars, block>> /\ clock' \in {clock, clock + 1}

Same == UNCHANGED <<ledgerVars, block, clock>>

LEMMA SameReads ==
  ASSUME UNCHANGED <<asset, observed>>
  PROVE  minted' = minted /\ \A i : observationsOf(i)' = observationsOf(i) /\ latestOf(i)' = latestOf(i)
<1>1. minted' = minted /\ \A i : observationsOf(i)' = observationsOf(i)
  BY DEF minted, observationsOf
<1>2. ASSUME NEW i PROVE latestOf(i)' = latestOf(i)
  <2>1. observationsOf(i)' = observationsOf(i)
    BY <1>1
  <2>. QED
    BY <2>1 DEF latestOf
<1>. QED
  BY <1>1, <1>2

LEMMA WorldSound ==
  ASSUME LedgerSound, World
  PROVE  LedgerSound'
<1>1. CASE Moves
  BY <1>1, LedgerMoves
<1>2. CASE Passes \/ UNCHANGED <<ledgerVars, block>>
  <2>1. /\ asset' = asset /\ observed' = observed /\ dispute' = dispute /\ open' = open
        /\ time' = time + 1 \/ time' = time
    BY <1>2 DEF Passes, ledgerVars
  <2>2. minted' = minted /\ \A i : observationsOf(i)' = observationsOf(i)
    BY <2>1, SameReads
  <2>3. LedgerTyped'
    BY <2>1, <2>2 DEF LedgerSound, LedgerTyped
  <2>. QED
    BY <2>1, <2>2, <2>3 DEF LedgerSound, DisputeSound, AssetSound
<1>. QED
  BY <1>1, <1>2 DEF World

LEMMA LatestType ==
  ASSUME LedgerSound, NEW i \in minted
  PROVE  latestOf(i) \in Evidence \cup Observation
<1>1. LedgerTyped /\ asset[i] \in Asset /\ i \in AssetIds
  BY DEF LedgerSound, LedgerTyped, minted
<1>2. CASE observationsOf(i) = {}
  BY <1>1, <1>2 DEF latestOf, Evidence, Asset, Tiers, EVIDENCE_WEIGHT
<1>3. CASE observationsOf(i) # {}
  <2>1. (CHOOSE k \in observationsOf(i) : \A j \in observationsOf(i) : j <= k) \in 1..Len(observed)
    <3>1. \E k \in observationsOf(i) : \A j \in observationsOf(i) : j <= k
      BY <1>1, <1>3 DEF LedgerSound, AssetSound
    <3>. QED
      BY <3>1 DEF observationsOf
  <2>. QED
    BY <1>1, <1>3, <2>1 DEF latestOf, LedgerTyped
<1>. QED
  BY <1>2, <1>3

LEMMA EvidenceFields ==
  ASSUME NEW e \in Evidence \cup Observation
  PROVE  e.tier \in Tiers /\ e.at \in Nat
BY DEF Evidence, Observation

\* The score by the same evidence falls with time, and when a divergence opens.
LEMMA ScoreByType ==
  ASSUME clock \in Nat, NEW e \in Evidence \cup Observation, NEW i
  PROVE  scoreBy(e, i) \in Nat /\ scoreBy(e, i) <= 100
<1>1. Window \in Nat /\ (open[i] # 0) \in BOOLEAN
  BY WindowAssumption
<1>2. e.tier \in Tiers /\ e.at \in Nat
  BY EvidenceFields
<1>. QED
  BY <1>1, <1>2, ScoreBand DEF scoreBy

LEMMA ScoreByFalls ==
  ASSUME NEW e \in Evidence \cup Observation, NEW i,
         clock \in Nat, clock' \in Nat, clock <= clock', open[i] # 0 => open'[i] # 0
  PROVE  scoreBy(e, i)' <= scoreBy(e, i) /\ scoreBy(e, i)' \in Nat
<1>1. Window \in Nat
  BY WindowAssumption
<1>2. e.tier \in Tiers /\ e.at \in Nat
  BY EvidenceFields
<1>3. PICK f \in BOOLEAN : f = (open[i] # 0)
  OBVIOUS
<1>4. PICK g \in BOOLEAN : g = (open'[i] # 0)
  OBVIOUS
<1>5. f => g
  BY <1>3, <1>4
<1>6. scoreBy(e, i) = computeConfidence(e.tier, e.at, clock, Window, f)
  BY <1>3 DEF scoreBy
<1>7. scoreBy(e, i)' = computeConfidence(e.tier, e.at, clock', Window, g)
  BY <1>4 DEF scoreBy
<1>8. computeConfidence(e.tier, e.at, clock', Window, g) \in Nat
  BY <1>1, <1>2, ScoreBand
<1>. QED
  BY <1>1, <1>2, <1>5, <1>6, <1>7, <1>8, ScoreFalls

-----------------------------------------------------------------------------
\* A request stands while others take their steps.
LEMMA ReadingStays ==
  ASSUME LedgerSound, block \in Nat, clock \in Nat, NEW c \in FetchCall, Reading(c), World,
         c.at \in {"attestationsOf", "openDivergenceOf"}
  PROVE  Reading(c)'
<1>. DEFINE i == c.of
<1>1. /\ i \in minted /\ c.begun \in Nat /\ c.begun <= block /\ c.best \in Nat
      /\ c.latest \in Evidence \cup Observation /\ latestOf(i) \in Evidence \cup Observation
  BY LatestType DEF Reading, FetchCall
<1>. HIDE DEF i
<1>3. CASE Moves /\ block' = block + 1 /\ clock' = clock
  <2>1. Grows
    BY <1>3, LedgerMoves
  <2>2. i \in minted' /\ Aged(i) /\ clock' = clock
    BY <1>1, <1>3, <2>1 DEF Grows
  <2>3. c.begun <= block' /\ c.begun # block' /\ (c.begun + 1 = block' => c.begun = block)
    BY <1>1, <1>3
  <2>4. CASE c.at = "attestationsOf"
    <3>1. observationsOf(i)' = {} => c.latest = latestOf(i)'
      BY <2>2, <2>4 DEF Reading, Aged, i
    <3>. QED
      BY <2>2, <2>3, <2>4, <3>1 DEF Reading, i
  <2>5. CASE c.at = "openDivergenceOf"
    <3>1. ASSUME c.begun = block PROVE c.latest = latestOf(i)' \/ scoreBy(c.latest, i)' <= c.best
      <4>1. c.latest = latestOf(i) /\ scoreBy(c.latest, i) <= c.best
        BY <2>5, <3>1 DEF Reading, i
      <4>2. CASE latestOf(i)' = latestOf(i)
        BY <4>1, <4>2
      <4>3. CASE open[i] # 0 => open'[i] # 0
        <5>1. scoreBy(c.latest, i)' <= scoreBy(c.latest, i) /\ scoreBy(c.latest, i)' \in Nat
          BY <4>3, <2>2, <1>1, ScoreByFalls
        <5>2. scoreBy(c.latest, i) \in Nat
          BY <1>1, ScoreByType
        <5>. QED
          BY <4>1, <5>1, <5>2, <1>1
      <4>. QED
        BY <4>2, <4>3, <2>2 DEF Aged
    <3>. QED
      BY <2>2, <2>3, <2>5, <3>1 DEF Reading, i
  <2>. QED
    BY <2>4, <2>5
<1>4. CASE \/ Passes /\ UNCHANGED <<block, clock>>
           \/ UNCHANGED <<ledgerVars, block>> /\ clock' \in {clock, clock + 1}
  <2>1. /\ asset' = asset /\ observed' = observed /\ open' = open /\ block' = block
        /\ clock' \in Nat /\ clock <= clock'
    BY <1>4 DEF Passes, ledgerVars
  <2>2. minted' = minted /\ observationsOf(i)' = observationsOf(i) /\ latestOf(i)' = latestOf(i)
    BY <2>1, SameReads
  <2>3. ASSUME NEW e \in Evidence \cup Observation, scoreBy(e, i) <= c.best
        PROVE  scoreBy(e, i)' <= c.best
    <3>1. scoreBy(e, i)' <= scoreBy(e, i) /\ scoreBy(e, i)' \in Nat /\ scoreBy(e, i) \in Nat
      BY <2>1, ScoreByFalls, ScoreByType
    <3>. QED
      BY <2>3, <3>1, <1>1
  <2>5. PICK e : e = latestOf(i)
    OBVIOUS
  <2>6. scoreBy(e, i) <= c.best => scoreBy(latestOf(i), i)' <= c.best
    <3>1. scoreBy(latestOf(i), i)' = scoreBy(e, i)'
      BY <2>2, <2>5
    <3>. QED
      BY <3>1, <2>3, <2>5, <1>1
  <2>7. scoreBy(c.latest, i) <= c.best => scoreBy(c.latest, i)' <= c.best
    BY <2>3, <1>1
  <2>. QED
    BY <1>1, <2>1, <2>2, <2>5, <2>6, <2>7 DEF Reading, i
<1>. QED
  BY <1>3, <1>4 DEF World

LEMMA ListingStays ==
  ASSUME LedgerSound, NEW c, Listing(c), World
  PROVE  Listing(c)'
<1>1. \A d \in 1..Len(dispute) : /\ d \in 1..Len(dispute') /\ dispute'[d].of = dispute[d].of
                                 /\ dispute[d].resolved => dispute'[d].resolved
  <2>1. CASE Moves
    BY <2>1, LedgerMoves DEF Grows
  <2>2. CASE ~Moves
    <3>1. dispute' = dispute
      BY <2>2 DEF World, Passes, ledgerVars
    <3>. QED
      BY <3>1
  <2>. QED
    BY <2>1, <2>2
<1>2. \A d, i : IdOf(d, i) => IdOf(d, i)'
  BY <1>1 DEF IdOf
<1>3. \A r, i : RowOf(r, i) => RowOf(r, i)'
  BY <1>1, <1>2 DEF RowOf, IdOf
<1>. QED
  BY <1>2, <1>3 DEF Listing

LEMMA ConductStays ==
  ASSUME LedgerSound, block \in Nat, clock \in Nat, NEW c \in Calls, Conduct(c), World
  PROVE  Conduct(c)'
<1>1. block' \in Nat /\ block <= block'
  BY DEF World
<1>2. ASSUME c \in WriteCall PROVE c.block <= block'
  BY <1>1, <1>2 DEF Conduct, WriteCall
<1>3. ASSUME c \in FetchCall PROVE Fetched(c)'
  <2>1. Fetched(c) /\ c.wrote \in Nat
    BY <1>3 DEF Conduct, FetchCall
  <2>2. c.wrote <= block'
    BY <2>1, <1>1 DEF Fetched
  <2>3. c.at \in {"attestationsOf", "openDivergenceOf"} => Reading(c)'
    BY <2>1, <1>3, ReadingStays DEF Fetched
  <2>4. c.route = "divergences" => Listing(c)'
    BY <2>1, ListingStays DEF Fetched
  <2>. QED
    BY <2>1, <2>2, <2>3, <2>4 DEF Fetched
<1>. QED
  BY <1>2, <1>3 DEF Conduct

-----------------------------------------------------------------------------
\* One request changes.
LEMMA CallStep ==
  ASSUME PortalInv, NEW t \in Tabs, NEW s \in Slots, NEW new \in Calls, becomes(t, s, new),
         Conduct(new)', World
  PROVE  CallsTyped' /\ Conducted'
<1>1. call' \in [Tabs -> [Slots -> Calls]] /\ call'[t][s] = new
      /\ \A u \in Tabs, r \in Slots : u # t \/ r # s => call'[u][r] = call[u][r]
  BY DEF PortalInv, CallsTyped, becomes
<1>2. ASSUME NEW u \in Tabs, NEW r \in Slots PROVE Conduct(call[u][r])'
  <2>1. CASE u = t /\ r = s
    BY <1>1, <2>1
  <2>2. CASE u # t \/ r # s
    <3>1. PICK c : c = call[u][r]
      OBVIOUS
    <3>2. c \in Calls /\ Conduct(c) /\ call'[u][r] = c
      BY <1>1, <2>2, <3>1 DEF PortalInv, CallsTyped, Conducted
    <3>3. Conduct(c)'
      BY <3>2, ConductStays DEF PortalInv, BrowserTyped
    <3>. QED
      BY <3>2, <3>3
  <2>. QED
    BY <2>1, <2>2
<1>. QED
  BY <1>1, <1>2 DEF CallsTyped, Conducted

\* A step of a handler that serves a fetch.
Becomes(t, s) == \E new \in Calls : becomes(t, s, new) /\ Conduct(new)

LEMMA FetchConduct ==
  ASSUME NEW new \in FetchCall, Fetched(new)
  PROVE  new \in Calls /\ Conduct(new)
BY DEF Calls, Conduct, FetchCall, LoginCall, WriteCall, LoadRoutes, WriteRoutes

LEMMA ScoreViews ==
  ASSUME PortalInv, NEW t \in Tabs, NEW s \in Slots,
         \/ list(t, s) \/ single(t, s) \/ getAsset(t, s) \/ attestationsOf(t, s)
         \/ confidenceForToken(t, s)
  PROVE  Becomes(t, s) /\ Same
<1>1. PICK c : c = call[t][s]
  OBVIOUS
<1>2. c \in Calls /\ Conduct(c) /\ LedgerSound /\ LedgerTyped /\ block \in Nat /\ clock \in Nat
  BY <1>1 DEF PortalInv, CallsTyped, Conducted, BrowserTyped, LedgerSound
<1>3. Same
  BY DEF list, single, getAsset, attestationsOf, confidenceForToken, readOnly, Same
<1>4. c \in FetchCall /\ Fetched(c)
  <2>1. /\ c.at \in {"sent", "getAsset", "attestationsOf", "openDivergenceOf"}
        /\ c.at = "sent" => c.route \in LoadRoutes
    BY <1>1 DEF list, single, getAsset, attestationsOf, confidenceForToken, received, stage,
                LoadRoutes
  <2>2. c \in FetchCall
    <3>1. CASE c.at = "sent"
      BY <1>2, <2>1, <3>1, CallKinds
    <3>2. CASE c.at # "sent"
      <4>1. c.at \in {"getAsset", "attestationsOf", "openDivergenceOf", "getDivergence"}
        BY <2>1, <3>2
      <4>. QED
        BY <1>2, <4>1, CallKinds
    <3>. QED
      BY <3>1, <3>2
  <2>. QED
    BY <1>2, <2>2 DEF Conduct
<1>5. Len(asset) \in Nat
  BY <1>2 DEF LedgerTyped
<1>6. CASE list(t, s)
  <2>. DEFINE new == [c EXCEPT !.at = IF asset = <<>> THEN "ok" ELSE "getAsset",
                               !.of = 1, !.upto = Len(asset), !.from = block]
  <2>1. becomes(t, s, new) /\ c.route = "assets"
    BY <1>1, <1>6 DEF list, received
  <2>2. new \in FetchCall
    BY <1>2, <1>4, <1>5 DEF FetchCall, Stages
  <2>3. /\ new.at \in {"ok", "getAsset"} /\ new.route = "assets" /\ new.rows = c.rows
        /\ new.wrote = c.wrote /\ new.from = block
    BY <1>4, <2>1 DEF FetchCall
  <2>. HIDE DEF new
  <2>4. Fetched(new)
    BY <1>4, <2>1, <2>3 DEF Fetched, ScoreRoutes
  <2>. QED
    BY <1>3, <2>1, <2>2, <2>4, FetchConduct DEF Becomes
<1>7. CASE single(t, s)
  <2>. DEFINE new == [c EXCEPT !.at = "getAsset", !.from = block]
  <2>1. becomes(t, s, new) /\ c.route = "asset"
    BY <1>1, <1>7 DEF single, received
  <2>2. new \in FetchCall
    BY <1>2, <1>4 DEF FetchCall, Stages
  <2>3. /\ new.at = "getAsset" /\ new.route = "asset" /\ new.rows = c.rows
        /\ new.wrote = c.wrote /\ new.from = block
    BY <1>4, <2>1 DEF FetchCall
  <2>. HIDE DEF new
  <2>4. Fetched(new)
    BY <1>4, <2>1, <2>3 DEF Fetched, ScoreRoutes
  <2>. QED
    BY <1>3, <2>1, <2>2, <2>4, FetchConduct DEF Becomes
<1>8. CASE getAsset(t, s)
  <2>. DEFINE i == c.of
  <2>1. c.at = "getAsset" /\ c.route \in ScoreRoutes /\ i \in Nat /\ c.wrote <= c.from
    BY <1>1, <1>4, <1>8 DEF getAsset, stage, Fetched, FetchCall
  <2>2. CASE i \in minted
    <3>. DEFINE first == [tier |-> "IdentifierScan", at |-> asset[i].fresh]
                new == [c EXCEPT !.at = "attestationsOf", !.quarantined = asset[i].quarantined,
                                 !.latest = first, !.begun = block, !.best = exactScore(i)]
    <3>1. becomes(t, s, new)
      BY <1>1, <1>8, <2>2 DEF getAsset
    <3>2. asset[i] \in Asset
      BY <1>2, <2>2 DEF LedgerTyped, minted
    <3>3. first \in Evidence /\ asset[i].quarantined \in BOOLEAN
      BY <3>2 DEF Evidence, Asset, Tiers, EVIDENCE_WEIGHT
    <3>4. exactScore(i) = scoreBy(latestOf(i), i) /\ exactScore(i) \in Nat
      <4>1. PICK e : e = latestOf(i)
        OBVIOUS
      <4>2. exactScore(i) = scoreBy(e, i)
        BY <4>1 DEF exactScore, scoreBy
      <4>3. e \in Evidence \cup Observation
        BY <1>2, <2>2, <4>1, LatestType
      <4>. QED
        BY <1>2, <4>1, <4>2, <4>3, ScoreByType
    <3>5. observationsOf(i) = {} => first = latestOf(i)
      BY DEF latestOf
    <3>6. PICK q \in BOOLEAN : q = asset[i].quarantined
      BY <3>3
    <3>7. PICK b \in Nat : b = exactScore(i)
      BY <3>4
    <3>. HIDE DEF first
    <3>8. new = [c EXCEPT !.at = "attestationsOf", !.quarantined = q, !.latest = first,
                          !.begun = block, !.best = b]
      BY <3>6, <3>7
    <3>. HIDE DEF new
    <3>9. new \in FetchCall
      BY <1>2, <1>4, <3>3, <3>8 DEF FetchCall, Stages
    <3>10. /\ new.at = "attestationsOf" /\ new.route = c.route /\ new.of = i /\ new.rows = c.rows
           /\ new.wrote = c.wrote /\ new.from = c.from /\ new.latest = first
           /\ new.begun = block /\ new.best = b
      BY <1>4, <3>8 DEF FetchCall
    <3>11. scoreBy(latestOf(i), i) <= new.best
      BY <3>4, <3>7, <3>10
    <3>12. Reading(new)
      BY <1>2, <2>2, <3>5, <3>10, <3>11 DEF Reading
    <3>13. Fetched(new)
      BY <1>4, <2>1, <3>10, <3>12 DEF Fetched, ScoreRoutes
    <3>. QED
      BY <1>3, <3>1, <3>9, <3>13, FetchConduct DEF Becomes
  <2>3. CASE i \notin minted
    <3>. DEFINE new == [c EXCEPT !.at = "failed"]
    <3>1. becomes(t, s, new)
      BY <1>1, <1>8, <2>3 DEF getAsset
    <3>2. new \in FetchCall
      BY <1>4 DEF FetchCall, Stages
    <3>3. new.at = "failed" /\ new.route = c.route /\ new.rows = c.rows /\ new.wrote = c.wrote
      BY <1>4 DEF FetchCall
    <3>. HIDE DEF new
    <3>4. Fetched(new)
      BY <1>4, <2>1, <3>3 DEF Fetched, ScoreRoutes
    <3>. QED
      BY <1>3, <3>1, <3>2, <3>4, FetchConduct DEF Becomes
  <2>. QED
    BY <2>2, <2>3
<1>9. CASE attestationsOf(t, s)
  <2>. DEFINE i == c.of
              read == IF observationsOf(i) = {} THEN c.latest ELSE latestOf(i)
              new == [c EXCEPT !.at = "openDivergenceOf", !.latest = read]
  <2>1. c.at = "attestationsOf" /\ c.route \in ScoreRoutes /\ Reading(c) /\ c.wrote <= c.from
    BY <1>1, <1>4, <1>9 DEF attestationsOf, stage, Fetched
  <2>2. becomes(t, s, new)
    BY <1>1, <1>4, <1>9 DEF attestationsOf, FetchCall
  <2>3. i \in minted /\ c.begun <= block /\ read = latestOf(i)
        /\ (c.begun = block => scoreBy(latestOf(i), i) <= c.best)
    BY <2>1 DEF Reading
  <2>4. read \in Evidence \cup Observation
    BY <1>2, <2>3, LatestType
  <2>. HIDE DEF read
  <2>5. new \in FetchCall
    BY <1>4, <2>4 DEF FetchCall, Stages
  <2>6. /\ new.at = "openDivergenceOf" /\ new.route = c.route /\ new.of = i /\ new.rows = c.rows
        /\ new.wrote = c.wrote /\ new.from = c.from /\ new.latest = read
        /\ new.begun = c.begun /\ new.best = c.best
    BY <1>4 DEF FetchCall
  <2>. HIDE DEF new
  <2>7. c.begun = block => scoreBy(new.latest, i) <= new.best
    BY <2>3, <2>6
  <2>8. Reading(new)
    BY <2>3, <2>6, <2>7 DEF Reading
  <2>9. Fetched(new)
    BY <1>4, <2>1, <2>6, <2>8 DEF Fetched, ScoreRoutes
  <2>. QED
    BY <1>3, <2>2, <2>5, <2>9, FetchConduct DEF Becomes
<1>10. CASE confidenceForToken(t, s)
  <2>. DEFINE i == c.of
  <2>1. c.at = "openDivergenceOf" /\ c.route \in ScoreRoutes /\ Reading(c) /\ c.wrote <= c.from
    BY <1>1, <1>4, <1>10 DEF confidenceForToken, stage, Fetched
  <2>2. PICK f \in BOOLEAN : f = (open[i] # 0)
    OBVIOUS
  <2>. DEFINE row == rowOf(c, f)
              new == withRow(c, row)
  <2>3. becomes(t, s, new)
    BY <1>1, <1>10, <2>2 DEF confidenceForToken
  <2>4. i \in minted /\ c.begun \in Nat /\ c.begun <= block /\ c.best \in Nat /\ i \in Nat
        /\ c.latest \in Evidence \cup Observation /\ c.latest.tier \in Tiers /\ c.latest.at \in Nat
    BY <1>4, <2>1, EvidenceFields DEF Reading, FetchCall
  <2>5. PICK score : score = computeConfidence(c.latest.tier, c.latest.at, clock, Window, f)
    OBVIOUS
  <2>6. score = scoreBy(c.latest, i)
    BY <2>2, <2>5 DEF scoreBy
  <2>7. /\ score \in Nat /\ score <= 100 /\ score <= weight(c.latest.tier, f)
        /\ round(weight(c.latest.tier, f), 5) <= score
    BY <1>2, <2>4, <2>5, ScoreBand, WindowAssumption
  <2>8. PICK now : now = exactScore(i)
    OBVIOUS
  <2>9. now \in Nat /\ (c.latest = latestOf(i) => score = now)
    <3>1. PICK e : e = latestOf(i)
      OBVIOUS
    <3>2. now = scoreBy(e, i)
      BY <2>8, <3>1 DEF exactScore, scoreBy
    <3>3. e \in Evidence \cup Observation
      BY <1>2, <2>4, <3>1, LatestType
    <3>. QED
      BY <1>2, <2>6, <3>1, <3>2, <3>3, ScoreByType
  <2>10. PICK best : best = IF block > c.begun + 1 THEN 100 ELSE IF now > c.best THEN now ELSE c.best
    OBVIOUS
  <2>11. best \in Nat /\ score <= best
    <3>1. best \in Nat
      BY <2>4, <2>9, <2>10
    <3>2. CASE block > c.begun + 1
      BY <2>7, <2>10, <3>2
    <3>3. CASE ~ block > c.begun + 1
      <4>1. c.begun = block \/ c.begun + 1 = block
        BY <1>2, <2>4, <3>3
      <4>2. c.latest = latestOf(i) \/ scoreBy(c.latest, i) <= c.best
        BY <2>1, <4>1 DEF Reading
      <4>3. score <= now \/ score <= c.best
        BY <4>2, <2>6, <2>7, <2>9
      <4>. QED
        BY <2>4, <2>7, <2>9, <2>10, <3>3, <4>3
    <3>. QED
      BY <3>1, <3>2, <3>3
  <2>12. row = [of |-> i, tier |-> c.latest.tier, hasOpenDivergence |-> f, score |-> score,
                best |-> best]
    BY <2>5, <2>8, <2>10 DEF rowOf
  <2>13. row \in ScoreRow /\ RowSound(row)
    BY <2>4, <2>7, <2>11, <2>12 DEF ScoreRow, RowSound
  <2>. HIDE DEF row
  <2>. DEFINE longer == Append(c.rows, row)
  <2>14. PICK next \in {"ok", "getAsset"} : new = [c EXCEPT !.at = next, !.of = i + 1, !.rows = longer]
    <3>1. PICK next : next = IF i = c.upto THEN "ok" ELSE "getAsset"
      OBVIOUS
    <3>. QED
      BY <1>4, <3>1 DEF withRow, FetchCall
  <2>15. c.rows \in Seq(ScoreRow \cup CaseRow)
    BY <1>4 DEF FetchCall
  <2>16. longer \in Seq(ScoreRow \cup CaseRow)
    BY <2>13, <2>15
  <2>. HIDE DEF new, longer
  <2>17. new \in FetchCall
    <3>1. next \in Stages /\ i + 1 \in Nat
      BY <2>4 DEF Stages
    <3>. QED
      BY <1>4, <2>14, <2>16, <3>1 DEF FetchCall
  <2>18. /\ new.at \in {"ok", "getAsset"} /\ new.route = c.route /\ new.rows = Append(c.rows, row)
         /\ new.wrote = c.wrote /\ new.from = c.from
    BY <1>4, <2>14 DEF FetchCall, longer
  <2>19. \A j \in 1..Len(new.rows) : new.rows[j] \in ScoreRow /\ RowSound(new.rows[j])
    <3>. TAKE j \in 1..Len(new.rows)
    <3>1. CASE j \in 1..Len(c.rows)
      <4>1. new.rows[j] = c.rows[j]
        BY <2>15, <2>18, <3>1
      <4>. QED
        BY <1>4, <2>1, <3>1, <4>1 DEF Fetched
    <3>2. CASE j \notin 1..Len(c.rows)
      <4>1. new.rows[j] = row
        BY <2>15, <2>18, <3>2
      <4>. QED
        BY <2>13, <4>1
    <3>. QED
      BY <3>1, <3>2
  <2>20. Fetched(new)
    BY <1>4, <2>1, <2>18, <2>19 DEF Fetched, ScoreRoutes
  <2>. QED
    BY <1>3, <2>3, <2>17, <2>20, FetchConduct DEF Becomes
<1>. QED
  BY <1>6, <1>7, <1>8, <1>9, <1>10

LEMMA ListViews ==
  ASSUME PortalInv, NEW t \in Tabs, NEW s \in Slots,
         \/ divergencesOf(t, s) \/ getDivergence(t, s) \/ openDivergenceOf(t, s) \/ readOnce(t, s)
  PROVE  Becomes(t, s) /\ Same
<1>1. PICK c : c = call[t][s]
  OBVIOUS
<1>2. c \in Calls /\ Conduct(c) /\ LedgerSound /\ LedgerTyped /\ block \in Nat /\ clock \in Nat
  BY <1>1 DEF PortalInv, CallsTyped, Conducted, BrowserTyped, LedgerSound
<1>3. Same
  BY DEF divergencesOf, getDivergence, openDivergenceOf, readOnce, readOnly, Same
<1>4. c \in FetchCall /\ Fetched(c)
  <2>1. \/ c.at = "sent" /\ c.route \in LoadRoutes
        \/ c.at = "getDivergence"
    BY <1>1 DEF divergencesOf, getDivergence, openDivergenceOf, readOnce, received, stage, LoadRoutes
  <2>2. c \in FetchCall
    BY <1>2, <2>1, CallKinds
  <2>. QED
    BY <1>2, <2>2 DEF Conduct
<1>5. c.rows \in Seq(ScoreRow \cup CaseRow) /\ Len(c.rows) \in Nat
  BY <1>4 DEF FetchCall
<1>6. CASE divergencesOf(t, s)
  <2>1. PICK found \in SUBSET Nat : found = {d \in 1..Len(dispute) : dispute[d].of = c.of}
    <3>1. {d \in 1..Len(dispute) : dispute[d].of = c.of} \in SUBSET Nat
      BY <1>2 DEF LedgerTyped
    <3>. QED
      BY <3>1
  <2>. DEFINE new == [c EXCEPT !.at = "getDivergence", !.from = block, !.ids = found]
  <2>2. becomes(t, s, new) /\ c.route = "divergences" /\ c.at = "sent"
    BY <1>1, <1>6, <2>1 DEF divergencesOf, received
  <2>3. new \in FetchCall
    BY <1>2, <1>4 DEF FetchCall, Stages
  <2>4. /\ new.at = "getDivergence" /\ new.route = "divergences" /\ new.rows = c.rows
        /\ new.wrote = c.wrote /\ new.from = block /\ new.of = c.of /\ new.ids = found
    BY <1>4, <2>2 DEF FetchCall
  <2>. HIDE DEF new
  <2>5. Listing(new)
    BY <1>4, <2>1, <2>2, <2>4 DEF Fetched, Listing, IdOf
  <2>6. Fetched(new)
    BY <1>4, <2>2, <2>4, <2>5 DEF Fetched, ScoreRoutes
  <2>. QED
    BY <1>3, <2>2, <2>3, <2>6, FetchConduct DEF Becomes
<1>7. CASE getDivergence(t, s)
  <2>1. c.at = "getDivergence" /\ c.route = "divergences" /\ c.of \in AssetIds /\ Listing(c)
        /\ c.wrote <= c.from
    BY <1>1, <1>4, <1>7 DEF getDivergence, stage, Fetched
  <2>2. PICK d \in c.ids : becomes(t, s, [c EXCEPT !.ids = @ \ {d},
            !.rows = Append(@, [id |-> d, resolved |-> dispute[d].resolved])])
    BY <1>1, <1>7 DEF getDivergence
  <2>3. IdOf(d, c.of) /\ d \in Nat /\ dispute[d].resolved \in BOOLEAN
    <3>1. d \in 1..Len(dispute) /\ dispute[d].of = c.of
      BY <2>1 DEF Listing, IdOf
    <3>2. dispute[d] \in Dispute
      BY <1>2, <3>1 DEF LedgerTyped
    <3>. QED
      BY <1>2, <3>1, <3>2 DEF IdOf, Dispute, LedgerTyped
  <2>4. PICK row : row = [id |-> d, resolved |-> dispute[d].resolved]
    OBVIOUS
  <2>5. row \in CaseRow /\ RowOf(row, c.of)
    BY <2>3, <2>4 DEF CaseRow, RowOf
  <2>. DEFINE rest == c.ids \ {d}
              longer == Append(c.rows, row)
              new == [c EXCEPT !.ids = rest, !.rows = longer]
  <2>6. becomes(t, s, new)
    BY <1>4, <2>2, <2>4 DEF FetchCall
  <2>7. longer \in Seq(ScoreRow \cup CaseRow) /\ rest \in SUBSET Nat
    BY <1>4, <1>5, <2>5 DEF FetchCall
  <2>8. \A j \in 1..Len(longer) : longer[j] = row \/ (j \in 1..Len(c.rows) /\ longer[j] = c.rows[j])
    BY <1>5
  <2>. HIDE DEF rest, longer
  <2>9. new \in FetchCall
    BY <1>4, <2>7 DEF FetchCall
  <2>10. /\ new.at = "getDivergence" /\ new.route = "divergences" /\ new.rows = longer
         /\ new.wrote = c.wrote /\ new.from = c.from /\ new.of = c.of /\ new.ids = rest
    BY <1>4, <2>1 DEF FetchCall
  <2>. HIDE DEF new
  <2>11. \A j \in 1..Len(longer) : longer[j] \in CaseRow /\ RowOf(longer[j], c.of)
    BY <1>4, <2>1, <2>5, <2>8 DEF Fetched, Listing
  <2>12. Listing(new)
    BY <2>1, <2>10, <2>11 DEF Listing, rest
  <2>13. Fetched(new)
    BY <1>4, <2>1, <2>10, <2>11, <2>12 DEF Fetched, ScoreRoutes
  <2>. QED
    BY <1>3, <2>6, <2>9, <2>13, FetchConduct DEF Becomes
<1>8. CASE openDivergenceOf(t, s)
  <2>1. c.at = "getDivergence" /\ c.route = "divergences" /\ c.of \in AssetIds /\ Listing(c)
        /\ c.wrote <= c.from
    BY <1>1, <1>4, <1>8 DEF openDivergenceOf, stage, Fetched
  <2>2. PICK o \in Nat : o = open[c.of]
    BY <1>2, <2>1 DEF LedgerTyped
  <2>. DEFINE new == [c EXCEPT !.at = "ok", !.openId = o]
  <2>3. becomes(t, s, new)
    BY <1>1, <1>8, <2>2 DEF openDivergenceOf
  <2>4. new \in FetchCall
    BY <1>4 DEF FetchCall, Stages
  <2>5. /\ new.at = "ok" /\ new.route = "divergences" /\ new.rows = c.rows
        /\ new.wrote = c.wrote /\ new.from = c.from /\ new.of = c.of /\ new.openId = o
    BY <1>4, <2>1 DEF FetchCall
  <2>. HIDE DEF new
  <2>6. ASSUME o # 0, NEW j \in 1..Len(c.rows)
        PROVE  c.rows[j].id <= o /\ (c.rows[j].id = o => ~c.rows[j].resolved)
    <3>1. RowOf(c.rows[j], c.of)
      BY <2>1, <2>6 DEF Listing
    <3>2. PICK d : d = c.rows[j].id
      OBVIOUS
    <3>3. d \in 1..Len(dispute) /\ dispute[d].of = c.of /\ (c.rows[j].resolved => dispute[d].resolved)
      BY <3>1, <3>2 DEF RowOf, IdOf
    <3>4. DisputeSound(d) /\ AssetSound(c.of)
      BY <1>2, <2>1, <3>3 DEF LedgerSound
    <3>5. d <= o
      BY <2>2, <2>6, <3>3, <3>4 DEF DisputeSound
    <3>6. ~dispute[o].resolved
      BY <2>2, <2>6, <3>4 DEF AssetSound
    <3>. QED
      BY <3>2, <3>3, <3>5, <3>6
  <2>7. Listing(new)
    BY <2>1, <2>5, <2>6 DEF Listing, IsNewest
  <2>8. Fetched(new)
    BY <1>4, <2>1, <2>5, <2>7 DEF Fetched, ScoreRoutes
  <2>. QED
    BY <1>3, <2>3, <2>4, <2>8, FetchConduct DEF Becomes
<1>9. CASE readOnce(t, s)
  <2>. DEFINE new == [c EXCEPT !.at = "ok", !.from = block]
  <2>1. becomes(t, s, new) /\ c.route \in {"attestations", "role", "did"}
    BY <1>1, <1>9 DEF readOnce, received
  <2>2. new \in FetchCall
    BY <1>2, <1>4 DEF FetchCall, Stages
  <2>3. new.at = "ok" /\ new.route = c.route /\ new.wrote = c.wrote /\ new.from = block
    BY <1>4 DEF FetchCall
  <2>. HIDE DEF new
  <2>4. Fetched(new)
    BY <1>4, <2>1, <2>3 DEF Fetched, ScoreRoutes
  <2>. QED
    BY <1>3, <2>1, <2>2, <2>4, FetchConduct DEF Becomes
<1>. QED
  BY <1>6, <1>7, <1>8, <1>9

LEMMA ViewsBecome ==
  ASSUME PortalInv, NEW t \in Tabs, NEW s \in Slots, ViewStep(t, s)
  PROVE  Becomes(t, s) /\ Same
BY ScoreViews, ListViews DEF ViewStep

-----------------------------------------------------------------------------
\* The other requests.
LEMMA LoginConduct ==
  ASSUME NEW new \in LoginCall, new.at = "ok" => new.token.who = new.key
  PROVE  new \in Calls /\ Conduct(new)
BY DEF Calls, Conduct, FetchCall, LoginCall, WriteCall, LoadRoutes, WriteRoutes

LEMMA SessionConduct ==
  ASSUME NEW new \in SessionCall
  PROVE  new \in Calls /\ Conduct(new)
BY DEF Calls, Conduct, FetchCall, LoginCall, SessionCall, WriteCall, LoadRoutes, WriteRoutes

LEMMA WriteConduct ==
  ASSUME NEW new \in WriteCall, new.key \notin {Nobody, new.token.who} => new.switched,
         new.block <= block
  PROVE  new \in Calls /\ Conduct(new)
BY DEF Calls, Conduct, FetchCall, LoginCall, WriteCall, LoadRoutes, WriteRoutes

LEMMA IdleConduct == Idle \in Calls /\ Conduct(Idle)
<1>1. Idle \in Calls
  BY DEF Calls
<1>. QED
  BY <1>1, CallKinds DEF Conduct, Idle, LoginCall, WriteCall, FetchCall, Stages

\* The request of a slot, as the invariant has it.
LEMMA CallOf ==
  ASSUME PortalInv, NEW t \in Tabs, NEW s \in Slots
  PROVE  call[t][s] \in Calls /\ Conduct(call[t][s])
BY DEF PortalInv, CallsTyped, Conducted

LEMMA NewFetch ==
  ASSUME NEW route \in LoadRoutes, NEW i \in AssetIds \cap Nat, NEW wrote \in Nat, wrote <= block
  PROVE  fetchOf(route, i, wrote) \in Calls /\ Conduct(fetchOf(route, i, wrote))
<1>. DEFINE new == fetchOf(route, i, wrote)
<1>1. NoEvidence \in Evidence
  BY DEF NoEvidence, Evidence, Tiers, EVIDENCE_WEIGHT
<1>2. << >> \in Seq(ScoreRow \cup CaseRow)
  OBVIOUS
<1>3. new \in FetchCall
  BY <1>1, <1>2 DEF fetchOf, FetchCall, Stages
<1>4. /\ new.at = "sent" /\ new.route = route /\ new.of = i /\ new.wrote = wrote
      /\ new.rows = << >> /\ Len(new.rows) = 0
  BY DEF fetchOf
<1>. HIDE DEF new
<1>5. Listing(new)
  BY <1>4 DEF Listing
<1>6. Fetched(new)
  BY <1>4, <1>5 DEF Fetched
<1>. QED
  BY <1>3, <1>6, FetchConduct DEF new

LEMMA LoginRequests ==
  ASSUME PortalInv, NEW t \in Tabs, NEW s \in Slots,
         \/ \E k \in People : loginWithKey(t, s, k)
         \/ openSession(t, s)
  PROVE  Becomes(t, s) /\ Same /\ live' \subseteq Tokens /\ logins' \in Nat
<1>1. live \subseteq Tokens /\ logins \in Nat
  BY DEF PortalInv, BrowserTyped
<1>2. Same
  BY DEF loginWithKey, openSession, Same
<1>3. ASSUME NEW k \in People, loginWithKey(t, s, k) PROVE Becomes(t, s) /\ UNCHANGED serverVars
  <2>. DEFINE new == [at |-> "sent", route |-> "login", key |-> k, token |-> NoToken]
  <2>1. new \in LoginCall /\ new.at = "sent"
    BY DEF LoginCall, NoToken, Tokens
  <2>2. becomes(t, s, new) /\ UNCHANGED serverVars
    BY <1>3 DEF loginWithKey
  <2>. HIDE DEF new
  <2>. QED
    BY <2>1, <2>2, LoginConduct DEF Becomes
<1>4. CASE openSession(t, s)
  <2>1. PICK c : c = call[t][s]
    OBVIOUS
  <2>2. c \in LoginCall
    BY <1>4, <2>1, CallOf, CallKinds DEF openSession, received
  <2>. DEFINE token == [who |-> c.key, serial |-> logins + 1]
  <2>3. token \in Tokens /\ token.who = c.key
    BY <1>1, <2>2 DEF Tokens, LoginCall
  <2>4. \/ /\ logins' = logins + 1 /\ live' = live \cup {token}
           /\ becomes(t, s, [c EXCEPT !.at = "ok", !.token = token])
        \/ becomes(t, s, [c EXCEPT !.at = "failed"]) /\ UNCHANGED serverVars
    BY <1>4, <2>1 DEF openSession
  <2>. HIDE DEF token
  <2>. DEFINE opened  == [c EXCEPT !.at = "ok", !.token = token]
              refused == [c EXCEPT !.at = "failed"]
  <2>5. opened \in LoginCall /\ opened.token = token /\ opened.key = c.key
    BY <2>2, <2>3 DEF LoginCall
  <2>6. refused \in LoginCall /\ refused.at = "failed"
    BY <2>2 DEF LoginCall
  <2>. HIDE DEF opened, refused
  <2>7. opened \in Calls /\ Conduct(opened) /\ refused \in Calls /\ Conduct(refused)
    BY <2>3, <2>5, <2>6, LoginConduct
  <2>8. Becomes(t, s)
    BY <2>4, <2>7 DEF Becomes, opened, refused
  <2>. QED
    BY <1>1, <1>2, <2>3, <2>4, <2>8 DEF serverVars
<1>. QED
  BY <1>1, <1>2, <1>3, <1>4 DEF serverVars

LEMMA SessionRequest ==
  ASSUME PortalInv, NEW t \in Tabs, NEW s \in Slots, session(t, s)
  PROVE  Becomes(t, s) /\ Same
<1>1. PICK c : c = call[t][s]
  OBVIOUS
<1>2. c \in SessionCall
  BY <1>1, CallOf, CallKinds DEF session, received
<1>3. PICK answer \in {"ok", "failed"} : becomes(t, s, [c EXCEPT !.at = answer])
  BY <1>1 DEF session
<1>4. [c EXCEPT !.at = answer] \in SessionCall
  BY <1>2 DEF SessionCall
<1>. QED
  BY <1>3, <1>4, SessionConduct DEF Becomes, session, Same

\* A page's own requests.
LEMMA PageRequests ==
  ASSUME PortalInv, NEW t \in Tabs, NEW s \in Slots, NEW i \in AssetIds \cap Nat,
         \/ \E route \in scene.loads : load(t, s, route, i)
         \/ \E kind \in scene.writes : write(t, s, kind, i)
  PROVE  Becomes(t, s) /\ Same
<1>1. /\ tab[t] \in TabState /\ stored \in Storage /\ TabSound(t) /\ block \in Nat
  BY DEF PortalInv, BrowserTyped, BrowserSound
<1>2. ASSUME NEW route, load(t, s, route, i) PROVE Becomes(t, s) /\ Same
  <2>1. route \in LoadRoutes /\ becomes(t, s, fetchOf(route, i, tab[t].wrote)) /\ Same
    BY <1>1, <1>2, PageRoutes DEF load, Same, TabState
  <2>2. tab[t].wrote \in Nat /\ tab[t].wrote <= block
    BY <1>1 DEF TabState, TabSound
  <2>. QED
    BY <2>1, <2>2, NewFetch DEF Becomes
<1>3. ASSUME NEW kind, write(t, s, kind, i) PROVE Becomes(t, s) /\ Same
  <2>0. kind \in WriteRoutes
    BY <1>1, <1>3, PageRoutes DEF write, TabState
  <2>1. PICK switched \in BOOLEAN : switched = (stored.turn # tab[t].turn)
    OBVIOUS
  <2>2. PICK k : k = IF pageOf(kind).usesKey THEN stored.key ELSE Nobody
    OBVIOUS
  <2>. DEFINE new == [at |-> "sent", route |-> kind, of |-> i, token |-> tab[t].token,
                      key |-> k, switched |-> switched, block |-> 0, heard |-> TRUE]
  <2>3. becomes(t, s, new) /\ tab[t].token # NoToken /\ Same
    BY <1>3, <2>1, <2>2 DEF write, Same
  <2>4. k \in People \cup {Nobody} /\ tab[t].token \in Tokens /\ k \in {stored.key, Nobody}
    BY <1>1, <2>2 DEF Storage, TabState
  <2>5. new \in WriteCall
    BY <2>0, <2>4 DEF WriteCall
  <2>6. k \notin {Nobody, tab[t].token.who} => switched
    BY <1>1, <2>1, <2>3, <2>4 DEF TabSound
  <2>7. new.key = k /\ new.token = tab[t].token /\ new.switched = switched /\ new.block = 0
    OBVIOUS
  <2>. HIDE DEF new
  <2>8. (new.key \notin {Nobody, new.token.who} => new.switched) /\ new.block <= block
    BY <1>1, <2>6, <2>7
  <2>. QED
    BY <2>3, <2>5, <2>8, WriteConduct DEF Becomes
<1>. QED
  BY <1>2, <1>3

\* The account a write goes out for, the key and the token stay as they were.
LEMMA WriteGoesOn ==
  ASSUME NEW c \in WriteCall, Conduct(c), NEW new \in WriteCall,
         new.key = c.key, new.token = c.token, new.switched = c.switched, new.block <= block
  PROVE  new \in Calls /\ Conduct(new)
<1>1. new.key \notin {Nobody, new.token.who} => new.switched
  BY DEF Conduct
<1>. QED
  BY <1>1, WriteConduct

LEMMA SendRequest ==
  ASSUME PortalInv, NEW t \in Tabs, NEW s \in Slots, send(t, s)
  PROVE  Becomes(t, s) /\ Same
<1>1. PICK c : c = call[t][s]
  OBVIOUS
<1>2. c \in WriteCall /\ Conduct(c)
  BY <1>1, CallOf, WritesAndLoads DEF send
<1>3. PICK answer \in {"pending", "failed"} : becomes(t, s, [c EXCEPT !.at = answer])
  BY <1>1 DEF send
<1>. DEFINE new == [c EXCEPT !.at = answer]
<1>4. /\ new \in WriteCall /\ new.key = c.key /\ new.token = c.token
      /\ new.switched = c.switched /\ new.block = c.block
  BY <1>2 DEF WriteCall
<1>5. c.block <= block
  BY <1>2 DEF Conduct
<1>. HIDE DEF new
<1>6. new \in Calls /\ Conduct(new)
  BY <1>2, <1>4, <1>5, WriteGoesOn
<1>. QED
  BY <1>3, <1>6 DEF Becomes, send, Same, new

\* A request of which nothing is heard any more.
LEMMA FailedConduct ==
  ASSUME NEW c \in Calls, Conduct(c), c.at # "idle"
  PROVE  [c EXCEPT !.at = "failed"] \in Calls /\ Conduct([c EXCEPT !.at = "failed"])
<1>. DEFINE new == [c EXCEPT !.at = "failed"]
<1>1. CASE c \in LoginCall
  <2>1. new \in LoginCall /\ new.at = "failed"
    BY <1>1 DEF LoginCall
  <2>. HIDE DEF new
  <2>2. new \in Calls /\ Conduct(new)
    BY <2>1, LoginConduct
  <2>. QED
    BY <2>2 DEF new
<1>2. CASE c \in SessionCall
  <2>1. new \in SessionCall
    BY <1>2 DEF SessionCall
  <2>. QED
    BY <2>1, SessionConduct
<1>3. CASE c \in WriteCall
  <2>1. /\ new \in WriteCall /\ new.key = c.key /\ new.token = c.token
        /\ new.switched = c.switched /\ new.block = c.block
    BY <1>3 DEF WriteCall
  <2>2. c.block <= block
    BY <1>3 DEF Conduct
  <2>. HIDE DEF new
  <2>3. new \in Calls /\ Conduct(new)
    BY <1>3, <2>1, <2>2, WriteGoesOn
  <2>. QED
    BY <2>3 DEF new
<1>4. CASE c \in FetchCall
  <2>1. /\ new \in FetchCall /\ new.at = "failed" /\ new.route = c.route /\ new.of = c.of
        /\ new.rows = c.rows /\ new.wrote = c.wrote
    BY <1>4 DEF FetchCall, Stages
  <2>2. Fetched(c)
    BY <1>4 DEF Conduct
  <2>. HIDE DEF new
  <2>3. c.route = "divergences" => Listing(new)
    BY <2>1, <2>2 DEF Fetched, Listing
  <2>4. Fetched(new)
    BY <2>1, <2>2, <2>3 DEF Fetched
  <2>5. new \in Calls /\ Conduct(new)
    BY <2>1, <2>4, FetchConduct
  <2>. QED
    BY <2>5 DEF new
<1>. QED
  BY <1>1, <1>2, <1>3, <1>4 DEF Calls, Idle

LEMMA LostRequest ==
  ASSUME PortalInv, NEW t \in Tabs, NEW s \in Slots, connectionLost(t, s)
  PROVE  Becomes(t, s) /\ Same
<1>1. PICK c : c = call[t][s]
  OBVIOUS
<1>2. c \in Calls /\ Conduct(c) /\ c.at # "idle" /\ Same
  BY <1>1, CallOf DEF connectionLost, Same
<1>3. CASE c.at = "pending"
  <2>. DEFINE new == [c EXCEPT !.heard = FALSE]
  <2>1. becomes(t, s, new)
    BY <1>1, <1>3 DEF connectionLost
  <2>2. c \in WriteCall
    BY <1>2, <1>3, CallKinds
  <2>3. /\ new \in WriteCall /\ new.key = c.key /\ new.token = c.token
        /\ new.switched = c.switched /\ new.block = c.block
    BY <2>2 DEF WriteCall
  <2>4. c.block <= block
    BY <1>2, <2>2 DEF Conduct
  <2>. HIDE DEF new
  <2>5. new \in Calls /\ Conduct(new)
    BY <1>2, <2>2, <2>3, <2>4, WriteGoesOn
  <2>. QED
    BY <1>2, <2>1, <2>5 DEF Becomes
<1>4. CASE c.at # "pending"
  <2>1. becomes(t, s, [c EXCEPT !.at = "failed"])
    BY <1>1, <1>4 DEF connectionLost
  <2>. QED
    BY <1>2, <2>1, FailedConduct DEF Becomes
<1>. QED
  BY <1>3, <1>4

\* A write's handler returns from its wait, with the transaction or without.
LEMMA WaitRequest ==
  ASSUME PortalInv, NEW t \in Tabs, NEW s \in Slots, wait(t, s)
  PROVE  World /\ \E new \in Calls : becomes(t, s, new) /\ Conduct(new)'
<1>1. PICK c : c = call[t][s]
  OBVIOUS
<1>2. c \in WriteCall /\ Conduct(c) /\ block \in Nat /\ clock \in Nat
  BY <1>1, CallOf, WritesAndLoads DEF wait, PortalInv, BrowserTyped
<1>3. c.of \in Nat /\ c.block <= block /\ c.block \in Nat
      /\ (c.key \notin {Nobody, c.token.who} => c.switched)
  BY <1>2 DEF Conduct, WriteCall
<1>4. ASSUME NEW new \in WriteCall, new.key = c.key, new.token = c.token, new.switched = c.switched,
             new.block <= block'
      PROVE  new \in Calls /\ Conduct(new)'
  BY <1>3, <1>4 DEF Calls, Conduct, FetchCall, LoginCall, WriteCall, LoadRoutes, WriteRoutes
<1>5. LedgerSound
  BY DEF PortalInv
<1>6. CASE transaction /\ effectOf(c.route, c.of) /\ clock' = clock
           /\ becomes(t, s, IF c.heard THEN [c EXCEPT !.at = "ok", !.block = block + 1] ELSE Idle)
  <2>1. Moves /\ block' = block + 1 /\ clock' = clock
    BY <1>3, <1>6, EffectMoves DEF transaction
  <2>2. World
    BY <2>1 DEF World
  <2>3. CASE c.heard
    <3>1. PICK n \in Nat : n = block + 1
      BY <1>2
    <3>. DEFINE new == [c EXCEPT !.at = "ok", !.block = n]
    <3>2. becomes(t, s, new)
      BY <1>6, <2>3, <3>1
    <3>3. /\ new \in WriteCall /\ new.key = c.key /\ new.token = c.token
          /\ new.switched = c.switched /\ new.block = n
      BY <1>2 DEF WriteCall
    <3>4. n <= block'
      BY <2>1, <3>1
    <3>. HIDE DEF new
    <3>5. new \in Calls /\ Conduct(new)'
      BY <1>4, <3>3, <3>4
    <3>. QED
      BY <2>2, <3>2, <3>5
  <2>4. CASE ~c.heard
    <3>1. Conduct(Idle)'
      BY <1>5, <1>2, <2>2, IdleConduct, ConductStays
    <3>. QED
      BY <1>6, <2>2, <2>4, <3>1, IdleConduct
  <2>. QED
    BY <2>3, <2>4
<1>7. CASE /\ becomes(t, s, IF c.heard THEN [c EXCEPT !.at = "failed"] ELSE Idle)
           /\ Same
  <2>1. World
    BY <1>7 DEF World, Same
  <2>2. CASE c.heard
    <3>1. c \in Calls /\ c.at # "idle"
      BY <1>2, CallOf, <1>1, CallKinds
    <3>2. PICK new : new = [c EXCEPT !.at = "failed"]
      OBVIOUS
    <3>3. new \in Calls /\ Conduct(new)
      BY <1>2, <3>1, <3>2, FailedConduct
    <3>4. Conduct(new)'
      BY <1>2, <1>5, <2>1, <3>3, ConductStays
    <3>. QED
      BY <1>7, <2>1, <2>2, <3>2, <3>3, <3>4
  <2>3. CASE ~c.heard
    <3>1. Conduct(Idle)'
      BY <1>5, <1>2, <2>1, IdleConduct, ConductStays
    <3>. QED
      BY <1>7, <2>1, <2>3, <3>1, IdleConduct
  <2>. QED
    BY <2>2, <2>3
<1>. QED
  BY <1>1, <1>6, <1>7 DEF wait, Same

-----------------------------------------------------------------------------
\* What is stored, and one tab, change: a login stores its token with its key,
\* and nothing else replaces either.
LEMMA BrowserStep ==
  ASSUME PortalInv, NEW t \in Tabs, NEW v \in TabState, NEW w \in Storage,
         tab' = [tab EXCEPT ![t] = v], stored' = w,
         w.turn > stored.turn \/ (w.turn = stored.turn /\ w.key = stored.key),
         w.token # NoToken => w.token.who = w.key,
         v.turn <= w.turn,
         v.token # NoToken /\ v.turn = w.turn => v.token.who = w.key,
         v.wrote <= block,
         UNCHANGED <<live, logins, block, clock, scene>>
  PROVE  BrowserTyped' /\ BrowserSound'
<1>1. BrowserTyped /\ BrowserSound
  BY DEF PortalInv
<1>2. tab' \in [Tabs -> TabState] /\ tab'[t] = v /\ \A u \in Tabs \ {t} : tab'[u] = tab[u]
  BY <1>1 DEF BrowserTyped
<1>3. BrowserTyped'
  BY <1>1, <1>2 DEF BrowserTyped
<1>4. ASSUME NEW u \in Tabs PROVE TabSound(u)'
  <2>1. CASE u = t
    BY <1>2, <2>1 DEF TabSound
  <2>2. CASE u # t
    <3>1. tab'[u] = tab[u] /\ TabSound(u) /\ tab[u].turn \in Nat /\ stored.turn \in Nat /\ w.turn \in Nat
      BY <1>1, <1>2, <2>2 DEF BrowserTyped, BrowserSound, TabState, Storage
    <3>2. tab[u].turn <= w.turn
          /\ (tab[u].turn = w.turn => w.turn = stored.turn /\ w.key = stored.key)
      BY <3>1 DEF TabSound
    <3>. QED
      BY <3>1, <3>2 DEF TabSound
  <2>. QED
    BY <2>1, <2>2
<1>. QED
  BY <1>3, <1>4 DEF BrowserSound

LEMMA BrowserStands ==
  ASSUME PortalInv, UNCHANGED <<browserVars, scene>>, live' \subseteq Tokens, logins' \in Nat, World
  PROVE  BrowserTyped' /\ BrowserSound'
<1>1. BrowserTyped /\ BrowserSound /\ tab' = tab /\ stored' = stored
  BY DEF PortalInv, browserVars
<1>2. block \in Nat /\ block' \in Nat /\ block <= block' /\ clock' \in Nat
  BY <1>1 DEF BrowserTyped, World
<1>3. BrowserTyped'
  BY <1>1, <1>2 DEF BrowserTyped
<1>4. ASSUME NEW u \in Tabs PROVE TabSound(u)'
  <2>1. TabSound(u) /\ tab[u].wrote \in Nat
    BY <1>1 DEF BrowserSound, BrowserTyped, TabState
  <2>. QED
    BY <1>1, <1>2, <2>1 DEF TabSound
<1>. QED
  BY <1>1, <1>3, <1>4 DEF BrowserSound

\* A step that leaves the chain alone, and changes one request.
LEMMA QuietStep ==
  ASSUME PortalInv, NEW t \in Tabs, NEW s \in Slots, Becomes(t, s), Same
  PROVE  LedgerSound' /\ CallsTyped' /\ Conducted'
<1>1. LedgerSound /\ block \in Nat /\ clock \in Nat /\ World
  BY DEF PortalInv, BrowserTyped, World, Same
<1>2. PICK new \in Calls : becomes(t, s, new) /\ Conduct(new)
  BY DEF Becomes
<1>3. Conduct(new)'
  BY <1>1, <1>2, ConductStays
<1>. QED
  BY <1>1, <1>2, <1>3, CallStep, WorldSound

\* A step that leaves the requests alone.
LEMMA RequestsStand ==
  ASSUME PortalInv, call' = call, World
  PROVE  LedgerSound' /\ CallsTyped' /\ Conducted'
<1>1. LedgerSound /\ block \in Nat /\ clock \in Nat
  BY DEF PortalInv, BrowserTyped
<1>2. ASSUME NEW u \in Tabs, NEW r \in Slots PROVE Conduct(call[u][r])'
  <2>1. PICK c : c = call[u][r]
    OBVIOUS
  <2>2. c \in Calls /\ Conduct(c) /\ call'[u][r] = c
    BY <2>1, CallOf
  <2>3. Conduct(c)'
    BY <1>1, <2>2, ConductStays
  <2>. QED
    BY <2>2, <2>3
<1>. QED
  BY <1>1, <1>2, WorldSound DEF PortalInv, CallsTyped, Conducted

LEMMA LoggedIn ==
  ASSUME PortalInv, NEW t \in Tabs, NEW s \in Slots, loggedIn(t, s)
  PROVE  PortalInv'
<1>1. PICK c : c = call[t][s]
  OBVIOUS
<1>2. c \in LoginCall /\ Conduct(c) /\ c.at \in {"ok", "failed"}
  BY <1>1, CallOf, CallKinds DEF loggedIn
<1>3. Becomes(t, s) /\ Same /\ UNCHANGED <<live, logins, block, clock, scene>>
  BY IdleConduct DEF loggedIn, Becomes, Same, serverVars
<1>4. stored \in Storage /\ tab \in [Tabs -> TabState] /\ live \subseteq Tokens /\ logins \in Nat
      /\ block \in Nat /\ TabSound(t)
  BY DEF PortalInv, BrowserTyped, BrowserSound
<1>5. BrowserTyped' /\ BrowserSound'
  <2>1. CASE c.at = "ok"
    <3>1. c.token.who = c.key /\ c.token \in Tokens /\ c.key \in People
      BY <1>2, <2>1 DEF Conduct, LoginCall
    <3>2. tab[t] \in TabState /\ tab[t].turn <= stored.turn /\ tab[t].wrote <= block
      BY <1>4 DEF TabSound
    <3>. DEFINE w == [token |-> c.token, key |-> c.key, turn |-> stored.turn + 1]
                v == [[tab[t] EXCEPT !.at = "shell"] EXCEPT !.effect = TRUE]
    <3>3. stored' = w /\ tab' = [tab EXCEPT ![t] = v]
      BY <1>1, <1>4, <2>1, <3>2 DEF loggedIn, TabState
    <3>4. w \in Storage /\ w.turn = stored.turn + 1 /\ w.token.who = w.key
      BY <1>4, <3>1 DEF Storage
    <3>5. v \in TabState /\ v.turn = tab[t].turn /\ v.wrote = tab[t].wrote
      BY <3>2 DEF TabState
    <3>. HIDE DEF w, v
    <3>6. w.turn > stored.turn /\ v.turn < w.turn /\ v.turn # w.turn /\ v.turn <= w.turn
      BY <1>4, <3>2, <3>4, <3>5 DEF Storage, TabState
    <3>. QED
      BY <1>3, <3>2, <3>3, <3>4, <3>5, <3>6, BrowserStep
  <2>2. CASE c.at # "ok"
    <3>1. UNCHANGED <<browserVars, scene>> /\ World
      BY <1>1, <1>3, <2>2 DEF loggedIn, World, Same
    <3>. QED
      BY <1>3, <1>4, <3>1, BrowserStands
  <2>. QED
    BY <2>1, <2>2
<1>. QED
  BY <1>3, <1>5, QuietStep DEF PortalInv

LEMMA ShellReady ==
  ASSUME PortalInv, NEW t \in Tabs, NEW s \in Slots, shellReady(t, s)
  PROVE  PortalInv'
<1>1. PICK c : c = call[t][s]
  OBVIOUS
<1>2. c \in SessionCall
  BY <1>1, CallOf, CallKinds DEF shellReady
<1>3. Becomes(t, s) /\ Same /\ UNCHANGED <<live, logins, block, clock, scene>> /\ stored' = stored
  BY IdleConduct DEF shellReady, Becomes, Same, serverVars
<1>4. stored \in Storage /\ tab[t] \in TabState /\ live \subseteq Tokens /\ logins \in Nat
      /\ block \in Nat /\ TabSound(t) /\ tab \in [Tabs -> TabState]
      /\ (stored.token # NoToken => stored.token.who = stored.key)
  BY DEF PortalInv, BrowserTyped, BrowserSound
<1>5. BrowserTyped' /\ BrowserSound'
  <2>1. CASE c.mounted
    <3>1. PICK token, turn : /\ token = IF tab[t].me = Nobody THEN stored.token ELSE tab[t].token
                             /\ turn = IF tab[t].me = Nobody THEN stored.turn ELSE tab[t].turn
      OBVIOUS
    <3>2. c.token.who \in People \cup {Nobody}
      BY <1>2 DEF SessionCall, Tokens
    <3>. DEFINE v == [[[tab[t] EXCEPT !.me = c.token.who] EXCEPT !.token = token] EXCEPT !.turn = turn]
    <3>3. tab' = [tab EXCEPT ![t] = v]
      BY <1>1, <1>4, <2>1, <3>1 DEF shellReady, TabState
    <3>4. token \in Tokens /\ turn \in Nat /\ turn <= stored.turn
          /\ (token # NoToken /\ turn = stored.turn => token.who = stored.key)
      BY <1>4, <3>1 DEF TabSound, TabState, Storage
    <3>5. v \in TabState /\ v.token = token /\ v.turn = turn /\ v.wrote = tab[t].wrote
      BY <1>4, <3>2, <3>4 DEF TabState
    <3>6. v.wrote <= block
      BY <1>4, <3>5 DEF TabSound
    <3>. HIDE DEF v
    <3>. QED
      BY <1>3, <1>4, <3>3, <3>4, <3>5, <3>6, BrowserStep
  <2>2. CASE ~c.mounted
    <3>1. UNCHANGED <<browserVars, scene>> /\ World
      BY <1>1, <1>3, <2>2 DEF shellReady, World, Same, browserVars
    <3>. QED
      BY <1>3, <1>4, <3>1, BrowserStands
  <2>. QED
    BY <2>1, <2>2
<1>. QED
  BY <1>3, <1>5, QuietStep DEF PortalInv

\* A tab that leaves the shell, with the stored token or without.
LEMMA LeavesShell ==
  ASSUME PortalInv, NEW t \in Tabs, leave(t), clearSession \/ stored' = stored,
         UNCHANGED <<live, logins, block, clock, scene>>
  PROVE  BrowserTyped' /\ BrowserSound'
<1>1. stored \in Storage /\ tab[t] \in TabState /\ TabSound(t) /\ tab \in [Tabs -> TabState]
      /\ (stored.token # NoToken => stored.token.who = stored.key)
  BY DEF PortalInv, BrowserTyped, BrowserSound
<1>2. PICK wrote \in Nat : wrote = tab[t].wrote /\ wrote <= block
  BY <1>1 DEF TabState, TabSound
<1>. DEFINE v == [AtLogin EXCEPT !.wrote = wrote]
<1>3. tab' = [tab EXCEPT ![t] = v]
  BY <1>2 DEF leave
<1>4. v \in TabState /\ v.turn = 0 /\ v.token = NoToken /\ v.wrote = wrote
  <2>1. v \in TabState
    BY LoginState DEF TabState
  <2>. QED
    BY <2>1 DEF TabState, AtLogin
<1>5. PICK w : stored' = w
  OBVIOUS
<1>6. /\ w \in Storage /\ w.turn = stored.turn /\ w.key = stored.key
      /\ w.token \in {stored.token, NoToken} /\ w.turn \in Nat
  BY <1>1, <1>5 DEF clearSession, Storage, NoToken, Tokens
<1>. HIDE DEF v
<1>7. v.turn <= w.turn /\ (w.token # NoToken => w.token.who = w.key)
  BY <1>1, <1>4, <1>6
<1>. QED
  BY <1>2, <1>3, <1>4, <1>5, <1>6, <1>7, BrowserStep

\* Its page's requests go, but for a write that was sent.
LEMMA PageLeft ==
  ASSUME PortalInv, NEW t \in Tabs
  PROVE  /\ pageLeft(t) \in [Slots -> Calls]
         /\ \A s \in Slots : Conduct(pageLeft(t)[s])
<1>1. ASSUME NEW s \in Slots PROVE pageLeft(t)[s] \in Calls /\ Conduct(pageLeft(t)[s])
  <2>1. PICK c : c = call[t][s]
    OBVIOUS
  <2>2. c \in Calls /\ Conduct(c)
    BY <2>1, CallOf
  <2>3. CASE isWrite(c) /\ c.at \in {"sent", "pending"}
    <3>1. c \in WriteCall
      BY <2>2, <2>3, WritesAndLoads
    <3>2. PICK d : d = [c EXCEPT !.heard = FALSE]
      OBVIOUS
    <3>3. /\ d \in WriteCall /\ d.key = c.key /\ d.token = c.token
          /\ d.switched = c.switched /\ d.block = c.block
      BY <3>1, <3>2 DEF WriteCall
    <3>4. c.block <= block
      BY <2>2, <3>1 DEF Conduct
    <3>5. pageLeft(t)[s] = d
      BY <2>1, <2>3, <3>2 DEF pageLeft
    <3>. QED
      BY <2>2, <3>1, <3>3, <3>4, <3>5, WriteGoesOn
  <2>4. CASE ~(isWrite(c) /\ c.at \in {"sent", "pending"})
    <3>1. pageLeft(t)[s] \in {c, Idle}
      BY <2>1, <2>4 DEF pageLeft
    <3>2. CASE pageLeft(t)[s] = c
      BY <2>2, <3>2
    <3>3. CASE pageLeft(t)[s] = Idle
      BY <3>3, IdleConduct
    <3>. QED
      BY <3>1, <3>2, <3>3
  <2>. QED
    BY <2>3, <2>4
<1>. QED
  BY <1>1 DEF pageLeft

\* Its checks that are pending find it unmounted.
LEMMA Unmounted ==
  ASSUME PortalInv, NEW t \in Tabs
  PROVE  /\ unmounted(t) \in [Slots -> Calls]
         /\ \A s \in Slots : Conduct(unmounted(t)[s])
<1>1. ASSUME NEW s \in Slots PROVE unmounted(t)[s] \in Calls /\ Conduct(unmounted(t)[s])
  <2>1. PICK c : c = call[t][s]
    OBVIOUS
  <2>2. c \in Calls /\ Conduct(c)
    BY <2>1, CallOf
  <2>3. CASE c # Idle /\ c.route = "session"
    <3>1. c \in SessionCall
      BY <2>2, <2>3, CallKinds
    <3>2. PICK d : d = [c EXCEPT !.mounted = FALSE]
      OBVIOUS
    <3>3. d \in SessionCall
      BY <3>1, <3>2 DEF SessionCall
    <3>4. unmounted(t)[s] = d
      BY <2>1, <2>3, <3>2 DEF unmounted
    <3>. QED
      BY <3>3, <3>4, SessionConduct
  <2>4. CASE ~(c # Idle /\ c.route = "session")
    <3>1. unmounted(t)[s] = pageLeft(t)[s]
      BY <2>1, <2>4 DEF unmounted
    <3>. QED
      BY <3>1, PageLeft
  <2>. QED
    BY <2>3, <2>4
<1>. QED
  BY <1>1 DEF unmounted

\* All the requests of a tab change at once.
LEMMA TabCallsStep ==
  ASSUME PortalInv, NEW t \in Tabs, NEW f \in [Slots -> Calls], \A s \in Slots : Conduct(f[s]),
         call' = [call EXCEPT ![t] = f], Same
  PROVE  LedgerSound' /\ CallsTyped' /\ Conducted'
<1>1. LedgerSound /\ block \in Nat /\ clock \in Nat /\ World /\ call \in [Tabs -> [Slots -> Calls]]
  BY DEF PortalInv, BrowserTyped, World, Same, CallsTyped
<1>2. call' \in [Tabs -> [Slots -> Calls]]
  BY <1>1
<1>3. ASSUME NEW u \in Tabs, NEW r \in Slots PROVE Conduct(call[u][r])'
  <2>1. PICK c : c = call'[u][r]
    OBVIOUS
  <2>2. c \in Calls /\ Conduct(c)
    <3>1. CASE u = t
      BY <1>1, <2>1, <3>1
    <3>2. CASE u # t
      <4>1. call'[u] = call[u]
        BY <1>1, <3>2
      <4>. QED
        BY <2>1, <4>1, CallOf
    <3>. QED
      BY <3>1, <3>2
  <2>3. Conduct(c)'
    BY <1>1, <2>2, ConductStays
  <2>. QED
    BY <2>1, <2>3
<1>. QED
  BY <1>1, <1>2, <1>3, WorldSound DEF CallsTyped, Conducted

LEMMA CheckSession ==
  ASSUME PortalInv, NEW t \in Tabs, NEW s \in Slots, checkSession(t, s)
  PROVE  PortalInv'
<1>1. Same /\ UNCHANGED <<live, logins, block, clock, scene>> /\ stored' = stored
  BY DEF checkSession, Same, serverVars
<1>2. stored \in Storage /\ tab[t] \in TabState /\ TabSound(t) /\ tab \in [Tabs -> TabState]
      /\ (stored.token # NoToken => stored.token.who = stored.key)
  BY DEF PortalInv, BrowserTyped, BrowserSound
<1>3. CASE stored.token = NoToken
  <2>1. leave(t) /\ call' = [call EXCEPT ![t] = unmounted(t)]
    BY <1>3 DEF checkSession
  <2>2. BrowserTyped' /\ BrowserSound'
    BY <1>1, <2>1, LeavesShell
  <2>3. LedgerSound' /\ CallsTyped' /\ Conducted'
    BY <1>1, <2>1, Unmounted, TabCallsStep
  <2>. QED
    BY <2>2, <2>3 DEF PortalInv
<1>4. CASE stored.token # NoToken
  <2>. DEFINE new == [at |-> "sent", route |-> "session", token |-> stored.token, mounted |-> TRUE]
              v == [tab[t] EXCEPT !.effect = FALSE]
  <2>1. becomes(t, s, new) /\ tab' = [tab EXCEPT ![t] = v]
    BY <1>2, <1>4 DEF checkSession
  <2>2. new \in SessionCall
    BY <1>2 DEF SessionCall, Storage
  <2>3. Becomes(t, s)
    BY <2>1, <2>2, SessionConduct DEF Becomes
  <2>4. v \in TabState /\ v.turn = tab[t].turn /\ v.token = tab[t].token /\ v.wrote = tab[t].wrote
    BY <1>2 DEF TabState
  <2>. HIDE DEF v
  <2>5. /\ v.turn <= stored.turn /\ v.wrote <= block
        /\ v.token # NoToken /\ v.turn = stored.turn => v.token.who = stored.key
    BY <1>2, <2>4 DEF TabSound
  <2>6. BrowserTyped' /\ BrowserSound'
    BY <1>1, <1>2, <2>1, <2>4, <2>5, BrowserStep
  <2>. QED
    BY <1>1, <2>3, <2>6, QuietStep DEF PortalInv
<1>. QED
  BY <1>3, <1>4

LEMMA SignOut ==
  ASSUME PortalInv, NEW t \in Tabs, signOut(t)
  PROVE  PortalInv'
<1>1. /\ Same /\ UNCHANGED <<live, logins, block, clock, scene>>
      /\ clearSession /\ leave(t) /\ call' = [call EXCEPT ![t] = unmounted(t)]
  BY DEF signOut, Same, serverVars
<1>2. BrowserTyped' /\ BrowserSound'
  BY <1>1, LeavesShell
<1>3. LedgerSound' /\ CallsTyped' /\ Conducted'
  BY <1>1, Unmounted, TabCallsStep
<1>. QED
  BY <1>2, <1>3 DEF PortalInv

LEMMA CheckFailed ==
  ASSUME PortalInv, NEW t \in Tabs, NEW s \in Slots, checkFailed(t, s)
  PROVE  PortalInv'
<1>1. /\ Same /\ UNCHANGED <<live, logins, block, clock, scene>>
      /\ clearSession /\ leave(t) /\ call' = [call EXCEPT ![t] = [unmounted(t) EXCEPT ![s] = Idle]]
  BY DEF checkFailed, Same, serverVars
<1>2. BrowserTyped' /\ BrowserSound'
  BY <1>1, LeavesShell
<1>3. PICK f : f = [unmounted(t) EXCEPT ![s] = Idle]
  OBVIOUS
<1>4. PICK g \in [Slots -> Calls] : g = unmounted(t) /\ \A r \in Slots : Conduct(g[r])
  BY Unmounted
<1>5. f \in [Slots -> Calls] /\ \A r \in Slots : f[r] \in {g[r], Idle}
  BY <1>3, <1>4, IdleConduct
<1>6. \A r \in Slots : Conduct(f[r])
  <2>. TAKE r \in Slots
  <2>1. CASE f[r] = g[r]
    BY <1>4, <2>1
  <2>2. CASE f[r] = Idle
    BY <2>2, IdleConduct
  <2>. QED
    BY <1>5, <2>1, <2>2
<1>7. call' = [call EXCEPT ![t] = f]
  BY <1>1, <1>3
<1>8. LedgerSound' /\ CallsTyped' /\ Conducted'
  BY <1>1, <1>5, <1>6, <1>7, TabCallsStep
<1>. QED
  BY <1>2, <1>8 DEF PortalInv

\* A change of page, and a rendering.
LEMMA TabTurns ==
  ASSUME PortalInv, NEW t \in Tabs, navigate(t) \/ render(t)
  PROVE  PortalInv'
<1>1. /\ Same /\ World /\ UNCHANGED <<live, logins, block, clock, scene>> /\ stored' = stored
  BY DEF navigate, render, Same, World, serverVars
<1>2. stored \in Storage /\ tab[t] \in TabState /\ TabSound(t) /\ tab \in [Tabs -> TabState]
      /\ (stored.token # NoToken => stored.token.who = stored.key)
  BY DEF PortalInv, BrowserTyped, BrowserSound
<1>3. CASE navigate(t)
  <2>. DEFINE at(p) == [tab[t] EXCEPT !.page = p, !.effect = TRUE, !.shown = Blank,
                                      !.token = stored.token, !.turn = stored.turn]
  <2>1. PICK p \in scene.pages : tab' = [tab EXCEPT ![t] = at(p)]
    BY <1>2, <1>3 DEF navigate
  <2>2. p \in Pages /\ Blank \in Shown /\ stored.token \in Tokens /\ stored.turn \in Nat
    BY <1>2, SceneAssumption DEF PortalInv, BrowserTyped, Blank, Shown, Storage
  <2>. DEFINE v == at(p)
  <2>3. v \in TabState /\ v.turn = stored.turn /\ v.token = stored.token /\ v.wrote = tab[t].wrote
    BY <1>2, <2>2 DEF TabState
  <2>4. v.turn <= stored.turn
    BY <2>2, <2>3
  <2>5. tab' = [tab EXCEPT ![t] = v]
    BY <2>1
  <2>. HIDE DEF at, v
  <2>6. v.wrote <= block /\ (v.token # NoToken => v.token.who = stored.key)
    BY <1>2, <2>3 DEF TabSound
  <2>7. BrowserTyped' /\ BrowserSound'
    BY <1>1, <1>2, <2>3, <2>4, <2>5, <2>6, BrowserStep
  <2>8. call' = [call EXCEPT ![t] = pageLeft(t)]
    BY <1>3 DEF navigate
  <2>9. LedgerSound' /\ CallsTyped' /\ Conducted'
    BY <1>1, <2>8, PageLeft, TabCallsStep
  <2>. QED
    BY <2>7, <2>9 DEF PortalInv
<1>4. CASE render(t)
  <2>0. stored.token \in Tokens /\ stored.turn \in Nat
    BY <1>2 DEF Storage
  <2>. DEFINE v == [[tab[t] EXCEPT !.token = stored.token] EXCEPT !.turn = stored.turn]
  <2>1. tab' = [tab EXCEPT ![t] = v]
    BY <1>2, <1>4 DEF render, TabState
  <2>2. v \in TabState /\ v.turn = stored.turn /\ v.token = stored.token /\ v.wrote = tab[t].wrote
    BY <1>2, <2>0 DEF TabState
  <2>5. v.turn <= stored.turn
    BY <2>0, <2>2
  <2>. HIDE DEF v
  <2>3. v.wrote <= block /\ (v.token # NoToken => v.token.who = stored.key)
    BY <1>2, <2>2 DEF TabSound
  <2>4. BrowserTyped' /\ BrowserSound'
    BY <1>1, <1>2, <2>1, <2>2, <2>3, <2>5, BrowserStep
  <2>6. call' = call
    BY <1>4 DEF render
  <2>. QED
    BY <1>1, <2>4, <2>6, RequestsStand DEF PortalInv
<1>. QED
  BY <1>3, <1>4

\* The page tells the user that the write is done, and loads again.
LEMMA Written ==
  ASSUME PortalInv, NEW t \in Tabs, NEW s \in Slots, written(t, s)
  PROVE  PortalInv'
<1>1. PICK c : c = call[t][s]
  OBVIOUS
<1>2. c \in WriteCall /\ Conduct(c)
  BY <1>1, CallOf, WritesAndLoads DEF written
<1>3. Same /\ UNCHANGED <<live, logins, block, clock, scene>> /\ stored' = stored
  BY DEF written, Same, serverVars
<1>4. stored \in Storage /\ tab[t] \in TabState /\ TabSound(t) /\ tab \in [Tabs -> TabState]
      /\ (stored.token # NoToken => stored.token.who = stored.key)
  BY DEF PortalInv, BrowserTyped, BrowserSound
<1>5. c.of \in AssetIds \cap Nat /\ c.route \in WriteRoutes /\ c.block \in Nat /\ c.block <= block
  BY <1>2 DEF Conduct, WriteCall
<1>6. PICK wrote \in Nat : /\ wrote = IF c.block > tab[t].wrote THEN c.block ELSE tab[t].wrote
                           /\ wrote <= block
  BY <1>4, <1>5 DEF TabState, TabSound
<1>. DEFINE shown == [tab[t].shown EXCEPT !.reloaded = FALSE, !.crossed = overlapped(t, wrote)]
            v == [[tab[t] EXCEPT !.wrote = wrote] EXCEPT !.shown = shown]
<1>7. tab' = [tab EXCEPT ![t] = v]
  BY <1>1, <1>4, <1>6 DEF written, TabState
<1>8. v \in TabState /\ v.turn = tab[t].turn /\ v.token = tab[t].token /\ v.wrote = wrote
  <2>1. shown \in Shown
    BY <1>4 DEF TabState, Shown, overlapped
  <2>. HIDE DEF shown
  <2>. QED
    BY <1>4, <1>6, <2>1 DEF TabState
<1>. HIDE DEF v
<1>9. /\ v.turn <= stored.turn /\ v.wrote <= block
      /\ v.token # NoToken /\ v.turn = stored.turn => v.token.who = stored.key
  BY <1>4, <1>6, <1>8 DEF TabSound
<1>10. BrowserTyped' /\ BrowserSound'
  BY <1>3, <1>4, <1>7, <1>8, <1>9, BrowserStep
<1>11. becomes(t, s, fetchOf(pageOf(c.route).load, c.of, wrote))
  BY <1>1, <1>6 DEF written
<1>12. pageOf(c.route).load \in LoadRoutes
  BY <1>5, PageRoutes
<1>13. Becomes(t, s)
  BY <1>5, <1>6, <1>11, <1>12, NewFetch DEF Becomes
<1>. QED
  BY <1>3, <1>10, <1>13, QuietStep DEF PortalInv

\* An answer is shown.
LEMMA Answered ==
  ASSUME PortalInv, NEW t \in Tabs, NEW s \in Slots, answered(t, s)
  PROVE  PortalInv'
<1>1. Becomes(t, s) /\ Same /\ World /\ UNCHANGED <<live, logins, block, clock, scene>>
      /\ stored' = stored
  BY IdleConduct DEF answered, Becomes, Same, World, serverVars
<1>2. /\ stored \in Storage /\ tab \in [Tabs -> TabState] /\ tab[t] \in TabState /\ TabSound(t)
      /\ live \subseteq Tokens /\ logins \in Nat
      /\ (stored.token # NoToken => stored.token.who = stored.key)
  BY DEF PortalInv, BrowserTyped, BrowserSound
<1>3. CASE showLoad(t, s)
  <2>1. PICK c : c = call[t][s]
    OBVIOUS
  <2>2. c.from \in Nat
    BY <1>3, <2>1, CallOf, WritesAndLoads DEF showLoad, FetchCall
  <2>3. PICK reloaded \in BOOLEAN :
          reloaded = (tab[t].shown.reloaded \/ c.wrote = tab[t].wrote)
    OBVIOUS
  <2>. DEFINE shown == [[tab[t].shown EXCEPT !.from = c.from] EXCEPT !.reloaded = reloaded]
              v == [tab[t] EXCEPT !.shown = shown]
  <2>4. shown \in Shown
    BY <1>2, <2>2 DEF TabState, Shown
  <2>5. tab' = [tab EXCEPT ![t] = v]
    BY <1>2, <1>3, <2>1, <2>3 DEF showLoad, TabState, Shown
  <2>. HIDE DEF shown
  <2>6. v \in TabState /\ v.turn = tab[t].turn /\ v.token = tab[t].token /\ v.wrote = tab[t].wrote
    BY <1>2, <2>4 DEF TabState
  <2>. HIDE DEF v
  <2>7. /\ v.turn <= stored.turn /\ v.wrote <= block
        /\ v.token # NoToken /\ v.turn = stored.turn => v.token.who = stored.key
    BY <1>2, <2>6 DEF TabSound
  <2>8. BrowserTyped' /\ BrowserSound'
    BY <1>1, <1>2, <2>5, <2>6, <2>7, BrowserStep
  <2>. QED
    BY <1>1, <2>8, QuietStep DEF PortalInv
<1>4. CASE UNCHANGED tab
  <2>1. BrowserTyped' /\ BrowserSound'
    BY <1>1, <1>2, <1>4, BrowserStands DEF browserVars
  <2>. QED
    BY <1>1, <2>1, QuietStep DEF PortalInv
<1>. QED
  BY <1>3, <1>4 DEF answered

-----------------------------------------------------------------------------
\* Every step of the portal.
LEMMA RequestStep ==
  ASSUME PortalInv, NEW t \in Tabs, NEW s \in Slots, Becomes(t, s), Same,
         UNCHANGED <<browserVars, scene>>, live' \subseteq Tokens, logins' \in Nat
  PROVE  PortalInv'
<1>1. World
  BY DEF World, Same
<1>2. BrowserTyped' /\ BrowserSound'
  BY <1>1, BrowserStands
<1>. QED
  BY <1>2, QuietStep DEF PortalInv

LEMMA SlotStep ==
  ASSUME PortalInv, NEW t \in Tabs, NEW s \in Slots, scene.ids \subseteq AssetIds \cap Nat,
         \/ checkSession(t, s) \/ Serve(t, s) \/ Continue(t, s) \/ User(t, s)
         \/ connectionLost(t, s)
  PROVE  PortalInv'
<1>1. live \subseteq Tokens /\ logins \in Nat
  BY DEF PortalInv, BrowserTyped
<1>2. CASE View(t, s)
  <2>1. Becomes(t, s) /\ Same /\ UNCHANGED <<serverVars, browserVars, scene>>
    BY <1>2, ViewsBecome DEF View
  <2>. QED
    BY <1>1, <2>1, RequestStep DEF serverVars
<1>3. CASE openSession(t, s)
  <2>1. UNCHANGED <<browserVars, scene>>
    BY <1>3 DEF openSession
  <2>. QED
    BY <1>3, <2>1, LoginRequests, RequestStep
<1>4. CASE session(t, s)
  <2>1. UNCHANGED <<serverVars, browserVars, scene>>
    BY <1>4 DEF session
  <2>. QED
    BY <1>1, <1>4, <2>1, SessionRequest, RequestStep DEF serverVars
<1>5. CASE send(t, s)
  <2>1. UNCHANGED <<serverVars, browserVars, scene>>
    BY <1>5 DEF send
  <2>. QED
    BY <1>1, <1>5, <2>1, SendRequest, RequestStep DEF serverVars
<1>6. CASE wait(t, s)
  <2>1. UNCHANGED <<serverVars, browserVars, scene>>
    BY <1>6 DEF wait
  <2>2. World /\ \E new \in Calls : becomes(t, s, new) /\ Conduct(new)'
    BY <1>6, WaitRequest
  <2>3. CallsTyped' /\ Conducted'
    BY <2>2, CallStep
  <2>4. BrowserTyped' /\ BrowserSound'
    BY <1>1, <2>1, <2>2, BrowserStands DEF serverVars
  <2>5. LedgerSound'
    BY <2>2, WorldSound DEF PortalInv
  <2>. QED
    BY <2>3, <2>4, <2>5 DEF PortalInv
<1>8. CASE connectionLost(t, s)
  <2>1. UNCHANGED <<serverVars, browserVars, scene>>
    BY <1>8 DEF connectionLost
  <2>. QED
    BY <1>1, <1>8, <2>1, LostRequest, RequestStep DEF serverVars
<1>9. CASE User(t, s)
  <2>1. CASE \E k \in People : loginWithKey(t, s, k)
    <3>1. UNCHANGED <<browserVars, scene>>
      BY <2>1 DEF loginWithKey
    <3>. QED
      BY <2>1, <3>1, LoginRequests, RequestStep
  <2>2. ASSUME NEW i \in scene.ids,
               \/ \E route \in scene.loads : load(t, s, route, i)
               \/ \E kind \in scene.writes : write(t, s, kind, i)
        PROVE  PortalInv'
    <3>1. UNCHANGED <<serverVars, browserVars, scene>>
      BY <2>2 DEF load, write
    <3>2. Becomes(t, s) /\ Same
      BY <2>2, PageRequests
    <3>. QED
      BY <1>1, <3>1, <3>2, RequestStep DEF serverVars
  <2>. QED
    BY <1>9, <2>1, <2>2 DEF User
<1>. QED
  BY <1>2, <1>3, <1>4, <1>5, <1>6, <1>8, <1>9, CheckSession, LoggedIn, ShellReady,
     CheckFailed, Written, Answered DEF Serve, Continue

LEMMA PortalInvNext == PortalInv /\ [PortalNext]_portalVars => PortalInv'
<1>. SUFFICES ASSUME PortalInv, [PortalNext]_portalVars PROVE PortalInv'
  OBVIOUS
<1>1. /\ live \subseteq Tokens /\ logins \in Nat
      /\ scene.tabs \subseteq Tabs /\ scene.slots \subseteq Slots
      /\ scene.ids \subseteq AssetIds \cap Nat
  BY SceneAssumption DEF PortalInv, BrowserTyped
<1>2. ASSUME World, call' = call, UNCHANGED <<browserVars, scene>>, live' \subseteq Tokens,
             logins' \in Nat
      PROVE  PortalInv'
  BY <1>2, RequestsStand, BrowserStands DEF PortalInv
<1>3. CASE \E token \in live : sessionExpires(token)
  <2>1. World /\ call' = call /\ UNCHANGED <<browserVars, scene>> /\ live' \subseteq live
        /\ logins' = logins
    BY <1>3 DEF sessionExpires, World
  <2>. QED
    BY <1>1, <1>2, <2>1
<1>4. CASE Elsewhere
  <2>1. World
    <3>1. CASE transaction /\ \E kind \in scene.others, i \in scene.ids : effectOf(kind, i)
      <4>1. PICK kind \in scene.others, i \in scene.ids : effectOf(kind, i)
        BY <3>1
      <4>2. Moves
        BY <1>1, <4>1, EffectMoves
      <4>. QED
        BY <1>4, <3>1, <4>2 DEF World, transaction, Elsewhere, Passes, ledgerVars
    <3>2. CASE ~(transaction /\ \E kind \in scene.others, i \in scene.ids : effectOf(kind, i))
      BY <1>4, <3>2 DEF Elsewhere, World
    <3>. QED
      BY <3>1, <3>2
  <2>2. call' = call /\ UNCHANGED <<serverVars, browserVars, scene>>
    BY <1>4 DEF Elsewhere
  <2>. QED
    BY <1>1, <1>2, <2>1, <2>2 DEF serverVars
<1>5. CASE UNCHANGED portalVars
  <2>1. World /\ call' = call /\ UNCHANGED <<browserVars, scene>> /\ live' = live /\ logins' = logins
    BY <1>5 DEF portalVars, World, browserVars
  <2>. QED
    BY <1>1, <1>2, <2>1
<1>6. ASSUME NEW t \in scene.tabs, signOut(t) \/ navigate(t) \/ render(t) PROVE PortalInv'
  BY <1>1, <1>6, SignOut, TabTurns
<1>7. ASSUME NEW t \in scene.tabs, NEW s \in scene.slots,
             \/ checkSession(t, s) \/ Serve(t, s) \/ Continue(t, s) \/ User(t, s)
             \/ connectionLost(t, s)
      PROVE  PortalInv'
  BY <1>1, <1>7, SlotStep
<1>. QED
  BY <1>3, <1>4, <1>5, <1>6, <1>7 DEF PortalNext

LEMMA PortalInvariant == PortalSpec => []PortalInv
BY PortalInvInit, PortalInvNext, PTL DEF PortalSpec

-----------------------------------------------------------------------------
\* What a page shows.  Unless an earlier load was unanswered when it was told of
\* the tab's last write, all its loads were sent after that write.
Current(v, requests) ==
  ~v.shown.crossed =>
    /\ \A s \in Slots : isLoad(requests[s]) => requests[s].wrote = v.wrote
    /\ v.shown.reloaded => v.shown.from >= v.wrote

Displayed == \A t \in Tabs : Current(tab[t], call[t])

\* A step by which a request is, or becomes, no load of another kind.
Steady(c, new) == isLoad(new) => isLoad(c) /\ new.wrote = c.wrote

LEMMA OnlyLoads ==
  ASSUME NEW c, c.route \notin LoadRoutes
  PROVE  ~isLoad(c)
BY PageRoutes DEF isLoad

LEMMA IdleNoLoad == ~isLoad(Idle)
BY DEF isLoad

\* A tab that shows the same, and sends no load.
LEMMA TabKeeps ==
  ASSUME PortalInv, Displayed, NEW t \in Tabs, NEW f,
         call' = [call EXCEPT ![t] = f], \A s \in Slots : Steady(call[t][s], f[s]),
         \A u \in Tabs \ {t} : tab'[u] = tab[u],
         tab'[t].shown = tab[t].shown, tab'[t].wrote = tab[t].wrote
  PROVE  Displayed'
<1>1. call'[t] = f /\ \A u \in Tabs \ {t} : call'[u] = call[u]
  BY DEF PortalInv, CallsTyped
<1>2. Current(tab'[t], call'[t])
  BY <1>1 DEF Displayed, Current, Steady
<1>. QED
  BY <1>1, <1>2 DEF Displayed, Current

\* The same for a request that goes on, or ends.
LEMMA SlotKeeps ==
  ASSUME PortalInv, Displayed, NEW t \in Tabs, NEW s \in Slots, NEW new,
         becomes(t, s, new), Steady(call[t][s], new),
         \A u \in Tabs \ {t} : tab'[u] = tab[u],
         tab'[t].shown = tab[t].shown, tab'[t].wrote = tab[t].wrote
  PROVE  Displayed'
<1>. DEFINE f == [call[t] EXCEPT ![s] = new]
<1>1. call' = [call EXCEPT ![t] = f]
  BY DEF becomes
<1>2. \A r \in Slots : Steady(call[t][r], f[r])
  BY DEF PortalInv, CallsTyped, Steady
<1>. HIDE DEF f
<1>. QED
  BY <1>1, <1>2, TabKeeps

\* A page that is left or entered shows nothing, and has no load in flight.
LEMMA PageBlank ==
  ASSUME PortalInv, Displayed, NEW t \in Tabs, NEW f,
         call' = [call EXCEPT ![t] = f], \A s \in Slots : ~isLoad(f[s]),
         \A u \in Tabs \ {t} : tab'[u] = tab[u], tab'[t].shown = Blank
  PROVE  Displayed'
<1>1. call'[t] = f /\ \A u \in Tabs \ {t} : call'[u] = call[u]
  BY DEF PortalInv, CallsTyped
<1>2. Current(tab'[t], call'[t])
  BY <1>1 DEF Current, Blank
<1>. QED
  BY <1>1, <1>2 DEF Displayed, Current

LEMMA NoLoadsLeft ==
  ASSUME PortalInv, NEW t \in Tabs, NEW s \in Slots
  PROVE  ~isLoad(pageLeft(t)[s]) /\ ~isLoad(unmounted(t)[s])
<1>1. PICK c : c = call[t][s]
  OBVIOUS
<1>2. c \in Calls
  BY <1>1, CallOf
<1>3. ~isLoad(pageLeft(t)[s])
  <2>1. CASE isWrite(c) /\ c.at \in {"sent", "pending"}
    <3>1. c \in WriteCall
      BY <1>2, <2>1, WritesAndLoads
    <3>2. pageLeft(t)[s] = [c EXCEPT !.heard = FALSE]
      BY <1>1, <2>1 DEF pageLeft
    <3>3. pageLeft(t)[s].route \in WriteRoutes
      BY <3>1, <3>2 DEF WriteCall
    <3>. QED
      BY <3>3, OnlyLoads DEF LoadRoutes, WriteRoutes
  <2>2. CASE ~(isWrite(c) /\ c.at \in {"sent", "pending"})
    BY <1>1, <2>2, IdleNoLoad DEF pageLeft
  <2>. QED
    BY <2>1, <2>2
<1>4. ~isLoad(unmounted(t)[s])
  <2>1. CASE c # Idle /\ c.route = "session"
    <3>1. c \in SessionCall
      BY <1>2, <2>1, CallKinds
    <3>2. unmounted(t)[s] = [c EXCEPT !.mounted = FALSE]
      BY <1>1, <2>1 DEF unmounted
    <3>3. unmounted(t)[s].route = "session"
      BY <3>1, <3>2 DEF SessionCall
    <3>. QED
      BY <3>3, OnlyLoads DEF LoadRoutes
  <2>2. CASE ~(c # Idle /\ c.route = "session")
    BY <1>1, <1>3, <2>2 DEF unmounted
  <2>. QED
    BY <2>1, <2>2
<1>. QED
  BY <1>3, <1>4

\* A handler that serves a load keeps the tab's last write; the others serve none.
LEMMA ViewSteady ==
  ASSUME PortalInv, NEW t \in Tabs, NEW s \in Slots, ViewStep(t, s)
  PROVE  \E new : becomes(t, s, new) /\ Steady(call[t][s], new)
<1>1. PICK c : c = call[t][s]
  OBVIOUS
<1>2. c \in FetchCall
  <2>1. /\ c.at \in {"sent", "getAsset", "attestationsOf", "openDivergenceOf", "getDivergence"}
        /\ c.at = "sent" => c.route \in LoadRoutes
    BY <1>1 DEF ViewStep, list, single, getAsset, attestationsOf, confidenceForToken, divergencesOf,
                getDivergence, openDivergenceOf, readOnce, received, stage, LoadRoutes
  <2>. QED
    BY <1>1, <2>1, CallOf, CallKinds
<1>3. isLoad(c)
  BY <1>1, <1>2, CallOf, WritesAndLoads
<1>4. PICK new : becomes(t, s, new)
  BY ViewsBecome DEF Becomes
<1>5. call \in [Tabs -> [Slots -> Calls]] /\ call'[t][s] = new
  BY <1>4 DEF PortalInv, CallsTyped, becomes
<1>6. new.wrote = c.wrote
  <2>1. CASE list(t, s)
    BY <1>1, <1>2, <1>5, <2>1 DEF list, becomes, FetchCall
  <2>2. CASE single(t, s)
    BY <1>1, <1>2, <1>5, <2>2 DEF single, becomes, FetchCall
  <2>3. CASE getAsset(t, s)
    BY <1>1, <1>2, <1>5, <2>3 DEF getAsset, becomes, FetchCall
  <2>4. CASE attestationsOf(t, s)
    BY <1>1, <1>2, <1>5, <2>4 DEF attestationsOf, becomes, FetchCall
  <2>5. CASE confidenceForToken(t, s)
    BY <1>1, <1>2, <1>5, <2>5 DEF confidenceForToken, withRow, becomes, FetchCall
  <2>6. CASE divergencesOf(t, s)
    BY <1>1, <1>2, <1>5, <2>6 DEF divergencesOf, becomes, FetchCall
  <2>7. CASE getDivergence(t, s)
    <3>1. PICK rows, ids : becomes(t, s, [c EXCEPT !.ids = ids, !.rows = rows])
      BY <1>1, <2>7 DEF getDivergence
    <3>. QED
      BY <1>2, <1>5, <3>1 DEF becomes, FetchCall
  <2>8. CASE openDivergenceOf(t, s)
    BY <1>1, <1>2, <1>5, <2>8 DEF openDivergenceOf, becomes, FetchCall
  <2>9. CASE readOnce(t, s)
    BY <1>1, <1>2, <1>5, <2>9 DEF readOnce, becomes, FetchCall
  <2>. QED
    BY <2>1, <2>2, <2>3, <2>4, <2>5, <2>6, <2>7, <2>8, <2>9 DEF ViewStep
<1>. QED
  BY <1>1, <1>3, <1>4, <1>6 DEF Steady

LEMMA ServeSteady ==
  ASSUME PortalInv, NEW t \in Tabs, NEW s \in Slots,
         \/ openSession(t, s) \/ session(t, s) \/ send(t, s) \/ wait(t, s) \/ connectionLost(t, s)
         \/ \E k \in People : loginWithKey(t, s, k)
  PROVE  \E new : becomes(t, s, new) /\ Steady(call[t][s], new)
<1>1. PICK c : c = call[t][s]
  OBVIOUS
<1>2. c \in Calls
  BY <1>1, CallOf
<1>3. CASE openSession(t, s)
  <2>1. c \in LoginCall
    BY <1>1, <1>2, <1>3, CallKinds DEF openSession, received
  <2>2. PICK new, token : /\ becomes(t, s, new)
                          /\ \/ new = [c EXCEPT !.at = "failed"]
                             \/ new = [c EXCEPT !.at = "ok", !.token = token]
    BY <1>1, <1>3, Zenon DEF openSession
  <2>4. new.route = c.route
    BY <2>1, <2>2 DEF LoginCall
  <2>. QED
    BY <2>1, <2>2, <2>4, OnlyLoads DEF Steady, LoginCall, LoadRoutes
<1>4. CASE session(t, s)
  <2>1. c \in SessionCall
    BY <1>1, <1>2, <1>4, CallKinds DEF session, received
  <2>2. PICK new : becomes(t, s, new) /\ new.route = c.route
    BY <1>1, <1>4, <2>1 DEF session, SessionCall
  <2>. QED
    BY <2>1, <2>2, OnlyLoads DEF Steady, SessionCall, LoadRoutes
<1>5. CASE send(t, s)
  <2>1. c \in WriteCall
    BY <1>1, <1>2, <1>5, WritesAndLoads DEF send
  <2>2. PICK new : becomes(t, s, new) /\ new.route = c.route
    BY <1>1, <1>5, <2>1 DEF send, WriteCall
  <2>. QED
    BY <2>1, <2>2, OnlyLoads DEF Steady, WriteCall, WriteRoutes, LoadRoutes
<1>6. CASE wait(t, s)
  <2>1. c \in WriteCall
    BY <1>1, <1>2, <1>6, WritesAndLoads DEF wait
  <2>2. PICK new : /\ becomes(t, s, new)
                   /\ \/ new = Idle \/ new = [c EXCEPT !.at = "failed"]
                      \/ new = [c EXCEPT !.at = "ok", !.block = block + 1]
    BY <1>1, <1>6 DEF wait
  <2>4. new = Idle \/ new.route = c.route
    BY <2>1, <2>2 DEF WriteCall
  <2>. QED
    BY <2>1, <2>2, <2>4, OnlyLoads, IdleNoLoad DEF Steady, WriteCall, WriteRoutes, LoadRoutes
<1>7. CASE connectionLost(t, s)
  <2>1. c.at # "idle"
    BY <1>1, <1>7 DEF connectionLost
  <2>2. c # Idle
    BY <2>1 DEF Idle
  <2>3. CASE c \in FetchCall
    <3>1. isLoad(c)
      BY <1>2, <2>3, WritesAndLoads
    <3>2. becomes(t, s, [c EXCEPT !.at = "failed"])
      BY <1>1, <1>7, <2>3 DEF connectionLost, FetchCall, Stages
    <3>. QED
      BY <1>1, <2>3, <3>1, <3>2 DEF Steady, FetchCall
  <2>4. CASE c \notin FetchCall
    <3>1. c.route \notin LoadRoutes
      BY <1>2, <2>1, <2>4, CallKinds
    <3>2. PICK new : becomes(t, s, new) /\ new.route = c.route
      BY <1>1, <1>2, <1>7, <2>2, <2>4 DEF connectionLost, Calls, LoginCall, SessionCall, WriteCall
    <3>. QED
      BY <1>1, <3>1, <3>2, OnlyLoads DEF Steady
  <2>. QED
    BY <2>3, <2>4
<1>8. ASSUME NEW k \in People, loginWithKey(t, s, k)
      PROVE  \E new : becomes(t, s, new) /\ Steady(call[t][s], new)
  <2>1. PICK new : becomes(t, s, new) /\ new.route = "login"
    BY <1>8 DEF loginWithKey
  <2>. QED
    BY <2>1, OnlyLoads DEF Steady, LoadRoutes
<1>. QED
  BY <1>3, <1>4, <1>5, <1>6, <1>7, <1>8

\* The user's loads and writes.
LEMMA UserDisplayed ==
  ASSUME PortalInv, Displayed, NEW t \in Tabs, NEW s \in Slots, NEW i,
         (\E route : load(t, s, route, i)) \/ (\E kind : write(t, s, kind, i))
  PROVE  Displayed'
<1>1. call \in [Tabs -> [Slots -> Calls]]
  BY DEF PortalInv, CallsTyped
<1>2. ASSUME NEW route, load(t, s, route, i) PROVE Displayed'
  <2>. DEFINE new == fetchOf(route, i, tab[t].wrote)
  <2>1. becomes(t, s, new) /\ tab' = tab
    BY <1>2 DEF load, browserVars
  <2>2. new.wrote = tab[t].wrote
    BY DEF fetchOf
  <2>. HIDE DEF new
  <2>3. /\ call'[t][s] = new /\ \A r \in Slots \ {s} : call'[t][r] = call[t][r]
        /\ \A u \in Tabs \ {t} : call'[u] = call[u]
    BY <1>1, <2>1 DEF becomes
  <2>. QED
    BY <2>1, <2>2, <2>3 DEF Displayed, Current
<1>3. ASSUME NEW kind, write(t, s, kind, i) PROVE Displayed'
  <2>1. PICK new : becomes(t, s, new) /\ new.route = kind
    BY <1>3 DEF write
  <2>2. kind \in tab[t].page.writes /\ tab[t].page \in Pages
    BY <1>3 DEF write, PortalInv, BrowserTyped, TabState
  <2>3. kind \in WriteRoutes
    BY <2>2, PageRoutes
  <2>4. Steady(call[t][s], new)
    BY <2>1, <2>3, OnlyLoads DEF Steady, WriteRoutes, LoadRoutes
  <2>5. tab' = tab
    BY <1>3 DEF write, browserVars
  <2>. QED
    BY <2>1, <2>4, <2>5, SlotKeeps
<1>. QED
  BY <1>2, <1>3

\* The page is told of a write: its earlier loads are remembered as such.
LEMMA WrittenDisplayed ==
  ASSUME PortalInv, Displayed, NEW t \in Tabs, NEW s \in Slots, written(t, s)
  PROVE  Displayed'
<1>1. /\ call \in [Tabs -> [Slots -> Calls]] /\ tab \in [Tabs -> TabState]
      /\ tab[t] \in TabState /\ tab[t].shown \in Shown
  BY DEF PortalInv, CallsTyped, BrowserTyped, TabState
<1>2. PICK wrote : /\ wrote = IF call[t][s].block > tab[t].wrote THEN call[t][s].block ELSE tab[t].wrote
  OBVIOUS
<1>3. PICK crossed \in BOOLEAN : crossed = overlapped(t, wrote)
  BY DEF overlapped
<1>4. /\ tab'[t].wrote = wrote /\ tab'[t].shown.reloaded = FALSE /\ tab'[t].shown.crossed = crossed
      /\ \A u \in Tabs \ {t} : tab'[u] = tab[u]
  BY <1>1, <1>2, <1>3 DEF written, TabState, Shown
<1>5. PICK new : becomes(t, s, new) /\ new.wrote = wrote
  BY <1>2 DEF written, fetchOf
<1>6. /\ call'[t][s] = new /\ \A r \in Slots \ {s} : call'[t][r] = call[t][r]
      /\ \A u \in Tabs \ {t} : call'[u] = call[u]
  BY <1>1, <1>5 DEF becomes
<1>7. Current(tab'[t], call'[t])
  BY <1>3, <1>4, <1>5, <1>6 DEF Current, overlapped
<1>. QED
  BY <1>4, <1>6, <1>7 DEF Displayed, Current

\* A load's answer: unless it was sent before the write, it shows the write.
LEMMA AnsweredDisplayed ==
  ASSUME PortalInv, Displayed, NEW t \in Tabs, NEW s \in Slots, answered(t, s)
  PROVE  Displayed'
<1>1. /\ call \in [Tabs -> [Slots -> Calls]] /\ tab \in [Tabs -> TabState]
      /\ tab[t] \in TabState /\ tab[t].shown \in Shown
  BY DEF PortalInv, CallsTyped, BrowserTyped, TabState
<1>2. becomes(t, s, Idle)
  BY DEF answered
<1>3. CASE showLoad(t, s)
  <2>1. PICK c : c = call[t][s]
    OBVIOUS
  <2>2. isLoad(c) /\ c.at = "ok" /\ c \in FetchCall /\ Fetched(c)
    BY <1>3, <2>1, CallOf, WritesAndLoads DEF showLoad, Conduct
  <2>3. c.wrote <= c.from
    BY <2>2 DEF Fetched
  <2>4. /\ tab'[t].wrote = tab[t].wrote /\ tab'[t].shown.from = c.from
        /\ tab'[t].shown.crossed = tab[t].shown.crossed
        /\ \A u \in Tabs \ {t} : tab'[u] = tab[u]
    BY <1>1, <1>3, <2>1 DEF showLoad, TabState, Shown
  <2>5. /\ call'[t][s] = Idle /\ \A r \in Slots \ {s} : call'[t][r] = call[t][r]
        /\ \A u \in Tabs \ {t} : call'[u] = call[u]
    BY <1>1, <1>2 DEF becomes
  <2>6. ASSUME ~tab[t].shown.crossed
        PROVE  c.wrote = tab[t].wrote /\ c.wrote \in Nat /\ c.from \in Nat
    BY <2>1, <2>2, <2>6 DEF Displayed, Current, FetchCall
  <2>7. Current(tab'[t], call'[t])
    BY <2>3, <2>4, <2>5, <2>6, IdleNoLoad DEF Displayed, Current
  <2>. QED
    BY <2>4, <2>5, <2>7 DEF Displayed, Current
<1>4. CASE UNCHANGED tab
  BY <1>2, <1>4, IdleNoLoad, SlotKeeps DEF Steady
<1>. QED
  BY <1>3, <1>4 DEF answered

\* The tab's other continuations, and its changes of page.
LEMMA LeavesBlank ==
  ASSUME PortalInv, Displayed, NEW t \in Tabs,
         \/ signOut(t)
         \/ \E s \in Slots : checkFailed(t, s)
         \/ \E s \in Slots : checkSession(t, s) /\ stored.token = NoToken
         \/ navigate(t)
  PROVE  Displayed'
<1>1. call \in [Tabs -> [Slots -> Calls]] /\ tab \in [Tabs -> TabState] /\ tab[t] \in TabState
  BY DEF PortalInv, CallsTyped, BrowserTyped
<1>2. ASSUME leave(t) PROVE tab'[t].shown = Blank /\ \A u \in Tabs \ {t} : tab'[u] = tab[u]
  BY <1>1, <1>2 DEF leave, AtLogin
<1>3. ASSUME leave(t), call' = [call EXCEPT ![t] = unmounted(t)] PROVE Displayed'
  BY <1>2, <1>3, NoLoadsLeft, PageBlank
<1>4. ASSUME NEW s \in Slots, checkFailed(t, s) PROVE Displayed'
  <2>. DEFINE f == [unmounted(t) EXCEPT ![s] = Idle]
  <2>1. leave(t) /\ call' = [call EXCEPT ![t] = f]
    BY <1>4 DEF checkFailed
  <2>2. \A r \in Slots : f[r] \in {Idle, unmounted(t)[r]}
    BY Unmounted
  <2>3. \A r \in Slots : ~isLoad(f[r])
    BY <2>2, NoLoadsLeft, IdleNoLoad
  <2>. HIDE DEF f
  <2>. QED
    BY <1>2, <2>1, <2>3, PageBlank
<1>5. CASE navigate(t)
  <2>1. tab'[t].shown = Blank /\ \A u \in Tabs \ {t} : tab'[u] = tab[u]
    <3>1. PICK p : tab' = [tab EXCEPT ![t] =
                     [@ EXCEPT !.page = p, !.effect = TRUE, !.shown = Blank,
                               !.token = stored.token, !.turn = stored.turn]]
      BY <1>5 DEF navigate
    <3>2. tab'[t] = [tab[t] EXCEPT !.page = p, !.effect = TRUE, !.shown = Blank,
                                   !.token = stored.token, !.turn = stored.turn]
      BY <1>1, <3>1
    <3>. QED
      BY <1>1, <3>1, <3>2 DEF TabState
  <2>2. call' = [call EXCEPT ![t] = pageLeft(t)]
    BY <1>5 DEF navigate
  <2>. QED
    BY <2>1, <2>2, NoLoadsLeft, PageBlank
<1>. QED
  BY <1>3, <1>4, <1>5 DEF signOut, checkSession

LEMMA TabDisplayed ==
  ASSUME PortalInv, Displayed, NEW t \in Tabs, NEW s \in Slots,
         loggedIn(t, s) \/ shellReady(t, s) \/ checkSession(t, s)
  PROVE  Displayed'
<1>1. tab \in [Tabs -> TabState] /\ tab[t] \in TabState
  BY DEF PortalInv, BrowserTyped
<1>2. CASE checkSession(t, s) /\ stored.token = NoToken
  BY <1>2, LeavesBlank
<1>3. CASE ~(checkSession(t, s) /\ stored.token = NoToken)
  <2>1. PICK new : becomes(t, s, new) /\ (new = Idle \/ new.route = "session")
    BY <1>3 DEF loggedIn, shellReady, checkSession
  <2>2. /\ \A u \in Tabs \ {t} : tab'[u] = tab[u]
        /\ tab'[t].shown = tab[t].shown /\ tab'[t].wrote = tab[t].wrote
    BY <1>1, <1>3 DEF loggedIn, shellReady, checkSession, browserVars, TabState
  <2>3. Steady(call[t][s], new)
    BY <2>1, OnlyLoads, IdleNoLoad DEF Steady, LoadRoutes
  <2>. QED
    BY <2>1, <2>2, <2>3, SlotKeeps
<1>. QED
  BY <1>2, <1>3

LEMMA DisplayedNext == PortalInv /\ Displayed /\ [PortalNext]_portalVars => Displayed'
<1>. SUFFICES ASSUME PortalInv, Displayed, [PortalNext]_portalVars PROVE Displayed'
  OBVIOUS
<1>1. scene.tabs \subseteq Tabs /\ scene.slots \subseteq Slots
  BY SceneAssumption DEF PortalInv, BrowserTyped
<1>2. ASSUME call' = call, tab' = tab PROVE Displayed'
  BY <1>2 DEF Displayed, Current
<1>3. CASE (\E token \in live : sessionExpires(token)) \/ Elsewhere \/ UNCHANGED portalVars
  BY <1>2, <1>3 DEF sessionExpires, Elsewhere, portalVars, browserVars
<1>4. ASSUME NEW t \in scene.tabs, signOut(t) \/ navigate(t) \/ render(t) PROVE Displayed'
  <2>1. CASE signOut(t) \/ navigate(t)
    BY <1>1, <2>1, LeavesBlank
  <2>2. CASE render(t)
    BY <2>2 DEF render, Displayed, Current, PortalInv, BrowserTyped, TabState
  <2>. QED
    BY <1>4, <2>1, <2>2
<1>5. ASSUME NEW t \in scene.tabs, NEW s \in scene.slots,
             \/ checkSession(t, s) \/ Serve(t, s) \/ Continue(t, s) \/ User(t, s)
             \/ connectionLost(t, s)
      PROVE  Displayed'
  <2>1. t \in Tabs /\ s \in Slots
    BY <1>1
  <2>2. ASSUME NEW new, becomes(t, s, new), Steady(call[t][s], new), tab' = tab
        PROVE  Displayed'
    BY <2>1, <2>2, SlotKeeps
  <2>3. CASE View(t, s)
    <3>1. ViewStep(t, s) /\ tab' = tab
      BY <2>3 DEF View, browserVars
    <3>. QED
      BY <2>1, <2>2, <3>1, ViewSteady
  <2>4. CASE \/ openSession(t, s) \/ session(t, s) \/ send(t, s) \/ wait(t, s)
             \/ connectionLost(t, s) \/ \E k \in People : loginWithKey(t, s, k)
    <3>1. tab' = tab
      BY <2>4 DEF openSession, session, send, wait, connectionLost, loginWithKey, browserVars
    <3>. QED
      BY <2>1, <2>2, <2>4, <3>1, ServeSteady
  <2>5. CASE Continue(t, s) \/ checkSession(t, s)
    BY <2>1, <2>5, TabDisplayed, LeavesBlank, WrittenDisplayed, AnsweredDisplayed DEF Continue
  <2>6. CASE User(t, s)
    BY <2>1, <2>4, <2>6, UserDisplayed DEF User
  <2>. QED
    BY <1>5, <2>3, <2>4, <2>5, <2>6 DEF Serve
<1>. QED
  BY <1>3, <1>4, <1>5 DEF PortalNext

LEMMA DisplayedInvariant == PortalSpec => []Displayed
<1>1. PortalInit => Displayed
  BY IdleNoLoad DEF PortalInit, Displayed, Current, AtLogin, Blank
<1>. QED
  BY <1>1, PortalInvariant, DisplayedNext, PTL DEF PortalSpec

-----------------------------------------------------------------------------
LEMMA ScoresShown ==
  ASSUME PortalInv, NEW t \in Tabs, NEW s \in Slots, ok(t, s, {"asset", "assets"}),
         NEW i \in 1..Len(call[t][s].rows)
  PROVE  RowSound(call[t][s].rows[i])
<1>1. PICK c : c = call[t][s]
  OBVIOUS
<1>2. c \in Calls /\ Conduct(c) /\ c.at = "ok" /\ c.route \in {"asset", "assets"}
  BY <1>1, CallOf DEF ok
<1>3. Fetched(c)
  BY <1>2, CallKinds DEF LoadRoutes, Conduct
<1>. QED
  BY <1>1, <1>2, <1>3 DEF Fetched, ScoreRoutes

\* The confidence scores that GET /assets and /assets/:tokenId return
\* (backend/src/routes/assets.ts, packages/policy/src/confidence.ts) never leave
\* the band of their evidence and their open divergence, although the reads
\* behind a score are made at different moments.
THEOREM ScoresStayInBand == PortalSpec => []ScoreInBand
<1>1. PortalInv => ScoreInBand
  BY ScoresShown DEF ScoreInBand, RowSound, weight
<1>. QED
  BY <1>1, PortalInvariant, PTL

\* confidenceForToken (backend/src/routes/assets.ts) reads the observations
\* before the open divergence, and takes the age of the evidence by the
\* backend's clock: with at most one transaction between the reads of an asset,
\* its score is no higher than the asset's own, by that clock, at the first read
\* or at the last, however far the chain's time is ahead or behind.
THEOREM ScoresAreNotOverstated == PortalSpec => []OneChangeNotOverstated
<1>1. PortalInv => OneChangeNotOverstated
  BY ScoresShown DEF OneChangeNotOverstated, RowSound
<1>. QED
  BY <1>1, PortalInvariant, PTL

\* GET /divergence/asset/:tokenId reads the records first and the open id last:
\* the id it announces as open is the newest it can list, and is not listed as
\* resolved, whatever was observed, proposed or confirmed in between.
THEOREM OpenDivergenceIsNewest == PortalSpec => []OpenNotListedResolved
<1>1. ASSUME PortalInv, NEW t \in Tabs, NEW s \in Slots, ok(t, s, {"divergences"}),
             call[t][s].openId # 0
      PROVE  IsNewest(call[t][s].openId, call[t][s].rows)
  <2>1. PICK c : c = call[t][s]
    OBVIOUS
  <2>2. c \in Calls /\ Conduct(c) /\ c.at = "ok" /\ c.route = "divergences"
    BY <1>1, <2>1, CallOf DEF ok
  <2>3. Fetched(c)
    BY <2>2, CallKinds DEF LoadRoutes, Conduct
  <2>4. Listing(c)
    BY <2>2, <2>3 DEF Fetched
  <2>. QED
    BY <1>1, <2>1, <2>2, <2>4 DEF Listing
<1>2. PortalInv => OpenNotListedResolved
  BY <1>1 DEF OpenNotListedResolved, IsNewest
<1>. QED
  BY <1>2, PortalInvariant, PTL

\* The pages put the last answer that comes on display, whichever load it
\* belongs to (setItems, setAsset: the pages of apps/web/src/app/(portal)).  Once
\* the load that follows a write has been answered, none of the tab's answers
\* takes the display back to before the write, however many loads follow and in
\* whatever order they are answered, unless a load from before the write was
\* still unanswered when the page was told of it.
THEOREM OwnWritesAreShown == PortalSpec => []OwnWriteShown
<1>1. Displayed => OwnWriteShown
  BY DEF Displayed, Current, OwnWriteShown
<1>. QED
  BY <1>1, DisplayedInvariant, PTL

\* The session token and the signing key that a page sends together
\* (apps/web/src/lib/session.ts) are of one account, unless a login in another
\* tab has replaced them since the page rendered.
THEOREM TokenAndKeyGoTogether == PortalSpec => []MixedOnlyAfterSwitch
<1>1. ASSUME PortalInv, NEW t \in Tabs, NEW s \in Slots, isWrite(call[t][s]),
             call[t][s].key \notin {Nobody, call[t][s].token.who}
      PROVE  call[t][s].switched
  <2>1. PICK c : c = call[t][s]
    OBVIOUS
  <2>2. c \in WriteCall /\ Conduct(c)
    BY <1>1, <2>1, CallOf, WritesAndLoads
  <2>. QED
    BY <1>1, <2>1, <2>2 DEF Conduct
<1>2. PortalInv => MixedOnlyAfterSwitch
  BY <1>1 DEF MixedOnlyAfterSwitch
<1>. QED
  BY <1>2, PortalInvariant, PTL
=============================================================================
