----------------------- MODULE OfflineVerifier_proofs -----------------------
(***************************************************************************)
(* Proofs about OfflineVerifier, for any decisions, number of reconnects,   *)
(* limits and bounds.                                                       *)
(***************************************************************************)
EXTENDS OfflineVerifier, TLAPS

\* The limits of time are those of the past.
Typed == OfflineTypeOK /\ \A d \in Dids : left[d] <= now

\* Every snapshot, wherever it is kept, is of the past, and its DID was under
\* the device's key when it was taken.
fresh(s) == s \notin {None, Broken} =>
  s.capturedAt <= now /\ (s.did = standing.did \/ s.capturedAt <= left[s.did])
Fresh == fresh(page.snapshot) /\ fresh(idb.snapshot) /\ fresh(cached) /\ fresh(sync.answer)

\* What a reconnect works on is in the queue, and what the server goes on to
\* record is what was signed.
Sent ==
  \A r \in Runs :
    /\ \A n \in run[r].todo : queue[n] # None
    /\ post[r].at # "idle" => post[r].nonce \in Decisions /\ queue[post[r].nonce] # None
    /\ post[r].at \in {"fresh", "judged"} => post[r].did = queue[post[r].nonce].did
    /\ post[r].at = "judged" => post[r].outcome \in {"accepted", "rejected"}

\* An outcome is one that was recorded, or says that none was.
Shows(outcome, n) ==
  CASE outcome = "accepted"  -> rows[n] # <<>> /\ rows[n][1].accepted
    [] outcome = "rejected"  -> rows[n] # <<>> /\ ~rows[n][1].accepted
    [] outcome = "duplicate" -> rows[n] # <<>>
    [] OTHER -> outcome \in {"refused", "error"}
Answered == \A r \in Runs : post[r].at = "answer" => Shows(post[r].outcome, post[r].nonce)

IInv == Typed /\ Fresh /\ Sent /\ Answered /\ RecordedOnce /\ SettledAsRecorded /\ AllowedWithinLimit

-----------------------------------------------------------------------------
LEMMA IInvInit == OfflineInit => IInv
<1>. SUFFICES ASSUME OfflineInit PROVE IInv
  OBVIOUS
<1>1. Typed
  BY OfflineAssumption
  DEF OfflineInit, Typed, OfflineTypeOK, Dids, Snapshot, Token, idleSync, idleRun, idlePost
<1>2. Fresh
  BY DEF OfflineInit, Fresh, fresh, idleSync
<1>3. Sent /\ Answered
  BY DEF OfflineInit, Sent, Answered, idleRun, idlePost
<1>4. RecordedOnce /\ SettledAsRecorded /\ AllowedWithinLimit
  BY DEF OfflineInit, RecordedOnce, SettledAsRecorded, AllowedWithinLimit, settled
<1>. QED
  BY <1>1, <1>2, <1>3, <1>4 DEF IInv

\* What the queue, the rows and the requests say is the business of the
\* actions that change them.
LEMMA WorkStays ==
  ASSUME Sent, Answered, RecordedOnce, SettledAsRecorded, AllowedWithinLimit,
         UNCHANGED <<rows, queue, post>>, \A r \in Runs : run'[r].todo \subseteq run[r].todo
  PROVE  (Sent /\ Answered /\ RecordedOnce /\ SettledAsRecorded /\ AllowedWithinLimit)'
BY DEF Sent, Answered, Shows, RecordedOnce, SettledAsRecorded, AllowedWithinLimit, settled

LEMMA FreshStays ==
  ASSUME Fresh, UNCHANGED <<now, standing, left, page, idb, cached, sync>>
  PROVE  Fresh'
BY DEF Fresh, fresh

-----------------------------------------------------------------------------
LEMMA TickKeeps ==
  ASSUME IInv, Tick
  PROVE  IInv'
<1>1. Typed'
  BY OfflineAssumption DEF IInv, Typed, OfflineTypeOK, Tick
<1>2. Fresh'
  <2>1. ASSUME NEW s \in Snapshot, fresh(s) PROVE fresh(s)'
    BY <2>1 DEF IInv, Typed, OfflineTypeOK, Tick, fresh, Snapshot
  <2>. QED
    BY <2>1 DEF IInv, Typed, OfflineTypeOK, Tick, Fresh
<1>3. (Sent /\ Answered /\ RecordedOnce /\ SettledAsRecorded /\ AllowedWithinLimit)'
  BY WorkStays DEF IInv, Tick
<1>. QED
  BY <1>1, <1>2, <1>3 DEF IInv

LEMMA StandingKeeps ==
  ASSUME IInv, standingChanges
  PROVE  IInv'
<1>1. standing' \in [did : Dids \cup {None}, role : BOOLEAN]
  BY DEF IInv, Typed, OfflineTypeOK, standingChanges
<1>2. left' \in [Dids -> 0..MaxTime] /\ \A d \in Dids : left'[d] <= now
  BY OfflineAssumption DEF IInv, Typed, OfflineTypeOK, standingChanges
<1>3. events' \in 0..MaxEvents
  BY OfflineAssumption DEF IInv, Typed, OfflineTypeOK, standingChanges, event
<1>4. Typed'
  BY <1>1, <1>2, <1>3 DEF IInv, Typed, OfflineTypeOK, standingChanges
<1>5. Fresh'
  <2>1. ASSUME NEW s \in Snapshot, fresh(s) PROVE fresh(s)'
    BY <2>1 DEF IInv, Typed, OfflineTypeOK, standingChanges, fresh, Snapshot
  <2>. QED
    BY <2>1 DEF IInv, Typed, OfflineTypeOK, standingChanges, Fresh
<1>6. (Sent /\ Answered /\ RecordedOnce /\ SettledAsRecorded /\ AllowedWithinLimit)'
  BY WorkStays DEF IInv, standingChanges
<1>. QED
  BY <1>4, <1>5, <1>6 DEF IInv

LEMMA LoadKeeps ==
  ASSUME IInv, loadPage
  PROVE  IInv'
<1>1. events' \in 0..MaxEvents
  BY OfflineAssumption DEF IInv, Typed, OfflineTypeOK, loadPage, event
<1>2. Typed'
  BY <1>1 DEF IInv, Typed, OfflineTypeOK, loadPage, idleSync, idleRun, Token, Snapshot
<1>3. Fresh'
  BY DEF IInv, loadPage, Fresh, fresh, idleSync
<1>4. (Sent /\ Answered /\ RecordedOnce /\ SettledAsRecorded /\ AllowedWithinLimit)'
  BY WorkStays DEF IInv, loadPage, idleRun
<1>. QED
  BY <1>2, <1>3, <1>4 DEF IInv

\* The steps of the page that only copy a snapshot, or a token, that is there.
LEMMA CopyKeeps ==
  ASSUME IInv, useEffect \/ login \/ storeSnapshot \/ finishSync
  PROVE  IInv'
<1>. DEFINE Pages == [token : Token, snapshot : Snapshot, loading : BOOLEAN]
            Syncs == [at : {"idle", "fetch", "store", "finish"}, token : Token, answer : Snapshot]
            Copied ==
              /\ events' \in 0..MaxEvents
              /\ page' \in Pages /\ idb' \in [token : Token, snapshot : Snapshot] /\ sync' \in Syncs
              /\ {page'.snapshot, idb'.snapshot, sync'.answer}
                   \subseteq {None, page.snapshot, idb.snapshot, sync.answer}
              /\ UNCHANGED <<now, standing, left, rows, queue, cached, run, post>>
<1>1. page \in Pages /\ idb \in [token : Token, snapshot : Snapshot] /\ sync \in Syncs
      /\ events \in 0..MaxEvents /\ None \in Token /\ None \in Snapshot
  BY DEF IInv, Typed, OfflineTypeOK, Token, Snapshot
<1>2. ASSUME useEffect PROVE Copied
  BY <1>1, <1>2 DEF useEffect
<1>3. ASSUME login PROVE Copied
  <2>1. now \in Token
    BY DEF IInv, Typed, OfflineTypeOK, Token
  <2>2. events' \in 0..MaxEvents
    BY <1>1, <1>3, OfflineAssumption DEF login, event
  <2>. QED
    BY <1>1, <1>3, <2>1, <2>2 DEF login
<1>4. ASSUME storeSnapshot PROVE Copied
  BY <1>1, <1>4 DEF storeSnapshot
<1>5. ASSUME finishSync PROVE Copied
  BY <1>1, <1>5 DEF finishSync, idleSync
<1>6. Copied
  BY <1>2, <1>3, <1>4, <1>5
<1>7. Typed'
  BY <1>6 DEF IInv, Typed, OfflineTypeOK
<1>8. Fresh'
  BY <1>6 DEF IInv, Fresh, fresh
<1>9. (Sent /\ Answered /\ RecordedOnce /\ SettledAsRecorded /\ AllowedWithinLimit)'
  BY <1>6, WorkStays DEF IInv
<1>. QED
  BY <1>7, <1>8, <1>9 DEF IInv

\* The demo button makes a snapshot older.
LEMMA AgeKeeps ==
  ASSUME IInv, ageSnapshot
  PROVE  IInv'
<1>. DEFINE s == snapshotInUse
            aged == Good(s.capturedAt - HighLimit - 1, s.did)
<1>1. s \in Snapshot /\ s \notin {None, Broken} /\ fresh(s)
  BY DEF IInv, Typed, OfflineTypeOK, Fresh, ageSnapshot, snapshotInUse
<1>2. s.capturedAt \in Int /\ s.did \in Dids
  BY <1>1 DEF Snapshot
<1>3. aged \in Snapshot /\ aged.capturedAt <= s.capturedAt /\ aged.did = s.did
  BY <1>2, OfflineAssumption DEF Good, Snapshot
<1>4. idb' = [idb EXCEPT !.snapshot = aged] /\ page' = [page EXCEPT !.snapshot = aged]
      /\ UNCHANGED <<now, standing, left, rows, queue, cached, sync, run, post>>
  BY DEF ageSnapshot
<1>5. fresh(aged)
  <2>1. now \in Int /\ left[s.did] \in Int /\ aged.capturedAt \in Int
    BY <1>2, OfflineAssumption DEF IInv, Typed, OfflineTypeOK, Good
  <2>. HIDE DEF s, aged
  <2>. QED
    BY <1>1, <1>2, <1>3, <2>1 DEF fresh
<1>. HIDE DEF s, aged
<1>6. events' \in 0..MaxEvents
  BY OfflineAssumption DEF IInv, Typed, OfflineTypeOK, ageSnapshot, event
<1>7. Typed'
  BY <1>3, <1>4, <1>6 DEF IInv, Typed, OfflineTypeOK
<1>8. Fresh'
  <2>1. page'.snapshot = aged /\ idb'.snapshot = aged
    BY <1>4 DEF IInv, Typed, OfflineTypeOK
  <2>. QED
    BY <1>4, <1>5, <2>1 DEF IInv, Fresh, fresh
<1>9. (Sent /\ Answered /\ RecordedOnce /\ SettledAsRecorded /\ AllowedWithinLimit)'
  BY <1>4, WorkStays DEF IInv
<1>. QED
  BY <1>7, <1>8, <1>9 DEF IInv

LEMMA SnapshotKeeps ==
  ASSUME IInv, snapshot
  PROVE  IInv'
<1>1. events' \in 0..MaxEvents
  BY OfflineAssumption DEF IInv, Typed, OfflineTypeOK, snapshot, event
<1>2. now \in Int /\ standing.did \in Dids \cup {None} /\ cached \in Snapshot /\ Broken \in Snapshot
  BY DEF IInv, Typed, OfflineTypeOK, Snapshot
<1>3. ASSUME standing.did # None PROVE Good(now, standing.did) \in Snapshot /\ fresh(Good(now, standing.did))
  BY <1>2, <1>3 DEF Good, Snapshot, fresh
<1>4. cached' \in Snapshot /\ fresh(cached')
  <2>1. cached' = cached \/ cached' = Broken \/ (standing.did # None /\ cached' = Good(now, standing.did))
    BY DEF snapshot
  <2>. QED
    BY <1>2, <1>3, <2>1 DEF IInv, Fresh, fresh
<1>5. sync' = idleSync \/ sync' = [sync EXCEPT !.at = "store", !.answer = cached']
  BY DEF snapshot, fallBack
<1>6. UNCHANGED <<now, standing, left, rows, page, idb, queue, run, post>>
  BY DEF snapshot
<1>7. sync' \in [at : {"idle", "fetch", "store", "finish"}, token : Token, answer : Snapshot]
      /\ sync'.answer \in {None, cached'}
  <2>1. None \in Token /\ None \in Snapshot
        /\ sync \in [at : {"idle", "fetch", "store", "finish"}, token : Token, answer : Snapshot]
    BY DEF IInv, Typed, OfflineTypeOK, Token, Snapshot
  <2>2. CASE sync' = idleSync
    BY <2>1, <2>2 DEF idleSync
  <2>3. CASE sync' = [sync EXCEPT !.at = "store", !.answer = cached']
    BY <1>4, <2>1, <2>3
  <2>. QED
    BY <1>5, <2>2, <2>3
<1>8. Typed'
  BY <1>1, <1>4, <1>6, <1>7 DEF IInv, Typed, OfflineTypeOK
<1>9. Fresh'
  BY <1>4, <1>6, <1>7 DEF IInv, Fresh, fresh
<1>10. (Sent /\ Answered /\ RecordedOnce /\ SettledAsRecorded /\ AllowedWithinLimit)'
  BY <1>6, WorkStays DEF IInv
<1>. QED
  BY <1>8, <1>9, <1>10 DEF IInv
-----------------------------------------------------------------------------
\* The steps about the queue leave time, standing and snapshots alone.
Quiet == UNCHANGED <<now, standing, left, page, idb, cached, sync>>

Posts == [at : {"idle", "sent", "fresh", "judged", "answer"},
          nonce : Decisions \cup {None}, token : Token, did : Dids \cup {None},
          outcome : {None, "accepted", "rejected", "duplicate", "refused", "error"}]
RunTypes == [at : {"idle", "next", "wait"}, todo : SUBSET Decisions, token : Token,
             did : Dids \cup {None}]

LEMMA TypedWork ==
  ASSUME Typed, Quiet,
         rows' \in [Decisions -> Seq(Row)], queue' \in [Decisions -> {None} \cup Item],
         run' \in [Runs -> RunTypes], post' \in [Runs -> Posts], events' \in 0..MaxEvents
  PROVE  Typed'
BY DEF Typed, OfflineTypeOK, Quiet, Posts, RunTypes

LEMMA EventTyped ==
  ASSUME Typed, event \/ UNCHANGED events
  PROVE  events' \in 0..MaxEvents
BY OfflineAssumption DEF Typed, OfflineTypeOK, event

LEMMA WorkTypes ==
  ASSUME Typed
  PROVE  /\ rows \in [Decisions -> Seq(Row)] /\ queue \in [Decisions -> {None} \cup Item]
         /\ run \in [Runs -> RunTypes] /\ post \in [Runs -> Posts] /\ events \in 0..MaxEvents
         /\ idleRun \in RunTypes /\ idlePost \in Posts
BY DEF Typed, OfflineTypeOK, RunTypes, Posts, idleRun, idlePost, Token

LEMMA DecideKeeps ==
  ASSUME IInv, NEW n \in Decisions, NEW op, decide(n, op)
  PROVE  IInv'
<1>. DEFINE s == snapshotInUse
            gate == evaluateOfflineOperation(op, s.capturedAt, now)
            item == [risk |-> gate.risk, age |-> gate.age, allowed |-> gate.allowed, did |-> s.did,
                     lost |-> IF standing.did = s.did THEN 0 ELSE now - left[s.did],
                     reconciled |-> FALSE, outcome |-> None]
<1>1. s \in Snapshot /\ s \notin {None, Broken} /\ fresh(s)
  BY DEF IInv, Typed, OfflineTypeOK, Fresh, decide, snapshotInUse
<1>2. s.capturedAt \in Int /\ s.did \in Dids /\ s.capturedAt <= now
  BY <1>1 DEF Snapshot, fresh
<1>3. now \in Int /\ left[s.did] \in Int /\ left[s.did] <= now
  BY <1>2, OfflineAssumption DEF IInv, Typed, OfflineTypeOK
<1>. HIDE DEF s
<1>4. elapsed(s.capturedAt, now) \in Nat /\ elapsed(s.capturedAt, now) = now - s.capturedAt
  BY <1>2, <1>3 DEF elapsed
<1>5. gate.risk \in {"low", "high"} /\ gate.age = elapsed(s.capturedAt, now)
      /\ gate.allowed \in BOOLEAN
      /\ (gate.risk = "high" /\ gate.allowed => ~(elapsed(s.capturedAt, now) > HighLimit))
  BY DEF evaluateOfflineOperation, riskTierOf
<1>. HIDE DEF gate
<1>6. item \in Item
  BY <1>2, <1>3, <1>4, <1>5 DEF Item
<1>7. item.risk = "high" /\ item.allowed => item.lost <= HighLimit
  BY <1>1, <1>2, <1>3, <1>4, <1>5, OfflineAssumption DEF fresh
<1>8. ~item.reconciled /\ item # None
  BY <1>6, NoneAssumption
<1>9. queue[n] = None /\ queue' = [queue EXCEPT ![n] = item]
      /\ UNCHANGED <<rows, run, post, events>> /\ Quiet
  BY DEF decide, Quiet, s, gate
<1>. HIDE DEF item
<1>10. Typed
  BY DEF IInv
<1>11. /\ queue'[n] = item
       /\ \A m \in Decisions : m # n => queue'[m] = queue[m]
       /\ queue' \in [Decisions -> {None} \cup Item]
  BY <1>6, <1>9, <1>10, WorkTypes
<1>12. Typed'
  BY <1>9, <1>10, <1>11, WorkTypes, TypedWork
<1>13. Fresh'
  BY <1>9, FreshStays DEF IInv, Quiet
<1>14. Sent'
  <2>1. \A r \in Runs : run[r].todo \subseteq Decisions
    BY <1>10, WorkTypes DEF RunTypes
  <2>. QED
    BY <1>8, <1>9, <1>11, <2>1 DEF IInv, Sent
<1>15. Answered'
  BY <1>9 DEF IInv, Answered, Shows
<1>16. RecordedOnce'
  <2>1. rows[n] = <<>>
    <3>1. rows[n] \in Seq(Row) /\ Len(rows[n]) <= 1 /\ \A i \in 1..Len(rows[n]) : queue[n] # None
      BY <1>10, WorkTypes DEF IInv, RecordedOnce
    <3>. QED
      BY <1>9, <3>1
  <2>2. rows' = rows
    BY <1>9
  <2>3. ASSUME NEW m \in Decisions, m # n
        PROVE /\ Len(rows'[m]) <= 1
              /\ \A i \in 1..Len(rows'[m]) :
                   /\ queue'[m] # None
                   /\ <<rows'[m][i].risk, rows'[m][i].age, rows'[m][i].allowed, rows'[m][i].did>> =
                        <<queue'[m].risk, queue'[m].age, queue'[m].allowed, queue'[m].did>>
    BY <1>11, <2>2, <2>3 DEF IInv, RecordedOnce
  <2>. QED
    BY <2>1, <2>2, <2>3 DEF RecordedOnce
<1>17. SettledAsRecorded'
  BY <1>8, <1>9, <1>11 DEF IInv, SettledAsRecorded, settled
<1>18. AllowedWithinLimit'
  BY <1>7, <1>11 DEF IInv, AllowedWithinLimit
<1>. QED
  BY <1>12, <1>13, <1>14, <1>15, <1>16, <1>17, <1>18 DEF IInv

\* One reconnect and its request go on; the queue and the rows stay.
LEMMA RequestKeeps ==
  ASSUME IInv, Quiet, UNCHANGED <<rows, queue>>, event \/ UNCHANGED events, NEW r \in Runs,
         NEW a \in RunTypes, run' = [run EXCEPT ![r] = a],
         NEW b \in Posts, post' = [post EXCEPT ![r] = b],
         \A n \in a.todo : queue[n] # None,
         b.at # "idle" => b.nonce \in Decisions /\ queue[b.nonce] # None,
         b.at \in {"fresh", "judged"} => b.did = queue[b.nonce].did,
         b.at = "judged" => b.outcome \in {"accepted", "rejected"},
         b.at = "answer" => Shows(b.outcome, b.nonce)
  PROVE  IInv'
<1>1. Typed
  BY DEF IInv
<1>2. /\ run' \in [Runs -> RunTypes] /\ post' \in [Runs -> Posts]
      /\ \A q \in Runs : run'[q] = IF q = r THEN a ELSE run[q]
      /\ \A q \in Runs : post'[q] = IF q = r THEN b ELSE post[q]
  BY <1>1, WorkTypes
<1>3. Typed'
  BY <1>1, <1>2, WorkTypes, EventTyped, TypedWork
<1>4. Fresh'
  BY FreshStays DEF IInv, Quiet
<1>5. Sent'
  <2>1. SUFFICES ASSUME NEW q \in Runs
        PROVE /\ \A n \in run'[q].todo : queue'[n] # None
              /\ post'[q].at # "idle" => post'[q].nonce \in Decisions /\ queue'[post'[q].nonce] # None
              /\ post'[q].at \in {"fresh", "judged"} => post'[q].did = queue'[post'[q].nonce].did
              /\ post'[q].at = "judged" => post'[q].outcome \in {"accepted", "rejected"}
    BY DEF Sent
  <2>2. CASE q = r
    BY <1>2, <2>2
  <2>3. CASE q # r
    BY <1>2, <2>3 DEF IInv, Sent
  <2>. QED
    BY <2>2, <2>3
<1>6. Answered'
  <2>1. ASSUME NEW q \in Runs, post'[q].at = "answer"
        PROVE Shows(post'[q].outcome, post'[q].nonce)
    <3>1. CASE q = r
      BY <1>2, <2>1, <3>1
    <3>2. CASE q # r
      BY <1>2, <2>1, <3>2 DEF IInv, Answered
    <3>. QED
      BY <3>1, <3>2
  <2>. QED
    BY <2>1 DEF Answered, Shows
<1>7. (RecordedOnce /\ SettledAsRecorded /\ AllowedWithinLimit)'
  BY DEF IInv, RecordedOnce, SettledAsRecorded, AllowedWithinLimit, settled
<1>. QED
  BY <1>3, <1>4, <1>5, <1>6, <1>7 DEF IInv

\* What is known of any reconnect and of its request.
LEMMA RequestFacts ==
  ASSUME IInv, NEW r \in Runs
  PROVE  /\ run[r] \in RunTypes /\ post[r] \in Posts
         /\ \A n \in run[r].todo : n \in Decisions /\ queue[n] # None
         /\ post[r].at # "idle" => post[r].nonce \in Decisions /\ queue[post[r].nonce] # None
         /\ post[r].at \in {"fresh", "judged"} => post[r].did = queue[post[r].nonce].did
         /\ post[r].at = "judged" => post[r].outcome \in {"accepted", "rejected"}
         /\ post[r].at = "answer" => Shows(post[r].outcome, post[r].nonce)
         /\ run = [run EXCEPT ![r] = run[r]] /\ post = [post EXCEPT ![r] = post[r]]
         /\ idleRun \in RunTypes /\ idlePost \in Posts /\ idleRun.todo = {} /\ idlePost.at = "idle"
<1>1. /\ run[r] \in RunTypes /\ post[r] \in Posts
      /\ run = [run EXCEPT ![r] = run[r]] /\ post = [post EXCEPT ![r] = post[r]]
      /\ idleRun \in RunTypes /\ idlePost \in Posts /\ idleRun.todo = {} /\ idlePost.at = "idle"
  BY WorkTypes DEF IInv, idleRun, idlePost
<1>. QED
  BY <1>1 DEF IInv, Sent, Answered, RunTypes

LEMMA ReconnectKeeps ==
  ASSUME IInv, NEW r \in Runs, reconnect(r)
  PROVE  IInv'
<1>. DEFINE a == [at |-> "next", todo |-> unreconciled,
                  token |-> IF page.token # None THEN page.token ELSE idb.token,
                  did |-> IF page.snapshot = None THEN None ELSE page.snapshot.did]
<1>1. page.snapshot \in Snapshot /\ page.snapshot # Broken /\ page.token \in Token /\ idb.token \in Token
  BY DEF IInv, Typed, OfflineTypeOK, reconnect, usable
<1>2. a \in RunTypes /\ \A n \in a.todo : queue[n] # None
  BY <1>1 DEF RunTypes, Snapshot, unreconciled
<1>3. /\ run' = [run EXCEPT ![r] = a]
      /\ post' = [post EXCEPT ![r] = post[r]]
      /\ UNCHANGED <<rows, queue, events>> /\ Quiet
  BY RequestFacts DEF reconnect, Quiet
<1>. HIDE DEF a
<1>. QED
  BY <1>2, <1>3, RequestFacts, RequestKeeps

LEMMA SendKeeps ==
  ASSUME IInv, NEW r \in Runs, NEW n \in Decisions, send(r, n)
  PROVE  IInv'
<1>. DEFINE a == [run[r] EXCEPT !.at = "wait", !.todo = @ \ {n}]
            b == [at |-> "sent", nonce |-> n, token |-> run[r].token, did |-> run[r].did, outcome |-> None]
<1>1. a \in RunTypes /\ b \in Posts /\ a.todo \subseteq run[r].todo
  BY RequestFacts DEF RunTypes, Posts
<1>2. run \in [Runs -> RunTypes] /\ n \in run[r].todo /\ run' = [run EXCEPT ![r].at = "wait", ![r].todo = @ \ {n}]
  BY WorkTypes DEF IInv, send
<1>3. run' = [run EXCEPT ![r] = a]
  BY <1>2
<1>4. /\ post' = [post EXCEPT ![r] = b] /\ UNCHANGED <<rows, queue, events>> /\ Quiet
      /\ b.at = "sent" /\ b.nonce = n
  BY DEF send, Quiet
<1>5. /\ \A m \in a.todo : queue[m] # None
      /\ queue[n] # None
  BY <1>1, <1>2, RequestFacts
<1>. HIDE DEF a, b
<1>. QED
  BY <1>1, <1>3, <1>4, <1>5, RequestKeeps

LEMMA EndKeeps ==
  ASSUME IInv, NEW r \in Runs, endRun(r) \/ dropAnswer(r)
  PROVE  IInv'
<1>1. CASE endRun(r)
  <2>1. /\ run' = [run EXCEPT ![r] = idleRun] /\ post' = [post EXCEPT ![r] = post[r]]
        /\ UNCHANGED <<rows, queue, events>> /\ Quiet
    BY <1>1, RequestFacts DEF endRun, Quiet
  <2>. QED
    BY <2>1, RequestFacts, RequestKeeps
<1>2. CASE dropAnswer(r)
  <2>1. /\ run' = [run EXCEPT ![r] = run[r]] /\ post' = [post EXCEPT ![r] = idlePost]
        /\ UNCHANGED <<rows, queue, events>> /\ Quiet
    BY <1>2, RequestFacts DEF dropAnswer, Quiet
  <2>2. run[r] \in RunTypes /\ \A n \in run[r].todo : queue[n] # None
    BY RequestFacts
  <2>3. idlePost \in Posts /\ idlePost.at = "idle"
    BY RequestFacts
  <2>. QED
    BY <2>1, <2>2, <2>3, RequestKeeps
<1>. QED
  BY <1>1, <1>2

LEMMA LoseKeeps ==
  ASSUME IInv, NEW r \in Runs, lose(r)
  PROVE  IInv'
<1>. DEFINE b == IF post[r].at \in {"sent", "answer"} THEN idlePost ELSE post[r]
<1>1. /\ run' = [run EXCEPT ![r] = idleRun] /\ post' = [post EXCEPT ![r] = b]
      /\ UNCHANGED <<rows, queue>> /\ event /\ Quiet
  BY DEF lose, Quiet
<1>2. b = idlePost \/ b = post[r]
  OBVIOUS
<1>. HIDE DEF b
<1>. QED
  BY <1>1, <1>2, RequestFacts, RequestKeeps

-----------------------------------------------------------------------------
\* The server's side: an answer says what is known of the decision.
LEMMA RespondKeeps ==
  ASSUME IInv, Quiet, UNCHANGED <<rows, queue, run>>, event \/ UNCHANGED events,
         NEW r \in Runs, post[r].at # "idle",
         NEW o \in {"accepted", "rejected", "duplicate", "refused", "error"}, respond(r, o),
         Shows(o, post[r].nonce)
  PROVE  IInv'
<1>. DEFINE b == [post[r] EXCEPT !.at = "answer", !.outcome = o]
<1>1. post \in [Runs -> Posts] /\ post[r] \in Posts
  BY WorkTypes DEF IInv
<1>2. post' = [post EXCEPT ![r] = b]
  BY <1>1 DEF respond
<1>3. b \in Posts /\ b.at = "answer" /\ b.outcome = o /\ b.nonce = post[r].nonce
  BY <1>1 DEF Posts
<1>4. /\ run[r] \in RunTypes /\ run' = [run EXCEPT ![r] = run[r]]
      /\ \A n \in run[r].todo : queue[n] # None
      /\ post[r].nonce \in Decisions /\ queue[post[r].nonce] # None
  BY RequestFacts
<1>. HIDE DEF b
<1>. QED
  BY <1>2, <1>3, <1>4, RequestKeeps

LEMMA ReceiveKeeps ==
  ASSUME IInv, NEW r \in Runs, receive(r)
  PROVE  IInv'
<1>1. /\ post[r].at = "sent" /\ Quiet /\ UNCHANGED <<rows, queue, run, events>>
  BY DEF receive, serverUnchanged, Quiet
<1>2. CASE respond(r, "refused")
  BY <1>1, <1>2, RespondKeeps DEF Shows
<1>3. CASE respond(r, "duplicate") /\ rows[post[r].nonce] # <<>>
  BY <1>1, <1>3, RespondKeeps DEF Shows
<1>4. CASE signatureValid(r) /\ post' = [post EXCEPT ![r].at = "fresh", ![r].token = None]
  <2>. DEFINE b == [post[r] EXCEPT !.at = "fresh", !.token = None]
  <2>1. post \in [Runs -> Posts] /\ post[r] \in Posts /\ None \in Token
    BY WorkTypes DEF IInv, Token
  <2>2. post' = [post EXCEPT ![r] = b]
    BY <1>4, <2>1
  <2>3. b \in Posts /\ b.at = "fresh" /\ b.nonce = post[r].nonce /\ b.did = queue[b.nonce].did
    BY <1>4, <2>1 DEF Posts, signatureValid
  <2>4. /\ run[r] \in RunTypes /\ run' = [run EXCEPT ![r] = run[r]]
        /\ \A n \in run[r].todo : queue[n] # None
        /\ post[r].nonce \in Decisions /\ queue[post[r].nonce] # None
    BY <1>1, RequestFacts
  <2>. HIDE DEF b
  <2>. QED
    BY <1>1, <2>2, <2>3, <2>4, RequestKeeps
<1>. QED
  BY <1>2, <1>3, <1>4 DEF receive

LEMMA JudgeKeeps ==
  ASSUME IInv, NEW r \in Runs, judge(r)
  PROVE  IInv'
<1>1. /\ post[r].at = "fresh" /\ Quiet /\ UNCHANGED <<rows, queue, run, events>>
  BY DEF judge, serverUnchanged, Quiet
<1>2. PICK o \in {"accepted", "rejected"} :
        post' = [post EXCEPT ![r].at = "judged", ![r].outcome = o]
  BY DEF judge
<1>. DEFINE b == [post[r] EXCEPT !.at = "judged", !.outcome = o]
<1>3. post \in [Runs -> Posts] /\ post[r] \in Posts
  BY WorkTypes DEF IInv
<1>4. post' = [post EXCEPT ![r] = b]
  BY <1>2, <1>3
<1>5. b \in Posts /\ b.at = "judged" /\ b.nonce = post[r].nonce /\ b.did = post[r].did /\ b.outcome = o
  BY <1>3 DEF Posts
<1>6. /\ run[r] \in RunTypes /\ run' = [run EXCEPT ![r] = run[r]]
      /\ \A n \in run[r].todo : queue[n] # None
      /\ post[r].nonce \in Decisions /\ queue[post[r].nonce] # None
      /\ post[r].did = queue[post[r].nonce].did
  BY <1>1, RequestFacts
<1>. HIDE DEF b
<1>. QED
  BY <1>1, <1>4, <1>5, <1>6, RequestKeeps

LEMMA DatabaseKeeps ==
  ASSUME IInv, NEW r \in Runs, databaseFails(r)
  PROVE  IInv'
<1>1. /\ post[r].at # "idle" /\ Quiet /\ UNCHANGED <<rows, queue, run>> /\ event
      /\ respond(r, "error")
  BY DEF databaseFails, Quiet
<1>. QED
  BY <1>1, RespondKeeps DEF Shows

LEMMA DeliverKeeps ==
  ASSUME IInv, NEW r \in Runs, deliver(r)
  PROVE  IInv'
<1>. DEFINE n == post[r].nonce
            o == post[r].outcome
            item == settle(queue[n], o)
            a == [run[r] EXCEPT !.at = "next"]
<1>1. /\ n \in Decisions /\ queue[n] # None /\ Shows(o, n)
      /\ post[r] \in Posts /\ run[r] \in RunTypes /\ a.todo = run[r].todo
  BY RequestFacts DEF deliver, RunTypes
<1>2. queue \in [Decisions -> {None} \cup Item] /\ queue[n] \in Item
  BY <1>1, WorkTypes DEF IInv
<1>3. /\ item \in Item /\ item.outcome = o /\ item.did = queue[n].did
      /\ <<item.risk, item.age, item.allowed, item.did>> =
           <<queue[n].risk, queue[n].age, queue[n].allowed, queue[n].did>>
      /\ (item.risk = "high" /\ item.allowed => item.lost = queue[n].lost)
  BY <1>1, <1>2 DEF settle, Item, Posts
<1>4. /\ queue' = [queue EXCEPT ![n] = item]
      /\ run' = [run EXCEPT ![r] = a]
      /\ post' = [post EXCEPT ![r] = idlePost]
      /\ UNCHANGED <<rows, events>> /\ Quiet
  BY WorkTypes DEF deliver, Quiet, IInv
<1>5. a \in RunTypes
  BY <1>1 DEF RunTypes
<1>6. item # None
  BY <1>3, NoneAssumption
<1>. HIDE DEF item, a
<1>7. /\ queue'[n] = item /\ \A m \in Decisions : m # n => queue'[m] = queue[m]
      /\ queue' \in [Decisions -> {None} \cup Item]
      /\ run' \in [Runs -> RunTypes] /\ post' \in [Runs -> Posts]
      /\ \A q \in Runs : run'[q].todo = run[q].todo
      /\ \A q \in Runs : post'[q] = IF q = r THEN idlePost ELSE post[q]
  <2>1. run \in [Runs -> RunTypes] /\ post \in [Runs -> Posts] /\ idlePost \in Posts
    BY WorkTypes DEF IInv
  <2>. QED
    BY <1>1, <1>2, <1>3, <1>4, <1>5, <2>1
<1>8. Typed'
  BY <1>4, <1>7, WorkTypes, EventTyped, TypedWork DEF IInv
<1>9. Fresh'
  BY <1>4, FreshStays DEF IInv, Quiet
<1>10. \A m \in Decisions : queue[m] # None => queue'[m] # None /\ queue'[m].did = queue[m].did
  BY <1>3, <1>6, <1>7
<1>11. Sent'
  <2>1. SUFFICES ASSUME NEW q \in Runs
        PROVE /\ \A m \in run'[q].todo : queue'[m] # None
              /\ post'[q].at # "idle" => post'[q].nonce \in Decisions /\ queue'[post'[q].nonce] # None
              /\ post'[q].at \in {"fresh", "judged"} => post'[q].did = queue'[post'[q].nonce].did
              /\ post'[q].at = "judged" => post'[q].outcome \in {"accepted", "rejected"}
    BY DEF Sent
  <2>2. \A m \in run'[q].todo : queue'[m] # None
    BY <1>7, <1>10, RequestFacts
  <2>3. CASE q = r
    BY <1>7, <2>2, <2>3 DEF idlePost
  <2>4. CASE q # r
    <3>1. post'[q] = post[q]
      BY <1>7, <2>4
    <3>2. /\ post[q].at # "idle" => post[q].nonce \in Decisions /\ queue[post[q].nonce] # None
          /\ post[q].at \in {"fresh", "judged"} => post[q].did = queue[post[q].nonce].did
          /\ post[q].at = "judged" => post[q].outcome \in {"accepted", "rejected"}
      BY RequestFacts
    <3>. QED
      BY <1>10, <2>2, <3>1, <3>2
  <2>. QED
    BY <2>3, <2>4
<1>12. Answered'
  BY <1>4, <1>7 DEF IInv, Answered, Shows, idlePost
<1>13. RecordedOnce'
  <2>1. ASSUME NEW m \in Decisions
        PROVE /\ Len(rows'[m]) <= 1
              /\ \A i \in 1..Len(rows'[m]) :
                   /\ queue'[m] # None
                   /\ <<rows'[m][i].risk, rows'[m][i].age, rows'[m][i].allowed, rows'[m][i].did>> =
                        <<queue'[m].risk, queue'[m].age, queue'[m].allowed, queue'[m].did>>
    BY <1>3, <1>4, <1>6, <1>7 DEF IInv, RecordedOnce
  <2>. QED
    BY <2>1 DEF RecordedOnce
<1>14. SettledAsRecorded'
  <2>1. ASSUME NEW m \in Decisions, queue'[m] # None /\ queue'[m].reconciled
        PROVE  Shows(queue'[m].outcome, m)
    <3>1. CASE m = n
      BY <1>1, <1>3, <1>7, <3>1
    <3>2. CASE m # n
      BY <1>7, <2>1, <3>2 DEF IInv, SettledAsRecorded, settled, Shows
    <3>. QED
      BY <3>1, <3>2
  <2>. QED
    BY <1>4, <2>1 DEF SettledAsRecorded, settled, Shows
<1>15. AllowedWithinLimit'
  BY <1>1, <1>3, <1>6, <1>7 DEF IInv, AllowedWithinLimit
<1>. QED
  BY <1>8, <1>9, <1>11, <1>12, <1>13, <1>14, <1>15 DEF IInv

LEMMA CreateKeeps ==
  ASSUME IInv, NEW r \in Runs, create(r)
  PROVE  IInv'
<1>. DEFINE n == post[r].nonce
            o == post[r].outcome
            row == rowOf(r)
            b == [post[r] EXCEPT !.at = "answer", !.outcome = o]
<1>1. /\ post[r].at = "judged" /\ Quiet /\ UNCHANGED <<queue, run, events>>
  BY DEF create, serverUnchanged, Quiet
<1>2. /\ n \in Decisions /\ queue[n] # None /\ post[r].did = queue[n].did
      /\ o \in {"accepted", "rejected"} /\ post[r] \in Posts
  BY <1>1, RequestFacts
<1>3. CASE ~uniqueNonce(n)
  <2>1. UNCHANGED rows /\ respond(r, "error")
    BY <1>3 DEF create
  <2>. QED
    BY <1>1, <2>1, RespondKeeps DEF Shows
<1>4. CASE uniqueNonce(n)
  <2>1. /\ rows[n] = <<>> /\ rows' = [rows EXCEPT ![n] = Append(@, row)]
        /\ respond(r, o)
    BY <1>4 DEF create, uniqueNonce
  <2>2. /\ queue \in [Decisions -> {None} \cup Item] /\ queue[n] \in Item
        /\ rows \in [Decisions -> Seq(Row)] /\ post \in [Runs -> Posts]
    BY <1>2, WorkTypes DEF IInv
  <2>3. /\ row \in Row /\ row.did = queue[n].did
        /\ <<row.risk, row.age, row.allowed, row.did>> =
             <<queue[n].risk, queue[n].age, queue[n].allowed, queue[n].did>>
        /\ row.accepted <=> o = "accepted"
    BY <1>2, <2>2 DEF rowOf, Row, Item
  <2>. HIDE DEF row
  <2>4. /\ rows'[n] = <<row>> /\ \A m \in Decisions : m # n => rows'[m] = rows[m]
        /\ rows' \in [Decisions -> Seq(Row)]
    BY <1>2, <2>1, <2>2, <2>3
  <2>5. /\ post' = [post EXCEPT ![r] = b] /\ b \in Posts
        /\ b.at = "answer" /\ b.outcome = o /\ b.nonce = n
    BY <1>2, <2>1, <2>2 DEF respond, Posts
  <2>. HIDE DEF b
  <2>6. /\ \A q \in Runs : post'[q] = IF q = r THEN b ELSE post[q]
        /\ post' \in [Runs -> Posts]
    BY <2>2, <2>5
  <2>7. Typed'
    <3>1. /\ queue' \in [Decisions -> {None} \cup Item] /\ run' \in [Runs -> RunTypes]
          /\ events' \in 0..MaxEvents /\ Typed
      BY <1>1, WorkTypes DEF IInv
    <3>. QED
      BY <1>1, <2>4, <2>6, <3>1, TypedWork
  <2>8. Fresh'
    BY <1>1, FreshStays DEF IInv, Quiet
  <2>9. Sent'
    <3>1. ASSUME NEW q \in Runs
          PROVE /\ \A m \in run'[q].todo : queue'[m] # None
                /\ post'[q].at # "idle" => post'[q].nonce \in Decisions /\ queue'[post'[q].nonce] # None
                /\ post'[q].at \in {"fresh", "judged"} => post'[q].did = queue'[post'[q].nonce].did
                /\ post'[q].at = "judged" => post'[q].outcome \in {"accepted", "rejected"}
      <4>1. CASE q = r
        BY <1>1, <1>2, <2>5, <2>6, <4>1, RequestFacts
      <4>2. CASE q # r
        BY <1>1, <2>6, <4>2, RequestFacts
      <4>. QED
        BY <4>1, <4>2
    <3>. QED
      BY <3>1 DEF Sent
  <2>10. ASSUME NEW p, NEW m \in Decisions, Shows(p, m)
         PROVE CASE p = "accepted"  -> rows'[m] # <<>> /\ rows'[m][1].accepted
                 [] p = "rejected"  -> rows'[m] # <<>> /\ ~rows'[m][1].accepted
                 [] p = "duplicate" -> rows'[m] # <<>>
                 [] OTHER -> p \in {"refused", "error"}
    <3>1. CASE m = n
      BY <2>1, <2>4, <2>10, <3>1 DEF Shows
    <3>2. CASE m # n
      BY <2>4, <2>10, <3>2 DEF Shows
    <3>. QED
      BY <3>1, <3>2
  <2>11. Answered'
    <3>1. ASSUME NEW q \in Runs, post'[q].at = "answer"
          PROVE CASE post'[q].outcome = "accepted"  -> rows'[post'[q].nonce] # <<>> /\ rows'[post'[q].nonce][1].accepted
                  [] post'[q].outcome = "rejected"  -> rows'[post'[q].nonce] # <<>> /\ ~rows'[post'[q].nonce][1].accepted
                  [] post'[q].outcome = "duplicate" -> rows'[post'[q].nonce] # <<>>
                  [] OTHER -> post'[q].outcome \in {"refused", "error"}
      <4>1. CASE q = r
        <5>1. post'[q].outcome = o /\ post'[q].nonce = n
          BY <2>5, <2>6, <4>1
        <5>2. rows'[n] # <<>> /\ rows'[n][1] = row
          BY <2>4
        <5>3. CASE o = "accepted"
          BY <2>3, <5>1, <5>2, <5>3
        <5>4. CASE o = "rejected"
          BY <2>3, <5>1, <5>2, <5>4
        <5>. HIDE DEF n, o
        <5>. QED
          BY <1>2, <5>3, <5>4
      <4>2. CASE q # r
        <5>1. post'[q] = post[q] /\ Shows(post[q].outcome, post[q].nonce) /\ post[q].nonce \in Decisions
          BY <2>6, <3>1, <4>2, RequestFacts
        <5>. QED
          BY <2>10, <5>1
      <4>. QED
        BY <4>1, <4>2
    <3>. QED
      BY <3>1 DEF Answered, Shows
  <2>12. RecordedOnce'
    <3>1. ASSUME NEW m \in Decisions
          PROVE /\ Len(rows'[m]) <= 1
                /\ \A i \in 1..Len(rows'[m]) :
                     /\ queue'[m] # None
                     /\ <<rows'[m][i].risk, rows'[m][i].age, rows'[m][i].allowed, rows'[m][i].did>> =
                          <<queue'[m].risk, queue'[m].age, queue'[m].allowed, queue'[m].did>>
      <4>1. CASE m = n
        <5>1. Len(rows'[n]) = 1 /\ rows'[n][1] = row /\ queue'[n] = queue[n]
          BY <1>1, <2>4
        <5>2. \A i \in 1..Len(rows'[n]) : i = 1
          BY <5>1
        <5>. HIDE DEF n
        <5>. QED
          BY <1>2, <2>3, <4>1, <5>1, <5>2
      <4>2. CASE m # n
        BY <1>1, <2>4, <4>2 DEF IInv, RecordedOnce
      <4>. QED
        BY <4>1, <4>2
    <3>. QED
      BY <3>1 DEF RecordedOnce
  <2>13. SettledAsRecorded'
    <3>1. \A m \in Decisions : queue[m] # None /\ queue[m].reconciled => Shows(queue[m].outcome, m)
      BY DEF IInv, SettledAsRecorded, settled, Shows
    <3>. QED
      BY <1>1, <2>10, <3>1 DEF SettledAsRecorded, settled
  <2>14. AllowedWithinLimit'
    BY <1>1 DEF IInv, AllowedWithinLimit
  <2>. QED
    BY <2>7, <2>8, <2>9, <2>11, <2>12, <2>13, <2>14 DEF IInv
<1>. QED
  BY <1>3, <1>4

-----------------------------------------------------------------------------
LEMMA IInvNext == IInv /\ [OfflineNext]_offlineVars => IInv'
<1>. SUFFICES ASSUME IInv, [OfflineNext]_offlineVars PROVE IInv'
  OBVIOUS
<1>1. CASE UNCHANGED offlineVars
  BY <1>1 DEF offlineVars, IInv, Typed, OfflineTypeOK, Fresh, fresh, Sent, Answered, Shows,
              RecordedOnce, SettledAsRecorded, AllowedWithinLimit, settled
<1>2. CASE Tick \/ standingChanges \/ loadPage \/ ageSnapshot \/ snapshot
  BY <1>2, TickKeeps, StandingKeeps, LoadKeeps, AgeKeeps, SnapshotKeeps
<1>3. CASE useEffect \/ login \/ storeSnapshot \/ finishSync
  BY <1>3, CopyKeeps
<1>4. CASE \E n \in Decisions : decide(n, Operation[n])
  BY <1>4, DecideKeeps
<1>5. ASSUME NEW r \in Runs, reconnect(r) \/ RunStep(r) \/ lose(r) \/ databaseFails(r)
      PROVE  IInv'
  BY <1>5, ReconnectKeeps, SendKeeps, EndKeeps, DeliverKeeps, LoseKeeps, ReceiveKeeps, JudgeKeeps,
     CreateKeeps, DatabaseKeeps DEF RunStep
<1>. QED
  BY <1>1, <1>2, <1>3, <1>4, <1>5 DEF OfflineNext, SyncStep

\* What follows holds of every behaviour, whatever is fair in it.
THEOREM OfflineInvariant == OfflineSpec => []IInv
BY IInvInit, IInvNext, PTL DEF OfflineSpec

\* Type correctness: tokens, snapshots, queue items, rows and requests have
\* the shapes the page and the routes give them, at every await.
THEOREM OfflineTyping == OfflineSpec => []OfflineTypeOK
<1>1. IInv => OfflineTypeOK
  BY DEF IInv, Typed
<1>. QED
  BY <1>1, OfflineInvariant, PTL

\* However many reconnects run at once, are retried or lose their answer, the
\* server holds at most one row per decision, and it is what the device signed.
THEOREM OneRowPerDecision == OfflineSpec => []RecordedOnce
<1>1. IInv => RecordedOnce
  BY DEF IInv
<1>. QED
  BY <1>1, OfflineInvariant, PTL

\* What the device shows of a settled decision is what the server's row says.
THEOREM SettledIsRecorded == OfflineSpec => []SettledAsRecorded
<1>1. IInv => SettledAsRecorded
  BY DEF IInv
<1>. QED
  BY <1>1, OfflineInvariant, PTL

\* The age check bounds how long ago the chain showed the DID under the
\* device's key, whichever cache the snapshot of a high-risk decision is from.
THEOREM HighRiskWithinLimit == OfflineSpec => []AllowedWithinLimit
<1>1. IInv => AllowedWithinLimit
  BY DEF IInv
<1>. QED
  BY <1>1, OfflineInvariant, PTL
=============================================================================
