------------------------------- MODULE Portal -------------------------------
(***************************************************************************)
(* The web portal (apps/web/src) against the backend: tabs that share one   *)
(* localStorage, fetches that are answered late, out of order or not at     *)
(* all, and the write-then-reload of every page.  What the roles allow is   *)
(* Gateway's subject: here a write may always be refused.                   *)
(***************************************************************************)
EXTENDS Views, FiniteSets

CONSTANTS
  People,   \* whose keys the user logs in with
  Nobody,
  Scenes    \* what happens in one behaviour

\* The pages: what they load, which writes they make, and whether the write
\* uses the stored key.
page(load, writes, usesKey) == [load |-> load, writes |-> writes, usesKey |-> usesKey]
dashboardPage    == page("assets", {}, FALSE)
assetsPage       == page("assets", {"mint"}, FALSE)
assetPage        == page("asset", {"transfer", "allocate"}, FALSE)
divergencePage   == page("divergences", {"propose", "confirm"}, FALSE)
attestationsPage == page("attestations", {"attest"}, TRUE)
rolesPage        == page("role", {"grant", "revoke"}, FALSE)
identityPage     == page("did", {"register", "revokeDid"}, TRUE)
Pages == {dashboardPage, assetsPage, assetPage, divergencePage, attestationsPage,
          rolesPage, identityPage}

pageOf(kind) == CHOOSE p \in Pages : kind \in p.writes

ASSUME SceneAssumption ==
  \A here \in Scenes : /\ here.tabs \subseteq Tabs /\ here.slots \subseteq Slots
                       /\ here.ids \subseteq AssetIds \cap Nat /\ here.pages \subseteq Pages

VARIABLES
  live,     \* the session tokens that verify
  logins,   \* number of sessions opened; it numbers the tokens
  stored,   \* localStorage: token and key; turn is history, it counts logins
  tab,      \* per tab: the page it is on, who and what it shows, the token it
            \* rendered with
  scene     \* bound: the member of Scenes of this behaviour

browserVars == <<stored, tab>>
serverVars  == <<live, logins>>
portalVars  == <<ledgerVars, block, clock, call, live, logins, stored, tab, scene>>

NoToken == [who |-> Nobody, serial |-> 0]

\* What a page shows of its load: the block from which the answer on display
\* was read.  The rest is history: whether the answer of a load that was sent
\* after the tab's last write has come, and whether an earlier load was still
\* unanswered when the page was told of that write.
Blank == [from |-> 0, reloaded |-> FALSE, crossed |-> FALSE]

\* effect: AppShell's effect is due.  wrote is history: the block of the last
\* write the tab has been told of.
AtLogin == [at |-> "login", page |-> dashboardPage, me |-> Nobody, token |-> NoToken,
            turn |-> 0, effect |-> FALSE, shown |-> Blank, wrote |-> 0]

PortalInit ==
  /\ LedgerInit
  /\ block = 0 /\ clock = 0
  /\ call = [t \in Tabs |-> [s \in Slots |-> Idle]]
  /\ live = {} /\ logins = 0
  /\ stored = [token |-> NoToken, key |-> Nobody, turn |-> 0]
  /\ tab = [t \in Tabs |-> AtLogin]
  /\ scene \in Scenes

inShell(t) == tab[t].at = "shell"
onPage(t)  == inShell(t) /\ tab[t].me # Nobody
free(t, s) == call[t][s] = Idle

-----------------------------------------------------------------------------
\* loginWithKey asks for a challenge, signs it and posts the login; the button
\* is disabled meanwhile.  (Mutation: the key is stored at once.)
storeKeyFirst(t, s, k) ==
  /\ tab[t].at = "login"
  /\ \A other \in Slots : call[t][other].at # "idle" => call[t][other].route # "login"
  /\ free(t, s)
  /\ becomes(t, s, [at |-> "sent", route |-> "login", key |-> k, token |-> NoToken])
  /\ stored' = [stored EXCEPT !.key = k]
  /\ UNCHANGED <<ledgerVars, block, clock, serverVars, tab, scene>>

loginWithKey(t, s, k) ==
  /\ tab[t].at = "login"
  /\ \A other \in Slots : call[t][other].at # "idle" => call[t][other].route # "login"
  /\ free(t, s)
  /\ becomes(t, s, [at |-> "sent", route |-> "login", key |-> k, token |-> NoToken])
  /\ UNCHANGED <<ledgerVars, block, clock, serverVars, browserVars, scene>>

\* The backend opens the session, or refuses.
openSession(t, s) ==
  LET c == call[t][s]  token == [who |-> c.key, serial |-> logins + 1] IN
  /\ received(t, s, {"login"})
  /\ \/ /\ logins < scene.logins
        /\ logins' = logins + 1
        /\ live' = live \cup {token}
        /\ becomes(t, s, [c EXCEPT !.at = "ok", !.token = token])
     \/ /\ becomes(t, s, [c EXCEPT !.at = "failed"])
        /\ UNCHANGED serverVars
  /\ UNCHANGED <<ledgerVars, block, clock, browserVars, scene>>

sessionExpires(token) ==
  /\ scene.expires
  /\ live' = live \ {token}
  /\ UNCHANGED <<ledgerVars, block, clock, call, logins, browserVars, scene>>

\* The answer of the login, on the page that asked or after it is gone: both
\* items are stored, and the tab goes to the dashboard.
loggedIn(t, s) ==
  LET c == call[t][s] IN
  /\ c.at \in {"ok", "failed"} /\ c.route = "login"
  /\ IF c.at = "ok"
     THEN /\ stored' = [token |-> c.token, key |-> c.key, turn |-> stored.turn + 1]
          /\ tab' = [tab EXCEPT ![t].at = "shell", ![t].effect = TRUE]
     ELSE UNCHANGED browserVars
  /\ becomes(t, s, Idle)
  /\ UNCHANGED <<ledgerVars, block, clock, serverVars, scene>>

-----------------------------------------------------------------------------
clearSession == stored' = [stored EXCEPT !.token = NoToken]
leave(t) == tab' = [tab EXCEPT ![t] = [AtLogin EXCEPT !.wrote = tab[t].wrote]]

isLoad(c)  == c # Idle /\ \E p \in Pages : c.route = p.load
isWrite(c) == c # Idle /\ \E p \in Pages : c.route \in p.writes

\* A page that is left is told of nothing any more; the handler of a write that
\* was sent goes on.
pageLeft(t) ==
  [s \in Slots |->
    LET c == call[t][s] IN
    IF isWrite(c) /\ c.at \in {"sent", "pending"} THEN [c EXCEPT !.heard = FALSE]
    ELSE IF isLoad(c) \/ isWrite(c) THEN Idle ELSE c]

\* With the shell go its pages; its pending checks find it unmounted.
unmounted(t) ==
  [s \in Slots |-> IF call[t][s] # Idle /\ call[t][s].route = "session"
                   THEN [call[t][s] EXCEPT !.mounted = FALSE] ELSE pageLeft(t)[s]]

\* AppShell's effect, on mount and at every change of page.
checkSession(t, s) ==
  /\ inShell(t) /\ tab[t].effect
  /\ free(t, s)
  /\ IF stored.token = NoToken
     THEN /\ leave(t)
          /\ call' = [call EXCEPT ![t] = unmounted(t)]
     ELSE /\ becomes(t, s, [at |-> "sent", route |-> "session", token |-> stored.token, mounted |-> TRUE])
          /\ tab' = [tab EXCEPT ![t].effect = FALSE]
  /\ UNCHANGED <<ledgerVars, block, clock, serverVars, stored, scene>>

\* GET /session: requireAuth, and a role read that may throw.
session(t, s) ==
  LET c == call[t][s] IN
  /\ received(t, s, {"session"})
  /\ \E answer \in {"ok", "failed"} :
       /\ answer = "ok" => c.token \in live
       /\ becomes(t, s, [c EXCEPT !.at = answer])
  /\ UNCHANGED <<ledgerVars, block, clock, serverVars, browserVars, scene>>

\* The pages below the shell appear, with the token they find stored.
shellReady(t, s) ==
  LET c == call[t][s] IN
  /\ c.at = "ok" /\ c.route = "session"
  /\ IF c.mounted
     THEN tab' = [tab EXCEPT ![t].me = c.token.who,
            ![t].token = IF tab[t].me = Nobody THEN stored.token ELSE @,
            ![t].turn  = IF tab[t].me = Nobody THEN stored.turn ELSE @]
     ELSE UNCHANGED tab
  /\ becomes(t, s, Idle)
  /\ UNCHANGED <<ledgerVars, block, clock, serverVars, stored, scene>>

\* A failed check clears the stored token, whichever it is by now, and sends
\* the tab to the login page, mounted or not.  (Mutation: no redirect.)
staysOnFailure(t, s) ==
  /\ call[t][s].at = "failed" /\ call[t][s].route = "session"
  /\ clearSession
  /\ becomes(t, s, Idle)
  /\ UNCHANGED <<ledgerVars, block, clock, serverVars, tab, scene>>

checkFailed(t, s) ==
  /\ call[t][s].at = "failed" /\ call[t][s].route = "session"
  /\ clearSession
  /\ leave(t)
  /\ call' = [call EXCEPT ![t] = [unmounted(t) EXCEPT ![s] = Idle]]
  /\ UNCHANGED <<ledgerVars, block, clock, serverVars, scene>>

signOut(t) ==
  /\ scene.browses /\ onPage(t)
  /\ clearSession
  /\ leave(t)
  /\ call' = [call EXCEPT ![t] = unmounted(t)]
  /\ UNCHANGED <<ledgerVars, block, clock, serverVars, scene>>

\* The shell stays, and its effect is due; the other page has nothing to show,
\* and reads the token.
navigate(t) ==
  /\ scene.browses \/ tab[t].page = dashboardPage
  /\ onPage(t) /\ ~tab[t].effect
  /\ \E p \in scene.pages \ {tab[t].page} :
       tab' = [tab EXCEPT ![t] = [@ EXCEPT !.page = p, !.effect = TRUE, !.shown = Blank,
                                           !.token = stored.token, !.turn = stored.turn]]
  /\ call' = [call EXCEPT ![t] = pageLeft(t)]
  /\ UNCHANGED <<ledgerVars, block, clock, serverVars, stored, scene>>

\* Every change of a page's state renders it again: the token is read anew.
render(t) ==
  /\ onPage(t) /\ tab[t].token # stored.token
  /\ tab' = [tab EXCEPT ![t].token = stored.token, ![t].turn = stored.turn]
  /\ UNCHANGED <<ledgerVars, block, clock, call, serverVars, stored, scene>>

-----------------------------------------------------------------------------
load(t, s, route, i) ==
  /\ onPage(t) /\ free(t, s)
  /\ tab[t].page.load = route
  /\ becomes(t, s, fetchOf(route, i, tab[t].wrote))
  /\ UNCHANGED <<ledgerVars, block, clock, serverVars, browserVars, scene>>

\* A write goes out with the token of the last rendering; a page that uses
\* the key reads it now.  switched is history: a login has been stored since.
write(t, s, kind, i) ==
  /\ onPage(t) /\ free(t, s)
  /\ kind \in tab[t].page.writes
  /\ tab[t].token # NoToken
  /\ becomes(t, s, [at |-> "sent", route |-> kind, of |-> i, token |-> tab[t].token,
                    key |-> IF pageOf(kind).usesKey THEN stored.key ELSE Nobody,
                    switched |-> stored.turn # tab[t].turn, block |-> 0, heard |-> TRUE])
  /\ UNCHANGED <<ledgerVars, block, clock, serverVars, browserVars, scene>>

\* requireAuth, the route's own checks, and the transaction is sent.  (Mutation:
\* the answer does not wait for the receipt.)
answerAtOnce(t, s) ==
  LET c == call[t][s] IN
  /\ isWrite(c) /\ c.at = "sent"
  /\ \E answer \in {"ok", "failed"} :
       becomes(t, s, [c EXCEPT !.at = answer, !.block = block + 1])
  /\ UNCHANGED <<ledgerVars, block, clock, serverVars, browserVars, scene>>

\* The signer of an observation must be the session's address.
recoverAttestationSigner(c) == c.key

send(t, s) ==
  LET c == call[t][s] IN
  /\ isWrite(c) /\ c.at = "sent"
  /\ \E answer \in {"pending", "failed"} :
       /\ answer = "pending" => /\ c.token \in live
                                /\ c.route = "attest" => recoverAttestationSigner(c) = c.token.who
       /\ becomes(t, s, [c EXCEPT !.at = answer])
  /\ UNCHANGED <<ledgerVars, block, clock, serverVars, browserVars, scene>>

transaction == block < scene.blocks /\ block' = block + 1

effectOf(kind, i) ==
  CASE kind = "mint" -> \E highValue \in BOOLEAN : Minted(highValue)
    [] kind = "attest" -> \E tier \in Tiers, conflicts \in BOOLEAN : Recorded(i, tier, conflicts)
    [] kind = "propose" -> \E d \in 1..Len(dispute) : Proposed(d)
    [] kind = "confirm" -> \E d \in 1..Len(dispute) : Confirmed(d)
    [] kind \in {"transfer", "allocate"} ->
         /\ i \in minted /\ ~asset[i].quarantined
         /\ UNCHANGED ledgerVars
    [] OTHER -> UNCHANGED ledgerVars   \* roles and DIDs

\* The receipt, or a revert.
wait(t, s) ==
  LET c == call[t][s] IN
  /\ isWrite(c) /\ c.at = "pending"
  /\ \/ /\ transaction
        /\ effectOf(c.route, c.of)
        /\ becomes(t, s, IF c.heard THEN [c EXCEPT !.at = "ok", !.block = block + 1] ELSE Idle)
     \/ /\ becomes(t, s, IF c.heard THEN [c EXCEPT !.at = "failed"] ELSE Idle)
        /\ UNCHANGED <<ledgerVars, block>>
  /\ UNCHANGED <<clock, serverVars, browserVars, scene>>

\* The page tells the user, and awaits its load.  No button is disabled
\* meanwhile: earlier loads may be in flight.
overlapped(t, wrote) == \E r \in Slots : isLoad(call[t][r]) /\ call[t][r].wrote # wrote

written(t, s) ==
  LET c == call[t][s]
      wrote == IF c.block > tab[t].wrote THEN c.block ELSE tab[t].wrote
  IN
  /\ isWrite(c) /\ c.at = "ok"
  /\ tab' = [tab EXCEPT ![t].wrote = wrote,
                        ![t].shown = [@ EXCEPT !.reloaded = FALSE, !.crossed = overlapped(t, wrote)]]
  /\ becomes(t, s, fetchOf(pageOf(c.route).load, c.of, wrote))
  /\ UNCHANGED <<ledgerVars, block, clock, serverVars, stored, scene>>

\* A load's answer replaces what is shown, whichever load was sent last.
showLoad(t, s) ==
  LET c == call[t][s] IN
  /\ isLoad(c) /\ c.at = "ok"
  /\ tab' = [tab EXCEPT ![t].shown =
       [@ EXCEPT !.from = c.from, !.reloaded = tab[t].shown.reloaded \/ c.wrote = tab[t].wrote]]

\* The error of a load or of a write is shown beside what the page shows.
answered(t, s) ==
  LET c == call[t][s] IN
  /\ \/ showLoad(t, s)
     \/ (isLoad(c) \/ isWrite(c)) /\ c.at = "failed" /\ UNCHANGED tab
  /\ becomes(t, s, Idle)
  /\ UNCHANGED <<ledgerVars, block, clock, serverVars, stored, scene>>

\* The connection breaks: the page goes on as after an error answer, and the
\* handler of a write that was sent goes on too.
connectionLost(t, s) ==
  LET c == call[t][s] IN
  /\ scene.losses /\ c.at \notin {"idle", "failed"}
  /\ IF c.at = "pending"
     THEN c.heard /\ becomes(t, s, [c EXCEPT !.heard = FALSE])
     ELSE becomes(t, s, [c EXCEPT !.at = "failed"])
  /\ UNCHANGED <<ledgerVars, block, clock, serverVars, browserVars, scene>>

-----------------------------------------------------------------------------
\* Transactions of others, the time of the chain, and that of the backend.
Elsewhere ==
  /\ \/ /\ transaction
        /\ \E kind \in scene.others, i \in scene.ids : effectOf(kind, i)
        /\ UNCHANGED clock
     \/ /\ time < scene.lastTime
        /\ Passes
        /\ UNCHANGED <<block, clock>>
     \/ /\ clock < scene.lastClock
        /\ clock' = clock + 1
        /\ UNCHANGED <<ledgerVars, block>>
  /\ UNCHANGED <<call, serverVars, browserVars, scene>>

View(t, s) == ViewStep(t, s) /\ UNCHANGED <<serverVars, browserVars, scene>>

Serve(t, s) == View(t, s) \/ openSession(t, s) \/ session(t, s) \/ send(t, s) \/ wait(t, s)

Continue(t, s) ==
  loggedIn(t, s) \/ shellReady(t, s) \/ checkFailed(t, s) \/ written(t, s) \/ answered(t, s)

User(t, s) ==
  \/ \E k \in People : loginWithKey(t, s, k)
  \/ \E i \in scene.ids :
       \/ \E route \in scene.loads : load(t, s, route, i)
       \/ \E kind \in scene.writes : write(t, s, kind, i)

PortalNext ==
  \/ \E t \in scene.tabs :
       \/ signOut(t) \/ navigate(t) \/ render(t)
       \/ \E s \in scene.slots :
            checkSession(t, s) \/ Serve(t, s) \/ Continue(t, s) \/ User(t, s) \/ connectionLost(t, s)
  \/ \E token \in live : sessionExpires(token)
  \/ Elsewhere

\* A tab does not stop: of its effect that is due, the handlers that serve it
\* and the answers that have come, one is taken up at a time.
Progress(t) ==
  \E s \in scene.slots : checkSession(t, s) \/ Serve(t, s) \/ Continue(t, s)

Fairness == \A t \in Tabs : WF_portalVars(Progress(t))

PortalSpec == PortalInit /\ [][PortalNext]_portalVars /\ Fairness

-----------------------------------------------------------------------------
ok(t, s, routes) == call[t][s].at = "ok" /\ call[t][s].route \in routes

\* Every score shown lies between what its evidence and the open divergence
\* allow: all of their product, and the fifth that is left after the window.
ScoreInBand ==
  \A t \in Tabs, s \in Slots : ok(t, s, {"asset", "assets"}) =>
    \A i \in 1..Len(call[t][s].rows) :
      LET row == call[t][s].rows[i]
          most == EVIDENCE_WEIGHT[row.tier] * divergencePenalty(row.hasOpenDivergence) IN
      round(most, 5) <= row.score /\ row.score <= most

\* A score is put together from reads at three moments.  Unless two or more
\* transactions ran in between, it is no higher than the asset's score, by the
\* backend's clock, at the first of them or at the last: the evidence is read
\* before the open divergence, so new evidence never meets an old all-clear.
\* By the chain's clock it can be: evidence that is older on the chain than it
\* is to the backend has not decayed yet.
OneChangeNotOverstated ==
  \A t \in Tabs, s \in Slots : ok(t, s, {"asset", "assets"}) =>
    \A i \in 1..Len(call[t][s].rows) :
      call[t][s].rows[i].score <= call[t][s].rows[i].best

\* The records and the id of the open one are read at different moments.  The
\* id announced as open is never listed as resolved, nor older than any listed.
OpenNotListedResolved ==
  \A t \in Tabs, s \in Slots :
    LET c == call[t][s] IN
    ok(t, s, {"divergences"}) /\ c.openId # 0 =>
      \A i \in 1..Len(c.rows) :
        /\ c.rows[i].id <= c.openId
        /\ c.rows[i].id = c.openId => ~c.rows[i].resolved

\* Loads overlap, are answered out of order, and the last answer is shown.  Once
\* the reload after a write has been answered, the page shows the chain with
\* the write in it and never goes back before it, whatever loads follow, unless
\* a load from before the write was unanswered when the page was told of it:
\* that one may come last.
OwnWriteShown ==
  \A t \in Tabs :
    tab[t].shown.reloaded /\ ~tab[t].shown.crossed => tab[t].shown.from >= tab[t].wrote

\* Token and key are stored by one login and read at different moments.  A
\* write that goes out with the session of one account and the key of another
\* comes from a page that another tab's login has overtaken.
MixedOnlyAfterSwitch ==
  \A t \in Tabs, s \in Slots :
    LET c == call[t][s] IN
    isWrite(c) => (c.key \notin {Nobody, c.token.who} => c.switched)

\* A tab that is checking its session ends up with its pages or at the login.
ShellSettles ==
  \A t \in Tabs : (inShell(t) /\ tab[t].me = Nobody) ~> (onPage(t) \/ ~inShell(t))
=============================================================================
