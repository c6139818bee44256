------------------------------ MODULE Sessions ------------------------------
(***************************************************************************)
(* The backend's login (backend/src/routes/auth.ts): login nonces,          *)
(* sessions, and the reads of the chain in between.  Node runs one handler  *)
(* at a time, up to its next await: a step of a login is what happens from  *)
(* one await to the next, and the chain and every other request may step    *)
(* between two of them.                                                     *)
(***************************************************************************)
EXTENDS Identity

CONSTANTS
  Nonces,    \* the random nonces that /challenge draws, each once
  Requests,  \* names of the requests in flight
  Seeded,    \* demo-setup.ts: the first DIDs, one per account,
  SeededRoles  \* and the roles it grants to them

ASSUME SeedAssumption ==
  /\ DOMAIN Seeded \subseteq Dids
  /\ Seeded \in [DOMAIN Seeded -> Accounts]
  /\ \A d, e \in DOMAIN Seeded : Seeded[d] = Seeded[e] => d = e
  /\ SeededRoles \subseteq Grantable

VARIABLES
  nonces,    \* the LoginNonce rows
  sessions,  \* the tokens that jwt.verify accepts
  opened,    \* history: the number of sessions that each nonce has opened
  login      \* the POST /auth/login handlers in flight

sessionVars == <<nonces, sessions, opened, login>>

NonceRow == [address : Accounts \cup {NoAccount}, state : {"none", "unused", "expired", "used"}]
Session  == [did : Dids, address : Accounts, held : BOOLEAN]
NoLogin  == [at |-> "idle"]
\* late: the nonce had opened a session before this login began.  held: the
\* DID was active, under this address, when didOfController was read.
Login == [at : {"didOf", "isActive", "mark", "sign"}, nonce : Nonces, address : Accounts,
          did : Dids, late : BOOLEAN, held : BOOLEAN]

SessionTypeOK ==
  /\ nonces \in [Nonces -> NonceRow]
  /\ sessions \subseteq Session
  /\ opened \in [Nonces -> Nat]
  /\ login \in [Requests -> {NoLogin} \cup Login]

\* The state that demo-setup.ts leaves: what the constructor granted, the
\* roles it grants without an expiry, and the DIDs it registers.
SeededInit ==
  /\ now = 0
  /\ member = initialMembers \cup SeededRoles
  /\ expiry = [g \in Grantable |-> 0]
  /\ granted = [g \in Grantable |-> IF g \in member THEN Forever ELSE 0]
  /\ dids = [d \in Dids |->
       IF d \in DOMAIN Seeded THEN [controller |-> Seeded[d], status |-> "Active"] ELSE NoRecord]
  /\ didByController = [a \in Accounts |->
       IF \E d \in DOMAIN Seeded : Seeded[d] = a
       THEN CHOOSE d \in DOMAIN Seeded : Seeded[d] = a ELSE NoDid]

SessionInit ==
  /\ nonces = [n \in Nonces |-> [address |-> NoAccount, state |-> "none"]]
  /\ sessions = {}
  /\ opened = [n \in Nonces |-> 0]
  /\ login = [r \in Requests |-> NoLogin]

go(r, step) == login' = [login EXCEPT ![r].at = step]
leave(r)    == login' = [login EXCEPT ![r] = NoLogin]

-----------------------------------------------------------------------------
challenge(n, a) ==
  /\ nonces[n].state = "none"
  /\ nonces' = [nonces EXCEPT ![n] = [address |-> a, state |-> "unused"]]
  /\ UNCHANGED <<sessions, opened, login>>

nonceExpires(n) ==
  /\ nonces[n].state = "unused"
  /\ nonces' = [nonces EXCEPT ![n].state = "expired"]
  /\ UNCHANGED <<sessions, opened, login>>

\* Who signs a login message that names the nonce and gets through.
recoverLoginSigner(n) == nonces[n].address

\* The row must be unused, unexpired, and of the address whose key signed the
\* login message; every other login is answered 401 and changes nothing.
beginLogin(r, n, d) ==
  /\ login[r] = NoLogin
  /\ nonces[n].state = "unused"
  /\ login' = [login EXCEPT ![r] =
       [at |-> "didOf", nonce |-> n, address |-> recoverLoginSigner(n), did |-> d,
        late |-> opened[n] > 0, held |-> FALSE]]
  /\ UNCHANGED <<nonces, sessions, opened>>

\* assertActiveDid's first read.  A DID other than the claimed one can only
\* end in a refusal, whatever the second read returns.
didOfController(r) ==
  LET a == login[r].address  d == login[r].did IN
  /\ login[r].at = "didOf"
  /\ IF didByController[a] = d
     THEN login' = [login EXCEPT ![r].at = "isActive",
                                 ![r].held = dids[d] = [controller |-> a, status |-> "Active"]]
     ELSE leave(r)
  /\ UNCHANGED <<nonces, sessions, opened>>

\* assertActiveDid's second read (mutation: left out).
skipActive(r) ==
  /\ login[r].at = "isActive"
  /\ go(r, "mark")
  /\ UNCHANGED <<nonces, sessions, opened>>

readActive(r) ==
  /\ login[r].at = "isActive"
  /\ IF isActiveController(login[r].address) THEN go(r, "mark") ELSE leave(r)
  /\ UNCHANGED <<nonces, sessions, opened>>

\* The update is by nonce alone: it does not look at what the row says now.
\* (Mutation: left out.)
skipMark(r) ==
  /\ login[r].at = "mark"
  /\ go(r, "sign")
  /\ UNCHANGED <<nonces, sessions, opened>>

markUsed(r) ==
  /\ login[r].at = "mark"
  /\ nonces' = [nonces EXCEPT ![login[r].nonce].state = "used"]
  /\ go(r, "sign")
  /\ UNCHANGED <<sessions, opened>>

\* onChainRole's answer goes into the reply only, so its reads are not steps
\* here.
signSession(r) ==
  /\ login[r].at = "sign"
  /\ sessions' = sessions \cup
       {[did |-> login[r].did, address |-> login[r].address, held |-> login[r].held]}
  /\ opened' = [opened EXCEPT ![login[r].nonce] = @ + 1]
  /\ leave(r)
  /\ UNCHANGED nonces

\* Any awaited call may throw; the nonce stays as it is.
loginFails(r) ==
  /\ login[r] # NoLogin
  /\ leave(r)
  /\ UNCHANGED <<nonces, sessions, opened>>

sessionExpires(s) ==
  /\ sessions' = sessions \ {s}
  /\ UNCHANGED <<nonces, opened, login>>

LoginStep(r) ==
  \/ didOfController(r)
  \/ readActive(r)
  \/ markUsed(r)
  \/ signSession(r)
  \/ loginFails(r)

SessionStep ==
  \/ \E n \in Nonces :
       \/ nonceExpires(n)
       \/ \E a \in Accounts : challenge(n, a)
  \/ \E s \in sessions : sessionExpires(s)
  \/ \E r \in Requests : LoginStep(r)

-----------------------------------------------------------------------------
\* The documentation's promise, a nonce is used once, which the code does not
\* keep: the row is not read again when it is marked, so logins that are past
\* the first read together all open a session (a violation run shows it).
NonceSingleUse == \A n \in Nonces : opened[n] <= 1

\* What the code keeps of it: a nonce that has opened a session opens none for
\* a login that begins later, whatever fails or overlaps in between.
NonceSpent == \A r \in Requests : login[r] # NoLogin => ~login[r].late

\* assertActiveDid reads the DID and its activity in two calls, between which
\* keys may be rotated and DIDs revoked.  The DID of every session was active
\* and controlled by the session's address when the first was answered.
SessionHeldDid == \A s \in sessions : s.held
=============================================================================
