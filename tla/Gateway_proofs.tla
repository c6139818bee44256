--------------------------- MODULE Gateway_proofs ---------------------------
(***************************************************************************)
(* Proofs about the gateway, for every number of requests, accounts, DIDs,  *)
(* nonces, documents and credentials, and every workload: logins, role      *)
(* checks, mints and credential verifications, each a handler that awaits   *)
(* in between, against each other and against the two contracts.            *)
(***************************************************************************)
EXTENDS Gateway, Identity_proofs

-----------------------------------------------------------------------------
\* The contracts, as their own proofs know them.
Contracts == Typed /\ ControlIsMutual

\* What the handlers rely on without asking: a nonce that can open a session
\* was drawn for an account, only a mint has a document at hand, and the row
\* that a verification is about is there.
Issued  == \A n \in Nonces : nonces[n].state = "unused" => nonces[n].address \in Accounts
Minting == \A r \in Requests : req[r].at \in {"bin", "json", "row", "tx"} =>
             req[r].kind = "mint" /\ req[r].hash \in Hashes
Read    == \A c \in Checks : check[c].at # "idle" => creds[check[c].cred] # NoRow

Sound == Contracts /\ GatewayTypeOK /\ Issued /\ Minting /\ Read

-----------------------------------------------------------------------------
\* The seed of demo-setup.ts gives every account one DID at most.
LEMMA SeededContracts == SeededInit => Contracts
  <1> SUFFICES ASSUME SeededInit PROVE Contracts
    OBVIOUS
  <1>1. RoleInv
    <2>1. RoleTypeOK
      BY RoleAssumption, SeedAssumption DEF SeededInit, RoleTypeOK, initialMembers, Forever
    <2>2. \A g \in Grantable : Traced(g)
      BY DEF SeededInit, Traced
    <2> QED
      BY <2>1, <2>2 DEF RoleInv
  <1> DEFINE bound(a) == IF \E d \in DOMAIN Seeded : Seeded[d] = a
                         THEN CHOOSE d \in DOMAIN Seeded : Seeded[d] = a ELSE NoDid
  <1>2. didByController = [a \in Accounts |-> bound(a)]
    BY DEF SeededInit
  <1>3. ASSUME NEW a \in Accounts
        PROVE  \/ bound(a) \in DOMAIN Seeded /\ Seeded[bound(a)] = a
               \/ bound(a) = NoDid /\ \A d \in DOMAIN Seeded : Seeded[d] # a
    OBVIOUS
  <1>4. \A d \in DOMAIN Seeded : Seeded[d] \in Accounts /\ d \in Dids
    BY SeedAssumption
  <1>5. \A d \in DOMAIN Seeded : bound(Seeded[d]) = d
    BY <1>3, <1>4, SeedAssumption, DidAssumption
  <1> HIDE DEF bound
  <1>6. DidTypeOK
    BY <1>2, <1>3, <1>4 DEF SeededInit, DidTypeOK, NoRecord, Status
  <1>7. ControlIsMutual
    <2>1. ASSUME NEW d \in Dids, dids[d].status # "None"
          PROVE  dids[d].controller \in Accounts /\ didByController[dids[d].controller] = d
      <3>1. d \in DOMAIN Seeded /\ dids[d].controller = Seeded[d]
        BY <2>1 DEF SeededInit, NoRecord
      <3> QED
        BY <1>2, <1>4, <1>5, <3>1
    <2>2. ASSUME NEW a \in Accounts, didByController[a] # NoDid
          PROVE  /\ dids[didByController[a]].status # "None"
                 /\ dids[didByController[a]].controller = a
      <3>1. didByController[a] \in DOMAIN Seeded /\ Seeded[didByController[a]] = a
        BY <1>2, <1>3, <2>2
      <3> QED
        BY <1>4, <3>1 DEF SeededInit
    <2> QED
      BY <2>1, <2>2 DEF ControlIsMutual
  <1> QED
    BY <1>1, <1>6, <1>7 DEF Contracts, Typed

LEMMA ContractsStep == Contracts /\ [Next]_vars => Contracts'
  BY TypedStep, ControlStep DEF Contracts

LEMMA SoundInit == GatewayInit => Sound
  <1> SUFFICES ASSUME GatewayInit PROVE Sound
    OBVIOUS
  <1>1. SessionTypeOK /\ Issued
    BY DEF GatewayInit, SessionInit, SessionTypeOK, Issued, NonceRow
  <1>2. GatewayTypeOK /\ Minting /\ Read
    BY <1>1 DEF GatewayInit, GatewayTypeOK, Minting, Read, Idle
  <1> QED
    BY <1>1, <1>2, SeededContracts DEF Sound, GatewayInit

-----------------------------------------------------------------------------
\* A request that the contract turns away holds none of the roles by which the
\* gateway admits its kind.
turnedAway(r) ==
  /\ req[r].at \in {"act", "tx"} /\ allowed(req[r].kind) # {}
  /\ rolesHeld[req[r].address] \cap allowed(req[r].kind) = {}
  /\ at(r, "reverted")
  /\ UNCHANGED <<vars, sessionVars, check, storeVars, creds, boundVars>>

mintSent(r) ==
  /\ req[r].at = "tx"
  /\ minted' = minted \cup {req[r].hash}
  /\ answer(r)
  /\ UNCHANGED <<vars, sessionVars, check, binFile, jsonFile, document, creds, boundVars>>

\* The steps of a request that leave the contracts alone.
OffChain(r) ==
  \/ readRole(r) \/ requestFails(r) \/ turnedAway(r)
  \/ \E h \in Hashes : putBin(r, h)
  \/ putJson(r) \/ createDocument(r) \/ mintSent(r)
  \/ \E c \in Creds : issue(r, c) \/ withdraw(r, c)

OnChain ==
  /\ Next
  /\ \E done \in SUBSET Requests : transaction(done)
  /\ UNCHANGED <<sessionVars, check, storeVars, creds>>

LEMMA AllowedByContract ==
  /\ \A k \in forwarded \cup {"mint"} : allowed(k) = contractRoles(k) /\ allowed(k) # {}
  /\ \A k \in adminKinds : allowed(k) = {ADMIN}
  BY DEF allowed, contractRoles, forwarded, adminKinds, mintRoute, attestRoute, assetsRouter,
     divergenceRouter, auditRouter, ADMIN, MANAGER, AUDITOR, USER

LEMMA AllowedRoles == \A k \in Kinds : allowed(k) \in SUBSET OperationalRoles
  BY DEF allowed, Kinds, adminKinds, mintRoute, attestRoute, assetsRouter, divergenceRouter,
     auditRouter, OperationalRoles, ADMIN, MANAGER, AUDITOR, USER

LEMMA RolesHeldFor == rolesHeld \in [Accounts -> SUBSET OperationalRoles]
  BY DEF rolesHeld

LEMMA AdminHeld ==
  ASSUME NEW a \in Accounts, NEW g \in Grantable, g[2] \in OperationalRoles \ {ADMIN},
         ~checkAdmin(a, g, expiry)
  PROVE  ADMIN \notin rolesHeld[a]
  BY DEF checkAdmin, adminOf, getRoleAdmin, rolesHeld, hasRole, OperationalRoles,
     ADMIN, MANAGER, AUDITOR, USER

LEMMA ActiveRequest ==
  ASSUME Sound, NEW r \in Requests, req[r].at # "idle"
  PROVE  req[r] \in Request /\ req[r].address \in Accounts /\ req[r].kind \in Kinds
  BY DEF Sound, GatewayTypeOK, Request, Idle

\* What grants, revocations and DID calls through the gateway do on chain is
\* what any caller's do.
LEMMA RequestKinds ==
  ASSUME Sound, NEW r \in Requests, RequestStep(r)
  PROVE  OffChain(r) \/ OnChain
  <1> DEFINE a == req[r].address
  <1>2. ASSUME NEW g \in Grantable, grant(r, g) PROVE OffChain(r) \/ OnChain
    <2>1. acting(r, "grant") /\ g[2] \in OperationalRoles
      BY <1>2 DEF grant
    <2>2. req[r] \in Request /\ a \in Accounts
      BY <2>1, ActiveRequest DEF acting
    <2>3. CASE /\ \/ grantRole(a, g)
                  \/ \E until \in 1..(MaxTime + 1) : grantRoleWithExpiry(a, g, until)
               /\ transaction({r})
               /\ UNCHANGED <<didVars, sessionVars, check, storeVars, creds, workload>>
      <3>1. RoleCall
        BY <2>2, <2>3 DEF RoleCall
      <3> QED
        BY <2>3, <3>1 DEF OnChain, Next
    <2>4. CASE g[2] # ADMIN /\ reverts(r, checkAdmin(a, g, expiry))
      <3>1. ADMIN \notin rolesHeld[a] /\ allowed(req[r].kind) = {ADMIN}
        BY <2>1, <2>2, <2>4, AdminHeld, AllowedByContract DEF reverts, acting, adminKinds
      <3> QED
        BY <2>1, <2>4, <3>1 DEF OffChain, turnedAway, reverts, acting
    <2> QED
      BY <1>2, <2>3, <2>4 DEF grant
  <1>3. ASSUME NEW g \in Grantable, revokeRoleOf(r, g) PROVE OffChain(r) \/ OnChain
    <2>1. acting(r, "revokeRole") /\ g[2] \in OperationalRoles
      BY <1>3 DEF revokeRoleOf
    <2>2. req[r] \in Request /\ a \in Accounts
      BY <2>1, ActiveRequest DEF acting
    <2>3. CASE /\ revokeRole(a, g)
               /\ transaction({r})
               /\ UNCHANGED <<didVars, sessionVars, check, storeVars, creds, workload>>
      <3>1. RoleCall
        BY <2>2, <2>3 DEF RoleCall
      <3> QED
        BY <2>3, <3>1 DEF OnChain, Next
    <2>4. CASE g[2] # ADMIN /\ reverts(r, checkAdmin(a, g, expiry))
      <3>1. ADMIN \notin rolesHeld[a] /\ allowed(req[r].kind) = {ADMIN}
        BY <2>1, <2>2, <2>4, AdminHeld, AllowedByContract DEF reverts, acting, adminKinds
      <3> QED
        BY <2>1, <2>4, <3>1 DEF OffChain, turnedAway, reverts, acting
    <2> QED
      BY <1>3, <2>3, <2>4 DEF revokeRoleOf
  <1>4. ASSUME NEW d \in Dids, identity(r, d) PROVE OffChain(r) \/ OnChain
    <2>1. req[r] \in Request /\ a \in Accounts
      BY <1>4, ActiveRequest DEF identity, acting
    <2>2. CASE /\ \/ revoke(a, d)
                  \/ \E c \in Accounts : register(a, d, c)
                  \/ \E c \in Accounts : rotateKey(a, d, c)
               /\ transaction({r})
               /\ UNCHANGED <<roleVars, sessionVars, check, storeVars, creds, workload>>
      <3>1. DidCall
        BY <2>1, <2>2 DEF DidCall
      <3> QED
        BY <2>2, <3>1 DEF OnChain, Next
    <2>3. CASE acting(r, "revokeDid") /\ reverts(r, isAdmin(a) \/ dids[d].controller = a)
      <3>1. ADMIN \notin rolesHeld[a] /\ allowed(req[r].kind) = {ADMIN}
        BY <2>1, <2>3, AllowedByContract
           DEF reverts, acting, adminKinds, isAdmin, rolesHeld
      <3> QED
        BY <2>3, <3>1 DEF OffChain, turnedAway, reverts, acting
    <2> QED
      BY <1>4, <2>2, <2>3 DEF identity
  <1>5. ASSUME forward(r) PROVE OffChain(r)
    BY <1>5, AllowedByContract DEF forward, reverts, OffChain, turnedAway
  <1>6. ASSUME mint(r) PROVE OffChain(r)
    <2>1. req[r].at = "tx" /\ req[r].kind = "mint"
      BY <1>6 DEF mint, Sound, Minting
    <2> QED
      BY <1>6, <2>1, AllowedByContract DEF mint, reverts, OffChain, turnedAway, mintSent
  <1> QED
    BY <1>2, <1>3, <1>4, <1>5, <1>6 DEF RequestStep, OffChain

LEMMA StepKinds ==
  ASSUME Sound, [GatewayNext]_gatewayVars
  PROVE  \/ OnChain
         \/ LoginRequest
         \/ \E r \in Requests, s \in sessions, k \in Kinds : beginRequest(r, s, k)
         \/ \E r \in Requests : OffChain(r)
         \/ \E c \in Checks : CheckStep(c)
         \/ UNCHANGED gatewayVars
  <1>1. OtherTransaction => OnChain
    BY DEF OtherTransaction, OnChain, Next
  <1> QED
    BY <1>1, RequestKinds DEF GatewayNext

LEMMA StepsOfContracts == Sound /\ [GatewayNext]_gatewayVars => [Next]_vars
  <1> SUFFICES ASSUME Sound, [GatewayNext]_gatewayVars PROVE [Next]_vars
    OBVIOUS
  <1>1. ASSUME NEW r \in Requests, OffChain(r) PROVE UNCHANGED vars
    BY <1>1 DEF OffChain, readRole, requestFails, turnedAway, putBin, putJson, createDocument,
       mintSent, issue, withdraw
  <1>2. ASSUME NEW c \in Checks, CheckStep(c) PROVE UNCHANGED vars
    BY <1>2 DEF CheckStep, readRow, controllerOf, readIssuer, endCheck, checkUnchanged
  <1> QED
    BY <1>1, <1>2, StepKinds DEF OnChain, LoginRequest, beginRequest, gatewayVars

-----------------------------------------------------------------------------
\* A login changes its own entry.
LEMMA LoginEntry ==
  ASSUME SessionTypeOK, NEW r \in Requests, NEW x \in {NoLogin} \cup Login,
         login' = [login EXCEPT ![r] = x]
  PROVE  login' \in [Requests -> {NoLogin} \cup Login]
  BY DEF SessionTypeOK

\* The handlers of auth.ts keep the types of rows, sessions and logins, and
\* every nonce that can open a session belongs to an account.
LEMMA LoginTyped == Sound /\ LoginRequest => SessionTypeOK' /\ Issued'
  <1> SUFFICES ASSUME Sound, LoginRequest PROVE SessionTypeOK' /\ Issued'
    OBVIOUS
  <1>0. SessionTypeOK /\ Issued
    BY DEF Sound, GatewayTypeOK
  <1>1. ASSUME NEW n \in Nonces, nonceExpires(n) PROVE SessionTypeOK' /\ Issued'
    BY <1>0, <1>1 DEF nonceExpires, SessionTypeOK, Issued, NonceRow
  <1>2. ASSUME NEW n \in Nonces, NEW a \in Accounts, challenge(n, a)
        PROVE  SessionTypeOK' /\ Issued'
    BY <1>0, <1>2 DEF challenge, SessionTypeOK, Issued, NonceRow
  <1>3. ASSUME NEW s \in sessions, sessionExpires(s) PROVE SessionTypeOK' /\ Issued'
    BY <1>0, <1>3 DEF sessionExpires, SessionTypeOK, Issued
  <1>4. ASSUME NEW r \in Requests, NEW n \in Nonces, NEW d \in Dids, beginLogin(r, n, d)
        PROVE  SessionTypeOK' /\ Issued'
    <2>1. nonces[n].address \in Accounts
      BY <1>0, <1>4 DEF beginLogin, Issued
    <2>2. [at |-> "didOf", nonce |-> n, address |-> recoverLoginSigner(n), did |-> d,
           late |-> opened[n] > 0, held |-> FALSE] \in Login
      BY <1>0, <2>1 DEF Login, recoverLoginSigner
    <2> QED
      BY <1>0, <1>4, <2>2, LoginEntry DEF beginLogin, SessionTypeOK, Issued
  <1>5. ASSUME NEW r \in Requests, LoginStep(r) PROVE SessionTypeOK' /\ Issued'
    <2>1. login[r] \in {NoLogin} \cup Login /\ NoLogin.at = "idle"
      BY <1>0 DEF SessionTypeOK, NoLogin
    <2>2. \A f \in Login, step \in {"didOf", "isActive", "mark", "sign"} :
            [f EXCEPT !.at = step] \in Login
      BY DEF Login
    <2>3. CASE leave(r) /\ UNCHANGED <<nonces, sessions, opened>>
      BY <1>0, <2>3, LoginEntry DEF leave, SessionTypeOK, Issued
    <2>4. ASSUME NEW step \in {"didOf", "isActive", "mark", "sign"}, login[r].at # "idle", go(r, step)
          PROVE  login' \in [Requests -> {NoLogin} \cup Login]
      <3>1. [login[r] EXCEPT !.at = step] \in Login
        BY <2>1, <2>2, <2>4
      <3>2. login' = [login EXCEPT ![r] = [login[r] EXCEPT !.at = step]]
        BY <2>4 DEF go
      <3> QED
        BY <1>0, <3>1, <3>2, LoginEntry
    <2>5. CASE readActive(r)
      BY <1>0, <2>3, <2>4, <2>5 DEF readActive, SessionTypeOK, Issued
    <2>6. CASE markUsed(r)
      <3>1. login' \in [Requests -> {NoLogin} \cup Login]
        BY <2>4, <2>6 DEF markUsed
      <3>2. login[r].nonce \in Nonces
        BY <2>1, <2>6 DEF markUsed, Login
      <3> QED
        BY <1>0, <2>6, <3>1, <3>2 DEF markUsed, SessionTypeOK, Issued, NonceRow
    <2>7. CASE didOfController(r)
      <3> DEFINE f == login[r]
                 h == dids[f.did] = [controller |-> f.address, status |-> "Active"]
      <3>1. f \in Login
        BY <2>1, <2>7 DEF didOfController
      <3>2. CASE didByController[f.address] = f.did
        <4>1. [[f EXCEPT !.at = "isActive"] EXCEPT !.held = h] \in Login
          BY <3>1 DEF Login
        <4>2. login' = [login EXCEPT ![r] = [[f EXCEPT !.at = "isActive"] EXCEPT !.held = h]]
          BY <1>0, <2>7, <3>2 DEF didOfController, SessionTypeOK
        <4> QED
          BY <1>0, <2>7, <4>1, <4>2, LoginEntry DEF didOfController, SessionTypeOK, Issued
      <3>3. CASE didByController[f.address] # f.did
        BY <2>3, <2>7, <3>3 DEF didOfController
      <3> QED
        BY <3>2, <3>3
    <2>8. CASE signSession(r)
      <3>1. login[r] \in Login
        BY <2>1, <2>8 DEF signSession
      <3>2. [did |-> login[r].did, address |-> login[r].address, held |-> login[r].held] \in Session
        BY <3>1 DEF Login, Session
      <3>3. login[r].nonce \in Nonces
        BY <3>1 DEF Login
      <3>4. login' \in [Requests -> {NoLogin} \cup Login]
        BY <1>0, <2>8, LoginEntry DEF signSession, leave
      <3> QED
        BY <1>0, <2>8, <3>2, <3>3, <3>4 DEF signSession, SessionTypeOK, Issued
    <2> QED
      BY <1>5, <2>3, <2>5, <2>6, <2>7, <2>8 DEF LoginStep, loginFails
  <1> QED
    BY <1>1, <1>2, <1>3, <1>4, <1>5 DEF LoginRequest, SessionStep

-----------------------------------------------------------------------------
\* A request that moves keeps its type, and its hash if it is a mint.
LEMMA RequestEntry ==
  ASSUME Sound, NEW r \in Requests, NEW x \in {Idle} \cup Request,
         x.at \in {"bin", "json", "row", "tx"} => x.kind = "mint" /\ x.hash \in Hashes,
         req' = [req EXCEPT ![r] = x]
  PROVE  req' \in [Requests -> {Idle} \cup Request] /\ Minting'
  BY DEF Sound, GatewayTypeOK, Minting

LEMMA Answered ==
  ASSUME Sound, NEW r \in Requests, answer(r)
  PROVE  req' \in [Requests -> {Idle} \cup Request] /\ Minting'
  BY RequestEntry DEF answer, Idle

LEMMA Moved ==
  ASSUME Sound, NEW r \in Requests, req[r].at # "idle", at(r, "reverted")
  PROVE  req' \in [Requests -> {Idle} \cup Request] /\ Minting'
  <1>1. req' = [req EXCEPT ![r] = [req[r] EXCEPT !.at = "reverted"]]
    BY DEF at
  <1>2. [req[r] EXCEPT !.at = "reverted"] \in Request
    BY ActiveRequest DEF Request
  <1> QED
    BY <1>1, <1>2, RequestEntry DEF Request

\* One of onChainRole's reads takes the role or goes to the next one.
LEMMA ReadRoleTo ==
  ASSUME Sound, NEW r \in Requests, readRole(r)
  PROVE  LET f == req[r]  role == order[f.turn] IN
         /\ f \in Request /\ role \in OperationalRoles
         /\ \E x \in Request :
              /\ req' = [req EXCEPT ![r] = x]
              /\ x.kind = f.kind /\ x.did = f.did /\ x.address = f.address /\ x.hash = f.hash
              /\ x.ever = f.ever /\ x.always = f.always
              /\ \/ /\ role \in rolesHeld[f.address] /\ x.role = role /\ x.turn = f.turn
                    /\ x.at = (IF role \in allowed(f.kind) THEN "act" ELSE "refused")
                 \/ /\ role \notin rolesHeld[f.address] /\ x.role = f.role
                    /\ \/ f.turn = 4 /\ x.turn = 4 /\ x.at = "refused"
                       \/ f.turn # 4 /\ x.turn = f.turn + 1 /\ x.at = "role"
  <1> DEFINE f == req[r]
             role == order[f.turn]
  <1>1. f.at = "role" /\ f \in Request
    BY ActiveRequest DEF readRole
  <1>2. f.turn \in 1..4
    BY <1>1 DEF Request
  <1>3. role \in OperationalRoles
    BY <1>2 DEF order, OperationalRoles
  <1> HIDE DEF role
  <1>4. CASE role \in rolesHeld[f.address]
    <2> DEFINE x == [[f EXCEPT !.role = role] EXCEPT !.at =
                       IF role \in allowed(f.kind) THEN "act" ELSE "refused"]
    <2>1. x \in Request
      BY <1>1, <1>3 DEF Request
    <2>2. req' = [req EXCEPT ![r] = x]
      BY <1>1, <1>3, <1>4 DEF readRole, role, Request
    <2>3. /\ x.kind = f.kind /\ x.did = f.did /\ x.address = f.address /\ x.hash = f.hash
          /\ x.ever = f.ever /\ x.always = f.always /\ x.role = role /\ x.turn = f.turn
          /\ x.at = (IF role \in allowed(f.kind) THEN "act" ELSE "refused")
      BY <1>1 DEF Request
    <2> QED
      BY <1>1, <1>3, <1>4, <2>1, <2>2, <2>3 DEF role
  <1>5. CASE role \notin rolesHeld[f.address] /\ f.turn = 4
    <2> DEFINE x == [f EXCEPT !.at = "refused"]
    <2>1. x \in Request
      BY <1>1 DEF Request
    <2>2. req' = [req EXCEPT ![r] = x]
      BY <1>1, <1>5 DEF readRole, role
    <2>3. /\ x.kind = f.kind /\ x.did = f.did /\ x.address = f.address /\ x.hash = f.hash
          /\ x.ever = f.ever /\ x.always = f.always /\ x.role = f.role /\ x.turn = 4
          /\ x.at = "refused"
      BY <1>1, <1>5 DEF Request
    <2> QED
      BY <1>1, <1>3, <1>5, <2>1, <2>2, <2>3 DEF role
  <1>6. CASE role \notin rolesHeld[f.address] /\ f.turn # 4
    <2> DEFINE x == [f EXCEPT !.turn = f.turn + 1]
    <2>1. x \in Request
      BY <1>1, <1>2, <1>6 DEF Request
    <2>2. req' = [req EXCEPT ![r] = x]
      BY <1>1, <1>6 DEF readRole, role
    <2>3. /\ x.kind = f.kind /\ x.did = f.did /\ x.address = f.address /\ x.hash = f.hash
          /\ x.ever = f.ever /\ x.always = f.always /\ x.role = f.role /\ x.turn = f.turn + 1
          /\ x.at = "role"
      BY <1>1, <1>6 DEF Request
    <2> QED
      BY <1>1, <1>3, <1>6, <2>1, <2>2, <2>3 DEF role
  <1> QED
    BY <1>4, <1>5, <1>6

LEMMA PutBinTo ==
  ASSUME Sound, NEW r \in Requests, NEW h \in Hashes, putBin(r, h)
  PROVE  LET f == req[r] IN
         /\ f \in Request
         /\ \E x \in Request :
              /\ req' = [req EXCEPT ![r] = x]
              /\ x.kind = f.kind /\ x.did = f.did /\ x.address = f.address /\ x.turn = f.turn
              /\ x.role = f.role /\ x.ever = f.ever /\ x.always = f.always
              /\ x.hash = h /\ x.at = "json" /\ x.kind = "mint"
  <1> DEFINE f == req[r]
             x == [[f EXCEPT !.at = "json"] EXCEPT !.hash = h]
  <1>1. f \in Request /\ f.kind = "mint"
    BY ActiveRequest DEF putBin, acting
  <1>2. x \in Request
    BY <1>1 DEF Request
  <1>3. req' = [req EXCEPT ![r] = x]
    <2>1. req = [s \in Requests |-> req[s]]
      BY DEF Sound, GatewayTypeOK
    <2> QED
      BY <1>1, <2>1 DEF putBin
  <1>4. /\ x.kind = f.kind /\ x.did = f.did /\ x.address = f.address /\ x.turn = f.turn
        /\ x.role = f.role /\ x.ever = f.ever /\ x.always = f.always
        /\ x.hash = h /\ x.at = "json"
    BY <1>1 DEF Request
  <1> QED
    BY <1>1, <1>2, <1>3, <1>4

LEMMA MintMoved ==
  ASSUME Sound, NEW r \in Requests, NEW step \in {"row", "tx"},
         req[r].at \in {"json", "row"}, at(r, step)
  PROVE  req' \in [Requests -> {Idle} \cup Request] /\ Minting'
  <1>1. req' = [req EXCEPT ![r] = [req[r] EXCEPT !.at = step]]
    BY DEF at
  <1>2. req[r] \in Request /\ req[r].kind = "mint" /\ req[r].hash \in Hashes
    BY ActiveRequest DEF Sound, Minting
  <1>3. [req[r] EXCEPT !.at = step] \in Request
    BY <1>2 DEF Request
  <1>4. [req[r] EXCEPT !.at = step].kind = "mint" /\ [req[r] EXCEPT !.at = step].hash \in Hashes
    BY <1>2 DEF Request
  <1> QED
    BY <1>1, <1>3, <1>4, RequestEntry

StoresTyped == binFile \subseteq Hashes /\ jsonFile \subseteq Hashes
               /\ document \subseteq Hashes /\ minted \subseteq Hashes
CredsTyped  == creds \in [Creds -> {NoRow} \cup
                          [issuer : Dids, revoked : BOOLEAN, wasActive : BOOLEAN]]
RequestsTyped == req \in [Requests -> {Idle} \cup Request]
ChecksTyped == check \in [Checks -> {Idle} \cup Check]

LEMMA GatewayTypes ==
  GatewayTypeOK <=> SessionTypeOK /\ RequestsTyped /\ ChecksTyped /\ StoresTyped /\ CredsTyped
  BY DEF GatewayTypeOK, RequestsTyped, ChecksTyped, StoresTyped, CredsTyped

\* The handlers of a guarded request keep the types of what they write.
LEMMA OffChainTyped ==
  ASSUME Sound, NEW r \in Requests, OffChain(r)
  PROVE  /\ RequestsTyped' /\ Minting'
         /\ StoresTyped' /\ CredsTyped'
         /\ UNCHANGED <<vars, sessionVars, check>>
  <1> USE DEF RequestsTyped
  <1>0. StoresTyped /\ CredsTyped
    BY GatewayTypes DEF Sound
  <1>1. CASE readRole(r)
    <2>1. RequestsTyped' /\ Minting'
      BY <1>1, ReadRoleTo, RequestEntry
    <2> QED
      BY <1>0, <1>1, <2>1 DEF readRole, storeVars, StoresTyped, CredsTyped
  <1>2. CASE requestFails(r)
    BY <1>0, <1>2, Answered DEF requestFails, storeVars, StoresTyped, CredsTyped
  <1>3. CASE turnedAway(r)
    BY <1>0, <1>3, Moved DEF turnedAway, storeVars, StoresTyped, CredsTyped
  <1>4. ASSUME NEW h \in Hashes, putBin(r, h)
        PROVE  /\ RequestsTyped' /\ Minting' /\ StoresTyped' /\ CredsTyped'
               /\ UNCHANGED <<vars, sessionVars, check>>
    <2>1. RequestsTyped' /\ Minting'
      BY <1>4, PutBinTo, RequestEntry
    <2> QED
      BY <1>0, <1>4, <2>1 DEF putBin, StoresTyped, CredsTyped
  <1>5. CASE putJson(r)
    <2>1. req[r].hash \in Hashes
      BY <1>5 DEF putJson, Sound, Minting
    <2>2. RequestsTyped' /\ Minting'
      BY <1>5, MintMoved DEF putJson
    <2> QED
      BY <1>0, <1>5, <2>1, <2>2 DEF putJson, StoresTyped, CredsTyped
  <1>6. CASE createDocument(r)
    <2>1. req[r].hash \in Hashes
      BY <1>6 DEF createDocument, Sound, Minting
    <2>2. RequestsTyped' /\ Minting'
      BY <1>6, MintMoved DEF createDocument
    <2> QED
      BY <1>0, <1>6, <2>1, <2>2 DEF createDocument, StoresTyped, CredsTyped
  <1>7. CASE mintSent(r)
    <2>1. req[r].hash \in Hashes
      BY <1>7 DEF mintSent, Sound, Minting
    <2> QED
      BY <1>0, <1>7, <2>1, Answered DEF mintSent, StoresTyped, CredsTyped
  <1>8. ASSUME NEW c \in Creds, issue(r, c) \/ withdraw(r, c)
        PROVE  /\ RequestsTyped' /\ Minting' /\ StoresTyped' /\ CredsTyped'
               /\ UNCHANGED <<vars, sessionVars, check>>
    <2>1. RequestsTyped' /\ Minting'
      BY <1>8, Answered DEF issue, withdraw
    <2>2. req[r].did \in Dids
      BY <1>8, ActiveRequest DEF issue, withdraw, acting, Request
    <2>3. CredsTyped'
      <3>1. CASE issue(r, c)
        BY <1>0, <2>2, <3>1 DEF issue, CredsTyped
      <3>2. CASE withdraw(r, c)
        <4>1. [creds[c] EXCEPT !.revoked = TRUE]
                \in [issuer : Dids, revoked : BOOLEAN, wasActive : BOOLEAN]
          BY <1>0, <3>2 DEF withdraw, CredsTyped
        <4> QED
          BY <1>0, <3>2, <4>1 DEF withdraw, CredsTyped
      <3> QED
        BY <1>8, <3>1, <3>2
    <2>4. StoresTyped' /\ UNCHANGED <<vars, sessionVars, check>>
      BY <1>0, <1>8 DEF issue, withdraw, storeVars, StoresTyped
    <2> QED
      BY <2>1, <2>3, <2>4
  <1> QED
    BY <1>1, <1>2, <1>3, <1>4, <1>5, <1>6, <1>7, <1>8 DEF OffChain

LEMMA BeginsAs ==
  ASSUME Sound, NEW r \in Requests, NEW s \in sessions, NEW k \in Kinds, beginRequest(r, s, k)
  PROVE  /\ s \in Session
         /\ \E x \in Request :
              /\ req' = [req EXCEPT ![r] = x]
              /\ x.at = (IF allowed(k) = {} THEN "act" ELSE "role") /\ x.kind = k
              /\ x.did = s.did /\ x.address = s.address /\ x.turn = 1 /\ x.role = None
              /\ x.ever = rolesHeld[s.address] /\ x.always = rolesHeld[s.address]
  <1> DEFINE x == [at |-> IF allowed(k) = {} THEN "act" ELSE "role", kind |-> k, did |-> s.did,
                   address |-> s.address, turn |-> 1, hash |-> None, role |-> None,
                   ever |-> rolesHeld[s.address], always |-> rolesHeld[s.address]]
  <1>1. s \in Session
    BY DEF Sound, GatewayTypeOK, SessionTypeOK
  <1>2. s.did \in Dids /\ s.address \in Accounts
    BY <1>1 DEF Session
  <1>3. rolesHeld[s.address] \in SUBSET OperationalRoles
    BY <1>2, RolesHeldFor
  <1>4. x \in Request
    BY <1>2, <1>3 DEF Request
  <1>5. req' = [req EXCEPT ![r] = x]
    BY DEF beginRequest
  <1> QED
    BY <1>1, <1>4, <1>5

LEMMA WitnessedIn ==
  ASSUME NEW f \in Request, NEW held \in SUBSET OperationalRoles
  PROVE  LET x == witnessed(f, held) IN
         /\ x \in Request
         /\ x.at = f.at /\ x.kind = f.kind /\ x.did = f.did /\ x.address = f.address
         /\ x.turn = f.turn /\ x.hash = f.hash /\ x.role = f.role
         /\ x.ever = f.ever \cup held /\ x.always = f.always \cap held
  <1> DEFINE y == [f EXCEPT !.ever = f.ever \cup held]
             x == [y EXCEPT !.always = f.always \cap held]
  <1>1. y \in Request /\ y.always = f.always
    BY DEF Request
  <1>2. x = witnessed(f, held)
    BY DEF witnessed, Request
  <1>3. x \in Request
    BY <1>1 DEF Request
  <1>4. /\ x.at = f.at /\ x.kind = f.kind /\ x.did = f.did /\ x.address = f.address
        /\ x.turn = f.turn /\ x.hash = f.hash /\ x.role = f.role
        /\ x.ever = f.ever \cup held /\ x.always = f.always \cap held
    BY DEF Request
  <1> QED
    BY <1>2, <1>3, <1>4

\* A transaction leaves no request but those it settles, and what was held
\* after it is in the histories of the others.
LEMMA TransactionFields ==
  ASSUME Sound, NEW done \in SUBSET Requests, transaction(done), NEW r \in Requests, req'[r] # Idle
  PROVE  LET f == req[r] g == req'[r] held == rolesHeld'[req[r].address] IN
         /\ f \in Request /\ g \in Request
         /\ g.at = f.at /\ g.kind = f.kind /\ g.did = f.did /\ g.address = f.address
         /\ g.turn = f.turn /\ g.hash = f.hash /\ g.role = f.role
         /\ g.ever = f.ever \cup held /\ g.always = f.always \cap held
  <1>1. req[r] # Idle /\ req'[r] = witnessed(req[r], rolesHeld'[req[r].address])
    BY DEF transaction
  <1>2. req[r] \in Request
    BY <1>1 DEF Sound, GatewayTypeOK
  <1>3. rolesHeld'[req[r].address] \in SUBSET OperationalRoles
    <2>1. req[r].address \in Accounts
      BY <1>2 DEF Request
    <2>2. rolesHeld' \in [Accounts -> SUBSET OperationalRoles]
      BY DEF rolesHeld
    <2> QED
      BY <2>1, <2>2
  <1> QED
    BY <1>1, <1>2, <1>3, WitnessedIn

LEMMA TransactionTyped ==
  ASSUME Sound, NEW done \in SUBSET Requests, transaction(done)
  PROVE  RequestsTyped' /\ Minting'
  <1>1. ASSUME NEW r \in Requests, req'[r] # Idle
        PROVE  /\ req'[r] \in Request
               /\ req'[r].at \in {"bin", "json", "row", "tx"} =>
                    req'[r].kind = "mint" /\ req'[r].hash \in Hashes
    BY <1>1, TransactionFields DEF Sound, Minting
  <1>2. req' = [r \in Requests |-> req'[r]]
    BY DEF transaction
  <1>3. RequestsTyped'
    BY <1>1, <1>2 DEF RequestsTyped
  <1>4. Minting'
    BY <1>1, <1>2 DEF Minting, Idle
  <1> QED
    BY <1>3, <1>4

-----------------------------------------------------------------------------
\* A row stays a row, with its issuer and what is known of the issue.
RowKept(c) == /\ creds'[c] # NoRow
              /\ creds'[c].issuer = creds[c].issuer
              /\ creds'[c].wasActive = creds[c].wasActive

LEMMA RowFields ==
  ASSUME Sound, NEW c \in Creds, creds[c] # NoRow
  PROVE  /\ creds[c] \in [issuer : Dids, revoked : BOOLEAN, wasActive : BOOLEAN]
         /\ creds[c].issuer \in Dids
  BY GatewayTypes DEF Sound, CredsTyped

LEMMA RowsStand ==
  ASSUME Sound, [GatewayNext]_gatewayVars, NEW c \in Creds, creds[c] # NoRow
  PROVE  RowKept(c)
  <1>1. CASE UNCHANGED creds
    BY <1>1 DEF RowKept
  <1>2. ASSUME NEW r \in Requests, NEW e \in Creds, issue(r, e) PROVE RowKept(c)
    <2>1. e # c /\ creds = [d \in Creds |-> creds[d]]
      BY <1>2, GatewayTypes DEF issue, Sound, CredsTyped
    <2> QED
      BY <1>2, <2>1 DEF issue, RowKept
  <1>3. ASSUME NEW r \in Requests, NEW e \in Creds, withdraw(r, e) PROVE RowKept(c)
    <2>1. creds = [d \in Creds |-> creds[d]]
      BY GatewayTypes DEF Sound, CredsTyped
    <2>2. CASE e # c
      BY <1>3, <2>1, <2>2 DEF withdraw, RowKept
    <2>3. CASE e = c
      <3>1. creds'[c] = [creds[c] EXCEPT !.revoked = TRUE]
        BY <1>3, <2>1, <2>3 DEF withdraw
      <3>2. creds'[c].issuer = creds[c].issuer /\ creds'[c].wasActive = creds[c].wasActive
        BY <3>1, RowFields
      <3>3. creds'[c].issuer # NoRow.issuer
        BY <3>2, RowFields, DidAssumption DEF NoRow
      <3> QED
        BY <3>2, <3>3 DEF RowKept
    <2> QED
      BY <2>2, <2>3
  <1>4. ASSUME NEW r \in Requests, OffChain(r) PROVE RowKept(c)
    BY <1>1, <1>2, <1>3, <1>4
       DEF OffChain, readRole, requestFails, turnedAway, putBin, putJson, createDocument, mintSent
  <1>5. ASSUME NEW e \in Checks, CheckStep(e) PROVE UNCHANGED creds
    BY <1>5 DEF CheckStep, readRow, controllerOf, readIssuer, endCheck, checkUnchanged
  <1> QED
    BY <1>1, <1>4, <1>5, StepKinds DEF OnChain, LoginRequest, beginRequest, gatewayVars

\* What each of a verification's reads writes.
CheckTo(c, x) ==
  LET v == check[c]  issuer == creds[x.cred].issuer IN
  /\ check' = [check EXCEPT ![c] = x] /\ creds[x.cred] # NoRow
  /\ \/ /\ x.at = "controllerOf" /\ x.active = FALSE
        /\ x.revoked = creds[x.cred].revoked
        /\ x.good = (creds[x.cred].wasActive /\ dids[issuer].status = "Active")
     \/ /\ v.at = "controllerOf" /\ x.at = "isActive"
        /\ x.cred = v.cred /\ x.good = v.good /\ x.active = v.active
        /\ x.controller = dids[issuer].controller
     \/ /\ v.at = "isActive" /\ x.at = "answered"
        /\ x.cred = v.cred /\ x.good = v.good /\ x.controller = v.controller
        /\ x.active = isActiveController(v.controller)

LEMMA CheckKinds ==
  ASSUME Sound, NEW c \in Checks, CheckStep(c)
  PROVE  /\ checkUnchanged
         /\ \/ check' = [check EXCEPT ![c] = Idle]
            \/ \E x \in Check : CheckTo(c, x)
  <1> DEFINE v == check[c]
  <1>1. \A id \in Creds : creds[id] # NoRow =>
          /\ creds[id].revoked \in BOOLEAN /\ creds[id].wasActive \in BOOLEAN
          /\ creds[id].issuer \in Dids
    BY RowFields
  <1>2. \A d \in Dids : dids[d].controller \in Accounts \cup {NoAccount}
    BY DEF Sound, Contracts, Typed, DidTypeOK
  <1>3. v.at # "idle" => v \in Check /\ v.cred \in Creds /\ creds[v.cred] # NoRow
    BY GatewayTypes DEF Sound, ChecksTyped, Read, Check, Idle
  <1>4. ASSUME NEW id \in Creds, readRow(c, id) PROVE checkUnchanged
    BY <1>4 DEF readRow
  <1>5. checkUnchanged
    BY <1>4 DEF CheckStep, controllerOf, readIssuer, endCheck
  <1> DEFINE Result == check' = [check EXCEPT ![c] = Idle] \/ \E x \in Check : CheckTo(c, x)
  <1>6. ASSUME NEW id \in Creds, readRow(c, id) PROVE Result
    <2> DEFINE x == [at |-> "controllerOf", cred |-> id, revoked |-> creds[id].revoked,
                     controller |-> NoAccount, active |-> FALSE,
                     good |-> creds[id].wasActive /\ dids[creds[id].issuer].status = "Active"]
    <2>1. check' = [check EXCEPT ![c] = x] /\ creds[id] # NoRow
      BY <1>6 DEF readRow
    <2>2. x \in Check
      BY <1>1, <2>1 DEF Check
    <2>3. CheckTo(c, x)
      BY <2>1 DEF CheckTo
    <2> QED
      BY <2>2, <2>3
  <1>7. ASSUME controllerOf(c) PROVE Result
    <2> DEFINE k == dids[creds[v.cred].issuer].controller
               y == [v EXCEPT !.at = "isActive"]
               x == [y EXCEPT !.controller = k]
    <2>1. v.at = "controllerOf" /\ v \in Check /\ k \in Accounts \cup {NoAccount}
      BY <1>1, <1>2, <1>3, <1>7 DEF controllerOf
    <2>2. check' = [check EXCEPT ![c] = x]
      <3>1. check = [d \in Checks |-> check[d]]
        BY GatewayTypes DEF Sound, ChecksTyped
      <3> QED
        BY <1>7, <3>1 DEF controllerOf
    <2>3. y \in Check /\ y.cred = v.cred /\ y.good = v.good /\ y.active = v.active /\ y.at = "isActive"
      BY <2>1 DEF Check
    <2>4. x \in Check /\ x.cred = v.cred /\ x.good = v.good /\ x.active = v.active
          /\ x.at = "isActive" /\ x.controller = k
      <3> HIDE DEF y, k
      <3> QED
        BY <2>1, <2>3 DEF Check
    <2> HIDE DEF x, y
    <2>5. CheckTo(c, x)
      BY <1>3, <2>1, <2>2, <2>4 DEF CheckTo
    <2> QED
      BY <2>4, <2>5
  <1>8. ASSUME readIssuer(c) PROVE Result
    <2> DEFINE b == isActiveController(v.controller)
               y == [v EXCEPT !.at = "answered"]
               x == [y EXCEPT !.active = b]
    <2>1. v.at = "isActive" /\ v \in Check /\ b \in BOOLEAN
      BY <1>3, <1>8 DEF readIssuer, isActiveController
    <2>2. check' = [check EXCEPT ![c] = x]
      <3>1. check = [d \in Checks |-> check[d]]
        BY GatewayTypes DEF Sound, ChecksTyped
      <3> HIDE DEF b
      <3>2. check' = [check EXCEPT ![c].at = "answered", ![c].active = b]
        BY <1>8 DEF readIssuer, b
      <3> QED
        BY <3>1, <3>2
    <2>3. y \in Check /\ y.cred = v.cred /\ y.good = v.good /\ y.controller = v.controller
          /\ y.at = "answered"
      BY <2>1 DEF Check
    <2>4. x \in Check /\ x.cred = v.cred /\ x.good = v.good /\ x.controller = v.controller
          /\ x.at = "answered" /\ x.active = b
      <3> HIDE DEF y, b
      <3> QED
        BY <2>1, <2>3 DEF Check
    <2> HIDE DEF x, y
    <2>5. CheckTo(c, x)
      BY <1>3, <2>1, <2>2, <2>4 DEF CheckTo
    <2> QED
      BY <2>4, <2>5
  <1>9. ASSUME endCheck(c) PROVE Result
    BY <1>9 DEF endCheck
  <1>10. Result
    BY <1>6, <1>7, <1>8, <1>9 DEF CheckStep
  <1> QED
    BY <1>5, <1>10

LEMMA CheckTyped ==
  ASSUME Sound, NEW c \in Checks, CheckStep(c)
  PROVE  ChecksTyped' /\ Read'
  <1>1. ChecksTyped /\ Read /\ checkUnchanged
    BY CheckKinds, GatewayTypes DEF Sound
  <1>2. CASE check' = [check EXCEPT ![c] = Idle]
    BY <1>1, <1>2 DEF ChecksTyped, Read, checkUnchanged, Idle
  <1>3. ASSUME NEW x \in Check, CheckTo(c, x) PROVE ChecksTyped' /\ Read'
    BY <1>1, <1>3 DEF CheckTo, ChecksTyped, Read, checkUnchanged
  <1> QED
    BY <1>2, <1>3, CheckKinds

LEMMA ReadKept ==
  ASSUME Sound, [GatewayNext]_gatewayVars, UNCHANGED check
  PROVE  ChecksTyped' /\ Read'
  <1>1. ChecksTyped /\ Read
    BY GatewayTypes DEF Sound
  <1>2. ASSUME NEW c \in Checks, check[c].at # "idle" PROVE creds'[check[c].cred] # NoRow
    <2>1. check[c].cred \in Creds /\ creds[check[c].cred] # NoRow
      BY <1>1, <1>2 DEF ChecksTyped, Read, Check, Idle
    <2> QED
      BY <2>1, RowsStand DEF RowKept
  <1> QED
    BY <1>1, <1>2 DEF ChecksTyped, Read

LEMMA SoundParts ==
  /\ Sound <=> /\ Contracts /\ SessionTypeOK /\ Issued /\ RequestsTyped /\ Minting
               /\ ChecksTyped /\ Read /\ StoresTyped /\ CredsTyped
  /\ Sound' <=> /\ Contracts' /\ SessionTypeOK' /\ Issued' /\ RequestsTyped' /\ Minting'
                /\ ChecksTyped' /\ Read' /\ StoresTyped' /\ CredsTyped'
  BY DEF Sound, GatewayTypeOK, RequestsTyped, ChecksTyped, StoresTyped, CredsTyped

LEMMA SoundStep == Sound /\ [GatewayNext]_gatewayVars => Sound'
  <1> SUFFICES ASSUME Sound, [GatewayNext]_gatewayVars PROVE Sound'
    OBVIOUS
  <1>1. Contracts'
    BY StepsOfContracts, ContractsStep DEF Sound
  <1>2. /\ Contracts /\ SessionTypeOK /\ Issued /\ RequestsTyped /\ Minting
        /\ ChecksTyped /\ Read /\ StoresTyped /\ CredsTyped
    BY SoundParts
  <1>3. UNCHANGED sessionVars => SessionTypeOK' /\ Issued'
    BY <1>2 DEF sessionVars, SessionTypeOK, Issued
  <1>4. UNCHANGED req => RequestsTyped' /\ Minting'
    BY <1>2 DEF RequestsTyped, Minting
  <1>5. UNCHANGED check => ChecksTyped' /\ Read'
    BY ReadKept
  <1>6. UNCHANGED storeVars => StoresTyped'
    BY <1>2 DEF storeVars, StoresTyped
  <1>7. UNCHANGED creds => CredsTyped'
    BY <1>2 DEF CredsTyped
  <1>8. CASE OnChain
    BY <1>1, <1>3, <1>5, <1>6, <1>7, <1>8, TransactionTyped, SoundParts DEF OnChain
  <1>9. CASE LoginRequest
    BY <1>1, <1>4, <1>5, <1>6, <1>7, <1>9, LoginTyped, SoundParts DEF LoginRequest
  <1>10. ASSUME NEW r \in Requests, NEW s \in sessions, NEW k \in Kinds, beginRequest(r, s, k)
         PROVE  Sound'
    <2>1. RequestsTyped' /\ Minting'
      BY <1>10, BeginsAs, RequestEntry DEF RequestsTyped
    <2> QED
      BY <1>1, <1>3, <1>5, <1>6, <1>7, <1>10, <2>1, SoundParts DEF beginRequest
  <1>11. ASSUME NEW r \in Requests, OffChain(r) PROVE Sound'
    BY <1>1, <1>3, <1>5, <1>11, OffChainTyped, SoundParts
  <1>12. ASSUME NEW c \in Checks, CheckStep(c) PROVE Sound'
    <2>1. checkUnchanged
      BY <1>12, CheckKinds
    <2> QED
      BY <1>1, <1>3, <1>4, <1>6, <1>7, <1>12, <2>1, CheckTyped, SoundParts DEF checkUnchanged
  <1>13. CASE UNCHANGED gatewayVars
    BY <1>1, <1>3, <1>4, <1>5, <1>6, <1>7, <1>13, SoundParts DEF gatewayVars
  <1> QED
    BY <1>8, <1>9, <1>10, <1>11, <1>12, <1>13, StepKinds

LEMMA AlwaysSound == GatewaySpec => []Sound
  BY SoundInit, SoundStep, PTL DEF GatewaySpec

\* The gateway's own state, and the contracts' while the gateway and others
\* call them, keep their types (backend/src/routes).
THEOREM GatewayTyping == GatewaySpec => []GatewayTypeOK
  <1>1. Sound => GatewayTypeOK
    BY DEF Sound
  <1> QED
    BY <1>1, AlwaysSound, PTL

-----------------------------------------------------------------------------
\* A mint in flight has stored what its next step presupposes.
Stored(f) ==
  /\ f.at \in {"json", "row", "tx"} => f.hash \in binFile
  /\ f.at \in {"row", "tx"} => f.hash \in jsonFile
  /\ f.at = "tx" => f.hash \in document
Backed == HashBacked /\ \A r \in Requests : Stored(req[r])

LEMMA StoresGrow ==
  ASSUME Backed, binFile \subseteq binFile', jsonFile \subseteq jsonFile',
         document \subseteq document', minted' = minted, NEW r \in Requests,
         \A s \in Requests : s # r => req'[s] = req[s],
         Stored(req[r])'
  PROVE  Backed'
  BY DEF Backed, HashBacked, Stored

LEMMA BackedStep == Sound /\ Backed /\ [GatewayNext]_gatewayVars => Backed'
  <1> SUFFICES ASSUME Sound, Backed, [GatewayNext]_gatewayVars PROVE Backed'
    OBVIOUS
  <1>0. req \in [Requests -> {Idle} \cup Request]
    BY DEF Sound, GatewayTypeOK
  <1>1. CASE UNCHANGED <<req, storeVars>>
    BY <1>1 DEF storeVars, Backed, HashBacked, Stored
  <1>2. CASE OnChain
    <2>1. PICK done \in SUBSET Requests : transaction(done)
      BY <1>2 DEF OnChain
    <2>2. ASSUME NEW r \in Requests PROVE Stored(req[r])'
      <3>1. CASE req'[r] = Idle
        BY <3>1 DEF Idle, Stored
      <3>2. CASE req'[r] # Idle
        BY <1>2, <2>1, <3>2, TransactionFields DEF OnChain, storeVars, Backed, Stored
      <3> QED
        BY <3>1, <3>2
    <2> QED
      BY <1>2, <2>2 DEF OnChain, storeVars, Backed, HashBacked
  <1>3. ASSUME NEW r \in Requests, NEW x \in {Idle} \cup Request, req' = [req EXCEPT ![r] = x],
               UNCHANGED storeVars, Stored(x)
        PROVE  Backed'
    <2>1. req'[r] = x /\ \A s \in Requests : s # r => req'[s] = req[s]
      BY <1>0, <1>3
    <2>2. Stored(req[r])'
      BY <1>3, <2>1 DEF Stored, storeVars
    <2> QED
      BY <1>3, <2>1, <2>2, StoresGrow DEF storeVars
  <1>4. ASSUME NEW r \in Requests, NEW s \in sessions, NEW k \in Kinds, beginRequest(r, s, k)
        PROVE  Backed'
    <2>1. PICK x \in Request : req' = [req EXCEPT ![r] = x] /\ x.at \in {"act", "role"}
      BY <1>4, BeginsAs
    <2>2. Stored(x)
      BY <2>1 DEF Stored
    <2> QED
      BY <1>3, <1>4, <2>1, <2>2 DEF beginRequest
  <1>5. ASSUME NEW r \in Requests, readRole(r) PROVE Backed'
    <2>1. PICK x \in Request : req' = [req EXCEPT ![r] = x] /\ x.at \in {"act", "refused", "role"}
      BY <1>5, ReadRoleTo
    <2>2. Stored(x)
      BY <2>1 DEF Stored
    <2> QED
      BY <1>3, <1>5, <2>1, <2>2 DEF readRole
  <1>6. Stored(Idle)
    BY DEF Stored, Idle
  <1>7. ASSUME NEW r \in Requests, answer(r), UNCHANGED storeVars PROVE Backed'
    BY <1>3, <1>6, <1>7 DEF answer
  <1>8. ASSUME NEW r \in Requests, turnedAway(r) PROVE Backed'
    <2> DEFINE x == [req[r] EXCEPT !.at = "reverted"]
    <2>1. x \in Request /\ x.at = "reverted"
      BY <1>8, ActiveRequest DEF turnedAway, Request
    <2>2. req' = [req EXCEPT ![r] = x]
      BY <1>8 DEF turnedAway, at
    <2> HIDE DEF x
    <2>3. Stored(x)
      BY <2>1 DEF Stored
    <2> QED
      BY <1>3, <1>8, <2>1, <2>2, <2>3 DEF turnedAway
  <1>9. ASSUME NEW r \in Requests, NEW h \in Hashes, putBin(r, h) PROVE Backed'
    <2>1. PICK x \in Request : req' = [req EXCEPT ![r] = x] /\ x.hash = h /\ x.at = "json"
      BY <1>9, PutBinTo
    <2>2. req'[r] = x /\ \A s \in Requests : s # r => req'[s] = req[s]
      BY <1>0, <2>1
    <2>3. Stored(req[r])'
      BY <1>9, <2>1, <2>2 DEF putBin, Stored
    <2> QED
      BY <1>9, <2>2, <2>3, StoresGrow DEF putBin
  <1>10. ASSUME NEW r \in Requests, NEW step, at(r, step), req[r].at # "idle"
         PROVE  /\ req'[r] = [req[r] EXCEPT !.at = step]
                /\ req'[r].at = step /\ req'[r].hash = req[r].hash
                /\ \A s \in Requests : s # r => req'[s] = req[s]
    <2>1. req[r] \in Request
      BY <1>10, ActiveRequest
    <2>2. req' = [req EXCEPT ![r] = [req[r] EXCEPT !.at = step]]
      BY <1>10 DEF at
    <2> QED
      BY <1>0, <2>1, <2>2 DEF Request
  <1>11. ASSUME NEW r \in Requests, putJson(r) PROVE Backed'
    <2>1. req[r].hash \in binFile
      BY <1>11 DEF putJson, Backed, Stored
    <2>2. Stored(req[r])'
      BY <1>10, <1>11, <2>1 DEF putJson, Stored
    <2>3. \A s \in Requests : s # r => req'[s] = req[s]
      BY <1>10, <1>11 DEF putJson
    <2> QED
      BY <1>11, <2>2, <2>3, StoresGrow DEF putJson
  <1>12. ASSUME NEW r \in Requests, createDocument(r) PROVE Backed'
    <2>1. req[r].hash \in binFile /\ req[r].hash \in jsonFile
      BY <1>12 DEF createDocument, Backed, Stored
    <2>2. Stored(req[r])'
      BY <1>10, <1>12, <2>1 DEF createDocument, Stored
    <2>3. \A s \in Requests : s # r => req'[s] = req[s]
      BY <1>10, <1>12 DEF createDocument
    <2> QED
      BY <1>12, <2>2, <2>3, StoresGrow DEF createDocument
  <1>13. ASSUME NEW r \in Requests, mintSent(r) PROVE Backed'
    <2>1. req[r].hash \in binFile \cap jsonFile \cap document
      BY <1>13 DEF mintSent, Backed, Stored
    <2>2. req'[r] = Idle /\ \A s \in Requests : s # r => req'[s] = req[s]
      BY <1>0, <1>13 DEF mintSent, answer
    <2> QED
      BY <1>13, <2>1, <2>2 DEF mintSent, Backed, HashBacked, Stored, Idle
  <1>14. ASSUME NEW r \in Requests, OffChain(r) PROVE Backed'
    BY <1>5, <1>7, <1>8, <1>9, <1>11, <1>12, <1>13, <1>14
       DEF OffChain, requestFails, issue, withdraw
  <1>15. ASSUME NEW c \in Checks, CheckStep(c) PROVE UNCHANGED <<req, storeVars>>
    BY <1>15, CheckKinds DEF checkUnchanged
  <1> QED
    BY <1>1, <1>2, <1>4, <1>14, <1>15, StepKinds DEF LoginRequest, gatewayVars

\* Whatever fails, interleaves or is retried, a hash on chain is that of a
\* document whose files and row are there (routes/assets.ts, storage).
THEOREM MintedIsFetchable == GatewaySpec => []HashBacked
  <1>1. GatewayInit => Backed
    BY DEF GatewayInit, Backed, HashBacked, Stored, Idle
  <1>2. Backed => HashBacked
    BY DEF Backed
  <1> QED
    BY <1>1, <1>2, BackedStep, AlwaysSound, PTL DEF GatewaySpec

-----------------------------------------------------------------------------
\* A login about to sign has marked its nonce, nothing unmarks it, and so what
\* has opened a session is marked.
Unspent(f) == /\ f.at # "idle" => ~f.late
              /\ f.at = "sign" => nonces[f.nonce].state = "used"
Spent == /\ \A n \in Nonces : opened[n] > 0 => nonces[n].state = "used"
         /\ \A r \in Requests : Unspent(login[r])

\* The entry of a login after a step of its own.
LEMMA LoginTo ==
  ASSUME SessionTypeOK, NEW r \in Requests, NEW step, go(r, step), login[r].at # "idle"
  PROVE  /\ login[r] \in Login
         /\ login'[r].at = step /\ login'[r].nonce = login[r].nonce
         /\ login'[r].address = login[r].address /\ login'[r].did = login[r].did
         /\ login'[r].late = login[r].late /\ login'[r].held = login[r].held
         /\ \A q \in Requests : q # r => login'[q] = login[q]
  <1>1. login[r] \in Login
    BY DEF SessionTypeOK, NoLogin
  <1>2. login' = [login EXCEPT ![r] = [login[r] EXCEPT !.at = step]]
    BY DEF go
  <1>3. login'[r] = [login[r] EXCEPT !.at = step] /\ \A q \in Requests : q # r => login'[q] = login[q]
    BY <1>2 DEF SessionTypeOK
  <1> QED
    BY <1>1, <1>3 DEF Login

LEMMA DidOfTo ==
  ASSUME SessionTypeOK, NEW r \in Requests, didOfController(r)
  PROVE  LET f == login[r]  g == login'[r] IN
         /\ f \in Login
         /\ \A q \in Requests : q # r => login'[q] = login[q]
         /\ \/ g = NoLogin
            \/ /\ didByController[f.address] = f.did /\ g.at = "isActive"
               /\ g.nonce = f.nonce /\ g.address = f.address /\ g.did = f.did /\ g.late = f.late
               /\ g.held = (dids[f.did] = [controller |-> f.address, status |-> "Active"])
  <1> DEFINE f == login[r]
             h == dids[f.did] = [controller |-> f.address, status |-> "Active"]
  <1>1. f \in Login
    BY DEF didOfController, SessionTypeOK, NoLogin
  <1>2. CASE didByController[f.address] = f.did
    <2>1. login'[r] = [[f EXCEPT !.at = "isActive"] EXCEPT !.held = h]
      BY <1>2 DEF didOfController, SessionTypeOK
    <2>2. \A q \in Requests : q # r => login'[q] = login[q]
      BY <1>2 DEF didOfController, SessionTypeOK
    <2> QED
      BY <1>1, <1>2, <2>1, <2>2 DEF Login
  <1>3. CASE didByController[f.address] # f.did
    BY <1>1, <1>3 DEF didOfController, leave, SessionTypeOK
  <1> QED
    BY <1>2, <1>3

LEMMA SpentStep == Sound /\ Spent /\ [GatewayNext]_gatewayVars => Spent'
  <1> SUFFICES ASSUME Sound, Spent, [GatewayNext]_gatewayVars PROVE Spent'
    OBVIOUS
  <1>0. SessionTypeOK
    BY DEF Sound, GatewayTypeOK
  <1>1. CASE UNCHANGED sessionVars
    BY <1>1 DEF sessionVars, Spent, Unspent
  <1>2. ASSUME NEW n \in Nonces, nonceExpires(n) \/ \E a \in Accounts : challenge(n, a)
        PROVE  Spent'
    <2>1. \A m \in Nonces : nonces[m].state = "used" => nonces'[m].state = "used"
      BY <1>0, <1>2 DEF nonceExpires, challenge, SessionTypeOK, NonceRow
    <2>2. \A q \in Requests : login[q].at = "sign" => login[q].nonce \in Nonces
      BY <1>0 DEF SessionTypeOK, Login, NoLogin
    <2>3. UNCHANGED <<opened, login>>
      BY <1>0, <1>2 DEF nonceExpires, challenge, SessionTypeOK
    <2> QED
      BY <2>1, <2>2, <2>3 DEF Spent, Unspent
  <1>3. ASSUME NEW s \in sessions, sessionExpires(s) PROVE Spent'
    BY <1>3 DEF sessionExpires, Spent, Unspent
  <1>4. ASSUME NEW r \in Requests, NEW n \in Nonces, NEW d \in Dids, beginLogin(r, n, d)
        PROVE  Spent'
    <2>1. ~(opened[n] > 0)
      BY <1>4 DEF beginLogin, Spent
    <2>2. login'[r].at = "didOf" /\ ~login'[r].late
          /\ \A q \in Requests : q # r => login'[q] = login[q]
      BY <1>0, <1>4, <2>1 DEF beginLogin, SessionTypeOK
    <2> QED
      BY <1>4, <2>2 DEF beginLogin, Spent, Unspent
  <1>5. ASSUME NEW r \in Requests, leave(r), UNCHANGED <<nonces, opened>> PROVE Spent'
    <2>1. login'[r] = NoLogin /\ \A q \in Requests : q # r => login'[q] = login[q]
      BY <1>0, <1>5 DEF leave, SessionTypeOK
    <2> QED
      BY <1>5, <2>1 DEF Spent, Unspent, NoLogin
  <1>6. ASSUME NEW r \in Requests, didOfController(r) PROVE Spent'
    <2>1. UNCHANGED <<nonces, opened>> /\ login[r].at = "didOf"
      BY <1>6 DEF didOfController
    <2>2. \A q \in Requests : q # r => login'[q] = login[q]
      BY <1>0, <1>6, DidOfTo
    <2>3. login'[r] = NoLogin \/ (login'[r].at = "isActive" /\ login'[r].late = login[r].late)
      BY <1>0, <1>6, DidOfTo
    <2>4. ~login[r].late
      BY <2>1 DEF Spent, Unspent
    <2>5. Unspent(login[r])'
      BY <2>3, <2>4 DEF Unspent, NoLogin
    <2> QED
      BY <2>1, <2>2, <2>5 DEF Spent, Unspent
  <1>7. ASSUME NEW r \in Requests, readActive(r), go(r, "mark") PROVE Spent'
    <2>1. login[r].at # "idle" /\ UNCHANGED <<nonces, opened>>
      BY <1>7 DEF readActive
    <2> QED
      BY <1>0, <1>7, <2>1, LoginTo DEF Spent, Unspent
  <1>8. ASSUME NEW r \in Requests, markUsed(r) PROVE Spent'
    <2>1. login[r].at = "mark" /\ go(r, "sign") /\ opened' = opened
          /\ nonces' = [nonces EXCEPT ![login[r].nonce].state = "used"]
      BY <1>8 DEF markUsed
    <2>2. login[r] \in Login
      BY <1>0, <2>1, LoginTo
    <2>3. /\ nonces'[login[r].nonce].state = "used"
          /\ \A m \in Nonces : nonces[m].state = "used" => nonces'[m].state = "used"
      BY <1>0, <2>1, <2>2 DEF SessionTypeOK, NonceRow, Login
    <2>4. \A q \in Requests : login[q].at = "sign" => login[q].nonce \in Nonces
      BY <1>0 DEF SessionTypeOK, Login, NoLogin
    <2> QED
      BY <1>0, <2>1, <2>3, <2>4, LoginTo DEF Spent, Unspent
  <1>9. ASSUME NEW r \in Requests, signSession(r) PROVE Spent'
    <2>1. login'[r] = NoLogin /\ \A q \in Requests : q # r => login'[q] = login[q]
      BY <1>0, <1>9 DEF signSession, leave, SessionTypeOK
    <2>2. nonces[login[r].nonce].state = "used"
      BY <1>9 DEF signSession, Spent, Unspent
    <2>3. \A n \in Nonces : n # login[r].nonce => opened'[n] = opened[n]
      BY <1>0, <1>9 DEF signSession, SessionTypeOK
    <2> QED
      BY <1>9, <2>1, <2>2, <2>3 DEF signSession, Spent, Unspent, NoLogin
  <1>10. ASSUME NEW r \in Requests, LoginStep(r) PROVE Spent'
    BY <1>5, <1>6, <1>7, <1>8, <1>9, <1>10 DEF LoginStep, readActive, loginFails
  <1>11. LoginRequest => Spent'
    BY <1>2, <1>3, <1>4, <1>10 DEF LoginRequest, SessionStep
  <1>12. ASSUME NEW r \in Requests, OffChain(r) PROVE UNCHANGED sessionVars
    BY <1>12, OffChainTyped
  <1>13. ASSUME NEW c \in Checks, CheckStep(c) PROVE UNCHANGED sessionVars
    BY <1>13, CheckKinds DEF checkUnchanged
  <1> QED
    BY <1>1, <1>11, <1>12, <1>13, StepKinds DEF OnChain, beginRequest, gatewayVars

\* A nonce opens no session for a login that begins after one was opened with
\* it, through any overlap, failure and expiry of logins (routes/auth.ts).
THEOREM NonceOpensOnce == GatewaySpec => []NonceSpent
  <1>1. GatewayInit => Spent
    BY DEF GatewayInit, SessionInit, Spent, Unspent, NoLogin
  <1>2. Sound /\ Spent => NonceSpent
    <2> SUFFICES ASSUME Sound, Spent, NEW r \in Requests, login[r] # NoLogin PROVE ~login[r].late
      BY DEF NonceSpent
    <2>1. login[r].at # "idle"
      BY DEF Sound, GatewayTypeOK, SessionTypeOK, Login
    <2> QED
      BY <2>1 DEF Spent, Unspent
  <1> QED
    BY <1>1, <1>2, SpentStep, AlwaysSound, PTL DEF GatewaySpec

-----------------------------------------------------------------------------
\* The DID that a login claims is registered once the first read has confirmed
\* it.  If it was not active then it is revoked, keeps its key for good, and
\* the second read refuses.
Registered(d) == dids[d].status # "None"
Revoked(d)    == dids[d].status = "Revoked"
Claims(f) ==
  /\ f.at \in {"isActive", "mark", "sign"} => Registered(f.did)
  /\ f.at = "isActive" /\ ~f.held => Revoked(f.did) /\ dids[f.did].controller = f.address
  /\ f.at \in {"mark", "sign"} => f.held
Held == /\ \A r \in Requests : Claims(login[r])
        /\ \A s \in sessions : s.held /\ Registered(s.did)

LEMMA DidsStand ==
  ASSUME Sound, [GatewayNext]_gatewayVars, NEW d \in Dids
  PROVE  /\ Registered(d) => Registered(d)'
         /\ Revoked(d) => Revoked(d)' /\ dids'[d] = dids[d]
  BY StepsOfContracts, RecordsStand DEF Sound, Contracts, Registered, Revoked

\* What didOfController finds of the DID that it confirms.
LEMMA ConfirmedDid ==
  ASSUME Contracts, NEW d \in Dids, NEW a \in Accounts, didByController[a] = d
  PROVE  /\ Registered(d) /\ dids[d].controller = a
         /\ dids[d] # [controller |-> a, status |-> "Active"] => Revoked(d)
  <1>1. Registered(d) /\ dids[d].controller = a
    BY DidAssumption DEF Contracts, ControlIsMutual, Registered
  <1>2. dids[d] \in [controller : Accounts \cup {NoAccount}, status : Status]
    BY DEF Contracts, Typed, DidTypeOK
  <1>3. ASSUME dids[d].status = "Active" PROVE dids[d] = [controller |-> a, status |-> "Active"]
    BY <1>1, <1>2, <1>3
  <1> QED
    BY <1>1, <1>2, <1>3 DEF Registered, Revoked, Status

LEMMA ClaimsStand ==
  ASSUME Sound, [GatewayNext]_gatewayVars, NEW r \in Requests, Claims(login[r]),
         login'[r] = login[r]
  PROVE  Claims(login[r])'
  <1>1. login[r].at \in {"isActive", "mark", "sign"} => login[r].did \in Dids
    BY DEF Sound, GatewayTypeOK, SessionTypeOK, Login, NoLogin
  <1> QED
    BY <1>1, DidsStand DEF Claims, Registered, Revoked

LEMMA HeldStep == Sound /\ Held /\ [GatewayNext]_gatewayVars => Held'
  <1> SUFFICES ASSUME Sound, Held, [GatewayNext]_gatewayVars PROVE Held'
    OBVIOUS
  <1>0. SessionTypeOK
    BY DEF Sound, GatewayTypeOK
  <1>1. \A s \in sessions : s.did \in Dids /\ s.held /\ Registered(s.did)'
    BY <1>0, DidsStand DEF Held, SessionTypeOK, Session
  <1>2. \A r \in Requests : login'[r] = login[r] => Claims(login[r])'
    BY ClaimsStand DEF Held
  <1>3. CASE login' = login /\ sessions' \subseteq sessions
    BY <1>1, <1>2, <1>3 DEF Held
  <1>4. ASSUME NEW r \in Requests, \A q \in Requests : q # r => login'[q] = login[q],
               sessions' = sessions, Claims(login[r])'
        PROVE  Held'
    BY <1>1, <1>2, <1>4 DEF Held
  <1>5. ASSUME NEW r \in Requests, leave(r)
        PROVE  Claims(login[r])' /\ \A q \in Requests : q # r => login'[q] = login[q]
    <2>1. login'[r] = NoLogin /\ \A q \in Requests : q # r => login'[q] = login[q]
      BY <1>0, <1>5 DEF leave, SessionTypeOK
    <2> QED
      BY <2>1 DEF Claims, NoLogin
  <1>6. ASSUME NEW r \in Requests, NEW n \in Nonces, NEW d \in Dids, beginLogin(r, n, d)
        PROVE  Held'
    <2>1. login'[r].at = "didOf" /\ \A q \in Requests : q # r => login'[q] = login[q]
      BY <1>0, <1>6 DEF beginLogin, SessionTypeOK
    <2>2. Claims(login[r])'
      BY <2>1 DEF Claims
    <2> QED
      BY <1>4, <1>6, <2>1, <2>2 DEF beginLogin
  <1>7. ASSUME NEW r \in Requests, didOfController(r), UNCHANGED vars PROVE Held'
    <2> DEFINE f == login[r]
               g == login'[r]
    <2>1. /\ f \in Login /\ sessions' = sessions
          /\ \A q \in Requests : q # r => login'[q] = login[q]
      BY <1>0, <1>7, DidOfTo DEF didOfController
    <2>2. CASE g = NoLogin
      <3>1. Claims(login[r])'
        BY <2>2 DEF Claims, NoLogin
      <3> QED
        BY <1>4, <2>1, <3>1
    <2>3. CASE g # NoLogin
      <3>1. /\ didByController[f.address] = f.did /\ g.at = "isActive"
            /\ g.address = f.address /\ g.did = f.did
            /\ g.held = (dids[f.did] = [controller |-> f.address, status |-> "Active"])
        BY <1>0, <1>7, <2>3, DidOfTo
      <3>2. f.did \in Dids /\ f.address \in Accounts
        BY <2>1 DEF Login
      <3>3. /\ Registered(f.did) /\ dids[f.did].controller = f.address
            /\ ~g.held => Revoked(f.did)
        BY <3>1, <3>2, ConfirmedDid DEF Sound
      <3>4. dids' = dids
        BY <1>7 DEF vars, didVars
      <3>5. Claims(login[r])'
        BY <3>1, <3>3, <3>4 DEF Claims, Registered, Revoked
      <3> QED
        BY <1>4, <2>1, <3>5
    <2> QED
      BY <2>2, <2>3
  <1>8. ASSUME NEW r \in Requests, readActive(r), UNCHANGED vars, go(r, "mark") PROVE Held'
    <2>1. login[r].at = "isActive" /\ sessions' = sessions
      BY <1>8 DEF readActive
    <2>2. CASE ~isActiveController(login[r].address)
      BY <1>4, <1>5, <1>8, <2>1, <2>2 DEF readActive
    <2>3. CASE isActiveController(login[r].address)
      <3>1. login[r] \in Login
        BY <1>0, <2>1, <1>8, LoginTo
      <3>2. Claims(login[r]) /\ login[r].did \in Dids /\ login[r].held \in BOOLEAN
        BY <3>1 DEF Held, Login
      <3>3. ASSUME ~login[r].held PROVE FALSE
        <4>1. Revoked(login[r].did) /\ dids[login[r].did].controller = login[r].address
          BY <2>1, <3>2, <3>3 DEF Claims
        <4>2. didByController[login[r].address] = login[r].did
          BY <3>2, <4>1 DEF Sound, Contracts, ControlIsMutual, Revoked
        <4> QED
          BY <2>3, <4>1, <4>2 DEF isActiveController, Revoked
      <3>4. Registered(login[r].did) /\ login[r].held
        BY <2>1, <3>2, <3>3 DEF Claims
      <3>5. login'[r].did = login[r].did /\ login'[r].at = "mark" /\ login'[r].held = login[r].held
            /\ \A q \in Requests : q # r => login'[q] = login[q]
        BY <1>0, <1>8, <2>1, LoginTo
      <3>6. Claims(login[r])'
        BY <3>2, <3>4, <3>5, DidsStand DEF Claims
      <3> QED
        BY <1>4, <2>1, <3>5, <3>6
    <2> QED
      BY <2>2, <2>3
  <1>9. ASSUME NEW r \in Requests, markUsed(r) PROVE Held'
    <2>1. login[r].at = "mark" /\ go(r, "sign") /\ sessions' = sessions
      BY <1>9 DEF markUsed
    <2>2. login[r] \in Login /\ Claims(login[r])
      BY <1>0, <2>1, LoginTo DEF Held
    <2>3. login'[r].did = login[r].did /\ login'[r].at = "sign" /\ login'[r].held = login[r].held
          /\ \A q \in Requests : q # r => login'[q] = login[q]
      BY <1>0, <2>1, LoginTo
    <2>4. login[r].did \in Dids /\ Registered(login[r].did) /\ login[r].held
      BY <2>1, <2>2 DEF Login, Claims
    <2>5. Claims(login[r])'
      BY <2>3, <2>4, DidsStand DEF Claims
    <2> QED
      BY <1>4, <2>1, <2>3, <2>5
  <1>10. ASSUME NEW r \in Requests, signSession(r) PROVE Held'
    <2>1. login[r].at = "sign" /\ leave(r) /\ Claims(login[r]) /\ login[r] \in Login
      BY <1>0, <1>10 DEF signSession, Held, SessionTypeOK, NoLogin
    <2>2. login[r].did \in Dids /\ login[r].held /\ dids'[login[r].did].status # "None"
      BY <2>1, DidsStand DEF Login, Claims, Registered
    <2>3. \A s \in sessions' : s.held /\ Registered(s.did)'
      BY <1>1, <1>10, <2>2 DEF signSession, Registered
    <2> QED
      BY <1>2, <1>5, <2>1, <2>3 DEF Held
  <1>11. ASSUME NEW r \in Requests, loginFails(r) PROVE Held'
    BY <1>4, <1>5, <1>11 DEF loginFails
  <1>12. ASSUME NEW r \in Requests, readActive(r), leave(r) PROVE Held'
    BY <1>4, <1>5, <1>12 DEF readActive
  <1>13. LoginRequest => Held'
    BY <1>3, <1>6, <1>7, <1>8, <1>9, <1>10, <1>11, <1>12
       DEF LoginRequest, SessionStep, LoginStep, challenge, nonceExpires, sessionExpires, readActive
  <1>14. ASSUME NEW r \in Requests, OffChain(r) PROVE UNCHANGED sessionVars
    BY <1>14, OffChainTyped
  <1>15. ASSUME NEW c \in Checks, CheckStep(c) PROVE UNCHANGED sessionVars
    BY <1>15, CheckKinds DEF checkUnchanged
  <1> QED
    BY <1>3, <1>13, <1>14, <1>15, StepKinds DEF OnChain, beginRequest, gatewayVars, sessionVars

LEMMA AlwaysHeld == GatewaySpec => []Held
  <1>1. GatewayInit => Held
    BY DEF GatewayInit, SessionInit, Held, Claims, NoLogin
  <1> QED
    BY <1>1, HeldStep, AlwaysSound, PTL DEF GatewaySpec

\* Every session was opened for a DID that was active, and controlled by the
\* session's address, when the login read it (auth.ts assertActiveDid): what
\* rotations and revocations do between its two reads makes no difference.
THEOREM SessionsHeldTheirDid == GatewaySpec => []SessionHeldDid
  <1>1. Held => SessionHeldDid
    BY DEF Held, SessionHeldDid
  <1> QED
    BY <1>1, AlwaysHeld, PTL

-----------------------------------------------------------------------------
\* Whoever acts has a registered DID.  A credential whose issuer was not active
\* then, or at the verification's first read, has a revoked issuer for good;
\* the key that the second read finds is then the issuer's for good, and the
\* third read refuses it.
Issuable(record, row) ==
  /\ record.status # "None"
  /\ row.wasActive = TRUE \/ record.status = "Revoked"
Judged(v, record) ==
  /\ v.good = TRUE \/ record.status = "Revoked"
  /\ v.at = "isActive" => v.good = TRUE \/ v.controller = record.controller
  /\ v.at = "answered" => v.good = TRUE \/ v.active = FALSE

Acting  == \A r \in Requests : req[r].at # "idle" => Registered(req[r].did)
Rows    == \A c \in Creds : creds[c] # NoRow => Issuable(dids[creds[c].issuer], creds[c])
Judging == \A c \in Checks : check[c].at # "idle" =>
             Judged(check[c], dids[creds[check[c].cred].issuer])

LEMMA ActingStep == Sound /\ Held /\ Acting /\ [GatewayNext]_gatewayVars => Acting'
  <1> SUFFICES ASSUME Sound, Held, Acting, [GatewayNext]_gatewayVars PROVE Acting'
    OBVIOUS
  <1>0. req \in [Requests -> {Idle} \cup Request]
    BY DEF Sound, GatewayTypeOK
  <1>1. ASSUME NEW r \in Requests, req[r].at # "idle" PROVE dids'[req[r].did].status # "None"
    <2>1. req[r].did \in Dids /\ Registered(req[r].did)
      BY <1>1, ActiveRequest DEF Acting, Request
    <2> QED
      BY <2>1, DidsStand DEF Registered
  <1>2. CASE UNCHANGED req
    BY <1>1, <1>2 DEF Acting, Registered
  <1>3. CASE OnChain
    <2>1. ASSUME NEW r \in Requests, req'[r].at # "idle" PROVE dids'[req'[r].did].status # "None"
      <3>1. req'[r] # Idle
        BY <2>1 DEF Idle
      <3>2. req[r] \in Request /\ req'[r].did = req[r].did
        BY <1>3, <3>1, TransactionFields DEF OnChain
      <3>3. req[r].at # "idle"
        BY <3>2 DEF Request
      <3> QED
        BY <1>1, <3>2, <3>3
    <2> QED
      BY <2>1 DEF Acting, Registered
  <1>4. ASSUME NEW r \in Requests, NEW x, req' = [req EXCEPT ![r] = x],
               x.at = "idle" \/ (req[r].at # "idle" /\ x.did = req[r].did)
                 \/ dids'[x.did].status # "None"
        PROVE  Acting'
    <2>1. req'[r] = x /\ \A s \in Requests : s # r => req'[s] = req[s]
      BY <1>0, <1>4
    <2> QED
      BY <1>1, <1>4, <2>1 DEF Acting, Registered
  <1>5. ASSUME NEW r \in Requests, NEW s \in sessions, NEW k \in Kinds, beginRequest(r, s, k)
        PROVE  Acting'
    <2>1. PICK x \in Request : req' = [req EXCEPT ![r] = x] /\ x.did = s.did
      BY <1>5, BeginsAs
    <2>2. dids[s.did].status # "None" /\ dids' = dids
      BY <1>5 DEF Held, Registered, beginRequest, vars, didVars
    <2> QED
      BY <1>4, <2>1, <2>2
  <1>6. ASSUME NEW r \in Requests, answer(r) PROVE Acting'
    BY <1>4, <1>6 DEF answer, Idle
  <1>7. ASSUME NEW r \in Requests, NEW step, at(r, step), req[r].at # "idle" PROVE Acting'
    <2> DEFINE x == [req[r] EXCEPT !.at = step]
    <2>1. req' = [req EXCEPT ![r] = x]
      BY <1>7 DEF at
    <2>2. x.did = req[r].did
      BY <1>7, ActiveRequest DEF Request
    <2> HIDE DEF x
    <2> QED
      BY <1>4, <1>7, <2>1, <2>2
  <1>8. ASSUME NEW r \in Requests, readRole(r) PROVE Acting'
    <2>1. PICK x \in Request : req' = [req EXCEPT ![r] = x] /\ x.did = req[r].did
      BY <1>8, ReadRoleTo
    <2> QED
      BY <1>4, <1>8, <2>1 DEF readRole
  <1>9. ASSUME NEW r \in Requests, NEW h \in Hashes, putBin(r, h) PROVE Acting'
    <2>1. PICK x \in Request : req' = [req EXCEPT ![r] = x] /\ x.did = req[r].did
      BY <1>9, PutBinTo
    <2> QED
      BY <1>4, <1>9, <2>1 DEF putBin, acting
  <1>10. ASSUME NEW r \in Requests, OffChain(r) PROVE Acting'
    BY <1>6, <1>7, <1>8, <1>9, <1>10
       DEF OffChain, requestFails, turnedAway, putJson, createDocument, mintSent, issue, withdraw
  <1>11. ASSUME NEW c \in Checks, CheckStep(c) PROVE UNCHANGED req
    BY <1>11, CheckKinds DEF checkUnchanged
  <1> QED
    BY <1>2, <1>3, <1>5, <1>10, <1>11, StepKinds DEF LoginRequest, gatewayVars

LEMMA RowsStep == Sound /\ Acting /\ Rows /\ [GatewayNext]_gatewayVars => Rows'
  <1> SUFFICES ASSUME Sound, Acting, Rows, [GatewayNext]_gatewayVars,
                      NEW c \in Creds, creds'[c] # NoRow
               PROVE  Issuable(dids'[creds'[c].issuer], creds'[c])
    BY DEF Rows
  <1>1. CASE creds[c] # NoRow
    <2>1. creds[c].issuer \in Dids /\ Issuable(dids[creds[c].issuer], creds[c])
      BY <1>1, RowFields DEF Rows
    <2>2. creds'[c].issuer = creds[c].issuer /\ creds'[c].wasActive = creds[c].wasActive
      BY <1>1, RowsStand DEF RowKept
    <2> QED
      BY <2>1, <2>2, DidsStand DEF Issuable, Registered, Revoked
  <1>2. ASSUME creds[c] = NoRow, NEW r \in Requests, NEW e \in Creds, issue(r, e)
        PROVE  Issuable(dids'[creds'[c].issuer], creds'[c])
    <2> DEFINE d == req[r].did
    <2>1. d \in Dids /\ dids[d].status # "None"
      BY <1>2, ActiveRequest DEF issue, acting, Acting, Request, Registered
    <2>2. creds = [k \in Creds |-> creds[k]]
      BY GatewayTypes DEF Sound, CredsTyped
    <2>3. PICK b \in BOOLEAN : b = (dids[d].status = "Active")
      OBVIOUS
    <2>4. creds' = [creds EXCEPT ![e] = [issuer |-> d, revoked |-> FALSE, wasActive |-> b]]
      BY <1>2, <2>3 DEF issue
    <2>5. e = c
      BY <1>2, <2>2, <2>4
    <2>6. creds'[c].issuer = d /\ creds'[c].wasActive = b
      BY <2>2, <2>4, <2>5
    <2>7. dids[d].status \in Status /\ dids' = dids
      BY <1>2, <2>1 DEF Sound, Contracts, Typed, DidTypeOK, issue, vars, didVars
    <2> QED
      BY <2>1, <2>3, <2>6, <2>7 DEF Issuable, Status
  <1>3. ASSUME creds[c] = NoRow, NEW r \in Requests, NEW e \in Creds, withdraw(r, e) PROVE FALSE
    <2>1. e # c /\ creds'[c] = creds[c]
      BY <1>3, GatewayTypes DEF withdraw, Sound, CredsTyped
    <2> QED
      BY <1>3, <2>1
  <1>4. ASSUME creds[c] = NoRow, NEW r \in Requests, OffChain(r)
        PROVE  Issuable(dids'[creds'[c].issuer], creds'[c])
    BY <1>2, <1>3, <1>4
       DEF OffChain, readRole, requestFails, turnedAway, putBin, putJson, createDocument, mintSent
  <1>5. ASSUME NEW e \in Checks, CheckStep(e) PROVE UNCHANGED creds
    BY <1>5, CheckKinds DEF checkUnchanged
  <1> QED
    BY <1>1, <1>4, <1>5, StepKinds DEF OnChain, LoginRequest, beginRequest, gatewayVars


LEMMA JudgingStep == Sound /\ Rows /\ Judging /\ [GatewayNext]_gatewayVars => Judging'
  <1> SUFFICES ASSUME Sound, Rows, Judging, [GatewayNext]_gatewayVars,
                      NEW c \in Checks, check'[c].at # "idle"
               PROVE  Judged(check'[c], dids'[creds'[check'[c].cred].issuer])
    BY DEF Judging
  <1>0. check \in [Checks -> {Idle} \cup Check] /\ Contracts
    BY DEF Sound, GatewayTypeOK
  <1>1. CASE check'[c] = check[c]
    <2> DEFINE v == check[c]
               d == creds[check[c].cred].issuer
    <2>1. v \in Check /\ creds[v.cred] # NoRow /\ Judged(v, dids[d])
      BY <1>0, <1>1 DEF Sound, Read, Judging, Idle
    <2>2. v.cred \in Creds /\ d \in Dids
      BY <2>1, RowFields DEF Check
    <2>3. creds'[v.cred].issuer = d
      BY <2>1, <2>2, RowsStand DEF RowKept
    <2>4. Judged(v, dids'[d])
      BY <2>1, <2>2, DidsStand DEF Judged, Revoked
    <2> QED
      BY <1>1, <2>3, <2>4
  <1>2. ASSUME checkUnchanged, NEW x \in Check, CheckTo(c, x)
        PROVE  Judged(check'[c], dids'[creds'[check'[c].cred].issuer])
    <2> DEFINE v == check[c]
               d == creds[x.cred].issuer
    <2>1. check'[c] = x /\ dids' = dids /\ creds' = creds
      BY <1>0, <1>2 DEF CheckTo, checkUnchanged, vars, didVars
    <2>2. x.cred \in Creds /\ creds[x.cred] # NoRow /\ d \in Dids /\ Issuable(dids[d], creds[x.cred])
      BY <1>2, RowFields DEF Check, CheckTo, Rows
    <2>3. dids[d].status \in Status
      BY <1>0, <2>2 DEF Contracts, Typed, DidTypeOK
    <2>4. x.good \in BOOLEAN /\ x.active \in BOOLEAN
      BY DEF Check
    <2>5. CASE x.at = "controllerOf"
      <3>1. x.good = (creds[x.cred].wasActive /\ dids[d].status = "Active")
        BY <1>2, <2>5 DEF CheckTo
      <3>2. x.good = TRUE \/ dids[d].status = "Revoked"
        BY <2>2, <2>3, <2>4, <3>1 DEF Issuable, Status
      <3> QED
        BY <2>1, <2>5, <3>2 DEF Judged
    <2>6. CASE x.at = "isActive"
      <3>1. /\ v.at = "controllerOf" /\ x.cred = v.cred /\ x.good = v.good
            /\ x.controller = dids[d].controller
        BY <1>2, <2>6 DEF CheckTo
      <3>2. Judged(v, dids[d])
        BY <3>1 DEF Judging
      <3> QED
        BY <2>1, <2>6, <3>1, <3>2 DEF Judged
    <2>7. CASE x.at = "answered"
      <3>1. /\ v.at = "isActive" /\ x.cred = v.cred /\ x.good = v.good
            /\ x.controller = v.controller /\ x.active = isActiveController(v.controller)
        BY <1>2, <2>7 DEF CheckTo
      <3>2. Judged(v, dids[d])
        BY <3>1 DEF Judging
      <3>3. ASSUME x.good # TRUE PROVE ~isActiveController(v.controller)
        <4>1. dids[d].status = "Revoked" /\ v.controller = dids[d].controller
          BY <3>1, <3>2, <3>3 DEF Judged
        <4>2. didByController[v.controller] = d
          BY <1>0, <2>2, <4>1 DEF Contracts, ControlIsMutual
        <4> QED
          BY <4>1, <4>2 DEF isActiveController
      <3>4. x.good = TRUE \/ x.active = FALSE
        BY <2>4, <3>1, <3>3
      <3>5. x.good = TRUE \/ dids[d].status = "Revoked"
        BY <3>1, <3>2 DEF Judged
      <3> QED
        BY <2>1, <2>7, <3>4, <3>5 DEF Judged
    <2> QED
      BY <2>5, <2>6, <2>7 DEF Check
  <1>3. ASSUME NEW e \in Checks, CheckStep(e)
        PROVE  Judged(check'[c], dids'[creds'[check'[c].cred].issuer])
    <2>1. checkUnchanged
      BY <1>3, CheckKinds
    <2>2. CASE e # c
      <3>1. check'[c] = check[c]
        BY <1>0, <1>3, <2>2, CheckKinds DEF CheckTo
      <3> QED
        BY <1>1, <3>1
    <2>3. CASE check' = [check EXCEPT ![c] = Idle]
      BY <1>0, <2>3 DEF Idle
    <2>4. ASSUME e = c, NEW x \in Check, CheckTo(c, x)
          PROVE  Judged(check'[c], dids'[creds'[check'[c].cred].issuer])
      BY <1>2, <2>1, <2>4
    <2> QED
      BY <1>3, <2>2, <2>3, <2>4, CheckKinds
  <1>4. ASSUME NEW r \in Requests, OffChain(r) PROVE UNCHANGED check
    BY <1>4, OffChainTyped
  <1> QED
    BY <1>1, <1>3, <1>4, StepKinds DEF OnChain, LoginRequest, beginRequest, gatewayVars

\* If a verification reports an unrevoked credential of an active issuer, then
\* the row was unrevoked and the issuer active when the row was read, and when
\* the credential was issued, whatever happened between the three reads
\* (routes/credentials.ts).
THEOREM VerifiedCredentialsWereGood == GatewaySpec => []VerifiedWhileGood
  <1>1. GatewayInit => Acting /\ Rows /\ Judging
    BY DEF GatewayInit, Acting, Rows, Judging, Idle
  <1>2. Sound /\ Judging => VerifiedWhileGood
    <2> SUFFICES ASSUME Sound, Judging, NEW c \in Checks, check[c] # Idle,
                        check[c].at = "answered", check[c].active
                 PROVE  check[c].good
      BY DEF VerifiedWhileGood
    <2>1. check[c] \in Check
      BY DEF Sound, GatewayTypeOK
    <2> QED
      BY <2>1 DEF Judging, Judged, Check
  <1>3. GatewaySpec => []Acting
    BY <1>1, ActingStep, AlwaysSound, AlwaysHeld, PTL DEF GatewaySpec
  <1>4. GatewaySpec => []Rows
    BY <1>1, <1>3, RowsStep, AlwaysSound, PTL DEF GatewaySpec
  <1>5. GatewaySpec => []Judging
    BY <1>1, <1>4, JudgingStep, AlwaysSound, PTL DEF GatewaySpec
  <1> QED
    BY <1>2, <1>5, AlwaysSound, PTL

-----------------------------------------------------------------------------
\* What a request in flight has to show for its verdict, held being what its
\* address holds now: what was held all along is held now, and what is held now
\* has been held; the roles asked for before the present one were not held all
\* along; and whoever acts was admitted by an allowed role, so that whoever is
\* turned away by the contract, which asks for the same ones, has lost it.
AllAlong(f, held) == f.always \subseteq held /\ held \subseteq f.ever
Passed(f)   == \A i \in 1..4 : i < f.turn => order[i] \notin f.always
Admitted(f) == f.at \in {"act", "bin", "json", "row", "tx"} /\ allowed(f.kind) # {} =>
                 f.role \in allowed(f.kind) \cap f.ever
Refused(f)  == f.at = "refused" =>
                 \/ \A i \in 1..4 : order[i] \notin f.always
                 \/ f.role = order[f.turn] /\ f.role \in f.ever \ allowed(f.kind)
Reverted(f) == f.at = "reverted" => f.role \notin f.always

Weighed(f, held) == AllAlong(f, held) /\ Passed(f) /\ Admitted(f) /\ Refused(f) /\ Reverted(f)
Weighing == \A r \in Requests : req[r].at # "idle" => Weighed(req[r], rolesHeld[req[r].address])

LEMMA OrderCovers ==
  /\ \A i \in 1..4 : order[i] \in OperationalRoles
  /\ \A role \in OperationalRoles : \E i \in 1..4 : role = order[i]
  BY DEF order, OperationalRoles

LEMMA BeginWeighed ==
  ASSUME Sound, NEW r \in Requests, NEW s \in sessions, NEW k \in Kinds, beginRequest(r, s, k)
  PROVE  \E x \in Request : req' = [req EXCEPT ![r] = x] /\ Weighed(x, rolesHeld[x.address])
  <1>1. PICK x \in Request :
          /\ req' = [req EXCEPT ![r] = x]
          /\ x.at = (IF allowed(k) = {} THEN "act" ELSE "role") /\ x.kind = k
          /\ x.did = s.did /\ x.address = s.address /\ x.turn = 1 /\ x.role = None
          /\ x.ever = rolesHeld[s.address] /\ x.always = rolesHeld[s.address]
    BY BeginsAs
  <1>2. Passed(x) /\ AllAlong(x, rolesHeld[x.address])
    BY <1>1 DEF Passed, AllAlong
  <1>3. Admitted(x) /\ Refused(x) /\ Reverted(x)
    BY <1>1 DEF Admitted, Refused, Reverted
  <1> QED
    BY <1>1, <1>2, <1>3 DEF Weighed

LEMMA ReadWeighed ==
  ASSUME Sound, Weighing, NEW r \in Requests, readRole(r)
  PROVE  \E x \in Request : req' = [req EXCEPT ![r] = x] /\ Weighed(x, rolesHeld[x.address])
  <1> DEFINE f == req[r]
             role == order[f.turn]
             held == rolesHeld[f.address]
  <1>1. PICK x \in Request :
              /\ req' = [req EXCEPT ![r] = x]
              /\ x.kind = f.kind /\ x.did = f.did /\ x.address = f.address /\ x.hash = f.hash
              /\ x.ever = f.ever /\ x.always = f.always
              /\ \/ /\ role \in held /\ x.role = role /\ x.turn = f.turn
                    /\ x.at = (IF role \in allowed(f.kind) THEN "act" ELSE "refused")
                 \/ /\ role \notin held /\ x.role = f.role
                    /\ \/ f.turn = 4 /\ x.turn = 4 /\ x.at = "refused"
                       \/ f.turn # 4 /\ x.turn = f.turn + 1 /\ x.at = "role"
    BY ReadRoleTo
  <1>2. f \in Request /\ f.at = "role" /\ Weighed(f, held)
    BY ReadRoleTo DEF readRole, Weighing
  <1>3. AllAlong(x, rolesHeld[x.address])
    BY <1>1, <1>2 DEF Weighed, AllAlong
  <1>4. f.turn \in 1..4 /\ (\A i \in 1..4 : i < f.turn => order[i] \notin f.always)
        /\ (role \notin held => role \notin f.always)
    BY <1>2 DEF Weighed, Passed, AllAlong, Request
  <1>5. Passed(x)
    BY <1>1, <1>4 DEF Passed
  <1>6. Admitted(x) /\ Reverted(x)
    BY <1>1, <1>2 DEF Admitted, Reverted, Weighed, AllAlong
  <1>7. Refused(x)
    <2>1. CASE role \in held
      BY <1>1, <1>2, <2>1 DEF Refused, Weighed, AllAlong
    <2>2. CASE role \notin held /\ f.turn = 4
      <3>1. \A i \in 1..4 : i < 4 \/ i = 4
        OBVIOUS
      <3> QED
        BY <1>1, <1>4, <2>2, <3>1 DEF Refused
    <2>3. CASE role \notin held /\ f.turn # 4
      BY <1>1, <2>3 DEF Refused
    <2> QED
      BY <2>1, <2>2, <2>3
  <1> QED
    BY <1>1, <1>3, <1>5, <1>6, <1>7 DEF Weighed

\* A transaction by anyone, at any moment of a request, leaves its standing.
LEMMA WitnessWeighed ==
  ASSUME Sound, Weighing, NEW done \in SUBSET Requests, transaction(done),
         NEW r \in Requests, req'[r].at # "idle"
  PROVE  Weighed(req'[r], rolesHeld'[req'[r].address])
  <1> DEFINE f == req[r]
             g == req'[r]
             held == rolesHeld'[f.address]
  <1>1. /\ f \in Request /\ g \in Request
        /\ g.at = f.at /\ g.kind = f.kind /\ g.did = f.did /\ g.address = f.address
        /\ g.turn = f.turn /\ g.hash = f.hash /\ g.role = f.role
        /\ g.ever = f.ever \cup held /\ g.always = f.always \cap held
    <2>1. req'[r] # Idle
      BY DEF Idle
    <2> QED
      BY <2>1, TransactionFields
  <1>2. Weighed(f, rolesHeld[f.address])
    BY <1>1 DEF Weighing, Request
  <1> HIDE DEF f, g, held
  <1>3. AllAlong(g, held) /\ Passed(g)
    BY <1>1, <1>2 DEF Weighed, AllAlong, Passed
  <1>4. Admitted(g) /\ Reverted(g)
    BY <1>1, <1>2 DEF Weighed, Admitted, Reverted
  <1>5. Refused(g)
    BY <1>1, <1>2 DEF Weighed, Refused
  <1> QED
    BY <1>1, <1>3, <1>4, <1>5 DEF Weighed, f, g, held

\* The contract asks for the roles that the gateway asked for.
LEMMA TurnedAwayWeighed ==
  ASSUME Sound, Weighing, NEW r \in Requests, turnedAway(r)
  PROVE  \E x \in Request : req' = [req EXCEPT ![r] = x] /\ Weighed(x, rolesHeld[x.address])
  <1> DEFINE f == req[r]
             held == rolesHeld[f.address]
             x == [f EXCEPT !.at = "reverted"]
  <1>1. f \in Request /\ Weighed(f, held) /\ f.at \in {"act", "tx"}
        /\ allowed(f.kind) # {} /\ held \cap allowed(f.kind) = {}
    BY ActiveRequest DEF turnedAway, Weighing
  <1>2. req' = [req EXCEPT ![r] = x]
    BY DEF turnedAway, at
  <1>3. /\ x \in Request /\ x.at = "reverted" /\ x.kind = f.kind /\ x.address = f.address
        /\ x.turn = f.turn /\ x.role = f.role /\ x.ever = f.ever /\ x.always = f.always
    BY <1>1 DEF Request
  <1> HIDE DEF x
  <1>4. f.role \notin f.always
    BY <1>1 DEF Weighed, Admitted, AllAlong
  <1>5. Weighed(x, held)
    BY <1>1, <1>3, <1>4 DEF Weighed, AllAlong, Passed, Admitted, Refused, Reverted
  <1> QED
    BY <1>2, <1>3, <1>5

\* A mint on its way keeps the standing by which it was admitted.
LEMMA MintWeighed ==
  ASSUME Sound, Weighing, NEW r \in Requests,
         putJson(r) \/ createDocument(r) \/ \E h \in Hashes : putBin(r, h)
  PROVE  \E x \in Request : req' = [req EXCEPT ![r] = x] /\ Weighed(x, rolesHeld[x.address])
  <1> DEFINE f == req[r]
             held == rolesHeld[f.address]
  <1>1. PICK x \in Request :
          /\ req' = [req EXCEPT ![r] = x] /\ f \in Request
          /\ f.at \in {"act", "json", "row"} /\ x.at \in {"json", "row", "tx"}
          /\ x.kind = f.kind /\ x.address = f.address /\ x.turn = f.turn
          /\ x.role = f.role /\ x.ever = f.ever /\ x.always = f.always
    <2>1. ASSUME NEW h \in Hashes, putBin(r, h)
          PROVE  \E x \in Request :
                   /\ req' = [req EXCEPT ![r] = x] /\ f \in Request
                   /\ f.at \in {"act", "json", "row"} /\ x.at \in {"json", "row", "tx"}
                   /\ x.kind = f.kind /\ x.address = f.address /\ x.turn = f.turn
                   /\ x.role = f.role /\ x.ever = f.ever /\ x.always = f.always
      <3>1. PICK x \in Request :
              /\ req' = [req EXCEPT ![r] = x]
              /\ x.kind = f.kind /\ x.did = f.did /\ x.address = f.address /\ x.turn = f.turn
              /\ x.role = f.role /\ x.ever = f.ever /\ x.always = f.always
              /\ x.hash = h /\ x.at = "json" /\ x.kind = "mint"
        BY <2>1, PutBinTo
      <3>2. f \in Request /\ f.at = "act"
        BY <2>1, PutBinTo DEF putBin, acting
      <3> QED
        BY <3>1, <3>2
    <2>2. ASSUME NEW step \in {"row", "tx"}, f.at \in {"json", "row"}, at(r, step)
          PROVE  \E x \in Request :
                   /\ req' = [req EXCEPT ![r] = x] /\ f \in Request
                   /\ f.at \in {"act", "json", "row"} /\ x.at \in {"json", "row", "tx"}
                   /\ x.kind = f.kind /\ x.address = f.address /\ x.turn = f.turn
                   /\ x.role = f.role /\ x.ever = f.ever /\ x.always = f.always
      <3> DEFINE x == [f EXCEPT !.at = step]
      <3>1. f \in Request
        BY <2>2, ActiveRequest
      <3>2. /\ x \in Request /\ x.at = step /\ x.kind = f.kind /\ x.address = f.address
            /\ x.turn = f.turn /\ x.role = f.role /\ x.ever = f.ever /\ x.always = f.always
        BY <2>2, <3>1 DEF Request
      <3>3. req' = [req EXCEPT ![r] = x]
        BY <2>2 DEF at
      <3> HIDE DEF x
      <3> QED
        BY <2>2, <3>1, <3>2, <3>3
    <2> QED
      BY <2>1, <2>2 DEF putJson, createDocument
  <1>2. Weighed(f, held)
    BY <1>1 DEF Weighing
  <1>3. Weighed(x, held)
    BY <1>1, <1>2 DEF Weighed, AllAlong, Passed, Admitted, Refused, Reverted
  <1> QED
    BY <1>1, <1>3

LEMMA WeighingStep == Sound /\ Weighing /\ [GatewayNext]_gatewayVars => Weighing'
  <1> SUFFICES ASSUME Sound, Weighing, [GatewayNext]_gatewayVars PROVE Weighing'
    OBVIOUS
  <1>0. req \in [Requests -> {Idle} \cup Request]
    BY DEF Sound, GatewayTypeOK
  <1>1. CASE OnChain
    <2>1. \A r \in Requests : req'[r].at # "idle" => Weighed(req'[r], rolesHeld'[req'[r].address])
      BY <1>1, WitnessWeighed DEF OnChain
    <2> QED
      BY <2>1 DEF Weighing
  <1>2. UNCHANGED vars => rolesHeld' = rolesHeld
    BY DEF vars, roleVars, rolesHeld, hasRole, active
  <1>3. CASE UNCHANGED <<vars, req>>
    <2>1. \A r \in Requests : req'[r].at # "idle" => Weighed(req'[r], rolesHeld'[req'[r].address])
      BY <1>2, <1>3 DEF Weighing
    <2> QED
      BY <2>1 DEF Weighing
  <1>4. ASSUME NEW r \in Requests, UNCHANGED vars,
               NEW x, req' = [req EXCEPT ![r] = x],
               x.at = "idle" \/ Weighed(x, rolesHeld[x.address])
        PROVE  Weighing'
    <2>1. req'[r] = x /\ \A s \in Requests : s # r => req'[s] = req[s]
      BY <1>0, <1>4
    <2>2. \A s \in Requests : req'[s].at # "idle" => Weighed(req'[s], rolesHeld'[req'[s].address])
      BY <1>2, <1>4, <2>1 DEF Weighing
    <2> QED
      BY <2>2 DEF Weighing
  <1>5. ASSUME NEW r \in Requests, NEW s \in sessions, NEW k \in Kinds, beginRequest(r, s, k)
        PROVE  Weighing'
    <2>1. PICK x \in Request : req' = [req EXCEPT ![r] = x] /\ Weighed(x, rolesHeld[x.address])
      BY <1>5, BeginWeighed
    <2>2. UNCHANGED vars
      BY <1>5 DEF beginRequest
    <2> QED
      BY <1>4, <2>1, <2>2
  <1>6. ASSUME NEW r \in Requests, OffChain(r) PROVE Weighing'
    <2>1. UNCHANGED vars
      BY <1>6, OffChainTyped
    <2>2. CASE readRole(r)
      BY <1>4, <2>1, <2>2, ReadWeighed
    <2>3. CASE turnedAway(r)
      BY <1>4, <2>1, <2>3, TurnedAwayWeighed
    <2>4. CASE putJson(r) \/ createDocument(r) \/ \E h \in Hashes : putBin(r, h)
      <3>1. PICK x \in Request : req' = [req EXCEPT ![r] = x] /\ Weighed(x, rolesHeld[x.address])
        BY <2>4, MintWeighed
      <3> QED
        BY <1>4, <2>1, <3>1
    <2>5. CASE answer(r)
      BY <1>4, <2>1, <2>5 DEF answer, Idle
    <2> QED
      BY <1>6, <2>2, <2>3, <2>4, <2>5 DEF OffChain, requestFails, mintSent, issue, withdraw
  <1>7. ASSUME NEW c \in Checks, CheckStep(c) PROVE UNCHANGED <<vars, req>>
    BY <1>7, CheckKinds DEF checkUnchanged
  <1> QED
    BY <1>1, <1>3, <1>5, <1>6, <1>7, StepKinds DEF LoginRequest, gatewayVars

LEMMA AlwaysWeighing == GatewaySpec => []Weighing
  <1>1. GatewayInit => Weighing
    BY DEF GatewayInit, Weighing, Idle
  <1> QED
    BY <1>1, WeighingStep, AlwaysSound, PTL DEF GatewaySpec

\* However roles come and go between the reads of onChainRole, who is admitted
\* held an allowed role at some moment of the request, and who is refused lacked
\* each at some moment or was known by an earlier role (backend/src/auth.ts, chain.ts).
THEOREM VerdictsAreJustified == GatewaySpec => []VerdictJustified
  <1>1. Sound /\ Weighing => VerdictJustified
    <2> SUFFICES ASSUME Sound, Weighing, NEW r \in Requests, req[r] # Idle
                 PROVE  LET f == req[r] IN
                        /\ f.at = "act" /\ allowed(f.kind) # {} => f.ever \cap allowed(f.kind) # {}
                        /\ f.at = "refused" =>
                             \/ f.always \cap allowed(f.kind) = {}
                             \/ \E i, j \in 1..4 :
                                  /\ i < j /\ order[j] \in f.always \cap allowed(f.kind)
                                  /\ order[i] \in f.ever \ allowed(f.kind)
      BY DEF VerdictJustified
    <2> DEFINE f == req[r]
    <2>1. f \in Request
      BY DEF Sound, GatewayTypeOK
    <2>2. Weighed(f, rolesHeld[f.address])
      BY <2>1 DEF Weighing, Request
    <2> HIDE DEF f
    <2>3. f.at = "act" /\ allowed(f.kind) # {} => f.ever \cap allowed(f.kind) # {}
      BY <2>2 DEF Weighed, Admitted
    <2>4. ASSUME f.at = "refused", f.always \cap allowed(f.kind) # {}
          PROVE  \E i, j \in 1..4 :
                   /\ i < j /\ order[j] \in f.always \cap allowed(f.kind)
                   /\ order[i] \in f.ever \ allowed(f.kind)
      <3>1. PICK role \in OperationalRoles : role \in f.always \cap allowed(f.kind)
        BY <2>1, <2>4 DEF Request
      <3>2. PICK j \in 1..4 : order[j] = role
        BY OrderCovers
      <3>3. f.turn \in 1..4 /\ order[f.turn] \in f.ever \ allowed(f.kind)
        BY <2>1, <2>2, <2>4, <3>1, <3>2 DEF Weighed, Refused, Request
      <3>4. ~(j < f.turn) /\ j # f.turn
        BY <2>2, <3>1, <3>2, <3>3 DEF Weighed, Passed
      <3>5. f.turn < j
        BY <3>3, <3>4
      <3> QED
        BY <3>1, <3>2, <3>3, <3>5
    <2> QED
      BY <2>3, <2>4 DEF f
  <1> QED
    BY <1>1, AlwaysWeighing, AlwaysSound, PTL

\* A transaction that the gateway let through and the contract turned away has
\* lost, since the request began, the role it was admitted by.
THEOREM GatesStayAligned == GatewaySpec => []GatesAgree
  <1>1. Weighing => GatesAgree
    BY DEF Weighing, Weighed, Reverted, GatesAgree
  <1> QED
    BY <1>1, AlwaysWeighing, PTL
=============================================================================
