------------------------------ MODULE Gateway ------------------------------
(***************************************************************************)
(* The policy enforcement point, backend/src: a request is admitted by its  *)
(* session and the on-chain role of the session's address, and then sends a *)
(* transaction from that address, writes a row, or stores a document.  The  *)
(* role is read in up to four calls, and again by the contract when the     *)
(* transaction runs; roles change in between.                               *)
(***************************************************************************)
EXTENDS Sessions, FiniteSets

CONSTANTS
  Wallets,    \* the addresses the backend holds a key for
  Hashes,     \* hashes of metadata documents, each with its own storedAt
  Creds,      \* credential ids
  Workloads,  \* what the clients and the chain do in one behaviour
  Checks      \* names of the credential verifications in flight

ASSUME WalletAssumption == Wallets \subseteq Accounts

VARIABLES
  req,        \* the guarded requests in flight
  check,      \* the POST /credentials/verify handlers in flight
  binFile, jsonFile, document,  \* hashes in the object store and in StoredDocument
  minted,     \* the metadata hashes on chain
  creds,      \* the Credential rows
  workload,   \* bound: the member of Workloads of this behaviour
  calls       \* bound: how many transactions have changed roles and DIDs

storeVars == <<binFile, jsonFile, document, minted>>
boundVars == <<workload, calls>>
gatewayVars == <<vars, sessionVars, req, check, storeVars, creds, boundVars>>

-----------------------------------------------------------------------------
\* requireRoles per route; the request kinds are named after the routes.
\* (Mutation: managers may mint.)
openMint      == {ADMIN, MANAGER}
mintRoute     == {ADMIN}
assetsRouter  == [k \in {"allocate", "transfer", "custody"} |-> {ADMIN, MANAGER}]
attestRoute   == {ADMIN, MANAGER, USER}
divergenceRouter == [propose |-> {ADMIN, MANAGER}, confirm |-> {ADMIN}]
adminKinds    == {"grant", "revokeRole", "revokeDid", "issue", "withdraw"}
auditRouter   == [events |-> {ADMIN, AUDITOR, MANAGER}, pointInTime |-> {ADMIN, AUDITOR}]

Kinds == {"mint", "attest", "register", "rotate"} \cup adminKinds \cup
  DOMAIN assetsRouter \cup DOMAIN divergenceRouter \cup DOMAIN auditRouter

allowed(k) ==
  CASE k = "mint" -> mintRoute
    [] k = "attest" -> attestRoute
    [] k \in adminKinds -> {ADMIN}
    [] k \in DOMAIN assetsRouter -> assetsRouter[k]
    [] k \in DOMAIN divergenceRouter -> divergenceRouter[k]
    [] k \in DOMAIN auditRouter -> auditRouter[k]
    [] OTHER -> {}   \* register and rotate ask for a session only

\* The roles that let a transaction of this kind through in the contracts.
contractRoles(k) ==
  CASE k \in {"mint", "confirm"} -> {ADMIN}
    [] k \in {"allocate", "transfer", "custody", "propose"} -> {ADMIN, MANAGER}
    [] k = "attest" -> {ADMIN, MANAGER, USER}
    [] OTHER -> {}
forwarded == {"allocate", "transfer", "custody", "propose", "confirm", "attest"}

\* onChainRole asks in this order and takes the first role that is held.
order == <<ADMIN, MANAGER, AUDITOR, USER>>

rolesHeld == [a \in Accounts |->
  {role \in OperationalRoles : <<a, role>> \in Grantable /\ hasRole(<<a, role>>)}]

-----------------------------------------------------------------------------
Idle == [at |-> "idle"]
None == "None"
\* ever and always are history: the roles the address has held at some moment,
\* and at every moment, since the request began.
Request == [at : {"role", "act", "bin", "json", "row", "tx", "refused", "reverted"},
            kind : Kinds, did : Dids, address : Accounts, turn : 1..4, hash : Hashes \cup {None},
            role : OperationalRoles \cup {None}, ever : SUBSET OperationalRoles,
            always : SUBSET OperationalRoles]
\* good is history: the row was unrevoked and its issuer active when read.
Check == [at : {"controllerOf", "isActive", "answered"}, cred : Creds, revoked : BOOLEAN,
          controller : Accounts \cup {NoAccount}, active : BOOLEAN, good : BOOLEAN]
NoRow == [issuer |-> NoDid]

GatewayTypeOK ==
  /\ SessionTypeOK
  /\ req \in [Requests -> {Idle} \cup Request]
  /\ check \in [Checks -> {Idle} \cup Check]
  /\ binFile \subseteq Hashes /\ jsonFile \subseteq Hashes
  /\ document \subseteq Hashes /\ minted \subseteq Hashes
  /\ creds \in [Creds -> {NoRow} \cup [issuer : Dids, revoked : BOOLEAN, wasActive : BOOLEAN]]

GatewayInit ==
  /\ SeededInit /\ SessionInit
  /\ req = [r \in Requests |-> Idle]
  /\ check = [c \in Checks |-> Idle]
  /\ binFile = {} /\ jsonFile = {} /\ document = {} /\ minted = {}
  /\ creds = [c \in Creds |-> NoRow]
  /\ workload \in Workloads
  /\ calls = 0

busy == {r \in Requests : req[r] # Idle \/ login[r] # NoLogin}
admits(k) == k \in workload.kinds /\ Cardinality(busy) < workload.inFlight

at(r, step) == req' = [req EXCEPT ![r].at = step]
answer(r)   == req' = [req EXCEPT ![r] = Idle]

\* A transaction settles the requests in done, and adds the roles that are
\* held after it to the histories of the others.
witnessed(f, held) == [f EXCEPT !.ever = @ \cup held, !.always = @ \cap held]
transaction(done) ==
  /\ calls < workload.calls
  /\ calls' = calls + 1
  /\ req' = [r \in Requests |-> IF req[r] = Idle \/ r \in done THEN Idle
                                ELSE witnessed(req[r], rolesHeld'[req[r].address])]

-----------------------------------------------------------------------------
\* requireAuth: a token that verifies.  Routes without a role gate go on.
beginRequest(r, s, k) ==
  /\ req[r] = Idle /\ login[r] = NoLogin
  /\ admits(k)
  /\ req' = [req EXCEPT ![r] =
       [at |-> IF allowed(k) = {} THEN "act" ELSE "role", kind |-> k, did |-> s.did,
        address |-> s.address, turn |-> 1, hash |-> None, role |-> None,
        ever |-> rolesHeld[s.address], always |-> rolesHeld[s.address]]]
  /\ UNCHANGED <<vars, sessionVars, check, storeVars, creds, boundVars>>

\* One of onChainRole's reads, and requireRoles once it has an answer
\* (mutation: None is returned inside the loop).
readOnce(r) ==
  LET f == req[r]  role == order[f.turn] IN
  /\ f.at = "role"
  /\ at(r, IF role \in rolesHeld[f.address] \cap allowed(f.kind) THEN "act" ELSE "refused")
  /\ UNCHANGED <<vars, sessionVars, check, storeVars, creds, boundVars>>

readRole(r) ==
  LET f == req[r]  role == order[f.turn] IN
  /\ f.at = "role"
  /\ req' = [req EXCEPT ![r] =
       IF role \in rolesHeld[f.address]
       THEN [f EXCEPT !.role = role, !.at = IF role \in allowed(f.kind) THEN "act" ELSE "refused"]
       ELSE IF f.turn = 4 THEN [f EXCEPT !.at = "refused"] ELSE [f EXCEPT !.turn = @ + 1]]
  /\ UNCHANGED <<vars, sessionVars, check, storeVars, creds, boundVars>>

\* An error answer ends the request, and so does any awaited call that throws.
requestFails(r) ==
  /\ req[r] # Idle
  /\ answer(r)
  /\ UNCHANGED <<vars, sessionVars, check, storeVars, creds, boundVars>>

signerFor(a) == a \in Wallets

\* The contract's own check of the caller turns the transaction away.
reverts(r, mayRun) ==
  /\ signerFor(req[r].address) /\ ~mayRun
  /\ at(r, "reverted")
  /\ UNCHANGED <<vars, sessionVars, check, storeVars, creds, boundVars>>

acting(r, k) == req[r].at = "act" /\ req[r].kind = k

grant(r, g) ==
  LET a == req[r].address IN
  /\ acting(r, "grant") /\ g[2] \in OperationalRoles
  /\ \/ /\ signerFor(a)
        /\ \/ grantRole(a, g)
           \/ \E until \in 1..(MaxTime + 1) : grantRoleWithExpiry(a, g, until)
        /\ transaction({r})
        /\ UNCHANGED <<didVars, sessionVars, check, storeVars, creds, workload>>
     \/ g[2] # ADMIN /\ reverts(r, checkAdmin(a, g, expiry))

revokeRoleOf(r, g) ==
  LET a == req[r].address IN
  /\ acting(r, "revokeRole") /\ g[2] \in OperationalRoles
  /\ \/ /\ signerFor(a)
        /\ revokeRole(a, g)
        /\ transaction({r})
        /\ UNCHANGED <<didVars, sessionVars, check, storeVars, creds, workload>>
     \/ g[2] # ADMIN /\ reverts(r, checkAdmin(a, g, expiry))

\* identity.ts: the transaction is the session address's own; whether it may
\* make it is left to DIDRegistry.
identity(r, d) ==
  LET a == req[r].address IN
  /\ \/ /\ \/ acting(r, "revokeDid") /\ revoke(a, d)
           \/ acting(r, "register") /\ \E c \in Accounts : register(a, d, c)
           \/ acting(r, "rotate") /\ \E c \in Accounts : rotateKey(a, d, c)
        /\ signerFor(a)
        /\ transaction({r})
        /\ UNCHANGED <<roleVars, sessionVars, check, storeVars, creds, workload>>
     \/ /\ acting(r, "revokeDid") /\ dids[d].status = "Active"
        /\ reverts(r, isAdmin(a) \/ dids[d].controller = a)

\* What the contracts do with these is modelled in AssetTrust.
forward(r) ==
  LET f == req[r] IN
  /\ f.at = "act" /\ f.kind \in forwarded
  /\ reverts(r, rolesHeld[f.address] \cap contractRoles(f.kind) # {})

-----------------------------------------------------------------------------
\* POST /assets/mint: the object store writes the bytes and then the metadata
\* file, the StoredDocument row follows, and the transaction is sent last
\* (mutation: first).
putBin(r, h) ==
  /\ acting(r, "mint") /\ h \notin binFile
  /\ binFile' = binFile \cup {h}
  /\ req' = [req EXCEPT ![r].at = "json", ![r].hash = h]
  /\ UNCHANGED <<vars, sessionVars, check, jsonFile, document, minted, creds, boundVars>>

putJson(r) ==
  /\ req[r].at = "json"
  /\ jsonFile' = jsonFile \cup {req[r].hash}
  /\ at(r, "row")
  /\ UNCHANGED <<vars, sessionVars, check, binFile, document, minted, creds, boundVars>>

skipDocument(r) ==
  /\ req[r].at = "row"
  /\ at(r, "tx")
  /\ UNCHANGED <<vars, sessionVars, check, storeVars, creds, boundVars>>

createDocument(r) ==
  /\ req[r].at = "row"
  /\ document' = document \cup {req[r].hash}
  /\ at(r, "tx")
  /\ UNCHANGED <<vars, sessionVars, check, binFile, jsonFile, minted, creds, boundVars>>

mint(r) ==
  LET may == rolesHeld[req[r].address] \cap contractRoles("mint") # {} IN
  /\ req[r].at = "tx"
  /\ \/ /\ signerFor(req[r].address) /\ may
        /\ minted' = minted \cup {req[r].hash}
        /\ answer(r)
        /\ UNCHANGED <<vars, sessionVars, check, binFile, jsonFile, document, creds, boundVars>>
     \/ reverts(r, may)

-----------------------------------------------------------------------------
\* The issuer is the session's DID, of which nothing is asked again.
issue(r, c) ==
  /\ acting(r, "issue") /\ creds[c] = NoRow
  /\ creds' = [creds EXCEPT ![c] = [issuer |-> req[r].did, revoked |-> FALSE,
                                    wasActive |-> dids[req[r].did].status = "Active"]]
  /\ answer(r)
  /\ UNCHANGED <<vars, sessionVars, check, storeVars, boundVars>>

withdraw(r, c) ==
  /\ acting(r, "withdraw") /\ creds[c] # NoRow
  /\ creds' = [creds EXCEPT ![c].revoked = TRUE]
  /\ answer(r)
  /\ UNCHANGED <<vars, sessionVars, check, storeVars, boundVars>>

checkUnchanged == UNCHANGED <<vars, sessionVars, req, storeVars, creds, boundVars>>

readRow(c, id) ==
  /\ check[c] = Idle /\ "verify" \in workload.kinds
  /\ creds[id] # NoRow
  /\ check' = [check EXCEPT ![c] =
       [at |-> "controllerOf", cred |-> id, revoked |-> creds[id].revoked,
        controller |-> NoAccount, active |-> FALSE,
        good |-> creds[id].wasActive /\ dids[creds[id].issuer].status = "Active"]]
  /\ checkUnchanged

controllerOf(c) ==
  /\ check[c].at = "controllerOf"
  /\ check' = [check EXCEPT ![c].at = "isActive",
                            ![c].controller = dids[creds[check[c].cred].issuer].controller]
  /\ checkUnchanged

\* The second read (mutation: any bound key counts).
readBound(c) ==
  /\ check[c].at = "isActive"
  /\ check' = [check EXCEPT ![c].at = "answered",
                            ![c].active = didByController[check[c].controller] # NoDid]
  /\ checkUnchanged

readIssuer(c) ==
  /\ check[c].at = "isActive"
  /\ check' = [check EXCEPT ![c].at = "answered",
                            ![c].active = isActiveController(check[c].controller)]
  /\ checkUnchanged

endCheck(c) ==
  /\ check[c] # Idle
  /\ check' = [check EXCEPT ![c] = Idle]
  /\ checkUnchanged

-----------------------------------------------------------------------------
\* Transactions that do not come from the backend.
OtherTransaction ==
  /\ calls < workload.calls
  /\ \/ "tick" \in workload.kinds /\ Tick /\ UNCHANGED didVars
     \/ "roles" \in workload.kinds /\ RoleCall /\ UNCHANGED didVars
     \/ "dids" \in workload.kinds /\ DidCall /\ UNCHANGED roleVars
  /\ transaction({})
  /\ UNCHANGED <<sessionVars, check, storeVars, creds, workload>>

LoginRequest ==
  /\ \/ SessionStep
     \/ \E r \in Requests, n \in Nonces, d \in Dids :
          req[r] = Idle /\ admits("login") /\ beginLogin(r, n, d)
  /\ UNCHANGED <<vars, req, check, storeVars, creds, boundVars>>

RequestStep(r) ==
  \/ readRole(r)
  \/ requestFails(r)
  \/ \E g \in Grantable : grant(r, g) \/ revokeRoleOf(r, g)
  \/ \E d \in Dids : identity(r, d)
  \/ forward(r)
  \/ \E h \in Hashes : putBin(r, h)
  \/ putJson(r)
  \/ createDocument(r)
  \/ mint(r)
  \/ \E c \in Creds : issue(r, c) \/ withdraw(r, c)

CheckStep(c) ==
  \/ \E id \in Creds : readRow(c, id)
  \/ controllerOf(c)
  \/ readIssuer(c)
  \/ endCheck(c)

GatewayNext ==
  \/ LoginRequest
  \/ \E r \in Requests, s \in sessions, k \in Kinds : beginRequest(r, s, k)
  \/ \E r \in Requests : RequestStep(r)
  \/ \E c \in Checks : CheckStep(c)
  \/ OtherTransaction

GatewaySpec == GatewayInit /\ [][GatewayNext]_gatewayVars

-----------------------------------------------------------------------------
\* requireRoles judges on up to four reads at four moments, and knows an
\* account by its first role only.  Who is admitted held an allowed role at
\* some moment of the request.  Who is refused lacked, at some moment, each
\* role that is allowed, unless a role asked for earlier, which is not
\* allowed, was held at some moment.
VerdictJustified ==
  \A r \in Requests : LET f == req[r] IN f # Idle =>
    /\ f.at = "act" /\ allowed(f.kind) # {} => f.ever \cap allowed(f.kind) # {}
    /\ f.at = "refused" =>
         \/ f.always \cap allowed(f.kind) = {}
         \/ \E i, j \in 1..4 :
              /\ i < j /\ order[j] \in f.always \cap allowed(f.kind)
              /\ order[i] \in f.ever \ allowed(f.kind)

\* The backend's gate and the contracts' agree: a transaction that was let
\* through the one and turned away by the other lost, on the way, the role
\* it was admitted by.  (Granting or revoking Admin is left out: the gate asks
\* for Admin, RoleManager for DEFAULT_ADMIN.)
GatesAgree ==
  \A r \in Requests : req[r].at = "reverted" => req[r].role \notin req[r].always

\* Whatever fails in between, a metadata hash that the backend has put on chain
\* is the hash of a document that can be fetched.
HashBacked == minted \subseteq binFile \cap jsonFile \cap document

\* A verification reads the row, the issuer's key, and that key's activity at
\* three moments.  If it reports an unrevoked credential of an active issuer,
\* that was so when it read the row, and the issuer was active when it issued.
VerifiedWhileGood ==
  \A c \in Checks : LET v == check[c] IN
    v # Idle => (v.at = "answered" /\ ~v.revoked /\ v.active => v.good)
=============================================================================
