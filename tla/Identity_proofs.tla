-------------------------- MODULE Identity_proofs --------------------------
(***************************************************************************)
(* Proofs about Identity, for every choice of accounts, pairs and DIDs.     *)
(***************************************************************************)
EXTENDS Identity, TLAPS

-----------------------------------------------------------------------------
\* What the calls about g have left in the two mappings: a grant without
\* expiry, a grant with one, or none; the last covers an expired membership
\* that renounceRole did not remove.
Traced(g) ==
  \/ g \in member /\ expiry[g] = 0 /\ granted[g] = Forever
  \/ g \in member /\ expiry[g] # 0 /\ granted[g] = expiry[g]
  \/ granted[g] = 0 /\ (g \notin member \/ (expiry[g] # 0 /\ expiry[g] <= now))

RoleInv == RoleTypeOK /\ \A g \in Grantable : Traced(g)

Typed == RoleInv /\ DidTypeOK

-----------------------------------------------------------------------------
LEMMA RoleInvInit == RoleInit => RoleInv
  BY RoleAssumption DEF RoleInit, RoleInv, RoleTypeOK, Traced, initialMembers, Forever

\* A call about the pair h settles h and leaves every other pair alone.
LEMMA CallTraced ==
  ASSUME RoleInv, NEW h \in Grantable,
         NEW m \in SUBSET Grantable, NEW e \in 0..(MaxTime + 1), NEW u \in 0..Forever,
         m = member \cup {h} \/ m = member \/ m = member \ {h},
         member' = m,
         expiry' = [expiry EXCEPT ![h] = e],
         granted' = [granted EXCEPT ![h] = u],
         now' = now,
         Traced(h)'
  PROVE  RoleInv'
  <1>1. RoleTypeOK'
    BY RoleAssumption DEF RoleInv, RoleTypeOK, Forever
  <1>2. ASSUME NEW g \in Grantable PROVE Traced(g)'
    <2>1. CASE g = h
      BY <2>1
    <2>2. CASE g # h
      BY <2>2 DEF RoleInv, RoleTypeOK, Traced
    <2> QED
      BY <2>1, <2>2
  <1> QED
    BY <1>1, <1>2 DEF RoleInv

LEMMA RoleInvTick == RoleInv /\ Tick => RoleInv'
  <1> SUFFICES ASSUME RoleInv, Tick PROVE RoleInv'
    OBVIOUS
  <1>1. RoleTypeOK'
    BY RoleAssumption DEF RoleInv, RoleTypeOK, Tick
  <1>2. ASSUME NEW g \in Grantable PROVE Traced(g)'
    BY RoleAssumption DEF RoleInv, RoleTypeOK, Tick, Traced
  <1> QED
    BY <1>1, <1>2 DEF RoleInv

LEMMA RoleInvCall == RoleInv /\ RoleCall => RoleInv'
  <1> SUFFICES ASSUME RoleInv, NEW g \in Grantable,
                      \/ renounceRole(g)
                      \/ \E sender \in Accounts :
                           \/ grantRole(sender, g)
                           \/ revokeRole(sender, g)
                           \/ \E until \in 1..(MaxTime + 1) : grantRoleWithExpiry(sender, g, until)
               PROVE  RoleInv'
    BY DEF RoleCall
  <1>0. /\ MaxTime \in Nat
        /\ 0 \in 0..(MaxTime + 1) /\ 0 \in 0..Forever /\ Forever \in 0..Forever
        /\ expiry[g] \in 0..(MaxTime + 1) /\ expiry = [h \in Grantable |-> expiry[h]]
        /\ {member, member \cup {g}, member \ {g}} \subseteq SUBSET Grantable
    BY RoleAssumption DEF Forever, RoleInv, RoleTypeOK
  <1>1. CASE renounceRole(g)
    <2>1. expiry' = [expiry EXCEPT ![g] = expiry[g]]
      BY <1>0, <1>1 DEF renounceRole
    <2>2. Traced(g)'
      BY <1>0, <1>1 DEF renounceRole, Traced, hasRole, active, RoleInv, RoleTypeOK
    <2> QED
      BY <1>0, <1>1, <2>1, <2>2, CallTraced DEF renounceRole
  <1>2. ASSUME NEW sender \in Accounts, grantRole(sender, g) PROVE RoleInv'
    <2>1. Traced(g)'
      BY <1>0, <1>2 DEF grantRole, cleared, Traced, RoleInv, RoleTypeOK
    <2> QED
      BY <1>0, <1>2, <2>1, CallTraced DEF grantRole, cleared
  <1>3. ASSUME NEW sender \in Accounts, revokeRole(sender, g) PROVE RoleInv'
    <2>1. Traced(g)'
      BY <1>0, <1>3 DEF revokeRole, cleared, Traced, RoleInv, RoleTypeOK
    <2> QED
      BY <1>0, <1>3, <2>1, CallTraced DEF revokeRole, cleared
  <1>4. ASSUME NEW sender \in Accounts, NEW until \in 1..(MaxTime + 1),
               grantRoleWithExpiry(sender, g, until)
        PROVE  RoleInv'
    <2>1. until \in 0..(MaxTime + 1) /\ until \in 0..Forever
      BY <1>0 DEF Forever
    <2>2. Traced(g)'
      BY <1>0, <1>4 DEF grantRoleWithExpiry, Traced, RoleInv, RoleTypeOK
    <2> QED
      BY <1>0, <1>4, <2>1, <2>2, CallTraced DEF grantRoleWithExpiry
  <1> QED
    BY <1>1, <1>2, <1>3, <1>4

-----------------------------------------------------------------------------
LEMMA DidTyped == DidTypeOK /\ DidCall => DidTypeOK'
  <1> SUFFICES ASSUME DidTypeOK, NEW sender \in Accounts, NEW d \in Dids,
                      \/ revoke(sender, d)
                      \/ \E a \in Accounts : register(sender, d, a) \/ rotateKey(sender, d, a)
               PROVE  DidTypeOK'
    BY DEF DidCall
  <1> USE DEF DidTypeOK, Status
  <1>1. CASE revoke(sender, d)
    BY <1>1 DEF revoke
  <1>2. ASSUME NEW a \in Accounts, register(sender, d, a) PROVE DidTypeOK'
    BY <1>2 DEF register
  <1>3. ASSUME NEW a \in Accounts, rotateKey(sender, d, a) PROVE DidTypeOK'
    BY <1>3 DEF rotateKey
  <1> QED
    BY <1>1, <1>2, <1>3

LEMMA TypedStep == Typed /\ [Next]_vars => Typed'
  <1> SUFFICES ASSUME Typed, [Next]_vars PROVE Typed'
    OBVIOUS
  <1>1. CASE Tick /\ UNCHANGED didVars
    BY <1>1, RoleInvTick DEF Typed, didVars, DidTypeOK
  <1>2. CASE RoleCall /\ UNCHANGED didVars
    BY <1>2, RoleInvCall DEF Typed, didVars, DidTypeOK
  <1>3. CASE DidCall /\ UNCHANGED roleVars
    <2>1. RoleInv'
      BY <1>3 DEF Typed, roleVars, RoleInv, RoleTypeOK, Traced
    <2> QED
      BY <1>3, <2>1, DidTyped DEF Typed
  <1>4. CASE UNCHANGED vars
    BY <1>4 DEF vars, roleVars, didVars, Typed, RoleInv, RoleTypeOK, Traced, DidTypeOK
  <1> QED
    BY <1>1, <1>2, <1>3, <1>4 DEF Next

LEMMA TypedInit == Init => Typed
  <1> SUFFICES ASSUME Init PROVE Typed
    OBVIOUS
  <1>1. DidTypeOK
    BY DEF Init, DidInit, DidTypeOK, NoRecord, Status
  <1> QED
    BY <1>1, RoleInvInit DEF Init, Typed

LEMMA AlwaysTyped == Spec => []Typed
  BY TypedInit, TypedStep, PTL DEF Spec

\* Both contracts keep their types (RoleManager.sol, DIDRegistry.sol).
THEOREM IdentityTyping == Spec => []TypeOK
  <1>1. Typed => TypeOK
    BY DEF Typed, RoleInv, TypeOK
  <1> QED
    BY <1>1, AlwaysTyped, PTL

\* hasRole answers according to the last call about a role, after any sequence
\* of grants, extensions, revocations and renunciations.
THEOREM RolesAsGranted == Spec => []ActiveAsGranted
  <1>1. Typed => ActiveAsGranted
    <2> SUFFICES ASSUME Typed, NEW g \in Grantable PROVE hasRole(g) <=> now < granted[g]
      BY DEF ActiveAsGranted
    <2> QED
      BY RoleAssumption DEF Typed, RoleInv, RoleTypeOK, Traced, hasRole, active, Forever
  <1> QED
    BY <1>1, AlwaysTyped, PTL

-----------------------------------------------------------------------------
\* Every DID call keeps the two mappings of DIDRegistry inverse to each other.
LEMMA CallKeepsControl == DidTypeOK /\ ControlIsMutual /\ DidCall => ControlIsMutual'
  <1> SUFFICES ASSUME DidTypeOK, ControlIsMutual, NEW sender \in Accounts, NEW d \in Dids,
                      \/ revoke(sender, d)
                      \/ \E a \in Accounts : register(sender, d, a) \/ rotateKey(sender, d, a)
               PROVE  ControlIsMutual'
    BY DEF DidCall
  <1> USE DEF DidTypeOK, ControlIsMutual, Status
  <1>1. CASE revoke(sender, d)
    BY <1>1 DEF revoke, requireActive
  <1>2. ASSUME NEW a \in Accounts, register(sender, d, a) PROVE ControlIsMutual'
    BY <1>2, DidAssumption DEF register, unbound
  <1>3. ASSUME NEW a \in Accounts, rotateKey(sender, d, a) PROVE ControlIsMutual'
    BY <1>3, DidAssumption DEF rotateKey, unbound, requireActive
  <1> QED
    BY <1>1, <1>2, <1>3

LEMMA ControlStep == Typed /\ ControlIsMutual /\ [Next]_vars => ControlIsMutual'
  BY CallKeepsControl DEF Next, vars, didVars, Typed, ControlIsMutual

\* didOfController and controllerOf (DIDRegistry.sol) agree for ever.
THEOREM ControlStaysMutual == Spec => []ControlIsMutual
  <1>1. Init => ControlIsMutual
    BY DEF Init, DidInit, ControlIsMutual, NoRecord
  <1> QED
    BY <1>1, ControlStep, AlwaysTyped, PTL DEF Spec

\* A revoked DID keeps its record and its key; a registered one is never
\* unregistered.
LEMMA RecordsStand ==
  ASSUME Typed, ControlIsMutual, [Next]_vars, NEW d \in Dids
  PROVE  /\ dids[d].status = "Revoked" =>
              dids'[d] = dids[d] /\ didByController'[dids[d].controller] = d
         /\ dids[d].status # "None" => dids'[d].status # "None"
  <1> DEFINE Stands == /\ dids[d].status = "Revoked" =>
                            dids'[d] = dids[d] /\ didByController'[dids[d].controller] = d
                       /\ dids[d].status # "None" => dids'[d].status # "None"
  <1> USE DEF Typed, DidTypeOK, ControlIsMutual
  <1>1. CASE UNCHANGED didVars
    BY <1>1 DEF didVars
  <1>2. ASSUME NEW sender \in Accounts, NEW e \in Dids, revoke(sender, e) PROVE Stands
    BY <1>2 DEF revoke, requireActive
  <1>3. ASSUME NEW sender \in Accounts, NEW e \in Dids, NEW a \in Accounts, register(sender, e, a)
        PROVE  Stands
    BY <1>3, DidAssumption DEF register, unbound
  <1>4. ASSUME NEW sender \in Accounts, NEW e \in Dids, NEW a \in Accounts, rotateKey(sender, e, a)
        PROVE  Stands
    BY <1>4, DidAssumption DEF rotateKey, unbound, requireActive
  <1> QED
    BY <1>1, <1>2, <1>3, <1>4 DEF Next, vars, DidCall

\* A revoked DID and its key are lost for good (DIDRegistry.sol revoke).
THEOREM RevokedForGood == Spec => RevocationFinal
  <1> DEFINE Final(d) == dids[d].status = "Revoked" =>
                           /\ dids'[d] = dids[d]
                           /\ ~isActiveController(dids[d].controller)'
  <1>1. Typed /\ ControlIsMutual /\ [Next]_vars => \A d \in Dids : Final(d)
    BY RecordsStand DEF isActiveController
  <1> QED
    BY <1>1, AlwaysTyped, ControlStaysMutual, PTL DEF Spec, RevocationFinal

-----------------------------------------------------------------------------
\* What a step can do to whether a role is active: time only ends it, and a
\* call changes it for the one pair the call is about.
LEMMA AuthorisedStep ==
  ASSUME Typed, [Next]_vars, NEW g \in Grantable, g[2] \in OperationalRoles,
         ~hasRole(g), hasRole(g)'
  PROVE  \E h \in Grantable : h[2] = getRoleAdmin(g[2]) /\ hasRole(h)
  <1> USE DEF Typed, RoleInv, RoleTypeOK, hasRole, active
  <1>1. CASE UNCHANGED roleVars
    BY <1>1 DEF roleVars
  <1>2. CASE Tick
    BY <1>2 DEF Tick
  <1> DEFINE Entitled(sender) == adminOf(sender, g) \in Grantable /\ hasRole(adminOf(sender, g))
  <1>3. getRoleAdmin(g[2]) # g[2]
    BY DEF getRoleAdmin, OperationalRoles, ADMIN, MANAGER, AUDITOR, USER, DEFAULT_ADMIN
  <1>4. ASSUME NEW sender \in Accounts PROVE adminOf(sender, g) # g
    BY <1>3 DEF adminOf
  <1>5. ASSUME NEW sender \in Accounts, Entitled(sender)
        PROVE  \E h \in Grantable : h[2] = getRoleAdmin(g[2]) /\ hasRole(h)
    BY <1>5 DEF adminOf
  <1>6. ASSUME NEW h \in Grantable, renounceRole(h) PROVE FALSE
    BY <1>6 DEF renounceRole
  <1>7. ASSUME NEW h \in Grantable, NEW sender \in Accounts, grantRole(sender, h)
        PROVE  Entitled(sender)
    BY <1>4, <1>7 DEF grantRole, cleared, checkAdmin
  <1>8. ASSUME NEW h \in Grantable, NEW sender \in Accounts, revokeRole(sender, h)
        PROVE  FALSE
    BY <1>8 DEF revokeRole, cleared
  <1>9. ASSUME NEW h \in Grantable, NEW sender \in Accounts, NEW until \in 1..(MaxTime + 1),
               grantRoleWithExpiry(sender, h, until)
        PROVE  Entitled(sender)
    BY <1>4, <1>9 DEF grantRoleWithExpiry, checkAdmin
  <1>10. CASE RoleCall
    BY <1>5, <1>6, <1>7, <1>8, <1>9, <1>10 DEF RoleCall
  <1> QED
    BY <1>1, <1>2, <1>10 DEF Next, vars

\* Nobody but an active holder of the admin role, whose own expiry counts,
\* brings an operational role to life (RoleManager.sol).
THEOREM OperationalGrants == Spec => OperationalGrantsAuthorised
  <1>1. Typed /\ [Next]_vars
        => \A g \in Grantable : g[2] \in OperationalRoles => ~unauthorised(g)
    BY AuthorisedStep DEF unauthorised
  <1> QED
    BY <1>1, AlwaysTyped, PTL DEF Spec, OperationalGrantsAuthorised

-----------------------------------------------------------------------------
\* The two sets that View computes from the state.
opGrants   == {g \in Grantable : g[2] \in OperationalRoles}
opActive   == {g \in Grantable : g[2] \in OperationalRoles /\ hasRole(g)}
controlled == {a \in Accounts : isActiveController(a)}

LEMMA ViewTick == Typed /\ Tick => opActive' \in SUBSET opActive
  BY DEF Typed, RoleInv, RoleTypeOK, Tick, opActive, hasRole, active

\* A role call moves at most its own pair into or out of the active ones.
LEMMA ViewRoleCall ==
  ASSUME Typed, RoleCall
  PROVE  \/ opActive' = opActive
         \/ \E g \in opGrants : opActive' = opActive \cup {g} \/ opActive' = opActive \ {g}
  <1> USE DEF Typed, RoleInv, RoleTypeOK
  <1>1. PICK g \in Grantable :
          /\ now' = now
          /\ \A h \in Grantable : h # g => (hasRole(h)' <=> hasRole(h))
    <2>1. ASSUME NEW h \in Grantable, NEW g \in Grantable, renounceRole(g), h # g
          PROVE  now' = now /\ (hasRole(h)' <=> hasRole(h))
      BY <2>1 DEF renounceRole, hasRole, active
    <2>2. ASSUME NEW h \in Grantable, NEW g \in Grantable, NEW sender \in Accounts,
                 grantRole(sender, g) \/ revokeRole(sender, g), h # g
          PROVE  now' = now /\ (hasRole(h)' <=> hasRole(h))
      BY <2>2 DEF grantRole, revokeRole, cleared, hasRole, active
    <2>3. ASSUME NEW h \in Grantable, NEW g \in Grantable, NEW sender \in Accounts,
                 NEW until \in 1..(MaxTime + 1), grantRoleWithExpiry(sender, g, until), h # g
          PROVE  now' = now /\ (hasRole(h)' <=> hasRole(h))
      BY <2>3 DEF grantRoleWithExpiry, hasRole, active
    <2>4. now' = now
      BY DEF RoleCall, renounceRole, grantRole, revokeRole, grantRoleWithExpiry
    <2> QED
      BY <2>1, <2>2, <2>3, <2>4 DEF RoleCall
  <1>2. CASE g \in opGrants /\ hasRole(g)'
    <2>1. opActive' = opActive \cup {g}
      BY <1>1, <1>2 DEF opActive, opGrants
    <2> QED
      BY <1>2, <2>1
  <1>3. CASE g \in opGrants /\ ~hasRole(g)'
    <2>1. opActive' = opActive \ {g}
      BY <1>1, <1>3 DEF opActive, opGrants
    <2> QED
      BY <1>3, <2>1
  <1>4. CASE g \notin opGrants
    <2>1. opActive' = opActive
      BY <1>1, <1>4 DEF opActive, opGrants
    <2> QED
      BY <2>1
  <1> QED
    BY <1>2, <1>3, <1>4

\* A DID call binds one key, frees one, or swaps one for another.
LEMMA ViewDidCall ==
  ASSUME DidTypeOK, ControlIsMutual, DidCall
  PROVE  \/ \E a \in Accounts : controlled' = controlled \cup {a} \/ controlled' = controlled \ {a}
         \/ \E a, b \in Accounts : a \in controlled /\ controlled' = (controlled \ {a}) \cup {b}
  <1> PICK sender \in Accounts, d \in Dids :
         \/ revoke(sender, d)
         \/ \E a \in Accounts : register(sender, d, a) \/ rotateKey(sender, d, a)
    BY DEF DidCall
  <1> USE DEF DidTypeOK, ControlIsMutual, Status
  <1>1. ASSUME revoke(sender, d)
        PROVE  /\ dids[d].controller \in Accounts
               /\ controlled' = controlled \ {dids[d].controller}
    BY <1>1 DEF revoke, requireActive, controlled, isActiveController
  <1>2. ASSUME NEW a \in Accounts, register(sender, d, a)
        PROVE  controlled' = controlled \cup {a}
    BY <1>2, DidAssumption DEF register, unbound, controlled, isActiveController
  <1>3. ASSUME NEW a \in Accounts, rotateKey(sender, d, a)
        PROVE  sender \in controlled /\ controlled' = (controlled \ {sender}) \cup {a}
    BY <1>3, DidAssumption DEF rotateKey, unbound, requireActive, controlled, isActiveController
  <1> QED
    BY <1>1, <1>2, <1>3

\* RoleManager and DIDRegistry step only as Permissions lets them, so what is
\* proved of the asset contracts over Permissions holds over the contracts.
THEOREM PermissionsSound == Spec => StepsLikePermissions
  <1> USE DEF View!permVars, opActive, opGrants, controlled
  <1>1. Init => View!PermInit
    <2> SUFFICES ASSUME Init PROVE View!PermInit
      OBVIOUS
    <2>1. opActive = {<<Deployer, ADMIN>>}
      BY RoleAssumption DEF Init, RoleInit, initialMembers, hasRole, active, OperationalRoles,
         ADMIN, MANAGER, AUDITOR, USER, DEFAULT_ADMIN
    <2>2. controlled = {}
      BY DEF Init, DidInit, isActiveController
    <2> QED
      BY <2>1, <2>2 DEF Init, RoleInit, View!PermInit, ADMIN, View!ADMIN
  <1>2. Typed /\ ControlIsMutual /\ [Next]_vars => [View!PermNext]_(View!permVars)
    <2> SUFFICES ASSUME Typed, ControlIsMutual, [Next]_vars
                 PROVE  View!PermNext \/ UNCHANGED <<now, opActive, controlled>>
      OBVIOUS
    <2>1. UNCHANGED didVars => UNCHANGED controlled
      BY DEF didVars, isActiveController
    <2>2. UNCHANGED roleVars => UNCHANGED <<now, opActive>>
      BY DEF roleVars, hasRole, active
    <2>3. CASE Tick /\ UNCHANGED didVars
      <3>1. View!Tick
        BY <2>1, <2>3, ViewTick DEF Tick, View!Tick
      <3> QED
        BY <3>1 DEF View!PermNext
    <2>4. CASE RoleCall /\ UNCHANGED didVars
      <3>1. now' = now
        BY <2>4 DEF RoleCall, renounceRole, grantRole, revokeRole, grantRoleWithExpiry
      <3>2. CASE opActive' = opActive
        BY <2>1, <2>4, <3>1, <3>2
      <3>3. ASSUME NEW g \in opGrants, opActive' = opActive \cup {g} PROVE View!RoleGranted(g)
        BY <2>1, <2>4, <3>1, <3>3 DEF View!RoleGranted
      <3>4. ASSUME NEW g \in opGrants, opActive' = opActive \ {g} PROVE View!RoleLost(g)
        BY <2>1, <2>4, <3>1, <3>4 DEF View!RoleLost
      <3> QED
        BY <2>4, <3>2, <3>3, <3>4, ViewRoleCall DEF View!PermNext
    <2>5. CASE DidCall /\ UNCHANGED roleVars
      <3>1. ASSUME NEW a \in Accounts, controlled' = controlled \cup {a}
            PROVE  View!ControllerBound(a)
        BY <2>2, <2>5, <3>1 DEF View!ControllerBound
      <3>2. ASSUME NEW a \in Accounts, controlled' = controlled \ {a}
            PROVE  View!ControllerLost(a)
        BY <2>2, <2>5, <3>2 DEF View!ControllerLost
      <3>3. ASSUME NEW a \in Accounts, NEW b \in Accounts, a \in controlled,
                   controlled' = (controlled \ {a}) \cup {b}
            PROVE  View!ControllerRotated(a, b)
        BY <2>2, <2>5, <3>3 DEF View!ControllerRotated
      <3> QED
        BY <2>5, <3>1, <3>2, <3>3, ViewDidCall DEF View!PermNext, Typed
    <2>6. CASE UNCHANGED vars
      BY <2>1, <2>2, <2>6 DEF vars
    <2> QED
      BY <2>3, <2>4, <2>5, <2>6 DEF Next
  <1> QED
    BY <1>1, <1>2, AlwaysTyped, ControlStaysMutual, PTL DEF Spec, StepsLikePermissions, View!PermSpec
=============================================================================
