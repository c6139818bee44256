------------------------------ MODULE Identity ------------------------------
(***************************************************************************)
(* RoleManager and DIDRegistry together, one action per transaction: who    *)
(* may act in the platform, and how that changes.                           *)
(***************************************************************************)
EXTENDS DIDRegistry

vars == <<roleVars, didVars>>

TypeOK == RoleTypeOK /\ DidTypeOK

Init == RoleInit /\ DidInit

Next ==
  \/ Tick /\ UNCHANGED didVars
  \/ RoleCall /\ UNCHANGED didVars
  \/ DidCall /\ UNCHANGED roleVars

Spec == Init /\ [][Next]_vars

-----------------------------------------------------------------------------
\* Whatever grants, extensions, revocations and renunciations came before, and
\* whatever they left behind in the two mappings, a role is active exactly
\* until the time that the last call about it named.
ActiveAsGranted == \A g \in Grantable : hasRole(g) <=> now < granted[g]

\* The step turns g from inactive to active while no account actively holds
\* the admin role of g's role.
unauthorised(g) ==
  /\ ~hasRole(g) /\ hasRole(g)'
  /\ \A h \in Grantable : h[2] = getRoleAdmin(g[2]) => ~hasRole(h)

\* A role of the four operational ones never becomes active, by a call or by
\* the passing of time, unless some account actively holds its admin role at
\* that moment (RoleManager.sol grantRole, grantRoleWithExpiry).
OperationalGrantsAuthorised ==
  [][\A g \in Grantable : g[2] \in OperationalRoles => ~unauthorised(g)]_vars

\* RoleManager.sol:10 says that every onlyRole check also respects expiry, so
\* the same should hold of every role.  It does not of DEFAULT_ADMIN, its own
\* admin role: grantRole clears the expiry before it checks the caller.
GrantsAuthorised == [][\A g \in Grantable : ~unauthorised(g)]_vars

\* The two mappings of DIDRegistry are inverse to each other: a key that is
\* bound is bound to the DID it controls, a registered DID to the key that
\* controls it, through any sequence of registrations, rotations, revocations.
ControlIsMutual ==
  /\ \A d \in Dids : dids[d].status # "None" =>
       /\ dids[d].controller \in Accounts
       /\ didByController[dids[d].controller] = d
  /\ \A a \in Accounts : didByController[a] # NoDid =>
       /\ dids[didByController[a]].status # "None"
       /\ dids[didByController[a]].controller = a

\* Revocation is final, and so is the loss of its key: the DID never changes
\* again, and the key that controlled it never controls another.
RevocationFinal ==
  [][\A d \in Dids : dids[d].status = "Revoked" =>
       /\ dids'[d] = dids[d]
       /\ ~isActiveController(dids[d].controller)']_vars

-----------------------------------------------------------------------------
\* The asset contracts' view of the two contracts steps as Permissions says.
View == INSTANCE Permissions WITH
  Grants            <- {g \in Grantable : g[2] \in OperationalRoles},
  Controllers       <- Accounts,
  InitialAdmin      <- Deployer,
  activeRoles       <- {g \in Grantable : g[2] \in OperationalRoles /\ hasRole(g)},
  activeControllers <- {a \in Accounts : isActiveController(a)}

StepsLikePermissions == View!PermSpec
=============================================================================
