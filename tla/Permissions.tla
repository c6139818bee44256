---------------------------- MODULE Permissions ----------------------------
(***************************************************************************)
(* What the asset contracts can see of RoleManager and DIDRegistry: which   *)
(* accounts actively hold which operational role, which accounts actively   *)
(* control a DID, and the block time.  Between any two transactions of the  *)
(* asset contracts a role can be granted, revoked or expire, and a DID can  *)
(* be registered, rotated or revoked.  RoleManager.tla and DIDRegistry.tla  *)
(* model the two contracts themselves and are shown to step only like this. *)
(***************************************************************************)
EXTENDS Integers

CONSTANTS
  Accounts,      \* externally owned accounts
  NoAccount,     \* the zero address
  Grants,        \* the <<account, role>> pairs that are ever granted
  Controllers,   \* the accounts that ever control a DID
  InitialAdmin,  \* the deployer, Admin from RoleManager's constructor
  MaxTime        \* bound on the block time

ADMIN   == "ADMIN"
MANAGER == "MANAGER"
AUDITOR == "AUDITOR"
USER    == "USER"
Roles   == {ADMIN, MANAGER, AUDITOR, USER}
Times   == 0..MaxTime

ASSUME PermissionsAssumption ==
  /\ NoAccount \notin Accounts
  /\ Grants \subseteq Accounts \X Roles
  /\ Controllers \subseteq Accounts
  /\ <<InitialAdmin, ADMIN>> \in Grants
  /\ MaxTime \in Nat

VARIABLES
  now,               \* block.timestamp
  activeRoles,       \* the pairs for which RoleManager.hasActiveRole is true
  activeControllers  \* the accounts for which DIDRegistry.isActiveController is true

permVars == <<now, activeRoles, activeControllers>>

hasActiveRole(account, role) == <<account, role>> \in activeRoles
isActiveController(account)  == account \in activeControllers
adminOrManager(account) == hasActiveRole(account, ADMIN) \/ hasActiveRole(account, MANAGER)

PermTypeOK ==
  /\ now \in Times
  /\ activeRoles \subseteq Grants
  /\ activeControllers \subseteq Controllers

PermInit ==
  /\ now = 0
  /\ activeRoles = {<<InitialAdmin, ADMIN>>}
  /\ activeControllers = {}

-----------------------------------------------------------------------------
\* Time passes; any of the grants may carry an expiry that is reached by then.
Tick ==
  /\ now < MaxTime
  /\ now' = now + 1
  /\ activeRoles' \in SUBSET activeRoles
  /\ UNCHANGED activeControllers

RoleGranted(g) ==
  /\ activeRoles' = activeRoles \cup {g}
  /\ UNCHANGED <<now, activeControllers>>

RoleLost(g) ==
  /\ activeRoles' = activeRoles \ {g}
  /\ UNCHANGED <<now, activeControllers>>

ControllerBound(a) ==
  /\ activeControllers' = activeControllers \cup {a}
  /\ UNCHANGED <<now, activeRoles>>

ControllerLost(a) ==
  /\ activeControllers' = activeControllers \ {a}
  /\ UNCHANGED <<now, activeRoles>>

ControllerRotated(a, b) ==
  /\ a \in activeControllers
  /\ activeControllers' = (activeControllers \ {a}) \cup {b}
  /\ UNCHANGED <<now, activeRoles>>

PermNext ==
  \/ Tick
  \/ \E g \in Grants : RoleGranted(g) \/ RoleLost(g)
  \/ \E a \in Controllers : ControllerBound(a) \/ ControllerLost(a)
  \/ \E a, b \in Controllers : ControllerRotated(a, b)

PermSpec == PermInit /\ [][PermNext]_permVars
=============================================================================
