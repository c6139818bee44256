---------------------------- MODULE RoleManager ----------------------------
(***************************************************************************)
(* contracts/src/RoleManager.sol: OpenZeppelin AccessControl with an expiry *)
(* per grant.  Whether a role is active is spread over two mappings, the    *)
(* membership that AccessControl keeps and the expiry that RoleManager adds *)
(* to it, and grantRole, revokeRole and renounceRole treat them differently.*)
(***************************************************************************)
EXTENDS Integers

CONSTANTS
  Accounts,   \* externally owned accounts
  Grantable,  \* the <<account, role>> pairs that calls are made about
  Deployer,   \* the account given to the constructor
  MaxTime     \* bound on the block time

DEFAULT_ADMIN == "DEFAULT_ADMIN"
ADMIN   == "ADMIN"
MANAGER == "MANAGER"
AUDITOR == "AUDITOR"
USER    == "USER"
OperationalRoles == {ADMIN, MANAGER, AUDITOR, USER}

\* AccessControl's getRoleAdmin after the constructor's _setRoleAdmin calls.
getRoleAdmin(role) == IF role \in {MANAGER, AUDITOR, USER} THEN ADMIN ELSE DEFAULT_ADMIN

Forever == MaxTime + 2   \* later than any block time and any expiry

ASSUME RoleAssumption ==
  /\ MaxTime \in Nat
  /\ Grantable \subseteq Accounts \X (OperationalRoles \cup {DEFAULT_ADMIN})
  /\ Deployer \in Accounts
  /\ {<<Deployer, DEFAULT_ADMIN>>, <<Deployer, ADMIN>>} \subseteq Grantable

VARIABLES
  now,     \* block.timestamp
  member,  \* AccessControl's _roles: the pairs whose hasRole flag is set
  expiry,  \* _roleExpiry; 0 means that the grant does not expire
  granted  \* history: the time until which the calls made so far grant the pair

roleVars == <<now, member, expiry, granted>>

RoleTypeOK ==
  /\ now \in 0..MaxTime
  /\ member \subseteq Grantable
  /\ expiry \in [Grantable -> 0..(MaxTime + 1)]
  /\ granted \in [Grantable -> 0..Forever]

\* The constructor's two grants (mutation: ADMIN is forgotten).
defaultAdminOnly == {<<Deployer, DEFAULT_ADMIN>>}
initialMembers   == {<<Deployer, DEFAULT_ADMIN>>, <<Deployer, ADMIN>>}

RoleInit ==
  /\ now = 0
  /\ member = initialMembers
  /\ expiry = [g \in Grantable |-> 0]
  /\ granted = [g \in Grantable |-> IF g \in member THEN Forever ELSE 0]

\* hasRole over the pairs g = <<account, role>>, for an expiry mapping that
\* the calling function may already have written to.
active(g, exp) == g \in member /\ (exp[g] = 0 \/ now < exp[g])
hasRole(g)     == active(g, expiry)

\* The expiry mapping with g's entry reset (mutation: left in place).
keptExpiry(g) == expiry
cleared(g)    == [expiry EXCEPT ![g] = 0]

\* onlyRole(getRoleAdmin(role)) for the role of g (mutation: expiry ignored).
adminOf(sender, g) == <<sender, getRoleAdmin(g[2])>>
everAdmin(sender, g, exp)  == adminOf(sender, g) \in member
checkAdmin(sender, g, exp) == adminOf(sender, g) \in Grantable /\ active(adminOf(sender, g), exp)

-----------------------------------------------------------------------------
Tick ==
  /\ now < MaxTime
  /\ now' = now + 1
  /\ UNCHANGED <<member, expiry, granted>>

\* The expiry is cleared before AccessControl checks the caller.
grantRole(sender, g) ==
  /\ checkAdmin(sender, g, cleared(g))
  /\ expiry' = cleared(g)
  /\ member' = member \cup {g}
  /\ granted' = [granted EXCEPT ![g] = Forever]
  /\ UNCHANGED now

grantRoleWithExpiry(sender, g, until) ==
  /\ until > now
  /\ checkAdmin(sender, g, expiry)
  /\ expiry' = [expiry EXCEPT ![g] = until]
  /\ member' = member \cup {g}
  /\ granted' = [granted EXCEPT ![g] = until]
  /\ UNCHANGED now

\* With the expiry cleared, _revokeRole finds even an expired membership active.
revokeRole(sender, g) ==
  /\ checkAdmin(sender, g, cleared(g))
  /\ expiry' = cleared(g)
  /\ member' = member \ {g}
  /\ granted' = [granted EXCEPT ![g] = 0]
  /\ UNCHANGED now

\* AccessControl's own renounceRole: _revokeRole leaves a membership that has
\* expired in place, and nothing clears the expiry.
renounceRole(g) ==
  /\ member' = IF hasRole(g) THEN member \ {g} ELSE member
  /\ granted' = [granted EXCEPT ![g] = 0]
  /\ UNCHANGED <<now, expiry>>

RoleCall ==
  \E g \in Grantable :
    \/ renounceRole(g)
    \/ \E sender \in Accounts :
         \/ grantRole(sender, g)
         \/ revokeRole(sender, g)
         \/ \E until \in 1..(MaxTime + 1) : grantRoleWithExpiry(sender, g, until)
=============================================================================
