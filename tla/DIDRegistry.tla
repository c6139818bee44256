---------------------------- MODULE DIDRegistry ----------------------------
(***************************************************************************)
(* contracts/src/DIDRegistry.sol: decentralised identifiers, their          *)
(* controlling keys, and the reverse mapping from a key to its DID.  Every  *)
(* DID of the model is one that _validDid accepts.                          *)
(***************************************************************************)
EXTENDS RoleManager

CONSTANTS
  Dids,       \* well-formed identifiers
  NoDid,      \* the empty string
  NoAccount   \* the zero address

ASSUME DidAssumption == NoDid \notin Dids /\ NoAccount \notin Accounts

VARIABLES
  dids,             \* _records
  didByController   \* _didByController

didVars == <<dids, didByController>>

Status == {"None", "Active", "Revoked"}
NoRecord == [controller |-> NoAccount, status |-> "None"]

DidTypeOK ==
  /\ dids \in [Dids -> [controller : Accounts \cup {NoAccount}, status : Status]]
  /\ didByController \in [Accounts -> Dids \cup {NoDid}]

DidInit ==
  /\ dids = [d \in Dids |-> NoRecord]
  /\ didByController = [a \in Accounts |-> NoDid]

isActiveController(a) ==
  LET d == didByController[a] IN
  d # NoDid /\ dids[d].status = "Active" /\ dids[d].controller = a

isAdmin(a) == <<a, ADMIN>> \in Grantable /\ hasRole(<<a, ADMIN>>)

\* ControllerInUse otherwise: a key is bound to one DID at a time (mutation:
\* unchecked).
anyKey(a)  == TRUE
unbound(a) == didByController[a] = NoDid

\* _requireActive (mutation: a revoked DID passes).
requireRegistered(d) == dids[d].status # "None"
requireActive(d)     == dids[d].status = "Active"

-----------------------------------------------------------------------------
register(sender, d, controller) ==
  /\ dids[d].status = "None"
  /\ unbound(controller)
  /\ sender = controller \/ isAdmin(sender)
  /\ dids' = [dids EXCEPT ![d] = [controller |-> controller, status |-> "Active"]]
  /\ didByController' = [didByController EXCEPT ![controller] = d]

rotateKey(sender, d, newController) ==
  /\ requireActive(d)
  /\ sender = dids[d].controller
  /\ unbound(newController)
  /\ dids' = [dids EXCEPT ![d].controller = newController]
  /\ didByController' = [didByController EXCEPT ![sender] = NoDid, ![newController] = d]

\* The key of a revoked DID stays bound to it.
revoke(sender, d) ==
  /\ requireActive(d)
  /\ sender = dids[d].controller \/ isAdmin(sender)
  /\ dids' = [dids EXCEPT ![d].status = "Revoked"]
  /\ UNCHANGED didByController

DidCall ==
  \E sender \in Accounts, d \in Dids :
    \/ revoke(sender, d)
    \/ \E a \in Accounts : register(sender, d, a) \/ rotateKey(sender, d, a)
=============================================================================
