---------------------------- MODULE AssetCustody ----------------------------
(***************************************************************************)
(* What the asset contracts promise about one another's work, with no       *)
(* roles, signatures, windows or ids: a token is absent, free or frozen.    *)
(* Its owner and its custodian change only while it is free, except that    *)
(* the step that releases it names its custodian; it is frozen by opening   *)
(* a case and released by closing that case, one case at a time.  A step    *)
(* concerns one token.                                                      *)
(***************************************************************************)
EXTENDS Naturals

CONSTANTS TokenIds, Parties, Nobody

VARIABLES
  holding,   \* per token: phase, owner, custodian
  opened,    \* per token: the number of cases opened so far
  closed     \* per token: the number of those that are closed

custodyVars == <<holding, opened, closed>>

Absent == [phase |-> "absent", owner |-> Nobody, custodian |-> Nobody]

CustodyInit ==
  /\ holding = [t \in TokenIds |-> Absent]
  /\ opened = [t \in TokenIds |-> 0]
  /\ closed = [t \in TokenIds |-> 0]

Appear(t, o, c) ==
  /\ holding[t] = Absent
  /\ holding' = [holding EXCEPT ![t] = [phase |-> "free", owner |-> o, custodian |-> c]]
  /\ UNCHANGED <<opened, closed>>

HandOver(t, o, c) ==
  /\ holding[t].phase = "free"
  /\ holding' = [holding EXCEPT ![t].owner = o, ![t].custodian = c]
  /\ UNCHANGED <<opened, closed>>

Freeze(t) ==
  /\ holding[t].phase = "free"
  /\ opened[t] = closed[t]
  /\ holding' = [holding EXCEPT ![t].phase = "frozen"]
  /\ opened' = [opened EXCEPT ![t] = @ + 1]
  /\ UNCHANGED closed

Release(t, c) ==
  /\ holding[t].phase = "frozen"
  /\ opened[t] = closed[t] + 1
  /\ holding' = [holding EXCEPT ![t].phase = "free", ![t].custodian = c]
  /\ closed' = [closed EXCEPT ![t] = @ + 1]
  /\ UNCHANGED opened

CustodyNext ==
  \E t \in TokenIds, c \in Parties :
    \/ \E o \in Parties : Appear(t, o, c) \/ HandOver(t, o, c)
    \/ Freeze(t)
    \/ Release(t, c)

CustodySpec == CustodyInit /\ [][CustodyNext]_custodyVars
=============================================================================
