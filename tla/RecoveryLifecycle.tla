--------------------------- MODULE RecoveryLifecycle ---------------------------
(***************************************************************************)
(* What the Member API promises of a vault's recoveries, whatever order    *)
(* its handlers, the host's reports and the clock come in: a recovery is   *)
(* requested once, may be registered once (its code is spent), and ends at *)
(* most once, in one of three ways that are never undone.  A new request   *)
(* takes the place of the vault's earlier recovery; one that had not been  *)
(* recorded as ended has then lapsed, and nothing happens to it again.     *)
(* There is no clock, no row and no concurrency here.  VaultRecovery       *)
(* implements it.                                                          *)
(***************************************************************************)

CONSTANT RecoveryIds

VARIABLE stage      \* what has become of each recovery id

Live   == {"pending", "registered"}
Ended  == {"cancelled", "unavailable", "completed"}
Stages == {"none", "lapsed"} \cup Live \cup Ended

Init == stage = [id \in RecoveryIds |-> "none"]

Request(id) ==
  /\ stage[id] = "none"
  /\ stage' = [i \in RecoveryIds |->
                 IF i = id THEN "pending"
                 ELSE IF stage[i] \in Live THEN "lapsed" ELSE stage[i]]

Move(id, from, to) ==
  /\ stage[id] \in from
  /\ stage' = [stage EXCEPT ![id] = to]

Register(id) == Move(id, {"pending"}, "registered")
Cancel(id)   == Move(id, Live, "cancelled")
Refuse(id)   == Move(id, {"pending"}, "unavailable")
Complete(id) == Move(id, {"registered"}, "completed")

Next ==
  \E id \in RecoveryIds :
    \/ Request(id)
    \/ Register(id)
    \/ Cancel(id)
    \/ Refuse(id)
    \/ Complete(id)

Spec == Init /\ [][Next]_stage
================================================================================
