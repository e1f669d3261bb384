---------------------------- MODULE ClaimWorkRecord ----------------------------
(***************************************************************************)
(* What "claim, then work, then record" promises (the notice of a counted  *)
(* attempt, of a cancel from the phone, the release of a code): something  *)
(* the member must be told of falls due; every duty it carries (an audit   *)
(* entry, an email) is done while it is due, some perhaps more than once;  *)
(* only then is it recorded, and once recorded nothing more is done for    *)
(* it.  It may instead be given up after too many tries, or lost with the  *)
(* row that holds it (a duty begun by then may still be done).             *)
(***************************************************************************)
CONSTANTS Items, Duties

VARIABLES stage, done

Stages == {"none", "due", "recorded", "abandoned", "lost"}

Arise(i) ==
  /\ stage[i] = "none"
  /\ stage' = [stage EXCEPT ![i] = "due"]
  /\ UNCHANGED done

Do(i, d) ==
  /\ stage[i] \in {"due", "lost"}
  /\ done' = [done EXCEPT ![i] = @ \cup {d}]
  /\ UNCHANGED stage

Record(i) ==
  /\ stage[i] = "due"
  /\ done[i] = Duties
  /\ stage' = [stage EXCEPT ![i] = "recorded"]
  /\ UNCHANGED done

Abandon(i) ==
  /\ stage[i] = "due"
  /\ stage' = [stage EXCEPT ![i] = "abandoned"]
  /\ UNCHANGED done

Lose(i) ==
  /\ stage[i] = "due"
  /\ stage' = [stage EXCEPT ![i] = "lost"]
  /\ UNCHANGED done

Init ==
  /\ stage = [i \in Items |-> "none"]
  /\ done = [i \in Items |-> {}]

Next ==
  \E i \in Items :
    \/ Arise(i) \/ Record(i) \/ Abandon(i) \/ Lose(i)
    \/ \E d \in Duties : Do(i, d)

Spec == Init /\ [][Next]_<<stage, done>>
================================================================================
