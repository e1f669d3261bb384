--------------------------------- MODULE Scaler ---------------------------------
(***************************************************************************)
(* The release scaler: requests to start a release, one pass at a time     *)
(* over a snapshot of the release rows, the instance groups and the        *)
(* registry, and the writes that carry the plan out one after the other    *)
(* (lambda/vault/scaler-logic.ts, lambda/vault/scaler.ts).  Times are ages *)
(* in ticks; a pass is shorter than one.                                   *)
(***************************************************************************)
EXTENDS Integers, FiniteSetsExt

CONSTANTS Releases,     \* the releases with a row and a group, 1..n in the scan's order
          Minimum,      \* Minimum[r]: its group's minimum, 0 or 1; its maximum is 1
          CapTotal,     \* CAP_TOTAL
          Fresh,        \* START_FRESH_S
          Refresh,      \* BUSY_REFRESH_S
          IdleTime,     \* IDLE_MINUTES, longer than both
          MaxCrashes    \* bound: passes that stop half way

VARIABLES
  row,      \* release rows: routable, start_requested_at, start_issued_at, busy_at
  desired,  \* desired capacity of the groups
  load,     \* registry: 0 none live, 1 live and idle, 2 live with vaults
  pass,     \* the pass that runs: what is left of its plan
  seenBusy, \* age of the last pass that saw the release busy, as long as no pass stopped half way
  crashes

vars == <<row, desired, load, pass, seenBusy, crashes>>

Never == IdleTime + 1          \* an age of IdleTime is that or more
Age   == 0..Never
NoPlan == [r \in Releases |-> "none"]
Resting == [on |-> FALSE, plan |-> NoPlan, busy |-> {}, later |-> {}]

TypeOK ==
  /\ row \in [Releases -> [routable : BOOLEAN, asked : Age, unserved : BOOLEAN, issued : Age, busy : Age]]
  /\ desired \in [Releases -> 0..1] /\ load \in [Releases -> 0..2]
  /\ pass \in [on : BOOLEAN, plan : [Releases -> {"none", "start", "raise", "stop"}],
               busy : SUBSET Releases, later : SUBSET Releases]
  /\ seenBusy \in [Releases -> Age] /\ crashes \in 0..MaxCrashes
  /\ \A r \in Releases : row[r].unserved => row[r].asked # Never

Init ==
  /\ row = [r \in Releases |-> [routable |-> TRUE, asked |-> Never, unserved |-> FALSE, issued |-> Never, busy |-> Never]]
  /\ desired = Minimum /\ load = [r \in Releases |-> 0] /\ pass = Resting
  /\ seenBusy = [r \in Releases |-> Never] /\ crashes = 0

--------------------------------------------------------------------------------
(* plan(): one release after the other, with the total as it goes.         *)

\* A fresh request newer than the last start issued, nothing live, nothing desired.
WantsStart(r) == /\ row[r].routable /\ row[r].unserved /\ row[r].asked <= Fresh
                 /\ load[r] = 0 /\ desired[r] = 0

Latest(r) == Min({row[r].asked, row[r].issued, row[r].busy})
AboveMinimum(r) == desired[r] > Minimum[r]
WantsStop(r) ==
  /\ AboveMinimum(r)
  /\ \/ ~row[r].routable
     \/ load[r] < 2 /\ Latest(r) = IdleTime

Wanted == {r \in Releases : desired[r] = 1}

\* What is wanted by the time r's turn comes.
CountedNot(plan, r) ==             \* mutated form: the total is not carried along
  Wanted \ {q \in Releases : q < r /\ plan[q] = "stop"}
Counted(plan, r) ==
  (Wanted \ {q \in Releases : q < r /\ plan[q] = "stop"}) \cup {q \in Releases : q < r /\ plan[q] = "start"}

IsPlan(plan) == \A r \in Releases :
  plan[r] = IF WantsStop(r) THEN "stop"
            ELSE IF WantsStart(r) /\ Cardinality(Counted(plan, r)) < CapTotal THEN "start" ELSE "none"

StaleOnce(r) == row[r].busy = Never       \* mutated form: the marker is set once and not refreshed
Stale(r)     == row[r].busy >= Refresh

\* Busy, or scaled up by hand with no marker yet: the idle clock (re)starts.
MarksBusy(r) ==
  /\ row[r].routable
  /\ \/ load[r] = 2 /\ Stale(r)
     \/ AboveMinimum(r) /\ load[r] < 2 /\ Latest(r) = Never

--------------------------------------------------------------------------------
(* reconcile().                                                            *)

Snapshot ==
  /\ ~pass.on
  /\ \E plan \in [Releases -> {"none", "start", "stop"}] :
       /\ IsPlan(plan)
       /\ pass' = [on |-> TRUE, plan |-> plan, busy |-> {r \in Releases : MarksBusy(r)}, later |-> {}]
  /\ seenBusy' = [r \in Releases |-> IF load[r] = 2 /\ row[r].routable /\ crashes = 0 THEN 0 ELSE seenBusy[r]]
  /\ UNCHANGED <<row, desired, load, crashes>>

\* A start is recorded before the capacity is raised.
MarkIssued(r) ==
  /\ pass.on /\ pass.plan[r] = "start" /\ \A q \in Releases : q < r => pass.plan[q] = "none"
  /\ row' = [row EXCEPT ![r].issued = 0, ![r].unserved = r \in pass.later]
  /\ pass' = [pass EXCEPT !.plan[r] = "raise"]
  /\ UNCHANGED <<desired, load, seenBusy, crashes>>

SetDesired(r) ==
  /\ pass.on /\ pass.plan[r] \in {"raise", "stop"} /\ \A q \in Releases : q < r => pass.plan[q] = "none"
  /\ desired' = [desired EXCEPT ![r] = IF pass.plan[r] = "raise" THEN 1 ELSE Minimum[r]]
  /\ pass' = [pass EXCEPT !.plan[r] = "none"]
  /\ UNCHANGED <<row, load, seenBusy, crashes>>

\* The busy markers come last.
MarkBusy ==
  /\ pass.on /\ pass.plan = NoPlan
  /\ row' = [r \in Releases |-> IF r \in pass.busy THEN [row[r] EXCEPT !.busy = 0] ELSE row[r]]
  /\ pass' = Resting
  /\ UNCHANGED <<desired, load, seenBusy, crashes>>

Crash ==
  /\ pass.on /\ crashes < MaxCrashes /\ crashes' = crashes + 1 /\ pass' = Resting
  /\ seenBusy' = [r \in Releases |-> Never]
  /\ UNCHANGED <<row, desired, load>>

--------------------------------------------------------------------------------
(* The member API, the releases, the instances (external) and time.        *)

\* requestStart(): nothing is live.
Ask(r) ==
  /\ load[r] = 0 /\ row[r].routable /\ row[r].asked # 0
  /\ row' = [row EXCEPT ![r].asked = 0, ![r].unserved = TRUE]
  /\ pass' = IF pass.on THEN [pass EXCEPT !.later = @ \cup {r}] ELSE pass
  /\ UNCHANGED <<desired, load, seenBusy, crashes>>

Retired(r) ==
  /\ row[r].routable /\ row' = [row EXCEPT ![r].routable = FALSE]
  /\ UNCHANGED <<desired, load, pass, seenBusy, crashes>>

\* The group follows its desired capacity; a vault is unlocked or locked.
InstanceMoves(r) ==
  /\ load' = [load EXCEPT ![r] = IF @ = 0 THEN 1 ELSE IF desired[r] = 0 THEN 0 ELSE IF @ = 1 THEN 2 ELSE 1]
  /\ load[r] = 0 => desired[r] = 1
  /\ UNCHANGED <<row, desired, pass, seenBusy, crashes>>

Older(a) == IF a < IdleTime THEN a + 1 ELSE a

Tick ==
  /\ ~pass.on
  /\ row' = [r \in Releases |-> [row[r] EXCEPT !.asked = Older(@), !.issued = Older(@), !.busy = Older(@)]]
  /\ seenBusy' = [r \in Releases |-> Older(seenBusy[r])]
  /\ UNCHANGED <<desired, load, pass, crashes>>

Next ==
  \/ Snapshot \/ MarkBusy \/ Crash \/ Tick
  \/ \E r \in Releases : MarkIssued(r) \/ SetDesired(r) \/ Ask(r) \/ Retired(r) \/ InstanceMoves(r)

Spec == Init /\ [][Next]_vars

--------------------------------------------------------------------------------
(* Whatever is asked for while passes run and stop, no more instances are  *)
(* wanted than CAP_TOTAL (scaler-logic.ts: "never above ... the total cap").*)
UnderCap == Cardinality(Wanted) <= CapTotal

(* A release that still routes is not stopped before IdleTime, less the    *)
(* age a busy marker may have, since a pass last saw it busy: the marker   *)
(* is refreshed in time (BUSY_REFRESH_S against IDLE_MINUTES).  Passes     *)
(* that stopped half way may have lost a marker.                           *)
IdleBeforeStop == \A r \in Releases :
  pass.on /\ pass.plan[r] = "stop" /\ row[r].routable /\ crashes = 0
    => seenBusy[r] >= IdleTime - Refresh
================================================================================
