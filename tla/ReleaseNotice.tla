----------------------------- MODULE ReleaseNotice -----------------------------
(***************************************************************************)
(* The daily notices about a vault release that ends and about an urgent   *)
(* security release that affects it: what is due, the vaults sealed to the *)
(* release, and the claim, mail and unclaim of each member's notice        *)
(* (lambda/jobs/vault-notices.ts).                                         *)
(***************************************************************************)
EXTENDS Integers, Sequences, FiniteSets, FiniteSetsExt

CONSTANTS Members,     \* members with a vault
          Runs,        \* invocations of the job at once: the day's, and its retry
          Milestones,  \* MILESTONE_DAYS, days before the end: 90, 30, 7, 1
          FirstDay,    \* days before the end on which the model starts
          Grace,       \* ENDED_GRACE_DAYS, 14
          UrgentDays,  \* URGENT_DAYS, 30
          Marker,      \* days a marker outlives the end, and those 30 days: 60
          LastDay,     \* bound: days modelled after the end
          MaxFaults    \* bound: failed emails and invocations that stop

VARIABLES
  left,     \* days until the release ends; 0 or less once it has
  status,   \* the release row
  rescue,   \* reopened for a rescue
  log,      \* the release log's urgent entry that lists it as affected
  sealed,   \* members whose vault is sealed to it
  claimed,  \* notices claimed, in the ratelimits table
  run,      \* invocations
  mails,    \* notices mailed, in order, of each member
  faults

vars == <<left, status, rescue, log, sealed, claimed, run, mails, faults>>

Ended   == 0
Urgent  == -1
Kinds   == Milestones \cup {Ended, Urgent}
Notices == Members \X Kinds

\* logEntry(): the entry, its days since it was published (-1: it is not yet), as far as they matter.
Age      == -1..UrgentDays + Marker + 1
LogEntry == [age : Age, listed : BOOLEAN]

Idle == [at |-> "idle", due |-> {}, kind |-> 0, todo |-> {}, member |-> "none"]

TypeOK ==
  /\ left \in -LastDay..FirstDay /\ status \in {"active", "deprecated", "retired", "removed"} /\ rescue \in BOOLEAN
  /\ log \in LogEntry /\ sealed \in SUBSET Members /\ claimed \in SUBSET Notices /\ faults \in 0..MaxFaults
  /\ run \in [Runs -> [at : {"idle", "list", "next", "mail", "release"}, due : SUBSET Kinds, kind : Kinds,
                       todo : SUBSET Members, member : Members \cup {"none"}]]
  /\ \A m \in Members : \A i \in 1..Len(mails[m]) : mails[m][i] \in Kinds

Init ==
  /\ left = FirstDay /\ status = "active" /\ rescue = FALSE /\ log = [age |-> -1, listed |-> TRUE]
  /\ sealed = Members /\ claimed = {}
  /\ run = [r \in Runs |-> Idle] /\ mails = [m \in Members |-> <<>>] /\ faults = 0

--------------------------------------------------------------------------------
(* What is due.                                                            *)

\* The release is read in the lists of these statuses; the active ones only name the newest.
Read(S) == {"deprecated", "retired", "removed"} \cap S # {} /\ status \in S

EndingMail == \* the latest milestone that has come
  IF left > 0 /\ Read({"deprecated", "retired"}) /\ \E d \in Milestones : left <= d
  THEN {Min({d \in Milestones : left <= d})} ELSE {}

EndedMailAlways == IF left <= 0 /\ Read({"removed"}) /\ ~rescue THEN {Ended} ELSE {}  \* mutated form: no last day
EndedMail == IF left <= 0 /\ Read({"removed"}) /\ ~rescue /\ -left <= Grace THEN {Ended} ELSE {}

dueMilestone == EndingMail \cup EndedMail

urgentReleasesAny == log.listed /\ log.age >= 0   \* mutated form: however long ago
urgentReleases    == log.listed /\ log.age \in 0..UrgentDays

\* fetchLog(): what cannot be fetched has no urgent entry; the rest goes on.
fetchLog == {urgentReleases, FALSE}

\* To releases that still run.
UrgentMail(urgent) == IF urgent /\ Read({"deprecated", "retired"}) THEN {Urgent} ELSE {}

--------------------------------------------------------------------------------
(* A run.                                                                  *)

Begin(r) ==
  /\ run[r].at = "idle"
  /\ \E urgent \in fetchLog :
       LET due == dueMilestone \cup UrgentMail(urgent) IN
         due # {} /\ run' = [run EXCEPT ![r] = [Idle EXCEPT !.at = "list", !.due = due]]
  /\ UNCHANGED <<left, status, rescue, log, sealed, claimed, mails, faults>>

\* sealedMembers(): of the milestone, and read again of the urgent release.
sealedMembers(r) ==
  /\ run[r].at = "list" /\ run[r].due # {}
  /\ LET k == Max(run[r].due) IN
       run' = [run EXCEPT ![r] = [run[r] EXCEPT !.at = "next", !.kind = k, !.due = @ \ {k}, !.todo = sealed]]
  /\ UNCHANGED <<left, status, rescue, log, sealed, claimed, mails, faults>>

ClaimedNot(m, k) == TRUE              \* mutated form: the put has no condition
Unclaimed(m, k)  == <<m, k>> \notin claimed

\* claim(), one member after the other.
Claim(r, m) ==
  /\ run[r].at = "next" /\ m \in run[r].todo
  /\ IF Unclaimed(m, run[r].kind)
     THEN /\ claimed' = claimed \cup {<<m, run[r].kind>>}
          /\ run' = [run EXCEPT ![r].at = "mail", ![r].member = m, ![r].todo = @ \ {m}]
     ELSE run' = [run EXCEPT ![r].todo = @ \ {m}] /\ UNCHANGED claimed
  /\ UNCHANGED <<left, status, rescue, log, sealed, mails, faults>>

\* A member who cannot be mailed keeps the claim.
Mail(r) ==
  /\ run[r].at = "mail"
  /\ LET m == run[r].member IN
     \/ mails' = [mails EXCEPT ![m] = Append(@, run[r].kind)] /\ UNCHANGED faults
        /\ run' = [run EXCEPT ![r].at = "next"]
     \/ faults < MaxFaults /\ faults' = faults + 1 /\ UNCHANGED mails
        /\ run' = [run EXCEPT ![r].at = "release"]
  /\ UNCHANGED <<left, status, rescue, log, sealed, claimed>>

\* The email failed: the next day's run tries again.
Release(r) ==
  /\ run[r].at = "release"
  /\ claimed' = claimed \ {<<run[r].member, run[r].kind>>}
  /\ run' = [run EXCEPT ![r].at = "next"]
  /\ UNCHANGED <<left, status, rescue, log, sealed, mails, faults>>

End(r) ==
  /\ run[r].at = "next" /\ run[r].todo = {}
  /\ run' = [run EXCEPT ![r] = IF @.due = {} THEN Idle ELSE [@ EXCEPT !.at = "list", !.member = "none"]]
  /\ UNCHANGED <<left, status, rescue, log, sealed, claimed, mails, faults>>

Stops(r) ==
  /\ run[r].at # "idle" /\ faults < MaxFaults /\ faults' = faults + 1
  /\ run' = [run EXCEPT ![r] = Idle]
  /\ UNCHANGED <<left, status, rescue, log, sealed, claimed, mails>>

--------------------------------------------------------------------------------
(* The release's row (manifest-sync), the published log, the vaults that   *)
(* move to a newer release (the host writes sealed_release), and the days. *)

ReleaseMoves ==
  /\ \/ status = "active" /\ left > 0 /\ status' \in {"deprecated", "retired"} /\ UNCHANGED rescue
     \/ status = "deprecated" /\ left > 0 /\ status' = "retired" /\ UNCHANGED rescue
     \/ status = "retired" /\ left <= 0 /\ status' = "removed" /\ UNCHANGED rescue
     \/ status = "removed" /\ ~rescue /\ rescue' = TRUE /\ UNCHANGED status
  /\ UNCHANGED <<left, log, sealed, claimed, run, mails, faults>>

LogMoves ==
  /\ \/ log.age = -1 /\ log' = [log EXCEPT !.age = 0]
     \/ log.age >= 0 /\ log.listed /\ log' = [log EXCEPT !.listed = FALSE]
  /\ UNCHANGED <<left, status, rescue, sealed, claimed, run, mails, faults>>

VaultMoves(m) ==
  /\ m \in sealed /\ sealed' = sealed \ {m}
  /\ UNCHANGED <<left, status, rescue, log, claimed, run, mails, faults>>

\* A marker is gone a while after the notice it claims can be due.
Expired(k) == IF k = Urgent THEN log.age >= UrgentDays + Marker ELSE -left >= Marker

\* An invocation ends within its day.
NextDay ==
  /\ left > -LastDay /\ left' = left - 1 /\ \A r \in Runs : run[r].at = "idle"
  /\ log' = IF log.age >= 0 /\ log.age + 1 \in Age THEN [log EXCEPT !.age = @ + 1] ELSE log
  /\ claimed' \in {claimed, {n \in claimed : ~Expired(n[2])}}
  /\ UNCHANGED <<status, rescue, sealed, run, mails, faults>>

RunNext(r) == \/ Begin(r) \/ sealedMembers(r) \/ Mail(r) \/ Release(r) \/ End(r) \/ Stops(r)
              \/ \E m \in Members : Claim(r, m)
Next == (\E r \in Runs : RunNext(r)) \/ ReleaseMoves \/ LogMoves \/ (\E m \in Members : VaultMoves(m)) \/ NextDay

Spec == Init /\ [][Next]_vars

--------------------------------------------------------------------------------
(* A member is never mailed one milestone twice, nor an earlier milestone  *)
(* after a later one, and of one urgent release once, whatever runs were   *)
(* missed, retried or stopped, and after the markers are gone              *)
(* (vault-notices.ts: "A run sends only the latest milestone that is due", *)
(* "mailed at most once").                                                 *)
NoticesCountDown == \A m \in Members :
  \A i, j \in 1..Len(mails[m]) :
    i < j => IF mails[m][j] = Urgent THEN mails[m][i] # Urgent
             ELSE mails[m][i] = Urgent \/ mails[m][i] > mails[m][j]
================================================================================
