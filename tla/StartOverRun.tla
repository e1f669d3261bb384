------------------------------ MODULE StartOverRun ------------------------------
(***************************************************************************)
(* "Delete my vault and start over": the member's request and cancel, the  *)
(* reinstatement that cancels what was pending, and the runs that carry    *)
(* the deletion out (lambda/member/vault.ts, lambda/admin/people.ts,       *)
(* lambda/jobs/cleanup.ts).  The vault row and the member row are in two   *)
(* AWS accounts: no write covers both.                                     *)
(***************************************************************************)
EXTENDS Naturals

CONSTANT MaxRequests   \* bound: start-overs requested

VARIABLES
  row,      \* the vault row; listed: the index by member lists it by now
  account,  \* the member's standing
  sent,     \* whether a delete has been queued for the vault
  queue,    \* the host's operations not yet carried out
  fleet,    \* the service's switch; the leaseholder or an instance of the release, or the release removed
  erasure,  \* how far the vault itself is
  hand,     \* deleting_at by age (none yet for two minutes), a deletion_resumed_at within the hour; went: a resume was queued within the hour
  exec,     \* the five-minute run: where it is, and the deletion it read
  admin,    \* the reinstatement: where it is, and the deletion it read
  made,
  interrupted   \* history: the account was closed while this deletion was pending

vault == <<sent, queue, fleet, erasure, hand>>
vars  == <<row, account, vault, exec, admin, made, interrupted>>

\* asked: deletion_requested_at;  queued: deletion.queued_at.
NoDeletion == [id |-> 0, state |-> "none", due |-> FALSE, queued |-> FALSE]
Deletion   == [id : 0..MaxRequests, state : {"none", "pending", "executing"},
               due : BOOLEAN, queued : BOOLEAN]
Idle       == [at |-> "idle", id |-> 0]

TypeOK ==
  /\ row \in [deletion : Deletion, state : {"live", "deleted"}, asked : BOOLEAN, listed : BOOLEAN]
  /\ account \in {"active", "suspended", "gone"}
  /\ {sent, interrupted} \subseteq BOOLEAN /\ queue \subseteq {"delete", "delete_resume"}
  /\ fleet \in [on : BOOLEAN, at : {"none", "starting", "running", "removed"}]
  /\ erasure \in {"whole", "deleting", "stopped", "erased"}
  /\ hand \in [mark : {"none", "young", "old"}, resumed : BOOLEAN, went : BOOLEAN]
  /\ exec \in [at : {"idle", "standing", "write", "send", "ask", "mark", "resumed"}, id : 0..MaxRequests]
  /\ admin \in [at : {"idle", "cancel", "cancel_only", "write"}, id : 0..MaxRequests]
  /\ made \in 0..MaxRequests
  /\ row.deletion.queued => row.deletion.state = "executing"

Init ==
  /\ row = [deletion |-> NoDeletion, state |-> "live", asked |-> FALSE, listed |-> FALSE]
  /\ account = "active" /\ sent = FALSE /\ queue = {} /\ erasure = "whole"
  /\ fleet = [on |-> TRUE, at |-> "none"]
  /\ hand = [mark |-> "none", resumed |-> FALSE, went |-> FALSE]
  /\ exec = Idle /\ admin = Idle
  /\ made = 0 /\ interrupted = FALSE

Current == row.deletion
StillAny(id, state) == Current.state = state   \* mutated form: whichever deletion it is by now
Still(id, state) == Current.id = id /\ Current.state = state

--------------------------------------------------------------------------------
(* The member. *)

RequestDeletion ==
  /\ account = "active" /\ row.state = "live" /\ Current.state = "none" /\ made < MaxRequests
  /\ row' = [row EXCEPT !.deletion = [NoDeletion EXCEPT !.id = made + 1, !.state = "pending"]]
  /\ made' = made + 1 /\ interrupted' = FALSE
  /\ UNCHANGED <<account, vault, exec, admin>>

\* By the session or the app, whatever the standing, or by the link: of the deletion named.
CancelDeletion ==
  /\ account # "gone" /\ row.state = "live" /\ Current.state = "pending"
  /\ row' = [row EXCEPT !.deletion = NoDeletion]
  /\ UNCHANGED <<account, vault, exec, admin, made, interrupted>>

--------------------------------------------------------------------------------
(* The administrator. *)

Suspend ==
  /\ account = "active" /\ admin.at = "idle"
  /\ account' = "suspended"
  /\ interrupted' = (interrupted \/ Current.state = "pending")
  /\ UNCHANGED <<row, vault, exec, admin, made>>

\* memberVaultIds(): the pointer, read consistently, names the current vault; the index lags.
FoundByIndex == row.listed   \* mutated form: the pointer is not read
Found == TRUE

\* liveMemberVaultRows(): each id is read again; what the index says of a row is not used.
PendingFound == Found /\ row.state = "live" /\ Current.state = "pending"

\* Reinstate, or the cancel alone (VaultDeletionCancel): the first of its steps.
AdminRead ==
  /\ admin.at = "idle"
  /\ \/ account = "suspended" /\ ~PendingFound /\ admin' = [Idle EXCEPT !.at = "write"]
     \/ account = "suspended" /\ PendingFound /\ admin' = [at |-> "cancel", id |-> Current.id]
     \/ account # "gone" /\ PendingFound /\ admin' = [at |-> "cancel_only", id |-> Current.id]
  /\ UNCHANGED <<row, account, vault, exec, made, interrupted>>

\* "changed" is answered 409, and the account stays as it is.
Answered(cancelled) ==
  IF cancelled /\ admin.at = "cancel" THEN [Idle EXCEPT !.at = "write"] ELSE Idle

AdminCancel ==
  /\ admin.at \in {"cancel", "cancel_only"}
  /\ IF Still(admin.id, "pending")
     THEN row' = [row EXCEPT !.deletion = NoDeletion] /\ admin' = Answered(TRUE)
     ELSE admin' = Answered(FALSE) /\ UNCHANGED row
  /\ UNCHANGED <<account, vault, exec, made, interrupted>>

\* requestDeletionCancel(): anything but a whole answer ends the call, whatever the task did.
AdminUnanswered ==
  /\ admin.at \in {"cancel", "cancel_only"}
  /\ row' = IF Still(admin.id, "pending") THEN [row EXCEPT !.deletion = NoDeletion] ELSE row
  /\ admin' = Idle
  /\ UNCHANGED <<account, vault, exec, made, interrupted>>

ReinstateWrite ==
  /\ admin.at = "write"
  /\ account' = IF account = "suspended" THEN "active" ELSE account
  /\ admin' = Idle
  /\ UNCHANGED <<row, vault, exec, made, interrupted>>

MemberRemoved ==
  /\ account # "gone" /\ account' = "gone"
  /\ UNCHANGED <<row, vault, exec, admin, made, interrupted>>

--------------------------------------------------------------------------------
(* executeStartOvers(), every five minutes, one row. *)

ExecutorRead ==
  /\ exec.at = "idle" /\ row.state = "live"
  /\ \/ Current.state = "pending" /\ Current.due /\ ~row.asked
        /\ exec' = [at |-> "standing", id |-> Current.id]
     \/ Current.state = "executing" /\ ~Current.queued
        /\ exec' = [at |-> "send", id |-> Current.id]
  /\ UNCHANGED <<row, account, vault, admin, made, interrupted>>

\* A member row that could not be read holds it, as one that may not.
ReadStanding ==
  /\ exec.at = "standing"
  /\ \/ account = "active" /\ exec' = [exec EXCEPT !.at = "write"]
     \/ exec' = Idle
  /\ UNCHANGED <<row, account, vault, admin, made, interrupted>>

WriteExecuting ==
  /\ exec.at = "write"
  /\ IF Still(exec.id, "pending")
     THEN /\ row' = [row EXCEPT !.deletion.state = "executing"]
          /\ exec' = [exec EXCEPT !.at = "send"]
     ELSE exec' = Idle /\ UNCHANGED row
  /\ UNCHANGED <<account, vault, admin, made, interrupted>>

\* routeAsDelete(): the leaseholder, else an instance of the sealed release, a start asked for when none runs.
Reachable == fleet.on /\ fleet.at = "running"
Started   == IF fleet.on /\ fleet.at = "none" THEN [fleet EXCEPT !.at = "starting"] ELSE fleet

\* requestVaultDeletion(): deletion_requested_at is written whether the message went or not.
SendDelete ==
  /\ exec.at = "send"
  /\ \/ /\ Reachable /\ sent' = TRUE /\ queue' = queue \cup {"delete"}
        /\ exec' = [exec EXCEPT !.at = "mark"] /\ UNCHANGED fleet
     \/ exec' = [exec EXCEPT !.at = "ask"] /\ fleet' = Started /\ UNCHANGED <<sent, queue>>
  /\ UNCHANGED <<row, account, erasure, hand, admin, made, interrupted>>

AskedAndQueued == [row EXCEPT !.asked = TRUE, !.deletion.queued = TRUE]
AskedAlways    == AskedAndQueued   \* mutated form: queued_at whether queued or not
Asked          == [row EXCEPT !.asked = TRUE]

RecordAsk ==
  /\ exec.at \in {"ask", "mark"}
  /\ row' = IF row.state # "live" THEN row
            ELSE IF exec.at = "mark" /\ Current.id = exec.id THEN AskedAndQueued ELSE Asked
  /\ exec' = Idle
  /\ UNCHANGED <<account, vault, admin, made, interrupted>>

ExecutorDies ==
  /\ exec.at # "idle" /\ exec' = Idle
  /\ UNCHANGED <<row, account, vault, admin, made, interrupted>>

\* retryVaultDeletions(), daily: whatever was asked and is not deleted.
RetryAsked ==
  /\ row.state = "live" /\ row.asked
  /\ \/ Reachable /\ sent' = TRUE /\ queue' = queue \cup {"delete"} /\ UNCHANGED fleet
     \/ fleet' = Started /\ UNCHANGED <<sent, queue>>
  /\ UNCHANGED <<row, account, erasure, hand, exec, admin, made, interrupted>>

--------------------------------------------------------------------------------
(* resumeDeletions(), after the start-overs of the same run: a deletion the *)
(* vault marked, at least two minutes ago, and that is not reported.  The   *)
(* mark is the host's word.                                                 *)

ResumeDue == hand.mark = "young" \/ (hand.mark = "old" /\ ~hand.resumed)
ResumeAsDelete == "delete"          \* mutated form: the operation the mark's vault was sent before
ResumeOp       == "delete_resume"

RecordAnyway(queued) == TRUE        \* mutated form: deletion_resumed_at whatever came of it
RecordIf(queued) == queued

\* sendDeleteResume(): where a delete would go.
SendResume ==
  /\ exec.at = "idle" /\ row.state = "live" /\ ResumeDue
  /\ \E queued \in {Reachable, FALSE} :
       /\ queue' = queue \cup (IF queued THEN {ResumeOp} ELSE {})
       /\ fleet' = IF queued THEN fleet ELSE Started
       /\ sent' = (sent \/ (queued /\ ResumeOp = "delete"))
       /\ hand' = [hand EXCEPT !.went = (@ \/ queued)]
       /\ exec' = IF RecordIf(queued) THEN [Idle EXCEPT !.at = "resumed"] ELSE exec
  /\ UNCHANGED <<row, account, erasure, admin, made, interrupted>>

RecordResume ==
  /\ exec.at = "resumed" /\ exec' = Idle
  /\ hand' = [hand EXCEPT !.resumed = TRUE]
  /\ UNCHANGED <<row, account, sent, queue, fleet, erasure, admin, made, interrupted>>

--------------------------------------------------------------------------------
(* The rest of the system: the clock, the vault and its host. *)

IndexLists ==
  /\ ~row.listed /\ row' = [row EXCEPT !.listed = TRUE]
  /\ UNCHANGED <<account, vault, exec, admin, made, interrupted>>

DayPasses ==
  /\ Current.state = "pending" /\ ~Current.due /\ row.listed
  /\ row' = [row EXCEPT !.deletion.due = TRUE]
  /\ UNCHANGED <<account, vault, exec, admin, made, interrupted>>

\* An hour passes; no run takes as long.
MarkAges ==
  /\ row.state = "live" /\ exec.at # "resumed" /\ hand.mark # "none"
  /\ hand' = [mark |-> "old", resumed |-> FALSE, went |-> FALSE]
  /\ UNCHANGED <<row, account, sent, queue, fleet, erasure, exec, admin, made, interrupted>>

\* The host's mark, at the vault's marking flush or of its own, and RESUME_AFTER_S.
HostMarks ==
  /\ row.state = "live" /\ row.listed /\ hand.mark = "none" /\ hand' = [hand EXCEPT !.mark = "young"]
  /\ UNCHANGED <<row, account, sent, queue, fleet, erasure, exec, admin, made, interrupted>>

\* The enclave resumes only a deletion the vault's own header records.
VaultTakes ==
  /\ \E op \in queue :
       /\ queue' = queue \ {op}
       /\ erasure' = IF erasure = "stopped" \/ (erasure = "whole" /\ op = "delete") THEN "deleting" ELSE erasure
  /\ UNCHANGED <<row, account, sent, fleet, hand, exec, admin, made, interrupted>>

VaultStopsOrErases ==
  /\ erasure = "deleting" /\ erasure' \in {"stopped", "erased"}
  /\ UNCHANGED <<row, account, sent, queue, fleet, hand, exec, admin, made, interrupted>>

VaultReports ==
  /\ erasure = "erased" /\ row.state = "live" /\ row' = [row EXCEPT !.state = "deleted"]
  /\ UNCHANGED <<account, vault, exec, admin, made, interrupted>>

\* The administrators' switch; the fleet as the scaler and the vault leave it.
PauseOrResume ==
  /\ row.state = "live" /\ fleet' = [fleet EXCEPT !.on = ~@]
  /\ UNCHANGED <<row, account, sent, queue, erasure, hand, exec, admin, made, interrupted>>

FleetMoves ==
  /\ row.state = "live"
  /\ \/ fleet.at = "starting" /\ fleet' = [fleet EXCEPT !.at = "running"]
     \/ fleet.at = "running" /\ fleet' = [fleet EXCEPT !.at = "none"]
     \/ fleet.at \in {"none", "running"} /\ fleet' = [fleet EXCEPT !.at = "removed"]
  /\ UNCHANGED <<row, account, sent, queue, erasure, hand, exec, admin, made, interrupted>>

MemberNext   == RequestDeletion \/ CancelDeletion
AdminNext    == Suspend \/ AdminRead \/ AdminCancel \/ AdminUnanswered \/ ReinstateWrite \/ MemberRemoved
ExecutorNext == ExecutorRead \/ ReadStanding \/ WriteExecuting \/ SendDelete \/ RecordAsk
                \/ SendResume \/ RecordResume
WorldNext    == IndexLists \/ DayPasses \/ MarkAges \/ HostMarks \/ VaultTakes \/ VaultStopsOrErases \/ VaultReports
                \/ PauseOrResume \/ FleetMoves
Next == MemberNext \/ AdminNext \/ ExecutorNext \/ ExecutorDies \/ RetryAsked \/ WorldNext

Spec == Init /\ [][Next]_vars

--------------------------------------------------------------------------------
(* A start-over is begun only when its own 24 hours are over; and one that *)
(* was pending when the account was closed is not begun on an account that *)
(* is active again: the member gets the full 24 hours to cancel (people.ts,*)
(* Reinstate; cleanup.ts, executeStartOvers).                              *)
Begins == Current.state = "pending" /\ row'.deletion.state = "executing"

FullDay == Begins => Current.due /\ (interrupted => account # "active")   \* of every step

(* A vault is recorded as having had its delete queued only if it was: an  *)
(* executing start-over with no delete is tried at every run.              *)
QueuedIsSent == Current.queued => sent

(* A vault is erased only when a delete was queued for a start-over that    *)
(* was begun: the host's mark, which anyone on the host may write, and the  *)
(* resume it leads to erase nothing by themselves (resumeDeletions).        *)
ErasedAsAsked == erasure # "whole" => sent /\ Current.state = "executing"

(* A resume is put off for an hour only if one was queued within it: a run  *)
(* during a pause, or with no instance yet, leaves it to the next.          *)
PutOffAsSent == hand.resumed => hand.went
================================================================================
