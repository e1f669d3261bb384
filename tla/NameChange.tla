------------------------------- MODULE NameChange -------------------------------
(***************************************************************************)
(* A name change asked for in the app: the host records it on the vault    *)
(* row and the stream's job settles it once, applies it at most once in 30 *)
(* days and tells the vault (lambda/jobs/vault-names.ts).                  *)
(***************************************************************************)
EXTENDS Naturals, FiniteSets

CONSTANTS Jobs,         \* invocations of the job at once
          MaxRequests,  \* bound: name requests of the vault
          MaxFaults     \* bound: failed calls and invocations that stop

VARIABLES
  row,      \* vault row: its latest request (name_change), pending or not, and the latest result
  member,   \* member row: standing, version and age of name_changed_at, name_change_applied
  job,      \* invocations
  applied,  \* requests whose name was applied; those of the last 30 days
  faults    \* faults so far

vars == <<row, member, job, applied, faults>>

Seqs == 0..MaxRequests
Reasons == {"account", "invalid", "too_soon"}
Idle == [at |-> "idle", seq |-> 0, current |-> FALSE, stamp |-> 0, tries |-> 0, outcome |-> "none"]

TypeOK ==
  /\ row \in [seq : Seqs, pending : BOOLEAN, result : Seqs, status : {"none", "applied"} \cup Reasons,
              state : {"enrolled", "deleted"}, current : BOOLEAN]
  /\ member \in [active : BOOLEAN, stamp : Seqs, recent : BOOLEAN, appliedSeq : Seqs]
  /\ job \in [Jobs -> [at : {"idle", "current", "decide", "apply", "tell", "result", "throw"}, seq : Seqs,
                       current : BOOLEAN, stamp : Seqs, tries : 0..2, outcome : {"none", "applied"} \cup Reasons]]
  /\ applied \in [ever : SUBSET Seqs, recent : SUBSET Seqs] /\ faults \in 0..MaxFaults
  /\ row.result <= row.seq

Init ==
  /\ row = [seq |-> 0, pending |-> FALSE, result |-> 0, status |-> "none", state |-> "enrolled", current |-> TRUE]
  /\ member = [active |-> TRUE, stamp |-> 0, recent |-> FALSE, appliedSeq |-> 0]
  /\ job = [j \in Jobs |-> Idle] /\ applied = [ever |-> {}, recent |-> {}] /\ faults = 0

\* The host (external) records the app's request, whatever became of the one before.
Request ==
  /\ row.seq < MaxRequests /\ row.state # "deleted"
  /\ row' = [row EXCEPT !.seq = @ + 1, !.pending = TRUE]
  /\ UNCHANGED <<member, job, applied, faults>>

\* claim(): the stream's record is of the row's own request, and pending.
Claim(j) ==
  /\ job[j].at = "idle" /\ row.pending
  /\ row' = [row EXCEPT !.pending = FALSE]
  /\ job' = [job EXCEPT ![j] = [Idle EXCEPT !.at = "current", !.seq = row.seq]]
  /\ UNCHANGED <<member, applied, faults>>

\* isCurrentVault(): nothing else is read of a deleted vault's request.
ReadPointer(j) ==
  /\ job[j].at = "current"
  /\ job' = [job EXCEPT ![j].at = IF row.state = "deleted" THEN "tell" ELSE "decide",
                        ![j].current = row.current,
                        ![j].outcome = IF row.state = "deleted" THEN "account" ELSE "none"]
  /\ UNCHANGED <<row, member, applied, faults>>

DoneNever(j) == FALSE                                \* mutated form: a change of this request is not recognised
Done(j)      == member.appliedSeq = job[j].seq

\* decide(), on the member row as it is now.  A name may be malformed or the old one.
Decide(j) ==
  /\ job[j].at = "decide"
  /\ \E malformed \in BOOLEAN :
       LET outcome == IF ~member.active \/ ~job[j].current THEN "account"
                      ELSE IF Done(j) THEN "applied"
                      ELSE IF malformed THEN "invalid"
                      ELSE IF member.recent THEN "too_soon" ELSE "applied"
           settled == outcome # "applied" \/ Done(j) IN
       /\ malformed => job[j].seq \notin applied.ever    \* the request's names do not change between runs
       /\ job' = [job EXCEPT ![j].at = IF settled THEN "tell" ELSE "apply", ![j].outcome = outcome,
                             ![j].stamp = member.stamp]
  /\ UNCHANGED <<row, member, applied, faults>>

UnmovedAny(j) == TRUE                                \* mutated form: no condition on name_changed_at
Unmoved(j)    == member.stamp = job[j].stamp

\* apply(): only on the name_changed_at that was read; else it decides again, three times in all.
Apply(j) ==
  /\ job[j].at = "apply"
  /\ IF Unmoved(j)
     THEN /\ member' = [member EXCEPT !.stamp = job[j].seq, !.recent = TRUE, !.appliedSeq = job[j].seq]
          /\ applied' = [ever |-> applied.ever \cup {job[j].seq}, recent |-> applied.recent \cup {job[j].seq}]
          /\ job' = [job EXCEPT ![j].at = "tell"]
     ELSE /\ job' = [job EXCEPT ![j].at = IF job[j].tries = 2 THEN "throw" ELSE "decide",
                                ![j].tries = IF @ = 2 THEN 2 ELSE @ + 1]
          /\ UNCHANGED <<member, applied>>
  /\ UNCHANGED <<row, faults>>

\* The audit and, of an applied change, the email.
Tell(j) ==
  /\ job[j].at = "tell" /\ job' = [job EXCEPT ![j].at = "result"]
  /\ UNCHANGED <<row, member, applied, faults>>

NotLaterAny(j) == TRUE                               \* mutated form: an older result over a newer one
NotLater(j)    == row.result <= job[j].seq

\* writeResult(), unless a later request's result is there; then the push.
Result(j) ==
  /\ job[j].at = "result" /\ job' = [job EXCEPT ![j] = Idle]
  /\ row' = IF NotLater(j) THEN [row EXCEPT !.result = job[j].seq, !.status = job[j].outcome] ELSE row
  /\ UNCHANGED <<member, applied, faults>>

\* Any call before the result may fail, the email's transiently.
Fails(j) ==
  /\ job[j].at \in {"current", "decide", "apply", "tell", "result"} /\ faults < MaxFaults /\ faults' = faults + 1
  /\ job' = [job EXCEPT ![j].at = "throw"]
  /\ UNCHANGED <<row, member, applied>>

\* unclaim(), unless a newer request or a result for this one took over; the stream retries.
Unclaim(j) ==
  /\ job[j].at = "throw" /\ job' = [job EXCEPT ![j] = Idle]
  /\ row' = IF row.seq = job[j].seq /\ row.result < job[j].seq THEN [row EXCEPT !.pending = TRUE] ELSE row
  /\ UNCHANGED <<member, applied, faults>>

\* An invocation that stops leaves its claim.
Stops(j) ==
  /\ job[j].at # "idle" /\ faults < MaxFaults /\ faults' = faults + 1
  /\ job' = [job EXCEPT ![j] = Idle]
  /\ UNCHANGED <<row, member, applied>>

\* No invocation lives as long, and the stream retries a pending request within a day.
ThirtyDaysPass ==
  /\ ~row.pending /\ \A j \in Jobs : job[j].at = "idle"
  /\ member.recent /\ member' = [member EXCEPT !.recent = FALSE]
  /\ applied' = [applied EXCEPT !.recent = {}]
  /\ UNCHANGED <<row, job, faults>>

AccountStops ==
  /\ \/ member.active /\ member' = [member EXCEPT !.active = FALSE] /\ row' = row
     \/ row.state # "deleted" /\ row' = [row EXCEPT !.state = "deleted", !.current = FALSE] /\ member' = member
  /\ UNCHANGED <<job, applied, faults>>

JobNext(j) == Claim(j) \/ ReadPointer(j) \/ Decide(j) \/ Apply(j) \/ Tell(j) \/ Result(j) \/ Fails(j) \/ Unclaim(j) \/ Stops(j)
Next == Request \/ (\E j \in Jobs : JobNext(j)) \/ ThirtyDaysPass \/ AccountStops

Spec == Init /\ [][Next]_vars

--------------------------------------------------------------------------------
(* No two requests are applied within 30 days, with two jobs at two        *)
(* requests of the same vault (apply: conditional on name_changed_at).     *)
OneInThirtyDays == Cardinality(applied.recent) <= 1

(* What was applied is never reported invalid or too soon, however often   *)
(* the job is retried or stopped: the app would ask again for a name its   *)
(* connections already see (vault-names.ts:25 "a retry never turns an      *)
(* applied change into a refusal").  The account's standing comes first in *)
(* decide(), so a retry after it ended does report a refusal.              *)
AppliedNotRefused == row.status \in {"invalid", "too_soon"} => row.result \notin applied.ever

(* The result on the row is never an older request's over a newer one's.   *)
ResultForward == row'.result >= row.result   \* of every step
================================================================================
