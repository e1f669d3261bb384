----------------------------- MODULE DeletedVaultRow -----------------------------
(***************************************************************************)
(* What becomes of the row of a vault that deletes itself, whoever asked:  *)
(* its holder, a start-over, or the sweep of vaults without a member, who  *)
(* marks the row first.  Once it has reported its deletion, the mailer fed *)
(* by the vaults table's stream claims the notice, mails it, keeps a       *)
(* record for the vault's phone (the tombstone) and removes the row, at    *)
(* once or in a follow-up when the parent's attachment sweep is over       *)
(* (lambda/jobs/vault-alarms.ts, jobs/cleanup.ts,                          *)
(* lambda/shared/vault-tombstone.ts; the answer to the phone:              *)
(* lambda/member/vault.ts, appCaller).  A credential-clone alarm may be on *)
(* its way when the deletion comes.                                        *)
(***************************************************************************)
EXTENDS Sequences, Naturals

CONSTANTS MaxFails   \* bound: failed emails and failed tombstone writes

VARIABLES
  row,        \* the vault row
  stream,     \* its images on the stream that pass the event source's filter
  at, image,  \* where the mailer is, and the image it works from
  tombstone,  \* the cause in vdeleted#<vault_id>, "none" while it is not there
  pointer,    \* the vault the member's pointer row names
  told,       \* history: what was mailed, or audited as not mailed
  fails, died,
  member      \* the member's row, and where the sweep of vaults without one is

vars == <<row, stream, at, image, tombstone, pointer, told, fails, died, member>>

\* alarm: its kind stands for its id; pending: alarm_pending; handled: alarm.handled_at;
\* sweep: att_sweep_pending; closing: account_deleted_at; asked:
\* deletion_requested_at; over: a start-over is executing.
Row == [state : {"live", "deleted", "gone"}, alarm : {"none", "clone", "deleted"},
        pending : BOOLEAN, handled : BOOLEAN, sweep : BOOLEAN, closing : BOOLEAN,
        asked : BOOLEAN, over : BOOLEAN]
Live == [state |-> "live", alarm |-> "none", pending |-> FALSE, handled |-> FALSE, sweep |-> FALSE,
         closing |-> FALSE, asked |-> FALSE, over |-> FALSE]
Gone == [Live EXCEPT !.state = "gone"]

Causes == {"account", "start_over", "vault"}

TypeOK ==
  /\ row \in Row /\ image \in Row /\ stream \in Seq(Row) /\ Len(stream) <= 4 + MaxFails
  /\ at \in {"idle", "mail", "rows", "followup", "handled", "pointer"}
  /\ tombstone \in Causes \cup {"none"} /\ member \in {"there", "gone", "pointer", "swept"} /\ pointer \in {"this", "none", "other"}
  /\ told \subseteq {"clone", "deleted"} /\ fails \in 0..MaxFails /\ died \in BOOLEAN

Init ==
  /\ row = Live /\ stream = <<>> /\ at = "idle" /\ image = Live /\ tombstone = "none" /\ member = "there"
  /\ pointer = "this" /\ told = {} /\ fails = 0 /\ died = FALSE

Swept(r) ==   \* mutated form: whether its notice was handled or not
  r.state = "deleted" /\ r.alarm = "deleted" /\ ~r.sweep

\* A deleted row whose notice was handled and whose sweep is done.
SweptAndHandled(r) ==
  r.state = "deleted" /\ r.alarm = "deleted" /\ ~r.pending /\ r.handled /\ ~r.sweep

\* A write of the row; the event source sees it if its filter lets it through.
Write(r) == /\ row' = r
            /\ stream' = IF r.pending \/ SweptAndHandled(r) THEN Append(stream, r) ELSE stream
NoWrite  == UNCHANGED <<row, stream>>

--------------------------------------------------------------------------------
(* The host, and the member. *)

HostReportsClone ==
  /\ row.state = "live" /\ row.alarm = "none"
  /\ Write([row EXCEPT !.alarm = "clone", !.pending = TRUE])
  /\ UNCHANGED <<at, image, tombstone, pointer, told, fails, died, member>>

HostReportsDeleted ==
  /\ row.state = "live"
  /\ \E s \in BOOLEAN : Write([row EXCEPT !.state = "deleted", !.alarm = "deleted",
                                          !.pending = TRUE, !.handled = FALSE, !.sweep = s])
  /\ UNCHANGED <<at, image, tombstone, pointer, told, fails, died, member>>

HostSwept ==
  /\ row.sweep /\ Write([row EXCEPT !.sweep = FALSE])
  /\ UNCHANGED <<at, image, tombstone, pointer, told, fails, died, member>>

\* A new enrolment, once this vault is deleted or gone (vaultForEnrollment).
MemberEnrols ==
  /\ member = "there" /\ row.state # "live" /\ pointer # "other" /\ pointer' = "other"
  /\ NoWrite /\ UNCHANGED <<at, image, tombstone, told, fails, died, member>>

StartOverExecutes ==
  /\ member = "there" /\ row.state = "live" /\ ~row.over
  /\ Write([row EXCEPT !.over = TRUE, !.asked = TRUE])
  /\ UNCHANGED <<at, image, tombstone, pointer, told, fails, died, member>>

--------------------------------------------------------------------------------
(* deleteVaults(): the vaults of a member without a row are marked, then   *)
(* asked; then the pointer goes.  A failed mark holds nothing up; the      *)
(* retry marks the row later.                                              *)

MemberGone ==
  /\ member = "there" /\ pointer # "other" /\ member' = "gone"
  /\ NoWrite /\ UNCHANGED <<at, image, tombstone, pointer, told, fails, died>>

\* The mark is not put on a row that is deleted; the ask is on any row that is there.
Marked == IF row.state = "live" THEN [row EXCEPT !.closing = TRUE] ELSE row
Asked(r) == IF r.state = "gone" THEN NoWrite ELSE Write([r EXCEPT !.asked = TRUE])

SweepMarks ==
  /\ member = "gone" /\ member' = "pointer"
  /\ \/ Asked(Marked) /\ UNCHANGED fails
     \/ Asked(row) /\ fails < MaxFails /\ fails' = fails + 1
  /\ UNCHANGED <<at, image, tombstone, pointer, told, died>>

SweepPointer ==
  /\ member = "pointer" /\ member' = "swept" /\ pointer' = "none"
  /\ NoWrite /\ UNCHANGED <<at, image, tombstone, told, fails, died>>

\* markRetried(): a later run, once the row says it was asked.
RetryMarks ==
  /\ member = "swept" /\ row.asked /\ row.state = "live" /\ ~row.closing /\ ~row.over
  /\ Asked(Marked)
  /\ UNCHANGED <<at, image, tombstone, pointer, told, fails, died, member>>

--------------------------------------------------------------------------------
(* processRecord(), one record of the vault after the other. *)

ClaimsAny(r) == row.pending                       \* mutated form: whichever alarm it is
Claims(r) == row.pending /\ row.alarm = r.alarm

TakeRecord ==
  /\ at = "idle" /\ stream # <<>>
  /\ image' = Head(stream)
  /\ IF SweptAndHandled(image')
     THEN at' = "followup" /\ row' = row /\ stream' = Tail(stream)
     ELSE IF Claims(image')
     THEN at' = "mail" /\ row' = [row EXCEPT !.pending = FALSE] /\ stream' = Tail(stream)
     ELSE at' = "idle" /\ row' = row /\ stream' = Tail(stream)
  /\ UNCHANGED <<tombstone, pointer, told, fails, died, member>>

AfterNotice == IF image.alarm = "deleted" THEN "rows" ELSE "idle"

\* Mailed, or not to be mailed (no member, a day's limit, rejected): audited either way.
MailNotice ==
  /\ at = "mail"
  /\ told' = told \cup {image.alarm}
  /\ at' = AfterNotice
  /\ NoWrite /\ UNCHANGED <<image, tombstone, pointer, fails, died, member>>

\* A failed send puts the claim back, unless a newer alarm took over; the write is a record.
MailFails ==
  /\ at = "mail" /\ fails < MaxFails
  /\ fails' = fails + 1
  /\ IF row.alarm = image.alarm THEN Write([row EXCEPT !.pending = TRUE]) ELSE NoWrite
  /\ at' = "idle"
  /\ UNCHANGED <<image, tombstone, pointer, told, died, member>>

--------------------------------------------------------------------------------
(* removeVaultRow(): the tombstone first; then the row, if it is still     *)
(* deleted and its sweep is over.  After the notice ("rows") a row that    *)
(* stays is stamped handled; in the follow-up the failure is thrown.       *)

tombstoneCause(r) ==
  IF r.closing \/ (r.asked /\ ~r.over) THEN "account" ELSE IF r.over THEN "start_over" ELSE "vault"

TombstoneNone == tombstone             \* mutated form: the row goes, no record is put
PutTombstone  == tombstoneCause(image)

Removable == row.state = "deleted" /\ ~row.sweep

RemoveRow ==
  /\ at \in {"rows", "followup"} /\ ~image.sweep
  /\ tombstone' = PutTombstone
  /\ IF Removable
     THEN row' = Gone /\ at' = IF at = "rows" THEN "pointer" ELSE "idle"
     ELSE row' = row /\ at' = IF at = "rows" THEN "handled" ELSE "idle"
  /\ UNCHANGED <<stream, image, pointer, told, fails, died, member>>

\* Thrown in the follow-up: the stream brings the record again.
TombstoneFails ==
  /\ at \in {"rows", "followup"} /\ ~image.sweep /\ fails < MaxFails
  /\ fails' = fails + 1
  /\ IF at = "rows"
     THEN at' = "handled" /\ UNCHANGED stream
     ELSE at' = "idle" /\ stream' = <<image>> \o stream
  /\ UNCHANGED <<row, image, tombstone, pointer, told, died, member>>

StillSweeping ==
  /\ at = "rows" /\ image.sweep /\ at' = "handled"
  /\ NoWrite /\ UNCHANGED <<image, tombstone, pointer, told, fails, died, member>>

MarkHandled ==
  /\ at = "handled"
  /\ IF row.alarm = image.alarm THEN Write([row EXCEPT !.handled = TRUE]) ELSE NoWrite
  /\ at' = "pointer"
  /\ UNCHANGED <<image, tombstone, pointer, told, fails, died, member>>

PointerAny   == "none"                             \* mutated form: whichever vault it names
PointerAfter == IF pointer = "this" THEN "none" ELSE pointer

RemovePointer ==
  /\ at = "pointer" /\ at' = "idle"
  /\ pointer' = PointerAfter
  /\ NoWrite /\ UNCHANGED <<image, tombstone, told, fails, died, member>>

\* The invocation stops; the stream brings the record again.
MailerDies ==
  /\ at # "idle" /\ ~died /\ died' = TRUE /\ at' = "idle"
  /\ stream' = <<image>> \o stream
  /\ UNCHANGED <<row, image, tombstone, pointer, told, fails, member>>

Next == \/ HostReportsClone \/ HostReportsDeleted \/ HostSwept \/ MemberEnrols \/ StartOverExecutes
        \/ MemberGone \/ SweepMarks \/ SweepPointer \/ RetryMarks
        \/ TakeRecord \/ MailNotice \/ MailFails \/ RemoveRow \/ TombstoneFails
        \/ StillSweeping \/ MarkHandled \/ RemovePointer \/ MailerDies

Spec == Init /\ [][Next]_vars

--------------------------------------------------------------------------------
(* What the phone of the vault is told, after its signature (appCaller).   *)
AnswerPointerFirst ==   \* mutated form: the member and the pointer are looked at before the mark
  CASE row.state = "deleted" \/ (row.state = "gone" /\ tombstone # "none") -> "410 vault_deleted"
    [] row.state = "live" /\ row.closing /\ pointer = "this" -> "410 account_deleted"
    [] row.state = "live" /\ pointer = "this" /\ member = "there" -> "served"
    [] OTHER -> "401"
Answer ==
  CASE row.state = "deleted" \/ (row.state = "gone" /\ tombstone # "none") -> "410 vault_deleted"
    [] row.state = "live" /\ row.closing -> "410 account_deleted"
    [] row.state = "live" /\ ~row.closing /\ pointer = "this" /\ member = "there" -> "served"
    [] OTHER -> "401"

(* Once the phone has a definite answer it has one to the end, first that  *)
(* its account is gone and then its vault; and the row goes only when its  *)
(* notice was mailed or audited and no sweep of the parent still needs it. *)
DefiniteAnswer ==   \* of every step
  /\ Answer = "410 vault_deleted" => Answer' = "410 vault_deleted"
  /\ Answer = "410 account_deleted" => Answer' \in {"410 account_deleted", "410 vault_deleted"}
  /\ row.state = "deleted" /\ row'.state = "gone" => "deleted" \in told /\ ~row.sweep

(* Once the stream is drained nothing of a deleted vault is left behind,   *)
(* unless an invocation stopped between its claim and its end.             *)
NothingLeftBehind ==
  stream = <<>> /\ at = "idle" /\ ~row.sweep /\ ~died =>
    row.state # "deleted" /\ (row.state = "gone" => pointer # "this")

(* A vault enrolled since keeps the member's pointer.                      *)
NewPointerKept == pointer = "other" => pointer' = "other"   \* of every step
================================================================================
