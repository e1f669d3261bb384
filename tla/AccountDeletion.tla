----------------------------- MODULE AccountDeletion -----------------------------
(***************************************************************************)
(* The deletion of one member account: the member's request, the mailer    *)
(* of its confirmation, the link in that email that cancels it, an         *)
(* administrator's suspend, reinstate and delete, and the daily run that   *)
(* carries it out (lambda/member/account.ts, lambda/shared/                *)
(* account-deletion.ts, lambda/jobs/members-stream.ts, lambda/admin/       *)
(* people.ts, lambda/jobs/cleanup.ts).                                     *)
(*                                                                         *)
(* The account is two things no transaction covers: its row, and the       *)
(* sign-in user in Cognito, named by the address.  Everyone who writes     *)
(* both does it in steps, in an order meant to leave an active account     *)
(* able to sign in and a closed one unable to, whoever else is half way.   *)
(* The address can be requested again as soon as the row is gone.          *)
(***************************************************************************)
EXTENDS Naturals, TLAPS

CONSTANTS
  MaxDeletions, \* bound: deletions requested
  MaxFailures,  \* DELETION_MAIL_MAX_FAILURES
  LinkWaits,    \* is the link opened only after the request was answered?
  Suspends      \* does an administrator suspend the account?

ASSUME AccountAssumption ==
  /\ MaxDeletions \in Nat /\ MaxFailures \in Nat \ {0}
  /\ LinkWaits \in BOOLEAN /\ Suspends \in BOOLEAN

VARIABLES
  member,   \* the member row
  signin,   \* the sign-in user under the address, and whether it is enabled
  marker,   \* whose the address's uniqueness marker is
  vault,    \* the member's vault row, as far as it blocks a deletion
  at,       \* where each of the four invocations is
  seen      \* what it read of the row

VARIABLES used, died, ended   \* history: requests made, whether one died, who removed the row

vars == <<member, signin, marker, vault, at, seen, used, died, ended>>

--------------------------------------------------------------------------------
Procs == {"member", "link", "admin", "job"}

\* "sent": SES has accepted the confirmation, and mailed_at is not written yet.
Row == [status : {"active", "suspended", "canceled", "gone"}, del : 0..MaxDeletions,
        due : BOOLEAN, mail : {"none", "claimed", "sent", "mailed"}, failures : 0..MaxFailures]

Open == [status |-> "active", del |-> 0, due |-> FALSE, mail |-> "none", failures |-> 0]

TypeOK ==
  /\ member \in Row
  /\ signin \in {"enabled", "disabled", "none", "other"}
  /\ marker \in {"own", "none", "other"}
  /\ vault \in {"none", "unsealed", "sealed"}
  /\ at \in [Procs -> {"idle", "checked", "disable", "enable", "write", "recheck", "again",
                       "lost", "undo", "suspend", "delete_user", "delete_row", "vaults",
                       "unsealed", "row", "user"}]
  /\ seen \in [Procs -> Row]
  /\ used \in 0..MaxDeletions /\ died \in BOOLEAN /\ ended \in {"no", "job", "admin"}
  /\ member.del # 0 <=> member.status = "canceled"

Init ==
  /\ member = Open /\ signin = "enabled" /\ marker = "own" /\ vault = "none"
  /\ at = [p \in Procs |-> "idle"] /\ seen = [p \in Procs |-> Open]
  /\ used = 0 /\ died = FALSE /\ ended = "no"

Is(status) == member.status = status
At(p, pc)  == at[p] = pc

\* What an invocation decides on of the row it read; one that has ended has read nothing.
Used(p) == IF p = "job" THEN [member EXCEPT !.failures = 0]
           ELSE [Open EXCEPT !.status = member.status, !.del = member.del]

GoTo(p, pc) == /\ at' = [at EXCEPT ![p] = pc]
               /\ seen' = IF pc = "idle" THEN [seen EXCEPT ![p] = Open] ELSE seen
ReadRow(p, pc) == at' = [at EXCEPT ![p] = pc] /\ seen' = [seen EXCEPT ![p] = Used(p)]

\* The Cognito calls name the user by the address; a user that is not there is no error.
Enabled  == IF signin = "disabled" THEN "enabled" ELSE signin
Disabled == IF signin = "enabled" THEN "disabled" ELSE signin

OwnUser       == signin \in {"enabled", "disabled"}
OwnUserGone   == IF OwnUser THEN "none" ELSE signin
OwnMarkerAny  == "none"                          \* mutated form: by the address alone
OwnMarkerGone == IF marker = "own" THEN "none" ELSE marker

--------------------------------------------------------------------------------
(* POST /api/account/deletion: the vault check, one conditional write, sign-in. *)

RequestCheck ==
  /\ At("member", "idle") /\ Is("active") /\ vault # "sealed" /\ used < MaxDeletions
  /\ GoTo("member", "checked")
  /\ UNCHANGED <<member, signin, marker, vault, used, died, ended>>

\* A request takes a sign-in and an emailed code: no cancel of an earlier one lives so long.
RequestWrite ==
  /\ At("member", "checked") /\ At("link", "idle") /\ At("admin", "idle")
  /\ IF Is("active")
     THEN /\ member' = [Open EXCEPT !.status = "canceled", !.del = used + 1]
          /\ used' = used + 1
          /\ GoTo("member", "disable")
     ELSE GoTo("member", "idle") /\ UNCHANGED <<member, used>>
  /\ UNCHANGED <<signin, marker, vault, died, ended>>

\* A failed call leaves it to the daily run.
RequestDisable ==
  /\ At("member", "disable")
  /\ signin' \in {signin, Disabled}
  /\ GoTo("member", "idle")
  /\ UNCHANGED <<member, marker, vault, used, died, ended>>

--------------------------------------------------------------------------------
(* The confirmation: claimed on the row, sent, recorded, each on condition *)
(* of the same deletion and claim.  A claim left by a mailer that stopped  *)
(* is not taken up again.                                                  *)

Mail(from, to, failures) ==
  /\ Is("canceled") /\ member.mail = from
  /\ member' = [member EXCEPT !.mail = to, !.failures = failures]
  /\ UNCHANGED <<signin, marker, vault, at, seen, used, died, ended>>

deletionToMail == Is("canceled") /\ member.mail = "none" /\ member.failures < MaxFailures

ClaimMail    == deletionToMail /\ Mail("none", "claimed", member.failures)
MailFails    == Mail("claimed", "none", member.failures + 1)
SendMail     == Mail("claimed", "sent", member.failures)
RecordMailed == Mail("sent", "mailed", member.failures)

--------------------------------------------------------------------------------
(* The cancel: by the link ("link"), by reinstating ("admin").             *)

\* The link is in the email; the admin cancels a pending start-over of the vault first.
\* Reinstating a suspended account enables sign-in once only, so it is taken to come after
\* whoever read the account as canceled before the suspension (seconds) is through.
CancelRead(p) ==
  /\ At(p, "idle") /\ (LinkWaits => ~At("member", "disable"))
  /\ \/ p = "link" /\ Is("canceled") /\ member.mail \in {"sent", "mailed"}
     \/ p = "admin" /\ Is("canceled")
     \/ p = "admin" /\ Is("suspended") /\ At("link", "idle") /\ At("job", "idle")
  /\ ReadRow(p, "enable")
  /\ UNCHANGED <<member, signin, marker, vault, used, died, ended>>

EnableFirst(p) ==
  /\ At(p, "enable")
  /\ signin' = Enabled
  /\ GoTo(p, "write")
  /\ UNCHANGED <<member, marker, vault, used, died, ended>>

StillSo(p) == member.status = seen[p].status /\ member.del = seen[p].del
Cancels(p) == seen[p].status = "canceled"

\* The write removes the deletion's record with everything in it.
ActiveRowKept == [member EXCEPT !.status = "active"]   \* mutated form: the record is left
ActiveRow == Open

Reactivate(p) ==
  /\ p \in {"link", "admin"} /\ At(p, "write")
  /\ IF StillSo(p)
     THEN member' = ActiveRow /\ GoTo(p, IF Cancels(p) THEN "recheck" ELSE "idle")
     ELSE UNCHANGED member /\ GoTo(p, IF Cancels(p) THEN "lost" ELSE "idle")
  /\ UNCHANGED <<signin, marker, vault, used, died, ended>>

AfterEnableDone(p) == "idle"   \* mutated form: the job goes to the next account
AfterEnable(p) == IF p = "job" THEN "vaults" ELSE "idle"

\* enableIfActive() and disableUnlessActive(): a read, then the call.
RecheckNever(p) ==   \* mutated form: sign-in is not enabled once more
  /\ At(p, "recheck") /\ GoTo(p, AfterEnable(p))
  /\ UNCHANGED <<member, signin, marker, vault, used, died, ended>>

Recheck(p) ==
  /\ At(p, "recheck")
  /\ GoTo(p, IF Is("active") THEN "again" ELSE AfterEnable(p))
  /\ UNCHANGED <<member, signin, marker, vault, used, died, ended>>

EnableAgain(p) ==
  /\ At(p, "again")
  /\ signin' = Enabled
  /\ GoTo(p, AfterEnable(p))
  /\ UNCHANGED <<member, marker, vault, used, died, ended>>

Lost(p) ==
  /\ At(p, "lost")
  /\ GoTo(p, IF Is("active") THEN "idle" ELSE "undo")
  /\ UNCHANGED <<member, signin, marker, vault, used, died, ended>>

UndoEnable(p) ==
  /\ At(p, "undo")
  /\ signin' = Disabled
  /\ GoTo(p, "idle")
  /\ UNCHANGED <<member, marker, vault, used, died, ended>>

--------------------------------------------------------------------------------
(* The administrator: suspend (also again, when suspended), delete.  One at a time. *)

SuspendRead ==
  /\ Suspends /\ At("admin", "idle") /\ member.status \in {"active", "suspended"}
  /\ ReadRow("admin", "suspend")
  /\ UNCHANGED <<member, signin, marker, vault, used, died, ended>>

SuspendWrite ==
  /\ At("admin", "suspend")
  /\ LET again == seen["admin"].status = "suspended"
     IN  /\ GoTo("admin", IF again \/ Is("active") THEN "disable" ELSE "idle")
         /\ member' = IF ~again /\ Is("active") THEN [member EXCEPT !.status = "suspended"]
                                                ELSE member
  /\ UNCHANGED <<signin, marker, vault, used, died, ended>>

SuspendDisable ==
  /\ At("admin", "disable")
  /\ signin' = Disabled
  /\ GoTo("admin", "idle")
  /\ UNCHANGED <<member, marker, vault, used, died, ended>>

\* An administrator's delete counts a setup that was never sealed too.
DeleteRead ==
  /\ At("admin", "idle") /\ ~Is("gone") /\ vault = "none"
  /\ ReadRow("admin", "delete_user")
  /\ UNCHANGED <<member, signin, marker, vault, used, died, ended>>

\* The user is read and deleted in one step: Cognito has no conditional delete.
DeleteUser ==
  /\ At("admin", "delete_user")
  /\ signin' = OwnUserGone
  /\ GoTo("admin", "delete_row")
  /\ UNCHANGED <<member, marker, vault, used, died, ended>>

DeleteRow ==
  /\ At("admin", "delete_row")
  /\ marker' = OwnMarkerGone
  /\ member' = [Open EXCEPT !.status = "gone"]
  /\ ended' = IF Is("gone") THEN ended ELSE "admin"
  /\ GoTo("admin", "idle")
  /\ UNCHANGED <<signin, vault, used, died>>

--------------------------------------------------------------------------------
(* The daily run, for one canceled account. *)

JobRead ==
  /\ At("job", "idle") /\ Is("canceled")
  /\ ReadRow("job", IF OwnUser THEN "disable" ELSE "vaults")
  /\ UNCHANGED <<member, signin, marker, vault, used, died, ended>>

JobDisable ==
  /\ At("job", "disable")
  /\ signin' = Disabled
  /\ GoTo("job", "recheck")
  /\ UNCHANGED <<member, marker, vault, used, died, ended>>

\* Not due, a vault that is not never-sealed, or no confirmation recorded: held.
JobVaults ==
  /\ At("job", "vaults")
  /\ GoTo("job", IF ~seen["job"].due \/ vault = "sealed" \/ seen["job"].mail # "mailed"
                 THEN "idle" ELSE IF vault = "unsealed" THEN "unsealed" ELSE "row")
  /\ UNCHANGED <<member, signin, marker, vault, used, died, ended>>

StillUnsealedAny == TRUE   \* mutated form: the row read as never sealed goes by its key
StillUnsealed == vault # "sealed"

JobUnsealed ==
  /\ At("job", "unsealed")
  /\ IF StillUnsealed
     THEN vault' = "none" /\ GoTo("job", "row")
     ELSE UNCHANGED vault /\ GoTo("job", "idle")
  /\ UNCHANGED <<member, signin, marker, used, died, ended>>

StillDueAny == Is("canceled")   \* mutated form: whichever deletion it is by now
StillDue == Is("canceled") /\ member.due /\ member.del = seen["job"].del

JobRow ==
  /\ At("job", "row")
  /\ IF StillDue
     THEN /\ member' = [Open EXCEPT !.status = "gone"]
          /\ marker' = OwnMarkerGone
          /\ ended' = "job"
          /\ GoTo("job", "user")
     ELSE GoTo("job", "idle") /\ UNCHANGED <<member, marker, ended>>
  /\ UNCHANGED <<signin, vault, used, died>>

\* The sign-in user; the subscription, the pointer, the list's entry, the identity follow.
JobUser ==
  /\ At("job", "user")
  /\ signin' = OwnUserGone
  /\ GoTo("job", "idle")
  /\ UNCHANGED <<member, marker, vault, used, died, ended>>

--------------------------------------------------------------------------------
(* The rest of the system. *)

FirstRunComes ==   \* the 07:00 run at or after deletes_at has come
  /\ Is("canceled") /\ ~member.due
  /\ member' = [member EXCEPT !.due = TRUE]
  /\ UNCHANGED <<signin, marker, vault, at, seen, used, died, ended>>

VaultChanges ==    \* enrolled while active, sealed by its host, deleted by its own deletion
  /\ \/ Is("active") /\ vault = "none" /\ vault' = "unsealed"
     \/ vault = "unsealed" /\ vault' = "sealed"
     \/ vault = "sealed" /\ vault' = "none"
  /\ UNCHANGED <<member, signin, marker, at, seen, used, died, ended>>

AddressRequested ==
  /\ marker = "none" /\ marker' = "other"
  /\ UNCHANGED <<member, signin, vault, at, seen, used, died, ended>>

\* Reviewed by a person: no cancel or delete of the old account lives so long.
AddressApproved ==
  /\ marker = "other" /\ signin = "none" /\ signin' = "other"
  /\ At("link", "idle") /\ At("admin", "idle")
  /\ UNCHANGED <<member, marker, vault, at, seen, used, died, ended>>

\* One invocation stops half way (for the member's: RequestDisable that does nothing).
Dies(p) ==
  /\ ~At(p, "idle") /\ ~died
  /\ died' = TRUE
  /\ GoTo(p, "idle")
  /\ UNCHANGED <<member, signin, marker, vault, used, ended>>

RequestNext == RequestCheck \/ RequestWrite \/ RequestDisable
StreamNext  == ClaimMail \/ SendMail \/ MailFails \/ RecordMailed
CancelNext(p) == EnableFirst(p) \/ Reactivate(p) \/ Lost(p) \/ UndoEnable(p)
EnableNext(p) == Recheck(p) \/ EnableAgain(p)
SuspendNext == SuspendRead \/ SuspendWrite \/ SuspendDisable
DeleteNext  == DeleteRead \/ DeleteUser \/ DeleteRow
JobNext == \/ JobRead \/ JobDisable \/ EnableNext("job")
           \/ JobVaults \/ JobUnsealed \/ JobRow \/ JobUser
WorldNext == FirstRunComes \/ VaultChanges \/ AddressRequested \/ AddressApproved

Next == \/ RequestNext \/ StreamNext \/ SuspendNext \/ DeleteNext \/ JobNext \/ WorldNext
        \/ \E p \in {"link", "admin"} : CancelRead(p) \/ CancelNext(p) \/ EnableNext(p)
        \/ \E p \in Procs \ {"member"} : Dies(p)

Spec == Init /\ [][Next]_vars

(* The daily schedule runs the job to its end, the date comes, and a begun *)
(* cancel goes on; nobody has to cancel, suspend, enrol or apply.          *)
Fairness ==
  /\ WF_vars(JobNext) /\ WF_vars(FirstRunComes)
  /\ WF_vars(CancelNext("link") \/ EnableNext("link"))

FairSpec == Spec /\ Fairness

--------------------------------------------------------------------------------
(* Once nobody is half way, an active account can sign in, whoever         *)
(* cancelled, disabled and enabled it in whatever order, as long as every  *)
(* invocation ran to its end (enableIfActive, disableUnlessActive).        *)
Settled == \A p \in Procs : At(p, "idle")

ActiveCanSignIn == Settled /\ ~died /\ Is("active") => signin = "enabled"

(* The daily run removes only an account that is still closed by the       *)
(* deletion it read, whose confirmation went out and whose date has come,  *)
(* and it removes none whose vault was sealed when it looked again.        *)
DeletedAsAnnounced ==
  [][ended # "job" /\ ended' = "job" =>
       /\ Is("canceled") /\ member.mail = "mailed" /\ member.due
       /\ member.del = seen["job"].del]_vars

(* A vault that was sealed goes only by its own deletion: the removal of a *)
(* setup read as never sealed leaves one sealed since (cleanup.ts, (4)).   *)
SealedVaultKept == [][vault = "sealed" /\ vault' = "none" => at' = at]_vars

(* Who asks for the address after the account is gone keeps marker and     *)
(* sign-in user, whatever of the old account's removal is still under way. *)
NextHolderKept ==
  [][(marker = "other" => marker' = "other") /\ (signin = "other" => signin' = "other")]_vars

(* A confirmed deletion with no vault in the way is carried out or         *)
(* cancelled: a run that stopped anywhere is made up for by a later one.   *)
Confirmed(d) == member.del = d /\ member.mail = "mailed" /\ vault = "none"

DeletedInTheEnd == \A d \in 1..MaxDeletions : Confirmed(d) ~> member.del # d

(* "You cancelled the deletion of your VettID account. You can sign in     *)
(* again as before." (account-deletion.ts, deletionCancelledMail).  The    *)
(* request's own disable may still be to come when its link is used.       *)
CancelledCanSignIn == Settled /\ ~died /\ Is("active") => signin # "disabled"

--------------------------------------------------------------------------------
(***************************************************************************)
(* Theorems: what holds for every number of deletions and of failed        *)
(* emails, whether an administrator suspends the account or not.           *)
(***************************************************************************)

(* Typing: a claimed email has a failure left, and a checked request a deletion. *)

Bounds ==
  /\ member.mail = "claimed" => member.failures < MaxFailures
  /\ At("member", "checked") => used < MaxDeletions

TypeInv == TypeOK /\ Bounds

Pcs == {"idle", "checked", "disable", "enable", "write", "recheck", "again",
        "lost", "undo", "suspend", "delete_user", "delete_row", "vaults",
        "unsealed", "row", "user"}

LEMMA OpenTyped == Open \in Row
BY AccountAssumption DEF Open, Row

(* An invocation goes on, and the row it read stays, or is forgotten at its end. *)
LEMMA GoToTyped ==
  ASSUME TypeOK, NEW p \in Procs, NEW pc \in Pcs, GoTo(p, pc)
  PROVE  /\ at' \in [Procs -> Pcs] /\ seen' \in [Procs -> Row]
         /\ at'[p] = pc /\ \A q \in Procs \ {p} : at'[q] = at[q] /\ seen'[q] = seen[q]
         /\ pc # "idle" => seen'[p] = seen[p]
         /\ pc = "idle" => seen'[p] = Open
BY OpenTyped DEF TypeOK, GoTo, Pcs

(* An invocation reads the row. *)
LEMMA ReadTyped ==
  ASSUME TypeOK, NEW p \in Procs, NEW pc \in Pcs, ReadRow(p, pc)
  PROVE  /\ at' \in [Procs -> Pcs] /\ seen' \in [Procs -> Row]
         /\ at'[p] = pc /\ \A q \in Procs \ {p} : at'[q] = at[q] /\ seen'[q] = seen[q]
         /\ seen'[p].status = member.status /\ seen'[p].del = member.del
         /\ p = "job" => seen'[p].mail = member.mail
         /\ p # "job" => seen'[p].mail = "none"
<1>1. member \in Row
  BY DEF TypeOK
<1>2. /\ Used(p) \in Row /\ Used(p).status = member.status /\ Used(p).del = member.del
      /\ p = "job" => Used(p).mail = member.mail
      /\ p # "job" => Used(p).mail = "none"
  <2>1. CASE p = "job"
    <3>1. Used(p) = [member EXCEPT !.failures = 0]
      BY <2>1 DEF Used
    <3> QED
      BY <1>1, <2>1, <3>1, AccountAssumption DEF Row
  <2>2. CASE p # "job"
    <3>1. Used(p) = [status |-> member.status, del |-> member.del, due |-> FALSE,
                     mail |-> "none", failures |-> 0]
      BY <2>2 DEF Used, Open
    <3> QED
      BY <1>1, <2>2, <3>1, AccountAssumption DEF Row
  <2> QED
    BY <2>1, <2>2
<1>3. seen' = [seen EXCEPT ![p] = Used(p)] /\ at' = [at EXCEPT ![p] = pc]
  BY DEF ReadRow
<1> HIDE DEF Used
<1> QED
  BY <1>2, <1>3 DEF TypeOK, Pcs

LEMMA TypeInit == Init => TypeInv
<1> SUFFICES ASSUME Init
             PROVE  TypeInv
  OBVIOUS
<1>1. Open.status = "active" /\ Open.del = 0 /\ Open.mail = "none" /\ 0 \in 0..MaxDeletions
  BY AccountAssumption DEF Open
<1> QED
  BY <1>1, OpenTyped DEF Init, TypeInv, TypeOK, Bounds, At, Procs

(* The row a step leaves behind is one. *)
RowTyped ==
  /\ member' \in Row
  /\ member'.del # 0 <=> member'.status = "canceled"
  /\ member'.mail = "claimed" => member'.failures < MaxFailures

(* The parts of the state that a step of one invocation leaves typed. *)
RestTyped ==
  /\ signin' \in {"enabled", "disabled", "none", "other"}
  /\ marker' \in {"own", "none", "other"}
  /\ vault' \in {"none", "unsealed", "sealed"}
  /\ died' \in BOOLEAN /\ ended' \in {"no", "job", "admin"}

LEMMA RowKept == TypeInv /\ UNCHANGED member => RowTyped
BY DEF TypeInv, TypeOK, Bounds, RowTyped

LEMMA GoneTyped ==
  ASSUME member' = [Open EXCEPT !.status = "gone"]
  PROVE  RowTyped /\ member'.status = "gone" /\ member'.del = 0
<1>1. Open.del = 0 /\ Open.mail = "none"
  BY DEF Open
<1> QED
  BY <1>1, OpenTyped DEF Row, RowTyped

LEMMA StepTyped ==
  ASSUME TypeInv, RowTyped, RestTyped, used' \in 0..MaxDeletions,
         at' \in [Procs -> Pcs], seen' \in [Procs -> Row],
         At("member", "checked")' => used' < MaxDeletions
  PROVE  TypeInv'
BY DEF RowTyped, RestTyped, TypeInv, TypeOK, Bounds, Pcs

(* A step that moves one invocation other than the request's. *)
LEMMA MoveTyped ==
  ASSUME TypeInv, RowTyped, RestTyped, used' = used,
         NEW p \in Procs, p # "member", NEW pc \in Pcs, GoTo(p, pc) \/ ReadRow(p, pc)
  PROVE  TypeInv'
<1>1. TypeOK /\ "member" \in Procs
  BY DEF TypeInv, Procs
<1>2. /\ at' \in [Procs -> Pcs] /\ seen' \in [Procs -> Row]
      /\ at'["member"] = at["member"]
  BY <1>1, GoToTyped, ReadTyped
<1> QED
  BY <1>1, <1>2, StepTyped DEF TypeInv, TypeOK, Bounds, At

(* A step that moves none. *)
LEMMA StayTyped ==
  ASSUME TypeInv, RowTyped, RestTyped, UNCHANGED <<used, at, seen>>
  PROVE  TypeInv'
<1>1. at \in [Procs -> Pcs] /\ seen \in [Procs -> Row]
  BY DEF TypeInv, TypeOK, Pcs
<1> QED
  BY <1>1, StepTyped DEF TypeInv, TypeOK, Bounds, At

LEMMA TypeRequest == TypeInv /\ RequestNext => TypeInv'
<1> SUFFICES ASSUME TypeInv, RequestNext
             PROVE  TypeInv'
  OBVIOUS
<1>1. TypeOK /\ Bounds /\ "member" \in Procs
  BY DEF TypeInv, Procs
<1>2. RestTyped
  BY <1>1 DEF RequestNext, RequestCheck, RequestWrite, RequestDisable, Disabled, RestTyped,
              TypeOK
<1>3. CASE RequestCheck
  <2>1. GoTo("member", "checked") /\ "checked" \in Pcs
    BY <1>3 DEF RequestCheck, Pcs
  <2>2. /\ at' \in [Procs -> Pcs] /\ seen' \in [Procs -> Row]
    BY <1>1, <2>1, GoToTyped
  <2>3. used' = used /\ used < MaxDeletions /\ RowTyped
    BY <1>3, RowKept DEF RequestCheck
  <2> QED
    BY <1>1, <1>2, <2>2, <2>3, StepTyped DEF TypeOK
<1>4. CASE RequestWrite /\ Is("active")
  <2>1. used + 1 \in 0..MaxDeletions /\ used + 1 # 0
    BY <1>1, <1>4, AccountAssumption DEF RequestWrite, Bounds, TypeOK
  <2>2. RowTyped
    <3>1. member' = [status |-> "canceled", del |-> used + 1, due |-> FALSE, mail |-> "none",
                     failures |-> 0]
      BY <1>4 DEF RequestWrite, Open
    <3> QED
      BY <2>1, <3>1, AccountAssumption DEF Row, RowTyped
  <2>3. GoTo("member", "disable") /\ used' = used + 1 /\ "disable" \in Pcs
    BY <1>4 DEF RequestWrite, Pcs
  <2>4. /\ at' \in [Procs -> Pcs] /\ seen' \in [Procs -> Row] /\ at'["member"] = "disable"
    BY <1>1, <2>3, GoToTyped
  <2> QED
    BY <1>2, <2>1, <2>2, <2>3, <2>4, StepTyped DEF At
<1>5. CASE (RequestWrite /\ ~Is("active")) \/ RequestDisable
  <2>1. /\ GoTo("member", "idle") /\ UNCHANGED <<member, used>> /\ "idle" \in Pcs
    BY <1>5 DEF RequestWrite, RequestDisable, Pcs
  <2>2. /\ at' \in [Procs -> Pcs] /\ seen' \in [Procs -> Row] /\ at'["member"] = "idle"
    BY <1>1, <2>1, GoToTyped
  <2> QED
    BY <1>1, <1>2, <2>1, <2>2, RowKept, StepTyped DEF At, TypeOK
<1> QED
  BY <1>3, <1>4, <1>5 DEF RequestNext

(* What a step of the mailer leaves of the row. *)
LEMMA MailTyped ==
  ASSUME TypeInv, StreamNext
  PROVE  /\ RowTyped /\ UNCHANGED <<signin, marker, vault, at, seen, used, died, ended>>
         /\ member'.status = "canceled" /\ member.status = "canceled"
         /\ member'.del = member.del
         /\ member'.mail = "mailed" \/ member.mail # "mailed"
<1>1. member \in Row /\ Bounds /\ TypeOK
  BY DEF TypeInv, TypeOK
<1>2. PICK from \in {"none", "claimed", "sent"}, to \in {"none", "claimed", "sent", "mailed"},
           failures \in 0..MaxFailures :
        /\ Mail(from, to, failures)
        /\ to = "claimed" => failures < MaxFailures
  <2>1. CASE ClaimMail
    BY <1>1, <2>1 DEF ClaimMail, deletionToMail, Row
  <2>2. CASE MailFails
    <3>1. member.failures + 1 \in 0..MaxFailures
      BY <1>1, <2>2, AccountAssumption DEF MailFails, Mail, Bounds, Row
    <3> QED
      BY <2>2, <3>1 DEF MailFails
  <2>3. CASE SendMail \/ RecordMailed
    BY <1>1, <2>3 DEF SendMail, RecordMailed, Row
  <2> QED
    BY <2>1, <2>2, <2>3 DEF StreamNext
<1>3. /\ member' = [member EXCEPT !.mail = to, !.failures = failures] /\ member.mail = from
      /\ member.status = "canceled"
      /\ UNCHANGED <<signin, marker, vault, at, seen, used, died, ended>>
  BY <1>2 DEF Mail, Is
<1>4. /\ member' \in Row /\ member'.status = member.status /\ member'.del = member.del
      /\ member'.mail = to /\ member'.failures = failures
  BY <1>1, <1>3 DEF Row
<1>5. RowTyped
  BY <1>1, <1>2, <1>4 DEF RowTyped, TypeOK
<1> QED
  BY <1>2, <1>3, <1>4, <1>5

LEMMA TypeStream == TypeInv /\ StreamNext => TypeInv'
<1> SUFFICES ASSUME TypeInv, StreamNext
             PROVE  TypeInv'
  OBVIOUS
<1>1. RowTyped /\ UNCHANGED <<signin, marker, vault, at, seen, used, died, ended>>
  BY MailTyped
<1>2. RestTyped
  BY <1>1 DEF RestTyped, TypeInv, TypeOK
<1> QED
  BY <1>1, <1>2, StayTyped

LEMMA TypeCancel ==
  ASSUME TypeInv, NEW p \in {"link", "admin", "job"},
         \/ CancelRead(p) \/ CancelNext(p)
         \/ EnableNext(p)
  PROVE  TypeInv'
<1>1. TypeOK /\ p \in Procs /\ p # "member"
  BY DEF TypeInv, Procs
<1>2. RestTyped /\ used' = used
  BY <1>1 DEF CancelRead, CancelNext, EnableNext, EnableFirst, Reactivate, Lost, UndoEnable,
              Recheck, EnableAgain, Enabled, Disabled, RestTyped, TypeOK
<1>3. RowTyped
  <2>1. CASE member' = member
    BY <2>1, RowKept
  <2>2. CASE member' = Open
    <3>1. Open.del = 0 /\ Open.status = "active" /\ Open.mail = "none"
      BY DEF Open
    <3> QED
      BY <2>2, <3>1, OpenTyped DEF RowTyped
  <2> QED
    BY <2>1, <2>2 DEF CancelRead, CancelNext, EnableNext, EnableFirst, Reactivate, Lost,
       UndoEnable, Recheck, EnableAgain, ActiveRow
<1>4. PICK pc \in Pcs : GoTo(p, pc) \/ ReadRow(p, pc)
  BY DEF CancelRead, CancelNext, EnableNext, EnableFirst, Reactivate, Lost, UndoEnable,
         Recheck, EnableAgain, AfterEnable, Pcs
<1> QED
  BY <1>1, <1>2, <1>3, <1>4, MoveTyped

LEMMA TypeAdmin == TypeInv /\ (SuspendNext \/ DeleteNext) => TypeInv'
<1> SUFFICES ASSUME TypeInv, SuspendNext \/ DeleteNext
             PROVE  TypeInv'
  OBVIOUS
<1> USE DEF SuspendNext, DeleteNext
<1>1. TypeOK /\ "admin" \in Procs /\ member \in Row
  BY DEF TypeInv, TypeOK, Procs
<1>2. RestTyped /\ used' = used
  BY <1>1 DEF SuspendRead, SuspendWrite, SuspendDisable, DeleteRead, DeleteUser, DeleteRow,
              Disabled, OwnUserGone, OwnMarkerGone, RestTyped, TypeOK
<1>3. RowTyped
  <2>1. CASE member' = member
    BY <2>1, RowKept
  <2>2. CASE member' = [member EXCEPT !.status = "suspended"] /\ member.status = "active"
    BY <1>1, <2>2 DEF RowTyped, Row, TypeInv, TypeOK, Bounds
  <2>3. CASE member' = [Open EXCEPT !.status = "gone"]
    BY <2>3, GoneTyped
  <2> QED
    BY <2>1, <2>2, <2>3
       DEF SuspendRead, SuspendWrite, SuspendDisable, DeleteRead, DeleteUser, DeleteRow, Is
<1>4. PICK pc \in Pcs : GoTo("admin", pc) \/ ReadRow("admin", pc)
  BY DEF SuspendRead, SuspendWrite, SuspendDisable, DeleteRead, DeleteUser, DeleteRow, Pcs
<1> QED
  BY <1>1, <1>2, <1>3, <1>4, MoveTyped

LEMMA TypeJob == TypeInv /\ JobNext => TypeInv'
<1> SUFFICES ASSUME TypeInv, JobNext, ~EnableNext("job")
             PROVE  TypeInv'
  BY TypeCancel
<1> USE DEF JobNext
<1>1. TypeOK /\ "job" \in Procs /\ member \in Row
  BY DEF TypeInv, TypeOK, Procs
<1>2. RestTyped /\ used' = used
  BY <1>1 DEF JobRead, JobDisable, JobVaults, JobUnsealed, JobRow, JobUser,
              Disabled, OwnUserGone, OwnMarkerGone, RestTyped, TypeOK
<1>3. RowTyped
  <2>1. CASE member' = member
    BY <2>1, RowKept
  <2>2. CASE member' = [Open EXCEPT !.status = "gone"]
    BY <2>2, GoneTyped
  <2> QED
    BY <2>1, <2>2 DEF JobRead, JobDisable, JobVaults, JobUnsealed, JobRow, JobUser
<1>4. PICK pc \in Pcs : GoTo("job", pc) \/ ReadRow("job", pc)
  BY DEF JobRead, JobDisable, JobVaults, JobUnsealed, JobRow, JobUser, Pcs
<1> QED
  BY <1>1, <1>2, <1>3, <1>4, MoveTyped

LEMMA TypeWorld ==
  ASSUME TypeInv, WorldNext \/ \E p \in Procs \ {"member"} : Dies(p)
  PROVE  TypeInv'
<1>1. TypeOK /\ member \in Row
  BY DEF TypeInv, TypeOK
<1>2. RestTyped /\ used' = used
  BY <1>1 DEF WorldNext, FirstRunComes, VaultChanges, AddressRequested, AddressApproved, Dies,
              RestTyped, TypeOK
<1>3. CASE FirstRunComes
  <2>1. RowTyped
    BY <1>1, <1>3 DEF FirstRunComes, RowTyped, Row, TypeInv, TypeOK, Bounds
  <2> QED
    BY <1>2, <1>3, <2>1, StayTyped DEF FirstRunComes
<1>4. CASE VaultChanges \/ AddressRequested \/ AddressApproved
  BY <1>2, <1>4, RowKept, StayTyped DEF VaultChanges, AddressRequested, AddressApproved
<1>5. ASSUME NEW p \in Procs \ {"member"}, Dies(p)
      PROVE  TypeInv'
  BY <1>2, <1>5, RowKept, MoveTyped DEF Dies, Pcs
<1> QED
  BY <1>3, <1>4, <1>5 DEF WorldNext

LEMMA TypeStep == TypeInv /\ [Next]_vars => TypeInv'
<1>1. TypeInv /\ UNCHANGED vars => TypeInv'
  BY DEF vars, TypeInv, TypeOK, Bounds, At
<1> QED
  BY <1>1, TypeRequest, TypeStream, TypeCancel, TypeAdmin, TypeJob, TypeWorld DEF Next

(* The row, the sign-in user, the marker and the vault are one of what they can *)
(* be, and a row has the record of a deletion just when it is closed by one.     *)
THEOREM Typing == Spec => []TypeOK
<1>1. Spec => []TypeInv
  BY TypeInit, TypeStep, PTL DEF Spec
<1>2. TypeInv => TypeOK
  BY DEF TypeInv
<1> QED
  BY <1>1, <1>2, PTL

--------------------------------------------------------------------------------
(* Where each invocation can be, and what those that write decide on. *)

Places ==
  /\ at["member"] \in {"idle", "checked", "disable"}
  /\ at["link"] \in {"idle", "enable", "write", "recheck", "again", "lost", "undo"}
  /\ at["admin"] \in {"idle", "enable", "write", "recheck", "again", "lost", "undo",
                      "suspend", "disable", "delete_user", "delete_row"}
  /\ at["job"] \in {"idle", "disable", "recheck", "again", "vaults", "unsealed", "row", "user"}

Reads ==
  /\ at["link"] \in {"enable", "write"} => seen["link"].status = "canceled"
  /\ at["admin"] \in {"enable", "write"} => seen["admin"].status \in {"canceled", "suspended"}
  /\ At("admin", "suspend") => seen["admin"].status \in {"active", "suspended"}

(* A row that is gone stays gone, and until the row is gone the marker is the *)
(* member's own; the sign-in user outlives the row, except for the moment of  *)
(* an administrator's delete between its two steps.                           *)
GoneFirst ==
  /\ marker # "own" => Is("gone")
  /\ At("job", "user") => Is("gone")
  /\ signin = "other" => Is("gone")
  /\ signin = "none" => Is("gone") \/ At("admin", "delete_row") \/ died

PlaceInv == Places /\ Reads /\ GoneFirst

(* The daily run removes the row on what it read: a recorded confirmation of *)
(* the deletion it read stays recorded as long as the row has that deletion, *)
(* and no later deletion has its number.                                     *)
Announced ==
  /\ at["job"] \in {"unsealed", "row"} => seen["job"].mail = "mailed"
  /\ seen["job"].mail = "mailed" /\ Is("canceled") /\ member.del = seen["job"].del =>
       member.mail = "mailed"
  /\ member.del <= used /\ seen["job"].del <= used

(* The request's own call is out of the way before its link is used. *)
MemberHalf ==
  At("member", "disable") =>
    /\ member.status \in {"canceled", "gone"} /\ At("link", "idle")
    /\ at["admin"] \in {"idle", "delete_user", "delete_row"}

(* While an administrator reinstates, nobody else is under way. *)
Reinstating ==
  at["admin"] \in {"enable", "write"} /\ seen["admin"].status = "suspended" =>
    /\ Is("suspended") /\ At("link", "idle") /\ At("job", "idle") /\ ~At("member", "disable")
    /\ At("admin", "write") => signin # "disabled"

Cancelling(p) == at[p] \in {"enable", "write"} /\ Cancels(p)

(* There is no second deletion under a cancel; and who lost its write to     *)
(* another only disables what is then not active, and will not be before it  *)
(* is through.                                                               *)
Cancelled ==
  /\ \A p \in {"link", "admin"} : Cancelling(p) /\ Is("canceled") => member.del = seen[p].del
  /\ at["link"] \in {"lost", "undo"} => ~Is("canceled")
  /\ At("link", "undo") => ~Is("active")
  /\ Cancelling("admin") => ~Is("suspended")
  /\ At("admin", "lost") => member.status \in {"active", "gone"}
  /\ At("admin", "undo") => Is("gone")

(* A suspension ends only by its administrator. *)
Suspending ==
  /\ At("admin", "suspend") /\ seen["admin"].status = "suspended" => Is("suspended")
  /\ At("admin", "disable") => Is("suspended")

(* Whoever leaves sign-in disabled under an active account looks again. *)
LooksAgain(p) == at[p] \in {"recheck", "again"}

Fixed == Is("active") /\ signin = "disabled" => \E p \in Procs : LooksAgain(p)

Whole == MemberHalf /\ Reinstating /\ Cancelled /\ Suspending /\ Fixed

(* Who was stopped half way leaves things as they were, and only then. *)
Inv == PlaceInv /\ Announced /\ (LinkWaits /\ ~died => Whole)

LEMMA InvInit == Init => Inv
<1> SUFFICES ASSUME Init
             PROVE  Inv
  OBVIOUS
<1>1. /\ member.del = 0 /\ member.mail = "none" /\ member.status = "active" /\ used = 0
      /\ \A p \in Procs : at[p] = "idle" /\ seen[p] = member
      /\ Procs = {"member", "link", "admin", "job"}
      /\ signin = "enabled" /\ marker = "own"
  BY DEF Init, Open, Procs
<1> QED
  BY <1>1 DEF Inv, PlaceInv, Places, Reads, GoneFirst, Announced, Whole, MemberHalf,
       Reinstating, Cancelled, Cancelling, Suspending, Fixed, At, Is

(* What a step of an invocation leaves as it was. *)
LEMMA GoneTo ==
  ASSUME TypeInv, NEW p \in Procs, NEW pc \in Pcs, GoTo(p, pc) \/ ReadRow(p, pc)
  PROVE  /\ at'[p] = pc
         /\ "member" # p => at'["member"] = at["member"] /\ seen'["member"] = seen["member"]
         /\ "link" # p => at'["link"] = at["link"] /\ seen'["link"] = seen["link"]
         /\ "admin" # p => at'["admin"] = at["admin"] /\ seen'["admin"] = seen["admin"]
         /\ "job" # p => at'["job"] = at["job"] /\ seen'["job"] = seen["job"]
         /\ GoTo(p, pc) /\ pc # "idle" => seen'[p] = seen[p]
         /\ GoTo(p, pc) /\ pc = "idle" => seen'[p].mail = "none" /\ seen'[p].del = 0
         /\ ReadRow(p, pc) => seen'[p].status = member.status /\ seen'[p].del = member.del
         /\ ReadRow(p, pc) /\ p = "job" => seen'[p].mail = member.mail
<1>1. TypeOK /\ {"member", "link", "admin", "job"} = Procs
  BY DEF TypeInv, Procs
<1>2. Open.mail = "none" /\ Open.del = 0
  BY DEF Open
<1> QED
  BY <1>1, <1>2, GoToTyped, ReadTyped

(* The member's request: from active to closed, with nobody else at the account. *)
LEMMA InvRequest == TypeInv /\ Inv /\ RequestNext => Inv'
<1> SUFFICES ASSUME TypeInv, Inv, RequestNext
             PROVE  Inv'
  OBVIOUS
<1>1. TypeOK /\ PlaceInv /\ Announced /\ "member" \in Procs /\ (LinkWaits /\ ~died => Whole)
  BY DEF TypeInv, Inv, Procs
<1>2. PICK pc \in {"idle", "checked", "disable"} :
        /\ GoTo("member", pc)
        /\ marker' = marker /\ signin' \in {signin, Disabled} /\ died' = died
        /\ signin' # signin => At("member", "disable")
        /\ pc = "disable" =>
             /\ Is("active") /\ At("link", "idle") /\ At("admin", "idle") /\ signin' = signin
             /\ member'.status = "canceled" /\ member'.del = used + 1 /\ used' = used + 1
        /\ pc # "disable" => member' = member /\ used' = used
  <2>1. CASE RequestCheck
    BY <2>1 DEF RequestCheck
  <2>2. CASE RequestWrite /\ Is("active")
    <3>1. member' = [Open EXCEPT !.status = "canceled", !.del = used + 1]
      BY <2>2 DEF RequestWrite
    <3>2. Open \in Row
      BY OpenTyped
    <3>3. member'.status = "canceled" /\ member'.del = used + 1
      BY <3>1, <3>2 DEF Row
    <3> QED
      BY <2>2, <3>3 DEF RequestWrite
  <2>3. CASE RequestWrite /\ ~Is("active")
    BY <2>3 DEF RequestWrite
  <2>4. CASE RequestDisable
    BY <2>4 DEF RequestDisable
  <2> QED
    BY <2>1, <2>2, <2>3, <2>4 DEF RequestNext
<1>3. /\ at'["member"] = pc
      /\ at'["link"] = at["link"] /\ at'["admin"] = at["admin"] /\ at'["job"] = at["job"]
      /\ seen'["link"] = seen["link"] /\ seen'["admin"] = seen["admin"]
      /\ seen'["job"] = seen["job"]
  BY <1>1, <1>2, GoneTo DEF Pcs
<1>4. PlaceInv'
  BY <1>1, <1>2, <1>3 DEF Disabled, PlaceInv, Places, Reads, GoneFirst, At, Is
<1>5. Announced'
  <2>1. /\ member.del \in Nat /\ used \in Nat /\ seen["job"].del \in Nat
    BY <1>1 DEF TypeOK, Row, Procs
  <2> QED
    BY <1>1, <1>2, <1>3, <2>1 DEF Announced, Is
<1>6. ASSUME LinkWaits, ~died, Whole
      PROVE  Whole'
  <2>1. MemberHalf' /\ Reinstating'
    BY <1>1, <1>2, <1>3, <1>6
       DEF Disabled, PlaceInv, Places, Whole, MemberHalf, Reinstating, At, Is
  <2>2. Cancelled' /\ Suspending'
    BY <1>1, <1>2, <1>3, <1>6
       DEF PlaceInv, Places, Whole, Cancelled, Suspending, Cancelling, Cancels, At, Is
  <2>3. Fixed'
    <3>1. Is("active")' => Is("active") /\ pc # "disable"
      BY <1>2 DEF Is
    <3>2. Is("active")' => signin' = signin
      BY <1>2, <1>6, <3>1 DEF Whole, MemberHalf, Is
    <3>3. \A q \in Procs : LooksAgain(q) => LooksAgain(q)'
      BY <1>1, <1>3 DEF LooksAgain, Procs, PlaceInv, Places
    <3> QED
      BY <1>6, <3>1, <3>2, <3>3 DEF Whole, Fixed
  <2> QED
    BY <2>1, <2>2, <2>3 DEF Whole
<1> QED
  BY <1>1, <1>2, <1>4, <1>5, <1>6 DEF Inv

(* The mailer and the world: no invocation moves. *)
LEMMA InvStill ==
  ASSUME TypeInv, Inv, UNCHANGED <<at, seen, used, died>>,
         member'.status = member.status, member'.del = member.del,
         member'.mail = "mailed" \/ member.mail # "mailed" \/ ~Is("canceled"),
         marker' = marker \/ Is("gone"), signin' = signin \/ Is("gone")
  PROVE  Inv'
<1>1. PlaceInv'
  BY DEF Inv, PlaceInv, Places, Reads, GoneFirst, At, Is
<1>2. Announced'
  BY DEF Inv, Announced, Is
<1>3. ASSUME Whole
      PROVE  Whole'
  <2>1. MemberHalf' /\ Suspending' /\ Cancelled'
    BY <1>3 DEF Whole, MemberHalf, Suspending, Cancelled, Cancelling, Cancels, At, Is
  <2>2. Reinstating' /\ Fixed'
    BY <1>3 DEF Whole, Reinstating, Fixed, LooksAgain, At, Is
  <2> QED
    BY <2>1, <2>2 DEF Whole
<1> QED
  BY <1>1, <1>2, <1>3 DEF Inv

LEMMA InvWorld == TypeInv /\ Inv /\ (StreamNext \/ WorldNext) => Inv'
<1> SUFFICES ASSUME TypeInv, Inv, StreamNext \/ WorldNext
             PROVE  Inv'
  OBVIOUS
<1>1. member \in Row /\ GoneFirst
  BY DEF TypeInv, TypeOK, Inv, PlaceInv
<1>2. CASE StreamNext
  BY <1>2, MailTyped, InvStill
<1>3. CASE FirstRunComes
  <2>1. member' = [member EXCEPT !.due = TRUE]
    BY <1>3 DEF FirstRunComes
  <2>2. member'.status = member.status /\ member'.del = member.del /\ member'.mail = member.mail
    BY <1>1, <2>1 DEF Row
  <2> QED
    BY <1>3, <2>2, InvStill DEF FirstRunComes
<1>4. CASE VaultChanges
  BY <1>4, InvStill DEF VaultChanges
<1>5. CASE AddressRequested \/ AddressApproved
  <2>1. Is("gone")
    BY <1>1, <1>5 DEF AddressRequested, AddressApproved, GoneFirst
  <2> QED
    BY <1>5, <2>1, InvStill DEF AddressRequested, AddressApproved
<1> QED
  BY <1>2, <1>3, <1>4, <1>5 DEF WorldNext

(* One that dies is at work nowhere, and nothing is claimed of the rest any more. *)
LEMMA InvDies == ASSUME TypeInv, Inv, NEW p \in Procs \ {"member"}, Dies(p) PROVE Inv'
<1>1. GoTo(p, "idle") /\ died' = TRUE /\ UNCHANGED <<member, signin, marker, used>>
  BY DEF Dies
<1>2. /\ at'[p] = "idle" /\ seen'[p].mail = "none" /\ seen'[p].del = 0
      /\ "member" # p => at'["member"] = at["member"] /\ seen'["member"] = seen["member"]
      /\ "link" # p => at'["link"] = at["link"] /\ seen'["link"] = seen["link"]
      /\ "admin" # p => at'["admin"] = at["admin"] /\ seen'["admin"] = seen["admin"]
      /\ "job" # p => at'["job"] = at["job"] /\ seen'["job"] = seen["job"]
  BY <1>1, GoneTo DEF Pcs
<1>3. p \in {"link", "admin", "job"} /\ used \in Nat
  BY DEF Procs, TypeInv, TypeOK
<1>4. PlaceInv'
  BY <1>1, <1>2, <1>3 DEF Inv, PlaceInv, Places, Reads, GoneFirst, At, Is
<1>5. Announced'
  BY <1>1, <1>2, <1>3 DEF Inv, Announced, Is
<1> QED
  BY <1>1, <1>4, <1>5 DEF Inv

(* Sign-in enabled once more: after it the fixer is done, or the account closed. *)
LEMMA InvEnable ==
  ASSUME TypeInv, Inv, NEW p \in {"link", "admin", "job"}, EnableNext(p)
  PROVE  Inv'
<1>1. /\ TypeOK /\ PlaceInv /\ Announced /\ p \in Procs
      /\ LinkWaits /\ ~died => Whole
  BY DEF TypeInv, Inv, Procs
<1>2. PICK pc \in {"idle", "vaults", "again"} :
        /\ GoTo(p, pc) /\ (pc = "vaults" <=> p = "job" /\ pc # "again")
        /\ \/ at[p] = "recheck" /\ signin' = signin /\ (pc = "again" <=> Is("active"))
           \/ at[p] = "again" /\ signin' = Enabled /\ pc # "again"
        /\ UNCHANGED <<member, marker, used, died>>
  BY DEF EnableNext, Recheck, EnableAgain, AfterEnable, At
<1>3. /\ at'[p] = pc
      /\ pc # "idle" => seen'[p] = seen[p]
      /\ pc = "idle" => seen'[p].mail = "none" /\ seen'[p].del = 0
      /\ at'["member"] = at["member"]
      /\ "link" # p => at'["link"] = at["link"] /\ seen'["link"] = seen["link"]
      /\ "admin" # p => at'["admin"] = at["admin"] /\ seen'["admin"] = seen["admin"]
      /\ "job" # p => at'["job"] = at["job"] /\ seen'["job"] = seen["job"]
  BY <1>1, <1>2, GoneTo DEF Pcs
<1>4. PlaceInv'
  BY <1>1, <1>2, <1>3 DEF Enabled, PlaceInv, Places, Reads, GoneFirst, At, Is
<1>5. Announced'
  BY <1>1, <1>2, <1>3 DEF Announced, Is, TypeOK
<1>6. ASSUME Whole
      PROVE  Whole'
  <2>1. MemberHalf' /\ Reinstating'
    BY <1>1, <1>2, <1>3, <1>6
       DEF Enabled, PlaceInv, Places, Whole, MemberHalf, Reinstating, At, Is
  <2>2. Cancelled' /\ Suspending'
    BY <1>1, <1>2, <1>3, <1>6
       DEF PlaceInv, Places, Whole, Cancelled, Suspending, Cancelling, Cancels, At, Is
  <2>3. Fixed'
    <3>1. \A q \in Procs : q # p => LooksAgain(q)' = LooksAgain(q)
      BY <1>3 DEF LooksAgain, Procs
    <3>2. CASE at[p] = "again"
      BY <1>2, <3>2 DEF Enabled, Fixed, Is
    <3>3. CASE at[p] = "recheck"
      BY <1>1, <1>2, <1>3, <3>3 DEF Fixed, LooksAgain, Is
    <3> QED
      BY <1>2, <3>2, <3>3
  <2> QED
    BY <2>1, <2>2, <2>3 DEF Whole
<1> QED
  BY <1>1, <1>2, <1>4, <1>5, <1>6 DEF Inv

(* A cancel of the deletion, or an administrator's reinstating. *)
LEMMA InvCancelRead ==
  ASSUME TypeInv, Inv, NEW p \in {"link", "admin"}, CancelRead(p)
  PROVE  Inv'
<1>1. /\ TypeOK /\ PlaceInv /\ Announced /\ p \in Procs
      /\ LinkWaits /\ ~died => Whole
  BY DEF TypeInv, Inv, Procs
<1>2. /\ at'[p] = "enable" /\ seen'[p].status = member.status /\ seen'[p].del = member.del
      /\ at'["member"] = at["member"]
      /\ "link" # p => at'["link"] = at["link"] /\ seen'["link"] = seen["link"]
      /\ "admin" # p => at'["admin"] = at["admin"] /\ seen'["admin"] = seen["admin"]
      /\ at'["job"] = at["job"] /\ seen'["job"] = seen["job"]
  BY <1>1, GoneTo DEF CancelRead, Pcs
<1>3. /\ UNCHANGED <<member, signin, marker, used, died>> /\ At(p, "idle")
      /\ LinkWaits => ~At("member", "disable")
      /\ p = "link" => Is("canceled")
      /\ p = "admin" => \/ Is("canceled")
                        \/ Is("suspended") /\ At("link", "idle") /\ At("job", "idle")
  BY DEF CancelRead
<1>4. PlaceInv' /\ Announced'
  BY <1>1, <1>2, <1>3 DEF PlaceInv, Places, Reads, GoneFirst, Announced, At, Is
<1>5. ASSUME LinkWaits, Whole
      PROVE  Whole'
  <2>1. MemberHalf' /\ Reinstating' /\ Suspending'
    BY <1>1, <1>2, <1>3, <1>5
       DEF Whole, MemberHalf, Reinstating, Suspending, At, Is
  <2>2. Cancelled'
    BY <1>1, <1>2, <1>3, <1>5 DEF Whole, Cancelled, Cancelling, Cancels, At, Is
  <2>3. Fixed'
    <3>1. \A q \in Procs : LooksAgain(q) => LooksAgain(q)'
      BY <1>2, <1>3 DEF LooksAgain, Procs, At
    <3> QED
      BY <1>3, <1>5, <3>1 DEF Whole, Fixed, Is
  <2> QED
    BY <2>1, <2>2, <2>3 DEF Whole
<1> QED
  BY <1>1, <1>3, <1>4, <1>5 DEF Inv

LEMMA InvCancel ==
  ASSUME TypeInv, Inv, NEW p \in {"link", "admin"}, CancelNext(p)
  PROVE  Inv'
<1>1. /\ TypeOK /\ PlaceInv /\ Announced /\ p \in Procs
      /\ LinkWaits /\ ~died => Whole
      /\ used \in Nat /\ member \in Row /\ member.del \in Nat
  BY DEF TypeInv, TypeOK, Inv, Procs, Row
<1>2. PICK pc \in {"idle", "write", "recheck", "lost", "undo"} :
        /\ GoTo(p, pc) /\ UNCHANGED <<marker, used, died>>
        /\ \/ /\ at[p] = "enable" /\ pc = "write" /\ signin' = Enabled /\ member' = member
           \/ /\ at[p] = "write" /\ StillSo(p) /\ signin' = signin /\ member' = Open
              /\ pc = IF Cancels(p) THEN "recheck" ELSE "idle"
           \/ /\ at[p] = "write" /\ ~StillSo(p) /\ signin' = signin /\ member' = member
              /\ pc = IF Cancels(p) THEN "lost" ELSE "idle"
           \/ /\ at[p] = "lost" /\ pc = (IF Is("active") THEN "idle" ELSE "undo")
              /\ signin' = signin /\ member' = member
           \/ /\ at[p] = "undo" /\ pc = "idle" /\ signin' = Disabled /\ member' = member
  BY DEF CancelNext, EnableFirst, Reactivate, Lost, UndoEnable, At, ActiveRow
<1>3. /\ at'[p] = pc
      /\ pc # "idle" => seen'[p] = seen[p]
      /\ pc = "idle" => seen'[p].mail = "none" /\ seen'[p].del = 0
      /\ at'["member"] = at["member"]
      /\ "link" # p => at'["link"] = at["link"] /\ seen'["link"] = seen["link"]
      /\ "admin" # p => at'["admin"] = at["admin"] /\ seen'["admin"] = seen["admin"]
      /\ at'["job"] = at["job"] /\ seen'["job"] = seen["job"]
  BY <1>1, <1>2, GoneTo DEF Pcs
<1>4. Open.status = "active" /\ Open.del = 0
  BY DEF Open
<1>5. at[p] \in {"enable", "write"} => seen[p].status \in {"canceled", "suspended"}
  BY <1>1 DEF PlaceInv, Reads
<1>6. PlaceInv'
  BY <1>1, <1>2, <1>3, <1>4, <1>5
     DEF Enabled, Disabled, StillSo, PlaceInv, Places, Reads, GoneFirst, At, Is
<1>7. Announced'
  BY <1>1, <1>2, <1>3, <1>4 DEF Announced, Is
<1>8. ASSUME LinkWaits, ~died, Whole
      PROVE  Whole'
  <2>1. MemberHalf'
    BY <1>1, <1>2, <1>3, <1>8 DEF Whole, MemberHalf, At
  <2>2. Reinstating'
    BY <1>1, <1>2, <1>3, <1>4, <1>8
       DEF Enabled, Disabled, StillSo, Cancels, Whole, Reinstating, Cancelled, PlaceInv, Reads, At, Is
  <2>3. Cancelled' /\ Suspending'
    BY <1>1, <1>2, <1>3, <1>4, <1>5, <1>8
       DEF StillSo, PlaceInv, Places, Reads, Whole, Reinstating, Cancelled, Suspending,
           Cancelling, Cancels, At, Is, Row
  <2>4. Fixed'
    <3>1. \A q \in Procs : q # p => LooksAgain(q)' = LooksAgain(q)
      BY <1>3 DEF LooksAgain, Procs
    <3>2. ~LooksAgain(p)
      BY <1>2 DEF LooksAgain
    <3>3. pc = "recheck" => LooksAgain(p)'
      BY <1>3 DEF LooksAgain
    <3>4. CASE at[p] = "undo"
      <4>1. ~Is("active") /\ member' = member
        BY <1>2, <1>8, <3>4 DEF Whole, Cancelled, At, Is
      <4> QED
        BY <4>1 DEF Fixed, Is
    <3>5. CASE at[p] = "write" /\ StillSo(p) /\ ~Cancels(p)
      <4>1. signin' # "disabled"
        BY <1>1, <1>2, <1>5, <1>8, <3>5 DEF PlaceInv, Reads, Whole, Reinstating, Cancels, At
      <4> QED
        BY <4>1 DEF Fixed
    <3>6. CASE at[p] # "undo" /\ member' = member
      BY <1>2, <1>8, <3>1, <3>2, <3>6 DEF Whole, Fixed, Enabled, Is
    <3> QED
      BY <1>1, <1>2, <3>3, <3>4, <3>5, <3>6 DEF Fixed
  <2> QED
    BY <2>1, <2>2, <2>3, <2>4 DEF Whole
<1> QED
  BY <1>1, <1>2, <1>6, <1>7, <1>8 DEF Inv

(* An administrator's suspend, and an administrator's delete. *)
LEMMA InvAdmin == TypeInv /\ Inv /\ (SuspendNext \/ DeleteNext) => Inv'
<1> SUFFICES ASSUME TypeInv, Inv, SuspendNext \/ DeleteNext
             PROVE  Inv'
  OBVIOUS
<1>1. /\ TypeOK /\ PlaceInv /\ Announced /\ "admin" \in Procs
      /\ LinkWaits /\ ~died => Whole
      /\ used \in Nat /\ member \in Row /\ member.del \in Nat
      /\ member.status = "active" => member.del = 0
  BY DEF TypeInv, TypeOK, Inv, Procs, Row
<1>2. PICK pc \in {"idle", "suspend", "disable", "delete_user", "delete_row"} :
        /\ UNCHANGED <<used, died>>
        /\ \/ /\ at["admin"] = "idle" /\ pc = "suspend" /\ ReadRow("admin", pc)
              /\ member.status \in {"active", "suspended"}
              /\ UNCHANGED <<member, signin, marker>>
           \/ /\ at["admin"] = "idle" /\ pc = "delete_user" /\ ReadRow("admin", pc)
              /\ UNCHANGED <<member, signin, marker>>
           \/ /\ at["admin"] = "suspend" /\ pc = "disable" /\ GoTo("admin", pc)
              /\ seen["admin"].status = "suspended" /\ UNCHANGED <<member, signin, marker>>
           \/ /\ at["admin"] = "suspend" /\ pc = "disable" /\ GoTo("admin", pc)
              /\ member.status = "active" /\ member'.status = "suspended" /\ member'.del = 0
              /\ UNCHANGED <<signin, marker>>
           \/ /\ at["admin"] = "suspend" /\ pc = "idle" /\ GoTo("admin", pc)
              /\ UNCHANGED <<member, signin, marker>>
           \/ /\ at["admin"] = "disable" /\ pc = "idle" /\ GoTo("admin", pc)
              /\ signin' = Disabled /\ UNCHANGED <<member, marker>>
           \/ /\ at["admin"] = "delete_user" /\ pc = "delete_row" /\ GoTo("admin", pc)
              /\ signin' = OwnUserGone /\ UNCHANGED <<member, marker>>
           \/ /\ at["admin"] = "delete_row" /\ pc = "idle" /\ GoTo("admin", pc)
              /\ member'.status = "gone" /\ member'.del = 0 /\ signin' = signin
              /\ marker' \in {marker, "none"}
  <2>1. CASE SuspendRead
    BY <2>1 DEF SuspendRead, At
  <2>2. CASE SuspendWrite
    <3>1. CASE seen["admin"].status # "suspended" /\ member.status = "active"
      <4>1. member' = [member EXCEPT !.status = "suspended"]
        BY <2>2, <3>1 DEF SuspendWrite, Is
      <4>2. member'.status = "suspended" /\ member'.del = 0
        BY <1>1, <3>1, <4>1 DEF Row
      <4>3. /\ at["admin"] = "suspend" /\ GoTo("admin", "disable")
            /\ UNCHANGED <<signin, marker, used, died>>
        BY <2>2, <3>1 DEF SuspendWrite, At, Is
      <4> QED
        BY <3>1, <4>2, <4>3
    <3>2. CASE ~(seen["admin"].status # "suspended" /\ member.status = "active")
      BY <2>2, <3>2 DEF SuspendWrite, At, Is
    <3> QED
      BY <3>1, <3>2
  <2>3. CASE SuspendDisable
    BY <2>3 DEF SuspendDisable, At
  <2>4. CASE DeleteRead
    BY <2>4 DEF DeleteRead, At
  <2>5. CASE DeleteUser
    BY <2>5 DEF DeleteUser, At
  <2>6. CASE DeleteRow
    <3>1. member' = [Open EXCEPT !.status = "gone"]
      BY <2>6 DEF DeleteRow
    <3>2. member'.status = "gone" /\ member'.del = 0
      BY <3>1, GoneTyped
    <3>3. /\ at["admin"] = "delete_row" /\ GoTo("admin", "idle")
          /\ UNCHANGED <<signin, used, died>> /\ marker' \in {marker, "none"}
      BY <2>6 DEF DeleteRow, At, OwnMarkerGone
    <3> QED
      BY <3>2, <3>3
  <2> QED
    BY <2>1, <2>2, <2>3, <2>4, <2>5, <2>6 DEF SuspendNext, DeleteNext
<1>3. /\ at'["admin"] = pc
      /\ pc = "suspend" => seen'["admin"].status = member.status
      /\ at'["member"] = at["member"]
      /\ at'["link"] = at["link"] /\ seen'["link"] = seen["link"]
      /\ at'["job"] = at["job"] /\ seen'["job"] = seen["job"]
  BY <1>1, <1>2, GoneTo DEF Pcs
<1>4. \/ member' = member
      \/ /\ at["admin"] = "suspend" /\ pc = "disable" /\ member.status = "active"
         /\ member'.status = "suspended" /\ member'.del = 0 /\ signin' = signin /\ marker' = marker
      \/ /\ at["admin"] = "delete_row" /\ pc = "idle" /\ member'.status = "gone"
         /\ member'.del = 0 /\ signin' = signin
  BY <1>2
<1>5. PlaceInv'
  <2>1. Is("gone") => Is("gone")'
    BY <1>4 DEF Is
  <2>2. signin' = "none" => \/ signin = "none" /\ at["admin"] # "delete_row"
                            \/ pc = "delete_row" \/ Is("gone")'
    BY <1>1, <1>2, <1>4 DEF Disabled, Is
  <2>3. Places' /\ Reads'
    BY <1>1, <1>2, <1>3 DEF PlaceInv, Places, Reads, At
  <2>4. marker' # "own" => marker # "own" \/ Is("gone")'
    BY <1>2, <1>4 DEF Is
  <2>5. signin' = "other" => signin = "other"
    BY <1>2 DEF Disabled, OwnUserGone, OwnUser
  <2> QED
    BY <1>1, <1>2, <1>3, <2>1, <2>2, <2>3, <2>4, <2>5 DEF PlaceInv, GoneFirst, At
<1>6. Announced'
  BY <1>1, <1>2, <1>3, <1>4 DEF Announced, Is
<1>7. ASSUME Whole
      PROVE  Whole'
  <2>1. MemberHalf'
    BY <1>1, <1>2, <1>3, <1>4, <1>7 DEF Whole, MemberHalf, At
  <2>2. Reinstating' /\ Suspending'
    BY <1>1, <1>2, <1>3, <1>4, <1>7 DEF Whole, Reinstating, Suspending, At, Is
  <2>3. Cancelled'
    BY <1>1, <1>2, <1>3, <1>4, <1>7 DEF Whole, Cancelled, Cancelling, Cancels, At, Is
  <2>4. Fixed'
    <3>1. \A q \in Procs : LooksAgain(q) => LooksAgain(q)'
      BY <1>2, <1>3 DEF LooksAgain, Procs
    <3>2. Is("active")' => Is("active") /\ (signin' = "disabled" => signin = "disabled")
      BY <1>2, <1>4, <1>7 DEF OwnUserGone, OwnUser, Whole, Suspending, At, Is
    <3> QED
      BY <1>7, <3>1, <3>2 DEF Whole, Fixed
  <2> QED
    BY <2>1, <2>2, <2>3, <2>4 DEF Whole
<1> QED
  BY <1>1, <1>2, <1>5, <1>6, <1>7 DEF Inv

(* The daily run. *)
LEMMA InvJob == TypeInv /\ Inv /\ JobNext => Inv'
<1> SUFFICES ASSUME TypeInv, Inv, JobNext, ~EnableNext("job")
             PROVE  Inv'
  BY InvEnable
<1>1. /\ TypeOK /\ PlaceInv /\ Announced /\ "job" \in Procs
      /\ LinkWaits /\ ~died => Whole
      /\ used \in Nat /\ member \in Row /\ member.del \in Nat
  BY DEF TypeInv, TypeOK, Inv, Procs, Row
<1>2. PICK pc \in {"idle", "disable", "recheck", "vaults", "unsealed", "row", "user"} :
        /\ UNCHANGED <<used, died>>
        /\ \/ /\ at["job"] = "idle" /\ pc \in {"disable", "vaults"} /\ ReadRow("job", pc)
              /\ Is("canceled") /\ UNCHANGED <<member, signin, marker>>
           \/ /\ at["job"] = "disable" /\ pc = "recheck" /\ GoTo("job", pc)
              /\ signin' = Disabled /\ UNCHANGED <<member, marker>>
           \/ /\ at["job"] = "vaults" /\ pc \in {"idle", "unsealed", "row"} /\ GoTo("job", pc)
              /\ pc # "idle" => seen["job"].mail = "mailed"
              /\ UNCHANGED <<member, signin, marker>>
           \/ /\ at["job"] = "unsealed" /\ pc \in {"idle", "row"} /\ GoTo("job", pc)
              /\ UNCHANGED <<member, signin, marker>>
           \/ /\ at["job"] = "row" /\ pc = "idle" /\ GoTo("job", pc)
              /\ UNCHANGED <<member, signin, marker>>
           \/ /\ at["job"] = "row" /\ pc = "user" /\ GoTo("job", pc) /\ Is("canceled")
              /\ member'.status = "gone" /\ member'.del = 0 /\ signin' = signin
           \/ /\ at["job"] = "user" /\ pc = "idle" /\ GoTo("job", pc)
              /\ signin' = OwnUserGone /\ UNCHANGED <<member, marker>>
  <2>1. CASE JobRead
    BY <2>1 DEF JobRead, At
  <2>2. CASE JobDisable
    BY <2>2 DEF JobDisable, At
  <2>3. CASE JobVaults
    BY <2>3 DEF JobVaults, At
  <2>4. CASE JobUnsealed
    BY <2>4 DEF JobUnsealed, At
  <2>5. CASE JobRow
    <3>1. CASE StillDue
      <4>1. member' = [Open EXCEPT !.status = "gone"]
        BY <2>5, <3>1 DEF JobRow
      <4>2. member'.status = "gone" /\ member'.del = 0
        BY <4>1, GoneTyped
      <4>3. /\ at["job"] = "row" /\ GoTo("job", "user") /\ Is("canceled")
            /\ UNCHANGED <<signin, used, died>>
        BY <2>5, <3>1 DEF JobRow, At, StillDue
      <4> QED
        BY <4>2, <4>3
    <3>2. CASE ~StillDue
      BY <2>5, <3>2 DEF JobRow, At
    <3> QED
      BY <3>1, <3>2
  <2>6. CASE JobUser
    BY <2>6 DEF JobUser, At
  <2> QED
    BY <2>1, <2>2, <2>3, <2>4, <2>5, <2>6 DEF JobNext
<1>3. /\ at'["job"] = pc
      /\ at["job"] # "idle" /\ pc # "idle" => seen'["job"] = seen["job"]
      /\ at["job"] # "idle" /\ pc = "idle" => seen'["job"].mail = "none" /\ seen'["job"].del = 0
      /\ at["job"] = "idle" => seen'["job"].mail = member.mail /\ seen'["job"].del = member.del
      /\ at'["member"] = at["member"]
      /\ at'["link"] = at["link"] /\ seen'["link"] = seen["link"]
      /\ at'["admin"] = at["admin"] /\ seen'["admin"] = seen["admin"]
  BY <1>1, <1>2, GoneTo DEF Pcs
<1>4. \/ member' = member
      \/ /\ at["job"] = "row" /\ pc = "user" /\ member.status = "canceled"
         /\ member'.status = "gone" /\ member'.del = 0 /\ signin' = signin
  BY <1>2 DEF Is
<1>5. PlaceInv'
  BY <1>1, <1>2, <1>3, <1>4
     DEF Disabled, OwnUserGone, OwnUser, PlaceInv, Places, Reads, GoneFirst, At, Is
<1>6. Announced'
  BY <1>1, <1>2, <1>3, <1>4 DEF Announced, Is
<1>7. ASSUME Whole
      PROVE  Whole'
  <2>1. MemberHalf' /\ Suspending'
    BY <1>1, <1>2, <1>3, <1>4, <1>7 DEF Whole, MemberHalf, Suspending, At, Is
  <2>2. Reinstating'
    BY <1>1, <1>2, <1>3, <1>4, <1>7 DEF Whole, Reinstating, Suspending, At, Is
  <2>3. Cancelled'
    BY <1>1, <1>2, <1>3, <1>4, <1>7 DEF Whole, Cancelled, Cancelling, Cancels, At, Is
  <2>4. Fixed'
    <3>1. \A q \in Procs : LooksAgain(q) => LooksAgain(q)'
      BY <1>2, <1>3 DEF LooksAgain, Procs
    <3>2. CASE at["job"] = "disable"
      BY <1>1, <1>2, <1>3, <3>2 DEF LooksAgain, Fixed
    <3>3. CASE at["job"] # "disable"
      <4>1. Is("active")' => Is("active") /\ (signin' = "disabled" => signin = "disabled")
        BY <1>2, <1>4, <3>3 DEF OwnUserGone, OwnUser, Is
      <4> QED
        BY <1>7, <3>1, <4>1 DEF Whole, Fixed
    <3> QED
      BY <3>2, <3>3
  <2> QED
    BY <2>1, <2>2, <2>3, <2>4 DEF Whole
<1> QED
  BY <1>1, <1>2, <1>5, <1>6, <1>7 DEF Inv

LEMMA InvStep == TypeInv /\ Inv /\ [Next]_vars => Inv'
<1>1. ASSUME TypeInv, Inv, UNCHANGED vars
      PROVE  Inv'
  BY <1>1, InvStill DEF vars
<1>2. ASSUME TypeInv, Inv, Next
      PROVE  Inv'
  BY <1>2, InvRequest, InvWorld, InvDies, InvEnable, InvCancelRead, InvCancel, InvAdmin, InvJob
     DEF Next
<1> QED
  BY <1>1, <1>2

LEMMA SpecInv == Spec => [](TypeInv /\ Inv)
BY TypeInit, InvInit, TypeStep, InvStep, PTL DEF Spec

--------------------------------------------------------------------------------
(* The theorems. *)

(* Once nobody is half way and every invocation ran to its end, an active    *)
(* account can sign in, if the link of a request is not used before the      *)
(* request is answered.                                                      *)
THEOREM ActiveCanSignInHolds ==
  ASSUME LinkWaits
  PROVE  Spec => []ActiveCanSignIn
<1>1. TypeInv /\ Inv => ActiveCanSignIn
  <2> SUFFICES ASSUME TypeInv, Inv, Settled, ~died, Is("active")
               PROVE  signin = "enabled"
    BY DEF ActiveCanSignIn
  <2>1. \A p \in Procs : at[p] = "idle"
    BY DEF Settled, At
  <2>2. signin # "disabled"
    BY <2>1 DEF Inv, Whole, Fixed, LooksAgain
  <2>3. "admin" \in Procs /\ ~Is("gone")
    BY DEF Procs, Is
  <2>4. signin # "none" /\ signin # "other"
    BY <2>1, <2>3 DEF Inv, PlaceInv, GoneFirst, At
  <2> QED
    BY <2>2, <2>4 DEF TypeInv, TypeOK
<1> QED
  BY <1>1, SpecInv, PTL

(* The daily run removes only an account still closed by the deletion it read, *)
(* whose confirmation is recorded and whose date has come.                     *)
THEOREM DeletedAsAnnouncedHolds == Spec => DeletedAsAnnounced
<1>1. TypeInv /\ Inv /\ [Next]_vars =>
        [ended # "job" /\ ended' = "job" =>
           /\ Is("canceled") /\ member.mail = "mailed" /\ member.due
           /\ member.del = seen["job"].del]_vars
  <2> SUFFICES ASSUME Inv, Next, ended # "job", ended' = "job"
               PROVE  /\ Is("canceled") /\ member.mail = "mailed" /\ member.due
                      /\ member.del = seen["job"].del
    OBVIOUS
  <2>1. JobRow
    BY DEF Next, RequestNext, RequestCheck, RequestWrite, RequestDisable, StreamNext,
       ClaimMail, SendMail, MailFails, RecordMailed, Mail, SuspendNext, SuspendRead,
       SuspendWrite, SuspendDisable, DeleteNext, DeleteRead, DeleteUser, DeleteRow, JobNext,
       JobRead, JobDisable, JobVaults, JobUnsealed, JobUser, EnableNext, Recheck, EnableAgain,
       WorldNext, FirstRunComes, VaultChanges, AddressRequested, AddressApproved, CancelRead,
       CancelNext, EnableFirst, Reactivate, Lost, UndoEnable, Dies
  <2>2. StillDue /\ at["job"] = "row"
    BY <2>1 DEF JobRow, At
  <2> QED
    BY <2>2 DEF StillDue, Inv, Announced
<1> QED
  BY <1>1, SpecInv, PTL DEF Spec, DeletedAsAnnounced

(* A vault sealed meanwhile goes by no step of the daily run or of anybody else *)
(* who deletes the account.                                                     *)
THEOREM SealedVaultKeptHolds == Spec => SealedVaultKept
<1>1. [Next]_vars => [vault = "sealed" /\ vault' = "none" => at' = at]_vars
  <2> SUFFICES ASSUME Next, vault = "sealed", vault' = "none"
               PROVE  at' = at
    OBVIOUS
  <2>1. VaultChanges \/ JobUnsealed
    BY DEF Next, RequestNext, RequestCheck, RequestWrite, RequestDisable, StreamNext,
       ClaimMail, SendMail, MailFails, RecordMailed, Mail, SuspendNext, SuspendRead,
       SuspendWrite, SuspendDisable, DeleteNext, DeleteRead, DeleteUser, DeleteRow, JobNext,
       JobRead, JobDisable, JobVaults, JobRow, JobUser, EnableNext, Recheck, EnableAgain,
       WorldNext, FirstRunComes, AddressRequested, AddressApproved, CancelRead,
       CancelNext, EnableFirst, Reactivate, Lost, UndoEnable, Dies
  <2> QED
    BY <2>1 DEF VaultChanges, JobUnsealed, StillUnsealed
<1> QED
  BY <1>1, PTL DEF Spec, SealedVaultKept

(* Who asks for the address after the account is gone keeps marker and *)
(* sign-in user.                                                       *)
THEOREM NextHolderKeptHolds == Spec => NextHolderKept
<1>1. [Next]_vars =>
        [(marker = "other" => marker' = "other") /\ (signin = "other" => signin' = "other")]_vars
  <2> SUFFICES ASSUME Next
               PROVE  /\ marker = "other" => marker' = "other"
                      /\ signin = "other" => signin' = "other"
    OBVIOUS
  <2>1. marker' = marker \/ marker' = OwnMarkerGone \/ marker = "none"
    BY DEF Next, RequestNext, RequestCheck, RequestWrite, RequestDisable, StreamNext,
       ClaimMail, SendMail, MailFails, RecordMailed, Mail, SuspendNext, SuspendRead,
       SuspendWrite, SuspendDisable, DeleteNext, DeleteRead, DeleteUser, DeleteRow, JobNext,
       JobRead, JobDisable, JobVaults, JobUnsealed, JobRow, JobUser, EnableNext, Recheck,
       EnableAgain, WorldNext, FirstRunComes, VaultChanges, AddressRequested, AddressApproved,
       CancelRead, CancelNext, EnableFirst, Reactivate, Lost, UndoEnable, Dies
  <2>2. signin' \in {signin, Enabled, Disabled, OwnUserGone} \/ signin = "none"
    BY DEF Next, RequestNext, RequestCheck, RequestWrite, RequestDisable, StreamNext,
       ClaimMail, SendMail, MailFails, RecordMailed, Mail, SuspendNext, SuspendRead,
       SuspendWrite, SuspendDisable, DeleteNext, DeleteRead, DeleteUser, DeleteRow, JobNext,
       JobRead, JobDisable, JobVaults, JobUnsealed, JobRow, JobUser, EnableNext, Recheck,
       EnableAgain, WorldNext, FirstRunComes, VaultChanges, AddressRequested, AddressApproved,
       CancelRead, CancelNext, EnableFirst, Reactivate, Lost, UndoEnable, Dies
  <2> QED
    BY <2>1, <2>2 DEF OwnMarkerGone, Enabled, Disabled, OwnUserGone, OwnUser
<1> QED
  BY <1>1, PTL DEF Spec, NextHolderKept

===============================================================================
