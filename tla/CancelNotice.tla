------------------------------ MODULE CancelNotice ------------------------------
(***************************************************************************)
(* A recovery cancelled from the phone (lambda/member/vault.ts,            *)
(* noticeAppCancel and its callers).  An unlock with the owner's PIN ends  *)
(* the recovery inside the vault; the API learns of it from the unlock's   *)
(* slot or from the vault row, in any order and from any number of         *)
(* invocations, and has to end its own recovery once and tell the member   *)
(* once, against session and link cancels, completions, refusals, expiry   *)
(* and a new request that replaces the recovery.                           *)
(*                                                                         *)
(* One notice row per recovery is claimed before anything is done, as      *)
(* AttemptNotice claims a slot: the claim is a lease, and ages stop        *)
(* counting once no comparison can tell them apart.  A slot's marker names *)
(* one recovery and the vault cancels a recovery once, so a slot is known  *)
(* by the recovery it names.                                               *)
(***************************************************************************)
EXTENDS Integers

CONSTANTS
  Recoveries,  \* ids of recoveries; each is requested once
  Noticers,    \* concurrent invocations that notice
  None,
  MaxTries,    \* ATTEMPT_MAX_TRIES
  Retry,       \* ATTEMPT_RETRY_S
  Timeout      \* the longest an invocation runs

ASSUME NoneAssumption == None \notin Recoveries

ASSUME TimesAssumption == MaxTries \in Nat \ {0} /\ Retry \in Nat /\ Timeout \in Nat

ASSUME LeaseAssumption == Timeout < Retry

VARIABLES
  recovery,   \* the vault row's recovery: its id and how it stands
  rowMark,    \* the vault row's recovery_cancelled
  slotMarks,  \* the unlock's slot that names each recovery
  notices,    \* rcnotice#<recovery_id>, in the request table
  noticers

(* History: read by no action. *)
VARIABLES
  named,      \* the recoveries the host has named as cancelled in the vault
  how,        \* what ended each recovery first
  audited,    \* recoveries with an audit entry vault.recovery_cancel, via app
  seen,       \* and with one vault.recovery_cancel_seen
  mails,      \* emails sent of a cancel from the phone
  unrecorded  \* notices that mailed and stopped before they were recorded

vars == <<recovery, rowMark, slotMarks, notices, noticers, named, how,
          audited, seen, mails, unrecorded>>
ghost == <<named, how, audited, seen, mails, unrecorded>>

--------------------------------------------------------------------------------
OldAge == Retry + Timeout + 1   \* where an age stops counting
Never  == OldAge + 1            \* noticing is absent

(* live: pending or registered before its expires_at; lapsed: past it. *)
States == {"none", "live", "lapsed", "cancelled_app", "cancelled_other", "ended"}

Notice == [exists : BOOLEAN, noticing : 0..Never, tries : Nat, noticed : BOOLEAN,
           failed : BOOLEAN]

NoNotice == [exists |-> FALSE, noticing |-> Never, tries |-> 0, noticed |-> FALSE,
             failed |-> FALSE]

Noticer ==
  [pc   : {"idle", "start", "claimed", "lost", "won", "audited", "mailed", "seen",
           "noted", "giveup", "covered", "ended", "slot_seen"},
   id   : Recoveries \cup {None},
   src  : {"slot", "row", "notice"},
   live : BOOLEAN,     \* the recovery was live in the row it read
   app  : BOOLEAN,     \* it was cancelled from the phone in the row it read
   early : BOOLEAN,    \* its `now` is before the recovery's expires_at
   age  : 0..Timeout]

Idle == [pc |-> "idle", id |-> None, src |-> "row", live |-> FALSE, app |-> FALSE,
         early |-> FALSE, age |-> 0]

Is(id, state) == recovery.id = id /\ recovery.state = state

Cancellable(id) == Is(id, "live")

StaleNone(id, age) == notices[id].noticing = Never   \* mutated form: never taken over

(* noticing < now - ATTEMPT_RETRY_S, for the `now` of a noticer this old. *)
Stale(id, age) == notices[id].noticing = Never \/ notices[id].noticing - age > Retry

Older(age, most) == IF age < most THEN age + 1 ELSE age

GoTo(p, pc) == noticers' = [noticers EXCEPT ![p].pc = pc]

At(p, pc) == noticers[p].pc = pc

--------------------------------------------------------------------------------
(* noticeAppCancel(): where it starts. *)

(* Mutated form: any recovery is live while the row names a cancelled one. *)
RowNamesAny(id) == rowMark # None

RowNames(id) == rowMark = id

Source(id, src) ==
  \/ src = "slot"   /\ slotMarks[id] = "marked"
  \/ src = "row"    /\ RowNames(id) /\ Cancellable(id)
  \/ src = "notice" /\ notices[id].exists /\ ~notices[id].noticed /\ Stale(id, 0)

Look(p, id, src) ==
  /\ At(p, "idle")
  /\ Source(id, src)
  /\ noticers' = [noticers EXCEPT ![p] =
       [pc |-> "start", id |-> id, src |-> src, live |-> Cancellable(id),
        app |-> Is(id, "cancelled_app"), early |-> recovery.state # "lapsed", age |-> 0]]
  /\ UNCHANGED <<recovery, rowMark, slotMarks, notices, ghost>>

(* Mutated forms: an ended recovery opens a notice; the claim is not a lease. *)
ClaimConditionAnyRow(p, id) == ~notices[id].noticed /\ Stale(id, noticers[p].age)
ClaimConditionAnyAge(p, id) ==
  (noticers[p].live \/ notices[id].exists) /\ ~notices[id].noticed

ClaimCondition(p, id) ==
  /\ noticers[p].live \/ notices[id].exists
  /\ ~notices[id].noticed
  /\ Stale(id, noticers[p].age)

ClaimNotice(p) ==
  LET id == noticers[p].id
  IN  /\ At(p, "start")
      /\ ClaimCondition(p, id)
      /\ notices' = [notices EXCEPT ![id].exists = TRUE,
                                    ![id].noticing = noticers[p].age,
                                    ![id].tries = Older(@, MaxTries + 1)]
      /\ GoTo(p, IF notices[id].tries + 1 > MaxTries THEN "giveup" ELSE "claimed")
      /\ UNCHANGED <<recovery, rowMark, slotMarks, ghost>>

(* No row to claim, or a finished one: only a slot is left to be marked. *)
NothingToClaim(p) ==
  LET id == noticers[p].id
  IN  /\ At(p, "start")
      /\ ~ClaimCondition(p, id)
      /\ noticers[p].src = "slot"
      /\ notices[id].exists => notices[id].noticed
      /\ GoTo(p, IF notices[id].noticed THEN "covered" ELSE "ended")
      /\ UNCHANGED <<recovery, rowMark, slotMarks, notices, ghost>>

--------------------------------------------------------------------------------
(* noticeAppCancel(): the work, and the record. *)

(* Mutated form: the state is not compared again at the write. *)
CancelConditionAnyState(p, id) == recovery.id = id /\ noticers[p].early

CancelCondition(p, id) ==
  Is(id, "live") \/ (Is(id, "lapsed") /\ noticers[p].early)

FirstEnd(id, end) == how' = [how EXCEPT ![id] = IF @ = "none" THEN end ELSE @]

(* Mutated form: the state and the way of the cancel are swapped in the write. *)
CancelWinsSwapped(p) ==
  LET id == noticers[p].id
  IN  /\ At(p, "claimed")
      /\ CancelCondition(p, id)
      /\ recovery' = [recovery EXCEPT !.state = "app"]
      /\ FirstEnd(id, "app")
      /\ GoTo(p, "won")
      /\ UNCHANGED <<rowMark, slotMarks, notices, named, audited, seen, mails, unrecorded>>

CancelWins(p) ==
  LET id == noticers[p].id
  IN  /\ At(p, "claimed")
      /\ CancelCondition(p, id)
      /\ recovery' = [recovery EXCEPT !.state = "cancelled_app"]
      /\ FirstEnd(id, "app")
      /\ GoTo(p, "won")
      /\ UNCHANGED <<rowMark, slotMarks, notices, named, audited, seen, mails, unrecorded>>

CancelLoses(p) ==
  /\ At(p, "claimed")
  /\ ~CancelCondition(p, noticers[p].id)
  /\ GoTo(p, "lost")
  /\ UNCHANGED <<recovery, rowMark, slotMarks, notices, ghost>>

(* Lost to another write; or the claim of one that stopped is taken up here. *)
Reread(p) ==
  /\ At(p, "lost")
  /\ GoTo(p, IF Is(noticers[p].id, "cancelled_app") THEN "won" ELSE "seen")
  /\ UNCHANGED <<recovery, rowMark, slotMarks, notices, ghost>>

AuditCancel(p) ==
  /\ At(p, "won")
  /\ audited' = audited \cup {noticers[p].id}
  /\ GoTo(p, "audited")
  /\ UNCHANGED <<recovery, rowMark, slotMarks, notices, named, how, seen, mails, unrecorded>>

MailCancel(p) ==
  /\ At(p, "audited")
  /\ mails' = [mails EXCEPT ![noticers[p].id] = @ + 1]
  /\ GoTo(p, "mailed")
  /\ UNCHANGED <<recovery, rowMark, slotMarks, notices, named, how, audited, seen, unrecorded>>

AuditSeen(p) ==
  /\ At(p, "seen")
  /\ seen' = seen \cup {noticers[p].id}
  /\ GoTo(p, "noted")
  /\ UNCHANGED <<recovery, rowMark, slotMarks, notices, named, how, audited, mails, unrecorded>>

(* Mutated form: recorded once audited, whatever became of the email. *)
WorkDoneAudited == {"audited", "mailed", "noted"}

WorkDone == {"mailed", "noted"}

Record(p) ==
  LET id == noticers[p].id
  IN  /\ noticers[p].pc \in WorkDone \cup {"giveup"}
      /\ notices[id].exists
      /\ notices' = [notices EXCEPT ![id].noticed = TRUE, ![id].noticing = Never,
                                    ![id].failed = @ \/ At(p, "giveup")]
      /\ noticers' = [noticers EXCEPT ![p] =
                        IF @.src = "slot" THEN [@ EXCEPT !.pc = "covered"] ELSE Idle]
      /\ UNCHANGED <<recovery, rowMark, slotMarks, ghost>>

(* markSlotNoticed(), alone or in slotOfEndedRecovery(). *)
MarkSlot(p) ==
  LET id == noticers[p].id
  IN  /\ noticers[p].pc \in {"covered", "ended"}
      /\ slotMarks[id] = "marked"
      /\ slotMarks' = [slotMarks EXCEPT ![id] = "noticed"]
      /\ noticers' = [noticers EXCEPT ![p] =
                        IF At(p, "ended") /\ ~@.app THEN [@ EXCEPT !.pc = "slot_seen"]
                        ELSE Idle]
      /\ UNCHANGED <<recovery, rowMark, notices, ghost>>

AuditSlotSeen(p) ==
  /\ At(p, "slot_seen")
  /\ seen' = seen \cup {noticers[p].id}
  /\ noticers' = [noticers EXCEPT ![p] = Idle]
  /\ UNCHANGED <<recovery, rowMark, slotMarks, notices, named, how, audited, mails, unrecorded>>

(* The invocation ends there: refused, failed or killed. *)
Stop(p) ==
  LET id == noticers[p].id
  IN  /\ ~At(p, "idle")
      /\ noticers' = [noticers EXCEPT ![p] = Idle]
      /\ unrecorded' = IF At(p, "mailed") THEN [unrecorded EXCEPT ![id] = @ + 1]
                       ELSE unrecorded
      /\ UNCHANGED <<recovery, rowMark, slotMarks, notices, named, how, audited, seen, mails>>

--------------------------------------------------------------------------------
(* The other handlers, as far as the row shows them (VaultRecovery has them). *)

(* POST /api/vault/recovery: each id is new, and the row is not replaced *)
(* while its recovery is active.                                         *)
Request(id) ==
  /\ recovery.state # "live"
  /\ recovery.id # id /\ how[id] = "unrequested"
  /\ recovery' = [id |-> id, state |-> "live"]
  /\ how' = [how EXCEPT ![id] = "none"]
  /\ UNCHANGED <<rowMark, slotMarks, notices, noticers, named, audited, seen, mails, unrecorded>>

(* cancelRecovery(), by the session or the email link. *)
CancelRecovery ==
  /\ recovery.state = "live"
  /\ recovery' = [recovery EXCEPT !.state = "cancelled_other"]
  /\ FirstEnd(recovery.id, "other")
  /\ UNCHANGED <<rowMark, slotMarks, notices, noticers, named, audited, seen, mails, unrecorded>>

(* It is completed, or refused by the enclave. *)
RecoveryEnds ==
  /\ recovery.state \in {"live", "lapsed"}
  /\ recovery' = [recovery EXCEPT !.state = "ended"]
  /\ FirstEnd(recovery.id, "ended")
  /\ UNCHANGED <<rowMark, slotMarks, notices, noticers, named, audited, seen, mails, unrecorded>>

ExpiresAtPasses ==
  /\ recovery.state = "live"
  /\ recovery' = [recovery EXCEPT !.state = "lapsed"]
  /\ UNCHANGED <<rowMark, slotMarks, notices, noticers, ghost>>

(* A counted attempt's notice, or the enclave's times, move expires_at late. *)
ExpiresAtMoves ==
  /\ recovery.state = "lapsed"
  /\ recovery' = [recovery EXCEPT !.state = "live"]
  /\ noticers' = [p \in Noticers |->
       IF At(p, "idle") THEN noticers[p] ELSE [noticers[p] EXCEPT !.early = TRUE]]
  /\ UNCHANGED <<rowMark, slotMarks, notices, ghost>>

--------------------------------------------------------------------------------
(* External: the host's two marks, the notice row's TTL, and time. *)

HostMarksSlot(id) ==
  /\ how[id] # "unrequested"
  /\ slotMarks[id] = "none"
  /\ slotMarks' = [slotMarks EXCEPT ![id] = "marked"]
  /\ named' = named \cup {id}
  /\ UNCHANGED <<recovery, rowMark, notices, noticers, how, audited, seen, mails, unrecorded>>

HostMarksRow(id) ==
  /\ how[id] # "unrequested"
  /\ rowMark # id
  /\ rowMark' = id
  /\ named' = named \cup {id}
  /\ UNCHANGED <<recovery, slotMarks, notices, noticers, how, audited, seen, mails, unrecorded>>

(* A day after the expires_at it was opened under, which may have moved since: *)
(* by then the notice is recorded or given up, by invocations that have ended. *)
NoticeExpires(id) ==
  /\ notices[id].noticed
  /\ \A p \in Noticers : noticers[p].id # id
  /\ notices' = [notices EXCEPT ![id] = NoNotice]
  /\ UNCHANGED <<recovery, rowMark, slotMarks, noticers, ghost>>

Tick ==
  /\ \A p \in Noticers : At(p, "idle") \/ noticers[p].age < Timeout
  /\ notices' = [id \in Recoveries |-> [notices[id] EXCEPT
       !.noticing = IF @ = Never THEN Never ELSE Older(@, OldAge)]]
  /\ noticers' = [p \in Noticers |->
       IF At(p, "idle") THEN noticers[p] ELSE [noticers[p] EXCEPT !.age = @ + 1]]
  /\ UNCHANGED <<recovery, rowMark, slotMarks, ghost>>

--------------------------------------------------------------------------------
Init ==
  /\ recovery = [id |-> None, state |-> "none"]
  /\ rowMark = None
  /\ slotMarks = [id \in Recoveries |-> "none"]
  /\ notices = [id \in Recoveries |-> NoNotice]
  /\ noticers = [p \in Noticers |-> Idle]
  /\ named = {}
  /\ how = [id \in Recoveries |-> "unrequested"]
  /\ audited = {}
  /\ seen = {}
  /\ mails = [id \in Recoveries |-> 0]
  /\ unrecorded = [id \in Recoveries |-> 0]

NoticeAppCancel ==
  \E p \in Noticers :
    \/ \E id \in Recoveries, src \in {"slot", "row", "notice"} : Look(p, id, src)
    \/ ClaimNotice(p) \/ NothingToClaim(p)
    \/ CancelWins(p) \/ CancelLoses(p) \/ Reread(p)
    \/ AuditCancel(p) \/ MailCancel(p) \/ AuditSeen(p)
    \/ Record(p) \/ MarkSlot(p) \/ AuditSlotSeen(p) \/ Stop(p)

OtherHandlers ==
  \/ CancelRecovery \/ RecoveryEnds \/ ExpiresAtPasses \/ ExpiresAtMoves
  \/ \E id \in Recoveries : Request(id)

Environment ==
  \/ Tick
  \/ \E id \in Recoveries : HostMarksSlot(id) \/ HostMarksRow(id) \/ NoticeExpires(id)

Next == NoticeAppCancel \/ OtherHandlers \/ Environment

Spec == Init /\ [][Next]_vars

(* The sweep runs every five minutes over the marked slots and the stalled  *)
(* notice rows (EventBridge); the platform ends every invocation; and no    *)
(* one write fails at every try for ever.                                   *)
Fairness ==
  /\ SF_vars(Tick)
  /\ \A p \in Noticers : WF_vars(Stop(p))
  /\ \A id \in Recoveries :
       /\ SF_vars(\E p \in Noticers : Look(p, id, "slot"))
       /\ SF_vars(\E p \in Noticers : Look(p, id, "notice"))
       /\ SF_vars(\E p \in Noticers : noticers[p].id = id /\ ClaimNotice(p))
       /\ SF_vars(\E p \in Noticers : noticers[p].id = id /\ NothingToClaim(p))
       /\ SF_vars(\E p \in Noticers : noticers[p].id = id /\ MarkSlot(p))
       /\ SF_vars(\E p \in Noticers : noticers[p].id = id /\ At(p, "giveup") /\ Record(p))

(* expires_at only grows, up to RECOVERY_MAX_SPAN_S after the request. *)
RecoveryIsFinite == WF_vars(ExpiresAtPasses) /\ <>[][~ExpiresAtMoves]_vars

FairSpec == Spec /\ Fairness /\ RecoveryIsFinite

--------------------------------------------------------------------------------
(* Properties. *)

(* Every variable has its type. *)
TypeOK ==
  /\ recovery \in [id : Recoveries \cup {None}, state : States]
  /\ rowMark \in Recoveries \cup {None}
  /\ slotMarks \in [Recoveries -> {"none", "marked", "noticed"}]
  /\ notices \in [Recoveries -> Notice]
  /\ noticers \in [Noticers -> Noticer]
  /\ how \in [Recoveries -> {"unrequested", "none", "app", "other", "ended"}]
  /\ audited \subseteq Recoveries /\ seen \subseteq Recoveries
  /\ mails \in [Recoveries -> Nat] /\ unrecorded \in [Recoveries -> Nat]
  /\ named \subseteq Recoveries

Working == {"claimed", "lost", "won", "audited", "mailed", "seen", "noted", "giveup"}

Holds(p, id) == noticers[p].id = id /\ noticers[p].pc \in Working

(* Whatever the marks, the callers and their order, one at a time follows up *)
(* a recovery's cancel: its claim is only taken over from a dead invocation. *)
OneNoticer ==
  \A id \in Recoveries : \A p, q \in Noticers : Holds(p, id) /\ Holds(q, id) => p = q

(* A recovery is reported as cancelled from the phone only when nothing else *)
(* had ended it: one cancelled in the browser, completed or refused by the   *)
(* enclave is told as that alone, however late a noticer writes.             *)
OneCancel == \A id \in audited : how[id] = "app"

(* Only a recovery the vault itself has cancelled is cancelled from the phone: *)
(* a mark that outlives its recovery (the row's is never cleared) ends no      *)
(* later one.                                                                  *)
OnlyNamed == \A id \in Recoveries : how[id] = "app" => id \in named

(* The cancel is mailed once, and again only because an earlier notice had   *)
(* sent its email and stopped before it could record that: no later mark,    *)
(* moved expires_at or expired notice row brings another.                    *)
MailedOnce == \A id \in Recoveries : mails[id] <= 1 + unrecorded[id]

Finished(id) == notices[id].noticed /\ ~notices[id].failed

(* A recovery the phone's cancel ended, and that no new request has replaced, *)
(* is not recorded as noticed before the member was mailed, whichever         *)
(* invocation wrote the cancel and which one finished the notice.             *)
CurrentCancelMailed ==
  \A id \in Recoveries :
    recovery.id = id /\ how[id] = "app" /\ Finished(id) => mails[id] > 0

(* MEMBER-API: "Whichever side wins, there is exactly one cancel, one         *)
(* `vault.recovery_cancel` audit and one email".                              *)
CancelMailed ==
  \A id \in Recoveries : how[id] = "app" /\ Finished(id) => mails[id] > 0

(* Every marked slot is followed up in the end: the cancel it reports is      *)
(* acted on, or seen to have come too late, or given up, and the slot marked. *)
EveryMarkFollowed ==
  \A id \in Recoveries : slotMarks[id] = "marked" ~> slotMarks[id] = "noticed"

--------------------------------------------------------------------------------
LOCAL INSTANCE TLC

\* For TLC: the recoveries are interchangeable.
RecoverySymmetry == Permutations(Recoveries)
================================================================================
