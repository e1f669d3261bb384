----------------------------- MODULE AttemptNotice -----------------------------
(***************************************************************************)
(* The notices of counted recovery attempts (lambda/member/vault.ts,       *)
(* noticeAttempt and its callers).  The registered phone opens the         *)
(* recovery with guesses of the PIN and the password; the enclave marks    *)
(* each counted guess in the open's slot, and the member is to be mailed   *)
(* once for every one.                                                     *)
(*                                                                         *)
(* A noticer is a Lambda invocation working on one slot: the phone's poll, *)
(* a status read, the next open, or the five-minute sweep.  Each of its    *)
(* writes and its email is a step, between any two of which other          *)
(* invocations run and it may die.  Its claim on the slot is a lease: it   *)
(* may be taken over Retry after it was made, and the platform kills an    *)
(* invocation Timeout after it began.  Times are kept as ages, which stop  *)
(* counting once no comparison can tell them apart.                        *)
(*                                                                         *)
(* The recovery's expires_at, which a notice may move, is in VaultRecovery.*)
(***************************************************************************)
EXTENDS Integers, Sequences

CONSTANTS
  Opens,       \* request ids of open requests
  Noticers,    \* concurrent invocations that notice
  None,
  MaxTries,    \* ATTEMPT_MAX_TRIES
  Retry,       \* ATTEMPT_RETRY_S
  Timeout,     \* the longest an invocation runs (120 s, lib/stacks/member-api-stack.ts)
  Margin,      \* how long a slot outlives the expires_at it was opened under (1 h)
  KeepIds      \* MAX_OPEN_IDS

ASSUME NoneAssumption == None \notin Opens

ASSUME TimesAssumption ==
  /\ MaxTries \in Nat \ {0} /\ Retry \in Nat /\ Timeout \in Nat
  /\ Margin \in Nat /\ KeepIds \in Nat \ {0}

ASSUME LeaseAssumption == Timeout < Retry

VARIABLES
  slots,      \* each open's slot in the request table
  live,       \* the recovery is registered and before its expires_at
  openIds,    \* recovery.open_ids, on the vault row
  noticers,
  routes      \* each open request's own invocation

(* History: read by no action. *)
VARIABLES
  audits,     \* audit entries written, per open
  mails,      \* emails sent, per open
  unrecorded, \* notices that mailed and stopped before they were recorded
  before      \* the counted attempts there were when each open was read

vars == <<slots, live, openIds, noticers, routes, audits, mails, unrecorded, before>>
ghost == <<audits, mails, unrecorded, before>>

--------------------------------------------------------------------------------
OldAge == Retry + Timeout + 1   \* where an age stops counting
Never  == OldAge + 1            \* attempt_noticing is absent

Slot ==
  [state    : {"none", "queued", "counted"},
   gone     : BOOLEAN,       \* deleted by the table's TTL
   noticing : 0..Never,      \* the age of attempt_noticing
   tries    : Nat,           \* attempt_notice_tries, counted up to MaxTries + 1
   noticed  : BOOLEAN,       \* attempt_noticed_at is set
   failed   : BOOLEAN,       \* attempt_notice_failed
   expired  : 0..Margin + 1] \* how long ago its expires_at passed; 0: not yet

NoSlot ==
  [state |-> "none", gone |-> FALSE, noticing |-> Never, tries |-> 0,
   noticed |-> FALSE, failed |-> FALSE, expired |-> 0]

Noticer == [pc : {"idle", "start", "claimed", "audited", "mailed", "giveup"},
            slot : Opens \cup {None}, age : 0..Timeout]

IdleNoticer == [pc |-> "idle", slot |-> None, age |-> 0]

Route == [pc : {"none", "gate", "queued", "done"},
          ids : Seq(Opens), left : Seq(Opens)]

NoRoute == [pc |-> "none", ids |-> <<>>, left |-> <<>>]

Counted(s)   == slots[s].state = "counted" /\ ~slots[s].gone
Unnoticed(s) == Counted(s) /\ ~slots[s].noticed

StaleNone(s, age) == slots[s].noticing = Never   \* mutated form: never taken over

(* attempt_noticing < now - ATTEMPT_RETRY_S, for the `now` of a noticer this old. *)
Stale(s, age) == slots[s].noticing = Never \/ slots[s].noticing - age > Retry

Older(age, most) == IF age < most THEN age + 1 ELSE age

LastAll(q, n) == q   \* mutated form: the list is not cut

Last(q, n) == IF Len(q) <= n THEN q ELSE SubSeq(q, Len(q) - n + 1, Len(q))

--------------------------------------------------------------------------------
(* noticeAttempt(), from any of its callers. *)

(* The slot is read, then the time.  The sweep reads the slots nobody holds; *)
(* a poll, a status read or an open reads them whoever does.                 *)
Look(p, s) ==
  /\ noticers[p].pc = "idle"
  /\ Unnoticed(s)
  /\ noticers' = [noticers EXCEPT ![p] = [pc |-> "start", slot |-> s, age |-> 0]]
  /\ UNCHANGED <<slots, live, openIds, routes, ghost>>

Sweep(p, s) == Stale(s, 0) /\ Look(p, s)

(* Mutated forms: the claim is not a lease; it is taken on what was noticed. *)
ClaimConditionAnyAge(p, s)     == Unnoticed(s)
ClaimConditionNoticedToo(p, s) == Counted(s) /\ Stale(s, noticers[p].age)

ClaimCondition(p, s) == Unnoticed(s) /\ Stale(s, noticers[p].age)

Claim(p, s) ==
  /\ noticers[p].pc = "start" /\ noticers[p].slot = s
  /\ ClaimCondition(p, s)
  /\ slots' = [slots EXCEPT ![s].noticing = noticers[p].age,
                            ![s].tries = Older(@, MaxTries + 1)]
  /\ noticers' = [noticers EXCEPT ![p].pc =
                    IF slots[s].tries + 1 > MaxTries THEN "giveup" ELSE "claimed"]
  /\ UNCHANGED <<live, openIds, routes, ghost>>

AuditAttempt(p) ==
  LET s == noticers[p].slot
  IN  /\ noticers[p].pc = "claimed"
      /\ noticers' = [noticers EXCEPT ![p].pc = "audited"]
      /\ audits' = [audits EXCEPT ![s] = @ + 1]
      /\ UNCHANGED <<slots, live, openIds, routes, mails, unrecorded, before>>

MailAttempt(p) ==
  LET s == noticers[p].slot
  IN  /\ noticers[p].pc = "audited"
      /\ noticers' = [noticers EXCEPT ![p].pc = "mailed"]
      /\ mails' = [mails EXCEPT ![s] = @ + 1]
      /\ UNCHANGED <<slots, live, openIds, routes, audits, unrecorded, before>>

(* Mutated form: recorded once audited, whatever became of the email. *)
WorkDoneAudited == {"audited", "mailed"}

WorkDone == {"mailed"}

(* done(): attempt_noticed_at, on a slot that is still there. *)
Done(p, s) ==
  /\ noticers[p].slot = s
  /\ noticers[p].pc \in WorkDone \cup {"giveup"}
  /\ ~slots[s].gone
  /\ slots' = [slots EXCEPT ![s].noticed = TRUE, ![s].noticing = Never,
                            ![s].failed = @ \/ noticers[p].pc = "giveup"]
  /\ noticers' = [noticers EXCEPT ![p] = IdleNoticer]
  /\ UNCHANGED <<live, openIds, routes, ghost>>

(* The invocation ends without recording: the claim was refused, a write or *)
(* the email failed, or it was killed.                                      *)
Stop(p) ==
  LET s == noticers[p].slot
  IN  /\ noticers[p].pc # "idle"
      /\ noticers' = [noticers EXCEPT ![p] = IdleNoticer]
      /\ unrecorded' = IF noticers[p].pc = "mailed"
                         THEN [unrecorded EXCEPT ![s] = @ + 1] ELSE unrecorded
      /\ UNCHANGED <<slots, live, openIds, routes, audits, mails, before>>

--------------------------------------------------------------------------------
(* POST /api/vault/recovery/open *)

OpenRead(o) ==
  /\ routes[o].pc = "none"
  /\ live
  /\ routes' = [routes EXCEPT ![o] = [pc |-> "gate", ids |-> openIds,
                                      left |-> Last(openIds, KeepIds)]]
  /\ before' = [before EXCEPT ![o] = {s \in Opens : Counted(s)}]
  /\ UNCHANGED <<slots, live, openIds, noticers, audits, mails, unrecorded>>

(* Mutated form: an attempt that is being noticed passes as noticed. *)
ReportedClaimed(s) == ~Unnoticed(s) \/ slots[s].noticing # Never

Reported(s) == ~Unnoticed(s)

(* noticeOpenSlots(): an attempt still unnoticed after this call's own notice *)
(* of it (a noticer of its own) refuses the open.                             *)
GatePasses(o) ==
  /\ routes[o].pc = "gate" /\ routes[o].left # <<>>
  /\ Reported(Head(routes[o].left))
  /\ routes' = [routes EXCEPT ![o].left = Tail(@)]
  /\ UNCHANGED <<slots, live, openIds, noticers, ghost>>

GateRefuses(o) ==
  /\ routes[o].pc = "gate" /\ routes[o].left # <<>>
  /\ ~Reported(Head(routes[o].left))
  /\ routes' = [routes EXCEPT ![o] = [NoRoute EXCEPT !.pc = "done"]]
  /\ UNCHANGED <<slots, live, openIds, noticers, ghost>>

EnqueueOpen(o) ==
  /\ routes[o].pc = "gate" /\ routes[o].left = <<>>
  /\ slots' = [slots EXCEPT ![o].state = "queued"]
  /\ routes' = [routes EXCEPT ![o].pc = "queued"]
  /\ UNCHANGED <<live, openIds, noticers, ghost>>

RecordOpenId(o) ==
  /\ routes[o].pc = "queued"
  /\ openIds' = Last(Append(routes[o].ids, o), KeepIds)
  /\ routes' = [routes EXCEPT ![o] = [NoRoute EXCEPT !.pc = "done"]]
  /\ UNCHANGED <<slots, live, noticers, ghost>>

RouteStops(o) ==
  /\ routes[o].pc \in {"gate", "queued"}
  /\ routes' = [routes EXCEPT ![o] = [NoRoute EXCEPT !.pc = "done"]]
  /\ UNCHANGED <<slots, live, openIds, noticers, ghost>>

--------------------------------------------------------------------------------
(* The enclave and the host, the recovery's end, the table's TTL, and time. *)

HostCounts(o) ==
  /\ slots[o].state = "queued" /\ ~slots[o].gone
  /\ slots' = [slots EXCEPT ![o].state = "counted"]
  /\ UNCHANGED <<live, openIds, noticers, routes, ghost>>

RecoveryEnds ==
  /\ live
  /\ live' = FALSE
  /\ UNCHANGED <<slots, openIds, noticers, routes, ghost>>

(* The expires_at the slot was opened under passes.  The slot keeps it when *)
(* a counted attempt moves the recovery's own.                              *)
ExpiresAtPasses(o) ==
  /\ slots[o].state # "none"
  /\ slots[o].expired = 0
  /\ slots' = [slots EXCEPT ![o].expired = 1]
  /\ UNCHANGED <<live, openIds, noticers, routes, ghost>>

SlotGone(o) ==
  /\ slots[o].expired = Margin + 1
  /\ ~slots[o].gone
  /\ slots' = [slots EXCEPT ![o].gone = TRUE, ![o].noticing = Never]
  /\ UNCHANGED <<live, openIds, noticers, routes, ghost>>

(* No invocation outlives its timeout. *)
Tick ==
  /\ \A p \in Noticers : noticers[p].pc = "idle" \/ noticers[p].age < Timeout
  /\ slots' = [s \in Opens |->
       [slots[s] EXCEPT
          !.noticing = IF @ = Never THEN Never ELSE Older(@, OldAge),
          !.expired  = IF @ = 0 THEN 0 ELSE Older(@, Margin + 1)]]
  /\ noticers' = [p \in Noticers |->
       IF noticers[p].pc = "idle" THEN noticers[p]
       ELSE [noticers[p] EXCEPT !.age = @ + 1]]
  /\ UNCHANGED <<live, openIds, routes, ghost>>

--------------------------------------------------------------------------------
Init ==
  /\ slots = [o \in Opens |-> NoSlot]
  /\ live = TRUE
  /\ openIds = <<>>
  /\ noticers = [p \in Noticers |-> IdleNoticer]
  /\ routes = [o \in Opens |-> NoRoute]
  /\ audits = [o \in Opens |-> 0]
  /\ mails = [o \in Opens |-> 0]
  /\ unrecorded = [o \in Opens |-> 0]
  /\ before = [o \in Opens |-> {}]

Notice ==
  \E p \in Noticers :
    \/ AuditAttempt(p) \/ MailAttempt(p) \/ Stop(p)
    \/ \E s \in Opens : Look(p, s) \/ Sweep(p, s) \/ Claim(p, s) \/ Done(p, s)

OpenRoute ==
  \E o \in Opens :
    \/ OpenRead(o) \/ GatePasses(o) \/ GateRefuses(o)
    \/ EnqueueOpen(o) \/ RecordOpenId(o) \/ RouteStops(o)

Environment ==
  \/ Tick
  \/ RecoveryEnds
  \/ \E o \in Opens : HostCounts(o) \/ ExpiresAtPasses(o) \/ SlotGone(o)

Next == Notice \/ OpenRoute \/ Environment

Spec == Init /\ [][Next]_vars

(* The sweep runs every five minutes over every slot (EventBridge); the platform *)
(* ends every invocation; and neither the claim of a slot nor the record of      *)
(* giving it up fails at every try for ever.                                     *)
Fairness ==
  /\ SF_vars(Tick)
  /\ \A p \in Noticers : WF_vars(Stop(p))
  /\ \A s \in Opens :
       /\ SF_vars(\E p \in Noticers : Sweep(p, s))
       /\ SF_vars(\E p \in Noticers : Claim(p, s))
       /\ SF_vars(\E p \in Noticers : noticers[p].pc = "giveup" /\ Done(p, s))

FairSpec == Spec /\ Fairness

--------------------------------------------------------------------------------
(* Properties. *)

(* Every variable has its type, and the recovery keeps KeepIds opens at most. *)
TypeOK ==
  /\ slots \in [Opens -> Slot]
  /\ live \in BOOLEAN
  /\ openIds \in Seq(Opens) /\ Len(openIds) <= KeepIds
  /\ noticers \in [Noticers -> Noticer]
  /\ routes \in [Opens -> Route]
  /\ audits \in [Opens -> Nat] /\ mails \in [Opens -> Nat]
  /\ unrecorded \in [Opens -> Nat]
  /\ before \in [Opens -> SUBSET Opens]

Holds(p, s) ==
  noticers[p].slot = s /\ noticers[p].pc \in {"claimed", "audited", "mailed", "giveup"}

(* However many callers see the same unnoticed attempt, one at a time works   *)
(* on it: a claim is only taken over from an invocation that is dead.         *)
OneNoticer ==
  \A s \in Opens : \A p, q \in Noticers : Holds(p, s) /\ Holds(q, s) => p = q

(* The member is mailed about an attempt once, and again only because an      *)
(* earlier notice had sent its email and stopped before it could record that. *)
MailedOnce == \A s \in Opens : mails[s] <= 1 + unrecorded[s]

Stage ==
  [s \in Opens |->
     IF slots[s].failed THEN "abandoned"
     ELSE IF slots[s].noticed THEN "recorded"
     ELSE IF slots[s].state # "counted" THEN "none"
     ELSE IF slots[s].gone THEN "lost" ELSE "due"]

DutiesDone ==
  [s \in Opens |-> (IF audits[s] > 0 THEN {"audit"} ELSE {})
                      \cup (IF mails[s] > 0 THEN {"mail"} ELSE {})]

Protocol ==
  INSTANCE ClaimWorkRecord WITH Items <- Opens, Duties <- {"audit", "mail"},
                                stage <- Stage, done <- DutiesDone

(* An attempt is recorded as noticed only when it has been audited and mailed *)
(* (or is given up, marked failed), and nothing is sent for it afterwards.    *)
ClaimedWorkedRecorded == Protocol!Spec

(* Every counted attempt is in the end noticed, or given up, or its slot      *)
(* expires first: no client has to ask, and no death of a noticer stalls it.  *)
EveryAttemptNoticed ==
  \A s \in Opens : Counted(s) ~> slots[s].noticed \/ slots[s].gone

(* An open is forwarded only when every attempt that was counted before it,   *)
(* and is still on the recovery's list of opens, has been reported: one whose *)
(* notice is under way or keeps failing holds it back.                        *)
ListedNoticedBeforeOpen ==
  \A o \in Opens : routes[o].pc = "queued" =>
    \A i \in DOMAIN Last(routes[o].ids, KeepIds) :
      LET s == Last(routes[o].ids, KeepIds)[i]
      IN  s \in before[o] => slots[s].noticed \/ slots[s].gone

(* vault.ts: "Every earlier counted attempt is noticed (mailed, audited)      *)
(* before another open goes out".                                             *)
NoticedBeforeNextOpen ==
  \A o \in Opens : routes[o].pc = "queued" =>
    \A s \in before[o] : slots[s].noticed \/ slots[s].gone

--------------------------------------------------------------------------------
LOCAL INSTANCE TLC

\* For TLC: the opens are interchangeable.
OpenSymmetry == Permutations(Opens)
================================================================================
