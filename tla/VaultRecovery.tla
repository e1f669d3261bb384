----------------------------- MODULE VaultRecovery -----------------------------
(***************************************************************************)
(* The recovery of one member's vault, and the start-over ("delete my      *)
(* vault") that excludes it, as the Member API keeps them on the vault's   *)
(* DynamoDB row (lambda/member/vault.ts).                                  *)
(*                                                                         *)
(* Every route is a Lambda invocation that reads the row, decides, and     *)
(* only later writes it back under a ConditionExpression.  Any number of   *)
(* invocations (the member's browser, the new phone, the email link, the   *)
(* five-minute sweep) run at once.  So a handler is two actions here: a    *)
(* read, which puts the write it decided on into inflight with all it will *)
(* use of what it read, and the write, whose guard is the code's           *)
(* condition, on the row as it is by then.  A write that loses its         *)
(* condition, or whose invocation dies, is dropped (Abandon).  A handler   *)
(* that makes several writes (a request first records a completion) is     *)
(* several such pairs, one after the other.                                *)
(*                                                                         *)
(* The parent host and the enclave are external: they answer the queued    *)
(* requests by writing slots and the row's app_key, at any later time and  *)
(* in any order.                                                           *)
(***************************************************************************)
EXTENDS Integers, FiniteSets

CONSTANTS
  RecoveryIds,     \* ULIDs of recovery requests; each is used once
  Keys,            \* kids of phones' app keys
  None,            \* no recovery, no key
  Delay,           \* RECOVERY_DELAY_S
  Validity,        \* RECOVERY_VALIDITY_S
  MaxSpan,         \* RECOVERY_MAX_SPAN_S
  DeletionDelay,   \* DELETION_DELAY_S
  MaxClaimKeys,    \* MAX_CLAIM_KEYS
  EnclaveTimes,    \* the times the enclave may name in its answers
  MaxClock,        \* bound: the clock stops here
  MaxInFlight,     \* bound: writes decided on and not yet made
  MaxAdoptions     \* bound: writes of app_key by the host

ASSUME NoneAssumption == None \notin RecoveryIds \cup Keys

ASSUME TimesAssumption ==
  /\ Delay \in Nat /\ Validity \in Nat /\ MaxSpan \in Nat /\ DeletionDelay \in Nat
  /\ EnclaveTimes \subseteq Nat
  /\ Delay + Validity <= MaxSpan

ASSUME BoundsAssumption ==
  /\ MaxClaimKeys \in Nat \ {0}
  /\ MaxClock \in Nat /\ MaxInFlight \in Nat /\ MaxAdoptions \in Nat

VARIABLES
  recovery,     \* the vault row's recovery map
  deletion,     \* the vault row's deletion map
  appKey,       \* the vault row's app_key, written by the host, and its seq
  answers,      \* the host's answer in each recovery request's own slot
  sent,         \* register requests queued, with the key that signed them
  registered,   \* those of them answered with the enclave's recovery_registered
  attempts,     \* the latest expires of a counted attempt's slot, per recovery
  inflight,     \* writes decided on by running invocations
  clock,
  used          \* recovery ids drawn

(* History: read by no action. *)
VARIABLES
  past,         \* how the row read for each recovery that has been replaced
  ends,         \* how often a write ended each recovery (each audits and mails)
  completions   \* what each completion rested on

row   == <<recovery, deletion, appKey>>
slots == <<answers, sent, registered, attempts>>
ghost == <<past, ends, completions>>
vars  == <<recovery, deletion, appKey, answers, sent, registered, attempts,
           inflight, clock, used, past, ends, completions>>

--------------------------------------------------------------------------------
(* The row and what the code derives from it. *)

Live   == {"pending", "registered"}
Ended  == {"cancelled", "unavailable", "completed"}
States == {"none"} \cup Live \cup Ended

Recovery ==
  [recovery_id    : RecoveryIds \cup {None},
   state          : States,
   requested_at   : Nat,
   available_at   : Nat,
   expires_at     : Nat,
   enclave_times  : BOOLEAN,
   claim_keys     : SUBSET Keys,
   recovering_key : Keys \cup {None},
   judged         : Nat]   \* history: app_key's seq when the recovering key was judged

NoRecovery ==
  [recovery_id |-> None, state |-> "none", requested_at |-> 0, available_at |-> 0,
   expires_at |-> 0, enclave_times |-> FALSE, claim_keys |-> {},
   recovering_key |-> None, judged |-> 0]

NoDeletion == [state |-> "none", deletes_at |-> 0]

NoAnswer == [kind |-> "none", not_before |-> 0, expires |-> 0]

Smaller(a, b) == IF a <= b THEN a ELSE b
Larger(a, b)  == IF a >= b THEN a ELSE b

RecoveryActive(r, now) == r.state \in Live /\ now < r.expires_at

RecoveryAvailable(r, now) ==
  r.state = "pending" /\ r.available_at <= now /\ now < r.expires_at

RecoveryCompleted ==
  /\ recovery.state = "registered"
  /\ recovery.recovering_key # None
  /\ recovery.recovering_key = appKey.kid

KeyInUseNever(k) == FALSE   \* mutated form: the key is not judged against app_key

KeyInUse(k) == k = appKey.kid

--------------------------------------------------------------------------------
(* Writes in flight. *)

Ops == {"request", "cancel", "complete", "refuse", "times", "claim", "judge",
        "register", "extend", "delete"}

Write ==
  [op    : Ops,
   id    : RecoveryIds \cup {None},  \* the recovery the condition names
   new   : RecoveryIds \cup {None},  \* request: the recovery to write
   key   : Keys \cup {None},         \* register: the recovering key; complete: the key compared
   keys  : SUBSET Keys,              \* claim: the list to write
   seq   : Nat,                      \* app_key's seq when key was compared with it
   at    : Nat,                      \* the handler's now; times: available_at
   until : Nat]                      \* times, extend: expires_at

WriteOf(op, id) ==
  [op |-> op, id |-> id, new |-> None, key |-> None, keys |-> {},
   seq |-> 0, at |-> 0, until |-> 0]

Begin(w) ==
  /\ Cardinality(inflight) < MaxInFlight
  /\ inflight' = inflight \cup {w}

End(w) == inflight' = inflight \ {w}

Names(w) == recovery.recovery_id = w.id

(* The vault's recovery has ended, by this write and no other. *)
Record(id) == ends' = [ends EXCEPT ![id] = @ + 1]

--------------------------------------------------------------------------------
(* POST /api/vault/recovery *)

RequestRead(id) ==
  /\ id \notin used
  /\ ~RecoveryCompleted
  /\ ~RecoveryActive(recovery, clock)
  /\ deletion.state = "none"
  /\ Begin([WriteOf("request", recovery.recovery_id) EXCEPT !.new = id, !.at = clock])
  /\ used' = used \cup {id}
  /\ UNCHANGED <<row, slots, clock, ghost>>

(* Mutated form: the start-over is looked at only when the row is read. *)
RequestConditionIdOnly(w) == Names(w)

RequestCondition(w) == Names(w) /\ deletion.state = "none"

SetRecovery(w) ==
  /\ w.op = "request"
  /\ RequestCondition(w)
  /\ recovery' = [NoRecovery EXCEPT
                    !.recovery_id  = w.new,
                    !.state        = "pending",
                    !.requested_at = w.at,
                    !.available_at = w.at + Delay,
                    !.expires_at   = w.at + Delay + Validity]
  /\ past' = [id \in RecoveryIds |->
                IF id # w.id THEN past[id]
                ELSE IF recovery.state \in Live THEN "lapsed" ELSE recovery.state]
  /\ End(w)
  /\ UNCHANGED <<deletion, appKey, slots, clock, used, ends, completions>>

--------------------------------------------------------------------------------
(* Cancels: the session and email-link routes, and a cancel from the phone, *)
(* which all make the same write.                                           *)

CancelRead ==
  /\ ~RecoveryCompleted
  /\ RecoveryActive(recovery, clock)
  /\ Begin([WriteOf("cancel", recovery.recovery_id) EXCEPT !.at = clock])
  /\ UNCHANGED <<row, slots, clock, used, ghost>>

(* Mutated form: the state is not compared again at the write. *)
CancelConditionAnyState(w) == Names(w) /\ recovery.expires_at > w.at

CancelCondition(w) ==
  /\ Names(w)
  /\ recovery.state \in Live
  /\ recovery.expires_at > w.at

CancelWrite(w) ==
  /\ w.op = "cancel"
  /\ CancelCondition(w)
  /\ recovery' = [recovery EXCEPT !.state = "cancelled"]
  /\ Record(w.id)
  /\ End(w)
  /\ UNCHANGED <<deletion, appKey, slots, clock, used, past, completions>>

--------------------------------------------------------------------------------
(* A completion: the host reports the recovering key as the vault's app key. *)

CompleteRead ==
  /\ RecoveryCompleted
  /\ Begin([WriteOf("complete", recovery.recovery_id) EXCEPT
              !.key = recovery.recovering_key, !.seq = appKey.seq])
  /\ UNCHANGED <<row, slots, clock, used, ghost>>

CompleteCondition(w) ==
  /\ Names(w)
  /\ recovery.state = "registered"
  /\ recovery.recovering_key = w.key

CompleteRecovery(w) ==
  /\ w.op = "complete"
  /\ CompleteCondition(w)
  /\ recovery' = [recovery EXCEPT !.state = "completed", !.claim_keys = {},
                                  !.recovering_key = None]
  /\ completions' = completions \cup
       {[judged |-> recovery.judged, adopted |-> w.seq]}
  /\ Record(w.id)
  /\ End(w)
  /\ UNCHANGED <<deletion, appKey, slots, clock, used, past>>

--------------------------------------------------------------------------------
(* A pending recovery from its own slot: the enclave's refusal, else its times. *)

PendingHere(id) ==
  /\ recovery.recovery_id = id
  /\ recovery.state = "pending"
  /\ clock < recovery.expires_at

RefuseRead(id) ==
  /\ PendingHere(id)
  /\ answers[id].kind = "refused"
  /\ Begin(WriteOf("refuse", id))
  /\ UNCHANGED <<row, slots, clock, used, ghost>>

PendingCondition(w) == Names(w) /\ recovery.state = "pending"

(* Mutated form: the slot's answer is copied as the recovery's state. *)
RefreshUnavailableCopied(w) ==
  /\ w.op = "refuse"
  /\ PendingCondition(w)
  /\ recovery' = [recovery EXCEPT !.state = answers[w.id].kind]
  /\ Record(w.id)
  /\ End(w)
  /\ UNCHANGED <<deletion, appKey, slots, clock, used, past, completions>>

RefreshUnavailable(w) ==
  /\ w.op = "refuse"
  /\ PendingCondition(w)
  /\ recovery' = [recovery EXCEPT !.state = "unavailable"]
  /\ Record(w.id)
  /\ End(w)
  /\ UNCHANGED <<deletion, appKey, slots, clock, used, past, completions>>

(* Mutated form: the enclave's time without the API's own floor. *)
AvailableAtUnfloored(r, answer) == answer.not_before

AvailableAt(r, answer) == Larger(r.requested_at + Delay, answer.not_before)

ExpiresAt(r, answer) ==
  Smaller(r.requested_at + MaxSpan,
          Larger(answer.expires, AvailableAt(r, answer) + Validity))

TimesRead(id) ==
  /\ PendingHere(id)
  /\ ~recovery.enclave_times
  /\ answers[id].kind = "times"
  /\ Begin([WriteOf("times", id) EXCEPT !.at    = AvailableAt(recovery, answers[id]),
                                        !.until = ExpiresAt(recovery, answers[id])])
  /\ UNCHANGED <<row, slots, clock, used, ghost>>

ApplyEnclaveTimes(w) ==
  /\ w.op = "times"
  /\ PendingCondition(w)
  /\ ~recovery.enclave_times
  /\ recovery' = [recovery EXCEPT !.available_at = w.at, !.expires_at = w.until,
                                  !.enclave_times = TRUE]
  /\ End(w)
  /\ UNCHANGED <<deletion, appKey, slots, clock, used, ghost>>

--------------------------------------------------------------------------------
(* The new phone claims the recovery and registers with the code. *)

(* refreshPending() has nothing to write; or its write will lose to one in    *)
(* flight, and the handler goes on with the recovery it read.                 *)
Refreshed(id) ==
  \/ /\ answers[id].kind # "refused"
     /\ answers[id].kind = "times" => recovery.enclave_times
  \/ \E w \in inflight :
       w.id = id /\ w.op \in {"refuse", "times", "cancel", "register", "request"}

ClaimRead(id, k) ==
  /\ recovery.recovery_id = id
  /\ ~KeyInUse(k)
  /\ Refreshed(id)
  /\ RecoveryAvailable(recovery, clock)
  /\ LET all == recovery.claim_keys \cup {k}
     IN  \E kept \in SUBSET all :
           /\ k \in kept
           /\ Cardinality(kept) = Smaller(Cardinality(all), MaxClaimKeys)
           /\ Begin([WriteOf("claim", id) EXCEPT !.keys = kept])
  /\ UNCHANGED <<row, slots, clock, used, ghost>>

ClaimRecovery(w) ==
  /\ w.op = "claim"
  /\ Names(w)
  /\ recovery' = [recovery EXCEPT !.claim_keys = w.keys]
  /\ End(w)
  /\ UNCHANGED <<deletion, appKey, slots, clock, used, ghost>>

(* POST /api/vault/recovery/register: forwarded, the row is not written. *)
RegisterRoute(id, k) ==
  /\ recovery.recovery_id = id
  /\ k \in recovery.claim_keys
  /\ ~KeyInUse(k)
  /\ Refreshed(id)
  /\ RecoveryAvailable(recovery, clock)
  /\ sent' = sent \cup {[id |-> id, key |-> k]}
  /\ UNCHANGED <<row, answers, registered, attempts, inflight, clock, used, ghost>>

(* A poll or a status read finds the slot answered recovery_registered. *)
RegisterRead(id, k) ==
  /\ [id |-> id, key |-> k] \in registered
  /\ recovery.recovery_id = id
  /\ recovery.state = "pending"
  /\ Begin([WriteOf("judge", id) EXCEPT !.key = IF k \in recovery.claim_keys THEN k ELSE None])
  /\ UNCHANGED <<row, slots, clock, used, ghost>>

(* The consistent read just before the write. *)
JudgeKey(w) ==
  /\ w.op = "judge"
  /\ inflight' = (inflight \ {w}) \cup
       {[w EXCEPT !.op = "register", !.seq = appKey.seq,
                  !.key = IF KeyInUse(w.key) THEN None ELSE w.key]}
  /\ UNCHANGED <<row, slots, clock, used, ghost>>

MarkRegistered(w) ==
  /\ w.op = "register"
  /\ PendingCondition(w)
  /\ recovery' = [recovery EXCEPT !.state = "registered", !.recovering_key = w.key,
                                  !.judged = w.seq]
  /\ End(w)
  /\ UNCHANGED <<deletion, appKey, slots, clock, used, ghost>>

--------------------------------------------------------------------------------
(* noticeAttempt(): a counted attempt began a wait, so the recovery stays open *)
(* longer.  Neither the read nor the write asks whether it has expired.        *)

ExtendRead(id) ==
  LET moved == Smaller(recovery.requested_at + MaxSpan, attempts[id])
  IN  /\ recovery.recovery_id = id
      /\ recovery.state = "registered"
      /\ moved > recovery.expires_at
      /\ Begin([WriteOf("extend", id) EXCEPT !.until = moved])
      /\ UNCHANGED <<row, slots, clock, used, ghost>>

ExtendExpiry(w) ==
  /\ w.op = "extend"
  /\ Names(w)
  /\ recovery.state = "registered"
  /\ recovery.expires_at < w.until
  /\ recovery' = [recovery EXCEPT !.expires_at = w.until]
  /\ End(w)
  /\ UNCHANGED <<deletion, appKey, slots, clock, used, ghost>>

--------------------------------------------------------------------------------
(* The start-over. *)

DeleteRead ==
  /\ ~RecoveryCompleted
  /\ ~RecoveryActive(recovery, clock)
  /\ deletion.state = "none"
  /\ Begin([WriteOf("delete", recovery.recovery_id) EXCEPT !.at = clock])
  /\ UNCHANGED <<row, slots, clock, used, ghost>>

RequestDeletion(w) ==
  /\ w.op = "delete"
  /\ Names(w)
  /\ deletion.state = "none"
  /\ deletion' = [state |-> "pending", deletes_at |-> w.at + DeletionDelay]
  /\ End(w)
  /\ UNCHANGED <<recovery, appKey, slots, clock, used, ghost>>

(* Conditional on the deletion it read and on pending, and on nothing else: *)
(* read and write are one step.                                             *)
CancelDeletion ==
  /\ deletion.state = "pending"
  /\ deletion' = NoDeletion
  /\ UNCHANGED <<recovery, appKey, slots, inflight, clock, used, ghost>>

ExecuteStartOver ==
  /\ deletion.state = "pending"
  /\ deletion.deletes_at <= clock
  /\ deletion' = [deletion EXCEPT !.state = "executing"]
  /\ UNCHANGED <<recovery, appKey, slots, inflight, clock, used, ghost>>

--------------------------------------------------------------------------------
(* External: the host and the enclave, a failed write, and time. *)

Requested(id) == id = recovery.recovery_id \/ past[id] # "none"

HostAnswers(id, answer) ==
  /\ Requested(id)
  /\ answers[id] = NoAnswer
  /\ answer.kind = "refused" => \A r \in registered : r.id # id
  /\ answers' = [answers EXCEPT ![id] = answer]
  /\ UNCHANGED <<row, sent, registered, attempts, inflight, clock, used, ghost>>

HostRegisters(r) ==
  /\ r \in sent
  /\ answers[r.id].kind # "refused"
  /\ \A s \in registered : s.id # r.id
  /\ registered' = registered \cup {r}
  /\ UNCHANGED <<row, answers, sent, attempts, inflight, clock, used, ghost>>

HostCountsAttempt(r, expires) ==
  /\ r \in registered
  /\ expires > attempts[r.id]
  /\ attempts' = [attempts EXCEPT ![r.id] = expires]
  /\ UNCHANGED <<row, answers, sent, registered, inflight, clock, used, ghost>>

HostAdopts(r) ==
  /\ r \in registered
  /\ appKey.seq < MaxAdoptions
  /\ appKey' = [kid |-> r.key, seq |-> appKey.seq + 1]
  /\ UNCHANGED <<recovery, deletion, slots, inflight, clock, used, ghost>>

Abandon(w) ==
  /\ End(w)
  /\ UNCHANGED <<row, slots, clock, used, ghost>>

Tick ==
  /\ clock < MaxClock
  /\ clock' = clock + 1
  /\ UNCHANGED <<row, slots, inflight, used, ghost>>

--------------------------------------------------------------------------------
Init ==
  /\ recovery = NoRecovery
  /\ deletion = NoDeletion
  /\ \E k \in Keys : appKey = [kid |-> k, seq |-> 0]
  /\ answers = [id \in RecoveryIds |-> NoAnswer]
  /\ sent = {}
  /\ registered = {}
  /\ attempts = [id \in RecoveryIds |-> 0]
  /\ inflight = {}
  /\ clock = 0
  /\ used = {}
  /\ past = [id \in RecoveryIds |-> "none"]
  /\ ends = [id \in RecoveryIds |-> 0]
  /\ completions = {}

Reads ==
  \/ CancelRead
  \/ CompleteRead
  \/ DeleteRead
  \/ \E id \in RecoveryIds :
       \/ RequestRead(id)
       \/ RefuseRead(id)
       \/ TimesRead(id)
       \/ ExtendRead(id)
       \/ \E k \in Keys : ClaimRead(id, k) \/ RegisterRoute(id, k) \/ RegisterRead(id, k)

Writes ==
  \/ CancelDeletion
  \/ ExecuteStartOver
  \/ \E w \in inflight :
       \/ SetRecovery(w)
       \/ CancelWrite(w)
       \/ CompleteRecovery(w)
       \/ RefreshUnavailable(w)
       \/ ApplyEnclaveTimes(w)
       \/ ClaimRecovery(w)
       \/ JudgeKey(w)
       \/ MarkRegistered(w)
       \/ ExtendExpiry(w)
       \/ RequestDeletion(w)
       \/ Abandon(w)

(* An answer that names no times changes nothing on the row: it counts as none. *)
Answer ==
  [kind : {"refused"}, not_before : {0}, expires : {0}]
    \cup [kind : {"times"}, not_before : EnclaveTimes, expires : EnclaveTimes]

Environment ==
  \/ Tick
  \/ \E id \in RecoveryIds, answer \in Answer : HostAnswers(id, answer)
  \/ \E r \in sent : HostRegisters(r) \/ HostAdopts(r)
  \/ \E r \in sent, expires \in EnclaveTimes : HostCountsAttempt(r, expires)

Next == Reads \/ Writes \/ Environment

Spec == Init /\ [][Next]_vars

--------------------------------------------------------------------------------
(* Properties. *)

(* Every variable has its type: the row's recovery has the states and fields *)
(* of RecoveryRow, and each write in flight is one a handler decides on.     *)
TypeOK ==
  /\ recovery \in Recovery
  /\ deletion \in [state : {"none", "pending", "executing"}, deletes_at : Nat]
  /\ appKey \in [kid : Keys, seq : Nat]
  /\ answers \in [RecoveryIds -> [kind : {"none", "refused", "times"},
                                  not_before : Nat, expires : Nat]]
  /\ sent \subseteq [id : RecoveryIds, key : Keys]
  /\ registered \subseteq sent
  /\ attempts \in [RecoveryIds -> Nat]
  /\ inflight \subseteq Write
  /\ clock \in Nat
  /\ used \subseteq RecoveryIds
  /\ past \in [RecoveryIds -> States \cup {"lapsed"}]
  /\ ends \in [RecoveryIds -> Nat]
  /\ completions \subseteq [judged : Nat, adopted : Nat]

(* However many cancels (session, email link, phone), completions and refusals *)
(* of one recovery run at once, one of them ends it: its audit entry and its   *)
(* email are the only ones, so the member is never told two endings.           *)
OneEnd == \A id \in RecoveryIds : ends[id] <= 1

(* A recovery is recorded as completed (and "your vault was recovered" mailed) *)
(* only on an app_key that the host wrote after the API last saw that the      *)
(* vault's app key was another: a phone that was already the vault's app, and  *)
(* registered again with its old key, completes nothing.                       *)
TrueCompletion == \A c \in completions : c.adopted > c.judged

(* No phone becomes a claimer, and no code is taken as spent, before the 24 h  *)
(* the API itself waits, whatever times the enclave sends and however late a   *)
(* handler writes what it read; and no recovery outlives the API's cap.        *)
ApiFloor ==
  recovery.state # "none" =>
    /\ recovery.available_at >= recovery.requested_at + Delay
    /\ recovery.expires_at <= recovery.requested_at + MaxSpan
    /\ recovery.claim_keys # {} => clock >= recovery.requested_at + Delay
    /\ recovery.recovering_key # None => clock >= recovery.requested_at + Delay

(* A start-over and a recovery keep apart for the whole time the API itself    *)
(* gives a recovery (the delay and the code's validity): neither is accepted   *)
(* while the other is, however their reads and writes interleave.  Beyond that *)
(* time only an expires_at moved late (the enclave's times, a counted          *)
(* attempt's wait) can bring a recovery back beside a start-over.              *)
StartOverApart ==
  deletion.state # "none" /\ recovery.state \in Live =>
    clock >= recovery.requested_at + Delay + Validity

(* What has become of each recovery: the row's own state, or as it was replaced. *)
Stage ==
  [id \in RecoveryIds |->
     IF id = recovery.recovery_id THEN recovery.state ELSE past[id]]

Lifecycle == INSTANCE RecoveryLifecycle WITH stage <- Stage

(* The rows' recoveries follow the life cycle the API promises: no ended       *)
(* recovery is ever revived or ended again in another way, no spent code       *)
(* becomes available again, and a replaced one is never written.               *)
FollowsLifecycle == Lifecycle!Spec

(* MEMBER-API: a recovery request and a start-over are refused while a         *)
(* recovery is pending, available or registered before its expires_at.         *)
RefusedWhileActive ==
  [][ \/ recovery'.recovery_id # recovery.recovery_id
      \/ deletion.state = "none" /\ deletion'.state = "pending"
      => ~RecoveryActive(recovery, clock) ]_vars

--------------------------------------------------------------------------------
LOCAL INSTANCE TLC

\* For TLC: a phone's key, and the id of a recovery, is only compared and drawn, never ordered.
KeySymmetry == Permutations(Keys)
Symmetry == Permutations(RecoveryIds) \cup KeySymmetry
================================================================================
