------------------------------- MODULE RequestSlots -------------------------------
(***************************************************************************)
(* A vault's requests on their way to an enclave instance: who may ask     *)
(* (appCaller), where it goes (the lease, the release, the instances), the *)
(* slot put before the message, the host's answer into it and the polls    *)
(* (lambda/member/vault.ts, shared/vault-routing.ts, shared/app-auth.ts).  *)
(***************************************************************************)
EXTENDS Naturals, FiniteSets

CONSTANTS Keys,       \* signing keys of phones
          Releases,   \* release numbers; of each, one instance at a time
          Ids,        \* request ids, chosen by the phones
          Calls,      \* bound: invocations of the API at once
          MaxRetries  \* bound: calls made in all

VARIABLES
  vault,    \* the vault row (whether the member's pointer names it; whether the member is a canary)
  release,  \* the status of each release
  fleet,    \* its instance: none, a start asked for, or one whose heartbeat is fresh
  slot,     \* response slots, by request id
  queue,    \* messages in the instances' queues
  call,     \* invocations of POST enroll, unlock, lock and the recovery routes
  made      \* calls made so far

vars == <<vault, release, fleet, slot, queue, call, made>>

NoCall == [at |-> "idle", id |-> "none", key |-> "none", op |-> "none", inst |-> 0]
NoSlot == [status |-> "none", key |-> "none", age |-> 0]

TypeOK ==
  /\ vault \in [state : {"enrolling", "enrolled", "deleted"}, closing : BOOLEAN, current : BOOLEAN,
                app : Keys \cup {"none"}, pending : Keys \cup {"none"}, canary : BOOLEAN,
                lease : Releases \cup {0}, sealed : Releases \cup {0}]
  /\ release \in [Releases -> {"canary", "active", "retired", "removed", "rescue", "unavailable"}]
  /\ fleet \in [Releases -> {"none", "asked", "live"}]
  /\ slot \in [Ids -> [status : {"none", "queued", "done", "expired"}, key : Keys \cup {"none"}, age : 0..1]]
  /\ queue \in SUBSET [id : Ids, inst : Releases, call : Calls, key : Keys]
  /\ call \in [Calls -> [at : {"idle", "route", "slot", "send", "fail"}, id : Ids \cup {"none"},
                         key : Keys \cup {"none"}, op : {"none", "enroll", "unlock"}, inst : Releases \cup {0}]]
  /\ made \in 0..MaxRetries
  /\ vault.app # "none" => vault.state # "enrolling"

Newest(S) == CHOOSE n \in S : \A m \in S : m <= n

Init ==
  /\ \E k \in Keys, canary \in BOOLEAN :
       vault = [state |-> "enrolling", closing |-> FALSE, current |-> TRUE, app |-> "none", pending |-> k,
                canary |-> canary, lease |-> 0, sealed |-> 0]
  /\ release = [n \in Releases |-> IF n = Newest(Releases) THEN "canary" ELSE "active"]
  /\ fleet = [n \in Releases |-> "none"]
  /\ slot = [i \in Ids |-> NoSlot] /\ queue = {} /\ call = [c \in Calls |-> NoCall] /\ made = 0

--------------------------------------------------------------------------------
(* Who may ask and where it may go.                                        *)

\* The keys the row admits: the host's app key, and the redeem's until the host names it.
keysFor == {vault.app} \cup {vault.pending}

\* A deleted vault, and one whose account was deleted, answers its app key 410, others 401.
appCaller(k) ==
  IF vault.state = "deleted" THEN (IF k = vault.app THEN "vault_deleted" ELSE "unauthorized")
  ELSE IF vault.closing /\ k = vault.app THEN "account_deleted"
  ELSE IF k \notin keysFor \/ ~vault.current THEN "unauthorized"
  ELSE "admitted"

\* "rescue": removed and reopened; "unavailable": its image can no longer be started.
Closed == {"removed", "unavailable"}
routableAny(n) == release[n] \notin Closed   \* mutated form: canary releases for everyone
routable(n) == release[n] \notin Closed /\ (release[n] = "canary" => vault.canary)

releasesWithStatus(status) == {n \in Releases : release[n] = status}

\* What GET /api/vault/status tells of the release a vault is sealed to.
releaseNotice(n) ==
  CASE release[n] = "canary"  -> IF vault.canary THEN "none" ELSE "unavailable"
    [] release[n] = "active"  -> IF \E m \in releasesWithStatus("active") : m > n THEN "update_available" ELSE "none"
    [] release[n] = "retired" -> "final_warning"
    [] release[n] = "removed" -> "ended"
    [] OTHER                  -> release[n]

\* A canary member enrols into what is under test; nothing to enrol into is 503.
TargetsUntested == releasesWithStatus("active") \cup releasesWithStatus("canary")   \* mutated form
enrollmentTargets == IF vault.canary /\ releasesWithStatus("canary") # {} THEN releasesWithStatus("canary")
                     ELSE releasesWithStatus("active")

live == {n \in Releases : fleet[n] = "live"}

\* A lease counts only while its holder is live.
liveLease == IF vault.lease \in live THEN {vault.lease} ELSE {}
routeCheck(i) == i \in live /\ liveLease \subseteq {i}

\* What is to run for the vault, if it does not; the leaseholder is described as it is.
routeToRelease(n)  == IF routable(n) THEN {n} ELSE {}
routeForEnrollment == IF enrollmentTargets \cap live # {} \/ enrollmentTargets = {} THEN {}
                      ELSE {Newest(enrollmentTargets)}

\* GET /api/vault/enclave: a start is asked for, once a while.
ToRun == IF liveLease # {} THEN {} ELSE IF vault.sealed # 0 THEN routeToRelease(vault.sealed)
         ELSE routeForEnrollment

AskForEnclave ==
  /\ \E k \in Keys : appCaller(k) = "admitted"
  /\ \E n \in ToRun : fleet[n] = "none" /\ fleet' = [fleet EXCEPT ![n] = "asked"]
  /\ UNCHANGED <<vault, release, slot, queue, call, made>>

Call(c) ==
  /\ call[c].at = "idle" /\ made < MaxRetries
  /\ \E k \in Keys, i \in Ids :
       /\ appCaller(k) = "admitted"
       /\ call' = [call EXCEPT ![c] = [NoCall EXCEPT !.at = "route", !.id = i, !.key = k,
                                                     !.op = IF k = vault.app THEN "unlock" ELSE "enroll"]]
  /\ made' = made + 1
  /\ UNCHANGED <<vault, release, fleet, slot, queue>>

Admits(op, n) == IF op = "enroll" THEN n \in enrollmentTargets ELSE routable(n)

\* To the instance the request names; instance_moved, or release_unavailable, ends the call.
Route(c) ==
  /\ call[c].at = "route"
  /\ \E n \in Releases :
       call' = [call EXCEPT ![c] = IF routeCheck(n) /\ Admits(call[c].op, n)
                                   THEN [@ EXCEPT !.at = "slot", !.inst = n] ELSE NoCall]
  /\ UNCHANGED <<vault, release, fleet, slot, queue, made>>

--------------------------------------------------------------------------------
(* enqueue().                                                              *)

FreeAny(i) == slot[i].status \in {"none", "expired"}   \* mutated form: an expired slot is taken again
Free(i)    == slot[i].status = "none"

PutSlot(c) ==
  /\ call[c].at = "slot"
  /\ LET i == call[c].id IN
       IF Free(i)
       THEN /\ slot' = [slot EXCEPT ![i] = [status |-> "queued", key |-> call[c].key, age |-> 0]]
            /\ call' = [call EXCEPT ![c].at = "send"]
       ELSE call' = [call EXCEPT ![c] = NoCall] /\ UNCHANGED slot   \* 409 duplicate_request
  /\ UNCHANGED <<vault, release, fleet, queue, made>>

\* A send that fails may have been accepted all the same.
Send(c) ==
  /\ call[c].at = "send"
  /\ LET m == [id |-> call[c].id, inst |-> call[c].inst, call |-> c, key |-> call[c].key] IN
       \/ queue' = queue \cup {m} /\ call' = [call EXCEPT ![c] = NoCall]
       \/ queue' \in {queue, queue \cup {m}} /\ call' = [call EXCEPT ![c].at = "fail"]
  /\ UNCHANGED <<vault, release, fleet, slot, made>>

\* Whatever the slot holds by now.
MarkExpired(c) ==
  /\ call[c].at = "fail"
  /\ slot' = [slot EXCEPT ![call[c].id].status = "expired"]
  /\ call' = [call EXCEPT ![c] = NoCall]
  /\ UNCHANGED <<vault, release, fleet, queue, made>>

CallDies(c) ==
  /\ call[c].at # "idle" /\ call' = [call EXCEPT ![c] = NoCall]
  /\ UNCHANGED <<vault, release, fleet, slot, queue, made>>

--------------------------------------------------------------------------------
(* The host (external), the instances and time.                            *)

\* Its lease write is conditional on no other live holder.
HostAnswers ==
  /\ \E m \in queue :
       /\ m.inst \in live /\ vault.state # "deleted" /\ liveLease \subseteq {m.inst}
       /\ queue' = queue \ {m}
       /\ slot' = [slot EXCEPT ![m.id].status = "done"]
       /\ vault' = [vault EXCEPT !.lease = m.inst, !.sealed = m.inst,
                                 !.app = IF vault.state = "enrolling" THEN m.key ELSE @,
                                 !.state = "enrolled"]
  /\ UNCHANGED <<release, fleet, call, made>>

\* For this vault's start request or for another member's.
InstanceStarts ==
  /\ \E n \in Releases : /\ fleet[n] = "asked" \/ release[n] = "canary"
                         /\ fleet' = [fleet EXCEPT ![n] = "live"]
  /\ UNCHANGED <<vault, release, slot, queue, call, made>>

\* Its heartbeat ends; the messages in its queue stay until their retention ends.
InstanceStops ==
  /\ \E n \in live : fleet' = [fleet EXCEPT ![n] = "none"]
  /\ UNCHANGED <<vault, release, slot, queue, call, made>>

LeaseEnds ==
  /\ vault.lease # 0 /\ vault' = [vault EXCEPT !.lease = 0]
  /\ UNCHANGED <<release, fleet, slot, queue, call, made>>

\* The newest is promoted or given up; an older one ends while a newer one is active.
ReleaseMoves ==
  /\ \E n \in Releases, step \in {<<"canary", "active">>, <<"canary", "removed">>,
                                   <<"active", "retired">>, <<"retired", "removed">>,
                                   <<"removed", "rescue">>, <<"rescue", "removed">>, <<"removed", "unavailable">>} :
       /\ release[n] = step[1] /\ release' = [release EXCEPT ![n] = step[2]]
       /\ step[1] # "canary" => \E m \in releasesWithStatus("active") : m > n
  /\ UNCHANGED <<vault, fleet, slot, queue, call, made>>

\* A redeem of a new code, or a recovery, changes the row's keys.
NewPhone ==
  /\ vault.state # "deleted"
  /\ \E k \in Keys : vault' = IF vault.state = "enrolling" THEN [vault EXCEPT !.pending = k]
                              ELSE [vault EXCEPT !.app = k, !.pending = "none"]
  /\ UNCHANGED <<release, fleet, slot, queue, call, made>>

\* What a deleted vault's row still says of its lease and its account matters to nobody.
AccountOrVaultDeleted ==
  /\ \/ vault.state # "deleted" /\ ~vault.closing /\ vault' = [vault EXCEPT !.closing = TRUE]
     \/ vault.state # "deleted" /\ vault' = [vault EXCEPT !.state = "deleted", !.closing = FALSE, !.lease = 0]
     \/ vault.state = "deleted" /\ vault.current /\ vault' = [vault EXCEPT !.current = FALSE]
  /\ UNCHANGED <<release, fleet, slot, queue, call, made>>

\* Five minutes: the queue keeps a message no longer (QUEUE_RETENTION_S).  No
\* invocation lives as long.
InFlight(i) == \E c \in Calls : call[c].id = i /\ call[c].at \in {"send", "fail"}

RetentionNone(i)  == queue                         \* mutated form: the queue keeps it
RetentionEnds(i)  == {m \in queue : m.id # i}

QueueRetentionEnds(i) ==
  /\ slot[i].status # "none" /\ slot[i].age = 0 /\ ~InFlight(i)
  /\ queue' = RetentionEnds(i)
  /\ slot' = [slot EXCEPT ![i].age = 1]
  /\ UNCHANGED <<vault, release, fleet, call, made>>

\* Fifteen minutes: the slot's TTL (REQUEST_TTL_S); its id is then free.
SlotEnds(i) ==
  /\ slot[i].age = 1
  /\ slot' = [slot EXCEPT ![i] = NoSlot]
  /\ UNCHANGED <<vault, release, fleet, queue, call, made>>

\* GET /api/vault/requests/{id}: a slot still queued after its message's retention has expired.
Polled(k, i) ==
  IF appCaller(k) # "admitted" THEN appCaller(k)
  ELSE IF slot[i].status = "none" \/ slot[i].key # k THEN "no such request"
  ELSE IF slot[i].status = "queued" /\ slot[i].age = 1 THEN "expired" ELSE slot[i].status

CallNext(c) == Call(c) \/ Route(c) \/ PutSlot(c) \/ Send(c) \/ MarkExpired(c) \/ CallDies(c)
HostNext    == HostAnswers \/ InstanceStarts \/ InstanceStops \/ LeaseEnds
TimeNext    == \E i \in Ids : QueueRetentionEnds(i) \/ SlotEnds(i)
Next == AskForEnclave \/ (\E c \in Calls : CallNext(c)) \/ HostNext
        \/ ReleaseMoves \/ NewPhone \/ AccountOrVaultDeleted \/ TimeNext

Spec == Init /\ [][Next]_vars

--------------------------------------------------------------------------------
(* Every message an instance can take finds the slot of the call that sent *)
(* it, and no other message has its id: the host's answer is read by the   *)
(* key that asked and by nobody else, and a retried id is carried out once *)
(* (enqueue: the slot before the message, its id new; the slot's TTL is    *)
(* longer than the queue's retention).                                     *)
AnswerableOnce == \A m \in queue :
  /\ slot[m.id].status # "none" /\ slot[m.id].key = m.key
  /\ \A n \in queue : n.id = m.id => n = m
  /\ Polled(m.key, m.id) # "no such request"

(* A release under test has no vault of a member who is not a canary, to   *)
(* whichever instance a phone sends its request: only the canaries' vaults *)
(* are lost with it (enrollmentTargets, requireRoutable).                  *)
TestedOnly == ~vault.canary /\ vault.sealed # 0 => release[vault.sealed] # "canary"

(* The member is told that the vault's release is over exactly when no     *)
(* request is let through to it, for a canary and for everyone else, and   *)
(* while a removed one is reopened (releaseNotice, routable).              *)
NoticeTrue ==
  vault.sealed # 0 => (routable(vault.sealed) <=> releaseNotice(vault.sealed) \notin {"ended", "unavailable"})
================================================================================
