-------------------------------- MODULE VaultLock --------------------------------
(***************************************************************************)
(* Opening and locking a vault: the app's unlock and its lock, the account *)
(* page's lock with the words it ends in (sites/account/js/vault.js,       *)
(* vault-text.js), the routes that forward them by the row's lease, and    *)
(* the polls of their slots (lambda/member/vault.ts).  Whose key asks, the *)
(* slot before its message and a slot's end are RequestSlots'.             *)
(***************************************************************************)
EXTENDS Integers, FiniteSets

CONSTANTS Instances, Old,     \* enclave instances; those of a release before L, whose locks end without a code
          Nobody,
          MaxRequests         \* bound: requests made; a request's number is its id and its time

VARIABLES
  vault,   \* the vault row: the host's record of its state, its lease
  inst,    \* instances: heartbeat, and the unlock whose vault they run, 0 none
  queue,   \* messages in the instances' queues
  slot,    \* response slots
  call,    \* the route of each request: what it read
  page,    \* the account page's Vault tab
  quiet    \* since the lock was clicked, the vault was closed at some moment

vars == <<vault, inst, queue, slot, call, page, quiet>>

Requests == 1..MaxRequests
Codes == {"locked", "not_running", "stale"}      \* LOCK_CODES
NoCall == [at |-> "none", op |-> "none", bound |-> 0, inst |-> Nobody]
NoSlot == [status |-> "none", code |-> "none"]

TypeOK ==
  /\ vault \in [state : {"locked", "unlocked"}, lease : Instances \cup {Nobody}]
  /\ inst \in [Instances -> [live : BOOLEAN, runs : 0..MaxRequests]]
  /\ queue \subseteq [id : Requests, op : {"unlock", "lock"}, inst : Instances, bound : 0..MaxRequests]
  /\ slot \in [Requests -> [status : {"none", "queued", "done", "expired"}, code : Codes \cup {"none"}]]
  /\ \A r \in Requests : call[r].at \in {"none", "read", "over"}
  /\ page.at \in {"loading", "shown", "locking", "over"} /\ page.can \in BOOLEAN
  /\ page.id \in 0..MaxRequests /\ page.tries \in 0..2
  /\ page.outcome \in Codes \cup {"none", "done", "expired", "unknown"} /\ quiet \in BOOLEAN

Init ==
  /\ vault = [state |-> "locked", lease |-> Nobody]
  /\ inst = [i \in Instances |-> [live |-> TRUE, runs |-> 0]]
  /\ queue = {} /\ slot = [r \in Requests |-> NoSlot] /\ call = [r \in Requests |-> NoCall]
  /\ page = [at |-> "loading", can |-> FALSE, id |-> 0, tries |-> 0, outcome |-> "none"]
  /\ quiet = FALSE

--------------------------------------------------------------------------------
(* What the routes read.                                                   *)

Made == {r \in Requests : call[r].at # "none"}
New  == Cardinality(Made) + 1

Open == \E i \in Instances : inst[i].live /\ inst[i].runs # 0 /\ vault.lease = i
Noted == quiet' = (quiet \/ ~Open')

LiveByState == IF vault.state = "unlocked" THEN {i \in Instances : vault.lease = i /\ inst[i].live} ELSE {}  \* mutated form
LiveLease   == {i \in Instances : vault.lease = i /\ inst[i].live}

RouteCheck(i) == inst[i].live /\ LiveLease \subseteq {i}

\* Its request is on its way: a route that read where it goes.
Ask(r, op, bound, i) == call' = [call EXCEPT ![r] = [at |-> "read", op |-> op, bound |-> bound, inst |-> i]]

\* POST /api/vault/unlock, with the instance the app was told.
Unlock ==
  /\ New \in Requests
  /\ \E i \in Instances : RouteCheck(i) /\ Ask(New, "unlock", 0, i)
  /\ UNCHANGED <<vault, inst, queue, slot, page>> /\ Noted

\* POST /api/vault/lock: to the holder of a live lease, else nobody runs the vault.
Holder == IF LiveLease = {} THEN Nobody ELSE CHOOSE i \in LiveLease : TRUE

\* The app names the unlock it locks.
AppLock ==
  /\ New \in Requests
  /\ \E u \in Made : call[u].op = "unlock" /\ Ask(New, "lock", u, Holder)
  /\ UNCHANGED <<vault, inst, queue, slot, page>> /\ Noted

\* enqueue(), or the slot done at once.
Write(r) ==
  /\ call[r].at = "read" /\ call' = [call EXCEPT ![r].at = "over"]
  /\ \/ /\ call[r].inst # Nobody
        /\ slot' = [slot EXCEPT ![r].status = "queued"]
        /\ queue' = queue \cup {[id |-> r, op |-> call[r].op, inst |-> call[r].inst, bound |-> call[r].bound]}
     \/ /\ call[r].inst # Nobody                        \* the send fails
        /\ slot' = [slot EXCEPT ![r].status = "expired"] /\ UNCHANGED queue
     \/ /\ call[r].inst = Nobody
        /\ slot' = [slot EXCEPT ![r] = [status |-> "done", code |-> "not_running"]] /\ UNCHANGED queue
  /\ UNCHANGED <<vault, inst, page>> /\ Noted

--------------------------------------------------------------------------------
(* The account page.                                                       *)

\* GET /api/vault/status: a lock is offered of a vault that is open or leased.
Load ==
  /\ page.at = "loading"
  /\ page' = [page EXCEPT !.at = IF page.outcome = "none" THEN "shown" ELSE "over", !.can = vault.state = "unlocked" \/ vault.lease # Nobody]
  /\ UNCHANGED <<vault, inst, queue, slot, call>> /\ Noted

Reload ==
  /\ page.at \in {"shown", "over"}
  /\ page' = [page EXCEPT !.at = "loading", !.outcome = "none"]
  /\ UNCHANGED <<vault, inst, queue, slot, call>> /\ Noted

\* Each attempt is a request of its own; its route may read later states than the click's.
Click ==
  /\ page.at \in {"shown", "over"} /\ page.can /\ New \in Requests
  /\ page' = [page EXCEPT !.at = "locking", !.id = 0, !.tries = 0, !.outcome = "none"]
  /\ quiet' = ~Open
  /\ UNCHANGED <<vault, inst, queue, slot, call>>

PageLock ==
  /\ page.at = "locking" /\ page.id = 0
  /\ \/ /\ New \in Requests /\ Ask(New, "lock", 0, Holder)
        /\ page' = [page EXCEPT !.id = New, !.tries = @ + 1]
     \/ page' = [page EXCEPT !.at = "shown"] /\ UNCHANGED call      \* the call fails
  /\ UNCHANGED <<vault, inst, queue, slot>> /\ Noted

\* waitForRequest(): the slot's code, or no answer in thirty seconds.
Poll ==
  /\ page.at = "locking" /\ page.id # 0
  /\ \E o \in {"unknown"} \cup {IF slot[page.id].code = "none" THEN slot[page.id].status ELSE slot[page.id].code} :
       /\ o \notin {"none", "queued"}
       /\ page' = IF o = "stale" /\ page.tries < 2 THEN [page EXCEPT !.id = 0]
                  ELSE [page EXCEPT !.at = "loading", !.outcome = o]
  /\ UNCHANGED <<vault, inst, queue, slot, call>> /\ Noted

\* lockNotice().
SaysDone == page.outcome \in {"locked", "not_running", "done"}    \* mutated form: an answer without a code too
Says     == page.outcome \in {"locked", "not_running"}

--------------------------------------------------------------------------------
(* The host and the enclave (external).                                    *)

\* A message is taken by its instance, in whatever order.
TakeUnlock(m) ==
  /\ m.op = "unlock" /\ slot' = [slot EXCEPT ![m.id].status = "done"]
  /\ \/ /\ LiveLease \subseteq {m.inst} /\ inst' = [inst EXCEPT ![m.inst].runs = m.id]
        /\ vault' = [vault EXCEPT !.lease = m.inst]
     \/ UNCHANGED <<inst, vault>>         \* a wrong PIN, or another holder

\* A lock queued after the vault's unlock, or one that names it.
Locks(m) == LET u == inst[m.inst].runs IN u # 0 /\ (m.bound = u \/ (m.bound = 0 /\ u < m.id))

TakeLock(m) ==
  /\ m.op = "lock"
  /\ \/ /\ Locks(m)
        /\ inst' = [inst EXCEPT ![m.inst].runs = 0] /\ vault' = [vault EXCEPT !.lease = Nobody]
     \/ (~Locks(m) \/ m.inst \in Old) /\ UNCHANGED <<inst, vault>>
  /\ slot' = [slot EXCEPT ![m.id] =
       [status |-> "done", code |-> IF m.inst \in Old THEN "none" ELSE IF Locks(m) THEN "locked"
                                    ELSE IF inst[m.inst].runs = 0 THEN "not_running" ELSE "stale"]]

Take ==
  /\ \E m \in queue : inst[m.inst].live /\ queue' = queue \ {m} /\ (TakeUnlock(m) \/ TakeLock(m))
  /\ UNCHANGED <<call, page>> /\ Noted

\* The row's state follows later.
Record ==
  /\ vault' = [vault EXCEPT !.state = IF Open THEN "unlocked" ELSE "locked"] /\ vault' # vault
  /\ UNCHANGED <<inst, queue, slot, call, page>> /\ Noted

\* An instance is gone; its lease stays on the row till it runs out.
Stops ==
  /\ \E i \in Instances : inst[i].live /\ inst' = [inst EXCEPT ![i] = [live |-> FALSE, runs |-> 0]]
  /\ UNCHANGED <<vault, queue, slot, call, page>> /\ Noted

LeaseRunsOut ==
  /\ vault.lease # Nobody /\ LiveLease = {} /\ vault' = [vault EXCEPT !.lease = Nobody]
  /\ UNCHANGED <<inst, queue, slot, call, page>> /\ Noted

Next ==
  \/ Unlock \/ AppLock \/ (\E r \in Requests : Write(r))
  \/ Load \/ Reload \/ Click \/ PageLock \/ Poll
  \/ Take \/ Record \/ Stops \/ LeaseRunsOut

Spec == Init /\ [][Next]_vars

--------------------------------------------------------------------------------
(* When the page ends a lock with "Your vault is locked.", the vault was   *)
(* closed at some moment since the click, however requests, messages and   *)
(* the row's late state cross (vault.js, lockButton; vault-text.js,        *)
(* lockNotice: "only `locked` and `not_running` say the vault is locked"). *)
LockedSaid == page.at = "over" /\ Says => quiet
================================================================================
