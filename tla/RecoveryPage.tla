------------------------------ MODULE RecoveryPage ------------------------------
(***************************************************************************)
(* The account site's recovery page (sites/account/js/recovery.js,         *)
(* recovery-keys.js, recovery-code.js): the key this browser makes for a   *)
(* recovery must be there when the code sealed to it arrives, a day later. *)
(* Tabs of one browser share the keys (IndexedDB); each loads, polls,      *)
(* requests and cancels, and any answer may be late or lost.               *)
(***************************************************************************)
EXTENDS Integers, FiniteSets

CONSTANTS Tabs,
          MaxRequests,  \* bound: keys this browser makes
          MaxElsewhere, \* bound: recoveries requested in another browser
          MaxFaults,    \* bound: answers lost or failed
          MaxTime       \* bound

VARIABLES
  rec,    \* the vault's recovery at the API: its number, state, when requested, and the key it is sealed to
  keys,   \* the keys stored here, each unbound (n = 0) or bound to a recovery, and when it was made
  load,   \* of each tab: a load under way, and what it fetched
  op,     \* of each tab: a request or a cancel under way, with its key or recovery
  page,   \* of each tab: the recovery it shows, and whether the code is on the screen
  astray, \* keys dropped by a load that overlapped their request, or after an answer that was no refusal
  made, elsewhere, faults, now

vars == <<rec, keys, load, op, page, astray, made, elsewhere, faults, now>>

NoRec    == [n |-> 0, state |-> "none", at |-> 0, key |-> 0]
NoLoad   == [at |-> "idle", seen |-> NoRec]
NoOp     == [at |-> "idle", key |-> 0, n |-> 0]
Unloaded == [rec |-> NoRec, view |-> "loading", shown |-> FALSE]

States == {"none", "pending", "available", "unavailable", "registered", "ended"}
Views  == {"loading", "error", "request", "refused", "pending", "code", "no_key", "registered"}
Recs   == [n : 0..MaxRequests + MaxElsewhere, state : States, at : 0..MaxTime, key : 0..MaxRequests]

TypeOK ==
  /\ rec \in Recs /\ keys \subseteq [key : 1..made, n : 0..rec.n, at : 0..now]
  /\ load \in [Tabs -> [at : {"idle", "fetch", "prune"}, seen : Recs]]
  /\ op \in [Tabs -> [at : {"idle", "post", "bind", "drop", "cancel", "gone", "check"}, key : 0..made, n : 0..rec.n]]
  /\ page \in [Tabs -> [rec : Recs, view : Views, shown : BOOLEAN]]
  /\ astray \subseteq 1..made /\ made \in 0..MaxRequests /\ elsewhere \in 0..MaxElsewhere
  /\ faults \in 0..MaxFaults /\ now \in 0..MaxTime

Init ==
  /\ rec = NoRec /\ keys = {} /\ load = [t \in Tabs |-> NoLoad] /\ op = [t \in Tabs |-> NoOp]
  /\ page = [t \in Tabs |-> Unloaded] /\ astray = {}
  /\ made = 0 /\ elsewhere = 0 /\ faults = 0 /\ now = 0

Active(r)   == r.state \in {"pending", "available", "registered"}
NeedsKey(r) == r.state \in {"pending", "available", "unavailable"}

--------------------------------------------------------------------------------
(* recovery-keys.js.                                                       *)

\* prune(): what a load of r drops.  A key made shortly before the request may be its key.
DroppedUnbound(r) == {k \in keys : ~NeedsKey(r) \/ k.n # r.n}   \* mutated form: unbound keys too
Dropped(r) ==
  {k \in keys : \/ ~NeedsKey(r)
                \/ k.n # 0 /\ k.n # r.n
                \/ k.n = 0 /\ k.at < r.at - 1}

Candidates(r) == {k \in keys : k.n \in {0, r.n}}
\* openSealedCode(): only the key it was sealed to opens it, and only for its recovery.
Opens(k, r) == k.key = r.key

\* classify(): the key that opens the code is bound to its recovery.
Bound(r) ==
  IF r.state \in {"available", "unavailable"}
  THEN {IF k \in Candidates(r) /\ Opens(k, r) THEN [k EXCEPT !.n = r.n] ELSE k : k \in keys}
  ELSE keys

--------------------------------------------------------------------------------
(* load(), poll() and what is drawn.                                       *)

\* render(): a request, what is under way with its cancel, or the vault's refusal.
View(r) ==
  CASE r.state = "pending"     -> "pending"
    [] r.state = "available"   -> IF \E k \in Candidates(r) : Opens(k, r) THEN "code" ELSE "no_key"
    [] r.state = "registered"  -> "registered"
    [] r.state = "unavailable" -> "refused"
    [] OTHER                   -> "request"

\* The page opens, comes back from the browser's cache, or tries again; a poll that saw a change.
StartLoad(t) ==
  /\ load[t].at = "idle"
  /\ load' = [load EXCEPT ![t] = [NoLoad EXCEPT !.at = "fetch"]]
  /\ UNCHANGED <<rec, keys, op, page, astray, made, elsewhere, faults, now>>

Fetch(t) ==
  /\ load[t].at = "fetch"
  /\ load' = [load EXCEPT ![t] = [at |-> "prune", seen |-> rec]]
  /\ UNCHANGED <<rec, keys, op, page, astray, made, elsewhere, faults, now>>

LoadFails(t) ==
  /\ load[t].at = "fetch" /\ faults < MaxFaults /\ faults' = faults + 1
  /\ load' = [load EXCEPT ![t] = NoLoad]
  /\ page' = [page EXCEPT ![t] = [@ EXCEPT !.view = "error", !.shown = FALSE]]
  /\ op' = [op EXCEPT ![t] = IF @.at = "check" THEN NoOp ELSE @]     \* reload_failed: the key stays
  /\ UNCHANGED <<rec, keys, astray, made, elsewhere, now>>

\* A key of a request under way, or made for one this load has not seen.
Overlaps(k, r) == (\E t \in Tabs : op[t].at # "idle" /\ op[t].key = k) \/ (rec.n > r.n /\ rec.key = k)

\* recoveryGone(): cancelGoneOutcome() on what this load fetched.
GoneKeysAny(t) == IF op[t].at = "check" THEN {k \in keys : NeedsKey(load[t].seen) /\ k.n # 0} ELSE {}   \* mutated form: whatever the reload says
GoneKeys(t) == IF op[t].at = "check" /\ load[t].seen.n # op[t].n THEN {k \in keys : k.n = op[t].n} ELSE {}

PruneAndDraw(t) ==
  /\ load[t].at = "prune"
  /\ LET r == load[t].seen  D == Dropped(r) \cup GoneKeys(t)
     IN /\ keys' = Bound(r) \ (D \cup {[k EXCEPT !.n = r.n] : k \in D})
        /\ astray' = astray \cup {k.key : k \in {d \in D : Overlaps(d.key, r)}}
        /\ page' = [page EXCEPT ![t] = [rec |-> r, view |-> View(r), shown |-> FALSE]]
  /\ load' = [load EXCEPT ![t] = NoLoad]
  /\ op' = [op EXCEPT ![t] = IF @.at = "check" THEN NoOp ELSE @]
  /\ UNCHANGED <<rec, made, elsewhere, faults, now>>

\* poll(): nothing changed keeps the page, and a code on the screen, as it is.
Poll(t) ==
  /\ load[t].at = "idle" /\ Active(page[t].rec)
  /\ \/ /\ rec.n = page[t].rec.n /\ rec.state = page[t].rec.state
        /\ page' = [page EXCEPT ![t].rec = rec] /\ UNCHANGED load
     \/ /\ rec.n # page[t].rec.n \/ rec.state # page[t].rec.state
        /\ load' = [load EXCEPT ![t] = [NoLoad EXCEPT !.at = "fetch"]] /\ UNCHANGED page
  /\ UNCHANGED <<rec, keys, op, astray, made, elsewhere, faults, now>>

\* showCode(), and again to hide it; pagehide.
ShowCode(t) ==
  /\ page[t].view = "code" /\ \E k \in keys : Opens(k, page[t].rec)
  /\ page' = [page EXCEPT ![t].shown = ~@]
  /\ UNCHANGED <<rec, keys, load, op, astray, made, elsewhere, faults, now>>

Leave(t) ==
  /\ page[t].view # "loading" /\ op[t].at = "idle"
  /\ page' = [page EXCEPT ![t] = Unloaded] /\ load' = [load EXCEPT ![t] = NoLoad]
  /\ UNCHANGED <<rec, keys, op, astray, made, elsewhere, faults, now>>

--------------------------------------------------------------------------------
(* startRecovery() and cancelRecovery().                                   *)

CreateKey(t) ==
  /\ op[t].at = "idle" /\ page[t].view = "request" /\ made < MaxRequests
  /\ made' = made + 1
  /\ keys' = keys \cup {[key |-> made', n |-> 0, at |-> now]}
  /\ op' = [op EXCEPT ![t] = [at |-> "post", key |-> made', n |-> 0]]
  /\ UNCHANGED <<rec, load, page, astray, elsewhere, faults, now>>

NewRec(k) == [n |-> rec.n + 1, state |-> "pending", at |-> now, key |-> k]

\* A request that meets an active recovery is refused; one that is written may be
\* answered, lost on the way back, or answered 500 by a step that follows (the queue, the audit).
Post(t) ==
  /\ op[t].at = "post"
  /\ \/ /\ Active(rec) /\ op' = [op EXCEPT ![t].at = "drop"] /\ UNCHANGED <<rec, faults>>
     \/ /\ ~Active(rec) /\ rec' = NewRec(op[t].key) /\ UNCHANGED faults
        /\ op' = [op EXCEPT ![t] = [at |-> "bind", key |-> op[t].key, n |-> rec'.n]]
     \/ /\ ~Active(rec) /\ rec' = NewRec(op[t].key)
        /\ faults < MaxFaults /\ faults' = faults + 1
        /\ op' \in {[op EXCEPT ![t] = NoOp], [op EXCEPT ![t] = [at |-> "drop", key |-> op[t].key, n |-> rec'.n]]}
     \/ /\ faults < MaxFaults /\ faults' = faults + 1 /\ op' = [op EXCEPT ![t] = NoOp] /\ UNCHANGED rec
  /\ UNCHANGED <<keys, load, page, astray, made, elsewhere, now>>

\* bindKey(); the page loads what there is now.
Bind(t) ==
  /\ op[t].at = "bind" /\ load[t].at = "idle"
  /\ keys' = {k \in keys : k.key # op[t].key} \cup {[key |-> op[t].key, n |-> op[t].n, at |-> now]}
  /\ op' = [op EXCEPT ![t] = NoOp] /\ load' = [load EXCEPT ![t] = [NoLoad EXCEPT !.at = "fetch"]]
  /\ UNCHANGED <<rec, page, astray, made, elsewhere, faults, now>>

DropsAll(t) == op[t].at \in {"drop", "bind"}   \* mutated form: the key goes whatever the answer was
Drops(t) == op[t].at = "drop"

\* "A definite refusal": any answer with a status.
DropKey(t) ==
  /\ Drops(t)
  /\ keys' = {k \in keys : k.key # op[t].key}
  /\ astray' = IF op[t].n # 0 /\ op[t].at = "drop" THEN astray \cup {op[t].key} ELSE astray
  /\ op' = [op EXCEPT ![t] = NoOp]
  /\ UNCHANGED <<rec, load, page, made, elsewhere, faults, now>>

Cancel(t) ==
  /\ op[t].at = "idle" /\ Active(page[t].rec) /\ page[t].view \notin {"error", "loading"}
  /\ op' = [op EXCEPT ![t] = [at |-> "cancel", key |-> 0, n |-> page[t].rec.n]]
  /\ UNCHANGED <<rec, keys, load, page, astray, made, elsewhere, faults, now>>

\* The API's answer, by what its recovery is now: cancelled, already over, or 404; or none.
CancelAnswered(t) ==
  /\ op[t].at = "cancel"
  /\ \/ /\ rec.n = op[t].n
        /\ rec' = IF Active(rec) THEN [rec EXCEPT !.state = "ended"] ELSE rec
        /\ op' = [op EXCEPT ![t].at = "gone"] /\ UNCHANGED faults
     \/ /\ rec.n # op[t].n
        /\ op' = [op EXCEPT ![t].at = "check"] /\ UNCHANGED <<rec, faults>>
     \/ faults < MaxFaults /\ faults' = faults + 1 /\ op' = [op EXCEPT ![t] = NoOp] /\ UNCHANGED rec
  /\ page' = [page EXCEPT ![t].shown = IF op'[t].at = "idle" THEN @ ELSE FALSE]
  /\ load' = [load EXCEPT ![t] = IF op'[t].at = "check" THEN [NoLoad EXCEPT !.at = "fetch"] ELSE @]
  /\ UNCHANGED <<keys, astray, made, elsewhere, now>>

\* deleteKey() of the recovery that was cancelled; the page loads again.
CancelDone(t) ==
  /\ op[t].at = "gone" /\ load[t].at = "idle"
  /\ keys' = {k \in keys : k.n # op[t].n}
  /\ op' = [op EXCEPT ![t] = NoOp] /\ load' = [load EXCEPT ![t] = [NoLoad EXCEPT !.at = "fetch"]]
  /\ UNCHANGED <<rec, page, astray, made, elsewhere, faults, now>>

--------------------------------------------------------------------------------
(* The API, the phones and other browsers; time.                           *)

Proceeds ==
  /\ \/ rec.state = "pending" /\ rec' \in {[rec EXCEPT !.state = s] : s \in {"available", "unavailable"}}
     \/ rec.state = "available" /\ rec' = [rec EXCEPT !.state = "registered"]
     \/ Active(rec) /\ rec' = [rec EXCEPT !.state = "ended"]
  /\ UNCHANGED <<keys, load, op, page, astray, made, elsewhere, faults, now>>

RequestedElsewhere ==
  /\ ~Active(rec) /\ elsewhere < MaxElsewhere /\ elsewhere' = elsewhere + 1 /\ rec' = NewRec(0)
  /\ UNCHANGED <<keys, load, op, page, astray, made, faults, now>>

\* Ten minutes or more; no request is that long on its way.
Tick ==
  /\ now < MaxTime /\ now' = now + 1 /\ \A t \in Tabs : op[t].at = "idle"
  /\ UNCHANGED <<rec, keys, load, op, page, astray, made, elsewhere, faults>>

Next ==
  \/ Proceeds \/ RequestedElsewhere \/ Tick
  \/ \E t \in Tabs : \/ StartLoad(t) \/ Fetch(t) \/ LoadFails(t) \/ PruneAndDraw(t) \/ Poll(t)
                     \/ ShowCode(t) \/ Leave(t) \/ CreateKey(t) \/ Post(t) \/ Bind(t) \/ DropKey(t)
                     \/ Cancel(t) \/ CancelAnswered(t) \/ CancelDone(t)
Spec == Init /\ [][Next]_vars

--------------------------------------------------------------------------------
(* While a recovery this browser requested is still to be opened, its key  *)
(* is here and will be tried, whatever answers were lost and whatever the  *)
(* tabs loaded or cancelled; it is gone only if a load overlapped the      *)
(* request, or the API answered it an error although it had written it     *)
(* (recovery-keys.js, "deleted once their recovery is over").              *)
KeyKept ==
  rec.key # 0 /\ rec.state \in {"pending", "available"} /\ rec.key \notin astray =>
    \E k \in keys : k.key = rec.key /\ (k.n = rec.n \/ (k.n = 0 /\ k.at >= rec.at - 1))

(* A code is on the screen only of the recovery the page shows, while that *)
(* is available as far as the page has heard.                              *)
ShownIsCurrent == \A t \in Tabs : page[t].shown => page[t].rec.state = "available" /\ page[t].view = "code"
================================================================================
