------------------------------ MODULE RecoveryLinks ------------------------------
(***************************************************************************)
(* The rows of the request table by which a vault's recovery is named      *)
(* (lambda/member/vault.ts): the locator that is typed, the mailed cancel  *)
(* links.  Each has a time of its own, after which the table deletes it;   *)
(* they are written before the recovery and moved, best effort, when its   *)
(* time moves.  The recovery's own states are VaultRecovery's.             *)
(***************************************************************************)
EXTENDS Integers

CONSTANTS
  Locators,             \* what mintLocator() may draw
  Requests, Movers,      \* invocations: requests; those that move a recovery's time
  Span, Cap,            \* how long a recovery lasts as requested, and at most
  MaxRecoveries, MaxTime     \* bounds

VARIABLES
  rec,      \* the vault row's recovery
  row,      \* rows of the request table
  request, notice,   \* invocations: what each has read
  now, made,
  short     \* the recoveries whose rows a write or a move left behind

vars == <<rec, row, request, notice, now, made, short>>

Ids   == 1..MaxRecoveries
Times == 0..(MaxTime + Cap + 1)
NoRow == [rec |-> 0, exp |-> 0]
NoRec == [id |-> 0, state |-> "none", asked |-> 0, expires |-> 0, locator |-> 0, times |-> FALSE]
Locator(l) == <<"locator", l>>
Link(id)   == <<"link", id>>       \* of the request's mail
Notice(id) == <<"notice", id>>     \* of the mail about an attempt
Keys == {Locator(l) : l \in Locators} \cup {Link(i) : i \in Ids} \cup {Notice(i) : i \in Ids}

NoRequest == [at |-> "none", id |-> 0, seen |-> 0, locator |-> 0, expires |-> 0, since |-> 0]
NoNotice  == [at |-> "none", kind |-> "times", read |-> NoRec, to |-> 0, since |-> 0]

TypeOK ==
  /\ rec \in [id : 0..MaxRecoveries, state : {"none", "pending", "registered", "cancelled"}, asked : Times,
              expires : Times, locator : Locators \cup {0}, times : BOOLEAN]
  /\ row \in [Keys -> [rec : 0..MaxRecoveries, exp : Times]]
  /\ \A q \in Requests : request[q].at \in {"none", "read", "located", "linked"}
  /\ \A n \in Movers : notice[n].at \in {"none", "read", "moved", "extended"}
  /\ now \in 0..MaxTime /\ made \in 0..MaxRecoveries /\ short \subseteq Ids

Init ==
  /\ rec = NoRec /\ row = [k \in Keys |-> NoRow]
  /\ request = [q \in Requests |-> NoRequest] /\ notice = [n \in Movers |-> NoNotice]
  /\ now = 0 /\ made = 0 /\ short = {}

Least(a, b) == IF a < b THEN a ELSE b
Most(a, b)  == IF a > b THEN a ELSE b

RecoveryActive(r) == r.state \in {"pending", "registered"} /\ now < r.expires

Held(k) == row[k].rec # 0

--------------------------------------------------------------------------------
(* POST /api/vault/recovery.                                               *)

Ask(q) ==
  /\ request[q].at = "none" /\ made < MaxRecoveries /\ ~RecoveryActive(rec)
  /\ made' = made + 1
  /\ request' = [request EXCEPT ![q] =
       [at |-> "read", id |-> made + 1, seen |-> rec.id, locator |-> 0, expires |-> now + Span, since |-> now]]
  /\ UNCHANGED <<rec, row, notice, now, short>>

FreeAny(l) == TRUE          \* mutated form: put without a condition
Free(l)    == ~Held(Locator(l))

\* mintLocator(): a draw that is held is drawn again.
MintLocator(q) ==
  /\ request[q].at = "read"
  /\ \E l \in Locators :
       /\ Free(l) /\ row' = [row EXCEPT ![Locator(l)] = [rec |-> request[q].id, exp |-> request[q].expires]]
       /\ request' = [request EXCEPT ![q].at = "located", ![q].locator = l]
  /\ UNCHANGED <<rec, notice, now, made, short>>

MintCancelLink(q) ==
  /\ request[q].at = "located"
  /\ row' = [row EXCEPT ![Link(request[q].id)] = [rec |-> request[q].id, exp |-> request[q].expires]]
  /\ request' = [request EXCEPT ![q].at = "linked"]
  /\ UNCHANGED <<rec, notice, now, made, short>>

\* setRecovery(), in the place of the recovery it read; one that is not is a conflict.
SetRecovery(q) ==
  /\ request[q].at = "linked"
  /\ IF rec.id = request[q].seen
     THEN /\ rec' = [id |-> request[q].id, state |-> "pending", asked |-> request[q].since,
                     expires |-> request[q].expires, locator |-> request[q].locator, times |-> FALSE]
     ELSE UNCHANGED rec
  /\ request' = [request EXCEPT ![q] = NoRequest]
  /\ UNCHANGED <<row, notice, now, made, short>>

\* The invocation stops, or a write of it fails.
AskFails(q) ==
  /\ request[q].at \in {"read", "located", "linked"} /\ request' = [request EXCEPT ![q] = NoRequest]
  /\ UNCHANGED <<rec, row, notice, now, made, short>>

--------------------------------------------------------------------------------
(* The recovery's time moves: applyEnclaveTimes() while it is pending, by  *)
(* whoever finds the slot answered; noticeAttempt() while it is registered.*)

Read(n, kind) ==
  /\ notice[n].at = "none"
  /\ \/ kind = "times" /\ rec.state = "pending" /\ ~rec.times /\ now < rec.expires
     \/ kind = "attempt" /\ rec.state = "registered"
  /\ \E to \in {now + 1, now + Cap} :
       notice' = [notice EXCEPT ![n] =
         [at |-> "read", kind |-> kind, read |-> rec, to |-> Least(rec.asked + Cap, to), since |-> now]]
  /\ UNCHANGED <<rec, row, request, now, made, short>>

\* The conditions of the two writes.
Applies(n) ==
  /\ rec.id = notice[n].read.id
  /\ \/ notice[n].kind = "times" /\ rec.state = "pending" /\ ~rec.times
     \/ notice[n].kind = "attempt" /\ rec.state = "registered" /\ rec.expires < notice[n].to

Move(n) ==
  /\ notice[n].at = "read"
  /\ IF Applies(n)
     THEN /\ rec' = [rec EXCEPT !.expires = notice[n].to, !.times = (@ \/ notice[n].kind = "times")]
          /\ notice' = [notice EXCEPT ![n].at = IF notice[n].to > notice[n].read.expires THEN "moved" ELSE "extended",
                                      ![n].read.expires = notice[n].to]
     ELSE UNCHANGED rec /\ notice' = [notice EXCEPT ![n].at = "extended"]
  /\ UNCHANGED <<row, request, now, made, short>>

\* extendRecoveryRows(): the locator, the request mail's link, each later or not at all.
Moves(n)          == LET r == notice[n].read IN
                     {<<Locator(r.locator), notice[n].to>>, <<Link(r.id), notice[n].to>>}
ExtendableNone(m, id) == FALSE       \* mutated form: the rows keep their times
Extendable(m, id)     == row[m[1]].rec = id /\ row[m[1]].exp < m[2]

\* A row whose write fails is logged and left behind.
Extend(n) ==
  /\ notice[n].at = "moved" /\ notice' = [notice EXCEPT ![n].at = "extended"]
  /\ \E done \in {Moves(n)} \cup {Moves(n) \ {m} : m \in Moves(n)} :
       /\ row' = [k \in Keys |-> LET m == {x \in done : x[1] = k /\ Extendable(x, notice[n].read.id)} IN
                                 IF m = {} THEN row[k] ELSE [row[k] EXCEPT !.exp = (CHOOSE x \in m : TRUE)[2]]]
       /\ short' = IF done # Moves(n) /\ notice[n].kind = "times" THEN short \cup {notice[n].read.id} ELSE short
  /\ UNCHANGED <<rec, request, now, made>>

\* An attempt's mail has a link of its own, for a recovery that can still be cancelled.
Done(n) ==
  /\ notice[n].at = "extended" /\ notice' = [notice EXCEPT ![n] = NoNotice]
  /\ LET r == notice[n].read IN
     row' = IF notice[n].kind = "attempt" /\ RecoveryActive(r)
            THEN [row EXCEPT ![Notice(r.id)] = [rec |-> r.id, exp |-> Most(@.exp, Most(r.expires, now + 1))]] ELSE row
  /\ UNCHANGED <<rec, request, now, made, short>>

\* The invocation stops: the sweep takes up the attempt's notice, the times are not applied again.
Stops(n) ==
  /\ notice[n].at \in {"moved", "extended"} /\ now = notice[n].since
  /\ notice' = [notice EXCEPT ![n] = IF @.kind = "times" THEN NoNotice ELSE [@ EXCEPT !.at = "read", !.read = rec]]
  /\ short' = IF notice[n].at = "moved" /\ notice[n].kind = "times" THEN short \cup {notice[n].read.id} ELSE short
  /\ UNCHANGED <<rec, row, request, now, made>>

--------------------------------------------------------------------------------
(* The link and the locator are used.                                      *)

\* POST /api/vault/recovery/cancel-link, down to cancelWrite().
CancelByLink ==
  /\ \E i \in Ids : \E k \in {Link(i), Notice(i)} : Held(k) /\ row[k].exp > now /\ rec.id = row[k].rec
  /\ RecoveryActive(rec) /\ rec' = [rec EXCEPT !.state = "cancelled"]
  /\ UNCHANGED <<row, request, notice, now, made, short>>

\* POST /api/vault/recovery/claim: locatorPair(), and what makes a miss.
Names(l) ==
  /\ Held(Locator(l)) /\ row[Locator(l)].exp > now /\ rec.id = row[Locator(l)].rec /\ rec.locator = l
  /\ rec.state # "cancelled"

\* claimRecovery(), and the register that follows it (VaultRecovery).
ClaimByLocator ==
  /\ \E l \in Locators : Names(l)
  /\ rec.state = "pending" /\ now < rec.expires /\ rec' = [rec EXCEPT !.state = "registered"]
  /\ UNCHANGED <<row, request, notice, now, made, short>>

\* scannedPair(): a scanned code names the recovery it was shown for, and needs no row.
ScannedPair(i) == rec.id = i

ClaimByScan ==
  /\ \E i \in Ids : ScannedPair(i)
  /\ rec.state = "pending" /\ now < rec.expires /\ rec' = [rec EXCEPT !.state = "registered"]
  /\ UNCHANGED <<row, request, notice, now, made, short>>

--------------------------------------------------------------------------------
\* POST /api/vault/recovery/cancel, and a recovery the phone cancelled.
CancelElsewhere ==
  /\ RecoveryActive(rec) /\ rec' = [rec EXCEPT !.state = "cancelled"]
  /\ UNCHANGED <<row, request, notice, now, made, short>>

\* The table deletes rows some time after theirs.
Expire ==
  /\ \E k \in Keys : Held(k) /\ row[k].exp < now
  /\ row' = [k \in Keys |-> IF row[k].exp < now THEN NoRow ELSE row[k]]
  /\ UNCHANGED <<rec, request, notice, now, made, short>>

\* An invocation lasts seconds, a unit of time is an hour.
Tick ==
  /\ now < MaxTime /\ now' = now + 1
  /\ \A q \in Requests : request[q].at # "none" => request[q].since = now
  /\ \A n \in Movers : notice[n].at # "none" => notice[n].since = now
  /\ UNCHANGED <<rec, row, request, notice, made, short>>

Next ==
  \/ \E q \in Requests : Ask(q) \/ MintLocator(q) \/ MintCancelLink(q) \/ SetRecovery(q) \/ AskFails(q)
  \/ \E n \in Movers : (\E kind \in {"times", "attempt"} : Read(n, kind)) \/ Move(n) \/ Extend(n) \/ Done(n) \/ Stops(n)
  \/ CancelByLink \/ ClaimByLocator \/ ClaimByScan
  \/ CancelElsewhere \/ Expire \/ Tick

Spec == Init /\ [][Next]_vars

--------------------------------------------------------------------------------
Quiet ==
  /\ \A n \in Movers : notice[n].at = "none"
  /\ rec.id \notin short

(* While a recovery can be cancelled, a link that was mailed cancels it,   *)
(* also when it lasts longer than its request said, or lapsed and was      *)
(* prolonged by an attempt noticed late (extendRecoveryRows; noticeAttempt:*)
(* "mailed with a fresh cancel link").                                     *)
CancelLinkWorks ==
  RecoveryActive(rec) /\ Quiet => \E k \in {Link(rec.id), Notice(rec.id)} : row[k].rec = rec.id /\ row[k].exp > now

(* While its code may be used, a recovery's locator is there and is its    *)
(* own, whatever other requests drew (mintLocator, extendRecoveryRows).    *)
LocatorWorks ==
  rec.state = "pending" /\ now < rec.expires /\ Quiet
    => row[Locator(rec.locator)].rec = rec.id /\ row[Locator(rec.locator)].exp > now
================================================================================
