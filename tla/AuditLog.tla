------------------------------ MODULE AuditLog ------------------------------
(***************************************************************************)
(* The audit log and the addresses in it (lambda/shared/audit.ts): an      *)
(* event names a person by account id, the person's address goes to a      *)
(* record of its own that expires; the listing (lambda/admin/system.ts,    *)
(* sites/admin/js/sections/audit.js) puts the two together again.  Events  *)
(* older than that rule hold addresses themselves until an operator runs   *)
(* scripts/ops/audit-address-backfill.ts, which may be interrupted,        *)
(* repeated, and run by two operators at once.                             *)
(*                                                                         *)
(* Days stand for the 90 days' fractions: an address is kept for Keep of   *)
(* them.  Dry runs change nothing and are left out, and so is the page of  *)
(* the listing (one page holds all); a scan reads the table in one page.   *)
(***************************************************************************)
EXTENDS Naturals, FiniteSetsExt

CONSTANTS Runs,      \* the operator's runs with --apply
          LastDay,   \* the bound on time
          Faults     \* calls that fail, or invocations and runs that stop

VARIABLES day,
          event,     \* the events: their actor and the address in their detail
          record,    \* the address records' expiry; 0: no record
          run,       \* the operator's runs
          writer,    \* audit() of the new event: how far it has come
          listing,   \* the listing under way, or the last one shown
          logged,    \* the runs' own events, by run: completed or not
          faults

vars == <<day, event, record, run, writer, listing, logged, faults>>

Keep == 2     \* AUDIT_ADDRESS_DAYS
Firstday == 2

(* Three events from before the rule, and one written by audit() since:    *)
(* what a member did, an administrator's decision on a request, an action  *)
(* the script does not know, a decision.                                   *)
Events == 1..4
New == 4
At == << 1, 1, 0, 2 >>
Class == << "member", "staff", "unknown", "staff" >>
Late(e) == At[e] + Keep
Absent == [actor |-> "none", email |-> FALSE]

Init ==
  /\ day = Firstday
  /\ event = << [actor |-> "address", email |-> FALSE], [actor |-> "staff", email |-> TRUE],
                [actor |-> "address", email |-> TRUE], Absent >>
  /\ record = [e \in Events |-> 0]
  /\ run = [r \in Runs |-> [pc |-> "idle", now |-> 0, at |-> 0, copy |-> << >>]]
  /\ writer = "idle"
  /\ listing = [pc |-> "idle", hit |-> {}, held |-> {}, shown |-> {}, upto |-> 0, whole |-> TRUE]
  /\ logged = [r \in Runs |-> "none"]
  /\ faults = 0

Faulty == faults < Faults /\ faults' = faults + 1

----------------------------------------------------------------------------
(* Time, and the table's TTL, which deletes late or not at all.            *)

NextDay ==
  /\ day < LastDay
  /\ day' = day + 1
  /\ UNCHANGED <<event, record, run, writer, listing, logged, faults>>

Expire(e) ==
  /\ record[e] # 0 /\ record[e] <= day
  /\ record' = [record EXCEPT ![e] = 0]
  /\ UNCHANGED <<day, event, run, writer, listing, logged, faults>>

----------------------------------------------------------------------------
(* audit(): the event first, without the address, then its record.         *)

PutEvent ==
  /\ writer = "idle" /\ day = At[New]
  /\ event' = [event EXCEPT ![New] = [actor |-> "staff", email |-> FALSE]]
  /\ writer' = "put"
  /\ UNCHANGED <<day, record, run, listing, logged, faults>>

PutAddress ==
  /\ writer = "put"
  /\ record' = [record EXCEPT ![New] = At[New] + Keep]
  /\ writer' = "done"
  /\ UNCHANGED <<day, event, run, listing, logged, faults>>

AuditStops ==
  /\ Faulty
  /\ writer = "put" /\ writer' = "stopped"
  /\ UNCHANGED <<day, event, record, run, listing, logged>>

----------------------------------------------------------------------------
(* The operator's script.                                                  *)

\* As AddressExpiresAt would be with the days counted from the run.
AddressExpiresFromRun(e, item, now) == IF item.email /\ Late(e) > now THEN now + Keep ELSE 0

\* As RewriteActor would be for whatever action had an address as its actor.
RewriteActorAny(e, item) == item.actor = "address"

\* What to do with an event as it was scanned, at time `now`.
RemoveEmail(item) == item.email
AddressExpiresAt(e, item, now) == IF item.email /\ Late(e) > now THEN Late(e) ELSE 0
RewriteActor(e, item) == item.actor = "address" /\ Class[e] = "member"
Planned(copy) == {e \in Events : RemoveEmail(copy[e]) \/ RewriteActor(e, copy[e])}

\* The next event of the scan with anything to do; beyond the last, none.
NextPlanned(after, copy) ==
  LET todo == {e \in Planned(copy) : e > after} IN IF todo = {} THEN 5 ELSE Min(todo)

Scan(r) ==
  /\ run[r].pc = "idle"
  /\ run' = [run EXCEPT ![r] = [@ EXCEPT !.pc = "convert", !.now = day, !.at = NextPlanned(0, event),
                                         !.copy = event]]
  /\ UNCHANGED <<day, event, record, writer, listing, logged, faults>>

\* The address's record, kept as it is when another run made it already.
Recorded(r) ==
  LET e == run[r].at
      expires == AddressExpiresAt(e, run[r].copy[e], run[r].now) IN
  record' = IF expires # 0 /\ record[e] = 0 THEN [record EXCEPT ![e] = expires] ELSE record

Converted(r) ==
  LET e == run[r].at
      item == run[r].copy[e] IN
  event' = [event EXCEPT ![e] =
              [actor |-> IF RewriteActor(e, item) THEN "id" ELSE @.actor,
               email |-> @.email /\ ~RemoveEmail(item)]]

\* As the two writes would be in the other order.
WriteSwapped(r, n) ==
  IF n = 2 THEN Recorded(r) /\ UNCHANGED event ELSE Converted(r) /\ UNCHANGED record

Write(r, n) ==
  IF n = 1 THEN Recorded(r) /\ UNCHANGED event ELSE Converted(r) /\ UNCHANGED record

\* The record first: a run that stops here finds the event as it was.
Record(r) ==
  /\ run[r].pc = "convert" /\ run[r].at \in Events
  /\ Write(r, 1)
  /\ run' = [run EXCEPT ![r].pc = "update"]
  /\ UNCHANGED <<day, writer, listing, logged, faults>>

Update(r) ==
  /\ run[r].pc = "update"
  /\ Write(r, 2)
  /\ run' = [run EXCEPT ![r] = [@ EXCEPT !.pc = "convert", !.at = NextPlanned(run[r].at, run[r].copy)]]
  /\ UNCHANGED <<day, writer, listing, logged, faults>>

\* As AfterError would be with the failure caught and only printed.
AfterErrorNone == "completed"
AfterError == "stopped"

Ended(pc) == [pc |-> pc, now |-> 0, at |-> 0, copy |-> << >>]

\* A call that fails ends the run, which still leaves its event.
CallFails(r) ==
  /\ Faulty
  /\ run[r].pc \in {"convert", "update"}
  /\ run' = [run EXCEPT ![r] = Ended("failing")]
  /\ UNCHANGED <<day, event, record, writer, listing, logged>>

LeaveEvent(r) ==
  /\ \/ run[r].pc = "convert" /\ run[r].at \notin Events
        /\ logged' = [logged EXCEPT ![r] = "completed"]
     \/ run[r].pc = "failing"
        /\ logged' = [logged EXCEPT ![r] = AfterError]
  /\ run' = [run EXCEPT ![r] = Ended("over")]
  /\ UNCHANGED <<day, event, record, writer, listing, faults>>

\* Killed, or its own event could not be written.
Killed(r) ==
  /\ Faulty
  /\ run[r].pc \in {"convert", "update", "failing"}
  /\ run' = [run EXCEPT ![r] = Ended("killed")]
  /\ UNCHANGED <<day, event, record, writer, listing, logged>>

----------------------------------------------------------------------------
(* The listing: the rows, then their address records.                      *)

\* The events of a month: the address records are in partitions of their own.
Listed == {e \in Events : event[e].actor # "none"}

ReadRows ==
  /\ listing.pc = "idle"
  /\ listing' = [listing EXCEPT !.pc = "rows", !.hit = Listed, !.held = {e \in Listed : event[e].email}]
  /\ UNCHANGED <<day, event, record, run, writer, logged, faults>>

\* As Addresses would be if the records' expiry were left to the table.
AddressesAny(es) == {e \in es : record[e] # 0}

Addresses(es) == {e \in es : record[e] > day}

\* The page: an event's own detail, and the address its record still gives.
\* Keys that stay unprocessed for five rounds give none.
ReadAddresses ==
  /\ listing.pc = "rows"
  /\ \E throttled \in BOOLEAN :
       /\ IF throttled THEN Faulty ELSE UNCHANGED faults
       /\ listing' = [listing EXCEPT !.pc = "shown", !.upto = day, !.whole = ~throttled,
            !.shown = listing.held \union (IF throttled THEN {} ELSE Addresses(listing.hit))]
  /\ UNCHANGED <<day, event, record, run, writer, logged>>

Next ==
  \/ NextDay \/ PutEvent \/ PutAddress \/ AuditStops
  \/ \E e \in Events : Expire(e)
  \/ \E r \in Runs : \/ Scan(r) \/ Record(r) \/ Update(r) \/ CallFails(r)
                     \/ LeaveEvent(r) \/ Killed(r)
  \/ ReadRows \/ ReadAddresses

Spec == Init /\ [][Next]_vars

----------------------------------------------------------------------------
TypeOK ==
  /\ day \in Firstday..LastDay /\ faults \in 0..Faults
  /\ \A e \in Events : event[e].actor \in {"none", "address", "id", "staff"} /\ event[e].email \in BOOLEAN
  /\ record \in [Events -> 0..(LastDay + Keep)]
  /\ \A r \in Runs : run[r].at \in 0..5
  /\ listing.hit \subseteq Events /\ listing.shown \subseteq listing.hit
  /\ logged \in [Runs -> {"none", "completed", "stopped"}]

\* However runs overlap, stop and are repeated, the address of an event
\* younger than 90 days is in the event or in its record, and no listing
\* misses it that neither was throttled nor came between the two writes of
\* audit() (audit-address-backfill.ts "The address record first",
\* system.ts addresses).
AddressKept ==
  /\ \A e \in {2, 3} : day < Late(e) => event[e].email \/ record[e] # 0
  /\ listing.pc = "shown" /\ listing.whole =>
       \A e \in listing.hit \intersect {2, 3} : listing.upto < Late(e) => e \in listing.shown

\* An address that left its event is shown for 90 days from the event and
\* no longer, however late the table deletes its record and whenever an
\* overlapping run writes it.
ShownWithin ==
  \A e \in listing.shown : e \in listing.held \/ listing.upto < Late(e)

\* After a run that says it completed no event holds an address the rule
\* takes out, whatever other runs did meanwhile; staff and what the script
\* does not know keep their actor.
NoAddressLeft ==
  /\ (\E r \in Runs : logged[r] = "completed") =>
        \A e \in Events : ~event[e].email /\ ~(Class[e] = "member" /\ event[e].actor = "address")
  /\ event[2].actor = "staff" /\ event[3].actor = "address"
============================================================================
