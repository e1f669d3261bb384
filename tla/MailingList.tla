------------------------------- MODULE MailingList -------------------------------
(***************************************************************************)
(* The mailing list, for one address: the sign-up with SES's verification  *)
(* or the list's own link, the unsubscribe with its release marker, and    *)
(* the sweep every fifteen minutes that promotes pending rows and gives    *)
(* identities back (lambda/signup/subscribe.mjs, check-verifications.mjs,  *)
(* lambda/jobs/cleanup.ts).  The row, the markers, SES and the members     *)
(* table are written one by one.                                           *)
(***************************************************************************)
EXTENDS Naturals

CONSTANTS Calls, Subscriptions, MaxMarkers   \* bounds: sign-ups at once, sign-ups and markers in all

VARIABLES
  row,      \* the address's row; its id stands for its two tokens
  markers,  \* release markers in the table
  identity, \* the SES identity of the address
  member,   \* the member row that uses the address: none yet, here, or gone with its account
  call,     \* POST /api/subscribe: where each is
  unsub,    \* a removal: where it is, and the row it read
  sweep,    \* the sweep: where it is, and the pending row it listed
  made, mailed, opened,  \* rows begun; their confirm links delivered, and opened
  left      \* history: the rows a removal deleted

vars == <<row, markers, identity, member, call, unsub, sweep, made, mailed, opened, left>>

Ids   == 1..Subscriptions
NoRow == [id |-> 0, status |-> "none", link |-> FALSE, owns |-> FALSE, expired |-> FALSE]
Rows  == [id : {0} \cup Ids, status : {"none", "pending", "pending_link", "confirmed"},
          link : BOOLEAN, owns : BOOLEAN, expired : BOOLEAN]
NoCall == [at |-> "idle", id |-> 0, created |-> FALSE]

TypeOK ==
  /\ row \in Rows /\ markers \in 0..MaxMarkers /\ member \in {"none", "here", "gone"}
  /\ identity \in {"missing", "pending", "verified"}
  /\ call \in [Calls -> [at : {"idle", "create", "look", "pending", "link", "send"},
                         id : {0} \cup Ids, created : BOOLEAN]]
  /\ unsub \in [at : {"idle", "marker", "delete"}, id : {0} \cup Ids]
  /\ sweep \in [at : {"idle", "row", "flag", "use", "delete", "settle",
                      "verify", "promote", "reclaim", "purge", "drop"}, item : Rows]
  /\ made \in 0..Subscriptions /\ mailed \subseteq Ids /\ opened \subseteq mailed /\ left \subseteq Ids

Init ==
  /\ row = NoRow /\ markers = 0 /\ identity = "missing" /\ member = "none"
  /\ call = [c \in Calls |-> NoCall] /\ unsub = [at |-> "idle", id |-> 0]
  /\ sweep = [at |-> "idle", item |-> NoRow]
  /\ made = 0 /\ mailed = {} /\ opened = {} /\ left = {}

Listed == row.status # "none"

--------------------------------------------------------------------------------
(* POST /api/subscribe.                                                    *)

\* No row was read, and the hour's quota is not spent; else the same answer and nothing done.
Subscribe(c) ==
  /\ call[c].at = "idle" /\ ~Listed /\ made < Subscriptions
  /\ call' = [call EXCEPT ![c] = [NoCall EXCEPT !.at = "create", !.id = made + 1]]
  /\ made' = made + 1
  /\ UNCHANGED <<row, markers, identity, member, unsub, sweep, mailed, opened, left>>

CreateIdentity(c) ==
  /\ call[c].at = "create"
  /\ IF identity = "missing"
     THEN identity' = "pending" /\ call' = [call EXCEPT ![c].at = "pending", ![c].created = TRUE]
     ELSE call' = [call EXCEPT ![c].at = "look"] /\ UNCHANGED identity
  /\ UNCHANGED <<row, markers, member, unsub, sweep, made, mailed, opened, left>>

\* GetEmailIdentity; an identity that could not be read counts as not verified.
LookIdentity(c) ==
  /\ call[c].at = "look"
  /\ \/ identity = "verified" /\ call' = [call EXCEPT ![c].at = "link"]
     \/ call' = [call EXCEPT ![c].at = "pending"]
  /\ UNCHANGED <<row, markers, identity, member, unsub, sweep, made, mailed, opened, left>>

\* attribute_not_exists(email): the second of two sign-ups changes nothing.
PutRow(c) ==
  /\ call[c].at \in {"pending", "link"}
  /\ LET link == call[c].at = "link"
     IN /\ row' = IF Listed THEN row
                  ELSE [id |-> call[c].id, status |-> IF link THEN "pending_link" ELSE "pending",
                        link |-> link, owns |-> call[c].created, expired |-> FALSE]
        /\ call' = [call EXCEPT ![c] = IF link /\ ~Listed THEN [@ EXCEPT !.at = "send"] ELSE NoCall]
  /\ UNCHANGED <<markers, identity, member, unsub, sweep, made, mailed, opened, left>>

SendLink(c) ==
  /\ call[c].at = "send" /\ mailed' = mailed \cup {call[c].id}
  /\ call' = [call EXCEPT ![c] = NoCall]
  /\ UNCHANGED <<row, markers, identity, member, unsub, sweep, made, opened, left>>

\* A step fails, or the invocation stops.
SubscribeFails(c) ==
  /\ call[c].at # "idle" /\ call' = [call EXCEPT ![c] = NoCall]
  /\ UNCHANGED <<row, markers, identity, member, unsub, sweep, made, mailed, opened, left>>

--------------------------------------------------------------------------------
(* The owner of the address, and time.                                     *)

Click ==
  /\ identity = "pending" /\ identity' = "verified"
  /\ UNCHANGED <<row, markers, member, call, unsub, sweep, made, mailed, opened, left>>

OwnLinkAny(i) == TRUE   \* mutated form: any link sent to the address
OwnLink(i)    == row.id = i

\* GET /api/subscribe/confirm: single use, and of the row that awaits this token.
Confirm(i) ==
  /\ i \in mailed /\ opened' = opened \cup {i}
  /\ row' = IF row.status = "pending_link" /\ OwnLink(i) /\ ~row.expired
            THEN [row EXCEPT !.status = "confirmed"] ELSE row
  /\ UNCHANGED <<markers, identity, member, call, unsub, sweep, made, mailed, left>>

Expire ==
  /\ row.status \in {"pending", "pending_link"} /\ ~row.expired /\ row' = [row EXCEPT !.expired = TRUE]
  /\ UNCHANGED <<markers, identity, member, call, unsub, sweep, made, mailed, opened, left>>

\* DynamoDB's TTL, whenever it gets there.
TimeToLive ==
  /\ row.expired /\ row.status # "confirmed" /\ row' = NoRow
  /\ UNCHANGED <<markers, identity, member, call, unsub, sweep, made, mailed, opened, left>>

\* A member row comes, with an identity if there is none, or goes, with its own identity.
MemberComesOrGoes ==
  /\ member' = IF member = "here" THEN "gone" ELSE "here"
  /\ identity' \in (IF member = "here" THEN {identity, "missing"}
                    ELSE IF identity = "missing" THEN {"pending"} ELSE {identity})
  /\ UNCHANGED <<row, markers, call, unsub, sweep, made, mailed, opened, left>>

--------------------------------------------------------------------------------
(* A removal: the unsubscribe link, or an account's deletion.              *)

\* By the token of a mail of ours, which the row still carries; or by the account's deletion.
ReadRow ==
  /\ unsub.at = "idle" /\ Listed /\ (row.status = "confirmed" \/ row.id \in mailed \/ member = "gone")
  /\ unsub' = [at |-> IF row.owns THEN "marker" ELSE "delete", id |-> row.id]
  /\ UNCHANGED <<row, markers, identity, member, call, sweep, made, mailed, opened, left>>

PutMarker ==
  /\ unsub.at = "marker" /\ markers < MaxMarkers
  /\ markers' = markers + 1 /\ unsub' = [unsub EXCEPT !.at = "delete"]
  /\ UNCHANGED <<row, identity, member, call, sweep, made, mailed, opened, left>>

DeleteRow ==
  /\ unsub.at = "delete"
  /\ IF row.id = unsub.id THEN row' = NoRow /\ left' = left \cup {unsub.id} ELSE UNCHANGED <<row, left>>
  /\ unsub' = [at |-> "idle", id |-> 0]
  /\ UNCHANGED <<markers, identity, member, call, sweep, made, mailed, opened>>

RemovalFails ==
  /\ unsub.at # "idle" /\ unsub' = [at |-> "idle", id |-> 0]
  /\ UNCHANGED <<row, markers, identity, member, call, sweep, made, mailed, opened, left>>

--------------------------------------------------------------------------------
(* The sweep: a release marker.                                            *)

Swept == sweep' = [at |-> "idle", item |-> NoRow]
Go(at) == sweep' = [sweep EXCEPT !.at = at]

ReleaseRead ==
  /\ sweep.at = "idle" /\ markers > 0 /\ Go("row")
  /\ UNCHANGED <<row, markers, identity, member, call, unsub, made, mailed, opened, left>>

ReleaseLook ==
  /\ \/ sweep.at = "row" /\ Go(IF Listed THEN "flag" ELSE "use")
     \/ sweep.at = "use" /\ Go(IF member = "here" THEN "settle" ELSE "delete")
  /\ UNCHANGED <<row, markers, identity, member, call, unsub, made, mailed, opened, left>>

\* On the list again: its row takes the identity over, if it is still there.
ReleaseFlag ==
  /\ sweep.at = "flag"
  /\ IF Listed THEN row' = [row EXCEPT !.owns = TRUE] /\ Go("settle") ELSE Swept /\ UNCHANGED row
  /\ UNCHANGED <<markers, identity, member, call, unsub, made, mailed, opened, left>>

ReleaseDelete ==
  /\ sweep.at = "delete" /\ identity' = "missing" /\ Go("settle")
  /\ UNCHANGED <<row, markers, member, call, unsub, made, mailed, opened, left>>

Settle ==
  /\ sweep.at = "settle" /\ markers' = markers - 1 /\ Swept
  /\ UNCHANGED <<row, identity, member, call, unsub, made, mailed, opened, left>>

\* A marker that keeps failing for a week is given up; the identity is left.
Abandon ==
  /\ sweep.at \in {"row", "flag", "use", "delete"} /\ markers' = markers - 1 /\ Swept
  /\ UNCHANGED <<row, identity, member, call, unsub, made, mailed, opened, left>>

--------------------------------------------------------------------------------
(* The sweep: a pending row of the index.                                  *)

PendingRead ==
  /\ sweep.at = "idle" /\ row.status = "pending" /\ sweep' = [at |-> "verify", item |-> row]
  /\ UNCHANGED <<row, markers, identity, member, call, unsub, made, mailed, opened, left>>

PendingLook ==
  /\ \/ sweep.at = "verify" /\ identity = "verified" /\ Go("promote")
     \/ /\ sweep.at = "verify" /\ identity = "pending" /\ sweep.item.expired
        /\ Go(IF sweep.item.owns THEN "reclaim" ELSE "drop")
     \/ sweep.at = "reclaim" /\ Go(IF member = "here" THEN "drop" ELSE "purge")
  /\ UNCHANGED <<row, markers, identity, member, call, unsub, made, mailed, opened, left>>

PurgeIdentity ==
  /\ sweep.at = "purge" /\ identity' = "missing" /\ Go("drop")
  /\ UNCHANGED <<row, markers, member, call, unsub, made, mailed, opened, left>>

\* Unconditional: whichever row the address has by now.
DropRow ==
  /\ sweep.at = "drop" /\ row' = NoRow /\ Swept
  /\ UNCHANGED <<markers, identity, member, call, unsub, made, mailed, opened, left>>

StillPendingAny == TRUE   \* mutated form: the row is confirmed, and made again, whatever happened
StillPending    == row.status = "pending"

\* Confirmed, and welcomed: every mail from here on carries the unsubscribe link.
Promote ==
  /\ sweep.at = "promote" /\ Swept
  /\ IF StillPending
     THEN row' = [(IF Listed THEN row ELSE sweep.item) EXCEPT !.status = "confirmed", !.expired = FALSE]
     ELSE UNCHANGED row
  /\ UNCHANGED <<markers, identity, member, call, unsub, made, mailed, opened, left>>

SweepFails ==
  /\ sweep.at # "idle" /\ Swept
  /\ UNCHANGED <<row, markers, identity, member, call, unsub, made, mailed, opened, left>>

--------------------------------------------------------------------------------
SubscribeNext == \E c \in Calls : Subscribe(c) \/ CreateIdentity(c) \/ LookIdentity(c) \/ PutRow(c)
                                    \/ SendLink(c) \/ SubscribeFails(c)
OwnerNext   == Click \/ (\E i \in Ids : Confirm(i)) \/ Expire \/ TimeToLive \/ MemberComesOrGoes
RemovalNext == ReadRow \/ PutMarker \/ DeleteRow \/ RemovalFails
SweepNext   == ReleaseRead \/ ReleaseLook \/ ReleaseFlag \/ ReleaseDelete \/ Settle \/ Abandon
                 \/ PendingRead \/ PendingLook \/ PurgeIdentity \/ DropRow \/ Promote \/ SweepFails
Next == SubscribeNext \/ OwnerNext \/ RemovalNext \/ SweepNext
Spec == Init /\ [][Next]_vars

--------------------------------------------------------------------------------
(* An address that left the list is on it again only by a new sign-up; and *)
(* one that was verified with SES before is confirmed only by the link     *)
(* sent for that very sign-up, never by the sweep or by an earlier link    *)
(* (subscribe.mjs, AWAITING_LINK and "Single use").                        *)
ListedByConsent ==
  /\ Listed => row.id \notin left
  /\ row.status = "confirmed" /\ row.link => row.id \in opened
================================================================================
