---------------------------- MODULE AccountSettings -----------------------------
(***************************************************************************)
(* The account dashboard (sites/account/js/account.js) and the calls it    *)
(* makes (lambda/member/account.ts): the PIN, a preference, the trial and  *)
(* its cancellation.  A section's buttons wait for its own call only, so   *)
(* the calls of a page overlap, as those of other browsers do.  The member *)
(* has accepted the terms; a subscription's end is in Subscription, the    *)
(* PIN's lockout in SignIn, the account's closing in DeletionCode; of the  *)
(* two preferences, alike, one is kept.                                    *)
(***************************************************************************)
EXTENDS Naturals

CONSTANTS Calls   \* requests of the page at once

VARIABLES
  row, used, sub,  \* the member's settings, whether a trial was used, and the subscription
  call,            \* requests
  page, load,      \* the dashboard, and its request for the subscriptions on offer
  asked,           \* what the writes so far asked of the settings
  halved           \* a trial was marked used, and its start stopped there

vars == <<row, used, sub, call, page, load, asked, halved>>

Rows  == [pin : BOOLEAN, updates : BOOLEAN]
First == [pin |-> FALSE, updates |-> TRUE]
Subs  == {"none", "live", "canceled"}
Idle  == [op |-> "none", flag |-> FALSE, at |-> "none", m |-> First]
Ops   == {"set", "off", "updates", "start", "cancel"}

\* me(): of the row a handler holds, with the subscription as it is.
View(m) == [pin |-> m.pin, updates |-> m.updates, sub |-> sub]

TypeOK ==
  /\ row \in Rows /\ used \in BOOLEAN /\ sub \in Subs /\ halved \in BOOLEAN
  /\ \A c \in Calls : /\ call[c].op \in Ops \cup {"none"} /\ call[c].m \in Rows
                      /\ call[c].at \in {"none", "read", "write", "put", "done"}
  /\ page.at \in {"boot", "error", "on"} /\ page.me \in [pin : BOOLEAN, updates : BOOLEAN, sub : Subs]
  /\ page.types \in {"null", "some", "few"} /\ page.state \in {"idle", "loading", "error"}
  /\ load \in {"none", "asked", "some", "few", "failed"}

Init ==
  /\ row = First /\ used = FALSE /\ sub = "none" /\ call = [c \in Calls |-> Idle] /\ load = "none" /\ halved = FALSE
  /\ page = [at |-> "boot", me |-> View(row), types |-> "null", state |-> "idle"]
  /\ asked = row

\* A call ends without an answer to show, and its section waits no more.
Ends(c)        == call' = [call EXCEPT ![c] = Idle]
Goes(c, to, m) == call' = [call EXCEPT ![c].at = to, ![c].m = m]
Waiting(op) == \E c \in Calls : call[c].op \in op

--------------------------------------------------------------------------------
(* The API.                                                                *)

\* What each handler refuses on the row it read.  For an account with a PIN the
\* right one has to come with a new one.
Allowed(op) ==
  /\ op = "off"    => row.pin
  /\ op = "start"  => ~used /\ sub # "live"
  /\ op = "cancel" => sub = "live"

Read(c) ==
  /\ call[c].at = "read"
  /\ \/ Allowed(call[c].op) /\ Goes(c, "write", row)
     \/ (~Allowed(call[c].op) \/ (call[c].op \in {"set", "off"} /\ row.pin)) /\ Ends(c)
  /\ UNCHANGED <<row, used, sub, page, load, asked, halved>>

\* What a settings call asks for, over a row or the history of what was asked.
Set(c, r) ==
  CASE call[c].op = "set"     -> [r EXCEPT !.pin = TRUE]
    [] call[c].op = "off"     -> [r EXCEPT !.pin = FALSE]
    [] call[c].op = "updates" -> [r EXCEPT !.updates = call[c].flag]

FieldsWhole(c) == Set(c, call[c].m)     \* mutated form: the row that was read, with the fields
Fields(c)      == Set(c, row)

\* setFields(): only the fields; all of the row comes back.
SetFields(c) ==
  /\ call[c].at = "write" /\ call[c].op \in {"set", "off", "updates"}
  /\ row' = Fields(c) /\ asked' = Set(c, asked) /\ Goes(c, "done", Fields(c))
  /\ UNCHANGED <<used, sub, page, load, halved>>

\* The trial is marked used, once; then its row is put.
MarkTrial(c) ==
  /\ call[c].at = "write" /\ call[c].op = "start"
  /\ used' = TRUE /\ IF used THEN Ends(c) ELSE Goes(c, "put", call[c].m)
  /\ UNCHANGED <<row, sub, page, load, asked, halved>>

PutSub(c) ==
  /\ \/ call[c].at = "put" /\ sub' = "live"
     \/ call[c].at = "write" /\ call[c].op = "cancel" /\ sub' = "canceled"
  /\ Goes(c, "done", call[c].m)
  /\ UNCHANGED <<row, used, page, load, asked, halved>>

\* An invocation that stops, or whose answer is lost.
Stops(c) ==
  /\ call[c].at \in {"write", "put", "done"} /\ Ends(c)
  /\ halved' = (halved \/ call[c].at = "put")
  /\ UNCHANGED <<row, used, sub, page, load, asked>>

\* GET /api/account/subscription-types: a trial is on offer to who had none.
ServeTypes ==
  /\ load = "asked" /\ load' \in {"failed", IF used THEN "few" ELSE "some"}
  /\ UNCHANGED <<row, used, sub, call, page, asked, halved>>

--------------------------------------------------------------------------------
(* The page.                                                               *)

\* renderSubscription(): without a live subscription, what is on offer is loaded.
Loads(p) == p.me.sub # "live" /\ p.types = "null" /\ p.state = "idle"

\* setMe(): what was loaded for the account as it was is dropped.
SetMe(p, m) ==
  LET q == [p EXCEPT !.at = "on", !.me = View(m), !.types = "null", !.state = "idle"] IN
  /\ page' = IF Loads(q) THEN [q EXCEPT !.state = "loading"] ELSE q
  /\ load' = IF Loads(q) THEN "asked" ELSE load

\* boot(); its "Try again" reloads.
Boot ==
  /\ \/ page.at = "boot" /\ SetMe(page, row)
     \/ page.at = "boot" /\ page' = [page EXCEPT !.at = "error"] /\ UNCHANGED load
     \/ page.at = "error" /\ page' = [page EXCEPT !.at = "boot"] /\ UNCHANGED load
  /\ UNCHANGED <<row, used, sub, call, asked, halved>>

\* loadSubTypes(): its answer, and its retry.  (Of two loads at once the earlier
\* one's answer is left out.)
TypesArrive ==
  /\ load \in {"some", "few", "failed"} /\ load' = "none"
  /\ page' = IF load = "failed" THEN [page EXCEPT !.state = "error"]
             ELSE [page EXCEPT !.types = load, !.state = "idle"]
  /\ UNCHANGED <<row, used, sub, call, asked, halved>>

RetryTypes ==
  /\ page.me.sub # "live" /\ page.state = "error"
  /\ page' = [page EXCEPT !.state = "loading"] /\ load' = "asked"
  /\ UNCHANGED <<row, used, sub, call, asked, halved>>

\* steps(): those of the checklist that can be done and are not.
DoneLive(m)  == m.sub = "live"          \* mutated form: the trial's step is done while it runs
TrialDone(m) == m.sub # "none"
Pending(m)   == {s \in {"pin", "trial"} : (s = "pin" /\ ~m.pin) \/ (s = "trial" /\ ~TrialDone(m))}

\* renderChecklist(): the first of them is the next step, the others are still to do.
Mark(m, s) == IF s \notin Pending(m) THEN "done" ELSE IF s = "trial" /\ "pin" \in Pending(m) THEN "to do" ELSE "next"

\* What each section offers, and sends; it waits for its own call (of the PIN's,
\* for the one its form is open for).
Sends(c, op, flag) ==
  /\ page.at = "on" /\ call[c] = Idle
  /\ call' = [call EXCEPT ![c] = [op |-> op, flag |-> flag, at |-> "read", m |-> First]]
  /\ UNCHANGED <<row, used, sub, page, load, asked, halved>>

SubmitPin(c) ==
  /\ ~Waiting({"set", "off"})
  /\ Sends(c, "set", FALSE) \/ (page.me.pin /\ Sends(c, "off", FALSE))

SubmitUpdates(c) == ~Waiting({"updates"}) /\ Sends(c, "updates", ~page.me.updates)

SubmitStart(c) ==
  /\ page.me.sub # "live" /\ page.types = "some" /\ page.state # "error" /\ ~Waiting({"start"})
  /\ Sends(c, "start", FALSE)

SubmitCancel(c) == page.me.sub = "live" /\ ~Waiting({"cancel"}) /\ Sends(c, "cancel", FALSE)

\* Another browser's call: the PIN, a trial or its cancellation, in one step.
Elsewhere ==
  /\ \/ row' = [row EXCEPT !.pin = ~@] /\ UNCHANGED <<used, sub>>
     \/ ~used /\ sub # "live" /\ used' = TRUE /\ sub' = "live" /\ UNCHANGED row
     \/ sub = "live" /\ sub' = "canceled" /\ UNCHANGED <<row, used>>
  /\ asked' = [asked EXCEPT !.pin = IF row' # row THEN row'.pin ELSE @]
  /\ UNCHANGED <<call, page, load, halved>>

\* The answer: the row as it was written (as it was read, for the subscription's
\* calls), the subscription as it is now.
Arrives(c) ==
  /\ call[c].at = "done" /\ Ends(c)
  /\ SetMe(page, call[c].m)
  /\ UNCHANGED <<row, used, sub, asked, halved>>

--------------------------------------------------------------------------------
Next ==
  \/ \E c \in Calls : \/ SubmitPin(c) \/ SubmitUpdates(c) \/ SubmitStart(c) \/ SubmitCancel(c)
                      \/ Read(c) \/ SetFields(c) \/ MarkTrial(c) \/ PutSub(c) \/ Stops(c) \/ Arrives(c)
  \/ Elsewhere \/ ServeTypes \/ Boot \/ TypesArrive \/ RetryTypes

Spec == Init /\ [][Next]_vars

--------------------------------------------------------------------------------
(* Settings changed at once keep each other's changes: the row holds what  *)
(* each field was last asked to be (account.ts, setFields).                *)
SettingsKept == asked = row

(* While the checklist asks for the trial to be started, and the page      *)
(* shows the account as it is, there is one to start, unless a start was   *)
(* stopped between its two writes (account.js, steps; account.ts,          *)
(* subscription-types, subscription).                                      *)
StepLeads ==
  (/\ page.at = "on" /\ Mark(page.me, "trial") # "done" /\ page.types # "null" /\ load = "none"
   /\ page.me.sub = sub /\ \A c \in Calls : call[c].op # "start")
    => page.types = "some" \/ halved
================================================================================
