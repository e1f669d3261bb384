------------------------------ MODULE StartOverPage ------------------------------
(***************************************************************************)
(* "Delete my vault and start over" as the member sees it: the page with   *)
(* its loads, timers and calls (sites/account/js/deletion.js), the page of *)
(* the emailed link (deletion-cancel.js), and the routes behind them       *)
(* (lambda/member/vault.ts).  A load reads the status, then the deletion;  *)
(* two loads may run at once.  How the deletion is carried out is          *)
(* StartOverRun's.                                                         *)
(***************************************************************************)
EXTENDS Integers

CONSTANTS Loads,                    \* loads under way at once
          MaxRequests, MaxFaults    \* bounds: start-overs; calls that fail, times the page is left or hidden

VARIABLES
  vault,   \* the vault, its deletion, the deletion queued to it and the one that it went by
  load,    \* loads of the page under way
  page,    \* what the page shows, its timers, and whether it has seen a deletion
  post,    \* its call under way
  said,    \* the page's last notice about a cancel
  mail,    \* the page of an emailed link
  made, faults

vars == <<vault, load, page, post, said, mail, made, faults>>

Ids == 0..MaxRequests
NoDeletion == [id |-> 0, state |-> "none", due |-> FALSE]
NoLoad == [at |-> "none", state |-> "none", id |-> 0, deletion |-> "none"]
NoPost == [op |-> "none", id |-> 0, answer |-> "none"]
Views  == {"start", "error", "request", "pending", "executing", "unfinished", "no_vault", "deleted"}

TypeOK ==
  /\ vault \in [state : {"enrolling", "sealed", "deleted"}, went : Ids, queued : Ids, links : SUBSET Ids,
                deletion : [id : Ids, state : {"none", "pending", "executing"}, due : BOOLEAN]]
  /\ load \in [Loads -> [at : {"none", "status", "deletion", "answered", "failed"}, state : {"none", "enrolling", "sealed"},
                         id : Ids, deletion : {"none", "pending", "executing"}]]
  /\ page \in [view : Views, id : Ids, timers : 0..3, due : BOOLEAN, had : BOOLEAN, hidden : BOOLEAN, gone : BOOLEAN]
  /\ post \in [op : {"none", "request", "cancel"}, id : Ids, answer : {"none", "yes", "no", "reload", "error"}]
  /\ said \in [what : {"none", "cancelled", "nothing"}, id : Ids]
  /\ mail \in [says : {"none", "cancelled", "nothing", "invalid"}, id : Ids]
  /\ made \in Ids /\ faults \in 0..MaxFaults

Init ==
  /\ vault = [state |-> "sealed", went |-> 0, queued |-> 0, links |-> {}, deletion |-> NoDeletion]
  /\ \E l \in Loads : load = [m \in Loads |-> IF m = l THEN [NoLoad EXCEPT !.at = "status"] ELSE NoLoad]
  /\ page = [view |-> "start", id |-> 0, timers |-> 0, due |-> FALSE, had |-> FALSE, hidden |-> FALSE, gone |-> FALSE]
  /\ post = NoPost /\ said = [what |-> "none", id |-> 0] /\ mail = [says |-> "none", id |-> 0]
  /\ made = 0 /\ faults = 0

Fault == faults < MaxFaults /\ faults' = faults + 1

--------------------------------------------------------------------------------
(* The routes. *)

PendingAny(id) == vault.deletion.id = id         \* mutated form: executing as well
Pending(id)    == vault.deletion.id = id /\ vault.deletion.state = "pending"

\* POST /api/vault/deletion: the row, then its link; the mail and the answer may fail after both.
Requested == vault' = [vault EXCEPT !.deletion = [id |-> made + 1, state |-> "pending", due |-> FALSE],
                                    !.links = @ \cup {made + 1}]
CanRequest == vault.state = "sealed" /\ vault.deletion.state = "none" /\ made < MaxRequests

\* cancelDeletion(), by the session, the app or the link.
Cancels(id, answer, yes, no) ==
  IF vault.state = "sealed" /\ Pending(id)
  THEN vault' = [vault EXCEPT !.deletion = NoDeletion] /\ answer = yes
  ELSE UNCHANGED vault /\ answer = no

--------------------------------------------------------------------------------
(* load(), poll(), schedule(). *)

Free == {l \in Loads : load[l].at = "none"}
Starts(l) == load' = [load EXCEPT ![l] = [NoLoad EXCEPT !.at = "status"]]

\* clearTimers() forgets the last timer only.
Cleared(n) == IF n = 0 THEN 0 ELSE n - 1

ReadStatus(l) ==
  /\ load[l].at = "status"
  /\ load' = [load EXCEPT ![l] = IF vault.state = "deleted" THEN [@ EXCEPT !.at = "answered"]
                                 ELSE [@ EXCEPT !.at = "deletion", !.state = vault.state]]
  /\ UNCHANGED <<vault, page, post, said, mail, made, faults>>

ReadDeletion(l) ==
  /\ load[l].at = "deletion"
  /\ load' = [load EXCEPT ![l].at = "answered", ![l].id = vault.deletion.id, ![l].deletion = vault.deletion.state]
  /\ UNCHANGED <<vault, page, post, said, mail, made, faults>>

LoadFails(l) ==
  /\ load[l].at \in {"status", "deletion"} /\ Fault
  /\ load' = [load EXCEPT ![l].at = "failed"]
  /\ UNCHANGED <<vault, page, post, said, mail, made>>

HadSeen(d) == page.had \/ d # "none"

Shows(state, d) ==
  IF state = "none" THEN (IF page.had THEN "deleted" ELSE "no_vault")
  ELSE IF state = "enrolling" THEN "unfinished"
  ELSE IF d = "none" THEN "request" ELSE d

SchedulesNot(d) == page.timers        \* mutated form: not checked again
Schedules(d) == IF d = "none" THEN page.timers ELSE page.timers + 1

Render(l) ==
  /\ load[l].at \in {"answered", "failed"} /\ ~page.gone
  /\ page' = IF load[l].at = "failed" THEN [page EXCEPT !.view = "error", !.id = 0]
             ELSE [page EXCEPT !.view = Shows(load[l].state, load[l].deletion), !.id = load[l].id,
                               !.had = HadSeen(load[l].deletion), !.timers = Schedules(load[l].deletion)]
  /\ load' = [load EXCEPT ![l] = NoLoad]
  /\ UNCHANGED <<vault, post, said, mail, made, faults>>

\* The timer: a hidden page loads when it is seen again.
Poll ==
  /\ page.timers > 0 /\ ~page.gone
  /\ IF page.hidden THEN page' = [page EXCEPT !.timers = @ - 1, !.due = TRUE] /\ UNCHANGED load
     ELSE /\ page' = [page EXCEPT !.timers = Cleared(@ - 1)]
          /\ \E l \in Free : Starts(l)
  /\ UNCHANGED <<vault, post, said, mail, made, faults>>

Hide ==
  /\ ~page.hidden /\ ~page.gone /\ Fault /\ page' = [page EXCEPT !.hidden = TRUE]
  /\ UNCHANGED <<vault, load, post, said, mail, made>>

Seen ==
  /\ page.hidden /\ ~page.gone
  /\ IF page.due THEN /\ page' = [page EXCEPT !.hidden = FALSE, !.due = FALSE, !.timers = Cleared(@)]
                      /\ \E l \in Free : Starts(l)
     ELSE page' = [page EXCEPT !.hidden = FALSE] /\ UNCHANGED load
  /\ UNCHANGED <<vault, post, said, mail, made, faults>>

\* Left, and come back to from the browser's memory.
PageHide ==
  /\ ~page.gone /\ Fault /\ page' = [page EXCEPT !.gone = TRUE, !.timers = Cleared(@)]
  /\ UNCHANGED <<vault, load, post, said, mail, made>>

PageShow ==
  /\ page.gone
  /\ page' = [page EXCEPT !.gone = FALSE, !.timers = Cleared(@)] /\ \E l \in Free : Starts(l)
  /\ UNCHANGED <<vault, post, said, mail, made, faults>>

TryAgain ==
  /\ page.view = "error" /\ ~page.gone
  /\ page' = [page EXCEPT !.timers = Cleared(@)] /\ \E l \in Free : Starts(l)
  /\ UNCHANGED <<vault, post, said, mail, made, faults>>

--------------------------------------------------------------------------------
(* The page's calls. *)

ClickRequest ==
  /\ page.view = "request" /\ post = NoPost
  /\ \/ CanRequest /\ Requested /\ made' = made + 1 /\ UNCHANGED faults
        /\ post' = [op |-> "request", id |-> 0, answer |-> "yes"]
     \/ CanRequest /\ Requested /\ made' = made + 1 /\ Fault
        /\ post' = [op |-> "request", id |-> 0, answer |-> "error"]
     \/ ~CanRequest /\ UNCHANGED <<vault, made, faults>>       \* deletion_pending, not_found, conflict
        /\ post' = [op |-> "request", id |-> 0,
                    answer |-> IF made = MaxRequests THEN "error" ELSE "reload"]
  /\ UNCHANGED <<load, page, said, mail>>

ClickCancel ==
  /\ page.view = "pending" /\ post = NoPost
  /\ \/ \E a \in {"yes", "no"} : Cancels(page.id, a, "yes", "no") /\ UNCHANGED faults
                                 /\ post' = [op |-> "cancel", id |-> page.id, answer |-> a]
     \/ \E a \in {"yes", "no"} : Cancels(page.id, a, "yes", "no") /\ Fault
                                 /\ post' = [op |-> "cancel", id |-> page.id, answer |-> "error"]
  /\ UNCHANGED <<load, page, said, mail, made>>

Answered ==
  /\ post # NoPost /\ ~page.gone /\ post' = NoPost
  /\ IF post.answer = "error" THEN UNCHANGED <<load, page, said>>
     ELSE /\ \E l \in Free : Starts(l)
          /\ page' = [page EXCEPT !.timers = Cleared(@), !.had = IF post.op = "cancel" THEN FALSE ELSE @]
          /\ said' = IF post.op # "cancel" THEN said
                     ELSE [id |-> post.id, what |-> IF post.answer = "yes" THEN "cancelled" ELSE "nothing"]
  /\ UNCHANGED <<vault, mail, made, faults>>

--------------------------------------------------------------------------------
(* The emailed link: POST /api/vault/deletion/cancel-link. *)

\* A link works till its deletion's time; its vault may be gone.
LinkWorks(id) == ~(vault.deletion.id = id /\ vault.deletion.due) /\ vault.state # "deleted"

ClickLink ==
  /\ \E id \in vault.links :
       \/ /\ LinkWorks(id)
          /\ \E a \in {"cancelled", "nothing"} : Cancels(id, a, "cancelled", "nothing") /\ mail' = [says |-> a, id |-> id]
       \/ ~LinkWorks(id) /\ UNCHANGED vault /\ mail' = [says |-> "invalid", id |-> id]
  /\ UNCHANGED <<load, page, post, said, made, faults>>

--------------------------------------------------------------------------------
(* Elsewhere: other sessions, the app, the cleanup job. *)

RequestElsewhere ==
  /\ CanRequest /\ Requested /\ made' = made + 1
  /\ UNCHANGED <<load, page, post, said, mail, faults>>

CancelElsewhere ==
  /\ Cancels(vault.deletion.id, "yes", "yes", "no")
  /\ UNCHANGED <<load, page, post, said, mail, made, faults>>

TimeComes ==
  /\ vault.deletion.state = "pending" /\ ~vault.deletion.due
  /\ vault' = [vault EXCEPT !.deletion.due = TRUE]
  /\ UNCHANGED <<load, page, post, said, mail, made, faults>>

Executed ==
  /\ \/ vault.deletion.state = "pending" /\ vault.deletion.due
        /\ vault' = [vault EXCEPT !.deletion.state = "executing", !.queued = vault.deletion.id]
     \/ vault.queued # 0
        /\ vault' = [vault EXCEPT !.state = "deleted", !.went = vault.queued, !.queued = 0, !.deletion = NoDeletion]
  /\ UNCHANGED <<load, page, post, said, mail, made, faults>>

NewVault ==
  /\ \/ vault.state = "deleted" /\ vault' = [vault EXCEPT !.state = "enrolling"]
     \/ vault.state = "enrolling" /\ vault' = [vault EXCEPT !.state = "sealed"]
  /\ UNCHANGED <<load, page, post, said, mail, made, faults>>

Next ==
  \/ \E l \in Loads : ReadStatus(l) \/ ReadDeletion(l) \/ LoadFails(l) \/ Render(l)
  \/ Poll \/ Hide \/ Seen \/ PageHide \/ PageShow \/ TryAgain
  \/ ClickRequest \/ ClickCancel \/ Answered
  \/ ClickLink
  \/ RequestElsewhere \/ CancelElsewhere \/ TimeComes \/ Executed \/ NewVault

Spec == Init /\ [][Next]_vars

--------------------------------------------------------------------------------
(* A deletion that the page, or the page of the link, said is cancelled    *)
(* never takes the vault, whatever the run did between the click and the   *)
(* answer (cancelDeletion's condition; deletion.js: "your vault stays as   *)
(* it is").                                                                *)
CancelledStays ==
  /\ said.what = "cancelled" => vault.went # said.id /\ vault.deletion.id # said.id
  /\ mail.says = "cancelled" => vault.went # mail.id /\ vault.deletion.id # mail.id

(* A page that shows a deletion under way looks again: a timer, a load or  *)
(* the next time it is seen, however loads overlapped (deletion.js: "This  *)
(* page checks again every minute").                                       *)
LooksAgain ==
  page.view \in {"pending", "executing"} /\ ~page.gone
    => page.timers > 0 \/ page.due \/ \E l \in Loads : load[l].at # "none"
================================================================================
