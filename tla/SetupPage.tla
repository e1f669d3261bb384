------------------------------- MODULE SetupPage --------------------------------
(***************************************************************************)
(* The page that shows a setup code (sites/account/js/vault-setup.js): it  *)
(* asks for one, shows it until it is used, cancelled, over or left, and   *)
(* asks every five seconds how it is.  Its questions are answered for the  *)
(* member's code of that moment (lambda/member/vault.ts, each route in one *)
(* step here; Enrolment has their steps), late, or never.                  *)
(***************************************************************************)
EXTENDS Naturals

CONSTANTS Codes,   \* bound: codes issued, 1..Codes
          Polls    \* timers and requests of the page's questions

VARIABLES
  code, pointer,    \* the issuances, and the member's
  page,             \* what the page shows
  post, cancel,     \* its requests for a code and for its end
  poll, timer,      \* its questions, and the timer that it remembers
  ended             \* the code last taken down by what was asked about it

vars == <<code, pointer, page, post, cancel, poll, timer, ended>>

None    == 0
NoReq   == [at |-> "none", for |-> None, ans |-> "none"]
NoPost  == [at |-> "none", code |-> None]
Answers == {"none", "live", "used", "revoked", "expired"}

TypeOK ==
  /\ code \in [1..Codes -> {"none"} \cup Answers] /\ pointer \in 0..Codes
  /\ page \in [at : {"loading", "failed", "start", "code", "terms"}, issued : 0..Codes,
               ticks : BOOLEAN, paused : BOOLEAN]
  /\ post \in [at : {"none", "sent", "code", "failed", "paused", "terms"}, code : 0..Codes]
  /\ cancel.at \in {"none", "sent", "done", "failed"} /\ cancel.ans \in {"none", "revoked", "expired"}
  /\ poll \in [Polls -> [at : {"none", "timer", "sent", "done", "failed"}, for : 0..Codes, ans : Answers]]
  /\ timer \in Polls \cup {None} /\ ended \in 0..Codes

Init ==
  /\ code = [c \in 1..Codes |-> "none"] /\ pointer = None /\ post = NoPost /\ cancel = NoReq
  /\ page = [at |-> "loading", issued |-> None, ticks |-> FALSE, paused |-> FALSE]
  /\ poll = [p \in Polls |-> NoReq] /\ timer = None /\ ended = None

server == <<code, pointer>>

--------------------------------------------------------------------------------
(* The server, and the phone.                                              *)

\* POST: the new code is the member's, the one before is revoked.
ServePost ==
  /\ post.at = "sent"
  /\ \/ \E c \in 1..Codes :
          /\ code[c] = "none" /\ \A d \in 1..(c - 1) : code[d] # "none"
          /\ code' = [d \in 1..Codes |-> IF d = c THEN "live" ELSE IF d = pointer /\ code[d] = "live" THEN "revoked" ELSE code[d]]
          /\ pointer' = c /\ post' \in {[at |-> "code", code |-> c], [at |-> "failed", code |-> None]}
     \/ post' \in [at : {"failed", "paused", "terms"}, code : {None}] /\ UNCHANGED server
  /\ UNCHANGED <<page, cancel, poll, timer, ended>>

Elsewhere ==                                   \* another tab gets a code
  /\ \E c \in 1..Codes :
       /\ code[c] = "none" /\ \A d \in 1..(c - 1) : code[d] # "none"
       /\ code' = [d \in 1..Codes |-> IF d = c THEN "live" ELSE IF d = pointer /\ code[d] = "live" THEN "revoked" ELSE code[d]]
       /\ pointer' = c
  /\ UNCHANGED <<page, post, cancel, poll, timer, ended>>

\* A phone redeems the member's code; the five minutes of one pass.
UsedOrOver ==
  /\ \E c \in 1..Codes, to \in {"used", "expired"} :
       code[c] = "live" /\ (to = "used" => c = pointer) /\ code' = [code EXCEPT ![c] = to]
  /\ UNCHANGED <<pointer, page, post, cancel, poll, timer, ended>>

\* GET: how the member's code is, which need not be the page's.
ServePoll(p) ==
  /\ poll[p].at = "sent"
  /\ \/ poll' = [poll EXCEPT ![p].at = "done", ![p].ans = IF pointer = None THEN "expired" ELSE code[pointer]]
     \/ poll' = [poll EXCEPT ![p].at = "failed"]
  /\ UNCHANGED <<server, page, post, cancel, timer, ended>>

\* DELETE: the member's code, while it is live.
ServeCancel ==
  /\ cancel.at = "sent"
  /\ \/ LET live == pointer # None /\ code[pointer] = "live" IN
        /\ code' = IF live THEN [code EXCEPT ![pointer] = "revoked"] ELSE code
        /\ cancel' \in {[cancel EXCEPT !.at = "done", !.ans = IF live THEN "revoked" ELSE "expired"],
                        [cancel EXCEPT !.at = "failed"]}
     \/ cancel' = [cancel EXCEPT !.at = "failed"] /\ UNCHANGED code
  /\ UNCHANGED <<pointer, page, post, poll, timer, ended>>

--------------------------------------------------------------------------------
(* The page.                                                               *)

\* The first load, its failure and "Try again".
Load ==
  /\ page.at \in {"loading", "failed"}
  /\ page' \in IF page.at = "failed" THEN {[page EXCEPT !.at = "loading"]}
               ELSE {[page EXCEPT !.at = "failed"]} \cup {[page EXCEPT !.at = "start", !.paused = b] : b \in BOOLEAN}
  /\ UNCHANGED <<server, post, cancel, poll, timer, ended>>

GetCode ==
  /\ page.at = "start" /\ ~page.paused /\ post = NoPost /\ post' = [NoPost EXCEPT !.at = "sent"]
  /\ UNCHANGED <<server, page, cancel, poll, timer, ended>>

\* clearTimeout(pollTimer): only the timer that it remembers.
Cleared == IF timer # None /\ poll[timer].at = "timer" THEN [poll EXCEPT ![timer] = NoReq] ELSE poll

\* wipe() and renderStart().
Wiped(paused) ==
  /\ page' = [at |-> "start", issued |-> None, ticks |-> FALSE, paused |-> paused]
  /\ poll' = Cleared /\ timer' = None

\* issue(): the code is shown, and asked about after five seconds.
CodeArrives ==
  /\ post.at \notin {"none", "sent"} /\ post' = NoPost
  /\ CASE post.at = "code" ->
            \E p \in Polls :
              /\ Cleared[p] = NoReq /\ timer' = p
              /\ poll' = [Cleared EXCEPT ![p] = [NoReq EXCEPT !.at = "timer"]]
              /\ page' = [page EXCEPT !.at = "code", !.issued = post.code, !.ticks = TRUE]
       [] post.at = "paused" -> Wiped(TRUE)
       [] post.at = "terms"  -> page' = [page EXCEPT !.at = "terms"] /\ UNCHANGED <<poll, timer>>
       [] OTHER -> UNCHANGED <<page, poll, timer>>
  /\ UNCHANGED <<server, cancel, ended>>

Ends(for) == Wiped(page.paused) /\ ended' = IF for = page.issued THEN for ELSE None

\* The countdown reaches 0:00.
Tick ==
  /\ page.ticks /\ page.issued # None /\ code[page.issued] # "live" /\ Ends(page.issued)
  /\ UNCHANGED <<server, post, cancel>>

\* poll(): asks, unless the code is gone.
Ask(p) ==
  /\ poll[p].at = "timer"
  /\ poll' = [poll EXCEPT ![p] = IF page.issued = None THEN NoReq ELSE [NoReq EXCEPT !.at = "sent", !.for = page.issued]]
  /\ UNCHANGED <<server, page, post, cancel, timer, ended>>

Rearm(p) == poll' = [poll EXCEPT ![p] = [NoReq EXCEPT !.at = "timer"]] /\ timer' = p
Drop(p)  == poll' = [poll EXCEPT ![p] = NoReq] /\ UNCHANGED timer

AfterFailNone(p) == Drop(p)       \* mutated form: a question that fails is the last
AfterFail(p)     == Rearm(p)

PollFails(p) ==
  /\ poll[p].at = "failed" /\ AfterFail(p)
  /\ UNCHANGED <<server, page, post, cancel, ended>>

\* The answer: a code that is not live is taken off the page.
PollArrives(p) ==
  /\ poll[p].at = "done"
  /\ CASE page.issued = None -> Drop(p) /\ UNCHANGED <<page, ended>>
       [] page.issued # None /\ poll[p].ans = "live" -> Rearm(p) /\ UNCHANGED <<page, ended>>
       [] OTHER ->
            /\ page' = [at |-> "start", issued |-> None, ticks |-> FALSE, paused |-> page.paused]
            /\ poll' = [Cleared EXCEPT ![p] = NoReq] /\ timer' = None
            /\ ended' = IF poll[p].for = page.issued THEN page.issued ELSE None
  /\ UNCHANGED <<server, post, cancel>>

CancelCode ==
  /\ page.at = "code" /\ cancel = NoReq /\ cancel' = [NoReq EXCEPT !.at = "sent", !.for = page.issued]
  /\ UNCHANGED <<server, page, post, poll, timer, ended>>

SaysEndAny  == cancel.at \in {"done", "failed"}    \* mutated form: whatever came of it
SaysEnd     == cancel.at = "done"

CancelArrives ==
  /\ cancel.at \in {"done", "failed"} /\ cancel' = NoReq
  /\ IF SaysEnd THEN Ends(cancel.for) ELSE UNCHANGED <<page, poll, timer, ended>>
  /\ UNCHANGED <<server, post>>

\* pagehide: the code goes.
Hide ==
  /\ page.issued # None /\ Wiped(page.paused)
  /\ UNCHANGED <<server, post, cancel, ended>>

--------------------------------------------------------------------------------
Next ==
  \/ ServePost \/ Elsewhere \/ UsedOrOver \/ ServeCancel
  \/ Load \/ GetCode \/ CodeArrives \/ Tick \/ CancelCode \/ CancelArrives \/ Hide
  \/ \E p \in Polls : ServePoll(p) \/ Ask(p) \/ PollFails(p) \/ PollArrives(p)

Spec == Init /\ [][Next]_vars

--------------------------------------------------------------------------------
(* While a code is on the page its countdown runs and it is asked about,   *)
(* whichever question failed or came back late for a code before           *)
(* (vault-setup.js, poll and schedule).                                    *)
Watched == page.issued # None => page.ticks /\ \E p \in Polls : poll[p].at # "none"

(* A code that the page took down and called over works no more, when the  *)
(* answer was to a question asked about it.  (An answer that comes late    *)
(* for a code before takes down the next one, which still works.)          *)
OverIsOver == ended # None => ended # pointer \/ code[ended] # "live"
================================================================================
