---------------------------- MODULE AccountDeletePage ----------------------------
(***************************************************************************)
(* The page that deletes the account (sites/account/js/account-delete.js): *)
(* its loads, the code it asks for and the request, each a call of its own *)
(* whose answer may be lost or late, over the account and the vaults that  *)
(* block it (lambda/member/account.ts).  How often a code may be tried is  *)
(* DeletionCode's, what follows the request AccountDeletion's.             *)
(***************************************************************************)
EXTENDS Integers

CONSTANTS MaxCodes, MaxFaults, MaxLoads   \* bounds: codes asked for, calls that fail, loads

VARIABLES
  account,  \* its standing, and whether this page's own request closed it
  vaults,   \* what blocks the deletion: none, an unfinished setup, a vault
  code,     \* the code on the member row, 0 none
  view,     \* what the page shows
  load, ask, submit,   \* its calls under way, and what was answered
  codes, faults, loads

vars == <<account, vaults, code, view, load, ask, submit, codes, faults, loads>>

Answers == {"ok", "signed_out", "blocked", "limited", "failed", "wrong"}
Calls   == {"none", "sent"} \cup Answers

TypeOK ==
  /\ account \in [active : BOOLEAN, mine : BOOLEAN]
  /\ vaults \in {"none", "enrolling", "vault"} /\ code \in 0..MaxCodes
  /\ view \in {"start", "form", "blocked", "signed_out", "error", "closed", "failed"}
  /\ {load, ask} \subseteq Calls /\ submit \in [at : Calls, code : 0..MaxCodes]
  /\ codes \in 0..MaxCodes /\ faults \in 0..MaxFaults /\ loads \in 0..MaxLoads

Init ==
  /\ account = [active |-> TRUE, mine |-> FALSE]
  /\ vaults \in {"none", "enrolling", "vault"} /\ code = 0 /\ view = "start"
  /\ load = "sent" /\ ask = "none" /\ submit = [at |-> "none", code |-> 0]
  /\ codes = 0 /\ faults = 0 /\ loads = 1

Fault == faults < MaxFaults /\ faults' = faults + 1

--------------------------------------------------------------------------------
(* The routes. *)

\* GET /api/account/deletion, of an active account; blocked_by says what blocks it.
Serve ==
  /\ load = "sent"
  /\ \/ load' = (IF ~account.active THEN "signed_out" ELSE IF vaults # "none" THEN "blocked" ELSE "ok")
        /\ UNCHANGED faults
     \/ Fault /\ load' \in {"failed", "limited"}
  /\ UNCHANGED <<account, vaults, code, view, ask, submit, codes, loads>>

\* POST /api/account/deletion/code: a code that could not be mailed is taken off again.
ServeCode ==
  /\ ask = "sent"
  /\ \/ /\ ~account.active /\ ask' = "signed_out" /\ UNCHANGED <<code, codes, faults>>
     \/ /\ account.active /\ vaults # "none" /\ ask' = "blocked" /\ UNCHANGED <<code, codes, faults>>
     \/ /\ account.active /\ vaults = "none" /\ codes < MaxCodes
        /\ code' = codes + 1 /\ codes' = codes + 1 /\ ask' = "ok" /\ UNCHANGED faults
     \/ Fault /\ account.active /\ ask' \in {"failed", "limited"} /\ code' \in {0, code} /\ UNCHANGED codes
  /\ UNCHANGED <<account, vaults, view, load, submit, loads>>

\* POST /api/account/deletion: the code is spent, then the vaults are read, and an account
\* without one is closed; a step that fails after that is a 500 as well.
Closes == account' = [active |-> FALSE, mine |-> TRUE] /\ code' = 0
Says(answer) == submit' = [submit EXCEPT !.at = answer]

ServeDeletion ==
  /\ submit.at = "sent"
  /\ \/ ~account.active /\ Says("signed_out") /\ UNCHANGED <<account, code, faults>>
     \/ account.active /\ code # submit.code /\ Says("wrong") /\ UNCHANGED <<account, code, faults>>
     \/ account.active /\ code = submit.code /\ vaults # "none" /\ Says("blocked") /\ code' = 0
        /\ UNCHANGED <<account, faults>>
     \/ account.active /\ code = submit.code /\ vaults = "none" /\ Closes /\ Says("ok") /\ UNCHANGED faults
     \/ account.active /\ code = submit.code /\ vaults = "none" /\ Closes /\ Says("failed") /\ Fault
     \/ Fault /\ Says("failed") /\ UNCHANGED account /\ code' \in {code, IF code = submit.code THEN 0 ELSE code}
     \/ Fault /\ Says("limited") /\ UNCHANGED <<account, code>>
  /\ UNCHANGED <<vaults, view, load, ask, codes, loads>>

--------------------------------------------------------------------------------
(* The page. *)

StartLoad == loads < MaxLoads /\ loads' = loads + 1 /\ load' = "sent"

Loaded ==
  /\ load \in Answers
  /\ view' = CASE load = "ok" -> "form" [] load \in {"blocked", "signed_out"} -> load [] OTHER -> "error"
  /\ load' = "none"
  /\ UNCHANGED <<account, vaults, code, ask, submit, codes, faults, loads>>

TryAgain ==
  /\ view = "error" /\ load = "none" /\ StartLoad
  /\ UNCHANGED <<account, vaults, code, view, ask, submit, codes, faults>>

\* "Email me a code"; the form's buttons are locked while the form is sent.
AskCode ==
  /\ view = "form" /\ ask = "none" /\ submit.at = "none" /\ codes < MaxCodes /\ ask' = "sent"
  /\ UNCHANGED <<account, vaults, code, view, load, submit, codes, faults, loads>>

\* A vault since then: the page is loaded again; any other answer is only said.
CodeAnswered ==
  /\ ask \in Answers /\ ask' = "none"
  /\ IF ask = "blocked" /\ load = "none" THEN StartLoad ELSE UNCHANGED <<load, loads>>
  /\ UNCHANGED <<account, vaults, code, view, submit, codes, faults>>

\* The code of a mail that came.
Submit ==
  /\ view = "form" /\ submit.at = "none"
  /\ \E c \in 1..codes : submit' = [at |-> "sent", code |-> c]
  /\ UNCHANGED <<account, vaults, code, view, load, ask, codes, faults, loads>>

AfterRetry(answer)  == IF answer = "ok" THEN "closed" ELSE view        \* mutated form: an error is shown on the form
AfterSubmit(answer) == CASE answer = "ok" -> "closed" [] answer = "failed" -> "failed" [] OTHER -> view

Submitted ==
  /\ submit.at \in Answers /\ submit' = [at |-> "none", code |-> 0]
  /\ view' = AfterSubmit(submit.at)
  /\ IF submit.at = "blocked" /\ load = "none" THEN StartLoad ELSE UNCHANGED <<load, loads>>
  /\ UNCHANGED <<account, vaults, code, ask, codes, faults>>

--------------------------------------------------------------------------------
(* Elsewhere. *)

VaultsChange ==
  /\ account.active /\ vaults' \in {"none", "enrolling", "vault"} \ {vaults}
  /\ UNCHANGED <<account, code, view, load, ask, submit, codes, faults, loads>>

\* By another session or an administrator.
ClosedElsewhere ==
  /\ account.active /\ account' = [account EXCEPT !.active = FALSE] /\ code' = 0
  /\ UNCHANGED <<vaults, view, load, ask, submit, codes, faults, loads>>

Next ==
  \/ Serve \/ ServeCode \/ ServeDeletion
  \/ Loaded \/ TryAgain \/ AskCode \/ CodeAnswered \/ Submit \/ Submitted
  \/ VaultsChange \/ ClosedElsewhere

Spec == Init /\ [][Next]_vars

--------------------------------------------------------------------------------
(* Once its own request closed the account and was answered, or may have   *)
(* been, the page offers no other, unless a load or a code crossed it      *)
(* (account-delete.js: "A 500 may come after the account was closed: never *)
(* invite a retry").                                                       *)
NoRetry ==
  account.mine /\ submit.at = "none" /\ view = "form" => loads > 1
================================================================================
