------------------------------ MODULE DeletionCode ------------------------------
(***************************************************************************)
(* The emailed code that an account's deletion asks for: issued, replaced, *)
(* guessed and spent (lambda/member/account.ts, POST                       *)
(* /api/account/deletion/code and spendCode).  A request reads the code    *)
(* with its member row, and a newer code may replace it meanwhile.         *)
(***************************************************************************)
EXTENDS Naturals

CONSTANTS Calls, Codes, MaxAttempts   \* requests at once; bound: codes issued, 1..n; the code's maximum

VARIABLES
  code,     \* deletion_code of the member row, or none
  call,     \* a deletion request: where it is, the code it read, and whether its guess is right
  issue,    \* the code request whose mail is under way
  issued,
  compared, \* history: guesses compared with each code
  accepted  \* history: deletions that each code let through

vars == <<code, call, issue, issued, compared, accepted>>

Ids    == 1..Codes
NoCode == [id |-> 0, attempts |-> 0, expired |-> FALSE]
NoCall == [at |-> "idle", id |-> 0, right |-> FALSE]

TypeOK ==
  /\ code \in [id : {0} \cup Ids, attempts : 0..MaxAttempts, expired : BOOLEAN]
  /\ call \in [Calls -> [at : {"idle", "reserve", "compare", "last", "remove"}, id : {0} \cup Ids, right : BOOLEAN]]
  /\ issue \in {0} \cup Ids /\ issued \in 0..Codes
  /\ compared \in [Ids -> Nat] /\ accepted \in [Ids -> Nat]

Init ==
  /\ code = NoCode /\ call = [c \in Calls |-> NoCall] /\ issue = 0 /\ issued = 0
  /\ compared = [i \in Ids |-> 0] /\ accepted = [i \in Ids |-> 0]

--------------------------------------------------------------------------------
(* POST /api/account/deletion/code: a new code replaces the old one.       *)

Issue ==
  /\ issue = 0 /\ issued < Codes /\ issued' = issued + 1
  /\ code' = [NoCode EXCEPT !.id = issued + 1] /\ issue' = issued + 1
  /\ UNCHANGED <<call, compared, accepted>>

\* Mailed; or never delivered, and then this code, and no newer one, is taken off again.
Mail ==
  /\ issue # 0 /\ issue' = 0
  /\ code' \in {code, IF code.id = issue THEN NoCode ELSE code}
  /\ UNCHANGED <<call, issued, compared, accepted>>

CodeExpires ==
  /\ code.id # 0 /\ ~code.expired /\ code' = [code EXCEPT !.expired = TRUE]
  /\ UNCHANGED <<call, issue, issued, compared, accepted>>

--------------------------------------------------------------------------------
(* spendCode().                                                            *)

\* The member row is read, with a code that has not expired.
Read(c) ==
  /\ call[c].at = "idle" /\ code.id # 0 /\ ~code.expired
  /\ \E right \in BOOLEAN : call' = [call EXCEPT ![c] = [at |-> "reserve", id |-> code.id, right |-> right]]
  /\ UNCHANGED <<code, issue, issued, compared, accepted>>

AttemptLeftAny == TRUE   \* mutated form: an attempt is counted, never refused
AttemptLeft    == code.attempts < MaxAttempts

\* The attempt is counted before the compare.
Reserve(c) ==
  /\ call[c].at = "reserve"
  /\ IF code.id = call[c].id /\ AttemptLeft /\ ~code.expired
     THEN /\ code' = [code EXCEPT !.attempts = @ + 1]
          /\ call' = [call EXCEPT ![c].at = IF code.attempts + 1 >= MaxAttempts THEN "last" ELSE "compare"]
     ELSE call' = [call EXCEPT ![c] = NoCall] /\ UNCHANGED code
  /\ UNCHANGED <<issue, issued, compared, accepted>>

\* Right, or wrong and the last one: the code is to be removed.
Compare(c) ==
  /\ call[c].at \in {"compare", "last"}
  /\ compared' = [compared EXCEPT ![call[c].id] = @ + 1]
  /\ call' = [call EXCEPT ![c] = IF call[c].right \/ call[c].at = "last"
                                 THEN [@ EXCEPT !.at = "remove"] ELSE NoCall]
  /\ UNCHANGED <<code, issue, issued, accepted>>

SpentAny(c) == TRUE   \* mutated form: a code removed by another request meanwhile is accepted
Spent(c)    == code.id = call[c].id

\* Only that code; and the deletion goes ahead only if this request removed it.
Remove(c) ==
  /\ call[c].at = "remove"
  /\ code' = IF code.id = call[c].id THEN NoCode ELSE code
  /\ accepted' = IF call[c].right /\ Spent(c) THEN [accepted EXCEPT ![call[c].id] = @ + 1] ELSE accepted
  /\ call' = [call EXCEPT ![c] = NoCall]
  /\ UNCHANGED <<issue, issued, compared>>

Stops(c) ==
  /\ call[c].at # "idle" /\ call' = [call EXCEPT ![c] = NoCall]
  /\ UNCHANGED <<code, issue, issued, compared, accepted>>

Next ==
  \/ Issue \/ Mail \/ CodeExpires
  \/ \E c \in Calls : Read(c) \/ Reserve(c) \/ Compare(c) \/ Remove(c) \/ Stops(c)
Spec == Init /\ [][Next]_vars

--------------------------------------------------------------------------------
(* Two guesses never share an attempt (account.ts, spendCode).             *)
GuessesBounded == \A i \in Ids : compared[i] <= MaxAttempts

(* A code is single use: of two requests that send it at once one goes on. *)
OneUse == \A i \in Ids : accepted[i] <= 1
================================================================================
