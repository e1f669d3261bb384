------------------------------- MODULE EarlyAccess -------------------------------
(***************************************************************************)
(* Requests for early access made for one email address: the public route, *)
(* with or without a registration code, the code's life, the decision of   *)
(* the administrator, the mail with the withdrawal link, the withdrawal    *)
(* and the removals (lambda/member/public.ts, admin/people.ts,             *)
(* jobs/members-stream.ts, jobs/verifications.ts, jobs/cleanup.ts,         *)
(* shared/members.ts).  The row and its email marker go in one             *)
(* transaction; the Cognito user and the SES identity are elsewhere.       *)
(***************************************************************************)
EXTENDS Naturals, FiniteSets

CONSTANTS Requests   \* bound: requests made for the address, one guid each, 1..n

VARIABLES
  row,      \* the member rows
  marker,   \* the guid the address's email marker names
  user,     \* the guid the Cognito user under the address carries
  identity, \* the address's SES identity
  invite,   \* the registration code
  asked,    \* POST /api/public/request: where each is
  admin,    \* the approval
  mailer,   \* the members-stream handler
  job,      \* a removal of the cleanup job
  mailed    \* history: the token of the withdrawal link delivered to each requester

vars == <<row, marker, user, identity, invite, asked, admin, mailer, job, mailed>>

Guids == 1..Requests
NoRow == [state |-> "none", verified |-> FALSE, owns |-> FALSE, token |-> 0, code |-> FALSE]
Idle  == [at |-> "idle", guid |-> 0]

InviteItem == [max_uses : 0..1, uses : Guids \cup {0}, expired : BOOLEAN]
NoInvite   == [max_uses |-> 0, uses |-> 0, expired |-> FALSE]

TypeOK ==
  /\ row \in [Guids -> [state : {"none", "requested", "registered", "rejected", "withdrawn"},
                        verified : BOOLEAN, owns : BOOLEAN, token : 0..2, code : BOOLEAN]]
  /\ marker \in {0} \cup Guids /\ user \in {0} \cup Guids
  /\ identity \in {"missing", "pending", "verified"} /\ invite \in InviteItem
  /\ asked \in [Guids -> {"new", "create", "user", "identity", "owns", "done"}]
  /\ admin \in [at : {"idle", "user", "write"}, guid : {0} \cup Guids]
  /\ mailer \in [at : {"idle", "send"}, guid : {0} \cup Guids, token : 0..2]
  /\ job \in [at : {"idle", "user", "identity", "rows", "released"}, guid : {0} \cup Guids]
  /\ mailed \in [Guids -> 0..2]
  /\ \A g \in Guids : row[g].token # 0 => row[g].verified   \* a link only to a verified address

Init ==
  /\ row = [g \in Guids |-> NoRow] /\ marker = 0 /\ user = 0 /\ identity = "missing" /\ invite = NoInvite
  /\ asked = [g \in Guids |-> "new"] /\ admin = Idle /\ job = Idle
  /\ mailer = [at |-> "idle", guid |-> 0, token |-> 0] /\ mailed = [g \in Guids |-> 0]

--------------------------------------------------------------------------------
(* POST /api/public/request.                                               *)

\* memberByEmail() finds no row: the same answer either way.
Ask(g) ==
  /\ asked[g] = "new" /\ \A h \in Guids : row[h].state = "none"
  /\ asked' = [asked EXCEPT ![g] = "create"]
  /\ UNCHANGED <<row, marker, user, identity, invite, admin, mailer, job, mailed>>

UsableUnlessExpired == invite.max_uses > 0 /\ ~invite.expired   \* mutated form: its uses were read before
Usable == UsableUnlessExpired /\ invite.uses < invite.max_uses

UnmarkedAny == TRUE   \* mutated form: the marker is put unconditionally
Unmarked    == marker = 0

\* create(): the row, its marker and a use of the code in one transaction.
Create(g) ==
  /\ asked[g] = "create"
  /\ IF Unmarked
     THEN \E code \in BOOLEAN :
            /\ code => Usable
            /\ invite' = IF code THEN [invite EXCEPT !.uses = @ + 1] ELSE invite
            /\ row' = [row EXCEPT ![g] = [NoRow EXCEPT !.state = IF code THEN "registered" ELSE "requested",
                                                      !.verified = identity = "verified", !.code = code]]
            /\ marker' = g
            /\ asked' = [asked EXCEPT ![g] = IF code THEN "user" ELSE "identity"]
     ELSE asked' = [asked EXCEPT ![g] = "done"] /\ UNCHANGED <<row, marker, invite>>
  /\ UNCHANGED <<user, identity, admin, mailer, job, mailed>>

\* A registration's Cognito user; a failure falls back to review.
CreateUser(g) ==
  /\ asked[g] = "user"
  /\ \/ user = 0 /\ user' = g /\ UNCHANGED row
     \/ /\ user' \in (IF user = 0 THEN {0, g} ELSE {user})
        /\ row' = [row EXCEPT ![g].state = "requested"]
  /\ asked' = [asked EXCEPT ![g] = "identity"]
  /\ UNCHANGED <<marker, identity, invite, admin, mailer, job, mailed>>

CreateIdentity(g) ==
  /\ asked[g] = "identity"
  /\ IF row[g].verified \/ identity # "missing"
     THEN asked' = [asked EXCEPT ![g] = "done"] /\ UNCHANGED identity
     ELSE asked' = [asked EXCEPT ![g] = "owns"] /\ identity' = "pending"
  /\ UNCHANGED <<row, marker, user, invite, admin, mailer, job, mailed>>

SetOwns(g) ==
  /\ asked[g] = "owns"
  /\ row' = IF row[g].state = "none" THEN row ELSE [row EXCEPT ![g].owns = TRUE]
  /\ asked' = [asked EXCEPT ![g] = "done"]
  /\ UNCHANGED <<marker, user, identity, invite, admin, mailer, job, mailed>>

\* The person clicks SES's mail; every 15 minutes verifications.ts finds it.
Click ==
  /\ identity = "pending" /\ identity' = "verified"
  /\ UNCHANGED <<row, marker, user, invite, asked, admin, mailer, job, mailed>>

FlipVerified(g) ==
  /\ row[g].state \in {"requested", "registered"} /\ ~row[g].verified /\ identity = "verified"
  /\ row' = [row EXCEPT ![g].verified = TRUE]
  /\ UNCHANGED <<marker, user, identity, invite, asked, admin, mailer, job, mailed>>

--------------------------------------------------------------------------------
(* The administrator.                                                      *)

\* Read as requested, its address verified (on the row, or at SES by now).
ApproveRead(g) ==
  /\ admin.at = "idle" /\ row[g].state = "requested" /\ (row[g].verified \/ identity = "verified")
  /\ admin' = [at |-> "user", guid |-> g]
  /\ UNCHANGED <<row, marker, user, identity, invite, asked, mailer, job, mailed>>

OwnUserAny(g) == TRUE       \* mutated form: any user under the address will do
OwnUser(g)    == user = g   \* one left by another request refuses the approval

ApproveUser ==
  /\ admin.at = "user"
  /\ \/ user = 0 /\ user' = admin.guid /\ admin' = [admin EXCEPT !.at = "write"]
     \/ user # 0 /\ UNCHANGED user
        /\ admin' = IF OwnUser(admin.guid) THEN [admin EXCEPT !.at = "write"] ELSE Idle
  /\ UNCHANGED <<row, marker, identity, invite, asked, mailer, job, mailed>>

ApproveWrite ==
  /\ admin.at = "write"
  /\ row' = IF row[admin.guid].state = "requested"
            THEN [row EXCEPT ![admin.guid] = [@ EXCEPT !.state = "registered", !.verified = TRUE, !.token = 0]]
            ELSE row
  /\ admin' = Idle
  /\ UNCHANGED <<marker, user, identity, invite, asked, mailer, job, mailed>>

MakeInvite ==
  /\ invite = NoInvite /\ invite' = [invite EXCEPT !.max_uses = 1]
  /\ UNCHANGED <<row, marker, user, identity, asked, admin, mailer, job, mailed>>

\* Expired by the administrator or by time, or deleted, as far as it matters: one used up is out of use already.
EndInvite ==
  /\ Usable /\ invite' = [invite EXCEPT !.expired = TRUE]
  /\ UNCHANGED <<row, marker, user, identity, asked, admin, mailer, job, mailed>>

Reject(g) ==
  /\ row[g].state = "requested" /\ row' = [row EXCEPT ![g].state = "rejected"]
  /\ UNCHANGED <<marker, user, identity, invite, asked, admin, mailer, job, mailed>>

\* resend-verification: the identity is recreated, and is then this row's.
Resend(g) ==
  /\ row[g].state \notin {"none", "withdrawn"} /\ identity # "verified"
  /\ identity' = "pending" /\ row' = [row EXCEPT ![g].owns = TRUE]
  /\ UNCHANGED <<marker, user, invite, asked, admin, mailer, job, mailed>>

--------------------------------------------------------------------------------
(* "We have your request": claimed with its token, sent, given back if not *)
(* sent; and the withdrawal by that token.                                 *)

Claimable(g) == row[g].state = "requested" /\ row[g].verified /\ row[g].token = 0

ClaimMail(g) ==
  /\ mailer.at = "idle" /\ Claimable(g)
  /\ \E t \in 1..2 :
       /\ t > mailed[g]
       /\ row' = [row EXCEPT ![g].token = t]
       /\ mailer' = [at |-> "send", guid |-> g, token |-> t]
  /\ UNCHANGED <<marker, user, identity, invite, asked, admin, job, mailed>>

UnclaimAny(r, t) == [r EXCEPT !.token = 0]   \* mutated form: given back after a send too
Unclaim(r, t)    == r

\* A handler that dies after the send is run again on the same record.
SendMail ==
  /\ mailer.at = "send"
  /\ LET g == mailer.guid IN
       \/ /\ mailed' = [mailed EXCEPT ![g] = mailer.token]
          /\ row' = [row EXCEPT ![g] = Unclaim(@, mailer.token)]
       \/ /\ row' = IF row[g].token = mailer.token THEN [row EXCEPT ![g].token = 0] ELSE row
          /\ UNCHANGED mailed
  /\ mailer' = [at |-> "idle", guid |-> 0, token |-> 0]
  /\ UNCHANGED <<marker, user, identity, invite, asked, admin, job>>

Withdraw(g) ==
  /\ mailed[g] # 0 /\ row[g].token = mailed[g] /\ row[g].state \in {"requested", "rejected"}
  /\ row' = [row EXCEPT ![g] = [@ EXCEPT !.state = "withdrawn", !.token = 0]]
  /\ UNCHANGED <<marker, user, identity, invite, asked, admin, mailer, job, mailed>>

--------------------------------------------------------------------------------
(* The removals: a withdrawn request at once, a declined one when due, the *)
(* user and the identity first and the rows last; one never verified, its  *)
(* rows first.                                                             *)

RemovalRead(g) ==
  /\ job.at = "idle" /\ row[g].state \in {"withdrawn", "rejected"}
  /\ job' = [at |-> "user", guid |-> g]
  /\ UNCHANGED <<row, marker, user, identity, invite, asked, admin, mailer, mailed>>

deleteRequestUser ==
  /\ job.at = "user"
  /\ user' = IF user = job.guid THEN 0 ELSE user
  /\ job' = [job EXCEPT !.at = "identity"]
  /\ UNCHANGED <<row, marker, identity, invite, asked, admin, mailer, mailed>>

releaseIdentity ==
  /\ job.at = "identity"
  /\ identity' = IF row[job.guid].owns THEN "missing" ELSE identity
  /\ job' = [job EXCEPT !.at = "rows"]
  /\ UNCHANGED <<row, marker, user, invite, asked, admin, mailer, mailed>>

\* Only while still so; after seven days of failures outside, the rows alone.
deleteRequestRows ==
  /\ job.at \in {"user", "rows"}
  /\ LET g == job.guid IN
       IF row[g].state \in {"withdrawn", "rejected"}
       THEN row' = [row EXCEPT ![g] = NoRow] /\ marker' = IF marker = g THEN 0 ELSE marker
       ELSE UNCHANGED <<row, marker>>
  /\ job' = Idle
  /\ UNCHANGED <<user, identity, invite, asked, admin, mailer, mailed>>

RemoveStale(g) ==
  /\ job.at = "idle" /\ row[g].state = "requested" /\ ~row[g].verified
  /\ row' = [row EXCEPT ![g] = NoRow] /\ marker' = IF marker = g THEN 0 ELSE marker
  /\ job' = [at |-> IF marker = g THEN "released" ELSE "idle", guid |-> g]
  /\ UNCHANGED <<user, identity, invite, asked, admin, mailer, mailed>>

\* Kept on the mailing list, or when it was there before the request.
releaseIdentityOfGoneRow ==
  /\ job.at = "released"
  /\ identity' \in {identity, "missing"} /\ job' = Idle
  /\ UNCHANGED <<row, marker, user, invite, asked, admin, mailer, mailed>>

Dies ==
  /\ \/ \E g \in Guids : asked[g] \in {"user", "identity", "owns"}
                         /\ asked' = [asked EXCEPT ![g] = "done"] /\ UNCHANGED <<admin, job>>
     \/ admin.at # "idle" /\ admin' = Idle /\ UNCHANGED <<asked, job>>
     \/ job.at # "idle" /\ job' = Idle /\ UNCHANGED <<asked, admin>>
  /\ UNCHANGED <<row, marker, user, identity, invite, mailer, mailed>>

PublicNext(g) == Ask(g) \/ Create(g) \/ CreateUser(g) \/ CreateIdentity(g) \/ SetOwns(g) \/ Withdraw(g)
AdminNext(g)  == ApproveRead(g) \/ Reject(g) \/ Resend(g)
JobNext(g)    == FlipVerified(g) \/ ClaimMail(g) \/ RemovalRead(g) \/ RemoveStale(g)
Next == \/ \E g \in Guids : PublicNext(g) \/ AdminNext(g) \/ JobNext(g)
        \/ MakeInvite \/ EndInvite \/ Click \/ ApproveUser \/ ApproveWrite \/ SendMail
        \/ deleteRequestUser \/ releaseIdentity \/ deleteRequestRows \/ releaseIdentityOfGoneRow \/ Dies

Spec == Init /\ [][Next]_vars

--------------------------------------------------------------------------------
(* One row for the address at a time, and its marker is its own: a request *)
(* made while another is being removed waits until the rows are gone.      *)
OneRow == \A g \in Guids : row[g].state # "none" =>
  /\ marker = g
  /\ \A h \in Guids \ {g} : row[h].state = "none"

(* A registration code lets no more people in than its uses, together or   *)
(* one after the other (public.ts, create).                                *)
CodeCounted == Cardinality({g \in Guids : row[g].code}) <= invite.uses /\ invite.uses <= invite.max_uses

(* An account made by an approval can sign in: the Cognito user under its  *)
(* address carries its id, whatever user an earlier request left there     *)
(* (admin/people.ts, STALE_USER_MESSAGE).                                  *)
ApprovedCanSignIn == \A g \in Guids :
  row[g].state = "registered" /\ ~row[g].code => user = g

(* The withdrawal link a person holds works for as long as the request is  *)
(* held (requestReceivedMail: "The link works for as long as we hold the   *)
(* request").                                                              *)
LinkWorks == \A g \in Guids :
  mailed[g] # 0 /\ row[g].state \in {"requested", "rejected"} => row[g].token = mailed[g]
================================================================================
