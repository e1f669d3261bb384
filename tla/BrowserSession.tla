------------------------------ MODULE BrowserSession ------------------------------
(***************************************************************************)
(* The session of one browser: the cookies the member API sets             *)
(* (lambda/shared/member-http.ts, lambda/member/auth.ts), the tabs that    *)
(* share them (sites/account/js/api.js, auth.js), and the refresh tokens   *)
(* at Cognito.  A call is answered with the cookies it was sent with, and  *)
(* its answer sets cookies when it arrives, after others did.  Whether a   *)
(* link or a PIN is right is SignIn's.                                     *)
(***************************************************************************)
EXTENDS Integers, Sequences

CONSTANTS Tabs,
          Accounts, Guarded,   \* members; those with a PIN
          NoOne,
          MaxTokens, MaxTime, MaxFaults  \* bounds

VARIABLES
  jar,     \* the browser's cookies
  tokens,  \* the refresh tokens issued, each its account
  live,    \* those not revoked
  open,    \* accounts whose sign-in is open
  call,    \* of each tab: the call under way, and the cookies its answer sets
  out,     \* when the browser was signed out, -1 when it was not since
  now,     \* in lives of an ID token
  faults

vars == <<jar, tokens, live, open, call, out, now, faults>>

NoId == [who |-> NoOne, till |-> 0]
Id(a) == [who |-> a, till |-> now + 1]

\* rt, old: vid_rt at /api and at the path it had before; 0 and NoOne: no cookie.
NoCookies == [id |-> NoId, rt |-> 0, old |-> 0, pin |-> NoOne, present |-> FALSE]

\* An answer's Set-Cookie: a function from the cookies it sets to their values.
Arrived(set) == [c \in DOMAIN jar |-> IF c \in DOMAIN set THEN set[c] ELSE jar[c]]
Nothing == [c \in {} |-> 0]

NoCall == [at |-> "none", set |-> Nothing]

TypeOK ==
  /\ DOMAIN jar = DOMAIN NoCookies /\ {jar.rt, jar.old} \subseteq 0..MaxTokens /\ jar.present \in BOOLEAN
  /\ jar.pin \in Accounts \cup {NoOne} /\ jar.id.who \in Accounts \cup {NoOne}
  /\ tokens \in Seq(Accounts) /\ Len(tokens) <= MaxTokens /\ live \subseteq DOMAIN tokens
  /\ \A t \in Tabs : call[t].at \in {"none", "signing_in", "called", "refused", "refreshing", "retried", "signing_out", "signin_page"}
  /\ open \subseteq Accounts /\ out \in -1..MaxTime /\ now \in 0..MaxTime /\ faults \in 0..MaxFaults

\* A session of before vid_rt moved, or none.
Init ==
  /\ \/ jar = NoCookies /\ tokens = <<>>
     \/ \E a \in Accounts : /\ tokens = <<a>>
                            /\ jar = [NoCookies EXCEPT !.id = [who |-> a, till |-> 1], !.old = 1]
  /\ live = DOMAIN tokens /\ open = Accounts
  /\ call = [t \in Tabs |-> NoCall] /\ out = -1 /\ now = 0 /\ faults = 0

--------------------------------------------------------------------------------
(* What the API sets. *)

\* setSession() of a new sign-in: the next token is issued.
NewSession(a) ==
  [id |-> Id(a), rt |-> Len(tokens) + 1, old |-> 0, pin |-> NoOne, present |-> TRUE]

\* clearSessionCookies(): at every path a cookie ever had.
ClearedAtApi == [id |-> NoId, rt |-> 0, pin |-> NoOne, present |-> FALSE]  \* mutated form: not where vid_rt was before
Cleared == NoCookies

\* requireSession(): the renewed ID token only.
RenewedToo(a, n) == [id |-> Id(a), rt |-> n, present |-> TRUE]  \* mutated form: the refresh cookie's days begin anew
Renewed(a, n) == [id |-> Id(a), present |-> TRUE]

Refreshable(n) == n \in live /\ tokens[n] \in open
Valid(id) == id.who # NoOne /\ now < id.till

\* The cookie of the longer path comes first, and parseCookies keeps the last.
AuthToken == IF jar.rt # 0 THEN jar.rt ELSE jar.old

Sent(t, at, set) == call' = [call EXCEPT ![t] = [at |-> at, set |-> set]]
Fault == faults < MaxFaults /\ faults' = faults + 1
Issue(a) == tokens' = Append(tokens, a) /\ live' = live \cup {Len(tokens) + 1}

--------------------------------------------------------------------------------
(* The pages' calls. *)

\* POST /api/auth/verify of a link that works: signed in, or asked for the PIN; any session stays till then.
Verified(t, a) ==
  IF a \in Guarded
  THEN Sent(t, "signing_in", [pin |-> a]) /\ UNCHANGED <<tokens, live>>
  ELSE Sent(t, "signing_in", NewSession(a)) /\ Issue(a)

\* "Continue" on the page of a link, as whoever the browser is signed in.
Verify(t) ==
  /\ call[t].at \in {"none", "signin_page"} /\ Len(tokens) < MaxTokens
  /\ \E a \in open : Verified(t, a)
  /\ UNCHANGED <<jar, open, out, now, faults>>

\* POST /api/auth/pin, of the sign-in that the browser's vid_pin names: right, or wrong for good
\* (wrong and asked again leaves everything as it is).
PinChecked(t) ==
  \/ jar.pin \in open /\ Sent(t, "signing_in", NewSession(jar.pin)) /\ Issue(jar.pin)
  \/ Sent(t, "called", [pin |-> NoOne]) /\ UNCHANGED <<tokens, live>>

EnterPin(t) ==
  /\ call[t].at = "none" /\ jar.pin # NoOne /\ Len(tokens) < MaxTokens
  /\ PinChecked(t)
  /\ UNCHANGED <<jar, open, out, now, faults>>

\* Any session route: served, renewed in the same call, or 401, with the cookies cleared when
\* the renewal failed, for whatever reason.
Answer(t, refused) ==
  \/ Valid(jar.id) /\ Sent(t, "called", [present |-> TRUE]) /\ UNCHANGED faults
  \/ /\ ~Valid(jar.id) /\ jar.rt = 0
     /\ Sent(t, refused, Nothing) /\ UNCHANGED faults
  \/ /\ ~Valid(jar.id) /\ jar.rt # 0
     /\ \/ Refreshable(jar.rt) /\ Sent(t, "called", Renewed(tokens[jar.rt], jar.rt)) /\ UNCHANGED faults
        \/ ~Refreshable(jar.rt) /\ Sent(t, refused, Cleared) /\ UNCHANGED faults
        \/ Refreshable(jar.rt) /\ Fault /\ Sent(t, refused, Cleared)

Call(t) ==
  /\ call[t].at = "none" /\ Answer(t, "refused")
  /\ UNCHANGED <<jar, tokens, live, open, out, now>>

\* POST /api/auth/refresh; only a refusal clears the cookies here.
Refreshed(t) ==
  \/ AuthToken # 0 /\ Refreshable(AuthToken)
     /\ Sent(t, "refreshing", [id |-> Id(tokens[AuthToken]), pin |-> NoOne]) /\ UNCHANGED faults
  \/ AuthToken # 0 /\ ~Refreshable(AuthToken) /\ Sent(t, "signin_page", Cleared) /\ UNCHANGED faults
  \/ AuthToken = 0 /\ Sent(t, "signin_page", Nothing) /\ UNCHANGED faults
  \/ AuthToken # 0 /\ Fault /\ Sent(t, "signin_page", Nothing)

\* request() of api.js: a 401 is answered by one refresh, and the call repeated.
Refresh(t) ==
  /\ call[t].at = "refused" /\ call[t].set = Nothing
  /\ Refreshed(t)
  /\ UNCHANGED <<jar, tokens, live, open, out, now>>

Retry(t) ==
  /\ call[t].at = "retried" /\ Answer(t, "signin_page")
  /\ UNCHANGED <<jar, tokens, live, open, out, now>>

\* The token is revoked if that call succeeds; the cookies go in any case.
SignOut(t) ==
  /\ call[t].at = "none"
  /\ \/ live' = live \ {AuthToken} /\ UNCHANGED faults
     \/ AuthToken # 0 /\ Fault /\ UNCHANGED live
  /\ Sent(t, "signing_out", Cleared)
  /\ UNCHANGED <<jar, tokens, open, out, now>>

Arrive(t) ==
  /\ call[t].at # "none" /\ ~(call[t].at \in {"refused", "signin_page"} /\ call[t].set = Nothing)
  /\ call[t].at # "retried"
  /\ jar' = Arrived(call[t].set)
  /\ call' = [call EXCEPT ![t] =
                CASE @.at \in {"refused", "signin_page"} -> [@ EXCEPT !.set = Nothing]
                  [] @.at = "refreshing" -> [at |-> "retried", set |-> Nothing]
                  [] OTHER -> NoCall]
  /\ out' = CASE call[t].at = "signing_out" -> now
              [] call[t].at = "signing_in" /\ "rt" \in DOMAIN call[t].set -> -1
              [] OTHER -> out
  /\ UNCHANGED <<tokens, live, open, now, faults>>

\* The page of the sign-in form is left for another.
GoOn(t) ==
  /\ call[t] = [at |-> "signin_page", set |-> Nothing]
  /\ call' = [call EXCEPT ![t] = NoCall]
  /\ UNCHANGED <<jar, tokens, live, open, out, now, faults>>

--------------------------------------------------------------------------------
(* Elsewhere. *)

\* An account is closed: its sign-in disabled, its tokens revoked (AccountDeletion has the two calls).
Close(a) ==
  /\ a \in open /\ open' = open \ {a}
  /\ live' = {n \in live : tokens[n] # a}
  /\ UNCHANGED <<jar, tokens, call, out, now, faults>>

Tick ==
  /\ now < MaxTime /\ now' = now + 1
  /\ UNCHANGED <<jar, tokens, live, open, call, out, faults>>

Next ==
  \/ \E t \in Tabs : \/ Verify(t) \/ EnterPin(t) \/ Call(t) \/ Refresh(t) \/ Retry(t)
                     \/ SignOut(t) \/ Arrive(t) \/ GoOn(t)
  \/ \E a \in Accounts : Close(a)
  \/ Tick

Spec == Init /\ [][Next]_vars

--------------------------------------------------------------------------------
(* A browser that was signed out holds no refresh token, wherever it was   *)
(* kept, and what an answer to an earlier call of another tab brings back  *)
(* ends within the life of one ID token (auth.ts, signout; requireSession). *)
SignedOutStays ==
  out # -1 => jar.rt = 0 /\ jar.old = 0 /\ (jar.id # NoId => jar.id.till <= out + 1)
================================================================================
