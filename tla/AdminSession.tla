---------------------------- MODULE AdminSession ----------------------------
(***************************************************************************)
(* One tab of the admin site: its sign-in through Cognito's hosted pages,  *)
(* the tokens it keeps in memory, and the calls that carry them (sites/    *)
(* admin/js/auth.js, app.js and the request of api.js).  A page goes on    *)
(* running after it has sent the browser elsewhere, until the browser      *)
(* leaves it; what the tab keeps over that is the session storage.         *)
(*                                                                         *)
(* A token is fresh or has less than a minute left; the verifier and the   *)
(* route that travel with the state are left out.                          *)
(***************************************************************************)
EXTENDS Naturals, FiniteSets

CONSTANTS Loads,     \* times the site is loaded in the tab
          Calls,     \* calls of the API the page makes in all
          Presses,   \* times "Sign out" is pressed
          Failures   \* calls refused or lost, tokens that run out

VARIABLES at,          \* where the tab is: "page", "hosted", "logout"
          page,        \* what the page shows: "boot", "exchange", "gate", "shell"
          pending,     \* session storage: the state of the sign-in begun (0: none)
          mem,         \* the page's memory: tokens, redirecting, sign-ins and sign-outs under way
          refreshes,   \* token refreshes under way
          calls,       \* API calls: waiting for a token, or sent with one
          going,       \* where the page has sent the browser
          cognito,     \* whether the refresh token of the last sign-in can be used
          past         \* what is used of the bounds, and what the properties ask of before

vars == <<at, page, pending, mem, refreshes, calls, going, cognito, past>>

None == [has |-> FALSE, stale |-> FALSE, rt |-> FALSE]
Fresh(rt) == [has |-> TRUE, stale |-> FALSE, rt |-> rt]
Loaded == [tokens |-> None, redirecting |-> FALSE, logins |-> {}, revokes |-> 0, shared |-> FALSE]
Nowhere == [to |-> "none", state |-> 0]
Authorize(n) == [to |-> "hosted", state |-> n]
Logout == [to |-> "logout", state |-> 0]

Init ==
  /\ at = "page" /\ page = "boot" /\ pending = 0
  /\ mem = Loaded
  /\ refreshes = {} /\ calls = {} /\ going = Nowhere
  /\ cognito = FALSE
  /\ past = [loads |-> 1, logins |-> 0, calls |-> 0, presses |-> 0, fails |-> 0,
             own |-> TRUE, out |-> FALSE, crossed |-> FALSE, midway |-> FALSE, lost |-> FALSE]

CanFail == past.fails < Failures
Fail(p) == [p EXCEPT !.fails = @ + 1]

\* As Redirecting would be if a sign-in never looked for one under way.
RedirectingNever(m) == FALSE
Redirecting(m) == m.redirecting

\* What login() leaves of the memory m, the storage and the account p of
\* the past; with a redirect under way it changes nothing.
LoggedIn(m, p) ==
  IF Redirecting(m) THEN [mem |-> m, pending |-> pending, past |-> p]
  ELSE LET n == p.logins + 1 IN
       [mem |-> [m EXCEPT !.redirecting = TRUE, !.tokens = None, !.logins = @ \union {n}],
        pending |-> n, past |-> [p EXCEPT !.logins = n]]

Login(m, p) ==
  LET r == LoggedIn(m, p) IN mem' = r.mem /\ pending' = r.pending /\ past' = r.past

----------------------------------------------------------------------------
(* Arriving at the page.                                                   *)

\* The page starts without a code: it goes to sign in.
Boot ==
  /\ at = "page" /\ page = "boot" /\ mem.logins = {} /\ ~mem.redirecting
  /\ Login(mem, past)
  /\ UNCHANGED <<at, page, refreshes, calls, going, cognito>>

\* The verifier's hash is made: the browser is sent to the hosted page.
SentToSignIn ==
  \E n \in mem.logins :
    /\ mem' = [mem EXCEPT !.logins = @ \ {n}]
    /\ going' = Authorize(n)
    /\ UNCHANGED <<at, page, pending, refreshes, calls, cognito, past>>

\* The browser leaves the page for the place it was sent to last.
Leave ==
  /\ at = "page" /\ going.to # "none"
  /\ at' = going.to
  /\ mem' = Loaded /\ refreshes' = {} /\ calls' = {}
  /\ past' = [past EXCEPT !.lost = @ \/ mem.revokes > 0]
  /\ UNCHANGED <<page, pending, going, cognito>>

\* As OwnState would be if any answer were taken.
OwnStateAny(state) == TRUE
OwnState(state) == pending # 0 /\ state = pending

Arrive(p, show) ==
  /\ past.loads < Loads
  /\ at' = "page" /\ page' = show /\ going' = Nowhere
  /\ past' = [p EXCEPT !.loads = @ + 1, !.out = FALSE, !.crossed = FALSE, !.midway = FALSE, !.lost = FALSE]
  /\ UNCHANGED <<mem, refreshes, calls>>

\* The hosted page comes back with a code or with an error, or an address
\* of an earlier sign-in is opened instead.
Callback ==
  /\ at = "hosted"
  /\ \E state \in 0..past.logins, code \in BOOLEAN :
       /\ pending' = 0
       /\ Arrive([past EXCEPT !.own = state = going.state],
                 IF OwnState(state) /\ code THEN "exchange" ELSE "gate")
  /\ UNCHANGED cognito

\* The site is opened anew, from the hosted page or after the sign-out.
Open ==
  /\ at # "page"
  /\ Arrive(past, "boot")
  /\ UNCHANGED <<pending, cognito>>

Exchange ==
  /\ at = "page" /\ page = "exchange"
  /\ \/ /\ page' = "shell" /\ mem' = [mem EXCEPT !.tokens = Fresh(TRUE)]
        /\ cognito' = TRUE /\ UNCHANGED past
     \/ /\ CanFail /\ past' = Fail(past)
        /\ page' = "gate" /\ UNCHANGED <<mem, cognito>>
  /\ UNCHANGED <<at, pending, refreshes, calls, going>>

GateSignIn ==
  /\ at = "page" /\ page = "gate" /\ past.logins <= Loads
  /\ Login(mem, past)
  /\ UNCHANGED <<at, page, refreshes, calls, going, cognito>>

----------------------------------------------------------------------------
(* The tokens.                                                             *)

RunsOut ==
  /\ mem.tokens.has /\ ~mem.tokens.stale /\ CanFail
  /\ mem' = [mem EXCEPT !.tokens.stale = TRUE]
  /\ past' = Fail(past)
  /\ UNCHANGED <<at, page, pending, refreshes, calls, going, cognito>>

Sent(m) == [sent |-> TRUE, stale |-> m.tokens.stale, leaving |-> m.redirecting, out |-> past.out]
Waits == [sent |-> FALSE, stale |-> FALSE, leaving |-> FALSE, out |-> FALSE]

\* As JoinsShared would be if every caller made its own attempt.
JoinsSharedNever(m) == FALSE
JoinsShared(m) == m.shared

\* A refresh for the timer or a call: the attempt under way is shared, and
\* without a refresh token the page goes to sign in at once.
Refresh ==
  IF JoinsShared(mem) THEN UNCHANGED <<mem, pending, past, refreshes>>
  ELSE IF mem.tokens.rt
  THEN /\ mem' = [mem EXCEPT !.shared = TRUE]
       /\ refreshes' = refreshes \union {Cardinality(refreshes) + 1}
       /\ UNCHANGED <<pending, past>>
  ELSE Login(mem, past) /\ UNCHANGED refreshes

\* The timer, some time before the token runs out or, throttled, after it.
Timer ==
  /\ at = "page" /\ mem.tokens.has /\ (mem.tokens.rt \/ ~mem.redirecting)
  /\ Refresh
  /\ UNCHANGED <<at, page, calls, going, cognito>>

\* As Expiring would be if a call left the token's time to the timer.
ExpiringNever(m) == FALSE
Expiring(m) == m.tokens.has /\ m.tokens.stale

\* A call that waits for a refresh that is over goes out with the token
\* there is, or not at all.
Resume(cs, m) ==
  {c \in cs : c.sent} \union (IF m.tokens.has /\ \E c \in cs : ~c.sent THEN {Sent(m)} ELSE {})

Ask ==
  /\ at = "page" /\ page = "shell" /\ past.calls < Calls
  /\ LET p == [past EXCEPT !.calls = @ + 1] IN
     IF Expiring(mem) /\ (JoinsShared(mem) \/ mem.tokens.rt)
     THEN /\ calls' = calls \union {Waits}
          /\ mem' = [mem EXCEPT !.shared = TRUE]
          /\ refreshes' = IF JoinsShared(mem) THEN refreshes ELSE refreshes \union {Cardinality(refreshes) + 1}
          /\ past' = p /\ UNCHANGED pending
     ELSE LET r == IF Expiring(mem) \/ ~mem.tokens.has THEN LoggedIn(mem, p)
                   ELSE [mem |-> mem, pending |-> pending, past |-> p] IN
          /\ mem' = r.mem /\ pending' = r.pending /\ past' = r.past
          /\ calls' = IF r.mem.tokens.has THEN calls \union {Sent(r.mem)} ELSE calls
          /\ UNCHANGED refreshes
  /\ UNCHANGED <<at, page, going, cognito>>

\* The refreshed token keeps the refresh token there is now.
RefreshAnswered ==
  /\ cognito
  /\ \E r \in refreshes :
       /\ refreshes' = refreshes \ {r}
       /\ LET m == [mem EXCEPT !.tokens = Fresh(mem.tokens.rt), !.shared = FALSE] IN
          mem' = m /\ calls' = Resume(calls, m)
  /\ UNCHANGED <<at, page, pending, going, cognito, past>>

\* A refresh that fails: the page goes to sign in.
RefreshFails ==
  /\ CanFail \/ ~cognito
  /\ \E r \in refreshes :
       /\ refreshes' = refreshes \ {r}
       /\ LET s == LoggedIn([mem EXCEPT !.shared = FALSE],
                            IF cognito THEN Fail(past) ELSE past) IN
          /\ mem' = s.mem /\ pending' = s.pending /\ past' = s.past
          /\ calls' = Resume(calls, s.mem)
  /\ UNCHANGED <<at, page, going, cognito>>

\* A call's answer; a 401 sends the page to sign in again.
Answered ==
  \E c \in {d \in calls : d.sent} :
    /\ calls' = calls \ {c}
    /\ \/ UNCHANGED <<mem, pending, past>>
       \/ (c.stale \/ CanFail) /\ Login(mem, IF c.stale THEN past ELSE Fail(past))
    /\ UNCHANGED <<at, page, refreshes, going, cognito>>

----------------------------------------------------------------------------
(* Signing out.                                                            *)

\* As Cleared would be if the page kept its tokens until it is left.
ClearedLater(m) == [m EXCEPT !.redirecting = TRUE, !.revokes = IF m.tokens.rt THEN @ + 1 ELSE @]
Cleared(m) ==
  [m EXCEPT !.tokens = None, !.redirecting = TRUE, !.revokes = IF m.tokens.rt THEN @ + 1 ELSE @]

\* The tokens and the sign-in begun are dropped; the refresh token is
\* revoked first, and without one the browser is sent away at once.
SignOut ==
  /\ at = "page" /\ page = "shell" /\ past.presses < Presses
  /\ mem' = Cleared(mem)
  /\ pending' = 0
  /\ going' = IF mem.tokens.rt THEN going ELSE Logout
  /\ past' = [past EXCEPT !.presses = @ + 1, !.out = TRUE,
                          !.crossed = @ \/ (mem.redirecting /\ ~past.out),
                          !.midway = @ \/ refreshes # {}]
  /\ UNCHANGED <<at, page, refreshes, calls, cognito>>

Revoked ==
  /\ mem.revokes > 0
  /\ \/ cognito' = FALSE /\ UNCHANGED past
     \/ CanFail /\ past' = [Fail(past) EXCEPT !.lost = TRUE] /\ UNCHANGED cognito
  /\ mem' = [mem EXCEPT !.revokes = @ - 1]
  /\ going' = Logout
  /\ UNCHANGED <<at, page, pending, refreshes, calls>>

Next ==
  \/ Boot \/ SentToSignIn \/ Leave \/ Callback \/ Open \/ Exchange \/ GateSignIn
  \/ RunsOut \/ Timer \/ Ask \/ RefreshAnswered \/ RefreshFails \/ Answered
  \/ SignOut \/ Revoked

Spec == Init /\ [][Next]_vars

----------------------------------------------------------------------------
TypeOK ==
  /\ at \in {"page", "hosted", "logout"} /\ page \in {"boot", "exchange", "gate", "shell"}
  /\ pending \in 0..past.logins /\ going.state \in 0..past.logins /\ going.to \in {"none", "hosted", "logout"}
  /\ mem.logins \subseteq 1..past.logins /\ mem.revokes \in 0..Presses
  /\ mem.tokens \in [has : BOOLEAN, stale : BOOLEAN, rt : BOOLEAN]
  /\ cognito \in BOOLEAN
  /\ \A c \in calls : c \in [sent : BOOLEAN, stale : BOOLEAN, leaving : BOOLEAN, out : BOOLEAN]

\* The sign-in a tab has gone to is the one its storage expects the answer
\* of, however often a sign-in was asked for on the way, unless "Sign out"
\* was pressed with that sign-in already under way; and only its answer
\* gives the tab tokens (auth.js, login, start).
SignInFits ==
  /\ at = "hosted" /\ ~past.crossed => pending = going.state
  /\ page \in {"exchange", "shell"} => past.own

\* At most one refresh is under way, and no call leaves with a token about
\* to run out from a page that stays (auth.js, refresh, getIdToken).
TokenKept ==
  /\ Cardinality(refreshes) <= 1
  /\ \A c \in calls : c.sent /\ c.stale => c.leaving

\* After "Sign out" the page holds no refresh token, and an ID token only
\* from a refresh that was under way; a late 401 or a failed refresh does
\* not turn the way to the sign-out into a sign-in; and the refresh token
\* is no longer of use once the tab is there, unless its revocation failed
\* or was cut off by a second press, or a sign-in was already under way
\* (auth.js, signOut).
SignedOut ==
  /\ past.out => ~mem.tokens.rt /\ (mem.tokens.has => past.midway)
  /\ past.out /\ ~past.crossed => at # "hosted"
  /\ at = "logout" => ~cognito \/ past.lost \/ past.crossed
============================================================================
