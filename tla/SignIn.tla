--------------------------------- MODULE SignIn ---------------------------------
(***************************************************************************)
(* Signing in with an emailed link and a PIN: the link's mailer, Cognito's *)
(* custom challenges and their triggers, the PIN's counters (lambda/member *)
(* auth.ts and link-mailer.ts, lambda/triggers, shared/pin.ts,             *)
(* shared/ratelimit.ts), and the PIN's change on the account site and its  *)
(* removal by an administrator.                                            *)
(***************************************************************************)
EXTENDS Naturals, FiniteSets

CONSTANTS Sessions,      \* sign-ins in progress, each a Cognito session
          Page,          \* the account site's call that checks the PIN
          Links,         \* sign-in links
          MaxFailures,   \* PIN_MAX_FAILURES, 5 in the code
          DailyMax,      \* PIN_DAILY_MAX_FAILURES, 15
          MaxTries,      \* MAX_PIN_TRIES_PER_SIGN_IN, 3
          Rounds,        \* of reserve(), 3
          Windows        \* names of windows, 1..n, one for each call at once

VARIABLES
  row,      \* the member row: whether it may sign in, and whether it has a PIN
  link,     \* magic-links table
  session,  \* sign-ins
  check,    \* invocations of checkPin, one per caller
  lock,     \* pinfail# item; count 0: none, or one that has ended
  daily,    \* pinfailday# counter of the day, as far as it may count
  spared,   \* a correct PIN or an administrator cleared the item during the day, or before with a check still
            \* under way; or the invocation stopped that was to write the long lock
  wrong     \* history: wrong PINs compared under each window

vars == <<row, link, session, check, lock, daily, spared, wrong>>

Callers == Sessions \cup {Page}
NoCheck == [at |-> "idle", right |-> FALSE, round |-> 0, win |-> 0]
NoLock  == [count |-> 0, win |-> 0, long |-> "no"]
NoSession == [at |-> "idle", link |-> "none", tries |-> 0]

Most == DailyMax + 2 * MaxFailures   \* wrong PINs in a day

\* An attempt is reserved and not yet answered.
Reserved(c) == check[c].at \in {"compare", "clear", "hit", "long"}

TypeOK ==
  /\ row \in [active : BOOLEAN, pin : BOOLEAN]
  /\ link \in [Links -> {"none", "sent", "used", "expired"}]
  /\ session \in [Sessions -> [at : {"idle", "define", "pin", "checking", "signed_in", "failed"},
                               link : Links \cup {"none"}, tries : 0..MaxTries]]
  /\ check \in [Callers -> [at : {"idle", "add", "put", "get", "compare", "clear", "hit", "long", "right", "wrong"},
                            right : BOOLEAN, round : 0..Rounds, win : {0} \cup Windows]]
  /\ lock \in [count : 0..MaxFailures, win : {0} \cup Windows, long : {"no", "today", "before"}]
  /\ daily \in 0..Most + 1 /\ spared \in BOOLEAN
  /\ wrong \in [Windows -> Nat]

Init ==
  /\ row = [active |-> TRUE, pin |-> FALSE] /\ link = [l \in Links |-> "none"]
  /\ session = [s \in Sessions |-> NoSession] /\ check = [c \in Callers |-> NoCheck]
  /\ lock = NoLock /\ daily = 0 /\ spared = FALSE /\ wrong = [w \in Windows |-> 0]

--------------------------------------------------------------------------------
(* The link: mailed only to an account that may sign in, spent once.       *)

LinkMailed(l) ==
  /\ row.active /\ link[l] = "none"
  /\ link' = [link EXCEPT ![l] = "sent"]
  /\ UNCHANGED <<row, session, check, lock, daily, spared, wrong>>

LinkExpires(l) ==
  /\ link[l] = "sent" /\ link' = [link EXCEPT ![l] = "expired"]
  /\ UNCHANGED <<row, session, check, lock, daily, spared, wrong>>

UnspentSent(l) == link[l] \in {"sent", "used"}   \* mutated form: no condition on used_at
Unspent(l)     == link[l] = "sent"

\* consumeLink(), answering the MAGIC challenge.
Verify(s, l) ==
  /\ session[s].at = "idle" /\ row.active /\ Unspent(l)
  /\ link' = [link EXCEPT ![l] = "used"]
  /\ session' = [session EXCEPT ![s] = [NoSession EXCEPT !.at = "define", !.link = l]]
  /\ UNCHANGED <<row, check, lock, daily, spared, wrong>>

\* DefineAuthChallenge, after MAGIC and after each PIN.
Define(s) ==
  /\ \/ session[s].at = "define" /\ check' = check
     \/ session[s].at = "checking" /\ check[s].at \in {"right", "wrong"} /\ check' = [check EXCEPT ![s] = NoCheck]
  /\ LET given == session[s].at = "checking"  tries == session[s].tries + (IF given THEN 1 ELSE 0) IN
     session' = [session EXCEPT ![s].tries = tries, ![s].at =
       IF ~row.active THEN "failed"
       ELSE IF given THEN IF check[s].at = "right" THEN "signed_in"
                          ELSE IF tries < MaxTries THEN "pin" ELSE "failed"
       ELSE IF row.pin THEN "pin" ELSE "signed_in"]
  /\ UNCHANGED <<row, link, lock, daily, spared, wrong>>

--------------------------------------------------------------------------------
(* checkPin(), from the PIN challenge and from the account site.           *)

\* What is given is right for the PIN that the row had when it was read, or wrong.
Begin(c) ==
  /\ check[c].at = "idle"
  /\ \E right \in BOOLEAN :
       check' = [check EXCEPT ![c] = IF row.pin THEN [NoCheck EXCEPT !.at = "add", !.right = right]
                                     ELSE [NoCheck EXCEPT !.at = "wrong"]]

AnswerPin(s) ==
  /\ session[s].at = "pin" /\ Begin(s)
  /\ session' = [session EXCEPT ![s].at = "checking"]
  /\ UNCHANGED <<row, link, lock, daily, spared, wrong>>

PagePin ==
  /\ row.active /\ row.pin /\ Begin(Page)
  /\ UNCHANGED <<row, link, session, lock, daily, spared, wrong>>

RoomAny == lock.count # 0                             \* mutated form: no limit in the condition
Room    == lock.count # 0 /\ lock.count < MaxFailures

\* lockout.reserve(): an attempt in a live window with room for it, ...
Add(c) ==
  /\ check[c].at = "add"
  /\ IF Room THEN /\ lock' = [lock EXCEPT !.count = @ + 1]
                  /\ check' = [check EXCEPT ![c].at = "compare", ![c].win = lock.win]
     ELSE check' = [check EXCEPT ![c].at = "put"] /\ UNCHANGED lock
  /\ UNCHANGED <<row, link, session, daily, spared, wrong>>

NoWindow     == lock.count = 0
Fresh(w)     == \A c \in Callers : check[c].win # w

\* ... else a window of its own, ...
PutWindow(c) ==
  /\ check[c].at = "put"
  /\ IF NoWindow
     THEN \E w \in Windows :
            /\ Fresh(w) /\ \A x \in Windows : Fresh(x) => w <= x
            /\ wrong' = [wrong EXCEPT ![w] = 0]
            /\ lock' = [count |-> 1, win |-> w, long |-> "no"]
            /\ check' = [check EXCEPT ![c].at = "compare", ![c].win = w]
     ELSE check' = [check EXCEPT ![c].at = "get"] /\ UNCHANGED <<lock, wrong>>
  /\ UNCHANGED <<row, link, session, daily, spared>>

\* ... else locked, unless the window has just ended: Rounds times.
GetWindow(c) ==
  /\ check[c].at = "get"
  /\ check' = [check EXCEPT ![c].round = @ + 1,
                            ![c].at = IF lock.count < MaxFailures /\ check[c].round + 1 < Rounds THEN "add" ELSE "wrong"]
  /\ UNCHANGED <<row, link, session, lock, daily, spared, wrong>>

Compare(c) ==
  /\ check[c].at = "compare"
  /\ check' = [check EXCEPT ![c].at = IF check[c].right THEN "clear" ELSE "hit"]
  /\ wrong' = IF check[c].right THEN wrong ELSE [wrong EXCEPT ![check[c].win] = @ + 1]
  /\ UNCHANGED <<row, link, session, lock, daily, spared>>

Clear(c) ==
  /\ check[c].at = "clear" /\ check' = [check EXCEPT ![c].at = "right"]
  /\ lock' = NoLock /\ spared' = TRUE
  /\ UNCHANGED <<row, link, session, daily, wrong>>

HitDay(c) ==
  /\ check[c].at = "hit" /\ daily' = IF daily > Most THEN daily ELSE daily + 1
  /\ check' = [check EXCEPT ![c].at = IF daily' > DailyMax THEN "long" ELSE "wrong"]
  /\ UNCHANGED <<row, link, session, lock, spared, wrong>>

LongLock(c) ==
  /\ check[c].at = "long" /\ check' = [check EXCEPT ![c].at = "wrong"]
  /\ lock' = [count |-> MaxFailures, win |-> 0, long |-> "today"]
  /\ UNCHANGED <<row, link, session, daily, spared, wrong>>

\* Cognito's sign-in fails with its trigger; the page's call is answered 500.
Dies(c) ==
  /\ check[c].at \notin {"idle", "right", "wrong"} /\ check' = [check EXCEPT ![c] = NoCheck]
  /\ session' = IF c \in Sessions THEN [session EXCEPT ![c].at = "failed"] ELSE session
  /\ spared' = (spared \/ check[c].at = "long")
  /\ UNCHANGED <<row, link, lock, daily, wrong>>

--------------------------------------------------------------------------------
(* The PIN's own changes, the account's, and time.                         *)

\* POST and DELETE /api/account/pin: the current PIN first, when there is one.
PageSets(pin) ==
  /\ row.active /\ (check[Page].at = "right" \/ (~row.pin /\ pin /\ check[Page].at = "idle"))
  /\ row' = [row EXCEPT !.pin = pin] /\ check' = [check EXCEPT ![Page] = NoCheck]
  /\ UNCHANGED <<link, session, lock, daily, spared, wrong>>

PageRefused ==
  /\ check[Page].at = "wrong" /\ check' = [check EXCEPT ![Page] = NoCheck]
  /\ UNCHANGED <<row, link, session, lock, daily, spared, wrong>>

\* An administrator's clear-pin: the PIN and the item (its two writes at once).
AdminClears ==
  /\ row.pin /\ row' = [row EXCEPT !.pin = FALSE] /\ lock' = NoLock /\ spared' = TRUE
  /\ UNCHANGED <<link, session, check, daily, wrong>>

\* Suspended, cancelled or deleted.
Stops ==
  /\ row.active /\ row' = [row EXCEPT !.active = FALSE]
  /\ UNCHANGED <<link, session, check, lock, daily, spared, wrong>>

\* Fifteen minutes, or twenty-four hours, from the window's start: a long lock
\* outlasts the day it was written in, and a window every check of the one before it.
WindowEnds ==
  /\ lock.count # 0 /\ lock.long # "today" /\ lock' = NoLock
  /\ \A c \in Callers : Reserved(c) => check[c].win = lock.win
  /\ UNCHANGED <<row, link, session, check, daily, spared, wrong>>

DayEnds ==
  /\ daily # 0 /\ daily' = 0 /\ spared' = (spared /\ \E c \in Callers : Reserved(c))
  /\ lock' = IF lock.long = "today" THEN [lock EXCEPT !.long = "before"] ELSE lock
  /\ UNCHANGED <<row, link, session, check, wrong>>

CheckNext(c) == Add(c) \/ PutWindow(c) \/ GetWindow(c) \/ Compare(c) \/ Clear(c) \/ HitDay(c) \/ LongLock(c)
                \/ Dies(c)
Next ==
  \/ \E l \in Links : LinkMailed(l) \/ LinkExpires(l) \/ (\E s \in Sessions : Verify(s, l))
  \/ \E s \in Sessions : Define(s) \/ AnswerPin(s)
  \/ \E c \in Callers : CheckNext(c)
  \/ \E pin \in BOOLEAN : PageSets(pin)
  \/ PagePin \/ PageRefused \/ AdminClears \/ Stops \/ WindowEnds \/ DayEnds

Spec == Init /\ [][Next]_vars

--------------------------------------------------------------------------------
(* However many sign-ins guess at once, a window lets at most MaxFailures  *)
(* wrong PINs be compared, and a day no more than DailyMax and the         *)
(* attempts reserved in the window and in the one before it, unless the    *)
(* right PIN or an administrator cleared the counter, or the invocation    *)
(* that was to lock stopped (pin.ts: "a lockout that holds under           *)
(* concurrency").                                                          *)
GuessesBounded ==
  /\ \A w \in Windows : wrong[w] <= MaxFailures
  /\ spared \/ daily <= Most

(* Two sign-ins never complete with one link (verify-auth-challenge.ts:    *)
(* consumed atomically, single use).                                       *)
LinkOnce == \A s, t \in Sessions :
  session[s].at = "signed_in" /\ session[t].at = "signed_in" /\ session[s].link = session[t].link => s = t
================================================================================
