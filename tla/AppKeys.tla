-------------------------------- MODULE AppKeys ---------------------------------
(***************************************************************************)
(* Which of a vault's keys a phone's signed request is let through with,   *)
(* and what a phone whose recovery ended is told                           *)
(* (lambda/member/vault.ts: appCaller, spendNonce, keysFor, endedKeyFor,   *)
(* carriedEndedKeys).  Phones claim and register in recoveries that        *)
(* replace one another; an open sent by one may still be on its way when   *)
(* its recovery ends.  One signed header is sent, and sent again.          *)
(***************************************************************************)
EXTENDS Integers, FiniteSetsExt

CONSTANTS Keys,             \* app keys of phones, the vault's own at first among them
          First, NoKey,
          Delay, Span,      \* RECOVERY_DELAY_S, RECOVERY_VALIDITY_S: until it is available, and for how long
          Grace, Keep,      \* RECOVERY_ENDED_GRACE_S, RECOVERY_ENDED_KEEP_S
          MaxEnded,         \* MAX_ENDED_KEYS
          Window, NonceTtl, \* TS_WINDOW_S, NONCE_TTL_S
          Stamp,            \* the header's ts
          MaxTime, MaxRecoveries  \* bounds

VARIABLES
  app, next,  \* the host's app_key and app_key_next
  rec,        \* the vault's recovery
  flight,     \* opens on their way to the vault, each of one recovery
  told,       \* phones told 410 recovery_ended that have not claimed again
  nonce,      \* the header's nonce: when its row expires, 0 when there is none
  passes,     \* how often the header was let through
  now, made

vars == <<app, next, rec, flight, told, nonce, passes, now, made>>

NoRecovery == [n |-> 0, state |-> "none", expires |-> 0, at |-> 0, key |-> NoKey, claims |-> {}, ended |-> {}]
Ended == [key : Keys, at : 0..MaxTime + Delay + Span]

TypeOK ==
  /\ app \in Keys /\ next \in Keys \cup {NoKey} /\ told \subseteq Keys
  /\ rec.n \in 0..made /\ rec.state \in {"none", "pending", "registered", "completed", "cancelled"}
  /\ rec.key \in Keys \cup {NoKey} /\ rec.claims \subseteq Keys
  /\ rec.ended \subseteq Ended /\ Cardinality(rec.ended) <= MaxEnded
  /\ \A f \in flight : f.n \in 1..made /\ f.key \in Keys /\ f.until \in 0..MaxTime + Grace
  /\ nonce \in 0..MaxTime + NonceTtl /\ passes \in Nat /\ now \in 0..MaxTime /\ made \in 0..MaxRecoveries

Init ==
  /\ app = First /\ next = NoKey /\ rec = NoRecovery /\ flight = {} /\ told = {}
  /\ nonce = 0 /\ passes = 0 /\ now = 0 /\ made = 0

Active    == rec.state \in {"pending", "registered"} /\ now < rec.expires
Completed == rec.state = "registered" /\ rec.key = app

--------------------------------------------------------------------------------
\* keysFor() for the roles of a status read, claim keys apart.
Admitted(k) ==
  \/ k \in {app, next}
  \/ Active /\ rec.key # app /\ k = rec.key

\* endedOf(): of the row's own recovery.
OwnEnd ==
  IF Active \/ rec.key = NoKey THEN {}
  ELSE CASE rec.state = "cancelled" ->
              {[key |-> rec.key, at |-> Min({rec.at, rec.expires})]}
         [] rec.state = "registered" -> {[key |-> rec.key, at |-> rec.expires]}
         [] OTHER -> {}

Latest(S) == {e \in S : \A f \in S : f.key = e.key => f.at <= e.at}
Newest(S) == {e \in S : Cardinality({f \in S : f.at > e.at}) < MaxEnded}
\* Of ends at one time the sort keeps some; which, no property asks.
Trimmed(S) == IF Cardinality(Newest(S)) <= MaxEnded THEN Newest(S)
              ELSE CHOOSE T \in SUBSET Newest(S) : Cardinality(T) = MaxEnded
Carried == Trimmed(Latest({e \in rec.ended \cup OwnEnd : now < e.at + Keep}))

LiveOwn  == {app}   \* mutated form: only the host's app key counts as in use
Live     == {app, next} \cup (IF Active THEN rec.claims \cup {rec.key} ELSE {})

ToldAnyEnd(k) ==    \* mutated form: judged by any of its ends, not the latest
  /\ k \notin Live
  /\ \E e \in rec.ended \cup OwnEnd : e.key = k /\ now >= e.at + Grace /\ now < e.at + Keep
ToldSoon(k) ==      \* mutated form: without the grace
  k \notin Live /\ \E e \in rec.ended \cup OwnEnd : e.key = k /\ now < e.at + Keep
\* endedKeyFor()
ToldEnded(k) ==
  /\ k \notin Live
  /\ \E e \in Latest(rec.ended \cup OwnEnd) :
       e.key = k /\ now >= e.at + Grace /\ now < e.at + Keep

\* appCaller() of a status read signed with k: let through, told, or 401; tidyKeys().
Ask(k) ==
  IF Admitted(k)
  THEN /\ rec' = IF k = app /\ Completed THEN [rec EXCEPT !.state = "completed", !.key = NoKey, !.claims = {}]
                 ELSE rec
       /\ UNCHANGED <<app, next, flight, told, nonce, passes, now, made>>
  ELSE /\ ToldEnded(k) /\ told' = told \cup {k}
       /\ UNCHANGED <<app, next, rec, flight, nonce, passes, now, made>>

SpentAny == TRUE   \* mutated form: the nonce is looked at and never refused
Spent == nonce = 0 \/ nonce < now

\* appHeader() and spendNonce() of the one header.
Pass ==
  /\ now - Stamp \in -Window..Window /\ Spent
  /\ nonce' = now + NonceTtl /\ passes' = passes + 1
  /\ UNCHANGED <<app, next, rec, flight, told, now, made>>

--------------------------------------------------------------------------------
\* POST /api/vault/recovery: a completion is recorded first; the ended keys are carried over.
Request ==
  /\ ~Active \/ Completed
  /\ made < MaxRecoveries /\ made' = made + 1
  /\ rec' = [n |-> made', state |-> "pending", expires |-> now + Delay + Span, at |-> 0, key |-> NoKey,
             claims |-> {}, ended |-> IF Completed THEN Trimmed(Latest({e \in rec.ended : now < e.at + Keep}))
                                      ELSE Carried]
  /\ UNCHANGED <<app, next, flight, told, nonce, passes, now>>

\* When the recovery is available; never a key in use as an app key (keyInUse).
Claim(k) ==
  /\ rec.state = "pending" /\ Active /\ now >= rec.expires - Span /\ k # app
  /\ rec' = [rec EXCEPT !.claims = @ \cup {k}] /\ told' = told \ {k}
  /\ UNCHANGED <<app, next, flight, nonce, passes, now, made>>

\* The register's slot is answered: the key that spent the code (markRegistered).
Register(k) ==
  /\ rec.state = "pending" /\ k \in rec.claims
  /\ rec' = [rec EXCEPT !.state = "registered", !.key = IF k = app THEN NoKey ELSE k]
  /\ UNCHANGED <<app, next, flight, told, nonce, passes, now, made>>

Cancel ==
  /\ Active /\ rec' = [rec EXCEPT !.state = "cancelled", !.at = now]
  /\ UNCHANGED <<app, next, flight, told, nonce, passes, now, made>>

\* POST /api/vault/recovery/open, signed by the recovering key.
Open ==
  /\ rec.state = "registered" /\ Active /\ rec.key \notin {NoKey, app}
  /\ flight' = flight \cup {[n |-> rec.n, key |-> rec.key, until |-> now + Grace]}
  /\ UNCHANGED <<app, next, rec, told, nonce, passes, now, made>>

\* The vault takes an open within the grace: its host writes app_key_next, later app_key,
\* or stops between the two.  What it took ends the recoveries before.
Adopt(f) ==
  /\ now < f.until
  /\ \/ app' = f.key /\ next' = IF next = f.key THEN NoKey ELSE next
     \/ app' = app /\ next' = f.key
  /\ flight' = {g \in flight : g.n > f.n}
  /\ UNCHANGED <<rec, told, nonce, passes, now, made>>

AdoptNext ==
  /\ next # NoKey /\ app' = next /\ next' = NoKey
  /\ UNCHANGED <<rec, flight, told, nonce, passes, now, made>>

Tick ==
  /\ now < MaxTime /\ now' = now + 1
  /\ flight' = {f \in flight : f.until > now'}
  /\ UNCHANGED <<app, next, rec, told, nonce, passes, made>>

Next ==
  \/ Request \/ Cancel \/ Open \/ AdoptNext \/ Pass \/ Tick
  \/ \E k \in Keys : Ask(k) \/ Claim(k) \/ Register(k)
  \/ \E f \in flight : Adopt(f)
Spec == Init /\ [][Next]_vars

--------------------------------------------------------------------------------
(* A phone told that its recovery ended without the vault taking it as its *)
(* app is not taken afterwards either, from anything it sent before: no    *)
(* open of it is on its way, and it is not the vault's app key or about to *)
(* become it.  It may claim a new recovery (vault.ts, "A recovery that     *)
(* ended without the phone").                                              *)
ToldIsTrue == told \cap ({app, next} \cup {f.key : f \in flight}) = {}

(* A signed header is let through once, whenever it is sent again          *)
(* (vault.ts, spendNonce: single use within 600 s; ts within 300 s).       *)
HeaderOnce == passes <= 1
================================================================================
