------------------------------ MODULE ServiceSwitch ------------------------------
(***************************************************************************)
(* The operator's pause of the vault service: one parameter, written by    *)
(* the admin API (lambda/admin/vault-service.ts) or by hand, read by every *)
(* Lambda container of the member API with a cache of its own              *)
(* (lambda/shared/vault-service.ts), and by the watch that keeps a pause   *)
(* from being forgotten (lambda/jobs/vault-service-watch.ts).              *)
(***************************************************************************)
EXTENDS Integers, Sequences

CONSTANTS Containers, Admins,
          Ttl,                 \* CACHE_TTL_MS
          MaxTime, MaxFails, MaxWrites   \* bounds

VARIABLES
  param,    \* the parameter's value
  cache,    \* of each container: the state it read last and when, -1 never
  last,     \* of each container: what its last vault call was answered, what its last read
            \* that worked found, and whether one failed since
  admin,    \* pause and resume calls under way
  trail,    \* the audit trail's last event
  metric,   \* VaultServicePaused, as last written
  off,      \* how long the switch has been off, -1 when it is on
  now, fails, writes

vars == <<param, cache, last, admin, trail, metric, off, now, fails, writes>>

Values == {"none", "on", "off", "garbled"}       \* no parameter, {enabled}, anything else

\* parseState().
Enabled == param \in {"none", "on"}

NoCache == [on |-> TRUE, at |-> -1]
NoCall  == [served |-> "none", knows |-> "none", unread |-> FALSE]

TypeOK ==
  /\ param \in Values /\ cache \in [Containers -> [on : BOOLEAN, at : -1..MaxTime]]
  /\ last \in [Containers -> [served : {"none", "yes", "paused"}, knows : {"none", "on", "off"}, unread : BOOLEAN]]
  /\ admin \in [Admins -> {"idle", "pause", "resume", "paused", "resumed"}]
  /\ trail \in {"none", "pause", "resume"} /\ metric \in {"none", "on", "off"}
  /\ off \in -1..MaxTime /\ now \in 0..MaxTime /\ fails \in 0..MaxFails /\ writes \in 0..MaxWrites

Init ==
  /\ param \in {"none", "on"} /\ cache = [c \in Containers |-> NoCache]
  /\ last = [c \in Containers |-> NoCall] /\ admin = [a \in Admins |-> "idle"]
  /\ trail = "none" /\ metric = "none" /\ off = -1 /\ now = 0 /\ fails = 0 /\ writes = 0

--------------------------------------------------------------------------------
(* The member API: vaultService(), requireService().                       *)

Answer(c, on, knows, unread) ==
  last' = [last EXCEPT ![c] = [served |-> IF on THEN "yes" ELSE "paused", knows |-> knows, unread |-> unread]]

FreshAlways(c) == cache[c].at # -1               \* mutated form: read once
Fresh(c)       == cache[c].at # -1 /\ now - cache[c].at < Ttl

CallCached(c) ==
  /\ Fresh(c) /\ Answer(c, cache[c].on, last[c].knows, last[c].unread)
  /\ UNCHANGED <<param, cache, admin, trail, metric, off, now, fails, writes>>

CallReads(c) ==
  /\ ~Fresh(c)
  /\ cache' = [cache EXCEPT ![c] = [on |-> Enabled, at |-> now]]
  /\ Answer(c, Enabled, IF Enabled THEN "on" ELSE "off", FALSE)
  /\ UNCHANGED <<param, admin, trail, metric, off, now, fails, writes>>

OnAtFailure(c) == TRUE                   \* mutated form: on, whatever it knew
LastValue(c)   == cache[c].on            \* on, before the first read

\* An unreadable parameter is asked for again after another Ttl.
CallFails(c) ==
  /\ ~Fresh(c) /\ fails < MaxFails /\ fails' = fails + 1
  /\ cache' = [cache EXCEPT ![c] = [on |-> LastValue(c), at |-> now]]
  /\ Answer(c, LastValue(c), last[c].knows, TRUE)
  /\ UNCHANGED <<param, admin, trail, metric, off, now, writes>>

\* Another invocation environment takes the container's place.
Replaced(c) ==
  /\ cache[c].at # -1
  /\ cache' = [cache EXCEPT ![c] = NoCache] /\ last' = [last EXCEPT ![c] = NoCall]
  /\ UNCHANGED <<param, admin, trail, metric, off, now, fails, writes>>

--------------------------------------------------------------------------------
(* The operators.                                                          *)

Set(v) ==
  /\ param' = v /\ writes < MaxWrites /\ writes' = writes + 1
  /\ off' = IF v \in {"none", "on"} THEN -1 ELSE IF off = -1 THEN 0 ELSE off

\* POST pause, resume: conflict when it is so already; the audit comes after the write.
Ask(a) ==
  /\ admin[a] = "idle" /\ admin' = [admin EXCEPT ![a] = IF Enabled THEN "pause" ELSE "resume"]
  /\ UNCHANGED <<param, cache, last, trail, metric, off, now, fails, writes>>

Write(a) ==
  /\ \/ admin[a] = "pause" /\ Set("off") /\ admin' = [admin EXCEPT ![a] = "paused"]
     \/ admin[a] = "resume" /\ Set("on") /\ admin' = [admin EXCEPT ![a] = "resumed"]
  /\ UNCHANGED <<cache, last, trail, metric, now, fails>>

Audit(a) ==
  /\ admin[a] \in {"paused", "resumed"}
  /\ trail' = IF admin[a] = "paused" THEN "pause" ELSE "resume"
  /\ admin' = [admin EXCEPT ![a] = "idle"]
  /\ UNCHANGED <<param, cache, last, metric, off, now, fails, writes>>

\* The parameter, set or removed with other tools.
ByHand ==
  /\ \E v \in {"none", "garbled"} \ {param} : Set(v)
  /\ UNCHANGED <<cache, last, admin, trail, metric, now, fails>>

\* The watch, every five minutes; an unreadable parameter fails it.
Watch ==
  /\ metric' = IF Enabled THEN "on" ELSE "off"
  /\ UNCHANGED <<param, cache, last, admin, trail, off, now, fails, writes>>

Tick ==
  /\ now < MaxTime /\ now' = now + 1
  /\ off' = IF off = -1 THEN -1 ELSE off + 1
  /\ last' = [c \in Containers |-> [last[c] EXCEPT !.served = "none"]]
  /\ UNCHANGED <<param, cache, admin, trail, metric, fails, writes>>

Next ==
  \/ \E c \in Containers : CallCached(c) \/ CallReads(c) \/ CallFails(c) \/ Replaced(c)
  \/ \E a \in Admins : Ask(a) \/ Write(a) \/ Audit(a)
  \/ ByHand \/ Watch \/ Tick

Spec == Init /\ [][Next]_vars

--------------------------------------------------------------------------------
(* A pause reaches every container within the cache's life, unless it      *)
(* could not read the parameter since (vault-service.ts: "Readers cache it *)
(* per Lambda instance for CACHE_TTL_MS").                                 *)
PauseReaches == \A c \in Containers : last[c].served = "yes" /\ off >= Ttl => last[c].unread

(* A container that read the pause serves no vault call until it has read  *)
(* that the service is on: a failed read keeps the last value.             *)
PauseKept == \A c \in Containers : last[c].served = "yes" => last[c].knows # "off"
================================================================================
