------------------------------ MODULE Subscription ------------------------------
(***************************************************************************)
(* A member's subscription row, which its writers put whole from what they *)
(* read: the trial and its cancellation on the account site                *)
(* (lambda/member/account.ts) and the administrator's extension            *)
(* (lambda/admin/people.ts); the daily run's expiry is the only            *)
(* conditional write of it (lambda/jobs/cleanup.ts).                       *)
(***************************************************************************)
EXTENDS Naturals, FiniteSets

CONSTANTS Calls,   \* invocations at once
          MaxDay,  \* bound: the last day
          Trial,   \* length of a trial, in days
          Extra    \* days of an extension

VARIABLES
  usedTrial, \* has_used_trial, on the member row
  sub,       \* subscription row
  call,      \* invocations
  day,       \* the day
  trials     \* trial subscriptions put

vars == <<usedTrial, sub, call, day, trials>>

NoSub == [status |-> "none", ends |-> 0]
Ends  == 0..(MaxDay + Trial + Extra)
Subs  == [status : {"none", "trial", "expired", "canceled"}, ends : Ends]
Idle  == [op |-> "idle", at |-> "idle", sub |-> NoSub, used |-> FALSE]

TypeOK ==
  /\ usedTrial \in BOOLEAN /\ sub \in Subs /\ day \in 0..MaxDay /\ trials \in 0..Cardinality(Calls)
  /\ call \in [Calls -> [op : {"idle", "start", "cancel", "extend", "expire"},
                         at : {"idle", "mark", "put", "expire"}, sub : Subs, used : BOOLEAN]]

Init ==
  /\ usedTrial = FALSE /\ sub = NoSub /\ call = [c \in Calls |-> Idle] /\ day = 0 /\ trials = 0

Past(s) == s.status = "trial" /\ s.ends < day

\* Each handler reads the member row and the subscription, and refuses on them;
\* the daily run queries the running subscriptions that are past their end.
Read(c) ==
  /\ call[c].at = "idle"
  /\ \E op \in {"start", "cancel", "extend", "expire"} :
       /\ op = "start"  => ~usedTrial /\ (sub.status = "trial" => sub.ends <= day)
       /\ op = "cancel" => sub.status = "trial"
       /\ op = "extend" => sub.status # "none"
       /\ op = "expire" => Past(sub)
       /\ call' = [call EXCEPT ![c] = [op |-> op, sub |-> sub, used |-> usedTrial,
            at |-> IF op = "start" THEN "mark" ELSE IF op = "expire" THEN "expire" ELSE "put"]]
  /\ UNCHANGED <<usedTrial, sub, day, trials>>

UnusedRead(c) == ~call[c].used        \* mutated form: as the member row was read
Unused(c)     == ~usedTrial

\* The trial is marked used first, so that two tabs cannot both start one.
MarkUsed(c) ==
  /\ call[c].at = "mark"
  /\ IF Unused(c) THEN usedTrial' = TRUE /\ call' = [call EXCEPT ![c].at = "put"]
     ELSE call' = [call EXCEPT ![c] = Idle] /\ UNCHANGED usedTrial
  /\ UNCHANGED <<sub, day, trials>>

LaterOf(a, b) == IF a > b THEN a ELSE b

\* Over whatever the row holds by now.
Put(c) ==
  /\ call[c].at = "put"
  /\ LET old == call[c].sub IN
     sub' = CASE call[c].op = "start"  -> [status |-> "trial", ends |-> day + Trial]
              [] call[c].op = "cancel" -> [old EXCEPT !.status = "canceled"]
              [] call[c].op = "extend" -> [status |-> "trial", ends |-> LaterOf(old.ends, day) + Extra]
  /\ sub'.ends \in Ends
  /\ trials' = IF call[c].op = "start" THEN trials + 1 ELSE trials
  /\ call' = [call EXCEPT ![c] = Idle]
  /\ UNCHANGED <<usedTrial, day>>

StillPastRead(c) == Past(call[c].sub)   \* mutated form: as the query saw it
StillPast(c)     == Past(sub)

\* A condition that fails is thrown, and ends the daily run.
Expire(c) ==
  /\ call[c].at = "expire"
  /\ sub' = IF StillPast(c) THEN [sub EXCEPT !.status = "expired"] ELSE sub
  /\ call' = [call EXCEPT ![c] = Idle]
  /\ UNCHANGED <<usedTrial, day, trials>>

Dies(c) ==
  /\ call[c].at # "idle" /\ call' = [call EXCEPT ![c] = Idle]
  /\ UNCHANGED <<usedTrial, sub, day, trials>>

NextDay ==
  /\ day < MaxDay /\ day' = day + 1
  /\ UNCHANGED <<usedTrial, sub, call, trials>>

Next == NextDay \/ \E c \in Calls : Read(c) \/ MarkUsed(c) \/ Put(c) \/ Expire(c) \/ Dies(c)

Spec == Init /\ [][Next]_vars

--------------------------------------------------------------------------------
(* A member starts one trial, however many tabs ask at once, and never     *)
(* another one (account.ts: "so two tabs can't both start one").           *)
OneTrial == trials <= 1

(* A subscription is expired only after its end, which an extension put    *)
(* between the daily run's query and its write may have moved.             *)
ExpiredWhenOver == sub.status = "expired" => sub.ends < day
================================================================================
