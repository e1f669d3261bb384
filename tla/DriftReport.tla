------------------------------ MODULE DriftReport -------------------------------
(***************************************************************************)
(* The daily drift check: each stack of the app as master has it, compared *)
(* with the one that is deployed, and the issue that says which differ     *)
(* (lib/ops/drift.ts, scripts/ops/drift-check.ts; .github/workflows        *)
(* runs one at a time).  Master moves and stacks are deployed, fail and    *)
(* roll back while a run looks at one account after the other; a run may   *)
(* stop between any two calls, and a person may close the issue.           *)
(* Templates are versions; 0 is no such stack.                             *)
(***************************************************************************)
EXTENDS Naturals

CONSTANTS
  Stacks,      \* stacks 1 and up, each in an account of its own, checked in this order
  MaxVersion,  \* bound: versions of a stack's template
  MaxStops     \* bound: runs that stop half way

VARIABLES
  master,  \* the template of each stack that master synthesizes to
  cfn,     \* each stack in CloudFormation: its template, the one before, an update under way
  run,     \* the run: where it is, master as checked out, what it listed and found, the body it read
  issue,   \* the "Production drift" issue: open, and the set its body names
  told,    \* history: the set that the issue's notifications told of last
  missed,  \* history: a run stopped before its notification
  stops    \* history: runs that stopped

vars == <<master, cfn, run, issue, told, missed, stops>>

Versions == 0..MaxVersion
Bad    == {"drift", "not-deployed", "not-in-app", "error"}
States == Bad \cup {"in-sync", "none"}   \* none: not looked at, or in neither place
Sets   == SUBSET (Stacks \X Bad)
Off == [at |-> "off", on |-> 1, head |-> [s \in Stacks |-> 0], listed |-> "no",
        found |-> [s \in Stacks |-> "none"], body |-> {}]

TypeOK ==
  /\ master \in [Stacks -> Versions]
  /\ cfn \in [Stacks -> [now : Versions, before : Versions, busy : BOOLEAN]]
  /\ run \in [at : {"off", "list", "compare", "report", "update", "comment"}, on : Stacks,
              head : [Stacks -> Versions], listed : {"no", "absent", "settled", "busy"},
              found : [Stacks -> States], body : Sets]
  /\ issue \in [open : BOOLEAN, body : Sets] /\ told \in Sets
  /\ missed \in BOOLEAN /\ stops \in 0..MaxStops

Init ==
  /\ master = [s \in Stacks |-> 1]
  /\ cfn = [s \in Stacks |-> [now |-> 1, before |-> 1, busy |-> FALSE]]
  /\ run = Off /\ issue = [open |-> FALSE, body |-> {}]
  /\ told = {} /\ missed = FALSE /\ stops = 0

checks == <<run, issue, told, missed, stops>>

--------------------------------------------------------------------------------
(* Merges and deploys, meanwhile. *)

Merge(s) ==   \* changed, or taken out of the app
  /\ master[s] \in 1..MaxVersion - 1
  /\ \E v \in {0, master[s] + 1} : master' = [master EXCEPT ![s] = v]
  /\ UNCHANGED <<cfn, checks>>

DeployStarts(s) ==   \* GetTemplate answers the new template from here on
  /\ ~cfn[s].busy /\ cfn[s].now # master[s] /\ master[s] # 0
  /\ cfn' = [cfn EXCEPT ![s] = [now |-> master[s], before |-> @.now, busy |-> TRUE]]
  /\ UNCHANGED <<master, checks>>

DeployEnds(s) ==     \* done, or rolled back
  /\ cfn[s].busy
  /\ \E v \in {cfn[s].now, cfn[s].before} :
       cfn' = [cfn EXCEPT ![s] = [now |-> v, before |-> v, busy |-> FALSE]]
  /\ UNCHANGED <<master, checks>>

StackDeleted(s) ==
  /\ master[s] = 0 /\ ~cfn[s].busy /\ cfn[s].now # 0
  /\ cfn' = [cfn EXCEPT ![s] = [now |-> 0, before |-> 0, busy |-> FALSE]]
  /\ UNCHANGED <<master, checks>>

ClosedByHand ==
  /\ issue.open /\ run.at = "off"
  /\ issue' = [open |-> FALSE, body |-> {}] /\ told' = {}
  /\ UNCHANGED <<master, cfn, run, missed, stops>>

--------------------------------------------------------------------------------
(* The check of each account, into a file. *)

Checkout ==
  /\ run.at = "off"
  /\ run' = [Off EXCEPT !.at = "list", !.head = master]
  /\ UNCHANGED <<master, cfn, issue, told, missed, stops>>

listStacks ==
  /\ run.at = "list"
  /\ LET c == cfn[run.on]
     IN  run' = [run EXCEPT !.at = "compare",
                            !.listed = IF c.now = 0 THEN "absent"
                                       ELSE IF c.busy THEN "busy" ELSE "settled"]
  /\ UNCHANGED <<master, cfn, issue, told, missed, stops>>

\* The status is as it was listed, the template as it is when it is got.
compareStack(s) ==
  IF run.head[s] = 0 THEN IF run.listed = "absent" THEN "none" ELSE "not-in-app"
  ELSE IF run.listed = "absent" THEN "not-deployed"
  ELSE IF run.listed = "busy" THEN "error"
  ELSE IF run.head[s] = cfn[s].now THEN "in-sync" ELSE "drift"

Compare ==
  /\ run.at = "compare"
  /\ \E state \in {compareStack(run.on)} \cup
                  (IF run.head[run.on] # 0 /\ run.listed # "absent" THEN {"error"} ELSE {}) :
       run' = [run EXCEPT !.found[run.on] = state, !.listed = "no",
                          !.at = IF run.on + 1 \in Stacks THEN "list" ELSE "report",
                          !.on = IF run.on + 1 \in Stacks THEN run.on + 1 ELSE 1]
  /\ UNCHANGED <<master, cfn, issue, told, missed, stops>>

--------------------------------------------------------------------------------
(* The report and the issue, call by call. *)

needsAttentionDrift == {p \in Stacks \X {"drift", "not-deployed", "not-in-app"} :
                          run.found[p[1]] = p[2]}   \* mutated form: errors are no drift
needsAttention == {p \in Stacks \X Bad : run.found[p[1]] = p[2]}

ReadIssue ==
  /\ run.at = "report"
  /\ run' = IF needsAttention = {} /\ ~issue.open THEN Off
            ELSE [run EXCEPT !.at = "update", !.body = issue.body]
  /\ UNCHANGED <<master, cfn, issue, told, missed, stops>>

\* Created with the set in it; edited, or commented and closed.
UpdateIssue ==
  /\ run.at = "update"
  /\ issue' = [open |-> needsAttention # {}, body |-> needsAttention]
  /\ IF issue.open /\ needsAttention # {}
     THEN run' = [run EXCEPT !.at = "comment"] /\ UNCHANGED told
     ELSE run' = Off /\ told' = needsAttention
  /\ UNCHANGED <<master, cfn, missed, stops>>

\* A comment only when the set is another than in the body that was read.
ChangedNow == issue.body # needsAttention   \* mutated form: against the body as edited
Changed == run.body # needsAttention

Comment ==
  /\ run.at = "comment"
  /\ told' = IF Changed THEN needsAttention ELSE told
  /\ run' = Off
  /\ UNCHANGED <<master, cfn, issue, missed, stops>>

\* A call fails or the job ends: nothing is taken up again.
Stops ==
  /\ run.at # "off" /\ stops < MaxStops
  /\ stops' = stops + 1 /\ run' = Off
  /\ missed' = (missed \/ run.at = "comment")
  /\ UNCHANGED <<master, cfn, issue, told>>

Next == \/ \E s \in Stacks : Merge(s) \/ DeployStarts(s) \/ DeployEnds(s) \/ StackDeleted(s)
        \/ ClosedByHand
        \/ Checkout \/ listStacks \/ Compare \/ ReadIssue \/ UpdateIssue \/ Comment \/ Stops
Spec == Init /\ [][Next]_vars

--------------------------------------------------------------------------------
(* Between two runs those who follow the open issue were told of the set   *)
(* in its body, however it changed since it was opened, unless a run       *)
(* stopped between the edit and the comment (drift-check.ts, updateIssue). *)
ChangesTold == run.at = "off" /\ issue.open /\ ~missed => issue.body = told

(* A run closes the issue only when it compared every stack of master as   *)
(* it was checked out, and found each deployed as it is there and no other *)
(* (drift.ts, compareStack, needsAttention).                               *)
ClosedInSync ==
  issue.open /\ ~issue'.open /\ run.at = "update" =>
    \A s \in Stacks : run.found[s] = IF run.head[s] = 0 THEN "none" ELSE "in-sync"
================================================================================
