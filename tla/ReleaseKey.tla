------------------------------- MODULE ReleaseKey -------------------------------
(***************************************************************************)
(* A release's sealing key: the custom resource that makes it              *)
(* (lambda/vault/release-key.ts), the policy it is made with               *)
(* (lib/vault/release-key-policy.ts) and the check of that policy          *)
(* (lambda/shared/keypolicy.ts), against what KMS then lets whom do.       *)
(* Nobody administers the key: what the first policy lets through stays.   *)
(***************************************************************************)
EXTENDS Integers

CONSTANTS Target,    \* the release's PCR0
          Admitted,  \* the PCR0s its list admits
          Unlisted,  \* any other image
          Window,    \* the channel's retirement window, days
          Windows,   \* windows a request or a policy may name; 0 is none
          MaxTime, MaxDeploys  \* bounds

VARIABLES
  res,   \* CloudFormation's resource: its state, its properties, the key and hash in its physical id
  key,   \* the KMS key: its policy, its state, until when it is pending deletion
  deploys, now

vars == <<res, key, deploys, now>>

Own        == "account"
Principals == {"host", "retirement", "root", "foreign", "*"}
AccountOf(p) == IF p \in {"host", "retirement", "root"} THEN Own ELSE "other"

Gated      == {"Decrypt", "GenerateDataKey"}
ReadOnly   == {"DescribeKey", "GetKeyPolicy", "ListGrants"}
Retirement == {"ScheduleKeyDeletion", "CancelKeyDeletion", "EnableKey"}
Actions    == Gated \cup {"DescribeKey"} \cup Retirement \cup {"PutKeyPolicy", "CreateGrant"}
Images     == {Target} \cup Admitted \cup Unlisted

\* An Allow statement; an empty set of images or callers, or window 0: no such condition.
Stmt(who, acts, imgs, callers, w) == [who |-> who, acts |-> acts, images |-> imgs, callers |-> callers, window |-> w]

\* renderReleaseKeyPolicy()
Rendered ==
  {Stmt({"host"}, {"Decrypt"}, {Target}, {Own}, 0),
   Stmt({"host"}, {"GenerateDataKey"}, Admitted \cup {Target}, {Own}, 0),
   Stmt({"host", "retirement"}, {"DescribeKey"}, {}, {}, 0),
   Stmt({"retirement"}, {"ScheduleKeyDeletion"}, {}, {Own}, Window),
   Stmt({"retirement"}, {"CancelKeyDeletion", "EnableKey"}, {}, {Own}, 0)}

\* What a changed renderer might add, or put in another's place.
Strange ==
  {Stmt(who, acts, imgs, callers, w) :
     who \in {{"host"}, {"retirement"}, {"root"}, {"foreign"}, {"*"}, {"host", "retirement"}},
     acts \in {{a} : a \in Actions \cup {"*"}} \cup {{"Decrypt", "GenerateDataKey"}, {"Decrypt", "DescribeKey"},
              {"ScheduleKeyDeletion", "EnableKey"}, {"ScheduleKeyDeletion", "DescribeKey"}},
     imgs \in {{}, {Target}, Unlisted} \cup {{Target, a} : a \in Admitted},
     callers \in {{}, {Own}, {Own, "other"}}, w \in Windows}
Policies == {Rendered} \cup {Rendered \cup {s} : s \in Strange}

\* A policy's text may name a member twice: what its first mention says, and its last.
Written(first, last) == [first |-> first, last |-> last]
Open  == Rendered \cup {Stmt({"*"}, {"*"}, {}, {}, 0)}
Texts == {Written(P, P) : P \in Policies} \cup {Written(Rendered, Open), Written(Open, Rendered)}

--------------------------------------------------------------------------------
(* checkPolicy(): checks 4 to 8 of every statement.                        *)

AdmittedForAny(a) == {Target} \cup Admitted   \* mutated form: an earlier release's enclave may decrypt too
AdmittedFor(a) == IF a = "Decrypt" THEN {Target} ELSE {Target} \cup Admitted

\* checkAttestation(): a condition on the image, naming admitted releases only.
Attested(s) == \A a \in s.acts \cap Gated : s.images # {} /\ s.images \subseteq AdmittedFor(a)

NoWindow(s) == TRUE   \* mutated form: the window is not looked at
WindowRight(s) ==
  /\ s.window # 0 => "ScheduleKeyDeletion" \in s.acts
  /\ "ScheduleKeyDeletion" \in s.acts => s.window = Window

AnyPrincipal(s) == TRUE   \* mutated form: any principal
PrincipalsRight(s) ==
  /\ \A p \in s.who : AccountOf(p) = Own
  /\ s.acts \cap Retirement # {} => s.who = {"retirement"}
  /\ s.acts \cap Gated # {} => "retirement" \notin s.who
  /\ s.callers \subseteq {Own}
  /\ s.acts \cap (Gated \cup Retirement) # {} => s.callers # {}

CheckAllow(s) ==
  /\ s.acts \subseteq Gated \cup ReadOnly \cup Retirement
  /\ s.acts \cap Retirement # {} => s.acts \cap (Gated \cup ReadOnly) = {}
  /\ Attested(s) /\ WindowRight(s) /\ PrincipalsRight(s)

CheckPolicy(P) == \A s \in P : CheckAllow(s)

\* parseStrict(): no name twice, so there is one reading.
ParsesAny(text) == TRUE               \* mutated form: JSON.parse, the last mention counts
Parses(text)    == text.first = text.last
Parsed(text)    == text.last

\* preflight(): the check, and the two roles are in it.
Preflight(text) == LET P == Parsed(text) IN
  /\ Parses(text) /\ CheckPolicy(P)
  /\ \E s \in P : "host" \in s.who
  /\ \E s \in P : "ScheduleKeyDeletion" \in s.acts
  /\ \E s \in P : "retirement" \in s.who

\* checkReleaseKey(), as the enclave asks it before it uses the key.
CheckReleaseKey == key.state = "Enabled" /\ ~key.granted /\ CheckPolicy(key.policy)

--------------------------------------------------------------------------------
(* KMS: what a policy permits.                                             *)

Covers(who, p) == p \in who \/ "*" \in who \/ ("root" \in who /\ AccountOf(p) = Own)

\* A request names a window only to schedule a deletion.
Permits(P, p, a, img, w) ==
  \E s \in P :
    /\ Covers(s.who, p) /\ (a \in s.acts \/ "*" \in s.acts)
    /\ s.images = {} \/ img \in s.images
    /\ s.callers = {} \/ AccountOf(p) \in s.callers
    /\ s.window = 0 \/ (a = "ScheduleKeyDeletion" /\ w = s.window)

NoKey == [policy |-> {}, state |-> "none", granted |-> FALSE, left |-> 0, since |-> 0]

Requested(a, w) ==
  CASE a = "ScheduleKeyDeletion" /\ key.state \in {"Enabled", "Disabled"} ->
         [key EXCEPT !.state = "PendingDeletion", !.left = w, !.since = now]
    [] a = "CancelKeyDeletion" /\ key.state = "PendingDeletion" -> [key EXCEPT !.state = "Disabled", !.left = 0]
    [] a = "EnableKey" /\ key.state = "Disabled" -> [key EXCEPT !.state = "Enabled"]
    [] a = "PutKeyPolicy" -> [key EXCEPT !.policy = {Stmt({"root"}, {"*"}, {}, {}, 0)}]
    [] a = "CreateGrant" -> [key EXCEPT !.granted = TRUE]
    [] OTHER -> key

Request ==
  /\ key.state # "none"
  /\ \E p \in Principals \ {"*"}, a \in Actions \ Gated, w \in Windows \ {0} :
       Permits(key.policy, p, a, Target, w) /\ key' = Requested(a, w) /\ key' # key
  /\ UNCHANGED <<res, deploys, now>>

Day ==
  /\ now < MaxTime /\ now' = now + 1
  /\ key' = IF key.state # "PendingDeletion" THEN key
            ELSE IF key.left = 1 THEN [key EXCEPT !.state = "Deleted", !.left = 0]
            ELSE [key EXCEPT !.left = @ - 1]
  /\ UNCHANGED <<res, deploys>>

--------------------------------------------------------------------------------
(* The custom resource: its handler's answer is what CloudFormation goes by. *)

NoRes == [at |-> "none", props |-> {}, want |-> {}, had |-> {}]

Init == res = NoRes /\ key = NoKey /\ deploys = 0 /\ now = 0

TypeOK ==
  /\ res.at \in {"none", "steady", "updating", "rollback", "stuck"}
  /\ key.state \in {"none", "Enabled", "Disabled", "PendingDeletion", "Deleted"}
  /\ key.granted \in BOOLEAN /\ key.left \in 0..MaxTime + Window /\ deploys \in 0..MaxDeploys /\ now \in 0..MaxTime

\* Create: the key is made with exactly the checked policy; when the answer does
\* not arrive, CloudFormation gives up and the key stays without its resource.
Create ==
  /\ res.at = "none" /\ key.state = "none" /\ deploys < MaxDeploys
  /\ \E text \in Texts :
       /\ Preflight(text)
       /\ \E P \in {text.first, text.last} :   \* KMS reads it in its own way
            key' = [NoKey EXCEPT !.policy = P, !.state = "Enabled"]
       /\ LET P == Parsed(text) IN res' \in {NoRes, [NoRes EXCEPT !.at = "steady", !.props = P, !.had = P]}
  /\ deploys' = deploys + 1 /\ UNCHANGED now

StartUpdate ==
  /\ res.at = "steady" /\ deploys < MaxDeploys /\ deploys' = deploys + 1
  /\ res' = [res EXCEPT !.at = "updating", !.want = Rendered \cup {Stmt({"host"}, {"DescribeKey"}, {}, {}, 0)}]
  /\ UNCHANGED <<key, now>>

\* Update: only to the properties the physical id carries the hash of.
UnchangedAny(P) == TRUE   \* mutated form: any update is answered as done
Unchanged(P) == P = res.had

Update ==
  /\ res.at \in {"updating", "rollback"}
  /\ LET P == IF res.at = "updating" THEN res.want ELSE res.props
     IN \/ Unchanged(P) /\ res' = [res EXCEPT !.at = "steady", !.props = P, !.want = {}]
        \/ ~Unchanged(P) /\ res' = [res EXCEPT !.at = IF res.at = "updating" THEN "rollback" ELSE "stuck"]
        \* the answer is lost: taken for a failure
        \/ res.at = "updating" /\ res' = [res EXCEPT !.at = "rollback"]
  /\ UNCHANGED <<key, deploys, now>>

\* Delete: nothing; the key outlives the stack.
DropsKeyToo == TRUE   \* mutated form: the key goes with the stack
DropsKey == FALSE

Delete ==
  /\ res.at \in {"steady", "stuck"} /\ res' = NoRes
  /\ key' = IF DropsKey THEN [key EXCEPT !.state = "Deleted"] ELSE key
  /\ UNCHANGED <<deploys, now>>

Next == Create \/ StartUpdate \/ Update \/ Delete \/ Request \/ Day
Spec == Init /\ [][Next]_vars

--------------------------------------------------------------------------------
(* Whatever policy was accepted, and whatever was then asked of KMS: only  *)
(* an attested enclave of this release decrypts with the key and only a    *)
(* listed one seals, from our account; no grant and no new policy comes    *)
(* (keypolicy.ts, checks 4 to 8).                                          *)
OnlyEnclaves ==
  key.state # "none" =>
    /\ ~key.granted
    /\ \A p \in Principals \ {"*"}, img \in Images :
         /\ Permits(key.policy, p, "Decrypt", img, 0) => img = Target /\ AccountOf(p) = Own
         /\ Permits(key.policy, p, "GenerateDataKey", img, 0) => img \notin Unlisted /\ AccountOf(p) = Own
    /\ ~\E p \in Principals \ {"*"} : Permits(key.policy, p, "PutKeyPolicy", Target, 0)

(* A key ends only when the retirement role asked for it, a whole window   *)
(* before; not with its stack, and not sooner (release-key.ts, "only       *)
(* retirement ends it").                                                   *)
EndsByRetirement ==
  /\ key.state = "Deleted" => now >= key.since + Window
  /\ key.state = "PendingDeletion" => key.left >= Window - (now - key.since)
  /\ \A p \in {"host", "foreign"}, w \in Windows :
       key.state # "none" => ~Permits(key.policy, p, "ScheduleKeyDeletion", Target, w)

(* A resource that CloudFormation holds for done names a key made with its *)
(* properties, whatever was updated and rolled back; a rollback works, and *)
(* while the key is enabled the enclave's own check still accepts it.      *)
KeyOfStack ==
  /\ res.at = "steady" => res.props = key.policy
  /\ res.at # "stuck"
  /\ key.state = "Enabled" => CheckReleaseKey
================================================================================
