--------------------------- MODULE AccountSnapshot ---------------------------
(***************************************************************************)
(* The account snapshot in the member's vault (lambda/shared/              *)
(* account-snapshot.ts, lambda/jobs/vault-account-push.ts; the unlock of   *)
(* lambda/member/vault.ts).  A change of the account asks for a push,      *)
(* which sends what it reads to the instance that holds the vault; every   *)
(* unlock carries one too.  Snapshots are built from rows read at          *)
(* different moments, travel by queues that reorder, and the vault keeps   *)
(* the one with the latest as_of.                                          *)
(*                                                                         *)
(* A row's content is its number of changes.  The clock moves with each    *)
(* snapshot built, so that no two have one as_of.  Lambda's retries of a   *)
(* push, the terms (whose publication pushes nothing) and enrolment, which *)
(* builds as an unlock does, are left out.                                 *)
(***************************************************************************)
EXTENDS Naturals, FiniteSets

CONSTANTS Instances,
          Changes, Unlocks, Locks, Losses   \* bounds

VARIABLES row,      \* the member row and the subscription row, and whether suspended
          lease,    \* the instance that runs the vault, or None
          snap,     \* the vault's snapshot
          clock,
          pushes,   \* pushes asked for
          unlocks,  \* unlock calls under way
          queues,   \* messages in the instances' queues
          spent,    \* what is used of the bounds
          built,    \* the newest member content in a snapshot built
          excused   \* why the vault's snapshot may be old

vars == <<row, lease, snap, clock, pushes, unlocks, queues, spent, built, excused>>

None == "none"
Content == [member : 0..Changes, sub : 0..Changes]
Snapshots == [asOf : Nat, member : 0..Changes, sub : 0..Changes]

Init ==
  /\ row = [member |-> 0, sub |-> 0, suspended |-> FALSE]
  /\ lease = None
  /\ snap = [asOf |-> 0, member |-> 0, sub |-> 0]
  /\ clock = 0
  /\ pushes = {} /\ unlocks = {} /\ queues = {}
  /\ spent = [changes |-> 0, unlocks |-> 0, locks |-> 0, losses |-> 0]
  /\ built = 0
  /\ excused = {}

Used(what) == spent' = [spent EXCEPT ![what] = @ + 1]

----------------------------------------------------------------------------
(* The routes that change the account, each of which ends with a push.     *)

Push == [id |-> spent.changes + 1, pc |-> "asked", member |-> 0, suspended |-> FALSE, to |-> None]

\* As Asked would be for a route that leaves the push out.
AskedNever == pushes
Asked == pushes \union {Push}

ChangeMember ==
  /\ spent.changes < Changes /\ Used("changes")
  /\ row' = [row EXCEPT !.member = @ + 1]
  /\ pushes' = Asked
  /\ UNCHANGED <<lease, snap, clock, unlocks, queues, built, excused>>

ChangeSub ==
  /\ spent.changes < Changes /\ Used("changes")
  /\ row' = [row EXCEPT !.sub = @ + 1]
  /\ pushes' = Asked
  /\ UNCHANGED <<lease, snap, clock, unlocks, queues, built, excused>>

\* An administrator suspends, which pushes nothing, or reinstates.
Suspend ==
  /\ spent.changes < Changes /\ Used("changes")
  /\ ~row.suspended
  /\ row' = [row EXCEPT !.suspended = TRUE]
  /\ UNCHANGED <<lease, snap, clock, pushes, unlocks, queues, built, excused>>

Reinstate ==
  /\ spent.changes < Changes /\ Used("changes")
  /\ row.suspended
  /\ row' = [row EXCEPT !.suspended = FALSE]
  /\ pushes' = Asked
  /\ UNCHANGED <<lease, snap, clock, unlocks, queues, built, excused>>

----------------------------------------------------------------------------
(* A snapshot: the subscription read and as_of taken as it is built, of a  *)
(* member row read before.                                                 *)

Message(op, to, member) ==
  [op |-> op, to |-> to, asOf |-> clock + 1, member |-> member, sub |-> row.sub]

Build(op, to, member) ==
  /\ clock' = clock + 1
  /\ queues' = queues \union {Message(op, to, member)}
  /\ built' = IF member > built THEN member ELSE built

\* It is dated after one built from a newer member row.
Crosses(member) == IF member < built THEN {"crossed"} ELSE {}

\* What a push that reaches no vault would have corrected: a snapshot in the
\* running vault, or an unlock's on its way, older than the rows.
OlderIn(v) == v.member < row.member \/ v.sub < row.sub
Misses ==
  IF \/ lease # None /\ OlderIn(snap)
     \/ \E u \in unlocks : u.member < row.member
     \/ \E q \in queues : q.op = "unlock" /\ OlderIn(q)
  THEN {"missed"} ELSE {}

----------------------------------------------------------------------------
(* The push: the member row, the vault's row with its lease, the snapshot. *)

ReadMember(p) ==
  /\ p.pc = "asked"
  /\ pushes' = (pushes \ {p}) \union
               {[p EXCEPT !.pc = "read", !.member = row.member, !.suspended = row.suspended]}
  /\ UNCHANGED <<row, lease, snap, clock, unlocks, queues, spent, built, excused>>

\* No lease, nothing is sent: the next unlock carries one.
ReadLease(p) ==
  /\ p.pc = "read"
  /\ IF lease = None
     THEN pushes' = pushes \ {p} /\ excused' = excused \union Misses
     ELSE /\ pushes' = (pushes \ {p}) \union {[p EXCEPT !.pc = "routed", !.to = lease]}
          /\ UNCHANGED excused
  /\ UNCHANGED <<row, lease, snap, clock, unlocks, queues, spent, built>>

\* A suspended account has no snapshot.
Send(p) ==
  /\ p.pc = "routed"
  /\ pushes' = pushes \ {p}
  /\ IF p.suspended THEN UNCHANGED <<clock, queues, built, excused>>
     ELSE Build("account", p.to, p.member) /\ excused' = excused \union Crosses(p.member)
  /\ UNCHANGED <<row, lease, snap, unlocks, spent>>

\* The change's route stops before it asks, the invocation or the queue fails.
Lost(p) ==
  /\ spent.losses < Losses /\ Used("losses")
  /\ pushes' = pushes \ {p}
  /\ excused' = excused \union {"lost"}
  /\ UNCHANGED <<row, lease, snap, clock, unlocks, queues, built>>

----------------------------------------------------------------------------
(* POST /api/vault/unlock: the caller's rows, then the snapshot.           *)

\* routeCheck(): the leaseholder, or any instance while nobody holds it.
Routes(i) == lease \in {None, i}

CallUnlock ==
  /\ spent.unlocks < Unlocks /\ Used("unlocks")
  /\ ~row.suspended
  /\ \E i \in Instances :
       /\ Routes(i)
       /\ unlocks' = unlocks \union {[id |-> spent.unlocks + 1, to |-> i, member |-> row.member]}
  /\ UNCHANGED <<row, lease, snap, clock, pushes, queues, built, excused>>

QueueUnlock(u) ==
  /\ unlocks' = unlocks \ {u}
  /\ Build("unlock", u.to, u.member)
  /\ excused' = excused \union Crosses(u.member)
  /\ UNCHANGED <<row, lease, snap, pushes, spent>>

----------------------------------------------------------------------------
(* The instances.                                                          *)

\* As Stored would be with the snapshot that arrived last.
StoredLast(q) == [asOf |-> q.asOf, member |-> q.member, sub |-> q.sub]

\* The snapshot with the later as_of.
Stored(q) ==
  IF q.asOf > snap.asOf THEN [asOf |-> q.asOf, member |-> q.member, sub |-> q.sub] ELSE snap

HandleUnlock(q) ==
  /\ q.op = "unlock"
  /\ queues' = queues \ {q}
  /\ IF lease \in {None, q.to} THEN lease' = q.to /\ snap' = Stored(q)
     ELSE UNCHANGED <<lease, snap>>
  /\ UNCHANGED <<row, clock, pushes, unlocks, spent, built, excused>>

\* Only a running vault takes the op `account`.
HandleAccount(q) ==
  /\ q.op = "account"
  /\ queues' = queues \ {q}
  /\ IF lease = q.to THEN snap' = Stored(q) /\ UNCHANGED excused
     ELSE UNCHANGED snap /\ excused' = excused \union Misses
  /\ UNCHANGED <<row, lease, clock, pushes, unlocks, spent, built>>

\* The member locks the vault, or its instance ends.
Lock ==
  /\ spent.locks < Locks /\ Used("locks")
  /\ lease # None
  /\ lease' = None
  /\ UNCHANGED <<row, snap, clock, pushes, unlocks, queues, built, excused>>

Next ==
  \/ ChangeMember \/ ChangeSub \/ Suspend \/ Reinstate \/ CallUnlock \/ Lock
  \/ \E p \in pushes : ReadMember(p) \/ ReadLease(p) \/ Send(p) \/ Lost(p)
  \/ \E u \in unlocks : QueueUnlock(u)
  \/ \E q \in queues : HandleUnlock(q) \/ HandleAccount(q)

Spec == Init /\ [][Next]_vars

----------------------------------------------------------------------------
TypeOK ==
  /\ row.member + row.sub <= Changes /\ row.suspended \in BOOLEAN
  /\ lease \in Instances \union {None}
  /\ snap.member <= row.member /\ snap.sub <= row.sub /\ snap.asOf <= clock
  /\ \A q \in queues : q.op \in {"unlock", "account"} /\ q.to \in Instances /\ q.asOf <= clock
  /\ excused \subseteq {"lost", "crossed", "missed"}

\* With nothing under way a running vault of an account not suspended has
\* the account as the rows have it.  The subscription's part may be older
\* only after a push was lost, or found no vault to reach while an unlock
\* with an older snapshot was on its way; the member's part also after a
\* snapshot built from an older row was dated after a newer one.
SnapshotCurrent ==
  pushes = {} /\ unlocks = {} /\ queues = {} /\ lease # None /\ ~row.suspended =>
    /\ excused \subseteq {"crossed"} => snap.sub = row.sub
    /\ excused = {} => snap.member = row.member
============================================================================
