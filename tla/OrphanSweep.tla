------------------------------- MODULE OrphanSweep -------------------------------
(***************************************************************************)
(* Vaults whose member row is gone (lambda/jobs/cleanup.ts,                *)
(* deleteOrphanVaults, deleteVaults, requestVaultDeletion,                 *)
(* retryVaultDeletions): a daily run marks them, and a run seven days      *)
(* later asks them to delete themselves.  What it guards against is a      *)
(* members table that is wrong for a while, so members come and go here.   *)
(***************************************************************************)
EXTENDS Naturals, FiniteSets

CONSTANTS
  Owners, Vaults,
  OwnerOf,      \* whose each vault is
  NeverSealed,  \* the vaults with no release and no lease
  OrphanLimit   \* ORPHAN_LIMIT

VARIABLES
  present,  \* the owners who have a member row
  vault,    \* the vault rows
  todo      \* what the run decided for each owner, until it has done it

VARIABLES back, failed   \* history: read as present since the mark; a mark not removed

vars == <<present, vault, todo, back, failed>>

\* seen: orphan_seen_at, and whether 7 days old; asked: deletion_requested_at;
\* mark: account_deleted_at; hold: orphan_hold.
Row == [state : {"live", "gone"}, seen : {"no", "new", "old"}, hold : BOOLEAN,
        asked : BOOLEAN, mark : BOOLEAN]

TypeOK ==
  /\ present \subseteq Owners /\ vault \in [Vaults -> Row]
  /\ todo \in [Owners -> {"nothing", "mark", "ask"}]
  /\ back \subseteq Owners /\ failed \in BOOLEAN

Init ==
  /\ present = Owners
  /\ vault = [v \in Vaults |-> [state |-> "live", seen |-> "no", hold |-> FALSE,
                                asked |-> FALSE, mark |-> FALSE]]
  /\ todo = [o \in Owners |-> "nothing"] /\ back = {} /\ failed = FALSE

VaultsOf(o) == {v \in Vaults : OwnerOf[v] = o}
Marked      == {v \in Vaults : vault[v].seen # "no"}
Scanned(o)  == {v \in VaultsOf(o) : vault[v].state = "live" /\ ~vault[v].asked}

--------------------------------------------------------------------------------
(* The run: the scan and the member rows, then one owner after the other.  *)

\* max(1, floor(read * ORPHAN_SHARE)), ORPHAN_SHARE = 0.15.
Allowed(read) == IF read * 15 < 200 THEN 1 ELSE (read * 15) \div 100

TooManyNever(missing, read) == FALSE   \* mutated form: whatever the share
TooMany(missing, read) ==
  Cardinality(missing) > OrphanLimit \/ Cardinality(missing) > Allowed(read)

DueSome(rows) == \E v \in rows : vault[v].seen = "old"   \* mutated form: one of its vaults is due
Due(rows) == \A v \in rows : vault[v].seen = "old"

Decision(rows) ==
  IF \E v \in rows : vault[v].hold THEN "nothing" ELSE IF Due(rows) THEN "ask" ELSE "mark"

\* unread: member rows that could not be read; uncleared: marks that could not be removed.
Survey(unread, uncleared) ==
  LET read    == {o \in Owners : Scanned(o) # {}} \ unread
      missing == read \ present
  IN  /\ \A o \in Owners : todo[o] = "nothing"
      /\ vault' = [v \in Vaults |->
                     IF OwnerOf[v] \in read \cap present /\ v \in Scanned(OwnerOf[v]) \ uncleared
                     THEN [vault[v] EXCEPT !.seen = "no"] ELSE vault[v]]
      /\ back' = back \cup {o \in read \cap present : Scanned(o) \cap Marked # {}}
      /\ failed' = (failed \/ uncleared # {})
      /\ todo' = IF TooMany(missing, Cardinality(read)) THEN todo
                 ELSE [o \in Owners |-> IF o \in missing THEN Decision(Scanned(o)) ELSE "nothing"]
      /\ UNCHANGED present

Done(o) == todo' = [todo EXCEPT ![o] = "nothing"]

MarkOwner(o) ==
  /\ todo[o] = "mark" /\ Done(o)
  /\ vault' = [v \in Vaults |->
                 IF v \in Scanned(o) /\ vault[v].seen = "no" THEN [vault[v] EXCEPT !.seen = "new"]
                 ELSE vault[v]]
  /\ back' = back \ {o}
  /\ UNCHANGED <<present, failed>>

\* deleteVaults(): every vault of the owner that is not deleted, as the index lists it; the
\* account_deleted_at mark is best effort.
Asked(v, marked) ==
  IF v \in NeverSealed THEN [vault[v] EXCEPT !.state = "gone"]
  ELSE [vault[v] EXCEPT !.asked = TRUE, !.mark = marked]

AskOwner(o, marked) ==
  /\ todo[o] = "ask" /\ Done(o)
  /\ vault' = [v \in Vaults |-> IF OwnerOf[v] = o /\ vault[v].state = "live"
                                THEN Asked(v, vault[v].mark \/ marked) ELSE vault[v]]
  /\ UNCHANGED <<present, back, failed>>

RunDies ==
  /\ \E o \in Owners : todo[o] # "nothing"
  /\ todo' = [o \in Owners |-> "nothing"]
  /\ UNCHANGED <<present, vault, back, failed>>

\* retryVaultDeletions(): asked again, and marked if the member is (still) gone.
Retry(v) ==
  /\ vault[v].state = "live" /\ vault[v].asked /\ ~vault[v].mark /\ OwnerOf[v] \notin present
  /\ vault' = [vault EXCEPT ![v].mark = TRUE]
  /\ UNCHANGED <<present, todo, back, failed>>

--------------------------------------------------------------------------------
(* The rest of the system. *)

MemberComesOrGoes(o) ==
  /\ present' = IF o \in present THEN present \ {o} ELSE present \cup {o}
  /\ UNCHANGED <<vault, todo, back, failed>>

TableLost ==
  /\ present' = {} /\ UNCHANGED <<vault, todo, back, failed>>

OperatorHolds(v) ==
  /\ vault' = [vault EXCEPT ![v].hold = ~@]
  /\ UNCHANGED <<present, todo, back, failed>>

SevenDaysPass ==
  /\ \A o \in Owners : todo[o] = "nothing"
  /\ vault' = [v \in Vaults |->
                 IF vault[v].seen = "new" THEN [vault[v] EXCEPT !.seen = "old"] ELSE vault[v]]
  /\ UNCHANGED <<present, todo, back, failed>>

VaultDeletes(v) ==
  /\ vault[v].asked /\ vault[v].state = "live"
  /\ vault' = [vault EXCEPT ![v].state = "gone"]
  /\ UNCHANGED <<present, todo, back, failed>>

RunNext == \/ \E unread \in SUBSET Owners, uncleared \in SUBSET Marked :
                Survey(unread, uncleared)
           \/ \E o \in Owners : MarkOwner(o) \/ \E b \in BOOLEAN : AskOwner(o, b)
           \/ RunDies
Next == \/ RunNext
        \/ \E v \in Vaults : Retry(v) \/ OperatorHolds(v) \/ VaultDeletes(v)
        \/ \E o \in Owners : MemberComesOrGoes(o)
        \/ TableLost \/ SevenDaysPass

Spec == Init /\ [][Next]_vars

--------------------------------------------------------------------------------
(* A vault that nobody asked is deleted only when it was itself marked     *)
(* seven days before, and its owner has been seen by no run since: a       *)
(* member who is back in time, or a table put right, keeps every vault.    *)
Ends(v) == vault[v].state = "live" /\ ~vault[v].asked
           /\ (vault'[v].asked \/ vault'[v].state = "gone")

SevenDaysMissing ==   \* of every step
  \A v \in Vaults : Ends(v) => vault[v].seen = "old" /\ (failed \/ OwnerOf[v] \notin back)

(* A run that finds many members without a row at once writes nothing for  *)
(* any of them.                                                            *)
FewAtOnce ==
  Cardinality({o \in Owners : todo[o] # "nothing"}) <= Allowed(Cardinality(Owners))
================================================================================
