------------------------------ MODULE CodeRelease -------------------------------
(***************************************************************************)
(* The recovery code returned to the member's page, once its release is on *)
(* record, until a register spends it (lambda/member/vault.ts,             *)
(* codeReleased and GET /api/vault/recovery), and the lists of requests    *)
(* that the recovery keeps: registers, which tell that the code is spent,  *)
(* and unlocks, which may cancel it.  The page asks again and again, in    *)
(* more than one tab; phones register and unlock meanwhile; the audit log, *)
(* the slots and the lists are written one by one.                         *)
(***************************************************************************)
EXTENDS Integers, FiniteSets

CONSTANTS
  Polls,              \* status reads at once
  Registers, Unlocks, \* bound: register and unlock requests
  Rounds,             \* tries of an append to the list of unlocks
  MaxFaults           \* bound: audit writes that fail, invocations that stop

VARIABLES
  slot,    \* the recovery's slot: releasing and released
  held,    \* the request whose releasing mark the slot bears, or none
  poll,    \* where each status read is, and the register ids it read
  events,  \* history: vault.recovery_code_released in the audit log
  faults,  \* history: releases that failed or stopped, the slow ones included
  shown    \* history: whether the code was returned

VARIABLES
  rec,     \* the recovery on the vault's row: its state, register_ids, unlock_ids
  spent,   \* the register that the enclave confirmed, or none
  route,   \* each register's and unlock's route: where it is, its try, the list it read
  kept     \* history: ids recorded, a register's only if no other route was under way

vars == <<slot, held, poll, events, faults, shown, rec, spent, route, kept>>
lists == <<rec, spent, route, kept>>

Routes == Registers \cup Unlocks
Idle == [at |-> "idle", ids |-> {}]
New  == [at |-> "idle", try |-> 0, ids |-> {}]
Over == [New EXCEPT !.at = "over"]

TypeOK ==
  /\ slot \in [releasing : {"no", "fresh", "stale"}, released : BOOLEAN]
  /\ held \subseteq Polls /\ Cardinality(held) <= 1
  /\ poll \in [Polls -> [at : {"idle", "refresh", "take", "audit", "record", "look"},
                          ids : SUBSET Registers]]
  /\ events \in 0..MaxFaults + 1 /\ faults \in 0..MaxFaults /\ shown \in BOOLEAN
  /\ rec \in [state : {"available", "registered", "replaced"},
               registers : SUBSET Registers, unlocks : SUBSET Unlocks]
  /\ spent \subseteq Registers /\ Cardinality(spent) <= 1
  /\ route \in [Routes -> [at : {"idle", "queued", "over"}, try : 0..Rounds, ids : SUBSET Routes]]
  /\ kept \subseteq Routes

Init ==
  /\ slot = [releasing |-> "no", released |-> FALSE] /\ held = {}
  /\ poll = [p \in Polls |-> Idle] /\ events = 0 /\ faults = 0 /\ shown = FALSE
  /\ rec = [state |-> "available", registers |-> {}, unlocks |-> {}]
  /\ spent = {} /\ route = [n \in Routes |-> New] /\ kept = {}

--------------------------------------------------------------------------------
(* The status read. *)

At(p, pc)   == poll[p].at = pc
GoTo(p, pc) == poll' = [poll EXCEPT ![p] = [Idle EXCEPT !.at = pc]]

\* The recovery is available and its slot holds the sealed code.
Get(p) ==
  /\ At(p, "idle") /\ rec.state = "available"
  /\ poll' = [poll EXCEPT ![p] = [at |-> "refresh", ids |-> rec.registers]]
  /\ UNCHANGED <<slot, held, events, faults, shown, lists>>

\* A listed register that was confirmed: the code is spent, and no longer returned; but a
\* read whose mark was refused goes on with the row it read.
Refresh(p) ==
  /\ At(p, "refresh")
  /\ LET found  == poll[p].ids \cap spent # {}
         marked == found /\ rec.state = "available"
     IN  /\ rec' = IF marked THEN [rec EXCEPT !.state = "registered"] ELSE rec
         /\ shown' = (shown \/ (~marked /\ slot.released))
         /\ GoTo(p, IF marked \/ slot.released THEN "idle" ELSE "take")
  /\ UNCHANGED <<slot, held, events, faults, spent, route, kept>>

TakeableAny == ~slot.released   \* mutated form: a mark is taken over at once
Takeable    == ~slot.released /\ slot.releasing # "fresh"

Take(p) ==
  /\ At(p, "take")
  /\ IF Takeable
     THEN /\ slot' = [slot EXCEPT !.releasing = "fresh"] /\ held' = {p}
          /\ GoTo(p, "audit")
     ELSE GoTo(p, "look") /\ UNCHANGED <<slot, held>>
  /\ UNCHANGED <<events, faults, shown, lists>>

Audit(p) ==
  /\ At(p, "audit") /\ events' = events + 1
  /\ GoTo(p, "record")
  /\ UNCHANGED <<slot, held, faults, shown, lists>>

Record(p) ==
  /\ At(p, "record")
  /\ slot' = [slot EXCEPT !.released = TRUE] /\ shown' = TRUE /\ held' = held \ {p}
  /\ GoTo(p, "idle")
  /\ UNCHANGED <<events, faults, lists>>

\* Another request is releasing it, or has: read again, the code only if that is recorded.
LookAny == TRUE   \* mutated form: the code without the second read
LookReleased == slot.released
Look(p) ==
  /\ At(p, "look")
  /\ shown' = (shown \/ LookReleased)
  /\ GoTo(p, "idle")
  /\ UNCHANGED <<slot, held, events, faults, lists>>

\* The audit write fails, or the function stops, whatever was written by then.
Fails(p) ==
  /\ poll[p].at \in {"audit", "record"} /\ faults < MaxFaults
  /\ faults' = faults + 1 /\ held' = held \ {p}
  /\ GoTo(p, "idle")
  /\ UNCHANGED <<slot, events, shown, lists>>

\* RELEASE_RETRY_S, longer than an invocation lives.
MarkGoesStale ==
  /\ slot.releasing = "fresh" /\ held = {} /\ ~slot.released
  /\ slot' = [slot EXCEPT !.releasing = "stale"]
  /\ UNCHANGED <<held, poll, events, faults, shown, lists>>

--------------------------------------------------------------------------------
(* A register or an unlock is queued, then recorded on the recovery, best  *)
(* effort and only while it is this recovery.                              *)

release == <<slot, held, poll, events, faults, shown>>

RegisterRoute(n) ==
  /\ n \in Registers /\ route[n].at = "idle" /\ rec.state = "available"
  /\ route' = [route EXCEPT ![n] = [at |-> "queued", try |-> 1, ids |-> rec.registers]]
  /\ UNCHANGED <<release, rec, spent, kept>>

EnclaveConfirms(n) ==
  /\ n \in Registers /\ route[n].at # "idle" /\ spent = {} /\ spent' = {n}
  /\ UNCHANGED <<release, rec, route, kept>>

\* The whole list as it was read, whatever another route has added since.
RegisterIdsLast(n) == {n}   \* mutated form: without the ids that were read
RegisterIds(n) == route[n].ids \cup {n}

recordRegisterId(n) ==
  /\ n \in Registers /\ route[n].at = "queued"
  /\ route' = [route EXCEPT ![n] = Over]
  /\ IF rec.state # "replaced"
     THEN /\ rec' = [rec EXCEPT !.registers = RegisterIds(n)]
          /\ kept' = kept \cup {m \in {n} : \A k \in Registers \ {n} : route[k].at # "queued"}
     ELSE UNCHANGED <<rec, kept>>
  /\ UNCHANGED <<release, spent>>

UnlockRoute(n) ==
  /\ n \in Unlocks /\ route[n].at = "idle" /\ rec.state # "replaced"
  /\ route' = [route EXCEPT ![n] = [at |-> "queued", try |-> 1, ids |-> rec.unlocks]]
  /\ UNCHANGED <<release, rec, spent, kept>>

\* Only over the list that was read; else the row is read again, and the append tried again.
AsReadAny(n) == TRUE   \* mutated form: over whatever list there is
AsRead(n) == rec.unlocks = route[n].ids

appendUnlockId(n) ==
  /\ n \in Unlocks /\ route[n].at = "queued"
  /\ LET on == rec.state # "replaced" /\ AsRead(n)
     IN  /\ rec' = IF on THEN [rec EXCEPT !.unlocks = route[n].ids \cup {n}] ELSE rec
         /\ kept' = IF on THEN kept \cup {n} ELSE kept
         /\ route' = [route EXCEPT ![n] =
                        IF on \/ rec.state = "replaced" \/ route[n].try = Rounds THEN Over
                        ELSE [route[n] EXCEPT !.try = @ + 1, !.ids = rec.unlocks]]
  /\ UNCHANGED <<release, spent>>

RouteStops(n) ==
  /\ route[n].at = "queued"
  /\ route' = [route EXCEPT ![n] = Over]
  /\ UNCHANGED <<release, rec, spent, kept>>

\* A new recovery takes this one's place, with lists of its own.
Replaced ==
  /\ rec.state # "replaced"
  /\ rec' = [state |-> "replaced", registers |-> {}, unlocks |-> {}] /\ kept' = {}
  /\ UNCHANGED <<release, spent, route>>

ReleaseNext == \/ \E p \in Polls : \/ Get(p) \/ Refresh(p) \/ Take(p) \/ Audit(p)
                                  \/ Record(p) \/ Look(p) \/ Fails(p)
               \/ MarkGoesStale
ListsNext == \/ \E n \in Routes : \/ RegisterRoute(n) \/ EnclaveConfirms(n) \/ recordRegisterId(n)
                                  \/ UnlockRoute(n) \/ appendUnlockId(n) \/ RouteStops(n)
             \/ Replaced
Next == ReleaseNext \/ ListsNext
Spec == Init /\ [][Next]_vars

--------------------------------------------------------------------------------
(* The code is returned only when its release is on record, and the event  *)
(* is written once, except when a release fails after its audit write      *)
(* (vault.ts, codeReleased).                                               *)
ShownIsOnRecord == (shown => events > 0) /\ events <= 1 + faults

(* An unlock that was recorded stays listed, whoever records another at    *)
(* once; a register too, unless a route under way then wrote the list it   *)
(* had read before (appendUnlockId, recordRegisterId).  Without them the   *)
(* status reads would not find the phone's cancel, or that the code is     *)
(* spent.                                                                  *)
ListsKept == kept \subseteq rec.registers \cup rec.unlocks
================================================================================
