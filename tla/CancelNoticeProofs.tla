-------------------------- MODULE CancelNoticeProofs --------------------------
(***************************************************************************)
(* What holds of CancelNotice for every number of recoveries, of noticers  *)
(* and of tries, and for all times that keep the lease.                    *)
(***************************************************************************)
EXTENDS CancelNotice, TLAPS

--------------------------------------------------------------------------------
(* Typing. *)

(* The bounds of the ages lie in their order. *)
LEMMA BoundsTyped ==
  /\ Never \in Nat /\ OldAge \in Nat /\ Never = OldAge + 1
  /\ Timeout < OldAge
  /\ Never \in 0..Never
  /\ 0 \in 0..Timeout
BY TimesAssumption DEF Never, OldAge

(* Ages stay within where they stop counting. *)
LEMMA AgeTyped ==
  ASSUME NEW most \in Nat, NEW age \in 0..most
  PROVE  Older(age, most) \in 0..most
BY DEF Older

(* One more is a count. *)
LEMMA CountTyped ==
  ASSUME NEW f \in [Recoveries -> Nat], NEW s
  PROVE  [f EXCEPT ![s] = @ + 1] \in [Recoveries -> Nat]
<1>1. \A i \in Recoveries : f[i] + 1 \in Nat
  OBVIOUS
<1> QED
  BY <1>1

LEMMA EndedTyped == Idle \in Noticer /\ NoNotice \in Notice
BY BoundsTyped DEF Idle, Noticer, NoNotice, Notice

(* Who is at work is at work on a recovery. *)
Busy == \A p \in Noticers : At(p, "idle") \/ noticers[p].id \in Recoveries

TypeInv == TypeOK /\ Busy

(* A step of one noticer, to a noticer that is at work on a recovery or idle. *)
LEMMA MoveTyped ==
  ASSUME TypeInv, NEW p \in Noticers, NEW n \in Noticer,
         n.pc = "idle" \/ n.id \in Recoveries,
         noticers' = [noticers EXCEPT ![p] = n]
  PROVE  noticers' \in [Noticers -> Noticer] /\ Busy'
BY DEF TypeInv, TypeOK, Busy, At

LEMMA GoToTyped ==
  ASSUME TypeInv, NEW p \in Noticers, ~At(p, "idle"),
         NEW pc \in {"claimed", "lost", "won", "audited", "mailed", "seen", "noted",
                     "giveup", "covered", "ended", "slot_seen"},
         GoTo(p, pc)
  PROVE  noticers' \in [Noticers -> Noticer] /\ Busy'
<1> DEFINE n == [noticers[p] EXCEPT !.pc = pc]
<1>1. n \in Noticer /\ n.id \in Recoveries
  BY DEF TypeInv, TypeOK, Busy, At, Noticer
<1>2. noticers' = [noticers EXCEPT ![p] = n]
  BY DEF GoTo
<1> QED
  BY <1>1, <1>2, MoveTyped

(* A record of how recoveries ended stays one. *)
LEMMA EndTyped ==
  ASSUME TypeInv, NEW id, NEW end \in {"app", "other", "ended"}, FirstEnd(id, end)
  PROVE  how' \in [Recoveries -> {"unrequested", "none", "app", "other", "ended"}]
BY DEF TypeInv, TypeOK, FirstEnd

LEMMA TypeInit == Init => TypeInv
BY EndedTyped DEF Init, TypeInv, TypeOK, Busy, At, Idle, States

LEMMA TypeNotice ==
  ASSUME TypeInv, NoticeAppCancel
  PROVE  TypeInv'
<1> USE DEF ghost
<1>1. PICK p \in Noticers :
        \/ \E id \in Recoveries, src \in {"slot", "row", "notice"} : Look(p, id, src)
        \/ ClaimNotice(p) \/ NothingToClaim(p)
        \/ CancelWins(p) \/ CancelLoses(p) \/ Reread(p)
        \/ AuditCancel(p) \/ MailCancel(p) \/ AuditSeen(p)
        \/ Record(p) \/ MarkSlot(p) \/ AuditSlotSeen(p) \/ Stop(p)
  BY DEF NoticeAppCancel
<1>2. /\ noticers[p] \in Noticer /\ TypeOK
      /\ ~At(p, "idle") => noticers[p].id \in Recoveries
  BY DEF TypeInv, TypeOK, Busy
<1>3. ASSUME NEW id \in Recoveries, NEW src \in {"slot", "row", "notice"}, Look(p, id, src)
      PROVE  TypeInv'
  <2>1. PICK n \in Noticer : n.id = id /\ noticers' = [noticers EXCEPT ![p] = n]
    <3> DEFINE live  == Cancellable(id)
               app   == Is(id, "cancelled_app")
               early == recovery.state # "lapsed"
    <3>1. live \in BOOLEAN /\ app \in BOOLEAN /\ early \in BOOLEAN
      BY DEF Cancellable, Is
    <3>2. noticers' = [noticers EXCEPT ![p] =
            [pc |-> "start", id |-> id, src |-> src, live |-> live, app |-> app,
             early |-> early, age |-> 0]]
      BY <1>3 DEF Look
    <3> HIDE DEF live, app, early
    <3> QED
      BY <3>1, <3>2, BoundsTyped DEF Noticer
  <2>2. noticers' \in [Noticers -> Noticer] /\ Busy'
    BY <2>1, MoveTyped
  <2> QED
    BY <1>2, <1>3, <2>2 DEF Look, TypeInv, TypeOK
<1>4. CASE ClaimNotice(p)
  <2> DEFINE id == noticers[p].id
  <2>1. noticers' \in [Noticers -> Noticer] /\ Busy' /\ id \in Recoveries
    BY <1>2, <1>4, GoToTyped DEF ClaimNotice, At
  <2>2. noticers[p].age \in 0..Never
    BY <1>2, BoundsTyped, TimesAssumption DEF Noticer
  <2>3. notices[id] \in Notice
    BY <1>2, <2>1 DEF TypeOK
  <2>4. Older(notices[id].tries, MaxTries + 1) \in Nat
    BY <2>3, TimesAssumption DEF Older, Notice
  <2> DEFINE n == [notices[id] EXCEPT !.exists = TRUE, !.noticing = noticers[p].age,
                                      !.tries = Older(@, MaxTries + 1)]
  <2>5. n \in Notice
    BY <2>2, <2>3, <2>4 DEF Notice
  <2>6. notices' = [notices EXCEPT ![id] = n]
    BY <1>4 DEF ClaimNotice
  <2>7. notices' \in [Recoveries -> Notice]
    <3> HIDE DEF n
    <3> QED
      BY <1>2, <2>5, <2>6 DEF TypeOK
  <2> QED
    BY <1>2, <1>4, <2>1, <2>7 DEF ClaimNotice, TypeInv, TypeOK
<1>5. CASE NothingToClaim(p) \/ CancelLoses(p) \/ Reread(p)
  <2>1. noticers' \in [Noticers -> Noticer] /\ Busy'
    BY <1>5, GoToTyped DEF NothingToClaim, CancelLoses, Reread, At
  <2> QED
    BY <1>2, <1>5, <2>1 DEF NothingToClaim, CancelLoses, Reread, TypeInv, TypeOK
<1>6. CASE CancelWins(p)
  <2>1. noticers' \in [Noticers -> Noticer] /\ Busy'
    BY <1>6, GoToTyped DEF CancelWins, At
  <2>2. how' \in [Recoveries -> {"unrequested", "none", "app", "other", "ended"}]
    BY <1>6, EndTyped DEF CancelWins
  <2>3. recovery' \in [id : Recoveries \cup {None}, state : States]
    BY <1>2, <1>6 DEF CancelWins, TypeOK, States
  <2> QED
    BY <1>2, <1>6, <2>1, <2>2, <2>3 DEF CancelWins, TypeInv, TypeOK
<1>7. CASE AuditCancel(p) \/ AuditSeen(p) \/ MailCancel(p)
  <2>1. noticers' \in [Noticers -> Noticer] /\ Busy' /\ noticers[p].id \in Recoveries
    BY <1>2, <1>7, GoToTyped DEF AuditCancel, AuditSeen, MailCancel, At
  <2>2. mails' \in [Recoveries -> Nat]
    BY <1>2, <1>7, CountTyped DEF AuditCancel, AuditSeen, MailCancel, TypeOK
  <2> QED
    BY <1>2, <1>7, <2>1, <2>2 DEF AuditCancel, AuditSeen, MailCancel, TypeInv, TypeOK
<1>8. CASE AuditSlotSeen(p)
  <2>1. noticers' \in [Noticers -> Noticer] /\ Busy' /\ noticers[p].id \in Recoveries
    BY <1>2, <1>8, MoveTyped, EndedTyped DEF AuditSlotSeen, Idle, At
  <2> QED
    BY <1>2, <1>8, <2>1 DEF AuditSlotSeen, TypeInv, TypeOK
<1>9. CASE Record(p)
  <2> DEFINE id == noticers[p].id
  <2>1. id \in Recoveries /\ notices[id] \in Notice
    BY <1>2, <1>9 DEF Record, WorkDone, At, TypeOK
  <2> DEFINE n == [notices[id] EXCEPT !.noticed = TRUE, !.noticing = Never,
                                      !.failed = @ \/ At(p, "giveup")]
  <2>2. n \in Notice
    BY <2>1, BoundsTyped DEF Notice, At
  <2>3. notices' = [notices EXCEPT ![id] = n]
    BY <1>9 DEF Record
  <2>4. notices' \in [Recoveries -> Notice]
    <3> HIDE DEF n
    <3> QED
      BY <1>2, <2>2, <2>3 DEF TypeOK
  <2>5. PICK m \in Noticer :
          /\ m.pc = "idle" \/ m.id = id
          /\ noticers' = [noticers EXCEPT ![p] = m]
    <3>1. [noticers[p] EXCEPT !.pc = "covered"] \in Noticer
      BY <1>2 DEF Noticer
    <3> QED
      BY <1>9, <1>2, <3>1, EndedTyped DEF Record, Noticer, Idle
  <2>6. noticers' \in [Noticers -> Noticer] /\ Busy'
    BY <2>1, <2>5, MoveTyped
  <2> QED
    BY <1>2, <1>9, <2>4, <2>6 DEF Record, TypeInv, TypeOK
<1>10. CASE MarkSlot(p)
  <2>1. PICK m \in Noticer :
          /\ m.pc = "idle" \/ m.id = noticers[p].id
          /\ noticers' = [noticers EXCEPT ![p] = m]
    <3>1. [noticers[p] EXCEPT !.pc = "slot_seen"] \in Noticer
      BY <1>2 DEF Noticer
    <3> QED
      BY <1>10, <1>2, <3>1, EndedTyped DEF MarkSlot, Noticer, Idle
  <2>2. noticers[p].id \in Recoveries
    BY <1>2, <1>10 DEF MarkSlot, At
  <2>3. noticers' \in [Noticers -> Noticer] /\ Busy'
    BY <2>1, <2>2, MoveTyped
  <2> QED
    BY <1>2, <1>10, <2>3 DEF MarkSlot, TypeInv, TypeOK
<1>11. CASE Stop(p)
  <2>1. noticers' \in [Noticers -> Noticer] /\ Busy'
    BY <1>11, MoveTyped, EndedTyped DEF Stop, Idle
  <2>2. unrecorded' \in [Recoveries -> Nat]
    BY <1>2, <1>11, CountTyped DEF Stop, TypeOK
  <2> QED
    BY <1>2, <1>11, <2>1, <2>2 DEF Stop, TypeInv, TypeOK
<1> QED
  BY <1>1, <1>3, <1>4, <1>5, <1>6, <1>7, <1>8, <1>9, <1>10, <1>11

LEMMA TypeHandlers ==
  ASSUME TypeInv, OtherHandlers
  PROVE  TypeInv'
<1> USE DEF ghost
<1>1. TypeOK /\ Busy
  BY DEF TypeInv
<1>2. CASE CancelRecovery \/ RecoveryEnds
  <2>1. how' \in [Recoveries -> {"unrequested", "none", "app", "other", "ended"}]
    BY <1>2, EndTyped DEF CancelRecovery, RecoveryEnds
  <2> QED
    BY <1>1, <1>2, <2>1
       DEF CancelRecovery, RecoveryEnds, TypeInv, TypeOK, Busy, At, States
<1>3. CASE ExpiresAtPasses
  BY <1>1, <1>3 DEF ExpiresAtPasses, TypeInv, TypeOK, Busy, At, States
<1>4. CASE ExpiresAtMoves
  <2>1. ASSUME NEW p \in Noticers
        PROVE  /\ noticers'[p] \in Noticer
               /\ At(p, "idle")' \/ noticers'[p].id \in Recoveries
    <3>1. /\ noticers[p] \in Noticer
          /\ At(p, "idle") \/ noticers[p].id \in Recoveries
      BY <1>1 DEF TypeOK, Busy
    <3>2. \/ noticers'[p] = noticers[p]
          \/ noticers'[p] = [noticers[p] EXCEPT !.early = TRUE]
      BY <1>4 DEF ExpiresAtMoves
    <3> QED
      BY <3>1, <3>2 DEF Noticer, At
  <2>2. noticers' \in [Noticers -> Noticer] /\ Busy'
    BY <1>4, <2>1 DEF ExpiresAtMoves, Busy
  <2> QED
    BY <1>1, <1>4, <2>2 DEF ExpiresAtMoves, TypeInv, TypeOK, States
<1>5. ASSUME NEW id \in Recoveries, Request(id)
      PROVE  TypeInv'
  BY <1>1, <1>5 DEF Request, TypeInv, TypeOK, Busy, At, States
<1> QED
  BY <1>2, <1>3, <1>4, <1>5 DEF OtherHandlers

LEMMA TypeEnvironment ==
  ASSUME TypeInv, Environment
  PROVE  TypeInv'
<1> USE DEF ghost
<1>1. TypeOK /\ Busy
  BY DEF TypeInv
<1>2. CASE Tick
  <2>1. ASSUME NEW id \in Recoveries
        PROVE  notices'[id] \in Notice
    <3>1. notices[id] \in Notice
      BY <1>1 DEF TypeOK
    <3>2. notices[id].noticing # Never => Older(notices[id].noticing, OldAge) \in 0..Never
      <4>1. notices[id].noticing # Never => notices[id].noticing \in 0..OldAge
        BY <3>1, BoundsTyped DEF Notice
      <4>2. \A a \in 0..OldAge : a \in 0..Never
        BY BoundsTyped
      <4> QED
        BY <4>1, <4>2, BoundsTyped, AgeTyped
    <3> QED
      BY <1>2, <3>1, <3>2, BoundsTyped DEF Tick, Notice
  <2>2. ASSUME NEW p \in Noticers
        PROVE  /\ noticers'[p] \in Noticer
               /\ At(p, "idle")' \/ noticers'[p].id \in Recoveries
    <3>1. noticers[p] \in Noticer
      BY <1>1 DEF TypeOK
    <3>2. At(p, "idle") \/ noticers[p].age + 1 \in 0..Timeout
      BY <1>2, <3>1, TimesAssumption DEF Tick, Noticer
    <3> QED
      BY <1>1, <1>2, <3>1, <3>2 DEF Tick, Noticer, Busy, At
  <2>3. /\ notices' \in [Recoveries -> Notice] /\ noticers' \in [Noticers -> Noticer]
        /\ Busy'
    BY <1>2, <2>1, <2>2 DEF Tick, Busy
  <2> QED
    BY <1>1, <1>2, <2>3 DEF Tick, TypeInv, TypeOK
<1>3. ASSUME NEW id \in Recoveries, HostMarksSlot(id) \/ HostMarksRow(id)
      PROVE  TypeInv'
  BY <1>1, <1>3 DEF HostMarksSlot, HostMarksRow, TypeInv, TypeOK, Busy, At
<1>4. ASSUME NEW id \in Recoveries, NoticeExpires(id)
      PROVE  TypeInv'
  BY <1>1, <1>4, EndedTyped DEF NoticeExpires, TypeInv, TypeOK, Busy, At
<1> QED
  BY <1>2, <1>3, <1>4 DEF Environment

LEMMA TypeStep == TypeInv /\ [Next]_vars => TypeInv'
<1>1. TypeInv /\ UNCHANGED vars => TypeInv'
  BY DEF vars, TypeInv, TypeOK, Busy, At
<1> QED
  BY <1>1, TypeNotice, TypeHandlers, TypeEnvironment DEF Next

(* The types hold, and whoever is at work on a cancel is at work on a recovery. *)
THEOREM Typing == Spec => []TypeOK
<1>1. Spec => []TypeInv
  BY TypeInit, TypeStep, PTL DEF Spec
<1>2. TypeInv => TypeOK
  BY DEF TypeInv
<1> QED
  BY <1>1, <1>2, PTL

--------------------------------------------------------------------------------
(* The lease.  A holder's claim is as old as the holder itself, which is no *)
(* more than Timeout, so less than Retry: nobody finds it stale.  A notice   *)
(* that is recorded is held by nobody.                                       *)

Holder(p) ==
  \A id \in Recoveries : Holds(p, id) =>
    /\ notices[id].exists /\ ~notices[id].noticed
    /\ notices[id].noticing = noticers[p].age

LeaseInv == OneNoticer /\ \A p \in Noticers : Holder(p)

(* A notice that is held is not claimed again. *)
LEMMA HeldNotClaimed ==
  ASSUME TypeInv, LeaseInv, NEW p \in Noticers, NEW q \in Noticers, NEW id \in Recoveries,
         Holds(q, id)
  PROVE  ~ClaimCondition(p, id)
<1> SUFFICES ASSUME ClaimCondition(p, id)
             PROVE  FALSE
  OBVIOUS
<1>1. notices[id].noticing = Never \/ notices[id].noticing - noticers[p].age > Retry
  BY DEF ClaimCondition, Stale
<1>2. notices[id].noticing = noticers[q].age
  BY DEF LeaseInv, Holder
<1>3. noticers[p].age \in 0..Timeout /\ noticers[q].age \in 0..Timeout
  BY DEF TypeInv, TypeOK, Noticer
<1> QED
  BY <1>1, <1>2, <1>3, BoundsTyped, LeaseAssumption, TimesAssumption

LEMMA LeaseInit == Init => LeaseInv
BY DEF Init, LeaseInv, OneNoticer, Holder, Holds, Idle, Working

(* A step of one noticer that leaves the notices alone, and holds nothing it *)
(* did not hold.                                                             *)
LEMMA LeaseMoves ==
  ASSUME TypeInv, LeaseInv, NEW p \in Noticers, NEW n \in Noticer,
         noticers' = [noticers EXCEPT ![p] = n],
         notices' = notices,
         n.pc \in Working =>
           noticers[p].pc \in Working /\ n.id = noticers[p].id /\ n.age = noticers[p].age
  PROVE  LeaseInv'
<1>1. noticers'[p] = n /\ \A q \in Noticers \ {p} : noticers'[q] = noticers[q]
  BY DEF TypeInv, TypeOK
<1>2. ASSUME NEW q \in Noticers, NEW id \in Recoveries, Holds(q, id)'
      PROVE  Holds(q, id) /\ noticers'[q].age = noticers[q].age
  BY <1>1, <1>2 DEF Holds
<1>3. OneNoticer'
  BY <1>2 DEF LeaseInv, OneNoticer
<1>4. ASSUME NEW q \in Noticers
      PROVE  Holder(q)'
  BY <1>2 DEF LeaseInv, Holder
<1> QED
  BY <1>3, <1>4 DEF LeaseInv

(* A noticer that goes on with what it holds, or with what nobody need hold. *)
LEMMA LeaseGoesOn ==
  ASSUME TypeInv, LeaseInv, NEW p \in Noticers,
         NEW pc \in {"claimed", "lost", "won", "audited", "mailed", "seen", "noted",
                     "giveup", "covered", "ended", "slot_seen"},
         GoTo(p, pc), notices' = notices,
         pc \in Working => noticers[p].pc \in Working
  PROVE  LeaseInv'
<1> DEFINE n == [noticers[p] EXCEPT !.pc = pc]
<1>1. n \in Noticer /\ n.pc = pc /\ n.id = noticers[p].id /\ n.age = noticers[p].age
  BY DEF TypeInv, TypeOK, Noticer
<1>2. noticers' = [noticers EXCEPT ![p] = n]
  BY DEF GoTo
<1> HIDE DEF n
<1> QED
  BY <1>1, <1>2, LeaseMoves

LEMMA LeaseNotice ==
  ASSUME TypeInv, LeaseInv, NoticeAppCancel
  PROVE  LeaseInv'
<1>1. PICK p \in Noticers :
        \/ \E id \in Recoveries, src \in {"slot", "row", "notice"} : Look(p, id, src)
        \/ ClaimNotice(p) \/ NothingToClaim(p)
        \/ CancelWins(p) \/ CancelLoses(p) \/ Reread(p)
        \/ AuditCancel(p) \/ MailCancel(p) \/ AuditSeen(p)
        \/ Record(p) \/ MarkSlot(p) \/ AuditSlotSeen(p) \/ Stop(p)
  BY DEF NoticeAppCancel
<1>2. TypeOK /\ noticers[p] \in Noticer
  BY DEF TypeInv, TypeOK
<1>3. CASE \/ NothingToClaim(p) \/ CancelWins(p) \/ CancelLoses(p) \/ Reread(p)
           \/ AuditCancel(p) \/ MailCancel(p) \/ AuditSeen(p)
  BY <1>3, LeaseGoesOn
     DEF NothingToClaim, CancelWins, CancelLoses, Reread, AuditCancel, MailCancel, AuditSeen,
         At, Working
<1>4. CASE \/ \E id \in Recoveries, src \in {"slot", "row", "notice"} : Look(p, id, src)
           \/ MarkSlot(p) \/ AuditSlotSeen(p) \/ Stop(p)
  <2>1. notices' = notices
    BY <1>4 DEF Look, MarkSlot, AuditSlotSeen, Stop
  <2>2. PICK n \in Noticer : n.pc \notin Working /\ noticers' = [noticers EXCEPT ![p] = n]
    <3>1. TypeInv'
      BY <1>1, TypeNotice DEF NoticeAppCancel
    <3>2. noticers'[p] \in Noticer /\ noticers' = [noticers EXCEPT ![p] = noticers'[p]]
      BY <1>2, <1>4, <3>1 DEF Look, MarkSlot, AuditSlotSeen, Stop, TypeInv, TypeOK
    <3>3. noticers'[p].pc \in {"start", "idle", "slot_seen"}
      BY <1>2, <1>4 DEF Look, MarkSlot, AuditSlotSeen, Stop, TypeOK, Noticer, Idle
    <3> QED
      BY <3>2, <3>3 DEF Working
  <2> QED
    BY <2>1, <2>2, LeaseMoves
<1>5. CASE ClaimNotice(p)
  <2> DEFINE id == noticers[p].id
  <2>1. id \in Recoveries /\ ClaimCondition(p, id) /\ ~notices[id].noticed
    BY <1>5 DEF ClaimNotice, ClaimCondition, TypeInv, Busy, At
  <2>2. \A q \in Noticers : ~Holds(q, id)
    BY <2>1, HeldNotClaimed
  <2>3. \A q \in Noticers \ {p} : noticers'[q] = noticers[q]
    BY <1>2, <1>5 DEF ClaimNotice, GoTo, TypeOK
  <2>4. noticers'[p].id = id /\ noticers'[p].age = noticers[p].age
    BY <1>2, <1>5 DEF ClaimNotice, GoTo, TypeOK, Noticer
  <2>5. \A i \in Recoveries \ {id} : notices'[i] = notices[i]
    BY <1>2, <1>5 DEF ClaimNotice, TypeOK
  <2>6. /\ notices'[id].exists /\ notices'[id].noticed = notices[id].noticed
        /\ notices'[id].noticing = noticers[p].age
    BY <1>2, <1>5, <2>1 DEF ClaimNotice, TypeOK, Notice
  <2>7. OneNoticer'
    BY <2>2, <2>3, <2>4 DEF LeaseInv, OneNoticer, Holds
  <2>8. Holder(p)'
    BY <2>1, <2>4, <2>6 DEF Holder, Holds
  <2>9. ASSUME NEW q \in Noticers \ {p}
        PROVE  Holder(q)'
    BY <2>2, <2>3, <2>5 DEF LeaseInv, Holder, Holds
  <2> QED
    BY <2>7, <2>8, <2>9 DEF LeaseInv
<1>6. CASE Record(p)
  <2> DEFINE id == noticers[p].id
  <2>1. id \in Recoveries /\ Holds(p, id)
    BY <1>6 DEF Record, Holds, Working, WorkDone, TypeInv, Busy, At
  <2>2. /\ noticers'[p].pc \notin Working
        /\ \A q \in Noticers \ {p} : noticers'[q] = noticers[q]
        /\ \A i \in Recoveries \ {id} : notices'[i] = notices[i]
    BY <1>2, <1>6 DEF Record, TypeOK, Noticer, Idle, Working
  <2>3. \A q \in Noticers \ {p} : ~Holds(q, id)
    BY <2>1 DEF LeaseInv, OneNoticer
  <2>4. OneNoticer'
    BY <2>2 DEF LeaseInv, OneNoticer, Holds
  <2>5. Holder(p)'
    BY <2>2 DEF Holder, Holds
  <2>6. ASSUME NEW q \in Noticers \ {p}
        PROVE  Holder(q)'
    BY <2>2, <2>3 DEF LeaseInv, Holder, Holds
  <2> QED
    BY <2>4, <2>5, <2>6 DEF LeaseInv
<1> QED
  BY <1>1, <1>3, <1>4, <1>5, <1>6

LEMMA LeaseTick ==
  ASSUME TypeInv, LeaseInv, Tick
  PROVE  LeaseInv'
<1>1. TypeOK
  BY DEF TypeInv
<1>2. ASSUME NEW p \in Noticers
      PROVE  /\ noticers'[p].id = noticers[p].id /\ noticers'[p].pc = noticers[p].pc
             /\ ~At(p, "idle") => noticers'[p].age = noticers[p].age + 1
             /\ ~At(p, "idle") => noticers[p].age < Timeout /\ noticers[p].age \in Nat
  <2>1. noticers[p] \in Noticer
    BY <1>1 DEF TypeOK
  <2> QED
    BY <2>1, TimesAssumption DEF Tick, At, Noticer
<1>3. \A p \in Noticers, id \in Recoveries : Holds(p, id)' <=> Holds(p, id)
  BY <1>2 DEF Holds
<1>4. OneNoticer'
  BY <1>3 DEF LeaseInv, OneNoticer
<1>5. ASSUME NEW p \in Noticers, NEW id \in Recoveries, Holds(p, id)
      PROVE  /\ notices'[id].exists /\ ~notices'[id].noticed
             /\ notices'[id].noticing = noticers'[p].age
  <2>1. /\ notices[id].exists /\ ~notices[id].noticed
        /\ notices[id].noticing = noticers[p].age
    BY <1>5 DEF LeaseInv, Holder
  <2>2. ~At(p, "idle")
    BY <1>5 DEF Holds, Working, At
  <2>3. noticers[p].age < OldAge /\ noticers[p].age \in Nat /\ noticers[p].age # Never
    BY <1>2, <2>2, BoundsTyped, TimesAssumption
  <2>4. Older(noticers[p].age, OldAge) = noticers[p].age + 1
    BY <2>3 DEF Older
  <2>5. notices[id] \in Notice
    BY <1>1 DEF TypeOK
  <2>6. /\ notices'[id].exists = notices[id].exists
        /\ notices'[id].noticed = notices[id].noticed
        /\ notices'[id].noticing = noticers[p].age + 1
    BY <2>1, <2>3, <2>4, <2>5 DEF Tick, Notice
  <2> QED
    BY <1>2, <2>1, <2>2, <2>6
<1>6. \A p \in Noticers : Holder(p)'
  BY <1>3, <1>5 DEF Holder
<1> QED
  BY <1>4, <1>6 DEF LeaseInv

LEMMA LeaseStep == TypeInv /\ LeaseInv /\ [Next]_vars => LeaseInv'
<1> SUFFICES ASSUME TypeInv, LeaseInv, [Next]_vars
             PROVE  LeaseInv'
  OBVIOUS
<1> USE DEF ghost
<1>1. TypeOK
  BY DEF TypeInv
<1>2. CASE UNCHANGED <<notices, noticers>>
  BY <1>2 DEF LeaseInv, OneNoticer, Holder, Holds
<1>3. CASE ExpiresAtMoves
  <2>1. ASSUME NEW p \in Noticers
        PROVE  /\ noticers'[p].id = noticers[p].id /\ noticers'[p].pc = noticers[p].pc
               /\ noticers'[p].age = noticers[p].age
    <3>1. noticers[p] \in Noticer
      BY <1>1 DEF TypeOK
    <3> QED
      BY <1>3, <3>1 DEF ExpiresAtMoves, Noticer
  <2>2. notices' = notices
    BY <1>3 DEF ExpiresAtMoves
  <2> QED
    BY <2>1, <2>2 DEF LeaseInv, OneNoticer, Holder, Holds
<1>4. ASSUME NEW id \in Recoveries, NoticeExpires(id)
      PROVE  LeaseInv'
  <2>1. /\ noticers' = noticers /\ \A p \in Noticers : ~Holds(p, id)
        /\ \A i \in Recoveries \ {id} : notices'[i] = notices[i]
    BY <1>1, <1>4 DEF NoticeExpires, Holds, TypeOK
  <2> QED
    BY <2>1 DEF LeaseInv, OneNoticer, Holder, Holds
<1>5. CASE OtherHandlers
  BY <1>2, <1>3, <1>5
     DEF OtherHandlers, CancelRecovery, RecoveryEnds, ExpiresAtPasses, Request
<1>6. CASE Environment
  BY <1>2, <1>4, <1>6, LeaseTick DEF Environment, HostMarksSlot, HostMarksRow
<1> QED
  BY <1>2, <1>5, <1>6, LeaseNotice DEF Next, vars

(* One invocation at a time follows up a recovery's cancel. *)
THEOREM OneNoticerHolds == Spec => []OneNoticer
<1>1. Spec => [](TypeInv /\ LeaseInv)
  BY TypeInit, LeaseInit, TypeStep, LeaseStep, PTL DEF Spec
<1>2. LeaseInv => OneNoticer
  BY DEF LeaseInv
<1> QED
  BY <1>1, <1>2, PTL

--------------------------------------------------------------------------------
(* Time and a later expires_at move nobody on, and no notice's outcome. *)
LEMMA QuietStep ==
  ASSUME TypeInv, ExpiresAtMoves \/ Tick
  PROVE  /\ \A p \in Noticers : /\ noticers'[p].id = noticers[p].id
                               /\ noticers'[p].pc = noticers[p].pc
                               /\ noticers'[p].live = noticers[p].live
         /\ \A id \in Recoveries : /\ notices'[id].exists = notices[id].exists
                                   /\ notices'[id].noticed = notices[id].noticed
                                   /\ notices'[id].failed = notices[id].failed
<1>1. TypeOK
  BY DEF TypeInv
<1>2. ASSUME NEW p \in Noticers
      PROVE  /\ noticers'[p].id = noticers[p].id /\ noticers'[p].pc = noticers[p].pc
             /\ noticers'[p].live = noticers[p].live
  <2>1. noticers[p] \in Noticer
    BY <1>1 DEF TypeOK
  <2>2. CASE ExpiresAtMoves
    BY <2>1, <2>2 DEF ExpiresAtMoves, Noticer
  <2>3. CASE Tick
    BY <2>1, <2>3 DEF Tick, Noticer
  <2> QED
    BY <2>2, <2>3
<1>3. ASSUME NEW id \in Recoveries
      PROVE  /\ notices'[id].exists = notices[id].exists
             /\ notices'[id].noticed = notices[id].noticed
             /\ notices'[id].failed = notices[id].failed
  <2>1. notices[id] \in Notice
    BY <1>1 DEF TypeOK
  <2>2. CASE ExpiresAtMoves
    BY <2>2 DEF ExpiresAtMoves
  <2>3. CASE Tick
    BY <2>1, <2>3 DEF Tick, Notice
  <2> QED
    BY <2>2, <2>3
<1> QED
  BY <1>2, <1>3

(* Who is at work, and on what: a step of the noticers is a step of one, which *)
(* takes up a recovery it finds by a mark or a notice, or goes on with its own. *)

Takes(p, id) == \E src \in {"slot", "row", "notice"} : Look(p, id, src)

LEMMA NoticerStep ==
  ASSUME TypeInv, NEW p \in Noticers,
         \/ \E id \in Recoveries, src \in {"slot", "row", "notice"} : Look(p, id, src)
         \/ ClaimNotice(p) \/ NothingToClaim(p)
         \/ CancelWins(p) \/ CancelLoses(p) \/ Reread(p)
         \/ AuditCancel(p) \/ MailCancel(p) \/ AuditSeen(p)
         \/ Record(p) \/ MarkSlot(p) \/ AuditSlotSeen(p) \/ Stop(p)
  PROVE  /\ \A q \in Noticers \ {p} : noticers'[q] = noticers[q]
         /\ \/ \E id \in Recoveries : Takes(p, id) /\ noticers'[p].id = id
                                      /\ noticers'[p].pc = "start"
                                      /\ noticers'[p].live = Cancellable(id)
            \/ noticers'[p] = Idle
            \/ /\ ~At(p, "idle") /\ noticers'[p].id = noticers[p].id
               /\ noticers'[p].live = noticers[p].live
<1>1. noticers \in [Noticers -> Noticer] /\ noticers[p] \in Noticer
  BY DEF TypeInv, TypeOK
<1>2. ASSUME NEW id \in Recoveries, NEW src \in {"slot", "row", "notice"}, Look(p, id, src)
      PROVE  /\ \A q \in Noticers \ {p} : noticers'[q] = noticers[q]
             /\ Takes(p, id) /\ noticers'[p].id = id /\ noticers'[p].pc = "start"
             /\ noticers'[p].live = Cancellable(id)
  <2> DEFINE live  == Cancellable(id)
             app   == Is(id, "cancelled_app")
             early == recovery.state # "lapsed"
  <2>1. noticers' = [noticers EXCEPT ![p] =
          [pc |-> "start", id |-> id, src |-> src, live |-> live, app |-> app,
           early |-> early, age |-> 0]]
    BY <1>2 DEF Look
  <2>2. Takes(p, id)
    BY <1>2 DEF Takes
  <2> HIDE DEF live, app, early
  <2>3. /\ \A q \in Noticers \ {p} : noticers'[q] = noticers[q]
        /\ noticers'[p].id = id /\ noticers'[p].pc = "start" /\ noticers'[p].live = live
    BY <1>1, <2>1
  <2> QED
    BY <2>2, <2>3 DEF live
<1>3. ASSUME NEW pc, GoTo(p, pc)
      PROVE  /\ \A q \in Noticers \ {p} : noticers'[q] = noticers[q]
             /\ noticers'[p].id = noticers[p].id /\ noticers'[p].live = noticers[p].live
  BY <1>1, <1>3 DEF GoTo, Noticer
<1>4. CASE \/ ClaimNotice(p) \/ NothingToClaim(p) \/ CancelWins(p) \/ CancelLoses(p)
           \/ Reread(p) \/ AuditCancel(p) \/ MailCancel(p) \/ AuditSeen(p)
  <2>1. ~At(p, "idle") /\ \E pc : GoTo(p, pc)
    BY <1>4 DEF ClaimNotice, NothingToClaim, CancelWins, CancelLoses, Reread, AuditCancel,
                MailCancel, AuditSeen, At
  <2> QED
    BY <1>3, <2>1
<1>5. CASE Record(p) \/ MarkSlot(p) \/ AuditSlotSeen(p) \/ Stop(p)
  <2>1. ~At(p, "idle")
    BY <1>5 DEF Record, MarkSlot, AuditSlotSeen, Stop, At, WorkDone
  <2>2. \E pc : \/ noticers' = [noticers EXCEPT ![p] = Idle]
                \/ noticers' = [noticers EXCEPT ![p] = [@ EXCEPT !.pc = pc]]
    BY <1>5 DEF Record, MarkSlot, AuditSlotSeen, Stop
  <2> QED
    BY <1>1, <2>1, <2>2 DEF Noticer
<1> QED
  BY <1>2, <1>4, <1>5

--------------------------------------------------------------------------------
(* Every mark, notice and noticer is of a recovery the host has named.  The   *)
(* row's mark outlives its recovery, but names no other.                      *)

Named(id) ==
  /\ rowMark = id => id \in named
  /\ slotMarks[id] # "none" => id \in named
  /\ notices[id].exists => id \in named
  /\ how[id] = "app" => id \in named
  /\ \A p \in Noticers : noticers[p].id = id => id \in named
  /\ id \in named => how[id] # "unrequested"

NamedInv == \A id \in Recoveries : Named(id)

LEMMA NamedInit == Init => NamedInv
<1> SUFFICES ASSUME Init, NEW i \in Recoveries
             PROVE  Named(i)
  BY DEF NamedInv
<1>1. rowMark # i /\ \A p \in Noticers : noticers[p].id # i
  BY NoneAssumption DEF Init, Idle
<1>2. slotMarks[i] = "none" /\ ~notices[i].exists /\ how[i] = "unrequested" /\ named = {}
  BY DEF Init, NoNotice
<1> QED
  BY <1>1, <1>2 DEF Named

LEMMA NamedNotice ==
  ASSUME TypeInv, NamedInv, NoticeAppCancel
  PROVE  NamedInv'
<1> USE DEF ghost
<1>1. PICK p \in Noticers :
        \/ \E id \in Recoveries, src \in {"slot", "row", "notice"} : Look(p, id, src)
        \/ ClaimNotice(p) \/ NothingToClaim(p)
        \/ CancelWins(p) \/ CancelLoses(p) \/ Reread(p)
        \/ AuditCancel(p) \/ MailCancel(p) \/ AuditSeen(p)
        \/ Record(p) \/ MarkSlot(p) \/ AuditSlotSeen(p) \/ Stop(p)
  BY DEF NoticeAppCancel
<1>2. TypeOK /\ noticers[p] \in Noticer
  BY DEF TypeInv, TypeOK
<1>3. named' = named /\ rowMark' = rowMark
  BY <1>1 DEF Look, ClaimNotice, NothingToClaim, CancelWins, CancelLoses, Reread,
     AuditCancel, MailCancel, AuditSeen, Record, MarkSlot, AuditSlotSeen, Stop
<1>4. ~At(p, "idle") => noticers[p].id \in named
  BY DEF TypeInv, Busy, NamedInv, Named
<1>5. ASSUME NEW q \in Noticers, NEW id \in Recoveries, noticers'[q].id = id
      PROVE  id \in named
  <2>1. \A i \in Recoveries : Takes(p, i) => i \in named
    BY DEF Takes, Look, Source, RowNames, NamedInv, Named
  <2>2. noticers[q].id = id => id \in named
    BY DEF NamedInv, Named
  <2>3. Idle.id # id
    BY NoneAssumption DEF Idle
  <2> QED
    BY <1>1, <1>4, <1>5, <2>1, <2>2, <2>3, NoticerStep
<1>6. ASSUME NEW id \in Recoveries
      PROVE  /\ slotMarks'[id] = "none" <=> slotMarks[id] = "none"
             /\ notices'[id].exists => notices[id].exists \/ id = noticers[p].id
  <2>1. CASE slotMarks' = slotMarks /\ notices' = notices
    BY <2>1
  <2>2. CASE ClaimNotice(p)
    BY <1>2, <2>2 DEF ClaimNotice, TypeOK
  <2>3. CASE Record(p)
    <3>1. notices[id] \in Notice /\ notices \in [Recoveries -> Notice]
      BY <1>2 DEF TypeOK
    <3> QED
      BY <2>3, <3>1 DEF Record, Notice
  <2>4. CASE MarkSlot(p)
    BY <1>2, <2>4 DEF MarkSlot, TypeOK
  <2> QED
    BY <1>1, <2>1, <2>2, <2>3, <2>4
       DEF Look, NothingToClaim, CancelWins, CancelLoses, Reread,
           AuditCancel, MailCancel, AuditSeen, AuditSlotSeen, Stop
<1>7. ASSUME NEW id \in Recoveries
      PROVE  /\ how'[id] = "app" => how[id] = "app" \/ (id = noticers[p].id /\ ~At(p, "idle"))
             /\ how[id] # "unrequested" => how'[id] # "unrequested"
  <2>1. CASE how' = how
    BY <2>1
  <2>2. CASE CancelWins(p)
    BY <1>2, <2>2 DEF CancelWins, FirstEnd, TypeOK, At
  <2> QED
    BY <1>1, <2>1, <2>2
       DEF Look, ClaimNotice, NothingToClaim, CancelLoses, Reread, Record, MarkSlot,
           AuditCancel, MailCancel, AuditSeen, AuditSlotSeen, Stop
<1>8. \A id \in Recoveries : id = noticers[p].id => id \in named
  BY DEF NamedInv, Named
<1> QED
  BY <1>3, <1>4, <1>5, <1>6, <1>7, <1>8 DEF NamedInv, Named

LEMMA NamedStep == TypeInv /\ NamedInv /\ [Next]_vars => NamedInv'
<1> SUFFICES ASSUME TypeInv, NamedInv, [Next]_vars
             PROVE  NamedInv'
  OBVIOUS
<1> USE DEF ghost
<1>1. TypeOK
  BY DEF TypeInv
<1>2. CASE UNCHANGED <<rowMark, slotMarks, notices, noticers, named, how>>
  BY <1>2 DEF NamedInv, Named
<1>3. CASE CancelRecovery \/ RecoveryEnds
  BY <1>1, <1>3 DEF CancelRecovery, RecoveryEnds, FirstEnd, NamedInv, Named, TypeOK
<1>4. ASSUME NEW id \in Recoveries, Request(id)
      PROVE  NamedInv'
  BY <1>1, <1>4 DEF Request, NamedInv, Named, TypeOK
<1>5. CASE ExpiresAtMoves \/ Tick
  BY <1>5, QuietStep DEF ExpiresAtMoves, Tick, NamedInv, Named
<1>6. ASSUME NEW id \in Recoveries, HostMarksSlot(id) \/ HostMarksRow(id)
      PROVE  NamedInv'
  BY <1>1, <1>6 DEF HostMarksSlot, HostMarksRow, NamedInv, Named, TypeOK
<1>7. ASSUME NEW id \in Recoveries, NoticeExpires(id)
      PROVE  NamedInv'
  BY <1>1, <1>7 DEF NoticeExpires, NoNotice, NamedInv, Named, TypeOK
<1> QED
  BY <1>2, <1>3, <1>4, <1>5, <1>6, <1>7, NamedNotice
     DEF Next, vars, OtherHandlers, Environment, ExpiresAtPasses

(* Only a recovery the vault itself has cancelled is cancelled from the phone. *)
THEOREM OnlyNamedHolds == Spec => []OnlyNamed
<1>1. Spec => [](TypeInv /\ NamedInv)
  BY TypeInit, NamedInit, TypeStep, NamedStep, PTL DEF Spec
<1>2. NamedInv => OnlyNamed
  BY DEF NamedInv, Named, OnlyNamed
<1> QED
  BY <1>1, <1>2, PTL

--------------------------------------------------------------------------------
(* How the recovery stands in the row, and what ended each recovery first.   *)

Standing ==
  /\ recovery.id = None <=> recovery.state = "none"
  /\ recovery.state \in {"live", "lapsed"} => how[recovery.id] = "none"
  /\ recovery.id \in Recoveries => how[recovery.id] # "unrequested"
  /\ \A id \in Recoveries :
       recovery.id = id /\ how[id] = "app" => recovery.state = "cancelled_app"
  /\ recovery.state = "cancelled_app" => how[recovery.id] = "app"

(* What is reported of a recovery as a cancel from the phone was that. *)
Reported ==
  /\ OneCancel
  /\ \A p \in Noticers : noticers[p].pc \in {"won", "audited", "mailed"} =>
       how[noticers[p].id] = "app"
  /\ \A id \in Recoveries : mails[id] > 0 => how[id] = "app"

StandInv == Standing /\ Reported

LEMMA StandInit == Init => StandInv
<1> SUFFICES ASSUME Init
             PROVE  StandInv
  OBVIOUS
<1>1. recovery.id = None /\ recovery.state = "none" /\ None \notin Recoveries
  BY NoneAssumption DEF Init
<1>2. \A p \in Noticers : noticers[p].pc = "idle"
  BY DEF Init, Idle
<1>3. audited = {} /\ how = [i \in Recoveries |-> "unrequested"] /\ mails = [i \in Recoveries |-> 0]
  BY DEF Init
<1>4. ASSUME NEW i \in Recoveries
      PROVE  ~(mails[i] > 0)
  <2>1. mails[i] = 0
    BY <1>3
  <2> QED
    BY <2>1
<1> QED
  BY <1>1, <1>2, <1>3, <1>4 DEF StandInv, Standing, Reported, OneCancel

(* What the phone's cancel ended stays ended by it. *)
LEMMA AppStays ==
  ASSUME TypeInv, [Next]_vars, NEW i \in Recoveries, how[i] = "app"
  PROVE  how'[i] = "app"
<1> USE DEF ghost
<1>1. how \in [Recoveries -> {"unrequested", "none", "app", "other", "ended"}]
  BY DEF TypeInv, TypeOK
<1>2. CASE how' = how
  BY <1>2
<1>3. ASSUME NEW id, NEW end, FirstEnd(id, end)
      PROVE  how'[i] = "app"
  BY <1>1, <1>3 DEF FirstEnd
<1>4. ASSUME NEW id \in Recoveries, Request(id)
      PROVE  how'[i] = "app"
  BY <1>1, <1>4 DEF Request
<1>5. CASE NoticeAppCancel
  <2>1. PICK p \in Noticers :
        \/ \E id \in Recoveries, src \in {"slot", "row", "notice"} : Look(p, id, src)
        \/ ClaimNotice(p) \/ NothingToClaim(p)
        \/ CancelWins(p) \/ CancelLoses(p) \/ Reread(p)
        \/ AuditCancel(p) \/ MailCancel(p) \/ AuditSeen(p)
        \/ Record(p) \/ MarkSlot(p) \/ AuditSlotSeen(p) \/ Stop(p)
    BY <1>5 DEF NoticeAppCancel
  <2> QED
    BY <1>2, <1>3, <2>1
       DEF Look, ClaimNotice, NothingToClaim, CancelWins, CancelLoses, Reread, AuditCancel,
           MailCancel, AuditSeen, Record, MarkSlot, AuditSlotSeen, Stop
<1>6. CASE OtherHandlers
  BY <1>2, <1>3, <1>4, <1>6
     DEF OtherHandlers, CancelRecovery, RecoveryEnds, ExpiresAtPasses, ExpiresAtMoves
<1>7. CASE Environment
  BY <1>2, <1>7 DEF Environment, Tick, HostMarksSlot, HostMarksRow, NoticeExpires
<1> QED
  BY <1>2, <1>5, <1>6, <1>7 DEF Next, vars

(* The first end of the recovery in the row, when nothing had ended it. *)
LEMMA FirstEnds ==
  ASSUME TypeInv, Standing, NEW state \in {"cancelled_app", "cancelled_other", "ended"},
         NEW end \in {"app", "other", "ended"},
         recovery.state \in {"live", "lapsed"},
         recovery' = [recovery EXCEPT !.state = state],
         FirstEnd(recovery.id, end),
         state = "cancelled_app" <=> end = "app"
  PROVE  Standing'
<1>1. recovery \in [id : Recoveries \cup {None}, state : States] /\ recovery.id # None
  BY DEF TypeInv, TypeOK, Standing
<1>2. recovery'.id = recovery.id /\ recovery'.state = state /\ recovery.id \in Recoveries
  BY <1>1
<1>3. how[recovery.id] = "none"
  BY DEF Standing
<1>4. how' = [how EXCEPT ![recovery.id] = end]
  BY <1>3 DEF FirstEnd, TypeInv, TypeOK
<1>5. how'[recovery.id] = end
  BY <1>2, <1>4 DEF TypeInv, TypeOK
<1> QED
  BY <1>1, <1>2, <1>5 DEF Standing

LEMMA StandingStep == TypeInv /\ Standing /\ [Next]_vars => Standing'
<1> SUFFICES ASSUME TypeInv, Standing, [Next]_vars
             PROVE  Standing'
  OBVIOUS
<1> USE DEF ghost
<1>1. TypeOK
  BY DEF TypeInv
<1>2. CASE UNCHANGED <<recovery, how>>
  BY <1>2 DEF Standing
<1>3. CASE CancelRecovery \/ RecoveryEnds
  BY <1>3, FirstEnds DEF CancelRecovery, RecoveryEnds
<1>4. ASSUME NEW p \in Noticers, CancelWins(p)
      PROVE  Standing'
  <2>1. /\ noticers[p].id = recovery.id /\ recovery.state \in {"live", "lapsed"}
        /\ recovery' = [recovery EXCEPT !.state = "cancelled_app"]
        /\ FirstEnd(recovery.id, "app")
    BY <1>4 DEF CancelWins, CancelCondition, Is
  <2> QED
    BY <2>1, FirstEnds
<1>5. CASE ExpiresAtPasses \/ ExpiresAtMoves
  <2>1. /\ recovery.state \in {"live", "lapsed"} /\ recovery'.state \in {"live", "lapsed"}
        /\ recovery'.id = recovery.id /\ how' = how
    BY <1>1, <1>5 DEF ExpiresAtPasses, ExpiresAtMoves, TypeOK
  <2> QED
    BY <2>1 DEF Standing
<1>6. ASSUME NEW i \in Recoveries, Request(i)
      PROVE  Standing'
  <2>1. recovery'.id = i /\ recovery'.state = "live" /\ i # None
    BY <1>6, NoneAssumption DEF Request
  <2>2. how'[i] = "none"
    BY <1>1, <1>6 DEF Request, TypeOK
  <2> QED
    BY <2>1, <2>2 DEF Standing
<1>7. CASE NoticeAppCancel
  BY <1>2, <1>4, <1>7
     DEF NoticeAppCancel, Look, ClaimNotice, NothingToClaim, CancelLoses, Reread,
         AuditCancel, MailCancel, AuditSeen, Record, MarkSlot, AuditSlotSeen, Stop
<1>8. CASE OtherHandlers
  BY <1>3, <1>5, <1>6, <1>8 DEF OtherHandlers
<1>9. CASE Environment
  BY <1>2, <1>9 DEF Environment, Tick, HostMarksSlot, HostMarksRow, NoticeExpires
<1> QED
  BY <1>2, <1>7, <1>8, <1>9 DEF Next, vars

LEMMA ReportedStep == TypeInv /\ StandInv /\ [Next]_vars => Reported'
<1> SUFFICES ASSUME TypeInv, StandInv, [Next]_vars
             PROVE  Reported'
  OBVIOUS
<1> USE DEF ghost
<1>1. TypeOK /\ Standing /\ Reported
  BY DEF TypeInv, StandInv
<1> DEFINE Shown(p) == noticers[p].pc \in {"won", "audited", "mailed"}
<1>2. ASSUME \A i \in audited' \ audited : how[i] = "app",
             \A p \in Noticers : Shown(p)' =>
               \/ how'[noticers'[p].id] = "app" /\ noticers'[p].id \in Recoveries
               \/ Shown(p) /\ noticers'[p].id = noticers[p].id /\ ~At(p, "idle"),
             \A i \in Recoveries : mails'[i] > mails[i] => how[i] = "app"
      PROVE  Reported'
  <2>1. \A i \in Recoveries : how[i] = "app" => how'[i] = "app"
    BY AppStays
  <2>2. audited' \subseteq Recoveries /\ TypeOK'
    BY TypeStep DEF TypeInv, TypeOK
  <2>3. OneCancel'
    BY <1>1, <1>2, <2>1, <2>2 DEF Reported, OneCancel
  <2>4. \A p \in Noticers : Shown(p)' => how'[noticers'[p].id] = "app"
    <3>1. ASSUME NEW p \in Noticers, Shown(p), noticers'[p].id = noticers[p].id, ~At(p, "idle")
          PROVE  how'[noticers'[p].id] = "app"
      <4>1. how[noticers[p].id] = "app" /\ noticers[p].id \in Recoveries
        BY <1>1, <3>1 DEF Reported, TypeInv, Busy
      <4> QED
        BY <2>1, <3>1, <4>1
    <3> QED
      BY <1>2, <3>1
  <2>5. ASSUME NEW i \in Recoveries, mails'[i] > 0
        PROVE  how'[i] = "app"
    <3>1. mails[i] \in Nat /\ mails'[i] \in Nat
      BY <1>1, <2>2 DEF TypeOK
    <3>2. mails'[i] > mails[i] \/ mails[i] > 0
      BY <2>5, <3>1
    <3> QED
      BY <1>1, <1>2, <2>1, <3>2 DEF Reported
  <2> QED
    BY <2>3, <2>4, <2>5 DEF Reported
<1> HIDE DEF Shown
<1>3. CASE audited' = audited /\ mails' = mails /\ noticers' = noticers
  <2>1. \A p \in Noticers : Shown(p)' => Shown(p) /\ ~At(p, "idle")
    BY <1>3 DEF Shown, At
  <2>2. \A i \in Recoveries : mails'[i] > mails[i] => how[i] = "app"
    BY <1>1, <1>3 DEF TypeOK
  <2> QED
    BY <1>2, <1>3, <2>1, <2>2
<1>4. CASE ExpiresAtMoves \/ Tick
  <2>1. \A p \in Noticers : /\ noticers'[p].id = noticers[p].id
                            /\ noticers'[p].pc = noticers[p].pc
    BY <1>4, QuietStep
  <2>2. \A p \in Noticers : Shown(p)' => Shown(p) /\ ~At(p, "idle")
    BY <2>1 DEF Shown, At
  <2>3. audited' = audited /\ \A i \in Recoveries : mails'[i] > mails[i] => how[i] = "app"
    BY <1>1, <1>4 DEF ExpiresAtMoves, Tick, TypeOK
  <2> QED
    BY <1>2, <2>1, <2>2, <2>3
<1>5. CASE NoticeAppCancel
  <2>1. PICK p \in Noticers :
        \/ \E id \in Recoveries, src \in {"slot", "row", "notice"} : Look(p, id, src)
        \/ ClaimNotice(p) \/ NothingToClaim(p)
        \/ CancelWins(p) \/ CancelLoses(p) \/ Reread(p)
        \/ AuditCancel(p) \/ MailCancel(p) \/ AuditSeen(p)
        \/ Record(p) \/ MarkSlot(p) \/ AuditSlotSeen(p) \/ Stop(p)
    BY <1>5 DEF NoticeAppCancel
  <2>2. noticers[p] \in Noticer /\ (~At(p, "idle") => noticers[p].id \in Recoveries)
    BY <1>1 DEF TypeOK, TypeInv, Busy
  <2>3. \A q \in Noticers \ {p} : noticers'[q] = noticers[q]
    BY <2>1, NoticerStep
  <2>4. \A q \in Noticers \ {p} :
          Shown(q)' => Shown(q) /\ noticers'[q].id = noticers[q].id /\ ~At(q, "idle")
    BY <2>3 DEF Shown, At
  <2>5. \A i \in audited' \ audited : how[i] = "app"
    <3>1. CASE AuditCancel(p)
      BY <1>1, <3>1 DEF AuditCancel, At, Reported
    <3>2. CASE ~AuditCancel(p)
      BY <2>1, <3>2
         DEF Look, ClaimNotice, NothingToClaim, CancelWins, CancelLoses, Reread, MailCancel,
             AuditSeen, Record, MarkSlot, AuditSlotSeen, Stop
    <3> QED
      BY <3>1, <3>2
  <2>6. ASSUME NEW i \in Recoveries, mails'[i] > mails[i]
        PROVE  how[i] = "app"
    <3>1. mails \in [Recoveries -> Nat]
      BY <1>1 DEF TypeOK
    <3>2. CASE MailCancel(p)
      <4>1. i = noticers[p].id
        BY <2>6, <3>1, <3>2 DEF MailCancel
      <4> QED
        BY <1>1, <3>2, <4>1 DEF MailCancel, At, Reported
    <3>3. CASE mails' = mails
      BY <2>6, <3>1, <3>3
    <3> QED
      BY <2>1, <3>2, <3>3
         DEF Look, ClaimNotice, NothingToClaim, CancelWins, CancelLoses, Reread,
             AuditCancel, AuditSeen, Record, MarkSlot, AuditSlotSeen, Stop
  <2>7. Shown(p)' =>
          \/ how'[noticers'[p].id] = "app" /\ noticers'[p].id \in Recoveries
          \/ Shown(p) /\ noticers'[p].id = noticers[p].id /\ ~At(p, "idle")
    <3>1. noticers \in [Noticers -> Noticer]
      BY <1>1 DEF TypeOK
    <3>2. CASE AuditCancel(p) \/ MailCancel(p)
      BY <3>1, <3>2 DEF AuditCancel, MailCancel, GoTo, At, Shown, Noticer
    <3>3. CASE CancelWins(p)
      <4>1. /\ noticers[p].id = recovery.id /\ recovery.state \in {"live", "lapsed"}
            /\ FirstEnd(noticers[p].id, "app") /\ GoTo(p, "won") /\ ~At(p, "idle")
        BY <3>3 DEF CancelWins, CancelCondition, Is, At
      <4>2. how[recovery.id] = "none"
        BY <1>1, <4>1 DEF Standing
      <4>3. how'[noticers[p].id] = "app" /\ noticers[p].id \in Recoveries
        BY <1>1, <2>2, <4>1, <4>2 DEF FirstEnd, TypeOK
      <4>4. noticers'[p].id = noticers[p].id
        BY <3>1, <4>1 DEF GoTo, Noticer
      <4> QED
        BY <4>3, <4>4
    <3>4. CASE Reread(p)
      <4>1. noticers'[p].id = noticers[p].id /\ noticers[p].id \in Recoveries
        BY <2>2, <3>1, <3>4 DEF Reread, GoTo, Noticer, At
      <4>2. Shown(p)' => Is(noticers[p].id, "cancelled_app")
        BY <3>1, <3>4 DEF Reread, GoTo, Noticer, Shown
      <4>3. Is(noticers[p].id, "cancelled_app") => how[noticers[p].id] = "app"
        BY <1>1 DEF Is, Standing
      <4>4. how' = how
        BY <3>4 DEF Reread
      <4> QED
        BY <4>1, <4>2, <4>3, <4>4
    <3>5. CASE \/ \E id \in Recoveries, src \in {"slot", "row", "notice"} : Look(p, id, src)
               \/ ClaimNotice(p) \/ NothingToClaim(p) \/ CancelLoses(p) \/ AuditSeen(p)
               \/ Record(p) \/ MarkSlot(p) \/ AuditSlotSeen(p) \/ Stop(p)
      <4>1. ~Shown(p)'
        BY <3>1, <3>5
           DEF Look, ClaimNotice, NothingToClaim, CancelLoses, AuditSeen, Record, MarkSlot,
               AuditSlotSeen, Stop, GoTo, Shown, Noticer, Idle
      <4> QED
        BY <4>1
    <3> QED
      BY <2>1, <3>2, <3>3, <3>4, <3>5
  <2> QED
    BY <1>2, <2>4, <2>5, <2>6, <2>7
<1>6. CASE OtherHandlers
  BY <1>3, <1>4, <1>6 DEF OtherHandlers, CancelRecovery, RecoveryEnds, ExpiresAtPasses, Request
<1>7. CASE Environment
  BY <1>3, <1>4, <1>7 DEF Environment, HostMarksSlot, HostMarksRow, NoticeExpires
<1> QED
  BY <1>3, <1>5, <1>6, <1>7 DEF Next, vars

LEMMA StandStep == TypeInv /\ StandInv /\ [Next]_vars => StandInv'
BY StandingStep, ReportedStep DEF StandInv

(* A recovery is reported as cancelled from the phone only when nothing else *)
(* had ended it.                                                             *)
THEOREM OneCancelHolds == Spec => []OneCancel
<1>1. Spec => [](TypeInv /\ StandInv)
  BY TypeInit, StandInit, TypeStep, StandStep, PTL DEF Spec
<1>2. StandInv => OneCancel
  BY DEF StandInv, Reported
<1> QED
  BY <1>1, <1>2, PTL

--------------------------------------------------------------------------------
(* The emails.  One more was sent than notices stopped unrecorded only while  *)
(* its sender holds the notice, once the notice is recorded, or once it has   *)
(* expired and nobody is left who could claim it anew.                        *)

Covered(id) ==
  \/ notices[id].noticed
  \/ ~notices[id].exists /\ \A p \in Noticers : noticers[p].id = id => ~noticers[p].live

Mailer(p, id) == Holds(p, id) /\ At(p, "mailed")

Mailed(id) ==
  /\ mails[id] <= 1 + unrecorded[id]
  /\ mails[id] = 1 + unrecorded[id] => Covered(id) \/ \E p \in Noticers : Mailer(p, id)

MailInv == \A id \in Recoveries : Mailed(id)

LEMMA MailInit == Init => MailInv
<1> SUFFICES ASSUME Init, NEW i \in Recoveries
             PROVE  Mailed(i)
  BY DEF MailInv
<1>1. mails[i] = 0 /\ unrecorded[i] = 0
  BY DEF Init
<1> QED
  BY <1>1 DEF Mailed

(* A step that sends no email of a recovery, and leaves a cover of it. *)
LEMMA MailedKept ==
  ASSUME NEW i \in Recoveries, Mailed(i),
         mails'[i] = mails[i], unrecorded'[i] = unrecorded[i],
         mails[i] = 1 + unrecorded[i] /\ (Covered(i) \/ \E p \in Noticers : Mailer(p, i)) =>
           (Covered(i) \/ \E p \in Noticers : Mailer(p, i))'
  PROVE  Mailed(i)'
BY DEF Mailed

(* A step of one noticer, not the mailer, that leaves the notice and mails alone *)
(* and takes up the recovery only if it is over.                                 *)
LEMMA MailedMoves ==
  ASSUME TypeInv, NEW i \in Recoveries, Mailed(i), NEW p \in Noticers, ~At(p, "mailed"),
         \A q \in Noticers \ {p} : noticers'[q] = noticers[q],
         \/ noticers'[p].id # i
         \/ ~noticers'[p].live /\ mails[i] = 1 + unrecorded[i]
         \/ mails[i] # 1 + unrecorded[i]
         \/ noticers'[p].id = noticers[p].id /\ noticers'[p].live = noticers[p].live,
         notices'[i].noticed = notices[i].noticed, notices'[i].exists = notices[i].exists,
         mails'[i] = mails[i], unrecorded'[i] = unrecorded[i]
  PROVE  Mailed(i)'
<1>1. CASE mails[i] # 1 + unrecorded[i]
  BY <1>1, MailedKept
<1>2. CASE mails[i] = 1 + unrecorded[i]
  <2>1. Covered(i) => Covered(i)'
    <3>1. \A q \in Noticers : noticers'[q].id = i =>
            \/ ~noticers'[q].live
            \/ noticers'[q] = noticers[q]
            \/ noticers'[q].id = noticers[q].id /\ noticers'[q].live = noticers[q].live
      BY <1>2
    <3>2. notices[i].noticed => Covered(i)'
      BY DEF Covered
    <3>3. ASSUME ~notices[i].exists,
                 \A q \in Noticers : noticers[q].id = i => ~noticers[q].live
          PROVE  Covered(i)'
      <4>1. ~notices'[i].exists /\ \A q \in Noticers : noticers'[q].id = i => ~noticers'[q].live
        BY <3>1, <3>3
      <4> QED
        BY <4>1 DEF Covered
    <3> QED
      BY <3>2, <3>3 DEF Covered
  <2>2. \A q \in Noticers : Mailer(q, i) => Mailer(q, i)'
    BY DEF Mailer, Holds, At
  <2> QED
    BY <2>1, <2>2, MailedKept
<1> QED
  BY <1>1, <1>2

LEMMA MailedNotice ==
  ASSUME TypeInv, LeaseInv, StandInv, NEW i \in Recoveries, Mailed(i), NoticeAppCancel
  PROVE  Mailed(i)'
<1> USE DEF ghost
<1>1. PICK p \in Noticers :
        \/ \E id \in Recoveries, src \in {"slot", "row", "notice"} : Look(p, id, src)
        \/ ClaimNotice(p) \/ NothingToClaim(p)
        \/ CancelWins(p) \/ CancelLoses(p) \/ Reread(p)
        \/ AuditCancel(p) \/ MailCancel(p) \/ AuditSeen(p)
        \/ Record(p) \/ MarkSlot(p) \/ AuditSlotSeen(p) \/ Stop(p)
  BY DEF NoticeAppCancel
<1>2. /\ noticers[p] \in Noticer /\ TypeOK
      /\ mails[i] \in Nat /\ unrecorded[i] \in Nat
  BY DEF TypeInv, TypeOK
<1>3. /\ \A q \in Noticers \ {p} : noticers'[q] = noticers[q]
      /\ \/ \E id \in Recoveries : Takes(p, id) /\ noticers'[p].id = id
                                   /\ noticers'[p].pc = "start"
                                   /\ noticers'[p].live = Cancellable(id)
         \/ noticers'[p] = Idle
         \/ /\ ~At(p, "idle") /\ noticers'[p].id = noticers[p].id
            /\ noticers'[p].live = noticers[p].live
  BY <1>1, NoticerStep
(* Whoever takes up the recovery after its email finds it over. *)
<1>4. \/ noticers'[p].id # i
      \/ ~noticers'[p].live /\ mails[i] = 1 + unrecorded[i]
      \/ mails[i] # 1 + unrecorded[i]
      \/ noticers'[p].id = noticers[p].id /\ noticers'[p].live = noticers[p].live
  <2>1. mails[i] = 1 + unrecorded[i] => ~Cancellable(i)
    BY <1>2 DEF StandInv, Standing, Reported, Cancellable, Is
  <2>2. Idle.id # i
    BY NoneAssumption DEF Idle
  <2> QED
    BY <1>3, <2>1, <2>2
<1>5. ASSUME ~At(p, "mailed"), UNCHANGED <<notices, mails, unrecorded>>
      PROVE  Mailed(i)'
  BY <1>3, <1>4, <1>5, MailedMoves
<1>6. CASE \/ \E id \in Recoveries, src \in {"slot", "row", "notice"} : Look(p, id, src)
           \/ NothingToClaim(p) \/ CancelWins(p) \/ CancelLoses(p) \/ Reread(p)
           \/ AuditCancel(p) \/ AuditSeen(p) \/ MarkSlot(p) \/ AuditSlotSeen(p)
  BY <1>5, <1>6 DEF Look, NothingToClaim, CancelWins, CancelLoses, Reread, AuditCancel,
                    AuditSeen, MarkSlot, AuditSlotSeen, At
<1>7. CASE ClaimNotice(p)
  <2>1. ~At(p, "mailed") /\ mails' = mails /\ unrecorded' = unrecorded
    BY <1>7 DEF ClaimNotice, At
  <2>2. CASE noticers[p].id # i
    <3>1. notices'[i] = notices[i]
      BY <1>2, <1>7, <2>2 DEF ClaimNotice, TypeOK
    <3> QED
      BY <1>3, <1>4, <2>1, <3>1, MailedMoves
  <2>3. CASE noticers[p].id = i
    <3>1. ClaimCondition(p, i)
      BY <1>7, <2>3 DEF ClaimNotice
    <3>2. ~Covered(i)
      BY <2>3, <3>1 DEF ClaimCondition, Covered
    <3>3. \A q \in Noticers : ~Mailer(q, i)
      BY <3>1, HeldNotClaimed DEF Mailer
    <3> QED
      BY <2>1, <3>2, <3>3, MailedKept
  <2> QED
    BY <2>2, <2>3
<1>8. CASE MailCancel(p)
  <2>1. /\ ~At(p, "mailed") /\ noticers[p].pc = "audited"
        /\ notices' = notices /\ unrecorded' = unrecorded
    BY <1>8 DEF MailCancel, At
  <2>2. CASE noticers[p].id # i
    <3>1. mails'[i] = mails[i]
      BY <1>2, <1>8, <2>2 DEF MailCancel, TypeOK
    <3> QED
      BY <1>3, <1>4, <2>1, <3>1, MailedMoves
  <2>3. CASE noticers[p].id = i
    <3>1. Holds(p, i)
      BY <2>1, <2>3 DEF Holds, Working
    <3>2. ~Covered(i)
      BY <3>1 DEF Covered, LeaseInv, Holder
    <3>3. \A q \in Noticers : ~Mailer(q, i)
      BY <2>1, <3>1 DEF Mailer, LeaseInv, OneNoticer
    <3>4. mails[i] <= unrecorded[i]
      BY <1>2, <3>2, <3>3 DEF Mailed
    <3>5. mails'[i] = mails[i] + 1
      BY <1>2, <1>8, <2>3 DEF MailCancel, TypeOK
    <3>6. Mailer(p, i)'
      BY <1>2, <1>8, <2>3 DEF MailCancel, GoTo, TypeOK, Noticer, Mailer, Holds, At, Working
    <3> QED
      BY <1>2, <2>1, <3>4, <3>5, <3>6 DEF Mailed
  <2> QED
    BY <2>2, <2>3
<1>9. CASE Record(p)
  <2>1. mails' = mails /\ unrecorded' = unrecorded
    BY <1>9 DEF Record
  <2>2. CASE noticers[p].id # i
    <3>1. notices'[i] = notices[i]
      BY <1>2, <1>9, <2>2 DEF Record, TypeOK
    <3>2. \A q \in Noticers : Mailer(q, i) => Mailer(q, i)'
      BY <1>3, <2>2 DEF Mailer, Holds, At
    <3>3. Covered(i) /\ mails[i] = 1 + unrecorded[i] => Covered(i)'
      BY <1>3, <1>4, <2>2, <3>1 DEF Covered
    <3> QED
      BY <2>1, <3>2, <3>3, MailedKept
  <2>3. CASE noticers[p].id = i
    <3>1. notices[i] \in Notice
      BY <1>2 DEF TypeOK
    <3>2. notices'[i].noticed
      BY <1>2, <1>9, <2>3, <3>1 DEF Record, TypeOK, Notice
    <3> QED
      BY <2>1, <3>2, MailedKept DEF Covered
  <2> QED
    BY <2>2, <2>3
<1>10. CASE Stop(p)
  <2>1. /\ notices' = notices /\ mails' = mails
        /\ noticers'[p].id # i
    BY <1>2, <1>10, NoneAssumption DEF Stop, Idle, TypeOK
  <2>2. CASE ~At(p, "mailed")
    BY <1>5, <1>10, <2>1, <2>2 DEF Stop
  <2>3. CASE At(p, "mailed") /\ noticers[p].id = i
    <3>1. unrecorded'[i] = unrecorded[i] + 1
      BY <1>2, <1>10, <2>3 DEF Stop, TypeOK
    <3> QED
      BY <1>2, <2>1, <3>1 DEF Mailed
  <2>4. CASE At(p, "mailed") /\ noticers[p].id # i
    <3>1. unrecorded'[i] = unrecorded[i]
      BY <1>2, <1>10, <2>4 DEF Stop, TypeOK
    <3>2. \A q \in Noticers : Mailer(q, i) => Mailer(q, i)'
      BY <1>3, <2>4 DEF Mailer, Holds, At
    <3>3. Covered(i) => Covered(i)'
      BY <1>3, <2>1 DEF Covered
    <3> QED
      BY <2>1, <3>1, <3>2, <3>3, MailedKept
  <2> QED
    BY <2>2, <2>3, <2>4
<1> QED
  BY <1>1, <1>6, <1>7, <1>8, <1>9, <1>10

LEMMA MailStep == TypeInv /\ LeaseInv /\ StandInv /\ MailInv /\ [Next]_vars => MailInv'
<1> SUFFICES ASSUME TypeInv, LeaseInv, StandInv, MailInv, [Next]_vars, NEW i \in Recoveries
             PROVE  Mailed(i)'
  BY DEF MailInv
<1> USE DEF ghost
<1>1. TypeOK /\ Mailed(i)
  BY DEF TypeInv, MailInv
<1>2. CASE UNCHANGED <<notices, noticers, mails, unrecorded>>
  BY <1>1, <1>2, MailedKept DEF Covered, Mailer, Holds, At
<1>3. CASE ExpiresAtMoves \/ Tick
  <2>1. mails' = mails /\ unrecorded' = unrecorded
    BY <1>3 DEF ExpiresAtMoves, Tick
  <2>2. Covered(i) => Covered(i)'
    BY <1>3, QuietStep DEF Covered
  <2>3. \A p \in Noticers : Mailer(p, i) => Mailer(p, i)'
    BY <1>3, QuietStep DEF Mailer, Holds, At
  <2> QED
    BY <1>1, <2>1, <2>2, <2>3, MailedKept
<1>4. ASSUME NEW id \in Recoveries, NoticeExpires(id)
      PROVE  Mailed(i)'
  <2>1. /\ noticers' = noticers /\ mails' = mails /\ unrecorded' = unrecorded
        /\ \A p \in Noticers : noticers[p].id # id
        /\ i # id => notices'[i] = notices[i]
        /\ i = id => ~notices'[i].exists
    BY <1>1, <1>4 DEF NoticeExpires, NoNotice, TypeOK
  <2>2. Covered(i) => Covered(i)'
    BY <2>1 DEF Covered
  <2>3. \A p \in Noticers : Mailer(p, i) => Mailer(p, i)'
    BY <2>1 DEF Mailer, Holds, At
  <2> QED
    BY <1>1, <2>1, <2>2, <2>3, MailedKept
<1>5. CASE OtherHandlers
  BY <1>2, <1>3, <1>5 DEF OtherHandlers, CancelRecovery, RecoveryEnds, ExpiresAtPasses, Request
<1>6. CASE Environment
  BY <1>2, <1>3, <1>4, <1>6 DEF Environment, HostMarksSlot, HostMarksRow
<1> QED
  BY <1>1, <1>2, <1>5, <1>6, MailedNotice DEF Next, vars

(* The cancel is mailed once, and again only after a notice that mailed and *)
(* stopped before it could record that.                                     *)
THEOREM MailedOnceHolds == Spec => []MailedOnce
<1>1. Spec => [](TypeInv /\ LeaseInv /\ StandInv /\ MailInv)
  BY TypeInit, LeaseInit, StandInit, MailInit, TypeStep, LeaseStep, StandStep, MailStep, PTL
     DEF Spec
<1>2. MailInv => MailedOnce
  BY DEF MailInv, Mailed, MailedOnce
<1> QED
  BY <1>1, <1>2, PTL

--------------------------------------------------------------------------------
(* The member is told.  Who goes on without an email has seen that no cancel  *)
(* from the phone ended the recovery in the row, and none can while it holds  *)
(* the notice.                                                                *)

Current(id) == recovery.id = id /\ how[id] = "app"

Told(id) ==
  /\ \A p \in Noticers : Mailer(p, id) => mails[id] > 0
  /\ \A p \in Noticers : Holds(p, id) /\ noticers[p].pc \in {"seen", "noted"} => ~Current(id)
  /\ Current(id) /\ Finished(id) => mails[id] > 0

ToldInv == \A id \in Recoveries : Told(id)

LEMMA ToldInit == Init => ToldInv
<1> SUFFICES ASSUME Init, NEW i \in Recoveries
             PROVE  Told(i)
  BY DEF ToldInv
<1>1. recovery.id # i
  BY NoneAssumption DEF Init
<1>2. \A p \in Noticers : noticers[p].pc = "idle"
  BY DEF Init, Idle
<1> QED
  BY <1>1, <1>2 DEF Told, Mailer, Holds, Working, Current

(* Only the winning write of a holder makes a recovery one the phone ended. *)
LEMMA CurrentComes ==
  ASSUME TypeInv, [Next]_vars, NEW i \in Recoveries, ~Current(i), Current(i)'
  PROVE  \E p \in Noticers : CancelWins(p) /\ noticers[p].id = i
<1> USE DEF ghost
<1>1. TypeOK
  BY DEF TypeInv
<1>2. ASSUME UNCHANGED <<recovery, how>>
      PROVE  FALSE
  BY <1>2 DEF Current
<1>3. CASE CancelRecovery \/ RecoveryEnds
  <2>1. recovery'.id = recovery.id
    BY <1>1, <1>3 DEF CancelRecovery, RecoveryEnds, TypeOK
  <2>2. PICK end \in {"other", "ended"} : FirstEnd(recovery.id, end)
    BY <1>3 DEF CancelRecovery, RecoveryEnds
  <2>3. how'[i] = "app" => how[i] = "app"
    BY <1>1, <2>2 DEF FirstEnd, TypeOK
  <2> QED
    BY <2>1, <2>3 DEF Current
<1>4. CASE ExpiresAtPasses \/ ExpiresAtMoves
  <2>1. recovery'.id = recovery.id /\ how' = how
    BY <1>1, <1>4 DEF ExpiresAtPasses, ExpiresAtMoves, TypeOK
  <2> QED
    BY <2>1 DEF Current
<1>5. ASSUME NEW j \in Recoveries, Request(j)
      PROVE  FALSE
  <2>1. recovery'.id = j /\ how'[j] = "none"
    BY <1>1, <1>5 DEF Request, TypeOK
  <2> QED
    BY <2>1 DEF Current
<1>6. CASE NoticeAppCancel
  <2>1. PICK p \in Noticers :
        \/ \E id \in Recoveries, src \in {"slot", "row", "notice"} : Look(p, id, src)
        \/ ClaimNotice(p) \/ NothingToClaim(p)
        \/ CancelWins(p) \/ CancelLoses(p) \/ Reread(p)
        \/ AuditCancel(p) \/ MailCancel(p) \/ AuditSeen(p)
        \/ Record(p) \/ MarkSlot(p) \/ AuditSlotSeen(p) \/ Stop(p)
    BY <1>6 DEF NoticeAppCancel
  <2>2. CancelWins(p)
    BY <1>2, <2>1
       DEF Look, ClaimNotice, NothingToClaim, CancelLoses, Reread, AuditCancel, MailCancel,
           AuditSeen, Record, MarkSlot, AuditSlotSeen, Stop
  <2>3. recovery'.id = noticers[p].id
    BY <1>1, <2>2 DEF CancelWins, CancelCondition, Is, TypeOK
  <2> QED
    BY <2>2, <2>3 DEF Current
<1>7. CASE OtherHandlers
  BY <1>3, <1>4, <1>5, <1>7 DEF OtherHandlers
<1>8. CASE Environment
  BY <1>2, <1>8 DEF Environment, Tick, HostMarksSlot, HostMarksRow, NoticeExpires
<1> QED
  BY <1>2, <1>6, <1>7, <1>8 DEF Next, vars

(* No email is unsent. *)
LEMMA MailsGrow ==
  ASSUME TypeInv, [Next]_vars, NEW i \in Recoveries, mails[i] > 0
  PROVE  mails'[i] > 0
<1> USE DEF ghost
<1>1. mails \in [Recoveries -> Nat]
  BY DEF TypeInv, TypeOK
<1>2. ASSUME NEW p \in Noticers, MailCancel(p)
      PROVE  mails'[i] > 0
  BY <1>1, <1>2 DEF MailCancel
<1>3. CASE mails' = mails
  BY <1>3
<1>4. CASE NoticeAppCancel
  BY <1>2, <1>3, <1>4
     DEF NoticeAppCancel, Look, ClaimNotice, NothingToClaim, CancelWins, CancelLoses, Reread,
         AuditCancel, AuditSeen, Record, MarkSlot, AuditSlotSeen, Stop
<1>5. CASE OtherHandlers \/ Environment
  BY <1>3, <1>5
     DEF OtherHandlers, Environment, CancelRecovery, RecoveryEnds, ExpiresAtPasses,
         ExpiresAtMoves, Request, Tick, HostMarksSlot, HostMarksRow, NoticeExpires
<1> QED
  BY <1>3, <1>4, <1>5 DEF Next, vars

(* A step after which the email of whoever is a mailer then has been sent,     *)
(* nobody newly goes on without one, and no notice newly ends unmailed, keeps *)
(* what is told: the winning write itself is made by the one holder.          *)
LEMMA ToldKept ==
  ASSUME TypeInv, LeaseInv, [Next]_vars, NEW i \in Recoveries, Told(i),
         \A q \in Noticers : Mailer(q, i)' => Mailer(q, i) \/ mails'[i] > 0,
         \A q \in Noticers : Holds(q, i)' /\ noticers'[q].pc \in {"seen", "noted"} =>
           Holds(q, i) /\ (noticers[q].pc \in {"seen", "noted"} \/ ~Current(i)),
         Finished(i)' => Finished(i) \/ ~Current(i) \/ mails[i] > 0
  PROVE  Told(i)'
<1>1. mails[i] > 0 => mails'[i] > 0
  BY MailsGrow
<1>2. ASSUME Current(i)', ~Current(i)
      PROVE  ~Finished(i)' /\ \A q \in Noticers : Holds(q, i)' => noticers'[q].pc = "won"
  <2>1. PICK p \in Noticers : CancelWins(p) /\ noticers[p].id = i
    BY <1>2, CurrentComes
  <2>2. Holds(p, i)
    BY <2>1 DEF CancelWins, At, Holds, Working
  <2>3. ~notices[i].noticed /\ \A q \in Noticers : Holds(q, i) => q = p
    BY <2>2 DEF LeaseInv, OneNoticer, Holder
  <2>4. ~Finished(i)'
    BY <2>1, <2>3 DEF CancelWins, Finished
  <2>5. noticers'[p].pc = "won" /\ \A q \in Noticers \ {p} : noticers'[q] = noticers[q]
    BY <2>1 DEF CancelWins, GoTo, TypeInv, TypeOK, Noticer
  <2> QED
    BY <2>3, <2>4, <2>5 DEF Holds
<1> QED
  BY <1>1, <1>2 DEF Told

LEMMA ToldNotice ==
  ASSUME TypeInv, LeaseInv, StandInv, NEW i \in Recoveries, Told(i), NoticeAppCancel
  PROVE  Told(i)'
<1> USE DEF ghost
<1>1. PICK p \in Noticers :
        \/ \E id \in Recoveries, src \in {"slot", "row", "notice"} : Look(p, id, src)
        \/ ClaimNotice(p) \/ NothingToClaim(p)
        \/ CancelWins(p) \/ CancelLoses(p) \/ Reread(p)
        \/ AuditCancel(p) \/ MailCancel(p) \/ AuditSeen(p)
        \/ Record(p) \/ MarkSlot(p) \/ AuditSlotSeen(p) \/ Stop(p)
  BY DEF NoticeAppCancel
<1>2. /\ noticers \in [Noticers -> Noticer] /\ noticers[p] \in Noticer
      /\ TypeOK /\ mails[i] \in Nat /\ [Next]_vars
  BY DEF TypeInv, TypeOK, Next
<1>3. \A q \in Noticers \ {p} : noticers'[q] = noticers[q]
  BY <1>1, NoticerStep
<1>4. \A q \in Noticers \ {p} : /\ Mailer(q, i)' <=> Mailer(q, i)
                                /\ Holds(q, i)' <=> Holds(q, i)
                                /\ noticers'[q].pc = noticers[q].pc
  BY <1>3 DEF Mailer, Holds, At
(* How p's own step may tell of the recovery. *)
<1>5. Mailer(p, i)' => mails'[i] > 0
  <2>1. CASE MailCancel(p)
    <3>1. noticers'[p].id = noticers[p].id
      BY <1>2, <2>1 DEF MailCancel, GoTo, Noticer
    <3>2. noticers[p].id = i => mails'[i] = mails[i] + 1
      BY <1>2, <2>1 DEF MailCancel, TypeOK
    <3> QED
      BY <1>2, <3>1, <3>2 DEF Mailer, Holds
  <2>2. CASE \/ ClaimNotice(p) \/ NothingToClaim(p) \/ CancelWins(p) \/ CancelLoses(p)
             \/ Reread(p) \/ AuditCancel(p) \/ AuditSeen(p)
    <3>1. \E pc : pc # "mailed" /\ GoTo(p, pc)
      BY <2>2 DEF ClaimNotice, NothingToClaim, CancelWins, CancelLoses, Reread, AuditCancel,
                  AuditSeen
    <3> QED
      BY <1>2, <3>1 DEF GoTo, Noticer, Mailer, At
  <2>3. CASE \/ \E id \in Recoveries, src \in {"slot", "row", "notice"} : Look(p, id, src)
             \/ Record(p) \/ MarkSlot(p) \/ AuditSlotSeen(p) \/ Stop(p)
    <3>1. noticers'[p].pc # "mailed"
      BY <1>2, <2>3 DEF Look, Record, MarkSlot, AuditSlotSeen, Stop, Noticer, Idle
    <3> QED
      BY <3>1 DEF Mailer, At
  <2> QED
    BY <1>1, <2>1, <2>2, <2>3
<1>6. Holds(p, i)' /\ noticers'[p].pc \in {"seen", "noted"} =>
        Holds(p, i) /\ (noticers[p].pc \in {"seen", "noted"} \/ ~Current(i))
  <2>1. CASE Reread(p)
    <3>1. ~At(p, "idle") /\ noticers[p].pc = "lost" /\ noticers'[p].id = noticers[p].id
      BY <1>2, <2>1 DEF Reread, GoTo, Noticer, At
    <3>2. noticers'[p].pc = "seen" => ~Is(noticers[p].id, "cancelled_app")
      BY <1>2, <2>1 DEF Reread, GoTo, Noticer
    <3>3. noticers'[p].pc \in {"won", "seen"}
      BY <1>2, <2>1 DEF Reread, GoTo, Noticer
    <3>4. ~Is(i, "cancelled_app") => ~Current(i)
      BY DEF Is, Current, StandInv, Standing
    <3> QED
      BY <3>1, <3>2, <3>3, <3>4 DEF Holds, Working
  <2>2. CASE AuditSeen(p)
    BY <1>2, <2>2 DEF AuditSeen, GoTo, Noticer, At, Holds, Working
  <2>3. CASE \/ ClaimNotice(p) \/ NothingToClaim(p) \/ CancelWins(p) \/ CancelLoses(p)
             \/ MailCancel(p) \/ AuditCancel(p)
    <3>1. \E pc : pc \notin {"seen", "noted"} /\ GoTo(p, pc)
      BY <2>3 DEF ClaimNotice, NothingToClaim, CancelWins, CancelLoses, MailCancel, AuditCancel
    <3> QED
      BY <1>2, <3>1 DEF GoTo, Noticer
  <2>4. CASE \/ \E id \in Recoveries, src \in {"slot", "row", "notice"} : Look(p, id, src)
             \/ Record(p) \/ MarkSlot(p) \/ AuditSlotSeen(p) \/ Stop(p)
    <3>1. noticers'[p].pc \notin {"seen", "noted"}
      BY <1>2, <2>4 DEF Look, Record, MarkSlot, AuditSlotSeen, Stop, Noticer, Idle
    <3> QED
      BY <3>1
  <2> QED
    BY <1>1, <2>1, <2>2, <2>3, <2>4
<1>7. Finished(i)' => Finished(i) \/ ~Current(i) \/ mails[i] > 0
  <2>1. CASE notices' = notices
    BY <2>1 DEF Finished
  <2>2. notices[i] \in Notice /\ notices \in [Recoveries -> Notice]
    BY <1>2 DEF TypeOK
  <2>3. CASE ClaimNotice(p)
    BY <2>2, <2>3 DEF ClaimNotice, Finished, Notice
  <2>4. CASE Record(p)
    <3>1. CASE noticers[p].id # i
      BY <2>2, <2>4, <3>1 DEF Record, Finished
    <3>2. CASE noticers[p].id = i /\ At(p, "giveup")
      BY <2>2, <2>4, <3>2 DEF Record, Finished, Notice, At
    <3>3. CASE noticers[p].id = i /\ noticers[p].pc \in WorkDone
      BY <3>3 DEF WorkDone, Told, Mailer, Holds, Working, At
    <3> QED
      BY <2>4, <3>1, <3>2, <3>3 DEF Record, At
  <2> QED
    BY <1>1, <2>1, <2>3, <2>4
       DEF Look, NothingToClaim, CancelWins, CancelLoses, Reread, AuditCancel, MailCancel,
           AuditSeen, MarkSlot, AuditSlotSeen, Stop
<1> QED
  BY <1>2, <1>4, <1>5, <1>6, <1>7, ToldKept

LEMMA ToldStep == TypeInv /\ LeaseInv /\ StandInv /\ ToldInv /\ [Next]_vars => ToldInv'
<1> SUFFICES ASSUME TypeInv, LeaseInv, StandInv, ToldInv, [Next]_vars, NEW i \in Recoveries
             PROVE  Told(i)'
  BY DEF ToldInv
<1> USE DEF ghost
<1>1. TypeOK /\ Told(i)
  BY DEF TypeInv, ToldInv
<1>2. CASE UNCHANGED <<notices, noticers>>
  BY <1>1, <1>2, ToldKept DEF Finished, Mailer, Holds, At
<1>3. CASE ExpiresAtMoves \/ Tick
  <2>1. \A q \in Noticers : /\ Mailer(q, i)' => Mailer(q, i)
                            /\ Holds(q, i)' => Holds(q, i)
                            /\ noticers'[q].pc = noticers[q].pc
    BY <1>3, QuietStep DEF Mailer, Holds, At
  <2>2. Finished(i)' => Finished(i)
    BY <1>3, QuietStep DEF Finished
  <2> QED
    BY <1>1, <2>1, <2>2, ToldKept
<1>4. ASSUME NEW id \in Recoveries, NoticeExpires(id)
      PROVE  Told(i)'
  <2>1. \A q \in Noticers : /\ Mailer(q, i)' => Mailer(q, i)
                            /\ Holds(q, i)' => Holds(q, i)
                            /\ noticers'[q].pc = noticers[q].pc
    BY <1>4 DEF NoticeExpires, Mailer, Holds, At
  <2>2. Finished(i)' => Finished(i)
    BY <1>1, <1>4 DEF NoticeExpires, NoNotice, Finished, TypeOK
  <2> QED
    BY <1>1, <2>1, <2>2, ToldKept
<1>5. CASE OtherHandlers
  BY <1>2, <1>3, <1>5 DEF OtherHandlers, CancelRecovery, RecoveryEnds, ExpiresAtPasses, Request
<1>6. CASE Environment
  BY <1>2, <1>3, <1>4, <1>6 DEF Environment, HostMarksSlot, HostMarksRow
<1> QED
  BY <1>1, <1>2, <1>5, <1>6, ToldNotice DEF Next, vars

(* A recovery the phone's cancel ended, and that no new request has replaced, *)
(* is not recorded as noticed before the member was mailed.                   *)
THEOREM CurrentCancelMailedHolds == Spec => []CurrentCancelMailed
<1>1. Spec => [](TypeInv /\ LeaseInv /\ StandInv /\ ToldInv)
  BY TypeInit, LeaseInit, StandInit, ToldInit, TypeStep, LeaseStep, StandStep, ToldStep, PTL
     DEF Spec
<1>2. ToldInv => CurrentCancelMailed
  BY DEF ToldInv, Told, Current, CurrentCancelMailed
<1> QED
  BY <1>1, <1>2, PTL
===============================================================================
