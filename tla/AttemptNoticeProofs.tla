------------------------- MODULE AttemptNoticeProofs -------------------------
(***************************************************************************)
(* What holds of AttemptNotice for every number of opens, of noticers, of  *)
(* tries and of remembered ids, and for all times that keep the lease.     *)
(***************************************************************************)
EXTENDS AttemptNotice, SequenceTheorems, TLAPS

--------------------------------------------------------------------------------
(* Typing. *)

(* A list cut to its last n entries is a list of at most n entries. *)
LEMMA LastTyped ==
  ASSUME NEW q \in Seq(Opens), NEW n \in Nat \ {0}
  PROVE  Last(q, n) \in Seq(Opens) /\ Len(Last(q, n)) <= n
<1>1. CASE Len(q) <= n
  BY <1>1 DEF Last
<1>2. CASE ~(Len(q) <= n)
  <2>1. Len(q) \in Nat /\ Len(q) > n
    BY <1>2, LenProperties
  <2>2. /\ Last(q, n) = SubSeq(q, Len(q) - n + 1, Len(q))
        /\ Len(q) - n + 1 \in 1..Len(q) + 1
    BY <1>2, <2>1 DEF Last
  <2>3. /\ SubSeq(q, Len(q) - n + 1, Len(q)) \in Seq(Opens)
        /\ Len(SubSeq(q, Len(q) - n + 1, Len(q))) = n
    <3> DEFINE m == Len(q) - n + 1
    <3>1. m \in 1..Len(q)+1 /\ Len(q) \in m-1..Len(q)
      BY <2>1
    <3>2. /\ SubSeq(q, m, Len(q)) \in Seq(Opens)
          /\ Len(SubSeq(q, m, Len(q))) = Len(q) - m + 1
      BY <3>1, SubSeqProperties
    <3> QED
      BY <3>2, <2>1
  <2> QED
    BY <2>2, <2>3
<1> QED
  BY <1>1, <1>2

(* Ages stay within where they stop counting. *)
LEMMA AgeTyped ==
  ASSUME NEW most \in Nat, NEW age \in 0..most
  PROVE  Older(age, most) \in 0..most
BY DEF Older

(* One more is a count. *)
LEMMA CountTyped ==
  ASSUME NEW f \in [Opens -> Nat], NEW s
  PROVE  [f EXCEPT ![s] = @ + 1] \in [Opens -> Nat]
<1>1. \A i \in Opens : f[i] + 1 \in Nat
  OBVIOUS
<1> QED
  BY <1>1

(* The bounds of the ages, and a route that has ended, have their types. *)
LEMMA BoundsTyped ==
  /\ Never \in Nat /\ OldAge \in Nat /\ Never = OldAge + 1
  /\ Timeout < OldAge
  /\ Never \in 0..Never
  /\ 0 \in 0..Timeout
  /\ 0 \in 0..Margin + 1 /\ 1 \in 0..Margin + 1
BY TimesAssumption DEF Never, OldAge

LEMMA EndedTyped ==
  IdleNoticer \in Noticer /\ [NoRoute EXCEPT !.pc = "done"] \in Route
<1>1. <<>> \in Seq(Opens)
  OBVIOUS
<1> QED
  BY <1>1, BoundsTyped DEF IdleNoticer, Noticer, NoRoute, Route

LEMMA TypeOKInit == Init => TypeOK
BY TimesAssumption
   DEF Init, TypeOK, Slot, NoSlot, Never, OldAge, Noticer, IdleNoticer, Route, NoRoute

LEMMA TypeOKNotice ==
  ASSUME TypeOK, Notice
  PROVE  TypeOK'
<1> USE DEF ghost
<1>1. PICK p \in Noticers :
        \/ AuditAttempt(p) \/ MailAttempt(p) \/ Stop(p)
        \/ \E s \in Opens : Look(p, s) \/ Sweep(p, s) \/ Claim(p, s) \/ Done(p, s)
  BY DEF Notice
<1>2. CASE AuditAttempt(p)
  <2>1. /\ noticers' = [noticers EXCEPT ![p].pc = "audited"]
        /\ audits' = [audits EXCEPT ![noticers[p].slot] = @ + 1]
        /\ UNCHANGED <<slots, live, openIds, routes, mails, unrecorded, before>>
    BY <1>2 DEF AuditAttempt
  <2>2. noticers' \in [Noticers -> Noticer]
    BY <2>1 DEF TypeOK, Noticer
  <2>3. audits' \in [Opens -> Nat]
    BY <2>1, CountTyped DEF TypeOK
  <2> QED
    BY <2>1, <2>2, <2>3 DEF TypeOK
<1>3. CASE MailAttempt(p)
  <2>1. /\ noticers' = [noticers EXCEPT ![p].pc = "mailed"]
        /\ mails' = [mails EXCEPT ![noticers[p].slot] = @ + 1]
        /\ UNCHANGED <<slots, live, openIds, routes, audits, unrecorded, before>>
    BY <1>3 DEF MailAttempt
  <2>2. noticers' \in [Noticers -> Noticer]
    BY <2>1 DEF TypeOK, Noticer
  <2>3. mails' \in [Opens -> Nat]
    BY <2>1, CountTyped DEF TypeOK
  <2> QED
    BY <2>1, <2>2, <2>3 DEF TypeOK
<1>4. CASE Stop(p)
  <2>1. /\ noticers' = [noticers EXCEPT ![p] = IdleNoticer]
        /\ \/ unrecorded' = [unrecorded EXCEPT ![noticers[p].slot] = @ + 1]
           \/ unrecorded' = unrecorded
        /\ UNCHANGED <<slots, live, openIds, routes, audits, mails, before>>
    BY <1>4 DEF Stop
  <2>3. noticers' \in [Noticers -> Noticer]
    BY <2>1, EndedTyped DEF TypeOK
  <2>4. unrecorded' \in [Opens -> Nat]
    <3>1. unrecorded \in [Opens -> Nat]
      BY DEF TypeOK
    <3>2. [unrecorded EXCEPT ![noticers[p].slot] = @ + 1] \in [Opens -> Nat]
      BY <3>1, CountTyped
    <3> QED
      BY <2>1, <3>1, <3>2
  <2> QED
    BY <2>1, <2>3, <2>4 DEF TypeOK
<1>5. ASSUME NEW s \in Opens, Look(p, s) \/ Sweep(p, s)
      PROVE  TypeOK'
  <2>1. [pc |-> "start", slot |-> s, age |-> 0] \in Noticer
    BY BoundsTyped DEF Noticer
  <2>2. noticers' \in [Noticers -> Noticer]
    BY <1>5, <2>1 DEF Look, Sweep, TypeOK
  <2> QED
    BY <1>5, <2>2 DEF Look, Sweep, TypeOK
<1>6. ASSUME NEW s \in Opens, Claim(p, s)
      PROVE  TypeOK'
  <2>1. /\ noticers[p] \in Noticer /\ slots[s] \in Slot
        /\ noticers[p].age \in 0..Never
    BY TimesAssumption DEF TypeOK, Noticer, Never, OldAge
  <2>2. Older(slots[s].tries, MaxTries + 1) \in Nat
    BY <2>1 DEF Older, Slot
  <2>3. slots' \in [Opens -> Slot]
    BY <1>6, <2>1, <2>2 DEF Claim, TypeOK, Slot
  <2>4. noticers' \in [Noticers -> Noticer]
    BY <1>6, <2>1 DEF Claim, TypeOK, Noticer
  <2> QED
    BY <1>6, <2>3, <2>4 DEF Claim, TypeOK
<1>7. ASSUME NEW s \in Opens, Done(p, s)
      PROVE  TypeOK'
  <2>1. slots' \in [Opens -> Slot]
    <3> DEFINE f == slots[s].failed \/ noticers[p].pc = "giveup"
    <3>1. slots' = [slots EXCEPT ![s] =
                      [@ EXCEPT !.noticed = TRUE, !.noticing = Never, !.failed = f]]
      BY <1>7 DEF Done
    <3>2. f \in BOOLEAN /\ slots[s] \in Slot
      BY DEF TypeOK
    <3> HIDE DEF f
    <3>3. [slots[s] EXCEPT !.noticed = TRUE, !.noticing = Never, !.failed = f] \in Slot
      BY <3>2, BoundsTyped DEF Slot
    <3> QED
      BY <3>1, <3>3 DEF TypeOK
  <2>2. noticers' \in [Noticers -> Noticer]
    BY <1>7, EndedTyped DEF Done, TypeOK
  <2> QED
    BY <1>7, <2>1, <2>2 DEF Done, TypeOK
<1> QED
  BY <1>1, <1>2, <1>3, <1>4, <1>5, <1>6, <1>7

LEMMA TypeOKOpenRoute ==
  ASSUME TypeOK, OpenRoute
  PROVE  TypeOK'
<1> USE DEF ghost
<1>1. PICK o \in Opens : \/ OpenRead(o) \/ GatePasses(o) \/ GateRefuses(o)
                         \/ EnqueueOpen(o) \/ RecordOpenId(o) \/ RouteStops(o)
  BY DEF OpenRoute
<1>2. CASE OpenRead(o)
  <2>1. Last(openIds, KeepIds) \in Seq(Opens)
    BY LastTyped, TimesAssumption DEF TypeOK
  <2>2. routes' \in [Opens -> Route]
    BY <1>2, <2>1 DEF OpenRead, TypeOK, Route
  <2>3. before' \in [Opens -> SUBSET Opens]
    BY <1>2 DEF OpenRead, TypeOK
  <2> QED
    BY <1>2, <2>2, <2>3 DEF OpenRead, TypeOK
<1>3. CASE GatePasses(o)
  <2>1. routes[o].left \in Seq(Opens) /\ Tail(routes[o].left) \in Seq(Opens)
    BY <1>3 DEF GatePasses, TypeOK, Route
  <2> QED
    BY <1>3, <2>1 DEF GatePasses, TypeOK, Route
<1>4. CASE GateRefuses(o)
  BY <1>4, EndedTyped DEF GateRefuses, TypeOK
<1>5. CASE EnqueueOpen(o)
  BY <1>5 DEF EnqueueOpen, TypeOK, Route, Slot
<1>6. CASE RecordOpenId(o)
  <2>1. Append(routes[o].ids, o) \in Seq(Opens)
    BY DEF TypeOK, Route
  <2>2. /\ openIds' \in Seq(Opens)
        /\ Len(openIds') <= KeepIds
    BY <1>6, <2>1, LastTyped, TimesAssumption DEF RecordOpenId
  <2> QED
    BY <1>6, <2>2, EndedTyped DEF RecordOpenId, TypeOK
<1>7. CASE RouteStops(o)
  BY <1>7, EndedTyped DEF RouteStops, TypeOK
<1> QED
  BY <1>1, <1>2, <1>3, <1>4, <1>5, <1>6, <1>7

LEMMA TypeOKEnvironment ==
  ASSUME TypeOK, Environment
  PROVE  TypeOK'
<1> USE DEF ghost
<1>1. CASE Tick
  <2>1. ASSUME NEW s \in Opens
        PROVE  slots'[s] \in Slot
    <3>1. slots[s] \in Slot
      BY DEF TypeOK
    <3>2. slots[s].noticing # Never => Older(slots[s].noticing, OldAge) \in 0..Never
      <4>1. slots[s].noticing \in 0..Never
        BY <3>1 DEF Slot
      <4>2. slots[s].noticing # Never => slots[s].noticing \in 0..OldAge
        BY <4>1, BoundsTyped
      <4>3. \A a \in 0..OldAge : a \in 0..Never
        BY BoundsTyped
      <4> QED
        BY <4>2, <4>3, BoundsTyped, AgeTyped
    <3>3. slots[s].expired # 0 => Older(slots[s].expired, Margin + 1) \in 0..Margin + 1
      <4>1. Margin + 1 \in Nat /\ slots[s].expired \in 0..Margin + 1
        BY <3>1, TimesAssumption DEF Slot
      <4> QED
        BY <4>1, AgeTyped
    <3> QED
      BY <1>1, <3>1, <3>2, <3>3, BoundsTyped DEF Tick, Slot
  <2>2. ASSUME NEW p \in Noticers
        PROVE  noticers'[p] \in Noticer
    <3>1. noticers[p] \in Noticer
      BY DEF TypeOK
    <3>2. noticers[p].pc = "idle" \/ noticers[p].age + 1 \in 0..Timeout
      <4>1. noticers[p].pc = "idle" \/ noticers[p].age < Timeout
        BY <1>1 DEF Tick
      <4>2. noticers[p].age \in 0..Timeout
        BY <3>1 DEF Noticer
      <4> QED
        BY <4>1, <4>2, TimesAssumption
    <3> QED
      BY <1>1, <3>1, <3>2 DEF Tick, Noticer
  <2>3. slots' \in [Opens -> Slot] /\ noticers' \in [Noticers -> Noticer]
    BY <1>1, <2>1, <2>2 DEF Tick
  <2> QED
    BY <1>1, <2>3 DEF Tick, TypeOK
<1>2. CASE RecoveryEnds
  BY <1>2 DEF RecoveryEnds, TypeOK
<1>3. ASSUME NEW o \in Opens, HostCounts(o)
      PROVE  TypeOK'
  BY <1>3 DEF HostCounts, TypeOK, Slot
<1>4. ASSUME NEW o \in Opens, ExpiresAtPasses(o)
      PROVE  TypeOK'
  <2>1. [slots[o] EXCEPT !.expired = 1] \in Slot
    <3>1. slots[o] \in Slot
      BY DEF TypeOK
    <3> QED
      BY <3>1, BoundsTyped DEF Slot
  <2> QED
    BY <1>4, <2>1 DEF ExpiresAtPasses, TypeOK
<1>5. ASSUME NEW o \in Opens, SlotGone(o)
      PROVE  TypeOK'
  <2>1. [slots[o] EXCEPT !.gone = TRUE, !.noticing = Never] \in Slot
    <3>1. slots[o] \in Slot
      BY DEF TypeOK
    <3> QED
      BY <3>1, BoundsTyped DEF Slot
  <2>2. slots' = [slots EXCEPT ![o] = [@ EXCEPT !.gone = TRUE, !.noticing = Never]]
    BY <1>5 DEF SlotGone
  <2> QED
    BY <1>5, <2>1, <2>2 DEF SlotGone, TypeOK
<1> QED
  BY <1>1, <1>2, <1>3, <1>4, <1>5 DEF Environment

(* The types hold, and the vault row's list of opens stays within KeepIds. *)
THEOREM Typing == Spec => []TypeOK
<1>1. TypeOK /\ [Next]_vars => TypeOK'
  <2>1. CASE UNCHANGED vars
    BY <2>1 DEF vars, TypeOK
  <2>2. CASE Next
    BY <2>2, TypeOKNotice, TypeOKOpenRoute, TypeOKEnvironment DEF Next
  <2> QED
    BY <2>1, <2>2
<1> QED
  BY TypeOKInit, <1>1, PTL DEF Spec

--------------------------------------------------------------------------------
(* The lease.  A holder's claim is as old as the holder itself, which is less *)
(* than Retry: nobody finds it stale.  What is noticed is held by nobody.     *)

Holder(p) ==
  /\ noticers[p].pc # "idle" => noticers[p].slot \in Opens
  /\ \A s \in Opens : Holds(p, s) =>
       /\ slots[s].state = "counted"
       /\ ~slots[s].noticed
       /\ ~slots[s].gone => slots[s].noticing = noticers[p].age

LeaseInv == OneNoticer /\ \A p \in Noticers : Holder(p)

(* A slot that is held is not claimed again. *)
LEMMA HeldNotClaimed ==
  ASSUME TypeOK, LeaseInv, NEW p \in Noticers, NEW q \in Noticers, NEW s \in Opens,
         Holds(q, s)
  PROVE  ~ClaimCondition(p, s)
<1> SUFFICES ASSUME ClaimCondition(p, s)
             PROVE  FALSE
  OBVIOUS
<1>1. ~slots[s].gone /\ (slots[s].noticing = Never \/ slots[s].noticing - noticers[p].age > Retry)
  BY DEF ClaimCondition, Unnoticed, Counted, Stale
<1>2. slots[s].noticing = noticers[q].age
  BY <1>1 DEF LeaseInv, Holder
<1>3. noticers[p].age \in 0..Timeout /\ noticers[q].age \in 0..Timeout
  BY DEF TypeOK, Noticer
<1> QED
  BY <1>1, <1>2, <1>3, BoundsTyped, LeaseAssumption, TimesAssumption DEF OldAge

LEMMA LeaseInit == Init => LeaseInv
BY DEF Init, LeaseInv, OneNoticer, Holder, Holds, IdleNoticer

(* A step of one noticer that leaves the slots alone and holds no slot it did *)
(* not hold.                                                                  *)
LEMMA LeaseMoves ==
  ASSUME TypeOK, LeaseInv, NEW p \in Noticers, NEW n \in Noticer,
         noticers' = [noticers EXCEPT ![p] = n],
         slots' = slots,
         n.pc # "idle" => n.slot \in Opens,
         n.pc \in {"claimed", "audited", "mailed", "giveup"} =>
           /\ noticers[p].pc \in {"claimed", "audited", "mailed", "giveup"}
           /\ n.slot = noticers[p].slot /\ n.age = noticers[p].age
  PROVE  LeaseInv'
<1>1. noticers'[p] = n /\ \A q \in Noticers \ {p} : noticers'[q] = noticers[q]
  BY DEF TypeOK
<1>2. ASSUME NEW q \in Noticers, NEW s \in Opens, Holds(q, s)'
      PROVE  Holds(q, s) /\ noticers'[q].age = noticers[q].age
  BY <1>1, <1>2 DEF Holds
<1>3. OneNoticer'
  BY <1>2 DEF LeaseInv, OneNoticer
<1>4. ASSUME NEW q \in Noticers
      PROVE  Holder(q)'
  <2>1. noticers'[q].pc # "idle" => noticers'[q].slot \in Opens
    BY <1>1 DEF LeaseInv, Holder
  <2> QED
    BY <1>2, <2>1 DEF LeaseInv, Holder
<1> QED
  BY <1>3, <1>4 DEF LeaseInv

LEMMA LeaseNotice ==
  ASSUME TypeOK, LeaseInv, Notice
  PROVE  LeaseInv'
<1>1. PICK p \in Noticers :
        \/ AuditAttempt(p) \/ MailAttempt(p) \/ Stop(p)
        \/ \E s \in Opens : Look(p, s) \/ Sweep(p, s) \/ Claim(p, s) \/ Done(p, s)
  BY DEF Notice
<1>2. noticers[p] \in Noticer
  BY DEF TypeOK
<1>3. CASE AuditAttempt(p) \/ MailAttempt(p)
  <2>1. PICK pc \in {"audited", "mailed"} :
          noticers' = [noticers EXCEPT ![p] = [@ EXCEPT !.pc = pc]]
    BY <1>3 DEF AuditAttempt, MailAttempt
  <2> DEFINE n == [noticers[p] EXCEPT !.pc = pc]
  <2>2. n \in Noticer /\ n.slot = noticers[p].slot /\ n.age = noticers[p].age /\ n.pc = pc
    BY <1>2 DEF Noticer
  <2>3. noticers[p].pc \in {"claimed", "audited"} /\ slots' = slots
    BY <1>3 DEF AuditAttempt, MailAttempt
  <2>4. n.slot \in Opens
    BY <2>2, <2>3 DEF LeaseInv, Holder
  <2>5. noticers' = [noticers EXCEPT ![p] = n]
    BY <2>1
  <2> HIDE DEF n
  <2> QED
    BY <2>2, <2>3, <2>4, <2>5, LeaseMoves
<1>4. CASE Stop(p)
  <2>1. noticers' = [noticers EXCEPT ![p] = IdleNoticer] /\ slots' = slots
    BY <1>4 DEF Stop
  <2> QED
    BY <2>1, LeaseMoves, EndedTyped DEF IdleNoticer
<1>5. ASSUME NEW s \in Opens, Look(p, s) \/ Sweep(p, s)
      PROVE  LeaseInv'
  <2> DEFINE n == [pc |-> "start", slot |-> s, age |-> 0]
  <2>1. noticers' = [noticers EXCEPT ![p] = n] /\ slots' = slots
    BY <1>5 DEF Look, Sweep
  <2>2. n \in Noticer
    BY BoundsTyped DEF Noticer
  <2> QED
    BY <2>1, <2>2, LeaseMoves
<1>6. ASSUME NEW s \in Opens, Claim(p, s)
      PROVE  LeaseInv'
  <2>1. /\ ClaimCondition(p, s)
        /\ noticers[p].slot = s /\ noticers[p].pc = "start"
        /\ ~slots[s].noticed /\ slots[s].state = "counted"
    BY <1>6 DEF Claim, ClaimCondition, Unnoticed, Counted
  <2>2. \A q \in Noticers : ~Holds(q, s)
    BY <2>1, HeldNotClaimed
  <2>3. \A q \in Noticers \ {p} : noticers'[q] = noticers[q]
    BY <1>6 DEF Claim, TypeOK
  <2>4. noticers'[p].slot = s /\ noticers'[p].age = noticers[p].age
    BY <1>6, <2>1 DEF Claim, TypeOK, Noticer
  <2>5. \A t \in Opens \ {s} : slots'[t] = slots[t]
    BY <1>6 DEF Claim, TypeOK
  <2>6. /\ slots'[s].state = slots[s].state /\ slots'[s].noticed = slots[s].noticed
        /\ slots'[s].noticing = noticers[p].age
    BY <1>6 DEF Claim, TypeOK, Slot
  <2>7. OneNoticer'
    BY <2>2, <2>3, <2>4 DEF LeaseInv, OneNoticer, Holds
  <2>8. Holder(p)'
    BY <2>1, <2>4, <2>6 DEF Holder, Holds
  <2>9. ASSUME NEW q \in Noticers \ {p}
        PROVE  Holder(q)'
    BY <2>2, <2>3, <2>5 DEF LeaseInv, Holder, Holds
  <2> QED
    BY <2>7, <2>8, <2>9 DEF LeaseInv
<1>7. ASSUME NEW s \in Opens, Done(p, s)
      PROVE  LeaseInv'
  <2>1. Holds(p, s)
    BY <1>7 DEF Done, Holds, WorkDone
  <2>2. /\ noticers'[p] = IdleNoticer
        /\ \A q \in Noticers \ {p} : noticers'[q] = noticers[q]
        /\ \A t \in Opens \ {s} : slots'[t] = slots[t]
    BY <1>7 DEF Done, TypeOK
  <2>3. \A q \in Noticers \ {p} : ~Holds(q, s)
    BY <2>1 DEF LeaseInv, OneNoticer
  <2>4. OneNoticer'
    BY <2>2 DEF LeaseInv, OneNoticer, Holds, IdleNoticer
  <2>5. Holder(p)'
    BY <2>2 DEF Holder, Holds, IdleNoticer
  <2>6. ASSUME NEW q \in Noticers \ {p}
        PROVE  Holder(q)'
    BY <2>2, <2>3 DEF LeaseInv, Holder, Holds
  <2> QED
    BY <2>4, <2>5, <2>6 DEF LeaseInv
<1> QED
  BY <1>1, <1>3, <1>4, <1>5, <1>6, <1>7

(* A step of nobody's notice that counts or keeps what is counted. *)
LEMMA LeaseKept ==
  ASSUME LeaseInv, noticers' = noticers,
         \A s \in Opens :
           /\ slots[s].state = "counted" => slots'[s].state = "counted"
           /\ slots'[s].noticed = slots[s].noticed
           /\ slots'[s].gone \/ (slots'[s].gone = slots[s].gone /\ slots'[s].noticing = slots[s].noticing)
  PROVE  LeaseInv'
BY DEF LeaseInv, OneNoticer, Holder, Holds

(* An open's slot is made by its own route, after the gate. *)
RouteInv == \A o \in Opens : routes[o].pc \in {"none", "gate"} => slots[o].state = "none"

LEMMA RouteStep ==
  ASSUME TypeOK, LeaseInv, RouteInv, [Next]_vars
  PROVE  RouteInv'
<1>1. CASE UNCHANGED vars
  BY <1>1 DEF vars, RouteInv
<1>2. CASE Notice
  <2>1. routes' = routes /\ \A s \in Opens : slots'[s].state = slots[s].state
    <3>1. ASSUME NEW p \in Noticers,
                 \/ AuditAttempt(p) \/ MailAttempt(p) \/ Stop(p)
                 \/ \E s \in Opens : Look(p, s) \/ Sweep(p, s)
          PROVE  routes' = routes /\ slots' = slots
      BY <3>1 DEF AuditAttempt, MailAttempt, Stop, Look, Sweep
    <3>2. ASSUME NEW p \in Noticers, NEW t \in Opens, Claim(p, t)
          PROVE  routes' = routes /\ \A s \in Opens : slots'[s].state = slots[s].state
      BY <3>2 DEF Claim, TypeOK, Slot
    <3>3. ASSUME NEW p \in Noticers, NEW t \in Opens, Done(p, t)
          PROVE  routes' = routes /\ \A s \in Opens : slots'[s].state = slots[s].state
      BY <3>3 DEF Done, TypeOK, Slot
    <3> QED
      BY <1>2, <3>1, <3>2, <3>3 DEF Notice
  <2> QED
    BY <2>1 DEF RouteInv
<1>3. CASE OpenRoute
  <2>1. PICK o \in Opens : \/ OpenRead(o) \/ GatePasses(o) \/ GateRefuses(o)
                           \/ EnqueueOpen(o) \/ RecordOpenId(o) \/ RouteStops(o)
    BY <1>3 DEF OpenRoute
  <2>2. CASE OpenRead(o) \/ GatePasses(o)
    <3>1. /\ slots' = slots
          /\ \A q \in Opens \ {o} : routes'[q] = routes[q]
          /\ routes[o].pc \in {"none", "gate"}
      BY <2>2 DEF OpenRead, GatePasses, TypeOK
    <3> QED
      BY <3>1 DEF RouteInv
  <2>3. CASE GateRefuses(o) \/ RecordOpenId(o) \/ RouteStops(o)
    <3>1. /\ slots' = slots
          /\ \A q \in Opens \ {o} : routes'[q] = routes[q]
          /\ routes'[o].pc = "done"
      BY <2>3 DEF GateRefuses, RecordOpenId, RouteStops, NoRoute, TypeOK
    <3> QED
      BY <3>1 DEF RouteInv
  <2>4. CASE EnqueueOpen(o)
    <3>1. /\ \A q \in Opens \ {o} : routes'[q] = routes[q] /\ slots'[q] = slots[q]
          /\ routes'[o].pc = "queued"
      BY <2>4 DEF EnqueueOpen, TypeOK, Route
    <3> QED
      BY <3>1 DEF RouteInv
  <2> QED
    BY <2>1, <2>2, <2>3, <2>4
<1>4. CASE Environment
  <2>1. routes' = routes /\ \A s \in Opens : slots[s].state = "none" => slots'[s].state = "none"
    <3>1. CASE Tick
      BY <3>1 DEF Tick, TypeOK, Slot
    <3>2. CASE RecoveryEnds
      BY <3>2 DEF RecoveryEnds
    <3>3. ASSUME NEW o \in Opens, HostCounts(o)
          PROVE  routes' = routes /\ \A s \in Opens : slots[s].state = "none" => slots'[s].state = "none"
      BY <3>3 DEF HostCounts, TypeOK, Slot
    <3>4. ASSUME NEW o \in Opens, ExpiresAtPasses(o)
          PROVE  routes' = routes /\ \A s \in Opens : slots'[s].state = slots[s].state
      BY <3>4 DEF ExpiresAtPasses, TypeOK, Slot
    <3>5. ASSUME NEW o \in Opens, SlotGone(o)
          PROVE  routes' = routes /\ \A s \in Opens : slots'[s].state = slots[s].state
      BY <3>5 DEF SlotGone, TypeOK, Slot
    <3> QED
      BY <1>4, <3>1, <3>2, <3>3, <3>4, <3>5 DEF Environment
  <2> QED
    BY <2>1 DEF RouteInv
<1> QED
  BY <1>1, <1>2, <1>3, <1>4 DEF Next

LEMMA LeaseTick ==
  ASSUME TypeOK, LeaseInv, Tick
  PROVE  LeaseInv'
<1>1. ASSUME NEW p \in Noticers
      PROVE  /\ noticers'[p].pc = noticers[p].pc /\ noticers'[p].slot = noticers[p].slot
             /\ noticers[p].pc # "idle" =>
                  noticers[p].age < Timeout /\ noticers'[p].age = noticers[p].age + 1
  BY DEF Tick, TypeOK, Noticer
<1>2. ASSUME NEW s \in Opens
      PROVE  /\ slots'[s].state = slots[s].state /\ slots'[s].noticed = slots[s].noticed
             /\ slots'[s].gone = slots[s].gone
             /\ slots[s].noticing # Never => slots'[s].noticing = Older(slots[s].noticing, OldAge)
  BY DEF Tick, TypeOK, Slot
<1>3. \A p \in Noticers, s \in Opens : Holds(p, s)' <=> Holds(p, s)
  BY <1>1 DEF Holds
<1>4. OneNoticer'
  BY <1>3 DEF LeaseInv, OneNoticer
<1>5. ASSUME NEW p \in Noticers
      PROVE  Holder(p)'
  <2>1. noticers'[p].pc # "idle" => noticers'[p].slot \in Opens
    BY <1>1 DEF LeaseInv, Holder
  <2>2. ASSUME NEW s \in Opens, Holds(p, s)', ~slots'[s].gone
        PROVE  slots'[s].noticing = noticers'[p].age
    <3>1. Holds(p, s) /\ slots[s].noticing = noticers[p].age
      BY <1>2, <1>3, <2>2 DEF LeaseInv, Holder
    <3>2. noticers[p].age \in 0..Timeout /\ noticers[p].age < Timeout
          /\ noticers'[p].age = noticers[p].age + 1
      BY <1>1, <3>1 DEF Holds, TypeOK, Noticer
    <3>3. slots[s].noticing # Never /\ slots[s].noticing < OldAge
      BY <3>1, <3>2, BoundsTyped, TimesAssumption
    <3> QED
      BY <1>2, <3>1, <3>2, <3>3 DEF Older
  <2> QED
    BY <1>2, <1>3, <2>1, <2>2 DEF LeaseInv, Holder
<1> QED
  BY <1>4, <1>5 DEF LeaseInv

LEMMA LeaseEnvironment ==
  ASSUME TypeOK, LeaseInv, Environment
  PROVE  LeaseInv'
<1>1. CASE Tick
  BY <1>1, LeaseTick
<1>2. CASE RecoveryEnds
  BY <1>2, LeaseKept DEF RecoveryEnds
<1>3. ASSUME NEW o \in Opens, HostCounts(o)
      PROVE  LeaseInv'
  BY <1>3, LeaseKept DEF HostCounts, TypeOK, Slot
<1>4. ASSUME NEW o \in Opens, ExpiresAtPasses(o)
      PROVE  LeaseInv'
  BY <1>4, LeaseKept DEF ExpiresAtPasses, TypeOK, Slot
<1>5. ASSUME NEW o \in Opens, SlotGone(o)
      PROVE  LeaseInv'
  BY <1>5, LeaseKept DEF SlotGone, TypeOK, Slot
<1> QED
  BY <1>1, <1>2, <1>3, <1>4, <1>5 DEF Environment

LEMMA LeaseOpenRoute ==
  ASSUME TypeOK, LeaseInv, RouteInv, OpenRoute
  PROVE  LeaseInv'
<1>1. PICK o \in Opens : \/ OpenRead(o) \/ GatePasses(o) \/ GateRefuses(o)
                         \/ EnqueueOpen(o) \/ RecordOpenId(o) \/ RouteStops(o)
  BY DEF OpenRoute
<1>2. CASE EnqueueOpen(o)
  BY <1>2, LeaseKept DEF EnqueueOpen, RouteInv, TypeOK, Slot
<1>3. CASE ~EnqueueOpen(o)
  BY <1>1, <1>3, LeaseKept DEF OpenRead, GatePasses, GateRefuses, RecordOpenId, RouteStops
<1> QED
  BY <1>2, <1>3

(* The lease keeps a claim to one invocation at a time, whatever the number of *)
(* callers: it needs only that no invocation runs as long as a claim stands.   *)
THEOREM Lease == Spec => [](TypeOK /\ RouteInv /\ LeaseInv)
<1>1. Init => RouteInv /\ LeaseInv
  BY LeaseInit DEF Init, RouteInv, NoSlot
<1>2. TypeOK /\ RouteInv /\ LeaseInv /\ [Next]_vars => LeaseInv'
  <2>1. CASE UNCHANGED vars
    BY <2>1, LeaseKept DEF vars
  <2>2. CASE Next
    BY <2>2, LeaseNotice, LeaseOpenRoute, LeaseEnvironment DEF Next
  <2> QED
    BY <2>1, <2>2
<1> QED
  BY <1>1, <1>2, RouteStep, Typing, PTL DEF Spec

THEOREM OneNoticerAtATime == Spec => []OneNoticer
<1>1. LeaseInv => OneNoticer
  BY DEF LeaseInv
<1> QED
  BY <1>1, Lease, PTL

--------------------------------------------------------------------------------
(* The emails.  Beyond the mails whose notice was lost there is one at most,  *)
(* that of the notice that has just sent it or that recorded it.              *)

MailInv ==
  \A s \in Opens :
    /\ mails[s] <= 1 + unrecorded[s]
    /\ \/ slots[s].noticed
       \/ \E p \in Noticers : noticers[p].slot = s /\ noticers[p].pc = "mailed"
       \/ mails[s] <= unrecorded[s]

(* A step that sends nothing, unrecords nothing and interrupts no notice that *)
(* has sent its email.                                                        *)
LEMMA MailKept ==
  ASSUME MailInv, mails' = mails, unrecorded' = unrecorded,
         \A s \in Opens : slots[s].noticed => slots'[s].noticed,
         \A p \in Noticers :
           noticers[p].pc = "mailed" =>
             \/ noticers'[p].pc = "mailed" /\ noticers'[p].slot = noticers[p].slot
             \/ noticers[p].slot \in Opens => slots'[noticers[p].slot].noticed
  PROVE  MailInv'
BY DEF MailInv

LEMMA MailNotice ==
  ASSUME TypeOK, LeaseInv, MailInv, Notice
  PROVE  MailInv'
<1>1. PICK p \in Noticers :
        \/ AuditAttempt(p) \/ MailAttempt(p) \/ Stop(p)
        \/ \E s \in Opens : Look(p, s) \/ Sweep(p, s) \/ Claim(p, s) \/ Done(p, s)
  BY DEF Notice
<1>2. CASE AuditAttempt(p)
  BY <1>2, MailKept DEF AuditAttempt, TypeOK, Noticer
<1>3. CASE MailAttempt(p)
  <2> DEFINE s == noticers[p].slot
  <2>1. noticers[p].pc = "audited" /\ s \in Opens
    BY <1>3 DEF MailAttempt, LeaseInv, Holder
  <2>2. Holds(p, s) /\ ~slots[s].noticed
    BY <2>1 DEF Holds, LeaseInv, Holder
  <2>3. \A q \in Noticers : ~(noticers[q].slot = s /\ noticers[q].pc = "mailed")
    BY <2>1, <2>2 DEF LeaseInv, OneNoticer, Holds
  <2>4. mails[s] <= unrecorded[s]
    BY <2>1, <2>2, <2>3 DEF MailInv
  <2>5. /\ mails'[s] = mails[s] + 1
        /\ \A t \in Opens \ {s} : mails'[t] = mails[t]
        /\ noticers'[p].pc = "mailed" /\ noticers'[p].slot = s
        /\ \A q \in Noticers \ {p} : noticers'[q] = noticers[q]
        /\ slots' = slots /\ unrecorded' = unrecorded
    BY <1>3, <2>1 DEF MailAttempt, TypeOK, Noticer
  <2>6. mails[s] \in Nat /\ unrecorded[s] \in Nat
    BY <2>1 DEF TypeOK
  <2>7. mails'[s] <= 1 + unrecorded'[s]
    BY <2>4, <2>5, <2>6
  <2>8. ASSUME NEW t \in Opens \ {s}
        PROVE  \/ slots'[t].noticed
               \/ \E q \in Noticers : noticers'[q].slot = t /\ noticers'[q].pc = "mailed"
               \/ mails'[t] <= unrecorded'[t]
    <3>1. CASE \E q \in Noticers : noticers[q].slot = t /\ noticers[q].pc = "mailed"
      BY <2>1, <2>5, <3>1
    <3>2. CASE slots[t].noticed \/ mails[t] <= unrecorded[t]
      BY <2>5, <3>2
    <3> QED
      BY <3>1, <3>2 DEF MailInv
  <2> QED
    BY <2>5, <2>7, <2>8 DEF MailInv
<1>4. CASE Stop(p)
  <2>1. CASE noticers[p].pc # "mailed"
    BY <1>4, <2>1, MailKept DEF Stop, TypeOK
  <2>2. CASE noticers[p].pc = "mailed"
    <3> DEFINE s == noticers[p].slot
    <3>1. s \in Opens
      BY <2>2 DEF LeaseInv, Holder
    <3>2. /\ unrecorded'[s] = unrecorded[s] + 1
          /\ \A t \in Opens \ {s} : unrecorded'[t] = unrecorded[t]
          /\ mails' = mails /\ slots' = slots
          /\ \A q \in Noticers \ {p} : noticers'[q] = noticers[q]
      BY <1>4, <2>2, <3>1 DEF Stop, TypeOK
    <3>3. mails[s] <= 1 + unrecorded[s] /\ mails[s] \in Nat /\ unrecorded[s] \in Nat
      BY <3>1 DEF MailInv, TypeOK
    <3>4. mails'[s] <= unrecorded'[s] /\ mails'[s] <= 1 + unrecorded'[s]
      BY <3>2, <3>3
    <3>5. ASSUME NEW t \in Opens \ {s}
          PROVE  \/ slots'[t].noticed
                 \/ \E q \in Noticers : noticers'[q].slot = t /\ noticers'[q].pc = "mailed"
                 \/ mails'[t] <= unrecorded'[t]
      BY <3>2 DEF MailInv
    <3> QED
      BY <3>2, <3>4, <3>5 DEF MailInv
  <2> QED
    BY <2>1, <2>2
<1>5. ASSUME NEW s \in Opens, Look(p, s) \/ Sweep(p, s)
      PROVE  MailInv'
  <2>1. noticers[p].pc = "idle" /\ slots' = slots /\ mails' = mails /\ unrecorded' = unrecorded
    BY <1>5 DEF Look, Sweep, ghost
  <2>2. \A q \in Noticers : noticers[q].pc = "mailed" => noticers'[q] = noticers[q]
    BY <1>5, <2>1 DEF Look, Sweep, TypeOK
  <2> QED
    BY <2>1, <2>2, MailKept
<1>6. ASSUME NEW s \in Opens, Claim(p, s)
      PROVE  MailInv'
  <2>1. noticers[p].pc = "start" /\ mails' = mails /\ unrecorded' = unrecorded
    BY <1>6 DEF Claim, ghost
  <2>2. \A q \in Noticers : noticers[q].pc = "mailed" => noticers'[q] = noticers[q]
    BY <1>6, <2>1 DEF Claim, TypeOK
  <2>3. \A t \in Opens : slots'[t].noticed = slots[t].noticed
    BY <1>6 DEF Claim, TypeOK, Slot
  <2> QED
    BY <2>1, <2>2, <2>3, MailKept
<1>7. ASSUME NEW s \in Opens, Done(p, s)
      PROVE  MailInv'
  <2>1. noticers[p].slot = s /\ mails' = mails /\ unrecorded' = unrecorded
    BY <1>7 DEF Done, ghost
  <2>2. \A q \in Noticers \ {p} : noticers'[q] = noticers[q]
    BY <1>7 DEF Done, TypeOK
  <2>3. slots'[s].noticed /\ \A t \in Opens : slots[t].noticed => slots'[t].noticed
    BY <1>7 DEF Done, TypeOK, Slot
  <2> QED
    BY <2>1, <2>2, <2>3, MailKept
<1> QED
  BY <1>1, <1>2, <1>3, <1>4, <1>5, <1>6, <1>7

LEMMA MailOthers ==
  ASSUME TypeOK, MailInv, OpenRoute \/ Environment
  PROVE  MailInv'
<1>1. ASSUME NEW o \in Opens,
             \/ OpenRead(o) \/ GatePasses(o) \/ GateRefuses(o)
             \/ EnqueueOpen(o) \/ RecordOpenId(o) \/ RouteStops(o)
      PROVE  MailInv'
  <2>1. CASE EnqueueOpen(o)
    BY <2>1, MailKept DEF EnqueueOpen, ghost, TypeOK, Slot
  <2>2. CASE ~EnqueueOpen(o)
    BY <1>1, <2>2, MailKept
       DEF OpenRead, GatePasses, GateRefuses, RecordOpenId, RouteStops, ghost
  <2> QED
    BY <2>1, <2>2
<1>2. CASE Tick
  <2>1. /\ mails' = mails /\ unrecorded' = unrecorded
        /\ \A s \in Opens : slots'[s].noticed = slots[s].noticed
    BY <1>2 DEF Tick, ghost, TypeOK, Slot
  <2>2. \A p \in Noticers : noticers'[p].pc = noticers[p].pc /\ noticers'[p].slot = noticers[p].slot
    BY <1>2 DEF Tick, TypeOK, Noticer
  <2> QED
    BY <2>1, <2>2, MailKept
<1>3. CASE RecoveryEnds
  BY <1>3, MailKept DEF RecoveryEnds, ghost
<1>4. ASSUME NEW o \in Opens, HostCounts(o)
      PROVE  MailInv'
  BY <1>4, MailKept DEF HostCounts, ghost, TypeOK, Slot
<1>5. ASSUME NEW o \in Opens, ExpiresAtPasses(o)
      PROVE  MailInv'
  BY <1>5, MailKept DEF ExpiresAtPasses, ghost, TypeOK, Slot
<1>6. ASSUME NEW o \in Opens, SlotGone(o)
      PROVE  MailInv'
  BY <1>6, MailKept DEF SlotGone, ghost, TypeOK, Slot
<1> QED
  BY <1>1, <1>2, <1>3, <1>4, <1>5, <1>6 DEF OpenRoute, Environment

(* Each attempt is mailed once, and once more for each notice that stopped *)
(* between its email and its record.                                       *)
THEOREM MailedOnceEach == Spec => []MailedOnce
<1>1. Init => MailInv
  BY DEF Init, MailInv
<1>2. TypeOK /\ LeaseInv /\ MailInv /\ [Next]_vars => MailInv'
  <2>1. CASE UNCHANGED vars
    BY <2>1, MailKept DEF vars
  <2>2. CASE Next
    BY <2>2, MailNotice, MailOthers DEF Next
  <2> QED
    BY <2>1, <2>2
<1>3. MailInv => MailedOnce
  BY DEF MailInv, MailedOnce
<1> QED
  BY <1>1, <1>2, <1>3, Lease, PTL DEF Spec

--------------------------------------------------------------------------------
(* The refinement.  What is given up is noticed, what is noticed was counted, *)
(* and a notice that is past its audit entry (its email) has written (sent)   *)
(* one: when it records the attempt, every duty is done.                      *)

WorkInv ==
  /\ \A s \in Opens : /\ slots[s].failed => slots[s].noticed
                      /\ slots[s].noticed => slots[s].state = "counted"
  /\ \A p \in Noticers, s \in Opens : noticers[p].slot = s =>
       /\ noticers[p].pc \in {"audited", "mailed"} => audits[s] > 0
       /\ noticers[p].pc = "mailed" => mails[s] > 0

(* A step that takes no notice past its audit entry or its email. *)
LEMMA WorkKept ==
  ASSUME WorkInv, audits' = audits, mails' = mails,
         \A s \in Opens :
           /\ slots'[s].failed => slots'[s].noticed
           /\ slots'[s].noticed => slots'[s].state = "counted",
         \A p \in Noticers :
           noticers'[p].pc \in {"audited", "mailed"} =>
             noticers'[p].pc = noticers[p].pc /\ noticers'[p].slot = noticers[p].slot
  PROVE  WorkInv'
BY DEF WorkInv

(* What one step of one notice does to the slots and to the duties done. *)
LEMMA WorkNotice ==
  ASSUME TypeOK, LeaseInv, WorkInv, Notice
  PROVE  WorkInv'
<1>1. PICK p \in Noticers :
        \/ AuditAttempt(p) \/ MailAttempt(p) \/ Stop(p)
        \/ \E s \in Opens : Look(p, s) \/ Sweep(p, s) \/ Claim(p, s) \/ Done(p, s)
  BY DEF Notice
<1>2. CASE AuditAttempt(p)
  <2> DEFINE s == noticers[p].slot
  <2>1. noticers[p].pc = "claimed" /\ s \in Opens /\ audits[s] \in Nat
    BY <1>2 DEF AuditAttempt, LeaseInv, Holder, TypeOK
  <2>2. /\ audits'[s] = audits[s] + 1 /\ \A t \in Opens \ {s} : audits'[t] = audits[t]
        /\ noticers'[p].pc = "audited" /\ noticers'[p].slot = s
        /\ \A q \in Noticers \ {p} : noticers'[q] = noticers[q]
        /\ slots' = slots /\ mails' = mails
    BY <1>2, <2>1 DEF AuditAttempt, TypeOK, Noticer
  <2>3. audits'[s] > 0
    BY <2>1, <2>2
  <2> QED
    BY <2>2, <2>3 DEF WorkInv
<1>3. CASE MailAttempt(p)
  <2> DEFINE s == noticers[p].slot
  <2>1. noticers[p].pc = "audited" /\ s \in Opens /\ mails[s] \in Nat
    BY <1>3 DEF MailAttempt, LeaseInv, Holder, TypeOK
  <2>2. /\ mails'[s] = mails[s] + 1 /\ \A t \in Opens \ {s} : mails'[t] = mails[t]
        /\ noticers'[p].pc = "mailed" /\ noticers'[p].slot = s
        /\ \A q \in Noticers \ {p} : noticers'[q] = noticers[q]
        /\ slots' = slots /\ audits' = audits
    BY <1>3, <2>1 DEF MailAttempt, TypeOK, Noticer
  <2>3. mails'[s] > 0 /\ audits'[s] > 0
    BY <2>1, <2>2 DEF WorkInv
  <2> QED
    BY <2>2, <2>3 DEF WorkInv
<1>4. CASE Stop(p)
  <2>1. /\ slots' = slots /\ audits' = audits /\ mails' = mails
        /\ noticers'[p].pc = "idle" /\ \A q \in Noticers \ {p} : noticers'[q] = noticers[q]
    BY <1>4 DEF Stop, IdleNoticer, TypeOK
  <2> QED
    BY <2>1 DEF WorkInv
<1>5. ASSUME NEW s \in Opens, Look(p, s) \/ Sweep(p, s)
      PROVE  WorkInv'
  <2>1. /\ slots' = slots /\ audits' = audits /\ mails' = mails
        /\ noticers'[p].pc = "start" /\ \A q \in Noticers \ {p} : noticers'[q] = noticers[q]
    BY <1>5 DEF Look, Sweep, ghost, TypeOK
  <2> QED
    BY <2>1 DEF WorkInv
<1>6. ASSUME NEW s \in Opens, Claim(p, s)
      PROVE  WorkInv'
  <2>1. /\ audits' = audits /\ mails' = mails
        /\ noticers'[p].pc \in {"claimed", "giveup"}
        /\ \A q \in Noticers \ {p} : noticers'[q] = noticers[q]
    BY <1>6 DEF Claim, ghost, TypeOK, Noticer
  <2>2. \A t \in Opens : /\ slots'[t].noticed = slots[t].noticed
                         /\ slots'[t].failed = slots[t].failed
                         /\ slots'[t].state = slots[t].state
    BY <1>6 DEF Claim, TypeOK, Slot
  <2> QED
    BY <2>1, <2>2 DEF WorkInv
<1>7. ASSUME NEW s \in Opens, Done(p, s)
      PROVE  WorkInv'
  <2>1. /\ audits' = audits /\ mails' = mails
        /\ noticers'[p].pc = "idle" /\ \A q \in Noticers \ {p} : noticers'[q] = noticers[q]
    BY <1>7 DEF Done, ghost, IdleNoticer, TypeOK
  <2>2. slots[s].state = "counted"
    BY <1>7 DEF Done, WorkDone, Holds, LeaseInv, Holder
  <2>3. /\ slots'[s].noticed /\ slots'[s].state = slots[s].state
        /\ \A t \in Opens \ {s} : slots'[t] = slots[t]
    BY <1>7 DEF Done, TypeOK, Slot
  <2> QED
    BY <2>1, <2>2, <2>3 DEF WorkInv
<1> QED
  BY <1>1, <1>2, <1>3, <1>4, <1>5, <1>6, <1>7

LEMMA WorkOthers ==
  ASSUME TypeOK, RouteInv, WorkInv, OpenRoute \/ Environment
  PROVE  WorkInv'
<1>1. ASSUME NEW o \in Opens,
             \/ OpenRead(o) \/ GatePasses(o) \/ GateRefuses(o)
             \/ RecordOpenId(o) \/ RouteStops(o)
      PROVE  WorkInv'
  <2>1. slots' = slots /\ noticers' = noticers /\ audits' = audits /\ mails' = mails
    BY <1>1 DEF OpenRead, GatePasses, GateRefuses, RecordOpenId, RouteStops, ghost
  <2> QED
    BY <2>1 DEF WorkInv
<1>2. ASSUME NEW o \in Opens, EnqueueOpen(o)
      PROVE  WorkInv'
  <2>1. slots[o].state = "none" /\ ~slots[o].noticed /\ ~slots[o].failed
    BY <1>2 DEF EnqueueOpen, RouteInv, WorkInv
  <2>2. /\ noticers' = noticers /\ audits' = audits /\ mails' = mails
        /\ slots'[o].noticed = slots[o].noticed /\ slots'[o].failed = slots[o].failed
        /\ \A t \in Opens \ {o} : slots'[t] = slots[t]
    BY <1>2 DEF EnqueueOpen, ghost, TypeOK, Slot
  <2> QED
    BY <2>1, <2>2 DEF WorkInv
<1>3. CASE Tick
  <2>1. /\ audits' = audits /\ mails' = mails
        /\ \A s \in Opens : /\ slots'[s].noticed = slots[s].noticed
                            /\ slots'[s].failed = slots[s].failed
                            /\ slots'[s].state = slots[s].state
    BY <1>3 DEF Tick, ghost, TypeOK, Slot
  <2>2. \A p \in Noticers : noticers'[p].pc = noticers[p].pc /\ noticers'[p].slot = noticers[p].slot
    BY <1>3 DEF Tick, TypeOK, Noticer
  <2> QED
    BY <2>1, <2>2 DEF WorkInv
<1>4. CASE RecoveryEnds
  BY <1>4 DEF RecoveryEnds, ghost, WorkInv
<1>5. ASSUME NEW o \in Opens, HostCounts(o) \/ ExpiresAtPasses(o) \/ SlotGone(o)
      PROVE  WorkInv'
  <2>1. noticers' = noticers /\ audits' = audits /\ mails' = mails
    BY <1>5 DEF HostCounts, ExpiresAtPasses, SlotGone, ghost
  <2>2. /\ slots'[o].noticed = slots[o].noticed /\ slots'[o].failed = slots[o].failed
        /\ slots'[o].state = "counted" \/ slots'[o].state = slots[o].state
        /\ \A t \in Opens \ {o} : slots'[t] = slots[t]
    BY <1>5 DEF HostCounts, ExpiresAtPasses, SlotGone, TypeOK, Slot
  <2> QED
    BY <2>1, <2>2 DEF WorkInv
<1> QED
  BY <1>1, <1>2, <1>3, <1>4, <1>5 DEF OpenRoute, Environment

THEOREM Work == Spec => []WorkInv
<1>1. Init => WorkInv
  BY DEF Init, WorkInv, NoSlot, IdleNoticer
<1>2. TypeOK /\ RouteInv /\ LeaseInv /\ WorkInv /\ [Next]_vars => WorkInv'
  <2>1. CASE UNCHANGED vars
    BY <2>1 DEF vars, WorkInv
  <2>2. CASE Next
    BY <2>2, WorkNotice, WorkOthers DEF Next
  <2> QED
    BY <2>1, <2>2
<1> QED
  BY <1>1, <1>2, Lease, PTL DEF Spec

(* A step that changes nothing the abstract protocol sees. *)
LEMMA Stutters ==
  ASSUME \A s \in Opens : /\ slots'[s].noticed = slots[s].noticed
                          /\ slots'[s].failed = slots[s].failed
                          /\ slots'[s].state = slots[s].state
                          /\ slots'[s].gone = slots[s].gone,
         audits' = audits, mails' = mails
  PROVE  Stage' = Stage /\ DutiesDone' = DutiesDone
BY DEF Stage, DutiesDone

(* A step that moves one attempt in the abstract protocol. *)
LEMMA StageMoves ==
  ASSUME NEW s \in Opens, NEW stage,
         \A t \in Opens \ {s} : slots'[t] = slots[t],
         Stage'[s] = stage
  PROVE  Stage' = [Stage EXCEPT ![s] = stage]
<1>1. \A t \in Opens \ {s} : Stage'[t] = Stage[t]
  BY DEF Stage
<1>2. Stage' = [t \in Opens |-> Stage'[t]] /\ Stage = [t \in Opens |-> Stage[t]]
  BY DEF Stage
<1> QED
  BY <1>1, <1>2

(* A step that does one duty of one attempt. *)
LEMMA DutyDone ==
  ASSUME NEW s \in Opens, NEW d,
         \A t \in Opens \ {s} : audits'[t] = audits[t] /\ mails'[t] = mails[t],
         DutiesDone'[s] = DutiesDone[s] \cup {d}
  PROVE  DutiesDone' = [DutiesDone EXCEPT ![s] = @ \cup {d}]
<1>1. \A t \in Opens \ {s} : DutiesDone'[t] = DutiesDone[t]
  BY DEF DutiesDone
<1> QED
  BY <1>1 DEF DutiesDone

(* A held attempt is due, or lost with its slot. *)
LEMMA HeldDue ==
  ASSUME LeaseInv, WorkInv, NEW p \in Noticers, NEW s \in Opens, Holds(p, s)
  PROVE  Stage[s] = IF slots[s].gone THEN "lost" ELSE "due"
<1>1. slots[s].state = "counted" /\ ~slots[s].noticed /\ ~slots[s].failed
  BY DEF LeaseInv, Holder, WorkInv
<1> QED
  BY <1>1 DEF Stage

LEMMA ProtocolNotice ==
  ASSUME TypeOK, LeaseInv, WorkInv, Notice
  PROVE  [Protocol!Next]_<<Stage, DutiesDone>>
<1>1. PICK p \in Noticers :
        \/ AuditAttempt(p) \/ MailAttempt(p) \/ Stop(p)
        \/ \E s \in Opens : Look(p, s) \/ Sweep(p, s) \/ Claim(p, s) \/ Done(p, s)
  BY DEF Notice
<1>2. CASE AuditAttempt(p)
  <2> DEFINE s == noticers[p].slot
  <2>1. s \in Opens /\ Holds(p, s) /\ audits[s] \in Nat
    BY <1>2 DEF AuditAttempt, LeaseInv, Holder, Holds, TypeOK
  <2>2. /\ audits'[s] = audits[s] + 1 /\ \A t \in Opens \ {s} : audits'[t] = audits[t]
        /\ slots' = slots /\ mails' = mails
    BY <1>2, <2>1 DEF AuditAttempt, TypeOK
  <2>3. DutiesDone'[s] = DutiesDone[s] \cup {"audit"}
    BY <2>1, <2>2 DEF DutiesDone
  <2>4. Stage' = Stage
    BY <2>2 DEF Stage
  <2>5. Protocol!Do(s, "audit")
    BY <2>1, <2>2, <2>3, <2>4, HeldDue, DutyDone DEF Protocol!Do
  <2> QED
    BY <2>1, <2>5 DEF Protocol!Next
<1>3. CASE MailAttempt(p)
  <2> DEFINE s == noticers[p].slot
  <2>1. s \in Opens /\ Holds(p, s) /\ mails[s] \in Nat
    BY <1>3 DEF MailAttempt, LeaseInv, Holder, Holds, TypeOK
  <2>2. /\ mails'[s] = mails[s] + 1 /\ \A t \in Opens \ {s} : mails'[t] = mails[t]
        /\ slots' = slots /\ audits' = audits
    BY <1>3, <2>1 DEF MailAttempt, TypeOK
  <2>3. DutiesDone'[s] = DutiesDone[s] \cup {"mail"}
    BY <2>1, <2>2 DEF DutiesDone
  <2>4. Stage' = Stage
    BY <2>2 DEF Stage
  <2>5. Protocol!Do(s, "mail")
    BY <2>1, <2>2, <2>3, <2>4, HeldDue, DutyDone DEF Protocol!Do
  <2> QED
    BY <2>1, <2>5 DEF Protocol!Next
<1>4. CASE Stop(p)
  BY <1>4, Stutters DEF Stop
<1>5. ASSUME NEW s \in Opens, Look(p, s) \/ Sweep(p, s)
      PROVE  [Protocol!Next]_<<Stage, DutiesDone>>
  BY <1>5, Stutters DEF Look, Sweep, ghost
<1>6. ASSUME NEW s \in Opens, Claim(p, s)
      PROVE  [Protocol!Next]_<<Stage, DutiesDone>>
  BY <1>6, Stutters DEF Claim, ghost, TypeOK, Slot
<1>7. ASSUME NEW s \in Opens, Done(p, s)
      PROVE  [Protocol!Next]_<<Stage, DutiesDone>>
  <2>1. /\ audits' = audits /\ mails' = mails
        /\ slots'[s].noticed
        /\ slots'[s].failed = (slots[s].failed \/ noticers[p].pc = "giveup")
        /\ \A t \in Opens \ {s} : slots'[t] = slots[t]
    BY <1>7 DEF Done, ghost, TypeOK, Slot
  <2>2. /\ noticers[p].slot = s /\ noticers[p].pc \in {"mailed", "giveup"}
        /\ ~slots[s].gone /\ Holds(p, s)
    BY <1>7 DEF Done, WorkDone, Holds
  <2>3. Stage[s] = "due" /\ ~slots[s].failed
    BY <2>2, HeldDue DEF LeaseInv, Holder, WorkInv
  <2>4. DutiesDone' = DutiesDone
    BY <2>1 DEF DutiesDone
  <2>5. CASE noticers[p].pc = "giveup"
    <3>1. Stage'[s] = "abandoned"
      BY <2>1, <2>5 DEF Stage
    <3>2. Protocol!Abandon(s)
      BY <2>1, <2>3, <2>4, <3>1, StageMoves DEF Protocol!Abandon
    <3> QED
      BY <3>2 DEF Protocol!Next
  <2>6. CASE noticers[p].pc = "mailed"
    <3>1. Stage'[s] = "recorded"
      BY <2>1, <2>3, <2>6 DEF Stage
    <3>2. DutiesDone[s] = {"audit", "mail"}
      BY <2>2, <2>6 DEF WorkInv, DutiesDone
    <3>3. Protocol!Record(s)
      BY <2>1, <2>3, <2>4, <3>1, <3>2, StageMoves DEF Protocol!Record
    <3> QED
      BY <3>3 DEF Protocol!Next
  <2> QED
    BY <2>2, <2>5, <2>6
<1> QED
  BY <1>1, <1>2, <1>3, <1>4, <1>5, <1>6, <1>7

LEMMA ProtocolOthers ==
  ASSUME TypeOK, RouteInv, WorkInv, OpenRoute \/ Environment
  PROVE  [Protocol!Next]_<<Stage, DutiesDone>>
<1>1. ASSUME NEW o \in Opens,
             \/ OpenRead(o) \/ GatePasses(o) \/ GateRefuses(o)
             \/ RecordOpenId(o) \/ RouteStops(o)
      PROVE  [Protocol!Next]_<<Stage, DutiesDone>>
  <2>1. slots' = slots /\ audits' = audits /\ mails' = mails
    BY <1>1 DEF OpenRead, GatePasses, GateRefuses, RecordOpenId, RouteStops, ghost
  <2> QED
    BY <2>1, Stutters
<1>2. ASSUME NEW o \in Opens, EnqueueOpen(o)
      PROVE  [Protocol!Next]_<<Stage, DutiesDone>>
  <2>1. slots[o].state = "none" /\ ~slots[o].noticed /\ ~slots[o].failed
    BY <1>2 DEF EnqueueOpen, RouteInv, WorkInv
  <2>2. /\ audits' = audits /\ mails' = mails
        /\ slots'[o].noticed = slots[o].noticed /\ slots'[o].failed = slots[o].failed
        /\ slots'[o].state = "queued"
        /\ \A t \in Opens \ {o} : slots'[t] = slots[t]
    BY <1>2 DEF EnqueueOpen, ghost, TypeOK, Slot
  <2>3. Stage'[o] = Stage[o]
    BY <2>1, <2>2 DEF Stage
  <2>4. Stage' = Stage
    BY <2>2, <2>3, StageMoves DEF Stage
  <2> QED
    BY <2>2, <2>4 DEF DutiesDone
<1>3. CASE Tick
  BY <1>3, Stutters DEF Tick, ghost, TypeOK, Slot
<1>4. CASE RecoveryEnds
  BY <1>4, Stutters DEF RecoveryEnds, ghost
<1>5. ASSUME NEW o \in Opens, HostCounts(o)
      PROVE  [Protocol!Next]_<<Stage, DutiesDone>>
  <2>1. /\ slots[o].state = "queued" /\ ~slots[o].noticed /\ ~slots[o].failed /\ ~slots[o].gone
    BY <1>5 DEF HostCounts, WorkInv
  <2>2. /\ audits' = audits /\ mails' = mails
        /\ slots'[o].noticed = slots[o].noticed /\ slots'[o].failed = slots[o].failed
        /\ slots'[o].state = "counted" /\ slots'[o].gone = slots[o].gone
        /\ \A t \in Opens \ {o} : slots'[t] = slots[t]
    BY <1>5 DEF HostCounts, ghost, TypeOK, Slot
  <2>3. Stage[o] = "none" /\ Stage'[o] = "due"
    BY <2>1, <2>2 DEF Stage
  <2>4. Protocol!Arise(o)
    BY <2>2, <2>3, StageMoves DEF Protocol!Arise, DutiesDone
  <2> QED
    BY <2>4 DEF Protocol!Next
<1>6. ASSUME NEW o \in Opens, ExpiresAtPasses(o)
      PROVE  [Protocol!Next]_<<Stage, DutiesDone>>
  BY <1>6, Stutters DEF ExpiresAtPasses, ghost, TypeOK, Slot
<1>7. ASSUME NEW o \in Opens, SlotGone(o)
      PROVE  [Protocol!Next]_<<Stage, DutiesDone>>
  <2>1. /\ audits' = audits /\ mails' = mails
        /\ slots'[o].noticed = slots[o].noticed /\ slots'[o].failed = slots[o].failed
        /\ slots'[o].state = slots[o].state /\ slots'[o].gone /\ ~slots[o].gone
        /\ \A t \in Opens \ {o} : slots'[t] = slots[t]
    BY <1>7 DEF SlotGone, ghost, TypeOK, Slot
  <2>2. DutiesDone' = DutiesDone
    BY <2>1 DEF DutiesDone
  <2>3. CASE Stage[o] = "due"
    <3>1. Stage'[o] = "lost"
      BY <2>1, <2>3 DEF Stage
    <3>2. Protocol!Lose(o)
      BY <2>1, <2>2, <2>3, <3>1, StageMoves DEF Protocol!Lose
    <3> QED
      BY <3>2 DEF Protocol!Next
  <2>4. CASE Stage[o] # "due"
    <3>1. Stage'[o] = Stage[o]
      BY <2>1, <2>4 DEF Stage
    <3>2. Stage' = Stage
      BY <2>1, <3>1, StageMoves DEF Stage
    <3> QED
      BY <2>2, <3>2
  <2> QED
    BY <2>3, <2>4
<1> QED
  BY <1>1, <1>2, <1>3, <1>4, <1>5, <1>6, <1>7 DEF OpenRoute, Environment

(* Claim, work, record: an attempt is recorded as noticed only after its audit *)
(* entry and its email, by whatever interleaving of noticers, deaths, retries  *)
(* and the slot's expiry, and nothing is done for it once it is recorded.      *)
THEOREM Implements == Spec => ClaimedWorkedRecorded
<1>1. Init => Protocol!Init
  BY DEF Init, Protocol!Init, Stage, DutiesDone, NoSlot
<1>2. TypeOK /\ RouteInv /\ LeaseInv /\ WorkInv /\ [Next]_vars
        => [Protocol!Next]_<<Stage, DutiesDone>>
  <2>1. CASE UNCHANGED vars
    BY <2>1, Stutters DEF vars
  <2>2. CASE Next
    BY <2>2, ProtocolNotice, ProtocolOthers DEF Next
  <2> QED
    BY <2>1, <2>2
<1> QED
  BY <1>1, <1>2, Lease, Work, PTL DEF Spec, ClaimedWorkedRecorded, Protocol!Spec

--------------------------------------------------------------------------------
(* The gate of the next open.  What was counted when an open was read stays    *)
(* counted; the gate works through the list it took then from its front, and  *)
(* what it has passed was reported.                                           *)

Passed(o, s) == s \in before[o] => slots[s].noticed \/ slots[s].gone

GateAt(o) ==
  LET q    == Last(routes[o].ids, KeepIds)
      left == routes[o].left
  IN  /\ \A s \in before[o] : slots[s].state = "counted"
      /\ routes[o].pc = "gate" =>
           /\ Len(left) <= Len(q)
           /\ \A i \in 1..Len(left) : left[i] = q[Len(q) - Len(left) + i]
           /\ \A i \in 1..(Len(q) - Len(left)) : Passed(o, q[i])
      /\ routes[o].pc = "queued" => \A i \in 1..Len(q) : Passed(o, q[i])

GateInv == \A o \in Opens : GateAt(o)

(* What a route holds is a list of opens. *)
LEMMA RouteTyped ==
  ASSUME TypeOK, NEW o \in Opens
  PROVE  /\ routes[o].ids \in Seq(Opens) /\ routes[o].left \in Seq(Opens)
         /\ Last(routes[o].ids, KeepIds) \in Seq(Opens)
         /\ Len(Last(routes[o].ids, KeepIds)) \in Nat /\ Len(routes[o].left) \in Nat
<1>1. routes[o].ids \in Seq(Opens) /\ routes[o].left \in Seq(Opens)
  BY DEF TypeOK, Route
<1>2. Last(routes[o].ids, KeepIds) \in Seq(Opens)
  BY <1>1, LastTyped, TimesAssumption
<1> QED
  BY <1>1, <1>2, LenProperties

(* What is counted, noticed or gone stays so: an open whose route stands still *)
(* loses nothing of what it has passed.                                        *)
SlotsGrow ==
  \A s \in Opens :
    /\ slots[s].state = "counted" => slots'[s].state = "counted"
    /\ slots[s].noticed => slots'[s].noticed
    /\ slots[s].gone => slots'[s].gone

LEMMA GateAtKept ==
  ASSUME TypeOK, SlotsGrow, NEW o \in Opens, GateAt(o),
         routes'[o] = routes[o], before'[o] = before[o]
  PROVE  GateAt(o)'
<1>1. before[o] \subseteq Opens
  BY DEF TypeOK
<1>2. \A s : Passed(o, s) => Passed(o, s)'
  BY <1>1 DEF Passed, SlotsGrow
<1> QED
  BY <1>1, <1>2 DEF GateAt, Last, SlotsGrow

LEMMA GateKept ==
  ASSUME TypeOK, GateInv, SlotsGrow, routes' = routes, before' = before
  PROVE  GateInv'
BY GateAtKept DEF GateInv

LEMMA GateRoute ==
  ASSUME TypeOK, RouteInv, GateInv, OpenRoute
  PROVE  GateInv'
<1>1. PICK o \in Opens : \/ OpenRead(o) \/ GatePasses(o) \/ GateRefuses(o)
                         \/ EnqueueOpen(o) \/ RecordOpenId(o) \/ RouteStops(o)
  BY DEF OpenRoute
<1> DEFINE q    == Last(routes[o].ids, KeepIds)
           left == routes[o].left
<1>2. GateAt(o)
  BY DEF GateInv
<1>3. SUFFICES /\ SlotsGrow
               /\ \A r \in Opens \ {o} : routes'[r] = routes[r] /\ before'[r] = before[r]
               /\ GateAt(o)'
  BY GateAtKept DEF GateInv
<1>4. CASE OpenRead(o)
  <2>1. /\ slots' = slots
        /\ \A r \in Opens \ {o} : routes'[r] = routes[r] /\ before'[r] = before[r]
        /\ routes'[o].pc = "gate" /\ routes'[o].left = Last(openIds, KeepIds)
        /\ routes'[o].ids = openIds
        /\ before'[o] = {s \in Opens : Counted(s)}
    BY <1>4 DEF OpenRead, TypeOK
  <2>2. Last(openIds, KeepIds) \in Seq(Opens)
    BY LastTyped, TimesAssumption DEF TypeOK
  <2>3. GateAt(o)'
    <3> DEFINE r == Last(openIds, KeepIds)
    <3>1. Len(r) \in Nat
      BY <2>2, LenProperties
    <3>2. \A s \in before'[o] : slots'[s].state = "counted"
      BY <2>1 DEF Counted
    <3>3. Last(routes'[o].ids, KeepIds) = r
      BY <2>1
    <3> HIDE DEF r
    <3>4. /\ Len(r) - Len(r) = 0 /\ 1..(Len(r) - Len(r)) = {}
          /\ \A i \in 1..Len(r) : 0 + i = i
      BY <3>1
    <3>5. \A i \in 1..Len(r) : r[i] = r[Len(r) - Len(r) + i]
      BY <3>4
    <3>6. routes'[o].left = r
      BY <2>1 DEF r
    <3> QED
      BY <2>1, <3>1, <3>2, <3>3, <3>4, <3>5, <3>6 DEF GateAt, Last
  <2> QED
    BY <2>1, <2>3 DEF SlotsGrow
<1>5. CASE GatePasses(o)
  <2>1. /\ slots' = slots /\ before' = before
        /\ \A r \in Opens \ {o} : routes'[r] = routes[r]
        /\ routes'[o].pc = "gate" /\ routes'[o].left = Tail(left)
        /\ routes'[o].ids = routes[o].ids
        /\ routes[o].pc = "gate" /\ left # <<>> /\ Reported(Head(left))
    BY <1>5 DEF GatePasses, TypeOK, Route, ghost
  <2>2. /\ q \in Seq(Opens) /\ left \in Seq(Opens) /\ Len(q) \in Nat /\ Len(left) \in Nat
        /\ Len(left) > 0
    BY <2>1, RouteTyped, EmptySeq, LenProperties
  <2>3. /\ Len(Tail(left)) = Len(left) - 1
        /\ \A i \in 1..Len(left) - 1 : Tail(left)[i] = left[i + 1]
        /\ Head(left) = left[1]
    BY <2>1, <2>2, HeadTailProperties
  <2>4. /\ Len(left) <= Len(q)
        /\ \A i \in 1..Len(left) : left[i] = q[Len(q) - Len(left) + i]
        /\ \A i \in 1..(Len(q) - Len(left)) : Passed(o, q[i])
        /\ \A s \in before[o] : slots[s].state = "counted"
    BY <1>2, <2>1 DEF GateAt
  <2>5. Passed(o, Head(left))
    BY <2>1, <2>4 DEF Passed, Reported, Unnoticed, Counted
  <2> HIDE DEF q, left
  <2>6. Passed(o, q[Len(q) - Len(left) + 1])
    BY <2>2, <2>3, <2>4, <2>5
  <2>7. \A i \in 1..(Len(q) - (Len(left) - 1)) :
          i \in 1..(Len(q) - Len(left)) \/ i = Len(q) - Len(left) + 1
    BY <2>2, <2>4
  <2>8. \A i \in 1..(Len(q) - Len(Tail(left))) : Passed(o, q[i])
    BY <2>3, <2>4, <2>6, <2>7
  <2>9. \A i \in 1..Len(Tail(left)) : Tail(left)[i] = q[Len(q) - Len(Tail(left)) + i]
    <3> SUFFICES ASSUME NEW i \in 1..Len(left) - 1
                 PROVE  Tail(left)[i] = q[Len(q) - (Len(left) - 1) + i]
      BY <2>2, <2>3
    <3>1. i + 1 \in 1..Len(left) /\ Len(q) - Len(left) + (i + 1) = Len(q) - (Len(left) - 1) + i
      BY <2>2
    <3>2. Tail(left)[i] = left[i + 1]
      BY <2>3
    <3>3. left[i + 1] = q[Len(q) - Len(left) + (i + 1)]
      BY <2>4, <3>1
    <3> QED
      BY <3>1, <3>2, <3>3
  <2>10. Len(Tail(left)) <= Len(q)
    BY <2>2, <2>3, <2>4
  <2>11. q = Last(routes'[o].ids, KeepIds)
    BY <2>1 DEF q
  <2>12. \A s : Passed(o, s)' <=> Passed(o, s)
    BY <2>1 DEF Passed
  <2>13. GateAt(o)'
    BY <2>1, <2>4, <2>8, <2>9, <2>10, <2>11, <2>12 DEF GateAt, Last
  <2> QED
    BY <2>1, <2>13 DEF SlotsGrow
<1>6. CASE EnqueueOpen(o)
  <2>1. /\ before' = before
        /\ \A r \in Opens \ {o} : routes'[r] = routes[r] /\ slots'[r] = slots[r]
        /\ routes'[o].pc = "queued" /\ routes'[o].ids = routes[o].ids
        /\ routes[o].pc = "gate" /\ left = <<>>
        /\ slots'[o].noticed = slots[o].noticed /\ slots'[o].gone = slots[o].gone
        /\ slots[o].state = "none"
    BY <1>6 DEF EnqueueOpen, TypeOK, Route, Slot, ghost, RouteInv
  <2>2. SlotsGrow
    BY <2>1 DEF SlotsGrow
  <2>3. \A i \in 1..Len(q) : Passed(o, q[i])
    <3>1. Len(left) = 0 /\ Len(q) - 0 = Len(q)
      BY <2>1, RouteTyped
    <3> QED
      BY <1>2, <2>1, <3>1 DEF GateAt
  <2>4. \A s : Passed(o, s) => Passed(o, s)'
    BY <2>1, <2>2 DEF Passed, SlotsGrow, TypeOK
  <2>5. \A s \in before'[o] : slots'[s].state = "counted"
    BY <1>2, <2>1, <2>2 DEF GateAt, SlotsGrow, TypeOK
  <2>6. GateAt(o)'
    BY <2>1, <2>3, <2>4, <2>5 DEF GateAt, Last
  <2> QED
    BY <2>1, <2>2, <2>6
<1>7. CASE GateRefuses(o) \/ RecordOpenId(o) \/ RouteStops(o)
  <2>1. /\ slots' = slots /\ before' = before
        /\ \A r \in Opens \ {o} : routes'[r] = routes[r]
        /\ routes'[o].pc = "done"
    BY <1>7 DEF GateRefuses, RecordOpenId, RouteStops, NoRoute, TypeOK, ghost
  <2>2. GateAt(o)'
    BY <1>2, <2>1 DEF GateAt
  <2> QED
    BY <2>1, <2>2 DEF SlotsGrow
<1> QED
  BY <1>1, <1>4, <1>5, <1>6, <1>7

LEMMA GateNotice ==
  ASSUME TypeOK, GateInv, Notice \/ Environment
  PROVE  GateInv'
<1>1. CASE Notice
  <2> DEFINE Kept ==
        /\ routes' = routes /\ before' = before
        /\ \A s \in Opens : /\ slots'[s].state = slots[s].state /\ slots'[s].gone = slots[s].gone
                            /\ slots[s].noticed => slots'[s].noticed
  <2>1. Kept
    <3>1. ASSUME NEW p \in Noticers,
                 \/ AuditAttempt(p) \/ MailAttempt(p) \/ Stop(p)
                 \/ \E s \in Opens : Look(p, s) \/ Sweep(p, s)
          PROVE  routes' = routes /\ before' = before /\ slots' = slots
      BY <3>1 DEF AuditAttempt, MailAttempt, Stop, Look, Sweep, ghost
    <3>2. ASSUME NEW p \in Noticers, NEW t \in Opens, Claim(p, t)
          PROVE  Kept
      BY <3>2 DEF Claim, TypeOK, Slot, ghost
    <3>3. ASSUME NEW p \in Noticers, NEW t \in Opens, Done(p, t)
          PROVE  Kept
      BY <3>3 DEF Done, TypeOK, Slot, ghost
    <3> QED
      BY <1>1, <3>1, <3>2, <3>3 DEF Notice
  <2> QED
    BY <2>1, GateKept DEF SlotsGrow
<1>2. CASE Tick
  <2>1. \A s \in Opens : /\ slots'[s].state = slots[s].state /\ slots'[s].gone = slots[s].gone
                         /\ slots'[s].noticed = slots[s].noticed
    BY <1>2 DEF Tick, TypeOK, Slot
  <2> QED
    BY <1>2, <2>1, GateKept DEF Tick, ghost, SlotsGrow
<1>3. CASE RecoveryEnds
  BY <1>3, GateKept DEF RecoveryEnds, ghost, SlotsGrow
<1>4. ASSUME NEW o \in Opens, HostCounts(o) \/ ExpiresAtPasses(o) \/ SlotGone(o)
      PROVE  GateInv'
  <2>1. routes' = routes /\ before' = before
    BY <1>4 DEF HostCounts, ExpiresAtPasses, SlotGone, ghost
  <2>2. /\ slots'[o].noticed = slots[o].noticed
        /\ slots'[o].state = "counted" \/ slots'[o].state = slots[o].state
        /\ slots[o].gone => slots'[o].gone
        /\ \A t \in Opens \ {o} : slots'[t] = slots[t]
    BY <1>4 DEF HostCounts, ExpiresAtPasses, SlotGone, TypeOK, Slot
  <2>3. SlotsGrow
    BY <2>2 DEF SlotsGrow
  <2> QED
    BY <2>1, <2>3, GateKept
<1> QED
  BY <1>1, <1>2, <1>3, <1>4 DEF Environment

(* No interleaving of the gate with the noticers, with other opens and with   *)
(* the slots' expiry forwards an open past an attempt still on the list and   *)
(* unreported, however long the list the recovery keeps.                      *)
THEOREM GateHolds == Spec => []ListedNoticedBeforeOpen
<1>1. Init => GateInv
  <2> SUFFICES ASSUME Init, NEW o \in Opens
               PROVE  GateAt(o)
    BY DEF GateInv
  <2>1. routes[o].pc = "none" /\ before[o] = {}
    BY DEF Init, NoRoute
  <2> QED
    BY <2>1 DEF GateAt
<1>2. TypeOK /\ RouteInv /\ GateInv /\ [Next]_vars => GateInv'
  <2>1. CASE UNCHANGED vars
    BY <2>1, GateKept DEF vars, SlotsGrow
  <2>2. CASE Next
    BY <2>2, GateRoute, GateNotice DEF Next
  <2> QED
    BY <2>1, <2>2
<1>3. TypeOK /\ GateInv => ListedNoticedBeforeOpen
  <2> SUFFICES ASSUME TypeOK, GateInv, NEW o \in Opens, routes[o].pc = "queued",
                      NEW i \in DOMAIN Last(routes[o].ids, KeepIds)
               PROVE  Passed(o, Last(routes[o].ids, KeepIds)[i])
    BY DEF ListedNoticedBeforeOpen, Passed
  <2>1. i \in 1..Len(Last(routes[o].ids, KeepIds))
    BY RouteTyped, LenProperties
  <2> QED
    BY <2>1 DEF GateInv, GateAt
<1> QED
  BY <1>1, <1>2, <1>3, Lease, PTL DEF Spec
================================================================================
