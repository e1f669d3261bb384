-------------------------- MODULE VaultRecoveryProofs --------------------------
(***************************************************************************)
(* What holds of VaultRecovery for every number of recoveries, phones and  *)
(* running invocations, whatever the delays.                               *)
(***************************************************************************)
EXTENDS VaultRecovery, TLAPS

--------------------------------------------------------------------------------
(* Typing. *)

(* A write begun or ended leaves a set of writes. *)
LEMMA InFlightTyped ==
  ASSUME inflight \subseteq Write, NEW w \in Write, Begin(w) \/ End(w)
  PROVE  inflight' \subseteq Write
BY DEF Begin, End

(* A handler that reads the row and begins a write changes nothing else. *)
LEMMA ReadTyped ==
  ASSUME TypeOK, NEW w \in Write, Begin(w),
         used' = used \/ used' \subseteq RecoveryIds,
         UNCHANGED <<row, slots, clock, ghost>>
  PROVE  TypeOK'
BY DEF Begin, TypeOK, row, slots, ghost

(* The times a handler takes from an answer are times. *)
LEMMA TimesTyped ==
  ASSUME NEW r \in Recovery, NEW a \in [kind : {"none", "refused", "times"},
                                        not_before : Nat, expires : Nat]
  PROVE  AvailableAt(r, a) \in Nat /\ ExpiresAt(r, a) \in Nat
BY TimesAssumption DEF AvailableAt, ExpiresAt, Larger, Smaller, Recovery

(* A write to the row's recovery leaves one of its type, whatever state it gives it. *)
LEMMA StateTyped ==
  ASSUME NEW r \in Recovery, NEW st \in States
  PROVE  /\ [r EXCEPT !.state = st] \in Recovery
         /\ [r EXCEPT !.state = st, !.claim_keys = {}, !.recovering_key = None] \in Recovery
BY DEF Recovery

(* A new recovery has the type of one. *)
LEMMA NewRecoveryTyped ==
  ASSUME NEW id \in RecoveryIds \cup {None}, NEW at \in Nat
  PROVE  [NoRecovery EXCEPT !.recovery_id  = id,
                            !.state        = "pending",
                            !.requested_at = at,
                            !.available_at = at + Delay,
                            !.expires_at   = at + Delay + Validity] \in Recovery
<1>1. at + Delay \in Nat /\ at + Delay + Validity \in Nat
  BY TimesAssumption
<1>2. NoRecovery \in Recovery
  BY DEF NoRecovery, Recovery, States
<1> QED
  BY <1>1, <1>2 DEF Recovery, States, Live

(* Counting an ending leaves counts. *)
LEMMA RecordTyped ==
  ASSUME NEW id, ends \in [RecoveryIds -> Nat], Record(id)
  PROVE  ends' \in [RecoveryIds -> Nat]
<1>1. \A i \in RecoveryIds : ends[i] + 1 \in Nat
  OBVIOUS
<1> QED
  BY <1>1 DEF Record

LEMMA TypeOKInit == Init => TypeOK
BY DEF Init, TypeOK, NoRecovery, NoDeletion, NoAnswer, Recovery, States

(* Every handler's read begins a write of its type and leaves the rest. *)
LEMMA TypeOKReads ==
  ASSUME TypeOK, Reads
  PROVE  TypeOK'
<1>1. CASE CancelRead
  <2>1. [WriteOf("cancel", recovery.recovery_id) EXCEPT !.at = clock] \in Write
    BY DEF TypeOK, Recovery, Write, WriteOf, Ops
  <2> QED
    BY <1>1, <2>1, ReadTyped DEF CancelRead
<1>2. CASE CompleteRead
  <2>1. [WriteOf("complete", recovery.recovery_id) EXCEPT
          !.key = recovery.recovering_key, !.seq = appKey.seq] \in Write
    BY DEF TypeOK, Recovery, Write, WriteOf, Ops
  <2> QED
    BY <1>2, <2>1, ReadTyped DEF CompleteRead
<1>3. CASE DeleteRead
  <2>1. [WriteOf("delete", recovery.recovery_id) EXCEPT !.at = clock] \in Write
    BY DEF TypeOK, Recovery, Write, WriteOf, Ops
  <2> QED
    BY <1>3, <2>1, ReadTyped DEF DeleteRead
<1>4. ASSUME NEW id \in RecoveryIds, RequestRead(id)
      PROVE  TypeOK'
  <2>1. [WriteOf("request", recovery.recovery_id) EXCEPT !.new = id, !.at = clock] \in Write
    BY DEF TypeOK, Recovery, Write, WriteOf, Ops
  <2> QED
    BY <1>4, <2>1, ReadTyped DEF RequestRead, TypeOK
<1>5. ASSUME NEW id \in RecoveryIds, RefuseRead(id)
      PROVE  TypeOK'
  <2>1. WriteOf("refuse", id) \in Write
    BY DEF TypeOK, Recovery, Write, WriteOf, Ops
  <2> QED
    BY <1>5, <2>1, ReadTyped DEF RefuseRead
<1>6. ASSUME NEW id \in RecoveryIds, TimesRead(id)
      PROVE  TypeOK'
  <2>1. AvailableAt(recovery, answers[id]) \in Nat /\ ExpiresAt(recovery, answers[id]) \in Nat
    BY TimesTyped DEF TypeOK
  <2>2. [WriteOf("times", id) EXCEPT !.at    = AvailableAt(recovery, answers[id]),
                                     !.until = ExpiresAt(recovery, answers[id])] \in Write
    BY <2>1 DEF Write, WriteOf, Ops
  <2> QED
    BY <1>6, <2>2, ReadTyped DEF TimesRead
<1>7. ASSUME NEW id \in RecoveryIds, ExtendRead(id)
      PROVE  TypeOK'
  <2>1. Smaller(recovery.requested_at + MaxSpan, attempts[id]) \in Nat
    BY TimesAssumption DEF TypeOK, Recovery, Smaller
  <2>2. [WriteOf("extend", id) EXCEPT
          !.until = Smaller(recovery.requested_at + MaxSpan, attempts[id])] \in Write
    BY <2>1 DEF Write, WriteOf, Ops
  <2> QED
    BY <1>7, <2>2, ReadTyped DEF ExtendRead
<1>8. ASSUME NEW id \in RecoveryIds, NEW k \in Keys, ClaimRead(id, k)
      PROVE  TypeOK'
  <2>1. PICK kept \in SUBSET (recovery.claim_keys \cup {k}) :
          Begin([WriteOf("claim", id) EXCEPT !.keys = kept])
    BY <1>8 DEF ClaimRead
  <2>2. [WriteOf("claim", id) EXCEPT !.keys = kept] \in Write
    BY DEF TypeOK, Recovery, Write, WriteOf, Ops
  <2> QED
    BY <1>8, <2>1, <2>2, ReadTyped DEF ClaimRead
<1>9. ASSUME NEW id \in RecoveryIds, NEW k \in Keys, RegisterRoute(id, k)
      PROVE  TypeOK'
  BY <1>9 DEF RegisterRoute, TypeOK, row, ghost
<1>10. ASSUME NEW id \in RecoveryIds, NEW k \in Keys, RegisterRead(id, k)
       PROVE  TypeOK'
  <2>1. [WriteOf("judge", id) EXCEPT
          !.key = IF k \in recovery.claim_keys THEN k ELSE None] \in Write
    BY DEF Write, WriteOf, Ops
  <2> QED
    BY <1>10, <2>1, ReadTyped DEF RegisterRead
<1> QED
  BY <1>1, <1>2, <1>3, <1>4, <1>5, <1>6, <1>7, <1>8, <1>9, <1>10 DEF Reads

(* Every write leaves a row of its type. *)
LEMMA TypeOKWrites ==
  ASSUME TypeOK, Writes
  PROVE  TypeOK'
<1>1. CASE CancelDeletion
  BY <1>1 DEF CancelDeletion, NoDeletion, TypeOK, slots, ghost
<1>2. CASE ExecuteStartOver
  BY <1>2 DEF ExecuteStartOver, TypeOK, slots, ghost
<1>3. ASSUME NEW w \in inflight, SetRecovery(w)
      PROVE  TypeOK'
  <2>1. w \in Write /\ w.new \in RecoveryIds \cup {None} /\ w.at \in Nat
    BY DEF TypeOK, Write
  <2>2. recovery' \in Recovery
    BY <1>3, <2>1, TimesAssumption, NewRecoveryTyped DEF SetRecovery
  <2>3. past' \in [RecoveryIds -> States \cup {"lapsed"}]
    BY <1>3 DEF SetRecovery, TypeOK, Recovery
  <2> QED
    BY <1>3, <2>1, <2>2, <2>3, InFlightTyped DEF SetRecovery, TypeOK, slots
<1>4. ASSUME NEW w \in inflight, CancelWrite(w)
      PROVE  TypeOK'
  <2>1. w \in Write
    BY DEF TypeOK
  <2>2. recovery' \in Recovery /\ ends' \in [RecoveryIds -> Nat]
    BY <1>4, StateTyped, RecordTyped DEF CancelWrite, TypeOK, States, Ended
  <2> QED
    BY <1>4, <2>1, <2>2, InFlightTyped DEF CancelWrite, TypeOK, slots
<1>5. ASSUME NEW w \in inflight, CompleteRecovery(w)
      PROVE  TypeOK'
  <2>1. w \in Write /\ w.id \in RecoveryIds \cup {None} /\ w.seq \in Nat
    BY DEF TypeOK, Write
  <2>2. recovery' \in Recovery /\ ends' \in [RecoveryIds -> Nat]
    BY <1>5, StateTyped, RecordTyped DEF CompleteRecovery, TypeOK, States, Ended
  <2>3. [judged |-> recovery.judged, adopted |-> w.seq] \in [judged : Nat, adopted : Nat]
    BY <2>1 DEF TypeOK, Recovery
  <2> QED
    BY <1>5, <2>1, <2>2, <2>3, InFlightTyped DEF CompleteRecovery, TypeOK, slots
<1>6. ASSUME NEW w \in inflight, RefreshUnavailable(w)
      PROVE  TypeOK'
  <2>1. w \in Write
    BY DEF TypeOK
  <2>2. recovery' \in Recovery /\ ends' \in [RecoveryIds -> Nat]
    BY <1>6, StateTyped, RecordTyped DEF RefreshUnavailable, TypeOK, States, Ended
  <2> QED
    BY <1>6, <2>1, <2>2, InFlightTyped DEF RefreshUnavailable, TypeOK, slots
<1>7. ASSUME NEW w \in inflight, ApplyEnclaveTimes(w)
      PROVE  TypeOK'
  <2>1. w \in Write /\ w.at \in Nat /\ w.until \in Nat
    BY DEF TypeOK, Write
  <2>2. recovery' \in Recovery
    BY <1>7, <2>1 DEF ApplyEnclaveTimes, TypeOK, Recovery
  <2> QED
    BY <1>7, <2>1, <2>2, InFlightTyped DEF ApplyEnclaveTimes, TypeOK, slots, ghost
<1>8. ASSUME NEW w \in inflight, ClaimRecovery(w)
      PROVE  TypeOK'
  <2>1. w \in Write /\ w.keys \subseteq Keys
    BY DEF TypeOK, Write
  <2>2. recovery' \in Recovery
    BY <1>8, <2>1 DEF ClaimRecovery, TypeOK, Recovery
  <2> QED
    BY <1>8, <2>1, <2>2, InFlightTyped DEF ClaimRecovery, TypeOK, slots, ghost
<1>9. ASSUME NEW w \in inflight, JudgeKey(w)
      PROVE  TypeOK'
  <2>1. w \in Write /\ appKey.seq \in Nat
    BY DEF TypeOK
  <2>2. [w EXCEPT !.op = "register", !.seq = appKey.seq,
                  !.key = IF KeyInUse(w.key) THEN None ELSE w.key] \in Write
    BY <2>1 DEF Write, Ops
  <2> QED
    BY <1>9, <2>2 DEF JudgeKey, TypeOK, row, slots, ghost
<1>10. ASSUME NEW w \in inflight, MarkRegistered(w)
       PROVE  TypeOK'
  <2>1. w \in Write /\ w.key \in Keys \cup {None} /\ w.seq \in Nat
    BY DEF TypeOK, Write
  <2>2. recovery' \in Recovery
    BY <1>10, <2>1 DEF MarkRegistered, TypeOK, Recovery, States, Live
  <2> QED
    BY <1>10, <2>1, <2>2, InFlightTyped DEF MarkRegistered, TypeOK, slots, ghost
<1>11. ASSUME NEW w \in inflight, ExtendExpiry(w)
       PROVE  TypeOK'
  <2>1. w \in Write /\ w.until \in Nat
    BY DEF TypeOK, Write
  <2>2. recovery' \in Recovery
    BY <1>11, <2>1 DEF ExtendExpiry, TypeOK, Recovery
  <2> QED
    BY <1>11, <2>1, <2>2, InFlightTyped DEF ExtendExpiry, TypeOK, slots, ghost
<1>12. ASSUME NEW w \in inflight, RequestDeletion(w)
       PROVE  TypeOK'
  <2>1. w \in Write /\ w.at + DeletionDelay \in Nat
    BY TimesAssumption DEF TypeOK, Write
  <2> QED
    BY <1>12, <2>1, InFlightTyped DEF RequestDeletion, TypeOK, slots, ghost
<1>13. ASSUME NEW w \in inflight, Abandon(w)
       PROVE  TypeOK'
  BY <1>13 DEF Abandon, End, TypeOK, row, slots, ghost
<1> QED
  BY <1>1, <1>2, <1>3, <1>4, <1>5, <1>6, <1>7, <1>8, <1>9, <1>10, <1>11, <1>12, <1>13 DEF Writes

(* So does everything outside the API. *)
LEMMA TypeOKEnvironment ==
  ASSUME TypeOK, Environment
  PROVE  TypeOK'
<1>1. CASE Tick
  BY <1>1 DEF Tick, TypeOK, row, slots, ghost
<1>2. ASSUME NEW id \in RecoveryIds, NEW answer \in Answer, HostAnswers(id, answer)
      PROVE  TypeOK'
  <2>1. answer \in [kind : {"none", "refused", "times"}, not_before : Nat, expires : Nat]
    <3>1. CASE answer \in [kind : {"refused"}, not_before : {0}, expires : {0}]
      BY <3>1
    <3>2. CASE answer \in [kind : {"times"}, not_before : EnclaveTimes, expires : EnclaveTimes]
      BY <3>2, TimesAssumption
    <3> QED
      BY <3>1, <3>2 DEF Answer
  <2> QED
    BY <1>2, <2>1 DEF HostAnswers, TypeOK, row, ghost
<1>3. ASSUME NEW r \in sent, HostRegisters(r)
      PROVE  TypeOK'
  BY <1>3 DEF HostRegisters, TypeOK, row, ghost
<1>4. ASSUME NEW r \in sent, HostAdopts(r)
      PROVE  TypeOK'
  BY <1>4 DEF HostAdopts, TypeOK, slots, ghost
<1>5. ASSUME NEW r \in sent, NEW expires \in EnclaveTimes, HostCountsAttempt(r, expires)
      PROVE  TypeOK'
  BY <1>5, TimesAssumption DEF HostCountsAttempt, TypeOK, row, ghost
<1> QED
  BY <1>1, <1>2, <1>3, <1>4, <1>5 DEF Environment

(* TypeOK holds of every state of every behaviour. *)
THEOREM Typing == Spec => []TypeOK
<1>1. Init => TypeOK
  BY TypeOKInit
<1>2. TypeOK /\ [Next]_vars => TypeOK'
  <2>1. CASE UNCHANGED vars
    BY <2>1 DEF vars, TypeOK
  <2>2. CASE Next
    BY <2>2, TypeOKReads, TypeOKWrites, TypeOKEnvironment DEF Next
  <2> QED
    BY <2>1, <2>2
<1> QED
  BY <1>1, <1>2, PTL DEF Spec

--------------------------------------------------------------------------------
(* Which recovery a write is about.  A write names its recovery by id alone,  *)
(* so everything below rests on ids: one that a running request has drawn is  *)
(* not yet any recovery's, nor named by any other write.                      *)

RequestsInv ==
  \A w \in inflight :
    /\ w.id \in used \cup {None}
    /\ w.op = "request" =>
         /\ w.new \in used
         /\ w.new # recovery.recovery_id
         /\ past[w.new] = "none"
         /\ ends[w.new] = 0
         /\ \A v \in inflight :
              /\ v.id # w.new
              /\ v.op = "request" /\ v.new = w.new => v = w

RowInv ==
  /\ recovery.recovery_id \in used \cup {None}
  /\ recovery.state # "none" => recovery.recovery_id # None
  /\ recovery.state \in Live => ends[recovery.recovery_id] = 0

HistoryInv ==
  \A id \in RecoveryIds :
    /\ id \notin used => ends[id] = 0 /\ past[id] = "none"
    /\ past[id] \notin Live
    /\ ends[id] <= 1

IdsInv == RequestsInv /\ RowInv /\ HistoryInv

LEMMA IdsInit == Init => IdsInv
BY DEF Init, IdsInv, RequestsInv, RowInv, HistoryInv, NoRecovery, Live

(* A read begins a write on the row's recovery, and draws no id. *)
LEMMA IdsRead ==
  ASSUME TypeOK, IdsInv, NEW w, Begin(w),
         w.op # "request", w.id = recovery.recovery_id,
         UNCHANGED <<recovery, used, past, ends>>
  PROVE  IdsInv'
<1>1. inflight' = inflight \cup {w}
  BY DEF Begin
<1>2. RequestsInv'
  BY <1>1 DEF IdsInv, RequestsInv, RowInv
<1> QED
  BY <1>2 DEF IdsInv, RowInv, HistoryInv

(* A write that ends no recovery and replaces none leaves the ids as they are. *)
LEMMA IdsWrite ==
  ASSUME TypeOK, IdsInv, inflight' \subseteq inflight,
         recovery'.recovery_id = recovery.recovery_id,
         recovery'.state # "none" => recovery.state # "none",
         recovery'.state \in Live => recovery.state \in Live,
         UNCHANGED <<used, past, ends>>
  PROVE  IdsInv'
<1>1. RequestsInv'
  BY DEF IdsInv, RequestsInv
<1> QED
  BY <1>1 DEF IdsInv, RowInv, HistoryInv

(* The write that ends a recovery is the first to. *)
LEMMA IdsEnd ==
  ASSUME TypeOK, IdsInv, inflight' \subseteq inflight, NEW w \in inflight,
         Names(w), recovery.state \in Live, Record(w.id),
         recovery'.recovery_id = recovery.recovery_id,
         recovery'.state \in Ended,
         UNCHANGED <<used, past>>
  PROVE  IdsInv'
<1>1. /\ w.id = recovery.recovery_id
      /\ w.id \in RecoveryIds
      /\ w.id \in used
      /\ ends[w.id] = 0
  BY DEF IdsInv, RowInv, Names, Live, TypeOK
<1>2. \A id \in RecoveryIds : ends'[id] = IF id = w.id THEN 1 ELSE ends[id]
  BY <1>1 DEF Record, TypeOK
<1>3. RequestsInv'
  <2>1. ASSUME NEW q \in inflight, q.op = "request"
        PROVE  q.new \in RecoveryIds /\ ends'[q.new] = 0
    BY <1>1, <1>2, <2>1 DEF IdsInv, RequestsInv, TypeOK
  <2> QED
    BY <2>1 DEF IdsInv, RequestsInv
<1>4. RowInv'
  BY DEF IdsInv, RowInv, Live, Ended
<1>5. HistoryInv'
  BY <1>1, <1>2 DEF IdsInv, HistoryInv
<1> QED
  BY <1>3, <1>4, <1>5 DEF IdsInv

(* A request's read draws an id that nothing names yet. *)
LEMMA IdsRequest ==
  ASSUME TypeOK, IdsInv, NEW id \in RecoveryIds, RequestRead(id)
  PROVE  IdsInv'
<1> DEFINE w == [WriteOf("request", recovery.recovery_id) EXCEPT !.new = id, !.at = clock]
<1>1. /\ inflight' = inflight \cup {w}
      /\ used' = used \cup {id}
      /\ UNCHANGED <<recovery, past, ends>>
      /\ id \notin used
  BY DEF RequestRead, Begin, row, ghost
<1>2. w.op = "request" /\ w.id = recovery.recovery_id /\ w.new = id
  BY DEF WriteOf
<1>3. id # recovery.recovery_id /\ id # None
  BY <1>1, NoneAssumption DEF IdsInv, RowInv
<1>4. past[id] = "none" /\ ends[id] = 0
  BY <1>1 DEF IdsInv, HistoryInv
<1> HIDE DEF w
<1>5. RequestsInv'
  BY <1>1, <1>2, <1>3, <1>4 DEF IdsInv, RequestsInv, RowInv
<1> QED
  BY <1>1, <1>5 DEF IdsInv, RowInv, HistoryInv

LEMMA IdsReads ==
  ASSUME TypeOK, IdsInv, Reads
  PROVE  IdsInv'
<1>1. CASE CancelRead
  BY <1>1, IdsRead DEF CancelRead, WriteOf, row, ghost
<1>2. CASE CompleteRead
  BY <1>2, IdsRead DEF CompleteRead, WriteOf, row, ghost
<1>3. CASE DeleteRead
  BY <1>3, IdsRead DEF DeleteRead, WriteOf, row, ghost
<1>4. ASSUME NEW id \in RecoveryIds, RefuseRead(id)
      PROVE  IdsInv'
  BY <1>4, IdsRead DEF RefuseRead, PendingHere, WriteOf, row, ghost
<1>5. ASSUME NEW id \in RecoveryIds, TimesRead(id)
      PROVE  IdsInv'
  BY <1>5, IdsRead DEF TimesRead, PendingHere, WriteOf, row, ghost
<1>6. ASSUME NEW id \in RecoveryIds, ExtendRead(id)
      PROVE  IdsInv'
  BY <1>6, IdsRead DEF ExtendRead, WriteOf, row, ghost
<1>7. ASSUME NEW id \in RecoveryIds, NEW k \in Keys, ClaimRead(id, k)
      PROVE  IdsInv'
  BY <1>7, IdsRead DEF ClaimRead, WriteOf, row, ghost
<1>8. ASSUME NEW id \in RecoveryIds, NEW k \in Keys, RegisterRead(id, k)
      PROVE  IdsInv'
  BY <1>8, IdsRead DEF RegisterRead, WriteOf, row, ghost
<1>9. ASSUME NEW id \in RecoveryIds, RequestRead(id)
      PROVE  IdsInv'
  BY <1>9, IdsRequest
<1>10. ASSUME NEW id \in RecoveryIds, NEW k \in Keys, RegisterRoute(id, k)
       PROVE  IdsInv'
  BY <1>10, IdsWrite DEF RegisterRoute, row, ghost
<1> QED
  BY <1>1, <1>2, <1>3, <1>4, <1>5, <1>6, <1>7, <1>8, <1>9, <1>10 DEF Reads

(* A request's write makes the id it drew the row's, and the earlier one past. *)
LEMMA IdsReplace ==
  ASSUME TypeOK, IdsInv, NEW w \in inflight, SetRecovery(w)
  PROVE  IdsInv'
<1>1. /\ inflight' = inflight \ {w}
      /\ recovery'.recovery_id = w.new
      /\ recovery'.state = "pending"
      /\ UNCHANGED <<used, ends>>
  BY DEF SetRecovery, End, NoRecovery
<1>2. w.new \in used /\ w.new \in RecoveryIds /\ w.new # None /\ ends[w.new] = 0
  BY NoneAssumption DEF IdsInv, RequestsInv, SetRecovery, TypeOK
<1>3. \A id \in RecoveryIds : past'[id] = past[id] \/ id = recovery.recovery_id
  BY DEF SetRecovery, RequestCondition, Names
<1>4. \A id \in RecoveryIds : past'[id] \notin Live
  BY DEF SetRecovery, IdsInv, HistoryInv, Live
<1>5. RequestsInv'
  BY <1>1, <1>2, <1>3 DEF IdsInv, RequestsInv, RowInv, SetRecovery, TypeOK
<1>6. RowInv'
  BY <1>1, <1>2 DEF RowInv
<1>7. HistoryInv'
  BY <1>1, <1>3, <1>4, NoneAssumption DEF IdsInv, RowInv, HistoryInv
<1> QED
  BY <1>5, <1>6, <1>7 DEF IdsInv

(* A judged write names the recovery it named. *)
LEMMA IdsJudge ==
  ASSUME TypeOK, IdsInv, NEW w \in inflight, JudgeKey(w)
  PROVE  IdsInv'
<1>1. PICK v : /\ inflight' = (inflight \ {w}) \cup {v}
               /\ v.op = "register" /\ v.id = w.id
  <2>1. w \in Write
    BY DEF TypeOK
  <2>2. /\ [w EXCEPT !.op = "register", !.seq = appKey.seq,
                     !.key = IF KeyInUse(w.key) THEN None ELSE w.key].op = "register"
        /\ [w EXCEPT !.op = "register", !.seq = appKey.seq,
                     !.key = IF KeyInUse(w.key) THEN None ELSE w.key].id = w.id
    BY <2>1 DEF Write
  <2> QED
    BY <2>2 DEF JudgeKey
<1>2. UNCHANGED <<recovery, used, past, ends>>
  BY DEF JudgeKey, row, ghost
<1>3. RequestsInv'
  BY <1>1, <1>2 DEF IdsInv, RequestsInv
<1> QED
  BY <1>2, <1>3 DEF IdsInv, RowInv, HistoryInv

LEMMA IdsWrites ==
  ASSUME TypeOK, IdsInv, Writes
  PROVE  IdsInv'
<1>1. CASE CancelDeletion
  BY <1>1, IdsWrite DEF CancelDeletion, ghost
<1>2. CASE ExecuteStartOver
  BY <1>2, IdsWrite DEF ExecuteStartOver, ghost
<1>3. ASSUME NEW w \in inflight, SetRecovery(w)
      PROVE  IdsInv'
  BY <1>3, IdsReplace
<1>4. ASSUME NEW w \in inflight, CancelWrite(w)
      PROVE  IdsInv'
  BY <1>4, IdsEnd DEF CancelWrite, CancelCondition, End, TypeOK, Recovery, Ended
<1>5. ASSUME NEW w \in inflight, CompleteRecovery(w)
      PROVE  IdsInv'
  BY <1>5, IdsEnd DEF CompleteRecovery, CompleteCondition, End, TypeOK, Recovery, Live, Ended
<1>6. ASSUME NEW w \in inflight, RefreshUnavailable(w)
      PROVE  IdsInv'
  BY <1>6, IdsEnd DEF RefreshUnavailable, PendingCondition, End, TypeOK, Recovery, Live, Ended
<1>7. ASSUME NEW w \in inflight, ApplyEnclaveTimes(w)
      PROVE  IdsInv'
  BY <1>7, IdsWrite DEF ApplyEnclaveTimes, End, TypeOK, Recovery, ghost
<1>8. ASSUME NEW w \in inflight, ClaimRecovery(w)
      PROVE  IdsInv'
  BY <1>8, IdsWrite DEF ClaimRecovery, End, TypeOK, Recovery, ghost
<1>9. ASSUME NEW w \in inflight, JudgeKey(w)
      PROVE  IdsInv'
  BY <1>9, IdsJudge
<1>10. ASSUME NEW w \in inflight, MarkRegistered(w)
      PROVE  IdsInv'
  BY <1>10, IdsWrite DEF MarkRegistered, PendingCondition, End, TypeOK, Recovery, Live, ghost
<1>11. ASSUME NEW w \in inflight, ExtendExpiry(w)
      PROVE  IdsInv'
  BY <1>11, IdsWrite DEF ExtendExpiry, End, TypeOK, Recovery, ghost
<1>12. ASSUME NEW w \in inflight, RequestDeletion(w)
      PROVE  IdsInv'
  BY <1>12, IdsWrite DEF RequestDeletion, End, ghost
<1>13. ASSUME NEW w \in inflight, Abandon(w)
      PROVE  IdsInv'
  BY <1>13, IdsWrite DEF Abandon, End, row, ghost
<1> QED
  BY <1>1, <1>2, <1>3, <1>4, <1>5, <1>6, <1>7, <1>8, <1>9, <1>10, <1>11, <1>12, <1>13 DEF Writes

LEMMA IdsEnvironment ==
  ASSUME TypeOK, IdsInv, Environment
  PROVE  IdsInv'
<1>1. inflight' = inflight /\ UNCHANGED <<recovery, used, past, ends>>
  BY DEF Environment, Tick, HostAnswers, HostRegisters, HostAdopts, HostCountsAttempt, row, ghost
<1> QED
  BY <1>1, IdsWrite

(* The typing and the ids, as one invariant of every behaviour. *)
THEOREM Ids == Spec => [](TypeOK /\ IdsInv)
<1>1. Init => TypeOK /\ IdsInv
  BY TypeOKInit, IdsInit
<1>2. TypeOK /\ IdsInv /\ [Next]_vars => (TypeOK /\ IdsInv)'
  <2>1. CASE UNCHANGED vars
    BY <2>1 DEF vars, TypeOK, IdsInv, RequestsInv, RowInv, HistoryInv
  <2>2. CASE Next
    BY <2>2, TypeOKReads, TypeOKWrites, TypeOKEnvironment,
       IdsReads, IdsWrites, IdsEnvironment DEF Next
  <2> QED
    BY <2>1, <2>2
<1> QED
  BY <1>1, <1>2, PTL DEF Spec

(* However many cancels, completions and refusals of a recovery run at once,  *)
(* one write ends it.                                                         *)
THEOREM OneEnding == Spec => []OneEnd
<1>1. IdsInv => OneEnd
  BY DEF IdsInv, HistoryInv, OneEnd
<1> QED
  BY <1>1, Ids, PTL

--------------------------------------------------------------------------------
(* The app key.  A key is judged against app_key, written as the recovering   *)
(* key, found to be app_key, and recorded, in four steps of which three are   *)
(* conditional on nothing that the host writes.                               *)

JudgedRow ==
  /\ recovery.judged <= appKey.seq
  /\ recovery.recovering_key # None /\ recovery.recovering_key = appKey.kid =>
       appKey.seq > recovery.judged

JudgedWrite(w) ==
  /\ w.op = "register" =>
       /\ w.seq <= appKey.seq
       /\ w.key # None /\ w.key = appKey.kid => appKey.seq > w.seq
  /\ w.op = "complete" /\ Names(w) =>
       /\ recovery.state # "pending"
       /\ recovery.state = "registered" /\ recovery.recovering_key = w.key =>
            w.seq > recovery.judged

JudgedInv ==
  /\ JudgedRow
  /\ \A w \in inflight : JudgedWrite(w)
  /\ TrueCompletion

LEMMA JudgedInit == Init => JudgedInv
BY DEF Init, JudgedInv, JudgedRow, TrueCompletion, NoRecovery

(* The row as it was, and one more sound write. *)
LEMMA JudgedRead ==
  ASSUME JudgedInv, NEW w, JudgedWrite(w), inflight' \subseteq inflight \cup {w},
         UNCHANGED <<recovery, appKey, completions>>
  PROVE  JudgedInv'
BY DEF JudgedInv, JudgedRow, JudgedWrite, Names, TrueCompletion

(* A write that leaves the recovering key as it was, or removes it. *)
LEMMA JudgedKept ==
  ASSUME JudgedInv, inflight' \subseteq inflight,
         recovery'.recovery_id = recovery.recovery_id,
         recovery'.judged = recovery.judged,
         recovery'.state = "pending" => recovery.state = "pending",
         recovery'.state = "registered" => recovery.state = "registered",
         recovery'.recovering_key \in {recovery.recovering_key, None},
         recovery'.state = "registered" => recovery'.recovering_key = recovery.recovering_key,
         UNCHANGED appKey, TrueCompletion'
  PROVE  JudgedInv'
BY DEF JudgedInv, JudgedRow, JudgedWrite, Names

LEMMA JudgedReads ==
  ASSUME TypeOK, IdsInv, JudgedInv, Reads
  PROVE  JudgedInv'
<1>1. CASE CancelRead
  BY <1>1, JudgedRead DEF CancelRead, Begin, JudgedWrite, WriteOf, row, ghost
<1>2. CASE CompleteRead
  <2> DEFINE w == [WriteOf("complete", recovery.recovery_id) EXCEPT
                     !.key = recovery.recovering_key, !.seq = appKey.seq]
  <2>1. /\ w.op = "complete" /\ w.id = recovery.recovery_id
        /\ w.key = recovery.recovering_key /\ w.seq = appKey.seq
    BY DEF WriteOf
  <2> HIDE DEF w
  <2>2. JudgedWrite(w)
    BY <1>2, <2>1 DEF JudgedInv, JudgedRow, JudgedWrite, CompleteRead, RecoveryCompleted
  <2> QED
    BY <1>2, <2>2, JudgedRead DEF CompleteRead, Begin, row, ghost, w
<1>3. CASE DeleteRead
  BY <1>3, JudgedRead DEF DeleteRead, Begin, JudgedWrite, WriteOf, row, ghost
<1>4. ASSUME NEW id \in RecoveryIds, RequestRead(id)
      PROVE  JudgedInv'
  <2>1. JudgedWrite([WriteOf("request", recovery.recovery_id) EXCEPT !.new = id, !.at = clock])
    BY DEF JudgedWrite, WriteOf
  <2> QED
    BY <1>4, <2>1, JudgedRead DEF RequestRead, Begin, row, ghost
<1>5. ASSUME NEW id \in RecoveryIds, RefuseRead(id)
      PROVE  JudgedInv'
  BY <1>5, JudgedRead DEF RefuseRead, Begin, JudgedWrite, WriteOf, row, ghost
<1>6. ASSUME NEW id \in RecoveryIds, TimesRead(id)
      PROVE  JudgedInv'
  BY <1>6, JudgedRead DEF TimesRead, Begin, JudgedWrite, WriteOf, row, ghost
<1>7. ASSUME NEW id \in RecoveryIds, ExtendRead(id)
      PROVE  JudgedInv'
  BY <1>7, JudgedRead DEF ExtendRead, Begin, JudgedWrite, WriteOf, row, ghost
<1>8. ASSUME NEW id \in RecoveryIds, NEW k \in Keys, ClaimRead(id, k)
      PROVE  JudgedInv'
  BY <1>8, JudgedRead DEF ClaimRead, Begin, JudgedWrite, WriteOf, row, ghost
<1>9. ASSUME NEW id \in RecoveryIds, NEW k \in Keys, RegisterRead(id, k)
      PROVE  JudgedInv'
  BY <1>9, JudgedRead DEF RegisterRead, Begin, JudgedWrite, WriteOf, row, ghost
<1>10. ASSUME NEW id \in RecoveryIds, NEW k \in Keys, RegisterRoute(id, k)
      PROVE  JudgedInv'
  BY <1>10 DEF RegisterRoute, JudgedInv, JudgedRow, JudgedWrite, Names, TrueCompletion, row, ghost
<1> QED
  BY <1>1, <1>2, <1>3, <1>4, <1>5, <1>6, <1>7, <1>8, <1>9, <1>10 DEF Reads

(* The recovering key is written as it was judged. *)
LEMMA JudgedRegister ==
  ASSUME TypeOK, JudgedInv, NEW w \in inflight, MarkRegistered(w)
  PROVE  JudgedInv'
<1>1. /\ recovery'.recovery_id = recovery.recovery_id
      /\ recovery'.state = "registered"
      /\ recovery'.recovering_key = w.key
      /\ recovery'.judged = w.seq
      /\ recovery.state = "pending"
  BY DEF MarkRegistered, PendingCondition, TypeOK, Recovery
<1>2. inflight' = inflight \ {w} /\ UNCHANGED <<appKey, completions>>
  BY DEF MarkRegistered, End, ghost
<1>3. JudgedRow'
  BY <1>1, <1>2 DEF JudgedInv, JudgedWrite, JudgedRow, MarkRegistered
<1>4. ASSUME NEW v \in inflight
      PROVE  JudgedWrite(v)'
  BY <1>1, <1>2 DEF JudgedInv, JudgedWrite, Names
<1> QED
  BY <1>2, <1>3, <1>4 DEF JudgedInv, TrueCompletion

(* A new recovery has no recovering key, and no write names it yet. *)
LEMMA JudgedReplace ==
  ASSUME TypeOK, IdsInv, JudgedInv, NEW w \in inflight, SetRecovery(w)
  PROVE  JudgedInv'
<1>1. /\ recovery'.recovery_id = w.new
      /\ recovery'.recovering_key = None
      /\ recovery'.judged = 0
  BY DEF SetRecovery, NoRecovery
<1>2. inflight' = inflight \ {w} /\ UNCHANGED <<appKey, completions>>
  BY DEF SetRecovery, End
<1>3. ASSUME NEW v \in inflight
      PROVE  JudgedWrite(v)'
  <2>1. v.id # w.new
    BY DEF IdsInv, RequestsInv, SetRecovery
  <2> QED
    BY <1>1, <1>2, <2>1 DEF JudgedInv, JudgedWrite, Names
<1>4. JudgedRow'
  BY <1>1, <1>2 DEF JudgedRow, TypeOK
<1> QED
  BY <1>2, <1>3, <1>4 DEF JudgedInv, TrueCompletion

LEMMA JudgedWrites ==
  ASSUME TypeOK, IdsInv, JudgedInv, Writes
  PROVE  JudgedInv'
<1>1. CASE CancelDeletion
  BY <1>1, JudgedKept DEF CancelDeletion, JudgedInv, TrueCompletion, ghost
<1>2. CASE ExecuteStartOver
  BY <1>2, JudgedKept DEF ExecuteStartOver, JudgedInv, TrueCompletion, ghost
<1>3. ASSUME NEW w \in inflight, SetRecovery(w)
      PROVE  JudgedInv'
  BY <1>3, JudgedReplace
<1>4. ASSUME NEW w \in inflight, CancelWrite(w)
      PROVE  JudgedInv'
  BY <1>4, JudgedKept DEF JudgedInv, TrueCompletion, End, TypeOK, Recovery, CancelWrite
<1>5. ASSUME NEW w \in inflight, CompleteRecovery(w)
      PROVE  JudgedInv'
  <2>1. w.seq > recovery.judged
    BY <1>5 DEF JudgedInv, JudgedWrite, CompleteRecovery, CompleteCondition
  <2>2. TrueCompletion'
    BY <1>5, <2>1 DEF JudgedInv, TrueCompletion, CompleteRecovery
  <2> QED
    BY <1>5, <2>2, JudgedKept DEF CompleteRecovery, End, TypeOK, Recovery
<1>6. ASSUME NEW w \in inflight, RefreshUnavailable(w)
      PROVE  JudgedInv'
  BY <1>6, JudgedKept DEF JudgedInv, TrueCompletion, End, TypeOK, Recovery, RefreshUnavailable
<1>7. ASSUME NEW w \in inflight, ApplyEnclaveTimes(w)
      PROVE  JudgedInv'
  BY <1>7, JudgedKept DEF JudgedInv, TrueCompletion, End, TypeOK, Recovery, ApplyEnclaveTimes, ghost
<1>8. ASSUME NEW w \in inflight, ClaimRecovery(w)
      PROVE  JudgedInv'
  BY <1>8, JudgedKept DEF JudgedInv, TrueCompletion, End, TypeOK, Recovery, ClaimRecovery, ghost
<1>9. ASSUME NEW w \in inflight, JudgeKey(w)
      PROVE  JudgedInv'
  <2> DEFINE v == [w EXCEPT !.op = "register", !.seq = appKey.seq,
                             !.key = IF KeyInUse(w.key) THEN None ELSE w.key]
  <2>1. /\ v.op = "register" /\ v.seq = appKey.seq
        /\ v.key = IF KeyInUse(w.key) THEN None ELSE w.key
    BY DEF TypeOK, Write
  <2> HIDE DEF v
  <2>2. JudgedWrite(v)
    BY <2>1 DEF JudgedWrite, KeyInUse, TypeOK
  <2> QED
    BY <1>9, <2>2, JudgedRead DEF JudgeKey, row, ghost, v
<1>10. ASSUME NEW w \in inflight, MarkRegistered(w)
      PROVE  JudgedInv'
  BY <1>10, JudgedRegister
<1>11. ASSUME NEW w \in inflight, ExtendExpiry(w)
      PROVE  JudgedInv'
  BY <1>11, JudgedKept DEF JudgedInv, TrueCompletion, End, TypeOK, Recovery, ExtendExpiry, ghost
<1>12. ASSUME NEW w \in inflight, RequestDeletion(w)
      PROVE  JudgedInv'
  BY <1>12, JudgedKept DEF JudgedInv, TrueCompletion, End, TypeOK, Recovery, RequestDeletion, ghost
<1>13. ASSUME NEW w \in inflight, Abandon(w)
      PROVE  JudgedInv'
  BY <1>13, JudgedKept DEF JudgedInv, TrueCompletion, End, TypeOK, Recovery, Abandon, row, ghost
<1> QED
  BY <1>1, <1>2, <1>3, <1>4, <1>5, <1>6, <1>7, <1>8, <1>9, <1>10, <1>11, <1>12, <1>13 DEF Writes

LEMMA JudgedEnvironment ==
  ASSUME TypeOK, JudgedInv, Environment
  PROVE  JudgedInv'
<1>1. CASE UNCHANGED appKey
  <2>1. inflight' = inflight /\ UNCHANGED <<recovery, completions>>
    BY DEF Environment, Tick, HostAnswers, HostRegisters, HostAdopts, HostCountsAttempt, row, ghost
  <2> QED
    BY <1>1, <2>1 DEF JudgedInv, JudgedRow, JudgedWrite, Names, TrueCompletion
<1>2. ASSUME NEW r \in sent, HostAdopts(r)
      PROVE  JudgedInv'
  <2>1. appKey'.seq = appKey.seq + 1
    BY <1>2 DEF HostAdopts
  <2>2. inflight' = inflight /\ UNCHANGED <<recovery, completions>>
    BY <1>2 DEF HostAdopts, ghost
  <2>3. JudgedRow'
    BY <2>1, <2>2 DEF JudgedInv, JudgedRow, TypeOK, Recovery
  <2>4. ASSUME NEW w \in inflight
        PROVE  JudgedWrite(w)'
    <3>1. w.seq \in Nat
      BY DEF TypeOK, Write
    <3> QED
      BY <2>1, <2>2, <3>1 DEF JudgedInv, JudgedWrite, Names, TypeOK
  <2> QED
    BY <2>2, <2>3, <2>4 DEF JudgedInv, TrueCompletion
<1> QED
  BY <1>1, <1>2 DEF Environment, Tick, HostAnswers, HostRegisters, HostCountsAttempt, row

(* A recovery recorded as completed was adopted by the vault after its key    *)
(* was seen not to be the vault's app key.                                    *)
THEOREM CompletionIsTrue == Spec => []TrueCompletion
<1>1. Init => JudgedInv
  BY JudgedInit
<1>2. TypeOK /\ IdsInv /\ JudgedInv /\ [Next]_vars => JudgedInv'
  <2>1. CASE UNCHANGED vars
    BY <2>1 DEF vars, JudgedInv, JudgedRow, JudgedWrite, Names, TrueCompletion
  <2>2. CASE Next
    BY <2>2, JudgedReads, JudgedWrites, JudgedEnvironment DEF Next
  <2> QED
    BY <2>1, <2>2
<1>3. JudgedInv => TrueCompletion
  BY DEF JudgedInv
<1> QED
  BY <1>1, <1>2, <1>3, Ids, PTL DEF Spec

--------------------------------------------------------------------------------
(* The times.  What a handler decided on from times it read stays within the  *)
(* recovery's own bounds when it is written, however late.                    *)

Floor   == recovery.requested_at + Delay
Own     == recovery.requested_at + Delay + Validity
Ceiling == recovery.requested_at + MaxSpan

TimesRow ==
  recovery.state # "none" =>
    /\ recovery.available_at >= Floor
    /\ Own <= recovery.expires_at /\ recovery.expires_at <= Ceiling
    /\ recovery.claim_keys # {} => clock >= Floor
    /\ recovery.recovering_key # None => clock >= Floor

TimesWrite(w) ==
  Names(w) /\ recovery.state # "none" =>
    /\ w.op = "times" => w.at >= Floor /\ Own <= w.until /\ w.until <= Ceiling
    /\ w.op = "extend" => w.until <= Ceiling
    /\ w.op = "claim" => clock >= Floor
    /\ w.op \in {"judge", "register"} /\ w.key # None => clock >= Floor
    /\ w.op = "delete" /\ recovery.state \in Live => clock >= Own

TimesInv ==
  /\ TimesRow
  /\ \A w \in inflight : TimesWrite(w)
  /\ StartOverApart

LEMMA TimesInit == Init => TimesInv
BY DEF Init, TimesInv, TimesRow, StartOverApart, NoRecovery, NoDeletion

(* The row as it was, and one more sound write. *)
LEMMA TimesBegun ==
  ASSUME TimesInv, NEW w, TimesWrite(w), inflight' \subseteq inflight \cup {w},
         UNCHANGED <<recovery, deletion, clock>>
  PROVE  TimesInv'
BY DEF TimesInv, TimesRow, TimesWrite, Names, StartOverApart, Floor, Own, Ceiling

(* A write that keeps the recovery and its request's time, and revives nothing. *)
LEMMA TimesKept ==
  ASSUME TimesInv, inflight' \subseteq inflight,
         recovery'.recovery_id = recovery.recovery_id,
         recovery'.requested_at = recovery.requested_at,
         recovery'.state # "none" => recovery.state # "none",
         recovery'.state \in Live => recovery.state \in Live,
         deletion'.state # "none" => deletion.state # "none",
         UNCHANGED clock, TimesRow'
  PROVE  TimesInv'
BY DEF TimesInv, TimesWrite, Names, StartOverApart, Floor, Own, Ceiling

(* The times a handler takes from an answer, whatever they are. *)
LEMMA TimesWithin ==
  ASSUME NEW r \in Recovery, NEW a \in [kind : {"none", "refused", "times"},
                                        not_before : Nat, expires : Nat]
  PROVE  /\ AvailableAt(r, a) >= r.requested_at + Delay
         /\ ExpiresAt(r, a) >= r.requested_at + Delay + Validity
         /\ ExpiresAt(r, a) <= r.requested_at + MaxSpan
BY TimesAssumption DEF AvailableAt, ExpiresAt, Larger, Smaller, Recovery

LEMMA TimesReads ==
  ASSUME TypeOK, IdsInv, TimesInv, Reads
  PROVE  TimesInv'
<1>1. CASE CancelRead
  <2>1. TimesWrite([WriteOf("cancel", recovery.recovery_id) EXCEPT !.at = clock])
    BY DEF TimesWrite, WriteOf
  <2> QED
    BY <1>1, <2>1, TimesBegun DEF CancelRead, Begin, row, ghost
<1>2. CASE CompleteRead
  <2>1. TimesWrite([WriteOf("complete", recovery.recovery_id) EXCEPT
                    !.key = recovery.recovering_key, !.seq = appKey.seq])
    BY DEF TimesWrite, WriteOf
  <2> QED
    BY <1>2, <2>1, TimesBegun DEF CompleteRead, Begin, row, ghost
<1>3. CASE DeleteRead
  <2> DEFINE w == [WriteOf("delete", recovery.recovery_id) EXCEPT !.at = clock]
  <2>1. w.op = "delete"
    BY DEF WriteOf
  <2> HIDE DEF w
  <2>2. recovery.state \in Live => clock >= Own
    BY <1>3, TimesAssumption DEF DeleteRead, RecoveryActive, TimesInv, TimesRow, Own, TypeOK, Recovery, Live
  <2>3. TimesWrite(w)
    BY <2>1, <2>2 DEF TimesWrite
  <2> QED
    BY <1>3, <2>3, TimesBegun DEF DeleteRead, Begin, row, ghost, w
<1>4. ASSUME NEW id \in RecoveryIds, RequestRead(id)
      PROVE  TimesInv'
  <2>1. TimesWrite([WriteOf("request", recovery.recovery_id) EXCEPT !.new = id, !.at = clock])
    BY DEF TimesWrite, WriteOf
  <2> QED
    BY <1>4, <2>1, TimesBegun DEF RequestRead, Begin, row, ghost
<1>5. ASSUME NEW id \in RecoveryIds, RefuseRead(id)
      PROVE  TimesInv'
  <2>1. TimesWrite(WriteOf("refuse", id))
    BY DEF TimesWrite, WriteOf
  <2> QED
    BY <1>5, <2>1, TimesBegun DEF RefuseRead, Begin, row, ghost
<1>6. ASSUME NEW id \in RecoveryIds, TimesRead(id)
      PROVE  TimesInv'
  <2> DEFINE w == [WriteOf("times", id) EXCEPT
                     !.at    = AvailableAt(recovery, answers[id]),
                     !.until = ExpiresAt(recovery, answers[id])]
  <2>1. /\ w.op = "times" /\ w.at = AvailableAt(recovery, answers[id])
        /\ w.until = ExpiresAt(recovery, answers[id])
    BY DEF WriteOf
  <2> HIDE DEF w
  <2>2. TimesWrite(w)
    BY <2>1, TimesWithin DEF TimesWrite, Floor, Own, Ceiling, TypeOK
  <2> QED
    BY <1>6, <2>2, TimesBegun DEF TimesRead, Begin, row, ghost, w
<1>7. ASSUME NEW id \in RecoveryIds, ExtendRead(id)
      PROVE  TimesInv'
  <2> DEFINE moved == Smaller(recovery.requested_at + MaxSpan, attempts[id])
             w == [WriteOf("extend", id) EXCEPT !.until = moved]
  <2>1. w.op = "extend" /\ w.until = moved
    BY DEF WriteOf
  <2>2. moved <= Ceiling
    BY TimesAssumption DEF Smaller, Ceiling, TypeOK, Recovery
  <2>3. TimesWrite(w)
    BY <2>1, <2>2 DEF TimesWrite
  <2>4. Begin(w) /\ UNCHANGED <<recovery, deletion, clock>>
    BY <1>7 DEF ExtendRead, row
  <2> QED
    BY <2>3, <2>4, TimesBegun DEF Begin
<1>8. ASSUME NEW id \in RecoveryIds, NEW k \in Keys, ClaimRead(id, k)
      PROVE  TimesInv'
  <2>1. PICK kept : Begin([WriteOf("claim", id) EXCEPT !.keys = kept])
    BY <1>8 DEF ClaimRead
  <2>2. clock >= Floor
    BY <1>8, TimesAssumption DEF ClaimRead, RecoveryAvailable, TimesInv, TimesRow, Floor, TypeOK, Recovery
  <2>3. TimesWrite([WriteOf("claim", id) EXCEPT !.keys = kept])
    BY <2>2 DEF TimesWrite, WriteOf
  <2> QED
    BY <1>8, <2>1, <2>3, TimesBegun DEF ClaimRead, Begin, row, ghost
<1>9. ASSUME NEW id \in RecoveryIds, NEW k \in Keys, RegisterRead(id, k)
      PROVE  TimesInv'
  <2> DEFINE w == [WriteOf("judge", id) EXCEPT
                     !.key = IF k \in recovery.claim_keys THEN k ELSE None]
  <2>1. w.op = "judge" /\ w.key = IF k \in recovery.claim_keys THEN k ELSE None
    BY DEF WriteOf
  <2> HIDE DEF w
  <2>2. TimesWrite(w)
    BY <1>9, <2>1 DEF RegisterRead, TimesWrite, TimesInv, TimesRow
  <2> QED
    BY <1>9, <2>2, TimesBegun DEF RegisterRead, Begin, row, ghost, w
<1>10. ASSUME NEW id \in RecoveryIds, NEW k \in Keys, RegisterRoute(id, k)
      PROVE  TimesInv'
  BY <1>10 DEF RegisterRoute, TimesInv, TimesRow, TimesWrite, Names, StartOverApart, Floor, Own, Ceiling, row, ghost
<1> QED
  BY <1>1, <1>2, <1>3, <1>4, <1>5, <1>6, <1>7, <1>8, <1>9, <1>10 DEF Reads

(* A new recovery has the API's own times, and comes beside no start-over. *)
LEMMA TimesReplace ==
  ASSUME TypeOK, IdsInv, TimesInv, NEW w \in inflight, SetRecovery(w)
  PROVE  TimesInv'
<1>1. w.at \in Nat
  BY DEF TypeOK, Write
<1>2. /\ recovery'.recovery_id = w.new
      /\ recovery'.requested_at = w.at
      /\ recovery'.available_at = w.at + Delay
      /\ recovery'.expires_at = w.at + Delay + Validity
      /\ recovery'.claim_keys = {}
      /\ recovery'.recovering_key = None
  BY DEF SetRecovery, NoRecovery
<1>3. inflight' = inflight \ {w} /\ deletion'.state = "none"
  BY DEF SetRecovery, RequestCondition, End
<1>4. ASSUME NEW v \in inflight
      PROVE  TimesWrite(v)'
  <2>1. v.id # w.new
    BY DEF IdsInv, RequestsInv, SetRecovery
  <2> QED
    BY <1>2, <2>1 DEF TimesWrite, Names
<1>5. TimesRow'
  BY <1>1, <1>2, TimesAssumption DEF TimesRow, Floor, Own, Ceiling
<1> QED
  BY <1>3, <1>4, <1>5 DEF TimesInv, StartOverApart

LEMMA TimesWrites ==
  ASSUME TypeOK, IdsInv, TimesInv, Writes
  PROVE  TimesInv'
<1>1. CASE CancelDeletion
  BY <1>1, TimesKept DEF CancelDeletion, NoDeletion, TimesInv, TimesRow, Floor, Own, Ceiling, ghost
<1>2. CASE ExecuteStartOver
  BY <1>2, TimesKept DEF ExecuteStartOver, TimesInv, TimesRow, Floor, Own, Ceiling, TypeOK, ghost
<1>3. ASSUME NEW w \in inflight, SetRecovery(w)
      PROVE  TimesInv'
  BY <1>3, TimesReplace
<1>4. ASSUME NEW w \in inflight, CancelWrite(w)
      PROVE  TimesInv'
  <2>1. TimesRow'
    BY <1>4 DEF CancelWrite, CancelCondition, Live, TimesInv, TimesRow, Floor, Own, Ceiling, TypeOK, Recovery
  <2> QED
    BY <1>4, <2>1, TimesKept DEF CancelWrite, CancelCondition, End, TypeOK, Recovery, Live, Ended
<1>5. ASSUME NEW w \in inflight, CompleteRecovery(w)
      PROVE  TimesInv'
  <2>1. TimesRow'
    BY <1>5 DEF CompleteRecovery, CompleteCondition, TimesInv, TimesRow, Floor, Own, Ceiling, TypeOK, Recovery
  <2> QED
    BY <1>5, <2>1, TimesKept DEF CompleteRecovery, CompleteCondition, End, TypeOK, Recovery, Live, Ended
<1>6. ASSUME NEW w \in inflight, RefreshUnavailable(w)
      PROVE  TimesInv'
  <2>1. TimesRow'
    BY <1>6 DEF RefreshUnavailable, PendingCondition, TimesInv, TimesRow, Floor, Own, Ceiling, TypeOK, Recovery
  <2> QED
    BY <1>6, <2>1, TimesKept DEF RefreshUnavailable, PendingCondition, End, TypeOK, Recovery, Live, Ended
<1>7. ASSUME NEW w \in inflight, ApplyEnclaveTimes(w)
      PROVE  TimesInv'
  <2>1. TimesWrite(w)
    BY DEF TimesInv
  <2>2. TimesRow'
    BY <1>7, <2>1 DEF ApplyEnclaveTimes, PendingCondition, TimesWrite, TimesInv, TimesRow, Floor, Own, Ceiling, TypeOK, Recovery, Write
  <2> QED
    BY <1>7, <2>2, TimesKept DEF ApplyEnclaveTimes, PendingCondition, End, TypeOK, Recovery, Live, Ended, ghost
<1>8. ASSUME NEW w \in inflight, ClaimRecovery(w)
      PROVE  TimesInv'
  <2>1. TimesWrite(w)
    BY DEF TimesInv
  <2>2. TimesRow'
    BY <1>8, <2>1 DEF ClaimRecovery, TimesWrite, TimesInv, TimesRow, Floor, Own, Ceiling, TypeOK, Recovery, Write
  <2> QED
    BY <1>8, <2>2, TimesKept DEF ClaimRecovery, End, TypeOK, Recovery, Live, Ended, ghost
<1>9. ASSUME NEW w \in inflight, JudgeKey(w)
      PROVE  TimesInv'
  <2> DEFINE v == [w EXCEPT !.op = "register", !.seq = appKey.seq,
                             !.key = IF KeyInUse(w.key) THEN None ELSE w.key]
  <2>1. /\ v.op = "register" /\ v.id = w.id
        /\ v.key = IF KeyInUse(w.key) THEN None ELSE w.key
    BY DEF TypeOK, Write
  <2>2. w.op = "judge" /\ TimesWrite(w)
    BY <1>9 DEF JudgeKey, TimesInv
  <2> HIDE DEF v
  <2>3. TimesWrite(v)
    BY <2>1, <2>2 DEF TimesWrite, Names
  <2> QED
    BY <1>9, <2>3, TimesBegun DEF JudgeKey, row, ghost, v
<1>10. ASSUME NEW w \in inflight, MarkRegistered(w)
      PROVE  TimesInv'
  <2>1. TimesWrite(w)
    BY DEF TimesInv
  <2>2. TimesRow'
    BY <1>10, <2>1 DEF MarkRegistered, PendingCondition, TimesWrite, TimesInv, TimesRow, Floor, Own, Ceiling, TypeOK, Recovery, Write
  <2> QED
    BY <1>10, <2>2, TimesKept DEF MarkRegistered, PendingCondition, End, TypeOK, Recovery, Live, Ended, ghost
<1>11. ASSUME NEW w \in inflight, ExtendExpiry(w)
      PROVE  TimesInv'
  <2>1. TimesWrite(w)
    BY DEF TimesInv
  <2>2. TimesRow'
    BY <1>11, <2>1, TimesAssumption DEF ExtendExpiry, TimesWrite, TimesInv, TimesRow, Floor, Own, Ceiling, TypeOK, Recovery, Write
  <2> QED
    BY <1>11, <2>2, TimesKept DEF ExtendExpiry, End, TypeOK, Recovery, Live, Ended, ghost
<1>12. ASSUME NEW w \in inflight, RequestDeletion(w)
      PROVE  TimesInv'
  <2>1. TimesWrite(w)
    BY DEF TimesInv
  <2>2. StartOverApart'
    BY <1>12, <2>1 DEF RequestDeletion, TimesWrite, StartOverApart, Own, Live
  <2>3. inflight' \subseteq inflight /\ UNCHANGED <<recovery, clock>>
    BY <1>12 DEF RequestDeletion, End
  <2> QED
    BY <2>2, <2>3 DEF TimesInv, TimesRow, TimesWrite, Names, Floor, Own, Ceiling
<1>13. ASSUME NEW w \in inflight, Abandon(w)
      PROVE  TimesInv'
  <2>1. inflight' \subseteq inflight /\ UNCHANGED <<recovery, deletion, clock>>
    BY <1>13 DEF Abandon, End, row
  <2> QED
    BY <2>1 DEF TimesInv, TimesRow, TimesWrite, Names, StartOverApart, Floor, Own, Ceiling
<1> QED
  BY <1>1, <1>2, <1>3, <1>4, <1>5, <1>6, <1>7, <1>8, <1>9, <1>10, <1>11, <1>12, <1>13 DEF Writes

(* Time passes, and outside the API nothing else touches these. *)
LEMMA TimesEnvironment ==
  ASSUME TypeOK, TimesInv, Environment
  PROVE  TimesInv'
<1>1. clock' \in Nat /\ clock' >= clock
  BY DEF Environment, Tick, HostAnswers, HostRegisters, HostAdopts, HostCountsAttempt, TypeOK
<1>2. inflight' = inflight /\ UNCHANGED <<recovery, deletion>>
  BY DEF Environment, Tick, HostAnswers, HostRegisters, HostAdopts, HostCountsAttempt, row
<1>3. Floor \in Nat /\ Own \in Nat /\ clock \in Nat
  BY TimesAssumption DEF Floor, Own, TypeOK, Recovery
<1>4. TimesRow'
  BY <1>1, <1>2, <1>3 DEF TimesInv, TimesRow, Floor, Own, Ceiling
<1>5. ASSUME NEW w \in inflight
      PROVE  TimesWrite(w)'
  <2>1. TimesWrite(w)
    BY DEF TimesInv
  <2> QED
    BY <1>1, <1>2, <1>3, <2>1 DEF TimesWrite, Names, Floor, Own, Ceiling
<1>6. StartOverApart'
  BY <1>1, <1>2, <1>3 DEF TimesInv, StartOverApart, Own
<1> QED
  BY <1>2, <1>4, <1>5, <1>6 DEF TimesInv

LEMMA Times == Spec => []TimesInv
<1>1. Init => TimesInv
  BY TimesInit
<1>2. TypeOK /\ IdsInv /\ TimesInv /\ [Next]_vars => TimesInv'
  <2>1. CASE UNCHANGED vars
    BY <2>1 DEF vars, TimesInv, TimesRow, TimesWrite, Names, StartOverApart, Floor, Own, Ceiling
  <2>2. CASE Next
    BY <2>2, TimesReads, TimesWrites, TimesEnvironment DEF Next
  <2> QED
    BY <2>1, <2>2
<1> QED
  BY <1>1, <1>2, Ids, PTL DEF Spec

(* The API's own delay before any claim or spent code, and its cap on how     *)
(* long a recovery lives, hold whatever the enclave sends.                    *)
THEOREM FloorHolds == Spec => []ApiFloor
<1>1. TimesInv => ApiFloor
  BY DEF TimesInv, TimesRow, ApiFloor, Floor, Own, Ceiling
<1> QED
  BY <1>1, Times, PTL

(* No start-over is accepted within the time the API gives a live recovery,   *)
(* and no recovery while there is a start-over.                               *)
THEOREM StartOversKeepApart == Spec => []StartOverApart
<1>1. TimesInv => StartOverApart
  BY DEF TimesInv
<1> QED
  BY <1>1, Times, PTL

--------------------------------------------------------------------------------
(* The life cycle.  Only five of the writes change what has become of a       *)
(* recovery, each as one step of RecoveryLifecycle.                           *)

LEMMA LifecycleInit == Init => Lifecycle!Init
<1> SUFFICES ASSUME Init
             PROVE  Stage = [id \in RecoveryIds |-> "none"]
  BY DEF Lifecycle!Init
<1> QED
  BY NoneAssumption DEF Init, Stage, NoRecovery

(* A step that leaves the row's recovery in its state, and replaces none. *)
LEMMA StageKept ==
  ASSUME recovery'.recovery_id = recovery.recovery_id,
         recovery'.state = recovery.state,
         past' = past
  PROVE  Stage' = Stage
BY DEF Stage

(* A write that gives the row's recovery another state. *)
LEMMA StageMoves ==
  ASSUME TypeOK, IdsInv, NEW st \in States \ {"none"},
         recovery.state # "none",
         recovery'.recovery_id = recovery.recovery_id,
         recovery'.state = st,
         past' = past
  PROVE  /\ recovery.recovery_id \in RecoveryIds
         /\ Stage[recovery.recovery_id] = recovery.state
         /\ Stage' = [Stage EXCEPT ![recovery.recovery_id] = st]
<1>1. recovery.recovery_id \in RecoveryIds
  BY DEF IdsInv, RowInv, TypeOK
<1> QED
  BY <1>1 DEF Stage

LEMMA LifecycleRequest ==
  ASSUME TypeOK, IdsInv, NEW w \in inflight, SetRecovery(w)
  PROVE  Lifecycle!Request(w.new)
<1>1. /\ recovery'.recovery_id = w.new
      /\ recovery'.state = "pending"
      /\ w.id = recovery.recovery_id
  BY DEF SetRecovery, NoRecovery, RequestCondition, Names
<1>2. /\ w.new \in RecoveryIds
      /\ w.new # recovery.recovery_id
      /\ past[w.new] = "none"
  BY DEF IdsInv, RequestsInv, SetRecovery, TypeOK
<1>3. \A id \in RecoveryIds : past[id] \notin Live
  BY DEF IdsInv, HistoryInv
<1>4. past' = [id \in RecoveryIds |->
                 IF id # recovery.recovery_id THEN past[id]
                 ELSE IF recovery.state \in Live THEN "lapsed" ELSE recovery.state]
  BY <1>1 DEF SetRecovery
<1>5. Stage[w.new] = "none"
  BY <1>2 DEF Stage
<1>6. ASSUME NEW i \in RecoveryIds
      PROVE  Stage'[i] = IF i = w.new THEN "pending"
                         ELSE IF Stage[i] \in Live THEN "lapsed" ELSE Stage[i]
  BY <1>1, <1>2, <1>3, <1>4 DEF Stage
<1>7. Stage' = [i \in RecoveryIds |-> Stage'[i]]
  BY DEF Stage
<1> QED
  BY <1>5, <1>6, <1>7 DEF Lifecycle!Request, Lifecycle!Live, Live

LEMMA LifecycleWrites ==
  ASSUME TypeOK, IdsInv, Writes
  PROVE  [Lifecycle!Next]_Stage
<1>1. CASE CancelDeletion
  BY <1>1, StageKept DEF CancelDeletion, ghost
<1>2. CASE ExecuteStartOver
  BY <1>2, StageKept DEF ExecuteStartOver, ghost
<1>3. ASSUME NEW w \in inflight, SetRecovery(w)
      PROVE  [Lifecycle!Next]_Stage
  <2>1. w.new \in RecoveryIds
    BY <1>3 DEF IdsInv, RequestsInv, SetRecovery, TypeOK
  <2> QED
    BY <1>3, <2>1, LifecycleRequest DEF Lifecycle!Next
<1>4. ASSUME NEW w \in inflight, CancelWrite(w)
      PROVE  [Lifecycle!Next]_Stage
  <2>1. /\ recovery'.recovery_id = recovery.recovery_id
        /\ recovery'.state = "cancelled"
        /\ past' = past
    BY <1>4 DEF CancelWrite, TypeOK, Recovery, ghost
  <2>2. recovery.state # "none" /\ "cancelled" \in States \ {"none"}
    BY <1>4 DEF CancelWrite, CancelCondition, Live, Ended, States
  <2>3. Lifecycle!Cancel(recovery.recovery_id)
    BY <1>4, <2>1, <2>2, StageMoves
       DEF CancelWrite, CancelCondition, Lifecycle!Cancel, Lifecycle!Move, Lifecycle!Live, Live
  <2> QED
    BY <2>1, <2>2, <2>3, StageMoves DEF Lifecycle!Next
<1>5. ASSUME NEW w \in inflight, CompleteRecovery(w)
      PROVE  [Lifecycle!Next]_Stage
  <2>1. /\ recovery'.recovery_id = recovery.recovery_id
        /\ recovery'.state = "completed"
        /\ past' = past
    BY <1>5 DEF CompleteRecovery, TypeOK, Recovery, ghost
  <2>2. recovery.state # "none" /\ "completed" \in States \ {"none"}
    BY <1>5 DEF CompleteRecovery, CompleteCondition, Live, Ended, States
  <2>3. Lifecycle!Complete(recovery.recovery_id)
    BY <1>5, <2>1, <2>2, StageMoves
       DEF CompleteRecovery, CompleteCondition, Lifecycle!Complete, Lifecycle!Move, Lifecycle!Live, Live
  <2> QED
    BY <2>1, <2>2, <2>3, StageMoves DEF Lifecycle!Next
<1>6. ASSUME NEW w \in inflight, RefreshUnavailable(w)
      PROVE  [Lifecycle!Next]_Stage
  <2>1. /\ recovery'.recovery_id = recovery.recovery_id
        /\ recovery'.state = "unavailable"
        /\ past' = past
    BY <1>6 DEF RefreshUnavailable, TypeOK, Recovery, ghost
  <2>2. recovery.state # "none" /\ "unavailable" \in States \ {"none"}
    BY <1>6 DEF RefreshUnavailable, PendingCondition, Live, Ended, States
  <2>3. Lifecycle!Refuse(recovery.recovery_id)
    BY <1>6, <2>1, <2>2, StageMoves
       DEF RefreshUnavailable, PendingCondition, Lifecycle!Refuse, Lifecycle!Move, Lifecycle!Live, Live
  <2> QED
    BY <2>1, <2>2, <2>3, StageMoves DEF Lifecycle!Next
<1>7. ASSUME NEW w \in inflight, MarkRegistered(w)
      PROVE  [Lifecycle!Next]_Stage
  <2>1. /\ recovery'.recovery_id = recovery.recovery_id
        /\ recovery'.state = "registered"
        /\ past' = past
    BY <1>7 DEF MarkRegistered, TypeOK, Recovery, ghost
  <2>2. recovery.state # "none" /\ "registered" \in States \ {"none"}
    BY <1>7 DEF MarkRegistered, PendingCondition, Live, Ended, States
  <2>3. Lifecycle!Register(recovery.recovery_id)
    BY <1>7, <2>1, <2>2, StageMoves
       DEF MarkRegistered, PendingCondition, Lifecycle!Register, Lifecycle!Move, Lifecycle!Live, Live
  <2> QED
    BY <2>1, <2>2, <2>3, StageMoves DEF Lifecycle!Next
<1>8. ASSUME NEW w \in inflight, ApplyEnclaveTimes(w)
      PROVE  [Lifecycle!Next]_Stage
  BY <1>8, StageKept DEF ApplyEnclaveTimes, TypeOK, Recovery, ghost
<1>9. ASSUME NEW w \in inflight, ClaimRecovery(w)
      PROVE  [Lifecycle!Next]_Stage
  BY <1>9, StageKept DEF ClaimRecovery, TypeOK, Recovery, ghost
<1>10. ASSUME NEW w \in inflight, ExtendExpiry(w)
      PROVE  [Lifecycle!Next]_Stage
  BY <1>10, StageKept DEF ExtendExpiry, TypeOK, Recovery, ghost
<1>11. ASSUME NEW w \in inflight, JudgeKey(w)
      PROVE  [Lifecycle!Next]_Stage
  BY <1>11, StageKept DEF JudgeKey, row, ghost
<1>12. ASSUME NEW w \in inflight, Abandon(w)
      PROVE  [Lifecycle!Next]_Stage
  BY <1>12, StageKept DEF Abandon, row, ghost
<1>13. ASSUME NEW w \in inflight, RequestDeletion(w)
      PROVE  [Lifecycle!Next]_Stage
  BY <1>13, StageKept DEF RequestDeletion, ghost
<1> QED
  BY <1>1, <1>2, <1>3, <1>4, <1>5, <1>6, <1>7, <1>8, <1>9, <1>10, <1>11, <1>12, <1>13 DEF Writes

LEMMA LifecycleStutters ==
  ASSUME Reads \/ Environment \/ UNCHANGED vars
  PROVE  Stage' = Stage
<1>1. recovery' = recovery /\ past' = past
  <2>1. CASE Reads
    BY <2>1 DEF Reads, CancelRead, CompleteRead, DeleteRead, RequestRead, RefuseRead,
       TimesRead, ExtendRead, ClaimRead, RegisterRoute, RegisterRead, row, ghost
  <2>2. CASE Environment
    BY <2>2 DEF Environment, Tick, HostAnswers, HostRegisters, HostAdopts, HostCountsAttempt,
       row, ghost
  <2>3. CASE UNCHANGED vars
    BY <2>3 DEF vars
  <2> QED
    BY <2>1, <2>2, <2>3
<1> QED
  BY <1>1, StageKept

(* The rows implement the life cycle: every write of every interleaving is one *)
(* step of it, or changes nothing of it.                                       *)
THEOREM Refinement == Spec => FollowsLifecycle
<1>1. Init => Lifecycle!Init
  BY LifecycleInit
<1>2. TypeOK /\ IdsInv /\ [Next]_vars => [Lifecycle!Next]_Stage
  BY LifecycleWrites, LifecycleStutters DEF Next
<1> QED
  BY <1>1, <1>2, Ids, PTL DEF Spec, FollowsLifecycle, Lifecycle!Spec
================================================================================
