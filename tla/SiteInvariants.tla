------------------------------ MODULE SiteInvariants ------------------------------
(***************************************************************************)
(* The services that MCServices runs beside those of ServiceInvariants:    *)
(* the pages of the member and admin sites and the requests on their way   *)
(* to an instance, each in the variables x1, x2, ... that it uses there,   *)
(* with the inductive invariant that carries its properties and the proof  *)
(* of it.  What a section assumes of its constants is a hypothesis of its  *)
(* lemmas (LockConstants, SlotConstants); MCServices assumes it of the     *)
(* values the run gives them.                                              *)
(***************************************************************************)
EXTENDS Integers, Sequences, FiniteSets, FiniteSetTheorems, SequenceTheorems, WellFoundedInduction, TLAPS

CONSTANTS One, Two, Empty  \* tabs, phones, loads and calls at once; an unused variable

VARIABLES x1, x2, x3, x4, x5, x6, x7, x8, x9, x10

--------------------------------------------------------------------------------
(***************************************************************************)
(* That every message is answerable, that a release under test holds no    *)
(* other member's vault and that the notice of a release is true, for any  *)
(* number of phones, releases, request ids and invocations.  The slot is   *)
(* put before its message and outlives it, so a message finds the slot of  *)
(* its call; a member who is no canary is never routed to a release under  *)
(* test, and no release comes under test again.                            *)
(***************************************************************************)

CONSTANTS Pair, SlotReleases, MaxRetries                       \* phones' keys, release numbers, calls made in all

Slots == INSTANCE RequestSlots WITH
               Keys <- Pair, Releases <- SlotReleases, Ids <- One, Calls <- Two, MaxRetries <- MaxRetries,
               vault <- x1, release <- x2, fleet <- x3, slot <- x4, queue <- x5, call <- x6,
               made <- x7

\* Release numbers start at 1 and 0 is none of them, nor is "none" a key or an id.
SlotConstants == SlotReleases \subseteq Nat \ {0} /\ "none" \notin Pair \cup One /\ MaxRetries \in Nat

SlotTyped ==
  /\ x1 \in [state : {"enrolling", "enrolled", "deleted"}, closing : BOOLEAN, current : BOOLEAN,
                app : Pair \cup {"none"}, pending : Pair \cup {"none"}, canary : BOOLEAN,
                lease : SlotReleases \cup {0}, sealed : SlotReleases \cup {0}]
  /\ x2 \in [SlotReleases -> {"canary", "active", "retired", "removed", "rescue", "unavailable"}]
  /\ x4 \in [One -> [status : {"none", "queued", "done", "expired"}, key : Pair \cup {"none"}, age : 0..1]]
  /\ x5 \in SUBSET [id : One, inst : SlotReleases, call : Two, key : Pair]
  /\ x6 \in [Two -> [at : {"idle", "route", "slot", "send", "fail"}, id : One \cup {"none"},
                         key : Pair \cup {"none"}, op : {"none", "enroll", "unlock"},
                         inst : SlotReleases \cup {0}]]

\* An invocation that was let in knows its id and key; one that was routed its instance.
Under(c) == x6[c].at \in {"send", "fail"}

CallsFit == \A c \in Two :
  /\ x6[c].at # "idle" => x6[c].id \in One /\ x6[c].key \in Pair
  /\ x6[c].at \in {"slot", "send", "fail"} => x6[c].inst \in SlotReleases

\* The slot of a call that is sending, or of a message: its own, and young.
CallsSlot == \A c \in Two : Under(c) =>
  LET s == x4[x6[c].id] IN s.status # "none" /\ s.key = x6[c].key /\ s.age = 0
QueueSlot == \A m \in x5 : x4[m.id].status # "none" /\ x4[m.id].key = m.key /\ x4[m.id].age = 0

\* Nobody else has the id: no other sender, no message but the sender's own.
OneSender == \A c, d \in Two : Under(c) /\ Under(d) /\ x6[c].id = x6[d].id => c = d
OwnMessage == \A c \in Two, m \in x5 : Under(c) /\ m.id = x6[c].id =>
  x6[c].at = "fail" /\ m.call = c /\ m.inst = x6[c].inst
OneMessage == \A m, n \in x5 : n.id = m.id => n = m

SlotInv == /\ SlotTyped /\ CallsFit
           /\ CallsSlot /\ QueueSlot /\ OneSender /\ OwnMessage /\ OneMessage

\* Where a member who is no canary has got to is not under test.
TestedInv == ~x1.canary =>
  /\ x1.sealed # 0 => x2[x1.sealed] # "canary"
  /\ \A c \in Two : x6[c].at \in {"slot", "send", "fail"} => x2[x6[c].inst] # "canary"
  /\ \A m \in x5 : x2[m.inst] # "canary"

--------------------------------------------------------------------------------
LEMMA SlotInit == SlotConstants /\ Slots!Init => SlotInv /\ TestedInv
<1> SUFFICES ASSUME SlotConstants, Slots!Init PROVE SlotInv /\ TestedInv
  OBVIOUS
<1>1. x6 = [c \in Two |-> Slots!NoCall] /\ x5 = {} /\ x4 = [i \in One |-> Slots!NoSlot]
  BY DEF Slots!Init
<1>2. x1.sealed = 0 /\ x1 \in [state : {"enrolling", "enrolled", "deleted"}, closing : BOOLEAN,
         current : BOOLEAN, app : Pair \cup {"none"}, pending : Pair \cup {"none"}, canary : BOOLEAN,
         lease : SlotReleases \cup {0}, sealed : SlotReleases \cup {0}]
  BY DEF Slots!Init
<1>3. x2 \in [SlotReleases -> {"canary", "active", "retired", "removed", "rescue", "unavailable"}]
  BY DEF Slots!Init
<1>4. \A c \in Two : x6[c].at = "idle"
  BY <1>1 DEF Slots!NoCall
<1>5. SlotTyped
  BY <1>1, <1>2, <1>3 DEF SlotTyped, Slots!NoCall, Slots!NoSlot
<1> QED
  BY <1>1, <1>2, <1>4, <1>5
     DEF SlotInv, CallsFit, CallsSlot, QueueSlot, OneSender, OwnMessage, OneMessage, Under, TestedInv

\* The steps that leave the calls, the slots and the queue alone.
LEMMA RestSteps ==
  SlotConstants /\ SlotInv /\ TestedInv
  /\ (Slots!AskForEnclave \/ Slots!InstanceStarts \/ Slots!InstanceStops \/ Slots!LeaseEnds \/ Slots!ReleaseMoves \/ Slots!NewPhone
      \/ Slots!AccountOrVaultDeleted \/ UNCHANGED Slots!vars)
  => SlotInv' /\ TestedInv'
<1> SUFFICES ASSUME SlotConstants, SlotInv, TestedInv,
                    Slots!AskForEnclave \/ Slots!InstanceStarts \/ Slots!InstanceStops \/ Slots!LeaseEnds \/ Slots!ReleaseMoves
                    \/ Slots!NewPhone \/ Slots!AccountOrVaultDeleted \/ UNCHANGED Slots!vars
             PROVE  SlotInv' /\ TestedInv'
  OBVIOUS
<1>1. UNCHANGED <<x4, x5, x6>>
  BY DEF Slots!AskForEnclave, Slots!InstanceStarts, Slots!InstanceStops, Slots!LeaseEnds, Slots!ReleaseMoves, Slots!NewPhone,
         Slots!AccountOrVaultDeleted, Slots!vars
<1> DEFINE Vaults == [state : {"enrolling", "enrolled", "deleted"}, closing : BOOLEAN, current : BOOLEAN,
                app : Pair \cup {"none"}, pending : Pair \cup {"none"}, canary : BOOLEAN,
                lease : SlotReleases \cup {0}, sealed : SlotReleases \cup {0}]
<1>2. x1' \in Vaults /\ x1'.canary = x1.canary /\ x1'.sealed = x1.sealed
  <2>1. x1 \in Vaults
    BY DEF SlotInv, SlotTyped
  <2>2. CASE Slots!NewPhone
    BY <2>1, <2>2 DEF Slots!NewPhone
  <2>3. CASE Slots!AccountOrVaultDeleted
    BY <2>1, <2>3 DEF Slots!AccountOrVaultDeleted
  <2>4. CASE Slots!LeaseEnds
    BY <2>1, <2>4 DEF Slots!LeaseEnds
  <2>5. CASE UNCHANGED x1
    BY <2>1, <2>5
  <2> QED
    BY <2>2, <2>3, <2>4, <2>5 DEF Slots!AskForEnclave, Slots!InstanceStarts, Slots!InstanceStops, Slots!ReleaseMoves, Slots!vars
<1>3. /\ x2' \in [SlotReleases -> {"canary", "active", "retired", "removed", "rescue", "unavailable"}]
      /\ \A n \in SlotReleases : x2'[n] = "canary" => x2[n] = "canary"
  <2>1. x2 \in [SlotReleases -> {"canary", "active", "retired", "removed", "rescue", "unavailable"}]
    BY DEF SlotInv, SlotTyped
  <2>2. CASE Slots!ReleaseMoves
    <3>1. PICK n \in SlotReleases, t \in {"active", "removed", "retired", "rescue", "unavailable"} :
             x2' = [x2 EXCEPT ![n] = t]
      <4>1. PICK n \in SlotReleases, step \in {<<"canary", "active">>, <<"canary", "removed">>,
                   <<"active", "retired">>, <<"retired", "removed">>, <<"removed", "rescue">>,
                   <<"rescue", "removed">>, <<"removed", "unavailable">>} :
               x2' = [x2 EXCEPT ![n] = step[2]]
        BY <2>2 DEF Slots!ReleaseMoves
      <4>2. step[2] \in {"active", "removed", "retired", "rescue", "unavailable"}
        OBVIOUS
      <4> QED
        BY <4>1, <4>2
    <3> QED
      BY <2>1, <3>1
  <2>3. CASE UNCHANGED x2
    BY <2>1, <2>3
  <2> QED
    BY <2>2, <2>3 DEF Slots!AskForEnclave, Slots!InstanceStarts, Slots!InstanceStops, Slots!LeaseEnds, Slots!NewPhone,
                      Slots!AccountOrVaultDeleted, Slots!vars
<1>4. SlotTyped'
  BY <1>1, <1>2, <1>3 DEF SlotInv, SlotTyped
<1>5. SlotInv'
  BY <1>1, <1>4 DEF SlotInv, CallsFit, CallsSlot, QueueSlot, OneSender, OwnMessage, OneMessage, Under
<1>6. TestedInv'
  <2>1. \A c \in Two : x6[c].at \in {"slot", "send", "fail"} => x6[c].inst \in SlotReleases
    BY DEF SlotInv, CallsFit
  <2>2. \A m \in x5 : m.inst \in SlotReleases
    BY DEF SlotInv, SlotTyped
  <2>3. x1.sealed \in SlotReleases \cup {0}
    BY DEF SlotInv, SlotTyped
  <2> QED
    BY <1>1, <1>2, <1>3, <2>1, <2>2, <2>3 DEF TestedInv
<1> QED
  BY <1>5, <1>6

--------------------------------------------------------------------------------
(* The calls.                                                              *)

Calling == [at : {"idle", "route", "slot", "send", "fail"}, id : One \cup {"none"},
            key : Pair \cup {"none"}, op : {"none", "enroll", "unlock"}, inst : SlotReleases \cup {0}]

\* What is common to them: a call moves, and the vault and the releases stay.
LEMMA CallMoves ==
  ASSUME SlotConstants, SlotInv, NEW c \in Two, Slots!CallNext(c)
  PROVE  /\ x6' \in [Two -> Calling]
         /\ \A d \in Two \ {c} : x6'[d] = x6[d]
         /\ UNCHANGED <<x1, x2>>
<1>1. /\ x6 \in [Two -> Calling] /\ UNCHANGED <<x1, x2>>
      /\ Slots!NoCall \in Calling
  BY DEF SlotInv, SlotTyped, Calling, Slots!NoCall, Slots!CallNext, Slots!Call, Slots!Route, Slots!PutSlot, Slots!Send, Slots!MarkExpired, Slots!CallDies
<1>2. \E r \in Calling : x6' = [x6 EXCEPT ![c] = r]
  <2>1. CASE Slots!Call(c)
    <3>1. PICK k \in Pair, i \in One : x6' = [x6 EXCEPT ![c] =
             [Slots!NoCall EXCEPT !.at = "route", !.id = i, !.key = k,
                            !.op = IF k = x1.app THEN "unlock" ELSE "enroll"]]
      BY <2>1 DEF Slots!Call
    <3> DEFINE op == IF k = x1.app THEN "unlock" ELSE "enroll"
               r == [Slots!NoCall EXCEPT !.at = "route", !.id = i, !.key = k, !.op = op]
    <3>2. op \in {"none", "enroll", "unlock"} /\ x6' = [x6 EXCEPT ![c] = r]
      BY <3>1
    <3> HIDE DEF op
    <3>3. r \in Calling
      BY <3>2 DEF Slots!NoCall, Calling
    <3> HIDE DEF r
    <3> QED
      BY <3>2, <3>3
  <2>2. CASE Slots!Route(c)
    <3>1. PICK n \in SlotReleases :
             x6' = [x6 EXCEPT ![c] = IF Slots!routeCheck(n) /\ Slots!Admits(x6[c].op, n)
                                   THEN [@ EXCEPT !.at = "slot", !.inst = n] ELSE Slots!NoCall]
      BY <2>2 DEF Slots!Route
    <3> DEFINE routed == [x6[c] EXCEPT !.at = "slot", !.inst = n]
    <3>2. routed \in Calling
      BY <1>1 DEF Calling
    <3>3. x6' = [x6 EXCEPT ![c] = routed] \/ x6' = [x6 EXCEPT ![c] = Slots!NoCall]
      BY <3>1
    <3> HIDE DEF routed
    <3> QED
      BY <1>1, <3>2, <3>3
  <2>3. CASE x6' \in {[x6 EXCEPT ![c].at = "send"], [x6 EXCEPT ![c].at = "fail"],
                        [x6 EXCEPT ![c] = Slots!NoCall]}
    <3>1. [x6[c] EXCEPT !.at = "send"] \in Calling /\ [x6[c] EXCEPT !.at = "fail"] \in Calling
      BY <1>1 DEF Calling
    <3> QED
      BY <1>1, <2>3, <3>1
  <2> QED
    BY <2>1, <2>2, <2>3 DEF Slots!CallNext, Slots!PutSlot, Slots!Send, Slots!MarkExpired, Slots!CallDies
<1> QED
  BY <1>1, <1>2

LEMMA CallTakes ==
  ASSUME SlotConstants, SlotInv, TestedInv, NEW c \in Two, Slots!Call(c) \/ Slots!Route(c) \/ Slots!CallDies(c)
  PROVE  SlotInv' /\ TestedInv'
<1>1. /\ x6 \in [Two -> Calling] /\ x6' \in [Two -> Calling]
      /\ \A d \in Two \ {c} : x6'[d] = x6[d]
      /\ UNCHANGED <<x1, x2, x4, x5>>
  BY CallMoves DEF Slots!CallNext, SlotInv, SlotTyped, Calling, Slots!Call, Slots!Route, Slots!CallDies
<1>2. /\ ~Under(c)'
      /\ x6'[c].at # "idle" => x6'[c].id \in One /\ x6'[c].key \in Pair
      /\ x6'[c].at = "slot" => x6'[c].inst \in SlotReleases
                                  /\ (~x1.canary => x2[x6'[c].inst] # "canary")
  <2>1. CASE Slots!Call(c)
    <3>1. PICK k \in Pair, i \in One : x6' = [x6 EXCEPT ![c] =
             [Slots!NoCall EXCEPT !.at = "route", !.id = i, !.key = k,
                            !.op = IF k = x1.app THEN "unlock" ELSE "enroll"]]
      BY <2>1 DEF Slots!Call
    <3>2. x6'[c].at = "route" /\ x6'[c].id = i /\ x6'[c].key = k
      BY <1>1, <3>1 DEF Slots!NoCall
    <3> QED
      BY <3>2 DEF Under
  <2>2. CASE Slots!Route(c)
    <3>1. PICK n \in SlotReleases :
             x6' = [x6 EXCEPT ![c] = IF Slots!routeCheck(n) /\ Slots!Admits(x6[c].op, n)
                                   THEN [@ EXCEPT !.at = "slot", !.inst = n] ELSE Slots!NoCall]
      BY <2>2 DEF Slots!Route
    <3>2. CASE Slots!routeCheck(n) /\ Slots!Admits(x6[c].op, n)
      <4>1. x6'[c] = [x6[c] EXCEPT !.at = "slot", !.inst = n]
        BY <1>1, <3>1, <3>2
      <4>2. x6'[c].at = "slot" /\ x6'[c].inst = n /\ x6'[c].id = x6[c].id
            /\ x6'[c].key = x6[c].key
        BY <1>1, <4>1 DEF Calling
      <4>3. x6[c].id \in One /\ x6[c].key \in Pair
        BY <2>2 DEF Slots!Route, SlotInv, CallsFit
      <4>4. ~x1.canary => x2[n] # "canary"
        BY <3>2 DEF Slots!Admits, Slots!enrollmentTargets, Slots!releasesWithStatus, Slots!routable
      <4> QED
        BY <4>2, <4>3, <4>4 DEF Under
    <3>3. CASE ~(Slots!routeCheck(n) /\ Slots!Admits(x6[c].op, n))
      BY <1>1, <3>1, <3>3 DEF Slots!NoCall, Under
    <3> QED
      BY <3>2, <3>3
  <2>3. CASE Slots!CallDies(c)
    BY <1>1, <2>3 DEF Slots!CallDies, Slots!NoCall, Under
  <2> QED
    BY <2>1, <2>2, <2>3
<1>3. \A d \in Two : Under(d)' => Under(d) /\ x6'[d] = x6[d]
  BY <1>1, <1>2 DEF Under
<1>4. SlotTyped' /\ CallsFit'
  BY <1>1, <1>2 DEF SlotInv, SlotTyped, CallsFit, Calling, Under
<1>5. CallsSlot' /\ QueueSlot' /\ OneSender' /\ OwnMessage' /\ OneMessage'
  BY <1>1, <1>3 DEF SlotInv, CallsSlot, QueueSlot, OneSender, OwnMessage, OneMessage, Under
<1>6. TestedInv'
  BY <1>1, <1>2 DEF TestedInv, Under
<1> QED
  BY <1>4, <1>5, <1>6 DEF SlotInv

LEMMA CallPuts ==
  ASSUME SlotConstants, SlotInv, TestedInv, NEW c \in Two, Slots!PutSlot(c)
  PROVE  SlotInv' /\ TestedInv'
<1> DEFINE i == x6[c].id
           SlotRows == [status : {"none", "queued", "done", "expired"}, key : Pair \cup {"none"}, age : 0..1]
<1>1. /\ x6 \in [Two -> Calling] /\ x6' \in [Two -> Calling]
      /\ \A d \in Two \ {c} : x6'[d] = x6[d]
      /\ UNCHANGED <<x1, x2, x5>> /\ x4 \in [One -> SlotRows]
  BY CallMoves DEF Slots!CallNext, SlotInv, SlotTyped, Calling, Slots!PutSlot
<1>2. i \in One /\ x6[c].key \in Pair /\ x6[c].inst \in SlotReleases
  BY DEF Slots!PutSlot, SlotInv, CallsFit
<1>3. CASE ~Slots!Free(i)
  <2>1. x4' = x4 /\ x6'[c] = Slots!NoCall
    BY <1>1, <1>3 DEF Slots!PutSlot
  <2>2. \A d \in Two : x6'[d].at # "idle" => x6'[d] = x6[d]
    BY <1>1, <2>1 DEF Slots!NoCall
  <2>3. SlotTyped' /\ CallsFit'
    BY <1>1, <2>1, <2>2 DEF SlotInv, SlotTyped, CallsFit, Calling
  <2>4. CallsSlot' /\ QueueSlot' /\ OneSender' /\ OwnMessage' /\ OneMessage'
    BY <1>1, <2>1, <2>2 DEF SlotInv, CallsSlot, QueueSlot, OneSender, OwnMessage, OneMessage, Under
  <2>5. TestedInv'
    BY <1>1, <2>2 DEF TestedInv
  <2> QED
    BY <2>3, <2>4, <2>5 DEF SlotInv
<1>4. CASE Slots!Free(i)
  <2>1. /\ x4' = [x4 EXCEPT ![i] = [status |-> "queued", key |-> x6[c].key, age |-> 0]]
        /\ x6' = [x6 EXCEPT ![c].at = "send"]
    BY <1>4 DEF Slots!PutSlot
  <2>2. /\ x6'[c].at = "send" /\ x6'[c].id = i /\ x6'[c].key = x6[c].key
        /\ x6'[c].inst = x6[c].inst /\ x6[c].at = "slot"
    BY <1>1, <2>1 DEF Calling, Slots!PutSlot
  <2>3. x4'[i].status = "queued" /\ x4'[i].key = x6[c].key /\ x4'[i].age = 0
    BY <1>1, <1>2, <2>1
  <2>4. \A j \in One \ {i} : x4'[j] = x4[j]
    BY <1>1, <2>1
  <2>5. x4' \in [One -> SlotRows]
    BY <1>1, <1>2, <2>1
  <2>6. /\ \A m \in x5 : m.id # i
        /\ \A d \in Two : Under(d) => x6[d].id # i
    BY <1>4 DEF Slots!Free, SlotInv, QueueSlot, CallsSlot
  <2>7. SlotTyped' /\ CallsFit'
    BY <1>1, <1>2, <2>2, <2>5 DEF SlotInv, SlotTyped, CallsFit, Calling
  <2>8. CallsSlot' /\ QueueSlot'
    BY <1>1, <1>2, <2>2, <2>3, <2>4, <2>6
       DEF SlotInv, SlotTyped, CallsFit, CallsSlot, QueueSlot, Under
  <2>9. OneSender' /\ OwnMessage' /\ OneMessage'
    BY <1>1, <2>2, <2>6 DEF SlotInv, OneSender, OwnMessage, OneMessage, Under
  <2>10. TestedInv'
    BY <1>1, <2>2 DEF TestedInv
  <2> QED
    BY <2>7, <2>8, <2>9, <2>10 DEF SlotInv
<1> QED
  BY <1>3, <1>4

LEMMA CallSends ==
  ASSUME SlotConstants, SlotInv, TestedInv, NEW c \in Two, Slots!Send(c)
  PROVE  SlotInv' /\ TestedInv'
<1> DEFINE own == [id |-> x6[c].id, inst |-> x6[c].inst, call |-> c, key |-> x6[c].key]
<1>1. /\ x6 \in [Two -> Calling] /\ x6' \in [Two -> Calling]
      /\ \A d \in Two \ {c} : x6'[d] = x6[d]
      /\ UNCHANGED <<x1, x2, x4>> /\ x6[c].at = "send"
  BY CallMoves DEF Slots!CallNext, SlotInv, SlotTyped, Calling, Slots!Send
<1>2. /\ x6[c].id \in One /\ x6[c].key \in Pair /\ x6[c].inst \in SlotReleases
      /\ \A m \in x5 : m.id # x6[c].id
  BY <1>1 DEF SlotInv, CallsFit, OwnMessage, Under
<1>3. /\ x5' \in {x5, x5 \cup {own}}
      /\ \/ x6'[c].at = "idle"
         \/ /\ x6'[c].at = "fail" /\ x6'[c].id = x6[c].id /\ x6'[c].key = x6[c].key
            /\ x6'[c].inst = x6[c].inst
  BY <1>1 DEF Slots!Send, Slots!NoCall, Calling
<1>4. own \in [id : One, inst : SlotReleases, call : Two, key : Pair]
  BY <1>2
<1>5. \A m \in x5' : m \in x5 \/ m = own
  BY <1>3
<1>6. /\ own.id = x6[c].id /\ own.key = x6[c].key /\ own.inst = x6[c].inst /\ own.call = c
  OBVIOUS
<1> HIDE DEF own
<1>7. SlotTyped' /\ CallsFit'
  BY <1>1, <1>2, <1>3, <1>4, <1>5 DEF SlotInv, SlotTyped, CallsFit, Calling
<1>8. CallsSlot'
  BY <1>1, <1>3 DEF SlotInv, CallsSlot, Under
<1>9. QueueSlot'
  BY <1>1, <1>2, <1>5, <1>6 DEF SlotInv, CallsSlot, QueueSlot, Under
<1>10. OneSender' /\ OneMessage'
  BY <1>1, <1>2, <1>3, <1>5, <1>6 DEF SlotInv, OneSender, OneMessage, Under
<1>11. OwnMessage'
  BY <1>1, <1>2, <1>3, <1>5, <1>6 DEF SlotInv, OneSender, OwnMessage, Under
<1>12. TestedInv'
  BY <1>1, <1>2, <1>3, <1>5, <1>6 DEF TestedInv
<1> QED
  BY <1>7, <1>8, <1>9, <1>10, <1>11, <1>12 DEF SlotInv

LEMMA CallExpires ==
  ASSUME SlotConstants, SlotInv, TestedInv, NEW c \in Two, Slots!MarkExpired(c)
  PROVE  SlotInv' /\ TestedInv'
<1> DEFINE SlotRows == [status : {"none", "queued", "done", "expired"}, key : Pair \cup {"none"}, age : 0..1]
<1>1. /\ x6 \in [Two -> Calling] /\ x6' \in [Two -> Calling]
      /\ \A d \in Two \ {c} : x6'[d] = x6[d]
      /\ UNCHANGED <<x1, x2, x5>> /\ x6'[c].at = "idle" /\ x4 \in [One -> SlotRows]
  BY CallMoves DEF Slots!CallNext, SlotInv, SlotTyped, Calling, Slots!MarkExpired, Slots!NoCall
<1>2. x6[c].id \in One
  BY DEF Slots!MarkExpired, SlotInv, CallsFit
<1>3. /\ x4' \in [One -> SlotRows]
      /\ \A j \in One : x4'[j].key = x4[j].key /\ x4'[j].age = x4[j].age
                         /\ (x4[j].status # "none" => x4'[j].status # "none")
  <2>1. x4' = [x4 EXCEPT ![x6[c].id].status = "expired"]
    BY DEF Slots!MarkExpired
  <2> QED
    BY <1>1, <1>2, <2>1
<1>4. \A d \in Two : x6'[d].at # "idle" => x6'[d] = x6[d]
  BY <1>1
<1>5. SlotTyped' /\ CallsFit'
  BY <1>1, <1>3, <1>4 DEF SlotInv, SlotTyped, CallsFit, Calling
<1>6. CallsSlot' /\ QueueSlot'
  BY <1>1, <1>3, <1>4 DEF SlotInv, SlotTyped, CallsFit, CallsSlot, QueueSlot, Under
<1>7. OneSender' /\ OwnMessage' /\ OneMessage'
  BY <1>1, <1>4 DEF SlotInv, OneSender, OwnMessage, OneMessage, Under
<1>8. TestedInv'
  BY <1>1, <1>4 DEF TestedInv
<1> QED
  BY <1>5, <1>6, <1>7, <1>8 DEF SlotInv

--------------------------------------------------------------------------------
(* The host, and time.                                                     *)

LEMMA HostSteps ==
  ASSUME SlotConstants, SlotInv, TestedInv, Slots!HostAnswers
  PROVE  SlotInv' /\ TestedInv'
<1> DEFINE SlotRows == [status : {"none", "queued", "done", "expired"}, key : Pair \cup {"none"}, age : 0..1]
           Vaults == [state : {"enrolling", "enrolled", "deleted"}, closing : BOOLEAN, current : BOOLEAN,
                app : Pair \cup {"none"}, pending : Pair \cup {"none"}, canary : BOOLEAN,
                lease : SlotReleases \cup {0}, sealed : SlotReleases \cup {0}]
<1>1. PICK m \in x5 :
        /\ x5' = x5 \ {m} /\ x4' = [x4 EXCEPT ![m.id].status = "done"]
        /\ x1' = [x1 EXCEPT !.lease = m.inst, !.sealed = m.inst,
                                  !.app = IF x1.state = "enrolling" THEN m.key ELSE @,
                                  !.state = "enrolled"]
  BY DEF Slots!HostAnswers
<1>2. m.id \in One /\ m.inst \in SlotReleases /\ m.key \in Pair /\ x4 \in [One -> SlotRows] /\ x1 \in Vaults
      /\ UNCHANGED <<x2, x6>>
  BY DEF SlotInv, SlotTyped, Slots!HostAnswers
<1>3. /\ x4' \in [One -> SlotRows]
      /\ \A j \in One : x4'[j].key = x4[j].key /\ x4'[j].age = x4[j].age
                         /\ (x4[j].status # "none" => x4'[j].status # "none")
  BY <1>1, <1>2
<1>4. x1' \in Vaults /\ x1'.canary = x1.canary /\ x1'.sealed = m.inst
  <2> DEFINE app == IF x1.state = "enrolling" THEN m.key ELSE x1.app
  <2>1. app \in Pair \cup {"none"}
    BY <1>2
  <2>2. x1' = [x1 EXCEPT !.lease = m.inst, !.sealed = m.inst, !.app = app, !.state = "enrolled"]
    BY <1>1
  <2> HIDE DEF app
  <2> QED
    BY <1>2, <2>1, <2>2
<1>5. SlotTyped' /\ CallsFit'
  BY <1>1, <1>2, <1>3, <1>4 DEF SlotInv, SlotTyped, CallsFit
<1>6. CallsSlot' /\ QueueSlot'
  BY <1>1, <1>2, <1>3 DEF SlotInv, SlotTyped, CallsFit, CallsSlot, QueueSlot, Under
<1>7. OneSender' /\ OwnMessage' /\ OneMessage'
  BY <1>1, <1>2 DEF SlotInv, OneSender, OwnMessage, OneMessage, Under
<1>8. TestedInv'
  BY <1>1, <1>2, <1>4 DEF TestedInv
<1> QED
  BY <1>5, <1>6, <1>7, <1>8 DEF SlotInv

LEMMA TimeSteps ==
  ASSUME SlotConstants, SlotInv, TestedInv, NEW i \in One, Slots!QueueRetentionEnds(i) \/ Slots!SlotEnds(i)
  PROVE  SlotInv' /\ TestedInv'
<1> DEFINE SlotRows == [status : {"none", "queued", "done", "expired"}, key : Pair \cup {"none"}, age : 0..1]
<1>1. UNCHANGED <<x1, x2, x6>> /\ x4 \in [One -> SlotRows]
  BY DEF SlotInv, SlotTyped, Slots!QueueRetentionEnds, Slots!SlotEnds
<1>2. \A d \in Two : Under(d) => x6[d].id # i
  BY DEF Slots!QueueRetentionEnds, Slots!SlotEnds, Slots!InFlight, Under, SlotInv, CallsSlot
<1>3. x5' \subseteq x5 /\ \A m \in x5' : m.id # i
  BY DEF Slots!QueueRetentionEnds, Slots!RetentionEnds, Slots!SlotEnds, SlotInv, QueueSlot
<1>4. x4' \in [One -> SlotRows] /\ \A j \in One \ {i} : x4'[j] = x4[j]
  <2>1. CASE Slots!QueueRetentionEnds(i)
    BY <1>1, <2>1 DEF Slots!QueueRetentionEnds
  <2>2. CASE Slots!SlotEnds(i)
    BY <1>1, <2>2 DEF Slots!SlotEnds, Slots!NoSlot
  <2> QED
    BY <2>1, <2>2
<1>5. SlotTyped' /\ CallsFit'
  BY <1>1, <1>3, <1>4 DEF SlotInv, SlotTyped, CallsFit
<1>6. CallsSlot' /\ QueueSlot'
  BY <1>1, <1>2, <1>3, <1>4 DEF SlotInv, SlotTyped, CallsFit, CallsSlot, QueueSlot, Under
<1>7. OneSender' /\ OwnMessage' /\ OneMessage'
  BY <1>1, <1>3 DEF SlotInv, OneSender, OwnMessage, OneMessage, Under
<1>8. TestedInv'
  BY <1>1, <1>3 DEF TestedInv
<1> QED
  BY <1>5, <1>6, <1>7, <1>8 DEF SlotInv

LEMMA SlotStep == SlotConstants /\ SlotInv /\ TestedInv /\ [Slots!Next]_(Slots!vars) => SlotInv' /\ TestedInv'
<1> SUFFICES ASSUME SlotConstants, SlotInv, TestedInv, [Slots!Next]_(Slots!vars) PROVE SlotInv' /\ TestedInv'
  OBVIOUS
<1>1. ASSUME NEW c \in Two, Slots!CallNext(c) PROVE SlotInv' /\ TestedInv'
  BY <1>1, CallTakes, CallPuts, CallSends, CallExpires DEF Slots!CallNext
<1>2. CASE Slots!TimeNext
  BY <1>2, TimeSteps DEF Slots!TimeNext
<1>3. CASE Slots!HostAnswers
  BY <1>3, HostSteps
<1> QED
  BY <1>1, <1>2, <1>3, RestSteps DEF Slots!Next, Slots!HostNext

LEMMA SlotSafe == SlotConstants /\ SlotInv /\ TestedInv => Slots!AnswerableOnce /\ Slots!TestedOnly /\ Slots!NoticeTrue
<1> SUFFICES ASSUME SlotConstants, SlotInv, TestedInv PROVE Slots!AnswerableOnce /\ Slots!TestedOnly /\ Slots!NoticeTrue
  OBVIOUS
<1>1. Slots!AnswerableOnce
  <2>1. ASSUME NEW m \in x5 PROVE Slots!Polled(m.key, m.id) # "no such request"
    <3>1. x4[m.id].status \in {"queued", "done", "expired"} /\ x4[m.id].key = m.key
      BY DEF SlotInv, SlotTyped, QueueSlot
    <3> QED
      BY <3>1 DEF Slots!Polled, Slots!appCaller
  <2> QED
    BY <2>1 DEF SlotInv, QueueSlot, OneMessage, Slots!AnswerableOnce
<1>2. Slots!TestedOnly
  BY DEF TestedInv, Slots!TestedOnly
<1>3. Slots!NoticeTrue
  <2> SUFFICES ASSUME x1.sealed # 0
               PROVE  Slots!routable(x1.sealed)
                        <=> Slots!releaseNotice(x1.sealed) \notin {"ended", "unavailable"}
    BY DEF Slots!NoticeTrue
  <2>1. x2[x1.sealed] \in {"canary", "active", "retired", "removed", "rescue", "unavailable"}
    BY DEF SlotInv, SlotTyped
  <2> QED
    BY <2>1 DEF Slots!routable, Slots!releaseNotice, Slots!Closed
<1> QED
  BY <1>1, <1>2, <1>3

(* Every message finds the slot of the call that sent it and no other has  *)
(* its id, for any number of phones, ids and invocations (enqueue).        *)
THEOREM AnswerableOnceHolds == ASSUME SlotConstants PROVE Slots!Spec => []Slots!AnswerableOnce
<1>1. Slots!Init => SlotInv /\ TestedInv
  BY SlotInit
<1>2. SlotInv /\ TestedInv /\ [Slots!Next]_(Slots!vars) => SlotInv' /\ TestedInv'
  BY SlotStep
<1>3. SlotInv /\ TestedInv => Slots!AnswerableOnce
  BY SlotSafe
<1> QED
  BY <1>1, <1>2, <1>3, PTL DEF Slots!Spec

(* A release under test never holds the vault of a member who is not a     *)
(* canary, and what the phone is told of its release is so                 *)
(* (enrollmentTargets, requireRoutable, releaseNotice).                    *)
THEOREM ReleasesHold == ASSUME SlotConstants PROVE Slots!Spec => [](Slots!TestedOnly /\ Slots!NoticeTrue)
<1>1. Slots!Init => SlotInv /\ TestedInv
  BY SlotInit
<1>2. SlotInv /\ TestedInv /\ [Slots!Next]_(Slots!vars) => SlotInv' /\ TestedInv'
  BY SlotStep
<1>3. SlotInv /\ TestedInv => Slots!TestedOnly /\ Slots!NoticeTrue
  BY SlotSafe
<1> QED
  BY <1>1, <1>2, <1>3, PTL DEF Slots!Spec

--------------------------------------------------------------------------------
(***************************************************************************)
(* That settings changed at once keep each other's changes, and that the   *)
(* checklist's trial can be started, for any number of calls.              *)
(* (AccountSettings: row is x1, used x2, sub x3, call x4, page x5, load x6,*)
(* asked x7, halved x8.)  A trial that is used and has no subscription is  *)
(* about to get one, or its start was stopped.                             *)
(***************************************************************************)
Settings == INSTANCE AccountSettings WITH
               Calls <- Two,
               row <- x1, used <- x2, sub <- x3, call <- x4, page <- x5, load <- x6, asked <- x7, halved <- x8

KeptInv == x7 = x1 /\ \E p \in BOOLEAN : \E u : x1 = [pin |-> p, updates |-> u]

StartInv ==
  /\ x4 = [c \in Two |-> x4[c]] /\ \A c \in Two : x4[c] = [op |-> x4[c].op, flag |-> x4[c].flag, at |-> x4[c].at, m |-> x4[c].m]
  /\ x5 = [at |-> x5.at, me |-> x5.me, types |-> x5.types, state |-> x5.state]
  /\ x5.types \in {"null", "some", "few"} /\ x6 \in {"none", "asked", "some", "few", "failed"}
  /\ x5.types = "few" \/ x6 = "few" => x2
  /\ x2 /\ x3 = "none" => x8 \/ \E c \in Two : x4[c].op = "start" /\ x4[c].at = "put"

LEMMA SettingsInit == Settings!Init => KeptInv /\ StartInv
<1> SUFFICES ASSUME Settings!Init PROVE KeptInv /\ StartInv
  OBVIOUS
<1>1. x1 = [pin |-> FALSE, updates |-> TRUE] /\ x7 = x1 /\ x2 = FALSE /\ x6 = "none"
  BY DEF Settings!Init, Settings!First
<1>2. x5 = [at |-> "boot", me |-> Settings!View(x1), types |-> "null", state |-> "idle"]
  BY DEF Settings!Init
<1>3. x4 = [c \in Two |-> [op |-> "none", flag |-> FALSE, at |-> "none", m |-> Settings!First]]
  BY DEF Settings!Init, Settings!Idle
<1> QED
  BY <1>1, <1>2, <1>3 DEF KeptInv, StartInv

LEMMA KeptStep == KeptInv /\ [Settings!Next]_(Settings!vars) => KeptInv'
<1> SUFFICES ASSUME KeptInv, [Settings!Next]_(Settings!vars) PROVE KeptInv'
  OBVIOUS
<1>0. PICK p \in BOOLEAN : \E u : x1 = [pin |-> p, updates |-> u] /\ x7 = x1
  BY DEF KeptInv
<1> PICK u : u = x1.updates
  OBVIOUS
<1>a. x1 = [pin |-> p, updates |-> u] /\ x7 = x1
  BY <1>0
<1>1. ASSUME UNCHANGED <<x1, x7>> PROVE KeptInv'
  BY <1>a, <1>1 DEF KeptInv
<1>2. ASSUME NEW c \in Two, Settings!SetFields(c) PROVE KeptInv'
  <2> PICK f : f = x4[c].flag
    OBVIOUS
  <2>1. x1' = Settings!Set(c, x1) /\ x7' = x1' /\ x4[c].op \in {"set", "off", "updates"}
    BY <1>a, <1>2 DEF Settings!SetFields, Settings!Fields
  <2>2. CASE x4[c].op = "set"
    <3>1. x1' = [pin |-> TRUE, updates |-> u]
      BY <1>a, <2>1, <2>2 DEF Settings!Set
    <3> QED
      BY <2>1, <3>1 DEF KeptInv
  <2>3. CASE x4[c].op = "off"
    <3>1. x1' = [pin |-> FALSE, updates |-> u]
      BY <1>a, <2>1, <2>3 DEF Settings!Set
    <3> QED
      BY <2>1, <3>1 DEF KeptInv
  <2>4. CASE x4[c].op = "updates"
    <3>1. x1' = [pin |-> p, updates |-> f]
      BY <1>a, <2>1, <2>4 DEF Settings!Set
    <3> QED
      BY <2>1, <3>1 DEF KeptInv
  <2> QED
    BY <2>1, <2>2, <2>3, <2>4
<1>3. CASE Settings!Elsewhere
  <2>1. x1' = x1 \/ x1' = [pin |-> ~p, updates |-> u]
    BY <1>a, <1>3 DEF Settings!Elsewhere
  <2>2. x7' = [x7 EXCEPT !.pin = IF x1' # x1 THEN x1'.pin ELSE x7.pin]
    BY <1>3 DEF Settings!Elsewhere
  <2>3. x7' = x1'
    BY <1>a, <2>1, <2>2
  <2> QED
    BY <1>a, <2>1, <2>3 DEF KeptInv
<1>4. ASSUME NEW c \in Two, \/ Settings!SubmitPin(c) \/ Settings!SubmitUpdates(c) \/ Settings!SubmitStart(c) \/ Settings!SubmitCancel(c)
                            \/ Settings!Read(c) \/ Settings!MarkTrial(c) \/ Settings!PutSub(c) \/ Settings!Stops(c) \/ Settings!Arrives(c)
      PROVE  KeptInv'
  BY <1>1, <1>4 DEF Settings!SubmitPin, Settings!SubmitUpdates, Settings!SubmitStart, Settings!SubmitCancel, Settings!Sends,
                    Settings!Read, Settings!MarkTrial, Settings!PutSub, Settings!Stops, Settings!Arrives
<1>5. CASE Settings!ServeTypes \/ Settings!Boot \/ Settings!TypesArrive \/ Settings!RetryTypes \/ UNCHANGED Settings!vars
  BY <1>1, <1>5 DEF Settings!ServeTypes, Settings!Boot, Settings!TypesArrive, Settings!RetryTypes, Settings!vars
<1> QED
  BY <1>2, <1>3, <1>4, <1>5 DEF Settings!Next

LEMMA StartStep == StartInv /\ [Settings!Next]_(Settings!vars) => StartInv'
<1> SUFFICES ASSUME StartInv, [Settings!Next]_(Settings!vars) PROVE StartInv'
  OBVIOUS
<1>0. /\ x4 = [c \in Two |-> x4[c]] /\ \A c \in Two : x4[c] = [op |-> x4[c].op, flag |-> x4[c].flag, at |-> x4[c].at, m |-> x4[c].m]
      /\ x5 = [at |-> x5.at, me |-> x5.me, types |-> x5.types, state |-> x5.state]
      /\ x5.types \in {"null", "some", "few"} /\ x6 \in {"none", "asked", "some", "few", "failed"}
      /\ x5.types = "few" \/ x6 = "few" => x2
      /\ x2 /\ x3 = "none" => x8 \/ \E c \in Two : x4[c].op = "start" /\ x4[c].at = "put"
  BY DEF StartInv
<1> DEFINE Paged == /\ x5' = [at |-> x5'.at, me |-> x5'.me, types |-> x5'.types, state |-> x5'.state]
                    /\ x5'.types \in {"null", "some", "few"} /\ x6' \in {"none", "asked", "some", "few", "failed"}
                    /\ x5'.types = "few" \/ x6' = "few" => x2
           Put(c) == x4[c].op = "start" /\ x4[c].at = "put"
\* One call becomes another.
<1>1. ASSUME NEW c \in Two, NEW o, NEW f, NEW a, NEW m,
             x4' = [d \in Two |-> IF d = c THEN [op |-> o, flag |-> f, at |-> a, m |-> m] ELSE x4[d]],
             Paged, x2 => x2', x2' => x2 \/ (o = "start" /\ a = "put"), x8 => x8',
             x3' = "none" => x3 = "none" /\ (~Put(c) \/ x8' \/ (o = "start" /\ a = "put"))
      PROVE  StartInv'
  <2>1. x4' = [d \in Two |-> x4'[d]] /\ \A d \in Two : x4'[d] = [op |-> x4'[d].op, flag |-> x4'[d].flag, at |-> x4'[d].at, m |-> x4'[d].m]
    BY <1>0, <1>1
  <2>2. x4'[c].op = o /\ x4'[c].at = a /\ \A d \in Two : d # c => x4'[d] = x4[d]
    BY <1>1
  <2>3. x2' /\ x3' = "none" => x8' \/ \E d \in Two : x4'[d].op = "start" /\ x4'[d].at = "put"
    BY <1>0, <1>1, <2>2
  <2> QED
    BY <1>1, <2>1, <2>3 DEF StartInv
<1>2. ASSUME x4' = x4, Paged, x2' = x2 \/ (x2' /\ x3' # "none"), x8' = x8, x3' = x3 \/ x3' # "none" PROVE StartInv'
  BY <1>0, <1>2 DEF StartInv
<1>3. ASSUME UNCHANGED <<x5, x6>> PROVE Paged
  BY <1>0, <1>3
<1>4. ASSUME NEW m, Settings!SetMe(x5, m) PROVE Paged
  <2> DEFINE q == [at |-> "on", me |-> Settings!View(m), types |-> "null", state |-> "idle"]
  <2>1. [x5 EXCEPT !.at = "on", !.me = Settings!View(m), !.types = "null", !.state = "idle"] = q
    <3> PICK v : v = Settings!View(m)
      OBVIOUS
    <3>1. PICK a, e, t, s : x5 = [at |-> a, me |-> e, types |-> t, state |-> s]
      BY <1>0
    <3> DEFINE one == [x5 EXCEPT !.at = "on"]
               two == [one EXCEPT !.me = v]
               three == [two EXCEPT !.types = "null"]
    <3>2. one = [at |-> "on", me |-> e, types |-> t, state |-> s]
      BY <3>1
    <3>3. two = [at |-> "on", me |-> v, types |-> t, state |-> s]
      <4> HIDE DEF one
      <4> QED
        BY <3>2
    <3>4. three = [at |-> "on", me |-> v, types |-> "null", state |-> s]
      <4> HIDE DEF two
      <4> QED
        BY <3>3
    <3>5. [three EXCEPT !.state = "idle"] = [at |-> "on", me |-> v, types |-> "null", state |-> "idle"]
      <4> HIDE DEF three
      <4> QED
        BY <3>4
    <3> QED
      BY <3>5
  <2>2. /\ x5' = IF Settings!Loads(q) THEN [q EXCEPT !.state = "loading"] ELSE q
        /\ x6' = IF Settings!Loads(q) THEN "asked" ELSE x6
    BY <1>4, <2>1 DEF Settings!SetMe
  <2> QED
    BY <1>0, <2>2
<1>5. ASSUME NEW c \in Two, Settings!Ends(c) 
      PROVE  x4' = [d \in Two |-> IF d = c THEN [op |-> "none", flag |-> FALSE, at |-> "none", m |-> Settings!First] ELSE x4[d]]
  BY <1>0, <1>5 DEF Settings!Ends, Settings!Idle
<1>6. ASSUME NEW c \in Two, NEW a, NEW m, Settings!Goes(c, a, m)
      PROVE  x4' = [d \in Two |-> IF d = c THEN [op |-> x4[c].op, flag |-> x4[c].flag, at |-> a, m |-> m] ELSE x4[d]]
  <2>1. PICK o, f, b, n : x4[c] = [op |-> o, flag |-> f, at |-> b, m |-> n]
    BY <1>0
  <2> DEFINE one == [x4[c] EXCEPT !.at = a]
  <2>2. one = [op |-> o, flag |-> f, at |-> a, m |-> n]
    BY <2>1
  <2>3. [one EXCEPT !.m = m] = [op |-> o, flag |-> f, at |-> a, m |-> m]
    <3> HIDE DEF one
    <3> QED
      BY <2>2
  <2>4. x4' = [d \in Two |-> IF d = c THEN [one EXCEPT !.m = m] ELSE x4[d]]
    BY <1>0, <1>6 DEF Settings!Goes
  <2> QED
    BY <2>1, <2>3, <2>4
<1>7. ASSUME NEW c \in Two, NEW op, NEW flag, Settings!Sends(c, op, flag) PROVE StartInv'
  <2>1. x4' = [d \in Two |-> IF d = c THEN [op |-> op, flag |-> flag, at |-> "read", m |-> Settings!First] ELSE x4[d]]
    BY <1>0, <1>7 DEF Settings!Sends
  <2>2. UNCHANGED <<x2, x3, x5, x6, x8>> /\ ~Put(c)
    BY <1>7 DEF Settings!Sends, Settings!Idle
  <2> PICK at : at = "read"
    OBVIOUS
  <2>3. x4' = [d \in Two |-> IF d = c THEN [op |-> op, flag |-> flag, at |-> at, m |-> Settings!First] ELSE x4[d]]
    BY <2>1
  <2> QED
    BY <1>1, <1>3, <2>2, <2>3
<1>8. ASSUME NEW c \in Two, Settings!SubmitPin(c) \/ Settings!SubmitUpdates(c) \/ Settings!SubmitStart(c) \/ Settings!SubmitCancel(c) PROVE StartInv'
  BY <1>7, <1>8 DEF Settings!SubmitPin, Settings!SubmitUpdates, Settings!SubmitStart, Settings!SubmitCancel
<1>9. ASSUME NEW c \in Two, Settings!Ends(c), Paged, x2' = x2, x3' = x3, x8 => x8', Put(c) => x8' PROVE StartInv'
  BY <1>1, <1>5, <1>9
<1>10. ASSUME NEW c \in Two, Settings!Read(c) PROVE StartInv'
  <2>1. UNCHANGED <<x2, x3, x5, x6, x8>> /\ ~Put(c)
    BY <1>10 DEF Settings!Read
  <2>2. CASE Settings!Ends(c)
    BY <1>3, <1>9, <2>1, <2>2
  <2>3. CASE ~Settings!Ends(c)
    <3>1. Settings!Goes(c, "write", x1)
      BY <1>10, <2>3 DEF Settings!Read
    <3>2. Paged /\ x4' = [d \in Two |-> IF d = c THEN [op |-> x4[c].op, flag |-> x4[c].flag, at |-> "write", m |-> x1] ELSE x4[d]]
      BY <1>3, <1>6, <2>1, <3>1
    <3> HIDE DEF Paged
    <3> QED
      BY <1>1, <2>1, <3>2
  <2> QED
    BY <2>2, <2>3
<1>11. ASSUME NEW c \in Two, Settings!SetFields(c) PROVE StartInv'
  <2>1. UNCHANGED <<x2, x3, x5, x6, x8>> /\ ~Put(c) /\ Settings!Goes(c, "done", Settings!Fields(c))
    BY <1>11 DEF Settings!SetFields
  <2>2. Paged /\ x4' = [d \in Two |-> IF d = c THEN [op |-> x4[c].op, flag |-> x4[c].flag, at |-> "done", m |-> Settings!Fields(c)] ELSE x4[d]]
    BY <1>3, <1>6, <2>1
  <2> HIDE DEF Paged
  <2> QED
    BY <1>1, <2>1, <2>2
<1>12. ASSUME NEW c \in Two, Settings!MarkTrial(c) PROVE StartInv'
  <2>1. UNCHANGED <<x3, x5, x6, x8>> /\ ~Put(c) /\ x2' = TRUE /\ x4[c].op = "start"
    BY <1>12 DEF Settings!MarkTrial
  <2>2. CASE x2
    <3>1. Settings!Ends(c)
      BY <1>12, <2>2 DEF Settings!MarkTrial
    <3>2. Paged /\ x4' = [d \in Two |-> IF d = c THEN [op |-> "none", flag |-> FALSE, at |-> "none", m |-> Settings!First] ELSE x4[d]]
      BY <1>3, <1>5, <2>1, <3>1
    <3> HIDE DEF Paged
    <3> QED
      BY <1>1, <2>1, <2>2, <3>2
  <2>3. CASE ~x2
    <3>1. Settings!Goes(c, "put", x4[c].m)
      BY <1>12, <2>3 DEF Settings!MarkTrial
    <3>2. Paged /\ x4' = [d \in Two |-> IF d = c THEN [op |-> x4[c].op, flag |-> x4[c].flag, at |-> "put", m |-> x4[c].m] ELSE x4[d]]
      BY <1>3, <1>6, <2>1, <3>1
    <3> HIDE DEF Paged
    <3> QED
      BY <1>1, <2>1, <2>3, <3>2
  <2> QED
    BY <2>2, <2>3
<1>13. ASSUME NEW c \in Two, Settings!PutSub(c) PROVE StartInv'
  <2>1. UNCHANGED <<x2, x5, x6, x8>> /\ x3' \in {"live", "canceled"} /\ Settings!Goes(c, "done", x4[c].m)
    BY <1>13 DEF Settings!PutSub
  <2>2. Paged /\ x4' = [d \in Two |-> IF d = c THEN [op |-> x4[c].op, flag |-> x4[c].flag, at |-> "done", m |-> x4[c].m] ELSE x4[d]]
    BY <1>3, <1>6, <2>1
  <2> HIDE DEF Paged
  <2> QED
    BY <1>1, <2>1, <2>2
<1>14. ASSUME NEW c \in Two, Settings!Stops(c) PROVE StartInv'
  <2>1. UNCHANGED <<x2, x3, x5, x6>> /\ Settings!Ends(c) /\ x8' = (x8 \/ x4[c].at = "put")
    BY <1>14 DEF Settings!Stops
  <2>2. Paged
    BY <1>3, <2>1
  <2> HIDE DEF Paged
  <2> QED
    BY <1>9, <2>1, <2>2
<1>15. ASSUME NEW c \in Two, Settings!Arrives(c) PROVE StartInv'
  <2>1. UNCHANGED <<x2, x3, x8>> /\ Settings!Ends(c) /\ ~Put(c) /\ Settings!SetMe(x5, x4[c].m)
    BY <1>15 DEF Settings!Arrives
  <2>2. Paged
    BY <1>4, <2>1
  <2> HIDE DEF Paged
  <2> QED
    BY <1>9, <2>1, <2>2
<1>16. CASE Settings!Elsewhere
  BY <1>2, <1>3, <1>16 DEF Settings!Elsewhere
<1>17. CASE Settings!ServeTypes
  <2>1. UNCHANGED <<x2, x3, x4, x5, x8>> /\ x6' \in {"failed", IF x2 THEN "few" ELSE "some"}
    BY <1>17 DEF Settings!ServeTypes
  <2>2. Paged
    BY <1>0, <2>1
  <2> HIDE DEF Paged
  <2> QED
    BY <1>2, <2>1, <2>2
<1>18. CASE Settings!Boot
  <2>1. UNCHANGED <<x2, x3, x4, x8>>
    BY <1>18 DEF Settings!Boot
  <2>2. Paged
    <3>1. CASE Settings!SetMe(x5, x1)
      BY <1>4, <3>1
    <3>2. CASE ~Settings!SetMe(x5, x1)
      <4>1. x6' = x6 /\ \E a : x5' = [x5 EXCEPT !.at = a]
        BY <1>18, <3>2 DEF Settings!Boot
      <4>2. PICK a : x5' = [at |-> a, me |-> x5.me, types |-> x5.types, state |-> x5.state]
        BY <1>0, <4>1
      <4> QED
        BY <1>0, <4>1, <4>2
    <3> QED
      BY <3>1, <3>2
  <2> HIDE DEF Paged
  <2> QED
    BY <1>2, <2>1, <2>2
<1>19. CASE Settings!TypesArrive
  <2>1. UNCHANGED <<x2, x3, x4, x8>> /\ x6 \in {"some", "few", "failed"} /\ x6' = "none"
    BY <1>19 DEF Settings!TypesArrive
  <2>2. Paged
    <3>1. CASE x6 = "failed"
      <4>1. x5' = [at |-> x5.at, me |-> x5.me, types |-> x5.types, state |-> "error"]
        BY <1>0, <1>19, <3>1 DEF Settings!TypesArrive
      <4> QED
        BY <1>0, <2>1, <4>1
    <3>2. CASE x6 # "failed"
      <4>1. PICK a, e, t, s : x5 = [at |-> a, me |-> e, types |-> t, state |-> s]
        BY <1>0
      <4> DEFINE one == [x5 EXCEPT !.types = x6]
      <4>2. one = [at |-> a, me |-> e, types |-> x6, state |-> s]
        BY <4>1
      <4>3. [one EXCEPT !.state = "idle"] = [at |-> a, me |-> e, types |-> x6, state |-> "idle"]
        <5> HIDE DEF one
        <5> QED
          BY <4>2
      <4>4. x5' = [at |-> a, me |-> e, types |-> x6, state |-> "idle"]
        BY <1>19, <3>2, <4>3 DEF Settings!TypesArrive
      <4> QED
        BY <1>0, <2>1, <3>2, <4>4
    <3> QED
      BY <3>1, <3>2
  <2> HIDE DEF Paged
  <2> QED
    BY <1>2, <2>1, <2>2
<1>20. CASE Settings!RetryTypes
  <2>1. UNCHANGED <<x2, x3, x4, x8>> /\ x6' = "asked" /\ x5' = [x5 EXCEPT !.state = "loading"]
    BY <1>20 DEF Settings!RetryTypes
  <2>2. x5' = [at |-> x5.at, me |-> x5.me, types |-> x5.types, state |-> "loading"]
    BY <1>0, <2>1
  <2>3. Paged
    BY <1>0, <2>1, <2>2
  <2> HIDE DEF Paged
  <2> QED
    BY <1>2, <2>1, <2>3
<1>21. CASE UNCHANGED Settings!vars
  BY <1>2, <1>3, <1>21 DEF Settings!vars
<1> QED
  BY <1>8, <1>10, <1>11, <1>12, <1>13, <1>14, <1>15, <1>16, <1>17, <1>18, <1>19, <1>20, <1>21 DEF Settings!Next

LEMMA SettingsSafe == KeptInv /\ StartInv => Settings!SettingsKept /\ Settings!StepLeads
<1> SUFFICES ASSUME KeptInv, StartInv PROVE Settings!SettingsKept /\ Settings!StepLeads
  OBVIOUS
<1>1. Settings!SettingsKept
  BY DEF KeptInv, Settings!SettingsKept
<1>2. Settings!StepLeads
  <2> SUFFICES ASSUME Settings!Mark(x5.me, "trial") # "done", x5.types # "null", x5.me.sub = x3, \A c \in Two : x4[c].op # "start"
               PROVE  x5.types = "some" \/ x8
    BY DEF Settings!StepLeads
  <2>1. x3 = "none"
    BY DEF Settings!Mark, Settings!Pending, Settings!TrialDone
  <2> QED
    BY <2>1 DEF StartInv
<1> QED
  BY <1>1, <1>2

--------------------------------------------------------------------------------
(***************************************************************************)
(* That a vault the page says is locked was closed at some moment since    *)
(* the click, for any instances and requests.  (VaultLock: vault is x1,    *)
(* inst x2, queue x3, slot x4, call x5, page x6, quiet x7.)  While the     *)
(* page waits and the vault never was closed, its request went to the      *)
(* holder of the lease, who still holds it and runs the vault: so the      *)
(* answer that it does not run it comes of no such request.                *)
(***************************************************************************)
CONSTANTS LockInstances, LockOld, LockRequests                 \* instances, those of old releases; requests made

LockConstants == Empty \notin LockInstances /\ LockOld \subseteq LockInstances /\ LockRequests \in Nat

Lock == INSTANCE VaultLock WITH
               Instances <- LockInstances, Old <- LockOld, Nobody <- Empty, MaxRequests <- LockRequests,
               vault <- x1, inst <- x2, queue <- x3, slot <- x4, call <- x5, page <- x6, quiet <- x7

LockSlot == [status : {"none", "queued", "done", "expired"}, code : Lock!Codes \cup {"none"}]
LockCall == [at : {"none", "read", "over"}, op : {"none", "unlock", "lock"}, bound : 0..LockRequests,
             inst : LockInstances \cup {Empty}]
LockOuts  == Lock!Codes \cup {"none", "queued", "done", "expired", "unknown"}
LockShown == [at : {"loading", "shown", "locking", "over"}, can : BOOLEAN, id : 0..LockRequests, tries : Int, outcome : LockOuts]
Closed    == {"locked", "not_running"}

LockTyped ==
  /\ x1 \in [state : {"locked", "unlocked"}, lease : LockInstances \cup {Empty}]
  /\ x2 \in [LockInstances -> [live : BOOLEAN, runs : 0..LockRequests]]
  /\ x4 \in [1..LockRequests -> LockSlot] /\ x5 \in [1..LockRequests -> LockCall]
  /\ x6 \in LockShown
  /\ x7 \in BOOLEAN

\* Requests are made in the order of their numbers; one not made yet has no slot.
LockMade ==
  /\ \E n \in 0..LockRequests : Lock!Made = 1..n
  /\ \A r \in 1..LockRequests : r \notin Lock!Made => x4[r] = Lock!NoSlot
  /\ \A m \in x3 : m.id \in Lock!Made /\ x5[m.id].at = "over" /\ m.inst = x5[m.id].inst /\ m.inst \in LockInstances

LockHeld ==
  /\ x6.at = "locking" /\ ~x7 => Lock!Open
  /\ x6.at = "locking" /\ x6.id # 0 => /\ x6.id \in Lock!Made
                                       /\ ~x7 => x5[x6.id].inst = x1.lease /\ x4[x6.id].code \notin Closed
  /\ x6.outcome \in Closed => x7

LockInv == LockTyped /\ LockMade /\ LockHeld

LEMMA LockInit == LockConstants /\ Lock!Init => LockInv
<1> SUFFICES ASSUME LockConstants, Lock!Init PROVE LockInv
  OBVIOUS
<1>1. LockRequests \in Nat
  BY DEF LockConstants
<1>2. Lock!NoSlot \in LockSlot /\ Lock!NoCall \in LockCall
  BY <1>1 DEF Lock!NoSlot, Lock!NoCall, LockSlot, LockCall
<1>3. LockTyped
  <2>1. x6 = [at |-> "loading", can |-> FALSE, id |-> 0, tries |-> 0, outcome |-> "none"] /\ 0 \in 0..LockRequests
    BY <1>1 DEF Lock!Init
  <2>2. x6 \in LockShown
    BY <2>1 DEF LockShown, LockOuts
  <2>3. /\ x1 \in [state : {"locked", "unlocked"}, lease : LockInstances \cup {Empty}]
        /\ x2 \in [LockInstances -> [live : BOOLEAN, runs : 0..LockRequests]]
    BY <2>1 DEF Lock!Init
  <2>4. x4 \in [1..LockRequests -> LockSlot] /\ x5 \in [1..LockRequests -> LockCall] /\ x7 \in BOOLEAN
    BY <1>2 DEF Lock!Init, Lock!Requests
  <2> QED
    BY <2>2, <2>3, <2>4 DEF LockTyped
<1>4. Lock!Made = {} /\ x3 = {} /\ x6.at = "loading" /\ x6.outcome = "none" /\ \A r \in 1..LockRequests : x4[r] = Lock!NoSlot
  BY DEF Lock!Init, Lock!Made, Lock!Requests, Lock!NoCall
<1>5. 1..0 = {} /\ 0 \in 0..LockRequests
  BY <1>1
<1> QED
  BY <1>3, <1>4, <1>5 DEF LockInv, LockMade, LockHeld, Closed

\* The next request is one not made yet.
LEMMA LockNew ==
  ASSUME LockConstants, LockInv, Lock!New \in 1..LockRequests
  PROVE  Lock!New \notin Lock!Made /\ \E n \in 0..LockRequests : Lock!Made \cup {Lock!New} = 1..n
<1>1. PICK n \in 0..LockRequests : Lock!Made = 1..n
  BY DEF LockInv, LockMade
<1>2. LockRequests \in Nat
  BY DEF LockConstants
<1>3. Cardinality(1..n) = n
  BY <1>1, <1>2, FS_Interval
<1>4. Lock!New = n + 1
  BY <1>1, <1>3 DEF Lock!New, Lock!Cardinality, Cardinality
<1>5. (1..n) \cup {n + 1} = 1..(n + 1) /\ n + 1 \in 0..LockRequests
  BY <1>1, <1>2, <1>4
<1> QED
  BY <1>1, <1>4, <1>5

\* What is made and not made, and to whom it goes, is of the calls and the messages only.
LEMMA LockStays ==
  ASSUME LockConstants, LockInv, x3' \subseteq x3, x5' = x5, x4' \in [1..LockRequests -> LockSlot],
         \A r \in 1..LockRequests : r \notin Lock!Made => x4'[r] = x4[r]
  PROVE  LockMade' /\ Lock!Made' = Lock!Made
<1>1. Lock!Made' = Lock!Made
  BY DEF Lock!Made, Lock!Requests
<1> QED
  BY <1>1 DEF LockInv, LockMade

\* A request of the app, or of the page.
LEMMA LockAsked ==
  ASSUME LockConstants, LockInv, NEW n, n = Lock!New, n \in 1..LockRequests, NEW op \in {"unlock", "lock"}, NEW b \in 0..LockRequests,
         NEW i \in LockInstances \cup {Empty}, Lock!Ask(n, op, b, i), x3' = x3, x4' = x4
  PROVE  /\ x5' \in [1..LockRequests -> LockCall] /\ LockMade' /\ n \in Lock!Made' /\ n \notin Lock!Made /\ x5'[n].inst = i
         /\ \A r \in Lock!Made : r \in Lock!Made' /\ x5'[r] = x5[r]
<1>1. x5' = [x5 EXCEPT ![n] = [at |-> "read", op |-> op, bound |-> b, inst |-> i]]
  BY DEF Lock!Ask
<1>2. [at |-> "read", op |-> op, bound |-> b, inst |-> i] \in LockCall
  BY DEF LockCall
<1>3. x5 \in [1..LockRequests -> LockCall]
  BY DEF LockInv, LockTyped
<1>4. x5' \in [1..LockRequests -> LockCall] /\ x5'[n].at = "read" /\ x5'[n].inst = i
      /\ \A r \in 1..LockRequests : r # n => x5'[r] = x5[r]
  BY <1>1, <1>2, <1>3
<1>5. n \notin Lock!Made /\ \E k \in 0..LockRequests : Lock!Made \cup {n} = 1..k
  BY LockNew
<1>6. Lock!Made' = Lock!Made \cup {n}
  BY <1>4 DEF Lock!Made, Lock!Requests
<1>7. \A r \in Lock!Made : x5'[r] = x5[r] /\ r \in Lock!Made'
  BY <1>4, <1>5, <1>6 DEF Lock!Made, Lock!Requests
<1>8. LockMade'
  BY <1>5, <1>6, <1>7 DEF LockInv, LockMade
<1> QED
  BY <1>4, <1>5, <1>6, <1>7, <1>8

\* The vault stays open with its holder, or it was closed.
LEMMA LockNoted ==
  ASSUME LockConstants, LockInv, Lock!Noted, x1' \in [state : {"locked", "unlocked"}, lease : LockInstances \cup {Empty}],
         \A i \in LockInstances : x1.lease = i /\ x2[i].live => x1'.lease \in {i, Empty}
  PROVE  /\ x7' \in BOOLEAN /\ (x7 => x7')
         /\ ~x7' /\ x6.at = "locking" => (Lock!Open)' /\ x1'.lease = x1.lease
<1>1. x7' = (x7 \/ ~(Lock!Open)')
  BY DEF Lock!Noted
<1>2. x7 \in BOOLEAN
  BY DEF LockInv, LockTyped
<1>3. (Lock!Open)' => x1'.lease # Empty
  BY DEF LockConstants, Lock!Open
<1>4. ~x7 /\ x6.at = "locking" => Lock!Open
  BY DEF LockInv, LockHeld
<1> QED
  BY <1>1, <1>2, <1>3, <1>4 DEF Lock!Open

LEMMA LockAskedApp ==
  ASSUME LockConstants, LockInv, Lock!Unlock \/ Lock!AppLock
  PROVE  LockInv'
<1>1. /\ x1' = x1 /\ x2' = x2 /\ x3' = x3 /\ x4' = x4 /\ x6' = x6 /\ Lock!Noted
      /\ Lock!New \in 1..LockRequests
      /\ \E op \in {"unlock", "lock"}, b \in 0..LockRequests, i \in LockInstances \cup {Empty} : Lock!Ask(Lock!New, op, b, i)
  <2>1. Lock!Holder \in LockInstances \cup {Empty}
    BY DEF Lock!Holder, Lock!LiveLease
  <2>2. 0 \in 0..LockRequests /\ 1..LockRequests \subseteq 0..LockRequests
    BY DEF LockConstants
  <2> QED
    BY <2>1, <2>2 DEF Lock!Unlock, Lock!AppLock, Lock!Requests, Lock!Made
<1>2. PICK n : n = Lock!New
  OBVIOUS
<1>3. /\ x5' \in [1..LockRequests -> LockCall] /\ LockMade'
      /\ \A r \in Lock!Made : r \in Lock!Made' /\ x5'[r] = x5[r]
  BY <1>1, <1>2, LockAsked
<1>4. /\ x7' \in BOOLEAN /\ (x7 => x7')
      /\ ~x7' /\ x6.at = "locking" => (Lock!Open)'
  BY <1>1, LockNoted DEF LockInv, LockTyped
<1>5. LockTyped'
  BY <1>1, <1>3, <1>4 DEF LockInv, LockTyped
<1>6. LockHeld'
  BY <1>1, <1>3, <1>4 DEF LockInv, LockHeld
<1> QED
  BY <1>3, <1>5, <1>6 DEF LockInv

LEMMA LockWritten ==
  ASSUME LockConstants, LockInv, NEW r \in 1..LockRequests, Lock!Write(r)
  PROVE  LockInv'
<1>1. /\ x1' = x1 /\ x2' = x2 /\ x6' = x6 /\ Lock!Noted /\ x5[r].at = "read" /\ x5' = [x5 EXCEPT ![r].at = "over"]
      /\ \/ x5[r].inst # Empty /\ x4' = [x4 EXCEPT ![r].status = "queued"]
            /\ x3' = x3 \cup {[id |-> r, op |-> x5[r].op, inst |-> x5[r].inst, bound |-> x5[r].bound]}
         \/ x5[r].inst # Empty /\ x4' = [x4 EXCEPT ![r].status = "expired"] /\ x3' = x3
         \/ x5[r].inst = Empty /\ x4' = [x4 EXCEPT ![r] = [status |-> "done", code |-> "not_running"]] /\ x3' = x3
  BY DEF Lock!Write
<1>2. x4 \in [1..LockRequests -> LockSlot] /\ x5 \in [1..LockRequests -> LockCall]
  BY DEF LockInv, LockTyped
<1>3. /\ x5' \in [1..LockRequests -> LockCall] /\ x5'[r].inst = x5[r].inst /\ x5'[r].at = "over"
      /\ \A q \in 1..LockRequests \ {r} : x5'[q] = x5[q]
  BY <1>1, <1>2 DEF LockCall
<1>4. /\ x4' \in [1..LockRequests -> LockSlot] /\ \A q \in 1..LockRequests \ {r} : x4'[q] = x4[q]
      /\ x5[r].inst # Empty => x4'[r].code = x4[r].code
  <2>1. x4[r] \in LockSlot
    BY <1>2
  <2>2. \A s \in {"queued", "expired"} : [x4[r] EXCEPT !.status = s] \in LockSlot /\ [x4[r] EXCEPT !.status = s].code = x4[r].code
    BY <2>1 DEF LockSlot
  <2>3. [status |-> "done", code |-> "not_running"] \in LockSlot
    BY DEF LockSlot, Lock!Codes
  <2>4. \/ x5[r].inst # Empty /\ \E s \in {"queued", "expired"} : x4' = [x4 EXCEPT ![r] = [x4[r] EXCEPT !.status = s]]
        \/ x5[r].inst = Empty /\ x4' = [x4 EXCEPT ![r] = [status |-> "done", code |-> "not_running"]]
    BY <1>1, <1>2
  <2> QED
    BY <1>2, <2>2, <2>3, <2>4
<1>5. Lock!Made' = Lock!Made /\ r \in Lock!Made
  BY <1>1, <1>3 DEF Lock!Made, Lock!Requests
<1>6. LockMade'
  <2>1. ASSUME NEW m \in x3' PROVE m.id \in Lock!Made /\ x5'[m.id].at = "over" /\ m.inst = x5'[m.id].inst /\ m.inst \in LockInstances
    <3>1. CASE m \in x3
      BY <1>3, <3>1 DEF LockInv, LockMade, Lock!Made, Lock!Requests
    <3>2. CASE m \notin x3
      <4>1. m = [id |-> r, op |-> x5[r].op, inst |-> x5[r].inst, bound |-> x5[r].bound] /\ x5[r].inst # Empty
        BY <1>1, <3>2
      <4> QED
        BY <1>2, <1>3, <1>5, <4>1 DEF LockCall
    <3> QED
      BY <3>1, <3>2
  <2> QED
    BY <1>4, <1>5, <2>1 DEF LockInv, LockMade
<1>7. /\ x7' \in BOOLEAN /\ (x7 => x7')
      /\ ~x7' /\ x6.at = "locking" => (Lock!Open)'
  BY <1>1, LockNoted DEF LockInv, LockTyped
<1>8. LockTyped'
  BY <1>1, <1>3, <1>4, <1>7 DEF LockInv, LockTyped
<1>9. ASSUME x6.at = "locking", x6.id # 0, ~x7' PROVE x5'[x6.id].inst = x1.lease /\ x4'[x6.id].code \notin Closed
  <2>1. x6.id \in 1..LockRequests /\ x5[x6.id].inst = x1.lease /\ x4[x6.id].code \notin Closed /\ x1.lease # Empty
    BY <1>7, <1>9 DEF LockConstants, LockInv, LockHeld, Lock!Made, Lock!Requests, Lock!Open
  <2> QED
    BY <1>3, <1>4, <2>1
<1>10. LockHeld'
  BY <1>1, <1>5, <1>7, <1>9 DEF LockInv, LockHeld
<1> QED
  BY <1>6, <1>8, <1>10 DEF LockInv

LEMMA LockPage ==
  ASSUME LockConstants, LockInv, Lock!Load \/ Lock!Reload \/ Lock!Click \/ Lock!PageLock \/ Lock!Poll
  PROVE  LockInv'
<1>1. x1' = x1 /\ x2' = x2 /\ x3' = x3 /\ x4' = x4
  BY DEF Lock!Load, Lock!Reload, Lock!Click, Lock!PageLock, Lock!Poll
<1>2. (Lock!Open)' = Lock!Open
  BY <1>1 DEF Lock!Open
<1>3. x6 \in LockShown /\ 0 \in 0..LockRequests
      /\ x4 \in [1..LockRequests -> LockSlot]
  BY DEF LockConstants, LockInv, LockTyped
<1>0. /\ x6 = [at |-> x6.at, can |-> x6.can, id |-> x6.id, tries |-> x6.tries, outcome |-> x6.outcome]
      /\ x6.at \in {"loading", "shown", "locking", "over"} /\ x6.can \in BOOLEAN /\ x6.id \in 0..LockRequests
      /\ x6.tries \in Int /\ x6.outcome \in LockOuts
  BY <1>3 DEF LockShown
<1>00. "none" \in LockOuts /\ \A a \in {"loading", "shown", "locking", "over"}, c \in BOOLEAN, i \in 0..LockRequests, t \in Int, o \in LockOuts :
         [at |-> a, can |-> c, id |-> i, tries |-> t, outcome |-> o] \in LockShown
  BY DEF LockShown, LockOuts
<1>4. Lock!Noted => x7' \in BOOLEAN /\ (x7 => x7') /\ (~x7' /\ x6.at = "locking" => Lock!Open)
  BY <1>1, <1>2, LockNoted DEF LockInv, LockTyped
<1>5. CASE Lock!Load \/ Lock!Reload
  <2>1. Lock!Noted /\ x5' = x5 /\ x6'.at \in {"loading", "shown", "over"} /\ x6'.outcome \in {x6.outcome, "none"}
        /\ x6' \in LockShown
    <3>1. Lock!Noted /\ x5' = x5
      BY <1>5 DEF Lock!Load, Lock!Reload
    <3>2. CASE Lock!Load
      <4>1. \E a \in {"shown", "over"}, c \in BOOLEAN :
              x6' = [at |-> a, can |-> c, id |-> x6.id, tries |-> x6.tries, outcome |-> x6.outcome]
        BY <1>0, <3>2 DEF Lock!Load
      <4> QED
        BY <1>0, <1>00, <3>1, <4>1
    <3>3. CASE Lock!Reload
      <4>1. x6' = [at |-> "loading", can |-> x6.can, id |-> x6.id, tries |-> x6.tries, outcome |-> "none"]
        BY <1>0, <3>3 DEF Lock!Reload
      <4> QED
        BY <1>0, <1>00, <3>1, <4>1
    <3> QED
      BY <1>5, <3>2, <3>3
  <2>2. LockMade'
    BY <1>1, <1>3, <2>1, LockStays
  <2>3. LockTyped'
    BY <1>1, <1>4, <2>1 DEF LockInv, LockTyped
  <2>4. LockHeld'
    BY <1>4, <2>1 DEF LockInv, LockHeld, Closed
  <2> QED
    BY <2>2, <2>3, <2>4 DEF LockInv
<1>6. CASE Lock!Click
  <2>1. x5' = x5 /\ x7' = ~Lock!Open /\ x6'.at = "locking" /\ x6'.id = 0 /\ x6'.outcome = "none"
        /\ x6' \in LockShown
    <3>1. x6' = [at |-> "locking", can |-> x6.can, id |-> 0, tries |-> 0, outcome |-> "none"]
      BY <1>0, <1>6 DEF Lock!Click
    <3>2. x5' = x5 /\ x7' = ~Lock!Open
      BY <1>6 DEF Lock!Click
    <3> QED
      BY <1>0, <1>00, <1>3, <3>1, <3>2
  <2>2. LockMade'
    BY <1>1, <1>3, <2>1, LockStays
  <2>3. LockTyped'
    BY <1>1, <2>1 DEF LockInv, LockTyped
  <2>4. LockHeld'
    BY <1>2, <2>1 DEF LockHeld, Closed
  <2> QED
    BY <2>2, <2>3, <2>4 DEF LockInv
<1>7. CASE Lock!PageLock
  <2>0. Lock!Noted /\ x6.at = "locking" /\ x6.id = 0
    BY <1>7 DEF Lock!PageLock
  <2>1. CASE x6' = [x6 EXCEPT !.at = "shown"] /\ x5' = x5
    <3>1. x6'.at = "shown" /\ x6'.outcome = x6.outcome /\ x6' \in LockShown
      <4>1. x6' = [at |-> "shown", can |-> x6.can, id |-> x6.id, tries |-> x6.tries, outcome |-> x6.outcome]
        BY <1>0, <2>1
      <4> QED
        BY <1>0, <1>00, <4>1
    <3>2. LockMade'
      BY <1>1, <1>3, <2>1, LockStays
    <3>3. LockTyped'
      BY <1>1, <1>4, <2>0, <2>1, <3>1 DEF LockInv, LockTyped
    <3>4. LockHeld'
      BY <1>4, <2>0, <3>1 DEF LockInv, LockHeld
    <3> QED
      BY <3>2, <3>3, <3>4 DEF LockInv
  <2>2. CASE /\ Lock!New \in 1..LockRequests /\ Lock!Ask(Lock!New, "lock", 0, Lock!Holder)
             /\ x6' = [x6 EXCEPT !.id = Lock!New, !.tries = @ + 1]
    <3> PICK n : n = Lock!New
      OBVIOUS
    <3>1. x6'.at = "locking" /\ x6'.id = n /\ x6'.outcome = x6.outcome
          /\ x6' \in LockShown
      <4>1. x6' = [at |-> x6.at, can |-> x6.can, id |-> n, tries |-> x6.tries + 1, outcome |-> x6.outcome]
        BY <1>0, <2>2
      <4>2. n \in 0..LockRequests /\ x6.tries + 1 \in Int
        BY <1>0, <2>2 DEF LockConstants
      <4> QED
        BY <1>0, <1>00, <2>0, <4>1, <4>2
    <3>2. Lock!Holder \in LockInstances \cup {Empty}
      BY DEF Lock!Holder, Lock!LiveLease
    <3> PICK h \in LockInstances \cup {Empty} : h = Lock!Holder
      BY <3>2
    <3>3. /\ x5' \in [1..LockRequests -> LockCall] /\ LockMade' /\ n \in Lock!Made' /\ n \notin Lock!Made /\ x5'[n].inst = h
      BY <1>1, <1>3, <2>2, LockAsked
    <3>4. x4[n] = Lock!NoSlot
      BY <2>2, <3>3 DEF LockInv, LockMade
    <3>5. Lock!Open => h = x1.lease
      BY DEF Lock!Open, Lock!Holder, Lock!LiveLease
    <3>6. LockTyped'
      BY <1>1, <1>4, <2>0, <3>1, <3>3 DEF LockInv, LockTyped
    <3>7. LockHeld'
      BY <1>1, <1>2, <1>4, <2>0, <3>1, <3>3, <3>4, <3>5 DEF LockInv, LockHeld, Lock!NoSlot, Closed
    <3> QED
      BY <3>3, <3>6, <3>7 DEF LockInv
  <2> QED
    BY <1>7, <2>1, <2>2 DEF Lock!PageLock, Lock!Requests
<1>8. CASE Lock!Poll
  <2>1. PICK o \in {"unknown"} \cup {IF x4[x6.id].code = "none" THEN x4[x6.id].status ELSE x4[x6.id].code} :
              /\ o \notin {"none", "queued"}
              /\ x6' = IF o = "stale" /\ x6.tries < 2 THEN [x6 EXCEPT !.id = 0] ELSE [x6 EXCEPT !.at = "loading", !.outcome = o]
    BY <1>8 DEF Lock!Poll
  <2>2. Lock!Noted /\ x5' = x5 /\ x6.at = "locking" /\ x6.id # 0
    BY <1>8 DEF Lock!Poll
  <2>3. x6.id \in 1..LockRequests
    BY <1>0, <2>2 DEF LockConstants
  <2>4. x4[x6.id] \in LockSlot
    BY <1>3, <2>3
  <2>5. o \in Lock!Codes \cup {"none", "queued", "done", "expired", "unknown"}
    BY <2>1, <2>4 DEF LockSlot, Lock!Codes
  <2>6. o \in Closed => x4[x6.id].code \in Closed
    BY <2>1, <2>4 DEF LockSlot, Lock!Codes, Closed
  <2>7. o \in Closed => x7
    BY <2>2, <2>6 DEF LockInv, LockHeld
  <2>8. x6' \in LockShown
    <3>1. \/ x6' = [at |-> x6.at, can |-> x6.can, id |-> 0, tries |-> x6.tries, outcome |-> x6.outcome]
          \/ x6' = [at |-> "loading", can |-> x6.can, id |-> x6.id, tries |-> x6.tries, outcome |-> o]
      BY <1>0, <2>1
    <3>2. o \in LockOuts
      BY <2>5 DEF LockOuts
    <3> QED
      BY <1>0, <1>00, <1>3, <3>1, <3>2
  <2>9. (x6'.at = "locking" => x6'.id = 0) /\ (x6'.outcome = x6.outcome \/ x6'.outcome = o)
    BY <1>3, <2>1, <2>2
  <2>10. LockMade'
    BY <1>1, <1>3, <2>2, LockStays
  <2>11. LockTyped'
    BY <1>1, <1>4, <2>2, <2>8 DEF LockInv, LockTyped
  <2>12. LockHeld'
    BY <1>2, <1>4, <2>2, <2>7, <2>9 DEF LockInv, LockHeld
  <2> QED
    BY <2>10, <2>11, <2>12 DEF LockInv
<1> QED
  BY <1>5, <1>6, <1>7, <1>8

LEMMA LockTaken ==
  ASSUME LockConstants, LockInv, Lock!Take
  PROVE  LockInv'
<1>1. PICK m \in x3 : x2[m.inst].live /\ x3' = x3 \ {m} /\ (Lock!TakeUnlock(m) \/ Lock!TakeLock(m))
  BY DEF Lock!Take
<1>2. x5' = x5 /\ x6' = x6 /\ Lock!Noted
  BY DEF Lock!Take
<1>3. m.id \in Lock!Made /\ m.id \in 1..LockRequests /\ m.inst \in LockInstances /\ m.inst = x5[m.id].inst
  BY DEF LockInv, LockMade, Lock!Made, Lock!Requests
<1>4. /\ x1 \in [state : {"locked", "unlocked"}, lease : LockInstances \cup {Empty}]
      /\ x2 \in [LockInstances -> [live : BOOLEAN, runs : 0..LockRequests]]
      /\ x4 \in [1..LockRequests -> LockSlot] /\ x4[m.id] \in LockSlot /\ m.id \in 0..LockRequests /\ 0 \in 0..LockRequests
  BY <1>3 DEF LockConstants, LockInv, LockTyped
<1>5. /\ \/ x1' = x1 /\ x2' = x2
         \/ x1' = [x1 EXCEPT !.lease = m.inst] /\ x2' = [x2 EXCEPT ![m.inst].runs = m.id] /\ Lock!LiveLease \subseteq {m.inst}
         \/ x1' = [x1 EXCEPT !.lease = Empty] /\ x2' = [x2 EXCEPT ![m.inst].runs = 0]
      /\ \/ x4' = [x4 EXCEPT ![m.id].status = "done"]
         \/ /\ m.op = "lock"
            /\ x4' = [x4 EXCEPT ![m.id] =
                      [status |-> "done", code |-> IF m.inst \in LockOld THEN "none" ELSE IF Lock!Locks(m) THEN "locked"
                                                   ELSE IF x2[m.inst].runs = 0 THEN "not_running" ELSE "stale"]]
            /\ Lock!Locks(m) /\ m.inst \notin LockOld => x1' = [x1 EXCEPT !.lease = Empty]
  BY <1>1 DEF Lock!TakeUnlock, Lock!TakeLock
<1>6. x1' \in [state : {"locked", "unlocked"}, lease : LockInstances \cup {Empty}] /\ x1'.lease \in {x1.lease, m.inst, Empty}
  BY <1>3, <1>4, <1>5
<1>7. x2' \in [LockInstances -> [live : BOOLEAN, runs : 0..LockRequests]]
  BY <1>3, <1>4, <1>5
<1>8. \A i \in LockInstances : x1.lease = i /\ x2[i].live => x1'.lease \in {i, Empty}
  BY <1>3, <1>4, <1>5 DEF Lock!LiveLease
<1>9. /\ x7' \in BOOLEAN /\ (x7 => x7')
      /\ ~x7' /\ x6.at = "locking" => (Lock!Open)' /\ x1'.lease = x1.lease
  BY <1>2, <1>6, <1>8, LockNoted
<1>10. x4' \in [1..LockRequests -> LockSlot] /\ \A r \in 1..LockRequests \ {m.id} : x4'[r] = x4[r]
  <2>1. [x4[m.id] EXCEPT !.status = "done"] \in LockSlot
    BY <1>4 DEF LockSlot
  <2>2. \A c \in Lock!Codes \cup {"none"} : [status |-> "done", code |-> c] \in LockSlot
    BY DEF LockSlot
  <2>3. \E s \in LockSlot : x4' = [x4 EXCEPT ![m.id] = s]
    <3>1. CASE x4' = [x4 EXCEPT ![m.id].status = "done"]
      BY <1>3, <1>4, <2>1, <3>1
    <3>2. CASE \E c \in Lock!Codes \cup {"none"} : x4' = [x4 EXCEPT ![m.id] = [status |-> "done", code |-> c]]
      BY <2>2, <3>2
    <3> QED
      BY <1>5, <3>1, <3>2 DEF Lock!Codes
  <2> QED
    BY <1>3, <1>4, <2>3
<1>11. LockMade' /\ Lock!Made' = Lock!Made
  BY <1>1, <1>2, <1>3, <1>10, LockStays
<1>12. LockTyped'
  BY <1>2, <1>6, <1>7, <1>9, <1>10 DEF LockInv, LockTyped
<1>13. ASSUME x6.at = "locking", x6.id # 0, ~x7' PROVE x5'[x6.id].inst = x1'.lease /\ x4'[x6.id].code \notin Closed
  <2>1. /\ x6.id \in 1..LockRequests /\ x5[x6.id].inst = x1.lease /\ x4[x6.id].code \notin Closed /\ Lock!Open
        /\ x1'.lease = x1.lease /\ x1'.lease # Empty
    BY <1>9, <1>13 DEF LockConstants, LockInv, LockHeld, Lock!Made, Lock!Requests, Lock!Open
  <2>2. CASE x6.id # m.id
    BY <1>2, <1>10, <2>1, <2>2
  <2>3. CASE x6.id = m.id /\ x4' = [x4 EXCEPT ![m.id].status = "done"]
    <3>1. x4'[m.id].code = x4[m.id].code
      BY <1>3, <1>4, <2>3 DEF LockSlot
    <3> QED
      BY <1>2, <2>1, <2>3, <3>1
  <2>4. CASE x6.id = m.id /\ x4' # [x4 EXCEPT ![m.id].status = "done"]
    <3>1. x2[m.inst].runs # 0
      BY <1>3, <2>1, <2>4 DEF Lock!Open
    <3>2. ~(Lock!Locks(m) /\ m.inst \notin LockOld)
      BY <1>4, <1>5, <2>1, <2>4
    <3>3. x4'[m.id].code \in {"none", "stale"}
      <4> DEFINE code == IF m.inst \in LockOld THEN "none" ELSE IF Lock!Locks(m) THEN "locked"
                         ELSE IF x2[m.inst].runs = 0 THEN "not_running" ELSE "stale"
      <4>1. x4' = [x4 EXCEPT ![m.id] = [status |-> "done", code |-> code]]
        BY <1>5, <2>4
      <4>2. code \in {"none", "stale"}
        BY <3>1, <3>2
      <4> HIDE DEF code
      <4> QED
        BY <1>3, <1>4, <4>1, <4>2
    <3> QED
      BY <1>2, <2>1, <2>4, <3>3 DEF Closed
  <2> QED
    BY <2>2, <2>3, <2>4
<1>14. LockHeld'
  BY <1>2, <1>9, <1>11, <1>13 DEF LockInv, LockHeld
<1> QED
  BY <1>11, <1>12, <1>14 DEF LockInv

LEMMA LockGoes ==
  ASSUME LockConstants, LockInv, Lock!Record \/ Lock!Stops \/ Lock!LeaseRunsOut
  PROVE  LockInv'
<1>1. x3' = x3 /\ x4' = x4 /\ x5' = x5 /\ x6' = x6 /\ Lock!Noted
  BY DEF Lock!Record, Lock!Stops, Lock!LeaseRunsOut
<1>2. /\ x1 \in [state : {"locked", "unlocked"}, lease : LockInstances \cup {Empty}]
      /\ x2 \in [LockInstances -> [live : BOOLEAN, runs : 0..LockRequests]] /\ x4 \in [1..LockRequests -> LockSlot]
      /\ 0 \in 0..LockRequests
  BY DEF LockConstants, LockInv, LockTyped
<1>3. /\ x1' \in [state : {"locked", "unlocked"}, lease : LockInstances \cup {Empty}] /\ x1'.lease \in {x1.lease, Empty}
      /\ x2' \in [LockInstances -> [live : BOOLEAN, runs : 0..LockRequests]]
  <2>1. CASE Lock!Record
    BY <1>2, <2>1 DEF Lock!Record
  <2>2. CASE Lock!Stops
    BY <1>2, <2>2 DEF Lock!Stops
  <2>3. CASE Lock!LeaseRunsOut
    BY <1>2, <2>3 DEF Lock!LeaseRunsOut
  <2> QED
    BY <2>1, <2>2, <2>3
<1>4. /\ x7' \in BOOLEAN /\ (x7 => x7')
      /\ ~x7' /\ x6.at = "locking" => (Lock!Open)' /\ x1'.lease = x1.lease
  BY <1>1, <1>3, LockNoted
<1>5. LockMade' /\ Lock!Made' = Lock!Made
  BY <1>1, <1>2, LockStays
<1>6. LockTyped'
  BY <1>1, <1>3, <1>4 DEF LockInv, LockTyped
<1>7. LockHeld'
  BY <1>1, <1>4, <1>5 DEF LockInv, LockHeld
<1> QED
  BY <1>5, <1>6, <1>7 DEF LockInv

LEMMA LockStep == LockConstants /\ LockInv /\ [Lock!Next]_(Lock!vars) => LockInv'
<1> SUFFICES ASSUME LockConstants, LockInv, [Lock!Next]_(Lock!vars) PROVE LockInv'
  OBVIOUS
<1>1. CASE UNCHANGED Lock!vars
  <2>1. x1' = x1 /\ x2' = x2 /\ x3' = x3 /\ x4' = x4 /\ x5' = x5 /\ x6' = x6 /\ x7' = x7
    BY <1>1 DEF Lock!vars
  <2> QED
    BY <2>1 DEF LockInv, LockTyped, LockMade, LockHeld, Lock!Made, Lock!Open
<1> QED
  BY <1>1, LockAskedApp, LockWritten, LockPage, LockTaken, LockGoes DEF Lock!Next, Lock!Requests

LEMMA LockSafe == LockInv => Lock!LockedSaid
BY DEF LockInv, LockHeld, Lock!LockedSaid, Lock!Says, Closed

--------------------------------------------------------------------------------
(***************************************************************************)
(* That a start-over said to be cancelled never takes the vault, and that  *)
(* a page which shows one looks again, for any loads, start-overs and      *)
(* faults.  (StartOverPage: vault is x1, load x2, page x3, post x4, said   *)
(* x5, mail x6, made x7, faults x8.)  A number that was cancelled is not   *)
(* the deletion's, not the queued one, and is given to no later one.       *)
(***************************************************************************)
CONSTANTS SiteRequests, SiteFaults                             \* start-overs, and what goes wrong

StartOverSite == INSTANCE StartOverPage WITH
               Loads <- Two, MaxRequests <- SiteRequests, MaxFaults <- SiteFaults,
               vault <- x1, load <- x2, page <- x3, post <- x4, said <- x5, mail <- x6, made <- x7,
               faults <- x8

SiteVault == [state : {"enrolling", "sealed", "deleted"}, went : Nat, queued : Nat, links : SUBSET Nat,
              deletion : [id : Nat, state : {"none", "pending", "executing"}, due : BOOLEAN]]

\* A start-over that was cancelled in time.
Gone(id) == id \in 1..x7 /\ x1.went # id /\ x1.queued # id /\ x1.deletion.id # id

GoneInv ==
  /\ x7 \in Nat /\ x1 \in SiteVault
  /\ x1.went <= x7 /\ x1.queued <= x7 /\ x1.deletion.id <= x7
  /\ x1.deletion.state = "pending" => x1.deletion.id # 0 /\ x1.queued # x1.deletion.id /\ x1.went # x1.deletion.id
  /\ x4.op = "cancel" /\ x4.answer = "yes" => Gone(x4.id)
  /\ x5.what = "cancelled" => Gone(x5.id)
  /\ x6.says = "cancelled" => Gone(x6.id)

LookInv ==
  /\ x2 = [l \in Two |-> x2[l]] /\ x3.timers \in Nat
  /\ x3 = [view |-> x3.view, id |-> x3.id, timers |-> x3.timers, due |-> x3.due, had |-> x3.had, hidden |-> x3.hidden,
           gone |-> x3.gone]
  /\ \A l \in Two : x2[l] = [at |-> x2[l].at, state |-> x2[l].state, id |-> x2[l].id, deletion |-> x2[l].deletion]
  /\ x3.view \in {"pending", "executing"} /\ ~x3.gone => x3.timers > 0 \/ x3.due \/ \E l \in Two : x2[l].at # "none"

LEMMA SiteInit == StartOverSite!Init => GoneInv /\ LookInv
<1> SUFFICES ASSUME StartOverSite!Init PROVE GoneInv /\ LookInv
  OBVIOUS
<1>1. x1 = [state |-> "sealed", went |-> 0, queued |-> 0, links |-> {}, deletion |-> [id |-> 0, state |-> "none", due |-> FALSE]]
      /\ x7 = 0 /\ x4.op = "none" /\ x5.what = "none" /\ x6.says = "none"
  BY DEF StartOverSite!Init, StartOverSite!NoDeletion, StartOverSite!NoPost
<1>2. GoneInv
  BY <1>1 DEF GoneInv, SiteVault
<1>3. LookInv
  BY DEF StartOverSite!Init, LookInv, StartOverSite!NoLoad
<1> QED
  BY <1>2, <1>3

\* What the vault's row may become.
LEMMA SiteRows ==
  ASSUME GoneInv
  PROVE  /\ StartOverSite!Requested /\ x7' = x7 + 1 =>
              /\ x7' \in Nat /\ x1' \in SiteVault /\ x1'.went = x1.went /\ x1'.queued = x1.queued
              /\ x1'.deletion.id = x7 + 1 /\ x1'.deletion.state = "pending"
         /\ x1' = [x1 EXCEPT !.deletion = StartOverSite!NoDeletion] =>
              /\ x1' \in SiteVault /\ x1'.went = x1.went /\ x1'.queued = x1.queued
              /\ x1'.deletion.id = 0 /\ x1'.deletion.state = "none"
<1>1. /\ x1 = [state |-> x1.state, went |-> x1.went, queued |-> x1.queued, links |-> x1.links, deletion |-> x1.deletion]
      /\ x1.state \in {"enrolling", "sealed", "deleted"} /\ x1.went \in Nat /\ x1.queued \in Nat /\ x1.links \subseteq Nat /\ x7 \in Nat
  BY DEF GoneInv, SiteVault
<1>2. \A n \in Nat, s \in {"none", "pending"}, ls \in SUBSET Nat :
        [state |-> x1.state, went |-> x1.went, queued |-> x1.queued, links |-> ls,
         deletion |-> [id |-> n, state |-> s, due |-> FALSE]] \in SiteVault
  BY <1>1 DEF SiteVault
<1>3. ASSUME StartOverSite!Requested, x7' = x7 + 1
      PROVE  /\ x7' \in Nat /\ x1' \in SiteVault /\ x1'.went = x1.went /\ x1'.queued = x1.queued
             /\ x1'.deletion.id = x7 + 1 /\ x1'.deletion.state = "pending"
  <2>1. x1' = [state |-> x1.state, went |-> x1.went, queued |-> x1.queued, links |-> x1.links \cup {x7 + 1},
               deletion |-> [id |-> x7 + 1, state |-> "pending", due |-> FALSE]]
    BY <1>1, <1>3 DEF StartOverSite!Requested
  <2> QED
    BY <1>1, <1>2, <1>3, <2>1
<1>4. ASSUME x1' = [x1 EXCEPT !.deletion = StartOverSite!NoDeletion]
      PROVE  /\ x1' \in SiteVault /\ x1'.went = x1.went /\ x1'.queued = x1.queued
             /\ x1'.deletion.id = 0 /\ x1'.deletion.state = "none"
  <2>1. x1' = [state |-> x1.state, went |-> x1.went, queued |-> x1.queued, links |-> x1.links,
               deletion |-> [id |-> 0, state |-> "none", due |-> FALSE]]
    BY <1>1, <1>4 DEF StartOverSite!NoDeletion
  <2> QED
    BY <1>1, <1>2, <2>1
<1> QED
  BY <1>3, <1>4

\* A cancel that is answered so ends a start-over that was waiting.
LEMMA SiteCancels ==
  ASSUME GoneInv, NEW id, NEW a, NEW yes, NEW no, yes # no, StartOverSite!Cancels(id, a, yes, no), x7' = x7
  PROVE  /\ x1' = x1 \/ x1' = [x1 EXCEPT !.deletion = StartOverSite!NoDeletion]
         /\ a = yes => Gone(id)'
<1>1. CASE x1.state = "sealed" /\ StartOverSite!Pending(id)
  <2>1. x1' = [x1 EXCEPT !.deletion = StartOverSite!NoDeletion] /\ x1.deletion.id = id /\ x1.deletion.state = "pending"
    BY <1>1 DEF StartOverSite!Cancels, StartOverSite!Pending
  <2>2. id \in Nat /\ id # 0 /\ id <= x7 /\ x7 \in Nat
    BY <2>1 DEF GoneInv, SiteVault
  <2> QED
    BY <2>1, <2>2, SiteRows DEF Gone, GoneInv
<1>2. CASE ~(x1.state = "sealed" /\ StartOverSite!Pending(id))
  BY <1>2 DEF StartOverSite!Cancels
<1> QED
  BY <1>1, <1>2

\* What was cancelled stays so, whatever becomes of the row.
LEMMA GoneStays ==
  ASSUME GoneInv, \/ x1' = x1 /\ x7' = x7
                  \/ x1' = [x1 EXCEPT !.deletion = StartOverSite!NoDeletion] /\ x7' = x7
                  \/ StartOverSite!Requested /\ x7' = x7 + 1
  PROVE  /\ \A id : Gone(id) => Gone(id)'
         /\ x7' \in Nat /\ x1' \in SiteVault
         /\ x1'.went <= x7' /\ x1'.queued <= x7' /\ x1'.deletion.id <= x7'
         /\ x1'.deletion.state = "pending" => x1'.deletion.id # 0 /\ x1'.queued # x1'.deletion.id /\ x1'.went # x1'.deletion.id
<1>1. x7 \in Nat /\ x1.went \in Nat /\ x1.queued \in Nat /\ x1.deletion.id \in Nat /\ x1.went <= x7 /\ x1.queued <= x7
  BY DEF GoneInv, SiteVault
<1>2. CASE x1' = x1 /\ x7' = x7
  BY <1>2 DEF GoneInv, Gone
<1>3. CASE x1' = [x1 EXCEPT !.deletion = StartOverSite!NoDeletion] /\ x7' = x7
  BY <1>1, <1>3, SiteRows DEF Gone
<1>4. CASE StartOverSite!Requested /\ x7' = x7 + 1
  <2>1. /\ x7' \in Nat /\ x1' \in SiteVault /\ x1'.went = x1.went /\ x1'.queued = x1.queued
        /\ x1'.deletion.id = x7 + 1 /\ x1'.deletion.state = "pending"
    BY <1>4, SiteRows
  <2>2. x7 + 1 # x1.went /\ x7 + 1 # x1.queued /\ \A id \in 1..x7 : id # x7 + 1 /\ id \in 1..(x7 + 1)
    BY <1>1
  <2> QED
    BY <1>1, <1>4, <2>1, <2>2 DEF Gone
<1> QED
  BY <1>2, <1>3, <1>4

LEMMA GoneStep == GoneInv /\ [StartOverSite!Next]_(StartOverSite!vars) => GoneInv'
<1> SUFFICES ASSUME GoneInv, [StartOverSite!Next]_(StartOverSite!vars) PROVE GoneInv'
  OBVIOUS
<1> DEFINE Row == \/ x1' = x1 /\ x7' = x7
                  \/ x1' = [x1 EXCEPT !.deletion = StartOverSite!NoDeletion] /\ x7' = x7
                  \/ StartOverSite!Requested /\ x7' = x7 + 1
           P4 == x4' = x4 \/ ~(x4'.op = "cancel" /\ x4'.answer = "yes") \/ \E id : x4'.id = id /\ Gone(id)'
           P5 == x5' = x5 \/ x5'.what # "cancelled" \/ \E id : x5'.id = id /\ Gone(id)'
           P6 == x6' = x6 \/ x6'.says # "cancelled" \/ \E id : x6'.id = id /\ Gone(id)'
<1>0. /\ x7 \in Nat /\ x1 \in SiteVault /\ x1.went <= x7 /\ x1.queued <= x7 /\ x1.deletion.id <= x7
      /\ x1.deletion.state = "pending" => x1.deletion.id # 0 /\ x1.queued # x1.deletion.id /\ x1.went # x1.deletion.id
      /\ x4.op = "cancel" /\ x4.answer = "yes" => Gone(x4.id)
      /\ x5.what = "cancelled" => Gone(x5.id)
      /\ x6.says = "cancelled" => Gone(x6.id)
  BY DEF GoneInv
<1>1. ASSUME \A id : Gone(id) => Gone(id)',
             /\ x7' \in Nat /\ x1' \in SiteVault
             /\ x1'.went <= x7' /\ x1'.queued <= x7' /\ x1'.deletion.id <= x7'
             /\ x1'.deletion.state = "pending" => x1'.deletion.id # 0 /\ x1'.queued # x1'.deletion.id /\ x1'.went # x1'.deletion.id,
             P4, P5, P6
      PROVE  GoneInv'
  <2>1. (x4.op = "cancel" /\ x4.answer = "yes" => Gone(x4.id))'
    <3>1. CASE x4' = x4
      <4> PICK i : i = x4.id
        OBVIOUS
      <4>1. x4'.op = "cancel" /\ x4'.answer = "yes" => Gone(i)'
        BY <1>0, <1>1, <3>1
      <4> QED
        BY <3>1, <4>1 DEF Gone
    <3> QED
      BY <1>1, <3>1 DEF Gone
  <2>2. (x5.what = "cancelled" => Gone(x5.id))'
    <3>1. CASE x5' = x5
      <4> PICK i : i = x5.id
        OBVIOUS
      <4>1. x5'.what = "cancelled" => Gone(i)'
        BY <1>0, <1>1, <3>1
      <4> QED
        BY <3>1, <4>1 DEF Gone
    <3> QED
      BY <1>1, <3>1 DEF Gone
  <2>3. (x6.says = "cancelled" => Gone(x6.id))'
    <3>1. CASE x6' = x6
      <4> PICK i : i = x6.id
        OBVIOUS
      <4>1. x6'.says = "cancelled" => Gone(i)'
        BY <1>0, <1>1, <3>1
      <4> QED
        BY <3>1, <4>1 DEF Gone
    <3> QED
      BY <1>1, <3>1 DEF Gone
  <2> HIDE DEF P4, P5, P6
  <2> QED
    BY <1>1, <2>1, <2>2, <2>3 DEF GoneInv
<1>2. ASSUME Row, P4, P5, P6 PROVE GoneInv'
  <2> HIDE DEF P4, P5, P6
  <2>1. /\ \A id : Gone(id) => Gone(id)'
        /\ x7' \in Nat /\ x1' \in SiteVault
        /\ x1'.went <= x7' /\ x1'.queued <= x7' /\ x1'.deletion.id <= x7'
        /\ x1'.deletion.state = "pending" => x1'.deletion.id # 0 /\ x1'.queued # x1'.deletion.id /\ x1'.went # x1'.deletion.id
    BY <1>2, GoneStays
  <2> QED
    BY <1>1, <1>2, <2>1
<1>3. CASE UNCHANGED StartOverSite!vars
  BY <1>2, <1>3 DEF StartOverSite!vars
<1>4. CASE \E l \in Two : StartOverSite!ReadStatus(l) \/ StartOverSite!ReadDeletion(l) \/ StartOverSite!LoadFails(l) \/ StartOverSite!Render(l)
  <2>1. UNCHANGED <<x1, x4, x5, x6, x7>>
    BY <1>4 DEF StartOverSite!ReadStatus, StartOverSite!ReadDeletion, StartOverSite!LoadFails, StartOverSite!Render
  <2> QED
    BY <1>2, <2>1
<1>5. CASE StartOverSite!Poll \/ StartOverSite!Hide \/ StartOverSite!Seen \/ StartOverSite!PageHide \/ StartOverSite!PageShow \/ StartOverSite!TryAgain
  <2>1. UNCHANGED <<x1, x4, x5, x6, x7>>
    BY <1>5 DEF StartOverSite!Poll, StartOverSite!Hide, StartOverSite!Seen, StartOverSite!PageHide, StartOverSite!PageShow,
                StartOverSite!TryAgain
  <2> QED
    BY <1>2, <2>1
<1>6. CASE StartOverSite!ClickRequest
  <2>1. Row /\ x4'.op = "request" /\ UNCHANGED <<x5, x6>>
    BY <1>6 DEF StartOverSite!ClickRequest
  <2> QED
    BY <1>2, <2>1
<1>7. CASE StartOverSite!ClickCancel
  <2> PICK i : i = x3.id
    OBVIOUS
  <2>1. PICK a \in {"yes", "no"} : StartOverSite!Cancels(i, a, "yes", "no") /\ UNCHANGED <<x5, x6, x7>>
                  /\ (x4' = [op |-> "cancel", id |-> i, answer |-> a] \/ x4' = [op |-> "cancel", id |-> i, answer |-> "error"])
    BY <1>7 DEF StartOverSite!ClickCancel
  <2>2. Row /\ (a = "yes" => Gone(i)')
    BY <2>1, SiteCancels
  <2>3. P4
    BY <2>1, <2>2
  <2> QED
    BY <1>2, <2>1, <2>2, <2>3
<1>8. CASE StartOverSite!Answered
  <2>1. x4' = StartOverSite!NoPost /\ UNCHANGED <<x1, x6, x7>>
        /\ (x5' = x5 \/ (x4.op = "cancel" /\ x5' = [id |-> x4.id, what |-> IF x4.answer = "yes" THEN "cancelled" ELSE "nothing"]))
    BY <1>8 DEF StartOverSite!Answered
  <2> PICK i : i = x4.id
    OBVIOUS
  <2>2. Gone(i) => Gone(i)'
    BY <2>1 DEF Gone
  <2>3. P5
    BY <1>0, <2>1, <2>2
  <2>4. P4
    BY <2>1 DEF StartOverSite!NoPost
  <2> QED
    BY <1>2, <2>1, <2>3, <2>4
<1>9. CASE StartOverSite!ClickLink
  <2>1. PICK i \in x1.links :
          \/ \E a \in {"cancelled", "nothing"} : StartOverSite!Cancels(i, a, "cancelled", "nothing") /\ x6' = [says |-> a, id |-> i]
          \/ x1' = x1 /\ x6' = [says |-> "invalid", id |-> i]
    BY <1>9 DEF StartOverSite!ClickLink
  <2>2. UNCHANGED <<x4, x5, x7>>
    BY <1>9 DEF StartOverSite!ClickLink
  <2>3. ASSUME NEW a \in {"cancelled", "nothing"}, StartOverSite!Cancels(i, a, "cancelled", "nothing"), x6' = [says |-> a, id |-> i]
        PROVE  Row /\ P6
    <3>1. Row /\ (a = "cancelled" => Gone(i)')
      BY <2>2, <2>3, SiteCancels
    <3> QED
      BY <2>3, <3>1
  <2> QED
    BY <1>2, <2>1, <2>2, <2>3
<1>10. CASE StartOverSite!RequestElsewhere
  BY <1>2, <1>10 DEF StartOverSite!RequestElsewhere
<1>11. CASE StartOverSite!CancelElsewhere
  <2> PICK i : i = x1.deletion.id
    OBVIOUS
  <2>1. StartOverSite!Cancels(i, "yes", "yes", "no") /\ UNCHANGED <<x4, x5, x6, x7>>
    BY <1>11 DEF StartOverSite!CancelElsewhere
  <2>2. Row
    BY <2>1, SiteCancels
  <2> QED
    BY <1>2, <2>1, <2>2
<1>12. CASE StartOverSite!TimeComes \/ StartOverSite!Executed \/ StartOverSite!NewVault
  <2>0. UNCHANGED <<x4, x5, x6, x7>>
    BY <1>12 DEF StartOverSite!TimeComes, StartOverSite!Executed, StartOverSite!NewVault
  <2>1. /\ x1 = [state |-> x1.state, went |-> x1.went, queued |-> x1.queued, links |-> x1.links, deletion |-> x1.deletion]
        /\ x1.deletion = [id |-> x1.deletion.id, state |-> x1.deletion.state, due |-> x1.deletion.due]
        /\ x1.state \in {"enrolling", "sealed", "deleted"} /\ x1.went \in Nat /\ x1.queued \in Nat /\ x1.links \subseteq Nat
        /\ x1.deletion.id \in Nat /\ x1.deletion.state \in {"none", "pending", "executing"} /\ x1.deletion.due \in BOOLEAN
    BY <1>0 DEF SiteVault
  <2>2. \A st \in {"enrolling", "sealed", "deleted"}, w, q, n \in Nat, s \in {"none", "pending", "executing"}, d \in BOOLEAN :
          [state |-> st, went |-> w, queued |-> q, links |-> x1.links, deletion |-> [id |-> n, state |-> s, due |-> d]] \in SiteVault
    BY <2>1 DEF SiteVault
  <2>3. CASE StartOverSite!TimeComes
    <3>1. x1' = [state |-> x1.state, went |-> x1.went, queued |-> x1.queued, links |-> x1.links,
                 deletion |-> [id |-> x1.deletion.id, state |-> x1.deletion.state, due |-> TRUE]]
      BY <2>1, <2>3 DEF StartOverSite!TimeComes
    <3>2. x1' \in SiteVault
      BY <2>1, <2>2, <3>1
    <3>3. \A id : Gone(id) => Gone(id)'
      BY <2>0, <3>1 DEF Gone
    <3> QED
      BY <1>0, <1>1, <2>0, <3>1, <3>2, <3>3
  <2>4. CASE x1.deletion.state = "pending" /\ x1' = [x1 EXCEPT !.deletion.state = "executing", !.queued = x1.deletion.id]
    <3>1. x1' = [state |-> x1.state, went |-> x1.went, queued |-> x1.deletion.id, links |-> x1.links,
                 deletion |-> [id |-> x1.deletion.id, state |-> "executing", due |-> x1.deletion.due]]
      BY <2>1, <2>4
    <3>2. x1' \in SiteVault
      BY <2>1, <2>2, <3>1
    <3>3. \A id : Gone(id) => Gone(id)'
      BY <2>0, <3>1 DEF Gone
    <3> QED
      BY <1>0, <1>1, <2>0, <3>1, <3>2, <3>3
  <2>5. CASE x1.queued # 0
             /\ x1' = [x1 EXCEPT !.state = "deleted", !.went = x1.queued, !.queued = 0, !.deletion = StartOverSite!NoDeletion]
    <3>1. x1' = [state |-> "deleted", went |-> x1.queued, queued |-> 0, links |-> x1.links,
                 deletion |-> [id |-> 0, state |-> "none", due |-> FALSE]]
      BY <2>1, <2>5 DEF StartOverSite!NoDeletion
    <3>2. x1' \in SiteVault
      BY <2>1, <2>2, <3>1
    <3>3. \A id : Gone(id) => Gone(id)'
      BY <1>0, <2>0, <3>1 DEF Gone
    <3> QED
      BY <1>0, <1>1, <2>0, <3>1, <3>2, <3>3
  <2>6. CASE StartOverSite!NewVault
    <3>1. PICK st \in {"enrolling", "sealed"} :
            x1' = [state |-> st, went |-> x1.went, queued |-> x1.queued, links |-> x1.links, deletion |-> x1.deletion]
      BY <2>1, <2>6 DEF StartOverSite!NewVault
    <3>2. x1' \in SiteVault
      BY <2>1, <2>2, <3>1
    <3>3. \A id : Gone(id) => Gone(id)'
      BY <2>0, <3>1 DEF Gone
    <3> QED
      BY <1>0, <1>1, <2>0, <3>1, <3>2, <3>3
  <2>7. CASE StartOverSite!Executed
    BY <2>4, <2>5, <2>7 DEF StartOverSite!Executed
  <2> QED
    BY <1>12, <2>3, <2>6, <2>7
<1> QED
  BY <1>3, <1>4, <1>5, <1>6, <1>7, <1>8, <1>9, <1>10, <1>11, <1>12 DEF StartOverSite!Next

LEMMA LookStep == LookInv /\ [StartOverSite!Next]_(StartOverSite!vars) => LookInv'
<1> SUFFICES ASSUME LookInv, [StartOverSite!Next]_(StartOverSite!vars) PROVE LookInv'
  OBVIOUS
<1>0. /\ x2 = [l \in Two |-> x2[l]] /\ x3.timers \in Nat
      /\ x3 = [view |-> x3.view, id |-> x3.id, timers |-> x3.timers, due |-> x3.due, had |-> x3.had, hidden |-> x3.hidden,
               gone |-> x3.gone]
      /\ \A l \in Two : x2[l] = [at |-> x2[l].at, state |-> x2[l].state, id |-> x2[l].id, deletion |-> x2[l].deletion]
      /\ x3.view \in {"pending", "executing"} /\ ~x3.gone => x3.timers > 0 \/ x3.due \/ \E l \in Two : x2[l].at # "none"
  BY DEF LookInv
<1>1. \A n \in Nat : StartOverSite!Cleared(n) \in Nat
  BY DEF StartOverSite!Cleared
<1>2. ASSUME UNCHANGED <<x2, x3>> PROVE LookInv'
  BY <1>0, <1>2 DEF LookInv
\* A load that begins is one the page will hear of.
<1>3. ASSUME NEW l \in StartOverSite!Free, StartOverSite!Starts(l)
      PROVE  /\ x2' = [m \in Two |-> x2'[m]]
             /\ \A m \in Two : x2'[m] = [at |-> x2'[m].at, state |-> x2'[m].state, id |-> x2'[m].id, deletion |-> x2'[m].deletion]
             /\ \E m \in Two : x2'[m].at # "none"
  <2>1. l \in Two
    BY DEF StartOverSite!Free
  <2>2. x2' = [m \in Two |-> IF m = l THEN [at |-> "status", state |-> "none", id |-> 0, deletion |-> "none"] ELSE x2[m]]
    BY <1>0, <1>3, <2>1 DEF StartOverSite!Starts, StartOverSite!NoLoad
  <2> QED
    BY <1>0, <2>1, <2>2
\* Its steps keep it under way.
<1>4. ASSUME NEW l \in Two, StartOverSite!ReadStatus(l) \/ StartOverSite!ReadDeletion(l) \/ StartOverSite!LoadFails(l) PROVE LookInv'
  <2>1. PICK n : n = [at |-> n.at, state |-> n.state, id |-> n.id, deletion |-> n.deletion] /\ n.at # "none"
                 /\ x2' = [m \in Two |-> IF m = l THEN n ELSE x2[m]]
    <3>1. PICK a, s, i, d : a # "none" /\ x2' = [m \in Two |-> IF m = l THEN [at |-> a, state |-> s, id |-> i, deletion |-> d] ELSE x2[m]]
      <4>1. CASE StartOverSite!ReadStatus(l)
        <5>1. CASE x1.state = "deleted"
          <6>1. x2' = [m \in Two |-> IF m = l THEN [at |-> "answered", state |-> x2[l].state, id |-> x2[l].id, deletion |-> x2[l].deletion] ELSE x2[m]]
            BY <1>0, <4>1, <5>1 DEF StartOverSite!ReadStatus
          <6> QED
            BY <6>1
        <5>2. CASE x1.state # "deleted"
          <6> PICK r : r = x2[l]
            OBVIOUS
          <6>1. x2' = [x2 EXCEPT ![l] = [r EXCEPT !.at = "deletion", !.state = x1.state]]
            BY <1>0, <4>1, <5>2 DEF StartOverSite!ReadStatus
          <6>2. PICK a, s, i, d : r = [at |-> a, state |-> s, id |-> i, deletion |-> d]
            BY <1>0
          <6> DEFINE one == [r EXCEPT !.at = "deletion"]
          <6>5. one = [at |-> "deletion", state |-> s, id |-> i, deletion |-> d]
            BY <6>2
          <6>7. [r EXCEPT !.at = "deletion", !.state = x1.state] = [one EXCEPT !.state = x1.state]
            OBVIOUS
          <6> HIDE DEF one
          <6>3. [r EXCEPT !.at = "deletion", !.state = x1.state] = [at |-> "deletion", state |-> x1.state, id |-> i, deletion |-> d]
            BY <6>5, <6>7
          <6>4. x2' = [m \in Two |-> IF m = l THEN [at |-> "deletion", state |-> x1.state, id |-> i, deletion |-> d] ELSE x2[m]]
            BY <1>0, <6>1, <6>3
          <6> QED
            BY <6>4
        <5> QED
          BY <5>1, <5>2
      <4>2. CASE StartOverSite!ReadDeletion(l)
        <5> PICK r, i, d : r = x2[l] /\ i = x1.deletion.id /\ d = x1.deletion.state
          OBVIOUS
        <5> DEFINE one == [r EXCEPT !.at = "answered"]
                   two == [one EXCEPT !.id = i]
                   all == [two EXCEPT !.deletion = d]
        <5>1. PICK a, s, j, e : r = [at |-> a, state |-> s, id |-> j, deletion |-> e]
          BY <1>0
        <5>6. one = [at |-> "answered", state |-> s, id |-> j, deletion |-> e]
          BY <5>1
        <5>7. two = [at |-> "answered", state |-> s, id |-> i, deletion |-> e]
          <6> HIDE DEF one
          <6> QED
            BY <5>6
        <5>2. all = [at |-> "answered", state |-> s, id |-> i, deletion |-> d]
          <6> HIDE DEF two
          <6> QED
            BY <5>7
        <5>3. x2' = [x2 EXCEPT ![l].at = "answered", ![l].id = i, ![l].deletion = d]
          BY <4>2 DEF StartOverSite!ReadDeletion
        <5>4. \A f, v1, v2, v3 : f = [m \in Two |-> f[m]] => 
                [f EXCEPT ![l].at = v1, ![l].id = v2, ![l].deletion = v3]
                  = [m \in Two |-> IF m = l THEN [[[f[l] EXCEPT !.at = v1] EXCEPT !.id = v2] EXCEPT !.deletion = v3] ELSE f[m]]
          OBVIOUS
        <5>5. x2' = [m \in Two |-> IF m = l THEN all ELSE x2[m]]
          BY <1>0, <5>3, <5>4
        <5> HIDE DEF all
        <5> QED
          BY <5>2, <5>5
      <4>3. CASE StartOverSite!LoadFails(l)
        <5>1. x2' = [m \in Two |-> IF m = l THEN [at |-> "failed", state |-> x2[l].state, id |-> x2[l].id, deletion |-> x2[l].deletion] ELSE x2[m]]
          BY <1>0, <4>3 DEF StartOverSite!LoadFails
        <5> QED
          BY <5>1
      <4> QED
        BY <1>4, <4>1, <4>2, <4>3
    <3> PICK n : n = [at |-> a, state |-> s, id |-> i, deletion |-> d]
      OBVIOUS
    <3> QED
      BY <3>1
  <2>2. x3' = x3
    BY <1>4 DEF StartOverSite!ReadStatus, StartOverSite!ReadDeletion, StartOverSite!LoadFails
  <2>3. (\E m \in Two : x2[m].at # "none") => \E m \in Two : x2'[m].at # "none"
    BY <2>1
  <2> QED
    BY <1>0, <2>1, <2>2, <2>3 DEF LookInv
\* What it draws with a deletion is looked at again.
<1>5. ASSUME NEW l \in Two, StartOverSite!Render(l) PROVE LookInv'
  <2>1. x2' = [m \in Two |-> IF m = l THEN [at |-> "none", state |-> "none", id |-> 0, deletion |-> "none"] ELSE x2[m]]
    BY <1>0, <1>5 DEF StartOverSite!Render, StartOverSite!NoLoad
  <2>2. CASE x2[l].at = "failed"
    <3>1. x3' = [view |-> "error", id |-> 0, timers |-> x3.timers, due |-> x3.due, had |-> x3.had, hidden |-> x3.hidden,
               gone |-> x3.gone]
      BY <1>0, <1>5, <2>2 DEF StartOverSite!Render
    <3> QED
      BY <1>0, <2>1, <3>1 DEF LookInv
  <2>3. CASE x2[l].at # "failed"
    <3> PICK d : d = x2[l].deletion
      OBVIOUS
    <3>1. x3' = [view |-> StartOverSite!Shows(x2[l].state, d), id |-> x2[l].id, timers |-> StartOverSite!Schedules(d), due |-> x3.due,
                 had |-> StartOverSite!HadSeen(d), hidden |-> x3.hidden, gone |-> x3.gone]
      BY <1>0, <1>5, <2>3 DEF StartOverSite!Render
    <3>2. StartOverSite!Schedules(d) \in Nat /\ (d # "none" => StartOverSite!Schedules(d) > 0)
      BY <1>0 DEF StartOverSite!Schedules
    <3>3. StartOverSite!Shows(x2[l].state, d) \in {"pending", "executing"} => d # "none"
      BY DEF StartOverSite!Shows
    <3> QED
      BY <1>0, <2>1, <3>1, <3>2, <3>3 DEF LookInv
  <2> QED
    BY <2>2, <2>3
<1>6. CASE StartOverSite!Poll
  <2>1. CASE x3.hidden
    <3>1. x3' = [view |-> x3.view, id |-> x3.id, timers |-> x3.timers - 1, due |-> TRUE, had |-> x3.had, hidden |-> x3.hidden,
                 gone |-> x3.gone] /\ x2' = x2 /\ x3.timers > 0
      BY <1>0, <1>6, <2>1 DEF StartOverSite!Poll
    <3> QED
      BY <1>0, <3>1 DEF LookInv
  <2>2. CASE ~x3.hidden
    <3>1. PICK l \in StartOverSite!Free : StartOverSite!Starts(l)
      BY <1>6, <2>2 DEF StartOverSite!Poll
    <3>2. x3.timers > 0 /\ x3' = [view |-> x3.view, id |-> x3.id, timers |-> StartOverSite!Cleared(x3.timers - 1), due |-> x3.due, had |-> x3.had,
                 hidden |-> x3.hidden, gone |-> x3.gone]
      BY <1>0, <1>6, <2>2 DEF StartOverSite!Poll
    <3>3. StartOverSite!Cleared(x3.timers - 1) \in Nat
      BY <1>0, <1>1, <3>2
    <3> QED
      BY <1>3, <3>1, <3>2, <3>3 DEF LookInv
  <2> QED
    BY <2>1, <2>2
<1>7. CASE StartOverSite!Hide
  <2>1. x3' = [view |-> x3.view, id |-> x3.id, timers |-> x3.timers, due |-> x3.due, had |-> x3.had, hidden |-> TRUE,
               gone |-> x3.gone] /\ x2' = x2
    BY <1>0, <1>7 DEF StartOverSite!Hide
  <2> QED
    BY <1>0, <2>1 DEF LookInv
<1>8. CASE StartOverSite!Seen
  <2>1. CASE ~x3.due
    <3>1. x3' = [view |-> x3.view, id |-> x3.id, timers |-> x3.timers, due |-> x3.due, had |-> x3.had, hidden |-> FALSE,
                 gone |-> x3.gone] /\ x2' = x2
      BY <1>0, <1>8, <2>1 DEF StartOverSite!Seen
    <3> QED
      BY <1>0, <3>1 DEF LookInv
  <2>2. CASE x3.due
    <3>1. PICK l \in StartOverSite!Free : StartOverSite!Starts(l)
      BY <1>8, <2>2 DEF StartOverSite!Seen
    <3>2. x3' = [view |-> x3.view, id |-> x3.id, timers |-> StartOverSite!Cleared(x3.timers), due |-> FALSE, had |-> x3.had,
                 hidden |-> FALSE, gone |-> x3.gone]
      BY <1>0, <1>8, <2>2 DEF StartOverSite!Seen
    <3> QED
      BY <1>0, <1>1, <1>3, <3>1, <3>2 DEF LookInv
  <2> QED
    BY <2>1, <2>2
<1>9. CASE StartOverSite!PageHide
  <2>1. x3' = [view |-> x3.view, id |-> x3.id, timers |-> StartOverSite!Cleared(x3.timers), due |-> x3.due, had |-> x3.had,
               hidden |-> x3.hidden, gone |-> TRUE] /\ x2' = x2
    BY <1>0, <1>9 DEF StartOverSite!PageHide
  <2> QED
    BY <1>0, <1>1, <2>1 DEF LookInv
<1>10. CASE StartOverSite!PageShow \/ StartOverSite!TryAgain
  <2>1. PICK l \in StartOverSite!Free : StartOverSite!Starts(l)
    BY <1>10 DEF StartOverSite!PageShow, StartOverSite!TryAgain
  <2>2. x3' = [view |-> x3.view, id |-> x3.id, timers |-> StartOverSite!Cleared(x3.timers), due |-> x3.due, had |-> x3.had,
               hidden |-> x3.hidden, gone |-> x3'.gone]
    BY <1>0, <1>10 DEF StartOverSite!PageShow, StartOverSite!TryAgain
  <2> QED
    BY <1>0, <1>1, <1>3, <2>1, <2>2 DEF LookInv
<1>11. CASE StartOverSite!Answered
  <2>1. CASE x4.answer = "error"
    BY <1>2, <1>11, <2>1 DEF StartOverSite!Answered
  <2>2. CASE x4.answer # "error"
    <3>1. PICK l \in StartOverSite!Free : StartOverSite!Starts(l)
      BY <1>11, <2>2 DEF StartOverSite!Answered
    <3>2. x3' = [view |-> x3.view, id |-> x3.id, timers |-> StartOverSite!Cleared(x3.timers), due |-> x3.due, had |-> x3'.had,
                 hidden |-> x3.hidden, gone |-> x3.gone]
      BY <1>0, <1>11, <2>2 DEF StartOverSite!Answered
    <3> QED
      BY <1>0, <1>1, <1>3, <3>1, <3>2 DEF LookInv
  <2> QED
    BY <2>1, <2>2
<1>12. CASE \/ StartOverSite!ClickRequest \/ StartOverSite!ClickCancel \/ StartOverSite!ClickLink
            \/ StartOverSite!RequestElsewhere \/ StartOverSite!CancelElsewhere
            \/ StartOverSite!TimeComes \/ StartOverSite!Executed \/ StartOverSite!NewVault
  BY <1>2, <1>12 DEF StartOverSite!ClickRequest, StartOverSite!ClickCancel, StartOverSite!ClickLink, StartOverSite!RequestElsewhere,
                     StartOverSite!CancelElsewhere, StartOverSite!TimeComes, StartOverSite!Executed, StartOverSite!NewVault
<1>13. CASE UNCHANGED StartOverSite!vars
  BY <1>2, <1>13 DEF StartOverSite!vars
<1> QED
  BY <1>4, <1>5, <1>6, <1>7, <1>8, <1>9, <1>10, <1>11, <1>12, <1>13 DEF StartOverSite!Next

LEMMA SiteSafe == GoneInv /\ LookInv => StartOverSite!CancelledStays /\ StartOverSite!LooksAgain
BY DEF GoneInv, LookInv, Gone, StartOverSite!CancelledStays, StartOverSite!LooksAgain

--------------------------------------------------------------------------------
(***************************************************************************)
(* That a setup code on the page counts down and is asked about, and that  *)
(* one it called over works no more, for any codes and timers.  (SetupPage:*)
(* code is x1, pointer x2, page x3, post x4, cancel x5, poll x6, timer x7, *)
(* ended x8.)  An answer that a code is over is about the member's code:   *)
(* the one that was asked about is that one, or it had been replaced.      *)
(***************************************************************************)
CONSTANTS AskCodes, AskTimers                                  \* codes issued; timers and questions

SetupSite == INSTANCE SetupPage WITH
               Codes <- AskCodes, Polls <- AskTimers,
               code <- x1, pointer <- x2, page <- x3, post <- x4, cancel <- x5, poll <- x6, timer <- x7, ended <- x8

WatchInv ==
  /\ x6 = [p \in AskTimers |-> x6[p]]
  /\ \A p \in AskTimers : x6[p] = [at |-> x6[p].at, for |-> x6[p].for, ans |-> x6[p].ans]
  /\ x3 = [at |-> x3.at, issued |-> x3.issued, ticks |-> x3.ticks, paused |-> x3.paused]
  /\ x3.issued # 0 => x3.ticks /\ \E p \in AskTimers : x6[p].at # "none"

\* A code that was issued, or none; one that works no more.
CodeKnown(c) == c = 0 \/ (c \in 1..AskCodes /\ x1[c] # "none")
CodeOver(c)  == c = 0 \/ (c \in 1..AskCodes /\ x1[c] # "none" /\ (c # x2 \/ x1[c] # "live"))

OverInv ==
  /\ x1 = [c \in 1..AskCodes |-> x1[c]] /\ CodeKnown(x2)
  /\ CodeKnown(x3.issued) /\ (x4.at = "code" => CodeKnown(x4.code))
  /\ x5 = [at |-> x5.at, for |-> x5.for, ans |-> x5.ans]
  /\ x5.at # "none" => CodeKnown(x5.for)
  /\ x5.at = "done" => CodeOver(x5.for)
  /\ \A p \in AskTimers : /\ x6[p].at # "none" => CodeKnown(x6[p].for)
                          /\ x6[p].at = "done" /\ x6[p].ans # "live" => CodeOver(x6[p].for)
  /\ CodeOver(x8)

LEMMA AskInit == SetupSite!Init => WatchInv /\ OverInv
<1> SUFFICES ASSUME SetupSite!Init PROVE WatchInv /\ OverInv
  OBVIOUS
<1>1. x6 = [p \in AskTimers |-> [at |-> "none", for |-> 0, ans |-> "none"]]
      /\ x3 = [at |-> "loading", issued |-> 0, ticks |-> FALSE, paused |-> FALSE]
      /\ x1 = [c \in 1..AskCodes |-> "none"] /\ x2 = 0 /\ x4.at = "none" /\ x5 = [at |-> "none", for |-> 0, ans |-> "none"] /\ x8 = 0
  BY DEF SetupSite!Init, SetupSite!NoReq, SetupSite!None, SetupSite!NoPost
<1> QED
  BY <1>1 DEF WatchInv, OverInv, CodeKnown, CodeOver

LEMMA WatchStep == WatchInv /\ [SetupSite!Next]_(SetupSite!vars) => WatchInv'
<1> SUFFICES ASSUME WatchInv, [SetupSite!Next]_(SetupSite!vars) PROVE WatchInv'
  OBVIOUS
<1>0. /\ x6 = [p \in AskTimers |-> x6[p]]
      /\ \A p \in AskTimers : x6[p] = [at |-> x6[p].at, for |-> x6[p].for, ans |-> x6[p].ans]
      /\ x3 = [at |-> x3.at, issued |-> x3.issued, ticks |-> x3.ticks, paused |-> x3.paused]
      /\ x3.issued # 0 => x3.ticks /\ \E p \in AskTimers : x6[p].at # "none"
  BY DEF WatchInv
<1>1. ASSUME UNCHANGED <<x3, x6>> PROVE WatchInv'
  BY <1>0, <1>1 DEF WatchInv
\* One question becomes another.
<1>2. ASSUME NEW p \in AskTimers, NEW a, NEW f, NEW s,
             x6' = [q \in AskTimers |-> IF q = p THEN [at |-> a, for |-> f, ans |-> s] ELSE x6[q]],
             x3' = x3, a # "none" \/ x3.issued = 0
      PROVE  WatchInv'
  BY <1>0, <1>2 DEF WatchInv
\* The code is off the page, or asked about.
<1>3. /\ SetupSite!Cleared = [p \in AskTimers |-> SetupSite!Cleared[p]]
      /\ \A p \in AskTimers : SetupSite!Cleared[p] = [at |-> SetupSite!Cleared[p].at, for |-> SetupSite!Cleared[p].for, ans |-> SetupSite!Cleared[p].ans]
  <2>1. CASE x7 # 0 /\ x6[x7].at = "timer"
    <3>1. SetupSite!Cleared = [x6 EXCEPT ![x7] = [at |-> "none", for |-> 0, ans |-> "none"]]
      BY <2>1 DEF SetupSite!Cleared, SetupSite!NoReq, SetupSite!None
    <3> QED
      BY <1>0, <3>1
  <2>2. CASE ~(x7 # 0 /\ x6[x7].at = "timer")
    BY <1>0, <2>2 DEF SetupSite!Cleared, SetupSite!None
  <2> QED
    BY <2>1, <2>2
<1>4. ASSUME NEW b, SetupSite!Wiped(b) PROVE WatchInv'
  BY <1>3, <1>4 DEF WatchInv, SetupSite!Wiped, SetupSite!None
<1>5. ASSUME NEW p \in AskTimers, SetupSite!Rearm(p) \/ (SetupSite!Drop(p) /\ x3.issued = 0), x3' = x3 PROVE WatchInv'
  <2>1. PICK a \in {"timer", "none"} : /\ x6' = [q \in AskTimers |-> IF q = p THEN [at |-> a, for |-> 0, ans |-> "none"] ELSE x6[q]]
                                       /\ a # "none" \/ x3.issued = 0
    BY <1>0, <1>5 DEF SetupSite!Rearm, SetupSite!Drop, SetupSite!NoReq, SetupSite!None
  <2> QED
    BY <1>2, <1>5, <2>1
<1>6. CASE SetupSite!Load
  <2>1. x6' = x6 /\ \E a, b : x3' = [at |-> a, issued |-> x3.issued, ticks |-> x3.ticks, paused |-> b]
    BY <1>0, <1>6 DEF SetupSite!Load
  <2> QED
    BY <1>0, <2>1 DEF WatchInv
<1>7. CASE SetupSite!CodeArrives
  <2>1. CASE x4.at = "code"
    <3>1. PICK p \in AskTimers : /\ x6' = [SetupSite!Cleared EXCEPT ![p] = [at |-> "timer", for |-> 0, ans |-> "none"]]
                                 /\ x3' = [x3 EXCEPT !.at = "code", !.issued = x4.code, !.ticks = TRUE]
      BY <1>7, <2>1 DEF SetupSite!CodeArrives, SetupSite!NoReq, SetupSite!None
    <3>2. x6' = [q \in AskTimers |-> IF q = p THEN [at |-> "timer", for |-> 0, ans |-> "none"] ELSE SetupSite!Cleared[q]]
      BY <1>3, <3>1
    <3>3. x3' = [at |-> "code", issued |-> x4.code, ticks |-> TRUE, paused |-> x3.paused]
      BY <1>0, <3>1
    <3> QED
      BY <1>3, <3>2, <3>3 DEF WatchInv
  <2>2. CASE x4.at = "paused"
    BY <1>4, <1>7, <2>2 DEF SetupSite!CodeArrives
  <2>3. CASE x4.at = "terms"
    <3>1. x6' = x6 /\ x3' = [at |-> "terms", issued |-> x3.issued, ticks |-> x3.ticks, paused |-> x3.paused]
      BY <1>0, <1>7, <2>3 DEF SetupSite!CodeArrives
    <3> QED
      BY <1>0, <3>1 DEF WatchInv
  <2>4. CASE x4.at \notin {"code", "paused", "terms"}
    BY <1>1, <1>7, <2>4 DEF SetupSite!CodeArrives
  <2> QED
    BY <2>1, <2>2, <2>3, <2>4
<1>8. CASE SetupSite!Tick \/ SetupSite!Hide
  BY <1>4, <1>8 DEF SetupSite!Tick, SetupSite!Hide, SetupSite!Ends
<1>9. CASE SetupSite!CancelArrives
  BY <1>1, <1>4, <1>9 DEF SetupSite!CancelArrives, SetupSite!Ends
<1>10. ASSUME NEW p \in AskTimers, SetupSite!ServePoll(p) PROVE WatchInv'
  <2>0. x6[p] = [at |-> x6[p].at, for |-> x6[p].for, ans |-> x6[p].ans] /\ x3' = x3
    BY <1>0, <1>10 DEF SetupSite!ServePoll
  <2>1. CASE x6' = [x6 EXCEPT ![p].at = "failed"]
    <3>1. x6' = [q \in AskTimers |-> IF q = p THEN [at |-> "failed", for |-> x6[p].for, ans |-> x6[p].ans] ELSE x6[q]]
      BY <1>0, <2>0, <2>1
    <3> QED
      BY <1>2, <2>0, <3>1
  <2>2. CASE ~(x6' = [x6 EXCEPT ![p].at = "failed"])
    <3> PICK s : s = IF x2 = 0 THEN "expired" ELSE x1[x2]
      OBVIOUS
    <3>1. x6' = [x6 EXCEPT ![p].at = "done", ![p].ans = s]
      BY <1>10, <2>2 DEF SetupSite!ServePoll, SetupSite!None
    <3>2. PICK a, f, t : x6[p] = [at |-> a, for |-> f, ans |-> t]
      BY <2>0
    <3> DEFINE one == [x6[p] EXCEPT !.at = "done"]
    <3>3. one = [at |-> "done", for |-> f, ans |-> t]
      BY <3>2
    <3>4. [one EXCEPT !.ans = s] = [at |-> "done", for |-> f, ans |-> s]
      <4> HIDE DEF one
      <4> QED
        BY <3>3
    <3>5. x6' = [q \in AskTimers |-> IF q = p THEN [one EXCEPT !.ans = s] ELSE x6[q]]
      BY <1>0, <3>1
    <3>6. x6' = [q \in AskTimers |-> IF q = p THEN [at |-> "done", for |-> f, ans |-> s] ELSE x6[q]]
      <4> HIDE DEF one
      <4> QED
        BY <3>4, <3>5
    <3> QED
      BY <1>2, <2>0, <3>6
  <2> QED
    BY <2>1, <2>2
<1>11. ASSUME NEW p \in AskTimers, SetupSite!Ask(p) PROVE WatchInv'
  <2>1. CASE x3.issued = 0
    <3>1. x6' = [q \in AskTimers |-> IF q = p THEN [at |-> "none", for |-> 0, ans |-> "none"] ELSE x6[q]] /\ x3' = x3
      BY <1>0, <1>11, <2>1 DEF SetupSite!Ask, SetupSite!NoReq, SetupSite!None
    <3> QED
      BY <1>2, <2>1, <3>1
  <2>2. CASE x3.issued # 0
    <3> DEFINE new == [SetupSite!NoReq EXCEPT !.at = "sent", !.for = x3.issued]
    <3> DEFINE one == [SetupSite!NoReq EXCEPT !.at = "sent"]
    <3>1. one = [at |-> "sent", for |-> 0, ans |-> "none"]
      BY DEF SetupSite!NoReq, SetupSite!None
    <3>5. [one EXCEPT !.for = x3.issued] = [at |-> "sent", for |-> x3.issued, ans |-> "none"]
      <4> HIDE DEF one
      <4> QED
        BY <3>1
    <3>2. new = [at |-> "sent", for |-> x3.issued, ans |-> "none"]
      BY <3>5
    <3>3. x6' = [q \in AskTimers |-> IF q = p THEN new ELSE x6[q]] /\ x3' = x3
      BY <1>0, <1>11, <2>2 DEF SetupSite!Ask, SetupSite!None
    <3>4. x6' = [q \in AskTimers |-> IF q = p THEN [at |-> "sent", for |-> x3.issued, ans |-> "none"] ELSE x6[q]]
      <4> HIDE DEF new
      <4> QED
        BY <3>2, <3>3
    <3> QED
      BY <1>2, <3>3, <3>4
  <2> QED
    BY <2>1, <2>2
<1>12. ASSUME NEW p \in AskTimers, SetupSite!PollFails(p) PROVE WatchInv'
  BY <1>5, <1>12 DEF SetupSite!PollFails, SetupSite!AfterFail
<1>13. ASSUME NEW p \in AskTimers, SetupSite!PollArrives(p) PROVE WatchInv'
  <2>1. CASE x3.issued = 0
    BY <1>5, <1>13, <2>1 DEF SetupSite!PollArrives, SetupSite!None
  <2>2. CASE x3.issued # 0 /\ x6[p].ans = "live"
    BY <1>5, <1>13, <2>2 DEF SetupSite!PollArrives, SetupSite!None
  <2>3. CASE x3.issued # 0 /\ x6[p].ans # "live"
    <3>1. /\ x3' = [at |-> "start", issued |-> 0, ticks |-> FALSE, paused |-> x3.paused]
          /\ x6' = [SetupSite!Cleared EXCEPT ![p] = [at |-> "none", for |-> 0, ans |-> "none"]]
      BY <1>13, <2>3 DEF SetupSite!PollArrives, SetupSite!NoReq, SetupSite!None
    <3>2. x6' = [q \in AskTimers |-> IF q = p THEN [at |-> "none", for |-> 0, ans |-> "none"] ELSE SetupSite!Cleared[q]]
      BY <1>3, <3>1
    <3> QED
      BY <1>3, <3>1, <3>2 DEF WatchInv
  <2> QED
    BY <2>1, <2>2, <2>3
<1>14. CASE SetupSite!ServePost \/ SetupSite!Elsewhere \/ SetupSite!UsedOrOver \/ SetupSite!ServeCancel \/ SetupSite!GetCode \/ SetupSite!CancelCode
  BY <1>1, <1>14 DEF SetupSite!ServePost, SetupSite!Elsewhere, SetupSite!UsedOrOver, SetupSite!ServeCancel, SetupSite!GetCode, SetupSite!CancelCode
<1>15. CASE UNCHANGED SetupSite!vars
  BY <1>1, <1>15 DEF SetupSite!vars
<1> QED
  BY <1>6, <1>7, <1>8, <1>9, <1>10, <1>11, <1>12, <1>13, <1>14, <1>15 DEF SetupSite!Next

\* What was issued stays so, and what works no more, whoever issues or ends a code.
LEMMA CodesStay ==
  ASSUME OverInv, \/ UNCHANGED <<x1, x2>>
                  \/ \E c \in 1..AskCodes :
                       /\ x1[c] = "none" /\ x2' = c
                       /\ x1' = [d \in 1..AskCodes |-> IF d = c THEN "live" ELSE IF d = x2 /\ x1[d] = "live" THEN "revoked" ELSE x1[d]]
                  \/ x2' = x2 /\ \E c \in 1..AskCodes, to \in {"used", "expired", "revoked"} : x1[c] = "live" /\ x1' = [x1 EXCEPT ![c] = to]
  PROVE  /\ x1' = [c \in 1..AskCodes |-> x1'[c]] /\ CodeKnown(x2)'
         /\ \A c : (CodeKnown(c) => CodeKnown(c)') /\ (CodeOver(c) => CodeOver(c)')
<1>0. x1 = [c \in 1..AskCodes |-> x1[c]] /\ CodeKnown(x2)
  BY DEF OverInv
<1>1. CASE UNCHANGED <<x1, x2>>
  BY <1>0, <1>1 DEF CodeKnown, CodeOver
<1>2. ASSUME NEW c \in 1..AskCodes, x1[c] = "none", x2' = c,
             x1' = [d \in 1..AskCodes |-> IF d = c THEN "live" ELSE IF d = x2 /\ x1[d] = "live" THEN "revoked" ELSE x1[d]]
      PROVE  /\ x1' = [d \in 1..AskCodes |-> x1'[d]] /\ CodeKnown(x2)'
             /\ \A d : (CodeKnown(d) => CodeKnown(d)') /\ (CodeOver(d) => CodeOver(d)')
  BY <1>0, <1>2 DEF CodeKnown, CodeOver
<1>3. ASSUME NEW c \in 1..AskCodes, NEW to \in {"used", "expired", "revoked"}, x1[c] = "live", x1' = [x1 EXCEPT ![c] = to], x2' = x2
      PROVE  /\ x1' = [d \in 1..AskCodes |-> x1'[d]] /\ CodeKnown(x2)'
             /\ \A d : (CodeKnown(d) => CodeKnown(d)') /\ (CodeOver(d) => CodeOver(d)')
  <2>1. x1' = [d \in 1..AskCodes |-> IF d = c THEN to ELSE x1[d]]
    BY <1>0, <1>3
  <2>2. to # "none" /\ to # "live"
    OBVIOUS
  <2> QED
    BY <1>0, <1>3, <2>1, <2>2 DEF CodeKnown, CodeOver
<1> QED
  BY <1>1, <1>2, <1>3

LEMMA OverStep == WatchInv /\ OverInv /\ [SetupSite!Next]_(SetupSite!vars) => OverInv'
<1> SUFFICES ASSUME WatchInv, OverInv, [SetupSite!Next]_(SetupSite!vars) PROVE OverInv'
  OBVIOUS
<1>a. /\ x6 = [p \in AskTimers |-> x6[p]]
      /\ \A p \in AskTimers : x6[p] = [at |-> x6[p].at, for |-> x6[p].for, ans |-> x6[p].ans]
      /\ x3 = [at |-> x3.at, issued |-> x3.issued, ticks |-> x3.ticks, paused |-> x3.paused]
  BY DEF WatchInv
<1>b. /\ x1 = [c \in 1..AskCodes |-> x1[c]] /\ CodeKnown(x2)
      /\ CodeKnown(x3.issued) /\ (x4.at = "code" => CodeKnown(x4.code))
      /\ x5 = [at |-> x5.at, for |-> x5.for, ans |-> x5.ans]
      /\ x5.at # "none" => CodeKnown(x5.for)
      /\ x5.at = "done" => CodeOver(x5.for)
      /\ \A p \in AskTimers : /\ x6[p].at # "none" => CodeKnown(x6[p].for)
                              /\ x6[p].at = "done" /\ x6[p].ans # "live" => CodeOver(x6[p].for)
      /\ CodeOver(x8)
  BY DEF OverInv
<1> DEFINE Codes == \/ UNCHANGED <<x1, x2>>
                    \/ \E c \in 1..AskCodes :
                         /\ x1[c] = "none" /\ x2' = c
                         /\ x1' = [d \in 1..AskCodes |-> IF d = c THEN "live" ELSE IF d = x2 /\ x1[d] = "live" THEN "revoked" ELSE x1[d]]
                    \/ x2' = x2 /\ \E c \in 1..AskCodes, to \in {"used", "expired", "revoked"} : x1[c] = "live" /\ x1' = [x1 EXCEPT ![c] = to]
           P3 == x3'.issued = x3.issued \/ \E c : x3'.issued = c /\ CodeKnown(c)'
           P4 == x4' = x4 \/ x4'.at # "code" \/ \E c : x4'.code = c /\ CodeKnown(c)'
           P5 == \/ x5' = x5
                 \/ \E a, c, s : /\ x5' = [at |-> a, for |-> c, ans |-> s]
                                 /\ (a # "none" => CodeKnown(c)')
                                 /\ (a = "done" => CodeOver(c)')
           Q(p) == \/ x6'[p] = x6[p] \/ x6'[p].at = "none"
                   \/ \E c : /\ x6'[p].for = c
                             /\ CodeKnown(c)'
                             /\ (x6'[p].at = "done" /\ x6'[p].ans # "live" => CodeOver(c)')
           P8 == x8' = x8 \/ \E c : x8' = c /\ CodeOver(c)'
<1>1. ASSUME Codes, P3, P4, P5, \A p \in AskTimers : Q(p), P8
      PROVE  OverInv'
  <2>1. /\ x1' = [c \in 1..AskCodes |-> x1'[c]] /\ CodeKnown(x2)'
        /\ \A c : (CodeKnown(c) => CodeKnown(c)') /\ (CodeOver(c) => CodeOver(c)')
    BY <1>1, CodesStay
  <2>2. (CodeKnown(x3.issued))'
    <3> PICK c : c = x3.issued
      OBVIOUS
    <3>1. CodeKnown(c)'
      BY <1>b, <2>1
    <3> QED
      BY <1>1, <3>1 DEF CodeKnown
  <2>3. (x4.at = "code" => CodeKnown(x4.code))'
    <3> PICK c : c = x4.code
      OBVIOUS
    <3>1. x4.at = "code" => CodeKnown(c)'
      BY <1>b, <2>1
    <3> QED
      BY <1>1, <3>1 DEF CodeKnown
  <2>4. (/\ x5 = [at |-> x5.at, for |-> x5.for, ans |-> x5.ans]
         /\ x5.at # "none" => CodeKnown(x5.for)
         /\ x5.at = "done" => CodeOver(x5.for))'
    <3> PICK c : c = x5.for
      OBVIOUS
    <3>1. (x5.at # "none" => CodeKnown(c)') /\ (x5.at = "done" => CodeOver(c)')
      BY <1>b, <2>1
    <3>2. CASE x5' = x5
      BY <1>b, <3>1, <3>2 DEF CodeKnown, CodeOver
    <3>3. CASE x5' # x5
      <4>1. PICK a, d, s : /\ x5' = [at |-> a, for |-> d, ans |-> s]
                           /\ (a # "none" => CodeKnown(d)')
                           /\ (a = "done" => CodeOver(d)')
        BY <1>1, <3>3
      <4> QED
        BY <4>1 DEF CodeKnown, CodeOver
    <3> QED
      BY <3>2, <3>3
  <2>5. (\A p \in AskTimers : /\ x6[p].at # "none" => CodeKnown(x6[p].for)
                              /\ x6[p].at = "done" /\ x6[p].ans # "live" => CodeOver(x6[p].for))'
    <3> SUFFICES ASSUME NEW p \in AskTimers
                 PROVE  (/\ x6[p].at # "none" => CodeKnown(x6[p].for)
                         /\ x6[p].at = "done" /\ x6[p].ans # "live" => CodeOver(x6[p].for))'
      OBVIOUS
    <3>1. Q(p)
      BY <1>1
    <3> PICK c : c = x6[p].for
      OBVIOUS
    <3>2. (x6[p].at # "none" => CodeKnown(c)') /\ (x6[p].at = "done" /\ x6[p].ans # "live" => CodeOver(c)')
      BY <1>b, <2>1
    <3> QED
      BY <3>1, <3>2 DEF CodeKnown, CodeOver
  <2>6. (CodeOver(x8))'
    <3> PICK c : c = x8
      OBVIOUS
    <3>1. CodeOver(c)'
      BY <1>b, <2>1
    <3> QED
      BY <1>1, <3>1 DEF CodeOver
  <2> HIDE DEF Codes, P3, P4, P5, Q, P8
  <2> QED
    BY <2>1, <2>2, <2>3, <2>4, <2>5, <2>6 DEF OverInv
<1>2. ASSUME NEW p \in AskTimers, NEW a, NEW f, NEW s,
             x6' = [q \in AskTimers |-> IF q = p THEN [at |-> a, for |-> f, ans |-> s] ELSE x6[q]],
             a = "none" \/ (CodeKnown(f)' /\ (a = "done" /\ s # "live" => CodeOver(f)'))
      PROVE  \A q \in AskTimers : Q(q)
  BY <1>2
\* A timer that is cleared asks nothing.
<1>3. \A p \in AskTimers : SetupSite!Cleared[p] = x6[p] \/ SetupSite!Cleared[p].at = "none"
  <2>1. CASE x7 # 0 /\ x6[x7].at = "timer"
    <3>1. SetupSite!Cleared = [x6 EXCEPT ![x7] = [at |-> "none", for |-> 0, ans |-> "none"]]
      BY <2>1 DEF SetupSite!Cleared, SetupSite!NoReq, SetupSite!None
    <3> QED
      BY <1>a, <3>1
  <2>2. CASE ~(x7 # 0 /\ x6[x7].at = "timer")
    BY <2>2 DEF SetupSite!Cleared, SetupSite!None
  <2> QED
    BY <2>1, <2>2
<1>4. ASSUME UNCHANGED <<x1, x2>> PROVE \A c : (CodeKnown(c) => CodeKnown(c)') /\ (CodeOver(c) => CodeOver(c)')
  BY <1>4 DEF CodeKnown, CodeOver
<1>5. CodeKnown(0)' /\ CodeOver(0)'
  BY DEF CodeKnown, CodeOver
<1>6. ASSUME NEW b, SetupSite!Wiped(b), UNCHANGED <<x1, x2, x4>>, P5, P8 PROVE OverInv'
  <2>1. (\A p \in AskTimers : Q(p)) /\ P3
    BY <1>3, <1>5, <1>6 DEF SetupSite!Wiped, SetupSite!None
  <2> QED
    BY <1>1, <1>6, <2>1
<1>7. CASE SetupSite!ServePost
  <2>1. UNCHANGED <<x3, x5, x6, x8>>
    BY <1>7 DEF SetupSite!ServePost
  <2>2. CASE UNCHANGED <<x1, x2>> /\ x4'.at # "code"
    BY <1>1, <2>1, <2>2
  <2>3. CASE \E c \in 1..AskCodes :
          /\ x1[c] = "none" /\ \A d \in 1..(c - 1) : x1[d] # "none"
          /\ x1' = [d \in 1..AskCodes |-> IF d = c THEN "live" ELSE IF d = x2 /\ x1[d] = "live" THEN "revoked" ELSE x1[d]]
          /\ x2' = c /\ x4' \in {[at |-> "code", code |-> c], [at |-> "failed", code |-> 0]}
    <3>1. PICK c \in 1..AskCodes :
          /\ x1[c] = "none"
          /\ x1' = [d \in 1..AskCodes |-> IF d = c THEN "live" ELSE IF d = x2 /\ x1[d] = "live" THEN "revoked" ELSE x1[d]]
          /\ x2' = c /\ x4' \in {[at |-> "code", code |-> c], [at |-> "failed", code |-> 0]}
      BY <2>3
    <3>2. Codes
      BY <3>1
    <3>3. CodeKnown(c)'
      BY <3>1 DEF CodeKnown
    <3>4. P4
      BY <3>1, <3>3
    <3> HIDE DEF Codes
    <3> QED
      BY <1>1, <2>1, <3>2, <3>4
  <2> QED
    BY <1>7, <2>2, <2>3 DEF SetupSite!ServePost, SetupSite!None, SetupSite!server
<1>8. CASE SetupSite!Elsewhere
  <2>1. Codes /\ UNCHANGED <<x3, x4, x5, x6, x8>>
    BY <1>8 DEF SetupSite!Elsewhere, SetupSite!server
  <2> QED
    BY <1>1, <2>1
<1>9. CASE SetupSite!UsedOrOver
  <2>1. Codes /\ UNCHANGED <<x3, x4, x5, x6, x8>>
    BY <1>9 DEF SetupSite!UsedOrOver, SetupSite!server
  <2> QED
    BY <1>1, <2>1
\* A question's answer is about the member's code.
<1>10. ASSUME NEW p \in AskTimers, SetupSite!ServePoll(p) PROVE OverInv'
  <2>1. UNCHANGED <<x1, x2, x3, x4, x5, x8>> /\ x6[p].at = "sent"
    BY <1>10 DEF SetupSite!ServePoll, SetupSite!server
  <2>2. PICK a0, f, s0 : x6[p] = [at |-> a0, for |-> f, ans |-> s0] /\ f = x6[p].for
    BY <1>a
  <2>3. CodeKnown(f)
    BY <1>b, <2>1, <2>2
  <2>4. CASE x6' = [x6 EXCEPT ![p].at = "failed"]
    <3>1. x6' = [q \in AskTimers |-> IF q = p THEN [at |-> "failed", for |-> f, ans |-> s0] ELSE x6[q]]
      BY <1>a, <2>2, <2>4
    <3>2. \A q \in AskTimers : Q(q)
      BY <1>2, <1>4, <2>1, <2>3, <3>1
    <3> HIDE DEF Q
    <3> QED
      BY <1>1, <2>1, <3>2
  <2>5. CASE ~(x6' = [x6 EXCEPT ![p].at = "failed"])
    <3> PICK s : s = IF x2 = 0 THEN "expired" ELSE x1[x2]
      OBVIOUS
    <3>1. x6' = [x6 EXCEPT ![p].at = "done", ![p].ans = s]
      BY <1>10, <2>5 DEF SetupSite!ServePoll, SetupSite!None
    <3> DEFINE one == [x6[p] EXCEPT !.at = "done"]
    <3>3. one = [at |-> "done", for |-> f, ans |-> s0]
      BY <2>2
    <3>4. [one EXCEPT !.ans = s] = [at |-> "done", for |-> f, ans |-> s]
      <4> HIDE DEF one
      <4> QED
        BY <3>3
    <3>5. x6' = [q \in AskTimers |-> IF q = p THEN [one EXCEPT !.ans = s] ELSE x6[q]]
      BY <1>a, <3>1
    <3>6. x6' = [q \in AskTimers |-> IF q = p THEN [at |-> "done", for |-> f, ans |-> s] ELSE x6[q]]
      <4> HIDE DEF one
      <4> QED
        BY <3>4, <3>5
    <3>7. s # "live" => CodeOver(f)
      BY <1>b, <2>3 DEF CodeKnown, CodeOver
    <3>8. \A q \in AskTimers : Q(q)
      BY <1>2, <1>4, <2>1, <2>3, <3>6, <3>7
    <3> HIDE DEF Q
    <3> QED
      BY <1>1, <2>1, <3>8
  <2> QED
    BY <2>4, <2>5
<1>11. CASE SetupSite!ServeCancel
  <2>1. UNCHANGED <<x2, x3, x4, x6, x8>> /\ x5.at = "sent"
    BY <1>11 DEF SetupSite!ServeCancel, SetupSite!server
  <2>2. PICK f, s0 : x5 = [at |-> "sent", for |-> f, ans |-> s0] /\ f = x5.for
    BY <1>b, <2>1
  <2>3. CodeKnown(f)
    BY <1>b, <2>1, <2>2
  <2> DEFINE live == x2 # 0 /\ x1[x2] = "live"
  <2>4. Codes /\ (x1' = x1 \/ (live /\ x1' = [x1 EXCEPT ![x2] = "revoked"]))
    BY <1>b, <1>11 DEF SetupSite!ServeCancel, SetupSite!None, CodeKnown
  <2>5. \A c : (CodeKnown(c) => CodeKnown(c)')
    <3> HIDE DEF Codes
    <3> QED
      BY <2>4, CodesStay DEF Codes
  <2>6. PICK a, s : /\ x5' = [at |-> a, for |-> f, ans |-> s] /\ a \in {"done", "failed"}
                    /\ (a = "done" => x1' = IF live THEN [x1 EXCEPT ![x2] = "revoked"] ELSE x1)
    <3>1. CASE x5' = [x5 EXCEPT !.at = "failed"]
      <4>1. x5' = [at |-> "failed", for |-> f, ans |-> s0]
        BY <2>2, <3>1
      <4> PICK a : a = "failed"
        OBVIOUS
      <4>2. x5' = [at |-> a, for |-> f, ans |-> s0] /\ a \in {"done", "failed"} /\ a # "done"
        BY <4>1
      <4> QED
        BY <4>2
    <3>2. CASE x5' # [x5 EXCEPT !.at = "failed"]
      <4> PICK s : s = IF live THEN "revoked" ELSE "expired"
        OBVIOUS
      <4>1. x5' = [x5 EXCEPT !.at = "done", !.ans = s] /\ x1' = IF live THEN [x1 EXCEPT ![x2] = "revoked"] ELSE x1
        BY <1>11, <3>2 DEF SetupSite!ServeCancel, SetupSite!None
      <4> DEFINE one == [x5 EXCEPT !.at = "done"]
      <4>2. one = [at |-> "done", for |-> f, ans |-> s0]
        BY <2>2
      <4>3. [one EXCEPT !.ans = s] = [at |-> "done", for |-> f, ans |-> s]
        <5> HIDE DEF one
        <5> QED
          BY <4>2
      <4>4. x5' = [at |-> "done", for |-> f, ans |-> s]
        BY <4>1, <4>3
      <4> QED
        BY <4>1, <4>4
    <3> QED
      BY <3>1, <3>2
  <2>7. a = "done" => CodeOver(f)'
    <3>1. CASE live
      BY <1>b, <2>1, <2>3, <2>6, <3>1 DEF CodeKnown, CodeOver
    <3>2. CASE ~live
      BY <1>b, <2>1, <2>3, <2>6, <3>2 DEF CodeKnown, CodeOver
    <3> QED
      BY <3>1, <3>2
  <2>8. P5
    BY <2>3, <2>5, <2>6, <2>7
  <2> HIDE DEF Codes, P5
  <2> QED
    BY <1>1, <2>1, <2>4, <2>8
<1>12. CASE SetupSite!Load
  <2>1. UNCHANGED <<x1, x2, x4, x5, x6, x8>> /\ x3'.issued = x3.issued
    BY <1>a, <1>12 DEF SetupSite!Load, SetupSite!server
  <2> QED
    BY <1>1, <2>1
<1>13. CASE SetupSite!GetCode
  <2>1. UNCHANGED <<x1, x2, x3, x5, x6, x8>> /\ x4'.at = "sent"
    BY <1>13 DEF SetupSite!GetCode, SetupSite!NoPost, SetupSite!server
  <2> QED
    BY <1>1, <2>1
<1>14. CASE SetupSite!CodeArrives
  <2>1. UNCHANGED <<x1, x2, x5, x8>> /\ x4'.at = "none"
    BY <1>14 DEF SetupSite!CodeArrives, SetupSite!NoPost, SetupSite!server
  <2>2. (\A p \in AskTimers : Q(p)) /\ P3
    <3>1. CASE x4.at = "code"
      <4>1. PICK p \in AskTimers : /\ x6' = [SetupSite!Cleared EXCEPT ![p] = [at |-> "timer", for |-> 0, ans |-> "none"]]
                                   /\ x3' = [x3 EXCEPT !.at = "code", !.issued = x4.code, !.ticks = TRUE]
        BY <1>14, <3>1 DEF SetupSite!CodeArrives, SetupSite!NoReq, SetupSite!None
      <4>2. x3'.issued = x4.code
        BY <1>a, <4>1
      <4>3. \A q \in AskTimers : q # p => x6'[q] = SetupSite!Cleared[q]
        BY <4>1
      <4>4. x6'[p] = [at |-> "timer", for |-> 0, ans |-> "none"] \/ x6'[p] = SetupSite!Cleared[p]
        BY <4>1
      <4> PICK c : c = x4.code
        OBVIOUS
      <4>5. CodeKnown(c)'
        BY <1>4, <1>b, <2>1, <3>1
      <4> QED
        BY <1>3, <1>5, <4>2, <4>3, <4>4, <4>5
    <3>2. CASE x4.at = "paused"
      BY <1>3, <1>5, <1>14, <3>2 DEF SetupSite!CodeArrives, SetupSite!Wiped, SetupSite!None
    <3>3. CASE x4.at = "terms"
      <4>1. x6' = x6 /\ x3'.issued = x3.issued
        BY <1>a, <1>14, <3>3 DEF SetupSite!CodeArrives
      <4> QED
        BY <4>1
    <3>4. CASE x4.at \notin {"code", "paused", "terms"}
      BY <1>14, <3>4 DEF SetupSite!CodeArrives
    <3> QED
      BY <3>1, <3>2, <3>3, <3>4
  <2> HIDE DEF Q, P3
  <2> QED
    BY <1>1, <2>1, <2>2
<1>15. CASE SetupSite!Tick
  <2>1. /\ SetupSite!Wiped(x3.paused) /\ x3.issued # 0 /\ x1[x3.issued] # "live" /\ x8' = x3.issued
        /\ UNCHANGED <<x1, x2, x4, x5>>
    BY <1>15 DEF SetupSite!Tick, SetupSite!Ends, SetupSite!None, SetupSite!server
  <2>2. CodeOver(x3.issued)
    BY <1>b, <2>1 DEF CodeKnown, CodeOver
  <2> PICK c : c = x3.issued
    OBVIOUS
  <2>3. P8
    BY <1>4, <2>1, <2>2
  <2> QED
    BY <1>6, <2>1, <2>3
<1>16. ASSUME NEW p \in AskTimers, SetupSite!Ask(p) PROVE OverInv'
  <2>1. UNCHANGED <<x1, x2, x3, x4, x5, x8>>
    BY <1>16 DEF SetupSite!Ask, SetupSite!server
  <2>2. PICK a, f : /\ x6' = [q \in AskTimers |-> IF q = p THEN [at |-> a, for |-> f, ans |-> "none"] ELSE x6[q]]
                    /\ a = "none" \/ (a = "sent" /\ f = x3.issued)
    <3>1. CASE x3.issued = 0
      <4>1. x6' = [q \in AskTimers |-> IF q = p THEN [at |-> "none", for |-> 0, ans |-> "none"] ELSE x6[q]]
        BY <1>a, <1>16, <3>1 DEF SetupSite!Ask, SetupSite!NoReq, SetupSite!None
      <4> QED
        BY <4>1
    <3>2. CASE x3.issued # 0
      <4> PICK f : f = x3.issued
        OBVIOUS
      <4> DEFINE one == [SetupSite!NoReq EXCEPT !.at = "sent"]
      <4>1. one = [at |-> "sent", for |-> 0, ans |-> "none"]
        BY DEF SetupSite!NoReq, SetupSite!None
      <4>2. [one EXCEPT !.for = f] = [at |-> "sent", for |-> f, ans |-> "none"]
        <5> HIDE DEF one
        <5> QED
          BY <4>1
      <4>3. x6' = [q \in AskTimers |-> IF q = p THEN [one EXCEPT !.for = f] ELSE x6[q]]
        BY <1>a, <1>16, <3>2 DEF SetupSite!Ask, SetupSite!None
      <4>4. x6' = [q \in AskTimers |-> IF q = p THEN [at |-> "sent", for |-> f, ans |-> "none"] ELSE x6[q]]
        <5> HIDE DEF one
        <5> QED
          BY <4>2, <4>3
      <4> QED
        BY <4>4
    <3> QED
      BY <3>1, <3>2
  <2>3. a = "none" \/ (CodeKnown(f)' /\ a = "sent")
    BY <1>4, <1>b, <2>1, <2>2
  <2>4. \A q \in AskTimers : Q(q)
    BY <1>2, <2>2, <2>3
  <2> HIDE DEF Q
  <2> QED
    BY <1>1, <2>1, <2>4
<1>17. ASSUME NEW p \in AskTimers, SetupSite!Rearm(p) \/ SetupSite!Drop(p), UNCHANGED <<x1, x2, x3, x4, x5, x8>> PROVE OverInv'
  <2>1. PICK a \in {"timer", "none"} : x6' = [q \in AskTimers |-> IF q = p THEN [at |-> a, for |-> 0, ans |-> "none"] ELSE x6[q]]
    BY <1>a, <1>17 DEF SetupSite!Rearm, SetupSite!Drop, SetupSite!NoReq, SetupSite!None
  <2>2. \A q \in AskTimers : Q(q)
    BY <1>2, <1>5, <2>1
  <2> HIDE DEF Q
  <2> QED
    BY <1>1, <1>17, <2>2
<1>18. ASSUME NEW p \in AskTimers, SetupSite!PollFails(p) PROVE OverInv'
  BY <1>17, <1>18 DEF SetupSite!PollFails, SetupSite!AfterFail, SetupSite!server
<1>19. ASSUME NEW p \in AskTimers, SetupSite!PollArrives(p) PROVE OverInv'
  <2>1. UNCHANGED <<x1, x2, x4, x5>> /\ x6[p].at = "done"
    BY <1>19 DEF SetupSite!PollArrives, SetupSite!server
  <2>2. CASE x3.issued = 0 \/ x6[p].ans = "live"
    BY <1>17, <1>19, <2>1, <2>2 DEF SetupSite!PollArrives, SetupSite!None, SetupSite!server
  <2>3. CASE x3.issued # 0 /\ x6[p].ans # "live"
    <3>1. /\ x3' = [at |-> "start", issued |-> 0, ticks |-> FALSE, paused |-> x3.paused]
          /\ x6' = [SetupSite!Cleared EXCEPT ![p] = [at |-> "none", for |-> 0, ans |-> "none"]]
          /\ x8' = IF x6[p].for = x3.issued THEN x3.issued ELSE 0
      BY <1>19, <2>3 DEF SetupSite!PollArrives, SetupSite!NoReq, SetupSite!None
    <3>2. CodeOver(x6[p].for)
      BY <1>b, <2>1, <2>3
    <3> PICK c : c = x8'
      OBVIOUS
    <3>3. CodeOver(c)'
      <4>1. c = 0 \/ c = x6[p].for
        BY <3>1
      <4>2. CodeOver(c)
        BY <3>2, <4>1 DEF CodeOver
      <4> QED
        BY <1>4, <2>1, <4>2
    <3>4. P8 /\ P3
      BY <1>5, <3>1, <3>3
    <3>5. \A q \in AskTimers : Q(q)
      <4>1. \A q \in AskTimers : q # p => x6'[q] = SetupSite!Cleared[q]
        BY <3>1
      <4>2. x6'[p] = [at |-> "none", for |-> 0, ans |-> "none"] \/ x6'[p] = SetupSite!Cleared[p]
        BY <3>1
      <4> QED
        BY <1>3, <4>1, <4>2
    <3> HIDE DEF Q, P3, P8
    <3> QED
      BY <1>1, <2>1, <3>4, <3>5
  <2> QED
    BY <2>2, <2>3
<1>20. CASE SetupSite!CancelCode
  <2>1. UNCHANGED <<x1, x2, x3, x4, x6, x8>>
    BY <1>20 DEF SetupSite!CancelCode, SetupSite!server
  <2> PICK f : f = x3.issued
    OBVIOUS
  <2> DEFINE one == [SetupSite!NoReq EXCEPT !.at = "sent"]
  <2>2. one = [at |-> "sent", for |-> 0, ans |-> "none"]
    BY DEF SetupSite!NoReq, SetupSite!None
  <2>3. [one EXCEPT !.for = f] = [at |-> "sent", for |-> f, ans |-> "none"]
    <3> HIDE DEF one
    <3> QED
      BY <2>2
  <2>4. x5' = [one EXCEPT !.for = f]
    BY <1>20 DEF SetupSite!CancelCode, SetupSite!server
  <2>5. x5' = [at |-> "sent", for |-> f, ans |-> "none"]
    <3> HIDE DEF one
    <3> QED
      BY <2>3, <2>4
  <2> PICK a, s : a = "sent" /\ s = "none"
    OBVIOUS
  <2>7. x5' = [at |-> a, for |-> f, ans |-> s] /\ CodeKnown(f)' /\ a # "done"
    BY <1>4, <1>b, <2>1, <2>5
  <2>6. P5
    BY <2>7
  <2> HIDE DEF P5
  <2> QED
    BY <1>1, <2>1, <2>6
<1>21. CASE SetupSite!CancelArrives
  <2>1. UNCHANGED <<x1, x2, x4>> /\ x5' = [at |-> "none", for |-> 0, ans |-> "none"]
    BY <1>21 DEF SetupSite!CancelArrives, SetupSite!NoReq, SetupSite!None, SetupSite!server
  <2> PICK a, s, f : a = "none" /\ s = "none" /\ f = 0
    OBVIOUS
  <2>5. x5' = [at |-> a, for |-> f, ans |-> s] /\ a # "done"
    BY <2>1
  <2>2. P5
    BY <2>5
  <2>3. CASE x5.at = "done"
    <3>1. SetupSite!Wiped(x3.paused) /\ x8' = IF x5.for = x3.issued THEN x5.for ELSE 0
      BY <1>21, <2>3 DEF SetupSite!CancelArrives, SetupSite!SaysEnd, SetupSite!Ends, SetupSite!None
    <3> PICK c : c = x8'
      OBVIOUS
    <3>2. CodeOver(c)'
      <4>1. CodeOver(c)
        BY <1>b, <2>3, <3>1 DEF CodeOver
      <4> QED
        BY <1>4, <2>1, <4>1
    <3>3. P8
      BY <3>2
    <3> QED
      BY <1>6, <2>1, <2>2, <3>1, <3>3
  <2>4. CASE x5.at # "done"
    <3>1. UNCHANGED <<x3, x6, x8>>
      BY <1>21, <2>4 DEF SetupSite!CancelArrives, SetupSite!SaysEnd
    <3> QED
      BY <1>1, <2>1, <2>2, <3>1
  <2> QED
    BY <2>3, <2>4
<1>22. CASE SetupSite!Hide
  <2>1. SetupSite!Wiped(x3.paused) /\ UNCHANGED <<x1, x2, x4, x5, x8>>
    BY <1>22 DEF SetupSite!Hide, SetupSite!server
  <2> QED
    BY <1>6, <2>1
<1>23. CASE UNCHANGED SetupSite!vars
  BY <1>1, <1>23 DEF SetupSite!vars
<1> QED
  BY <1>7, <1>8, <1>9, <1>10, <1>11, <1>12, <1>13, <1>14, <1>15, <1>16, <1>18, <1>19, <1>20, <1>21, <1>22, <1>23 DEF SetupSite!Next

LEMMA AskSafe == WatchInv /\ OverInv => SetupSite!Watched /\ SetupSite!OverIsOver
BY DEF WatchInv, OverInv, CodeOver, SetupSite!Watched, SetupSite!OverIsOver, SetupSite!None

--------------------------------------------------------------------------------
(***************************************************************************)
(* That the key of a recovery which is still to be opened is kept, and     *)
(* that a code is shown of a recovery that is available, for any tabs and  *)
(* bounds.  (RecoveryPage: rec is x1, keys x2, load x3, op x4, page x5,    *)
(* astray x6, made x7, elsewhere x8, faults x9, now x10.)  What a load has *)
(* seen is no newer than the recovery and, if it is the same, says so with *)
(* its key and time; a key whose request is not answered yet is stored, or *)
(* known to be astray, and no recovery has it; what a cancel or a refusal  *)
(* is about to drop is not the key of a recovery that is still to be       *)
(* opened.                                                                 *)
(***************************************************************************)
CONSTANTS PageKeys, PageOthers, PageFaults, PageTime           \* keys made here, recoveries requested elsewhere, faults, time

Page == INSTANCE RecoveryPage WITH
               Tabs <- One, MaxRequests <- PageKeys, MaxElsewhere <- PageOthers, MaxFaults <- PageFaults, MaxTime <- PageTime,
               rec <- x1, keys <- x2, load <- x3, op <- x4, page <- x5, astray <- x6, made <- x7,
               elsewhere <- x8, faults <- x9, now <- x10

\* Still to be opened.
ToOpen == {"pending", "available"}

RecKnown ==
  /\ x1 = [n |-> x1.n, state |-> x1.state, at |-> x1.at, key |-> x1.key]
  /\ x7 \in Nat /\ x10 \in Nat /\ x1.n \in Nat /\ x1.at \in Nat /\ x1.key \in 0..x7
  /\ Page!Active(x1) => x1.n # 0
  /\ x1.n = 0 => x1.key = 0 /\ x1.at = 0

Fits(r) ==
  /\ r.n \in Nat /\ r.n <= x1.n /\ r.key \in 0..x7
  /\ r.n = x1.n => r.key = x1.key /\ r.at = x1.at /\ (x1.state \in ToOpen => r.state \in ToOpen)
  /\ r.key # 0 /\ r.key = x1.key => r.n = x1.n
  /\ Page!Active(r) => r.n # 0

LoadsFit ==
  /\ x3 = [t \in One |-> x3[t]]
  /\ \A t \in One : x3[t] = [at |-> x3[t].at, seen |-> x3[t].seen] /\ Fits(x3[t].seen)

DrawnRec(r)  == r.n \in Nat /\ r.n <= x1.n /\ (Page!Active(r) => r.n # 0)
DrawnPage(r, v, b) == (b => v = "code") /\ (v = "code" => r.state = "available")

PagesFit ==
  /\ x5 = [t \in One |-> x5[t]]
  /\ \A t \in One : /\ x5[t] = [rec |-> x5[t].rec, view |-> x5[t].view, shown |-> x5[t].shown]
                    /\ DrawnRec(x5[t].rec) /\ DrawnPage(x5[t].rec, x5[t].view, x5[t].shown)

KeysKnown ==
  /\ \A k \in x2 : k = [key |-> k.key, n |-> k.n, at |-> k.at] /\ k.key \in 1..x7 /\ k.at \in Nat
  /\ \A k, l \in x2 : k.key = l.key => k = l

\* No recovery has the key, and no load has seen one.
Unused(c) == c # x1.key /\ \A t \in One : c # x3[t].seen.key

OfKey == {"post", "bind", "drop"}

OpFits(o) ==
  /\ o.key \in 0..x7 /\ o.n \in Nat /\ (o.at \in OfKey <=> o.key # 0)
  /\ o.at = "post" => o.n = 0 /\ (o.key \in x6 \/ \E k \in x2 : k.key = o.key /\ k.n = 0 /\ k.at = x10)
  /\ o.at = "post" \/ (o.at = "drop" /\ o.n = 0) => Unused(o.key)
  /\ o.at = "bind" /\ o.key = x1.key => o.n = x1.n
  /\ o.at \in {"cancel", "gone", "check"} => o.n # 0 /\ o.n <= x1.n
  /\ o.at = "gone" /\ o.n = x1.n => x1.state \notin ToOpen

OpsFit ==
  /\ x4 = [t \in One |-> x4[t]]
  /\ \A t \in One : x4[t] = [at |-> x4[t].at, key |-> x4[t].key, n |-> x4[t].n] /\ OpFits(x4[t])
  /\ \A t, u \in One : x4[t].key # 0 /\ x4[t].key = x4[u].key => t = u

PageInv == RecKnown /\ LoadsFit /\ PagesFit /\ KeysKnown /\ OpsFit /\ Page!KeyKept

LEMMA PageInit == Page!Init => PageInv
<1> SUFFICES ASSUME Page!Init PROVE PageInv
  OBVIOUS
<1>1. /\ x1 = [n |-> 0, state |-> "none", at |-> 0, key |-> 0] /\ x2 = {} /\ x7 = 0 /\ x10 = 0
      /\ x3 = [t \in One |-> [at |-> "idle", seen |-> x1]]
      /\ x4 = [t \in One |-> [at |-> "idle", key |-> 0, n |-> 0]]
      /\ x5 = [t \in One |-> [rec |-> x1, view |-> "loading", shown |-> FALSE]]
  BY DEF Page!Init, Page!NoRec, Page!NoLoad, Page!NoOp, Page!Unloaded
<1>2. RecKnown /\ LoadsFit /\ KeysKnown /\ Page!KeyKept
  BY <1>1 DEF RecKnown, LoadsFit, KeysKnown, Fits, Page!KeyKept, Page!Active, ToOpen
<1>3. PagesFit
  BY <1>1 DEF PagesFit, DrawnRec, DrawnPage, Page!Active
<1>4. OpsFit
  BY <1>1 DEF OpsFit, OpFits, OfKey, Unused, ToOpen
<1> QED
  BY <1>2, <1>3, <1>4 DEF PageInv

\* One tab's load becomes another: of nothing, of what it saw, or of what there is.
LEMMA LoadStep ==
  ASSUME PageInv, NEW t \in One, NEW a, NEW s, x3' = [u \in One |-> IF u = t THEN [at |-> a, seen |-> s] ELSE x3[u]],
         s \in {x3[t].seen, Page!NoRec, x1}, x1' = x1, x7' = x7
  PROVE  LoadsFit' /\ \A c : c # 0 /\ Unused(c) => Unused(c)'
<1>1. Fits(x1) /\ Fits(Page!NoRec)
  BY DEF PageInv, RecKnown, Fits, Page!NoRec, Page!Active, ToOpen
<1>2. Fits(s)
  BY <1>1 DEF PageInv, LoadsFit
<1>3. LoadsFit'
  BY <1>2 DEF PageInv, LoadsFit, Fits, Page!Active
<1>4. Page!NoRec.key = 0
  BY DEF Page!NoRec
<1> QED
  BY <1>3, <1>4 DEF Unused

\* One tab draws what is a recovery, or has been.
LEMMA DrawStep ==
  ASSUME PageInv, NEW t \in One, NEW r, NEW v, NEW b, x1' = x1,
         x5' = [u \in One |-> IF u = t THEN [rec |-> r, view |-> v, shown |-> b] ELSE x5[u]],
         DrawnRec(r), DrawnPage(r, v, b)
  PROVE  PagesFit'
BY DEF PageInv, PagesFit, DrawnRec, DrawnPage

\* What a request under way is stays so.
LEMMA OpKept ==
  ASSUME PageInv, x7' \in Nat, x7 <= x7', x6 \subseteq x6', x10' = x10, x1'.n \in Nat,
         \/ x1'.n = x1.n /\ x1'.key = x1.key /\ (x1'.state \in ToOpen => x1.state \in ToOpen)
         \/ x1'.n = x1.n + 1,
         NEW o, OpFits(o),
         x1'.n = x1.n \/ o.key = 0 \/ o.key # x1'.key,
         o.at = "post" => \A k \in x2 : k.key = o.key /\ k.n = 0 => k \in x2' \/ o.key \in x6',
         o.key # 0 /\ Unused(o.key) => Unused(o.key)'
  PROVE  OpFits(o)'
<1>1. RecKnown
  BY DEF PageInv
<1>2. o.at \in OfKey <=> o.key # 0
  BY DEF OpFits
<1>3. o.at = "post" => o.n = 0 /\ (o.key \in x6' \/ \E k \in x2' : k.key = o.key /\ k.n = 0 /\ k.at = x10')
  BY DEF OpFits
<1>4. o.at = "post" \/ (o.at = "drop" /\ o.n = 0) => Unused(o.key)'
  BY <1>2 DEF OpFits, OfKey
<1>5. /\ o.at = "bind" /\ o.key = x1'.key => o.n = x1'.n
      /\ o.at \in {"cancel", "gone", "check"} => o.n # 0 /\ o.n <= x1'.n
      /\ o.at = "gone" /\ o.n = x1'.n => x1'.state \notin ToOpen
      /\ o.key \in 0..x7' /\ o.n \in Nat
  BY <1>1, <1>2 DEF OpFits, RecKnown, OfKey
<1> QED
  BY <1>2, <1>3, <1>4, <1>5 DEF OpFits

\* One tab's request becomes another.
LEMMA OpStep ==
  ASSUME PageInv, NEW t \in One, NEW a, NEW c, NEW n,
         x4' = [u \in One |-> IF u = t THEN [at |-> a, key |-> c, n |-> n] ELSE x4[u]],
         \A o : o = [at |-> a, key |-> c, n |-> n] => OpFits(o)',
         \A u \in One : u # t => \A o : o = x4[u] => OpFits(o)',
         c = 0 \/ c = x4[t].key \/ c = x7 + 1
  PROVE  OpsFit'
<1>1. \A u \in One : x4[u] = [at |-> x4[u].at, key |-> x4[u].key, n |-> x4[u].n] /\ x4[u].key \in 0..x7 /\ x7 \in Nat
  BY DEF PageInv, OpsFit, OpFits, RecKnown
<1>2. x4' = [u \in One |-> x4'[u]] /\ \A u \in One : x4'[u] = [at |-> x4'[u].at, key |-> x4'[u].key, n |-> x4'[u].n]
  BY <1>1
<1>3. \A u, w \in One : x4'[u].key # 0 /\ x4'[u].key = x4'[w].key => u = w
  BY <1>1 DEF PageInv, OpsFit
<1>4. ASSUME NEW u \in One PROVE OpFits(x4[u])'
  <2> PICK o : o = x4'[u]
    OBVIOUS
  <2>1. OpFits(o)'
    <3>1. CASE u = t
      BY <3>1
    <3>2. CASE u # t
      BY <3>2
    <3> QED
      BY <3>1, <3>2
  <2> QED
    BY <2>1 DEF OpFits
<1> QED
  BY <1>2, <1>3, <1>4 DEF OpsFit

\* Nothing but a load, a page, or a request without a key changes.
LEMMA QuietStep ==
  ASSUME PageInv, UNCHANGED <<x1, x2, x6, x7, x10>>, \A c : c # 0 /\ Unused(c) => Unused(c)', NEW t \in One,
         NEW a, NEW n, a \notin OfKey, n \in Nat, a \in {"cancel", "gone", "check"} => n # 0 /\ n <= x1.n,
         a = "gone" /\ n = x1.n => x1.state \notin ToOpen,
         x4' = x4 \/ x4' = [u \in One |-> IF u = t THEN [at |-> a, key |-> 0, n |-> n] ELSE x4[u]]
  PROVE  RecKnown' /\ KeysKnown' /\ OpsFit' /\ Page!KeyKept'
<1>1. RecKnown' /\ KeysKnown' /\ Page!KeyKept'
  BY DEF PageInv, RecKnown, KeysKnown, Page!KeyKept, Page!Active
<1>2. \A u \in One : \A o : o = x4[u] => OpFits(o)'
  <2> TAKE u \in One
  <2> TAKE o
  <2> HAVE o = x4[u]
  <2>1. OpFits(o)
    BY DEF PageInv, OpsFit
  <2>2. x7 \in Nat /\ x1.n \in Nat
    BY DEF PageInv, RecKnown
  <2> QED
    BY <2>1, <2>2, OpKept
<1>3. CASE x4' = x4
  <2>1. ASSUME NEW u \in One PROVE OpFits(x4[u])'
    <3> PICK o : o = x4'[u]
      OBVIOUS
    <3>1. OpFits(o)'
      BY <1>2, <1>3
    <3> QED
      BY <3>1 DEF OpFits
  <2> QED
    BY <1>1, <1>3, <2>1 DEF PageInv, OpsFit
<1>4. CASE x4' = [u \in One |-> IF u = t THEN [at |-> a, key |-> 0, n |-> n] ELSE x4[u]]
  <2>1. \A o : o = [at |-> a, key |-> 0, n |-> n] => OpFits(o)'
    BY DEF OpFits, OfKey, PageInv, RecKnown
  <2> QED
    BY <1>1, <1>2, <1>4, <2>1, OpStep
<1> QED
  BY <1>3, <1>4

LEMMA SameOps ==
  ASSUME PageInv, x4' = x4, \A u \in One : \A o : o = x4[u] => OpFits(o)'
  PROVE  OpsFit'
<1>1. ASSUME NEW u \in One PROVE OpFits(x4[u])'
  <2> PICK o : o = x4'[u]
    OBVIOUS
  <2>1. OpFits(o)'
    OBVIOUS
  <2> QED
    BY <2>1 DEF OpFits
<1> QED
  BY <1>1 DEF PageInv, OpsFit

\* A recovery is requested: no load has seen it, and no other request has its key.
LEMMA RequestStep ==
  ASSUME PageInv, NEW c \in 0..x7, c = 0 \/ Unused(c), x1' = Page!NewRec(c), UNCHANGED <<x3, x5, x7, x10>>, x6 \subseteq x6'
  PROVE  /\ RecKnown' /\ LoadsFit' /\ PagesFit'
         /\ \A o : OpFits(o) /\ (o.key = 0 \/ o.key # c) /\ x2' = x2 => OpFits(o)'
<1>1. x1' = [n |-> x1.n + 1, state |-> "pending", at |-> x10, key |-> c] /\ x1.n \in Nat /\ x7 \in Nat /\ x10 \in Nat
  BY DEF Page!NewRec, PageInv, RecKnown
<1>2. RecKnown'
  BY <1>1 DEF RecKnown, Page!Active
<1>3. ASSUME NEW t \in One PROVE Fits(x3[t].seen)'
  <2>1. Fits(x3[t].seen) /\ (c = 0 \/ c # x3[t].seen.key)
    BY DEF PageInv, LoadsFit, Unused
  <2> QED
    BY <1>1, <2>1 DEF Fits, Page!Active
<1>4. LoadsFit'
  BY <1>3 DEF PageInv, LoadsFit
<1>5. PagesFit'
  BY <1>1 DEF PageInv, PagesFit, DrawnRec
<1>6. ASSUME NEW o, OpFits(o), o.key = 0 \/ o.key # c, x2' = x2 PROVE OpFits(o)'
  <2>1. o.key # 0 /\ Unused(o.key) => Unused(o.key)'
    BY <1>1, <1>6 DEF Unused
  <2> QED
    BY <1>1, <1>6, <2>1, OpKept
<1> QED
  BY <1>2, <1>4, <1>5, <1>6

\* The tabs' loads, pages and the requests of others, while the recovery stays or only its state moves on.
LEMMA StayStep ==
  ASSUME PageInv, UNCHANGED <<x7, x10>>, x6 \subseteq x6', x1' = [n |-> x1.n, state |-> x1'.state, at |-> x1.at, key |-> x1.key],
         x1'.state \in ToOpen => x1.state \in ToOpen, Page!Active(x1)' => Page!Active(x1)
  PROVE  /\ RecKnown' /\ (x3' = x3 => LoadsFit') /\ (x5' = x5 => PagesFit')
         /\ \A c : c # 0 /\ Unused(c) /\ x3' = x3 => Unused(c)'
         /\ \A o : /\ OpFits(o) /\ (o.key # 0 /\ Unused(o.key) => Unused(o.key)')
                   /\ o.at = "post" => \A k \in x2 : k.key = o.key /\ k.n = 0 => k \in x2' \/ o.key \in x6'
                   => OpFits(o)'
<1>1. x1.n \in Nat /\ x7 \in Nat /\ x10 \in Nat /\ x1'.n = x1.n /\ x1'.key = x1.key /\ x1'.at = x1.at
  BY DEF PageInv, RecKnown
<1>2. RecKnown'
  BY <1>1 DEF PageInv, RecKnown
<1>3. x3' = x3 => LoadsFit'
  BY <1>1 DEF PageInv, LoadsFit, Fits, Page!Active
<1>4. x5' = x5 => PagesFit'
  BY <1>1 DEF PageInv, PagesFit, DrawnRec, Page!Active
<1>5. \A c : c # 0 /\ Unused(c) /\ x3' = x3 => Unused(c)'
  BY <1>1 DEF Unused
<1>6. ASSUME NEW o, OpFits(o), o.key # 0 /\ Unused(o.key) => Unused(o.key)',
             o.at = "post" => \A k \in x2 : k.key = o.key /\ k.n = 0 => k \in x2' \/ o.key \in x6'
      PROVE  OpFits(o)'
  BY <1>1, <1>6, OpKept
<1> QED
  BY <1>2, <1>3, <1>4, <1>5, <1>6

\* A load drops the keys of other recoveries and binds the one that opens the code.
LEMMA PruneStep == \A t \in One : PageInv /\ Page!PruneAndDraw(t) => PageInv'
<1> SUFFICES ASSUME NEW t \in One, PageInv, Page!PruneAndDraw(t) PROVE PageInv'
  OBVIOUS
<1> PICK r : r = x3[t].seen
  OBVIOUS
<1> DEFINE D == Page!Dropped(r) \cup Page!GoneKeys(t)
           Img(k) == IF r.state \in {"available", "unavailable"} /\ k.n \in {0, r.n} /\ k.key = r.key
                     THEN [key |-> k.key, n |-> r.n, at |-> k.at] ELSE k
<1>1. Fits(r) /\ x1.n \in Nat /\ x7 \in Nat /\ x1.at \in Nat
  BY DEF PageInv, LoadsFit, RecKnown
<1>2. \A k \in x2 : k = [key |-> k.key, n |-> k.n, at |-> k.at] /\ k.key \in 1..x7 /\ k.at \in Nat
  BY DEF PageInv, KeysKnown
<1>3. \A k, l \in x2 : k.key = l.key => k = l
  BY DEF PageInv, KeysKnown
<1>4. D \subseteq x2
  BY DEF Page!Dropped, Page!GoneKeys
<1>5. Page!Bound(r) = {Img(k) : k \in x2}
  BY <1>2 DEF Page!Bound, Page!Candidates, Page!Opens
<1>6. x2' = {Img(k) : k \in x2} \ (D \cup {[k EXCEPT !.n = r.n] : k \in D})
  BY <1>5 DEF Page!PruneAndDraw
<1>7. \A k \in x2 : Img(k).key = k.key /\ Img(k).at = k.at /\ Img(k) = [key |-> Img(k).key, n |-> Img(k).n, at |-> Img(k).at]
                    /\ (Img(k).n = k.n \/ (k.key = r.key /\ Img(k).n = r.n))
  BY <1>2
<1>8. \A k \in D : [k EXCEPT !.n = r.n].key = k.key
  BY <1>2, <1>4
<1>9. x6' = x6 \cup {k.key : k \in {d \in D : Page!Overlaps(d.key, r)}}
  BY DEF Page!PruneAndDraw
<1>10. x1' = x1 /\ x7' = x7 /\ x10' = x10 /\ x6 \subseteq x6'
  BY <1>9 DEF Page!PruneAndDraw
<1> HIDE DEF Img, D
\* A key that is not dropped is there still.
<1>11. ASSUME NEW k \in x2, k \notin D PROVE Img(k) \in x2'
  <2>1. Img(k) \notin D
    BY <1>3, <1>4, <1>7, <1>11
  <2>2. Img(k) \notin {[d EXCEPT !.n = r.n] : d \in D}
    BY <1>3, <1>4, <1>7, <1>8, <1>11
  <2> QED
    BY <1>6, <2>1, <2>2
<1>12. ASSUME NEW k \in D, Page!Overlaps(k.key, r) PROVE k.key \in x6'
  BY <1>9, <1>12
<1>13. KeysKnown'
  <2>1. ASSUME NEW i \in x2' PROVE i = [key |-> i.key, n |-> i.n, at |-> i.at] /\ i.key \in 1..x7' /\ i.at \in Nat
    BY <1>2, <1>6, <1>7, <1>10, <2>1
  <2>2. ASSUME NEW i \in x2', NEW j \in x2', i.key = j.key PROVE i = j
    <3>1. PICK k \in x2, l \in x2 : i = Img(k) /\ j = Img(l)
      BY <1>6, <2>2
    <3>2. k = l
      BY <1>3, <1>7, <2>2, <3>1
    <3> QED
      BY <3>1, <3>2
  <2> QED
    BY <2>1, <2>2 DEF KeysKnown
<1>14. x3' = [u \in One |-> IF u = t THEN [at |-> "idle", seen |-> Page!NoRec] ELSE x3[u]]
  BY DEF Page!PruneAndDraw, Page!NoLoad, PageInv, LoadsFit
<1>15. RecKnown' /\ LoadsFit' /\ \A c : c # 0 /\ Unused(c) => Unused(c)'
  BY <1>10, <1>14, LoadStep DEF PageInv, RecKnown, Page!Active
<1>16. PagesFit'
  <2>1. x5' = [u \in One |-> IF u = t THEN [rec |-> r, view |-> Page!View(r), shown |-> FALSE] ELSE x5[u]]
    BY DEF Page!PruneAndDraw, PageInv, PagesFit
  <2>2. Page!View(r) = "code" => r.state = "available"
    BY DEF Page!View
  <2>3. DrawnRec(r)
    BY <1>1 DEF DrawnRec, Fits
  <2> QED
    BY <1>10, <2>1, <2>2, <2>3, DrawStep DEF DrawnPage
\* What it drops is of no recovery still to be opened, unless something overlapped.
<1>17. ASSUME NEW k \in D, k.key = x1.key, x1.key # 0, x1.state \in ToOpen, k.n = x1.n \/ (k.n = 0 /\ k.at >= x1.at - 1)
       PROVE  k.key \in x6'
  <2>1. r.n # x1.n
    <3> SUFFICES ASSUME r.n = x1.n PROVE FALSE
      OBVIOUS
    <3>1. r.state \in ToOpen /\ r.at = x1.at /\ x1.n # 0
      BY <1>1, <1>17 DEF Fits, PageInv, RecKnown, Page!Active, ToOpen
    <3>2. k \notin Page!Dropped(r)
      BY <1>1, <1>2, <1>4, <1>17, <3>1 DEF Page!Dropped, Page!NeedsKey, ToOpen
    <3>3. k \notin Page!GoneKeys(t)
      <4>1. x4[t].at = "check" => x4[t].n # 0
        BY DEF PageInv, OpsFit, OpFits
      <4> QED
        BY <1>17, <4>1 DEF Page!GoneKeys
    <3> QED
      BY <1>17, <3>2, <3>3 DEF D
  <2>2. Page!Overlaps(k.key, r)
    BY <1>1, <1>17, <2>1 DEF Page!Overlaps, Fits
  <2> QED
    BY <1>12, <1>17, <2>2
<1>18. Page!KeyKept'
  <2> SUFFICES ASSUME x1.key # 0, x1.state \in ToOpen, x1.key \notin x6'
      PROVE  \E k \in x2' : k.key = x1.key /\ (k.n = x1.n \/ (k.n = 0 /\ k.at >= x1.at - 1))
    BY <1>10 DEF Page!KeyKept, ToOpen
  <2>1. PICK k \in x2 : k.key = x1.key /\ (k.n = x1.n \/ (k.n = 0 /\ k.at >= x1.at - 1))
    BY <1>10 DEF PageInv, Page!KeyKept, ToOpen
  <2>2. k \notin D
    BY <1>17, <2>1
  <2>3. Img(k).n = k.n \/ Img(k).n = x1.n
    BY <1>1, <1>7, <2>1 DEF Fits
  <2> QED
    BY <1>7, <1>11, <2>1, <2>2, <2>3
<1>19. \A u \in One : \A o : o = x4[u] => OpFits(o)'
  <2> TAKE u \in One
  <2> TAKE o
  <2> HAVE o = x4[u]
  <2>1. OpFits(o)
    BY DEF PageInv, OpsFit
  <2>2. ASSUME o.at = "post", NEW k \in x2, k.key = o.key, k.n = 0 PROVE k \in x2' \/ o.key \in x6'
    <3>1. CASE k \in D
      <4>1. Page!Overlaps(k.key, r)
        BY <2>2 DEF Page!Overlaps
      <4> QED
        BY <1>12, <2>2, <3>1, <4>1
    <3>2. CASE k \notin D
      <4>1. k.key # r.key
        BY <2>1, <2>2 DEF OpFits, Unused
      <4>2. Img(k) = k
        BY <4>1 DEF Img
      <4> QED
        BY <1>11, <3>2, <4>2
    <3> QED
      BY <3>1, <3>2
  <2> QED
    BY <1>1, <1>10, <1>15, <2>1, <2>2, OpKept
<1>20. OpsFit'
  <2>1. x4' = [x4 EXCEPT ![t] = IF @.at = "check" THEN Page!NoOp ELSE @]
    BY DEF Page!PruneAndDraw
  <2>2. CASE x4[t].at = "check"
    <3>1. x4' = [u \in One |-> IF u = t THEN [at |-> "idle", key |-> 0, n |-> 0] ELSE x4[u]]
      BY <2>1, <2>2 DEF Page!NoOp, PageInv, OpsFit
    <3>2. \A o : o = [at |-> "idle", key |-> 0, n |-> 0] => OpFits(o)'
      BY <1>1, <1>10 DEF OpFits, OfKey
    <3> QED
      BY <1>19, <3>1, <3>2, OpStep
  <2>3. CASE x4[t].at # "check"
    <3>1. x4' = x4
      BY <2>1, <2>3 DEF PageInv, OpsFit
    <3> QED
      BY <1>19, <3>1, SameOps
  <2> QED
    BY <2>2, <2>3
<1> QED
  BY <1>13, <1>15, <1>16, <1>18, <1>20 DEF PageInv

LEMMA PostStep == \A t \in One : PageInv /\ Page!Post(t) => PageInv'
<1> SUFFICES ASSUME NEW t \in One, PageInv, Page!Post(t) PROVE PageInv'
  OBVIOUS
<1> PICK c : c = x4[t].key
  OBVIOUS
<1>1. /\ x4 = [u \in One |-> x4[u]] /\ x4[t] = [at |-> "post", key |-> c, n |-> 0]
      /\ c # 0 /\ c \in 0..x7 /\ Unused(c) /\ (c \in x6 \/ \E k \in x2 : k.key = c /\ k.n = 0 /\ k.at = x10)
  BY DEF PageInv, OpsFit, OpFits, OfKey, Page!Post
<1>2. \A u \in One : OpFits(x4[u]) /\ (u # t => x4[u].key # c)
  BY <1>1 DEF PageInv, OpsFit
<1>3. UNCHANGED <<x2, x3, x5, x6, x7, x10>> /\ x1.n \in Nat /\ x7 \in Nat /\ x10 \in Nat
  BY DEF Page!Post, PageInv, RecKnown
\* It is refused, or does not get there.
<1>4. ASSUME x1' = x1, NEW a, NEW d, (a = "drop" /\ d = c) \/ (a = "idle" /\ d = 0),
             x4' = [u \in One |-> IF u = t THEN [at |-> a, key |-> d, n |-> 0] ELSE x4[u]]
      PROVE  PageInv'
  <2>1. RecKnown' /\ LoadsFit' /\ PagesFit' /\ KeysKnown' /\ Page!KeyKept' /\ (Unused(c))'
    BY <1>1, <1>3, <1>4 DEF PageInv, RecKnown, LoadsFit, Fits, PagesFit, DrawnRec, KeysKnown, Page!KeyKept, Page!Active, Unused
  <2>2. \A e : Unused(e) => Unused(e)'
    BY <1>3, <1>4 DEF Unused
  <2>3. \A u \in One : \A o : o = x4[u] => OpFits(o)'
    BY <1>2, <1>3, <1>4, <2>2, OpKept
  <2>4. \A o : o = [at |-> a, key |-> d, n |-> 0] => OpFits(o)'
    BY <1>1, <1>3, <1>4, <2>2 DEF OpFits, OfKey
  <2>5. OpsFit'
    BY <1>1, <1>4, <2>3, <2>4, OpStep
  <2> QED
    BY <2>1, <2>5 DEF PageInv
\* It is written.
<1>5. ASSUME x1' = Page!NewRec(c), NEW a, NEW d, NEW n, (a \in {"bind", "drop"} /\ d = c /\ n = x1.n + 1) \/ (a = "idle" /\ d = 0 /\ n = 0),
             x4' = [u \in One |-> IF u = t THEN [at |-> a, key |-> d, n |-> n] ELSE x4[u]]
      PROVE  PageInv'
  <2>1. RecKnown' /\ LoadsFit' /\ PagesFit' /\ \A o : OpFits(o) /\ (o.key = 0 \/ o.key # c) => OpFits(o)'
    BY <1>1, <1>3, <1>5, RequestStep
  <2>2. KeysKnown'
    BY <1>3 DEF PageInv, KeysKnown
  <2>3. x1' = [n |-> x1.n + 1, state |-> "pending", at |-> x10, key |-> c]
    BY <1>5 DEF Page!NewRec
  <2>4. Page!KeyKept'
    BY <1>1, <1>3, <2>3 DEF Page!KeyKept
  <2>5. \A u \in One : u # t => \A o : o = x4[u] => OpFits(o)'
    BY <1>2, <2>1
  <2>6. \A o : o = [at |-> a, key |-> d, n |-> n] => OpFits(o)'
    BY <1>1, <1>3, <1>5, <2>3 DEF OpFits, OfKey
  <2>7. OpsFit'
    BY <1>1, <1>5, <2>5, <2>6, OpStep
  <2> QED
    BY <2>1, <2>2, <2>4, <2>7 DEF PageInv
<1>6. CASE x1' = x1
  <2>1. \/ x4' = [x4 EXCEPT ![t].at = "drop"]
        \/ x4' = [x4 EXCEPT ![t] = [at |-> "idle", key |-> 0, n |-> 0]]
    BY <1>3, <1>6 DEF Page!Post, Page!NewRec, Page!NoOp
  <2>2. x4' = [x4 EXCEPT ![t].at = "drop"] => x4' = [u \in One |-> IF u = t THEN [at |-> "drop", key |-> c, n |-> 0] ELSE x4[u]]
    BY <1>1
  <2>3. x4' = [x4 EXCEPT ![t] = [at |-> "idle", key |-> 0, n |-> 0]]
        => x4' = [u \in One |-> IF u = t THEN [at |-> "idle", key |-> 0, n |-> 0] ELSE x4[u]]
    BY <1>1
  <2> QED
    BY <1>4, <1>6, <2>1, <2>2, <2>3
<1>7. CASE x1' # x1
  <2>1. /\ x1' = Page!NewRec(c)
        /\ \/ x4' = [x4 EXCEPT ![t] = [at |-> "bind", key |-> c, n |-> x1'.n]]
           \/ x4' = [x4 EXCEPT ![t] = [at |-> "drop", key |-> c, n |-> x1'.n]]
           \/ x4' = [x4 EXCEPT ![t] = [at |-> "idle", key |-> 0, n |-> 0]]
    BY <1>7 DEF Page!Post, Page!NoOp
  <2>2. x1'.n = x1.n + 1
    BY <2>1 DEF Page!NewRec
  <2>3. ASSUME NEW a, NEW d, NEW n, x4' = [x4 EXCEPT ![t] = [at |-> a, key |-> d, n |-> n]],
               (a \in {"bind", "drop"} /\ d = c /\ n = x1.n + 1) \/ (a = "idle" /\ d = 0 /\ n = 0)
        PROVE  PageInv'
    <3>1. x4' = [u \in One |-> IF u = t THEN [at |-> a, key |-> d, n |-> n] ELSE x4[u]]
      BY <1>1, <2>3
    <3>2. x1' = Page!NewRec(c) /\ ((a \in {"bind", "drop"} /\ d = c /\ n = x1.n + 1) \/ (a = "idle" /\ d = 0 /\ n = 0))
      BY <2>1, <2>3
    <3> QED
      BY <1>5, <3>1, <3>2
  <2>4. CASE x4' = [x4 EXCEPT ![t] = [at |-> "bind", key |-> c, n |-> x1'.n]]
    BY <2>2, <2>3, <2>4
  <2>5. CASE x4' = [x4 EXCEPT ![t] = [at |-> "drop", key |-> c, n |-> x1'.n]]
    BY <2>2, <2>3, <2>5
  <2>6. CASE x4' = [x4 EXCEPT ![t] = [at |-> "idle", key |-> 0, n |-> 0]]
    BY <2>3, <2>6
  <2> QED
    BY <2>1, <2>4, <2>5, <2>6
<1> QED
  BY <1>6, <1>7

\* A key that is bound or dropped is no other request's, and not one that a recovery waits for.
LEMMA KeyStep == \A t \in One : PageInv /\ (Page!Bind(t) \/ Page!DropKey(t) \/ Page!CancelDone(t)) => PageInv'
<1> SUFFICES ASSUME NEW t \in One, PageInv, Page!Bind(t) \/ Page!DropKey(t) \/ Page!CancelDone(t) PROVE PageInv'
  OBVIOUS
<1> PICK o : o = x4[t]
  OBVIOUS
<1>1. OpFits(o) /\ UNCHANGED <<x1, x5, x7, x10>> /\ x6 \subseteq x6' /\ x1.n \in Nat /\ x7 \in Nat /\ x10 \in Nat
  BY DEF PageInv, OpsFit, RecKnown, Page!Bind, Page!DropKey, Page!CancelDone
<1>2. x4' = [u \in One |-> IF u = t THEN [at |-> "idle", key |-> 0, n |-> 0] ELSE x4[u]]
  BY DEF PageInv, OpsFit, Page!Bind, Page!DropKey, Page!CancelDone, Page!NoOp
<1>3. x3' = x3 \/ x3' = [u \in One |-> IF u = t THEN [at |-> "fetch", seen |-> Page!NoRec] ELSE x3[u]]
  BY DEF PageInv, LoadsFit, Page!Bind, Page!DropKey, Page!CancelDone, Page!NoLoad
<1>4. LoadsFit' /\ \A c : c # 0 /\ Unused(c) => Unused(c)'
  <2>1. CASE x3' = x3
    BY <1>1, <2>1 DEF PageInv, LoadsFit, Fits, Page!Active, Unused
  <2>2. CASE x3' # x3
    BY <1>1, <1>3, <2>2, LoadStep
  <2> QED
    BY <2>1, <2>2
<1>5. \/ /\ o.at = "bind" /\ x2' = {k \in x2 : k.key # o.key} \cup {[key |-> o.key, n |-> o.n, at |-> x10]} /\ x6' = x6
      \/ /\ o.at = "drop" /\ x2' = {k \in x2 : k.key # o.key} /\ (o.n # 0 => o.key \in x6')
      \/ /\ o.at = "gone" /\ x2' = {k \in x2 : k.n # o.n} /\ x6' = x6
  BY DEF Page!Bind, Page!DropKey, Page!Drops, Page!CancelDone
<1>6. RecKnown' /\ PagesFit'
  BY <1>1 DEF PageInv, RecKnown, PagesFit, DrawnRec, Page!Active
<1>7. KeysKnown'
  <2>1. o.at = "bind" => o.key \in 1..x7
    BY <1>1 DEF OpFits, OfKey
  <2> QED
    BY <1>1, <1>5, <2>1 DEF PageInv, KeysKnown
<1>8. Page!KeyKept'
  <2>1. x1.key # 0 /\ x1.state \in ToOpen /\ x1.key \notin x6
        => \E k \in x2 : k.key = x1.key /\ (k.n = x1.n \/ (k.n = 0 /\ k.at >= x1.at - 1))
    BY DEF PageInv, Page!KeyKept, ToOpen
  <2>2. CASE o.at = "bind"
    <3>1. x2' = {k \in x2 : k.key # o.key} \cup {[key |-> o.key, n |-> o.n, at |-> x10]} /\ x6' = x6
      BY <1>5, <2>2
    <3>2. CASE o.key = x1.key
      <4>1. o.n = x1.n
        BY <1>1, <2>2, <3>2 DEF OpFits
      <4> PICK k : k = [key |-> o.key, n |-> o.n, at |-> x10]
        OBVIOUS
      <4>2. k \in x2' /\ k.key = x1.key /\ k.n = x1.n
        BY <3>1, <3>2, <4>1
      <4> QED
        BY <1>1, <4>2 DEF Page!KeyKept
    <3>3. CASE o.key # x1.key
      BY <1>1, <2>1, <3>1, <3>3 DEF Page!KeyKept, ToOpen
    <3> QED
      BY <3>2, <3>3
  <2>3. CASE o.at = "drop"
    <3>1. o.n = 0 => o.key # x1.key
      BY <1>1, <2>3 DEF OpFits, Unused
    <3> QED
      BY <1>1, <1>5, <2>1, <2>3, <3>1 DEF Page!KeyKept, ToOpen
  <2>4. CASE o.at = "gone"
    <3>1. o.n # 0 /\ (o.n = x1.n => x1.state \notin ToOpen)
      BY <1>1, <2>4 DEF OpFits
    <3> QED
      BY <1>1, <1>5, <2>1, <2>4, <3>1 DEF Page!KeyKept, ToOpen
  <2> QED
    BY <1>5, <2>2, <2>3, <2>4
<1>9. ASSUME NEW u \in One, u # t PROVE \A p : p = x4[u] => OpFits(p)'
  <2> TAKE p
  <2> HAVE p = x4[u]
  <2>1. OpFits(p) /\ (p.key # 0 => p.key # o.key)
    BY <1>9 DEF PageInv, OpsFit
  <2>2. p.at = "post" => \A k \in x2 : k.key = p.key /\ k.n = 0 => k \in x2'
    <3>1. p.at = "post" => p.key # 0
      BY <2>1 DEF OpFits, OfKey
    <3>2. o.at = "gone" => o.n # 0
      BY <1>1 DEF OpFits
    <3> QED
      BY <1>5, <2>1, <3>1, <3>2
  <2> QED
    BY <1>1, <1>4, <2>1, <2>2, OpKept
<1>10. OpsFit'
  <2>1. \A p : p = [at |-> "idle", key |-> 0, n |-> 0] => OpFits(p)'
    BY <1>1 DEF OpFits, OfKey
  <2> QED
    BY <1>2, <1>9, <2>1, OpStep
<1> QED
  BY <1>4, <1>6, <1>7, <1>8, <1>10 DEF PageInv

LEMMA PageStep == PageInv /\ [Page!Next]_(Page!vars) => PageInv'
<1> SUFFICES ASSUME PageInv, [Page!Next]_(Page!vars) PROVE PageInv'
  OBVIOUS
<1>0. /\ x1.n \in Nat /\ x7 \in Nat /\ x10 \in Nat /\ (Page!Active(x1) => x1.n # 0)
      /\ x1 = [n |-> x1.n, state |-> x1.state, at |-> x1.at, key |-> x1.key]
      /\ x3 = [t \in One |-> x3[t]] /\ x4 = [t \in One |-> x4[t]] /\ x5 = [t \in One |-> x5[t]]
  BY DEF PageInv, RecKnown, LoadsFit, OpsFit, PagesFit
<1>1. \A t \in One : /\ x3[t] = [at |-> x3[t].at, seen |-> x3[t].seen] /\ x4[t] = [at |-> x4[t].at, key |-> x4[t].key, n |-> x4[t].n]
                     /\ x5[t] = [rec |-> x5[t].rec, view |-> x5[t].view, shown |-> x5[t].shown] /\ OpFits(x4[t])
                     /\ DrawnRec(x5[t].rec) /\ DrawnPage(x5[t].rec, x5[t].view, x5[t].shown)
  BY DEF PageInv, LoadsFit, OpsFit, PagesFit
<1> PICK idle : idle = "idle"
  OBVIOUS
\* What a tab's load, page or request without a key leaves as it was.
<1>2. ASSUME NEW t \in One, NEW a, NEW s, s \in {x3[t].seen, Page!NoRec, x1}, UNCHANGED <<x1, x7>>,
             x3' = [u \in One |-> IF u = t THEN [at |-> a, seen |-> s] ELSE x3[u]]
      PROVE  LoadsFit' /\ \A c : c # 0 /\ Unused(c) => Unused(c)'
  BY <1>2, LoadStep
<1>3. ASSUME UNCHANGED <<x1, x3, x7>> PROVE LoadsFit' /\ \A c : c # 0 /\ Unused(c) => Unused(c)'
  BY <1>3 DEF PageInv, LoadsFit, Fits, Page!Active, Unused
<1>4. ASSUME NEW t \in One, NEW r, NEW v, NEW b, DrawnRec(r), DrawnPage(r, v, b), x1' = x1,
             x5' = [u \in One |-> IF u = t THEN [rec |-> r, view |-> v, shown |-> b] ELSE x5[u]]
      PROVE  PagesFit'
  BY <1>4, DrawStep
<1>5. ASSUME UNCHANGED <<x1, x5>> PROVE PagesFit'
  BY <1>5 DEF PageInv, PagesFit, DrawnRec, Page!Active
<1>6. ASSUME UNCHANGED <<x1, x2, x6, x7, x10>>, \A c : c # 0 /\ Unused(c) => Unused(c)', NEW t \in One, NEW a, NEW n,
             a \notin OfKey, n \in Nat, a \in {"cancel", "gone", "check"} => n # 0 /\ n <= x1.n,
             a = "gone" /\ n = x1.n => x1.state \notin ToOpen,
             x4' = [u \in One |-> IF u = t THEN [at |-> a, key |-> 0, n |-> n] ELSE x4[u]]
      PROVE  RecKnown' /\ KeysKnown' /\ OpsFit' /\ Page!KeyKept'
  BY <1>6, QuietStep
<1>7. ASSUME UNCHANGED <<x1, x2, x4, x6, x7, x10>>, \A c : c # 0 /\ Unused(c) => Unused(c)', NEW t \in One
      PROVE  RecKnown' /\ KeysKnown' /\ OpsFit' /\ Page!KeyKept'
  <2>1. idle \notin OfKey /\ idle \notin {"cancel", "gone", "check"} /\ 0 \in Nat
    BY DEF OfKey
  <2> QED
    BY <1>7, <2>1, QuietStep
<1>8. ASSUME NEW t \in One, Page!StartLoad(t) \/ Page!Fetch(t) PROVE PageInv'
  <2>1. \/ x3' = [u \in One |-> IF u = t THEN [at |-> "fetch", seen |-> Page!NoRec] ELSE x3[u]]
        \/ x3' = [u \in One |-> IF u = t THEN [at |-> "prune", seen |-> x1] ELSE x3[u]]
    BY <1>0, <1>8 DEF Page!StartLoad, Page!Fetch, Page!NoLoad
  <2>2. PICK a, s : /\ x3' = [u \in One |-> IF u = t THEN [at |-> a, seen |-> s] ELSE x3[u]]
                    /\ s \in {x3[t].seen, Page!NoRec, x1}
    BY <2>1
  <2>3. UNCHANGED <<x1, x2, x4, x5, x6, x7, x10>>
    BY <1>8 DEF Page!StartLoad, Page!Fetch
  <2>4. LoadsFit' /\ \A c : c # 0 /\ Unused(c) => Unused(c)'
    BY <1>2, <2>2, <2>3
  <2> QED
    BY <1>5, <1>7, <2>3, <2>4 DEF PageInv
<1>9. ASSUME NEW t \in One, Page!LoadFails(t) PROVE PageInv'
  <2>1. /\ x3' = [u \in One |-> IF u = t THEN [at |-> "idle", seen |-> Page!NoRec] ELSE x3[u]]
        /\ x5' = [u \in One |-> IF u = t THEN [rec |-> x5[t].rec, view |-> "error", shown |-> FALSE] ELSE x5[u]]
        /\ UNCHANGED <<x1, x2, x6, x7, x10>>
    <3>1. x3' = [u \in One |-> IF u = t THEN [at |-> "idle", seen |-> Page!NoRec] ELSE x3[u]]
      BY <1>0, <1>9 DEF Page!LoadFails, Page!NoLoad
    <3> DEFINE one == [x5[t] EXCEPT !.view = "error"]
    <3>2. PICK r, v, b : x5[t] = [rec |-> r, view |-> v, shown |-> b]
      BY <1>1
    <3>3. one = [rec |-> r, view |-> "error", shown |-> b]
      BY <3>2
    <3> PICK f : f = FALSE
      OBVIOUS
    <3>4. [one EXCEPT !.shown = f] = [rec |-> r, view |-> "error", shown |-> f]
      <4> HIDE DEF one
      <4> QED
        BY <3>3
    <3>5. x5' = [u \in One |-> IF u = t THEN [one EXCEPT !.shown = f] ELSE x5[u]]
      BY <1>0, <1>9 DEF Page!LoadFails
    <3>6. x5[t].rec = r
      BY <3>2
    <3> HIDE DEF one
    <3> QED
      BY <1>9, <3>1, <3>4, <3>5, <3>6 DEF Page!LoadFails
  <2>2. LoadsFit' /\ \A c : c # 0 /\ Unused(c) => Unused(c)'
    BY <1>2, <2>1
  <2>3. PagesFit'
    <3> PICK v : v = "error"
      OBVIOUS
    <3>1. DrawnRec(x5[t].rec) /\ DrawnPage(x5[t].rec, v, FALSE)
      BY <1>1 DEF DrawnPage
    <3> PICK r : r = x5[t].rec
      OBVIOUS
    <3> QED
      BY <1>4, <2>1, <3>1
  <2>4. \/ x4' = x4
        \/ x4' = [u \in One |-> IF u = t THEN [at |-> idle, key |-> 0, n |-> 0] ELSE x4[u]]
    BY <1>0, <1>9 DEF Page!LoadFails, Page!NoOp
  <2>5. idle \notin OfKey /\ idle \notin {"cancel", "gone", "check"} /\ 0 \in Nat
    BY DEF OfKey
  <2>6. RecKnown' /\ KeysKnown' /\ OpsFit' /\ Page!KeyKept'
    BY <1>6, <1>7, <2>1, <2>2, <2>4, <2>5
  <2> QED
    BY <2>2, <2>3, <2>6 DEF PageInv
<1>10. ASSUME NEW t \in One, Page!Poll(t) PROVE PageInv'
  <2>1. UNCHANGED <<x1, x2, x4, x6, x7, x10>>
    BY <1>10 DEF Page!Poll
  <2>2. CASE x3' = x3 /\ x5' = [x5 EXCEPT ![t].rec = x1] /\ x1.state = x5[t].rec.state
    <3>1. x5' = [u \in One |-> IF u = t THEN [rec |-> x1, view |-> x5[t].view, shown |-> x5[t].shown] ELSE x5[u]]
      BY <1>0, <1>1, <2>2
    <3>2. DrawnRec(x1) /\ DrawnPage(x1, x5[t].view, x5[t].shown)
      BY <1>0, <1>1, <2>2 DEF DrawnRec, DrawnPage
    <3> PICK r, v, b : r = x1 /\ v = x5[t].view /\ b = x5[t].shown
      OBVIOUS
    <3>3. PagesFit'
      BY <1>4, <2>1, <3>1, <3>2
    <3>4. LoadsFit' /\ \A c : c # 0 /\ Unused(c) => Unused(c)'
      BY <1>3, <2>1, <2>2
    <3> QED
      BY <1>7, <2>1, <3>3, <3>4 DEF PageInv
  <2>3. CASE x5' = x5 /\ x3' = [x3 EXCEPT ![t] = [Page!NoLoad EXCEPT !.at = "fetch"]]
    <3> PICK a : a = "fetch"
      OBVIOUS
    <3>1. x3' = [u \in One |-> IF u = t THEN [at |-> a, seen |-> Page!NoRec] ELSE x3[u]]
      BY <1>0, <2>3 DEF Page!NoLoad
    <3> PICK s : s = Page!NoRec
      OBVIOUS
    <3>2. LoadsFit' /\ \A c : c # 0 /\ Unused(c) => Unused(c)'
      BY <1>2, <2>1, <3>1
    <3> QED
      BY <1>5, <1>7, <2>1, <2>3, <3>2 DEF PageInv
  <2> QED
    BY <1>10, <2>2, <2>3 DEF Page!Poll
<1>11. ASSUME NEW t \in One, Page!ShowCode(t) PROVE PageInv'
  <2>1. UNCHANGED <<x1, x2, x3, x4, x6, x7, x10>> /\ x5[t].view = "code"
    BY <1>11 DEF Page!ShowCode
  <2>2. x5' = [u \in One |-> IF u = t THEN [rec |-> x5[t].rec, view |-> x5[t].view, shown |-> ~x5[t].shown] ELSE x5[u]]
    BY <1>0, <1>1, <1>11 DEF Page!ShowCode
  <2>3. DrawnRec(x5[t].rec) /\ DrawnPage(x5[t].rec, x5[t].view, ~x5[t].shown)
    BY <1>1, <2>1 DEF DrawnPage
  <2> PICK r, v, b : r = x5[t].rec /\ v = x5[t].view /\ b = ~x5[t].shown
    OBVIOUS
  <2>4. PagesFit'
    BY <1>4, <2>1, <2>2, <2>3
  <2> QED
    BY <1>3, <1>7, <2>1, <2>4 DEF PageInv
<1>12. ASSUME NEW t \in One, Page!Leave(t) PROVE PageInv'
  <2>1. UNCHANGED <<x1, x2, x4, x6, x7, x10>>
    BY <1>12 DEF Page!Leave
  <2> PICK s, v : s = Page!NoRec /\ v = "loading"
    OBVIOUS
  <2>2. /\ x3' = [u \in One |-> IF u = t THEN [at |-> idle, seen |-> s] ELSE x3[u]]
        /\ x5' = [u \in One |-> IF u = t THEN [rec |-> s, view |-> v, shown |-> FALSE] ELSE x5[u]]
    BY <1>0, <1>12 DEF Page!Leave, Page!NoLoad, Page!Unloaded
  <2>3. DrawnRec(s) /\ DrawnPage(s, v, FALSE)
    BY <1>0 DEF DrawnRec, DrawnPage, Page!NoRec, Page!Active
  <2>4. LoadsFit' /\ (\A c : c # 0 /\ Unused(c) => Unused(c)') /\ PagesFit'
    BY <1>2, <1>4, <2>1, <2>2, <2>3
  <2> QED
    BY <1>7, <2>1, <2>4 DEF PageInv
<1>13. ASSUME NEW t \in One, Page!CreateKey(t) PROVE PageInv'
  <2>1. /\ x7' = x7 + 1 /\ x2' = x2 \cup {[key |-> x7 + 1, n |-> 0, at |-> x10]}
        /\ x4' = [u \in One |-> IF u = t THEN [at |-> "post", key |-> x7 + 1, n |-> 0] ELSE x4[u]]
        /\ UNCHANGED <<x1, x3, x5, x6, x10>>
    BY <1>0, <1>13 DEF Page!CreateKey
  <2>2. RecKnown' /\ PagesFit'
    BY <1>0, <1>5, <2>1 DEF PageInv, RecKnown, Page!Active
  <2>3. LoadsFit' /\ (\A c : Unused(c) => Unused(c)') /\ Unused(x7 + 1)
    BY <1>0, <2>1 DEF PageInv, RecKnown, LoadsFit, Fits, Page!Active, Unused
  <2>4. KeysKnown'
    BY <1>0, <2>1 DEF PageInv, KeysKnown
  <2>5. Page!KeyKept'
    BY <2>1 DEF PageInv, Page!KeyKept
  <2>6. \A u \in One : \A o : o = x4[u] => OpFits(o)'
    BY <1>0, <1>1, <2>1, <2>3, OpKept
  <2>7. \A o : o = [at |-> "post", key |-> x7 + 1, n |-> 0] => OpFits(o)'
    <3> TAKE o
    <3> HAVE o = [at |-> "post", key |-> x7 + 1, n |-> 0]
    <3>1. Unused(o.key)'
      BY <2>3
    <3> PICK k : k = [key |-> x7 + 1, n |-> 0, at |-> x10]
      OBVIOUS
    <3>2. k \in x2' /\ k.key = o.key /\ k.n = 0 /\ k.at = x10'
      BY <2>1
    <3> QED
      BY <1>0, <2>1, <3>1, <3>2 DEF OpFits, OfKey
  <2>8. OpsFit'
    BY <2>1, <2>6, <2>7, OpStep
  <2> QED
    BY <2>2, <2>3, <2>4, <2>5, <2>8 DEF PageInv
<1>14. ASSUME NEW t \in One, Page!Cancel(t) PROVE PageInv'
  <2>1. UNCHANGED <<x1, x2, x3, x5, x6, x7, x10>>
    BY <1>14 DEF Page!Cancel
  <2> PICK a, n : a = "cancel" /\ n = x5[t].rec.n
    OBVIOUS
  <2>2. x4' = [u \in One |-> IF u = t THEN [at |-> a, key |-> 0, n |-> n] ELSE x4[u]]
    BY <1>0, <1>14 DEF Page!Cancel
  <2>3. n \in Nat /\ n # 0 /\ n <= x1.n /\ a \notin OfKey /\ a # "gone"
    BY <1>1, <1>14 DEF Page!Cancel, DrawnRec, OfKey
  <2> QED
    BY <1>3, <1>5, <1>6, <2>1, <2>2, <2>3 DEF PageInv
<1>15. ASSUME NEW t \in One, Page!CancelAnswered(t) PROVE PageInv'
  <2> PICK n : n = x4[t].n
    OBVIOUS
  <2>1. n \in Nat /\ n # 0 /\ n <= x1.n /\ x4[t] = [at |-> "cancel", key |-> 0, n |-> n]
    BY <1>1, <1>15 DEF OpFits, OfKey, Page!CancelAnswered
  <2>2. x5' = [x5 EXCEPT ![t].shown = IF x4'[t].at = "idle" THEN @ ELSE FALSE] /\ UNCHANGED <<x2, x6, x7, x10>>
    BY <1>15 DEF Page!CancelAnswered
  <2>3. PICK b : x5' = [u \in One |-> IF u = t THEN [rec |-> x5[t].rec, view |-> x5[t].view, shown |-> b] ELSE x5[u]] /\ (b = x5[t].shown \/ b = FALSE)
    <3> DEFINE e == x5[t]
    <3>2. PICK r, v, d : e = [rec |-> r, view |-> v, shown |-> d]
      BY <1>1
    <3>3. ASSUME NEW w PROVE [e EXCEPT !.shown = w] = [rec |-> r, view |-> v, shown |-> w]
      <4> HIDE DEF e
      <4> QED
        BY <3>2
    <3> PICK b : b = IF x4'[t].at = "idle" THEN x5[t].shown ELSE FALSE
      OBVIOUS
    <3>1. x5' = [u \in One |-> IF u = t THEN [e EXCEPT !.shown = b] ELSE x5[u]]
      BY <1>0, <2>2
    <3>4. r = e.rec /\ v = e.view
      BY <3>2
    <3> QED
      BY <3>1, <3>3, <3>4
  <2>4. DrawnRec(x5[t].rec) /\ DrawnPage(x5[t].rec, x5[t].view, b)
    BY <1>1, <2>3 DEF DrawnPage
  <2>5. x1' = x1 => PagesFit'
    <3> PICK r, v : r = x5[t].rec /\ v = x5[t].view
      OBVIOUS
    <3> QED
      BY <1>4, <2>3, <2>4
  <2>6. CASE /\ x1.n = n /\ x1' = IF Page!Active(x1) THEN [x1 EXCEPT !.state = "ended"] ELSE x1
             /\ x4' = [x4 EXCEPT ![t].at = "gone"]
    <3>1. x1' = [n |-> x1.n, state |-> x1'.state, at |-> x1.at, key |-> x1.key] /\ x1'.state \notin ToOpen
          /\ (Page!Active(x1)' => Page!Active(x1))
      BY <1>0, <2>6 DEF Page!Active, ToOpen
    <3>2. x4' = [u \in One |-> IF u = t THEN [at |-> "gone", key |-> 0, n |-> n] ELSE x4[u]]
      BY <1>0, <2>1, <2>6
    <3>3. x3' = x3
      BY <1>0, <1>15, <3>2 DEF Page!CancelAnswered
    <3>4. RecKnown' /\ LoadsFit' /\ \A u \in One : \A o : o = x4[u] => OpFits(o)'
      BY <1>1, <2>2, <3>1, <3>3, StayStep
    <3>5. PagesFit'
      <4>1. x1'.n = x1.n
        BY <3>1
      <4> QED
        BY <1>0, <1>1, <2>3, <2>4, <4>1 DEF PagesFit, DrawnRec, DrawnPage, Page!Active
    <3>6. KeysKnown' /\ Page!KeyKept'
      BY <2>2, <3>1 DEF PageInv, KeysKnown, Page!KeyKept, ToOpen
    <3>7. \A o : o = [at |-> "gone", key |-> 0, n |-> n] => OpFits(o)'
      <4>1. x1'.n = x1.n
        BY <3>1
      <4> QED
        BY <1>0, <2>1, <2>2, <3>1, <4>1 DEF OpFits, OfKey
    <3>8. OpsFit'
      BY <3>2, <3>4, <3>7, OpStep
    <3> QED
      BY <3>4, <3>5, <3>6, <3>8 DEF PageInv
  <2>7. CASE x1' = x1 /\ x4' = [x4 EXCEPT ![t].at = "check"]
    <3> PICK a, c, s : a = "fetch" /\ c = "check" /\ s = Page!NoRec
      OBVIOUS
    <3>1. x4' = [u \in One |-> IF u = t THEN [at |-> c, key |-> 0, n |-> n] ELSE x4[u]]
      BY <1>0, <2>1, <2>7
    <3>2. x3' = [u \in One |-> IF u = t THEN [at |-> a, seen |-> s] ELSE x3[u]]
      BY <1>0, <1>15, <3>1 DEF Page!CancelAnswered, Page!NoLoad
    <3>3. LoadsFit' /\ \A e : e # 0 /\ Unused(e) => Unused(e)'
      BY <1>2, <2>2, <2>7, <3>2
    <3>4. c \notin OfKey /\ c # "gone"
      BY DEF OfKey
    <3>6. UNCHANGED <<x1, x2, x6, x7, x10>> /\ n \in Nat /\ n # 0 /\ n <= x1.n
      BY <2>1, <2>2, <2>7
    <3>5. RecKnown' /\ KeysKnown' /\ OpsFit' /\ Page!KeyKept'
      BY <1>6, <3>1, <3>3, <3>4, <3>6
    <3> QED
      BY <2>5, <2>7, <3>3, <3>5 DEF PageInv
  <2>8. CASE x1' = x1 /\ x4' = [x4 EXCEPT ![t] = Page!NoOp]
    <3>1. x4' = [u \in One |-> IF u = t THEN [at |-> idle, key |-> 0, n |-> 0] ELSE x4[u]]
      BY <1>0, <2>8 DEF Page!NoOp
    <3>2. x3' = x3
      BY <1>0, <1>15, <3>1 DEF Page!CancelAnswered
    <3>3. idle \notin OfKey /\ idle \notin {"cancel", "gone", "check"} /\ 0 \in Nat
      BY DEF OfKey
    <3>4. LoadsFit' /\ \A e : e # 0 /\ Unused(e) => Unused(e)'
      BY <1>3, <2>2, <2>8, <3>2
    <3>6. UNCHANGED <<x1, x2, x6, x7, x10>>
      BY <2>2, <2>8
    <3>5. RecKnown' /\ KeysKnown' /\ OpsFit' /\ Page!KeyKept'
      BY <1>6, <3>1, <3>3, <3>4, <3>6
    <3> QED
      BY <2>5, <2>8, <3>4, <3>5 DEF PageInv
  <2> QED
    BY <1>15, <2>6, <2>7, <2>8 DEF Page!CancelAnswered
<1>16. CASE Page!Proceeds
  <2>1. UNCHANGED <<x2, x3, x4, x5, x6, x7, x10>>
    BY <1>16 DEF Page!Proceeds
  <2>2. /\ x1' = [n |-> x1.n, state |-> x1'.state, at |-> x1.at, key |-> x1.key]
        /\ x1'.state \in ToOpen => x1.state \in ToOpen
        /\ Page!Active(x1)' => Page!Active(x1)
    BY <1>0, <1>16 DEF Page!Proceeds, Page!Active, ToOpen
  <2>3. RecKnown' /\ LoadsFit' /\ PagesFit' /\ \A u \in One : \A o : o = x4[u] => OpFits(o)'
    BY <1>1, <2>1, <2>2, StayStep
  <2>4. KeysKnown' /\ Page!KeyKept'
    BY <2>1, <2>2 DEF PageInv, KeysKnown, Page!KeyKept, ToOpen
  <2> QED
    BY <2>1, <2>3, <2>4, SameOps DEF PageInv
<1>17. CASE Page!RequestedElsewhere
  <2>1. UNCHANGED <<x2, x3, x4, x5, x6, x7, x10>> /\ x1' = Page!NewRec(0)
    BY <1>17 DEF Page!RequestedElsewhere
  <2>2. RecKnown' /\ LoadsFit' /\ PagesFit' /\ \A o : OpFits(o) => OpFits(o)'
    BY <1>0, <2>1, RequestStep
  <2>3. KeysKnown' /\ Page!KeyKept'
    BY <2>1 DEF PageInv, KeysKnown, Page!KeyKept, Page!NewRec
  <2> QED
    BY <1>1, <2>1, <2>2, <2>3, SameOps DEF PageInv
<1>18. CASE Page!Tick
  <2>1. UNCHANGED <<x1, x2, x3, x4, x5, x6, x7>> /\ x10' = x10 + 1 /\ \A t \in One : x4[t].at = "idle"
    BY <1>18 DEF Page!Tick
  <2>2. RecKnown' /\ LoadsFit' /\ PagesFit' /\ KeysKnown' /\ Page!KeyKept'
    BY <1>0, <1>3, <1>5, <2>1 DEF PageInv, RecKnown, KeysKnown, Page!KeyKept, Page!Active
  <2>3. ASSUME NEW t \in One PROVE \A o : o = x4[t] => OpFits(o)'
    BY <1>1, <2>1 DEF OpFits, OfKey
  <2> QED
    BY <2>1, <2>2, <2>3, SameOps DEF PageInv
<1>19. CASE UNCHANGED Page!vars
  <2>1. UNCHANGED <<x1, x2, x3, x4, x5, x6, x7, x10>>
    BY <1>19 DEF Page!vars
  <2>2. \A c : c # 0 /\ Unused(c) => Unused(c)'
    BY <1>3, <2>1
  <2>3. LoadsFit' /\ PagesFit'
    BY <1>3, <1>5, <2>1
  <2>4. RecKnown' /\ KeysKnown' /\ Page!KeyKept'
    BY <2>1 DEF PageInv, RecKnown, KeysKnown, Page!KeyKept, Page!Active
  <2>5. \A u \in One : \A o : o = x4[u] => OpFits(o)'
    BY <1>0, <1>1, <2>1, <2>2, OpKept
  <2> QED
    BY <2>1, <2>3, <2>4, <2>5, SameOps DEF PageInv
<1> QED
  BY <1>8, <1>9, <1>10, <1>11, <1>12, <1>13, <1>14, <1>15, <1>16, <1>17, <1>18, <1>19, PruneStep, PostStep, KeyStep DEF Page!Next

LEMMA PageSafe == PageInv => Page!KeyKept /\ Page!ShownIsCurrent
BY DEF PageInv, PagesFit, DrawnPage, Page!ShownIsCurrent

--------------------------------------------------------------------------------
(***************************************************************************)
(* That the list of members shows each once and misses none, and that with *)
(* nothing under way it agrees with the accounts, for any buttons pressed  *)
(* and any mishaps.  (MemberLists: account is x1, list x2, known x3, pages *)
(* x4, testers x5, loads x6, acts x7, spent x8, unsure x9, steady x10.)    *)
(* Of the list's own pages at most one is under way, it asks for what      *)
(* comes after the last row, and what it read misses nobody who matched    *)
(* all along.  Of an account that no two answers crossed about, everything *)
(* shown or read is what it is now, until a call about it was done: then   *)
(* it is what the call was pressed on, and its answer says what to draw.   *)
(***************************************************************************)
CONSTANTS PressedCalls, MemberMishaps                          \* buttons pressed; filters applied and calls lost

Members == INSTANCE MemberLists WITH
             Actions <- PressedCalls, Mishaps <- MemberMishaps,
             account <- x1, list <- x2, known <- x3, pages <- x4, testers <- x5, loads <- x6,
             acts <- x7, spent <- x8, unsure <- x9, steady <- x10

IsView(v) == \E s : \E b \in BOOLEAN : v = [status |-> s, canary |-> b]
IsRow(r)  == \E a, o, v, l : r = [acct |-> a, of |-> o, v |-> v, lock |-> l]
IsPage(p) == \E g, f, e, b, i, c, v, l : p = [gen |-> g, filter |-> f, after |-> e, read |-> b,
                                              got |-> [item |-> i, cursor |-> c, v |-> v], locks |-> l]
IsLoad(t) == \E g, b, s, l : t = [gen |-> g, read |-> b, got |-> s, locks |-> l]

\* Rows come in the accounts' order.
RowsInv ==
  /\ x1 = [a \in 1..2 |-> x1[a]] /\ \A a \in 1..2 : IsView(x1[a])
  /\ \E g, f, c, d, r : x2 = [gen |-> g, filter |-> f, cursor |-> c, done |-> d, rows |-> r]
  /\ x2.gen \in Nat /\ x2.gen # 0 /\ x2.cursor \in 0..2 /\ x2.done \in BOOLEAN
  /\ \E n \in Nat : x2.rows = [i \in 1..n |-> x2.rows[i]]
  /\ \A i \in DOMAIN x2.rows : IsRow(x2.rows[i]) /\ x2.rows[i].acct \in 1..2 /\ x2.rows[i].of = x2.gen
  /\ \A i, j \in DOMAIN x2.rows : i < j => x2.rows[i].acct < x2.rows[j].acct

ShownRow(a) == \E i \in DOMAIN x2.rows : x2.rows[i].acct = a

\* What a page of this list read, or is to read.
PagerInv ==
  /\ \A p \in x4 : /\ IsPage(p) /\ p.gen \in Nat /\ p.gen <= x2.gen /\ p.after \in 0..2
                   /\ p.read => p.got.item \in 0..2 /\ p.got.cursor = p.got.item
                                /\ (p.got.item # 0 => p.got.item > p.after)
  /\ \A p, q \in x4 : p.gen = x2.gen /\ q.gen = x2.gen => p = q
  /\ \A p \in x4 : p.gen = x2.gen =>
       /\ p.filter = x2.filter /\ p.after = x2.cursor /\ ~x2.done
       /\ p.read => \A a \in x10 : a > p.after => p.got.item # 0 /\ a >= p.got.item

SteadyInv ==
  /\ x10 \subseteq 1..2 /\ \A a \in x10 : Members!Matches(x1[a], x2.filter)
  /\ ~x2.done => /\ \A i \in DOMAIN x2.rows : x2.rows[i].acct <= x2.cursor
                 /\ \A a \in x10 : a <= x2.cursor => ShownRow(a)
  /\ x2.done => \A a \in x10 : ShownRow(a)

MemberListInv == RowsInv /\ PagerInv /\ SteadyInv

LEMMA Appended ==
  ASSUME NEW s, NEW n \in Nat, s = [i \in 1..n |-> s[i]], NEW e
  PROVE  Append(s, e) = [i \in 1..n + 1 |-> IF i = n + 1 THEN e ELSE s[i]] /\ Len(s) = n
<1> DEFINE S == {s[i] : i \in 1..n} \cup {e}
<1>1. s \in [1..n -> S]
  OBVIOUS
<1>2. s \in Seq(S) /\ Len(s) = n
  BY <1>1
<1>3. /\ Append(s, e) \in Seq(S) /\ Len(Append(s, e)) = n + 1
      /\ \A i \in 1..n : Append(s, e)[i] = s[i]
      /\ Append(s, e)[n + 1] = e
  BY <1>2, AppendProperties
<1> HIDE DEF S
<1> QED
  BY <1>2, <1>3

LEMMA MembersInit == Members!Init => MemberListInv
<1> SUFFICES ASSUME Members!Init PROVE MemberListInv
  OBVIOUS
<1>1. /\ x2 = [gen |-> 1, filter |-> "any", cursor |-> 0, done |-> FALSE, rows |-> << >>] /\ x10 = 1..2
      /\ x1 = [a \in 1..2 |-> [status |-> "active", canary |-> a = 1]]
      /\ x4 = {[gen |-> 1, filter |-> "any", after |-> 0, read |-> FALSE, locks |-> TRUE,
                got |-> [item |-> 0, cursor |-> 0, v |-> x1[1]]]}
  BY DEF Members!Init, Members!Accounts
<1>2. RowsInv
  <2>1. ASSUME NEW a \in 1..2 PROVE IsView(x1[a])
    <3> PICK s : s = "active"
      OBVIOUS
    <3>1. x1[a] = [status |-> s, canary |-> a = 1]
      BY <1>1
    <3>2. (a = 1) \in BOOLEAN
      OBVIOUS
    <3> QED
      BY <3>1, <3>2 DEF IsView
  <2>2. x2.rows = [i \in 1..0 |-> x2.rows[i]] /\ DOMAIN x2.rows = {}
    BY <1>1
  <2>3. \E g, f, c, d, r : x2 = [gen |-> g, filter |-> f, cursor |-> c, done |-> d, rows |-> r]
    <3> PICK f, r : f = "any" /\ r = << >>
      OBVIOUS
    <3> QED
      BY <1>1
  <2>4. \E n \in Nat : x2.rows = [i \in 1..n |-> x2.rows[i]]
    BY <2>2
  <2>5. x2.gen \in Nat /\ x2.gen # 0 /\ x2.cursor \in 0..2 /\ x2.done \in BOOLEAN /\ x1 = [a \in 1..2 |-> x1[a]]
    BY <1>1
  <2> QED
    BY <2>1, <2>2, <2>3, <2>4, <2>5 DEF RowsInv
<1>3. PagerInv
  <2>1. ASSUME NEW p \in x4 PROVE IsPage(p)
    <3> PICK f, v : f = "any" /\ v = x1[1]
      OBVIOUS
    <3>1. p = [gen |-> 1, filter |-> f, after |-> 0, read |-> FALSE, got |-> [item |-> 0, cursor |-> 0, v |-> v], locks |-> TRUE]
      BY <1>1
    <3> QED
      BY <3>1 DEF IsPage
  <2> QED
    BY <1>1, <2>1 DEF PagerInv
<1>4. SteadyInv
  BY <1>1 DEF SteadyInv, Members!Matches
<1> QED
  BY <1>2, <1>3, <1>4 DEF MemberListInv

LEMMA MemberListSafe == MemberListInv => Members!ListedOnce
<1> SUFFICES ASSUME MemberListInv PROVE Members!ListedOnce
  OBVIOUS
<1>1. PICK n \in Nat : x2.rows = [i \in 1..n |-> x2.rows[i]]
  BY DEF MemberListInv, RowsInv
<1>2. Len(x2.rows) = n /\ DOMAIN x2.rows = 1..n
  BY <1>1, Appended
<1>3. \A i \in 1..n : x2.rows[i].acct \in 1..2
  BY <1>2 DEF MemberListInv, RowsInv
<1>4. \A i, j \in 1..n : i < j => x2.rows[i].acct < x2.rows[j].acct
  BY <1>2 DEF MemberListInv, RowsInv
<1>5. n <= 2
  <2>1. n > 2 => 1 \in 1..n /\ 2 \in 1..n /\ 3 \in 1..n
    OBVIOUS
  <2> QED
    BY <1>3, <1>4, <2>1
<1>6. Cardinality(Members!Shown) = n
  <2>1. CASE n = 0
    <3>1. Members!Shown = {}
      BY <1>2, <2>1 DEF Members!Shown
    <3> QED
      BY <2>1, <3>1, FS_EmptySet
  <2>2. CASE n = 1
    <3>1. Members!Shown = {x2.rows[1].acct}
      BY <1>2, <2>2 DEF Members!Shown
    <3> QED
      BY <2>2, <3>1, FS_Singleton
  <2>3. CASE n = 2
    <3>1. x2.rows[1].acct = 1 /\ x2.rows[2].acct = 2
      BY <1>3, <1>4, <2>3
    <3>2. Members!Shown = 1..2
      BY <1>2, <2>3, <3>1 DEF Members!Shown
    <3> PICK S : S = {1}
      OBVIOUS
    <3>a. IsFiniteSet(S) /\ Cardinality(S) = 1
      BY FS_Singleton
    <3>3. Cardinality(S \cup {2}) = 2
      BY <3>a, FS_AddElement
    <3>4. 1..2 = S \cup {2}
      OBVIOUS
    <3> QED
      BY <2>3, <3>2, <3>3, <3>4
  <2> QED
    BY <1>5, <2>1, <2>2, <2>3
<1>7. x2.done => x10 \subseteq Members!Shown
  BY DEF MemberListInv, SteadyInv, ShownRow, Members!Shown
<1>8. Cardinality(Members!Shown) = Len(x2.rows)
  BY <1>2, <1>6
<1> QED
  BY <1>7, <1>8 DEF Members!ListedOnce, Members!Cardinality, Cardinality

\* The list is emptied, grows by a row, or its rows are drawn again.
LEMMA RowsKept ==
  ASSUME MemberListInv, NEW r, r = [i \in DOMAIN x2.rows |-> r[i]],
         \A i \in DOMAIN x2.rows : IsRow(r[i]) /\ r[i].acct = x2.rows[i].acct /\ r[i].of = x2.rows[i].of,
         x2' = [x2 EXCEPT !.rows = r], x1' = [a \in 1..2 |-> x1'[a]], \A a \in 1..2 : IsView(x1'[a])
  PROVE  /\ RowsInv' /\ x2'.gen = x2.gen /\ x2'.filter = x2.filter /\ x2'.cursor = x2.cursor /\ x2'.done = x2.done
         /\ x2'.rows = r /\ DOMAIN r = DOMAIN x2.rows
         /\ \A a : ShownRow(a)' <=> ShownRow(a)
<1>1. PICK g, f, c, d, s : x2 = [gen |-> g, filter |-> f, cursor |-> c, done |-> d, rows |-> s]
  BY DEF MemberListInv, RowsInv
<1>2. x2' = [gen |-> g, filter |-> f, cursor |-> c, done |-> d, rows |-> r]
  BY <1>1
<1>3. PICK n \in Nat : x2.rows = [i \in 1..n |-> x2.rows[i]]
  BY DEF MemberListInv, RowsInv
<1>4. DOMAIN x2.rows = 1..n
  BY <1>3
<1>5. x2'.rows = r /\ x2'.gen = x2.gen /\ x2'.filter = x2.filter /\ x2'.cursor = x2.cursor /\ x2'.done = x2.done
  BY <1>1, <1>2
<1>6. DOMAIN r = 1..n /\ r = [i \in 1..n |-> r[i]]
  BY <1>4
<1>7. \A a : ShownRow(a)' <=> ShownRow(a)
  BY <1>4, <1>5, <1>6 DEF ShownRow
<1>8. /\ x2.gen \in Nat /\ x2.gen # 0 /\ x2.cursor \in 0..2 /\ x2.done \in BOOLEAN
      /\ \A i \in DOMAIN x2.rows : IsRow(x2.rows[i]) /\ x2.rows[i].acct \in 1..2 /\ x2.rows[i].of = x2.gen
      /\ \A i, j \in DOMAIN x2.rows : i < j => x2.rows[i].acct < x2.rows[j].acct
  BY DEF MemberListInv, RowsInv
<1>9. \A i \in DOMAIN r : IsRow(r[i]) /\ r[i].acct \in 1..2 /\ r[i].of = x2.gen
  BY <1>4, <1>6, <1>8
<1>10. \A i, j \in DOMAIN r : i < j => r[i].acct < r[j].acct
  BY <1>4, <1>6, <1>8
<1>11. \A i \in DOMAIN x2'.rows : IsRow(x2'.rows[i])
  BY <1>5, <1>9
<1>12. \E m \in Nat : x2'.rows = [i \in 1..m |-> x2'.rows[i]]
  BY <1>5, <1>6
<1>13. \E h, e, k, l, s1 : x2' = [gen |-> h, filter |-> e, cursor |-> k, done |-> l, rows |-> s1]
  BY <1>2
<1>14. RowsInv'
  BY <1>5, <1>8, <1>9, <1>10, <1>11, <1>12, <1>13 DEF RowsInv, IsRow, IsView
<1> QED
  BY <1>4, <1>5, <1>6, <1>7, <1>14

\* What is drawn again, or free again, is of the same account and list.
LEMMA DrawnRows ==
  ASSUME MemberListInv, NEW a, NEW o, NEW v, NEW r, r = Members!Redrawn(x2.rows, a, o, v)
  PROVE  /\ r = [i \in DOMAIN x2.rows |-> r[i]]
         /\ \A i \in DOMAIN x2.rows :
              /\ IsRow(r[i]) /\ r[i].acct = x2.rows[i].acct /\ r[i].of = x2.rows[i].of
              /\ r[i].v = IF x2.rows[i].acct = a /\ x2.rows[i].of = o THEN v ELSE x2.rows[i].v
<1>1. \A i \in DOMAIN x2.rows : IsRow(x2.rows[i])
  BY DEF MemberListInv, RowsInv
<1>2. IsRow(Members!Row(a, o, v)) /\ Members!Row(a, o, v).acct = a /\ Members!Row(a, o, v).of = o /\ Members!Row(a, o, v).v = v
  BY DEF IsRow, Members!Row
<1> QED
  BY <1>1, <1>2 DEF Members!Redrawn

LEMMA FreedRows ==
  ASSUME MemberListInv, NEW k, NEW r, r = Members!Freed(x2.rows, k)
  PROVE  /\ r = [i \in DOMAIN x2.rows |-> r[i]]
         /\ \A i \in DOMAIN x2.rows : IsRow(r[i]) /\ r[i].acct = x2.rows[i].acct /\ r[i].of = x2.rows[i].of /\ r[i].v = x2.rows[i].v
<1>1. \A i \in DOMAIN x2.rows : IsRow(x2.rows[i])
  BY DEF MemberListInv, RowsInv
<1>2. ASSUME NEW i \in DOMAIN x2.rows
      PROVE  LET q == [x2.rows[i] EXCEPT !.lock = 0] IN
             IsRow(q) /\ q.acct = x2.rows[i].acct /\ q.of = x2.rows[i].of /\ q.v = x2.rows[i].v
  <2>1. PICK b, e, w, l : x2.rows[i] = [acct |-> b, of |-> e, v |-> w, lock |-> l]
    BY <1>1 DEF IsRow
  <2>2. [x2.rows[i] EXCEPT !.lock = 0] = [acct |-> b, of |-> e, v |-> w, lock |-> 0]
    BY <2>1
  <2> QED
    BY <2>1, <2>2 DEF IsRow
<1> QED
  BY <1>1, <1>2 DEF Members!Freed

LEMMA RowsStep ==
  ASSUME MemberListInv, NEW r, r = [i \in DOMAIN x2.rows |-> r[i]],
         \A i \in DOMAIN x2.rows : IsRow(r[i]) /\ r[i].acct = x2.rows[i].acct /\ r[i].of = x2.rows[i].of,
         x2' = [x2 EXCEPT !.rows = r], UNCHANGED <<x1, x4, x10>>
  PROVE  MemberListInv'
<1>1. x1 = [a \in 1..2 |-> x1[a]] /\ \A a \in 1..2 : IsView(x1[a])
  BY DEF MemberListInv, RowsInv
<1>2. /\ RowsInv' /\ x2'.gen = x2.gen /\ x2'.filter = x2.filter /\ x2'.cursor = x2.cursor /\ x2'.done = x2.done
      /\ x2'.rows = r /\ DOMAIN r = DOMAIN x2.rows
      /\ \A a : ShownRow(a)' <=> ShownRow(a)
  BY <1>1, RowsKept
<1>3. PagerInv'
  BY <1>2 DEF MemberListInv, PagerInv
<1>4. SteadyInv'
  <2>1. \A i \in DOMAIN x2'.rows : i \in DOMAIN x2.rows /\ x2'.rows[i].acct = x2.rows[i].acct
    BY <1>2
  <2> QED
    BY <1>2, <2>1 DEF MemberListInv, SteadyInv
<1> QED
  BY <1>2, <1>3, <1>4 DEF MemberListInv

LEMMA SameRows == MemberListInv /\ UNCHANGED <<x1, x2, x10>> => RowsInv' /\ SteadyInv'
<1> SUFFICES ASSUME MemberListInv, UNCHANGED <<x1, x2, x10>> PROVE RowsInv' /\ SteadyInv'
  OBVIOUS
<1>1. RowsInv'
  BY DEF MemberListInv, RowsInv
<1>2. SteadyInv'
  BY DEF MemberListInv, SteadyInv, ShownRow, Members!Matches
<1> QED
  BY <1>1, <1>2

LEMMA FewerPages ==
  ASSUME MemberListInv, UNCHANGED <<x1, x2, x10>>, x4' \subseteq x4
  PROVE  MemberListInv'
<1>1. RowsInv' /\ SteadyInv'
  BY SameRows
<1>2. PagerInv'
  BY DEF MemberListInv, PagerInv
<1> QED
  BY <1>1, <1>2 DEF MemberListInv

LEMMA ReloadStep == MemberListInv /\ Members!Reload => MemberListInv'
<1> SUFFICES ASSUME MemberListInv, Members!Reload PROVE MemberListInv'
  OBVIOUS
<1>1. PICK f : /\ x2' = Members!Emptied(f)
               /\ x4' = x4 \union {Members!Page(x2.gen + 1, f, Members!Emptied(f).cursor)}
               /\ x10' = {a \in 1..2 : Members!Matches(x1[a], f)} /\ x1' = x1
  BY DEF Members!Reload, Members!Accounts
<1> PICK l, v, e : /\ l = (\A p \in x4 : ~p.locks) /\ v = Members!Blank /\ e = << >>
  OBVIOUS
<1> PICK q : q = [gen |-> x2.gen + 1, filter |-> f, after |-> 0, read |-> FALSE, got |-> [item |-> 0, cursor |-> 0, v |-> v], locks |-> l]
  OBVIOUS
<1>2. x2' = [gen |-> x2.gen + 1, filter |-> f, cursor |-> 0, done |-> FALSE, rows |-> e]
  BY <1>1 DEF Members!Emptied
<1>3. x4' = x4 \cup {q}
  BY <1>1 DEF Members!Page, Members!Emptied
<1>4. x2.gen \in Nat /\ DOMAIN e = {} /\ e = [i \in 1..0 |-> e[i]]
  BY DEF MemberListInv, RowsInv
<1>5. RowsInv'
  <2>1. \E n \in Nat : x2'.rows = [i \in 1..n |-> x2'.rows[i]]
    BY <1>2, <1>4
  <2>2. x2'.gen \in Nat /\ x2'.gen # 0 /\ x2'.cursor \in 0..2 /\ x2'.done \in BOOLEAN /\ DOMAIN x2'.rows = {}
    BY <1>2, <1>4
  <2>3. \E g, h, c, d, r : x2' = [gen |-> g, filter |-> h, cursor |-> c, done |-> d, rows |-> r]
    BY <1>2
  <2> QED
    BY <1>1, <2>1, <2>2, <2>3 DEF MemberListInv, RowsInv, IsView
<1>6. PagerInv'
  <2>1. IsPage(q) /\ q.gen = x2'.gen /\ q.filter = x2'.filter /\ q.after = 0 /\ x2'.cursor = 0 /\ ~x2'.done /\ ~q.read
    BY <1>2 DEF IsPage
  <2>2. \A p \in x4 : p.gen \in Nat /\ p.gen <= x2.gen /\ IsPage(p)
    BY DEF MemberListInv, PagerInv
  <2>3. x2'.gen = x2.gen + 1
    BY <1>2
  <2>4. \A p \in x4' : p.gen = x2'.gen => p = q
    BY <1>3, <1>4, <2>2, <2>3
  <2>5. \A p \in x4' : /\ IsPage(p) /\ p.gen \in Nat /\ p.gen <= x2'.gen /\ p.after \in 0..2
                       /\ p.read => p.got.item \in 0..2 /\ p.got.cursor = p.got.item
                                    /\ (p.got.item # 0 => p.got.item > p.after)
    <3> TAKE p \in x4'
    <3>1. CASE p = q
      BY <1>4, <2>1, <2>3, <3>1
    <3>2. CASE p # q
      <4>1. p \in x4
        BY <1>3, <3>2
      <4>2. /\ p.after \in 0..2
            /\ p.read => p.got.item \in 0..2 /\ p.got.cursor = p.got.item
                         /\ (p.got.item # 0 => p.got.item > p.after)
        BY <4>1 DEF MemberListInv, PagerInv
      <4>3. p.gen <= x2'.gen
        BY <1>4, <2>2, <2>3, <4>1
      <4> QED
        BY <2>2, <4>1, <4>2, <4>3
    <3> QED
      BY <3>1, <3>2
  <2> QED
    BY <2>1, <2>4, <2>5 DEF PagerInv, IsPage
<1>7. SteadyInv'
  <2>1. x2'.filter = f /\ x2'.cursor = 0 /\ x2'.done = FALSE /\ DOMAIN x2'.rows = {}
    BY <1>2, <1>4
  <2> QED
    BY <1>1, <2>1 DEF SteadyInv
<1> QED
  BY <1>5, <1>6, <1>7 DEF MemberListInv

\* A page is asked for: the list's only one.
LEMMA MoreStep == MemberListInv /\ Members!LoadMore => MemberListInv'
<1> SUFFICES ASSUME MemberListInv, Members!LoadMore PROVE MemberListInv'
  OBVIOUS
<1>1. ~x2.done /\ (\A p \in x4 : p.gen # x2.gen) /\ UNCHANGED <<x1, x2, x10>>
      /\ x4' = x4 \cup {Members!Page(x2.gen, x2.filter, x2.cursor)}
  BY DEF Members!LoadMore
<1> PICK l, v : /\ l = (\A p \in x4 : ~p.locks) /\ v = Members!Blank
  OBVIOUS
<1> PICK q : q = [gen |-> x2.gen, filter |-> x2.filter, after |-> x2.cursor, read |-> FALSE, got |-> [item |-> 0, cursor |-> 0, v |-> v], locks |-> l]
  OBVIOUS
<1>2. x4' = x4 \cup {q} /\ IsPage(q)
  BY <1>1 DEF Members!Page, IsPage
<1>3. RowsInv' /\ SteadyInv'
  BY <1>1, SameRows
<1>4. x2.gen \in Nat /\ x2.cursor \in 0..2
  BY DEF MemberListInv, RowsInv
<1>5. q.gen = x2.gen /\ q.filter = x2.filter /\ q.after = x2.cursor /\ ~q.read
  OBVIOUS
<1>6. PagerInv'
  BY <1>1, <1>2, <1>4, <1>5 DEF MemberListInv, PagerInv
<1> QED
  BY <1>3, <1>6 DEF MemberListInv

\* What the API reads is the first account after the key that matches now.
LEMMA ReadStep == \A p \in x4 : MemberListInv /\ Members!ReadPage(p) => MemberListInv'
<1> SUFFICES ASSUME NEW p \in x4, MemberListInv, Members!ReadPage(p) PROVE MemberListInv'
  OBVIOUS
<1> DEFINE found == {a \in 1..2 : a > p.after /\ Members!Matches(x1[a], p.filter)}
<1>1. UNCHANGED <<x1, x2, x10>>
      /\ x4' = (x4 \ {p}) \cup {[p EXCEPT !.read = TRUE, !.got = Members!ListMembers(p.after, p.filter)]}
  BY DEF Members!ReadPage
<1>2. p.after \in 0..2 /\ IsPage(p)
  BY DEF MemberListInv, PagerInv
<1>3. PICK i, v : /\ Members!ListMembers(p.after, p.filter) = [item |-> i, cursor |-> i, v |-> v]
                  /\ \/ i = 0 /\ found = {}
                     \/ i \in found /\ \A a \in found : a >= i
  <2>1. CASE found = {}
    BY <2>1 DEF Members!ListMembers, Members!Accounts
  <2>2. CASE found # {}
    <3>1. Members!Min(found) \in found /\ \A a \in found : a >= Members!Min(found)
      <4>1. \E m \in found : \A a \in found : m <= a
        <5>1. CASE 1 \in found
          BY <5>1
        <5>2. CASE 1 \notin found
          <6>1. 2 \in found /\ \A a \in found : a = 2
            BY <2>2, <5>2
          <6> QED
            BY <6>1
        <5> QED
          BY <5>1, <5>2
      <4> HIDE DEF found
      <4> QED
        BY <4>1 DEF Members!Min
    <3> QED
      BY <2>2, <3>1 DEF Members!ListMembers, Members!Accounts
  <2> QED
    BY <2>1, <2>2
<1>4. PICK q : /\ x4' = (x4 \ {p}) \cup {q} /\ IsPage(q)
               /\ q.gen = p.gen /\ q.filter = p.filter /\ q.after = p.after /\ q.got = [item |-> i, cursor |-> i, v |-> v]
  <2>1. PICK g, f, e, b, h, l : p = [gen |-> g, filter |-> f, after |-> e, read |-> b, got |-> h, locks |-> l]
    BY <1>2 DEF IsPage
  <2>2. ASSUME NEW w, NEW o PROVE [p EXCEPT !.read = w, !.got = o] = [gen |-> g, filter |-> f, after |-> e, read |-> w, got |-> o, locks |-> l]
    <3> DEFINE one == [p EXCEPT !.read = w]
    <3>1. one = [gen |-> g, filter |-> f, after |-> e, read |-> w, got |-> h, locks |-> l]
      BY <2>1
    <3>2. [one EXCEPT !.got = o] = [gen |-> g, filter |-> f, after |-> e, read |-> w, got |-> o, locks |-> l]
      <4> HIDE DEF one
      <4> QED
        BY <3>1
    <3> QED
      BY <3>2
  <2> PICK w, o : w = TRUE /\ o = [item |-> i, cursor |-> i, v |-> v]
    OBVIOUS
  <2> PICK q : q = [gen |-> g, filter |-> f, after |-> e, read |-> w, got |-> o, locks |-> l]
    OBVIOUS
  <2>5. x4' = (x4 \ {p}) \cup {q}
    <3>1. x4' = (x4 \ {p}) \cup {[p EXCEPT !.read = w, !.got = o]}
      BY <1>1, <1>3
    <3> QED
      BY <2>2, <3>1
  <2>6. IsPage(q) /\ q.gen = g /\ q.filter = f /\ q.after = e /\ q.got = o
    BY DEF IsPage
  <2>7. p.gen = g /\ p.filter = f /\ p.after = e
    BY <2>1
  <2> QED
    BY <2>5, <2>6, <2>7
<1>5. i \in 0..2 /\ (i # 0 => i > p.after)
  BY <1>3
<1>6. p.gen = x2.gen => \A a \in x10 : a > p.after => i # 0 /\ a >= i
  <2> SUFFICES ASSUME p.gen = x2.gen, NEW a \in x10, a > p.after PROVE a \in found
    BY <1>3
  <2>1. a \in 1..2 /\ p.filter = x2.filter /\ Members!Matches(x1[a], x2.filter)
    BY DEF MemberListInv, PagerInv, SteadyInv
  <2> QED
    BY <2>1
<1>7. RowsInv' /\ SteadyInv'
  BY <1>1, SameRows
<1>8. PagerInv'
  <2>1. q.got.item = i /\ q.got.cursor = i
    BY <1>4
  <2>2. \A r \in x4' : r = q \/ (r \in x4 /\ r # p)
    BY <1>4
  <2> HIDE DEF found
  <2>3. \A r, s \in x4' : r.gen = x2.gen /\ s.gen = x2.gen => r = s
    BY <1>4, <2>2 DEF MemberListInv, PagerInv
  <2>4. q.gen \in Nat /\ q.gen <= x2.gen
    BY <1>4 DEF MemberListInv, PagerInv
  <2>5. q.gen = x2.gen => q.filter = x2.filter /\ q.after = x2.cursor /\ ~x2.done
    BY <1>4 DEF MemberListInv, PagerInv
  <2> QED
    BY <1>1, <1>2, <1>4, <1>5, <1>6, <2>1, <2>2, <2>3, <2>4, <2>5 DEF MemberListInv, PagerInv
<1> QED
  BY <1>7, <1>8 DEF MemberListInv

\* The list's own page adds the next row, or ends the list.
LEMMA ShowStep == \A p \in x4 : MemberListInv /\ Members!ShowPage(p) => MemberListInv'
<1> SUFFICES ASSUME NEW p \in x4, MemberListInv, Members!ShowPage(p) PROVE MemberListInv'
  OBVIOUS
<1>1. UNCHANGED <<x1, x10>> /\ x4' = x4 \ {p} /\ p.read
  BY DEF Members!ShowPage
<1>2. CASE p.gen # x2.gen
  <2>1. x2' = x2
    BY <1>2 DEF Members!ShowPage, Members!Superseded
  <2> QED
    BY <1>1, <2>1, FewerPages
<1>3. CASE p.gen = x2.gen
  <2>1. /\ p.after = x2.cursor /\ ~x2.done /\ p.got.item \in 0..2 /\ p.got.cursor = p.got.item
        /\ (p.got.item # 0 => p.got.item > p.after)
        /\ \A a \in x10 : a > p.after => p.got.item # 0 /\ a >= p.got.item
    BY <1>1, <1>3 DEF MemberListInv, PagerInv
  <2>2. \A q \in x4' : q \in x4 /\ q.gen # x2.gen
    BY <1>1, <1>3 DEF MemberListInv, PagerInv
  <2>3. PICK g, f, c, d, s : x2 = [gen |-> g, filter |-> f, cursor |-> c, done |-> d, rows |-> s]
    BY DEF MemberListInv, RowsInv
  <2>4. PICK n \in Nat : x2.rows = [i \in 1..n |-> x2.rows[i]]
    BY DEF MemberListInv, RowsInv
  <2>5. DOMAIN x2.rows = 1..n
    BY <2>4
  <2>6. /\ x1 = [a \in 1..2 |-> x1[a]] /\ \A a \in 1..2 : IsView(x1[a])
        /\ x2.gen \in Nat /\ x2.gen # 0 /\ x2.cursor \in 0..2 /\ x10 \subseteq 1..2
    BY DEF MemberListInv, RowsInv, SteadyInv
  <2>7. /\ \A i \in 1..n : IsRow(x2.rows[i]) /\ x2.rows[i].acct \in 1..2 /\ x2.rows[i].of = x2.gen
        /\ \A i, j \in 1..n : i < j => x2.rows[i].acct < x2.rows[j].acct
    BY <2>5 DEF MemberListInv, RowsInv
  <2>8. /\ \A i \in 1..n : x2.rows[i].acct <= x2.cursor
        /\ \A a \in x10 : a <= x2.cursor => \E i \in 1..n : x2.rows[i].acct = a
    BY <2>1, <2>5 DEF MemberListInv, SteadyInv, ShownRow
  <2>9. \A a \in x10 : Members!Matches(x1[a], x2.filter)
    BY DEF MemberListInv, SteadyInv
  <2>10. ASSUME NEW k, NEW w, NEW r PROVE [x2 EXCEPT !.cursor = k, !.done = w] = [gen |-> g, filter |-> f, cursor |-> k, done |-> w, rows |-> s]
                                          /\ [x2 EXCEPT !.cursor = k, !.rows = r] = [gen |-> g, filter |-> f, cursor |-> k, done |-> d, rows |-> r]
    <3> DEFINE one == [x2 EXCEPT !.cursor = k]
    <3>1. one = [gen |-> g, filter |-> f, cursor |-> k, done |-> d, rows |-> s]
      BY <2>3
    <3>2. [one EXCEPT !.done = w] = [gen |-> g, filter |-> f, cursor |-> k, done |-> w, rows |-> s]
      <4> HIDE DEF one
      <4> QED
        BY <3>1
    <3>3. [one EXCEPT !.rows = r] = [gen |-> g, filter |-> f, cursor |-> k, done |-> d, rows |-> r]
      <4> HIDE DEF one
      <4> QED
        BY <3>1
    <3> QED
      BY <3>2, <3>3
  <2>11. g = x2.gen /\ f = x2.filter /\ c = x2.cursor /\ d = x2.done /\ s = x2.rows
    BY <2>3
  <2>12. PagerInv' \/ x2'.gen # x2.gen
    BY <1>1, <2>2 DEF MemberListInv, PagerInv
  <2>13. CASE p.got.item = 0
    <3> PICK w : w = TRUE
      OBVIOUS
    <3>1. x2' = [gen |-> g, filter |-> f, cursor |-> 0, done |-> w, rows |-> s]
      <4>1. x2' = [x2 EXCEPT !.cursor = 0, !.done = w]
        BY <1>3, <2>13 DEF Members!ShowPage, Members!Superseded
      <4> QED
        BY <2>10, <4>1
    <3>2. x2'.rows = x2.rows /\ x2'.gen = x2.gen /\ x2'.filter = x2.filter /\ x2'.cursor = 0 /\ x2'.done = TRUE
      BY <2>11, <3>1
    <3>3. RowsInv'
      <4>1. \E i, j, k, l, m : x2' = [gen |-> i, filter |-> j, cursor |-> k, done |-> l, rows |-> m]
        BY <3>1
      <4>2. \A i \in 1..n : IsRow(x2'.rows[i])
        BY <2>7, <3>2
      <4>3. \E m \in Nat : x2'.rows = [i \in 1..m |-> x2'.rows[i]]
        BY <2>4, <3>2
      <4>4. DOMAIN x2'.rows = 1..n
        BY <2>5, <3>2
      <4>5. /\ \A i \in 1..n : x2'.rows[i].acct \in 1..2 /\ x2'.rows[i].of = x2'.gen
            /\ \A i, j \in 1..n : i < j => x2'.rows[i].acct < x2'.rows[j].acct
        BY <2>7, <3>2
      <4>6. x2'.cursor \in 0..2 /\ x2'.gen \in Nat /\ x2'.gen # 0
        BY <2>6, <3>2
      <4>7. x2'.done \in BOOLEAN
        BY <3>2
      <4> QED
        BY <1>1, <2>6, <4>1, <4>2, <4>3, <4>4, <4>5, <4>6, <4>7 DEF RowsInv
    <3>4. \A a \in x10 : \E i \in 1..n : x2.rows[i].acct = a
      BY <2>1, <2>6, <2>8, <2>13
    <3>5. SteadyInv'
      BY <1>1, <2>5, <2>6, <2>9, <3>2, <3>4 DEF SteadyInv, ShownRow, Members!Matches
    <3> QED
      BY <2>12, <3>2, <3>3, <3>5 DEF MemberListInv
  <2>14. CASE p.got.item # 0
    <3> PICK e : e = Members!Row(p.got.item, p.gen, p.got.v)
      OBVIOUS
    <3> PICK r : r = [i \in 1..n + 1 |-> IF i = n + 1 THEN e ELSE x2.rows[i]]
      OBVIOUS
    <3>1. e.acct = p.got.item /\ e.of = x2.gen /\ IsRow(e)
      BY <1>3 DEF Members!Row, IsRow
    <3>2. x2' = [gen |-> g, filter |-> f, cursor |-> p.got.item, done |-> d, rows |-> r]
      <4>1. x2' = [x2 EXCEPT !.cursor = p.got.item, !.rows = Append(x2.rows, e)]
        BY <1>3, <2>1, <2>14 DEF Members!ShowPage, Members!Superseded
      <4>2. Append(x2.rows, e) = r
        BY <2>4, Appended
      <4>3. x2' = [x2 EXCEPT !.cursor = p.got.item, !.rows = r]
        BY <4>1, <4>2
      <4> QED
        BY <2>10, <4>3
    <3>3. x2'.rows = r /\ x2'.gen = x2.gen /\ x2'.filter = x2.filter /\ x2'.cursor = p.got.item /\ x2'.done = x2.done
      BY <2>11, <3>2
    <3>4. DOMAIN r = 1..n + 1 /\ (\A i \in 1..n : r[i] = x2.rows[i]) /\ r[n + 1] = e /\ r = [i \in 1..n + 1 |-> r[i]]
      OBVIOUS
    <3>5. \A i \in 1..n + 1 : IsRow(r[i]) /\ r[i].acct \in 1..2 /\ r[i].of = x2.gen
      BY <2>1, <2>7, <2>14, <3>1, <3>4
    <3>6. \A i, j \in 1..n + 1 : i < j => r[i].acct < r[j].acct
      <4> SUFFICES ASSUME NEW i \in 1..n + 1, NEW j \in 1..n + 1, i < j PROVE r[i].acct < r[j].acct
        OBVIOUS
      <4>1. CASE j = n + 1
        BY <2>1, <2>6, <2>7, <2>8, <2>14, <3>1, <3>4, <4>1
      <4>2. CASE j # n + 1
        BY <2>7, <3>4, <4>2
      <4> QED
        BY <4>1, <4>2
    <3>7. RowsInv'
      <4>1. \E i, j, k, l, m : x2' = [gen |-> i, filter |-> j, cursor |-> k, done |-> l, rows |-> m]
        BY <3>2
      <4>2. \E m \in Nat : x2'.rows = [i \in 1..m |-> x2'.rows[i]]
        BY <3>3, <3>4
      <4>3. DOMAIN x2'.rows = 1..n + 1
        BY <3>3, <3>4
      <4>4. x2'.cursor \in 0..2 /\ x2'.done \in BOOLEAN /\ x2'.gen \in Nat /\ x2'.gen # 0
        BY <2>1, <2>6, <3>3 DEF MemberListInv, RowsInv
      <4> QED
        BY <1>1, <2>6, <3>3, <3>5, <3>6, <4>1, <4>2, <4>3, <4>4 DEF RowsInv
    <3>8. SteadyInv'
      <4>1. \A i \in 1..n + 1 : r[i].acct <= p.got.item
        BY <2>1, <2>6, <2>7, <2>8, <2>14, <3>1, <3>4
      <4>2. ASSUME NEW a \in x10, a <= p.got.item PROVE \E i \in 1..n + 1 : r[i].acct = a
        <5>1. CASE a <= x2.cursor
          BY <2>8, <3>4, <5>1
        <5>2. CASE ~(a <= x2.cursor)
          <6>1. a = p.got.item
            BY <2>1, <2>6, <4>2, <5>2
          <6>2. n + 1 \in 1..n + 1
            OBVIOUS
          <6> QED
            BY <3>1, <3>4, <6>1, <6>2
        <5> QED
          BY <5>1, <5>2
      <4>3. DOMAIN x2'.rows = 1..n + 1 /\ x2'.rows = r /\ x2'.filter = x2.filter /\ ~x2'.done /\ x2'.cursor = p.got.item
        BY <2>1, <3>3, <3>4
      <4>4. \A a \in x10 : a <= x2'.cursor => ShownRow(a)'
        BY <4>2, <4>3 DEF ShownRow
      <4>5. \A i \in DOMAIN x2'.rows : x2'.rows[i].acct <= x2'.cursor
        BY <4>1, <4>3
      <4> QED
        BY <1>1, <2>6, <2>9, <4>3, <4>4, <4>5 DEF SteadyInv, Members!Matches
    <3> QED
      BY <2>12, <3>3, <3>7, <3>8 DEF MemberListInv
  <2> QED
    BY <2>13, <2>14
<1> QED
  BY <1>2, <1>3

Kinds == {"suspend", "reinstate", "flag", "clear"}

LEMMA WantedView == \A v, k : IsView(v) /\ k \in Kinds => IsView(Members!Wanted(k, v))
<1> SUFFICES ASSUME NEW v, NEW k \in Kinds, IsView(v) PROVE IsView(Members!Wanted(k, v))
  OBVIOUS
<1>1. PICK s : \E b \in BOOLEAN : v = [status |-> s, canary |-> b]
  BY DEF IsView
<1>2. PICK b \in BOOLEAN : v = [status |-> s, canary |-> b]
  BY <1>1
<1>3. ASSUME NEW w PROVE [v EXCEPT !.status = w] = [status |-> w, canary |-> b] /\ [v EXCEPT !.canary = w] = [status |-> s, canary |-> w]
  BY <1>2
<1>4. CASE k \in {"suspend", "reinstate"}
  <2>1. PICK w : Members!Wanted(k, v) = [v EXCEPT !.status = w]
    BY <1>4 DEF Members!Wanted
  <2> QED
    BY <1>3, <2>1 DEF IsView
<1>5. CASE k \in {"flag", "clear"}
  <2>1. PICK w \in BOOLEAN : Members!Wanted(k, v) = [v EXCEPT !.canary = w]
    BY <1>5 DEF Members!Wanted
  <2> QED
    BY <1>3, <2>1 DEF IsView
<1> QED
  BY <1>4, <1>5 DEF Kinds

\* What the API does to an account: a member that matches no more is no longer steady.
LEMMA ServeStep == \A c \in x7 : MemberListInv /\ c.kind \in Kinds /\ c.acct \in 1..2 /\ Members!Serve(c) => MemberListInv'
<1> SUFFICES ASSUME NEW c \in x7, MemberListInv, c.kind \in Kinds, c.acct \in 1..2, Members!Serve(c) PROVE MemberListInv'
  OBVIOUS
<1>1. PICK v : /\ x1' = [x1 EXCEPT ![c.acct] = v] /\ (v = x1[c.acct] \/ v = Members!Wanted(c.kind, x1[c.acct]))
               /\ x10' = IF Members!Matches(v, x2.filter) THEN x10 ELSE x10 \ {c.acct}
               /\ UNCHANGED <<x2, x4>>
  BY DEF Members!Serve
<1>2. x1 = [a \in 1..2 |-> x1[a]] /\ \A a \in 1..2 : IsView(x1[a])
  BY DEF MemberListInv, RowsInv
<1>3. x1' = [a \in 1..2 |-> IF a = c.acct THEN v ELSE x1[a]] /\ IsView(v)
  BY <1>1, <1>2, WantedView
<1>4. x1' = [a \in 1..2 |-> x1'[a]] /\ \A a \in 1..2 : IsView(x1'[a])
  BY <1>2, <1>3
<1>5. RowsInv'
  BY <1>1, <1>4 DEF MemberListInv, RowsInv
<1>6. x10' \subseteq x10 /\ \A a \in x10' : Members!Matches(x1'[a], x2.filter)
  <2>1. x10 \subseteq 1..2 /\ \A a \in x10 : Members!Matches(x1[a], x2.filter)
    BY DEF MemberListInv, SteadyInv
  <2>2. x10' \subseteq x10 /\ (c.acct \in x10' => Members!Matches(v, x2.filter))
    BY <1>1
  <2> SUFFICES ASSUME NEW a \in x10' PROVE Members!Matches(x1'[a], x2.filter)
    BY <2>2
  <2>3. CASE a = c.acct
    BY <1>3, <2>2, <2>3
  <2>4. CASE a # c.acct
    <3>1. x1'[a] = x1[a]
      BY <1>3, <2>1, <2>2, <2>4
    <3> QED
      BY <2>1, <2>2, <3>1
  <2> QED
    BY <2>3, <2>4
<1>7. SteadyInv'
  BY <1>1, <1>6 DEF MemberListInv, SteadyInv, ShownRow, Members!Matches
<1>8. PagerInv'
  BY <1>1, <1>6 DEF MemberListInv, PagerInv
<1> QED
  BY <1>5, <1>7, <1>8 DEF MemberListInv

LEMMA RedrawStep ==
  ASSUME MemberListInv, NEW a, NEW o, NEW v, Members!Draw(a, o, v), UNCHANGED <<x1, x4, x10>>
  PROVE  MemberListInv'
<1> PICK r : r = Members!Redrawn(x2.rows, a, o, v)
  OBVIOUS
<1>1. x2' = [x2 EXCEPT !.rows = r]
  BY DEF Members!Draw
<1>2. r = [i \in DOMAIN x2.rows |-> r[i]]
      /\ \A i \in DOMAIN x2.rows : IsRow(r[i]) /\ r[i].acct = x2.rows[i].acct /\ r[i].of = x2.rows[i].of
  BY DrawnRows
<1> QED
  BY <1>1, <1>2, RowsStep

LEMMA PressStep == MemberListInv /\ Members!Press => MemberListInv'
<1> SUFFICES ASSUME MemberListInv, Members!Press PROVE MemberListInv'
  OBVIOUS
<1>1. PICK k \in DOMAIN x2.rows : x2' = [x2 EXCEPT !.rows[k].lock = x8.acts + 1]
  BY DEF Members!Press
<1>2. UNCHANGED <<x1, x4, x10>>
  BY DEF Members!Press
<1> PICK n : n = x8.acts + 1
  OBVIOUS
<1>3. \A i \in DOMAIN x2.rows : IsRow(x2.rows[i])
  BY DEF MemberListInv, RowsInv
<1> PICK r : r = [i \in DOMAIN x2.rows |-> IF i = k THEN [x2.rows[k] EXCEPT !.lock = n] ELSE x2.rows[i]]
  OBVIOUS
<1>4. PICK m \in Nat : x2.rows = [i \in 1..m |-> x2.rows[i]]
  BY DEF MemberListInv, RowsInv
<1>5. [x2.rows EXCEPT ![k].lock = n] = r
  BY <1>4
<1>6. x2' = [x2 EXCEPT !.rows = r]
  BY <1>1, <1>5
<1>7. r = [i \in DOMAIN x2.rows |-> r[i]]
  BY <1>4
<1>8. ASSUME NEW i \in DOMAIN x2.rows PROVE IsRow(r[i]) /\ r[i].acct = x2.rows[i].acct /\ r[i].of = x2.rows[i].of
  <2>1. CASE i # k
    BY <1>3, <2>1
  <2>2. CASE i = k
    <3>1. PICK a, o, v, l : x2.rows[k] = [acct |-> a, of |-> o, v |-> v, lock |-> l]
      BY <1>3 DEF IsRow
    <3>2. [x2.rows[k] EXCEPT !.lock = n] = [acct |-> a, of |-> o, v |-> v, lock |-> n]
      BY <3>1
    <3>3. r[i] = [acct |-> a, of |-> o, v |-> v, lock |-> n]
      BY <2>2, <3>2
    <3> QED
      BY <2>2, <3>1, <3>3 DEF IsRow
  <2> QED
    BY <2>1, <2>2
<1> QED
  BY <1>2, <1>6, <1>7, <1>8, RowsStep

LEMMA MemberListStep ==
  /\ MemberListInv /\ [Members!Next]_(Members!vars)
  /\ \A c \in x7 : c.kind \in Kinds /\ c.acct \in 1..2
  => MemberListInv'
<1> SUFFICES ASSUME MemberListInv, [Members!Next]_(Members!vars), \A c \in x7 : c.kind \in Kinds /\ c.acct \in 1..2 PROVE MemberListInv'
  OBVIOUS
<1>1. CASE Members!Reload
  BY <1>1, ReloadStep
<1>2. CASE Members!LoadMore
  BY <1>2, MoreStep
<1>3. CASE Members!Press
  BY <1>3, PressStep
<1>4. ASSUME NEW p \in x4, Members!ReadPage(p) \/ Members!ShowPage(p) PROVE MemberListInv'
  BY <1>4, ReadStep, ShowStep
<1>5. ASSUME UNCHANGED <<x1, x2, x10>>, x4' \subseteq x4 PROVE MemberListInv'
  BY <1>5, FewerPages
<1>6. ASSUME NEW p \in x4, Members!PageFails(p) PROVE MemberListInv'
  BY <1>5, <1>6 DEF Members!PageFails
<1>7. CASE Members!MoreTesters \/ Members!ClearTester
  BY <1>5, <1>7 DEF Members!MoreTesters, Members!ClearTester
<1>8. ASSUME NEW t \in x6, Members!ReadTesters(t) \/ Members!ShowTesters(t) \/ Members!TestersFail(t) PROVE MemberListInv'
  BY <1>5, <1>8 DEF Members!ReadTesters, Members!ShowTesters, Members!TestersFail
<1>9. ASSUME NEW c \in x7, Members!Serve(c) PROVE MemberListInv'
  BY <1>9, ServeStep
<1>10. ASSUME NEW c \in x7, Members!RowAnswer(c) PROVE MemberListInv'
  <2>1. UNCHANGED <<x1, x4, x10>> /\ \E v : Members!Draw(c.acct, c.of, v)
    BY <1>10 DEF Members!RowAnswer
  <2> QED
    BY <2>1, RedrawStep
<1>11. ASSUME NEW c \in x7, Members!TesterAnswer(c) PROVE MemberListInv'
  <2>1. UNCHANGED <<x1, x4, x10>> /\ (x2' = x2 \/ \E v, o : Members!Draw(c.acct, o, v))
    BY <1>11 DEF Members!TesterAnswer
  <2> QED
    BY <1>5, <2>1, RedrawStep
<1>12. ASSUME NEW c \in x7, Members!ActionFails(c) PROVE MemberListInv'
  <2> PICK r : r = Members!Freed(x2.rows, c.id)
    OBVIOUS
  <2>1. x2' = [x2 EXCEPT !.rows = r] /\ UNCHANGED <<x1, x4, x10>>
    BY <1>12 DEF Members!ActionFails
  <2>2. r = [i \in DOMAIN x2.rows |-> r[i]]
        /\ \A i \in DOMAIN x2.rows : IsRow(r[i]) /\ r[i].acct = x2.rows[i].acct /\ r[i].of = x2.rows[i].of
    BY FreedRows
  <2> QED
    BY <2>1, <2>2, RowsStep
<1>13. CASE UNCHANGED Members!vars
  BY <1>5, <1>13 DEF Members!vars
<1> QED
  BY <1>1, <1>2, <1>3, <1>4, <1>6, <1>7, <1>8, <1>9, <1>10, <1>11, <1>12, <1>13 DEF Members!Next, Members!Step

--------------------------------------------------------------------------------
(* The calls, the loads, and what agrees with the accounts.                *)

IsCall(c) == \E i, a, o, k, f, b, s, q, w : c = [id |-> i, acct |-> a, of |-> o, kind |-> k, from |-> f,
                                                 base |-> b, served |-> s, ok |-> q, saw |-> w]

\* The testers' list and the loads of it.
LoadsInv ==
  /\ \E g, r, d : x5 = [gen |-> g, rows |-> r, done |-> d]
  /\ x5.gen \in Nat /\ x5.rows \subseteq 1..2
  /\ \A t \in x6 : IsLoad(t) /\ t.gen \in Nat /\ t.gen <= x5.gen /\ (t.read => t.got \subseteq 1..2)

CallsInv ==
  /\ x3 = [a \in 1..2 |-> x3[a]] /\ LoadsInv
  /\ \E k, m : x8 = [acts |-> k, mishaps |-> m]
  /\ x8.acts \in Nat /\ x8.mishaps \in Nat
  /\ \A c \in x7 : /\ IsCall(c) /\ c.id \in Nat /\ c.id <= x8.acts /\ c.acct \in 1..2 /\ c.kind \in Kinds
                   /\ c.from = "row" \/ (c.from = "testers" /\ c.kind = "clear")
  /\ \A c, d \in x7 : c.id = d.id => c = d

\* The rows of an account show v, and so does what was last drawn for it.
RowsShow(a, v) == \A i \in DOMAIN x2.rows : x2.rows[i].acct = a => x2.rows[i].v = v /\ x3[a].of = x2.gen /\ x3[a].v = v

TestersShow(a) ==
  /\ a \in x5.rows => x1[a].canary = TRUE
  /\ x5.done /\ x1[a].canary = TRUE => a \in x5.rows
  /\ \A t \in x6 : t.gen = x5.gen /\ t.read => (a \in t.got <=> x1[a].canary = TRUE)

\* A call that was done and is still to be answered.
Done(c) == c.served /\ c.ok

Agrees(a) ==
  /\ ~Members!Crossing(a)
  /\ \A c \in x7 : c.acct = a /\ ~c.served => c.base = x1[a]
  /\ (\A c \in x7 : ~(c.acct = a /\ Done(c))) =>
       /\ RowsShow(a, x1[a]) /\ TestersShow(a)
       /\ \A p \in x4 : p.gen = x2.gen /\ p.read /\ p.got.item = a => p.got.v = x1[a]
  /\ \A c \in x7 : c.acct = a /\ Done(c) =>
       /\ x1[a] = Members!Wanted(c.kind, c.base) /\ c.saw = x1[a] /\ RowsShow(a, c.base)
       /\ c.kind \in {"suspend", "reinstate"} => TestersShow(a)
       /\ c.kind = "clear" => x1[a].canary = FALSE

AgreeInv == \A a \in 1..2 : a \notin x9 => Agrees(a)

LEMMA CallsInit == Members!Init => CallsInv /\ AgreeInv
<1> SUFFICES ASSUME Members!Init PROVE CallsInv /\ AgreeInv
  OBVIOUS
<1>1. /\ x2 = [gen |-> 1, filter |-> "any", cursor |-> 0, done |-> FALSE, rows |-> << >>]
      /\ x5 = [gen |-> 1, rows |-> {}, done |-> FALSE] /\ x7 = {} /\ x8 = [acts |-> 0, mishaps |-> 0]
      /\ x3 = [a \in 1..2 |-> [of |-> 0, v |-> Members!Blank]]
      /\ x6 = {[gen |-> 1, read |-> FALSE, got |-> {}, locks |-> TRUE]}
      /\ \A p \in x4 : ~p.read
  BY DEF Members!Init, Members!Accounts
<1>2. \A t \in x6 : IsLoad(t) /\ t.gen = 1 /\ ~t.read
  BY <1>1 DEF IsLoad
<1>3. CallsInv
  <2>1. (\E g, r, d : x5 = [gen |-> g, rows |-> r, done |-> d]) /\ x5.gen = 1 /\ x5.rows = {}
    <3> PICK d : d = FALSE
      OBVIOUS
    <3>1. x5 = [gen |-> 1, rows |-> {}, done |-> d]
      BY <1>1
    <3> QED
      BY <3>1
  <2>2. (\E k, m : x8 = [acts |-> k, mishaps |-> m]) /\ x8.acts = 0 /\ x8.mishaps = 0
    BY <1>1
  <2>3. x3 = [a \in 1..2 |-> x3[a]]
    BY <1>1
  <2>4. \A t \in x6 : IsLoad(t) /\ t.gen \in Nat /\ t.gen <= x5.gen /\ ~t.read
    BY <1>2, <2>1
  <2>5. x8.acts \in Nat /\ x8.mishaps \in Nat /\ x5.gen \in Nat /\ x5.rows \subseteq 1..2
    BY <2>1, <2>2
  <2> QED
    BY <1>1, <2>1, <2>2, <2>3, <2>4, <2>5 DEF CallsInv, LoadsInv
<1>4. ASSUME NEW a \in 1..2 PROVE Agrees(a)
  <2>1. ~Members!Crossing(a)
    BY <1>1 DEF Members!Crossing
  <2>2. RowsShow(a, x1[a]) /\ TestersShow(a)
    BY <1>1, <1>2 DEF RowsShow, TestersShow
  <2> QED
    BY <1>1, <2>1, <2>2 DEF Agrees
<1> QED
  BY <1>3, <1>4 DEF AgreeInv

LEMMA AgreeSafe == MemberListInv /\ AgreeInv => Members!PageAgrees
<1> SUFFICES ASSUME MemberListInv, AgreeInv, x4 = {}, x6 = {}, x7 = {}
    PROVE  /\ \A i \in DOMAIN x2.rows : x2.rows[i].acct \notin x9 => x2.rows[i].v = x1[x2.rows[i].acct]
           /\ x5.done => \A a \in (1..2) \ x9 : a \in x5.rows <=> x1[a].canary
  BY DEF Members!PageAgrees, Members!Accounts
<1>1. ASSUME NEW a \in 1..2, a \notin x9 PROVE RowsShow(a, x1[a]) /\ TestersShow(a)
  BY <1>1 DEF AgreeInv, Agrees
<1>2. \A i \in DOMAIN x2.rows : x2.rows[i].acct \in 1..2
  BY DEF MemberListInv, RowsInv
<1>3. \A a \in 1..2 : x1[a].canary \in BOOLEAN
  BY DEF MemberListInv, RowsInv, IsView
<1> QED
  BY <1>1, <1>2, <1>3 DEF RowsShow, TestersShow

\* A call that the API has answered.
Answered(c, t, k, v) == [c EXCEPT !.served = t, !.ok = k, !.saw = v]

LEMMA AnsweredCall ==
  ASSUME NEW c, IsCall(c), NEW t, NEW k, NEW v, NEW d, d = Answered(c, t, k, v)
  PROVE  /\ IsCall(d) /\ d.id = c.id /\ d.acct = c.acct /\ d.of = c.of /\ d.kind = c.kind /\ d.from = c.from /\ d.base = c.base
         /\ d.served = t /\ d.ok = k /\ d.saw = v
<1>1. PICK i, a, o, h, f, b, s, q, w : c = [id |-> i, acct |-> a, of |-> o, kind |-> h, from |-> f, base |-> b, served |-> s, ok |-> q, saw |-> w]
  BY DEF IsCall
<1> DEFINE one == [c EXCEPT !.served = t]
           two == [one EXCEPT !.ok = k]
<1>2. one = [id |-> i, acct |-> a, of |-> o, kind |-> h, from |-> f, base |-> b, served |-> t, ok |-> q, saw |-> w]
  BY <1>1
<1>3. two = [id |-> i, acct |-> a, of |-> o, kind |-> h, from |-> f, base |-> b, served |-> t, ok |-> k, saw |-> w]
  <2> HIDE DEF one
  <2> QED
    BY <1>2
<1>4. [two EXCEPT !.saw = v] = [id |-> i, acct |-> a, of |-> o, kind |-> h, from |-> f, base |-> b, served |-> t, ok |-> k, saw |-> v]
  <2> HIDE DEF one, two
  <2> QED
    BY <1>3
<1>5. d = [id |-> i, acct |-> a, of |-> o, kind |-> h, from |-> f, base |-> b, served |-> t, ok |-> k, saw |-> v]
  BY <1>4 DEF Answered
<1>6. IsCall(d)
  BY <1>5 DEF IsCall
<1>7. d.id = c.id /\ d.acct = c.acct /\ d.of = c.of /\ d.kind = c.kind /\ d.from = c.from /\ d.base = c.base
      /\ d.served = t /\ d.ok = k /\ d.saw = v
  BY <1>1, <1>5
<1> QED
  BY <1>6, <1>7

LEMMA ServedCall ==
  ASSUME CallsInv, NEW c \in x7, Members!Serve(c)
  PROVE  \E ok : \E v : \E d :
           /\ ok = Members!Accepted(c.kind, x1[c.acct])
           /\ v = IF ok THEN Members!Wanted(c.kind, x1[c.acct]) ELSE x1[c.acct]
           /\ x1' = [x1 EXCEPT ![c.acct] = v] /\ x7' = (x7 \ {c}) \cup {d}
           /\ IsCall(d) /\ d.id = c.id /\ d.acct = c.acct /\ d.of = c.of /\ d.kind = c.kind /\ d.from = c.from /\ d.base = c.base
           /\ d.served = TRUE /\ d.ok = ok /\ d.saw = v
<1>1. PICK ok : ok = Members!Accepted(c.kind, x1[c.acct])
  OBVIOUS
<1>2. PICK v : v = IF ok THEN Members!Wanted(c.kind, x1[c.acct]) ELSE x1[c.acct]
  OBVIOUS
<1>3. x1' = [x1 EXCEPT ![c.acct] = v] /\ x7' = (x7 \ {c}) \cup {Answered(c, TRUE, ok, v)}
  BY <1>1, <1>2 DEF Members!Serve, Answered
<1>t. PICK t : t = TRUE
  OBVIOUS
<1>4. x7' = (x7 \ {c}) \cup {Answered(c, t, ok, v)}
  BY <1>3, <1>t
<1>5. IsCall(c)
  BY DEF CallsInv
<1>6. PICK d : d = Answered(c, t, ok, v)
  OBVIOUS
<1>7. /\ IsCall(d) /\ d.id = c.id /\ d.acct = c.acct /\ d.of = c.of /\ d.kind = c.kind /\ d.from = c.from /\ d.base = c.base
      /\ d.served = t /\ d.ok = ok /\ d.saw = v
  BY <1>5, <1>6, AnsweredCall
<1>8. x7' = (x7 \ {c}) \cup {d} /\ d.served = TRUE
  BY <1>4, <1>6, <1>7, <1>t
<1> QED
  BY <1>1, <1>2, <1>3, <1>7, <1>8

\* One call more, none, or one that is answered.
LEMMA CallsOf ==
  ASSUME CallsInv, x3' = [a \in 1..2 |-> x3'[a]], LoadsInv', x8'.acts \in Nat, x8'.mishaps \in Nat, x8.acts <= x8'.acts, \E k, m : x8' = [acts |-> k, mishaps |-> m],
         \/ x7' \subseteq x7
         \/ \E c \in x7 : \E d : x7' = (x7 \ {c}) \cup {d} /\ IsCall(d) /\ d.id = c.id /\ d.acct = c.acct /\ d.kind = c.kind /\ d.from = c.from
         \/ \E d : /\ x7' = x7 \cup {d} /\ IsCall(d) /\ d.id = x8.acts + 1 /\ x8'.acts = x8.acts + 1 /\ d.acct \in 1..2 /\ d.kind \in Kinds
                   /\ d.from = "row" \/ (d.from = "testers" /\ d.kind = "clear")
  PROVE  CallsInv'
<1>1. /\ x8.acts \in Nat /\ \A c \in x7 : /\ IsCall(c) /\ c.id \in Nat /\ c.id <= x8.acts /\ c.acct \in 1..2 /\ c.kind \in Kinds
                                          /\ c.from = "row" \/ (c.from = "testers" /\ c.kind = "clear")
      /\ \A c, d \in x7 : c.id = d.id => c = d
  BY DEF CallsInv
<1> DEFINE Fine(c) == /\ IsCall(c) /\ c.id \in Nat /\ c.id <= x8'.acts /\ c.acct \in 1..2 /\ c.kind \in Kinds
                      /\ c.from = "row" \/ (c.from = "testers" /\ c.kind = "clear")
<1>2. \A c \in x7 : Fine(c)
  BY <1>1
<1>3. (\A c \in x7' : Fine(c)) /\ \A c, d \in x7' : c.id = d.id => c = d
  <2>1. CASE x7' \subseteq x7
    BY <1>1, <1>2, <2>1
  <2>2. CASE \E c \in x7 : \E d : x7' = (x7 \ {c}) \cup {d} /\ IsCall(d) /\ d.id = c.id /\ d.acct = c.acct /\ d.kind = c.kind /\ d.from = c.from
    <3>1. PICK c \in x7 : \E d : x7' = (x7 \ {c}) \cup {d} /\ IsCall(d) /\ d.id = c.id /\ d.acct = c.acct /\ d.kind = c.kind /\ d.from = c.from
      BY <2>2
    <3>a. PICK d : x7' = (x7 \ {c}) \cup {d} /\ IsCall(d) /\ d.id = c.id /\ d.acct = c.acct /\ d.kind = c.kind /\ d.from = c.from
      BY <3>1
    <3>2. Fine(d)
      BY <1>2, <3>a
    <3> HIDE DEF Fine
    <3> QED
      BY <1>1, <1>2, <3>a, <3>2
  <2>3. CASE \E d : /\ x7' = x7 \cup {d} /\ IsCall(d) /\ d.id = x8.acts + 1 /\ x8'.acts = x8.acts + 1 /\ d.acct \in 1..2 /\ d.kind \in Kinds
                    /\ d.from = "row" \/ (d.from = "testers" /\ d.kind = "clear")
    <3>1. PICK d : /\ x7' = x7 \cup {d} /\ IsCall(d) /\ d.id = x8.acts + 1 /\ x8'.acts = x8.acts + 1 /\ d.acct \in 1..2 /\ d.kind \in Kinds
                   /\ d.from = "row" \/ (d.from = "testers" /\ d.kind = "clear")
      BY <2>3
    <3>2. Fine(d) /\ \A c \in x7 : c.id # d.id
      BY <1>1, <3>1
    <3> HIDE DEF Fine
    <3> QED
      BY <1>1, <1>2, <3>1, <3>2
  <2> QED
    BY <2>1, <2>2, <2>3
<1>4. /\ \A c \in x7' : /\ IsCall(c) /\ c.id \in Nat /\ c.id <= x8'.acts /\ c.acct \in 1..2 /\ c.kind \in Kinds
                        /\ c.from = "row" \/ (c.from = "testers" /\ c.kind = "clear")
      /\ \A c, d \in x7' : c.id = d.id => c = d
  BY <1>3
<1> HIDE DEF Fine
<1> QED
  BY <1>4 DEF CallsInv

\* A load of the testers is asked for, read, shown or lost; a flag changed in
\* the list loads them anew, one cleared here leaves theirs.
LEMMA LoadsStep ==
  ASSUME LoadsInv,
         \/ UNCHANGED <<x5, x6>>
         \/ Members!MoreTesters \/ Members!AfterSwitch
         \/ \E t \in x6 : Members!ReadTesters(t) \/ Members!ShowTesters(t) \/ Members!TestersFail(t)
         \/ x6' = x6 /\ \E r : x5' = [x5 EXCEPT !.rows = r] /\ r \subseteq x5.rows
  PROVE  LoadsInv'
<1>1. PICK g, r, d : x5 = [gen |-> g, rows |-> r, done |-> d]
  BY DEF LoadsInv
<1>2. g = x5.gen /\ r = x5.rows /\ g \in Nat /\ r \subseteq 1..2
  BY <1>1 DEF LoadsInv
<1>3. \A t \in x6 : IsLoad(t) /\ t.gen \in Nat /\ t.gen <= x5.gen /\ (t.read => t.got \subseteq 1..2)
  BY DEF LoadsInv
<1>4. ASSUME NEW n \in Nat, NEW s, s \subseteq 1..2, NEW e, x5' = [gen |-> n, rows |-> s, done |-> e],
             \A t \in x6' : IsLoad(t) /\ t.gen \in Nat /\ t.gen <= n /\ (t.read => t.got \subseteq 1..2)
      PROVE  LoadsInv'
  <2>1. x5'.gen = n /\ x5'.rows = s
    BY <1>4
  <2>2. \E g1, r1, d1 : x5' = [gen |-> g1, rows |-> r1, done |-> d1]
    BY <1>4
  <2> QED
    BY <1>4, <2>1, <2>2 DEF LoadsInv, IsLoad
<1>5. ASSUME NEW n \in Nat PROVE LET q == Members!TesterLoad(n) IN IsLoad(q) /\ q.gen = n /\ ~q.read
  <2> PICK l, e : l = (\A t \in x6 : ~t.locks) /\ e = {}
    OBVIOUS
  <2> PICK q : q = [gen |-> n, read |-> FALSE, got |-> e, locks |-> l]
    OBVIOUS
  <2>1. Members!TesterLoad(n) = q
    BY DEF Members!TesterLoad
  <2>2. IsLoad(q) /\ q.gen = n /\ ~q.read
    BY DEF IsLoad
  <2> QED
    BY <2>1, <2>2
<1>6. CASE UNCHANGED <<x5, x6>>
  BY <1>1, <1>2, <1>3, <1>4, <1>6
<1>7. CASE Members!MoreTesters
  <2>1. x5' = x5 /\ x6' = x6 \cup {Members!TesterLoad(x5.gen)}
    BY <1>7 DEF Members!MoreTesters
  <2>2. \A t \in x6' : IsLoad(t) /\ t.gen \in Nat /\ t.gen <= g /\ (t.read => t.got \subseteq 1..2)
    BY <1>2, <1>3, <1>5, <2>1
  <2> QED
    BY <1>1, <1>2, <1>4, <2>1, <2>2
<1>8. CASE Members!AfterSwitch
  <2> PICK e, f : e = {} /\ f = FALSE
    OBVIOUS
  <2>1. x5' = [gen |-> g + 1, rows |-> e, done |-> f] /\ x6' = x6 \cup {Members!TesterLoad(g + 1)}
    BY <1>2, <1>8 DEF Members!AfterSwitch
  <2>2. \A t \in x6' : IsLoad(t) /\ t.gen \in Nat /\ t.gen <= g + 1 /\ (t.read => t.got \subseteq 1..2)
    BY <1>2, <1>3, <1>5, <2>1
  <2>3. g + 1 \in Nat /\ e \subseteq 1..2
    BY <1>2
  <2> QED
    BY <1>4, <2>1, <2>2, <2>3
<1>9. ASSUME NEW t \in x6, Members!ReadTesters(t) PROVE LoadsInv'
  <2>1. x5' = x5 /\ x6' = (x6 \ {t}) \cup {[t EXCEPT !.read = TRUE, !.got = Members!ListTesters]}
    BY <1>9 DEF Members!ReadTesters
  <2>2. PICK h, b, s, l : t = [gen |-> h, read |-> b, got |-> s, locks |-> l]
    BY <1>3 DEF IsLoad
  <2>3. ASSUME NEW w, NEW o PROVE [t EXCEPT !.read = w, !.got = o] = [gen |-> h, read |-> w, got |-> o, locks |-> l]
    <3> DEFINE one == [t EXCEPT !.read = w]
    <3>1. one = [gen |-> h, read |-> w, got |-> s, locks |-> l]
      BY <2>2
    <3>2. [one EXCEPT !.got = o] = [gen |-> h, read |-> w, got |-> o, locks |-> l]
      <4> HIDE DEF one
      <4> QED
        BY <3>1
    <3> QED
      BY <3>2
  <2> PICK w, o : w = TRUE /\ o = Members!ListTesters
    OBVIOUS
  <2> PICK q : q = [gen |-> h, read |-> w, got |-> o, locks |-> l]
    OBVIOUS
  <2>4. x6' = (x6 \ {t}) \cup {q}
    <3>1. x6' = (x6 \ {t}) \cup {[t EXCEPT !.read = w, !.got = o]}
      BY <2>1
    <3> QED
      BY <2>3, <3>1
  <2>5. IsLoad(q) /\ q.gen = t.gen /\ q.got \subseteq 1..2
    BY <2>2 DEF IsLoad, Members!ListTesters, Members!Accounts
  <2>6. \A u \in x6' : IsLoad(u) /\ u.gen \in Nat /\ u.gen <= g /\ (u.read => u.got \subseteq 1..2)
    BY <1>2, <1>3, <2>4, <2>5
  <2> QED
    BY <1>1, <1>2, <1>4, <2>1, <2>6
<1>10. ASSUME NEW t \in x6, Members!ShowTesters(t) PROVE LoadsInv'
  <2>1. x6' \subseteq x6 /\ t.read /\ t.got \subseteq 1..2
    BY <1>3, <1>10 DEF Members!ShowTesters
  <2>2. \A u \in x6' : IsLoad(u) /\ u.gen \in Nat /\ u.gen <= g /\ (u.read => u.got \subseteq 1..2)
    BY <1>2, <1>3, <2>1
  <2>3. CASE t.gen # x5.gen
    BY <1>1, <1>2, <1>4, <1>10, <2>2, <2>3 DEF Members!ShowTesters
  <2>4. CASE t.gen = x5.gen
    <3>1. ASSUME NEW v, NEW o PROVE [x5 EXCEPT !.rows = v, !.done = o] = [gen |-> g, rows |-> v, done |-> o]
      <4> DEFINE one == [x5 EXCEPT !.rows = v]
      <4>1. one = [gen |-> g, rows |-> v, done |-> d]
        BY <1>1
      <4>2. [one EXCEPT !.done = o] = [gen |-> g, rows |-> v, done |-> o]
        <5> HIDE DEF one
        <5> QED
          BY <4>1
      <4> QED
        BY <4>2
    <3> PICK s, w : s = x5.rows \cup t.got /\ w = TRUE
      OBVIOUS
    <3>2. x5' = [x5 EXCEPT !.rows = s, !.done = w]
      BY <1>10, <2>4 DEF Members!ShowTesters
    <3>a. [x5 EXCEPT !.rows = s, !.done = w] = [gen |-> g, rows |-> s, done |-> w]
      BY <3>1
    <3>3. x5' = [gen |-> g, rows |-> s, done |-> w]
      BY <3>2, <3>a
    <3>4. s \subseteq 1..2
      BY <1>2, <2>1
    <3> QED
      BY <1>2, <1>4, <2>2, <3>3, <3>4
  <2> QED
    BY <2>3, <2>4
<1>11. ASSUME NEW t \in x6, Members!TestersFail(t) PROVE LoadsInv'
  <2>1. x5' = x5 /\ x6' \subseteq x6
    BY <1>11 DEF Members!TestersFail
  <2> QED
    BY <1>1, <1>2, <1>3, <1>4, <2>1
<1>12. CASE x6' = x6 /\ \E s : x5' = [x5 EXCEPT !.rows = s] /\ s \subseteq x5.rows
  <2>1. PICK s : x5' = [x5 EXCEPT !.rows = s] /\ s \subseteq x5.rows
    BY <1>12
  <2>2. x5' = [gen |-> g, rows |-> s, done |-> d] /\ s \subseteq 1..2
    BY <1>1, <1>2, <2>1
  <2> QED
    BY <1>2, <1>3, <1>4, <1>12, <2>2
<1> QED
  BY <1>6, <1>7, <1>8, <1>9, <1>10, <1>11, <1>12

\* A call begun.
LEMMA CallMade ==
  ASSUME NEW a, NEW o, NEW k, NEW f, NEW v
  PROVE  LET d == Members!Call(a, o, k, f, v) IN
         IsCall(d) /\ d.id = x8.acts + 1 /\ d.acct = a /\ d.of = o /\ d.kind = k /\ d.from = f /\ d.base = v /\ ~d.served
<1> PICK n : n = x8.acts + 1
  OBVIOUS
<1> PICK s : s = FALSE
  OBVIOUS
<1> PICK d : d = [id |-> n, acct |-> a, of |-> o, kind |-> k, from |-> f, base |-> v, served |-> s, ok |-> s, saw |-> v]
  OBVIOUS
<1>1. Members!Call(a, o, k, f, v) = d
  BY DEF Members!Call
<1>2. IsCall(d)
  BY DEF IsCall
<1>3. d.id = n /\ d.acct = a /\ d.of = o /\ d.kind = k /\ d.from = f /\ d.base = v /\ ~d.served
  OBVIOUS
<1> QED
  BY <1>1, <1>2, <1>3

LEMMA CallsStep == MemberListInv /\ CallsInv /\ [Members!Next]_(Members!vars) => CallsInv'
<1> SUFFICES ASSUME MemberListInv, CallsInv, [Members!Next]_(Members!vars) PROVE CallsInv'
  OBVIOUS
<1>1. x3 = [a \in 1..2 |-> x3[a]] /\ LoadsInv /\ x8.acts \in Nat /\ x8.mishaps \in Nat
      /\ \A c \in x7 : IsCall(c) /\ c.acct \in 1..2 /\ c.kind \in Kinds
  BY DEF CallsInv
<1>2. PICK k, m : x8 = [acts |-> k, mishaps |-> m]
  BY DEF CallsInv
<1>3. k = x8.acts /\ m = x8.mishaps
  BY <1>2
<1>4. CASE x8' = [x8 EXCEPT !.mishaps = @ + 1] \/ x8' = x8
  <2>1. x8' = [acts |-> k, mishaps |-> m + 1] \/ x8' = x8
    BY <1>2, <1>4
  <2>2. x8'.acts = k /\ x8'.mishaps \in Nat /\ \E i, j : x8' = [acts |-> i, mishaps |-> j]
    BY <1>1, <1>2, <1>3, <2>1
  <2>a. k \in Nat /\ k <= k
    BY <1>1, <1>3
  <2>3. x7' \subseteq x7 /\ x3' = [a \in 1..2 |-> x3'[a]] /\ LoadsInv' => CallsInv'
    BY <1>3, <2>2, <2>a, CallsOf
  <2>4. UNCHANGED <<x5, x6>> => LoadsInv'
    BY <1>1, LoadsStep
  <2>5. CASE Members!Reload \/ Members!LoadMore
    BY <1>1, <2>3, <2>4, <2>5 DEF Members!Reload, Members!LoadMore
  <2>6. ASSUME NEW p \in x4, Members!ReadPage(p) \/ Members!PageFails(p) PROVE CallsInv'
    BY <1>1, <2>3, <2>4, <2>6 DEF Members!ReadPage, Members!PageFails
  <2>7. ASSUME NEW p \in x4, Members!ShowPage(p) PROVE CallsInv'
    <3>1. UNCHANGED <<x5, x6, x7>> /\ (x3' = x3 \/ \E b, e : x3' = [x3 EXCEPT ![b] = e])
      BY <2>7 DEF Members!ShowPage
    <3>2. x3' = [a \in 1..2 |-> x3'[a]]
      BY <1>1, <3>1
    <3> QED
      BY <2>3, <2>4, <3>1, <3>2
  <2>8. CASE Members!MoreTesters
    <3>1. LoadsInv'
      BY <1>1, <2>8, LoadsStep
    <3> QED
      BY <1>1, <2>3, <2>8, <3>1 DEF Members!MoreTesters
  <2>9. ASSUME NEW t \in x6, Members!ReadTesters(t) \/ Members!ShowTesters(t) \/ Members!TestersFail(t) PROVE CallsInv'
    <3>1. LoadsInv'
      BY <1>1, <2>9, LoadsStep
    <3>2. UNCHANGED <<x3, x7>>
      BY <2>9 DEF Members!ReadTesters, Members!ShowTesters, Members!TestersFail
    <3> QED
      BY <1>1, <2>3, <3>1, <3>2
  <2>10. ASSUME NEW c \in x7, Members!Serve(c) PROVE CallsInv'
    <3>3. PICK d : x7' = (x7 \ {c}) \cup {d} /\ IsCall(d) /\ d.id = c.id /\ d.acct = c.acct /\ d.kind = c.kind /\ d.from = c.from
      BY <2>10, ServedCall
    <3>5. x3' = x3 /\ LoadsInv'
      BY <2>4, <2>10 DEF Members!Serve
    <3> QED
      BY <1>1, <1>3, <2>2, <2>a, <3>3, <3>5, CallsOf
  <2>11. ASSUME NEW c \in x7, Members!RowAnswer(c) PROVE CallsInv'
    <3>1. x7' \subseteq x7 /\ (\E b, e : x3' = [x3 EXCEPT ![b] = e]) /\ (Members!AfterSwitch \/ UNCHANGED <<x5, x6>>)
      BY <2>11 DEF Members!RowAnswer, Members!Draw
    <3>2. x3' = [a \in 1..2 |-> x3'[a]]
      BY <1>1, <3>1
    <3>3. LoadsInv'
      BY <1>1, <3>1, LoadsStep
    <3> QED
      BY <2>3, <3>1, <3>2, <3>3
  <2>12. ASSUME NEW c \in x7, Members!TesterAnswer(c) PROVE CallsInv'
    <3>1. x7' \subseteq x7 /\ (x3' = x3 \/ \E b, e : x3' = [x3 EXCEPT ![b] = e]) /\ x6' = x6
          /\ (x5' = x5 \/ \E r : x5' = [x5 EXCEPT !.rows = r] /\ r \subseteq x5.rows)
      BY <2>12 DEF Members!TesterAnswer, Members!Draw
    <3>2. x3' = [a \in 1..2 |-> x3'[a]]
      BY <1>1, <3>1
    <3>3. LoadsInv'
      BY <1>1, <3>1, LoadsStep
    <3> QED
      BY <2>3, <3>1, <3>2, <3>3
  <2>13. ASSUME NEW c \in x7, Members!ActionFails(c) PROVE CallsInv'
    BY <1>1, <2>3, <2>4, <2>13 DEF Members!ActionFails
  <2>14. CASE UNCHANGED Members!vars
    BY <1>1, <2>3, <2>4, <2>14 DEF Members!vars
  <2>15. ASSUME Members!Press \/ Members!ClearTester PROVE FALSE
    <3>1. x8' = [x8 EXCEPT !.acts = @ + 1]
      BY <2>15 DEF Members!Press, Members!ClearTester
    <3>2. x8'.acts = k + 1
      BY <1>2, <3>1
    <3> QED
      BY <1>1, <1>3, <2>2, <3>2
  <2> QED
    BY <2>5, <2>6, <2>7, <2>8, <2>9, <2>10, <2>11, <2>12, <2>13, <2>14, <2>15 DEF Members!Next, Members!Step
<1>5. ASSUME x8' = [x8 EXCEPT !.acts = @ + 1], UNCHANGED <<x3, x5, x6>>, NEW d, x7' = x7 \cup {d}, IsCall(d), d.id = x8.acts + 1,
             d.acct \in 1..2, d.kind \in Kinds, d.from = "row" \/ (d.from = "testers" /\ d.kind = "clear")
      PROVE  CallsInv'
  <2>1. x8' = [acts |-> k + 1, mishaps |-> m]
    BY <1>2, <1>5
  <2>2. x8'.acts = k + 1 /\ x8'.mishaps = m /\ \E i, j : x8' = [acts |-> i, mishaps |-> j]
    BY <2>1
  <2>3. LoadsInv' /\ x3' = [a \in 1..2 |-> x3'[a]]
    BY <1>1, <1>5, LoadsStep
  <2>4. x8'.acts = x8.acts + 1 /\ x8'.acts \in Nat /\ x8'.mishaps \in Nat /\ x8.acts <= x8'.acts
    BY <1>1, <1>3, <2>2
  <2>5. \E e : /\ x7' = x7 \cup {e} /\ IsCall(e) /\ e.id = x8.acts + 1 /\ x8'.acts = x8.acts + 1 /\ e.acct \in 1..2 /\ e.kind \in Kinds
               /\ e.from = "row" \/ (e.from = "testers" /\ e.kind = "clear")
    BY <1>5, <2>4
  <2> QED
    BY <2>2, <2>3, <2>4, <2>5, CallsOf
<1>6. CASE Members!Press
  <2>1. PICK i \in DOMAIN x2.rows : \E h \in Members!Offered(x2.rows[i].v) :
               x7' = x7 \cup {Members!Call(x2.rows[i].acct, x2.rows[i].of, h, "row", x2.rows[i].v)}
    BY <1>6 DEF Members!Press
  <2>2. PICK h \in Members!Offered(x2.rows[i].v) :
               x7' = x7 \cup {Members!Call(x2.rows[i].acct, x2.rows[i].of, h, "row", x2.rows[i].v)}
    BY <2>1
  <2>3. PICK d : d = Members!Call(x2.rows[i].acct, x2.rows[i].of, h, "row", x2.rows[i].v)
    OBVIOUS
  <2>4. IsCall(d) /\ d.id = x8.acts + 1 /\ d.acct = x2.rows[i].acct /\ d.kind = h /\ d.from = "row"
    BY <2>3, CallMade
  <2>5. h \in Kinds /\ x2.rows[i].acct \in 1..2
    BY DEF Kinds, Members!Offered, MemberListInv, RowsInv
  <2>6. x8' = [x8 EXCEPT !.acts = @ + 1] /\ UNCHANGED <<x3, x5, x6>>
    BY <1>6 DEF Members!Press
  <2> QED
    BY <1>5, <2>2, <2>3, <2>4, <2>5, <2>6
<1>7. CASE Members!ClearTester
  <2>1. PICK a \in x5.rows : x7' = x7 \cup {Members!Call(a, x5.gen, "clear", "testers", x1[a])}
    BY <1>7 DEF Members!ClearTester
  <2>3. PICK d : d = Members!Call(a, x5.gen, "clear", "testers", x1[a])
    OBVIOUS
  <2>4. IsCall(d) /\ d.id = x8.acts + 1 /\ d.acct = a /\ d.kind = "clear" /\ d.from = "testers"
    BY <2>3, CallMade
  <2>5. a \in 1..2 /\ d.kind \in Kinds
    BY <1>1, <2>4 DEF Kinds, LoadsInv
  <2>6. x8' = [x8 EXCEPT !.acts = @ + 1] /\ UNCHANGED <<x3, x5, x6>>
    BY <1>7 DEF Members!ClearTester
  <2> QED
    BY <1>5, <2>1, <2>3, <2>4, <2>5, <2>6
<1>8. Members!Press \/ Members!ClearTester \/ x8' = [x8 EXCEPT !.mishaps = @ + 1] \/ x8' = x8
  BY DEF Members!Next, Members!Step, Members!Reload, Members!LoadMore, Members!MoreTesters, Members!ReadPage, Members!ShowPage,
         Members!PageFails, Members!ReadTesters, Members!ShowTesters, Members!TestersFail, Members!Serve, Members!RowAnswer,
         Members!TesterAnswer, Members!ActionFails, Members!vars
<1> QED
  BY <1>4, <1>6, <1>7, <1>8

\* What leaves an account as it is agrees still.
LEMMA AgreesKept ==
  ASSUME NEW a, Agrees(a), ~Members!Crossing(a)', x1'[a] = x1[a],
         \A v : RowsShow(a, v) => RowsShow(a, v)',
         TestersShow(a) => TestersShow(a)',
         \A c \in x7' : c.acct = a => c \in x7 \/ (~c.served /\ c.base = x1[a]),
         \A c \in x7 : c.acct = a /\ Done(c) => c \in x7',
         \A p \in x4' : p.gen = x2'.gen /\ p.read /\ p.got.item = a => (p \in x4 /\ p.gen = x2.gen) \/ p.got.v = x1[a]
  PROVE  Agrees(a)'
<1>1. \A c \in x7' : c.acct = a /\ ~c.served => c.base = x1'[a]
  BY DEF Agrees
<1>2. ASSUME \A c \in x7' : ~(c.acct = a /\ Done(c)) PROVE RowsShow(a, x1[a])' /\ TestersShow(a)'
                                                             /\ \A p \in x4' : p.gen = x2'.gen /\ p.read /\ p.got.item = a => p.got.v = x1'[a]
  <2>1. /\ RowsShow(a, x1[a]) /\ TestersShow(a)
        /\ \A p \in x4 : p.gen = x2.gen /\ p.read /\ p.got.item = a => p.got.v = x1[a]
    BY <1>2 DEF Agrees
  <2>2. PICK v : v = x1[a]
    OBVIOUS
  <2>3. RowsShow(a, v) => RowsShow(a, v)'
    OBVIOUS
  <2>4. RowsShow(a, x1[a])'
    BY <2>1, <2>2, <2>3 DEF RowsShow
  <2> QED
    BY <2>1, <2>4
<1>3. ASSUME NEW c \in x7', c.acct = a, Done(c)
      PROVE  /\ x1'[a] = Members!Wanted(c.kind, c.base) /\ c.saw = x1'[a] /\ RowsShow(a, c.base)'
             /\ c.kind \in {"suspend", "reinstate"} => TestersShow(a)'
             /\ c.kind = "clear" => x1'[a].canary = FALSE
  <2>1. c \in x7
    BY <1>3 DEF Done
  <2>2. /\ x1[a] = Members!Wanted(c.kind, c.base) /\ c.saw = x1[a] /\ RowsShow(a, c.base)
        /\ c.kind \in {"suspend", "reinstate"} => TestersShow(a)
        /\ c.kind = "clear" => x1[a].canary = FALSE
    BY <1>3, <2>1 DEF Agrees
  <2>3. PICK v : v = c.base
    OBVIOUS
  <2>4. RowsShow(a, v)'
    BY <2>2, <2>3
  <2> QED
    BY <2>2, <2>3, <2>4
<1> QED
  BY <1>1, <1>2, <1>3 DEF Agrees, Members!Wanted, Done

LEMMA ShownKept ==
  ASSUME MemberListInv, NEW a, NEW r, r = [i \in DOMAIN x2.rows |-> r[i]],
         \A i \in DOMAIN x2.rows : IsRow(r[i]) /\ r[i].acct = x2.rows[i].acct /\ r[i].of = x2.rows[i].of,
         \A i \in DOMAIN x2.rows : x2.rows[i].acct = a => r[i].v = x2.rows[i].v,
         x2' = [x2 EXCEPT !.rows = r], x1' = x1, x3'[a] = x3[a]
  PROVE  x2'.gen = x2.gen /\ \A v : RowsShow(a, v) => RowsShow(a, v)'
<1>1. x1 = [b \in 1..2 |-> x1[b]] /\ \A b \in 1..2 : IsView(x1[b])
  BY DEF MemberListInv, RowsInv
<1>2. x2'.gen = x2.gen /\ x2'.rows = r /\ DOMAIN r = DOMAIN x2.rows
  BY <1>1, RowsKept
<1> QED
  BY <1>2 DEF RowsShow

\* A row drawn again shows what it is drawn with; another account's stays.
LEMMA DrawShown ==
  ASSUME MemberListInv, CallsInv, UNCHANGED x1, NEW b \in 1..2, NEW o, NEW v, Members!Draw(b, o, v)
  PROVE  /\ x2'.gen = x2.gen
         /\ \A a \in 1..2 : a # b => \A w : RowsShow(a, w) => RowsShow(a, w)'
         /\ (ShownRow(b) => o = x2.gen) => RowsShow(b, v)'
<1> PICK r : r = Members!Redrawn(x2.rows, b, o, v)
  OBVIOUS
<1>1. x2' = [x2 EXCEPT !.rows = r] /\ x3' = [x3 EXCEPT ![b] = [of |-> o, v |-> v]]
  BY DEF Members!Draw
<1>2. /\ r = [i \in DOMAIN x2.rows |-> r[i]]
      /\ \A i \in DOMAIN x2.rows :
           /\ IsRow(r[i]) /\ r[i].acct = x2.rows[i].acct /\ r[i].of = x2.rows[i].of
           /\ r[i].v = IF x2.rows[i].acct = b /\ x2.rows[i].of = o THEN v ELSE x2.rows[i].v
  BY DrawnRows
<1>3. x3 = [a \in 1..2 |-> x3[a]]
  BY DEF CallsInv
<1>4. x3'[b].of = o /\ x3'[b].v = v
  BY <1>1, <1>3
<1>5. x1 = [a \in 1..2 |-> x1[a]] /\ \A a \in 1..2 : IsView(x1[a])
  BY DEF MemberListInv, RowsInv
<1>6. x2'.gen = x2.gen /\ x2'.rows = r /\ DOMAIN r = DOMAIN x2.rows
  BY <1>1, <1>2, <1>5, RowsKept
<1>7. ASSUME NEW a \in 1..2, a # b PROVE \A w : RowsShow(a, w) => RowsShow(a, w)'
  <2>1. x3'[a] = x3[a]
    BY <1>1, <1>3, <1>7
  <2> QED
    BY <1>1, <1>2, <1>7, <2>1, ShownKept
<1>8. ASSUME ShownRow(b) => o = x2.gen PROVE RowsShow(b, v)'
  <2>1. \A i \in DOMAIN x2.rows : x2.rows[i].of = x2.gen
    BY DEF MemberListInv, RowsInv
  <2>2. ASSUME NEW i \in DOMAIN x2'.rows, x2'.rows[i].acct = b PROVE x2'.rows[i].v = v /\ x3'[b].of = x2'.gen /\ x3'[b].v = v
    <3>1. i \in DOMAIN x2.rows /\ x2.rows[i].acct = b /\ x2'.rows[i] = r[i]
      BY <1>2, <1>6, <2>2
    <3>2. o = x2.gen
      BY <1>8, <3>1 DEF ShownRow
    <3> QED
      BY <1>2, <1>4, <1>6, <2>1, <3>1, <3>2
  <2> QED
    BY <2>2 DEF RowsShow
<1> QED
  BY <1>6, <1>7, <1>8

\* What the loads of the testers show.
LEMMA LoadsShown ==
  ASSUME MemberListInv, CallsInv, UNCHANGED x1, NEW a \in 1..2, TestersShow(a),
         \/ UNCHANGED <<x5, x6>>
         \/ Members!MoreTesters
         \/ \E t \in x6 : Members!ReadTesters(t) \/ Members!ShowTesters(t) \/ Members!TestersFail(t)
  PROVE  TestersShow(a)'
<1>1. PICK g, r, d : x5 = [gen |-> g, rows |-> r, done |-> d]
  BY DEF CallsInv, LoadsInv
<1>2. g = x5.gen /\ r = x5.rows /\ d = x5.done
  BY <1>1
<1>3. \A t \in x6 : IsLoad(t)
  BY DEF CallsInv, LoadsInv
<1>4. CASE x5' = x5 /\ \A t \in x6' : t.read => t \in x6
  BY <1>4 DEF TestersShow
<1>5. CASE Members!MoreTesters
  <2>1. ~Members!TesterLoad(x5.gen).read
    BY DEF Members!TesterLoad
  <2> QED
    BY <1>4, <1>5, <2>1 DEF Members!MoreTesters
<1>6. ASSUME NEW t \in x6, Members!ReadTesters(t) PROVE TestersShow(a)'
  <2>1. x5' = x5 /\ x6' = (x6 \ {t}) \cup {[t EXCEPT !.read = TRUE, !.got = Members!ListTesters]}
    BY <1>6 DEF Members!ReadTesters
  <2>2. PICK h, b, s, l : t = [gen |-> h, read |-> b, got |-> s, locks |-> l]
    BY <1>3 DEF IsLoad
  <2>3. ASSUME NEW w, NEW o PROVE [t EXCEPT !.read = w, !.got = o] = [gen |-> h, read |-> w, got |-> o, locks |-> l]
    <3> DEFINE one == [t EXCEPT !.read = w]
    <3>1. one = [gen |-> h, read |-> w, got |-> s, locks |-> l]
      BY <2>2
    <3>2. [one EXCEPT !.got = o] = [gen |-> h, read |-> w, got |-> o, locks |-> l]
      <4> HIDE DEF one
      <4> QED
        BY <3>1
    <3> QED
      BY <3>2
  <2> PICK w, o : w = TRUE /\ o = Members!ListTesters
    OBVIOUS
  <2> PICK q : q = [gen |-> h, read |-> w, got |-> o, locks |-> l]
    OBVIOUS
  <2>4. x6' = (x6 \ {t}) \cup {q}
    <3>1. x6' = (x6 \ {t}) \cup {[t EXCEPT !.read = w, !.got = o]}
      BY <2>1
    <3> QED
      BY <2>3, <3>1
  <2>5. a \in q.got <=> x1[a].canary = TRUE
    <3>1. x1[a].canary \in BOOLEAN
      BY DEF MemberListInv, RowsInv, IsView
    <3> QED
      BY <3>1 DEF Members!ListTesters, Members!Accounts
  <2> QED
    BY <2>1, <2>4, <2>5 DEF TestersShow
<1>7. ASSUME NEW t \in x6, Members!ShowTesters(t) PROVE TestersShow(a)'
  <2>1. x6' \subseteq x6 /\ t.read
    BY <1>7 DEF Members!ShowTesters
  <2>2. CASE t.gen # x5.gen
    BY <1>4, <1>7, <2>1, <2>2 DEF Members!ShowTesters
  <2>3. CASE t.gen = x5.gen
    <3>1. ASSUME NEW v, NEW o PROVE [x5 EXCEPT !.rows = v, !.done = o] = [gen |-> g, rows |-> v, done |-> o]
      <4> DEFINE one == [x5 EXCEPT !.rows = v]
      <4>1. one = [gen |-> g, rows |-> v, done |-> d]
        BY <1>1
      <4>2. [one EXCEPT !.done = o] = [gen |-> g, rows |-> v, done |-> o]
        <5> HIDE DEF one
        <5> QED
          BY <4>1
      <4> QED
        BY <4>2
    <3> PICK s, w : s = x5.rows \cup t.got /\ w = TRUE
      OBVIOUS
    <3>2. x5' = [x5 EXCEPT !.rows = s, !.done = w]
      BY <1>7, <2>3 DEF Members!ShowTesters
    <3>3. [x5 EXCEPT !.rows = s, !.done = w] = [gen |-> g, rows |-> s, done |-> w]
      BY <3>1
    <3>4. x5' = [gen |-> g, rows |-> s, done |-> w]
      BY <3>2, <3>3
    <3>5. x5'.gen = x5.gen /\ x5'.rows = s
      BY <1>2, <3>4
    <3>6. a \in t.got <=> x1[a].canary = TRUE
      BY <2>1, <2>3 DEF TestersShow
    <3>7. a \in s => x1[a].canary = TRUE
      BY <3>6 DEF TestersShow
    <3>8. x1[a].canary = TRUE => a \in s
      BY <3>6
    <3>9. \A u \in x6' : u.gen = x5.gen /\ u.read => (a \in u.got <=> x1[a].canary = TRUE)
      BY <2>1 DEF TestersShow
    <3> QED
      BY <3>5, <3>7, <3>8, <3>9 DEF TestersShow
  <2> QED
    BY <2>2, <2>3
<1>8. ASSUME NEW t \in x6, Members!TestersFail(t) PROVE TestersShow(a)'
  BY <1>4, <1>8 DEF Members!TestersFail
<1>9. CASE UNCHANGED <<x5, x6>>
  BY <1>4, <1>9
<1> QED
  BY <1>5, <1>6, <1>7, <1>8, <1>9

\* Loaded anew, the testers' list shows nobody until it is read.
LEMMA SwitchShown == \A a : CallsInv /\ Members!AfterSwitch => TestersShow(a)'
<1> SUFFICES ASSUME NEW a, CallsInv, Members!AfterSwitch PROVE TestersShow(a)'
  OBVIOUS
<1>1. x5.gen \in Nat /\ \A t \in x6 : t.gen \in Nat /\ t.gen <= x5.gen
  BY DEF CallsInv, LoadsInv
<1>2. x5'.gen = x5.gen + 1 /\ x5'.rows = {} /\ ~x5'.done /\ x6' = x6 \cup {Members!TesterLoad(x5.gen + 1)}
  BY DEF Members!AfterSwitch
<1>3. ~Members!TesterLoad(x5.gen + 1).read
  BY DEF Members!TesterLoad
<1>4. \A t \in x6' : t.gen = x5'.gen => ~t.read
  BY <1>1, <1>2, <1>3
<1> QED
  BY <1>2, <1>4 DEF TestersShow

\* An account that agrees, and that this step leaves without two answers.
Calm(a) == a \in 1..2 /\ MemberListInv /\ CallsInv /\ Agrees(a) /\ ~Members!Crossing(a)'

LEMMA Lone ==
  ASSUME NEW a, CallsInv, ~Members!Crossing(a), NEW c \in x7, c.acct = a
  PROVE  /\ \A d \in x7 : d.acct = a => d = c
         /\ \A p \in x4 : ~(p.after < a)
         /\ c.from = "row" => c.of = x2.gen
         /\ c.from = "testers" => x6 = {} /\ c.of = x5.gen
<1>1. \A d \in x7 : d.id = c.id => d = c
  BY DEF CallsInv
<1> QED
  BY <1>1 DEF Members!Crossing

\* The rows of an account are the same, and what was last drawn for it.
LEMMA SameShown == \A a, v : UNCHANGED <<x2, x3>> /\ RowsShow(a, v) => RowsShow(a, v)'
BY DEF RowsShow

LEMMA AgreesReload == \A a : Calm(a) /\ Members!Reload => Agrees(a)'
<1> SUFFICES ASSUME NEW a, Calm(a), Members!Reload PROVE Agrees(a)'
  OBVIOUS
<1>1. PICK f : /\ x2' = Members!Emptied(f)
               /\ x4' = x4 \union {Members!Page(x2.gen + 1, f, Members!Emptied(f).cursor)}
               /\ UNCHANGED <<x1, x5, x6, x7>>
  BY DEF Members!Reload
<1> PICK e : e = << >>
  OBVIOUS
<1>2. x2'.gen = x2.gen + 1 /\ x2'.rows = e
  BY <1>1 DEF Members!Emptied
<1>3. DOMAIN e = {}
  OBVIOUS
<1>4. \A v : RowsShow(a, v)'
  BY <1>2, <1>3 DEF RowsShow
<1>5. \A p \in x4' : p.gen = x2'.gen => ~p.read
  <2>1. x2.gen \in Nat /\ \A p \in x4 : p.gen \in Nat /\ p.gen <= x2.gen
    BY DEF Calm, MemberListInv, RowsInv, PagerInv
  <2>2. ~Members!Page(x2.gen + 1, f, Members!Emptied(f).cursor).read
    BY DEF Members!Page
  <2>3. \A p \in x4' : p \in x4 \/ ~p.read
    BY <1>1, <2>2
  <2> QED
    BY <1>2, <2>1, <2>3
<1>6. TestersShow(a) => TestersShow(a)'
  BY <1>1 DEF TestersShow
<1> QED
  BY <1>1, <1>4, <1>5, <1>6, AgreesKept DEF Calm

\* What draws no row and begins or ends no call.
LEMMA AgreesIdle ==
  ASSUME NEW a, Calm(a), UNCHANGED <<x1, x2, x3, x7>>, TestersShow(a) => TestersShow(a)',
         \A p \in x4' : p.gen = x2'.gen /\ p.read /\ p.got.item = a => p \in x4 \/ p.got.v = x1[a]
  PROVE  Agrees(a)'
<1>1. \A v : RowsShow(a, v) => RowsShow(a, v)'
  BY SameShown
<1> QED
  BY <1>1, AgreesKept DEF Calm

LEMMA AgreesPages ==
  \A a : Calm(a) /\ (Members!LoadMore \/ \E p \in x4 : Members!ReadPage(p) \/ Members!PageFails(p)) => Agrees(a)'
<1> SUFFICES ASSUME NEW a, Calm(a), Members!LoadMore \/ \E p \in x4 : Members!ReadPage(p) \/ Members!PageFails(p) PROVE Agrees(a)'
  OBVIOUS
<1>1. UNCHANGED <<x1, x2, x3, x5, x6, x7>>
  BY DEF Members!LoadMore, Members!ReadPage, Members!PageFails
<1>2. TestersShow(a) => TestersShow(a)'
  BY <1>1 DEF TestersShow
<1>3. CASE Members!LoadMore
  <2>1. x4' = x4 \cup {Members!Page(x2.gen, x2.filter, x2.cursor)}
    BY <1>3 DEF Members!LoadMore
  <2>2. ~Members!Page(x2.gen, x2.filter, x2.cursor).read
    BY DEF Members!Page
  <2> QED
    BY <1>1, <1>2, <2>1, <2>2, AgreesIdle
<1>4. ASSUME NEW p \in x4, Members!PageFails(p) PROVE Agrees(a)'
  <2>1. x4' \subseteq x4
    BY <1>4 DEF Members!PageFails
  <2> QED
    BY <1>1, <1>2, <2>1, AgreesIdle
<1>5. ASSUME NEW p \in x4, Members!ReadPage(p) PROVE Agrees(a)'
  <2>1. PICK o : o = Members!ListMembers(p.after, p.filter)
    OBVIOUS
  <2>2. x4' = (x4 \ {p}) \cup {[p EXCEPT !.read = TRUE, !.got = o]}
    BY <1>5, <2>1 DEF Members!ReadPage
  <2>3. IsPage(p) /\ p.after \in 0..2
    BY DEF Calm, MemberListInv, PagerInv
  <2>4. PICK g, f, e, b, h, l : p = [gen |-> g, filter |-> f, after |-> e, read |-> b, got |-> h, locks |-> l]
    BY <2>3 DEF IsPage
  <2>5. ASSUME NEW w, NEW s PROVE [p EXCEPT !.read = w, !.got = s] = [gen |-> g, filter |-> f, after |-> e, read |-> w, got |-> s, locks |-> l]
    <3> DEFINE one == [p EXCEPT !.read = w]
    <3>1. one = [gen |-> g, filter |-> f, after |-> e, read |-> w, got |-> h, locks |-> l]
      BY <2>4
    <3>2. [one EXCEPT !.got = s] = [gen |-> g, filter |-> f, after |-> e, read |-> w, got |-> s, locks |-> l]
      <4> HIDE DEF one
      <4> QED
        BY <3>1
    <3> QED
      BY <3>2
  <2>6. PICK w : w = TRUE
    OBVIOUS
  <2>7. PICK q : q = [gen |-> g, filter |-> f, after |-> e, read |-> w, got |-> o, locks |-> l]
    OBVIOUS
  <2>8. x4' = (x4 \ {p}) \cup {q}
    <3>1. x4' = (x4 \ {p}) \cup {[p EXCEPT !.read = w, !.got = o]}
      BY <2>2, <2>6
    <3> QED
      BY <2>5, <2>7, <3>1
  <2>9. q.got = o
    BY <2>7
  <2>10. o.item = a => o.v = x1[a]
    <3> DEFINE found == {b1 \in 1..2 : b1 > p.after /\ Members!Matches(x1[b1], p.filter)}
    <3>1. a # 0
      BY DEF Calm
    <3>2. CASE found = {}
      BY <2>1, <3>1, <3>2 DEF Members!ListMembers, Members!Accounts
    <3>3. CASE found # {}
      <4>1. PICK m : m = Members!Min(found)
        OBVIOUS
      <4>2. o = [item |-> m, cursor |-> m, v |-> x1[m]]
        BY <2>1, <3>3, <4>1 DEF Members!ListMembers, Members!Accounts
      <4> QED
        BY <4>2
    <3> QED
      BY <3>2, <3>3
  <2> QED
    BY <1>1, <1>2, <2>8, <2>9, <2>10, AgreesIdle
<1> QED
  BY <1>3, <1>4, <1>5

LEMMA AgreesLoads ==
  \A a : Calm(a) /\ (Members!MoreTesters \/ \E t \in x6 : Members!ReadTesters(t) \/ Members!ShowTesters(t) \/ Members!TestersFail(t)) => Agrees(a)'
<1> SUFFICES ASSUME NEW a, Calm(a), Members!MoreTesters \/ \E t \in x6 : Members!ReadTesters(t) \/ Members!ShowTesters(t) \/ Members!TestersFail(t)
    PROVE Agrees(a)'
  OBVIOUS
<1>1. UNCHANGED <<x1, x2, x3, x4, x7>>
  BY DEF Members!MoreTesters, Members!ReadTesters, Members!ShowTesters, Members!TestersFail
<1>2. TestersShow(a) => TestersShow(a)'
  BY <1>1, LoadsShown DEF Calm
<1> QED
  BY <1>1, <1>2, AgreesIdle

\* A page that shows an account adds what the account is: no call about it is under way.
LEMMA AgreesShow == \A a : \A p \in x4 : Calm(a) /\ Members!ShowPage(p) => Agrees(a)'
<1> SUFFICES ASSUME NEW a, NEW p \in x4, Calm(a), Members!ShowPage(p) PROVE Agrees(a)'
  OBVIOUS
<1>1. p.read /\ x4' \subseteq x4 /\ UNCHANGED <<x1, x5, x6, x7>>
  BY DEF Members!ShowPage
<1>2. TestersShow(a) => TestersShow(a)'
  BY <1>1 DEF TestersShow
<1>3. PICK g, f, c, d, s : x2 = [gen |-> g, filter |-> f, cursor |-> c, done |-> d, rows |-> s]
  BY DEF Calm, MemberListInv, RowsInv
<1>4. g = x2.gen /\ s = x2.rows
  BY <1>3
<1>5. CASE p.gen # x2.gen
  <2>1. UNCHANGED <<x2, x3>>
    BY <1>5 DEF Members!ShowPage, Members!Superseded
  <2> QED
    BY <1>1, <1>2, <2>1, AgreesIdle
<1>6. CASE p.gen = x2.gen /\ p.got.item = 0
  <2>1. x2' = [x2 EXCEPT !.cursor = 0, !.done = TRUE] /\ x3' = x3
    BY <1>6 DEF Members!ShowPage, Members!Superseded
  <2>2. x2'.gen = x2.gen /\ x2'.rows = x2.rows
    <3>1. ASSUME NEW k, NEW w PROVE [x2 EXCEPT !.cursor = k, !.done = w].gen = g /\ [x2 EXCEPT !.cursor = k, !.done = w].rows = s
      BY <1>3
    <3> QED
      BY <1>4, <2>1, <3>1
  <2>3. \A v : RowsShow(a, v) => RowsShow(a, v)'
    BY <2>1, <2>2 DEF RowsShow
  <2> QED
    BY <1>1, <1>2, <2>2, <2>3, AgreesKept DEF Calm
<1>7. CASE p.gen = x2.gen /\ p.got.item # 0
  <2>1. x2' = [x2 EXCEPT !.cursor = p.got.cursor, !.rows = Append(x2.rows, Members!Row(p.got.item, p.gen, p.got.v))]
        /\ x3' = [x3 EXCEPT ![p.got.item] = [of |-> p.gen, v |-> p.got.v]]
    BY <1>7 DEF Members!ShowPage, Members!Superseded
  <2>2. PICK n \in Nat : x2.rows = [i \in 1..n |-> x2.rows[i]]
    BY DEF Calm, MemberListInv, RowsInv
  <2>3. PICK e : e = Members!Row(p.got.item, p.gen, p.got.v)
    OBVIOUS
  <2>4. PICK r : r = [i \in 1..n + 1 |-> IF i = n + 1 THEN e ELSE x2.rows[i]]
    OBVIOUS
  <2>5. Append(x2.rows, e) = r
    BY <2>2, <2>4, Appended
  <2>6. x2'.gen = x2.gen /\ x2'.rows = r
    <3>1. ASSUME NEW k, NEW t PROVE [x2 EXCEPT !.cursor = k, !.rows = t].gen = g /\ [x2 EXCEPT !.cursor = k, !.rows = t].rows = t
      BY <1>3
    <3>2. x2' = [x2 EXCEPT !.cursor = p.got.cursor, !.rows = r]
      BY <2>1, <2>3, <2>5
    <3> QED
      BY <1>4, <3>1, <3>2
  <2>7. e.acct = p.got.item /\ e.v = p.got.v
    BY <2>3 DEF Members!Row
  <2>8. p.got.item \in 1..2 /\ p.got.item > p.after
    BY <1>1, <1>7 DEF Calm, MemberListInv, PagerInv
  <2>9. x3 = [b \in 1..2 |-> x3[b]]
    BY DEF Calm, CallsInv
  <2>10. x3' = [b \in 1..2 |-> IF b = p.got.item THEN [of |-> p.gen, v |-> p.got.v] ELSE x3[b]]
    BY <2>1, <2>8, <2>9
  <2>11. DOMAIN r = 1..n + 1 /\ DOMAIN x2.rows = 1..n /\ r[n + 1] = e /\ \A i \in 1..n : r[i] = x2.rows[i]
    BY <2>2, <2>4
  <2>12. CASE p.got.item # a
    <3>1. x3'[a] = x3[a] /\ e.acct # a
      BY <2>7, <2>10, <2>12 DEF Calm
    <3>2. \A v : RowsShow(a, v) => RowsShow(a, v)'
      BY <2>6, <2>11, <3>1 DEF RowsShow
    <3> QED
      BY <1>1, <1>2, <2>6, <3>2, AgreesKept DEF Calm
  <2>13. CASE p.got.item = a
    <3>1. \A c1 \in x7 : c1.acct # a
      BY <2>8, <2>13, Lone DEF Calm, Agrees
    <3>2. RowsShow(a, x1[a]) /\ TestersShow(a) /\ p.got.v = x1[a]
          /\ \A q \in x4 : q.gen = x2.gen /\ q.read /\ q.got.item = a => q.got.v = x1[a]
      BY <1>1, <1>7, <2>13, <3>1 DEF Calm, Agrees
    <3>3. x3'[a].of = x2.gen /\ x3'[a].v = x1[a]
      BY <1>7, <2>8, <2>10, <2>13, <3>2
    <3>4. RowsShow(a, x1[a])'
      BY <1>1, <2>6, <2>7, <2>11, <3>2, <3>3 DEF RowsShow
    <3> QED
      BY <1>1, <1>2, <2>6, <3>1, <3>2, <3>4 DEF Agrees, Calm
  <2> QED
    BY <2>12, <2>13
<1> QED
  BY <1>5, <1>6, <1>7

\* A call begun about an account that no other call is about: on what it is.
LEMMA AgreesBegun ==
  ASSUME NEW a, Calm(a), NEW d, x7' = x7 \cup {d}, d.id = x8.acts + 1, ~d.served, UNCHANGED <<x1, x3, x4, x5, x6>>, x2'.gen = x2.gen,
         \A v : RowsShow(a, v) => RowsShow(a, v)',
         d.acct = a => d.base = x1[a] \/ \E i \in DOMAIN x2.rows : x2.rows[i].acct = a /\ d.base = x2.rows[i].v
  PROVE  Agrees(a)'
<1>1. TestersShow(a) => TestersShow(a)'
  BY DEF TestersShow
<1>2. d.acct = a => d.base = x1[a]
  <2> SUFFICES ASSUME d.acct = a PROVE d.base = x1[a]
    OBVIOUS
  <2>1. \A c \in x7 : c.id \in Nat /\ c.id <= x8.acts
    BY DEF Calm, CallsInv
  <2>2. x8.acts \in Nat
    BY DEF Calm, CallsInv
  <2>3. \A c \in x7 : c.acct # a
    <3> SUFFICES ASSUME NEW c \in x7, c.acct = a PROVE FALSE
      OBVIOUS
    <3>1. c.id # d.id
      BY <2>1, <2>2
    <3>2. c \in x7' /\ d \in x7'
      OBVIOUS
    <3> QED
      BY <3>1, <3>2 DEF Calm, Members!Crossing
  <2>4. RowsShow(a, x1[a])
    BY <2>3 DEF Calm, Agrees
  <2> QED
    BY <2>4 DEF RowsShow
<1> QED
  BY <1>1, <1>2, AgreesKept DEF Calm

LEMMA AgreesPress == \A a : Calm(a) /\ (Members!Press \/ Members!ClearTester) => Agrees(a)'
<1> SUFFICES ASSUME NEW a, Calm(a), Members!Press \/ Members!ClearTester PROVE Agrees(a)'
  OBVIOUS
<1>1. UNCHANGED <<x1, x3, x4, x5, x6>>
  BY DEF Members!Press, Members!ClearTester
<1>2. CASE Members!ClearTester
  <2>1. PICK b \in x5.rows : x7' = x7 \cup {Members!Call(b, x5.gen, "clear", "testers", x1[b])}
    BY <1>2 DEF Members!ClearTester
  <2>2. PICK d : d = Members!Call(b, x5.gen, "clear", "testers", x1[b])
    OBVIOUS
  <2>3. d.id = x8.acts + 1 /\ d.acct = b /\ d.base = x1[b] /\ ~d.served
    BY <2>2, CallMade
  <2>4. x2' = x2
    BY <1>2 DEF Members!ClearTester
  <2>5. \A v : RowsShow(a, v) => RowsShow(a, v)'
    BY <1>1, <2>4, SameShown
  <2> QED
    BY <1>1, <2>1, <2>2, <2>3, <2>4, <2>5, AgreesBegun
<1>3. CASE Members!Press
  <2>1. PICK k \in DOMAIN x2.rows : /\ \E h : x7' = x7 \cup {Members!Call(x2.rows[k].acct, x2.rows[k].of, h, "row", x2.rows[k].v)}
                                    /\ x2' = [x2 EXCEPT !.rows[k].lock = x8.acts + 1]
    BY <1>3 DEF Members!Press
  <2>2. PICK h : x7' = x7 \cup {Members!Call(x2.rows[k].acct, x2.rows[k].of, h, "row", x2.rows[k].v)}
    BY <2>1
  <2>3. PICK d : d = Members!Call(x2.rows[k].acct, x2.rows[k].of, h, "row", x2.rows[k].v)
    OBVIOUS
  <2>4. d.id = x8.acts + 1 /\ d.acct = x2.rows[k].acct /\ d.base = x2.rows[k].v /\ ~d.served
    BY <2>3, CallMade
  <2>5. PICK n : n = x8.acts + 1
    OBVIOUS
  <2>6. \A i \in DOMAIN x2.rows : IsRow(x2.rows[i])
    BY DEF Calm, MemberListInv, RowsInv
  <2>7. PICK m \in Nat : x2.rows = [i \in 1..m |-> x2.rows[i]]
    BY DEF Calm, MemberListInv, RowsInv
  <2>8. PICK r : r = [i \in DOMAIN x2.rows |-> IF i = k THEN [x2.rows[k] EXCEPT !.lock = n] ELSE x2.rows[i]]
    OBVIOUS
  <2>9. [x2.rows EXCEPT ![k].lock = n] = r
    BY <2>7, <2>8
  <2>10. x2' = [x2 EXCEPT !.rows = r]
    BY <2>1, <2>5, <2>9
  <2>11. r = [i \in DOMAIN x2.rows |-> r[i]]
    BY <2>7, <2>8
  <2>12. ASSUME NEW i \in DOMAIN x2.rows PROVE IsRow(r[i]) /\ r[i].acct = x2.rows[i].acct /\ r[i].of = x2.rows[i].of /\ r[i].v = x2.rows[i].v
    <3>1. CASE i # k
      BY <2>6, <2>8, <3>1
    <3>2. CASE i = k
      <4>1. PICK b, o, v, l : x2.rows[k] = [acct |-> b, of |-> o, v |-> v, lock |-> l]
        BY <2>6 DEF IsRow
      <4>2. [x2.rows[k] EXCEPT !.lock = n] = [acct |-> b, of |-> o, v |-> v, lock |-> n]
        BY <4>1
      <4>3. r[i] = [acct |-> b, of |-> o, v |-> v, lock |-> n]
        BY <2>8, <3>2, <4>2
      <4>4. IsRow(r[i])
        BY <4>3 DEF IsRow
      <4>5. r[i].acct = b /\ r[i].of = o /\ r[i].v = v
        BY <4>3
      <4>6. x2.rows[i].acct = b /\ x2.rows[i].of = o /\ x2.rows[i].v = v
        BY <3>2, <4>1
      <4> QED
        BY <4>4, <4>5, <4>6
    <3> QED
      BY <3>1, <3>2
  <2>13. x2'.gen = x2.gen /\ \A v : RowsShow(a, v) => RowsShow(a, v)'
    BY <1>1, <2>10, <2>11, <2>12, ShownKept DEF Calm
  <2> QED
    BY <1>1, <2>2, <2>3, <2>4, <2>13, AgreesBegun
<1> QED
  BY <1>2, <1>3

\* What was done to an account is what was asked of what its row shows.
LEMMA AgreesServe == \A a : \A c \in x7 : Calm(a) /\ Members!Serve(c) => Agrees(a)'
<1> SUFFICES ASSUME NEW a, NEW c \in x7, Calm(a), Members!Serve(c) PROVE Agrees(a)'
  OBVIOUS
<1>1. UNCHANGED <<x2, x3, x4, x5, x6>> /\ ~c.served
  BY DEF Members!Serve
<1>2. PICK ok : \E v : \E d :
           /\ ok = Members!Accepted(c.kind, x1[c.acct])
           /\ v = IF ok THEN Members!Wanted(c.kind, x1[c.acct]) ELSE x1[c.acct]
           /\ x1' = [x1 EXCEPT ![c.acct] = v] /\ x7' = (x7 \ {c}) \cup {d}
           /\ IsCall(d) /\ d.id = c.id /\ d.acct = c.acct /\ d.of = c.of /\ d.kind = c.kind /\ d.from = c.from /\ d.base = c.base
           /\ d.served = TRUE /\ d.ok = ok /\ d.saw = v
  BY ServedCall DEF Calm
<1>3. PICK v : \E d :
           /\ v = IF ok THEN Members!Wanted(c.kind, x1[c.acct]) ELSE x1[c.acct]
           /\ x1' = [x1 EXCEPT ![c.acct] = v] /\ x7' = (x7 \ {c}) \cup {d}
           /\ IsCall(d) /\ d.id = c.id /\ d.acct = c.acct /\ d.of = c.of /\ d.kind = c.kind /\ d.from = c.from /\ d.base = c.base
           /\ d.served = TRUE /\ d.ok = ok /\ d.saw = v
  BY <1>2
<1>4. PICK d :
           /\ v = IF ok THEN Members!Wanted(c.kind, x1[c.acct]) ELSE x1[c.acct]
           /\ x1' = [x1 EXCEPT ![c.acct] = v] /\ x7' = (x7 \ {c}) \cup {d}
           /\ d.acct = c.acct /\ d.kind = c.kind /\ d.base = c.base
           /\ d.served = TRUE /\ d.ok = ok /\ d.saw = v
  BY <1>3
<1>5. c.acct \in 1..2 /\ c.kind \in Kinds /\ x1 = [b \in 1..2 |-> x1[b]] /\ \A b \in 1..2 : IsView(x1[b])
  BY DEF Calm, CallsInv, MemberListInv, RowsInv
<1>6. \A w : RowsShow(a, w) => RowsShow(a, w)'
  BY <1>1, SameShown
<1>7. CASE c.acct # a
  <2>1. x1'[a] = x1[a]
    BY <1>4, <1>5, <1>7 DEF Calm
  <2>2. TestersShow(a) => TestersShow(a)'
    BY <1>1, <2>1 DEF TestersShow
  <2> QED
    BY <1>1, <1>4, <1>6, <1>7, <2>1, <2>2, AgreesKept DEF Calm
<1>8. CASE c.acct = a
  <2>1. x1'[a] = v
    BY <1>4, <1>5, <1>8
  <2>2. \A e \in x7 : e.acct = a => e = c
    BY <1>8, Lone DEF Calm, Agrees
  <2>3. \A e \in x7' : e.acct = a => e = d
    BY <1>4, <2>2
  <2>4. c.base = x1[a] /\ RowsShow(a, x1[a]) /\ TestersShow(a)
        /\ \A p \in x4 : p.gen = x2.gen /\ p.read /\ p.got.item = a => p.got.v = x1[a]
    BY <1>1, <1>8, <2>2 DEF Calm, Agrees, Done
  <2>5. \A e \in x7' : e.acct = a => e.served
    BY <1>4, <2>3
  <2>6. CASE ~ok
    <3>1. x1'[a] = x1[a] /\ ~Done(d)
      BY <1>4, <1>8, <2>1, <2>6 DEF Done
    <3>2. TestersShow(a)'
      BY <1>1, <2>4, <3>1 DEF TestersShow
    <3>3. RowsShow(a, x1[a])'
      BY <1>1, <2>4, <3>1 DEF RowsShow
    <3>4. \A e \in x7' : ~(e.acct = a /\ Done(e))
      BY <2>3, <3>1
    <3>5. \A p \in x4' : p.gen = x2'.gen /\ p.read /\ p.got.item = a => p.got.v = x1'[a]
      BY <1>1, <2>4, <3>1
    <3> QED
      BY <2>5, <3>2, <3>3, <3>4, <3>5 DEF Agrees, Done, Calm
  <2>7. CASE ok
    <3>1. v = Members!Wanted(c.kind, x1[a]) /\ Done(d) /\ d \in x7'
      BY <1>4, <1>8, <2>7 DEF Done
    <3>2. x1'[a] = Members!Wanted(d.kind, d.base) /\ d.saw = x1'[a]
      BY <1>4, <2>1, <2>4, <3>1
    <3>3. RowsShow(a, d.base)'
      BY <1>1, <1>4, <2>4 DEF RowsShow
    <3>4. PICK s : \E b \in BOOLEAN : x1[a] = [status |-> s, canary |-> b]
      BY <1>5, <1>8 DEF IsView
    <3>5. PICK b \in BOOLEAN : x1[a] = [status |-> s, canary |-> b]
      BY <3>4
    <3>6. ASSUME d.kind \in {"suspend", "reinstate"} PROVE TestersShow(a)'
      <4>1. PICK w : v = [x1[a] EXCEPT !.status = w]
        BY <1>4, <3>1, <3>6 DEF Members!Wanted
      <4>2. v = [status |-> w, canary |-> b]
        BY <3>5, <4>1
      <4>3. x1'[a].canary = x1[a].canary
        BY <2>1, <3>5, <4>2
      <4> QED
        BY <1>1, <2>4, <4>3 DEF TestersShow
    <3>7. ASSUME d.kind = "clear" PROVE x1'[a].canary = FALSE
      <4>1. v = [x1[a] EXCEPT !.canary = FALSE]
        BY <1>4, <3>1, <3>7 DEF Members!Wanted
      <4> QED
        BY <2>1, <3>5, <4>1
    <3>8. d.acct = a
      BY <1>4, <1>8
    <3>9. \E e \in x7' : e.acct = a /\ Done(e)
      BY <3>1, <3>8
    <3>10. \A e \in x7' : e.acct = a /\ Done(e) =>
             /\ x1'[a] = Members!Wanted(e.kind, e.base) /\ e.saw = x1'[a] /\ RowsShow(a, e.base)'
             /\ e.kind \in {"suspend", "reinstate"} => TestersShow(a)'
             /\ e.kind = "clear" => x1'[a].canary = FALSE
      BY <2>3, <3>2, <3>3, <3>6, <3>7
    <3> QED
      BY <2>5, <3>9, <3>10 DEF Agrees, Done, Calm, Members!Wanted
  <2> QED
    BY <2>6, <2>7
<1> QED
  BY <1>7, <1>8


\* A row's answer draws what the account is.
LEMMA AgreesRow == \A a : \A c \in x7 : Calm(a) /\ Members!RowAnswer(c) => Agrees(a)'
<1> SUFFICES ASSUME NEW a, NEW c \in x7, Calm(a), Members!RowAnswer(c) PROVE Agrees(a)'
  OBVIOUS
<1>1. UNCHANGED <<x1, x4>> /\ x7' = x7 \ {c} /\ Done(c) /\ c.from = "row"
  BY DEF Members!RowAnswer, Done
<1>2. PICK v : /\ Members!Draw(c.acct, c.of, v)
               /\ \/ c.kind \in {"flag", "clear"} /\ v = Members!Wanted(c.kind, c.base) /\ Members!AfterSwitch
                  \/ c.kind \notin {"flag", "clear"} /\ v = c.saw /\ UNCHANGED <<x5, x6>>
  BY DEF Members!RowAnswer
<1>3. c.acct \in 1..2 /\ c.kind \in Kinds
  BY DEF Calm, CallsInv
<1>4. /\ x2'.gen = x2.gen
      /\ \A b \in 1..2 : b # c.acct => \A w : RowsShow(b, w) => RowsShow(b, w)'
      /\ (ShownRow(c.acct) => c.of = x2.gen) => RowsShow(c.acct, v)'
  BY <1>1, <1>2, <1>3, DrawShown DEF Calm
<1>5. TestersShow(a) \/ c.kind \in {"flag", "clear"} => TestersShow(a)'
  <2>1. CASE c.kind \in {"flag", "clear"}
    BY <1>2, <2>1, SwitchShown DEF Calm
  <2>2. CASE c.kind \notin {"flag", "clear"}
    BY <1>1, <1>2, <2>2 DEF TestersShow
  <2> QED
    BY <2>1, <2>2
<1>6. CASE c.acct # a
  BY <1>1, <1>4, <1>5, <1>6, AgreesKept DEF Calm
<1>7. CASE c.acct = a
  <2>1. (\A d \in x7 : d.acct = a => d = c) /\ (\A p \in x4 : ~(p.after < a)) /\ c.of = x2.gen
    BY <1>1, <1>7, Lone DEF Calm, Agrees
  <2>2. /\ x1[a] = Members!Wanted(c.kind, c.base) /\ c.saw = x1[a]
        /\ c.kind \in {"suspend", "reinstate"} => TestersShow(a)
    BY <1>1, <1>7 DEF Calm, Agrees
  <2>3. v = x1[a]
    BY <1>2, <2>2
  <2>4. RowsShow(a, x1[a])'
    BY <1>1, <1>4, <1>7, <2>1, <2>3 DEF RowsShow
  <2>5. TestersShow(a)'
    BY <1>3, <1>5, <2>2 DEF Kinds
  <2>6. \A d \in x7' : d.acct # a
    BY <1>1, <2>1
  <2>7. \A p \in x4' : p.gen = x2'.gen /\ p.read /\ p.got.item = a => p.got.v = x1'[a]
    <3>1. \A p \in x4 : p.after \in 0..2 /\ (p.read => (p.got.item # 0 => p.got.item > p.after))
      BY DEF Calm, MemberListInv, PagerInv
    <3> QED
      BY <1>1, <1>3, <1>7, <2>1, <3>1
  <2> QED
    BY <2>4, <2>5, <2>6, <2>7 DEF Agrees, Calm
<1> QED
  BY <1>6, <1>7

\* A flag cleared in the testers' list leaves that list, and the row.
LEMMA AgreesTester == \A a : \A c \in x7 : Calm(a) /\ Members!TesterAnswer(c) => Agrees(a)'
<1> SUFFICES ASSUME NEW a, NEW c \in x7, Calm(a), Members!TesterAnswer(c) PROVE Agrees(a)'
  OBVIOUS
<1>1. UNCHANGED <<x1, x4, x6>> /\ x7' = x7 \ {c} /\ Done(c) /\ c.from = "testers"
      /\ x5' = IF c.of = x5.gen THEN [x5 EXCEPT !.rows = x5.rows \ {c.acct}] ELSE x5
  BY DEF Members!TesterAnswer, Done
<1>2. PICK k : k = x3[c.acct]
  OBVIOUS
<1>3. IF k.of = 0 THEN UNCHANGED <<x2, x3>> ELSE Members!Draw(c.acct, k.of, Members!Wanted("clear", k.v))
  BY <1>2 DEF Members!TesterAnswer
<1>4. c.acct \in 1..2 /\ c.kind = "clear" /\ x2.gen # 0
  BY <1>1 DEF Calm, CallsInv, MemberListInv, RowsInv
<1>5. PICK g, r, d : x5 = [gen |-> g, rows |-> r, done |-> d]
  BY DEF Calm, CallsInv, LoadsInv
<1>6. x5'.gen = x5.gen /\ x5'.done = x5.done /\ x5'.rows \subseteq x5.rows /\ (\A b \in x5.rows : b # c.acct => b \in x5'.rows)
      /\ (c.of = x5.gen => c.acct \notin x5'.rows)
  <2>1. [x5 EXCEPT !.rows = x5.rows \ {c.acct}] = [gen |-> g, rows |-> r \ {c.acct}, done |-> d]
    BY <1>5
  <2> QED
    BY <1>1, <1>5, <2>1
<1>7. CASE c.acct # a
  <2>1. x2'.gen = x2.gen /\ \A w : RowsShow(a, w) => RowsShow(a, w)'
    <3>1. CASE k.of = 0
      BY <1>3, <3>1, SameShown
    <3>2. CASE k.of # 0
      <4>1. PICK v : Members!Draw(c.acct, k.of, v)
        BY <1>3, <3>2
      <4> QED
        BY <1>1, <1>4, <1>7, <4>1, DrawShown DEF Calm
    <3> QED
      BY <3>1, <3>2
  <2>2. TestersShow(a) => TestersShow(a)'
    BY <1>1, <1>6, <1>7 DEF TestersShow
  <2> QED
    BY <1>1, <1>7, <2>1, <2>2, AgreesKept DEF Calm
<1>8. CASE c.acct = a
  <2>1. (\A e \in x7 : e.acct = a => e = c) /\ (\A p \in x4 : ~(p.after < a)) /\ x6 = {} /\ c.of = x5.gen
    BY <1>1, <1>8, Lone DEF Calm, Agrees
  <2>2. x1[a] = Members!Wanted("clear", c.base) /\ x1[a].canary = FALSE /\ RowsShow(a, c.base)
    BY <1>1, <1>4, <1>8 DEF Calm, Agrees
  <2>3. TestersShow(a)'
    BY <1>1, <1>6, <1>8, <2>1, <2>2 DEF TestersShow
  <2>4. ShownRow(a) => k.of = x2.gen /\ k.v = c.base
    BY <1>2, <1>8, <2>2 DEF ShownRow, RowsShow
  <2>5. RowsShow(a, x1[a])'
    <3>1. CASE k.of = 0
      <4>1. ~ShownRow(a)
        BY <1>4, <2>4, <3>1
      <4>2. x2' = x2
        BY <1>3, <3>1
      <4> QED
        BY <4>1, <4>2 DEF ShownRow, RowsShow
    <3>2. CASE k.of # 0
      <4>1. PICK v : v = Members!Wanted("clear", k.v)
        OBVIOUS
      <4>2. Members!Draw(c.acct, k.of, v)
        BY <1>3, <3>2, <4>1
      <4>3. RowsShow(a, v)'
        BY <1>1, <1>4, <1>8, <2>4, <4>2, DrawShown DEF Calm
      <4>4. CASE ShownRow(a)
        <5>1. v = x1[a]
          BY <2>2, <2>4, <4>1, <4>4
        <5> QED
          BY <1>1, <4>3, <5>1 DEF RowsShow
      <4>5. CASE ~ShownRow(a)
        <5> PICK q : q = Members!Redrawn(x2.rows, c.acct, k.of, v)
          OBVIOUS
        <5>1. x2' = [x2 EXCEPT !.rows = q]
          BY <4>2 DEF Members!Draw
        <5>2. /\ q = [i \in DOMAIN x2.rows |-> q[i]]
              /\ \A i \in DOMAIN x2.rows : IsRow(q[i]) /\ q[i].acct = x2.rows[i].acct /\ q[i].of = x2.rows[i].of
          BY DrawnRows DEF Calm
        <5>3. x1 = [b \in 1..2 |-> x1[b]] /\ \A b \in 1..2 : IsView(x1[b])
          BY DEF Calm, MemberListInv, RowsInv
        <5>4. x2'.rows = q /\ DOMAIN q = DOMAIN x2.rows
          BY <1>1, <5>1, <5>2, <5>3, RowsKept DEF Calm
        <5>5. \A i \in DOMAIN x2'.rows : x2'.rows[i].acct # a
          BY <4>5, <5>2, <5>4 DEF ShownRow
        <5> QED
          BY <5>5 DEF RowsShow
      <4> QED
        BY <4>4, <4>5
    <3> QED
      BY <3>1, <3>2
  <2>6. \A e \in x7' : e.acct # a
    BY <1>1, <2>1
  <2>7. \A p \in x4' : p.gen = x2'.gen /\ p.read /\ p.got.item = a => p.got.v = x1'[a]
    <3>1. \A p \in x4 : p.after \in 0..2 /\ (p.read => (p.got.item # 0 => p.got.item > p.after))
      BY DEF Calm, MemberListInv, PagerInv
    <3> QED
      BY <1>1, <1>4, <1>8, <2>1, <3>1
  <2> QED
    BY <2>3, <2>5, <2>6, <2>7 DEF Agrees, Calm
<1> QED
  BY <1>7, <1>8

\* A call about another account fails.
LEMMA AgreesFails == \A a : \A c \in x7 : Calm(a) /\ Members!ActionFails(c) /\ c.acct # a => Agrees(a)'
<1> SUFFICES ASSUME NEW a, NEW c \in x7, Calm(a), Members!ActionFails(c), c.acct # a PROVE Agrees(a)'
  OBVIOUS
<1> PICK r : r = Members!Freed(x2.rows, c.id)
  OBVIOUS
<1>1. x2' = [x2 EXCEPT !.rows = r] /\ x7' = x7 \ {c} /\ UNCHANGED <<x1, x3, x4, x5, x6>>
  BY DEF Members!ActionFails
<1>2. /\ r = [i \in DOMAIN x2.rows |-> r[i]]
      /\ \A i \in DOMAIN x2.rows : IsRow(r[i]) /\ r[i].acct = x2.rows[i].acct /\ r[i].of = x2.rows[i].of /\ r[i].v = x2.rows[i].v
  BY FreedRows DEF Calm
<1>3. x2'.gen = x2.gen /\ \A v : RowsShow(a, v) => RowsShow(a, v)'
  BY <1>1, <1>2, ShownKept DEF Calm
<1>4. TestersShow(a) => TestersShow(a)'
  BY <1>1 DEF TestersShow
<1> QED
  BY <1>1, <1>3, <1>4, AgreesKept DEF Calm

LEMMA AgreeStep == MemberListInv /\ CallsInv /\ AgreeInv /\ [Members!Next]_(Members!vars) => AgreeInv'
<1> SUFFICES ASSUME MemberListInv, CallsInv, AgreeInv, [Members!Next]_(Members!vars), NEW a \in 1..2, a \notin x9' PROVE Agrees(a)'
  BY DEF AgreeInv
<1>1. CASE UNCHANGED Members!vars
  <2>1. UNCHANGED <<x1, x2, x3, x4, x5, x6, x7, x8, x9, x10>>
    BY <1>1 DEF Members!vars
  <2>2. Agrees(a)
    BY <2>1 DEF AgreeInv
  <2>3. ~Members!Crossing(a)'
    BY <2>1, <2>2 DEF Agrees, Members!Crossing
  <2>4. TestersShow(a) => TestersShow(a)'
    BY <2>1 DEF TestersShow
  <2>5. \A v : RowsShow(a, v) => RowsShow(a, v)'
    BY <2>1, SameShown
  <2> QED
    BY <2>1, <2>2, <2>3, <2>4, <2>5, AgreesKept
<1>2. CASE Members!Next
  <2>1. /\ a \notin x9 /\ ~Members!Crossing(a)'
        /\ \A c \in Members!Failing : c.acct # a
    BY <1>2 DEF Members!Next, Members!Accounts
  <2>2. Calm(a)
    BY <2>1 DEF Calm, AgreeInv
  <2>3. ASSUME NEW c \in x7, Members!ActionFails(c) PROVE Agrees(a)'
    <3>1. \A d \in x7' : d.id # c.id
      <4>1. x7' = x7 \ {c} /\ \A d \in x7 : d.id = c.id => d = c
        BY <2>3 DEF CallsInv, Members!ActionFails
      <4> QED
        BY <4>1
    <3>2. ~(c.served /\ c.ok /\ x8' = x8)
      <4>1. PICK k, m : x8 = [acts |-> k, mishaps |-> m]
        BY DEF CallsInv
      <4>2. m \in Nat
        BY <4>1 DEF CallsInv
      <4>3. [x8 EXCEPT !.mishaps = @ + 1] = [acts |-> k, mishaps |-> m + 1]
        BY <4>1
      <4> PICK e : e = [x8 EXCEPT !.mishaps = @ + 1]
        OBVIOUS
      <4>4. e.mishaps = m + 1 /\ x8.mishaps = m
        BY <4>1, <4>3
      <4>5. e # x8
        <5>1. m + 1 # m
          BY <4>2
        <5>2. e = x8 => e.mishaps = x8.mishaps
          OBVIOUS
        <5> QED
          BY <4>4, <5>1, <5>2
      <4> QED
        BY <2>3, <4>5 DEF Members!ActionFails
    <3>3. c.acct # a
      BY <2>1, <3>1, <3>2 DEF Members!Failing
    <3> QED
      BY <2>2, <2>3, <3>3, AgreesFails
  <2>4. CASE Members!Reload
    BY <2>2, <2>4, AgreesReload
  <2>5. CASE Members!LoadMore \/ \E p \in x4 : Members!ReadPage(p) \/ Members!PageFails(p)
    BY <2>2, <2>5, AgreesPages
  <2>6. CASE Members!MoreTesters \/ \E t \in x6 : Members!ReadTesters(t) \/ Members!ShowTesters(t) \/ Members!TestersFail(t)
    BY <2>2, <2>6, AgreesLoads
  <2>7. CASE Members!Press \/ Members!ClearTester
    BY <2>2, <2>7, AgreesPress
  <2>8. ASSUME NEW p \in x4, Members!ShowPage(p) PROVE Agrees(a)'
    BY <2>2, <2>8, AgreesShow
  <2>9. ASSUME NEW c \in x7, Members!Serve(c) \/ Members!RowAnswer(c) \/ Members!TesterAnswer(c) PROVE Agrees(a)'
    BY <2>2, <2>9, AgreesServe, AgreesRow, AgreesTester
  <2> QED
    BY <1>2, <2>3, <2>4, <2>5, <2>6, <2>7, <2>8, <2>9 DEF Members!Next, Members!Step
<1> QED
  BY <1>1, <1>2

\* The whole of it.
MembersInv == MemberListInv /\ CallsInv /\ AgreeInv

LEMMA MembersStep == MembersInv /\ [Members!Next]_(Members!vars) => MembersInv'
<1> SUFFICES ASSUME MembersInv, [Members!Next]_(Members!vars) PROVE MembersInv'
  OBVIOUS
<1>1. \A c \in x7 : c.kind \in Kinds /\ c.acct \in 1..2
  BY DEF MembersInv, CallsInv
<1>2. MemberListInv'
  BY <1>1, MemberListStep DEF MembersInv
<1>3. CallsInv'
  BY CallsStep DEF MembersInv
<1>4. AgreeInv'
  BY AgreeStep DEF MembersInv
<1> QED
  BY <1>2, <1>3, <1>4 DEF MembersInv

LEMMA MembersSafe == MembersInv => Members!ListedOnce /\ Members!PageAgrees
BY MemberListSafe, AgreeSafe DEF MembersInv

LEMMA MembersBegin == Members!Init => MembersInv
BY MembersInit, CallsInit DEF MembersInv
================================================================================
