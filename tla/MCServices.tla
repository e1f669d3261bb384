------------------------------ MODULE MCServices -------------------------------
(***************************************************************************)
(* The services around the vault's recovery, each in a small instance for  *)
(* TLC.  They share no state that one model would have to hold together,   *)
(* so a behaviour is of one of them, the part, and one set of variables    *)
(* serves whichever part it is; those a part has no use for stay empty.    *)
(* First come the sections on the services that ServiceInvariants leaves   *)
(* to this module, then the instances, the parts and the properties over   *)
(* them, and last the theorems that put the invariants together.           *)
(***************************************************************************)
EXTENDS ServiceInvariants, TLC

--------------------------------------------------------------------------------
(***************************************************************************)
(* That a member's consent is to a text that was on the page, that what    *)
(* was published stays, and that the version asked for is the one that was *)
(* published last, for any versions and any number of administrators at    *)
(* once.  The argument of the last: a publication saw only versions that   *)
(* were published before it began, so what it supersedes is older than     *)
(* what it makes current, and the newest stays current however two of them *)
(* meet.  Nothing of this depends on when the index follows the table.     *)
(***************************************************************************)
CONSTANTS TermVersions, TermPublications                       \* versions of the membership terms, and publications

ASSUME TermsAssumption == TermVersions \subseteq Nat \ {0} /\ TermPublications \in Nat

Terms == INSTANCE MembershipTerms WITH
               Versions <- TermVersions, Calls <- Two, Publications <- TermPublications,
               ver <- x1, docs <- x2, index <- x3, call <- x4, stamp <- x5, accepted <- x6,
               page <- x7, load <- x8, post <- x9, read <- x10

TermRow   == [st : Terms!Status, at : Nat]
TermCall  == [op : {"none", "row", "publish", "delete", "docs"}, v : TermVersions \cup {0},
              saw : SUBSET TermVersions, at : Nat]
Published == {"current", "superseded"}

TermsTyped ==
  /\ x1 \in [TermVersions -> TermRow] /\ x2 \subseteq TermVersions /\ x3 \subseteq TermVersions
  /\ x4 \in [Two -> TermCall] /\ x5 \in Nat

\* What was published, and only that, has its time; a row has its texts until it is deleted.
RowsKept ==
  /\ \A v \in TermVersions : x1[v].at # 0 => x1[v].st \in Published
  /\ \A v \in TermVersions : x1[v].at <= x5
  /\ \A v \in TermVersions : x1[v].st \in Published \cup {"draft"} => v \in x2
  /\ \A v \in x3 : x1[v].st \in Published

NewestCurrent ==
  \A v \in TermVersions : x1[v].at # 0 =>
    \E m \in TermVersions : x1[m].st = "current" /\ x1[m].at # 0 /\ \A u \in TermVersions : x1[u].at <= x1[m].at

\* A call under way: its row is nobody else's yet, is deleted, or is newer than all it supersedes.
CallFits(c) ==
  /\ x4[c].op # "none" => x4[c].v \in TermVersions
  /\ x4[c].op = "row" => /\ x1[x4[c].v].st = "none" /\ x4[c].v \in x2
                         /\ \A d \in Two \ {c} : x4[d].v # x4[c].v
  /\ x4[c].op = "docs" => x1[x4[c].v].st = "deleted"
  /\ x4[c].op = "publish" => /\ x4[c].at \in 1..x5
                             /\ \A u \in x4[c].saw : x1[u].st \in Published /\ x1[u].at < x4[c].at

\* What is sent, and what was accepted, was on the page.
ReadFirst ==
  /\ x9 \in [at : {"none", "sent", "checked", "done", "conflict", "failed", "me"}, v : {x9.v}, me : {x9.me}]
  /\ x9.v # 0 => x9.v \in x10
  /\ x6 # 0 => x6 \in x10

TermsInv == TermsTyped /\ RowsKept /\ NewestCurrent /\ (\A c \in Two : CallFits(c)) /\ ReadFirst

LEMMA TermsInit == Terms!Init => TermsInv
<1> SUFFICES ASSUME Terms!Init PROVE TermsInv
  OBVIOUS
<1>1. TermsTyped
  BY DEF Terms!Init, TermsTyped, TermRow, TermCall, Terms!Status, Terms!NoCall, Terms!None
<1>2. RowsKept /\ NewestCurrent
  <2>1. x5 = 0 /\ x3 = {} /\ \A v \in TermVersions : x1[v].at = 0 /\ x1[v].st = "none"
    BY DEF Terms!Init
  <2> QED
    BY <2>1 DEF RowsKept, NewestCurrent, Published
<1>3. \A c \in Two : CallFits(c)
  BY DEF Terms!Init, CallFits, Terms!NoCall
<1>4. ReadFirst
  BY DEF Terms!Init, ReadFirst, Terms!NoPost, Terms!None
<1> QED
  BY <1>1, <1>2, <1>3, <1>4 DEF TermsInv

\* What a step of a call writes of itself.
LEMMA TermCalls ==
  /\ Terms!NoCall \in TermCall /\ Terms!NoCall.op = "none" /\ Terms!NoCall.v = 0
  /\ \A r \in TermCall, o \in {"row", "delete", "docs"} :
       [r EXCEPT !.op = o] \in TermCall /\ [r EXCEPT !.op = o].op = o /\ [r EXCEPT !.op = o].v = r.v
  /\ \A r \in TermCall, o \in {"row", "delete"}, v \in TermVersions :
       /\ [r EXCEPT !.op = o, !.v = v] \in TermCall
       /\ [r EXCEPT !.op = o, !.v = v].op = o /\ [r EXCEPT !.op = o, !.v = v].v = v
BY DEF TermCall, Terms!NoCall, Terms!None

LEMMA TermCallSet ==
  ASSUME TermsTyped, NEW c \in Two, NEW n \in TermCall, x4' = [x4 EXCEPT ![c] = n]
  PROVE  x4' \in [Two -> TermCall] /\ x4'[c] = n /\ \A d \in Two \ {c} : x4'[d] = x4[d]
BY DEF TermsTyped

\* A row's status changes, its time does not.
LEMMA TermRowSet ==
  ASSUME TermsTyped, NEW v \in TermVersions, NEW s \in Terms!Status, x1' = [x1 EXCEPT ![v].st = s]
  PROVE  /\ x1' \in [TermVersions -> TermRow] /\ x1'[v].st = s /\ x1'[v].at = x1[v].at
         /\ \A u \in TermVersions \ {v} : x1'[u] = x1[u]
<1>1. x1[v] \in TermRow /\ [x1[v] EXCEPT !.st = s] \in TermRow
  BY DEF TermsTyped, TermRow
<1>2. x1' = [x1 EXCEPT ![v] = [x1[v] EXCEPT !.st = s]]
  BY DEF TermsTyped
<1> QED
  BY <1>1, <1>2 DEF TermsTyped, TermRow

LEMMA TermsCreate ==
  ASSUME TermsInv, NEW c \in Two, Terms!Create(c)
  PROVE  TermsInv'
<1>1. PICK v \in TermVersions : /\ x1[v].st = "none" /\ \A d \in Two : x4[d].v # v
                                /\ x2' = x2 \cup {v} /\ x4' = [x4 EXCEPT ![c] = [Terms!NoCall EXCEPT !.op = "row", !.v = v]]
  BY DEF Terms!Create
<1>2. x1' = x1 /\ x3' = x3 /\ x5' = x5 /\ x6' = x6 /\ x9' = x9 /\ x10' = x10
  BY DEF Terms!Create, Terms!member
<1> DEFINE n == [Terms!NoCall EXCEPT !.op = "row", !.v = v]
<1>3. n \in TermCall /\ n.op = "row" /\ n.v = v
  BY TermCalls
<1>4. x4' \in [Two -> TermCall] /\ x4'[c] = n /\ \A d \in Two \ {c} : x4'[d] = x4[d]
  BY <1>1, <1>3, TermCallSet DEF TermsInv
<1> HIDE DEF n
<1>5. TermsTyped'
  BY <1>1, <1>2, <1>4 DEF TermsInv, TermsTyped
<1>6. RowsKept' /\ NewestCurrent' /\ ReadFirst'
  BY <1>1, <1>2 DEF TermsInv, RowsKept, NewestCurrent, ReadFirst
<1>7. ASSUME NEW d \in Two PROVE CallFits(d)'
  <2>1. CASE d = c
    BY <1>1, <1>2, <1>3, <1>4, <2>1 DEF CallFits
  <2>2. CASE d # c
    <3>1. x4'[d] = x4[d] /\ CallFits(d)
      BY <1>4, <2>2 DEF TermsInv
    <3>2. x4'[d].op = "row" => \A e \in Two \ {d} : x4'[e].v # x4'[d].v
      BY <1>1, <1>3, <1>4, <2>2, <3>1 DEF CallFits
    <3> QED
      BY <1>1, <1>2, <3>1, <3>2 DEF CallFits
  <2> QED
    BY <2>1, <2>2
<1> QED
  BY <1>5, <1>6, <1>7 DEF TermsInv

LEMMA TermsDraft ==
  ASSUME TermsInv, NEW c \in Two, Terms!Draft(c)
  PROVE  TermsInv'
<1> DEFINE v == x4[c].v
<1>1. v \in TermVersions /\ x1[v].st = "none" /\ v \in x2 /\ \A d \in Two \ {c} : x4[d].v # v
  BY DEF TermsInv, CallFits, Terms!Draft
<1>2. /\ x1' = [x1 EXCEPT ![v].st = "draft"] /\ x4' = [x4 EXCEPT ![c] = Terms!NoCall]
      /\ x2' = x2 /\ x3' = x3 /\ x5' = x5 /\ x6' = x6 /\ x9' = x9 /\ x10' = x10
  BY DEF Terms!Draft, Terms!member
<1>3. x4' \in [Two -> TermCall] /\ x4'[c] = Terms!NoCall /\ \A d \in Two \ {c} : x4'[d] = x4[d]
  BY <1>2, TermCalls, TermCallSet DEF TermsInv
<1>4. /\ x1' \in [TermVersions -> TermRow] /\ x1'[v].st = "draft" /\ x1'[v].at = x1[v].at
      /\ \A u \in TermVersions \ {v} : x1'[u] = x1[u]
  BY <1>1, <1>2, TermRowSet DEF TermsInv, Terms!Status
<1> HIDE DEF v
<1>5. TermsTyped'
  BY <1>2, <1>3, <1>4 DEF TermsInv, TermsTyped
<1>6. x1[v].at = 0
  BY <1>1 DEF TermsInv, RowsKept, Published
<1>7. \A u \in TermVersions : x1'[u].at = x1[u].at /\ (u # v => x1'[u].st = x1[u].st)
  BY <1>4
<1>8. RowsKept'
  <2>1. v \notin x3
    BY <1>1 DEF TermsInv, RowsKept, Published
  <2> QED
    BY <1>1, <1>2, <1>4, <1>6, <1>7, <2>1 DEF TermsInv, TermsTyped, RowsKept, Published
<1>9. NewestCurrent'
  <2>1. ASSUME NEW u \in TermVersions, x1'[u].at # 0
        PROVE  \E m \in TermVersions : x1'[m].st = "current" /\ x1'[m].at # 0 /\ \A w \in TermVersions : x1'[w].at <= x1'[m].at
    <3>1. PICK m \in TermVersions : x1[m].st = "current" /\ x1[m].at # 0 /\ \A w \in TermVersions : x1[w].at <= x1[m].at
      BY <1>7, <2>1 DEF TermsInv, NewestCurrent
    <3> QED
      BY <1>1, <1>7, <3>1
  <2> QED
    BY <2>1 DEF NewestCurrent
<1>10. ASSUME NEW d \in Two PROVE CallFits(d)'
  <2>1. CASE d = c
    BY <1>3, <2>1, TermCalls DEF CallFits
  <2>2. CASE d # c
    <3>1. x4'[d] = x4[d] /\ CallFits(d) /\ x4[d].v # v
      BY <1>1, <1>3, <2>2 DEF TermsInv
    <3>2. x4'[d].op = "row" => \A e \in Two \ {d} : x4'[e].v # x4'[d].v
      <4>1. ASSUME x4[d].op = "row" PROVE x4[d].v # 0 /\ \A e \in Two \ {d} : x4[e].v # x4[d].v
        BY <3>1, <4>1, TermsAssumption DEF CallFits
      <4>2. ASSUME x4[d].op = "row", NEW e \in Two \ {d} PROVE x4'[e].v # x4[d].v
        <5>1. CASE e = c
          <6>1. x4'[e].v = 0
            BY <1>3, <5>1, TermCalls
          <6> QED
            BY <4>1, <4>2, <6>1
        <5>2. CASE e # c
          BY <1>3, <4>1, <4>2, <5>2
        <5> QED
          BY <5>1, <5>2
      <4> QED
        BY <3>1, <4>2
    <3>3. x4'[d].op = "publish" => /\ x4'[d].at \in 1..x5'
                                   /\ \A u \in x4'[d].saw : x1'[u].st \in Published /\ x1'[u].at < x4'[d].at
      <4>1. x4[d].saw \subseteq TermVersions
        BY DEF TermsInv, TermsTyped, TermCall
      <4> QED
        BY <1>1, <1>2, <1>7, <3>1, <4>1 DEF CallFits, Published
    <3>4. x4'[d].op = "docs" => x1'[x4'[d].v].st = "deleted"
      BY <1>7, <3>1 DEF CallFits
    <3>5. x4'[d].op = "row" => x1'[x4'[d].v].st = "none" /\ x4'[d].v \in x2'
      BY <1>2, <1>7, <3>1 DEF CallFits
    <3> QED
      BY <3>1, <3>2, <3>3, <3>4, <3>5 DEF CallFits
  <2> QED
    BY <2>1, <2>2
<1>11. ReadFirst'
  BY <1>2 DEF TermsInv, ReadFirst
<1> QED
  BY <1>5, <1>8, <1>9, <1>10, <1>11 DEF TermsInv

\* What a call does that changes no row and takes up no new one.
LEMMA TermsCallOnly ==
  ASSUME TermsInv, NEW c \in Two, NEW n \in TermCall, x4' = [x4 EXCEPT ![c] = n],
         n.op # "row", \A d \in Two \ {c} : x4[d].op = "row" => n.v # x4[d].v,
         n.op # "none" => n.v \in TermVersions, n.op = "docs" => x1[n.v].st = "deleted",
         n.op = "publish" => n.at \in 1..x5' /\ \A u \in n.saw : x1[u].st \in Published /\ x1[u].at < n.at,
         x5' \in Nat, x5 <= x5', x2' \subseteq x2, \A v \in TermVersions : x1[v].st # "deleted" /\ v \in x2 => v \in x2',
         x1' = x1, x3' = x3, x6' = x6, x9' = x9, x10' = x10
  PROVE  TermsInv'
<1>1. x4' \in [Two -> TermCall] /\ x4'[c] = n /\ \A d \in Two \ {c} : x4'[d] = x4[d]
  BY TermCallSet DEF TermsInv
<1>2. TermsTyped'
  BY <1>1 DEF TermsInv, TermsTyped
<1>3. RowsKept'
  <2>1. \A v \in TermVersions : x1[v].at \in Nat
    BY DEF TermsInv, TermsTyped, TermRow
  <2>2. \A v \in TermVersions : x1[v].at <= x5'
    BY <2>1 DEF TermsInv, TermsTyped, RowsKept
  <2> QED
    BY <2>2 DEF TermsInv, RowsKept, Published
<1>4. NewestCurrent' /\ ReadFirst'
  BY DEF TermsInv, NewestCurrent, ReadFirst
<1>5. ASSUME NEW d \in Two PROVE CallFits(d)'
  <2>1. CASE d = c
    BY <1>1, <2>1 DEF CallFits
  <2>2. CASE d # c
    <3>1. x4'[d] = x4[d] /\ CallFits(d)
      BY <1>1, <2>2 DEF TermsInv
    <3>2. x4'[d].op = "row" => \A e \in Two \ {d} : x4'[e].v # x4'[d].v
      BY <1>1, <2>2, <3>1 DEF CallFits
    <3>3. x4'[d].op = "publish" => x4'[d].at \in 1..x5'
      BY <3>1 DEF CallFits, TermsInv, TermsTyped
    <3> QED
      BY <3>1, <3>2, <3>3 DEF CallFits
  <2> QED
    BY <2>1, <2>2
<1> QED
  BY <1>2, <1>3, <1>4, <1>5 DEF TermsInv

LEMMA TermsCallEnds ==
  ASSUME TermsInv, NEW c \in Two, x4' = [x4 EXCEPT ![c] = Terms!NoCall],
         x2' \subseteq x2, \A v \in TermVersions : x1[v].st # "deleted" /\ v \in x2 => v \in x2',
         x1' = x1, x3' = x3, x5' = x5, x6' = x6, x9' = x9, x10' = x10
  PROVE  TermsInv'
<1> DEFINE n == Terms!NoCall
<1>1. n \in TermCall /\ n.op = "none" /\ n.v = 0
  BY TermCalls
<1>2. \A d \in Two \ {c} : x4[d].op = "row" => n.v # x4[d].v
  BY <1>1, TermsAssumption DEF TermsInv, CallFits
<1>3. x5 \in Nat
  BY DEF TermsInv, TermsTyped
<1>4. x5' \in Nat /\ x5 <= x5'
  BY <1>3
<1>5. n.op # "row" /\ (n.op # "none" => n.v \in TermVersions) /\ (n.op = "docs" => x1[n.v].st = "deleted")
  BY <1>1
<1>6. n.op = "publish" => n.at \in 1..x5' /\ \A u \in n.saw : x1[u].st \in Published /\ x1[u].at < n.at
  BY <1>1
<1> HIDE DEF n
<1> QED
  BY <1>1, <1>2, <1>4, <1>5, <1>6, TermsCallOnly DEF n

LEMMA TermsBegin ==
  ASSUME TermsInv, NEW c \in Two, Terms!BeginDelete(c) \/ Terms!BeginPublish(c) \/ Terms!DeleteDocs(c)
  PROVE  TermsInv'
<1>0. \A d \in Two : x4[d].op = "row" => x1[x4[d].v].st = "none" /\ x4[d].v \in TermVersions
  BY DEF TermsInv, CallFits
<1>1. CASE Terms!BeginDelete(c)
  <2>1. PICK v \in TermVersions : x1[v].st = "draft" /\ x4' = [x4 EXCEPT ![c] = [Terms!NoCall EXCEPT !.op = "delete", !.v = v]]
    BY <1>1 DEF Terms!BeginDelete
  <2> DEFINE n == [Terms!NoCall EXCEPT !.op = "delete", !.v = v]
  <2>2. n \in TermCall /\ n.op = "delete" /\ n.v = v /\ x4' = [x4 EXCEPT ![c] = n]
    BY <2>1, TermCalls
  <2> HIDE DEF n
  <2>3. x1' = x1 /\ x2' = x2 /\ x3' = x3 /\ x5' = x5 /\ x6' = x6 /\ x9' = x9 /\ x10' = x10 /\ x5 \in Nat
    BY <1>1 DEF Terms!BeginDelete, Terms!member, TermsInv, TermsTyped
  <2>4. \A d \in Two \ {c} : x4[d].op = "row" => n.v # x4[d].v
    BY <1>0, <2>1, <2>2
  <2>5. n.op # "row" /\ (n.op # "none" => n.v \in TermVersions) /\ (n.op = "docs" => x1[n.v].st = "deleted")
    BY <2>2
  <2>6. n.op = "publish" => n.at \in 1..x5' /\ \A u \in n.saw : x1[u].st \in Published /\ x1[u].at < n.at
    BY <2>2
  <2>7. x5' \in Nat /\ x5 <= x5'
    BY <2>3
  <2> QED
    BY <2>2, <2>3, <2>4, <2>5, <2>6, <2>7, TermsCallOnly
<1>2. CASE Terms!BeginPublish(c)
  <2>1. PICK v \in TermVersions : x1[v].st = "draft" /\ x4' = [x4 EXCEPT ![c] = [op |-> "publish", v |-> v, saw |-> x3, at |-> x5 + 1]]
    BY <1>2 DEF Terms!BeginPublish
  <2> DEFINE n == [op |-> "publish", v |-> v, saw |-> x3, at |-> x5 + 1]
  <2>2. n \in TermCall /\ n.op = "publish" /\ n.v = v /\ n.saw = x3 /\ n.at = x5 + 1 /\ x4' = [x4 EXCEPT ![c] = n]
    BY <2>1 DEF TermsInv, TermsTyped, TermCall
  <2> HIDE DEF n
  <2>3. x1' = x1 /\ x2' = x2 /\ x3' = x3 /\ x5' = x5 + 1 /\ x6' = x6 /\ x9' = x9 /\ x10' = x10 /\ x5 \in Nat
    BY <1>2 DEF Terms!BeginPublish, Terms!member, TermsInv, TermsTyped
  <2>4. \A u \in n.saw : x1[u].st \in Published /\ x1[u].at < n.at
    <3>1. \A u \in x3 : u \in TermVersions /\ x1[u].at \in Nat /\ x1[u].at <= x5 /\ x1[u].st \in Published
      BY DEF TermsInv, TermsTyped, TermRow, RowsKept
    <3> QED
      BY <2>2, <2>3, <3>1
  <2>5. n.at \in 1..x5' /\ x5' \in Nat /\ x5 <= x5'
    BY <2>2, <2>3
  <2>6. \A d \in Two \ {c} : x4[d].op = "row" => n.v # x4[d].v
    BY <1>0, <2>1, <2>2
  <2>7. n.op # "row" /\ (n.op # "none" => n.v \in TermVersions) /\ (n.op = "docs" => x1[n.v].st = "deleted")
    BY <2>2
  <2>8. n.op = "publish" => n.at \in 1..x5' /\ \A u \in n.saw : x1[u].st \in Published /\ x1[u].at < n.at
    BY <2>4, <2>5
  <2> QED
    BY <2>2, <2>3, <2>5, <2>6, <2>7, <2>8, TermsCallOnly
<1>3. CASE Terms!DeleteDocs(c)
  <2>1. /\ x4[c].op = "docs" /\ x4' = [x4 EXCEPT ![c] = Terms!NoCall] /\ x2' = x2 \ {x4[c].v}
        /\ x1' = x1 /\ x3' = x3 /\ x5' = x5 /\ x6' = x6 /\ x9' = x9 /\ x10' = x10 /\ x5 \in Nat
    BY <1>3 DEF Terms!DeleteDocs, Terms!member, TermsInv, TermsTyped
  <2>2. x1[x4[c].v].st = "deleted"
    BY <2>1 DEF TermsInv, CallFits
  <2> QED
    BY <2>1, <2>2, TermsCallEnds
<1> QED
  BY <1>1, <1>2, <1>3

LEMMA TermsDelete ==
  ASSUME TermsInv, NEW c \in Two, Terms!Delete(c)
  PROVE  TermsInv'
<1> DEFINE v == x4[c].v
<1>0. v \in TermVersions /\ x4[c] \in TermCall /\ DOMAIN x4 = Two
  BY DEF TermsInv, TermsTyped, CallFits, Terms!Delete
<1>1. x2' = x2 /\ x3' = x3 /\ x5' = x5 /\ x6' = x6 /\ x9' = x9 /\ x10' = x10 /\ x5 \in Nat
  BY DEF Terms!Delete, Terms!member, TermsInv, TermsTyped
<1>2. CASE x1[v].st # "draft"
  <2>1. x1' = x1 /\ x4' = [x4 EXCEPT ![c] = Terms!NoCall]
    BY <1>2 DEF Terms!Delete, Terms!Deletable
  <2> QED
    BY <1>1, <2>1, TermsCallEnds
<1>3. CASE x1[v].st = "draft"
  <2> DEFINE n == [x4[c] EXCEPT !.op = "docs"]
  <2>1. x1' = [x1 EXCEPT ![v].st = "deleted"] /\ x4' = [x4 EXCEPT ![c] = n]
    BY <1>0, <1>3 DEF Terms!Delete, Terms!Deletable
  <2>2. n \in TermCall /\ n.op = "docs" /\ n.v = v
    BY <1>0, TermCalls
  <2>3. x4' \in [Two -> TermCall] /\ x4'[c] = n /\ \A d \in Two \ {c} : x4'[d] = x4[d]
    BY <2>1, <2>2, TermCallSet DEF TermsInv
  <2>4. /\ x1' \in [TermVersions -> TermRow] /\ x1'[v].st = "deleted" /\ x1'[v].at = x1[v].at
        /\ \A u \in TermVersions \ {v} : x1'[u] = x1[u]
    BY <1>0, <2>1, TermRowSet DEF TermsInv, Terms!Status
  <2> HIDE DEF n, v
  <2>5. TermsTyped'
    BY <1>1, <2>3, <2>4 DEF TermsInv, TermsTyped
  <2>6. x1[v].at = 0 /\ v \notin x3
    BY <1>0, <1>3 DEF TermsInv, RowsKept, Published
  <2>7. \A u \in TermVersions : x1'[u].at = x1[u].at /\ (u # v => x1'[u].st = x1[u].st)
    BY <2>4
  <2>8. RowsKept'
    BY <1>1, <2>4, <2>6, <2>7 DEF TermsInv, TermsTyped, RowsKept, Published
  <2>9. NewestCurrent'
    <3>1. ASSUME NEW u \in TermVersions, x1'[u].at # 0
          PROVE  \E m \in TermVersions : x1'[m].st = "current" /\ x1'[m].at # 0 /\ \A w \in TermVersions : x1'[w].at <= x1'[m].at
      <4>1. PICK m \in TermVersions : x1[m].st = "current" /\ x1[m].at # 0 /\ \A w \in TermVersions : x1[w].at <= x1[m].at
        BY <2>7, <3>1 DEF TermsInv, NewestCurrent
      <4> QED
        BY <1>3, <2>7, <4>1
    <3> QED
      BY <3>1 DEF NewestCurrent
  <2>10. ASSUME NEW d \in Two PROVE CallFits(d)'
    <3>1. CASE d = c
      BY <1>0, <2>2, <2>3, <2>4, <3>1 DEF CallFits
    <3>2. CASE d # c
      <4>1. x4'[d] = x4[d] /\ CallFits(d)
        BY <2>3, <3>2 DEF TermsInv
      <4>2. x4'[d].op = "row" => /\ \A e \in Two \ {d} : x4'[e].v # x4'[d].v
                                 /\ x1'[x4'[d].v].st = "none" /\ x4'[d].v \in x2'
        BY <1>1, <1>3, <2>2, <2>3, <2>7, <4>1 DEF CallFits
      <4>3. x4'[d].op = "publish" => /\ x4'[d].at \in 1..x5'
                                     /\ \A u \in x4'[d].saw : x1'[u].st \in Published /\ x1'[u].at < x4'[d].at
        <5>1. x4[d].saw \subseteq TermVersions
          BY DEF TermsInv, TermsTyped, TermCall
        <5> QED
          BY <1>1, <1>3, <2>7, <4>1, <5>1 DEF CallFits, Published
      <4>4. x4'[d].op = "docs" => x1'[x4'[d].v].st = "deleted"
        BY <2>4, <2>7, <4>1 DEF CallFits
      <4> QED
        BY <4>1, <4>2, <4>3, <4>4 DEF CallFits
    <3> QED
      BY <3>1, <3>2
  <2>11. ReadFirst'
    BY <1>1 DEF TermsInv, ReadFirst
  <2> QED
    BY <2>5, <2>8, <2>9, <2>10, <2>11 DEF TermsInv
<1> QED
  BY <1>2, <1>3

LEMMA TermsPublish ==
  ASSUME TermsInv, NEW c \in Two, Terms!Publish(c)
  PROVE  TermsInv'
<1> DEFINE v == x4[c].v
           saw == x4[c].saw
           t == x4[c].at
<1>0. /\ v \in TermVersions /\ saw \subseteq TermVersions /\ t \in 1..x5 /\ t \in Nat \ {0}
      /\ \A u \in saw : x1[u].st \in Published /\ x1[u].at < t
  BY DEF TermsInv, TermsTyped, TermCall, CallFits, Terms!Publish
<1>1. /\ x4' = [x4 EXCEPT ![c] = Terms!NoCall] /\ x5 \in Nat
      /\ x2' = x2 /\ x3' = x3 /\ x5' = x5 /\ x6' = x6 /\ x9' = x9 /\ x10' = x10
  BY DEF Terms!Publish, Terms!member, TermsInv, TermsTyped
<1>2. \A d \in Two \ {c} : x4[d].op = "row" => Terms!NoCall.v # x4[d].v
  BY TermCalls, TermsAssumption DEF TermsInv, CallFits
<1>3. CASE x1' = x1
  BY <1>1, <1>3, TermsCallEnds
<1>4. CASE x1' # x1
  <2>1. /\ x1[v].st = "draft" /\ \A u \in saw : x1[u].st = "current"
        /\ x1' = [u \in TermVersions |-> IF u = v THEN [st |-> "current", at |-> t]
                                         ELSE IF u \in saw THEN [x1[u] EXCEPT !.st = "superseded"] ELSE x1[u]]
    BY <1>4 DEF Terms!Publish
  <2> HIDE DEF v, saw, t
  <2>2. \A u \in TermVersions : x1[u] \in TermRow /\ [x1[u] EXCEPT !.st = "superseded"] \in TermRow
                                /\ [x1[u] EXCEPT !.st = "superseded"].st = "superseded"
                                /\ [x1[u] EXCEPT !.st = "superseded"].at = x1[u].at
    BY DEF TermsInv, TermsTyped, TermRow, Terms!Status
  <2>3. [st |-> "current", at |-> t] \in TermRow
    BY <1>0 DEF TermRow, Terms!Status
  <2>4. x1' \in [TermVersions -> TermRow]
    BY <2>1, <2>2, <2>3
  <2>5. /\ x1'[v].st = "current" /\ x1'[v].at = t
        /\ \A u \in TermVersions \ {v} : x1'[u].at = x1[u].at
        /\ \A u \in TermVersions \ {v} : x1'[u].st = x1[u].st \/ (u \in saw /\ x1[u].st = "current" /\ x1'[u].st = "superseded")
    BY <1>0, <2>1, <2>2
  <2>6. x4' \in [Two -> TermCall] /\ x4'[c] = Terms!NoCall /\ \A d \in Two \ {c} : x4'[d] = x4[d]
    BY <1>1, TermCalls, TermCallSet DEF TermsInv
  <2>7. TermsTyped'
    BY <1>1, <2>4, <2>6 DEF TermsInv, TermsTyped
  <2>8. x1[v].at = 0 /\ v \in x2 /\ v \notin x3
    BY <1>0, <2>1 DEF TermsInv, RowsKept, Published
  <2>9. \A u \in TermVersions : x1[u].at \in Nat /\ x1[u].at <= x5
    BY DEF TermsInv, TermsTyped, TermRow, RowsKept
  <2>10. RowsKept'
    <3>1. ASSUME NEW u \in TermVersions
          PROVE  /\ x1'[u].at # 0 => x1'[u].st \in Published
                 /\ x1'[u].at <= x5'
                 /\ x1'[u].st \in Published \cup {"draft"} => u \in x2'
                 /\ u \in x3' => x1'[u].st \in Published
      <4>1. CASE u = v
        BY <1>0, <1>1, <2>5, <2>8, <4>1 DEF Published
      <4>2. CASE u # v
        BY <1>0, <1>1, <2>5, <2>9, <4>2 DEF TermsInv, RowsKept, Published
      <4> QED
        BY <4>1, <4>2
    <3>2. x3' \subseteq TermVersions
      BY <1>1 DEF TermsInv, TermsTyped
    <3> QED
      BY <3>1, <3>2 DEF RowsKept
  <2>11. \E m \in TermVersions : x1'[m].st = "current" /\ x1'[m].at # 0 /\ \A u \in TermVersions : x1'[u].at <= x1'[m].at
    <3>1. CASE \A u \in TermVersions : x1[u].at <= t
      <4>1. \A u \in TermVersions : x1'[u].at <= x1'[v].at
        BY <1>0, <2>5, <2>9, <3>1
      <4> QED
        BY <1>0, <2>5, <4>1
    <3>2. ASSUME NEW w \in TermVersions, ~(x1[w].at <= t)
          PROVE  \E m \in TermVersions : x1'[m].st = "current" /\ x1'[m].at # 0 /\ \A u \in TermVersions : x1'[u].at <= x1'[m].at
      <4>1. PICK m \in TermVersions : x1[m].st = "current" /\ x1[m].at # 0 /\ \A u \in TermVersions : x1[u].at <= x1[m].at
        BY <1>0, <2>9, <3>2 DEF TermsInv, NewestCurrent
      <4>2. x1[w].at <= x1[m].at /\ t < x1[m].at
        BY <1>0, <2>9, <3>2, <4>1
      <4>3. m # v /\ m \notin saw
        BY <1>0, <2>1, <2>9, <4>1, <4>2
      <4>4. x1'[m].st = "current" /\ x1'[m].at = x1[m].at
        BY <2>5, <4>1, <4>3
      <4>5. \A u \in TermVersions : x1'[u].at <= x1'[m].at
        BY <1>0, <2>5, <2>9, <4>1, <4>2, <4>4
      <4> QED
        BY <4>1, <4>4, <4>5
    <3> QED
      BY <3>1, <3>2
  <2>12. NewestCurrent'
    BY <2>11 DEF NewestCurrent
  <2>13. ASSUME NEW d \in Two PROVE CallFits(d)'
    <3>1. CASE d = c
      BY <2>6, <3>1, TermCalls DEF CallFits
    <3>2. CASE d # c
      <4>1. x4'[d] = x4[d] /\ CallFits(d)
        BY <2>6, <3>2 DEF TermsInv
      <4>2. x4'[d].op = "row" => \A e \in Two \ {d} : x4'[e].v # x4'[d].v
        BY <1>2, <2>6, <4>1, <3>2 DEF CallFits
      <4>3. x4'[d].op = "row" => x1'[x4'[d].v].st = "none" /\ x4'[d].v \in x2'
        BY <1>1, <2>1, <2>5, <4>1 DEF CallFits
      <4>4. x4'[d].op = "publish" => /\ x4'[d].at \in 1..x5'
                                     /\ \A u \in x4'[d].saw : x1'[u].st \in Published /\ x1'[u].at < x4'[d].at
        <5>1. x4[d].saw \subseteq TermVersions
          BY DEF TermsInv, TermsTyped, TermCall
        <5>2. x4[d].op = "publish" => \A u \in x4[d].saw : u # v
          BY <2>1, <4>1 DEF CallFits, Published
        <5> QED
          BY <1>1, <2>5, <4>1, <5>1, <5>2 DEF CallFits, Published
      <4>5. x4'[d].op = "docs" => x1'[x4'[d].v].st = "deleted"
        BY <2>1, <2>5, <4>1 DEF CallFits
      <4> QED
        BY <4>1, <4>2, <4>3, <4>4, <4>5 DEF CallFits
    <3> QED
      BY <3>1, <3>2
  <2>14. ReadFirst'
    BY <1>1 DEF TermsInv, ReadFirst
  <2> QED
    BY <2>7, <2>10, <2>12, <2>13, <2>14 DEF TermsInv
<1> QED
  BY <1>3, <1>4

\* The index, the member's calls and the page leave the administrators' rows alone.
LEMMA TermsMember ==
  ASSUME TermsInv, UNCHANGED <<x1, x2, x4, x5>>, x3' \subseteq TermVersions,
         \A v \in x3' \ x3 : x1[v].st = "current", ReadFirst'
  PROVE  TermsInv'
<1>1. TermsTyped' /\ NewestCurrent'
  BY DEF TermsInv, TermsTyped, NewestCurrent
<1>2. RowsKept'
  BY DEF TermsInv, RowsKept, Published
<1>3. \A c \in Two : CallFits(c)'
  BY DEF TermsInv, CallFits
<1> QED
  BY <1>1, <1>2, <1>3 DEF TermsInv

\* Every step keeps that what is accepted was read.
LEMMA TermsRead ==
  ASSUME ReadFirst,
         \/ Terms!ServeText \/ Terms!ServeAccept \/ Terms!WriteAccept \/ Terms!Fails \/ Terms!IndexFollows
         \/ Terms!SetMe \/ Terms!TextArrives \/ Terms!Retry \/ Terms!RefreshPdf \/ Terms!Toggle
         \/ Terms!Submit \/ Terms!AcceptArrives
  PROVE  ReadFirst'
<1> DEFINE CallAts == {"none", "sent", "checked", "done", "conflict", "failed", "me"}
<1>0. x9 \in [at : CallAts, v : {x9.v}, me : {x9.me}]
  BY DEF ReadFirst
<1>00. \A a \in CallAts : [x9 EXCEPT !.at = a] \in [at : CallAts, v : {x9.v}, me : {x9.me}] /\ [x9 EXCEPT !.at = a].v = x9.v
  BY <1>0
<1>1. CASE Terms!ServeText \/ Terms!IndexFollows \/ Terms!SetMe \/ Terms!TextArrives \/ Terms!Retry \/ Terms!RefreshPdf \/ Terms!Toggle
  BY <1>1 DEF ReadFirst, Terms!ServeText, Terms!IndexFollows, Terms!SetMe, Terms!TextArrives, Terms!Retry,
     Terms!RefreshPdf, Terms!Toggle, Terms!member, Terms!admin
<1>2. ASSUME x9' = Terms!NoPost, x10' = x10, x6' = x6 PROVE ReadFirst'
  BY <1>2 DEF ReadFirst, Terms!NoPost, Terms!None
<1>3. ASSUME NEW a \in CallAts, x9' = [x9 EXCEPT !.at = a], x10' = x10, x6' = x6 PROVE ReadFirst'
  <2>1. x9' \in [at : CallAts, v : {x9.v}, me : {x9.me}] /\ x9'.v = x9.v
    BY <1>00, <1>3
  <2> QED
    BY <1>3, <2>1 DEF ReadFirst
<1>4. CASE Terms!ServeAccept
  <2>1. x10' = x10 /\ x6' = x6
    BY <1>4 DEF Terms!ServeAccept
  <2>2. CASE Terms!Acceptable(x9.v)
    <3>1. x9' = [x9 EXCEPT !.at = "checked", !.v = Terms!Current] /\ Terms!Current = x9.v
      BY <1>4, <2>2 DEF Terms!ServeAccept, Terms!Acceptable
    <3>2. x9' = [x9 EXCEPT !.at = "checked"]
      BY <1>0, <3>1
    <3> QED
      BY <1>3, <2>1, <3>2
  <2>3. CASE ~Terms!Acceptable(x9.v)
    BY <1>3, <1>4, <2>1, <2>3 DEF Terms!ServeAccept
  <2> QED
    BY <2>2, <2>3
<1>5. CASE Terms!WriteAccept
  <2> DEFINE mm == <<Terms!Current, x9.v>>
  <2>1. x9' = [x9 EXCEPT !.at = "done", !.me = mm] /\ x6' = x9.v /\ x10' = x10
    BY <1>5 DEF Terms!WriteAccept
  <2> HIDE DEF mm
  <2>2. x9' \in [at : CallAts, v : {x9.v}, me : {mm}] /\ x9'.v = x9.v /\ x9'.me = mm
    BY <1>0, <2>1
  <2> QED
    BY <2>1, <2>2 DEF ReadFirst
<1>6. CASE Terms!Fails
  <2>1. x10' = x10 /\ x6' = x6 /\ (x9' = x9 \/ x9' = [x9 EXCEPT !.at = "failed"])
    BY <1>6 DEF Terms!Fails
  <2> QED
    BY <1>3, <2>1 DEF ReadFirst
<1>7. CASE Terms!Submit
  <2> DEFINE f == x7.form
  <2>1. x9' = [Terms!NoPost EXCEPT !.at = "sent", !.v = f] /\ x10' = x10 \cup {f} /\ x6' = x6
    BY <1>7 DEF Terms!Submit
  <2> HIDE DEF f
  <2>2. x9' \in [at : CallAts, v : {f}, me : {Terms!NoPost.me}] /\ x9'.v = f /\ x9'.me = Terms!NoPost.me
    BY <2>1 DEF Terms!NoPost
  <2> QED
    BY <2>1, <2>2 DEF ReadFirst
<1>8. CASE Terms!AcceptArrives
  <2>1. x10' = x10 /\ x6' = x6 /\ (x9' = Terms!NoPost \/ x9' = [x9 EXCEPT !.at = "me"])
    BY <1>8 DEF Terms!AcceptArrives
  <2> QED
    BY <1>2, <1>3, <2>1
<1> QED
  BY <1>1, <1>4, <1>5, <1>6, <1>7, <1>8

LEMMA TermsStep == TermsInv /\ [Terms!Next]_(Terms!vars) => TermsInv'
<1> SUFFICES ASSUME TermsInv, [Terms!Next]_(Terms!vars) PROVE TermsInv'
  OBVIOUS
<1>0. ReadFirst /\ TermsTyped
  BY DEF TermsInv
<1>1. CASE \E c \in Two : \/ Terms!Create(c) \/ Terms!Draft(c) \/ Terms!BeginPublish(c) \/ Terms!Publish(c)
                          \/ Terms!BeginDelete(c) \/ Terms!Delete(c) \/ Terms!DeleteDocs(c)
  BY <1>1, TermsCreate, TermsDraft, TermsBegin, TermsPublish, TermsDelete
<1>2. CASE Terms!IndexFollows
  <2>1. UNCHANGED <<x1, x2, x4, x5>> /\ x3' \subseteq TermVersions /\ \A v \in x3' \ x3 : x1[v].st = "current"
    BY <1>0, <1>2 DEF Terms!IndexFollows, Terms!admin, TermsTyped
  <2> QED
    BY <1>0, <1>2, <2>1, TermsMember, TermsRead
<1>3. CASE \/ Terms!ServeText \/ Terms!ServeAccept \/ Terms!WriteAccept \/ Terms!Fails
           \/ Terms!SetMe \/ Terms!TextArrives \/ Terms!Retry \/ Terms!RefreshPdf \/ Terms!Toggle
           \/ Terms!Submit \/ Terms!AcceptArrives
  <2>1. UNCHANGED <<x1, x2, x4, x5>> /\ x3' = x3
    BY <1>3 DEF Terms!ServeText, Terms!ServeAccept, Terms!WriteAccept, Terms!Fails, Terms!SetMe, Terms!TextArrives,
       Terms!Retry, Terms!RefreshPdf, Terms!Toggle, Terms!Submit, Terms!AcceptArrives, Terms!admin
  <2> QED
    BY <1>0, <1>3, <2>1, TermsMember, TermsRead DEF TermsTyped
<1>4. CASE UNCHANGED Terms!vars
  <2>1. UNCHANGED <<x1, x2, x4, x5>> /\ x3' = x3 /\ ReadFirst'
    BY <1>0, <1>4 DEF Terms!vars, ReadFirst
  <2> QED
    BY <1>0, <2>1, TermsMember DEF TermsTyped
<1> QED
  BY <1>1, <1>2, <1>3, <1>4 DEF Terms!Next

LEMMA TermsSafe == TermsInv => Terms!ConsentIsRead /\ Terms!PublishedKept /\ Terms!LastPublished
<1> SUFFICES ASSUME TermsInv PROVE Terms!ConsentIsRead /\ Terms!PublishedKept /\ Terms!LastPublished
  OBVIOUS
<1>1. Terms!ConsentIsRead
  BY DEF TermsInv, ReadFirst, Terms!ConsentIsRead, Terms!None
<1>2. Terms!PublishedKept
  BY DEF TermsInv, TermsTyped, TermRow, RowsKept, Published, Terms!PublishedKept
<1>3. Terms!LastPublished
  <2> SUFFICES ASSUME x3 = {v \in TermVersions : x1[v].st = "current"}, NEW v \in TermVersions, x1[v].at > 0
               PROVE  Terms!Current # Terms!None /\ x1[v].at <= x1[Terms!Current].at
    BY DEF Terms!LastPublished
  <2>1. \A u \in TermVersions : x1[u].at \in Nat
    BY DEF TermsInv, TermsTyped, TermRow
  <2>2. PICK m \in TermVersions : x1[m].st = "current" /\ \A u \in TermVersions : x1[u].at <= x1[m].at
    BY <2>1 DEF TermsInv, NewestCurrent
  <2>3. m \in x3 /\ \A u \in x3 : x1[u].at <= x1[m].at
    BY <2>2
  <2>4. Terms!Current \in x3 /\ \A u \in x3 : x1[u].at <= x1[Terms!Current].at
    BY <2>3 DEF Terms!Current
  <2>5. x1[m].at <= x1[Terms!Current].at /\ x1[v].at <= x1[m].at /\ Terms!Current \in TermVersions
    BY <2>2, <2>3, <2>4
  <2> QED
    BY <2>1, <2>5, TermsAssumption DEF Terms!None
<1> QED
  BY <1>1, <1>2, <1>3

\* The page is a record; while it waits for the text, the text is on its way; who has terms to
\* accept is shown them, can ask for them again, or waits.
ShownInv ==
  /\ x7 = [me |-> x7.me, terms |-> x7.terms, state |-> x7.state, form |-> x7.form, retry |-> x7.retry, open |-> x7.open]
  /\ x7.state \in {"idle", "loading", "error"} /\ 0 \notin x2
  /\ x7.state = "loading" => x8 # 0
  /\ Terms!Needs(x7) => x7.form # 0 \/ x7.retry = TRUE \/ x8 # 0

LEMMA ShownInit == Terms!Init => ShownInv
BY DEF Terms!Init, ShownInv, Terms!Needs, Terms!None

\* What is drawn of a page that waits only for what is on its way.
LEMMA ShownDrawn ==
  ASSUME NEW p, NEW l, p = [me |-> p.me, terms |-> p.terms, state |-> p.state, form |-> p.form, retry |-> p.retry, open |-> p.open],
         p.state \in {"idle", "loading", "error"}, p.state = "loading" => l # 0, 0 \notin x2',
         x7' = Terms!Rendered(p), x8' = IF Terms!Loads(p) THEN -1 ELSE l
  PROVE  ShownInv'
<1> DEFINE state == IF Terms!Loads(p) THEN "loading" ELSE p.state
           retry == Terms!Needs(p) /\ p.terms = 0 /\ p.state = "error"
           form  == IF Terms!Needs(p) /\ p.terms # 0 /\ p.state # "loading" THEN p.terms ELSE 0
<1>1. x7' = [p EXCEPT !.state = state, !.retry = retry, !.form = form]
  BY DEF Terms!Rendered, Terms!None
<1>2. /\ x7' = [me |-> p.me, terms |-> p.terms, state |-> state, form |-> form, retry |-> retry, open |-> p.open]
  BY <1>1
<1>3. Terms!Needs(x7') = Terms!Needs(p)
  BY <1>2 DEF Terms!Needs
<1>4. x7'.state = state /\ x7'.form = form /\ x7'.retry = retry
  BY <1>2
<1>5. Terms!Needs(p) => Terms!Loads(p) \/ p.terms # 0 \/ p.state \in {"loading", "error"}
  BY DEF Terms!Loads, Terms!Wanted, Terms!Needs, Terms!None
<1>6. retry = TRUE \/ ~retry
  OBVIOUS
<1>7. Terms!Needs(p) => form # 0 \/ retry \/ x8' # 0
  BY <1>5
<1>8. state \in {"idle", "loading", "error"} /\ (state = "loading" => x8' # 0)
  OBVIOUS
<1>9. x7' = [me |-> x7'.me, terms |-> x7'.terms, state |-> x7'.state, form |-> x7'.form, retry |-> x7'.retry, open |-> x7'.open]
  BY <1>2
<1>10. (Terms!Needs(x7))' = Terms!Needs(x7')
  BY DEF Terms!Needs
<1> HIDE DEF state, retry, form
<1> QED
  BY <1>3, <1>4, <1>6, <1>7, <1>8, <1>9, <1>10 DEF ShownInv

LEMMA ShownStep == ShownInv /\ [Terms!Next]_(Terms!vars) => ShownInv'
<1> SUFFICES ASSUME ShownInv, [Terms!Next]_(Terms!vars) PROVE ShownInv'
  OBVIOUS
<1>1. /\ x7 = [me |-> x7.me, terms |-> x7.terms, state |-> x7.state, form |-> x7.form, retry |-> x7.retry, open |-> x7.open]
      /\ x7.state \in {"idle", "loading", "error"} /\ (x7.state = "loading" => x8 # 0) /\ 0 \notin x2
  BY DEF ShownInv
<1>2. 0 \notin TermVersions
  BY TermsAssumption
<1>3. ASSUME x7' = x7, x8' = x8 \/ (x8 # 0 /\ x8' # 0), 0 \notin x2' PROVE ShownInv'
  BY <1>3 DEF ShownInv, Terms!Needs
<1>4. ASSUME NEW c \in Two, \/ Terms!Create(c) \/ Terms!Draft(c) \/ Terms!BeginPublish(c) \/ Terms!Publish(c)
                            \/ Terms!BeginDelete(c) \/ Terms!Delete(c) \/ Terms!DeleteDocs(c)
      PROVE  ShownInv'
  <2>1. x7' = x7 /\ x8' = x8
    BY <1>4 DEF Terms!Create, Terms!Draft, Terms!BeginPublish, Terms!Publish, Terms!BeginDelete, Terms!Delete,
                Terms!DeleteDocs, Terms!member
  <2>2. 0 \notin x2'
    BY <1>1, <1>2, <1>4 DEF Terms!Create, Terms!Draft, Terms!BeginPublish, Terms!Publish, Terms!BeginDelete, Terms!Delete,
                            Terms!DeleteDocs
  <2> QED
    BY <1>3, <2>1, <2>2
<1>5. CASE Terms!IndexFollows \/ Terms!ServeAccept \/ Terms!WriteAccept \/ Terms!Submit \/ UNCHANGED Terms!vars
  <2>1. x7' = x7 /\ x8' = x8 /\ x2' = x2
    BY <1>5 DEF Terms!IndexFollows, Terms!ServeAccept, Terms!WriteAccept, Terms!Submit, Terms!vars, Terms!admin, Terms!member
  <2> QED
    BY <1>1, <1>3, <2>1
<1>6. CASE Terms!ServeText
  <2>1. x7' = x7 /\ x2' = x2 /\ x8 = -1 /\ (x8' = -2 \/ x8' \in x2)
    BY <1>6 DEF Terms!ServeText, Terms!admin, Terms!Asked, Terms!Failed
  <2> QED
    BY <1>1, <1>3, <2>1
<1>7. CASE Terms!Fails
  <2>1. x7' = x7 /\ x2' = x2 /\ (x8' = x8 \/ (x8 # 0 /\ x8' = -2))
    BY <1>7 DEF Terms!Fails, Terms!admin, Terms!None, Terms!Failed
  <2> QED
    BY <1>1, <1>3, <2>1
<1>8. ASSUME NEW p, NEW l, Terms!Show(p, l), x2' = x2, p.state = "loading" => l # 0, p.state \in {"idle", "loading", "error"},
             p = [me |-> p.me, terms |-> p.terms, state |-> p.state, form |-> p.form, retry |-> p.retry, open |-> p.open]
      PROVE  ShownInv'
  BY <1>1, <1>8, ShownDrawn DEF Terms!Show, Terms!Asked
<1>9. CASE Terms!SetMe
  <2> PICK p : p = [x7 EXCEPT !.me = Terms!Me]
    OBVIOUS
  <2>1. Terms!Show(p, x8) /\ x2' = x2
    BY <1>9 DEF Terms!SetMe, Terms!admin
  <2>2. p = [me |-> p.me, terms |-> p.terms, state |-> p.state, form |-> p.form, retry |-> p.retry, open |-> p.open]
        /\ p.state = x7.state
    BY <1>1
  <2> QED
    BY <1>1, <1>8, <2>1, <2>2
<1>10. CASE Terms!TextArrives
  <2> PICK p : p = IF x8 = -2 THEN [x7 EXCEPT !.state = "error"] ELSE [x7 EXCEPT !.terms = x8, !.state = "idle"]
    OBVIOUS
  <2>1. Terms!Show(p, 0) /\ x2' = x2
    BY <1>10 DEF Terms!TextArrives, Terms!admin, Terms!Failed, Terms!None, Terms!StateOfFailed
  <2>2. p = [me |-> p.me, terms |-> p.terms, state |-> p.state, form |-> p.form, retry |-> p.retry, open |-> p.open]
        /\ p.state \in {"error", "idle"}
    BY <1>1
  <2> QED
    BY <1>1, <1>8, <2>1, <2>2
<1>11. CASE Terms!Retry
  <2> PICK p : p = [x7 EXCEPT !.state = "loading"]
    OBVIOUS
  <2>1. x7' = Terms!Rendered(p) /\ x8' = -1 /\ x2' = x2
    BY <1>11 DEF Terms!Retry, Terms!admin, Terms!Asked
  <2>2. p = [me |-> p.me, terms |-> p.terms, state |-> p.state, form |-> p.form, retry |-> p.retry, open |-> p.open]
        /\ p.state = "loading"
    BY <1>1
  <2>3. ~Terms!Loads(p)
    BY <2>2 DEF Terms!Loads
  <2> QED
    BY <1>1, <2>1, <2>2, <2>3, ShownDrawn
<1>12. CASE Terms!RefreshPdf
  <2> PICK p : p = [x7 EXCEPT !.terms = Terms!Current]
    OBVIOUS
  <2>1. Terms!Show(p, x8) /\ x2' = x2
    BY <1>12 DEF Terms!RefreshPdf, Terms!admin
  <2>2. p = [me |-> p.me, terms |-> p.terms, state |-> p.state, form |-> p.form, retry |-> p.retry, open |-> p.open]
        /\ p.state = x7.state
    BY <1>1
  <2> QED
    BY <1>1, <1>8, <2>1, <2>2
<1>13. CASE Terms!Toggle
  <2> PICK p : p = [x7 EXCEPT !.open = ~@]
    OBVIOUS
  <2>1. Terms!Show(p, x8) /\ x2' = x2
    BY <1>13 DEF Terms!Toggle, Terms!admin
  <2>2. p = [me |-> p.me, terms |-> p.terms, state |-> p.state, form |-> p.form, retry |-> p.retry, open |-> p.open]
        /\ p.state = x7.state
    BY <1>1
  <2> QED
    BY <1>1, <1>8, <2>1, <2>2
<1>14. CASE Terms!AcceptArrives
  <2>0. x2' = x2
    BY <1>14 DEF Terms!AcceptArrives, Terms!admin
  <2>1. ASSUME NEW me, NEW p, p \in {[x7 EXCEPT !.terms = 0, !.open = FALSE, !.me = me], [x7 EXCEPT !.me = me]}, Terms!Show(p, x8)
        PROVE  ShownInv'
    <3>1. p = [me |-> p.me, terms |-> p.terms, state |-> p.state, form |-> p.form, retry |-> p.retry, open |-> p.open]
          /\ p.state = x7.state
      BY <1>1, <2>1
    <3> QED
      BY <1>1, <1>8, <2>0, <2>1, <3>1
  <2>2. ASSUME x7' = [x7 EXCEPT !.terms = 0, !.state = "idle"], x8' = x8 PROVE ShownInv'
    <3>1. x7' = [me |-> x7.me, terms |-> 0, state |-> "idle", form |-> x7.form, retry |-> x7.retry, open |-> x7.open]
      BY <1>1, <2>2
    <3> QED
      BY <1>1, <2>0, <2>2, <3>1 DEF ShownInv, Terms!Needs
  <2>3. \/ \E me : Terms!Show([x7 EXCEPT !.terms = 0, !.open = FALSE, !.me = me], x8)
        \/ \E me : Terms!Show([x7 EXCEPT !.me = me], x8)
        \/ x7' = [x7 EXCEPT !.terms = 0, !.state = "idle"] /\ x8' = x8
        \/ x7' = x7 /\ x8' = x8
    BY <1>14 DEF Terms!AcceptArrives, Terms!None
  <2> QED
    BY <1>1, <1>3, <2>0, <2>1, <2>2, <2>3
<1> QED
  BY <1>4, <1>5, <1>6, <1>7, <1>9, <1>10, <1>11, <1>12, <1>13, <1>14 DEF Terms!Next

LEMMA ShownSafe == ShownInv => Terms!NoDeadEnd
BY DEF ShownInv, Terms!NoDeadEnd, Terms!None

--------------------------------------------------------------------------------
(***************************************************************************)
(* That the release scaler wants no more instances than its cap, and stops *)
(* a release only when it was idle long enough, for any number of releases *)
(* and any times, however its passes stop half way.  What a pass would     *)
(* count at a release's turn does not change while it carries its plan out *)
(* in order; and the busy marker is never more than a refresh older than   *)
(* the last pass that saw the release busy, once that pass is over.        *)
(***************************************************************************)
CONSTANTS ScaleReleases, ScaleMinimum, ScaleCap,               \* releases, their groups' minima, the cap
          ScaleFresh, ScaleRefresh, ScaleIdle, ScaleCrashes    \* the scaler's times; passes that stop

ASSUME ScalingAssumption ==
  /\ ScaleReleases \subseteq Nat /\ IsFiniteSet(ScaleReleases) /\ ScaleMinimum \in [ScaleReleases -> 0..1]
  /\ Cardinality({r \in ScaleReleases : ScaleMinimum[r] = 1}) <= ScaleCap
  /\ {ScaleCap, ScaleFresh, ScaleRefresh, ScaleIdle, ScaleCrashes} \subseteq Nat

Scaling == INSTANCE Scaler WITH
               Releases <- ScaleReleases, Minimum <- ScaleMinimum, CapTotal <- ScaleCap, Fresh <- ScaleFresh,
               Refresh <- ScaleRefresh, IdleTime <- ScaleIdle, MaxCrashes <- ScaleCrashes,
               row <- x1, desired <- x2, load <- x3, pass <- x4, seenBusy <- x5, crashes <- x6

ScaleRow   == [routable : BOOLEAN, asked : Nat, unserved : BOOLEAN, issued : Nat, busy : Nat]
ScalePlans == [ScaleReleases -> {"none", "start", "raise", "stop"}]
ScalePass  == [on : BOOLEAN, plan : ScalePlans, busy : SUBSET ScaleReleases, later : SUBSET ScaleReleases]

ScaleTyped ==
  /\ x1 \in [ScaleReleases -> ScaleRow] /\ x2 \in [ScaleReleases -> 0..1] /\ x3 \in [ScaleReleases -> 0..2]
  /\ x4 \in ScalePass /\ x5 \in [ScaleReleases -> Nat] /\ x6 \in Nat

\* What is wanted when r's turn has come, with what was raised and is to be raised before it.
ScaleDue(r) == (Scaling!Wanted \ {q \in ScaleReleases : q < r /\ x4.plan[q] = "stop"})
            \cup {q \in ScaleReleases : q < r /\ x4.plan[q] \in {"start", "raise"}}

ScalePlanned(r) ==
  /\ x4.plan[r] = "stop" => x2[r] = 1 /\ ScaleMinimum[r] = 0
  /\ x4.plan[r] \in {"start", "raise"} => x2[r] = 0 /\ Cardinality(ScaleDue(r)) < ScaleCap

ScaleUnder == Cardinality(Scaling!Wanted) <= ScaleCap

\* No pass stopped half way: the marker follows what a pass saw, and a stop what the marker says.
ScaleMarked(r) ==
  x6 = 0 /\ x1[r].routable =>
    /\ x5[r] <= ScaleIdle => x1[r].busy <= x5[r] + ScaleRefresh \/ (x4.on /\ r \in x4.busy)
    /\ x4.on /\ x4.plan[r] = "stop" => x5[r] >= ScaleIdle - ScaleRefresh

ScaleInv ==
  /\ ScaleTyped /\ ScaleUnder
  /\ x4.on => \A r \in ScaleReleases : ScalePlanned(r)
  /\ \A r \in ScaleReleases : ScaleMarked(r)

LEMMA ScaleNumbers ==
  /\ ScaleReleases \subseteq Nat /\ IsFiniteSet(ScaleReleases) /\ ScaleMinimum \in [ScaleReleases -> 0..1]
  /\ ScaleCap \in Nat /\ ScaleFresh \in Nat /\ ScaleRefresh \in Nat /\ ScaleIdle \in Nat /\ ScaleCrashes \in Nat
  /\ Scaling!Never = ScaleIdle + 1 /\ Scaling!Never \in Nat
BY ScalingAssumption DEF Scaling!Never

LEMMA NoPlanIs == Scaling!NoPlan \in ScalePlans /\ \A r \in ScaleReleases : Scaling!NoPlan[r] = "none"
BY DEF Scaling!NoPlan, ScalePlans

LEMMA RestingIs == Scaling!Resting \in ScalePass /\ ~Scaling!Resting.on
BY NoPlanIs DEF Scaling!Resting, ScalePass

LEMMA ScaleInit == Scaling!Init => ScaleInv
<1> SUFFICES ASSUME Scaling!Init PROVE ScaleInv
  OBVIOUS
<1>1. x1 \in [ScaleReleases -> ScaleRow] /\ x2 = ScaleMinimum /\ x3 \in [ScaleReleases -> 0..2]
  BY ScaleNumbers DEF Scaling!Init, ScaleRow
<1>2. x4 = Scaling!Resting /\ x5 \in [ScaleReleases -> Nat] /\ x6 = 0
      /\ \A r \in ScaleReleases : x5[r] = ScaleIdle + 1
  BY ScaleNumbers DEF Scaling!Init
<1>3. ScaleUnder
  BY <1>1, ScalingAssumption DEF ScaleUnder, Scaling!Wanted
<1>4. ASSUME NEW r \in ScaleReleases PROVE ScaleMarked(r)
  <2>1. x5[r] = ScaleIdle + 1 /\ x4 = Scaling!Resting
    BY <1>2
  <2>2. ~(x5[r] <= ScaleIdle)
    BY <2>1, ScaleNumbers
  <2>3. ~x4.on
    BY <2>1, RestingIs
  <2> QED
    BY <2>2, <2>3 DEF ScaleMarked
<1> QED
  BY <1>1, <1>2, <1>3, <1>4, RestingIs, ScaleNumbers DEF ScaleInv, ScaleTyped

\* A pass begins.
LEMMA PassBegins == ASSUME ScaleInv, Scaling!Snapshot PROVE ScaleInv'
<1>1. PICK plan \in [ScaleReleases -> {"none", "start", "stop"}] :
        /\ Scaling!IsPlan(plan)
        /\ x4' = [on |-> TRUE, plan |-> plan, busy |-> {r \in ScaleReleases : Scaling!MarksBusy(r)}, later |-> {}]
  BY DEF Scaling!Snapshot
<1>2. /\ x1' = x1 /\ x2' = x2 /\ x3' = x3 /\ x6' = x6 /\ ~x4.on
      /\ x5' = [r \in ScaleReleases |-> IF x3[r] = 2 /\ x1[r].routable /\ x6 = 0 THEN 0 ELSE x5[r]]
      /\ x1 \in [ScaleReleases -> ScaleRow] /\ x2 \in [ScaleReleases -> 0..1] /\ x3 \in [ScaleReleases -> 0..2]
      /\ x5 \in [ScaleReleases -> Nat]
  BY DEF ScaleInv, ScaleTyped, Scaling!Snapshot
<1>3. x4' \in ScalePass /\ x4'.on /\ x4'.plan = plan /\ x4'.busy = {r \in ScaleReleases : Scaling!MarksBusy(r)}
  <2>1. plan \in ScalePlans
    BY DEF ScalePlans
  <2> QED
    BY <1>1, <2>1 DEF ScalePass
<1>4. ScaleTyped'
  BY <1>2, <1>3 DEF ScaleInv, ScaleTyped
<1>5. ScaleUnder'
  BY <1>2 DEF ScaleInv, ScaleUnder, Scaling!Wanted
<1>6. ASSUME NEW r \in ScaleReleases PROVE ScalePlanned(r)'
  <2>1. ScaleDue(r)' = Scaling!Counted(plan, r)
    BY <1>2, <1>3 DEF ScaleDue, Scaling!Counted, Scaling!Wanted
  <2>2. plan[r] = IF Scaling!WantsStop(r) THEN "stop"
                  ELSE IF Scaling!WantsStart(r) /\ Cardinality(Scaling!Counted(plan, r)) < ScaleCap THEN "start" ELSE "none"
    BY <1>1 DEF Scaling!IsPlan, Scaling!Cardinality, Cardinality
  <2>3. Scaling!WantsStop(r) => x2[r] = 1 /\ ScaleMinimum[r] = 0
    BY <1>2, ScaleNumbers DEF Scaling!WantsStop, Scaling!AboveMinimum
  <2>4. Scaling!WantsStart(r) => x2[r] = 0
    BY DEF Scaling!WantsStart
  <2>5. plan[r] \in {"none", "start", "stop"}
    OBVIOUS
  <2> QED
    BY <1>2, <1>3, <2>1, <2>2, <2>3, <2>4, <2>5 DEF ScalePlanned
<1>7. ASSUME NEW r \in ScaleReleases, x6 = 0, x1[r].routable
      PROVE  /\ x5'[r] <= ScaleIdle => x1[r].busy <= x5'[r] + ScaleRefresh \/ r \in x4'.busy
             /\ plan[r] = "stop" => x5'[r] >= ScaleIdle - ScaleRefresh
  <2>1. /\ x1[r] \in ScaleRow /\ x1[r].busy \in Nat /\ x1[r].asked \in Nat /\ x1[r].issued \in Nat /\ x5[r] \in Nat
        /\ x3[r] \in 0..2
    BY <1>2 DEF ScaleRow
  <2>2. x5[r] <= ScaleIdle => x1[r].busy <= x5[r] + ScaleRefresh
    BY <1>2, <1>7 DEF ScaleInv, ScaleMarked
  <2>3. CASE x3[r] = 2
    <3>1. x5'[r] = 0
      BY <1>2, <1>7, <2>3
    <3>2. Scaling!Stale(r) => r \in x4'.busy
      BY <1>3, <1>7, <2>3 DEF Scaling!MarksBusy
    <3>3. plan[r] # "stop"
      BY <1>1, <1>7, <2>3 DEF Scaling!IsPlan, Scaling!WantsStop
    <3> QED
      BY <2>1, <3>1, <3>2, <3>3, ScaleNumbers DEF Scaling!Stale
  <2>4. CASE x3[r] # 2
    <3>1. x5'[r] = x5[r]
      BY <1>2, <2>4
    <3>2. plan[r] = "stop" => Scaling!Latest(r) = ScaleIdle
      BY <1>1, <1>7 DEF Scaling!IsPlan, Scaling!WantsStop
    <3>3. Scaling!Latest(r) <= x1[r].busy
      <4> DEFINE S == {x1[r].asked, x1[r].issued, x1[r].busy}
      <4>1. \E m \in S : \A n \in S : m <= n
        BY <2>1
      <4>2. Scaling!Latest(r) = CHOOSE m \in S : \A n \in S : m <= n
        BY DEF Scaling!Latest, Scaling!Min
      <4> HIDE DEF S
      <4>3. \A n \in S : Scaling!Latest(r) <= n
        BY <4>1, <4>2
      <4> QED
        BY <4>3 DEF S
    <3> QED
      BY <2>1, <2>2, <3>1, <3>2, <3>3, ScaleNumbers
  <2> QED
    BY <2>3, <2>4
<1>8. \A r \in ScaleReleases : ScaleMarked(r)'
  BY <1>2, <1>3, <1>7 DEF ScaleMarked
<1> QED
  BY <1>4, <1>5, <1>6, <1>8 DEF ScaleInv

\* A pass is over: its markers are written, or it stopped and nothing is known any more.
LEMMA PassEnds == ASSUME ScaleInv, Scaling!MarkBusy \/ Scaling!Crash PROVE ScaleInv'
<1>1. /\ x1 \in [ScaleReleases -> ScaleRow] /\ x2' = x2 /\ x3' = x3 /\ x4' = Scaling!Resting /\ x5 \in [ScaleReleases -> Nat]
      /\ x6 \in Nat
  BY DEF ScaleInv, ScaleTyped, Scaling!MarkBusy, Scaling!Crash
<1>2. ScaleUnder'
  BY <1>1 DEF ScaleInv, ScaleUnder, Scaling!Wanted
<1>3. CASE Scaling!MarkBusy
  <2>1. /\ x1' = [r \in ScaleReleases |-> IF r \in x4.busy THEN [x1[r] EXCEPT !.busy = 0] ELSE x1[r]]
        /\ x5' = x5 /\ x6' = x6
    BY <1>3 DEF Scaling!MarkBusy
  <2>2. \A w \in ScaleRow, n \in Nat : [w EXCEPT !.busy = n] \in ScaleRow
    BY DEF ScaleRow
  <2>3. x1' \in [ScaleReleases -> ScaleRow]
    BY <1>1, <2>1, <2>2
  <2>4. \A r \in ScaleReleases : /\ x1'[r].routable = x1[r].routable
                                 /\ x1'[r].busy = IF r \in x4.busy THEN 0 ELSE x1[r].busy
    BY <1>1, <2>1 DEF ScaleRow
  <2>5. ScaleTyped'
    BY <1>1, <2>1, <2>3, RestingIs DEF ScaleInv, ScaleTyped
  <2>6. ASSUME NEW r \in ScaleReleases PROVE ScaleMarked(r)'
    <3>1. ScaleMarked(r) /\ x5[r] \in Nat
      BY <1>1 DEF ScaleInv
    <3> QED
      BY <1>1, <2>1, <2>4, <3>1, RestingIs, ScaleNumbers DEF ScaleMarked
  <2> QED
    BY <1>1, <1>2, <2>5, <2>6, RestingIs DEF ScaleInv
<1>4. CASE Scaling!Crash
  <2>1. x1' = x1 /\ x5' = [r \in ScaleReleases |-> ScaleIdle + 1] /\ x6' = x6 + 1
    BY <1>4, ScaleNumbers DEF Scaling!Crash
  <2>2. ScaleTyped' /\ x6' # 0
    BY <1>1, <2>1, RestingIs, ScaleNumbers DEF ScaleInv, ScaleTyped
  <2> QED
    BY <1>1, <1>2, <2>2, RestingIs DEF ScaleInv, ScaleMarked
<1> QED
  BY <1>3, <1>4

LEMMA PassMarks == ASSUME ScaleInv, NEW r \in ScaleReleases, Scaling!MarkIssued(r) PROVE ScaleInv'
<1> DEFINE w == [x1[r] EXCEPT !.issued = 0, !.unserved = (r \in x4.later)]
           p == [x4.plan EXCEPT ![r] = "raise"]
<1>1. /\ x1 \in [ScaleReleases -> ScaleRow] /\ x4 \in ScalePass /\ x4.on /\ x4.plan[r] = "start" /\ x4.plan \in ScalePlans
      /\ x1' = [x1 EXCEPT ![r] = w] /\ x4' = [x4 EXCEPT !.plan = p]
      /\ x2' = x2 /\ x3' = x3 /\ x5' = x5 /\ x6' = x6
  BY DEF ScaleInv, ScaleTyped, Scaling!MarkIssued, ScalePass
<1>2. w \in ScaleRow /\ w.routable = x1[r].routable /\ w.busy = x1[r].busy
  <2>1. \A n \in Nat, b \in BOOLEAN : [x1[r] EXCEPT !.issued = n, !.unserved = b] \in ScaleRow
    BY <1>1 DEF ScaleRow
  <2>2. (r \in x4.later) \in BOOLEAN
    OBVIOUS
  <2>3. w \in ScaleRow
    BY <2>1, <2>2
  <2> QED
    BY <1>1, <2>3 DEF ScaleRow
<1>3. p \in ScalePlans /\ p[r] = "raise" /\ \A q \in ScaleReleases \ {r} : p[q] = x4.plan[q]
  BY <1>1 DEF ScalePlans
<1> HIDE DEF w, p
<1>4. x4' \in ScalePass /\ x4'.plan = p /\ x4'.on /\ x4'.busy = x4.busy
  BY <1>1, <1>3 DEF ScalePass
<1>5. /\ x1' \in [ScaleReleases -> ScaleRow]
      /\ \A q \in ScaleReleases : x1'[q].routable = x1[q].routable /\ x1'[q].busy = x1[q].busy
  BY <1>1, <1>2
<1>6. ScaleTyped' /\ ScaleUnder'
  BY <1>1, <1>4, <1>5 DEF ScaleInv, ScaleTyped, ScaleUnder, Scaling!Wanted
<1>7. ASSUME NEW q \in ScaleReleases PROVE ScalePlanned(q)'
  <2>1. ScaleDue(q)' = ScaleDue(q)
    BY <1>1, <1>3, <1>4 DEF ScaleDue, Scaling!Wanted
  <2>2. ScalePlanned(q)
    BY <1>1 DEF ScaleInv
  <2> QED
    BY <1>1, <1>3, <1>4, <2>1, <2>2 DEF ScalePlanned
<1>8. ASSUME NEW q \in ScaleReleases PROVE ScaleMarked(q)'
  <2>1. ScaleMarked(q)
    BY DEF ScaleInv
  <2> QED
    BY <1>1, <1>3, <1>4, <1>5, <2>1 DEF ScaleMarked
<1> QED
  BY <1>6, <1>7, <1>8 DEF ScaleInv

LEMMA PassSets == ASSUME ScaleInv, NEW r \in ScaleReleases, Scaling!SetDesired(r) PROVE ScaleInv'
<1> DEFINE d == IF x4.plan[r] = "raise" THEN 1 ELSE ScaleMinimum[r]
           p == [x4.plan EXCEPT ![r] = "none"]
<1>1. /\ x4 \in ScalePass /\ x4.on /\ x4.plan[r] \in {"raise", "stop"} /\ x4.plan \in ScalePlans
      /\ \A q \in ScaleReleases : q < r => x4.plan[q] = "none"
      /\ x2' = [x2 EXCEPT ![r] = d] /\ x4' = [x4 EXCEPT !.plan = p] /\ x2 \in [ScaleReleases -> 0..1]
      /\ x1' = x1 /\ x3' = x3 /\ x5' = x5 /\ x6' = x6
  BY DEF ScaleInv, ScaleTyped, Scaling!SetDesired, ScalePass
<1>2. d \in 0..1
  BY ScaleNumbers
<1>3. p \in ScalePlans /\ p[r] = "none" /\ \A q \in ScaleReleases \ {r} : p[q] = x4.plan[q]
  BY <1>1 DEF ScalePlans
<1>4. ScalePlanned(r)
  BY <1>1 DEF ScaleInv
<1>5. d = IF x4.plan[r] = "raise" THEN 1 ELSE 0
  BY <1>1, <1>4 DEF ScalePlanned
<1> HIDE DEF d, p
<1>6. x4' \in ScalePass /\ x4'.plan = p /\ x4'.on /\ x4'.busy = x4.busy
  BY <1>1, <1>3 DEF ScalePass
<1>7. x2' \in [ScaleReleases -> 0..1] /\ x2'[r] = d /\ \A q \in ScaleReleases \ {r} : x2'[q] = x2[q]
  BY <1>1, <1>2
<1>8. ScaleTyped'
  BY <1>1, <1>6, <1>7 DEF ScaleInv, ScaleTyped
<1>9. Scaling!Wanted' = IF x4.plan[r] = "raise" THEN Scaling!Wanted \cup {r} ELSE Scaling!Wanted \ {r}
  BY <1>5, <1>7 DEF Scaling!Wanted
<1>10. IsFiniteSet(Scaling!Wanted) /\ Cardinality(Scaling!Wanted) \in Nat
  BY FS_Subset, FS_CardinalityType, ScaleNumbers DEF Scaling!Wanted
<1>11. ScaleUnder'
  <2>1. CASE x4.plan[r] = "raise"
    <3>1. ScaleDue(r) = Scaling!Wanted
      BY <1>1 DEF ScaleDue
    <3>2. Cardinality(Scaling!Wanted) < ScaleCap /\ r \notin Scaling!Wanted
      BY <1>4, <2>1, <3>1 DEF ScalePlanned, Scaling!Wanted
    <3>3. Cardinality(Scaling!Wanted \cup {r}) = Cardinality(Scaling!Wanted) + 1
      BY <1>10, <3>2, FS_AddElement
    <3> QED
      BY <1>9, <1>10, <2>1, <3>2, <3>3, ScaleNumbers DEF ScaleUnder
  <2>2. CASE x4.plan[r] # "raise"
    <3>1. Cardinality(Scaling!Wanted \ {r}) \in Nat /\ Cardinality(Scaling!Wanted \ {r}) <= Cardinality(Scaling!Wanted)
      BY <1>10, FS_Subset, FS_CardinalityType
    <3>2. Cardinality(Scaling!Wanted) <= ScaleCap
      BY DEF ScaleInv, ScaleUnder
    <3> QED
      BY <1>9, <1>10, <2>2, <3>1, <3>2, ScaleNumbers DEF ScaleUnder
  <2> QED
    BY <2>1, <2>2
<1>12. ASSUME NEW q \in ScaleReleases PROVE ScalePlanned(q)'
  <2>1. CASE q = r
    BY <1>3, <1>6, <2>1 DEF ScalePlanned
  <2>2. CASE q # r
    <3>1. ScalePlanned(q) /\ x4'.plan[q] = x4.plan[q] /\ x2'[q] = x2[q]
      BY <1>1, <1>3, <1>6, <1>7, <2>2 DEF ScaleInv
    <3>2. x4.plan[q] # "none" => r < q
      BY <1>1, <2>2, ScaleNumbers
    <3>3. r < q => ScaleDue(q)' = ScaleDue(q)
      <4>1. x4.plan[r] = "raise" \/ (x4.plan[r] = "stop" /\ r \in Scaling!Wanted)
        BY <1>1, <1>4 DEF ScalePlanned, Scaling!Wanted
      <4> QED
        BY <1>3, <1>6, <1>9, <4>1 DEF ScaleDue
    <3> QED
      BY <3>1, <3>2, <3>3 DEF ScalePlanned
  <2> QED
    BY <2>1, <2>2
<1>13. ASSUME NEW q \in ScaleReleases PROVE ScaleMarked(q)'
  <2>1. ScaleMarked(q)
    BY DEF ScaleInv
  <2> QED
    BY <1>1, <1>3, <1>6, <2>1 DEF ScaleMarked
<1> QED
  BY <1>8, <1>11, <1>12, <1>13 DEF ScaleInv

\* Requests, retirements and instances: no group is touched, no marker and no plan.
LEMMA ScaleElsewhere ==
  ASSUME ScaleInv, x1' \in [ScaleReleases -> ScaleRow], x3' \in [ScaleReleases -> 0..2], x4' \in ScalePass,
         x4'.on = x4.on, x4'.plan = x4.plan, x4'.busy = x4.busy,
         \A r \in ScaleReleases : x1'[r].busy = x1[r].busy /\ (x1'[r].routable => x1[r].routable),
         x2' = x2, x5' = x5, x6' = x6
  PROVE  ScaleInv'
<1>1. ScaleTyped' /\ ScaleUnder'
  BY DEF ScaleInv, ScaleTyped, ScaleUnder, Scaling!Wanted
<1>2. \A r \in ScaleReleases : ScalePlanned(r) => ScalePlanned(r)'
  BY DEF ScalePlanned, ScaleDue, Scaling!Wanted
<1>3. \A r \in ScaleReleases : ScaleMarked(r) => ScaleMarked(r)'
  BY DEF ScaleMarked
<1> QED
  BY <1>1, <1>2, <1>3 DEF ScaleInv

LEMMA ScaleCalled ==
  ASSUME ScaleInv, NEW r \in ScaleReleases, Scaling!Ask(r) \/ Scaling!Retired(r) \/ Scaling!InstanceMoves(r)
  PROVE  ScaleInv'
<1>1. /\ x1 \in [ScaleReleases -> ScaleRow] /\ x3 \in [ScaleReleases -> 0..2] /\ x4 \in ScalePass
      /\ x1[r] \in ScaleRow /\ x3[r] \in 0..2
  BY DEF ScaleInv, ScaleTyped
<1>2. CASE Scaling!Ask(r)
  <2> DEFINE w == [x1[r] EXCEPT !.asked = 0, !.unserved = TRUE]
  <2>1. /\ x1' = [x1 EXCEPT ![r] = w] /\ x2' = x2 /\ x3' = x3 /\ x5' = x5 /\ x6' = x6
        /\ x4' = IF x4.on THEN [x4 EXCEPT !.later = x4.later \cup {r}] ELSE x4
    BY <1>1, <1>2 DEF Scaling!Ask
  <2>2. \A n \in Nat, b \in BOOLEAN : [x1[r] EXCEPT !.asked = n, !.unserved = b] \in ScaleRow
    BY <1>1 DEF ScaleRow
  <2>3. w \in ScaleRow
    BY <2>2
  <2>4. w.busy = x1[r].busy /\ w.routable = x1[r].routable
    BY <1>1 DEF ScaleRow
  <2> HIDE DEF w
  <2>5. x4' \in ScalePass /\ x4'.on = x4.on /\ x4'.plan = x4.plan /\ x4'.busy = x4.busy
    BY <1>1, <2>1 DEF ScalePass
  <2>6. x1' \in [ScaleReleases -> ScaleRow]
        /\ \A q \in ScaleReleases : x1'[q].busy = x1[q].busy /\ x1'[q].routable = x1[q].routable
    BY <1>1, <2>1, <2>3, <2>4
  <2> QED
    BY <1>1, <2>1, <2>5, <2>6, ScaleElsewhere
<1>3. CASE Scaling!Retired(r)
  <2> DEFINE w == [x1[r] EXCEPT !.routable = FALSE]
  <2>1. x1' = [x1 EXCEPT ![r] = w] /\ x2' = x2 /\ x3' = x3 /\ x4' = x4 /\ x5' = x5 /\ x6' = x6
    BY <1>1, <1>3 DEF Scaling!Retired
  <2>2. \A b \in BOOLEAN : [x1[r] EXCEPT !.routable = b] \in ScaleRow
    BY <1>1 DEF ScaleRow
  <2>3. w \in ScaleRow
    BY <2>2
  <2>4. w.busy = x1[r].busy /\ ~w.routable
    BY <1>1 DEF ScaleRow
  <2> HIDE DEF w
  <2>5. x1' \in [ScaleReleases -> ScaleRow]
        /\ \A q \in ScaleReleases : x1'[q].busy = x1[q].busy /\ (x1'[q].routable => x1[q].routable)
    BY <1>1, <2>1, <2>3, <2>4
  <2> QED
    BY <1>1, <2>1, <2>5, ScaleElsewhere
<1>4. CASE Scaling!InstanceMoves(r)
  <2> DEFINE n == IF x3[r] = 0 THEN 1 ELSE IF x2[r] = 0 THEN 0 ELSE IF x3[r] = 1 THEN 2 ELSE 1
  <2>1. x3' = [x3 EXCEPT ![r] = n] /\ x1' = x1 /\ x2' = x2 /\ x4' = x4 /\ x5' = x5 /\ x6' = x6
    BY <1>1, <1>4 DEF Scaling!InstanceMoves
  <2>2. n \in 0..2
    OBVIOUS
  <2>3. x3' \in [ScaleReleases -> 0..2]
    BY <1>1, <2>1, <2>2
  <2> QED
    BY <1>1, <2>1, <2>3, ScaleElsewhere
<1> QED
  BY <1>2, <1>3, <1>4

LEMMA ScaleTicks == ASSUME ScaleInv, Scaling!Tick PROVE ScaleInv'
<1>1. /\ ~x4.on /\ x1 \in [ScaleReleases -> ScaleRow] /\ x5 \in [ScaleReleases -> Nat]
      /\ x2' = x2 /\ x3' = x3 /\ x4' = x4 /\ x6' = x6
      /\ x5' = [r \in ScaleReleases |-> Scaling!Older(x5[r])]
      /\ x1' = [r \in ScaleReleases |-> [x1[r] EXCEPT !.asked = Scaling!Older(x1[r].asked),
                                                       !.issued = Scaling!Older(x1[r].issued),
                                                       !.busy = Scaling!Older(x1[r].busy)]]
  BY DEF ScaleInv, ScaleTyped, Scaling!Tick
<1>2. \A a \in Nat : Scaling!Older(a) \in Nat /\ Scaling!Older(a) = IF a < ScaleIdle THEN a + 1 ELSE a
  BY ScaleNumbers DEF Scaling!Older
<1>3. \A w \in ScaleRow, a \in Nat, b \in Nat, c \in Nat : [w EXCEPT !.asked = a, !.issued = b, !.busy = c] \in ScaleRow
  BY DEF ScaleRow
<1>4. \A r \in ScaleReleases : /\ Scaling!Older(x1[r].asked) \in Nat /\ Scaling!Older(x1[r].issued) \in Nat
                               /\ Scaling!Older(x1[r].busy) \in Nat
  BY <1>1, <1>2 DEF ScaleRow
<1>5. x1' \in [ScaleReleases -> ScaleRow]
  BY <1>1, <1>3, <1>4
<1>6. \A r \in ScaleReleases : x1'[r].busy = Scaling!Older(x1[r].busy) /\ x1'[r].routable = x1[r].routable
  BY <1>1 DEF ScaleRow
<1>7. x5' \in [ScaleReleases -> Nat]
  BY <1>1, <1>2
<1>8. ScaleTyped' /\ ScaleUnder'
  BY <1>1, <1>5, <1>7 DEF ScaleInv, ScaleTyped, ScaleUnder, Scaling!Wanted
<1>9. ASSUME NEW r \in ScaleReleases PROVE ScaleMarked(r)'
  <2>1. ScaleMarked(r) /\ x5[r] \in Nat /\ x1[r].busy \in Nat
    BY <1>1 DEF ScaleInv, ScaleRow
  <2>2. x5'[r] = IF x5[r] < ScaleIdle THEN x5[r] + 1 ELSE x5[r]
    BY <1>1, <1>2, <2>1
  <2>3. x1'[r].busy = (IF x1[r].busy < ScaleIdle THEN x1[r].busy + 1 ELSE x1[r].busy)
        /\ x1'[r].routable = x1[r].routable
    BY <1>2, <1>6, <2>1
  <2>4. x5'[r] <= ScaleIdle => x5[r] <= ScaleIdle
    BY <2>1, <2>2, ScaleNumbers
  <2>5. x5[r] <= ScaleIdle /\ x1[r].busy <= x5[r] + ScaleRefresh => x1'[r].busy <= x5'[r] + ScaleRefresh
    BY <2>1, <2>2, <2>3, ScaleNumbers
  <2> QED
    BY <1>1, <2>1, <2>3, <2>4, <2>5 DEF ScaleMarked
<1> QED
  BY <1>1, <1>8, <1>9 DEF ScaleInv

LEMMA ScaleStep == ScaleInv /\ [Scaling!Next]_(Scaling!vars) => ScaleInv'
<1> SUFFICES ASSUME ScaleInv, [Scaling!Next]_(Scaling!vars) PROVE ScaleInv'
  OBVIOUS
<1>1. CASE UNCHANGED Scaling!vars
  BY <1>1, ScaleElsewhere DEF Scaling!vars, ScaleInv, ScaleTyped
<1> QED
  BY <1>1, PassBegins, PassEnds, PassMarks, PassSets, ScaleCalled, ScaleTicks DEF Scaling!Next

LEMMA ScaleSafe == ScaleInv => Scaling!UnderCap /\ Scaling!IdleBeforeStop
<1> SUFFICES ASSUME ScaleInv PROVE Scaling!UnderCap /\ Scaling!IdleBeforeStop
  OBVIOUS
<1>1. Scaling!UnderCap
  BY DEF ScaleInv, ScaleUnder, Scaling!UnderCap, Scaling!Cardinality, Cardinality
<1>2. Scaling!IdleBeforeStop
  BY DEF ScaleInv, ScaleMarked, Scaling!IdleBeforeStop
<1> QED
  BY <1>1, <1>2

--------------------------------------------------------------------------------
(* The sweep of vaults whose member is gone (OrphanSweep).  An owner whose *)
(* vaults are to be asked has every one of them marked seven days ago, and *)
(* was not seen since; an owner seen since has no vault that is marked.    *)
CONSTANTS SweepOwners, SweepVaults, SweepOwnerOf,              \* members, their vaults
          SweepUnsealed, SweepLimit                            \* vaults never sealed; members acted on at once

ASSUME OrphansAssumption == IsFiniteSet(SweepOwners) /\ SweepLimit \in Nat

Orphans == INSTANCE OrphanSweep WITH
               Owners <- SweepOwners, Vaults <- SweepVaults, OwnerOf <- SweepOwnerOf,
               NeverSealed <- SweepUnsealed, OrphanLimit <- SweepLimit,
               present <- x1, vault <- x2, todo <- x3, back <- x4, failed <- x5

SweepTyped ==
  /\ x1 \subseteq SweepOwners /\ x2 \in [SweepVaults -> Orphans!Row]
  /\ x3 \in [SweepOwners -> {"nothing", "mark", "ask"}] /\ x4 \subseteq SweepOwners /\ x5 \in BOOLEAN

SweepInv ==
  /\ SweepTyped
  /\ \A o \in SweepOwners : x3[o] = "ask" =>
       (\A v \in Orphans!Scanned(o) : x2[v].seen = "old") /\ (x5 \/ o \notin x4)
  /\ \A o \in x4 : ~x5 => \A v \in Orphans!Scanned(o) : x2[v].seen = "no"

LEMMA SweepInit == Orphans!Init => SweepInv
<1> SUFFICES ASSUME Orphans!Init PROVE SweepInv
  OBVIOUS
<1>1. [state |-> "live", seen |-> "no", hold |-> FALSE, asked |-> FALSE, mark |-> FALSE] \in Orphans!Row
  BY DEF Orphans!Row
<1>2. SweepTyped
  BY <1>1 DEF Orphans!Init, SweepTyped
<1> QED
  BY <1>2 DEF Orphans!Init, SweepInv

\* What a step writes of a row is a row.
LEMMA SweepRows ==
  ASSUME NEW r \in Orphans!Row
  PROVE  /\ [r EXCEPT !.state = "gone"] \in Orphans!Row
         /\ \A b \in BOOLEAN : /\ [r EXCEPT !.asked = TRUE, !.mark = b] \in Orphans!Row
                              /\ [r EXCEPT !.mark = b] \in Orphans!Row
                              /\ [r EXCEPT !.hold = b] \in Orphans!Row
BY DEF Orphans!Row

LEMMA SweepSeen ==
  ASSUME NEW r \in Orphans!Row, NEW t \in {"no", "new", "old"}
  PROVE  LET q == [r EXCEPT !.seen = t]
         IN  q \in Orphans!Row /\ q.state = r.state /\ q.asked = r.asked /\ q.seen = t
BY DEF Orphans!Row

LEMMA SweepSurvey ==
  ASSUME SweepInv, NEW unread \in SUBSET SweepOwners, NEW uncleared \in SUBSET Orphans!Marked, Orphans!Survey(unread, uncleared)
  PROVE  SweepInv'
<1> DEFINE read == {o \in SweepOwners : Orphans!Scanned(o) # {}} \ unread
           missing == read \ x1
<1>1. /\ \A o \in SweepOwners : x3[o] = "nothing"
      /\ x2' = [v \in SweepVaults |->
                  IF SweepOwnerOf[v] \in read \cap x1 /\ v \in Orphans!Scanned(SweepOwnerOf[v]) \ uncleared
                  THEN [x2[v] EXCEPT !.seen = "no"] ELSE x2[v]]
      /\ x4' = x4 \cup {o \in read \cap x1 : Orphans!Scanned(o) \cap Orphans!Marked # {}}
      /\ x5' = (x5 \/ uncleared # {}) /\ x1' = x1
      /\ \/ x3' = x3
         \/ x3' = [o \in SweepOwners |-> IF o \in missing THEN Orphans!Decision(Orphans!Scanned(o)) ELSE "nothing"]
  BY DEF Orphans!Survey
<1>2. \A v \in SweepVaults : x2[v] \in Orphans!Row
  BY DEF SweepInv, SweepTyped
<1>3. \A v \in SweepVaults : /\ x2'[v] \in Orphans!Row /\ x2'[v].state = x2[v].state /\ x2'[v].asked = x2[v].asked
                           /\ x2'[v].seen \in {x2[v].seen, "no"}
  <2> SUFFICES ASSUME NEW v \in SweepVaults
               PROVE  /\ x2'[v] \in Orphans!Row /\ x2'[v].state = x2[v].state /\ x2'[v].asked = x2[v].asked
                      /\ x2'[v].seen \in {x2[v].seen, "no"}
    OBVIOUS
  <2>1. x2'[v] = x2[v] \/ x2'[v] = [x2[v] EXCEPT !.seen = "no"]
    BY <1>1
  <2>2. LET q == [x2[v] EXCEPT !.seen = "no"] IN q \in Orphans!Row /\ q.state = x2[v].state /\ q.asked = x2[v].asked /\ q.seen = "no"
    BY <1>2, SweepSeen
  <2> QED
    BY <1>2, <2>1, <2>2
<1>4. \A o : Orphans!Scanned(o)' = Orphans!Scanned(o)
  BY <1>3 DEF Orphans!Scanned, Orphans!VaultsOf
<1>5. SweepTyped'
  <2>1. x2' \in [SweepVaults -> Orphans!Row]
    BY <1>1, <1>3
  <2>2. x3' \in [SweepOwners -> {"nothing", "mark", "ask"}]
    BY <1>1 DEF SweepInv, SweepTyped, Orphans!Decision
  <2> QED
    BY <1>1, <2>1, <2>2 DEF SweepInv, SweepTyped
<1>6. ASSUME NEW o \in x4', ~x5', NEW v \in Orphans!Scanned(o) PROVE x2'[v].seen = "no"
  <2>1. v \in SweepVaults /\ SweepOwnerOf[v] = o /\ uncleared = {} /\ ~x5
    BY <1>1, <1>6 DEF Orphans!Scanned, Orphans!VaultsOf
  <2>2. CASE o \in x4
    BY <1>3, <2>1, <2>2 DEF SweepInv
  <2>3. CASE o \in read \cap x1
    BY <1>1, <1>2, <2>1, <2>3 DEF Orphans!Row
  <2> QED
    BY <1>1, <1>6, <2>2, <2>3
<1>7. ASSUME NEW o \in SweepOwners, x3'[o] = "ask"
      PROVE  (\A v \in Orphans!Scanned(o) : x2'[v].seen = "old") /\ (x5' \/ o \notin x4')
  <2>1. o \in missing /\ Orphans!Decision(Orphans!Scanned(o)) = "ask"
    BY <1>1, <1>7
  <2>2. \A v \in Orphans!Scanned(o) : x2[v].seen = "old"
    BY <2>1 DEF Orphans!Decision, Orphans!Due
  <2>3. \A v \in Orphans!Scanned(o) : x2'[v] = x2[v]
    BY <1>1, <2>1 DEF Orphans!Scanned, Orphans!VaultsOf
  <2>4. ASSUME ~x5', o \in x4' PROVE FALSE
    <3>1. o \in x4 /\ ~x5
      BY <1>1, <2>1, <2>4
    <3>2. PICK v \in Orphans!Scanned(o) : TRUE
      BY <2>1
    <3>3. x2[v].seen = "no"
      BY <3>1, <3>2 DEF SweepInv
    <3> QED
      BY <2>2, <3>2, <3>3
  <2> QED
    BY <2>2, <2>3, <2>4
<1> QED
  BY <1>4, <1>5, <1>6, <1>7 DEF SweepInv

\* The other steps: what is scanned only shrinks, except that marks are made and grow old.
LEMMA SweepShrinks ==
  ASSUME SweepInv, x2' \in [SweepVaults -> Orphans!Row], x5' = x5, x4' = x4,
         x3' \in [SweepOwners -> {"nothing", "mark", "ask"}], x1' \subseteq SweepOwners,
         \A o \in SweepOwners : x3'[o] \in {x3[o], "nothing"},
         \A v \in SweepVaults : x2'[v].state = "live" /\ ~x2'[v].asked =>
            x2[v].state = "live" /\ ~x2[v].asked /\ x2'[v].seen = x2[v].seen
  PROVE  SweepInv'
<1>1. \A o : \A v \in Orphans!Scanned(o)' : v \in Orphans!Scanned(o) /\ x2'[v].seen = x2[v].seen
  BY DEF Orphans!Scanned, Orphans!VaultsOf
<1> QED
  BY <1>1 DEF SweepInv, SweepTyped

LEMMA SweepMarks ==
  ASSUME SweepInv, NEW o \in SweepOwners, Orphans!MarkOwner(o)
  PROVE  SweepInv'
<1>1. /\ x3' = [x3 EXCEPT ![o] = "nothing"] /\ x4' = x4 \ {o} /\ x1' = x1 /\ x5' = x5
      /\ x2' = [v \in SweepVaults |->
                  IF v \in Orphans!Scanned(o) /\ x2[v].seen = "no" THEN [x2[v] EXCEPT !.seen = "new"] ELSE x2[v]]
  BY DEF Orphans!MarkOwner, Orphans!Done
<1>2. \A v \in SweepVaults : x2[v] \in Orphans!Row
  BY DEF SweepInv, SweepTyped
<1>3. \A v \in SweepVaults : x2'[v] \in Orphans!Row /\ x2'[v].state = x2[v].state /\ x2'[v].asked = x2[v].asked
  <2> SUFFICES ASSUME NEW v \in SweepVaults
               PROVE  x2'[v] \in Orphans!Row /\ x2'[v].state = x2[v].state /\ x2'[v].asked = x2[v].asked
    OBVIOUS
  <2>1. x2'[v] = x2[v] \/ x2'[v] = [x2[v] EXCEPT !.seen = "new"]
    BY <1>1
  <2>2. LET q == [x2[v] EXCEPT !.seen = "new"] IN q \in Orphans!Row /\ q.state = x2[v].state /\ q.asked = x2[v].asked /\ q.seen = "new"
    BY <1>2, SweepSeen
  <2> QED
    BY <1>2, <2>1, <2>2
<1>4. \A p : Orphans!Scanned(p)' = Orphans!Scanned(p)
  BY <1>3 DEF Orphans!Scanned, Orphans!VaultsOf
<1>5. \A p \in SweepOwners \ {o} : \A v \in Orphans!Scanned(p) : x2'[v] = x2[v]
  BY <1>1 DEF Orphans!Scanned, Orphans!VaultsOf
<1>6. SweepTyped'
  BY <1>1, <1>3 DEF SweepInv, SweepTyped
<1>7. \A p \in SweepOwners : x3'[p] = "ask" => p # o /\ x3[p] = "ask"
  BY <1>1 DEF SweepInv, SweepTyped
<1>8. ASSUME NEW p \in SweepOwners, x3'[p] = "ask"
      PROVE  (\A v \in Orphans!Scanned(p)' : x2'[v].seen = "old") /\ (x5' \/ p \notin x4')
  BY <1>1, <1>4, <1>5, <1>7, <1>8 DEF SweepInv
<1>9. ASSUME NEW p \in x4', ~x5', NEW v \in Orphans!Scanned(p)' PROVE x2'[v].seen = "no"
  <2>1. p \in x4 /\ p # o /\ ~x5 /\ p \in SweepOwners /\ v \in Orphans!Scanned(p)
    BY <1>1, <1>4, <1>9 DEF SweepInv, SweepTyped
  <2> QED
    BY <1>5, <2>1 DEF SweepInv
<1> QED
  BY <1>6, <1>8, <1>9 DEF SweepInv

LEMMA SweepStep == SweepInv /\ [Orphans!Next]_(Orphans!vars) => SweepInv'
<1> SUFFICES ASSUME SweepInv, [Orphans!Next]_(Orphans!vars) PROVE SweepInv'
  OBVIOUS
<1>0. SweepTyped /\ \A v \in SweepVaults : x2[v] \in Orphans!Row
  BY DEF SweepInv, SweepTyped
<1>1. CASE \E unread \in SUBSET SweepOwners, uncleared \in SUBSET Orphans!Marked : Orphans!Survey(unread, uncleared)
  BY <1>1, SweepSurvey
<1>2. ASSUME NEW o \in SweepOwners, Orphans!MarkOwner(o) PROVE SweepInv'
  BY <1>2, SweepMarks
<1>3. ASSUME NEW o \in SweepOwners, NEW b \in BOOLEAN, Orphans!AskOwner(o, b) PROVE SweepInv'
  <2>1. \A v \in SweepVaults : x2'[v] = IF SweepOwnerOf[v] = o /\ x2[v].state = "live" THEN Orphans!Asked(v, x2[v].mark \/ b) ELSE x2[v]
    BY <1>3 DEF Orphans!AskOwner
  <2>2. \A v \in SweepVaults : (x2[v].mark \/ b) \in BOOLEAN
    OBVIOUS
  <2>3. \A v \in SweepVaults : LET r == Orphans!Asked(v, x2[v].mark \/ b) IN r \in Orphans!Row /\ (r.state = "gone" \/ r.asked)
    <3> SUFFICES ASSUME NEW v \in SweepVaults
                 PROVE  LET r == Orphans!Asked(v, x2[v].mark \/ b) IN r \in Orphans!Row /\ (r.state = "gone" \/ r.asked)
      OBVIOUS
    <3>1. ASSUME NEW r \in Orphans!Row, NEW c \in BOOLEAN
          PROVE  [r EXCEPT !.state = "gone"].state = "gone" /\ [r EXCEPT !.asked = TRUE, !.mark = c].asked
      BY DEF Orphans!Row
    <3> QED
      BY <1>0, <2>2, <3>1, SweepRows DEF Orphans!Asked
  <2>4. \A v \in SweepVaults : x2'[v] \in Orphans!Row /\ (x2'[v] = x2[v] \/ x2'[v].state = "gone" \/ x2'[v].asked)
    BY <1>0, <2>1, <2>3
  <2>5. x2' \in [SweepVaults -> Orphans!Row]
    BY <1>3, <2>4 DEF Orphans!AskOwner
  <2>6. x3' = [x3 EXCEPT ![o] = "nothing"] /\ x1' = x1 /\ x4' = x4 /\ x5' = x5
    BY <1>3 DEF Orphans!AskOwner, Orphans!Done
  <2>7. x3' \in [SweepOwners -> {"nothing", "mark", "ask"}] /\ \A p \in SweepOwners : x3'[p] \in {x3[p], "nothing"}
    BY <1>0, <2>6 DEF SweepTyped
  <2> QED
    BY <1>0, <2>4, <2>5, <2>6, <2>7, SweepShrinks DEF SweepTyped
<1>4. CASE Orphans!RunDies
  BY <1>0, <1>4, SweepShrinks DEF Orphans!RunDies, SweepTyped
<1>5. ASSUME NEW v \in SweepVaults, Orphans!Retry(v) \/ Orphans!OperatorHolds(v) \/ Orphans!VaultDeletes(v) PROVE SweepInv'
  <2>1. PICK r \in Orphans!Row : /\ x2' = [x2 EXCEPT ![v] = r] /\ r.seen = x2[v].seen /\ r.asked = x2[v].asked
                                /\ r.state \in {x2[v].state, "gone"}
    <3>1. CASE Orphans!Retry(v)
      <4> DEFINE r == [x2[v] EXCEPT !.mark = TRUE]
      <4>1. r \in Orphans!Row /\ r.seen = x2[v].seen /\ r.asked = x2[v].asked /\ r.state = x2[v].state
        BY <1>0 DEF Orphans!Row
      <4>2. x2' = [x2 EXCEPT ![v] = r]
        BY <3>1 DEF Orphans!Retry
      <4> QED
        BY <4>1, <4>2
    <3>2. CASE Orphans!OperatorHolds(v)
      <4> DEFINE r == [x2[v] EXCEPT !.hold = ~@]
      <4>1. r \in Orphans!Row /\ r.seen = x2[v].seen /\ r.asked = x2[v].asked /\ r.state = x2[v].state
        BY <1>0 DEF Orphans!Row
      <4>2. x2' = [x2 EXCEPT ![v] = r]
        BY <3>2 DEF Orphans!OperatorHolds
      <4> QED
        BY <4>1, <4>2
    <3>3. CASE Orphans!VaultDeletes(v)
      <4> DEFINE r == [x2[v] EXCEPT !.state = "gone"]
      <4>1. r \in Orphans!Row /\ r.seen = x2[v].seen /\ r.asked = x2[v].asked /\ r.state = "gone"
        BY <1>0 DEF Orphans!Row
      <4>2. x2' = [x2 EXCEPT ![v] = r]
        BY <3>3 DEF Orphans!VaultDeletes
      <4> QED
        BY <4>1, <4>2
    <3> QED
      BY <1>5, <3>1, <3>2, <3>3
  <2>2. x1' = x1 /\ x3' = x3 /\ x4' = x4 /\ x5' = x5
    BY <1>5 DEF Orphans!Retry, Orphans!OperatorHolds, Orphans!VaultDeletes
  <2>3. x2' \in [SweepVaults -> Orphans!Row]
    BY <1>0, <2>1 DEF SweepTyped
  <2>4. \A w \in SweepVaults : x2'[w].state = "live" /\ ~x2'[w].asked => x2[w].state = "live" /\ ~x2[w].asked /\ x2'[w].seen = x2[w].seen
    BY <1>0, <2>1 DEF SweepTyped
  <2> QED
    BY <1>0, <2>2, <2>3, <2>4, SweepShrinks DEF SweepTyped
<1>6. CASE (\E o \in SweepOwners : Orphans!MemberComesOrGoes(o)) \/ Orphans!TableLost \/ UNCHANGED Orphans!vars
  BY <1>0, <1>6, SweepShrinks DEF Orphans!MemberComesOrGoes, Orphans!TableLost, Orphans!vars, SweepTyped
<1>7. CASE Orphans!SevenDaysPass
  <2>1. /\ \A o \in SweepOwners : x3[o] = "nothing"
        /\ x2' = [v \in SweepVaults |-> IF x2[v].seen = "new" THEN [x2[v] EXCEPT !.seen = "old"] ELSE x2[v]]
        /\ x1' = x1 /\ x3' = x3 /\ x4' = x4 /\ x5' = x5
    BY <1>7 DEF Orphans!SevenDaysPass
  <2>2. \A v \in SweepVaults : /\ x2'[v] \in Orphans!Row /\ x2'[v].state = x2[v].state /\ x2'[v].asked = x2[v].asked
                             /\ (x2[v].seen = "no" => x2'[v].seen = "no")
    <3> SUFFICES ASSUME NEW v \in SweepVaults
                 PROVE  /\ x2'[v] \in Orphans!Row /\ x2'[v].state = x2[v].state /\ x2'[v].asked = x2[v].asked
                        /\ (x2[v].seen = "no" => x2'[v].seen = "no")
      OBVIOUS
    <3>1. x2'[v] = x2[v] \/ (x2[v].seen = "new" /\ x2'[v] = [x2[v] EXCEPT !.seen = "old"])
      BY <2>1
    <3>2. LET q == [x2[v] EXCEPT !.seen = "old"] IN q \in Orphans!Row /\ q.state = x2[v].state /\ q.asked = x2[v].asked /\ q.seen = "old"
      BY <1>0, SweepSeen
    <3> QED
      BY <1>0, <3>1, <3>2
  <2>3. \A o : Orphans!Scanned(o)' = Orphans!Scanned(o)
    BY <2>2 DEF Orphans!Scanned, Orphans!VaultsOf
  <2>4. SweepTyped'
    BY <1>0, <2>1, <2>2 DEF SweepTyped
  <2>5. \A o : Orphans!Scanned(o) \subseteq SweepVaults
    BY DEF Orphans!Scanned, Orphans!VaultsOf
  <2> QED
    BY <2>1, <2>2, <2>3, <2>4, <2>5 DEF SweepInv
<1> QED
  BY <1>1, <1>2, <1>3, <1>4, <1>5, <1>6, <1>7 DEF Orphans!Next, Orphans!RunNext

\* A step that asks is AskOwner's; the vaults it asks for the first time were scanned.
LEMMA SweepSafe == SweepInv /\ [Orphans!Next]_(Orphans!vars) => Orphans!SevenDaysMissing
<1> SUFFICES ASSUME SweepInv, [Orphans!Next]_(Orphans!vars), NEW v \in SweepVaults, Orphans!Ends(v)
             PROVE  x2[v].seen = "old" /\ (x5 \/ SweepOwnerOf[v] \notin x4)
  BY DEF Orphans!SevenDaysMissing
<1>1. x2[v].state = "live" /\ ~x2[v].asked /\ (x2'[v].asked \/ x2'[v].state = "gone") /\ x2[v] \in Orphans!Row /\ x2 \in [SweepVaults -> Orphans!Row]
  BY DEF Orphans!Ends, SweepInv, SweepTyped
<1>2. PICK o \in SweepOwners, b \in BOOLEAN : Orphans!AskOwner(o, b)
  <2>1. CASE \E unread \in SUBSET SweepOwners, uncleared \in SUBSET Orphans!Marked : Orphans!Survey(unread, uncleared)
    <3>1. x2'[v] = x2[v] \/ x2'[v] = [x2[v] EXCEPT !.seen = "no"]
      BY <2>1 DEF Orphans!Survey
    <3> QED
      BY <1>1, <3>1 DEF Orphans!Row
  <2>2. CASE \E o \in SweepOwners : Orphans!MarkOwner(o)
    <3>1. x2'[v] = x2[v] \/ x2'[v] = [x2[v] EXCEPT !.seen = "new"]
      BY <2>2 DEF Orphans!MarkOwner
    <3> QED
      BY <1>1, <3>1 DEF Orphans!Row
  <2>3. CASE Orphans!RunDies \/ (\E o \in SweepOwners : Orphans!MemberComesOrGoes(o)) \/ Orphans!TableLost \/ UNCHANGED Orphans!vars
    BY <1>1, <2>3 DEF Orphans!RunDies, Orphans!MemberComesOrGoes, Orphans!TableLost, Orphans!vars
  <2>4. CASE \E w \in SweepVaults : Orphans!Retry(w) \/ Orphans!OperatorHolds(w) \/ Orphans!VaultDeletes(w)
    <3>1. PICK w \in SweepVaults : Orphans!Retry(w) \/ Orphans!OperatorHolds(w) \/ Orphans!VaultDeletes(w)
      BY <2>4
    <3>2. CASE Orphans!Retry(w)
      BY <1>1, <3>2 DEF Orphans!Retry, Orphans!Row
    <3>3. CASE Orphans!OperatorHolds(w)
      BY <1>1, <3>3 DEF Orphans!OperatorHolds, Orphans!Row
    <3>4. CASE Orphans!VaultDeletes(w)
      BY <1>1, <3>4 DEF Orphans!VaultDeletes, Orphans!Row
    <3> QED
      BY <3>1, <3>2, <3>3, <3>4
  <2>5. CASE Orphans!SevenDaysPass
    <3>1. x2'[v] = x2[v] \/ x2'[v] = [x2[v] EXCEPT !.seen = "old"]
      BY <2>5 DEF Orphans!SevenDaysPass
    <3> QED
      BY <1>1, <3>1 DEF Orphans!Row
  <2> QED
    BY <2>1, <2>2, <2>3, <2>4, <2>5 DEF Orphans!Next, Orphans!RunNext
<1>3. SweepOwnerOf[v] = o /\ x3[o] = "ask"
  BY <1>1, <1>2 DEF Orphans!AskOwner
<1>4. v \in Orphans!Scanned(o)
  BY <1>1, <1>3 DEF Orphans!Scanned, Orphans!VaultsOf
<1> QED
  BY <1>3, <1>4 DEF SweepInv

--------------------------------------------------------------------------------
(***************************************************************************)
(* How many members the orphan sweep acts on at once, for any number of    *)
(* them: what it decides is decided of members it read and missed, and too *)
(* many of those end the run with nothing decided.                         *)
(***************************************************************************)

SweepFew == x3 \in [SweepOwners -> {"nothing", "mark", "ask"}] /\ Orphans!FewAtOnce

LEMMA AllowedGrows ==
  ASSUME NEW m \in Nat, NEW n \in Nat, m <= n
  PROVE  Orphans!Allowed(m) \in Nat /\ Orphans!Allowed(m) <= Orphans!Allowed(n)
BY DEF Orphans!Allowed

\* Those left to act on are among those decided before.
LEMMA FewerLeft ==
  ASSUME SweepFew, x3' \in [SweepOwners -> {"nothing", "mark", "ask"}],
         \A o \in SweepOwners : x3'[o] # "nothing" => x3[o] # "nothing"
  PROVE  SweepFew'
<1> DEFINE A == {o \in SweepOwners : x3[o] # "nothing"}
           B == {o \in SweepOwners : x3'[o] # "nothing"}
<1>1. IsFiniteSet(A) /\ IsFiniteSet(SweepOwners) /\ B \subseteq A
  BY FS_Subset, OrphansAssumption
<1>2. /\ Cardinality(B) <= Cardinality(A) /\ Cardinality(A) \in Nat /\ Cardinality(B) \in Nat
      /\ Cardinality(SweepOwners) \in Nat
  BY <1>1, FS_Subset, FS_CardinalityType
<1>3. Orphans!Allowed(Cardinality(SweepOwners)) \in Nat
  BY <1>2, AllowedGrows
<1>4. Cardinality(A) <= Orphans!Allowed(Cardinality(SweepOwners))
  BY DEF SweepFew, Orphans!FewAtOnce, Orphans!Cardinality, Cardinality
<1>5. Cardinality(B) <= Orphans!Allowed(Cardinality(SweepOwners))
  BY <1>2, <1>3, <1>4
<1> QED
  BY <1>5 DEF SweepFew, Orphans!FewAtOnce, Orphans!Cardinality, Cardinality

LEMMA SurveyFew ==
  ASSUME SweepFew, NEW unread \in SUBSET SweepOwners, NEW uncleared \in SUBSET Orphans!Marked,
         Orphans!Survey(unread, uncleared)
  PROVE  SweepFew'
<1> DEFINE read    == {o \in SweepOwners : Orphans!Scanned(o) # {}} \ unread
           missing == read \ x1
           B       == {o \in SweepOwners : x3'[o] # "nothing"}
<1>1. CASE Orphans!TooMany(missing, Cardinality(read))
  BY <1>1, FewerLeft DEF Orphans!Survey, SweepFew, Orphans!Cardinality, Cardinality
<1>2. CASE ~Orphans!TooMany(missing, Cardinality(read))
  <2>1. x3' = [o \in SweepOwners |-> IF o \in missing THEN Orphans!Decision(Orphans!Scanned(o)) ELSE "nothing"]
    BY <1>2 DEF Orphans!Survey, Orphans!Cardinality, Cardinality
  <2>2. x3' \in [SweepOwners -> {"nothing", "mark", "ask"}] /\ B \subseteq missing
    BY <2>1 DEF Orphans!Decision
  <2>3. IsFiniteSet(read) /\ IsFiniteSet(missing) /\ missing \subseteq read /\ read \subseteq SweepOwners
    BY FS_Subset, OrphansAssumption
  <2>4. /\ Cardinality(B) <= Cardinality(missing) /\ Cardinality(read) <= Cardinality(SweepOwners)
        /\ Cardinality(B) \in Nat /\ Cardinality(missing) \in Nat /\ Cardinality(read) \in Nat
        /\ Cardinality(SweepOwners) \in Nat
    BY <2>2, <2>3, FS_Subset, FS_CardinalityType, OrphansAssumption
  <2>5. ~(Cardinality(missing) > Orphans!Allowed(Cardinality(read)))
    BY <1>2 DEF Orphans!TooMany, Orphans!Cardinality, Cardinality
  <2>6. /\ Orphans!Allowed(Cardinality(read)) \in Nat /\ Orphans!Allowed(Cardinality(SweepOwners)) \in Nat
        /\ Orphans!Allowed(Cardinality(read)) <= Orphans!Allowed(Cardinality(SweepOwners))
    BY <2>4, AllowedGrows
  <2>7. Cardinality(B) <= Orphans!Allowed(Cardinality(SweepOwners))
    BY <2>4, <2>5, <2>6
  <2> QED
    BY <2>2, <2>7 DEF SweepFew, Orphans!FewAtOnce, Orphans!Cardinality, Cardinality
<1> QED
  BY <1>1, <1>2

LEMMA FewInit == Orphans!Init => SweepFew
<1> SUFFICES ASSUME Orphans!Init PROVE SweepFew
  OBVIOUS
<1>1. x3 \in [SweepOwners -> {"nothing", "mark", "ask"}] /\ {o \in SweepOwners : x3[o] # "nothing"} = {}
  BY DEF Orphans!Init
<1>2. Cardinality(SweepOwners) \in Nat
  BY FS_CardinalityType, OrphansAssumption
<1>3. 0 <= Orphans!Allowed(Cardinality(SweepOwners))
  BY <1>2, AllowedGrows
<1>4. Cardinality({}) = 0
  BY FS_EmptySet
<1> QED
  BY <1>1, <1>3, <1>4 DEF SweepFew, Orphans!FewAtOnce, Orphans!Cardinality, Cardinality

LEMMA FewStep == SweepFew /\ [Orphans!Next]_(Orphans!vars) => SweepFew'
<1> SUFFICES ASSUME SweepFew, [Orphans!Next]_(Orphans!vars) PROVE SweepFew'
  OBVIOUS
<1>1. CASE x3' = x3
  BY <1>1, FewerLeft DEF SweepFew
<1>2. ASSUME NEW o \in SweepOwners, Orphans!Done(o) PROVE SweepFew'
  BY <1>2, FewerLeft DEF Orphans!Done, SweepFew
<1>3. CASE Orphans!RunDies
  BY <1>3, FewerLeft DEF Orphans!RunDies, SweepFew
<1>4. CASE Orphans!Next
  BY <1>1, <1>2, <1>3, <1>4, SurveyFew DEF Orphans!Next, Orphans!RunNext, Orphans!MarkOwner, Orphans!AskOwner,
     Orphans!Retry, Orphans!OperatorHolds, Orphans!VaultDeletes, Orphans!MemberComesOrGoes, Orphans!TableLost,
     Orphans!SevenDaysPass
<1>5. CASE UNCHANGED Orphans!vars
  BY <1>1, <1>5 DEF Orphans!vars
<1> QED
  BY <1>4, <1>5

--------------------------------------------------------------------------------
(***************************************************************************)
(* The signed manifests of a channel, for any number of releases, edits,   *)
(* signatures and days, and any windows (ReleaseManifests: list is x1,     *)
(* serial x2, keys x3, docs x4, job x5, bucket x6, served x7, ran x8,      *)
(* edits x9, now x10).  A listed release admits every older one that is    *)
(* not removed, and its key is what it admits, for good: the older ones    *)
(* were listed when it was, and none is added below it or comes back.  So  *)
(* whatever document was signed then, its newest active release has the    *)
(* key that those still on an older one need.                              *)
(***************************************************************************)
CONSTANTS MoveReleases, MoveRescue, MoveNotice, MoveWindow,  \* the last release's number; the windows, in days
          MoveSerials, MoveTime, MoveEdits                   \* serials, days, edits

ASSUME MoveAssumption ==
  {MoveReleases, MoveTime} \subseteq Nat \ {0} /\ {MoveRescue, MoveNotice, MoveWindow, MoveSerials, MoveEdits} \subseteq Nat

Manifests == INSTANCE ReleaseManifests WITH
               Releases <- 1..MoveReleases, RescueWindow <- MoveRescue, FinalNotice <- MoveNotice, FirstWindow <- MoveWindow,
               MaxSerial <- MoveSerials, MaxTime <- MoveTime, MaxEdits <- MoveEdits,
               list <- x1, serial <- x2, keys <- x3, docs <- x4, job <- x5, bucket <- x6,
               served <- x7, ran <- x8, edits <- x9, now <- x10

MoveLast(f) == Manifests!Newest(Manifests!Actives(f))

\* A listed release has a key once it is sealed, of what it admits, and admits the older ones.
MoveListFits(f, ks) ==
  /\ Manifests!IsList(f)
  /\ \A n \in DOMAIN f :
       /\ n \in DOMAIN ks => f[n].sealed /\ ks[n] = f[n].admits
       /\ n \notin DOMAIN ks => ~f[n].sealed /\ f[n].published = 0
       /\ \A m \in DOMAIN f : m < n /\ f[m].status # "removed" => m \in f[n].admits

\* A document's keys are there, and those on an older release have a way on.
MoveDocFits(d, ks, at) ==
  /\ Manifests!IsList(d.entries) /\ d.serial \in Nat /\ d.issued \in Nat /\ d.issued <= at
  /\ \A n \in DOMAIN d.entries : n \in DOMAIN ks /\ ks[n] = d.entries[n].admits
  /\ Manifests!Actives(d.entries) # {} => \A n \in DOMAIN d.entries :
       \/ d.entries[n].status \in {"deprecated", "retired"}
       \/ n < MoveLast(d.entries) /\ Manifests!Rescuable(d.entries[n], d.issued)
       => n \in d.entries[MoveLast(d.entries)].admits

\* The first release is not served, or as removed.
MoveFirstOver(m) == 1 \notin DOMAIN m \/ m[1].status = "removed"

\* The second release is out as long as the first one's window.
MoveWindowOver(f, at) == 2 \in DOMAIN f => f[2].published # 0 /\ at >= f[2].published + MoveWindow

\* What a publication's checks said of the first release.
MoveChecked(d, f, before, at) ==
  /\ d.entries = Manifests!Entries(f) /\ Manifests!WindowKept(f)
  /\ 1 \in DOMAIN f /\ f[1].status = "removed" => f[1].ends # 0 /\ f[1].ends <= at
  /\ 1 \notin DOMAIN d.entries => MoveFirstOver(before.entries)

MoveInv ==
  /\ MoveListFits(x1, x3) /\ DOMAIN x3 \subseteq 1..MoveReleases
  /\ x2 \in Nat /\ x10 \in 0..MoveTime
  /\ \A d \in x4 : MoveDocFits(d, x3, x10) /\ d.serial <= x2
  /\ \A d, e \in x4 : d.serial = e.serial => d = e
  /\ x5.at \in {"idle", "raised", "checked", "uploaded"}
  /\ x5.at = "raised" => /\ MoveDocFits(x5.doc, x3, x10) /\ x5.doc.serial <= x2
                         /\ \A d \in x4 : d.serial < x5.doc.serial
  /\ x5.at \in {"checked", "uploaded"} => x5.doc \in x4 /\ MoveChecked(x5.doc, x1, x7, x10)
  /\ x5.at = "uploaded" => x5.doc.serial \in x6
  /\ x7 \in x4 /\ x7.serial \in x6 /\ 1 \in x8
  /\ MoveFirstOver(x7.entries) => /\ 2 \in DOMAIN x3 /\ MoveWindowOver(x1, x10)
                                  /\ MoveWindowOver(x7.entries, x10)

LEMMA MoveNumbers ==
  /\ MoveReleases \in Nat /\ 1 \in 1..MoveReleases /\ MoveTime \in Nat /\ 1 \in 0..MoveTime
  /\ MoveRescue \in Nat /\ MoveWindow \in Nat /\ Manifests!Times = 0..MoveTime
BY MoveAssumption DEF Manifests!Times

LEMMA MoveEntries ==
  \A e \in Manifests!Entry : /\ e.status \in Manifests!Statuses /\ e.admits \subseteq 1..MoveReleases
                             /\ e.published \in 0..MoveTime /\ e.ends \in 0..MoveTime
                             /\ e.published \in Nat /\ e.ends \in Nat
BY MoveNumbers DEF Manifests!Entry

LEMMA MoveRanks ==
  \A s \in Manifests!Statuses : Manifests!Rank("removed") <= Manifests!Rank(s) => s = "removed"
BY DEF Manifests!Rank, Manifests!Statuses

\* The newest of the active releases is one of them.
LEMMA MoveNewest ==
  ASSUME NEW f, Manifests!IsList(f), Manifests!Actives(f) # {}
  PROVE  MoveLast(f) \in Manifests!Actives(f) /\ MoveLast(f) \in DOMAIN f /\ MoveLast(f) \in Nat
<1> DEFINE S == Manifests!Actives(f)
<1>1. S \subseteq 1..MoveReleases /\ S \subseteq DOMAIN f
  BY DEF Manifests!Actives, Manifests!IsList
<1>2. IsFiniteSet(S) /\ S \subseteq Nat
  <2>1. IsFiniteSet(1..MoveReleases) /\ 1..MoveReleases \subseteq Nat
    BY MoveNumbers, FS_Interval
  <2> QED
    BY <1>1, <2>1, FS_Subset
<1>3. \E m \in S : \A x \in S : x <= m
  BY <1>2, HasGreatest
<1>4. MoveLast(f) \in S
  BY <1>3 DEF MoveLast, Manifests!Newest
<1> QED
  BY <1>1, <1>2, <1>4

\* What still may be rescued later could be earlier.
LEMMA MoveRescuable ==
  ASSUME NEW e \in Manifests!Entry, NEW i \in Nat, NEW k \in Nat, i <= k, Manifests!Rescuable(e, k)
  PROVE  Manifests!Rescuable(e, i)
<1>1. e.ends \in Nat
  BY MoveEntries
<1> QED
  BY <1>1, MoveNumbers DEF Manifests!Rescuable

\* A document that fits still does when there are more keys, and later.
LEMMA MoveStaysFit ==
  ASSUME NEW d, NEW ks, NEW ls, NEW i \in Nat, NEW k \in Nat, MoveDocFits(d, ks, i), i <= k,
         \A n \in DOMAIN ks : n \in DOMAIN ls /\ ls[n] = ks[n]
  PROVE  MoveDocFits(d, ls, k)
<1>1. d.issued \in Nat /\ d.issued <= k
  <2>1. d.issued \in Nat /\ d.issued <= i
    BY DEF MoveDocFits
  <2> QED
    BY <2>1
<1> QED
  BY <1>1 DEF MoveDocFits

LEMMA MoveInit == Manifests!Init => MoveInv
<1> SUFFICES ASSUME Manifests!Init PROVE MoveInv
  OBVIOUS
<1>1. /\ x1 = [n \in {1} |-> Manifests!First] /\ x2 = 1 /\ x3 = [n \in {1} |-> {}] /\ x4 = {Manifests!Doc1}
      /\ x5.at = "idle" /\ x6 = {1} /\ x7 = Manifests!Doc1 /\ x8 = {1} /\ x10 = 1
  BY DEF Manifests!Init, Manifests!Release1, Manifests!NoJob
<1>2. /\ Manifests!First.sealed /\ Manifests!First.admits = {} /\ Manifests!First.status = "active"
      /\ Manifests!First \in Manifests!Entry
  BY MoveNumbers DEF Manifests!First, Manifests!Entry, Manifests!Statuses
<1>3. Manifests!Doc1.serial = 1 /\ Manifests!Doc1.issued = 1 /\ Manifests!Doc1.entries = x1
  BY <1>1 DEF Manifests!Doc1, Manifests!Release1
<1>4. DOMAIN x1 = {1} /\ x1[1] = Manifests!First /\ DOMAIN x3 = {1} /\ x3[1] = {}
  BY <1>1
<1>5. Manifests!IsList(x1)
  BY <1>2, <1>4, MoveNumbers DEF Manifests!IsList
<1>6. MoveListFits(x1, x3)
  BY <1>2, <1>4, <1>5 DEF MoveListFits
<1>7. MoveLast(x1) = 1
  <2>1. Manifests!Actives(x1) # {}
    BY <1>2, <1>4 DEF Manifests!Actives
  <2> QED
    BY <1>4, <1>5, <2>1, MoveNewest
<1>8. MoveDocFits(Manifests!Doc1, x3, x10)
  <2>1. ~(x1[1].status \in {"deprecated", "retired"}) /\ ~(1 < 1)
    BY <1>2, <1>4
  <2> QED
    BY <1>1, <1>2, <1>3, <1>4, <1>5, <1>7, <2>1 DEF MoveDocFits
<1>9. ~MoveFirstOver(x7.entries)
  BY <1>1, <1>2, <1>3, <1>4 DEF MoveFirstOver
<1> QED
  BY <1>1, <1>3, <1>4, <1>6, <1>8, <1>9, MoveNumbers DEF MoveInv

\* An edit of the list between two commands.
LEMMA MoveEdited ==
  ASSUME MoveInv, x5.at = "idle", MoveListFits(x1', x3), UNCHANGED <<x2, x3, x4, x5, x6, x7, x8, x10>>,
         2 \in DOMAIN x1' /\ 2 \in DOMAIN x3 =>
           2 \in DOMAIN x1 /\ (x1[2].published # 0 => x1'[2].published = x1[2].published)
  PROVE  MoveInv'
<1>1. MoveFirstOver(x7.entries) => MoveWindowOver(x1', x10)
  BY DEF MoveInv, MoveWindowOver
<1> QED
  BY <1>1 DEF MoveInv

LEMMA MoveListEdits ==
  ASSUME MoveInv, Manifests!AddRelease \/ Manifests!EditEntry \/ Manifests!Rescue \/ Manifests!DropRelease
  PROVE  MoveInv'
<1>1. PICK f : Manifests!Edit(f)
  <2>1. CASE Manifests!AddRelease
    BY <2>1 DEF Manifests!AddRelease
  <2>2. CASE Manifests!EditEntry
    BY <2>2 DEF Manifests!EditEntry
  <2>3. CASE Manifests!Rescue
    BY <2>3 DEF Manifests!Rescue
  <2>4. CASE Manifests!DropRelease
    BY <2>4 DEF Manifests!DropRelease
  <2> QED
    BY <2>1, <2>2, <2>3, <2>4
<1>2. x5.at = "idle" /\ UNCHANGED <<x2, x3, x4, x5, x6, x7, x8, x10>> /\ x1' = f
  BY <1>1 DEF Manifests!Edit
<1>3. MoveListFits(x1, x3) /\ DOMAIN x3 \subseteq 1..MoveReleases /\ x10 \in 0..MoveTime /\ Manifests!IsList(x1)
      /\ DOMAIN x1 \subseteq 1..MoveReleases /\ \A n \in DOMAIN x1 : x1[n] \in Manifests!Entry
  BY DEF MoveInv, MoveListFits, Manifests!IsList
<1>4. CASE Manifests!AddRelease
  <2>1. PICK n \in 1..MoveReleases \ DOMAIN x1, A \in SUBSET DOMAIN x1 :
          /\ \A m \in DOMAIN x1 \cup DOMAIN x3 : m < n
          /\ Manifests!Edit([m \in DOMAIN x1 \cup {n} |->
               IF m = n THEN [status |-> "candidate", sealed |-> FALSE, admits |-> A, published |-> 0,
                              ends |-> 0, rescue |-> FALSE] ELSE x1[m]])
    BY <1>4 DEF Manifests!AddRelease, Manifests!Listed
  <2> DEFINE v == [status |-> "candidate", sealed |-> FALSE, admits |-> A, published |-> 0, ends |-> 0, rescue |-> FALSE]
  <2>2. x1' = [m \in DOMAIN x1 \cup {n} |-> IF m = n THEN v ELSE x1[m]] /\ Manifests!ValidFile(x1', x10)
    BY <2>1 DEF Manifests!Edit
  <2>3. v \in Manifests!Entry /\ ~v.sealed /\ v.admits = A /\ v.published = 0 /\ v.status # "removed"
    BY <1>3, <2>1, MoveNumbers DEF Manifests!Entry, Manifests!Statuses
  <2> HIDE DEF v
  <2>4. DOMAIN x1' = DOMAIN x1 \cup {n} /\ x1'[n] = v /\ \A m \in DOMAIN x1 : x1'[m] = x1[m] /\ m # n
    BY <2>1, <2>2
  <2>5. n \in Nat /\ n \notin DOMAIN x3 /\ \A m \in DOMAIN x1 : m \in Nat /\ m < n /\ ~(n < m)
    <3>1. n \in Nat /\ ~(n < n) /\ \A m \in DOMAIN x1 : m \in Nat
      BY <1>3, <2>1, MoveNumbers
    <3> QED
      BY <2>1, <3>1
  <2>6. \A m \in DOMAIN x1 : x1'[m].status # "removed" => m \in v.admits
    <3>1. Manifests!ValidEntry(x1', n, x10)
      BY <2>2, <2>4 DEF Manifests!ValidFile
    <3>2. Manifests!Due(x1', n, x10) \subseteq v.admits
      BY <2>3, <2>4, <3>1 DEF Manifests!ValidEntry
    <3> QED
      BY <2>4, <2>5, <3>2 DEF Manifests!Due
  <2>7. Manifests!IsList(x1')
    BY <1>3, <2>1, <2>3, <2>4 DEF Manifests!IsList
  <2>8. MoveListFits(x1', x3)
    <3>1. ASSUME NEW k \in DOMAIN x1', NEW m \in DOMAIN x1', m < k, x1'[m].status # "removed" PROVE m \in x1'[k].admits
      <4>1. CASE k = n
        <5>1. m \in DOMAIN x1
          BY <2>4, <2>5, <3>1, <4>1
        <5> QED
          BY <2>4, <2>6, <3>1, <4>1, <5>1
      <4>2. CASE k # n
        <5>1. k \in DOMAIN x1 /\ m \in DOMAIN x1
          BY <2>4, <2>5, <3>1, <4>2
        <5> QED
          BY <1>3, <2>4, <3>1, <5>1 DEF MoveListFits
      <4> QED
        BY <4>1, <4>2
    <3> QED
      BY <1>3, <2>3, <2>4, <2>5, <2>7, <3>1 DEF MoveListFits
  <2>9. 2 \in DOMAIN x1' /\ 2 \in DOMAIN x3 => 2 \in DOMAIN x1 /\ x1'[2].published = x1[2].published
    BY <2>4, <2>5
  <2> QED
    BY <1>2, <2>8, <2>9, MoveEdited
<1>5. CASE Manifests!EditEntry
  <2>1. PICK n \in DOMAIN x1, s \in Manifests!Statuses \ {"candidate"}, t \in {0} \cup x10..MoveTime,
             p \in {x10} \cup {x1[k].published : k \in DOMAIN x1} :
          /\ p \in {x10, x1[n].published} /\ x1[n].sealed /\ Manifests!Rank(x1[n].status) <= Manifests!Rank(s)
          /\ x1[n].published # 0 => p = x1[n].published
          /\ Manifests!Edit([x1 EXCEPT ![n] = [x1[n] EXCEPT !.status = s, !.ends = t, !.rescue = FALSE, !.published = p]])
    BY <1>5 DEF Manifests!EditEntry, Manifests!Listed
  <2> DEFINE v == [x1[n] EXCEPT !.status = s, !.ends = t, !.rescue = FALSE, !.published = p]
  <2>2. x1' = [x1 EXCEPT ![n] = v]
    BY <2>1 DEF Manifests!Edit
  <2>3. x1[n] \in Manifests!Entry /\ p \in 0..MoveTime /\ t \in 0..MoveTime
    <3>1. x1[n] \in Manifests!Entry /\ x1[n].published \in 0..MoveTime
      BY <1>3, MoveEntries
    <3>2. t \in 0..MoveTime
      BY <1>3, <2>1, MoveNumbers
    <3> QED
      BY <1>3, <2>1, <3>1, <3>2
  <2>4. v \in Manifests!Entry /\ v.status = s /\ v.admits = x1[n].admits /\ v.published = p /\ v.sealed = x1[n].sealed
    BY <2>1, <2>3, MoveNumbers DEF Manifests!Entry
  <2> HIDE DEF v
  <2>5. DOMAIN x1' = DOMAIN x1 /\ x1'[n] = v /\ \A m \in DOMAIN x1 \ {n} : x1'[m] = x1[m]
    BY <2>2
  <2>6. n \in DOMAIN x3 /\ (x1[n].status = "removed" => s = "removed")
    BY <1>3, <2>1, MoveRanks DEF MoveListFits
  <2>7. \A m \in DOMAIN x1 : /\ x1'[m] \in Manifests!Entry /\ x1'[m].admits = x1[m].admits
                             /\ x1'[m].status # "removed" => x1[m].status # "removed"
                             /\ m \in DOMAIN x3 /\ x1[m].sealed => x1'[m].sealed
                             /\ m \notin DOMAIN x3 => x1'[m] = x1[m]
                             /\ x1[m].published # 0 => x1'[m].published = x1[m].published
    BY <1>3, <2>1, <2>4, <2>5, <2>6
  <2>8. MoveListFits(x1', x3)
    BY <1>3, <2>5, <2>7 DEF MoveListFits, Manifests!IsList
  <2> QED
    BY <1>2, <2>5, <2>7, <2>8, MoveEdited
<1>6. CASE Manifests!Rescue
  <2>1. PICK n \in DOMAIN x1 : Manifests!Edit([x1 EXCEPT ![n].rescue = ~@])
    BY <1>6 DEF Manifests!Rescue, Manifests!Listed
  <2> DEFINE v == [x1[n] EXCEPT !.rescue = ~x1[n].rescue]
  <2>2. x1' = [x1 EXCEPT ![n] = v] /\ x1[n] \in Manifests!Entry
    BY <1>3, <2>1 DEF Manifests!Edit
  <2>3. v \in Manifests!Entry /\ v.status = x1[n].status /\ v.admits = x1[n].admits /\ v.published = x1[n].published
        /\ v.sealed = x1[n].sealed
    BY <2>2 DEF Manifests!Entry
  <2> HIDE DEF v
  <2>4. DOMAIN x1' = DOMAIN x1
        /\ \A m \in DOMAIN x1 : /\ x1'[m] \in Manifests!Entry /\ x1'[m].admits = x1[m].admits
                                /\ x1'[m].status = x1[m].status /\ x1'[m].sealed = x1[m].sealed
                                /\ x1'[m].published = x1[m].published
    BY <1>3, <2>2, <2>3
  <2>5. MoveListFits(x1', x3)
    BY <1>3, <2>4 DEF MoveListFits, Manifests!IsList
  <2> QED
    BY <1>2, <2>4, <2>5, MoveEdited
<1>7. CASE Manifests!DropRelease
  <2>1. PICK n \in DOMAIN x1 : Manifests!Edit([m \in DOMAIN x1 \ {n} |-> x1[m]])
    BY <1>7 DEF Manifests!DropRelease, Manifests!Listed
  <2>2. x1' = [m \in DOMAIN x1 \ {n} |-> x1[m]]
    BY <2>1 DEF Manifests!Edit
  <2>3. DOMAIN x1' = DOMAIN x1 \ {n} /\ \A m \in DOMAIN x1' : x1'[m] = x1[m] /\ m \in DOMAIN x1
    BY <2>2
  <2>4. MoveListFits(x1', x3)
    BY <1>3, <2>3 DEF MoveListFits, Manifests!IsList
  <2> QED
    BY <1>2, <2>3, <2>4, MoveEdited
<1> QED
  BY <1>4, <1>5, <1>6, <1>7

LEMMA MoveKeys ==
  ASSUME MoveInv, Manifests!CreateKey
  PROVE  MoveInv'
<1>1. PICK n \in DOMAIN x1 \ DOMAIN x3 :
        /\ x5.at = "idle" /\ x3' = [m \in DOMAIN x3 \cup {n} |-> IF m = n THEN x1[n].admits ELSE x3[m]]
        /\ x1' = [x1 EXCEPT ![n].sealed = TRUE] /\ UNCHANGED <<x2, x4, x5, x6, x7, x8, x10>>
  BY DEF Manifests!CreateKey, Manifests!Listed
<1>2. DOMAIN x3' = DOMAIN x3 \cup {n} /\ x3'[n] = x1[n].admits /\ \A m \in DOMAIN x3 : x3'[m] = x3[m] /\ m # n
  BY <1>1
<1>3. MoveListFits(x1, x3) /\ DOMAIN x1 \subseteq 1..MoveReleases /\ \A m \in DOMAIN x1 : x1[m] \in Manifests!Entry
  BY DEF MoveInv, MoveListFits, Manifests!IsList
<1> DEFINE v == [x1[n] EXCEPT !.sealed = TRUE]
<1>4. x1' = [x1 EXCEPT ![n] = v] /\ x1[n] \in Manifests!Entry
  BY <1>1, <1>3
<1>5. v \in Manifests!Entry /\ v.status = x1[n].status /\ v.admits = x1[n].admits /\ v.published = x1[n].published
      /\ v.sealed
  BY <1>4 DEF Manifests!Entry
<1> HIDE DEF v
<1>6. DOMAIN x1' = DOMAIN x1
      /\ \A m \in DOMAIN x1 : /\ x1'[m] \in Manifests!Entry /\ x1'[m].admits = x1[m].admits
                              /\ x1'[m].status = x1[m].status /\ x1'[m].published = x1[m].published
                              /\ m # n => x1'[m] = x1[m]
                              /\ m = n => x1'[m].sealed
  BY <1>1, <1>3, <1>4, <1>5
<1>7. MoveListFits(x1', x3')
  BY <1>2, <1>3, <1>6 DEF MoveListFits, Manifests!IsList
<1>8. x10 \in Nat /\ x10 <= x10
  BY MoveNumbers DEF MoveInv
<1>9. \A d : MoveDocFits(d, x3, x10) => MoveDocFits(d, x3', x10)
  BY <1>2, <1>8, MoveStaysFit
<1>10. MoveFirstOver(x7.entries) => MoveWindowOver(x1', x10)
  BY <1>6 DEF MoveInv, MoveWindowOver
<1> QED
  BY <1>1, <1>2, <1>3, <1>7, <1>9, <1>10 DEF MoveInv

\* A document made from the list of its moment.
LEMMA MoveSigns ==
  ASSUME MoveInv, Manifests!StartSign
  PROVE  MoveInv'
<1> DEFINE m == Manifests!Entries(x1)
<1>1. /\ Manifests!MaySign(x1) /\ x2' = Manifests!NextSerial /\ x5'.at = "raised"
      /\ x5'.doc.serial = Manifests!NextSerial /\ x5'.doc.issued = x10 /\ x5'.doc.entries = m
      /\ UNCHANGED <<x1, x3, x4, x6, x7, x8, x10>>
  BY DEF Manifests!StartSign, Manifests!Raise
<1>2. /\ MoveListFits(x1, x3) /\ Manifests!IsList(x1) /\ x2 \in Nat /\ x10 \in Nat /\ x7 \in x4
      /\ \A d \in x4 : d.serial \in Nat /\ d.serial <= x2
  BY MoveNumbers DEF MoveInv, MoveListFits, MoveDocFits
<1>3. Manifests!NextSerial = x2 + 1
  <2>1. x7.serial \in Nat /\ x7.serial <= x2
    BY <1>2
  <2> QED
    BY <1>2, <2>1 DEF Manifests!NextSerial
<1>4. DOMAIN m = {n \in DOMAIN x1 : x1[n].status # "candidate"} /\ \A n \in DOMAIN m : m[n] = x1[n]
  BY DEF Manifests!Entries, Manifests!InManifest
<1>5. /\ Manifests!ValidFile(x1, x10) /\ Manifests!Consistent(m, x10) /\ Manifests!RescueTargets(x1, x10)
  BY <1>1 DEF Manifests!MaySign
<1> HIDE DEF m
<1>6. Manifests!IsList(m)
  BY <1>2, <1>4 DEF Manifests!IsList
<1>7. ASSUME NEW n \in DOMAIN m PROVE n \in DOMAIN x3 /\ x3[n] = m[n].admits
  <2>1. Manifests!ValidEntry(x1, n, x10)
    BY <1>4, <1>5 DEF Manifests!ValidFile
  <2>2. x1[n].sealed
    BY <1>4, <2>1 DEF Manifests!ValidEntry
  <2> QED
    BY <1>2, <1>4, <2>2 DEF MoveListFits
<1>8. Manifests!Actives(m) = Manifests!Actives(x1) /\ MoveLast(m) = MoveLast(x1)
  <2>1. Manifests!Actives(m) = Manifests!Actives(x1)
    BY <1>4 DEF Manifests!Actives
  <2> QED
    BY <2>1 DEF MoveLast
<1>9. ASSUME Manifests!Actives(m) # {}, NEW n \in DOMAIN m,
             \/ m[n].status \in {"deprecated", "retired"}
             \/ n < MoveLast(m) /\ Manifests!Rescuable(m[n], x10)
      PROVE  n \in m[MoveLast(m)].admits
  <2>1. MoveLast(m) \in DOMAIN m
    BY <1>6, <1>9, MoveNewest
  <2>2. CASE m[n].status \in {"deprecated", "retired"}
    <3>1. n < MoveLast(m)
      BY <1>5, <2>2 DEF Manifests!Consistent, MoveLast
    <3> QED
      BY <1>2, <1>4, <2>1, <2>2, <3>1 DEF MoveListFits
  <2>3. CASE n < MoveLast(m) /\ Manifests!Rescuable(m[n], x10)
    <3>1. Manifests!Admitted(x1, n)
      BY <1>4, <1>5, <1>8, <1>9, <2>3 DEF Manifests!RescueTargets, MoveLast
    <3> QED
      BY <1>4, <1>8, <2>1, <3>1 DEF Manifests!Admitted, MoveLast
  <2> QED
    BY <1>9, <2>2, <2>3
<1>10. MoveDocFits(x5'.doc, x3, x10)
  <2>1. x2 + 1 \in Nat /\ x10 <= x10
    BY <1>2
  <2> QED
    BY <1>1, <1>2, <1>3, <1>6, <1>7, <1>9, <2>1 DEF MoveDocFits
<1>11. \A d \in x4 : d.serial <= x2 + 1 /\ d.serial < x2 + 1
  BY <1>2
<1>12. x2' \in Nat /\ x5'.doc.serial <= x2'
  BY <1>1, <1>2, <1>3
<1> QED
  BY <1>1, <1>3, <1>10, <1>11, <1>12 DEF MoveInv

\* What the checks let through is from the list, and the first release not gone too early.
LEMMA MoveChecks ==
  ASSUME MoveInv, NEW d \in x4, Manifests!MayPublish(d)
  PROVE  MoveChecked(d, x1, x7, x10)
<1>1. /\ d.entries = Manifests!Entries(x1) /\ Manifests!WindowKept(x1) /\ Manifests!Forward(d.entries)
      /\ Manifests!RescueTargets(x1, d.issued) /\ Manifests!EndsKept(d)
  BY DEF Manifests!MayPublish, Manifests!ValidFile
<1>2. d.issued \in Nat /\ d.issued <= x10 /\ x10 \in Nat /\ \A n \in DOMAIN x1 : x1[n].ends \in Nat
  BY MoveEntries, MoveNumbers DEF MoveInv, MoveDocFits, MoveListFits, Manifests!IsList
<1>3. 1 \in DOMAIN x1 /\ x1[1].status = "removed" => x1[1].ends # 0 /\ x1[1].ends <= x10
  <2> SUFFICES ASSUME 1 \in DOMAIN x1, x1[1].status = "removed" PROVE x1[1].ends # 0 /\ x1[1].ends <= x10
    OBVIOUS
  <2>1. x1[1].ends <= d.issued
    BY <1>1 DEF Manifests!RescueTargets
  <2>2. 1 \in DOMAIN d.entries /\ d.entries[1] = x1[1]
    BY <1>1 DEF Manifests!Entries, Manifests!InManifest
  <2>3. x1[1].ends # 0
    BY <1>1, <2>2 DEF Manifests!EndsKept, MoveInv
  <2> QED
    BY <1>2, <2>1, <2>3
<1>4. 1 \notin DOMAIN d.entries => MoveFirstOver(x7.entries)
  BY <1>1 DEF Manifests!Forward, MoveFirstOver
<1> QED
  BY <1>1, <1>3, <1>4 DEF MoveChecked

\* The new served document, when it is put there.
LEMMA MoveServes ==
  ASSUME MoveInv, Manifests!Serve
  PROVE  MoveInv'
<1> DEFINE d == x5.doc
           m == d.entries
<1>1. x5.at = "uploaded" /\ x7' = d /\ x5'.at = "idle" /\ UNCHANGED <<x1, x2, x3, x4, x6, x10>> /\ x8 \subseteq x8'
  BY DEF Manifests!Serve, Manifests!Servable, Manifests!NoJob
<1>2. /\ d \in x4 /\ MoveChecked(d, x1, x7, x10) /\ d.serial \in x6 /\ MoveListFits(x1, x3) /\ 1 \in x8
      /\ x10 \in Nat /\ \A n \in DOMAIN x1 : x1[n].ends \in Nat /\ x1[n].published \in Nat
      /\ MoveFirstOver(x7.entries) => 2 \in DOMAIN x3 /\ MoveWindowOver(x1, x10)
  BY <1>1, MoveEntries, MoveNumbers DEF MoveInv, MoveListFits, Manifests!IsList
<1>3. DOMAIN m = {n \in DOMAIN x1 : x1[n].status # "candidate"} /\ \A n \in DOMAIN m : m[n] = x1[n]
  BY <1>2 DEF MoveChecked, Manifests!Entries, Manifests!InManifest
<1>4. ASSUME MoveFirstOver(m)
      PROVE  2 \in DOMAIN x3 /\ MoveWindowOver(x1, x10)
  <2>1. CASE 1 \notin DOMAIN m
    BY <1>2, <2>1 DEF MoveChecked
  <2>2. CASE 1 \in DOMAIN m
    <3>1. 1 \in DOMAIN x1 /\ x1[1].status = "removed"
      BY <1>3, <1>4, <2>2 DEF MoveFirstOver
    <3>2. x1[1].ends # 0 /\ x1[1].ends <= x10 /\ Manifests!WindowKept(x1)
      BY <1>2, <3>1 DEF MoveChecked
    <3>3. 2 \in DOMAIN x1 /\ x1[2].published # 0 /\ x1[1].ends >= x1[2].published + MoveWindow
      BY <3>1, <3>2 DEF Manifests!WindowKept
    <3>4. x10 >= x1[2].published + MoveWindow
      <4>1. x1[1].ends \in Nat /\ x1[2].published \in Nat
        BY <1>2, <3>1, <3>3
      <4> QED
        BY <1>2, <3>2, <3>3, <4>1, MoveNumbers
    <3>5. 2 \in DOMAIN x3
      BY <1>2, <3>3 DEF MoveListFits
    <3> QED
      BY <3>3, <3>4, <3>5 DEF MoveWindowOver
  <2> QED
    BY <2>1, <2>2
<1>5. MoveFirstOver(m) => MoveWindowOver(m, x10)
  BY <1>3, <1>4 DEF MoveWindowOver
<1> QED
  BY <1>1, <1>2, <1>4, <1>5 DEF MoveInv

LEMMA MoveOthers ==
  ASSUME MoveInv, Manifests!Sign \/ Manifests!StartPublish \/ Manifests!Upload \/ Manifests!Stop \/ Manifests!Tick
                    \/ UNCHANGED Manifests!vars
  PROVE  MoveInv'
<1>1. CASE Manifests!Sign
  <2>1. x5.at = "raised" /\ x4' = x4 \cup {x5.doc} /\ x5'.at = "idle" /\ UNCHANGED <<x1, x2, x3, x6, x7, x8, x10>>
    BY <1>1 DEF Manifests!Sign, Manifests!NoJob
  <2>2. \A e \in x4 : e.serial < x5.doc.serial /\ e.serial \in Nat /\ x5.doc.serial \in Nat
    BY <2>1 DEF MoveInv, MoveDocFits
  <2>3. \A e \in x4 : e.serial # x5.doc.serial
    BY <2>2
  <2>4. \A d, e \in x4' : d.serial = e.serial => d = e
    BY <2>1, <2>3 DEF MoveInv
  <2> QED
    BY <2>1, <2>4 DEF MoveInv
<1>2. CASE Manifests!StartPublish
  <2>1. PICK d \in x4 : Manifests!MayPublish(d) /\ x5' = [at |-> "checked", doc |-> d]
    BY <1>2 DEF Manifests!StartPublish
  <2>2. UNCHANGED <<x1, x2, x3, x4, x6, x7, x8, x10>> /\ x5'.at = "checked" /\ x5'.doc = d
    BY <1>2, <2>1 DEF Manifests!StartPublish
  <2>3. MoveChecked(d, x1, x7, x10)
    BY <2>1, MoveChecks
  <2> QED
    BY <2>2, <2>3 DEF MoveInv
<1>3. CASE Manifests!Upload
  <2>1. x6 \subseteq x6' /\ UNCHANGED <<x1, x2, x3, x4, x7, x8, x10>>
    BY <1>3 DEF Manifests!Upload
  <2>2. CASE x5' = x5 /\ x5.at = "idle"
    BY <2>1, <2>2 DEF MoveInv
  <2>3. CASE x5.at = "checked" /\ x5' = [x5 EXCEPT !.at = "uploaded"] /\ x6' = x6 \cup {x5.doc.serial}
    <3>1. CASE x5'.at = "uploaded" /\ x5'.doc = x5.doc
      BY <2>1, <2>3, <3>1 DEF MoveInv
    <3> QED
      BY <2>3, <3>1
  <2> QED
    BY <1>3, <2>2, <2>3 DEF Manifests!Upload
<1>4. CASE Manifests!Stop
  <2>1. x5'.at = "idle" /\ UNCHANGED <<x1, x2, x3, x4, x6, x7, x8, x10>>
    BY <1>4 DEF Manifests!Stop, Manifests!NoJob
  <2> QED
    BY <2>1 DEF MoveInv
<1>5. CASE Manifests!Tick
  <2>1. x5.at = "idle" /\ x10 < MoveTime /\ x10' = x10 + 1 /\ UNCHANGED <<x1, x2, x3, x4, x5, x6, x7, x8>>
    BY <1>5 DEF Manifests!Tick
  <2>2. x10 \in Nat /\ x10' \in Nat /\ x10 <= x10' /\ x10' \in 0..MoveTime
    BY <2>1, MoveNumbers DEF MoveInv
  <2>3. \A d : MoveDocFits(d, x3, x10) => MoveDocFits(d, x3, x10')
    BY <2>2, MoveStaysFit
  <2>4. \A f : Manifests!IsList(f) /\ MoveWindowOver(f, x10) => MoveWindowOver(f, x10')
    <3> SUFFICES ASSUME NEW f, Manifests!IsList(f), MoveWindowOver(f, x10) PROVE MoveWindowOver(f, x10')
      OBVIOUS
    <3>1. 2 \in DOMAIN f => f[2].published \in Nat
      BY MoveEntries DEF Manifests!IsList
    <3> QED
      BY <2>2, <3>1, MoveNumbers DEF MoveWindowOver
  <2>5. Manifests!IsList(x1) /\ Manifests!IsList(x7.entries)
    BY DEF MoveInv, MoveListFits, MoveDocFits
  <2> QED
    BY <2>1, <2>2, <2>3, <2>4, <2>5 DEF MoveInv
<1>6. CASE UNCHANGED Manifests!vars
  BY <1>6 DEF MoveInv, Manifests!vars
<1> QED
  BY <1>1, <1>2, <1>3, <1>4, <1>5, <1>6

LEMMA MoveStep == MoveInv /\ [Manifests!Next]_(Manifests!vars) => MoveInv'
BY MoveListEdits, MoveKeys, MoveSigns, MoveServes, MoveOthers DEF Manifests!Next

LEMMA MoveSafe == MoveInv => /\ Manifests!RescueHasTarget /\ Manifests!EveryoneCanMove
                             /\ Manifests!FirstReleaseKept /\ Manifests!SignedOnce
<1> SUFFICES ASSUME MoveInv PROVE /\ Manifests!RescueHasTarget /\ Manifests!EveryoneCanMove
                                  /\ Manifests!FirstReleaseKept /\ Manifests!SignedOnce
  OBVIOUS
<1> DEFINE m == x7.entries
<1>1. /\ MoveDocFits(x7, x3, x10) /\ Manifests!IsList(m) /\ x10 \in Nat /\ x7.issued \in Nat /\ x7.issued <= x10
      /\ \A n \in DOMAIN m : m[n] \in Manifests!Entry /\ m[n].published \in Nat
  BY MoveEntries, MoveNumbers DEF MoveInv, MoveDocFits, Manifests!IsList
<1>2. ASSUME Manifests!Actives(m) # {}, NEW n \in DOMAIN m,
             \/ m[n].status \in {"deprecated", "retired"}
             \/ n < MoveLast(m) /\ Manifests!Rescuable(m[n], x10)
      PROVE  n \in x3[MoveLast(m)]
  <2>1. MoveLast(m) \in DOMAIN m
    BY <1>1, <1>2, MoveNewest
  <2>2. x3[MoveLast(m)] = m[MoveLast(m)].admits
    BY <1>1, <2>1 DEF MoveDocFits
  <2>3. \/ m[n].status \in {"deprecated", "retired"}
        \/ n < MoveLast(m) /\ Manifests!Rescuable(m[n], x7.issued)
    BY <1>1, <1>2, MoveRescuable
  <2> QED
    BY <1>1, <1>2, <2>2, <2>3 DEF MoveDocFits
<1>3. Manifests!RescueHasTarget
  BY <1>2 DEF Manifests!RescueHasTarget, MoveLast
<1>4. Manifests!EveryoneCanMove
  BY <1>2 DEF Manifests!EveryoneCanMove, MoveLast
<1>5. Manifests!FirstReleaseKept
  <2>1. ASSUME 2 \in DOMAIN m, x10 < m[2].published + MoveWindow PROVE ~MoveFirstOver(m)
    <3>1. m[2].published \in Nat
      BY <1>1, <2>1
    <3>2. ~MoveWindowOver(m, x10)
      BY <1>1, <2>1, <3>1, MoveNumbers DEF MoveWindowOver
    <3> QED
      BY <3>2 DEF MoveInv
  <2> QED
    BY <2>1 DEF Manifests!FirstReleaseKept, MoveFirstOver
<1>6. Manifests!SignedOnce
  BY DEF MoveInv, Manifests!SignedOnce
<1> QED
  BY <1>3, <1>4, <1>5, <1>6

--------------------------------------------------------------------------------
(* A member's trial (Subscription: usedTrial is x1, sub x2, call x3, day   *)
(* x4, trials x5).  It is marked used before it is put, so at most one     *)
(* call can be between the mark and the put, and none once it is put.      *)
CONSTANTS MaxDay, Trial, Extra                                 \* days of a subscription's life; a trial's, an extension's

ASSUME TrialsAssumption == MaxDay \in Nat /\ Trial \in Nat /\ Extra \in Nat

Trials == INSTANCE Subscription WITH
               Calls <- Two, MaxDay <- MaxDay, Trial <- Trial, Extra <- Extra,
               usedTrial <- x1, sub <- x2, call <- x3, day <- x4, trials <- x5

TrialCalls == [op : {"idle", "start", "cancel", "extend", "expire"},
               at : {"idle", "mark", "put", "expire"}, sub : Trials!Subs, used : BOOLEAN]

Starting(c) == x3[c].op = "start" /\ x3[c].at = "put"

TrialInv ==
  /\ x1 \in BOOLEAN /\ x2 \in Trials!Subs /\ x3 \in [Two -> TrialCalls] /\ x5 \in 0..1
  /\ \A c \in Two : /\ x3[c].at = "put" => x3[c].op \in {"start", "cancel", "extend"}
                    /\ x3[c].at = "mark" => x3[c].op = "start"
  /\ \A c, d \in Two : Starting(c) /\ Starting(d) => c = d
  /\ x5 = 1 => \A c \in Two : ~Starting(c)
  /\ ~x1 => x5 = 0 /\ \A c \in Two : ~Starting(c)

LEMMA TrialInit == Trials!Init => TrialInv
<1> SUFFICES ASSUME Trials!Init PROVE TrialInv
  OBVIOUS
<1>1. Trials!NoSub \in Trials!Subs
  BY TrialsAssumption DEF Trials!NoSub, Trials!Subs, Trials!Ends
<1>2. Trials!Idle \in TrialCalls /\ Trials!Idle.at = "idle"
  BY <1>1 DEF Trials!Idle, TrialCalls
<1>3. x1 = FALSE /\ x2 = Trials!NoSub /\ x3 = [c \in Two |-> Trials!Idle] /\ x5 = 0
  BY DEF Trials!Init
<1>4. x3 \in [Two -> TrialCalls] /\ \A c \in Two : x3[c].at = "idle"
  BY <1>2, <1>3
<1>5. x1 \in BOOLEAN /\ ~x1
  BY <1>3
<1>6. \A c \in Two : ~Starting(c)
  BY <1>4 DEF Starting
<1>7. x2 \in Trials!Subs /\ x5 = 0
  BY <1>1, <1>3
<1> QED
  BY <1>4, <1>5, <1>6, <1>7 DEF TrialInv

\* A call's state is replaced by one that starts no trial.
LEMMA NoStart ==
  ASSUME TrialInv, NEW c \in Two, NEW r \in TrialCalls, x3' = [x3 EXCEPT ![c] = r],
         r.at = "put" => r.op \in {"cancel", "extend"}, r.at = "mark" => r.op = "start",
         x1' = x1, x2' \in Trials!Subs, x5' = x5
  PROVE  TrialInv'
<1>1. x3' \in [Two -> TrialCalls] /\ x3'[c] = r /\ \A d \in Two \ {c} : x3'[d] = x3[d]
  BY DEF TrialInv
<1>2. \A d \in Two : Starting(d)' => d # c /\ Starting(d)
  BY <1>1 DEF Starting
<1> QED
  BY <1>1, <1>2 DEF TrialInv

LEMMA IdleCall == Trials!Idle \in TrialCalls /\ Trials!Idle.at = "idle"
<1>1. Trials!NoSub \in Trials!Subs
  BY TrialsAssumption DEF Trials!NoSub, Trials!Subs, Trials!Ends
<1> QED
  BY <1>1 DEF Trials!Idle, TrialCalls

LEMMA TrialReads ==
  ASSUME TrialInv, NEW c \in Two, Trials!Read(c)
  PROVE  TrialInv'
<1>1. PICK op \in {"start", "cancel", "extend", "expire"} :
        x3' = [x3 EXCEPT ![c] = [op |-> op, sub |-> x2, used |-> x1,
                at |-> IF op = "start" THEN "mark" ELSE IF op = "expire" THEN "expire" ELSE "put"]]
  BY DEF Trials!Read
<1> DEFINE r == [op |-> op, sub |-> x2, used |-> x1,
                 at |-> IF op = "start" THEN "mark" ELSE IF op = "expire" THEN "expire" ELSE "put"]
<1>2. r \in TrialCalls /\ (r.at = "put" => r.op \in {"cancel", "extend"})
      /\ (r.at = "mark" => r.op = "start")
  BY <1>1 DEF TrialInv, TrialCalls
<1>3. x3' = [x3 EXCEPT ![c] = r]
  BY <1>1
<1>4. x1' = x1 /\ x2' \in Trials!Subs /\ x5' = x5
  BY DEF Trials!Read, TrialInv
<1> HIDE DEF r
<1> QED
  BY <1>2, <1>3, <1>4, NoStart

LEMMA TrialMarks ==
  ASSUME TrialInv, NEW c \in Two, Trials!MarkUsed(c)
  PROVE  TrialInv'
<1>1. UNCHANGED <<x2, x5>> /\ x3[c].at = "mark"
  BY DEF Trials!MarkUsed
<1>2. CASE x1
  BY <1>1, <1>2, IdleCall, NoStart DEF Trials!MarkUsed, Trials!Unused, TrialInv
<1>3. CASE ~x1
  <2> DEFINE r == [x3[c] EXCEPT !.at = "put"]
  <2>1. r \in TrialCalls /\ r.at = "put" /\ r.op = x3[c].op
    BY DEF TrialInv, TrialCalls
  <2>2. x3' = [x3 EXCEPT ![c] = r] /\ x1'
    BY <1>3 DEF Trials!MarkUsed, Trials!Unused, TrialInv
  <2> HIDE DEF r
  <2>3. x3' \in [Two -> TrialCalls] /\ x3'[c] = r /\ \A d \in Two \ {c} : x3'[d] = x3[d]
    BY <2>1, <2>2 DEF TrialInv
  <2>4. \A d \in Two : Starting(d)' => d = c
    BY <1>3, <2>3 DEF TrialInv, Starting
  <2> QED
    BY <1>1, <1>3, <2>1, <2>2, <2>3, <2>4 DEF TrialInv
<1> QED
  BY <1>2, <1>3

LEMMA TrialPuts ==
  ASSUME TrialInv, NEW c \in Two, Trials!Put(c)
  PROVE  TrialInv'
<1>1. /\ x3[c].at = "put" /\ x3[c].op \in {"start", "cancel", "extend"}
      /\ x3' = [x3 EXCEPT ![c] = Trials!Idle] /\ UNCHANGED <<x1, x4>> /\ x2'.ends \in Trials!Ends
  BY DEF Trials!Put, TrialInv
<1>2. x2' \in Trials!Subs
  <2>1. x3[c].sub \in Trials!Subs
    BY DEF TrialInv, TrialCalls
  <2>2. CASE x3[c].op = "start"
    BY <1>1, <2>2 DEF Trials!Put, Trials!Subs
  <2>3. CASE x3[c].op = "cancel"
    BY <1>1, <2>1, <2>3 DEF Trials!Put, Trials!Subs
  <2>4. CASE x3[c].op = "extend"
    BY <1>1, <2>4 DEF Trials!Put, Trials!Subs
  <2> QED
    BY <1>1, <2>2, <2>3, <2>4
<1>3. CASE x3[c].op # "start"
  <2>1. x5' = x5
    BY <1>3 DEF Trials!Put
  <2> QED
    BY <1>1, <1>2, <2>1, IdleCall, NoStart
<1>4. CASE x3[c].op = "start"
  <2>1. x5' = x5 + 1 /\ x5 = 0
    BY <1>1, <1>4 DEF Trials!Put, TrialInv, Starting
  <2>2. x3' \in [Two -> TrialCalls] /\ x3'[c] = Trials!Idle /\ \A d \in Two \ {c} : x3'[d] = x3[d]
    BY <1>1, IdleCall DEF TrialInv
  <2>3. \A d \in Two : ~Starting(d)'
    BY <1>1, <1>4, <2>2, IdleCall DEF TrialInv, Starting
  <2>4. x1 /\ Trials!Idle.at # "put"
    BY <1>1, <1>4, IdleCall DEF TrialInv, Starting
  <2>5. x1' \in BOOLEAN /\ x1'
    BY <1>1, <2>4 DEF TrialInv
  <2>6. \A d \in Two : /\ x3'[d].at = "put" => x3'[d].op \in {"start", "cancel", "extend"}
                       /\ x3'[d].at = "mark" => x3'[d].op = "start"
    BY <2>2, <2>4, IdleCall DEF TrialInv
  <2> QED
    BY <1>2, <2>1, <2>2, <2>3, <2>5, <2>6 DEF TrialInv
<1> QED
  BY <1>3, <1>4

LEMMA TrialStep == TrialInv /\ [Trials!Next]_Trials!vars => TrialInv'
<1> SUFFICES ASSUME TrialInv, [Trials!Next]_Trials!vars PROVE TrialInv'
  OBVIOUS
<1>1. ASSUME NEW c \in Two, Trials!Expire(c) PROVE TrialInv'
  <2>1. x2' \in Trials!Subs
    BY <1>1 DEF Trials!Expire, TrialInv, Trials!Subs
  <2> QED
    BY <1>1, <2>1, IdleCall, NoStart DEF Trials!Expire
<1>2. ASSUME NEW c \in Two, Trials!Dies(c) PROVE TrialInv'
  <2>1. x2' \in Trials!Subs
    BY <1>2 DEF Trials!Dies, TrialInv
  <2> QED
    BY <1>2, <2>1, IdleCall, NoStart DEF Trials!Dies
<1>3. CASE Trials!NextDay \/ UNCHANGED Trials!vars
  BY <1>3 DEF Trials!NextDay, Trials!vars, TrialInv, Starting
<1> QED
  BY <1>1, <1>2, <1>3, TrialReads, TrialMarks, TrialPuts DEF Trials!Next

LEMMA TrialSafe == TrialInv => Trials!OneTrial
BY DEF TrialInv, Trials!OneTrial

--------------------------------------------------------------------------------
(* And that a subscription is marked expired only after its end (day is    *)
(* x4): the write asks for a trial past its end again, no other write      *)
(* marks one so, and days only pass.                                       *)

TrialOver == x4 \in Nat /\ Trials!ExpiredWhenOver

LEMMA OverInit == Trials!Init => TrialOver
BY DEF Trials!Init, Trials!NoSub, TrialOver, Trials!ExpiredWhenOver

LEMMA OverStep == TrialInv /\ TrialOver /\ [Trials!Next]_(Trials!vars) => TrialOver'
<1> SUFFICES ASSUME TrialInv, TrialOver, [Trials!Next]_(Trials!vars) PROVE TrialOver'
  OBVIOUS
<1>1. x4 \in Nat /\ x2 \in Trials!Subs /\ (x2.status = "expired" => x2.ends < x4)
  BY DEF TrialInv, TrialOver, Trials!ExpiredWhenOver
<1>2. CASE Trials!NextDay
  <2>1. x4' = x4 + 1 /\ x2' = x2 /\ x2.ends \in Nat
    BY <1>1, <1>2, TrialsAssumption DEF Trials!NextDay, Trials!Subs, Trials!Ends
  <2>2. x4' \in Nat
    BY <1>1, <2>1
  <2>3. x2'.status = "expired" => x2'.ends < x4'
    BY <1>1, <2>1
  <2> QED
    BY <2>2, <2>3 DEF TrialOver, Trials!ExpiredWhenOver
<1>3. ASSUME NEW c \in Two, Trials!Put(c) PROVE TrialOver'
  <2>1. /\ x3[c].op \in {"start", "cancel", "extend"} /\ x3[c].sub \in Trials!Subs /\ x4' = x4
        /\ x2' = CASE x3[c].op = "start"  -> [status |-> "trial", ends |-> x4 + Trial]
                   [] x3[c].op = "cancel" -> [x3[c].sub EXCEPT !.status = "canceled"]
                   [] x3[c].op = "extend" -> [status |-> "trial", ends |-> Trials!LaterOf(x3[c].sub.ends, x4) + Extra]
    BY <1>3 DEF Trials!Put, TrialInv, TrialCalls
  <2>2. x2'.status \in {"trial", "canceled"}
    BY <2>1 DEF Trials!Subs
  <2> QED
    BY <1>1, <2>1, <2>2 DEF TrialOver, Trials!ExpiredWhenOver
<1>4. ASSUME NEW c \in Two, Trials!Expire(c) PROVE TrialOver'
  <2>1. x4' = x4 /\ x2' = (IF Trials!Past(x2) THEN [x2 EXCEPT !.status = "expired"] ELSE x2)
    BY <1>4 DEF Trials!Expire, Trials!StillPast
  <2>2. x2'.ends = x2.ends
    BY <1>1, <2>1 DEF Trials!Subs
  <2> QED
    BY <1>1, <2>1, <2>2 DEF TrialOver, Trials!ExpiredWhenOver, Trials!Past
<1>5. CASE UNCHANGED <<x2, x4>>
  BY <1>1, <1>5 DEF TrialOver, Trials!ExpiredWhenOver
<1> QED
  BY <1>2, <1>3, <1>4, <1>5 DEF Trials!Next, Trials!vars, Trials!Read, Trials!MarkUsed, Trials!Dies

LEMMA OverSafe == TrialOver => Trials!ExpiredWhenOver
BY DEF TrialOver

--------------------------------------------------------------------------------
(***************************************************************************)
(* The public release log, for any number of releases, manifests, edits    *)
(* and runs that stop (ReleaseLog: text is x1, served x2, index x3, page   *)
(* x4, front x5, bare x6, job x7, used x8, behind x9, cut x10).  What is   *)
(* served does not change under a run, so what a run is to write fits it   *)
(* as the index does: nothing of a release not yet served; of the same     *)
(* manifest the same status; and of a dropped release that it was removed, *)
(* unless one was dropped while the log lagged.                            *)
(***************************************************************************)
CONSTANTS LogLast, LogSerials, LogEdits, LogStops   \* the last release's number; serials, edits, runs that stop

ASSUME LogAssumption ==
  {LogLast, LogSerials, LogEdits, LogStops} \subseteq Nat

Log == INSTANCE ReleaseLog WITH
         Releases <- 1..LogLast, MaxSerial <- LogSerials, Edits <- LogEdits, Stops <- LogStops,
         text <- x1, served <- x2, index <- x3, page <- x4, front <- x5, bare <- x6, job <- x7,
         used <- x8, behind <- x9, cut <- x10

LogReleases == 1..LogLast
LogEntries  == {Log!None} \cup [status : {"active", "removed"}, text : Nat, listed : BOOLEAN]
LogIndexes  == [serial : Nat, rel : [LogReleases -> LogEntries]]
LogServed   == [serial : Nat, rel : [LogReleases -> {"candidate", "active", "removed", "dropped"}]]
LogJobs     == [on : BOOLEAN, want : LogIndexes, todo : SUBSET ({Log!Front, Log!IndexFile} \cup LogReleases),
                wrote : SUBSET ({Log!Front} \cup LogReleases)]

LogFits(ix, sv, late) ==
  /\ ix.serial <= sv.serial
  /\ \A n \in LogReleases :
       /\ sv.rel[n] = "candidate" => ix.rel[n] = Log!None
       /\ ix.serial = sv.serial /\ sv.rel[n] \in {"active", "removed"} => ix.rel[n].status = sv.rel[n]
       /\ ~late /\ sv.rel[n] = "dropped" => ix.rel[n].status = "removed"

\* A run writes no index that leaves out what the log has, and a page of what its index has.
LogRun(j, ix, sv, late) ==
  /\ LogFits(j.want, sv, late)
  /\ \A n \in LogReleases : /\ ix.rel[n] # Log!None => j.want.rel[n] # Log!None
                            /\ n \in j.todo => j.want.rel[n] # Log!None

LogInv ==
  /\ x1 \in [LogReleases -> Nat] /\ x2 \in LogServed /\ x3 \in LogIndexes /\ x7 \in LogJobs /\ x9 \in BOOLEAN
  /\ LogFits(x3, x2, x9) /\ (x7.on => LogRun(x7, x3, x2, x9))
  /\ x6 \subseteq x10 \cup x7.wrote /\ (~x7.on => x7.wrote = {})

\* What buildIndex() makes of a text, the served manifest and the index before.
LogBuilt(tx, sv, ix) ==
  [serial |-> sv.serial,
   rel |-> [n \in LogReleases |->
     IF sv.rel[n] \in {"active", "removed"} THEN [status |-> sv.rel[n], text |-> tx[n], listed |-> TRUE]
     ELSE IF ix.rel[n] # Log!None THEN [ix.rel[n] EXCEPT !.listed = FALSE]
     ELSE Log!None]]

LEMMA LogNumbers ==
  /\ LogLast \in Nat /\ LogReleases \subseteq Nat /\ IsFiniteSet(LogReleases)
  /\ Log!Front \notin LogReleases /\ Log!IndexFile \notin LogReleases /\ Log!Front # Log!IndexFile
BY LogAssumption, FS_Interval DEF LogReleases, Log!Front, Log!IndexFile

LEMMA LogBuiltIs ==
  /\ Log!BuildIndex(x3) = LogBuilt(x1, x2, x3)
  /\ Log!BuildIndex(x3)' = LogBuilt(x1', x2', x3')
BY DEF Log!BuildIndex, LogBuilt, Log!InManifest, LogReleases, Log!None

\* What is built fits what is served, and has all that the log had.
LEMMA LogBuiltFits ==
  ASSUME NEW tx \in [LogReleases -> Nat], NEW sv \in LogServed, NEW ix \in LogIndexes, NEW late \in BOOLEAN,
         LogFits(ix, sv, late)
  PROVE  /\ LogBuilt(tx, sv, ix) \in LogIndexes
         /\ LogFits(LogBuilt(tx, sv, ix), sv, late)
         /\ \A n \in LogReleases : ix.rel[n] # Log!None => LogBuilt(tx, sv, ix).rel[n] # Log!None
<1> DEFINE w == LogBuilt(tx, sv, ix)
<1>1. w.serial = sv.serial /\ sv.serial \in Nat
  BY DEF LogBuilt, LogServed
<1>2. ASSUME NEW n \in LogReleases
      PROVE  /\ w.rel[n] \in LogEntries
             /\ sv.rel[n] \in {"active", "removed"} => w.rel[n].status = sv.rel[n]
             /\ sv.rel[n] = "candidate" => w.rel[n] = Log!None
             /\ ix.rel[n] # Log!None => w.rel[n] # Log!None
             /\ ~late /\ sv.rel[n] = "dropped" => w.rel[n].status = "removed"
  <2>1. /\ ix.rel[n] \in LogEntries /\ tx[n] \in Nat
        /\ sv.rel[n] \in {"candidate", "active", "removed", "dropped"}
        /\ sv.rel[n] = "candidate" => ix.rel[n] = Log!None
        /\ ~late /\ sv.rel[n] = "dropped" => ix.rel[n].status = "removed"
    BY DEF LogIndexes, LogServed, LogFits
  <2>2. CASE sv.rel[n] \in {"active", "removed"}
    <3>1. w.rel[n] = [status |-> sv.rel[n], text |-> tx[n], listed |-> TRUE]
      BY <2>2 DEF LogBuilt
    <3> QED
      BY <2>1, <2>2, <3>1 DEF LogEntries, Log!None
  <2>3. CASE sv.rel[n] \notin {"active", "removed"} /\ ix.rel[n] # Log!None
    <3>1. w.rel[n] = [ix.rel[n] EXCEPT !.listed = FALSE]
      BY <2>3 DEF LogBuilt
    <3>2. ix.rel[n] \in [status : {"active", "removed"}, text : Nat, listed : BOOLEAN]
      BY <2>1, <2>3 DEF LogEntries
    <3>3. w.rel[n] \in LogEntries /\ w.rel[n].status = ix.rel[n].status /\ w.rel[n].status \in {"active", "removed"}
      BY <3>1, <3>2 DEF LogEntries
    <3> QED
      BY <2>1, <2>3, <3>3 DEF Log!None
  <2>4. CASE sv.rel[n] \notin {"active", "removed"} /\ ix.rel[n] = Log!None
    <3>1. w.rel[n] = Log!None
      BY <2>4 DEF LogBuilt
    <3> QED
      BY <2>1, <2>4, <3>1 DEF LogEntries, Log!None
  <2> QED
    BY <2>2, <2>3, <2>4
<1>3. w \in LogIndexes
  <2>1. w = [serial |-> w.serial, rel |-> [n \in LogReleases |-> w.rel[n]]]
    BY DEF LogBuilt
  <2> HIDE DEF w
  <2> QED
    BY <1>1, <1>2, <2>1 DEF LogIndexes
<1> HIDE DEF w
<1>4. LogFits(w, sv, late)
  BY <1>1, <1>2 DEF LogFits
<1> QED
  BY <1>2, <1>3, <1>4 DEF w

\* So a run that starts has files to write that fit.
LEMMA LogStarts ==
  ASSUME NEW tx \in [LogReleases -> Nat], NEW sv \in LogServed, NEW ix \in LogIndexes, NEW late \in BOOLEAN,
         LogFits(ix, sv, late), NEW j,
         \/ j = Log!NoJob
         \/ j = [on |-> TRUE, want |-> LogBuilt(tx, sv, ix), wrote |-> {},
                 todo |-> {Log!Front} \cup {n \in LogReleases : LogBuilt(tx, sv, ix).rel[n] # Log!None}]
  PROVE  j \in LogJobs /\ (j.on => LogRun(j, ix, sv, late)) /\ j.wrote = {}
<1>1. CASE j = Log!NoJob
  <2>1. Log!EmptyIndex \in LogIndexes
    BY LogNumbers DEF Log!EmptyIndex, LogIndexes, LogEntries, LogReleases
  <2> QED
    BY <1>1, <2>1 DEF Log!NoJob, LogJobs
<1>2. CASE j # Log!NoJob
  <2> DEFINE w == LogBuilt(tx, sv, ix)
  <2>1. /\ w \in LogIndexes /\ LogFits(w, sv, late)
        /\ \A n \in LogReleases : ix.rel[n] # Log!None => w.rel[n] # Log!None
    BY LogBuiltFits
  <2>2. j = [on |-> TRUE, want |-> w, wrote |-> {}, todo |-> {Log!Front} \cup {n \in LogReleases : w.rel[n] # Log!None}]
    BY <1>2
  <2> HIDE DEF w
  <2>3. j \in LogJobs
    BY <2>1, <2>2 DEF LogJobs
  <2>4. LogRun(j, ix, sv, late)
    BY <2>1, <2>2, LogNumbers DEF LogRun
  <2> QED
    BY <2>2, <2>3, <2>4
<1> QED
  BY <1>1, <1>2

LEMMA LogInit == Log!Init => LogInv
<1> SUFFICES ASSUME Log!Init PROVE LogInv
  OBVIOUS
<1>1. Log!EmptyIndex \in LogIndexes /\ Log!EmptyIndex.serial = 0
      /\ \A n \in LogReleases : Log!EmptyIndex.rel[n] = Log!None
  BY LogNumbers DEF Log!EmptyIndex, LogIndexes, LogEntries, LogReleases
<1>2. /\ x1 \in [LogReleases -> Nat] /\ x2 \in LogServed /\ x2.serial = 0
      /\ \A n \in LogReleases : x2.rel[n] = "candidate"
  BY DEF Log!Init, LogServed, LogReleases
<1>3. x7 \in LogJobs /\ ~x7.on /\ x7.wrote = {}
  BY <1>1 DEF Log!Init, Log!NoJob, LogJobs
<1>4. x3 = Log!EmptyIndex /\ x6 = {} /\ x9 = FALSE
  BY DEF Log!Init
<1>5. LogFits(x3, x2, x9)
  BY <1>1, <1>2, <1>4 DEF LogFits
<1> QED
  BY <1>1, <1>2, <1>3, <1>4, <1>5 DEF LogInv

\* The owner's steps, and a run that begins.
LEMMA LogOwner ==
  ASSUME LogInv, (\E n \in LogReleases : Log!EditText(n)) \/ Log!Publish \/ Log!WriteLog
  PROVE  LogInv' /\ Log!LogStands
<1>1. /\ ~x7.on /\ x3' = x3 /\ x4' = x4 /\ x6' = x6 /\ x10' = x10
  BY DEF Log!EditText, Log!Publish, Log!WriteLog
<1>2. x6' \subseteq x10' /\ x3' \in LogIndexes
  BY <1>1 DEF LogInv
<1>3. Log!LogStands
  BY <1>1 DEF Log!LogStands
<1>4. CASE \E n \in LogReleases : Log!EditText(n)
  <2>1. x1' \in [LogReleases -> Nat] /\ UNCHANGED <<x2, x3, x6, x7, x9, x10>>
    BY <1>4 DEF Log!EditText, LogInv
  <2> QED
    BY <1>2, <1>3, <2>1 DEF LogInv, LogRun, LogFits
<1>5. CASE Log!WriteLog
  <2>1. UNCHANGED <<x1, x2, x3, x6, x9, x10>> /\ x7' = Log!Started
    BY <1>5 DEF Log!WriteLog
  <2>2. x7' \in LogJobs /\ (x7'.on => LogRun(x7', x3, x2, x9)) /\ x7'.wrote = {}
    <3>1. \/ x7' = Log!NoJob
          \/ x7' = [on |-> TRUE, want |-> LogBuilt(x1, x2, x3), wrote |-> {},
                   todo |-> {Log!Front} \cup {n \in LogReleases : LogBuilt(x1, x2, x3).rel[n] # Log!None}]
      BY <2>1, LogBuiltIs DEF Log!Started, Log!Logged, LogReleases
    <3> QED
      BY <3>1, LogStarts DEF LogInv
  <2> QED
    BY <1>2, <1>3, <2>1, <2>2 DEF LogInv
<1>6. CASE Log!Publish
  <2>1. /\ x1' = x1 /\ x3' = x3 /\ x7' = Log!Started'
        /\ x9' = (x9 \/ (x3.serial # x2.serial /\ \E n \in LogReleases : Log!Drops(n)))
    BY <1>6 DEF Log!Publish, LogReleases
  <2>2. PICK rel \in [LogReleases -> {"candidate", "active", "removed", "dropped"}] :
          /\ \A n \in LogReleases : rel[n] \in Log!Successors(x2.rel[n])
          /\ x2' = [serial |-> x2.serial + 1, rel |-> rel]
    BY <1>6 DEF Log!Publish, LogReleases
  <2>3. x2' \in LogServed /\ x2.serial \in Nat /\ x3.serial \in Nat /\ x3.serial <= x2.serial /\ x2'.serial = x2.serial + 1
    BY <2>2 DEF LogInv, LogServed, LogIndexes, LogFits
  <2>4. x9' \in BOOLEAN /\ (~x9' => ~x9)
    BY <2>1 DEF LogInv
  <2>5. ASSUME NEW n \in LogReleases
        PROVE  /\ x2'.rel[n] = "candidate" => x3.rel[n] = Log!None
               /\ ~x9' /\ x2'.rel[n] = "dropped" => x3.rel[n].status = "removed"
    <3>1. x2'.rel[n] = rel[n] /\ x2.rel[n] \in {"candidate", "active", "removed", "dropped"}
          /\ rel[n] \in Log!Successors(x2.rel[n])
      BY <2>2 DEF LogInv, LogServed
    <3>2. rel[n] = "candidate" => x2.rel[n] = "candidate"
      BY <3>1 DEF Log!Successors
    <3>3. rel[n] = "dropped" => x2.rel[n] \in {"removed", "dropped"}
      BY <3>1 DEF Log!Successors
    <3>4. CASE ~x9' /\ rel[n] = "dropped" /\ x2.rel[n] = "removed"
      <4>1. Log!Drops(n)
        BY <3>1, <3>4 DEF Log!Drops
      <4>2. x3.serial = x2.serial
        BY <2>1, <3>4, <4>1
      <4> QED
        BY <3>1, <3>4, <4>2 DEF LogInv, LogFits
    <3>5. CASE ~x9' /\ rel[n] = "dropped" /\ x2.rel[n] = "dropped"
      BY <2>4, <3>1, <3>5 DEF LogInv, LogFits
    <3>6. x2'.rel[n] = "candidate" => x3.rel[n] = Log!None
      BY <3>1, <3>2 DEF LogInv, LogFits
    <3> QED
      BY <3>1, <3>3, <3>4, <3>5, <3>6
  <2>6. LogFits(x3, x2', x9')
    BY <2>3, <2>5 DEF LogFits
  <2>7. x7' \in LogJobs /\ (x7'.on => LogRun(x7', x3, x2', x9')) /\ x7'.wrote = {}
    <3>1. \/ x7' = Log!NoJob
          \/ x7' = [on |-> TRUE, want |-> LogBuilt(x1', x2', x3'), wrote |-> {},
                   todo |-> {Log!Front} \cup {n \in LogReleases : LogBuilt(x1', x2', x3').rel[n] # Log!None}]
      BY <2>1, LogBuiltIs DEF Log!Started, Log!Logged, LogReleases, Log!NoJob, Log!EmptyIndex
    <3>2. x1' \in [LogReleases -> Nat] /\ x3' \in LogIndexes /\ LogFits(x3', x2', x9')
      BY <2>1, <2>6 DEF LogInv
    <3>3. x7' \in LogJobs /\ (x7'.on => LogRun(x7', x3', x2', x9')) /\ x7'.wrote = {}
      BY ONLY <2>3, <2>4, <3>1, <3>2, LogStarts
    <3> QED
      BY <2>1, <3>3
  <2> QED
    BY <1>1, <1>2, <1>3, <2>1, <2>3, <2>4, <2>6, <2>7 DEF LogInv
<1> QED
  BY <1>4, <1>5, <1>6

\* The files of a run, and its end.
LEMMA LogFiles ==
  ASSUME LogInv, Log!WriteFront \/ Log!WriteIndex \/ Log!WritePage \/ Log!Finish \/ Log!Stop
  PROVE  LogInv' /\ Log!LogStands
<1>1. x7.on /\ x7 \in LogJobs /\ LogRun(x7, x3, x2, x9) /\ UNCHANGED <<x1, x2, x9>>
  BY DEF LogInv, Log!WriteFront, Log!WriteIndex, Log!WritePage, Log!Finish, Log!Stop
<1>2. CASE Log!WriteFront
  <2> DEFINE new == IF Log!Same(x5, x7.want) THEN {} ELSE {Log!Front}
             v == [x7 EXCEPT !.todo = (@ \ {Log!Front}) \cup {Log!IndexFile}, !.wrote = @ \cup new]
  <2>1. x7' = v /\ x6' = x6 \cup new /\ UNCHANGED <<x3, x4, x10>>
    BY <1>2 DEF Log!WriteFront
  <2>2. new \subseteq {Log!Front}
    OBVIOUS
  <2> HIDE DEF new
  <2>3. /\ v \in LogJobs /\ v.on /\ v.want = x7.want /\ v.todo = (x7.todo \ {Log!Front}) \cup {Log!IndexFile}
        /\ v.wrote = x7.wrote \cup new
    BY <1>1, <2>2 DEF LogJobs
  <2> HIDE DEF v
  <2>4. LogRun(v, x3, x2, x9)
    BY <1>1, <2>3, LogNumbers DEF LogRun
  <2> QED
    BY <1>1, <2>1, <2>3, <2>4 DEF LogInv, Log!LogStands
<1>3. CASE Log!WriteIndex
  <2> DEFINE v == [x7 EXCEPT !.todo = @ \ {Log!IndexFile}]
  <2>1. x7' = v /\ x3' = x7.want /\ UNCHANGED <<x4, x6, x10>>
    BY <1>3 DEF Log!WriteIndex
  <2>2. v \in LogJobs /\ v.on /\ v.want = x7.want /\ v.todo = x7.todo \ {Log!IndexFile} /\ v.wrote = x7.wrote
    BY <1>1 DEF LogJobs
  <2> HIDE DEF v
  <2>3. LogRun(v, x3', x2, x9) /\ LogFits(x3', x2, x9) /\ x3' \in LogIndexes
    BY <1>1, <2>1, <2>2 DEF LogRun, LogJobs
  <2>4. Log!LogStands
    BY <1>1, <2>1 DEF Log!LogStands, LogRun, LogReleases
  <2> QED
    BY <1>1, <2>1, <2>2, <2>3, <2>4 DEF LogInv
<1>4. CASE Log!WritePage
  <2> DEFINE n == Log!Max(x7.todo)
             new == IF Log!Same(x4[n], x7.want.rel[n]) THEN {} ELSE {n}
             v == [x7 EXCEPT !.todo = @ \ {n}, !.wrote = @ \cup new]
  <2>1. /\ x7' = v /\ x6' = x6 \cup new /\ x4' = [x4 EXCEPT ![n] = x7.want.rel[n]] /\ UNCHANGED <<x3, x10>>
        /\ x7.todo # {} /\ x7.todo \subseteq LogReleases
    BY <1>4 DEF Log!WritePage, LogReleases
  <2>2. n \in x7.todo /\ n \in LogReleases
    <3>1. IsFiniteSet(x7.todo) /\ x7.todo \subseteq Nat
      BY <2>1, LogNumbers, FS_Subset
    <3>2. \E m \in x7.todo : \A x \in x7.todo : x <= m
      BY <2>1, <3>1, HasGreatest
    <3>3. \E m \in x7.todo : \A x \in x7.todo : m >= x
      BY <3>1, <3>2
    <3> QED
      BY <2>1, <3>3 DEF Log!Max
  <2> HIDE DEF n
  <2>3. new \subseteq {n}
    OBVIOUS
  <2> HIDE DEF new
  <2>4. /\ v \in LogJobs /\ v.on /\ v.want = x7.want /\ v.todo = x7.todo \ {n}
        /\ v.wrote = x7.wrote \cup new
    BY <1>1, <2>2, <2>3 DEF LogJobs
  <2> HIDE DEF v
  <2>5. LogRun(v, x3, x2, x9)
    BY <1>1, <2>4 DEF LogRun
  <2>6. Log!LogStands
    <3> SUFFICES ASSUME NEW q \in LogReleases, x4[q] # Log!None PROVE x4'[q] # Log!None
      BY <2>1 DEF Log!LogStands, LogReleases
    <3>1. CASE q = n /\ q \in DOMAIN x4
      BY <1>1, <2>1, <2>2, <3>1 DEF LogRun
    <3>2. CASE q # n \/ q \notin DOMAIN x4
      BY <2>1, <3>2
    <3> QED
      BY <3>1, <3>2
  <2> QED
    BY <1>1, <2>1, <2>4, <2>5, <2>6 DEF LogInv
<1>5. CASE Log!Finish
  <2>1. UNCHANGED <<x3, x4>> /\ Log!LogStands
    BY <1>5 DEF Log!Finish, Log!LogStands
  <2>2. CASE x7' = x7
    <3>1. \E p : x6' = x6 \ {p} /\ x10' = x10 \ {p}
      BY <1>1, <1>5, <2>2 DEF Log!Finish, Log!NoJob
    <3> QED
      BY <1>1, <2>1, <2>2, <3>1 DEF LogInv
  <2>3. CASE x7' # x7
    <3>1. x7' = Log!NoJob /\ UNCHANGED <<x6, x10>> /\ (x7.wrote # {} => x6 = {})
      BY <1>5, <2>3 DEF Log!Finish, Log!NeedsNav
    <3>2. x7' \in LogJobs /\ ~x7'.on /\ x7'.wrote = {}
      BY <3>1, LogStarts, <1>1 DEF LogInv, Log!NoJob
    <3> QED
      BY <1>1, <2>1, <3>1, <3>2 DEF LogInv
  <2> QED
    BY <2>2, <2>3
<1>6. CASE Log!Stop
  <2>1. x7' = Log!NoJob /\ UNCHANGED <<x3, x4, x6>> /\ x10' = x10 \cup (x6 \cap x7.wrote)
    BY <1>6 DEF Log!Stop
  <2>2. x7' \in LogJobs /\ ~x7'.on /\ x7'.wrote = {}
    BY <2>1, LogStarts, <1>1 DEF LogInv, Log!NoJob
  <2> QED
    BY <1>1, <2>1, <2>2 DEF LogInv, Log!LogStands
<1> QED
  BY <1>2, <1>3, <1>4, <1>5, <1>6

LEMMA LogStep == LogInv /\ [Log!Next]_(Log!vars) => LogInv' /\ Log!LogStands
<1> SUFFICES ASSUME LogInv, [Log!Next]_(Log!vars) PROVE LogInv' /\ Log!LogStands
  OBVIOUS
<1>1. CASE UNCHANGED Log!vars
  BY <1>1 DEF Log!vars, LogInv, Log!LogStands
<1>2. CASE Log!Next
  BY <1>2, LogOwner, LogFiles DEF Log!Next, LogReleases
<1> QED
  BY <1>1, <1>2

LEMMA LogSafe == LogInv => Log!LogAgrees /\ Log!Buildable /\ Log!NavKept
<1> SUFFICES ASSUME LogInv PROVE Log!LogAgrees /\ Log!Buildable /\ Log!NavKept
  OBVIOUS
<1>1. Log!NavKept
  BY DEF LogInv, Log!NavKept
<1>2. x3 \in LogIndexes /\ x2 \in LogServed /\ LogFits(x3, x2, x9) /\ LogReleases = 1..LogLast
  BY DEF LogInv, LogReleases
<1>3. Log!Buildable
  <2> SUFFICES ASSUME ~x9 PROVE ~Log!Throws(x3)
    BY DEF Log!Buildable
  <2>1. x3.serial \in Nat /\ x2.serial \in Nat /\ x3.serial <= x2.serial
    BY <1>2 DEF LogIndexes, LogServed, LogFits
  <2>2. ASSUME NEW n \in LogReleases, x3.rel[n] # Log!None, x2.rel[n] \notin {"active", "removed"}
        PROVE  x3.rel[n].status = "removed"
    BY <1>2, <2>2 DEF LogServed, LogFits
  <2> QED
    BY <2>1, <2>2 DEF Log!Throws, Log!Logged, Log!InManifest, LogReleases
<1>4. Log!LogAgrees
  <2> SUFFICES ASSUME ~x7.on, Log!CheckPasses, ~x9
               PROVE  /\ x3.serial = x2.serial
                      /\ \A n \in LogReleases :
                           /\ x2.rel[n] = "candidate" => x3.rel[n] = Log!None
                           /\ x2.rel[n] = "dropped" => x4[n].status = "removed" /\ ~x4[n].listed
                           /\ n \in Log!InManifest => x4[n].status = x2.rel[n] /\ x4[n].text = x1[n]
    BY DEF Log!LogAgrees, LogReleases
  <2>1. LogBuilt(x1, x2, x3) = x3 /\ \A n \in LogReleases : x3.rel[n] # Log!None => x4[n] = x3.rel[n]
    BY LogBuiltIs DEF Log!CheckPasses, Log!Logged, Log!Same, LogReleases
  <2>2. x3.serial = x2.serial
    BY <2>1 DEF LogBuilt
  <2>3. ASSUME NEW n \in LogReleases, x2.rel[n] = "dropped"
        PROVE  x4[n].status = "removed" /\ ~x4[n].listed
    <3>1. x3.rel[n].status = "removed" /\ x3.rel[n] \in LogEntries
      BY <1>2, <2>3 DEF LogFits, LogIndexes
    <3>2. x3.rel[n] # Log!None /\ x3.rel[n] \in [status : {"active", "removed"}, text : Nat, listed : BOOLEAN]
      BY <3>1 DEF Log!None, LogEntries
    <3>3. LogBuilt(x1, x2, x3).rel[n] = [x3.rel[n] EXCEPT !.listed = FALSE]
      BY <2>3, <3>2 DEF LogBuilt
    <3>4. ~x3.rel[n].listed
      BY <2>1, <3>2, <3>3
    <3> QED
      BY <2>1, <3>1, <3>2, <3>4
  <2>4. ASSUME NEW n \in LogReleases, x2.rel[n] \in {"active", "removed"}
        PROVE  x4[n].status = x2.rel[n] /\ x4[n].text = x1[n]
    <3>0. LogBuilt(x1, x2, x3).rel[n] = [status |-> x2.rel[n], text |-> x1[n], listed |-> TRUE]
      BY <2>4 DEF LogBuilt
    <3>1. x3.rel[n] = [status |-> x2.rel[n], text |-> x1[n], listed |-> TRUE]
      BY <2>1, <3>0
    <3>2. x3.rel[n] # Log!None
      BY <3>1 DEF Log!None
    <3> QED
      BY <2>1, <3>1, <3>2
  <2> QED
    BY <1>2, <2>2, <2>3, <2>4 DEF LogFits, Log!InManifest, LogReleases
<1> QED
  BY <1>1, <1>3, <1>4

--------------------------------------------------------------------------------
(***************************************************************************)
(* That a pause of the vault service reaches every container, for any      *)
(* number of containers and operators and any life of the cache: what a    *)
(* container's last read found is no older than its cache, so a service    *)
(* found on, with no failed read since, is off at most as long.            *)
(***************************************************************************)
CONSTANTS SwitchTtl, SwitchTime, SwitchFails, SwitchWrites     \* the cache's life, the time; reads that fail, writes

ASSUME SwitchAssumption ==
  SwitchTtl \in Nat \ {0} /\ {SwitchTime, SwitchFails, SwitchWrites} \subseteq Nat

Switch == INSTANCE ServiceSwitch WITH
               Containers <- One, Admins <- Two, Ttl <- SwitchTtl, MaxTime <- SwitchTime, MaxFails <- SwitchFails,
               MaxWrites <- SwitchWrites,
               param <- x1, cache <- x2, last <- x3, admin <- x4, trail <- x5, metric <- x6,
               off <- x7, now <- x8, fails <- x9, writes <- x10

SwitchCache == [on : BOOLEAN, at : Int]
SwitchLast  == [served : {"none", "yes", "paused"}, knows : {"none", "on", "off"}, unread : BOOLEAN]

SwitchTyped ==
  /\ x2 \in [One -> SwitchCache] /\ x3 \in [One -> SwitchLast] /\ x7 \in Int /\ x7 >= -1 /\ x8 \in Nat
  /\ Switch!Enabled <=> x7 = -1

\* What a container last answered, and what it answers from.
ContainerFits(c) ==
  /\ x2[c].at \in -1..x8
  /\ x2[c].at # -1 /\ x2[c].on /\ ~x3[c].unread => x7 <= x8 - x2[c].at
  /\ x3[c].served = "yes" => x3[c].unread \/ x7 < SwitchTtl
  /\ x3[c].knows = "off" => ~x2[c].on
  /\ x3[c].served = "yes" => x3[c].knows # "off"

SwitchInv == SwitchTyped /\ \A c \in One : ContainerFits(c)

LEMMA SwitchInit == Switch!Init => SwitchInv
<1> SUFFICES ASSUME Switch!Init PROVE SwitchInv
  OBVIOUS
<1>1. x2 \in [One -> SwitchCache] /\ \A c \in One : x2[c].on /\ x2[c].at = -1
  BY DEF Switch!Init, Switch!NoCache, SwitchCache
<1>2. x3 \in [One -> SwitchLast] /\ \A c \in One : x3[c].served = "none" /\ x3[c].knows = "none" /\ ~x3[c].unread
  BY DEF Switch!Init, Switch!NoCall, SwitchLast
<1>3. x7 = -1 /\ x8 = 0 /\ Switch!Enabled
  BY DEF Switch!Init, Switch!Enabled
<1> QED
  BY <1>1, <1>2, <1>3 DEF SwitchInv, SwitchTyped, ContainerFits

\* One container is called or replaced; the switch and the others stay.
LEMMA ContainerMoves ==
  ASSUME SwitchInv, NEW c \in One, NEW v \in SwitchCache, NEW w \in SwitchLast,
         x2' = [x2 EXCEPT ![c] = v], x3' = [x3 EXCEPT ![c] = w], x1' = x1, x7' = x7, x8' = x8,
         v.at \in -1..x8,
         v.at # -1 /\ v.on /\ ~w.unread => x7 <= x8 - v.at,
         w.served = "yes" => w.unread \/ x7 < SwitchTtl,
         w.knows = "off" => ~v.on,
         w.served = "yes" => w.knows # "off"
  PROVE  SwitchInv'
<1>1. /\ x2' \in [One -> SwitchCache] /\ x3' \in [One -> SwitchLast] /\ x2'[c] = v /\ x3'[c] = w
      /\ \A d \in One \ {c} : x2'[d] = x2[d] /\ x3'[d] = x3[d]
  BY DEF SwitchInv, SwitchTyped
<1>2. SwitchTyped'
  BY <1>1 DEF SwitchInv, SwitchTyped, Switch!Enabled
<1>3. ContainerFits(c)'
  BY <1>1 DEF ContainerFits
<1>4. \A d \in One \ {c} : ContainerFits(d)'
  BY <1>1 DEF SwitchInv, ContainerFits
<1> QED
  BY <1>2, <1>3, <1>4 DEF SwitchInv

LEMMA SwitchCalls ==
  ASSUME SwitchInv, NEW c \in One,
         Switch!CallCached(c) \/ Switch!CallReads(c) \/ Switch!CallFails(c) \/ Switch!Replaced(c)
  PROVE  SwitchInv'
<1> DEFINE W(on, knows, unread) == [served |-> IF on THEN "yes" ELSE "paused", knows |-> knows, unread |-> unread]
<1>1. /\ x2[c] \in SwitchCache /\ x3[c] \in SwitchLast /\ x8 \in Nat /\ x7 \in Int /\ x7 >= -1 /\ ContainerFits(c)
      /\ SwitchTtl \in Nat \ {0} /\ (Switch!Enabled <=> x7 = -1) /\ Switch!Enabled \in BOOLEAN
      /\ x2 \in [One -> SwitchCache]
  BY SwitchAssumption DEF SwitchInv, SwitchTyped, Switch!Enabled
<1>2. \A on \in BOOLEAN, unread \in BOOLEAN, knows \in {"none", "on", "off"} :
        /\ W(on, knows, unread) \in SwitchLast
        /\ W(on, knows, unread).served = "yes" <=> on
        /\ W(on, knows, unread).knows = knows /\ W(on, knows, unread).unread = unread
  BY DEF SwitchLast
<1>3. CASE Switch!CallCached(c)
  <2> DEFINE w == W(x2[c].on, x3[c].knows, x3[c].unread)
  <2>1. /\ x3' = [x3 EXCEPT ![c] = w] /\ x2' = x2 /\ x1' = x1 /\ x7' = x7 /\ x8' = x8
        /\ x2[c].at # -1 /\ x8 - x2[c].at < SwitchTtl
    BY <1>3 DEF Switch!CallCached, Switch!Answer, Switch!Fresh
  <2>2. x2[c].on \in BOOLEAN /\ x3[c].unread \in BOOLEAN /\ x3[c].knows \in {"none", "on", "off"} /\ x2[c].at \in Int
    BY <1>1 DEF SwitchCache, SwitchLast
  <2>3. w \in SwitchLast /\ (w.served = "yes" <=> x2[c].on) /\ w.knows = x3[c].knows /\ w.unread = x3[c].unread
    BY <1>2, <2>2
  <2>4. x2' = [x2 EXCEPT ![c] = x2[c]]
    BY <1>1, <2>1
  <2> HIDE DEF w
  <2>5. /\ x2[c].at \in -1..x8
        /\ x2[c].at # -1 /\ x2[c].on /\ ~w.unread => x7 <= x8 - x2[c].at
        /\ w.knows = "off" => ~x2[c].on
    BY <1>1, <2>3 DEF ContainerFits
  <2>6. w.served = "yes" => w.unread \/ x7 < SwitchTtl
    BY <1>1, <2>1, <2>2, <2>3, <2>5
  <2>7. w.served = "yes" => w.knows # "off"
    BY <2>3, <2>5
  <2> QED
    BY <1>1, <2>1, <2>3, <2>4, <2>5, <2>6, <2>7, ContainerMoves
<1>4. CASE Switch!CallReads(c)
  <2> DEFINE w == W(Switch!Enabled, IF Switch!Enabled THEN "on" ELSE "off", FALSE)
             v == [on |-> Switch!Enabled, at |-> x8]
  <2>1. x3' = [x3 EXCEPT ![c] = w] /\ x2' = [x2 EXCEPT ![c] = v] /\ x1' = x1 /\ x7' = x7 /\ x8' = x8
    BY <1>4 DEF Switch!CallReads, Switch!Answer
  <2>2. /\ w \in SwitchLast /\ (w.served = "yes" <=> Switch!Enabled) /\ (w.knows = "off" <=> ~Switch!Enabled)
        /\ ~w.unread
    BY <1>1, <1>2
  <2>3. v \in SwitchCache /\ v.on = Switch!Enabled /\ v.at = x8
    BY <1>1 DEF SwitchCache
  <2> HIDE DEF w, v
  <2>4. v.at \in -1..x8
    BY <1>1, <2>3
  <2>5. v.at # -1 /\ v.on /\ ~w.unread => x7 <= x8 - v.at
    BY <1>1, <2>3
  <2>6. w.served = "yes" => w.unread \/ x7 < SwitchTtl
    BY <1>1, <2>2
  <2>7. /\ w.knows = "off" => ~v.on
        /\ w.served = "yes" => w.knows # "off"
    BY <2>2, <2>3
  <2> QED
    BY <2>1, <2>2, <2>3, <2>4, <2>5, <2>6, <2>7, ContainerMoves
<1>5. CASE Switch!CallFails(c)
  <2> DEFINE w == W(x2[c].on, x3[c].knows, TRUE)
             v == [on |-> x2[c].on, at |-> x8]
  <2>1. x3' = [x3 EXCEPT ![c] = w] /\ x2' = [x2 EXCEPT ![c] = v] /\ x1' = x1 /\ x7' = x7 /\ x8' = x8
    BY <1>5 DEF Switch!CallFails, Switch!Answer, Switch!LastValue
  <2>2. x2[c].on \in BOOLEAN /\ x3[c].knows \in {"none", "on", "off"}
    BY <1>1 DEF SwitchCache, SwitchLast
  <2>3. w \in SwitchLast /\ (w.served = "yes" <=> x2[c].on) /\ w.knows = x3[c].knows /\ w.unread
    BY <1>2, <2>2
  <2>4. v \in SwitchCache /\ v.on = x2[c].on /\ v.at = x8
    BY <1>1, <2>2 DEF SwitchCache
  <2> HIDE DEF w, v
  <2>5. v.at \in -1..x8
    BY <1>1, <2>4
  <2>6. /\ w.knows = "off" => ~v.on
        /\ w.served = "yes" => w.knows # "off"
    BY <1>1, <2>3, <2>4 DEF ContainerFits
  <2> QED
    BY <2>1, <2>3, <2>4, <2>5, <2>6, ContainerMoves
<1>6. CASE Switch!Replaced(c)
  <2>1. /\ x3' = [x3 EXCEPT ![c] = Switch!NoCall] /\ x2' = [x2 EXCEPT ![c] = Switch!NoCache] /\ x1' = x1 /\ x7' = x7
        /\ x8' = x8
    BY <1>6 DEF Switch!Replaced
  <2>2. Switch!NoCache \in SwitchCache /\ Switch!NoCache.at = -1
    BY DEF Switch!NoCache, SwitchCache
  <2>3. Switch!NoCall \in SwitchLast /\ Switch!NoCall.served = "none" /\ Switch!NoCall.knows = "none"
    BY DEF Switch!NoCall, SwitchLast
  <2>4. Switch!NoCache.at \in -1..x8
    BY <1>1, <2>2
  <2> QED
    BY <2>1, <2>2, <2>3, <2>4, ContainerMoves
<1> QED
  BY <1>3, <1>4, <1>5, <1>6

\* The parameter is written, or time passes: the switch is off no longer than before or one more.
LEMMA SwitchSet ==
  ASSUME SwitchInv, NEW u \in {"none", "on", "off", "garbled"}, Switch!Set(u), x2' = x2, x3' = x3, x8' = x8
  PROVE  SwitchInv'
<1>1. /\ x8 \in Nat /\ x7 \in Int /\ x7 >= -1 /\ SwitchTtl \in Nat \ {0}
      /\ x1' = u /\ x7' = IF u \in {"none", "on"} THEN -1 ELSE IF x7 = -1 THEN 0 ELSE x7
  BY SwitchAssumption DEF SwitchInv, SwitchTyped, Switch!Set
<1>2. SwitchTyped'
  BY <1>1 DEF SwitchInv, SwitchTyped, Switch!Enabled
<1>3. ASSUME NEW c \in One PROVE ContainerFits(c)'
  <2>1. ContainerFits(c) /\ x2[c].at \in Int
    BY DEF SwitchInv, SwitchTyped, SwitchCache
  <2> QED
    BY <1>1, <2>1 DEF ContainerFits
<1> QED
  BY <1>2, <1>3 DEF SwitchInv

LEMMA SwitchTicks ==
  ASSUME SwitchInv, Switch!Tick PROVE SwitchInv'
<1>1. /\ x8 \in Nat /\ x7 \in Int /\ x7 >= -1 /\ x8' = x8 + 1 /\ x7' = IF x7 = -1 THEN -1 ELSE x7 + 1
      /\ x1' = x1 /\ x2' = x2
      /\ x3' = [c \in One |-> [x3[c] EXCEPT !.served = "none"]]
  BY DEF SwitchInv, SwitchTyped, Switch!Tick
<1>2. \A w \in SwitchLast, s \in {"none", "yes", "paused"} : [w EXCEPT !.served = s] \in SwitchLast
  BY DEF SwitchLast
<1>3. x3' \in [One -> SwitchLast]
  BY <1>1, <1>2 DEF SwitchInv, SwitchTyped
<1>4. \A c \in One : x3'[c].served = "none" /\ x3'[c].knows = x3[c].knows /\ x3'[c].unread = x3[c].unread
  BY <1>1 DEF SwitchInv, SwitchTyped, SwitchLast
<1>5. SwitchTyped'
  BY <1>1, <1>3 DEF SwitchInv, SwitchTyped, Switch!Enabled
<1>6. ASSUME NEW c \in One PROVE ContainerFits(c)'
  <2>1. ContainerFits(c) /\ x2[c].at \in Int
    BY DEF SwitchInv, SwitchTyped, SwitchCache
  <2> QED
    BY <1>1, <1>4, <2>1 DEF ContainerFits
<1> QED
  BY <1>5, <1>6 DEF SwitchInv

LEMMA SwitchStep == SwitchInv /\ [Switch!Next]_(Switch!vars) => SwitchInv'
<1> SUFFICES ASSUME SwitchInv, [Switch!Next]_(Switch!vars) PROVE SwitchInv'
  OBVIOUS
<1>1. CASE UNCHANGED <<x1, x2, x3, x7, x8>>
  BY <1>1 DEF SwitchInv, SwitchTyped, ContainerFits, Switch!Enabled
<1>2. ASSUME NEW a \in Two, Switch!Write(a) PROVE SwitchInv'
  BY <1>2, SwitchSet DEF Switch!Write
<1>3. CASE Switch!ByHand
  BY <1>3, SwitchSet DEF Switch!ByHand
<1>4. ASSUME NEW a \in Two, Switch!Ask(a) \/ Switch!Audit(a) PROVE SwitchInv'
  BY <1>1, <1>4 DEF Switch!Ask, Switch!Audit
<1>5. CASE Switch!Watch \/ UNCHANGED Switch!vars
  BY <1>1, <1>5 DEF Switch!Watch, Switch!vars
<1> QED
  BY <1>2, <1>3, <1>4, <1>5, SwitchCalls, SwitchTicks DEF Switch!Next

LEMMA SwitchSafe == SwitchInv => Switch!PauseReaches /\ Switch!PauseKept
<1> SUFFICES ASSUME SwitchInv, NEW c \in One
             PROVE  /\ x3[c].served = "yes" /\ x7 >= SwitchTtl => x3[c].unread
                    /\ x3[c].served = "yes" => x3[c].knows # "off"
  BY DEF Switch!PauseReaches, Switch!PauseKept
<1>1. ContainerFits(c) /\ x7 \in Int /\ SwitchTtl \in Nat
  BY SwitchAssumption DEF SwitchInv, SwitchTyped
<1> QED
  BY <1>1 DEF ContainerFits

--------------------------------------------------------------------------------
(* The drift check (DriftReport).  What a run found of a stack fits the    *)
(* template it checked out, for each stack it is past; and the body of the *)
(* open issue is what was told last, except while a run has edited it and  *)
(* still holds the body it read.                                           *)
CONSTANTS StackCount, TemplateVersions, RunStops               \* stacks and their templates; drift checks that stop half way

ASSUME DriftAssumption ==
  StackCount \in Nat \ {0} /\ TemplateVersions \in Nat \ {0} /\ RunStops \in Nat

Drift == INSTANCE DriftReport WITH
               Stacks <- 1..StackCount, MaxVersion <- TemplateVersions, MaxStops <- RunStops,
               master <- x1, cfn <- x2, run <- x3, issue <- x4, told <- x5, missed <- x6, stops <- x7

DriftRun == [at : {"off", "list", "compare", "report", "update", "comment"}, on : 1..StackCount,
             head : [1..StackCount -> Drift!Versions], listed : {"no", "absent", "settled", "busy"},
             found : [1..StackCount -> Drift!States], body : Drift!Sets]

DriftFits(s) ==
  /\ x3.found[s] = "none" => x3.head[s] = 0
  /\ x3.found[s] = "in-sync" => x3.head[s] # 0

DriftTyped ==
  /\ x1 \in [1..StackCount -> Drift!Versions] /\ x3 \in DriftRun
  /\ x4 \in [open : BOOLEAN, body : Drift!Sets] /\ x6 \in BOOLEAN

DriftInv ==
  /\ DriftTyped
  /\ x3.at \in {"list", "compare"} => \A s \in 1..StackCount : s < x3.on => DriftFits(s)
  /\ x3.at \in {"report", "update", "comment"} => \A s \in 1..StackCount : DriftFits(s)
  /\ x4.open /\ ~x6 /\ x3.at # "comment" => x4.body = x5
  /\ x3.at = "update" /\ x4.open => x3.body = x4.body
  /\ x3.at = "comment" => x4.open /\ x4.body = Drift!needsAttention /\ (~x6 => x3.body = x5)

LEMMA DriftOff == Drift!Off \in DriftRun /\ Drift!Off.at = "off" /\ Drift!Off.on = 1
<1>1. 1 \in 1..StackCount /\ 0 \in Drift!Versions
  BY DriftAssumption DEF Drift!Versions
<1>2. "none" \in Drift!States /\ {} \in Drift!Sets
  BY DEF Drift!States, Drift!Sets
<1>3. [s \in 1..StackCount |-> 0] \in [1..StackCount -> Drift!Versions]
  BY <1>1
<1>4. [s \in 1..StackCount |-> "none"] \in [1..StackCount -> Drift!States]
  BY <1>2
<1> QED
  BY <1>1, <1>2, <1>3, <1>4 DEF Drift!Off, DriftRun

LEMMA DriftInit == Drift!Init => DriftInv
<1> SUFFICES ASSUME Drift!Init PROVE DriftInv
  OBVIOUS
<1>1. 1 \in Drift!Versions
  BY DriftAssumption DEF Drift!Versions
<1>2. x1 \in [1..StackCount -> Drift!Versions]
  BY <1>1 DEF Drift!Init
<1>3. x3 \in DriftRun /\ x3.at = "off"
  BY DriftOff DEF Drift!Init
<1>4. x4 \in [open : BOOLEAN, body : Drift!Sets] /\ ~x4.open
  BY DEF Drift!Init, Drift!Sets
<1> QED
  BY <1>2, <1>3, <1>4 DEF Drift!Init, DriftInv, DriftTyped

\* What is found of a stack that is past fits what was checked out.
LEMMA DriftCompared ==
  ASSUME DriftInv, Drift!Compare
  PROVE  DriftInv'
<1>1. PICK state \in {Drift!compareStack(x3.on)} \cup (IF x3.head[x3.on] # 0 /\ x3.listed # "absent" THEN {"error"} ELSE {}) :
        x3' = [x3 EXCEPT !.found[x3.on] = state, !.listed = "no",
                         !.at = IF x3.on + 1 \in 1..StackCount THEN "list" ELSE "report",
                         !.on = IF x3.on + 1 \in 1..StackCount THEN x3.on + 1 ELSE 1]
  BY DEF Drift!Compare
<1>2. x3.at = "compare" /\ x1' = x1 /\ x4' = x4 /\ x5' = x5 /\ x6' = x6
  BY DEF Drift!Compare
<1>3. x3 \in DriftRun
  BY DEF DriftInv, DriftTyped
<1>4. /\ state \in Drift!States
      /\ (state = "none" => x3.head[x3.on] = 0) /\ (state = "in-sync" => x3.head[x3.on] # 0)
  <2>1. {"drift", "not-deployed", "not-in-app", "error", "in-sync", "none"} \subseteq Drift!States
    BY DEF Drift!States, Drift!Bad
  <2> QED
    BY <1>1, <2>1 DEF Drift!compareStack
<1>5. /\ x3'.head = x3.head /\ x3'.found = [x3.found EXCEPT ![x3.on] = state] /\ x3'.listed = "no" /\ x3'.body = x3.body
      /\ x3'.at = (IF x3.on + 1 \in 1..StackCount THEN "list" ELSE "report")
      /\ x3'.on = (IF x3.on + 1 \in 1..StackCount THEN x3.on + 1 ELSE 1)
  BY <1>1, <1>3 DEF DriftRun
<1>6. x3.on \in 1..StackCount /\ x3.found \in [1..StackCount -> Drift!States]
  BY <1>3 DEF DriftRun
<1>7. x3' \in DriftRun
  <2>1. (IF x3.on + 1 \in 1..StackCount THEN x3.on + 1 ELSE 1) \in 1..StackCount
    BY DriftAssumption
  <2>2. [x3.found EXCEPT ![x3.on] = state] \in [1..StackCount -> Drift!States]
    BY <1>4, <1>6
  <2> DEFINE f == [x3.found EXCEPT ![x3.on] = state]
             a == IF x3.on + 1 \in 1..StackCount THEN "list" ELSE "report"
             n == IF x3.on + 1 \in 1..StackCount THEN x3.on + 1 ELSE 1
  <2>3. x3' = [x3 EXCEPT !.found = f, !.listed = "no", !.at = a, !.on = n]
    BY <1>1, <1>3 DEF DriftRun
  <2>4. a \in {"list", "report"}
    OBVIOUS
  <2> HIDE DEF f, a, n
  <2> QED
    BY <1>3, <2>1, <2>2, <2>3, <2>4 DEF DriftRun, f, n
<1>8. \A s \in 1..StackCount : s <= x3.on => DriftFits(s)'
  <2> SUFFICES ASSUME NEW s \in 1..StackCount, s <= x3.on PROVE DriftFits(s)'
    OBVIOUS
  <2>1. CASE s = x3.on
    BY <1>4, <1>5, <1>6, <2>1 DEF DriftFits
  <2>2. CASE s # x3.on
    <3>1. s < x3.on
      BY <1>6, <2>2
    <3> QED
      BY <1>2, <1>5, <1>6, <2>2, <3>1 DEF DriftFits, DriftInv
  <2> QED
    BY <2>1, <2>2
<1>9. CASE x3.on + 1 \in 1..StackCount
  <2>1. x3'.at = "list" /\ x3'.on = x3.on + 1
    BY <1>5, <1>9
  <2>2. \A s \in 1..StackCount : s < x3'.on => DriftFits(s)'
    BY <1>6, <1>8, <2>1
  <2> QED
    BY <1>2, <1>7, <2>1, <2>2 DEF DriftInv, DriftTyped
<1>10. CASE x3.on + 1 \notin 1..StackCount
  <2>1. x3'.at = "report"
    BY <1>5, <1>10
  <2>2. \A s \in 1..StackCount : DriftFits(s)'
    BY <1>6, <1>8, <1>10, DriftAssumption
  <2> QED
    BY <1>2, <1>7, <2>1, <2>2 DEF DriftInv, DriftTyped
<1> QED
  BY <1>9, <1>10

LEMMA DriftNeeds == Drift!needsAttention \in Drift!Sets
BY DEF Drift!needsAttention, Drift!Sets

LEMMA DriftIssued ==
  ASSUME DriftInv, Drift!ReadIssue \/ Drift!UpdateIssue \/ Drift!Comment
  PROVE  DriftInv'
<1>1. DriftTyped /\ x3 \in DriftRun /\ x4.body \in Drift!Sets
  BY DEF DriftInv, DriftTyped
<1>2. CASE Drift!ReadIssue
  <2>1. CASE x3' = Drift!Off /\ ~x4.open
    BY <1>1, <1>2, <2>1, DriftOff DEF Drift!ReadIssue, DriftInv, DriftTyped
  <2>2. CASE x3' = [x3 EXCEPT !.at = "update", !.body = x4.body]
    <3>1. /\ x3' \in DriftRun /\ x3'.at = "update" /\ x3'.body = x4.body /\ x3'.head = x3.head /\ x3'.found = x3.found
      BY <1>1, <2>2 DEF DriftRun
    <3>2. \A s \in 1..StackCount : DriftFits(s)'
      BY <1>2, <3>1 DEF Drift!ReadIssue, DriftInv, DriftFits
    <3> QED
      BY <1>1, <1>2, <3>1, <3>2 DEF Drift!ReadIssue, DriftInv, DriftTyped
  <2> QED
    BY <1>2, <2>1, <2>2 DEF Drift!ReadIssue
<1>3. CASE Drift!UpdateIssue
  <2>1. /\ x4' = [open |-> Drift!needsAttention # {}, body |-> Drift!needsAttention]
        /\ x1' = x1 /\ x6' = x6 /\ x3.at = "update"
    BY <1>3 DEF Drift!UpdateIssue
  <2>2. x4' \in [open : BOOLEAN, body : Drift!Sets] /\ x4'.body = Drift!needsAttention
    BY <2>1, DriftNeeds
  <2>3. CASE x4.open /\ Drift!needsAttention # {}
    <3>1. x3' = [x3 EXCEPT !.at = "comment"] /\ x5' = x5
      BY <1>3, <2>3 DEF Drift!UpdateIssue
    <3>2. x3' \in DriftRun /\ x3'.at = "comment" /\ x3'.body = x3.body /\ x3'.head = x3.head /\ x3'.found = x3.found
      BY <1>1, <3>1 DEF DriftRun
    <3>3. \A s \in 1..StackCount : DriftFits(s)'
      BY <2>1, <3>2 DEF DriftInv, DriftFits
    <3>4. Drift!needsAttention' = Drift!needsAttention
      BY <3>2 DEF Drift!needsAttention
    <3>5. x4'.open
      BY <2>1, <2>3
    <3>6. ~x6 => x3.body = x5
      BY <2>1, <2>3 DEF DriftInv
    <3> QED
      BY <1>1, <2>1, <2>2, <3>1, <3>2, <3>3, <3>4, <3>5, <3>6 DEF DriftInv, DriftTyped
  <2>4. CASE ~(x4.open /\ Drift!needsAttention # {})
    <3>1. x3' = Drift!Off /\ x5' = Drift!needsAttention
      BY <1>3, <2>4 DEF Drift!UpdateIssue
    <3> QED
      BY <1>1, <2>1, <2>2, <3>1, DriftOff DEF DriftInv, DriftTyped
  <2> QED
    BY <2>3, <2>4
<1>4. CASE Drift!Comment
  <2>1. x3' = Drift!Off /\ x1' = x1 /\ x4' = x4 /\ x6' = x6 /\ x3.at = "comment" /\ x5' = (IF Drift!Changed THEN Drift!needsAttention ELSE x5)
    BY <1>4 DEF Drift!Comment
  <2>2. ~x6 => x4.body = x5'
    BY <2>1 DEF Drift!Changed, DriftInv
  <2> QED
    BY <1>1, <2>1, <2>2, DriftOff DEF DriftInv, DriftTyped
<1> QED
  BY <1>2, <1>3, <1>4

LEMMA DriftStep == DriftInv /\ [Drift!Next]_(Drift!vars) => DriftInv'
<1> SUFFICES ASSUME DriftInv, [Drift!Next]_(Drift!vars) PROVE DriftInv'
  OBVIOUS
<1>0. DriftTyped /\ x3 \in DriftRun
  BY DEF DriftInv, DriftTyped
<1>1. ASSUME x1' \in [1..StackCount -> Drift!Versions], x3' = x3, x4' = x4, x5' = x5, x6' = x6
      PROVE  DriftInv'
  <2>1. Drift!needsAttention' = Drift!needsAttention
    BY <1>1 DEF Drift!needsAttention
  <2>2. \A s : DriftFits(s)' <=> DriftFits(s)
    BY <1>1 DEF DriftFits
  <2> QED
    BY <1>0, <1>1, <2>1, <2>2 DEF DriftInv, DriftTyped
<1>2. ASSUME NEW s \in 1..StackCount, Drift!Merge(s) PROVE DriftInv'
  <2>1. PICK v \in {0, x1[s] + 1} : x1' = [x1 EXCEPT ![s] = v]
    BY <1>2 DEF Drift!Merge
  <2>2. v \in Drift!Versions
    BY <1>2, DriftAssumption DEF Drift!Merge, Drift!Versions
  <2> QED
    BY <1>0, <1>1, <1>2, <2>1, <2>2 DEF Drift!Merge, Drift!checks, DriftTyped
<1>3. ASSUME NEW s \in 1..StackCount, Drift!DeployStarts(s) \/ Drift!DeployEnds(s) \/ Drift!StackDeleted(s) PROVE DriftInv'
  BY <1>0, <1>1, <1>3 DEF Drift!DeployStarts, Drift!DeployEnds, Drift!StackDeleted, Drift!checks, DriftTyped
<1>4. CASE UNCHANGED Drift!vars
  BY <1>0, <1>1, <1>4 DEF Drift!vars, DriftTyped
<1>5. CASE Drift!ClosedByHand
  BY <1>0, <1>5 DEF Drift!ClosedByHand, DriftInv, DriftTyped, Drift!Sets
<1>6. CASE Drift!Checkout
  <2>1. x3' = [Drift!Off EXCEPT !.at = "list", !.head = x1] /\ x3.at = "off"
    BY <1>6 DEF Drift!Checkout
  <2>2. x1 \in [1..StackCount -> Drift!Versions]
    BY <1>0 DEF DriftTyped
  <2>3. x3' \in DriftRun /\ x3'.at = "list" /\ x3'.on = 1
    BY <2>1, <2>2, DriftOff DEF DriftRun
  <2>4. \A s \in 1..StackCount : ~(s < x3'.on)
    BY <2>3
  <2> QED
    BY <1>0, <1>6, <2>1, <2>3, <2>4 DEF Drift!Checkout, DriftInv, DriftTyped
<1>7. CASE Drift!listStacks
  <2>1. PICK l \in {"absent", "busy", "settled"} : x3' = [x3 EXCEPT !.at = "compare", !.listed = l]
    BY <1>7 DEF Drift!listStacks
  <2>2. x3' \in DriftRun /\ x3'.at = "compare" /\ x3'.on = x3.on /\ x3'.head = x3.head /\ x3'.found = x3.found
    BY <1>0, <2>1 DEF DriftRun
  <2>3. x3.at = "list" /\ \A s \in 1..StackCount : s < x3'.on => DriftFits(s)'
    BY <1>7, <2>2 DEF Drift!listStacks, DriftInv, DriftFits
  <2> QED
    BY <1>0, <1>7, <2>2, <2>3 DEF Drift!listStacks, DriftInv, DriftTyped
<1>8. CASE Drift!Compare
  BY <1>8, DriftCompared
<1>9. CASE Drift!ReadIssue \/ Drift!UpdateIssue \/ Drift!Comment
  BY <1>9, DriftIssued
<1>10. CASE Drift!Stops
  <2>1. x3' = Drift!Off /\ x1' = x1 /\ x4' = x4 /\ x5' = x5 /\ x6' = (x6 \/ x3.at = "comment")
    BY <1>10 DEF Drift!Stops
  <2> QED
    BY <1>0, <2>1, DriftOff DEF DriftInv, DriftTyped
<1> QED
  BY <1>2, <1>3, <1>4, <1>5, <1>6, <1>7, <1>8, <1>9, <1>10 DEF Drift!Next

\* What the run checks: of each state, and of each step, which UpdateIssue alone could close.
LEMMA DriftTold == DriftInv => Drift!ChangesTold
BY DEF DriftInv, Drift!ChangesTold

LEMMA DriftClosed == DriftInv /\ [Drift!Next]_(Drift!vars) => Drift!ClosedInSync
<1> SUFFICES ASSUME DriftInv, [Drift!Next]_(Drift!vars), x4.open, ~x4'.open, x3.at = "update", NEW s \in 1..StackCount
             PROVE  x3.found[s] = IF x3.head[s] = 0 THEN "none" ELSE "in-sync"
  BY DEF Drift!ClosedInSync
<1>1. Drift!UpdateIssue
  BY DEF Drift!Next, Drift!Merge, Drift!DeployStarts, Drift!DeployEnds, Drift!StackDeleted, Drift!ClosedByHand, Drift!Checkout,
     Drift!listStacks, Drift!Compare, Drift!ReadIssue, Drift!Comment, Drift!Stops, Drift!vars, Drift!checks
<1>2. Drift!needsAttention = {}
  BY <1>1 DEF Drift!UpdateIssue
<1>3. x3.found[s] \in Drift!States \ Drift!Bad
  <2>1. x3.found[s] \in Drift!States
    BY DEF DriftInv, DriftTyped, DriftRun
  <2>2. ASSUME x3.found[s] \in Drift!Bad PROVE FALSE
    <3>1. <<s, x3.found[s]>> \in Drift!needsAttention
      BY <2>2 DEF Drift!needsAttention
    <3> QED
      BY <1>2, <3>1
  <2> QED
    BY <2>1, <2>2
<1>4. DriftFits(s)
  BY DEF DriftInv
<1> QED
  BY <1>3, <1>4 DEF DriftFits, Drift!States, Drift!Bad

--------------------------------------------------------------------------------
(***************************************************************************)
(* That a release's sealing key serves its enclaves only, ends by          *)
(* retirement only and stays the key of its stack, for every list of       *)
(* images, every retirement window and every policy text that may be       *)
(* rendered.  The argument is that whatever was accepted passed the check  *)
(* (keypolicy.ts), and that a checked policy permits nobody what would     *)
(* change it; the window then follows from the days counted down.          *)
(***************************************************************************)
CONSTANTS KeyTarget, KeyAdmitted, KeyUnlisted,                 \* images: a release's own, those its list admits, any other
          Window, Windows, KeyDays, MaxDeploys                 \* days a sealing key waits to be deleted; stack updates

ASSUME KeyAssumption ==
  /\ KeyUnlisted \cap ({KeyTarget} \cup KeyAdmitted) = {} /\ Window \in Nat \ {0} /\ Windows \subseteq Nat
  /\ KeyDays \in Nat /\ MaxDeploys \in Nat

Key == INSTANCE ReleaseKey WITH
               Target <- KeyTarget, Admitted <- KeyAdmitted, Unlisted <- KeyUnlisted, Window <- Window, Windows <- Windows,
               MaxTime <- KeyDays, MaxDeploys <- MaxDeploys,
               res <- x1, key <- x2, deploys <- x3, now <- x4

\* An image that is on no list is not the release's own either, and a window is some days.
KeyConstants ==
  /\ KeyUnlisted \cap ({KeyTarget} \cup KeyAdmitted) = {}
  /\ Window \in Nat \ {0} /\ Windows \subseteq Nat
  /\ KeyDays \in Nat /\ MaxDeploys \in Nat

KeyStates == {"none", "Enabled", "Disabled", "PendingDeletion", "Deleted"}

KeyPolicies == Key!Policies \cup {Key!Open, {}}

KeyRows == [policy : KeyPolicies, state : KeyStates, granted : BOOLEAN,
         left : Int, since : Int]

\* A key was checked when it was made, nothing was added to it, and its days are counted.
KeyChecked ==
  /\ x2 \in KeyRows /\ ~x2.granted
  /\ x2.state # "none" => Key!CheckPolicy(x2.policy)

DaysCounted ==
  /\ x4 \in 0..KeyDays /\ x3 \in 0..MaxDeploys
  /\ x2.left \in 0..Window /\ x2.since \in 0..x4
  /\ x2.state = "PendingDeletion" => x2.left >= 1 /\ x2.left >= Window - (x4 - x2.since)
  /\ x2.state = "Deleted" => x4 >= x2.since + Window

\* The resource's physical id carries the hash of the policy the key has.
OwnResource ==
  /\ x1 \in [at : {"none", "steady", "updating", "rollback"}, props : {x1.props},
              want : {x1.want}, had : {x1.had}]
  /\ x1.at # "none" => x2.state # "none" /\ x1.props = x2.policy /\ x1.had = x2.policy

KeyInv == KeyChecked /\ DaysCounted /\ OwnResource

--------------------------------------------------------------------------------
(* What a checked policy permits (keypolicy.ts, checks 4 to 8).            *)

\* What is permitted by a checked policy is permitted by a statement that names it.
LEMMA PermittedBy ==
  ASSUME NEW P, Key!CheckPolicy(P), NEW p, NEW a, NEW img, NEW w, Key!Permits(P, p, a, img, w)
  PROVE  \E s \in P : /\ Key!CheckAllow(s) /\ Key!Covers(s.who, p) /\ a \in s.acts
                      /\ s.images = {} \/ img \in s.images
                      /\ s.callers = {} \/ Key!AccountOf(p) \in s.callers
                      /\ s.window = 0 \/ (a = "ScheduleKeyDeletion" /\ w = s.window)
<1>1. PICK s \in P : /\ Key!Covers(s.who, p) /\ (a \in s.acts \/ "*" \in s.acts)
                     /\ s.images = {} \/ img \in s.images
                     /\ s.callers = {} \/ Key!AccountOf(p) \in s.callers
                     /\ s.window = 0 \/ (a = "ScheduleKeyDeletion" /\ w = s.window)
  BY DEF Key!Permits
<1>2. Key!CheckAllow(s)
  BY DEF Key!CheckPolicy
<1>3. "*" \notin s.acts
  BY <1>2 DEF Key!CheckAllow, Key!Gated, Key!ReadOnly, Key!Retirement
<1> QED
  BY <1>1, <1>2, <1>3

\* Of the gated uses: the image is one the check admits for it, the caller is ours.
LEMMA GatedUse ==
  ASSUME NEW P, Key!CheckPolicy(P), NEW p, NEW a \in Key!Gated, NEW img, NEW w, Key!Permits(P, p, a, img, w)
  PROVE  img \in Key!AdmittedFor(a) /\ Key!AccountOf(p) = Key!Own
<1>1. PICK s \in P : /\ Key!CheckAllow(s) /\ a \in s.acts
                     /\ s.images = {} \/ img \in s.images
                     /\ s.callers = {} \/ Key!AccountOf(p) \in s.callers
  BY PermittedBy
<1>2. s.images # {} /\ s.images \subseteq Key!AdmittedFor(a)
  BY <1>1 DEF Key!CheckAllow, Key!Attested
<1>3. s.callers # {} /\ s.callers \subseteq {Key!Own}
  BY <1>1 DEF Key!CheckAllow, Key!PrincipalsRight
<1> QED
  BY <1>1, <1>2, <1>3

\* Nobody may put another policy or a grant, or do anything else the check does not name.
LEMMA OnlyChecked ==
  ASSUME NEW P, Key!CheckPolicy(P), NEW p, NEW a, NEW img, NEW w, Key!Permits(P, p, a, img, w)
  PROVE  a \in Key!Gated \cup Key!ReadOnly \cup Key!Retirement
BY PermittedBy DEF Key!CheckAllow

\* A deletion is scheduled by the retirement role, a whole window ahead.
LEMMA Scheduled ==
  ASSUME KeyConstants, NEW P, Key!CheckPolicy(P), NEW p, NEW img, NEW w,
         Key!Permits(P, p, "ScheduleKeyDeletion", img, w)
  PROVE  w = Window /\ p \notin {"host", "foreign"}
<1>1. PICK s \in P : /\ Key!CheckAllow(s) /\ Key!Covers(s.who, p) /\ "ScheduleKeyDeletion" \in s.acts
                     /\ s.window = 0 \/ w = s.window
  BY PermittedBy
<1>2. s.window = Window /\ s.who = {"retirement"}
  BY <1>1 DEF Key!CheckAllow, Key!WindowRight, Key!PrincipalsRight, Key!Retirement
<1> QED
  BY <1>1, <1>2 DEF KeyConstants, Key!Covers

--------------------------------------------------------------------------------
(* The invariant, action by action.                                        *)

LEMMA KeyInit == KeyConstants /\ Key!Init => KeyInv
BY DEF KeyConstants, Key!Init, KeyInv, KeyChecked, DaysCounted, OwnResource, Key!NoKey, Key!NoRes, KeyRows, KeyPolicies, KeyStates

LEMMA KeyMade == KeyConstants /\ KeyInv /\ Key!Create => KeyInv'
<1> SUFFICES ASSUME KeyConstants, KeyInv, Key!Create PROVE KeyInv'
  OBVIOUS
<1>1. PICK text \in Key!Texts : /\ Key!Preflight(text)
                            /\ \E P \in {text.first, text.last} :
                                 x2' = [Key!NoKey EXCEPT !.policy = P, !.state = "Enabled"]
                            /\ x1' \in {Key!NoRes, [Key!NoRes EXCEPT !.at = "steady", !.props = text.last,
                                                              !.had = text.last]}
  BY DEF Key!Create, Key!Parsed
<1>2. Key!CheckPolicy(text.last) /\ text.first = text.last /\ text.last \in Key!Policies \cup {Key!Open}
  <2>1. Key!Rendered \in Key!Policies
    BY DEF Key!Policies
  <2> QED
    BY <1>1, <2>1 DEF Key!Preflight, Key!Parses, Key!Parsed, Key!Texts, Key!Written
<1>3. x2' = [policy |-> text.last, state |-> "Enabled", granted |-> FALSE, left |-> 0, since |-> 0]
  BY <1>1, <1>2 DEF Key!NoKey
<1>4. KeyChecked'
  BY <1>2, <1>3 DEF KeyChecked, KeyRows, KeyPolicies, KeyStates, Key!CheckPolicy
<1>5. DaysCounted'
  <2>1. x2'.left = 0 /\ x2'.since = 0 /\ x2'.state = "Enabled"
    BY <1>3
  <2>2. x3' \in 0..MaxDeploys /\ x4' = x4
    BY DEF KeyConstants, KeyInv, DaysCounted, Key!Create
  <2> QED
    BY <2>1, <2>2 DEF KeyConstants, KeyInv, DaysCounted
<1>6. OwnResource'
  <2>1. x2'.state = "Enabled" /\ x2'.policy = text.last
    BY <1>3
  <2>2. CASE x1' = Key!NoRes
    BY <2>2 DEF OwnResource, Key!NoRes
  <2>3. CASE x1' = [Key!NoRes EXCEPT !.at = "steady", !.props = text.last, !.had = text.last]
    <3>1. x1' = [at |-> "steady", props |-> text.last, want |-> {}, had |-> text.last]
      BY <2>3 DEF Key!NoRes
    <3> QED
      BY <2>1, <3>1 DEF OwnResource
  <2> QED
    BY <1>1, <2>2, <2>3
<1> QED
  BY <1>4, <1>5, <1>6 DEF KeyInv

LEMMA KeyUpdates == KeyConstants /\ KeyInv /\ (Key!StartUpdate \/ Key!Update \/ Key!Delete) => KeyInv'
<1> SUFFICES ASSUME KeyConstants, KeyInv, Key!StartUpdate \/ Key!Update \/ Key!Delete PROVE KeyInv'
  OBVIOUS
<1>1. x2' = x2 /\ x4' = x4 /\ x3' \in 0..MaxDeploys
  BY DEF KeyConstants, KeyInv, DaysCounted, Key!StartUpdate, Key!Update, Key!Delete, Key!DropsKey
<1>2. KeyChecked' /\ DaysCounted'
  BY <1>1 DEF KeyInv, KeyChecked, DaysCounted, Key!CheckPolicy
<1>3. OwnResource'
  <2>1. CASE Key!StartUpdate
    BY <1>1, <2>1 DEF KeyInv, OwnResource, Key!StartUpdate
  <2>2. CASE Key!Update
    BY <1>1, <2>2 DEF KeyInv, OwnResource, Key!Update, Key!Unchanged
  <2>3. CASE Key!Delete
    BY <1>1, <2>3 DEF KeyInv, OwnResource, Key!Delete, Key!NoRes
  <2> QED
    BY <2>1, <2>2, <2>3
<1> QED
  BY <1>2, <1>3 DEF KeyInv

LEMMA KeyAsked == KeyConstants /\ KeyInv /\ Key!Request => KeyInv'
<1> SUFFICES ASSUME KeyConstants, KeyInv, Key!Request PROVE KeyInv'
  OBVIOUS
<1>1. PICK p, a, w : /\ w \in Windows \ {0} /\ a \in Key!Actions
                     /\ Key!Permits(x2.policy, p, a, KeyTarget, w) /\ x2' = Key!Requested(a, w)
  BY DEF Key!Request
<1>2. /\ x2.state # "none" /\ Key!CheckPolicy(x2.policy) /\ UNCHANGED <<x1, x3, x4>>
  BY DEF KeyInv, KeyChecked, Key!Request
<1>3. a \in Key!Gated \cup Key!ReadOnly \cup Key!Retirement
  BY <1>1, <1>2, OnlyChecked
<1>4. \/ x2' = x2
      \/ x2' = [x2 EXCEPT !.state = "PendingDeletion", !.left = w, !.since = x4] /\ w = Window
      \/ /\ x2' = [x2 EXCEPT !.state = "Disabled", !.left = 0]
         /\ x2.state = "PendingDeletion"
      \/ x2' = [x2 EXCEPT !.state = "Enabled"] /\ x2.state = "Disabled"
  BY <1>1, <1>2, <1>3, Scheduled DEF Key!Requested, Key!Gated, Key!ReadOnly, Key!Retirement
<1>5. /\ x2' \in KeyRows /\ x2'.policy = x2.policy /\ x2'.granted = x2.granted
      /\ \/ x2'.state = x2.state /\ x2'.left = x2.left /\ x2'.since = x2.since
         \/ x2'.state = "PendingDeletion" /\ x2'.left = Window /\ x2'.since = x4
         \/ x2'.state \in {"Enabled", "Disabled"} /\ x2'.left \in {x2.left, 0}
            /\ x2'.since = x2.since
  <2>1. x4 \in Int /\ Window \in Int /\ x2 \in KeyRows
    BY DEF KeyConstants, KeyInv, KeyChecked, DaysCounted
  <2>2. CASE x2' = x2
    BY <2>1, <2>2
  <2>3. CASE x2' = [x2 EXCEPT !.state = "PendingDeletion", !.left = w, !.since = x4] /\ w = Window
    <3>1. /\ x2'.state = "PendingDeletion" /\ x2'.left = Window /\ x2'.since = x4
          /\ x2'.policy = x2.policy /\ x2'.granted = x2.granted
      BY <2>1, <2>3 DEF KeyRows
    <3>2. x2' \in KeyRows
      BY <2>1, <2>3 DEF KeyRows, KeyStates
    <3> QED
      BY <3>1, <3>2
  <2>4. CASE x2' = [x2 EXCEPT !.state = "Disabled", !.left = 0]
    <3>1. /\ x2'.state = "Disabled" /\ x2'.left = 0 /\ x2'.since = x2.since
          /\ x2'.policy = x2.policy /\ x2'.granted = x2.granted
      BY <2>1, <2>4 DEF KeyRows
    <3>2. x2' = [policy |-> x2.policy, state |-> "Disabled", granted |-> x2.granted,
                  left |-> 0, since |-> x2.since]
      BY <2>1, <2>4 DEF KeyRows
    <3>3. x2' \in KeyRows
      BY <2>1, <3>2 DEF KeyRows, KeyStates
    <3> QED
      BY <3>1, <3>3
  <2>5. CASE x2' = [x2 EXCEPT !.state = "Enabled"]
    <3>1. /\ x2'.state = "Enabled" /\ x2'.left = x2.left /\ x2'.since = x2.since
          /\ x2'.policy = x2.policy /\ x2'.granted = x2.granted
      BY <2>1, <2>5 DEF KeyRows
    <3>2. x2' \in KeyRows
      BY <2>1, <2>5 DEF KeyRows, KeyStates
    <3> QED
      BY <3>1, <3>2
  <2> QED
    BY <1>4, <2>2, <2>3, <2>4, <2>5
<1>6. KeyChecked'
  BY <1>2, <1>5 DEF KeyInv, KeyChecked, Key!CheckPolicy
<1>8. DaysCounted'
  BY <1>2, <1>5 DEF KeyConstants, KeyInv, DaysCounted
<1>7. OwnResource'
  BY <1>2, <1>4 DEF KeyInv, KeyChecked, OwnResource, KeyRows
<1> QED
  BY <1>6, <1>7, <1>8 DEF KeyInv

LEMMA KeyDay == KeyConstants /\ KeyInv /\ Key!Day => KeyInv'
<1> SUFFICES ASSUME KeyConstants, KeyInv, Key!Day PROVE KeyInv'
  OBVIOUS
<1>1. /\ x2 \in KeyRows /\ x4' = x4 + 1 /\ x4 < KeyDays /\ UNCHANGED <<x1, x3>>
      /\ \/ x2' = x2 /\ x2.state # "PendingDeletion"
         \/ /\ x2' = [x2 EXCEPT !.state = "Deleted", !.left = 0]
            /\ x2.state = "PendingDeletion" /\ x2.left = 1
         \/ /\ x2' = [x2 EXCEPT !.left = @ - 1]
            /\ x2.state = "PendingDeletion" /\ x2.left # 1
  BY DEF KeyInv, KeyChecked, Key!Day
<1>2. /\ x2' \in KeyRows /\ x2'.policy = x2.policy /\ x2'.granted = x2.granted
      /\ x2'.since = x2.since
      /\ \/ x2'.state = x2.state /\ x2'.left = x2.left /\ x2.state # "PendingDeletion"
         \/ /\ x2'.state = "Deleted" /\ x2'.left = 0
            /\ x2.state = "PendingDeletion" /\ x2.left = 1
         \/ /\ x2'.state = "PendingDeletion" /\ x2'.left = x2.left - 1
            /\ x2.state = "PendingDeletion" /\ x2.left # 1
  <2>1. CASE x2' = x2 /\ x2.state # "PendingDeletion"
    BY <1>1, <2>1
  <2>2. CASE /\ x2' = [x2 EXCEPT !.state = "Deleted", !.left = 0]
             /\ x2.state = "PendingDeletion" /\ x2.left = 1
    <3>1. /\ x2'.state = "Deleted" /\ x2'.left = 0 /\ x2'.since = x2.since
          /\ x2'.policy = x2.policy /\ x2'.granted = x2.granted
      BY <1>1, <2>2 DEF KeyRows
    <3>2. x2' = [policy |-> x2.policy, state |-> "Deleted", granted |-> x2.granted,
                  left |-> 0, since |-> x2.since]
      BY <1>1, <2>2 DEF KeyRows
    <3>3. x2' \in KeyRows
      BY <1>1, <3>2 DEF KeyRows, KeyStates
    <3> QED
      BY <2>2, <3>1, <3>3
  <2>3. CASE /\ x2' = [x2 EXCEPT !.left = @ - 1]
             /\ x2.state = "PendingDeletion" /\ x2.left # 1
    <3>1. /\ x2'.state = x2.state /\ x2'.left = x2.left - 1 /\ x2'.since = x2.since
          /\ x2'.policy = x2.policy /\ x2'.granted = x2.granted
      BY <1>1, <2>3 DEF KeyRows
    <3>2. x2' = [policy |-> x2.policy, state |-> x2.state, granted |-> x2.granted,
                  left |-> x2.left - 1, since |-> x2.since]
      BY <1>1, <2>3 DEF KeyRows
    <3>3. x2.left - 1 \in Int
      BY <1>1 DEF KeyRows
    <3> DEFINE left == x2.left - 1
    <3> HIDE DEF left
    <3>4. x2' = [policy |-> x2.policy, state |-> x2.state, granted |-> x2.granted,
                  left |-> left, since |-> x2.since]
      BY <3>2 DEF left
    <3>5. left \in Int
      BY <3>3 DEF left
    <3>6. x2' \in KeyRows
      BY <1>1, <3>4, <3>5 DEF KeyRows
    <3> QED
      BY <2>3, <3>1, <3>6
  <2> QED
    BY <1>1, <2>1, <2>2, <2>3
<1>3. KeyChecked'
  BY <1>1, <1>2 DEF KeyInv, KeyChecked, Key!CheckPolicy
<1>4. DaysCounted'
  BY <1>1, <1>2 DEF KeyConstants, KeyInv, DaysCounted
<1>5. OwnResource'
  BY <1>1, <1>2 DEF KeyInv, OwnResource
<1> QED
  BY <1>3, <1>4, <1>5 DEF KeyInv

LEMMA KeyStep == KeyConstants /\ KeyInv /\ [Key!Next]_(Key!vars) => KeyInv'
<1>1. KeyInv /\ UNCHANGED Key!vars => KeyInv'
  BY DEF Key!vars, KeyInv, KeyChecked, DaysCounted, OwnResource, Key!CheckPolicy
<1> QED
  BY <1>1, KeyMade, KeyUpdates, KeyAsked, KeyDay DEF Key!Next

(* What the key's handler and KMS keep between them, whatever is asked. *)
THEOREM KeyAlways == ASSUME KeyConstants PROVE Key!Spec => []KeyInv
<1>1. Key!Init => KeyInv
  BY KeyInit
<1>2. KeyInv /\ [Key!Next]_(Key!vars) => KeyInv'
  BY KeyStep
<1> QED
  BY <1>1, <1>2, PTL DEF Key!Spec

--------------------------------------------------------------------------------
LEMMA KeySafe == KeyConstants /\ KeyInv => Key!TypeOK /\ Key!OnlyEnclaves /\ Key!EndsByRetirement /\ Key!KeyOfStack
<1> SUFFICES ASSUME KeyConstants, KeyInv
             PROVE  Key!TypeOK /\ Key!OnlyEnclaves /\ Key!EndsByRetirement /\ Key!KeyOfStack
  OBVIOUS
<1>1. Key!TypeOK
  BY DEF KeyConstants, KeyInv, KeyChecked, DaysCounted, OwnResource, Key!TypeOK, KeyRows, KeyStates
<1>2. Key!OnlyEnclaves
  <2> SUFFICES ASSUME x2.state # "none" PROVE Key!OnlyEnclaves
    BY DEF Key!OnlyEnclaves
  <2>1. Key!CheckPolicy(x2.policy) /\ ~x2.granted
    BY DEF KeyInv, KeyChecked
  <2>2. ASSUME NEW p, NEW img \in Key!Images, Key!Permits(x2.policy, p, "Decrypt", img, 0)
        PROVE  img = KeyTarget /\ Key!AccountOf(p) = Key!Own
    BY <2>1, <2>2, GatedUse DEF Key!Gated, Key!AdmittedFor
  <2>3. ASSUME NEW p, NEW img \in Key!Images, Key!Permits(x2.policy, p, "GenerateDataKey", img, 0)
        PROVE  img \notin KeyUnlisted /\ Key!AccountOf(p) = Key!Own
    BY <2>1, <2>3, GatedUse DEF KeyConstants, Key!Gated, Key!AdmittedFor
  <2>4. \A p : ~Key!Permits(x2.policy, p, "PutKeyPolicy", KeyTarget, 0)
    BY <2>1, OnlyChecked DEF Key!Gated, Key!ReadOnly, Key!Retirement
  <2> QED
    BY <2>1, <2>2, <2>3, <2>4 DEF Key!OnlyEnclaves
<1>3. Key!EndsByRetirement
  <2>1. ASSUME x2.state # "none", NEW p \in {"host", "foreign"}, NEW w \in Windows
        PROVE  ~Key!Permits(x2.policy, p, "ScheduleKeyDeletion", KeyTarget, w)
    BY <2>1, Scheduled DEF KeyInv, KeyChecked
  <2> QED
    BY <2>1 DEF KeyInv, DaysCounted, Key!EndsByRetirement
<1>4. Key!KeyOfStack
  BY DEF KeyInv, KeyChecked, OwnResource, Key!KeyOfStack, Key!CheckReleaseKey
<1> QED
  BY <1>1, <1>2, <1>3, <1>4

(* Whatever policy was accepted and whatever was asked of KMS since, the   *)
(* key decrypts for an attested enclave of its release only and seals for  *)
(* a listed one only, and it never gets a grant or another policy          *)
(* (keypolicy.ts, checkPolicy).                                            *)
THEOREM OnlyEnclavesHolds == ASSUME KeyConstants PROVE Key!Spec => []Key!OnlyEnclaves
BY KeyAlways, KeySafe, PTL

(* The key ends by its retirement role only, a whole window after it was   *)
(* asked (release-key.ts, keypolicy.ts).                                   *)
THEOREM EndsByRetirementHolds == ASSUME KeyConstants PROVE Key!Spec => []Key!EndsByRetirement
BY KeyAlways, KeySafe, PTL

(* The resource CloudFormation holds for done names the key made with its  *)
(* properties, and the enclave's own check accepts it while it is enabled  *)
(* (release-key.ts, the handler).                                          *)
THEOREM KeyOfStackHolds == ASSUME KeyConstants PROVE Key!Spec => []Key!KeyOfStack
BY KeyAlways, KeySafe, PTL

--------------------------------------------------------------------------------
(***************************************************************************)
(* That an address is on the mailing list by its owner's own sign-up and   *)
(* consent, for any number of sign-ups at once.  A sign-up's number is its *)
(* own until its row is written, so what a removal deleted comes back      *)
(* under a number of its own only; a row that was written for the list's   *)
(* own link does not wait for SES, so the sweep never confirms it.         *)
(***************************************************************************)
CONSTANTS ListSignUps, ListMarkers                             \* sign-ups for the mailing list, and rows of its sweep

ASSUME ListAssumption == ListSignUps \in Nat /\ ListMarkers \in Nat

List == INSTANCE MailingList WITH
               Calls <- Two, Subscriptions <- ListSignUps, MaxMarkers <- ListMarkers,
               row <- x1, markers <- x2, identity <- x3, member <- x4, call <- x5, unsub <- x6,
               sweep <- x7, made <- x8, mailed <- x9, opened <- x10, left <- x11

ListCalls == [at : {"idle", "create", "look", "pending", "link", "send"},
              id : {0} \cup List!Ids, created : BOOLEAN]

\* A sign-up whose row is not written yet.
Unwritten(c) == x5[c].at \in {"create", "look", "pending", "link"}

ListTyped == x1 \in List!Rows /\ x5 \in [Two -> ListCalls] /\ x8 \in 0..ListSignUps

\* Its number is nobody else's, and of none that left.
OwnNumbers ==
  /\ x1.id \in 0..x8 /\ x11 \subseteq 0..x8
  /\ \A c \in Two : Unwritten(c) => x5[c].id \in (1..x8) \ (x11 \cup {x1.id})
  /\ \A c, d \in Two : c # d /\ Unwritten(c) /\ Unwritten(d) => x5[c].id # x5[d].id

ConsentGiven ==
  /\ List!ListedByConsent
  /\ x1.status = "pending" => ~x1.link

ListInv == ListTyped /\ OwnNumbers /\ ConsentGiven

LEMMA ListInit == List!Init => ListInv
BY ListAssumption DEF List!Init, ListInv, ListTyped, OwnNumbers, ConsentGiven, Unwritten, ListCalls,
   List!ListedByConsent, List!Listed, List!Rows, List!NoRow, List!NoCall

\* The calls: one begins, goes on, writes its row, or ends.
LEMMA ListSubscribe ==
  ASSUME ListInv, NEW c \in Two, List!Subscribe(c)
  PROVE  ListInv'
<1> DEFINE n == [List!NoCall EXCEPT !.at = "create", !.id = x8 + 1]
<1>1. /\ x5' = [x5 EXCEPT ![c] = n] /\ x8' = x8 + 1 /\ x8 < ListSignUps
      /\ x1' = x1 /\ x10' = x10 /\ x11' = x11
  BY DEF List!Subscribe
<1>2. n \in ListCalls /\ n.at = "create" /\ n.id = x8 + 1 /\ x8' \in 0..ListSignUps
  <2>1. x8 \in 0..ListSignUps /\ x8 + 1 \in List!Ids
    BY <1>1, ListAssumption DEF ListInv, ListTyped, List!Ids
  <2>2. List!NoCall \in ListCalls
    BY DEF ListCalls, List!NoCall
  <2>3. \A a \in {"create"}, i \in List!Ids : [List!NoCall EXCEPT !.at = a, !.id = i] \in ListCalls
    BY <2>2 DEF ListCalls
  <2>4. n \in ListCalls
    BY <2>1, <2>3
  <2>5. n.at = "create" /\ n.id = x8 + 1
    BY DEF List!NoCall
  <2> QED
    BY <1>1, <2>1, <2>4, <2>5 DEF List!Ids
<1>3. x5' \in [Two -> ListCalls] /\ x5'[c] = n /\ \A d \in Two \ {c} : x5'[d] = x5[d]
  BY <1>1, <1>2 DEF ListInv, ListTyped
<1>4. ListTyped'
  BY <1>1, <1>2, <1>3 DEF ListInv, ListTyped, List!Rows, List!Ids
<1>5. x1'.id \in 0..x8' /\ x11' \subseteq 0..x8'
  BY <1>1 DEF ListInv, ListTyped, OwnNumbers
<1>6. ASSUME NEW d \in Two, Unwritten(d)' PROVE x5'[d].id \in (1..x8') \ (x11' \cup {x1'.id})
  <2>1. CASE d = c
    BY <1>1, <1>2, <1>3, <2>1 DEF ListInv, ListTyped, OwnNumbers
  <2>2. CASE d # c
    BY <1>1, <1>3, <1>6, <2>2 DEF ListInv, ListTyped, OwnNumbers, Unwritten
  <2> QED
    BY <2>1, <2>2
<1>7. ASSUME NEW d \in Two, NEW e \in Two, d # e, Unwritten(d)', Unwritten(e)' PROVE x5'[d].id # x5'[e].id
  BY <1>1, <1>2, <1>3, <1>7 DEF ListInv, ListTyped, OwnNumbers, Unwritten
<1>8. OwnNumbers'
  BY <1>5, <1>6, <1>7 DEF OwnNumbers
<1> QED
  BY <1>1, <1>4, <1>8 DEF ListInv, ConsentGiven, List!ListedByConsent, List!Listed

\* What is not a call's write leaves its number as it was, or ends it.
LEMMA ListCallGoesOn ==
  ASSUME ListInv, NEW c \in Two,
         List!CreateIdentity(c) \/ List!LookIdentity(c) \/ List!SendLink(c) \/ List!SubscribeFails(c)
  PROVE  ListInv'
<1>1. x1' = x1 /\ x8' = x8 /\ x10' = x10 /\ x11' = x11
  BY DEF List!CreateIdentity, List!LookIdentity, List!SendLink, List!SubscribeFails
<1>2. PICK n \in ListCalls : x5' = [x5 EXCEPT ![c] = n] /\ (n.at \in {"idle", "send"} \/ (Unwritten(c) /\ n.id = x5[c].id))
  <2>1. x5[c] \in ListCalls /\ DOMAIN x5 = Two
    BY DEF ListInv, ListTyped
  <2>2. \A a \in {"look", "pending", "link"} : [x5[c] EXCEPT !.at = a] \in ListCalls
    BY <2>1 DEF ListCalls
  <2>3. [x5[c] EXCEPT !.at = "pending", !.created = TRUE] \in ListCalls
    BY <2>1 DEF ListCalls
  <2>4. List!NoCall \in ListCalls /\ List!NoCall.at = "idle"
    BY DEF ListCalls, List!NoCall
  <2>5. CASE x5' = [x5 EXCEPT ![c] = List!NoCall]
    BY <2>4, <2>5
  <2>6. CASE List!CreateIdentity(c) /\ x3 = "missing"
    <3> DEFINE n == [x5[c] EXCEPT !.at = "pending", !.created = TRUE]
    <3>1. x5' = [x5 EXCEPT ![c] = n] /\ x5[c].at = "create"
      BY <2>1, <2>6 DEF List!CreateIdentity
    <3>2. n \in ListCalls /\ n.id = x5[c].id
      BY <2>1, <2>3 DEF ListCalls
    <3> QED
      BY <3>1, <3>2 DEF Unwritten
  <2>7. CASE \E a \in {"look", "pending", "link"} : x5' = [x5 EXCEPT ![c].at = a] /\ x5[c].at \in {"create", "look"}
    <3>1. PICK a \in {"look", "pending", "link"} : x5' = [x5 EXCEPT ![c].at = a] /\ x5[c].at \in {"create", "look"}
      BY <2>7
    <3> DEFINE n == [x5[c] EXCEPT !.at = a]
    <3>2. n \in ListCalls /\ n.id = x5[c].id
      BY <2>1, <2>2 DEF ListCalls
    <3>3. x5' = [x5 EXCEPT ![c] = n]
      BY <3>1, <2>1
    <3> QED
      BY <3>1, <3>2, <3>3 DEF Unwritten
  <2> QED
    BY <2>5, <2>6, <2>7 DEF List!CreateIdentity, List!LookIdentity, List!SendLink, List!SubscribeFails
<1>3. x5' \in [Two -> ListCalls] /\ x5'[c] = n /\ \A d \in Two \ {c} : x5'[d] = x5[d]
  BY <1>2 DEF ListInv, ListTyped
<1>4. ListTyped'
  BY <1>1, <1>3 DEF ListInv, ListTyped, ListCalls, List!Rows, List!Ids
<1>5. \A d \in Two : Unwritten(d)' => Unwritten(d) /\ x5'[d].id = x5[d].id
  BY <1>2, <1>3 DEF Unwritten
<1>6. OwnNumbers'
  BY <1>1, <1>5 DEF ListInv, OwnNumbers
<1> QED
  BY <1>1, <1>4, <1>6 DEF ListInv, ConsentGiven, List!ListedByConsent, List!Listed

LEMMA ListPutRow ==
  ASSUME ListInv, NEW c \in Two, List!PutRow(c)
  PROVE  ListInv'
<1>0. x5[c] \in ListCalls /\ DOMAIN x5 = Two /\ Unwritten(c)
  BY DEF ListInv, ListTyped, List!PutRow, Unwritten
<1>1. x8' = x8 /\ x10' = x10 /\ x11' = x11
  BY DEF List!PutRow
<1>2. PICK n \in ListCalls : x5' = [x5 EXCEPT ![c] = n] /\ n.at \in {"idle", "send"}
  <2>1. [x5[c] EXCEPT !.at = "send"] \in ListCalls
    BY <1>0 DEF ListCalls
  <2>2. List!NoCall \in ListCalls /\ List!NoCall.at = "idle"
    BY DEF ListCalls, List!NoCall
  <2> QED
    BY <1>0, <2>1, <2>2 DEF List!PutRow, ListCalls
<1>3. x5' \in [Two -> ListCalls] /\ x5'[c] = n /\ \A d \in Two \ {c} : x5'[d] = x5[d]
  BY <1>2 DEF ListInv, ListTyped
<1>4. \A d \in Two : Unwritten(d)' => d # c /\ Unwritten(d) /\ x5'[d].id = x5[d].id
  BY <1>2, <1>3 DEF Unwritten
<1>5. CASE x1' = x1
  <2>1. ListTyped'
    BY <1>1, <1>3, <1>5 DEF ListInv, ListTyped, ListCalls, List!Rows, List!Ids
  <2>2. OwnNumbers'
    BY <1>1, <1>4, <1>5 DEF ListInv, OwnNumbers
  <2> QED
    BY <1>1, <1>5, <2>1, <2>2 DEF ListInv, ConsentGiven, List!ListedByConsent, List!Listed
<1>6. CASE x1' # x1
  <2> DEFINE r == [id |-> x5[c].id, status |-> IF x5[c].at = "link" THEN "pending_link" ELSE "pending",
                   link |-> x5[c].at = "link", owns |-> x5[c].created, expired |-> FALSE]
  <2>1. x1' = r
    BY <1>6 DEF List!PutRow
  <2>2. r \in List!Rows /\ r.id = x5[c].id /\ r.status \in {"pending", "pending_link"} /\ (r.status = "pending" => ~r.link)
    BY <1>0 DEF List!Rows, ListCalls
  <2>3. x5[c].id \in (1..x8) \ x11
    BY <1>0 DEF ListInv, OwnNumbers
  <2>4. ListTyped'
    BY <1>1, <1>3, <2>1, <2>2 DEF ListInv, ListTyped, ListCalls, List!Rows, List!Ids
  <2>5. OwnNumbers'
    <3>1. x1'.id \in 0..x8' /\ x11' \subseteq 0..x8'
      BY <1>1, <2>1, <2>2, <2>3 DEF ListInv, OwnNumbers
    <3>2. \A d \in Two : Unwritten(d)' => x5'[d].id # x1'.id
      BY <1>0, <1>4, <2>1, <2>2 DEF ListInv, OwnNumbers
    <3> QED
      BY <1>1, <1>4, <3>1, <3>2 DEF ListInv, OwnNumbers
  <2> HIDE DEF r
  <2>6. ConsentGiven'
    BY <1>1, <2>1, <2>2, <2>3 DEF ConsentGiven, List!ListedByConsent, List!Listed
  <2> QED
    BY <2>4, <2>5, <2>6 DEF ListInv
<1> QED
  BY <1>5, <1>6

\* A row that is deleted, and one that changes under its own number.
LEMMA ListRowGone ==
  ASSUME ListInv, x1' = List!NoRow, x11' \in {x11, x11 \cup {x1.id}}, x5' = x5, x8' = x8, x10' = x10
  PROVE  ListInv'
<1>1. x1'.id = 0 /\ x1'.status = "none" /\ x1' \in List!Rows
  BY DEF List!NoRow, List!Rows
<1>2. ListTyped'
  BY <1>1 DEF ListInv, ListTyped, ListCalls, List!Rows, List!Ids
<1>3. OwnNumbers'
  <2>1. \A d \in Two : Unwritten(d)' => Unwritten(d) /\ x5'[d].id = x5[d].id
    BY DEF Unwritten
  <2>2. x8 \in Nat
    BY DEF ListInv, ListTyped
  <2> QED
    BY <1>1, <2>1, <2>2 DEF ListInv, OwnNumbers
<1> QED
  BY <1>1, <1>2, <1>3 DEF ListInv, ConsentGiven, List!ListedByConsent, List!Listed

LEMMA ListRowChanged ==
  ASSUME ListInv, x1' \in List!Rows, x1'.id = x1.id, x1'.link = x1.link, x1.status # "none",
         x1'.status = x1.status \/ (x1'.status = "confirmed" /\ (x1.link => x1.id \in x10')),
         x10 \subseteq x10', x5' = x5, x8' = x8, x11' = x11
  PROVE  ListInv'
<1>1. ListTyped'
  BY DEF ListInv, ListTyped, ListCalls, List!Rows, List!Ids
<1>2. OwnNumbers'
  <2>1. \A d \in Two : Unwritten(d)' => Unwritten(d) /\ x5'[d].id = x5[d].id
    BY DEF Unwritten
  <2> QED
    BY <2>1 DEF ListInv, OwnNumbers
<1> QED
  BY <1>1, <1>2 DEF ListInv, ConsentGiven, List!ListedByConsent, List!Listed

LEMMA ListSame ==
  ASSUME ListInv, x1' = x1, x5' = x5, x8' = x8, x10 \subseteq x10', x11' = x11
  PROVE  ListInv'
<1>1. \A d \in Two : Unwritten(d)' => Unwritten(d) /\ x5'[d].id = x5[d].id
  BY DEF Unwritten
<1>2. ListTyped'
  BY DEF ListInv, ListTyped, ListCalls, List!Rows, List!Ids
<1>3. OwnNumbers'
  BY <1>1 DEF ListInv, OwnNumbers
<1> QED
  BY <1>2, <1>3 DEF ListInv, ConsentGiven, List!ListedByConsent, List!Listed

LEMMA ListOwner == ListInv /\ List!OwnerNext => ListInv'
<1> SUFFICES ASSUME ListInv, List!OwnerNext PROVE ListInv'
  OBVIOUS
<1>0. x1 \in List!Rows
  BY DEF ListInv, ListTyped
<1>1. CASE List!Click \/ List!MemberComesOrGoes
  BY <1>1, ListSame DEF List!Click, List!MemberComesOrGoes
<1>2. ASSUME NEW i \in List!Ids, List!Confirm(i) PROVE ListInv'
  <2>1. x10' = x10 \cup {i} /\ x5' = x5 /\ x8' = x8 /\ x11' = x11
    BY <1>2 DEF List!Confirm
  <2>2. CASE x1.status = "pending_link" /\ List!OwnLink(i) /\ ~x1.expired
    <3>1. x1' = [x1 EXCEPT !.status = "confirmed"] /\ x1.id = i
      BY <1>2, <2>2 DEF List!Confirm, List!OwnLink
    <3>2. x1' \in List!Rows /\ x1'.id = x1.id /\ x1'.link = x1.link /\ x1'.status = "confirmed"
      BY <1>0, <3>1 DEF List!Rows
    <3> QED
      BY <2>1, <2>2, <3>1, <3>2, ListRowChanged
  <2>3. CASE ~(x1.status = "pending_link" /\ List!OwnLink(i) /\ ~x1.expired)
    BY <1>2, <2>1, <2>3, ListSame DEF List!Confirm
  <2> QED
    BY <2>2, <2>3
<1>3. CASE List!Expire
  <2>1. x1' = [x1 EXCEPT !.expired = TRUE] /\ x1.status # "none"
    BY <1>3 DEF List!Expire
  <2>2. x1' \in List!Rows /\ x1'.id = x1.id /\ x1'.link = x1.link /\ x1'.status = x1.status
    BY <1>0, <2>1 DEF List!Rows
  <2> QED
    BY <1>3, <2>1, <2>2, ListRowChanged DEF List!Expire
<1>4. CASE List!TimeToLive
  BY <1>4, ListRowGone DEF List!TimeToLive
<1> QED
  BY <1>1, <1>2, <1>3, <1>4 DEF List!OwnerNext

LEMMA ListRemoval == ListInv /\ List!RemovalNext => ListInv'
<1> SUFFICES ASSUME ListInv, List!RemovalNext PROVE ListInv'
  OBVIOUS
<1>1. CASE List!ReadRow \/ List!PutMarker \/ List!RemovalFails
  BY <1>1, ListSame DEF List!ReadRow, List!PutMarker, List!RemovalFails
<1>2. CASE List!DeleteRow
  <2>1. CASE x1.id = x6.id
    BY <1>2, <2>1, ListRowGone DEF List!DeleteRow
  <2>2. CASE x1.id # x6.id
    BY <1>2, <2>2, ListSame DEF List!DeleteRow
  <2> QED
    BY <2>1, <2>2
<1> QED
  BY <1>1, <1>2 DEF List!RemovalNext

LEMMA ListSweep == ListInv /\ List!SweepNext => ListInv'
<1> SUFFICES ASSUME ListInv, List!SweepNext PROVE ListInv'
  OBVIOUS
<1>0. x1 \in List!Rows
  BY DEF ListInv, ListTyped
<1>1. CASE \/ List!ReleaseRead \/ List!ReleaseLook \/ List!ReleaseDelete \/ List!Settle \/ List!Abandon
           \/ List!PendingRead \/ List!PendingLook \/ List!PurgeIdentity \/ List!SweepFails
  BY <1>1, ListSame DEF List!ReleaseRead, List!ReleaseLook, List!ReleaseDelete, List!Settle, List!Abandon,
     List!PendingRead, List!PendingLook, List!PurgeIdentity, List!SweepFails
<1>2. CASE List!ReleaseFlag
  <2>1. CASE List!Listed
    <3>1. x1' = [x1 EXCEPT !.owns = TRUE]
      BY <1>2, <2>1 DEF List!ReleaseFlag
    <3>2. x1' \in List!Rows /\ x1'.id = x1.id /\ x1'.link = x1.link /\ x1'.status = x1.status
      BY <1>0, <3>1 DEF List!Rows
    <3> QED
      BY <1>2, <2>1, <3>2, ListRowChanged DEF List!ReleaseFlag, List!Listed
  <2>2. CASE ~List!Listed
    BY <1>2, <2>2, ListSame DEF List!ReleaseFlag
  <2> QED
    BY <2>1, <2>2
<1>3. CASE List!DropRow
  BY <1>3, ListRowGone DEF List!DropRow
<1>4. CASE List!Promote
  <2>1. CASE x1.status = "pending"
    <3>1. x1' = [x1 EXCEPT !.status = "confirmed", !.expired = FALSE] /\ ~x1.link
      BY <1>4, <2>1 DEF List!Promote, List!StillPending, List!Listed, ListInv, ConsentGiven
    <3>2. x1' \in List!Rows /\ x1'.id = x1.id /\ x1'.link = x1.link /\ x1'.status = "confirmed"
      BY <1>0, <3>1 DEF List!Rows
    <3> QED
      BY <1>4, <2>1, <3>1, <3>2, ListRowChanged DEF List!Promote
  <2>2. CASE x1.status # "pending"
    BY <1>4, <2>2, ListSame DEF List!Promote, List!StillPending
  <2> QED
    BY <2>1, <2>2
<1> QED
  BY <1>1, <1>2, <1>3, <1>4 DEF List!SweepNext

LEMMA ListStep == ListInv /\ [List!Next]_(List!vars) => ListInv'
<1> SUFFICES ASSUME ListInv, [List!Next]_(List!vars) PROVE ListInv'
  OBVIOUS
<1>1. ASSUME List!SubscribeNext PROVE ListInv'
  BY <1>1, ListSubscribe, ListCallGoesOn, ListPutRow DEF List!SubscribeNext
<1>2. CASE UNCHANGED List!vars
  BY <1>2, ListSame DEF List!vars
<1> QED
  BY <1>1, <1>2, ListOwner, ListRemoval, ListSweep DEF List!Next

LEMMA ListSafe == ListInv => List!ListedByConsent
BY DEF ListInv, ConsentGiven

--------------------------------------------------------------------------------
(***************************************************************************)
(* A browser that was signed out stays so, for any number of tabs and of   *)
(* members who share it (BrowserSession: jar is x1, tokens x2, live x3,    *)
(* open x4, call x5, out x6, now x7, faults x8).  No answer sets a refresh *)
(* token but a sign-in's; and an answer to a call of before the sign-out,  *)
(* or to one with what such an answer brought back, names a member no      *)
(* longer than one ID token's life after it.                               *)
(***************************************************************************)
CONSTANTS SessionAccounts, SessionGuarded,                 \* the members, and those with a PIN
          SessionTokens, SessionTime, SessionFaults        \* refresh tokens, the time, calls that fail

ASSUME SessionAssumption ==
  {SessionTokens, SessionTime, SessionFaults} \subseteq Nat

Session == INSTANCE BrowserSession WITH
               Tabs <- Two, Accounts <- SessionAccounts, Guarded <- SessionGuarded, NoOne <- Empty,
               MaxTokens <- SessionTokens, MaxTime <- SessionTime, MaxFaults <- SessionFaults,
               jar <- x1, tokens <- x2, live <- x3, open <- x4, call <- x5, out <- x6, now <- x7,
               faults <- x8

SessionPages == {"none", "refused", "signin_page"}

SessionSetFits(s, out, now) ==
  /\ "rt" \in DOMAIN s => s.rt = 0
  /\ "old" \in DOMAIN s => s.old = 0
  /\ "id" \in DOMAIN s /\ out # -1 => s.id.till <= out + 1

SessionCallFits(c, out, now) ==
  /\ c = [at |-> c.at, set |-> c.set]
  /\ "id" \in DOMAIN c.set => c.set.id.till \in Nat /\ c.set.id.till <= now + 1
  /\ c.at = "signing_out" => c.set = Session!Cleared
  /\ (c.at = "signing_in" /\ "rt" \in DOMAIN c.set) \/ SessionSetFits(c.set, out, now)

SessionInv ==
  /\ x7 \in Nat /\ (x6 = -1 \/ x6 \in Nat)
  /\ DOMAIN x1 = {"id", "rt", "old", "pin", "present"} /\ x1.id.till \in Nat
  /\ x6 # -1 => x1.rt = 0 /\ x1.old = 0 /\ x1.id.till <= x6 + 1
  /\ DOMAIN x5 = Two /\ \A t \in Two : SessionCallFits(x5[t], x6, x7)

\* What may be under way.
LEMMA SessionSets ==
  ASSUME SessionInv
  PROVE  /\ \A at \in SessionPages : SessionCallFits([at |-> at, set |-> Session!Nothing], x6, x7)
         /\ \A at \in SessionPages \cup {"signing_out"} : SessionCallFits([at |-> at, set |-> Session!Cleared], x6, x7)
         /\ \A a : SessionCallFits([at |-> "signing_in", set |-> Session!NewSession(a)], x6, x7)
         /\ \A a : SessionCallFits([at |-> "signing_in", set |-> [pin |-> a]], x6, x7)
         /\ \A a : SessionCallFits([at |-> "called", set |-> [pin |-> a]], x6, x7)
         /\ \A a : SessionCallFits([at |-> "called", set |-> [present |-> a]], x6, x7)
         /\ \A a, n : x6 = -1 => SessionCallFits([at |-> "called", set |-> Session!Renewed(a, n)], x6, x7)
         /\ \A a : x6 = -1 => SessionCallFits([at |-> "refreshing", set |-> [id |-> Session!Id(a), pin |-> Empty]], x6, x7)
<1>1. x7 \in Nat /\ (x6 = -1 \/ x6 \in Nat) /\ x7 + 1 \in Nat
  BY DEF SessionInv
<1>2. \A at \in SessionPages : SessionCallFits([at |-> at, set |-> Session!Nothing], x6, x7)
  BY <1>1 DEF SessionCallFits, SessionSetFits, Session!Nothing, SessionPages
<1>3. \A at \in SessionPages \cup {"signing_out"} : SessionCallFits([at |-> at, set |-> Session!Cleared], x6, x7)
  <2> SUFFICES ASSUME NEW at \in SessionPages \cup {"signing_out"} PROVE SessionCallFits([at |-> at, set |-> Session!Cleared], x6, x7)
    OBVIOUS
  <2>1. Session!Cleared.rt = 0 /\ Session!Cleared.old = 0 /\ Session!Cleared.id.till = 0
    BY DEF Session!Cleared, Session!NoCookies, Session!NoId
  <2> QED
    BY <1>1, <2>1 DEF SessionCallFits, SessionSetFits, SessionPages
<1>4. \A a : SessionCallFits([at |-> "signing_in", set |-> Session!NewSession(a)], x6, x7)
  <2> SUFFICES ASSUME NEW a PROVE SessionCallFits([at |-> "signing_in", set |-> Session!NewSession(a)], x6, x7)
    OBVIOUS
  <2>1. Session!NewSession(a).id.till = x7 + 1 /\ "rt" \in DOMAIN Session!NewSession(a)
    BY DEF Session!NewSession, Session!Id
  <2> QED
    BY <1>1, <2>1 DEF SessionCallFits
<1>5. \A a : /\ SessionCallFits([at |-> "signing_in", set |-> [pin |-> a]], x6, x7)
             /\ SessionCallFits([at |-> "called", set |-> [pin |-> a]], x6, x7)
             /\ SessionCallFits([at |-> "called", set |-> [present |-> a]], x6, x7)
  BY <1>1 DEF SessionCallFits, SessionSetFits
<1>6. ASSUME NEW a, NEW n, x6 = -1
      PROVE  SessionCallFits([at |-> "called", set |-> Session!Renewed(a, n)], x6, x7)
  BY <1>1, <1>6 DEF SessionCallFits, SessionSetFits, Session!Renewed, Session!Id
<1>7. ASSUME NEW a, x6 = -1
      PROVE  SessionCallFits([at |-> "refreshing", set |-> [id |-> Session!Id(a), pin |-> Empty]], x6, x7)
  BY <1>1, <1>7 DEF SessionCallFits, SessionSetFits, Session!Id
<1> QED
  BY <1>2, <1>3, <1>4, <1>5, <1>6, <1>7

LEMMA SessionSends ==
  ASSUME SessionInv, UNCHANGED <<x1, x6, x7>>, NEW t \in Two, NEW at, NEW s, Session!Sent(t, at, s),
         SessionCallFits([at |-> at, set |-> s], x6, x7)
  PROVE  SessionInv'
<1>1. x5' = [x5 EXCEPT ![t] = [at |-> at, set |-> s]]
  BY DEF Session!Sent
<1> DEFINE c == [at |-> at, set |-> s]
<1> HIDE DEF c
<1>2. DOMAIN x5' = Two /\ \A u \in Two : x5'[u] = IF u = t THEN c ELSE x5[u]
  BY <1>1 DEF SessionInv, c
<1>3. \A u \in Two : SessionCallFits(x5'[u], x6, x7)
  BY <1>2 DEF SessionInv, c
<1> QED
  BY <1>2, <1>3 DEF SessionInv

LEMMA SessionInit == Session!Init => SessionInv
<1> SUFFICES ASSUME Session!Init PROVE SessionInv
  OBVIOUS
<1>1. x7 = 0 /\ x6 = -1 /\ x5 = [t \in Two |-> Session!NoCall]
  BY DEF Session!Init
<1>2. DOMAIN x1 = {"id", "rt", "old", "pin", "present"} /\ x1.id.till \in Nat
  <2>1. CASE x1 = Session!NoCookies
    BY <2>1 DEF Session!NoCookies, Session!NoId
  <2>2. CASE x1 # Session!NoCookies
    <3>1. PICK a \in SessionAccounts : x1 = [Session!NoCookies EXCEPT !.id = [who |-> a, till |-> 1], !.old = 1]
      BY <2>2 DEF Session!Init
    <3> QED
      BY <3>1 DEF Session!NoCookies
  <2> QED
    BY <2>1, <2>2
<1>3. SessionCallFits(Session!NoCall, x6, x7)
  BY <1>1 DEF SessionCallFits, SessionSetFits, Session!NoCall, Session!Nothing
<1> QED
  BY <1>1, <1>2, <1>3 DEF SessionInv

\* The calls of a tab: with no refresh token nothing is renewed.
LEMMA SessionCalls ==
  ASSUME SessionInv, NEW t \in Two,
         Session!Verify(t) \/ Session!EnterPin(t) \/ Session!Call(t) \/ Session!Refresh(t)
           \/ Session!Retry(t) \/ Session!SignOut(t)
  PROVE  SessionInv'
<1>1. UNCHANGED <<x1, x6, x7>>
  BY DEF Session!Verify, Session!EnterPin, Session!Call, Session!Refresh, Session!Retry, Session!SignOut
<1>2. CASE Session!Verify(t)
  <2>1. \E a : Session!Sent(t, "signing_in", [pin |-> a]) \/ Session!Sent(t, "signing_in", Session!NewSession(a))
    BY <1>2 DEF Session!Verify, Session!Verified
  <2> QED
    BY <1>1, <2>1, SessionSets, SessionSends
<1>3. CASE Session!EnterPin(t)
  <2>1. \/ \E a : Session!Sent(t, "signing_in", Session!NewSession(a))
        \/ Session!Sent(t, "called", [pin |-> Empty])
    BY <1>3 DEF Session!EnterPin, Session!PinChecked
  <2> QED
    BY <1>1, <2>1, SessionSets, SessionSends
<1>4. ASSUME NEW at \in SessionPages, Session!Answer(t, at) PROVE SessionInv'
  <2>1. \/ Session!Sent(t, "called", [present |-> TRUE])
        \/ Session!Sent(t, at, Session!Nothing) \/ Session!Sent(t, at, Session!Cleared)
        \/ x1.rt # 0 /\ \E a, n : Session!Sent(t, "called", Session!Renewed(a, n))
    BY <1>4 DEF Session!Answer
  <2>2. x1.rt # 0 => x6 = -1
    BY DEF SessionInv
  <2> QED
    BY <1>1, <2>1, <2>2, SessionSets, SessionSends DEF SessionPages
<1>5. CASE Session!Call(t)
  BY <1>4, <1>5 DEF Session!Call, SessionPages
<1>6. CASE Session!Retry(t)
  BY <1>4, <1>6 DEF Session!Retry, SessionPages
<1>7. CASE Session!Refresh(t)
  <2>1. \/ Session!Sent(t, "signin_page", Session!Nothing) \/ Session!Sent(t, "signin_page", Session!Cleared)
        \/ Session!AuthToken # 0 /\ \E a : Session!Sent(t, "refreshing", [id |-> Session!Id(a), pin |-> Empty])
    BY <1>7 DEF Session!Refresh, Session!Refreshed
  <2>2. Session!AuthToken # 0 => x6 = -1
    BY DEF SessionInv, Session!AuthToken
  <2> QED
    BY <1>1, <2>1, <2>2, SessionSets, SessionSends DEF SessionPages
<1>8. CASE Session!SignOut(t)
  <2>1. Session!Sent(t, "signing_out", Session!Cleared)
    BY <1>8 DEF Session!SignOut
  <2> QED
    BY <1>1, <2>1, SessionSets, SessionSends DEF SessionPages
<1> QED
  BY <1>2, <1>3, <1>5, <1>6, <1>7, <1>8

LEMMA SessionArrives ==
  ASSUME SessionInv, NEW t \in Two, Session!Arrive(t)
  PROVE  SessionInv'
<1> DEFINE s == x5[t].set
           after == CASE x5[t].at \in {"refused", "signin_page"} -> [x5[t] EXCEPT !.set = Session!Nothing]
                      [] x5[t].at = "refreshing" -> [at |-> "retried", set |-> Session!Nothing]
                      [] OTHER -> Session!NoCall
<1>1. /\ x1' = Session!Arrived(s) /\ x7' = x7
      /\ x5' = [x5 EXCEPT ![t] = after]
      /\ x6' = CASE x5[t].at = "signing_out" -> x7
                 [] x5[t].at = "signing_in" /\ "rt" \in DOMAIN s -> -1
                 [] OTHER -> x6
  BY DEF Session!Arrive
<1>2. x7 \in Nat /\ (x6 = -1 \/ x6 \in Nat) /\ x6' \in {x7, -1, x6} /\ SessionCallFits(x5[t], x6, x7)
  BY <1>1 DEF SessionInv
<1>3. after = [at |-> after.at, set |-> Session!Nothing] /\ after.at # "signing_out"
  <2>1. x5[t] = [at |-> x5[t].at, set |-> x5[t].set]
    BY <1>2 DEF SessionCallFits
  <2> QED
    BY <2>1 DEF Session!NoCall
<1>4. SessionCallFits(after, x6', x7)
  BY <1>3 DEF SessionCallFits, SessionSetFits, Session!Nothing
<1>5. ASSUME NEW u \in Two \ {t} PROVE SessionCallFits(x5[u], x6', x7)
  <2>1. SessionCallFits(x5[u], x6, x7)
    BY DEF SessionInv
  <2>2. "id" \in DOMAIN x5[u].set => x5[u].set.id.till \in Nat /\ x5[u].set.id.till <= x7 + 1
    BY <2>1 DEF SessionCallFits
  <2> QED
    BY <1>2, <2>1, <2>2 DEF SessionCallFits, SessionSetFits
<1>6. DOMAIN x1' = {"id", "rt", "old", "pin", "present"}
      /\ \A c \in DOMAIN x1' : x1'[c] = IF c \in DOMAIN s THEN s[c] ELSE x1[c]
  BY <1>1 DEF Session!Arrived, SessionInv
<1>7. /\ x1'.id = IF "id" \in DOMAIN s THEN s.id ELSE x1.id
      /\ x1'.rt = IF "rt" \in DOMAIN s THEN s.rt ELSE x1.rt
      /\ x1'.old = IF "old" \in DOMAIN s THEN s.old ELSE x1.old
  BY <1>6
<1>8. x1'.id.till \in Nat
  BY <1>2, <1>7 DEF SessionInv, SessionCallFits
<1>9. x6' # -1 => x1'.rt = 0 /\ x1'.old = 0 /\ x1'.id.till <= x6' + 1
  <2>1. CASE x5[t].at = "signing_out"
    <3>1. s = Session!Cleared
      BY <1>2, <2>1 DEF SessionCallFits
    <3>2. x1'.rt = 0 /\ x1'.old = 0 /\ x1'.id.till = 0
      BY <1>7, <3>1 DEF Session!Cleared, Session!NoCookies, Session!NoId
    <3> QED
      BY <1>1, <1>2, <2>1, <3>2
  <2>2. CASE x5[t].at = "signing_in" /\ "rt" \in DOMAIN s
    BY <1>1, <2>2
  <2>3. CASE x5[t].at # "signing_out" /\ ~(x5[t].at = "signing_in" /\ "rt" \in DOMAIN s)
    <3>1. x6' = x6 /\ SessionSetFits(s, x6, x7)
      BY <1>1, <1>2, <2>3 DEF SessionCallFits
    <3> QED
      BY <1>7, <3>1 DEF SessionSetFits, SessionInv
  <2> QED
    BY <2>1, <2>2, <2>3
<1> HIDE DEF after
<1>10. DOMAIN x5' = Two /\ \A u \in Two : SessionCallFits(x5'[u], x6', x7)
  BY <1>1, <1>4, <1>5 DEF SessionInv
<1> QED
  BY <1>1, <1>2, <1>6, <1>8, <1>9, <1>10 DEF SessionInv

LEMMA SessionStep ==
  SessionInv /\ [Session!Next]_(Session!vars) => SessionInv' /\ Session!SignedOutStays'
<1> SUFFICES ASSUME SessionInv, [Session!Next]_(Session!vars) PROVE SessionInv' /\ Session!SignedOutStays'
  OBVIOUS
<1>1. CASE \E t \in Two : Session!GoOn(t)
  <2>1. PICK t \in Two : Session!GoOn(t)
    BY <1>1
  <2>2. UNCHANGED <<x1, x6, x7>> /\ Session!Sent(t, "none", Session!Nothing)
    BY <2>1 DEF Session!GoOn, Session!Sent, Session!NoCall
  <2> QED
    BY <2>2, SessionSets, SessionSends DEF SessionPages, SessionInv, Session!SignedOutStays
<1>2. CASE Session!Tick
  <2>1. x7 \in Nat /\ x7' = x7 + 1 /\ UNCHANGED <<x1, x5, x6>>
    BY <1>2 DEF Session!Tick, SessionInv
  <2>2. \A t \in Two : SessionCallFits(x5[t], x6, x7')
    BY <2>1 DEF SessionInv, SessionCallFits, SessionSetFits
  <2> QED
    BY <2>1, <2>2 DEF SessionInv, Session!SignedOutStays
<1>3. CASE (\E a \in SessionAccounts : Session!Close(a)) \/ UNCHANGED Session!vars
  <2>1. UNCHANGED <<x1, x5, x6, x7>>
    BY <1>3 DEF Session!Close, Session!vars
  <2> QED
    BY <2>1 DEF SessionInv, Session!SignedOutStays
<1>4. ASSUME SessionInv' PROVE Session!SignedOutStays'
  BY <1>4 DEF SessionInv, Session!SignedOutStays
<1> QED
  BY <1>1, <1>2, <1>3, <1>4, SessionCalls, SessionArrives DEF Session!Next

--------------------------------------------------------------------------------
(* The start-over and its runs (StartOverRun).  The run that writes        *)
(* executing read a deletion that was due, of an account that was active;  *)
(* what makes the two stale reads harmless is that a closed account can    *)
(* only become active again once nothing of it is pending.                 *)
CONSTANT StartOvers                                            \* requests to start over

ASSUME StartOverAssumption == StartOvers \in Nat

StartOver == INSTANCE StartOverRun WITH
               MaxRequests <- StartOvers,
               row <- x1, account <- x2, sent <- x3, queue <- x10, fleet <- x4, erasure <- x11,
               hand <- x8, exec <- x5, admin <- x6, made <- x7, interrupted <- x9

DayRow   == [deletion : StartOver!Deletion, state : {"live", "deleted"}, asked : BOOLEAN, listed : BOOLEAN]
DayRun   == [at : {"idle", "standing", "write", "send", "ask", "mark", "resumed"}, id : 0..StartOvers]
DayAdmin == [at : {"idle", "cancel", "cancel_only", "write"}, id : 0..StartOvers]
DayHand  == [mark : {"none", "young", "old"}, resumed : BOOLEAN, went : BOOLEAN]

DayTyped ==
  /\ x1 \in DayRow
  /\ x2 \in {"active", "suspended", "gone"}
  /\ x3 \in BOOLEAN /\ x9 \in BOOLEAN /\ x7 \in 0..StartOvers
  /\ x11 \in {"whole", "deleting", "stopped", "erased"}
  /\ x8 \in DayHand
  /\ x5 \in DayRun /\ x6 \in DayAdmin

\* Ids are given out in order; a run that is to write still finds its own deletion due.
DayIds ==
  /\ x1.deletion.id <= x7 /\ x5.id <= x7 /\ x6.id <= x7
  /\ x5.at \in {"standing", "write"} /\ x1.deletion.id = x5.id /\ x1.deletion.state = "pending" => x1.deletion.due

\* Closed while one was pending, an account is reinstated only after that one is cancelled.
DayStanding ==
  /\ x9 /\ x1.deletion.state = "pending" => x2 # "active"
  /\ x6.at = "write" => x2 # "active" /\ x1.deletion.state # "pending"
  /\ x6.at = "cancel" => x2 # "active"

\* A delete is sent for what is executing, which nothing takes back.
DaySent ==
  /\ "delete" \in x10 \/ x5.at = "mark" \/ x1.deletion.queued \/ x11 # "whole" => x3
  /\ x3 \/ x5.at \in {"send", "ask", "mark"} \/ x1.asked \/ x1.state = "deleted" => x1.deletion.state = "executing"
  /\ x5.at = "resumed" \/ x8.resumed => x8.went

DayInv == DayTyped /\ DayIds /\ DayStanding /\ DaySent

LEMMA DayInit == StartOver!Init => DayInv
<1> SUFFICES ASSUME StartOver!Init PROVE DayInv
  OBVIOUS
<1>1. StartOver!NoDeletion \in StartOver!Deletion /\ StartOver!NoDeletion.id = 0
  BY StartOverAssumption DEF StartOver!NoDeletion, StartOver!Deletion
<1>2. StartOver!Idle \in DayRun \cap DayAdmin /\ StartOver!Idle.id = 0
  BY StartOverAssumption DEF StartOver!Idle, DayRun, DayAdmin
<1>3. x1 \in DayRow /\ x1.deletion = StartOver!NoDeletion
  BY <1>1 DEF StartOver!Init, DayRow
<1>4. DayTyped
  <2>1. x7 \in 0..StartOvers
    BY StartOverAssumption DEF StartOver!Init
  <2> QED
    BY <1>2, <1>3, <2>1 DEF StartOver!Init, DayTyped, DayHand
<1>5. DayIds
  BY <1>1, <1>2, <1>3 DEF StartOver!Init, DayIds, StartOver!Idle
<1>6. DayStanding
  BY <1>3 DEF StartOver!Init, DayStanding, StartOver!Idle
<1>7. DaySent
  BY <1>3 DEF StartOver!Init, DaySent, StartOver!Idle, StartOver!NoDeletion
<1> QED
  BY <1>4, <1>5, <1>6, <1>7 DEF DayInv


\* What a step may write of the row, of a run and of the reinstatement.
LEMMA DayRows ==
  ASSUME DayTyped
  PROVE  /\ \A d \in StartOver!Deletion : [x1 EXCEPT !.deletion = d] \in DayRow
         /\ \A b \in BOOLEAN : [x1 EXCEPT !.listed = b] \in DayRow /\ [x1 EXCEPT !.asked = b] \in DayRow
         /\ \A b \in BOOLEAN : [x1 EXCEPT !.asked = b, !.deletion.queued = b] \in DayRow
         /\ \A b \in BOOLEAN : [x1 EXCEPT !.deletion.due = b] \in DayRow
         /\ [x1 EXCEPT !.deletion.state = "executing"] \in DayRow
         /\ x1.deletion.id \in 0..StartOvers
<1>1. x1 \in DayRow
  BY DEF DayTyped
<1> QED
  BY <1>1 DEF DayRow, StartOver!Deletion

LEMMA DayRuns ==
  ASSUME DayTyped
  PROVE  /\ StartOver!NoDeletion \in StartOver!Deletion
         /\ \A n \in 0..StartOvers : [StartOver!NoDeletion EXCEPT !.id = n, !.state = "pending"] \in StartOver!Deletion
         /\ StartOver!Idle \in DayRun /\ StartOver!Idle \in DayAdmin
         /\ [StartOver!Idle EXCEPT !.at = "write"] \in DayAdmin
         /\ [StartOver!Idle EXCEPT !.at = "resumed"] \in DayRun
         /\ [x5 EXCEPT !.at = "ask"] \in DayRun /\ [x5 EXCEPT !.at = "mark"] \in DayRun
         /\ [x5 EXCEPT !.at = "send"] \in DayRun /\ [x5 EXCEPT !.at = "write"] \in DayRun
         /\ \A n \in 0..StartOvers : /\ [at |-> "standing", id |-> n] \in DayRun
                                    /\ [at |-> "send", id |-> n] \in DayRun
                                    /\ [at |-> "cancel", id |-> n] \in DayAdmin
                                    /\ [at |-> "cancel_only", id |-> n] \in DayAdmin
<1>1. 0 \in 0..StartOvers
  BY StartOverAssumption
<1>2. x5 \in DayRun
  BY DEF DayTyped
<1>3. /\ [x5 EXCEPT !.at = "ask"] \in DayRun /\ [x5 EXCEPT !.at = "mark"] \in DayRun
      /\ [x5 EXCEPT !.at = "send"] \in DayRun /\ [x5 EXCEPT !.at = "write"] \in DayRun
  BY <1>2 DEF DayRun
<1>4. StartOver!NoDeletion \in StartOver!Deletion
  BY <1>1 DEF StartOver!NoDeletion, StartOver!Deletion
<1>5. \A n \in 0..StartOvers : [StartOver!NoDeletion EXCEPT !.id = n, !.state = "pending"] \in StartOver!Deletion
  BY <1>4 DEF StartOver!Deletion
<1>6. StartOver!Idle \in DayRun /\ StartOver!Idle \in DayAdmin
  BY <1>1 DEF StartOver!Idle, DayRun, DayAdmin
<1>7. [StartOver!Idle EXCEPT !.at = "write"] \in DayAdmin
  BY <1>6 DEF DayAdmin
<1>8. [StartOver!Idle EXCEPT !.at = "resumed"] \in DayRun
  BY <1>6 DEF DayRun
<1>9. \A n \in 0..StartOvers : /\ [at |-> "standing", id |-> n] \in DayRun
                               /\ [at |-> "send", id |-> n] \in DayRun
                               /\ [at |-> "cancel", id |-> n] \in DayAdmin
                               /\ [at |-> "cancel_only", id |-> n] \in DayAdmin
  BY DEF DayRun, DayAdmin
<1> QED
  BY <1>3, <1>4, <1>5, <1>6, <1>7, <1>8, <1>9

\* x8 as it is written.
LEMMA DayHands ==
  ASSUME DayTyped
  PROVE  \A b \in BOOLEAN : /\ [x8 EXCEPT !.resumed = b] \in DayHand
                            /\ [x8 EXCEPT !.went = (@ \/ b)] \in DayHand
<1>1. x8 \in DayHand
  BY DEF DayTyped
<1> QED
  BY <1>1 DEF DayHand

LEMMA DayTypes == DayTyped /\ [StartOver!Next]_(StartOver!vars) => DayTyped'
<1> SUFFICES ASSUME DayTyped, [StartOver!Next]_(StartOver!vars) PROVE DayTyped'
  OBVIOUS
<1> USE DayRows, DayRuns, DayHands DEF DayTyped, StartOver!vault
<1>1. CASE StartOver!RequestDeletion
  <2>1. x7 + 1 \in 0..StartOvers
    BY ONLY DayTyped, <1>1, StartOverAssumption DEF DayTyped, StartOver!RequestDeletion
  <2> QED
    BY <1>1, <2>1 DEF StartOver!RequestDeletion
<1>2. CASE StartOver!CancelDeletion
  BY <1>2 DEF StartOver!CancelDeletion
<1>3. CASE StartOver!Suspend
  BY <1>3 DEF StartOver!Suspend
<1>4. CASE StartOver!AdminRead
  BY <1>4 DEF StartOver!AdminRead, StartOver!Current
<1>5. CASE StartOver!AdminCancel
  BY <1>5 DEF StartOver!AdminCancel, StartOver!Answered
<1>6. CASE StartOver!AdminUnanswered
  BY <1>6 DEF StartOver!AdminUnanswered
<1>7. CASE StartOver!ReinstateWrite
  BY <1>7 DEF StartOver!ReinstateWrite
<1>8. CASE StartOver!MemberRemoved
  BY <1>8 DEF StartOver!MemberRemoved
<1>9. CASE StartOver!ExecutorRead
  BY <1>9 DEF StartOver!ExecutorRead, StartOver!Current
<1>10. CASE StartOver!ReadStanding
  BY <1>10 DEF StartOver!ReadStanding
<1>11. CASE StartOver!WriteExecuting
  BY <1>11 DEF StartOver!WriteExecuting
<1>12. CASE StartOver!SendDelete
  BY <1>12 DEF StartOver!SendDelete
<1>13. CASE StartOver!RecordAsk
  BY <1>13 DEF StartOver!RecordAsk, StartOver!Asked, StartOver!AskedAndQueued
<1>14. CASE StartOver!SendResume
  BY <1>14 DEF StartOver!SendResume, StartOver!RecordIf
<1>15. CASE StartOver!RecordResume
  BY <1>15 DEF StartOver!RecordResume
<1>16. CASE StartOver!ExecutorDies
  BY <1>16 DEF StartOver!ExecutorDies
<1>17. CASE StartOver!RetryAsked
  BY <1>17 DEF StartOver!RetryAsked
<1>18. CASE StartOver!IndexLists
  BY <1>18 DEF StartOver!IndexLists
<1>19. CASE StartOver!DayPasses
  BY <1>19 DEF StartOver!DayPasses
<1>20. CASE StartOver!MarkAges
  BY <1>20 DEF StartOver!MarkAges, DayHand
<1>21. CASE StartOver!HostMarks
  BY <1>21 DEF StartOver!HostMarks, DayHand
<1>22. CASE StartOver!VaultTakes
  BY <1>22 DEF StartOver!VaultTakes
<1>23. CASE StartOver!VaultStopsOrErases
  BY <1>23 DEF StartOver!VaultStopsOrErases
<1>24. CASE StartOver!VaultReports
  BY <1>24 DEF StartOver!VaultReports, DayRow
<1>25. CASE StartOver!PauseOrResume
  BY <1>25 DEF StartOver!PauseOrResume
<1>26. CASE StartOver!FleetMoves
  BY <1>26 DEF StartOver!FleetMoves
<1>27. CASE UNCHANGED StartOver!vars
  BY <1>27 DEF StartOver!vars
<1> QED
  BY <1>1, <1>2, <1>3, <1>4, <1>5, <1>6, <1>7, <1>8, <1>9, <1>10, <1>11, <1>12, <1>13, <1>14, <1>15, <1>16, <1>17, <1>18, <1>19, <1>20, <1>21, <1>22, <1>23, <1>24, <1>25, <1>26, <1>27 DEF StartOver!Next, StartOver!MemberNext, StartOver!AdminNext, StartOver!ExecutorNext, StartOver!WorldNext

LEMMA DayStep == DayInv /\ [StartOver!Next]_(StartOver!vars) => DayInv'
<1> SUFFICES ASSUME DayInv, [StartOver!Next]_(StartOver!vars) PROVE DayInv'
  OBVIOUS
<1> USE StartOverAssumption DEF DayInv, DayTyped, DayIds, DayStanding, DaySent, DayRow, DayRun, DayAdmin, DayHand, StartOver!Deletion, StartOver!vault
<1> DayTyped'
  BY DayTypes
<1>1. CASE StartOver!RequestDeletion
  <2>1. DayIds'
    <3>1. x1'.deletion.id = x7 + 1 /\ x7' = x7 + 1 /\ x5' = x5 /\ x6' = x6
      BY <1>1 DEF StartOver!RequestDeletion, StartOver!NoDeletion
    <3>2. x5.id <= x7 /\ x6.id <= x7 /\ x7 \in Nat /\ x5.id \in Nat /\ x6.id \in Nat
      OBVIOUS
    <3> QED
      BY ONLY <3>1, <3>2 DEF DayIds
  <2>2. DayStanding'
    BY <1>1 DEF StartOver!RequestDeletion, StartOver!NoDeletion, StartOver!Current
  <2>3. DaySent'
    BY <1>1 DEF StartOver!RequestDeletion, StartOver!NoDeletion, StartOver!Current
  <2> QED
    BY <2>1, <2>2, <2>3
<1>2. CASE StartOver!CancelDeletion
  <2>1. DayIds'
    BY <1>2 DEF StartOver!CancelDeletion, StartOver!NoDeletion, StartOver!Current
  <2>2. DayStanding'
    BY <1>2 DEF StartOver!CancelDeletion, StartOver!NoDeletion, StartOver!Current
  <2>3. DaySent'
    BY <1>2 DEF StartOver!CancelDeletion, StartOver!NoDeletion, StartOver!Current
  <2> QED
    BY <2>1, <2>2, <2>3
<1>3. CASE StartOver!Suspend
  BY <1>3 DEF StartOver!Suspend, StartOver!Current
<1>4. CASE StartOver!AdminRead
  BY <1>4 DEF StartOver!AdminRead, StartOver!Idle, StartOver!PendingFound, StartOver!Found, StartOver!Current
<1>5. CASE StartOver!AdminCancel
  <2>1. DayIds'
    BY <1>5 DEF StartOver!AdminCancel, StartOver!NoDeletion, StartOver!Idle, StartOver!Answered, StartOver!Still, StartOver!Current
  <2>2. DayStanding'
    BY <1>5 DEF StartOver!AdminCancel, StartOver!NoDeletion, StartOver!Idle, StartOver!Answered, StartOver!Still, StartOver!Current
  <2>3. DaySent'
    BY <1>5 DEF StartOver!AdminCancel, StartOver!NoDeletion, StartOver!Idle, StartOver!Answered, StartOver!Still, StartOver!Current
  <2> QED
    BY <2>1, <2>2, <2>3
<1>6. CASE StartOver!AdminUnanswered
  <2>1. DayIds'
    BY <1>6 DEF StartOver!AdminUnanswered, StartOver!NoDeletion, StartOver!Idle, StartOver!Still, StartOver!Current
  <2>2. DayStanding'
    BY <1>6 DEF StartOver!AdminUnanswered, StartOver!NoDeletion, StartOver!Idle, StartOver!Still, StartOver!Current
  <2>3. DaySent'
    BY <1>6 DEF StartOver!AdminUnanswered, StartOver!NoDeletion, StartOver!Idle, StartOver!Still, StartOver!Current
  <2> QED
    BY <2>1, <2>2, <2>3
<1>7. CASE StartOver!ReinstateWrite
  BY <1>7 DEF StartOver!ReinstateWrite, StartOver!Idle
<1>8. CASE StartOver!MemberRemoved
  BY <1>8 DEF StartOver!MemberRemoved
<1>9. CASE StartOver!ExecutorRead
  BY <1>9 DEF StartOver!ExecutorRead, StartOver!Current
<1>10. CASE StartOver!ReadStanding
  BY <1>10 DEF StartOver!ReadStanding, StartOver!Idle
<1>11. CASE StartOver!WriteExecuting
  BY <1>11 DEF StartOver!WriteExecuting, StartOver!Idle, StartOver!Still, StartOver!Current
<1>12. CASE StartOver!SendDelete
  <2>1. DayIds'
    BY <1>12 DEF StartOver!SendDelete, StartOver!Started
  <2>2. DayStanding'
    BY <1>12 DEF StartOver!SendDelete, StartOver!Started
  <2>3. DaySent'
    BY <1>12 DEF StartOver!SendDelete, StartOver!Started
  <2> QED
    BY <2>1, <2>2, <2>3
<1>13. CASE StartOver!RecordAsk
  <2>1. DayIds'
    BY <1>13 DEF StartOver!RecordAsk, StartOver!Idle, StartOver!Asked, StartOver!AskedAndQueued, StartOver!Current
  <2>2. DayStanding'
    BY <1>13 DEF StartOver!RecordAsk, StartOver!Idle, StartOver!Asked, StartOver!AskedAndQueued, StartOver!Current
  <2>3. DaySent'
    BY <1>13 DEF StartOver!RecordAsk, StartOver!Idle, StartOver!Asked, StartOver!AskedAndQueued, StartOver!Current
  <2> QED
    BY <2>1, <2>2, <2>3
<1>14. CASE StartOver!SendResume
  <2>1. DayIds'
    BY <1>14 DEF StartOver!SendResume, StartOver!Idle, StartOver!RecordIf, StartOver!ResumeOp, StartOver!Started
  <2>2. DayStanding'
    BY <1>14 DEF StartOver!SendResume, StartOver!Idle, StartOver!RecordIf, StartOver!ResumeOp, StartOver!Started
  <2>3. DaySent'
    BY <1>14 DEF StartOver!SendResume, StartOver!Idle, StartOver!RecordIf, StartOver!ResumeOp, StartOver!Started
  <2> QED
    BY <2>1, <2>2, <2>3
<1>15. CASE StartOver!RecordResume
  <2>1. DayIds'
    BY <1>15 DEF StartOver!RecordResume, StartOver!Idle
  <2>2. DayStanding'
    BY <1>15 DEF StartOver!RecordResume, StartOver!Idle
  <2>3. DaySent'
    BY <1>15 DEF StartOver!RecordResume, StartOver!Idle
  <2> QED
    BY <2>1, <2>2, <2>3
<1>16. CASE StartOver!ExecutorDies
  BY <1>16 DEF StartOver!ExecutorDies, StartOver!Idle
<1>17. CASE StartOver!RetryAsked
  <2>1. DayIds'
    BY <1>17 DEF StartOver!RetryAsked, StartOver!Started
  <2>2. DayStanding'
    BY <1>17 DEF StartOver!RetryAsked, StartOver!Started
  <2>3. DaySent'
    BY <1>17 DEF StartOver!RetryAsked, StartOver!Started
  <2> QED
    BY <2>1, <2>2, <2>3
<1>18. CASE StartOver!IndexLists
  <2>1. DayIds'
    BY <1>18 DEF StartOver!IndexLists
  <2>2. DayStanding'
    BY <1>18 DEF StartOver!IndexLists
  <2>3. DaySent'
    BY <1>18 DEF StartOver!IndexLists
  <2> QED
    BY <2>1, <2>2, <2>3
<1>19. CASE StartOver!DayPasses
  BY <1>19 DEF StartOver!DayPasses, StartOver!Current
<1>20. CASE StartOver!MarkAges
  BY <1>20 DEF StartOver!MarkAges
<1>21. CASE StartOver!HostMarks
  BY <1>21 DEF StartOver!HostMarks
<1>22. CASE StartOver!VaultTakes
  BY <1>22 DEF StartOver!VaultTakes
<1>23. CASE StartOver!VaultStopsOrErases
  BY <1>23 DEF StartOver!VaultStopsOrErases
<1>24. CASE StartOver!VaultReports
  BY <1>24 DEF StartOver!VaultReports
<1>25. CASE StartOver!PauseOrResume
  BY <1>25 DEF StartOver!PauseOrResume
<1>26. CASE StartOver!FleetMoves
  BY <1>26 DEF StartOver!FleetMoves
<1>27. CASE UNCHANGED StartOver!vars
  BY <1>27 DEF StartOver!vars
<1> QED
  BY <1>1, <1>2, <1>3, <1>4, <1>5, <1>6, <1>7, <1>8, <1>9, <1>10, <1>11, <1>12, <1>13, <1>14, <1>15, <1>16, <1>17, <1>18, <1>19, <1>20, <1>21, <1>22, <1>23, <1>24, <1>25, <1>26, <1>27 DEF StartOver!Next, StartOver!MemberNext, StartOver!AdminNext, StartOver!ExecutorNext, StartOver!WorldNext

(* The properties that the runs check follow. *)
LEMMA DaySafe == DayInv => StartOver!QueuedIsSent /\ StartOver!ErasedAsAsked /\ StartOver!PutOffAsSent
BY DEF DayInv, DayTyped, DaySent, StartOver!QueuedIsSent, StartOver!ErasedAsAsked, StartOver!PutOffAsSent, StartOver!Current, DayRow, DayHand, StartOver!Deletion

\* Only WriteExecuting begins one.
LEMMA DayFull == DayInv /\ [StartOver!Next]_(StartOver!vars) => StartOver!FullDay
<1> SUFFICES ASSUME DayInv, [StartOver!Next]_(StartOver!vars), StartOver!Begins
             PROVE  x1.deletion.due /\ (x9 => x2 # "active")
  BY DEF StartOver!FullDay, StartOver!Current
<1>1. x1.deletion.state = "pending" /\ x1'.deletion.state = "executing" /\ x1 \in DayRow
  BY DEF StartOver!Begins, StartOver!Current, DayInv, DayTyped
<1>2. StartOver!WriteExecuting
  <2> StartOver!NoDeletion.state = "none"
    BY DEF StartOver!NoDeletion
  <2>1. CASE StartOver!MemberNext
    BY <1>1, <2>1 DEF StartOver!MemberNext, StartOver!RequestDeletion, StartOver!CancelDeletion, StartOver!Current, DayRow
  <2>2. CASE StartOver!AdminNext
    BY <1>1, <2>2 DEF StartOver!AdminNext, StartOver!Suspend, StartOver!AdminRead, StartOver!AdminCancel, StartOver!AdminUnanswered,
       StartOver!ReinstateWrite, StartOver!MemberRemoved, DayRow
  <2>3. CASE StartOver!ExecutorNext /\ ~StartOver!WriteExecuting
    BY <1>1, <2>3 DEF StartOver!ExecutorNext, StartOver!ExecutorRead, StartOver!ReadStanding, StartOver!SendDelete, StartOver!RecordAsk,
       StartOver!SendResume, StartOver!RecordResume, StartOver!Asked, StartOver!AskedAndQueued, DayRow, StartOver!Deletion
  <2>4. CASE StartOver!WorldNext
    BY <1>1, <2>4 DEF StartOver!WorldNext, StartOver!IndexLists, StartOver!DayPasses, StartOver!MarkAges, StartOver!HostMarks, StartOver!VaultTakes,
       StartOver!VaultStopsOrErases, StartOver!VaultReports, StartOver!PauseOrResume, StartOver!FleetMoves, DayRow, StartOver!Deletion
  <2>5. CASE StartOver!ExecutorDies \/ StartOver!RetryAsked \/ UNCHANGED StartOver!vars
    BY <1>1, <2>5 DEF StartOver!ExecutorDies, StartOver!RetryAsked, StartOver!vars
  <2> QED
    BY <2>1, <2>2, <2>3, <2>4, <2>5 DEF StartOver!Next
<1> QED
  BY <1>1, <1>2 DEF StartOver!WriteExecuting, StartOver!Still, StartOver!Current, DayInv, DayIds, DayStanding

--------------------------------------------------------------------------------
(* The page that deletes the account (AccountDeletePage): account is x1,   *)
(* view x4, load x5, ask x6, submit x7, codes x8, loads x10.  As long as   *)
(* the first load is the only one, the request that closed the account is  *)
(* answered or its answer is on the page.                                  *)
DeleteSite == INSTANCE AccountDeletePage WITH
               MaxCodes <- 2, MaxFaults <- 2, MaxLoads <- 3,
               account <- x1, vaults <- x2, code <- x3, view <- x4, load <- x5, ask <- x6,
               submit <- x7, codes <- x8, faults <- x9, loads <- x10

RetryInv ==
  /\ x1 \in [active : BOOLEAN, mine : BOOLEAN] /\ x7 \in [at : DeleteSite!Calls, code : Int] /\ x8 \in Nat
  /\ x10 \in Nat /\ x10 >= 1
  /\ x10 = 1 /\ x5 # "none" => x4 = "start" /\ x7.at = "none" /\ x1.mine = FALSE
  /\ x10 = 1 /\ x1.mine = TRUE => x5 = "none" /\ (x7.at \in {"ok", "failed"} \/ x4 \in {"closed", "failed"})

LEMMA RetryInit == DeleteSite!Init => RetryInv
BY DEF DeleteSite!Init, RetryInv, DeleteSite!Calls, DeleteSite!Answers

LEMMA RetryStep == RetryInv /\ [DeleteSite!Next]_DeleteSite!vars => RetryInv'
<1> SUFFICES ASSUME RetryInv, [DeleteSite!Next]_DeleteSite!vars PROVE RetryInv'
  OBVIOUS
<1> USE DEF RetryInv
<1>1. CASE DeleteSite!Serve \/ DeleteSite!Loaded
  BY <1>1 DEF DeleteSite!Serve, DeleteSite!Loaded, DeleteSite!Answers
<1>2. CASE DeleteSite!ServeCode
  BY <1>2 DEF DeleteSite!ServeCode, DeleteSite!Fault
<1>3. CASE DeleteSite!ServeDeletion
  <2>1. x7.at = "sent" /\ UNCHANGED <<x4, x5, x8, x10>>
    BY <1>3 DEF DeleteSite!ServeDeletion
  <2>2. PICK a \in {"signed_out", "wrong", "blocked", "ok", "failed", "limited"} :
          /\ x7' = [x7 EXCEPT !.at = a]
          /\ \/ x1' = x1
             \/ x1' = [active |-> FALSE, mine |-> TRUE] /\ a \in {"ok", "failed"}
    BY <1>3 DEF DeleteSite!ServeDeletion, DeleteSite!Says, DeleteSite!Closes
  <2>3. x7' \in [at : DeleteSite!Calls, code : Int] /\ x7'.at = a
    <3>1. a \in DeleteSite!Calls
      BY <2>2 DEF DeleteSite!Calls, DeleteSite!Answers
    <3> QED
      BY <2>2, <3>1
  <2>4. x1' \in [active : BOOLEAN, mine : BOOLEAN] /\ (x1'.mine = TRUE => x1.mine = TRUE \/ a \in {"ok", "failed"})
    <3>1. CASE x1' = x1
      BY <3>1
    <3>2. CASE x1' = [active |-> FALSE, mine |-> TRUE] /\ a \in {"ok", "failed"}
      <4>1. x1' \in [active : BOOLEAN, mine : BOOLEAN]
        BY <3>2
      <4> QED
        BY <3>2, <4>1
    <3> QED
      BY <2>2, <3>1, <3>2
  <2>5. x10 = 1 => x5 = "none"
    BY <2>1
  <2>6. x10 = 1 /\ x1'.mine = TRUE => a \in {"ok", "failed"} \/ x4 \in {"closed", "failed"}
    BY <2>1, <2>4
  <2> QED
    BY <2>1, <2>3, <2>4, <2>5, <2>6
<1>4. CASE DeleteSite!TryAgain \/ DeleteSite!CodeAnswered
  BY <1>4 DEF DeleteSite!TryAgain, DeleteSite!CodeAnswered, DeleteSite!StartLoad
<1>5. CASE DeleteSite!AskCode \/ DeleteSite!VaultsChange
  BY <1>5 DEF DeleteSite!AskCode, DeleteSite!VaultsChange
<1>6. CASE DeleteSite!Submit
  <2>1. x4 = "form" /\ x7.at = "none" /\ UNCHANGED <<x1, x4, x5, x8, x10>>
    BY <1>6 DEF DeleteSite!Submit
  <2>2. PICK c \in 1..x8 : x7' = [at |-> "sent", code |-> c]
    BY <1>6 DEF DeleteSite!Submit
  <2>3. x7' \in [at : DeleteSite!Calls, code : Int]
    BY <2>2 DEF DeleteSite!Calls
  <2> QED
    BY <2>1, <2>3
<1>7. CASE DeleteSite!Submitted
  <2>1. /\ x4' = DeleteSite!AfterSubmit(x7.at) /\ UNCHANGED <<x1, x8>> /\ x7' = [at |-> "none", code |-> 0]
        /\ \/ x5' = x5 /\ x10' = x10
           \/ x10' = x10 + 1
    BY <1>7 DEF DeleteSite!Submitted, DeleteSite!StartLoad
  <2>2. x7' \in [at : DeleteSite!Calls, code : Int] /\ x7'.at = "none"
    BY <2>1 DEF DeleteSite!Calls
  <2>3. CASE x10' = x10 + 1
    BY <2>1, <2>2, <2>3
  <2>4. CASE x5' = x5 /\ x10' = x10
    <3>1. x7.at # "none" /\ (x7.at \in {"ok", "failed"} \/ x4 \in {"closed", "failed"} => x4' \in {"closed", "failed"})
      BY <1>7, <2>1 DEF DeleteSite!Submitted, DeleteSite!AfterSubmit, DeleteSite!Answers
    <3> QED
      BY <2>1, <2>2, <2>4, <3>1
  <2> QED
    BY <2>1, <2>3, <2>4
<1>8. CASE DeleteSite!ClosedElsewhere
  <2>1. x1' \in [active : BOOLEAN, mine : BOOLEAN] /\ x1'.mine = x1.mine /\ UNCHANGED <<x4, x5, x7, x8, x10>>
    BY <1>8 DEF DeleteSite!ClosedElsewhere
  <2> QED
    BY <2>1
<1>9. CASE UNCHANGED DeleteSite!vars
  BY <1>9 DEF DeleteSite!vars
<1> QED
  BY <1>1, <1>2, <1>3, <1>4, <1>5, <1>6, <1>7, <1>8, <1>9 DEF DeleteSite!Next

LEMMA RetrySafe == RetryInv => DeleteSite!NoRetry
<1> SUFFICES ASSUME RetryInv, x1.mine, x7.at = "none", x4 = "form" PROVE x10 > 1
  BY DEF DeleteSite!NoRetry
<1>1. x1.mine = TRUE
  BY DEF RetryInv
<1> QED
  BY <1>1 DEF RetryInv

--------------------------------------------------------------------------------
(***************************************************************************)
(* That a running vault has the account as the rows have it, once nothing  *)
(* is under way, for any number of changes, pushes and unlocks.            *)
(* (AccountSnapshot: row is x1, lease x2, snap x3, clock x4, pushes x5,    *)
(* unlocks x6, queues x7, spent x8, built x9, excused x10.)  A snapshot    *)
(* dated later has no older subscription, and no older member unless two   *)
(* crossed.  So one of three is so unless a push is under way that will    *)
(* send what the rows have: the vault has it; a push of it is in a queue;  *)
(* or no vault runs, and every unlock on its way brings it.                *)
(***************************************************************************)
CONSTANTS SnapChanges, SnapUnlocks, SnapLocks, SnapLosses      \* changes of an account, unlocks, locks, pushes lost

ASSUME SnapAssumption == {SnapChanges, SnapUnlocks, SnapLocks, SnapLosses} \subseteq Nat

Snapshot == INSTANCE AccountSnapshot WITH
               Instances <- Two, Changes <- SnapChanges, Unlocks <- SnapUnlocks, Locks <- SnapLocks, Losses <- SnapLosses,
               row <- x1, lease <- x2, snap <- x3, clock <- x4, pushes <- x5, unlocks <- x6,
               queues <- x7, spent <- x8, built <- x9, excused <- x10

SnapPush    == [id : Nat, pc : {"asked", "read", "routed"}, member : Nat, suspended : BOOLEAN, to : Two \cup {"none"}]
SnapUnlock  == [id : Nat, to : Two, member : Nat]
SnapMessage == [op : {"unlock", "account"}, to : Two, asOf : Nat, member : Nat, sub : Nat]

SnapTyped ==
  /\ x1 \in [member : Nat, sub : Nat, suspended : BOOLEAN] /\ x2 \in Two \cup {"none"}
  /\ x3 \in [asOf : Nat, member : Nat, sub : Nat] /\ x4 \in Nat /\ x9 \in Nat
  /\ x5 \subseteq SnapPush /\ x6 \subseteq SnapUnlock /\ x7 \subseteq SnapMessage
  /\ \A p \in x5 : p.pc = "routed" => p.to \in Two
  /\ x8 \in [changes : Nat, unlocks : Nat, locks : Nat, losses : Nat]

\* Nobody has what the rows do not have, or a date to come.
SnapBounds ==
  /\ x9 <= x1.member /\ \A p \in x5 : p.member <= x1.member
  /\ \A u \in x6 : u.member <= x1.member
  /\ \A q \in x7 : q.asOf <= x4 /\ q.sub <= x1.sub /\ q.member <= x9
  /\ x3.asOf <= x4 /\ x3.sub <= x1.sub /\ x3.member <= x9

SnapSubs ==
  /\ \A q \in x7 : (q.asOf > x3.asOf => q.sub >= x3.sub) /\ (q.asOf <= x3.asOf => q.sub <= x3.sub)
  /\ \A q, r \in x7 : q.asOf <= r.asOf => q.sub <= r.sub
SnapMembers ==
  /\ \A q \in x7 : (q.asOf > x3.asOf => q.member >= x3.member) /\ (q.asOf <= x3.asOf => q.member <= x3.member)
  /\ \A q, r \in x7 : q.asOf <= r.asOf => q.member <= r.member

\* No push under way will send what the rows have: of the subscription, of the member.
NoSubUnderWay    == \A p \in x5 : p.pc # "asked" /\ p.suspended
NoMemberUnderWay == \A p \in x5 : p.pc # "asked" /\ (p.suspended \/ p.member # x1.member)

SubHad ==
  \/ x3.sub = x1.sub
  \/ \E q \in x7 : q.op = "account" /\ q.sub = x1.sub
  \/ x2 = "none" /\ \A q \in x7 : q.op = "unlock" => q.sub = x1.sub
MemberHad ==
  \/ x3.member = x1.member
  \/ \E q \in x7 : q.op = "account" /\ q.member = x1.member
  \/ /\ x2 = "none" /\ \A q \in x7 : q.op = "unlock" => q.member = x1.member
     /\ \A u \in x6 : u.member = x1.member

SnapOrder == SnapSubs /\ ("crossed" \notin x10 => SnapMembers)
SnapHad ==
  /\ x10 \subseteq {"crossed"} /\ x1.suspended = FALSE /\ NoSubUnderWay => SubHad
  /\ x10 = {} /\ x1.suspended = FALSE /\ NoMemberUnderWay => MemberHad

SnapInv == SnapTyped /\ SnapBounds /\ SnapOrder /\ SnapHad

LEMMA SnapInit == Snapshot!Init => SnapInv
<1> SUFFICES ASSUME Snapshot!Init PROVE SnapInv
  OBVIOUS
<1>1. x1 = [member |-> 0, sub |-> 0, suspended |-> FALSE] /\ x3 = [asOf |-> 0, member |-> 0, sub |-> 0]
      /\ x2 = "none" /\ x4 = 0 /\ x5 = {} /\ x6 = {} /\ x7 = {} /\ x9 = 0
      /\ x8 = [changes |-> 0, unlocks |-> 0, locks |-> 0, losses |-> 0]
  BY DEF Snapshot!Init, Snapshot!None
<1>2. SnapTyped
  BY <1>1 DEF SnapTyped
<1> QED
  BY <1>1, <1>2 DEF SnapInv, SnapBounds, SnapOrder, SnapSubs, SnapMembers, SnapHad, SubHad, MemberHad

\* A change of the rows: a push is asked for, unless it is a suspension.
LEMMA SnapChanged ==
  ASSUME SnapInv, Snapshot!ChangeMember \/ Snapshot!ChangeSub \/ Snapshot!Suspend \/ Snapshot!Reinstate
  PROVE  SnapInv'
<1> DEFINE new == [id |-> x8.changes + 1, pc |-> "asked", member |-> 0, suspended |-> FALSE, to |-> "none"]
<1>1. UNCHANGED <<x2, x3, x4, x6, x7, x9, x10>>
  BY DEF Snapshot!ChangeMember, Snapshot!ChangeSub, Snapshot!Suspend, Snapshot!Reinstate
<1>2. x8' = [x8 EXCEPT !["changes"] = @ + 1]
  BY DEF Snapshot!ChangeMember, Snapshot!ChangeSub, Snapshot!Suspend, Snapshot!Reinstate, Snapshot!Used
<1>3. (x5' = x5 /\ x1'.suspended = TRUE) \/ x5' = x5 \cup {new}
  BY DEF Snapshot!ChangeMember, Snapshot!ChangeSub, Snapshot!Suspend, Snapshot!Reinstate, Snapshot!Asked, Snapshot!Push, Snapshot!None,
     SnapInv, SnapTyped
<1>4. x1' \in [member : Nat, sub : Nat, suspended : BOOLEAN] /\ x1'.member >= x1.member /\ x1'.sub >= x1.sub
  <2>1. \/ x1' = [x1 EXCEPT !.member = x1.member + 1] \/ x1' = [x1 EXCEPT !.sub = x1.sub + 1]
        \/ x1' = [x1 EXCEPT !.suspended = TRUE] \/ x1' = [x1 EXCEPT !.suspended = FALSE]
    BY DEF Snapshot!ChangeMember, Snapshot!ChangeSub, Snapshot!Suspend, Snapshot!Reinstate
  <2>2. x1 \in [member : Nat, sub : Nat, suspended : BOOLEAN] /\ x1.member + 1 \in Nat /\ x1.sub + 1 \in Nat
        /\ x1.member + 1 >= x1.member /\ x1.sub + 1 >= x1.sub /\ x1.member >= x1.member /\ x1.sub >= x1.sub
    BY DEF SnapInv, SnapTyped
  <2> QED
    BY <2>1, <2>2
<1>5. new \in SnapPush /\ new.pc = "asked" /\ new.member = 0 /\ x8' \in [changes : Nat, unlocks : Nat, locks : Nat, losses : Nat]
  BY <1>2 DEF SnapInv, SnapTyped, SnapPush
<1> HIDE DEF new
<1>6. SnapTyped'
  BY <1>1, <1>3, <1>4, <1>5 DEF SnapInv, SnapTyped
<1>7. SnapBounds'
  <2>1. \A n \in Nat : n <= x1.member => n <= x1'.member
    BY <1>4 DEF SnapInv, SnapTyped
  <2>2. \A n \in Nat : n <= x1.sub => n <= x1'.sub
    BY <1>4 DEF SnapInv, SnapTyped
  <2>3. \A p \in x5' : p.member <= x1'.member
    BY <1>3, <1>4, <1>5, <2>1 DEF SnapInv, SnapTyped, SnapBounds, SnapPush
  <2>4. \A u \in x6 : u.member <= x1'.member
    BY <2>1 DEF SnapInv, SnapTyped, SnapBounds, SnapUnlock
  <2>5. \A q \in x7 : q.sub <= x1'.sub
    BY <2>2 DEF SnapInv, SnapTyped, SnapBounds, SnapMessage
  <2>6. x9 <= x1'.member /\ x3.sub <= x1'.sub
    BY <2>1, <2>2 DEF SnapInv, SnapTyped, SnapBounds
  <2> QED
    BY <1>1, <2>3, <2>4, <2>5, <2>6 DEF SnapInv, SnapBounds
<1>8. SnapOrder'
  BY <1>1 DEF SnapInv, SnapOrder, SnapSubs, SnapMembers
<1>9. SnapHad'
  BY <1>3, <1>5 DEF SnapHad, NoSubUnderWay, NoMemberUnderWay
<1> QED
  BY <1>6, <1>7, <1>8, <1>9 DEF SnapInv

\* A message built now, of a member read at some time, is dated last.
LEMMA SnapBuilt ==
  ASSUME SnapInv, NEW op \in {"unlock", "account"}, NEW to \in Two, NEW m \in Nat, m <= x1.member,
         Snapshot!Build(op, to, m), x10' = x10 \cup Snapshot!Crosses(m),
         UNCHANGED <<x1, x2, x3, x8>>,
         x5' \subseteq x5, x6' \subseteq x6
  PROVE  /\ SnapTyped' /\ SnapBounds' /\ SnapOrder'
         /\ \E q \in SnapMessage : q.op = op /\ q.member = m /\ q.sub = x1.sub /\ x7' = x7 \cup {q}
<1> DEFINE new == Snapshot!Message(op, to, m)
<1>1. x4' = x4 + 1 /\ x7' = x7 \cup {new} /\ x9' = IF m > x9 THEN m ELSE x9
  BY DEF Snapshot!Build
<1>2. new \in SnapMessage /\ new.op = op /\ new.asOf = x4 + 1 /\ new.member = m /\ new.sub = x1.sub
  BY DEF Snapshot!Message, SnapInv, SnapTyped, SnapMessage
<1> HIDE DEF new
<1>3. SnapTyped'
  BY <1>1, <1>2 DEF SnapInv, SnapTyped
<1>4. x9' \in Nat /\ x9' >= x9 /\ x9' >= m /\ x9' <= x1.member
  BY <1>1 DEF SnapInv, SnapTyped, SnapBounds
<1>5. SnapBounds'
  <2>1. \A q \in x7' : q.asOf <= x4' /\ q.sub <= x1.sub /\ q.member <= x9'
    <3>1. \A q \in x7 : q.asOf <= x4 + 1 /\ q.sub <= x1.sub /\ q.member <= x9'
      BY <1>4 DEF SnapInv, SnapTyped, SnapBounds, SnapMessage
    <3>2. new.asOf <= x4 + 1 /\ new.sub <= x1.sub /\ new.member <= x9'
      BY <1>2, <1>4 DEF SnapInv, SnapTyped
    <3> QED
      BY <1>1, <3>1, <3>2
  <2>2. x3.asOf <= x4' /\ x3.member <= x9'
    BY <1>1, <1>4 DEF SnapInv, SnapTyped, SnapBounds
  <2> QED
    BY <1>4, <2>1, <2>2 DEF SnapInv, SnapBounds
<1>6. \A q \in x7 : q.asOf < new.asOf /\ ~(new.asOf <= q.asOf) /\ q.sub <= new.sub
  BY <1>2 DEF SnapInv, SnapTyped, SnapBounds, SnapMessage
<1>7. new.asOf > x3.asOf /\ ~(new.asOf <= x3.asOf) /\ new.sub >= x3.sub /\ new.sub <= new.sub /\ new.member <= new.member
  BY <1>2 DEF SnapInv, SnapTyped, SnapBounds
<1>8. SnapSubs'
  BY <1>1, <1>6, <1>7 DEF SnapInv, SnapOrder, SnapSubs
<1>9. ASSUME "crossed" \notin x10' PROVE SnapMembers'
  <2>1. "crossed" \notin x10 /\ ~(m < x9)
    BY <1>9 DEF Snapshot!Crosses
  <2>2. m >= x9 /\ \A k \in Nat : k <= x9 => k <= m
    BY <2>1 DEF SnapInv, SnapTyped
  <2>3. \A q \in x7 : q.member <= new.member
    BY <1>2, <2>2 DEF SnapInv, SnapTyped, SnapBounds, SnapMessage
  <2>4. new.member >= x3.member
    BY <1>2, <2>2 DEF SnapInv, SnapTyped, SnapBounds
  <2> QED
    BY <1>1, <1>6, <1>7, <2>1, <2>3, <2>4 DEF SnapInv, SnapOrder, SnapMembers
<1> QED
  BY <1>1, <1>2, <1>3, <1>5, <1>8, <1>9 DEF SnapOrder

\* The vault keeps the later one of its snapshot and a message's.
LEMMA SnapStored ==
  ASSUME SnapInv, NEW q \in x7, x3' = Snapshot!Stored(q), x7' = x7 \ {q}, x2' \in Two \cup {"none"}, x10 \subseteq x10',
         UNCHANGED <<x1, x4, x5, x6, x8, x9>>
  PROVE  /\ SnapTyped' /\ SnapBounds' /\ SnapOrder'
         /\ x3'.sub >= x3.sub /\ x3'.sub >= q.sub
         /\ "crossed" \notin x10 => x3'.member >= x3.member /\ x3'.member >= q.member
<1>1. q \in SnapMessage /\ x3 \in [asOf : Nat, member : Nat, sub : Nat]
  BY DEF SnapInv, SnapTyped
<1>2. CASE q.asOf > x3.asOf
  <2>1. x3' = [asOf |-> q.asOf, member |-> q.member, sub |-> q.sub]
    BY <1>2 DEF Snapshot!Stored
  <2>2. x3' \in [asOf : Nat, member : Nat, sub : Nat] /\ x3'.asOf = q.asOf /\ x3'.member = q.member /\ x3'.sub = q.sub
    BY <1>1, <2>1 DEF SnapMessage
  <2> HIDE <2>1
  <2>3. SnapTyped'
    BY <2>2 DEF SnapInv, SnapTyped
  <2>4. SnapBounds'
    BY <2>2 DEF SnapInv, SnapBounds
  <2>5. \A r \in x7 : (r.asOf > q.asOf => q.asOf <= r.asOf)
    BY <1>1 DEF SnapInv, SnapTyped, SnapMessage
  <2>6. SnapSubs'
    BY <2>2, <2>5 DEF SnapInv, SnapOrder, SnapSubs, SnapTyped, SnapMessage
  <2>7. "crossed" \notin x10' => SnapMembers'
    BY <2>2, <2>5 DEF SnapInv, SnapOrder, SnapMembers, SnapTyped, SnapMessage
  <2>8. q.sub >= q.sub /\ q.member >= q.member /\ q.sub >= x3.sub /\ ("crossed" \notin x10 => q.member >= x3.member)
    BY <1>1, <1>2 DEF SnapInv, SnapOrder, SnapSubs, SnapMembers, SnapMessage
  <2> QED
    BY <2>2, <2>3, <2>4, <2>6, <2>7, <2>8 DEF SnapOrder
<1>3. CASE ~(q.asOf > x3.asOf)
  <2>1. x3' = x3 /\ q.asOf <= x3.asOf
    BY <1>1, <1>3 DEF Snapshot!Stored, SnapMessage
  <2>2. q.sub <= x3.sub /\ ("crossed" \notin x10 => q.member <= x3.member)
    BY <2>1 DEF SnapInv, SnapOrder, SnapSubs, SnapMembers
  <2>3. x3.sub >= q.sub /\ x3.sub >= x3.sub /\ x3.member >= x3.member /\ ("crossed" \notin x10 => x3.member >= q.member)
    BY <1>1, <2>2 DEF SnapMessage
  <2>4. SnapTyped'
    BY <2>1 DEF SnapInv, SnapTyped
  <2>5. SnapBounds'
    BY <2>1 DEF SnapInv, SnapBounds
  <2>6. SnapOrder'
    BY <2>1 DEF SnapInv, SnapOrder, SnapSubs, SnapMembers
  <2> QED
    BY <2>1, <2>3, <2>4, <2>5, <2>6
<1> QED
  BY <1>2, <1>3

\* Nothing is excused that reached no vault: then what is there is as the rows have it.
LEMMA SnapMissed ==
  ASSUME SnapInv, Snapshot!Misses = {}
  PROVE  /\ x2 # "none" => x3.sub = x1.sub /\ x3.member = x1.member
         /\ \A q \in x7 : q.op = "unlock" => q.sub = x1.sub /\ q.member = x1.member
         /\ \A u \in x6 : u.member = x1.member
<1>1. /\ x2 # "none" => ~Snapshot!OlderIn(x3)
      /\ \A q \in x7 : q.op = "unlock" => ~Snapshot!OlderIn(q)
      /\ \A u \in x6 : ~(u.member < x1.member)
  BY DEF Snapshot!Misses, Snapshot!None
<1>2. x2 # "none" => x3.sub = x1.sub /\ x3.member = x1.member
  BY <1>1 DEF Snapshot!OlderIn, SnapInv, SnapTyped, SnapBounds
<1>3. \A q \in x7 : q.op = "unlock" => q.sub = x1.sub /\ q.member = x1.member
  <2> SUFFICES ASSUME NEW q \in x7, q.op = "unlock" PROVE q.sub = x1.sub /\ q.member = x1.member
    OBVIOUS
  <2>1. ~(q.member < x1.member) /\ ~(q.sub < x1.sub)
    BY <1>1 DEF Snapshot!OlderIn
  <2> QED
    BY <2>1 DEF SnapInv, SnapTyped, SnapBounds, SnapMessage
<1>4. \A u \in x6 : u.member = x1.member
  <2> SUFFICES ASSUME NEW u \in x6 PROVE u.member = x1.member
    OBVIOUS
  <2>1. ~(u.member < x1.member)
    BY <1>1
  <2> QED
    BY <2>1 DEF SnapInv, SnapTyped, SnapBounds, SnapUnlock
<1> QED
  BY <1>2, <1>3, <1>4

LEMMA SnapPushed ==
  ASSUME SnapInv, NEW p \in x5, Snapshot!ReadMember(p) \/ Snapshot!ReadLease(p) \/ Snapshot!Send(p) \/ Snapshot!Lost(p)
  PROVE  SnapInv'
<1>1. p \in SnapPush
  BY DEF SnapInv, SnapTyped
<1>2. CASE Snapshot!ReadMember(p)
  <2> DEFINE new == [p EXCEPT !.pc = "read", !.member = x1.member, !.suspended = x1.suspended]
  <2>1. x5' = (x5 \ {p}) \cup {new} /\ UNCHANGED <<x1, x2, x3, x4, x6, x7, x8, x9, x10>>
    BY <1>2 DEF Snapshot!ReadMember
  <2>2. new \in SnapPush /\ new.pc = "read" /\ new.member = x1.member /\ new.suspended = x1.suspended
    <3>1. x1.member \in Nat /\ x1.suspended \in BOOLEAN
      BY DEF SnapInv, SnapTyped
    <3> QED
      BY <1>1, <3>1 DEF SnapPush
  <2>0. x1.member <= x1.member
    BY DEF SnapInv, SnapTyped
  <2> HIDE DEF new
  <2>3. SnapTyped' /\ SnapBounds'
    BY <2>1, <2>2, <2>0 DEF SnapInv, SnapTyped, SnapBounds
  <2>4. SnapOrder'
    BY <2>1 DEF SnapInv, SnapOrder, SnapSubs, SnapMembers
  <2>5. x1.suspended = FALSE => ~NoSubUnderWay' /\ ~NoMemberUnderWay'
    BY <2>1, <2>2 DEF NoSubUnderWay, NoMemberUnderWay
  <2> QED
    BY <2>1, <2>3, <2>4, <2>5 DEF SnapInv, SnapHad
<1>3. CASE Snapshot!ReadLease(p)
  <2>1. UNCHANGED <<x1, x2, x3, x4, x6, x7, x8, x9>> /\ p.pc = "read"
    BY <1>3 DEF Snapshot!ReadLease
  <2>2. SnapOrder' /\ SnapBounds' /\ SnapTyped' /\ SnapHad'
    <3>1. CASE x2 = "none"
      <4>1. x5' = x5 \ {p} /\ x10' = x10 \cup Snapshot!Misses
        BY <1>3, <3>1 DEF Snapshot!ReadLease, Snapshot!None
      <4>2. SnapOrder' /\ SnapBounds' /\ SnapTyped'
        BY <2>1, <4>1 DEF SnapInv, SnapTyped, SnapBounds, SnapOrder, SnapSubs, SnapMembers
      <4>3. x10' \subseteq {"crossed"} => Snapshot!Misses = {}
        BY <4>1 DEF Snapshot!Misses
      <4>4. x10' \subseteq {"crossed"} => SubHad' /\ MemberHad'
        BY <2>1, <3>1, <4>3, SnapMissed DEF SubHad, MemberHad
      <4> QED
        BY <4>2, <4>4 DEF SnapHad
    <3>2. CASE x2 # "none"
      <4> DEFINE new == [p EXCEPT !.pc = "routed", !.to = x2]
      <4>1. x5' = (x5 \ {p}) \cup {new} /\ x10' = x10
        BY <1>3, <3>2 DEF Snapshot!ReadLease, Snapshot!None
      <4>2. new \in SnapPush /\ new.member = p.member /\ new.suspended = p.suspended /\ new.pc = "routed" /\ new.to \in Two
        BY <1>1, <3>2 DEF SnapPush, SnapInv, SnapTyped
      <4> HIDE DEF new
      <4>3. SnapOrder' /\ SnapBounds' /\ SnapTyped'
        BY <2>1, <4>1, <4>2 DEF SnapInv, SnapTyped, SnapBounds, SnapOrder, SnapSubs, SnapMembers
      <4>4. (NoSubUnderWay' => NoSubUnderWay) /\ (NoMemberUnderWay' => NoMemberUnderWay)
        BY <2>1, <4>1, <4>2 DEF NoSubUnderWay, NoMemberUnderWay
      <4> QED
        BY <2>1, <4>1, <4>3, <4>4 DEF SnapInv, SnapHad, SubHad, MemberHad
    <3> QED
      BY <3>1, <3>2
  <2> QED
    BY <2>2 DEF SnapInv
<1>4. CASE Snapshot!Send(p)
  <2>1. UNCHANGED <<x1, x2, x3, x6, x8>> /\ x5' = x5 \ {p} /\ p.pc = "routed"
    BY <1>4 DEF Snapshot!Send
  <2>2. CASE p.suspended
    <3>1. UNCHANGED <<x4, x7, x9, x10>>
      BY <1>4, <2>2 DEF Snapshot!Send
    <3>2. SnapOrder' /\ SnapBounds' /\ SnapTyped'
      BY <2>1, <3>1 DEF SnapInv, SnapTyped, SnapBounds, SnapOrder, SnapSubs, SnapMembers
    <3>3. (NoSubUnderWay' => NoSubUnderWay) /\ (NoMemberUnderWay' => NoMemberUnderWay)
      BY <2>1, <2>2 DEF NoSubUnderWay, NoMemberUnderWay
    <3> QED
      BY <2>1, <3>1, <3>2, <3>3 DEF SnapInv, SnapHad, SubHad, MemberHad
  <2>3. CASE ~p.suspended
    <3>1. Snapshot!Build("account", p.to, p.member) /\ x10' = x10 \cup Snapshot!Crosses(p.member)
      BY <1>4, <2>3 DEF Snapshot!Send
    <3>2. p.to \in Two /\ p.member \in Nat /\ p.member <= x1.member
      BY <1>1, <2>1 DEF SnapPush, SnapInv, SnapTyped, SnapBounds
    <3>3. /\ SnapTyped' /\ SnapBounds' /\ SnapOrder'
          /\ \E q \in SnapMessage : q.op = "account" /\ q.member = p.member /\ q.sub = x1.sub /\ x7' = x7 \cup {q}
      BY <2>1, <3>1, <3>2, SnapBuilt
    <3>4. PICK q \in SnapMessage : q.op = "account" /\ q.member = p.member /\ q.sub = x1.sub /\ x7' = x7 \cup {q}
      BY <3>3
    <3>5. SubHad'
      BY <2>1, <3>4 DEF SubHad
    <3>6. CASE p.member = x1.member
      <4>1. MemberHad'
        BY <2>1, <3>4, <3>6 DEF MemberHad
      <4> QED
        BY <3>3, <3>5, <4>1 DEF SnapInv, SnapHad
    <3>7. CASE p.member # x1.member
      <4>1. NoMemberUnderWay' => NoMemberUnderWay
        BY <2>1, <3>7 DEF NoMemberUnderWay
      <4>2. MemberHad => MemberHad'
        BY <2>1, <3>4 DEF MemberHad
      <4>3. x10' = {} => x10 = {}
        BY <3>1
      <4> QED
        BY <2>1, <3>3, <3>5, <4>1, <4>2, <4>3 DEF SnapInv, SnapHad
    <3> QED
      BY <3>6, <3>7
  <2> QED
    BY <2>2, <2>3
<1>5. CASE Snapshot!Lost(p)
  <2>1. x5' = x5 \ {p} /\ x10' = x10 \cup {"lost"} /\ UNCHANGED <<x1, x2, x3, x4, x6, x7, x9>>
        /\ x8' = [x8 EXCEPT !["losses"] = @ + 1]
    BY <1>5 DEF Snapshot!Lost, Snapshot!Used
  <2>2. x8' \in [changes : Nat, unlocks : Nat, locks : Nat, losses : Nat]
    BY <2>1 DEF SnapInv, SnapTyped
  <2>3. SnapOrder' /\ SnapBounds' /\ SnapTyped'
    BY <2>1, <2>2 DEF SnapInv, SnapTyped, SnapBounds, SnapOrder, SnapSubs, SnapMembers
  <2>4. ~(x10' \subseteq {"crossed"})
    BY <2>1
  <2> QED
    BY <2>3, <2>4 DEF SnapInv, SnapHad
<1> QED
  BY <1>2, <1>3, <1>4, <1>5

LEMMA SnapUnlocked ==
  ASSUME SnapInv, Snapshot!CallUnlock \/ Snapshot!Lock \/ \E u \in x6 : Snapshot!QueueUnlock(u)
  PROVE  SnapInv'
<1>1. CASE Snapshot!CallUnlock
  <2>1. PICK i \in Two : x6' = x6 \cup {[id |-> x8.unlocks + 1, to |-> i, member |-> x1.member]}
    BY <1>1 DEF Snapshot!CallUnlock
  <2>2. UNCHANGED <<x1, x2, x3, x4, x5, x7, x9, x10>> /\ x8' = [x8 EXCEPT !["unlocks"] = @ + 1]
    BY <1>1 DEF Snapshot!CallUnlock, Snapshot!Used
  <2> DEFINE u == [id |-> x8.unlocks + 1, to |-> i, member |-> x1.member]
  <2>3. u \in SnapUnlock /\ u.member = x1.member /\ x1.member <= x1.member
    <3>1. x1.member \in Nat /\ x8.unlocks + 1 \in Nat
      BY DEF SnapInv, SnapTyped
    <3> QED
      BY <3>1 DEF SnapUnlock
  <2> HIDE DEF u
  <2>7. x6' = x6 \cup {u}
    BY <2>1 DEF u
  <2>4. x8' \in [changes : Nat, unlocks : Nat, locks : Nat, losses : Nat]
    BY <2>2 DEF SnapInv, SnapTyped
  <2>5. SnapOrder' /\ SnapBounds' /\ SnapTyped'
    BY <2>2, <2>3, <2>7, <2>4 DEF SnapInv, SnapTyped, SnapBounds, SnapOrder, SnapSubs, SnapMembers
  <2>6. NoSubUnderWay' = NoSubUnderWay /\ NoMemberUnderWay' = NoMemberUnderWay /\ SubHad' = SubHad /\ (MemberHad => MemberHad')
    BY <2>2, <2>3, <2>7 DEF NoSubUnderWay, NoMemberUnderWay, SubHad, MemberHad
  <2> QED
    BY <2>2, <2>5, <2>6 DEF SnapInv, SnapHad
<1>2. CASE Snapshot!Lock
  <2>1. UNCHANGED <<x1, x3, x4, x5, x6, x7, x9, x10>> /\ x8' = [x8 EXCEPT !["locks"] = @ + 1] /\ x2 # "none" /\ x2' = "none"
    BY <1>2 DEF Snapshot!Lock, Snapshot!Used, Snapshot!None
  <2>2. x8' \in [changes : Nat, unlocks : Nat, locks : Nat, losses : Nat]
    BY <2>1 DEF SnapInv, SnapTyped
  <2>3. SnapOrder' /\ SnapBounds' /\ SnapTyped'
    BY <2>1, <2>2 DEF SnapInv, SnapTyped, SnapBounds, SnapOrder, SnapSubs, SnapMembers
  <2>4. NoSubUnderWay' = NoSubUnderWay /\ NoMemberUnderWay' = NoMemberUnderWay /\ (SubHad => SubHad') /\ (MemberHad => MemberHad')
    BY <2>1 DEF NoSubUnderWay, NoMemberUnderWay, SubHad, MemberHad
  <2> QED
    BY <2>1, <2>3, <2>4 DEF SnapInv, SnapHad
<1>3. ASSUME NEW u \in x6, Snapshot!QueueUnlock(u) PROVE SnapInv'
  <2>1. /\ x6' = x6 \ {u} /\ Snapshot!Build("unlock", u.to, u.member) /\ x10' = x10 \cup Snapshot!Crosses(u.member)
        /\ UNCHANGED <<x1, x2, x3, x5, x8>>
    BY <1>3 DEF Snapshot!QueueUnlock
  <2>2. u.to \in Two /\ u.member \in Nat /\ u.member <= x1.member
    BY DEF SnapUnlock, SnapInv, SnapTyped, SnapBounds
  <2>3. /\ SnapTyped' /\ SnapBounds' /\ SnapOrder'
        /\ \E q \in SnapMessage : q.op = "unlock" /\ q.member = u.member /\ q.sub = x1.sub /\ x7' = x7 \cup {q}
    BY <2>1, <2>2, SnapBuilt
  <2>4. PICK q \in SnapMessage : q.op = "unlock" /\ q.member = u.member /\ q.sub = x1.sub /\ x7' = x7 \cup {q}
    BY <2>3
  <2>5. NoSubUnderWay' = NoSubUnderWay /\ NoMemberUnderWay' = NoMemberUnderWay
    BY <2>1 DEF NoSubUnderWay, NoMemberUnderWay
  <2>6. (SubHad => SubHad') /\ (MemberHad => MemberHad')
    BY <2>1, <2>4 DEF SubHad, MemberHad
  <2>7. (x10' = {} => x10 = {}) /\ (x10' \subseteq {"crossed"} => x10 \subseteq {"crossed"})
    BY <2>1
  <2> QED
    BY <2>1, <2>3, <2>5, <2>6, <2>7 DEF SnapInv, SnapHad
<1> QED
  BY <1>1, <1>2, <1>3

LEMMA SnapHandled ==
  ASSUME SnapInv, NEW q \in x7, Snapshot!HandleUnlock(q) \/ Snapshot!HandleAccount(q)
  PROVE  SnapInv'
<1>1. x7' = x7 \ {q} /\ UNCHANGED <<x1, x4, x5, x6, x8, x9>> /\ x10 \subseteq x10' /\ q \in SnapMessage
  BY DEF Snapshot!HandleUnlock, Snapshot!HandleAccount, SnapInv, SnapTyped
<1>2. NoSubUnderWay' = NoSubUnderWay /\ NoMemberUnderWay' = NoMemberUnderWay
  BY <1>1 DEF NoSubUnderWay, NoMemberUnderWay
<1>3. ASSUME x3' = Snapshot!Stored(q), x2' \in Two \cup {"none"}, x2' # "none", x10' = x10, q.op = "unlock" => x2 \in {"none", x2'},
             q.op = "account" => x2 # "none" PROVE SnapInv'
  <2>1. /\ SnapTyped' /\ SnapBounds' /\ SnapOrder' /\ x3'.sub >= x3.sub /\ x3'.sub >= q.sub
        /\ "crossed" \notin x10 => x3'.member >= x3.member /\ x3'.member >= q.member
    BY <1>1, <1>3, SnapStored
  <2>2. x3'.sub <= x1.sub /\ x3'.member <= x1.member /\ x3' \in [asOf : Nat, member : Nat, sub : Nat]
    BY <1>1, <2>1 DEF SnapTyped, SnapBounds
  <2>3. q.sub \in Nat /\ q.member \in Nat /\ x3.sub \in Nat /\ x3.member \in Nat /\ x1.sub \in Nat /\ x1.member \in Nat
    BY <1>1 DEF SnapMessage, SnapInv, SnapTyped
  <2>4. x3.sub = x1.sub \/ q.sub = x1.sub => x3'.sub = x1.sub
    BY <2>1, <2>2, <2>3
  <2>5. "crossed" \notin x10 /\ (x3.member = x1.member \/ q.member = x1.member) => x3'.member = x1.member
    BY <2>1, <2>2, <2>3
  <2>6. SubHad => SubHad'
    BY <1>1, <1>3, <2>4 DEF SubHad, SnapMessage
  <2>7. "crossed" \notin x10 /\ MemberHad => MemberHad'
    BY <1>1, <1>3, <2>5 DEF MemberHad, SnapMessage
  <2> QED
    BY <1>1, <1>2, <1>3, <2>1, <2>6, <2>7 DEF SnapInv, SnapHad
<1>4. ASSUME UNCHANGED <<x2, x3>>, q.op = "account" => x10' = x10 \cup Snapshot!Misses,
             q.op = "unlock" => x10' = x10 /\ x2 # "none"
      PROVE  SnapInv'
  <2>1. SnapTyped' /\ SnapBounds' /\ SnapOrder'
    BY <1>1, <1>4 DEF SnapInv, SnapTyped, SnapBounds, SnapOrder, SnapSubs, SnapMembers
  <2>2. CASE q.op = "account"
    <3>1. x10' \subseteq {"crossed"} => Snapshot!Misses = {}
      BY <1>4, <2>2 DEF Snapshot!Misses
    <3>2. x10' \subseteq {"crossed"} => SubHad' /\ MemberHad'
      BY <1>1, <1>4, <3>1, SnapMissed DEF SubHad, MemberHad
    <3> QED
      BY <2>1, <3>2 DEF SnapInv, SnapHad
  <2>3. CASE q.op = "unlock"
    <3>1. (SubHad => SubHad') /\ (MemberHad => MemberHad')
      BY <1>1, <1>4, <2>3 DEF SubHad, MemberHad
    <3> QED
      BY <1>1, <1>2, <1>4, <2>1, <2>3, <3>1 DEF SnapInv, SnapHad
  <2> QED
    BY <1>1, <2>2, <2>3 DEF SnapMessage
<1>5. CASE Snapshot!HandleUnlock(q)
  <2>1. q.op = "unlock" /\ x10' = x10
    BY <1>5 DEF Snapshot!HandleUnlock
  <2>2. CASE x2 \in {"none", q.to}
    <3>1. x2' = q.to /\ x3' = Snapshot!Stored(q)
      BY <1>5, <2>2 DEF Snapshot!HandleUnlock, Snapshot!None
    <3>2. q.to \in Two /\ q.to # "none"
      BY <1>1, ValuesAssumption DEF SnapMessage
    <3> QED
      BY <1>1, <1>3, <2>1, <2>2, <3>1, <3>2
  <2>3. CASE x2 \notin {"none", q.to}
    <3>1. UNCHANGED <<x2, x3>>
      BY <1>5, <2>3 DEF Snapshot!HandleUnlock, Snapshot!None
    <3> QED
      BY <1>4, <2>1, <2>3, <3>1
  <2> QED
    BY <2>2, <2>3
<1>6. CASE Snapshot!HandleAccount(q)
  <2>1. q.op = "account" /\ x2' = x2 /\ x2 \in Two \cup {"none"}
    BY <1>6 DEF Snapshot!HandleAccount, SnapInv, SnapTyped
  <2>2. CASE x2 = q.to
    <3>0. q.to # "none"
      BY <1>1, ValuesAssumption DEF SnapMessage
    <3>1. x3' = Snapshot!Stored(q) /\ x10' = x10
      BY <1>6, <2>2 DEF Snapshot!HandleAccount
    <3> QED
      BY <1>3, <2>1, <2>2, <3>0, <3>1
  <2>3. CASE x2 # q.to
    <3>1. x3' = x3 /\ x10' = x10 \cup Snapshot!Misses
      BY <1>6, <2>3 DEF Snapshot!HandleAccount
    <3> QED
      BY <1>4, <2>1, <3>1
  <2> QED
    BY <2>2, <2>3
<1> QED
  BY <1>5, <1>6

LEMMA SnapStep == SnapInv /\ [Snapshot!Next]_(Snapshot!vars) => SnapInv'
<1> SUFFICES ASSUME SnapInv, [Snapshot!Next]_(Snapshot!vars) PROVE SnapInv'
  OBVIOUS
<1>1. CASE UNCHANGED Snapshot!vars
  BY <1>1 DEF Snapshot!vars, SnapInv, SnapTyped, SnapBounds, SnapOrder, SnapSubs, SnapMembers, SnapHad, NoSubUnderWay,
     NoMemberUnderWay, SubHad, MemberHad
<1>2. CASE Snapshot!Next
  BY <1>2, SnapChanged, SnapPushed, SnapUnlocked, SnapHandled DEF Snapshot!Next
<1> QED
  BY <1>1, <1>2

LEMMA SnapSafe == SnapInv => Snapshot!SnapshotCurrent
BY DEF SnapInv, SnapTyped, SnapHad, NoSubUnderWay, NoMemberUnderWay, SubHad, MemberHad, Snapshot!SnapshotCurrent, Snapshot!None

--------------------------------------------------------------------------------
(***************************************************************************)
(* A phone's keys (AppKeys), for any phones, recoveries and times: a       *)
(* signed header is let through once, and a phone that was told that its   *)
(* recovery ended is not taken afterwards.  (app is x1, next x2, rec x3,   *)
(* flight x4, told x5, nonce x6, passes x7, now x8, made x9.)  A header    *)
(* that passed has a nonce whose row outlasts the time in which its ts is  *)
(* accepted.  Opens on their way are of one recovery, since the next one   *)
(* is not claimed before the grace of the last is over; the latest end of  *)
(* their key, once it is told, is no earlier than the open, or the vault   *)
(* has taken the key and nothing else is on its way to replace it.         *)
(***************************************************************************)
CONSTANTS HeaderWindow, HeaderTtl, HeaderStamp,                \* a signed header's time, and its nonce's
          AppDelay, AppSpan, AppGrace, AppKeep, AppEnded,      \* a recovery's times, the grace and the keeping of its key, the keys kept
          AppTime, AppRecoveries                               \* the time, and recoveries

ASSUME AppsAssumption ==
  /\ {HeaderWindow, HeaderTtl, HeaderStamp} \subseteq Nat /\ 0 < HeaderTtl /\ 2 * HeaderWindow <= HeaderTtl
  /\ {AppDelay, AppSpan, AppGrace, AppKeep, AppEnded, AppTime, AppRecoveries} \subseteq Nat
  /\ 0 < AppGrace /\ AppGrace <= AppDelay
  /\ Empty \notin One \cup {k0}

Apps == INSTANCE AppKeys WITH
               Keys <- One \cup {k0}, First <- k0, NoKey <- Empty, Delay <- AppDelay, Span <- AppSpan, Grace <- AppGrace,
               Keep <- AppKeep, MaxEnded <- AppEnded, Window <- HeaderWindow, NonceTtl <- HeaderTtl, Stamp <- HeaderStamp,
               MaxTime <- AppTime, MaxRecoveries <- AppRecoveries,
               app <- x1, next <- x2, rec <- x3, flight <- x4, told <- x5, nonce <- x6, passes <- x7,
               now <- x8, made <- x9

HeaderInv ==
  /\ x6 \in Nat /\ x7 \in Nat /\ x8 \in Nat
  /\ \/ x7 = 0
     \/ x7 = 1 /\ x6 > 0 /\ x6 >= HeaderStamp + HeaderWindow

LEMMA HeaderInit == Apps!Init => HeaderInv
BY DEF Apps!Init, HeaderInv

LEMMA HeaderStep == HeaderInv /\ [Apps!Next]_Apps!vars => HeaderInv'
<1> SUFFICES ASSUME HeaderInv, [Apps!Next]_Apps!vars PROVE HeaderInv'
  OBVIOUS
<1>1. CASE Apps!Pass
  <2>1. x8 - HeaderStamp \in -HeaderWindow..HeaderWindow /\ (x6 = 0 \/ x6 < x8)
        /\ x6' = x8 + HeaderTtl /\ x7' = x7 + 1 /\ x8' = x8
    BY <1>1 DEF Apps!Pass, Apps!Spent
  <2>2. HeaderWindow \in Nat /\ HeaderTtl \in Nat /\ HeaderStamp \in Nat /\ HeaderTtl > 0 /\ 2 * HeaderWindow <= HeaderTtl
    BY AppsAssumption
  <2>3. x8 <= HeaderStamp + HeaderWindow /\ x8 >= HeaderStamp - HeaderWindow /\ x8 \in Nat /\ x6 \in Nat
    BY <2>1, <2>2 DEF HeaderInv
  <2>4. x7 = 0
    BY <2>1, <2>2, <2>3 DEF HeaderInv
  <2> QED
    BY <2>1, <2>2, <2>3, <2>4 DEF HeaderInv
<1>2. CASE Apps!Tick
  BY <1>2 DEF Apps!Tick, HeaderInv
<1>3. CASE UNCHANGED <<x6, x7, x8>>
  BY <1>3 DEF HeaderInv
<1>4. Apps!Request \/ Apps!Cancel \/ Apps!Open \/ Apps!AdoptNext => UNCHANGED <<x6, x7, x8>>
  BY DEF Apps!Request, Apps!Cancel, Apps!Open, Apps!AdoptNext
<1>5. ASSUME NEW k \in One \cup {k0}, Apps!Ask(k) \/ Apps!Claim(k) \/ Apps!Register(k) PROVE UNCHANGED <<x6, x7, x8>>
  BY <1>5 DEF Apps!Ask, Apps!Claim, Apps!Register
<1>6. ASSUME NEW f \in x4, Apps!Adopt(f) PROVE UNCHANGED <<x6, x7, x8>>
  BY <1>6 DEF Apps!Adopt
<1>7. UNCHANGED Apps!vars => UNCHANGED <<x6, x7, x8>>
  BY DEF Apps!vars
<1> QED
  BY <1>1, <1>2, <1>3, <1>4, <1>5, <1>6, <1>7 DEF Apps!Next

LEMMA HeaderSafe == HeaderInv => Apps!HeaderOnce
BY DEF HeaderInv, Apps!HeaderOnce

\* A finite set has subsets of every size up to its own.
LEMMA SomeOfSize ==
  ASSUME NEW S, IsFiniteSet(S), NEW n \in Nat, n <= Cardinality(S)
  PROVE  \E T \in SUBSET S : Cardinality(T) = n
<1> DEFINE Large == {T \in SUBSET S : n <= Cardinality(T)}
           Counts == {Cardinality(T) : T \in Large}
<1>1. \A T \in SUBSET S : IsFiniteSet(T) /\ Cardinality(T) \in Nat
  BY FS_Subset, FS_CardinalityType
<1>2. Counts \subseteq Nat /\ Counts # {}
  BY <1>1
<1>3. PICK k \in Counts : \A j \in Counts : ~(j < k)
  <2>1. \E k \in Counts : \A j \in Counts : ~(<<j, k>> \in OpToRel(<, Nat))
    BY <1>2, NatLessThanWellFounded, WFMin
  <2> QED
    BY <1>2, <2>1 DEF OpToRel
<1>4. PICK T \in Large : Cardinality(T) = k
  BY <1>3
<1>5. CASE k = n
  BY <1>4, <1>5
<1>6. CASE k # n
  <2>1. k \in Nat /\ n < k
    BY <1>1, <1>4, <1>6
  <2>2. T # {}
    BY <1>4, <2>1, FS_EmptySet
  <2>3. PICK y \in T : TRUE
    BY <2>2
  <2>4. T \ {y} \in SUBSET S /\ Cardinality(T \ {y}) = k - 1
    BY <1>1, <1>4, <2>3, FS_RemoveElement
  <2>5. T \ {y} \in Large /\ k - 1 < k
    BY <2>1, <2>4
  <2> QED
    BY <1>3, <2>4, <2>5
<1> QED
  BY <1>5, <1>6

\* Of the ends that are carried over, none is new.
LEMMA TrimmedWithin ==
  ASSUME NEW S, IsFiniteSet(S)
  PROVE  Apps!Trimmed(S) \subseteq S
<1> DEFINE kept == Apps!Newest(S)
<1>1. kept \subseteq S
  BY DEF Apps!Newest
<1>2. IsFiniteSet(kept) /\ Cardinality(kept) \in Nat /\ AppEnded \in Nat
  BY <1>1, FS_Subset, FS_CardinalityType, AppsAssumption
<1>3. Apps!Trimmed(S) = IF Cardinality(kept) <= AppEnded THEN kept
                        ELSE CHOOSE T \in SUBSET kept : Cardinality(T) = AppEnded
  BY DEF Apps!Trimmed, Apps!Cardinality, Cardinality
<1> HIDE DEF kept
<1>4. CASE Cardinality(kept) <= AppEnded
  BY <1>1, <1>3, <1>4
<1>5. CASE ~(Cardinality(kept) <= AppEnded)
  <2>1. \E T \in SUBSET kept : Cardinality(T) = AppEnded
    BY <1>2, <1>5, SomeOfSize
  <2> QED
    BY <1>1, <1>3, <1>5, <2>1
<1> QED
  BY <1>4, <1>5

Phones    == One \cup {k0}
AppStates == {"none", "pending", "registered", "completed", "cancelled"}
AppEnds   == [key : Phones, at : Nat]
Available == x3.expires - AppSpan
Start     == x3.expires - AppSpan - AppDelay

\* The vault has taken the key, and has no other to take.
Taken(k) == x1 = k /\ x2 \in {Empty, k}

ToldTyped ==
  /\ x1 \in Phones /\ x2 \in Phones \cup {Empty} /\ x5 \subseteq Phones /\ x8 \in Nat /\ x9 \in Nat
  /\ x3 \in [n : Nat, state : AppStates, expires : Nat, at : Nat, key : Phones \cup {Empty}, claims : SUBSET Phones,
             ended : SUBSET AppEnds]
  /\ IsFiniteSet(x3.ended) /\ x3.n <= x9
  /\ x4 \subseteq [n : Nat, key : Phones, until : Nat]

\* Keys come to a recovery once it is available.
ToldRec ==
  /\ x3.state \in {"none", "pending", "completed"} => x3.key = Empty
  /\ x3.state \in {"none", "completed"} => x3.claims = {}
  /\ x3.key # Empty \/ x3.claims # {} => Available <= x8

\* What is told of is not in use, and not about to be.
ToldOut ==
  /\ x5 \cap {x1, x2} = {} /\ \A f \in x4 : f.key \notin x5
  /\ Apps!Active => x5 \cap x3.claims = {} /\ x3.key \notin x5

FlightOwn(f) ==
  /\ x3.state \in {"registered", "completed", "cancelled"}
  /\ x3.state = "registered" => /\ x3.key = f.key /\ f.until <= x3.expires + AppGrace
                                /\ x1 = f.key => x2 \in {Empty, f.key}
  /\ x3.state = "cancelled" => x3.key = f.key /\ f.until <= x3.expires + AppGrace /\ f.until <= x3.at + AppGrace
  /\ x3.state = "completed" => Taken(f.key)
FlightFormer(f) ==
  /\ f.until <= Start + AppGrace
  /\ Taken(f.key) \/ \A e \in x3.ended : e.key = f.key => f.until <= e.at + AppGrace

ToldFlights ==
  /\ \A f \in x4 : /\ x8 < f.until /\ f.until <= x8 + AppGrace /\ f.n <= x3.n
                   /\ f.n = x3.n => FlightOwn(f)
                   /\ f.n < x3.n => FlightFormer(f)
  /\ \A f, g \in x4 : f.n = g.n /\ f.key = g.key

ToldInv == ToldTyped /\ ToldRec /\ ToldOut /\ ToldFlights

LEMMA ToldInit == Apps!Init => ToldInv
<1> SUFFICES ASSUME Apps!Init PROVE ToldInv
  OBVIOUS
<1>1. /\ x1 = k0 /\ x2 = Empty /\ x4 = {} /\ x5 = {} /\ x8 = 0 /\ x9 = 0
      /\ x3 = [n |-> 0, state |-> "none", expires |-> 0, at |-> 0, key |-> Empty, claims |-> {}, ended |-> {}]
  BY DEF Apps!Init, Apps!NoRecovery
<1>2. IsFiniteSet({})
  BY FS_EmptySet
<1>3. ToldTyped
  BY <1>1, <1>2 DEF ToldTyped, Phones, AppStates, AppEnds
<1> QED
  BY <1>1, <1>3 DEF ToldInv, ToldRec, ToldOut, ToldFlights

\* An end of the key of an open on its way, whose recovery is over.
LEMMA EndAfterOpen ==
  ASSUME ToldInv, NEW f \in x4, ~Apps!Active, ~Taken(f.key)
  PROVE  /\ f.n = x3.n => \E o \in Apps!OwnEnd : o.key = f.key /\ o.at \in Nat /\ f.until <= o.at + AppGrace
         /\ f.n < x3.n => \A e \in x3.ended \cup Apps!OwnEnd : e.key = f.key => f.until <= e.at + AppGrace
<1>1. AppGrace \in Nat /\ AppDelay \in Nat /\ AppSpan \in Nat /\ AppGrace <= AppDelay
  BY AppsAssumption
<1>2. f.key \in Phones /\ f.until \in Nat /\ f.key # Empty /\ x3.at \in Nat /\ x3.expires \in Nat
  BY AppsAssumption DEF ToldInv, ToldTyped, Phones
<1>3. ASSUME f.n = x3.n PROVE \E o \in Apps!OwnEnd : o.key = f.key /\ o.at \in Nat /\ f.until <= o.at + AppGrace
  <2>1. FlightOwn(f)
    BY <1>3 DEF ToldInv, ToldFlights
  <2>2. CASE x3.state = "registered"
    <3>1. Apps!OwnEnd = {[key |-> x3.key, at |-> x3.expires]} /\ x3.key = f.key /\ f.until <= x3.expires + AppGrace
      BY <1>2, <2>1, <2>2 DEF Apps!OwnEnd, FlightOwn
    <3> QED
      BY <1>2, <3>1
  <2>3. CASE x3.state = "cancelled"
    <3>1. Apps!OwnEnd = {[key |-> x3.key, at |-> Apps!Min({x3.at, x3.expires})]} /\ x3.key = f.key
      BY <1>2, <2>1, <2>3 DEF Apps!OwnEnd, FlightOwn
    <3>2. Apps!Min({x3.at, x3.expires}) \in {x3.at, x3.expires}
      <4>1. \E x \in {x3.at, x3.expires} : \A y \in {x3.at, x3.expires} : x <= y
        BY <1>2
      <4> QED
        BY <4>1 DEF Apps!Min
    <3>3. f.until <= x3.expires + AppGrace /\ f.until <= x3.at + AppGrace
      BY <2>1, <2>3 DEF FlightOwn
    <3> QED
      BY <1>2, <3>1, <3>2, <3>3
  <2> QED
    BY <2>1, <2>2, <2>3 DEF FlightOwn
<1>4. ASSUME f.n < x3.n PROVE \A e \in x3.ended \cup Apps!OwnEnd : e.key = f.key => f.until <= e.at + AppGrace
  <2>1. FlightFormer(f) /\ x8 < f.until /\ x8 \in Nat
    BY <1>4 DEF ToldInv, ToldTyped, ToldFlights
  <2>2. x3.key = Empty
    BY <1>1, <1>2, <2>1 DEF FlightFormer, Start, Available, ToldInv, ToldRec
  <2>3. Apps!OwnEnd = {}
    BY <2>2 DEF Apps!OwnEnd
  <2> QED
    BY <2>1, <2>3 DEF FlightFormer
<1> QED
  BY <1>3, <1>4

\* Once a recovery is available, no open of an earlier one is on its way.
LEMMA FormerOver ==
  ASSUME ToldInv, Available <= x8, NEW f \in x4
  PROVE  f.n = x3.n
<1>1. AppGrace \in Nat /\ AppDelay \in Nat /\ AppSpan \in Nat /\ AppGrace <= AppDelay
  BY AppsAssumption
<1>2. f.n \in Nat /\ f.until \in Nat /\ x3.n \in Nat /\ x3.expires \in Nat /\ x8 \in Nat /\ f.n <= x3.n /\ x8 < f.until
      /\ (f.n < x3.n => FlightFormer(f))
  BY DEF ToldInv, ToldTyped, ToldFlights
<1>3. ~FlightFormer(f)
  BY <1>1, <1>2 DEF FlightFormer, Start, Available
<1> QED
  BY <1>2, <1>3

\* Before it has a key, a recovery's own opens are none.
LEMMA NoneOnItsWay ==
  ASSUME ToldInv, Available <= x8, x3.state = "pending"
  PROVE  x4 = {}
<1> SUFFICES ASSUME NEW f \in x4 PROVE FALSE
  OBVIOUS
<1>1. f.n = x3.n
  BY FormerOver
<1> QED
  BY <1>1 DEF ToldInv, ToldFlights, FlightOwn

LEMMA OwnEndTyped == ToldInv => Apps!OwnEnd \subseteq AppEnds /\ IsFiniteSet(Apps!OwnEnd)
<1> SUFFICES ASSUME ToldInv PROVE Apps!OwnEnd \subseteq AppEnds /\ IsFiniteSet(Apps!OwnEnd)
  OBVIOUS
<1>1. x3.key \in Phones \cup {Empty} /\ x3.at \in Nat /\ x3.expires \in Nat
  BY DEF ToldInv, ToldTyped
<1>2. Apps!Min({x3.at, x3.expires}) \in {x3.at, x3.expires}
  <2>1. \E x \in {x3.at, x3.expires} : \A y \in {x3.at, x3.expires} : x <= y
    BY <1>1
  <2> QED
    BY <2>1 DEF Apps!Min
<1>3. IsFiniteSet({}) /\ \A e \in AppEnds : IsFiniteSet({e})
  BY FS_EmptySet, FS_Singleton
<1>4. CASE Apps!Active \/ x3.key = Empty
  BY <1>3, <1>4 DEF Apps!OwnEnd
<1>5. CASE ~(Apps!Active \/ x3.key = Empty) /\ x3.state = "cancelled"
  <2> DEFINE e == [key |-> x3.key, at |-> Apps!Min({x3.at, x3.expires})]
  <2>1. e \in AppEnds
    BY <1>1, <1>2, <1>5 DEF AppEnds
  <2>2. Apps!OwnEnd = {e}
    BY <1>5 DEF Apps!OwnEnd
  <2> QED
    BY <1>3, <2>1, <2>2
<1>6. CASE ~(Apps!Active \/ x3.key = Empty) /\ x3.state = "registered"
  <2> DEFINE e == [key |-> x3.key, at |-> x3.expires]
  <2>1. e \in AppEnds
    BY <1>1, <1>6 DEF AppEnds
  <2>2. Apps!OwnEnd = {e}
    BY <1>6 DEF Apps!OwnEnd
  <2> QED
    BY <1>3, <2>1, <2>2
<1>7. CASE ~(Apps!Active \/ x3.key = Empty) /\ x3.state \notin {"cancelled", "registered"}
  BY <1>3, <1>7 DEF Apps!OwnEnd
<1> QED
  BY <1>4, <1>5, <1>6, <1>7

LEMMA ToldStep == ToldInv /\ [Apps!Next]_Apps!vars => ToldInv'
<1> SUFFICES ASSUME ToldInv, [Apps!Next]_Apps!vars PROVE ToldInv'
  OBVIOUS
<1> USE DEF Phones
<1>1. /\ AppGrace \in Nat /\ AppDelay \in Nat /\ AppSpan \in Nat /\ 0 < AppGrace /\ AppGrace <= AppDelay
      /\ Empty \notin Phones
  BY AppsAssumption
<1>2. /\ x3.n \in Nat /\ x3.state \in AppStates /\ x3.expires \in Nat /\ x3.at \in Nat /\ x3.key \in Phones \cup {Empty}
      /\ x3.claims \subseteq Phones /\ x3.ended \subseteq AppEnds /\ IsFiniteSet(x3.ended) /\ x3.n <= x9
      /\ x3 = [n |-> x3.n, state |-> x3.state, expires |-> x3.expires, at |-> x3.at, key |-> x3.key,
               claims |-> x3.claims, ended |-> x3.ended]
      /\ x1 \in Phones /\ x2 \in Phones \cup {Empty} /\ x5 \subseteq Phones /\ x8 \in Nat /\ x9 \in Nat
  BY DEF ToldInv, ToldTyped
<1>3. x4 \subseteq [n : Nat, key : Phones, until : Nat]
  BY DEF ToldInv, ToldTyped
<1>4. ASSUME NEW k \in Phones, Apps!Ask(k) PROVE ToldInv'
  <2>1. CASE Apps!Admitted(k) /\ k = x1 /\ Apps!Completed
    <3>1. /\ x3' = [x3 EXCEPT !.state = "completed", !.key = Empty, !.claims = {}]
          /\ x1' = x1 /\ x2' = x2 /\ x4' = x4 /\ x5' = x5 /\ x8' = x8 /\ x9' = x9
      BY <1>4, <2>1 DEF Apps!Ask
    <3>2. x3' = [n |-> x3.n, state |-> "completed", expires |-> x3.expires, at |-> x3.at, key |-> Empty,
                 claims |-> {}, ended |-> x3.ended]
      BY <1>2, <3>1
    <3>3. x3.state = "registered" /\ x3.key = x1 /\ Available <= x8
      BY <1>1, <1>2, <2>1 DEF Apps!Completed, ToldInv, ToldRec
    <3>4. ToldTyped'
      BY <1>2, <1>3, <3>1, <3>2 DEF ToldTyped, AppStates
    <3>5. ToldRec' /\ ToldOut'
      BY <3>1, <3>2 DEF ToldInv, ToldRec, ToldOut, Apps!Active
    <3>6. \A f \in x4 : f.n = x3.n /\ f.key = x1 /\ Taken(f.key)
      BY <1>1, <1>2, <3>3, FormerOver DEF ToldInv, ToldFlights, FlightOwn, Taken
    <3>7. ToldFlights'
      <4>1. x4' = x4 /\ x8' = x8 /\ x3'.n = x3.n /\ x3'.state = "completed" /\ \A f \in x4 : Taken(f.key)'
        BY <3>1, <3>2, <3>6 DEF Taken
      <4>2. \A f \in x4 : ~(f.n < x3.n)
        BY <1>2, <3>6
      <4> QED
        BY <4>1, <4>2 DEF ToldInv, ToldFlights, FlightOwn
    <3> QED
      BY <3>4, <3>5, <3>7 DEF ToldInv
  <2>2. CASE Apps!Admitted(k) /\ ~(k = x1 /\ Apps!Completed)
    <3>1. x1' = x1 /\ x2' = x2 /\ x3' = x3 /\ x4' = x4 /\ x5' = x5 /\ x8' = x8 /\ x9' = x9
      BY <1>4, <2>2 DEF Apps!Ask
    <3> QED
      BY <3>1 DEF ToldInv, ToldTyped, ToldRec, ToldOut, ToldFlights, FlightOwn, FlightFormer, Taken, Available, Start,
                  Apps!Active
  <2>3. CASE ~Apps!Admitted(k)
    <3>1. /\ Apps!ToldEnded(k) /\ x5' = x5 \cup {k}
          /\ x1' = x1 /\ x2' = x2 /\ x3' = x3 /\ x4' = x4 /\ x8' = x8 /\ x9' = x9
      BY <1>4, <2>3 DEF Apps!Ask
    <3>2. k \notin {x1, x2} /\ (Apps!Active => k \notin x3.claims \cup {x3.key})
      BY <3>1 DEF Apps!ToldEnded, Apps!Live
    <3>3. PICK e \in Apps!Latest(x3.ended \cup Apps!OwnEnd) : e.key = k /\ x8 >= e.at + AppGrace
      BY <3>1 DEF Apps!ToldEnded
    <3>4. e \in x3.ended \cup Apps!OwnEnd /\ \A o \in x3.ended \cup Apps!OwnEnd : o.key = k => o.at <= e.at
      BY <3>3 DEF Apps!Latest
    <3>5. e.at \in Nat
      BY <1>2, <3>4, OwnEndTyped DEF AppEnds
    <3>6. ASSUME NEW f \in x4, f.key = k PROVE FALSE
      <4>1. /\ x8 < f.until /\ f.until \in Nat /\ f.n <= x3.n /\ f.n \in Nat
            /\ (f.n = x3.n => FlightOwn(f)) /\ (f.n < x3.n => FlightFormer(f))
        BY <1>3 DEF ToldInv, ToldFlights
      <4>2. ~Taken(k)
        BY <3>2 DEF Taken
      <4>3. CASE Apps!Active
        <5>1. f.n # x3.n
          BY <3>2, <3>6, <4>1, <4>3 DEF FlightOwn, Apps!Active
        <5>2. Apps!OwnEnd = {}
          BY <4>3 DEF Apps!OwnEnd
        <5>3. f.until <= e.at + AppGrace
          BY <1>2, <3>3, <3>4, <3>6, <4>1, <4>2, <5>1, <5>2 DEF FlightFormer
        <5> QED
          BY <1>1, <1>2, <3>3, <3>5, <4>1, <5>3
      <4>4. CASE ~Apps!Active
        <5>1. CASE f.n = x3.n
          <6>1. PICK o \in Apps!OwnEnd : o.key = k /\ o.at \in Nat /\ f.until <= o.at + AppGrace
            BY <3>6, <4>2, <4>4, <5>1, EndAfterOpen
          <6>2. o.at <= e.at
            BY <3>4, <6>1
          <6> QED
            BY <1>1, <1>2, <3>3, <3>5, <4>1, <6>1, <6>2
        <5>2. CASE f.n < x3.n
          <6>1. f.until <= e.at + AppGrace
            BY <3>3, <3>4, <3>6, <4>2, <4>4, <5>2, EndAfterOpen
          <6> QED
            BY <1>1, <1>2, <3>3, <3>5, <4>1, <6>1
        <5> QED
          BY <1>2, <4>1, <5>1, <5>2
      <4> QED
        BY <4>3, <4>4
    <3>7. ToldTyped'
      BY <1>4, <3>1 DEF ToldInv, ToldTyped
    <3>8. ToldRec' /\ ToldFlights'
      BY <3>1 DEF ToldInv, ToldRec, ToldFlights, FlightOwn, FlightFormer, Taken, Available, Start
    <3>9. ToldOut'
      BY <3>1, <3>2, <3>6 DEF ToldInv, ToldOut, Apps!Active
    <3> QED
      BY <3>7, <3>8, <3>9 DEF ToldInv
  <2> QED
    BY <2>1, <2>2, <2>3
<1>5. CASE Apps!Request
  <2>1. /\ ~Apps!Active \/ Apps!Completed
        /\ x9' = x9 + 1 /\ x1' = x1 /\ x2' = x2 /\ x4' = x4 /\ x5' = x5 /\ x8' = x8
        /\ x3' = [n |-> x9 + 1, state |-> "pending", expires |-> x8 + AppDelay + AppSpan, at |-> 0, key |-> Empty,
                  claims |-> {}, ended |-> IF Apps!Completed
                                           THEN Apps!Trimmed(Apps!Latest({e \in x3.ended : x8 < e.at + AppKeep}))
                                           ELSE Apps!Carried]
    BY <1>5 DEF Apps!Request
  <2> DEFINE kept == IF Apps!Completed THEN {e \in x3.ended : x8 < e.at + AppKeep}
                     ELSE {e \in x3.ended \cup Apps!OwnEnd : x8 < e.at + AppKeep}
  <2>2. x3'.ended = Apps!Trimmed(Apps!Latest(kept))
    BY <2>1 DEF Apps!Carried
  <2>3. kept \subseteq x3.ended \cup Apps!OwnEnd /\ IsFiniteSet(x3.ended \cup Apps!OwnEnd)
        /\ x3.ended \cup Apps!OwnEnd \subseteq AppEnds
    BY <1>2, OwnEndTyped, FS_Union
  <2>4. Apps!Latest(kept) \subseteq kept
    BY DEF Apps!Latest
  <2>5. IsFiniteSet(Apps!Latest(kept))
    BY <2>3, <2>4, FS_Subset
  <2>6. x3'.ended \subseteq Apps!Latest(kept) /\ IsFiniteSet(x3'.ended)
    <3> HIDE DEF kept
    <3>1. Apps!Trimmed(Apps!Latest(kept)) \subseteq Apps!Latest(kept)
      BY <2>5, TrimmedWithin
    <3>2. x3'.ended \subseteq Apps!Latest(kept)
      BY <2>2, <3>1
    <3> QED
      BY <2>5, <3>2, FS_Subset
  <2>7. ToldTyped'
    <3>1. x3'.ended \subseteq AppEnds
      BY <2>3, <2>4, <2>6
    <3>2. x9 + 1 \in Nat /\ x8 + AppDelay + AppSpan \in Nat
      BY <1>1, <1>2
    <3>3. x3' = [n |-> x9 + 1, state |-> "pending", expires |-> x8 + AppDelay + AppSpan, at |-> 0, key |-> Empty,
                 claims |-> {}, ended |-> x3'.ended]
      BY <2>1
    <3> HIDE DEF kept
    <3> QED
      BY <1>2, <1>3, <2>1, <2>6, <3>1, <3>2, <3>3 DEF ToldTyped, AppStates
  <2>8. x3'.n = x9 + 1 /\ x3'.state = "pending" /\ x3'.expires = x8 + AppDelay + AppSpan /\ x3'.key = Empty /\ x3'.claims = {}
    BY <2>1
  <2>9. ToldRec'
    BY <2>8 DEF ToldRec
  <2>10. ToldOut'
    BY <1>1, <1>2, <2>1, <2>8 DEF ToldInv, ToldOut
  <2>11. ASSUME NEW f \in x4, ~Taken(f.key), NEW e \in x3'.ended, e.key = f.key
         PROVE  f.until <= e.at + AppGrace
    <3>1. f.n \in Nat /\ f.until \in Nat /\ f.n <= x3.n
      BY <1>3 DEF ToldInv, ToldFlights
    <3>2. ~Apps!Completed
      <4> SUFFICES ASSUME Apps!Completed PROVE FALSE
        OBVIOUS
      <4>1. x3.state = "registered" /\ x3.key = x1 /\ Available <= x8
        BY <1>1, <1>2 DEF Apps!Completed, ToldInv, ToldRec
      <4>2. FlightOwn(f)
        BY <4>1, FormerOver DEF ToldInv, ToldFlights
      <4> QED
        BY <2>11, <4>1, <4>2 DEF FlightOwn, Taken
    <3>3. ~Apps!Active
      BY <2>1, <3>2
    <3>4. /\ e \in x3.ended \cup Apps!OwnEnd /\ e.at \in Nat /\ x8 < e.at + AppKeep
          /\ \A o \in Apps!OwnEnd : o.key = f.key /\ x8 < o.at + AppKeep => o.at <= e.at
      BY <2>3, <2>4, <2>6, <2>11, <3>2 DEF Apps!Latest, AppEnds
    <3> HIDE DEF kept
    <3>5. CASE f.n = x3.n
      <4>1. PICK o \in Apps!OwnEnd : o.key = f.key /\ o.at \in Nat /\ f.until <= o.at + AppGrace
        BY <2>11, <3>3, <3>5, EndAfterOpen
      <4>2. o.at <= e.at
        <5>1. AppKeep \in Nat
          BY AppsAssumption
        <5>2. CASE x8 < o.at + AppKeep
          BY <3>4, <4>1, <5>2
        <5>3. CASE ~(x8 < o.at + AppKeep)
          BY <1>2, <3>4, <4>1, <5>1, <5>3
        <5> QED
          BY <5>2, <5>3
      <4> QED
        BY <1>1, <3>1, <3>4, <4>1, <4>2
    <3>6. CASE f.n < x3.n
      BY <2>11, <3>3, <3>4, <3>6, EndAfterOpen
    <3> QED
      BY <1>2, <3>1, <3>5, <3>6
  <2>12. ASSUME NEW f \in x4 PROVE x8 < f.until /\ f.until <= x8 + AppGrace /\ f.n < x3'.n /\ FlightFormer(f)'
    <3>1. f.n \in Nat /\ f.until \in Nat /\ f.n <= x3.n /\ x8 < f.until /\ f.until <= x8 + AppGrace
      BY <1>3 DEF ToldInv, ToldFlights
    <3>2. f.n < x3'.n
      BY <1>2, <2>8, <3>1
    <3>3. Start' = x8
      BY <1>1, <1>2, <2>8 DEF Start
    <3>4. Taken(f.key)' \/ \A e \in x3'.ended : e.key = f.key => f.until <= e.at + AppGrace
      BY <2>1, <2>11 DEF Taken
    <3> QED
      BY <3>1, <3>2, <3>3, <3>4 DEF FlightFormer
  <2>13. ToldFlights'
    <3>1. \A f \in x4 : f.n \in Nat /\ x3'.n \in Nat /\ f.n <= x3'.n /\ f.n # x3'.n
      BY <1>2, <1>3, <2>8, <2>12
    <3> HIDE DEF kept
    <3> QED
      BY <2>1, <2>12, <3>1 DEF ToldInv, ToldFlights
  <2> QED
    BY <2>7, <2>9, <2>10, <2>13 DEF ToldInv
<1>6. ASSUME NEW k \in Phones, Apps!Claim(k) PROVE ToldInv'
  <2>1. /\ x3.state = "pending" /\ Apps!Active /\ Available <= x8
        /\ x3' = [x3 EXCEPT !.claims = @ \cup {k}] /\ x5' = x5 \ {k}
        /\ x1' = x1 /\ x2' = x2 /\ x4' = x4 /\ x8' = x8 /\ x9' = x9
    BY <1>1, <1>2, <1>6 DEF Apps!Claim, Available
  <2>2. x3' = [n |-> x3.n, state |-> x3.state, expires |-> x3.expires, at |-> x3.at, key |-> x3.key,
               claims |-> x3.claims \cup {k}, ended |-> x3.ended]
    BY <1>2, <2>1
  <2>3. x4 = {}
    BY <2>1, NoneOnItsWay
  <2>4. ToldTyped'
    BY <1>2, <1>3, <1>6, <2>1, <2>2 DEF ToldTyped
  <2>5. ToldRec'
    BY <2>1, <2>2 DEF ToldInv, ToldRec, Available
  <2>6. ToldOut'
    BY <2>1, <2>2, <2>3 DEF ToldInv, ToldOut
  <2>7. ToldFlights'
    BY <2>1, <2>3 DEF ToldFlights
  <2> QED
    BY <2>4, <2>5, <2>6, <2>7 DEF ToldInv
<1>7. ASSUME NEW k \in Phones, Apps!Register(k) PROVE ToldInv'
  <2> DEFINE key == IF k = x1 THEN Empty ELSE k
  <2>1. /\ x3.state = "pending" /\ k \in x3.claims
        /\ x3' = [x3 EXCEPT !.state = "registered", !.key = key]
        /\ x1' = x1 /\ x2' = x2 /\ x4' = x4 /\ x5' = x5 /\ x8' = x8 /\ x9' = x9
    BY <1>7 DEF Apps!Register
  <2>2. x3' = [n |-> x3.n, state |-> "registered", expires |-> x3.expires, at |-> x3.at, key |-> key,
               claims |-> x3.claims, ended |-> x3.ended]
    BY <1>2, <2>1
  <2>3. Available <= x8 /\ x4 = {}
    BY <2>1, NoneOnItsWay DEF ToldInv, ToldRec
  <2>4. ToldTyped'
    BY <1>2, <1>3, <1>7, <2>1, <2>2 DEF ToldTyped, AppStates
  <2>5. ToldRec'
    BY <2>1, <2>2, <2>3 DEF ToldRec, Available
  <2>6. ToldOut'
    BY <1>1, <1>2, <2>1, <2>2, <2>3 DEF ToldInv, ToldOut, Apps!Active
  <2>7. ToldFlights'
    BY <2>1, <2>3 DEF ToldFlights
  <2> QED
    BY <2>4, <2>5, <2>6, <2>7 DEF ToldInv
<1>8. CASE Apps!Cancel
  <2>1. /\ x3.state \in {"pending", "registered"} /\ x8 < x3.expires
        /\ x3' = [x3 EXCEPT !.state = "cancelled", !.at = x8]
        /\ x1' = x1 /\ x2' = x2 /\ x4' = x4 /\ x5' = x5 /\ x8' = x8 /\ x9' = x9
    BY <1>8 DEF Apps!Cancel, Apps!Active
  <2>2. x3' = [n |-> x3.n, state |-> "cancelled", expires |-> x3.expires, at |-> x8, key |-> x3.key,
               claims |-> x3.claims, ended |-> x3.ended]
    BY <1>2, <2>1
  <2>3. ToldTyped'
    BY <1>2, <1>3, <2>1, <2>2 DEF ToldTyped, AppStates
  <2>4. ToldRec' /\ ToldOut'
    BY <2>1, <2>2 DEF ToldInv, ToldRec, ToldOut, Available, Apps!Active
  <2>5. ASSUME NEW f \in x4 PROVE (f.n = x3.n => FlightOwn(f)') /\ (f.n < x3.n => FlightFormer(f)')
    <3>1. (f.n = x3.n => FlightOwn(f)) /\ (f.n < x3.n => FlightFormer(f)) /\ f.until <= x8 + AppGrace
      BY DEF ToldInv, ToldFlights
    <3>2. f.n = x3.n => FlightOwn(f)'
      BY <2>1, <2>2, <3>1 DEF FlightOwn
    <3>3. f.n < x3.n => FlightFormer(f)'
      BY <2>1, <2>2, <3>1 DEF FlightFormer, Start, Taken
    <3> QED
      BY <3>2, <3>3
  <2>6. ToldFlights'
    BY <2>1, <2>2, <2>5 DEF ToldInv, ToldFlights
  <2> QED
    BY <2>3, <2>4, <2>6 DEF ToldInv
<1>9. CASE Apps!Open
  <2> PICK o : o = [n |-> x3.n, key |-> x3.key, until |-> x8 + AppGrace]
    OBVIOUS
  <2>1. /\ x3.state = "registered" /\ Apps!Active /\ x8 < x3.expires /\ x3.key # Empty /\ x3.key # x1
        /\ x4' = x4 \cup {o}
        /\ x1' = x1 /\ x2' = x2 /\ x3' = x3 /\ x5' = x5 /\ x8' = x8 /\ x9' = x9
    BY <1>9 DEF Apps!Open, Apps!Active
  <2>2. Available <= x8
    BY <2>1 DEF ToldInv, ToldRec
  <2>3. \A f \in x4 : f.n = x3.n /\ f.key = x3.key
    BY <2>1, <2>2, FormerOver DEF ToldInv, ToldFlights, FlightOwn
  <2>4. o \in [n : Nat, key : Phones, until : Nat] /\ o.n = x3.n /\ o.key = x3.key /\ o.until = x8 + AppGrace
    BY <1>1, <1>2, <2>1
  <2>5. ToldTyped'
    BY <1>2, <2>1, <2>4 DEF ToldInv, ToldTyped
  <2>6. ToldRec' /\ ToldOut'
    BY <2>1, <2>4 DEF ToldInv, ToldRec, ToldOut, Available, Apps!Active
  <2>7. FlightOwn(o)'
    <3>1. o.until <= x3.expires + AppGrace
      BY <1>1, <1>2, <2>1, <2>4
    <3> QED
      BY <2>1, <2>4, <3>1 DEF FlightOwn
  <2>8. \A f \in x4 : FlightOwn(f)'
    BY <2>1, <2>3 DEF ToldInv, ToldFlights, FlightOwn
  <2>9. x8 < o.until /\ o.until <= x8 + AppGrace
    BY <1>1, <1>2, <2>4
  <2>10. \A f \in x4' : /\ x8 < f.until /\ f.until <= x8 + AppGrace /\ f.n = x3.n /\ f.key = x3.key /\ FlightOwn(f)'
    <3> SUFFICES ASSUME NEW f \in x4'
                 PROVE  x8 < f.until /\ f.until <= x8 + AppGrace /\ f.n = x3.n /\ f.key = x3.key /\ FlightOwn(f)'
      OBVIOUS
    <3>1. CASE f = o
      BY <2>4, <2>7, <2>9, <3>1
    <3>2. CASE f \in x4
      BY <2>3, <2>8, <3>2 DEF ToldInv, ToldFlights
    <3> QED
      BY <2>1, <3>1, <3>2
  <2>11. ToldFlights'
    BY <1>2, <2>1, <2>10 DEF ToldFlights
  <2> QED
    BY <2>5, <2>6, <2>11 DEF ToldInv
<1>10. ASSUME NEW f \in x4, Apps!Adopt(f) PROVE ToldInv'
  <2>1. /\ x4' = {g \in x4 : g.n > f.n} /\ x3' = x3 /\ x5' = x5 /\ x8' = x8 /\ x9' = x9
        /\ {x1', x2'} \subseteq {x1, x2, f.key, Empty} /\ x1' \in {x1, f.key}
    BY <1>10 DEF Apps!Adopt
  <2>2. x4' = {}
    <3>1. \A g \in x4 : g.n = f.n /\ g.n \in Nat
      BY <1>3 DEF ToldInv, ToldFlights
    <3> QED
      BY <2>1, <3>1
  <2>3. f.key \in Phones /\ f.key \notin x5
    BY <1>3 DEF ToldInv, ToldOut
  <2>4. ToldTyped'
    BY <1>2, <2>1, <2>2, <2>3 DEF ToldInv, ToldTyped
  <2>5. ToldRec' /\ ToldOut'
    BY <1>1, <1>2, <2>1, <2>2, <2>3 DEF ToldInv, ToldRec, ToldOut, Available, Apps!Active
  <2>6. ToldFlights'
    BY <2>2 DEF ToldFlights
  <2> QED
    BY <2>4, <2>5, <2>6 DEF ToldInv
<1>11. CASE Apps!AdoptNext
  <2>1. /\ x2 # Empty /\ x1' = x2 /\ x2' = Empty
        /\ x3' = x3 /\ x4' = x4 /\ x5' = x5 /\ x8' = x8 /\ x9' = x9
    BY <1>11 DEF Apps!AdoptNext
  <2>2. ToldTyped'
    BY <1>2, <2>1 DEF ToldInv, ToldTyped
  <2>3. ToldRec' /\ ToldOut'
    BY <1>1, <1>2, <2>1 DEF ToldInv, ToldRec, ToldOut, Available, Apps!Active
  <2>4. ToldFlights'
    BY <2>1 DEF ToldInv, ToldFlights, FlightOwn, FlightFormer, Taken, Start
  <2> QED
    BY <2>2, <2>3, <2>4 DEF ToldInv
<1>12. CASE Apps!Tick
  <2>1. /\ x8' = x8 + 1 /\ x4' = {f \in x4 : f.until > x8'}
        /\ x1' = x1 /\ x2' = x2 /\ x3' = x3 /\ x5' = x5 /\ x9' = x9
    BY <1>12 DEF Apps!Tick
  <2>2. ToldTyped'
    BY <1>2, <1>3, <2>1 DEF ToldInv, ToldTyped
  <2>3. ToldRec' /\ ToldOut'
    BY <1>1, <1>2, <2>1 DEF ToldInv, ToldRec, ToldOut, Available, Apps!Active
  <2>4. \A f \in x4' : f \in x4 /\ x8' < f.until /\ f.until <= x8' + AppGrace
    BY <1>1, <1>2, <1>3, <2>1 DEF ToldInv, ToldFlights
  <2>5. ToldFlights'
    BY <2>1, <2>4 DEF ToldInv, ToldFlights, FlightOwn, FlightFormer, Taken, Start
  <2> QED
    BY <2>2, <2>3, <2>5 DEF ToldInv
<1>13. CASE Apps!Pass \/ UNCHANGED Apps!vars
  <2>1. x1' = x1 /\ x2' = x2 /\ x3' = x3 /\ x4' = x4 /\ x5' = x5 /\ x8' = x8 /\ x9' = x9
    BY <1>13 DEF Apps!Pass, Apps!vars
  <2> QED
    BY <2>1 DEF ToldInv, ToldTyped, ToldRec, ToldOut, ToldFlights, FlightOwn, FlightFormer, Taken, Available, Start,
                Apps!Active
<1> QED
  BY <1>4, <1>5, <1>6, <1>7, <1>8, <1>9, <1>10, <1>11, <1>12, <1>13 DEF Apps!Next

LEMMA ToldSafe == ToldInv => Apps!ToldIsTrue
BY DEF ToldInv, ToldOut, Apps!ToldIsTrue

--------------------------------------------------------------------------------
CONSTANTS o1, o2, v1, v2, v3, r1, r2,            \* model values; told apart by OwnerOf and by the manifests
          SetupCodes, SetupVaults, TypedCeiling, \* setup codes, vault ids, typed guesses a code takes
          SlotReleases, MaxRetries,              \* release numbers; requests made of a vault in all
          LockInstances, LockOld, LockRequests,  \* instances, those of old releases; requests of a page
          SiteRequests, SiteFaults,              \* start-overs, and what goes wrong
          AskCodes, AskTimers,                   \* codes a page issues; its timers and questions
          PageKeys, PageOthers,                  \* recoveries requested on a page, and elsewhere
          PageFaults, PageTime,                  \* faults, and the time
          PressedCalls, MemberMishaps            \* buttons pressed; filters applied and calls lost

VARIABLE part

vars == <<part, x1, x2, x3, x4, x5, x6, x7, x8, x9, x10, x11>>

ASSUME PartsAssumption ==
  /\ "none" \notin Pair
  /\ SetupCodes \in Nat /\ SetupVaults \in Nat /\ TypedCeiling \in Nat
  /\ SlotReleases \subseteq Nat \ {0} /\ MaxRetries \in Nat
  /\ Empty \notin LockInstances /\ LockOld \subseteq LockInstances /\ LockRequests \in Nat

\* o1 has a sealed vault and one that was never sealed, o2 a sealed one.
OwnerOf == (v1 :> o1) @@ (v2 :> o1) @@ (v3 :> o2)

\* No release keeps an instance when none is asked for.
NoMinimum == <<0, 0>>

\* A release is added, the other withdrawn; two manifests have one serial, as they never should,
\* one names a release twice, and one with the highest serial is under a key of somebody else's.
Listing(n, r) == [number |-> n, pcr0 |-> r]
Signed(k, s, es) == [key |-> k, serial |-> s, list |-> es]
Docs == << Signed("own", 1, <<Listing(1, r1)>>), Signed("own", 2, <<Listing(1, r1), Listing(2, r2)>>),
           Signed("own", 2, <<Listing(2, r2)>>), Signed("own", 3, <<Listing(1, r1), Listing(2, r1)>>),
           Signed("other", 4, <<Listing(1, r1)>>), Signed("own", 3, <<Listing(2, r2)>>) >>

Setup == INSTANCE Enrolment WITH
               Tabs <- One, Phones <- Two, Codes <- SetupCodes, Vaults <- SetupVaults, TypedCeiling <- TypedCeiling,
               code <- x1, pointer <- x2, row <- x3, tab <- x4, phone <- x5, ends <- x6
\* The pages and the requests on their way to an instance, with what is proved of them.
Sites == INSTANCE SiteInvariants
--------------------------------------------------------------------------------
\* What a part has no use for stays empty.
No11 == x11 = Empty
No10 == x10 = Empty /\ No11
No9 == x9 = Empty /\ No10
No8 == x8 = Empty /\ No9
No7 == x7 = Empty /\ No8
No6 == x6 = Empty /\ No7
No5 == x5 = Empty /\ No6

Init ==
  \/ part = "start_over" /\ StartOver!Init
  \/ part = "deleted_vault" /\ DeletedVault!Init /\ No11
  \/ part = "orphans" /\ Orphans!Init /\ No6
  \/ part = "setup" /\ Setup!Init /\ No7
  \/ part = "slots" /\ Sites!Slots!Init /\ No8
  \/ part = "early" /\ Early!Init /\ No11
  \/ part = "entry" /\ Entry!Init /\ No9
  \/ part = "code" /\ Code!Init /\ No7
  \/ part = "names" /\ Names!Init /\ No6
  \/ part = "trials" /\ Trials!Init /\ No6
  \/ part = "notices" /\ Notices!Init /\ No10
  \/ part = "scaling" /\ Scaling!Init /\ No7
  \/ part = "list" /\ List!Init
  \/ part = "sync" /\ Sync!Init /\ No6
  \/ part = "release" /\ Release!Init /\ No11
  \/ part = "app_keys" /\ Apps!Init /\ No10
  \/ part = "page" /\ Sites!Page!Init /\ No11
  \/ part = "manifests" /\ Manifests!Init /\ No11
  \/ part = "key" /\ Key!Init /\ No5
  \/ part = "session" /\ Session!Init /\ No9
  \/ part = "lock" /\ Sites!Lock!Init /\ No8
  \/ part = "switch" /\ Switch!Init /\ No11
  \/ part = "del_page" /\ Sites!StartOverSite!Init /\ No9
  \/ part = "acct_page" /\ DeleteSite!Init /\ No11
  \/ part = "links" /\ LinkRows!Init /\ No8
  \/ part = "terms" /\ Terms!Init /\ No11
  \/ part = "settings" /\ Sites!Settings!Init /\ No9
  \/ part = "setup_page" /\ Sites!SetupSite!Init /\ No9
  \/ part = "members" /\ Sites!Members!Init /\ No11
  \/ part = "admin_session" /\ Tab!Init /\ No10
  \/ part = "audit_log" /\ Audit!Init /\ No9
  \/ part = "release_log" /\ Log!Init /\ No11
  \/ part = "snapshot" /\ Snapshot!Init /\ No11
  \/ part = "drift" /\ Drift!Init /\ No8

Next ==
  \/ part = "start_over" /\ StartOver!Next /\ UNCHANGED part
  \/ part = "deleted_vault" /\ DeletedVault!Next /\ UNCHANGED <<part, x11>>
  \/ part = "orphans" /\ Orphans!Next /\ UNCHANGED <<part, x6, x7, x8, x9, x10, x11>>
  \/ part = "setup" /\ Setup!Next /\ UNCHANGED <<part, x7, x8, x9, x10, x11>>
  \/ part = "slots" /\ Sites!Slots!Next /\ UNCHANGED <<part, x8, x9, x10, x11>>
  \/ part = "early" /\ Early!Next /\ UNCHANGED <<part, x11>>
  \/ part = "entry" /\ Entry!Next /\ UNCHANGED <<part, x9, x10, x11>>
  \/ part = "code" /\ Code!Next /\ UNCHANGED <<part, x7, x8, x9, x10, x11>>
  \/ part = "names" /\ Names!Next /\ UNCHANGED <<part, x6, x7, x8, x9, x10, x11>>
  \/ part = "trials" /\ Trials!Next /\ UNCHANGED <<part, x6, x7, x8, x9, x10, x11>>
  \/ part = "notices" /\ Notices!Next /\ UNCHANGED <<part, x10, x11>>
  \/ part = "scaling" /\ Scaling!Next /\ UNCHANGED <<part, x7, x8, x9, x10, x11>>
  \/ part = "list" /\ List!Next /\ UNCHANGED part
  \/ part = "sync" /\ Sync!Next /\ UNCHANGED <<part, x6, x7, x8, x9, x10, x11>>
  \/ part = "release" /\ Release!Next /\ UNCHANGED <<part, x11>>
  \/ part = "app_keys" /\ Apps!Next /\ UNCHANGED <<part, x10, x11>>
  \/ part = "page" /\ Sites!Page!Next /\ UNCHANGED <<part, x11>>
  \/ part = "manifests" /\ Manifests!Next /\ UNCHANGED <<part, x11>>
  \/ part = "key" /\ Key!Next /\ UNCHANGED <<part, x5, x6, x7, x8, x9, x10, x11>>
  \/ part = "session" /\ Session!Next /\ UNCHANGED <<part, x9, x10, x11>>
  \/ part = "lock" /\ Sites!Lock!Next /\ UNCHANGED <<part, x8, x9, x10, x11>>
  \/ part = "switch" /\ Switch!Next /\ UNCHANGED <<part, x11>>
  \/ part = "del_page" /\ Sites!StartOverSite!Next /\ UNCHANGED <<part, x9, x10, x11>>
  \/ part = "acct_page" /\ DeleteSite!Next /\ UNCHANGED <<part, x11>>
  \/ part = "links" /\ LinkRows!Next /\ UNCHANGED <<part, x8, x9, x10, x11>>
  \/ part = "terms" /\ Terms!Next /\ UNCHANGED <<part, x11>>
  \/ part = "settings" /\ Sites!Settings!Next /\ UNCHANGED <<part, x9, x10, x11>>
  \/ part = "setup_page" /\ Sites!SetupSite!Next /\ UNCHANGED <<part, x9, x10, x11>>
  \/ part = "members" /\ Sites!Members!Next /\ UNCHANGED <<part, x11>>
  \/ part = "admin_session" /\ Tab!Next /\ UNCHANGED <<part, x10, x11>>
  \/ part = "audit_log" /\ Audit!Next /\ UNCHANGED <<part, x9, x10, x11>>
  \/ part = "release_log" /\ Log!Next /\ UNCHANGED <<part, x11>>
  \/ part = "snapshot" /\ Snapshot!Next /\ UNCHANGED <<part, x11>>
  \/ part = "drift" /\ Drift!Next /\ UNCHANGED <<part, x8, x9, x10, x11>>

Spec == Init /\ [][Next]_vars

Symmetry == Permutations(One) \cup Permutations(Two) \cup Permutations(Pair)

--------------------------------------------------------------------------------
(* The types of each part's state.                                         *)
TypeOK ==
  /\ part = "start_over" => StartOver!TypeOK
  /\ part = "deleted_vault" => DeletedVault!TypeOK
  /\ part = "orphans" => Orphans!TypeOK
  /\ part = "setup" => Setup!TypeOK
  /\ part = "slots" => Sites!Slots!TypeOK
  /\ part = "early" => Early!TypeOK
  /\ part = "entry" => Entry!TypeOK
  /\ part = "code" => Code!TypeOK
  /\ part = "names" => Names!TypeOK
  /\ part = "trials" => Trials!TypeOK
  /\ part = "notices" => Notices!TypeOK
  /\ part = "scaling" => Scaling!TypeOK
  /\ part = "list" => List!TypeOK
  /\ part = "sync" => Sync!TypeOK
  /\ part = "release" => Release!TypeOK
  /\ part = "app_keys" => Apps!TypeOK
  /\ part = "page" => Sites!Page!TypeOK
  /\ part = "manifests" => Manifests!TypeOK
  /\ part = "key" => Key!TypeOK
  /\ part = "session" => Session!TypeOK
  /\ part = "lock" => Sites!Lock!TypeOK
  /\ part = "switch" => Switch!TypeOK
  /\ part = "del_page" => Sites!StartOverSite!TypeOK
  /\ part = "acct_page" => DeleteSite!TypeOK
  /\ part = "links" => LinkRows!TypeOK
  /\ part = "terms" => Terms!TypeOK
  /\ part = "settings" => Sites!Settings!TypeOK
  /\ part = "setup_page" => Sites!SetupSite!TypeOK
  /\ part = "members" => Sites!Members!TypeOK
  /\ part = "admin_session" => Tab!TypeOK
  /\ part = "audit_log" => Audit!TypeOK
  /\ part = "release_log" => Log!TypeOK
  /\ part = "snapshot" => Snapshot!TypeOK
  /\ part = "drift" => Drift!TypeOK

(* A secret is guessed at most as often as its bound says, however many    *)
(* requests guess at once: the PIN, in a window and in a day (pin.ts); the *)
(* typed setup code (enroll-code.ts); a deletion's emailed code            *)
(* (account.ts, spendCode).                                                *)
GuessesBounded ==
  /\ part = "entry" => Entry!GuessesBounded
  /\ part = "setup" => Setup!GuessesBounded
  /\ part = "code"  => Code!GuessesBounded

(* What is single use ends once, whatever arrives together: a setup code   *)
(* is spent by one phone or revoked, a sign-in link signs one session in,  *)
(* a deletion's code lets one request through, a signed header of the app  *)
(* is let through once (app-auth.ts, spendNonce), a milestone's notice is  *)
(* mailed to a member once and not after a later one, an urgent one once   *)
(* (vault-notices.ts), the page that may have closed an account offers it  *)
(* no more (account-delete.js).                                            *)
UsedOnce ==
  /\ part = "setup"     => Setup!OneEnd
  /\ part = "entry"     => Entry!LinkOnce
  /\ part = "code"      => Code!OneUse
  /\ part = "app_keys"  => Apps!HeaderOnce
  /\ part = "notices"   => Notices!NoticesCountDown
  /\ part = "acct_page" => DeleteSite!NoRetry

(* Where two calls race for the only one there may be, one gets it: the    *)
(* row of an address (members.ts) and a registration code's last use       *)
(* (public.ts), the vault row that takes a member's pointer                *)
(* (vaultForEnrollment), a member's trial (account.ts).                    *)
OneOfEach ==
  /\ part = "early"  => Early!OneRow /\ Early!CodeCounted
  /\ part = "setup"  => Setup!OneRowPerMove
  /\ part = "trials" => Trials!OneTrial

(* A message that an instance can take finds the slot of the call that     *)
(* sent it, and no other message has its id (enqueue); a release that only *)
(* the testers may use holds no other member's vault (enrollmentTargets),  *)
(* and a phone is told that its release is over exactly when no request    *)
(* goes to it (releaseNotice).                                             *)
AnswerableOnce == part = "slots" => Sites!Slots!AnswerableOnce /\ Sites!Slots!TestedOnly /\ Sites!Slots!NoticeTrue

(* What is told or kept on record is what was done: the recovery code      *)
(* after its audit event (codeReleased) and the requests that its recovery *)
(* lists (appendUnlockId), a name applied never reported refused           *)
(* (vault-names.ts), a start-over's delete queued, put off and erased only *)
(* as it was (executeStartOvers), a phone told that its recovery ended is  *)
(* not the vault's (endedKeyFor), an event's address                       *)
(* until its time is over (audit-address-backfill.ts), the log of releases *)
(* and its pages as the list was (release-log.ts), the snapshot a vault    *)
(* was sent as the account is (vault-account-push.ts), the stacks that     *)
(* differ from master, to those who follow the issue (drift-check.ts).     *)
OnRecord ==
  /\ part = "release"     => Release!ShownIsOnRecord /\ Release!ListsKept
  /\ part = "names"       => Names!AppliedNotRefused
  /\ part = "start_over"  => StartOver!QueuedIsSent /\ StartOver!PutOffAsSent
                               /\ StartOver!ErasedAsAsked
  /\ part = "app_keys"    => Apps!ToldIsTrue
  /\ part = "audit_log"   => Audit!AddressKept
  /\ part = "release_log" => Log!LogAgrees /\ Log!Buildable /\ Log!NavKept
  /\ part = "snapshot"    => Snapshot!SnapshotCurrent
  /\ part = "drift"       => Drift!ChangesTold

(* What is over leaves nothing behind: a deleted vault whose stream is     *)
(* drained no row and no pointer, unless an invocation stopped in the      *)
(* middle (vault-alarms.ts); a signed-out administrator no refresh token   *)
(* (auth.js); an event of more than ninety days no address, on the page or *)
(* in its record (system.ts, audit-address-backfill.ts).                   *)
NothingLeftBehind ==
  /\ part = "deleted_vault" => DeletedVault!NothingLeftBehind
  /\ part = "admin_session" => Tab!SignedOut
  /\ part = "audit_log"     => Audit!ShownWithin /\ Audit!NoAddressLeft

(* A limit holds across runs that overlap or stop: the instances wanted    *)
(* (scaler-logic.ts) and the time a release is idle, as passes saw it,     *)
(* before it is stopped, the members a run of the orphan sweep acts on     *)
(* (cleanup.ts), the name changes of thirty days (vault-names.ts), the     *)
(* time a container serves after a pause, and a pause it has seen holds    *)
(* while the switch cannot be read (vault-service.ts).                     *)
LimitsKept ==
  /\ part = "scaling" => Scaling!UnderCap /\ Scaling!IdleBeforeStop
  /\ part = "orphans" => Orphans!FewAtOnce
  /\ part = "names"   => Names!OneInThirtyDays
  /\ part = "switch"  => Switch!PauseReaches /\ Switch!PauseKept

(* Nobody is bound to what they did not ask for: an address is on the      *)
(* mailing list by its owner's own sign-up and consent, and once it left   *)
(* it is back only by a new one (subscribe.mjs); a member's consent is to  *)
(* the version whose text the page showed, and the account asks for the    *)
(* version that was published last (account.ts, content.ts).               *)
ListedByConsent ==
  /\ part = "list"  => List!ListedByConsent
  /\ part = "terms" => Terms!ConsentIsRead /\ Terms!LastPublished

(* What an account was given it keeps while another call runs: the sign-in *)
(* of an approved request and the link of one still held (people.ts,       *)
(* members-stream.ts), the days of a subscription that was extended        *)
(* (cleanup.ts), the links and the locator of a recovery whose time moved  *)
(* (vault.ts, extendRecoveryRows), the published terms and their text      *)
(* (content.ts), an administrator's own sign-in (admin auth.js).           *)
StandingKept ==
  /\ part = "early"  => Early!ApprovedCanSignIn /\ Early!LinkWorks
  /\ part = "trials" => Trials!ExpiredWhenOver
  /\ part = "links"  => LinkRows!CancelLinkWorks /\ LinkRows!LocatorWorks
  /\ part = "terms"  => Terms!PublishedKept
  /\ part = "admin_session" => Tab!SignInFits /\ Tab!TokenKept

(* What a page keeps and shows is so, whatever order its answers come in:  *)
(* the key it made for a recovery and the code on its screen (recovery.js),*)
(* a vault said to be locked (vault.js), a start-over said to be cancelled *)
(* (deletion.js), the settings, the next step to take and the terms still  *)
(* to accept (account.js), a setup code that is watched until it is over   *)
(* (vault-setup.js), a member once in the list, with the standing they     *)
(* have (ui.js, members.js).                                               *)
PagesTrue ==
  /\ part = "page"       => Sites!Page!KeyKept /\ Sites!Page!ShownIsCurrent
  /\ part = "lock"       => Sites!Lock!LockedSaid
  /\ part = "del_page"   => Sites!StartOverSite!CancelledStays /\ Sites!StartOverSite!LooksAgain
  /\ part = "settings"   => Sites!Settings!SettingsKept /\ Sites!Settings!StepLeads
  /\ part = "setup_page" => Sites!SetupSite!Watched /\ Sites!SetupSite!OverIsOver
  /\ part = "members"    => Sites!Members!ListedOnce /\ Sites!Members!PageAgrees
  /\ part = "terms"      => Terms!NoDeadEnd

(* Whatever was edited between two signatures: every vault on a release    *)
(* that ends can move to one that is served, a rescue has a target, the    *)
(* first release stays its window, a serial is signed once                 *)
(* (release-list.ts, manifest.ts); and routing follows what was signed,    *)
(* one number to a release (shared/manifest.ts, manifest-sync.ts).         *)
ReleasesMovable ==
  /\ part = "manifests" => /\ Manifests!RescueHasTarget /\ Manifests!EveryoneCanMove
                           /\ Manifests!FirstReleaseKept /\ Manifests!SignedOnce
  /\ part = "sync" => Sync!RowsSigned

(* A release's sealing key serves its enclaves only, ends by retirement    *)
(* only, and is the key of its stack, however its policy's text was        *)
(* written (release-key.ts, keypolicy.ts).                                 *)
SealingKeySafe ==
  part = "key" => Key!OnlyEnclaves /\ Key!EndsByRetirement /\ Key!KeyOfStack

(* Nothing is ended before its time: a start-over begins after its own 24  *)
(* hours, and never as a leftover of an account that was closed and is     *)
(* active again (executeStartOvers); a vault that nobody asked to delete   *)
(* only seven days after its member went missing, and not if the member    *)
(* was back (deleteOrphanVaults); the drift issue only by a run that found *)
(* every stack as master has it (drift-check.ts).                          *)
TimeGiven ==
  [][/\ part = "start_over" => StartOver!FullDay
     /\ part = "orphans"    => Orphans!SevenDaysMissing
     /\ part = "drift"      => Drift!ClosedInSync]_vars

(* A late or repeated run never takes back what a newer one wrote: the     *)
(* definite answers a phone was given about a deleted vault and the        *)
(* pointer to a newer one (vault-alarms.ts), the result of a newer name    *)
(* request, the rows of a newer manifest (manifest-sync.ts), a browser's   *)
(* sign-out (auth.ts), an entry of the log of releases and its page        *)
(* (release-log.ts).                                                       *)
NothingTakenBack ==
  [][/\ part = "deleted_vault" => DeletedVault!DefiniteAnswer /\ DeletedVault!NewPointerKept
     /\ part = "names"   => Names!ResultForward
     /\ part = "sync"    => Sync!NoRollback
     /\ part = "session" => Session!SignedOutStays'
     /\ part = "release_log" => Log!LogStands]_vars
--------------------------------------------------------------------------------
(***************************************************************************)
(* That what the run checks of these services follows for every behaviour  *)
(* and any constants from the invariant proved beside each service or in   *)
(* ServiceInvariants: a part's step is a step of its service, and a part   *)
(* never turns into another.                                               *)
(***************************************************************************)

PartsInv ==
  /\ part = "setup"     => Setup!SetupInv
  /\ part = "slots"     => Sites!SlotInv /\ Sites!TestedInv
  /\ part = "early"     => EarlyInv /\ EarlyHeld
  /\ part = "entry"     => EntryInv
  /\ part = "code"      => CodeInv
  /\ part = "trials"    => TrialInv /\ TrialOver
  /\ part = "notices"   => NoticeInv
  /\ part = "app_keys"  => HeaderInv /\ ToldInv
  /\ part = "key"       => KeyInv
  /\ part = "acct_page" => RetryInv
  /\ part = "start_over" => DayInv
  /\ part = "orphans"   => SweepInv /\ SweepFew
  /\ part = "drift"     => DriftInv
  /\ part = "list"      => ListInv
  /\ part = "terms"     => TermsInv /\ ShownInv
  /\ part = "admin_session" => TabInv
  /\ part = "deleted_vault" => DeletedInv
  /\ part = "audit_log" => AuditInv
  /\ part = "switch" => SwitchInv
  /\ part = "names" => NameInv
  /\ part = "scaling" => ScaleInv
  /\ part = "links" => LinkInv
  /\ part = "release_log" => LogInv
  /\ part = "session" => SessionInv
  /\ part = "sync" => SyncInv
  /\ part = "manifests" => MoveInv
  /\ part = "release" => ReleaseInv /\ ListsInv
  /\ part = "snapshot" => SnapInv
  /\ part = "page" => Sites!PageInv
  /\ part = "lock" => Sites!LockInv
  /\ part = "del_page" => Sites!GoneInv /\ Sites!LookInv
  /\ part = "settings" => Sites!KeptInv /\ Sites!StartInv
  /\ part = "setup_page" => Sites!WatchInv /\ Sites!OverInv
  /\ part = "members" => Sites!MembersInv

LEMMA SetupGiven == Setup!SetupConstants
BY ValuesAssumption, PartsAssumption DEF Setup!SetupConstants

LEMMA SitesGiven == Sites!SlotConstants /\ Sites!LockConstants
BY ValuesAssumption, PartsAssumption DEF Sites!SlotConstants, Sites!LockConstants

LEMMA KeyGiven == KeyConstants
BY KeyAssumption DEF KeyConstants

LEMMA PartsInit == Init => PartsInv
<1> SUFFICES ASSUME Init PROVE PartsInv
  OBVIOUS
<1>1. part = "setup" => Setup!SetupInv
  BY SetupGiven, Setup!SetupInit DEF Init
<1>2. part = "slots" => Sites!SlotInv /\ Sites!TestedInv
  BY SitesGiven, Sites!SlotInit DEF Init
<1>3. part = "early" => EarlyInv /\ EarlyHeld
  BY EarlyInit, HeldInit DEF Init
<1>4. part = "entry" => EntryInv
  BY EntryInit DEF Init
<1>5. part = "code" => CodeInv
  BY CodeInit DEF Init
<1>6. part = "trials" => TrialInv /\ TrialOver
  BY TrialInit, OverInit DEF Init
<1>7. part = "notices" => NoticeInv
  BY NoticeInit DEF Init
<1>8. part = "app_keys" => HeaderInv /\ ToldInv
  BY HeaderInit, ToldInit DEF Init
<1>9. part = "key" => KeyInv
  BY KeyGiven, KeyInit DEF Init
<1>10. part = "acct_page" => RetryInv
  BY RetryInit DEF Init
<1>11. part = "start_over" => DayInv
  BY DayInit DEF Init
<1>12. part = "orphans" => SweepInv /\ SweepFew
  BY SweepInit, FewInit DEF Init
<1>13. part = "drift" => DriftInv
  BY DriftInit DEF Init
<1>14. part = "list" => ListInv
  BY ListInit DEF Init
<1>15. part = "terms" => TermsInv /\ ShownInv
  BY TermsInit, ShownInit DEF Init
<1>16. part = "admin_session" => TabInv
  BY TabInit DEF Init
<1>17. part = "deleted_vault" => DeletedInv
  BY DeletedInit DEF Init
<1>18. part = "audit_log" => AuditInv
  BY AuditInit DEF Init
<1>19. part = "switch" => SwitchInv
  BY SwitchInit DEF Init
<1>20. part = "names" => NameInv
  BY NameInit DEF Init
<1>21. part = "scaling" => ScaleInv
  BY ScaleInit DEF Init
<1>22. part = "links" => LinkInv
  BY LinkInit DEF Init
<1>23. part = "release_log" => LogInv
  BY LogInit DEF Init
<1>24. part = "session" => SessionInv
  BY SessionInit DEF Init
<1>25. part = "sync" => SyncInv
  BY SyncInit DEF Init
<1>26. part = "manifests" => MoveInv
  BY MoveInit DEF Init
<1>27. part = "release" => ReleaseInv /\ ListsInv
  BY ReleaseInit DEF Init
<1>28. part = "snapshot" => SnapInv
  BY SnapInit DEF Init
<1>29. part = "page" => Sites!PageInv
  BY Sites!PageInit DEF Init
<1>30. part = "lock" => Sites!LockInv
  BY SitesGiven, Sites!LockInit DEF Init
<1>31. part = "del_page" => Sites!GoneInv /\ Sites!LookInv
  BY Sites!SiteInit DEF Init
<1>32. part = "settings" => Sites!KeptInv /\ Sites!StartInv
  BY Sites!SettingsInit DEF Init
<1>33. part = "setup_page" => Sites!WatchInv /\ Sites!OverInv
  BY Sites!AskInit DEF Init
<1>34. part = "members" => Sites!MembersInv
  BY Sites!MembersBegin DEF Init
<1> QED
  BY <1>1, <1>2, <1>3, <1>4, <1>5, <1>6, <1>7, <1>8, <1>9, <1>10, <1>11, <1>12, <1>13, <1>14, <1>15, <1>16, <1>17, <1>18, <1>19, <1>20, <1>21, <1>22, <1>23, <1>24, <1>25, <1>26, <1>27, <1>28, <1>29, <1>30, <1>31, <1>32, <1>33, <1>34 DEF PartsInv

\* A step is one of the part's service, or none of it.
LEMMA PartsGoOn ==
  ASSUME [Next]_vars
  PROVE  /\ part' = part
         /\ part = "setup"     => [Setup!Next]_(Setup!vars)
         /\ part = "slots"     => [Sites!Slots!Next]_(Sites!Slots!vars)
         /\ part = "early"     => [Early!Next]_(Early!vars)
         /\ part = "entry"     => [Entry!Next]_(Entry!vars)
         /\ part = "code"      => [Code!Next]_(Code!vars)
         /\ part = "trials"    => [Trials!Next]_(Trials!vars)
         /\ part = "notices"   => [Notices!Next]_(Notices!vars)
         /\ part = "app_keys"  => [Apps!Next]_(Apps!vars)
         /\ part = "key"       => [Key!Next]_(Key!vars)
         /\ part = "acct_page" => [DeleteSite!Next]_(DeleteSite!vars)
         /\ part = "start_over" => [StartOver!Next]_(StartOver!vars)
         /\ part = "orphans"   => [Orphans!Next]_(Orphans!vars)
         /\ part = "drift"     => [Drift!Next]_(Drift!vars)
         /\ part = "list"      => [List!Next]_(List!vars)
         /\ part = "terms"     => [Terms!Next]_(Terms!vars)
         /\ part = "admin_session" => [Tab!Next]_(Tab!vars)
         /\ part = "deleted_vault" => [DeletedVault!Next]_(DeletedVault!vars)
         /\ part = "audit_log" => [Audit!Next]_(Audit!vars)
         /\ part = "switch" => [Switch!Next]_(Switch!vars)
         /\ part = "names" => [Names!Next]_(Names!vars)
         /\ part = "scaling" => [Scaling!Next]_(Scaling!vars)
         /\ part = "links" => [LinkRows!Next]_(LinkRows!vars)
         /\ part = "release_log" => [Log!Next]_(Log!vars)
         /\ part = "session" => [Session!Next]_(Session!vars)
         /\ part = "sync" => [Sync!Next]_(Sync!vars)
         /\ part = "manifests" => [Manifests!Next]_(Manifests!vars)
         /\ part = "release" => [Release!Next]_(Release!vars)
         /\ part = "snapshot" => [Snapshot!Next]_(Snapshot!vars)
         /\ part = "page" => [Sites!Page!Next]_(Sites!Page!vars)
         /\ part = "lock" => [Sites!Lock!Next]_(Sites!Lock!vars)
         /\ part = "del_page" => [Sites!StartOverSite!Next]_(Sites!StartOverSite!vars)
         /\ part = "settings" => [Sites!Settings!Next]_(Sites!Settings!vars)
         /\ part = "setup_page" => [Sites!SetupSite!Next]_(Sites!SetupSite!vars)
         /\ part = "members" => [Sites!Members!Next]_(Sites!Members!vars)
<1>1. CASE Next
  BY <1>1 DEF Next
<1>2. CASE UNCHANGED vars
  BY <1>2 DEF vars, Setup!vars, Sites!Slots!vars, Early!vars, Entry!vars, Code!vars, Trials!vars, Notices!vars, Apps!vars, Key!vars, DeleteSite!vars,
     StartOver!vars, StartOver!vault, Orphans!vars, Drift!vars, List!vars, Terms!vars,
     Tab!vars, DeletedVault!vars, Audit!vars,
     Switch!vars, Names!vars, Scaling!vars,
     LinkRows!vars, Log!vars, Session!vars, Sync!vars, Manifests!vars, Release!vars, Snapshot!vars,
     Sites!Page!vars, Sites!Lock!vars, Sites!StartOverSite!vars, Sites!Settings!vars, Sites!SetupSite!vars, Sites!Members!vars
<1> QED
  BY <1>1, <1>2

LEMMA PartsStep == PartsInv /\ [Next]_vars => PartsInv'
<1> SUFFICES ASSUME PartsInv, [Next]_vars PROVE PartsInv'
  OBVIOUS
<1>1. part' = part
  BY PartsGoOn
<1>2. part = "setup" => Setup!SetupInv'
  BY PartsGoOn, SetupGiven, Setup!SetupStep DEF PartsInv
<1>3. part = "slots" => Sites!SlotInv' /\ Sites!TestedInv'
  BY PartsGoOn, SitesGiven, Sites!SlotStep DEF PartsInv
<1>4. part = "early" => EarlyInv' /\ EarlyHeld'
  BY PartsGoOn, EarlyStep, HeldStep DEF PartsInv
<1>5. part = "entry" => EntryInv'
  BY PartsGoOn, EntryStep DEF PartsInv
<1>6. part = "code" => CodeInv'
  BY PartsGoOn, CodeStep DEF PartsInv
<1>7. part = "trials" => TrialInv' /\ TrialOver'
  BY PartsGoOn, TrialStep, OverStep DEF PartsInv
<1>8. part = "notices" => NoticeInv'
  BY PartsGoOn, NoticeStep DEF PartsInv
<1>9. part = "app_keys" => HeaderInv' /\ ToldInv'
  BY PartsGoOn, HeaderStep, ToldStep DEF PartsInv
<1>10. part = "key" => KeyInv'
  BY PartsGoOn, KeyGiven, KeyStep DEF PartsInv
<1>11. part = "acct_page" => RetryInv'
  BY PartsGoOn, RetryStep DEF PartsInv
<1>12. part = "start_over" => DayInv'
  BY PartsGoOn, DayStep DEF PartsInv
<1>13. part = "orphans" => SweepInv' /\ SweepFew'
  BY PartsGoOn, SweepStep, FewStep DEF PartsInv
<1>14. part = "drift" => DriftInv'
  BY PartsGoOn, DriftStep DEF PartsInv
<1>15. part = "list" => ListInv'
  BY PartsGoOn, ListStep DEF PartsInv
<1>16. part = "terms" => TermsInv' /\ ShownInv'
  BY PartsGoOn, TermsStep, ShownStep DEF PartsInv
<1>17. part = "admin_session" => TabInv'
  BY PartsGoOn, TabStep DEF PartsInv
<1>18. part = "deleted_vault" => DeletedInv'
  BY PartsGoOn, DeletedStep DEF PartsInv
<1>19. part = "audit_log" => AuditInv'
  BY PartsGoOn, AuditStep DEF PartsInv
<1>20. part = "switch" => SwitchInv'
  BY PartsGoOn, SwitchStep DEF PartsInv
<1>21. part = "names" => NameInv'
  BY PartsGoOn, NameStep DEF PartsInv
<1>22. part = "scaling" => ScaleInv'
  BY PartsGoOn, ScaleStep DEF PartsInv
<1>23. part = "links" => LinkInv'
  BY PartsGoOn, LinkStep DEF PartsInv
<1>24. part = "release_log" => LogInv'
  BY PartsGoOn, LogStep DEF PartsInv
<1>25. part = "session" => SessionInv'
  BY PartsGoOn, SessionStep DEF PartsInv
<1>26. part = "sync" => SyncInv'
  BY PartsGoOn, SyncStep DEF PartsInv
<1>27. part = "manifests" => MoveInv'
  BY PartsGoOn, MoveStep DEF PartsInv
<1>28. part = "release" => ReleaseInv' /\ ListsInv'
  BY PartsGoOn, ReleaseStep, ListsStep DEF PartsInv
<1>29. part = "snapshot" => SnapInv'
  BY PartsGoOn, SnapStep DEF PartsInv
<1>30. part = "page" => Sites!PageInv'
  BY PartsGoOn, Sites!PageStep DEF PartsInv
<1>31. part = "lock" => Sites!LockInv'
  BY PartsGoOn, SitesGiven, Sites!LockStep DEF PartsInv
<1>32. part = "del_page" => Sites!GoneInv' /\ Sites!LookInv'
  BY PartsGoOn, Sites!GoneStep, Sites!LookStep DEF PartsInv
<1>33. part = "settings" => Sites!KeptInv' /\ Sites!StartInv'
  BY PartsGoOn, Sites!KeptStep, Sites!StartStep DEF PartsInv
<1>34. part = "setup_page" => Sites!WatchInv' /\ Sites!OverInv'
  BY PartsGoOn, Sites!WatchStep, Sites!OverStep DEF PartsInv
<1>35. part = "members" => Sites!MembersInv'
  BY PartsGoOn, Sites!MembersStep DEF PartsInv
<1> QED
  BY <1>1, <1>2, <1>3, <1>4, <1>5, <1>6, <1>7, <1>8, <1>9, <1>10, <1>11, <1>12, <1>13, <1>14, <1>15, <1>16, <1>17, <1>18, <1>19, <1>20, <1>21, <1>22, <1>23, <1>24, <1>25, <1>26, <1>27, <1>28, <1>29, <1>30, <1>31, <1>32, <1>33, <1>34, <1>35 DEF PartsInv

(* Whatever part a behaviour is of, it keeps that service's invariant. *)
THEOREM PartsAlways == Spec => []PartsInv
BY PartsInit, PartsStep, PTL DEF Spec

(* In every behaviour of the services, a release's sealing key serves its  *)
(* enclaves only, ends by its retirement only and stays its stack's        *)
(* (release-key.ts, keypolicy.ts).                                         *)
THEOREM SealingKeyHolds == Spec => []SealingKeySafe
<1>1. PartsInv => SealingKeySafe
  BY KeyGiven, KeySafe DEF PartsInv, SealingKeySafe
<1> QED
  BY <1>1, PartsAlways, PTL

(* In every behaviour of the services, a message finds the slot of its own *)
(* call, nobody's vault but a canary's is on a release under test, and a   *)
(* phone is told that its release is over when no request goes to it       *)
(* (vault.ts, enqueue, routeVaultTo, enrollmentTargets).                   *)
THEOREM AnswerableHolds == Spec => []AnswerableOnce
<1>1. PartsInv => AnswerableOnce
  BY SitesGiven, Sites!SlotSafe DEF PartsInv, AnswerableOnce
<1> QED
  BY <1>1, PartsAlways, PTL

(* In every behaviour of the services, of those that race one wins: the    *)
(* address has one row and a registration code lets in no more than its    *)
(* uses (public.ts, shared/members.ts), one redeem at most writes the row  *)
(* of a vault id (vaultForEnrollment), a member has one trial at most      *)
(* (account.ts).                                                           *)
THEOREM OneOfEachHolds == Spec => []OneOfEach
<1>1. PartsInv => OneOfEach
  BY SetupGiven, Setup!SetupSafe, TrialSafe, EarlySafe DEF PartsInv, OneOfEach
<1> QED
  BY <1>1, PartsAlways, PTL

(* In every behaviour of the services a secret is guessed at most as often *)
(* as its bound says, however many requests guess at once: the PIN in a    *)
(* window and in a day (pin.ts), the typed setup code (enroll-code.ts), a  *)
(* deletion's emailed code (account.ts).                                   *)
THEOREM GuessesBoundedHolds == Spec => []GuessesBounded
<1>1. PartsInv => GuessesBounded
  BY SetupGiven, Setup!SetupSafe, CodeSafe, EntrySafe DEF PartsInv, GuessesBounded
<1> QED
  BY <1>1, PartsAlways, PTL

(* In every behaviour of the services what is single use ends once,        *)
(* whatever arrives together: a setup code, a sign-in link, a deletion's   *)
(* code, a signed header's nonce, a milestone's notice to a member, and    *)
(* the close of an account from its page (vault.ts, auth.ts, account.ts,   *)
(* app-auth.ts, vault-notices.ts, account-delete.js).                      *)
THEOREM UsedOnceHolds == Spec => []UsedOnce
<1>1. PartsInv => UsedOnce
  BY SetupGiven, Setup!SetupSafe, CodeSafe, EntrySafe, HeaderSafe, NoticeSafe, RetrySafe DEF PartsInv, UsedOnce
<1> QED
  BY <1>1, PartsAlways, PTL

(* In every behaviour of the services nothing is ended before its time: a  *)
(* start-over begins after its own 24 hours, never as a leftover of an     *)
(* account that was closed and is active again (executeStartOvers); a      *)
(* vault is asked to delete itself, unasked before, only if it was marked  *)
(* seven days ago and its owner not seen since (deleteOrphanVaults); the   *)
(* drift issue is closed only by a run that found every stack as it was    *)
(* checked out (drift-check.ts).                                           *)
THEOREM TimeGivenHolds == Spec => TimeGiven
<1> DEFINE Given == /\ part = "start_over" => StartOver!FullDay
                    /\ part = "orphans"    => Orphans!SevenDaysMissing
                    /\ part = "drift"      => Drift!ClosedInSync
<1>1. PartsInv /\ [Next]_vars => [Given]_vars
  BY PartsGoOn, DayFull, SweepSafe, DriftClosed DEF PartsInv
<1>2. Spec => [][Given]_vars
  BY <1>1, PartsAlways, PTL DEF Spec
<1> QED
  BY <1>2 DEF TimeGiven

(* In every behaviour of the services an address is on the mailing list by *)
(* its owner's own sign-up and consent, the consent to the membership      *)
(* terms is to a text that was on the page, and the version asked for is   *)
(* the one published last (subscribe.mjs, check-verifications.mjs,         *)
(* account.ts, content.ts).                                                *)
THEOREM ListedByConsentHolds == Spec => []ListedByConsent
<1>1. PartsInv => ListedByConsent
  BY ListSafe, TermsSafe DEF PartsInv, ListedByConsent
<1> QED
  BY <1>1, PartsAlways, PTL

(* In every behaviour of the services what is over leaves nothing behind:  *)
(* a deleted vault whose stream is drained no row and no pointer, unless   *)
(* an invocation stopped in the middle (vault-alarms.ts); an administrator *)
(* who signed out no refresh token (auth.js); an event of more than ninety *)
(* days no address, nor one the backfill took out (system.ts,              *)
(* audit-address-backfill.ts).                                             *)
THEOREM NothingLeftBehindHolds == Spec => []NothingLeftBehind
<1>1. PartsInv => NothingLeftBehind
  BY DeletedSafe, TabSafe, AuditSafe DEF PartsInv, NothingLeftBehind
<1> QED
  BY <1>1, PartsAlways, PTL

(* In every behaviour of the services a limit is kept: the orphan sweep    *)
(* acts on few members at once (cleanup.ts); the scaler wants no more      *)
(* instances than its cap, and stops a release only when it was idle long  *)
(* enough (scaler-logic.ts); a name changes once in thirty days            *)
(* (vault-names.ts); a pause reaches every container in the life of its    *)
(* cache and stays (vault-service.ts).                                     *)
THEOREM LimitsKeptHolds == Spec => []LimitsKept
<1>1. PartsInv => LimitsKept
  BY ScaleSafe, NameSafe, SwitchSafe DEF PartsInv, LimitsKept, SweepFew
<1> QED
  BY <1>1, PartsAlways, PTL

(* In every behaviour of the services what an account was given it keeps:  *)
(* an approved request can sign in and the link of one still held works    *)
(* (people.ts, members-stream.ts); a subscription is marked expired only   *)
(* after its end (cleanup.ts); a recovery's mailed cancel link and locator *)
(* last as long as the recovery (vault.ts, extendRecoveryRows); terms that *)
(* were published stay so (content.ts); an administrator's own sign-in is  *)
(* the one that is completed, and its token kept (auth.js).                *)
THEOREM StandingKeptHolds == Spec => []StandingKept
<1>1. PartsInv => StandingKept
  BY HeldSafe, OverSafe, LinkSafe, TermsSafe, TabSafe DEF PartsInv, StandingKept
<1> QED
  BY <1>1, PartsAlways, PTL

(* In every behaviour of the services no late or repeated run takes back   *)
(* what a newer one wrote: a definite answer about a deleted vault, and    *)
(* the pointer to a newer one (vault-alarms.ts); the result of a newer     *)
(* name request (vault-names.ts); the rows of a newer manifest             *)
(* (manifest-sync.ts); a browser's sign-out (auth.ts); an entry of the log *)
(* of releases and its page (release-log.ts).                              *)
THEOREM NothingTakenBackHolds == Spec => NothingTakenBack
<1> DEFINE Kept == /\ part = "deleted_vault" => DeletedVault!DefiniteAnswer /\ DeletedVault!NewPointerKept
                   /\ part = "names"   => Names!ResultForward
                   /\ part = "sync"    => Sync!NoRollback
                   /\ part = "session" => Session!SignedOutStays'
                   /\ part = "release_log" => Log!LogStands
<1>1. PartsInv /\ [Next]_vars => [Kept]_vars
  <2> SUFFICES ASSUME PartsInv, [Next]_vars PROVE Kept
    OBVIOUS
  <2>1. part = "deleted_vault" => DeletedVault!DefiniteAnswer /\ DeletedVault!NewPointerKept
    BY PartsGoOn, DeletedSafe DEF PartsInv
  <2>2. part = "names" => Names!ResultForward
    BY PartsGoOn, NameStep DEF PartsInv
  <2>3. part = "sync" => Sync!NoRollback
    BY PartsGoOn, SyncStep DEF PartsInv
  <2>4. part = "session" => Session!SignedOutStays'
    BY PartsGoOn, SessionStep DEF PartsInv
  <2>5. part = "release_log" => Log!LogStands
    BY PartsGoOn, LogStep DEF PartsInv
  <2> QED
    BY <2>1, <2>2, <2>3, <2>4, <2>5
<1>2. Spec => [][Kept]_vars
  BY <1>1, PartsAlways, PTL DEF Spec
<1> QED
  BY <1>2 DEF NothingTakenBack

(* In every behaviour of the services, whatever was edited between two     *)
(* signatures, a vault on a release that ends can move to the newest       *)
(* active one and a rescue has a target, the first release stays its       *)
(* window, a serial is signed once (release-list.ts, manifest.ts); and     *)
(* routing follows what was signed under a pinned key, one number to a     *)
(* release (shared/manifest.ts, manifest-sync.ts).                         *)
THEOREM ReleasesMovableHolds == Spec => []ReleasesMovable
<1>1. PartsInv => ReleasesMovable
  BY MoveSafe, SyncSafe DEF PartsInv, ReleasesMovable
<1> QED
  BY <1>1, PartsAlways, PTL

(* In every behaviour of the services what is told or kept on record is    *)
(* what was done: the recovery code after its audit event, and the         *)
(* requests its recovery lists (vault.ts, codeReleased, appendUnlockId); a *)
(* name applied is never reported refused (vault-names.ts); a start-over's *)
(* delete is queued, put off and erased only as it was (cleanup.ts); a     *)
(* phone told that its recovery ended is not the vault's (endedKeyFor); an *)
(* event has its address until its time is over                            *)
(* (audit-address-backfill.ts); the log of releases and its pages say what *)
(* the list was (release-log.ts); a vault with nothing under way has the   *)
(* account as it is (vault-account-push.ts); and who follows the drift     *)
(* issue was told of the stacks that differ (drift-check.ts).              *)
THEOREM OnRecordHolds == Spec => []OnRecord
<1>1. PartsInv => OnRecord
  BY ReleaseSafe, NameSafe, DaySafe, ToldSafe, AuditSafe, LogSafe, SnapSafe, DriftTold DEF PartsInv, OnRecord
<1> QED
  BY <1>1, PartsAlways, PTL

(* In every behaviour of the services what a page keeps and shows is so,   *)
(* whatever order its answers come in: the key it made for a recovery and  *)
(* the code on its screen (recovery.js), a vault said to be locked         *)
(* (vault.js), a start-over said to be cancelled (deletion.js), the        *)
(* settings, the next step and the terms still to accept (account.js), a   *)
(* setup code watched until it is over (vault-setup.js), a member once in  *)
(* the list with the standing they have (ui.js, members.js).               *)
THEOREM PagesTrueHolds == Spec => []PagesTrue
<1>1. PartsInv => PagesTrue
  BY SitesGiven, Sites!PageSafe, Sites!LockSafe, Sites!SiteSafe, Sites!SettingsSafe, Sites!AskSafe, Sites!MembersSafe,
     ShownSafe DEF PartsInv, PagesTrue
<1> QED
  BY <1>1, PartsAlways, PTL
================================================================================
