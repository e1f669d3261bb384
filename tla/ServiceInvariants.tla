--------------------------- MODULE ServiceInvariants ---------------------------
(***************************************************************************)
(* The inductive invariants of services that MCServices puts in one        *)
(* behaviour, proved of each service by itself for any constants: its      *)
(* initial states have the invariant, its steps keep it, and it implies    *)
(* the properties that the runs check.  One set of variables serves        *)
(* whichever service it is.  (MCServices has the sections on the other     *)
(* services, SiteInvariants those on the pages; Enrolment holds its own.)  *)
(***************************************************************************)
EXTENDS Integers, Sequences, FiniteSets, FiniteSetTheorems, WellFoundedInduction, TLAPS

CONSTANTS One, Two, page, k0      \* model values, interchangeable within a set

VARIABLES x1, x2, x3, x4, x5, x6, x7, x8, x9, x10, x11

\* A model value is no other one and no string.
ASSUME ValuesAssumption == page \notin Two /\ "none" \notin One \cup Two /\ IsFiniteSet(Two)

Empty == "empty"

--------------------------------------------------------------------------------
(* Counting what is under way: a call that joins counts one, and one that  *)
(* leaves counts one less.                                                 *)
LEMMA Counted ==
  ASSUME NEW S, IsFiniteSet(S), NEW A \in SUBSET S, NEW B \in SUBSET S, NEW c \in S
  PROVE  /\ Cardinality(A) \in Nat /\ Cardinality(B) \in Nat
         /\ B \subseteq A => Cardinality(B) <= Cardinality(A)
         /\ B \subseteq A \cup {c} => Cardinality(B) <= Cardinality(A) + 1
         /\ c \in A /\ B \subseteq A \ {c} => Cardinality(B) + 1 <= Cardinality(A)
<1>1. IsFiniteSet(A) /\ IsFiniteSet(B)
  BY FS_Subset
<1>2. Cardinality(A) \in Nat /\ Cardinality(B) \in Nat
  BY <1>1, FS_CardinalityType
<1>3. ASSUME B \subseteq A PROVE Cardinality(B) <= Cardinality(A)
  BY <1>1, <1>3, FS_Subset
<1>4. ASSUME B \subseteq A \cup {c} PROVE Cardinality(B) <= Cardinality(A) + 1
  <2>1. IsFiniteSet(A \cup {c}) /\ (Cardinality(A \cup {c}) = Cardinality(A) \/ Cardinality(A \cup {c}) = Cardinality(A) + 1)
    BY <1>1, FS_AddElement
  <2>2. Cardinality(B) <= Cardinality(A \cup {c})
    BY <1>4, <2>1, FS_Subset
  <2> QED
    BY <1>2, <2>1, <2>2
<1>5. ASSUME c \in A, B \subseteq A \ {c} PROVE Cardinality(B) + 1 <= Cardinality(A)
  <2>1. IsFiniteSet(A \ {c}) /\ Cardinality(A \ {c}) = Cardinality(A) - 1
    BY <1>1, <1>5, FS_RemoveElement
  <2>2. Cardinality(B) <= Cardinality(A \ {c})
    BY <1>5, <2>1, FS_Subset
  <2> QED
    BY <1>2, <2>1, <2>2
<1> QED
  BY <1>2, <1>3, <1>4, <1>5

--------------------------------------------------------------------------------
(* A finite set of numbers has a greatest one, if it has any.              *)
LEMMA HasGreatest ==
  ASSUME NEW S, S \subseteq Nat, IsFiniteSet(S), S # {}
  PROVE  \E m \in S : \A x \in S : x <= m
<1> DEFINE Topped(T) == \E m \in T : \A x \in T : x <= m
           Without == {T \in SUBSET S : T # {} /\ ~Topped(T)}
           Sizes == {Cardinality(T) : T \in Without}
<1>1. \A T \in SUBSET S : IsFiniteSet(T) /\ Cardinality(T) \in Nat
  BY FS_Subset, FS_CardinalityType
<1>2. SUFFICES ASSUME Without # {} PROVE FALSE
  BY DEF Topped
<1>3. Sizes \subseteq Nat /\ Sizes # {}
  BY <1>1, <1>2
<1>4. PICK k \in Sizes : \A j \in Sizes : ~(j < k)
  <2>1. \E k \in Sizes : \A j \in Sizes : ~(<<j, k>> \in OpToRel(<, Nat))
    BY <1>3, NatLessThanWellFounded, WFMin
  <2> QED
    BY <1>3, <2>1 DEF OpToRel
<1>5. PICK T \in Without : Cardinality(T) = k
  BY <1>4
<1>6. PICK y \in T : TRUE
  BY <1>5
<1>7. T \ {y} \in SUBSET S /\ Cardinality(T \ {y}) < k
  <2>1. Cardinality(T \ {y}) = k - 1
    BY <1>1, <1>5, <1>6, FS_RemoveElement
  <2> QED
    BY <1>1, <1>3, <1>5, <2>1
<1>8. T \ {y} = {} \/ Topped(T \ {y})
  <2>1. T \ {y} \notin Without
    BY <1>1, <1>4, <1>7
  <2> QED
    BY <1>7, <2>1
<1>9. CASE T \ {y} = {}
  <2>1. \A x \in T : x <= y
    BY <1>5, <1>6, <1>9
  <2> QED
    BY <1>5, <1>6, <2>1
<1>10. CASE Topped(T \ {y})
  <2>1. PICK m \in T \ {y} : \A x \in T \ {y} : x <= m
    BY <1>10
  <2>2. m \in Nat /\ y \in Nat /\ T \subseteq Nat
    BY <1>5, <1>6, <2>1
  <2>3. Topped(T)
    <3>1. CASE y <= m
      BY <2>1, <3>1
    <3>2. CASE ~(y <= m)
      <4>1. \A x \in T : x <= y
        BY <2>1, <2>2, <3>2
      <4> QED
        BY <1>6, <4>1
    <3> QED
      BY <3>1, <3>2
  <2> QED
    BY <1>5, <2>3
<1> QED
  BY <1>8, <1>9, <1>10

--------------------------------------------------------------------------------
(* What a sequence is made of.                                             *)
LEMMA SequenceParts ==
  ASSUME NEW S, NEW l \in Seq(S)
  PROVE  DOMAIN l = 1..Len(l) /\ Len(l) \in Nat /\ \A i \in DOMAIN l : l[i] \in S
  OBVIOUS

--------------------------------------------------------------------------------
(***************************************************************************)
(* That a mailed cancel link and a recovery's locator last as long as the  *)
(* recovery, for any number of requests and of invocations that move its   *)
(* time, and any times.  (RecoveryLinks: rec is x1, row x2, request x3,    *)
(* notice x4, now x5, made x6, short x7.)  The rows last as long as the    *)
(* recovery, or whoever moved it is still under way: with the enclave's    *)
(* times it will extend the rows, which were there when it read and are    *)
(* not deleted within the hour it takes; with an attempt's notice it will  *)
(* put a link of its own.  No other request has the recovery's number.     *)
(***************************************************************************)
CONSTANTS LinkLocators, LinkSpan, LinkCap,                     \* recoveries' locators; a link's life, and its longest
          LinkRecoveries, LinkTime                             \* recoveries, and the time

ASSUME LinkRowsAssumption ==
  LinkSpan \in Nat \ {0} /\ {LinkCap, LinkRecoveries, LinkTime} \subseteq Nat

LinkRows == INSTANCE RecoveryLinks WITH
               Locators <- LinkLocators, Requests <- Two, Movers <- One, Span <- LinkSpan, Cap <- LinkCap,
               MaxRecoveries <- LinkRecoveries, MaxTime <- LinkTime,
               rec <- x1, row <- x2, request <- x3, notice <- x4, now <- x5, made <- x6, short <- x7

LinkRecs == [id : Nat, state : {"none", "pending", "registered", "cancelled"}, asked : Nat, expires : Nat,
             locator : LinkLocators \cup {0}, times : BOOLEAN]
LinkItems == [rec : Nat, exp : Nat]
LinkAsks  == [at : {"none", "read", "located", "linked"}, id : Nat, seen : Nat,
              locator : LinkLocators \cup {0}, expires : Nat, since : Nat]
LinkMoves == [at : {"none", "read", "moved", "extended"}, kind : {"times", "attempt"}, read : LinkRecs,
              to : Nat, since : Nat]

LinkTyped ==
  /\ x1 \in LinkRecs /\ x2 \in [LinkRows!Keys -> LinkItems]
  /\ x3 \in [Two -> LinkAsks] /\ x4 \in [One -> LinkMoves] /\ x5 \in Nat /\ x6 \in Nat

\* A request's number is its own until it is set.
LinkNumbers ==
  /\ x1.id <= x6 /\ x6 <= LinkRecoveries /\ (x1.state # "none" => x1.id >= 1 /\ x1.locator \in LinkLocators)
  /\ \A n \in One : x4[n].read.id <= x6
  /\ \A q \in Two : x3[q].at # "none" =>
       /\ x3[q].id \in 1..x6 /\ x3[q].id # x1.id
       /\ \A n \in One : x4[n].read.id # x3[q].id
       /\ \A p \in Two \ {q} : x3[p].at # "none" => x3[p].id # x3[q].id

\* An invocation is over within the hour after the one it began in.
LinkHours ==
  /\ \A q \in Two : x3[q].at # "none" =>
       x3[q].since <= x5 /\ x5 <= x3[q].since + 1 /\ x3[q].expires = x3[q].since + LinkSpan
  /\ \A n \in One : x4[n].at # "none" => x4[n].since <= x5 /\ x5 <= x4[n].since + 1

\* What a request wrote is there until it sets its recovery.
LinkWritten == \A q \in Two :
  /\ x3[q].at \in {"located", "linked"} =>
       /\ x3[q].locator \in LinkLocators
       /\ x2[LinkRows!Locator(x3[q].locator)].rec = x3[q].id
       /\ x2[LinkRows!Locator(x3[q].locator)].exp = x3[q].expires
  /\ x3[q].at = "linked" =>
       /\ x2[LinkRows!Link(x3[q].id)].rec = x3[q].id /\ x2[LinkRows!Link(x3[q].id)].exp = x3[q].expires

LinkLinks == \A i \in 1..LinkRecoveries : x2[LinkRows!Link(i)].rec \in {0, i}

\* What a mover read of the recovery that still stands.
LinkReads == \A n \in One : x4[n].read.id = x1.id /\ x4[n].at # "none" =>
  /\ x4[n].kind = "times" => /\ x4[n].read.locator = x1.locator
                             /\ x4[n].at = "moved" => x1.times
                             /\ x4[n].at = "read" /\ x1.state = "pending" /\ ~x1.times =>
                                  x4[n].read.expires = x1.expires /\ x4[n].since < x1.expires
  /\ x4[n].kind = "attempt" /\ x1.state \in {"pending", "registered"} =>
       x4[n].read.state \in {"pending", "registered"}

TimesMoved(n) ==
  x4[n].at = "moved" /\ x4[n].kind = "times" /\ x4[n].read.id = x1.id /\ x4[n].to = x1.expires

AttemptMoved(n) ==
  x4[n].at # "none" /\ x4[n].kind = "attempt" /\ x4[n].read.id = x1.id /\ x4[n].read.expires = x1.expires

RowLasts(k)   == x2[k].rec = x1.id /\ x2[k].exp >= x1.expires
RowToMove(k)  == x2[k].rec = x1.id /\ \E n \in One : TimesMoved(n) /\ x2[k].exp > x4[n].since
LinkRowKept(k)    == RowLasts(k) \/ RowToMove(k)

LinkKept ==
  /\ x1.state = "pending" /\ x5 <= x1.expires /\ x1.id \notin x7 =>
       LinkRowKept(LinkRows!Locator(x1.locator)) /\ LinkRowKept(LinkRows!Link(x1.id))
  /\ x1.state = "registered" /\ x5 < x1.expires /\ x1.id \notin x7 =>
       \/ LinkRowKept(LinkRows!Link(x1.id)) \/ RowLasts(LinkRows!Notice(x1.id))
       \/ \E n \in One : AttemptMoved(n)

LinkInv == LinkTyped /\ LinkNumbers /\ LinkHours /\ LinkWritten /\ LinkLinks /\ LinkReads /\ LinkKept

LEMMA LinkConstants ==
  LinkSpan \in Nat /\ LinkSpan >= 1 /\ LinkCap \in Nat /\ LinkRecoveries \in Nat /\ LinkTime \in Nat
BY LinkRowsAssumption

\* The keys are of three kinds.
LEMMA LinkKeys ==
  /\ \A l \in LinkLocators : LinkRows!Locator(l) \in LinkRows!Keys
  /\ \A i \in 1..LinkRecoveries : LinkRows!Link(i) \in LinkRows!Keys /\ LinkRows!Notice(i) \in LinkRows!Keys
  /\ \A l, i : /\ LinkRows!Locator(l) # LinkRows!Link(i) /\ LinkRows!Locator(l) # LinkRows!Notice(i)
  /\ \A i, j : LinkRows!Link(i) # LinkRows!Notice(j)
  /\ \A i, j : LinkRows!Link(i) = LinkRows!Link(j) => i = j
  /\ \A i, j : LinkRows!Locator(i) = LinkRows!Locator(j) => i = j
BY DEF LinkRows!Keys, LinkRows!Locator, LinkRows!Link, LinkRows!Notice, LinkRows!Ids

LEMMA LinkNone ==
  /\ LinkRows!NoRec \in LinkRecs /\ LinkRows!NoRec.id = 0 /\ LinkRows!NoRec.state = "none"
  /\ LinkRows!NoRow \in LinkItems /\ LinkRows!NoRow.rec = 0
  /\ LinkRows!NoRequest \in LinkAsks /\ LinkRows!NoRequest.at = "none"
  /\ LinkRows!NoNotice \in LinkMoves /\ LinkRows!NoNotice.at = "none" /\ LinkRows!NoNotice.read.id = 0
<1>1. LinkRows!NoRec \in LinkRecs /\ LinkRows!NoRec.id = 0 /\ LinkRows!NoRec.state = "none"
  BY DEF LinkRows!NoRec, LinkRecs
<1>2. LinkRows!NoRow \in LinkItems /\ LinkRows!NoRow.rec = 0
  BY DEF LinkRows!NoRow, LinkItems
<1>3. LinkRows!NoRequest \in LinkAsks /\ LinkRows!NoRequest.at = "none"
  BY DEF LinkRows!NoRequest, LinkAsks
<1>4. LinkRows!NoNotice \in LinkMoves /\ LinkRows!NoNotice.at = "none" /\ LinkRows!NoNotice.read.id = 0
  BY <1>1 DEF LinkRows!NoNotice, LinkMoves
<1> QED
  BY <1>1, <1>2, <1>3, <1>4

LEMMA LinkInit == LinkRows!Init => LinkInv
<1> SUFFICES ASSUME LinkRows!Init PROVE LinkInv
  OBVIOUS
<1>1. /\ x1 = LinkRows!NoRec /\ x2 = [k \in LinkRows!Keys |-> LinkRows!NoRow]
      /\ x3 = [q \in Two |-> LinkRows!NoRequest] /\ x4 = [n \in One |-> LinkRows!NoNotice] /\ x5 = 0 /\ x6 = 0
  BY DEF LinkRows!Init
<1>2. LinkTyped
  BY <1>1, LinkNone DEF LinkTyped
<1>3. (\A q \in Two : x3[q].at = "none") /\ (\A n \in One : x4[n].at = "none" /\ x4[n].read.id = 0)
      /\ x1.state = "none" /\ x1.id = 0
  BY <1>1, LinkNone
<1>4. LinkNumbers
  BY <1>1, <1>3, LinkConstants DEF LinkNumbers
<1>5. LinkHours /\ LinkWritten
  BY <1>3 DEF LinkHours, LinkWritten
<1>6. LinkReads /\ LinkKept
  BY <1>3 DEF LinkReads, LinkKept
<1>7. LinkLinks
  BY <1>1, LinkNone, LinkKeys DEF LinkLinks
<1> QED
  BY <1>2, <1>4, <1>5, <1>6, <1>7 DEF LinkInv

\* While the recovery stands, its rows only last longer, and who moved it goes on or has done so.
LEMMA LinkKeptOn ==
  ASSUME LinkInv, x1' = x1, x5' \in Nat, x5' >= x5, x7 \subseteq x7', LinkTyped',
         \A k \in LinkRows!Keys :
           /\ k \in {LinkRows!Locator(x1.locator), LinkRows!Link(x1.id), LinkRows!Notice(x1.id)}
           /\ x2[k].rec = x1.id /\ x1.id # 0 /\ x2[k].exp >= x5
           => x2'[k].rec = x1.id /\ x2'[k].exp >= x2[k].exp,
         \A n \in One : TimesMoved(n) =>
           \/ TimesMoved(n)' /\ x4'[n].since = x4[n].since
           \/ x1.id \in x7'
           \/ \A k \in LinkRows!Keys : k \in {LinkRows!Locator(x1.locator), LinkRows!Link(x1.id)}
                                        /\ x2[k].rec = x1.id => x2'[k].exp >= x1.expires,
         \A n \in One : x1.state = "registered" /\ AttemptMoved(n) =>
           \/ AttemptMoved(n)' \/ x5 >= x1.expires
           \/ x2'[LinkRows!Notice(x1.id)].rec = x1.id /\ x2'[LinkRows!Notice(x1.id)].exp >= x1.expires
  PROVE  LinkKept'
<1>1. /\ x5 \in Nat /\ x1.expires \in Nat /\ x1 \in LinkRecs /\ x1.id \in Nat
      /\ \A n \in One : x4[n].since \in Nat
      /\ \A k \in LinkRows!Keys : x2[k].exp \in Nat /\ x2'[k].exp \in Nat
  BY DEF LinkInv, LinkTyped, LinkRecs, LinkMoves, LinkItems
<1>2. x1.state # "none" =>
        /\ LinkRows!Link(x1.id) \in LinkRows!Keys /\ LinkRows!Notice(x1.id) \in LinkRows!Keys
        /\ LinkRows!Locator(x1.locator) \in LinkRows!Keys /\ x1.id # 0
  <2>1. x1.state # "none" => x1.id \in 1..LinkRecoveries /\ x1.locator \in LinkLocators
    BY <1>1, LinkConstants DEF LinkInv, LinkNumbers, LinkTyped
  <2> QED
    BY <2>1, LinkKeys
<1>3. ASSUME NEW k \in LinkRows!Keys, k \in {LinkRows!Locator(x1.locator), LinkRows!Link(x1.id)}, LinkRowKept(k),
             x5 <= x1.expires, x1.id \notin x7', x1.id # 0
      PROVE  LinkRowKept(k)'
  <2>1. CASE RowLasts(k)
    <3>1. x2[k].rec = x1.id /\ x2[k].exp >= x5
      BY <1>1, <1>3, <2>1 DEF RowLasts
    <3>2. x2'[k].rec = x1.id /\ x2'[k].exp >= x2[k].exp
      BY <1>3, <3>1
    <3>3. RowLasts(k)'
      BY <1>1, <1>3, <2>1, <3>2 DEF RowLasts
    <3> QED
      BY <3>3 DEF LinkRowKept
  <2>2. ASSUME NEW n \in One, TimesMoved(n), x2[k].exp > x4[n].since, x2[k].rec = x1.id PROVE LinkRowKept(k)'
    <3>1. x5 <= x4[n].since + 1
      BY <2>2 DEF LinkInv, LinkHours, TimesMoved
    <3>2. x2[k].exp >= x5
      BY <1>1, <2>2, <3>1
    <3>3. x2'[k].rec = x1.id /\ x2'[k].exp >= x2[k].exp
      BY <1>3, <2>2, <3>2
    <3>4. CASE TimesMoved(n)' /\ x4'[n].since = x4[n].since
      <4>1. x2'[k].exp > x4'[n].since
        BY <1>1, <2>2, <3>3, <3>4
      <4>2. RowToMove(k)'
        BY <3>3, <3>4, <4>1 DEF RowToMove
      <4> QED
        BY <4>2 DEF LinkRowKept
    <3>5. CASE x2'[k].exp >= x1.expires
      BY <3>3, <3>5 DEF LinkRowKept, RowLasts
    <3> QED
      BY <1>3, <2>2, <3>4, <3>5
  <2> QED
    BY <1>3, <2>1, <2>2 DEF LinkRowKept, RowToMove
<1>4. ASSUME x1.state = "pending", x5' <= x1.expires, x1.id \notin x7'
      PROVE  LinkRowKept(LinkRows!Locator(x1.locator))' /\ LinkRowKept(LinkRows!Link(x1.id))'
  <2>1. x5 <= x1.expires /\ x1.id \notin x7
    BY <1>1, <1>4
  <2>2. LinkRowKept(LinkRows!Locator(x1.locator)) /\ LinkRowKept(LinkRows!Link(x1.id))
    BY <1>4, <2>1 DEF LinkInv, LinkKept
  <2>3. \A k : k = LinkRows!Locator(x1.locator) => LinkRowKept(k)'
    BY <1>2, <1>3, <1>4, <2>1, <2>2
  <2>4. \A k : k = LinkRows!Link(x1.id) => LinkRowKept(k)'
    BY <1>2, <1>3, <1>4, <2>1, <2>2
  <2> QED
    BY <2>3, <2>4 DEF LinkRowKept, RowLasts, RowToMove
<1>5. ASSUME x1.state = "registered", x5' < x1.expires, x1.id \notin x7'
      PROVE  \/ LinkRowKept(LinkRows!Link(x1.id))' \/ RowLasts(LinkRows!Notice(x1.id))'
             \/ \E n \in One : AttemptMoved(n)'
  <2>1. x5 < x1.expires /\ x1.id \notin x7
    BY <1>1, <1>5
  <2>2. CASE LinkRowKept(LinkRows!Link(x1.id))
    <3>1. \A k : k = LinkRows!Link(x1.id) => LinkRowKept(k)'
      BY <1>1, <1>2, <1>3, <1>5, <2>1, <2>2
    <3> QED
      BY <3>1 DEF LinkRowKept, RowLasts, RowToMove
  <2>3. CASE RowLasts(LinkRows!Notice(x1.id))
    <3> DEFINE k == LinkRows!Notice(x1.id)
    <3>1. x2[k].rec = x1.id /\ x2[k].exp >= x1.expires /\ k \in LinkRows!Keys /\ x1.id # 0
      BY <1>2, <1>5, <2>3 DEF RowLasts
    <3>2. x2'[k].rec = x1.id /\ x2'[k].exp >= x2[k].exp
      BY <1>1, <2>1, <3>1
    <3>3. x2'[k].exp >= x1.expires
      BY <1>1, <3>1, <3>2
    <3> QED
      BY <3>2, <3>3 DEF RowLasts, LinkRows!Notice
  <2>4. ASSUME NEW n \in One, AttemptMoved(n)
        PROVE  \/ RowLasts(LinkRows!Notice(x1.id))' \/ \E m \in One : AttemptMoved(m)'
    <3>1. ~(x5 >= x1.expires)
      BY <1>1, <2>1
    <3> QED
      BY <1>5, <2>4, <3>1 DEF RowLasts, LinkRows!Notice
  <2> QED
    BY <1>5, <2>1, <2>2, <2>3, <2>4 DEF LinkInv, LinkKept
<1> QED
  BY <1>4, <1>5 DEF LinkKept, LinkRowKept, RowLasts, RowToMove, LinkRows!Notice, LinkRows!Link, LinkRows!Locator

--------------------------------------------------------------------------------
\* A request's record is replaced; the rows that change are its own.
LEMMA AskGoesOn ==
  ASSUME LinkInv, UNCHANGED <<x1, x4, x5, x7>>, x2' \in [LinkRows!Keys -> LinkItems],
         LinkLinks', NEW q \in Two, NEW r \in LinkAsks, x3' = [x3 EXCEPT ![q] = r],
         x6' \in Nat, x6' >= x6, x6' <= LinkRecoveries,
         r.at # "none" => /\ r.id \in 1..x6' /\ r.id # x1.id
                          /\ \A n \in One : x4[n].read.id # r.id
                          /\ \A p \in Two \ {q} : x3[p].at # "none" => x3[p].id # r.id
                          /\ r.since <= x5 /\ x5 <= r.since + 1 /\ r.expires = r.since + LinkSpan,
         \A k \in LinkRows!Keys : x2[k].rec # 0 /\ (r.at = "none" \/ x2[k].rec # r.id) => x2'[k] = x2[k],
         r.at \in {"located", "linked"} =>
           /\ r.locator \in LinkLocators /\ x2'[LinkRows!Locator(r.locator)].rec = r.id
           /\ x2'[LinkRows!Locator(r.locator)].exp = r.expires,
         r.at = "linked" => x2'[LinkRows!Link(r.id)].rec = r.id /\ x2'[LinkRows!Link(r.id)].exp = r.expires
  PROVE  LinkInv'
<1>1. x3' \in [Two -> LinkAsks] /\ x3'[q] = r /\ \A p \in Two \ {q} : x3'[p] = x3[p]
  BY DEF LinkInv, LinkTyped
<1>2. LinkTyped'
  BY <1>1 DEF LinkInv, LinkTyped
<1>3. /\ x1.id \in Nat /\ x6 \in Nat /\ x5 \in Nat /\ (\A n \in One : x4[n].read.id \in Nat)
      /\ \A p \in Two : x3[p].id \in Nat
  BY DEF LinkInv, LinkTyped, LinkRecs, LinkMoves, LinkAsks
<1>4. LinkNumbers'
  <2>1. x1.id <= x6' /\ (\A n \in One : x4[n].read.id <= x6')
        /\ \A p \in Two : x3[p].at # "none" => x3[p].id \in 1..x6'
    BY <1>3 DEF LinkInv, LinkNumbers
  <2> QED
    BY <1>1, <2>1 DEF LinkInv, LinkNumbers
<1>5. LinkHours'
  BY <1>1 DEF LinkInv, LinkHours
<1>6. LinkReads'
  BY DEF LinkInv, LinkReads
<1>7. ASSUME NEW p \in Two, p # q
      PROVE  /\ x3'[p].at \in {"located", "linked"} =>
                  /\ x3'[p].locator \in LinkLocators
                  /\ x2'[LinkRows!Locator(x3'[p].locator)].rec = x3'[p].id
                  /\ x2'[LinkRows!Locator(x3'[p].locator)].exp = x3'[p].expires
             /\ x3'[p].at = "linked" =>
                  /\ x2'[LinkRows!Link(x3'[p].id)].rec = x3'[p].id
                  /\ x2'[LinkRows!Link(x3'[p].id)].exp = x3'[p].expires
  <2>1. x3'[p] = x3[p] /\ (x3[p].at \in {"located", "linked"} =>
          x3[p].id # 0 /\ (r.at = "none" \/ x3[p].id # r.id) /\ x3[p].id \in 1..LinkRecoveries)
    BY <1>1, <1>3, <1>7, LinkConstants DEF LinkInv, LinkNumbers
  <2>2. x3[p].at \in {"located", "linked"} =>
          x2'[LinkRows!Locator(x3[p].locator)] = x2[LinkRows!Locator(x3[p].locator)]
    BY <2>1, LinkKeys DEF LinkInv, LinkWritten
  <2>3. x3[p].at = "linked" => x2'[LinkRows!Link(x3[p].id)] = x2[LinkRows!Link(x3[p].id)]
    BY <2>1, LinkKeys DEF LinkInv, LinkWritten
  <2> QED
    BY <2>1, <2>2, <2>3 DEF LinkInv, LinkWritten
<1>8. LinkWritten'
  <2>1. \A p \in Two : p = q => x3'[p] = r
    BY <1>1
  <2> QED
    BY <1>7, <2>1 DEF LinkWritten, LinkRows!Locator, LinkRows!Link
<1>9. LinkKept'
  <2>1. \A k \in LinkRows!Keys : x2[k].rec = x1.id /\ x1.id # 0 /\ x2[k].exp >= x5 =>
          x2'[k].rec = x1.id /\ x2'[k].exp >= x2[k].exp
    <3> SUFFICES ASSUME NEW k \in LinkRows!Keys, x2[k].rec = x1.id, x1.id # 0
                 PROVE  x2'[k].rec = x1.id /\ x2'[k].exp >= x2[k].exp
      OBVIOUS
    <3>1. x2'[k] = x2[k] /\ x2[k].exp \in Nat
      BY DEF LinkInv, LinkTyped, LinkItems
    <3> QED
      BY <3>1
  <2>2. \A n \in One : (TimesMoved(n) => TimesMoved(n)' /\ x4'[n].since = x4[n].since)
                       /\ (AttemptMoved(n) => AttemptMoved(n)')
    BY DEF TimesMoved, AttemptMoved
  <2>3. x5' \in Nat /\ x5' >= x5 /\ x7 \subseteq x7'
    BY <1>3
  <2> QED
    BY <1>2, <2>1, <2>2, <2>3, LinkKeptOn
<1> QED
  BY <1>2, <1>4, <1>5, <1>6, <1>8, <1>9 DEF LinkInv

LEMMA LinkAsked == ASSUME LinkInv, NEW q \in Two, LinkRows!Ask(q) PROVE LinkInv'
<1> DEFINE r == [at |-> "read", id |-> x6 + 1, seen |-> x1.id, locator |-> 0, expires |-> x5 + LinkSpan, since |-> x5]
<1>1. x3' = [x3 EXCEPT ![q] = r] /\ x6' = x6 + 1 /\ x6 < LinkRecoveries /\ UNCHANGED <<x1, x2, x4, x5, x7>>
  BY DEF LinkRows!Ask
<1>2. x6 \in Nat /\ x5 \in Nat /\ x1.id \in Nat /\ x2 \in [LinkRows!Keys -> LinkItems] /\ x1.id <= x6 /\ LinkLinks
      /\ (\A n \in One : x4[n].read.id <= x6 /\ x4[n].read.id \in Nat)
      /\ \A p \in Two : x3[p].at # "none" => x3[p].id <= x6 /\ x3[p].id \in Nat
  BY DEF LinkInv, LinkTyped, LinkNumbers, LinkRecs, LinkMoves
<1>3. r \in LinkAsks
  BY <1>2, LinkConstants DEF LinkAsks
<1>4. r.at = "read" /\ r.id = x6 + 1 /\ r.since = x5 /\ r.expires = x5 + LinkSpan
  OBVIOUS
<1> HIDE DEF r
<1>5. /\ r.id \in 1..x6' /\ r.id # x1.id /\ (\A n \in One : x4[n].read.id # r.id)
      /\ (\A p \in Two \ {q} : x3[p].at # "none" => x3[p].id # r.id)
      /\ r.since <= x5 /\ x5 <= r.since + 1 /\ r.expires = r.since + LinkSpan
      /\ x6' \in Nat /\ x6' >= x6 /\ x6' <= LinkRecoveries
  BY <1>1, <1>2, <1>4, LinkConstants
<1>6. LinkLinks'
  BY <1>1, <1>2 DEF LinkLinks
<1> QED
  BY <1>1, <1>2, <1>3, <1>4, <1>5, <1>6, AskGoesOn

\* The request that goes on: what it has, and where its rows go.
LEMMA AskHas ==
  ASSUME LinkInv, NEW q \in Two, x3[q].at # "none"
  PROVE  /\ x3[q] \in LinkAsks /\ x3[q].id \in 1..x6 /\ x3[q].id \in 1..LinkRecoveries /\ x3[q].id # x1.id
         /\ \A n \in One : x4[n].read.id # x3[q].id
         /\ \A p \in Two \ {q} : x3[p].at # "none" => x3[p].id # x3[q].id
         /\ x3[q].since <= x5 /\ x5 <= x3[q].since + 1 /\ x3[q].expires = x3[q].since + LinkSpan
         /\ x6 \in Nat /\ x6 <= LinkRecoveries /\ x2 \in [LinkRows!Keys -> LinkItems]
         /\ [rec |-> x3[q].id, exp |-> x3[q].expires] \in LinkItems
<1>1. x3[q] \in LinkAsks /\ x6 \in Nat /\ x2 \in [LinkRows!Keys -> LinkItems]
  BY DEF LinkInv, LinkTyped
<1>2. x3[q].id \in Nat /\ x3[q].expires \in Nat
  BY <1>1 DEF LinkAsks
<1>3. [rec |-> x3[q].id, exp |-> x3[q].expires] \in LinkItems
  BY <1>2 DEF LinkItems
<1> QED
  BY <1>1, <1>2, <1>3, LinkConstants DEF LinkInv, LinkNumbers, LinkHours

LEMMA LinkMinted == ASSUME LinkInv, NEW q \in Two, LinkRows!MintLocator(q) PROVE LinkInv'
<1>1. PICK l \in LinkLocators :
        /\ x2[LinkRows!Locator(l)].rec = 0
        /\ x2' = [x2 EXCEPT ![LinkRows!Locator(l)] = [rec |-> x3[q].id, exp |-> x3[q].expires]]
        /\ x3' = [x3 EXCEPT ![q].at = "located", ![q].locator = l]
  BY DEF LinkRows!MintLocator, LinkRows!Free, LinkRows!Held
<1>2. x3[q].at = "read" /\ UNCHANGED <<x1, x4, x5, x6, x7>>
  BY DEF LinkRows!MintLocator
<1> DEFINE r == [x3[q] EXCEPT !.at = "located", !.locator = l]
           k0r == [rec |-> x3[q].id, exp |-> x3[q].expires]
<1>3. x3' = [x3 EXCEPT ![q] = r]
  BY <1>1
<1>4. x3[q] \in LinkAsks
  BY <1>2, AskHas
<1>5. \A a \in {"located"}, m \in LinkLocators : [x3[q] EXCEPT !.at = a, !.locator = m] \in LinkAsks
  BY <1>4 DEF LinkAsks
<1>6. r \in LinkAsks
  BY <1>5
<1>7. r.at = "located" /\ r.locator = l /\ r.id = x3[q].id /\ r.expires = x3[q].expires /\ r.since = x3[q].since
  BY <1>4 DEF LinkAsks
<1>8. k0r \in LinkItems /\ k0r.rec = x3[q].id /\ k0r.exp = x3[q].expires /\ x2' = [x2 EXCEPT ![LinkRows!Locator(l)] = k0r]
  BY <1>1, <1>2, AskHas
<1> HIDE DEF r, k0r
<1>9. LinkRows!Locator(l) \in LinkRows!Keys
  BY LinkKeys
<1>10. x2' \in [LinkRows!Keys -> LinkItems] /\ x2'[LinkRows!Locator(l)] = k0r
       /\ \A k \in LinkRows!Keys \ {LinkRows!Locator(l)} : x2'[k] = x2[k]
  BY <1>2, <1>8, <1>9, AskHas
<1>11. \A k \in LinkRows!Keys : x2[k].rec # 0 => x2'[k] = x2[k]
  BY <1>1, <1>10
<1>12. /\ r.id \in 1..x6' /\ r.id # x1.id /\ (\A n \in One : x4[n].read.id # r.id)
       /\ (\A p \in Two \ {q} : x3[p].at # "none" => x3[p].id # r.id)
       /\ r.since <= x5 /\ x5 <= r.since + 1 /\ r.expires = r.since + LinkSpan
       /\ x6' \in Nat /\ x6' >= x6 /\ x6' <= LinkRecoveries
  <2>1. /\ x3[q].id \in 1..x6 /\ x3[q].id # x1.id
        /\ \A n \in One : x4[n].read.id # x3[q].id
        /\ \A p \in Two \ {q} : x3[p].at # "none" => x3[p].id # x3[q].id
        /\ x3[q].since <= x5 /\ x5 <= x3[q].since + 1 /\ x3[q].expires = x3[q].since + LinkSpan
    BY <1>2, AskHas
  <2>2. x6' = x6 /\ x6 \in Nat /\ x6 <= LinkRecoveries
    BY <1>2, AskHas
  <2>3. x6' \in Nat /\ x6' >= x6 /\ x6' <= LinkRecoveries
    BY <2>2
  <2> QED
    BY <1>7, <2>1, <2>2, <2>3
<1>13. /\ r.locator \in LinkLocators /\ x2'[LinkRows!Locator(r.locator)].rec = r.id
       /\ x2'[LinkRows!Locator(r.locator)].exp = r.expires
  BY <1>7, <1>8, <1>10
<1>14. LinkLinks'
  BY <1>10, LinkKeys DEF LinkInv, LinkLinks
<1> QED
  BY <1>2, <1>3, <1>6, <1>7, <1>10, <1>11, <1>12, <1>13, <1>14, AskGoesOn

LEMMA LinkMailed == ASSUME LinkInv, NEW q \in Two, LinkRows!MintCancelLink(q) PROVE LinkInv'
<1> DEFINE r == [x3[q] EXCEPT !.at = "linked"]
           k0r == [rec |-> x3[q].id, exp |-> x3[q].expires]
           kq == LinkRows!Link(x3[q].id)
<1>1. x3[q].at = "located" /\ UNCHANGED <<x1, x4, x5, x6, x7>> /\ x3' = [x3 EXCEPT ![q] = r]
      /\ x2' = [x2 EXCEPT ![kq] = k0r]
  BY DEF LinkRows!MintCancelLink
<1>2. x3[q] \in LinkAsks /\ k0r \in LinkItems /\ k0r.rec = x3[q].id /\ k0r.exp = x3[q].expires
      /\ kq \in LinkRows!Keys /\ x2 \in [LinkRows!Keys -> LinkItems]
  BY <1>1, AskHas, LinkKeys
<1>3. r \in LinkAsks
  BY <1>2 DEF LinkAsks
<1>4. r.at = "linked" /\ r.locator = x3[q].locator /\ r.id = x3[q].id /\ r.expires = x3[q].expires
      /\ r.since = x3[q].since
  BY <1>2 DEF LinkAsks
<1>5. x3[q].locator \in LinkLocators /\ x2[LinkRows!Locator(x3[q].locator)].rec = x3[q].id
      /\ x2[LinkRows!Locator(x3[q].locator)].exp = x3[q].expires
  BY <1>1 DEF LinkInv, LinkWritten
<1>6. LinkRows!Locator(x3[q].locator) \in LinkRows!Keys /\ LinkRows!Locator(x3[q].locator) # kq
      /\ kq = LinkRows!Link(r.id)
  BY <1>4, <1>5, LinkKeys
<1> HIDE DEF r, k0r, kq
<1>7. x2' \in [LinkRows!Keys -> LinkItems] /\ x2'[kq] = k0r /\ \A k \in LinkRows!Keys \ {kq} : x2'[k] = x2[k]
  BY <1>1, <1>2
<1>8. \A k \in LinkRows!Keys : x2[k].rec # 0 /\ x2[k].rec # r.id => x2'[k] = x2[k]
  <2>1. x2[kq].rec \in {0, r.id}
    BY <1>1, <1>4, <1>6, AskHas DEF LinkInv, LinkLinks
  <2> QED
    BY <1>7, <2>1
<1>9. /\ r.id \in 1..x6' /\ r.id # x1.id /\ (\A n \in One : x4[n].read.id # r.id)
      /\ (\A p \in Two \ {q} : x3[p].at # "none" => x3[p].id # r.id)
      /\ r.since <= x5 /\ x5 <= r.since + 1 /\ r.expires = r.since + LinkSpan
      /\ x6' \in Nat /\ x6' >= x6 /\ x6' <= LinkRecoveries
  <2>1. /\ x3[q].id \in 1..x6 /\ x3[q].id # x1.id
        /\ \A n \in One : x4[n].read.id # x3[q].id
        /\ \A p \in Two \ {q} : x3[p].at # "none" => x3[p].id # x3[q].id
        /\ x3[q].since <= x5 /\ x5 <= x3[q].since + 1 /\ x3[q].expires = x3[q].since + LinkSpan
    BY <1>1, AskHas
  <2>2. x6' = x6 /\ x6 \in Nat /\ x6 <= LinkRecoveries
    BY <1>1, AskHas
  <2>3. x6' \in Nat /\ x6' >= x6 /\ x6' <= LinkRecoveries
    BY <2>2
  <2> QED
    BY <1>4, <2>1, <2>2, <2>3
<1>10. /\ r.locator \in LinkLocators /\ x2'[LinkRows!Locator(r.locator)].rec = r.id
       /\ x2'[LinkRows!Locator(r.locator)].exp = r.expires
  BY <1>4, <1>5, <1>6, <1>7
<1>11. x2'[LinkRows!Link(r.id)].rec = r.id /\ x2'[LinkRows!Link(r.id)].exp = r.expires
  BY <1>2, <1>4, <1>6, <1>7
<1>12. LinkLinks'
  BY <1>2, <1>4, <1>6, <1>7, LinkKeys DEF LinkInv, LinkLinks
<1> QED
  BY <1>1, <1>3, <1>4, <1>7, <1>8, <1>9, <1>10, <1>11, <1>12, AskGoesOn

LEMMA LinkAskFails == ASSUME LinkInv, NEW q \in Two, LinkRows!AskFails(q) PROVE LinkInv'
<1>1. x3' = [x3 EXCEPT ![q] = LinkRows!NoRequest] /\ UNCHANGED <<x1, x2, x4, x5, x6, x7>>
  BY DEF LinkRows!AskFails
<1>2. x2' \in [LinkRows!Keys -> LinkItems] /\ x6' \in Nat /\ x6' >= x6 /\ x6' <= LinkRecoveries /\ LinkLinks'
  BY <1>1 DEF LinkInv, LinkTyped, LinkNumbers, LinkLinks
<1> QED
  BY <1>1, <1>2, LinkNone, AskGoesOn

\* The recovery is set, in the place of the one that was read.
LEMMA LinkSet == ASSUME LinkInv, NEW q \in Two, LinkRows!SetRecovery(q) PROVE LinkInv'
<1>1. x3[q].at = "linked" /\ x3' = [x3 EXCEPT ![q] = LinkRows!NoRequest] /\ UNCHANGED <<x2, x4, x5, x6, x7>>
  BY DEF LinkRows!SetRecovery
<1>2. CASE x1' = x1
  <2>1. x2' \in [LinkRows!Keys -> LinkItems] /\ x6' \in Nat /\ x6' >= x6 /\ x6' <= LinkRecoveries /\ LinkLinks'
    BY <1>1 DEF LinkInv, LinkTyped, LinkNumbers, LinkLinks
  <2> QED
    BY <1>1, <1>2, <2>1, LinkNone, AskGoesOn
<1>3. CASE x1' = [id |-> x3[q].id, state |-> "pending", asked |-> x3[q].since, expires |-> x3[q].expires,
                  locator |-> x3[q].locator, times |-> FALSE]
  <2>1. /\ x3[q] \in LinkAsks /\ x3[q].id \in 1..x6 /\ x3[q].id \in 1..LinkRecoveries
        /\ \A n \in One : x4[n].read.id # x3[q].id
        /\ \A p \in Two \ {q} : x3[p].at # "none" => x3[p].id # x3[q].id
        /\ x3[q].since <= x5 /\ x5 <= x3[q].since + 1 /\ x3[q].expires = x3[q].since + LinkSpan
        /\ x6 \in Nat
    BY <1>1, AskHas
  <2>2. /\ x3[q].locator \in LinkLocators /\ x2[LinkRows!Locator(x3[q].locator)].rec = x3[q].id
        /\ x2[LinkRows!Locator(x3[q].locator)].exp = x3[q].expires
        /\ x2[LinkRows!Link(x3[q].id)].rec = x3[q].id /\ x2[LinkRows!Link(x3[q].id)].exp = x3[q].expires
    BY <1>1 DEF LinkInv, LinkWritten
  <2>3. /\ x1'.id = x3[q].id /\ x1'.state = "pending" /\ x1'.expires = x3[q].expires
        /\ x1'.locator = x3[q].locator /\ x1' \in LinkRecs
    BY <1>3, <2>1 DEF LinkRecs, LinkAsks
  <2>4. x3' \in [Two -> LinkAsks] /\ x3'[q].at = "none" /\ \A p \in Two \ {q} : x3'[p] = x3[p]
    BY <1>1, LinkNone DEF LinkInv, LinkTyped
  <2>5. LinkTyped'
    BY <1>1, <2>3, <2>4 DEF LinkInv, LinkTyped
  <2>6. x3[q].id \in Nat /\ x3[q].id >= 1 /\ x3[q].id <= x6 /\ x3[q].expires \in Nat
    BY <2>1 DEF LinkAsks
  <2>7. LinkNumbers'
    BY <1>1, <2>1, <2>2, <2>3, <2>4, <2>6 DEF LinkInv, LinkNumbers
  <2>8. LinkHours' /\ LinkLinks'
    BY <1>1, <2>4 DEF LinkInv, LinkHours, LinkLinks
  <2>9. LinkWritten'
    BY <1>1, <2>4 DEF LinkInv, LinkWritten
  <2>10. LinkReads'
    BY <1>1, <2>1, <2>3 DEF LinkReads
  <2>11. LinkKept'
    <3>1. RowLasts(LinkRows!Locator(x1.locator))' /\ RowLasts(LinkRows!Link(x1.id))'
      BY <1>1, <2>2, <2>3, <2>6 DEF RowLasts, LinkRows!Locator, LinkRows!Link
    <3> QED
      BY <2>3, <3>1 DEF LinkKept, LinkRowKept
  <2> QED
    BY <2>5, <2>7, <2>8, <2>9, <2>10, <2>11 DEF LinkInv
<1> QED
  BY <1>2, <1>3 DEF LinkRows!SetRecovery

--------------------------------------------------------------------------------
\* A mover's record is replaced: what it read is a recovery that was, no request's number.
LEMMA MoverGoesOn ==
  ASSUME LinkInv, UNCHANGED <<x1, x3, x5, x6>>, x2' \in [LinkRows!Keys -> LinkItems], x7 \subseteq x7',
         NEW n \in One, NEW r \in LinkMoves, x4' = [x4 EXCEPT ![n] = r],
         r.read.id = x4[n].read.id \/ r.read.id = x1.id \/ r.read.id = 0,
         r.at # "none" => r.since <= x5 /\ x5 <= r.since + 1,
         r.read.id = x1.id /\ r.at # "none" =>
           /\ r.kind = "times" => /\ r.read.locator = x1.locator
                                  /\ r.at = "moved" => x1.times
                                  /\ r.at = "read" /\ x1.state = "pending" /\ ~x1.times =>
                                       r.read.expires = x1.expires /\ r.since < x1.expires
           /\ r.kind = "attempt" /\ x1.state \in {"pending", "registered"} =>
                r.read.state \in {"pending", "registered"},
         \A k \in LinkRows!Keys : x2'[k].rec = x2[k].rec \/ (x2'[k].rec = x4[n].read.id
                                     /\ \A l, i : k # LinkRows!Locator(l) /\ k # LinkRows!Link(i)),
         \A k \in LinkRows!Keys : x2'[k].exp = x2[k].exp \/ (x2[k].rec = x4[n].read.id /\ x2'[k].exp >= x2[k].exp)
                                    \/ \A l, i : k # LinkRows!Locator(l) /\ k # LinkRows!Link(i),
         LinkKept'
  PROVE  LinkInv'
<1>1. x4' \in [One -> LinkMoves] /\ x4'[n] = r /\ \A m \in One \ {n} : x4'[m] = x4[m]
  BY DEF LinkInv, LinkTyped
<1>2. LinkTyped'
  BY <1>1 DEF LinkInv, LinkTyped
<1>3. LinkNumbers'
  <2>1. x1.id \in Nat /\ x6 \in Nat /\ x4[n].read.id <= x6 /\ x1.id <= x6
        /\ \A q \in Two : x3[q].at # "none" => x3[q].id # x4[n].read.id /\ x3[q].id # x1.id /\ x3[q].id # 0
    BY DEF LinkInv, LinkTyped, LinkNumbers, LinkRecs
  <2>2. r.read.id <= x6 /\ \A q \in Two : x3[q].at # "none" => x3[q].id # r.read.id
    BY <2>1
  <2> QED
    BY <1>1, <2>1, <2>2 DEF LinkInv, LinkNumbers
<1>4. LinkHours'
  BY <1>1 DEF LinkInv, LinkHours
<1>5. LinkReads'
  BY <1>1 DEF LinkInv, LinkReads
<1>6. LinkLinks'
  BY LinkKeys DEF LinkInv, LinkLinks
<1>7. LinkWritten'
  <2>1. ASSUME NEW q \in Two, x3[q].at \in {"located", "linked"}, NEW k \in LinkRows!Keys,
               k = LinkRows!Locator(x3[q].locator) \/ k = LinkRows!Link(x3[q].id), x2[k].rec = x3[q].id
        PROVE  x2'[k].rec = x2[k].rec /\ x2'[k].exp = x2[k].exp
    <3>1. x3[q].id # x4[n].read.id
      BY <2>1 DEF LinkInv, LinkNumbers
    <3> QED
      BY <2>1, <3>1
  <2>2. \A q \in Two : x3[q].at \in {"located", "linked"} =>
          /\ LinkRows!Link(x3[q].id) \in LinkRows!Keys
          /\ x3[q].locator \in LinkLocators => LinkRows!Locator(x3[q].locator) \in LinkRows!Keys
    BY AskHas, LinkKeys
  <2> QED
    BY <2>1, <2>2 DEF LinkInv, LinkWritten
<1> QED
  BY <1>2, <1>3, <1>4, <1>5, <1>6, <1>7 DEF LinkInv

\* That the others are as far as they were.
LEMMA OthersMoved ==
  ASSUME LinkInv, NEW n \in One, NEW r \in LinkMoves, x4' = [x4 EXCEPT ![n] = r], x1' = x1
  PROVE  /\ x4' \in [One -> LinkMoves] /\ x4'[n] = r
         /\ \A m \in One \ {n} : /\ TimesMoved(m) => TimesMoved(m)' /\ x4'[m].since = x4[m].since
                                 /\ AttemptMoved(m) => AttemptMoved(m)'
<1>1. x4' \in [One -> LinkMoves] /\ x4'[n] = r /\ \A m \in One \ {n} : x4'[m] = x4[m]
  BY DEF LinkInv, LinkTyped
<1> QED
  BY <1>1 DEF TimesMoved, AttemptMoved

LEMMA LinkReadsOn ==
  ASSUME LinkInv, NEW n \in One, NEW kind \in {"times", "attempt"}, LinkRows!Read(n, kind)
  PROVE  LinkInv'
<1>1. PICK to \in {x5 + 1, x5 + LinkCap} :
        x4' = [x4 EXCEPT ![n] = [at |-> "read", kind |-> kind, read |-> x1,
                                 to |-> LinkRows!Least(x1.asked + LinkCap, to), since |-> x5]]
  BY DEF LinkRows!Read
<1> DEFINE r == [at |-> "read", kind |-> kind, read |-> x1, to |-> LinkRows!Least(x1.asked + LinkCap, to), since |-> x5]
<1>2. /\ UNCHANGED <<x1, x2, x3, x5, x6, x7>> /\ x4[n].at = "none"
      /\ \/ kind = "times" /\ x1.state = "pending" /\ ~x1.times /\ x5 < x1.expires
         \/ kind = "attempt" /\ x1.state = "registered"
  BY DEF LinkRows!Read
<1>3. x1 \in LinkRecs /\ x5 \in Nat /\ x2 \in [LinkRows!Keys -> LinkItems] /\ to \in Nat
  BY <1>1, LinkConstants DEF LinkInv, LinkTyped
<1>4. LinkRows!Least(x1.asked + LinkCap, to) \in Nat
  BY <1>3, LinkConstants DEF LinkRows!Least, LinkRecs
<1>5. r \in LinkMoves
  BY <1>3, <1>4 DEF LinkMoves
<1>6. r.at = "read" /\ r.kind = kind /\ r.read = x1 /\ r.since = x5 /\ x4' = [x4 EXCEPT ![n] = r]
  BY <1>1
<1> HIDE DEF r
<1>7. LinkTyped'
  BY <1>2, <1>3, <1>5, <1>6, OthersMoved DEF LinkInv, LinkTyped
<1>8. ~TimesMoved(n) /\ ~AttemptMoved(n)
  BY <1>2 DEF TimesMoved, AttemptMoved
<1>9. \A k \in LinkRows!Keys : x2'[k].rec = x2[k].rec /\ x2'[k].exp = x2[k].exp /\ x2[k].exp \in Nat
  BY <1>2, <1>3 DEF LinkItems
<1>10. LinkKept'
  <2>1. \A m \in One : (TimesMoved(m) => TimesMoved(m)' /\ x4'[m].since = x4[m].since)
                       /\ (AttemptMoved(m) => AttemptMoved(m)')
    BY <1>2, <1>5, <1>6, <1>8, OthersMoved
  <2>2. x5' \in Nat /\ x5' >= x5 /\ x7 \subseteq x7' /\ x1' = x1
    BY <1>2, <1>3
  <2>3. \A k \in LinkRows!Keys : x2[k].rec = x1.id /\ x1.id # 0 /\ x2[k].exp >= x5 =>
          x2'[k].rec = x1.id /\ x2'[k].exp >= x2[k].exp
    BY <1>9
  <2> QED
    BY <1>7, <2>1, <2>2, <2>3, LinkKeptOn
<1>11. r.since <= x5 /\ x5 <= r.since + 1
  BY <1>3, <1>6
<1>12. x2' \in [LinkRows!Keys -> LinkItems] /\ x7 \subseteq x7'
  BY <1>2, <1>3
<1>13. /\ r.kind = "times" => /\ r.read.locator = x1.locator
                              /\ r.at = "moved" => x1.times
                              /\ r.at = "read" /\ x1.state = "pending" /\ ~x1.times =>
                                   r.read.expires = x1.expires /\ r.since < x1.expires
       /\ r.kind = "attempt" /\ x1.state \in {"pending", "registered"} =>
            r.read.state \in {"pending", "registered"}
  BY <1>2, <1>6
<1> QED
  BY <1>2, <1>5, <1>6, <1>9, <1>10, <1>11, <1>12, <1>13, MoverGoesOn

\* The recovery's time moves.
LEMMA LinkMoved ==
  ASSUME LinkInv, NEW n \in One, LinkRows!Move(n)
  PROVE  LinkInv'
<1> DEFINE v == x4[n]
<1>1. /\ v.at = "read" /\ v \in LinkMoves /\ UNCHANGED <<x2, x3, x5, x6, x7>>
      /\ x1 \in LinkRecs /\ x2 \in [LinkRows!Keys -> LinkItems] /\ x5 \in Nat
      /\ v.read \in LinkRecs /\ v.to \in Nat /\ v.since \in Nat
  BY DEF LinkRows!Move, LinkInv, LinkTyped, LinkMoves
<1>2. v.since <= x5 /\ x5 <= v.since + 1
  BY <1>1 DEF LinkInv, LinkHours
<1>3. CASE ~LinkRows!Applies(n)
  <2> DEFINE r == [v EXCEPT !.at = "extended"]
  <2>1. x1' = x1 /\ x4' = [x4 EXCEPT ![n] = r]
    BY <1>3 DEF LinkRows!Move
  <2>2. r \in LinkMoves /\ r.at = "extended" /\ r.kind = v.kind /\ r.read = v.read /\ r.to = v.to /\ r.since = v.since
    BY <1>1 DEF LinkMoves
  <2> HIDE DEF r
  <2>3. ~TimesMoved(n) /\ (AttemptMoved(n) => AttemptMoved(n)')
    BY <1>1, <2>1, <2>2, OthersMoved DEF TimesMoved, AttemptMoved
  <2>4. LinkTyped'
    BY <1>1, <2>1, <2>2, OthersMoved DEF LinkInv, LinkTyped
  <2>5. \A k \in LinkRows!Keys : x2'[k].rec = x2[k].rec /\ x2'[k].exp = x2[k].exp /\ x2[k].exp \in Nat
    BY <1>1 DEF LinkItems
  <2>6. LinkKept'
    <3>1. \A m \in One : (TimesMoved(m) => TimesMoved(m)' /\ x4'[m].since = x4[m].since)
                         /\ (AttemptMoved(m) => AttemptMoved(m)')
      BY <2>1, <2>2, <2>3, OthersMoved
    <3>2. x5' \in Nat /\ x5' >= x5 /\ x7 \subseteq x7'
      BY <1>1
    <3>3. \A k \in LinkRows!Keys : x2[k].rec = x1.id /\ x1.id # 0 /\ x2[k].exp >= x5 =>
            x2'[k].rec = x1.id /\ x2'[k].exp >= x2[k].exp
      BY <2>5
    <3> QED
      BY <2>1, <2>4, <3>1, <3>2, <3>3, LinkKeptOn
  <2>7. r.read.id = x1.id =>
           /\ r.kind = "times" => r.read.locator = x1.locator
           /\ r.kind = "attempt" /\ x1.state \in {"pending", "registered"} => r.read.state \in {"pending", "registered"}
    BY <1>1, <2>2 DEF LinkInv, LinkReads
  <2>8. x2' \in [LinkRows!Keys -> LinkItems] /\ x7 \subseteq x7' /\ r.read.id = v.read.id
        /\ r.since <= x5 /\ x5 <= r.since + 1
    BY <1>1, <1>2, <2>2
  <2> QED
    BY <1>1, <2>1, <2>2, <2>5, <2>6, <2>7, <2>8, MoverGoesOn
<1>4. CASE LinkRows!Applies(n)
  <2> DEFINE a == IF v.to > v.read.expires THEN "moved" ELSE "extended"
             s == [v.read EXCEPT !.expires = v.to]
             r == [v EXCEPT !.at = a, !.read = s]
             t == x1.times \/ v.kind = "times"
             w == [x1 EXCEPT !.expires = v.to, !.times = t]
  <2>1. x1' = w
    BY <1>4 DEF LinkRows!Move
  <2>2. x4' = [x4 EXCEPT ![n] = r]
    <3>1. x4' = [x4 EXCEPT ![n].at = a, ![n].read.expires = v.to]
      BY <1>4 DEF LinkRows!Move
    <3>2. r = [v EXCEPT !.at = a, !.read.expires = v.to]
      BY <1>1 DEF LinkMoves
    <3> QED
      BY <3>1, <3>2 DEF LinkInv, LinkTyped
  <2>3. /\ x1.id = v.read.id
        /\ \/ v.kind = "times" /\ x1.state = "pending" /\ ~x1.times
           \/ v.kind = "attempt" /\ x1.state = "registered" /\ x1.expires < v.to
    BY <1>4 DEF LinkRows!Applies
  <2>4. a \in {"moved", "extended"} /\ t \in BOOLEAN /\ (a = "moved" <=> v.to > v.read.expires)
    BY <1>1 DEF LinkRecs
  <2>5. s \in LinkRecs /\ s.id = v.read.id /\ s.expires = v.to /\ s.locator = v.read.locator /\ s.state = v.read.state
    BY <1>1 DEF LinkRecs
  <2> HIDE DEF a, s, t
  <2>6. r \in LinkMoves
    <3>1. \A b \in {"moved", "extended"}, z \in LinkRecs : [v EXCEPT !.at = b, !.read = z] \in LinkMoves
      BY <1>1 DEF LinkMoves
    <3> QED
      BY <2>4, <2>5, <3>1
  <2>7. r.at = a /\ r.read = s /\ r.kind = v.kind /\ r.to = v.to /\ r.since = v.since
    BY <1>1 DEF LinkMoves
  <2>8. /\ w \in LinkRecs /\ w.id = x1.id /\ w.state = x1.state /\ w.expires = v.to /\ w.locator = x1.locator
        /\ w.times = t
    <3>1. \A e \in Nat, b \in BOOLEAN : [x1 EXCEPT !.expires = e, !.times = b] \in LinkRecs
      BY <1>1 DEF LinkRecs
    <3>2. w \in LinkRecs
      BY <1>1, <2>4, <3>1
    <3> QED
      BY <1>1, <3>2 DEF LinkRecs
  <2>9. v.kind = "times" => t
    BY DEF t
  <2> HIDE DEF r, w
  <2>10. x4' \in [One -> LinkMoves] /\ x4'[n] = r /\ \A m \in One \ {n} : x4'[m] = x4[m]
    BY <2>2, <2>6 DEF LinkInv, LinkTyped
  <2>11. LinkTyped'
    BY <1>1, <2>1, <2>8, <2>10 DEF LinkInv, LinkTyped
  <2>12. LinkNumbers'
    <3>1. x1'.id = x1.id /\ x1'.state = x1.state /\ x1'.locator = x1.locator
      BY <2>1, <2>8
    <3>2. \A m \in One : x4'[m].read.id = x4[m].read.id
      BY <2>5, <2>7, <2>10
    <3> QED
      BY <1>1, <3>1, <3>2 DEF LinkInv, LinkNumbers
  <2>13. LinkHours' /\ LinkWritten' /\ LinkLinks'
    BY <1>1, <1>2, <2>7, <2>10 DEF LinkInv, LinkHours, LinkWritten, LinkLinks
  <2>14. LinkReads'
    <3>1. v.kind = "times" => v.read.locator = x1.locator
      BY <1>1, <2>3 DEF LinkInv, LinkReads
    <3>2. v.kind = "attempt" => v.read.state \in {"pending", "registered"}
      BY <1>1, <2>3 DEF LinkInv, LinkReads
    <3>3. ASSUME NEW m \in One, m # n, x4[m].read.id = x1.id, x4[m].at # "none", x4[m].kind = "times"
          PROVE  /\ x4[m].at = "moved" => x1'.times
                 /\ x4[m].at = "read" /\ x1'.state = "pending" /\ ~x1'.times => FALSE
      <4>1. x1'.times = t /\ x1'.state = x1.state
        BY <2>1, <2>8
      <4>2. CASE v.kind = "times"
        BY <2>9, <4>1, <4>2
      <4>3. CASE x1.state = "registered"
        <5>1. x1.times => t
          BY DEF t
        <5> QED
          BY <3>3, <4>1, <4>3, <5>1 DEF LinkInv, LinkReads
      <4> QED
        BY <2>3, <4>2, <4>3
    <3>4. ASSUME NEW m \in One, x4'[m].read.id = x1'.id, x4'[m].at # "none"
          PROVE  /\ x4'[m].kind = "times" => /\ x4'[m].read.locator = x1'.locator
                                             /\ x4'[m].at = "moved" => x1'.times
                                             /\ x4'[m].at = "read" /\ x1'.state = "pending" /\ ~x1'.times =>
                                                  x4'[m].read.expires = x1'.expires /\ x4'[m].since < x1'.expires
                 /\ x4'[m].kind = "attempt" /\ x1'.state \in {"pending", "registered"} =>
                      x4'[m].read.state \in {"pending", "registered"}
      <4>1. x1'.id = x1.id /\ x1'.locator = x1.locator /\ x1'.times = t /\ x1'.state = x1.state
        BY <2>1, <2>8
      <4>2. CASE m = n
        BY <2>4, <2>5, <2>7, <2>9, <2>10, <3>1, <3>2, <4>1, <4>2
      <4>3. CASE m # n
        <5>1. x4'[m] = x4[m]
          BY <2>10, <4>3
        <5> QED
          BY <3>3, <3>4, <4>1, <4>3, <5>1 DEF LinkInv, LinkReads
      <4> QED
        BY <4>2, <4>3
    <3> QED
      BY <3>4 DEF LinkReads
  <2>15. LinkKept'
    <3>1. x1'.id = x1.id /\ x1'.locator = x1.locator /\ x1'.state = x1.state /\ x1'.expires = v.to
      BY <2>1, <2>8
    <3>2. CASE v.kind = "attempt"
      <4>1. AttemptMoved(n)'
        BY <2>3, <2>4, <2>5, <2>7, <2>10, <3>1, <3>2 DEF AttemptMoved
      <4> QED
        BY <2>3, <3>1, <3>2, <4>1 DEF LinkKept
    <3>3. CASE v.kind = "times"
      <4>1. v.read.expires = x1.expires /\ v.since < x1.expires /\ x1.state = "pending" /\ x1.expires \in Nat
        BY <1>1, <2>3, <3>3 DEF LinkInv, LinkReads, LinkRecs
      <4>2. x5 <= x1.expires
        BY <1>1, <1>2, <4>1
      <4>3. \A m \in One : ~TimesMoved(m)
        BY <2>3, <3>3 DEF LinkInv, LinkReads, TimesMoved
      <4>4. x1.id \notin x7 => RowLasts(LinkRows!Locator(x1.locator)) /\ RowLasts(LinkRows!Link(x1.id))
        BY <4>1, <4>2, <4>3 DEF LinkInv, LinkKept, LinkRowKept, RowToMove
      <4>5. x1.id \in Nat /\ x1.id \in 1..LinkRecoveries /\ x1.locator \in LinkLocators
        BY <4>1, LinkConstants DEF LinkInv, LinkNumbers, LinkTyped, LinkRecs
      <4>6. ASSUME NEW k \in LinkRows!Keys, RowLasts(k) PROVE LinkRowKept(k)'
        <5>1. x2'[k].rec = x1'.id /\ x2'[k].exp >= x1.expires /\ x2'[k].exp \in Nat
          BY <1>1, <3>1, <4>6 DEF RowLasts, LinkItems
        <5>2. CASE v.to > x1.expires
          <6>1. TimesMoved(n)' /\ x4'[n].since = v.since
            BY <2>3, <2>4, <2>5, <2>7, <2>10, <3>1, <3>3, <4>1, <5>2 DEF TimesMoved
          <6>2. x2'[k].exp > x4'[n].since
            BY <1>1, <4>1, <5>1, <6>1
          <6> QED
            BY <5>1, <6>1, <6>2 DEF LinkRowKept, RowToMove
        <5>3. CASE ~(v.to > x1.expires)
          <6>1. x2'[k].exp >= x1'.expires
            BY <1>1, <3>1, <4>1, <5>1, <5>3
          <6> QED
            BY <5>1, <6>1 DEF LinkRowKept, RowLasts
        <5> QED
          BY <5>2, <5>3
      <4>7. LinkRows!Locator(x1.locator) \in LinkRows!Keys /\ LinkRows!Link(x1.id) \in LinkRows!Keys
        BY <4>5, LinkKeys
      <4>8. x1.id \notin x7 => /\ \A k : k = LinkRows!Locator(x1.locator) => LinkRowKept(k)'
                               /\ \A k : k = LinkRows!Link(x1.id) => LinkRowKept(k)'
        BY <4>4, <4>6, <4>7
      <4>9. x1.id \notin x7 => LinkRowKept(LinkRows!Locator(x1.locator))' /\ LinkRowKept(LinkRows!Link(x1.id))'
        <5>1. LinkRows!Locator(x1.locator)' = LinkRows!Locator(x1.locator) /\ LinkRows!Link(x1.id)' = LinkRows!Link(x1.id)
          BY <3>1 DEF LinkRows!Locator, LinkRows!Link
        <5> QED
          BY <4>8, <5>1 DEF LinkRowKept, RowLasts, RowToMove
      <4> QED
        BY <1>1, <3>1, <4>1, <4>9 DEF LinkKept
    <3> QED
      BY <2>3, <3>2, <3>3
  <2> QED
    BY <2>11, <2>12, <2>13, <2>14, <2>15 DEF LinkInv
<1> QED
  BY <1>3, <1>4

\* The rows are moved, or but one of them.
LEMMA LinkExtended ==
  ASSUME LinkInv, NEW n \in One, LinkRows!Extend(n)
  PROVE  LinkInv'
<1> DEFINE v == x4[n]
           r == [v EXCEPT !.at = "extended"]
<1>1. /\ v.at = "moved" /\ v \in LinkMoves /\ UNCHANGED <<x1, x3, x5, x6>> /\ x4' = [x4 EXCEPT ![n] = r]
      /\ x1 \in LinkRecs /\ x2 \in [LinkRows!Keys -> LinkItems] /\ x5 \in Nat
      /\ v.read \in LinkRecs /\ v.to \in Nat /\ v.since \in Nat
  BY DEF LinkRows!Extend, LinkInv, LinkTyped, LinkMoves
<1>2. PICK done \in {LinkRows!Moves(n)} \cup {LinkRows!Moves(n) \ {m} : m \in LinkRows!Moves(n)} :
        /\ x2' = [k \in LinkRows!Keys |->
                    LET m == {x \in done : x[1] = k /\ LinkRows!Extendable(x, v.read.id)} IN
                    IF m = {} THEN x2[k] ELSE [x2[k] EXCEPT !.exp = (CHOOSE x \in m : TRUE)[2]]]
        /\ x7' = IF done # LinkRows!Moves(n) /\ v.kind = "times" THEN x7 \cup {v.read.id} ELSE x7
  BY DEF LinkRows!Extend
<1>3. /\ LinkRows!Moves(n) = {<<LinkRows!Locator(v.read.locator), v.to>>, <<LinkRows!Link(v.read.id), v.to>>}
      /\ done \subseteq LinkRows!Moves(n)
  BY <1>2 DEF LinkRows!Moves
<1>4. ASSUME NEW k \in LinkRows!Keys
      PROVE  /\ x2'[k] \in LinkItems /\ x2'[k].rec = x2[k].rec /\ x2'[k].exp >= x2[k].exp
             /\ x2'[k].exp = x2[k].exp \/ x2[k].rec = v.read.id
             /\ <<k, v.to>> \in done /\ x2[k].rec = v.read.id => x2'[k].exp >= v.to
  <2> DEFINE m == {x \in done : x[1] = k /\ LinkRows!Extendable(x, v.read.id)}
             c == CHOOSE x \in m : TRUE
  <2>1. x2'[k] = IF m = {} THEN x2[k] ELSE [x2[k] EXCEPT !.exp = c[2]]
    BY <1>2
  <2>2. x2[k] \in LinkItems /\ x2[k].exp \in Nat
    BY <1>1 DEF LinkItems
  <2>3. CASE m = {}
    <3>1. x2'[k] = x2[k]
      BY <2>1, <2>3
    <3>2. <<k, v.to>> \in done /\ x2[k].rec = v.read.id => ~(x2[k].exp < v.to)
      <4> SUFFICES ASSUME <<k, v.to>> \in done, x2[k].rec = v.read.id PROVE ~(x2[k].exp < v.to)
        OBVIOUS
      <4> DEFINE y == <<k, v.to>>
      <4>1. y \in done /\ y[1] = k /\ y[2] = v.to /\ y \notin m
        BY <2>3
      <4> HIDE DEF y
      <4>2. ~LinkRows!Extendable(y, v.read.id)
        BY <4>1
      <4> QED
        BY <4>1, <4>2 DEF LinkRows!Extendable
    <3>3. x2'[k].exp >= x2[k].exp
      BY <2>2, <3>1
    <3>4. <<k, v.to>> \in done /\ x2[k].rec = v.read.id => x2'[k].exp >= v.to
      BY <1>1, <2>2, <3>1, <3>2
    <3> QED
      BY <2>2, <3>1, <3>3, <3>4
  <2>4. CASE m # {}
    <3>1. c \in m
      BY <2>4
    <3>2. c \in LinkRows!Moves(n) /\ c[1] = k /\ x2[c[1]].rec = v.read.id /\ x2[c[1]].exp < c[2]
      BY <1>3, <3>1 DEF LinkRows!Extendable
    <3> HIDE DEF c, m
    <3>3. c[2] = v.to
      <4>1. c = <<LinkRows!Locator(v.read.locator), v.to>> \/ c = <<LinkRows!Link(v.read.id), v.to>>
        BY <1>3, <3>2
      <4> HIDE DEF v
      <4> QED
        BY <4>1
    <3>4. x2'[k] = [x2[k] EXCEPT !.exp = v.to] /\ x2[k].rec = v.read.id /\ x2[k].exp < v.to
      BY <2>1, <2>4, <3>2, <3>3
    <3>5. x2'[k] \in LinkItems /\ x2'[k].rec = x2[k].rec /\ x2'[k].exp = v.to
      BY <1>1, <2>2, <3>4 DEF LinkItems
    <3> QED
      BY <1>1, <2>2, <3>4, <3>5
  <2> QED
    BY <2>3, <2>4
<1>5. r \in LinkMoves /\ r.at = "extended" /\ r.kind = v.kind /\ r.read = v.read /\ r.to = v.to /\ r.since = v.since
  BY <1>1 DEF LinkMoves
<1> HIDE DEF r
<1>6. x2' \in [LinkRows!Keys -> LinkItems]
  <2>1. x2' = [k \in LinkRows!Keys |-> x2'[k]]
    BY <1>2
  <2> QED
    BY <1>4, <2>1
<1>7. LinkTyped'
  BY <1>1, <1>5, <1>6, OthersMoved DEF LinkInv, LinkTyped
<1>8. x7 \subseteq x7'
  BY <1>2
<1>9. TimesMoved(n) =>
        \/ x1.id \in x7'
        \/ \A k \in LinkRows!Keys : k \in {LinkRows!Locator(x1.locator), LinkRows!Link(x1.id)}
                                     /\ x2[k].rec = x1.id => x2'[k].exp >= x1.expires
  <2> SUFFICES ASSUME TimesMoved(n), x1.id \notin x7', NEW k \in LinkRows!Keys, x2[k].rec = x1.id,
                      k \in {LinkRows!Locator(x1.locator), LinkRows!Link(x1.id)}
               PROVE  x2'[k].exp >= x1.expires
    OBVIOUS
  <2>1. v.kind = "times" /\ v.read.id = x1.id /\ v.to = x1.expires /\ v.read.locator = x1.locator
    BY <1>1 DEF LinkInv, LinkReads, TimesMoved
  <2>2. done = LinkRows!Moves(n)
    BY <1>2, <2>1
  <2>3. <<k, v.to>> \in done
    BY <1>3, <2>1, <2>2
  <2> QED
    BY <1>4, <2>1, <2>3
<1>10. LinkKept'
  <2>1. AttemptMoved(n) => AttemptMoved(n)'
    BY <1>1, <1>5, OthersMoved DEF AttemptMoved
  <2>2. \A m \in One : /\ TimesMoved(m) =>
                            \/ TimesMoved(m)' /\ x4'[m].since = x4[m].since
                            \/ x1.id \in x7'
                            \/ \A k \in LinkRows!Keys : k \in {LinkRows!Locator(x1.locator), LinkRows!Link(x1.id)}
                                                         /\ x2[k].rec = x1.id => x2'[k].exp >= x1.expires
                       /\ AttemptMoved(m) => AttemptMoved(m)'
    BY <1>1, <1>5, <1>9, <2>1, OthersMoved
  <2>3. x5' \in Nat /\ x5' >= x5 /\ x1' = x1
    BY <1>1
  <2>4. \A k \in LinkRows!Keys : x2[k].rec = x1.id /\ x1.id # 0 /\ x2[k].exp >= x5 =>
          x2'[k].rec = x1.id /\ x2'[k].exp >= x2[k].exp
    BY <1>4
  <2> QED
    BY <1>7, <1>8, <2>2, <2>3, <2>4, LinkKeptOn
<1>11. r.read.id = x1.id =>
         /\ r.kind = "times" => r.read.locator = x1.locator
         /\ r.kind = "attempt" /\ x1.state \in {"pending", "registered"} => r.read.state \in {"pending", "registered"}
  BY <1>1, <1>5 DEF LinkInv, LinkReads
<1>12. r.since <= x5 /\ x5 <= r.since + 1
  BY <1>1, <1>5 DEF LinkInv, LinkHours
<1>13. \A k \in LinkRows!Keys : /\ x2'[k].rec = x2[k].rec
                                /\ x2'[k].exp = x2[k].exp \/ (x2[k].rec = v.read.id /\ x2'[k].exp >= x2[k].exp)
  BY <1>4
<1> QED
  BY <1>1, <1>5, <1>6, <1>8, <1>10, <1>11, <1>12, <1>13, MoverGoesOn

\* An attempt's mail has a link of its own.
LEMMA LinkDone ==
  ASSUME LinkInv, NEW n \in One, LinkRows!Done(n)
  PROVE  LinkInv'
<1> DEFINE v == x4[n]
           kq == LinkRows!Notice(v.read.id)
<1>1. /\ v.at = "extended" /\ v \in LinkMoves /\ UNCHANGED <<x1, x3, x5, x6, x7>>
      /\ x4' = [x4 EXCEPT ![n] = LinkRows!NoNotice]
      /\ x1 \in LinkRecs /\ x2 \in [LinkRows!Keys -> LinkItems] /\ x5 \in Nat
      /\ v.read \in LinkRecs /\ v.read.id \in Nat /\ v.read.expires \in Nat
  BY DEF LinkRows!Done, LinkInv, LinkTyped, LinkMoves, LinkRecs
<1>2. x2' = IF v.kind = "attempt" /\ LinkRows!RecoveryActive(v.read)
            THEN [x2 EXCEPT ![kq] = [rec |-> v.read.id,
                    exp |-> LinkRows!Most(@.exp, LinkRows!Most(v.read.expires, x5 + 1))]] ELSE x2
  BY DEF LinkRows!Done
<1>3. \A a, b \in Nat : LinkRows!Most(a, b) \in Nat /\ LinkRows!Most(a, b) >= a /\ LinkRows!Most(a, b) >= b
  BY DEF LinkRows!Most
<1>4. ASSUME NEW k \in LinkRows!Keys
      PROVE  /\ x2'[k] \in LinkItems /\ (k # kq => x2'[k] = x2[k])
             /\ k = kq => x2'[k].exp >= x2[k].exp /\ x2'[k].rec \in {x2[k].rec, v.read.id}
             /\ k = kq /\ v.kind = "attempt" /\ LinkRows!RecoveryActive(v.read) =>
                  x2'[k].rec = v.read.id /\ x2'[k].exp >= v.read.expires
  <2>1. x2[k] \in LinkItems /\ x2[k].exp \in Nat
    BY <1>1 DEF LinkItems
  <2>2. CASE ~(v.kind = "attempt" /\ LinkRows!RecoveryActive(v.read))
    BY <1>2, <2>1, <2>2
  <2>3. CASE v.kind = "attempt" /\ LinkRows!RecoveryActive(v.read) /\ k = kq
    <3> DEFINE e == LinkRows!Most(x2[k].exp, LinkRows!Most(v.read.expires, x5 + 1))
    <3>1. LinkRows!Most(v.read.expires, x5 + 1) \in Nat /\ LinkRows!Most(v.read.expires, x5 + 1) >= v.read.expires
      BY <1>1, <1>3
    <3>2. e \in Nat /\ e >= x2[k].exp /\ e >= v.read.expires
      <4>1. e \in Nat /\ e >= x2[k].exp /\ e >= LinkRows!Most(v.read.expires, x5 + 1)
        BY <1>3, <2>1, <3>1
      <4> HIDE DEF e
      <4> QED
        BY <1>1, <3>1, <4>1
    <3>3. x2'[k] = [rec |-> v.read.id, exp |-> e]
      BY <1>1, <1>2, <2>3
    <3> HIDE DEF e
    <3> QED
      BY <1>1, <2>3, <3>2, <3>3 DEF LinkItems
  <2>4. CASE v.kind = "attempt" /\ LinkRows!RecoveryActive(v.read) /\ k # kq
    BY <1>1, <1>2, <2>1, <2>4
  <2> QED
    BY <2>2, <2>3, <2>4
<1>5. x2' \in [LinkRows!Keys -> LinkItems]
  <2>1. x2' = [k \in LinkRows!Keys |-> x2'[k]]
    BY <1>1, <1>2
  <2> QED
    BY <1>4, <2>1
<1>6. LinkTyped'
  BY <1>1, <1>5, LinkNone, OthersMoved DEF LinkInv, LinkTyped
<1>7. \A l, i : kq # LinkRows!Locator(l) /\ kq # LinkRows!Link(i)
  BY LinkKeys
<1>8. x1.state = "registered" /\ AttemptMoved(n) =>
        \/ x5 >= x1.expires
        \/ x2'[LinkRows!Notice(x1.id)].rec = x1.id /\ x2'[LinkRows!Notice(x1.id)].exp >= x1.expires
  <2> SUFFICES ASSUME x1.state = "registered", AttemptMoved(n), ~(x5 >= x1.expires)
               PROVE  x2'[LinkRows!Notice(x1.id)].rec = x1.id /\ x2'[LinkRows!Notice(x1.id)].exp >= x1.expires
    OBVIOUS
  <2>1. v.kind = "attempt" /\ v.read.id = x1.id /\ v.read.expires = x1.expires
        /\ v.read.state \in {"pending", "registered"}
    BY <1>1 DEF LinkInv, LinkReads, AttemptMoved
  <2>2. LinkRows!RecoveryActive(v.read)
    BY <1>1, <2>1 DEF LinkRows!RecoveryActive, LinkRecs
  <2>3. x1.id \in 1..LinkRecoveries
    BY LinkConstants DEF LinkInv, LinkNumbers, LinkTyped, LinkRecs
  <2>4. kq \in LinkRows!Keys /\ kq = LinkRows!Notice(x1.id)
    BY <2>1, <2>3, LinkKeys
  <2> HIDE DEF kq
  <2> QED
    BY <1>4, <2>1, <2>2, <2>4
<1>9. LinkKept'
  <2>1. ~TimesMoved(n)
    BY <1>1 DEF TimesMoved
  <2>2. \A m \in One : /\ TimesMoved(m) => TimesMoved(m)' /\ x4'[m].since = x4[m].since
                       /\ x1.state = "registered" /\ AttemptMoved(m) =>
                            \/ AttemptMoved(m)' \/ x5 >= x1.expires
                            \/ x2'[LinkRows!Notice(x1.id)].rec = x1.id
                               /\ x2'[LinkRows!Notice(x1.id)].exp >= x1.expires
    BY <1>1, <1>8, <2>1, LinkNone, OthersMoved
  <2>3. x5' \in Nat /\ x5' >= x5 /\ x7 \subseteq x7' /\ x1' = x1
    BY <1>1
  <2>4. \A k \in LinkRows!Keys :
          /\ k \in {LinkRows!Locator(x1.locator), LinkRows!Link(x1.id), LinkRows!Notice(x1.id)}
          /\ x2[k].rec = x1.id /\ x1.id # 0 /\ x2[k].exp >= x5
          => x2'[k].rec = x1.id /\ x2'[k].exp >= x2[k].exp
    <3> SUFFICES ASSUME NEW k \in LinkRows!Keys, x2[k].rec = x1.id,
                        k \in {LinkRows!Locator(x1.locator), LinkRows!Link(x1.id), LinkRows!Notice(x1.id)}
                 PROVE  x2'[k].rec = x1.id /\ x2'[k].exp >= x2[k].exp
      OBVIOUS
    <3>1. x2[k].exp \in Nat
      BY <1>1 DEF LinkItems
    <3>2. CASE k # kq
      BY <1>4, <3>1, <3>2
    <3>3. CASE k = kq
      <4>1. k = LinkRows!Notice(x1.id)
        BY <1>7, <3>3
      <4>2. v.read.id = x1.id
        BY <3>3, <4>1 DEF LinkRows!Notice
      <4> HIDE DEF kq
      <4> QED
        BY <1>4, <3>3, <4>2
    <3> QED
      BY <3>2, <3>3
  <2> QED
    BY <1>6, <2>2, <2>3, <2>4, LinkKeptOn
<1>10. /\ \A k \in LinkRows!Keys : x2'[k].rec = x2[k].rec \/ (x2'[k].rec = x4[n].read.id
                                     /\ \A l, i : k # LinkRows!Locator(l) /\ k # LinkRows!Link(i))
       /\ \A k \in LinkRows!Keys : x2'[k].exp = x2[k].exp \/ (x2[k].rec = x4[n].read.id /\ x2'[k].exp >= x2[k].exp)
                                    \/ \A l, i : k # LinkRows!Locator(l) /\ k # LinkRows!Link(i)
  <2> HIDE DEF kq
  <2> QED
    BY <1>4, <1>7
<1>11. x7 \subseteq x7'
  BY <1>1
<1> QED
  BY <1>1, <1>5, <1>9, <1>10, <1>11, LinkNone, MoverGoesOn

\* An invocation stops: the times are not applied again, the attempt's notice is taken up.
LEMMA LinkStops ==
  ASSUME LinkInv, NEW n \in One, LinkRows!Stops(n)
  PROVE  LinkInv'
<1> DEFINE v == x4[n]
           r == IF v.kind = "times" THEN LinkRows!NoNotice ELSE [v EXCEPT !.at = "read", !.read = x1]
<1>1. /\ v.at \in {"moved", "extended"} /\ v \in LinkMoves /\ UNCHANGED <<x1, x2, x3, x5, x6>>
      /\ x4' = [x4 EXCEPT ![n] = r] /\ x5 = v.since
      /\ x7' = IF v.at = "moved" /\ v.kind = "times" THEN x7 \cup {v.read.id} ELSE x7
      /\ x1 \in LinkRecs /\ x2 \in [LinkRows!Keys -> LinkItems] /\ x5 \in Nat
  BY DEF LinkRows!Stops, LinkInv, LinkTyped
<1>2. \A a \in {"read"}, z \in LinkRecs : [v EXCEPT !.at = a, !.read = z] \in LinkMoves
  BY <1>1 DEF LinkMoves
<1>3. r \in LinkMoves
  BY <1>1, <1>2, LinkNone
<1>4. CASE v.kind = "times"
  <2>1. r = LinkRows!NoNotice
    BY <1>4
  <2> HIDE DEF r
  <2>2. LinkTyped'
    BY <1>1, <1>3, OthersMoved DEF LinkInv, LinkTyped
  <2>3. TimesMoved(n) => x1.id \in x7'
    BY <1>1, <1>4 DEF TimesMoved
  <2>4. ~AttemptMoved(n)
    BY <1>4 DEF AttemptMoved
  <2>5. LinkKept'
    <3>1. \A m \in One : /\ TimesMoved(m) => \/ TimesMoved(m)' /\ x4'[m].since = x4[m].since
                                             \/ x1.id \in x7'
                         /\ AttemptMoved(m) => AttemptMoved(m)'
      BY <1>1, <1>3, <2>3, <2>4, OthersMoved
    <3>2. x5' \in Nat /\ x5' >= x5 /\ x7 \subseteq x7' /\ x1' = x1
      BY <1>1
    <3>3. \A k \in LinkRows!Keys : x2[k].rec = x1.id => x2'[k].rec = x1.id /\ x2'[k].exp >= x2[k].exp
      BY <1>1 DEF LinkItems
    <3> QED
      BY <2>2, <3>1, <3>2, <3>3, LinkKeptOn
  <2>6. x2' \in [LinkRows!Keys -> LinkItems] /\ x7 \subseteq x7'
    BY <1>1
  <2> QED
    BY <1>1, <1>3, <2>1, <2>5, <2>6, LinkNone, MoverGoesOn
<1>5. CASE v.kind = "attempt"
  <2>1. r.at = "read" /\ r.kind = "attempt" /\ r.read = x1 /\ r.since = v.since
    BY <1>1, <1>5 DEF LinkMoves
  <2> HIDE DEF r
  <2>2. LinkTyped'
    BY <1>1, <1>3, OthersMoved DEF LinkInv, LinkTyped
  <2>3. ~TimesMoved(n)
    BY <1>5 DEF TimesMoved
  <2>4. AttemptMoved(n)'
    BY <1>1, <1>3, <2>1, OthersMoved DEF AttemptMoved
  <2>5. LinkKept'
    <3>1. \A m \in One : /\ TimesMoved(m) => TimesMoved(m)' /\ x4'[m].since = x4[m].since
                         /\ AttemptMoved(m) => AttemptMoved(m)'
      BY <1>1, <1>3, <2>3, <2>4, OthersMoved
    <3>2. x5' \in Nat /\ x5' >= x5 /\ x7 \subseteq x7' /\ x1' = x1
      BY <1>1
    <3>3. \A k \in LinkRows!Keys : x2[k].rec = x1.id => x2'[k].rec = x1.id /\ x2'[k].exp >= x2[k].exp
      BY <1>1 DEF LinkItems
    <3> QED
      BY <2>2, <3>1, <3>2, <3>3, LinkKeptOn
  <2>6. x2' \in [LinkRows!Keys -> LinkItems] /\ x7 \subseteq x7' /\ r.since <= x5 /\ x5 <= r.since + 1
    BY <1>1, <2>1
  <2> QED
    BY <1>1, <1>3, <2>1, <2>5, <2>6, MoverGoesOn
<1> QED
  BY <1>1, <1>4, <1>5 DEF LinkMoves

--------------------------------------------------------------------------------
\* The recovery is cancelled or registered.
LEMMA LinkStateSet ==
  ASSUME LinkInv, UNCHANGED <<x2, x3, x4, x5, x6, x7>>, NEW s \in {"registered", "cancelled"},
         x1' = [x1 EXCEPT !.state = s], x1.state \in {"pending", "registered"},
         s = "registered" => x1.state = "pending" /\ x5 < x1.expires
  PROVE  LinkInv'
<1>1. /\ x1 \in LinkRecs /\ x1' \in LinkRecs /\ x1'.id = x1.id /\ x1'.state = s /\ x1'.expires = x1.expires
      /\ x1'.locator = x1.locator /\ x1'.times = x1.times /\ x5 \in Nat /\ x1.expires \in Nat
  BY DEF LinkInv, LinkTyped, LinkRecs
<1>2. LinkTyped' /\ LinkNumbers' /\ LinkHours' /\ LinkWritten' /\ LinkLinks'
  BY <1>1 DEF LinkInv, LinkTyped, LinkNumbers, LinkHours, LinkWritten, LinkLinks
<1>3. LinkReads'
  BY <1>1 DEF LinkInv, LinkReads
<1>4. LinkKept'
  <2>1. s = "registered" /\ x1.id \notin x7 => LinkRowKept(LinkRows!Link(x1.id))
    BY <1>1 DEF LinkInv, LinkKept
  <2>2. LinkRowKept(LinkRows!Link(x1.id)) => LinkRowKept(LinkRows!Link(x1.id))'
    BY <1>1 DEF LinkRowKept, RowLasts, RowToMove, TimesMoved, LinkRows!Link
  <2> QED
    BY <1>1, <2>1, <2>2 DEF LinkKept
<1> QED
  BY <1>2, <1>3, <1>4 DEF LinkInv

LEMMA LinkExpires == ASSUME LinkInv, LinkRows!Expire PROVE LinkInv'
<1>1. /\ UNCHANGED <<x1, x3, x4, x5, x6, x7>> /\ x5 \in Nat /\ x2 \in [LinkRows!Keys -> LinkItems]
      /\ x2' = [k \in LinkRows!Keys |-> IF x2[k].exp < x5 THEN LinkRows!NoRow ELSE x2[k]]
  BY DEF LinkRows!Expire, LinkInv, LinkTyped
<1>2. \A k \in LinkRows!Keys : /\ x2[k].exp \in Nat /\ (x2[k].exp >= x5 => x2'[k] = x2[k])
                               /\ x2'[k].rec \in {0, x2[k].rec}
  BY <1>1, LinkNone DEF LinkItems
<1>3. LinkTyped'
  BY <1>1, LinkNone DEF LinkInv, LinkTyped
<1>4. LinkNumbers' /\ LinkHours' /\ LinkReads'
  BY <1>1 DEF LinkInv, LinkNumbers, LinkHours, LinkReads
<1>5. LinkLinks'
  BY <1>2, LinkKeys DEF LinkInv, LinkLinks
<1>6. LinkWritten'
  <2>1. ASSUME NEW q \in Two, x3[q].at \in {"located", "linked"}
        PROVE  /\ x3[q].expires >= x5 /\ LinkRows!Link(x3[q].id) \in LinkRows!Keys
               /\ x3[q].locator \in LinkLocators => LinkRows!Locator(x3[q].locator) \in LinkRows!Keys
    <3>1. /\ x3[q] \in LinkAsks /\ x5 <= x3[q].since + 1 /\ x3[q].expires = x3[q].since + LinkSpan
          /\ x3[q].id \in 1..LinkRecoveries
      BY <2>1, AskHas
    <3>2. x3[q].expires >= x5
      BY <1>1, <3>1, LinkConstants DEF LinkAsks
    <3> QED
      BY <3>1, <3>2, LinkKeys
  <2> QED
    BY <1>1, <1>2, <2>1 DEF LinkInv, LinkWritten
<1>7. LinkKept'
  <2>1. \A m \in One : (TimesMoved(m) => TimesMoved(m)' /\ x4'[m].since = x4[m].since)
                       /\ (AttemptMoved(m) => AttemptMoved(m)')
    BY <1>1 DEF TimesMoved, AttemptMoved
  <2>2. x5' \in Nat /\ x5' >= x5 /\ x7 \subseteq x7' /\ x1' = x1
    BY <1>1
  <2>3. \A k \in LinkRows!Keys : x2[k].rec = x1.id /\ x1.id # 0 /\ x2[k].exp >= x5 =>
          x2'[k].rec = x1.id /\ x2'[k].exp >= x2[k].exp
    BY <1>2
  <2> QED
    BY <1>3, <2>1, <2>2, <2>3, LinkKeptOn
<1> QED
  BY <1>3, <1>4, <1>5, <1>6, <1>7 DEF LinkInv

LEMMA LinkTicks == ASSUME LinkInv, LinkRows!Tick PROVE LinkInv'
<1>1. /\ x5 \in Nat /\ x5' = x5 + 1 /\ UNCHANGED <<x1, x2, x3, x4, x6, x7>>
      /\ \A q \in Two : x3[q].at # "none" => x3[q].since = x5
      /\ \A n \in One : x4[n].at # "none" => x4[n].since = x5
  BY DEF LinkRows!Tick, LinkInv, LinkTyped
<1>2. LinkTyped'
  BY <1>1 DEF LinkInv, LinkTyped
<1>3. LinkNumbers' /\ LinkReads' /\ LinkWritten' /\ LinkLinks'
  BY <1>1 DEF LinkInv, LinkNumbers, LinkReads, LinkWritten, LinkLinks
<1>4. LinkHours'
  BY <1>1 DEF LinkInv, LinkHours
<1>5. LinkKept'
  <2>1. \A m \in One : (TimesMoved(m) => TimesMoved(m)' /\ x4'[m].since = x4[m].since)
                       /\ (AttemptMoved(m) => AttemptMoved(m)')
    BY <1>1 DEF TimesMoved, AttemptMoved
  <2>2. x5' \in Nat /\ x5' >= x5 /\ x7 \subseteq x7' /\ x1' = x1
    BY <1>1
  <2>3. \A k \in LinkRows!Keys : x2[k].rec = x1.id => x2'[k].rec = x1.id /\ x2'[k].exp >= x2[k].exp
    BY <1>1 DEF LinkInv, LinkTyped, LinkItems
  <2> QED
    BY <1>2, <2>1, <2>2, <2>3, LinkKeptOn
<1> QED
  BY <1>2, <1>3, <1>4, <1>5 DEF LinkInv

LEMMA LinkStep == LinkInv /\ [LinkRows!Next]_(LinkRows!vars) => LinkInv'
<1> SUFFICES ASSUME LinkInv, [LinkRows!Next]_(LinkRows!vars) PROVE LinkInv'
  OBVIOUS
<1>1. CASE UNCHANGED LinkRows!vars
  <2>1. UNCHANGED <<x1, x2, x3, x4, x5, x6, x7>>
    BY <1>1 DEF LinkRows!vars
  <2> QED
    BY <2>1 DEF LinkInv, LinkTyped, LinkNumbers, LinkHours, LinkWritten, LinkLinks, LinkReads, LinkKept,
                LinkRowKept, RowLasts, RowToMove, TimesMoved, AttemptMoved
<1>2. CASE LinkRows!CancelByLink \/ LinkRows!CancelElsewhere \/ LinkRows!ClaimByLocator \/ LinkRows!ClaimByScan
  <2>1. /\ UNCHANGED <<x2, x3, x4, x5, x6, x7>> /\ x1.state \in {"pending", "registered"}
        /\ \/ x1' = [x1 EXCEPT !.state = "cancelled"]
           \/ x1' = [x1 EXCEPT !.state = "registered"] /\ x1.state = "pending" /\ x5 < x1.expires
    BY <1>2 DEF LinkRows!CancelByLink, LinkRows!CancelElsewhere, LinkRows!ClaimByLocator,
                LinkRows!ClaimByScan, LinkRows!RecoveryActive
  <2> QED
    BY <2>1, LinkStateSet
<1> QED
  BY <1>1, <1>2, LinkAsked, LinkMinted, LinkMailed, LinkSet, LinkAskFails, LinkReadsOn, LinkMoved,
     LinkExtended, LinkDone, LinkStops, LinkExpires, LinkTicks DEF LinkRows!Next

LEMMA LinkSafe == LinkInv => LinkRows!CancelLinkWorks /\ LinkRows!LocatorWorks
<1> SUFFICES ASSUME LinkInv PROVE LinkRows!CancelLinkWorks /\ LinkRows!LocatorWorks
  OBVIOUS
<1>1. x5 \in Nat /\ x1.expires \in Nat /\ x2 \in [LinkRows!Keys -> LinkItems] /\ x1.id \in Nat
  BY DEF LinkInv, LinkTyped, LinkRecs
<1>2. LinkRows!Quiet => (\A k : LinkRowKept(k) => RowLasts(k)) /\ \A n \in One : ~AttemptMoved(n)
  BY DEF LinkRows!Quiet, LinkRowKept, RowToMove, TimesMoved, AttemptMoved
<1>3. x1.state \in {"pending", "registered"} => x1.id \in 1..LinkRecoveries /\ x1.locator \in LinkLocators
  BY <1>1, LinkConstants DEF LinkInv, LinkNumbers, LinkTyped
<1>4. \A k \in LinkRows!Keys : RowLasts(k) /\ x5 < x1.expires => x2[k].rec = x1.id /\ x2[k].exp > x5
  BY <1>1 DEF RowLasts, LinkItems
<1>5. LinkRows!Quiet => x1.id \notin x7
  BY DEF LinkRows!Quiet
<1>6. LinkRows!CancelLinkWorks
  <2> SUFFICES ASSUME x1.state \in {"pending", "registered"}, x5 < x1.expires, LinkRows!Quiet
               PROVE  \E k \in {LinkRows!Link(x1.id), LinkRows!Notice(x1.id)} : x2[k].rec = x1.id /\ x2[k].exp > x5
    BY DEF LinkRows!CancelLinkWorks, LinkRows!RecoveryActive
  <2>1. x5 <= x1.expires
    BY <1>1
  <2>2. RowLasts(LinkRows!Link(x1.id)) \/ RowLasts(LinkRows!Notice(x1.id))
    BY <1>2, <1>5, <2>1 DEF LinkInv, LinkKept
  <2>3. LinkRows!Link(x1.id) \in LinkRows!Keys /\ LinkRows!Notice(x1.id) \in LinkRows!Keys
    BY <1>3, LinkKeys
  <2> QED
    BY <1>4, <2>2, <2>3
<1>7. LinkRows!LocatorWorks
  <2> SUFFICES ASSUME x1.state = "pending", x5 < x1.expires, LinkRows!Quiet
               PROVE  x2[LinkRows!Locator(x1.locator)].rec = x1.id /\ x2[LinkRows!Locator(x1.locator)].exp > x5
    BY DEF LinkRows!LocatorWorks
  <2>1. x5 <= x1.expires
    BY <1>1
  <2>2. RowLasts(LinkRows!Locator(x1.locator))
    BY <1>2, <1>5, <2>1 DEF LinkInv, LinkKept
  <2>3. LinkRows!Locator(x1.locator) \in LinkRows!Keys
    BY <1>3, LinkKeys
  <2> QED
    BY <1>4, <2>2, <2>3
<1> QED
  BY <1>6, <1>7

--------------------------------------------------------------------------------
(* Signing in (SignIn): session is x3, check x4, lock x5, daily x6, spared *)
(* x7, wrong x8.  An attempt under way counts on the window that it was    *)
(* reserved in; of the day's bound the excess is paid for by a lock that is *)
(* being written, and what is still under way was reserved in the window    *)
(* or, as it began, in the one before.                                      *)
CONSTANTS PinFailures, PinDaily, PinTries, PinRounds, PinWindows  \* wrong PINs in a window, a day, a sign-in

ASSUME EntryAssumption ==
  PinFailures \in Nat \ {0} /\ PinDaily \in Nat /\ PinRounds \in Nat /\ PinWindows \subseteq Nat \ {0}

Entry == INSTANCE SignIn WITH
               Sessions <- Two, Page <- page, Links <- One, MaxFailures <- PinFailures,
               DailyMax <- PinDaily, MaxTries <- PinTries, Rounds <- PinRounds, Windows <- PinWindows,
               row <- x1, link <- x2, session <- x3, check <- x4, lock <- x5, daily <- x6,
               spared <- x7, wrong <- x8

Ats      == {"idle", "add", "put", "get", "compare", "clear", "hit", "long", "right", "wrong"}
Checks   == [at : Ats, right : BOOLEAN, round : Nat, win : {0} \cup PinWindows]
Sittings == [at : {"idle", "define", "pin", "checking", "signed_in", "failed"}, link : One \cup {"none"}, tries : Nat]
Locks    == [count : Nat, win : {0} \cup PinWindows, long : {"no", "today", "before"}]
Going    == {"compare", "hit", "long"}

Matching(w) == {c \in Entry!Callers : x4[c].at = "compare" /\ x4[c].win = w}
Pending  == {c \in Entry!Callers : x4[c].at \in {"compare", "hit"}}
OfThis   == {c \in Pending : x4[c].win = x5.win}
OfLast   == {c \in Pending : x4[c].win # x5.win}
Locking  == {c \in Entry!Callers : x4[c].at = "long"}
Late     == {c \in Locking : x4[c].win # x5.win}

EntryTyped ==
  /\ x2 \in [One -> {"none", "sent", "used", "expired"}] /\ x3 \in [Two -> Sittings]
  /\ x4 \in [Entry!Callers -> Checks] /\ x5 \in Locks /\ x6 \in Nat /\ x7 \in BOOLEAN
  /\ x8 \in [PinWindows -> Nat]
  /\ x5.count <= PinFailures
  /\ x5.count = 0 => x5.win = 0 /\ x5.long = "no"
  /\ x5.long # "no" => x5.win = 0 /\ x5.count = PinFailures
  /\ x5.win = 0 => x5.count \in {0, PinFailures}
  /\ \A c \in Entry!Callers : x4[c].at \in Going => x4[c].win \in PinWindows
EntryLinks ==
  /\ \A s \in Two : x4[s].at # "idle" => x3[s].at # "idle"
  /\ \A s \in Two : x3[s].at # "idle" => x3[s].link \in One /\ x2[x3[s].link] = "used"
  /\ \A s, t \in Two : x3[s].at # "idle" /\ x3[t].at # "idle" /\ x3[s].link = x3[t].link => s = t
EntryCounted == \A w \in PinWindows :
  /\ x8[w] + Cardinality(Matching(w)) <= PinFailures
  /\ x5.win = w => x8[w] + Cardinality(Matching(w)) <= x5.count
EntryDay == ~x7 =>
  /\ x6 + Cardinality(Pending) <= Entry!Most
  /\ x5.long # "today" /\ x6 > PinDaily => Locking # {}
  /\ x5.long = "no" =>
       /\ Cardinality(OfThis) <= x5.count /\ Cardinality(OfLast) <= PinFailures
       /\ x6 > PinDaily => IF Late = {} THEN x6 + Cardinality(OfThis) <= PinDaily + x5.count
                           ELSE x6 + Cardinality(Pending) <= PinDaily + PinFailures + x5.count

EntryInv == EntryTyped /\ EntryLinks /\ EntryCounted /\ EntryDay

LEMMA CallersFinite == IsFiniteSet(Entry!Callers) /\ page \in Entry!Callers /\ Two \subseteq Entry!Callers
BY FS_AddElement, ValuesAssumption, EntryAssumption DEF Entry!Callers

LEMMA Limits ==
  /\ PinFailures \in Nat /\ PinFailures > 0 /\ PinDaily \in Nat /\ PinWindows \subseteq Nat /\ 0 \notin PinWindows
  /\ Entry!Most = PinDaily + 2 * PinFailures
BY EntryAssumption DEF Entry!Most

LEMMA Together ==
  ASSUME NEW S, IsFiniteSet(S), NEW A \in SUBSET S, NEW B \in SUBSET S, NEW C \in SUBSET S, A \subseteq B \cup C
  PROVE  Cardinality(A) <= Cardinality(B) + Cardinality(C)
<1>1. IsFiniteSet(A) /\ IsFiniteSet(B) /\ IsFiniteSet(C)
  BY FS_Subset
<1>2. IsFiniteSet(B \cup C) /\ Cardinality(B \cup C) = Cardinality(B) + Cardinality(C) - Cardinality(B \cap C)
  BY <1>1, FS_Union
<1>3. IsFiniteSet(B \cap C)
  BY <1>1, FS_Intersection
<1>4. Cardinality(A) <= Cardinality(B \cup C)
  BY <1>2, FS_Subset
<1>5. Cardinality(A) \in Nat /\ Cardinality(B) \in Nat /\ Cardinality(C) \in Nat /\ Cardinality(B \cap C) \in Nat
  BY <1>1, <1>3, FS_CardinalityType
<1> QED
  BY <1>2, <1>4, <1>5

LEMMA EntryInit == Entry!Init => EntryInv
<1> SUFFICES ASSUME Entry!Init PROVE EntryInv
  OBVIOUS
<1>1. Entry!NoCheck \in Checks /\ Entry!NoCheck.at = "idle"
  BY DEF Entry!NoCheck, Checks, Ats
<1>2. Entry!NoSession \in Sittings /\ Entry!NoSession.at = "idle"
  BY DEF Entry!NoSession, Sittings
<1>3. Entry!NoLock \in Locks /\ Entry!NoLock.count = 0 /\ Entry!NoLock.win = 0 /\ Entry!NoLock.long = "no"
  BY DEF Entry!NoLock, Locks
<1>4. x2 = [l \in One |-> "none"] /\ x3 = [s \in Two |-> Entry!NoSession] /\ x4 = [c \in Entry!Callers |-> Entry!NoCheck]
      /\ x5 = Entry!NoLock /\ x6 = 0 /\ x7 = FALSE /\ x8 = [w \in PinWindows |-> 0]
  BY DEF Entry!Init
<1>5. x3 \in [Two -> Sittings] /\ x4 \in [Entry!Callers -> Checks] /\ x8 \in [PinWindows -> Nat]
      /\ x2 \in [One -> {"none", "sent", "used", "expired"}]
      /\ (\A c \in Entry!Callers : x4[c].at = "idle") /\ (\A s \in Two : x3[s].at = "idle")
  BY <1>1, <1>2, <1>4
<1>6. EntryTyped
  <2>1. x5 \in Locks /\ x5.count = 0 /\ x5.win = 0 /\ x5.long = "no" /\ x6 \in Nat /\ x7 \in BOOLEAN
    BY <1>3, <1>4
  <2>2. \A c \in Entry!Callers : x4[c].at \notin Going
    BY <1>5 DEF Going
  <2> QED
    BY <1>5, <2>1, <2>2, Limits DEF EntryTyped
<1>7. EntryLinks
  <2>1. \A s \in Two : x4[s].at = "idle" /\ x3[s].at = "idle"
    BY <1>5, CallersFinite
  <2> QED
    BY <2>1 DEF EntryLinks
<1>8. Pending = {} /\ OfThis = {} /\ OfLast = {} /\ \A w \in PinWindows : Matching(w) = {}
  BY <1>5 DEF Pending, OfThis, OfLast, Matching
<1>9. Cardinality({}) = 0
  BY FS_EmptySet
<1>10. EntryCounted
  BY <1>3, <1>4, <1>8, <1>9, Limits DEF EntryCounted
<1>11. EntryDay
  <2>1. x6 = 0 /\ x5.count = 0 /\ Cardinality(Pending) = 0 /\ Cardinality(OfThis) = 0 /\ Cardinality(OfLast) = 0
    BY <1>3, <1>4, <1>8, <1>9
  <2>2. 0 <= Entry!Most /\ ~(0 > PinDaily)
    BY Limits
  <2> QED
    BY <2>1, <2>2, Limits DEF EntryDay
<1> QED
  BY <1>6, <1>7, <1>10, <1>11 DEF EntryInv

\* What is under way stays so: a step of no attempt that is.
LEMMA EntryCalm ==
  ASSUME EntryInv, EntryTyped', UNCHANGED <<x5, x6, x7, x8>>,
         \A c \in Entry!Callers : x4'[c] = x4[c] \/ (x4[c].at \notin Going /\ x4'[c].at \notin Going)
  PROVE  EntryCounted' /\ EntryDay'
<1>1. Pending' = Pending /\ OfThis' = OfThis /\ OfLast' = OfLast /\ Locking' = Locking /\ Late' = Late
  BY DEF Pending, OfThis, OfLast, Locking, Late, Going
<1>2. \A w \in PinWindows : Matching(w)' = Matching(w)
  BY DEF Matching, Going
<1>3. EntryCounted'
  BY <1>2 DEF EntryInv, EntryCounted
<1>4. EntryDay'
  BY <1>1 DEF EntryInv, EntryDay
<1> QED
  BY <1>3, <1>4

\* A link spent stays so, and a sign-in keeps the one it began with.
LEMMA LinksStay ==
  ASSUME EntryInv, EntryTyped', \A l \in One : x2[l] = "used" => x2'[l] = "used",
         \A s \in Two : x3'[s].link = x3[s].link /\ (x3'[s].at # "idle" => x3[s].at # "idle"),
         \A s \in Two : x4'[s].at # "idle" => x3'[s].at # "idle"
  PROVE  EntryLinks'
BY DEF EntryInv, EntryLinks

\* A sign-in goes on: its place and its tries change, its link does not.
LEMMA SitsOn ==
  ASSUME NEW s \in Sittings, NEW a \in {"idle", "define", "pin", "checking", "signed_in", "failed"}
  PROVE  [s EXCEPT !.at = a] \in Sittings /\ [s EXCEPT !.at = a].at = a /\ [s EXCEPT !.at = a].link = s.link
BY DEF Sittings

LEMMA Tried ==
  ASSUME NEW s \in Sittings, NEW n \in Nat
  PROVE  [s EXCEPT !.tries = n] \in Sittings /\ [s EXCEPT !.tries = n].link = s.link
BY DEF Sittings

LEMMA Rounded ==
  ASSUME NEW k \in Checks, NEW n \in Nat
  PROVE  [k EXCEPT !.round = n] \in Checks
BY DEF Checks

\* So does a check, whatever it was.
LEMMA ChecksOn ==
  ASSUME NEW k \in Checks, NEW a \in Ats
  PROVE  /\ [k EXCEPT !.at = a] \in Checks /\ [k EXCEPT !.at = a].at = a /\ [k EXCEPT !.at = a].win = k.win
BY DEF Checks

LEMMA Nothing ==
  /\ Entry!NoCheck \in Checks /\ Entry!NoCheck.at = "idle"
  /\ Entry!NoLock \in Locks /\ Entry!NoLock.count = 0 /\ Entry!NoLock.win = 0 /\ Entry!NoLock.long = "no"
BY DEF Entry!NoCheck, Entry!NoLock, Checks, Locks, Ats

\* The mailed link, and what the account's own changes do: no check and no session moves.
LEMMA EntryQuiet ==
  ASSUME EntryInv, UNCHANGED <<x3, x4, x5, x6, x7, x8>>, x2' \in [One -> {"none", "sent", "used", "expired"}],
         \A l \in One : x2[l] = "used" => x2'[l] = "used"
  PROVE  EntryInv'
<1>1. EntryTyped'
  BY DEF EntryInv, EntryTyped
<1>2. EntryLinks'
  BY <1>1, LinksStay DEF EntryInv, EntryLinks
<1>3. EntryCounted' /\ EntryDay'
  BY <1>1, EntryCalm
<1> QED
  BY <1>1, <1>2, <1>3 DEF EntryInv

LEMMA EntryMail == ASSUME EntryInv, NEW l \in One, Entry!LinkMailed(l) \/ Entry!LinkExpires(l) PROVE EntryInv'
<1>1. UNCHANGED <<x3, x4, x5, x6, x7, x8>>
  BY DEF Entry!LinkMailed, Entry!LinkExpires
<1>2. PICK v \in {"sent", "expired"} : x2' = [x2 EXCEPT ![l] = v] /\ x2[l] # "used"
  BY DEF Entry!LinkMailed, Entry!LinkExpires
<1>3. x2' \in [One -> {"none", "sent", "used", "expired"}] /\ \A m \in One : x2[m] = "used" => x2'[m] = "used"
  BY <1>2 DEF EntryInv, EntryTyped
<1> QED
  BY <1>1, <1>3, EntryQuiet

LEMMA EntryVerify == ASSUME EntryInv, NEW s \in Two, NEW l \in One, Entry!Verify(s, l) PROVE EntryInv'
<1>1. UNCHANGED <<x4, x5, x6, x7, x8>> /\ x3[s].at = "idle" /\ x2[l] = "sent" /\ x2' = [x2 EXCEPT ![l] = "used"]
  BY DEF Entry!Verify, Entry!Unspent
<1>2. PICK r \in Sittings : x3' = [x3 EXCEPT ![s] = r] /\ r.at = "define" /\ r.link = l
  <2> DEFINE r == [Entry!NoSession EXCEPT !.at = "define", !.link = l]
  <2>1. r \in Sittings /\ r.at = "define" /\ r.link = l
    BY DEF Entry!NoSession, Sittings
  <2>2. x3' = [x3 EXCEPT ![s] = r]
    BY DEF Entry!Verify
  <2> HIDE DEF r
  <2> QED
    BY <2>1, <2>2
<1>3. x3' \in [Two -> Sittings] /\ x3'[s] = r /\ \A t \in Two : t # s => x3'[t] = x3[t]
  BY <1>2 DEF EntryInv, EntryTyped
<1>4. EntryTyped'
  BY <1>1, <1>3 DEF EntryInv, EntryTyped
<1>5. \A t \in Two : t # s /\ x3[t].at # "idle" => x3[t].link # l /\ x3[t].link \in One /\ x2'[x3[t].link] = "used"
  BY <1>1 DEF EntryInv, EntryLinks, EntryTyped
<1>6. x2'[l] = "used"
  BY <1>1 DEF EntryInv, EntryTyped
<1>7. EntryLinks'
  <2>1. \A t \in Two : x4'[t].at # "idle" => x3'[t].at # "idle"
    BY <1>1, <1>2, <1>3 DEF EntryInv, EntryLinks
  <2>2. \A t \in Two : x3'[t].at # "idle" => x3'[t].link \in One /\ x2'[x3'[t].link] = "used"
    BY <1>2, <1>3, <1>5, <1>6
  <2>3. \A t, u \in Two : x3'[t].at # "idle" /\ x3'[u].at # "idle" /\ x3'[t].link = x3'[u].link => t = u
    BY <1>2, <1>3, <1>5 DEF EntryInv, EntryLinks
  <2> QED
    BY <2>1, <2>2, <2>3 DEF EntryLinks
<1>8. EntryCounted' /\ EntryDay'
  BY <1>1, <1>4, EntryCalm
<1> QED
  BY <1>4, <1>7, <1>8 DEF EntryInv

\* Checks that are not under way yet, or no more, and their sign-ins.
LEMMA EntryIdle ==
  ASSUME EntryInv, UNCHANGED <<x2, x5, x6, x7, x8>>,
         x4' \in [Entry!Callers -> Checks], x3' \in [Two -> Sittings],
         \A c \in Entry!Callers : x4'[c] = x4[c] \/ (x4[c].at \notin Going /\ x4'[c].at \notin Going),
         \A s \in Two : x3'[s].link = x3[s].link /\ (x3'[s].at # "idle" <=> x3[s].at # "idle"),
         \A s \in Two : x4'[s].at # "idle" => x3'[s].at # "idle"
  PROVE  EntryInv'
<1>1. \A c \in Entry!Callers : x4'[c].at \in Going => x4'[c].win \in PinWindows
  BY DEF EntryInv, EntryTyped
<1>2. EntryTyped'
  BY <1>1 DEF EntryInv, EntryTyped
<1>3. EntryCounted' /\ EntryDay'
  BY <1>2, EntryCalm
<1>4. EntryLinks'
  BY <1>2, LinksStay DEF EntryInv, EntryTyped
<1> QED
  BY <1>2, <1>3, <1>4 DEF EntryInv

LEMMA EntryIdles ==
  ASSUME EntryInv, NEW c \in Entry!Callers, NEW k \in Checks, x4' = [x4 EXCEPT ![c] = k],
         x4[c].at \notin Going, k.at \notin Going, UNCHANGED <<x2, x3, x5, x6, x7, x8>>,
         x4[c].at # "idle" \/ c = page \/ k.at = "idle"
  PROVE  EntryInv'
<1>1. x4' \in [Entry!Callers -> Checks] /\ x4'[c] = k /\ \A d \in Entry!Callers : d # c => x4'[d] = x4[d]
  BY DEF EntryInv, EntryTyped
<1>2. \A s \in Two : x4'[s].at # "idle" => x3'[s].at # "idle"
  BY <1>1, CallersFinite, ValuesAssumption, EntryAssumption DEF EntryInv, EntryLinks
<1> QED
  BY <1>1, <1>2, EntryIdle DEF EntryInv, EntryTyped

LEMMA EntryDefine == ASSUME EntryInv, NEW s \in Two, Entry!Define(s) PROVE EntryInv'
<1>1. UNCHANGED <<x2, x5, x6, x7, x8>> /\ x3[s].at \in {"define", "checking"}
  BY DEF Entry!Define
<1>2. x4' = x4 \/ (x4[s].at \in {"right", "wrong"} /\ x4' = [x4 EXCEPT ![s] = Entry!NoCheck])
  BY DEF Entry!Define
<1>3. /\ x4' \in [Entry!Callers -> Checks]
      /\ \A c \in Entry!Callers : x4'[c] = x4[c] \/ (x4[c].at \notin Going /\ x4'[c].at \notin Going)
      /\ \A c \in Entry!Callers : x4'[c].at # "idle" => x4'[c] = x4[c]
  BY <1>2, Nothing, CallersFinite DEF EntryInv, EntryTyped, Going
<1>4. PICK r \in Sittings : x3' = [x3 EXCEPT ![s] = r] /\ r.at # "idle" /\ r.link = x3[s].link
  <2>1. x3[s] \in Sittings /\ x3[s].tries \in Nat
    BY DEF EntryInv, EntryTyped, Sittings
  <2>2. PICK n \in Nat, a \in {"pin", "signed_in", "failed"} : x3' = [x3 EXCEPT ![s].tries = n, ![s].at = a]
    <3> DEFINE given == x3[s].at = "checking"
               n == x3[s].tries + (IF given THEN 1 ELSE 0)
               a == IF ~x1.active THEN "failed"
                    ELSE IF given THEN IF x4[s].at = "right" THEN "signed_in"
                                       ELSE IF n < PinTries THEN "pin" ELSE "failed"
                    ELSE IF x1.pin THEN "pin" ELSE "signed_in"
    <3>1. n \in Nat /\ a \in {"pin", "signed_in", "failed"}
      BY <2>1
    <3>2. x3' = [x3 EXCEPT ![s].tries = n, ![s].at = a]
      BY DEF Entry!Define
    <3> HIDE DEF n, a
    <3> QED
      BY <3>1, <3>2
  <2> DEFINE q == [x3[s] EXCEPT !.tries = n]
             r == [q EXCEPT !.at = a]
  <2>3. q \in Sittings /\ q.link = x3[s].link
    BY <2>1, <2>2, Tried
  <2> HIDE DEF q
  <2>4. r \in Sittings /\ r.at = a /\ r.link = q.link
    <3>1. a \in {"idle", "define", "pin", "checking", "signed_in", "failed"} /\ q \in Sittings
      BY <2>2, <2>3
    <3> QED
      BY ONLY <3>1, SitsOn, Zenon
  <2>5. x3' = [x3 EXCEPT ![s] = r]
    BY <2>2 DEF EntryInv, EntryTyped, q
  <2> HIDE DEF r
  <2> QED
    BY <2>2, <2>3, <2>4, <2>5
<1>5. /\ x3' \in [Two -> Sittings]
      /\ \A t \in Two : x3'[t].link = x3[t].link /\ (x3'[t].at # "idle" <=> x3[t].at # "idle")
  BY <1>1, <1>4 DEF EntryInv, EntryTyped
<1>6. \A t \in Two : x4'[t].at # "idle" => x3'[t].at # "idle"
  BY <1>3, <1>5, CallersFinite DEF EntryInv, EntryLinks
<1> QED
  BY <1>1, <1>3, <1>5, <1>6, EntryIdle

\* What a check begins with.
LEMMA Begins ==
  ASSUME NEW c \in Entry!Callers, Entry!Begin(c)
  PROVE  x4[c].at = "idle" /\ \E k \in Checks : x4' = [x4 EXCEPT ![c] = k] /\ k.at \notin Going
<1>1. PICK right \in BOOLEAN : x4' = [x4 EXCEPT ![c] = IF x1.pin THEN [Entry!NoCheck EXCEPT !.at = "add", !.right = right]
                                                      ELSE [Entry!NoCheck EXCEPT !.at = "wrong"]]
  BY DEF Entry!Begin
<1> DEFINE j == [Entry!NoCheck EXCEPT !.at = "add", !.right = right]
           k == [Entry!NoCheck EXCEPT !.at = "wrong"]
<1>2. j \in Checks /\ k \in Checks /\ j.at \notin Going /\ k.at \notin Going
  BY DEF Entry!NoCheck, Checks, Ats, Going
<1>3. x4' = [x4 EXCEPT ![c] = IF x1.pin THEN j ELSE k]
  BY <1>1
<1> HIDE DEF j, k
<1>4. x4[c].at = "idle"
  BY DEF Entry!Begin
<1> QED
  BY <1>2, <1>3, <1>4

LEMMA EntryAnswer == ASSUME EntryInv, NEW s \in Two, Entry!AnswerPin(s) PROVE EntryInv'
<1>1. UNCHANGED <<x2, x5, x6, x7, x8>> /\ x3[s].at = "pin" /\ Entry!Begin(s) /\ x3' = [x3 EXCEPT ![s].at = "checking"]
  BY DEF Entry!AnswerPin
<1>2. PICK k \in Checks : x4[s].at = "idle" /\ x4' = [x4 EXCEPT ![s] = k] /\ k.at \notin Going
  BY <1>1, Begins, CallersFinite
<1>3. /\ x4' \in [Entry!Callers -> Checks]
      /\ \A c \in Entry!Callers : x4'[c] = x4[c] \/ (x4[c].at \notin Going /\ x4'[c].at \notin Going)
      /\ \A c \in Entry!Callers : c # s => x4'[c] = x4[c]
  BY <1>2, CallersFinite DEF EntryInv, EntryTyped, Going
<1>4. PICK r \in Sittings : x3' = [x3 EXCEPT ![s] = r] /\ r.at = "checking" /\ r.link = x3[s].link
  <2>1. x3[s] \in Sittings
    BY DEF EntryInv, EntryTyped
  <2>2. [x3[s] EXCEPT !.at = "checking"] \in Sittings /\ [x3[s] EXCEPT !.at = "checking"].at = "checking"
        /\ [x3[s] EXCEPT !.at = "checking"].link = x3[s].link
    BY <2>1 DEF Sittings
  <2> QED
    BY <1>1, <2>2
<1>5. /\ x3' \in [Two -> Sittings] /\ x3'[s].at = "checking"
      /\ \A t \in Two : x3'[t].link = x3[t].link /\ (x3'[t].at # "idle" <=> x3[t].at # "idle")
  BY <1>1, <1>4 DEF EntryInv, EntryTyped
<1>6. \A t \in Two : x4'[t].at # "idle" => x3'[t].at # "idle"
  BY <1>3, <1>5, CallersFinite DEF EntryInv, EntryLinks
<1> QED
  BY <1>1, <1>3, <1>5, <1>6, EntryIdle

LEMMA EntryPage ==
  ASSUME EntryInv, Entry!PagePin \/ Entry!PageRefused \/ \E pin \in BOOLEAN : Entry!PageSets(pin) PROVE EntryInv'
<1>1. UNCHANGED <<x2, x3, x5, x6, x7, x8>>
  BY DEF Entry!PagePin, Entry!PageRefused, Entry!PageSets
<1>2. PICK k \in Checks : x4' = [x4 EXCEPT ![page] = k] /\ x4[page].at \notin Going /\ k.at \notin Going
  <2>1. CASE Entry!PagePin
    BY <2>1, Begins, CallersFinite DEF Entry!PagePin, Going
  <2>2. CASE Entry!PageRefused
    BY <2>2, Nothing DEF Entry!PageRefused, Going
  <2>3. CASE \E pin \in BOOLEAN : Entry!PageSets(pin)
    BY <2>3, Nothing DEF Entry!PageSets, Going
  <2> QED
    BY <2>1, <2>2, <2>3
<1> QED
  BY <1>1, <1>2, CallersFinite, EntryIdles

LEMMA EntryGet == ASSUME EntryInv, NEW c \in Entry!Callers, Entry!GetWindow(c) PROVE EntryInv'
<1>1. UNCHANGED <<x2, x3, x5, x6, x7, x8>> /\ x4[c].at = "get"
  BY DEF Entry!GetWindow
<1>2. PICK k \in Checks : x4' = [x4 EXCEPT ![c] = k] /\ k.at \in {"add", "wrong"}
  <2>1. x4[c] \in Checks /\ x4[c].round + 1 \in Nat
    <3>1. x4[c] \in Checks
      BY DEF EntryInv, EntryTyped
    <3> QED
      BY <3>1 DEF Checks
  <2> DEFINE a == IF x5.count < PinFailures /\ x4[c].round + 1 < PinRounds THEN "add" ELSE "wrong"
             n == x4[c].round + 1
  <2>2. a \in {"add", "wrong"} /\ n \in Nat
    BY <2>1
  <2>3. x4' = [x4 EXCEPT ![c].round = n, ![c].at = a]
    BY DEF Entry!GetWindow
  <2> HIDE DEF a, n
  <2> DEFINE j == [x4[c] EXCEPT !.round = n]
             k == [j EXCEPT !.at = a]
  <2>4. j \in Checks
    BY <2>1, <2>2, Rounded, Zenon
  <2> HIDE DEF j
  <2>5. k \in Checks /\ k.at = a
    <3>1. a \in Ats /\ j \in Checks
      BY <2>2, <2>4 DEF Ats
    <3> QED
      BY ONLY <3>1, ChecksOn, Zenon
  <2>6. x4' = [x4 EXCEPT ![c] = k]
    BY <2>3 DEF EntryInv, EntryTyped, j
  <2> HIDE DEF k
  <2> QED
    BY <2>2, <2>5, <2>6
<1> QED
  BY <1>1, <1>2, EntryIdles DEF Going

LEMMA Parts ==
  ASSUME NEW P \in SUBSET Entry!Callers, NEW Q \in SUBSET P
  PROVE  /\ Cardinality(P) \in Nat /\ Cardinality(Q) \in Nat /\ Cardinality(P \ Q) \in Nat
         /\ Cardinality(P) = Cardinality(Q) + Cardinality(P \ Q)
<1>1. IsFiniteSet(P) /\ IsFiniteSet(Q) /\ IsFiniteSet(P \ Q)
  BY CallersFinite, FS_Subset
<1>2. Cardinality(Q \cup (P \ Q)) = Cardinality(Q) + Cardinality(P \ Q) - Cardinality(Q \cap (P \ Q))
  BY <1>1, FS_Union
<1>3. Q \cup (P \ Q) = P /\ Q \cap (P \ Q) = {}
  OBVIOUS
<1>4. Cardinality(P) \in Nat /\ Cardinality(Q) \in Nat /\ Cardinality(P \ Q) \in Nat
  BY <1>1, FS_CardinalityType
<1>5. Cardinality(Q \cap (P \ Q)) = 0
  BY <1>3, FS_EmptySet
<1>6. Cardinality(P) = Cardinality(Q) + Cardinality(P \ Q) - 0
  BY <1>2, <1>3, <1>5
<1> QED
  BY <1>4, <1>6

\* What is under way was reserved in this window or in the one before.
LEMMA Sizes ==
  /\ Cardinality(Pending) \in Nat /\ Cardinality(OfThis) \in Nat /\ Cardinality(OfLast) \in Nat
  /\ Cardinality(Pending) = Cardinality(OfThis) + Cardinality(OfLast)
<1>1. Pending \in SUBSET Entry!Callers /\ OfThis \in SUBSET Pending /\ OfLast = Pending \ OfThis
  BY DEF Pending, OfThis, OfLast
<1> HIDE DEF Pending, OfThis, OfLast
<1> QED
  BY <1>1, Parts

LEMMA SizesNext ==
  /\ Cardinality(Pending') \in Nat /\ Cardinality(OfThis') \in Nat /\ Cardinality(OfLast') \in Nat
  /\ Cardinality(Pending') = Cardinality(OfThis') + Cardinality(OfLast')
<1>1. Pending' \in SUBSET Entry!Callers /\ OfThis' \in SUBSET Pending' /\ OfLast' = Pending' \ OfThis'
  BY DEF Pending, OfThis, OfLast
<1> QED
  BY <1>1, Parts

\* Outside a long lock the day's bound follows from the rest.
LEMMA DayFrom ==
  ASSUME EntryTyped', x5'.long = "no",
         ~x7' => /\ x6' > PinDaily => Locking' # {}
                 /\ Cardinality(OfThis') <= x5'.count /\ Cardinality(OfLast') <= PinFailures
                 /\ x6' > PinDaily /\ Late' = {} => x6' + Cardinality(OfThis') <= PinDaily + x5'.count
                 /\ x6' > PinDaily /\ Late' # {} => x6' + Cardinality(Pending') <= PinDaily + PinFailures + x5'.count
  PROVE  EntryDay'
<1> SUFFICES ASSUME ~x7' PROVE x6' + Cardinality(Pending') <= Entry!Most
  BY DEF EntryDay
<1>1. x6' \in Nat /\ x5'.count \in Nat /\ x5'.count <= PinFailures
  BY DEF EntryTyped, Locks
<1>2. CASE ~(x6' > PinDaily)
  BY <1>1, <1>2, Limits, SizesNext
<1>3. CASE x6' > PinDaily /\ Late' = {}
  BY <1>1, <1>3, Limits, SizesNext
<1>4. CASE x6' > PinDaily /\ Late' # {}
  BY <1>1, <1>4, Limits, SizesNext
<1> QED
  BY <1>2, <1>3, <1>4

\* In the other direction, what the day's bound says outside a long lock.
LEMMA DayNow ==
  ASSUME EntryInv, x5.long = "no", ~x7
  PROVE  /\ x6 \in Nat /\ x5.count \in Nat /\ x5.count <= PinFailures
         /\ x6 > PinDaily => Locking # {}
         /\ Cardinality(OfThis) <= x5.count /\ Cardinality(OfLast) <= PinFailures
         /\ x6 > PinDaily /\ Late = {} => x6 + Cardinality(OfThis) <= PinDaily + x5.count
         /\ x6 > PinDaily /\ Late # {} => x6 + Cardinality(Pending) <= PinDaily + PinFailures + x5.count
<1>1. x6 \in Nat /\ x5.count \in Nat /\ x5.count <= PinFailures
  BY DEF EntryInv, EntryTyped, Locks
<1>2. EntryDay
  BY DEF EntryInv
<1> QED
  BY <1>1, <1>2 DEF EntryDay

\* A check that goes on, and its sign-in does not.
LEMMA EntryMoves ==
  ASSUME EntryInv, NEW c \in Entry!Callers, NEW k \in Checks, x4' = [x4 EXCEPT ![c] = k], UNCHANGED <<x2, x3>>,
         x4[c].at # "idle", k.at \in Going => k.win \in PinWindows
  PROVE  /\ x4' \in [Entry!Callers -> Checks] /\ x4'[c] = k /\ \A d \in Entry!Callers : d # c => x4'[d] = x4[d]
         /\ \A d \in Entry!Callers : x4'[d].at \in Going => x4'[d].win \in PinWindows
         /\ EntryLinks'
<1>1. x4' \in [Entry!Callers -> Checks] /\ x4'[c] = k /\ \A d \in Entry!Callers : d # c => x4'[d] = x4[d]
  BY DEF EntryInv, EntryTyped
<1>2. \A d \in Entry!Callers : x4'[d].at \in Going => x4'[d].win \in PinWindows
  BY <1>1 DEF EntryInv, EntryTyped
<1>3. \A s \in Two : x4'[s].at # "idle" => x3[s].at # "idle"
  BY <1>1, CallersFinite DEF EntryInv, EntryLinks
<1>4. EntryLinks'
  BY <1>3 DEF EntryInv, EntryLinks
<1> QED
  BY <1>1, <1>2, <1>4

LEMMA EntryAdd == ASSUME EntryInv, NEW c \in Entry!Callers, Entry!Add(c) PROVE EntryInv'
<1>1. x4[c].at = "add" /\ UNCHANGED <<x2, x3, x6, x7, x8>> /\ x4[c] \in Checks
  BY DEF Entry!Add, EntryInv, EntryTyped
<1>2. CASE ~Entry!Room
  <2>1. x4' = [x4 EXCEPT ![c] = [x4[c] EXCEPT !.at = "put"]] /\ x5' = x5
    BY <1>2 DEF Entry!Add
  <2>2. "put" \in Ats
    BY DEF Ats
  <2>3. [x4[c] EXCEPT !.at = "put"] \in Checks /\ [x4[c] EXCEPT !.at = "put"].at = "put"
    BY ONLY <1>1, <2>2, ChecksOn, Zenon
  <2> QED
    BY <1>1, <2>1, <2>3, EntryIdles DEF Going
<1>3. CASE Entry!Room
  <2>1. /\ x5.count \in Nat /\ x5.count # 0 /\ x5.count < PinFailures /\ x5.long = "no" /\ x5.win \in PinWindows
        /\ x5 \in Locks
    BY <1>3, Limits DEF Entry!Room, EntryInv, EntryTyped, Locks
  <2>2. x5' \in Locks /\ x5'.count = x5.count + 1 /\ x5'.win = x5.win /\ x5'.long = "no"
    <3>1. \A n \in Nat : /\ [x5 EXCEPT !.count = n] \in Locks /\ [x5 EXCEPT !.count = n].count = n
                         /\ [x5 EXCEPT !.count = n].win = x5.win /\ [x5 EXCEPT !.count = n].long = x5.long
      BY <2>1 DEF Locks
    <3>2. x5' = [x5 EXCEPT !.count = x5.count + 1] /\ x5.count + 1 \in Nat
      BY <1>3, <2>1 DEF Entry!Add
    <3> QED
      BY <2>1, <3>1, <3>2
  <2>3. PICK k \in Checks : x4' = [x4 EXCEPT ![c] = k] /\ k.at = "compare" /\ k.win = x5.win
    <3> DEFINE k == [x4[c] EXCEPT !.at = "compare", !.win = x5.win]
    <3>1. k \in Checks /\ k.at = "compare" /\ k.win = x5.win
      BY <1>1, <2>1 DEF Checks, Ats
    <3>2. x4' = [x4 EXCEPT ![c] = k]
      BY <1>3 DEF Entry!Add, EntryInv, EntryTyped
    <3> HIDE DEF k
    <3> QED
      BY <3>1, <3>2
  <2>4. /\ x4' \in [Entry!Callers -> Checks] /\ x4'[c] = k /\ \A d \in Entry!Callers : d # c => x4'[d] = x4[d]
        /\ \A d \in Entry!Callers : x4'[d].at \in Going => x4'[d].win \in PinWindows
        /\ EntryLinks'
    BY <1>1, <2>1, <2>3, EntryMoves
  <2>5. EntryTyped'
    BY <1>1, <2>1, <2>2, <2>4, Limits DEF EntryInv, EntryTyped
  <2>6. /\ Pending' \subseteq Pending \cup {c} /\ OfThis' \subseteq OfThis \cup {c} /\ OfLast' \subseteq OfLast
        /\ Locking' = Locking /\ Late' = Late
    BY <1>1, <2>2, <2>3, <2>4 DEF Pending, OfThis, OfLast, Locking, Late
  <2>7. \A w \in PinWindows : /\ Matching(w)' \subseteq Matching(w) \cup {c}
                              /\ w # x5.win => Matching(w)' \subseteq Matching(w)
    BY <2>3, <2>4 DEF Matching
  <2>8. EntryCounted'
    <3> SUFFICES ASSUME NEW w \in PinWindows
        PROVE /\ x8[w] + Cardinality(Matching(w)') <= PinFailures
              /\ x5.win = w => x8[w] + Cardinality(Matching(w)') <= x5.count + 1
      BY <1>1, <2>2 DEF EntryCounted
    <3>1. Matching(w) \in SUBSET Entry!Callers /\ Matching(w)' \in SUBSET Entry!Callers
      BY DEF Matching
    <3>2. /\ Cardinality(Matching(w)) \in Nat /\ Cardinality(Matching(w)') \in Nat
          /\ Cardinality(Matching(w)') <= Cardinality(Matching(w)) + 1
          /\ w # x5.win => Cardinality(Matching(w)') <= Cardinality(Matching(w))
      BY <2>7, <3>1, Counted, CallersFinite
    <3>3. /\ x8[w] \in Nat /\ x8[w] + Cardinality(Matching(w)) <= PinFailures
          /\ x5.win = w => x8[w] + Cardinality(Matching(w)) <= x5.count
      BY DEF EntryInv, EntryTyped, EntryCounted
    <3> QED
      BY <2>1, <3>2, <3>3, Limits
  <2>9. EntryDay'
    <3>1. /\ Pending \in SUBSET Entry!Callers /\ Pending' \in SUBSET Entry!Callers
          /\ OfThis \in SUBSET Entry!Callers /\ OfThis' \in SUBSET Entry!Callers
          /\ OfLast \in SUBSET Entry!Callers /\ OfLast' \in SUBSET Entry!Callers
      BY DEF Pending, OfThis, OfLast
    <3>2. /\ Cardinality(Pending') <= Cardinality(Pending) + 1
          /\ Cardinality(OfThis') <= Cardinality(OfThis) + 1
          /\ Cardinality(OfLast') <= Cardinality(OfLast)
      BY <2>6, <3>1, Counted, CallersFinite
    <3> SUFFICES ASSUME ~x7'
        PROVE  /\ x6 > PinDaily => Locking # {}
               /\ Cardinality(OfThis') <= x5.count + 1 /\ Cardinality(OfLast') <= PinFailures
               /\ x6 > PinDaily /\ Late = {} => x6 + Cardinality(OfThis') <= PinDaily + (x5.count + 1)
               /\ x6 > PinDaily /\ Late # {} => x6 + Cardinality(Pending') <= PinDaily + PinFailures + (x5.count + 1)
      BY <1>1, <2>2, <2>5, <2>6, DayFrom
    <3>3. ~x7
      BY <1>1
    <3> QED
      BY <2>1, <3>2, <3>3, DayNow, Sizes, SizesNext, Limits
  <2> QED
    BY <2>4, <2>5, <2>8, <2>9 DEF EntryInv
<1> QED
  BY <1>2, <1>3

\* A window of the call's own: what is still under way was reserved before it.
LEMMA EntryPut == ASSUME EntryInv, NEW c \in Entry!Callers, Entry!PutWindow(c) PROVE EntryInv'
<1>1. x4[c].at = "put" /\ UNCHANGED <<x2, x3, x6, x7>> /\ x4[c] \in Checks
  BY DEF Entry!PutWindow, EntryInv, EntryTyped
<1>2. CASE ~Entry!NoWindow
  <2>1. x4' = [x4 EXCEPT ![c] = [x4[c] EXCEPT !.at = "get"]] /\ x5' = x5 /\ x8' = x8
    BY <1>2 DEF Entry!PutWindow
  <2>2. "get" \in Ats
    BY DEF Ats
  <2>3. [x4[c] EXCEPT !.at = "get"] \in Checks /\ [x4[c] EXCEPT !.at = "get"].at = "get"
    BY ONLY <1>1, <2>2, ChecksOn, Zenon
  <2> QED
    BY <1>1, <2>1, <2>3, EntryIdles DEF Going
<1>3. CASE Entry!NoWindow
  <2>1. PICK w \in PinWindows : /\ Entry!Fresh(w) /\ x8' = [x8 EXCEPT ![w] = 0]
                                /\ x5' = [count |-> 1, win |-> w, long |-> "no"]
                                /\ x4' = [x4 EXCEPT ![c].at = "compare", ![c].win = w]
    BY <1>3 DEF Entry!PutWindow
  <2>2. x5' \in Locks /\ x5'.count = 1 /\ x5'.win = w /\ x5'.long = "no"
    BY <2>1 DEF Locks
  <2>3. PICK k \in Checks : x4' = [x4 EXCEPT ![c] = k] /\ k.at = "compare" /\ k.win = w
    <3> DEFINE k == [x4[c] EXCEPT !.at = "compare", !.win = w]
    <3>1. k \in Checks /\ k.at = "compare" /\ k.win = w
      BY <1>1 DEF Checks, Ats
    <3>2. x4' = [x4 EXCEPT ![c] = k]
      BY <2>1 DEF EntryInv, EntryTyped
    <3> HIDE DEF k
    <3> QED
      BY <3>1, <3>2
  <2>4. /\ x4' \in [Entry!Callers -> Checks] /\ x4'[c] = k /\ \A d \in Entry!Callers : d # c => x4'[d] = x4[d]
        /\ \A d \in Entry!Callers : x4'[d].at \in Going => x4'[d].win \in PinWindows
        /\ EntryLinks'
    BY <1>1, <2>3, EntryMoves
  <2>5. /\ x8' \in [PinWindows -> Nat] /\ x8'[w] = 0 /\ \A v \in PinWindows : v # w => x8'[v] = x8[v]
        /\ x5.count = 0 /\ x5.win = 0 /\ x5.long = "no" /\ w # 0
    BY <1>3, <2>1, Limits DEF Entry!NoWindow, EntryInv, EntryTyped
  <2>6. EntryTyped'
    BY <1>1, <2>2, <2>4, <2>5, Limits DEF EntryInv, EntryTyped
  <2>7. \A d \in Entry!Callers : x4[d].win # w /\ (x4[d].at \in Going => x4[d].win # 0)
    BY <2>1, Limits DEF Entry!Fresh, EntryInv, EntryTyped
  <2>8. /\ OfThis' \subseteq {c} /\ OfLast' \subseteq OfLast /\ Pending' \subseteq Pending \cup {c}
        /\ Locking' = Locking /\ Late' = Locking /\ Late = Locking
    BY <1>1, <2>2, <2>3, <2>4, <2>5, <2>7 DEF OfThis, OfLast, Pending, Locking, Late, Going
  <2>9. Matching(w)' \subseteq {c} /\ \A v \in PinWindows : v # w => Matching(v)' \subseteq Matching(v)
    BY <2>3, <2>4, <2>7 DEF Matching
  <2>10. IsFiniteSet({c}) /\ Cardinality({c}) = 1
    BY FS_Singleton
  <2>11. EntryCounted'
    <3> SUFFICES ASSUME NEW v \in PinWindows
        PROVE /\ x8'[v] + Cardinality(Matching(v)') <= PinFailures
              /\ w = v => x8'[v] + Cardinality(Matching(v)') <= 1
      BY <2>2 DEF EntryCounted
    <3>1. CASE v = w
      <4>1. Cardinality(Matching(v)') <= 1 /\ Cardinality(Matching(v)') \in Nat
        BY <2>9, <2>10, <3>1, FS_Subset, FS_CardinalityType
      <4> QED
        BY <2>5, <3>1, <4>1, Limits
    <3>2. CASE v # w
      <4>1. Matching(v) \in SUBSET Entry!Callers /\ Matching(v)' \in SUBSET Entry!Callers
        BY DEF Matching
      <4>2. /\ Cardinality(Matching(v)) \in Nat /\ Cardinality(Matching(v)') \in Nat
            /\ Cardinality(Matching(v)') <= Cardinality(Matching(v))
        BY <2>9, <3>2, <4>1, Counted, CallersFinite
      <4>3. x8[v] \in Nat /\ x8[v] + Cardinality(Matching(v)) <= PinFailures
        BY DEF EntryInv, EntryTyped, EntryCounted
      <4> QED
        BY <2>5, <3>2, <4>2, <4>3, Limits
    <3> QED
      BY <3>1, <3>2
  <2>12. EntryDay'
    <3>1. /\ Pending \in SUBSET Entry!Callers /\ Pending' \in SUBSET Entry!Callers
          /\ OfLast \in SUBSET Entry!Callers /\ OfLast' \in SUBSET Entry!Callers
      BY DEF Pending, OfLast
    <3>2. /\ Cardinality(Pending') <= Cardinality(Pending) + 1
          /\ Cardinality(OfLast') <= Cardinality(OfLast)
      BY <2>8, <3>1, Counted, CallersFinite
    <3>3. Cardinality(OfThis') <= 1
      BY <2>8, <2>10, FS_Subset
    <3> SUFFICES ASSUME ~x7'
        PROVE  /\ x6 > PinDaily => Locking # {}
               /\ Cardinality(OfThis') <= 1 /\ Cardinality(OfLast') <= PinFailures
               /\ x6 > PinDaily /\ Locking = {} => x6 + Cardinality(OfThis') <= PinDaily + 1
               /\ x6 > PinDaily /\ Locking # {} => x6 + Cardinality(Pending') <= PinDaily + PinFailures + 1
      BY <1>1, <2>2, <2>6, <2>8, DayFrom
    <3>4. ~x7
      BY <1>1
    <3>5. /\ x6 \in Nat
          /\ x6 > PinDaily => Locking # {}
          /\ Cardinality(OfLast) <= PinFailures
          /\ x6 > PinDaily /\ Locking # {} => x6 + Cardinality(Pending) <= PinDaily + PinFailures + 0
      BY <2>5, <2>8, <3>4, DayNow
    <3> QED
      BY <3>2, <3>3, <3>5, Sizes, SizesNext, Limits
  <2> QED
    BY <2>4, <2>6, <2>11, <2>12 DEF EntryInv
<1> QED
  BY <1>2, <1>3

\* Fewer under way, and nothing else of the counts.
LEMMA EntryFewer ==
  ASSUME EntryInv, EntryTyped', UNCHANGED <<x5, x6, x8>>, ~x7' => ~x7,
         Pending' \subseteq Pending, OfThis' \subseteq OfThis, OfLast' \subseteq OfLast,
         ~x7' => Locking' = Locking /\ Late' = Late, \A w \in PinWindows : Matching(w)' \subseteq Matching(w)
  PROVE  EntryCounted' /\ EntryDay'
<1>1. EntryCounted'
  <2> SUFFICES ASSUME NEW w \in PinWindows
      PROVE /\ x8[w] + Cardinality(Matching(w)') <= PinFailures
            /\ x5.win = w => x8[w] + Cardinality(Matching(w)') <= x5.count
    BY DEF EntryCounted
  <2>1. Matching(w) \in SUBSET Entry!Callers /\ Matching(w)' \in SUBSET Entry!Callers
    BY DEF Matching
  <2>2. /\ Cardinality(Matching(w)) \in Nat /\ Cardinality(Matching(w)') \in Nat
        /\ Cardinality(Matching(w)') <= Cardinality(Matching(w))
    BY <2>1, Counted, CallersFinite
  <2>3. /\ x8[w] \in Nat /\ x8[w] + Cardinality(Matching(w)) <= PinFailures /\ x5.count \in Nat
        /\ x5.win = w => x8[w] + Cardinality(Matching(w)) <= x5.count
    BY DEF EntryInv, EntryTyped, EntryCounted, Locks
  <2> QED
    BY <2>2, <2>3, Limits
<1>2. EntryDay'
  <2>1. /\ Pending \in SUBSET Entry!Callers /\ Pending' \in SUBSET Entry!Callers
        /\ OfThis \in SUBSET Entry!Callers /\ OfThis' \in SUBSET Entry!Callers
        /\ OfLast \in SUBSET Entry!Callers /\ OfLast' \in SUBSET Entry!Callers
    BY DEF Pending, OfThis, OfLast
  <2>2. /\ Cardinality(Pending') <= Cardinality(Pending)
        /\ Cardinality(OfThis') <= Cardinality(OfThis)
        /\ Cardinality(OfLast') <= Cardinality(OfLast)
    BY <2>1, Counted, CallersFinite
  <2>3. CASE x5.long = "no"
    <3> SUFFICES ASSUME ~x7'
        PROVE  /\ x6 > PinDaily => Locking # {}
               /\ Cardinality(OfThis') <= x5.count /\ Cardinality(OfLast') <= PinFailures
               /\ x6 > PinDaily /\ Late = {} => x6 + Cardinality(OfThis') <= PinDaily + x5.count
               /\ x6 > PinDaily /\ Late # {} => x6 + Cardinality(Pending') <= PinDaily + PinFailures + x5.count
      BY <2>3, DayFrom
    <3> QED
      BY <2>2, <2>3, DayNow, Sizes, SizesNext, Limits
  <2>4. CASE x5.long # "no"
    <3> SUFFICES ASSUME ~x7'
        PROVE  x6 + Cardinality(Pending') <= Entry!Most /\ (x5.long # "today" /\ x6 > PinDaily => Locking # {})
      BY <2>4 DEF EntryDay
    <3>1. /\ x6 \in Nat /\ x6 + Cardinality(Pending) <= Entry!Most
          /\ (x5.long # "today" /\ x6 > PinDaily => Locking # {})
      BY DEF EntryInv, EntryTyped, EntryDay
    <3> QED
      BY <2>2, <3>1, Sizes, SizesNext, Limits
  <2> QED
    BY <2>3, <2>4
<1> QED
  BY <1>1, <1>2

LEMMA EntryCompare == ASSUME EntryInv, NEW c \in Entry!Callers, Entry!Compare(c) PROVE EntryInv'
<1>1. x4[c].at = "compare" /\ UNCHANGED <<x2, x3, x5, x6, x7>> /\ x4[c] \in Checks /\ x4[c].win \in PinWindows
  BY DEF Entry!Compare, EntryInv, EntryTyped, Going
<1>2. PICK a \in {"clear", "hit"} : /\ x4' = [x4 EXCEPT ![c] = [x4[c] EXCEPT !.at = a]]
                                    /\ \/ a = "clear" /\ x8' = x8
                                       \/ a = "hit" /\ x8' = [x8 EXCEPT ![x4[c].win] = x8[x4[c].win] + 1]
  BY DEF Entry!Compare
<1>3. a \in Ats
  BY <1>2 DEF Ats
<1> DEFINE k == [x4[c] EXCEPT !.at = a]
           w == x4[c].win
<1>4. k \in Checks /\ k.at = a /\ k.win = w
  BY ONLY <1>1, <1>3, ChecksOn, Zenon
<1>5. x4' = [x4 EXCEPT ![c] = k]
  BY <1>2
<1> HIDE DEF k
<1>6. /\ x4' \in [Entry!Callers -> Checks] /\ x4'[c] = k /\ \A d \in Entry!Callers : d # c => x4'[d] = x4[d]
      /\ \A d \in Entry!Callers : x4'[d].at \in Going => x4'[d].win \in PinWindows
      /\ EntryLinks'
  BY <1>1, <1>4, <1>5, EntryMoves
<1>7. x8' \in [PinWindows -> Nat]
  BY <1>1, <1>2 DEF EntryInv, EntryTyped
<1>8. EntryTyped'
  BY <1>1, <1>6, <1>7 DEF EntryInv, EntryTyped
<1>9. /\ Pending' \subseteq Pending /\ OfThis' \subseteq OfThis /\ OfLast' \subseteq OfLast
      /\ Locking' = Locking /\ Late' = Late /\ \A v \in PinWindows : Matching(v)' \subseteq Matching(v) \ {c}
  BY <1>1, <1>2, <1>4, <1>6 DEF Pending, OfThis, OfLast, Locking, Late, Matching
<1>10. CASE x8' = x8
  BY <1>1, <1>6, <1>8, <1>9, <1>10, EntryFewer DEF EntryInv
<1>11. CASE a = "hit" /\ x8' = [x8 EXCEPT ![w] = x8[w] + 1]
  <2>1. Pending' = Pending /\ OfThis' = OfThis /\ OfLast' = OfLast
    BY <1>1, <1>4, <1>6, <1>11 DEF Pending, OfThis, OfLast
  <2>2. EntryDay'
    BY <1>1, <1>9, <2>1 DEF EntryInv, EntryDay
  <2>3. x8'[w] = x8[w] + 1 /\ \A v \in PinWindows : v # w => x8'[v] = x8[v]
    BY <1>1, <1>11 DEF EntryInv, EntryTyped
  <2>4. EntryCounted'
    <3> SUFFICES ASSUME NEW v \in PinWindows
        PROVE /\ x8'[v] + Cardinality(Matching(v)') <= PinFailures
              /\ x5.win = v => x8'[v] + Cardinality(Matching(v)') <= x5.count
      BY <1>1 DEF EntryCounted
    <3>1. Matching(v) \in SUBSET Entry!Callers /\ Matching(v)' \in SUBSET Entry!Callers /\ c \in Matching(w)
      BY <1>1 DEF Matching
    <3>2. /\ Cardinality(Matching(v)) \in Nat /\ Cardinality(Matching(v)') \in Nat
          /\ Cardinality(Matching(v)') <= Cardinality(Matching(v))
          /\ v = w => Cardinality(Matching(v)') + 1 <= Cardinality(Matching(v))
      BY <1>9, <3>1, Counted, CallersFinite
    <3>3. /\ x8[v] \in Nat /\ x8[v] + Cardinality(Matching(v)) <= PinFailures /\ x5.count \in Nat
          /\ x5.win = v => x8[v] + Cardinality(Matching(v)) <= x5.count
      BY DEF EntryInv, EntryTyped, EntryCounted, Locks
    <3>4. CASE v = w
      BY <2>3, <3>2, <3>3, <3>4, Limits
    <3>5. CASE v # w
      BY <2>3, <3>2, <3>3, <3>5, Limits
    <3> QED
      BY <3>4, <3>5
  <2> QED
    BY <1>6, <1>8, <2>2, <2>4 DEF EntryInv
<1> QED
  BY <1>2, <1>10, <1>11

\* What takes the lock off, by the right PIN or an administrator: the day is not counted on.
LEMMA EntrySpared ==
  ASSUME EntryInv, EntryTyped', EntryLinks', x7', x5' = Entry!NoLock, x8' = x8,
         \A w \in PinWindows : Matching(w)' = Matching(w)
  PROVE  EntryInv'
<1>1. EntryCounted'
  BY Nothing, Limits DEF EntryInv, EntryCounted
<1>2. EntryDay'
  BY DEF EntryDay
<1> QED
  BY <1>1, <1>2 DEF EntryInv

LEMMA EntryClear == ASSUME EntryInv, NEW c \in Entry!Callers, Entry!Clear(c) PROVE EntryInv'
<1>1. /\ x4[c].at = "clear" /\ UNCHANGED <<x2, x3, x6, x8>> /\ x4[c] \in Checks
      /\ x5' = Entry!NoLock /\ x7' = TRUE /\ x4' = [x4 EXCEPT ![c] = [x4[c] EXCEPT !.at = "right"]]
  BY DEF Entry!Clear, EntryInv, EntryTyped
<1>2. "right" \in Ats
  BY DEF Ats
<1> DEFINE k == [x4[c] EXCEPT !.at = "right"]
<1>3. k \in Checks /\ k.at = "right"
  BY ONLY <1>1, <1>2, ChecksOn, Zenon
<1>4. x4' = [x4 EXCEPT ![c] = k]
  BY <1>1
<1> HIDE DEF k
<1>5. /\ x4' \in [Entry!Callers -> Checks] /\ x4'[c] = k /\ \A d \in Entry!Callers : d # c => x4'[d] = x4[d]
      /\ \A d \in Entry!Callers : x4'[d].at \in Going => x4'[d].win \in PinWindows
      /\ EntryLinks'
  BY <1>1, <1>3, <1>4, EntryMoves DEF Going
<1>6. EntryTyped'
  BY <1>1, <1>5, Nothing, Limits DEF EntryInv, EntryTyped
<1>7. \A w \in PinWindows : Matching(w)' = Matching(w)
  BY <1>1, <1>3, <1>5 DEF Matching
<1> QED
  BY <1>1, <1>5, <1>6, <1>7, EntrySpared

LEMMA EntryAdmin == ASSUME EntryInv, Entry!AdminClears PROVE EntryInv'
<1>1. UNCHANGED <<x2, x3, x4, x6, x8>> /\ x5' = Entry!NoLock /\ x7' = TRUE
  BY DEF Entry!AdminClears
<1>2. EntryTyped'
  BY <1>1, Nothing, Limits DEF EntryInv, EntryTyped
<1>3. EntryLinks'
  BY <1>1 DEF EntryInv, EntryLinks
<1>4. \A w \in PinWindows : Matching(w)' = Matching(w)
  BY <1>1 DEF Matching
<1> QED
  BY <1>1, <1>2, <1>3, <1>4, EntrySpared

\* A wrong PIN is added to the day's: it was under way until now, and beyond the day's number it locks.
LEMMA EntryHit == ASSUME EntryInv, NEW c \in Entry!Callers, Entry!HitDay(c) PROVE EntryInv'
<1>1. x4[c].at = "hit" /\ UNCHANGED <<x2, x3, x5, x7, x8>> /\ x4[c] \in Checks /\ x4[c].win \in PinWindows /\ x6 \in Nat
  BY DEF Entry!HitDay, EntryInv, EntryTyped, Going
<1>2. PICK a \in {"long", "wrong"} : /\ x4' = [x4 EXCEPT ![c] = [x4[c] EXCEPT !.at = a]]
                                     /\ x6' > PinDaily => a = "long"
                                     /\ ~(x6' > PinDaily) => a = "wrong"
  BY DEF Entry!HitDay
<1>3. a \in Ats
  BY <1>2 DEF Ats
<1> DEFINE k == [x4[c] EXCEPT !.at = a]
           w == x4[c].win
<1>4. k \in Checks /\ k.at = a /\ k.win = w
  BY ONLY <1>1, <1>3, ChecksOn, Zenon
<1>5. x4' = [x4 EXCEPT ![c] = k]
  BY <1>2
<1> HIDE DEF k
<1>6. /\ x4' \in [Entry!Callers -> Checks] /\ x4'[c] = k /\ \A d \in Entry!Callers : d # c => x4'[d] = x4[d]
      /\ \A d \in Entry!Callers : x4'[d].at \in Going => x4'[d].win \in PinWindows
      /\ EntryLinks'
  BY <1>1, <1>4, <1>5, EntryMoves
<1>7. x6' \in Nat /\ (x6 <= Entry!Most => x6' = x6 + 1)
  BY <1>1, Limits DEF Entry!HitDay
<1>8. EntryTyped'
  BY <1>1, <1>6, <1>7 DEF EntryInv, EntryTyped
<1>9. EntryCounted'
  <2>1. \A v \in PinWindows : Matching(v)' = Matching(v)
    BY <1>1, <1>2, <1>4, <1>6 DEF Matching
  <2> QED
    BY <1>1, <2>1 DEF EntryInv, EntryCounted
<1>10. ASSUME ~x7' PROVE ~x7 /\ x6 + Cardinality(Pending) <= Entry!Most /\ x6' = x6 + 1
  <2>1. ~x7 /\ x6 + Cardinality(Pending) <= Entry!Most
    BY <1>1, <1>10 DEF EntryInv, EntryDay
  <2> QED
    BY <1>1, <1>7, <2>1, Sizes, Limits
<1>11. /\ c \in Pending /\ Pending' \subseteq Pending \ {c} /\ OfThis' \subseteq OfThis /\ OfLast' \subseteq OfLast
       /\ w = x5.win => c \in OfThis /\ OfThis' \subseteq OfThis \ {c}
       /\ w # x5.win => c \in OfLast /\ OfLast' \subseteq OfLast \ {c}
       /\ x6' > PinDaily => c \in Locking' /\ (w # x5.win => c \in Late')
       /\ w = x5.win => Late' = Late
       /\ Late \subseteq Late'
  BY <1>1, <1>2, <1>4, <1>6 DEF Pending, OfThis, OfLast, Locking, Late
<1>12. /\ Pending \in SUBSET Entry!Callers /\ Pending' \in SUBSET Entry!Callers
       /\ OfThis \in SUBSET Entry!Callers /\ OfThis' \in SUBSET Entry!Callers
       /\ OfLast \in SUBSET Entry!Callers /\ OfLast' \in SUBSET Entry!Callers
  BY DEF Pending, OfThis, OfLast
<1>13. /\ Cardinality(Pending') + 1 <= Cardinality(Pending)
       /\ Cardinality(OfThis') <= Cardinality(OfThis) /\ Cardinality(OfLast') <= Cardinality(OfLast)
       /\ w = x5.win => Cardinality(OfThis') + 1 <= Cardinality(OfThis)
       /\ w # x5.win => Cardinality(OfLast') + 1 <= Cardinality(OfLast)
  <2> HIDE DEF w
  <2>1. Cardinality(Pending') + 1 <= Cardinality(Pending)
    BY <1>11, <1>12, Counted, CallersFinite
  <2>2. Cardinality(OfThis') <= Cardinality(OfThis) /\ Cardinality(OfLast') <= Cardinality(OfLast)
    BY <1>11, <1>12, Counted, CallersFinite
  <2>3. w = x5.win => Cardinality(OfThis') + 1 <= Cardinality(OfThis)
    BY <1>11, <1>12, Counted, CallersFinite
  <2>4. w # x5.win => Cardinality(OfLast') + 1 <= Cardinality(OfLast)
    BY <1>11, <1>12, Counted, CallersFinite
  <2> QED
    BY <2>1, <2>2, <2>3, <2>4
<1> HIDE DEF w
<1>14. EntryDay'
  <2>1. CASE x5.long = "no"
    <3> SUFFICES ASSUME ~x7'
        PROVE  /\ x6' > PinDaily => Locking' # {}
               /\ Cardinality(OfThis') <= x5.count /\ Cardinality(OfLast') <= PinFailures
               /\ x6' > PinDaily /\ Late' = {} => x6' + Cardinality(OfThis') <= PinDaily + x5.count
               /\ x6' > PinDaily /\ Late' # {} => x6' + Cardinality(Pending') <= PinDaily + PinFailures + x5.count
      BY <1>1, <1>8, <2>1, DayFrom
    <3>1. ~x7 /\ x6' = x6 + 1
      BY <1>10
    <3>2. /\ x6 \in Nat /\ x5.count \in Nat /\ x5.count <= PinFailures
          /\ Cardinality(OfThis) <= x5.count /\ Cardinality(OfLast) <= PinFailures
          /\ x6 > PinDaily /\ Late = {} => x6 + Cardinality(OfThis) <= PinDaily + x5.count
          /\ x6 > PinDaily /\ Late # {} => x6 + Cardinality(Pending) <= PinDaily + PinFailures + x5.count
      BY <2>1, <3>1, DayNow
    <3>3. Cardinality(OfThis') <= x5.count /\ Cardinality(OfLast') <= PinFailures
      BY <1>13, <3>2, Sizes, SizesNext, Limits
    <3>4. ASSUME x6' > PinDaily, Late' = {} PROVE x6' + Cardinality(OfThis') <= PinDaily + x5.count
      <4>1. w = x5.win /\ Late = {}
        BY <1>11, <3>4
      <4>2. CASE x6 > PinDaily
        BY <1>13, <3>1, <3>2, <4>1, <4>2, Sizes, SizesNext, Limits
      <4>3. CASE ~(x6 > PinDaily)
        BY <1>13, <3>1, <3>2, <4>1, <4>3, Sizes, SizesNext, Limits
      <4> QED
        BY <4>2, <4>3
    <3>5. ASSUME x6' > PinDaily, Late' # {}
          PROVE  x6' + Cardinality(Pending') <= PinDaily + PinFailures + x5.count
      <4>1. CASE x6 > PinDaily /\ Late = {}
        BY <1>13, <3>1, <3>2, <4>1, Sizes, SizesNext, Limits
      <4>2. CASE x6 > PinDaily /\ Late # {}
        BY <1>13, <3>1, <3>2, <4>2, Sizes, SizesNext, Limits
      <4>3. CASE ~(x6 > PinDaily)
        BY <1>13, <3>1, <3>2, <4>3, Sizes, SizesNext, Limits
      <4> QED
        BY <4>1, <4>2, <4>3
    <3> QED
      BY <1>11, <3>3, <3>4, <3>5
  <2>2. CASE x5.long # "no"
    <3> SUFFICES ASSUME ~x7'
        PROVE  x6' + Cardinality(Pending') <= Entry!Most /\ (x6' > PinDaily => Locking' # {})
      BY <1>1, <2>2 DEF EntryDay
    <3> QED
      BY <1>1, <1>10, <1>11, <1>13, Sizes, SizesNext, Limits
  <2> QED
    BY <2>1, <2>2
<1> QED
  BY <1>6, <1>8, <1>9, <1>14 DEF EntryInv

LEMMA EntryLong == ASSUME EntryInv, NEW c \in Entry!Callers, Entry!LongLock(c) PROVE EntryInv'
<1>1. /\ x4[c].at = "long" /\ UNCHANGED <<x2, x3, x6, x7, x8>> /\ x4[c] \in Checks
      /\ x5' = [count |-> PinFailures, win |-> 0, long |-> "today"]
      /\ x4' = [x4 EXCEPT ![c] = [x4[c] EXCEPT !.at = "wrong"]]
  BY DEF Entry!LongLock, EntryInv, EntryTyped
<1>2. "wrong" \in Ats
  BY DEF Ats
<1> DEFINE k == [x4[c] EXCEPT !.at = "wrong"]
<1>3. k \in Checks /\ k.at = "wrong"
  BY ONLY <1>1, <1>2, ChecksOn, Zenon
<1>4. x4' = [x4 EXCEPT ![c] = k]
  BY <1>1
<1> HIDE DEF k
<1>5. /\ x4' \in [Entry!Callers -> Checks] /\ x4'[c] = k /\ \A d \in Entry!Callers : d # c => x4'[d] = x4[d]
      /\ \A d \in Entry!Callers : x4'[d].at \in Going => x4'[d].win \in PinWindows
      /\ EntryLinks'
  BY <1>1, <1>3, <1>4, EntryMoves DEF Going
<1>6. x5' \in Locks /\ x5'.count = PinFailures /\ x5'.win = 0 /\ x5'.long = "today"
  BY <1>1, Limits DEF Locks
<1>7. EntryTyped'
  BY <1>1, <1>5, <1>6, Limits DEF EntryInv, EntryTyped
<1>8. Pending' = Pending /\ \A w \in PinWindows : Matching(w)' = Matching(w) /\ w # 0
  BY <1>1, <1>3, <1>5, Limits DEF Pending, Matching
<1>9. EntryCounted'
  BY <1>1, <1>6, <1>8 DEF EntryInv, EntryCounted
<1>10. EntryDay'
  BY <1>1, <1>6, <1>8 DEF EntryInv, EntryDay
<1> QED
  BY <1>5, <1>7, <1>9, <1>10 DEF EntryInv

LEMMA EntryDies == ASSUME EntryInv, NEW c \in Entry!Callers, Entry!Dies(c) PROVE EntryInv'
<1>1. /\ x4[c].at # "idle" /\ UNCHANGED <<x2, x5, x6, x8>> /\ x4' = [x4 EXCEPT ![c] = Entry!NoCheck]
      /\ x7' = (x7 \/ x4[c].at = "long")
      /\ x3' = IF c \in Two THEN [x3 EXCEPT ![c].at = "failed"] ELSE x3
  BY DEF Entry!Dies
<1>2. x4' \in [Entry!Callers -> Checks] /\ x4'[c].at = "idle" /\ \A d \in Entry!Callers : d # c => x4'[d] = x4[d]
  BY <1>1, Nothing DEF EntryInv, EntryTyped
<1>3. x3' \in [Two -> Sittings] /\ \A s \in Two : x3'[s].link = x3[s].link /\ (x3'[s].at # "idle" <=> x3[s].at # "idle")
  <2>1. CASE c \notin Two
    BY <1>1, <2>1 DEF EntryInv, EntryTyped
  <2>2. CASE c \in Two
    <3>1. x3[c] \in Sittings /\ x3[c].at # "idle"
      BY <1>1, <2>2 DEF EntryInv, EntryTyped, EntryLinks
    <3> DEFINE r == [x3[c] EXCEPT !.at = "failed"]
    <3>2. r \in Sittings /\ r.at = "failed" /\ r.link = x3[c].link
      BY <3>1 DEF Sittings
    <3>3. x3' = [x3 EXCEPT ![c] = r]
      BY <1>1, <2>2
    <3> HIDE DEF r
    <3> QED
      BY <2>2, <3>1, <3>2, <3>3 DEF EntryInv, EntryTyped
  <2> QED
    BY <2>1, <2>2
<1>4. EntryTyped'
  <2>1. x7' \in BOOLEAN
    BY <1>1
  <2>2. \A d \in Entry!Callers : x4'[d].at \in Going => x4'[d].win \in PinWindows
    BY <1>2 DEF EntryInv, EntryTyped, Going
  <2> QED
    BY <1>1, <1>2, <1>3, <2>1, <2>2 DEF EntryInv, EntryTyped
<1>5. EntryLinks'
  <2>1. \A s \in Two : x4'[s].at # "idle" => x3'[s].at # "idle"
    BY <1>2, <1>3, CallersFinite DEF EntryInv, EntryLinks
  <2> QED
    BY <1>1, <1>3, <1>4, <2>1, LinksStay
<1>6. /\ Pending' \subseteq Pending /\ OfThis' \subseteq OfThis /\ OfLast' \subseteq OfLast
      /\ \A v \in PinWindows : Matching(v)' \subseteq Matching(v)
  BY <1>1, <1>2 DEF Pending, OfThis, OfLast, Matching
<1>7. ~x7' => ~x7 /\ x4[c].at # "long"
  BY <1>1
<1>8. ~x7' => Locking' = Locking /\ Late' = Late
  BY <1>1, <1>2, <1>7 DEF Locking, Late
<1> QED
  BY <1>1, <1>4, <1>5, <1>6, <1>7, <1>8, EntryFewer DEF EntryInv

\* A window ends once nothing is under way of another: then what is, is of the one before.
LEMMA EntryEnds == ASSUME EntryInv, Entry!WindowEnds PROVE EntryInv'
<1>1. /\ x5.count # 0 /\ x5.long # "today" /\ x5' = Entry!NoLock /\ UNCHANGED <<x2, x3, x4, x6, x7, x8>>
      /\ \A c \in Entry!Callers : x4[c].at \in Going => x4[c].win = x5.win
  BY DEF Entry!WindowEnds, Entry!Reserved, Going
<1>2. x5'.count = 0 /\ x5'.win = 0 /\ x5'.long = "no" /\ x5' \in Locks
  BY <1>1, Nothing
<1>3. EntryTyped'
  BY <1>1, <1>2, Limits DEF EntryInv, EntryTyped
<1>4. EntryLinks'
  BY <1>1 DEF EntryInv, EntryLinks
<1>5. EntryCounted'
  <2>1. \A w \in PinWindows : Matching(w)' = Matching(w) /\ w # 0
    BY <1>1, Limits DEF Matching
  <2> QED
    BY <1>1, <1>2, <2>1 DEF EntryInv, EntryCounted
<1>6. \A c \in Entry!Callers : x4[c].at \in Going => x4[c].win # 0
  BY Limits DEF EntryInv, EntryTyped
<1>7. /\ OfThis' = {} /\ OfLast' = Pending /\ Pending' = Pending /\ OfThis = Pending
      /\ Locking' = Locking /\ Late' = Locking /\ Late = {}
  BY <1>1, <1>2, <1>6 DEF OfThis, OfLast, Pending, Locking, Late, Going
<1>8. CASE x5.long = "no"
  <2> SUFFICES ASSUME ~x7'
      PROVE  /\ x6 > PinDaily => Locking # {}
             /\ Cardinality({}) <= 0 /\ Cardinality(Pending) <= PinFailures
             /\ x6 > PinDaily /\ Locking = {} => x6 + Cardinality({}) <= PinDaily + 0
             /\ x6 > PinDaily /\ Locking # {} => x6 + Cardinality(Pending) <= PinDaily + PinFailures + 0
    BY <1>1, <1>2, <1>3, <1>4, <1>5, <1>7, DayFrom DEF EntryInv
  <2>1. ~x7
    BY <1>1
  <2>2. /\ x6 \in Nat /\ x5.count \in Nat /\ x5.count <= PinFailures
        /\ x6 > PinDaily => Locking # {}
        /\ Cardinality(Pending) <= x5.count
        /\ x6 > PinDaily => x6 + Cardinality(Pending) <= PinDaily + x5.count
    BY <1>7, <1>8, <2>1, DayNow
  <2>3. Cardinality({}) = 0
    BY FS_EmptySet
  <2> QED
    BY <2>2, <2>3, Sizes, Limits
<1>9. CASE x5.long = "before"
  <2>1. x5.win = 0
    BY <1>9 DEF EntryInv, EntryTyped
  <2>2. Pending = {} /\ Locking = {}
    BY <1>1, <1>6, <2>1 DEF Pending, Locking, Going
  <2> SUFFICES ASSUME ~x7'
      PROVE  ~(x6 > PinDaily) /\ Cardinality({}) <= 0 /\ Cardinality({}) <= PinFailures
    BY <1>1, <1>2, <1>3, <1>4, <1>5, <1>7, <2>2, DayFrom DEF EntryInv
  <2>3. ~(x6 > PinDaily)
    BY <1>1, <1>9, <2>2 DEF EntryInv, EntryDay
  <2>4. Cardinality({}) = 0
    BY FS_EmptySet
  <2> QED
    BY <2>3, <2>4, Limits
<1> QED
  BY <1>1, <1>8, <1>9 DEF EntryInv, EntryTyped, Locks

LEMMA EntryDayEnds == ASSUME EntryInv, Entry!DayEnds PROVE EntryInv'
<1>1. /\ x6' = 0 /\ UNCHANGED <<x2, x3, x4, x8>> /\ x7' = (x7 /\ \E c \in Entry!Callers : Entry!Reserved(c))
      /\ x5' = IF x5.long = "today" THEN [x5 EXCEPT !.long = "before"] ELSE x5
  BY DEF Entry!DayEnds
<1>2. x5 \in Locks /\ x6 \in Nat
  BY DEF EntryInv, EntryTyped
<1>3. /\ x5' \in Locks /\ x5'.count = x5.count /\ x5'.win = x5.win
      /\ x5.long = "no" => x5'.long = "no"
      /\ x5.long # "no" => x5'.long = "before"
  BY <1>1, <1>2 DEF Locks
<1>4. EntryTyped'
  <2>1. x6' \in Nat /\ x7' \in BOOLEAN
    BY <1>1
  <2> QED
    BY <1>1, <1>3, <2>1 DEF EntryInv, EntryTyped
<1>5. EntryLinks'
  BY <1>1 DEF EntryInv, EntryLinks
<1>6. \A w \in PinWindows : Matching(w)' = Matching(w)
  BY <1>1 DEF Matching
<1>7. EntryCounted'
  BY <1>1, <1>3, <1>6 DEF EntryInv, EntryCounted
<1>8. Pending' = Pending /\ OfThis' = OfThis /\ OfLast' = OfLast
  BY <1>1, <1>3 DEF Pending, OfThis, OfLast
<1>9. ~(x6' > PinDaily)
  BY <1>1, Limits
<1>10. EntryDay'
  <2> SUFFICES ASSUME ~x7'
      PROVE  /\ 0 + Cardinality(Pending) <= Entry!Most
             /\ x5'.long = "no" => Cardinality(OfThis) <= x5.count /\ Cardinality(OfLast) <= PinFailures
    BY <1>1, <1>3, <1>8, <1>9 DEF EntryDay
  <2>1. CASE ~x7
    <3>1. x6 + Cardinality(Pending) <= Entry!Most
      BY <2>1 DEF EntryInv, EntryDay
    <3>2. x5'.long = "no" => x5.long = "no"
      BY <1>3
    <3>3. x5.long = "no" => Cardinality(OfThis) <= x5.count /\ Cardinality(OfLast) <= PinFailures
      BY <2>1, DayNow
    <3> QED
      BY <1>2, <3>1, <3>2, <3>3, Sizes, Limits
  <2>2. CASE x7
    <3>1. \A c \in Entry!Callers : ~Entry!Reserved(c)
      BY <1>1, <2>2
    <3>2. Pending = {} /\ OfThis = {} /\ OfLast = {}
      BY <3>1 DEF Entry!Reserved, Pending, OfThis, OfLast
    <3>3. Cardinality({}) = 0 /\ x5.count \in Nat
      BY <1>2, FS_EmptySet DEF Locks
    <3> QED
      BY <3>2, <3>3, Limits
  <2> QED
    BY <2>1, <2>2
<1> QED
  BY <1>4, <1>5, <1>7, <1>10 DEF EntryInv

LEMMA EntryStep == EntryInv /\ [Entry!Next]_Entry!vars => EntryInv'
<1> SUFFICES ASSUME EntryInv, [Entry!Next]_Entry!vars PROVE EntryInv'
  OBVIOUS
<1>1. CASE Entry!Stops
  <2>1. UNCHANGED <<x2, x3, x4, x5, x6, x7, x8>> /\ x2 \in [One -> {"none", "sent", "used", "expired"}]
    BY <1>1 DEF Entry!Stops, EntryInv, EntryTyped
  <2> QED
    BY <2>1, EntryQuiet
<1>2. CASE UNCHANGED Entry!vars
  <2>1. UNCHANGED <<x2, x3, x4, x5, x6, x7, x8>> /\ x2 \in [One -> {"none", "sent", "used", "expired"}]
    BY <1>2 DEF Entry!vars, EntryInv, EntryTyped
  <2> QED
    BY <2>1, EntryQuiet
<1>3. ASSUME NEW c \in Entry!Callers, Entry!CheckNext(c) PROVE EntryInv'
  BY <1>3, EntryAdd, EntryPut, EntryGet, EntryCompare, EntryClear, EntryHit, EntryLong, EntryDies DEF Entry!CheckNext
<1> QED
  BY <1>1, <1>2, <1>3, EntryMail, EntryVerify, EntryDefine, EntryAnswer, EntryPage, EntryAdmin, EntryEnds, EntryDayEnds
  DEF Entry!Next

LEMMA EntrySafe == EntryInv => Entry!GuessesBounded /\ Entry!LinkOnce
<1> SUFFICES ASSUME EntryInv PROVE Entry!GuessesBounded /\ Entry!LinkOnce
  OBVIOUS
<1>1. Entry!LinkOnce
  BY DEF Entry!LinkOnce, EntryInv, EntryLinks
<1>2. \A w \in PinWindows : x8[w] <= PinFailures
  <2> TAKE w \in PinWindows
  <2>1. Matching(w) \in SUBSET Entry!Callers
    BY DEF Matching
  <2>2. Cardinality(Matching(w)) \in Nat
    BY <2>1, Parts
  <2>3. x8[w] \in Nat /\ x8[w] + Cardinality(Matching(w)) <= PinFailures
    BY DEF EntryInv, EntryTyped, EntryCounted
  <2> QED
    BY <2>2, <2>3, Limits
<1>3. ~x7 => x6 <= Entry!Most
  <2> SUFFICES ASSUME ~x7 PROVE x6 <= Entry!Most
    OBVIOUS
  <2>1. x6 \in Nat /\ x6 + Cardinality(Pending) <= Entry!Most
    BY DEF EntryInv, EntryTyped, EntryDay
  <2> QED
    BY <2>1, Sizes, Limits
<1> QED
  BY <1>1, <1>2, <1>3 DEF Entry!GuessesBounded

--------------------------------------------------------------------------------
(* The daily notices of a release (ReleaseNotice): left is x1, sealed x4,  *)
(* claimed x5, run x6, mails x7, log x9.  What a run holds is due on its   *)
(* day; what was mailed is claimed as long as it can be due, and the       *)
(* member that a run mails is claimed by that run alone.                   *)
CONSTANTS NoticeDays, NoticeStart, NoticeEnd,                  \* the days before a release ends when its members are told
          EndedGrace, UrgentDays, MarkerDays                   \* days: after its end, of the urgent tone, of a marker

ASSUME NoticesAssumption ==
  /\ NoticeDays \subseteq Nat \ {0} /\ NoticeStart \in Nat /\ NoticeEnd \in Nat /\ UrgentDays \in Nat
  /\ EndedGrace \in Nat /\ MarkerDays \in Nat /\ EndedGrace < MarkerDays

Notices == INSTANCE ReleaseNotice WITH
               Members <- One, Runs <- Two, Milestones <- NoticeDays, FirstDay <- NoticeStart, Grace <- EndedGrace,
               UrgentDays <- UrgentDays, Marker <- MarkerDays, LastDay <- NoticeEnd, MaxFaults <- 1,
               left <- x1, status <- x2, rescue <- x3, sealed <- x4, claimed <- x5, run <- x6,
               mails <- x7, faults <- x8, log <- x9

RunStates == [at : {"idle", "list", "next", "mail", "release"}, due : SUBSET Notices!Kinds, kind : Notices!Kinds,
              todo : SUBSET One, member : One \cup {"none"}]

DueOn(k) ==
  \/ /\ k \in NoticeDays /\ x1 > 0 /\ x1 <= k
     /\ \A d \in NoticeDays : x1 <= d => k <= d
  \/ k = 0 /\ x1 <= 0 /\ -x1 <= EndedGrace
  \/ k = -1 /\ x9.age >= 0 /\ x9.age <= UrgentDays
Came(k) == IF k = -1 THEN x9.age >= 0 ELSE IF k = 0 THEN x1 <= 0 ELSE x1 <= k
Holds(r, m, k) == x6[r].at \in {"mail", "release"} /\ x6[r].member = m /\ x6[r].kind = k

NoticeTyped ==
  /\ x1 \in Int /\ x9 \in [age : Int, listed : BOOLEAN] /\ x9.age >= -1
  /\ x4 \in SUBSET One /\ x5 \in SUBSET (One \X Notices!Kinds)
  /\ x6 \in [Two -> RunStates] /\ x7 \in [One -> Seq(Notices!Kinds)]
NoticeRuns == \A r \in Two :
  /\ x6[r].at # "idle" => \A k \in x6[r].due : DueOn(k)
  /\ x6[r].at \in {"next", "mail", "release"} => DueOn(x6[r].kind)
  /\ x6[r].at \in {"mail", "release"} => x6[r].member \in One
NoticeClaims == \A r \in Two, m \in One, k \in Notices!Kinds : Holds(r, m, k) =>
  /\ <<m, k>> \in x5 /\ \A i \in 1..Len(x7[m]) : x7[m][i] # k
  /\ \A q \in Two : Holds(q, m, k) => q = r
NoticeMailed == \A m \in One : \A i \in 1..Len(x7[m]) :
  Came(x7[m][i]) /\ (<<m, x7[m][i]>> \in x5 \/ Notices!Expired(x7[m][i]))

NoticeInv == NoticeTyped /\ NoticeRuns /\ NoticeClaims /\ NoticeMailed /\ Notices!NoticesCountDown

LEMMA KindFacts ==
  /\ \A k \in Notices!Kinds : k \in Int /\ (k = -1 \/ k = 0 \/ (k \in NoticeDays /\ k > 0))
  /\ \A k \in NoticeDays : k \in Notices!Kinds /\ k \in Nat /\ k > 0
  /\ 0 \in Notices!Kinds /\ -1 \in Notices!Kinds /\ Notices!Urgent = -1 /\ Notices!Ended = 0
  /\ EndedGrace \in Nat /\ MarkerDays \in Nat /\ EndedGrace < MarkerDays /\ UrgentDays \in Nat
BY NoticesAssumption DEF Notices!Kinds, Notices!Urgent, Notices!Ended

\* On one day one notice of the release's end is due at most.
LEMMA OneEndNotice ==
  ASSUME NoticeTyped, NEW j \in Notices!Kinds, NEW k \in Notices!Kinds, DueOn(j), DueOn(k), j # -1, k # -1
  PROVE  j = k
BY KindFacts DEF DueOn, NoticeTyped

\* The latest of a run's notices is there.
LEMMA LatestDue ==
  ASSUME NoticeTyped, NEW S \in SUBSET Notices!Kinds, S # {}, \A k \in S : DueOn(k)
  PROVE  Notices!Max(S) \in S
<1>1. \E x \in S : \A y \in S : x >= y
  <2>1. CASE \E k \in S : k # -1
    <3>1. PICK k \in S : k # -1
      BY <2>1
    <3>2. \A y \in S : y = -1 \/ y = k
      BY <3>1, OneEndNotice
    <3> QED
      BY <3>1, <3>2, KindFacts
  <2>2. CASE \A k \in S : k = -1
    BY <2>2
  <2> QED
    BY <2>1, <2>2
<1> QED
  BY <1>1 DEF Notices!Max

\* The earliest of the days that have come is there.
LEMMA EarliestDay ==
  ASSUME NEW S \in SUBSET NoticeDays, S # {}
  PROVE  Notices!Min(S) \in S /\ \A d \in S : Notices!Min(S) <= d
<1>1. S \subseteq Nat
  BY KindFacts
<1>2. PICK x \in S : \A y \in S : ~(<<y, x>> \in OpToRel(<, Nat))
  BY <1>1, NatLessThanWellFounded, WFMin
<1>3. \A y \in S : x <= y
  <2> SUFFICES ASSUME NEW y \in S, y < x PROVE FALSE
    BY <1>1
  <2>1. <<y, x>> \in Nat \X Nat /\ <<y, x>>[1] < <<y, x>>[2]
    BY <1>1
  <2>2. <<y, x>> \in OpToRel(<, Nat)
    BY <2>1 DEF OpToRel
  <2> QED
    BY <1>2, <2>2
<1> QED
  BY <1>3 DEF Notices!Min

LEMMA NoticeInit == Notices!Init => NoticeInv
<1> SUFFICES ASSUME Notices!Init PROVE NoticeInv
  OBVIOUS
<1>1. x1 \in Int /\ x9 = [age |-> -1, listed |-> TRUE] /\ x4 = One /\ x5 = {}
      /\ x6 = [r \in Two |-> Notices!Idle] /\ x7 = [m \in One |-> <<>>]
  BY NoticesAssumption DEF Notices!Init
<1>2. Notices!Idle \in RunStates /\ Notices!Idle.at = "idle"
  BY KindFacts DEF Notices!Idle, RunStates
<1>3. x9 \in [age : Int, listed : BOOLEAN] /\ x9.age >= -1
  BY <1>1
<1>4. x6 \in [Two -> RunStates] /\ \A r \in Two : x6[r].at = "idle"
  BY <1>1, <1>2
<1>5. x7 \in [One -> Seq(Notices!Kinds)] /\ \A m \in One : Len(x7[m]) = 0
  BY <1>1
<1>6. NoticeTyped
  BY <1>1, <1>3, <1>4, <1>5 DEF NoticeTyped
<1>7. NoticeRuns /\ NoticeClaims
  BY <1>4 DEF NoticeRuns, NoticeClaims, Holds
<1>8. NoticeMailed /\ Notices!NoticesCountDown
  BY <1>5 DEF NoticeMailed, Notices!NoticesCountDown
<1> QED
  BY <1>6, <1>7, <1>8 DEF NoticeInv

\* When a marker may be gone.
LEMMA Gone ==
  ASSUME NEW k \in Int
  PROVE  /\ k = -1 => (Notices!Expired(k) <=> x9.age >= UrgentDays + MarkerDays)
         /\ k # -1 => (Notices!Expired(k) <=> -x1 >= MarkerDays)
BY DEF Notices!Expired, Notices!Urgent

LEMMA GoneNext ==
  ASSUME NEW k \in Int
  PROVE  /\ k = -1 => (Notices!Expired(k)' <=> x9'.age >= UrgentDays + MarkerDays)
         /\ k # -1 => (Notices!Expired(k)' <=> -x1' >= MarkerDays)
BY DEF Notices!Expired, Notices!Urgent

\* What has come stays so, and a marker that is gone is not needed again, as the days go by.
LEMMA DaysGo ==
  ASSUME NoticeTyped, x1' \in Int, x9'.age \in Int, x1' <= x1, x9'.age >= x9.age, NEW k \in Notices!Kinds
  PROVE  (Came(k) => Came(k)') /\ (Notices!Expired(k) => Notices!Expired(k)')
<1>1. x1 \in Int /\ x9.age \in Int /\ k \in Int
  BY KindFacts DEF NoticeTyped
<1>2. Came(k) => Came(k)'
  BY <1>1 DEF Came
<1>3. x9.age >= UrgentDays + MarkerDays => x9'.age >= UrgentDays + MarkerDays
  BY <1>1, KindFacts
<1>4. -x1 >= MarkerDays => -x1' >= MarkerDays
  <2>1. \A a, b \in Int : b <= a /\ -a >= MarkerDays => -b >= MarkerDays
    BY KindFacts
  <2> QED
    BY <1>1, <2>1
<1> QED
  BY <1>1, <1>2, <1>3, <1>4, Gone, GoneNext

\* A notice that is due is not one whose marker may be gone.
LEMMA DueNotGone ==
  ASSUME NoticeTyped, NEW k \in Notices!Kinds, DueOn(k)
  PROVE  Came(k) /\ ~Notices!Expired(k)
BY KindFacts DEF Came, DueOn, Notices!Expired, NoticeTyped

LEMMA SameDay ==
  ASSUME UNCHANGED <<x1, x9>>, NEW k
  PROVE  (DueOn(k)' <=> DueOn(k)) /\ (Came(k)' <=> Came(k)) /\ (Notices!Expired(k)' <=> Notices!Expired(k))
<1>1. DueOn(k)' <=> DueOn(k)
  BY DEF DueOn
<1>2. Came(k)' <=> Came(k)
  BY DEF Came
<1>3. Notices!Expired(k)' <=> Notices!Expired(k)
  BY DEF Notices!Expired
<1> QED
  BY <1>1, <1>2, <1>3

LEMMA MailKinds ==
  ASSUME NoticeTyped, NEW m \in One, NEW i \in 1..Len(x7[m])
  PROVE  x7[m][i] \in Notices!Kinds
BY DEF NoticeTyped

\* What moves a release, a vault or the log's entry, and no run.
LEMMA NoticeQuiet ==
  ASSUME NoticeInv, x1' = x1, UNCHANGED <<x5, x6, x7>>, x4' \in SUBSET One,
         x9' \in [age : Int, listed : BOOLEAN], x9'.age >= -1,
         x9'.age = x9.age \/ (x9.age = -1 /\ x9'.age = 0)
  PROVE  NoticeInv'
<1>1. NoticeTyped'
  BY DEF NoticeInv, NoticeTyped
<1>2. \A k \in Notices!Kinds : DueOn(k) => DueOn(k)'
  <2> SUFFICES ASSUME NEW k \in Notices!Kinds, DueOn(k) PROVE DueOn(k)'
    OBVIOUS
  <2>1. CASE k = -1 /\ x9.age >= 0 /\ x9.age <= UrgentDays
    <3>1. x9'.age = x9.age
      BY <2>1
    <3> QED
      BY <2>1, <3>1 DEF DueOn
  <2>2. CASE \/ k \in NoticeDays /\ x1 > 0 /\ x1 <= k /\ \A d \in NoticeDays : x1 <= d => k <= d
             \/ k = 0 /\ x1 <= 0 /\ -x1 <= EndedGrace
    BY <2>2 DEF DueOn
  <2> QED
    BY <2>1, <2>2 DEF DueOn
<1>3. NoticeRuns'
  BY <1>2 DEF NoticeInv, NoticeRuns, NoticeTyped, RunStates
<1>4. NoticeClaims'
  BY DEF NoticeInv, NoticeClaims, Holds
<1>5. \A k \in Notices!Kinds : (Came(k) => Came(k)') /\ (Notices!Expired(k) => Notices!Expired(k)')
  BY DaysGo DEF NoticeInv, NoticeTyped
<1>6. NoticeMailed'
  BY <1>5, MailKinds DEF NoticeInv, NoticeMailed
<1>7. Notices!NoticesCountDown'
  BY DEF NoticeInv, Notices!NoticesCountDown, Notices!Urgent
<1> QED
  BY <1>1, <1>3, <1>4, <1>6, <1>7 DEF NoticeInv

LEMMA NoticeElsewhere ==
  ASSUME NoticeInv, Notices!ReleaseMoves \/ Notices!LogMoves \/ (\E m \in One : Notices!VaultMoves(m)) \/ UNCHANGED Notices!vars
  PROVE  NoticeInv'
<1>1. x1' = x1 /\ UNCHANGED <<x5, x6, x7>> /\ x4' \in SUBSET One
  BY DEF Notices!ReleaseMoves, Notices!LogMoves, Notices!VaultMoves, Notices!vars, NoticeInv, NoticeTyped
<1>2. x9 \in [age : Int, listed : BOOLEAN] /\ x9.age >= -1
  BY DEF NoticeInv, NoticeTyped
<1>3. /\ x9' \in [age : Int, listed : BOOLEAN] /\ x9'.age >= -1
      /\ x9'.age = x9.age \/ (x9.age = -1 /\ x9'.age = 0)
  <2>1. CASE x9' = x9
    BY <1>2, <2>1
  <2>2. CASE x9.age = -1 /\ x9' = [x9 EXCEPT !.age = 0]
    <3>1. \A n \in Int : [x9 EXCEPT !.age = n] \in [age : Int, listed : BOOLEAN] /\ [x9 EXCEPT !.age = n].age = n
      BY <1>2
    <3>2. x9' \in [age : Int, listed : BOOLEAN] /\ x9'.age = 0
      BY <2>2, <3>1
    <3> QED
      BY <2>2, <3>2
  <2>3. CASE x9' = [x9 EXCEPT !.listed = FALSE]
    BY <1>2, <2>3
  <2> QED
    BY <2>1, <2>2, <2>3 DEF Notices!ReleaseMoves, Notices!LogMoves, Notices!VaultMoves, Notices!vars
<1> QED
  BY <1>1, <1>2, <1>3, NoticeQuiet

\* A day begins with no run left over; only markers that may be gone go.
LEMMA NoticeNextDay == ASSUME NoticeInv, Notices!NextDay PROVE NoticeInv'
<1>1. /\ x1' = x1 - 1 /\ (\A r \in Two : x6[r].at = "idle") /\ UNCHANGED <<x4, x6, x7>>
      /\ x5' = x5 \/ x5' = {n \in x5 : ~Notices!Expired(n[2])}
      /\ x9' = x9 \/ (x9.age >= 0 /\ x9' = [x9 EXCEPT !.age = x9.age + 1])
  BY DEF Notices!NextDay
<1>2. x1 \in Int /\ x9 \in [age : Int, listed : BOOLEAN] /\ x9.age >= -1
  BY DEF NoticeInv, NoticeTyped
<1>3. x9' \in [age : Int, listed : BOOLEAN] /\ x9'.age >= x9.age
  <2>1. CASE x9' = x9
    BY <1>2, <2>1
  <2>2. CASE x9' = [x9 EXCEPT !.age = x9.age + 1]
    <3>1. \A n \in Int : [x9 EXCEPT !.age = n] \in [age : Int, listed : BOOLEAN] /\ [x9 EXCEPT !.age = n].age = n
      BY <1>2
    <3>2. x9.age + 1 \in Int /\ x9.age + 1 >= x9.age
      BY <1>2
    <3>3. x9' \in [age : Int, listed : BOOLEAN] /\ x9'.age = x9.age + 1
      BY <2>2, <3>1, <3>2
    <3> QED
      BY <3>2, <3>3
  <2> QED
    BY <1>1, <2>1, <2>2
<1>4. x1' \in Int /\ x1' <= x1 /\ x9'.age \in Int /\ x9.age \in Int /\ x9'.age >= -1
  BY <1>1, <1>2, <1>3
<1>5. NoticeTyped'
  BY <1>1, <1>3, <1>4 DEF NoticeInv, NoticeTyped
<1>6. NoticeRuns' /\ NoticeClaims'
  BY <1>1 DEF NoticeRuns, NoticeClaims, Holds
<1>7. \A k \in Notices!Kinds : (Came(k) => Came(k)') /\ (Notices!Expired(k) => Notices!Expired(k)')
  <2>1. NoticeTyped
    BY DEF NoticeInv
  <2>2. x1' \in Int /\ x9'.age \in Int /\ x1' <= x1 /\ x9'.age >= x9.age
    BY <1>3, <1>4
  <2> QED
    BY ONLY <2>1, <2>2, DaysGo
<1>8. NoticeMailed'
  <2>1. ASSUME NEW m \in One, NEW k \in Notices!Kinds, Came(k), <<m, k>> \in x5 \/ Notices!Expired(k)
        PROVE  Came(k)' /\ (<<m, k>> \in x5' \/ Notices!Expired(k)')
    <3>1. Came(k)' /\ (Notices!Expired(k) => Notices!Expired(k)')
      BY <1>7, <2>1
    <3>2. <<m, k>> \in x5 /\ ~Notices!Expired(k) => <<m, k>> \in x5'
      BY <1>1
    <3> QED
      BY <2>1, <3>1, <3>2
  <2>2. NoticeTyped /\ NoticeMailed
    BY DEF NoticeInv
  <2> QED
    BY <1>1, <2>1, <2>2, MailKinds DEF NoticeMailed
<1>9. Notices!NoticesCountDown'
  BY <1>1 DEF NoticeInv, Notices!NoticesCountDown, Notices!Urgent
<1> QED
  BY <1>5, <1>6, <1>8, <1>9 DEF NoticeInv

\* What moves one run only.
LEMMA RunGoes ==
  ASSUME NoticeInv, NEW r \in Two, NEW k \in RunStates, x6' = [x6 EXCEPT ![r] = k], UNCHANGED <<x1, x4, x5, x7, x9>>,
         k.at # "idle" => \A q \in k.due : DueOn(q),
         k.at \in {"next", "mail", "release"} => DueOn(k.kind),
         k.at \in {"mail", "release"} =>
           x6[r].at \in {"mail", "release"} /\ k.member = x6[r].member /\ k.kind = x6[r].kind
  PROVE  NoticeInv'
<1>1. /\ x6 \in [Two -> RunStates] /\ x6' \in [Two -> RunStates] /\ x6'[r] = k
      /\ \A q \in Two : q # r => x6'[q] = x6[q]
  BY DEF NoticeInv, NoticeTyped
<1>2. NoticeTyped'
  BY <1>1 DEF NoticeInv, NoticeTyped
<1>3. NoticeRuns'
  <2>1. \A q \in Notices!Kinds : DueOn(q)' <=> DueOn(q)
    BY SameDay
  <2>2. \A q \in Two : x6'[q].due \subseteq Notices!Kinds /\ x6'[q].kind \in Notices!Kinds
    BY <1>1 DEF RunStates
  <2>3. /\ x6'[r].at # "idle" => \A q \in x6'[r].due : DueOn(q)
        /\ x6'[r].at \in {"next", "mail", "release"} => DueOn(x6'[r].kind)
        /\ x6'[r].at \in {"mail", "release"} => x6'[r].member \in One
    BY <1>1 DEF NoticeInv, NoticeRuns
  <2>4. \A p \in Two : p # r =>
          /\ x6'[p].at # "idle" => \A q \in x6'[p].due : DueOn(q)
          /\ x6'[p].at \in {"next", "mail", "release"} => DueOn(x6'[p].kind)
          /\ x6'[p].at \in {"mail", "release"} => x6'[p].member \in One
    BY <1>1 DEF NoticeInv, NoticeRuns
  <2>5. \A p \in Two :
          /\ x6'[p].at # "idle" => \A q \in x6'[p].due : DueOn(q)
          /\ x6'[p].at \in {"next", "mail", "release"} => DueOn(x6'[p].kind)
          /\ x6'[p].at \in {"mail", "release"} => x6'[p].member \in One
    BY <2>3, <2>4
  <2> QED
    BY <2>1, <2>2, <2>5 DEF NoticeRuns
<1>4. NoticeClaims'
  <2>1. \A q \in Two, m \in One, n \in Notices!Kinds : Holds(q, m, n)' => Holds(q, m, n)
    BY <1>1 DEF Holds
  <2> QED
    BY <2>1 DEF NoticeInv, NoticeClaims
<1>5. NoticeMailed'
  <2>1. \A n \in Notices!Kinds : (Came(n)' <=> Came(n)) /\ (Notices!Expired(n)' <=> Notices!Expired(n))
    BY SameDay
  <2>2. NoticeTyped /\ NoticeMailed
    BY DEF NoticeInv
  <2> QED
    BY <2>1, <2>2, MailKinds DEF NoticeMailed
<1>6. Notices!NoticesCountDown'
  BY DEF NoticeInv, Notices!NoticesCountDown, Notices!Urgent
<1> QED
  BY <1>2, <1>3, <1>4, <1>5, <1>6 DEF NoticeInv

LEMMA RunTyped ==
  ASSUME NoticeInv, NEW r \in Two
  PROVE  /\ x6[r] \in RunStates /\ (x6[r].at # "idle" => \A k \in x6[r].due : DueOn(k))
         /\ (x6[r].at \in {"next", "mail", "release"} => DueOn(x6[r].kind))
         /\ (x6[r].at \in {"mail", "release"} => x6[r].member \in One)
BY DEF NoticeInv, NoticeTyped, NoticeRuns

LEMMA IdleRun == Notices!Idle \in RunStates /\ Notices!Idle.at = "idle"
BY KindFacts DEF Notices!Idle, RunStates

\* The kinds that an invocation finds due are.
LEMMA FoundDue ==
  ASSUME NoticeInv, NEW u \in Notices!fetchLog, NEW k \in Notices!dueMilestone \cup Notices!UrgentMail(u)
  PROVE  k \in Notices!Kinds /\ DueOn(k)
<1>0. NoticeTyped
  BY DEF NoticeInv
<1>1. CASE k \in Notices!EndingMail
  <2> DEFINE S == {d \in NoticeDays : x1 <= d}
  <2>1. x1 > 0 /\ S # {} /\ k = Notices!Min(S)
    BY <1>1 DEF Notices!EndingMail
  <2>2. S \in SUBSET NoticeDays
    OBVIOUS
  <2>3. k \in S /\ \A d \in S : k <= d
    BY <2>1, <2>2, EarliestDay
  <2> QED
    BY <2>1, <2>3, KindFacts DEF DueOn
<1>2. CASE k \in Notices!EndedMail
  BY <1>2, KindFacts DEF Notices!EndedMail, DueOn
<1>3. CASE k \in Notices!UrgentMail(u)
  <2>1. u /\ k = -1
    BY <1>3, KindFacts DEF Notices!UrgentMail
  <2>2. Notices!urgentReleases
    BY <2>1 DEF Notices!fetchLog
  <2> QED
    BY <1>0, <2>1, <2>2, KindFacts DEF Notices!urgentReleases, DueOn, NoticeTyped
<1> QED
  BY <1>1, <1>2, <1>3 DEF Notices!dueMilestone

LEMMA NoticeBegin == ASSUME NoticeInv, NEW r \in Two, Notices!Begin(r) PROVE NoticeInv'
<1>1. PICK u \in Notices!fetchLog :
        x6' = [x6 EXCEPT ![r] = [Notices!Idle EXCEPT !.at = "list", !.due = Notices!dueMilestone \cup Notices!UrgentMail(u)]]
  BY DEF Notices!Begin
<1>2. UNCHANGED <<x1, x4, x5, x7, x9>>
  BY DEF Notices!Begin
<1> DEFINE D == Notices!dueMilestone \cup Notices!UrgentMail(u)
           k == [Notices!Idle EXCEPT !.at = "list", !.due = D]
<1>3. D \in SUBSET Notices!Kinds /\ \A q \in D : DueOn(q)
  BY FoundDue
<1>4. x6' = [x6 EXCEPT ![r] = k]
  BY <1>1
<1> HIDE DEF D
<1>5. k \in RunStates /\ k.at = "list" /\ k.due = D
  BY <1>3, KindFacts DEF Notices!Idle, RunStates
<1> HIDE DEF k
<1> QED
  BY <1>2, <1>3, <1>4, <1>5, RunGoes

LEMMA NoticeLists == ASSUME NoticeInv, NEW r \in Two, Notices!sealedMembers(r) PROVE NoticeInv'
<1> DEFINE q == Notices!Max(x6[r].due)
           k == [x6[r] EXCEPT !.at = "next", !.kind = q, !.due = @ \ {q}, !.todo = x4]
<1>1. x6[r].at = "list" /\ x6[r].due # {} /\ UNCHANGED <<x1, x4, x5, x7, x9>>
  BY DEF Notices!sealedMembers
<1>2. x6' = [x6 EXCEPT ![r] = k]
  BY DEF Notices!sealedMembers
<1>3. x6[r] \in RunStates /\ x4 \in SUBSET One /\ NoticeTyped
  BY DEF NoticeInv, NoticeTyped
<1>4. x6[r].due \in SUBSET Notices!Kinds /\ \A d \in x6[r].due : DueOn(d)
  BY <1>1, <1>3, RunTyped DEF RunStates
<1>5. q \in x6[r].due
  BY <1>1, <1>3, <1>4, LatestDue
<1> HIDE DEF q
<1>6. k \in RunStates /\ k.at = "next" /\ k.due = x6[r].due \ {q} /\ k.kind = q
  BY <1>3, <1>4, <1>5 DEF RunStates
<1> HIDE DEF k
<1> QED
  BY <1>1, <1>2, <1>4, <1>5, <1>6, RunGoes

LEMMA NoticeEnds == ASSUME NoticeInv, NEW r \in Two, Notices!End(r) PROVE NoticeInv'
<1> DEFINE k == IF x6[r].due = {} THEN Notices!Idle ELSE [x6[r] EXCEPT !.at = "list", !.member = "none"]
<1>1. x6[r].at = "next" /\ x6' = [x6 EXCEPT ![r] = k] /\ UNCHANGED <<x1, x4, x5, x7, x9>>
  BY DEF Notices!End
<1>2. x6[r] \in RunStates /\ \A q \in x6[r].due : DueOn(q)
  BY <1>1, RunTyped
<1>3. k \in RunStates /\ k.at \in {"idle", "list"} /\ (k.at # "idle" => k.due = x6[r].due)
  BY <1>2, IdleRun DEF RunStates
<1> HIDE DEF k
<1> QED
  BY <1>1, <1>2, <1>3, RunGoes

LEMMA NoticeStops == ASSUME NoticeInv, NEW r \in Two, Notices!Stops(r) PROVE NoticeInv'
<1>1. x6' = [x6 EXCEPT ![r] = Notices!Idle] /\ UNCHANGED <<x1, x4, x5, x7, x9>>
  BY DEF Notices!Stops
<1> QED
  BY <1>1, IdleRun, RunGoes

\* A claim: of a member who was not mailed this notice, and by this run alone.
LEMMA NoticeClaim == ASSUME NoticeInv, NEW r \in Two, NEW m \in One, Notices!Claim(r, m) PROVE NoticeInv'
<1>1. x6[r].at = "next" /\ m \in x6[r].todo /\ UNCHANGED <<x1, x4, x7, x9>>
  BY DEF Notices!Claim
<1>2. /\ x6[r] \in RunStates /\ DueOn(x6[r].kind) /\ x6[r].kind \in Notices!Kinds
      /\ x6[r].due \in SUBSET Notices!Kinds /\ \A q \in x6[r].due : DueOn(q)
  BY <1>1, RunTyped DEF RunStates
<1>3. CASE <<m, x6[r].kind>> \in x5
  <2> DEFINE k == [x6[r] EXCEPT !.todo = @ \ {m}]
  <2>1. UNCHANGED x5 /\ x6' = [x6 EXCEPT ![r].todo = @ \ {m}]
    BY <1>3 DEF Notices!Claim, Notices!Unclaimed
  <2>2. x6' = [x6 EXCEPT ![r] = k]
    BY <2>1
  <2>3. k \in RunStates /\ k.at = "next" /\ k.due = x6[r].due /\ k.kind = x6[r].kind
    BY <1>1, <1>2 DEF RunStates
  <2> HIDE DEF k
  <2> QED
    BY <1>1, <1>2, <2>1, <2>2, <2>3, RunGoes
<1>4. CASE <<m, x6[r].kind>> \notin x5
  <2> DEFINE n == x6[r].kind
             k == [x6[r] EXCEPT !.at = "mail", !.member = m, !.todo = @ \ {m}]
  <2>1. /\ x5' = x5 \cup {<<m, n>>}
        /\ x6' = [x6 EXCEPT ![r].at = "mail", ![r].member = m, ![r].todo = @ \ {m}]
    BY <1>4 DEF Notices!Claim, Notices!Unclaimed
  <2>2. NoticeTyped /\ x6 \in [Two -> RunStates]
    BY DEF NoticeInv, NoticeTyped
  <2>3. k \in RunStates /\ k.at = "mail" /\ k.due = x6[r].due /\ k.kind = n /\ k.member = m
    BY <1>2 DEF RunStates
  <2>4. x6' = [x6 EXCEPT ![r] = k]
    BY <2>1, <2>2
  <2> HIDE DEF k
  <2>5. x6' \in [Two -> RunStates] /\ x6'[r] = k /\ \A q \in Two : q # r => x6'[q] = x6[q]
    BY <2>2, <2>3, <2>4
  <2>6. n \in Notices!Kinds /\ DueOn(n) /\ <<m, n>> \notin x5
    BY <1>2, <1>4
  <2> HIDE DEF n
  <2>7. NoticeTyped'
    BY <1>1, <2>1, <2>2, <2>5, <2>6 DEF NoticeTyped
  <2>8. NoticeRuns'
    <3>1. \A q \in Notices!Kinds : DueOn(q)' <=> DueOn(q)
      BY <1>1, SameDay
    <3>2. \A q \in Two : x6'[q].due \subseteq Notices!Kinds /\ x6'[q].kind \in Notices!Kinds
      BY <2>5 DEF RunStates
    <3>3. \A p \in Two : p # r =>
            /\ x6'[p].at # "idle" => \A q \in x6'[p].due : DueOn(q)
            /\ x6'[p].at \in {"next", "mail", "release"} => DueOn(x6'[p].kind)
            /\ x6'[p].at \in {"mail", "release"} => x6'[p].member \in One
      BY <2>5 DEF NoticeInv, NoticeRuns
    <3>4. /\ \A q \in x6'[r].due : DueOn(q)
          /\ DueOn(x6'[r].kind) /\ x6'[r].member \in One
      BY <1>2, <2>3, <2>5, <2>6
    <3>5. \A p \in Two :
            /\ x6'[p].at # "idle" => \A q \in x6'[p].due : DueOn(q)
            /\ x6'[p].at \in {"next", "mail", "release"} => DueOn(x6'[p].kind)
            /\ x6'[p].at \in {"mail", "release"} => x6'[p].member \in One
      BY <3>3, <3>4
    <3> QED
      BY <3>1, <3>2, <3>5 DEF NoticeRuns
  <2>9. \A i \in 1..Len(x7[m]) : x7[m][i] # n
    <3>1. ~Notices!Expired(n)
      BY <2>2, <2>6, DueNotGone
    <3> QED
      BY <2>6, <3>1 DEF NoticeInv, NoticeMailed
  <2>10. \A q \in Two : ~Holds(q, m, n)
    BY <2>6 DEF NoticeInv, NoticeClaims
  <2>11. NoticeClaims'
    <3>1. \A q \in Two, p \in One, j \in Notices!Kinds :
            Holds(q, p, j)' <=> (q = r /\ p = m /\ j = n) \/ (q # r /\ Holds(q, p, j))
      BY <2>3, <2>5 DEF Holds
    <3>2. \A q \in Two, p \in One, j \in Notices!Kinds : Holds(q, p, j) => p # m \/ j # n
      BY <2>10
    <3>3. NoticeClaims
      BY DEF NoticeInv
    <3> SUFFICES ASSUME NEW q \in Two, NEW p \in One, NEW j \in Notices!Kinds, Holds(q, p, j)'
        PROVE  /\ <<p, j>> \in x5' /\ \A i \in 1..Len(x7'[p]) : x7'[p][i] # j
               /\ \A z \in Two : Holds(z, p, j)' => z = q
      BY DEF NoticeClaims
    <3>4. CASE q = r /\ p = m /\ j = n
      BY <1>1, <2>1, <2>9, <3>1, <3>2, <3>4
    <3>5. CASE q # r /\ Holds(q, p, j)
      <4>1. /\ <<p, j>> \in x5 /\ \A i \in 1..Len(x7[p]) : x7[p][i] # j
            /\ \A z \in Two : Holds(z, p, j) => z = q
        BY <3>3, <3>5 DEF NoticeClaims
      <4> QED
        BY <1>1, <2>1, <3>1, <3>2, <3>5, <4>1
    <3> QED
      BY <3>1, <3>4, <3>5
  <2>12. NoticeMailed'
    <3>1. \A j \in Notices!Kinds : (Came(j)' <=> Came(j)) /\ (Notices!Expired(j)' <=> Notices!Expired(j))
      BY <1>1, SameDay
    <3>2. NoticeMailed
      BY DEF NoticeInv
    <3>3. x5 \subseteq x5'
      BY <2>1
    <3> QED
      BY <1>1, <2>2, <3>1, <3>2, <3>3, MailKinds DEF NoticeMailed
  <2>13. Notices!NoticesCountDown'
    BY <1>1 DEF NoticeInv, Notices!NoticesCountDown, Notices!Urgent
  <2> QED
    BY <2>7, <2>8, <2>11, <2>12, <2>13 DEF NoticeInv
<1> QED
  BY <1>3, <1>4

\* A mail: of a notice that is claimed, that this run alone holds, and that comes after all before it.
LEMMA NoticeMails == ASSUME NoticeInv, NEW r \in Two, Notices!Mail(r) PROVE NoticeInv'
<1> DEFINE m == x6[r].member
           n == x6[r].kind
<1>1. x6[r].at = "mail" /\ UNCHANGED <<x1, x4, x5, x9>>
  BY DEF Notices!Mail
<1>2. /\ x6[r] \in RunStates /\ DueOn(n) /\ n \in Notices!Kinds /\ m \in One
      /\ x6[r].due \in SUBSET Notices!Kinds /\ \A q \in x6[r].due : DueOn(q)
  BY <1>1, RunTyped DEF RunStates
<1>3. NoticeTyped /\ NoticeRuns /\ NoticeClaims /\ NoticeMailed /\ Notices!NoticesCountDown
  BY DEF NoticeInv
<1>4. \A a \in {"next", "release"} :
        LET k == [x6[r] EXCEPT !.at = a]
        IN  k \in RunStates /\ k.at = a /\ k.due = x6[r].due /\ k.kind = n /\ k.member = m
  BY <1>2 DEF RunStates
<1>5. CASE UNCHANGED x7 /\ x6' = [x6 EXCEPT ![r].at = "release"]
  <2> DEFINE k == [x6[r] EXCEPT !.at = "release"]
  <2>1. x6' = [x6 EXCEPT ![r] = k]
    BY <1>5
  <2>2. k \in RunStates /\ k.at = "release" /\ k.due = x6[r].due /\ k.kind = n /\ k.member = m
    BY <1>4
  <2> HIDE DEF k
  <2> QED
    BY <1>1, <1>2, <1>5, <2>1, <2>2, RunGoes
<1>6. CASE x7' = [x7 EXCEPT ![m] = Append(@, n)] /\ x6' = [x6 EXCEPT ![r].at = "next"]
  <2> DEFINE k == [x6[r] EXCEPT !.at = "next"]
  <2>1. x6' = [x6 EXCEPT ![r] = k]
    BY <1>6
  <2>2. k \in RunStates /\ k.at = "next" /\ k.due = x6[r].due /\ k.kind = n
    BY <1>4
  <2>3. Holds(r, m, n)
    BY <1>1 DEF Holds
  <2> HIDE DEF k
  <2>4. <<m, n>> \in x5 /\ (\A i \in 1..Len(x7[m]) : x7[m][i] # n) /\ \A q \in Two : Holds(q, m, n) => q = r
    BY <1>2, <1>3, <2>3 DEF NoticeClaims
  <2> HIDE DEF m, n
  <2>5. /\ x6 \in [Two -> RunStates] /\ x6' \in [Two -> RunStates] /\ x6'[r] = k
        /\ \A q \in Two : q # r => x6'[q] = x6[q]
    BY <1>3, <2>1, <2>2 DEF NoticeTyped
  <2>6. x7[m] \in Seq(Notices!Kinds) /\ x7 \in [One -> Seq(Notices!Kinds)]
    BY <1>2, <1>3 DEF NoticeTyped
  <2>7. x7'[m] = Append(x7[m], n) /\ \A p \in One : p # m => x7'[p] = x7[p]
    BY <1>2, <1>6, <2>6
  <2>8. /\ x7'[m] \in Seq(Notices!Kinds) /\ Len(x7'[m]) = Len(x7[m]) + 1 /\ Len(x7[m]) \in Nat
        /\ x7'[m][Len(x7[m]) + 1] = n /\ \A i \in 1..Len(x7[m]) : x7'[m][i] = x7[m][i]
    BY <1>2, <2>6, <2>7
  <2>9. x7' \in [One -> Seq(Notices!Kinds)]
    BY <1>2, <1>6, <2>6
  <2>10. NoticeTyped'
    BY <1>1, <1>3, <2>5, <2>9 DEF NoticeTyped
  <2>11. NoticeRuns'
    <3>1. \A q \in Notices!Kinds : DueOn(q)' <=> DueOn(q)
      BY <1>1, SameDay
    <3>2. \A q \in Two : x6'[q].due \subseteq Notices!Kinds /\ x6'[q].kind \in Notices!Kinds
      BY <2>5 DEF RunStates
    <3>3. \A p \in Two : p # r =>
            /\ x6'[p].at # "idle" => \A q \in x6'[p].due : DueOn(q)
            /\ x6'[p].at \in {"next", "mail", "release"} => DueOn(x6'[p].kind)
            /\ x6'[p].at \in {"mail", "release"} => x6'[p].member \in One
      BY <2>5 DEF NoticeInv, NoticeRuns
    <3>4. (\A q \in x6'[r].due : DueOn(q)) /\ DueOn(x6'[r].kind) /\ x6'[r].at = "next"
      BY <1>2, <2>2, <2>5
    <3>5. \A p \in Two :
            /\ x6'[p].at # "idle" => \A q \in x6'[p].due : DueOn(q)
            /\ x6'[p].at \in {"next", "mail", "release"} => DueOn(x6'[p].kind)
            /\ x6'[p].at \in {"mail", "release"} => x6'[p].member \in One
      BY <3>3, <3>4
    <3> QED
      BY <3>1, <3>2, <3>5 DEF NoticeRuns
  <2>12. NoticeClaims'
    <3>1. \A q \in Two, p \in One, j \in Notices!Kinds : Holds(q, p, j)' => q # r /\ Holds(q, p, j)
      BY <2>2, <2>5 DEF Holds
    <3> SUFFICES ASSUME NEW q \in Two, NEW p \in One, NEW j \in Notices!Kinds, Holds(q, p, j)'
        PROVE  /\ <<p, j>> \in x5' /\ \A i \in 1..Len(x7'[p]) : x7'[p][i] # j
               /\ \A z \in Two : Holds(z, p, j)' => z = q
      BY DEF NoticeClaims
    <3>2. /\ <<p, j>> \in x5 /\ \A i \in 1..Len(x7[p]) : x7[p][i] # j
          /\ \A z \in Two : Holds(z, p, j) => z = q
      BY <1>3, <3>1 DEF NoticeClaims
    <3>3. ~(p = m /\ j = n)
      BY <2>4, <3>1
    <3>4. \A i \in 1..Len(x7'[p]) : x7'[p][i] # j
      <4>1. CASE p # m
        BY <2>7, <3>2, <4>1
      <4>2. CASE p = m
        <5>1. \A i \in 1..Len(x7'[m]) : i \in 1..Len(x7[m]) \/ i = Len(x7[m]) + 1
          BY <2>8
        <5> QED
          BY <2>8, <3>2, <3>3, <4>2, <5>1
      <4> QED
        BY <4>1, <4>2
    <3> QED
      BY <1>1, <3>1, <3>2, <3>4
  <2>13. \A i \in 1..Len(x7'[m]) : i \in 1..Len(x7[m]) \/ i = Len(x7[m]) + 1
    BY <2>8
  <2>14. Came(n) /\ DueOn(n)
    BY <1>2, <1>3, DueNotGone DEF n
  <2>15. NoticeMailed'
    <3>1. \A j \in Notices!Kinds : (Came(j)' <=> Came(j)) /\ (Notices!Expired(j)' <=> Notices!Expired(j))
      BY <1>1, SameDay
    <3>2. \A p \in One : \A i \in 1..Len(x7'[p]) :
            Came(x7'[p][i]) /\ (<<p, x7'[p][i]>> \in x5 \/ Notices!Expired(x7'[p][i]))
      <4>1. CASE \A p \in One : p # m => x7'[p] = x7[p]
        BY <1>3, <2>4, <2>7, <2>8, <2>13, <2>14 DEF NoticeMailed
      <4> QED
        BY <2>7, <4>1
    <3>3. \A p \in One : \A i \in 1..Len(x7'[p]) : x7'[p][i] \in Notices!Kinds
      BY <2>9
    <3> QED
      BY <1>1, <3>1, <3>2, <3>3 DEF NoticeMailed
  <2>16. \A i \in 1..Len(x7[m]) : IF n = -1 THEN x7[m][i] # -1 ELSE x7[m][i] = -1 \/ x7[m][i] > n
    <3> SUFFICES ASSUME NEW i \in 1..Len(x7[m])
        PROVE  IF n = -1 THEN x7[m][i] # -1 ELSE x7[m][i] = -1 \/ x7[m][i] > n
      OBVIOUS
    <3> DEFINE j == x7[m][i]
    <3>1. j \in Notices!Kinds /\ Came(j) /\ j # n
      BY <1>2, <1>3, <2>4, MailKinds DEF NoticeMailed, m
    <3>2. n \in Notices!Kinds /\ x1 \in Int
      BY <1>2, <1>3 DEF NoticeTyped, n
    <3> HIDE DEF j
    <3>3. IF n = -1 THEN j # -1 ELSE j = -1 \/ j > n
      BY <2>14, <3>1, <3>2, KindFacts DEF Came, DueOn
    <3> QED
      BY <3>3 DEF j
  <2>17. Notices!NoticesCountDown'
    <3> SUFFICES ASSUME NEW p \in One, NEW i \in 1..Len(x7'[p]), NEW j \in 1..Len(x7'[p]), i < j
        PROVE  IF x7'[p][j] = -1 THEN x7'[p][i] # -1 ELSE x7'[p][i] = -1 \/ x7'[p][i] > x7'[p][j]
      BY DEF Notices!NoticesCountDown, Notices!Urgent
    <3>1. CASE p # m
      BY <1>3, <2>7, <3>1 DEF Notices!NoticesCountDown, Notices!Urgent
    <3>2. CASE p = m /\ j \in 1..Len(x7[m])
      <4>1. i \in 1..Len(x7[m])
        BY <2>8, <3>2
      <4> QED
        BY <1>3, <2>8, <3>2, <4>1 DEF Notices!NoticesCountDown, Notices!Urgent
    <3>3. CASE p = m /\ j = Len(x7[m]) + 1
      <4>1. i \in 1..Len(x7[m])
        BY <2>8, <3>3
      <4> QED
        BY <2>8, <2>16, <3>3, <4>1
    <3> QED
      BY <2>13, <3>1, <3>2, <3>3
  <2> QED
    BY <2>10, <2>11, <2>12, <2>15, <2>17 DEF NoticeInv
<1> QED
  BY <1>5, <1>6 DEF Notices!Mail

\* A claim that is given up is one of a notice that was not mailed, and that no other run holds.
LEMMA NoticeRelease == ASSUME NoticeInv, NEW r \in Two, Notices!Release(r) PROVE NoticeInv'
<1> DEFINE m == x6[r].member
           n == x6[r].kind
           k == [x6[r] EXCEPT !.at = "next"]
<1>1. /\ x6[r].at = "release" /\ UNCHANGED <<x1, x4, x7, x9>> /\ x5' = x5 \ {<<m, n>>}
      /\ x6' = [x6 EXCEPT ![r].at = "next"]
  BY DEF Notices!Release
<1>2. x6[r] \in RunStates /\ n \in Notices!Kinds /\ m \in One /\ DueOn(n)
  BY <1>1, RunTyped DEF RunStates
<1>3. NoticeTyped /\ NoticeRuns /\ NoticeClaims /\ NoticeMailed /\ Notices!NoticesCountDown
  BY DEF NoticeInv
<1>4. k \in RunStates /\ k.at = "next" /\ k.due = x6[r].due /\ k.kind = n
  BY <1>2 DEF RunStates
<1>5. x6' = [x6 EXCEPT ![r] = k]
  BY <1>1
<1>6. Holds(r, m, n)
  BY <1>1 DEF Holds
<1> HIDE DEF k
<1>7. /\ x6 \in [Two -> RunStates] /\ x6' \in [Two -> RunStates] /\ x6'[r] = k
      /\ \A q \in Two : q # r => x6'[q] = x6[q]
  BY <1>3, <1>4, <1>5 DEF NoticeTyped
<1>8. (\A i \in 1..Len(x7[m]) : x7[m][i] # n) /\ \A q \in Two : Holds(q, m, n) => q = r
  BY <1>2, <1>3, <1>6 DEF NoticeClaims
<1>9. (\A q \in x6[r].due : DueOn(q)) /\ x6[r].due \in SUBSET Notices!Kinds
  BY <1>1, <1>2, RunTyped DEF RunStates
<1> HIDE DEF m, n
<1>10. NoticeTyped'
  BY <1>1, <1>3, <1>7 DEF NoticeTyped
<1>11. NoticeRuns'
  <2>1. \A q \in Notices!Kinds : DueOn(q)' <=> DueOn(q)
    BY <1>1, SameDay
  <2>2. \A q \in Two : x6'[q].due \subseteq Notices!Kinds /\ x6'[q].kind \in Notices!Kinds
    BY <1>7 DEF RunStates
  <2>3. \A p \in Two : p # r =>
          /\ x6'[p].at # "idle" => \A q \in x6'[p].due : DueOn(q)
          /\ x6'[p].at \in {"next", "mail", "release"} => DueOn(x6'[p].kind)
          /\ x6'[p].at \in {"mail", "release"} => x6'[p].member \in One
    BY <1>7 DEF NoticeInv, NoticeRuns
  <2>4. (\A q \in x6'[r].due : DueOn(q)) /\ DueOn(x6'[r].kind) /\ x6'[r].at = "next"
    BY <1>2, <1>4, <1>7, <1>9
  <2>5. \A p \in Two :
          /\ x6'[p].at # "idle" => \A q \in x6'[p].due : DueOn(q)
          /\ x6'[p].at \in {"next", "mail", "release"} => DueOn(x6'[p].kind)
          /\ x6'[p].at \in {"mail", "release"} => x6'[p].member \in One
    BY <2>3, <2>4
  <2> QED
    BY <2>1, <2>2, <2>5 DEF NoticeRuns
<1>12. NoticeClaims'
  <2>1. \A q \in Two, p \in One, j \in Notices!Kinds : Holds(q, p, j)' => q # r /\ Holds(q, p, j)
    BY <1>4, <1>7 DEF Holds
  <2>2. \A q \in Two, p \in One, j \in Notices!Kinds : q # r /\ Holds(q, p, j) => <<p, j>> # <<m, n>>
    BY <1>8
  <2> QED
    BY <1>1, <1>3, <2>1, <2>2 DEF NoticeClaims
<1>13. NoticeMailed'
  <2>1. \A j \in Notices!Kinds : (Came(j)' <=> Came(j)) /\ (Notices!Expired(j)' <=> Notices!Expired(j))
    BY <1>1, SameDay
  <2>2. \A p \in One : \A i \in 1..Len(x7[p]) : <<p, x7[p][i]>> # <<m, n>>
    BY <1>8
  <2> QED
    BY <1>1, <1>3, <2>1, <2>2, MailKinds DEF NoticeMailed
<1>14. Notices!NoticesCountDown'
  BY <1>1, <1>3 DEF Notices!NoticesCountDown, Notices!Urgent
<1> QED
  BY <1>10, <1>11, <1>12, <1>13, <1>14 DEF NoticeInv

LEMMA NoticeStep == NoticeInv /\ [Notices!Next]_(Notices!vars) => NoticeInv'
<1> SUFFICES ASSUME NoticeInv, [Notices!Next]_(Notices!vars) PROVE NoticeInv'
  OBVIOUS
<1>1. ASSUME NEW r \in Two, Notices!RunNext(r) PROVE NoticeInv'
  BY <1>1, NoticeBegin, NoticeLists, NoticeMails, NoticeRelease, NoticeEnds, NoticeStops, NoticeClaim DEF Notices!RunNext
<1> QED
  BY <1>1, NoticeElsewhere, NoticeNextDay DEF Notices!Next

LEMMA NoticeSafe == NoticeInv => Notices!NoticesCountDown
BY DEF NoticeInv

--------------------------------------------------------------------------------
(* The requests for early access made for one address (EarlyAccess: row is *)
(* x1, marker x2, invite x5, asked x6, admin x7, mailer x8, job x9).  The  *)
(* marker names the one row there is, because the two are written and      *)
(* removed together; a request that awaits its Cognito user is registered, *)
(* and no removal takes a registered row; whoever came in by the code is   *)
(* counted on it.                                                          *)
CONSTANT AddressRequests                                       \* requests for early access

ASSUME EarlyAssumption == AddressRequests \in Nat

Early == INSTANCE EarlyAccess WITH
               Requests <- AddressRequests,
               row <- x1, marker <- x2, user <- x3, identity <- x4, invite <- x5, asked <- x6,
               admin <- x7, mailer <- x8, job <- x9, mailed <- x10

Rows == [state : {"none", "requested", "registered", "rejected", "withdrawn"},
         verified : BOOLEAN, owns : BOOLEAN, token : 0..2, code : BOOLEAN]

Invites == [max_uses : 0..1, uses : Nat, expired : BOOLEAN]
Asked   == {"new", "create", "user", "identity", "owns", "done"}

\* Where each handler is, and the request it is at.
EarlyCalls ==
  /\ x6 \in [Early!Guids -> Asked]
  /\ x7 \in [at : {"idle", "user", "write"}, guid : {0} \cup Early!Guids]
  /\ x8 \in [at : {"idle", "send"}, guid : {0} \cup Early!Guids, token : 0..2]
  /\ x9 \in [at : {"idle", "user", "identity", "rows", "released"}, guid : {0} \cup Early!Guids]
  /\ (x7.at # "idle" => x7.guid # 0) /\ (x8.at # "idle" => x8.guid # 0)
  /\ (x9.at # "idle" => x9.guid # 0)

EarlyTyped == x1 \in [Early!Guids -> Rows] /\ x5 \in Invites /\ EarlyCalls

EarlyRows ==
  /\ \A g \in Early!Guids : x1[g].state # "none" => x2 = g
  /\ \A g \in Early!Guids : x6[g] = "user" => x1[g].state = "registered"
  /\ \A g \in Early!Guids : x1[g].code => x1[g].state # "none" /\ x5.uses >= 1
  /\ x5.uses <= x5.max_uses

EarlyInv == EarlyTyped /\ EarlyRows

LEMMA SomeGuid == \A g \in Early!Guids : g \in Nat \ {0}
BY EarlyAssumption DEF Early!Guids

LEMMA EarlyInit == Early!Init => EarlyInv
<1> SUFFICES ASSUME Early!Init PROVE EarlyInv
  OBVIOUS
<1>1. Early!NoRow \in Rows /\ Early!NoRow.state = "none" /\ ~Early!NoRow.code
  BY DEF Early!NoRow, Rows
<1>2. x1 \in [Early!Guids -> Rows] /\ \A g \in Early!Guids : x1[g].state = "none" /\ ~x1[g].code
  BY <1>1 DEF Early!Init
<1>3. x5 \in Invites /\ x5.uses <= x5.max_uses
  BY DEF Early!Init, Early!NoInvite, Invites
<1>4. EarlyCalls /\ \A g \in Early!Guids : x6[g] = "new"
  BY DEF Early!Init, Early!Idle, EarlyCalls, Asked
<1> QED
  BY <1>2, <1>3, <1>4 DEF EarlyInv, EarlyTyped, EarlyRows

\* No new row, and no more who came in by the code: whatever else becomes of a row.
LEMMA RowAltered ==
  ASSUME EarlyInv, NEW g \in Early!Guids, NEW r \in Rows, x1' = [x1 EXCEPT ![g] = r],
         r.state # "none" => x1[g].state # "none",
         r.code => x1[g].code /\ r.state # "none", x6'[g] = "user" => r.state = "registered",
         \A h \in Early!Guids : x6'[h] = "user" => x6[h] = "user",
         UNCHANGED <<x2, x5>>
  PROVE  x1' \in [Early!Guids -> Rows] /\ EarlyRows'
<1>1. x1' \in [Early!Guids -> Rows] /\ x1'[g] = r /\ \A h \in Early!Guids \ {g} : x1'[h] = x1[h]
  BY DEF EarlyInv, EarlyTyped
<1> QED
  BY <1>1 DEF EarlyInv, EarlyRows

\* Or to all of them.
LEMMA RowsStay ==
  ASSUME EarlyInv, UNCHANGED <<x1, x2>>, x5'.uses = x5.uses, x5.max_uses <= x5'.max_uses,
         x5' \in Invites,
         \A h \in Early!Guids : x6'[h] = "user" => x6[h] = "user"
  PROVE  x1' \in [Early!Guids -> Rows] /\ EarlyRows'
BY DEF EarlyInv, EarlyTyped, EarlyRows, Invites

LEMMA PublicCalls ==
  ASSUME EarlyInv, NEW g \in Early!Guids, Early!PublicNext(g)
  PROVE  EarlyCalls'
<1>1. x6 \in [Early!Guids -> Asked] /\ UNCHANGED <<x7, x8, x9>>
  BY DEF EarlyInv, EarlyTyped, EarlyCalls, Early!PublicNext, Early!Ask, Early!Create, Early!CreateUser,
         Early!CreateIdentity, Early!SetOwns, Early!Withdraw
<1>2. \/ UNCHANGED x6
      \/ \E a \in {"create", "user", "identity", "owns", "done"} : x6' = [x6 EXCEPT ![g] = a]
  BY DEF Early!PublicNext, Early!Ask, Early!Create, Early!CreateUser, Early!CreateIdentity, Early!SetOwns,
         Early!Withdraw
<1>3. x6' \in [Early!Guids -> Asked]
  BY <1>1, <1>2 DEF Asked
<1> QED
  BY <1>1, <1>3 DEF EarlyInv, EarlyTyped, EarlyCalls

LEMMA AdminCalls ==
  ASSUME EarlyInv, \/ \E g \in Early!Guids : Early!AdminNext(g)
                   \/ Early!ApproveUser \/ Early!ApproveWrite \/ Early!MakeInvite \/ Early!EndInvite
                   \/ Early!Click
  PROVE  EarlyCalls'
<1>1. UNCHANGED <<x6, x8, x9>>
  BY DEF Early!AdminNext, Early!ApproveRead, Early!Reject, Early!Resend, Early!ApproveUser,
         Early!ApproveWrite, Early!MakeInvite, Early!EndInvite, Early!Click
<1>2. \/ UNCHANGED x7 \/ x7' = Early!Idle \/ (x7.at = "user" /\ x7' = [x7 EXCEPT !.at = "write"])
      \/ \E g \in Early!Guids : x7' = [at |-> "user", guid |-> g]
  BY DEF Early!AdminNext, Early!ApproveRead, Early!Reject, Early!Resend, Early!ApproveUser,
         Early!ApproveWrite, Early!MakeInvite, Early!EndInvite, Early!Click
<1>3. x7' \in [at : {"idle", "user", "write"}, guid : {0} \cup Early!Guids] /\ (x7'.at # "idle" => x7'.guid # 0)
  BY <1>2, SomeGuid DEF EarlyInv, EarlyTyped, EarlyCalls, Early!Idle
<1> QED
  BY <1>1, <1>3 DEF EarlyInv, EarlyTyped, EarlyCalls

LEMMA JobCalls ==
  ASSUME EarlyInv, \/ \E g \in Early!Guids : Early!JobNext(g)
                   \/ Early!SendMail \/ Early!deleteRequestUser \/ Early!releaseIdentity
                   \/ Early!deleteRequestRows \/ Early!releaseIdentityOfGoneRow
  PROVE  EarlyCalls'
<1>1. UNCHANGED <<x6, x7>>
  BY DEF Early!JobNext, Early!FlipVerified, Early!ClaimMail, Early!RemovalRead, Early!RemoveStale,
         Early!SendMail, Early!deleteRequestUser, Early!releaseIdentity, Early!deleteRequestRows,
         Early!releaseIdentityOfGoneRow
<1>2. \/ UNCHANGED x8 \/ x8' = [at |-> "idle", guid |-> 0, token |-> 0]
      \/ \E g \in Early!Guids, t \in 1..2 : x8' = [at |-> "send", guid |-> g, token |-> t]
  BY DEF Early!JobNext, Early!FlipVerified, Early!ClaimMail, Early!RemovalRead, Early!RemoveStale,
         Early!SendMail, Early!deleteRequestUser, Early!releaseIdentity, Early!deleteRequestRows,
         Early!releaseIdentityOfGoneRow
<1>3. \/ UNCHANGED x9 \/ x9' = Early!Idle
      \/ (x9.at = "user" /\ x9' = [x9 EXCEPT !.at = "identity"])
      \/ (x9.at = "identity" /\ x9' = [x9 EXCEPT !.at = "rows"])
      \/ \E g \in Early!Guids, a \in {"idle", "user", "released"} : x9' = [at |-> a, guid |-> g]
  BY DEF Early!JobNext, Early!FlipVerified, Early!ClaimMail, Early!RemovalRead, Early!RemoveStale,
         Early!SendMail, Early!deleteRequestUser, Early!releaseIdentity, Early!deleteRequestRows,
         Early!releaseIdentityOfGoneRow
<1>4. x8' \in [at : {"idle", "send"}, guid : {0} \cup Early!Guids, token : 0..2] /\ (x8'.at # "idle" => x8'.guid # 0)
  BY <1>2, SomeGuid DEF EarlyInv, EarlyTyped, EarlyCalls
<1>5. /\ x9' \in [at : {"idle", "user", "identity", "rows", "released"}, guid : {0} \cup Early!Guids]
      /\ x9'.at # "idle" => x9'.guid # 0
  BY <1>3, SomeGuid DEF EarlyInv, EarlyTyped, EarlyCalls, Early!Idle
<1> QED
  BY <1>1, <1>4, <1>5 DEF EarlyInv, EarlyTyped, EarlyCalls

--------------------------------------------------------------------------------
\* A person's steps.
LEMMA PublicStep ==
  ASSUME EarlyInv, NEW g \in Early!Guids, Early!PublicNext(g)
  PROVE  EarlyInv'
<1>1. EarlyCalls' /\ x1 \in [Early!Guids -> Rows] /\ x1[g] \in Rows /\ x5 \in Invites
      /\ x6 \in [Early!Guids -> Asked]
  BY PublicCalls DEF EarlyInv, EarlyTyped, EarlyCalls
<1>2. SUFFICES x1' \in [Early!Guids -> Rows] /\ EarlyRows' /\ x5' \in Invites
  BY <1>1 DEF EarlyInv, EarlyTyped
<1>3. CASE Early!Ask(g) \/ Early!CreateIdentity(g)
  <2>1. /\ UNCHANGED <<x1, x2, x5>> /\ \E a \in {"create", "owns", "done"} : x6' = [x6 EXCEPT ![g] = a]
    BY <1>3 DEF Early!Ask, Early!CreateIdentity
  <2>2. \A h \in Early!Guids : x6'[h] = "user" => x6[h] = "user"
    BY <1>1, <2>1
  <2> QED
    BY <1>1, <2>1, <2>2, RowsStay DEF Invites
<1>4. CASE Early!Create(g) /\ ~Early!Unmarked
  <2>1. UNCHANGED <<x1, x2, x5>> /\ x6' = [x6 EXCEPT ![g] = "done"]
    BY <1>4 DEF Early!Create
  <2>2. \A h \in Early!Guids : x6'[h] = "user" => x6[h] = "user"
    BY <1>1, <2>1
  <2> QED
    BY <1>1, <2>1, <2>2, RowsStay DEF Invites
<1>5. CASE Early!Create(g) /\ Early!Unmarked
  <2>1. PICK code \in BOOLEAN :
          /\ code => Early!Usable
          /\ x5' = IF code THEN [x5 EXCEPT !.uses = @ + 1] ELSE x5
          /\ x1' = [x1 EXCEPT ![g] = [Early!NoRow EXCEPT !.state = IF code THEN "registered" ELSE "requested",
                                                        !.verified = x4 = "verified", !.code = code]]
          /\ x2' = g /\ x6' = [x6 EXCEPT ![g] = IF code THEN "user" ELSE "identity"]
    BY <1>5 DEF Early!Create
  <2> DEFINE r == [Early!NoRow EXCEPT !.state = IF code THEN "registered" ELSE "requested",
                                      !.verified = x4 = "verified", !.code = code]
  <2>2. /\ r \in Rows /\ r.code = code /\ r.state = (IF code THEN "registered" ELSE "requested")
    <3>1. code \in BOOLEAN
      BY <2>1
    <3>2. Early!NoRow \in Rows
      BY DEF Early!NoRow, Rows
    <3> QED
      BY <3>1, <3>2 DEF Rows
  <2>3. x1' = [x1 EXCEPT ![g] = r]
    BY <2>1
  <2> HIDE DEF r
  <2>4. x1' \in [Early!Guids -> Rows] /\ x1'[g] = r /\ \A h \in Early!Guids \ {g} : x1'[h] = x1[h]
    BY <1>1, <2>2, <2>3
  <2>5. \A h \in Early!Guids : x1[h].state = "none" /\ ~x1[h].code /\ x6[h] # "user"
    BY <1>5, SomeGuid DEF Early!Unmarked, EarlyInv, EarlyRows
  <2>6. /\ x5' \in Invites /\ x5'.uses <= x5'.max_uses /\ (code => x5'.uses >= 1)
    <3>1. CASE code
      <4>1. x5.uses < x5.max_uses /\ x5' = [x5 EXCEPT !.uses = @ + 1]
        BY <2>1, <3>1 DEF Early!Usable
      <4> QED
        BY <1>1, <4>1 DEF Invites
    <3>2. CASE ~code
      BY <1>1, <2>1, <3>2 DEF EarlyInv, EarlyRows
    <3> QED
      BY <3>1, <3>2
  <2>7. \A h \in Early!Guids : x6'[h] = "user" => h = g /\ code
    BY <1>1, <2>1, <2>5
  <2>8. EarlyRows'
    BY <2>1, <2>2, <2>4, <2>5, <2>6, <2>7 DEF EarlyRows
  <2> QED
    BY <2>4, <2>6, <2>8
<1>6. CASE Early!CreateUser(g)
  <2>1. UNCHANGED <<x2, x5>> /\ x6' = [x6 EXCEPT ![g] = "identity"] /\ x6[g] = "user"
    BY <1>6 DEF Early!CreateUser
  <2>2. \A h \in Early!Guids : x6'[h] = "user" => x6[h] = "user" /\ h # g
    BY <1>1, <2>1
  <2>3. CASE UNCHANGED x1
    BY <1>1, <2>1, <2>2, <2>3, RowsStay DEF Invites
  <2>4. CASE x1' = [x1 EXCEPT ![g].state = "requested"]
    <3> DEFINE r == [x1[g] EXCEPT !.state = "requested"]
    <3>1. r \in Rows /\ r.state = "requested" /\ r.code = x1[g].code
      BY <1>1 DEF Rows
    <3>2. x1' = [x1 EXCEPT ![g] = r] /\ x1[g].state = "registered" /\ x6'[g] # "user"
      BY <1>1, <2>1, <2>2, <2>4 DEF EarlyInv, EarlyRows
    <3> HIDE DEF r
    <3> QED
      BY <1>1, <2>1, <2>2, <3>1, <3>2, RowAltered
  <2> QED
    BY <1>6, <2>3, <2>4 DEF Early!CreateUser
<1>7. CASE Early!SetOwns(g)
  <2>1. UNCHANGED <<x2, x5>> /\ x6' = [x6 EXCEPT ![g] = "done"]
    BY <1>7 DEF Early!SetOwns
  <2>2. \A h \in Early!Guids : x6'[h] = "user" => x6[h] = "user" /\ h # g
    BY <1>1, <2>1
  <2>3. CASE UNCHANGED x1
    BY <1>1, <2>1, <2>2, <2>3, RowsStay DEF Invites
  <2>4. CASE x1' = [x1 EXCEPT ![g].owns = TRUE] /\ x1[g].state # "none"
    <3> DEFINE r == [x1[g] EXCEPT !.owns = TRUE]
    <3>1. r \in Rows /\ r.state = x1[g].state /\ r.code = x1[g].code
      BY <1>1 DEF Rows
    <3>2. x1' = [x1 EXCEPT ![g] = r] /\ x6'[g] # "user"
      BY <1>1, <2>1, <2>2, <2>4
    <3> HIDE DEF r
    <3>3. (r.state # "none" => x1[g].state # "none") /\ (r.code => x1[g].code /\ r.state # "none")
      BY <2>4, <3>1
    <3>4. x6'[g] = "user" => r.state = "registered"
      BY <3>2
    <3>5. x1' \in [Early!Guids -> Rows] /\ EarlyRows'
      BY <2>1, <2>2, <3>1, <3>2, <3>3, <3>4, RowAltered
    <3> QED
      BY <1>1, <2>1, <3>5
  <2> QED
    BY <1>7, <2>3, <2>4 DEF Early!SetOwns
<1>8. CASE Early!Withdraw(g)
  <2> DEFINE r == [x1[g] EXCEPT !.state = "withdrawn", !.token = 0]
  <2>1. r \in Rows /\ r.state = "withdrawn" /\ r.code = x1[g].code
    <3> DEFINE q == [x1[g] EXCEPT !.state = "withdrawn"]
    <3>1. q \in Rows /\ q.state = "withdrawn" /\ q.code = x1[g].code
      BY <1>1 DEF Rows
    <3>2. r = [q EXCEPT !.token = 0]
      OBVIOUS
    <3> HIDE DEF q, r
    <3> QED
      BY <3>1, <3>2 DEF Rows
  <2>2. /\ x1' = [x1 EXCEPT ![g] = r] /\ UNCHANGED <<x2, x5, x6>> /\ x1[g].state \in {"requested", "rejected"}
    BY <1>1, <1>8 DEF Early!Withdraw
  <2>3. x6[g] # "user"
    BY <2>2 DEF EarlyInv, EarlyRows
  <2> HIDE DEF r
  <2> QED
    BY <1>1, <2>1, <2>2, <2>3, RowAltered
<1> QED
  BY <1>3, <1>4, <1>5, <1>6, <1>7, <1>8 DEF Early!PublicNext

\* The administrator's and the person's at SES.
LEMMA AdminStep ==
  ASSUME EarlyInv, \/ \E g \in Early!Guids : Early!AdminNext(g)
                   \/ Early!ApproveUser \/ Early!ApproveWrite \/ Early!MakeInvite \/ Early!EndInvite
                   \/ Early!Click
  PROVE  EarlyInv'
<1>1. EarlyCalls' /\ x1 \in [Early!Guids -> Rows] /\ x5 \in Invites /\ x6 \in [Early!Guids -> Asked]
      /\ UNCHANGED <<x2, x6>>
  BY AdminCalls DEF EarlyInv, EarlyTyped, EarlyCalls, Early!AdminNext, Early!ApproveRead, Early!Reject,
     Early!Resend, Early!ApproveUser, Early!ApproveWrite, Early!MakeInvite, Early!EndInvite, Early!Click
<1>2. SUFFICES x1' \in [Early!Guids -> Rows] /\ EarlyRows' /\ x5' \in Invites
  BY <1>1 DEF EarlyInv, EarlyTyped
<1>3. CASE UNCHANGED x1 /\ (x5' = x5 \/ Early!MakeInvite \/ Early!EndInvite)
  <2>1. x5' \in Invites /\ x5'.uses = x5.uses /\ x5.max_uses <= x5'.max_uses
    <3>1. CASE x5' = x5
      BY <1>1, <3>1 DEF Invites
    <3>2. CASE Early!MakeInvite
      <4>1. x5' = [x5 EXCEPT !.max_uses = 1]
        BY <3>2 DEF Early!MakeInvite
      <4>2. x5'.uses = x5.uses /\ x5'.max_uses = 1 /\ x5.max_uses \in 0..1
        BY <1>1, <4>1 DEF Invites
      <4>3. \A n \in 0..1 : [x5 EXCEPT !.max_uses = n] \in Invites
        BY <1>1 DEF Invites
      <4>4. x5' \in Invites
        <5>1. 1 \in 0..1
          OBVIOUS
        <5>2. [x5 EXCEPT !.max_uses = 1] \in Invites
          BY <4>3, <5>1, Zenon
        <5> QED
          BY <4>1, <5>2, Zenon
      <4> HIDE DEF Invites
      <4>5. x5.max_uses <= x5'.max_uses
        BY <4>2
      <4> QED
        BY <4>2, <4>4, <4>5
    <3>3. CASE Early!EndInvite
      <4>1. x5' = [x5 EXCEPT !.expired = TRUE]
        BY <3>3 DEF Early!EndInvite
      <4>2. x5'.uses = x5.uses /\ x5'.max_uses = x5.max_uses /\ x5.max_uses \in 0..1
        BY <1>1, <4>1 DEF Invites
      <4>3. \A e \in BOOLEAN : [x5 EXCEPT !.expired = e] \in Invites
        BY <1>1 DEF Invites
      <4>4. x5' \in Invites
        BY <4>1, <4>3, Zenon
      <4> HIDE DEF Invites
      <4> QED
        BY <4>2, <4>4
    <3> QED
      BY <1>3, <3>1, <3>2, <3>3
  <2> QED
    BY <1>1, <1>3, <2>1, RowsStay
<1>4. ASSUME NEW g \in Early!Guids, Early!Reject(g)
      PROVE  x1' \in [Early!Guids -> Rows] /\ EarlyRows' /\ x5' \in Invites
  <2> DEFINE r == [x1[g] EXCEPT !.state = "rejected"]
  <2>1. r \in Rows /\ r.state = "rejected" /\ r.code = x1[g].code
    BY <1>1 DEF Rows
  <2>2. /\ x1' = [x1 EXCEPT ![g] = r] /\ x1[g].state = "requested" /\ UNCHANGED x5
    BY <1>1, <1>4 DEF Early!Reject
  <2>3. x6[g] # "user"
    BY <2>2 DEF EarlyInv, EarlyRows
  <2> HIDE DEF r
  <2> QED
    BY <1>1, <2>1, <2>2, <2>3, RowAltered
<1>5. ASSUME NEW g \in Early!Guids, Early!Resend(g)
      PROVE  x1' \in [Early!Guids -> Rows] /\ EarlyRows' /\ x5' \in Invites
  <2> DEFINE r == [x1[g] EXCEPT !.owns = TRUE]
  <2>1. r \in Rows /\ r.state = x1[g].state /\ r.code = x1[g].code
    BY <1>1 DEF Rows
  <2>2. /\ x1' = [x1 EXCEPT ![g] = r] /\ x1[g].state # "none" /\ UNCHANGED x5
    BY <1>1, <1>5 DEF Early!Resend
  <2>3. x6[g] = "user" => x1[g].state = "registered"
    BY DEF EarlyInv, EarlyRows
  <2> HIDE DEF r
  <2>4. (r.code => x1[g].code /\ r.state # "none") /\ (x6'[g] = "user" => r.state = "registered")
    BY <1>1, <2>1, <2>2, <2>3
  <2>5. x1' \in [Early!Guids -> Rows] /\ EarlyRows'
    BY <1>1, <2>1, <2>2, <2>4, RowAltered
  <2> QED
    BY <1>1, <2>2, <2>5
<1>6. ASSUME Early!ApproveWrite, x1[x7.guid].state = "requested"
      PROVE  x1' \in [Early!Guids -> Rows] /\ EarlyRows' /\ x5' \in Invites
  <2> DEFINE g == x7.guid
             q == [x1[g] EXCEPT !.state = "registered"]
             r == [x1[g] EXCEPT !.state = "registered", !.verified = TRUE, !.token = 0]
  <2>1. g \in Early!Guids
    BY <1>6 DEF EarlyInv, EarlyTyped, EarlyCalls, Early!ApproveWrite
  <2>2. /\ x1' = [x1 EXCEPT ![g] = r] /\ x1[g].state = "requested" /\ UNCHANGED x5
    BY <1>1, <1>6, <2>1 DEF Early!ApproveWrite
  <2>3. r \in Rows /\ r.state = "registered" /\ r.code = x1[g].code
    <3> DEFINE p == [q EXCEPT !.verified = TRUE]
    <3>1. q \in Rows /\ q.state = "registered" /\ q.code = x1[g].code
      BY <1>1, <2>1 DEF Rows
    <3>2. r = [p EXCEPT !.token = 0]
      OBVIOUS
    <3> HIDE DEF q, r, g
    <3>3. p \in Rows /\ p.state = "registered" /\ p.code = x1[g].code
      BY <3>1 DEF Rows
    <3> HIDE DEF p
    <3> QED
      BY <3>2, <3>3 DEF Rows
  <2> HIDE DEF g, r
  <2>4. x1' \in [Early!Guids -> Rows] /\ EarlyRows'
    BY <1>1, <2>1, <2>2, <2>3, RowAltered
  <2> QED
    BY <1>1, <2>2, <2>4
<1> QED
  BY <1>3, <1>4, <1>5, <1>6
     DEF Early!AdminNext, Early!ApproveRead, Early!ApproveUser, Early!ApproveWrite, Early!MakeInvite,
         Early!EndInvite, Early!Click

\* What the jobs and the mailer make of a row that stays.
LEMMA RowHandled ==
  ASSUME EarlyInv, NEW g \in Early!Guids, NEW r \in Rows, x1' = [x1 EXCEPT ![g] = r],
         r.state = x1[g].state, r.code = x1[g].code, UNCHANGED <<x2, x5, x6>>
  PROVE  x1' \in [Early!Guids -> Rows] /\ EarlyRows'
<1>1. /\ x1[g].code => x1[g].state # "none"
      /\ x6[g] = "user" => x1[g].state = "registered"
  BY DEF EarlyInv, EarlyRows
<1>2. (r.code => x1[g].code /\ r.state # "none") /\ (x6'[g] = "user" => r.state = "registered")
  BY <1>1
<1> QED
  BY <1>2, RowAltered

\* A row is removed with the marker that names it.
LEMMA RowRemoved ==
  ASSUME EarlyInv, NEW g \in Early!Guids, x1[g].state \in {"requested", "rejected", "withdrawn"},
         x1' = [x1 EXCEPT ![g] = Early!NoRow], x2' = (IF x2 = g THEN 0 ELSE x2), UNCHANGED <<x5, x6>>
  PROVE  x1' \in [Early!Guids -> Rows] /\ EarlyRows'
<1>1. Early!NoRow \in Rows /\ Early!NoRow.state = "none" /\ ~Early!NoRow.code
  BY DEF Early!NoRow, Rows
<1>2. x1' \in [Early!Guids -> Rows] /\ x1'[g] = Early!NoRow /\ \A h \in Early!Guids \ {g} : x1'[h] = x1[h]
  BY <1>1 DEF EarlyInv, EarlyTyped
<1>3. x2 = g /\ x6[g] # "user"
  BY DEF EarlyInv, EarlyRows
<1> QED
  BY <1>1, <1>2, <1>3 DEF EarlyInv, EarlyRows

LEMMA JobStep ==
  ASSUME EarlyInv, \/ \E g \in Early!Guids : Early!JobNext(g)
                   \/ Early!SendMail \/ Early!deleteRequestUser \/ Early!releaseIdentity
                   \/ Early!deleteRequestRows \/ Early!releaseIdentityOfGoneRow
  PROVE  EarlyInv'
<1>1. EarlyCalls' /\ x1 \in [Early!Guids -> Rows] /\ x5 \in Invites /\ UNCHANGED <<x5, x6>>
  BY JobCalls DEF EarlyInv, EarlyTyped, Early!JobNext, Early!FlipVerified, Early!ClaimMail,
         Early!RemovalRead, Early!RemoveStale,
         Early!SendMail, Early!deleteRequestUser, Early!releaseIdentity, Early!deleteRequestRows,
         Early!releaseIdentityOfGoneRow
<1>2. SUFFICES x1' \in [Early!Guids -> Rows] /\ EarlyRows'
  BY <1>1 DEF EarlyInv, EarlyTyped
<1>3. CASE UNCHANGED <<x1, x2>>
  BY <1>1, <1>3, RowsStay DEF Invites
<1>4. ASSUME NEW g \in Early!Guids, Early!FlipVerified(g)
      PROVE  x1' \in [Early!Guids -> Rows] /\ EarlyRows'
  <2> DEFINE r == [x1[g] EXCEPT !.verified = TRUE]
  <2>1. r \in Rows /\ r.state = x1[g].state /\ r.code = x1[g].code
    BY <1>1 DEF Rows
  <2>2. x1' = [x1 EXCEPT ![g] = r] /\ UNCHANGED <<x2, x5, x6>>
    BY <1>1, <1>4 DEF Early!FlipVerified
  <2> HIDE DEF r
  <2> QED
    BY <2>1, <2>2, RowHandled
<1>5. ASSUME NEW g \in Early!Guids, Early!ClaimMail(g)
      PROVE  x1' \in [Early!Guids -> Rows] /\ EarlyRows'
  <2>1. PICK t \in 1..2 : x1' = [x1 EXCEPT ![g].token = t]
    BY <1>5 DEF Early!ClaimMail
  <2> DEFINE r == [x1[g] EXCEPT !.token = t]
  <2>2. r \in Rows /\ r.state = x1[g].state /\ r.code = x1[g].code
    BY <1>1, <2>1 DEF Rows
  <2>3. x1' = [x1 EXCEPT ![g] = r] /\ UNCHANGED <<x2, x5, x6>>
    BY <1>1, <1>5, <2>1 DEF Early!ClaimMail
  <2> HIDE DEF r
  <2> QED
    BY <2>2, <2>3, RowHandled
<1>6. CASE Early!SendMail
  <2> DEFINE g == x8.guid
             r == [x1[g] EXCEPT !.token = 0]
  <2>1. g \in Early!Guids
    BY <1>6 DEF EarlyInv, EarlyTyped, EarlyCalls, Early!SendMail
  <2>2. r \in Rows /\ r.state = x1[g].state /\ r.code = x1[g].code
    BY <1>1, <2>1 DEF Rows
  <2>3. (x1' = [x1 EXCEPT ![g] = r] \/ x1' = x1) /\ UNCHANGED <<x2, x5, x6>>
    BY <1>1, <1>6, <2>1 DEF Early!SendMail, Early!Unclaim
  <2> HIDE DEF g, r
  <2> QED
    BY <1>3, <2>1, <2>2, <2>3, RowHandled
<1>7. ASSUME NEW g \in Early!Guids, Early!RemoveStale(g)
      PROVE  x1' \in [Early!Guids -> Rows] /\ EarlyRows'
  BY <1>7, RowRemoved DEF Early!RemoveStale
<1>8. CASE Early!deleteRequestRows /\ ~UNCHANGED <<x1, x2>>
  <2>1. x9.guid \in Early!Guids
    BY <1>8 DEF EarlyInv, EarlyTyped, EarlyCalls, Early!deleteRequestRows
  <2> QED
    BY <1>8, <2>1, RowRemoved DEF Early!deleteRequestRows
<1> QED
  BY <1>3, <1>4, <1>5, <1>6, <1>7, <1>8
     DEF Early!JobNext, Early!RemovalRead, Early!deleteRequestUser, Early!releaseIdentity,
         Early!releaseIdentityOfGoneRow

LEMMA EarlyDies ==
  ASSUME EarlyInv, Early!Dies
  PROVE  EarlyInv'
<1>1. UNCHANGED <<x1, x2, x5, x8>> /\ x6 \in [Early!Guids -> Asked] /\ x5 \in Invites
  BY DEF EarlyInv, EarlyTyped, EarlyCalls, Early!Dies
<1>2. (\E g \in Early!Guids : x6' = [x6 EXCEPT ![g] = "done"]) \/ UNCHANGED x6
  BY DEF Early!Dies
<1>3. x6' \in [Early!Guids -> Asked] /\ \A h \in Early!Guids : x6'[h] = "user" => x6[h] = "user"
  BY <1>1, <1>2 DEF Asked
<1>4. (x7' = Early!Idle \/ x7' = x7) /\ (x9' = Early!Idle \/ x9' = x9)
  BY DEF Early!Dies
<1>5. EarlyCalls'
  BY <1>1, <1>3, <1>4 DEF EarlyInv, EarlyTyped, EarlyCalls, Early!Idle
<1>6. x1' \in [Early!Guids -> Rows] /\ EarlyRows'
  BY <1>1, <1>3, RowsStay DEF Invites
<1> QED
  BY <1>1, <1>5, <1>6 DEF EarlyInv, EarlyTyped

LEMMA EarlyStep == EarlyInv /\ [Early!Next]_Early!vars => EarlyInv'
<1>1. EarlyInv /\ UNCHANGED Early!vars => EarlyInv'
  BY DEF Early!vars, EarlyInv, EarlyTyped, EarlyCalls, EarlyRows
<1> QED
  BY <1>1, PublicStep, AdminStep, JobStep, EarlyDies DEF Early!Next

\* Whoever has the code is the one row there is.
LEMMA EarlySafe == EarlyInv => Early!OneRow /\ Early!CodeCounted
<1> SUFFICES ASSUME EarlyInv PROVE Early!OneRow /\ Early!CodeCounted
  OBVIOUS
<1>1. Early!OneRow
  BY DEF EarlyInv, EarlyRows, Early!OneRow
<1> DEFINE Coded == {g \in Early!Guids : x1[g].code}
<1>2. Cardinality(Coded) <= x5.uses
  <2>1. x5.uses \in Nat
    BY DEF EarlyInv, EarlyTyped, Invites
  <2>2. Coded = {} \/ \E h \in Early!Guids : Coded = {h} /\ x5.uses >= 1
    BY DEF EarlyInv, EarlyRows
  <2> HIDE DEF Coded
  <2>3. CASE Coded = {}
    BY <2>1, <2>3, FS_EmptySet
  <2>4. ASSUME NEW h, Coded = {h}, x5.uses >= 1 PROVE Cardinality(Coded) <= x5.uses
    <3>1. Cardinality({h}) = 1
      BY FS_Singleton
    <3> QED
      BY <2>1, <2>4, <3>1
  <2> QED
    BY <2>2, <2>3, <2>4
<1>3. x5.uses <= x5.max_uses
  BY DEF EarlyInv, EarlyRows
<1>4. Early!CodeCounted
  <2>1. Early!Cardinality(Coded) = Cardinality(Coded)
    BY DEF Early!Cardinality, Cardinality
  <2> QED
    BY <1>2, <1>3, <2>1 DEF Early!CodeCounted
<1> QED
  BY <1>1, <1>4

--------------------------------------------------------------------------------
(* That an approved request can sign in, and that a withdrawal link works  *)
(* while the request is held, however the calls interleave (user is x3,    *)
(* mailed x10).  The user under the address is the approved request's own  *)
(* until its row is gone, since a removal begins only on a row that is     *)
(* over and such a row never becomes a request again; and a token is put   *)
(* on a row only while no link went out, so the one that went out is it.   *)

\* A removal is of a row that is over.
JobHeld == \A g \in Early!Guids :
  x9.guid = g /\ x9.at \in {"user", "identity", "rows"} =>
    x1[g].state \in {"withdrawn", "rejected", "none"} /\ x6[g] \notin {"new", "create"}

\* An approval about to write has the user that carries its id.
AdminHeld == \A g \in Early!Guids :
  /\ x1[g].state # "none" => x6[g] \notin {"new", "create"}
  /\ x7.guid = g /\ x7.at # "idle" => x6[g] \notin {"new", "create", "user"}
  /\ x7.guid = g /\ x7.at = "write" /\ x1[g].state = "requested" => x3 = g
  /\ x1[g].state = "registered" /\ ~x1[g].code => x3 = g

\* A link is sent for a row that had none, and the row keeps the token it was sent with.
MailHeld == \A g \in Early!Guids :
  /\ x8.guid = g /\ x8.at = "send" =>
       /\ x10[g] = 0 /\ x6[g] \notin {"new", "create", "user"}
       /\ x1[g].state \in {"requested", "rejected"} => x1[g].token = x8.token
  /\ x10[g] # 0 =>
       /\ x6[g] \notin {"new", "create", "user"}
       /\ x1[g].state \in {"requested", "rejected"} => x1[g].token = x10[g]

EarlyHeld == JobHeld /\ AdminHeld /\ MailHeld /\ x10 \in [Early!Guids -> 0..2]

\* What a call's own progress and a removal's may be without disturbing the others.
CallsOn == /\ \A h \in Early!Guids : x6'[h] \in {"new", "create"} => x6[h] \in {"new", "create"}
           /\ \A h \in Early!Guids : x6'[h] = "user" => x6[h] \in {"create", "user"}
           /\ x7' = x7 \/ x7'.at = "idle"
           /\ (x9'.guid = x9.guid /\ x9.at \in {"user", "identity", "rows"}) \/ x9'.at \in {"idle", "released"}

\* Nothing on the rows that the others rely on changes.
LEMMA HeldSame ==
  ASSUME EarlyInv, EarlyHeld, x1' \in [Early!Guids -> Rows], CallsOn, UNCHANGED <<x3, x8, x10>>,
         \A h \in Early!Guids : /\ x1'[h].state = x1[h].state /\ x1'[h].token = x1[h].token
                                /\ x1'[h].code = x1[h].code /\ (x6'[h] = "user" => x6[h] = "user")
  PROVE  EarlyHeld'
<1>1. JobHeld'
  BY DEF CallsOn, EarlyHeld, JobHeld
<1>2. AdminHeld'
  BY DEF CallsOn, EarlyHeld, AdminHeld
<1>3. MailHeld'
  BY DEF CallsOn, EarlyHeld, MailHeld
<1> QED
  BY <1>1, <1>2, <1>3 DEF EarlyHeld

\* One row changes.
LEMMA HeldRow ==
  ASSUME EarlyInv, EarlyHeld, CallsOn, UNCHANGED <<x8, x10>>, x3 # 0 => x3' = x3,
         NEW g \in Early!Guids, NEW r \in Rows, x1' = [x1 EXCEPT ![g] = r],
         \A h \in Early!Guids : x6'[h] = "user" => x6[h] = "user" \/ h = g,
         x6'[g] = "user" => x6[g] = "create" \/ x6[g] = "user",
         r.state # "none" => x6'[g] \notin {"new", "create"},
         x9.guid = g /\ x9.at \in {"user", "identity", "rows"} => r.state \in {"withdrawn", "rejected", "none"},
         r.state = "registered" /\ ~r.code => x3' = g,
         r.state = "requested" => x1[g].state = "requested" \/ x6[g] \in {"create", "user"},
         r.state \in {"requested", "rejected"} =>
           (x1[g].state \in {"requested", "rejected"} /\ r.token = x1[g].token) \/ x6[g] \in {"create", "user"}
  PROVE  EarlyHeld'
<1>1. x1'[g] = r /\ \A h \in Early!Guids \ {g} : x1'[h] = x1[h]
  BY DEF EarlyInv, EarlyTyped
<1>2. JobHeld'
  BY <1>1 DEF CallsOn, EarlyHeld, JobHeld
<1>3. ASSUME NEW h \in Early!Guids
      PROVE  /\ x1'[h].state # "none" => x6'[h] \notin {"new", "create"}
             /\ x7'.guid = h /\ x7'.at # "idle" => x6'[h] \notin {"new", "create", "user"}
             /\ x7'.guid = h /\ x7'.at = "write" /\ x1'[h].state = "requested" => x3' = h
             /\ x1'[h].state = "registered" /\ ~x1'[h].code => x3' = h
  <2>1. h # 0
    BY SomeGuid
  <2>2. CASE h = g
    BY <1>1, <2>1, <2>2 DEF CallsOn, EarlyHeld, AdminHeld
  <2>3. CASE h # g
    BY <1>1, <2>1, <2>3 DEF CallsOn, EarlyHeld, AdminHeld
  <2> QED
    BY <2>2, <2>3
<1>4. ASSUME NEW h \in Early!Guids
      PROVE  /\ x8'.guid = h /\ x8'.at = "send" =>
                  /\ x10'[h] = 0 /\ x6'[h] \notin {"new", "create", "user"}
                  /\ x1'[h].state \in {"requested", "rejected"} => x1'[h].token = x8'.token
             /\ x10'[h] # 0 =>
                  /\ x6'[h] \notin {"new", "create", "user"}
                  /\ x1'[h].state \in {"requested", "rejected"} => x1'[h].token = x10'[h]
  <2>1. CASE h = g
    BY <1>1, <2>1 DEF CallsOn, EarlyHeld, MailHeld
  <2>2. CASE h # g
    BY <1>1, <2>2 DEF CallsOn, EarlyHeld, MailHeld
  <2> QED
    BY <2>1, <2>2
<1>5. AdminHeld'
  BY <1>3 DEF AdminHeld
<1>6. MailHeld'
  BY <1>4 DEF MailHeld
<1> QED
  BY <1>2, <1>5, <1>6 DEF EarlyHeld

LEMMA HeldInit == Early!Init => EarlyHeld
<1> SUFFICES ASSUME Early!Init PROVE EarlyHeld
  OBVIOUS
<1>1. /\ \A g \in Early!Guids : x1[g] = Early!NoRow /\ x6[g] = "new" /\ x10[g] = 0
      /\ x7.at = "idle" /\ x8.at = "idle" /\ x9.at = "idle" /\ x10 \in [Early!Guids -> 0..2]
  BY DEF Early!Init, Early!Idle
<1>2. Early!NoRow.state = "none"
  BY DEF Early!NoRow
<1> QED
  BY <1>1, <1>2 DEF EarlyHeld, JobHeld, AdminHeld, MailHeld

\* A person's steps.
LEMMA PublicHeld ==
  ASSUME EarlyInv, EarlyHeld, NEW g \in Early!Guids, Early!PublicNext(g)
  PROVE  EarlyHeld'
<1>1. /\ x1 \in [Early!Guids -> Rows] /\ x1[g] \in Rows /\ x6 \in [Early!Guids -> Asked]
      /\ UNCHANGED <<x7, x8, x9, x10>>
      /\ (x9.at \in {"user", "identity", "rows"}) \/ x9.at \in {"idle", "released"}
  BY DEF EarlyInv, EarlyTyped, EarlyCalls, Early!PublicNext, Early!Ask, Early!Create, Early!CreateUser,
         Early!CreateIdentity, Early!SetOwns, Early!Withdraw
<1>2. ASSUME UNCHANGED x1, x3' = x3,
             \E a \in Asked \ {"new", "user"} : x6' = [x6 EXCEPT ![g] = a] /\ (a = "create" => x6[g] = "new")
      PROVE  EarlyHeld'
  <2>1. PICK a \in Asked \ {"new", "user"} : x6' = [x6 EXCEPT ![g] = a] /\ (a = "create" => x6[g] = "new")
    BY <1>2
  <2>2. /\ x6'[g] = a /\ a \notin {"new", "user"} /\ (a = "create" => x6[g] = "new")
        /\ \A h \in Early!Guids \ {g} : x6'[h] = x6[h]
    BY <1>1, <2>1
  <2>3. CallsOn
    BY <1>1, <2>2 DEF CallsOn
  <2> QED
    BY <1>1, <1>2, <2>2, <2>3, HeldSame
<1>3. CASE Early!Ask(g) \/ Early!CreateIdentity(g) \/ (Early!Create(g) /\ ~Early!Unmarked)
  <2>1. UNCHANGED x1 /\ x3' = x3
    BY <1>3 DEF Early!Ask, Early!CreateIdentity, Early!Create
  <2>2. \/ x6' = [x6 EXCEPT ![g] = "create"] /\ x6[g] = "new"
        \/ x6' = [x6 EXCEPT ![g] = "done"] \/ x6' = [x6 EXCEPT ![g] = "owns"]
    BY <1>3 DEF Early!Ask, Early!CreateIdentity, Early!Create
  <2>3. {"create", "done", "owns"} \subseteq Asked \ {"new", "user"}
    BY DEF Asked
  <2>4. \E a \in Asked \ {"new", "user"} : x6' = [x6 EXCEPT ![g] = a] /\ (a = "create" => x6[g] = "new")
    BY <2>2, <2>3
  <2> QED
    BY <1>2, <2>1, <2>4
<1>4. CASE Early!Create(g) /\ Early!Unmarked
  <2>1. PICK code \in BOOLEAN :
          /\ x1' = [x1 EXCEPT ![g] = [Early!NoRow EXCEPT !.state = IF code THEN "registered" ELSE "requested",
                                                        !.verified = x4 = "verified", !.code = code]]
          /\ x6' = [x6 EXCEPT ![g] = IF code THEN "user" ELSE "identity"]
    BY <1>4 DEF Early!Create
  <2> DEFINE r == [Early!NoRow EXCEPT !.state = IF code THEN "registered" ELSE "requested",
                                      !.verified = x4 = "verified", !.code = code]
  <2>2. /\ r \in Rows /\ r.code = code /\ r.state = (IF code THEN "registered" ELSE "requested")
    <3>1. code \in BOOLEAN
      BY <2>1
    <3>2. Early!NoRow \in Rows
      BY DEF Early!NoRow, Rows
    <3> QED
      BY <3>1, <3>2 DEF Rows
  <2>3. x1' = [x1 EXCEPT ![g] = r] /\ x3' = x3 /\ x6[g] = "create"
    BY <1>4, <2>1 DEF Early!Create
  <2> HIDE DEF r
  <2>4. x6'[g] = (IF code THEN "user" ELSE "identity") /\ \A h \in Early!Guids \ {g} : x6'[h] = x6[h]
    BY <1>1, <2>1
  <2>5. CallsOn
    BY <1>1, <2>3, <2>4 DEF CallsOn
  <2>6. ~(x9.guid = g /\ x9.at \in {"user", "identity", "rows"})
    BY <2>3 DEF EarlyHeld, JobHeld
  <2>7. (r.state = "registered" /\ ~r.code => x3' = g) /\ x6'[g] \notin {"new", "create"}
    BY <2>2, <2>4
  <2> QED
    BY <1>1, <2>2, <2>3, <2>4, <2>5, <2>6, <2>7, HeldRow
<1>5. CASE Early!CreateUser(g)
  <2>1. x6' = [x6 EXCEPT ![g] = "identity"] /\ x6[g] = "user" /\ (x3 # 0 => x3' = x3)
    BY <1>5 DEF Early!CreateUser
  <2>2. x6'[g] = "identity" /\ \A h \in Early!Guids \ {g} : x6'[h] = x6[h]
    BY <1>1, <2>1
  <2>3. CallsOn
    BY <1>1, <2>1, <2>2 DEF CallsOn
  <2>4. x1[g].state = "registered" /\ ~(x9.guid = g /\ x9.at \in {"user", "identity", "rows"})
    BY <2>1 DEF EarlyInv, EarlyRows, EarlyHeld, JobHeld
  <2>5. CASE UNCHANGED x1
    <3>1. x1' = [x1 EXCEPT ![g] = x1[g]]
      BY <1>1, <2>5
    <3>2. ~x1[g].code => x3' = g
      BY <2>1, <2>4, SomeGuid DEF EarlyHeld, AdminHeld
    <3> QED
      BY <1>1, <2>1, <2>2, <2>3, <2>4, <3>1, <3>2, HeldRow
  <2>6. CASE x1' = [x1 EXCEPT ![g].state = "requested"]
    <3> DEFINE r == [x1[g] EXCEPT !.state = "requested"]
    <3>1. r \in Rows /\ r.state = "requested"
      BY <1>1 DEF Rows
    <3>2. x1' = [x1 EXCEPT ![g] = r]
      BY <2>6
    <3> HIDE DEF r
    <3> QED
      BY <1>1, <2>1, <2>2, <2>3, <2>4, <3>1, <3>2, HeldRow
  <2> QED
    BY <1>5, <2>5, <2>6 DEF Early!CreateUser
<1>6. CASE Early!SetOwns(g)
  <2>1. x6' = [x6 EXCEPT ![g] = "done"] /\ x3' = x3 /\ (x1' = x1 \/ x1' = [x1 EXCEPT ![g].owns = TRUE])
    BY <1>6 DEF Early!SetOwns
  <2>2. x6'[g] = "done" /\ \A h \in Early!Guids \ {g} : x6'[h] = x6[h]
    BY <1>1, <2>1
  <2>3. CallsOn
    BY <1>1, <2>2 DEF CallsOn
  <2>4. x1' \in [Early!Guids -> Rows]
        /\ \A h \in Early!Guids : /\ x1'[h].state = x1[h].state /\ x1'[h].token = x1[h].token
                                  /\ x1'[h].code = x1[h].code
    <3> DEFINE r == [x1[g] EXCEPT !.owns = TRUE]
    <3>1. r \in Rows /\ r.state = x1[g].state /\ r.token = x1[g].token /\ r.code = x1[g].code
      BY <1>1 DEF Rows
    <3>2. x1' = x1 \/ x1' = [x1 EXCEPT ![g] = r]
      BY <2>1
    <3> HIDE DEF r
    <3> QED
      BY <1>1, <3>1, <3>2
  <2> QED
    BY <1>1, <2>1, <2>2, <2>3, <2>4, HeldSame
<1>7. CASE Early!Withdraw(g)
  <2> DEFINE r == [x1[g] EXCEPT !.state = "withdrawn", !.token = 0]
  <2>1. r \in Rows /\ r.state = "withdrawn"
    <3> DEFINE q == [x1[g] EXCEPT !.state = "withdrawn"]
    <3>1. q \in Rows /\ q.state = "withdrawn"
      BY <1>1 DEF Rows
    <3>2. r = [q EXCEPT !.token = 0]
      OBVIOUS
    <3> HIDE DEF q, r
    <3> QED
      BY <3>1, <3>2 DEF Rows
  <2>2. x1' = [x1 EXCEPT ![g] = r] /\ UNCHANGED <<x3, x6>> /\ x10[g] # 0
    BY <1>1, <1>7 DEF Early!Withdraw
  <2> HIDE DEF r
  <2>3. CallsOn /\ x6[g] \notin {"new", "create", "user"}
    BY <1>1, <2>2 DEF CallsOn, EarlyHeld, MailHeld
  <2> QED
    BY <1>1, <2>1, <2>2, <2>3, HeldRow
<1> QED
  BY <1>3, <1>4, <1>5, <1>6, <1>7 DEF Early!PublicNext

LEMMA SameCalls ==
  ASSUME x6' = x6, x7' = x7 \/ x7'.at = "idle",
         (x9'.guid = x9.guid /\ x9.at \in {"user", "identity", "rows"}) \/ x9'.at \in {"idle", "released"}
  PROVE  CallsOn
BY DEF CallsOn

LEMMA JobIs == EarlyInv => x9.at \in {"user", "identity", "rows"} \/ x9.at \in {"idle", "released"}
BY DEF EarlyInv, EarlyTyped, EarlyCalls

\* A row with another state, or that was verified or is owned: still a row.
LEMMA RowWith ==
  ASSUME NEW g \in Early!Guids, x1 \in [Early!Guids -> Rows]
  PROVE  /\ \A s \in {"none", "requested", "registered", "rejected", "withdrawn"} :
              [x1[g] EXCEPT !.state = s] \in Rows /\ [x1[g] EXCEPT !.state = s].token = x1[g].token
                /\ [x1[g] EXCEPT !.state = s].state = s
         /\ \A b \in BOOLEAN : [x1[g] EXCEPT !.verified = b] \in Rows /\ [x1[g] EXCEPT !.owns = b] \in Rows
<1>1. x1[g] \in Rows
  OBVIOUS
<1> QED
  BY <1>1 DEF Rows

\* The administrator's, and the person's at SES.
LEMMA AdminHeldStep ==
  ASSUME EarlyInv, EarlyHeld, \/ \E g \in Early!Guids : Early!AdminNext(g)
                              \/ Early!ApproveUser \/ Early!ApproveWrite \/ Early!MakeInvite \/ Early!EndInvite
                              \/ Early!Click
  PROVE  EarlyHeld'
<1>1. x1 \in [Early!Guids -> Rows] /\ UNCHANGED <<x6, x8, x9, x10>>
  BY DEF EarlyInv, EarlyTyped, Early!AdminNext, Early!ApproveRead, Early!Reject, Early!Resend,
         Early!ApproveUser, Early!ApproveWrite, Early!MakeInvite, Early!EndInvite, Early!Click
<1>2. CASE Early!MakeInvite \/ Early!EndInvite \/ Early!Click
  <2>1. UNCHANGED <<x1, x3, x7>>
    BY <1>2 DEF Early!MakeInvite, Early!EndInvite, Early!Click
  <2>2. CallsOn
    BY <1>1, <2>1, JobIs, SameCalls
  <2> QED
    BY <1>1, <2>1, <2>2, HeldSame
<1>3. ASSUME NEW g \in Early!Guids, Early!Resend(g) PROVE EarlyHeld'
  <2> DEFINE r == [x1[g] EXCEPT !.owns = TRUE]
  <2>1. x1[g] \in Rows /\ UNCHANGED <<x3, x7>> /\ x1' = [x1 EXCEPT ![g] = r]
    BY <1>1, <1>3 DEF Early!Resend
  <2>2. r \in Rows /\ r.state = x1[g].state /\ r.token = x1[g].token /\ r.code = x1[g].code
    BY <2>1 DEF Rows
  <2>3. CallsOn
    BY <1>1, <2>1, JobIs, SameCalls
  <2> HIDE DEF r
  <2>4. x1' \in [Early!Guids -> Rows]
        /\ \A h \in Early!Guids : /\ x1'[h].state = x1[h].state /\ x1'[h].token = x1[h].token
                                  /\ x1'[h].code = x1[h].code
    BY <1>1, <2>1, <2>2
  <2> QED
    BY <1>1, <2>1, <2>3, <2>4, HeldSame
<1>4. ASSUME NEW g \in Early!Guids, Early!Reject(g) PROVE EarlyHeld'
  <2> DEFINE r == [x1[g] EXCEPT !.state = "rejected"]
  <2>1. UNCHANGED <<x3, x7>> /\ x1' = [x1 EXCEPT ![g] = r] /\ x1[g].state = "requested"
    BY <1>1, <1>4 DEF Early!Reject
  <2>2. r \in Rows /\ r.state = "rejected" /\ r.token = x1[g].token
    BY <1>1, RowWith
  <2>3. CallsOn
    BY <1>1, <2>1, JobIs, SameCalls
  <2>4. x6[g] \notin {"new", "create"} /\ ~(x9.guid = g /\ x9.at \in {"user", "identity", "rows"})
    BY <2>1 DEF EarlyHeld, JobHeld, AdminHeld
  <2> HIDE DEF r
  <2> QED
    BY <1>1, <2>1, <2>2, <2>3, <2>4, HeldRow
<1>5. ASSUME NEW g \in Early!Guids, Early!ApproveRead(g) PROVE EarlyHeld'
  <2>1. UNCHANGED <<x1, x3>> /\ x7' = [at |-> "user", guid |-> g] /\ x1[g].state = "requested"
    BY <1>5 DEF Early!ApproveRead
  <2>2. x6[g] \notin {"new", "create", "user"}
    BY <2>1 DEF EarlyInv, EarlyRows, EarlyHeld, AdminHeld
  <2>3. AdminHeld'
    BY <1>1, <2>1, <2>2 DEF EarlyHeld, AdminHeld
  <2>4. JobHeld' /\ MailHeld'
    BY <1>1, <2>1 DEF EarlyHeld, JobHeld, MailHeld
  <2> QED
    BY <1>1, <2>3, <2>4 DEF EarlyHeld
<1>6. CASE Early!ApproveUser
  <2>1. UNCHANGED x1 /\ x7.at = "user" /\ x7.guid \in Early!Guids
    BY <1>6 DEF Early!ApproveUser, EarlyInv, EarlyTyped, EarlyCalls
  <2>2. \/ x7' = Early!Idle /\ x3' = x3
        \/ x7' = [x7 EXCEPT !.at = "write"] /\ x3' = x7.guid /\ (x3 # 0 => x3' = x3)
    BY <1>6 DEF Early!ApproveUser, Early!OwnUser
  <2>3. CASE x7' = Early!Idle /\ x3' = x3
    <3>1. CallsOn
      BY <1>1, <2>3, JobIs, SameCalls DEF Early!Idle
    <3> QED
      BY <1>1, <2>1, <2>3, <3>1, HeldSame
  <2>4. CASE x7' = [x7 EXCEPT !.at = "write"] /\ x3' = x7.guid /\ (x3 # 0 => x3' = x3)
    <3>1. x7'.at = "write" /\ x7'.guid = x7.guid
      BY <2>4 DEF EarlyInv, EarlyTyped, EarlyCalls
    <3>2. AdminHeld'
      BY <1>1, <2>1, <2>4, <3>1, SomeGuid DEF EarlyHeld, AdminHeld
    <3>3. JobHeld' /\ MailHeld'
      BY <1>1, <2>1 DEF EarlyHeld, JobHeld, MailHeld
    <3> QED
      BY <1>1, <3>2, <3>3 DEF EarlyHeld
  <2> QED
    BY <2>2, <2>3, <2>4
<1>7. CASE Early!ApproveWrite
  <2> DEFINE g == x7.guid
             r == [x1[g] EXCEPT !.state = "registered", !.verified = TRUE, !.token = 0]
  <2>1. x7.at = "write" /\ g \in Early!Guids /\ x3' = x3 /\ x7' = Early!Idle /\ x1[g] \in Rows
    BY <1>7, <1>1 DEF Early!ApproveWrite, EarlyInv, EarlyTyped, EarlyCalls
  <2>2. CallsOn
    BY <1>1, <2>1, JobIs, SameCalls DEF Early!Idle
  <2>3. CASE UNCHANGED x1
    BY <1>1, <2>1, <2>2, <2>3, HeldSame
  <2>4. CASE x1[g].state = "requested" /\ x1' = [x1 EXCEPT ![g] = r]
    <3>1. r \in Rows /\ r.state = "registered"
      <4> DEFINE p == [x1[g] EXCEPT !.state = "registered"]
                 q == [p EXCEPT !.verified = TRUE]
      <4>1. p \in Rows /\ p.state = "registered"
        BY <2>1 DEF Rows
      <4>2. q \in Rows /\ q.state = p.state
        <5> HIDE DEF p
        <5> QED
          BY <4>1 DEF Rows
      <4>3. r = [q EXCEPT !.token = 0]
        OBVIOUS
      <4> HIDE DEF p, q, r
      <4> QED
        BY <4>1, <4>2, <4>3 DEF Rows
    <3>2. x6[g] \notin {"new", "create"} /\ ~(x9.guid = g /\ x9.at \in {"user", "identity", "rows"}) /\ x3 = g
      BY <2>1, <2>4 DEF EarlyHeld, JobHeld, AdminHeld
    <3> HIDE DEF r
    <3> QED
      BY <1>1, <2>1, <2>2, <2>4, <3>1, <3>2, HeldRow
  <2> QED
    BY <1>7, <2>3, <2>4 DEF Early!ApproveWrite
<1> QED
  BY <1>2, <1>3, <1>4, <1>5, <1>6, <1>7 DEF Early!AdminNext

\* The mail's and the cleanup job's.
LEMMA JobHeldStep ==
  ASSUME EarlyInv, EarlyHeld, \/ \E g \in Early!Guids : Early!JobNext(g)
                              \/ Early!SendMail \/ Early!deleteRequestUser \/ Early!releaseIdentity
                              \/ Early!deleteRequestRows \/ Early!releaseIdentityOfGoneRow \/ Early!Dies
  PROVE  EarlyHeld'
<1>1. x1 \in [Early!Guids -> Rows] /\ x6 \in [Early!Guids -> Asked]
      /\ (x9.at \in {"idle", "user", "identity", "rows", "released"}) /\ (x9.at # "idle" => x9.guid \in Early!Guids)
      /\ (x8.at # "idle" => x8.guid \in Early!Guids) /\ x8.token \in 0..2
      /\ x9 \in [at : {"idle", "user", "identity", "rows", "released"}, guid : {0} \cup Early!Guids]
  BY DEF EarlyInv, EarlyTyped, EarlyCalls
<1>2. ASSUME NEW g \in Early!Guids, Early!FlipVerified(g) PROVE EarlyHeld'
  <2> DEFINE r == [x1[g] EXCEPT !.verified = TRUE]
  <2>1. x1[g] \in Rows /\ UNCHANGED <<x3, x6, x7, x8, x9, x10>> /\ x1' = [x1 EXCEPT ![g] = r]
    BY <1>1, <1>2 DEF Early!FlipVerified
  <2>2. r \in Rows /\ r.state = x1[g].state /\ r.token = x1[g].token /\ r.code = x1[g].code
    BY <2>1 DEF Rows
  <2>3. CallsOn
    BY <1>1, <2>1, JobIs, SameCalls
  <2> HIDE DEF r
  <2>4. x1' \in [Early!Guids -> Rows]
        /\ \A h \in Early!Guids : /\ x1'[h].state = x1[h].state /\ x1'[h].token = x1[h].token
                                  /\ x1'[h].code = x1[h].code
    BY <1>1, <2>1, <2>2
  <2> QED
    BY <1>1, <2>1, <2>3, <2>4, HeldSame
<1>3. ASSUME NEW g \in Early!Guids, Early!ClaimMail(g) PROVE EarlyHeld'
  <2>1. PICK t \in 1..2 : /\ t > x10[g] /\ x1' = [x1 EXCEPT ![g].token = t]
                          /\ x8' = [at |-> "send", guid |-> g, token |-> t]
    BY <1>3 DEF Early!ClaimMail
  <2> DEFINE r == [x1[g] EXCEPT !.token = t]
  <2>2. r.state = x1[g].state /\ r.code = x1[g].code /\ r.token = t /\ x1' = [x1 EXCEPT ![g] = r]
    BY <1>1, <2>1 DEF Rows
  <2> HIDE DEF r
  <2>3. x1'[g] = r /\ \A h \in Early!Guids \ {g} : x1'[h] = x1[h]
    BY <1>1, <2>2
  <2>4. /\ x1[g].state = "requested" /\ x1[g].token = 0 /\ UNCHANGED <<x3, x6, x7, x9, x10>>
        /\ x8'.guid = g /\ x8'.token = t /\ t # 0
    BY <1>3, <2>1 DEF Early!ClaimMail, Early!Claimable
  <2>5. x10[g] = 0 /\ x6[g] \notin {"new", "create", "user"}
    BY <2>4 DEF EarlyHeld, MailHeld, AdminHeld, EarlyInv, EarlyRows
  <2>6. JobHeld' /\ AdminHeld'
    BY <2>2, <2>3, <2>4 DEF EarlyHeld, JobHeld, AdminHeld
  <2>7. MailHeld'
    BY <2>2, <2>3, <2>4, <2>5 DEF EarlyHeld, MailHeld
  <2> QED
    BY <2>4, <2>6, <2>7 DEF EarlyHeld
<1>4. CASE Early!SendMail
  <2> DEFINE g == x8.guid
  <2>1. /\ x8.at = "send" /\ g \in Early!Guids /\ x8' = [at |-> "idle", guid |-> 0, token |-> 0]
        /\ UNCHANGED <<x3, x6, x7, x9>> /\ x1[g] \in Rows
    BY <1>1, <1>4 DEF Early!SendMail
  <2>2. x10[g] = 0 /\ x6[g] \notin {"new", "create", "user"}
        /\ (x1[g].state \in {"requested", "rejected"} => x1[g].token = x8.token)
    BY <2>1 DEF EarlyHeld, MailHeld
  <2>3. CASE x10' = [x10 EXCEPT ![g] = x8.token] /\ x1' = [x1 EXCEPT ![g] = x1[g]]
    <3>1. x1' = x1 /\ x10' \in [Early!Guids -> 0..2] /\ x10'[g] = x8.token
          /\ \A h \in Early!Guids \ {g} : x10'[h] = x10[h]
      BY <1>1, <2>1, <2>3 DEF EarlyHeld
    <3>2. JobHeld' /\ AdminHeld'
      BY <2>1, <3>1 DEF EarlyHeld, JobHeld, AdminHeld
    <3>3. MailHeld'
      BY <2>1, <2>2, <3>1 DEF EarlyHeld, MailHeld
    <3> QED
      BY <3>1, <3>2, <3>3 DEF EarlyHeld
  <2>4. CASE x10' = x10 /\ (x1' = x1 \/ x1' = [x1 EXCEPT ![g].token = 0])
    <3> DEFINE r == [x1[g] EXCEPT !.token = 0]
    <3>1. r.state = x1[g].state /\ r.code = x1[g].code /\ (x1' = x1 \/ x1' = [x1 EXCEPT ![g] = r])
      BY <2>1, <2>4 DEF Rows
    <3> HIDE DEF r
    <3>2. /\ x1'[g].state = x1[g].state /\ x1'[g].code = x1[g].code
          /\ \A h \in Early!Guids \ {g} : x1'[h] = x1[h]
      BY <1>1, <2>1, <3>1
    <3>3. JobHeld' /\ AdminHeld'
      BY <2>1, <3>2 DEF EarlyHeld, JobHeld, AdminHeld
    <3>4. MailHeld'
      BY <2>1, <2>2, <2>4, <3>2 DEF EarlyHeld, MailHeld
    <3> QED
      BY <2>4, <3>3, <3>4 DEF EarlyHeld
  <2> QED
    BY <1>4, <2>3, <2>4 DEF Early!SendMail, Early!Unclaim
<1>5. ASSUME NEW g \in Early!Guids, Early!RemovalRead(g) PROVE EarlyHeld'
  <2>1. /\ UNCHANGED <<x1, x3, x6, x7, x8, x10>> /\ x9' = [at |-> "user", guid |-> g]
        /\ x1[g].state \in {"withdrawn", "rejected"}
    BY <1>5 DEF Early!RemovalRead
  <2>2. JobHeld'
    BY <2>1 DEF EarlyHeld, JobHeld, AdminHeld
  <2>3. AdminHeld' /\ MailHeld'
    BY <2>1 DEF EarlyHeld, AdminHeld, MailHeld
  <2> QED
    BY <2>1, <2>2, <2>3 DEF EarlyHeld
<1>6. CASE Early!deleteRequestUser
  <2>1. /\ UNCHANGED <<x1, x6, x7, x8, x10>> /\ x9.at = "user" /\ x9.guid \in Early!Guids
        /\ x3' = (IF x3 = x9.guid THEN 0 ELSE x3) /\ x9'.guid = x9.guid
    BY <1>1, <1>6 DEF Early!deleteRequestUser
  <2>2. x1[x9.guid].state \in {"withdrawn", "rejected", "none"} /\ x6[x9.guid] \notin {"new", "create"}
    BY <2>1 DEF EarlyHeld, JobHeld
  <2>3. AdminHeld'
    BY <2>1, <2>2 DEF EarlyHeld, AdminHeld
  <2>4. JobHeld' /\ MailHeld'
    BY <2>1, <2>2 DEF EarlyHeld, JobHeld, MailHeld
  <2> QED
    BY <2>1, <2>3, <2>4 DEF EarlyHeld
<1>7. CASE Early!releaseIdentity \/ Early!releaseIdentityOfGoneRow \/ (Early!Dies /\ UNCHANGED x6)
  <2>1. UNCHANGED <<x1, x3, x6, x8, x10>> /\ (x7' = x7 \/ x7'.at = "idle")
    BY <1>7 DEF Early!releaseIdentity, Early!releaseIdentityOfGoneRow, Early!Dies, Early!Idle
  <2>2. (x9'.guid = x9.guid /\ x9.at \in {"user", "identity", "rows"}) \/ x9'.at \in {"idle", "released"}
    BY <1>1, <1>7 DEF Early!releaseIdentity, Early!releaseIdentityOfGoneRow, Early!Dies, Early!Idle
  <2>3. CallsOn
    BY <2>1, <2>2, SameCalls
  <2> QED
    BY <1>1, <2>1, <2>3, HeldSame
<1>8. CASE Early!Dies /\ \E g \in Early!Guids : x6' = [x6 EXCEPT ![g] = "done"] /\ UNCHANGED <<x7, x9>>
  <2>1. PICK g \in Early!Guids : x6' = [x6 EXCEPT ![g] = "done"] /\ UNCHANGED <<x7, x9>>
    BY <1>8
  <2>2. UNCHANGED <<x1, x3, x8, x10>> /\ x6'[g] = "done" /\ \A h \in Early!Guids \ {g} : x6'[h] = x6[h]
    BY <1>1, <1>8, <2>1 DEF Early!Dies
  <2>3. CallsOn
    BY <1>1, <2>1, <2>2, JobIs DEF CallsOn
  <2> QED
    BY <1>1, <2>2, <2>3, HeldSame
<1>9. ASSUME NEW g \in Early!Guids, x1' = x1 \/ x1' = [x1 EXCEPT ![g] = Early!NoRow],
             UNCHANGED <<x3, x6, x7, x8, x10>>, x9'.at \in {"idle", "released"}
      PROVE  EarlyHeld'
  <2>1. Early!NoRow \in Rows /\ Early!NoRow.state = "none"
    BY DEF Early!NoRow, Rows
  <2>2. CallsOn
    BY <1>9, SameCalls
  <2>3. CASE x1' = x1
    BY <1>1, <1>9, <2>2, <2>3, HeldSame
  <2>4. CASE x1' = [x1 EXCEPT ![g] = Early!NoRow]
    BY <1>1, <1>9, <2>1, <2>2, <2>4, HeldRow
  <2> QED
    BY <1>9, <2>3, <2>4
<1>10. CASE Early!deleteRequestRows
  <2>1. x9.guid \in Early!Guids /\ UNCHANGED <<x3, x6, x7, x8, x10>> /\ x9'.at = "idle"
        /\ (x1' = x1 \/ x1' = [x1 EXCEPT ![x9.guid] = Early!NoRow])
    BY <1>1, <1>10 DEF Early!deleteRequestRows, Early!Idle
  <2> QED
    BY <1>9, <2>1
<1>11. ASSUME NEW g \in Early!Guids, Early!RemoveStale(g) PROVE EarlyHeld'
  <2>1. UNCHANGED <<x3, x6, x7, x8, x10>> /\ x1' = [x1 EXCEPT ![g] = Early!NoRow]
        /\ x9'.at \in {"idle", "released"}
    BY <1>11 DEF Early!RemoveStale
  <2> QED
    BY <1>9, <2>1
<1> QED
  BY <1>2, <1>3, <1>4, <1>5, <1>6, <1>7, <1>8, <1>10, <1>11 DEF Early!JobNext, Early!Dies

LEMMA HeldStep == EarlyInv /\ EarlyHeld /\ [Early!Next]_(Early!vars) => EarlyHeld'
<1> SUFFICES ASSUME EarlyInv, EarlyHeld, [Early!Next]_(Early!vars) PROVE EarlyHeld'
  OBVIOUS
<1>1. CASE UNCHANGED Early!vars
  <2>1. UNCHANGED <<x1, x3, x6, x7, x8, x9, x10>> /\ x1 \in [Early!Guids -> Rows]
    BY <1>1 DEF Early!vars, EarlyInv, EarlyTyped
  <2>2. CallsOn
    BY <2>1, JobIs, SameCalls
  <2> QED
    BY <2>1, <2>2, HeldSame
<1> QED
  BY <1>1, PublicHeld, AdminHeldStep, JobHeldStep DEF Early!Next

LEMMA HeldSafe == EarlyHeld => Early!ApprovedCanSignIn /\ Early!LinkWorks
BY DEF EarlyHeld, AdminHeld, MailHeld, Early!ApprovedCanSignIn, Early!LinkWorks

--------------------------------------------------------------------------------
(* The code of an account's deletion (DeletionCode): what is compared was  *)
(* counted before, on the code itself as long as it stands.                *)
CONSTANTS DeletionCodes, MaxAttempts                           \* an account deletion's codes, and the guesses each takes

ASSUME CodeAssumption == DeletionCodes \in Nat /\ MaxAttempts \in Nat

Code == INSTANCE DeletionCode WITH
               Calls <- Two, Codes <- DeletionCodes, MaxAttempts <- MaxAttempts,
               code <- x1, call <- x2, issue <- x3, issued <- x4, compared <- x5, accepted <- x6

Guess     == [at : {"idle", "reserve", "compare", "last", "remove"}, id : {0} \cup Code!Ids, right : BOOLEAN]
Stored    == [id : {0} \cup Code!Ids, attempts : Nat, expired : BOOLEAN]
Comparing(i) == {c \in Two : x2[c].at \in {"compare", "last"} /\ x2[c].id = i}

CodeTyped ==
  /\ x1 \in Stored /\ x2 \in [Two -> Guess] /\ x4 \in Nat
  /\ x5 \in [Code!Ids -> Nat] /\ x6 \in [Code!Ids -> Nat]
  /\ x1.id <= x4 /\ x1.attempts <= MaxAttempts
  /\ \A c \in Two : x2[c].at # "idle" => x2[c].id \in Code!Ids /\ x2[c].id <= x4
CodeCounted == \A i \in Code!Ids :
  /\ x5[i] + Cardinality(Comparing(i)) <= MaxAttempts
  /\ x1.id = i => x5[i] + Cardinality(Comparing(i)) <= x1.attempts
  /\ i > x4 => x5[i] = 0
CodeSpent == \A i \in Code!Ids : x6[i] <= 1 /\ (x1.id = i \/ i > x4 => x6[i] = 0)

CodeInv == CodeTyped /\ CodeCounted /\ CodeSpent

LEMMA CodeInit == Code!Init => CodeInv
<1> SUFFICES ASSUME Code!Init PROVE CodeInv
  OBVIOUS
<1>1. x1 \in Stored /\ x1.id = 0 /\ x1.attempts = 0 /\ Code!NoCall \in Guess
  BY DEF Code!Init, Code!NoCode, Code!NoCall, Code!Ids, Stored, Guess
<1>2. Code!NoCall.at = "idle" /\ \A c \in Two : x2[c] = Code!NoCall
  BY DEF Code!Init, Code!NoCall
<1>3. x2 \in [Two -> Guess] /\ \A c \in Two : x2[c].at = "idle"
  BY <1>1, <1>2 DEF Code!Init
<1>4. x4 = 0 /\ x5 = [i \in Code!Ids |-> 0] /\ x6 = [i \in Code!Ids |-> 0] /\ x1.id <= x4 /\ x1.attempts <= MaxAttempts
  BY <1>1, CodeAssumption DEF Code!Init
<1>0. CodeTyped /\ CodeSpent
  <2>1. x4 \in Nat /\ x5 \in [Code!Ids -> Nat] /\ x6 \in [Code!Ids -> Nat] /\ \A i \in Code!Ids : x6[i] = 0
    BY <1>4
  <2>2. CodeTyped
    BY <1>1, <1>3, <1>4, <2>1 DEF CodeTyped
  <2> QED
    BY <2>1, <2>2 DEF CodeSpent
<1>5. \A i \in Code!Ids : Comparing(i) = {}
  BY DEF Comparing, Code!Init, Code!NoCall
<1>6. CodeCounted
  <2>1. Cardinality({}) = 0
    BY FS_EmptySet
  <2>2. \A i \in Code!Ids : Cardinality(Comparing(i)) = 0 /\ x5[i] = 0 /\ x1.id # i
    BY <1>1, <1>4, <1>5, <2>1 DEF Code!Ids
  <2> QED
    BY <2>2, CodeAssumption DEF CodeCounted
<1> QED
  BY <1>0, <1>6 DEF CodeInv

\* A step that lets no guess join those compared and takes nothing from the counts keeps them.
LEMMA CodeKept ==
  ASSUME CodeInv, CodeTyped', x4' >= x4, x5' = x5,
         \A i \in Code!Ids : Comparing(i)' \subseteq Comparing(i),
         \A i \in Code!Ids : x1'.id = i => \/ x1.id = i /\ x1'.attempts >= x1.attempts
                                           \/ i > x4
  PROVE  CodeCounted'
<1>1. \A i \in Code!Ids : i > x4 => Comparing(i) = {}
  BY DEF CodeInv, CodeTyped, Comparing, Code!Ids
<1>2. \A i \in Code!Ids : /\ Cardinality(Comparing(i)) \in Nat /\ Cardinality(Comparing(i)') \in Nat
                          /\ Cardinality(Comparing(i)') <= Cardinality(Comparing(i))
  <2> TAKE i \in Code!Ids
  <2>1. IsFiniteSet(Comparing(i))
    BY FS_Subset, ValuesAssumption, CodeAssumption DEF Comparing
  <2> QED
    BY <2>1, FS_Subset, FS_CardinalityType
<1>3. \A i \in Code!Ids : i > x4 => x5[i] = 0 /\ Cardinality(Comparing(i)) = 0
  BY <1>1, FS_EmptySet DEF CodeInv, CodeCounted
<1> QED
  <2> SUFFICES ASSUME NEW i \in Code!Ids
      PROVE /\ x5[i] + Cardinality(Comparing(i)') <= MaxAttempts
            /\ x1'.id = i => x5[i] + Cardinality(Comparing(i)') <= x1'.attempts
            /\ i > x4' => x5[i] = 0
    BY DEF CodeCounted
  <2>1. /\ x5[i] \in Nat /\ Cardinality(Comparing(i)) \in Nat /\ Cardinality(Comparing(i)') \in Nat
        /\ x4 \in Nat /\ x4' \in Nat /\ i \in Nat /\ x1.attempts \in Nat /\ x1'.attempts \in Nat /\ MaxAttempts \in Nat
    BY <1>2, CodeAssumption DEF CodeInv, CodeTyped, Code!Ids, Stored
  <2>2. x5[i] + Cardinality(Comparing(i)) <= MaxAttempts /\ (x1.id = i => x5[i] + Cardinality(Comparing(i)) <= x1.attempts)
    BY DEF CodeInv, CodeCounted
  <2>3. x5[i] + Cardinality(Comparing(i)') <= MaxAttempts
    BY <1>2, <2>1, <2>2
  <2>4. ASSUME x1'.id = i PROVE x5[i] + Cardinality(Comparing(i)') <= x1'.attempts
    <3>1. CASE x1.id = i /\ x1'.attempts >= x1.attempts
      BY <1>2, <2>1, <2>2, <3>1
    <3>2. CASE i > x4
      BY <1>2, <1>3, <2>1, <3>2
    <3> QED
      BY <2>4, <3>1, <3>2
  <2>5. i > x4' => x5[i] = 0
    BY <1>3, <2>1
  <2> QED
    BY <2>3, <2>4, <2>5

\* A request that goes on is one: where it is changes, the code it read does not.
LEMMA GoesOn ==
  ASSUME NEW g \in Guess, NEW a \in {"idle", "reserve", "compare", "last", "remove"}
  PROVE  /\ [g EXCEPT !.at = a] \in Guess
         /\ [g EXCEPT !.at = a].at = a
         /\ [g EXCEPT !.at = a].id = g.id
BY DEF Guess

LEMMA CodeStep == CodeInv /\ [Code!Next]_Code!vars => CodeInv'
<1> SUFFICES ASSUME CodeInv, [Code!Next]_Code!vars PROVE CodeInv'
  OBVIOUS
<1> USE DEF CodeInv
<1>0. \A i \in Code!Ids : i \in Nat \ {0}
  BY DEF Code!Ids
<1>g. Code!NoCall \in Guess /\ Code!NoCall.at = "idle" /\ Code!NoCode \in Stored /\ Code!NoCode.id = 0
      /\ Code!NoCode.attempts = 0
  BY DEF Code!NoCall, Code!NoCode, Guess, Stored
<1>1. CASE Code!Issue
  <2>1. x4 + 1 \in Code!Ids /\ x4' = x4 + 1 /\ UNCHANGED <<x2, x5, x6>>
    <3>1. x4 < DeletionCodes /\ x4' = x4 + 1 /\ UNCHANGED <<x2, x5, x6>>
      BY <1>1 DEF Code!Issue
    <3>2. x4 \in Nat
      BY DEF CodeTyped
    <3> QED
      BY <3>1, <3>2, CodeAssumption DEF Code!Ids
  <2>2. x1' \in Stored /\ x1'.id = x4 + 1 /\ x1'.attempts = 0
    <3>1. \A n \in Code!Ids : /\ [Code!NoCode EXCEPT !.id = n] \in Stored /\ [Code!NoCode EXCEPT !.id = n].id = n
                             /\ [Code!NoCode EXCEPT !.id = n].attempts = 0
      BY DEF Code!NoCode, Stored
    <3>2. x1' = [Code!NoCode EXCEPT !.id = x4 + 1]
      BY <1>1 DEF Code!Issue
    <3> QED
      BY <2>1, <3>1, <3>2
  <2>3. CodeTyped'
    <3>1. x4' \in Nat /\ x4' = x4 + 1 /\ x1'.id <= x4' /\ x1'.attempts <= MaxAttempts
      BY <2>1, <2>2, CodeAssumption DEF CodeTyped
    <3>2. \A c \in Two : x2[c].at # "idle" => x2[c].id \in Code!Ids /\ x2[c].id <= x4 + 1
      BY <1>0 DEF CodeTyped
    <3> QED
      BY <2>1, <2>2, <3>1, <3>2 DEF CodeTyped
  <2>4. CodeCounted'
    <3>1. x4 \in Nat /\ x4' \in Nat /\ x4' >= x4 /\ x4 + 1 > x4
      BY <2>1 DEF CodeTyped
    <3>2. \A i \in Code!Ids : Comparing(i)' \subseteq Comparing(i)
      BY <2>1 DEF Comparing
    <3>3. \A i \in Code!Ids : x1'.id = i => i > x4
      BY <2>2, <3>1
    <3> QED
      BY <2>1, <2>3, <3>1, <3>2, <3>3, CodeKept
  <2>5. CodeSpent'
    BY <1>0, <2>1, <2>2 DEF CodeSpent, CodeTyped
  <2> QED
    BY <2>3, <2>4, <2>5
<1>2. CASE Code!Mail \/ Code!CodeExpires
  <2>1. UNCHANGED <<x2, x4, x5, x6>>
    BY <1>2 DEF Code!Mail, Code!CodeExpires
  <2>2. x1' \in Stored /\ ((x1'.id = 0 /\ x1'.attempts = 0) \/ (x1'.id = x1.id /\ x1'.attempts = x1.attempts))
    <3> DEFINE y == [x1 EXCEPT !.expired = TRUE]
    <3>1. x1 \in Stored
      BY DEF CodeTyped
    <3>2. x1' = x1 \/ x1' = Code!NoCode \/ x1' = y
      BY <1>2 DEF Code!Mail, Code!CodeExpires
    <3>3. y \in Stored /\ y.id = x1.id /\ y.attempts = x1.attempts
      BY <3>1 DEF Stored
    <3> HIDE DEF y
    <3> QED
      BY <1>g, <3>1, <3>2, <3>3
  <2>3. CodeTyped'
    BY <2>1, <2>2, CodeAssumption DEF CodeTyped
  <2>4. CodeCounted'
    <3>1. x4 \in Nat /\ x4' >= x4 /\ x1.attempts \in Nat
      BY <2>1 DEF CodeTyped, Stored
    <3>2. \A i \in Code!Ids : Comparing(i)' \subseteq Comparing(i)
      BY <2>1 DEF Comparing
    <3>3. \A i \in Code!Ids : x1'.id = i => x1.id = i /\ x1'.attempts >= x1.attempts
      BY <1>0, <2>2, <3>1
    <3> QED
      BY <2>1, <2>3, <3>1, <3>2, <3>3, CodeKept
  <2>5. CodeSpent'
    BY <1>0, <2>1, <2>2 DEF CodeSpent
  <2> QED
    BY <2>3, <2>4, <2>5
<1>3. ASSUME NEW c \in Two, Code!Read(c) \/ Code!Stops(c) PROVE CodeInv'
  <2>1. UNCHANGED <<x1, x4, x5, x6>>
    BY <1>3 DEF Code!Read, Code!Stops
  <2>2. PICK g \in Guess : /\ x2' = [x2 EXCEPT ![c] = g] /\ g.at \in {"idle", "reserve"}
                           /\ g.at # "idle" => g.id = x1.id /\ x1.id # 0
    <3>1. CASE Code!Stops(c)
      BY <1>g, <3>1 DEF Code!Stops
    <3>2. CASE Code!Read(c)
      <4>1. PICK right \in BOOLEAN : x2' = [x2 EXCEPT ![c] = [at |-> "reserve", id |-> x1.id, right |-> right]]
        BY <3>2 DEF Code!Read
      <4>2. x1.id \in {0} \cup Code!Ids /\ x1.id # 0
        BY <3>2 DEF Code!Read, CodeTyped, Stored
      <4> DEFINE g == [at |-> "reserve", id |-> x1.id, right |-> right]
      <4>3. g \in Guess /\ g.at = "reserve" /\ g.id = x1.id
        BY <4>2 DEF Guess
      <4>4. x2' = [x2 EXCEPT ![c] = g]
        BY <4>1
      <4> HIDE DEF g
      <4> QED
        BY <4>2, <4>3, <4>4
    <3> QED
      BY <1>3, <3>1, <3>2
  <2>3. CodeTyped'
    BY <2>1, <2>2 DEF CodeTyped, Stored
  <2>4. \A i \in Code!Ids : Comparing(i)' \subseteq Comparing(i)
    BY <2>2 DEF Comparing, CodeTyped
  <2>5. CodeCounted'
    BY <2>1, <2>3, <2>4, CodeKept DEF CodeTyped, Stored
  <2>6. CodeSpent'
    BY <2>1 DEF CodeSpent
  <2> QED
    BY <2>3, <2>5, <2>6
<1>4. ASSUME NEW c \in Two, Code!Reserve(c) PROVE CodeInv'
  <2>1. UNCHANGED <<x4, x5, x6>>
    BY <1>4 DEF Code!Reserve
  <2>2. CASE x1.id = x2[c].id /\ x1.attempts < MaxAttempts
             /\ x1' = [x1 EXCEPT !.attempts = @ + 1]
             /\ x2' = [x2 EXCEPT ![c].at = IF x1.attempts + 1 >= MaxAttempts THEN "last" ELSE "compare"]
    <3>1. x1' \in Stored /\ x1'.id = x1.id /\ x1'.attempts = x1.attempts + 1
      <4>1. \A n \in Nat : /\ [x1 EXCEPT !.attempts = n] \in Stored /\ [x1 EXCEPT !.attempts = n].id = x1.id
                           /\ [x1 EXCEPT !.attempts = n].attempts = n
        BY DEF CodeTyped, Stored
      <4>2. x1.attempts + 1 \in Nat
        BY DEF CodeTyped, Stored
      <4>3. x1' = [x1 EXCEPT !.attempts = x1.attempts + 1]
        BY <2>2
      <4> QED
        BY <4>1, <4>2, <4>3
    <3> DEFINE j == x2[c].id
    <3>2. j \in Code!Ids /\ j <= x4 /\ x2[c].at = "reserve" /\ x1.id = j
      BY <1>4, <2>2 DEF Code!Reserve, CodeTyped
    <3>3. PICK g \in Guess : x2' = [x2 EXCEPT ![c] = g] /\ g.at \in {"last", "compare"} /\ g.id = j
      <4> DEFINE a == IF x1.attempts + 1 >= MaxAttempts THEN "last" ELSE "compare"
      <4>1. a \in {"last", "compare"} /\ x2[c] \in Guess /\ x2' = [x2 EXCEPT ![c] = [x2[c] EXCEPT !.at = a]]
        BY <2>2 DEF CodeTyped
      <4> HIDE DEF a
      <4>2. [x2[c] EXCEPT !.at = a] \in Guess /\ [x2[c] EXCEPT !.at = a].at = a /\ [x2[c] EXCEPT !.at = a].id = j
        <5>1. a \in {"idle", "reserve", "compare", "last", "remove"} /\ x2[c] \in Guess
          BY <4>1
        <5>2. [x2[c] EXCEPT !.at = a] \in Guess /\ [x2[c] EXCEPT !.at = a].at = a
              /\ [x2[c] EXCEPT !.at = a].id = x2[c].id
          BY ONLY <5>1, GoesOn, Zenon
        <5> QED
          BY <5>2
      <4> QED
        BY <4>1, <4>2
    <3>4. CodeTyped'
      <4>1. x1'.id <= x4 /\ x1'.attempts <= MaxAttempts
        BY <2>2, <3>1, CodeAssumption DEF CodeTyped, Stored
      <4>2. x2' \in [Two -> Guess] /\ \A d \in Two : x2'[d].at # "idle" => x2'[d].id \in Code!Ids /\ x2'[d].id <= x4
        BY <3>2, <3>3 DEF CodeTyped
      <4> QED
        BY <2>1, <3>1, <4>1, <4>2 DEF CodeTyped
    <3>5. \A i \in Code!Ids : /\ i # j => Comparing(i)' \subseteq Comparing(i)
                              /\ Comparing(i)' \subseteq Comparing(i) \cup {c}
      BY <3>3 DEF Comparing, CodeTyped
    <3> HIDE DEF j
    <3>6. CodeCounted'
      <4> SUFFICES ASSUME NEW i \in Code!Ids
          PROVE /\ x5[i] + Cardinality(Comparing(i)') <= MaxAttempts
                /\ x1'.id = i => x5[i] + Cardinality(Comparing(i)') <= x1'.attempts
                /\ i > x4 => x5[i] = 0
        BY <2>1 DEF CodeCounted
      <4>1. /\ x5[i] \in Nat /\ Cardinality(Comparing(i)) \in Nat /\ Cardinality(Comparing(i)') \in Nat
            /\ i # j => Cardinality(Comparing(i)') <= Cardinality(Comparing(i))
            /\ Cardinality(Comparing(i)') <= Cardinality(Comparing(i)) + 1
        <5>1. Comparing(i) \in SUBSET Two /\ Comparing(i)' \in SUBSET Two
          BY DEF Comparing
        <5>2. IsFiniteSet(Two) /\ c \in Two
          BY ValuesAssumption, CodeAssumption
        <5> QED
          BY <3>5, <5>1, <5>2, Counted DEF CodeTyped
      <4>2. /\ x5[i] + Cardinality(Comparing(i)) <= MaxAttempts
            /\ x1.id = i => x5[i] + Cardinality(Comparing(i)) <= x1.attempts
            /\ i > x4 => x5[i] = 0
        BY DEF CodeCounted
      <4>3. x1.attempts \in Nat /\ MaxAttempts \in Nat /\ x1.attempts + 1 <= MaxAttempts
        BY <2>2, CodeAssumption DEF CodeTyped, Stored
      <4>4. CASE i = j
        BY <3>1, <3>2, <4>1, <4>2, <4>3, <4>4
      <4>5. CASE i # j
        BY <3>1, <3>2, <4>1, <4>2, <4>3, <4>5
      <4> QED
        BY <4>4, <4>5
    <3>7. CodeSpent'
      BY <2>1, <3>1 DEF CodeSpent
    <3> QED
      BY <3>4, <3>6, <3>7
  <2>3. CASE x1' = x1 /\ x2' = [x2 EXCEPT ![c] = Code!NoCall]
    <3>1. CodeTyped'
      BY <1>g, <2>1, <2>3 DEF CodeTyped
    <3>2. \A i \in Code!Ids : Comparing(i)' \subseteq Comparing(i)
      BY <1>g, <2>3 DEF Comparing, CodeTyped
    <3>3. CodeCounted'
      BY <2>1, <2>3, <3>1, <3>2, CodeKept DEF CodeTyped, Stored
    <3> QED
      BY <2>1, <2>3, <3>1, <3>3 DEF CodeSpent
  <2> QED
    BY <1>4, <2>2, <2>3 DEF Code!Reserve, Code!AttemptLeft
<1>5. ASSUME NEW c \in Two, Code!Compare(c) PROVE CodeInv'
  <2> DEFINE j == x2[c].id
  <2>1. UNCHANGED <<x1, x4, x6>> /\ j \in Code!Ids /\ j <= x4 /\ c \in Comparing(j)
    BY <1>5 DEF Code!Compare, CodeTyped, Comparing
  <2>2. x5' = [x5 EXCEPT ![j] = x5[j] + 1]
    BY <1>5 DEF Code!Compare
  <2>3. PICK g \in Guess : x2' = [x2 EXCEPT ![c] = g] /\ g.at \in {"remove", "idle"} /\ (g.at # "idle" => g.id = j)
    <3>1. x2[c] \in Guess /\ \/ x2' = [x2 EXCEPT ![c] = [x2[c] EXCEPT !.at = "remove"]]
                             \/ x2' = [x2 EXCEPT ![c] = Code!NoCall]
      BY <1>5 DEF Code!Compare, CodeTyped
    <3>2. /\ [x2[c] EXCEPT !.at = "remove"] \in Guess /\ [x2[c] EXCEPT !.at = "remove"].at = "remove"
          /\ [x2[c] EXCEPT !.at = "remove"].id = j
      BY <3>1, GoesOn
    <3> QED
      BY <1>g, <3>1, <3>2
  <2>4. CodeTyped'
    BY <2>1, <2>2, <2>3 DEF CodeTyped
  <2>5. \A i \in Code!Ids : Comparing(i)' \subseteq Comparing(i) \ {c}
    BY <2>3 DEF Comparing, CodeTyped
  <2> HIDE DEF j
  <2>6. CodeCounted'
    <3> SUFFICES ASSUME NEW i \in Code!Ids
        PROVE /\ x5'[i] + Cardinality(Comparing(i)') <= MaxAttempts
              /\ x1.id = i => x5'[i] + Cardinality(Comparing(i)') <= x1.attempts
              /\ i > x4 => x5'[i] = 0
      BY <2>1 DEF CodeCounted
    <3>1. /\ x5[i] \in Nat /\ Cardinality(Comparing(i)) \in Nat /\ Cardinality(Comparing(i)') \in Nat
          /\ i = j => Cardinality(Comparing(i)') + 1 <= Cardinality(Comparing(i))
          /\ Cardinality(Comparing(i)') <= Cardinality(Comparing(i))
      <4>1. Comparing(i) \in SUBSET Two /\ Comparing(i)' \in SUBSET Two
        BY DEF Comparing
      <4>2. IsFiniteSet(Two) /\ c \in Two
        BY ValuesAssumption, CodeAssumption
      <4> QED
        BY <2>1, <2>5, <4>1, <4>2, Counted DEF CodeTyped
    <3>2. /\ x5[i] + Cardinality(Comparing(i)) <= MaxAttempts
          /\ x1.id = i => x5[i] + Cardinality(Comparing(i)) <= x1.attempts
          /\ i > x4 => x5[i] = 0
      BY DEF CodeCounted
    <3>3. x1.attempts \in Nat /\ MaxAttempts \in Nat /\ x4 \in Nat
      BY CodeAssumption DEF CodeTyped, Stored
    <3>4. CASE i = j
      BY <1>0, <2>1, <2>2, <3>1, <3>2, <3>3, <3>4 DEF CodeTyped
    <3>5. CASE i # j
      BY <2>2, <3>1, <3>2, <3>3, <3>5 DEF CodeTyped
    <3> QED
      BY <3>4, <3>5
  <2>7. CodeSpent'
    BY <2>1 DEF CodeSpent
  <2> QED
    BY <2>4, <2>6, <2>7
<1>6. ASSUME NEW c \in Two, Code!Remove(c) PROVE CodeInv'
  <2> DEFINE j == x2[c].id
  <2>1. UNCHANGED <<x4, x5>> /\ j \in Code!Ids /\ j <= x4 /\ x2' = [x2 EXCEPT ![c] = Code!NoCall]
    BY <1>6 DEF Code!Remove, CodeTyped
  <2>2. \/ x1.id = j /\ x1' = Code!NoCode
        \/ x1' = x1 /\ x1.id # j
    BY <1>6 DEF Code!Remove
  <2>3. \/ x6' = x6
        \/ x1.id = j /\ x6' = [x6 EXCEPT ![j] = x6[j] + 1]
    BY <1>6 DEF Code!Remove, Code!Spent
  <2> HIDE DEF j
  <2>4. CodeTyped'
    <3>1. x1' \in Stored /\ x1'.id <= x4 /\ x1'.attempts <= MaxAttempts
      BY <1>g, <2>2, CodeAssumption DEF CodeTyped
    <3>2. x2' \in [Two -> Guess] /\ \A d \in Two : x2'[d].at # "idle" => x2'[d].id \in Code!Ids /\ x2'[d].id <= x4
      BY <1>g, <2>1 DEF CodeTyped
    <3>3. x6' \in [Code!Ids -> Nat]
      BY <2>1, <2>3 DEF CodeTyped
    <3> QED
      BY <2>1, <3>1, <3>2, <3>3 DEF CodeTyped
  <2>5. \A i \in Code!Ids : Comparing(i)' \subseteq Comparing(i)
    BY <1>g, <2>1 DEF Comparing, CodeTyped
  <2>6. CodeCounted'
    BY <1>0, <1>g, <2>1, <2>2, <2>4, <2>5, CodeKept DEF CodeTyped, Stored
  <2>7. CodeSpent'
    BY <1>0, <1>g, <2>1, <2>2, <2>3 DEF CodeSpent, CodeTyped
  <2> QED
    BY <2>4, <2>6, <2>7
<1>7. CASE UNCHANGED Code!vars
  <2>1. UNCHANGED <<x1, x2, x3, x4, x5, x6>>
    BY <1>7 DEF Code!vars
  <2> QED
    BY <2>1 DEF CodeTyped, CodeCounted, CodeSpent, Comparing
<1> QED
  BY <1>1, <1>2, <1>3, <1>4, <1>5, <1>6, <1>7 DEF Code!Next

LEMMA CodeSafe == CodeInv => Code!GuessesBounded /\ Code!OneUse
<1> SUFFICES ASSUME CodeInv PROVE Code!GuessesBounded /\ Code!OneUse
  OBVIOUS
<1>1. ASSUME NEW i \in Code!Ids PROVE x5[i] <= MaxAttempts
  <2>1. Comparing(i) \in SUBSET Two /\ IsFiniteSet(Two)
    BY ValuesAssumption, CodeAssumption DEF Comparing
  <2>2. Cardinality(Comparing(i)) \in Nat
    BY <2>1, FS_Subset, FS_CardinalityType
  <2> QED
    BY <2>2, CodeAssumption DEF CodeInv, CodeTyped, CodeCounted
<1> QED
  BY <1>1 DEF Code!GuessesBounded, Code!OneUse, CodeInv, CodeSpent

--------------------------------------------------------------------------------
(***************************************************************************)
(* The releases' routing rows, for any documents that were ever signed and *)
(* any number of runs that overlap (ManifestSync: row is x1, published x2, *)
(* run x3, synced x4, syncs x5).  Once a run has written a row of its      *)
(* manifest, some row is of one as new, and stays so: a row is replaced    *)
(* only by one as new, and deleted only by a run that has itself written   *)
(* one that is newer.  So a run that begins later is of no older one.      *)
(***************************************************************************)
CONSTANTS SyncReleases, SyncDocs, SyncPinned, SyncRuns     \* releases, the documents, the pinned keys; runs

ASSUME SyncAssumption ==
  /\ SyncRuns \in Nat /\ Len(SyncDocs) \in Nat
  /\ \A d \in 1..Len(SyncDocs) : /\ SyncDocs[d].serial \in Nat
                                 /\ SyncDocs[d].list \in Seq([number : Nat, pcr0 : SyncReleases])

Sync == INSTANCE ManifestSync WITH
               Releases <- SyncReleases, Runs <- Two, Docs <- SyncDocs, Pinned <- SyncPinned, MaxSyncs <- SyncRuns,
               row <- x1, published <- x2, run <- x3, synced <- x4, syncs <- x5

SyncJobs == [at : {"idle", "plan", "write"}, doc : Nat, puts : SUBSET SyncReleases, dels : SUBSET SyncReleases, base : Nat]

SyncGood(d) == d \in Sync!Manifests /\ Sync!Verifies(d) /\ Sync!Formed(d)

\* Some row is of a manifest as new as k.
SyncAbove(k) == \E r \in SyncReleases : x1[r] \in Sync!Manifests /\ k <= Sync!Serial(x1[r])

SyncJobFits(v) ==
  /\ v.at # "idle" => SyncGood(v.doc)
  /\ v.at = "write" => /\ v.puts \subseteq Sync!Listed(v.doc) /\ v.base <= Sync!Serial(v.doc)
                       /\ v.puts # Sync!Listed(v.doc) => SyncAbove(Sync!Serial(v.doc))

SyncInv ==
  /\ x1 \in [SyncReleases -> {0, -1} \cup Sync!Manifests] /\ x2 \in 0..Len(SyncDocs)
  /\ x3 \in [Two -> SyncJobs] /\ x4 \in Nat
  /\ \A r \in SyncReleases : x1[r] \in Sync!Manifests => SyncGood(x1[r]) /\ r \in Sync!Listed(x1[r])
  /\ \A n \in Two : SyncJobFits(x3[n])
  /\ x4 = 0 \/ SyncAbove(x4)

LEMMA SyncNumbers ==
  /\ Len(SyncDocs) \in Nat /\ 0 \notin Sync!Manifests /\ -1 \notin Sync!Manifests /\ Sync!Manifests \subseteq Nat
  /\ Sync!None = 0 /\ Sync!Canary = -1
  /\ \A d \in Sync!Manifests : Sync!Serial(d) \in Nat /\ Sync!Listed(d) \subseteq SyncReleases
  /\ \A d : SyncGood(d) => d \in Sync!Manifests /\ Sync!Listed(d) # {}
<1>1. Sync!Manifests = 1..Len(SyncDocs) /\ Len(SyncDocs) \in Nat
  BY SyncAssumption DEF Sync!Manifests
<1>2. ASSUME NEW d \in Sync!Manifests
      PROVE  /\ Sync!Serial(d) \in Nat /\ Sync!Listed(d) \subseteq SyncReleases
             /\ SyncDocs[d].list # <<>> => Sync!Listed(d) # {}
  <2>1. SyncDocs[d].serial \in Nat /\ SyncDocs[d].list \in Seq([number : Nat, pcr0 : SyncReleases])
    BY <1>1, SyncAssumption
  <2> DEFINE l == SyncDocs[d].list
  <2> HIDE DEF l
  <2>5. l \in Seq([number : Nat, pcr0 : SyncReleases])
    BY <2>1 DEF l
  <2>6. DOMAIN l = 1..Len(l) /\ Len(l) \in Nat /\ \A i \in DOMAIN l : l[i] \in [number : Nat, pcr0 : SyncReleases]
    BY <2>5, SequenceParts
  <2>7. \A i \in DOMAIN l : l[i].pcr0 \in SyncReleases
    BY <2>6
  <2>2. /\ DOMAIN SyncDocs[d].list = 1..Len(SyncDocs[d].list) /\ Len(SyncDocs[d].list) \in Nat
        /\ \A i \in DOMAIN SyncDocs[d].list : SyncDocs[d].list[i].pcr0 \in SyncReleases
    BY <2>6, <2>7 DEF l
  <2>3. Sync!Listed(d) = {SyncDocs[d].list[i].pcr0 : i \in DOMAIN SyncDocs[d].list}
    BY DEF Sync!Listed, Sync!Entries, Sync!Range
  <2>4. SyncDocs[d].list # <<>> => 1 \in DOMAIN SyncDocs[d].list
    BY <2>1, <2>2
  <2> QED
    BY <2>1, <2>2, <2>3, <2>4 DEF Sync!Serial
<1> QED
  BY <1>1, <1>2 DEF SyncGood, Sync!Formed, Sync!None, Sync!Canary

LEMMA SyncSerials == \A d \in Sync!Manifests : Sync!Serial(d) \in Nat
  BY SyncNumbers

LEMMA SyncRows == \A q \in Sync!Synced : x1[q] \in Sync!Manifests /\ Sync!Serial(x1[q]) \in Nat
  BY SyncSerials DEF Sync!Synced

\* The newest row there is.
LEMMA SyncTop ==
  ASSUME SyncInv, NEW r \in SyncReleases, x1[r] \in Sync!Manifests
  PROVE  Sync!Top \in Nat /\ Sync!Serial(x1[r]) <= Sync!Top
<1> DEFINE S == {0} \cup {Sync!Serial(x1[q]) : q \in Sync!Synced}
           F == [d \in Sync!Manifests |-> Sync!Serial(d)]
           T == {Sync!Serial(d) : d \in Sync!Manifests}
<1>1. IsFiniteSet(Sync!Manifests)
  BY SyncNumbers, FS_Interval DEF Sync!Manifests
<1>2. F \in Surjection(Sync!Manifests, T)
  BY DEF Surjection
<1>3. IsFiniteSet(T)
  BY <1>1, <1>2, FS_Surjection
<1>4. IsFiniteSet(T \cup {0})
  BY <1>3, FS_AddElement
<1>5. S \subseteq T \cup {0} /\ S \subseteq Nat /\ S # {}
  BY SyncRows
<1>6. IsFiniteSet(S)
  BY <1>4, <1>5, FS_Subset
<1>7. \E m \in S : \A x \in S : x <= m
  BY <1>5, <1>6, HasGreatest
<1>8. \E m \in S : \A x \in S : m >= x
  BY <1>5, <1>7
<1>9. Sync!Top \in S /\ \A x \in S : Sync!Top >= x
  BY <1>8 DEF Sync!Top, Sync!Max
<1>10. Sync!Serial(x1[r]) \in S
  BY DEF Sync!Synced
<1> QED
  BY <1>5, <1>9, <1>10

\* Rows that stay as new keep what is above.
LEMMA SyncKept ==
  ASSUME SyncInv, x1' \in [SyncReleases -> {0, -1} \cup Sync!Manifests],
         \A r \in SyncReleases : x1[r] \in Sync!Manifests =>
           x1'[r] \in Sync!Manifests /\ Sync!Serial(x1[r]) <= Sync!Serial(x1'[r])
  PROVE  \A k \in Nat : SyncAbove(k) => SyncAbove(k)'
<1> SUFFICES ASSUME NEW k \in Nat, SyncAbove(k) PROVE SyncAbove(k)'
  OBVIOUS
<1>1. PICK r \in SyncReleases : x1[r] \in Sync!Manifests /\ k <= Sync!Serial(x1[r])
  BY DEF SyncAbove
<1>2. x1'[r] \in Sync!Manifests /\ Sync!Serial(x1[r]) <= Sync!Serial(x1'[r])
  BY <1>1
<1>4. Sync!Serial(x1[r]) \in Nat /\ Sync!Serial(x1'[r]) \in Nat
  BY <1>1, <1>2, SyncSerials
<1>3. k <= Sync!Serial(x1'[r])
  BY <1>1, <1>2, <1>4
<1> QED
  BY <1>2, <1>3 DEF SyncAbove

LEMMA SyncInit == Sync!Init => SyncInv
<1> SUFFICES ASSUME Sync!Init PROVE SyncInv
  OBVIOUS
<1>1. x1 = [r \in SyncReleases |-> 0] /\ x2 = 0 /\ x3 = [n \in Two |-> Sync!Idle] /\ x4 = 0
  BY DEF Sync!Init, Sync!None
<1>2. Sync!Idle \in SyncJobs /\ Sync!Idle.at = "idle"
  BY DEF Sync!Idle, SyncJobs
<1> QED
  BY <1>1, <1>2, SyncNumbers DEF SyncInv, SyncJobFits

\* A run's own place changes, and no row.
LEMMA SyncGoesOn ==
  ASSUME SyncInv, UNCHANGED <<x1, x2>>, NEW n \in Two, NEW v \in SyncJobs, x3' = [x3 EXCEPT ![n] = v],
         SyncJobFits(v), x4' \in Nat, x4' = 0 \/ SyncAbove(x4')
  PROVE  SyncInv' /\ Sync!NoRollback
<1>1. \A m \in Two : x3'[m] = IF m = n THEN v ELSE x3[m]
  BY DEF SyncInv
<1>2. \A m \in Two : SyncJobFits(x3'[m])
  BY <1>1 DEF SyncInv
<1>3. \A k : SyncAbove(k) = SyncAbove(k)'
  BY DEF SyncAbove
<1>4. (\A m \in Two : SyncJobFits(x3[m]))'
  BY <1>2, <1>3 DEF SyncJobFits
<1>5. SyncInv'
  BY <1>3, <1>4 DEF SyncInv
<1>6. \A r \in Sync!Synced : Sync!Serial(x1'[r]) >= Sync!Serial(x1[r])
  BY SyncRows
<1>7. \A m \in Two : x3'[m].at = "write" => Sync!Serial(x3'[m].doc) >= x3'[m].base
  BY <1>2, <1>5, SyncNumbers DEF SyncInv, SyncJobFits, SyncJobs
<1> QED
  BY <1>5, <1>6, <1>7 DEF Sync!NoRollback

LEMMA SyncPlans ==
  ASSUME SyncInv, NEW n \in Two, Sync!Fetch(n) \/ Sync!Plan(n) \/ Sync!Finish(n) \/ Sync!Fails(n)
  PROVE  SyncInv' /\ Sync!NoRollback
<1>1. UNCHANGED <<x1, x2>> /\ x3[n] \in SyncJobs /\ SyncJobFits(x3[n]) /\ x4 \in Nat /\ (x4 = 0 \/ SyncAbove(x4))
  BY DEF SyncInv, Sync!Fetch, Sync!Plan, Sync!Finish, Sync!Fails
<1>2. Sync!Idle \in SyncJobs /\ SyncJobFits(Sync!Idle)
  BY DEF Sync!Idle, SyncJobs, SyncJobFits
<1>3. CASE x3' = [x3 EXCEPT ![n] = Sync!Idle] /\ x4' = x4
  BY <1>1, <1>2, <1>3, SyncGoesOn
<1>4. CASE x3' = x3 /\ x4' = x4
  <2>1. x3' = [x3 EXCEPT ![n] = x3[n]]
    BY <1>4 DEF SyncInv
  <2> QED
    BY <1>1, <1>4, <2>1, SyncGoesOn
<1>5. CASE Sync!Fetch(n)
  <2>1. PICK d \in Sync!Served :
          x3' = IF ~Sync!Verifies(d) \/ ~Sync!Formed(d) THEN x3 ELSE [x3 EXCEPT ![n] = [Sync!Idle EXCEPT !.at = "plan", !.doc = d]]
    BY <1>5 DEF Sync!Fetch
  <2>2. x4' = x4
    BY <1>5 DEF Sync!Fetch
  <2>3. CASE Sync!Verifies(d) /\ Sync!Formed(d)
    <3>2. d \in Sync!Manifests /\ d \in Nat
      BY SyncNumbers DEF SyncInv, Sync!Served, Sync!Manifests
    <3> DEFINE v == [Sync!Idle EXCEPT !.at = "plan", !.doc = d]
    <3>1. x3' = [x3 EXCEPT ![n] = v]
      BY <2>1, <2>3
    <3>4. v \in SyncJobs /\ v.at = "plan" /\ v.doc = d
      BY <3>2, SyncNumbers DEF Sync!Idle, SyncJobs
    <3>3. v \in SyncJobs /\ SyncJobFits(v)
      BY <2>3, <3>2, <3>4 DEF SyncJobFits, SyncGood
    <3> HIDE DEF v
    <3> QED
      BY <1>1, <2>2, <3>1, <3>3, SyncGoesOn
  <2> QED
    BY <1>4, <2>1, <2>2, <2>3
<1>6. CASE Sync!Plan(n)
  <2> DEFINE d == x3[n].doc
             v == [at |-> "write", doc |-> d, puts |-> Sync!Listed(d), dels |-> Sync!Synced \ Sync!Listed(d), base |-> x4]
  <2>1. x3' = [x3 EXCEPT ![n] = IF Sync!Reject(d) THEN Sync!Idle ELSE v] /\ x4' = x4 /\ x3[n].at = "plan"
    BY <1>6 DEF Sync!Plan
  <2>2. CASE ~Sync!Reject(d)
    <3>1. SyncGood(d) /\ d \in Sync!Manifests /\ d \in Nat /\ Sync!Serial(d) \in Nat
      BY <1>1, <2>1, SyncNumbers DEF SyncJobFits
    <3>2. v \in SyncJobs
      BY <1>1, <3>1, SyncNumbers DEF SyncJobs, Sync!Synced
    <3>3. x4 <= Sync!Serial(d)
      <4>1. CASE x4 = 0
        BY <3>1, <4>1
      <4>2. CASE SyncAbove(x4)
        <5>1. PICK r \in SyncReleases : x1[r] \in Sync!Manifests /\ x4 <= Sync!Serial(x1[r])
          BY <4>2 DEF SyncAbove
        <5>2. Sync!Top \in Nat /\ Sync!Serial(x1[r]) <= Sync!Top /\ Sync!Serial(x1[r]) \in Nat
          BY <5>1, SyncTop, SyncNumbers
        <5>3. ~(Sync!Serial(d) < Sync!Top)
          BY <2>2 DEF Sync!Reject
        <5> QED
          BY <1>1, <3>1, <5>1, <5>2, <5>3
      <4> QED
        BY <1>1, <4>1, <4>2
    <3>4. SyncJobFits(v)
      BY <3>1, <3>3 DEF SyncJobFits
    <3>5. x3' = [x3 EXCEPT ![n] = v]
      BY <2>1, <2>2
    <3> HIDE DEF v
    <3> QED
      BY <1>1, <2>1, <3>2, <3>4, <3>5, SyncGoesOn
  <2> QED
    BY <1>3, <2>1, <2>2
<1>7. CASE Sync!Fails(n)
  BY <1>3, <1>7 DEF Sync!Fails
<1>8. CASE Sync!Finish(n)
  <2> DEFINE k == Sync!Serial(x3[n].doc)
  <2>1. x3' = [x3 EXCEPT ![n] = Sync!Idle] /\ x4' = Sync!Max({x4, k}) /\ x3[n].at = "write" /\ x3[n].puts = {}
    BY <1>8 DEF Sync!Finish
  <2>2. SyncAbove(k) /\ k \in Nat
    BY <1>1, <2>1, SyncNumbers DEF SyncJobFits
  <2> HIDE DEF k
  <2>3. Sync!Max({x4, k}) \in {x4, k}
    <3>1. \E x \in {x4, k} : \A y \in {x4, k} : x >= y
      BY <1>1, <2>2
    <3> QED
      BY <3>1 DEF Sync!Max
  <2>4. x4' \in Nat /\ (x4' = 0 \/ SyncAbove(x4'))
    <3>1. CASE x4' = x4
      BY <1>1, <3>1
    <3>2. CASE x4' = k
      BY <2>2, <3>2
    <3> QED
      BY <2>1, <2>3, <3>1, <3>2
  <2> QED
    BY <1>1, <1>2, <2>1, <2>4, SyncGoesOn
<1> QED
  BY <1>5, <1>6, <1>7, <1>8

\* A row is written, or deleted for a newer one there is.
LEMMA SyncWrites ==
  ASSUME SyncInv, NEW n \in Two, NEW r \in SyncReleases, Sync!Upsert(n, r) \/ Sync!Delete(n, r)
  PROVE  SyncInv' /\ Sync!NoRollback
<1>0. PICK d : d = x3[n].doc
  OBVIOUS
<1>1. x3[n] \in SyncJobs /\ SyncJobFits(x3[n]) /\ x3[n].at = "write" /\ UNCHANGED <<x2, x4>>
  BY DEF SyncInv, Sync!Upsert, Sync!Delete
<1>2. SyncGood(d) /\ d \in Sync!Manifests /\ Sync!Serial(d) \in Nat /\ Sync!Listed(d) # {}
      /\ x3[n].puts \subseteq Sync!Listed(d)
  BY <1>0, <1>1, SyncNumbers DEF SyncJobFits
<1>3. PICK v \in SyncJobs : /\ x3' = [x3 EXCEPT ![n] = v] /\ v.at = "write" /\ v.doc = d /\ v.base = x3[n].base
                            /\ v.puts \subseteq x3[n].puts
                            /\ v.puts # x3[n].puts => Sync!Upsert(n, r)
  <2>1. CASE Sync!Upsert(n, r)
    <3> DEFINE v == [x3[n] EXCEPT !.puts = @ \ {r}]
    <3>1. x3' = [x3 EXCEPT ![n] = v]
      BY <2>1 DEF Sync!Upsert
    <3>2. v \in SyncJobs /\ v.at = "write" /\ v.doc = d /\ v.base = x3[n].base /\ v.puts \subseteq x3[n].puts
      BY <1>0, <1>1 DEF SyncJobs
    <3> QED
      BY <2>1, <3>1, <3>2
  <2>2. CASE Sync!Delete(n, r)
    <3> DEFINE v == [x3[n] EXCEPT !.dels = @ \ {r}]
    <3>1. x3' = [x3 EXCEPT ![n] = v]
      BY <2>2 DEF Sync!Delete
    <3>2. v \in SyncJobs /\ v.at = "write" /\ v.doc = d /\ v.base = x3[n].base /\ v.puts = x3[n].puts
      BY <1>0, <1>1 DEF SyncJobs
    <3> QED
      BY <3>1, <3>2
  <2> QED
    BY <2>1, <2>2
<1>4. /\ x1' \in [SyncReleases -> {0, -1} \cup Sync!Manifests]
      /\ \A q \in SyncReleases : x1'[q] \in Sync!Manifests =>
           /\ SyncGood(x1'[q]) /\ q \in Sync!Listed(x1'[q])
           /\ x1[q] \in Sync!Manifests => Sync!Serial(x1[q]) <= Sync!Serial(x1'[q])
      /\ \A k \in Nat : SyncAbove(k) => SyncAbove(k)'
      /\ Sync!Upsert(n, r) => SyncAbove(Sync!Serial(d))'
  <2>1. CASE x1' = x1
    <3>1. \A k : SyncAbove(k) => SyncAbove(k)'
      BY <2>1 DEF SyncAbove
    <3>2. ASSUME Sync!Upsert(n, r) PROVE SyncAbove(Sync!Serial(d))'
      <4>1. x1[r] \in Sync!Manifests /\ Sync!Serial(d) <= Sync!Serial(x1[r])
        <5>1. CASE ~Sync!OlderRow(r, d)
          <6>1. x1[r] \in Sync!Manifests /\ ~(Sync!Serial(x1[r]) <= Sync!Serial(d))
            BY <5>1 DEF Sync!OlderRow
          <6>2. Sync!Serial(x1[r]) \in Nat
            BY <6>1, SyncSerials
          <6> QED
            BY <1>2, <6>1, <6>2
        <5>2. CASE Sync!OlderRow(r, d)
          <6>1. x1'[r] = d
            BY <1>0, <3>2, <5>2 DEF Sync!Upsert, SyncInv
          <6> QED
            BY <1>2, <2>1, <6>1
        <5> QED
          BY <5>1, <5>2
      <4>2. x1'[r] \in Sync!Manifests /\ Sync!Serial(d) <= Sync!Serial(x1'[r])
        BY <2>1, <4>1
      <4> QED
        BY <4>2 DEF SyncAbove
    <3>3. \A q \in SyncReleases : x1[q] \in Sync!Manifests => Sync!Serial(x1[q]) <= Sync!Serial(x1'[q])
      BY <2>1, SyncSerials
    <3> QED
      BY <2>1, <3>1, <3>2, <3>3 DEF SyncInv
  <2>2. CASE Sync!Upsert(n, r) /\ x1' # x1
    <3>1. x1' = [x1 EXCEPT ![r] = d] /\ Sync!OlderRow(r, d) /\ r \in Sync!Listed(d)
      BY <1>0, <1>2, <2>2 DEF Sync!Upsert
    <3>2. x1' \in [SyncReleases -> {0, -1} \cup Sync!Manifests] /\ x1'[r] = d
          /\ \A q \in SyncReleases \ {r} : x1'[q] = x1[q]
      BY <1>2, <3>1 DEF SyncInv
    <3>6. \A q \in SyncReleases : x1[q] \in Sync!Manifests => Sync!Serial(x1[q]) \in Nat
      BY SyncSerials
    <3>3. \A q \in SyncReleases : x1[q] \in Sync!Manifests =>
            x1'[q] \in Sync!Manifests /\ Sync!Serial(x1[q]) <= Sync!Serial(x1'[q])
      BY <1>2, <3>1, <3>2, <3>6 DEF Sync!OlderRow
    <3>4. \A k \in Nat : SyncAbove(k) => SyncAbove(k)'
      BY <3>2, <3>3, SyncKept
    <3>5. SyncAbove(Sync!Serial(d))'
      <4>1. x1'[r] \in Sync!Manifests /\ Sync!Serial(d) <= Sync!Serial(x1'[r])
        BY <1>2, <3>2
      <4> QED
        BY <4>1 DEF SyncAbove
    <3> QED
      BY <1>2, <3>1, <3>2, <3>3, <3>4, <3>5 DEF SyncInv
  <2>3. CASE Sync!Delete(n, r) /\ x1' # x1
    <3>1. x1' = [x1 EXCEPT ![r] = 0] /\ x1[r] \in Sync!Manifests /\ Sync!Serial(x1[r]) < Sync!Serial(d) /\ x3[n].puts = {}
      BY <1>0, <2>3 DEF Sync!Delete, Sync!None
    <3>2. x1' \in [SyncReleases -> {0, -1} \cup Sync!Manifests] /\ x1'[r] = 0
          /\ \A q \in SyncReleases \ {r} : x1'[q] = x1[q]
      BY <3>1 DEF SyncInv
    <3>3. PICK p \in SyncReleases : x1[p] \in Sync!Manifests /\ Sync!Serial(d) <= Sync!Serial(x1[p])
      BY <1>0, <1>1, <1>2, <3>1 DEF SyncJobFits, SyncAbove
    <3>9. Sync!Serial(x1[p]) \in Nat /\ Sync!Serial(x1[r]) \in Nat
      BY <3>1, <3>3, SyncSerials
    <3>4. p # r /\ x1'[p] = x1[p]
      BY <1>2, <3>1, <3>2, <3>3, <3>9
    <3>5. ASSUME NEW k \in Nat, SyncAbove(k) PROVE SyncAbove(k)'
      <4>1. PICK q \in SyncReleases : x1[q] \in Sync!Manifests /\ k <= Sync!Serial(x1[q])
        BY <3>5 DEF SyncAbove
      <4>2. CASE q = r
        <5>1. x1'[p] \in Sync!Manifests /\ k <= Sync!Serial(x1'[p])
          BY <1>2, <3>1, <3>3, <3>4, <3>9, <4>1, <4>2
        <5> QED
          BY <5>1 DEF SyncAbove
      <4>3. CASE q # r
        BY <3>2, <4>1, <4>3 DEF SyncAbove
      <4> QED
        BY <4>2, <4>3
    <3>6. ~Sync!Upsert(n, r)
      BY <3>1 DEF Sync!Upsert
    <3>7. \A q \in SyncReleases : x1'[q] \in Sync!Manifests => q # r
      BY <3>2, SyncNumbers
    <3>10. \A q \in SyncReleases : x1[q] \in Sync!Manifests => Sync!Serial(x1[q]) <= Sync!Serial(x1[q])
      BY SyncSerials
    <3>8. \A q \in SyncReleases : x1'[q] \in Sync!Manifests =>
           /\ SyncGood(x1'[q]) /\ q \in Sync!Listed(x1'[q])
           /\ x1[q] \in Sync!Manifests => Sync!Serial(x1[q]) <= Sync!Serial(x1'[q])
      BY <3>2, <3>7, <3>10 DEF SyncInv
    <3> QED
      BY <3>2, <3>5, <3>6, <3>8
  <2> QED
    BY <2>1, <2>2, <2>3
<1>5. \A m \in Two : x3'[m] = IF m = n THEN v ELSE x3[m]
  BY <1>3 DEF SyncInv
<1>6. ASSUME NEW m \in Two PROVE SyncJobFits(x3[m])'
  <2>1. CASE m # n
    <3>1. x3'[m] = x3[m] /\ SyncJobFits(x3[m]) /\ (x3[m].at = "write" => Sync!Serial(x3[m].doc) \in Nat)
      BY <1>5, <2>1, SyncNumbers DEF SyncInv, SyncJobFits
    <3> QED
      BY <1>4, <3>1 DEF SyncJobFits
  <2>2. CASE m = n
    <3>1. x3'[m] = v /\ x3[n].base <= Sync!Serial(d)
      BY <1>0, <1>1, <1>5, <2>2 DEF SyncJobFits
    <3>2. v.puts # Sync!Listed(d) => SyncAbove(Sync!Serial(d))'
      BY <1>0, <1>1, <1>2, <1>3, <1>4 DEF SyncJobFits
    <3>3. x3'[m].doc = d /\ x3'[m].puts = v.puts /\ x3'[m].base = x3[n].base /\ x3'[m].puts \subseteq Sync!Listed(d)
      BY <1>2, <1>3, <3>1
    <3>4. x3'[m].puts # Sync!Listed(d) => SyncAbove(Sync!Serial(d))'
      BY <3>2, <3>3
    <3>5. SyncAbove(Sync!Serial(d))' <=> SyncAbove(Sync!Serial(x3[m].doc))'
      BY <3>3
    <3> QED
      BY <1>2, <3>1, <3>3, <3>4, <3>5 DEF SyncJobFits
  <2> QED
    BY <2>1, <2>2
<1>7. SyncInv'
  BY <1>1, <1>3, <1>4, <1>6 DEF SyncInv
<1>8. \A m \in Two : x3'[m].at = "write" => Sync!Serial(x3'[m].doc) >= x3'[m].base
  BY <1>7, SyncNumbers DEF SyncInv, SyncJobFits, SyncJobs
<1>10. \A q \in Sync!Manifests : Sync!Serial(q) \in Nat
  BY SyncSerials
<1>9. \A q \in Sync!Synced : x1'[q] \in Sync!Manifests => Sync!Serial(x1'[q]) >= Sync!Serial(x1[q])
  BY <1>4, <1>10 DEF Sync!Synced
<1> QED
  BY <1>7, <1>8, <1>9 DEF Sync!NoRollback

LEMMA SyncStep == SyncInv /\ [Sync!Next]_(Sync!vars) => SyncInv' /\ Sync!NoRollback
<1> SUFFICES ASSUME SyncInv, [Sync!Next]_(Sync!vars) PROVE SyncInv' /\ Sync!NoRollback
  OBVIOUS
<1>1. CASE Sync!Publish \/ (\E r \in SyncReleases : Sync!OperatorRow(r)) \/ UNCHANGED Sync!vars
  <2>1. /\ x1' \in [SyncReleases -> {0, -1} \cup Sync!Manifests] /\ UNCHANGED <<x3, x4>>
        /\ \A q \in SyncReleases : x1'[q] = x1[q] \/ (x1'[q] \notin Sync!Manifests /\ x1[q] \notin Sync!Manifests)
    BY <1>1, SyncNumbers DEF SyncInv, Sync!Publish, Sync!OperatorRow, Sync!vars
  <2>2. x2' \in 0..Len(SyncDocs)
    BY <1>1, SyncNumbers DEF SyncInv, Sync!Publish, Sync!OperatorRow, Sync!vars
  <2>3. \A k : SyncAbove(k) => SyncAbove(k)'
    BY <2>1 DEF SyncAbove
  <2>4. (\A n \in Two : SyncJobFits(x3[n]))'
    BY <2>1, <2>3 DEF SyncInv, SyncJobFits
  <2>5. SyncInv'
    BY <2>1, <2>2, <2>3, <2>4 DEF SyncInv
  <2>6. \A m \in Two : x3'[m].at = "write" => Sync!Serial(x3'[m].doc) >= x3'[m].base
    BY <2>5, SyncNumbers DEF SyncInv, SyncJobFits, SyncJobs
  <2>7. \A q \in Sync!Synced : x1'[q] \in Sync!Manifests => Sync!Serial(x1'[q]) >= Sync!Serial(x1[q])
    <3>1. \A q \in Sync!Synced : q \in SyncReleases /\ x1[q] \in Sync!Manifests
      BY DEF Sync!Synced
    <3> QED
      BY <2>1, <3>1, SyncRows
  <2> QED
    BY <2>5, <2>6, <2>7 DEF Sync!NoRollback
<1> QED
  BY <1>1, SyncPlans, SyncWrites DEF Sync!Next

\* A signed list names a measurement once, so each of its releases has one number, and its own.
LEMMA SyncOnce ==
  ASSUME NEW d, SyncGood(d)
  PROVE  /\ DOMAIN SyncDocs[d].list = 1..Len(SyncDocs[d].list)
         /\ \A i, j \in DOMAIN SyncDocs[d].list :
              /\ SyncDocs[d].list[i].pcr0 = SyncDocs[d].list[j].pcr0 => i = j
              /\ i # j => SyncDocs[d].list[i].number # SyncDocs[d].list[j].number
<1> DEFINE l == SyncDocs[d].list
           F == [i \in 1..Len(l) |-> l[i].pcr0]
<1>1. l \in Seq([number : Nat, pcr0 : SyncReleases]) /\ d \in Sync!Manifests
  BY SyncAssumption DEF SyncGood, Sync!Manifests
<1>2. DOMAIN l = 1..Len(l) /\ Len(l) \in Nat /\ \A i \in DOMAIN l : l[i].number \in Nat
  <2> HIDE DEF l
  <2>1. DOMAIN l = 1..Len(l) /\ Len(l) \in Nat /\ \A i \in DOMAIN l : l[i] \in [number : Nat, pcr0 : SyncReleases]
    BY <1>1, SequenceParts
  <2> QED
    BY <2>1
<1>3. Sync!Listed(d) = {l[i].pcr0 : i \in DOMAIN l}
  BY DEF Sync!Listed, Sync!Entries, Sync!Range
<1>4. /\ Sync!Cardinality(Sync!Listed(d)) = Len(l)
      /\ \A i, j \in DOMAIN l : i < j => l[i].number < l[j].number
  BY DEF SyncGood, Sync!Formed
<1> HIDE DEF l
<1>5. F \in Surjection(1..Len(l), Sync!Listed(d))
  BY <1>2, <1>3 DEF Surjection
<1>6. IsFiniteSet(1..Len(l)) /\ Cardinality(1..Len(l)) = Len(l)
  BY <1>2, FS_Interval
<1>7. Cardinality(Sync!Listed(d)) = Len(l)
  BY <1>4 DEF Sync!Cardinality, Cardinality
<1>8. F \in Injection(1..Len(l), Sync!Listed(d))
  BY <1>5, <1>6, <1>7, FS_Surjection
<1>9. \A i, j \in DOMAIN l : l[i].pcr0 = l[j].pcr0 => i = j
  BY <1>2, <1>8 DEF Injection, IsInjective
<1>10. \A i, j \in DOMAIN l : i # j => l[i].number # l[j].number
  <2> SUFFICES ASSUME NEW i \in DOMAIN l, NEW j \in DOMAIN l, i # j PROVE l[i].number # l[j].number
    OBVIOUS
  <2>1. i < j \/ j < i
    BY <1>2
  <2> QED
    BY <1>2, <1>4, <2>1
<1> QED
  BY <1>2, <1>9, <1>10 DEF l

LEMMA SyncSafe == SyncInv => Sync!RowsSigned
<1> SUFFICES ASSUME SyncInv PROVE Sync!RowsSigned
  OBVIOUS
<1>1. ASSUME NEW r \in Sync!Synced
      PROVE  /\ SyncGood(x1[r])
             /\ \E i \in DOMAIN SyncDocs[x1[r]].list :
                  /\ SyncDocs[x1[r]].list[i].pcr0 = r
                  /\ Sync!Numbers(r) = {SyncDocs[x1[r]].list[i].number}
  <2>1. SyncGood(x1[r]) /\ r \in Sync!Listed(x1[r])
    BY <1>1 DEF SyncInv, Sync!Synced
  <2> DEFINE l == SyncDocs[x1[r]].list
  <2>2. Sync!Entries(x1[r]) = {l[i] : i \in DOMAIN l}
    BY DEF Sync!Entries, Sync!Range
  <2>3. PICK i \in DOMAIN l : l[i].pcr0 = r
    BY <2>1, <2>2 DEF Sync!Listed
  <2>4. \A j \in DOMAIN l : l[j].pcr0 = r => j = i
    BY <2>1, <2>3, SyncOnce
  <2> HIDE DEF l
  <2>5. Sync!Numbers(r) = {l[i].number}
    BY <2>2, <2>3, <2>4 DEF Sync!Numbers
  <2> QED
    BY <2>1, <2>3, <2>5 DEF l
<1>2. \A r \in Sync!Synced : SyncDocs[x1[r]].key \in SyncPinned
  BY <1>1 DEF SyncGood, Sync!Verifies
<1>3. \A r \in Sync!Synced : Sync!Cardinality(Sync!Numbers(r)) = 1
  <2> SUFFICES ASSUME NEW r \in Sync!Synced PROVE Sync!Cardinality(Sync!Numbers(r)) = 1
    OBVIOUS
  <2>2. PICK x : Sync!Numbers(r) = {x}
    BY <1>1
  <2>3. Cardinality({x}) = 1
    BY FS_Singleton
  <2>1. Cardinality(Sync!Numbers(r)) = 1
    BY <2>2, <2>3
  <2> QED
    BY <2>1 DEF Sync!Cardinality, Cardinality
<1>4. ASSUME NEW r \in Sync!Synced, NEW q \in Sync!Synced, r # q, x1[r] = x1[q]
      PROVE  Sync!Numbers(r) # Sync!Numbers(q)
  <2> DEFINE l == SyncDocs[x1[r]].list
  <2>1. PICK i \in DOMAIN l : l[i].pcr0 = r /\ Sync!Numbers(r) = {l[i].number}
    BY <1>1
  <2>2. PICK j \in DOMAIN l : l[j].pcr0 = q /\ Sync!Numbers(q) = {l[j].number}
    BY <1>1, <1>4
  <2>3. i # j /\ SyncGood(x1[r])
    BY <1>1, <1>4, <2>1, <2>2
  <2>4. l[i].number # l[j].number
    BY <2>3, SyncOnce
  <2> HIDE DEF l
  <2> QED
    BY <2>1, <2>2, <2>4
<1> QED
  BY <1>2, <1>3, <1>4 DEF Sync!RowsSigned

--------------------------------------------------------------------------------
(***************************************************************************)
(* What becomes of a deleted vault's row, for any number of failed mails   *)
(* and records: its phone keeps the definite answer it was given, and      *)
(* nothing is left behind.  While a deleted row stands, something is still *)
(* to come that removes it: the record of its alarm, which is still        *)
(* pending; the mailer at work on it; or, handled, the end of the sweep or *)
(* the record of it.                                                       *)
(***************************************************************************)
CONSTANT NoticeFails                                           \* mails and records that fail

ASSUME DeletedVaultAssumption == NoticeFails \in Nat

DeletedVault == INSTANCE DeletedVaultRow WITH
               MaxFails <- NoticeFails,
               row <- x1, stream <- x2, at <- x3, image <- x4, tombstone <- x5, pointer <- x6,
               told <- x7, fails <- x8, died <- x9, member <- x10

Records(s) == {s[i] : i \in 1..Len(s)}

\* What the mailer works from, or will.
Images == Records(x2) \union {x4}

RowKept ==
  /\ x1 \in DeletedVault!Row /\ x2 \in Seq(DeletedVault!Row) /\ x4 \in DeletedVault!Row
  /\ x1.pending => x1.alarm # "none"
  /\ x1.state = "deleted" => x1.alarm = "deleted"
  /\ x1.state = "live" => x1.alarm # "deleted"
  /\ x1.state = "gone" => x1 = DeletedVault!Gone

\* No record is ahead of the row.
RecordsBehind ==
  x1.state # "gone" => \A r \in Images : /\ r.alarm = "deleted" => x1.alarm = "deleted"
                                         /\ r.alarm # "none" => x1.alarm # "none"

\* The mailer has claimed what it works on.
MailerFits ==
  /\ x3 \in {"idle", "mail", "rows", "followup", "handled", "pointer"}
  /\ x3 # "idle" => x4.alarm # "none"
  /\ x3 \in {"rows", "handled"} => x4.alarm = "deleted" /\ "deleted" \in x7
  /\ x3 = "followup" => DeletedVault!SweptAndHandled(x4)
  /\ x3 \in {"mail", "rows", "handled"} /\ x1.alarm = x4.alarm => ~x1.pending

\* A notice that was handled was told, and then the pointer went.
PointerGone == x9 \/ x3 = "pointer" \/ x6 # "this"

HandledFits ==
  /\ x1.handled \/ (\E r \in Images : r.handled) => "deleted" \in x7 /\ PointerGone
  /\ x1.state = "gone" => PointerGone

\* A deleted row is still to be removed.
ToRemove ==
  \/ x1.pending /\ \E r \in Records(x2) : r.pending /\ r.alarm = "deleted"
  \/ x3 \in {"mail", "rows", "handled"} /\ x4.alarm = "deleted"
  \/ /\ x1.handled /\ ~x1.pending
     /\ x1.sweep \/ x3 = "followup" \/ \E r \in Records(x2) : DeletedVault!SweptAndHandled(r)

RowInv ==
  /\ RowKept /\ RecordsBehind /\ MailerFits /\ HandledFits
  /\ x1.state = "deleted" /\ ~x9 => ToRemove

\* What a step does to the row, as its phone sees it.
RowGoesOn ==
  /\ x1.state = "gone" => x1'.state = "gone" /\ (x5 # "none" => x5' # "none")
  /\ x1.state = "deleted" => \/ x1'.state = "deleted"
                             \/ x1'.state = "gone" /\ x5' # "none" /\ "deleted" \in x7 /\ ~x1.sweep
  /\ x1.state = "live" => x1'.state \in {"live", "deleted"} /\ (x1.closing => x1'.closing)

LEMMA RowInit == DeletedVault!Init => RowInv
<1> SUFFICES ASSUME DeletedVault!Init PROVE RowInv
  OBVIOUS
<1>1. DeletedVault!Live \in DeletedVault!Row
  BY DEF DeletedVault!Live, DeletedVault!Row
<1>2. x2 = << >> /\ Records(x2) = {} /\ x2 \in Seq(DeletedVault!Row)
  BY DEF DeletedVault!Init, Records
<1> QED
  BY <1>1, <1>2 DEF DeletedVault!Init, DeletedVault!Live, RowInv, RowKept, RecordsBehind, MailerFits, HandledFits, Images

\* The stream: a write may add its record, a record is taken or put back.
LEMMA RowWrites ==
  ASSUME NEW n \in DeletedVault!Row, x2 \in Seq(DeletedVault!Row), DeletedVault!Write(n)
  PROVE  /\ x1' = n /\ x2' \in Seq(DeletedVault!Row)
         /\ Records(x2) \subseteq Records(x2') /\ Records(x2') \subseteq Records(x2) \union {n}
         /\ n.pending \/ DeletedVault!SweptAndHandled(n) => n \in Records(x2')
<1>1. x1' = n /\ x2' = IF n.pending \/ DeletedVault!SweptAndHandled(n) THEN Append(x2, n) ELSE x2
  BY DEF DeletedVault!Write
<1>2. /\ Append(x2, n) \in Seq(DeletedVault!Row) /\ Len(Append(x2, n)) = Len(x2) + 1
      /\ Append(x2, n)[Len(x2) + 1] = n /\ Len(x2) \in Nat
      /\ \A i \in 1..Len(x2) : Append(x2, n)[i] = x2[i]
  OBVIOUS
<1>3. Records(Append(x2, n)) = Records(x2) \union {n}
  BY <1>2 DEF Records
<1> QED
  BY <1>1, <1>2, <1>3

LEMMA RecordTaken ==
  ASSUME x2 \in Seq(DeletedVault!Row), x2 # << >>
  PROVE  /\ Head(x2) \in DeletedVault!Row /\ Tail(x2) \in Seq(DeletedVault!Row)
         /\ Records(x2) = Records(Tail(x2)) \union {Head(x2)}
<1>1. /\ Head(x2) \in DeletedVault!Row /\ Tail(x2) \in Seq(DeletedVault!Row) /\ Len(x2) \in Nat \ {0}
      /\ Head(x2) = x2[1] /\ Len(Tail(x2)) = Len(x2) - 1 /\ \A i \in 1..(Len(x2) - 1) : Tail(x2)[i] = x2[i + 1]
  OBVIOUS
<1>2. \A i \in 1..Len(x2) : i = 1 \/ i - 1 \in 1..(Len(x2) - 1)
  BY <1>1
<1>3. \A i \in 1..(Len(x2) - 1) : i + 1 \in 1..Len(x2)
  BY <1>1
<1>4. Records(x2) \subseteq Records(Tail(x2)) \union {Head(x2)}
  BY <1>1, <1>2 DEF Records
<1>5. Records(Tail(x2)) \union {Head(x2)} \subseteq Records(x2)
  BY <1>1, <1>3 DEF Records
<1> QED
  BY <1>1, <1>4, <1>5

LEMMA RecordBack ==
  ASSUME NEW r \in DeletedVault!Row, x2 \in Seq(DeletedVault!Row)
  PROVE  /\ <<r>> \o x2 \in Seq(DeletedVault!Row)
         /\ Records(<<r>> \o x2) = Records(x2) \union {r}
<1> DEFINE s == <<r>> \o x2
<1>1. /\ s \in Seq(DeletedVault!Row) /\ Len(s) = Len(x2) + 1 /\ Len(x2) \in Nat /\ s[1] = r
      /\ \A i \in 1..Len(x2) : s[i + 1] = x2[i]
  OBVIOUS
<1>2. \A i \in 1..(Len(x2) + 1) : i = 1 \/ (i - 1 \in 1..Len(x2) /\ s[i] = x2[i - 1])
  BY <1>1
<1>3. \A i \in 1..Len(x2) : i + 1 \in 1..(Len(x2) + 1)
  BY <1>1
<1>4. 1 \in 1..(Len(x2) + 1)
  BY <1>1
<1> HIDE DEF s
<1>5. ASSUME NEW e \in Records(s) PROVE e \in Records(x2) \union {r}
  <2>1. PICK i \in 1..Len(s) : e = s[i]
    BY DEF Records
  <2>2. CASE i = 1
    BY <1>1, <2>1, <2>2
  <2>3. CASE i - 1 \in 1..Len(x2) /\ s[i] = x2[i - 1]
    BY <2>1, <2>3 DEF Records
  <2> QED
    BY <1>1, <1>2, <2>1, <2>2, <2>3
<1>6. Records(x2) \union {r} \subseteq Records(s)
  BY <1>1, <1>3, <1>4 DEF Records
<1> QED
  BY <1>1, <1>5, <1>6 DEF s

\* A write that leaves what the mailer goes by as it was.
LEMMA RowAsked ==
  ASSUME RowInv, NEW n \in DeletedVault!Row, DeletedVault!Write(n), x1.state # "gone",
         n.state = x1.state, n.alarm = x1.alarm, n.pending = x1.pending, n.handled = x1.handled, n.sweep = x1.sweep,
         x1.closing => n.closing, x3' = x3, x4' = x4, x5' = x5, x6' = x6 \/ x6' # "this", x7' = x7, x9' = x9
  PROVE  RowInv' /\ RowGoesOn
<1>1. x2 \in Seq(DeletedVault!Row)
  BY DEF RowInv, RowKept
<1>2. /\ x1' = n /\ x2' \in Seq(DeletedVault!Row)
      /\ Records(x2) \subseteq Records(x2') /\ Records(x2') \subseteq Records(x2) \union {n}
  BY <1>1, RowWrites
<1>3. RowKept'
  BY <1>2 DEF RowInv, RowKept
<1>4. RecordsBehind'
  BY <1>2 DEF RowInv, RecordsBehind, Images
<1>5. MailerFits'
  BY <1>2 DEF RowInv, MailerFits
<1>6. HandledFits'
  BY <1>2 DEF RowInv, HandledFits, Images, PointerGone
<1>7. x1'.state = "deleted" /\ ~x9' => ToRemove'
  BY <1>2 DEF RowInv, ToRemove
<1>8. RowGoesOn
  BY <1>2 DEF RowGoesOn, DeletedVault!Row
<1> QED
  BY <1>3, <1>4, <1>5, <1>6, <1>7, <1>8 DEF RowInv

\* What leaves the row and its stream alone, and may take the pointer.
LEMMA RowRests ==
  ASSUME RowInv, x1' = x1, x2' = x2, x3' = x3, x4' = x4, x5' = x5, x6' = x6 \/ x6' # "this", x7' = x7, x9' = x9
  PROVE  RowInv' /\ RowGoesOn
<1>1. RowKept' /\ RecordsBehind' /\ MailerFits'
  BY DEF RowInv, RowKept, RecordsBehind, Images, MailerFits
<1>2. HandledFits'
  BY DEF RowInv, HandledFits, Images, PointerGone
<1>3. x1'.state = "deleted" /\ ~x9' => ToRemove'
  BY DEF RowInv, ToRemove
<1>4. RowGoesOn
  BY DEF RowGoesOn, RowInv, RowKept
<1> QED
  BY <1>1, <1>2, <1>3, <1>4 DEF RowInv

\* The host.
LEMMA RowCloned ==
  ASSUME RowInv, DeletedVault!HostReportsClone
  PROVE  RowInv' /\ RowGoesOn
<1> DEFINE n == [x1 EXCEPT !.alarm = "clone", !.pending = TRUE]
<1>1. /\ x1.state = "live" /\ x1.alarm = "none" /\ DeletedVault!Write(n)
      /\ x3' = x3 /\ x4' = x4 /\ x5' = x5 /\ x6' = x6 /\ x7' = x7 /\ x9' = x9
  BY DEF DeletedVault!HostReportsClone
<1>2. x1 \in DeletedVault!Row /\ x2 \in Seq(DeletedVault!Row)
  BY DEF RowInv, RowKept
<1>3. \A a \in {"none", "clone", "deleted"}, b \in BOOLEAN : [x1 EXCEPT !.alarm = a, !.pending = b] \in DeletedVault!Row
  BY <1>2 DEF DeletedVault!Row
<1>4. /\ n \in DeletedVault!Row /\ n.state = x1.state /\ n.alarm = "clone" /\ n.handled = x1.handled
      /\ n.closing = x1.closing
  BY <1>2, <1>3 DEF DeletedVault!Row
<1> HIDE DEF n
<1>5. /\ x1' = n /\ x2' \in Seq(DeletedVault!Row)
      /\ Records(x2) \subseteq Records(x2') /\ Records(x2') \subseteq Records(x2) \union {n}
  BY <1>1, <1>2, <1>4, RowWrites
<1>6. RowKept'
  BY <1>1, <1>4, <1>5 DEF RowInv, RowKept
<1>7. RecordsBehind'
  BY <1>1, <1>4, <1>5 DEF RowInv, RecordsBehind, Images
<1>8. MailerFits'
  BY <1>1, <1>4, <1>5 DEF RowInv, MailerFits, RecordsBehind, Images
<1>9. HandledFits'
  BY <1>1, <1>4, <1>5 DEF RowInv, HandledFits, Images, PointerGone
<1>10. x1'.state # "deleted" /\ RowGoesOn
  BY <1>1, <1>4, <1>5 DEF RowGoesOn
<1> QED
  BY <1>6, <1>7, <1>8, <1>9, <1>10 DEF RowInv

LEMMA RowDeleted ==
  ASSUME RowInv, DeletedVault!HostReportsDeleted
  PROVE  RowInv' /\ RowGoesOn
<1>1. PICK b \in BOOLEAN : DeletedVault!Write([x1 EXCEPT !.state = "deleted", !.alarm = "deleted",
                                                        !.pending = TRUE, !.handled = FALSE, !.sweep = b])
  BY DEF DeletedVault!HostReportsDeleted
<1> DEFINE n == [x1 EXCEPT !.state = "deleted", !.alarm = "deleted", !.pending = TRUE, !.handled = FALSE, !.sweep = b]
<1>2. x1.state = "live" /\ x3' = x3 /\ x4' = x4 /\ x5' = x5 /\ x6' = x6 /\ x7' = x7 /\ x9' = x9
  BY DEF DeletedVault!HostReportsDeleted
<1>3. x1 \in DeletedVault!Row /\ x2 \in Seq(DeletedVault!Row) /\ x1.alarm # "deleted"
  BY <1>2 DEF RowInv, RowKept
<1>4. \A t \in {"live", "deleted", "gone"}, a \in {"none", "clone", "deleted"}, c, d, e \in BOOLEAN :
        [x1 EXCEPT !.state = t, !.alarm = a, !.pending = c, !.handled = d, !.sweep = e] \in DeletedVault!Row
  BY <1>3 DEF DeletedVault!Row
<1>5. n \in DeletedVault!Row
  BY <1>4
<1>6. n.state = "deleted" /\ n.alarm = "deleted" /\ n.pending /\ ~n.handled
  BY <1>3 DEF DeletedVault!Row
<1>7. DeletedVault!Write(n)
  BY <1>1
<1> HIDE DEF n
<1>8. /\ x1' = n /\ x2' \in Seq(DeletedVault!Row) /\ n \in Records(x2')
      /\ Records(x2) \subseteq Records(x2') /\ Records(x2') \subseteq Records(x2) \union {n}
  BY <1>3, <1>5, <1>6, <1>7, RowWrites
<1>9. RowKept'
  BY <1>2, <1>5, <1>6, <1>8 DEF RowInv, RowKept
<1>10. RecordsBehind'
  BY <1>2, <1>6, <1>8 DEF RowInv, RecordsBehind, Images
<1>11. MailerFits'
  <2>1. x4.alarm # "deleted"
    BY <1>2, <1>3 DEF RowInv, RecordsBehind, Images
  <2> QED
    BY <1>2, <1>6, <1>8, <2>1 DEF RowInv, MailerFits
<1>12. HandledFits'
  BY <1>2, <1>6, <1>8 DEF RowInv, HandledFits, Images, PointerGone
<1>13. ToRemove'
  <2>1. x1'.pending /\ \E r \in Records(x2') : r.pending /\ r.alarm = "deleted"
    BY <1>6, <1>8
  <2> QED
    BY <2>1 DEF ToRemove
<1>14. RowGoesOn
  <2>1. x1'.state = "deleted" /\ x1.state = "live" /\ ~(x1.state = "gone")
    BY <1>2, <1>6, <1>8
  <2>2. ~x1.closing \/ n.closing
    BY <1>3 DEF n, DeletedVault!Row
  <2> QED
    BY <1>8, <2>1, <2>2 DEF RowGoesOn
<1> QED
  BY <1>9, <1>10, <1>11, <1>12, <1>13, <1>14 DEF RowInv

LEMMA RowSwept ==
  ASSUME RowInv, DeletedVault!HostSwept
  PROVE  RowInv' /\ RowGoesOn
<1> DEFINE n == [x1 EXCEPT !.sweep = FALSE]
<1>1. /\ x1.sweep /\ DeletedVault!Write(n)
      /\ x3' = x3 /\ x4' = x4 /\ x5' = x5 /\ x6' = x6 /\ x7' = x7 /\ x9' = x9
  BY DEF DeletedVault!HostSwept
<1>2. x1 \in DeletedVault!Row /\ x2 \in Seq(DeletedVault!Row)
  BY DEF RowInv, RowKept
<1>3. x1.state # "gone"
  BY <1>1 DEF RowInv, RowKept, DeletedVault!Gone, DeletedVault!Live
<1>4. /\ n \in DeletedVault!Row /\ n.state = x1.state /\ n.alarm = x1.alarm /\ n.pending = x1.pending
      /\ n.handled = x1.handled /\ ~n.sweep /\ n.closing = x1.closing
  BY <1>2 DEF DeletedVault!Row
<1> HIDE DEF n
<1>5. /\ x1' = n /\ x2' \in Seq(DeletedVault!Row)
      /\ Records(x2) \subseteq Records(x2') /\ Records(x2') \subseteq Records(x2) \union {n}
      /\ DeletedVault!SweptAndHandled(n) => n \in Records(x2')
  BY <1>1, <1>2, <1>4, RowWrites
<1>6. RowKept'
  BY <1>3, <1>4, <1>5, <1>1 DEF RowInv, RowKept
<1>7. RecordsBehind'
  BY <1>1, <1>4, <1>5 DEF RowInv, RecordsBehind, Images
<1>8. MailerFits'
  BY <1>1, <1>4, <1>5 DEF RowInv, MailerFits
<1>9. HandledFits'
  BY <1>1, <1>4, <1>5 DEF RowInv, HandledFits, Images, PointerGone
<1>10. x1'.state = "deleted" /\ ~x9' => ToRemove'
  <2> SUFFICES ASSUME x1'.state = "deleted", ~x9' PROVE ToRemove'
    OBVIOUS
  <2>1. ToRemove /\ x1.alarm = "deleted"
    BY <1>1, <1>4, <1>5 DEF RowInv, RowKept
  <2>2. CASE x1.handled /\ ~x1.pending
    <3>1. DeletedVault!SweptAndHandled(n)
      BY <1>4, <1>5, <2>1, <2>2 DEF DeletedVault!SweptAndHandled
    <3> QED
      BY <1>4, <1>5, <2>2, <3>1 DEF ToRemove
  <2>3. CASE ~(x1.handled /\ ~x1.pending)
    BY <1>1, <1>4, <1>5, <2>1, <2>3 DEF ToRemove
  <2> QED
    BY <2>2, <2>3
<1>11. RowGoesOn
  BY <1>1, <1>3, <1>4, <1>5, <1>2 DEF RowGoesOn, DeletedVault!Row
<1> QED
  BY <1>6, <1>7, <1>8, <1>9, <1>10, <1>11 DEF RowInv

\* The member, and what asks for the vault.
LEMMA RowAsk ==
  ASSUME RowInv, NEW r \in DeletedVault!Row, r.state = x1.state, r.alarm = x1.alarm, r.pending = x1.pending,
         r.handled = x1.handled, r.sweep = x1.sweep, x1.closing => r.closing, x1.state = "gone" => r = x1, DeletedVault!Asked(r),
         x3' = x3, x4' = x4, x5' = x5, x6' = x6, x7' = x7, x9' = x9
  PROVE  RowInv' /\ RowGoesOn
<1>1. CASE r.state = "gone"
  <2>1. x1' = x1 /\ x2' = x2
    BY <1>1 DEF DeletedVault!Asked, DeletedVault!NoWrite
  <2> QED
    BY <2>1, RowRests
<1>2. CASE r.state # "gone"
  <2> DEFINE n == [r EXCEPT !.asked = TRUE]
  <2>1. DeletedVault!Write(n)
    BY <1>2 DEF DeletedVault!Asked
  <2>2. /\ n \in DeletedVault!Row /\ n.state = r.state /\ n.alarm = r.alarm /\ n.pending = r.pending
        /\ n.handled = r.handled /\ n.sweep = r.sweep /\ n.closing = r.closing
    BY DEF DeletedVault!Row
  <2> HIDE DEF n
  <2>3. /\ n.state = x1.state /\ n.alarm = x1.alarm /\ n.pending = x1.pending /\ n.handled = x1.handled
        /\ n.sweep = x1.sweep /\ (x1.closing => n.closing) /\ x1.state # "gone"
    BY <1>2, <2>2
  <2> QED
    BY <2>1, <2>2, <2>3, RowAsked
<1> QED
  BY <1>1, <1>2

LEMMA RowMember ==
  ASSUME RowInv,
         \/ DeletedVault!MemberEnrols \/ DeletedVault!StartOverExecutes \/ DeletedVault!MemberGone
         \/ DeletedVault!SweepMarks \/ DeletedVault!SweepPointer \/ DeletedVault!RetryMarks
  PROVE  RowInv' /\ RowGoesOn
<1>0. x1 \in DeletedVault!Row
  BY DEF RowInv, RowKept
<1>1. CASE DeletedVault!MemberEnrols \/ DeletedVault!MemberGone \/ DeletedVault!SweepPointer
  BY <1>1, RowRests DEF DeletedVault!MemberEnrols, DeletedVault!MemberGone, DeletedVault!SweepPointer, DeletedVault!NoWrite
<1>2. CASE DeletedVault!StartOverExecutes
  <2> DEFINE n == [x1 EXCEPT !.over = TRUE, !.asked = TRUE]
  <2>1. /\ x1.state # "gone" /\ DeletedVault!Write(n)
        /\ x3' = x3 /\ x4' = x4 /\ x5' = x5 /\ x6' = x6 /\ x7' = x7 /\ x9' = x9
    BY <1>2 DEF DeletedVault!StartOverExecutes
  <2>2. /\ n \in DeletedVault!Row /\ n.state = x1.state /\ n.alarm = x1.alarm /\ n.pending = x1.pending
        /\ n.handled = x1.handled /\ n.sweep = x1.sweep /\ n.closing = x1.closing
    BY <1>0 DEF DeletedVault!Row
  <2> HIDE DEF n
  <2> QED
    BY <2>1, <2>2, RowAsked
<1>3. CASE DeletedVault!SweepMarks \/ DeletedVault!RetryMarks
  <2> DEFINE n == DeletedVault!Marked
  <2>1. /\ n \in DeletedVault!Row /\ n.state = x1.state /\ n.alarm = x1.alarm /\ n.pending = x1.pending
        /\ n.handled = x1.handled /\ n.sweep = x1.sweep /\ (x1.closing => n.closing) /\ (x1.state = "gone" => n = x1)
    BY <1>0 DEF DeletedVault!Row, DeletedVault!Marked
  <2>2. x3' = x3 /\ x4' = x4 /\ x5' = x5 /\ x6' = x6 /\ x7' = x7 /\ x9' = x9
    BY <1>3 DEF DeletedVault!SweepMarks, DeletedVault!RetryMarks
  <2>3. DeletedVault!Asked(n) \/ DeletedVault!Asked(x1)
    BY <1>3 DEF DeletedVault!SweepMarks, DeletedVault!RetryMarks
  <2> HIDE DEF n
  <2>4. CASE DeletedVault!Asked(n)
    BY <2>1, <2>2, <2>4, RowAsk
  <2>5. CASE DeletedVault!Asked(x1)
    BY <1>0, <2>2, <2>5, RowAsk
  <2> QED
    BY <2>3, <2>4, <2>5
<1> QED
  BY <1>1, <1>2, <1>3

\* The mailer takes a record: one that is swept and handled is followed up, one it can claim is mailed.
LEMMA RowTaken ==
  ASSUME RowInv, DeletedVault!TakeRecord
  PROVE  RowInv' /\ RowGoesOn
<1>1. /\ x3 = "idle" /\ x2 # << >> /\ x4' = Head(x2) /\ x2' = Tail(x2)
      /\ x5' = x5 /\ x6' = x6 /\ x7' = x7 /\ x9' = x9
  BY DEF DeletedVault!TakeRecord
<1>2. x1 \in DeletedVault!Row /\ x2 \in Seq(DeletedVault!Row)
  BY DEF RowInv, RowKept
<1>3. /\ x4' \in DeletedVault!Row /\ x2' \in Seq(DeletedVault!Row)
      /\ Records(x2) = Records(x2') \union {x4'}
  BY <1>1, <1>2, RecordTaken
<1>4. Images' \subseteq Images /\ x4' \in Images
  BY <1>3 DEF Images
<1>5. CASE DeletedVault!SweptAndHandled(x4')
  <2>1. x3' = "followup" /\ x1' = x1
    BY <1>5 DEF DeletedVault!TakeRecord
  <2>2. x4'.alarm = "deleted" /\ ~x4'.pending
    BY <1>5 DEF DeletedVault!SweptAndHandled
  <2>3. RowKept' /\ RecordsBehind'
    BY <1>3, <1>4, <2>1 DEF RowInv, RowKept, RecordsBehind
  <2>4. MailerFits' /\ HandledFits'
    BY <1>1, <1>4, <1>5, <2>1, <2>2 DEF RowInv, MailerFits, HandledFits, PointerGone
  <2>5. x1'.state = "deleted" /\ ~x9' => ToRemove'
    BY <1>1, <1>3, <2>1, <2>2 DEF RowInv, ToRemove
  <2>6. RowGoesOn
    BY <1>1, <1>2, <2>1 DEF RowGoesOn, DeletedVault!Row
  <2> QED
    BY <2>3, <2>4, <2>5, <2>6 DEF RowInv
<1>6. CASE ~DeletedVault!SweptAndHandled(x4') /\ DeletedVault!Claims(x4')
  <2> DEFINE n == [x1 EXCEPT !.pending = FALSE]
  <2>1. x3' = "mail" /\ x1' = n /\ x1.pending /\ x1.alarm = x4'.alarm
    BY <1>6 DEF DeletedVault!TakeRecord, DeletedVault!Claims
  <2>2. /\ n \in DeletedVault!Row /\ n.state = x1.state /\ n.alarm = x1.alarm /\ ~n.pending
        /\ n.handled = x1.handled /\ n.sweep = x1.sweep /\ n.closing = x1.closing
    BY <1>2 DEF DeletedVault!Row
  <2> HIDE DEF n
  <2>3. x1.state # "gone" /\ x1.alarm # "none"
    BY <2>1 DEF RowInv, RowKept, DeletedVault!Gone, DeletedVault!Live
  <2>4. RowKept'
    BY <1>3, <2>1, <2>2, <2>3 DEF RowInv, RowKept
  <2>5. RecordsBehind'
    BY <1>4, <2>1, <2>2 DEF RowInv, RecordsBehind
  <2>6. MailerFits'
    BY <2>1, <2>2, <2>3 DEF MailerFits
  <2>7. HandledFits'
    BY <1>1, <1>4, <2>1, <2>2 DEF RowInv, HandledFits, PointerGone
  <2>8. x1'.state = "deleted" => x4'.alarm = "deleted"
    BY <2>1, <2>2 DEF RowInv, RowKept
  <2>9. x1'.state = "deleted" => ToRemove'
    BY <2>1, <2>8 DEF ToRemove
  <2>10. RowGoesOn
    BY <1>1, <1>2, <2>1, <2>2 DEF RowGoesOn, DeletedVault!Row
  <2> QED
    BY <2>4, <2>5, <2>6, <2>7, <2>9, <2>10 DEF RowInv
<1>7. CASE ~DeletedVault!SweptAndHandled(x4') /\ ~DeletedVault!Claims(x4')
  <2>1. x3' = "idle" /\ x1' = x1
    BY <1>7 DEF DeletedVault!TakeRecord
  <2>2. RowKept' /\ RecordsBehind'
    BY <1>3, <1>4, <2>1 DEF RowInv, RowKept, RecordsBehind
  <2>3. MailerFits' /\ HandledFits'
    BY <1>1, <1>4, <2>1 DEF RowInv, MailerFits, HandledFits, PointerGone
  <2>4. x1'.state = "deleted" /\ ~x9' => ToRemove'
    <3> SUFFICES ASSUME x1.state = "deleted", ~x9 PROVE ToRemove'
      BY <1>1, <2>1
    <3>1. ToRemove /\ x1.alarm = "deleted"
      BY DEF RowInv, RowKept
    <3>2. x1.pending => x4'.alarm # "deleted"
      BY <1>7, <3>1 DEF DeletedVault!Claims
    <3> QED
      BY <1>1, <1>3, <1>7, <2>1, <3>1, <3>2 DEF ToRemove
  <2>5. RowGoesOn
    BY <1>1, <1>2, <2>1 DEF RowGoesOn, DeletedVault!Row
  <2> QED
    BY <2>2, <2>3, <2>4, <2>5 DEF RowInv
<1> QED
  BY <1>5, <1>6, <1>7

\* It mails the notice, or fails and puts its claim back.
LEMMA RowMailed ==
  ASSUME RowInv, DeletedVault!MailNotice
  PROVE  RowInv' /\ RowGoesOn
<1>1. /\ x3 = "mail" /\ x7' = x7 \union {x4.alarm}
      /\ x3' = IF x4.alarm = "deleted" THEN "rows" ELSE "idle"
      /\ x1' = x1 /\ x2' = x2 /\ x4' = x4 /\ x5' = x5 /\ x6' = x6 /\ x9' = x9
  BY DEF DeletedVault!MailNotice, DeletedVault!AfterNotice, DeletedVault!NoWrite
<1>2. RowKept' /\ RecordsBehind'
  BY <1>1 DEF RowInv, RowKept, RecordsBehind, Images
<1>3. MailerFits'
  BY <1>1 DEF RowInv, MailerFits
<1>4. HandledFits'
  BY <1>1 DEF RowInv, HandledFits, Images, PointerGone
<1>5. x1'.state = "deleted" /\ ~x9' => ToRemove'
  BY <1>1 DEF RowInv, ToRemove
<1>6. RowGoesOn
  BY <1>1 DEF RowGoesOn, RowInv, RowKept, DeletedVault!Row
<1> QED
  BY <1>2, <1>3, <1>4, <1>5, <1>6 DEF RowInv

LEMMA RowUnmailed ==
  ASSUME RowInv, DeletedVault!MailFails
  PROVE  RowInv' /\ RowGoesOn
<1>1. /\ x3 = "mail" /\ x3' = "idle" /\ x4' = x4 /\ x5' = x5 /\ x6' = x6 /\ x7' = x7 /\ x9' = x9
  BY DEF DeletedVault!MailFails
<1>2. x1 \in DeletedVault!Row /\ x2 \in Seq(DeletedVault!Row) /\ x4 \in DeletedVault!Row /\ x4.alarm # "none"
  BY <1>1 DEF RowInv, RowKept, MailerFits
<1>3. CASE x1.alarm = x4.alarm
  <2> DEFINE n == [x1 EXCEPT !.pending = TRUE]
  <2>1. DeletedVault!Write(n)
    BY <1>3 DEF DeletedVault!MailFails
  <2>2. /\ n \in DeletedVault!Row /\ n.state = x1.state /\ n.alarm = x1.alarm /\ n.pending
        /\ n.handled = x1.handled /\ n.sweep = x1.sweep /\ n.closing = x1.closing
    BY <1>2 DEF DeletedVault!Row
  <2> HIDE DEF n
  <2>3. /\ x1' = n /\ x2' \in Seq(DeletedVault!Row) /\ n \in Records(x2')
        /\ Records(x2) \subseteq Records(x2') /\ Records(x2') \subseteq Records(x2) \union {n}
    BY <1>2, <2>1, <2>2, RowWrites
  <2>4. x1.state # "gone" /\ x1.alarm # "none"
    BY <1>2, <1>3 DEF RowInv, RowKept, DeletedVault!Gone, DeletedVault!Live
  <2>5. RowKept'
    BY <1>1, <2>2, <2>3, <2>4 DEF RowInv, RowKept
  <2>6. RecordsBehind'
    BY <1>1, <2>2, <2>3, <2>4 DEF RowInv, RecordsBehind, Images
  <2>7. MailerFits'
    BY <1>1 DEF MailerFits
  <2>8. HandledFits'
    BY <1>1, <2>2, <2>3 DEF RowInv, HandledFits, Images, PointerGone
  <2>9. x1'.state = "deleted" => ToRemove'
    <3> SUFFICES ASSUME x1'.state = "deleted" PROVE ToRemove'
      OBVIOUS
    <3>1. n.alarm = "deleted"
      BY <2>2, <2>3 DEF RowInv, RowKept
    <3>2. x1'.pending /\ \E r \in Records(x2') : r.pending /\ r.alarm = "deleted"
      BY <2>2, <2>3, <3>1
    <3> QED
      BY <3>2 DEF ToRemove
  <2>10. RowGoesOn
    BY <1>1, <1>2, <2>2, <2>3 DEF RowGoesOn, DeletedVault!Row
  <2> QED
    BY <2>5, <2>6, <2>7, <2>8, <2>9, <2>10 DEF RowInv
<1>4. CASE x1.alarm # x4.alarm
  <2>1. x1' = x1 /\ x2' = x2 /\ x6' = x6
    BY <1>4 DEF DeletedVault!MailFails, DeletedVault!NoWrite
  <2>2. RowKept' /\ RecordsBehind' /\ MailerFits'
    BY <1>1, <2>1 DEF RowInv, RowKept, RecordsBehind, Images, MailerFits
  <2>3. HandledFits'
    BY <1>1, <2>1 DEF RowInv, HandledFits, Images, PointerGone
  <2>4. x1'.state = "deleted" /\ ~x9' => ToRemove'
    <3> SUFFICES ASSUME x1.state = "deleted", ~x9 PROVE ToRemove'
      BY <1>1, <2>1
    <3>1. ToRemove /\ x4.alarm # "deleted"
      BY <1>4 DEF RowInv, RowKept
    <3> QED
      BY <1>1, <2>1, <3>1 DEF ToRemove
  <2>5. RowGoesOn
    BY <1>1, <1>2, <2>1 DEF RowGoesOn, DeletedVault!Row
  <2> QED
    BY <2>2, <2>3, <2>4, <2>5 DEF RowInv
<1> QED
  BY <1>3, <1>4

\* It removes the row, or leaves one whose sweep goes on.
LEMMA DeletedRemoved ==
  ASSUME RowInv, DeletedVault!RemoveRow
  PROVE  RowInv' /\ RowGoesOn
<1>1. /\ x3 \in {"rows", "followup"} /\ x2' = x2 /\ x4' = x4 /\ x6' = x6 /\ x7' = x7 /\ x9' = x9
      /\ x5' = DeletedVault!tombstoneCause(x4)
  BY DEF DeletedVault!RemoveRow, DeletedVault!PutTombstone
<1>2. x5' # "none"
  BY <1>1 DEF DeletedVault!tombstoneCause
<1>3. "deleted" \in x7 /\ (x3 = "followup" => PointerGone)
  <2>1. x3 = "followup" => x4.handled
    BY DEF RowInv, MailerFits, DeletedVault!SweptAndHandled
  <2> QED
    BY <1>1, <2>1 DEF RowInv, MailerFits, HandledFits, Images
<1>4. x1 \in DeletedVault!Row
  BY DEF RowInv, RowKept
<1>5. CASE DeletedVault!Removable
  <2>1. /\ x1.state = "deleted" /\ ~x1.sweep /\ x1' = DeletedVault!Gone
        /\ x3' = IF x3 = "rows" THEN "pointer" ELSE "idle"
    BY <1>5 DEF DeletedVault!RemoveRow, DeletedVault!Removable
  <2>2. /\ DeletedVault!Gone \in DeletedVault!Row /\ DeletedVault!Gone.state = "gone"
        /\ ~DeletedVault!Gone.pending /\ ~DeletedVault!Gone.handled
    BY DEF DeletedVault!Gone, DeletedVault!Live, DeletedVault!Row
  <2>3. RowKept' /\ RecordsBehind'
    BY <1>1, <2>1, <2>2 DEF RowInv, RowKept, RecordsBehind
  <2>4. MailerFits'
    BY <1>1, <2>1, <2>2 DEF RowInv, MailerFits
  <2>5. HandledFits'
    BY <1>1, <1>3, <2>1, <2>2 DEF RowInv, HandledFits, Images, PointerGone
  <2>6. x1'.state # "deleted" /\ RowGoesOn
    BY <1>2, <1>3, <2>1, <2>2 DEF RowGoesOn
  <2> QED
    BY <2>3, <2>4, <2>5, <2>6 DEF RowInv
<1>6. CASE ~DeletedVault!Removable
  <2>1. x1' = x1 /\ x3' = IF x3 = "rows" THEN "handled" ELSE "idle"
    BY <1>6 DEF DeletedVault!RemoveRow
  <2>2. RowKept' /\ RecordsBehind'
    BY <1>1, <2>1 DEF RowInv, RowKept, RecordsBehind, Images
  <2>3. MailerFits'
    BY <1>1, <2>1 DEF RowInv, MailerFits
  <2>4. HandledFits'
    BY <1>1, <2>1 DEF RowInv, HandledFits, Images, PointerGone
  <2>5. x1'.state = "deleted" /\ ~x9' => ToRemove'
    <3> SUFFICES ASSUME x1.state = "deleted", ~x9 PROVE ToRemove'
      BY <1>1, <2>1
    <3>1. ToRemove /\ x1.sweep
      BY <1>6 DEF RowInv, DeletedVault!Removable
    <3> QED
      BY <1>1, <2>1, <3>1 DEF ToRemove
  <2>6. RowGoesOn
    BY <1>2, <1>4, <2>1 DEF RowGoesOn, DeletedVault!Row
  <2> QED
    BY <2>2, <2>3, <2>4, <2>5, <2>6 DEF RowInv
<1> QED
  BY <1>5, <1>6

\* A record that could not be put is taken again, or the row stays to be handled.
LEMMA RowStays ==
  ASSUME RowInv, x3 = "rows", x3' = "handled",
         x1' = x1, x2' = x2, x4' = x4, x5' = x5, x6' = x6, x7' = x7, x9' = x9
  PROVE  RowInv' /\ RowGoesOn
<1>1. RowKept' /\ RecordsBehind'
  BY DEF RowInv, RowKept, RecordsBehind, Images
<1>2. MailerFits' /\ HandledFits'
  BY DEF RowInv, MailerFits, HandledFits, Images, PointerGone
<1>3. x1'.state = "deleted" /\ ~x9' => ToRemove'
  BY DEF RowInv, ToRemove
<1>4. RowGoesOn
  BY DEF RowGoesOn, RowInv, RowKept
<1> QED
  BY <1>1, <1>2, <1>3, <1>4 DEF RowInv

LEMMA RowBack ==
  ASSUME RowInv, x3 # "idle", x3' = "idle", x2' = <<x4>> \o x2, x9' \/ x3 = "followup", x9 => x9',
         x1' = x1, x4' = x4, x5' = x5, x6' = x6, x7' = x7
  PROVE  RowInv' /\ RowGoesOn
<1>1. x2' \in Seq(DeletedVault!Row) /\ Records(x2') = Records(x2) \union {x4}
  BY RecordBack DEF RowInv, RowKept
<1>2. RowKept' /\ RecordsBehind'
  BY <1>1 DEF RowInv, RowKept, RecordsBehind, Images
<1>3. MailerFits' /\ HandledFits'
  BY <1>1 DEF RowInv, MailerFits, HandledFits, Images, PointerGone
<1>4. x1'.state = "deleted" /\ ~x9' => ToRemove'
  BY <1>1 DEF RowInv, MailerFits, ToRemove
<1>5. RowGoesOn
  BY DEF RowGoesOn, RowInv, RowKept
<1> QED
  BY <1>2, <1>3, <1>4, <1>5 DEF RowInv

LEMMA DeletedHandled ==
  ASSUME RowInv, DeletedVault!MarkHandled
  PROVE  RowInv' /\ RowGoesOn
<1>1. /\ x3 = "handled" /\ x3' = "pointer" /\ x4' = x4 /\ x5' = x5 /\ x6' = x6 /\ x7' = x7 /\ x9' = x9
  BY DEF DeletedVault!MarkHandled
<1>2. /\ x1 \in DeletedVault!Row /\ x2 \in Seq(DeletedVault!Row) /\ x4.alarm = "deleted" /\ "deleted" \in x7
  BY <1>1 DEF RowInv, RowKept, MailerFits
<1>3. CASE x1.alarm = x4.alarm
  <2> DEFINE n == [x1 EXCEPT !.handled = TRUE]
  <2>1. DeletedVault!Write(n)
    BY <1>3 DEF DeletedVault!MarkHandled
  <2>2. /\ n \in DeletedVault!Row /\ n.state = x1.state /\ n.alarm = x1.alarm /\ n.pending = x1.pending
        /\ n.handled /\ n.sweep = x1.sweep /\ n.closing = x1.closing
    BY <1>2 DEF DeletedVault!Row
  <2> HIDE DEF n
  <2>3. /\ x1' = n /\ x2' \in Seq(DeletedVault!Row) /\ (DeletedVault!SweptAndHandled(n) => n \in Records(x2'))
        /\ Records(x2) \subseteq Records(x2') /\ Records(x2') \subseteq Records(x2) \union {n}
    BY <1>2, <2>1, <2>2, RowWrites
  <2>4. x1.state # "gone" /\ ~x1.pending
    BY <1>1, <1>2, <1>3 DEF RowInv, RowKept, MailerFits, DeletedVault!Gone, DeletedVault!Live
  <2>5. RowKept'
    BY <1>1, <2>2, <2>3, <2>4 DEF RowInv, RowKept
  <2>6. RecordsBehind'
    BY <1>1, <1>2, <1>3, <2>2, <2>3 DEF RowInv, RecordsBehind, Images
  <2>7. MailerFits'
    BY <1>1, <1>2 DEF MailerFits
  <2>8. HandledFits'
    BY <1>1, <1>2 DEF HandledFits, PointerGone
  <2>9. x1'.state = "deleted" => ToRemove'
    <3> SUFFICES ASSUME x1'.state = "deleted", ~x1'.sweep PROVE ToRemove'
      BY <2>2, <2>3, <2>4 DEF ToRemove
    <3>1. DeletedVault!SweptAndHandled(n)
      BY <1>2, <1>3, <2>2, <2>3, <2>4 DEF DeletedVault!SweptAndHandled
    <3> QED
      BY <2>2, <2>3, <2>4, <3>1 DEF ToRemove
  <2>10. RowGoesOn
    BY <1>1, <1>2, <2>2, <2>3 DEF RowGoesOn, DeletedVault!Row
  <2> QED
    BY <2>5, <2>6, <2>7, <2>8, <2>9, <2>10 DEF RowInv
<1>4. CASE x1.alarm # x4.alarm
  <2>1. x1' = x1 /\ x2' = x2
    BY <1>4 DEF DeletedVault!MarkHandled, DeletedVault!NoWrite
  <2>2. x1.state # "deleted"
    BY <1>2, <1>4 DEF RowInv, RowKept
  <2>3. RowKept' /\ RecordsBehind'
    BY <1>1, <2>1 DEF RowInv, RowKept, RecordsBehind, Images
  <2>4. MailerFits' /\ HandledFits'
    BY <1>1, <1>2, <2>1 DEF MailerFits, HandledFits, PointerGone
  <2>5. RowGoesOn
    BY <1>1, <1>2, <2>1 DEF RowGoesOn, DeletedVault!Row
  <2> QED
    BY <2>1, <2>2, <2>3, <2>4, <2>5 DEF RowInv
<1> QED
  BY <1>3, <1>4

LEMMA RowUnpointed ==
  ASSUME RowInv, DeletedVault!RemovePointer
  PROVE  RowInv' /\ RowGoesOn
<1>1. /\ x3 = "pointer" /\ x3' = "idle" /\ x6' = (IF x6 = "this" THEN "none" ELSE x6)
      /\ x1' = x1 /\ x2' = x2 /\ x4' = x4 /\ x5' = x5 /\ x7' = x7 /\ x9' = x9
  BY DEF DeletedVault!RemovePointer, DeletedVault!PointerAfter, DeletedVault!NoWrite
<1>2. RowKept' /\ RecordsBehind' /\ MailerFits'
  BY <1>1 DEF RowInv, RowKept, RecordsBehind, Images, MailerFits
<1>3. HandledFits'
  BY <1>1 DEF RowInv, HandledFits, Images, PointerGone
<1>4. x1'.state = "deleted" /\ ~x9' => ToRemove'
  BY <1>1 DEF RowInv, ToRemove
<1>5. RowGoesOn
  BY <1>1 DEF RowGoesOn, RowInv, RowKept
<1> QED
  BY <1>2, <1>3, <1>4, <1>5 DEF RowInv

LEMMA RowStep == RowInv /\ [DeletedVault!Next]_(DeletedVault!vars) => RowInv' /\ RowGoesOn
<1> SUFFICES ASSUME RowInv, [DeletedVault!Next]_(DeletedVault!vars) PROVE RowInv' /\ RowGoesOn
  OBVIOUS
<1>1. CASE UNCHANGED DeletedVault!vars
  BY <1>1, RowRests DEF DeletedVault!vars
<1>2. CASE DeletedVault!HostReportsClone \/ DeletedVault!HostReportsDeleted \/ DeletedVault!HostSwept
  BY <1>2, RowCloned, RowDeleted, RowSwept
<1>3. CASE \/ DeletedVault!MemberEnrols \/ DeletedVault!StartOverExecutes \/ DeletedVault!MemberGone
           \/ DeletedVault!SweepMarks \/ DeletedVault!SweepPointer \/ DeletedVault!RetryMarks
  BY <1>3, RowMember
<1>4. CASE \/ DeletedVault!TakeRecord \/ DeletedVault!MailNotice \/ DeletedVault!MailFails \/ DeletedVault!RemoveRow
           \/ DeletedVault!MarkHandled \/ DeletedVault!RemovePointer
  BY <1>4, RowTaken, RowMailed, RowUnmailed, DeletedRemoved, DeletedHandled, RowUnpointed
<1>5. CASE DeletedVault!TombstoneFails
  <2>1. CASE x3 = "rows"
    BY <1>5, <2>1, RowStays DEF DeletedVault!TombstoneFails
  <2>2. CASE x3 = "followup"
    BY <1>5, <2>2, RowBack DEF DeletedVault!TombstoneFails
  <2> QED
    BY <1>5, <2>1, <2>2 DEF DeletedVault!TombstoneFails
<1>6. CASE DeletedVault!StillSweeping
  BY <1>6, RowStays DEF DeletedVault!StillSweeping, DeletedVault!NoWrite
<1>7. CASE DeletedVault!MailerDies
  BY <1>7, RowBack DEF DeletedVault!MailerDies
<1> QED
  BY <1>1, <1>2, <1>3, <1>4, <1>5, <1>6, <1>7 DEF DeletedVault!Next

\* What the run checks: of each state, and of each step.
LEMMA RowSafe == RowInv => DeletedVault!NothingLeftBehind
<1> SUFFICES ASSUME RowInv, x2 = << >>, x3 = "idle", ~x1.sweep, ~x9
             PROVE  x1.state # "deleted" /\ (x1.state = "gone" => x6 # "this")
  BY DEF DeletedVault!NothingLeftBehind
<1>1. Records(x2) = {}
  BY DEF Records
<1>2. ~ToRemove
  BY <1>1 DEF ToRemove
<1>3. x1.state # "deleted"
  BY <1>2 DEF RowInv
<1>4. x1.state = "gone" => x6 # "this"
  BY DEF RowInv, HandledFits, PointerGone
<1> QED
  BY <1>3, <1>4

LEMMA RowAnswers == RowInv /\ [DeletedVault!Next]_(DeletedVault!vars) => DeletedVault!DefiniteAnswer
<1> SUFFICES ASSUME RowInv, [DeletedVault!Next]_(DeletedVault!vars)
             PROVE  DeletedVault!DefiniteAnswer
  OBVIOUS
<1>1. RowGoesOn /\ x1.state \in {"live", "deleted", "gone"} /\ x1'.state \in {"live", "deleted", "gone"}
  <2>1. RowInv' /\ RowGoesOn
    BY RowStep
  <2> QED
    BY <2>1 DEF RowInv, RowKept, DeletedVault!Row
<1>2. /\ DeletedVault!Answer = "410 vault_deleted" <=> x1.state = "deleted" \/ (x1.state = "gone" /\ x5 # "none")
      /\ DeletedVault!Answer = "410 account_deleted" <=> x1.state = "live" /\ x1.closing
  BY <1>1 DEF DeletedVault!Answer
<1>3. /\ (DeletedVault!Answer = "410 vault_deleted")' <=> x1'.state = "deleted" \/ (x1'.state = "gone" /\ x5' # "none")
      /\ (DeletedVault!Answer = "410 account_deleted")' <=> x1'.state = "live" /\ x1'.closing
  BY <1>1 DEF DeletedVault!Answer
<1>4. DeletedVault!DefiniteAnswer
  BY <1>1, <1>2, <1>3 DEF RowGoesOn, DeletedVault!DefiniteAnswer
<1> QED
  BY <1>4

\* A member who is gone has no vault enrolled since.
OwnPointer == x10 # "there" => x6 # "other"

LEMMA PointerStep ==
  ASSUME OwnPointer, [DeletedVault!Next]_(DeletedVault!vars)
  PROVE  OwnPointer' /\ DeletedVault!NewPointerKept
<1>1. CASE UNCHANGED DeletedVault!vars
  BY <1>1 DEF DeletedVault!vars, OwnPointer, DeletedVault!NewPointerKept
<1>2. CASE x6' = x6 /\ x10' = x10
  BY <1>2 DEF OwnPointer, DeletedVault!NewPointerKept
<1>3. CASE \/ DeletedVault!MemberEnrols \/ DeletedVault!MemberGone \/ DeletedVault!SweepMarks \/ DeletedVault!SweepPointer
  BY <1>3 DEF DeletedVault!MemberEnrols, DeletedVault!MemberGone, DeletedVault!SweepMarks, DeletedVault!SweepPointer,
     OwnPointer, DeletedVault!NewPointerKept
<1>4. CASE DeletedVault!RemovePointer
  BY <1>4 DEF DeletedVault!RemovePointer, DeletedVault!PointerAfter, OwnPointer, DeletedVault!NewPointerKept
<1> QED
  BY <1>1, <1>2, <1>3, <1>4 DEF DeletedVault!Next, DeletedVault!HostReportsClone, DeletedVault!HostReportsDeleted, DeletedVault!HostSwept,
     DeletedVault!StartOverExecutes, DeletedVault!RetryMarks, DeletedVault!TakeRecord, DeletedVault!MailNotice, DeletedVault!MailFails,
     DeletedVault!RemoveRow, DeletedVault!TombstoneFails, DeletedVault!StillSweeping, DeletedVault!MarkHandled, DeletedVault!MailerDies

DeletedInv == RowInv /\ OwnPointer

LEMMA DeletedInit == DeletedVault!Init => DeletedInv
BY RowInit DEF DeletedVault!Init, DeletedInv, OwnPointer

LEMMA DeletedStep == DeletedInv /\ [DeletedVault!Next]_(DeletedVault!vars) => DeletedInv'
BY RowStep, PointerStep DEF DeletedInv

LEMMA DeletedSafe ==
  /\ DeletedInv => DeletedVault!NothingLeftBehind
  /\ DeletedInv /\ [DeletedVault!Next]_(DeletedVault!vars) => DeletedVault!DefiniteAnswer /\ DeletedVault!NewPointerKept
BY RowSafe, RowAnswers, PointerStep DEF DeletedInv

--------------------------------------------------------------------------------
(***************************************************************************)
(* The name changes asked for in the app, for any number of requests and   *)
(* of jobs at once, of which any may fail or stop.  A request is one job's *)
(* at a time, or pending.  One that was applied and is still of use to a   *)
(* job is the last that was applied, less than thirty days ago, since the  *)
(* days do not pass over a request under way; so a retry finds it done,    *)
(* and a job about to apply one either finds name_changed_at as it read it *)
(* and no change in thirty days, or finds it moved.                        *)
(***************************************************************************)
CONSTANTS NameRequests, NameFaults                             \* requests to change a name; jobs that fail or stop

ASSUME NamesAssumption == {NameRequests, NameFaults} \subseteq Nat

Names == INSTANCE NameChange WITH
               Jobs <- Two, MaxRequests <- NameRequests, MaxFaults <- NameFaults,
               row <- x1, member <- x2, job <- x3, applied <- x4, faults <- x5

NameOutcomes == {"none", "applied", "account", "invalid", "too_soon"}
NameRow    == [seq : Nat, pending : BOOLEAN, result : Nat, status : NameOutcomes,
               state : {"enrolled", "deleted"}, current : BOOLEAN]
NameMember == [active : BOOLEAN, stamp : Nat, recent : BOOLEAN, appliedSeq : Nat]
NameJob    == [at : {"idle", "current", "decide", "apply", "tell", "result", "throw"}, seq : Nat,
               current : BOOLEAN, stamp : Nat, tries : 0..2, outcome : NameOutcomes]
NamePast   == [ever : SUBSET Nat, recent : SUBSET Nat]

NameTyped == x1 \in NameRow /\ x2 \in NameMember /\ x3 \in [Two -> NameJob] /\ x4 \in NamePast

\* A request that is settled or applied was made, and one applied is the last applied.
NamesPast ==
  /\ x1.result <= x1.seq /\ \A s \in x4.ever : s <= x1.seq
  /\ x2.stamp = x2.appliedSeq /\ x4.recent \subseteq {x2.stamp} /\ (~x2.recent => x4.recent = {})
  /\ x1.status \in {"invalid", "too_soon"} => x1.result \notin x4.ever

\* What was applied of a request that may still be looked at is fresh.
AppliedFresh(s) == s \in x4.ever => x2.recent /\ x2.appliedSeq = s

NamePending == x1.pending => x1.result # x1.seq /\ AppliedFresh(x1.seq)

AtRequest(j) == x3[j].at # "idle"

NameJobFits(j) ==
  AtRequest(j) =>
    /\ x3[j].seq <= x1.seq /\ x1.result # x3[j].seq /\ (x1.pending => x3[j].seq # x1.seq)
    /\ AppliedFresh(x3[j].seq)
    /\ x3[j].at \in {"tell", "result"} /\ x3[j].outcome \in {"invalid", "too_soon"} => x3[j].seq \notin x4.ever
    /\ x3[j].at = "apply" => /\ x3[j].outcome = "applied" /\ x3[j].seq # x3[j].stamp
                             /\ x3[j].stamp = x2.stamp <=> ~x2.recent

OneJobEach == \A j, k \in Two : AtRequest(j) /\ AtRequest(k) /\ j # k => x3[j].seq # x3[k].seq

NameInv == NameTyped /\ NamesPast /\ NamePending /\ (\A j \in Two : NameJobFits(j)) /\ OneJobEach

LEMMA NameInit == Names!Init => NameInv
<1> SUFFICES ASSUME Names!Init PROVE NameInv
  OBVIOUS
<1>1. x1 \in NameRow /\ x1.result = 0 /\ x1.seq = 0 /\ ~x1.pending /\ x1.status = "none"
  BY DEF Names!Init, NameRow, NameOutcomes
<1>2. x2 \in NameMember /\ x2.stamp = 0 /\ x2.appliedSeq = 0
  BY DEF Names!Init, NameMember
<1>3. x3 \in [Two -> NameJob] /\ \A j \in Two : x3[j].at = "idle"
  BY DEF Names!Init, Names!Idle, NameJob, NameOutcomes
<1>4. x4 \in NamePast /\ x4.ever = {} /\ x4.recent = {}
  BY DEF Names!Init, NamePast
<1> QED
  BY <1>1, <1>2, <1>3, <1>4 DEF NameInv, NameTyped, NamesPast, NamePending, NameJobFits, OneJobEach, AtRequest

\* A job goes on with its own request, or leaves it.
LEMMA NameJobGoes ==
  ASSUME NameInv, NEW j \in Two, NEW v \in NameJob, x3' = [x3 EXCEPT ![j] = v], x1' = x1, x2' = x2, x4' = x4,
         v.at # "idle" => AtRequest(j) /\ v.seq = x3[j].seq,
         v.at \in {"tell", "result"} /\ v.outcome \in {"invalid", "too_soon"} => v.seq \notin x4.ever,
         v.at = "apply" => v.outcome = "applied" /\ v.seq # v.stamp /\ (v.stamp = x2.stamp <=> ~x2.recent)
  PROVE  NameInv'
<1>1. x3' \in [Two -> NameJob] /\ x3'[j] = v /\ \A k \in Two \ {j} : x3'[k] = x3[k]
  BY DEF NameInv, NameTyped
<1>2. NameTyped' /\ NamesPast' /\ NamePending'
  BY <1>1 DEF NameInv, NameTyped, NamesPast, NamePending, AppliedFresh
<1>3. NameJobFits(j)'
  BY <1>1 DEF NameInv, NameJobFits, AtRequest, AppliedFresh
<1>4. \A k \in Two \ {j} : NameJobFits(k)'
  BY <1>1 DEF NameInv, NameJobFits, AtRequest, AppliedFresh
<1>5. OneJobEach'
  BY <1>1 DEF NameInv, OneJobEach, AtRequest
<1> QED
  BY <1>2, <1>3, <1>4, <1>5 DEF NameInv

LEMMA NameIdle == Names!Idle \in NameJob /\ Names!Idle.at = "idle" /\ Names!Idle.outcome = "none"
BY DEF Names!Idle, NameJob, NameOutcomes

LEMMA NameRequested == ASSUME NameInv, Names!Request PROVE NameInv'
<1>1. /\ x1 \in NameRow /\ x2' = x2 /\ x3' = x3 /\ x4' = x4
      /\ x1' = [x1 EXCEPT !.seq = x1.seq + 1, !.pending = TRUE]
  BY DEF NameInv, NameTyped, Names!Request
<1>2. \A n \in Nat, p \in BOOLEAN : [x1 EXCEPT !.seq = n, !.pending = p] \in NameRow
  BY <1>1 DEF NameRow
<1>3. x1.seq \in Nat /\ x1.seq + 1 \in Nat /\ x1.result \in Nat
  BY <1>1 DEF NameRow
<1>4. x1' \in NameRow
  BY <1>1, <1>2, <1>3
<1>5. x1'.seq = x1.seq + 1 /\ x1'.result = x1.result /\ x1'.status = x1.status
  BY <1>1 DEF NameRow
<1>6. \A s \in x4.ever : s \in Nat
  BY DEF NameInv, NameTyped, NamePast
<1>7. NameTyped' /\ NamesPast'
  BY <1>1, <1>3, <1>4, <1>5, <1>6 DEF NameInv, NameTyped, NamesPast
<1>8. x1'.seq \notin x4.ever /\ x1'.result # x1'.seq
  BY <1>3, <1>5, <1>6 DEF NameInv, NamesPast
<1>9. NamePending'
  BY <1>1, <1>8 DEF NamePending, AppliedFresh
<1>10. ASSUME NEW j \in Two PROVE NameJobFits(j)'
  <2>1. x3[j].seq \in Nat /\ NameJobFits(j)
    BY DEF NameInv, NameTyped, NameJob
  <2> QED
    BY <1>1, <1>3, <1>5, <2>1 DEF NameJobFits, AtRequest, AppliedFresh
<1>11. OneJobEach'
  BY <1>1 DEF NameInv, OneJobEach, AtRequest
<1> QED
  BY <1>7, <1>9, <1>10, <1>11 DEF NameInv

LEMMA NameClaimed == ASSUME NameInv, NEW j \in Two, Names!Claim(j) PROVE NameInv'
<1> DEFINE v == [Names!Idle EXCEPT !.at = "current", !.seq = x1.seq]
<1>1. /\ x1 \in NameRow /\ x1.pending /\ x3[j].at = "idle" /\ x2' = x2 /\ x4' = x4
      /\ x1' = [x1 EXCEPT !.pending = FALSE] /\ x3' = [x3 EXCEPT ![j] = v]
  BY DEF NameInv, NameTyped, Names!Claim
<1>2. v \in NameJob /\ v.at = "current" /\ v.seq = x1.seq
  <2>1. \A w \in NameJob, a \in {"idle", "current"}, n \in Nat : [w EXCEPT !.at = a, !.seq = n] \in NameJob
    BY DEF NameJob
  <2>2. x1.seq \in Nat
    BY <1>1 DEF NameRow
  <2>3. v.at = "current" /\ v.seq = x1.seq
    BY DEF Names!Idle
  <2> QED
    BY <2>1, <2>2, <2>3, NameIdle
<1> HIDE DEF v
<1>3. x1' \in NameRow /\ x1'.seq = x1.seq /\ x1'.result = x1.result /\ x1'.status = x1.status /\ ~x1'.pending
  BY <1>1 DEF NameRow
<1>4. x3' \in [Two -> NameJob] /\ x3'[j] = v /\ \A k \in Two \ {j} : x3'[k] = x3[k]
  BY <1>1, <1>2 DEF NameInv, NameTyped
<1>5. NameTyped' /\ NamesPast' /\ NamePending'
  BY <1>1, <1>3, <1>4 DEF NameInv, NameTyped, NamesPast, NamePending
<1>6. x1.seq \in Nat
  BY <1>1 DEF NameRow
<1>7. NameJobFits(j)'
  BY <1>1, <1>2, <1>3, <1>4, <1>6 DEF NameInv, NamePending, NameJobFits, AtRequest, AppliedFresh
<1>8. \A k \in Two \ {j} : NameJobFits(k)'
  BY <1>1, <1>3, <1>4 DEF NameInv, NameJobFits, AtRequest, AppliedFresh
<1>9. OneJobEach'
  BY <1>1, <1>2, <1>4 DEF NameInv, OneJobEach, NameJobFits, AtRequest
<1> QED
  BY <1>5, <1>7, <1>8, <1>9 DEF NameInv

LEMMA NameDecides == ASSUME NameInv, NEW j \in Two, Names!Decide(j) PROVE NameInv'
<1>1. /\ x3[j] \in NameJob /\ x3[j].at = "decide" /\ x2 \in NameMember /\ NameJobFits(j) /\ x2.stamp = x2.appliedSeq
      /\ x1' = x1 /\ x2' = x2 /\ x4' = x4
  BY DEF NameInv, NameTyped, NamesPast, Names!Decide
<1>2. PICK malformed \in BOOLEAN :
        LET outcome == IF ~x2.active \/ ~x3[j].current THEN "account"
                       ELSE IF Names!Done(j) THEN "applied"
                       ELSE IF malformed THEN "invalid"
                       ELSE IF x2.recent THEN "too_soon" ELSE "applied"
            settled == outcome # "applied" \/ Names!Done(j) IN
        /\ malformed => x3[j].seq \notin x4.ever
        /\ x3' = [x3 EXCEPT ![j] = [x3[j] EXCEPT !.at = IF settled THEN "tell" ELSE "apply", !.outcome = outcome,
                              !.stamp = x2.stamp]]
  <2>1. x3 \in [Two -> NameJob]
    BY DEF NameInv, NameTyped
  <2> QED
    BY <2>1 DEF Names!Decide
<1> DEFINE o == IF ~x2.active \/ ~x3[j].current THEN "account"
                ELSE IF Names!Done(j) THEN "applied"
                ELSE IF malformed THEN "invalid"
                ELSE IF x2.recent THEN "too_soon" ELSE "applied"
           a == IF o # "applied" \/ Names!Done(j) THEN "tell" ELSE "apply"
           v == [x3[j] EXCEPT !.at = a, !.outcome = o, !.stamp = x2.stamp]
<1>3. x3' = [x3 EXCEPT ![j] = v] /\ (malformed => x3[j].seq \notin x4.ever)
  BY <1>2
<1>4. /\ o \in NameOutcomes /\ a \in {"tell", "apply"}
      /\ o \in {"invalid", "too_soon"} => ~Names!Done(j) /\ (malformed \/ x2.recent)
      /\ a = "apply" => o = "applied" /\ ~Names!Done(j) /\ ~x2.recent
  BY DEF NameOutcomes
<1>5. Names!Done(j) <=> x2.appliedSeq = x3[j].seq
  BY DEF Names!Done
<1> HIDE DEF o, a
<1>6. \A b \in {"tell", "apply"}, p \in NameOutcomes, s \in Nat : [x3[j] EXCEPT !.at = b, !.outcome = p, !.stamp = s] \in NameJob
  BY <1>1 DEF NameJob
<1>7. x2.stamp \in Nat
  BY <1>1 DEF NameMember
<1>8. v \in NameJob
  BY <1>4, <1>6, <1>7
<1>9. v.at = a /\ v.seq = x3[j].seq /\ v.stamp = x2.stamp /\ v.outcome = o
  BY <1>1 DEF NameJob
<1> HIDE DEF v
<1>10. AtRequest(j)
  BY <1>1 DEF AtRequest
<1>11. v.at \in {"tell", "result"} /\ v.outcome \in {"invalid", "too_soon"} => v.seq \notin x4.ever
  BY <1>1, <1>3, <1>4, <1>5, <1>9, <1>10 DEF NameJobFits, AppliedFresh
<1>12. v.at = "apply" => v.outcome = "applied" /\ v.seq # v.stamp /\ (v.stamp = x2.stamp <=> ~x2.recent)
  BY <1>1, <1>4, <1>5, <1>9
<1> QED
  BY <1>1, <1>3, <1>8, <1>9, <1>10, <1>11, <1>12, NameJobGoes

LEMMA NameApplies == ASSUME NameInv, NEW j \in Two, Names!Apply(j) PROVE NameInv'
<1>1. /\ x3 \in [Two -> NameJob] /\ x3[j] \in NameJob /\ x3[j].at = "apply" /\ x2 \in NameMember /\ NameJobFits(j)
      /\ AtRequest(j) /\ x4 \in NamePast /\ x1' = x1
  BY DEF NameInv, NameTyped, Names!Apply, AtRequest
<1>2. CASE Names!Unmoved(j)
  <2> DEFINE s == x3[j].seq
             v == [x3[j] EXCEPT !.at = "tell"]
  <2>1. /\ x2' = [x2 EXCEPT !.stamp = s, !.recent = TRUE, !.appliedSeq = s]
        /\ x4' = [ever |-> x4.ever \cup {s}, recent |-> x4.recent \cup {s}]
        /\ x3' = [x3 EXCEPT ![j] = v] /\ x2.stamp = x3[j].stamp
    BY <1>1, <1>2 DEF Names!Apply, Names!Unmoved
  <2>2. s \in Nat /\ ~x2.recent /\ x3[j].seq # x2.stamp /\ x4.recent = {} /\ s <= x1.seq /\ x1.result # s
    BY <1>1, <2>1 DEF NameInv, NamesPast, NameJobFits, NameJob
  <2>3. \A n \in Nat, b \in BOOLEAN : [x2 EXCEPT !.stamp = n, !.recent = b, !.appliedSeq = n] \in NameMember
    BY <1>1 DEF NameMember
  <2>4. x2' \in NameMember
    BY <2>1, <2>2, <2>3
  <2>5. x2'.stamp = s /\ x2'.appliedSeq = s /\ x2'.recent
    BY <1>1, <2>1 DEF NameMember
  <2>6. x4' \in NamePast /\ x4'.ever = x4.ever \cup {s} /\ x4'.recent = {s}
    BY <1>1, <2>1, <2>2 DEF NamePast
  <2>7. \A a \in {"idle", "current", "decide", "apply", "tell", "result", "throw"} : [x3[j] EXCEPT !.at = a] \in NameJob
    BY <1>1 DEF NameJob
  <2>8. v \in NameJob
    BY <2>7
  <2>9. v.at = "tell" /\ v.seq = s /\ v.outcome = x3[j].outcome
    BY <1>1 DEF NameJob
  <2> HIDE DEF v
  <2>10. x3' \in [Two -> NameJob] /\ x3'[j] = v /\ \A k \in Two \ {j} : x3'[k] = x3[k]
    BY <1>1, <2>1, <2>8
  <2>11. NameTyped'
    BY <1>1, <2>4, <2>6, <2>10 DEF NameInv, NameTyped
  <2>12. NamesPast'
    BY <1>1, <2>2, <2>5, <2>6 DEF NameInv, NamesPast
  <2>13. NamePending'
    <3>1. x1.pending => x1.seq # s /\ x1.seq \notin x4.ever
      BY <1>1, <2>2 DEF NameInv, NamePending, AppliedFresh, NameJobFits
    <3> QED
      BY <1>1, <2>6, <3>1 DEF NameInv, NamePending, AppliedFresh
  <2>14. NameJobFits(j)'
    BY <1>1, <2>2, <2>5, <2>6, <2>9, <2>10 DEF NameJobFits, AtRequest, AppliedFresh
  <2>15. ASSUME NEW k \in Two \ {j} PROVE NameJobFits(k)'
    <3>1. CASE ~AtRequest(k)
      BY <2>10, <3>1 DEF NameJobFits, AtRequest
    <3>2. CASE AtRequest(k)
      <4>1. NameJobFits(k) /\ x3[k].seq # s
        BY <1>1, <3>2 DEF NameInv, OneJobEach
      <4>2. x3[k].seq \notin x4.ever
        BY <2>2, <3>2, <4>1 DEF NameJobFits, AppliedFresh
      <4>3. x3[k].at = "apply" => x3[k].stamp = x2.stamp
        BY <2>2, <3>2, <4>1 DEF NameJobFits
      <4> QED
        BY <1>1, <2>2, <2>5, <2>6, <2>10, <4>1, <4>2, <4>3 DEF NameJobFits, AtRequest, AppliedFresh
    <3> QED
      BY <3>1, <3>2
  <2>16. OneJobEach'
    BY <1>1, <2>9, <2>10 DEF NameInv, OneJobEach, AtRequest
  <2> QED
    BY <2>11, <2>12, <2>13, <2>14, <2>15, <2>16 DEF NameInv
<1>3. CASE ~Names!Unmoved(j)
  <2> DEFINE a == IF x3[j].tries = 2 THEN "throw" ELSE "decide"
             t == IF x3[j].tries = 2 THEN 2 ELSE x3[j].tries + 1
             v == [x3[j] EXCEPT !.at = a, !.tries = t]
  <2>1. x3' = [x3 EXCEPT ![j] = v] /\ x2' = x2 /\ x4' = x4
    BY <1>1, <1>3 DEF Names!Apply
  <2>2. a \in {"throw", "decide"} /\ t \in 0..2
    BY <1>1 DEF NameJob
  <2> HIDE DEF a, t
  <2>3. \A b \in {"throw", "decide"}, u \in 0..2 : [x3[j] EXCEPT !.at = b, !.tries = u] \in NameJob
    BY <1>1 DEF NameJob
  <2>4. v \in NameJob
    BY <2>2, <2>3
  <2>5. v.at = a /\ v.seq = x3[j].seq
    BY <1>1 DEF NameJob
  <2> HIDE DEF v
  <2> QED
    BY <1>1, <2>1, <2>2, <2>4, <2>5, NameJobGoes
<1> QED
  BY <1>2, <1>3

LEMMA NameResult == ASSUME NameInv, NEW j \in Two, Names!Result(j) PROVE NameInv' /\ x1'.result >= x1.result
<1>1. /\ x3 \in [Two -> NameJob] /\ x3[j] \in NameJob /\ x3[j].at = "result" /\ AtRequest(j) /\ NameJobFits(j)
      /\ x1 \in NameRow /\ x2' = x2 /\ x4' = x4 /\ x3' = [x3 EXCEPT ![j] = Names!Idle]
  BY DEF NameInv, NameTyped, Names!Result, AtRequest
<1>2. CASE ~Names!NotLater(j)
  <2>1. x1' = x1 /\ x1.result \in Nat
    BY <1>1, <1>2 DEF Names!Result, NameRow
  <2> QED
    <3>1. NameInv'
      BY <1>1, <2>1, NameIdle, NameJobGoes
    <3> QED
      BY <2>1, <3>1
<1>3. CASE Names!NotLater(j)
  <2>1. /\ x1' = [x1 EXCEPT !.result = x3[j].seq, !.status = x3[j].outcome] /\ x1.result <= x3[j].seq
        /\ x3[j].seq \in Nat /\ x3[j].outcome \in NameOutcomes /\ x1.result \in Nat /\ x1.seq \in Nat
    BY <1>1, <1>3 DEF Names!Result, Names!NotLater, NameJob, NameRow
  <2>2. \A n \in Nat, s \in NameOutcomes : [x1 EXCEPT !.result = n, !.status = s] \in NameRow
    BY <1>1 DEF NameRow
  <2>3. x1' \in NameRow
    BY <2>1, <2>2
  <2>4. x1'.result = x3[j].seq /\ x1'.status = x3[j].outcome /\ x1'.seq = x1.seq /\ x1'.pending = x1.pending
    BY <1>1, <2>1 DEF NameRow
  <2>5. x3' \in [Two -> NameJob] /\ x3'[j].at = "idle" /\ \A k \in Two \ {j} : x3'[k] = x3[k]
    BY <1>1, NameIdle
  <2>6. NameTyped'
    BY <1>1, <2>3, <2>5 DEF NameInv, NameTyped
  <2>7. NamesPast'
    BY <1>1, <2>1, <2>4 DEF NameInv, NamesPast, NameJobFits
  <2>8. NamePending'
    BY <1>1, <2>4 DEF NameInv, NamePending, NameJobFits, AppliedFresh
  <2>9. ASSUME NEW k \in Two PROVE NameJobFits(k)'
    <3>1. CASE k = j
      BY <2>5, <3>1 DEF NameJobFits, AtRequest
    <3>2. CASE k # j
      BY <1>1, <2>4, <2>5, <3>2 DEF NameInv, OneJobEach, NameJobFits, AtRequest, AppliedFresh
    <3> QED
      BY <3>1, <3>2
  <2>10. OneJobEach'
    BY <2>5 DEF NameInv, OneJobEach, AtRequest
  <2> QED
    BY <2>1, <2>4, <2>6, <2>7, <2>8, <2>9, <2>10 DEF NameInv
<1> QED
  BY <1>2, <1>3

LEMMA NameUnclaimed == ASSUME NameInv, NEW j \in Two, Names!Unclaim(j) PROVE NameInv' /\ x1'.result = x1.result
<1>1. /\ x3 \in [Two -> NameJob] /\ x3[j] \in NameJob /\ x3[j].at = "throw" /\ AtRequest(j) /\ NameJobFits(j)
      /\ x1 \in NameRow /\ x2' = x2 /\ x4' = x4 /\ x3' = [x3 EXCEPT ![j] = Names!Idle]
  BY DEF NameInv, NameTyped, Names!Unclaim, AtRequest
<1>2. CASE x1' = x1
  BY <1>1, <1>2, NameIdle, NameJobGoes
<1>3. CASE x1.seq = x3[j].seq /\ x1.result < x3[j].seq /\ x1' = [x1 EXCEPT !.pending = TRUE]
  <2>1. x1' \in NameRow /\ x1'.seq = x1.seq /\ x1'.result = x1.result /\ x1'.status = x1.status
    BY <1>1, <1>3 DEF NameRow
  <2>2. x3' \in [Two -> NameJob] /\ x3'[j].at = "idle" /\ \A k \in Two \ {j} : x3'[k] = x3[k]
    BY <1>1, NameIdle
  <2>3. NameTyped' /\ NamesPast'
    BY <1>1, <2>1, <2>2 DEF NameInv, NameTyped, NamesPast
  <2>4. NamePending'
    BY <1>1, <1>3, <2>1 DEF NamePending, NameJobFits, AppliedFresh
  <2>5. ASSUME NEW k \in Two PROVE NameJobFits(k)'
    <3>1. CASE k = j
      BY <2>2, <3>1 DEF NameJobFits, AtRequest
    <3>2. CASE k # j
      BY <1>1, <1>3, <2>1, <2>2, <3>2 DEF NameInv, OneJobEach, NameJobFits, AtRequest, AppliedFresh
    <3> QED
      BY <3>1, <3>2
  <2>6. OneJobEach'
    BY <2>2 DEF NameInv, OneJobEach, AtRequest
  <2> QED
    BY <2>1, <2>3, <2>4, <2>5, <2>6 DEF NameInv
<1> QED
  BY <1>2, <1>3 DEF Names!Unclaim

\* A step at which no request is settled or applied, and none becomes pending.
LEMMA NameGoes ==
  ASSUME NameInv, NEW j \in Two, Names!ReadPointer(j) \/ Names!Tell(j) \/ Names!Fails(j) \/ Names!Stops(j)
  PROVE  NameInv' /\ x1' = x1
<1>1. /\ x3 \in [Two -> NameJob] /\ x3[j] \in NameJob /\ NameJobFits(j) /\ x1' = x1 /\ x2' = x2 /\ x4' = x4
      /\ AtRequest(j)
  BY DEF NameInv, NameTyped, Names!ReadPointer, Names!Tell, Names!Fails, Names!Stops, AtRequest
<1>2. \A a \in {"tell", "decide", "result", "throw"}, b \in BOOLEAN, o \in NameOutcomes :
        [x3[j] EXCEPT !.at = a, !.current = b, !.outcome = o] \in NameJob
  BY <1>1 DEF NameJob
<1>3. x3[j].current \in BOOLEAN /\ x3[j].outcome \in NameOutcomes /\ x1.current \in BOOLEAN
  BY <1>1 DEF NameInv, NameTyped, NameJob, NameRow
<1>4. CASE Names!ReadPointer(j)
  <2> DEFINE a == IF x1.state = "deleted" THEN "tell" ELSE "decide"
             o == IF x1.state = "deleted" THEN "account" ELSE "none"
             v == [x3[j] EXCEPT !.at = a, !.current = x1.current, !.outcome = o]
  <2>1. x3' = [x3 EXCEPT ![j] = v]
    BY <1>1, <1>4 DEF Names!ReadPointer
  <2>2. a \in {"tell", "decide"} /\ o \in {"account", "none"} /\ o \in NameOutcomes
    BY DEF NameOutcomes
  <2> HIDE DEF a, o
  <2>3. v \in NameJob
    BY <1>2, <1>3, <2>2
  <2>4. v.at = a /\ v.seq = x3[j].seq /\ v.outcome = o
    BY <1>1 DEF NameJob
  <2> HIDE DEF v
  <2> QED
    BY <1>1, <2>1, <2>2, <2>3, <2>4, NameJobGoes
<1>5. CASE Names!Tell(j)
  <2> DEFINE v == [x3[j] EXCEPT !.at = "result"]
  <2>1. x3' = [x3 EXCEPT ![j] = v] /\ x3[j].at = "tell"
    BY <1>1, <1>5 DEF Names!Tell
  <2>2. \A a \in {"tell", "decide", "result", "throw"} : [x3[j] EXCEPT !.at = a] \in NameJob
    BY <1>1 DEF NameJob
  <2>3. v \in NameJob
    BY <2>2
  <2>4. v.at = "result" /\ v.seq = x3[j].seq /\ v.outcome = x3[j].outcome
    BY <1>1 DEF NameJob
  <2> HIDE DEF v
  <2>5. v.at \in {"tell", "result"} /\ v.outcome \in {"invalid", "too_soon"} => v.seq \notin x4.ever
    BY <1>1, <2>1, <2>4 DEF NameJobFits
  <2> QED
    BY <1>1, <2>1, <2>3, <2>4, <2>5, NameJobGoes
<1>6. CASE Names!Fails(j)
  <2> DEFINE v == [x3[j] EXCEPT !.at = "throw"]
  <2>1. x3' = [x3 EXCEPT ![j] = v]
    BY <1>1, <1>6 DEF Names!Fails
  <2>2. \A a \in {"tell", "decide", "result", "throw"} : [x3[j] EXCEPT !.at = a] \in NameJob
    BY <1>1 DEF NameJob
  <2>3. v \in NameJob
    BY <2>2
  <2>4. v.at = "throw" /\ v.seq = x3[j].seq
    BY <1>1 DEF NameJob
  <2> HIDE DEF v
  <2> QED
    BY <1>1, <2>1, <2>3, <2>4, NameJobGoes
<1>7. CASE Names!Stops(j)
  <2>1. x3' = [x3 EXCEPT ![j] = Names!Idle]
    BY <1>7 DEF Names!Stops
  <2> QED
    BY <1>1, <2>1, NameIdle, NameJobGoes
<1> QED
  BY <1>1, <1>4, <1>5, <1>6, <1>7

LEMMA NameElsewhere ==
  ASSUME NameInv, Names!ThirtyDaysPass \/ Names!AccountStops \/ UNCHANGED Names!vars
  PROVE  NameInv' /\ x1'.result = x1.result
<1>1. x1 \in NameRow /\ x2 \in NameMember /\ x4 \in NamePast
  BY DEF NameInv, NameTyped
<1>2. CASE Names!ThirtyDaysPass
  <2>1. /\ x1' = x1 /\ x3' = x3 /\ ~x1.pending /\ \A j \in Two : x3[j].at = "idle"
        /\ x2' = [x2 EXCEPT !.recent = FALSE] /\ x4' = [x4 EXCEPT !.recent = {}]
    BY <1>2 DEF Names!ThirtyDaysPass
  <2>2. x2' \in NameMember /\ x2'.stamp = x2.stamp /\ x2'.appliedSeq = x2.appliedSeq
    BY <1>1, <2>1 DEF NameMember
  <2>3. x4' \in NamePast /\ x4'.recent = {} /\ x4'.ever = x4.ever
    BY <1>1, <2>1 DEF NamePast
  <2> QED
    BY <2>1, <2>2, <2>3 DEF NameInv, NameTyped, NamesPast, NamePending, NameJobFits, OneJobEach, AtRequest
<1>3. CASE Names!AccountStops
  <2>1. x3' = x3 /\ x4' = x4
    BY <1>3 DEF Names!AccountStops
  <2>2. /\ x1' \in NameRow /\ x1'.seq = x1.seq /\ x1'.result = x1.result /\ x1'.status = x1.status
        /\ x1'.pending = x1.pending
    BY <1>1, <1>3 DEF Names!AccountStops, NameRow
  <2>3. x2' \in NameMember /\ x2'.stamp = x2.stamp /\ x2'.appliedSeq = x2.appliedSeq /\ x2'.recent = x2.recent
    BY <1>1, <1>3 DEF Names!AccountStops, NameMember
  <2> QED
    BY <2>1, <2>2, <2>3 DEF NameInv, NameTyped, NamesPast, NamePending, NameJobFits, OneJobEach, AtRequest, AppliedFresh
<1>4. CASE UNCHANGED Names!vars
  BY <1>4 DEF Names!vars, NameInv, NameTyped, NamesPast, NamePending, NameJobFits, OneJobEach, AtRequest, AppliedFresh
<1> QED
  BY <1>2, <1>3, <1>4

LEMMA NameStep == NameInv /\ [Names!Next]_(Names!vars) => NameInv' /\ Names!ResultForward
<1> SUFFICES ASSUME NameInv, [Names!Next]_(Names!vars) PROVE NameInv' /\ Names!ResultForward
  OBVIOUS
<1>1. x1.result \in Nat
  BY DEF NameInv, NameTyped, NameRow
<1>2. CASE Names!Request
  <2>1. x1'.result = x1.result
    BY <1>2 DEF NameInv, NameTyped, NameRow, Names!Request
  <2> QED
    BY <1>1, <1>2, <2>1, NameRequested DEF Names!ResultForward
<1>3. ASSUME NEW j \in Two, Names!Claim(j) PROVE NameInv' /\ Names!ResultForward
  <2>1. x1'.result = x1.result
    BY <1>3 DEF NameInv, NameTyped, NameRow, Names!Claim
  <2> QED
    BY <1>1, <1>3, <2>1, NameClaimed DEF Names!ResultForward
<1>4. ASSUME NEW j \in Two, Names!Decide(j) \/ Names!Apply(j) PROVE NameInv' /\ Names!ResultForward
  <2>1. x1' = x1
    BY <1>4 DEF Names!Decide, Names!Apply
  <2> QED
    BY <1>1, <1>4, <2>1, NameDecides, NameApplies DEF Names!ResultForward
<1>5. ASSUME NEW j \in Two, Names!Result(j) \/ Names!Unclaim(j) PROVE NameInv' /\ Names!ResultForward
  BY <1>1, <1>5, NameResult, NameUnclaimed DEF Names!ResultForward
<1>6. ASSUME NEW j \in Two, Names!ReadPointer(j) \/ Names!Tell(j) \/ Names!Fails(j) \/ Names!Stops(j)
      PROVE  NameInv' /\ Names!ResultForward
  BY <1>1, <1>6, NameGoes DEF Names!ResultForward
<1>7. CASE Names!ThirtyDaysPass \/ Names!AccountStops \/ UNCHANGED Names!vars
  BY <1>1, <1>7, NameElsewhere DEF Names!ResultForward
<1> QED
  BY <1>2, <1>3, <1>4, <1>5, <1>6, <1>7 DEF Names!Next, Names!JobNext

LEMMA NameSafe == NameInv => Names!OneInThirtyDays /\ Names!AppliedNotRefused
<1> SUFFICES ASSUME NameInv PROVE Names!OneInThirtyDays /\ Names!AppliedNotRefused
  OBVIOUS
<1>1. x4.recent = {} \/ x4.recent = {x2.stamp}
  BY DEF NameInv, NamesPast
<1>2. Cardinality({}) = 0 /\ Cardinality({x2.stamp}) = 1
  BY FS_EmptySet, FS_Singleton
<1>3. Cardinality(x4.recent) <= 1
  <2>1. CASE x4.recent = {}
    BY <1>2, <2>1
  <2>2. CASE x4.recent = {x2.stamp}
    BY <1>2, <2>2
  <2> QED
    BY <1>1, <2>1, <2>2
<1> QED
  BY <1>3 DEF NameInv, NamesPast, Names!OneInThirtyDays, Names!AppliedNotRefused, Names!Cardinality, Cardinality

--------------------------------------------------------------------------------
(***************************************************************************)
(* That the addresses in the audit log are kept for their days and no      *)
(* longer, and that a run that says it completed left none behind, for any *)
(* number of runs that overlap, fail and stop.  What a run read of an      *)
(* event only loses addresses since; so what it does not plan needs no     *)
(* change any more, and below the event it has come to all it planned is   *)
(* done.                                                                   *)
(***************************************************************************)
CONSTANTS AuditLastDay, AuditFaults                            \* days of the audit log; calls and runs that fail

ASSUME AuditAssumption == AuditLastDay \in Nat /\ AuditFaults \in Nat

Audit == INSTANCE AuditLog WITH
         Runs <- Two, LastDay <- AuditLastDay, Faults <- AuditFaults,
         day <- x1, event <- x2, record <- x3, run <- x4, writer <- x5, listing <- x6,
         logged <- x7, faults <- x8

AuditEvent   == [actor : {"none", "address", "id", "staff"}, email : BOOLEAN]
AuditEvents  == [1..4 -> AuditEvent]
AuditRun     == [pc : {"idle", "convert", "update", "failing", "over", "killed"}, now : Nat, at : 0..5,
                 copy : {<< >>} \union AuditEvents]
AuditListing == [pc : {"idle", "rows", "shown"}, hit : SUBSET (1..4), held : SUBSET (1..4), shown : SUBSET (1..4),
                 upto : Nat, whole : BOOLEAN]

\* Who each event is about; no run changes that but the member's.
Kinds(es) ==
  /\ es[1].actor \in {"address", "id"} /\ ~es[1].email
  /\ es[2].actor = "staff" /\ es[3].actor = "address"
  /\ es[4].actor \in {"none", "staff"} /\ ~es[4].email

AuditTyped ==
  /\ x1 \in Nat /\ 2 <= x1 /\ x2 \in AuditEvents /\ Kinds(x2) /\ x3 \in [1..4 -> Nat]
  /\ x4 \in [Two -> AuditRun] /\ x6 \in AuditListing /\ x7 \in [Two -> {"none", "completed", "stopped"}]

\* An address record expires with its event's days; a young event's address is in one of the two.
AddressRecords ==
  /\ \A e \in 1..4 : x3[e] # 0 => x3[e] = Audit!Late(e)
  /\ \A e \in {2, 3} : x1 < Audit!Late(e) => x2[e].email \/ x3[e] # 0

\* The event holds no address any more that the rule takes out.
Converted(e) == ~x2[e].email /\ (e = 1 => x2[e].actor # "address")

Active(r) == x4[r].pc \in {"convert", "update"}

\* A run under way: what it read, and how far it has come.
RunFits(r) ==
  Active(r) =>
    /\ x4[r].copy \in AuditEvents /\ Kinds(x4[r].copy) /\ x4[r].now <= x1 /\ x4[r].at \in 1..5
    /\ \A e \in 1..4 : x2[e].email => x4[r].copy[e].email
    /\ x2[1].actor = "address" => x4[r].copy[1].actor = "address"
    /\ \A e \in Audit!Planned(x4[r].copy) : e < x4[r].at => Converted(e)
    /\ x4[r].pc = "update" => /\ x4[r].at \in 1..4
                              /\ x4[r].copy[x4[r].at].email /\ x1 < Audit!Late(x4[r].at) => x3[x4[r].at] # 0

ListingFits ==
  /\ x6.pc = "rows" => \A e \in x6.hit \ x6.held : ~x2[e].email
  /\ x6.pc = "shown" /\ x6.whole => \A e \in x6.hit \intersect {2, 3} : x6.upto < Audit!Late(e) => e \in x6.shown
  /\ x6.pc # "shown" => x6.shown = {}
  /\ \A e \in x6.shown : e \in x6.held \/ x6.upto < Audit!Late(e)

CompletedRuns == (\E r \in Two : x7[r] = "completed") => \A e \in 1..4 : Converted(e)

AuditInv == AuditTyped /\ AddressRecords /\ (\A r \in Two : RunFits(r)) /\ ListingFits /\ CompletedRuns

LEMMA AuditDays ==
  /\ Audit!Late(1) = 3 /\ Audit!Late(2) = 3 /\ Audit!Late(3) = 2 /\ Audit!Late(4) = 4
  /\ Audit!Class[1] = "member" /\ Audit!Class[2] = "staff" /\ Audit!Class[3] = "unknown" /\ Audit!Class[4] = "staff"
BY DEF Audit!Late, Audit!At, Audit!Keep, Audit!Class

LEMMA AuditEventsAre == \A e \in 1..4 : e = 1 \/ e = 2 \/ e = 3 \/ e = 4
OBVIOUS

LEMMA AuditInit == Audit!Init => AuditInv
<1> SUFFICES ASSUME Audit!Init PROVE AuditInv
  OBVIOUS
<1>1. x2 \in AuditEvents /\ Kinds(x2) /\ x2[2].email
  <2> DEFINE a == [actor |-> "address", email |-> FALSE]
             b == [actor |-> "staff", email |-> TRUE]
             c == [actor |-> "address", email |-> TRUE]
             d == [actor |-> "none", email |-> FALSE]
  <2>1. a \in AuditEvent /\ b \in AuditEvent /\ c \in AuditEvent /\ d \in AuditEvent
    BY DEF AuditEvent
  <2>2. x2 = <<a, b, c, d>>
    BY DEF Audit!Init, Audit!Absent
  <2>3. /\ a.actor = "address" /\ ~a.email /\ b.actor = "staff" /\ b.email /\ c.actor = "address"
        /\ d.actor = "none" /\ ~d.email
    OBVIOUS
  <2> HIDE DEF a, b, c, d
  <2>4. x2 \in AuditEvents
    BY <2>1, <2>2 DEF AuditEvents
  <2>5. x2[1] = a /\ x2[2] = b /\ x2[3] = c /\ x2[4] = d
    BY <2>2
  <2> QED
    BY <2>3, <2>4, <2>5 DEF Kinds
<1>2. x3 \in [1..4 -> Nat] /\ \A e \in 1..4 : x3[e] = 0
  BY DEF Audit!Init, Audit!Events
<1>3. x4 \in [Two -> AuditRun] /\ \A r \in Two : x4[r].pc = "idle"
  BY DEF Audit!Init, AuditRun
<1>4. x6 \in AuditListing /\ x6.pc = "idle" /\ x6.shown = {}
  BY DEF Audit!Init, AuditListing
<1>5. x7 \in [Two -> {"none", "completed", "stopped"}] /\ \A r \in Two : x7[r] = "none"
  BY DEF Audit!Init
<1>6. x1 = 2
  BY DEF Audit!Init, Audit!Firstday
<1>7. AuditTyped
  BY <1>1, <1>2, <1>3, <1>4, <1>5, <1>6 DEF AuditTyped
<1>8. AddressRecords
  BY <1>1, <1>2, <1>6, AuditDays DEF AddressRecords
<1>9. \A r \in Two : RunFits(r)
  BY <1>3 DEF RunFits, Active
<1>10. ListingFits /\ CompletedRuns
  BY <1>4, <1>5 DEF ListingFits, CompletedRuns
<1> QED
  BY <1>7, <1>8, <1>9, <1>10 DEF AuditInv

\* What only loses addresses, of an event that goes on being whose it was.
Fades(es, fs) ==
  /\ fs \in AuditEvents /\ Kinds(fs)
  /\ \A e \in 1..4 : fs[e].email => es[e].email
  /\ fs[1].actor = "address" => es[1].actor = "address"

\* Time, the records' expiry, and the writer of a new event: no run is touched, and no address lost too soon.
LEMMA AuditGoesOn ==
  ASSUME AuditInv, x1' \in Nat, x1 <= x1', Fades(x2, x2'), x3' \in [1..4 -> Nat],
         \A e \in 1..4 : x3'[e] # 0 => x3'[e] = Audit!Late(e),
         \A e \in 1..4 : x1' < Audit!Late(e) /\ x3[e] # 0 => x3'[e] # 0,
         \A e \in {2, 3} : x1' < Audit!Late(e) /\ x2[e].email => x2'[e].email \/ x3'[e] # 0,
         x4' = x4, x6' = x6, x7' = x7
  PROVE  AuditInv'
<1>1. x1 \in Nat /\ \A e \in 1..4 : Audit!Late(e) \in Nat
  BY AuditDays, AuditEventsAre DEF AuditInv, AuditTyped
<1>2. AuditTyped'
  BY <1>1 DEF AuditInv, AuditTyped, Fades
<1>3. AddressRecords'
  BY <1>1 DEF AuditInv, AddressRecords
<1>4. \A e \in 1..4 : Converted(e) => Converted(e)'
  BY DEF Converted, Fades
<1>5. ASSUME NEW r \in Two PROVE RunFits(r)'
  <2> SUFFICES ASSUME Active(r) PROVE RunFits(r)'
    BY DEF RunFits, Active
  <2>1. RunFits(r) /\ x4[r].now \in Nat
    BY DEF AuditInv, AuditTyped, AuditRun
  <2>2. /\ x4[r].copy \in AuditEvents /\ Kinds(x4[r].copy) /\ x4[r].now <= x1' /\ x4[r].at \in 1..5
        /\ \A e \in 1..4 : x2'[e].email => x4[r].copy[e].email
        /\ x2'[1].actor = "address" => x4[r].copy[1].actor = "address"
    BY <1>1, <2>1 DEF RunFits, Fades
  <2>3. \A e \in Audit!Planned(x4[r].copy) : e < x4[r].at => Converted(e)'
    BY <1>4, <2>1 DEF RunFits, Audit!Planned, Audit!Events
  <2>4. x4[r].pc = "update" => /\ x4[r].at \in 1..4
                               /\ x4[r].copy[x4[r].at].email /\ x1' < Audit!Late(x4[r].at) => x3'[x4[r].at] # 0
    BY <1>1, <2>1 DEF RunFits
  <2> QED
    BY <2>2, <2>3, <2>4 DEF RunFits
<1>6. ListingFits'
  BY DEF AuditInv, AuditTyped, AuditListing, ListingFits, Fades
<1>7. CompletedRuns'
  BY <1>4 DEF AuditInv, CompletedRuns
<1> QED
  BY <1>2, <1>3, <1>5, <1>6, <1>7 DEF AuditInv

LEMMA AuditSame == ASSUME AuditInv PROVE Fades(x2, x2)
BY DEF AuditInv, AuditTyped, Fades

LEMMA AuditTime ==
  ASSUME AuditInv, Audit!NextDay \/ (\E e \in 1..4 : Audit!Expire(e)) \/ Audit!PutEvent \/ Audit!PutAddress
  PROVE  AuditInv'
<1>0. /\ x1 \in Nat /\ x2 \in AuditEvents /\ Kinds(x2) /\ x3 \in [1..4 -> Nat]
      /\ \A e \in 1..4 : Audit!Late(e) \in Nat \ {0}
  BY AuditDays, AuditEventsAre DEF AuditInv, AuditTyped
<1>1. CASE Audit!NextDay
  <2>1. x1' = x1 + 1 /\ x2' = x2 /\ x3' = x3 /\ x4' = x4 /\ x6' = x6 /\ x7' = x7
    BY <1>1 DEF Audit!NextDay
  <2>2. Fades(x2, x2') /\ x1' \in Nat /\ x1 <= x1' /\ x3' \in [1..4 -> Nat]
    BY <1>0, <2>1, AuditSame
  <2>3. \A e \in 1..4 : x3'[e] # 0 => x3'[e] = Audit!Late(e)
    BY <2>1 DEF AuditInv, AddressRecords
  <2> QED
    BY <2>1, <2>2, <2>3, AuditGoesOn
<1>2. ASSUME NEW d \in 1..4, Audit!Expire(d) PROVE AuditInv'
  <2>1. /\ x3[d] <= x1 /\ x3[d] # 0 /\ x3' = [x3 EXCEPT ![d] = 0]
        /\ x1' = x1 /\ x2' = x2 /\ x4' = x4 /\ x6' = x6 /\ x7' = x7
    BY <1>2 DEF Audit!Expire
  <2>2. Fades(x2, x2') /\ x1' \in Nat /\ x1 <= x1' /\ x3' \in [1..4 -> Nat]
    BY <1>0, <2>1, AuditSame
  <2>3. x3[d] = Audit!Late(d) /\ \A e \in 1..4 : x3[e] # 0 => x3[e] = Audit!Late(e)
    BY <2>1 DEF AuditInv, AddressRecords
  <2>4. \A e \in 1..4 : x3'[e] # 0 => x3'[e] = Audit!Late(e)
    BY <1>0, <2>1, <2>3
  <2>5. ~(x1 < Audit!Late(d))
    BY <1>0, <2>1, <2>3
  <2>6. \A e \in 1..4 : x1' < Audit!Late(e) /\ x3[e] # 0 => x3'[e] # 0
    BY <1>0, <2>1, <2>5
  <2> QED
    BY <2>1, <2>2, <2>4, <2>6, AuditGoesOn
<1>3. CASE Audit!PutEvent
  <2> DEFINE n == [actor |-> "staff", email |-> FALSE]
  <2>1. /\ x2' = [x2 EXCEPT ![4] = n]
        /\ x1' = x1 /\ x3' = x3 /\ x4' = x4 /\ x6' = x6 /\ x7' = x7
    BY <1>3 DEF Audit!PutEvent, Audit!New
  <2>2. n \in AuditEvent /\ n.actor = "staff" /\ ~n.email
    BY DEF AuditEvent
  <2> HIDE DEF n
  <2>3. x2' \in AuditEvents /\ x2'[4] = n /\ x2'[1] = x2[1] /\ x2'[2] = x2[2] /\ x2'[3] = x2[3]
    BY <1>0, <2>1, <2>2 DEF AuditEvents
  <2>4. Fades(x2, x2')
    <3>1. Kinds(x2')
      BY <1>0, <2>2, <2>3 DEF Kinds
    <3> QED
      BY <2>2, <2>3, <3>1, AuditEventsAre DEF Fades
  <2>5. \A e \in {2, 3} : x2'[e] = x2[e]
    BY <2>3
  <2>6. \A e \in 1..4 : x3'[e] # 0 => x3'[e] = Audit!Late(e)
    BY <2>1 DEF AuditInv, AddressRecords
  <2>7. x1' \in Nat /\ x1 <= x1' /\ x3' \in [1..4 -> Nat]
    BY <1>0, <2>1
  <2> QED
    BY <2>1, <2>4, <2>5, <2>6, <2>7, AuditGoesOn
<1>4. CASE Audit!PutAddress
  <2>1. /\ x3' = [x3 EXCEPT ![4] = Audit!Late(4)]
        /\ x1' = x1 /\ x2' = x2 /\ x4' = x4 /\ x6' = x6 /\ x7' = x7
    BY <1>4 DEF Audit!PutAddress, Audit!New, Audit!Late
  <2>2. Fades(x2, x2') /\ x1' \in Nat /\ x1 <= x1' /\ x3' \in [1..4 -> Nat]
    BY <1>0, <2>1, AuditSame
  <2>3. \A e \in 1..4 : x3[e] # 0 => x3[e] = Audit!Late(e)
    BY DEF AuditInv, AddressRecords
  <2>4. /\ \A e \in 1..4 : x3'[e] # 0 => x3'[e] = Audit!Late(e)
        /\ \A e \in 1..4 : x1' < Audit!Late(e) /\ x3[e] # 0 => x3'[e] # 0
    BY <1>0, <2>1, <2>3
  <2> QED
    BY <2>1, <2>2, <2>4, AuditGoesOn
<1> QED
  BY <1>1, <1>2, <1>3, <1>4

\* The runs.  The next planned event is the least beyond the last.
LEMMA NextPlannedIs ==
  ASSUME NEW c, NEW a \in Nat
  PROVE  /\ Audit!NextPlanned(a, c) \in 1..5
         /\ Audit!NextPlanned(a, c) \in 1..4 => Audit!NextPlanned(a, c) \in Audit!Planned(c)
         /\ \A e \in Audit!Planned(c) : e > a => Audit!NextPlanned(a, c) <= e
<1> DEFINE todo == {e \in Audit!Planned(c) : e > a}
<1>1. todo \subseteq 1..4 /\ \A e \in Audit!Planned(c) : e \in 1..4
  BY DEF Audit!Planned, Audit!Events
<1>2. CASE todo = {}
  <2>1. Audit!NextPlanned(a, c) = 5
    BY <1>2 DEF Audit!NextPlanned
  <2> QED
    BY <1>1, <1>2, <2>1
<1>3. CASE todo # {}
  <2>1. \E m \in todo : \A y \in todo : m <= y
    <3>1. 1 \in todo \/ 2 \in todo \/ 3 \in todo \/ 4 \in todo
      BY <1>1, <1>3
    <3> HIDE DEF todo
    <3> QED
      BY <1>1, <3>1
  <2>2. Audit!NextPlanned(a, c) = Audit!Min(todo)
    BY <1>3 DEF Audit!NextPlanned
  <2> HIDE DEF todo
  <2>3. Audit!Min(todo) \in todo /\ \A y \in todo : Audit!Min(todo) <= y
    BY <2>1 DEF Audit!Min
  <2> QED
    BY <1>1, <2>2, <2>3 DEF todo
<1> QED
  BY <1>2, <1>3

\* A run that changes nothing but itself, and is under way as it should be or over.
LEMMA AuditRuns ==
  ASSUME AuditInv, NEW r \in Two, NEW n \in AuditRun, x4' = [x4 EXCEPT ![r] = n], RunFits(r)',
         x1' = x1, x2' = x2, x3' = x3, x6' = x6, x7' = x7
  PROVE  AuditInv'
<1>1. AuditTyped'
  BY DEF AuditInv, AuditTyped
<1>2. AddressRecords' /\ ListingFits' /\ CompletedRuns'
  BY DEF AuditInv, AddressRecords, ListingFits, CompletedRuns, Converted
<1>3. ASSUME NEW q \in Two PROVE RunFits(q)'
  <2>1. CASE q = r
    BY <2>1
  <2>2. CASE q # r
    <3>1. x4'[q] = x4[q] /\ RunFits(q)
      BY <2>2 DEF AuditInv, AuditTyped
    <3> QED
      BY <3>1 DEF RunFits, Active, Converted
  <2> QED
    BY <2>1, <2>2
<1> QED
  BY <1>1, <1>2, <1>3 DEF AuditInv

LEMMA AuditScans ==
  ASSUME AuditInv, NEW r \in Two, Audit!Scan(r)
  PROVE  AuditInv'
<1> DEFINE n == [x4[r] EXCEPT !.pc = "convert", !.now = x1, !.at = Audit!NextPlanned(0, x2), !.copy = x2]
<1>1. x4' = [x4 EXCEPT ![r] = n] /\ x1' = x1 /\ x2' = x2 /\ x3' = x3 /\ x6' = x6 /\ x7' = x7
  BY DEF Audit!Scan
<1>2. x1 \in Nat /\ x2 \in AuditEvents /\ Kinds(x2) /\ x4[r] \in AuditRun /\ x4 \in [Two -> AuditRun]
  BY DEF AuditInv, AuditTyped
<1>3. /\ Audit!NextPlanned(0, x2) \in 1..5
      /\ \A e \in Audit!Planned(x2) : e > 0 => Audit!NextPlanned(0, x2) <= e
  BY NextPlannedIs
<1>4. /\ n.pc = "convert" /\ n.now = x1 /\ n.at = Audit!NextPlanned(0, x2) /\ n.copy = x2
      /\ n \in AuditRun
  <2>1. \A p \in {"idle", "convert", "update", "failing", "over", "killed"}, w \in Nat, a \in 0..5,
           c \in {<< >>} \union AuditEvents :
          [x4[r] EXCEPT !.pc = p, !.now = w, !.at = a, !.copy = c] \in AuditRun
    BY <1>2 DEF AuditRun
  <2>2. n \in AuditRun
    <3>1. Audit!NextPlanned(0, x2) \in 0..5
      BY <1>3
    <3> QED
      BY <1>2, <2>1, <3>1
  <2> QED
    BY <1>2, <2>2 DEF AuditRun
<1> HIDE DEF n
<1>5. x4'[r] = n
  BY <1>1, <1>2
<1>6. \A e \in Audit!Planned(x2) : ~(e < n.at)
  BY <1>3, <1>4 DEF Audit!Planned, Audit!Events
<1>7. RunFits(r)'
  BY <1>1, <1>2, <1>3, <1>4, <1>5, <1>6 DEF RunFits
<1> QED
  BY <1>1, <1>4, <1>7, AuditRuns
LEMMA AuditEnds ==
  ASSUME AuditInv, NEW r \in Two, NEW p \in {"failing", "over", "killed"}, x4' = [x4 EXCEPT ![r] = Audit!Ended(p)]
  PROVE  /\ Audit!Ended(p) \in AuditRun /\ RunFits(r)' /\ x4' \in [Two -> AuditRun]
         /\ \A q \in Two \ {r} : x4'[q] = x4[q]
<1>1. x4 \in [Two -> AuditRun]
  BY DEF AuditInv, AuditTyped
<1>2. Audit!Ended(p) \in AuditRun /\ Audit!Ended(p).pc = p
  BY DEF Audit!Ended, AuditRun
<1>3. x4'[r] = Audit!Ended(p)
  BY <1>1
<1>4. RunFits(r)'
  BY <1>2, <1>3 DEF RunFits, Active
<1> QED
  BY <1>1, <1>2, <1>4

LEMMA AuditFails ==
  ASSUME AuditInv, NEW r \in Two, Audit!CallFails(r) \/ Audit!Killed(r)
  PROVE  AuditInv'
<1>1. PICK p \in {"failing", "killed"} :
        /\ x4' = [x4 EXCEPT ![r] = Audit!Ended(p)]
        /\ x1' = x1 /\ x2' = x2 /\ x3' = x3 /\ x6' = x6 /\ x7' = x7
  BY DEF Audit!CallFails, Audit!Killed
<1> QED
  BY <1>1, AuditEnds, AuditRuns

\* A run that completed has left no address: what it did not plan had none when it read.
LEMMA AuditLeaves ==
  ASSUME AuditInv, NEW r \in Two, Audit!LeaveEvent(r)
  PROVE  AuditInv'
<1>1. /\ x4' = [x4 EXCEPT ![r] = Audit!Ended("over")]
      /\ x1' = x1 /\ x2' = x2 /\ x3' = x3 /\ x6' = x6
  BY DEF Audit!LeaveEvent
<1>2. \/ x4[r].pc = "convert" /\ x4[r].at \notin 1..4 /\ x7' = [x7 EXCEPT ![r] = "completed"]
      \/ x7' = [x7 EXCEPT ![r] = "stopped"]
  BY DEF Audit!LeaveEvent, Audit!Events, Audit!AfterError
<1>3. x7 \in [Two -> {"none", "completed", "stopped"}]
  BY DEF AuditInv, AuditTyped
<1>4. /\ Audit!Ended("over") \in AuditRun /\ RunFits(r)' /\ x4' \in [Two -> AuditRun]
      /\ \A q \in Two \ {r} : x4'[q] = x4[q]
  BY <1>1, AuditEnds
<1>5. AuditTyped'
  BY <1>1, <1>2, <1>3, <1>4 DEF AuditInv, AuditTyped
<1>6. AddressRecords' /\ ListingFits'
  BY <1>1 DEF AuditInv, AddressRecords, ListingFits
<1>7. ASSUME NEW q \in Two PROVE RunFits(q)'
  <2>1. CASE q = r
    BY <1>4, <2>1
  <2>2. CASE q # r
    <3>1. x4'[q] = x4[q] /\ RunFits(q)
      BY <1>4, <2>2 DEF AuditInv
    <3> QED
      BY <1>1, <3>1 DEF RunFits, Active, Converted
  <2> QED
    BY <2>1, <2>2
<1>8. CompletedRuns'
  <2>1. CASE x4[r].pc = "convert" /\ x4[r].at \notin 1..4
    <3>1. RunFits(r) /\ Active(r) /\ x4[r].at \in 1..5
      BY <2>1 DEF AuditInv, RunFits, Active
    <3>2. x4[r].at = 5
      BY <2>1, <3>1
    <3>3. ASSUME NEW e \in 1..4 PROVE Converted(e)
      <4>1. CASE e \in Audit!Planned(x4[r].copy)
        <5>1. e < x4[r].at
          BY <3>2
        <5> QED
          BY <3>1, <4>1, <5>1 DEF RunFits
      <4>2. CASE e \notin Audit!Planned(x4[r].copy)
        <5>1. ~x4[r].copy[e].email /\ ~(x4[r].copy[e].actor = "address" /\ Audit!Class[e] = "member")
          BY <4>2 DEF Audit!Planned, Audit!Events, Audit!RemoveEmail, Audit!RewriteActor
        <5>2. ~x2[e].email
          BY <3>1, <5>1 DEF RunFits
        <5>3. e = 1 => x2[e].actor # "address"
          BY <3>1, <5>1, AuditDays DEF RunFits
        <5> QED
          BY <5>2, <5>3 DEF Converted
      <4> QED
        BY <4>1, <4>2
    <3> QED
      BY <1>1, <3>3 DEF CompletedRuns, Converted
  <2>2. CASE x7' = [x7 EXCEPT ![r] = "stopped"]
    <3>1. \A q \in Two : x7'[q] = "completed" => x7[q] = "completed"
      BY <1>3, <2>2
    <3> QED
      BY <1>1, <3>1 DEF AuditInv, CompletedRuns, Converted
  <2> QED
    BY <1>2, <2>1, <2>2
<1> QED
  BY <1>5, <1>6, <1>7, <1>8 DEF AuditInv

\* The record of the event it has come to, and then the event.
LEMMA AuditRecords ==
  ASSUME AuditInv, NEW r \in Two, Audit!Record(r)
  PROVE  AuditInv'
<1> DEFINE k == x4[r].at
           x == Audit!AddressExpiresAt(k, x4[r].copy[k], x4[r].now)
<1>1. /\ x4[r].pc = "convert" /\ k \in 1..4 /\ x4' = [x4 EXCEPT ![r].pc = "update"]
      /\ x3' = IF x # 0 /\ x3[k] = 0 THEN [x3 EXCEPT ![k] = x] ELSE x3
      /\ x1' = x1 /\ x2' = x2 /\ x6' = x6 /\ x7' = x7
  BY DEF Audit!Record, Audit!Events, Audit!Write, Audit!Recorded
<1>2. /\ x1 \in Nat /\ x2 \in AuditEvents /\ x3 \in [1..4 -> Nat] /\ x4 \in [Two -> AuditRun]
      /\ Audit!Late(k) \in Nat \ {0} /\ x4[r].now \in Nat
  BY <1>1, AuditDays, AuditEventsAre DEF AuditInv, AuditTyped, AuditRun
<1>3. /\ Active(r) /\ RunFits(r) /\ x4[r].now <= x1
  BY <1>1 DEF AuditInv, RunFits, Active
<1>4. x = 0 \/ x = Audit!Late(k)
  BY DEF Audit!AddressExpiresAt
<1>5. /\ x3' \in [1..4 -> Nat] /\ (\A e \in 1..4 : x3'[e] = x3[e] \/ (x3[e] = 0 /\ x3'[e] = Audit!Late(e)))
      /\ x3'[k] = 0 => x = 0
  BY <1>1, <1>2, <1>4
<1>6. x4[r].copy[k].email /\ x1 < Audit!Late(k) => x # 0
  <2>1. x4[r].now < Audit!Late(k) \/ ~(x1 < Audit!Late(k))
    BY <1>2, <1>3
  <2> QED
    BY <1>2, <2>1 DEF Audit!AddressExpiresAt
<1> HIDE DEF k, x
<1>7. \A e \in 1..4 : x3[e] # 0 => x3[e] = Audit!Late(e)
  BY DEF AuditInv, AddressRecords
<1>8. \A e \in 1..4 : x3'[e] # 0 => x3'[e] = Audit!Late(e)
  BY <1>5, <1>7
<1>9. \A e \in 1..4 : x3[e] # 0 => x3'[e] # 0
  BY <1>5
<1> DEFINE n == [x4[r] EXCEPT !.pc = "update"]
<1>10. x4' = [x4 EXCEPT ![r] = n]
  BY <1>1
<1>11. /\ n \in AuditRun /\ n.pc = "update" /\ n.at = x4[r].at /\ n.copy = x4[r].copy /\ n.now = x4[r].now
  <2>1. \A p \in {"idle", "convert", "update", "failing", "over", "killed"} : [x4[r] EXCEPT !.pc = p] \in AuditRun
    BY <1>2 DEF AuditRun
  <2> QED
    BY <1>2, <2>1 DEF AuditRun
<1> HIDE DEF n
<1>12. x4'[r] = n /\ x4' \in [Two -> AuditRun] /\ \A q \in Two \ {r} : x4'[q] = x4[q]
  BY <1>2, <1>10, <1>11
<1>13. AuditTyped'
  BY <1>1, <1>5, <1>12 DEF AuditInv, AuditTyped
<1>14. AddressRecords'
  BY <1>1, <1>8, <1>9 DEF AuditInv, AddressRecords
<1>15. ListingFits' /\ CompletedRuns'
  BY <1>1 DEF AuditInv, ListingFits, CompletedRuns, Converted
<1>16. ASSUME NEW q \in Two PROVE RunFits(q)'
  <2>1. RunFits(q)
    BY DEF AuditInv
  <2>2. \A e \in 1..4 : Converted(e)' <=> Converted(e)
    BY <1>1 DEF Converted
  <2>3. CASE q = r
    <3>1. /\ x4[r].copy \in AuditEvents /\ Kinds(x4[r].copy) /\ x4[r].now <= x1 /\ x4[r].at \in 1..4
          /\ \A e \in 1..4 : x2[e].email => x4[r].copy[e].email
          /\ x2[1].actor = "address" => x4[r].copy[1].actor = "address"
          /\ \A e \in Audit!Planned(x4[r].copy) : e < x4[r].at => Converted(e)
      BY <1>1, <1>3 DEF RunFits, k
    <3>2. \A e \in Audit!Planned(x4[r].copy) : e < x4[r].at => Converted(e)'
      BY <2>2, <3>1 DEF Audit!Planned, Audit!Events
    <3>3. x4[r].copy[x4[r].at].email /\ x1 < Audit!Late(x4[r].at) => x3'[x4[r].at] # 0
      BY <1>5, <1>6 DEF k
    <3>4. x4[r].at \in 1..5
      BY <3>1
    <3> QED
      BY <1>1, <1>11, <1>12, <2>3, <3>1, <3>2, <3>3, <3>4 DEF RunFits
  <2>4. CASE q # r
    <3>1. x4'[q] = x4[q]
      BY <1>12, <2>4
    <3> SUFFICES ASSUME Active(q) PROVE RunFits(q)'
      BY <3>1 DEF RunFits, Active
    <3>2. \A e \in Audit!Planned(x4[q].copy) : e < x4[q].at => Converted(e)'
      BY <2>1, <2>2 DEF RunFits, Audit!Planned, Audit!Events
    <3>3. x4[q].pc = "update" => /\ x4[q].at \in 1..4
                                 /\ x4[q].copy[x4[q].at].email /\ x1 < Audit!Late(x4[q].at) => x3'[x4[q].at] # 0
      BY <1>9, <2>1 DEF RunFits
    <3> QED
      BY <1>1, <2>1, <3>1, <3>2, <3>3 DEF RunFits
  <2> QED
    BY <2>3, <2>4
<1> QED
  BY <1>13, <1>14, <1>15, <1>16 DEF AuditInv

LEMMA AuditUpdates ==
  ASSUME AuditInv, NEW r \in Two, Audit!Update(r)
  PROVE  AuditInv'
<1> DEFINE k == x4[r].at
           c == x4[r].copy
           v == [actor |-> IF Audit!RewriteActor(k, c[k]) THEN "id" ELSE x2[k].actor,
                 email |-> x2[k].email /\ ~Audit!RemoveEmail(c[k])]
           n == [x4[r] EXCEPT !.pc = "convert", !.at = Audit!NextPlanned(k, c)]
<1>1. /\ x4[r].pc = "update" /\ x1' = x1 /\ x3' = x3 /\ x6' = x6 /\ x7' = x7
      /\ x4' = [x4 EXCEPT ![r] = [@ EXCEPT !.pc = "convert", !.at = Audit!NextPlanned(k, c)]]
      /\ x2' = [x2 EXCEPT ![k] = [actor |-> IF Audit!RewriteActor(k, c[k]) THEN "id" ELSE @.actor,
                                  email |-> @.email /\ ~Audit!RemoveEmail(c[k])]]
  BY DEF Audit!Update, Audit!Write, Audit!Converted
<1>2. /\ x1 \in Nat /\ x2 \in AuditEvents /\ Kinds(x2) /\ x3 \in [1..4 -> Nat] /\ x4 \in [Two -> AuditRun]
  BY DEF AuditInv, AuditTyped
<1>3. RunFits(r) /\ Active(r) /\ k \in 1..4 /\ c \in AuditEvents /\ Kinds(c)
  BY <1>1 DEF AuditInv, RunFits, Active
<1>4. x4' = [x4 EXCEPT ![r] = n] /\ x2' = [x2 EXCEPT ![k] = v]
  BY <1>1, <1>2, <1>3
<1>5. /\ Audit!RemoveEmail(c[k]) = c[k].email
      /\ Audit!RewriteActor(k, c[k]) <=> k = 1 /\ c[k].actor = "address"
  BY <1>3, AuditDays, AuditEventsAre DEF Audit!RemoveEmail, Audit!RewriteActor
<1>6. /\ v \in AuditEvent /\ (v.email => x2[k].email /\ ~c[k].email)
      /\ (x2[k].email /\ ~c[k].email => v.email)
      /\ v.actor = IF k = 1 /\ c[k].actor = "address" THEN "id" ELSE x2[k].actor
  <2>1. x2[k] \in AuditEvent
    BY <1>2, <1>3 DEF AuditEvents
  <2> QED
    BY <1>5, <2>1 DEF AuditEvent
<1>7. /\ n \in AuditRun /\ n.pc = "convert" /\ n.at = Audit!NextPlanned(k, c) /\ n.copy = c /\ n.now = x4[r].now
      /\ n.at \in 1..5 /\ \A e \in Audit!Planned(c) : e > k => n.at <= e
  <2>1. \A p \in {"idle", "convert", "update", "failing", "over", "killed"}, a \in 0..5 :
          [x4[r] EXCEPT !.pc = p, !.at = a] \in AuditRun
    BY <1>2 DEF AuditRun
  <2>2. k \in Nat
    BY <1>3
  <2> HIDE DEF k, c
  <2>3. /\ Audit!NextPlanned(k, c) \in 1..5
        /\ \A e \in Audit!Planned(c) : e > k => Audit!NextPlanned(k, c) <= e
    BY <2>2, NextPlannedIs
  <2>4. n \in AuditRun
    <3> DEFINE m == Audit!NextPlanned(k, c)
    <3>1. m \in 0..5
      BY <2>3
    <3>2. n = [x4[r] EXCEPT !.pc = "convert", !.at = m]
      OBVIOUS
    <3> HIDE DEF m, n
    <3> QED
      BY <2>1, <3>1, <3>2
  <2>5. n.pc = "convert" /\ n.at = Audit!NextPlanned(k, c) /\ n.copy = x4[r].copy /\ n.now = x4[r].now
    BY <1>2 DEF AuditRun
  <2> QED
    BY <2>3, <2>4, <2>5 DEF c
<1>8. /\ \A e \in 1..4 : x2[e].email => c[e].email
      /\ x2[1].actor = "address" => c[1].actor = "address"
      /\ \A e \in Audit!Planned(c) : e < k => Converted(e)
      /\ c[k].email /\ x1 < Audit!Late(k) => x3[k] # 0
      /\ x4[r].now <= x1
  BY <1>1, <1>3 DEF RunFits
<1> HIDE DEF v, n, k, c
<1>9. /\ x2' \in AuditEvents /\ x2'[k] = v /\ \A e \in 1..4 \ {k} : x2'[e] = x2[e]
  BY <1>2, <1>3, <1>4, <1>6 DEF AuditEvents
<1>10. x4'[r] = n /\ x4' \in [Two -> AuditRun] /\ \A q \in Two \ {r} : x4'[q] = x4[q]
  BY <1>2, <1>4, <1>7
<1>11. /\ \A e \in 1..4 : x2'[e].email => x2[e].email
       /\ x2'[1].actor = "address" => x2[1].actor = "address"
  BY <1>6, <1>9, <1>8
<1>12. Kinds(x2')
  <2>1. x2'[1].actor \in {"address", "id"} /\ ~x2'[1].email
    BY <1>2, <1>3, <1>6, <1>9 DEF Kinds
  <2>2. x2'[2].actor = "staff" /\ x2'[3].actor = "address"
    BY <1>2, <1>3, <1>6, <1>9 DEF Kinds
  <2>3. x2'[4].actor \in {"none", "staff"} /\ ~x2'[4].email
    BY <1>2, <1>3, <1>6, <1>9 DEF Kinds
  <2> QED
    BY <2>1, <2>2, <2>3 DEF Kinds
<1>13. AuditTyped'
  BY <1>1, <1>9, <1>10, <1>12 DEF AuditInv, AuditTyped
<1>14. AddressRecords'
  <2>1. ASSUME NEW e \in {2, 3}, x1 < Audit!Late(e) PROVE x2'[e].email \/ x3[e] # 0
    <3>1. x2[e].email \/ x3[e] # 0
      BY <2>1 DEF AuditInv, AddressRecords
    <3>2. CASE e = k
      BY <1>6, <1>8, <1>9, <2>1, <3>1, <3>2
    <3>3. CASE e # k
      BY <1>9, <3>1, <3>3
    <3> QED
      BY <3>2, <3>3
  <2> QED
    BY <1>1, <2>1 DEF AuditInv, AddressRecords
<1>15. \A e \in 1..4 : Converted(e) => Converted(e)'
  BY <1>11 DEF Converted
<1>16. \A e \in 1..4 : e = k => Converted(e)'
  <2>1. ~v.email
    BY <1>3, <1>6, <1>8
  <2>2. k = 1 => v.actor # "address"
    BY <1>6, <1>8
  <2> QED
    BY <1>9, <2>1, <2>2 DEF Converted
<1>17. ListingFits'
  BY <1>1, <1>11 DEF AuditInv, AuditTyped, AuditListing, ListingFits
<1>18. CompletedRuns'
  BY <1>1, <1>15 DEF AuditInv, CompletedRuns
<1>19. ASSUME NEW q \in Two PROVE RunFits(q)'
  <2>1. CASE q = r
    <3>1. ASSUME NEW e \in Audit!Planned(c), e < n.at PROVE Converted(e)'
      <4>1. e \in 1..4
        BY DEF Audit!Planned, Audit!Events
      <4>2. e < k \/ e = k
        BY <1>3, <1>7, <3>1, <4>1
      <4> QED
        BY <1>8, <1>15, <1>16, <4>1, <4>2
    <3>2. /\ \A e \in 1..4 : x2'[e].email => c[e].email
          /\ x2'[1].actor = "address" => c[1].actor = "address"
      BY <1>8, <1>11
    <3> QED
      BY <1>1, <1>3, <1>7, <1>8, <1>10, <2>1, <3>1, <3>2 DEF RunFits
  <2>2. CASE q # r
    <3>1. x4'[q] = x4[q] /\ RunFits(q)
      BY <1>10, <2>2 DEF AuditInv
    <3> SUFFICES ASSUME Active(q) PROVE RunFits(q)'
      BY <3>1 DEF RunFits, Active
    <3>2. \A e \in Audit!Planned(x4[q].copy) : e < x4[q].at => Converted(e)'
      BY <1>15, <3>1 DEF RunFits, Audit!Planned, Audit!Events
    <3>3. /\ \A e \in 1..4 : x2'[e].email => x4[q].copy[e].email
          /\ x2'[1].actor = "address" => x4[q].copy[1].actor = "address"
      BY <1>11, <3>1 DEF RunFits
    <3> QED
      BY <1>1, <3>1, <3>2, <3>3 DEF RunFits
  <2> QED
    BY <2>1, <2>2
<1> QED
  BY <1>13, <1>14, <1>17, <1>18, <1>19 DEF AuditInv

\* The listing: what an event held when its row was read, or its record still gives.
LEMMA AuditLists ==
  ASSUME AuditInv, Audit!ReadRows \/ Audit!ReadAddresses
  PROVE  AuditInv'
<1>1. x1' = x1 /\ x2' = x2 /\ x3' = x3 /\ x4' = x4 /\ x7' = x7
  BY DEF Audit!ReadRows, Audit!ReadAddresses
<1>2. x6 \in AuditListing /\ x1 \in Nat
  BY DEF AuditInv, AuditTyped
<1>3. AddressRecords' /\ (\A r \in Two : RunFits(r)') /\ CompletedRuns'
  BY <1>1 DEF AuditInv, AddressRecords, RunFits, Active, Converted, CompletedRuns
<1>4. x6' \in AuditListing /\ ListingFits'
  <2>1. CASE Audit!ReadRows
    <3> DEFINE h == Audit!Listed
               d == {e \in h : x2[e].email}
    <3>1. x6.pc = "idle" /\ x6' = [x6 EXCEPT !.pc = "rows", !.hit = h, !.held = d]
      BY <2>1 DEF Audit!ReadRows
    <3>2. h \in SUBSET (1..4) /\ d \in SUBSET (1..4) /\ \A e \in h \ d : ~x2[e].email
      BY DEF Audit!Listed, Audit!Events
    <3> HIDE DEF h, d
    <3>3. \A p \in {"idle", "rows", "shown"}, a, b \in SUBSET (1..4) : [x6 EXCEPT !.pc = p, !.hit = a, !.held = b] \in AuditListing
      BY <1>2 DEF AuditListing
    <3>4. x6' \in AuditListing
      BY <3>1, <3>2, <3>3
    <3>5. x6'.pc = "rows" /\ x6'.hit = h /\ x6'.held = d /\ x6'.shown = x6.shown
      BY <1>2, <3>1 DEF AuditListing
    <3>6. x6.shown = {}
      BY <3>1 DEF AuditInv, ListingFits
    <3> QED
      BY <1>1, <3>2, <3>4, <3>5, <3>6 DEF ListingFits
  <2>2. CASE Audit!ReadAddresses
    <3>1. PICK t \in BOOLEAN :
            x6' = [x6 EXCEPT !.pc = "shown", !.upto = x1, !.whole = ~t,
                     !.shown = x6.held \union (IF t THEN {} ELSE Audit!Addresses(x6.hit))]
      BY <2>2 DEF Audit!ReadAddresses
    <3> DEFINE s == x6.held \union (IF t THEN {} ELSE Audit!Addresses(x6.hit))
    <3>2. s \in SUBSET (1..4)
      BY <1>2 DEF Audit!Addresses, AuditListing
    <3>3. \A p \in {"idle", "rows", "shown"}, u \in Nat, w \in BOOLEAN, a \in SUBSET (1..4) :
            [x6 EXCEPT !.pc = p, !.upto = u, !.whole = w, !.shown = a] \in AuditListing
      BY <1>2 DEF AuditListing
    <3>4. x6' \in AuditListing
      <4> HIDE DEF s
      <4>1. x6' = [x6 EXCEPT !.pc = "shown", !.upto = x1, !.whole = ~t, !.shown = s]
        BY <3>1 DEF s
      <4>2. (~t) \in BOOLEAN
        OBVIOUS
      <4> QED
        BY <1>2, <3>2, <3>3, <4>1, <4>2
    <3>5. x6'.pc = "shown" /\ x6'.hit = x6.hit /\ x6'.held = x6.held /\ x6'.shown = s /\ x6'.upto = x1 /\ (x6'.whole => ~t)
      BY <1>2, <3>1 DEF AuditListing
    <3>6. x6.pc = "rows" /\ \A e \in x6.hit \ x6.held : ~x2[e].email
      BY <2>2 DEF AuditInv, ListingFits, Audit!ReadAddresses
    <3>7. \A e \in 1..4 : x3[e] # 0 => x3[e] = Audit!Late(e)
      BY DEF AuditInv, AddressRecords
    <3>8. \A e \in s : e \in x6.held \/ x1 < Audit!Late(e)
      <4> SUFFICES ASSUME NEW e \in Audit!Addresses(x6.hit) PROVE x1 < Audit!Late(e)
        OBVIOUS
      <4>1. e \in 1..4 /\ x3[e] > x1 /\ x3[e] \in Nat
        BY <1>2 DEF Audit!Addresses, AuditListing, AuditInv, AuditTyped
      <4> QED
        BY <1>2, <3>7, <4>1
    <3>9. ASSUME ~t, NEW e \in x6.hit \intersect {2, 3}, x1 < Audit!Late(e) PROVE e \in s
      <4>1. CASE e \in x6.held
        BY <4>1
      <4>2. CASE e \notin x6.held
        <5>1. x3[e] # 0
          BY <3>6, <3>9, <4>2 DEF AuditInv, AddressRecords
        <5>2. x3[e] = Audit!Late(e)
          BY <3>7, <5>1
        <5> QED
          BY <3>9, <5>2, AuditDays DEF Audit!Addresses
      <4> QED
        BY <4>1, <4>2
    <3> HIDE DEF s
    <3> QED
      BY <3>4, <3>5, <3>8, <3>9 DEF ListingFits
  <2> QED
    BY <2>1, <2>2
<1>5. AuditTyped'
  BY <1>1, <1>4 DEF AuditInv, AuditTyped
<1> QED
  BY <1>3, <1>4, <1>5 DEF AuditInv

LEMMA AuditStep == AuditInv /\ [Audit!Next]_(Audit!vars) => AuditInv'
<1> SUFFICES ASSUME AuditInv, [Audit!Next]_(Audit!vars) PROVE AuditInv'
  OBVIOUS
<1>1. CASE UNCHANGED Audit!vars \/ Audit!AuditStops
  <2>1. x1' = x1 /\ x2' = x2 /\ x3' = x3 /\ x4' = x4 /\ x6' = x6 /\ x7' = x7
    BY <1>1 DEF Audit!vars, Audit!AuditStops
  <2> QED
    BY <2>1 DEF AuditInv, AuditTyped, AddressRecords, RunFits, Active, Converted, ListingFits, CompletedRuns
<1>2. CASE Audit!NextDay \/ (\E e \in 1..4 : Audit!Expire(e)) \/ Audit!PutEvent \/ Audit!PutAddress
  BY <1>2, AuditTime
<1>3. CASE \E r \in Two : \/ Audit!Scan(r) \/ Audit!Record(r) \/ Audit!Update(r) \/ Audit!CallFails(r)
                        \/ Audit!LeaveEvent(r) \/ Audit!Killed(r)
  BY <1>3, AuditScans, AuditRecords, AuditUpdates, AuditFails, AuditLeaves
<1>4. CASE Audit!ReadRows \/ Audit!ReadAddresses
  BY <1>4, AuditLists
<1> QED
  BY <1>1, <1>2, <1>3, <1>4 DEF Audit!Next, Audit!Events

LEMMA AuditSafe == AuditInv => Audit!AddressKept /\ Audit!ShownWithin /\ Audit!NoAddressLeft
<1> SUFFICES ASSUME AuditInv PROVE Audit!AddressKept /\ Audit!ShownWithin /\ Audit!NoAddressLeft
  OBVIOUS
<1>1. Audit!AddressKept
  BY DEF AuditInv, AddressRecords, ListingFits, Audit!AddressKept
<1>2. Audit!ShownWithin
  BY DEF AuditInv, ListingFits, Audit!ShownWithin
<1>3. Audit!NoAddressLeft
  <2>1. x2[2].actor = "staff" /\ x2[3].actor = "address"
    BY DEF AuditInv, AuditTyped, Kinds
  <2>2. ASSUME NEW r \in Two, x7[r] = "completed", NEW e \in 1..4
        PROVE  ~x2[e].email /\ ~(Audit!Class[e] = "member" /\ x2[e].actor = "address")
    <3>1. Converted(e)
      BY <2>2 DEF AuditInv, CompletedRuns
    <3> QED
      BY <3>1, AuditDays, AuditEventsAre DEF Converted
  <2> QED
    BY <2>1, <2>2 DEF Audit!NoAddressLeft, Audit!Events
<1> QED
  BY <1>1, <1>2, <1>3

--------------------------------------------------------------------------------
(***************************************************************************)
(* That an administrator's tab takes only the answer of its own sign-in,   *)
(* keeps one refresh at a time and is signed out when it says so, for any  *)
(* number of loads, calls and presses.  Once the browser was sent anywhere *)
(* the page's memory says so, and no second sign-in begins; so a sign-in   *)
(* on its way is the one the storage expects, and a page that was signed   *)
(* out goes nowhere else, unless it was on its way to sign in before.      *)
(***************************************************************************)
CONSTANTS TabLoads, TabCalls, TabPresses, TabFailures          \* page loads, calls, presses; failures

ASSUME TabAssumption == {TabLoads, TabCalls, TabPresses, TabFailures} \subseteq Nat

Tab == INSTANCE AdminSession WITH
         Loads <- TabLoads, Calls <- TabCalls, Presses <- TabPresses, Failures <- TabFailures,
         at <- x1, page <- x2, pending <- x3, mem <- x4, refreshes <- x5, calls <- x6,
         going <- x7, cognito <- x8, past <- x9

TabTokens == [has : BOOLEAN, stale : BOOLEAN, rt : BOOLEAN]
TabMem    == [tokens : TabTokens, redirecting : BOOLEAN, logins : SUBSET Nat, revokes : Nat, shared : BOOLEAN]
TabCall   == [sent : BOOLEAN, stale : BOOLEAN, leaving : BOOLEAN, out : BOOLEAN]
TabGoing  == [to : {"none", "hosted", "logout"}, state : Nat]
TabPast   == [loads : Nat, logins : Nat, calls : Nat, presses : Nat, fails : Nat,
              own : BOOLEAN, out : BOOLEAN, crossed : BOOLEAN, midway : BOOLEAN, lost : BOOLEAN]

\* No call leaves with a token about to run out from a page that stays.
CallsLeave(cs) == \A c \in cs : c \in TabCall /\ (c.sent /\ c.stale => c.leaving)

TabTyped ==
  /\ x1 \in {"page", "hosted", "logout"} /\ x2 \in {"boot", "exchange", "gate", "shell"}
  /\ x3 \in Nat /\ x4 \in TabMem /\ x5 \subseteq {1} /\ CallsLeave(x6)
  /\ x7 \in TabGoing /\ x8 \in BOOLEAN /\ x9 \in TabPast

\* A page that was left is gone with its memory, and the tab is where it was sent.
TabGone == x1 # "page" => x4 = Tab!Loaded /\ x5 = {} /\ x6 = {} /\ x7.to = x1

\* The page's memory: what it began before it was sent away.
Memory ==
  /\ ~x4.shared => x5 = {}
  /\ ~x4.redirecting => x4.logins = {} /\ x4.revokes = 0
  /\ x1 = "page" /\ ~x4.redirecting => x7 = Tab!Nowhere /\ ~x9.out /\ (x2 = "shell" => x4.tokens.rt)

\* On the way to sign in, and not out: to the sign-in the storage expects.
WayFits ==
  ~x9.out => /\ x4.logins \subseteq {x3} /\ x4.revokes = 0 /\ ~x9.crossed
             /\ x7.to # "logout" /\ (x7.to = "hosted" => x7.state = x3)

\* Signed out: the sign-in's state and the tokens are dropped, and the tab is at its shell.
OutFits ==
  x9.out => /\ x3 = 0 /\ x2 = "shell"
            /\ ~x4.tokens.rt /\ (x4.tokens.has \/ x5 # {} => x9.midway)
            /\ x9.crossed \/ (x4.logins = {} /\ x7.to # "hosted" /\ (x4.revokes > 0 \/ ~x8 \/ x9.lost))

Own == x2 \in {"exchange", "shell"} => x9.own

TabInv == TabTyped /\ TabGone /\ Memory /\ WayFits /\ OutFits /\ Own

LEMMA TabInit == Tab!Init => TabInv
<1> SUFFICES ASSUME Tab!Init PROVE TabInv
  OBVIOUS
<1>1. Tab!Loaded \in TabMem /\ Tab!Nowhere \in TabGoing
  BY DEF Tab!Loaded, Tab!None, Tab!Nowhere, TabMem, TabTokens, TabGoing
<1>2. x9 \in TabPast
  BY DEF Tab!Init, TabPast
<1>3. x6 = {} /\ CallsLeave(x6)
  BY DEF Tab!Init, CallsLeave
<1>4. TabTyped
  BY <1>1, <1>2, <1>3 DEF Tab!Init, TabTyped
<1> QED
  BY <1>1, <1>2, <1>4 DEF Tab!Init, TabInv, TabGone, Memory, WayFits, OutFits, Own, Tab!Loaded, Tab!None, Tab!Nowhere

\* What login() leaves: nothing changes on the way elsewhere, and else a sign-in of its own begins.
LEMMA TabLogin ==
  ASSUME NEW m \in TabMem, NEW p \in TabPast, x3 \in Nat
  PROVE  LET r == Tab!LoggedIn(m, p) IN
         /\ r.mem \in TabMem /\ r.past \in TabPast /\ r.pending \in Nat
         /\ r.mem.redirecting /\ r.mem.revokes = m.revokes /\ r.mem.shared = m.shared
         /\ r.past.own = p.own /\ r.past.out = p.out /\ r.past.crossed = p.crossed
         /\ r.past.midway = p.midway /\ r.past.lost = p.lost
         /\ m.redirecting => r.mem = m /\ r.pending = x3
         /\ ~m.redirecting => r.mem.tokens = Tab!None /\ r.mem.logins = m.logins \union {r.pending}
<1>1. CASE m.redirecting
  BY <1>1 DEF Tab!LoggedIn, Tab!Redirecting, TabMem, TabPast
<1>2. CASE ~m.redirecting
  <2> DEFINE n == p.logins + 1
             k == [m EXCEPT !.redirecting = TRUE, !.tokens = Tab!None, !.logins = @ \union {n}]
             q == [p EXCEPT !.logins = n]
  <2>1. n \in Nat /\ Tab!None \in TabTokens
    BY DEF TabPast, TabTokens, Tab!None
  <2>2. \A b \in BOOLEAN, t \in TabTokens, l \in SUBSET Nat :
          [m EXCEPT !.redirecting = b, !.tokens = t, !.logins = l] \in TabMem
    BY DEF TabMem
  <2>3. m.logins \union {n} \in SUBSET Nat
    BY <2>1 DEF TabMem
  <2>4. k \in TabMem
    BY <2>1, <2>2, <2>3
  <2>5. /\ k.redirecting /\ k.tokens = Tab!None /\ k.logins = m.logins \union {n}
        /\ k.revokes = m.revokes /\ k.shared = m.shared
    BY DEF TabMem
  <2>6. \A i \in Nat : [p EXCEPT !.logins = i] \in TabPast
    BY DEF TabPast
  <2>7. /\ q \in TabPast /\ q.own = p.own /\ q.out = p.out /\ q.crossed = p.crossed
        /\ q.midway = p.midway /\ q.lost = p.lost
    BY <2>1, <2>6 DEF TabPast
  <2>8. Tab!LoggedIn(m, p) = [mem |-> k, pending |-> n, past |-> q]
    BY <1>2 DEF Tab!LoggedIn, Tab!Redirecting
  <2> HIDE DEF n, k, q
  <2> QED
    BY <1>2, <2>1, <2>4, <2>5, <2>7, <2>8
<1> QED
  BY <1>1, <1>2

\* A page that goes to sign in, or would: its refreshes and calls may be those of one that failed.
LEMMA TabGoes ==
  ASSUME TabInv, x1 = "page", NEW m \in TabMem, NEW p \in TabPast,
         m.tokens = x4.tokens, m.redirecting = x4.redirecting, m.logins = x4.logins, m.revokes = x4.revokes,
         p.own = x9.own, p.out = x9.out, p.crossed = x9.crossed, p.midway = x9.midway, p.lost = x9.lost,
         x4' = Tab!LoggedIn(m, p).mem, x3' = Tab!LoggedIn(m, p).pending, x9' = Tab!LoggedIn(m, p).past,
         x5' \subseteq x5, ~m.shared => x5' = {}, CallsLeave(x6'),
         x1' = x1, x2' = x2, x7' = x7, x8' = x8
  PROVE  TabInv'
<1> DEFINE r == Tab!LoggedIn(m, p)
<1>0. x3 \in Nat
  BY DEF TabInv, TabTyped
<1>1. /\ r.mem \in TabMem /\ r.past \in TabPast /\ r.pending \in Nat
      /\ r.mem.redirecting /\ r.mem.revokes = m.revokes /\ r.mem.shared = m.shared
      /\ r.past.own = p.own /\ r.past.out = p.out /\ r.past.crossed = p.crossed
      /\ r.past.midway = p.midway /\ r.past.lost = p.lost
      /\ m.redirecting => r.mem = m /\ r.pending = x3
      /\ ~m.redirecting => r.mem.tokens = Tab!None /\ r.mem.logins = m.logins \union {r.pending}
  BY <1>0, TabLogin
<1>2. x4' = r.mem /\ x3' = r.pending /\ x9' = r.past
  OBVIOUS
<1> HIDE DEF r
<1>3. TabTyped'
  BY <1>1, <1>2 DEF TabInv, TabTyped
<1>4. TabGone' /\ Own'
  BY <1>1, <1>2 DEF TabInv, TabGone, Own
<1>5. Memory'
  BY <1>1, <1>2 DEF TabInv, Memory
<1>6. WayFits' /\ OutFits'
  <2>1. CASE m.redirecting
    BY <1>1, <1>2, <2>1 DEF TabInv, WayFits, OutFits
  <2>2. CASE ~m.redirecting
    <3>1. ~x9.out /\ x4.logins = {} /\ x7 = Tab!Nowhere
      BY <2>2 DEF TabInv, Memory
    <3>2. x9'.out = x9.out /\ x9'.crossed = x9.crossed /\ x4'.logins = {x3'} /\ x4'.revokes = x4.revokes
      BY <1>1, <1>2, <2>2, <3>1
    <3> QED
      BY <3>1, <3>2 DEF TabInv, WayFits, OutFits, Tab!Nowhere
  <2> QED
    BY <2>1, <2>2
<1> QED
  BY <1>3, <1>4, <1>5, <1>6 DEF TabInv

\* A page that stays as it is but for its calls, its refreshes and the tokens these renew.
LEMMA TabStays ==
  ASSUME TabInv, x1 = "page", x4' \in TabMem, x9' \in TabPast,
         x4'.redirecting = x4.redirecting, x4'.logins = x4.logins, x4'.revokes = x4.revokes,
         x4'.tokens.rt = x4.tokens.rt, x4'.tokens.has => x4.tokens.has \/ x5 # {},
         x9'.own = x9.own, x9'.out = x9.out, x9'.crossed = x9.crossed, x9'.midway = x9.midway, x9'.lost = x9.lost,
         x5' \subseteq {1}, ~x4'.shared => x5' = {}, x9.out => x5' \subseteq x5, CallsLeave(x6'),
         x1' = x1, x2' = x2, x3' = x3, x7' = x7, x8' = x8
  PROVE  TabInv'
<1>1. TabTyped'
  BY DEF TabInv, TabTyped
<1>2. TabGone' /\ Own' /\ Memory'
  BY DEF TabInv, TabGone, Own, Memory
<1>3. WayFits'
  BY DEF TabInv, WayFits
<1>4. OutFits'
  BY DEF TabInv, OutFits
<1> QED
  BY <1>1, <1>2, <1>3, <1>4 DEF TabInv

\* A count of the bounds changes nothing else of the past.
LEMMA TabCounts ==
  ASSUME NEW q \in TabPast,
         \/ x9' = [q EXCEPT !.fails = @ + 1] \/ x9' = [q EXCEPT !.calls = @ + 1]
         \/ x9' = [q EXCEPT !.presses = @ + 1] \/ x9' = q
  PROVE  /\ x9' \in TabPast /\ x9'.own = q.own /\ x9'.out = q.out /\ x9'.crossed = q.crossed
         /\ x9'.midway = q.midway /\ x9'.lost = q.lost
<1>1. q.fails + 1 \in Nat /\ q.calls + 1 \in Nat /\ q.presses + 1 \in Nat
  BY DEF TabPast
<1>2. \A n \in Nat : /\ [q EXCEPT !.fails = n] \in TabPast /\ [q EXCEPT !.calls = n] \in TabPast
                     /\ [q EXCEPT !.presses = n] \in TabPast
  BY DEF TabPast
<1> QED
  BY <1>1, <1>2 DEF TabPast

\* The page and its sign-ins: it loads, goes, leaves, and comes back.
LEMMA TabBegins ==
  ASSUME TabInv, Tab!Boot \/ Tab!GateSignIn
  PROVE  TabInv'
<1>1. x4 \in TabMem /\ x9 \in TabPast /\ CallsLeave(x6)
  BY DEF TabInv, TabTyped
<1>2. /\ x4' = Tab!LoggedIn(x4, x9).mem /\ x3' = Tab!LoggedIn(x4, x9).pending /\ x9' = Tab!LoggedIn(x4, x9).past
      /\ x1 = "page" /\ x1' = x1 /\ x2' = x2 /\ x5' = x5 /\ x6' = x6 /\ x7' = x7 /\ x8' = x8
  BY DEF Tab!Boot, Tab!GateSignIn, Tab!Login
<1>3. ~x4.shared => x5' = {}
  BY <1>2 DEF TabInv, Memory
<1> QED
  BY <1>1, <1>2, <1>3, TabGoes

LEMMA TabSent ==
  ASSUME TabInv, Tab!SentToSignIn
  PROVE  TabInv'
<1>1. PICK n \in x4.logins : /\ x4' = [x4 EXCEPT !.logins = @ \ {n}] /\ x7' = Tab!Authorize(n)
                             /\ x1' = x1 /\ x2' = x2 /\ x3' = x3 /\ x5' = x5 /\ x6' = x6 /\ x8' = x8 /\ x9' = x9
  BY DEF Tab!SentToSignIn
<1>2. x4 \in TabMem
  BY DEF TabInv, TabTyped
<1>3. /\ x4' \in TabMem /\ x4'.logins = x4.logins \ {n} /\ x4'.redirecting = x4.redirecting
      /\ x4'.tokens = x4.tokens /\ x4'.revokes = x4.revokes /\ x4'.shared = x4.shared
  BY <1>1, <1>2 DEF TabMem
<1>4. x7'.to = "hosted" /\ x7'.state = n /\ x7' \in TabGoing
  BY <1>1, <1>2 DEF Tab!Authorize, TabGoing, TabMem
<1>5. x1 = "page" /\ x4.redirecting
  BY <1>1 DEF TabInv, TabGone, Memory, Tab!Loaded
<1>6. TabTyped' /\ TabGone' /\ Own' /\ Memory'
  BY <1>1, <1>3, <1>4, <1>5 DEF TabInv, TabTyped, TabGone, Own, Memory
<1>7. WayFits'
  BY <1>1, <1>3, <1>4 DEF TabInv, WayFits
<1>8. OutFits'
  BY <1>1, <1>3, <1>4 DEF TabInv, OutFits
<1> QED
  BY <1>6, <1>7, <1>8 DEF TabInv

LEMMA TabLeaves ==
  ASSUME TabInv, Tab!Leave
  PROVE  TabInv'
<1>1. /\ x1 = "page" /\ x7.to # "none" /\ x1' = x7.to /\ x4' = Tab!Loaded /\ x5' = {} /\ x6' = {}
      /\ x9' = [x9 EXCEPT !.lost = @ \/ x4.revokes > 0] /\ x2' = x2 /\ x3' = x3 /\ x7' = x7 /\ x8' = x8
  BY DEF Tab!Leave
<1>2. x9 \in TabPast /\ x4 \in TabMem /\ x7 \in TabGoing
  BY DEF TabInv, TabTyped
<1>3. \A b \in BOOLEAN : [x9 EXCEPT !.lost = b] \in TabPast
  BY <1>2 DEF TabPast
<1>4. (x9.lost \/ x4.revokes > 0) \in BOOLEAN
  OBVIOUS
<1>5. /\ x9' \in TabPast /\ x9'.own = x9.own /\ x9'.out = x9.out /\ x9'.crossed = x9.crossed
      /\ x9'.midway = x9.midway
  BY <1>1, <1>2, <1>3, <1>4 DEF TabPast
<1>6. x9.lost \/ x4.revokes > 0 => x9'.lost
  BY <1>1, <1>2 DEF TabPast
<1>7. /\ x4' \in TabMem /\ x4'.logins = {} /\ x4'.revokes = 0 /\ ~x4'.redirecting /\ ~x4'.shared
      /\ ~x4'.tokens.has /\ ~x4'.tokens.rt
  BY <1>1 DEF Tab!Loaded, Tab!None, TabMem, TabTokens
<1>8. x1' \in {"hosted", "logout"} /\ CallsLeave({})
  BY <1>1, <1>2 DEF TabGoing, CallsLeave
<1>9. TabTyped'
  BY <1>1, <1>5, <1>7, <1>8 DEF TabInv, TabTyped
<1>10. TabGone' /\ Own' /\ Memory'
  BY <1>1, <1>5, <1>7, <1>8 DEF TabInv, TabGone, Own, Memory
<1>11. WayFits'
  BY <1>1, <1>5, <1>7 DEF TabInv, WayFits
<1>12. OutFits'
  BY <1>1, <1>5, <1>6, <1>7 DEF TabInv, OutFits
<1> QED
  BY <1>9, <1>10, <1>11, <1>12 DEF TabInv

LEMMA TabArrives ==
  ASSUME TabInv, x1 # "page", NEW q \in TabPast, NEW show \in {"boot", "exchange", "gate"}, Tab!Arrive(q, show),
         show = "exchange" => q.own, x3' \in Nat, x8' = x8
  PROVE  TabInv'
<1>1. /\ x1' = "page" /\ x2' = show /\ x7' = Tab!Nowhere /\ x4' = x4 /\ x5' = x5 /\ x6' = x6
      /\ x9' = [q EXCEPT !.loads = @ + 1, !.out = FALSE, !.crossed = FALSE, !.midway = FALSE, !.lost = FALSE]
  BY DEF Tab!Arrive
<1>2. \A n \in Nat, b \in BOOLEAN : [q EXCEPT !.loads = n, !.out = b, !.crossed = b, !.midway = b, !.lost = b] \in TabPast
  BY DEF TabPast
<1>3. q.loads + 1 \in Nat
  BY DEF TabPast
<1>4. x9' \in TabPast /\ x9'.own = q.own /\ ~x9'.out /\ ~x9'.crossed
  BY <1>1, <1>2, <1>3 DEF TabPast
<1>5. x4 = Tab!Loaded /\ x5 = {} /\ x6 = {}
  BY DEF TabInv, TabGone
<1>6. x4.logins = {} /\ x4.revokes = 0 /\ ~x4.redirecting /\ ~x4.shared
  BY <1>5 DEF Tab!Loaded
<1>7. x7' \in TabGoing /\ x7'.to = "none"
  BY <1>1 DEF Tab!Nowhere, TabGoing
<1>8. TabTyped'
  BY <1>1, <1>4, <1>7 DEF TabInv, TabTyped
<1> QED
  BY <1>1, <1>4, <1>5, <1>6, <1>7, <1>8 DEF TabInv, TabGone, Own, Memory, WayFits, OutFits

LEMMA TabReturns ==
  ASSUME TabInv, Tab!Callback \/ Tab!Open
  PROVE  TabInv'
<1>0. x9 \in TabPast /\ x3 \in Nat
  BY DEF TabInv, TabTyped
<1>1. CASE Tab!Callback
  <2>1. PICK state \in 0..x9.logins, code \in BOOLEAN :
          /\ x3' = 0
          /\ Tab!Arrive([x9 EXCEPT !.own = state = x7.state],
                        IF Tab!OwnState(state) /\ code THEN "exchange" ELSE "gate")
    BY <1>1 DEF Tab!Callback
  <2> DEFINE q == [x9 EXCEPT !.own = state = x7.state]
             show == IF Tab!OwnState(state) /\ code THEN "exchange" ELSE "gate"
  <2>2. q \in TabPast /\ (state = x7.state => q.own)
    BY <1>0 DEF TabPast
  <2>3. x1 = "hosted" /\ x8' = x8
    BY <1>1 DEF Tab!Callback
  <2>4. ASSUME show = "exchange" PROVE state = x7.state
    <3>1. x3 # 0 /\ state = x3
      BY <2>4 DEF Tab!OwnState
    <3>2. x7.to = "hosted" /\ ~x9.out
      BY <2>3, <3>1 DEF TabInv, TabGone, OutFits
    <3> QED
      BY <3>1, <3>2 DEF TabInv, WayFits
  <2>5. show \in {"boot", "exchange", "gate"} /\ Tab!Arrive(q, show)
    BY <2>1
  <2> HIDE DEF q, show
  <2> QED
    BY <2>1, <2>2, <2>3, <2>4, <2>5, TabArrives
<1>2. CASE Tab!Open
  <2>1. x1 # "page" /\ Tab!Arrive(x9, "boot") /\ x3' = x3 /\ x8' = x8
    BY <1>2 DEF Tab!Open
  <2> QED
    BY <1>0, <2>1, TabArrives
<1> QED
  BY <1>1, <1>2

LEMMA TabExchange ==
  ASSUME TabInv, Tab!Exchange
  PROVE  TabInv'
<1>0. /\ x1 = "page" /\ x2 = "exchange" /\ x1' = x1 /\ x3' = x3 /\ x5' = x5 /\ x6' = x6 /\ x7' = x7
  BY DEF Tab!Exchange
<1>1. x4 \in TabMem /\ x9 \in TabPast /\ ~x9.out /\ x9.own
  BY <1>0 DEF TabInv, TabTyped, OutFits, Own
<1>2. CASE x2' = "shell" /\ x4' = [x4 EXCEPT !.tokens = Tab!Fresh(TRUE)] /\ x8' = TRUE /\ x9' = x9
  <2>1. Tab!Fresh(TRUE) \in TabTokens /\ Tab!Fresh(TRUE).rt
    BY DEF Tab!Fresh, TabTokens
  <2>2. /\ x4' \in TabMem /\ x4'.tokens.rt /\ x4'.redirecting = x4.redirecting /\ x4'.logins = x4.logins
        /\ x4'.revokes = x4.revokes /\ x4'.shared = x4.shared
    BY <1>1, <1>2, <2>1 DEF TabMem
  <2> QED
    BY <1>0, <1>1, <1>2, <2>2 DEF TabInv, TabTyped, TabGone, Memory, WayFits, OutFits, Own
<1>3. CASE x9' = Tab!Fail(x9) /\ x2' = "gate" /\ x4' = x4 /\ x8' = x8
  <2>1. x9' = [x9 EXCEPT !.fails = @ + 1]
    BY <1>3 DEF Tab!Fail
  <2>2. /\ x9' \in TabPast /\ x9'.own = x9.own /\ x9'.out = x9.out /\ x9'.crossed = x9.crossed
        /\ x9'.midway = x9.midway /\ x9'.lost = x9.lost
    BY <1>1, <2>1, TabCounts
  <2> QED
    BY <1>0, <1>1, <1>3, <2>2 DEF TabInv, TabTyped, TabGone, Memory, WayFits, OutFits, Own
<1> QED
  BY <1>2, <1>3 DEF Tab!Exchange

\* The tokens and the calls that carry them.
LEMMA TabRunsOut ==
  ASSUME TabInv, Tab!RunsOut
  PROVE  TabInv'
<1>1. /\ x4.tokens.has /\ x4' = [x4 EXCEPT !.tokens.stale = TRUE] /\ x9' = Tab!Fail(x9)
      /\ x1' = x1 /\ x2' = x2 /\ x3' = x3 /\ x5' = x5 /\ x6' = x6 /\ x7' = x7 /\ x8' = x8
  BY DEF Tab!RunsOut
<1>2. x4 \in TabMem /\ x9 \in TabPast /\ x5 \subseteq {1} /\ CallsLeave(x6) /\ x1 = "page"
  BY <1>1 DEF TabInv, TabTyped, TabGone, Tab!Loaded, Tab!None
<1>3. x9' = [x9 EXCEPT !.fails = @ + 1]
  BY <1>1 DEF Tab!Fail
<1>4. /\ x9' \in TabPast /\ x9'.own = x9.own /\ x9'.out = x9.out /\ x9'.crossed = x9.crossed
      /\ x9'.midway = x9.midway /\ x9'.lost = x9.lost
  BY <1>2, <1>3, TabCounts
<1>5. /\ x4' \in TabMem /\ x4'.redirecting = x4.redirecting /\ x4'.logins = x4.logins /\ x4'.revokes = x4.revokes
      /\ x4'.shared = x4.shared /\ x4'.tokens.rt = x4.tokens.rt
  BY <1>1, <1>2 DEF TabMem, TabTokens
<1>6. ~x4'.shared => x5' = {}
  BY <1>1, <1>5 DEF TabInv, Memory
<1>7. CallsLeave(x6') /\ x5' \subseteq {1} /\ (x9.out => x5' \subseteq x5)
  BY <1>1, <1>2
<1> QED
  BY <1>1, <1>2, <1>4, <1>5, <1>6, <1>7, TabStays

\* A refresh that begins is the only one.
LEMMA TabFirst == TabInv /\ ~x4.shared => x5 \union {Tab!Cardinality(x5) + 1} = {1}
<1> SUFFICES ASSUME TabInv, ~x4.shared PROVE x5 \union {Tab!Cardinality(x5) + 1} = {1}
  OBVIOUS
<1>1. x5 = {}
  BY DEF TabInv, Memory
<1>2. Tab!Cardinality({}) = Cardinality({})
  BY DEF Tab!Cardinality, Cardinality
<1> QED
  BY <1>1, <1>2, FS_EmptySet

\* One begins, for the timer or a call, with a refresh token: the page was not signed out.
LEMMA TabRefreshes ==
  ASSUME TabInv, x1 = "page", x4.shared \/ x4.tokens.rt, x4' = [x4 EXCEPT !.shared = TRUE],
         x5' = IF x4.shared THEN x5 ELSE x5 \union {Tab!Cardinality(x5) + 1},
         x9' = [x9 EXCEPT !.calls = @ + 1] \/ x9' = x9, CallsLeave(x6'),
         x1' = x1, x2' = x2, x3' = x3, x7' = x7, x8' = x8
  PROVE  TabInv'
<1>1. x4 \in TabMem /\ x9 \in TabPast /\ x5 \subseteq {1}
  BY DEF TabInv, TabTyped
<1>2. /\ x9' \in TabPast /\ x9'.own = x9.own /\ x9'.out = x9.out /\ x9'.crossed = x9.crossed
      /\ x9'.midway = x9.midway /\ x9'.lost = x9.lost
  BY <1>1, TabCounts
<1>3. /\ x4' \in TabMem /\ x4'.redirecting = x4.redirecting /\ x4'.logins = x4.logins /\ x4'.revokes = x4.revokes
      /\ x4'.shared /\ x4'.tokens = x4.tokens
  BY <1>1 DEF TabMem
<1>4. x5' \subseteq {1} /\ (x9.out => x5' \subseteq x5)
  <2>1. CASE x4.shared
    BY <1>1, <2>1
  <2>2. CASE ~x4.shared
    <3>1. x5' = {1} /\ ~x9.out
      BY <2>2, TabFirst DEF TabInv, OutFits
    <3> QED
      BY <3>1
  <2> QED
    BY <2>1, <2>2
<1> QED
  BY <1>2, <1>3, <1>4, TabStays

LEMMA TabTimer ==
  ASSUME TabInv, Tab!Timer
  PROVE  TabInv'
<1>1. x1 = "page" /\ Tab!Refresh /\ x1' = x1 /\ x2' = x2 /\ x6' = x6 /\ x7' = x7 /\ x8' = x8
  BY DEF Tab!Timer
<1>2. x4 \in TabMem /\ x9 \in TabPast /\ x5 \subseteq {1} /\ CallsLeave(x6)
  BY DEF TabInv, TabTyped
<1>3. ~x4.shared => x5 = {}
  BY DEF TabInv, Memory
<1>4. CASE x4.shared
  <2>1. x4' = x4 /\ x3' = x3 /\ x9' = x9 /\ x5' = x5
    BY <1>1, <1>4 DEF Tab!Refresh, Tab!JoinsShared
  <2> QED
    BY <1>1, <1>2, <1>3, <1>4, <2>1, TabStays
<1>5. CASE ~x4.shared /\ x4.tokens.rt
  <2>1. /\ x4' = [x4 EXCEPT !.shared = TRUE] /\ x3' = x3 /\ x9' = x9
        /\ x5' = IF x4.shared THEN x5 ELSE x5 \union {Tab!Cardinality(x5) + 1}
    BY <1>1, <1>5 DEF Tab!Refresh, Tab!JoinsShared
  <2> QED
    BY <1>1, <1>2, <1>5, <2>1, TabRefreshes
<1>6. CASE ~x4.shared /\ ~x4.tokens.rt
  <2>1. /\ x4' = Tab!LoggedIn(x4, x9).mem /\ x3' = Tab!LoggedIn(x4, x9).pending
        /\ x9' = Tab!LoggedIn(x4, x9).past /\ x5' = x5
    BY <1>1, <1>6 DEF Tab!Refresh, Tab!JoinsShared, Tab!Login
  <2> QED
    BY <1>1, <1>2, <1>3, <2>1, TabGoes
<1> QED
  BY <1>4, <1>5, <1>6

\* A call that goes out with a token about to run out leaves from a page that goes.
LEMMA TabSends ==
  ASSUME NEW m \in TabMem, NEW b \in BOOLEAN, b = x9.out, m.tokens.has /\ m.tokens.stale => m.redirecting
  PROVE  /\ m.tokens.has => Tab!Sent(m) \in TabCall /\ (Tab!Sent(m).stale => Tab!Sent(m).leaving)
         /\ Tab!Waits \in TabCall /\ ~Tab!Waits.sent
         /\ CallsLeave(x6) => CallsLeave(Tab!Resume(x6, m))
<1>1. Tab!Waits \in TabCall /\ ~Tab!Waits.sent
  BY DEF Tab!Waits, TabCall
<1>2. Tab!Sent(m) \in TabCall /\ Tab!Sent(m).stale = m.tokens.stale /\ Tab!Sent(m).leaving = m.redirecting
  BY DEF Tab!Sent, TabCall, TabMem, TabTokens
<1>3. m.tokens.has => (Tab!Sent(m).stale => Tab!Sent(m).leaving)
  BY <1>2
<1>4. ASSUME CallsLeave(x6) PROVE CallsLeave(Tab!Resume(x6, m))
  <2> SUFFICES ASSUME NEW c \in Tab!Resume(x6, m) PROVE c \in TabCall /\ (c.sent /\ c.stale => c.leaving)
    BY DEF CallsLeave
  <2>1. CASE c \in x6
    BY <1>4, <2>1 DEF CallsLeave
  <2>2. CASE c = Tab!Sent(m) /\ m.tokens.has
    BY <1>2, <1>3, <2>2
  <2> QED
    BY <2>1, <2>2 DEF Tab!Resume
<1> QED
  BY <1>1, <1>2, <1>3, <1>4

LEMMA TabAsks ==
  ASSUME TabInv, Tab!Ask
  PROVE  TabInv'
<1> DEFINE q == [x9 EXCEPT !.calls = @ + 1]
           r == IF Tab!Expiring(x4) \/ ~x4.tokens.has THEN Tab!LoggedIn(x4, q)
                ELSE [mem |-> x4, pending |-> x3, past |-> q]
<1>1. x1 = "page" /\ x1' = x1 /\ x2' = x2 /\ x7' = x7 /\ x8' = x8
  BY DEF Tab!Ask
<1>2. x4 \in TabMem /\ x9 \in TabPast /\ x5 \subseteq {1} /\ CallsLeave(x6) /\ x3 \in Nat
  BY DEF TabInv, TabTyped
<1>3. ~x4.shared => x5 = {}
  BY DEF TabInv, Memory
<1>4. q \in TabPast /\ q.own = x9.own /\ q.out = x9.out /\ q.crossed = x9.crossed /\ q.midway = x9.midway /\ q.lost = x9.lost
  <2>1. x9.calls + 1 \in Nat /\ \A n \in Nat : [x9 EXCEPT !.calls = n] \in TabPast
    BY <1>2 DEF TabPast
  <2> QED
    BY <1>2, <2>1 DEF TabPast
<1>5. CASE Tab!Expiring(x4) /\ (x4.shared \/ x4.tokens.rt)
  <2>1. /\ x4' = [x4 EXCEPT !.shared = TRUE] /\ x3' = x3 /\ x9' = [x9 EXCEPT !.calls = @ + 1]
        /\ x5' = IF x4.shared THEN x5 ELSE x5 \union {Tab!Cardinality(x5) + 1}
        /\ x6' = x6 \union {Tab!Waits}
    BY <1>5 DEF Tab!Ask, Tab!JoinsShared
  <2>0. Tab!Waits \in TabCall /\ ~Tab!Waits.sent
    BY DEF Tab!Waits, TabCall
  <2>2. CallsLeave(x6')
    BY <1>2, <2>0, <2>1 DEF CallsLeave
  <2>3. x4.shared \/ x4.tokens.rt
    BY <1>5
  <2> QED
    BY <1>1, <2>1, <2>2, <2>3, TabRefreshes
<1>6. CASE ~(Tab!Expiring(x4) /\ (x4.shared \/ x4.tokens.rt))
  <2>1. /\ x4' = r.mem /\ x3' = r.pending /\ x9' = r.past /\ x5' = x5
        /\ x6' = IF r.mem.tokens.has THEN x6 \union {Tab!Sent(r.mem)} ELSE x6
    BY <1>6 DEF Tab!Ask, Tab!JoinsShared
  <2>2. ASSUME NEW m \in TabMem, m = r.mem, m.tokens.has /\ m.tokens.stale => m.redirecting PROVE CallsLeave(x6')
    <3>1. m.tokens.has => Tab!Sent(m) \in TabCall /\ (Tab!Sent(m).stale => Tab!Sent(m).leaving)
      <4>1. x9.out \in BOOLEAN
        BY <1>2 DEF TabPast
      <4> QED
        BY <2>2, <4>1, TabSends
    <3>2. x6' = IF m.tokens.has THEN x6 \union {Tab!Sent(m)} ELSE x6
      BY <2>1, <2>2
    <3> QED
      BY <1>2, <3>1, <3>2 DEF CallsLeave
  <2>3. CASE Tab!Expiring(x4) \/ ~x4.tokens.has
    <3>1. r = Tab!LoggedIn(x4, q)
      BY <2>3
    <3>2. r.mem \in TabMem /\ r.mem.redirecting
      BY <1>2, <1>4, <3>1, TabLogin
    <3>3. CallsLeave(x6')
      BY <2>2, <3>2
    <3>4. /\ x4' = Tab!LoggedIn(x4, q).mem /\ x3' = Tab!LoggedIn(x4, q).pending
          /\ x9' = Tab!LoggedIn(x4, q).past
      BY <2>1, <3>1
    <3>5. x5' \subseteq x5 /\ (~x4.shared => x5' = {})
      BY <1>3, <2>1
    <3> HIDE DEF q, r
    <3> QED
      BY <1>1, <1>2, <1>4, <3>3, <3>4, <3>5, TabGoes
  <2>4. CASE ~(Tab!Expiring(x4) \/ ~x4.tokens.has)
    <3>1. r = [mem |-> x4, pending |-> x3, past |-> q]
      BY <2>4
    <3>2. r.mem = x4 /\ r.pending = x3 /\ r.past = q
      BY <3>1
    <3>3. ~(x4.tokens.has /\ x4.tokens.stale)
      BY <2>4 DEF Tab!Expiring
    <3>4. CallsLeave(x6')
      BY <1>2, <2>2, <3>2, <3>3
    <3>5. x4' = x4 /\ x3' = x3 /\ x9' = q /\ x5' = x5
      BY <2>1, <3>2
    <3> HIDE DEF q, r
    <3> QED
      BY <1>1, <1>2, <1>3, <1>4, <3>4, <3>5, TabStays
  <2> QED
    BY <2>3, <2>4
<1> QED
  BY <1>5, <1>6

LEMMA TabAnswered ==
  ASSUME TabInv, Tab!RefreshAnswered
  PROVE  TabInv'
<1> DEFINE m == [x4 EXCEPT !.tokens = Tab!Fresh(x4.tokens.rt), !.shared = FALSE]
<1>1. PICK k \in x5 : /\ x5' = x5 \ {k} /\ x4' = m /\ x6' = Tab!Resume(x6, m)
                      /\ x1' = x1 /\ x2' = x2 /\ x3' = x3 /\ x7' = x7 /\ x8' = x8 /\ x9' = x9
  BY DEF Tab!RefreshAnswered
<1>2. x4 \in TabMem /\ x9 \in TabPast /\ x5 \subseteq {1} /\ CallsLeave(x6)
  BY DEF TabInv, TabTyped
<1>3. x1 = "page"
  BY <1>1 DEF TabInv, TabGone
<1>4. /\ m \in TabMem /\ m.redirecting = x4.redirecting /\ m.logins = x4.logins /\ m.revokes = x4.revokes
      /\ ~m.shared /\ m.tokens.rt = x4.tokens.rt /\ ~m.tokens.stale
  <2>1. /\ Tab!Fresh(x4.tokens.rt) \in TabTokens /\ Tab!Fresh(x4.tokens.rt).rt = x4.tokens.rt
        /\ ~Tab!Fresh(x4.tokens.rt).stale
    BY <1>2 DEF Tab!Fresh, TabTokens, TabMem
  <2> QED
    BY <1>2, <2>1 DEF TabMem
<1>5. CallsLeave(Tab!Resume(x6, m))
  <2>1. x9.out \in BOOLEAN
    BY <1>2 DEF TabPast
  <2> HIDE DEF m
  <2> QED
    BY <1>2, <1>4, <2>1, TabSends
<1>6. x5' = {} /\ x5 # {}
  BY <1>1, <1>2
<1> HIDE DEF m
<1>7. x5' \subseteq {1} /\ x5' \subseteq x5
  BY <1>6
<1>8. CallsLeave(x6')
  BY <1>1, <1>5
<1>9. /\ x4' \in TabMem /\ x4'.redirecting = x4.redirecting /\ x4'.logins = x4.logins /\ x4'.revokes = x4.revokes
      /\ x4'.tokens.rt = x4.tokens.rt
  BY <1>1, <1>4
<1> QED
  BY <1>1, <1>2, <1>3, <1>6, <1>7, <1>8, <1>9, TabStays

LEMMA TabFails ==
  ASSUME TabInv, Tab!RefreshFails
  PROVE  TabInv'
<1> DEFINE m == [x4 EXCEPT !.shared = FALSE]
           q == IF x8 THEN Tab!Fail(x9) ELSE x9
<1>1. PICK k \in x5 : /\ x5' = x5 \ {k}
                      /\ x4' = Tab!LoggedIn(m, q).mem /\ x3' = Tab!LoggedIn(m, q).pending
                      /\ x9' = Tab!LoggedIn(m, q).past /\ x6' = Tab!Resume(x6, Tab!LoggedIn(m, q).mem)
                      /\ x1' = x1 /\ x2' = x2 /\ x7' = x7 /\ x8' = x8
  BY DEF Tab!RefreshFails
<1>2. x4 \in TabMem /\ x9 \in TabPast /\ x5 \subseteq {1} /\ CallsLeave(x6) /\ x3 \in Nat
  BY DEF TabInv, TabTyped
<1>3. x1 = "page" /\ x5' = {}
  BY <1>1, <1>2 DEF TabInv, TabGone
<1>4. /\ m \in TabMem /\ m.tokens = x4.tokens /\ m.redirecting = x4.redirecting /\ m.logins = x4.logins
      /\ m.revokes = x4.revokes
  BY <1>2 DEF TabMem
<1>5. /\ q \in TabPast /\ q.own = x9.own /\ q.out = x9.out /\ q.crossed = x9.crossed /\ q.midway = x9.midway
      /\ q.lost = x9.lost
  <2>1. x9.fails + 1 \in Nat /\ \A n \in Nat : [x9 EXCEPT !.fails = n] \in TabPast
    BY <1>2 DEF TabPast
  <2> QED
    BY <1>2, <2>1 DEF TabPast, Tab!Fail
<1> HIDE DEF m, q
<1>6. Tab!LoggedIn(m, q).mem \in TabMem /\ Tab!LoggedIn(m, q).mem.redirecting
  BY <1>2, <1>4, <1>5, TabLogin
<1>7. CallsLeave(x6')
  <2>1. x9.out \in BOOLEAN
    BY <1>2 DEF TabPast
  <2> DEFINE l == Tab!LoggedIn(m, q).mem
  <2>2. l \in TabMem /\ l.redirecting
    BY <1>6
  <2> HIDE DEF l
  <2>3. CallsLeave(Tab!Resume(x6, l))
    BY <1>2, <2>1, <2>2, TabSends
  <2> QED
    BY <1>1, <2>3 DEF l
<1>8. x5' \subseteq x5
  BY <1>3
<1> QED
  BY <1>1, <1>3, <1>4, <1>5, <1>7, <1>8, TabGoes

LEMMA TabAnswer ==
  ASSUME TabInv, Tab!Answered
  PROVE  TabInv'
<1>1. PICK c \in x6 : /\ x6' = x6 \ {c}
                      /\ \/ x4' = x4 /\ x3' = x3 /\ x9' = x9
                         \/ Tab!Login(x4, IF c.stale THEN x9 ELSE Tab!Fail(x9))
                      /\ x1' = x1 /\ x2' = x2 /\ x5' = x5 /\ x7' = x7 /\ x8' = x8
  BY DEF Tab!Answered
<1>2. x4 \in TabMem /\ x9 \in TabPast /\ x5 \subseteq {1} /\ CallsLeave(x6)
  BY DEF TabInv, TabTyped
<1>3. x1 = "page" /\ (~x4.shared => x5' = {})
  BY <1>1 DEF TabInv, TabGone, Memory
<1>4. CallsLeave(x6')
  BY <1>1, <1>2 DEF CallsLeave
<1>5. x5' \subseteq {1} /\ x5' \subseteq x5
  BY <1>1, <1>2
<1>6. CASE x4' = x4 /\ x3' = x3 /\ x9' = x9
  <2>1. ~x4'.shared => x5' = {}
    BY <1>3, <1>6
  <2> QED
    BY <1>1, <1>2, <1>4, <1>3, <1>5, <1>6, <2>1, TabStays
<1>7. CASE Tab!Login(x4, IF c.stale THEN x9 ELSE Tab!Fail(x9))
  <2> DEFINE q == IF c.stale THEN x9 ELSE Tab!Fail(x9)
  <2>1. /\ q \in TabPast /\ q.own = x9.own /\ q.out = x9.out /\ q.crossed = x9.crossed /\ q.midway = x9.midway
        /\ q.lost = x9.lost
    <3>1. x9.fails + 1 \in Nat /\ \A n \in Nat : [x9 EXCEPT !.fails = n] \in TabPast
      BY <1>2 DEF TabPast
    <3> QED
      BY <1>2, <3>1 DEF TabPast, Tab!Fail
  <2>2. /\ x4' = Tab!LoggedIn(x4, q).mem /\ x3' = Tab!LoggedIn(x4, q).pending /\ x9' = Tab!LoggedIn(x4, q).past
    BY <1>7 DEF Tab!Login
  <2> HIDE DEF q
  <2> QED
    BY <1>1, <1>2, <1>3, <1>4, <1>5, <2>1, <2>2, TabGoes
<1> QED
  BY <1>1, <1>6, <1>7

\* Signing out.
LEMMA TabSignsOut ==
  ASSUME TabInv, Tab!SignOut
  PROVE  TabInv'
<1>1. /\ x1 = "page" /\ x2 = "shell" /\ x4' = Tab!Cleared(x4) /\ x3' = 0
      /\ x7' = IF x4.tokens.rt THEN x7 ELSE Tab!Logout
      /\ x9' = [x9 EXCEPT !.presses = @ + 1, !.out = TRUE, !.crossed = @ \/ (x4.redirecting /\ ~x9.out),
                          !.midway = @ \/ x5 # {}]
      /\ x1' = x1 /\ x2' = x2 /\ x5' = x5 /\ x6' = x6 /\ x8' = x8
  BY DEF Tab!SignOut
<1>2. x4 \in TabMem /\ x9 \in TabPast /\ x5 \subseteq {1} /\ CallsLeave(x6) /\ x7 \in TabGoing /\ x8 \in BOOLEAN
  BY DEF TabInv, TabTyped
<1>3. /\ x4' \in TabMem /\ x4'.redirecting /\ ~x4'.tokens.has /\ ~x4'.tokens.rt /\ x4'.logins = x4.logins
      /\ x4'.revokes = (IF x4.tokens.rt THEN x4.revokes + 1 ELSE x4.revokes) /\ x4'.shared = x4.shared
  <2> DEFINE n == IF x4.tokens.rt THEN x4.revokes + 1 ELSE x4.revokes
  <2>1. Tab!None \in TabTokens /\ ~Tab!None.has /\ ~Tab!None.rt
    BY DEF Tab!None, TabTokens
  <2>2. n \in Nat
    BY <1>2 DEF TabMem
  <2>3. \A t \in TabTokens, b \in BOOLEAN, i \in Nat : [x4 EXCEPT !.tokens = t, !.redirecting = b, !.revokes = i] \in TabMem
    BY <1>2 DEF TabMem
  <2>4. x4' = [x4 EXCEPT !.tokens = Tab!None, !.redirecting = TRUE, !.revokes = n]
    BY <1>1 DEF Tab!Cleared
  <2> HIDE DEF n
  <2>5. x4' \in TabMem
    BY <2>1, <2>2, <2>3, <2>4
  <2>6. x4'.tokens = Tab!None /\ x4'.redirecting /\ x4'.revokes = n /\ x4'.logins = x4.logins /\ x4'.shared = x4.shared
    BY <1>2, <2>4 DEF TabMem
  <2> QED
    BY <2>1, <2>5, <2>6 DEF n
<1>4. /\ x9' \in TabPast /\ x9'.own = x9.own /\ x9'.out /\ x9'.lost = x9.lost
      /\ x9'.crossed = (x9.crossed \/ (x4.redirecting /\ ~x9.out))
      /\ x9'.midway = (x9.midway \/ x5 # {})
  <2> DEFINE a == x9.crossed \/ (x4.redirecting /\ ~x9.out)
             b == x9.midway \/ x5 # {}
  <2>1. a \in BOOLEAN /\ b \in BOOLEAN /\ x9.presses + 1 \in Nat
    BY <1>2 DEF TabPast
  <2>2. \A n \in Nat, o, c, w \in BOOLEAN : [x9 EXCEPT !.presses = n, !.out = o, !.crossed = c, !.midway = w] \in TabPast
    BY <1>2 DEF TabPast
  <2>3. x9' = [x9 EXCEPT !.presses = @ + 1, !.out = TRUE, !.crossed = a, !.midway = b]
    BY <1>1, <1>2 DEF TabPast
  <2> HIDE DEF a, b
  <2>4. x9' \in TabPast
    BY <2>1, <2>2, <2>3
  <2>5. x9'.own = x9.own /\ x9'.out = TRUE /\ x9'.crossed = a /\ x9'.midway = b /\ x9'.lost = x9.lost
    BY <1>2, <2>3 DEF TabPast
  <2> QED
    BY <2>4, <2>5 DEF a, b
<1>5. x7' \in TabGoing /\ (x7' = x7 \/ x7'.to = "logout")
  BY <1>1, <1>2 DEF Tab!Logout, TabGoing
<1>6. TabTyped' /\ TabGone' /\ Own' /\ Memory' /\ WayFits'
  BY <1>1, <1>3, <1>4, <1>5 DEF TabInv, TabTyped, TabGone, Own, Memory, WayFits
<1>7. OutFits'
  <2>1. x3' = 0 /\ x2' = "shell" /\ ~x4'.tokens.rt /\ (x4'.tokens.has \/ x5' # {} => x9'.midway)
    BY <1>1, <1>3, <1>4
  <2>2. ASSUME ~x9'.crossed PROVE x4'.logins = {} /\ x7'.to # "hosted" /\ (x4'.revokes > 0 \/ ~x8' \/ x9'.lost)
    <3>1. ~x9.crossed /\ (~x4.redirecting \/ x9.out)
      BY <1>4, <2>2
    <3>2. CASE x9.out
      <4>1. x4.logins = {} /\ x7.to # "hosted" /\ (x4.revokes > 0 \/ ~x8 \/ x9.lost) /\ ~x4.tokens.rt
        BY <3>1, <3>2 DEF TabInv, OutFits
      <4> QED
        BY <1>1, <1>3, <1>4, <1>5, <4>1
    <3>3. CASE ~x4.redirecting
      <4>1. x4.logins = {} /\ x7 = Tab!Nowhere /\ x4.tokens.rt /\ x4.revokes = 0
        BY <1>1, <3>3 DEF TabInv, Memory
      <4>2. x4'.revokes = 1 /\ x7'.to # "hosted"
        BY <1>1, <1>3, <4>1 DEF Tab!Nowhere
      <4> QED
        BY <1>3, <4>1, <4>2
    <3> QED
      BY <3>1, <3>2, <3>3
  <2> QED
    BY <2>1, <2>2 DEF OutFits
<1> QED
  BY <1>6, <1>7 DEF TabInv

LEMMA TabRevoked ==
  ASSUME TabInv, Tab!Revoked
  PROVE  TabInv'
<1>1. /\ x4.revokes > 0 /\ x4' = [x4 EXCEPT !.revokes = @ - 1] /\ x7' = Tab!Logout
      /\ \/ x8' = FALSE /\ x9' = x9
         \/ x9' = [Tab!Fail(x9) EXCEPT !.lost = TRUE] /\ x8' = x8
      /\ x1' = x1 /\ x2' = x2 /\ x3' = x3 /\ x5' = x5 /\ x6' = x6
  BY DEF Tab!Revoked
<1>2. x4 \in TabMem /\ x9 \in TabPast /\ x8 \in BOOLEAN
  BY DEF TabInv, TabTyped
<1>3. x4.revokes \in Nat /\ x4.revokes - 1 \in Nat /\ \A n \in Nat : [x4 EXCEPT !.revokes = n] \in TabMem
  BY <1>1, <1>2 DEF TabMem
<1>4. /\ x4' \in TabMem /\ x4'.redirecting = x4.redirecting /\ x4'.logins = x4.logins
      /\ x4'.shared = x4.shared /\ x4'.tokens = x4.tokens
  BY <1>1, <1>2, <1>3 DEF TabMem
<1>5. x9.out /\ x4.redirecting
  BY <1>1, <1>3 DEF TabInv, WayFits, Memory
<1>6. /\ x9' \in TabPast /\ x9'.own = x9.own /\ x9'.out = x9.out /\ x9'.crossed = x9.crossed
      /\ x9'.midway = x9.midway /\ (~x8' \/ x9'.lost) /\ x8' \in BOOLEAN
  <2>0. x9.fails + 1 \in Nat
    BY <1>2 DEF TabPast
  <2>1. \A n \in Nat, b \in BOOLEAN : [x9 EXCEPT !.fails = n, !.lost = b] \in TabPast
    BY <1>2 DEF TabPast
  <2>2. CASE x8' = FALSE /\ x9' = x9
    BY <1>2, <2>2
  <2>3. CASE x9' = [Tab!Fail(x9) EXCEPT !.lost = TRUE] /\ x8' = x8
    <3>1. x9' = [x9 EXCEPT !.fails = @ + 1, !.lost = TRUE]
      BY <2>3 DEF Tab!Fail
    <3>2. x9' \in TabPast
      BY <2>0, <2>1, <3>1
    <3> QED
      BY <1>2, <2>3, <3>1, <3>2 DEF TabPast
  <2> QED
    BY <1>1, <2>2, <2>3
<1>7. x7' \in TabGoing /\ x7'.to = "logout" /\ x1 = "page"
  BY <1>1 DEF TabInv, TabGone, Tab!Logout, TabGoing, Tab!Loaded
<1>8. TabTyped' /\ TabGone' /\ Own' /\ Memory' /\ WayFits'
  BY <1>1, <1>4, <1>5, <1>6, <1>7 DEF TabInv, TabTyped, TabGone, Own, Memory, WayFits
<1>9. OutFits'
  BY <1>1, <1>4, <1>5, <1>6, <1>7 DEF TabInv, OutFits
<1> QED
  BY <1>8, <1>9 DEF TabInv

LEMMA TabStep == TabInv /\ [Tab!Next]_(Tab!vars) => TabInv'
<1> SUFFICES ASSUME TabInv, [Tab!Next]_(Tab!vars) PROVE TabInv'
  OBVIOUS
<1>1. CASE UNCHANGED Tab!vars
  BY <1>1 DEF Tab!vars, TabInv, TabTyped, TabGone, Memory, WayFits, OutFits, Own, CallsLeave
<1>2. CASE Tab!Next
  BY <1>2, TabBegins, TabSent, TabLeaves, TabReturns, TabExchange, TabRunsOut, TabTimer, TabAsks, TabAnswered, TabFails,
     TabAnswer, TabSignsOut, TabRevoked DEF Tab!Next
<1> QED
  BY <1>1, <1>2

LEMMA TabSafe == TabInv => Tab!SignInFits /\ Tab!TokenKept /\ Tab!SignedOut
<1> SUFFICES ASSUME TabInv PROVE Tab!SignInFits /\ Tab!TokenKept /\ Tab!SignedOut
  OBVIOUS
<1>1. Tab!SignInFits
  BY DEF TabInv, TabTyped, TabGoing, TabPast, TabGone, WayFits, OutFits, Own, Tab!SignInFits
<1>2. Tab!TokenKept
  <2>1. x5 = {} \/ x5 = {1}
    BY DEF TabInv, TabTyped
  <2>2. Cardinality({}) = 0 /\ Cardinality({1}) = 1
    BY FS_EmptySet, FS_Singleton
  <2>3. Cardinality(x5) <= 1
    BY <2>1, <2>2
  <2>4. \A c \in x6 : c.sent /\ c.stale => c.leaving
    BY DEF TabInv, TabTyped, CallsLeave
  <2> QED
    BY <2>3, <2>4 DEF Tab!TokenKept, Tab!Cardinality, Cardinality
<1>3. Tab!SignedOut
  BY DEF TabInv, TabTyped, TabMem, TabTokens, TabGoing, TabPast, TabGone, WayFits, OutFits, Tab!SignedOut, Tab!Loaded, Tab!None
<1> QED
  BY <1>1, <1>2, <1>3

--------------------------------------------------------------------------------
(***************************************************************************)
(* That the recovery's code is returned only with its release on record,   *)
(* one event to a release that did not fail, and that what was listed      *)
(* stays listed, for any number of status reads, registers and unlocks at  *)
(* once.  (CodeRelease: slot is x1, held x2, poll x3, events x4, faults    *)
(* x5, shown x6, rec x7, spent x8, route x9, kept x10.)  Whoever is at the *)
(* audit or at the record holds the mark, so only one is; the events that  *)
(* are more than the failures are the holder's own, or the record's.  A    *)
(* register that is counted as kept is in the list of every register still *)
(* to be recorded: it was there before that one read.                      *)
(***************************************************************************)
CONSTANTS Pair, ReleaseRounds, ReleaseFaults                   \* register requests; tries of an append, releases that fail

ASSUME ReleaseAssumption == Pair \cap Two = {} /\ ReleaseRounds \in Nat /\ ReleaseFaults \in Nat

Release == INSTANCE CodeRelease WITH
               Polls <- Two, Registers <- Pair, Unlocks <- Two, Rounds <- ReleaseRounds, MaxFaults <- ReleaseFaults,
               slot <- x1, held <- x2, poll <- x3, events <- x4, faults <- x5, shown <- x6,
               rec <- x7, spent <- x8, route <- x9, kept <- x10

ReleasePoll  == [at : {"idle", "refresh", "take", "audit", "record", "look"}, ids : SUBSET Pair]
ReleaseRec   == [state : {"available", "registered", "replaced"}, registers : SUBSET Pair, unlocks : SUBSET Two]
ReleaseRoute == [at : {"idle", "queued", "over"}, try : Int, ids : SUBSET (Pair \cup Two)]

\* The one event that no failure accounts for.
ReleaseOwn == x1.released \/ \E p \in Two : x3[p].at = "record"

ReleaseInv ==
  /\ x1 \in [releasing : {"no", "fresh", "stale"}, released : BOOLEAN]
  /\ x3 \in [Two -> ReleasePoll] /\ x4 \in Nat /\ x5 \in Nat
  /\ \A p \in Two : x3[p].at \in {"audit", "record"} => x2 = {p}
  /\ x2 # {} => x1.releasing = "fresh" /\ x1.released = FALSE
  /\ x6 => x1.released = TRUE
  /\ x4 <= x5 + 1 /\ (ReleaseOwn => x4 >= 1) /\ (~ReleaseOwn => x4 <= x5)

ListsInv ==
  /\ x7 \in ReleaseRec /\ x9 \in [Pair \cup Two -> ReleaseRoute]
  /\ x10 \subseteq x7.registers \cup x7.unlocks
  /\ \A n \in Pair : x9[n].ids \subseteq Pair /\ (x9[n].at = "queued" => x10 \subseteq x9[n].ids \cup x7.unlocks)
  /\ x7.state = "replaced" => x10 = {}

LEMMA ReleaseInit == Release!Init => ReleaseInv /\ ListsInv
<1> SUFFICES ASSUME Release!Init PROVE ReleaseInv /\ ListsInv
  OBVIOUS
<1>1. ReleaseInv
  <2>1. x3 \in [Two -> ReleasePoll] /\ \A p \in Two : x3[p].at = "idle"
    BY DEF Release!Init, Release!Idle, ReleasePoll
  <2>2. x1 = [releasing |-> "no", released |-> FALSE] /\ x2 = {} /\ x4 = 0 /\ x5 = 0 /\ x6 = FALSE
    BY DEF Release!Init
  <2> QED
    BY <2>1, <2>2 DEF ReleaseInv, ReleaseOwn
<1>2. ListsInv
  BY DEF Release!Init, Release!New, Release!Routes, ListsInv, ReleaseRec, ReleaseRoute
<1> QED
  BY <1>1, <1>2

\* A poll moves on; the others stay where they are.
LEMMA ReleaseMoves ==
  ASSUME ReleaseInv, NEW p \in Two, NEW pc \in {"idle", "take", "audit", "record", "look"}, Release!GoTo(p, pc)
  PROVE  /\ x3' \in [Two -> ReleasePoll] /\ x3'[p].at = pc
         /\ \A q \in Two \ {p} : x3'[q] = x3[q]
<1>1. x3' = [x3 EXCEPT ![p] = [Release!Idle EXCEPT !.at = pc]] /\ x3 \in [Two -> ReleasePoll]
  BY DEF Release!GoTo, ReleaseInv
<1>2. [Release!Idle EXCEPT !.at = pc] \in ReleasePoll /\ [Release!Idle EXCEPT !.at = pc].at = pc
  BY DEF Release!Idle, ReleasePoll
<1> QED
  BY <1>1, <1>2

LEMMA ReleaseStep == ReleaseInv /\ ListsInv /\ [Release!Next]_(Release!vars) => ReleaseInv'
<1> SUFFICES ASSUME ReleaseInv, ListsInv, [Release!Next]_(Release!vars) PROVE ReleaseInv'
  OBVIOUS
<1> USE DEF ReleaseInv
<1>1. CASE UNCHANGED <<x1, x2, x3, x4, x5, x6>>
  BY <1>1 DEF ReleaseOwn
<1>2. ASSUME NEW p \in Two, Release!Get(p) PROVE ReleaseInv'
  <2>1. x3[p].at = "idle" /\ x3' = [x3 EXCEPT ![p] = [at |-> "refresh", ids |-> x7.registers]] /\ UNCHANGED <<x1, x2, x4, x5, x6>>
    BY <1>2 DEF Release!Get, Release!At
  <2>2. [at |-> "refresh", ids |-> x7.registers] \in ReleasePoll
    BY DEF ListsInv, ReleaseRec, ReleasePoll
  <2>3. x3' \in [Two -> ReleasePoll] /\ x3'[p].at = "refresh" /\ \A q \in Two \ {p} : x3'[q] = x3[q]
    BY <2>1, <2>2
  <2> QED
    BY <2>1, <2>3 DEF ReleaseOwn
<1>3. ASSUME NEW p \in Two, Release!Refresh(p) PROVE ReleaseInv'
  <2>1. PICK pc \in {"idle", "take"} : Release!GoTo(p, pc)
    BY <1>3 DEF Release!Refresh
  <2>2. x3[p].at = "refresh" /\ UNCHANGED <<x1, x2, x4, x5>> /\ (x6' => x6 \/ x1.released)
    BY <1>3 DEF Release!Refresh, Release!At
  <2>3. x3' \in [Two -> ReleasePoll] /\ x3'[p].at = pc /\ \A q \in Two \ {p} : x3'[q] = x3[q]
    BY <2>1, ReleaseMoves
  <2> QED
    BY <2>2, <2>3 DEF ReleaseOwn
<1>4. ASSUME NEW p \in Two, Release!Take(p) PROVE ReleaseInv'
  <2>1. x3[p].at = "take" /\ UNCHANGED <<x4, x5, x6>>
    BY <1>4 DEF Release!Take, Release!At
  <2>2. CASE Release!Takeable
    <3>1. x1' = [x1 EXCEPT !.releasing = "fresh"] /\ x2' = {p} /\ Release!GoTo(p, "audit")
      BY <1>4, <2>2 DEF Release!Take
    <3>2. x3' \in [Two -> ReleasePoll] /\ x3'[p].at = "audit" /\ \A q \in Two \ {p} : x3'[q] = x3[q]
      BY <3>1, ReleaseMoves
    <3>3. x2 = {} /\ x1.released = FALSE
      BY <2>2 DEF Release!Takeable
    <3>4. \A q \in Two : x3[q].at \notin {"audit", "record"}
      BY <3>3
    <3> QED
      BY <2>1, <3>1, <3>2, <3>3, <3>4 DEF ReleaseOwn
  <2>3. CASE ~Release!Takeable
    <3>1. Release!GoTo(p, "look") /\ UNCHANGED <<x1, x2>>
      BY <1>4, <2>3 DEF Release!Take
    <3>2. x3' \in [Two -> ReleasePoll] /\ x3'[p].at = "look" /\ \A q \in Two \ {p} : x3'[q] = x3[q]
      BY <3>1, ReleaseMoves
    <3> QED
      BY <2>1, <3>1, <3>2 DEF ReleaseOwn
  <2> QED
    BY <2>2, <2>3
<1>5. ASSUME NEW p \in Two, Release!Audit(p) PROVE ReleaseInv'
  <2>1. x3[p].at = "audit" /\ x4' = x4 + 1 /\ Release!GoTo(p, "record") /\ UNCHANGED <<x1, x2, x5, x6>>
    BY <1>5 DEF Release!Audit, Release!At
  <2>2. x3' \in [Two -> ReleasePoll] /\ x3'[p].at = "record" /\ \A q \in Two \ {p} : x3'[q] = x3[q]
    BY <2>1, ReleaseMoves
  <2>3. x2 = {p} /\ x1.released = FALSE /\ \A q \in Two \ {p} : x3[q].at \notin {"audit", "record"}
    BY <2>1
  <2>4. ~ReleaseOwn /\ ReleaseOwn'
    BY <2>1, <2>2, <2>3 DEF ReleaseOwn
  <2> QED
    BY <2>1, <2>2, <2>3, <2>4
<1>6. ASSUME NEW p \in Two, Release!Record(p) PROVE ReleaseInv'
  <2>1. x3[p].at = "record" /\ x1' = [x1 EXCEPT !.released = TRUE] /\ x6' = TRUE /\ x2' = x2 \ {p} /\ Release!GoTo(p, "idle") /\ UNCHANGED <<x4, x5>>
    BY <1>6 DEF Release!Record, Release!At
  <2>2. x3' \in [Two -> ReleasePoll] /\ x3'[p].at = "idle" /\ \A q \in Two \ {p} : x3'[q] = x3[q]
    BY <2>1, ReleaseMoves
  <2>3. x2' = {} /\ \A q \in Two \ {p} : x3[q].at \notin {"audit", "record"}
    BY <2>1
  <2>4. ReleaseOwn /\ ReleaseOwn'
    BY <2>1 DEF ReleaseOwn
  <2> QED
    BY <2>1, <2>2, <2>3, <2>4
<1>7. ASSUME NEW p \in Two, Release!Look(p) PROVE ReleaseInv'
  <2>1. x3[p].at = "look" /\ (x6' => x6 \/ x1.released) /\ Release!GoTo(p, "idle") /\ UNCHANGED <<x1, x2, x4, x5>>
    BY <1>7 DEF Release!Look, Release!LookReleased, Release!At
  <2>2. x3' \in [Two -> ReleasePoll] /\ x3'[p].at = "idle" /\ \A q \in Two \ {p} : x3'[q] = x3[q]
    BY <2>1, ReleaseMoves
  <2> QED
    BY <2>1, <2>2 DEF ReleaseOwn
<1>8. ASSUME NEW p \in Two, Release!Fails(p) PROVE ReleaseInv'
  <2>1. x3[p].at \in {"audit", "record"} /\ x5' = x5 + 1 /\ x2' = x2 \ {p} /\ Release!GoTo(p, "idle") /\ UNCHANGED <<x1, x4, x6>>
    BY <1>8 DEF Release!Fails
  <2>2. x3' \in [Two -> ReleasePoll] /\ x3'[p].at = "idle" /\ \A q \in Two \ {p} : x3'[q] = x3[q]
    BY <2>1, ReleaseMoves
  <2>3. x2 = {p} /\ x1.released = FALSE /\ x2' = {} /\ \A q \in Two \ {p} : x3[q].at \notin {"audit", "record"}
    BY <2>1
  <2>4. ~ReleaseOwn'
    BY <2>1, <2>2, <2>3 DEF ReleaseOwn
  <2> QED
    BY <2>1, <2>2, <2>3, <2>4
<1>9. CASE Release!MarkGoesStale
  BY <1>9 DEF Release!MarkGoesStale, ReleaseOwn
<1>10. Release!ListsNext => UNCHANGED <<x1, x2, x3, x4, x5, x6>>
  BY DEF Release!ListsNext, Release!RegisterRoute, Release!EnclaveConfirms, Release!recordRegisterId, Release!UnlockRoute,
     Release!appendUnlockId, Release!RouteStops, Release!Replaced, Release!release
<1>11. UNCHANGED Release!vars => UNCHANGED <<x1, x2, x3, x4, x5, x6>>
  BY DEF Release!vars
<1> QED
  BY <1>1, <1>2, <1>3, <1>4, <1>5, <1>6, <1>7, <1>8, <1>9, <1>10, <1>11 DEF Release!Next, Release!ReleaseNext

LEMMA ListsStep == ListsInv /\ [Release!Next]_(Release!vars) => ListsInv'
<1> SUFFICES ASSUME ListsInv, [Release!Next]_(Release!vars) PROVE ListsInv'
  OBVIOUS
<1> USE DEF ListsInv
<1>1. CASE UNCHANGED <<x7, x9, x10>>
  BY <1>1
<1>2. ASSUME NEW p \in Two, Release!Refresh(p) PROVE ListsInv'
  <2>1. x7' \in {x7, [x7 EXCEPT !.state = "registered"]} /\ (x7' # x7 => x7.state = "available") /\ UNCHANGED <<x9, x10>>
    BY <1>2 DEF Release!Refresh
  <2>2. x7' \in ReleaseRec /\ x7'.registers = x7.registers /\ x7'.unlocks = x7.unlocks
        /\ (x7'.state = "replaced" => x7.state = "replaced")
    BY <2>1 DEF ReleaseRec
  <2> QED
    BY <2>1, <2>2
<1>3. ASSUME NEW n \in Pair \cup Two, Release!RegisterRoute(n) \/ Release!UnlockRoute(n) PROVE ListsInv'
  <2>1. PICK ids \in {x7.registers, x7.unlocks} :
           /\ x9' = [x9 EXCEPT ![n] = [at |-> "queued", try |-> 1, ids |-> ids]] /\ UNCHANGED <<x7, x10>>
           /\ n \in Pair => ids = x7.registers
    BY <1>3, ReleaseAssumption DEF Release!RegisterRoute, Release!UnlockRoute
  <2>2. [at |-> "queued", try |-> 1, ids |-> ids] \in ReleaseRoute
    BY <2>1 DEF ReleaseRec, ReleaseRoute
  <2>3. x9' \in [Pair \cup Two -> ReleaseRoute] /\ x9'[n].ids = ids /\ \A m \in (Pair \cup Two) \ {n} : x9'[m] = x9[m]
    BY <2>1, <2>2
  <2>4. \A m \in Pair : m # n => x9'[m] = x9[m]
    BY <2>3
  <2>5. n \in Pair => ids \subseteq Pair /\ x10 \subseteq ids \cup x7.unlocks
    BY <2>1 DEF ReleaseRec
  <2>6. \A m \in Pair : x9'[m].ids \subseteq Pair /\ (x9'[m].at = "queued" => x10 \subseteq x9'[m].ids \cup x7.unlocks)
    <3> SUFFICES ASSUME NEW m \in Pair
                 PROVE  x9'[m].ids \subseteq Pair /\ (x9'[m].at = "queued" => x10 \subseteq x9'[m].ids \cup x7.unlocks)
      OBVIOUS
    <3>1. CASE m = n
      BY <2>3, <2>5, <3>1
    <3>2. CASE m # n
      BY <2>4, <3>2
    <3> QED
      BY <3>1, <3>2
  <2> QED
    BY <2>1, <2>3, <2>6
<1>4. ASSUME NEW n \in Pair, Release!recordRegisterId(n) PROVE ListsInv'
  <2>1. x9[n].at = "queued" /\ x9' = [x9 EXCEPT ![n] = Release!Over]
    BY <1>4 DEF Release!recordRegisterId
  <2>2. Release!Over \in ReleaseRoute /\ Release!Over.at = "over" /\ Release!Over.ids = {}
    BY DEF Release!Over, Release!New, ReleaseRoute
  <2>3. x9' \in [Pair \cup Two -> ReleaseRoute] /\ x9'[n].at = "over" /\ x9'[n].ids = {} /\ \A m \in (Pair \cup Two) \ {n} : x9'[m] = x9[m]
    BY <2>1, <2>2
  <2>4. CASE x7.state = "replaced"
    BY <1>4, <2>3, <2>4 DEF Release!recordRegisterId
  <2>5. CASE x7.state # "replaced"
    <3>1. /\ x7' = [x7 EXCEPT !.registers = x9[n].ids \cup {n}]
          /\ x10' = x10 \cup {m \in {n} : \A k \in Pair \ {n} : x9[k].at # "queued"}
      BY <1>4, <2>5 DEF Release!recordRegisterId, Release!RegisterIds
    <3>2. x7' \in ReleaseRec /\ x7'.registers = x9[n].ids \cup {n} /\ x7'.unlocks = x7.unlocks /\ x7'.state = x7.state
      BY <3>1, <2>1 DEF ReleaseRec, ReleaseRoute
    <3>3. \A k \in Pair : x9'[k].at = "queued" => k # n /\ x9[k].at = "queued" /\ x9'[k].ids = x9[k].ids
      BY <2>3
    <3>4. \A k \in Pair : x9'[k].ids \subseteq Pair
      BY <2>3
    <3> QED
      BY <2>1, <2>3, <2>5, <3>1, <3>2, <3>3, <3>4
  <2> QED
    BY <2>4, <2>5
<1>5. ASSUME NEW n \in Two, Release!appendUnlockId(n) PROVE ListsInv'
  <2> DEFINE on == x7.state # "replaced" /\ x7.unlocks = x9[n].ids
  <2>1. PICK r \in {Release!Over, [x9[n] EXCEPT !.try = x9[n].try + 1, !.ids = x7.unlocks]} : x9' = [x9 EXCEPT ![n] = r]
    BY <1>5 DEF Release!appendUnlockId
  <2>2. r \in ReleaseRoute
    <3>1. Release!Over \in ReleaseRoute
      BY DEF Release!Over, Release!New, ReleaseRoute
    <3>2. x9[n] \in ReleaseRoute /\ x9[n].try + 1 \in Int /\ x7.unlocks \subseteq Pair \cup Two
      BY DEF ReleaseRoute, ReleaseRec
    <3>3. [x9[n] EXCEPT !.try = x9[n].try + 1, !.ids = x7.unlocks] \in ReleaseRoute
      BY <3>2 DEF ReleaseRoute
    <3> QED
      BY <2>1, <3>1, <3>3
  <2>3. n \notin Pair
    BY ReleaseAssumption
  <2>4. x9' \in [Pair \cup Two -> ReleaseRoute] /\ \A m \in Pair : x9'[m] = x9[m]
    BY <2>1, <2>2, <2>3
  <2>5. CASE on
    <3>1. x7' = [x7 EXCEPT !.unlocks = x7.unlocks \cup {n}] /\ x10' = x10 \cup {n}
      BY <1>5, <2>5 DEF Release!appendUnlockId, Release!AsRead
    <3>2. x7' \in ReleaseRec /\ x7'.unlocks = x7.unlocks \cup {n} /\ x7'.registers = x7.registers /\ x7'.state = x7.state
      BY <3>1 DEF ReleaseRec
    <3> QED
      BY <2>4, <2>5, <3>1, <3>2
  <2>6. CASE ~on
    <3>1. UNCHANGED <<x7, x10>>
      BY <1>5, <2>6 DEF Release!appendUnlockId, Release!AsRead
    <3> QED
      BY <2>4, <3>1
  <2> QED
    BY <2>5, <2>6
<1>6. ASSUME NEW n \in Pair \cup Two, Release!RouteStops(n) PROVE ListsInv'
  <2>1. x9' = [x9 EXCEPT ![n] = Release!Over] /\ UNCHANGED <<x7, x10>>
    BY <1>6 DEF Release!RouteStops
  <2>2. Release!Over \in ReleaseRoute /\ Release!Over.at = "over" /\ Release!Over.ids = {}
    BY DEF Release!Over, Release!New, ReleaseRoute
  <2>3. x9' \in [Pair \cup Two -> ReleaseRoute] /\ x9'[n].at = "over" /\ x9'[n].ids = {} /\ \A m \in (Pair \cup Two) \ {n} : x9'[m] = x9[m]
    BY <2>1, <2>2
  <2> QED
    BY <2>1, <2>3
<1>7. CASE Release!Replaced
  <2>1. x7' = [state |-> "replaced", registers |-> {}, unlocks |-> {}] /\ x10' = {} /\ x9' = x9
    BY <1>7 DEF Release!Replaced
  <2>2. x7' \in ReleaseRec
    BY <2>1 DEF ReleaseRec
  <2> QED
    BY <2>1, <2>2
<1>8. ASSUME NEW n, Release!EnclaveConfirms(n) PROVE UNCHANGED <<x7, x9, x10>>
  BY <1>8 DEF Release!EnclaveConfirms
<1>9. ASSUME NEW p \in Two, Release!Get(p) \/ Release!Take(p) \/ Release!Audit(p) \/ Release!Record(p) \/ Release!Look(p) \/ Release!Fails(p)
      PROVE  UNCHANGED <<x7, x9, x10>>
  BY <1>9 DEF Release!Get, Release!Take, Release!Audit, Release!Record, Release!Look, Release!Fails, Release!lists
<1>10. Release!MarkGoesStale \/ UNCHANGED Release!vars => UNCHANGED <<x7, x9, x10>>
  BY DEF Release!MarkGoesStale, Release!lists, Release!vars
<1>11. \A n : Release!recordRegisterId(n) => n \in Pair
  BY DEF Release!recordRegisterId
<1>12. \A n : Release!appendUnlockId(n) => n \in Two
  BY DEF Release!appendUnlockId
<1>13. CASE Release!ReleaseNext
  BY <1>1, <1>2, <1>9, <1>10, <1>13 DEF Release!ReleaseNext
<1>14. CASE Release!ListsNext
  BY <1>1, <1>3, <1>4, <1>5, <1>6, <1>7, <1>8, <1>11, <1>12, <1>14 DEF Release!ListsNext, Release!Routes
<1> QED
  BY <1>1, <1>10, <1>13, <1>14 DEF Release!Next

LEMMA ReleaseSafe == ReleaseInv /\ ListsInv => Release!ShownIsOnRecord /\ Release!ListsKept
<1>1. ReleaseInv => Release!ShownIsOnRecord
  BY DEF ReleaseInv, ReleaseOwn, Release!ShownIsOnRecord
<1>2. ListsInv => Release!ListsKept
  BY DEF ListsInv, Release!ListsKept
<1> QED
  BY <1>1, <1>2
================================================================================
