-------------------------------- MODULE Enrolment --------------------------------
(***************************************************************************)
(* Setup codes and enrolment of one member's phones: issuing, reading and  *)
(* revoking a code, redeeming it by its QR secret or typed, and the vault  *)
(* an enrolment targets (lambda/member/vault.ts, shared/enroll-code.ts).   *)
(* The issuance, the member's pointer and the vault row are separate rows, *)
(* and no write covers two of them.                                        *)
(***************************************************************************)
EXTENDS Naturals, FiniteSets, TLAPS

CONSTANTS Tabs, Phones,   \* browser tabs of the member; phones that redeem
          Codes, Vaults,  \* bounds: the issuances and the vault ids minted, 1..n each
          TypedCeiling    \* typed guesses an issuance takes (800 in the code)

VARIABLES
  code,     \* the issuance rows
  pointer,  \* the member's pointer row: enroll_live and current_vault_id
  row,      \* the vault rows
  tab,      \* POST and DELETE /api/vault/enroll-code: where each is
  phone,    \* POST /api/vault/enroll/redeem: where each is
  ends      \* history: how often each code was spent, told revoked, and compared with a guess

vars == <<code, pointer, row, tab, phone, ends>>

NoTab   == [at |-> "idle", code |-> 0, old |-> 0]
NoPhone == [at |-> "idle", code |-> 0, via |-> "qr", right |-> TRUE, attempt |-> 0, vault |-> 0, old |-> 0]

TypeOK ==
  /\ code \in [1..Codes -> [state : {"none", "live", "used", "revoked"}, expired : BOOLEAN,
                            attempts : 0..TypedCeiling, blocked : BOOLEAN]]
  /\ pointer \in [live : 0..Codes, vault : 0..Vaults]
  /\ row \in [1..Vaults -> [state : {"none", "minted", "enrolling", "enrolled", "deleted"}, pending : Phones \cup {"none"}]]
  /\ tab \in [Tabs -> [at : {"idle", "read", "point", "retire", "revoke"}, code : 0..Codes, old : 0..Codes]]
  /\ phone \in [Phones -> [at : {"idle", "count", "spend", "block", "vault", "move", "put", "bind"},
                           code : 0..Codes, via : {"qr", "typed"}, right : BOOLEAN,
                           attempt : 0..TypedCeiling, vault : 0..Vaults, old : 0..Vaults]]
  /\ ends \in [1..Codes -> [spent : Nat, revoked : Nat, compared : Nat]]
  /\ \A v \in 1..Vaults : row[v].pending # "none" => row[v].state \in {"enrolling", "enrolled", "deleted"}

Init ==
  /\ code = [c \in 1..Codes |-> [state |-> "none", expired |-> FALSE, attempts |-> 0, blocked |-> FALSE]]
  /\ pointer = [live |-> 0, vault |-> 0]
  /\ row = [v \in 1..Vaults |-> [state |-> "none", pending |-> "none"]]
  /\ tab = [t \in Tabs |-> NoTab] /\ phone = [p \in Phones |-> NoPhone]
  /\ ends = [c \in 1..Codes |-> [spent |-> 0, revoked |-> 0, compared |-> 0]]

Live(c)    == code[c].state = "live"
InTime(c)  == Live(c) /\ ~code[c].expired
usable(c)  == InTime(c) /\ pointer.live = c

--------------------------------------------------------------------------------
(* The member's browser: POST issues a code, points at it, and revokes the *)
(* one the pointer named before.                                           *)

Issue(t) ==
  /\ tab[t].at = "idle"
  /\ \E c \in 1..Codes :
       /\ code[c].state = "none" /\ \A d \in 1..(c - 1) : code[d].state # "none"
       /\ code' = [code EXCEPT ![c].state = "live"]
       /\ tab' = [tab EXCEPT ![t] = [at |-> "read", code |-> c, old |-> 0]]
  /\ UNCHANGED <<pointer, row, phone, ends>>

ReadPrevious(t) ==
  /\ tab[t].at = "read"
  /\ tab' = [tab EXCEPT ![t].at = "point", ![t].old = pointer.live]
  /\ UNCHANGED <<code, pointer, row, phone, ends>>

PointAtNew(t) ==
  /\ tab[t].at = "point"
  /\ pointer' = [pointer EXCEPT !.live = tab[t].code]
  /\ tab' = [tab EXCEPT ![t] = IF tab[t].old = 0 THEN NoTab ELSE [@ EXCEPT !.at = "retire"]]
  /\ UNCHANGED <<code, row, phone, ends>>

\* DELETE: of the code the pointer names, if it is live.
ReadToRevoke(t) ==
  /\ tab[t].at = "idle" /\ pointer.live # 0 /\ InTime(pointer.live)
  /\ tab' = [tab EXCEPT ![t] = [at |-> "revoke", code |-> 0, old |-> pointer.live]]
  /\ UNCHANGED <<code, pointer, row, phone, ends>>

RevocableEver(c) == code[c].state # "none"   \* mutated form: whatever its state
Revocable(c)     == Live(c)

revokeIssuance(t) ==
  /\ tab[t].at \in {"retire", "revoke"}
  /\ LET c == tab[t].old IN
       IF Revocable(c)
       THEN /\ code' = [code EXCEPT ![c].state = "revoked"]
            /\ ends' = [ends EXCEPT ![c].revoked = @ + 1]
       ELSE UNCHANGED <<code, ends>>
  /\ tab' = [tab EXCEPT ![t] = NoTab]
  /\ UNCHANGED <<pointer, row, phone>>

--------------------------------------------------------------------------------
(* A phone redeems: by the QR secret, or by a typed guess that is counted  *)
(* before it is compared.                                                  *)

redeemQr(p) ==
  /\ phone[p].at = "idle"
  /\ \E c \in 1..Codes : /\ usable(c)
                         /\ phone' = [phone EXCEPT ![p] = [NoPhone EXCEPT !.at = "spend", !.code = c]]
  /\ UNCHANGED <<code, pointer, row, tab, ends>>

redeemTyped(p) ==
  /\ phone[p].at = "idle" /\ pointer.live # 0
  /\ LET c == pointer.live IN
       /\ usable(c) /\ ~code[c].blocked
       /\ \E right \in BOOLEAN :
            phone' = [phone EXCEPT ![p] = [NoPhone EXCEPT !.at = "count", !.code = c, !.via = "typed", !.right = right]]
  /\ UNCHANGED <<code, pointer, row, tab, ends>>

CountableAny(c) == ~code[c].blocked /\ code[c].attempts <= TypedCeiling   \* mutated form: one too many
Countable(c)    == ~code[c].blocked /\ code[c].attempts < TypedCeiling

\* The compare follows the count: a guess refused here is compared with a dummy.
countTyped(p) ==
  /\ phone[p].at = "count"
  /\ LET c == phone[p].code
         n == IF code[c].attempts < TypedCeiling THEN code[c].attempts + 1 ELSE TypedCeiling IN
       IF Countable(c)
       THEN /\ code' = [code EXCEPT ![c].attempts = n]
            /\ ends' = [ends EXCEPT ![c].compared = @ + 1]
            /\ phone' = [phone EXCEPT ![p] =
                 IF @.right THEN [@ EXCEPT !.at = "spend", !.attempt = n]
                 ELSE IF n >= TypedCeiling THEN [@ EXCEPT !.at = "block"] ELSE NoPhone]
       ELSE phone' = [phone EXCEPT ![p] = NoPhone] /\ UNCHANGED <<code, ends>>
  /\ UNCHANGED <<pointer, row, tab>>

SpendableRead(c, via) == TRUE   \* mutated form: on the strength of the read
Spendable(c, via)     == InTime(c) /\ (via = "typed" => ~code[c].blocked)

spend(p) ==
  /\ phone[p].at = "spend"
  /\ LET c == phone[p].code IN
       IF Spendable(c, phone[p].via)
       THEN /\ code' = [code EXCEPT ![c].state = "used"]
            /\ ends' = [ends EXCEPT ![c].spent = @ + 1]
            /\ phone' = [phone EXCEPT ![p].at = "vault"]
       ELSE /\ phone' = [phone EXCEPT ![p] = IF @.via = "typed" /\ @.attempt >= TypedCeiling
                                             THEN [@ EXCEPT !.at = "block"] ELSE NoPhone]
            /\ UNCHANGED <<code, ends>>
  /\ UNCHANGED <<pointer, row, tab>>

blockTyped(p) ==
  /\ phone[p].at = "block"
  /\ code' = [code EXCEPT ![phone[p].code].blocked = TRUE]
  /\ phone' = [phone EXCEPT ![p] = NoPhone]
  /\ UNCHANGED <<pointer, row, tab, ends>>

--------------------------------------------------------------------------------
(* completeRedeem(): the member's vault, or a new one, and the pending key.*)

Exists(v) == v # 0 /\ row[v].state \in {"enrolling", "enrolled"}

\* currentVault(): the pointer, then the row it names.
currentVault(p) ==
  /\ phone[p].at = "vault"
  /\ \/ /\ Exists(pointer.vault)
        /\ phone' = [phone EXCEPT ![p].at = "bind", ![p].vault = pointer.vault]
        /\ UNCHANGED row
     \/ /\ ~Exists(pointer.vault)
        /\ \E v \in 1..Vaults :
             /\ row[v].state = "none" /\ \A w \in 1..(v - 1) : row[w].state # "none"
             /\ phone' = [phone EXCEPT ![p].at = "move", ![p].vault = v, ![p].old = pointer.vault]
             /\ row' = [row EXCEPT ![v].state = "minted"]   \* the id only: no row yet
  /\ UNCHANGED <<code, pointer, tab, ends>>

UnmovedAny(p) == TRUE   \* mutated form: the pointer is moved unconditionally
Unmoved(p)    == pointer.vault = phone[p].old

movePointer(p) ==
  /\ phone[p].at = "move"
  /\ IF Unmoved(p)
     THEN /\ pointer' = [pointer EXCEPT !.vault = phone[p].vault]
          /\ phone' = [phone EXCEPT ![p].at = "put"]
     ELSE phone' = [phone EXCEPT ![p] = NoPhone] /\ UNCHANGED pointer   \* 409 conflict
  /\ UNCHANGED <<code, row, tab, ends>>

putRow(p) ==
  /\ phone[p].at = "put"
  /\ row' = [row EXCEPT ![phone[p].vault].state = "enrolling"]
  /\ phone' = [phone EXCEPT ![p].at = "bind"]
  /\ UNCHANGED <<code, pointer, tab, ends>>

bindPendingKey(p) ==
  /\ phone[p].at = "bind"
  /\ row' = [row EXCEPT ![phone[p].vault].pending = p]
  /\ phone' = [phone EXCEPT ![p] = NoPhone]
  /\ UNCHANGED <<code, pointer, tab, ends>>

\* An invocation may end between two of its writes.
Dies ==
  /\ \/ \E p \in Phones : phone[p].at # "idle" /\ phone' = [phone EXCEPT ![p] = NoPhone] /\ UNCHANGED tab
     \/ \E t \in Tabs : tab[t].at # "idle" /\ tab' = [tab EXCEPT ![t] = NoTab] /\ UNCHANGED phone
  /\ UNCHANGED <<code, pointer, row, ends>>

--------------------------------------------------------------------------------
Expire ==
  /\ \E c \in 1..Codes : Live(c) /\ ~code[c].expired /\ code' = [code EXCEPT ![c].expired = TRUE]
  /\ UNCHANGED <<pointer, row, tab, phone, ends>>

\* POST /api/vault/enroll, signed with the pending key of the member's current vault; its host.
Enrol ==
  /\ \E v \in 1..Vaults :
       /\ pointer.vault = v /\ row[v].state = "enrolling" /\ row[v].pending # "none"
       /\ row' = [row EXCEPT ![v].state = "enrolled", ![v].pending = "none"]
  /\ UNCHANGED <<code, pointer, tab, phone, ends>>

VaultDeleted ==
  /\ \E v \in 1..Vaults : Exists(v) /\ row' = [row EXCEPT ![v].state = "deleted"]
  /\ UNCHANGED <<code, pointer, tab, phone, ends>>

TabNext(t)   == Issue(t) \/ ReadPrevious(t) \/ PointAtNew(t) \/ ReadToRevoke(t) \/ revokeIssuance(t)
PhoneNext(p) ==
  \/ redeemQr(p) \/ redeemTyped(p) \/ countTyped(p) \/ spend(p) \/ blockTyped(p)
  \/ currentVault(p) \/ movePointer(p) \/ putRow(p) \/ bindPendingKey(p)
Next == (\E t \in Tabs : TabNext(t)) \/ (\E p \in Phones : PhoneNext(p)) \/ Dies \/ Expire \/ Enrol \/ VaultDeleted

Spec == Init /\ [][Next]_vars

--------------------------------------------------------------------------------
(* A setup code has one end: one phone spent it, by either of its secrets, *)
(* or one call revoked it and answered so; never two phones, and never a   *)
(* phone after the member was told it is revoked (spend, revokeIssuance).  *)
OneEnd == \A c \in 1..Codes : ends[c].spent + ends[c].revoked <= 1

(* However many phones type at once, an issuance's code is compared with   *)
(* at most TypedCeiling guesses: each is counted before it is compared.    *)
GuessesBounded == \A c \in 1..Codes : ends[c].compared <= TypedCeiling

(* Two redeems at once agree on the vault: the one that lost the pointer   *)
(* writes no vault row (vaultForEnrollment: 409 conflict).                 *)
OneRowPerMove == \A p \in Phones : phone[p].at = "put" =>
  \A q \in Phones \ {p} : phone[q].at = "put" => phone[q].old # phone[p].old

--------------------------------------------------------------------------------
(***************************************************************************)
(* That a setup code has one end, is guessed at no more often than its     *)
(* ceiling, and that two redeems never both write the vault row, for any   *)
(* number of tabs, phones, codes and vaults.  A guess is counted on the    *)
(* issuance's row before it is compared; a code is live until its one end; *)
(* and the pointer never comes back to a vault it has left, because it is  *)
(* only moved to a vault id just made.                                     *)
(***************************************************************************)

SetupConstants ==
  Codes \in Nat /\ Vaults \in Nat /\ TypedCeiling \in Nat /\ "none" \notin Phones

CodeRows  == [state : {"none", "live", "used", "revoked"}, expired : BOOLEAN,
              attempts : 0..TypedCeiling, blocked : BOOLEAN]
VaultRows == [state : {"none", "minted", "enrolling", "enrolled", "deleted"}, pending : Phones \cup {"none"}]
TabAt     == [at : {"idle", "read", "point", "retire", "revoke"}, code : 0..Codes, old : 0..Codes]
PhoneAt   == [at : {"idle", "count", "spend", "block", "vault", "move", "put", "bind"},
              code : 0..Codes, via : {"qr", "typed"}, right : BOOLEAN,
              attempt : 0..TypedCeiling, vault : 0..Vaults, old : 0..Vaults]
EndsOf    == [spent : Nat, revoked : Nat, compared : Nat]

Written == {"enrolling", "enrolled", "deleted"}

\* What a call works on, it has.
CallsFit ==
  /\ \A t \in Tabs : tab[t].at \in {"retire", "revoke"} => tab[t].old \in 1..Codes
  /\ \A p \in Phones : /\ phone[p].at # "idle" => phone[p].code \in 1..Codes
                       /\ phone[p].at \in {"move", "put", "bind"} => phone[p].vault \in 1..Vaults
                       /\ phone[p].at = "bind" => row[phone[p].vault].state \in Written

\* Every guess that was compared is on the issuance's row, and so is a code's end.
Counted == \A c \in 1..Codes : ends[c].compared = code[c].attempts
Ended == \A c \in 1..Codes :
  /\ ends[c].spent + ends[c].revoked <= 1
  /\ code[c].state \in {"none", "live"} => ends[c].spent = 0 /\ ends[c].revoked = 0

\* The pointer names no vault that is yet to be moved to, nor one it was moved from.
Moving(p) == phone[p].at \in {"move", "put"}
Forward ==
  /\ pointer.vault # 0 => row[pointer.vault].state # "none"
  /\ \A p \in Phones : Moving(p) =>
       /\ row[phone[p].vault].state # "none" /\ phone[p].vault # phone[p].old
       /\ phone[p].old # 0 => row[phone[p].old].state # "none"
       /\ phone[p].at = "move" => phone[p].vault # pointer.vault
       /\ phone[p].at = "put"  => phone[p].old # pointer.vault
  /\ \A p, q \in Phones : Moving(p) /\ Moving(q) /\ p # q =>
       /\ phone[p].vault # phone[q].vault
       /\ phone[p].at = "put" => phone[q].vault # phone[p].old \/ phone[q].at = "put"
       /\ phone[p].at = "put" /\ phone[q].at = "put" => phone[p].old # phone[q].old

SetupInv == TypeOK /\ CallsFit /\ Counted /\ Ended /\ Forward

--------------------------------------------------------------------------------
LEMMA TypedFacts ==
  ASSUME TypeOK
  PROVE  /\ code \in [1..Codes -> CodeRows] /\ row \in [1..Vaults -> VaultRows]
         /\ pointer \in [live : 0..Codes, vault : 0..Vaults]
         /\ tab \in [Tabs -> TabAt] /\ phone \in [Phones -> PhoneAt]
         /\ ends \in [1..Codes -> EndsOf]
         /\ \A v \in 1..Vaults : row[v].pending # "none" => row[v].state \in Written
BY DEF TypeOK, CodeRows, VaultRows, TabAt, PhoneAt, EndsOf, Written

LEMMA TypedFrom ==
  ASSUME code \in [1..Codes -> CodeRows], row \in [1..Vaults -> VaultRows],
         pointer \in [live : 0..Codes, vault : 0..Vaults],
         tab \in [Tabs -> TabAt], phone \in [Phones -> PhoneAt], ends \in [1..Codes -> EndsOf],
         \A v \in 1..Vaults : row[v].pending # "none" => row[v].state \in Written
  PROVE  TypeOK
BY DEF TypeOK, CodeRows, VaultRows, TabAt, PhoneAt, EndsOf, Written

\* A count in the record of a code's ends goes up by one.
LEMMA SpentCounted ==
  ASSUME ends \in [1..Codes -> EndsOf], NEW c \in 1..Codes, ends' = [ends EXCEPT ![c].spent = @ + 1]
  PROVE  /\ ends' \in [1..Codes -> EndsOf] /\ ends'[c].spent = ends[c].spent + 1
         /\ ends'[c].revoked = ends[c].revoked /\ ends'[c].compared = ends[c].compared
         /\ \A d \in 1..Codes \ {c} : ends'[d] = ends[d]
<1>1. ends[c].spent + 1 \in Nat
  BY DEF EndsOf
<1> QED
  BY <1>1 DEF EndsOf

LEMMA RevokedCounted ==
  ASSUME ends \in [1..Codes -> EndsOf], NEW c \in 1..Codes, ends' = [ends EXCEPT ![c].revoked = @ + 1]
  PROVE  /\ ends' \in [1..Codes -> EndsOf] /\ ends'[c].revoked = ends[c].revoked + 1
         /\ ends'[c].spent = ends[c].spent /\ ends'[c].compared = ends[c].compared
         /\ \A d \in 1..Codes \ {c} : ends'[d] = ends[d]
<1>1. ends[c].revoked + 1 \in Nat
  BY DEF EndsOf
<1> QED
  BY <1>1 DEF EndsOf

LEMMA ComparedCounted ==
  ASSUME ends \in [1..Codes -> EndsOf], NEW c \in 1..Codes, ends' = [ends EXCEPT ![c].compared = @ + 1]
  PROVE  /\ ends' \in [1..Codes -> EndsOf] /\ ends'[c].compared = ends[c].compared + 1
         /\ ends'[c].spent = ends[c].spent /\ ends'[c].revoked = ends[c].revoked
         /\ \A d \in 1..Codes \ {c} : ends'[d] = ends[d]
<1>1. ends[c].compared + 1 \in Nat
  BY DEF EndsOf
<1> QED
  BY <1>1 DEF EndsOf

LEMMA SetupInit == SetupConstants /\ Init => SetupInv
<1> SUFFICES ASSUME SetupConstants, Init PROVE SetupInv
  OBVIOUS
<1>1. TypeOK
  BY DEF SetupConstants, Init, TypeOK, NoTab, NoPhone
<1>2. /\ \A t \in Tabs : tab[t].at = "idle"
      /\ \A p \in Phones : phone[p].at = "idle"
      /\ \A c \in 1..Codes : /\ ends[c].compared = 0 /\ ends[c].spent = 0 /\ ends[c].revoked = 0
                             /\ code[c].attempts = 0
      /\ pointer.vault = 0
  BY DEF Init, NoTab, NoPhone
<1> QED
  BY <1>1, <1>2 DEF SetupInv, CallsFit, Counted, Ended, Forward, Moving

--------------------------------------------------------------------------------
(* What a step of one phone must keep: the others are where they were, and *)
(* this one is no longer, or not yet, moving the pointer.                  *)
LEMMA Elsewhere ==
  ASSUME SetupInv, TypeOK', NEW p \in Phones, \A q \in Phones \ {p} : phone'[q] = phone[q],
         phone'[p].at \notin {"move", "put", "bind"},
         phone'[p].at # "idle" => phone'[p].code \in 1..Codes,
         UNCHANGED <<pointer, row, tab>>
  PROVE  CallsFit' /\ Forward'
<1>1. \A q \in Phones : Moving(q)' => q # p /\ Moving(q) /\ phone'[q] = phone[q]
  BY DEF Moving
<1>2. CallsFit'
  <2>1. \A q \in Phones \ {p} :
              /\ phone'[q].at # "idle" => phone'[q].code \in 1..Codes
              /\ phone'[q].at \in {"move", "put", "bind"} => phone'[q].vault \in 1..Vaults
              /\ phone'[q].at = "bind" => row[phone'[q].vault].state \in Written
    BY DEF SetupInv, CallsFit
  <2> QED
    BY <2>1 DEF SetupInv, CallsFit
<1>3. Forward'
  BY <1>1 DEF SetupInv, Forward, Moving
<1> QED
  BY <1>2, <1>3

\* The same for a step of a tab, or of none.
LEMMA PhonesStay ==
  ASSUME SetupInv, UNCHANGED <<row, phone>>, pointer'.vault = pointer.vault,
         \A t \in Tabs : tab'[t].at \in {"retire", "revoke"} => tab'[t].old \in 1..Codes
  PROVE  CallsFit' /\ Forward'
BY DEF SetupInv, CallsFit, Forward, Moving

LEMMA TabSteps ==
  ASSUME SetupConstants, SetupInv, NEW t \in Tabs, TabNext(t)
  PROVE  SetupInv'
<1>1. /\ code \in [1..Codes -> CodeRows] /\ row \in [1..Vaults -> VaultRows]
      /\ pointer \in [live : 0..Codes, vault : 0..Vaults]
      /\ tab \in [Tabs -> TabAt] /\ phone \in [Phones -> PhoneAt]
      /\ ends \in [1..Codes -> EndsOf] /\ Codes \in Nat /\ NoTab \in TabAt
      /\ \A v \in 1..Vaults : row[v].pending # "none" => row[v].state \in Written
      /\ UNCHANGED <<row, phone>>
  BY TypedFacts DEF SetupConstants, SetupInv, TabAt, NoTab, TabNext, Issue, ReadPrevious, PointAtNew,
                    ReadToRevoke, revokeIssuance
<1>2. /\ \E r \in TabAt : /\ tab' = [tab EXCEPT ![t] = r]
                          /\ r.at \in {"retire", "revoke"} => r.old \in 1..Codes
      /\ pointer' \in [live : 0..Codes, vault : 0..Vaults] /\ pointer'.vault = pointer.vault
  <2>1. CASE Issue(t)
    <3>1. PICK c \in 1..Codes : tab' = [tab EXCEPT ![t] = [at |-> "read", code |-> c, old |-> 0]]
      BY <2>1 DEF Issue
    <3> DEFINE r == [at |-> "read", code |-> c, old |-> 0]
    <3>2. r \in TabAt /\ r.at = "read"
      BY <1>1 DEF TabAt
    <3>3. tab' = [tab EXCEPT ![t] = r] /\ UNCHANGED pointer
      BY <2>1, <3>1 DEF Issue
    <3> HIDE DEF r
    <3> QED
      BY <1>1, <3>2, <3>3
  <2>2. CASE ReadPrevious(t)
    <3>1. [tab[t] EXCEPT !.at = "point", !.old = pointer.live] \in TabAt
      BY <1>1 DEF TabAt
    <3>2. tab' = [tab EXCEPT ![t] = [tab[t] EXCEPT !.at = "point", !.old = pointer.live]]
      BY <1>1, <2>2 DEF ReadPrevious
    <3> QED
      BY <1>1, <2>2, <3>1, <3>2 DEF ReadPrevious, TabAt
  <2>3. CASE PointAtNew(t)
    <3>1. pointer' \in [live : 0..Codes, vault : 0..Vaults] /\ pointer'.vault = pointer.vault
      BY <1>1, <2>3 DEF PointAtNew, TabAt
    <3>2. CASE tab[t].old = 0
      BY <1>1, <2>3, <3>1, <3>2 DEF PointAtNew, NoTab
    <3>3. CASE tab[t].old # 0
      <4> DEFINE r == [tab[t] EXCEPT !.at = "retire"]
      <4>1. r \in TabAt /\ r.old \in 1..Codes
        BY <1>1, <3>3 DEF TabAt
      <4>2. tab' = [tab EXCEPT ![t] = r]
        BY <1>1, <2>3, <3>3 DEF PointAtNew
      <4> HIDE DEF r
      <4> QED
        BY <3>1, <4>1, <4>2
    <3> QED
      BY <3>2, <3>3
  <2>4. CASE ReadToRevoke(t)
    <3> DEFINE r == [at |-> "revoke", code |-> 0, old |-> pointer.live]
    <3>1. r \in TabAt /\ r.old \in 1..Codes
      BY <1>1, <2>4 DEF TabAt, ReadToRevoke
    <3>2. tab' = [tab EXCEPT ![t] = r] /\ UNCHANGED pointer
      BY <2>4 DEF ReadToRevoke
    <3> HIDE DEF r
    <3> QED
      BY <1>1, <3>1, <3>2
  <2>5. CASE revokeIssuance(t)
    BY <1>1, <2>5 DEF revokeIssuance, NoTab
  <2> QED
    BY <2>1, <2>2, <2>3, <2>4, <2>5 DEF TabNext
<1>3. /\ code' \in [1..Codes -> CodeRows] /\ ends' \in [1..Codes -> EndsOf]
      /\ Counted' /\ Ended'
  <2>1. CASE Issue(t)
    <3>1. PICK c \in 1..Codes : code[c].state = "none" /\ code' = [code EXCEPT ![c].state = "live"]
      BY <2>1 DEF Issue
    <3>2. code' \in [1..Codes -> CodeRows] /\ UNCHANGED ends
      BY <1>1, <2>1, <3>1 DEF CodeRows, Issue
    <3>3. \A d \in 1..Codes : code'[d].attempts = code[d].attempts
                              /\ (code'[d].state \in {"none", "live"} => code[d].state \in {"none", "live"})
      BY <1>1, <3>1 DEF CodeRows
    <3> QED
      BY <1>1, <3>2, <3>3 DEF SetupInv, Counted, Ended
  <2>2. CASE revokeIssuance(t) /\ Revocable(tab[t].old)
    <3> DEFINE c == tab[t].old
    <3>1. /\ c \in 1..Codes /\ code[c].state = "live"
          /\ code' = [code EXCEPT ![c].state = "revoked"]
          /\ ends' = [ends EXCEPT ![c].revoked = @ + 1]
      BY <2>2 DEF revokeIssuance, Revocable, Live, SetupInv, CallsFit
    <3> HIDE DEF c
    <3>2. ends[c].revoked = 0 /\ ends[c].spent = 0
      BY <3>1 DEF SetupInv, Ended
    <3>3. /\ code' \in [1..Codes -> CodeRows]
          /\ \A d \in 1..Codes : code'[d].attempts = code[d].attempts
          /\ \A d \in 1..Codes \ {c} : code'[d] = code[d] /\ ends'[d] = ends[d]
          /\ code'[c].state = "revoked"
      BY <1>1, <3>1 DEF CodeRows
    <3>4. ends' \in [1..Codes -> EndsOf] /\ ends'[c].revoked = 1 /\ ends'[c].spent = 0
          /\ ends'[c].compared = ends[c].compared
      <4>1. ends' \in [1..Codes -> EndsOf] /\ ends'[c].revoked = ends[c].revoked + 1
            /\ ends'[c].spent = ends[c].spent /\ ends'[c].compared = ends[c].compared
        BY <1>1, <3>1, RevokedCounted
      <4> QED
        BY <3>2, <4>1
    <3> QED
      BY <1>1, <3>1, <3>3, <3>4 DEF SetupInv, Counted, Ended
  <2>3. CASE UNCHANGED <<code, ends>>
    BY <1>1, <2>3 DEF SetupInv, Counted, Ended
  <2> QED
    BY <2>1, <2>2, <2>3 DEF TabNext, ReadPrevious, PointAtNew, ReadToRevoke, revokeIssuance
<1>4. tab' \in [Tabs -> TabAt] /\ \A u \in Tabs : tab'[u].at \in {"retire", "revoke"} => tab'[u].old \in 1..Codes
  BY <1>1, <1>2 DEF SetupInv, CallsFit
<1>5. TypeOK'
  BY <1>1, <1>2, <1>3, <1>4 DEF TypeOK, CodeRows, VaultRows, TabAt, PhoneAt, EndsOf, Written
<1> QED
  BY <1>1, <1>2, <1>3, <1>4, <1>5, PhonesStay DEF SetupInv

--------------------------------------------------------------------------------
(* A phone reads and guesses: its code's row and ends move, no vault does. *)

\* A phone's own state is replaced by r; what is said of the codes is shown apart.
LEMMA PhoneGuesses ==
  ASSUME SetupConstants, SetupInv, NEW p \in Phones, NEW r \in PhoneAt,
         phone' = [phone EXCEPT ![p] = r], r.at \in {"idle", "count", "spend", "block", "vault"},
         r.at # "idle" => r.code \in 1..Codes,
         code' \in [1..Codes -> CodeRows], ends' \in [1..Codes -> EndsOf], Counted', Ended',
         UNCHANGED <<pointer, row, tab>>
  PROVE  SetupInv'
<1>1. /\ row \in [1..Vaults -> VaultRows] /\ pointer \in [live : 0..Codes, vault : 0..Vaults]
      /\ tab \in [Tabs -> TabAt] /\ phone \in [Phones -> PhoneAt]
      /\ \A v \in 1..Vaults : row[v].pending # "none" => row[v].state \in Written
  BY TypedFacts DEF SetupInv
<1>2. phone' \in [Phones -> PhoneAt] /\ phone'[p] = r /\ \A q \in Phones \ {p} : phone'[q] = phone[q]
  BY <1>1
<1>3. TypeOK'
  BY <1>1, <1>2 DEF TypeOK, CodeRows, VaultRows, TabAt, PhoneAt, EndsOf, Written
<1> QED
  BY <1>2, <1>3, Elsewhere DEF SetupInv

LEMMA IdlePhone == SetupConstants => NoPhone \in PhoneAt /\ NoPhone.at = "idle"
BY DEF SetupConstants, NoPhone, PhoneAt

LEMMA Redeems ==
  ASSUME SetupConstants, SetupInv, NEW p \in Phones, redeemQr(p) \/ redeemTyped(p)
  PROVE  SetupInv'
<1>1. /\ code \in [1..Codes -> CodeRows] /\ ends \in [1..Codes -> EndsOf]
      /\ UNCHANGED <<code, ends, pointer, row, tab>>
  BY TypedFacts DEF SetupInv, redeemQr, redeemTyped
<1>2. Counted' /\ Ended'
  BY <1>1 DEF SetupInv, Counted, Ended
<1>3. \E r \in PhoneAt : /\ phone' = [phone EXCEPT ![p] = r]
                         /\ r.at \in {"spend", "count"} /\ r.code \in 1..Codes
  <2>1. CASE redeemQr(p)
    <3>1. PICK c \in 1..Codes : phone' = [phone EXCEPT ![p] = [NoPhone EXCEPT !.at = "spend", !.code = c]]
      BY <2>1 DEF redeemQr
    <3> DEFINE r == [NoPhone EXCEPT !.at = "spend", !.code = c]
    <3>2. phone' = [phone EXCEPT ![p] = r]
      BY <3>1
    <3>3. c \in 1..Codes
      BY <3>1
    <3>4. r \in PhoneAt /\ r.at = "spend" /\ r.code = c
      <4>1. c \in 0..Codes
        BY <3>3 DEF SetupConstants
      <4> QED
        BY <4>1, IdlePhone DEF PhoneAt
    <3> HIDE DEF r
    <3> QED
      BY <3>2, <3>3, <3>4
  <2>2. CASE redeemTyped(p)
    <3> DEFINE c == pointer.live
    <3>1. c \in 1..Codes
      <4>1. c \in 0..Codes /\ c # 0
        BY <2>2, TypedFacts DEF redeemTyped, SetupInv
      <4> QED
        BY <4>1 DEF SetupConstants
    <3>2. PICK right \in BOOLEAN : phone' = [phone EXCEPT ![p] =
            [NoPhone EXCEPT !.at = "count", !.code = c, !.via = "typed", !.right = right]]
      BY <2>2 DEF redeemTyped
    <3> HIDE DEF c
    <3> DEFINE r == [NoPhone EXCEPT !.at = "count", !.code = c, !.via = "typed", !.right = right]
    <3>3. right \in BOOLEAN
      BY <3>2
    <3>4. phone' = [phone EXCEPT ![p] = r]
      BY <3>2
    <3>5. r \in PhoneAt /\ r.at = "count" /\ r.code = c
      <4>1. c \in 0..Codes
        BY <3>1 DEF SetupConstants
      <4> QED
        BY <3>3, <4>1, IdlePhone DEF PhoneAt
    <3> HIDE DEF r
    <3> QED
      BY <3>1, <3>4, <3>5
  <2> QED
    BY <2>1, <2>2
<1> QED
  BY <1>1, <1>2, <1>3, PhoneGuesses

LEMMA Guesses ==
  ASSUME SetupConstants, SetupInv, NEW p \in Phones, countTyped(p)
  PROVE  SetupInv'
<1> DEFINE c == phone[p].code
           n == code[c].attempts + 1
<1>1. /\ code \in [1..Codes -> CodeRows] /\ ends \in [1..Codes -> EndsOf]
      /\ phone \in [Phones -> PhoneAt] /\ UNCHANGED <<pointer, row, tab>>
      /\ c \in 1..Codes /\ TypedCeiling \in Nat
  BY TypedFacts DEF SetupConstants, SetupInv, CallsFit, countTyped
<1>2. CASE ~Countable(c)
  <2>1. phone' = [phone EXCEPT ![p] = NoPhone] /\ UNCHANGED <<code, ends>>
    BY <1>2 DEF countTyped
  <2>2. Counted' /\ Ended'
    BY <2>1 DEF SetupInv, Counted, Ended
  <2> QED
    BY <1>1, <2>1, <2>2, IdlePhone, PhoneGuesses
<1>3. CASE Countable(c)
  <2>1. n \in 0..TypedCeiling
    BY <1>1, <1>3 DEF Countable, CodeRows
  <2>2. /\ code' = [code EXCEPT ![c].attempts = n]
        /\ ends' = [ends EXCEPT ![c].compared = @ + 1]
    BY <1>3 DEF countTyped, Countable
  <2>3. \E r \in PhoneAt : /\ phone' = [phone EXCEPT ![p] = r] /\ r.at \in {"idle", "spend", "block"}
                           /\ r.at # "idle" => r.code \in 1..Codes
    <3> DEFINE spending == [phone[p] EXCEPT !.at = "spend", !.attempt = n]
               blocking == [phone[p] EXCEPT !.at = "block"]
    <3>1. phone' = [phone EXCEPT ![p] = IF @.right THEN spending
                                        ELSE IF n >= TypedCeiling THEN blocking ELSE NoPhone]
      BY <1>1, <1>3 DEF countTyped, Countable
    <3> HIDE DEF n
    <3>2. /\ spending \in PhoneAt /\ spending.at = "spend" /\ spending.code = c
          /\ blocking \in PhoneAt /\ blocking.at = "block" /\ blocking.code = c
      BY <1>1, <2>1 DEF PhoneAt
    <3>3. \/ phone' = [phone EXCEPT ![p] = spending] \/ phone' = [phone EXCEPT ![p] = blocking]
          \/ phone' = [phone EXCEPT ![p] = NoPhone]
      BY <1>1, <3>1
    <3> HIDE DEF spending, blocking, c
    <3> QED
      BY <1>1, <3>2, <3>3, IdlePhone
  <2>4. /\ code' \in [1..Codes -> CodeRows] /\ code'[c].attempts = n
        /\ code'[c].state = code[c].state
        /\ \A d \in 1..Codes \ {c} : code'[d] = code[d]
    <3> HIDE DEF n
    <3> QED
      BY <1>1, <2>1, <2>2 DEF CodeRows
  <2>5. /\ ends' \in [1..Codes -> EndsOf] /\ ends'[c].compared = ends[c].compared + 1
        /\ ends'[c].spent = ends[c].spent /\ ends'[c].revoked = ends[c].revoked
        /\ \A d \in 1..Codes \ {c} : ends'[d] = ends[d]
    <3> HIDE DEF c
    <3> QED
      BY <1>1, <2>2, ComparedCounted
  <2> HIDE DEF c
  <2>6. Counted' /\ Ended'
    BY <1>1, <2>4, <2>5 DEF SetupInv, Counted, Ended
  <2> QED
    BY <1>1, <2>3, <2>4, <2>5, <2>6, PhoneGuesses
<1> QED
  BY <1>2, <1>3

LEMMA Spends ==
  ASSUME SetupConstants, SetupInv, NEW p \in Phones, spend(p) \/ blockTyped(p)
  PROVE  SetupInv'
<1> DEFINE c == phone[p].code
<1>1. /\ code \in [1..Codes -> CodeRows] /\ ends \in [1..Codes -> EndsOf]
      /\ phone \in [Phones -> PhoneAt] /\ UNCHANGED <<pointer, row, tab>> /\ c \in 1..Codes
  BY TypedFacts DEF SetupInv, CallsFit, spend, blockTyped
<1>2. \E r \in PhoneAt : /\ phone' = [phone EXCEPT ![p] = r] /\ r.at \in {"idle", "block", "vault"}
                         /\ r.at # "idle" => r.code \in 1..Codes
  <2> DEFINE blocking == [phone[p] EXCEPT !.at = "block"]
             spent    == [phone[p] EXCEPT !.at = "vault"]
  <2>1. \/ phone' = [phone EXCEPT ![p] = spent] \/ phone' = [phone EXCEPT ![p] = blocking]
        \/ phone' = [phone EXCEPT ![p] = NoPhone]
    BY <1>1 DEF spend, blockTyped
  <2>2. /\ blocking \in PhoneAt /\ blocking.at = "block" /\ blocking.code = c
        /\ spent \in PhoneAt /\ spent.at = "vault" /\ spent.code = c
    BY <1>1 DEF PhoneAt
  <2> HIDE DEF blocking, spent, c
  <2> QED
    BY <1>1, <2>1, <2>2, IdlePhone
<1> HIDE DEF c
<1>3. /\ code' \in [1..Codes -> CodeRows] /\ ends' \in [1..Codes -> EndsOf] /\ Counted' /\ Ended'
  <2>1. CASE spend(p) /\ Spendable(c, phone[p].via)
    <3>1. /\ code[c].state = "live" /\ code' = [code EXCEPT ![c].state = "used"]
          /\ ends' = [ends EXCEPT ![c].spent = @ + 1]
      BY <2>1 DEF c, spend, Spendable, InTime, Live
    <3>2. ends[c].spent = 0 /\ ends[c].revoked = 0
      BY <1>1, <3>1 DEF SetupInv, Ended
    <3>3. /\ code' \in [1..Codes -> CodeRows] /\ code'[c].attempts = code[c].attempts
          /\ code'[c].state = "used" /\ \A d \in 1..Codes \ {c} : code'[d] = code[d]
      BY <1>1, <3>1 DEF CodeRows
    <3>4. /\ ends' \in [1..Codes -> EndsOf] /\ ends'[c].spent = ends[c].spent + 1
          /\ ends'[c].revoked = ends[c].revoked /\ ends'[c].compared = ends[c].compared
          /\ \A d \in 1..Codes \ {c} : ends'[d] = ends[d]
      BY <1>1, <3>1, SpentCounted
    <3> QED
      BY <1>1, <3>2, <3>3, <3>4 DEF SetupInv, Counted, Ended
  <2>2. CASE blockTyped(p)
    <3>1. code' = [code EXCEPT ![c].blocked = TRUE] /\ UNCHANGED ends
      BY <2>2 DEF c, blockTyped
    <3>2. /\ code' \in [1..Codes -> CodeRows]
          /\ \A d \in 1..Codes : code'[d].state = code[d].state /\ code'[d].attempts = code[d].attempts
      BY <1>1, <3>1 DEF CodeRows
    <3> QED
      BY <1>1, <3>1, <3>2 DEF SetupInv, Counted, Ended
  <2>3. CASE UNCHANGED <<code, ends>>
    BY <1>1, <2>3 DEF SetupInv, Counted, Ended
  <2> QED
    BY <2>1, <2>2, <2>3 DEF c, spend
<1> QED
  BY <1>1, <1>2, <1>3, PhoneGuesses

--------------------------------------------------------------------------------
(* A phone completes: the vault rows and the pointer move, no code does.   *)

\* What is left of a step that is of no code and no tab.
LEMMA VaultsMove ==
  ASSUME SetupInv, UNCHANGED <<code, tab, ends>>, phone' \in [Phones -> PhoneAt],
         row' \in [1..Vaults -> VaultRows], pointer' \in [live : 0..Codes, vault : 0..Vaults],
         \A v \in 1..Vaults : row'[v].pending # "none" => row'[v].state \in Written,
         \A q \in Phones : /\ phone'[q].at # "idle" => phone'[q].code \in 1..Codes
                           /\ phone'[q].at \in {"move", "put", "bind"} => phone'[q].vault \in 1..Vaults
                           /\ phone'[q].at = "bind" => row'[phone'[q].vault].state \in Written,
         Forward'
  PROVE  SetupInv'
<1>1. TypeOK'
  BY TypedFacts DEF SetupInv, TypeOK, CodeRows, VaultRows, TabAt, PhoneAt, EndsOf, Written
<1>2. Counted' /\ Ended'
  BY DEF SetupInv, Counted, Ended
<1>3. CallsFit'
  BY DEF SetupInv, CallsFit
<1> QED
  BY <1>1, <1>2, <1>3 DEF SetupInv

\* A row's state or its pending key is replaced by what may be there.
LEMMA RowSet ==
  ASSUME SetupInv, NEW v \in 1..Vaults, NEW r \in VaultRows, row' = [row EXCEPT ![v] = r],
         r.pending # "none" => r.state \in Written
  PROVE  /\ row' \in [1..Vaults -> VaultRows] /\ row'[v] = r
         /\ \A w \in 1..Vaults \ {v} : row'[w] = row[w]
         /\ \A w \in 1..Vaults : row'[w].pending # "none" => row'[w].state \in Written
BY TypedFacts DEF SetupInv

LEMMA Targets ==
  ASSUME SetupConstants, SetupInv, NEW p \in Phones, currentVault(p)
  PROVE  SetupInv'
<1>1. /\ row \in [1..Vaults -> VaultRows] /\ pointer \in [live : 0..Codes, vault : 0..Vaults]
      /\ phone \in [Phones -> PhoneAt] /\ UNCHANGED <<code, pointer, tab, ends>>
      /\ phone[p].at = "vault" /\ phone[p].code \in 1..Codes /\ Vaults \in Nat
  BY TypedFacts DEF SetupConstants, SetupInv, CallsFit, currentVault
<1>2. CASE Exists(pointer.vault) /\ phone' = [phone EXCEPT ![p].at = "bind", ![p].vault = pointer.vault]
           /\ UNCHANGED row
  <2> DEFINE r == [phone[p] EXCEPT !.at = "bind", !.vault = pointer.vault]
  <2>1. r \in PhoneAt /\ r.at = "bind" /\ r.code = phone[p].code /\ r.vault = pointer.vault
    BY <1>1 DEF PhoneAt
  <2>2. phone' = [phone EXCEPT ![p] = r]
    BY <1>1, <1>2
  <2> HIDE DEF r
  <2>3. phone' \in [Phones -> PhoneAt] /\ phone'[p] = r /\ \A q \in Phones \ {p} : phone'[q] = phone[q]
    BY <1>1, <2>1, <2>2
  <2>4. pointer.vault \in 1..Vaults /\ row[pointer.vault].state \in Written
    BY <1>1, <1>2 DEF Exists, Written
  <2>5. \A q \in Phones : /\ phone'[q].at # "idle" => phone'[q].code \in 1..Codes
                          /\ phone'[q].at \in {"move", "put", "bind"} => phone'[q].vault \in 1..Vaults
                          /\ phone'[q].at = "bind" => row'[phone'[q].vault].state \in Written
    BY <1>1, <1>2, <2>1, <2>3, <2>4 DEF SetupInv, CallsFit
  <2>6. Forward'
    <3>1. \A q \in Phones : Moving(q)' => q # p /\ Moving(q) /\ phone'[q] = phone[q]
      BY <2>1, <2>3 DEF Moving
    <3> QED
      BY <1>1, <1>2, <3>1 DEF SetupInv, Forward, Moving
  <2> QED
    BY <1>1, <1>2, <2>3, <2>5, <2>6, VaultsMove, TypedFacts DEF SetupInv
<1>3. ASSUME NEW v \in 1..Vaults, row[v].state = "none", ~Exists(pointer.vault),
             phone' = [phone EXCEPT ![p].at = "move", ![p].vault = v, ![p].old = pointer.vault],
             row' = [row EXCEPT ![v].state = "minted"]
      PROVE  SetupInv'
  <2> DEFINE r == [phone[p] EXCEPT !.at = "move", !.vault = v, !.old = pointer.vault]
             s == [row[v] EXCEPT !.state = "minted"]
  <2>1. /\ r \in PhoneAt /\ r.at = "move" /\ r.code = phone[p].code /\ r.vault = v
        /\ r.old = pointer.vault
    <3>1. phone[p] \in PhoneAt /\ v \in 0..Vaults /\ pointer.vault \in 0..Vaults
      BY <1>1, <1>3
    <3> QED
      BY <3>1 DEF PhoneAt
  <2>2. s \in VaultRows /\ s.state = "minted" /\ s.pending = "none"
    <3>1. row[v] \in VaultRows /\ row[v].pending = "none"
      BY <1>1, <1>3, TypedFacts DEF SetupInv, Written
    <3> QED
      BY <3>1 DEF VaultRows
  <2>3. phone' = [phone EXCEPT ![p] = r] /\ row' = [row EXCEPT ![v] = s]
    BY <1>1, <1>3
  <2> HIDE DEF r, s
  <2>4. phone' \in [Phones -> PhoneAt] /\ phone'[p] = r /\ \A q \in Phones \ {p} : phone'[q] = phone[q]
    BY <1>1, <2>1, <2>3
  <2>5. /\ row' \in [1..Vaults -> VaultRows] /\ row'[v] = s
        /\ \A w \in 1..Vaults \ {v} : row'[w] = row[w]
        /\ \A w \in 1..Vaults : row'[w].pending # "none" => row'[w].state \in Written
    BY <2>2, <2>3, RowSet
  <2>6. \A q \in Phones : /\ phone'[q].at # "idle" => phone'[q].code \in 1..Codes
                          /\ phone'[q].at \in {"move", "put", "bind"} => phone'[q].vault \in 1..Vaults
                          /\ phone'[q].at = "bind" => row'[phone'[q].vault].state \in Written
    BY <1>1, <1>3, <2>1, <2>4, <2>5 DEF SetupInv, CallsFit, Written
  <2>7. v # pointer.vault /\ pointer'.vault = pointer.vault
        /\ (pointer.vault # 0 => row[pointer.vault].state # "none")
    BY <1>1, <1>3 DEF SetupInv, Forward
  <2>8. \A w \in 1..Vaults : row[w].state # "none" => row'[w].state # "none"
    BY <2>2, <2>5
  <2>9. \A q \in Phones \ {p} : Moving(q) => phone[q].vault # v /\ phone[q].old # v
    BY <1>3 DEF SetupInv, Forward
  <2>10. \A q \in Phones : phone[q].vault \in 0..Vaults /\ phone[q].old \in 0..Vaults
    BY <1>1 DEF PhoneAt
  <2>11. \A q \in Phones : Moving(q) => phone[q].vault \in 1..Vaults
    BY DEF SetupInv, CallsFit, Moving
  <2>12. Forward'
    <3>1. pointer'.vault # 0 => row'[pointer'.vault].state # "none"
      BY <1>1, <2>7, <2>8
    <3>2. ASSUME NEW q \in Phones, Moving(q)'
          PROVE  /\ row'[phone'[q].vault].state # "none" /\ phone'[q].vault # phone'[q].old
                 /\ phone'[q].old # 0 => row'[phone'[q].old].state # "none"
                 /\ phone'[q].at = "move" => phone'[q].vault # pointer'.vault
                 /\ phone'[q].at = "put"  => phone'[q].old # pointer'.vault
      <4>1. CASE q = p
        BY <1>1, <2>1, <2>2, <2>4, <2>5, <2>7, <2>8, <4>1
      <4>2. CASE q # p
        <5>1. Moving(q) /\ phone'[q] = phone[q]
          BY <2>4, <3>2, <4>2 DEF Moving
        <5> QED
          BY <2>7, <2>8, <2>10, <2>11, <5>1 DEF SetupInv, Forward
      <4> QED
        BY <4>1, <4>2
    <3>3. ASSUME NEW a \in Phones, NEW b \in Phones, Moving(a)', Moving(b)', a # b
          PROVE  /\ phone'[a].vault # phone'[b].vault
                 /\ phone'[a].at = "put" => phone'[b].vault # phone'[a].old \/ phone'[b].at = "put"
                 /\ phone'[a].at = "put" /\ phone'[b].at = "put" => phone'[a].old # phone'[b].old
      <4>1. \A q \in {a, b} \ {p} : Moving(q) /\ phone'[q] = phone[q]
        BY <2>4, <3>3 DEF Moving
      <4>2. CASE a = p
        BY <2>1, <2>4, <2>9, <3>3, <4>1, <4>2
      <4>3. CASE b = p
        BY <2>1, <2>4, <2>9, <3>3, <4>1, <4>3
      <4>4. CASE a # p /\ b # p
        BY <3>3, <4>1, <4>4 DEF SetupInv, Forward
      <4> QED
        BY <4>2, <4>3, <4>4
    <3> QED
      BY <3>1, <3>2, <3>3 DEF Forward
  <2> QED
    BY <1>1, <2>4, <2>5, <2>6, <2>12, VaultsMove
<1> QED
  BY <1>2, <1>3 DEF currentVault

LEMMA Moves ==
  ASSUME SetupConstants, SetupInv, NEW p \in Phones, movePointer(p)
  PROVE  SetupInv'
<1>1. /\ row \in [1..Vaults -> VaultRows] /\ pointer \in [live : 0..Codes, vault : 0..Vaults]
      /\ phone \in [Phones -> PhoneAt] /\ UNCHANGED <<code, row, tab, ends>>
      /\ phone[p].at = "move" /\ phone[p].code \in 1..Codes /\ phone[p].vault \in 1..Vaults
      /\ \A v \in 1..Vaults : row[v].pending # "none" => row[v].state \in Written
  BY TypedFacts DEF SetupConstants, SetupInv, CallsFit, movePointer
<1>2. CASE ~Unmoved(p)
  <2>1. phone' = [phone EXCEPT ![p] = NoPhone] /\ UNCHANGED <<code, row, tab, ends, pointer>>
    BY <1>1, <1>2 DEF movePointer
  <2>2. NoPhone \in PhoneAt /\ NoPhone.at = "idle"
    BY IdlePhone
  <2>3. Counted' /\ Ended' /\ code' \in [1..Codes -> CodeRows] /\ ends' \in [1..Codes -> EndsOf]
    BY <2>1, TypedFacts DEF SetupInv, Counted, Ended
  <2> QED
    BY <2>1, <2>2, <2>3, PhoneGuesses
<1>3. CASE Unmoved(p)
  <2> DEFINE r == [phone[p] EXCEPT !.at = "put"]
  <2>1. /\ r \in PhoneAt /\ r.at = "put" /\ r.code = phone[p].code /\ r.vault = phone[p].vault
        /\ r.old = phone[p].old
    BY <1>1 DEF PhoneAt
  <2>2. /\ phone' = [phone EXCEPT ![p] = r] /\ pointer.vault = phone[p].old
        /\ pointer' = [pointer EXCEPT !.vault = phone[p].vault]
    BY <1>1, <1>3 DEF movePointer, Unmoved
  <2> HIDE DEF r
  <2>3. phone' \in [Phones -> PhoneAt] /\ phone'[p] = r /\ \A q \in Phones \ {p} : phone'[q] = phone[q]
    BY <1>1, <2>1, <2>2
  <2>4. pointer' \in [live : 0..Codes, vault : 0..Vaults] /\ pointer'.vault = phone[p].vault
    BY <1>1, <2>2
  <2>5. \A q \in Phones : /\ phone'[q].at # "idle" => phone'[q].code \in 1..Codes
                          /\ phone'[q].at \in {"move", "put", "bind"} => phone'[q].vault \in 1..Vaults
                          /\ phone'[q].at = "bind" => row'[phone'[q].vault].state \in Written
    BY <1>1, <2>1, <2>3 DEF SetupInv, CallsFit
  <2>6. \A q \in Phones : Moving(q)' => /\ Moving(q) /\ phone'[q].vault = phone[q].vault
                                        /\ phone'[q].old = phone[q].old
                                        /\ q # p => phone'[q] = phone[q]
    BY <1>1, <2>1, <2>3 DEF Moving
  <2>7. Forward'
    <3>1. Moving(p) /\ phone[p].vault # phone[p].old /\ row[phone[p].vault].state # "none"
      BY <1>1 DEF SetupInv, Forward, Moving
    <3>2. ASSUME NEW q \in Phones, Moving(q)'
          PROVE  /\ row'[phone'[q].vault].state # "none" /\ phone'[q].vault # phone'[q].old
                 /\ phone'[q].old # 0 => row'[phone'[q].old].state # "none"
                 /\ phone'[q].at = "move" => phone'[q].vault # pointer'.vault
                 /\ phone'[q].at = "put"  => phone'[q].old # pointer'.vault
      <4>1. CASE q = p
        BY <1>1, <2>1, <2>3, <2>4, <2>6, <3>1, <3>2, <4>1 DEF SetupInv, Forward
      <4>2. CASE q # p
        BY <1>1, <2>4, <2>6, <3>1, <3>2, <4>2 DEF SetupInv, Forward
      <4> QED
        BY <4>1, <4>2
    <3>3. ASSUME NEW a \in Phones, NEW b \in Phones, Moving(a)', Moving(b)', a # b
          PROVE  /\ phone'[a].vault # phone'[b].vault
                 /\ phone'[a].at = "put" => phone'[b].vault # phone'[a].old \/ phone'[b].at = "put"
                 /\ phone'[a].at = "put" /\ phone'[b].at = "put" => phone'[a].old # phone'[b].old
      <4>1. \A q \in {a, b} : /\ Moving(q) /\ phone'[q].vault = phone[q].vault /\ phone'[q].old = phone[q].old
                              /\ q # p => phone'[q] = phone[q]
        BY <2>6, <3>3
      <4>2. \A q \in {a, b} : /\ phone[q].at = "move" => phone[q].vault # pointer.vault
                              /\ phone[q].at = "put" => phone[q].old # pointer.vault
        BY <4>1 DEF SetupInv, Forward
      <4>3. CASE a = p
        BY <2>1, <2>2, <2>3, <3>3, <4>1, <4>2, <4>3 DEF SetupInv, Forward, Moving
      <4>4. CASE b = p
        BY <2>1, <2>2, <2>3, <3>3, <4>1, <4>2, <4>4 DEF SetupInv, Forward, Moving
      <4>5. CASE a # p /\ b # p
        BY <3>3, <4>1, <4>5 DEF SetupInv, Forward
      <4> QED
        BY <4>3, <4>4, <4>5
    <3> QED
      BY <1>1, <2>4, <3>1, <3>2, <3>3 DEF Forward
  <2> QED
    BY <1>1, <2>3, <2>4, <2>5, <2>7, VaultsMove
<1> QED
  BY <1>2, <1>3

LEMMA Writes ==
  ASSUME SetupConstants, SetupInv, NEW p \in Phones, putRow(p) \/ bindPendingKey(p)
  PROVE  SetupInv'
<1> DEFINE v == phone[p].vault
<1>1. /\ row \in [1..Vaults -> VaultRows] /\ pointer \in [live : 0..Codes, vault : 0..Vaults]
      /\ phone \in [Phones -> PhoneAt] /\ UNCHANGED <<code, pointer, tab, ends>>
      /\ phone[p].code \in 1..Codes /\ v \in 1..Vaults /\ "none" \notin Phones
  BY TypedFacts DEF SetupConstants, SetupInv, CallsFit, putRow, bindPendingKey
<1>2. PICK r \in PhoneAt : /\ phone' = [phone EXCEPT ![p] = r] /\ r.at \in {"bind", "idle"}
                           /\ r.at = "bind" => r.code = phone[p].code /\ r.vault = v
  <2>1. CASE putRow(p)
    <3> DEFINE r == [phone[p] EXCEPT !.at = "bind"]
    <3>1. r \in PhoneAt /\ r.at = "bind" /\ r.code = phone[p].code /\ r.vault = v
      BY <1>1 DEF PhoneAt
    <3>2. phone' = [phone EXCEPT ![p] = r]
      BY <1>1, <2>1 DEF putRow
    <3> HIDE DEF r
    <3> QED
      BY <3>1, <3>2
  <2>2. CASE bindPendingKey(p)
    BY <2>2, IdlePhone DEF bindPendingKey
  <2> QED
    BY <2>1, <2>2
<1>3. PICK s \in VaultRows : row' = [row EXCEPT ![v] = s] /\ s.state \in Written
  <2>1. row[v] \in VaultRows
    BY <1>1
  <2>2. CASE putRow(p)
    <3> DEFINE s == [row[v] EXCEPT !.state = "enrolling"]
    <3>1. s \in VaultRows /\ s.state \in Written
      BY <2>1 DEF VaultRows, Written
    <3>2. row' = [row EXCEPT ![v] = s]
      BY <1>1, <2>2 DEF putRow
    <3> HIDE DEF s
    <3> QED
      BY <3>1, <3>2
  <2>3. CASE bindPendingKey(p)
    <3> DEFINE s == [row[v] EXCEPT !.pending = p]
    <3>1. s \in VaultRows /\ s.state = row[v].state
      BY <2>1 DEF VaultRows
    <3>2. row' = [row EXCEPT ![v] = s] /\ row[v].state \in Written
      BY <1>1, <2>3 DEF bindPendingKey, SetupInv, CallsFit
    <3> HIDE DEF s
    <3> QED
      BY <3>1, <3>2
  <2> QED
    BY <2>2, <2>3
<1> HIDE DEF v
<1>4. phone' \in [Phones -> PhoneAt] /\ phone'[p] = r /\ \A q \in Phones \ {p} : phone'[q] = phone[q]
  BY <1>1, <1>2
<1>5. /\ row' \in [1..Vaults -> VaultRows] /\ row'[v] = s
      /\ \A w \in 1..Vaults \ {v} : row'[w] = row[w]
      /\ \A w \in 1..Vaults : row'[w].pending # "none" => row'[w].state \in Written
  BY <1>1, <1>3, RowSet
<1>6. /\ \A w \in 1..Vaults : row[w].state # "none" => row'[w].state # "none"
      /\ \A w \in 1..Vaults : row[w].state \in Written => row'[w].state \in Written
  BY <1>3, <1>5 DEF Written
<1>7. \A q \in Phones : /\ phone'[q].at # "idle" => phone'[q].code \in 1..Codes
                        /\ phone'[q].at \in {"move", "put", "bind"} => phone'[q].vault \in 1..Vaults
                        /\ phone'[q].at = "bind" => row'[phone'[q].vault].state \in Written
  BY <1>1, <1>2, <1>3, <1>4, <1>5, <1>6 DEF SetupInv, CallsFit
<1>8. \A q \in Phones : Moving(q)' => q # p /\ Moving(q) /\ phone'[q] = phone[q]
  BY <1>2, <1>4 DEF Moving
<1>9. pointer' \in [live : 0..Codes, vault : 0..Vaults] /\ pointer'.vault \in 0..Vaults
      /\ \A q \in Phones : phone[q].old \in 0..Vaults
  BY <1>1 DEF PhoneAt
<1>10. Forward'
  <2>1. \A q \in Phones : Moving(q)' => phone[q].vault \in 1..Vaults
    BY <1>8 DEF SetupInv, CallsFit, Moving
  <2>2. pointer'.vault # 0 => row'[pointer'.vault].state # "none"
    BY <1>1, <1>6, <1>9 DEF SetupInv, Forward
  <2>3. \A q \in Phones : Moving(q)' =>
          /\ row'[phone'[q].vault].state # "none" /\ phone'[q].vault # phone'[q].old
          /\ phone'[q].old # 0 => row'[phone'[q].old].state # "none"
          /\ phone'[q].at = "move" => phone'[q].vault # pointer'.vault
          /\ phone'[q].at = "put"  => phone'[q].old # pointer'.vault
    BY <1>1, <1>6, <1>8, <1>9, <2>1 DEF SetupInv, Forward
  <2>4. \A a, b \in Phones : Moving(a)' /\ Moving(b)' /\ a # b =>
          /\ phone'[a].vault # phone'[b].vault
          /\ phone'[a].at = "put" => phone'[b].vault # phone'[a].old \/ phone'[b].at = "put"
          /\ phone'[a].at = "put" /\ phone'[b].at = "put" => phone'[a].old # phone'[b].old
    BY <1>8 DEF SetupInv, Forward
  <2> QED
    BY <2>2, <2>3, <2>4 DEF Forward
<1> QED
  BY <1>1, <1>4, <1>5, <1>7, <1>9, <1>10, VaultsMove

--------------------------------------------------------------------------------
LEMMA DiesKeeps ==
  ASSUME SetupConstants, SetupInv, Dies
  PROVE  SetupInv'
<1>1. /\ tab \in [Tabs -> TabAt] /\ phone \in [Phones -> PhoneAt]
      /\ code' \in [1..Codes -> CodeRows] /\ ends' \in [1..Codes -> EndsOf]
      /\ Counted' /\ Ended' /\ UNCHANGED <<code, pointer, row, ends>>
  BY TypedFacts DEF SetupInv, Counted, Ended, Dies
<1>2. ASSUME NEW p \in Phones, phone' = [phone EXCEPT ![p] = NoPhone], UNCHANGED tab
      PROVE  SetupInv'
  <2>1. NoPhone \in PhoneAt /\ NoPhone.at = "idle"
    BY IdlePhone
  <2> QED
    BY <1>1, <1>2, <2>1, PhoneGuesses
<1>3. ASSUME NEW t \in Tabs, tab' = [tab EXCEPT ![t] = NoTab], UNCHANGED phone
      PROVE  SetupInv'
  <2>1. NoTab \in TabAt /\ NoTab.at = "idle"
    BY DEF SetupConstants, NoTab, TabAt
  <2>2. /\ tab' \in [Tabs -> TabAt]
        /\ \A u \in Tabs : tab'[u].at \in {"retire", "revoke"} => tab'[u].old \in 1..Codes
    BY <1>1, <1>3, <2>1 DEF SetupInv, CallsFit
  <2>3. TypeOK'
    BY <1>1, <1>3, <2>2, TypedFacts
       DEF SetupInv, TypeOK, CodeRows, VaultRows, TabAt, PhoneAt, EndsOf, Written
  <2> QED
    BY <1>1, <1>3, <2>2, <2>3, PhonesStay DEF SetupInv
<1> QED
  BY <1>1, <1>2, <1>3 DEF Dies

LEMMA ExpireKeeps ==
  ASSUME SetupInv, Expire
  PROVE  SetupInv'
<1>1. PICK c \in 1..Codes : code' = [code EXCEPT ![c].expired = TRUE]
  BY DEF Expire
<1>2. UNCHANGED <<pointer, row, tab, phone, ends>> /\ code \in [1..Codes -> CodeRows]
  BY TypedFacts DEF SetupInv, Expire
<1>3. /\ code' \in [1..Codes -> CodeRows]
      /\ \A d \in 1..Codes : code'[d].state = code[d].state /\ code'[d].attempts = code[d].attempts
  BY <1>1, <1>2 DEF CodeRows
<1>4. TypeOK'
  BY <1>2, <1>3, TypedFacts DEF SetupInv, TypeOK, CodeRows, VaultRows, TabAt, PhoneAt, EndsOf, Written
<1>5. Counted' /\ Ended'
  BY <1>2, <1>3 DEF SetupInv, Counted, Ended
<1>6. CallsFit' /\ Forward'
  BY <1>2, PhonesStay DEF SetupInv, CallsFit
<1> QED
  BY <1>4, <1>5, <1>6 DEF SetupInv

\* A row that is written stays so, whoever enrols it or deletes it.
LEMMA RowsKeep ==
  ASSUME SetupInv, Enrol \/ VaultDeleted
  PROVE  SetupInv'
<1>1. /\ row \in [1..Vaults -> VaultRows] /\ UNCHANGED <<code, pointer, tab, phone, ends>>
      /\ pointer \in [live : 0..Codes, vault : 0..Vaults] /\ phone \in [Phones -> PhoneAt]
      /\ \A w \in 1..Vaults : row[w].pending # "none" => row[w].state \in Written
  BY TypedFacts DEF SetupInv, Enrol, VaultDeleted
<1>2. PICK v \in 1..Vaults, s \in VaultRows : row' = [row EXCEPT ![v] = s] /\ s.state \in Written
  <2>1. CASE Enrol
    <3>1. PICK v \in 1..Vaults : row' = [row EXCEPT ![v].state = "enrolled", ![v].pending = "none"]
      BY <2>1 DEF Enrol
    <3> DEFINE s == [row[v] EXCEPT !.state = "enrolled", !.pending = "none"]
    <3>2. s \in VaultRows /\ s.state \in Written
      BY <1>1 DEF VaultRows, Written
    <3>3. row' = [row EXCEPT ![v] = s]
      BY <1>1, <3>1
    <3> HIDE DEF s
    <3> QED
      BY <3>2, <3>3
  <2>2. CASE VaultDeleted
    <3>1. PICK v \in 1..Vaults : row' = [row EXCEPT ![v].state = "deleted"]
      BY <2>2 DEF VaultDeleted
    <3> DEFINE s == [row[v] EXCEPT !.state = "deleted"]
    <3>2. s \in VaultRows /\ s.state \in Written
      BY <1>1 DEF VaultRows, Written
    <3>3. row' = [row EXCEPT ![v] = s]
      BY <1>1, <3>1
    <3> HIDE DEF s
    <3> QED
      BY <3>2, <3>3
  <2> QED
    BY <2>1, <2>2
<1>3. /\ row' \in [1..Vaults -> VaultRows] /\ row'[v] = s
      /\ \A w \in 1..Vaults \ {v} : row'[w] = row[w]
      /\ \A w \in 1..Vaults : row'[w].pending # "none" => row'[w].state \in Written
  BY <1>2, RowSet
<1>4. /\ \A w \in 1..Vaults : row[w].state # "none" => row'[w].state # "none"
      /\ \A w \in 1..Vaults : row[w].state \in Written => row'[w].state \in Written
  BY <1>2, <1>3 DEF Written
<1>5. \A q \in Phones : /\ phone'[q].at # "idle" => phone'[q].code \in 1..Codes
                        /\ phone'[q].at \in {"move", "put", "bind"} => phone'[q].vault \in 1..Vaults
                        /\ phone'[q].at = "bind" => row'[phone'[q].vault].state \in Written
  BY <1>1, <1>4 DEF SetupInv, CallsFit
<1>6. Forward'
  <2>1. /\ \A q \in Phones : Moving(q) => phone[q].vault \in 1..Vaults
        /\ \A q \in Phones : phone[q].old \in 0..Vaults
        /\ pointer.vault \in 0..Vaults /\ \A q \in Phones : Moving(q)' = Moving(q)
    BY <1>1 DEF SetupInv, CallsFit, Moving, PhoneAt
  <2>2. pointer'.vault # 0 => row'[pointer'.vault].state # "none"
    BY <1>1, <1>4, <2>1 DEF SetupInv, Forward
  <2>3. \A q \in Phones : Moving(q)' =>
          /\ row'[phone'[q].vault].state # "none" /\ phone'[q].vault # phone'[q].old
          /\ phone'[q].old # 0 => row'[phone'[q].old].state # "none"
          /\ phone'[q].at = "move" => phone'[q].vault # pointer'.vault
          /\ phone'[q].at = "put"  => phone'[q].old # pointer'.vault
    BY <1>1, <1>4, <2>1 DEF SetupInv, Forward
  <2> QED
    BY <1>1, <2>1, <2>2, <2>3 DEF SetupInv, Forward
<1> QED
  BY <1>1, <1>3, <1>5, <1>6, VaultsMove

LEMMA SetupStep == SetupConstants /\ SetupInv /\ [Next]_vars => SetupInv'
<1> SUFFICES ASSUME SetupConstants, SetupInv, [Next]_vars PROVE SetupInv'
  OBVIOUS
<1>1. ASSUME NEW t \in Tabs, TabNext(t) PROVE SetupInv'
  BY <1>1, TabSteps
<1>2. ASSUME NEW p \in Phones, PhoneNext(p) PROVE SetupInv'
  BY <1>2, Redeems, Guesses, Spends, Targets, Moves, Writes DEF PhoneNext
<1>3. CASE UNCHANGED vars
  BY <1>3 DEF vars, SetupInv, TypeOK, CallsFit, Counted, Ended, Forward, Moving
<1> QED
  BY <1>1, <1>2, <1>3, DiesKeeps, ExpireKeeps, RowsKeep DEF Next

LEMMA SetupSafe == SetupConstants /\ SetupInv => OneEnd /\ GuessesBounded /\ OneRowPerMove
<1> SUFFICES ASSUME SetupConstants, SetupInv PROVE OneEnd /\ GuessesBounded /\ OneRowPerMove
  OBVIOUS
<1>1. OneEnd
  BY DEF SetupInv, Ended, OneEnd
<1>2. GuessesBounded
  BY TypedFacts DEF SetupInv, SetupConstants, Counted, GuessesBounded, CodeRows
<1>3. OneRowPerMove
  BY DEF SetupInv, Forward, Moving, OneRowPerMove
<1> QED
  BY <1>1, <1>2, <1>3

\* The properties above in every state of every behaviour.
THEOREM SetupAlways == ASSUME SetupConstants PROVE Spec => []SetupInv
<1>1. Init => SetupInv
  BY SetupInit
<1>2. SetupInv /\ [Next]_vars => SetupInv'
  BY SetupStep
<1> QED
  BY <1>1, <1>2, PTL DEF Spec

(* A setup code has one end: one phone spends it or one call revokes it    *)
(* (vault.ts spend, revokeIssuance), whatever tabs and phones there are.   *)
THEOREM OneEndHolds == ASSUME SetupConstants PROVE Spec => []OneEnd
BY SetupAlways, SetupSafe, PTL

(* An issuance's code is compared with no more typed guesses than its      *)
(* ceiling, however many phones type at once (vault.ts, countTyped).       *)
THEOREM GuessesBoundedHolds == ASSUME SetupConstants PROVE Spec => []GuessesBounded
BY SetupAlways, SetupSafe, PTL

(* Of the redeems that moved the pointer from one vault, one at most is to *)
(* write the row of the new one (vaultForEnrollment).                      *)
THEOREM OneRowPerMoveHolds == ASSUME SetupConstants PROVE Spec => []OneRowPerMove
BY SetupAlways, SetupSafe, PTL
================================================================================
