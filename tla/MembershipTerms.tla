----------------------------- MODULE MembershipTerms -----------------------------
(***************************************************************************)
(* The membership terms: administrators write, publish and delete versions *)
(* (lambda/admin/content.ts), the API serves and records the acceptance of *)
(* the current one (lambda/member/account.ts), the account page shows it   *)
(* and takes the acceptance (sites/account/js/account.js).  Which version  *)
(* is current is read from an index, which follows the table later.        *)
(***************************************************************************)
EXTENDS Integers

CONSTANTS
  Versions, Calls,   \* versions (1, 2, ... in the order they are made); administrators' calls
  Publications       \* bound: publications begun

VARIABLES
  ver, docs, index,    \* the table's rows, the stored texts, the versions the index shows as current
  call, stamp,         \* administrators' calls; the clock of publications
  accepted,            \* the version the account's row says was accepted
  page, load, post,    \* the page, and its calls: the text, an acceptance
  read                 \* the versions whose text was on the page when its form was sent

vars == <<ver, docs, index, call, stamp, accepted, page, load, post, read>>

None    == 0
Asked   == -1
Failed  == -2
Status  == {"none", "draft", "current", "superseded", "deleted"}
NoCall  == [op |-> "none", v |-> None, saw |-> {}, at |-> 0]
NoPost  == [at |-> "none", v |-> None, me |-> <<None, None>>]
Answers == Versions \cup {None, Asked, Failed}

TypeOK ==
  /\ ver \in [Versions -> [st : Status, at : 0..stamp]]
  /\ docs \subseteq Versions /\ index \subseteq Versions /\ read \subseteq Versions
  /\ \A c \in Calls : call[c].op \in {"none", "row", "publish", "delete", "docs"}
  /\ accepted \in Versions \cup {None}
  /\ page.state \in {"idle", "loading", "error"} /\ page.form \in Versions \cup {None}
  /\ load \in Answers
  /\ post.at \in {"none", "sent", "checked", "done", "conflict", "failed", "me"}

Init ==
  /\ ver = [v \in Versions |-> [st |-> "none", at |-> 0]] /\ docs = {} /\ index = {}
  /\ call = [c \in Calls |-> NoCall] /\ stamp = 0 /\ accepted = None
  /\ page = [me |-> <<None, None>>, terms |-> None, state |-> "idle", form |-> None, retry |-> FALSE, open |-> FALSE]
  /\ load = None /\ post = NoPost /\ read = {}

admin  == <<ver, docs, call, stamp>>
member == <<accepted, page, load, post, read>>

--------------------------------------------------------------------------------
(* /admin/terms.                                                           *)

\* POST: the text and its PDF are stored, then the row.
Create(c) ==
  /\ call[c] = NoCall
  /\ \E v \in Versions :
       /\ ver[v].st = "none" /\ v \notin docs /\ \A d \in Calls : call[d].v # v
       /\ \A u \in Versions : u < v => ver[u].st # "none"
       /\ docs' = docs \cup {v} /\ call' = [call EXCEPT ![c] = [NoCall EXCEPT !.op = "row", !.v = v]]
  /\ UNCHANGED <<ver, index, stamp, member>>

Draft(c) ==
  /\ call[c].op = "row"
  /\ ver' = [ver EXCEPT ![call[c].v].st = "draft"] /\ call' = [call EXCEPT ![c] = NoCall]
  /\ UNCHANGED <<docs, index, stamp, member>>

\* Publish and delete read the row first; publish then reads the index.
BeginDelete(c) ==
  /\ call[c] = NoCall
  /\ \E v \in Versions :
       ver[v].st = "draft" /\ call' = [call EXCEPT ![c] = [NoCall EXCEPT !.op = "delete", !.v = v]]
  /\ UNCHANGED <<ver, docs, index, stamp, member>>

BeginPublish(c) ==
  /\ call[c] = NoCall /\ stamp < Publications /\ stamp' = stamp + 1
  /\ \E v \in Versions :
       /\ ver[v].st = "draft"
       /\ call' = [call EXCEPT ![c] = [op |-> "publish", v |-> v, saw |-> index, at |-> stamp + 1]]
  /\ UNCHANGED <<ver, docs, index, member>>

\* One transaction: what was seen as current is superseded, the draft is current.
Publish(c) ==
  /\ call[c].op = "publish" /\ call' = [call EXCEPT ![c] = NoCall]
  /\ IF ver[call[c].v].st = "draft" /\ \A u \in call[c].saw : ver[u].st = "current"
     THEN ver' = [v \in Versions |-> IF v = call[c].v THEN [st |-> "current", at |-> call[c].at]
                                     ELSE IF v \in call[c].saw THEN [ver[v] EXCEPT !.st = "superseded"] ELSE ver[v]]
     ELSE UNCHANGED ver
  /\ UNCHANGED <<docs, index, stamp, member>>

DeletableAny(v) == TRUE          \* mutated form: deleted without a condition
Deletable(v)    == ver[v].st = "draft"

\* The row, while it is a draft; then its texts.
Delete(c) ==
  /\ call[c].op = "delete"
  /\ IF Deletable(call[c].v)
     THEN ver' = [ver EXCEPT ![call[c].v].st = "deleted"] /\ call' = [call EXCEPT ![c].op = "docs"]
     ELSE UNCHANGED ver /\ call' = [call EXCEPT ![c] = NoCall]
  /\ UNCHANGED <<docs, index, stamp, member>>

DeleteDocs(c) ==
  /\ call[c].op = "docs"
  /\ docs' = docs \ {call[c].v} /\ call' = [call EXCEPT ![c] = NoCall]
  /\ UNCHANGED <<ver, index, stamp, member>>

IndexFollows ==
  /\ \E v \in Versions :
       /\ (v \in index) # (ver[v].st = "current")
       /\ index' = IF v \in index THEN index \ {v} ELSE index \cup {v}
  /\ UNCHANGED <<admin, member>>

--------------------------------------------------------------------------------
(* The member API.                                                         *)

CurrentOldest == IF index = {} THEN None        \* mutated form: the first of the index
                 ELSE CHOOSE v \in index : \A u \in index : ver[v].at <= ver[u].at
\* currentTerms(): the version published last, of those the index shows.
Current == IF index = {} THEN None ELSE CHOOSE v \in index : \A u \in index : ver[u].at <= ver[v].at

\* GET /api/account/me, and the answer of any other call: the terms in it.
Me == <<Current, accepted>>

\* GET /api/account/terms: with the stored text.
ServeText ==
  /\ load = Asked /\ load' = IF Current \in docs THEN Current ELSE Failed
  /\ UNCHANGED <<admin, index, accepted, page, post, read>>

AcceptableAny(v) == Current # None      \* mutated form: whatever the page showed
Acceptable(v)    == Current = v

\* POST /api/account/terms/accept: the version and the hash are the current ones.
ServeAccept ==
  /\ post.at = "sent"
  /\ post' = IF Acceptable(post.v) THEN [post EXCEPT !.at = "checked", !.v = Current] ELSE [post EXCEPT !.at = "conflict"]
  /\ UNCHANGED <<admin, index, accepted, page, load, read>>

WriteAccept ==
  /\ post.at = "checked" /\ accepted' = post.v
  /\ post' = [post EXCEPT !.at = "done", !.me = <<Current, post.v>>]
  /\ UNCHANGED <<admin, index, page, load, read>>

\* A call that fails, or whose answer is lost.
Fails ==
  /\ \/ post.at \in {"sent", "checked", "done"} /\ post' = [post EXCEPT !.at = "failed"] /\ UNCHANGED load
     \/ load \notin {None, Failed} /\ load' = Failed /\ UNCHANGED post
  /\ UNCHANGED <<admin, index, accepted, page, read>>

--------------------------------------------------------------------------------
(* The account page.                                                       *)

Needs(p)  == p.me[1] # None /\ p.me[1] # p.me[2]
Wanted(p) == p.me[1] # None /\ (Needs(p) \/ p.open)
Loads(p)  == Wanted(p) /\ p.terms = None /\ p.state = "idle"

\* renderTerms(), and the load it begins.
Rendered(p) ==
  [p EXCEPT !.state = IF Loads(p) THEN "loading" ELSE @,
            !.retry = Needs(p) /\ p.terms = None /\ p.state = "error",
            !.form = IF Needs(p) /\ p.terms # None /\ p.state # "loading" THEN p.terms ELSE None]

Show(p, l) == page' = Rendered(p) /\ load' = IF Loads(p) THEN Asked ELSE l

\* setMe() with the answer of another call (answered at once here).
SetMe ==
  /\ Show([page EXCEPT !.me = Me], load)
  /\ UNCHANGED <<admin, index, accepted, post, read>>

\* loadTerms(): the answer, or its failure.
StateOfKept   == page.state       \* mutated form: a failure leaves it loading
StateOfFailed == "error"

TextArrives ==
  /\ load \notin {None, Asked}
  /\ Show(IF load = Failed THEN [page EXCEPT !.state = StateOfFailed]
          ELSE [page EXCEPT !.terms = load, !.state = "idle"], None)
  /\ UNCHANGED <<admin, index, accepted, post, read>>

Retry ==
  /\ page.retry
  /\ page' = Rendered([page EXCEPT !.state = "loading"]) /\ load' = Asked
  /\ UNCHANGED <<admin, index, accepted, post, read>>

\* pdfLink(): for an old link the terms are fetched anew (answered at once here).
RefreshPdf ==
  /\ page.terms # None /\ Wanted(page) /\ Current \in docs /\ Show([page EXCEPT !.terms = Current], load)
  /\ UNCHANGED <<admin, index, accepted, post, read>>

\* "View terms", for who accepted them.
Toggle ==
  /\ page.me[1] # None /\ ~Needs(page) /\ Show([page EXCEPT !.open = ~@], load)
  /\ UNCHANGED <<admin, index, accepted, post, read>>

\* The box of the form on the screen is ticked and the form sent.
Submit ==
  /\ page.form # None /\ post = NoPost
  /\ post' = [NoPost EXCEPT !.at = "sent", !.v = page.form] /\ read' = read \cup {page.form}
  /\ UNCHANGED <<admin, index, accepted, page, load>>

\* Accepted; refused because they changed: the account is read again; failed.
AcceptArrives ==
  /\ \/ post.at = "done" /\ post' = NoPost
        /\ Show([page EXCEPT !.terms = None, !.open = FALSE, !.me = post.me], load)
     \/ post.at = "conflict" /\ post' = [post EXCEPT !.at = "me"]
        /\ page' = [page EXCEPT !.terms = None, !.state = "idle"] /\ UNCHANGED load
     \/ post.at = "failed" /\ post' = NoPost /\ UNCHANGED <<page, load>>
     \/ post.at = "me" /\ post' = NoPost /\ Show([page EXCEPT !.me = Me], load)
     \/ post.at = "me" /\ post' = NoPost /\ UNCHANGED <<page, load>>        \* that call fails
  /\ UNCHANGED <<admin, index, accepted, read>>

--------------------------------------------------------------------------------
Next ==
  \/ \E c \in Calls : Create(c) \/ Draft(c) \/ BeginPublish(c) \/ Publish(c) \/ BeginDelete(c) \/ Delete(c) \/ DeleteDocs(c)
  \/ IndexFollows \/ ServeText \/ ServeAccept \/ WriteAccept \/ Fails
  \/ SetMe \/ TextArrives \/ Retry \/ RefreshPdf \/ Toggle \/ Submit \/ AcceptArrives

Spec == Init /\ [][Next]_vars

--------------------------------------------------------------------------------
(* A version the account says was accepted had its own text on the page    *)
(* when its form was sent, whatever was published meanwhile (account.js,  *)
(* the form keeps its version; accept compares it).                        *)
ConsentIsRead == accepted # None => accepted \in read

(* "Published terms are a permanent record": whoever publishes and deletes *)
(* at once, the row and the texts of a version that was published stay     *)
(* (content.ts).                                                           *)
PublishedKept == \A v \in Versions : ver[v].at > 0 => ver[v].st \in {"current", "superseded"} /\ v \in docs

(* Once the index has caught up, members are asked for the version that    *)
(* was published last, also when two publications met (publish; two rows   *)
(* may then be current).                                                   *)
LastPublished ==
  index = {v \in Versions : ver[v].st = "current"}
    => \A v \in Versions : ver[v].at > 0 => Current # None /\ ver[v].at <= ver[Current].at

(* Who has terms to accept is never left with a page that neither shows    *)
(* them, nor loads them, nor offers to (renderTerms, loadTerms).           *)
NoDeadEnd ==
  Needs(page) => page.form # None \/ page.retry \/ load # None \/ post # NoPost
================================================================================
