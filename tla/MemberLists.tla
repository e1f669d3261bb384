---------------------------- MODULE MemberLists ----------------------------
(***************************************************************************)
(* The Members page of the admin site (sites/admin/js/sections/members.js  *)
(* with ui.js and api.js): the list of members, loaded a page at a time    *)
(* and reloaded with another filter at any moment, the list of canary      *)
(* testers beneath it, and the buttons of a row, whose answers redraw the  *)
(* row they were pressed on.  The Admin API behind it (lambda/admin/       *)
(* people.ts, vault-canary.ts) pages through its index by the last key.    *)
(*                                                                         *)
(* Two accounts are listed in a fixed order, one to a page, so that the    *)
(* second page and the empty last one exist.  A row shows its account's    *)
(* status and canary flag; the buttons for the subscription and the PIN    *)
(* redraw the row as the suspension's do and are left out, and so are the  *)
(* cancel of a vault deletion, which redraws nothing, and Delete.          *)
(***************************************************************************)
EXTENDS Naturals, FiniteSets, FiniteSetsExt, SequencesExt

CONSTANTS Actions,   \* buttons pressed
          Mishaps    \* filters applied and calls lost, together

Accounts == 1..2
Statuses == {"active", "suspended"}
Filters == {"any", "active"}

VARIABLES account,   \* the members table: each account's status and canary flag
          list,      \* the list: its generation, filter, pager and rows
          known,     \* the row last drawn for each account (of = 0: none)
          pages,     \* pages of the list under way
          testers,   \* the testers' list: its generation and its rows
          loads,     \* loads of the testers' list under way
          acts,      \* buttons' calls under way
          spent,     \* what is used of the bounds
          unsure,    \* accounts two answers about which crossed, or a call failed
          steady     \* accounts that have matched the filter since the reload

vars == <<account, list, known, pages, testers, loads, acts, spent, unsure, steady>>

View == [status : Statuses, canary : BOOLEAN]
Blank == [status |-> "active", canary |-> FALSE]
Matches(v, filter) == filter = "any" \/ v.status = filter

----------------------------------------------------------------------------
(* The Admin API.                                                          *)

\* The next page after key `after`: at most one account, read as it is now.
ListMembers(after, filter) ==
  LET found == {a \in Accounts : a > after /\ Matches(account[a], filter)}
  IN IF found = {} THEN [item |-> 0, cursor |-> 0, v |-> Blank]
     ELSE [item |-> Min(found), cursor |-> Min(found), v |-> account[Min(found)]]

ListTesters == {a \in Accounts : account[a].canary}

\* What a button asks of the account, and whether the API does it: a
\* suspension may be repeated, the others are refused when already so.
Wanted(kind, v) ==
  CASE kind = "suspend"   -> [v EXCEPT !.status = "suspended"]
    [] kind = "reinstate" -> [v EXCEPT !.status = "active"]
    [] kind = "flag"      -> [v EXCEPT !.canary = TRUE]
    [] kind = "clear"     -> [v EXCEPT !.canary = FALSE]

Accepted(kind, v) == kind = "suspend" \/ Wanted(kind, v) # v

----------------------------------------------------------------------------
(* The paged list.                                                         *)

Page(gen, filter, after) ==
  [gen |-> gen, filter |-> filter, after |-> after, read |-> FALSE,
   got |-> [item |-> 0, cursor |-> 0, v |-> Blank],
   locks |-> \A p \in pages : ~p.locks]

Row(a, of, v) == [acct |-> a, of |-> of, v |-> v, lock |-> 0]

\* As Superseded and Emptied would be with no generation, and with a pager kept over a reload.
SupersededNever(p) == FALSE
EmptiedKept(filter) ==
  [gen |-> list.gen + 1, filter |-> filter, cursor |-> list.cursor, done |-> FALSE, rows |-> << >>]

Superseded(p) == p.gen # list.gen

\* The rows with the one of generation `of` for `a` drawn again, its
\* buttons free; a row that a reload took off the page is not among them.
Redrawn(rows, a, of, v) ==
  [i \in DOMAIN rows |-> IF rows[i].acct = a /\ rows[i].of = of
                         THEN Row(a, of, v) ELSE rows[i]]

Freed(rows, id) ==
  [i \in DOMAIN rows |-> IF rows[i].lock = id THEN [rows[i] EXCEPT !.lock = 0] ELSE rows[i]]

\* The list with no rows and a new pager: what is under way for the old one is superseded.
Emptied(filter) ==
  [gen |-> list.gen + 1, filter |-> filter, cursor |-> 0, done |-> FALSE, rows |-> << >>]

TesterLoad(gen) == [gen |-> gen, read |-> FALSE, got |-> {}, locks |-> \A t \in loads : ~t.locks]

Init ==
  /\ account = [a \in Accounts |-> [status |-> "active", canary |-> a = 1]]
  /\ list = [gen |-> 1, filter |-> "any", cursor |-> 0, done |-> FALSE, rows |-> << >>]
  /\ known = [a \in Accounts |-> [of |-> 0, v |-> Blank]]
  /\ pages = {[gen |-> 1, filter |-> "any", after |-> 0, read |-> FALSE, locks |-> TRUE,
               got |-> [item |-> 0, cursor |-> 0, v |-> account[1]]]}
  /\ testers = [gen |-> 1, rows |-> {}, done |-> FALSE]
  /\ loads = {[gen |-> 1, read |-> FALSE, got |-> {}, locks |-> TRUE]}
  /\ acts = {}
  /\ spent = [acts |-> 0, mishaps |-> 0]
  /\ unsure = {}
  /\ steady = Accounts

\* The administrator applies a filter.
Reload ==
  /\ spent.mishaps < Mishaps
  /\ spent' = [spent EXCEPT !.mishaps = @ + 1]
  /\ \E f \in Filters :
       /\ list' = Emptied(f)
       /\ pages' = pages \union {Page(list.gen + 1, f, Emptied(f).cursor)}
       /\ steady' = {a \in Accounts : Matches(account[a], f)}
  /\ UNCHANGED <<account, known, testers, loads, acts>>

\* "Load more": shown when the pager is not done and no page of it is
\* awaited, and free when no call holds the button.
LoadMore ==
  /\ ~list.done
  /\ \A p \in pages : p.gen # list.gen /\ ~p.locks
  /\ pages' = pages \union {Page(list.gen, list.filter, list.cursor)}
  /\ UNCHANGED <<account, list, known, testers, loads, acts, spent, steady>>

ReadPage(p) ==
  /\ ~p.read
  /\ pages' = (pages \ {p}) \union
              {[p EXCEPT !.read = TRUE, !.got = ListMembers(p.after, p.filter)]}
  /\ UNCHANGED <<account, list, known, testers, loads, acts, spent, steady>>

ShowPage(p) ==
  /\ p.read
  /\ pages' = pages \ {p}
  /\ IF Superseded(p) THEN UNCHANGED <<list, known>>
     ELSE IF p.got.item = 0
     THEN /\ list' = [list EXCEPT !.cursor = 0, !.done = TRUE]
          /\ UNCHANGED known
     ELSE /\ list' = [list EXCEPT !.cursor = p.got.cursor,
                                  !.rows = Append(@, Row(p.got.item, p.gen, p.got.v))]
          /\ known' = [known EXCEPT ![p.got.item] = [of |-> p.gen, v |-> p.got.v]]
  /\ UNCHANGED <<account, testers, loads, acts, spent, steady>>

\* A page that fails leaves its pager where it was: "Load more" asks again.
PageFails(p) ==
  /\ spent.mishaps < Mishaps
  /\ spent' = [spent EXCEPT !.mishaps = @ + 1]
  /\ pages' = pages \ {p}
  /\ UNCHANGED <<account, list, known, testers, loads, acts, steady>>

----------------------------------------------------------------------------
(* The testers' list.                                                      *)

ReadTesters(t) ==
  /\ ~t.read
  /\ loads' = (loads \ {t}) \union {[t EXCEPT !.read = TRUE, !.got = ListTesters]}
  /\ UNCHANGED <<account, list, known, pages, testers, acts, spent, steady>>

ShowTesters(t) ==
  /\ t.read
  /\ loads' = loads \ {t}
  /\ testers' = IF t.gen # testers.gen THEN testers
                ELSE [testers EXCEPT !.rows = @ \union t.got, !.done = TRUE]
  /\ UNCHANGED <<account, list, known, pages, acts, spent, steady>>

TestersFail(t) ==
  /\ spent.mishaps < Mishaps
  /\ spent' = [spent EXCEPT !.mishaps = @ + 1]
  /\ loads' = loads \ {t}
  /\ UNCHANGED <<account, list, known, pages, testers, acts, steady>>

MoreTesters ==
  /\ ~testers.done
  /\ \A t \in loads : t.gen # testers.gen /\ ~t.locks
  /\ loads' = loads \union {TesterLoad(testers.gen)}
  /\ UNCHANGED <<account, list, known, pages, testers, acts, spent, steady>>

----------------------------------------------------------------------------
(* The buttons.                                                            *)

\* The buttons a row offers for what it shows.
Offered(v) ==
  (IF v.status = "active" THEN {"suspend"} ELSE {"reinstate", "suspend"})
  \union (IF v.canary THEN {"clear"} ELSE {"flag"})

Call(a, of, kind, from, v) ==
  [id |-> spent.acts + 1, acct |-> a, of |-> of, kind |-> kind, from |-> from,
   base |-> v, served |-> FALSE, ok |-> FALSE, saw |-> v]

\* A button of a row: it locks the row's buttons while it runs.
Press ==
  /\ spent.acts < Actions
  /\ \E i \in DOMAIN list.rows :
       LET r == list.rows[i] IN
       /\ r.lock = 0
       /\ \E kind \in Offered(r.v) : acts' = acts \union {Call(r.acct, r.of, kind, "row", r.v)}
       /\ list' = [list EXCEPT !.rows[i].lock = spent.acts + 1]
  /\ spent' = [spent EXCEPT !.acts = @ + 1]
  /\ UNCHANGED <<account, known, pages, testers, loads, steady>>

\* "Clear flag" of a tester, once for the row shown.
ClearTester ==
  /\ spent.acts < Actions
  /\ \E a \in testers.rows :
       /\ ~\E c \in acts : c.from = "testers" /\ c.acct = a /\ c.of = testers.gen
       /\ acts' = acts \union {Call(a, testers.gen, "clear", "testers", account[a])}
  /\ spent' = [spent EXCEPT !.acts = @ + 1]
  /\ UNCHANGED <<account, list, known, pages, testers, loads, steady>>

\* The API does what is asked, or refuses, and answers with the row as it left it.
Serve(c) ==
  /\ ~c.served
  /\ LET now == account[c.acct]
         ok == Accepted(c.kind, now)
         next == IF ok THEN Wanted(c.kind, now) ELSE now IN
     /\ account' = [account EXCEPT ![c.acct] = next]
     /\ acts' = (acts \ {c}) \union {[c EXCEPT !.served = TRUE, !.ok = ok, !.saw = next]}
     /\ steady' = IF Matches(next, list.filter) THEN steady ELSE steady \ {c.acct}
  /\ UNCHANGED <<list, known, pages, testers, loads, spent>>

Draw(a, of, v) ==
  /\ list' = [list EXCEPT !.rows = Redrawn(@, a, of, v)]
  /\ known' = [known EXCEPT ![a] = [of |-> of, v |-> v]]

\* As AfterSwitch would be if the testers' list were left as it is.
AfterSwitchNone == UNCHANGED <<testers, loads>>

\* The flag's switch changed it: the testers' list is loaded anew.
AfterSwitch ==
  /\ testers' = [gen |-> testers.gen + 1, rows |-> {}, done |-> FALSE]
  /\ loads' = loads \union {TesterLoad(testers.gen + 1)}

\* A suspension's answer is the row; a switch's sets the flag in the row as
\* it was drawn when the switch was pressed.
RowAnswer(c) ==
  /\ c.served /\ c.ok /\ c.from = "row"
  /\ acts' = acts \ {c}
  /\ IF c.kind \in {"flag", "clear"}
     THEN Draw(c.acct, c.of, Wanted(c.kind, c.base)) /\ AfterSwitch
     ELSE Draw(c.acct, c.of, c.saw) /\ UNCHANGED <<testers, loads>>
  /\ UNCHANGED <<account, pages, spent, steady>>

\* A flag cleared in the testers' list takes its row off that list, and the
\* row last drawn for the member is drawn again without the flag.
TesterAnswer(c) ==
  /\ c.served /\ c.ok /\ c.from = "testers"
  /\ acts' = acts \ {c}
  /\ testers' = IF c.of = testers.gen THEN [testers EXCEPT !.rows = @ \ {c.acct}] ELSE testers
  /\ LET k == known[c.acct] IN
     IF k.of = 0 THEN UNCHANGED <<list, known>>
     ELSE Draw(c.acct, k.of, Wanted("clear", k.v))
  /\ UNCHANGED <<account, pages, loads, spent, steady>>

\* An error: refused by the API, or lost before or after the API did it.
ActionFails(c) ==
  /\ \/ c.served /\ ~c.ok /\ UNCHANGED spent
     \/ (~c.served \/ c.ok) /\ spent.mishaps < Mishaps /\ spent' = [spent EXCEPT !.mishaps = @ + 1]
  /\ acts' = acts \ {c}
  /\ list' = [list EXCEPT !.rows = Freed(@, c.id)]
  /\ UNCHANGED <<account, known, pages, testers, loads, steady>>

----------------------------------------------------------------------------
(* An account two answers about which are under way together: two buttons, *)
(* a button and a page that may show the account, a button of a row that a *)
(* reload took off the page, "Clear flag" and a load of the testers.       *)

Crossing(a) ==
  \E c \in acts :
    /\ c.acct = a
    /\ \/ \E d \in acts : d.acct = a /\ d.id # c.id
       \/ \E p \in pages : p.after < a
       \/ c.from = "row" /\ c.of # list.gen
       \/ c.from = "testers" /\ (loads # {} \/ c.of # testers.gen)


\* The calls this step ends without their answer.
Failing == {c \in acts : (\A d \in acts' : d.id # c.id) /\ ~(c.served /\ c.ok /\ spent' = spent)}

Step ==
  \/ Reload \/ LoadMore \/ MoreTesters \/ Press \/ ClearTester
  \/ \E p \in pages : ReadPage(p) \/ ShowPage(p) \/ PageFails(p)
  \/ \E t \in loads : ReadTesters(t) \/ ShowTesters(t) \/ TestersFail(t)
  \/ \E c \in acts : Serve(c) \/ RowAnswer(c) \/ TesterAnswer(c) \/ ActionFails(c)

Next ==
  /\ Step
  /\ unsure' = unsure \union {a \in Accounts : Crossing(a)'} \union {c.acct : c \in Failing}

Spec == Init /\ [][Next]_vars

----------------------------------------------------------------------------
TypeOK ==
  /\ account \in [Accounts -> View]
  /\ list.gen \in 1..(Mishaps + 1) /\ list.cursor \in 0..2 /\ list.filter \in Filters
  /\ \A i \in DOMAIN list.rows : list.rows[i].v \in View
  /\ testers.rows \subseteq Accounts /\ unsure \subseteq Accounts /\ steady \subseteq Accounts
  /\ \A c \in acts : c.acct \in Accounts /\ c.base \in View /\ c.saw \in View

Shown == {list.rows[i].acct : i \in DOMAIN list.rows}

\* However pages, reloads and failures follow each other, the list shows no
\* member twice, and when it offers no more pages it shows every member
\* that has matched its filter since it was applied (ui.js pagedList,
\* api.js pager).
ListedOnce ==
  /\ Cardinality(Shown) = Len(list.rows)
  /\ list.done => steady \subseteq Shown

\* With nothing under way, the row of a member shows the status and the
\* flag the member has, and the testers' list the members flagged, except
\* for a member two answers about whom crossed or a call about whom failed.
PageAgrees ==
  pages = {} /\ loads = {} /\ acts = {} =>
    /\ \A i \in DOMAIN list.rows :
         list.rows[i].acct \notin unsure => list.rows[i].v = account[list.rows[i].acct]
    /\ testers.done => \A a \in Accounts \ unsure : a \in testers.rows <=> account[a].canary
============================================================================
