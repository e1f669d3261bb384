----------------------------- MODULE ReleaseLog -----------------------------
(***************************************************************************)
(* The public release log of the production channel (lib/vault/            *)
(* release-log.ts, scripts/vault/release-log.ts, scripts/sync-nav.mjs):    *)
(* pages and an index generated from the served manifest and the release   *)
(* list, by manifest.ts publish and by hand, one file after the other.     *)
(* The index is also the log's memory of releases the manifest dropped,    *)
(* and a run may stop after any file.                                      *)
(*                                                                         *)
(* A release is served active, then removed, then no more; its log text    *)
(* has versions.  The rules of a manifest are ReleaseManifests.            *)
(***************************************************************************)
EXTENDS Integers, FiniteSetsExt

CONSTANTS Releases,   \* 1..n
          MaxSerial, Edits, Stops   \* bounds: manifests, edits of a log text, runs stopped

VARIABLES text,     \* the release list: the version of each release's log text
          served,   \* the served manifest: its serial, and each release's status
          index,    \* index.json: its serial, and each release's entry
          page,     \* the page of each release, by what it says
          front,    \* index.html, by what it says
          bare,     \* pages without the navigation
          job,      \* the run under way: what it writes, and what is left to write
          used,     \* edits made, runs stopped
          behind,   \* a manifest dropped a release while the log lagged
          cut       \* pages a stopped run left without the navigation

vars == <<text, served, index, page, front, bare, job, used, behind, cut>>

None == [status |-> "none", text |-> 0, listed |-> FALSE]
Entry == [status : {"none", "active", "removed"}, text : 0..(Edits + 1), listed : BOOLEAN]
EmptyIndex == [serial |-> 0, rel |-> [n \in Releases |-> None]]
Logged(ix) == {n \in Releases : ix.rel[n] # None}
InManifest == {n \in Releases : served.rel[n] \in {"active", "removed"}}
NoJob == [on |-> FALSE, want |-> EmptyIndex, todo |-> {}, wrote |-> {}]
Front == 0
IndexFile == -1

Init ==
  /\ text = [n \in Releases |-> 1]
  /\ served = [serial |-> 0, rel |-> [n \in Releases |-> "candidate"]]
  /\ index = EmptyIndex
  /\ page = [n \in Releases |-> None]
  /\ front = EmptyIndex
  /\ bare = {} /\ cut = {}
  /\ job = NoJob
  /\ used = [edits |-> 0, stops |-> 0]
  /\ behind = FALSE

----------------------------------------------------------------------------
(* buildIndex(): the manifest and the list merged into the previous index. *)

\* As BuildIndex and Throws would be without the log's memory, and with
\* every release that leaves the manifest refused.
BuildIndexAnew(ix) ==
  [serial |-> served.serial,
   rel |-> [n \in Releases |-> IF n \in InManifest
                THEN [status |-> served.rel[n], text |-> text[n], listed |-> TRUE] ELSE None]]
ThrowsAtEnd(ix) ==
  \/ served.serial < ix.serial
  \/ \E n \in Logged(ix) \ InManifest : ix.rel[n].listed

Throws(ix) ==
  \/ served.serial < ix.serial
  \/ \E n \in Logged(ix) \ InManifest : ix.rel[n].listed /\ ix.rel[n].status # "removed"

BuildIndex(ix) ==
  [serial |-> served.serial,
   rel |-> [n \in Releases |->
     IF n \in InManifest THEN [status |-> served.rel[n], text |-> text[n], listed |-> TRUE]
     ELSE IF ix.rel[n] # None THEN [ix.rel[n] EXCEPT !.listed = FALSE]
     ELSE None]]

----------------------------------------------------------------------------
(* The owner: the text of a release, and the next manifest.                *)

EditText(n) ==
  /\ ~job.on /\ used.edits < Edits
  /\ text' = [text EXCEPT ![n] = @ + 1]
  /\ used' = [used EXCEPT !.edits = @ + 1]
  /\ UNCHANGED <<served, index, page, front, bare, job, behind, cut>>

\* writeReleaseLog() reads its inputs once, and throws or has files to write.
Started == IF Throws(index) THEN NoJob
           ELSE [on |-> TRUE, want |-> BuildIndex(index), wrote |-> {},
                 todo |-> {Front} \union Logged(BuildIndex(index))]

Successors(s) ==
  CASE s = "candidate" -> {"candidate", "active"}
    [] s = "active"    -> {"active", "removed"}
    [] s = "removed"   -> {"removed", "dropped"}
    [] s = "dropped"   -> {"dropped"}

Drops(n) == served.rel[n] = "removed" /\ served'.rel[n] = "dropped"

\* publish: the served document, then the log, then the commit.
Publish ==
  /\ ~job.on /\ served.serial < MaxSerial
  /\ \E rel \in [Releases -> {"candidate", "active", "removed", "dropped"}] :
       /\ \A n \in Releases : rel[n] \in Successors(served.rel[n])
       /\ served' = [serial |-> served.serial + 1, rel |-> rel]
  /\ UNCHANGED <<text, index, page, front, bare, used, cut>>
  /\ job' = Started'
  /\ behind' = (behind \/ (index.serial # served.serial /\ \E n \in Releases : Drops(n)))

\* release-log.ts without --check, by hand.
WriteLog ==
  /\ ~job.on
  /\ served.serial > 0
  /\ job' = Started
  /\ UNCHANGED <<text, served, index, page, front, bare, used, behind, cut>>

----------------------------------------------------------------------------
(* The files: index.html and index.json, then the pages, newest first.     *)

\* A page that says what it should, whatever its navigation, is left alone.
Same(have, want) == have = want

WriteFront ==
  /\ job.on /\ Front \in job.todo
  /\ front' = job.want
  /\ LET new == IF Same(front, job.want) THEN {} ELSE {Front} IN
     /\ bare' = bare \union new
     /\ job' = [job EXCEPT !.todo = (@ \ {Front}) \union {IndexFile}, !.wrote = @ \union new]
  /\ UNCHANGED <<text, served, index, page, used, behind, cut>>

WriteIndex ==
  /\ job.on /\ IndexFile \in job.todo
  /\ index' = job.want
  /\ job' = [job EXCEPT !.todo = @ \ {IndexFile}]
  /\ UNCHANGED <<text, served, page, front, bare, used, behind, cut>>

WritePage ==
  /\ job.on /\ job.todo # {} /\ job.todo \subseteq Releases
  /\ LET n == Max(job.todo)
         new == IF Same(page[n], job.want.rel[n]) THEN {} ELSE {n} IN
     /\ page' = [page EXCEPT ![n] = job.want.rel[n]]
     /\ bare' = bare \union new
     /\ job' = [job EXCEPT !.todo = @ \ {n}, !.wrote = @ \union new]
  /\ UNCHANGED <<text, served, index, front, used, behind, cut>>

\* As NeedsNav would be for the front page alone.
NeedsNavFront == Front \in job.wrote
NeedsNav == job.wrote # {}

\* sync-nav fills in every page of the site, one by one.
Finish ==
  /\ job.on /\ job.todo = {}
  /\ \/ NeedsNav /\ bare # {}
        /\ \E p \in bare : bare' = bare \ {p} /\ cut' = cut \ {p}
        /\ UNCHANGED job
     \/ (NeedsNav => bare = {})
        /\ job' = NoJob
        /\ UNCHANGED <<bare, cut>>
  /\ UNCHANGED <<text, served, index, page, front, used, behind>>

Stop ==
  /\ job.on /\ used.stops < Stops
  /\ used' = [used EXCEPT !.stops = @ + 1]
  /\ cut' = cut \union (bare \intersect job.wrote)
  /\ job' = NoJob
  /\ UNCHANGED <<text, served, index, page, front, bare, behind>>

Next ==
  \/ \E n \in Releases : EditText(n)
  \/ Publish \/ WriteLog \/ WriteFront \/ WriteIndex \/ WritePage \/ Finish \/ Stop

Spec == Init /\ [][Next]_vars

----------------------------------------------------------------------------
TypeOK ==
  /\ text \in [Releases -> 1..(Edits + 1)] /\ served.serial \in 0..MaxSerial
  /\ index.rel \in [Releases -> Entry] /\ page \in [Releases -> Entry]
  /\ front.serial \in 0..MaxSerial
  /\ bare \subseteq Releases \union {Front} /\ cut \subseteq bare

\* release-log --check (check:manifest): generated again, every file is what it is.
CheckPasses ==
  /\ ~Throws(index)
  /\ BuildIndex(index) = index /\ Same(front, index)
  /\ \A n \in Logged(index) : Same(page[n], index.rel[n])

\* With no run under way, a log that passes its check says of every release
\* ever served what the served manifest says, or "removed" of one it has
\* dropped, and has a page for each, whichever runs stopped before.
LogAgrees ==
  ~job.on /\ CheckPasses /\ ~behind =>
    /\ index.serial = served.serial
    /\ \A n \in Releases :
         /\ served.rel[n] = "candidate" => index.rel[n] = None
         /\ served.rel[n] = "dropped" => page[n].status = "removed" /\ ~page[n].listed
         /\ n \in InManifest => page[n].status = served.rel[n] /\ page[n].text = text[n]

\* The log can always be generated, unless a release was dropped from the
\* manifest before a run had logged its removal: then never again.
Buildable == ~behind => ~Throws(index)

\* A finished run leaves every page with the site's navigation, but for
\* the pages of a run that stopped before sync-nav: the next run finds
\* them as they should be and leaves them, and only check:site objects.
NavKept == ~job.on => bare \subseteq cut

\* A release once in the log keeps its entry and, once it has one, its page.
LogStands ==
  \A n \in Releases : /\ index.rel[n] # None => index'.rel[n] # None
                      /\ page[n] # None => page'[n] # None
============================================================================
