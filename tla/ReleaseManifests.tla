--------------------------- MODULE ReleaseManifests ---------------------------
(***************************************************************************)
(* The release list of a channel and the signed manifests made from it     *)
(* (lib/vault/release-list.ts, manifest-check.ts; scripts/vault/           *)
(* manifest.ts and check-manifest.ts).  The owner edits the list, signs,   *)
(* uploads and publishes, and may stop after any step; every check reads   *)
(* the list and the manifests of its moment, and time passes in between.   *)
(***************************************************************************)
EXTENDS Integers, FiniteSets

CONSTANTS Releases,     \* 1..n; 1 is published
          RescueWindow, \* RESCUE_WINDOW_DAYS
          FinalNotice,  \* the 90 days a release is retired before it ends
          FirstWindow,  \* FIRST_RELEASE_WINDOW.days
          MaxSerial, MaxTime, MaxEdits  \* bounds

VARIABLES
  list,   \* vault/releases/<channel>.json: the listed releases
  serial, \* its signed_serial
  keys,   \* the sealing keys that exist: of each release, the releases it admits
  docs,   \* the documents ever signed
  job,    \* the manifest.ts command under way, and its document
  bucket, \* the serials with a copy in the vault's bucket
  served, \* the served document
  ran,    \* releases a served manifest listed before they were removed
  edits, now

vars == <<list, serial, keys, docs, job, bucket, served, ran, edits, now>>

Statuses == {"candidate", "active", "deprecated", "retired", "removed"}
Times    == 0..MaxTime                  \* 0: the entry has no such time
Entry    == [status : Statuses, sealed : BOOLEAN, admits : SUBSET Releases,
             published : Times, ends : Times, rescue : BOOLEAN]
IsList(f) == DOMAIN f \subseteq Releases /\ \A n \in DOMAIN f : f[n] \in Entry
IsDoc(d) == d.serial \in 1..MaxSerial /\ d.issued \in Times /\ IsList(d.entries)

Listed == DOMAIN list
Rank(s) == CASE s \in {"candidate", "active"} -> 0 [] s = "deprecated" -> 1 [] s = "retired" -> 2 [] s = "removed" -> 3
Newest(S) == CHOOSE n \in S : \A m \in S : m <= n

--------------------------------------------------------------------------------
(* The rules of the list and of a manifest.                                *)

\* rescuable(): ends_at plus the window is not over.
Rescuable(e, at) == e.status = "removed" /\ e.ends # 0 /\ at < e.ends + RescueWindow

\* admittedAtKeyCreation(): what release n's key must admit, when made now.
DueActive(f, n, at) == {m \in DOMAIN f : m < n /\ f[m].status \in {"active", "candidate"}}   \* mutated form
Due(f, n, at) == {m \in DOMAIN f : m < n /\ (f[m].status # "removed" \/ Rescuable(f[m], at))}

Actives(f) == {n \in DOMAIN f : f[n].status = "active"}
Admitted(f, n) == Actives(f) # {} /\ n < Newest(Actives(f)) /\ n \in f[Newest(Actives(f))].admits

\* validateReleaseFile(): the first release keeps its own window after the second is published.
WindowUnset(f) == TRUE   \* mutated form: no such check
WindowKept(f) == 1 \in DOMAIN f /\ f[1].ends # 0 =>
  2 \in DOMAIN f /\ f[2].published # 0 /\ f[1].ends >= f[2].published + FirstWindow

ValidEntry(f, n, at) ==
  LET e == f[n] IN
  /\ e.admits \subseteq {m \in DOMAIN f : m < n}
  /\ e.sealed \/ (e.status = "candidate" /\ Due(f, n, at) \subseteq e.admits)
  /\ e.status # "candidate" => e.published # 0
  /\ e.ends # 0 => e.status \notin {"active", "candidate"} /\ e.ends > e.published
  /\ e.status = "retired" => e.ends # 0
  /\ e.rescue => e.status = "removed" /\ e.ends # 0 /\ Admitted(f, n)

ValidFile(f, at) == WindowKept(f) /\ \A n \in DOMAIN f : ValidEntry(f, n, at)

\* manifestEntries()
InManifest(f) == {n \in DOMAIN f : f[n].status # "candidate"}
Entries(f) == [n \in InManifest(f) |-> f[n]]

\* consistencyProblems()
Consistent(m, issued) ==
  /\ Cardinality(Actives(m)) <= 1
  /\ Actives(m) = {} => \A n \in DOMAIN m : m[n].status = "removed"
  /\ \A n \in DOMAIN m :
       /\ m[n].published <= issued
       /\ m[n].status \in {"deprecated", "retired"} =>
            /\ Actives(m) # {} /\ n < Newest(Actives(m))
            /\ m[n].ends # 0 => m[n].ends > issued
       /\ m[n].status = "deprecated" /\ m[n].ends # 0 => issued < m[n].ends - FinalNotice

\* rescueTargetProblems()
RescueTargetsUnread(f, issued) == \A n \in DOMAIN f : f[n].status = "removed" => f[n].ends <= issued   \* mutated form
RescueTargets(f, issued) ==
  /\ \A n \in DOMAIN f : f[n].status = "removed" => f[n].ends <= issued
  /\ Actives(f) # {} => \A n \in DOMAIN f :
       n < Newest(Actives(f)) /\ Rescuable(f[n], issued) => Admitted(f, n)

\* admittedExtraProblems() of a candidate without a key; rescueOverdueProblems() of a rescue.
NothingOld(f, at) == \A n \in DOMAIN f : ~f[n].sealed => f[n].admits \subseteq Due(f, n, at)
NotOverdue(f, at) == \A n \in DOMAIN f : f[n].rescue => Rescuable(f[n], at)

\* successorProblems() of a manifest's entries after the served document.
ForwardAny(m) == TRUE   \* mutated form: nothing compared
Forward(m) == \A n \in DOMAIN served.entries :
  LET p == served.entries[n]
  IN IF n \notin DOMAIN m THEN p.status = "removed"
     ELSE /\ m[n].published = p.published /\ Rank(m[n].status) >= Rank(p.status)

\* signProblems()
MaySign(f) ==
  /\ ValidFile(f, now) /\ InManifest(f) # {}
  /\ Consistent(Entries(f), now) /\ RescueTargets(f, now) /\ NothingOld(f, now) /\ Forward(Entries(f))

\* checkChannel(), when publishing and, with every version ever served, in CI.
EndsKept(d) == \A n \in DOMAIN d.entries : d.entries[n].status = "removed" /\ n \in ran => d.entries[n].ends # 0
MayPublish(d) ==
  /\ ValidFile(list, now) /\ d.entries = Entries(list)
  /\ d.serial <= serial /\ d.serial > served.serial /\ Forward(d.entries)
  /\ Consistent(d.entries, d.issued) /\ RescueTargets(list, d.issued)
  /\ NothingOld(list, now) /\ NotOverdue(list, now) /\ EndsKept(d)
  /\ \A n \in Listed : list[n].admits \subseteq DOMAIN d.entries

--------------------------------------------------------------------------------
First   == [status |-> "active", sealed |-> TRUE, admits |-> {}, published |-> 1, ends |-> 0, rescue |-> FALSE]
Release1 == [n \in {1} |-> First]
Doc1    == [serial |-> 1, issued |-> 1, entries |-> Release1]
NoJob   == [at |-> "idle", doc |-> Doc1]

Init ==
  /\ list = Release1 /\ serial = 1 /\ keys = [n \in {1} |-> {}]
  /\ docs = {Doc1} /\ job = NoJob /\ bucket = {1} /\ served = Doc1 /\ ran = {1}
  /\ edits = 0 /\ now = 1

TypeOK ==
  /\ IsList(list)
  /\ DOMAIN keys \subseteq Releases /\ \A n \in DOMAIN keys : keys[n] \subseteq 1..(n - 1)
  /\ serial \in 1..MaxSerial /\ (\A d \in docs : IsDoc(d)) /\ served \in docs
  /\ job.at \in {"idle", "raised", "checked", "uploaded"} /\ IsDoc(job.doc)
  /\ bucket \subseteq 1..MaxSerial /\ ran \subseteq Releases /\ edits \in 0..MaxEdits /\ now \in Times

(* The owner's edits of the list; CDK refuses a file that is not valid.    *)
Edit(f) ==
  /\ job.at = "idle" /\ edits < MaxEdits /\ edits' = edits + 1
  /\ f # list /\ ValidFile(f, now) /\ list' = f
  /\ UNCHANGED <<serial, keys, docs, job, bucket, served, ran, now>>

\* RUNBOOK "Adding a release": the channel's next number, before its key exists.
AddRelease ==
  \E n \in Releases \ Listed, A \in SUBSET Listed :
    /\ \A m \in Listed \cup DOMAIN keys : m < n
    /\ Edit([m \in Listed \cup {n} |->
               IF m = n THEN [status |-> "candidate", sealed |-> FALSE, admits |-> A, published |-> 0,
                              ends |-> 0, rescue |-> FALSE] ELSE list[m]])

\* Statuses go one way (RUNBOOK): nothing compares two edits made between signatures.
EditEntry ==
  \E n \in Listed, s \in Statuses \ {"candidate"}, t \in {0} \cup now..MaxTime :
    /\ list[n].sealed /\ Rank(list[n].status) <= Rank(s)
    /\ LET since == list[n].published
       IN Edit([list EXCEPT ![n] = [list[n] EXCEPT !.status = s, !.ends = t, !.rescue = FALSE,
                                                   !.published = IF since = 0 THEN now ELSE since]])

Rescue == \E n \in Listed : Edit([list EXCEPT ![n].rescue = ~@])

DropRelease == \E n \in Listed : list[n].status \in {"candidate", "removed"} /\ Edit([m \in Listed \ {n} |-> list[m]])

\* The release-key custom resource makes a key once, with the list of its moment;
\* the owner then writes its ARN into the list.
CreateKey ==
  \E n \in Listed \ DOMAIN keys :
    /\ job.at = "idle" /\ ValidFile(list, now)
    /\ keys' = [m \in DOMAIN keys \cup {n} |-> IF m = n THEN list[n].admits ELSE keys[m]]
    /\ list' = [list EXCEPT ![n].sealed = TRUE]
    /\ UNCHANGED <<serial, docs, job, bucket, served, ran, edits, now>>

--------------------------------------------------------------------------------
(* manifest.ts sign, upload and publish; they stop wherever a call fails.  *)

NextSerial == (IF served.serial > serial THEN served.serial ELSE serial) + 1

\* sign: signed_serial is raised in the file before the key signs.
RaiseLate == UNCHANGED serial   \* mutated form: written after the signature
Raise == serial' = NextSerial

StartSign ==
  /\ job.at = "idle" /\ NextSerial <= MaxSerial /\ MaySign(list)
  /\ Raise
  /\ job' = [at |-> "raised", doc |-> [serial |-> NextSerial, issued |-> now, entries |-> Entries(list)]]
  /\ UNCHANGED <<list, keys, docs, bucket, served, ran, edits, now>>

Sign ==
  /\ job.at = "raised" /\ docs' = docs \cup {job.doc} /\ job' = NoJob
  /\ UNCHANGED <<list, serial, keys, bucket, served, ran, edits, now>>

\* publish: its checks, the copy in the bucket, then the served file and the commit.
StartPublish ==
  /\ job.at = "idle"
  /\ \E d \in docs : MayPublish(d) /\ job' = [at |-> "checked", doc |-> d]
  /\ UNCHANGED <<list, serial, keys, docs, bucket, served, ran, edits, now>>

\* upload, also on its own for a canary: an object there is never replaced.
Upload ==
  /\ \/ job.at = "checked" /\ job' = [job EXCEPT !.at = "uploaded"] /\ bucket' = bucket \cup {job.doc.serial}
     \/ job.at = "idle" /\ job' = job /\ \E d \in docs : bucket' = bucket \cup {d.serial}
  /\ UNCHANGED <<list, serial, keys, docs, served, ran, edits, now>>

ServableEarly == job.at \in {"checked", "uploaded"}   \* mutated form: the file before the copy
Servable == job.at = "uploaded"

Serve ==
  /\ Servable /\ served' = job.doc /\ job' = NoJob
  /\ ran' = ran \cup {n \in DOMAIN job.doc.entries : job.doc.entries[n].status # "removed"}
  /\ UNCHANGED <<list, serial, keys, docs, bucket, edits, now>>

Stop == job.at # "idle" /\ job' = NoJob /\ UNCHANGED <<list, serial, keys, docs, bucket, served, ran, edits, now>>

Tick ==
  /\ now < MaxTime /\ job.at = "idle" /\ now' = now + 1
  /\ UNCHANGED <<list, serial, keys, docs, job, bucket, served, ran, edits>>

Next ==
  \/ AddRelease \/ EditEntry \/ Rescue \/ DropRelease \/ CreateKey
  \/ StartSign \/ Sign \/ StartPublish \/ Upload \/ Serve \/ Stop \/ Tick

Spec == Init /\ [][Next]_vars

--------------------------------------------------------------------------------
(* "A rescue always has a target": while a removed release the served      *)
(* manifest lists may still be rescued, the key of the newest active       *)
(* release admits it (release-list.ts, rescueTargetProblems).              *)
RescueHasTarget ==
  LET m == served.entries IN
  Actives(m) # {} => \A n \in DOMAIN m :
    n < Newest(Actives(m)) /\ Rescuable(m[n], now) => n \in keys[Newest(Actives(m))]

(* Nobody is left behind: a vault of any release that still runs can move  *)
(* into the newest active one, whose key was made when the list said so    *)
(* (release-list.ts, admittedAtKeyCreation).                               *)
EveryoneCanMove ==
  LET m == served.entries IN
  Actives(m) # {} => \A n \in DOMAIN m :
    m[n].status \in {"deprecated", "retired"} => n \in keys[Newest(Actives(m))]

(* The first release runs for its own window after the second one was      *)
(* published, whatever order the list was edited and signed in             *)
(* (validateReleaseFile, FIRST_RELEASE_WINDOW).                            *)
FirstReleaseKept ==
  2 \in DOMAIN served.entries /\ now < served.entries[2].published + FirstWindow =>
    1 \in DOMAIN served.entries /\ served.entries[1].status # "removed"

(* No two manifests were ever signed with one serial, published or not,    *)
(* and what is served has its copy in the bucket (manifest.ts, sign and    *)
(* publish).                                                               *)
SignedOnce ==
  /\ \A d, e \in docs : d.serial = e.serial => d = e
  /\ served.serial \in bucket
================================================================================
