------------------------------- MODULE ManifestSync ------------------------------
(***************************************************************************)
(* The routing rows of the vault's releases, kept to the signed manifest   *)
(* the site serves (lambda/vault/manifest-sync.ts; shared/manifest.ts).    *)
(* A run every five minutes and one by hand after a publish: two may       *)
(* overlap, and what is served may be an older document again.             *)
(***************************************************************************)
EXTENDS Integers, Sequences, FiniteSetsExt

CONSTANTS Releases, Runs,
          Docs,             \* the documents, in order: [key, serial, list]: key the one
                            \* its bytes' signature is of, list a sequence of [number, pcr0]
          Pinned,           \* the manifest keys a run is configured with
          MaxSyncs          \* bound: runs begun

VARIABLES
  row,       \* of each release: the manifest it was synced from, Canary or None
  published, \* the documents that may be served: 1..published
  run,       \* where each run is, its manifest, and what it has still to write
  synced,    \* history: the highest serial of a run that finished
  syncs

vars == <<row, published, run, synced, syncs>>

None   == 0
Canary == -1   \* a row of the operator's, with no manifest_serial
Manifests == 1..Len(Docs)
Serial(d) == Docs[d].serial
Entries(d) == Range(Docs[d].list)
Listed(d)  == {e.pcr0 : e \in Entries(d)}

\* verifyServed(): an envelope that is whole, signed under a pinned key.
VerifiesAnyKey(d) == TRUE   \* mutated form: under whichever key it names
Verifies(d) == Docs[d].key \in Pinned

\* parseManifest(): numbers that increase and no measurement twice.
FormedAny(d) == Docs[d].list # <<>>   \* mutated form: the entries are not compared
Formed(d) ==
  /\ Serial(d) >= 1 /\ Docs[d].list # <<>>
  /\ \A i, j \in DOMAIN Docs[d].list : i < j => Docs[d].list[i].number < Docs[d].list[j].number
  /\ Cardinality(Listed(d)) = Len(Docs[d].list)
Synced    == {r \in Releases : row[r] \in Manifests}
Top       == Max({0} \cup {Serial(row[r]) : r \in Synced})
Idle      == [at |-> "idle", doc |-> 0, puts |-> {}, dels |-> {}, base |-> 0]

TypeOK ==
  /\ row \in [Releases -> {None, Canary} \cup Manifests]
  /\ published \in 0..Len(Docs) /\ syncs \in 0..MaxSyncs /\ synced \in Nat
  /\ \A n \in Runs :
       /\ run[n].at \in {"idle", "plan", "write"} /\ run[n].doc \in 0..published /\ run[n].base \in Nat
       /\ run[n].puts \subseteq Releases /\ run[n].dels \subseteq Releases \ run[n].puts
       /\ run[n].at = "idle" => run[n] = Idle

Init ==
  /\ row = [r \in Releases |-> None] /\ published = 0 /\ run = [n \in Runs |-> Idle]
  /\ synced = 0 /\ syncs = 0

Publish ==
  /\ published < Len(Docs) /\ published' = published + 1
  /\ UNCHANGED <<row, run, synced, syncs>>

\* The operator's canary row, put before its release is published, or taken away.
OperatorRow(r) ==
  /\ \/ row[r] = None /\ row' = [row EXCEPT ![r] = Canary]
     \/ row[r] = Canary /\ row' = [row EXCEPT ![r] = None]
  /\ UNCHANGED <<published, run, synced, syncs>>

Served == 1..published   \* fetchServed(): the newest, or what a cache still has

\* No key pinned, nothing served, a failed fetch, a document that is refused: nothing changes.
Fetch(n) ==
  /\ run[n].at = "idle" /\ syncs < MaxSyncs /\ syncs' = syncs + 1
  /\ \E d \in Served : run' = IF ~Verifies(d) \/ ~Formed(d) THEN run ELSE [run EXCEPT ![n] = [Idle EXCEPT !.at = "plan", !.doc = d]]
  /\ UNCHANGED <<row, published, synced>>

RejectNone(d) == FALSE   \* mutated form: whatever is served is synced
Reject(d) ==
  \/ Serial(d) < Top
  \/ \E r \in Synced : Serial(row[r]) = Serial(d) /\ Serial(d) = Top /\ row[r] # d   \* other bytes

\* syncPlan() on the rows scanned.
Plan(n) ==
  /\ run[n].at = "plan"
  /\ LET d == run[n].doc
     IN run' = [run EXCEPT ![n] = IF Reject(d) THEN Idle
                  ELSE [at |-> "write", doc |-> d, puts |-> Listed(d),
                        dels |-> Synced \ Listed(d), base |-> synced]]
  /\ UNCHANGED <<row, published, synced, syncs>>

OlderRowAny(r, d) == TRUE   \* mutated form: written whatever a newer sync wrote meanwhile
OlderRow(r, d) == row[r] \in Manifests => Serial(row[r]) <= Serial(d)

\* A concurrent, newer sync wins.
Upsert(n, r) ==
  /\ run[n].at = "write" /\ r \in run[n].puts
  /\ run' = [run EXCEPT ![n].puts = @ \ {r}]
  /\ row' = IF OlderRow(r, run[n].doc) THEN [row EXCEPT ![r] = run[n].doc] ELSE row
  /\ UNCHANGED <<published, synced, syncs>>

Delete(n, r) ==
  /\ run[n].at = "write" /\ run[n].puts = {} /\ r \in run[n].dels
  /\ run' = [run EXCEPT ![n].dels = @ \ {r}]
  /\ row' = IF row[r] \in Manifests /\ Serial(row[r]) < Serial(run[n].doc)
            THEN [row EXCEPT ![r] = None] ELSE row
  /\ UNCHANGED <<published, synced, syncs>>

Finish(n) ==
  /\ run[n].at = "write" /\ run[n].puts = {} /\ run[n].dels = {}
  /\ run' = [run EXCEPT ![n] = Idle]
  /\ synced' = Max({synced, Serial(run[n].doc)})
  /\ UNCHANGED <<row, published, syncs>>

\* A write that fails ends the run where it is.
Fails(n) ==
  /\ run[n].at # "idle" /\ run' = [run EXCEPT ![n] = Idle]
  /\ UNCHANGED <<row, published, synced, syncs>>

Next ==
  \/ Publish
  \/ \E r \in Releases : OperatorRow(r)
  \/ \E n \in Runs : Fetch(n) \/ Plan(n) \/ Finish(n) \/ Fails(n)
                       \/ \E r \in Releases : Upsert(n, r) \/ Delete(n, r)
Spec == Init /\ [][Next]_vars

--------------------------------------------------------------------------------
(* Once a sync of a manifest has finished, a run that begins after it      *)
(* writes from no older one, whatever is served by then; and a row is      *)
(* never written back to an older manifest: a withdrawn release comes back *)
(* only through a run that overlapped its withdrawal, until the next run   *)
(* (manifest-sync.ts, "Refuses a manifest whose serial is lower" and "A    *)
(* concurrent, newer sync wins").                                          *)
NoRollback ==   \* of every step
  /\ \A n \in Runs : run'[n].at = "write" => Serial(run'[n].doc) >= run'[n].base
  /\ \A r \in Synced : row'[r] \in Manifests => Serial(row'[r]) >= Serial(row[r])

(* The routing rows are of releases someone with a pinned key signed, and  *)
(* a number names one release: an instance is asked for by the number, a   *)
(* vault by the measurement (shared/manifest.ts; parseManifest, "release   *)
(* numbers must increase", "duplicate pcr0").                              *)
Numbers(r) == {e.number : e \in {e \in Entries(row[r]) : e.pcr0 = r}}

RowsSigned ==
  /\ \A r \in Synced : Docs[row[r]].key \in Pinned /\ Cardinality(Numbers(r)) = 1
  /\ \A r, q \in Synced : r # q /\ row[r] = row[q] => Numbers(r) # Numbers(q)
================================================================================
