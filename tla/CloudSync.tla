------------------------------ MODULE CloudSync ------------------------------
(***************************************************************************)
(* The CloudSyncService of packages/api/src/cloudsync/service.ts beside    *)
(* the BackupService: syncNow uploads the local archives, pruneRemote      *)
(* deletes old objects, restoreRemote downloads an object and imports it,  *)
(* and saveConfig points all of them at another bucket.                    *)
(*                                                                         *)
(* An object goes by the name of its archive.  A request to S3 is two      *)
(* steps, its execution there and its answer here, either of which may     *)
(* fail; a call keeps the bucket it began with.  Between two requests a    *)
(* call runs to its next request in one step.                              *)
(***************************************************************************)
EXTENDS BackupStore, Sequences

CONSTANTS
  Syncs,         \* calls of syncNow
  Prunes,        \* calls of pruneRemote
  Buckets,       \* what endpoint and bucket may be configured to
  FirstBucket,
  NoBackup,      \* null
  CloudOverlaps, \* whether syncs and prunes may overlap
  MaxReconfigs   \* bound: how often saveConfig changes the bucket

ASSUME CloudAssumption ==
  /\ FirstBucket \in Buckets
  /\ NoBackup \notin Backups
  /\ CloudOverlaps \in BOOLEAN
  /\ MaxReconfigs \in Nat

VARIABLES
  remote,    \* the objects in each bucket and whether they are past retention
  bucket,    \* cloud_sync_config.bucket
  recorded,  \* archives with a row in cloud_sync_objects
  sync,      \* calls of syncNow: step, rows still to do, bucket
  prune,     \* calls of pruneRemote: step, objects still to do, bucket, object
  fetch,     \* calls of restoreRemote: step of the download, object
  reconfigs

cloudVars == <<remote, bucket, recorded, sync, prune, fetch, reconfigs>>
cloudAndBackupVars == <<backupVars, cloudVars>>

CloudTypeOK ==
  /\ BackupTypeOK
  /\ remote \in [Buckets -> [Backups -> {"none", "fresh", "old"}]]
  /\ bucket \in Buckets
  /\ recorded \subseteq Backups
  /\ sync \in [Syncs ->
       [at : {"idle", "put", "answer", "done"}, todo : Seq(Backups), bucket : Buckets]]
  /\ prune \in [Prunes ->
       [at : {"idle", "delete", "answer"} \cup CallEnds,
        todo : SUBSET Backups, bucket : Buckets, object : Backups \cup {NoBackup}]]
  /\ fetch \in [Imports ->
       [at : {"idle", "answer", "done"}, object : Backups \cup {NoBackup}]]
  /\ reconfigs \in 0..MaxReconfigs

CloudInit ==
  /\ Init
  /\ remote = [k \in Buckets |-> [b \in Backups |-> "none"]]
  /\ bucket = FirstBucket
  /\ recorded = {}
  /\ sync = [s \in Syncs |->
       [at |-> "idle", todo |-> <<>>, bucket |-> FirstBucket]]
  /\ prune = [x \in Prunes |->
       [at |-> "idle", todo |-> {}, bucket |-> FirstBucket, object |-> NoBackup]]
  /\ fetch = [i \in Imports |->
       [at |-> "idle", object |-> NoBackup]]
  /\ reconfigs = 0

SetObject(k, b, age) == remote' = [remote EXCEPT ![k][b] = age]

Quiet ==
  /\ \A s \in Syncs : sync[s].at \notin {"put", "answer"}
  /\ \A x \in Prunes : prune[x].at \notin {"delete", "answer"}

MayBegin == CloudOverlaps \/ Quiet

----------------------------------------------------------------------------
(* syncNow.                                                                 *)

RowsInOrder ==
  CHOOSE q \in [1..Cardinality(Rows) -> Rows] :
    \A m, n \in DOMAIN q : m < n => seq[q[m]] < seq[q[n]]

\* The loop over todo up to its next upload: an archive whose file has gone
\* fails, one already recorded is skipped.  A file never changes, so that the
\* recorded size and hash are those of the file.
Uploads(todo, known) == {n \in DOMAIN todo : todo[n] \in files \ known}

NextUpload(todo, known) ==
  CHOOSE n \in Uploads(todo, known) : \A m \in Uploads(todo, known) : n <= m

Synced == [at |-> "done", todo |-> <<>>, bucket |-> FirstBucket]

SyncGoesOn(s, todo, known) ==
  IF Uploads(todo, known) = {}
  THEN sync' = [sync EXCEPT ![s] = Synced]
  ELSE sync' = [sync EXCEPT
         ![s].at = "put",
         ![s].todo = SubSeq(todo, NextUpload(todo, known), Len(todo)),
         ![s].bucket = IF sync[s].at = "idle" THEN bucket ELSE @]

SyncBegins(s) ==
  /\ sync[s].at = "idle"
  /\ MayBegin
  /\ SyncGoesOn(s, RowsInOrder, recorded)
  /\ UNCHANGED <<remote, bucket, recorded, prune, fetch, reconfigs>>

PutArrives(s) ==
  /\ sync[s].at = "put"
  /\ SetObject(sync[s].bucket, Head(sync[s].todo), "fresh")
  /\ sync' = [sync EXCEPT ![s].at = "answer"]
  /\ UNCHANGED <<bucket, recorded, prune, fetch, reconfigs>>

PutAnswers(s) ==
  /\ sync[s].at = "answer"
  /\ recorded' = recorded \cup {Head(sync[s].todo)}
  /\ SyncGoesOn(s, Tail(sync[s].todo), recorded')
  /\ UNCHANGED <<remote, bucket, prune, fetch, reconfigs>>

\* The request or its answer is lost, or S3 refuses: the loop goes on.
PutFails(s) ==
  /\ sync[s].at \in {"put", "answer"}
  /\ SyncGoesOn(s, Tail(sync[s].todo), recorded)
  /\ UNCHANGED <<remote, bucket, recorded, prune, fetch, reconfigs>>

----------------------------------------------------------------------------
(* pruneRemote.                                                             *)

Pruned == [at |-> "done", todo |-> {}, bucket |-> FirstBucket, object |-> NoBackup]

PruneGoesOn(x, k, todo) ==
  IF todo = {} THEN prune' = [prune EXCEPT ![x] = Pruned]
  ELSE \E b \in todo : prune' = [prune EXCEPT ![x] =
         [at |-> "delete", todo |-> todo \ {b}, bucket |-> k, object |-> b]]

\* A listing has no effect, so it is taken when S3 makes it.
PruneBegins(x) ==
  /\ prune[x].at = "idle"
  /\ MayBegin
  /\ PruneGoesOn(x, bucket, {b \in Backups : remote[bucket][b] = "old"})
  /\ UNCHANGED <<remote, bucket, recorded, sync, fetch, reconfigs>>

DeleteArrives(x) ==
  /\ prune[x].at = "delete"
  /\ SetObject(prune[x].bucket, prune[x].object, "none")
  /\ prune' = [prune EXCEPT ![x].at = "answer"]
  /\ UNCHANGED <<bucket, recorded, sync, fetch, reconfigs>>

\* Mutant: the object is deleted, its row in cloud_sync_objects is not.
DeleteAnswersKeepsRecord(x) ==
  /\ prune[x].at = "answer"
  /\ PruneGoesOn(x, prune[x].bucket, prune[x].todo)
  /\ UNCHANGED <<remote, bucket, recorded, sync, fetch, reconfigs>>

DeleteAnswers(x) ==
  /\ prune[x].at = "answer"
  /\ recorded' = recorded \ {prune[x].object}
  /\ PruneGoesOn(x, prune[x].bucket, prune[x].todo)
  /\ UNCHANGED <<remote, bucket, sync, fetch, reconfigs>>

\* A request or its answer is lost, or S3 refuses: the whole call fails.
PruneFails(x) ==
  /\ prune[x].at \in {"delete", "answer"}
  /\ prune' = [prune EXCEPT ![x].at = "failed", ![x].todo = {}]
  /\ UNCHANGED <<remote, bucket, recorded, sync, fetch, reconfigs>>

----------------------------------------------------------------------------
(* restoreRemote: the download, and what BackupStore has of the rest.       *)

\* A download has no effect, so it is taken when S3 makes it.
FetchBegins(i, b) ==
  /\ fetch[i].at = "idle"
  /\ remote[bucket][b] # "none"
  /\ fetch' = [fetch EXCEPT ![i] = [at |-> "answer", object |-> b]]
  /\ UNCHANGED <<remote, bucket, recorded, sync, prune, reconfigs>>

\* The download is over, one way or the other.
FetchOver(i) == fetch' = [fetch EXCEPT ![i] = [at |-> "done", object |-> NoBackup]]

FetchFails(i) ==
  /\ fetch[i].at = "answer"
  /\ FetchOver(i)
  /\ UNCHANGED <<remote, bucket, recorded, sync, prune, reconfigs>>

\* The archive goes to the profile its original has, if that has still a row.
OwnerOf(b) == IF seq[b] > 0 THEN owner[b] ELSE NoProfile

FetchEnds(i) ==
  /\ fetch[i].at = "answer"
  /\ FetchOver(i)
  /\ \/ ImportLands(i, OwnerOf(fetch[i].object))
     \/ ImportRefused(i)
     \/ ImportNotInserted(i)
  /\ UNCHANGED <<remote, bucket, recorded, sync, prune, reconfigs>>

----------------------------------------------------------------------------
(* saveConfig, the passing of days, and the death of the server.            *)

Reconfigure(k) ==
  /\ k # bucket
  /\ reconfigs < MaxReconfigs
  /\ bucket' = k
  /\ reconfigs' = reconfigs + 1
  /\ UNCHANGED <<remote, recorded, sync, prune, fetch>>

\* retentionDays go by, which is longer than any call.  Bound: only as long as
\* there is a prune left to notice.
Ages(k, b) ==
  /\ Quiet
  /\ \E x \in Prunes : prune[x].at = "idle"
  /\ remote[k][b] = "fresh"
  /\ SetObject(k, b, "old")
  /\ UNCHANGED <<bucket, recorded, sync, prune, fetch, reconfigs>>

CallsDie ==
  /\ sync' = [s \in Syncs |-> IF sync[s].at = "idle" THEN sync[s]
                              ELSE Synced]
  /\ prune' = [x \in Prunes |-> IF prune[x].at \in {"delete", "answer"}
       THEN [prune[x] EXCEPT !.at = "failed", !.todo = {}] ELSE prune[x]]
  /\ fetch' = [i \in Imports |-> IF fetch[i].at = "idle" THEN fetch[i]
                                 ELSE [at |-> "done", object |-> NoBackup]]
  /\ UNCHANGED <<remote, bucket, recorded, reconfigs>>

CloudDeath ==
  /\ CallsDie
  /\ \/ DeathStep
     \/ \E i \in Imports : /\ fetch[i].at = "answer"
                           /\ DiesInImport(i, OwnerOf(fetch[i].object))

----------------------------------------------------------------------------
CloudStep ==
  \/ \E s \in Syncs :
       SyncBegins(s) \/ PutArrives(s) \/ PutAnswers(s) \/ PutFails(s)
  \/ \E x \in Prunes :
       PruneBegins(x) \/ DeleteArrives(x) \/ DeleteAnswers(x) \/ PruneFails(x)
  \/ \E i \in Imports :
       (\E b \in Backups : FetchBegins(i, b)) \/ FetchFails(i)
  \/ \E k \in Buckets : Reconfigure(k) \/ \E b \in Backups : Ages(k, b)

CloudNext ==
  \/ LocalStep /\ UNCHANGED cloudVars
  \/ CloudStep /\ UNCHANGED backupVars
  \/ \E i \in Imports : FetchEnds(i)
  \/ CloudDeath

CloudSpec == CloudInit /\ [][CloudNext]_cloudAndBackupVars

----------------------------------------------------------------------------
\* What cloud_sync_objects says has been uploaded is in some bucket, unless a
\* prune that deleted it has failed, has died or still waits for the answer.
\* syncNow never looks at the bucket, so nothing would upload it again.
RecordedIsSomewhere ==
  \A b \in recorded :
    \/ \E k \in Buckets : remote[k][b] # "none"
    \/ \E x \in Prunes :
         prune[x].object = b /\ prune[x].at \in {"answer", "failed"}
=============================================================================
