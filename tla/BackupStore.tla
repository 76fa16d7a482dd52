----------------------------- MODULE BackupStore -----------------------------
(***************************************************************************)
(* The BackupService of packages/api/src/backups/service.ts: archives of   *)
(* profile directories, each a .mlbackup file and a row of the backups     *)
(* table, which are created, thinned out per profile, restored into new    *)
(* profiles and deleted; and the local half of restoreRemote in            *)
(* cloudsync/service.ts, which imports a downloaded archive.               *)
(*                                                                         *)
(* Each call is used once and gives its name to what it makes: a create    *)
(* or an import to its archive, a restore or an import to its profile.     *)
(* The archive itself is its name.  What runs between two awaits of child  *)
(* processes, browsers or the network is one step, for node:sqlite answers *)
(* synchronously; only the death of the server gets in between.            *)
(***************************************************************************)
EXTENDS Naturals, FiniteSets

CONSTANTS
  Sources,    \* profiles that exist from the start
  Creates,    \* calls of createBackup
  Restores,   \* calls of restoreBackup
  Imports,    \* calls of restoreRemote
  NoProfile,  \* a profile_id no profile has
  Retention,  \* options.retention; 0 keeps everything
  Used,       \* bound: the profiles that anybody launches or backs up
  MaxDeaths   \* bound: how often the server process dies

Backups == Creates \cup Imports
RestoreCalls == Restores \cup Imports
Profiles == Sources \cup RestoreCalls

ASSUME BackupAssumption ==
  /\ IsFiniteSet(Backups)
  /\ Creates \cap Imports = {}
  /\ Restores \cap Imports = {}
  /\ Sources \cap RestoreCalls = {}
  /\ NoProfile \notin Profiles
  /\ Used \subseteq Profiles
  /\ Retention \in Nat
  /\ MaxDeaths \in Nat

VARIABLES
  \* rows of SQLite
  seq,       \* backups.seq of each archive with a row, 0 without
  owner,     \* backups.profile_id
  nextSeq,   \* the AUTOINCREMENT counter of backups.seq
  profile,   \* profiles.state; "stopped" for every state without a browser
  \* the disk
  files,     \* archives with a .mlbackup file
  dir,       \* whether the directory of a profile is complete
  \* calls under way
  createAt,
  restoreAt,
  deaths

rows == <<seq, owner, nextSeq>>
calls == <<createAt, restoreAt>>
backupVars == <<rows, profile, files, dir, calls, deaths>>

ProfileStates == {"none", "stopped", "launching", "running", "stopping"}
CallEnds == {"done", "failed"}

BackupTypeOK ==
  /\ seq \in [Backups -> Nat]
  /\ owner \in [Backups -> Profiles \cup {NoProfile}]
  /\ nextSeq \in Nat \ {0}
  /\ profile \in [Profiles -> ProfileStates]
  /\ files \subseteq Backups
  /\ dir \in [Profiles -> {"none", "partial", "whole"}]
  /\ createAt \in [Creates -> {"idle", "stop", "tar"} \cup CallEnds]
  /\ restoreAt \in [RestoreCalls -> {"idle", "extract", "died", "unlisted"} \cup CallEnds]
  /\ deaths \in 0..MaxDeaths
  /\ \A b \in Backups : seq[b] < nextSeq

Init ==
  /\ seq = [b \in Backups |-> 0]
  /\ owner = [b \in Backups |-> NoProfile]
  /\ nextSeq = 1
  /\ profile = [p \in Profiles |-> IF p \in Sources THEN "stopped" ELSE "none"]
  /\ files = {}
  /\ dir = [p \in Profiles |-> IF p \in Sources THEN "whole" ELSE "none"]
  /\ createAt = [c \in Creates |-> "idle"]
  /\ restoreAt = [r \in RestoreCalls |-> "idle"]
  /\ deaths = 0

Rows == {b \in Backups : seq[b] > 0}

\* The table without the rows of the archives in gone.
Without(table, gone) == [b \in Backups |-> IF b \in gone THEN 0 ELSE table[b]]

CreateGoto(c, step) == createAt' = [createAt EXCEPT ![c] = step]
RestoreGoto(r, step) == restoreAt' = [restoreAt EXCEPT ![r] = step]

----------------------------------------------------------------------------
(* Profiles, as far as backups can tell: the manager launches and stops     *)
(* them for others.                                                         *)

SetState(p, from, to) ==
  /\ profile[p] = from
  /\ profile' = [profile EXCEPT ![p] = to]
  /\ UNCHANGED <<rows, files, dir, calls, deaths>>

Launch(p) == SetState(p, "stopped", "launching")
LaunchEnds(p) == \/ SetState(p, "launching", "running")
                 \/ SetState(p, "launching", "stopped")
BrowserDies(p) == SetState(p, "running", "stopped")
StopForOthers(p) == SetState(p, "running", "stopping")
OthersStopEnds(p) ==
  /\ \A c \in Creates : ~ (createAt[c] = "stop" /\ owner[c] = p)
  /\ SetState(p, "stopping", "stopped")

----------------------------------------------------------------------------
(* createBackup.                                                            *)

\* A running profile is stopped first, one in transition is refused.
CreateBegins(c, p) ==
  /\ createAt[c] = "idle"
  /\ profile[p] # "none"
  /\ owner' = [owner EXCEPT ![c] = p]
  /\ \/ /\ profile[p] = "running"
        /\ profile' = [profile EXCEPT ![p] = "stopping"]
        /\ CreateGoto(c, "stop")
     \/ /\ profile[p] = "stopped"
        /\ CreateGoto(c, "tar")
        /\ UNCHANGED profile
     \/ /\ profile[p] \in {"launching", "stopping"}
        /\ CreateGoto(c, "failed")
        /\ UNCHANGED profile
  /\ UNCHANGED <<seq, nextSeq, files, dir, restoreAt, deaths>>

CreateStops(c) ==
  /\ createAt[c] = "stop"
  /\ profile[owner[c]] = "stopping"
  /\ profile' = [profile EXCEPT ![owner[c]] = "stopped"]
  /\ CreateGoto(c, "tar")
  /\ UNCHANGED <<rows, files, dir, restoreAt, deaths>>

\* ProfileStopTimeoutError: the profile stays "stopping".  Or the profile was
\* a restore's and is gone.
CreateStopFails(c) ==
  /\ createAt[c] = "stop"
  /\ CreateGoto(c, "failed")
  /\ UNCHANGED <<rows, profile, files, dir, restoreAt, deaths>>

\* tar, the encryption, a write or the insert fails; the file goes again.
CreateFails(c) ==
  /\ createAt[c] = "tar"
  /\ CreateGoto(c, "failed")
  /\ UNCHANGED <<rows, profile, files, dir, restoreAt, deaths>>

\* The table once archive b has its row.
Inserted(b) == [seq EXCEPT ![b] = nextSeq]

\* Mutant: the table is read in ascending order.
NewerAscending(table, p, b) ==
  {n \in Backups : table[n] \in 1..(table[b] - 1) /\ owner[n] = p}

Newer(table, p, b) == {n \in Backups : table[n] > table[b] /\ owner[n] = p}

\* The rows of profile p beyond the newest Retention.
Extras(table, p) ==
  {b \in Backups : /\ Retention > 0
                   /\ table[b] > 0
                   /\ owner[b] = p
                   /\ Cardinality(Newer(table, p, b)) >= Retention}

\* Extras are dropped newest first; what is gone when the loop stops early.
DroppedSoFar(table, extras) ==
  {gone \in SUBSET extras :
     \A b \in gone : \A later \in extras \ gone : table[b] > table[later]}

CreateCommits(c) ==
  /\ createAt[c] = "tar"
  /\ LET table == Inserted(c)
         extras == Extras(table, owner[c])
     IN /\ seq' = Without(table, extras)
        /\ files' = (files \cup {c}) \ extras
  /\ nextSeq' = nextSeq + 1
  /\ CreateGoto(c, "done")
  /\ UNCHANGED <<owner, profile, dir, restoreAt, deaths>>

\* The insert is committed, but enforceRetention throws: so does the call.
RetentionFails(c) ==
  /\ createAt[c] = "tar"
  /\ LET table == Inserted(c)
     IN \E gone \in DroppedSoFar(table, Extras(table, owner[c])) :
          /\ seq' = Without(table, gone)
          /\ files' = (files \cup {c}) \ gone
  /\ nextSeq' = nextSeq + 1
  /\ CreateGoto(c, "failed")
  /\ UNCHANGED <<owner, profile, dir, restoreAt, deaths>>

----------------------------------------------------------------------------
(* restoreBackup.  The archive is read and decrypted at once; the new       *)
(* profile exists, and can be launched, while tar extracts.                 *)

NewProfile(r) ==
  /\ profile' = [profile EXCEPT ![r] = "stopped"]
  /\ dir' = [dir EXCEPT ![r] = "partial"]

RestoreBegins(r, b) ==
  /\ restoreAt[r] = "idle"
  /\ b \in Rows
  /\ b \in files
  /\ NewProfile(r)
  /\ RestoreGoto(r, "extract")
  /\ UNCHANGED <<rows, files, createAt, deaths>>

RestoreEnds(r) ==
  /\ restoreAt[r] = "extract"
  /\ dir' = [dir EXCEPT ![r] = "whole"]
  /\ RestoreGoto(r, "done")
  /\ UNCHANGED <<rows, profile, files, createAt, deaths>>

\* Mutant: the rollback forgets the row of the profile.
RollBackProfileKeepsRow(r) ==
  /\ restoreAt[r] = "extract"
  /\ dir' = [dir EXCEPT ![r] = "none"]
  /\ RestoreGoto(r, "failed")
  /\ UNCHANGED profile

RollBackProfile(r) ==
  /\ restoreAt[r] = "extract"
  /\ profile' = [profile EXCEPT ![r] = "none"]
  /\ dir' = [dir EXCEPT ![r] = "none"]
  /\ RestoreGoto(r, "failed")

RestoreFails(r) ==
  /\ RollBackProfile(r)
  /\ UNCHANGED <<rows, files, createAt, deaths>>

----------------------------------------------------------------------------
(* restoreRemote, from the downloaded bytes on: file, row, restoreBackup.   *)

ImportLands(i, p) ==
  /\ restoreAt[i] = "idle"
  /\ files' = files \cup {i}
  /\ seq' = Inserted(i)
  /\ owner' = [owner EXCEPT ![i] = p]
  /\ nextSeq' = nextSeq + 1
  /\ NewProfile(i)
  /\ RestoreGoto(i, "extract")
  /\ UNCHANGED <<createAt, deaths>>

\* restoreBackup refuses before it has made a profile: row and file go again.
ImportRefused(i) ==
  /\ restoreAt[i] = "idle"
  /\ nextSeq' = nextSeq + 1
  /\ RestoreGoto(i, "failed")
  /\ UNCHANGED <<seq, owner, profile, files, dir, createAt, deaths>>

\* The insert fails, and nothing takes the file back.
ImportNotInserted(i) ==
  /\ restoreAt[i] = "idle"
  /\ files' = files \cup {i}
  /\ RestoreGoto(i, "unlisted")
  /\ UNCHANGED <<rows, profile, dir, createAt, deaths>>

ImportFails(i) ==
  /\ RollBackProfile(i)
  /\ seq' = Without(seq, {i})
  /\ files' = files \ {i}
  /\ UNCHANGED <<owner, nextSeq, createAt, deaths>>

----------------------------------------------------------------------------
DeleteBackup(b) ==
  /\ b \in Rows
  /\ seq' = Without(seq, {b})
  /\ files' = files \ {b}
  /\ UNCHANGED <<owner, nextSeq, profile, dir, calls, deaths>>

----------------------------------------------------------------------------
(* The server process dies, on its own or in the middle of what is one step *)
(* above.  The boot reaper has no browser running when the next one listens.*)

Death ==
  /\ deaths < MaxDeaths
  /\ deaths' = deaths + 1
  /\ createAt' = [c \in Creates |->
       IF createAt[c] \in {"stop", "tar"} THEN "failed" ELSE createAt[c]]
  /\ restoreAt' = [r \in RestoreCalls |->
       IF restoreAt[r] = "extract" THEN "died" ELSE restoreAt[r]]

Reaped(table) ==
  [p \in Profiles |-> IF table[p] = "none" THEN "none" ELSE "stopped"]

ServerDies ==
  /\ Death
  /\ profile' = Reaped(profile)
  /\ UNCHANGED <<rows, files, dir>>

\* Before the insert, or anywhere in enforceRetention, which drops each row
\* before its file.
DiesInCreate(c) ==
  /\ createAt[c] = "tar"
  /\ Death
  /\ profile' = Reaped(profile)
  /\ LET table == Inserted(c)
     IN \/ /\ files' = files \cup {c}
           /\ UNCHANGED <<seq, nextSeq>>
        \/ \E gone \in DroppedSoFar(table, Extras(table, owner[c])) :
             \E last \in SUBSET gone :
               /\ \A b \in last : \A n \in gone : table[b] <= table[n]
               /\ seq' = Without(table, gone)
               /\ files' = (files \cup {c}) \ (gone \ last)
               /\ nextSeq' = nextSeq + 1
  /\ UNCHANGED <<owner, dir>>

\* Mutant: deleteBackup removes the file before the row.
DiesInDeleteFileFirst(b) ==
  /\ b \in Rows
  /\ Death
  /\ files' = files \ {b}
  /\ profile' = Reaped(profile)
  /\ UNCHANGED <<rows, dir>>

DiesInDelete(b) ==
  /\ b \in Rows
  /\ Death
  /\ seq' = Without(seq, {b})
  /\ profile' = Reaped(profile)
  /\ UNCHANGED <<owner, nextSeq, files, dir>>

\* Between writing the file, inserting the row and making the profile.
DiesInImport(i, p) ==
  /\ restoreAt[i] = "idle"
  /\ deaths < MaxDeaths
  /\ deaths' = deaths + 1
  /\ createAt' = [c \in Creates |->
       IF createAt[c] \in {"stop", "tar"} THEN "failed" ELSE createAt[c]]
  /\ restoreAt' = [r \in RestoreCalls |->
       IF r = i \/ restoreAt[r] = "extract" THEN "died" ELSE restoreAt[r]]
  /\ profile' = Reaped(profile)
  /\ files' = files \cup {i}
  /\ owner' = [owner EXCEPT ![i] = p]
  /\ \/ seq' = Inserted(i) /\ nextSeq' = nextSeq + 1
     \/ UNCHANGED <<seq, nextSeq>>
  /\ UNCHANGED dir

\* The rollback drops the profile's row, its directory, the row of an import.
DiesInRollback(r) ==
  /\ restoreAt[r] = "extract"
  /\ Death
  /\ profile' = [Reaped(profile) EXCEPT ![r] = "none"]
  /\ \/ UNCHANGED <<dir, seq>>
     \/ /\ dir' = [dir EXCEPT ![r] = "none"]
        /\ seq' \in {seq, Without(seq, {r})}
  /\ UNCHANGED <<owner, nextSeq, files>>

----------------------------------------------------------------------------
\* Bound: profiles only move as long as there is a create to meet them.
ProfileStep ==
  /\ \E c \in Creates : createAt[c] \in {"idle", "stop", "tar"}
  /\ \E p \in Used :
       \/ Launch(p)
       \/ LaunchEnds(p)
       \/ BrowserDies(p)
       \/ StopForOthers(p)
       \/ OthersStopEnds(p)

CreateStep ==
  \E c \in Creates :
    \/ \E p \in Used : CreateBegins(c, p)
    \/ CreateStops(c)
    \/ CreateStopFails(c)
    \/ CreateFails(c)
    \/ CreateCommits(c)
    \/ RetentionFails(c)

RestoreStep ==
  \/ \E r \in Restores : (\E b \in Backups : RestoreBegins(r, b)) \/ RestoreFails(r)
  \/ \E r \in RestoreCalls : RestoreEnds(r)
  \/ \E i \in Imports : ImportFails(i)

ImportStep ==
  \E i \in Imports :
    \/ \E p \in Profiles \cup {NoProfile} : ImportLands(i, p)
    \/ ImportRefused(i)
    \/ ImportNotInserted(i)

DeleteStep == \E b \in Backups : DeleteBackup(b)

DeathStep ==
  \/ ServerDies
  \/ \E c \in Creates : DiesInCreate(c)
  \/ \E b \in Backups : DiesInDelete(b)
  \/ \E r \in RestoreCalls : DiesInRollback(r)

ImportDeathStep ==
  \E i \in Imports, p \in Profiles \cup {NoProfile} : DiesInImport(i, p)

\* What happens without a word from the cloud.
LocalStep == ProfileStep \/ CreateStep \/ RestoreStep \/ DeleteStep

Next == LocalStep \/ ImportStep \/ DeathStep \/ ImportDeathStep

Spec == Init /\ [][Next]_backupVars

----------------------------------------------------------------------------
\* No row points at a missing file, wherever the server dies: restoreBackup
\* and syncNow find the archive of every row they read.
RowsHaveFiles == \A b \in Backups : seq[b] > 0 => b \in files

\* As long as the server has not died, no archive is left on the disk that no
\* row mentions, not by failed inserts, retention, or imports rolled back.  The
\* exception is an import whose insert fails: restoreRemote only rolls back
\* what restoreBackup throws.
FilesAreListed ==
  deaths = 0 => \A b \in files :
    \/ seq[b] > 0
    \/ b \in Imports /\ restoreAt[b] = "unlisted"

\* Counting back from an archive that createBackup has reported, its profile
\* has at most Retention archives, whatever other creates, imports and
\* deletions have done since.
KeepsAtMostRetention ==
  \A c \in Creates :
    (Retention > 0 /\ createAt[c] = "done" /\ seq[c] > 0) =>
      Cardinality({b \in Backups :
        seq[b] \in 1..seq[c] /\ owner[b] = owner[c]}) <= Retention

\* A step that inserts a row only drops archives of which the same profile
\* keeps Retention newer ones, even if it stops or dies midway.
RetentionSparesNewest ==
  [][nextSeq' # nextSeq =>
       \A b \in Backups : (seq[b] > 0 /\ seq'[b] = 0) =>
         Cardinality({n \in Backups :
           seq'[n] > seq[b] /\ owner'[n] = owner[b]}) >= Retention]_backupVars

\* A restore that succeeded has a complete profile to show; one that failed
\* leaves no profile, no directory, no row and no file; a partial directory
\* under an existing profile belongs to a restore under way or cut short.
RestoresAreAllOrNothing ==
  \A r \in RestoreCalls :
    /\ restoreAt[r] = "done" => profile[r] # "none" /\ dir[r] = "whole"
    /\ restoreAt[r] = "failed" =>
         /\ profile[r] = "none" /\ dir[r] = "none"
         /\ r \in Imports => r \notin files /\ seq[r] = 0
    /\ (profile[r] # "none" /\ dir[r] = "partial") =>
         restoreAt[r] \in {"extract", "died"}
=============================================================================
