--------------------------- MODULE CloudSync_proofs ---------------------------
(***************************************************************************)
(* The safety properties of the BackupService, for every number of calls,  *)
(* profiles and deaths of the server, and of cloud sync on top of it.      *)
(*                                                                         *)
(* That a create leaves at most Retention archives of its profile needs    *)
(* that no two rows have the same number (RowsAreNumbered): the oldest of  *)
(* those that stay has all the others above it.  That failures leave       *)
(* nothing needs that calls which have not begun, or have not inserted     *)
(* their row, own nothing yet (UnstartedOwnNothing); that a restore which  *)
(* ends has a profile, that it had one all along (ExtractingHasProfile).   *)
(*                                                                         *)
(* Cloud sync leaves the backup store as it is: to the local archives, a   *)
(* sync and a prune do nothing, and a download is one of the imports the   *)
(* store allows for.  What is proved of BackupStore thus holds of          *)
(* CloudSync.  That an upload which is recorded has an object needs that   *)
(* the object is still there when the answer arrives: no prune runs then.  *)
(***************************************************************************)
EXTENDS CloudSync, FiniteSetTheorems, SequenceTheorems, WellFoundedInduction, TLAPS

RowsAreNumbered ==
  \A a, b \in Backups : (seq[a] > 0 /\ seq[a] = seq[b]) => a = b

UnstartedOwnNothing ==
  /\ \A c \in Creates :
       createAt[c] \in {"idle", "stop", "tar"} => seq[c] = 0
  /\ \A r \in RestoreCalls : restoreAt[r] = "idle" =>
       /\ profile[r] = "none" /\ dir[r] = "none"
       /\ r \in Imports => r \notin files /\ seq[r] = 0

ExtractingHasProfile ==
  \A r \in RestoreCalls : restoreAt[r] = "extract" => profile[r] # "none"

BackupInv ==
  /\ BackupTypeOK
  /\ RowsHaveFiles
  /\ FilesAreListed
  /\ RestoresAreAllOrNothing
  /\ UnstartedOwnNothing
  /\ ExtractingHasProfile
  /\ RowsAreNumbered
  /\ KeepsAtMostRetention

-----------------------------------------------------------------------------
(* Numbers and retention.                                                   *)

\* A nonempty set of archives has one whose number is smallest.
LEMMA SmallestNumber ==
  ASSUME NEW S, NEW f \in [S -> Nat], NEW T, T \subseteq S, T # {}
  PROVE  \E x \in T : \A y \in T : f[x] <= f[y]
<1> DEFINE numbers == {f[x] : x \in T}
<1>1. numbers \subseteq Nat /\ numbers # {}
  OBVIOUS
<1>2. PICK n \in numbers : \A m \in numbers : ~ (<<m, n>> \in OpToRel(<, Nat))
  BY <1>1, WFMin, NatLessThanWellFounded, Zenon
<1>3. \A m \in numbers : n <= m
  <2>1. \A m \in Nat : ~ (m < n) => n <= m
    BY <1>1
  <2> QED BY <1>1, <1>2, <2>1 DEF OpToRel
<1> QED BY <1>3

\* If numbers are bounded, it also has one whose number is largest.
LEMMA LargestNumber ==
  ASSUME NEW S, NEW f \in [S -> Nat], NEW T, T \subseteq S, T # {},
         NEW bound \in Nat, \A x \in S : f[x] <= bound
  PROVE  \E x \in T : \A y \in T : f[y] <= f[x]
<1> DEFINE g == [x \in S |-> bound - f[x]]
<1>1. g \in [S -> Nat]
  OBVIOUS
<1>2. PICK x \in T : \A y \in T : g[x] <= g[y]
  <2> HIDE DEF g
  <2> QED BY <1>1, SmallestNumber
<1>3. \A y \in T : f[y] <= f[x]
  <2> SUFFICES ASSUME NEW y \in T
               PROVE  f[y] <= f[x]
    OBVIOUS
  <2>1. f[x] \in Nat /\ f[y] \in Nat /\ bound - f[x] <= bound - f[y]
    BY <1>2
  <2> QED BY <2>1
<1> QED BY <1>3

\* Sets of archives can be counted, and a smaller set has a smaller count.
LEMMA CountingArchives ==
  ASSUME NEW T, T \subseteq Backups
  PROVE  /\ IsFiniteSet(T)
         /\ Cardinality(T) \in Nat
         /\ \A part \in SUBSET T :
              IsFiniteSet(part) /\ Cardinality(part) <= Cardinality(T)
<1>1. IsFiniteSet(T)
  BY BackupAssumption, FS_Subset
<1> QED BY <1>1, FS_Subset, FS_CardinalityType

\* However far the loop of enforceRetention gets, each archive it drops leaves
\* Retention newer ones of its profile.
LEMMA NewestAreKept ==
  ASSUME NEW table \in [Backups -> Nat], NEW p,
         NEW bound \in Nat, \A b \in Backups : table[b] <= bound,
         NEW gone \in DroppedSoFar(table, Extras(table, p)), NEW b \in gone
  PROVE  Cardinality({n \in Backups :
           Without(table, gone)[n] > table[b] /\ owner[n] = p}) >= Retention
<1> DEFINE kept == {n \in Backups :
             Without(table, gone)[n] > table[b] /\ owner[n] = p}
<1>1. gone \subseteq Extras(table, p) /\ gone \subseteq Backups
  BY DEF DroppedSoFar, Extras
<1>2. PICK e \in gone : \A g \in gone : table[g] <= table[e]
  BY <1>1, LargestNumber
<1>3. Newer(table, p, e) \subseteq kept
  <2> SUFFICES ASSUME NEW n \in Newer(table, p, e)
               PROVE  n \in kept
    OBVIOUS
  <2>1. n \in Backups /\ table[n] > table[e] /\ owner[n] = p
    BY DEF Newer
  <2>2. table[n] \in Nat /\ table[e] \in Nat /\ table[b] \in Nat
    BY <1>1, <2>1
  <2>3. n \notin gone
    BY <1>2, <2>1, <2>2
  <2>4. table[n] > table[b]
    BY <1>2, <2>1, <2>2
  <2> QED BY <2>1, <2>3, <2>4 DEF Without
<1>4. Cardinality(Newer(table, p, e)) >= Retention
  BY <1>1 DEF Extras
<1>5. Cardinality(Newer(table, p, e)) <= Cardinality(kept)
  BY <1>3, CountingArchives
<1>6. Cardinality(Newer(table, p, e)) \in Nat /\ Cardinality(kept) \in Nat
  <2>1. kept \subseteq Backups /\ Newer(table, p, e) \subseteq Backups
    BY DEF Newer
  <2> QED BY <2>1, CountingArchives
<1> QED BY <1>4, <1>5, <1>6, BackupAssumption

\* When the loop comes to its end, at most Retention archives stay.
LEMMA AtMostRetentionStay ==
  ASSUME NEW table \in [Backups -> Nat], NEW p, Retention > 0,
         \A a, b \in Backups : (table[a] > 0 /\ table[a] = table[b]) => a = b
  PROVE  Cardinality({b \in Backups : table[b] > 0 /\ owner[b] = p}
                       \ Extras(table, p)) <= Retention
<1> DEFINE stay == {b \in Backups : table[b] > 0 /\ owner[b] = p}
                     \ Extras(table, p)
<1>1. stay \subseteq Backups /\ IsFiniteSet(stay) /\ Cardinality(stay) \in Nat
  <2>1. stay \subseteq Backups
    OBVIOUS
  <2> QED BY <2>1, CountingArchives
<1>2. ASSUME stay = {}
      PROVE  Cardinality(stay) <= Retention
  <2> HIDE DEF stay
  <2>1. Cardinality(stay) = 0
    BY <1>2, FS_EmptySet
  <2> QED BY <2>1, BackupAssumption
<1>3. ASSUME stay # {}
      PROVE  Cardinality(stay) <= Retention
  <2>1. PICK x \in stay : \A y \in stay : table[x] <= table[y]
    BY <1>1, <1>3, SmallestNumber
  <2>2. stay \ {x} \subseteq Newer(table, p, x)
    BY <1>1, <2>1 DEF Newer
  <2>3. Cardinality(Newer(table, p, x)) < Retention
           /\ Cardinality(Newer(table, p, x)) \in Nat
    <3>1. Newer(table, p, x) \subseteq Backups
      BY DEF Newer
    <3>2. Cardinality(Newer(table, p, x)) \in Nat
      BY <3>1, CountingArchives
    <3>3. ~ (Cardinality(Newer(table, p, x)) >= Retention)
      BY <1>1, <2>1 DEF Extras
    <3> QED BY <3>2, <3>3, BackupAssumption
  <2>4. Cardinality(stay \ {x}) <= Cardinality(Newer(table, p, x))
    <3>1. Newer(table, p, x) \subseteq Backups
      BY DEF Newer
    <3> QED BY <2>2, <3>1, CountingArchives
  <2>5. Cardinality(stay \ {x}) = Cardinality(stay) - 1
    BY <1>1, <2>1, FS_RemoveElement
  <2> HIDE DEF stay
  <2> QED BY <1>1, <2>3, <2>4, <2>5, BackupAssumption
<1> QED BY <1>2, <1>3

-----------------------------------------------------------------------------
(* Steps.                                                                   *)

\* The empty store is fine.
LEMMA InitIsFine == Init => BackupInv
<1> SUFFICES ASSUME Init
             PROVE  BackupInv
  OBVIOUS
<1> USE BackupAssumption DEF Init, Backups, RestoreCalls, Profiles
<1>1. BackupTypeOK
  BY DEF BackupTypeOK, ProfileStates
<1>2. KeepsAtMostRetention
  BY DEF KeepsAtMostRetention
<1> QED BY <1>1, <1>2 DEF BackupInv, RowsHaveFiles, FilesAreListed,
     RestoresAreAllOrNothing, UnstartedOwnNothing, ExtractingHasProfile,
     RowsAreNumbered

\* Every step keeps the types, and numbers below the counter.
LEMMA TypeStep ==
  ASSUME BackupInv, Next
  PROVE  BackupTypeOK'
<1> USE BackupAssumption DEF BackupInv, BackupTypeOK, UnstartedOwnNothing, ExtractingHasProfile, rows, calls,
        CallEnds, ProfileStates, Backups, RestoreCalls, Profiles
<1>1. CASE ProfileStep
  BY <1>1 DEF ProfileStep, Launch, LaunchEnds, BrowserDies, StopForOthers,
         OthersStopEnds, SetState
<1>2. CASE CreateStep
  <2>1. CASE \E c \in Creates, p \in Used : CreateBegins(c, p)
    BY <2>1 DEF CreateBegins, CreateGoto
  <2>2. CASE \E c \in Creates : CreateStops(c)
    <3>1. PICK c \in Creates : CreateStops(c)
      BY <2>2
    <3>2. profile' \in [Profiles -> ProfileStates]
      <4> DEFINE p == owner[c]
      <4>1. profile \in [Profiles -> ProfileStates]
            /\ profile' = [profile EXCEPT ![p] = "stopped"]
        BY <3>1 DEF CreateStops
      <4> HIDE DEF p
      <4> QED BY <4>1
    <3> QED BY <3>1, <3>2 DEF CreateStops, CreateGoto
  <2>3. CASE \E c \in Creates : CreateStopFails(c) \/ CreateFails(c)
    BY <2>3 DEF CreateStopFails, CreateFails, CreateGoto
  <2>4. CASE \E c \in Creates : CreateCommits(c) \/ RetentionFails(c)
    BY <2>4 DEF CreateCommits, RetentionFails, CreateGoto, Inserted, Without, Extras, DroppedSoFar
  <2> QED BY <1>2, <2>1, <2>2, <2>3, <2>4 DEF CreateStep
<1>3. CASE RestoreStep
  BY <1>3 DEF RestoreStep, RestoreBegins, RestoreEnds, RestoreFails, ImportFails,
         NewProfile, RollBackProfile, RestoreGoto, Without, Rows
<1>4. CASE DeleteStep
  BY <1>4 DEF DeleteStep, DeleteBackup, Without, Rows
<1>5. CASE ImportStep
  BY <1>5 DEF ImportStep, ImportLands, ImportRefused, ImportNotInserted, NewProfile,
         RestoreGoto, Inserted
<1>6. CASE DeathStep
  <2>1. CASE ServerDies
    BY <2>1 DEF ServerDies, Death, Reaped
  <2>2. CASE \E c \in Creates : DiesInCreate(c)
    BY <2>2 DEF DiesInCreate, Death, Reaped, Inserted, Without, Extras, DroppedSoFar
  <2>3. CASE \E b \in Backups : DiesInDelete(b)
    BY <2>3 DEF DiesInDelete, Death, Reaped, Without, Rows
  <2>4. CASE \E r \in RestoreCalls : DiesInRollback(r)
    BY <2>4 DEF DiesInRollback, Death, Reaped, Without
  <2> QED BY <1>6, <2>1, <2>2, <2>3, <2>4 DEF DeathStep
<1>7. CASE ImportDeathStep
  BY <1>7 DEF ImportDeathStep, DiesInImport, Reaped, Inserted
<1> QED BY <1>1, <1>2, <1>3, <1>4, <1>5, <1>6, <1>7 DEF Next, LocalStep

\* Every step keeps rows and files together, up to the first death.
LEMMA FilesStep ==
  ASSUME BackupInv, Next
  PROVE  RowsHaveFiles' /\ FilesAreListed'
<1> USE BackupAssumption DEF BackupInv, BackupTypeOK, UnstartedOwnNothing, ExtractingHasProfile, rows, calls,
        RowsHaveFiles, FilesAreListed, Backups, RestoreCalls, Profiles
<1>1. CASE ProfileStep
  BY <1>1 DEF ProfileStep, Launch, LaunchEnds, BrowserDies, StopForOthers,
         OthersStopEnds, SetState
<1>2. CASE CreateStep
  <2>1. CASE \E c \in Creates, p \in Used : CreateBegins(c, p)
    BY <2>1 DEF CreateBegins, CreateGoto
  <2>2. CASE \E c \in Creates : CreateStops(c)
    BY <2>2 DEF CreateStops, CreateGoto
  <2>3. CASE \E c \in Creates : CreateStopFails(c) \/ CreateFails(c)
    BY <2>3 DEF CreateStopFails, CreateFails, CreateGoto
  <2>4. CASE \E c \in Creates : CreateCommits(c) \/ RetentionFails(c)
    <3>1. PICK c \in Creates : CreateCommits(c) \/ RetentionFails(c)
      BY <2>4
    <3>2. PICK gone : /\ seq' = Without(Inserted(c), gone)
                      /\ files' = (files \cup {c}) \ gone
      BY <3>1, Zenon DEF CreateCommits, RetentionFails
    <3>3. nextSeq \in Nat \ {0} /\ deaths' = deaths /\ restoreAt' = restoreAt
      BY <3>1 DEF CreateCommits, RetentionFails
    <3> QED BY <3>2, <3>3 DEF Inserted, Without
  <2> QED BY <1>2, <2>1, <2>2, <2>3, <2>4 DEF CreateStep
<1>3. CASE RestoreStep
  BY <1>3 DEF RestoreStep, RestoreBegins, RestoreEnds, RestoreFails, ImportFails,
         NewProfile, RollBackProfile, RestoreGoto, Without, Rows
<1>4. CASE DeleteStep
  BY <1>4 DEF DeleteStep, DeleteBackup, Without, Rows
<1>5. CASE ImportStep
  BY <1>5 DEF ImportStep, ImportLands, ImportRefused, ImportNotInserted, NewProfile,
         RestoreGoto, Inserted
<1>6. CASE DeathStep
  <2>1. CASE ServerDies
    BY <2>1 DEF ServerDies, Death, Reaped
  <2>2. CASE \E c \in Creates : DiesInCreate(c)
    BY <2>2 DEF DiesInCreate, Death, Reaped, Inserted, Without, Extras, DroppedSoFar
  <2>3. CASE \E b \in Backups : DiesInDelete(b)
    BY <2>3 DEF DiesInDelete, Death, Reaped, Without, Rows
  <2>4. CASE \E r \in RestoreCalls : DiesInRollback(r)
    BY <2>4 DEF DiesInRollback, Death, Reaped, Without
  <2> QED BY <1>6, <2>1, <2>2, <2>3, <2>4 DEF DeathStep
<1>7. CASE ImportDeathStep
  BY <1>7 DEF ImportDeathStep, DiesInImport, Reaped, Inserted
<1> QED BY <1>1, <1>2, <1>3, <1>4, <1>5, <1>6, <1>7 DEF Next, LocalStep

\* Every step leaves restores all or nothing.
LEMMA RestoresStep ==
  ASSUME BackupInv, Next
  PROVE  RestoresAreAllOrNothing'
<1> USE BackupAssumption DEF BackupInv, BackupTypeOK, UnstartedOwnNothing, ExtractingHasProfile, rows, calls,
        RestoresAreAllOrNothing, Backups, RestoreCalls, Profiles
<1>1. CASE ProfileStep
  BY <1>1 DEF ProfileStep, Launch, LaunchEnds, BrowserDies, StopForOthers,
         OthersStopEnds, SetState
<1>2. CASE CreateStep
  <2>1. CASE \E c \in Creates, p \in Used : CreateBegins(c, p)
    BY <2>1 DEF CreateBegins, CreateGoto
  <2>2. CASE \E c \in Creates : CreateStops(c)
    BY <2>2 DEF CreateStops, CreateGoto
  <2>3. CASE \E c \in Creates : CreateStopFails(c) \/ CreateFails(c)
    BY <2>3 DEF CreateStopFails, CreateFails, CreateGoto
  <2>4. CASE \E c \in Creates : CreateCommits(c) \/ RetentionFails(c)
    BY <2>4 DEF CreateCommits, RetentionFails, CreateGoto, Inserted, Without, Extras, DroppedSoFar
  <2> QED BY <1>2, <2>1, <2>2, <2>3, <2>4 DEF CreateStep
<1>3. CASE RestoreStep
  <2>1. CASE \E r \in Restores, b \in Backups : RestoreBegins(r, b)
    BY <2>1 DEF RestoreBegins, NewProfile, RestoreGoto
  <2>2. CASE \E r \in Restores : RestoreFails(r)
    BY <2>2 DEF RestoreFails, RollBackProfile, RestoreGoto
  <2>3. CASE \E r \in RestoreCalls : RestoreEnds(r)
    BY <2>3 DEF RestoreEnds, RestoreGoto
  <2>4. CASE \E i \in Imports : ImportFails(i)
    BY <2>4 DEF ImportFails, RollBackProfile, RestoreGoto, Without
  <2> QED BY <1>3, <2>1, <2>2, <2>3, <2>4 DEF RestoreStep
<1>4. CASE DeleteStep
  BY <1>4 DEF DeleteStep, DeleteBackup, Without, Rows
<1>5. CASE ImportStep
  BY <1>5 DEF ImportStep, ImportLands, ImportRefused, ImportNotInserted, NewProfile,
         RestoreGoto, Inserted
<1>6. CASE DeathStep
  <2>1. CASE ServerDies
    BY <2>1 DEF ServerDies, Death, Reaped
  <2>2. CASE \E c \in Creates : DiesInCreate(c)
    BY <2>2 DEF DiesInCreate, Death, Reaped, Inserted, Without, Extras, DroppedSoFar
  <2>3. CASE \E b \in Backups : DiesInDelete(b)
    BY <2>3 DEF DiesInDelete, Death, Reaped, Without, Rows
  <2>4. CASE \E r \in RestoreCalls : DiesInRollback(r)
    BY <2>4 DEF DiesInRollback, Death, Reaped, Without
  <2> QED BY <1>6, <2>1, <2>2, <2>3, <2>4 DEF DeathStep
<1>7. CASE ImportDeathStep
  BY <1>7 DEF ImportDeathStep, DiesInImport, Reaped, Inserted
<1> QED BY <1>1, <1>2, <1>3, <1>4, <1>5, <1>6, <1>7 DEF Next, LocalStep

\* Every step leaves calls that have not begun without possessions,
\* and a restore under way with its profile.
LEMMA UnstartedStep ==
  ASSUME BackupInv, Next
  PROVE  UnstartedOwnNothing' /\ ExtractingHasProfile'
<1> USE BackupAssumption DEF BackupInv, BackupTypeOK, UnstartedOwnNothing, ExtractingHasProfile, rows, calls,
        CallEnds, Backups, RestoreCalls, Profiles
<1>1. CASE ProfileStep
  BY <1>1 DEF ProfileStep, Launch, LaunchEnds, BrowserDies, StopForOthers,
         OthersStopEnds, SetState
<1>2. CASE CreateStep
  <2>1. CASE \E c \in Creates, p \in Used : CreateBegins(c, p)
    BY <2>1 DEF CreateBegins, CreateGoto
  <2>2. CASE \E c \in Creates : CreateStops(c)
    BY <2>2 DEF CreateStops, CreateGoto
  <2>3. CASE \E c \in Creates : CreateStopFails(c) \/ CreateFails(c)
    BY <2>3 DEF CreateStopFails, CreateFails, CreateGoto
  <2>4. CASE \E c \in Creates : CreateCommits(c) \/ RetentionFails(c)
    BY <2>4 DEF CreateCommits, RetentionFails, CreateGoto, Inserted, Without, Extras, DroppedSoFar
  <2> QED BY <1>2, <2>1, <2>2, <2>3, <2>4 DEF CreateStep
<1>3. CASE RestoreStep
  BY <1>3 DEF RestoreStep, RestoreBegins, RestoreEnds, RestoreFails, ImportFails,
         NewProfile, RollBackProfile, RestoreGoto, Without, Rows
<1>4. CASE DeleteStep
  BY <1>4 DEF DeleteStep, DeleteBackup, Without, Rows
<1>5. CASE ImportStep
  BY <1>5 DEF ImportStep, ImportLands, ImportRefused, ImportNotInserted, NewProfile,
         RestoreGoto, Inserted
<1>6. CASE DeathStep
  <2>1. CASE ServerDies
    BY <2>1 DEF ServerDies, Death, Reaped
  <2>2. CASE \E c \in Creates : DiesInCreate(c)
    BY <2>2 DEF DiesInCreate, Death, Reaped, Inserted, Without, Extras, DroppedSoFar
  <2>3. CASE \E b \in Backups : DiesInDelete(b)
    BY <2>3 DEF DiesInDelete, Death, Reaped, Without, Rows
  <2>4. CASE \E r \in RestoreCalls : DiesInRollback(r)
    BY <2>4 DEF DiesInRollback, Death, Reaped, Without
  <2> QED BY <1>6, <2>1, <2>2, <2>3, <2>4 DEF DeathStep
<1>7. CASE ImportDeathStep
  BY <1>7 DEF ImportDeathStep, DiesInImport, Reaped, Inserted
<1> QED BY <1>1, <1>2, <1>3, <1>4, <1>5, <1>6, <1>7 DEF Next, LocalStep

\* Every step keeps the numbers of rows apart.
LEMMA NumbersStep ==
  ASSUME BackupInv, Next
  PROVE  RowsAreNumbered'
<1> USE BackupAssumption DEF BackupInv, BackupTypeOK, UnstartedOwnNothing, ExtractingHasProfile, rows, calls,
        RowsAreNumbered, Backups, RestoreCalls, Profiles
<1>1. CASE ProfileStep
  BY <1>1 DEF ProfileStep, Launch, LaunchEnds, BrowserDies, StopForOthers,
         OthersStopEnds, SetState
<1>2. CASE CreateStep
  <2>1. CASE \E c \in Creates, p \in Used : CreateBegins(c, p)
    BY <2>1 DEF CreateBegins, CreateGoto
  <2>2. CASE \E c \in Creates : CreateStops(c)
    BY <2>2 DEF CreateStops, CreateGoto
  <2>3. CASE \E c \in Creates : CreateStopFails(c) \/ CreateFails(c)
    BY <2>3 DEF CreateStopFails, CreateFails, CreateGoto
  <2>4. CASE \E c \in Creates : CreateCommits(c) \/ RetentionFails(c)
    BY <2>4 DEF CreateCommits, RetentionFails, CreateGoto, Inserted, Without, Extras, DroppedSoFar
  <2> QED BY <1>2, <2>1, <2>2, <2>3, <2>4 DEF CreateStep
<1>3. CASE RestoreStep
  BY <1>3 DEF RestoreStep, RestoreBegins, RestoreEnds, RestoreFails, ImportFails,
         NewProfile, RollBackProfile, RestoreGoto, Without, Rows
<1>4. CASE DeleteStep
  BY <1>4 DEF DeleteStep, DeleteBackup, Without, Rows
<1>5. CASE ImportStep
  BY <1>5 DEF ImportStep, ImportLands, ImportRefused, ImportNotInserted, NewProfile,
         RestoreGoto, Inserted
<1>6. CASE DeathStep
  <2>1. CASE ServerDies
    BY <2>1 DEF ServerDies, Death, Reaped
  <2>2. CASE \E c \in Creates : DiesInCreate(c)
    BY <2>2 DEF DiesInCreate, Death, Reaped, Inserted, Without, Extras, DroppedSoFar
  <2>3. CASE \E b \in Backups : DiesInDelete(b)
    BY <2>3 DEF DiesInDelete, Death, Reaped, Without, Rows
  <2>4. CASE \E r \in RestoreCalls : DiesInRollback(r)
    BY <2>4 DEF DiesInRollback, Death, Reaped, Without
  <2> QED BY <1>6, <2>1, <2>2, <2>3, <2>4 DEF DeathStep
<1>7. CASE ImportDeathStep
  BY <1>7 DEF ImportDeathStep, DiesInImport, Reaped, Inserted
<1> QED BY <1>1, <1>2, <1>3, <1>4, <1>5, <1>6, <1>7 DEF Next, LocalStep

\* What a step does to the table: rows go, and at most one comes, with the next
\* number; a create inserts its row while it archives.
LEMMA TableStep ==
  ASSUME BackupInv, Next
  PROVE  /\ nextSeq' \in {nextSeq, nextSeq + 1}
         /\ \A b \in Backups :
              \/ seq'[b] \in {seq[b], 0}
              \/ /\ seq'[b] = nextSeq /\ nextSeq' = nextSeq + 1
                 /\ b \in Creates => createAt[b] = "tar"
         /\ \A b \in Backups : seq[b] > 0 => owner'[b] = owner[b]
<1> USE BackupAssumption DEF BackupInv, BackupTypeOK, UnstartedOwnNothing, ExtractingHasProfile, rows, calls,
        CallEnds, Backups, RestoreCalls, Profiles
<1>1. CASE ProfileStep
  BY <1>1 DEF ProfileStep, Launch, LaunchEnds, BrowserDies, StopForOthers,
         OthersStopEnds, SetState
<1>2. CASE CreateStep
  <2>1. CASE \E c \in Creates, p \in Used : CreateBegins(c, p)
    BY <2>1 DEF CreateBegins, CreateGoto
  <2>2. CASE \E c \in Creates : CreateStops(c)
    BY <2>2 DEF CreateStops, CreateGoto
  <2>3. CASE \E c \in Creates : CreateStopFails(c) \/ CreateFails(c)
    BY <2>3 DEF CreateStopFails, CreateFails, CreateGoto
  <2>4. CASE \E c \in Creates : CreateCommits(c) \/ RetentionFails(c)
    BY <2>4 DEF CreateCommits, RetentionFails, CreateGoto, Inserted, Without, Extras, DroppedSoFar
  <2> QED BY <1>2, <2>1, <2>2, <2>3, <2>4 DEF CreateStep
<1>3. CASE RestoreStep
  BY <1>3 DEF RestoreStep, RestoreBegins, RestoreEnds, RestoreFails, ImportFails,
         NewProfile, RollBackProfile, RestoreGoto, Without, Rows
<1>4. CASE DeleteStep
  BY <1>4 DEF DeleteStep, DeleteBackup, Without, Rows
<1>5. CASE ImportStep
  BY <1>5 DEF ImportStep, ImportLands, ImportRefused, ImportNotInserted, NewProfile,
         RestoreGoto, Inserted
<1>6. CASE DeathStep
  <2>1. CASE ServerDies
    BY <2>1 DEF ServerDies, Death, Reaped
  <2>2. CASE \E c \in Creates : DiesInCreate(c)
    BY <2>2 DEF DiesInCreate, Death, Reaped, Inserted, Without, Extras, DroppedSoFar
  <2>3. CASE \E b \in Backups : DiesInDelete(b)
    BY <2>3 DEF DiesInDelete, Death, Reaped, Without, Rows
  <2>4. CASE \E r \in RestoreCalls : DiesInRollback(r)
    BY <2>4 DEF DiesInRollback, Death, Reaped, Without
  <2> QED BY <1>6, <2>1, <2>2, <2>3, <2>4 DEF DeathStep
<1>7. CASE ImportDeathStep
  BY <1>7 DEF ImportDeathStep, DiesInImport, Reaped, Inserted
<1> QED BY <1>1, <1>2, <1>3, <1>4, <1>5, <1>6, <1>7 DEF Next, LocalStep

\* Only createBackup drops rows when it inserts one, and enforceRetention
\* chooses them.
LEMMA InsertingSteps ==
  ASSUME BackupInv, Next, nextSeq' # nextSeq
  PROVE  \/ \A b \in Backups : seq'[b] = 0 => seq[b] = 0
         \/ \E c \in Creates :
              /\ seq[c] = 0
              /\ owner' = owner
              /\ \E gone \in DroppedSoFar(Inserted(c),
                                         Extras(Inserted(c), owner[c])) :
                   seq' = Without(Inserted(c), gone)
<1> USE BackupAssumption DEF BackupInv, BackupTypeOK, UnstartedOwnNothing, rows,
        calls, Backups, RestoreCalls, Profiles
<1>1. CASE ProfileStep \/ RestoreStep \/ DeleteStep
  BY <1>1 DEF ProfileStep, Launch, LaunchEnds, BrowserDies, StopForOthers,
       OthersStopEnds, SetState, RestoreStep, RestoreBegins, RestoreEnds,
       RestoreFails, ImportFails, DeleteStep, DeleteBackup
<1>2. CASE ImportStep \/ ImportDeathStep
  BY <1>2 DEF ImportStep, ImportLands, ImportRefused, ImportNotInserted,
       ImportDeathStep, DiesInImport, Inserted
<1>3. CASE CreateStep
  <2>1. PICK c \in Creates : CreateCommits(c) \/ RetentionFails(c)
    BY <1>3 DEF CreateStep, CreateBegins, CreateStops, CreateStopFails, CreateFails
  <2>2. CASE CreateCommits(c)
    <3>1. Extras(Inserted(c), owner[c])
            \in DroppedSoFar(Inserted(c), Extras(Inserted(c), owner[c]))
      BY DEF DroppedSoFar
    <3>2. seq' = Without(Inserted(c), Extras(Inserted(c), owner[c]))
      BY <2>2 DEF CreateCommits
    <3> QED BY <2>2, <3>1, <3>2 DEF CreateCommits
  <2>3. CASE RetentionFails(c)
    BY <2>3 DEF RetentionFails
  <2> QED BY <2>1, <2>2, <2>3
<1>4. CASE DeathStep
  <2>1. CASE \E c \in Creates : DiesInCreate(c)
    BY <2>1 DEF DiesInCreate
  <2> QED BY <1>4, <2>1 DEF DeathStep, ServerDies, DiesInDelete, DiesInRollback
<1> QED BY <1>1, <1>2, <1>3, <1>4 DEF Next, LocalStep

\* Every step keeps what a create has thinned out thin.
LEMMA RetentionStep ==
  ASSUME BackupInv, Next
  PROVE  KeepsAtMostRetention'
<1> SUFFICES ASSUME NEW c \in Creates, Retention > 0,
                    createAt'[c] = "done", seq'[c] > 0
             PROVE  Cardinality({b \in Backups :
                      seq'[b] \in 1..seq'[c] /\ owner'[b] = owner'[c]}) <= Retention
  BY DEF KeepsAtMostRetention
<1> DEFINE older == {b \in Backups : seq[b] \in 1..seq[c] /\ owner[b] = owner[c]}
           now == {b \in Backups :
                     seq'[b] \in 1..seq'[c] /\ owner'[b] = owner'[c]}
<1>1. /\ c \in Backups
      /\ seq \in [Backups -> Nat] /\ seq' \in [Backups -> Nat]
      /\ nextSeq \in Nat \ {0}
      /\ \A b \in Backups : seq[b] < nextSeq
  <2>1. BackupTypeOK'
    BY TypeStep
  <2> QED BY <2>1 DEF BackupInv, BackupTypeOK, Backups
<1>2. CASE createAt[c] = "done"
  <2>1. seq'[c] = seq[c] /\ owner'[c] = owner[c]
    BY <1>1, <1>2, TableStep
  <2>2. now \subseteq older
    BY <1>1, <2>1, TableStep
  <2>3. Cardinality(older) <= Retention
    BY <1>2, <2>1 DEF BackupInv, KeepsAtMostRetention
  <2>4. Cardinality(now) <= Cardinality(older) /\ Cardinality(now) \in Nat
        /\ Cardinality(older) \in Nat
    <3>1. older \subseteq Backups /\ now \subseteq Backups
      OBVIOUS
    <3> HIDE DEF older, now
    <3> QED BY <2>2, <3>1, CountingArchives
  <2> HIDE DEF older, now
  <2>5. Cardinality(now) <= Retention
    BY <2>3, <2>4, BackupAssumption
  <2> QED BY <2>5 DEF now
<1>3. CASE createAt[c] # "done"
  <2>1. CreateCommits(c)
    BY <1>3 DEF Next, LocalStep, ProfileStep, Launch, LaunchEnds, BrowserDies,
         StopForOthers, OthersStopEnds, SetState, CreateStep, CreateBegins,
         CreateStops, CreateStopFails, CreateFails, CreateCommits, RetentionFails,
         CreateGoto, RestoreStep, RestoreBegins, RestoreEnds, RestoreFails,
         ImportFails, DeleteStep, DeleteBackup, ImportStep, ImportLands,
         ImportRefused, ImportNotInserted, DeathStep, ServerDies, DiesInCreate,
         DiesInDelete, DiesInRollback, Death, ImportDeathStep, DiesInImport, calls,
         BackupInv, BackupTypeOK
  <2> DEFINE table == Inserted(c)
             stay == {b \in Backups : table[b] > 0 /\ owner[b] = owner[c]}
                       \ Extras(table, owner[c])
  <2>2. /\ seq' = Without(table, Extras(table, owner[c]))
        /\ owner' = owner /\ seq[c] = 0
    BY <2>1 DEF CreateCommits, BackupInv, UnstartedOwnNothing
  <2>3. /\ table \in [Backups -> Nat]
        /\ \A a, b \in Backups : (table[a] > 0 /\ table[a] = table[b]) => a = b
    BY <1>1, <2>2 DEF Inserted, BackupInv, RowsAreNumbered
  <2>4. now \subseteq stay
    BY <1>1, <2>2, <2>3 DEF Without
  <2>5. Cardinality(stay) <= Retention
    <3> HIDE DEF table
    <3> QED BY <2>3, AtMostRetentionStay
  <2>6. Cardinality(now) <= Cardinality(stay) /\ Cardinality(now) \in Nat
        /\ Cardinality(stay) \in Nat
    <3>1. stay \subseteq Backups /\ now \subseteq Backups
      OBVIOUS
    <3> HIDE DEF stay, now
    <3> QED BY <2>4, <3>1, CountingArchives
  <2> HIDE DEF stay, now
  <2>7. Cardinality(now) <= Retention
    BY <2>5, <2>6, BackupAssumption
  <2> QED BY <2>7 DEF now
<1> QED BY <1>2, <1>3

\* Every step keeps the invariant.
LEMMA StepKeepsInv ==
  ASSUME BackupInv, [Next]_backupVars
  PROVE  BackupInv'
<1>1. CASE Next
  BY <1>1, TypeStep, FilesStep, RestoresStep, UnstartedStep, NumbersStep,
     RetentionStep, Zenon DEF BackupInv
<1>2. CASE UNCHANGED backupVars
  BY <1>2 DEF backupVars, rows, calls, BackupInv, BackupTypeOK, RowsHaveFiles,
       FilesAreListed, RestoresAreAllOrNothing, UnstartedOwnNothing,
       ExtractingHasProfile, RowsAreNumbered, KeepsAtMostRetention
<1> QED BY <1>1, <1>2

-----------------------------------------------------------------------------
(* Theorems.                                                                *)

\* The inductive invariant of the backup store.
THEOREM BackupInvariant == Spec => []BackupInv
BY InitIsFine, StepKeepsInv, PTL DEF Spec

\* Wherever the server dies, no row of the backups table points at a missing
\* file: delete and retention drop the row first (service.ts 329-352).
THEOREM RowsAlwaysHaveFiles == Spec => []RowsHaveFiles
<1>1. BackupInv => RowsHaveFiles
  BY DEF BackupInv
<1> QED BY <1>1, BackupInvariant, PTL

\* Until the server dies, failures leave no archive that is not listed, but for
\* an import whose insert fails (service.ts 203-208, cloudsync/service.ts 442-454).
THEOREM FilesStayListed == Spec => []FilesAreListed
<1>1. BackupInv => FilesAreListed
  BY DEF BackupInv
<1> QED BY <1>1, BackupInvariant, PTL

\* A restore gives a complete profile or leaves nothing (service.ts 299-319).
THEOREM RestoresLeaveNoHalves == Spec => []RestoresAreAllOrNothing
<1>1. BackupInv => RestoresAreAllOrNothing
  BY DEF BackupInv
<1> QED BY <1>1, BackupInvariant, PTL

\* However creates, imports and deletions overlap, an archive that has been
\* reported has fewer than Retention older ones beside it (service.ts 338-352).
THEOREM RetentionIsKept == Spec => []KeepsAtMostRetention
<1>1. BackupInv => KeepsAtMostRetention
  BY DEF BackupInv
<1> QED BY <1>1, BackupInvariant, PTL

\* Retention never drops an archive of the newest Retention of its profile, even
\* if it stops or dies midway (service.ts 209-213, 338-352).
THEOREM NewestAreSpared == Spec => RetentionSparesNewest
<1>1. BackupInv /\ [Next]_backupVars =>
        [nextSeq' # nextSeq =>
           \A b \in Backups : (seq[b] > 0 /\ seq'[b] = 0) =>
             Cardinality({n \in Backups :
               seq'[n] > seq[b] /\ owner'[n] = owner[b]}) >= Retention]_backupVars
  <2> SUFFICES ASSUME BackupInv, Next, nextSeq' # nextSeq,
                      NEW b \in Backups, seq[b] > 0, seq'[b] = 0
               PROVE  Cardinality({n \in Backups :
                        seq'[n] > seq[b] /\ owner'[n] = owner[b]}) >= Retention
    OBVIOUS
  <2>1. PICK c \in Creates :
          /\ seq[c] = 0
          /\ owner' = owner
          /\ \E gone \in DroppedSoFar(Inserted(c),
                                     Extras(Inserted(c), owner[c])) :
               seq' = Without(Inserted(c), gone)
    BY InsertingSteps DEF BackupInv, BackupTypeOK
  <2> DEFINE table == Inserted(c)
  <2>2. PICK gone \in DroppedSoFar(table, Extras(table, owner[c])) :
          seq' = Without(table, gone)
    BY <2>1
  <2>3. /\ c \in Backups
        /\ table \in [Backups -> Nat]
        /\ nextSeq \in Nat
        /\ \A a \in Backups : table[a] <= nextSeq
        /\ table[b] = seq[b]
    BY <2>1 DEF BackupInv, BackupTypeOK, Backups, Inserted
  <2> HIDE DEF table
  <2>4. b \in gone
    BY <2>2, <2>3 DEF Without
  <2>5. owner[b] = owner[c]
    BY <2>2, <2>4 DEF DroppedSoFar, Extras
  <2>6. Cardinality({n \in Backups :
          Without(table, gone)[n] > table[b] /\ owner[n] = owner[c]}) >= Retention
    BY <2>2, <2>3, <2>4, NewestAreKept
  <2> QED BY <2>1, <2>2, <2>3, <2>5, <2>6
<1> QED BY <1>1, BackupInvariant, PTL DEF Spec, RetentionSparesNewest

-----------------------------------------------------------------------------
(* Cloud sync and the store.                                                *)

\* A download that has been answered is one of an archive.
FetchesAreArchives ==
  /\ fetch \in [Imports ->
       [at : {"idle", "answer", "done"}, object : Backups \cup {NoBackup}]]
  /\ \A i \in Imports : fetch[i].at = "answer" => fetch[i].object \in Backups

\* An imported archive goes to a profile or to none.
LEMMA OwnerOfIsOwner ==
  ASSUME BackupTypeOK, NEW b \in Backups
  PROVE  OwnerOf(b) \in Profiles \cup {NoProfile}
BY DEF BackupTypeOK, OwnerOf

\* Every step of cloud sync is a step of the store or none of its business.
LEMMA CloudStepIsStoreStep ==
  ASSUME BackupInv, FetchesAreArchives, [CloudNext]_cloudAndBackupVars
  PROVE  [Next]_backupVars
<1>1. CASE LocalStep /\ UNCHANGED cloudVars
  BY <1>1 DEF Next
<1>2. CASE CloudStep /\ UNCHANGED backupVars
  BY <1>2
<1>3. CASE \E i \in Imports : FetchEnds(i)
  <2>1. PICK i \in Imports : FetchEnds(i)
    BY <1>3
  <2>2. OwnerOf(fetch[i].object) \in Profiles \cup {NoProfile}
    BY <2>1, OwnerOfIsOwner DEF FetchEnds, FetchesAreArchives, BackupInv
  <2>3. ImportStep
    BY <2>1, <2>2 DEF FetchEnds, ImportStep
  <2> QED BY <2>3 DEF Next
<1>4. CASE CloudDeath
  <2>1. CASE DeathStep
    BY <2>1 DEF Next
  <2>2. CASE \E i \in Imports : /\ fetch[i].at = "answer"
                                /\ DiesInImport(i, OwnerOf(fetch[i].object))
    <3>1. PICK i \in Imports : /\ fetch[i].at = "answer"
                               /\ DiesInImport(i, OwnerOf(fetch[i].object))
      BY <2>2
    <3>2. OwnerOf(fetch[i].object) \in Profiles \cup {NoProfile}
      BY <3>1, OwnerOfIsOwner DEF FetchesAreArchives, BackupInv
    <3> QED BY <3>1, <3>2 DEF Next, ImportDeathStep
  <2> QED BY <1>4, <2>1, <2>2 DEF CloudDeath
<1>5. CASE UNCHANGED cloudAndBackupVars
  BY <1>5 DEF cloudAndBackupVars
<1> QED BY <1>1, <1>2, <1>3, <1>4, <1>5 DEF CloudNext

\* Every step leaves downloads of archives.
LEMMA FetchesStep ==
  ASSUME FetchesAreArchives, [CloudNext]_cloudAndBackupVars
  PROVE  FetchesAreArchives'
<1> USE DEF FetchesAreArchives, Backups
<1>1. CASE LocalStep /\ UNCHANGED cloudVars
  BY <1>1 DEF cloudVars
<1>2. CASE CloudStep
  <2>1. CASE \E i \in Imports, b \in Backups : FetchBegins(i, b)
    BY <2>1 DEF FetchBegins
  <2>2. CASE \E i \in Imports : FetchFails(i)
    BY <2>2 DEF FetchFails, FetchOver
  <2>3. CASE UNCHANGED fetch
    BY <2>3
  <2> QED BY <1>2, <2>1, <2>2, <2>3 DEF CloudStep, SyncBegins, PutArrives, PutAnswers,
           PutFails, PruneBegins, DeleteArrives, DeleteAnswers, PruneFails,
           Reconfigure, Ages
<1>3. CASE \E i \in Imports : FetchEnds(i)
  BY <1>3 DEF FetchEnds, FetchOver
<1>4. CASE CloudDeath
  BY <1>4 DEF CloudDeath, CallsDie
<1>5. CASE UNCHANGED cloudAndBackupVars
  BY <1>5 DEF cloudAndBackupVars, cloudVars
<1> QED BY <1>1, <1>2, <1>3, <1>4, <1>5 DEF CloudNext

\* Syncing, pruning, downloading and reconfiguring do to the local archives
\* nothing but imports (cloudsync/service.ts 284-478).
THEOREM CloudImplementsBackupStore == CloudSpec => Spec
<1>1. CloudInit => Init /\ BackupInv /\ FetchesAreArchives
  BY InitIsFine DEF CloudInit, FetchesAreArchives
<1>2. BackupInv /\ [Next]_backupVars => BackupInv'
  BY StepKeepsInv
<1> QED BY <1>1, <1>2, CloudStepIsStoreStep, FetchesStep, PTL DEF CloudSpec, Spec

-----------------------------------------------------------------------------
(* What the table of uploads says.                                          *)

SyncBusy(s) == sync[s].at \in {"put", "answer"}
PruneBusy(x) == prune[x].at \in {"delete", "answer"}

\* A call that is busy has something in hand, no sync is under way during a
\* prune, and what a sync has put stays until it is recorded.
CloudInv ==
  /\ CloudTypeOK
  /\ \A s \in Syncs : SyncBusy(s) => sync[s].todo # << >>
  /\ \A x \in Prunes : PruneBusy(x) => prune[x].object \in Backups
  /\ \A s \in Syncs, x \in Prunes : ~ (SyncBusy(s) /\ PruneBusy(x))
  /\ \A s \in Syncs : sync[s].at = "answer" =>
       remote[sync[s].bucket][Head(sync[s].todo)] # "none"
  /\ RecordedIsSomewhere

\* Archives that are all numbered differently can be listed in the order of
\* their numbers: those but the last can, and the last goes after them.
LEMMA OrderedList ==
  ASSUME NEW S, IsFiniteSet(S), NEW f \in [S -> Nat],
         NEW bound \in Nat, \A x \in S : f[x] <= bound,
         \A x, y \in S : f[x] = f[y] => x = y
  PROVE  \A T \in SUBSET S : \E q \in [1..Cardinality(T) -> T] :
           \A m, n \in DOMAIN q : m < n => f[q[m]] < f[q[n]]
<1> DEFINE Listed(T) == \E q \in [1..Cardinality(T) -> T] :
             \A m, n \in DOMAIN q : m < n => f[q[m]] < f[q[n]]
           bad == {T \in SUBSET S : ~ Listed(T)}
           sizes == {Cardinality(T) : T \in bad}
<1>1. \A T \in SUBSET S : IsFiniteSet(T) /\ Cardinality(T) \in Nat
  BY FS_Subset, FS_CardinalityType
<1>2. SUFFICES ASSUME bad # {} PROVE FALSE
  OBVIOUS
<1>3. PICK T \in bad : \A U \in bad : Cardinality(T) <= Cardinality(U)
  <2> DEFINE size == [U \in SUBSET S |-> Cardinality(U)]
  <2>1. size \in [SUBSET S -> Nat]
    BY <1>1
  <2>2. bad \subseteq SUBSET S
    OBVIOUS
  <2> HIDE DEF bad
  <2>3. PICK U \in bad : \A V \in bad : size[U] <= size[V]
    <3> HIDE DEF size
    <3> QED
      BY <1>2, <2>1, <2>2, SmallestNumber
  <2> QED
    BY <2>2, <2>3
<1>4. T # {}
  <2>1. ASSUME T = {} PROVE Listed(T)
    <3>1. Cardinality(T) = 0
      BY <2>1, FS_EmptySet
    <3>2. PICK q \in [1..0 -> T] : TRUE
      <4>1. [m \in 1..0 |-> 0] \in [1..0 -> T]
        OBVIOUS
      <4> QED
        BY <4>1
    <3>3. \A m, n \in DOMAIN q : m < n => f[q[m]] < f[q[n]]
      <4>1. DOMAIN q = {}
        BY <3>2
      <4> QED
        BY <4>1
    <3> QED
      BY <3>1, <3>3
  <2> QED
    BY <2>1, <1>3
<1>5. PICK x \in T : \A y \in T : f[y] <= f[x]
  BY <1>4, LargestNumber
<1> DEFINE rest == T \ {x}
           N == Cardinality(T)
<1>6. /\ rest \in SUBSET S
      /\ N \in Nat
      /\ Cardinality(rest) = N - 1
      /\ Cardinality(rest) \in Nat
  BY <1>1, FS_RemoveElement
<1>7. PICK q \in [1..(N - 1) -> rest] :
        \A m, n \in DOMAIN q : m < n => f[q[m]] < f[q[n]]
  <2>1. rest \notin bad
    <3> HIDE DEF bad, rest
    <3> QED
      BY <1>3, <1>6
  <2>2. Listed(rest)
    BY <2>1, <1>6
  <2> QED
    BY <2>2, <1>6
<1> DEFINE p == [n \in 1..N |-> IF n = N THEN x ELSE q[n]]
<1>8. p \in [1..N -> T]
  <2> SUFFICES ASSUME NEW n \in 1..N, n # N PROVE q[n] \in T
    OBVIOUS
  <2>1. n \in 1..(N - 1)
    BY <1>6
  <2> QED
    BY <2>1, <1>7
<1>9. ASSUME NEW m \in 1..N, NEW n \in 1..N, m < n
      PROVE  f[p[m]] < f[p[n]]
  <2>1. m \in 1..(N - 1) /\ m # N
    BY <1>6, <1>9
  <2>2. p[m] = q[m] /\ q[m] \in rest
    BY <2>1, <1>7
  <2>3. CASE n = N
    <3>1. p[n] = x
      BY <2>3
    <3>2. q[m] \in T /\ q[m] # x /\ q[m] \in S /\ x \in S
      BY <2>2
    <3>3. f[q[m]] <= f[x] /\ f[q[m]] # f[x] /\ f[q[m]] \in Nat /\ f[x] \in Nat
      BY <3>2, <1>5
    <3> QED
      BY <2>2, <3>1, <3>3
  <2>4. CASE n # N
    <3>1. n \in 1..(N - 1) /\ p[n] = q[n]
      BY <2>4, <1>6
    <3> QED
      BY <2>1, <2>2, <3>1, <1>7, <1>9
  <2> QED
    BY <2>3, <2>4
<1>10. Listed(T)
  <2> HIDE DEF p
  <2>1. DOMAIN p = 1..N
    BY <1>8
  <2> QED
    BY <1>8, <1>9, <2>1
<1> QED
  BY <1>3, <1>10

\* syncNow goes through a list of archives.
LEMMA RowsAreListed ==
  ASSUME BackupTypeOK, RowsAreNumbered
  PROVE  RowsInOrder \in Seq(Backups)
<1> DEFINE f == [b \in Rows |-> seq[b]]
<1>1. Rows \subseteq Backups /\ IsFiniteSet(Rows) /\ Cardinality(Rows) \in Nat
  <2>1. Rows \subseteq Backups
    BY DEF Rows
  <2> QED
    BY <2>1, CountingArchives
<1>2. /\ f \in [Rows -> Nat]
      /\ nextSeq \in Nat
      /\ \A b \in Rows : f[b] <= nextSeq
      /\ \A a, b \in Rows : f[a] = f[b] => a = b
  BY <1>1 DEF BackupTypeOK, RowsAreNumbered, Rows
<1>3. \E q \in [1..Cardinality(Rows) -> Rows] :
        \A m, n \in DOMAIN q : m < n => f[q[m]] < f[q[n]]
  <2> HIDE DEF f
  <2> QED
    BY <1>1, <1>2, OrderedList
<1>4. \E q \in [1..Cardinality(Rows) -> Rows] :
        \A m, n \in DOMAIN q : m < n => seq[q[m]] < seq[q[n]]
  BY <1>3
<1>5. RowsInOrder \in [1..Cardinality(Rows) -> Rows]
  BY <1>4 DEF RowsInOrder
<1>6. RowsInOrder \in [1..Cardinality(Rows) -> Backups]
  BY <1>1, <1>5
<1> QED
  BY <1>1, <1>6

SyncCalls ==
  [at : {"idle", "put", "answer", "done"}, todo : Seq(Backups), bucket : Buckets]
PruneCalls ==
  [at : {"idle", "delete", "answer"} \cup CallEnds,
   todo : SUBSET Backups, bucket : Buckets, object : Backups \cup {NoBackup}]

\* A sync that goes on is at its next upload or at its end.
LEMMA SyncGoesOnWell ==
  ASSUME CloudTypeOK, NEW s \in Syncs, NEW todo \in Seq(Backups), NEW known,
         SyncGoesOn(s, todo, known)
  PROVE  /\ sync' \in [Syncs -> SyncCalls]
         /\ \A o \in Syncs \ {s} : sync'[o] = sync[o]
         /\ sync'[s].at \in {"put", "done"}
         /\ sync'[s].at = "put" => sync'[s].todo # << >>
<1>1. sync \in [Syncs -> SyncCalls] /\ bucket \in Buckets /\ FirstBucket \in Buckets
  BY CloudAssumption DEF CloudTypeOK, SyncCalls
<1>2. CASE Uploads(todo, known) = {}
  <2>1. sync' = [sync EXCEPT ![s] = Synced]
    BY <1>2 DEF SyncGoesOn
  <2>2. Synced \in SyncCalls /\ Synced.at = "done"
    BY <1>1 DEF Synced, SyncCalls
  <2> QED
    BY <1>1, <2>1, <2>2
<1>3. CASE Uploads(todo, known) # {}
  <2> DEFINE n == NextUpload(todo, known)
             left == SubSeq(todo, n, Len(todo))
             k == IF sync[s].at = "idle" THEN bucket ELSE sync[s].bucket
  <2>1. n \in 1..Len(todo)
    <3> DEFINE number == [m \in Nat |-> m]
    <3>1. Uploads(todo, known) \subseteq 1..Len(todo)
      BY DEF Uploads
    <3>2. PICK m \in Uploads(todo, known) :
            \A o \in Uploads(todo, known) : number[m] <= number[o]
      <4>1. number \in [Nat -> Nat] /\ Uploads(todo, known) \subseteq Nat
        BY <3>1
      <4> HIDE DEF number
      <4> QED
        BY <1>3, <4>1, SmallestNumber
    <3>3. ASSUME NEW o \in Uploads(todo, known) PROVE m <= o
      <4>1. m \in Nat /\ o \in Nat
        BY <3>1
      <4> QED
        BY <3>2, <4>1
    <3>4. n \in Uploads(todo, known)
      BY <3>3 DEF NextUpload
    <3> QED
      BY <3>1, <3>4
  <2>2. left \in Seq(Backups) /\ left # << >>
    <3> HIDE DEF n
    <3>1. Len(todo) \in Nat /\ n \in Nat /\ n <= Len(todo)
      BY <2>1
    <3>2. \A i \in n..Len(todo) : todo[i] \in Backups
      BY <2>1, <3>1
    <3>3. left \in Seq(Backups) /\ Len(left) = Len(todo) - n + 1
      BY <2>1, <3>1, <3>2, SubSeqProperties
    <3>4. Len(left) # 0
      BY <3>1, <3>3
    <3> HIDE DEF left
    <3>5. Len(<< >>) = 0
      OBVIOUS
    <3> QED
      BY <3>3, <3>4, <3>5
  <2>3. k \in Buckets
    BY <1>1 DEF SyncCalls
  <2>4. sync' = [sync EXCEPT ![s].at = "put", ![s].todo = left, ![s].bucket = k]
    BY <1>3 DEF SyncGoesOn
  <2> HIDE DEF n, left, k
  <2>5. sync'[s] \in SyncCalls /\ sync'[s].at = "put" /\ sync'[s].todo = left
    BY <1>1, <2>2, <2>3, <2>4 DEF SyncCalls
  <2>6. \A o \in Syncs \ {s} : sync'[o] = sync[o]
    BY <1>1, <2>4
  <2>7. sync' = [o \in Syncs |-> sync'[o]]
    BY <1>1, <2>4
  <2>8. sync' \in [Syncs -> SyncCalls]
    BY <1>1, <2>5, <2>6, <2>7
  <2> QED
    BY <2>2, <2>5, <2>6, <2>8
<1> QED
  BY <1>2, <1>3

\* A prune that goes on is at its next object or at its end.
LEMMA PruneGoesOnWell ==
  ASSUME CloudTypeOK, NEW x \in Prunes, NEW k \in Buckets,
         NEW todo \in SUBSET Backups, PruneGoesOn(x, k, todo)
  PROVE  /\ prune' \in [Prunes -> PruneCalls]
         /\ \A o \in Prunes \ {x} : prune'[o] = prune[o]
         /\ prune'[x].at \in {"delete", "done"}
         /\ prune'[x].at = "delete" => prune'[x].object \in Backups
<1>1. prune \in [Prunes -> PruneCalls]
  BY DEF CloudTypeOK, PruneCalls
<1>2. PICK call \in PruneCalls :
        /\ prune' = [prune EXCEPT ![x] = call]
        /\ call.at \in {"delete", "done"}
        /\ call.at = "delete" => call.object \in Backups
  <2>1. CASE todo = {}
    <3>1. Pruned \in PruneCalls /\ Pruned.at = "done"
      BY CloudAssumption DEF Pruned, PruneCalls, CallEnds
    <3> QED
      BY <2>1, <3>1 DEF PruneGoesOn
  <2>2. CASE todo # {}
    <3>1. PICK b \in todo : prune' = [prune EXCEPT ![x] =
            [at |-> "delete", todo |-> todo \ {b}, bucket |-> k, object |-> b]]
      BY <2>2 DEF PruneGoesOn
    <3>2. [at |-> "delete", todo |-> todo \ {b}, bucket |-> k, object |-> b]
            \in PruneCalls
      BY DEF PruneCalls
    <3> QED
      BY <3>1, <3>2
  <2> QED
    BY <2>1, <2>2
<1> QED
  BY <1>1, <1>2

\* What is recorded stays somewhere if objects stay and the prunes that vouch
\* for a missing one do.
LEMMA StaysSomewhere ==
  ASSUME RecordedIsSomewhere, recorded' \subseteq recorded,
         \A k \in Buckets, b \in Backups : remote[k][b] # "none" => remote'[k][b] # "none",
         \A x \in Prunes : prune[x].at \in {"answer", "failed"} =>
           /\ prune'[x].at \in {"answer", "failed"}
           /\ prune'[x].object = prune[x].object,
         recorded \subseteq Backups
  PROVE  RecordedIsSomewhere'
BY DEF RecordedIsSomewhere

AgesOfObjects == {"none", "fresh", "old"}

\* syncNow puts an archive and then records it; no prune is under way.
LEMMA SyncKeepsInv ==
  ASSUME ~ CloudOverlaps, BackupInv, BackupTypeOK', CloudInv, NEW s \in Syncs,
         \/ SyncBegins(s) \/ PutArrives(s) \/ PutAnswers(s) \/ PutFails(s)
  PROVE  CloudInv'
<1>1. /\ UNCHANGED <<bucket, prune, fetch, reconfigs>>
      /\ bucket \in Buckets
      /\ sync \in [Syncs -> SyncCalls]
      /\ remote \in [Buckets -> [Backups -> AgesOfObjects]]
      /\ recorded \subseteq Backups
  BY DEF SyncBegins, PutArrives, PutAnswers, PutFails, CloudInv, CloudTypeOK,
     SyncCalls, AgesOfObjects
<1>2. ASSUME /\ sync' \in [Syncs -> SyncCalls]
             /\ remote' \in [Buckets -> [Backups -> AgesOfObjects]]
             /\ recorded' \subseteq Backups
      PROVE  CloudTypeOK'
  BY <1>1, <1>2 DEF CloudInv, CloudTypeOK, SyncCalls, AgesOfObjects
<1>3. \A x \in Prunes : PruneBusy(x)' <=> PruneBusy(x)
  BY <1>1 DEF PruneBusy
<1>4. ASSUME NEW todo \in Seq(Backups), SyncGoesOn(s, todo, recorded'),
             remote' = remote, recorded' \subseteq Backups, RecordedIsSomewhere',
             \A x \in Prunes : ~ PruneBusy(x)
      PROVE  CloudInv'
  <2>1. /\ sync' \in [Syncs -> SyncCalls]
        /\ \A o \in Syncs \ {s} : sync'[o] = sync[o]
        /\ sync'[s].at \in {"put", "done"}
        /\ sync'[s].at = "put" => sync'[s].todo # << >>
    BY <1>4, SyncGoesOnWell DEF CloudInv
  <2>2. CloudTypeOK'
    BY <1>1, <1>2, <1>4, <2>1
  <2>3. \A o \in Syncs : SyncBusy(o)' => sync'[o].todo # << >>
    BY <2>1 DEF SyncBusy, CloudInv
  <2>4. \A o \in Syncs : sync'[o].at = "answer" =>
          remote'[sync'[o].bucket][Head(sync'[o].todo)] # "none"
    BY <1>4, <2>1 DEF CloudInv
  <2>5. \A x \in Prunes : PruneBusy(x)' => prune'[x].object \in Backups
    BY <1>1 DEF PruneBusy, CloudInv
  <2>6. \A o \in Syncs, x \in Prunes : ~ (SyncBusy(o)' /\ PruneBusy(x)')
    BY <1>3, <1>4
  <2> QED
    BY <1>4, <2>2, <2>3, <2>4, <2>5, <2>6 DEF CloudInv, SyncBusy, PruneBusy
<1>5. CASE SyncBegins(s)
  <2>1. RowsInOrder \in Seq(Backups)
    BY RowsAreListed DEF BackupInv
  <2>2. \A x \in Prunes : ~ PruneBusy(x)
    BY <1>5 DEF SyncBegins, MayBegin, Quiet, PruneBusy
  <2>3. recorded' = recorded /\ remote' = remote /\ RecordedIsSomewhere'
    BY <1>1, <1>5 DEF SyncBegins, CloudInv, RecordedIsSomewhere
  <2>4. SyncGoesOn(s, RowsInOrder, recorded')
    BY <1>5, <2>3 DEF SyncBegins
  <2> QED
    BY <1>1, <1>4, <2>1, <2>2, <2>3, <2>4
<1>6. ASSUME SyncBusy(s)
      PROVE  /\ Head(sync[s].todo) \in Backups
             /\ Tail(sync[s].todo) \in Seq(Backups)
             /\ sync[s].bucket \in Buckets
             /\ \A x \in Prunes : ~ PruneBusy(x)
  <2>1. sync[s].todo \in Seq(Backups) /\ sync[s].todo # << >> /\ sync[s].bucket \in Buckets
    BY <1>1, <1>6 DEF CloudInv, SyncCalls
  <2>2. \A x \in Prunes : ~ PruneBusy(x)
    BY <1>6 DEF CloudInv
  <2> QED
    BY <2>1, <2>2
<1>7. CASE PutArrives(s)
  <2> DEFINE k == sync[s].bucket
             b == Head(sync[s].todo)
  <2>1. SyncBusy(s) /\ k \in Buckets /\ b \in Backups /\ \A x \in Prunes : ~ PruneBusy(x)
    BY <1>6, <1>7 DEF PutArrives, SyncBusy
  <2>2. /\ sync' = [sync EXCEPT ![s].at = "answer"]
        /\ remote' = [remote EXCEPT ![k][b] = "fresh"]
        /\ recorded' = recorded
    BY <1>7 DEF PutArrives, SetObject
  <2> HIDE DEF k, b
  <2>3. /\ remote' \in [Buckets -> [Backups -> AgesOfObjects]]
        /\ remote'[k][b] = "fresh"
        /\ \A l \in Buckets, c \in Backups : remote'[l][c] \in {remote[l][c], "fresh"}
    BY <1>1, <2>1, <2>2 DEF AgesOfObjects
  <2>4. /\ sync' \in [Syncs -> SyncCalls]
        /\ sync'[s].todo = sync[s].todo /\ sync'[s].bucket = sync[s].bucket
        /\ \A o \in Syncs \ {s} : sync'[o] = sync[o]
    BY <1>1, <2>2 DEF SyncCalls
  <2>5. CloudTypeOK'
    BY <1>1, <1>2, <2>2, <2>3, <2>4
  <2>6. \A o \in Syncs : SyncBusy(o)' => sync'[o].todo # << >>
    BY <2>1, <2>4 DEF SyncBusy, CloudInv
  <2>7. \A o \in Syncs : sync'[o].at = "answer" =>
          remote'[sync'[o].bucket][Head(sync'[o].todo)] # "none"
    <3> SUFFICES ASSUME NEW o \in Syncs, sync'[o].at = "answer"
                 PROVE  remote'[sync'[o].bucket][Head(sync'[o].todo)] # "none"
      OBVIOUS
    <3>1. CASE o = s
      BY <2>3, <2>4, <3>1 DEF k, b
    <3>2. CASE o # s
      <4>1. sync'[o] = sync[o] /\ SyncBusy(o)
        BY <2>4, <3>2 DEF SyncBusy
      <4>2. /\ sync[o].todo \in Seq(Backups) /\ sync[o].todo # << >>
            /\ sync[o].bucket \in Buckets
        BY <1>1, <4>1 DEF CloudInv, SyncCalls
      <4>3. Head(sync[o].todo) \in Backups
        BY <4>2
      <4>4. remote[sync[o].bucket][Head(sync[o].todo)] # "none"
        BY <4>1 DEF CloudInv
      <4> QED
        BY <2>3, <4>1, <4>2, <4>3, <4>4
    <3> QED
      BY <3>1, <3>2
  <2>8. \A x \in Prunes : ~ PruneBusy(x)'
    BY <1>3, <2>1
  <2>9. RecordedIsSomewhere'
    <3>1. \A l \in Buckets, c \in Backups : remote[l][c] # "none" => remote'[l][c] # "none"
      BY <2>3
    <3> QED
      BY <1>1, <2>2, <3>1, StaysSomewhere DEF CloudInv
  <2> QED
    BY <2>5, <2>6, <2>7, <2>8, <2>9 DEF CloudInv, SyncBusy, PruneBusy
<1>8. CASE PutAnswers(s)
  <2> DEFINE b == Head(sync[s].todo)
  <2>1. /\ SyncBusy(s) /\ sync[s].at = "answer"
        /\ recorded' = recorded \cup {b} /\ remote' = remote
        /\ SyncGoesOn(s, Tail(sync[s].todo), recorded')
    BY <1>8 DEF PutAnswers, SyncBusy
  <2>2. /\ b \in Backups /\ sync[s].bucket \in Buckets
        /\ Tail(sync[s].todo) \in Seq(Backups)
        /\ \A x \in Prunes : ~ PruneBusy(x)
    BY <1>6, <2>1
  <2>3. remote[sync[s].bucket][b] # "none"
    BY <2>1 DEF CloudInv
  <2>4. RecordedIsSomewhere'
    <3> SUFFICES ASSUME NEW c \in recorded'
                 PROVE  \/ \E k \in Buckets : remote[k][c] # "none"
                        \/ \E x \in Prunes : prune[x].object = c
                                              /\ prune[x].at \in {"answer", "failed"}
      BY <1>1, <2>1 DEF RecordedIsSomewhere
    <3>1. c = b \/ c \in recorded
      BY <2>1
    <3> HIDE DEF b
    <3> QED
      BY <2>2, <2>3, <3>1 DEF CloudInv, RecordedIsSomewhere
  <2>5. recorded' \subseteq Backups
    BY <1>1, <2>1, <2>2
  <2> QED
    BY <1>4, <2>1, <2>2, <2>4, <2>5
<1>9. CASE PutFails(s)
  <2>1. /\ SyncBusy(s) /\ recorded' = recorded /\ remote' = remote
        /\ SyncGoesOn(s, Tail(sync[s].todo), recorded')
    BY <1>9 DEF PutFails, SyncBusy
  <2>2. RecordedIsSomewhere'
    BY <1>1, <2>1 DEF CloudInv, RecordedIsSomewhere
  <2> QED
    BY <1>1, <1>4, <1>6, <2>1, <2>2
<1> QED
  BY <1>5, <1>7, <1>8, <1>9

\* pruneRemote deletes an object and then its record; no sync is under way.
LEMMA PruneKeepsInv ==
  ASSUME ~ CloudOverlaps, BackupTypeOK', CloudInv, NEW x \in Prunes,
         \/ PruneBegins(x) \/ DeleteArrives(x) \/ DeleteAnswers(x) \/ PruneFails(x)
  PROVE  CloudInv'
<1>1. /\ UNCHANGED <<bucket, sync, fetch, reconfigs>>
      /\ bucket \in Buckets
      /\ prune \in [Prunes -> PruneCalls]
      /\ remote \in [Buckets -> [Backups -> AgesOfObjects]]
      /\ recorded \subseteq Backups
      /\ recorded' \subseteq recorded
  BY DEF PruneBegins, DeleteArrives, DeleteAnswers, PruneFails, CloudInv, CloudTypeOK,
     PruneCalls, AgesOfObjects
<1>2. \A s \in Syncs : ~ SyncBusy(s)
  BY DEF PruneBegins, MayBegin, Quiet, DeleteArrives, DeleteAnswers, PruneFails,
     CloudInv, SyncBusy, PruneBusy
<1>3. ASSUME /\ prune' \in [Prunes -> PruneCalls]
             /\ \A y \in Prunes : PruneBusy(y)' => prune'[y].object \in Backups
             /\ remote' \in [Buckets -> [Backups -> AgesOfObjects]]
             /\ RecordedIsSomewhere'
      PROVE  CloudInv'
  <2>1. CloudTypeOK'
    BY <1>1, <1>3 DEF CloudInv, CloudTypeOK, PruneCalls, AgesOfObjects
  <2>2. \A s \in Syncs : sync'[s].at \notin {"put", "answer"}
    BY <1>1, <1>2 DEF SyncBusy
  <2> QED
    BY <1>3, <2>1, <2>2 DEF CloudInv, SyncBusy, PruneBusy
<1>4. CASE PruneBegins(x)
  <2>1. /\ {b \in Backups : remote[bucket][b] = "old"} \in SUBSET Backups
        /\ PruneGoesOn(x, bucket, {b \in Backups : remote[bucket][b] = "old"})
        /\ prune[x].at = "idle" /\ remote' = remote
    BY <1>4 DEF PruneBegins
  <2>2. /\ prune' \in [Prunes -> PruneCalls]
        /\ \A o \in Prunes \ {x} : prune'[o] = prune[o]
        /\ prune'[x].at \in {"delete", "done"}
        /\ prune'[x].at = "delete" => prune'[x].object \in Backups
    BY <1>1, <2>1, PruneGoesOnWell DEF CloudInv
  <2>3. RecordedIsSomewhere'
    BY <1>1, <2>1, <2>2, StaysSomewhere DEF CloudInv
  <2>4. \A y \in Prunes : PruneBusy(y)' => prune'[y].object \in Backups
    BY <2>2 DEF CloudInv, PruneBusy
  <2> QED
    BY <1>1, <1>3, <2>1, <2>2, <2>3, <2>4
<1>5. CASE DeleteArrives(x)
  <2> DEFINE k == prune[x].bucket
             b == prune[x].object
  <2>1. /\ prune[x].at = "delete" /\ recorded' = recorded
        /\ prune' = [prune EXCEPT ![x].at = "answer"]
        /\ remote' = [remote EXCEPT ![k][b] = "none"]
    BY <1>5 DEF DeleteArrives, SetObject
  <2>2. k \in Buckets /\ b \in Backups
    BY <1>1, <2>1 DEF PruneCalls, CloudInv, PruneBusy
  <2>3. /\ prune' \in [Prunes -> PruneCalls]
        /\ \A o \in Prunes \ {x} : prune'[o] = prune[o]
        /\ prune'[x].at = "answer" /\ prune'[x].object = b
    BY <1>1, <2>1 DEF PruneCalls
  <2> HIDE DEF k, b
  <2>4. /\ remote' \in [Buckets -> [Backups -> AgesOfObjects]]
        /\ \A l \in Buckets, c \in Backups : c # b => remote'[l][c] = remote[l][c]
    BY <1>1, <2>1, <2>2 DEF AgesOfObjects
  <2>5. RecordedIsSomewhere'
    <3> SUFFICES ASSUME NEW c \in recorded
                 PROVE  \/ \E l \in Buckets : remote'[l][c] # "none"
                        \/ \E y \in Prunes : prune'[y].object = c
                                              /\ prune'[y].at \in {"answer", "failed"}
      BY <2>1 DEF RecordedIsSomewhere
    <3>1. CASE c = b
      BY <2>3, <3>1
    <3>2. CASE c # b
      <4>1. \/ \E l \in Buckets : remote[l][c] # "none"
            \/ \E y \in Prunes : prune[y].object = c
                                  /\ prune[y].at \in {"answer", "failed"}
        BY DEF CloudInv, RecordedIsSomewhere
      <4>2. c \in Backups
        BY <1>1
      <4> QED
        BY <2>1, <2>3, <2>4, <3>2, <4>1, <4>2
    <3> QED
      BY <3>1, <3>2
  <2>6. \A y \in Prunes : PruneBusy(y)' => prune'[y].object \in Backups
    BY <2>2, <2>3 DEF CloudInv, PruneBusy
  <2> QED
    BY <1>3, <2>3, <2>4, <2>5, <2>6
<1>6. CASE DeleteAnswers(x)
  <2>1. /\ prune[x].at = "answer" /\ remote' = remote
        /\ recorded' = recorded \ {prune[x].object}
        /\ prune[x].bucket \in Buckets /\ prune[x].todo \in SUBSET Backups
        /\ PruneGoesOn(x, prune[x].bucket, prune[x].todo)
    BY <1>1, <1>6 DEF DeleteAnswers, PruneCalls
  <2>2. /\ prune' \in [Prunes -> PruneCalls]
        /\ \A o \in Prunes \ {x} : prune'[o] = prune[o]
        /\ prune'[x].at \in {"delete", "done"}
        /\ prune'[x].at = "delete" => prune'[x].object \in Backups
    BY <2>1, PruneGoesOnWell DEF CloudInv
  <2>3. RecordedIsSomewhere'
    <3> SUFFICES ASSUME NEW c \in recorded, c # prune[x].object
                 PROVE  \/ \E l \in Buckets : remote[l][c] # "none"
                        \/ \E y \in Prunes : prune'[y].object = c
                                              /\ prune'[y].at \in {"answer", "failed"}
      BY <2>1 DEF RecordedIsSomewhere
    <3>1. \/ \E l \in Buckets : remote[l][c] # "none"
          \/ \E y \in Prunes \ {x} : prune[y].object = c
                                      /\ prune[y].at \in {"answer", "failed"}
      BY DEF CloudInv, RecordedIsSomewhere
    <3> QED
      BY <2>2, <3>1
  <2>4. \A y \in Prunes : PruneBusy(y)' => prune'[y].object \in Backups
    BY <2>2 DEF CloudInv, PruneBusy
  <2> QED
    BY <1>1, <1>3, <2>1, <2>2, <2>3, <2>4
<1>7. CASE PruneFails(x)
  <2>1. /\ prune' = [prune EXCEPT ![x].at = "failed", ![x].todo = {}]
        /\ remote' = remote /\ recorded' = recorded
    BY <1>7 DEF PruneFails
  <2>2. /\ prune' \in [Prunes -> PruneCalls]
        /\ \A o \in Prunes \ {x} : prune'[o] = prune[o]
        /\ prune'[x].at = "failed" /\ prune'[x].object = prune[x].object
    BY <1>1, <2>1 DEF PruneCalls, CallEnds
  <2>3. RecordedIsSomewhere'
    BY <1>1, <2>1, <2>2, StaysSomewhere DEF CloudInv
  <2>4. \A y \in Prunes : PruneBusy(y)' => prune'[y].object \in Backups
    BY <2>2 DEF CloudInv, PruneBusy
  <2> QED
    BY <1>1, <1>3, <2>1, <2>2, <2>3, <2>4
<1> QED
  BY <1>4, <1>5, <1>6, <1>7

\* Days go by, and the server dies.
LEMMA RestKeepsInv ==
  ASSUME BackupTypeOK', CloudInv,
         \/ CallsDie
         \/ \E k \in Buckets, b \in Backups : Ages(k, b)
  PROVE  CloudInv'
<1>1. /\ bucket \in Buckets
      /\ sync \in [Syncs -> SyncCalls]
      /\ prune \in [Prunes -> PruneCalls]
      /\ remote \in [Buckets -> [Backups -> AgesOfObjects]]
      /\ recorded \subseteq Backups
  BY DEF CloudInv, CloudTypeOK, SyncCalls, PruneCalls, AgesOfObjects
<1>2. CASE CallsDie
  <2>1. UNCHANGED <<remote, bucket, recorded, reconfigs>>
    BY <1>2 DEF CallsDie
  <2>2. /\ sync' \in [Syncs -> SyncCalls]
        /\ \A s \in Syncs : sync'[s].at \in {"idle", "done"}
    <3>1. Synced \in SyncCalls /\ Synced.at = "done"
      BY CloudAssumption DEF Synced, SyncCalls
    <3> QED
      BY <1>1, <1>2, <3>1 DEF CallsDie
  <2>3. ASSUME NEW x \in Prunes
        PROVE  /\ prune'[x] \in PruneCalls
               /\ prune'[x].at \notin {"delete", "answer"}
               /\ prune[x].at \in {"answer", "failed"} =>
                    prune'[x].at = "failed" /\ prune'[x].object = prune[x].object
    <3>1. prune'[x] = IF prune[x].at \in {"delete", "answer"}
                      THEN [prune[x] EXCEPT !.at = "failed", !.todo = {}] ELSE prune[x]
      BY <1>2 DEF CallsDie
    <3> QED
      BY <1>1, <3>1 DEF PruneCalls, CallEnds
  <2>4. prune' \in [Prunes -> PruneCalls]
    <3>1. prune' = [x \in Prunes |-> prune'[x]]
      BY <1>2 DEF CallsDie
    <3> QED
      BY <2>3, <3>1
  <2>5. fetch' \in [Imports ->
          [at : {"idle", "answer", "done"}, object : Backups \cup {NoBackup}]]
    BY <1>2 DEF CallsDie, CloudInv, CloudTypeOK
  <2>6. CloudTypeOK'
    BY <1>1, <2>1, <2>2, <2>4, <2>5 DEF CloudInv, CloudTypeOK, SyncCalls, PruneCalls,
       AgesOfObjects
  <2>7. RecordedIsSomewhere'
    BY <1>1, <2>1, <2>3, StaysSomewhere DEF CloudInv
  <2> QED
    BY <2>2, <2>3, <2>6, <2>7 DEF CloudInv, SyncBusy, PruneBusy
<1>3. ASSUME NEW k \in Buckets, NEW b \in Backups, Ages(k, b)
      PROVE  CloudInv'
  <2>1. /\ UNCHANGED <<bucket, recorded, sync, prune, fetch, reconfigs>>
        /\ remote' = [remote EXCEPT ![k][b] = "old"]
    BY <1>3 DEF Ages, SetObject
  <2>2. /\ remote' \in [Buckets -> [Backups -> AgesOfObjects]]
        /\ \A l \in Buckets, c \in Backups : remote'[l][c] \in {remote[l][c], "old"}
    BY <1>1, <2>1 DEF AgesOfObjects
  <2>3. CloudTypeOK'
    BY <2>1, <2>2 DEF CloudInv, CloudTypeOK, AgesOfObjects
  <2>4. RecordedIsSomewhere'
    <3>1. \A l \in Buckets, c \in Backups : remote[l][c] # "none" => remote'[l][c] # "none"
      BY <2>2
    <3> QED
      BY <1>1, <2>1, <3>1, StaysSomewhere DEF CloudInv
  <2>5. \A s \in Syncs : sync[s].at \notin {"put", "answer"}
    BY <1>3 DEF Ages, Quiet
  <2> QED
    BY <2>1, <2>3, <2>4, <2>5 DEF CloudInv, SyncBusy, PruneBusy
<1> QED
  BY <1>2, <1>3

LEMMA CloudInvStep ==
  ASSUME ~ CloudOverlaps, BackupInv, BackupInv', CloudInv,
         [CloudNext]_cloudAndBackupVars
  PROVE  CloudInv'
<1>1. BackupTypeOK'
  BY DEF BackupInv
<1>2. ASSUME UNCHANGED <<remote, bucket, recorded, sync, prune>>,
             fetch' \in [Imports ->
               [at : {"idle", "answer", "done"}, object : Backups \cup {NoBackup}]],
             reconfigs' \in 0..MaxReconfigs
      PROVE  CloudInv'
  BY <1>1, <1>2 DEF CloudInv, CloudTypeOK, SyncBusy, PruneBusy, RecordedIsSomewhere
<1>3. CASE \/ LocalStep /\ UNCHANGED cloudVars
           \/ UNCHANGED cloudAndBackupVars
  BY <1>2, <1>3 DEF cloudVars, cloudAndBackupVars, CloudInv, CloudTypeOK
<1>4. CASE CloudStep
  <2>1. CASE \E i \in Imports : (\E b \in Backups : FetchBegins(i, b)) \/ FetchFails(i)
    <3>1. PICK i \in Imports : (\E b \in Backups : FetchBegins(i, b)) \/ FetchFails(i)
      BY <2>1
    <3>2. \E call \in [at : {"idle", "answer", "done"}, object : Backups \cup {NoBackup}] :
            fetch' = [fetch EXCEPT ![i] = call]
      <4>1. [at |-> "done", object |-> NoBackup]
              \in [at : {"idle", "answer", "done"}, object : Backups \cup {NoBackup}]
        OBVIOUS
      <4>2. \A b \in Backups : [at |-> "answer", object |-> b]
              \in [at : {"idle", "answer", "done"}, object : Backups \cup {NoBackup}]
        OBVIOUS
      <4> QED
        BY <3>1, <4>1, <4>2 DEF FetchBegins, FetchFails, FetchOver
    <3>3. UNCHANGED <<remote, bucket, recorded, sync, prune, reconfigs>>
      BY <3>1 DEF FetchBegins, FetchFails
    <3> QED
      BY <1>2, <3>2, <3>3 DEF CloudInv, CloudTypeOK
  <2>2. CASE \E k \in Buckets : Reconfigure(k)
    <3>1. PICK k \in Buckets : Reconfigure(k)
      BY <2>2
    <3>2. /\ bucket' = k /\ reconfigs' = reconfigs + 1 /\ reconfigs < MaxReconfigs
          /\ UNCHANGED <<remote, recorded, sync, prune, fetch>>
      BY <3>1 DEF Reconfigure
    <3>3. reconfigs' \in 0..MaxReconfigs
      BY <3>2, CloudAssumption DEF CloudInv, CloudTypeOK
    <3> QED
      BY <1>1, <3>2, <3>3 DEF CloudInv, CloudTypeOK, SyncBusy, PruneBusy,
         RecordedIsSomewhere
  <2>3. CASE \E k \in Buckets, b \in Backups : Ages(k, b)
    BY <1>1, <2>3, RestKeepsInv
  <2>4. CASE \E s \in Syncs :
               SyncBegins(s) \/ PutArrives(s) \/ PutAnswers(s) \/ PutFails(s)
    BY <1>1, <2>4, SyncKeepsInv
  <2>5. CASE \E x \in Prunes :
               PruneBegins(x) \/ DeleteArrives(x) \/ DeleteAnswers(x) \/ PruneFails(x)
    BY <1>1, <2>5, PruneKeepsInv
  <2> QED
    BY <1>4, <2>1, <2>2, <2>3, <2>4, <2>5 DEF CloudStep
<1>5. CASE \E i \in Imports : FetchEnds(i)
  <2>1. PICK i \in Imports : FetchEnds(i)
    BY <1>5
  <2>2. /\ fetch' = [fetch EXCEPT ![i] = [at |-> "done", object |-> NoBackup]]
        /\ UNCHANGED <<remote, bucket, recorded, sync, prune, reconfigs>>
    BY <2>1 DEF FetchEnds, FetchOver
  <2> QED
    BY <1>2, <2>2 DEF CloudInv, CloudTypeOK
<1>6. CASE CloudDeath
  BY <1>1, <1>6, RestKeepsInv DEF CloudDeath
<1> QED
  BY <1>3, <1>4, <1>5, <1>6 DEF CloudNext

\* Where no sync overlaps a prune, cloud sync and the store keep their types and
\* the table of uploads its meaning (cloudsync/service.ts 284-344).
THEOREM CloudInvariant ==
  ASSUME ~ CloudOverlaps
  PROVE  CloudSpec => []CloudInv
<1>1. CloudInit => CloudInv
  <2> SUFFICES ASSUME CloudInit PROVE CloudInv
    OBVIOUS
  <2>1. BackupTypeOK
    BY InitIsFine DEF CloudInit, BackupInv
  <2>2. << >> \in Seq(Backups)
    OBVIOUS
  <2> QED
    BY <2>1, <2>2, CloudAssumption DEF CloudInit, CloudInv, CloudTypeOK,
       RecordedIsSomewhere, SyncBusy, PruneBusy
<1>2. CloudSpec => []BackupInv
  BY CloudImplementsBackupStore, BackupInvariant
<1>3. BackupInv /\ BackupInv' /\ CloudInv /\ [CloudNext]_cloudAndBackupVars => CloudInv'
  BY CloudInvStep
<1> QED
  BY <1>1, <1>2, <1>3, PTL DEF CloudSpec

\* However often calls fail and the server dies, what cloud_sync_objects says is
\* uploaded has an object, or a prune deleted it that could not record that
\* (cloudsync/service.ts 304-337, 469-477).
THEOREM RecordedStaysSomewhere ==
  ASSUME ~ CloudOverlaps
  PROVE  CloudSpec => []RecordedIsSomewhere
<1>1. CloudInv => RecordedIsSomewhere
  BY DEF CloudInv
<1> QED
  BY <1>1, CloudInvariant, PTL
=============================================================================
