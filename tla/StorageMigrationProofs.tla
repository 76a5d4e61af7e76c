----------------------- MODULE StorageMigrationProofs -----------------------
(***************************************************************************)
(* Theorems about StorageMigration, for any finite set of files.           *)
(***************************************************************************)
EXTENDS StorageMigration, FiniteSetTheorems, TLAPS

Everywhere == stored.local \cup stored.s3

ExportType ==
    [at : {"idle", "listing", "reading", "done", "refused"},
     todo : SUBSET Files, missed : BOOLEAN, had : SUBSET Files]

ImportType ==
    [at : {"idle", "reading", "storing", "imported", "refused"},
     todo : SUBSET Files, entry : SUBSET Files, to : Backends,
     count : 0..Cardinality(Files), given : SUBSET Files,
     failed : BOOLEAN, split : BOOLEAN]

\* What the archive has, and what the loop will still put into it.
Archived ==
    /\ archive \subseteq Everywhere
    /\ exporting.at = "listing" => exporting.had \subseteq stored.s3 /\ archive = {}
    /\ exporting.at = "reading" =>
          /\ exporting.todo \subseteq stored.s3
          /\ ~exporting.missed => exporting.had \subseteq archive \cup exporting.todo
    /\ exporting.at = "done" /\ ~exporting.missed => exporting.had \subseteq archive

\* The files the import has come to.
Seen(i) == i.given \ (i.todo \cup i.entry)

\* An import under way knows where its entries have gone.
Underway(i) ==
    i.at \in {"reading", "storing"} =>
        /\ i.todo \subseteq i.given /\ i.entry \subseteq i.given
        /\ i.at = "reading" => i.entry = {}
        /\ i.at = "storing" => \E f \in Files : i.entry = {f} /\ f \notin i.todo
        /\ i.count <= Cardinality(Seen(i))
        /\ ~i.failed => /\ i.count = Cardinality(Seen(i))
                        /\ Seen(i) \subseteq Everywhere
                        /\ ~i.split => Seen(i) \subseteq stored[Backend]
        /\ i.at = "storing" /\ ~i.split => i.to = Backend

SInv ==
    /\ saved \in Configurations /\ probe \in Probes
    /\ stored \in [Backends -> SUBSET Files]
    /\ archive \in SUBSET Files
    /\ exporting \in ExportType /\ importing \in ImportType
    /\ Archived /\ Underway(importing)

\* Sizes of the sets of files.
LEMMA Sizes ==
    ASSUME NEW S \in SUBSET Files
    PROVE  /\ IsFiniteSet(S) /\ Cardinality(S) \in Nat
           /\ Cardinality(S) <= Cardinality(Files) /\ Cardinality(Files) \in Nat
  BY FilesAssumption, FS_Subset, FS_CardinalityType

\* The invariant holds at first.
LEMMA StorageStart == StorageInit => SInv
  <1> SUFFICES ASSUME StorageInit PROVE SInv OBVIOUS
  <1>1. Cardinality(Files) \in Nat BY FilesAssumption, FS_CardinalityType
  <1>2. importing \in ImportType BY <1>1 DEF StorageInit, NoImport, ImportType, Backends
  <1>3. exporting \in ExportType BY DEF StorageInit, NoExport, ExportType
  <1>4. stored \in [Backends -> SUBSET Files] BY DEF StorageInit
  <1>5. Archived BY DEF StorageInit, NoExport, Archived, Everywhere
  <1>6. Underway(importing) BY DEF StorageInit, NoImport, Underway
  <1> QED BY <1>2, <1>3, <1>4, <1>5, <1>6 DEF StorageInit, SInv, Configurations, Probes

\* Files are put into a backend, and none is taken away: what was known of the
\* archive stays true.
LEMMA ArchivedStays ==
    ASSUME SInv, UNCHANGED <<archive, exporting>>,
           stored.local \subseteq stored'.local, stored.s3 \subseteq stored'.s3
    PROVE  Archived'
  BY DEF SInv, Archived, Everywhere

\* Likewise of the import, while it and the backend stay.
LEMMA UnderwayStays ==
    ASSUME SInv, UNCHANGED <<importing, probe>>,
           stored' \in [Backends -> SUBSET Files],
           stored.local \subseteq stored'.local, stored.s3 \subseteq stored'.s3
    PROVE  Underway(importing)'
  <1>1. Everywhere \subseteq Everywhere' BY DEF Everywhere
  <1>2. Backend' = Backend BY DEF Backend
  <1>3. stored[Backend] \subseteq stored'[Backend] BY DEF Backend
  <1> HIDE DEF Everywhere, Backend
  <1>4. Underway(importing) /\ importing' = importing BY DEF SInv
  <1>5. Seen(importing)' = Seen(importing) BY <1>4 DEF Seen
  <1> QED BY <1>1, <1>2, <1>3, <1>4, <1>5 DEF Underway

\* The configuration and the bucket.
LEMMA ProbedKeeps ==
    ASSUME SInv,
           \/ \E configuration \in Configurations : SaveConfig(configuration)
           \/ \E answer \in Probes : Probed(answer)
    PROVE  SInv'
  <1>1. /\ stored' = stored /\ archive' = archive /\ exporting' = exporting
    BY DEF SaveConfig, Probed
  <1>2. Archived' BY <1>1, ArchivedStays
  <1>3. ASSUME NEW configuration \in Configurations, SaveConfig(configuration)
        PROVE  SInv'
    <2>1. saved' \in Configurations /\ probe' = probe /\ importing' = importing
      BY <1>3 DEF SaveConfig
    <2>2. stored' \in [Backends -> SUBSET Files] BY <1>1 DEF SInv
    <2>3. Underway(importing)' BY <1>1, <2>1, <2>2, UnderwayStays
    <2> QED BY <1>1, <1>2, <2>1, <2>3 DEF SInv
  <1>4. ASSUME NEW answer \in Probes, Probed(answer) PROVE SInv'
    <2> DEFINE split == importing.split
                          \/ (answer = "up" /\ importing.at \in {"reading", "storing"})
    <2>1. /\ probe \in {"probing", "creating"} /\ probe' = answer /\ saved' = saved
          /\ importing' = [importing EXCEPT !.split = split]
      BY <1>4 DEF Probed
    <2>2. split \in BOOLEAN /\ (~split => ~importing.split)
      BY DEF SInv, ImportType
    <2>3. ~split /\ importing.at \in {"reading", "storing"} => answer # "up" OBVIOUS
    <2> HIDE DEF split
    <2>4. /\ importing' \in ImportType
          /\ importing'.at = importing.at /\ importing'.todo = importing.todo
          /\ importing'.entry = importing.entry /\ importing'.to = importing.to
          /\ importing'.count = importing.count /\ importing'.given = importing.given
          /\ importing'.failed = importing.failed /\ importing'.split = split
      BY <2>1, <2>2 DEF SInv, ImportType
    <2>5. ~split /\ importing.at \in {"reading", "storing"} => Backend' = Backend
      BY <2>1, <2>3 DEF Backend
    <2>6. Seen(importing') = Seen(importing) BY <2>4 DEF Seen
    <2>7. Everywhere' = Everywhere BY <1>1 DEF Everywhere
    <2>8. Underway(importing) BY DEF SInv
    <2>9. Underway(importing)'
      BY <1>1, <2>2, <2>4, <2>5, <2>6, <2>7, <2>8 DEF Underway
    <2> QED BY <1>1, <1>2, <2>1, <2>4, <2>9 DEF SInv
  <1> QED BY <1>3, <1>4

\* A file from elsewhere.
LEMMA FileAppearsKeeps ==
    ASSUME SInv, NEW b \in Backends, NEW f \in Files, FileAppears(b, f)
    PROVE  SInv'
  <1>1. /\ stored' = [stored EXCEPT ![b] = @ \cup {f}]
        /\ UNCHANGED <<saved, probe, archive, exporting, importing>>
    BY DEF FileAppears
  <1>2. /\ stored' \in [Backends -> SUBSET Files]
        /\ stored.local \subseteq stored'.local /\ stored.s3 \subseteq stored'.s3
    BY <1>1 DEF SInv, Backends
  <1>3. Archived' BY <1>1, <1>2, ArchivedStays
  <1>4. Underway(importing)' BY <1>1, <1>2, UnderwayStays
  <1> QED BY <1>1, <1>2, <1>3, <1>4 DEF SInv

\* The steps of an export.
LEMMA ExportKeeps ==
    ASSUME SInv,
           ExportBegins \/ Listed \/ Exported \/ \E f \in Files : Read(f)
    PROVE  SInv'
  <1>0. UNCHANGED <<saved, probe, stored, importing>>
    BY DEF ExportBegins, Listed, Exported, Read
  <1>1. stored \in [Backends -> SUBSET Files] /\ stored.local \in SUBSET Files
        /\ stored.s3 \in SUBSET Files
    BY DEF SInv, Backends
  <1>2. Underway(importing)' BY <1>0, <1>1, UnderwayStays
  <1>3. archive' \in SUBSET Files /\ exporting' \in ExportType /\ Archived'
    <2>1. CASE ExportBegins
      BY <2>1, <1>0, <1>1 DEF ExportBegins, NoExport, SInv, ExportType, Archived, Everywhere
    <2>2. CASE Listed
      BY <2>2, <1>0, <1>1 DEF Listed, SInv, ExportType, Archived, Everywhere
    <2>3. CASE Exported
      BY <2>3, <1>0, <1>1 DEF Exported, SInv, ExportType, Archived, Everywhere
    <2>4. ASSUME NEW f \in Files, Read(f) PROVE archive' \in SUBSET Files
                                               /\ exporting' \in ExportType /\ Archived'
      BY <2>4, <1>0, <1>1 DEF Read, SInv, ExportType, Archived, Everywhere
    <2> QED BY <2>1, <2>2, <2>3, <2>4
  <1> QED BY <1>0, <1>2, <1>3 DEF SInv

\* An import begins, or comes to its next entry, or ends.
LEMMA ImportKeeps ==
    ASSUME SInv,
           ImportBegins \/ Imported \/ \E f \in Files : Entry(f)
    PROVE  SInv'
  <1>0. UNCHANGED <<saved, probe, stored, archive, exporting>>
    BY DEF ImportBegins, Imported, Entry
  <1>1. Archived' BY <1>0, ArchivedStays
  <1>2. Everywhere' = Everywhere /\ Backend' = Backend BY <1>0 DEF Everywhere, Backend
  <1>3. importing \in ImportType /\ Underway(importing) /\ archive \in SUBSET Files BY DEF SInv
  <1>4. importing' \in ImportType /\ Underway(importing)'
    <2>1. CASE ImportBegins
      <3> DEFINE i == [NoImport EXCEPT !.at = "reading", !.todo = archive, !.given = archive]
      <3>1. importing' = i BY <2>1 DEF ImportBegins
      <3>2. Cardinality(Files) \in Nat BY FilesAssumption, FS_CardinalityType
      <3>n. NoImport \in ImportType /\ NoImport.entry = {} /\ NoImport.count = 0
        BY <3>2 DEF NoImport, ImportType, Backends
      <3>3. /\ i \in ImportType /\ i.at = "reading" /\ i.todo = archive /\ i.given = archive
            /\ i.entry = {} /\ i.count = 0
        BY <1>3, <3>n DEF ImportType
      <3> HIDE DEF i
      <3>4. Seen(i) = {} BY <3>3 DEF Seen
      <3>5. Cardinality({}) = 0 BY FS_EmptySet
      <3> QED BY <3>1, <3>3, <3>4, <3>5 DEF Underway
    <2>2. CASE Imported
      <3>1. PICK at \in {"imported", "refused"} : importing' = [importing EXCEPT !.at = at]
        BY <2>2 DEF Imported
      <3>2. importing' \in ImportType /\ importing'.at = at BY <1>3, <3>1 DEF ImportType
      <3> QED BY <3>2 DEF Underway
    <2>3. ASSUME NEW f \in Files, Entry(f)
          PROVE  importing' \in ImportType /\ Underway(importing)'
      <3> DEFINE b == Backend
                 i == [importing EXCEPT !.at = "storing", !.todo = @ \ {f}, !.entry = {f}, !.to = b]
      <3>1. importing.at = "reading" /\ f \in importing.todo /\ importing' = i
        BY <2>3 DEF Entry
      <3>b. b \in Backends BY DEF Backend, Backends
      <3>2. /\ i \in ImportType /\ i.at = "storing" /\ i.todo = importing.todo \ {f}
            /\ i.entry = {f} /\ i.given = importing.given /\ i.count = importing.count
            /\ i.to = b /\ i.failed = importing.failed /\ i.split = importing.split
        BY <1>3, <3>b DEF ImportType
      <3>3. Seen(i) = Seen(importing)
        BY <1>3, <3>1, <3>2 DEF Underway, Seen
      <3> HIDE DEF i
      <3> QED BY <1>0, <1>2, <1>3, <3>1, <3>2, <3>3 DEF Underway
    <2> QED BY <2>1, <2>2, <2>3
  <1> QED BY <1>0, <1>1, <1>4 DEF SInv

\* The file of an entry is stored, or is not.
LEMMA EntryEndsKeeps == ASSUME SInv, EntryEnds PROVE SInv'
  <1>0. UNCHANGED <<saved, probe, archive, exporting>> BY DEF EntryEnds
  <1>1. importing \in ImportType /\ Underway(importing) /\ stored \in [Backends -> SUBSET Files]
    BY DEF SInv
  <1>2. importing.at = "storing" BY DEF EntryEnds
  <1>3. PICK f \in Files : importing.entry = {f} /\ f \notin importing.todo
    BY <1>1, <1>2 DEF Underway
  <1>4. Backend' = Backend BY <1>0 DEF Backend
  <1>5. PICK got \in {{}, importing.entry} :
            stored' = [stored EXCEPT ![importing.to] = @ \cup got]
    BY DEF EntryEnds
  <1>6. /\ stored' \in [Backends -> SUBSET Files]
        /\ \A b \in Backends : stored[b] \subseteq stored'[b]
        /\ stored.local \subseteq stored'.local /\ stored.s3 \subseteq stored'.s3
    BY <1>1, <1>3, <1>5 DEF Backends, ImportType
  <1>7. Archived' BY <1>0, <1>6, ArchivedStays
  <1>8. Everywhere \subseteq Everywhere' BY <1>6 DEF Everywhere
  <1>9. Backend \in Backends BY DEF Backend, Backends
  <1> DEFINE seen == Seen(importing)
             more == seen \cup {f}
  <1>10. seen \in SUBSET Files /\ f \notin seen /\ more \in SUBSET Files
         /\ f \in importing.given
    BY <1>1, <1>2, <1>3 DEF Seen, ImportType, Underway
  <1>11. /\ Cardinality(more) = Cardinality(seen) + 1
         /\ Cardinality(seen) \in Nat /\ Cardinality(more) \in Nat
         /\ Cardinality(more) <= Cardinality(Files) /\ Cardinality(Files) \in Nat
    BY <1>10, Sizes, FS_AddElement
  <1>12. importing.count \in Nat /\ importing.count <= Cardinality(seen)
    BY <1>1, <1>2, <1>11 DEF Underway, ImportType
  <1>13. ASSUME NEW i \in ImportType, i.at = "reading", i.entry = {}, i.todo = importing.todo,
                i.given = importing.given
         PROVE  Seen(i) = more
    BY <1>13, <1>1, <1>2, <1>3, <1>10 DEF Seen, Underway
  <1> HIDE DEF seen, more
  <1>14. importing' \in ImportType /\ Underway(importing)'
    <2>1. CASE /\ stored' = [stored EXCEPT ![importing.to] = @ \cup importing.entry]
               /\ importing' = [importing EXCEPT !.at = "reading", !.entry = {}, !.count = @ + 1]
      <3> DEFINE i == [importing EXCEPT !.at = "reading", !.entry = {}, !.count = @ + 1]
      <3>0. importing.count + 1 \in 0..Cardinality(Files) BY <1>11, <1>12
      <3>1. /\ i \in ImportType /\ i.at = "reading" /\ i.todo = importing.todo
            /\ i.entry = {} /\ i.given = importing.given /\ i.count = importing.count + 1
            /\ i.failed = importing.failed /\ i.split = importing.split
        BY <1>1, <3>0 DEF ImportType
      <3>2. importing' = i BY <2>1
      <3> HIDE DEF i
      <3>3. Seen(i) = more BY <1>13, <3>1
      <3>4. f \in stored'[importing.to] /\ importing.to \in Backends
        BY <1>1, <1>3, <2>1 DEF ImportType
      <3>5. f \in Everywhere' BY <1>6, <3>4 DEF Everywhere, Backends
      <3>6. ~i.failed => i.count = Cardinality(more) /\ more \subseteq Everywhere'
        BY <1>1, <1>2, <1>8, <1>11, <1>12, <3>1, <3>5 DEF Underway, seen, more
      <3>7. ~i.failed /\ ~i.split => more \subseteq stored'[Backend]
        BY <1>1, <1>2, <1>6, <1>9, <3>1, <3>4 DEF Underway, seen, more
      <3>8. i.count <= Cardinality(more) BY <1>11, <1>12, <3>1
      <3>9. i.todo \subseteq i.given BY <1>1, <1>2, <3>1 DEF Underway
      <3> QED BY <1>4, <3>1, <3>2, <3>3, <3>6, <3>7, <3>8, <3>9 DEF Underway
    <2>2. CASE importing' = [importing EXCEPT !.at = "reading", !.entry = {}, !.failed = TRUE]
      <3> DEFINE i == [importing EXCEPT !.at = "reading", !.entry = {}, !.failed = TRUE]
      <3>1. /\ i \in ImportType /\ i.at = "reading" /\ i.todo = importing.todo
            /\ i.entry = {} /\ i.given = importing.given /\ i.count = importing.count
            /\ i.failed = TRUE
        BY <1>1 DEF ImportType
      <3>2. importing' = i BY <2>2
      <3> HIDE DEF i
      <3>3. Seen(i) = more BY <1>13, <3>1
      <3>4. i.count <= Cardinality(more) BY <1>11, <1>12, <3>1
      <3>5. i.todo \subseteq i.given BY <1>1, <1>2, <3>1 DEF Underway
      <3> QED BY <3>1, <3>2, <3>3, <3>4, <3>5 DEF Underway
    <2> QED BY <2>1, <2>2 DEF EntryEnds
  <1> QED BY <1>0, <1>6, <1>7, <1>14 DEF SInv

\* A new process.
LEMMA StorageRestartKeeps == ASSUME SInv, StorageRestart PROVE SInv'
  <1>1. /\ saved' = saved /\ stored' = stored /\ probe' \in Probes
        /\ exporting' = NoExport /\ importing' = NoImport /\ archive' \in {{}, archive}
    BY DEF StorageRestart, Probes
  <1>2. Cardinality(Files) \in Nat BY FilesAssumption, FS_CardinalityType
  <1>3. importing' \in ImportType /\ Underway(importing)'
    BY <1>1, <1>2 DEF NoImport, ImportType, Backends, Underway
  <1>4. exporting' \in ExportType BY <1>1 DEF NoExport, ExportType
  <1>5. Archived' BY <1>1 DEF SInv, Archived, NoExport, Everywhere
  <1> QED BY <1>1, <1>3, <1>4, <1>5 DEF SInv

\* Every step keeps the invariant.
LEMMA StorageKept == SInv /\ [StorageNext \/ StorageRestart]_storageVars => SInv'
  <1> SUFFICES ASSUME SInv, [StorageNext \/ StorageRestart]_storageVars PROVE SInv' OBVIOUS
  <1>1. CASE StorageNext
    BY <1>1, ProbedKeeps, FileAppearsKeeps, ExportKeeps, ImportKeeps, EntryEndsKeeps
    DEF StorageNext
  <1>2. CASE StorageRestart BY <1>2, StorageRestartKeeps
  <1>3. CASE UNCHANGED storageVars
    <2>1. /\ saved' = saved /\ probe' = probe /\ stored' = stored /\ archive' = archive
          /\ exporting' = exporting /\ importing' = importing
      BY <1>3 DEF storageVars
    <2>2. Archived' BY <2>1, ArchivedStays
    <2>3. Underway(importing)' BY <2>1, UnderwayStays DEF SInv
    <2> QED BY <2>1, <2>2, <2>3 DEF SInv
  <1> QED BY <1>1, <1>2, <1>3

\* The invariant holds of every state.
LEMMA StorageAlways == StorageSpec => []SInv
  BY StorageStart, StorageKept, PTL DEF StorageSpec

\* The types of the configuration, the backends, the archive, the export and the
\* import; in particular an import never counts more files than there are.
THEOREM StorageTypes == StorageSpec => []StorageTypeOK
  <1>1. SInv => StorageTypeOK BY DEF SInv, StorageTypeOK, ExportType, ImportType
  <1> QED BY <1>1, StorageAlways, PTL

\* An archive exported without a warning is complete.
THEOREM ExportIsComplete == StorageSpec => []ArchiveIsComplete
  <1>1. SInv => ArchiveIsComplete BY DEF SInv, Archived, Everywhere, ArchiveIsComplete
  <1> QED BY <1>1, StorageAlways, PTL

\* What an import without a failed file answers is what it has stored.
THEOREM ImportIsStored == StorageSpec => ImportedIsStored
  <1>1. ASSUME SInv, importing.at = "reading" /\ importing'.at = "imported" /\ ~importing.failed,
               [StorageNext \/ StorageRestart]_storageVars
        PROVE  /\ importing.count = Cardinality(importing.given)
               /\ importing.given \subseteq stored.local \cup stored.s3
               /\ ~importing.split => importing.given \subseteq stored[Backend]
    <2>0. importing' # importing BY <1>1
    <2>a. ~StorageRestart BY <1>1 DEF StorageRestart, NoImport
    <2>b. importing \in ImportType BY <1>1 DEF SInv
    <2>c. ~(\E answer \in Probes : Probed(answer)) BY <1>1, <2>b DEF Probed, ImportType
    <2>d. ~(\E f \in Files : Entry(f)) BY <1>1, <2>b DEF Entry, ImportType
    <2>e. ~ImportBegins BY <1>1 DEF ImportBegins, NoImport
    <2>f. ~EntryEnds BY <1>1 DEF EntryEnds
    <2>g. Imported
      BY <1>1, <2>0, <2>a, <2>c, <2>d, <2>e, <2>f
      DEF StorageNext, storageVars, SaveConfig, FileAppears, ExportBegins, Listed, Exported, Read
    <2>h. importing' # [importing EXCEPT !.at = "refused"] BY <1>1, <2>b DEF ImportType
    <2>1. Imported /\ importing.todo = {} BY <2>g, <2>h DEF Imported
    <2>2. Underway(importing) /\ importing.entry = {} BY <1>1 DEF SInv, Underway
    <2>3. Seen(importing) = importing.given BY <2>1, <2>2 DEF Seen
    <2> QED BY <1>1, <2>2, <2>3 DEF Underway, Everywhere
  <1>2. SInv /\ [StorageNext \/ StorageRestart]_storageVars =>
          [importing.at = "reading" /\ importing'.at = "imported" /\ ~importing.failed =>
            /\ importing.count = Cardinality(importing.given)
            /\ importing.given \subseteq stored.local \cup stored.s3
            /\ ~importing.split => importing.given \subseteq stored[Backend]]_storageVars
    BY <1>1
  <1> QED BY <1>2, StorageAlways, PTL DEF StorageSpec, ImportedIsStored
=============================================================================
