-------------------------- MODULE StorageMigration --------------------------
(***************************************************************************)
(* Moving the media files (StorageService, InfraController): the gateway   *)
(* keeps them on the local disk or in an S3 bucket.  The administrator     *)
(* exports them to an archive, saves another configuration, restarts and   *)
(* imports the archive.                                                    *)
(*                                                                         *)
(* The bucket is probed while the gateway is already at work; until the    *)
(* probe is answered, and for good if it fails, the local disk stands in   *)
(* for it.                                                                 *)
(***************************************************************************)
EXTENDS Naturals, FiniteSets

CONSTANTS
    Files   \* names of media files; a name stands for its content as well

ASSUME FilesAssumption == IsFiniteSet(Files)

VARIABLES
    saved,       \* what .env.generated says of the storage
    probe,       \* the client of the bucket, and what is known of the bucket
    stored,      \* the files of each backend
    archive,     \* the files in the archive of the last export
    exporting,   \* the export
    importing    \* the import

storageVars == <<saved, probe, stored, archive, exporting, importing>>

Backends == {"local", "s3"}

\* "incomplete": type s3, without the endpoint or a key; "unset": no section.
Configurations == {"local", "s3", "incomplete", "unset"}

\* "none": no client was made.
Probes == {"none", "probing", "creating", "up", "failed"}

\* todo: files of the list that the loop has not come to; missed: a file could
\* not be read; had: what the backend held when the export began (both
\* history).
NoExport == [at |-> "idle", todo |-> {}, missed |-> FALSE, had |-> {}]

\* entry: the file being stored; to: the backend it is sent to; count: files
\* stored; given: the files of the archive; failed, split: one could not be
\* stored, and the bucket came up (all history).
NoImport == [at |-> "idle", todo |-> {}, entry |-> {}, to |-> "local", count |-> 0,
             given |-> {}, failed |-> FALSE, split |-> FALSE]

StorageTypeOK ==
    /\ saved \in Configurations /\ probe \in Probes
    /\ stored \in [Backends -> SUBSET Files]
    /\ archive \in SUBSET Files
    /\ exporting \in [at : {"idle", "listing", "reading", "done", "refused"},
                      todo : SUBSET Files, missed : BOOLEAN, had : SUBSET Files]
    /\ importing \in [at : {"idle", "reading", "storing", "imported", "refused"},
                      todo : SUBSET Files, entry : SUBSET Files, to : Backends,
                      count : 0..Cardinality(Files), given : SUBSET Files,
                      failed : BOOLEAN, split : BOOLEAN]

\* The first run writes a configuration with STORAGE_TYPE=local.
StorageInit ==
    /\ saved = "local" /\ probe = "none"
    /\ stored = [b \in Backends |-> {}] /\ archive = {}
    /\ exporting = NoExport /\ importing = NoImport

\* The backend of a list, a read or a write that begins now.
Backend == IF probe = "up" THEN "s3" ELSE "local"

-----------------------------------------------------------------------------
\* The process and its configuration

\* The constructor probes the bucket, and nothing waits for the answer.
StorageRestart ==
    /\ probe' = IF saved = "s3" THEN "probing" ELSE "none"
    /\ exporting' = NoExport /\ importing' = NoImport
    /\ archive' = IF exporting.at \in {"listing", "reading"} THEN {} ELSE archive
    /\ UNCHANGED <<saved, stored>>

\* The file is written as a whole: without a storage section the type is gone.
SaveConfig(configuration) ==
    /\ saved' = configuration
    /\ UNCHANGED <<probe, stored, archive, exporting, importing>>

\* HeadBucket is answered, or CreateBucket.
Probed(answer) ==
    /\ \/ probe = "probing" /\ answer \in {"up", "creating", "failed"}
       \/ probe = "creating" /\ answer \in {"up", "failed"}
    /\ probe' = answer
    /\ importing' = [importing EXCEPT !.split =
            @ \/ (answer = "up" /\ importing.at \in {"reading", "storing"})]
    /\ UNCHANGED <<saved, stored, archive, exporting>>

\* Somebody puts a file into a backend: nothing in the gateway does but imports.
FileAppears(b, f) ==
    /\ stored' = [stored EXCEPT ![b] = @ \cup {f}]
    /\ UNCHANGED <<saved, probe, archive, exporting, importing>>

-----------------------------------------------------------------------------
\* createExportStream.  One export at a time.

\* The list of a bucket is awaited.  From the disk, the list and the loop over
\* it, which leaves out what cannot be read, run without another event between.
ExportBegins ==
    /\ exporting.at \notin {"listing", "reading"}
    /\ \/ /\ Backend = "s3" /\ archive' = {}
          /\ exporting' = [NoExport EXCEPT !.at = "listing", !.had = stored.s3]
       \/ /\ Backend = "local" /\ archive' \in SUBSET stored.local
          /\ exporting' = [NoExport EXCEPT !.at = "done", !.had = stored.local,
                                           !.missed = archive' # stored.local]
       \/ /\ Backend = "local" /\ archive' = {}
          /\ exporting' = [NoExport EXCEPT !.at = "refused"]
    /\ UNCHANGED <<saved, probe, stored, importing>>

\* The pages of the list have come, or a request for one fails.
Listed ==
    /\ exporting.at = "listing"
    /\ \/ exporting' = [exporting EXCEPT !.at = "reading", !.todo = stored.s3]
       \/ exporting' = [exporting EXCEPT !.at = "refused"]
    /\ UNCHANGED <<saved, probe, stored, archive, importing>>

\* A file goes into the archive.  One that cannot be read is left out with a
\* warning in the log.
Read(f) ==
    /\ exporting.at = "reading" /\ f \in exporting.todo
    /\ \/ archive' = archive \cup {f} /\ exporting' = [exporting EXCEPT !.todo = @ \ {f}]
       \/ archive' = archive /\ exporting' = [exporting EXCEPT !.todo = @ \ {f}, !.missed = TRUE]
    /\ UNCHANGED <<saved, probe, stored, importing>>

\* A loop over the first page of the list only.
ExportedEarly ==
    /\ exporting.at = "reading"
    /\ exporting' = [exporting EXCEPT !.at = "done"]
    /\ UNCHANGED <<saved, probe, stored, archive, importing>>

\* The archive is finalized and written, or its file cannot be.
Exported ==
    /\ exporting.at = "reading" /\ exporting.todo = {}
    /\ \/ exporting' = [exporting EXCEPT !.at = "done"] /\ UNCHANGED archive
       \/ exporting' = [exporting EXCEPT !.at = "refused"] /\ archive' = {}
    /\ UNCHANGED <<saved, probe, stored, importing>>

-----------------------------------------------------------------------------
\* importFromStream.  One import at a time.

\* An archive of the data directory, the one of the last export.
ImportBegins ==
    /\ importing.at \notin {"reading", "storing"}
    /\ exporting.at \notin {"listing", "reading"} /\ archive # {}
    /\ importing' = [NoImport EXCEPT !.at = "reading", !.todo = archive, !.given = archive]
    /\ UNCHANGED <<saved, probe, stored, archive, exporting>>

\* The next entry has been read: its file is stored.
Entry(f) ==
    /\ importing.at = "reading" /\ f \in importing.todo
    /\ importing' = [importing EXCEPT !.at = "storing", !.todo = @ \ {f},
                                      !.entry = {f}, !.to = Backend]
    /\ UNCHANGED <<saved, probe, stored, archive, exporting>>

\* A handler that asks for the next entry only after a file was stored.
EntryStoredOnly ==
    /\ importing.at = "storing" /\ importing.entry # {}
    /\ \/ /\ stored' = [stored EXCEPT ![importing.to] = @ \cup importing.entry]
          /\ importing' = [importing EXCEPT !.at = "reading", !.entry = {}, !.count = @ + 1]
       \/ /\ UNCHANGED stored
          /\ importing' = [importing EXCEPT !.entry = {}, !.failed = TRUE]
    /\ UNCHANGED <<saved, probe, archive, exporting>>

\* A handler that counts the entries, whatever becomes of them.
EntryCounted ==
    /\ importing.at = "storing"
    /\ importing' = [importing EXCEPT !.at = "reading", !.entry = {}, !.count = @ + 1]
    /\ UNCHANGED <<saved, probe, stored, archive, exporting>>

\* The file is there and counted, or it is only logged (though a bucket may have
\* got it); either way the next entry is asked for.
EntryEnds ==
    /\ importing.at = "storing"
    /\ \/ /\ stored' = [stored EXCEPT ![importing.to] = @ \cup importing.entry]
          /\ importing' = [importing EXCEPT !.at = "reading", !.entry = {}, !.count = @ + 1]
       \/ /\ \E got \in {{}, importing.entry} :
                stored' = [stored EXCEPT ![importing.to] = @ \cup got]
          /\ importing' = [importing EXCEPT !.at = "reading", !.entry = {}, !.failed = TRUE]
    /\ UNCHANGED <<saved, probe, archive, exporting>>

\* The end of the archive, or an error of the tar format.  (An error of gunzip
\* or of the file has no listener and ends the process: StorageRestart.)
Imported ==
    /\ importing.at = "reading"
    /\ \/ importing.todo = {} /\ importing' = [importing EXCEPT !.at = "imported"]
       \/ importing' = [importing EXCEPT !.at = "refused"]
    /\ UNCHANGED <<saved, probe, stored, archive, exporting>>

StorageNext ==
    \/ \E configuration \in Configurations : SaveConfig(configuration)
    \/ \E answer \in Probes : Probed(answer)
    \/ \E b \in Backends, f \in Files : FileAppears(b, f)
    \/ ExportBegins \/ Listed \/ Exported
    \/ \E f \in Files : Read(f) \/ Entry(f)
    \/ ImportBegins \/ EntryEnds \/ Imported

StorageSpec == StorageInit /\ [][StorageNext \/ StorageRestart]_storageVars

\* Disk, bucket and archive answer: the S3 client has timeouts.
StorageFairness ==
    /\ WF_storageVars((\E f \in Files : Entry(f)) \/ Imported)
    /\ WF_storageVars(EntryEnds)

FairStorageSpec == StorageSpec /\ StorageFairness

-----------------------------------------------------------------------------
\* Properties

\* An archive that was exported without a warning holds every file of
\* the storage it was taken from, whatever has been put there meanwhile, and
\* nothing that is not in one of the backends.
ArchiveIsComplete ==
    exporting.at = "done" =>
        /\ ~exporting.missed => exporting.had \subseteq archive
        /\ archive \subseteq stored.local \cup stored.s3

\* The count an import answers with is the number of files it has stored: all of
\* the archive when none failed, and then all of it is in the storage the
\* gateway uses at the answer, unless the bucket came up on the way.
ImportedIsStored ==
    [][importing.at = "reading" /\ importing'.at = "imported" /\ ~importing.failed =>
        /\ importing.count = Cardinality(importing.given)
        /\ importing.given \subseteq stored.local \cup stored.s3
        /\ ~importing.split => importing.given \subseteq stored[Backend]]_storageVars

\* Every import comes to an answer, though files cannot be stored, or ends with
\* the process.
ImportSettles ==
    importing.at \in {"reading", "storing"} ~> importing.at \notin {"reading", "storing"}
=============================================================================
