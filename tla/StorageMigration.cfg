\* Two files, on the disk and in the bucket.
SPECIFICATION FairStorageSpec
CONSTANTS
    Files = {f1, f2}
INVARIANTS ArchiveIsComplete
PROPERTIES ImportSettles ImportedIsStored
