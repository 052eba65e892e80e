\* Two runs, each killed or failing anywhere, over one schema change.
SPECIFICATION Spec
CONSTANTS
    t1 = t1  t2 = t2  a = a
    l1 = l1  l2 = l2  m1 = m1  cdc = cdc
    u1 = u1  u2 = u2  imp = imp  ext = ext  none = none
    Tables <- MCTables
    Included <- MCTables
    Columns <- MCColumns
    Parquet <- MCParquet
    Listing <- MCListing
    LoadFiles <- MCLoadFiles
    FirstLoad <- MCFirstLoad
    FileCols <- MCFileCols
    Reduced <- MCReduced
    HasStartDate = FALSE
    NumBuffers = 2
    SourcePoolSize = 1
    TargetPoolSize = 1
    MaxAlters = 1
    AppUsers <- MCAppUsers
    AppOwner = u2
    ImportRole = imp
    Extensions <- MCExtensions
    NoName <- none
    Owned <- MCOwned
    Fixes <- MCFixes
    MaxRuns = 2
INVARIANTS
    TypeOK
    AccessOnlyToWhole
    NeverDoubled
    AdmittedSequencesAhead
    SuccessIsReplica
PROPERTIES
    DropNeedsFreshDump
    RunEnds
    KeepsPromise
