\* Every interleaving of three futures, two polled at a time over pools of one
\* connection, with one schema change on the source.
SPECIFICATION MCSpec
CONSTANTS
    t1 = t1  t2 = t2  t3 = t3
    a = a  b = b
    l1 = l1  l2 = l2  m1 = m1  m2 = m2  cdc = cdc  n1 = n1
    Tables <- MCTables
    Included <- MCTables
    Columns <- MCColumns
    Parquet <- MCParquet
    Listing <- MCListing
    LoadFiles <- MCLoadFiles
    FirstLoad <- MCFirstLoad
    FileCols <- MCFileCols
    Reduced <- MCReduced
    HasStartDate = FALSE
    NumBuffers = 2
    SourcePoolSize = 1
    TargetPoolSize = 1
    MaxAlters = 1
INVARIANTS
    LoadTypeOK
    ExactPrefix
    CompletedMeansComplete
    LoadedFilesFit
PROPERTIES
    SnapshotEnds
