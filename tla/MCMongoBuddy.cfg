CONSTANTS
    users = users
    logs = logs
    noObject = noObject
    NoObject <- noObject
    GiB <- MCGiB
    Archives <- MCArchives
    Collections <- MCCollections
    Sizes <- MCSizes
    MaxChanges <- MCMaxChanges
    MaxExports <- MCMaxExports
    MaxImports <- MCMaxImports
    MaxDeaths <- MCMaxDeaths
    Exclusions <- MCExclusions
SPECIFICATION Spec
INVARIANTS
    TypeOK
    ObjectWhole
    ImportIsArchive
PROPERTIES
    ArchiveFresh
    ExcludedStaysOut
