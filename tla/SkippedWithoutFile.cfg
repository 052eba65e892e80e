\* What the documentation says of a missing configuration file.
SPECIFICATION Spec
CONSTANTS
    null = null  blank = blank  short = short  ann = ann  bob = bob  nul = nul
    phone = phone  wide = wide  noTable = noTable  noLimit = noLimit  day = day
    oldObject = oldObject  ta = ta  tb = tb  a1 = a1  a2 = a2  b1 = b1
    Null <- MCNull
    Blank <- MCBlank
    Short <- MCShort
    Digits <- MCDigits
    WideEnds <- MCWideEnds
    NulBytes <- MCNulBytes
    NoTable <- noTable
    NoLimit <- noLimit
    Originals <- MCOriginals
    Tables <- MCTables
    FilesOf <- MCFilesOf
    FirstLoad <- MCFirstLoad
    Source <- MCSource
    Configs <- MCConfigs
    OldObject <- oldObject
INVARIANTS
    SkippedOnlyWithoutFile
