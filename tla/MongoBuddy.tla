------------------------------ MODULE MongoBuddy ------------------------------
(***************************************************************************)
(* rustic-mongo-buddy: MongoDataExporter dumps a database to disk, packs   *)
(* the dump and uploads it (module MultipartUpload); MongoDataImporter     *)
(* downloads the object, unpacks it and restores what it finds on disk.    *)
(*                                                                         *)
(* Exporter and importer are commands of their own, started again and      *)
(* again on hosts of their own; each keeps its files under /tmp, which the *)
(* next start of the command finds again unless the container is new.      *)
(* Either dies at any point.  The collections of the source change all the *)
(* time; version 0 of a collection says that there is none.                *)
(***************************************************************************)
EXTENDS MultipartUpload

CONSTANTS
    Collections,  \* collections of the database
    Exclusions,   \* sets of collections an export may be told to leave out
    Sizes,        \* sizes an archive may have
    MaxChanges,   \* bound: changes of the source
    MaxExports,   \* bound: starts of the exporter
    MaxImports,   \* bound: starts of the importer
    MaxDeaths     \* bound: commands that die

Versions == 0..(MaxChanges + 1)
Dumps    == [Collections -> Versions]
NoDump   == [c \in Collections |-> 0]
Held(d)  == {c \in Collections : d[c] # 0}

\* d with what e says of the collections of s.
Over(d, e, s) == [c \in Collections |-> IF c \in s THEN e[c] ELSE d[c]]

\* An archive holds the files of a dump.
ASSUME ArchivesAssumption == Archives = Dumps
ASSUME BoundsAssumption ==
    /\ Exclusions \subseteq SUBSET Collections
    /\ Sizes \subseteq 1..MaxObjectSize
    /\ {MaxChanges, MaxExports, MaxImports, MaxDeaths} \subseteq Nat

VARIABLES
    source,       \* the collections of the source, by version
    changes,      \* changes made to them
    deaths,       \* commands that have died
    exporter,     \* where export_data stands
    exports,      \* its starts
    excluded,     \* exclude_collections
    dumping,      \* collections mongodump has still to dump
    since,        \* the source when the export began, for the properties only
    dumpDir,      \* /tmp/mongo-dump of the exporter
    spoilt,       \* whether an exporter has died on that disk, likewise
    importer,     \* where import_data stands
    imports,      \* its starts
    tarball,      \* the archive downloaded to the importer's disk
    extracted,    \* what is unpacked there
    restoring,    \* collections mongorestore has still to restore
    target        \* the collections of the target

sourceVars   == <<source, changes>>
commandVars  == <<excluded, dumping, since>>
exporterVars == <<exporter, exports, commandVars, dumpDir, spoilt>>
importerVars == <<importer, imports, tarball, extracted, restoring, target>>
vars == <<uploadVars, sourceVars, deaths, exporterVars, importerVars>>

Exporting == exporter # "off"
Importing == importer # "off"

EndExport == exporter' = "off" /\ excluded' = {} /\ dumping' = {} /\ since' = NoDump
EndImport == importer' = "off" /\ restoring' = {}

Init ==
    /\ UploadInit /\ content = NoDump
    /\ source = [c \in Collections |-> 1] /\ changes = 0
    /\ deaths = 0
    /\ exporter = "off" /\ exports = 0
    /\ excluded = {} /\ dumping = {} /\ since = NoDump
    /\ dumpDir = NoDump /\ spoilt = FALSE
    /\ importer = "off" /\ imports = 0
    /\ tarball = NoDump /\ extracted = NoDump /\ restoring = {}
    /\ target = NoDump

\* Somebody writes to a collection of the source, or drops it.
ChangeSource(c) ==
    /\ changes < MaxChanges
    /\ changes' = changes + 1
    /\ \E v \in {changes + 2, 0} :
          /\ v # source[c]
          /\ source' = [source EXCEPT ![c] = v]
    /\ UNCHANGED <<uploadVars, deaths, exporterVars, importerVars>>

Dies == deaths < MaxDeaths /\ deaths' = deaths + 1

-----------------------------------------------------------------------------
(* MongoDataExporter.  With a URI of another database export_data returns  *)
(* at once, and nothing has happened.                                      *)

\* A new command: on the disk of the last one, or in a container of its own.
StartExport(x) ==
    /\ ~Exporting /\ exports < MaxExports
    /\ exports' = exports + 1
    /\ exporter' = "dump"
    /\ excluded' = x
    /\ since' = source
    /\ dumping' = Held(source) \ x
    /\ \/ UNCHANGED <<dumpDir, spoilt, content>>
       \/ dumpDir' = NoDump /\ spoilt' = FALSE /\ content' = NoDump
    /\ UNCHANGED <<upload, localVars, object, sourceVars, deaths, importerVars>>

\* mongodump reads one collection; one that was dropped since is empty.
DumpCollection(c) ==
    /\ exporter = "dump" /\ c \in dumping
    /\ dumpDir' = [dumpDir EXCEPT ![c] = source[c]]
    /\ dumping' = dumping \ {c}
    /\ UNCHANGED <<uploadVars, sourceVars, deaths, exporter, exports, excluded,
                   since, spoilt, importerVars>>

\* MUTANT of Dumped: mongodump is not awaited.
DumpedUnawaited ==
    /\ exporter = "dump"
    /\ exporter' = "archive"
    /\ UNCHANGED <<uploadVars, sourceVars, deaths, exports, commandVars, dumpDir,
                   spoilt, importerVars>>

Dumped ==
    /\ exporter = "dump" /\ dumping = {}
    /\ exporter' = "archive"
    /\ UNCHANGED <<uploadVars, sourceVars, deaths, exports, commandVars, dumpDir,
                   spoilt, importerVars>>

\* tar packs all there is in the folder; then the upload begins.
Archive(n) ==
    /\ exporter = "archive"
    /\ exporter' = "upload"
    /\ BeginUpload(dumpDir, n)
    /\ UNCHANGED <<sourceVars, deaths, exports, commandVars, dumpDir, spoilt,
                   importerVars>>

Upload ==
    /\ exporter = "upload"
    /\ UploadStep
    /\ exporter' = IF upload' = "uploaded" THEN "remove" ELSE "upload"
    /\ UNCHANGED <<sourceVars, deaths, exports, commandVars, dumpDir, spoilt,
                   importerVars>>

\* MUTANT of RemoveFiles: the folder is left for the next export.
RemoveArchiveOnly ==
    /\ exporter = "remove"
    /\ content' = NoDump
    /\ EndExport
    /\ UNCHANGED <<upload, localVars, object, sourceVars, deaths, exports,
                   dumpDir, spoilt, importerVars>>

\* The archive and the folder, and the command has ended.
RemoveFiles ==
    /\ exporter = "remove"
    /\ content' = NoDump /\ dumpDir' = NoDump
    /\ EndExport
    /\ UNCHANGED <<upload, localVars, object, sourceVars, deaths, exports,
                   spoilt, importerVars>>

\* The folder as a dying mongodump or remove_dir_all may leave it.
LeftBehind ==
    CASE exporter = "dump"   -> {Over(dumpDir, source, s) : s \in SUBSET dumping}
      [] exporter = "remove" -> {Over(dumpDir, NoDump, s) : s \in SUBSET Held(dumpDir)}
      [] OTHER               -> {dumpDir}

\* A command, a request or a call fails, or a kill.
ExporterDies ==
    /\ Exporting /\ Dies
    /\ EndExport
    /\ spoilt' = TRUE
    /\ dumpDir' \in LeftBehind
    /\ IF exporter = "upload" THEN UploadDies ELSE UNCHANGED uploadVars
    /\ UNCHANGED <<sourceVars, exports, importerVars>>

-----------------------------------------------------------------------------
(* MongoDataImporter.  A URI that names production is refused at once.     *)

StartImport ==
    /\ ~Importing /\ imports < MaxImports
    /\ imports' = imports + 1
    /\ importer' = "download"
    /\ \/ UNCHANGED <<tarball, extracted>>
       \/ tarball' = NoDump /\ extracted' = NoDump
    /\ UNCHANGED <<uploadVars, sourceVars, deaths, exporterVars, restoring, target>>

\* One GetObject sees one object, whatever is uploaded meanwhile; a file of
\* the same name is truncated.
Download ==
    /\ importer = "download" /\ object # NoObject
    /\ tarball' = object.archive
    /\ importer' = "untar"
    /\ UNCHANGED <<uploadVars, sourceVars, deaths, exporterVars, imports,
                   extracted, restoring, target>>

\* There is no object: nothing has been written yet.
NothingToDownload ==
    /\ importer = "download" /\ object = NoObject
    /\ EndImport
    /\ UNCHANGED <<uploadVars, sourceVars, deaths, exporterVars, imports, tarball,
                   extracted, target>>

\* MUTANT of Untar: files that are there are kept.
UntarKeepingOld ==
    /\ importer = "untar"
    /\ extracted' = Over(extracted, tarball, Held(tarball) \ Held(extracted))
    /\ restoring' = Held(extracted')
    /\ importer' = "restore"
    /\ UNCHANGED <<uploadVars, sourceVars, deaths, exporterVars, imports, tarball,
                   target>>

\* The files of the archive over those that are there; mongorestore will take
\* every collection it finds in the folder.
Untar ==
    /\ importer = "untar"
    /\ extracted' = Over(extracted, tarball, Held(tarball))
    /\ restoring' = Held(extracted')
    /\ importer' = "restore"
    /\ UNCHANGED <<uploadVars, sourceVars, deaths, exporterVars, imports, tarball,
                   target>>

\* mongorestore --drop
RestoreCollection(c) ==
    /\ importer = "restore" /\ c \in restoring
    /\ target' = [target EXCEPT ![c] = extracted[c]]
    /\ restoring' = restoring \ {c}
    /\ UNCHANGED <<uploadVars, sourceVars, deaths, exporterVars, importer, imports,
                   tarball, extracted>>

Restored ==
    /\ importer = "restore" /\ restoring = {}
    /\ importer' = "remove"
    /\ UNCHANGED <<uploadVars, sourceVars, deaths, exporterVars, imports, tarball,
                   extracted, restoring, target>>

\* Only the archive is removed, not what was unpacked.
RemoveTarball ==
    /\ importer = "remove"
    /\ tarball' = NoDump
    /\ EndImport
    /\ UNCHANGED <<uploadVars, sourceVars, deaths, exporterVars, imports, extracted,
                   target>>

\* What mongorestore may have done when it fails or is killed: it had
\* restored the collections of s and dropped those of t.
RestoredInPart ==
    \E s \in SUBSET restoring : \E t \in SUBSET (restoring \ s) :
       target' = Over(Over(target, extracted, s), NoDump, t)

\* A broken download, a failing tar, or a kill.  The error of
\* mongorestore is logged and the command ends as if all was well: that is
\* an end in the midst of the restore as well.
ImporterDies ==
    /\ Importing /\ Dies
    /\ EndImport
    /\ IF importer = "restore" THEN RestoredInPart ELSE UNCHANGED target
    /\ IF importer = "untar"
       THEN \E s \in SUBSET Held(tarball) : extracted' = Over(extracted, tarball, s)
       ELSE UNCHANGED extracted
    /\ tarball' \in (IF importer \in {"download", "remove"} THEN {tarball, NoDump}
                     ELSE {tarball})
    /\ UNCHANGED <<uploadVars, sourceVars, exporterVars, imports>>

-----------------------------------------------------------------------------
ExporterStep ==
    \/ \E x \in Exclusions : StartExport(x)
    \/ \E c \in Collections : DumpCollection(c)
    \/ Dumped
    \/ \E n \in Sizes : Archive(n)
    \/ Upload \/ RemoveFiles \/ ExporterDies

ImporterStep ==
    \/ StartImport \/ Download \/ NothingToDownload \/ Untar
    \/ \E c \in Collections : RestoreCollection(c)
    \/ Restored \/ RemoveTarball \/ ImporterDies

\* No command runs.
Idle == ~Exporting /\ ~Importing /\ UNCHANGED vars

Next ==
    \/ \E c \in Collections : ChangeSource(c)
    \/ ExporterStep
    \/ ImporterStep
    \/ Idle

Spec == Init /\ [][Next]_vars

-----------------------------------------------------------------------------
TypeOK ==
    /\ UploadTypeOK
    /\ source \in Dumps /\ changes \in 0..MaxChanges /\ deaths \in 0..MaxDeaths
    /\ exporter \in {"off", "dump", "archive", "upload", "remove"}
    /\ exports \in 0..MaxExports
    /\ excluded \in SUBSET Collections /\ dumping \in SUBSET Collections
    /\ since \in Dumps /\ dumpDir \in Dumps /\ spoilt \in BOOLEAN
    /\ importer \in {"off", "download", "untar", "restore", "remove"}
    /\ imports \in 0..MaxImports
    /\ tarball \in Dumps /\ extracted \in Dumps
    /\ restoring \in SUBSET Collections /\ target \in Dumps
    /\ object # NoObject => object.archive \in Archives

Packing == exporter = "archive" /\ exporter' = "upload"

\* What is packed is the database: every collection that was asked for and
\* that nobody touched while the export ran is in the archive as it was, and
\* none is older than the beginning of that export, even when earlier exports
\* died and left their files.
PackedFresh ==
    Packing => \A c \in Held(since) \ excluded :
                  /\ since[c] = source[c] => content'[c] = source[c]
                  /\ content'[c] = 0 \/ content'[c] >= since[c]
ArchiveFresh == [][PackedFresh]_vars

\* A collection the export was told to leave out is in the archive only if an
\* earlier export died on the same disk: one that ends well leaves nothing the
\* next one could pack.
PackedAsAsked == Packing /\ ~spoilt => Held(content') \cap excluded = {}
ExcludedStaysOut == [][PackedAsAsked]_vars

\* When mongorestore is through, the target has every collection of the archive
\* that was downloaded, as it is in there, whatever was on the disk before.
ImportIsArchive ==
    importer = "remove" => \A c \in Held(tarball) : target[c] = tarball[c]
=============================================================================
