---------------------------- MODULE MCMongoBuddy ----------------------------
(***************************************************************************)
(* Two collections, one change of the source, two exports and two imports, *)
(* two commands that die.  An export leaves out nothing or the logs.       *)
(* The archive is just below the limit of a single upload, at it, or of a  *)
(* size that is no multiple of the tenth it is cut into.                   *)
(***************************************************************************)
EXTENDS MongoBuddy

CONSTANTS users, logs, noObject

MCCollections == {users, logs}
MCGiB         == 10
MCSizes       == {49, 123}
MCMaxChanges  == 1
MCMaxExports  == 2
MCMaxImports  == 2
MCMaxDeaths   == 2
MCExclusions  == {{}, {logs}}
MCArchives    == [MCCollections -> 0..(MCMaxChanges + 1)]
=============================================================================
