-------------------------- MODULE MCConfigGenerator --------------------------
(***************************************************************************)
(* Two tables, two rules, two runs of the generator, on files written by *)
(* hand: with or without comments, a table with options, a Single table.   *)
(***************************************************************************)
EXTENDS ConfigGenerator

CONSTANTS users, logs, name, phone

MCTables   == {users, logs}
MCRules    == {name, phone}
MCMaxEdits == 2

Keep     == <<Line("key", "keep")>>
Sanitize == <<Line("key", "sanitize")>>
Filter   == <<Line("filter", "filter")>>

UsersLines ==
    {<<Line("multi", users)>> \o keys \o <<Line("rule", name)>> : keys \in {<<>>, Keep}}
    \cup {<<Line("multi", users)>> \o Keep \o Sanitize \o <<Line("rule", name)>> \o Filter}
LogsLines ==
    {<<>>, <<Line("single", logs)>>, <<Line("multi", logs), Line("rule", phone)>> \o Filter}

MCFiles ==
    {[i \in 1..n |-> Note] \o u \o l : n \in {0, 5}, u \in UsersLines, l \in LogsLines}
=============================================================================
