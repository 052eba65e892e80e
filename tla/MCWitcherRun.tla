---------------------------- MODULE MCWitcherRun ----------------------------
(***************************************************************************)
(* Two runs of the program against one target: two tables, of which t2 has *)
(* a row limit, sequences owned through the dump (t1) and through          *)
(* ownerships.txt (t2), and three application users: u1 waits for its      *)
(* grants, u2 owns the tables, imp is the role that loads them.            *)
(***************************************************************************)
EXTENDS WitcherRun

CONSTANTS t1, t2, a, l1, l2, m1, cdc, u1, u2, imp, ext, none

MCTables    == {t1, t2}
MCColumns   == {a}
MCParquet   == {l1, l2, m1, cdc}
MCLoadFiles == {l1, l2, m1}
MCFirstLoad == {l1, m1}
MCReduced   == {t2}
MCFileCols  == [p \in MCParquet |-> {a}]
MCListing   ==
    [m \in Modes |-> [t \in MCTables |->
        CASE t = t1 -> <<l1, l2>>
          [] OTHER  -> IF m = "FullLoadOnly" THEN <<m1>> ELSE <<m1, cdc>>]]
MCAppUsers   == {u1, u2, imp}
MCExtensions == {ext}
MCOwned      == {t1}
MCFixes      == {t2}
=============================================================================
