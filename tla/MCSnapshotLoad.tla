--------------------------- MODULE MCSnapshotLoad ---------------------------
(***************************************************************************)
(* A small instance of SnapshotLoad: two or three tables over one          *)
(* connection per pool.  t1 has two load files, t2 a row limit (its second *)
(* load file and its CDC file are skipped), t3 one file whose columns may  *)
(* not fit the table.                                                      *)
(***************************************************************************)
EXTENDS SnapshotLoad

CONSTANTS t1, t2, t3, a, b, l1, l2, m1, m2, cdc, n1

MCTables    == {t1, t2, t3}
MCColumns   == {a, b}
MCParquet   == {l1, l2, m1, m2, cdc, n1}
MCLoadFiles == {l1, l2, m1, m2, n1}
MCFirstLoad == {l1, m1, n1}
MCReduced   == {t2}
MCFileCols  == [p \in MCParquet |-> IF p = n1 THEN {a, b} ELSE {a}]

MCListing ==
    [m \in Modes |-> [t \in MCTables |->
        CASE t = t1 -> <<l1, l2>>
          [] t = t2 -> IF m = "FullLoadOnly" THEN <<m1, m2>> ELSE <<m1, cdc>>
          [] OTHER  -> IF m = "FullLoadOnly" THEN <<n1>> ELSE <<>>]]

\* The tables have column a, and at most one of them has not both columns.
MCInit ==
    /\ LoadInit
    /\ sourceCols \in {[t \in Tables |-> Columns],
                       [t \in Tables |-> IF t = t3 THEN {a} ELSE Columns],
                       [t \in Tables |-> IF t = t1 THEN {} ELSE Columns]}

MCSpec == MCInit /\ [][LoadNext]_loadVars /\ WF_loadVars(LoadProgress)
=============================================================================
