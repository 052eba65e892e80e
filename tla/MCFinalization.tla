--------------------------- MODULE MCFinalization ---------------------------
(***************************************************************************)
(* The owner and one more user to let in, in either order; a restored      *)
(* table with any ids from -1 to 3, a table created later; one post-import *)
(* query and two validations.                                              *)
(***************************************************************************)
EXTENDS Finalization

CONSTANTS owner, app, importer, users, audit

MCUsers    == {owner, app}
MCRestored == {users}
MCLater    == {audit}
MCLowest   == -1
MCMaxId    == 3
MCMaxSql   == 1
MCChecks   == {[table |-> users, where |-> {0, 1, 2, 3}, good |-> {1, 2}],
               [table |-> users, where |-> {-1, 2}, good |-> {2}]}
=============================================================================
