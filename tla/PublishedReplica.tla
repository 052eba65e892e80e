-------------------------- MODULE PublishedReplica --------------------------
(***************************************************************************)
(* What rustic-witcher promises the application users of the target        *)
(* database: whoever is let in finds a whole anonymized replica, in which  *)
(* the load changes nothing any more.  A refresh takes every access away   *)
(* together with the data, rebuilds the replica with nobody let in, and    *)
(* only then lets the users in again.                                      *)
(*                                                                         *)
(* Some users may be among the roles the refresh itself works as, such as  *)
(* the owner of the tables.  To those, and to no others, the promise does  *)
(* not apply: they reach the tables while these are rebuilt.  The data are *)
(* the rows of the files: what users and post-import statements do to them *)
(* later is theirs.                                                        *)
(***************************************************************************)
CONSTANTS
    Users,
    Workers   \* roles the refresh works as

VARIABLES
    data,      \* what the target schema holds
    whole,     \* whether that is a complete replica
    admitted,  \* users that were let in
    readers    \* users that reach the data, let in or not

\* There is no replica yet, and nobody inside.
Init == ~whole /\ admitted = {} /\ readers = {}

\* The data and every access to it disappear at once, a worker's too.
Wipe ==
    /\ whole' = FALSE
    /\ admitted' = {}
    /\ readers' = {}

\* With nobody let in and none but workers inside, the data may change in any
\* way.
Rebuild ==
    /\ admitted = {} /\ readers \subseteq Workers
    /\ admitted' = {} /\ readers' \subseteq Workers

\* A user is let into a whole replica.
Admit(u) ==
    /\ whole
    /\ admitted' = admitted \cup {u}
    /\ readers' = readers \cup {u}
    /\ UNCHANGED <<data, whole>>

Next == Wipe \/ Rebuild \/ \E u \in Users : Admit(u)

Spec == Init /\ [][Next]_<<data, whole, admitted, readers>>
=============================================================================
