----------------------------- MODULE MCRestore ------------------------------
(***************************************************************************)
(* Restore with a directory and the database, a restore of both with their *)
(* own key, one of the database under the key there is, and a backup.      *)
(***************************************************************************)
EXTENDS Restore, TLC

CONSTANTS r1, r2, customers, database

MCOrder == <<customers, database>>
MCArchives == {[has |-> [r \in {r1, r2} |-> IF r = r1 THEN {customers, database} ELSE {database}],
                own |-> [r \in {r1, r2} |-> r = r1]]}
=============================================================================
