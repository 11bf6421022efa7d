------------------------------ MODULE MCAccess ------------------------------
(***************************************************************************)
(* Three processes, the bootstrap administrator and an operator who may    *)
(* exist already, one API key, tokens of one tick, a change in the table.  *)
(***************************************************************************)
EXTENDS Access

CONSTANTS p1, p2, p3, u1, u2, k1, root, ann

MCProcesses == {p1, p2, p3}
MCNames == {root, ann}
MCSeedUsers == [u \in {u1, u2} |-> IF u = u1 THEN [name |-> root, role |-> "admin"]
                                             ELSE [name |-> ann, role |-> "operator"]]
MCSeedKeys == {k1}
MCOps == {"login", "ensure", "create_user", "create_key", "revoke_key", "search"}
MCRoles == {"operator", "admin"}
MCSearches == {"search"}
=============================================================================
