----------------------------- MODULE MCGallery -----------------------------
(***************************************************************************)
(* Instances of Gallery for TLC.  Requests are interchangeable: no         *)
(* property names one of them.                                             *)
(***************************************************************************)
EXTENDS Gallery, TLC

Symmetry == Permutations(Requests)

\* The endpoints on both sides of faces.is_active.
StatusKinds == {"register", "update", "delete", "search"}

\* The client folder import alone.
EnrollKinds == {"enroll"}

\* The endpoints that wait for row locks; the deletion of a face holds and
\* awaits what its replacement does, and less long.
LockKinds == {"register", "replace", "update", "delete"}

AllKinds == Endpoints

=============================================================================
