---------------------------- MODULE MCDocuments ----------------------------
(* Three uploads of two contents, one of them blank or not, two deletions. *)
EXTENDS Documents, TLC

Symmetry == Permutations(Uploads) \cup Permutations(Deletes)
=============================================================================
