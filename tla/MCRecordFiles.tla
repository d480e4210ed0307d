--------------------------- MODULE MCRecordFiles ---------------------------
(***************************************************************************)
(* A multi-file field, two records and three names: a request that uploads *)
(* two files, one that replaces them, one whose body names files of its    *)
(* own, one that fails.                                                    *)
(***************************************************************************)
EXTENDS RecordFiles, TLC

\* Nothing tells one record, or one name, from another.
Symmetry == Permutations(Records) \cup Permutations(Names)
=============================================================================
