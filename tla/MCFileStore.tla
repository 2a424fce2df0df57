---------------------------- MODULE MCFileStore ----------------------------
(* Two tasks and a handful of writes to one record. *)
EXTENDS FileStore, TLC

TaskSymmetry == Permutations(Tasks)
=============================================================================
