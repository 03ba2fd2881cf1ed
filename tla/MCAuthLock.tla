----------------------------- MODULE MCAuthLock -----------------------------
(***************************************************************************)
(* Instances of AuthLock for TLC.  A process keeps at most one directory   *)
(* open, so |Procs| + 1 inodes never run out.                              *)
(***************************************************************************)
EXTENDS AuthLock, TLC

Symmetry == Permutations(Procs) \cup Permutations(Dirs)
=============================================================================
