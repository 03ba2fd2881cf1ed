-------------------------- MODULE MCControlSocket --------------------------
(***************************************************************************)
(* Instances of ControlSocket for TLC.                                     *)
(***************************************************************************)
EXTENDS ControlSocket, TLC

Symmetry == Permutations(Daemons)
=============================================================================
