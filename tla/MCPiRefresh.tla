---------------------------- MODULE MCPiRefresh ----------------------------
(***************************************************************************)
(* Instances of PiRefresh for TLC.                                         *)
(***************************************************************************)
EXTENDS PiRefresh
=============================================================================
