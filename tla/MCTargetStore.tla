---------------------------- MODULE MCTargetStore ----------------------------
(***************************************************************************)
(* Instances of TargetStore for TLC.                                       *)
(***************************************************************************)
EXTENDS TargetStore

CONSTANTS cli, r1, r2
===============================================================================
