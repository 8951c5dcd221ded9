---------------------------- MODULE MCInitWsdd2 ----------------------------
(***************************************************************************)
(* Instances of InitWsdd2 for TLC: callers and process numbers are model   *)
(* values.                                                                 *)
(***************************************************************************)
EXTENDS InitWsdd2
=============================================================================
