---------------------------- MODULE MCSystemLed ----------------------------
(***************************************************************************)
(* Instances of SystemLed for TLC; the configurations give the constants.  *)
(***************************************************************************)
EXTENDS SystemLed
=============================================================================
