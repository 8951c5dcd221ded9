------------------------------ MODULE MCWsdd2 ------------------------------
(***************************************************************************)
(* The instance of Wsdd2 for TLC; the configuration gives the constants.   *)
(* The addresses differ in their attributes: none are interchangeable.     *)
(***************************************************************************)
EXTENDS Wsdd2
=============================================================================
