--------------------------- MODULE MCRootfsBuild ---------------------------
(* Three nodes, of which debootstrap makes one; up to two scripts leave     *)
(* their mounts behind between two boots of the host.                       *)
EXTENDS RootfsBuild

CONSTANTS console, md1, sda4

MCNode     == {console, md1, sda4}
MCBaseNode == {console}
=============================================================================
