--------------------------- MODULE MCRgwFrontend ---------------------------
(***************************************************************************)
(* Instances of RgwFrontend for TLC.                                       *)
(***************************************************************************)
EXTENDS RgwFrontend

CONSTANTS p1, p2
=============================================================================
