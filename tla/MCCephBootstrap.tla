--------------------------- MODULE MCCephBootstrap ---------------------------
(* Small instances of CephBootstrap. *)
EXTENDS CephBootstrap, TLC

CONSTANTS a, b

MCBoth == {a, b}
=============================================================================
