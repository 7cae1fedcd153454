--------------------------- MODULE MCOsdLifecycle ---------------------------
(* Small instances of OsdLifecycle. *)
EXTENDS OsdLifecycle

CONSTANTS sda
=============================================================================
