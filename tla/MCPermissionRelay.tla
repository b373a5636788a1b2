------------------------- MODULE MCPermissionRelay -------------------------
(* TLC instances of PermissionRelay: see the cfg files. *)
EXTENDS PermissionRelay
=============================================================================
