------------------------- MODULE MCServerLifecycle --------------------------
(* One server, two operations of it at a time.                             *)
EXTENDS ServerLifecycle
=============================================================================
