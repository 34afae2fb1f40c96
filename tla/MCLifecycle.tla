----------------------------- MODULE MCLifecycle -----------------------------
(* Small instances of Lifecycle. *)
EXTENDS Lifecycle

CONSTANTS d1, d2
=============================================================================
