---------------------------- MODULE MCNvmeCommand ----------------------------
(* Small instances of NvmeCommand. *)
EXTENDS NvmeCommand

CONSTANTS c1, w
=============================================================================
