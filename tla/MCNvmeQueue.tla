----------------------------- MODULE MCNvmeQueue -----------------------------
(* Small instances of NvmeQueue. *)
EXTENDS NvmeQueue, TLC

CONSTANTS chario, request

\* A command of the character device, and a request whose number is, or is not,
\* looked up in chario_cmds.
LowOrHigh == {chario :> 0 @@ request :> n : n \in {1, 2}}
=============================================================================
