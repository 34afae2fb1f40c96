------------------------------ MODULE MCDelQueue -----------------------------
(* Small instances of DelQueue. *)
EXTENDS DelQueue
=============================================================================
