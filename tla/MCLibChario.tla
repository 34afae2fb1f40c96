----------------------------- MODULE MCLibChario -----------------------------
(* LibChario for TLC: error codes as integers.                             *)
EXTENDS LibChario

ErrorCodes == {-5}
=============================================================================
