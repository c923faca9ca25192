---------------------------- MODULE MCS7Address -----------------------------
(***************************************************************************)
(* An instance of S7Address for TLC.                                       *)
(***************************************************************************)
EXTENDS S7Address
=============================================================================
