---------------------------- MODULE MCModbusLink ----------------------------
(***************************************************************************)
(* Small instances of ModbusLink for TLC.                                  *)
(***************************************************************************)
EXTENDS ModbusLink

\* The target values: a set bit, a negative integer, the lengths of a refusal and of an echo, and 12.5.
MCInput == [BOOL |-> {1}, INT |-> {-2, 3, 6}, REAL |-> {<<65, 72, 0, 0>>}]
=============================================================================
