-------------------------- MODULE MCHistoryQuery ---------------------------
(***************************************************************************)
(* Small instances of HistoryQuery for TLC: the constants' values are in   *)
(* the configuration files.                                                *)
(***************************************************************************)
EXTENDS HistoryQuery
=============================================================================
