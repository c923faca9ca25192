--------------------------- MODULE MCConnManager ---------------------------
(***************************************************************************)
(* Small instances of ConnManager for TLC: the constants' values are in    *)
(* the configuration files.                                                *)
(***************************************************************************)
EXTENDS ConnManager, TLC

\* Connections, workers and devices are interchangeable (safety runs only).
Symmetry == Permutations(Conn) \cup Permutations(Worker) \cup Permutations(Device)
=============================================================================
