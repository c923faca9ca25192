---------------------------- MODULE MCCollector ----------------------------
(***************************************************************************)
(* Small instances of Collector for TLC.                                   *)
(***************************************************************************)
EXTENDS Collector

CONSTANTS d1, w1, w2

MCDeviceOf == [p \in Point |-> d1]

\* collect_interval and history_interval in seconds of the model's clock.
MCCollectInterval == [p \in Point |-> 1]
MCHistoryInterval == [p \in Point |-> 2]
=============================================================================
