---------------------------- MODULE PointArchive ----------------------------
(***************************************************************************)
(* What the collection engine promises those who read history: for every   *)
(* point a mark that it has history, a set of rows, and the rule under     *)
(* which rows come and go, without scheduler, queue, workers or clock.     *)
(* Collector is shown to implement it.                                     *)
(*                                                                         *)
(* It promises nothing about when a row comes, and it does not promise     *)
(* that a deleted point gets no more rows.                                 *)
(***************************************************************************)
EXTENDS Integers

CONSTANTS
  Point,            \* collection points
  Time,             \* the times a row can have
  HistoryInterval   \* history_interval of each point

VARIABLES
  started,  \* history_started_at # NULL
  gone,     \* the point, or its device, is deleted
  rows,     \* the rows of the point's table: time and life of the process
  run       \* which life of the process this is

vars == <<started, gone, rows, run>>

Init ==
  /\ started = [p \in Point |-> FALSE]
  /\ gone = [p \in Point |-> FALSE]
  /\ rows = [p \in Point |-> {}]
  /\ run = 0

\* The mark is made once and for all.
Start(p) ==
  /\ started' = [started EXCEPT ![p] = TRUE]
  /\ UNCHANGED <<gone, rows, run>>

\* t keeps the point's interval to every row this life of the process has
\* written, to the later ones too.
Spaced(p, t) ==
  \A r \in rows[p] : r.run = run =>
    t - r.ts >= HistoryInterval[p] \/ r.ts - t >= HistoryInterval[p]

Record(p, t) ==
  /\ started[p]
  /\ Spaced(p, t)
  /\ rows' = [rows EXCEPT ![p] = @ \cup {[ts |-> t, run |-> run]}]
  /\ UNCHANGED <<started, gone, run>>

\* Deletion is final; a device takes its points with it.
Retire(P) ==
  /\ gone' = [p \in Point |-> gone[p] \/ p \in P]
  /\ UNCHANGED <<started, rows, run>>

\* The clean-up drops the table of a deleted point, all of it.
Drop(p) ==
  /\ gone[p]
  /\ rows' = [rows EXCEPT ![p] = {}]
  /\ UNCHANGED <<started, gone, run>>

\* A restart loses no mark and no row, only the times of the last rows.
Restart ==
  /\ run' = run + 1
  /\ UNCHANGED <<started, gone, rows>>

Next ==
  \/ \E p \in Point : Start(p) \/ Drop(p) \/ \E t \in Time : Record(p, t)
  \/ \E P \in SUBSET Point : Retire(P)
  \/ Restart

Spec == Init /\ [][Next]_vars

=============================================================================
