---------------------------- MODULE HistoryQuery ----------------------------
(***************************************************************************)
(* History queries (service/platform/history.go, Query and QueryTable,     *)
(* with the handlers of api/router.go in front of them): the rows of one   *)
(* point are read from TDengine, gap markers are put in, a long series is  *)
(* reduced by minMax, and a table or an export matches the series against  *)
(* a grid of times.  Meanwhile the collector stores rows and the clean-up  *)
(* of archives may drop the table.                                         *)
(*                                                                         *)
(* A request for several points is a loop over what is modelled here for   *)
(* one.  A series is a set of samples with distinct time stamps; the index *)
(* of a sample is the number of samples before it.                         *)
(***************************************************************************)
EXTENDS Integers, FiniteSets

CONSTANTS
  Minute,           \* units of time in a minute, even: half a step is exact
  HistoryInterval,  \* history_interval of the point, in minutes
  Value,            \* measured values
  Null,             \* the value of a bad sample or a gap marker
  MinSamples, MaxSamples, DefaultSamples, \* limits and default of max_samples
  TableSamples,     \* the max QueryTable passes to Query
  MaxSpan,          \* longest range of a request, in minutes
  MaxStep,          \* largest interval_minutes
  MaxRows,          \* most rows of an export
  From, To, Asked, Step,  \* inputs: start_time, end_time, max_samples, interval_minutes
  Spacing,          \* inputs: time between two stored rows
  MaxRecords        \* bound: rows of the table

Kind    == {"curve", "table", "export"}
Request == [kind : Kind, from : From, to : To, max : Asked \cup {DefaultSamples, TableSamples},
            step : Step]
Sample  == [ts : Nat, value : Value \cup {Null}, quality : {"good", "bad", "none"}]
Status  == {"none", "ok", "refused", "unknown_point", "too_long", "failed"}

ASSUME HistoryAssumption ==
  /\ Minute \in Nat \ {0} /\ Minute % 2 = 0
  /\ HistoryInterval \in Nat \ {0}
  /\ Value \subseteq Int /\ Null \notin Value
  /\ MinSamples \in Nat \ {0, 1} /\ MaxSamples \in Nat
  /\ DefaultSamples \in MinSamples..MaxSamples
  /\ TableSamples \in Nat \ {0, 1}
  /\ MaxSpan \in Nat /\ MaxStep \in Nat /\ MaxRows \in Nat
  /\ MaxSpan < MaxRows        \* 31 * 24 * 60 minutes and 50000 rows
  /\ From \subseteq Nat /\ To \subseteq Nat /\ Asked \subseteq Nat /\ Step \subseteq Int
  /\ Spacing \subseteq Nat \ {0}
  /\ MaxRecords \in Nat

VARIABLES
  table, stored,  \* the point's child table in TDengine: does it exist, its rows
  phase,          \* where the request is
  req,            \* the request, as bound and completed by the handler
  raw,            \* what TD.Query returned
  data,           \* ... with gap markers
  kept,           \* minMax: the samples of the map keep
  shown,          \* Series.Data
  cells,          \* the table column: target time -> the matched sample, if any
  status          \* what the client is answered

localVars == <<raw, data, kept, shown, cells>>
vars == <<table, stored, phase, req, localVars, status>>

NoRequest == [kind |-> "curve", from |-> 0, to |-> 0, max |-> 0, step |-> 0]

TypeOK ==
  /\ table \in BOOLEAN
  /\ stored \subseteq Sample
  /\ phase \in {"idle", "meta", "read", "shape", "match", "done"}
  /\ req \in Request \cup {NoRequest}
  /\ raw \subseteq Sample
  /\ data \subseteq Sample /\ kept \subseteq data /\ shown \subseteq kept
  /\ \A t \in DOMAIN cells : cells[t] \subseteq shown
  /\ status \in Status

Init ==
  /\ table = FALSE /\ stored = {}
  /\ phase = "idle" /\ req = NoRequest
  /\ raw = {} /\ data = {} /\ kept = {} /\ shown = {} /\ cells = << >>
  /\ status = "none"

-----------------------------------------------------------------------------
(* Series.                                                                 *)

Before(D, s) == {r \in D : r.ts < s.ts}
Index(D, s)  == Cardinality(Before(D, s))

\* a and b are neighbours in D.
Adjacent(D, a, b) ==
  /\ a \in D /\ b \in D /\ a.ts < b.ts
  /\ \A s \in D : ~(a.ts < s.ts /\ s.ts < b.ts)

Threshold == 3 * HistoryInterval * Minute
GapWithin(a, b) == b.ts - a.ts > Threshold
BareMarker(a, b) == [ts |-> a.ts + (b.ts - a.ts) \div 2, value |-> Null, quality |-> ""]
Marker(a, b) == [ts |-> a.ts + (b.ts - a.ts) \div 2, value |-> Null, quality |-> "none"]

Markers(D) ==
  {Marker(p[1], p[2]) : p \in {q \in D \X D : Adjacent(D, q[1], q[2]) /\ GapWithin(q[1], q[2])}}

\* withHistoryGaps: a marker half-way between neighbours too far apart.
WithoutGaps(D) == D
WithHistoryGaps(D) == D \cup Markers(D)

\* The boundaries int(float64(b) * bucket) of minMax's max/2 buckets.  Where the
\* exact product is an integer, rounding may leave the float just below it
\* (115 samples in 50 buckets end at 114): early are the b for which it does.
Exact(n, k) == {b \in 1..k : (b * n) % k = 0}
Cut(n, k, early, b) == (b * n) \div k - (IF b \in early THEN 1 ELSE 0)

Bucket(D, k, early, b) ==
  LET n == Cardinality(D) IN
  {s \in D : Cut(n, k, early, b) <= Index(D, s) /\ Index(D, s) < Cut(n, k, early, b + 1)}

\* All the buckets together: the samples the loops of minMax look at.
Scanned(D, k, early) == {s \in D : Index(D, s) < Cut(Cardinality(D), k, early, k)}

\* The first of the smallest and the first of the largest values of a bucket.
Valued(B)   == {s \in B : s.value # Null}
Lowest(B)   == {s \in Valued(B) : \A r \in Valued(B) :
                  s.value < r.value \/ (s.value = r.value /\ s.ts <= r.ts)}
LatestHighest(B) == {s \in Valued(B) : \A r \in Valued(B) : s.ts >= r.ts}
Highest(B)  == {s \in Valued(B) : \A r \in Valued(B) :
                  s.value > r.value \/ (s.value = r.value /\ s.ts <= r.ts)}

Ends(D) == {s \in D : \/ \A r \in D : s.ts <= r.ts
                      \/ \A r \in D : r.ts <= s.ts}

\* A sample with a value whose quality is not that of the one before it, and
\* that one.  A sample without a value ends its turn before this is looked at.
QualityChanges(D, S) ==
  UNION {{p[1], p[2]} : p \in {q \in D \X D :
           /\ Adjacent(D, q[1], q[2])
           /\ q[2] \in S /\ q[2].value # Null
           /\ q[1].quality # q[2].quality}}

GapsOnly(S) == {s \in S : s.quality = "none"}
NoValue(S) == {s \in S : s.value = Null}

\* minMax up to the sorting of the indices.
MinMaxKeep(D, max, early) ==
  LET k == max \div 2
      S == Scanned(D, k, early)
  IN  Ends(D) \cup NoValue(S) \cup QualityChanges(D, S)
        \cup UNION {Lowest(Bucket(D, k, early, b)) \cup Highest(Bucket(D, k, early, b)) :
                      b \in 0..(k - 1)}

\* idx = idx[:max]
All(K, max)   == K
Last(K, max)  == {s \in K : Cardinality({r \in K : r.ts > s.ts}) < max}
First(K, max) == {s \in K : Index(K, s) < max}

-----------------------------------------------------------------------------
(* The table: one cell per target time.                                    *)

Distance(s, t) == IF s.ts < t THEN t - s.ts ELSE s.ts - t
HalfStep(r) == (r.step * Minute) \div 2

Targets(r) == {r.from + i * r.step * Minute : i \in 0..((r.to - r.from) \div (r.step * Minute))}

\* The nearest sample, of two equally near ones the earlier.
Nearer(s, r, t) ==
  Distance(s, t) < Distance(r, t) \/ (Distance(s, t) = Distance(r, t) /\ s.ts <= r.ts)
Near(D, t, half)  == {s \in D : Distance(s, t) <= half}
Match(D, t, half) == {s \in Near(D, t, half) : \A r \in Near(D, t, half) : Nearer(s, r, t)}

-----------------------------------------------------------------------------
(* The environment: the collector and the clean-up of archives.            *)

LastStored == IF stored = {} THEN 0
              ELSE (CHOOSE s \in stored : \A r \in stored : r.ts <= s.ts).ts

\* Once the request has its rows it does not look at the table again: what
\* happens to the table until the answer commutes with it and is left to the
\* states around.
TableInPlay == phase \in {"idle", "meta", "read"}

\* collect stores a good value or, when the read failed, a bad sample without
\* one.  TDengine makes the child table with its first row.
Record(gap, v) ==
  /\ TableInPlay
  /\ Cardinality(stored) < MaxRecords
  /\ table'  = TRUE
  /\ stored' = stored \cup
       {[ts |-> LastStored + gap, value |-> v, quality |-> IF v = Null THEN "bad" ELSE "good"]}
  /\ UNCHANGED <<phase, req, localVars, status>>

\* CleanupDeletedArchives drops the table of a deleted point that has rows.
DropTable ==
  /\ TableInPlay
  /\ stored # {}
  /\ table'  = FALSE
  /\ stored' = {}
  /\ UNCHANGED <<phase, req, localVars, status>>

-----------------------------------------------------------------------------
(* The request.                                                            *)

\* bindHistory and the limits of each handler.
EmptyRange(r) == r.to <= r.from
BadRange(r)   == r.to <= r.from \/ r.to - r.from > MaxSpan * Minute
Refused(r) ==
  \/ BadRange(r)
  \/ r.kind = "curve" /\ r.max \notin MinSamples..MaxSamples
  \/ r.kind # "curve" /\ r.step \notin 1..MaxStep

\* exportHistory alone counts the rows before it queries.
RowCount(r) == (r.to - r.from) \div (r.step * Minute) + 1
TooLong(r)  == r.kind = "export" /\ RowCount(r) > MaxRows

\* The handler fills in the default of max_samples, QueryTable its own limit.
Completed(kind, from, to, max, step) ==
  [kind |-> kind, from |-> from, to |-> to, step |-> step,
   max |-> IF kind # "curve" THEN TableSamples ELSE IF max = 0 THEN DefaultSamples ELSE max]

Answer(s) == status' = s /\ phase' = "done"

Ask(r) ==
  /\ phase = "idle"
  /\ req' = r
  /\ \/ Refused(r) /\ Answer("refused")
     \/ ~Refused(r) /\ TooLong(r) /\ Answer("too_long")
     \/ ~Refused(r) /\ ~TooLong(r) /\ phase' = "meta" /\ UNCHANGED status
  /\ UNCHANGED <<table, stored, localVars>>

\* ListPoints: the point is in the list, or it is not, or the query fails.
FindPoint ==
  /\ phase = "meta"
  /\ phase' = "read"
  /\ UNCHANGED <<table, stored, req, localVars, status>>
PointUnknown ==
  /\ phase = "meta"
  /\ Answer("unknown_point")
  /\ UNCHANGED <<table, stored, req, localVars>>

\* TD.Query, over the range of the request widened by half a step for a table.
NoMargin(r) == 0
Margin(r) == IF r.kind = "curve" THEN 0 ELSE HalfStep(r)
Rows(r) == {s \in stored : r.from - Margin(r) <= s.ts /\ s.ts <= r.to + Margin(r)}

ReadRows ==
  /\ phase = "read"
  /\ table
  /\ raw' = Rows(req)
  /\ phase' = "shape"
  /\ UNCHANGED <<table, stored, req, data, kept, shown, cells, status>>

\* PostgreSQL or TDengine fails, or there is no such table: the whole request
\* fails.
QueryFails ==
  /\ phase \in {"meta", "read"}
  /\ Answer("failed")
  /\ UNCHANGED <<table, stored, req, localVars>>

\* withHistoryGaps, then minMax if the series is still too long.
Shape(early) ==
  LET D == WithHistoryGaps(raw) IN
  /\ phase = "shape"
  /\ data' = D
  /\ kept' = IF Cardinality(D) > req.max THEN MinMaxKeep(D, req.max, early) ELSE D
  /\ shown' = First(kept', req.max)
  /\ IF req.kind = "curve" THEN Answer("ok") ELSE phase' = "match" /\ UNCHANGED status
  /\ UNCHANGED <<table, stored, req, raw, cells>>

\* QueryTable's loop over the targets.
MatchRows ==
  /\ phase = "match"
  /\ cells' = [t \in Targets(req) |-> Match(shown, t, HalfStep(req))]
  /\ Answer("ok")
  /\ UNCHANGED <<table, stored, req, raw, data, kept, shown>>

\* The locals of the handler are gone.
Return ==
  /\ phase = "done"
  /\ phase' = "idle" /\ req' = NoRequest /\ status' = "none"
  /\ raw' = {} /\ data' = {} /\ kept' = {} /\ shown' = {} /\ cells' = << >>
  /\ UNCHANGED <<table, stored>>

ShapeAny ==
  LET n == Cardinality(WithHistoryGaps(raw)) IN
  \E early \in SUBSET Exact(n, req.max \div 2) : Shape(early)

Handle == \/ FindPoint \/ PointUnknown
          \/ ReadRows \/ QueryFails
          \/ phase = "shape" /\ ShapeAny
          \/ MatchRows \/ Return

Next ==
  \/ \E gap \in Spacing, v \in Value \cup {Null} : Record(gap, v)
  \/ DropTable
  \/ \E kind \in Kind, from \in From, to \in To, max \in Asked, step \in Step :
       Ask(Completed(kind, from, to, max, step))
  \/ Handle

Spec == Init /\ [][Next]_vars

-----------------------------------------------------------------------------
(* Properties.                                                             *)

\* A reply never has more samples than the client asked for, however many
\* samples minMax had to keep: bad samples, gaps and changes of quality come on
\* top of two per bucket.
ReplyBounded == Cardinality(shown) <= req.max \/ phase \in {"idle", "meta", "read", "shape"}

\* No curve is drawn across a gap: between two samples with values that follow
\* each other in the reply there were no two stored rows further apart than
\* three history intervals, whatever the reduction and its cut left out.
NoLineAcrossGap ==
  \A x, y \in shown : Adjacent(shown, x, y) /\ x.value # Null /\ y.value # Null =>
    \A a, b \in raw : Adjacent(raw, a, b) /\ x.ts <= a.ts /\ b.ts <= y.ts
                        => ~GapWithin(a, b)

\* ... nor across a failed read.
NoLineAcrossBad ==
  \A x, y \in shown : Adjacent(shown, x, y) /\ x.value # Null /\ y.value # Null =>
    \A s \in raw : x.ts < s.ts /\ s.ts < y.ts => s.value # Null

\* The reply begins where the data begins.
StartKept == phase \in {"match", "done"} /\ status # "failed" =>
  \A s \in raw : (\A r \in raw : s.ts <= r.ts) => s \in shown

\* As long as minMax keeps no more than max samples, the smallest and the
\* largest value of the series are in the reply, and its last sample.
ExtremesKept ==
  Cardinality(kept) <= req.max =>
    /\ Ends(data) \subseteq shown
    /\ \A s \in Valued(data) : \E lo, hi \in Valued(shown) :
         lo.value <= s.value /\ s.value <= hi.value

\* Of the rows stored within half a step of a target, the nearest and, of two
\* equally near ones, the earlier: what the documents want in its cell.
NearestRow(t) == Match(stored, t, HalfStep(req))

\* A cell shows just that row, also at the two ends of the range, or is empty
\* without one, but for two cases: a gap marker is nearer to the target than
\* the row, or the series was too long and the reduction has left the row out.
CellIsExplained ==
  \A t \in DOMAIN cells :
    \/ cells[t] = NearestRow(t)
    \/ \E m \in Markers(raw) : cells[t] = {m} /\ \A r \in NearestRow(t) : Nearer(m, r, t)
    \/ Cardinality(data) > req.max /\ NearestRow(t) # {} /\ NearestRow(t) \cap shown = {}

\* The check of 50000 rows in front of an export never rejects one: the limit
\* of 31 days, checked before it, is stricter.
ExportNeverTooLong == status # "too_long"

-----------------------------------------------------------------------------
(* What the documents promise and the code does not keep.                  *)

\* "Each target time takes the record with the smallest distance; without one
\* the cell is the fixed none object" (spec-历史数据.md).  A gap marker is no record and
\* takes the cell all the same, so that it reads null and "none" with a row near.
NearestRowShown == \A t \in DOMAIN cells : cells[t] = NearestRow(t)

=============================================================================
