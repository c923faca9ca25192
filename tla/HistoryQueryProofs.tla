------------------------- MODULE HistoryQueryProofs -------------------------
(***************************************************************************)
(* Machine-checked proofs about HistoryQuery: for every table, range, step *)
(* and limit of samples, and for every way the rounding of minMax's bucket *)
(* boundaries falls.                                                       *)
(***************************************************************************)
EXTENDS HistoryQuery, FiniteSetTheorems, WellFoundedInduction, TLAPS

Distinct(D) == \A a, b \in D : a.ts = b.ts => a = b

\* A series as TDengine returns it or as the code makes it.
Series(D) == IsFiniteSet(D) /\ D \subseteq Sample /\ Distinct(D)

-----------------------------------------------------------------------------
(* Indices of a series.                                                    *)

LEMMA IndexType ==
  ASSUME NEW D, IsFiniteSet(D), NEW s
  PROVE  IsFiniteSet(Before(D, s)) /\ Index(D, s) \in Nat /\ Index(D, s) <= Cardinality(D)
BY FS_Subset, FS_CardinalityType DEF Before, Index

\* An earlier sample has a smaller index.
LEMMA IndexGrows ==
  ASSUME NEW D, IsFiniteSet(D), D \subseteq Sample, NEW a \in D, NEW b \in Sample, a.ts < b.ts
  PROVE  Index(D, a) < Index(D, b)
<1>1. Before(D, a) \subseteq Before(D, b) /\ a \in Before(D, b) /\ a \notin Before(D, a)
  BY DEF Before, Sample
<1>2. Before(D, a) \in SUBSET Before(D, b) /\ Before(D, a) # Before(D, b)
  BY <1>1
<1>3. /\ Cardinality(Before(D, a)) <= Cardinality(Before(D, b))
      /\ Cardinality(Before(D, a)) # Cardinality(Before(D, b))
  BY <1>2, IndexType, FS_Subset
<1>. QED BY <1>3, IndexType DEF Index

LEMMA IndexBound ==
  ASSUME NEW D, IsFiniteSet(D), D \subseteq Sample, NEW s \in D
  PROVE  Index(D, s) < Cardinality(D)
<1>1. Before(D, s) \in SUBSET D /\ Before(D, s) # D
  BY DEF Before, Sample
<1>2. Cardinality(Before(D, s)) # Cardinality(D)
  BY <1>1, FS_Subset
<1>. QED BY <1>2, IndexType, FS_CardinalityType DEF Index

\* idx[:max] is a beginning of idx.
LEMMA FirstIsPrefix ==
  ASSUME NEW K, Series(K), NEW max \in Nat, NEW y \in First(K, max), NEW m \in K, m.ts <= y.ts
  PROVE  m \in First(K, max)
<1>1. y \in K /\ Index(K, y) < max /\ y \in Sample /\ m \in Sample
  BY DEF First, Series
<1>2. CASE m.ts = y.ts
  BY <1>1, <1>2 DEF Series, Distinct
<1>3. CASE m.ts < y.ts
  <2>1. Index(K, m) < Index(K, y)
    BY <1>1, <1>3, IndexGrows DEF Series
  <2>. QED BY <1>1, <2>1, IndexType DEF First, Series
<1>. QED BY <1>1, <1>2, <1>3 DEF Sample

\* The indices number a series from 0 on.
LEMMA IndexInjective ==
  ASSUME NEW K, Series(K), NEW n \in Nat, NEW F \in SUBSET K, \A s \in F : Index(K, s) < n
  PROVE  [s \in F |-> Index(K, s)] \in Injection(F, 0 .. n - 1)
<1>1. \A s \in F : Index(K, s) \in 0 .. n - 1
  BY IndexType DEF Series
<1>2. ASSUME NEW s \in F, NEW r \in F, Index(K, s) = Index(K, r) PROVE s = r
  <2>1. ~(s.ts < r.ts) /\ ~(r.ts < s.ts)
    BY <1>2, IndexGrows, IndexType DEF Series
  <2>. QED BY <2>1 DEF Series, Distinct, Sample
<1>. QED BY <1>1, <1>2 DEF Injection, IsInjective

\* ... so idx[:max] has at most max elements.
LEMMA FirstBounded ==
  ASSUME NEW K, Series(K), NEW max \in Nat
  PROVE  IsFiniteSet(First(K, max)) /\ Cardinality(First(K, max)) <= max
<1>1. [s \in First(K, max) |-> Index(K, s)] \in Injection(First(K, max), 0 .. max - 1)
  BY IndexInjective DEF First
<1>2. IsFiniteSet(0 .. max - 1) /\ Cardinality(0 .. max - 1) = max
  BY FS_Interval
<1>. QED BY <1>1, <1>2, FS_Injection

\* A series that is not empty has a last sample.
LEMMA LastExists ==
  ASSUME NEW D, Series(D), D # {}
  PROVE  \E s \in D : \A r \in D : r.ts <= s.ts
<1>. DEFINE n == Cardinality(D)
            f == [s \in D |-> Index(D, s)]
<1>1. n \in Nat /\ n # 0
  BY FS_CardinalityType, FS_EmptySet DEF Series
<1>2. f \in Injection(D, 0 .. n - 1)
  BY <1>1, IndexInjective, IndexBound DEF Series
<1>3. IsFiniteSet(0 .. n - 1) /\ Cardinality(0 .. n - 1) = n
  BY <1>1, FS_Interval
<1>4. f \in Surjection(D, 0 .. n - 1)
  BY <1>2, <1>3, FS_Injection
<1>5. PICK s \in D : f[s] = n - 1
  <2>1. \A t \in 0 .. n - 1 : \E s \in D : f[s] = t
    BY <1>4 DEF Surjection
  <2>2. n - 1 \in 0 .. n - 1
    BY <1>1
  <2>. HIDE DEF f, n
  <2>. QED BY <2>1, <2>2
<1>6. ASSUME NEW r \in D, s.ts < r.ts PROVE FALSE
  <2>1. Index(D, s) < Index(D, r) /\ Index(D, r) < n
    BY <1>6, IndexGrows, IndexBound DEF Series
  <2>. QED BY <1>1, <1>5, <2>1, IndexType DEF Series
<1>. QED BY <1>6 DEF Series, Sample

-----------------------------------------------------------------------------
(* Gap markers.                                                            *)

\* A marker stands strictly between the two samples it is made for.
LEMMA MarkerBetween ==
  ASSUME NEW a \in Sample, NEW b \in Sample, a.ts < b.ts, GapWithin(a, b)
  PROVE  /\ Marker(a, b) \in Sample
         /\ a.ts < Marker(a, b).ts /\ Marker(a, b).ts < b.ts
<1>1. Threshold \in Nat /\ Threshold >= 3
  <2>1. HistoryInterval * Minute \in Nat \ {0}
    BY HistoryAssumption
  <2>2. Threshold = 3 * (HistoryInterval * Minute)
    BY HistoryAssumption DEF Threshold
  <2>. QED BY <2>1, <2>2
<1>2. a.ts \in Nat /\ b.ts \in Nat /\ b.ts - a.ts > 3
  BY <1>1 DEF GapWithin, Sample
<1>3. (b.ts - a.ts) \div 2 \in 1 .. (b.ts - a.ts - 1)
  BY <1>2
<1>. QED BY <1>2, <1>3 DEF Marker, Sample

\* withHistoryGaps makes a series of a series.
LEMMA GapsMakeSeries ==
  ASSUME NEW D, Series(D)
  PROVE  Series(WithHistoryGaps(D))
<1>. DEFINE P == {q \in D \X D : Adjacent(D, q[1], q[2]) /\ GapWithin(q[1], q[2])}
<1>1. \A q \in P : /\ q[1] \in D /\ q[2] \in D /\ q[1] \in Sample /\ q[2] \in Sample
                   /\ q[1].ts < q[2].ts /\ GapWithin(q[1], q[2])
                   /\ \A s \in D : ~(q[1].ts < s.ts /\ s.ts < q[2].ts)
  BY DEF Adjacent, Series
<1>2. \A q \in P : /\ Marker(q[1], q[2]) \in Sample
                   /\ q[1].ts < Marker(q[1], q[2]).ts
                   /\ Marker(q[1], q[2]).ts < q[2].ts
  BY <1>1, MarkerBetween
<1>3. Markers(D) = {Marker(q[1], q[2]) : q \in P}
  BY DEF Markers
<1>. HIDE DEF P
<1>4. IsFiniteSet(WithHistoryGaps(D))
  <2>1. IsFiniteSet(D \X D)
    BY FS_Product DEF Series
  <2>2. IsFiniteSet(P)
    BY <2>1, FS_Subset DEF P
  <2>. DEFINE f == [q \in P |-> Marker(q[1], q[2])]
  <2>3. IsFiniteSet(Markers(D))
    <3>1. f \in [P -> Markers(D)]
      BY <1>3
    <3>2. \A m \in Markers(D) : \E q \in P : f[q] = m
      BY <1>3
    <3>3. f \in Surjection(P, Markers(D))
      BY <3>1, <3>2 DEF Surjection
    <3>. QED BY <2>2, <3>3, FS_Surjection
  <2>. QED BY <2>3, FS_Union DEF WithHistoryGaps, Series
<1>5. WithHistoryGaps(D) \subseteq Sample
  BY <1>2, <1>3 DEF WithHistoryGaps, Series
<1>6. ASSUME NEW q \in P, NEW s \in D PROVE Marker(q[1], q[2]).ts # s.ts
  <2>1. s.ts \in Nat /\ q[1].ts \in Nat /\ q[2].ts \in Nat /\ Marker(q[1], q[2]).ts \in Nat
    BY <1>1, <1>2 DEF Series, Sample
  <2>. QED BY <1>1, <1>2, <2>1
<1>7. ASSUME NEW q \in P, NEW r \in P, Marker(q[1], q[2]).ts = Marker(r[1], r[2]).ts
      PROVE  Marker(q[1], q[2]) = Marker(r[1], r[2])
  <2>. DEFINE m == Marker(q[1], q[2]).ts
  <2>1. /\ q[1].ts \in Nat /\ q[2].ts \in Nat /\ r[1].ts \in Nat /\ r[2].ts \in Nat /\ m \in Nat
        /\ q[1].ts < m /\ m < q[2].ts /\ r[1].ts < m /\ m < r[2].ts
    BY <1>1, <1>2, <1>7 DEF Sample
  <2>2. /\ ~(q[1].ts < r[1].ts /\ r[1].ts < q[2].ts)
        /\ ~(q[1].ts < r[2].ts /\ r[2].ts < q[2].ts)
        /\ ~(r[1].ts < q[1].ts /\ q[1].ts < r[2].ts)
        /\ ~(r[1].ts < q[2].ts /\ q[2].ts < r[2].ts)
    BY <1>1
  <2>. HIDE DEF m
  <2>3. q[1].ts = r[1].ts /\ q[2].ts = r[2].ts
    BY <2>1, <2>2
  <2>4. q[1] = r[1] /\ q[2] = r[2]
    BY <2>3, <1>1 DEF Series, Distinct
  <2>. QED BY <2>4
<1>8. Distinct(WithHistoryGaps(D))
  <2>1. ASSUME NEW a \in WithHistoryGaps(D), NEW b \in WithHistoryGaps(D), a.ts = b.ts
        PROVE  a = b
    <3>1. CASE a \in D /\ b \in D
      BY <2>1, <3>1 DEF Series, Distinct
    <3>2. CASE a \in D /\ b \notin D
      BY <2>1, <3>2, <1>3, <1>6 DEF WithHistoryGaps
    <3>3. CASE a \notin D /\ b \in D
      BY <2>1, <3>3, <1>3, <1>6 DEF WithHistoryGaps
    <3>4. CASE a \notin D /\ b \notin D
      BY <2>1, <3>4, <1>3, <1>7 DEF WithHistoryGaps
    <3>. QED BY <3>1, <3>2, <3>3, <3>4
  <2>. QED BY <2>1 DEF Distinct
<1>. QED BY <1>4, <1>5, <1>8 DEF Series

-----------------------------------------------------------------------------
(* minMax.                                                                 *)

\* The buckets end at the end of the series or one sample before it.
LEMMA LastCut ==
  ASSUME NEW n \in Nat, NEW k \in Nat \ {0}, NEW early
  PROVE  Cut(n, k, early, k) \in {n - 1, n}
<1>1. (k * n) \div k = n
  BY Z3
<1>. QED BY <1>1 DEF Cut

\* Data, limit and rounding as minMax meets them, and what it keeps.
Reduced(D, K, max) ==
  \/ K = D
  \/ \E early : 0 \notin early /\ K = MinMaxKeep(D, max, early)

LEMMA KeptIsPart ==
  ASSUME NEW D, Series(D), NEW K, NEW max, Reduced(D, K, max)
  PROVE  K \subseteq D /\ Series(K)
<1>1. K \subseteq D
  <2>1. \A early, b : /\ Lowest(Bucket(D, max \div 2, early, b)) \subseteq D
                      /\ Highest(Bucket(D, max \div 2, early, b)) \subseteq D
    BY DEF Lowest, Highest, Valued, Bucket
  <2>2. \A S : QualityChanges(D, S) \subseteq D
    BY DEF QualityChanges, Adjacent
  <2>3. \A early : NoValue(Scanned(D, max \div 2, early)) \subseteq D
    BY DEF NoValue, Scanned
  <2>4. Ends(D) \subseteq D
    BY DEF Ends
  <2>5. \A early : MinMaxKeep(D, max, early) \subseteq D
    BY <2>1, <2>2, <2>3, <2>4 DEF MinMaxKeep
  <2>. QED BY <2>5 DEF Reduced
<1>2. IsFiniteSet(K)
  BY <1>1, FS_Subset DEF Series
<1>. QED BY <1>1, <1>2 DEF Series, Distinct

\* A sample without a value is kept, unless it is the last and rounding left
\* it out of the buckets: then it is kept as the last.
LEMMA NoValueIsKept ==
  ASSUME NEW D, Series(D), NEW max \in Nat \ {0, 1}, NEW K, Reduced(D, K, max),
         NEW s \in D, s.value = Null
  PROVE  s \in K
<1>. DEFINE k == max \div 2
            n == Cardinality(D)
<1>1. k \in Nat \ {0} /\ n \in Nat
  BY FS_CardinalityType DEF Series
<1>2. CASE K = D
  BY <1>2
<1>3. ASSUME NEW early, K = MinMaxKeep(D, max, early) PROVE s \in K
  <2>1. CASE \A r \in D : r.ts <= s.ts
    BY <1>3, <2>1 DEF MinMaxKeep, Ends
  <2>2. ASSUME NEW r \in D, ~(r.ts <= s.ts) PROVE s \in K
    <3>1. s.ts < r.ts
      BY <2>2 DEF Series, Sample
    <3>2. Index(D, s) < Index(D, r) /\ Index(D, r) < n
      BY <3>1, IndexGrows, IndexBound DEF Series
    <3>3. Index(D, s) < Cut(n, k, early, k)
      BY <1>1, <3>2, LastCut, IndexType DEF Series
    <3>4. s \in NoValue(Scanned(D, k, early))
      BY <3>3 DEF NoValue, Scanned
    <3>. QED BY <1>3, <3>4 DEF MinMaxKeep
  <2>. QED BY <2>1, <2>2
<1>. QED BY <1>2, <1>3 DEF Reduced

\* In particular the markers: what is shown on both sides of a sample without
\* a value shows that sample too, after the cut to max as well.
LEMMA NothingBridged ==
  ASSUME NEW D, Series(D), NEW max \in Nat \ {0, 1}, NEW K, Reduced(D, K, max),
         NEW x \in First(K, max), NEW y \in First(K, max),
         NEW s \in D, s.value = Null, x.ts < s.ts, s.ts < y.ts
  PROVE  ~Adjacent(First(K, max), x, y)
<1>1. s \in K /\ Series(K)
  BY NoValueIsKept, KeptIsPart
<1>2. s \in First(K, max)
  <2>1. s.ts <= y.ts
    BY <1>1 DEF Series, Sample, First
  <2>. QED BY <1>1, <2>1, FirstIsPrefix
<1>. QED BY <1>2 DEF Adjacent

LEMMA GapsShown ==
  ASSUME NEW R, Series(R), NEW max \in Nat \ {0, 1}, NEW K, Reduced(WithHistoryGaps(R), K, max),
         NEW x \in First(K, max), NEW y \in First(K, max), Adjacent(First(K, max), x, y),
         NEW a, NEW b, Adjacent(R, a, b), x.ts <= a.ts, b.ts <= y.ts
  PROVE  ~GapWithin(a, b)
<1>. SUFFICES ASSUME GapWithin(a, b) PROVE FALSE
  OBVIOUS
<1>. DEFINE m == Marker(a, b)
<1>1. a \in R /\ b \in R /\ a \in Sample /\ b \in Sample /\ a.ts < b.ts
  BY DEF Adjacent, Series
<1>2. m \in Sample /\ a.ts < m.ts /\ m.ts < b.ts
  BY <1>1, MarkerBetween
<1>3. m \in WithHistoryGaps(R) /\ m.value = Null
  <2>1. <<a, b>> \in {q \in R \X R : Adjacent(R, q[1], q[2]) /\ GapWithin(q[1], q[2])}
    BY <1>1
  <2>2. m \in Markers(R)
    BY <2>1 DEF Markers
  <2>. QED BY <2>2 DEF WithHistoryGaps, Marker
<1>4. Series(WithHistoryGaps(R)) /\ K \subseteq Sample
  BY GapsMakeSeries, KeptIsPart DEF Series
<1>5. x.ts < m.ts /\ m.ts < y.ts
  BY <1>1, <1>2, <1>4 DEF Sample, First
<1>. HIDE DEF m
<1>. QED BY <1>3, <1>4, <1>5, NothingBridged

-----------------------------------------------------------------------------
(* The request.                                                            *)

\* The locals before anything is read, and once they are computed.
Unread == raw = {} /\ data = {} /\ kept = {} /\ shown = {} /\ cells = << >>
Computed ==
  /\ raw = Rows(req)
  /\ data = WithHistoryGaps(raw)
  /\ Reduced(data, kept, req.max)
  /\ Cardinality(data) <= req.max => kept = data
  /\ shown = First(kept, req.max)
Matched == cells = [t \in Targets(req) |-> Match(shown, t, HalfStep(req))]

\* A request that passed the checks of its handler.
Accepted(r) == r \in Request /\ r.max \in Nat \ {0, 1} /\ ~Refused(r)

VarsOK ==
  /\ table \in BOOLEAN
  /\ phase \in {"idle", "meta", "read", "shape", "match", "done"}
  /\ status \in Status
  /\ req \in Request \cup {NoRequest}

IInv ==
  /\ VarsOK
  /\ Series(stored)
  /\ phase \in {"idle", "meta", "read"} => Unread
  /\ phase \in {"meta", "read", "shape", "match"} => Accepted(req)
  /\ phase # "done" => status = "none"
  /\ phase = "shape" => /\ raw = Rows(req)
                        /\ data = {} /\ kept = {} /\ shown = {} /\ cells = << >>
  /\ phase = "match" => Computed /\ cells = << >> /\ req.kind # "curve"
  /\ phase = "done" =>
       IF status = "ok"
       THEN Accepted(req) /\ Computed /\ (cells = << >> \/ (Matched /\ req.kind # "curve"))
       ELSE Unread
  /\ status # "too_long"

\* The rows an export may have, from the limit of its range.
LEMMA RowsOfRange ==
  ASSUME NEW x \in Nat, NEW s \in Nat \ {0}, x <= MaxSpan * Minute
  PROVE  x \div (s * Minute) + 1 <= MaxRows
<1>. DEFINE d == s * Minute
            q == x \div d
<1>1. d \in Nat \ {0} /\ d >= Minute
  BY HistoryAssumption
<1>. HIDE DEF d
<1>2. q \in Nat /\ q * d <= x
  BY <1>1, Z3
<1>. HIDE DEF q
<1>3. q <= MaxSpan
  <2>1. SUFFICES ASSUME q >= MaxSpan + 1 PROVE FALSE
    BY <1>2, HistoryAssumption
  <2>2. q * d >= (MaxSpan + 1) * d
    BY <1>1, <1>2, <2>1, HistoryAssumption
  <2>3. (MaxSpan + 1) * d >= (MaxSpan + 1) * Minute
    BY <1>1, HistoryAssumption
  <2>4. (MaxSpan + 1) * Minute = MaxSpan * Minute + Minute
    BY HistoryAssumption
  <2>5. /\ q * d \in Nat /\ (MaxSpan + 1) * d \in Nat /\ MaxSpan * Minute \in Nat
        /\ Minute \in Nat \ {0} /\ (MaxSpan + 1) * Minute \in Nat
    BY <1>1, <1>2, HistoryAssumption
  <2>. QED BY <1>2, <2>2, <2>3, <2>4, <2>5
<1>4. q + 1 <= MaxRows
  BY <1>2, <1>3, HistoryAssumption
<1>. QED BY <1>4 DEF q, d

\* No request that is not refused is too long.
LEMMA NeverTooLong ==
  ASSUME NEW r \in Request, ~Refused(r)
  PROVE  ~TooLong(r)
<1>. SUFFICES ASSUME r.kind = "export" PROVE ~(RowCount(r) > MaxRows)
  BY DEF TooLong
<1>1. r.from \in Nat /\ r.to \in Nat /\ r.step \in Int
  BY HistoryAssumption DEF Request
<1>2. r.to - r.from \in Nat /\ r.to - r.from <= MaxSpan * Minute /\ r.step \in 1 .. MaxStep
  BY <1>1, HistoryAssumption DEF Refused, BadRange
<1>3. r.step \in Nat \ {0}
  BY <1>2, HistoryAssumption
<1>4. (r.to - r.from) \div (r.step * Minute) + 1 <= MaxRows
  BY <1>2, <1>3, RowsOfRange
<1>5. (r.to - r.from) \div (r.step * Minute) \in Int
  <2>1. r.step * Minute \in Nat \ {0}
    BY <1>3, HistoryAssumption
  <2>. QED BY <1>2, <2>1
<1>. QED BY <1>4, <1>5, HistoryAssumption DEF RowCount

LEMMA CompletedIsRequest ==
  ASSUME NEW kind \in Kind, NEW from \in From, NEW to \in To, NEW max \in Asked, NEW step \in Step
  PROVE  LET r == Completed(kind, from, to, max, step) IN
         r \in Request /\ (~Refused(r) => Accepted(r))
<1>. DEFINE r == Completed(kind, from, to, max, step)
<1>1. r \in Request
  BY DEF Completed, Request
<1>2. ASSUME ~Refused(r) PROVE r.max \in Nat \ {0, 1}
  <2>1. CASE kind = "curve"
    <3>1. r.max \in MinSamples .. MaxSamples
      BY <1>2, <2>1 DEF Refused, Completed
    <3>. QED BY <3>1, HistoryAssumption
  <2>2. CASE kind # "curve"
    BY <2>2, HistoryAssumption DEF Completed
  <2>. QED BY <2>1, <2>2
<1>. QED BY <1>1, <1>2 DEF Accepted

\* The rows of a request are a series.
LEMMA RowsMakeSeries ==
  ASSUME Series(stored), NEW r
  PROVE  Series(Rows(r)) /\ Rows(r) \subseteq stored
<1>1. Rows(r) \in SUBSET stored
  BY DEF Rows
<1>. QED BY <1>1, FS_Subset DEF Series, Distinct

\* A new row comes after all the others.
LEMMA RecordMakesSeries ==
  ASSUME Series(stored), NEW gap \in Spacing, NEW v \in Value \cup {Null}, Record(gap, v)
  PROVE  Series(stored')
<1>. DEFINE new == [ts |-> LastStored + gap, value |-> v,
                    quality |-> IF v = Null THEN "bad" ELSE "good"]
<1>1. LastStored \in Nat /\ \A r \in stored : r.ts <= LastStored
  <2>1. CASE stored = {}
    BY <2>1 DEF LastStored
  <2>2. CASE stored # {}
    <3>. DEFINE last == CHOOSE s \in stored : \A r \in stored : r.ts <= s.ts
    <3>1. last \in stored /\ \A r \in stored : r.ts <= last.ts
      BY <2>2, LastExists
    <3>2. LastStored = last.ts
      BY <2>2 DEF LastStored
    <3>. HIDE DEF last
    <3>. QED BY <3>1, <3>2 DEF Series, Sample
  <2>. QED BY <2>1, <2>2
<1>2. gap \in Nat \ {0}
  BY HistoryAssumption
<1>3. new \in Sample
  BY <1>1, <1>2 DEF Sample
<1>4. \A r \in stored : r.ts # new.ts
  BY <1>1, <1>2 DEF Series, Sample
<1>5. stored' = stored \cup {new}
  BY DEF Record
<1>. HIDE DEF new
<1>6. IsFiniteSet(stored')
  BY <1>5, FS_AddElement DEF Series
<1>. QED BY <1>3, <1>4, <1>5, <1>6 DEF Series, Distinct

-----------------------------------------------------------------------------
(* The inductive invariant.                                                *)

LEMMA InitInv == Init => IInv
<1>. SUFFICES ASSUME Init PROVE IInv
  OBVIOUS
<1>1. Series(stored)
  BY FS_EmptySet DEF Init, Series, Distinct
<1>. QED BY <1>1 DEF Init, IInv, VarsOK, Status, Unread

LEMMA StepInv == IInv /\ [Next]_vars => IInv'
<1>. SUFFICES ASSUME IInv, [Next]_vars PROVE IInv'
  OBVIOUS
<1>1. ASSUME NEW gap \in Spacing, NEW v \in Value \cup {Null}, Record(gap, v) PROVE IInv'
  <2>1. Series(stored')
    BY <1>1, RecordMakesSeries DEF IInv
  <2>2. /\ phase \in {"idle", "meta", "read"} /\ table' \in BOOLEAN
        /\ UNCHANGED <<phase, req, raw, data, kept, shown, cells, status>>
    BY <1>1 DEF Record, TableInPlay, localVars
  <2>. QED BY <2>1, <2>2 DEF IInv, VarsOK, Unread, Accepted
<1>2. CASE DropTable
  <2>1. Series(stored')
    BY <1>2, FS_EmptySet DEF DropTable, Series, Distinct
  <2>2. /\ phase \in {"idle", "meta", "read"} /\ table' \in BOOLEAN
        /\ UNCHANGED <<phase, req, raw, data, kept, shown, cells, status>>
    BY <1>2 DEF DropTable, TableInPlay, localVars
  <2>. QED BY <2>1, <2>2 DEF IInv, VarsOK, Unread, Accepted
<1>3. ASSUME NEW kind \in Kind, NEW from \in From, NEW to \in To, NEW max \in Asked,
             NEW step \in Step, Ask(Completed(kind, from, to, max, step))
      PROVE  IInv'
  <2>. DEFINE r == Completed(kind, from, to, max, step)
  <2>1. r \in Request /\ (~Refused(r) => Accepted(r) /\ ~TooLong(r))
    BY CompletedIsRequest, NeverTooLong
  <2>. HIDE DEF r
  <2>2. Ask(r)
    BY <1>3 DEF r
  <2>3. /\ phase = "idle" /\ req' = r
        /\ UNCHANGED <<table, stored, raw, data, kept, shown, cells>>
        /\ \/ phase' = "done" /\ status' = "refused"
           \/ phase' = "meta" /\ status' = status /\ ~Refused(r)
    BY <2>1, <2>2 DEF Ask, Answer, localVars
  <2>5. Series(stored)' /\ (phase' = "meta" => Accepted(req)')
    BY <2>1, <2>3 DEF IInv, Series, Distinct, Accepted
  <2>. QED BY <2>1, <2>3, <2>5 DEF IInv, VarsOK, Unread, Status
<1>4. CASE FindPoint \/ PointUnknown \/ QueryFails
  BY <1>4 DEF IInv, VarsOK, Unread, FindPoint, PointUnknown, QueryFails, Answer, Status, localVars,
     Series, Distinct, Accepted
<1>5. CASE ReadRows
  <2>1. Rows(req)' = Rows(req)
    BY <1>5 DEF ReadRows, Rows
  <2>. QED BY <1>5, <2>1 DEF ReadRows, IInv, VarsOK, Unread, Series, Distinct, Accepted
<1>6. ASSUME NEW early, 0 \notin early, phase = "shape", Shape(early) PROVE IInv'
  <2>1. /\ Accepted(req) /\ status = "none" /\ raw = Rows(req) /\ cells = << >>
        /\ UNCHANGED <<table, stored, req, raw, cells>>
    BY <1>6 DEF IInv, Shape
  <2>2. Rows(req)' = Rows(req)
    BY <2>1 DEF Rows
  <2>3. Reduced(data', kept', req.max) /\ (Cardinality(data') <= req.max => kept' = data')
    <3>1. Series(data')
      BY <1>6, RowsMakeSeries, GapsMakeSeries, <2>1 DEF Shape, IInv
    <3>2. Cardinality(data') \in Nat /\ req.max \in Nat
      BY <3>1, <2>1, FS_CardinalityType DEF Series, Accepted
    <3>. QED BY <1>6, <3>2 DEF Shape, Reduced
  <2>4. Computed'
    BY <1>6, <2>1, <2>2, <2>3 DEF Shape, Computed
  <2>5. /\ Series(stored)' /\ Accepted(req)'
        /\ \/ phase' = "done" /\ status' = "ok"
           \/ phase' = "match" /\ status' = "none" /\ req'.kind # "curve"
    BY <1>6, <2>1 DEF Shape, Answer, IInv, Series, Distinct, Accepted
  <2>6. VarsOK'
    BY <2>1, <2>5 DEF IInv, VarsOK, Status
  <2>7. cells' = << >>
    BY <2>1
  <2>. QED BY <2>4, <2>5, <2>6, <2>7 DEF IInv
<1>7. CASE MatchRows
  <2>1. /\ phase = "match" /\ UNCHANGED <<table, stored, req, raw, data, kept, shown>>
        /\ phase' = "done" /\ status' = "ok"
    BY <1>7 DEF MatchRows, Answer
  <2>2. Rows(req)' = Rows(req)
    BY <2>1 DEF Rows
  <2>3. Computed' /\ Accepted(req)' /\ Series(stored)' /\ req'.kind # "curve"
    BY <2>1, <2>2 DEF IInv, Computed, Accepted, Series, Distinct
  <2>4. Matched'
    BY <1>7 DEF MatchRows, Matched
  <2>. QED BY <2>1, <2>3, <2>4 DEF IInv, VarsOK, Status
<1>8. CASE Return
  BY <1>8 DEF Return, IInv, VarsOK, Unread, Status, Series, Distinct
<1>9. CASE UNCHANGED vars
  <2>1. UNCHANGED <<table, stored, phase, req, raw, data, kept, shown, cells, status>>
    BY <1>9 DEF vars, localVars
  <2>2. Rows(req)' = Rows(req)
    BY <2>1 DEF Rows
  <2>. QED BY <2>1, <2>2 DEF IInv, VarsOK, Unread, Computed, Matched, Accepted, Series, Distinct
<1>10. CASE Handle
  BY <1>4, <1>5, <1>6, <1>7, <1>8, <1>10 DEF Handle, ShapeAny, Exact
<1>. QED BY <1>1, <1>2, <1>3, <1>9, <1>10 DEF Next

\* What the locals are whenever a series has been computed.
LEMMA ComputedShape ==
  ASSUME Series(stored), Accepted(req), Computed
  PROVE  /\ Series(raw) /\ Series(data) /\ Series(kept)
         /\ raw \subseteq data /\ kept \subseteq data /\ shown \subseteq kept
         /\ raw \subseteq stored
<1>1. Series(raw) /\ raw \subseteq stored
  BY RowsMakeSeries DEF Computed
<1>2. Series(data) /\ raw \subseteq data
  BY <1>1, GapsMakeSeries DEF Computed, WithHistoryGaps
<1>3. Series(kept) /\ kept \subseteq data
  BY <1>2, KeptIsPart DEF Computed
<1>4. shown \subseteq kept
  BY DEF Computed, First
<1>. QED BY <1>1, <1>2, <1>3, <1>4

\* A state of a request either has computed a series or shows nothing.
LEMMA ShownOrNot ==
  ASSUME IInv
  PROVE  \/ Accepted(req) /\ Computed /\ (cells = << >> \/ (Matched /\ req.kind # "curve"))
         \/ data = {} /\ kept = {} /\ shown = {} /\ cells = << >>
BY DEF IInv, VarsOK, Unread

-----------------------------------------------------------------------------
(* The nearest sample.                                                     *)

LEMMA LeastExists ==
  ASSUME NEW T, T \subseteq Nat, T # {}
  PROVE  \E x \in T : \A y \in T : x <= y
<1>. DEFINE R == OpToRel(<, Nat)
<1>1. IsWellFoundedOn(R, Nat)
  BY NatLessThanWellFounded
<1>. HIDE DEF R
<1>2. PICK x \in T : \A y \in T : ~ (<<y, x>> \in R)
  BY <1>1, WFMin
<1>3. \A a, b \in Nat : a < b => <<a, b>> \in R
  BY DEF R, OpToRel
<1>4. ASSUME NEW y \in T PROVE x <= y
  <2>1. x \in Nat /\ y \in Nat /\ ~(y < x)
    BY <1>2, <1>3
  <2>. QED BY <2>1
<1>. QED BY <1>4

\* Distances to a target, with the earlier of two equally near samples first.
Rank(s, t) == 2 * Distance(s, t) + (IF s.ts < t THEN 0 ELSE 1)

LEMMA RankIsNearer ==
  ASSUME NEW s \in Sample, NEW r \in Sample, NEW t \in Nat
  PROVE  /\ Rank(s, t) \in Nat /\ Distance(s, t) \in Nat
         /\ Rank(s, t) <= Rank(r, t) => Nearer(s, r, t)
<1>1. s.ts \in Nat /\ r.ts \in Nat
  BY DEF Sample
<1>. QED BY <1>1 DEF Rank, Distance, Nearer

LEMMA NearestExists ==
  ASSUME NEW D, D \subseteq Sample, NEW t \in Nat, NEW half \in Int, Near(D, t, half) # {}
  PROVE  Match(D, t, half) # {}
<1>. DEFINE N == Near(D, t, half)
            T == {Rank(s, t) : s \in N}
<1>1. N \subseteq Sample
  BY DEF Near
<1>2. T \subseteq Nat /\ T # {}
  BY <1>1, RankIsNearer
<1>3. PICK x \in T : \A y \in T : x <= y
  BY <1>2, LeastExists
<1>4. PICK s \in N : x = Rank(s, t)
  BY <1>3
<1>5. \A r \in N : Nearer(s, r, t)
  BY <1>1, <1>3, <1>4, RankIsNearer
<1>. QED BY <1>5 DEF Match

-----------------------------------------------------------------------------
(* The properties of the runs, for every instance.                         *)

LEMMA InvBounded == IInv => ReplyBounded
<1>. SUFFICES ASSUME IInv PROVE ReplyBounded
  OBVIOUS
<1>1. CASE Accepted(req) /\ Computed
  <2>1. Series(kept) /\ req.max \in Nat
    BY <1>1, ComputedShape DEF IInv, Accepted
  <2>. QED BY <1>1, <2>1, FirstBounded DEF Computed, ReplyBounded
<1>2. CASE shown = {} /\ phase = "done"
  <2>1. req.max \in Nat
    <3>1. DefaultSamples \in Nat /\ TableSamples \in Nat /\ Asked \subseteq Nat
      BY HistoryAssumption
    <3>2. req \in Request => req.max \in Nat
      BY <3>1 DEF Request
    <3>3. NoRequest.max \in Nat
      BY DEF NoRequest
    <3>. QED BY <3>2, <3>3 DEF IInv, VarsOK
  <2>. QED BY <1>2, <2>1, FS_EmptySet DEF ReplyBounded
<1>3. CASE shown = {} /\ phase # "done"
  <2>1. phase = "match" => Accepted(req) /\ Computed
    BY DEF IInv
  <2>. QED BY <1>1, <1>3, <2>1 DEF ReplyBounded, IInv, VarsOK
<1>. QED BY <1>1, <1>2, <1>3, ShownOrNot

LEMMA InvGap == IInv => NoLineAcrossGap
<1>. SUFFICES ASSUME IInv,
                     NEW x \in shown, NEW y \in shown, Adjacent(shown, x, y),
                     NEW a \in raw, NEW b \in raw, Adjacent(raw, a, b),
                     x.ts <= a.ts, b.ts <= y.ts
              PROVE  ~GapWithin(a, b)
  BY DEF NoLineAcrossGap
<1>1. Accepted(req) /\ Computed
  BY ShownOrNot
<1>2. Series(raw) /\ req.max \in Nat \ {0, 1}
  BY <1>1, ComputedShape DEF IInv, Accepted
<1>3. Reduced(WithHistoryGaps(raw), kept, req.max) /\ shown = First(kept, req.max)
  BY <1>1 DEF Computed
<1>. QED BY <1>2, <1>3, GapsShown

LEMMA InvBad == IInv => NoLineAcrossBad
<1>. SUFFICES ASSUME IInv,
                     NEW x \in shown, NEW y \in shown, Adjacent(shown, x, y),
                     NEW s \in raw, x.ts < s.ts, s.ts < y.ts, s.value = Null
              PROVE  FALSE
  BY DEF NoLineAcrossBad
<1>1. Accepted(req) /\ Computed
  BY ShownOrNot
<1>2. Series(data) /\ s \in data /\ req.max \in Nat \ {0, 1}
  BY <1>1, ComputedShape DEF IInv, Accepted
<1>3. Reduced(data, kept, req.max) /\ shown = First(kept, req.max)
  BY <1>1 DEF Computed
<1>. QED BY <1>2, <1>3, NothingBridged

\* The first row is the first sample of the series, for a marker comes after
\* another sample, and the first sample is always kept.
LEMMA InvStart == IInv => StartKept
<1>. SUFFICES ASSUME IInv, phase \in {"match", "done"}, status # "failed",
                     NEW s \in raw, \A r \in raw : s.ts <= r.ts
              PROVE  s \in shown
  BY DEF StartKept
<1>1. Accepted(req) /\ Computed
  BY DEF IInv, Unread
<1>2. /\ Series(raw) /\ Series(data) /\ Series(kept) /\ kept \subseteq data
      /\ s \in data /\ req.max \in Nat \ {0, 1}
  BY <1>1, ComputedShape DEF IInv, Accepted
<1>3. \A r \in data : s.ts <= r.ts
  <2>1. ASSUME NEW r \in Markers(raw) PROVE s.ts <= r.ts
    <3>1. PICK q \in raw \X raw : /\ Adjacent(raw, q[1], q[2]) /\ GapWithin(q[1], q[2])
                                  /\ r = Marker(q[1], q[2])
      BY <2>1 DEF Markers
    <3>2. /\ q[1] \in raw /\ q[1] \in Sample /\ q[2] \in Sample /\ q[1].ts < q[2].ts
      BY <1>2, <3>1 DEF Series, Adjacent
    <3>3. r \in Sample /\ q[1].ts < r.ts
      BY <3>1, <3>2, MarkerBetween
    <3>4. s.ts <= q[1].ts /\ s \in Sample
      BY <1>2, <3>2 DEF Series
    <3>. QED BY <3>2, <3>3, <3>4 DEF Sample
  <2>. QED BY <2>1, <1>1 DEF Computed, WithHistoryGaps
<1>4. s \in kept
  <2>1. s \in Ends(data)
    BY <1>2, <1>3 DEF Ends
  <2>. QED BY <1>1, <1>2, <2>1 DEF Computed, Reduced, MinMaxKeep
<1>5. Before(kept, s) = {}
  BY <1>2, <1>3 DEF Before, Series, Sample
<1>6. Index(kept, s) = 0
  BY <1>5, FS_EmptySet DEF Index
<1>. QED BY <1>1, <1>2, <1>4, <1>6 DEF Computed, First

\* A match is one sample.
LEMMA MatchIsOne ==
  ASSUME NEW D, Series(D), NEW t \in Nat, NEW half \in Int,
         NEW s \in Match(D, t, half)
  PROVE  Match(D, t, half) = {s}
<1>. SUFFICES ASSUME NEW r \in Match(D, t, half) PROVE r = s
  OBVIOUS
<1>1. /\ r \in D /\ s \in D /\ r \in Sample /\ s \in Sample
      /\ Nearer(r, s, t) /\ Nearer(s, r, t)
  BY DEF Match, Near, Series
<1>2. r.ts \in Nat /\ s.ts \in Nat
  BY <1>1 DEF Sample
<1>3. Distance(r, t) \in Int /\ Distance(s, t) \in Int
  BY <1>2 DEF Distance
<1>4. r.ts = s.ts
  BY <1>1, <1>2, <1>3 DEF Nearer
<1>. QED BY <1>1, <1>4 DEF Series, Distinct

\* A cell is the match of the reply; the rows near a target have all been read,
\* for the range was widened by half a step; and nothing but a reduction leaves
\* one of them out.
LEMMA InvExplained == IInv => CellIsExplained
<1>. SUFFICES ASSUME IInv, NEW t \in DOMAIN cells
              PROVE  \/ cells[t] = NearestRow(t)
                     \/ \E m \in Markers(raw) :
                          cells[t] = {m} /\ \A r \in NearestRow(t) : Nearer(m, r, t)
                     \/ /\ Cardinality(data) > req.max
                        /\ NearestRow(t) # {} /\ NearestRow(t) \cap shown = {}
  BY DEF CellIsExplained
<1>1. Accepted(req) /\ Computed /\ Matched /\ req.kind # "curve"
  <2>1. cells # << >>
    OBVIOUS
  <2>. QED BY <2>1, ShownOrNot
<1>2. /\ Series(data) /\ Series(stored) /\ Series(shown)
      /\ raw \subseteq data /\ raw \subseteq stored /\ shown \subseteq data
      /\ req \in Request /\ req.max \in Nat /\ req.step \in Nat \ {0}
  <2>1. req.step \in Nat \ {0}
    BY <1>1, HistoryAssumption DEF Accepted, Refused, Request
  <2>2. Series(stored) /\ Series(data) /\ raw \subseteq data /\ raw \subseteq stored
    BY <1>1, ComputedShape DEF IInv
  <2>3. shown \subseteq data
    BY <1>1, ComputedShape DEF IInv
  <2>4. Series(shown)
    BY <2>2, <2>3, FS_Subset DEF Series, Distinct
  <2>. QED BY <1>1, <2>1, <2>2, <2>3, <2>4 DEF Accepted
<1>3. HalfStep(req) \in Nat
  BY <1>2, HistoryAssumption DEF HalfStep
<1>4. t \in Targets(req) /\ cells[t] = Match(shown, t, HalfStep(req))
  BY <1>1 DEF Matched
<1>5. t \in Nat /\ req.from <= t /\ t <= req.to /\ req.from \in Nat /\ req.to \in Nat
  <2>1. /\ req.from \in Nat /\ req.to \in Nat /\ req.to - req.from \in Nat
    <3>1. req.from \in Nat /\ req.to \in Nat
      BY <1>2, HistoryAssumption DEF Request
    <3>2. ~(req.to <= req.from)
      BY <1>1 DEF Accepted, Refused, BadRange
    <3>. QED BY <3>1, <3>2
  <2>. DEFINE d == req.step * Minute
              x == req.to - req.from
  <2>2. d \in Nat \ {0} /\ x \in Nat
    BY <1>2, <2>1, HistoryAssumption
  <2>3. PICK i \in 0 .. x \div d : t = req.from + i * d
    <3>1. PICK i \in 0 .. ((req.to - req.from) \div (req.step * Minute)) :
                 t = req.from + i * req.step * Minute
      BY <1>4 DEF Targets
    <3>2. i \in Int /\ i * req.step * Minute = i * (req.step * Minute)
      BY <1>2, HistoryAssumption
    <3>. QED BY <3>1, <3>2
  <2>. HIDE DEF d, x
  <2>4. x \div d \in Nat /\ (x \div d) * d <= x
    BY <2>2, Z3
  <2>5. i \in Nat /\ i * d <= (x \div d) * d /\ i * d \in Nat /\ (x \div d) * d \in Nat
    BY <2>2, <2>3, <2>4
  <2>6. i * d <= x
    BY <2>2, <2>4, <2>5
  <2>. QED BY <2>1, <2>2, <2>3, <2>5, <2>6 DEF x
<1> DEFINE half == HalfStep(req)
           N    == NearestRow(t)
           C    == Match(shown, t, half)
<1>6. ASSUME NEW r \in stored, Distance(r, t) <= half PROVE r \in raw
  <2>1. r.ts \in Nat
    BY <1>2 DEF Series, Sample
  <2>2. req.from - half <= r.ts /\ r.ts <= req.to + half
    BY <1>3, <1>5, <1>6, <2>1 DEF Distance
  <2>. QED BY <1>1, <2>2 DEF Computed, Rows, Margin
<1>7. Cardinality(data) <= req.max => shown = data
  <2>1. \A s \in data : Index(data, s) < Cardinality(data) /\ Index(data, s) \in Nat
    BY <1>2, IndexBound, IndexType DEF Series
  <2>2. Cardinality(data) \in Nat
    BY <1>2, FS_CardinalityType DEF Series
  <2>. QED BY <1>1, <1>2, <2>1, <2>2 DEF Computed, First
<1>8. Cardinality(data) \in Nat
  BY <1>2, FS_CardinalityType DEF Series
<1>9. ASSUME NEW r \in N
      PROVE  /\ N = {r} /\ r \in raw /\ r \in data /\ Distance(r, t) <= half
             /\ r \notin shown => Cardinality(data) > req.max
  <2>1. r \in stored /\ Distance(r, t) <= half /\ N = {r}
    BY <1>2, <1>3, <1>5, <1>9, MatchIsOne DEF NearestRow, Match, Near
  <2>2. r \in raw /\ r \in data
    BY <1>2, <1>6, <2>1
  <2>. QED BY <1>2, <1>7, <1>8, <2>1, <2>2
<1>10. CASE \E r \in N : r \notin shown
  <2>1. PICK r \in N : r \notin shown
    BY <1>10
  <2>2. N = {r} /\ Cardinality(data) > req.max
    BY <1>9, <2>1
  <2>. QED BY <2>1, <2>2
<1>11. CASE N \subseteq shown /\ C = {}
  <2>1. ASSUME NEW r \in N PROVE FALSE
    <3>1. r \in Near(shown, t, half)
      BY <1>9, <1>11, <2>1 DEF Near
    <3>2. shown \subseteq Sample /\ half \in Int
      BY <1>2, <1>3 DEF Series
    <3>. QED BY <1>5, <1>11, <3>1, <3>2, NearestExists
  <2>2. N = {}
    BY <2>1
  <2>. QED BY <1>4, <1>11, <2>2
<1>12. CASE N \subseteq shown /\ C # {}
  <2>1. PICK s \in C : C = {s}
    BY <1>2, <1>3, <1>5, <1>12, MatchIsOne
  <2>2. s \in shown /\ s \in data /\ Distance(s, t) <= half
    BY <1>2, <2>1 DEF Match, Near
  <2>3. \A r \in N : Nearer(s, r, t)
    BY <1>9, <1>12, <2>1 DEF Match, Near
  <2>4. CASE s \in Markers(raw)
    BY <1>4, <2>1, <2>3, <2>4
  <2>5. CASE s \in raw
    <3>1. s \in Near(stored, t, half)
      BY <1>2, <2>2, <2>5 DEF Near
    <3>2. stored \subseteq Sample /\ half \in Int
      BY <1>2, <1>3 DEF Series
    <3>3. PICK r \in N : TRUE
      BY <1>5, <3>1, <3>2, NearestExists DEF NearestRow
    <3>4. Nearer(r, s, t) /\ r \in stored /\ Nearer(s, r, t)
      BY <2>3, <3>1, <3>3 DEF NearestRow, Match, Near
    <3>5. \A x \in Near(stored, t, half) : Nearer(s, x, t)
      <4>. SUFFICES ASSUME NEW x \in Near(stored, t, half) PROVE Nearer(s, x, t)
        OBVIOUS
      <4>1. Nearer(r, x, t) /\ x \in stored
        BY <3>3 DEF NearestRow, Match, Near
      <4>2. s.ts \in Nat /\ r.ts \in Nat /\ x.ts \in Nat
        BY <1>2, <2>5, <3>4, <4>1 DEF Series, Sample
      <4>3. Distance(s, t) \in Int /\ Distance(r, t) \in Int /\ Distance(x, t) \in Int
        BY <1>5, <4>2 DEF Distance
      <4>. QED BY <3>4, <4>1, <4>2, <4>3 DEF Nearer
    <3>6. s \in N
      BY <3>1, <3>5 DEF NearestRow, Match
    <3>. QED BY <1>4, <1>9, <2>1, <3>6
  <2>. QED BY <1>1, <2>2, <2>4, <2>5 DEF Computed, WithHistoryGaps
<1>. QED BY <1>10, <1>11, <1>12

\* A finite set has an element that nothing in it precedes: the one with the
\* fewest predecessors.
LEMMA LeastOfFinite ==
  ASSUME NEW V, IsFiniteSet(V), V # {}, NEW R,
         \A a \in V : <<a, a>> \notin R,
         \A a, b, c \in V : <<a, b>> \in R /\ <<b, c>> \in R => <<a, c>> \in R
  PROVE  \E s \in V : \A r \in V : <<r, s>> \notin R
<1>. DEFINE P(s) == {r \in V : <<r, s>> \in R}
            N == {Cardinality(P(s)) : s \in V}
<1>1. \A s \in V : IsFiniteSet(P(s)) /\ Cardinality(P(s)) \in Nat
  BY FS_Subset, FS_CardinalityType
<1>2. \A r, s \in V : <<r, s>> \in R => P(r) \in SUBSET P(s) /\ r \in P(s) /\ r \notin P(r)
  OBVIOUS
<1>. HIDE DEF P
<1>3. PICK x \in N : \A y \in N : x <= y
  <2>1. N \subseteq Nat /\ N # {}
    BY <1>1
  <2>. HIDE DEF N
  <2>. QED BY <2>1, LeastExists
<1>4. PICK s \in V : x = Cardinality(P(s))
  BY <1>3
<1>5. ASSUME NEW r \in V, <<r, s>> \in R PROVE FALSE
  <2>1. P(r) \in SUBSET P(s) /\ r \in P(s) /\ r \notin P(r)
    BY <1>2, <1>5
  <2>2. Cardinality(P(r)) <= Cardinality(P(s)) /\ Cardinality(P(r)) # Cardinality(P(s))
    BY <1>1, <2>1, FS_Subset
  <2>3. x <= Cardinality(P(r))
    BY <1>3
  <2>. QED BY <1>1, <1>4, <2>2, <2>3
<1>. QED BY <1>5

\* The samples of a series that have a value, and one with the smallest, one
\* with the largest value of any part of them.
LEMMA ExtremesOfPart ==
  ASSUME NEW D, Series(D), NEW B \in SUBSET D, NEW s \in Valued(B)
  PROVE  /\ \E lo \in Lowest(B) : lo \in Valued(B) /\ lo.value <= s.value
         /\ \E hi \in Highest(B) : hi \in Valued(B) /\ s.value <= hi.value
<1>. DEFINE V == Valued(B)
<1>1. /\ IsFiniteSet(V) /\ V # {}
      /\ \A r \in V : r.value \in Int /\ r.ts \in Int
  <2>1. V \in SUBSET D
    BY DEF Valued
  <2>2. ASSUME NEW r \in V PROVE r.value \in Int /\ r.ts \in Int
    <3>1. r \in Sample /\ r.value # Null
      BY <2>1 DEF Series, Valued
    <3>2. r.value \in Value /\ r.ts \in Nat
      BY <3>1 DEF Sample
    <3>3. r.value \in Int
      BY <3>2, HistoryAssumption, Zenon
    <3>4. r.ts \in Int
      BY <3>2
    <3>. QED BY <3>3, <3>4
  <2>. QED BY <2>1, <2>2, FS_Subset DEF Series
<1>. HIDE DEF V
<1>2. PICK lo \in V : \A r \in V : lo.value < r.value \/ (lo.value = r.value /\ lo.ts <= r.ts)
  <2>. DEFINE R == {p \in V \X V : \/ p[1].value < p[2].value
                                   \/ p[1].value = p[2].value /\ p[1].ts < p[2].ts}
  <2>1. PICK lo \in V : \A r \in V : <<r, lo>> \notin R
    <3>1. \A a \in V : <<a, a>> \notin R
      BY <1>1
    <3>2. \A a, b, c \in V : <<a, b>> \in R /\ <<b, c>> \in R => <<a, c>> \in R
      BY <1>1
    <3>. HIDE DEF R
    <3>. QED BY <1>1, <3>1, <3>2, LeastOfFinite
  <2>2. ASSUME NEW r \in V PROVE lo.value < r.value \/ (lo.value = r.value /\ lo.ts <= r.ts)
    <3>1. ~(r.value < lo.value) /\ ~(r.value = lo.value /\ r.ts < lo.ts)
      BY <2>1
    <3>. QED BY <1>1, <3>1
  <2>. QED BY <2>2
<1>3. PICK hi \in V : \A r \in V : hi.value > r.value \/ (hi.value = r.value /\ hi.ts <= r.ts)
  <2>. DEFINE R == {p \in V \X V : \/ p[1].value > p[2].value
                                   \/ p[1].value = p[2].value /\ p[1].ts < p[2].ts}
  <2>1. PICK hi \in V : \A r \in V : <<r, hi>> \notin R
    <3>1. \A a \in V : <<a, a>> \notin R
      BY <1>1
    <3>2. \A a, b, c \in V : <<a, b>> \in R /\ <<b, c>> \in R => <<a, c>> \in R
      BY <1>1
    <3>. HIDE DEF R
    <3>. QED BY <1>1, <3>1, <3>2, LeastOfFinite
  <2>2. ASSUME NEW r \in V PROVE hi.value > r.value \/ (hi.value = r.value /\ hi.ts <= r.ts)
    <3>1. ~(r.value > hi.value) /\ ~(r.value = hi.value /\ r.ts < hi.ts)
      BY <2>1
    <3>. QED BY <1>1, <3>1
  <2>. QED BY <2>2
<1>4. lo \in Lowest(B) /\ lo.value <= s.value
  BY <1>1, <1>2 DEF Lowest, V
<1>5. hi \in Highest(B) /\ s.value <= hi.value
  BY <1>1, <1>3 DEF Highest, V
<1>. QED BY <1>4, <1>5 DEF V

\* Every sample the loops look at lies in one of the buckets: the first whose
\* end is behind it.
LEMMA ScannedIsInBucket ==
  ASSUME NEW D, Series(D), NEW k \in Nat \ {0}, NEW early, 0 \notin early,
         NEW s \in Scanned(D, k, early)
  PROVE  \E b \in 0 .. (k - 1) : s \in Bucket(D, k, early, b)
<1>. DEFINE n == Cardinality(D)
            i == Index(D, s)
            T == {b \in Nat : i < Cut(n, k, early, b)}
<1>1. n \in Nat /\ i \in Nat /\ s \in D /\ i < Cut(n, k, early, k)
  BY FS_CardinalityType, IndexType DEF Series, Scanned
<1>. HIDE DEF n, i
<1>2. PICK x \in T : \A y \in T : x <= y
  <2>1. T \subseteq Nat /\ k \in T
    BY <1>1
  <2>. HIDE DEF T
  <2>. QED BY <2>1, LeastExists
<1>3. Cut(n, k, early, 0) = 0
  <2>1. 0 * n = 0 /\ 0 \div k = 0
    BY <1>1
  <2>. QED BY <2>1 DEF Cut
<1>4. x \in Nat /\ x # 0 /\ x <= k /\ i < Cut(n, k, early, x)
  BY <1>1, <1>2, <1>3
<1>5. ~(i < Cut(n, k, early, x - 1))
  BY <1>2, <1>4
<1>6. Cut(n, k, early, x - 1) \in Int
  <2>1. (x - 1) * n \in Nat
    BY <1>1, <1>4
  <2>2. ((x - 1) * n) \div k \in Int
    BY <2>1
  <2>. QED BY <2>2 DEF Cut
<1>7. Cut(n, k, early, x - 1) <= i /\ x - 1 \in 0 .. (k - 1) /\ (x - 1) + 1 = x
  BY <1>1, <1>4, <1>5, <1>6
<1>8. s \in Bucket(D, k, early, x - 1)
  BY <1>1, <1>4, <1>7 DEF Bucket, n, i
<1>. QED BY <1>7, <1>8

LEMMA InvExtremes == IInv => ExtremesKept
<1>. SUFFICES ASSUME IInv, Cardinality(kept) <= req.max
              PROVE  /\ Ends(data) \subseteq shown
                     /\ \A s \in Valued(data) : \E lo, hi \in Valued(shown) :
                          lo.value <= s.value /\ s.value <= hi.value
  BY DEF ExtremesKept
<1>1. CASE data = {}
  BY <1>1 DEF Ends, Valued
<1>2. CASE Accepted(req) /\ Computed
  <2>. DEFINE k == req.max \div 2
              n == Cardinality(data)
  <2>1. /\ Series(data) /\ Series(kept) /\ kept \subseteq data
        /\ req.max \in Nat \ {0, 1} /\ k \in Nat \ {0} /\ n \in Nat
    BY <1>2, ComputedShape, FS_CardinalityType DEF IInv, Accepted, Series
  <2>2. shown = kept
    <3>1. \A s \in kept : Index(kept, s) < Cardinality(kept) /\ Index(kept, s) \in Nat
      BY <2>1, IndexBound, IndexType DEF Series
    <3>2. Cardinality(kept) \in Nat
      BY <2>1, FS_CardinalityType DEF Series
    <3>. QED BY <1>2, <2>1, <3>1, <3>2 DEF Computed, First
  <2>3. ASSUME NEW s \in Valued(data)
        PROVE  s \in data /\ s \in Sample /\ s.value \in Int /\ s.value # Null
    <3>1. s \in data /\ s \in Sample /\ s.value # Null
      BY <2>1 DEF Series, Valued
    <3>2. s.value \in Value
      BY <3>1 DEF Sample
    <3>3. s.value \in Int
      BY <3>2, HistoryAssumption, Zenon
    <3>. QED BY <3>1, <3>3
  <2>4. ASSUME NEW s \in Valued(data), s \in kept
        PROVE  \E lo, hi \in Valued(shown) : lo.value <= s.value /\ s.value <= hi.value
    BY <2>2, <2>3, <2>4 DEF Valued
  <2>5. CASE kept = data
    <3>1. Ends(data) \subseteq shown
      BY <2>2, <2>5 DEF Ends
    <3>. QED BY <2>3, <2>4, <2>5, <3>1
  <2>6. ASSUME NEW early, 0 \notin early, kept = MinMaxKeep(data, req.max, early)
        PROVE  /\ Ends(data) \subseteq shown
               /\ \A s \in Valued(data) : \E lo, hi \in Valued(shown) :
                    lo.value <= s.value /\ s.value <= hi.value
    <3>1. Ends(data) \subseteq kept
      BY <2>6 DEF MinMaxKeep
    <3>2. ASSUME NEW s \in Valued(data)
          PROVE  \E lo, hi \in Valued(shown) : lo.value <= s.value /\ s.value <= hi.value
      <4>1. CASE s \in Scanned(data, k, early)
        <5>1. PICK b \in 0 .. (k - 1) : s \in Bucket(data, k, early, b)
          BY <2>1, <2>6, <4>1, ScannedIsInBucket
        <5>. DEFINE B == Bucket(data, k, early, b)
        <5>2. B \in SUBSET data /\ s \in Valued(B)
          BY <2>3, <5>1 DEF Bucket, Valued
        <5>3. Lowest(B) \cup Highest(B) \subseteq kept
          BY <2>6 DEF MinMaxKeep
        <5>. HIDE DEF B
        <5>4. PICK lo \in Lowest(B) : lo \in Valued(B) /\ lo.value <= s.value
          BY <2>1, <5>2, ExtremesOfPart
        <5>5. PICK hi \in Highest(B) : hi \in Valued(B) /\ s.value <= hi.value
          BY <2>1, <5>2, ExtremesOfPart
        <5>6. lo \in Valued(shown) /\ hi \in Valued(shown)
          BY <2>2, <5>3, <5>4, <5>5 DEF Valued
        <5>. QED BY <5>4, <5>5, <5>6
      <4>2. CASE s \notin Scanned(data, k, early)
        <5>1. Index(data, s) >= n - 1 /\ Index(data, s) \in Nat
          <6>1. ~(Index(data, s) < Cut(n, k, early, k))
            BY <2>3, <4>2 DEF Scanned
          <6>2. Cut(n, k, early, k) \in {n - 1, n} /\ Index(data, s) \in Nat
            BY <2>1, LastCut, IndexType DEF Series
          <6>. QED BY <2>1, <6>1, <6>2
        <5>2. ASSUME NEW r \in data, s.ts < r.ts PROVE FALSE
          <6>1. /\ Index(data, s) < Index(data, r) /\ Index(data, r) < n
                /\ Index(data, r) \in Nat
            BY <2>1, <2>3, <5>2, IndexGrows, IndexBound, IndexType DEF Series
          <6>. QED BY <2>1, <5>1, <6>1
        <5>3. \A r \in data : r.ts <= s.ts
          BY <2>1, <2>3, <5>2 DEF Series, Sample
        <5>4. s \in Ends(data)
          BY <2>3, <5>3 DEF Ends
        <5>. QED BY <2>4, <3>1, <5>4
      <4>. QED BY <4>1, <4>2
    <3>. QED BY <2>2, <3>1, <3>2
  <2>. QED BY <1>2, <2>5, <2>6 DEF Computed, Reduced
<1>. QED BY <1>1, <1>2, ShownOrNot

LEMMA InvTypeOK == IInv => TypeOK
<1>. SUFFICES ASSUME IInv PROVE TypeOK
  OBVIOUS
<1>1. VarsOK /\ Series(stored)
  BY DEF IInv
<1>2. CASE Accepted(req) /\ Computed /\ (cells = << >> \/ (Matched /\ req.kind # "curve"))
  <2>1. raw \subseteq Sample /\ data \subseteq Sample /\ kept \subseteq data /\ shown \subseteq kept
    BY <1>1, <1>2, ComputedShape DEF Series
  <2>2. \A t \in DOMAIN cells : cells[t] \subseteq shown
    <3>1. CASE cells = << >>
      BY <3>1
    <3>2. CASE Matched
      BY <3>2 DEF Matched, Match, Near
    <3>. QED BY <1>2, <3>1, <3>2
  <2>. QED BY <1>1, <2>1, <2>2 DEF TypeOK, VarsOK, Series
<1>3. CASE data = {} /\ kept = {} /\ shown = {} /\ cells = << >>
  <2>1. raw \subseteq Sample
    <3>1. phase = "shape" \/ raw = {} \/ (Accepted(req) /\ Computed)
      BY DEF IInv, VarsOK, Unread
    <3>2. phase = "shape" => raw = Rows(req)
      BY DEF IInv
    <3>. QED BY <1>1, <3>1, <3>2, RowsMakeSeries, ComputedShape DEF Series
  <2>. QED BY <1>1, <1>3, <2>1 DEF TypeOK, VarsOK, Series
<1>. QED BY <1>2, <1>3, ShownOrNot

LEMMA Invariance == Spec => []IInv
BY InitInv, StepInv, PTL DEF Spec

\* Every variable has its type: what minMax keeps is part of the series, what
\* is shown part of that, and every cell shows a shown sample.
THEOREM TypeCorrect == Spec => []TypeOK
BY Invariance, InvTypeOK, PTL

\* A reply has at most as many samples as the client asked for.
THEOREM ReplyIsBounded == Spec => []ReplyBounded
BY Invariance, InvBounded, PTL

\* No two neighbours of a reply are shown on both sides of a gap in the table.
THEOREM GapsAreNotBridged == Spec => []NoLineAcrossGap
BY Invariance, InvGap, PTL

\* ... nor on both sides of a read that failed.
THEOREM BadReadsAreNotBridged == Spec => []NoLineAcrossBad
BY Invariance, InvBad, PTL

\* The first row of the range is in the reply.
THEOREM StartIsKept == Spec => []StartKept
BY Invariance, InvStart, PTL

\* The smallest, the largest and the last sample are in the reply unless what
\* minMax keeps is cut.
THEOREM ExtremesAreKept == Spec => []ExtremesKept
BY Invariance, InvExtremes, PTL

\* A cell of a table shows the nearest row stored, unless a gap marker is nearer
\* or the reduction left that row out (CellIsExplained).
THEOREM CellsAreExplained == Spec => []CellIsExplained
BY Invariance, InvExplained, PTL

\* The limit of the range makes the limit of the rows of an export redundant.
THEOREM ExportsAreNeverTooLong == Spec => []ExportNeverTooLong
<1>1. IInv => ExportNeverTooLong
  BY DEF IInv, ExportNeverTooLong
<1>. QED BY <1>1, Invariance, PTL
=============================================================================
