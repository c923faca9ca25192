-------------------------- MODULE CollectorProofs --------------------------
(***************************************************************************)
(* Machine-checked proofs for Collector: for any number of points, workers *)
(* and restarts, and any intervals, the history rows one process stores    *)
(* for a point are at least the point's history interval apart, a point    *)
(* with rows has its history_started_at, only deleted points lose rows to  *)
(* the clean-up, a scan does not offer a point deleted before it, and all  *)
(* of it together implements PointArchive.                                 *)
(***************************************************************************)
EXTENDS Collector, SequenceTheorems, TLAPS

\* A worker that has claimed an interval and not yet written its row.
Pending(w) == wPc[w] \in {"device", "mark", "insert"}

\* The times a and b are far enough apart for point p.
Apart(a, b, p) == a - b >= HistoryInterval[p] \/ b - a >= HistoryInterval[p]

\* The parts of the state the first two theorems are about.
StoreTypes ==
  /\ lastHistory \in [Point -> Time \cup {Never}]
  /\ wPc    \in [Worker -> {"idle", "read", "record", "device", "mark", "insert"}]
  /\ wPoint \in [Worker -> Point \cup {0}]
  /\ wNow   \in [Worker -> Time]
  /\ rows \in [Point -> SUBSET Row]
  /\ started \in [Point -> BOOLEAN]
  /\ run \in 0..MaxRun

\* ... and what a worker reads when it takes a job.
JobTypes == jobs \in Seq(Job) /\ clock \in Time

\* A worker in collect has a point.
WorkerShape == \A w \in Worker : wPc[w] # "idle" => wPoint[w] \in Point

\* Every claim and every row of this life is no later than lastHistory.
ClaimBound ==
  /\ \A w \in Worker : Pending(w) => lastHistory[wPoint[w]] >= wNow[w]
  /\ \A p \in Point : \A r \in rows[p] :
       r.run <= run /\ (r.run = run => lastHistory[p] >= r.ts)

\* Claims of different workers are apart, and apart from the rows.
ClaimSpacing ==
  /\ \A w, v \in Worker : Pending(w) /\ Pending(v) /\ w # v /\ wPoint[w] = wPoint[v]
       => Apart(wNow[w], wNow[v], wPoint[w])
  /\ \A w \in Worker : Pending(w) =>
       \A r \in rows[wPoint[w]] : r.run = run => Apart(wNow[w], r.ts, wPoint[w])

\* The invariant behind HistorySpacing.
SInv ==
  /\ StoreTypes
  /\ JobTypes
  /\ WorkerShape
  /\ ClaimBound
  /\ ClaimSpacing
  /\ HistorySpacing

-----------------------------------------------------------------------------
\* The variables StoreTypes is about, and the steps that touch them.
storeVars == <<lastHistory, wPc, wPoint, wNow, rows, started, run>>

LEMMA StoreFrame ==
  ASSUME [Next]_vars
  PROVE  \/ UNCHANGED storeVars
         \/ \E w \in Worker : \/ TakeJob(w) \/ ReadPoint(w) \/ RecordOnly(w)
                              \/ RecordAndStore(w) \/ LoadDevice(w)
                              \/ MarkHistoryStarted(w) \/ Insert(w) \/ StoreFails(w)
         \/ \E p \in Point : CleanupDrop(p)
         \/ Restart
BY DEF Next, Schedule, Work, Edit, Cleanup, Second, ReceiveTick, ListPoints, ListFails,
   SkipPoint, Dispatch, DropJob, ScanDone, SwitchPoint, SwitchStore, DeletePoint,
   SwitchDevice, DeleteDevice, CleanupList, CleanupSkip, CleanupFails, vars, clockVars,
   pointVars, deviceVars, schedVars, engineVars, workVars, storeVars

LEMMA JobFrame ==
  ASSUME [Next]_vars
  PROVE  \/ UNCHANGED <<jobs, clock>>
         \/ Second \/ Dispatch \/ Restart
         \/ \E w \in Worker : TakeJob(w)
BY DEF Next, Schedule, Work, Edit, Cleanup, ReceiveTick, ListPoints, ListFails, SkipPoint,
   DropJob, ScanDone, ReadPoint, RecordOnly, RecordAndStore, LoadDevice,
   MarkHistoryStarted, Insert, StoreFails, SwitchPoint, SwitchStore, DeletePoint,
   SwitchDevice, DeleteDevice, CleanupList, CleanupDrop, CleanupSkip, CleanupFails,
   vars, clockVars, pointVars, deviceVars, schedVars, engineVars, workVars

\* The queue holds jobs, the clock a time.
LEMMA JobTypesStep ==
  ASSUME JobTypes, [Next]_vars
  PROVE  JobTypes'
<1>1. CASE Second
  BY <1>1, CollectorAssumption DEF Second, JobTypes, Time
<1>2. CASE Dispatch
  <2>1. [point |-> pos, store |-> snap[pos] = "stored"] \in Job
    BY <1>2 DEF Dispatch, Job
  <2>2. clock' = clock /\ jobs' = Append(jobs, [point |-> pos, store |-> snap[pos] = "stored"])
    BY <1>2 DEF Dispatch, clockVars
  <2>. QED BY <2>1, <2>2 DEF JobTypes
<1>3. CASE Restart
  BY <1>3 DEF Restart, JobTypes
<1>4. ASSUME NEW w \in Worker, TakeJob(w) PROVE JobTypes'
  BY <1>4 DEF TakeJob, JobTypes, clockVars
<1>5. CASE UNCHANGED <<jobs, clock>>
  BY <1>5 DEF JobTypes
<1>. QED BY <1>1, <1>2, <1>3, <1>4, <1>5, JobFrame

\* A worker that takes a job has claimed nothing yet.
LEMMA TakeJobStep ==
  ASSUME SInv, NEW w \in Worker, TakeJob(w)
  PROVE  StoreTypes' /\ WorkerShape' /\ ClaimBound' /\ ClaimSpacing' /\ HistorySpacing'
<1>1. /\ wPc' = [wPc EXCEPT ![w] = "read"]
      /\ wPoint' = [wPoint EXCEPT ![w] = Head(jobs).point]
      /\ wNow' = [wNow EXCEPT ![w] = clock]
      /\ UNCHANGED <<lastHistory, rows, started, run>>
  BY DEF TakeJob, engineVars
<1>2. Head(jobs).point \in Point /\ clock \in Time
  <2>1. Head(jobs) \in Job
    BY DEF TakeJob, SInv, JobTypes
  <2>. QED BY <2>1 DEF Job, SInv, JobTypes
<1>3. StoreTypes'
  BY <1>1, <1>2 DEF SInv, StoreTypes
<1>4. WorkerShape'
  BY <1>1, <1>2 DEF SInv, StoreTypes, WorkerShape
<1>5. \A v \in Worker : Pending(v)' => v # w /\ Pending(v)
  BY <1>1 DEF SInv, StoreTypes, Pending
<1>6. ClaimBound'
  BY <1>1, <1>5 DEF SInv, StoreTypes, ClaimBound
<1>7. ClaimSpacing'
  BY <1>1, <1>5 DEF SInv, StoreTypes, ClaimSpacing, Apart
<1>8. HistorySpacing'
  BY <1>1 DEF SInv, HistorySpacing
<1>. QED BY <1>3, <1>4, <1>6, <1>7, <1>8

\* The claim: lastHistory moves on by at least an interval, so the new claim is
\* apart from every older claim and row, all of which it bounds.
LEMMA ClaimStep ==
  ASSUME SInv, NEW w \in Worker, RecordAndStore(w)
  PROVE  StoreTypes' /\ WorkerShape' /\ ClaimBound' /\ ClaimSpacing' /\ HistorySpacing'
<1>. DEFINE p == wPoint[w]
<1>1. /\ lastHistory' = [lastHistory EXCEPT ![p] = wNow[w]]
      /\ wPc' = [wPc EXCEPT ![w] = "device"]
      /\ UNCHANGED <<wPoint, wNow, rows, started, run>>
  BY DEF RecordAndStore, ClaimedTime
<1>2. p \in Point /\ wPc[w] = "record"
  BY DEF RecordAndStore, SInv, WorkerShape
<1>3. lastHistory[p] = Never \/ wNow[w] - lastHistory[p] >= HistoryInterval[p]
  BY DEF RecordAndStore, DueHistory
<1>4. HistoryInterval[p] \in Nat \ {0} /\ wNow[w] \in Nat /\ lastHistory[p] \in Int
  BY <1>2, CollectorAssumption DEF SInv, StoreTypes, Time, Never
<1>5. StoreTypes'
  BY <1>1, <1>2 DEF SInv, StoreTypes
<1>6. WorkerShape'
  BY <1>1, <1>2 DEF SInv, StoreTypes, WorkerShape
<1>7. \A v \in Worker : Pending(v)' => v = w \/ Pending(v)
  BY <1>1 DEF SInv, StoreTypes, Pending
<1>8. ASSUME NEW v \in Worker, Pending(v), wPoint[v] = p
      PROVE  lastHistory[p] # Never /\ wNow[v] <= lastHistory[p] /\ Apart(wNow[w], wNow[v], p)
  BY <1>2, <1>3, <1>4, <1>8 DEF SInv, StoreTypes, ClaimBound, Apart, Time, Never
<1>9. ASSUME NEW r \in rows[p], r.run = run
      PROVE  r.ts \in Nat /\ r.ts <= lastHistory[p] /\ Apart(wNow[w], r.ts, p)
  <2>1. r \in Row
    BY <1>2 DEF SInv, StoreTypes
  <2>2. r.ts \in Nat /\ r.ts <= lastHistory[p]
    BY <1>2, <1>4, <1>9, <2>1 DEF SInv, ClaimBound, Row, Time
  <2>. QED BY <1>3, <1>4, <2>2 DEF Apart, Never
<1>10. ClaimBound'
  <2>1. ASSUME NEW v \in Worker, Pending(v)' PROVE lastHistory'[wPoint'[v]] >= wNow'[v]
    <3>1. CASE v = w
      BY <1>1, <1>2, <1>4, <3>1 DEF SInv, StoreTypes
    <3>2. CASE v # w /\ wPoint[v] = p
      <4>1. Pending(v)
        BY <1>7, <2>1, <3>2
      <4>2. wNow[v] <= lastHistory[p] /\ wNow[v] \in Nat
        BY <1>8, <3>2, <4>1 DEF SInv, StoreTypes, Time
      <4>3. lastHistory'[wPoint'[v]] = wNow[w] /\ wNow'[v] = wNow[v]
        BY <1>1, <1>2, <3>2 DEF SInv, StoreTypes
      <4>4. lastHistory[p] # Never
        BY <1>8, <3>2, <4>1
      <4>. QED BY <1>3, <1>4, <4>2, <4>3, <4>4
    <3>3. CASE v # w /\ wPoint[v] # p
      <4>1. Pending(v) /\ lastHistory'[wPoint'[v]] = lastHistory[wPoint[v]] /\ wNow'[v] = wNow[v]
        BY <1>1, <1>2, <1>7, <2>1, <3>3 DEF SInv, StoreTypes, WorkerShape, Pending
      <4>. QED BY <4>1 DEF SInv, ClaimBound
    <3>. QED BY <3>1, <3>2, <3>3
  <2>2. ASSUME NEW q \in Point, NEW r \in rows'[q]
        PROVE  r.run <= run' /\ (r.run = run' => lastHistory'[q] >= r.ts)
    <3>1. r \in rows[q] /\ run' = run /\ r.run <= run
      BY <1>1, <2>2 DEF SInv, ClaimBound
    <3>2. CASE q # p
      BY <1>1, <3>1, <3>2 DEF SInv, StoreTypes, ClaimBound
    <3>3. CASE q = p /\ r.run = run
      <4>1. r.ts \in Nat /\ r.ts <= lastHistory[p] /\ lastHistory'[q] = wNow[w]
        BY <1>1, <1>2, <1>9, <3>1, <3>3 DEF SInv, StoreTypes
      <4>. QED BY <1>3, <1>4, <3>1, <4>1 DEF Never
    <3>. QED BY <3>1, <3>2, <3>3
  <2>. QED BY <2>1, <2>2 DEF ClaimBound
<1>11. ClaimSpacing'
  <2>1. ASSUME NEW u \in Worker, NEW v \in Worker, Pending(u)', Pending(v)', u # v,
               wPoint'[u] = wPoint'[v]
        PROVE  Apart(wNow[u], wNow[v], wPoint[u])
    <3>1. CASE u = w
      BY <1>1, <1>7, <1>8, <2>1, <3>1
    <3>2. CASE v = w
      <4>1. Apart(wNow[w], wNow[u], p) /\ wPoint[u] = p
        BY <1>1, <1>7, <1>8, <2>1, <3>2
      <4>. QED BY <3>2, <4>1 DEF Apart
    <3>3. CASE u # w /\ v # w
      BY <1>1, <1>7, <2>1, <3>3 DEF SInv, ClaimSpacing
    <3>. QED BY <3>1, <3>2, <3>3
  <2>2. ASSUME NEW u \in Worker, Pending(u)', NEW r \in rows[wPoint[u]], r.run = run
        PROVE  Apart(wNow[u], r.ts, wPoint[u])
    BY <1>7, <1>9, <2>2 DEF SInv, ClaimSpacing
  <2>. QED BY <1>1, <2>1, <2>2 DEF ClaimSpacing, Apart
<1>12. HistorySpacing'
  BY <1>1 DEF SInv, HistorySpacing
<1>. QED BY <1>5, <1>6, <1>10, <1>11, <1>12

\* A step after which every claim is one that was there before, and which leaves
\* rows and lastHistory alone, keeps the bounds and the spacing.
LEMMA NoNewClaim ==
  ASSUME SInv, UNCHANGED <<lastHistory, rows, run>>,
         \A v \in Worker : Pending(v)' =>
           Pending(v) /\ wPoint'[v] = wPoint[v] /\ wNow'[v] = wNow[v]
  PROVE  ClaimBound' /\ ClaimSpacing' /\ HistorySpacing'
<1>1. ClaimBound'
  BY DEF SInv, ClaimBound
<1>2. ClaimSpacing'
  BY DEF SInv, ClaimSpacing, Apart
<1>3. HistorySpacing'
  BY DEF SInv, HistorySpacing
<1>. QED BY <1>1, <1>2, <1>3

\* The steps of a worker that only move its program counter, or end collect.
LEMMA ProgressStep ==
  ASSUME SInv, NEW w \in Worker,
         \/ ReadPoint(w) \/ RecordOnly(w) \/ LoadDevice(w)
         \/ MarkHistoryStarted(w) \/ StoreFails(w)
  PROVE  StoreTypes' /\ WorkerShape' /\ ClaimBound' /\ ClaimSpacing' /\ HistorySpacing'
<1>1. /\ UNCHANGED <<lastHistory, rows, run>>
      /\ \/ UNCHANGED started
         \/ started' = [started EXCEPT ![wPoint[w]] = TRUE]
  BY DEF ReadPoint, RecordOnly, LoadDevice, MarkHistoryStarted, StoreFails, engineVars
<1>2. \/ /\ UNCHANGED <<wPoint, wNow>>
         /\ \/ wPc[w] = "read" /\ wPc' = [wPc EXCEPT ![w] = "record"]
            \/ wPc[w] = "device" /\ wPc' = [wPc EXCEPT ![w] = "mark"]
            \/ wPc[w] = "mark" /\ wPc' = [wPc EXCEPT ![w] = "insert"]
      \/ /\ wPc' = [wPc EXCEPT ![w] = "idle"]
         /\ wPoint' = [wPoint EXCEPT ![w] = 0]
         /\ wNow' = [wNow EXCEPT ![w] = 0]
  BY DEF ReadPoint, RecordOnly, LoadDevice, MarkHistoryStarted, StoreFails, Finish, workVars
<1>3. StoreTypes'
  <2>1. started' \in [Point -> BOOLEAN]
    BY <1>1 DEF SInv, StoreTypes
  <2>2. wPoint' \in [Worker -> Point \cup {0}] /\ wNow' \in [Worker -> Time]
    BY <1>2, CollectorAssumption DEF SInv, StoreTypes, Time
  <2>3. wPc' \in [Worker -> {"idle", "read", "record", "device", "mark", "insert"}]
    BY <1>2 DEF SInv, StoreTypes
  <2>. QED BY <1>1, <2>1, <2>2, <2>3 DEF SInv, StoreTypes
<1>4. WorkerShape'
  BY <1>2 DEF SInv, StoreTypes, WorkerShape
<1>5. \A v \in Worker : Pending(v)' =>
        Pending(v) /\ wPoint'[v] = wPoint[v] /\ wNow'[v] = wNow[v]
  BY <1>2 DEF SInv, StoreTypes, Pending
<1>. QED BY <1>1, <1>3, <1>4, <1>5, NoNewClaim

\* The row a worker writes is at the time it has claimed.
LEMMA InsertStep ==
  ASSUME SInv, NEW w \in Worker, Insert(w)
  PROVE  StoreTypes' /\ WorkerShape' /\ ClaimBound' /\ ClaimSpacing' /\ HistorySpacing'
<1>. DEFINE p == wPoint[w]
            new == [ts |-> wNow[w], run |-> run]
<1>1. /\ rows' = [rows EXCEPT ![p] = rows[p] \cup {new}]
      /\ wPc' = [wPc EXCEPT ![w] = "idle"]
      /\ wPoint' = [wPoint EXCEPT ![w] = 0]
      /\ wNow' = [wNow EXCEPT ![w] = 0]
      /\ UNCHANGED <<lastHistory, started, run>>
  BY DEF Insert, Finish, engineVars
<1>2. p \in Point /\ Pending(w) /\ new \in Row /\ new.ts = wNow[w] /\ new.run = run
  BY DEF Insert, SInv, WorkerShape, StoreTypes, Pending, Row
<1>3. \A v \in Worker : Pending(v)' =>
        v # w /\ Pending(v) /\ wPoint'[v] = wPoint[v] /\ wNow'[v] = wNow[v]
  BY <1>1 DEF SInv, StoreTypes, Pending
<1>4. \A q \in Point : \A r \in rows'[q] : r \in rows[q] \/ (q = p /\ r = new)
  BY <1>1, <1>2 DEF SInv, StoreTypes
<1>5. StoreTypes'
  <2>1. rows' \in [Point -> SUBSET Row]
    <3>1. rows[p] \cup {new} \in SUBSET Row
      BY <1>2 DEF SInv, StoreTypes
    <3>. HIDE DEF new, p
    <3>. QED BY <1>1, <3>1 DEF SInv, StoreTypes
  <2>2. wPoint' \in [Worker -> Point \cup {0}] /\ wNow' \in [Worker -> Time]
    BY <1>1, CollectorAssumption DEF SInv, StoreTypes, Time
  <2>3. wPc' \in [Worker -> {"idle", "read", "record", "device", "mark", "insert"}]
    BY <1>1 DEF SInv, StoreTypes
  <2>. QED BY <1>1, <2>1, <2>2, <2>3 DEF SInv, StoreTypes
<1>6. WorkerShape'
  BY <1>1 DEF SInv, StoreTypes, WorkerShape
<1>7. ClaimBound'
  <2>1. \A v \in Worker : Pending(v)' => lastHistory'[wPoint'[v]] >= wNow'[v]
    BY <1>1, <1>3 DEF SInv, ClaimBound
  <2>2. ASSUME NEW q \in Point, NEW r \in rows'[q]
        PROVE  r.run <= run /\ (r.run = run => lastHistory[q] >= r.ts)
    <3>1. CASE r \in rows[q]
      BY <3>1 DEF SInv, ClaimBound
    <3>2. CASE q = p /\ r = new
      <4>1. lastHistory[p] >= wNow[w] /\ run \in Int
        BY <1>2 DEF SInv, ClaimBound, StoreTypes
      <4>. QED BY <1>2, <3>2, <4>1
    <3>. QED BY <1>4, <2>2, <3>1, <3>2
  <2>. QED BY <1>1, <2>1, <2>2 DEF ClaimBound
<1>8. ClaimSpacing'
  <2>1. \A u, v \in Worker :
           Pending(u)' /\ Pending(v)' /\ u # v /\ wPoint'[u] = wPoint'[v]
             => Apart(wNow'[u], wNow'[v], wPoint'[u])
    BY <1>3 DEF SInv, ClaimSpacing
  <2>2. ASSUME NEW v \in Worker, Pending(v)', NEW r \in rows'[wPoint'[v]], r.run = run
        PROVE  Apart(wNow'[v], r.ts, wPoint'[v])
    <3>1. v # w /\ Pending(v) /\ wPoint'[v] = wPoint[v] /\ wNow'[v] = wNow[v]
      BY <1>3, <2>2
    <3>2. wPoint[v] \in Point
      BY <3>1 DEF SInv, WorkerShape, Pending
    <3>3. CASE r \in rows[wPoint[v]]
      BY <2>2, <3>1, <3>3 DEF SInv, ClaimSpacing
    <3>4. CASE wPoint[v] = p /\ r = new
      BY <1>2, <3>1, <3>4 DEF SInv, ClaimSpacing
    <3>. QED BY <1>4, <2>2, <3>1, <3>2, <3>3, <3>4
  <2>. QED BY <1>1, <2>1, <2>2 DEF ClaimSpacing, Apart
<1>9. HistorySpacing'
  <2>1. ASSUME NEW r \in rows[p], r.run = run PROVE Apart(wNow[w], r.ts, p)
    BY <1>2, <2>1 DEF SInv, ClaimSpacing
  <2>2. \A r \in Row : r.ts \in Int
    BY CollectorAssumption DEF Row, Time
  <2>3. HistoryInterval[p] \in Nat \ {0}
    BY <1>2, CollectorAssumption
  <2>4. ASSUME NEW q \in Point, NEW r \in rows'[q], NEW s \in rows'[q],
               r.run = s.run, r.ts < s.ts
        PROVE  s.ts - r.ts >= HistoryInterval[q]
    <3>1. CASE r \in rows[q] /\ s \in rows[q]
      BY <2>4, <3>1 DEF SInv, HistorySpacing
    <3>2. CASE q = p /\ r = new /\ s \in rows[p]
      <4>1. Apart(new.ts, s.ts, p) /\ s \in Row
        BY <1>2, <2>1, <2>4, <3>2 DEF SInv, StoreTypes
      <4>. QED BY <1>2, <2>2, <2>3, <2>4, <3>2, <4>1 DEF Apart
    <3>3. CASE q = p /\ s = new /\ r \in rows[p]
      <4>1. Apart(new.ts, r.ts, p) /\ r \in Row
        BY <1>2, <2>1, <2>4, <3>3 DEF SInv, StoreTypes
      <4>. QED BY <1>2, <2>2, <2>3, <2>4, <3>3, <4>1 DEF Apart
    <3>4. CASE r = new /\ s = new
      BY <1>2, <2>2, <2>4, <3>4
    <3>. QED BY <1>4, <2>4, <3>1, <3>2, <3>3, <3>4
  <2>. QED BY <2>4 DEF HistorySpacing
<1>. QED BY <1>5, <1>6, <1>7, <1>8, <1>9

\* Rows that go cannot break a bound or a spacing.
LEMMA DropStep ==
  ASSUME SInv, NEW p \in Point, CleanupDrop(p)
  PROVE  StoreTypes' /\ WorkerShape' /\ ClaimBound' /\ ClaimSpacing' /\ HistorySpacing'
<1>1. /\ rows' = [rows EXCEPT ![p] = {}]
      /\ UNCHANGED <<lastHistory, wPc, wPoint, wNow, started, run>>
  BY DEF CleanupDrop, engineVars, workVars
<1>2. \A q \in Point : \A r \in rows'[q] : r \in rows[q]
  BY <1>1 DEF SInv, StoreTypes
<1>3. StoreTypes' /\ WorkerShape'
  BY <1>1 DEF SInv, StoreTypes, WorkerShape
<1>4. ClaimBound'
  BY <1>1, <1>2 DEF SInv, ClaimBound, Pending
<1>5. ClaimSpacing'
  BY <1>1, <1>2 DEF SInv, ClaimSpacing, WorkerShape, Pending, Apart
<1>6. HistorySpacing'
  BY <1>2 DEF SInv, HistorySpacing
<1>. QED BY <1>3, <1>4, <1>5, <1>6

\* A new life of the process: no claims, and all rows are of older lives.
LEMMA RestartStep ==
  ASSUME SInv, Restart
  PROVE  StoreTypes' /\ WorkerShape' /\ ClaimBound' /\ ClaimSpacing' /\ HistorySpacing'
<1>1. /\ run < MaxRun /\ run' = run + 1
      /\ lastHistory' = [q \in Point |-> Never]
      /\ wPc' = [w \in Worker |-> "idle"]
      /\ wPoint' = [w \in Worker |-> 0]
      /\ wNow' = [w \in Worker |-> 0]
      /\ UNCHANGED <<rows, started>>
  BY DEF Restart
<1>2. StoreTypes'
  BY <1>1, CollectorAssumption DEF SInv, StoreTypes, Time
<1>3. WorkerShape' /\ \A w \in Worker : ~Pending(w)'
  BY <1>1 DEF WorkerShape, Pending
<1>4. \A q \in Point : \A r \in rows'[q] : r.run \in Int /\ r.run < run'
  <2>1. ASSUME NEW q \in Point, NEW r \in rows[q] PROVE r.run \in Int /\ r.run <= run
    BY <2>1, CollectorAssumption DEF SInv, StoreTypes, ClaimBound, Row
  <2>. QED BY <1>1, <2>1, CollectorAssumption DEF SInv, StoreTypes
<1>5. ClaimBound'
  BY <1>1, <1>3, <1>4, CollectorAssumption DEF ClaimBound, SInv, StoreTypes
<1>6. ClaimSpacing'
  BY <1>3 DEF ClaimSpacing
<1>7. HistorySpacing'
  BY <1>1 DEF SInv, HistorySpacing
<1>. QED BY <1>2, <1>3, <1>5, <1>6, <1>7

LEMMA SInvInit == Init => SInv
<1>. SUFFICES ASSUME Init PROVE SInv
  OBVIOUS
<1>1. StoreTypes
  BY CollectorAssumption DEF Init, Fresh, StoreTypes, Time
<1>2. JobTypes
  BY CollectorAssumption DEF Init, Fresh, JobTypes, Time
<1>. QED BY <1>1, <1>2 DEF Init, Fresh, SInv, WorkerShape, ClaimBound, ClaimSpacing,
            HistorySpacing, Pending

LEMMA SInvStep == SInv /\ [Next]_vars => SInv'
<1>. SUFFICES ASSUME SInv, [Next]_vars PROVE SInv'
  OBVIOUS
<1>1. JobTypes'
  BY JobTypesStep DEF SInv
<1>2. CASE UNCHANGED storeVars
  <2>1. StoreTypes' /\ WorkerShape'
    BY <1>2 DEF storeVars, SInv, StoreTypes, WorkerShape
  <2>2. \A v \in Worker : Pending(v)' =>
          Pending(v) /\ wPoint'[v] = wPoint[v] /\ wNow'[v] = wNow[v]
    BY <1>2 DEF storeVars, Pending
  <2>3. UNCHANGED <<lastHistory, rows, run>>
    BY <1>2 DEF storeVars
  <2>. QED BY <1>1, <2>1, <2>2, <2>3, NoNewClaim DEF SInv
<1>3. ASSUME NEW w \in Worker, TakeJob(w) PROVE SInv'
  BY <1>1, <1>3, TakeJobStep DEF SInv
<1>4. ASSUME NEW w \in Worker, RecordAndStore(w) PROVE SInv'
  BY <1>1, <1>4, ClaimStep DEF SInv
<1>5. ASSUME NEW w \in Worker,
             \/ ReadPoint(w) \/ RecordOnly(w) \/ LoadDevice(w)
             \/ MarkHistoryStarted(w) \/ StoreFails(w)
      PROVE  SInv'
  BY <1>1, <1>5, ProgressStep DEF SInv
<1>6. ASSUME NEW w \in Worker, Insert(w) PROVE SInv'
  BY <1>1, <1>6, InsertStep DEF SInv
<1>7. ASSUME NEW p \in Point, CleanupDrop(p) PROVE SInv'
  BY <1>1, <1>7, DropStep DEF SInv
<1>8. CASE Restart
  BY <1>1, <1>8, RestartStep DEF SInv
<1>. QED BY <1>2, <1>3, <1>4, <1>5, <1>6, <1>7, <1>8, StoreFrame

\* Within one life of the process the rows of a point are an interval apart, in
\* every reachable state: the check and the claim in the critical section of
\* collect are enough, whatever workers, edits and clean-ups interleave.
THEOREM HistoryIsSpaced == Spec => []HistorySpacing
<1>1. SInv => HistorySpacing
  BY DEF SInv
<1>. QED BY SInvInit, SInvStep, <1>1, PTL DEF Spec

-----------------------------------------------------------------------------
\* A worker about to insert has marked its point.
MarkedBeforeInsert == \A w \in Worker : wPc[w] = "insert" => started[wPoint[w]]

MInv == MarkedBeforeInsert /\ StartedBeforeRows

LEMMA MInvStep == SInv /\ MInv /\ [Next]_vars => MInv'
<1>. SUFFICES ASSUME SInv, MInv, [Next]_vars PROVE MInv'
  OBVIOUS
<1>1. CASE UNCHANGED storeVars
  BY <1>1 DEF storeVars, MInv, MarkedBeforeInsert, StartedBeforeRows
<1>2. ASSUME NEW w \in Worker,
             \/ TakeJob(w) \/ ReadPoint(w) \/ RecordOnly(w) \/ RecordAndStore(w)
             \/ LoadDevice(w) \/ StoreFails(w)
      PROVE  MInv'
  <2>1. UNCHANGED <<rows, started>>
    BY <1>2 DEF TakeJob, ReadPoint, RecordOnly, RecordAndStore, LoadDevice, StoreFails
  <2>2. \A v \in Worker : wPc'[v] = "insert" => wPc[v] = "insert" /\ wPoint'[v] = wPoint[v]
    BY <1>2 DEF TakeJob, ReadPoint, RecordOnly, RecordAndStore, LoadDevice, StoreFails,
       Finish, workVars, SInv, StoreTypes
  <2>. QED BY <2>1, <2>2 DEF MInv, MarkedBeforeInsert, StartedBeforeRows
<1>3. ASSUME NEW w \in Worker, MarkHistoryStarted(w) PROVE MInv'
  <2>1. /\ wPc' = [wPc EXCEPT ![w] = "insert"]
        /\ started' = [started EXCEPT ![wPoint[w]] = TRUE]
        /\ UNCHANGED <<wPoint, rows>>
    BY <1>3 DEF MarkHistoryStarted
  <2>2. wPoint[w] \in Point
    BY <1>3 DEF MarkHistoryStarted, SInv, WorkerShape
  <2>3. \A p \in Point : started[p] => started'[p]
    BY <2>1, <2>2 DEF SInv, StoreTypes
  <2>4. MarkedBeforeInsert'
    BY <2>1, <2>2, <2>3 DEF SInv, StoreTypes, WorkerShape, MInv, MarkedBeforeInsert
  <2>. QED BY <2>1, <2>3, <2>4 DEF MInv, StartedBeforeRows
<1>4. ASSUME NEW w \in Worker, Insert(w) PROVE MInv'
  <2>1. /\ rows' = [rows EXCEPT ![wPoint[w]] = @ \cup {[ts |-> wNow[w], run |-> run]}]
        /\ wPc' = [wPc EXCEPT ![w] = "idle"]
        /\ wPoint' = [wPoint EXCEPT ![w] = 0]
        /\ UNCHANGED started
    BY <1>4 DEF Insert, Finish
  <2>2. started[wPoint[w]]
    BY <1>4 DEF Insert, MInv, MarkedBeforeInsert
  <2>3. MarkedBeforeInsert'
    BY <2>1 DEF SInv, StoreTypes, MInv, MarkedBeforeInsert
  <2>4. StartedBeforeRows'
    BY <2>1, <2>2 DEF SInv, StoreTypes, MInv, StartedBeforeRows
  <2>. QED BY <2>3, <2>4 DEF MInv
<1>5. ASSUME NEW p \in Point, CleanupDrop(p) PROVE MInv'
  BY <1>5 DEF CleanupDrop, workVars, SInv, StoreTypes, MInv, MarkedBeforeInsert,
     StartedBeforeRows
<1>6. CASE Restart
  BY <1>6 DEF Restart, MInv, MarkedBeforeInsert, StartedBeforeRows
<1>. QED BY <1>1, <1>2, <1>3, <1>4, <1>5, <1>6, StoreFrame

\* A point with rows has its history_started_at: the mark comes first in collect
\* and is never taken back.
THEOREM RowsImplyStarted == Spec => []StartedBeforeRows
<1>1. Init => MInv
  BY DEF Init, Fresh, MInv, MarkedBeforeInsert, StartedBeforeRows
<1>2. MInv => StartedBeforeRows
  BY DEF MInv
<1>. QED BY SInvInit, SInvStep, MInvStep, <1>1, <1>2, PTL DEF Spec

-----------------------------------------------------------------------------
(* Type correctness: what StoreTypes and JobTypes leave out.               *)

SchedTypes ==
  /\ tick \in Time \cup {Never}
  /\ sPc \in {"wait", "list", "scan"}
  /\ sNow \in Time
  /\ snap \in [Point -> View]
  /\ pos \in 1..(NPoint + 1)
  /\ last \in [Point -> Time \cup {Never}]

RowTypes ==
  /\ enabled \in [Point -> BOOLEAN]
  /\ store   \in [Point -> BOOLEAN]
  /\ deleted \in [Point -> BOOLEAN]
  /\ goneAt  \in [Point -> Time \cup {Never}]
  /\ devEnabled \in [Device -> BOOLEAN]
  /\ devDeleted \in [Device -> BOOLEAN]
  /\ cleaning \subseteq Point

RestTypes ==
  /\ Len(jobs) <= QueueCap
  /\ latest \in [Point -> Time \cup {Never}]
  /\ wStore \in [Worker -> BOOLEAN]

LEMMA ZeroIsATime == 0 \in Time /\ Time \subseteq Int /\ Point \subseteq Int
BY CollectorAssumption DEF CollectorAssumption, Time, Point

LEMMA SchedTypesStep ==
  ASSUME SchedTypes, JobTypes, [Next]_vars
  PROVE  SchedTypes'
<1>1. CASE Second
  <2>1. clock + 1 \in Time
    BY <1>1, CollectorAssumption DEF CollectorAssumption, Second, JobTypes, Time
  <2>. QED BY <1>1, <2>1 DEF Second, SchedTypes, schedVars
<1>2. CASE ListPoints
  <2>1. \A p \in Point : ViewOf(p) \in View
    BY DEF ViewOf, View
  <2>. QED BY <1>2, <2>1, CollectorAssumption DEF CollectorAssumption, ListPoints, SchedTypes,
              clockVars
<1>3. CASE ReceiveTick \/ ListFails
  BY <1>3 DEF ReceiveTick, ListFails, SchedTypes, clockVars
<1>4. CASE SkipPoint \/ Dispatch \/ DropJob
  <2>1. pos \in Point /\ pos' = pos + 1 /\ UNCHANGED <<tick, sPc, sNow, snap>>
    BY <1>4 DEF SkipPoint, Dispatch, DropJob, clockVars
  <2>2. pos' \in 1..(NPoint + 1)
    BY <2>1, CollectorAssumption DEF CollectorAssumption, Point
  <2>3. last' = last \/ last' = [last EXCEPT ![pos] = sNow]
    BY <1>4 DEF SkipPoint, Dispatch, DropJob
  <2>. QED BY <2>1, <2>2, <2>3 DEF SchedTypes
<1>5. CASE ScanDone \/ Restart
  <2>1. 1 \in 1..(NPoint + 1) /\ "absent" \in View
    BY CollectorAssumption DEF CollectorAssumption, View
  <2>. QED BY <1>5, <2>1, ZeroIsATime DEF ScanDone, Restart, SchedTypes, clockVars
<1>6. CASE UNCHANGED <<tick, schedVars>>
  BY <1>6 DEF SchedTypes, schedVars
<1>7. \/ Second \/ ReceiveTick \/ ListPoints \/ ListFails \/ SkipPoint \/ Dispatch
      \/ DropJob \/ ScanDone \/ Restart \/ UNCHANGED <<tick, schedVars>>
  BY DEF Next, Schedule, Work, Edit, Cleanup, TakeJob, ReadPoint, RecordOnly, RecordAndStore,
     LoadDevice, MarkHistoryStarted, Insert, StoreFails, SwitchPoint, SwitchStore,
     DeletePoint, SwitchDevice, DeleteDevice, CleanupList, CleanupDrop, CleanupSkip,
     CleanupFails, vars, clockVars, schedVars
<1>. QED BY <1>1, <1>2, <1>3, <1>4, <1>5, <1>6, <1>7

\* Which steps touch the rows in PostgreSQL, and the clean-up.
LEMMA RowFrame ==
  ASSUME [Next]_vars
  PROVE  \/ UNCHANGED <<pointVars, deviceVars, cleaning>>
         \/ Restart \/ CleanupList \/ CleanupFails
         \/ \E p \in Point : CleanupDrop(p) \/ CleanupSkip(p)
         \/ \E p \in Point : SwitchPoint(p) \/ SwitchStore(p) \/ DeletePoint(p)
         \/ \E d \in Device : SwitchDevice(d) \/ DeleteDevice(d)
BY DEF Next, Schedule, Work, Edit, Cleanup, Second, ReceiveTick, ListPoints, ListFails,
   SkipPoint, Dispatch, DropJob, ScanDone, TakeJob, ReadPoint, RecordOnly, RecordAndStore,
   LoadDevice, MarkHistoryStarted, Insert, StoreFails, vars

LEMMA RowTypesStep ==
  ASSUME RowTypes, JobTypes, [Next]_vars
  PROVE  RowTypes'
<1>1. CASE UNCHANGED <<pointVars, deviceVars, cleaning>>
  BY <1>1 DEF RowTypes, pointVars, deviceVars
<1>2. CASE Restart \/ CleanupList \/ CleanupFails \/ \E p \in Point : CleanupDrop(p) \/ CleanupSkip(p)
  BY <1>2 DEF Restart, CleanupList, CleanupCandidates, CleanupFails, CleanupDrop, CleanupSkip,
     RowTypes, pointVars, deviceVars
<1>3. ASSUME NEW p \in Point, SwitchPoint(p) \/ SwitchStore(p) \/ DeletePoint(p)
      PROVE  RowTypes'
  BY <1>3 DEF SwitchPoint, SwitchStore, DeletePoint, RowTypes, JobTypes, deviceVars
<1>4. ASSUME NEW d \in Device, SwitchDevice(d)
      PROVE  RowTypes'
  BY <1>4 DEF SwitchDevice, RowTypes, pointVars
<1>5. ASSUME NEW d \in Device, DeleteDevice(d)
      PROVE  RowTypes'
  <2>1. /\ devDeleted' = [devDeleted EXCEPT ![d] = TRUE]
        /\ devEnabled' = [devEnabled EXCEPT ![d] = FALSE]
        /\ UNCHANGED <<store, cleaning>>
    BY <1>5 DEF DeleteDevice
  <2>2. \A p \in Point : /\ (deleted[p] \/ DeviceOf[p] = d) \in BOOLEAN
                         /\ (enabled[p] /\ DeviceOf[p] # d) \in BOOLEAN
    BY Zenon
  <2>3. deleted' \in [Point -> BOOLEAN] /\ enabled' \in [Point -> BOOLEAN]
    BY <1>5, <2>2 DEF DeleteDevice
  <2>4. goneAt' = [p \in Point |-> IF deleted'[p] /\ ~deleted[p] THEN clock ELSE goneAt[p]]
    BY <1>5 DEF DeleteDevice
  <2>5. goneAt' \in [Point -> Time \cup {Never}]
    BY <2>4 DEF RowTypes, JobTypes
  <2>. QED BY <2>1, <2>3, <2>5 DEF RowTypes
<1>. QED BY <1>1, <1>2, <1>3, <1>4, <1>5, RowFrame

LEMMA RestTypesStep ==
  ASSUME SInv, RestTypes, [Next]_vars
  PROVE  RestTypes'
<1>1. CASE Dispatch
  <2>1. Len(jobs) # QueueCap /\ jobs' = Append(jobs, [point |-> pos, store |-> snap[pos] = "stored"])
    BY <1>1 DEF Dispatch, Full
  <2>2. Len(jobs') = Len(jobs) + 1 /\ Len(jobs) \in Nat
    BY <2>1 DEF SInv, JobTypes
  <2>3. Len(jobs') <= QueueCap
    BY <2>1, <2>2, CollectorAssumption DEF CollectorAssumption, RestTypes
  <2>. QED BY <1>1, <2>3 DEF Dispatch, RestTypes, engineVars, workVars
<1>2. ASSUME NEW w \in Worker, TakeJob(w) PROVE RestTypes'
  <2>1. jobs \in Seq(Job) /\ jobs # << >>
    BY <1>2 DEF TakeJob, SInv, JobTypes
  <2>2. Head(jobs) \in Job /\ Len(Tail(jobs)) = Len(jobs) - 1 /\ Len(jobs) \in Nat
    BY <2>1
  <2>3. Head(jobs).store \in BOOLEAN
    BY <2>2 DEF Job
  <2>4. Len(jobs') <= QueueCap
    BY <1>2, <2>2, CollectorAssumption DEF CollectorAssumption, TakeJob, RestTypes
  <2>5. latest' = latest /\ wStore' = [wStore EXCEPT ![w] = Head(jobs).store]
    BY <1>2 DEF TakeJob, engineVars
  <2>. QED BY <2>3, <2>4, <2>5 DEF RestTypes
<1>3. ASSUME NEW w \in Worker, RecordOnly(w) \/ RecordAndStore(w) PROVE RestTypes'
  BY ZenonT(60), <1>3 DEF RecordOnly, RecordAndStore, Finish, RestTypes, SInv, StoreTypes, engineVars
<1>4. ASSUME NEW w \in Worker, Insert(w) \/ StoreFails(w) PROVE RestTypes'
  BY <1>4 DEF Insert, StoreFails, Finish, RestTypes, engineVars
<1>5. CASE Restart
  <2>1. Len(<< >>) <= QueueCap
    BY CollectorAssumption DEF CollectorAssumption
  <2>. QED BY <1>5, <2>1 DEF Restart, RestTypes
<1>6. CASE UNCHANGED <<jobs, latest, wStore>>
  BY <1>6 DEF RestTypes
<1>7. \/ Dispatch \/ Restart \/ UNCHANGED <<jobs, latest, wStore>>
      \/ \E w \in Worker : \/ TakeJob(w) \/ RecordOnly(w) \/ RecordAndStore(w)
                           \/ Insert(w) \/ StoreFails(w)
  BY DEF Next, Schedule, Work, Edit, Cleanup, Second, ReceiveTick, ListPoints, ListFails,
     SkipPoint, DropJob, ScanDone, ReadPoint, LoadDevice, MarkHistoryStarted, SwitchPoint,
     SwitchStore, DeletePoint, SwitchDevice, DeleteDevice, CleanupList, CleanupDrop,
     CleanupSkip, CleanupFails, vars, engineVars, workVars
<1>. QED BY <1>1, <1>2, <1>3, <1>4, <1>5, <1>6, <1>7

TInv == SInv /\ SchedTypes /\ RowTypes /\ RestTypes

LEMMA TInvInit == Init => TInv
<1>. SUFFICES ASSUME Init PROVE TInv
  OBVIOUS
<1>1. 1 \in 1..(NPoint + 1) /\ "absent" \in View
  BY CollectorAssumption DEF CollectorAssumption, View
<1>2. Len(jobs) <= QueueCap
  BY CollectorAssumption DEF CollectorAssumption, Init, Fresh
<1>3. SchedTypes
  BY <1>1, ZeroIsATime DEF Init, Fresh, SchedTypes
<1>4. RowTypes
  BY DEF Init, Fresh, RowTypes
<1>5. RestTypes
  BY <1>2 DEF Init, Fresh, RestTypes
<1>. QED BY <1>3, <1>4, <1>5, SInvInit DEF TInv

LEMMA TInvStep == TInv /\ [Next]_vars => TInv'
BY SInvStep, SchedTypesStep, RowTypesStep, RestTypesStep DEF TInv, SInv

LEMMA AlwaysTyped == Spec => []TInv
BY TInvInit, TInvStep, PTL DEF Spec

\* Every reachable state is well typed; in particular the queue never holds more
\* jobs than the channel has room for, for any capacity.
THEOREM TypeCorrect == Spec => []TypeOK
<1>1. TInv => TypeOK
  BY DEF TInv, SInv, StoreTypes, JobTypes, SchedTypes, RowTypes, RestTypes, TypeOK
<1>. QED BY <1>1, AlwaysTyped, PTL

-----------------------------------------------------------------------------
(* The clean-up and the end of collection.                                 *)

\* What is being cleaned up was gone when the list was read, and stays gone.
CleanInv == cleaning \subseteq {p \in Point : Gone(p)}

\* A deletion is never taken back.
LEMMA GoneStays ==
  ASSUME TInv, [Next]_vars
  PROVE  \A p \in Point : Gone(p) => Gone(p)'
<1>1. ASSUME NEW q \in Point, SwitchPoint(q) \/ SwitchStore(q) \/ DeletePoint(q)
      PROVE  \A p \in Point : Gone(p) => Gone(p)'
  BY <1>1 DEF SwitchPoint, SwitchStore, DeletePoint, Gone, TInv, RowTypes, deviceVars
<1>2. ASSUME NEW d \in Device, SwitchDevice(d) \/ DeleteDevice(d)
      PROVE  \A p \in Point : Gone(p) => Gone(p)'
  <2>1. \A e \in Device : devDeleted[e] => devDeleted'[e]
    BY <1>2 DEF SwitchDevice, DeleteDevice, TInv, RowTypes
  <2>2. \A p \in Point : deleted[p] => deleted'[p]
    BY <1>2 DEF SwitchDevice, DeleteDevice, pointVars
  <2>. QED BY <2>1, <2>2, CollectorAssumption DEF CollectorAssumption, Gone
<1>3. CASE UNCHANGED <<deleted, devDeleted>>
  BY <1>3 DEF Gone
<1>. QED BY <1>1, <1>2, <1>3, RowFrame DEF Restart, CleanupList, CleanupFails, CleanupDrop,
            CleanupSkip, pointVars, deviceVars

LEMMA CleanInvStep == TInv /\ CleanInv /\ [Next]_vars => CleanInv'
<1>. SUFFICES ASSUME TInv, CleanInv, [Next]_vars PROVE CleanInv'
  OBVIOUS
<1>1. \A p \in Point : Gone(p) => Gone(p)'
  BY GoneStays
<1>2. cleaning' \subseteq cleaning \cup {p \in Point : Gone(p)}
  BY RowFrame DEF Restart, CleanupList, CleanupCandidates, CleanupFails, CleanupDrop,
     CleanupSkip, SwitchPoint, SwitchStore, DeletePoint, SwitchDevice, DeleteDevice
<1>. QED BY <1>1, <1>2 DEF CleanInv

\* History is only ever dropped of a point that is deleted, or whose device is, however
\* edits, inserts and restarts interleave with the clean-up (CleanupOnlyDeleted).
THEOREM OnlyDeletedIsCleaned == Spec => CleanupOnlyDeleted
<1>1. Init => CleanInv
  BY DEF Init, Fresh, CleanInv
<1>2. ASSUME TInv, CleanInv, [Next]_vars, NEW p \in Point, rows[p] # {}, rows'[p] = {}
      PROVE  Gone(p)
  <2>1. ASSUME NEW w \in Worker, Insert(w) PROVE FALSE
    BY <1>2, <2>1 DEF Insert, TInv, SInv, StoreTypes
  <2>2. ASSUME NEW q \in Point, CleanupDrop(q) PROVE Gone(p)
    BY <1>2, <2>2 DEF CleanupDrop, CleanInv, TInv, SInv, StoreTypes
  <2>3. rows' # rows
    BY <1>2
  <2>. QED BY <1>2, <2>1, <2>2, <2>3, StoreFrame DEF TakeJob, ReadPoint, RecordOnly,
              RecordAndStore, LoadDevice, MarkHistoryStarted, StoreFails, Restart, storeVars
<1>3. TInv /\ CleanInv /\ [Next]_vars
        => [\A p \in Point : rows[p] # {} /\ rows'[p] = {} => Gone(p)]_vars
  BY <1>2
<1>. QED BY <1>1, <1>3, CleanInvStep, AlwaysTyped, PTL DEF Spec, CleanupOnlyDeleted

\* A scan that still knows a deleted point read its list before the deletion.
ScanInv ==
  /\ sNow <= clock /\ tick <= clock
  /\ sPc = "scan" => \A p \in Point : deleted[p] /\ snap[p] # "absent" => sNow <= goneAt[p]

LEMMA ScanInvStep == TInv /\ ScanInv /\ [Next]_vars => ScanInv'
<1>. SUFFICES ASSUME TInv, ScanInv, [Next]_vars PROVE ScanInv'
  OBVIOUS
<1>. DEFINE Times == sNow \in Int /\ clock \in Int /\ tick \in Int
<1>1. Times /\ clock >= 0
  BY ZeroIsATime DEF TInv, SInv, JobTypes, SchedTypes, Time, Never
<1>2. CASE Second
  BY <1>1, <1>2 DEF Second, ScanInv, schedVars, pointVars
<1>3. CASE ReceiveTick
  BY <1>1, <1>3 DEF ReceiveTick, ScanInv, Never
<1>4. CASE ListPoints
  BY <1>1, <1>4 DEF ListPoints, ScanInv, ViewOf, Listed, Listable, clockVars, pointVars
<1>5. CASE ListFails \/ SkipPoint \/ Dispatch \/ DropJob \/ ScanDone
  BY <1>1, <1>5 DEF ListFails, SkipPoint, Dispatch, DropJob, ScanDone, ScanInv, clockVars,
                    pointVars
<1>6. ASSUME NEW q \in Point, SwitchPoint(q) \/ SwitchStore(q) PROVE ScanInv'
  BY <1>1, <1>6 DEF SwitchPoint, SwitchStore, ScanInv, clockVars, schedVars
<1>7. ASSUME NEW q \in Point, DeletePoint(q) PROVE ScanInv'
  BY <1>1, <1>7 DEF DeletePoint, ScanInv, clockVars, schedVars, TInv, RowTypes
<1>8. ASSUME NEW d \in Device, SwitchDevice(d) PROVE ScanInv'
  BY <1>1, <1>8 DEF SwitchDevice, ScanInv, clockVars, schedVars, pointVars
<1>9. ASSUME NEW d \in Device, DeleteDevice(d) PROVE ScanInv'
  <2>1. \A p \in Point : goneAt'[p] = IF deleted'[p] /\ ~deleted[p] THEN clock ELSE goneAt[p]
    BY <1>9 DEF DeleteDevice
  <2>2. UNCHANGED <<clock, tick, sNow, sPc, snap>>
    BY <1>9 DEF DeleteDevice, clockVars, schedVars
  <2>. QED BY <1>1, <2>1, <2>2 DEF ScanInv
<1>10. CASE Restart
  BY <1>1, <1>10 DEF Restart, ScanInv, Never
<1>11. CASE UNCHANGED <<clockVars, schedVars, pointVars>>
  BY <1>11 DEF ScanInv, clockVars, schedVars, pointVars
<1>12. \/ Second \/ ReceiveTick \/ ListPoints \/ ListFails \/ SkipPoint \/ Dispatch
       \/ DropJob \/ ScanDone \/ Restart \/ UNCHANGED <<clockVars, schedVars, pointVars>>
       \/ \E q \in Point : SwitchPoint(q) \/ SwitchStore(q) \/ DeletePoint(q)
       \/ \E d \in Device : SwitchDevice(d) \/ DeleteDevice(d)
  BY DEF Next, Schedule, Work, Edit, Cleanup, TakeJob, ReadPoint, RecordOnly, RecordAndStore,
     LoadDevice, MarkHistoryStarted, Insert, StoreFails, CleanupList, CleanupDrop,
     CleanupSkip, CleanupFails, vars
<1>. QED BY <1>2, <1>3, <1>4, <1>5, <1>6, <1>7, <1>8, <1>9, <1>10, <1>11, <1>12

\* A deleted point is offered only by a scan of a tick no later than the deletion
\* (DeletedStopsWithinScan).
THEOREM DeletedPointsAreDropped == Spec => DeletedStopsWithinScan
<1>1. Init => ScanInv
  BY ZeroIsATime DEF Init, Fresh, ScanInv, Never
<1>2. ASSUME TInv, ScanInv, [Next]_vars, NEW p \in Point, Offered(p), deleted[p]
      PROVE  sNow <= goneAt[p]
  <2>1. jobs \in Seq(Job) /\ Len(jobs) \in Nat /\ Len(jobs') = Len(jobs) + 1
    BY <1>2 DEF TInv, SInv, JobTypes, Offered
  <2>2. ASSUME NEW w \in Worker, TakeJob(w) PROVE FALSE
    BY <2>1, <2>2 DEF TakeJob
  <2>3. ~Restart
    BY <2>1 DEF Restart
  <2>4. jobs' # jobs /\ ~Second
    BY <2>1 DEF Second
  <2>5. Dispatch
    BY <1>2, <2>2, <2>3, <2>4, JobFrame
  <2>6. pos = p
    BY <1>2, <2>1, <2>5 DEF Dispatch, Offered
  <2>. QED BY <1>2, <2>5, <2>6 DEF Dispatch, Wanted, ScanInv
<1>3. TInv /\ ScanInv /\ [Next]_vars
        => [\A p \in Point : Offered(p) /\ deleted[p] => sNow <= goneAt[p]]_vars
  BY <1>2
<1>. QED BY <1>1, <1>3, ScanInvStep, AlwaysTyped, PTL DEF Spec, DeletedStopsWithinScan

-----------------------------------------------------------------------------
(* The engine implements PointArchive.                                     *)

\* What the refinement rests on: claims that are apart from the rows, marks that
\* are made before the row, and a clean-up that only visits deleted points.
AInv == TInv /\ MInv /\ CleanInv

LEMMA AInvInit == Init => AInv
<1>1. Init => MInv
  BY DEF Init, Fresh, MInv, MarkedBeforeInsert, StartedBeforeRows
<1>2. Init => CleanInv
  BY DEF Init, Fresh, CleanInv
<1>. QED BY <1>1, <1>2, TInvInit DEF AInv

LEMMA AInvStep == AInv /\ [Next]_vars => AInv'
BY TInvStep, MInvStep, CleanInvStep DEF AInv, TInv

\* Which steps the readers of history can notice, and what else those leave alone.
LEMMA ArchiveFrame ==
  ASSUME [Next]_vars
  PROVE  \/ UNCHANGED <<started, rows, run>>
         \/ /\ UNCHANGED <<deleted, devDeleted>>
            /\ \/ \E w \in Worker : MarkHistoryStarted(w) \/ Insert(w)
               \/ \E p \in Point : CleanupDrop(p)
               \/ Restart
<1>1. ASSUME NEW w \in Worker,
             \/ TakeJob(w) \/ ReadPoint(w) \/ RecordOnly(w) \/ RecordAndStore(w)
             \/ LoadDevice(w) \/ StoreFails(w)
      PROVE  UNCHANGED <<started, rows, run>>
  BY <1>1 DEF TakeJob, ReadPoint, RecordOnly, RecordAndStore, LoadDevice, StoreFails
<1>2. ASSUME NEW w \in Worker, MarkHistoryStarted(w) \/ Insert(w)
      PROVE  UNCHANGED <<deleted, devDeleted>>
  BY <1>2 DEF MarkHistoryStarted, Insert, pointVars, deviceVars
<1>3. ASSUME NEW p \in Point, CleanupDrop(p) PROVE UNCHANGED <<deleted, devDeleted>>
  BY <1>3 DEF CleanupDrop, pointVars, deviceVars
<1>4. ASSUME Restart PROVE UNCHANGED <<deleted, devDeleted>>
  BY <1>4 DEF Restart, pointVars, deviceVars
<1>. QED BY <1>1, <1>2, <1>3, <1>4, StoreFrame DEF storeVars

LEMMA ArchiveInit == Init => Archive!Init
<1>. SUFFICES ASSUME Init PROVE Archive!Init
  OBVIOUS
<1>1. \A p \in Point : ~Gone(p)
  BY CollectorAssumption DEF CollectorAssumption, Init, Gone
<1>2. [p \in Point |-> Gone(p)] = [p \in Point |-> FALSE]
  BY <1>1 DEF Gone
<1>. QED BY <1>2 DEF Init, Archive!Init

\* The row a worker writes is marked and keeps its distance.
LEMMA InsertRecords ==
  ASSUME AInv, NEW w \in Worker, Insert(w), UNCHANGED <<deleted, devDeleted>>
  PROVE  Archive!Record(wPoint[w], wNow[w]) /\ wPoint[w] \in Point /\ wNow[w] \in Time
<1>. DEFINE p == wPoint[w]
            t == wNow[w]
<1>1. wPc[w] = "insert" /\ rows' = [rows EXCEPT ![p] = @ \cup {[ts |-> t, run |-> run]}]
      /\ UNCHANGED <<started, run>>
  BY DEF Insert
<1>2. p \in Point /\ t \in Time /\ Pending(w)
  BY <1>1 DEF AInv, TInv, SInv, StoreTypes, WorkerShape, Pending
<1>3. started[p]
  BY <1>1 DEF AInv, MInv, MarkedBeforeInsert
<1>4. \A r \in rows[p] : r.run = run => Apart(t, r.ts, p)
  BY <1>2 DEF AInv, TInv, SInv, ClaimSpacing
<1>5. Archive!Spaced(p, t)
  BY <1>4 DEF Archive!Spaced, Apart
<1>6. [q \in Point |-> Gone(q)]' = [q \in Point |-> Gone(q)]
  BY DEF Gone
<1>. QED BY <1>1, <1>2, <1>3, <1>5, <1>6 DEF Archive!Record

LEMMA ArchiveStep == AInv /\ [Next]_vars => [Archive!Next]_(Archive!vars)
<1>. SUFFICES ASSUME AInv, [Next]_vars PROVE Archive!Next \/ UNCHANGED Archive!vars
  OBVIOUS
<1>. DEFINE G == [p \in Point |-> Gone(p)]
<1>1. CASE UNCHANGED <<started, rows, run>>
  <2>. DEFINE P == {p \in Point : Gone(p)'}
  <2>1. G' = [p \in Point |-> Gone(p)']
    OBVIOUS
  <2>2. \A p \in Point : Gone(p)' <=> G[p] \/ p \in P
    BY GoneStays DEF AInv
  <2>3. G' = [p \in Point |-> G[p] \/ p \in P]
    BY <2>1, <2>2 DEF Gone
  <2>4. Archive!Retire(P) /\ P \in SUBSET Point
    BY <1>1, <2>3 DEF Archive!Retire
  <2>. QED BY <2>4 DEF Archive!Next
<1>2. ASSUME UNCHANGED <<deleted, devDeleted>> PROVE G' = G
  BY <1>2 DEF Gone
<1>3. ASSUME NEW w \in Worker, MarkHistoryStarted(w), UNCHANGED <<deleted, devDeleted>>
      PROVE  Archive!Next
  <2>1. wPoint[w] \in Point
    BY <1>3 DEF MarkHistoryStarted, AInv, TInv, SInv, WorkerShape
  <2>2. Archive!Start(wPoint[w])
    BY <1>2, <1>3 DEF MarkHistoryStarted, Archive!Start
  <2>. QED BY <2>1, <2>2 DEF Archive!Next
<1>4. ASSUME NEW w \in Worker, Insert(w), UNCHANGED <<deleted, devDeleted>>
      PROVE  Archive!Next
  BY <1>4, InsertRecords DEF Archive!Next
<1>5. ASSUME NEW p \in Point, CleanupDrop(p), UNCHANGED <<deleted, devDeleted>>
      PROVE  Archive!Next
  <2>1. Gone(p)
    BY <1>5 DEF CleanupDrop, AInv, CleanInv
  <2>2. Archive!Drop(p)
    BY <1>2, <1>5, <2>1 DEF CleanupDrop, Archive!Drop
  <2>. QED BY <2>2 DEF Archive!Next
<1>6. ASSUME Restart, UNCHANGED <<deleted, devDeleted>> PROVE Archive!Next
  <2>1. Archive!Restart
    BY <1>2, <1>6 DEF Restart, Archive!Restart
  <2>. QED BY <2>1 DEF Archive!Next
<1>. QED BY <1>1, <1>3, <1>4, <1>5, <1>6, ArchiveFrame

\* For any points, workers, intervals and restarts, what the engine, the edits and
\* the clean-up do to the marks and rows of history is what PointArchive allows
\* (ImplementsArchive).
THEOREM EngineImplementsArchive == Spec => ImplementsArchive
BY AInvInit, AInvStep, ArchiveInit, ArchiveStep, PTL DEF Spec, ImplementsArchive, Archive!Spec

=============================================================================
