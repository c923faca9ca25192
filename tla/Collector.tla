----------------------------- MODULE Collector -----------------------------
(***************************************************************************)
(* The collection engine (internal/engine/collector/engine.go): a          *)
(* scheduler that lists the points once a second and offers the due ones   *)
(* to a bounded queue, workers that read a point, publish the value and    *)
(* store a history row when the interval is over, and what happens around  *)
(* them: edits of points and devices, the clean-up of archived history     *)
(* (service/platform/history.go, CleanupDeletedArchives) and restarts.     *)
(*                                                                         *)
(* The clock counts seconds; a step between two ticks of it takes no time. *)
(* A read of the device is one step with two outcomes: ConnManager says    *)
(* how the connection for it is found.                                     *)
(***************************************************************************)
EXTENDS Integers, Sequences, FiniteSets

CONSTANTS
  NPoint,           \* points are 1..NPoint, in the order ListPoints returns them
  Device,           \* device identifiers
  DeviceOf,         \* the device of each point
  Worker,           \* CollectorWorkers goroutines
  QueueCap,         \* capacity of Engine.jobs
  ListLimit,        \* the LIMIT of ListPoints
  CollectInterval,  \* collect_interval of each point, in seconds
  HistoryInterval,  \* history_interval of each point, in seconds
  MaxTime,          \* bound: the clock
  MaxRun            \* bound: restarts of the process

Point == 1..NPoint
Time  == 0..MaxTime
Never == -1         \* the zero time.Time

ASSUME CollectorAssumption ==
  /\ NPoint \in Nat
  /\ DeviceOf \in [Point -> Device]
  /\ QueueCap \in Nat \ {0}
  /\ ListLimit \in Nat
  /\ CollectInterval \in [Point -> Nat \ {0}]
  /\ HistoryInterval \in [Point -> Nat \ {0}]
  /\ MaxTime \in Nat
  /\ MaxRun \in Nat

VARIABLES
  clock, tick,                      \* time; the ticker's channel of one element
  enabled, store, deleted, started, \* collection_points: enabled, store_history,
                                    \* deleted, history_started_at # NULL
  devEnabled, devDeleted,           \* devices: enabled, deleted
  sPc, sNow, snap, pos, last,       \* schedule: now, points, loop index, last
  jobs,                             \* Engine.jobs
  latest, lastHistory,              \* Engine.latest (its ts), .lastHistory
  wPc, wPoint, wStore, wNow,        \* collect: p.ID, p.StoreHistory, now
  rows,                             \* TDengine: the rows of each point's table
  cleaning,                         \* tables DropTables still has to visit
  run,                              \* which life of the process this is
  goneAt                            \* history: when the point was deleted

clockVars == <<clock, tick>>
pointVars == <<enabled, store, deleted, goneAt>>
deviceVars == <<devEnabled, devDeleted>>
schedVars == <<sPc, sNow, snap, pos, last>>
engineVars == <<latest, lastHistory>>
workVars == <<wPc, wPoint, wStore, wNow>>
vars == <<clockVars, pointVars, started, deviceVars, schedVars, jobs, engineVars,
          workVars, rows, cleaning, run>>

\* How a point appears in the scheduler's list of points.
View == {"absent", "disabled", "live", "stored"}
Job  == [point : Point, store : BOOLEAN]
Row  == [ts : Time, run : 0..MaxRun]

TypeOK ==
  /\ clock \in Time /\ tick \in Time \cup {Never}
  /\ enabled \in [Point -> BOOLEAN]
  /\ store   \in [Point -> BOOLEAN]
  /\ deleted \in [Point -> BOOLEAN]
  /\ started \in [Point -> BOOLEAN]
  /\ devEnabled \in [Device -> BOOLEAN]
  /\ devDeleted \in [Device -> BOOLEAN]
  /\ sPc \in {"wait", "list", "scan"}
  /\ sNow \in Time
  /\ snap \in [Point -> View]
  /\ pos \in 1..(NPoint + 1)
  /\ last \in [Point -> Time \cup {Never}]
  /\ jobs \in Seq(Job) /\ Len(jobs) <= QueueCap
  /\ latest      \in [Point -> Time \cup {Never}]
  /\ lastHistory \in [Point -> Time \cup {Never}]
  /\ wPc    \in [Worker -> {"idle", "read", "record", "device", "mark", "insert"}]
  /\ wPoint \in [Worker -> Point \cup {0}]
  /\ wStore \in [Worker -> BOOLEAN]
  /\ wNow   \in [Worker -> Time]
  /\ rows \in [Point -> SUBSET Row]
  /\ cleaning \subseteq Point
  /\ run \in 0..MaxRun
  /\ goneAt \in [Point -> Time \cup {Never}]

\* A fresh process: NewEngine and the locals of its goroutines.
Fresh ==
  /\ sPc = "wait" /\ sNow = 0 /\ pos = 1
  /\ snap = [p \in Point |-> "absent"]
  /\ last = [p \in Point |-> Never]
  /\ jobs = <<>>
  /\ latest      = [p \in Point |-> Never]
  /\ lastHistory = [p \in Point |-> Never]
  /\ wPc    = [w \in Worker |-> "idle"]
  /\ wPoint = [w \in Worker |-> 0]
  /\ wStore = [w \in Worker |-> FALSE]
  /\ wNow   = [w \in Worker |-> 0]
  /\ cleaning = {}

Init ==
  /\ clock = 0 /\ tick = Never
  /\ enabled \in [Point -> BOOLEAN]
  /\ store   \in [Point -> BOOLEAN]
  /\ deleted = [p \in Point |-> FALSE]
  /\ started = [p \in Point |-> FALSE]
  /\ devEnabled \in [Device -> BOOLEAN]
  /\ devDeleted = [d \in Device |-> FALSE]
  /\ Fresh
  /\ rows = [p \in Point |-> {}]
  /\ run = 0
  /\ goneAt = [p \in Point |-> Never]

-----------------------------------------------------------------------------
(* Time.                                                                   *)

\* A second passes.  A time.Ticker has room for one tick and drops the rest.
Second ==
  /\ clock < MaxTime
  /\ clock' = clock + 1
  /\ tick'  = IF tick = Never THEN clock + 1 ELSE tick
  /\ UNCHANGED <<pointVars, started, deviceVars, schedVars, jobs, engineVars, workVars,
                 rows, cleaning, run>>

-----------------------------------------------------------------------------
(* schedule.                                                               *)

\* The loop receives a tick.
ReceiveTick ==
  /\ sPc = "wait"
  /\ tick # Never
  /\ sPc'  = "list"
  /\ sNow' = tick
  /\ tick' = Never
  /\ UNCHANGED <<clock, pointVars, started, deviceVars, snap, pos, last, jobs, engineVars,
                 workVars, rows, cleaning, run>>

\* The WHERE and LIMIT of ListPoints: neither the point nor its device is
\* deleted, and fewer than ListLimit such points sort before it.
Listable(p) == ~deleted[p] /\ ~devDeleted[DeviceOf[p]]
Listed(p) ==
  /\ Listable(p)
  /\ Cardinality({q \in Point : q < p /\ Listable(q)}) < ListLimit

ArchivedViewOf(p) == IF store[p] THEN "stored" ELSE "live"
ViewOf(p) ==
  IF ~Listed(p) THEN "absent"
  ELSE IF ~enabled[p] THEN "disabled"
  ELSE IF store[p] THEN "stored" ELSE "live"

ListPoints ==
  /\ sPc = "list"
  /\ sPc'  = "scan"
  /\ snap' = [p \in Point |-> ViewOf(p)]
  /\ pos'  = 1
  /\ UNCHANGED <<clockVars, pointVars, started, deviceVars, sNow, last, jobs, engineVars,
                 workVars, rows, cleaning, run>>

\* The query fails: this tick is lost.
ListFails ==
  /\ sPc = "list"
  /\ sPc' = "wait"
  /\ UNCHANGED <<clockVars, pointVars, started, deviceVars, sNow, snap, pos, last, jobs,
                 engineVars, workVars, rows, cleaning, run>>

DueCollect(p) == last[p] = Never \/ sNow - last[p] >= CollectInterval[p]
Wanted(p) == snap[p] \in {"live", "stored"} /\ DueCollect(p)

\* One turn of the loop over the points that offers nothing.
SkipPoint ==
  /\ sPc = "scan"
  /\ pos \in Point
  /\ ~Wanted(pos)
  /\ pos' = pos + 1
  /\ UNCHANGED <<clockVars, pointVars, started, deviceVars, sPc, sNow, snap, last, jobs,
                 engineVars, workVars, rows, cleaning, run>>

\* A send to the channel would block.
FullByOneMore == Len(jobs) > QueueCap
Full == Len(jobs) = QueueCap

\* The send succeeds; only then is the point's time of dispatch moved on.
Dispatch ==
  /\ sPc = "scan"
  /\ pos \in Point
  /\ Wanted(pos)
  /\ ~Full
  /\ jobs' = Append(jobs, [point |-> pos, store |-> snap[pos] = "stored"])
  /\ last' = [last EXCEPT ![pos] = sNow]
  /\ pos'  = pos + 1
  /\ UNCHANGED <<clockVars, pointVars, started, deviceVars, sPc, sNow, snap, engineVars,
                 workVars, rows, cleaning, run>>

\* The queue is full: the default case of the select, a warning only.
DropJob ==
  /\ sPc = "scan"
  /\ pos \in Point
  /\ Wanted(pos)
  /\ Full
  /\ pos' = pos + 1
  /\ UNCHANGED <<clockVars, pointVars, started, deviceVars, sPc, sNow, snap, last, jobs,
                 engineVars, workVars, rows, cleaning, run>>

ScanDone ==
  /\ sPc = "scan"
  /\ pos = NPoint + 1
  /\ sPc'  = "wait"
  /\ snap' = [p \in Point |-> "absent"]
  /\ pos'  = 1
  /\ UNCHANGED <<clockVars, pointVars, started, deviceVars, sNow, last, jobs, engineVars,
                 workVars, rows, cleaning, run>>

-----------------------------------------------------------------------------
(* worker and collect.                                                     *)

\* A worker receives a job and notes the time.
TakeJob(w) ==
  /\ wPc[w] = "idle"
  /\ jobs # <<>>
  /\ jobs'   = Tail(jobs)
  /\ wPc'    = [wPc    EXCEPT ![w] = "read"]
  /\ wPoint' = [wPoint EXCEPT ![w] = Head(jobs).point]
  /\ wStore' = [wStore EXCEPT ![w] = Head(jobs).store]
  /\ wNow'   = [wNow   EXCEPT ![w] = clock]
  /\ UNCHANGED <<clockVars, pointVars, started, deviceVars, schedVars, engineVars, rows,
                 cleaning, run>>

\* Manager.Connection and Read have returned, with a value or an error: either
\* way a sample, good or bad, is recorded.
ReadHangs(w) == wPc[w] = "read" /\ FALSE
ReadPoint(w) ==
  /\ wPc[w] = "read"
  /\ wPc' = [wPc EXCEPT ![w] = "record"]
  /\ UNCHANGED <<clockVars, pointVars, started, deviceVars, schedVars, jobs, engineVars,
                 wPoint, wStore, wNow, rows, cleaning, run>>

\* collect is over; its locals are gone.
Finish(w) ==
  /\ wPc'    = [wPc    EXCEPT ![w] = "idle"]
  /\ wPoint' = [wPoint EXCEPT ![w] = 0]
  /\ wStore' = [wStore EXCEPT ![w] = FALSE]
  /\ wNow'   = [wNow   EXCEPT ![w] = 0]

DueHistory(p, now) == lastHistory[p] = Never \/ now - lastHistory[p] >= HistoryInterval[p]

\* The critical section of collect: publish the value, and claim the history
\* interval if it is over.
RecordOnly(w) ==
  /\ wPc[w] = "record"
  /\ ~(wStore[w] /\ DueHistory(wPoint[w], wNow[w]))
  /\ latest' = [latest EXCEPT ![wPoint[w]] = wNow[w]]
  /\ Finish(w)
  /\ UNCHANGED <<clockVars, pointVars, started, deviceVars, schedVars, jobs, lastHistory,
                 rows, cleaning, run>>

\* What RecordAndStore leaves in lastHistory.
NothingClaimed(w) == lastHistory[wPoint[w]]
ClaimedTime(w) == wNow[w]

RecordAndStore(w) ==
  /\ wPc[w] = "record"
  /\ wStore[w] /\ DueHistory(wPoint[w], wNow[w])
  /\ latest'      = [latest      EXCEPT ![wPoint[w]] = wNow[w]]
  /\ lastHistory' = [lastHistory EXCEPT ![wPoint[w]] = ClaimedTime(w)]
  /\ wPc'         = [wPc         EXCEPT ![w] = "device"]
  /\ UNCHANGED <<clockVars, pointVars, started, deviceVars, schedVars, jobs, wPoint,
                 wStore, wNow, rows, cleaning, run>>

\* GetDevice finds the row unless the device is deleted.
LoadDevice(w) ==
  /\ wPc[w] = "device"
  /\ ~devDeleted[DeviceOf[wPoint[w]]]
  /\ wPc' = [wPc EXCEPT ![w] = "mark"]
  /\ UNCHANGED <<clockVars, pointVars, started, deviceVars, schedVars, jobs, engineVars,
                 wPoint, wStore, wNow, rows, cleaning, run>>

\* The UPDATE of history_started_at, whatever else the row says.
MarkHistoryStarted(w) ==
  /\ wPc[w] = "mark"
  /\ wPc'     = [wPc EXCEPT ![w] = "insert"]
  /\ started' = [started EXCEPT ![wPoint[w]] = TRUE]
  /\ UNCHANGED <<clockVars, pointVars, deviceVars, schedVars, jobs, engineVars, wPoint,
                 wStore, wNow, rows, cleaning, run>>

\* INSERT ... USING creates the point's table when there is none.
Insert(w) ==
  /\ wPc[w] = "insert"
  /\ rows' = [rows EXCEPT ![wPoint[w]] = @ \cup {[ts |-> wNow[w], run |-> run]}]
  /\ Finish(w)
  /\ UNCHANGED <<clockVars, pointVars, started, deviceVars, schedVars, jobs, engineVars,
                 cleaning, run>>

\* Any of the three statements fails: collect returns without a row, and the
\* interval stays claimed.
StoreGoesOn(w) ==
  /\ wPc[w] \in {"device", "mark"}
  /\ wPc' = [wPc EXCEPT ![w] = "insert"]
  /\ UNCHANGED <<clockVars, pointVars, started, deviceVars, schedVars, jobs, engineVars,
                 wPoint, wStore, wNow, rows, cleaning, run>>
StoreFails(w) ==
  /\ wPc[w] \in {"device", "mark", "insert"}
  /\ Finish(w)
  /\ UNCHANGED <<clockVars, pointVars, started, deviceVars, schedVars, jobs, engineVars,
                 rows, cleaning, run>>

Work(w) ==
  \/ TakeJob(w) \/ ReadPoint(w)
  \/ RecordOnly(w) \/ RecordAndStore(w)
  \/ LoadDevice(w) \/ MarkHistoryStarted(w) \/ Insert(w) \/ StoreFails(w)

-----------------------------------------------------------------------------
(* Edits of points and devices by the handlers.                            *)

SwitchPoint(p) ==
  /\ ~deleted[p]
  /\ enabled' = [enabled EXCEPT ![p] = ~@]
  /\ UNCHANGED <<clockVars, store, deleted, goneAt, started, deviceVars, schedVars, jobs, engineVars,
                 workVars, rows, cleaning, run>>

SwitchStore(p) ==
  /\ ~deleted[p]
  /\ store' = [store EXCEPT ![p] = ~@]
  /\ UNCHANGED <<clockVars, enabled, deleted, goneAt, started, deviceVars, schedVars, jobs, engineVars,
                 workVars, rows, cleaning, run>>

DeletePoint(p) ==
  /\ ~deleted[p]
  /\ deleted' = [deleted EXCEPT ![p] = TRUE]
  /\ enabled' = [enabled EXCEPT ![p] = FALSE]
  /\ goneAt'  = [goneAt  EXCEPT ![p] = clock]
  /\ UNCHANGED <<clockVars, store, started, deviceVars, schedVars, jobs, engineVars, workVars,
                 rows, cleaning, run>>

SwitchDevice(d) ==
  /\ ~devDeleted[d]
  /\ devEnabled' = [devEnabled EXCEPT ![d] = ~@]
  /\ UNCHANGED <<clockVars, pointVars, started, devDeleted, schedVars, jobs, engineVars,
                 workVars, rows, cleaning, run>>

\* One transaction: the device and, by cascade, its points.
DeleteDevice(d) ==
  /\ ~devDeleted[d]
  /\ devDeleted' = [devDeleted EXCEPT ![d] = TRUE]
  /\ devEnabled' = [devEnabled EXCEPT ![d] = FALSE]
  /\ deleted' = [p \in Point |-> deleted[p] \/ DeviceOf[p] = d]
  /\ enabled' = [p \in Point |-> enabled[p] /\ DeviceOf[p] # d]
  /\ goneAt'  = [p \in Point |-> IF deleted'[p] /\ ~deleted[p] THEN clock ELSE goneAt[p]]
  /\ UNCHANGED <<clockVars, store, started, schedVars, jobs, engineVars, workVars, rows,
                 cleaning, run>>

-----------------------------------------------------------------------------
(* CleanupDeletedArchives: list the deleted points, then drop their tables *)
(* one by one.                                                             *)

Gone(p) == deleted[p] \/ devDeleted[DeviceOf[p]]
CleanupNotLive == {p \in Point : Gone(p) \/ ~enabled[p]}
CleanupCandidates == {p \in Point : Gone(p)}

CleanupList ==
  /\ cleaning = {}
  /\ cleaning' = CleanupCandidates
  /\ UNCHANGED <<clockVars, pointVars, started, deviceVars, schedVars, jobs, engineVars,
                 workVars, rows, run>>

\* HasData and DROP TABLE; the ids come in the order of p.id.
CleanupDrop(p) ==
  /\ p \in cleaning
  /\ \A q \in cleaning : p <= q
  /\ rows' = [rows EXCEPT ![p] = {}]
  /\ cleaning' = cleaning \ {p}
  /\ UNCHANGED <<clockVars, pointVars, started, deviceVars, schedVars, jobs, engineVars,
                 workVars, run>>

\* HasData reports false, also when its query fails: the table is left alone.
CleanupSkip(p) ==
  /\ p \in cleaning
  /\ \A q \in cleaning : p <= q
  /\ cleaning' = cleaning \ {p}
  /\ UNCHANGED <<clockVars, pointVars, started, deviceVars, schedVars, jobs, engineVars,
                 workVars, rows, run>>

\* A DROP fails: the remaining tables are not visited.
CleanupFails ==
  /\ cleaning # {}
  /\ cleaning' = {}
  /\ UNCHANGED <<clockVars, pointVars, started, deviceVars, schedVars, jobs, engineVars,
                 workVars, rows, run>>

-----------------------------------------------------------------------------
\* The process dies or is stopped, at any point, and starts again with empty
\* memory; the two databases keep what they have.
Restart ==
  /\ run < MaxRun
  /\ run' = run + 1
  /\ sPc' = "wait" /\ sNow' = 0 /\ pos' = 1
  /\ snap' = [p \in Point |-> "absent"]
  /\ last' = [p \in Point |-> Never]
  /\ jobs' = <<>>
  /\ latest'      = [p \in Point |-> Never]
  /\ lastHistory' = [p \in Point |-> Never]
  /\ wPc'    = [w \in Worker |-> "idle"]
  /\ wPoint' = [w \in Worker |-> 0]
  /\ wStore' = [w \in Worker |-> FALSE]
  /\ wNow'   = [w \in Worker |-> 0]
  /\ cleaning' = {}
  /\ tick' = Never
  /\ UNCHANGED <<clock, pointVars, started, deviceVars, rows>>

Schedule == \/ ReceiveTick \/ ListPoints \/ ListFails
            \/ SkipPoint \/ Dispatch \/ DropJob \/ ScanDone

Edit == \/ \E p \in Point : SwitchPoint(p) \/ SwitchStore(p) \/ DeletePoint(p)
        \/ \E d \in Device : SwitchDevice(d) \/ DeleteDevice(d)

Cleanup == \/ CleanupList \/ CleanupFails
           \/ \E p \in Point : CleanupDrop(p) \/ CleanupSkip(p)

Next == \/ Second \/ Schedule
        \/ \E w \in Worker : Work(w)
        \/ Edit \/ Cleanup \/ Restart

Spec == Init /\ [][Next]_vars

\* As long as some worker can go on, one does: reads and statements have time limits.
FairSpec == Spec /\ WF_vars(\E w \in Worker : Work(w))

-----------------------------------------------------------------------------
(* Safety.                                                                 *)

\* Within one life of the process two history rows of a point are at least its
\* history interval apart, although several workers may be collecting the
\* point at once, in any order: the interval is checked and claimed in one
\* critical section, before the row is written.
HistorySpacing ==
  \A p \in Point : \A r, s \in rows[p] :
    r.run = s.run /\ r.ts < s.ts => s.ts - r.ts >= HistoryInterval[p]

\* A point that has rows has its history_started_at, whatever fails or dies
\* half-way: the history tree relies on it.
StartedBeforeRows == \A p \in Point : rows[p] # {} => started[p]

\* The clean-up drops the history of deleted points only, never of one that is
\* merely disabled, even if rows and devices are edited while it runs.
CleanupOnlyDeleted ==
  [][\A p \in Point : rows[p] # {} /\ rows'[p] = {} => Gone(p)]_vars

\* p is offered to the workers by this step.
Offered(p) ==
  /\ Len(jobs') = Len(jobs) + 1
  /\ jobs'[Len(jobs')].point = p

\* A point deleted at some time is not offered any more by a later tick: only
\* the scan whose list was read before the deletion still knows it.
DeletedStopsWithinScan ==
  [][\A p \in Point : Offered(p) /\ deleted[p] => sNow <= goneAt[p]]_vars

-----------------------------------------------------------------------------
(* What the engine, the edits and the clean-up promise the readers of      *)
(* history.                                                                *)

Archive == INSTANCE PointArchive WITH gone <- [p \in Point |-> Gone(p)]

\* To those who read history the whole engine, with its queue, its workers, its
\* failures and restarts and the clean-up beside it, is PointArchive: a row comes
\* only after the mark, an interval away from every row of the same life, and
\* rows go only when the point is deleted.
ImplementsArchive == Archive!Spec

-----------------------------------------------------------------------------
(* Liveness.                                                               *)

\* A full queue does not stay full: some worker always comes back for a job.
QueueDrains == (Len(jobs) = QueueCap) ~> (Len(jobs) < QueueCap)

-----------------------------------------------------------------------------
(* What the documents promise and the code does not keep.                  *)

\* latest_value is the newest value the engine knows: its time never goes back
\* while the process lives.
LatestNotOlder ==
  [][run' = run => \A p \in Point : latest'[p] >= latest[p]]_vars

\* "Once the device is disabled no collection task is executed."
DisabledDeviceNotOffered ==
  [][\A p \in Point : Offered(p) => devEnabled[DeviceOf[p]]]_vars

\* "Archived points are read-only and are not collected any more."
ArchivedReadOnly ==
  [][\A p \in Point : rows'[p] \subseteq rows[p] \/ ~Gone(p)]_vars

=============================================================================
