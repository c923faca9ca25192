# A verification of AquaControlAI

TLA+ specifications of the Go backend of AquaControlAI, their TLC runs, and
theorems about them that TLAPS checks. Source paths are relative to `src/`.

AquaControlAI polls PLCs (Modbus TCP and S7), keeps the latest values in
memory, stores history in TDengine and configuration in PostgreSQL, writes
values to the PLCs on request, and serves a web front end over HTTP.

| To | run, in this directory |
|---|---|
| check a model | `tlc -workers 2 -config MCConnManager_race.cfg MCConnManager.tla` |
| check the proofs | `tlapm ConnManagerProofs.tla` (all obligations must be proved) |
| see every run, mutant, mapped line | `PROJECT.json` |

## 1. Inventory

| Component | Code | State | Operations | Interacts with |
|---|---|---|---|---|
| Connection manager | `internal/engine/collector/manager.go` | maps device → connection, status, lastOnline, lastOffline under one RWMutex | `Connection`, `Invalidate`, `MarkConnected/Disconnected`, `Status`, `Times`, `Close` | called by collector, writer, service, main; calls the store and the drivers |
| Collection engine | `internal/engine/collector/engine.go` | job queue, `latest`, `lastHistory`; the scheduler's `last` | `schedule` (ticker), `collect` (workers), `Start`, `Stop`, `Latest` | lists points from PostgreSQL, reads through the manager, inserts into TDengine |
| Write engine | `internal/engine/writer/writer.go`, `ExecuteWrite` in `internal/service/platform/service.go` | none of its own; rows of `write_logs` | one request: check, at most two write/read-back attempts, log, answer | shares connections with the collector |
| Modbus TCP driver | `internal/protocol/modbus/factory.go` | socket, transaction id, mutex | `NewConnection`, `Read`, `Write`, `Close` | called by manager, collector, writer |
| S7 driver | `internal/protocol/s7/factory.go` | gos7 client, mutex | the same; BOOL writes read the byte first | the same |
| Registry, addresses | `internal/protocol/driver.go` | a map filled once at start | `Register`, `Factory`, address validation | main, manager, service |
| Device and point catalogue | `internal/service/platform/service.go`, `internal/repository/postgres/store.go` | tables devices, groups, collection_points, write_points | create, update, soft-delete with cascades, groups | `Invalidate` after each save or delete of a device |
| History queries | `internal/service/platform/history.go`, `internal/repository/tdengine/store.go` | none | `Query` (gap markers, min-max reduction), `QueryTable` (nearest sample) | TDengine |
| History clean-up | `CleanupDeletedArchives`, `HasData`, `DropTables` | tables of deleted points | list, then drop one by one | races with the collector |
| Retention | `SetRetention`, `KEEP` of TDengine | two databases that should agree | change one, then the other | — |
| HTTP API | `internal/api/router.go` | none | decoding, limits of history requests, paging, import loops | the service |
| Start-up, shutdown | `cmd/server/main.go` | the process | connect, migrate, start; deferred closes in reverse | all |
| Web front end | `web/src` | views | polling, charts | the API |

**What is hard here.** Up to `CollectorWorkers` goroutines and one goroutine
per HTTP request share the manager's maps, but its lock is released for the
query and the dial. Configuration saves commit first and invalidate
afterwards. A driver's `Close` waits for the connection's mutex. Sockets break
silently. A timed-out write may have taken effect. A read that outlasts its
interval is overlapped by the next one of the same point. History is claimed in
memory before it is stored in two databases in turn. Deletions cascade over
rows that running goroutines hold copies of, and that other requests save or
move at the same time. A late Modbus answer stays in the stream. The reduction of
a long history series has to keep what a curve must show. Each such hazard stands in
`PROJECT.json` at its line, with the properties aimed at it.

**What makes each component correct.**

- Connection manager: one live connection per slot, no leaked or doubly owned
  socket, none closed in use, none handed out after its close; calls and closes
  end; status and time stamps belong together.
- Collection engine: spacing of history rows per point; the start mark before
  the first row; deleted points stop; a bounded queue that drains.
- Clean-up: drops only what is deleted.
- Write engine: the answer and the log say what happened; a success means the
  device held the value; no attempt without permission; at most two attempts;
  one bit write does not undo another.
- Modbus: an answer is matched to its request, and a connection with a late
  answer in its stream fails rather than answering wrongly; values survive their
  encoding.
- Addresses: what is accepted when a point is saved is what the driver serves.
- Catalogue: names stay unique, cascades are complete, a point's address is one
  of its device's protocol, a group moves all its points and nothing else,
  imports are accepted, every request ends; or exactly what has to go wrong for
  one of these to fail.
- Retention: the record agrees with TDengine, or one knows why not.
- History queries: a reply is bounded, begins where the data begins, keeps the
  extremes, and draws no line across a gap or a failed read; a cell shows the
  nearest row, or one knows why not.
- Paging: the pages of a list are the list.

## 2. Modules

| Module | Models | Proofs in |
|---|---|---|
| `ConnSlot` | what the manager promises, without locks, status and callers | |
| `ConnManager` | manager.go, with the callers, saves, broken sockets and shutdown around it; implements `ConnSlot` | `ConnManagerProofs` |
| `PointArchive` | what the engine and the clean-up promise the readers of history: marks, rows, deletion | |
| `Collector` | engine.go and the clean-up, with edits and restarts; implements `PointArchive` | `CollectorProofs` |
| `Writer` | writer.go, `ExecuteWrite`, the S7 bit write and the REAL rounding | `WriterProofs` |
| `ModbusCodec` | addresses, encodings, frames of modbus/factory.go, as operators | `ModbusProofs` |
| `ModbusLink` | one Modbus connection: requests, deadlines, the stream, the device | `ModbusProofs` |
| `S7Address` | the check of an address and the driver's reading of it | `S7AddressProofs` |
| `Catalog` | devices, points, groups and retention: handlers, service, statements and transactions | `CatalogProofs` |
| `HistoryQuery` | `Query`, `QueryTable` and the history handlers | `HistoryQueryProofs` |
| `Paging` | `pagination` and `bounds` of the router | itself |
| `MC*` | instances for TLC | |

The modules meet where the code does: `ConnManager`, `Writer` and `ModbusLink`
see the same driver from three sides (its mutex and lifetime; the effect of its
writes; its bytes), `Collector` and `Catalog` the same tables (what the engine
reads of them; how requests change them), `Collector` and `HistoryQuery` the same
child table of TDengine.

### ConnSlot and ConnManager

A step of a goroutine is one critical section of `Manager.mu`, one query, or one
network call: `Connection` becomes `LookupHit`/`LookupMiss`, `Load*`,
`DialOk`/`DialFails`, `Publish`/`LosePublish`, `CloseLoser`, and its failure
paths `SetDisabled`, `SetDisconnected`, `MarkOffline`. `held[t]` is the
`protocol.Connection` a caller has in a local variable, `fresh[t]` the one it
has dialled and not yet published, `user[c]` the holder of `connection.mu`. A
save is `CommitUpdate`/`CommitDelete`, then `InvalidateMap`, then
`CloseRemoved`: the three points between which other goroutines run. Saving a
device never changes its id, so `connDev` is fixed by the dial; `connVer` is the
version of the row the dial used, which is what a stale connection is told by.
Time stamps are reduced to "never" and two values that alternate, since only
whether they were written matters.

`Break` is the network: an open socket stops answering. Neither driver closes or
replaces a socket after an error, so a broken one stays broken.

`CloseManager` waits for `Quiet`: main's deferred calls run after
`server.Shutdown` has waited for the handlers and `engine.Stop` for the workers.
(If `Shutdown` reports an error, main calls `os.Exit` and runs no deferred call;
the process ends and the sockets with it.)

`ConnSlot` is the promise: a slot per device, an open socket belongs to a device,
only an open socket of the device goes into its slot and only when that is empty,
one call at a time on a socket, only a socket that is in no slot and not in use is
closed. The refinement maps a slot to the entry of `connections`, the owner of a
socket to `connDev` (which is none exactly when it is closed) and the user to the
holder of its mutex; everything else (queries, status, the steps of a save but the
one that takes the connection out) is a stutter. The shutdown empties all slots in
one step. `StrayIsSettled`, the progress the slots owe, is checked through the same
mapping.

### PointArchive and Collector

`ReceiveTick`, `ListPoints`/`ListFails` and one step per point
(`Dispatch`, `DropJob`, `SkipPoint`) are the scheduler; the list is what it was
when it was read (`snap`). `TakeJob`, `ReadPoint`, `RecordOnly`/`RecordAndStore`,
`LoadDevice`, `MarkHistoryStarted`, `Insert`/`StoreFails` are `collect`;
`RecordAndStore` is the critical section of `Engine.mu` that publishes `latest`
and claims `lastHistory`. Time is a bounded clock of seconds, and the ticker has
room for one tick, as a `time.Ticker` has. `SwitchPoint`, `SwitchStore`,
`DeletePoint`, `SwitchDevice`, `DeleteDevice` are the catalogue as far as the
engine sees it. `Restart` forgets everything in memory at any moment and keeps
the databases.

`PointArchive` is the promise: a point is marked once and for all, a row comes only
when its point is marked and keeps the interval to every row of the same life of the
process (in both directions, for rows are written out of order), all rows of a
point go when it is deleted, and a restart takes nothing. It has no queue, worker
or clock, and it does not promise that a deleted point gets no more rows, because
the code does not (section 5). The refinement maps a point's `gone` to the
deletion of it or of its device.

### Writer

`Reject`, `LoadPoint`, then `Forbid`/`Permit`, `Connect`/`ConnectFails`, the
attempts (`WriteOk`, `WriteUnanswered`, `WriteFails`, `ReadBackOk`,
`ReadBackFails`), then `AnswerLogged`/`LogFails`. `WriteUnanswered` is the write
that took effect although its answer was lost; `WriteFails` is the one that did
not. A BOOL write over S7 is two steps, `ReadByte` and the write of the whole
byte, with the connection's mutex kept in between; all BOOL points of an
instance share one byte, the worst case. REAL values are integers in units of
0.00005, so that the rounding of a read to three decimals (20 units) and the
tolerance of 0.0001 (2 units) are both exact; the error of float32 itself is not
modelled. `Invalidate`/`CloseLink` are saves of the device that give new callers
a new connection while old ones go on with theirs. `permitted` is chosen freely
when the point is loaded, for `write_enabled` may have been saved as anything.

### ModbusCodec and ModbusLink

Bytes are numbers and a REAL is the four bytes of its IEEE form, so the encodings
are modelled by what they do to bytes. What a read of a REAL returns is its number of
thousandths: `Thousandths` takes the bytes apart and rounds half away from zero, as
`math.Round(value*1000)/1000` does (the product is exact in a float64; the division,
whose result is the float64 nearest to that many thousandths, is left out; an infinity
or NaN stays what it is). TLC evaluates it for the values of the instance,
whose products fit its integers; the theorems speak of all. `ModbusLink` is one connection: `Send`
(`request` up to the write of the frame), `ReadHeader`, `ReadBody`, and `Timeout`,
which is `io.ReadFull` given up at the deadline after it has read, and lost, the
`k` bytes that were there. `wire` is the stream from the device and `inbox` the
requests it has not handled; the device handles them in order and answers, refuses
or ignores each (external). The mutex admits one call at a time, so one caller that
may make any call next stands for all. `dirty` and `served` are history variables:
whether the stream held old bytes when the request went out, and the device's
tables once it had handled it. `Earlier` is the number of requests before those
looked at, so that an instance can begin at any request number. `Clash` are the
three request numbers at which the middle of a late answer can be taken for a header
with a body of some length, and `Lookalike` the calls for which what follows can then
be taken for an answer (section 5); the properties except these and nothing else.

### S7Address

An address is its area and its numbers. `Valid` is `ValidateS7Address`, `Parsed`
is the driver's `parseAddress`; they are separate pieces of code that take the text
apart differently, and the module is about where they disagree. `MaxInt` bounds
what `strconv.Atoi` accepts, which the check does not look at.

### Catalog

Each handler is followed down to its SQL statements, and a statement to the locks it
takes. `pend[c]` are the rows an open transaction has locked, as it leaves them: a
statement of another client does not see the change and waits for the row (`Held`), as
at READ COMMITTED. A multi-row update first fixes which rows it has found (`Scan`) and
then locks and changes one after the other, in any order (`Move`): it waits for each,
looks at it again and keeps those before it locked meanwhile, so two of them can each
hold a row the other one wants. `Update` locks its row and then waits for the holders
of the name it gives it (`Index`). `WaitsFor` is who waits for whom; of transactions
that wait for each other in a circle one is rolled back (`GiveUp`), any of them. A
statement outside of a transaction (`Insert`, `Index`, `Remove`, `CreateGroup`) commits
with its last step. `NameTaken` are the partial unique indexes of the first migration.
`Fails` is any statement or commit that fails without effect; it rolls back.
`saveDevice`/`savePoint` are the handlers for one row, `importDevice`/`importPoint`
one row of an imported file, whose lookups come first: a file of several rows is
several such requests of one client, as the loop goes on after a failed row.
`answer` is what the client, or the counters of an import, are told.
`AlterKeep`/`RecordDays` are the two halves of `SetRetention`; in `AlterUnanswered`
TDengine has changed its retention, but the REST call that asked for it returns an
error. `Restart` is a crash
at any moment with what the migrations at the start do to the groups.
`disturbed[c]` is a history variable: whether another request has changed anything
since the request of `c` began. It is what the exact versions of R004 and R005 are
stated with. The payload of rows is reduced to the protocol; the other checks of a
request (lengths, ranges, formats) are pure and come before it touches anything.

### HistoryQuery

A request goes `Ask` (the limits of the handlers), `FindPoint`, `ReadRows`,
`Shape` (`withHistoryGaps`, `minMax`), `MatchRows` (the loop of `QueryTable`),
while the collector adds rows and the clean-up drops the table. A series is a set
of samples with distinct time stamps, so an index is the number of earlier samples
and no recursion is needed. The bucket boundaries of `minMax` are products of
floats cut to integers; where the exact product is an integer the float may come
out just below it (115 samples in 50 buckets end at 114), so `Shape` takes any set
`early` of boundaries that come out one short. Several points in a request are a
loop over the same steps.

### Paging

`half` stands for 2^63: Go's int wraps, and `Wrap` says so.

## 3. Runs

| Run | Question | Instance and why it is enough |
|---|---|---|
| `conn_race` | can any interleaving leak, double or close a used connection, or lose a stamp, or take a step the slots do not allow? | 1 device (slots are independent), 2 workers, a write request of 2 calls, 1 administrator, 3 sockets: one in the map, one taken out and one just dialled at once. One update and one delete |
| `conn_live` | does every call end, and is every stray socket settled? | 1 worker, 1 writer, 1 administrator, 2 sockets |
| `coll_history` | spacing, `PointArchive` as a refinement, clean-up, end of collection; does a full queue drain? | 1 point, 2 workers (so that two collect it at once), queue of 1 (it stays full when the third job comes while both workers read), interval 2, seconds 0 to 3, 1 restart |
| `writer_requests` | what is a client told, under every failure? | 2 requests, 2 bits of one byte and a REAL that the PLC writes too, targets 10, 22 and 30 units (at and beside the rounding boundary), 2 connections |
| `modbus_stream` | is an answer ever taken for another's, and does a connection recover? | 3 requests on a coil, an input and a holding register in byte order CDAB, deadlines that pass before anything has come, within a header and within a body: a late answer, a request that meets it, and one more. Unit 5 and requests 1285 to 1287, of which 1286 is 256 * 5 + 6, so that lookalikes happen |
| `hist_series` | what do reduction and matching keep? | up to 5 rows of 3 values or none, two or eight units apart (a gap is more than six), 9 samples with the markers, reduced to 4 or 5: two buckets, gaps and failed reads in every position, more kept samples than fit. The table asks for at most 6 |
| `catalog_requests` | which promises survive two concurrent requests and a third after them, failures and a restart? | 1 device, two collection points (which two transactions may lock in either order) and a write point in a group, 18 requests: saves and imports of a new and of the existing name, a change of protocol, every deletion and rename, retention inside and outside its range. Two requests in flight are what a race needs, the third meets what they left. A listing shows 2 points |

`catalog_requests` does not check for deadlock, since the model stops after
`MaxRequests`; that requests do not wait for each other for ever is `Answered`.
The same holds for `catalog_orphan`.

Violation runs: TLC refutes what a document says of the program.

| Run | The document says | The code |
|---|---|---|
| `conn_stale` | after a save the next read or write connects anew (一致性决策基线.md:104) | a dial that began before the save is published after it |
| `conn_reconnect` | a failed connection is made again (spec-数据管理.md:1019) | the broken one stays in the map for ever |
| `s7_bool` | a BOOL address has three parts, two only for M, I, Q (spec-数据管理.md:478) | `DB1.2` passes the check, and the driver shifts by -1, which panics in a collector's goroutine |
| `hist_cells` | each cell takes the nearest record, and is `none` only without one (spec-历史数据.md:396, spec-数据管理.md:1012) | a gap marker nearer than the row takes the cell: null and `none` with a row within half a step |
| `catalog_orphan` | the points of a device are deleted with it, R004 (spec-数据管理.md:1309) | a point saved between the check and the cascade stays alive |

`conn_reconnect` is a temporal counterexample under `PollingSpec`: the worker is
always given jobs for the device and every fair step is taken, and still the
broken connection stays. `modbus_stream` shows a reason a connection stays broken:
one late answer, and every later request fails as long as the device answers, until
one of the three numbers of `Clash` comes round (`DirtyFails`, `StaysDirty`).

Every property of a passing run has a mutant in `PROJECT.json`: a plausible bug
in one mapped definition, written beside it (`SlotTakenIgnored`,
`NothingClaimed`, `DropsMutex`, `WithoutGaps`, `NoRowLocks`, ...), under which TLC
finds it violated. They are part of no behaviour.

The connections and workers of `conn_race` are symmetric; no run with a liveness
property uses symmetry. A finished ConnManager
stutters as `Exited`.

### Fairness

- `ConnManager`: weak fairness of every step that needs no lock of a connection:
  goroutines are scheduled, and queries, dials and calls have deadlines. Strong
  fairness of taking a connection's mutex (`BeginOp`, `CloseRemoved`): a Go
  mutex goes into its starvation mode after a millisecond and is then handed to
  the longest waiter. No fairness for saves, breaks or shutdown.
- `Collector`: weak fairness of the workers together, with the same reasons: as long
  as one of them can go on, one does. None for the scheduler, the clock, edits,
  clean-up or restarts.
- `Writer`: weak fairness of each request. Its wait for the mutex is for one
  other request at a time, which makes finitely many calls, so weak fairness is
  enough there.
- `ModbusLink`: weak fairness of the reading side alone (`Driver`): `setDeadline`
  ends every read. None for the device.
- `Catalog`: weak fairness of the steps of each request: PostgreSQL gets to every
  statement, and to every deadlock after `deadlock_timeout` (`GiveUp`, which is
  enabled only in a circle). `Fails` is not fair, so no request is answered by
  failing: `Answered` says that requests wait for ever only in circles, and that the
  rollback of one transaction of a circle lets the others go on.

## 4. Proofs

All theorems hold for every value of the constants under the modules' named
assumptions, which only say that the constants are what they stand for
(positive bounds, `None` no connection, disjoint kinds of goroutines and ids, points
with a device and positive intervals, tables that start consistent).

**ConnManagerProofs.** The properties that a run checks are not inductive: that
every open socket has an owner depends on which goroutine may hold it at which
program counter. `IInv` adds

- `CallerShape`, `AdminShape`: at which program counter a goroutine has a fresh,
  held or removed connection, and that it is not closed;
- `UserShape`: the mutex of a connection is held exactly by the caller that is
  in a Read or Write of it;
- `ShutdownShape`: after `CloseManager` nobody is inside a call;
- `Ownership`: the conjunction of the ownership properties.

From it follow `InstalledConnectionsAreOpen`, `NoSocketLeaks`,
`ConnectionsHaveOneOwner`, `ShutdownClosesEverything`, and the action properties
`ConnectionsAreNotOverwritten` and `CloseWaitsForUsers`. Each frame lemma names
the few actions that may change a group of variables, so that each conjunct is
proved for those only. `StatusCarriesStamp` is inductive given the types; it
also says that the very step that changes the status writes the stamp, and a new one
(`ChangeStamped`).
`ManagerImplementsSlots` maps each action to a step of `ConnSlot` or a stutter;
beyond `IInv` it needs `PeerShape`, that a socket has a peer exactly while it is not
closed, which is what makes the refinement mapping a socket's owner.

**CollectorProofs.** `HistoryIsSpaced` needs that the workers between the claim
and the insert are spaced as well: `ClaimBound` says that no claim or row of this
life is later than `lastHistory`, `ClaimSpacing` that two claims, or a claim and
a row, of one point are an interval apart. `RowsImplyStarted` needs
`MarkedBeforeInsert`: whoever is about to insert has set the mark.
`OnlyDeletedIsCleaned` needs that deletion is for ever, so what the clean-up once
found deleted still is (`CleanInv`); `DeletedPointsAreDropped` that the list of a
scan that began later does not hold the point (`ScanInv`).
`EngineImplementsArchive` puts these invariants together (`AInv`): `ArchiveFrame`
says which four steps a reader of history can notice, a mark, an insert, a drop and a
restart; `MarkedBeforeInsert` and `ClaimSpacing` give the insert its guards, `CleanInv`
the drop its own, and every other step either stutters or, when it deletes, is
`Retire` (`GoneStays`).

**WriterProofs.** `AnswersAreHonest` strengthens `HonestAnswer` to `Honest`, which
says what each point of `ExecuteWrite` already knows (a read-back follows a write
that took effect, nothing is logged before the end, ...). `SuccessHoldsTheTarget`
is arithmetic: rounding to the nearest of every 20 units moves a value by at most
10, and the comparison allows 2 more, so 12 units, 0.0006. `BitsAreNotUndone`
needs `ByteIsFresh`: between the two halves of a bit write its request holds the
mutex, and every bit of the byte that has changed since was not written through
this connection.

**CatalogProofs.** `Safe` says what a request has at each step (`RequestOK`), what a
transaction may have done to a row it has locked (`PendOK`: changed or deleted it, left
it as it was, or made it what is about to be saved) and that no two have changed the same
row (`LocksOK`), with which `UniqueNames` is inductive. The action theorems
rest on `Known`: a request that nobody has disturbed since it began still knows what
it has read (`Knows`): its device is live and has the protocol it was checked
against, the record it found has that name, the points its transaction has left
alone are not among those it looks for. `disturbed` is set by exactly the steps that
could make it wrong.

**HistoryQueryProofs.** A series is a finite set of samples with distinct times, and
`First` keeps a beginning of it (`FirstIsPrefix`), so whatever a gap or failed read
put into the kept set before a kept sample is in the reply too: that gives
`GapsAreNotBridged` and `BadReadsAreNotBridged`, whatever the rounding of the buckets.
`CellsAreExplained` orders samples by distance and time, takes the least of a finite
set, and compares the least of the series with the least of the stored rows: they
differ only by a gap marker or by a row the reduction has left out. `ExtremesAreKept` rests on the buckets: the scanned ranges of `minMax`
follow each other without a hole from the second sample to the last but one
(`ScannedIsInBucket`), whatever boundaries come out one short, and of each range the
least and the greatest value are kept (`ExtremesOfPart`).

**ModbusProofs.** The first part is about operators: encodings undo each other, two
addresses are never one cell, a write and its read-back name the same table, address
bytes and number of registers (`ReadBackFromSameCell`), the
thousandths a read returns of a REAL are a nearest number of them (`HalfUpIsNearest`,
`MagnitudeIsNearest`), a header that is read from its beginning is accepted by
the request it was made for and by no other.

The second part is about the stream of `ModbusLink`. Its bytes alone say nothing, so
the invariant says what they are: `Layout(w, src, pos)`, byte `i` of the stream is
byte `pos[i]` of the answer `src[i]`, which makes the stream the rest of one answer and
whole answers after it, in the order of their requests. Reading and losing bytes keeps
that (`LayoutDrop`), and so does an answer to a later request (`LayoutAppend`).
`StreamOK` adds where a call is: one that waits for a header has its own answer whole
before it; one that waits for a body stands behind its own header on a clean stream,
and on a dirty one at the third byte of some answer with a body of at most five bytes
to read, or at the second byte with one byte to read or with a number in `Clash`. That
these are all the possibilities is `MisreadHeader`: it goes through every place in
every kind of answer at which a header can begin. `MisreadResult` then shows what can
be made of such a body: nothing, or the echo of a write of 3 to 7 to 40001. `InboxOK`
(the requests on the way are those of calls, in order, and later than every answer in
the stream) and `BothWait` (an answered request that met old bytes has at least ten
before it) carry this from one request to the next. `AnswerOf` ties the bytes of an
answer to the device's tables. The one bound in the theorems is that of the
transaction number, `Earlier + MaxRequests <= 65535`: a number that comes round again
could be that of an answer 65535 requests old.

**S7AddressProofs, Paging** are about operators: what the check of an S7 address
accepts is served, and the only accepted
addresses that make the driver panic are BOOL addresses `DBn.b`
(`OnlyShortDBPanics`, the exact extent of `s7_bool`); pages are slices of the list
and together the list, as long as `(page-1)*page_size` stays an int.

**Only model-checked:** the liveness properties `CallReturns`, `StrayIsSettled`,
`QueueDrains` and `Answered` (the prover has no fairness and no ENABLED), and the
violations. Every other property of a passing run is a theorem.

## 5. Divergences without a run

Met while reading. The first group is stated in the modules as formulas, so that
naming one in a `.cfg` shows it.

- `SerialPerDevice` (ConnManager): calls to one device are not serial, for a caller
  of the invalidated connection and one of its successor overlap (manager.go:72;
  spec-数据管理.md:1320).
- `ConnectedHasConnection` (ConnManager): a `MarkConnected` that comes after
  `Invalidate` shows a device without a connection as connected (manager.go:114;
  spec:140).
- `LatestNotOlder` (Collector): of two workers on one point the slower one
  overwrites the newer value (engine.go:134; spec:528).
- `DisabledDeviceNotOffered` (Collector): the points of a disabled device are
  dispatched every interval (engine.go:82; spec:1022).
- `ArchivedReadOnly` (Collector): a job queued before its point is deleted still
  stores a row (engine.go:145; 一致性决策基线.md:43).

The others are single lines.

- After a missed deadline the connection is kept with the rest of the late answer in
  its stream (modbus/factory.go:247), and a later request may begin to read in the
  middle of an answer. There the request number `256 * unit + 6` is the unit and the
  function of an echo, 772 and 1028 the function and the length of an answer with a
  REAL; under one of these numbers what follows can pass for a header, and a write of
  3, 4, 5, 6 or 7 to the INT register 40001 can take the header of some answer, a
  refusal included, for its echo and succeed. TLC shows it when `~Lookalike` is taken
  out of `DirtyFails`.
- `minMax` cuts what it keeps to `max`, so with many gaps or failed reads the end of
  the series, its last sample included, is not in the reply (history.go:179;
  spec-历史数据.md:336 keeps the last sample). A table over a long range is reduced to
  10000 samples first, so with more rows than that most of its cells may be empty.
- `PUT /devices/:id` may change `protocol_type` under existing points
  (`MisfitNeedsProtocolChange` says what is left of R005, spec-数据管理.md:1310).
- `default` can be renamed (spec:523), and a rename of a group that does not exist
  creates the new one (store.go:206).
- An import whose lookup of a point fails for another reason than "not found" counts
  the row as updated and inserts it (router.go:417; spec:725).
- `ListPoints` matches names with `ILIKE`, so a name with a backslash or a wildcard
  may not be found by an import (store.go:277).
- When recording the retention fails, or the answer of TDengine is lost, TDengine has
  the new value and PostgreSQL the old one (service.go:158; spec-历史数据.md:225), and a restart does not reconcile them.
- INT and REAL addresses `DBn.0` to `DBn.7` are rejected, although spec-数据管理.md:714
  has `DB1.0,REAL` as an example; numbers too long for an int pass the check and
  fail at each read.
- A history request over several points fails as a whole when one of them has no
  child table in TDengine yet (history.go:107).
- `last_offline_at` is stamped also when the status was disconnected before
  (manager.go:74, 121, 127; spec-数据管理.md:146 speaks of the change).
- `ListPoints` has `LIMIT 1000` (store.go:277); spec:980 knows no limit. `GetPoint`
  and `FindPointByName` look in that list.
- The read-back of a REAL is rounded to three decimals and compared with 0.0001,
  so a target with more decimals than three, such as 20.5004, can never be
  confirmed; the example in spec:870 reads back a value with five decimals.
- The error code for a write timeout (spec:877, 51002) is returned nowhere.
- A page number so large that `(page-1)*page_size` leaves the int range makes the
  slice panic, which `gin.Recovery` answers with 500 (router.go:218).

## 6. Not modelled

- `Engine.Stop` as such: it cancels the context and waits; its effect is the
  guard of `CloseManager` and `Restart`.
- A point whose intervals or device are edited while it is collected.
- The S7 dial that is given up (s7/factory.go:39): whether its socket stays open is
  decided inside gos7, which is third-party and not in the repository.
- The registry of protocols: filled once before anything runs, then only read.
- An `ALTER DATABASE` that TDengine carries out only after its caller has been told
  that it failed: it has taken effect by then or never does.
- A Modbus frame of which only a part was written before an error (factory.go:240):
  a failed send gives the device the whole frame or nothing.
- The history tree, the listings' filters, the exports of the catalogue: they only
  assemble what other components keep.
- Routing, decoding, response shapes, configuration, logging; the first migration but
  for its unique names, and the third.
- Row types are declarations only. The web front end is rendering and requests.

## 7. Plan

The modules were written in the order of the table in section 2, the most
consequential behaviour first. What is left, in the order of its worth:

1. `Collector`: edits of intervals and of the device of a point while it is collected,
   and a graceful `Stop` between the claim and the insert.
2. `Catalog`: more than one device, and points that are moved between them.
