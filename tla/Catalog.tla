------------------------------- MODULE Catalog -------------------------------
(***************************************************************************)
(* Devices, collection points, write points and groups in PostgreSQL, and  *)
(* the setting of the retention: the handlers of api/router.go, the checks *)
(* of service/platform/service.go and the statements of                    *)
(* repository/postgres/store.go.                                           *)
(*                                                                         *)
(* Requests run concurrently, each on a connection of the pool, at READ    *)
(* COMMITTED: a statement sees what is committed when it starts and the    *)
(* changes of its own transaction, comes to its rows one after the other,  *)
(* waits for a row that another transaction has locked and then looks at   *)
(* it again.  Transactions that wait for each other in a circle are found, *)
(* and one of them is given up.  A statement outside of a transaction      *)
(* commits with its last step.  The payload of a row is the protocol: of a *)
(* device, and of the points whose address it accepts.                     *)
(* Requests that fail the checks of names, ranges and formats answer       *)
(* before they touch anything and are left out.                            *)
(***************************************************************************)
EXTENDS FiniteSets, Integers

LOCAL INSTANCE Relation

CONSTANTS
  Client,       \* what sends one request after the other
  Device,       \* ids of devices, as many as are ever made
  Coll, Write,  \* ids of collection and of write points
  Group,        \* names of groups
  Default,      \* "default"
  Name,         \* names of devices and of points
  Protocol,     \* protocol types
  Days,         \* values asked for the retention, not all of them legal
  Initial,      \* what the tables hold at the start
  Request,      \* the requests made
  MaxRequests,  \* bound: requests that are made
  MaxCrashes,   \* bound: restarts of the server
  Limit,        \* LIMIT of ListPoints
  None          \* no id, no row

Point == Coll \cup Write
Key   == Device \cup Point \cup Group

Absent    == [live |-> FALSE]
DeviceRow == [live : BOOLEAN, name : Name, proto : Protocol]
PointRow  == [live : BOOLEAN, name : Name, proto : Protocol, group : Group,
              dev : Device]
GroupRow  == [live : {TRUE}]
Row       == DeviceRow \cup PointRow \cup GroupRow \cup {Absent}

DeviceRequest   == [op : {"saveDevice"}, key : Device \cup {None}, name : Name, proto : Protocol]
                   \cup [op : {"importDevice"}, name : Name, proto : Protocol]
                   \cup [op : {"deleteDevice"}, key : Device]
PointRequest(t) == [op : {"savePoint"}, table : {t}, key : t \cup {None}, name : Name,
                    proto : Protocol, group : Group, dev : Device]
                   \cup [op : {"importPoint"}, table : {t}, name : Name, proto : Protocol,
                         group : Group, device : Name]
                   \cup [op : {"deletePoint"}, key : t]
OtherRequest    == [op : {"createGroup", "deleteGroup"}, group : Group]
                   \cup [op : {"updateGroup"}, group : Group, new : Group]
                   \cup [op : {"setRetention"}, days : Days]
AnyRequest      == DeviceRequest \cup PointRequest(Coll) \cup PointRequest(Write)
                   \cup OtherRequest

Holders(t, table, n) == {k \in table : t[k].live /\ t[k].name = n}
Orphan(t, p)         == t[p].live /\ ~t[t[p].dev].live
Misfit(t, p)         == t[p].live /\ t[p].proto # t[t[p].dev].proto
UniqueIn(t)          == \A table \in {Device, Coll, Write} : \A k, h \in table :
                          t[k].live /\ t[h].live /\ t[k].name = t[h].name => k = h
WellTyped(t)         == /\ t \in [Key -> Row]
                        /\ \A d \in Device : t[d] \in DeviceRow \cup {Absent}
                        /\ \A p \in Point : t[p] \in PointRow \cup {Absent}
                        /\ \A g \in Group : t[g] \in GroupRow \cup {Absent}

ASSUME CatalogAssumption ==
  /\ Default \in Group
  /\ Coll \cap Write = {} /\ Device \cap Point = {}
  /\ Group \cap (Device \cup Point) = {}
  /\ None \notin Key \cup Row \cup AnyRequest
  /\ Request \subseteq AnyRequest
  /\ WellTyped(Initial) /\ UniqueIn(Initial)
  /\ \A p \in Point : ~Orphan(Initial, p) /\ ~Misfit(Initial, p)
  /\ Days \subseteq Int
  /\ MaxRequests \in Nat /\ MaxCrashes \in Nat

VARIABLES
  db,         \* the committed row of each key
  pend,       \* per client: the rows its transaction has locked, as it leaves them
  pc, req,    \* ... where its request is, and the request
  key, dev,   \* ... the id it saves, the device of the point it saves
  created,    \* ... importRow: created
  scan, row,  \* ... the rows a statement has found and not yet changed, the one it is at
  disturbed,  \* history: has another request changed something since it began
  answer,     \* what the last request that was answered was told
  keep, days, \* KEEP of TDengine, history_retention_days of system_settings
  made, crashes \* counters of the bounds

jobVars   == <<pc, req, key, dev, created, scan, row>>
countVars == <<made, crashes>>
vars == <<db, pend, jobVars, disturbed, answer, keep, days, countVars>>

PC == {"idle", "check", "store", "index", "device", "find", "begin", "scanColl",
       "moveColl", "scanWrite", "moveWrite", "last", "commit", "remove", "alter", "record"}

TypeOK ==
  /\ WellTyped(db)
  /\ pend \in [Client -> [Key -> Row \cup {None}]]
  /\ pc \in [Client -> PC]
  /\ req \in [Client -> Request \cup {None}]
  /\ key \in [Client -> Device \cup Point \cup {None}]
  /\ dev \in [Client -> Device \cup {None}]
  /\ created \in [Client -> BOOLEAN]
  /\ scan \in [Client -> SUBSET Point]
  /\ row \in [Client -> Point \cup {None}]
  /\ disturbed \in [Client -> BOOLEAN]
  /\ answer \in {"none", "ok", "created", "updated", "conflict", "notFound", "noDevice",
                 "rejected", "error"}
  /\ keep \in 1..730 /\ days \in 1..730
  /\ made \in 0..MaxRequests /\ crashes \in 0..MaxCrashes

DefaultDays == 365
NoChange == [k \in Key |-> None]

Init ==
  /\ db = Initial
  /\ pend = [c \in Client |-> NoChange]
  /\ pc = [c \in Client |-> "idle"]
  /\ req = [c \in Client |-> None]
  /\ key = [c \in Client |-> None]
  /\ dev = [c \in Client |-> None]
  /\ created = [c \in Client |-> FALSE]
  /\ scan = [c \in Client |-> {}]
  /\ row = [c \in Client |-> None]
  /\ disturbed = [c \in Client |-> FALSE]
  /\ answer = "none"
  /\ keep = DefaultDays /\ days = DefaultDays
  /\ made = 0 /\ crashes = 0

\* What a statement of c sees, and the rows it has to wait for.
See(c, k)  == IF pend[c][k] # None THEN pend[c][k] ELSE db[k]
\* Mutant of Held: nobody waits for the rows another transaction has locked.
NoRowLocks(c, k) == FALSE

Held(c, k) == \E o \in Client \ {c} : pend[o][k] # None

Goto(c, at) == pc' = [pc EXCEPT ![c] = at]

\* Lock a row, and leave it as given.
Change(c, k, r) == pend' = [pend EXCEPT ![c][k] = r]

\* Mutant of Settle: a transaction that is given up is not rolled back.
SettleWithoutRollback(c, a) ==
  /\ Goto(c, "idle")
  /\ answer' = a
  /\ req' = [req EXCEPT ![c] = None]
  /\ key' = [key EXCEPT ![c] = None]
  /\ dev' = [dev EXCEPT ![c] = None]
  /\ created' = [created EXCEPT ![c] = FALSE]
  /\ scan' = [scan EXCEPT ![c] = {}]
  /\ row' = [row EXCEPT ![c] = None]
  /\ pend' = IF a = "ok" THEN [pend EXCEPT ![c] = NoChange] ELSE pend

\* The answer to the client, and with it the end of the transaction.
Settle(c, a) ==
  /\ Goto(c, "idle")
  /\ answer' = a
  /\ req' = [req EXCEPT ![c] = None]
  /\ key' = [key EXCEPT ![c] = None]
  /\ dev' = [dev EXCEPT ![c] = None]
  /\ created' = [created EXCEPT ![c] = FALSE]
  /\ scan' = [scan EXCEPT ![c] = {}]
  /\ row' = [row EXCEPT ![c] = None]
  /\ pend' = [pend EXCEPT ![c] = NoChange]

\* ... after which everything is as before, or after a change others may notice.
Finish(c, a) ==
  /\ Settle(c, a)
  /\ disturbed' = [disturbed EXCEPT ![c] = FALSE]
  /\ UNCHANGED <<db, keep, days, countVars>>

Publish(c, a) ==
  /\ Settle(c, a)
  /\ disturbed' = [o \in Client |-> o # c /\ (disturbed[o] \/ pc[o] # "idle")]

\* A step in the middle of a request, which nobody notices.
Stay == UNCHANGED <<db, disturbed, answer, keep, days, countVars>>

FirstStep(q) ==
  CASE q.op = "saveDevice"   -> "store"
    [] q.op = "savePoint"    -> "check"
    [] q.op = "importDevice" -> "find"
    [] q.op = "importPoint"  -> "device"
    [] q.op = "deletePoint"  -> "remove"
    [] q.op = "setRetention" -> "alter"
    [] OTHER                 -> "begin"

Begin(c) ==
  /\ pc[c] = "idle" /\ made < MaxRequests
  /\ \E q \in Request :
       /\ Goto(c, FirstStep(q))
       /\ req' = [req EXCEPT ![c] = q]
       /\ key' = [key EXCEPT ![c] = IF q.op \in {"saveDevice", "savePoint", "deletePoint",
                                                 "deleteDevice"} THEN q.key ELSE None]
       /\ dev' = [dev EXCEPT ![c] = IF q.op = "savePoint" THEN q.dev ELSE None]
  /\ answer' = "none"
  /\ made' = made + 1
  /\ UNCHANGED <<db, pend, created, scan, row, disturbed, keep, days, crashes>>

-----------------------------------------------------------------------------
(* Saves and imports of devices and points.                                *)

Imports    == {"importDevice", "importPoint"}
OfPoint(q) == q.op \in {"savePoint", "importPoint"}
Table(q)   == IF OfPoint(q) THEN q.table ELSE Device

NewRow(c) ==
  IF OfPoint(req[c])
    THEN [live |-> TRUE, name |-> req[c].name, proto |-> req[c].proto,
          group |-> req[c].group, dev |-> dev[c]]
    ELSE [live |-> TRUE, name |-> req[c].name, proto |-> req[c].proto]

\* importRow looks up the device of the point ...
FindDevice(c) ==
  /\ pc[c] = "device"
  /\ LET found == Holders(db, Device, req[c].device) IN
       IF found = {}
         THEN Finish(c, "noDevice")
         ELSE /\ dev' \in {[dev EXCEPT ![c] = d] : d \in found}
              /\ Goto(c, "find")
              /\ Stay /\ UNCHANGED <<pend, req, key, created, scan, row>>

\* ... and the record of that name.  Points are looked up in a listing, which
\* leaves out the points of deleted devices, and all above its limit.
Listed(table) == IF table = Device
                   THEN {d \in Device : db[d].live}
                   ELSE {p \in table : db[p].live /\ ~Orphan(db, p)}
Crowded(table) == table # Device /\ Cardinality(Listed(table)) > Limit

\* Mutant of FindRecord: the row of an import is always a new record.
AlwaysCreate(c) ==
  /\ pc[c] = "find"
  /\ created' = [created EXCEPT ![c] = TRUE]
  /\ Goto(c, IF OfPoint(req[c]) THEN "check" ELSE "store")
  /\ Stay /\ UNCHANGED <<pend, req, key, dev, scan, row>>

FindRecord(c) ==
  /\ pc[c] = "find"
  /\ LET table == Table(req[c])
         found == Listed(table) \cap Holders(db, table, req[c].name)
     IN \/ /\ key' \in {[key EXCEPT ![c] = k] : k \in found}
           /\ created' = [created EXCEPT ![c] = FALSE]
        \/ /\ found = {} \/ Crowded(table)
           /\ key' = [key EXCEPT ![c] = None]
           /\ created' = [created EXCEPT ![c] = TRUE]
  /\ Goto(c, IF OfPoint(req[c]) THEN "check" ELSE "store")
  /\ Stay /\ UNCHANGED <<pend, req, dev, scan, row>>

\* Any error but "not found" counts as found: a device is updated under the nil
\* id, which changes no row; a point is inserted.
FindFails(c) ==
  /\ pc[c] = "find"
  /\ IF OfPoint(req[c])
       THEN /\ Goto(c, "check")
            /\ Stay /\ UNCHANGED <<pend, req, key, dev, created, scan, row>>
       ELSE Finish(c, "notFound")

\* Mutants of CheckDevice: a deleted device will do; the address is not checked.
CheckAnyDevice(c) ==
  /\ pc[c] = "check"
  /\ IF db[dev[c]].proto # req[c].proto
       THEN Finish(c, "rejected")
       ELSE /\ Goto(c, "store")
            /\ Stay /\ UNCHANGED <<pend, req, key, dev, created, scan, row>>

CheckNoAddress(c) ==
  /\ pc[c] = "check"
  /\ IF ~db[dev[c]].live
       THEN Finish(c, "noDevice")
       ELSE /\ Goto(c, "store")
            /\ Stay /\ UNCHANGED <<pend, req, key, dev, created, scan, row>>

\* GetDevice and ValidateAddress of SavePoint.
CheckDevice(c) ==
  /\ pc[c] = "check"
  /\ LET d == db[dev[c]] IN
       IF ~d.live \/ d.proto # req[c].proto
         THEN Finish(c, IF d.live THEN "rejected" ELSE "noDevice")
         ELSE /\ Goto(c, "store")
              /\ Stay /\ UNCHANGED <<pend, req, key, dev, created, scan, row>>

\* INSERT with a new id or UPDATE of a live row: the name must not be taken.
Unused(table) == {k \in table : db[k] = Absent}

StoreRow(c, k) ==
  /\ db' = [db EXCEPT ![k] = NewRow(c)]
  /\ Publish(c, IF req[c].op \notin Imports THEN "ok"
                ELSE IF created[c] THEN "created" ELSE "updated")
  /\ UNCHANGED <<keep, days, countVars>>

\* Mutant of NameTaken: only the lookup of importRow keeps names apart.
TakenByNobody(c) == FALSE

NameTaken(c) == Holders(db, Table(req[c]), req[c].name) \ {key[c]} # {}

Insert(c) ==
  /\ pc[c] = "store" /\ key[c] = None
  /\ \A k \in Holders(db, Table(req[c]), req[c].name) : ~Held(c, k)
  /\ \/ NameTaken(c) /\ Finish(c, "conflict")
     \/ /\ ~NameTaken(c) /\ Unused(Table(req[c])) # {}
        /\ StoreRow(c, CHOOSE k \in Unused(Table(req[c])) : TRUE)

\* An UPDATE locks the row first, and then waits for those that have its name.
Update(c) ==
  /\ pc[c] = "store" /\ key[c] # None /\ ~Held(c, key[c])
  /\ IF db[key[c]].live
       THEN /\ Change(c, key[c], NewRow(c))
            /\ Goto(c, "index")
            /\ Stay /\ UNCHANGED <<req, key, dev, created, scan, row>>
       ELSE Finish(c, "notFound")

Index(c) ==
  /\ pc[c] = "index"
  /\ \A k \in Holders(db, Table(req[c]), req[c].name) : ~Held(c, k)
  /\ \/ NameTaken(c) /\ Finish(c, "conflict")
     \/ ~NameTaken(c) /\ StoreRow(c, key[c])

\* DeletePoint.
Remove(c) ==
  /\ pc[c] = "remove" /\ ~Held(c, key[c])
  /\ \/ /\ db[key[c]].live
        /\ db' = [db EXCEPT ![key[c]].live = FALSE]
        /\ Publish(c, "ok")
        /\ UNCHANGED <<keep, days, countVars>>
     \/ ~db[key[c]].live /\ Finish(c, "notFound")

-----------------------------------------------------------------------------
(* Transactions: DeleteDevice, CreateGroup, UpdateGroup, DeleteGroup.      *)

\* UPDATE devices SET deleted.
DeleteDevice(c) ==
  /\ pc[c] = "begin" /\ req[c].op = "deleteDevice" /\ ~Held(c, key[c])
  /\ IF db[key[c]].live
       THEN /\ Change(c, key[c], [db[key[c]] EXCEPT !.live = FALSE])
            /\ Goto(c, "scanColl")
            /\ Stay /\ UNCHANGED <<req, key, dev, created, scan, row>>
       ELSE Finish(c, "notFound")

\* INSERT INTO collection_groups: CREATE is this statement alone ...
CreateGroup(c) ==
  /\ pc[c] = "begin" /\ req[c].op = "createGroup" /\ ~Held(c, req[c].group)
  /\ IF db[req[c].group].live
       THEN Finish(c, "conflict")
       ELSE /\ db' = [db EXCEPT ![req[c].group] = [live |-> TRUE]]
            /\ Publish(c, "ok")
            /\ UNCHANGED <<keep, days, countVars>>

\* ... and the others begin with it, for the new name, or for "default" where that
\* is missing.
Target(q) == IF q.op = "updateGroup" THEN q.new ELSE Default

InsertGroup(c) ==
  /\ pc[c] = "begin" /\ req[c].op \in {"updateGroup", "deleteGroup"}
  /\ LET g == Target(req[c])
         dropsDefault == req[c].op = "deleteGroup" /\ req[c].group = Default
     IN \/ dropsDefault /\ Finish(c, "rejected")
        \/ /\ ~dropsDefault /\ ~Held(c, g) /\ db[g].live
           /\ IF req[c].op = "deleteGroup"
                THEN /\ Goto(c, "scanColl")
                     /\ Stay /\ UNCHANGED <<pend, req, key, dev, created, scan, row>>
                ELSE Finish(c, "conflict")
        \/ /\ ~dropsDefault /\ ~Held(c, g) /\ ~db[g].live
           /\ Change(c, g, [live |-> TRUE])
           /\ Goto(c, "scanColl")
           /\ Stay /\ UNCHANGED <<req, key, dev, created, scan, row>>

\* The two UPDATEs of points: WHERE device_id or group_name, and deleted=FALSE.
Matches(c, k) ==
  /\ See(c, k).live
  /\ IF req[c].op = "deleteDevice" THEN See(c, k).dev = key[c]
                                   ELSE See(c, k).group = req[c].group

Moved(c, k) ==
  CASE req[c].op = "deleteDevice" -> [See(c, k) EXCEPT !.live = FALSE]
    [] req[c].op = "updateGroup"  -> [See(c, k) EXCEPT !.group = req[c].new]
    [] req[c].op = "deleteGroup"  -> [See(c, k) EXCEPT !.group = Default]

\* The statement comes to one of the rows left, in the order of its scan of the
\* table, which is any; with none left the next one begins.
NextStatement(c) ==
  IF pc[c] \in {"scanColl", "moveColl"} THEN "scanWrite"
  ELSE IF req[c].op = "deleteDevice" THEN "commit" ELSE "last"

Reach(c, left, at) ==
  \/ /\ left = {} /\ Goto(c, NextStatement(c))
     /\ row' = [row EXCEPT ![c] = None]
     /\ scan' = [scan EXCEPT ![c] = {}]
  \/ /\ Goto(c, at)
     /\ \E k \in left : row' = [row EXCEPT ![c] = k]
     /\ scan' = [scan EXCEPT ![c] = left]

Scan(c) ==
  /\ \/ pc[c] = "scanColl"  /\ Reach(c, {k \in Coll : Matches(c, k)}, "moveColl")
     \/ pc[c] = "scanWrite" /\ Reach(c, {k \in Write : Matches(c, k)}, "moveWrite")
  /\ Stay /\ UNCHANGED <<pend, req, key, dev, created>>

\* A row that another one has changed meanwhile stays locked, matching or not.
Move(c) ==
  /\ pc[c] \in {"moveColl", "moveWrite"} /\ ~Held(c, row[c])
  /\ Change(c, row[c], IF Matches(c, row[c]) THEN Moved(c, row[c]) ELSE See(c, row[c]))
  /\ Reach(c, scan[c] \ {row[c]}, pc[c])
  /\ Stay /\ UNCHANGED <<req, key, dev, created>>

\* DELETE FROM collection_groups; only DeleteGroup minds when there is no row.
DropGroup(c) ==
  /\ pc[c] = "last"
  /\ LET g == req[c].group IN
       IF See(c, g).live
         THEN /\ ~Held(c, g)
              /\ Change(c, g, Absent)
              /\ Goto(c, "commit")
              /\ Stay /\ UNCHANGED <<req, key, dev, created, scan, row>>
         ELSE IF req[c].op = "deleteGroup"
           THEN Finish(c, "notFound")
           ELSE /\ Goto(c, "commit")
                /\ Stay /\ UNCHANGED <<pend, req, key, dev, created, scan, row>>

Commit(c) ==
  /\ pc[c] = "commit"
  /\ db' = [k \in Key |-> See(c, k)]
  /\ Publish(c, "ok")
  /\ UNCHANGED <<keep, days, countVars>>

-----------------------------------------------------------------------------
(* SetRetention: ALTER DATABASE ... KEEP, then the record of it.           *)

Alter(c) ==
  /\ keep' = req[c].days
  /\ Goto(c, "record")
  /\ disturbed' = [o \in Client |-> disturbed[o] \/ (o # c /\ pc[o] # "idle")]
  /\ UNCHANGED <<db, pend, req, key, dev, created, scan, row, answer, days, countVars>>

\* TDengine has done it, and the answer to the request that asked for it is lost.
AlterUnanswered(c) ==
  /\ pc[c] = "alter" /\ req[c].days \in 1..730
  /\ keep' = req[c].days
  /\ Publish(c, "error")
  /\ UNCHANGED <<db, days, countVars>>

\* Mutants: the range of the setting is not checked; it is not recorded.
AlterUnchecked(c) == pc[c] = "alter" /\ Alter(c)
RecordNothing(c)  == /\ pc[c] = "record"
                     /\ Publish(c, "ok")
                     /\ UNCHANGED <<db, keep, days, countVars>>

AlterKeep(c) ==
  /\ pc[c] = "alter"
  /\ \/ req[c].days \in 1..730 /\ Alter(c)
     \/ req[c].days \notin 1..730 /\ Finish(c, "rejected")

RecordDays(c) ==
  /\ pc[c] = "record"
  /\ days' = req[c].days
  /\ Publish(c, "ok")
  /\ UNCHANGED <<db, keep, countVars>>

-----------------------------------------------------------------------------
\* A statement fails without having done anything, or the commit does.
Fails(c) == pc[c] \notin {"idle", "find"} /\ Finish(c, "error")

\* The row for which a transaction that holds others waits, and on whom.  PostgreSQL
\* gives up one of those that wait for each other in a circle.
Wants(c) ==
  CASE pc[c] \in {"moveColl", "moveWrite"} -> {row[c]}
    [] pc[c] = "index" -> Holders(db, Table(req[c]), req[c].name)
    [] pc[c] = "last"  -> {g \in {req[c].group} : See(c, g).live}
    [] OTHER           -> {}

WaitsFor(c, o) == c # o /\ \E k \in Wants(c) : pend[o][k] # None

Deadlocked(c) == TransitiveClosure([a, b \in Client |-> WaitsFor(a, b)], Client)[c, c]

GiveUp(c) == (\E o \in Client : WaitsFor(c, o)) /\ Deadlocked(c) /\ Finish(c, "error")

\* The server restarts: requests in flight are lost and their transactions rolled
\* back.  The start-up puts the groups of live collection points into the table.
Restart ==
  /\ crashes < MaxCrashes
  /\ crashes' = crashes + 1
  /\ db' = [k \in Key |->
       IF k = Default \/ k \in {db[p].group : p \in {p \in Coll : db[p].live}}
         THEN [live |-> TRUE] ELSE db[k]]
  /\ pc' = [c \in Client |-> "idle"]
  /\ pend' = [c \in Client |-> NoChange]
  /\ req' = [c \in Client |-> None]
  /\ key' = [c \in Client |-> None]
  /\ dev' = [c \in Client |-> None]
  /\ created' = [c \in Client |-> FALSE]
  /\ scan' = [c \in Client |-> {}]
  /\ row' = [c \in Client |-> None]
  /\ disturbed' = [c \in Client |-> FALSE]
  /\ answer' = "none"
  /\ UNCHANGED <<keep, days, made>>

Serve(c) ==
  \/ FindDevice(c) \/ FindRecord(c) \/ CheckDevice(c) \/ Insert(c) \/ Update(c)
  \/ Index(c) \/ Remove(c) \/ DeleteDevice(c) \/ CreateGroup(c) \/ InsertGroup(c)
  \/ Scan(c) \/ Move(c) \/ DropGroup(c) \/ Commit(c) \/ AlterKeep(c) \/ RecordDays(c)
  \/ GiveUp(c)

Next ==
  \/ Restart
  \/ \E c \in Client : \/ Begin(c) \/ Serve(c)
                       \/ Fails(c) \/ FindFails(c) \/ AlterUnanswered(c)

Spec == Init /\ [][Next]_vars

\* PostgreSQL and TDengine get to every statement, PostgreSQL to every deadlock, and
\* Gin to every request.
FairSpec == Spec /\ \A c \in Client : WF_vars(Serve(c))

-----------------------------------------------------------------------------
(* Properties.                                                             *)

\* No two live records of a table share a name, whatever imports and saves look up
\* at the same time (R001 to R003).
UniqueNames == UniqueIn(db)

\* Rule R004, the deletion of a device takes its points along: no live point belongs
\* to a deleted device.  The code does not keep it.
CascadeComplete == \A p \in Point : ~Orphan(db, p)

\* What the code does keep of R004: only requests that overlap leave a live point
\* under a deleted device.  The step that does it belongs to a request during which
\* another one committed: SavePoint after its look at the device, or DeleteDevice
\* after its look at the points.
OrphanNeedsOverlap ==
  [][\A p \in Point : Orphan(db', p) /\ ~Orphan(db, p) =>
       \E c \in Client : pc'[c] # pc[c] /\ disturbed[c]]_vars

\* What the code keeps of R005: the address of a live point is one of its device's
\* protocol, unless the device is given another protocol or the point was checked
\* before another request committed.
MisfitNeedsProtocolChange ==
  [][\A p \in Point : Misfit(db', p) /\ ~Misfit(db, p) =>
       \E c \in Client : /\ pc[c] \in {"store", "index"} /\ pc'[c] = "idle"
                         /\ ~OfPoint(req[c]) \/ disturbed[c]]_vars

\* Renaming or deleting a group changes nothing of a point but its group, undoes no
\* save of it, and leaves no live point in the old group unless one was put there
\* while the transaction ran (or the group is renamed to itself).
GroupMovesItsPoints ==
  [][\A c \in Client :
       /\ pc[c] = "commit" /\ pc'[c] = "idle" /\ answer' = "ok"
       /\ req[c].op \in {"updateGroup", "deleteGroup"}
       => \A p \in Point :
           /\ \/ db'[p] = db[p]
              \/ /\ db[p].live /\ db[p].group = req[c].group
                 /\ db'[p] = [db[p] EXCEPT !.group = Target(req[c])]
           /\ db'[p].live /\ db'[p].group = req[c].group =>
                disturbed[c] \/ Target(req[c]) = req[c].group]_vars

\* A row of an import is turned down over its name or its device only when another
\* request committed during it, the lookup failed, or the name is that of a point
\* no listing shows: one of a deleted device, or beyond the limit.
Hidden(c) == \E p \in Holders(db, Table(req[c]), req[c].name) \cap Point :
               Orphan(db, p) \/ Crowded(Table(req[c]))

LookupFailed(c) == key[c] = None /\ ~created[c]

ImportIsAccepted ==
  [][\A c \in Client :
       /\ pc[c] \in {"check", "store", "index"} /\ pc'[c] = "idle" /\ req[c].op \in Imports
       /\ answer' \in {"conflict", "notFound", "noDevice"}
       => disturbed[c] \/ LookupFailed(c) \/ Hidden(c)]_vars

\* The record of the retention parts from TDengine's only when the second of the two
\* steps does not happen, when the first one is done and not answered, or when two
\* settings overlap.
RetentionAgrees == keep = days \/ \E c \in Client : pc[c] = "record"

RetentionSplitIsExplained ==
  [][RetentionAgrees =>
       \/ RetentionAgrees'
       \/ crashes' # crashes
       \/ \E c \in Client :
            \/ pc[c] = "record" /\ pc'[c] # "record" /\ (disturbed[c] \/ answer' = "error")
            \/ pc[c] = "alter" /\ pc'[c] = "idle" /\ answer' = "error"]_vars

\* Every request is answered: a transaction waits for another one for ever only in a
\* circle, which rolls one of them back and lets go what it has locked.
Answered == \A c \in Client : []<>(pc[c] = "idle")

=============================================================================
