---------------------------- MODULE CatalogProofs ----------------------------
(***************************************************************************)
(* Proofs about Catalog, for any clients, requests, tables and number of   *)
(* requests and restarts.                                                  *)
(***************************************************************************)
EXTENDS Catalog, TLAPS

Id    == Device \cup Point
Tx    == {"scanColl", "moveColl", "scanWrite", "moveWrite", "last", "commit"}
Saves == {"saveDevice", "importDevice", "savePoint", "importPoint"}
TxOps == {"deleteDevice", "updateGroup", "deleteGroup"}

-----------------------------------------------------------------------------
(* Constants.                                                              *)

\* The tables have no key in common.
LEMMA TablesAreDisjoint ==
  /\ Device \cap Coll = {} /\ Device \cap Write = {} /\ Coll \cap Write = {}
  /\ Id \cap Group = {} /\ Device \cap Point = {} /\ Default \in Group /\ Key = Id \cup Group
BY CatalogAssumption DEF CatalogAssumption, Point, Key, Id

\* None is no row and no key.
LEMMA NoneIsNothing ==
  /\ None \notin Key /\ None \notin Row /\ None \notin Request
  /\ None \notin DeviceRow /\ None \notin PointRow /\ None \notin GroupRow /\ None # Absent
BY CatalogAssumption DEF CatalogAssumption, Row

\* The fields of a request.
LEMMA RequestFields ==
  ASSUME NEW q \in Request
  PROVE  /\ q.op \in Saves \cup TxOps \cup {"createGroup", "deletePoint", "setRetention"}
         /\ q.op = "saveDevice" => q.key \in Device \cup {None}
         /\ q.op \in {"saveDevice", "importDevice"} => q.name \in Name /\ q.proto \in Protocol
         /\ OfPoint(q) => /\ q.table \in {Coll, Write} /\ q.name \in Name
                          /\ q.proto \in Protocol /\ q.group \in Group
         /\ q.op = "savePoint" => q.key \in q.table \cup {None} /\ q.dev \in Device
         /\ q.op = "deletePoint" => q.key \in Point
         /\ q.op = "deleteDevice" => q.key \in Device
         /\ q.op \in {"createGroup", "updateGroup", "deleteGroup"} => q.group \in Group
         /\ q.op = "updateGroup" => q.new \in Group
         /\ q.op = "setRetention" => q.days \in Days
<1>1. \/ q \in DeviceRequest \/ q \in PointRequest(Coll) \/ q \in PointRequest(Write)
      \/ q \in OtherRequest
  BY CatalogAssumption DEF CatalogAssumption, AnyRequest
<1>2. CASE q \in DeviceRequest
  BY <1>2 DEF DeviceRequest, Saves, TxOps, OfPoint
<1>3. CASE \E t \in {Coll, Write} : q \in PointRequest(t)
  BY <1>3 DEF PointRequest, Saves, TxOps, OfPoint, Point
<1>4. CASE q \in OtherRequest
  BY <1>4 DEF OtherRequest, Saves, TxOps, OfPoint
<1> QED
  BY <1>1, <1>2, <1>3, <1>4

\* A live record has all its fields.
LEMMA LiveRow ==
  ASSUME NEW t, WellTyped(t)
  PROVE  /\ \A d \in Device : t[d].live => t[d] \in DeviceRow
         /\ \A p \in Point : t[p].live => t[p] \in PointRow
BY DEF WellTyped, Absent

\* What may be done to it.
LEMMA ChangedRow ==
  /\ \A r \in DeviceRow : /\ [r EXCEPT !.live = FALSE] \in DeviceRow
                          /\ [r EXCEPT !.live = FALSE].name = r.name
                          /\ [r EXCEPT !.live = FALSE].proto = r.proto
                          /\ ~[r EXCEPT !.live = FALSE].live
  /\ \A r \in PointRow : /\ [r EXCEPT !.live = FALSE] \in PointRow
                         /\ [r EXCEPT !.live = FALSE].name = r.name
                         /\ ~[r EXCEPT !.live = FALSE].live
  /\ \A r \in PointRow : \A g \in Group : /\ [r EXCEPT !.group = g] \in PointRow
                                          /\ [r EXCEPT !.group = g].name = r.name
                                          /\ [r EXCEPT !.group = g].dev = r.dev
                                          /\ [r EXCEPT !.group = g].proto = r.proto
                                          /\ [r EXCEPT !.group = g].live = r.live
BY DEF DeviceRow, PointRow

\* ... and it is not the row of an unused id.
LEMMA MadeRow == \A r \in DeviceRow \cup PointRow : r # Absent
<1> SUFFICES ASSUME NEW r \in DeviceRow \cup PointRow, r = Absent PROVE FALSE
  OBVIOUS
<1>1. "name" \in DOMAIN r
  BY DEF DeviceRow, PointRow
<1>2. DOMAIN Absent = {"live"}
  BY DEF Absent
<1> QED
  BY <1>1, <1>2

\* One row of a table is replaced.
LEMMA ReplacedRow ==
  ASSUME NEW t, WellTyped(t), NEW k \in Id, NEW new,
         k \in Device => new \in DeviceRow, k \in Point => new \in PointRow
  PROVE  WellTyped([t EXCEPT ![k] = new])
BY TablesAreDisjoint DEF WellTyped, Row, Id

-----------------------------------------------------------------------------
(* The inductive invariant.                                                *)

Step(c) == Begin(c) \/ Serve(c) \/ Fails(c) \/ FindFails(c) \/ AlterUnanswered(c)

\* What a request has when it gets to a step.
RequestOK(c) ==
  LET q == req[c] IN
  /\ pc[c] # "idle" => q \in Request
  /\ pc[c] = "check" =>
       OfPoint(q) /\ dev[c] \in Device /\ key[c] \in Table(q) \cup {None}
  /\ pc[c] = "store" =>
       /\ q.op \in Saves /\ key[c] \in Table(q) \cup {None}
       /\ OfPoint(q) => dev[c] \in Device
  /\ pc[c] = "index" =>
       /\ q.op \in Saves /\ key[c] \in Table(q)
       /\ OfPoint(q) => dev[c] \in Device
  /\ pc[c] = "device" => q.op = "importPoint" /\ key[c] = None
  /\ pc[c] = "find" => q.op \in Imports /\ key[c] = None /\ (OfPoint(q) => dev[c] \in Device)
  /\ pc[c] = "remove" => q.op = "deletePoint" /\ key[c] \in Point
  /\ pc[c] = "begin" => q.op \in TxOps \cup {"createGroup"}
  /\ pc[c] \in Tx => q.op \in TxOps
  /\ pc[c] \in Tx \cup {"begin"} /\ q.op = "deleteDevice" => key[c] \in Device
  /\ pc[c] = "last" => q.op # "deleteDevice"
  /\ pc[c] \in {"alter", "record"} => q.op = "setRetention"
  /\ pc[c] = "record" => q.days \in 1..730
  /\ pc[c] = "moveColl" => scan[c] \subseteq Coll /\ row[c] \in scan[c]
  /\ pc[c] = "moveWrite" => scan[c] \subseteq Write /\ row[c] \in scan[c]
  /\ pc[c] \notin {"moveColl", "moveWrite"} => scan[c] = {}
  /\ \A p \in scan[c] : db[p] # Absent
  /\ pc[c] \notin {"check", "store", "index"} => ~created[c]

\* A point the statements of c are to change.
Wanted(c, p) == /\ db[p].live
                /\ IF req[c].op = "deleteDevice" THEN db[p].dev = key[c]
                                                 ELSE db[p].group = req[c].group

\* What a transaction has done to a point: deleted it with its device or moved it
\* to another group.
PointChange(c, p) ==
  /\ db[p].live
  /\ \/ /\ req[c].op = "deleteDevice" /\ db[p].dev = key[c]
        /\ pend[c][p] = [db[p] EXCEPT !.live = FALSE]
     \/ /\ req[c].op \in {"updateGroup", "deleteGroup"} /\ db[p].group = req[c].group
        /\ pend[c][p] = [db[p] EXCEPT !.group = Target(req[c])]

DeviceChange(c, d) ==
  /\ db[d].live /\ req[c].op = "deleteDevice" /\ d = key[c]
  /\ pend[c][d] = [db[d] EXCEPT !.live = FALSE]

\* A row it has only locked, and one that an UPDATE of its own is about to store.
OnlyLocked(c, p) == db[p] # Absent /\ pend[c][p] = db[p]
Saving(c, k)     == db[k] # Absent /\ pc[c] = "index"

PendOK(c) ==
  /\ pc[c] \notin Tx \cup {"index"} => pend[c] = NoChange
  /\ pc[c] = "index" => pend[c][key[c]] # None
  /\ \A p \in Point : pend[c][p] # None =>
       PointChange(c, p) \/ OnlyLocked(c, p) \/ Saving(c, p)
  /\ \A d \in Device : pend[c][d] # None => DeviceChange(c, d) \/ Saving(c, d)
  /\ \A g \in Group : pend[c][g] \in GroupRow \cup {Absent, None}

\* At most one transaction has locked a row.
LocksOK == \A c, o \in Client : \A k \in Key :
             c = o \/ pend[c][k] = None \/ pend[o][k] = None

Safe == /\ TypeOK /\ LocksOK /\ UniqueNames
        /\ \A c \in Client : RequestOK(c) /\ PendOK(c)

-----------------------------------------------------------------------------
(* What a step of one client leaves to another.                            *)

Frame(c) ==
  /\ pc'[c] = pc[c] /\ req'[c] = req[c] /\ key'[c] = key[c] /\ dev'[c] = dev[c]
  /\ created'[c] = created[c] /\ scan'[c] = scan[c] /\ row'[c] = row[c]
  /\ pend'[c] = pend[c]

\* Either nothing others can see happens, or every request in progress is marked.
Noticed(c) == \/ UNCHANGED <<db, keep>> /\ disturbed'[c] = disturbed[c]
              \/ pc[c] = "idle" \/ disturbed'[c]

LEMMA SettleFrame ==
  ASSUME TypeOK, NEW o \in Client, NEW c \in Client \ {o}, NEW a, Settle(o, a)
  PROVE  Frame(c)
BY DEF Settle, Frame, Goto, TypeOK

LEMMA FinishFrame ==
  ASSUME TypeOK, NEW o \in Client, NEW c \in Client \ {o}, NEW a, Finish(o, a)
  PROVE  Frame(c) /\ Noticed(c)
BY SettleFrame DEF Finish, Noticed, TypeOK

LEMMA PublishFrame ==
  ASSUME TypeOK, NEW o \in Client, NEW c \in Client \ {o}, NEW a, Publish(o, a)
  PROVE  Frame(c) /\ Noticed(c)
BY SettleFrame DEF Publish, Noticed, TypeOK

LEMMA StepFrame ==
  ASSUME TypeOK, NEW o \in Client, NEW c \in Client \ {o}, Step(o)
  PROVE  Frame(c) /\ Noticed(c)
<1>1. CASE Begin(o)
  BY <1>1 DEF Begin, Frame, Noticed, Goto, TypeOK
<1>2. CASE FindDevice(o)
  <2>1. CASE \E a : Finish(o, a)
    BY <2>1, FinishFrame
  <2>2. CASE ~\E a : Finish(o, a)
    BY <1>2, <2>2 DEF FindDevice, Frame, Noticed, Goto, Stay, TypeOK
  <2> QED
    BY <2>1, <2>2
<1>3. CASE FindRecord(o)
  BY <1>3 DEF FindRecord, Frame, Noticed, Goto, Stay, TypeOK
<1>4. CASE CheckDevice(o) \/ FindFails(o)
  <2>1. CASE \E a : Finish(o, a)
    BY <2>1, FinishFrame
  <2>2. CASE ~\E a : Finish(o, a)
    BY <1>4, <2>2 DEF CheckDevice, FindFails, Frame, Noticed, Goto, Stay, TypeOK
  <2> QED
    BY <2>1, <2>2
<1>5. CASE \/ Insert(o) \/ Index(o) \/ Remove(o) \/ CreateGroup(o) \/ Commit(o)
           \/ RecordDays(o) \/ Fails(o) \/ GiveUp(o) \/ AlterUnanswered(o)
  <2>1. \E a : Finish(o, a) \/ Publish(o, a)
    BY <1>5 DEF Insert, Index, StoreRow, Remove, CreateGroup, Commit, RecordDays, Fails,
                GiveUp, AlterUnanswered
  <2> QED
    BY <2>1, FinishFrame, PublishFrame
<1>6. CASE Update(o) \/ DeleteDevice(o) \/ InsertGroup(o) \/ DropGroup(o)
  <2>1. CASE \E a : Finish(o, a)
    BY <2>1, FinishFrame
  <2>2. CASE ~\E a : Finish(o, a)
    BY <1>6, <2>2 DEF Update, DeleteDevice, InsertGroup, DropGroup, Change, Frame, Noticed, Goto,
                      Stay, TypeOK
  <2> QED
    BY <2>1, <2>2
<1>7. CASE Scan(o) \/ Move(o)
  <2>1. pend'[c] = pend[c]
    BY <1>7 DEF Scan, Move, Change, TypeOK
  <2>2. pc'[c] = pc[c] /\ scan'[c] = scan[c] /\ row'[c] = row[c]
    BY <1>7 DEF Scan, Move, Reach, Goto, TypeOK
  <2> QED
    BY <1>7, <2>1, <2>2 DEF Scan, Move, Frame, Noticed, Stay
<1>8. CASE AlterKeep(o)
  <2>1. CASE \E a : Finish(o, a)
    BY <2>1, FinishFrame
  <2>2. CASE Alter(o)
    BY <2>2 DEF Alter, Frame, Noticed, Goto, TypeOK
  <2> QED
    BY <1>8, <2>1, <2>2 DEF AlterKeep
<1> QED
  BY <1>1, <1>2, <1>3, <1>4, <1>5, <1>6, <1>7, <1>8 DEF Step, Serve

-----------------------------------------------------------------------------
(* What a step of a client does to its own request, and to the tables.     *)

\* It changes and locks only rows that nobody else has locked.
Careful(c) ==
  \A k \in Key : /\ db'[k] = db[k] \/ \A o \in Client \ {c} : pend[o][k] = None
                 /\ \/ pend'[c][k] = None \/ pend[c][k] # None
                    \/ \A o \in Client \ {c} : pend[o][k] = None

\* A record stays a record: no id is given twice.
Keeps == \A k \in Id : db[k] # Absent => db'[k] # Absent

Good(c) == TypeOK' /\ UniqueNames' /\ RequestOK(c)' /\ PendOK(c)' /\ Careful(c) /\ Keeps

Answers == {"none", "ok", "created", "updated", "conflict", "notFound", "noDevice",
            "rejected", "error"}

LEMMA SettleOwn ==
  ASSUME Safe, NEW c \in Client, NEW a \in Answers, Settle(c, a)
  PROVE  /\ RequestOK(c)' /\ PendOK(c)' /\ pend'[c] = NoChange
         /\ pend' \in [Client -> [Key -> Row \cup {None}]]
         /\ pc' \in [Client -> PC]
         /\ req' \in [Client -> Request \cup {None}]
         /\ key' \in [Client -> Device \cup Point \cup {None}]
         /\ dev' \in [Client -> Device \cup {None}]
         /\ created' \in [Client -> BOOLEAN]
         /\ scan' \in [Client -> SUBSET Point]
         /\ row' \in [Client -> Point \cup {None}]
         /\ answer' \in Answers
<1>1. NoChange \in [Key -> Row \cup {None}] /\ \A k \in Key : NoChange[k] = None
  BY DEF NoChange
<1>2. pc'[c] = "idle" /\ pend'[c] = NoChange /\ scan'[c] = {} /\ ~created'[c]
  BY DEF Settle, Goto, Safe, TypeOK
<1>3. RequestOK(c)'
  BY <1>2 DEF RequestOK, Tx
<1>4. PendOK(c)'
  BY <1>1, <1>2, TablesAreDisjoint DEF PendOK, Tx, Id, Key
<1> QED
  BY <1>1, <1>2, <1>3, <1>4 DEF Settle, Goto, Safe, TypeOK, PC, Answers

LEMMA FinishOwn ==
  ASSUME Safe, NEW c \in Client, NEW a \in Answers, Finish(c, a)
  PROVE  Good(c)
<1>1. Settle(c, a) /\ UNCHANGED <<db, keep, days, countVars>>
  BY DEF Finish
<1>2. pend'[c] = NoChange /\ \A k \in Key : NoChange[k] = None
  BY <1>1, SettleOwn DEF NoChange
<1>3. TypeOK'
  BY <1>1, SettleOwn DEF Finish, Safe, TypeOK, WellTyped, Answers, countVars
<1>4. UniqueNames'
  BY <1>1 DEF Safe, UniqueNames, UniqueIn
<1>5. Careful(c) /\ Keeps
  BY <1>1, <1>2 DEF Careful, Keeps
<1> QED
  BY <1>1, <1>3, <1>4, <1>5, SettleOwn DEF Good

LEMMA PublishOwn ==
  ASSUME Safe, NEW c \in Client, NEW a \in Answers, Publish(c, a),
         WellTyped(db'), UniqueIn(db'), keep' \in 1..730, days' \in 1..730,
         UNCHANGED countVars,
         \A k \in Key : db'[k] = db[k] \/ \A o \in Client \ {c} : pend[o][k] = None,
         Keeps
  PROVE  Good(c)
<1>1. Settle(c, a)
  BY DEF Publish
<1>2. pend'[c] = NoChange /\ \A k \in Key : NoChange[k] = None
  BY <1>1, SettleOwn DEF NoChange
<1>3. disturbed' \in [Client -> BOOLEAN]
  BY DEF Publish, Safe, TypeOK
<1>4. TypeOK'
  BY <1>1, <1>3, SettleOwn DEF Safe, TypeOK, WellTyped, Answers, countVars
<1>5. Careful(c)
  BY <1>2 DEF Careful
<1> QED
  BY <1>1, <1>4, <1>5, SettleOwn DEF Good, UniqueNames, UniqueIn

\* A step in the middle of a request.
LEMMA StayOwn ==
  ASSUME Safe, NEW c \in Client, Stay,
         pend' \in [Client -> [Key -> Row \cup {None}]],
         pc' \in [Client -> PC],
         req' = req,
         key' \in [Client -> Device \cup Point \cup {None}],
         dev' \in [Client -> Device \cup {None}],
         created' \in [Client -> BOOLEAN],
         scan' \in [Client -> SUBSET Point],
         row' \in [Client -> Point \cup {None}]
  PROVE  TypeOK' /\ UniqueNames' /\ Keeps /\ \A k \in Key : db'[k] = db[k]
BY DEF Safe, Stay, TypeOK, WellTyped, UniqueNames, UniqueIn, countVars, Keeps

LEMMA BeginOwn ==
  ASSUME Safe, NEW c \in Client, Begin(c)
  PROVE  Good(c)
<1>1. PICK q \in Request :
        /\ Goto(c, FirstStep(q))
        /\ req' = [req EXCEPT ![c] = q]
        /\ key' = [key EXCEPT ![c] = IF q.op \in {"saveDevice", "savePoint", "deletePoint",
                                                  "deleteDevice"} THEN q.key ELSE None]
        /\ dev' = [dev EXCEPT ![c] = IF q.op = "savePoint" THEN q.dev ELSE None]
  BY DEF Begin
<1>2. /\ pc[c] = "idle" /\ pend' = pend /\ db' = db
      /\ UNCHANGED <<created, scan, row, disturbed, keep, days, crashes>>
      /\ answer' = "none" /\ made' = made + 1 /\ made < MaxRequests
  BY DEF Begin
<1>3. FirstStep(q) \in PC \ (Tx \cup {"idle", "record", "index"})
  BY RequestFields DEF FirstStep, PC, Saves, TxOps, Tx
<1>4. /\ q.op \in {"saveDevice", "savePoint", "deletePoint", "deleteDevice"} =>
           q.key \in Device \cup Point \cup {None}
      /\ q.op = "savePoint" => q.dev \in Device
  BY RequestFields DEF OfPoint, Point
<1>5. /\ pc'[c] = FirstStep(q) /\ req'[c] = q
      /\ key'[c] = IF q.op \in {"saveDevice", "savePoint", "deletePoint", "deleteDevice"}
                     THEN q.key ELSE None
      /\ dev'[c] = IF q.op = "savePoint" THEN q.dev ELSE None
      /\ pc' \in [Client -> PC]
  BY <1>1, <1>3 DEF Goto, Safe, TypeOK
<1>6. made' \in 0..MaxRequests
  BY <1>2, CatalogAssumption DEF CatalogAssumption, Safe, TypeOK
<1>7. TypeOK'
  <2>1. req' \in [Client -> Request \cup {None}]
    BY <1>1 DEF Safe, TypeOK
  <2>2. key' \in [Client -> Device \cup Point \cup {None}]
    BY <1>1, <1>4 DEF Safe, TypeOK
  <2>3. dev' \in [Client -> Device \cup {None}]
    BY <1>1, <1>4 DEF Safe, TypeOK
  <2> QED
    BY <1>2, <1>5, <1>6, <2>1, <2>2, <2>3 DEF Safe, TypeOK, WellTyped
<1>8. RequestOK(c)'
  <2>1. scan'[c] = {} /\ ~created'[c]
    BY <1>2 DEF Safe, RequestOK
  <2> QED
    BY <1>3, <1>5, <2>1, RequestFields
       DEF RequestOK, FirstStep, Saves, Imports, TxOps, Tx, Table, OfPoint
<1>9. PendOK(c)'
  <2>1. pend'[c] = NoChange /\ pc'[c] # "index"
    BY <1>2, <1>3, <1>5 DEF Safe, PendOK, Tx
  <2>2. \A k \in Key : pend'[c][k] = None
    BY <2>1 DEF NoChange
  <2> QED
    BY <2>1, <2>2, TablesAreDisjoint DEF PendOK, Id
<1>10. Careful(c) /\ Keeps /\ UniqueNames'
  BY <1>2 DEF Careful, Keeps, Safe, UniqueNames, UniqueIn
<1> QED
  BY <1>7, <1>8, <1>9, <1>10 DEF Good

\* The step goes on in one of these places, with nothing to undo.
LEMMA GoOn ==
  ASSUME Safe, NEW c \in Client, NEW at \in PC \ (Tx \cup {"index"}), Stay, Goto(c, at),
         pc[c] \notin Tx \cup {"index"}, UNCHANGED <<pend, req, scan, row>>
  PROVE  /\ pc' \in [Client -> PC] /\ pc'[c] = at /\ req'[c] = req[c]
         /\ pend' \in [Client -> [Key -> Row \cup {None}]]
         /\ scan' \in [Client -> SUBSET Point] /\ row' \in [Client -> Point \cup {None}]
         /\ PendOK(c)' /\ Careful(c)
<1>1. pc' \in [Client -> PC] /\ pc'[c] = at
  BY DEF Goto, Safe, TypeOK
<1>2. pend[c] = NoChange
  BY DEF Safe, PendOK
<1>3. PendOK(c)'
  BY <1>1, <1>2, TablesAreDisjoint DEF PendOK, NoChange, Key, Id
<1>4. Careful(c)
  BY DEF Careful, Stay
<1> QED
  BY <1>1, <1>3, <1>4 DEF Safe, TypeOK

LEMMA FindDeviceOwn ==
  ASSUME Safe, NEW c \in Client, FindDevice(c)
  PROVE  Good(c)
<1>1. CASE Finish(c, "noDevice")
  BY <1>1, FinishOwn DEF Answers
<1>2. CASE ~Finish(c, "noDevice")
  <2>1. PICK d \in Holders(db, Device, req[c].device) : dev' = [dev EXCEPT ![c] = d]
    BY <1>2 DEF FindDevice
  <2>2. Goto(c, "find") /\ Stay /\ UNCHANGED <<pend, req, key, created, scan, row>>
    BY <1>2 DEF FindDevice
  <2>3. pc[c] = "device" /\ d \in Device
    BY <2>1 DEF FindDevice, Holders
  <2>4. dev' \in [Client -> Device \cup {None}] /\ dev'[c] \in Device
    BY <2>1, <2>3 DEF Safe, TypeOK
  <2>5. /\ pc' \in [Client -> PC] /\ pc'[c] = "find" /\ req'[c] = req[c]
        /\ pend' \in [Client -> [Key -> Row \cup {None}]]
        /\ scan' \in [Client -> SUBSET Point] /\ row' \in [Client -> Point \cup {None}]
        /\ PendOK(c)' /\ Careful(c)
    BY <2>2, <2>3, GoOn DEF PC, Tx
  <2>6. TypeOK' /\ UniqueNames' /\ Keeps
    <3>1. /\ key' \in [Client -> Device \cup Point \cup {None}]
          /\ created' \in [Client -> BOOLEAN]
      BY <2>2 DEF Safe, TypeOK
    <3> QED
      BY <2>2, <2>4, <2>5, <3>1, StayOwn
  <2>7. RequestOK(c)'
    BY <2>2, <2>3, <2>4, <2>5 DEF Safe, RequestOK, Tx, Imports
  <2> QED
    BY <2>5, <2>6, <2>7 DEF Good
<1> QED
  BY <1>1, <1>2

LEMMA FindRecordOwn ==
  ASSUME Safe, NEW c \in Client, FindRecord(c)
  PROVE  Good(c)
<1> DEFINE table == Table(req[c])
           at == IF OfPoint(req[c]) THEN "check" ELSE "store"
<1>1. /\ pc[c] = "find" /\ Goto(c, at) /\ Stay /\ UNCHANGED <<pend, req, dev, scan, row>>
  BY DEF FindRecord
<1>2. req[c] \in Request /\ req[c].op \in Imports /\ (OfPoint(req[c]) => dev[c] \in Device)
  BY <1>1 DEF Safe, RequestOK
<1>3. table \subseteq Device \cup Point
  BY <1>2, RequestFields DEF Table, Point
<1>4. PICK k \in table \cup {None} : key' = [key EXCEPT ![c] = k]
  BY DEF FindRecord, Holders
<1>5. created' \in [Client -> BOOLEAN]
  <2>1. created \in [Client -> BOOLEAN]
    BY DEF Safe, TypeOK
  <2>2. \E b \in BOOLEAN : created' = [created EXCEPT ![c] = b]
    BY DEF FindRecord
  <2> QED
    BY <2>1, <2>2
<1>6. key' \in [Client -> Device \cup Point \cup {None}] /\ key'[c] = k
  BY <1>3, <1>4 DEF Safe, TypeOK
<1>7. /\ pc' \in [Client -> PC] /\ pc'[c] = at /\ req'[c] = req[c]
      /\ PendOK(c)' /\ Careful(c)
  BY <1>1, GoOn DEF PC, Tx
<1>8. TypeOK' /\ UniqueNames' /\ Keeps
  <2>1. UNCHANGED <<pend, req, dev, scan, row>> /\ Stay
    BY <1>1
  <2>2. /\ pend \in [Client -> [Key -> Row \cup {None}]] /\ req \in [Client -> Request \cup {None}]
        /\ dev \in [Client -> Device \cup {None}] /\ scan \in [Client -> SUBSET Point]
        /\ row \in [Client -> Point \cup {None}]
    BY DEF Safe, TypeOK
  <2> HIDE DEF table, at
  <2> QED
    BY <1>5, <1>6, <1>7, <2>1, <2>2, StayOwn
<1>9. RequestOK(c)'
  <2>1. scan'[c] = {}
    BY <1>1 DEF Safe, RequestOK
  <2> QED
    BY <1>1, <1>2, <1>6, <1>7, <2>1 DEF RequestOK, Tx, Imports, Saves, OfPoint
<1> QED
  BY <1>7, <1>8, <1>9 DEF Good

LEMMA CheckOwn ==
  ASSUME Safe, NEW c \in Client, CheckDevice(c) \/ FindFails(c)
  PROVE  Good(c)
<1>1. CASE \E a \in Answers : Finish(c, a)
  BY <1>1, FinishOwn
<1>2. CASE ~\E a \in Answers : Finish(c, a)
  <2>1. PICK at \in {"check", "store"} :
          /\ Goto(c, at) /\ Stay /\ UNCHANGED <<pend, req, key, dev, created, scan, row>>
          /\ \/ at = "check" /\ pc[c] = "find" /\ OfPoint(req[c])
             \/ at = "store" /\ pc[c] = "check"
    BY <1>2 DEF CheckDevice, FindFails, Answers
  <2>2. /\ pc' \in [Client -> PC] /\ pc'[c] = at /\ req'[c] = req[c]
        /\ PendOK(c)' /\ Careful(c)
    BY <2>1, GoOn DEF PC, Tx
  <2>3. TypeOK' /\ UniqueNames' /\ Keeps
    BY <2>1, <2>2, StayOwn DEF Safe, TypeOK
  <2>4. RequestOK(c)'
    BY <2>1, <2>2 DEF Safe, RequestOK, Tx, OfPoint, Saves
  <2> QED
    BY <2>2, <2>3, <2>4 DEF Good
<1> QED
  BY <1>1, <1>2

-----------------------------------------------------------------------------
(* The statements that change the tables.                                  *)

\* The row of a save.
LEMMA SavedRow ==
  ASSUME Safe, NEW c \in Client, pc[c] \in {"store", "index"}, NEW k \in Table(req[c])
  PROVE  /\ Table(req[c]) \in {Device, Coll, Write} /\ req[c] \in Request
         /\ k \in Id /\ k \in Key /\ k \notin Group /\ (OfPoint(req[c]) <=> k \in Point)
         /\ NewRow(c).live /\ NewRow(c).name = req[c].name /\ NewRow(c) \in Row
         /\ k \in Device => NewRow(c) \in DeviceRow
         /\ k \in Point => NewRow(c) \in PointRow
<1>1. /\ req[c] \in Request /\ req[c].op \in Saves
      /\ OfPoint(req[c]) => dev[c] \in Device
  BY DEF Safe, RequestOK
<1>2. Table(req[c]) \in {Device, Coll, Write}
  BY <1>1, RequestFields, TablesAreDisjoint DEF Table
<1>3. k \in Id /\ k \in Key /\ k \notin Group
  BY <1>2, TablesAreDisjoint DEF Id, Point
<1>4. CASE OfPoint(req[c])
  <2>1. k \in Point /\ k \notin Device
    BY <1>1, <1>4, RequestFields, TablesAreDisjoint DEF Table, Point
  <2>2. NewRow(c) \in PointRow /\ NewRow(c).live /\ NewRow(c).name = req[c].name
    BY <1>1, <1>4, RequestFields DEF NewRow, PointRow
  <2> QED
    BY <1>1, <1>2, <1>3, <1>4, <2>1, <2>2 DEF Row
<1>5. CASE ~OfPoint(req[c])
  <2>1. k \in Device /\ k \notin Point
    BY <1>1, <1>5, TablesAreDisjoint DEF Table
  <2>2. req[c].op \in {"saveDevice", "importDevice"}
    BY <1>1, <1>5 DEF Saves, OfPoint
  <2>3. NewRow(c) \in DeviceRow /\ NewRow(c).live /\ NewRow(c).name = req[c].name
    BY <1>1, <1>5, <2>2, RequestFields DEF NewRow, DeviceRow
  <2> QED
    BY <1>1, <1>2, <1>3, <1>5, <2>1, <2>3 DEF Row
<1> QED
  BY <1>4, <1>5

\* A row with a name nobody else has in its table.
LEMMA StoreOwn ==
  ASSUME Safe, NEW c \in Client, pc[c] \in {"store", "index"}, NEW k \in Table(req[c]),
         StoreRow(c, k),
         \A h \in Holders(db, Table(req[c]), req[c].name) : h = k,
         \A o \in Client \ {c} : pend[o][k] = None
  PROVE  Good(c)
<1> DEFINE table == Table(req[c])
           new == NewRow(c)
<1>1. /\ table \in {Device, Coll, Write} /\ k \in Id /\ k \in Key /\ k \notin Group
      /\ new.live /\ new.name = req[c].name
      /\ k \in Device => new \in DeviceRow
      /\ k \in Point => new \in PointRow
  BY SavedRow
<1>2. db' = [db EXCEPT ![k] = new] /\ UNCHANGED <<keep, days, countVars>>
  BY DEF StoreRow
<1> HIDE DEF new
<1>3. WellTyped(db')
  BY <1>1, <1>2, ReplacedRow DEF Safe, TypeOK
<1>4. UniqueIn(db')
  <2> SUFFICES ASSUME NEW t \in {Device, Coll, Write}, NEW i \in t, NEW j \in t,
                      db'[i].live, db'[j].live, db'[i].name = db'[j].name, i # j
               PROVE  FALSE
    BY DEF UniqueIn
  <2>1. i \in Key /\ j \in Key /\ db \in [Key -> Row]
    BY TablesAreDisjoint DEF Id, Point, Safe, TypeOK, WellTyped
  <2>2. CASE i # k /\ j # k
    BY <1>2, <2>1, <2>2 DEF Safe, UniqueNames, UniqueIn
  <2>3. ASSUME NEW h \in t, k \in t, h # k, db[h].live, db[h].name = req[c].name
        PROVE  FALSE
    <3>1. t = table
      BY <1>1, <2>3, TablesAreDisjoint
    <3> QED
      BY <2>3, <3>1 DEF Holders
  <2> QED
    BY <1>1, <1>2, <2>1, <2>2, <2>3
<1>5. \A h \in Key : db'[h] = db[h] \/ \A o \in Client \ {c} : pend[o][h] = None
  BY <1>2 DEF Safe, TypeOK, WellTyped
<1>6. Keeps
  BY <1>1, <1>2, MadeRow, TablesAreDisjoint DEF Keeps, Safe, TypeOK, WellTyped, Id
<1>7. PICK a \in Answers : Publish(c, a)
  BY DEF StoreRow, Answers
<1> QED
  BY <1>2, <1>3, <1>4, <1>5, <1>6, <1>7, PublishOwn DEF Safe, TypeOK

\* A row that is locked is a record.
LEMMA LockedRow ==
  ASSUME Safe, NEW o \in Client, NEW k \in Id, pend[o][k] # None
  PROVE  db[k] # Absent
BY DEF Safe, PendOK, PointChange, DeviceChange, OnlyLocked, Saving, Absent, Id

LEMMA InsertOwn ==
  ASSUME Safe, NEW c \in Client, Insert(c)
  PROVE  Good(c)
<1>1. CASE Finish(c, "conflict")
  BY <1>1, FinishOwn DEF Answers
<1>2. CASE ~Finish(c, "conflict")
  <2> DEFINE k == CHOOSE k \in Unused(Table(req[c])) : TRUE
  <2>1. /\ pc[c] = "store" /\ key[c] = None /\ ~NameTaken(c)
        /\ Unused(Table(req[c])) # {} /\ StoreRow(c, k)
    BY <1>2 DEF Insert
  <2>2. k \in Table(req[c]) /\ db[k] = Absent
    BY <2>1 DEF Unused
  <2> HIDE DEF k
  <2>3. k \in Id /\ Table(req[c]) \in {Device, Coll, Write}
    BY <2>1, <2>2, SavedRow
  <2>4. \A o \in Client : pend[o][k] = None
    BY <2>2, <2>3, LockedRow
  <2>5. Holders(db, Table(req[c]), req[c].name) = {}
    BY <2>1, <2>3, NoneIsNothing, TablesAreDisjoint DEF NameTaken, Holders, Id, Point
  <2> QED
    BY <2>1, <2>2, <2>4, <2>5, StoreOwn
<1> QED
  BY <1>1, <1>2

\* The statements of a transaction, and an UPDATE, lock a row.
LEMMA ChangeOwn ==
  ASSUME Safe, NEW c \in Client, NEW k \in Key, NEW new \in Row, Change(c, k, new),
         \A o \in Client \ {c} : pend[o][k] = None, db' = db
  PROVE  /\ pend' \in [Client -> [Key -> Row \cup {None}]] /\ Careful(c)
         /\ pend'[c][k] = new
         /\ \A h \in Key \ {k} : pend'[c][h] = pend[c][h]
BY DEF Change, Safe, TypeOK, Careful

LEMMA UpdateOwn ==
  ASSUME Safe, NEW c \in Client, Update(c)
  PROVE  Good(c)
<1>1. CASE Finish(c, "notFound")
  BY <1>1, FinishOwn DEF Answers
<1>2. CASE ~Finish(c, "notFound")
  <2> DEFINE k == key[c]
             new == NewRow(c)
  <2>1. /\ pc[c] = "store" /\ k # None /\ db[k].live /\ Change(c, k, new)
        /\ Goto(c, "index") /\ Stay /\ UNCHANGED <<req, key, dev, created, scan, row>>
        /\ \A o \in Client \ {c} : pend[o][k] = None
    BY <1>2 DEF Update, Held
  <2>2. k \in Table(req[c])
    BY <2>1 DEF Safe, RequestOK
  <2>3. k \in Id /\ k \in Key /\ k \notin Group /\ new \in Row
    BY <2>1, <2>2, SavedRow
  <2>4. /\ pend' \in [Client -> [Key -> Row \cup {None}]] /\ Careful(c)
        /\ pend'[c][k] = new /\ \A h \in Key \ {k} : pend'[c][h] = pend[c][h]
    <3> HIDE DEF new, k
    <3> QED
      BY <2>1, <2>3, ChangeOwn DEF Stay
  <2>5. \A h \in Key : pend[c][h] = None
    BY <2>1 DEF Safe, PendOK, NoChange, Tx
  <2>6. pc' \in [Client -> PC] /\ pc'[c] = "index" /\ db' = db
    BY <2>1 DEF Goto, Safe, TypeOK, PC, Stay
  <2>7. TypeOK' /\ UniqueNames' /\ Keeps
    <3>1. /\ key' \in [Client -> Device \cup Point \cup {None}] /\ req' = req
          /\ dev' \in [Client -> Device \cup {None}] /\ created' \in [Client -> BOOLEAN]
          /\ scan' \in [Client -> SUBSET Point] /\ row' \in [Client -> Point \cup {None}]
      BY <2>1 DEF Safe, TypeOK
    <3> QED
      BY <2>1, <2>4, <2>6, <3>1, StayOwn
  <2>8. RequestOK(c)'
    <3>1. scan[c] = {}
      BY <2>1 DEF Safe, RequestOK
    <3> QED
      BY <2>1, <2>2, <2>6, <3>1 DEF Safe, RequestOK, Tx
  <2>9. PendOK(c)'
    <3>1. new # None /\ db[k] # Absent
      BY <2>1, <2>3, NoneIsNothing DEF Absent
    <3> HIDE DEF new, k
    <3>2. \A h \in Id : pend'[c][h] # None => Saving(c, h)'
      BY <2>3, <2>4, <2>5, <2>6, <3>1, TablesAreDisjoint DEF Saving
    <3>3. \A g \in Group : pend'[c][g] = None
      BY <2>3, <2>4, <2>5, TablesAreDisjoint
    <3>4. pend'[c][key'[c]] # None
      BY <2>1, <2>4, <3>1 DEF k
    <3> QED
      BY <2>6, <3>2, <3>3, <3>4 DEF PendOK, Id
  <2> QED
    BY <2>4, <2>7, <2>8, <2>9 DEF Good
<1> QED
  BY <1>1, <1>2

LEMMA IndexOwn ==
  ASSUME Safe, NEW c \in Client, Index(c)
  PROVE  Good(c)
<1>1. CASE Finish(c, "conflict")
  BY <1>1, FinishOwn DEF Answers
<1>2. CASE ~Finish(c, "conflict")
  <2>1. pc[c] = "index" /\ ~NameTaken(c) /\ StoreRow(c, key[c])
    BY <1>2 DEF Index
  <2>2. key[c] \in Table(req[c]) /\ pend[c][key[c]] # None
    BY <2>1 DEF Safe, RequestOK, PendOK
  <2>3. key[c] \in Key
    BY <2>1, <2>2, SavedRow
  <2>4. \A o \in Client \ {c} : pend[o][key[c]] = None
    BY <2>2, <2>3 DEF Safe, LocksOK
  <2> QED
    BY <2>1, <2>2, <2>4, StoreOwn DEF NameTaken
<1> QED
  BY <1>1, <1>2

LEMMA RemoveOwn ==
  ASSUME Safe, NEW c \in Client, Remove(c)
  PROVE  Good(c)
<1>1. CASE Finish(c, "notFound")
  BY <1>1, FinishOwn DEF Answers
<1>2. CASE ~Finish(c, "notFound")
  <2> DEFINE k == key[c]
  <2>1. /\ pc[c] = "remove" /\ db[k].live /\ db' = [db EXCEPT ![k].live = FALSE]
        /\ Publish(c, "ok") /\ UNCHANGED <<keep, days, countVars>>
        /\ \A o \in Client \ {c} : pend[o][k] = None
    BY <1>2 DEF Remove, Held
  <2>2. k \in Point /\ k \in Key /\ k \notin Device /\ k \notin Group
    BY <2>1, TablesAreDisjoint DEF Safe, RequestOK, Id
  <2>3. db[k] \in PointRow /\ db \in [Key -> Row]
    BY <2>1, <2>2, LiveRow DEF Safe, TypeOK, WellTyped
  <2>4. [db[k] EXCEPT !.live = FALSE] \in PointRow
    BY <2>3, ChangedRow
  <2>5. db' = [db EXCEPT ![k] = [db[k] EXCEPT !.live = FALSE]]
    BY <2>1, <2>2, <2>3
  <2>6. WellTyped(db')
    BY <2>2, <2>4, <2>5, ReplacedRow DEF Safe, TypeOK, Id
  <2>7. \A h \in Key : db'[h] = db[h] \/ (h = k /\ ~db'[h].live)
    BY <2>2, <2>3, <2>5 DEF PointRow
  <2>8. UniqueIn(db')
    BY <2>7, TablesAreDisjoint DEF UniqueIn, Safe, UniqueNames, Id, Point
  <2>9. Keeps
    BY <2>2, <2>4, <2>5, <2>7, MadeRow, TablesAreDisjoint
       DEF Keeps, Safe, TypeOK, WellTyped, Id
  <2>10. keep' \in 1..730 /\ days' \in 1..730 /\ "ok" \in Answers
    BY <2>1 DEF Safe, TypeOK, Answers
  <2>11. \A h \in Key : db'[h] = db[h] \/ \A o \in Client \ {c} : pend[o][h] = None
    BY <2>1, <2>7
  <2> QED
    BY <2>1, <2>6, <2>8, <2>9, <2>10, <2>11, PublishOwn
<1> QED
  BY <1>1, <1>2

\* A commit makes the changes of the transaction visible.
LEMMA CommitOwn ==
  ASSUME Safe, NEW c \in Client, Commit(c)
  PROVE  Good(c)
<1>1. /\ db' = [k \in Key |-> See(c, k)] /\ Publish(c, "ok")
      /\ UNCHANGED <<keep, days, countVars>>
  BY DEF Commit
<1>2. \A p \in Point : pend[c][p] # None =>
         /\ db[p] \in PointRow /\ pend[c][p] \in PointRow
         /\ pend[c][p].name = db[p].name /\ (pend[c][p].live => db[p].live)
  <2> SUFFICES ASSUME NEW p \in Point, pend[c][p] # None
               PROVE  /\ db[p] \in PointRow /\ pend[c][p] \in PointRow
                      /\ pend[c][p].name = db[p].name /\ (pend[c][p].live => db[p].live)
    OBVIOUS
  <2>1. PointChange(c, p) \/ OnlyLocked(c, p)
    BY DEF Commit, Safe, PendOK, Saving
  <2>2. CASE OnlyLocked(c, p)
    BY <2>2 DEF OnlyLocked, Safe, TypeOK, WellTyped
  <2>3. CASE PointChange(c, p)
    <3>1. db[p] \in PointRow /\ db[p].live
      BY <2>3, LiveRow DEF PointChange, Safe, TypeOK
    <3>2. req[c] \in Request
      BY DEF Commit, Safe, RequestOK
    <3>3. req[c].op \in {"updateGroup", "deleteGroup"} => Target(req[c]) \in Group
      BY <3>2, RequestFields, TablesAreDisjoint DEF Target
    <3>4. CASE pend[c][p] = [db[p] EXCEPT !.live = FALSE]
      BY <3>1, <3>4, ChangedRow
    <3>5. CASE \E g \in Group : pend[c][p] = [db[p] EXCEPT !.group = g]
      BY <3>1, <3>5, ChangedRow
    <3> QED
      BY <2>3, <3>3, <3>4, <3>5 DEF PointChange
  <2> QED
    BY <2>1, <2>2, <2>3
<1>3. \A d \in Device : pend[c][d] # None =>
         /\ db[d] \in DeviceRow /\ pend[c][d] \in DeviceRow
         /\ pend[c][d].name = db[d].name /\ (pend[c][d].live => db[d].live)
  <2> SUFFICES ASSUME NEW d \in Device, pend[c][d] # None
               PROVE  /\ db[d] \in DeviceRow /\ pend[c][d] \in DeviceRow
                      /\ pend[c][d].name = db[d].name /\ (pend[c][d].live => db[d].live)
    OBVIOUS
  <2>1. DeviceChange(c, d)
    BY DEF Commit, Safe, PendOK, Saving
  <2>2. db[d] \in DeviceRow
    BY <2>1, LiveRow DEF DeviceChange, Safe, TypeOK
  <2> QED
    BY <2>1, <2>2, ChangedRow DEF DeviceChange
<1>4. \A g \in Group : pend[c][g] # None => pend[c][g] \in GroupRow \cup {Absent}
  BY DEF Safe, PendOK
<1>5. \A k \in Key : db'[k] = IF pend[c][k] # None THEN pend[c][k] ELSE db[k]
  BY <1>1 DEF See
<1>6. WellTyped(db')
  <2>1. \A k \in Key : db'[k] \in Row
    BY <1>2, <1>3, <1>4, <1>5, TablesAreDisjoint DEF Safe, TypeOK, WellTyped, Row, Id
  <2> QED
    BY <1>1, <1>2, <1>3, <1>4, <1>5, <2>1, TablesAreDisjoint DEF Safe, TypeOK, WellTyped, Id
<1>7. UniqueIn(db')
  <2>1. \A k \in Id : db'[k].live => db[k].live /\ db'[k].name = db[k].name
    BY <1>2, <1>3, <1>5, TablesAreDisjoint DEF Id
  <2> QED
    BY <2>1 DEF Safe, UniqueNames, UniqueIn, Id, Point
<1>8. \A k \in Key : db'[k] = db[k] \/ \A o \in Client \ {c} : pend[o][k] = None
  BY <1>5 DEF Safe, LocksOK
<1>9. Keeps
  BY <1>2, <1>3, <1>5, MadeRow, TablesAreDisjoint DEF Keeps, Id
<1>10. keep' \in 1..730 /\ days' \in 1..730 /\ "ok" \in Answers
  BY <1>1 DEF Safe, TypeOK, Answers
<1> QED
  BY <1>1, <1>6, <1>7, <1>8, <1>9, <1>10, PublishOwn

LEMMA SettingOwn ==
  ASSUME Safe, NEW c \in Client, AlterKeep(c) \/ AlterUnanswered(c) \/ RecordDays(c)
  PROVE  Good(c)
<1>1. CASE Finish(c, "rejected")
  BY <1>1, FinishOwn DEF Answers
<1>2. CASE Alter(c) /\ pc[c] = "alter" /\ req[c].days \in 1..730
  <2>1. pc' \in [Client -> PC] /\ pc'[c] = "record" /\ disturbed' \in [Client -> BOOLEAN]
    BY <1>2 DEF Alter, Goto, Safe, TypeOK, PC
  <2>2. TypeOK' /\ UniqueNames' /\ Keeps
    BY <1>2, <2>1 DEF Alter, Safe, TypeOK, WellTyped, UniqueNames, UniqueIn, countVars, Keeps
  <2>3. RequestOK(c)'
    BY <1>2, <2>1 DEF Alter, Safe, RequestOK, Tx
  <2>4. pend[c] = NoChange /\ pend' = pend /\ db' = db
    BY <1>2 DEF Alter, Safe, PendOK, Tx
  <2>5. PendOK(c)' /\ Careful(c)
    BY <2>1, <2>4, TablesAreDisjoint DEF PendOK, Careful, NoChange, Key, Id
  <2> QED
    BY <2>2, <2>3, <2>5 DEF Good
<1>3. CASE AlterUnanswered(c)
  <2>1. keep' \in 1..730 /\ days' \in 1..730 /\ db' = db /\ UNCHANGED countVars
    BY <1>3 DEF AlterUnanswered, Safe, TypeOK
  <2>2. Publish(c, "error")
    BY <1>3 DEF AlterUnanswered
  <2>3. WellTyped(db') /\ UniqueIn(db')
    BY <2>1 DEF Safe, TypeOK, WellTyped, UniqueNames, UniqueIn
  <2>4. Keeps /\ \A k \in Key : db'[k] = db[k]
    BY <2>1 DEF Keeps
  <2>5. "error" \in Answers
    BY DEF Answers
  <2> QED
    BY <2>1, <2>2, <2>3, <2>4, <2>5, PublishOwn
<1>4. CASE RecordDays(c)
  <2>1. req[c].days \in 1..730
    BY <1>4 DEF RecordDays, Safe, RequestOK, Tx
  <2>2. keep' \in 1..730 /\ days' \in 1..730 /\ db' = db /\ UNCHANGED countVars
    BY <1>4, <2>1 DEF RecordDays, Safe, TypeOK
  <2>3. Publish(c, "ok")
    BY <1>4 DEF RecordDays
  <2>4. WellTyped(db') /\ UniqueIn(db')
    BY <2>2 DEF Safe, TypeOK, WellTyped, UniqueNames, UniqueIn
  <2>5. Keeps /\ \A k \in Key : db'[k] = db[k]
    BY <2>2 DEF Keeps
  <2>6. "ok" \in Answers
    BY DEF Answers
  <2> QED
    BY <2>2, <2>3, <2>4, <2>5, <2>6, PublishOwn
<1> QED
  BY <1>1, <1>2, <1>3, <1>4 DEF AlterKeep

-----------------------------------------------------------------------------
(* The statements inside of transactions.                                  *)

LEMMA DeleteDeviceOwn ==
  ASSUME Safe, NEW c \in Client, DeleteDevice(c)
  PROVE  Good(c)
<1>1. CASE Finish(c, "notFound")
  BY <1>1, FinishOwn DEF Answers
<1>2. CASE ~Finish(c, "notFound")
  <2> DEFINE k == key[c]
             new == [db[k] EXCEPT !.live = FALSE]
  <2>1. /\ pc[c] = "begin" /\ req[c].op = "deleteDevice" /\ db[k].live /\ Change(c, k, new)
        /\ Goto(c, "scanColl") /\ Stay /\ UNCHANGED <<req, key, dev, created, scan, row>>
        /\ \A o \in Client \ {c} : pend[o][k] = None
    BY <1>2 DEF DeleteDevice, Held
  <2>2. k \in Device /\ k \in Key /\ k \notin Point /\ k \notin Group
    BY <2>1, TablesAreDisjoint DEF Safe, RequestOK, Id
  <2>3. db[k] \in DeviceRow /\ new \in DeviceRow /\ new \in Row
    BY <2>1, <2>2, LiveRow, ChangedRow DEF Safe, TypeOK, Row
  <2>4. /\ pend' \in [Client -> [Key -> Row \cup {None}]] /\ Careful(c)
        /\ pend'[c][k] = new /\ \A h \in Key \ {k} : pend'[c][h] = pend[c][h]
    BY <2>1, <2>2, <2>3, ChangeOwn DEF Stay
  <2>5. \A h \in Key : pend[c][h] = None
    BY <2>1 DEF Safe, PendOK, NoChange, Tx
  <2>6. pc' \in [Client -> PC] /\ pc'[c] = "scanColl" /\ db' = db
    BY <2>1 DEF Goto, Safe, TypeOK, PC, Stay
  <2>7. TypeOK' /\ UniqueNames' /\ Keeps
    <3>1. /\ key' \in [Client -> Device \cup Point \cup {None}] /\ req' = req
          /\ dev' \in [Client -> Device \cup {None}] /\ created' \in [Client -> BOOLEAN]
          /\ scan' \in [Client -> SUBSET Point] /\ row' \in [Client -> Point \cup {None}]
      BY <2>1 DEF Safe, TypeOK
    <3> QED
      BY <2>1, <2>4, <2>6, <3>1, StayOwn
  <2>8. RequestOK(c)'
    <3>1. scan[c] = {} /\ ~created[c]
      BY <2>1 DEF Safe, RequestOK
    <3> QED
      BY <2>1, <2>2, <2>6, <3>1 DEF Safe, RequestOK, Tx, TxOps
  <2>9. PendOK(c)'
    <3>1. \A p \in Point : pend'[c][p] = None
      BY <2>2, <2>4, <2>5, TablesAreDisjoint DEF Id
    <3>2. \A g \in Group : pend'[c][g] = None
      BY <2>2, <2>4, <2>5, TablesAreDisjoint DEF Id
    <3>3. \A d \in Device : pend'[c][d] # None => DeviceChange(c, d)'
      BY <2>1, <2>2, <2>4, <2>5, <2>6, TablesAreDisjoint DEF DeviceChange, Id
    <3> QED
      BY <2>6, <3>1, <3>2, <3>3 DEF PendOK, Tx
  <2> QED
    BY <2>4, <2>7, <2>8, <2>9 DEF Good
<1> QED
  BY <1>1, <1>2

LEMMA CreateGroupOwn ==
  ASSUME Safe, NEW c \in Client, CreateGroup(c)
  PROVE  Good(c)
<1>1. CASE Finish(c, "conflict")
  BY <1>1, FinishOwn DEF Answers
<1>2. CASE ~Finish(c, "conflict")
  <2> DEFINE g == req[c].group
  <2>1. /\ db' = [db EXCEPT ![g] = [live |-> TRUE]] /\ Publish(c, "ok")
        /\ UNCHANGED <<keep, days, countVars>>
        /\ \A o \in Client \ {c} : pend[o][g] = None
    BY <1>2 DEF CreateGroup, Held
  <2>2. g \in Group /\ g \in Key /\ g \notin Id
    BY RequestFields, TablesAreDisjoint DEF CreateGroup, Safe, RequestOK
  <2>3. [live |-> TRUE] \in GroupRow /\ [live |-> TRUE] \in Row
    BY DEF GroupRow, Row
  <2>4. \A k \in Key : k # g => db'[k] = db[k]
    BY <2>1 DEF Safe, TypeOK, WellTyped
  <2>5. WellTyped(db')
    BY <2>1, <2>2, <2>3, <2>4, TablesAreDisjoint DEF Safe, TypeOK, WellTyped, Id
  <2>6. \A k \in Id : db'[k] = db[k]
    BY <2>2, <2>4, TablesAreDisjoint
  <2>7. UniqueIn(db') /\ Keeps
    BY <2>6 DEF UniqueIn, Safe, UniqueNames, Keeps, Id, Point
  <2>8. keep' \in 1..730 /\ days' \in 1..730 /\ "ok" \in Answers
    BY <2>1 DEF Safe, TypeOK, Answers
  <2>9. \A k \in Key : db'[k] = db[k] \/ \A o \in Client \ {c} : pend[o][k] = None
    BY <2>1, <2>4
  <2> QED
    BY <2>1, <2>5, <2>7, <2>8, <2>9, PublishOwn
<1> QED
  BY <1>1, <1>2

LEMMA InsertGroupOwn ==
  ASSUME Safe, NEW c \in Client, InsertGroup(c)
  PROVE  Good(c)
<1> DEFINE q == req[c]
           g == Target(q)
<1>1. CASE \E a \in Answers : Finish(c, a)
  BY <1>1, FinishOwn
<1>2. CASE ~\E a \in Answers : Finish(c, a)
  <2>1. /\ pc[c] = "begin" /\ q.op \in {"updateGroup", "deleteGroup"}
        /\ Stay /\ UNCHANGED <<req, key, dev, created, scan, row>> /\ ~Held(c, g)
    BY <1>2 DEF InsertGroup, Answers
  <2>2. Goto(c, "scanColl") /\ (Change(c, g, [live |-> TRUE]) \/ pend' = pend)
    BY <1>2 DEF InsertGroup, Answers
  <2>3. q \in Request /\ g \in Group
    BY <2>1, RequestFields, TablesAreDisjoint DEF Safe, RequestOK, Target
  <2>4. \A h \in Key : pend[c][h] = None
    BY <2>1 DEF Safe, PendOK, NoChange, Tx
  <2>5. g \in Key /\ g \notin Device /\ g \notin Point /\ [live |-> TRUE] \in Row \cap GroupRow
    <3>1. [live |-> TRUE] \in GroupRow
      BY DEF GroupRow
    <3>2. [live |-> TRUE] \in Row
      BY <3>1 DEF Row
    <3> HIDE DEF g
    <3> QED
      BY <2>3, <3>1, <3>2, TablesAreDisjoint DEF Id
  <2>6. db' = db /\ \A o \in Client \ {c} : pend[o][g] = None
    BY <2>1 DEF Stay, Held
  <2>7. /\ pend' \in [Client -> [Key -> Row \cup {None}]] /\ Careful(c)
        /\ pend'[c][g] \in GroupRow \cup {None}
        /\ \A h \in Key \ {g} : pend'[c][h] = None
    <3> HIDE DEF g
    <3>1. CASE Change(c, g, [live |-> TRUE])
      <4>1. /\ pend' \in [Client -> [Key -> Row \cup {None}]] /\ Careful(c)
            /\ pend'[c][g] = [live |-> TRUE]
            /\ \A h \in Key \ {g} : pend'[c][h] = pend[c][h]
        BY <2>5, <2>6, <3>1, ChangeOwn
      <4> QED
        BY <2>4, <2>5, <4>1
    <3>2. CASE pend' = pend
      BY <2>4, <2>5, <2>6, <3>2 DEF Safe, TypeOK, Careful
    <3> QED
      BY <2>2, <3>1, <3>2
  <2>8. pc' \in [Client -> PC] /\ pc'[c] = "scanColl"
    BY <2>2 DEF Goto, Safe, TypeOK, PC
  <2>9. TypeOK' /\ UniqueNames' /\ Keeps
    <3>1. /\ key' \in [Client -> Device \cup Point \cup {None}] /\ req' = req
          /\ dev' \in [Client -> Device \cup {None}] /\ created' \in [Client -> BOOLEAN]
          /\ scan' \in [Client -> SUBSET Point] /\ row' \in [Client -> Point \cup {None}]
      BY <2>1 DEF Safe, TypeOK
    <3> QED
      BY <2>1, <2>7, <2>8, <3>1, StayOwn
  <2>10. RequestOK(c)'
    <3>1. scan[c] = {} /\ ~created[c]
      BY <2>1 DEF Safe, RequestOK
    <3> QED
      BY <2>1, <2>3, <2>8, <3>1 DEF RequestOK, Tx, TxOps
  <2>11. PendOK(c)'
    BY <2>3, <2>5, <2>7, <2>8, TablesAreDisjoint DEF PendOK, Tx, Key, Id
  <2> QED
    BY <2>7, <2>9, <2>10, <2>11 DEF Good
<1> QED
  BY <1>1, <1>2

LEMMA DropGroupOwn ==
  ASSUME Safe, NEW c \in Client, DropGroup(c)
  PROVE  Good(c)
<1> DEFINE q == req[c]
           g == q.group
<1>1. CASE \E a \in Answers : Finish(c, a)
  BY <1>1, FinishOwn
<1>2. CASE ~\E a \in Answers : Finish(c, a)
  <2>1. /\ pc[c] = "last" /\ Goto(c, "commit")
        /\ Stay /\ UNCHANGED <<req, key, dev, created, scan, row>>
        /\ (~Held(c, g) /\ Change(c, g, Absent)) \/ pend' = pend
    BY <1>2 DEF DropGroup, Answers
  <2>2. /\ q \in Request /\ q.op \in {"updateGroup", "deleteGroup"} /\ g \in Group
        /\ scan[c] = {} /\ ~created[c]
    BY <2>1, RequestFields DEF Safe, RequestOK, Tx, TxOps
  <2>3. g \in Key /\ g \notin Device /\ g \notin Point /\ Absent \in Row
    BY <2>2, TablesAreDisjoint DEF Row, Id
  <2>4. db' = db /\ req' = req /\ key' = key
    BY <2>1 DEF Stay
  <2>5. /\ pend' \in [Client -> [Key -> Row \cup {None}]] /\ Careful(c)
        /\ pend'[c][g] = Absent \/ pend'[c][g] = pend[c][g]
        /\ \A h \in Key \ {g} : pend'[c][h] = pend[c][h]
    <3>1. CASE ~Held(c, g) /\ Change(c, g, Absent)
      BY <2>3, <2>4, <3>1, ChangeOwn DEF Held
    <3>2. CASE pend' = pend
      BY <2>3, <2>4, <3>2 DEF Safe, TypeOK, Careful
    <3> QED
      BY <2>1, <3>1, <3>2
  <2>6. pc' \in [Client -> PC] /\ pc'[c] = "commit"
    BY <2>1 DEF Goto, Safe, TypeOK, PC
  <2>7. TypeOK' /\ UniqueNames' /\ Keeps
    <3>1. /\ key' \in [Client -> Device \cup Point \cup {None}] /\ req' = req
          /\ dev' \in [Client -> Device \cup {None}] /\ created' \in [Client -> BOOLEAN]
          /\ scan' \in [Client -> SUBSET Point] /\ row' \in [Client -> Point \cup {None}]
      BY <2>1 DEF Safe, TypeOK
    <3> QED
      BY <2>1, <2>5, <2>6, <3>1, StayOwn
  <2>8. RequestOK(c)'
    BY <2>1, <2>2, <2>6 DEF RequestOK, Tx, TxOps
  <2>9. PendOK(c)'
    <3>1. PendOK(c)
      BY DEF Safe
    <3>2. \A p \in Point : pend'[c][p] = pend[c][p] /\ (PointChange(c, p) => PointChange(c, p)')
                         /\ (OnlyLocked(c, p) => OnlyLocked(c, p)')
      BY <2>3, <2>4, <2>5, TablesAreDisjoint DEF PointChange, OnlyLocked, Id
    <3>3. \A d \in Device : pend'[c][d] = pend[c][d] /\ (DeviceChange(c, d) => DeviceChange(c, d)')
      BY <2>3, <2>4, <2>5, TablesAreDisjoint DEF DeviceChange, Id
    <3>4. \A h \in Group : pend'[c][h] \in GroupRow \cup {Absent, None}
      BY <2>5, <3>1, TablesAreDisjoint DEF PendOK, Id
    <3> QED
      BY <2>1, <2>6, <3>1, <3>2, <3>3, <3>4 DEF PendOK, Saving, Tx
  <2> QED
    BY <2>5, <2>7, <2>8, <2>9 DEF Good
<1> QED
  BY <1>1, <1>2

\* A statement that changes many rows gets to one of those it has left, or is done.
LEMMA ReachOwn ==
  ASSUME Safe, NEW c \in Client, NEW at \in {"moveColl", "moveWrite"},
         NEW left \in SUBSET (IF at = "moveColl" THEN Coll ELSE Write),
         pc[c] \in IF at = "moveColl" THEN {"scanColl", "moveColl"}
                                      ELSE {"scanWrite", "moveWrite"},
         \A p \in left : db[p] # Absent,
         Reach(c, left, at), Stay, UNCHANGED <<req, key, dev, created>>
  PROVE  /\ pc' \in [Client -> PC] /\ pc'[c] \in Tx /\ RequestOK(c)'
         /\ scan' \in [Client -> SUBSET Point] /\ row' \in [Client -> Point \cup {None}]
<1>1. /\ req[c] \in Request /\ req[c].op \in TxOps /\ ~created[c]
      /\ req[c].op = "deleteDevice" => key[c] \in Device
  BY DEF Safe, RequestOK, Tx
<1>2. /\ req'[c] = req[c] /\ key'[c] = key[c] /\ created'[c] = created[c] /\ db' = db
      /\ left \subseteq Point
  BY DEF Stay, Point
<1>3. CASE left = {} /\ Goto(c, NextStatement(c)) /\ scan' = [scan EXCEPT ![c] = {}]
           /\ row' = [row EXCEPT ![c] = None]
  <2>1. /\ NextStatement(c) \in {"scanWrite", "commit", "last"}
        /\ NextStatement(c) = "last" => req[c].op # "deleteDevice"
    BY DEF NextStatement
  <2>2. /\ pc' \in [Client -> PC] /\ pc'[c] = NextStatement(c) /\ scan'[c] = {}
        /\ scan' \in [Client -> SUBSET Point] /\ row' \in [Client -> Point \cup {None}]
    BY <1>3, <2>1 DEF Goto, Safe, TypeOK, PC
  <2> QED
    BY <1>1, <1>2, <2>1, <2>2 DEF RequestOK, Tx
<1>4. CASE /\ Goto(c, at) /\ scan' = [scan EXCEPT ![c] = left]
           /\ \E k \in left : row' = [row EXCEPT ![c] = k]
  <2>1. /\ pc' \in [Client -> PC] /\ pc'[c] = at /\ scan'[c] = left /\ row'[c] \in left
        /\ scan' \in [Client -> SUBSET Point] /\ row' \in [Client -> Point \cup {None}]
    BY <1>2, <1>4 DEF Goto, Safe, TypeOK, PC
  <2> QED
    BY <1>1, <1>2, <2>1 DEF RequestOK, Tx
<1> QED
  BY <1>3, <1>4 DEF Reach

LEMMA ScanOwn ==
  ASSUME Safe, NEW c \in Client, Scan(c)
  PROVE  Good(c)
<1>1. /\ pc[c] \in {"scanColl", "scanWrite"} /\ Stay
      /\ UNCHANGED <<pend, req, key, dev, created>>
  BY DEF Scan
<1>2. PICK S \in SUBSET Point, at \in {"moveColl", "moveWrite"} :
        /\ S \subseteq IF at = "moveColl" THEN Coll ELSE Write
        /\ \A p \in S : Matches(c, p)
        /\ pc[c] = IF at = "moveColl" THEN "scanColl" ELSE "scanWrite"
        /\ Reach(c, S, at)
  BY DEF Scan, Point
<1>3. \A p \in S : db[p] # Absent
  <2> SUFFICES ASSUME NEW p \in S PROVE db[p] # Absent
    OBVIOUS
  <2>1. CASE pend[c][p] # None
    BY <2>1, LockedRow DEF Id
  <2>2. CASE pend[c][p] = None
    BY <1>2, <2>2 DEF Matches, See, Absent
  <2> QED
    BY <2>1, <2>2
<1>4. /\ pc' \in [Client -> PC] /\ pc'[c] \in Tx /\ RequestOK(c)'
      /\ scan' \in [Client -> SUBSET Point] /\ row' \in [Client -> Point \cup {None}]
  BY <1>1, <1>2, <1>3, ReachOwn
<1>5. TypeOK' /\ UniqueNames' /\ Keeps
  <2>1. /\ key' \in [Client -> Device \cup Point \cup {None}] /\ req' = req
        /\ dev' \in [Client -> Device \cup {None}] /\ created' \in [Client -> BOOLEAN]
        /\ pend' \in [Client -> [Key -> Row \cup {None}]]
    BY <1>1 DEF Safe, TypeOK
  <2> QED
    BY <1>1, <1>4, <2>1, StayOwn
<1>6. PendOK(c)'
  BY <1>1, <1>4 DEF Safe, PendOK, PointChange, DeviceChange, OnlyLocked, Saving, Stay, Tx
<1>7. Careful(c)
  BY <1>1 DEF Careful, Stay
<1> QED
  BY <1>4, <1>5, <1>6, <1>7 DEF Good

\* A matching row is one the transaction has not changed yet, or one it has moved to
\* the very group it moves points out of; what is done to it is what PointChange says.
LEMMA MoveRow ==
  ASSUME Safe, NEW c \in Client, NEW p \in Point, Matches(c, p), pc[c] \in Tx
  PROVE  /\ db[p].live /\ Moved(c, p) \in PointRow
         /\ \/ /\ req[c].op = "deleteDevice" /\ db[p].dev = key[c]
               /\ Moved(c, p) = [db[p] EXCEPT !.live = FALSE]
            \/ /\ req[c].op \in {"updateGroup", "deleteGroup"} /\ db[p].group = req[c].group
               /\ Moved(c, p) = [db[p] EXCEPT !.group = Target(req[c])]
<1>0. req[c] \in Request /\ req[c].op \in {"deleteDevice", "updateGroup", "deleteGroup"}
  BY DEF Safe, RequestOK, Tx, TxOps
<1>1. req[c].op \in {"updateGroup", "deleteGroup"} => Target(req[c]) \in Group
  BY <1>0, RequestFields, TablesAreDisjoint DEF Target
<1>2. CASE See(c, p) = db[p]
  <2>1. db[p].live /\ db[p] \in PointRow
    BY <1>2, LiveRow DEF Matches, Safe, TypeOK
  <2>2. CASE req[c].op = "deleteDevice"
    BY <1>2, <2>1, <2>2, ChangedRow DEF Moved, Matches
  <2>3. CASE req[c].op \in {"updateGroup", "deleteGroup"}
    <3>1. Moved(c, p) = [db[p] EXCEPT !.group = Target(req[c])]
      BY <1>2, <2>3 DEF Moved, Target
    <3> QED
      BY <1>1, <1>2, <2>1, <2>3, <3>1, ChangedRow DEF Matches
  <2> QED
    BY <1>0, <2>2, <2>3
<1>3. CASE PointChange(c, p) /\ See(c, p) = pend[c][p]
  <2>1. db[p].live /\ db[p] \in PointRow
    BY <1>3, LiveRow DEF PointChange, Safe, TypeOK
  <2>2. req[c].op # "deleteDevice"
    <3>1. pend[c][p].live
      BY <1>3 DEF Matches
    <3>2. ~[db[p] EXCEPT !.live = FALSE].live
      BY <2>1, ChangedRow
    <3> QED
      BY <1>3, <3>1, <3>2 DEF PointChange
  <2>3. /\ pend[c][p] = [db[p] EXCEPT !.group = Target(req[c])]
        /\ db[p].group = req[c].group
    BY <1>3, <2>2 DEF PointChange
  <2>4. Moved(c, p) = [pend[c][p] EXCEPT !.group = Target(req[c])]
    BY <1>0, <1>3, <2>2 DEF Moved, Target
  <2>5. Moved(c, p) = [db[p] EXCEPT !.group = Target(req[c])]
    BY <2>1, <2>3, <2>4 DEF PointRow
  <2> QED
    BY <1>0, <1>1, <2>1, <2>2, <2>3, <2>5, ChangedRow
<1>4. pend[c][p] = None => See(c, p) = db[p]
  BY DEF See
<1>5. pend[c][p] # None => PointChange(c, p) \/ pend[c][p] = db[p]
  BY DEF Safe, PendOK, OnlyLocked, Saving, Tx
<1> QED
  BY <1>2, <1>3, <1>4, <1>5 DEF See

\* The row a statement is at, and what becomes of it: what PointChange says, or it is
\* only locked, for it does not match any more.
LEMMA MovedPoint ==
  ASSUME Safe, NEW c \in Client, Move(c), NEW p, p = row[c]
  PROVE  /\ p \in Point /\ p \in Key /\ p \in scan[c]
         /\ pend' \in [Client -> [Key -> Row \cup {None}]] /\ Careful(c)
         /\ pend'[c][p] # None
         /\ \A h \in Key \ {p} : pend'[c][h] = pend[c][h]
         /\ PointChange(c, p)' \/ (OnlyLocked(c, p)' /\ ~Wanted(c, p))
<1> DEFINE new == IF Matches(c, p) THEN Moved(c, p) ELSE See(c, p)
<1>1. /\ pc[c] \in {"moveColl", "moveWrite"} /\ pc[c] \in Tx /\ ~Held(c, p)
      /\ Change(c, p, new) /\ Stay /\ UNCHANGED <<req, key, dev, created>>
  BY DEF Move, Tx
<1>2. p \in scan[c] /\ scan[c] \subseteq Point /\ db[p] # Absent
  BY <1>1 DEF Safe, RequestOK, TypeOK
<1>3. p \in Point /\ p \in Key /\ p \in Id
  BY <1>2, TablesAreDisjoint DEF Id
<1>4. new \in Row /\ new # None
  <2>1. CASE Matches(c, p)
    BY <1>1, <1>3, <2>1, MoveRow, NoneIsNothing DEF Row
  <2>2. CASE ~Matches(c, p)
    BY <1>3, <2>2, NoneIsNothing DEF See, Safe, TypeOK, WellTyped
  <2> QED
    BY <2>1, <2>2
<1>5. db' = db /\ \A o \in Client \ {c} : pend[o][p] = None
  BY <1>1 DEF Stay, Held
<1>6. /\ pend' \in [Client -> [Key -> Row \cup {None}]] /\ Careful(c)
      /\ pend'[c][p] = new /\ \A h \in Key \ {p} : pend'[c][h] = pend[c][h]
  <2> HIDE DEF new
  <2> QED
    BY <1>1, <1>3, <1>4, <1>5, ChangeOwn
<1>7. PointChange(c, p)' \/ (OnlyLocked(c, p)' /\ ~Wanted(c, p))
  <2>1. CASE Matches(c, p)
    <3>1. pend'[c][p] = Moved(c, p)
      BY <1>6, <2>1
    <3> QED
      BY <1>1, <1>3, <1>5, <2>1, <3>1, MoveRow DEF PointChange
  <2>2. CASE ~Matches(c, p) /\ See(c, p) = db[p]
    <3>1. pend'[c][p] = db[p]
      BY <1>6, <2>2
    <3>2. ~Wanted(c, p)
      BY <2>2 DEF Wanted, Matches
    <3>3. OnlyLocked(c, p)'
      BY <1>1, <1>2, <1>5, <3>1 DEF OnlyLocked
    <3> QED
      BY <3>2, <3>3
  <2>3. CASE ~Matches(c, p) /\ pend[c][p] # None /\ PointChange(c, p)
    <3>1. pend'[c][p] = pend[c][p]
      BY <1>6, <2>3 DEF See
    <3> QED
      BY <1>1, <1>5, <2>3, <3>1 DEF PointChange
  <2>4. pend[c][p] # None => PointChange(c, p) \/ pend[c][p] = db[p]
    BY <1>1, <1>3 DEF Safe, PendOK, OnlyLocked, Saving, Tx
  <2> QED
    BY <2>1, <2>2, <2>3, <2>4 DEF See
<1> QED
  BY <1>2, <1>3, <1>4, <1>6, <1>7

LEMMA MoveOwn ==
  ASSUME Safe, NEW c \in Client, Move(c)
  PROVE  Good(c)
<1> PICK p : p = row[c]
  OBVIOUS
<1>1. /\ pc[c] \in {"moveColl", "moveWrite"} /\ Reach(c, scan[c] \ {p}, pc[c])
      /\ Stay /\ UNCHANGED <<req, key, dev, created>>
  BY DEF Move
<1>2. /\ p \in Point /\ p \in Key
      /\ pend' \in [Client -> [Key -> Row \cup {None}]] /\ Careful(c)
      /\ pend'[c][p] # None /\ \A h \in Key \ {p} : pend'[c][h] = pend[c][h]
      /\ PointChange(c, p)' \/ OnlyLocked(c, p)'
  BY MovedPoint
<1>3. /\ pc' \in [Client -> PC] /\ pc'[c] \in Tx /\ RequestOK(c)'
      /\ scan' \in [Client -> SUBSET Point] /\ row' \in [Client -> Point \cup {None}]
  <2>1. /\ scan[c] \ {p} \in SUBSET (IF pc[c] = "moveColl" THEN Coll ELSE Write)
        /\ \A h \in scan[c] \ {p} : db[h] # Absent
    BY <1>1 DEF Safe, RequestOK
  <2> QED
    BY <1>1, <2>1, ReachOwn
<1>4. TypeOK' /\ UniqueNames' /\ Keeps
  <2>1. /\ key' \in [Client -> Device \cup Point \cup {None}] /\ req' = req
        /\ dev' \in [Client -> Device \cup {None}] /\ created' \in [Client -> BOOLEAN]
    BY <1>1 DEF Safe, TypeOK
  <2> QED
    BY <1>1, <1>2, <1>3, <2>1, StayOwn
<1>5. PendOK(c)'
  <2>1. /\ db' = db /\ req' = req /\ key' = key /\ PendOK(c)
        /\ pc[c] # "index" /\ pc'[c] # "index"
    BY <1>1, <1>3 DEF Stay, Safe, Tx
  <2>2. ASSUME NEW h \in Point, pend'[c][h] # None
        PROVE  PointChange(c, h)' \/ OnlyLocked(c, h)'
    <3>1. CASE h = p
      BY <1>2, <3>1
    <3>2. CASE h # p
      <4>1. pend'[c][h] = pend[c][h]
        BY <1>2, <3>2, TablesAreDisjoint DEF Id
      <4> QED
        BY <2>1, <2>2, <4>1 DEF PendOK, PointChange, OnlyLocked, Saving
    <3> QED
      BY <3>1, <3>2
  <2>3. \A h \in Key \ Point : pend'[c][h] = pend[c][h]
    BY <1>2
  <2>4. \A d \in Device : pend'[c][d] # None => DeviceChange(c, d)'
    BY <2>1, <2>3, TablesAreDisjoint DEF PendOK, DeviceChange, Saving, Id
  <2>5. \A g \in Group : pend'[c][g] \in GroupRow \cup {Absent, None}
    BY <2>1, <2>3, TablesAreDisjoint DEF PendOK, Id
  <2> QED
    BY <1>3, <2>1, <2>2, <2>4, <2>5 DEF PendOK, Tx
<1> QED
  BY <1>2, <1>3, <1>4, <1>5 DEF Good

-----------------------------------------------------------------------------
(* Every step keeps the invariant.                                         *)

LEMMA StepOwn ==
  ASSUME Safe, NEW c \in Client, Step(c)
  PROVE  Good(c)
<1>1. CASE Fails(c) \/ GiveUp(c)
  BY <1>1, FinishOwn DEF Fails, GiveUp, Answers
<1> QED
  BY <1>1, BeginOwn, FindDeviceOwn, FindRecordOwn, CheckOwn, InsertOwn, UpdateOwn, IndexOwn,
     RemoveOwn, CommitOwn, SettingOwn, DeleteDeviceOwn, CreateGroupOwn, InsertGroupOwn, DropGroupOwn, ScanOwn, MoveOwn
     DEF Step, Serve

LEMMA RestartSafe ==
  ASSUME Safe, Restart
  PROVE  Safe'
<1>1. /\ pc' = [c \in Client |-> "idle"] /\ pend' = [c \in Client |-> NoChange]
      /\ scan' = [c \in Client |-> {}] /\ created' = [c \in Client |-> FALSE]
      /\ row' = [c \in Client |-> None]
  BY DEF Restart
<1>2. /\ \A k \in Id : db'[k] = db[k]
      /\ \A g \in Group : db'[g] \in GroupRow \cup {Absent}
      /\ DOMAIN db' = Key /\ db' = [k \in Key |-> db'[k]]
  <2>1. [live |-> TRUE] \in GroupRow
    BY DEF GroupRow
  <2>2. \A g \in Group : db[g] \in GroupRow \cup {Absent}
    BY DEF Safe, TypeOK, WellTyped
  <2>3. \A p \in Coll : db[p].live => db[p].group \in Group
    BY LiveRow DEF Safe, TypeOK, PointRow, Point
  <2>4. \A k \in Key : \/ db'[k] = db[k]
                       \/ /\ db'[k] = [live |-> TRUE]
                          /\ k = Default \/ k \in {db[p].group : p \in {p \in Coll : db[p].live}}
    BY DEF Restart
  <2>5. \A k \in Key : db'[k] = db[k] \/ (db'[k] = [live |-> TRUE] /\ k \in Group)
    BY <2>3, <2>4, TablesAreDisjoint
  <2> QED
    BY <2>1, <2>2, <2>5, TablesAreDisjoint DEF Restart
<1>3. WellTyped(db')
  BY <1>2, TablesAreDisjoint DEF Safe, TypeOK, WellTyped, Row, Id
<1>4. UniqueNames'
  BY <1>2 DEF Safe, UniqueNames, UniqueIn, Id, Point
<1>5. TypeOK'
  <2>1. NoChange \in [Key -> Row \cup {None}]
    BY DEF NoChange
  <2>2. crashes' \in 0..MaxCrashes
    BY CatalogAssumption DEF CatalogAssumption, Restart, Safe, TypeOK
  <2> QED
    BY <1>1, <1>3, <2>1, <2>2 DEF Restart, Safe, TypeOK, PC
<1>6. ASSUME NEW c \in Client
      PROVE  RequestOK(c)' /\ PendOK(c)' /\ \A k \in Key : pend'[c][k] = None
  BY <1>1, TablesAreDisjoint DEF RequestOK, PendOK, NoChange, Tx, Key, Id
<1> QED
  BY <1>4, <1>5, <1>6 DEF Safe, LocksOK

LEMMA StepSafe ==
  ASSUME Safe, NEW o \in Client, Step(o)
  PROVE  Safe'
<1>1. Good(o)
  BY StepOwn
<1>2. ASSUME NEW c \in Client \ {o}
      PROVE  RequestOK(c)' /\ PendOK(c)'
  <2>1. Frame(c)
    BY StepFrame DEF Safe
  <2>2. RequestOK(c)'
    <3>1. \A p \in scan[c] : db'[p] # Absent
      <4>1. scan[c] \subseteq Id
        BY DEF Safe, TypeOK, Id
      <4>2. \A p \in scan[c] : db[p] # Absent
        BY DEF Safe, RequestOK
      <4>3. \A p \in Id : db[p] # Absent => db'[p] # Absent
        BY <1>1 DEF Good, Keeps
      <4> QED
        BY <4>1, <4>2, <4>3
    <3> QED
      BY <2>1, <3>1 DEF Safe, RequestOK, Frame
  <2>3. \A k \in Key : pend[c][k] # None => db'[k] = db[k]
    BY <1>1 DEF Good, Careful
  <2>4. PendOK(c)'
    BY <2>1, <2>3, TablesAreDisjoint
       DEF Safe, PendOK, PointChange, DeviceChange, OnlyLocked, Saving, Frame, Key, Id
  <2> QED
    BY <2>2, <2>4
<1>3. LocksOK'
  <2> SUFFICES ASSUME NEW c \in Client \ {o}, NEW k \in Key
               PROVE  pend'[c][k] = None \/ pend'[o][k] = None
    <3>1. \A c, d \in Client \ {o} : \A k \in Key :
            c = d \/ pend'[c][k] = None \/ pend'[d][k] = None
      BY StepFrame DEF Safe, LocksOK, Frame
    <3> QED
      BY <3>1 DEF LocksOK
  <2>1. pend'[c] = pend[c]
    BY StepFrame DEF Safe, Frame
  <2> QED
    BY <1>1, <2>1 DEF Good, Careful, Safe, LocksOK
<1> QED
  BY <1>1, <1>2, <1>3 DEF Safe, Good

LEMMA InitSafe == Init => Safe
<1> SUFFICES ASSUME Init PROVE Safe
  OBVIOUS
<1>1. NoChange \in [Key -> Row \cup {None}] /\ \A k \in Key : NoChange[k] = None
  BY DEF NoChange
<1>2. TypeOK
  BY <1>1, CatalogAssumption DEF CatalogAssumption, Init, TypeOK, PC, DefaultDays
<1>3. UniqueNames
  BY CatalogAssumption DEF CatalogAssumption, Init, UniqueNames
<1>4. ASSUME NEW c \in Client PROVE RequestOK(c) /\ PendOK(c)
  BY <1>1, TablesAreDisjoint DEF Init, RequestOK, PendOK, Tx, Key, Id
<1> QED
  BY <1>1, <1>2, <1>3, <1>4 DEF Safe, LocksOK, Init

LEMMA NextSafe == Safe /\ [Next]_vars => Safe'
<1> SUFFICES ASSUME Safe, [Next]_vars PROVE Safe'
  OBVIOUS
<1>1. CASE UNCHANGED vars
  <2>1. TypeOK' /\ LocksOK'
    BY <1>1 DEF vars, jobVars, countVars, Safe, TypeOK, WellTyped, LocksOK
  <2>2. UniqueNames'
    BY <1>1 DEF vars, Safe, UniqueNames, UniqueIn
  <2>3. ASSUME NEW c \in Client PROVE RequestOK(c)' /\ PendOK(c)'
    <3>1. RequestOK(c)'
      BY <1>1 DEF vars, jobVars, Safe, RequestOK
    <3>2. UNCHANGED <<db, pc, req, key, pend>>
      BY <1>1 DEF vars, jobVars
    <3>3. \A k : /\ PointChange(c, k)' <=> PointChange(c, k)
                 /\ OnlyLocked(c, k)' <=> OnlyLocked(c, k)
                 /\ Saving(c, k)' <=> Saving(c, k)
                 /\ DeviceChange(c, k)' <=> DeviceChange(c, k)
      BY <3>2 DEF PointChange, DeviceChange, OnlyLocked, Saving
    <3>4. PendOK(c)
      BY DEF Safe
    <3> QED
      BY <3>1, <3>2, <3>3, <3>4 DEF PendOK
  <2> QED
    BY <2>1, <2>2, <2>3 DEF Safe
<1>2. CASE Next
  BY <1>2, StepSafe, RestartSafe DEF Next, Step
<1> QED
  BY <1>1, <1>2

LEMMA AlwaysSafe == Spec => []Safe
BY InitSafe, NextSafe, PTL DEF Spec

\* Whatever requests run at a time, the tables, the transactions and the setting stay
\* well-formed; in particular KEEP and its record stay between 1 and 730 days.
THEOREM TypeCorrect == Spec => []TypeOK
<1>1. Safe => TypeOK
  BY DEF Safe
<1> QED
  BY <1>1, AlwaysSafe, PTL

\* Two live records of a table never share a name, for any interleaving of saves,
\* imports, deletions and group moves, failures and restarts included.
THEOREM NamesAreUnique == Spec => []UniqueNames
<1>1. Safe => UniqueNames
  BY DEF Safe
<1> QED
  BY <1>1, AlwaysSafe, PTL

-----------------------------------------------------------------------------
(* What a request nobody has disturbed still knows of the tables.          *)

\* The statement of a table has changed all points it should, or has them to do.
Done(c, table) == \A p \in table : Wanted(c, p) => PointChange(c, p)
Due(c, table)  == \A p \in table : Wanted(c, p) => p \in scan[c] \/ PointChange(c, p)

Knows(c) ==
  /\ pc[c] \in {"store", "index"} /\ OfPoint(req[c]) =>
       db[dev[c]].live /\ db[dev[c]].proto = req[c].proto
  /\ pc[c] = "record" => keep = req[c].days
  /\ pc[c] = "moveColl" => Due(c, Coll)
  /\ pc[c] \in {"scanWrite", "moveWrite", "last", "commit"} => Done(c, Coll)
  /\ pc[c] = "moveWrite" => Due(c, Write)
  /\ pc[c] \in {"last", "commit"} => Done(c, Write)
  /\ pc[c] \in {"check", "store", "index"} /\ req[c].op \in Imports /\ ~LookupFailed(c) =>
       IF key[c] # None
         THEN db[key[c]].live /\ db[key[c]].name = req[c].name
         ELSE Listed(Table(req[c])) \cap Holders(db, Table(req[c]), req[c].name) = {}
              \/ Crowded(Table(req[c]))
  /\ pc[c] \in {"find", "check"} /\ req[c].op = "importPoint" => db[dev[c]].live

Known == Safe /\ \A c \in Client : disturbed[c] \/ Knows(c)

LEMMA KnowsFrame ==
  ASSUME Safe, NEW o \in Client, NEW c \in Client \ {o}, Step(o), Knows(c)
  PROVE  disturbed'[c] \/ Knows(c)'
<1>1. Frame(c) /\ Noticed(c)
  BY StepFrame DEF Safe
<1>2. CASE pc[c] = "idle"
  BY <1>1, <1>2 DEF Knows, Frame, Tx
<1>3. CASE UNCHANGED <<db, keep>>
  <2>1. \A p \in Point : /\ Wanted(c, p)' => Wanted(c, p)
                         /\ PointChange(c, p) => PointChange(c, p)'
    BY <1>1, <1>3 DEF Wanted, PointChange, Frame
  <2>2. LookupFailed(c)' = LookupFailed(c)
    BY <1>1 DEF LookupFailed, Frame
  <2>3. /\ Listed(Table(req[c]))' = Listed(Table(req[c]))
        /\ Crowded(Table(req[c]))' = Crowded(Table(req[c]))
    BY <1>1, <1>3 DEF Listed, Crowded, Orphan, Frame
  <2> QED
    BY <1>1, <1>3, <2>1, <2>2, <2>3 DEF Knows, Done, Due, Frame, Holders, Point
<1> QED
  BY <1>1, <1>2, <1>3 DEF Noticed

LEMMA KnowsOwn ==
  ASSUME Safe, NEW c \in Client, Step(c), disturbed[c] \/ Knows(c)
  PROVE  disturbed'[c] \/ Knows(c)'
<1>1. Good(c)
  BY StepOwn
<1>2. ASSUME pc'[c] = "idle" PROVE Knows(c)'
  BY <1>2 DEF Knows, Tx
<1>3. ASSUME NEW a, Finish(c, a) \/ Publish(c, a) PROVE Knows(c)'
  BY <1>2, <1>3 DEF Finish, Publish, Settle, Goto, Safe, TypeOK
<1>4. CASE Begin(c)
  <2>1. PICK q \in Request : Goto(c, FirstStep(q)) /\ req' = [req EXCEPT ![c] = q]
    BY <1>4 DEF Begin
  <2>2. pc'[c] = FirstStep(q) /\ req'[c] = q
    BY <2>1 DEF Goto, Safe, TypeOK
  <2> QED
    BY <2>2, RequestFields
       DEF Knows, FirstStep, Tx, Imports, OfPoint, Saves, TxOps
<1>5. CASE FindDevice(c) /\ ~\E a : Finish(c, a)
  <2>1. PICK d \in Holders(db, Device, req[c].device) : dev' = [dev EXCEPT ![c] = d]
    BY <1>5 DEF FindDevice
  <2>2. pc'[c] = "find" /\ dev'[c] = d /\ db' = db /\ d \in Device
    BY <1>5, <2>1 DEF FindDevice, Goto, Stay, Safe, TypeOK, Holders
  <2>3. db[d].live
    BY <2>1 DEF Holders
  <2> QED
    BY <2>2, <2>3 DEF Knows, Tx
<1>6. CASE FindRecord(c)
  <2> DEFINE table == Table(req[c])
             found == Listed(table) \cap Holders(db, table, req[c].name)
             at == IF OfPoint(req[c]) THEN "check" ELSE "store"
  <2>1. /\ pc[c] = "find" /\ pc'[c] = at /\ Stay /\ db' = db /\ req' = req /\ dev' = dev
        /\ disturbed' = disturbed
    BY <1>6 DEF FindRecord, Goto, Stay, Safe, TypeOK
  <2>2. /\ req[c] \in Request /\ req[c].op \in Imports
        /\ table \subseteq Device \cup Point
    BY <2>1, RequestFields DEF Safe, RequestOK, Table, Point
  <2>3. \/ \E k \in found : key'[c] = k
        \/ key'[c] = None /\ created'[c] /\ (found = {} \/ Crowded(table))
    BY <1>6 DEF FindRecord, Safe, TypeOK
  <2>4. \A k \in found : k # None /\ db[k].live /\ db[k].name = req[c].name
    BY <2>2, NoneIsNothing, TablesAreDisjoint DEF Holders, Id
  <2>5. /\ Listed(table)' = Listed(table) /\ Crowded(table)' = Crowded(table)
        /\ Holders(db', table, req[c].name) = Holders(db, table, req[c].name)
    BY <2>1 DEF Listed, Crowded, Orphan, Holders
  <2>6. \/ LookupFailed(c)'
        \/ IF key'[c] # None
             THEN db'[key'[c]].live /\ db'[key'[c]].name = req'[c].name
             ELSE found = {} \/ Crowded(table)
    BY <2>1, <2>3, <2>4
  <2>7. req'[c].op = "importPoint" /\ Knows(c) => db'[dev'[c]].live
    BY <2>1 DEF Knows
  <2>8. pc'[c] = "store" => ~OfPoint(req'[c])
    BY <2>1
  <2> QED
    BY <2>1, <2>5, <2>6, <2>7, <2>8 DEF Knows, Tx
<1>7. CASE FindFails(c) /\ ~\E a : Finish(c, a)
  <2>1. /\ pc[c] = "find" /\ pc'[c] = "check" /\ UNCHANGED <<db, req, key, dev, created>>
        /\ disturbed' = disturbed
    BY <1>7 DEF FindFails, Goto, Stay, Safe, TypeOK
  <2>2. LookupFailed(c)'
    BY <2>1 DEF LookupFailed, Safe, RequestOK
  <2> QED
    BY <2>1, <2>2 DEF Knows, Tx
<1>8. CASE CheckDevice(c) /\ ~\E a : Finish(c, a)
  <2>1. /\ pc[c] = "check" /\ pc'[c] = "store" /\ UNCHANGED <<db, req, key, dev, created>>
        /\ disturbed' = disturbed /\ db[dev[c]].live /\ db[dev[c]].proto = req[c].proto
    BY <1>8 DEF CheckDevice, Goto, Stay, Safe, TypeOK
  <2>2. LookupFailed(c)' = LookupFailed(c)
    BY <2>1 DEF LookupFailed
  <2>3. /\ Listed(Table(req[c]))' = Listed(Table(req[c]))
        /\ Crowded(Table(req[c]))' = Crowded(Table(req[c]))
    BY <2>1 DEF Listed, Crowded, Orphan
  <2> QED
    BY <2>1, <2>2, <2>3 DEF Knows, Tx, Holders
<1>9. CASE \/ Insert(c) \/ Index(c) \/ Remove(c) \/ CreateGroup(c) \/ Commit(c)
           \/ RecordDays(c) \/ Fails(c) \/ GiveUp(c) \/ AlterUnanswered(c)
  <2>1. \E a : Finish(c, a) \/ Publish(c, a)
    BY <1>9 DEF Insert, Index, StoreRow, Remove, CreateGroup, Commit, RecordDays, Fails,
                GiveUp, AlterUnanswered
  <2> QED
    BY <2>1, <1>3
<1>10. CASE AlterKeep(c)
  <2>1. CASE Alter(c)
    BY <2>1 DEF Alter, Knows, Goto, Safe, TypeOK, Tx
  <2> QED
    BY <1>3, <1>10, <2>1 DEF AlterKeep
<1>11. CASE DeleteDevice(c) /\ ~\E a : Finish(c, a)
  BY <1>11 DEF DeleteDevice, Knows, Goto, Safe, TypeOK, Tx
<1>12. CASE InsertGroup(c) /\ ~\E a : Finish(c, a)
  BY <1>12 DEF InsertGroup, Knows, Goto, Safe, TypeOK, Tx
<1>13. CASE Scan(c)
  <2>1. UNCHANGED <<db, pend, req, key>> /\ disturbed' = disturbed
    BY <1>13 DEF Scan, Stay
  <2>2. \A p \in Point : /\ Wanted(c, p)' <=> Wanted(c, p)
                         /\ PointChange(c, p)' <=> PointChange(c, p)
                         /\ Wanted(c, p) => Matches(c, p) \/ PointChange(c, p)
    <3>1. pc[c] \in {"scanColl", "scanWrite"}
      BY <1>13 DEF Scan
    <3>2. \A p \in Point : \/ pend[c][p] = None
                           \/ PointChange(c, p) \/ pend[c][p] = db[p]
      BY <3>1 DEF Safe, PendOK, OnlyLocked, Saving
    <3> QED
      BY <2>1, <3>2 DEF Wanted, PointChange, Matches, See
  <2>3. CASE pc[c] = "scanColl"
    <3>1. \/ pc'[c] = "moveColl" /\ scan'[c] = {k \in Coll : Matches(c, k)}
          \/ pc'[c] = "scanWrite" /\ {k \in Coll : Matches(c, k)} = {}
      BY <1>13, <2>3 DEF Scan, Reach, NextStatement, Goto, Safe, TypeOK
    <3> QED
      BY <2>1, <2>2, <3>1 DEF Knows, Done, Due, Point
  <2>4. CASE pc[c] = "scanWrite"
    <3>1. \/ pc'[c] = "moveWrite" /\ scan'[c] = {k \in Write : Matches(c, k)}
          \/ pc'[c] \in {"last", "commit"} /\ {k \in Write : Matches(c, k)} = {}
      BY <1>13, <2>4 DEF Scan, Reach, NextStatement, Goto, Safe, TypeOK
    <3> QED
      BY <2>1, <2>2, <2>4, <3>1 DEF Knows, Done, Due, Point
  <2> QED
    BY <1>13, <2>3, <2>4 DEF Scan
<1>14. CASE Move(c)
  <2> PICK k : k = row[c]
    OBVIOUS
  <2>1. /\ UNCHANGED <<db, req, key>> /\ disturbed' = disturbed
        /\ pc[c] \in {"moveColl", "moveWrite"} /\ Reach(c, scan[c] \ {k}, pc[c])
    BY <1>14 DEF Move, Stay
  <2>2. /\ scan[c] \ {k} = {} \/ scan'[c] = scan[c] \ {k}
        /\ pc[c] = "moveColl" =>
             \/ pc'[c] = "moveColl" /\ scan'[c] = scan[c] \ {k}
             \/ pc'[c] = "scanWrite" /\ scan[c] \ {k} = {}
        /\ pc[c] = "moveWrite" =>
             \/ pc'[c] = "moveWrite" /\ scan'[c] = scan[c] \ {k}
             \/ pc'[c] \in {"last", "commit"} /\ scan[c] \ {k} = {}
    BY <2>1 DEF Reach, NextStatement, Goto, Safe, TypeOK
  <2>3. /\ \A h \in Key \ {k} : pend'[c][h] = pend[c][h]
        /\ PointChange(c, k)' \/ ~Wanted(c, k)
    BY <1>14, MovedPoint
  <2>4. \A p \in Point : Wanted(c, p)' <=> Wanted(c, p)
    BY <2>1 DEF Wanted
  <2>5. \A p \in Point : p # k /\ PointChange(c, p) => PointChange(c, p)'
    BY <2>1, <2>3, TablesAreDisjoint DEF PointChange, Id
  <2>6. ASSUME NEW table \in {Coll, Write}, Due(c, table)
        PROVE  \A p \in table : Wanted(c, p)' => p \in scan[c] \ {k} \/ PointChange(c, p)'
    BY <2>3, <2>4, <2>5, <2>6 DEF Due, Point
  <2>7. Done(c, Coll) => Done(c, Coll)'
    BY <2>3, <2>4, <2>5 DEF Done, Point
  <2>8. Knows(c) /\ pc[c] = "moveColl" => Knows(c)'
    BY <2>2, <2>6 DEF Knows, Done, Due
  <2>9. Knows(c) /\ pc[c] = "moveWrite" => Knows(c)'
    BY <2>2, <2>6, <2>7 DEF Knows, Done, Due
  <2> QED
    BY <2>1, <2>8, <2>9
<1>15. CASE DropGroup(c) /\ ~\E a : Finish(c, a)
  <2>1. /\ UNCHANGED <<db, req, key>> /\ disturbed' = disturbed
        /\ pc[c] = "last" /\ pc'[c] = "commit"
    BY <1>15 DEF DropGroup, Stay, Goto, Safe, TypeOK
  <2>2. req[c].op \in {"updateGroup", "deleteGroup"}
    BY <2>1 DEF Safe, RequestOK, Tx, TxOps
  <2>3. \A p \in Point : pend'[c][p] = pend[c][p]
    <3>1. pend' = pend \/ Change(c, req[c].group, Absent)
      BY <1>15 DEF DropGroup
    <3>2. req[c].group \in Group
      BY <2>1, <2>2, RequestFields DEF Safe, RequestOK, Tx
    <3> QED
      BY <3>1, <3>2, TablesAreDisjoint DEF Change, Safe, TypeOK, Id
  <2>4. \A p \in Point : /\ Wanted(c, p)' <=> Wanted(c, p)
                         /\ PointChange(c, p)' <=> PointChange(c, p)
    BY <2>1, <2>3 DEF Wanted, PointChange
  <2> QED
    BY <2>1, <2>4 DEF Knows, Done, Point
<1>16. CASE Update(c) /\ ~\E a : Finish(c, a)
  <2>1. /\ pc[c] = "store" /\ pc'[c] = "index" /\ UNCHANGED <<db, req, key, dev, created>>
        /\ disturbed' = disturbed
    BY <1>16 DEF Update, Goto, Stay, Safe, TypeOK
  <2>2. LookupFailed(c)' = LookupFailed(c)
    BY <2>1 DEF LookupFailed
  <2>3. /\ Listed(Table(req[c]))' = Listed(Table(req[c]))
        /\ Crowded(Table(req[c]))' = Crowded(Table(req[c]))
    BY <2>1 DEF Listed, Crowded, Orphan
  <2> QED
    BY <2>1, <2>2, <2>3 DEF Knows, Holders
<1> QED
  BY <1>3, <1>4, <1>5, <1>6, <1>7, <1>8, <1>9, <1>10, <1>11, <1>12, <1>13, <1>14, <1>15, <1>16
     DEF Step, Serve

LEMMA InitKnown == Init => Known
<1>1. Init => \A c \in Client : Knows(c)
  BY DEF Init, Knows, Tx
<1> QED
  BY <1>1, InitSafe DEF Known

LEMMA NextKnown == Known /\ [Next]_vars => Known'
<1> SUFFICES ASSUME Known, [Next]_vars PROVE Known'
  OBVIOUS
<1>1. Safe'
  BY NextSafe DEF Known
<1>2. ASSUME NEW c \in Client PROVE disturbed'[c] \/ Knows(c)'
  <2>1. CASE UNCHANGED vars
    <3>1. UNCHANGED <<db, keep, pc, req, key, dev, created, scan, pend, disturbed>>
      BY <2>1 DEF vars, jobVars
    <3>2. /\ LookupFailed(c)' = LookupFailed(c)
          /\ \A p \in Point : /\ Wanted(c, p)' <=> Wanted(c, p)
                              /\ PointChange(c, p)' <=> PointChange(c, p)
      BY <3>1 DEF LookupFailed, Wanted, PointChange
    <3>3. /\ Listed(Table(req[c]))' = Listed(Table(req[c]))
          /\ Crowded(Table(req[c]))' = Crowded(Table(req[c]))
      BY <3>1 DEF Listed, Crowded, Orphan
    <3>4. scan[c]' = scan[c]
      BY <3>1
    <3>5. /\ Done(c, Coll) => Done(c, Coll)'
          /\ Due(c, Coll) => Due(c, Coll)'
      BY <3>2, <3>4 DEF Done, Due, Point
    <3>6. /\ Done(c, Write) => Done(c, Write)'
          /\ Due(c, Write) => Due(c, Write)'
      BY <3>2, <3>4 DEF Done, Due, Point
    <3> QED
      BY <3>1, <3>2, <3>3, <3>5, <3>6 DEF Known, Knows, Holders
  <2>2. CASE Restart
    BY <2>2 DEF Restart, Knows, Tx
  <2>3. CASE Step(c)
    BY <2>3, KnowsOwn DEF Known
  <2>4. ASSUME NEW o \in Client \ {c}, Step(o) PROVE disturbed'[c] \/ Knows(c)'
    <3>1. CASE Knows(c)
      BY <2>4, <3>1, KnowsFrame DEF Known
    <3>2. CASE disturbed[c]
      <4>1. Frame(c) /\ Noticed(c)
        BY <2>4, StepFrame DEF Known, Safe
      <4>2. CASE pc[c] = "idle"
        BY <4>1, <4>2 DEF Frame, Knows, Tx
      <4> QED
        BY <3>2, <4>1, <4>2 DEF Noticed
    <3> QED
      BY <3>1, <3>2 DEF Known
  <2> QED
    BY <2>1, <2>2, <2>3, <2>4 DEF Next, Step
<1> QED
  BY <1>1, <1>2 DEF Known

LEMMA AlwaysKnown == Spec => []Known
BY InitKnown, NextKnown, PTL DEF Spec

-----------------------------------------------------------------------------
(* The steps that change the tables, and what they change.                 *)

\* The row of a save.
LEMMA StoredRow ==
  ASSUME Safe, NEW c \in Client, Insert(c) \/ Index(c), ~\E a : Finish(c, a)
  PROVE  \E k \in Key : /\ k \in Id /\ StoreRow(c, k)
                        /\ pc[c] \in {"store", "index"} /\ pc'[c] = "idle"
                        /\ (OfPoint(req[c]) <=> k \in Point)
<1>1. pc[c] \in {"store", "index"}
  BY DEF Insert, Index
<1>2. PICK k \in Table(req[c]) : StoreRow(c, k)
  <2>1. CASE Insert(c)
    BY <2>1 DEF Insert, Unused
  <2>2. CASE Index(c)
    BY <2>2 DEF Index, Safe, RequestOK
  <2> QED
    BY <2>1, <2>2
<1>3. pc'[c] = "idle"
  BY <1>2 DEF StoreRow, Publish, Settle, Goto, Safe, TypeOK
<1> QED
  BY <1>1, <1>2, <1>3, SavedRow

\* Only saves, deletions and commits change a device or a point.
LEMMA WhoChanges ==
  ASSUME Safe, [Next]_vars
  PROVE  \/ \A k \in Id : db'[k] = db[k]
         \/ \E c \in Client : \/ (Insert(c) \/ Index(c)) /\ ~\E a : Finish(c, a)
                              \/ Remove(c) /\ ~\E a : Finish(c, a)
                              \/ Commit(c)
<1>1. CASE UNCHANGED vars
  BY <1>1 DEF vars
<1>2. CASE Restart
  <2>1. \A p \in Coll : db[p].live => db[p].group \in Group
    BY LiveRow DEF Safe, TypeOK, PointRow, Point
  <2>2. \A k \in Id : /\ k \in Key /\ k # Default
                      /\ k \notin {db[p].group : p \in {p \in Coll : db[p].live}}
    BY <2>1, TablesAreDisjoint
  <2> QED
    BY <1>2, <2>2 DEF Restart
<1>3. ASSUME NEW c \in Client, Step(c)
      PROVE  \/ \A k \in Id : db'[k] = db[k]
             \/ (Insert(c) \/ Index(c)) /\ ~\E a : Finish(c, a)
             \/ Remove(c) /\ ~\E a : Finish(c, a)
             \/ Commit(c)
  <2>1. CASE \E a : Finish(c, a)
    BY <2>1 DEF Finish
  <2>2. CASE Begin(c) \/ FindDevice(c) \/ FindRecord(c) \/ FindFails(c) \/ CheckDevice(c)
    BY <2>1, <2>2 DEF Begin, FindDevice, FindRecord, FindFails, CheckDevice, Stay
  <2>3. CASE \/ Update(c) \/ DeleteDevice(c) \/ InsertGroup(c) \/ Scan(c) \/ Move(c)
             \/ DropGroup(c)
    BY <2>1, <2>3 DEF Update, DeleteDevice, InsertGroup, Scan, Move, DropGroup, Stay
  <2>4. CASE AlterKeep(c) \/ AlterUnanswered(c) \/ RecordDays(c) \/ Fails(c) \/ GiveUp(c)
    BY <2>1, <2>4 DEF AlterKeep, Alter, AlterUnanswered, RecordDays, Fails, GiveUp
  <2>5. CASE CreateGroup(c) /\ ~\E a : Finish(c, a)
    <3>1. req[c].group \in Group
      BY <2>5, RequestFields DEF CreateGroup, Safe, RequestOK
    <3>2. db' = [db EXCEPT ![req[c].group] = [live |-> TRUE]]
      BY <2>5 DEF CreateGroup
    <3> QED
      BY <3>1, <3>2, TablesAreDisjoint DEF Safe, TypeOK, WellTyped
  <2> QED
    BY <1>3, <2>1, <2>2, <2>3, <2>4, <2>5 DEF Step, Serve
<1> QED
  BY <1>1, <1>2, <1>3 DEF Next, Step

\* What the commit of a transaction does to the devices and points.
LEMMA Committed ==
  ASSUME Safe, NEW c \in Client, Commit(c)
  PROVE  /\ pc[c] = "commit" /\ pc'[c] = "idle"
         /\ \A k \in Key : db'[k] = See(c, k)
         /\ \A d \in Device : \/ db'[d] = db[d]
                              \/ req[c].op = "deleteDevice" /\ d = key[c] /\ db[d] \in DeviceRow
                                 /\ db'[d] = [db[d] EXCEPT !.live = FALSE]
         /\ \A p \in Point : \/ ~PointChange(c, p) /\ db'[p] = db[p]
                             \/ PointChange(c, p) /\ db'[p] = pend[c][p] /\ db[p] \in PointRow
<1>1. pc[c] = "commit" /\ pc'[c] = "idle" /\ \A k \in Key : db'[k] = See(c, k)
  BY DEF Commit, Publish, Settle, Goto, Safe, TypeOK
<1>2. \A k \in Id : k \in Key
  BY TablesAreDisjoint
<1>3. ASSUME NEW d \in Device, pend[c][d] # None
      PROVE  DeviceChange(c, d) /\ db[d] \in DeviceRow
  BY ZenonT(60), <1>1, <1>3, LiveRow DEF Safe, PendOK, DeviceChange, Saving, TypeOK
<1>4. ASSUME NEW p \in Point
      PROVE  \/ PointChange(c, p) /\ db[p] \in PointRow /\ pend[c][p] # None
             \/ ~PointChange(c, p) /\ (pend[c][p] = None \/ pend[c][p] = db[p])
  <2>1. CASE PointChange(c, p)
    <3>1. db[p] \in PointRow
      BY <2>1, LiveRow DEF PointChange, Safe, TypeOK
    <3>2. req[c].op \in {"updateGroup", "deleteGroup"} => Target(req[c]) \in Group
      BY <1>1, RequestFields, TablesAreDisjoint DEF Target, Safe, RequestOK
    <3>3. pend[c][p] \in PointRow
      BY <2>1, <3>1, <3>2, ChangedRow DEF PointChange
    <3> QED
      BY <2>1, <3>1, <3>3, NoneIsNothing
  <2>2. CASE ~PointChange(c, p)
    BY <1>1, <2>2 DEF Safe, PendOK, OnlyLocked, Saving
  <2> QED
    BY <2>1, <2>2
<1> QED
  BY <1>1, <1>2, <1>3, <1>4 DEF See, Id, DeviceChange

-----------------------------------------------------------------------------
(* The action properties.                                                  *)

\* A point that is saved while nothing else commits belongs to the live device whose
\* protocol it was checked against.
LEMMA StoreKnows ==
  ASSUME Known, NEW c \in Client, ~disturbed[c], pc[c] \in {"store", "index"},
         OfPoint(req[c])
  PROVE  db[dev[c]].live /\ db[dev[c]].proto = req[c].proto /\ dev[c] \in Device
BY DEF Known, Knows, Safe, RequestOK

LEMMA OrphanStep ==
  ASSUME Known, [Next]_vars, NEW p \in Point, Orphan(db', p), ~Orphan(db, p)
  PROVE  \E c \in Client : pc'[c] # pc[c] /\ disturbed[c]
<1>1. /\ db'[p] \in PointRow /\ db'[p].dev \in Device /\ db'[p].live /\ ~db'[db'[p].dev].live
      /\ Safe
  BY NextSafe, LiveRow DEF Known, Safe, TypeOK, Orphan, PointRow
<1>2. ~\A k \in Id : db'[k] = db[k]
  BY <1>1 DEF Orphan, Id
<1>3. ASSUME NEW c \in Client, Insert(c) \/ Index(c), ~\E a : Finish(c, a)
      PROVE  pc'[c] # pc[c] /\ disturbed[c]
  <2>1. PICK k \in Key : /\ k \in Id /\ StoreRow(c, k)
                         /\ pc[c] \in {"store", "index"} /\ pc'[c] = "idle"
                         /\ (OfPoint(req[c]) <=> k \in Point)
    BY <1>1, <1>3, StoredRow
  <2>2. db' = [db EXCEPT ![k] = NewRow(c)] /\ DOMAIN db = Key
    BY <1>1, <2>1 DEF StoreRow, Safe, TypeOK, WellTyped
  <2>3. CASE k # p
    BY <1>1, <2>1, <2>2, <2>3 DEF NewRow, Orphan
  <2>4. CASE k = p
    <3>1. db'[p].dev = dev[c]
      BY <2>1, <2>2, <2>4 DEF NewRow
    <3>2. db'[dev[c]] = db[dev[c]]
      BY <1>1, <2>2, <2>4, <3>1, TablesAreDisjoint
    <3> QED
      BY <1>1, <2>1, <2>4, <3>1, <3>2, StoreKnows
  <2> QED
    BY <2>3, <2>4
<1>4. ASSUME NEW c \in Client, Remove(c), ~\E a : Finish(c, a)
      PROVE  FALSE
  <2>1. key[c] \in Point /\ db' = [db EXCEPT ![key[c]].live = FALSE] /\ DOMAIN db = Key
    BY <1>1, <1>4 DEF Remove, Safe, RequestOK, TypeOK, WellTyped
  <2>2. p # key[c]
    <3>1. db[key[c]].live /\ db[key[c]] \in PointRow /\ key[c] \in Key
      BY <1>1, <1>4, <2>1, LiveRow, TablesAreDisjoint DEF Remove, Safe, TypeOK, Id
    <3>2. ~db'[key[c]].live
      BY <2>1, <3>1, ChangedRow
    <3> QED
      BY <1>1, <3>2
  <2>3. db'[p] = db[p] /\ db'[db'[p].dev] = db[db'[p].dev]
    BY <1>1, <2>1, <2>2, TablesAreDisjoint
  <2> QED
    BY <1>1, <2>3 DEF Orphan
<1>5. ASSUME NEW c \in Client, Commit(c)
      PROVE  pc'[c] # pc[c] /\ disturbed[c]
  <2>1. SUFFICES ASSUME ~disturbed[c] PROVE FALSE
    BY <1>1, <1>5, Committed
  <2>2. Knows(c) /\ pc[c] = "commit"
    BY <1>1, <1>5, <2>1, Committed DEF Known
  <2> DEFINE d == db'[p].dev
  <2>3. CASE req[c].op = "deleteDevice" /\ d = key[c] /\ ~PointChange(c, p)
    <3>1. db'[p] = db[p]
      BY <1>1, <1>5, <2>3, Committed
    <3>2. Wanted(c, p)
      BY <1>1, <2>3, <3>1 DEF Wanted
    <3> QED
      BY <2>2, <2>3, <3>2 DEF Knows, Done, Point
  <2>4. CASE PointChange(c, p) /\ req[c].op = "deleteDevice"
    <3>1. /\ PointChange(c, p) /\ db'[p] = pend[c][p] /\ db[p] \in PointRow
      BY <1>1, <1>5, <2>4, Committed
    <3>2. db'[p] = [db[p] EXCEPT !.live = FALSE]
      BY <2>4, <3>1 DEF PointChange
    <3> QED
      BY <1>1, <3>1, <3>2, ChangedRow
  <2>5. CASE /\ ~(req[c].op = "deleteDevice" /\ d = key[c])
             /\ ~PointChange(c, p) \/ req[c].op # "deleteDevice"
    <3>1. db'[d] = db[d]
      BY <1>1, <1>5, <2>5, Committed
    <3>2. /\ db[p].live /\ db[p].dev = d
      <4>1. CASE db'[p] = db[p]
        BY <1>1, <4>1
      <4>2. CASE PointChange(c, p) /\ db'[p] = pend[c][p] /\ db[p] \in PointRow
        <5>1. Target(req[c]) \in Group
          BY <1>1, <2>2, <2>5, <4>2, RequestFields, TablesAreDisjoint
             DEF Target, PointChange, Safe, RequestOK, TypeOK
        <5>2. req[c].op # "deleteDevice"
          BY <2>5, <4>2
        <5>3. db[p].live /\ db'[p] = [db[p] EXCEPT !.group = Target(req[c])]
          BY <4>2, <5>2 DEF PointChange
        <5> QED
          BY <4>2, <5>1, <5>3, ChangedRow
      <4> QED
        BY <1>1, <1>5, <4>1, <4>2, Committed
    <3> QED
      BY <1>1, <3>1, <3>2 DEF Orphan
  <2> QED
    BY <2>3, <2>4, <2>5
<1> QED
  BY <1>1, <1>2, <1>3, <1>4, <1>5, WhoChanges

\* A live point is left under a deleted device only by a request during which another
\* one committed, for any interleaving of any requests (OrphanNeedsOverlap).
THEOREM OrphansNeedOverlap == Spec => OrphanNeedsOverlap
<1>1. Known /\ [Next]_vars =>
        [\A p \in Point : Orphan(db', p) /\ ~Orphan(db, p) =>
           \E c \in Client : pc'[c] # pc[c] /\ disturbed[c]]_vars
  BY OrphanStep
<1> QED
  BY <1>1, AlwaysKnown, PTL DEF Spec, OrphanNeedsOverlap

LEMMA MisfitStep ==
  ASSUME Known, [Next]_vars, NEW p \in Point, Misfit(db', p), ~Misfit(db, p)
  PROVE  \E c \in Client : /\ pc[c] \in {"store", "index"} /\ pc'[c] = "idle"
                           /\ ~OfPoint(req[c]) \/ disturbed[c]
<1>1. /\ db'[p] \in PointRow /\ db'[p].dev \in Device /\ db'[p].live
      /\ db'[p].proto # db'[db'[p].dev].proto /\ Safe
  BY NextSafe, LiveRow DEF Known, Safe, TypeOK, Misfit, PointRow
<1>2. ~\A k \in Id : db'[k] = db[k]
  BY <1>1 DEF Misfit, Id
<1>3. ASSUME NEW c \in Client, Insert(c) \/ Index(c), ~\E a : Finish(c, a)
      PROVE  /\ pc[c] \in {"store", "index"} /\ pc'[c] = "idle"
             /\ ~OfPoint(req[c]) \/ disturbed[c]
  <2>1. PICK k \in Key : /\ k \in Id /\ StoreRow(c, k)
                         /\ pc[c] \in {"store", "index"} /\ pc'[c] = "idle"
                         /\ (OfPoint(req[c]) <=> k \in Point)
    BY <1>1, <1>3, StoredRow
  <2>2. db' = [db EXCEPT ![k] = NewRow(c)] /\ DOMAIN db = Key
    BY <1>1, <2>1 DEF StoreRow, Safe, TypeOK, WellTyped
  <2>3. SUFFICES ASSUME OfPoint(req[c]) PROVE disturbed[c]
    BY <2>1
  <2>4. db'[db'[p].dev] = db[db'[p].dev]
    BY <1>1, <2>1, <2>2, <2>3, TablesAreDisjoint
  <2>5. k = p
    BY <1>1, <2>2, <2>4 DEF Misfit
  <2>6. db'[p].dev = dev[c] /\ db'[p].proto = req[c].proto
    BY <2>1, <2>2, <2>5 DEF NewRow
  <2> QED
    BY <1>1, <2>1, <2>3, <2>4, <2>6, StoreKnows
<1>4. ASSUME NEW c \in Client, Remove(c), ~\E a : Finish(c, a)
      PROVE  FALSE
  <2>1. key[c] \in Point /\ db' = [db EXCEPT ![key[c]].live = FALSE] /\ DOMAIN db = Key
    BY <1>1, <1>4 DEF Remove, Safe, RequestOK, TypeOK, WellTyped
  <2>2. p # key[c]
    <3>1. db[key[c]].live /\ db[key[c]] \in PointRow /\ key[c] \in Key
      BY <1>1, <1>4, <2>1, LiveRow, TablesAreDisjoint DEF Remove, Safe, TypeOK, Id
    <3>2. ~db'[key[c]].live
      BY <2>1, <3>1, ChangedRow
    <3> QED
      BY <1>1, <3>2
  <2>3. db'[p] = db[p] /\ db'[db'[p].dev] = db[db'[p].dev]
    BY <1>1, <2>1, <2>2, TablesAreDisjoint
  <2> QED
    BY <1>1, <2>3 DEF Misfit
<1>5. ASSUME NEW c \in Client, Commit(c)
      PROVE  FALSE
  <2> DEFINE d == db'[p].dev
  <2>1. pc[c] = "commit" /\ db'[d].proto = db[d].proto
    <3>1. db[d] \in DeviceRow => [db[d] EXCEPT !.live = FALSE].proto = db[d].proto
      BY ChangedRow
    <3>2. \/ db'[d] = db[d]
          \/ db[d] \in DeviceRow /\ db'[d] = [db[d] EXCEPT !.live = FALSE]
      BY <1>1, <1>5, Committed
    <3>3. pc[c] = "commit"
      BY <1>1, <1>5, Committed
    <3> QED
      BY <3>1, <3>2, <3>3
  <2>2. CASE db'[p] = db[p]
    BY <1>1, <2>1, <2>2 DEF Misfit
  <2>3. CASE PointChange(c, p) /\ db'[p] = pend[c][p] /\ db[p] \in PointRow
    <3>1. req[c].op # "deleteDevice"
      <4>1. ~[db[p] EXCEPT !.live = FALSE].live
        BY <2>3, ChangedRow
      <4> QED
        BY <1>1, <2>3, <4>1 DEF PointChange
    <3>2. db[p].live /\ db'[p] = [db[p] EXCEPT !.group = Target(req[c])]
      BY <2>3, <3>1 DEF PointChange
    <3>3. Target(req[c]) \in Group
      BY <1>1, <2>1, <2>3, <3>1, RequestFields, TablesAreDisjoint
         DEF Target, PointChange, Safe, RequestOK, TypeOK
    <3>4. db'[p].dev = db[p].dev /\ db'[p].proto = db[p].proto
      BY <2>3, <3>2, <3>3, ChangedRow
    <3> QED
      BY <1>1, <2>1, <3>2, <3>4 DEF Misfit
  <2> QED
    BY <1>1, <1>5, <2>2, <2>3, Committed
<1> QED
  BY <1>1, <1>2, <1>3, <1>4, <1>5, WhoChanges

\* The address of a live point stops being one of its device's protocol only when the
\* device is saved, or by a save of the point during which another request committed
\* (MisfitNeedsProtocolChange).
THEOREM MisfitsNeedProtocolChange == Spec => MisfitNeedsProtocolChange
<1>1. Known /\ [Next]_vars =>
        [\A p \in Point : Misfit(db', p) /\ ~Misfit(db, p) =>
           \E c \in Client : /\ pc[c] \in {"store", "index"} /\ pc'[c] = "idle"
                             /\ ~OfPoint(req[c]) \/ disturbed[c]]_vars
  BY MisfitStep
<1> QED
  BY <1>1, AlwaysKnown, PTL DEF Spec, MisfitNeedsProtocolChange

LEMMA FinishEnds ==
  ASSUME TypeOK, NEW c \in Client, NEW a, Finish(c, a) \/ Publish(c, a)
  PROVE  pc'[c] = "idle" /\ answer' = a
BY DEF Finish, Publish, Settle, Goto, TypeOK

\* A client's request ends in a step of that client, or in a restart.
LEMMA EndsOwn ==
  ASSUME Safe, Next, NEW c \in Client, pc[c] # "idle", pc'[c] = "idle"
  PROVE  Step(c) \/ (Restart /\ crashes' # crashes /\ answer' = "none")
<1>1. ASSUME NEW o \in Client \ {c}, Step(o) PROVE FALSE
  BY <1>1, StepFrame DEF Frame, Safe
<1>2. Restart => crashes' # crashes /\ answer' = "none"
  BY CatalogAssumption DEF CatalogAssumption, Restart, Safe, TypeOK
<1> QED
  BY <1>1, <1>2 DEF Next, Step

LEMMA SplitStep ==
  ASSUME Known, [Next]_vars, RetentionAgrees, ~RetentionAgrees'
  PROVE  \/ crashes' # crashes
         \/ \E c \in Client :
              \/ pc[c] = "record" /\ pc'[c] # "record" /\ (disturbed[c] \/ answer' = "error")
              \/ pc[c] = "alter" /\ pc'[c] = "idle" /\ answer' = "error"
<1> Safe
  BY DEF Known
<1>1. CASE UNCHANGED vars
  BY <1>1 DEF vars, jobVars, RetentionAgrees
<1>2. CASE Restart
  BY <1>2, CatalogAssumption DEF CatalogAssumption, Restart, Safe, TypeOK
<1>3. ASSUME NEW c \in Client, Step(c)
      PROVE  \/ pc[c] = "record" /\ pc'[c] # "record" /\ (disturbed[c] \/ answer' = "error")
             \/ pc[c] = "alter" /\ pc'[c] = "idle" /\ answer' = "error"
  <2>1. \A o \in Client \ {c} : pc'[o] = pc[o]
    BY <1>3, StepFrame DEF Frame, Safe
  <2>2. CASE AlterKeep(c)
    <3>1. CASE Alter(c)
      BY <3>1 DEF Alter, Goto, RetentionAgrees, Safe, TypeOK
    <3>2. CASE ~Alter(c)
      BY <2>1, <2>2, <3>2 DEF AlterKeep, Finish, RetentionAgrees
    <3> QED
      BY <3>1, <3>2
  <2>3. CASE RecordDays(c)
    <3>1. pc[c] = "record" /\ pc'[c] = "idle" /\ days' = req[c].days /\ keep' = keep
      BY <2>3, FinishEnds DEF RecordDays, Safe
    <3>2. keep # req[c].days
      BY <3>1 DEF RetentionAgrees
    <3> QED
      BY <3>1, <3>2 DEF Known, Knows
  <2>4. CASE (Fails(c) \/ GiveUp(c)) /\ pc[c] = "record"
    BY <2>4, FinishEnds DEF Fails, GiveUp, Safe
  <2>5. CASE pc[c] # "record" /\ keep' = keep /\ days' = days
    BY <2>1, <2>5 DEF RetentionAgrees
  <2>6. CASE (Fails(c) \/ GiveUp(c)) /\ pc[c] # "record"
    BY <2>5, <2>6 DEF Fails, GiveUp, Finish
  <2>7. CASE AlterUnanswered(c)
    BY <2>7, FinishEnds DEF AlterUnanswered, Safe
  <2>8. CASE \/ Begin(c) \/ FindDevice(c) \/ FindRecord(c) \/ FindFails(c) \/ CheckDevice(c)
             \/ Insert(c) \/ Update(c) \/ Index(c) \/ Remove(c) \/ DeleteDevice(c)
             \/ CreateGroup(c) \/ InsertGroup(c) \/ Scan(c) \/ Move(c) \/ DropGroup(c)
             \/ Commit(c)
    <3>1. keep' = keep /\ days' = days
      BY <2>8 DEF Begin, FindDevice, FindRecord, FindFails, CheckDevice, Insert, Update, Index,
         StoreRow, Remove, DeleteDevice, CreateGroup, InsertGroup, Scan, Move, DropGroup,
         Commit, Stay, Finish
    <3>2. pc[c] # "record"
      BY <2>8 DEF Begin, FindDevice, FindRecord, FindFails, CheckDevice, Insert, Update, Index,
         Remove, DeleteDevice, CreateGroup, InsertGroup, Scan, Move, DropGroup, Commit
    <3> QED
      BY <2>5, <3>1, <3>2
  <2> QED
    BY <1>3, <2>2, <2>3, <2>4, <2>6, <2>7, <2>8 DEF Step, Serve
<1> QED
  BY <1>1, <1>2, <1>3 DEF Next, Step

\* The record of the retention parts from TDengine's only in a restart, in a failure of
\* the second step or a first step whose answer is lost, or when two settings overlap
\* (RetentionSplitIsExplained).
THEOREM RetentionSplitsAreExplained == Spec => RetentionSplitIsExplained
<1>1. Known /\ [Next]_vars =>
        [RetentionAgrees =>
           \/ RetentionAgrees'
           \/ crashes' # crashes
           \/ \E c \in Client :
                \/ pc[c] = "record" /\ pc'[c] # "record" /\ (disturbed[c] \/ answer' = "error")
                \/ pc[c] = "alter" /\ pc'[c] = "idle" /\ answer' = "error"]_vars
  BY SplitStep
<1> QED
  BY <1>1, AlwaysKnown, PTL DEF Spec, RetentionSplitIsExplained

LEMMA GroupStep ==
  ASSUME Known, [Next]_vars, NEW c \in Client,
         pc[c] = "commit", pc'[c] = "idle", answer' = "ok",
         req[c].op \in {"updateGroup", "deleteGroup"}, NEW p \in Point
  PROVE  /\ \/ db'[p] = db[p]
            \/ /\ db[p].live /\ db[p].group = req[c].group
               /\ db'[p] = [db[p] EXCEPT !.group = Target(req[c])]
         /\ db'[p].live /\ db'[p].group = req[c].group =>
              disturbed[c] \/ Target(req[c]) = req[c].group
<1> Safe
  BY DEF Known
<1>1. Commit(c)
  <2>1. Next
    BY DEF vars, jobVars
  <2>2. Step(c)
    BY <2>1, EndsOwn
  <2>3. ~Fails(c) /\ ~GiveUp(c)
    BY FinishEnds DEF Fails, GiveUp, Safe
  <2> QED
    BY <2>2, <2>3 DEF Step, Serve, Begin, FindDevice, FindRecord, FindFails, CheckDevice,
       Insert, Update, Index, Remove, DeleteDevice, CreateGroup, InsertGroup, Scan, Move,
       DropGroup, AlterKeep, AlterUnanswered, RecordDays
<1>2. CASE ~PointChange(c, p) /\ db'[p] = db[p]
  <2>1. db[p].live /\ db[p].group = req[c].group => Wanted(c, p)
    BY DEF Wanted
  <2>2. Wanted(c, p) => disturbed[c]
    BY <1>2 DEF Known, Knows, Done, Point
  <2> QED
    BY <1>2, <2>1, <2>2
<1>3. CASE PointChange(c, p) /\ db'[p] = pend[c][p] /\ db[p] \in PointRow
  <2>1. /\ db[p].live /\ db[p].group = req[c].group
        /\ db'[p] = [db[p] EXCEPT !.group = Target(req[c])]
    BY <1>3 DEF PointChange
  <2>2. db'[p].group = Target(req[c])
    BY <1>3, <2>1 DEF PointRow
  <2> QED
    BY <2>1, <2>2
<1> QED
  BY <1>1, <1>2, <1>3, Committed

\* Renaming and deleting a group touch nothing but the group of the points in it, undo
\* no save, and leave a point behind only if another request committed meanwhile
\* (GroupMovesItsPoints).
THEOREM GroupsMoveTheirPoints == Spec => GroupMovesItsPoints
<1>1. Known /\ [Next]_vars =>
        [\A c \in Client :
           /\ pc[c] = "commit" /\ pc'[c] = "idle" /\ answer' = "ok"
           /\ req[c].op \in {"updateGroup", "deleteGroup"}
           => \A p \in Point :
               /\ \/ db'[p] = db[p]
                  \/ /\ db[p].live /\ db[p].group = req[c].group
                     /\ db'[p] = [db[p] EXCEPT !.group = Target(req[c])]
               /\ db'[p].live /\ db'[p].group = req[c].group =>
                    disturbed[c] \/ Target(req[c]) = req[c].group]_vars
  BY GroupStep
<1> QED
  BY <1>1, AlwaysKnown, PTL DEF Spec, GroupMovesItsPoints

LEMMA ImportStep ==
  ASSUME Known, [Next]_vars, NEW c \in Client,
         pc[c] \in {"check", "store", "index"}, pc'[c] = "idle", req[c].op \in Imports,
         answer' \in {"conflict", "notFound", "noDevice"}
  PROVE  disturbed[c] \/ LookupFailed(c) \/ Hidden(c)
<1> SUFFICES ASSUME ~disturbed[c], ~LookupFailed(c) PROVE Hidden(c)
  OBVIOUS
<1>1. Safe /\ Knows(c) /\ RequestOK(c) /\ req[c] \in Request
  BY DEF Known, Safe, RequestOK
<1> DEFINE table == Table(req[c])
<1>2. table \in {Device, Coll, Write} /\ table \subseteq Id
  BY <1>1, RequestFields DEF Table, Id, Point
<1>3. Step(c)
  <2>1. Next
    BY DEF vars, jobVars
  <2> QED
    BY <1>1, <2>1, EndsOwn
<1>4. /\ ~Fails(c) /\ ~GiveUp(c)
      /\ \A k : ~StoreRow(c, k)
  <2>1. ASSUME Fails(c) \/ GiveUp(c) PROVE FALSE
    BY <1>1, <2>1, FinishEnds DEF Fails, GiveUp, Safe
  <2>2. ASSUME NEW k, StoreRow(c, k) PROVE FALSE
    BY <1>1, <2>2, FinishEnds DEF StoreRow, Safe
  <2> QED
    BY <2>1, <2>2
<1>5. CheckDevice(c) \/ Insert(c) \/ Update(c) \/ Index(c)
  <2>1. ~(Begin(c) \/ FindDevice(c) \/ FindRecord(c) \/ FindFails(c) \/ Remove(c))
    BY DEF Begin, FindDevice, FindRecord, FindFails, Remove
  <2>2. ~(DeleteDevice(c) \/ CreateGroup(c) \/ InsertGroup(c) \/ Scan(c) \/ Move(c))
    BY DEF DeleteDevice, CreateGroup, InsertGroup, Scan, Move
  <2>3. ~(DropGroup(c) \/ Commit(c) \/ AlterKeep(c) \/ AlterUnanswered(c) \/ RecordDays(c))
    BY DEF DropGroup, Commit, AlterKeep, AlterUnanswered, RecordDays
  <2> QED
    BY <1>3, <1>4, <2>1, <2>2, <2>3 DEF Step, Serve
<1>6. CASE CheckDevice(c)
  <2>1. req[c].op = "importPoint" /\ db[dev[c]].live
    BY <1>1, <1>6 DEF CheckDevice, RequestOK, Knows, OfPoint, Imports
  <2>2. CASE Finish(c, "rejected")
    BY <1>1, <2>2, FinishEnds DEF Safe
  <2>3. CASE ~Finish(c, "rejected")
    BY <1>1, <1>6, <2>1, <2>3 DEF CheckDevice, Goto, Safe, TypeOK
  <2> QED
    BY <2>2, <2>3
<1>7. CASE Insert(c)
  <2>1. /\ pc[c] = "store" /\ key[c] = None /\ NameTaken(c)
    BY <1>4, <1>7 DEF Insert
  <2>2. \/ Listed(table) \cap Holders(db, table, req[c].name) = {}
        \/ Crowded(table)
    BY <1>1, <2>1 DEF Knows
  <2>3. PICK p \in Holders(db, table, req[c].name) : TRUE
    BY <2>1 DEF NameTaken
  <2>4. p \in table /\ db[p].live
    BY <2>3 DEF Holders
  <2>5. table # Device /\ p \in Point
    BY <1>2, <2>2, <2>3, <2>4 DEF Listed, Crowded, Point
  <2>6. Orphan(db, p) \/ Crowded(table)
    BY <2>2, <2>3, <2>4, <2>5 DEF Listed
  <2> QED
    BY <2>3, <2>5, <2>6 DEF Hidden
<1>8. CASE Update(c)
  <2>1. pc[c] = "store" /\ key[c] # None
    BY <1>8 DEF Update
  <2>2. db[key[c]].live
    BY <1>1, <2>1 DEF Knows
  <2> QED
    BY <1>1, <1>8, <2>2 DEF Update, Goto, Safe, TypeOK
<1>9. CASE Index(c)
  <2>1. pc[c] = "index" /\ NameTaken(c)
    BY <1>4, <1>9 DEF Index
  <2>2. key[c] # None
    BY <1>1, <1>2, <2>1, NoneIsNothing, TablesAreDisjoint DEF RequestOK
  <2>3. db[key[c]].live /\ db[key[c]].name = req[c].name /\ key[c] \in table
    BY <1>1, <2>1, <2>2 DEF Knows, RequestOK
  <2>4. PICK h \in table : h # key[c] /\ db[h].live /\ db[h].name = req[c].name
    BY <2>1, <2>3 DEF NameTaken, Holders
  <2> QED
    BY <1>1, <1>2, <2>3, <2>4 DEF Safe, UniqueNames, UniqueIn
<1> QED
  BY <1>5, <1>6, <1>7, <1>8, <1>9

\* A row of an import that finds its record or none, undisturbed, is turned down over
\* its name or device only for a record no listing shows (ImportIsAccepted).
THEOREM ImportsAreAccepted == Spec => ImportIsAccepted
<1>1. Known /\ [Next]_vars =>
        [\A c \in Client :
           /\ pc[c] \in {"check", "store", "index"} /\ pc'[c] = "idle" /\ req[c].op \in Imports
           /\ answer' \in {"conflict", "notFound", "noDevice"}
           => disturbed[c] \/ LookupFailed(c) \/ Hidden(c)]_vars
  BY ImportStep
<1> QED
  BY <1>1, AlwaysKnown, PTL DEF Spec, ImportIsAccepted

=============================================================================
