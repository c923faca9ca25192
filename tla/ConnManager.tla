---------------------------- MODULE ConnManager ----------------------------
(***************************************************************************)
(* The connection manager of the collection engine                         *)
(* (internal/engine/collector/manager.go) with everything that acts on it: *)
(*                                                                         *)
(*   - collection workers: one Read per job, then MarkConnected or         *)
(*     MarkDisconnected (engine.go, collect);                              *)
(*   - write requests: up to MaxOps Write/Read calls on one connection     *)
(*     (writer.go, Execute);                                               *)
(*   - administrators: SaveDevice and DeleteDevice commit the row and only *)
(*     then call Invalidate (service.go);                                  *)
(*   - the environment, which may break an open connection;                *)
(*   - Manager.Close at the end of main.                                   *)
(*                                                                         *)
(* A step of a thread is one critical section of Manager.mu, one call on   *)
(* the network or one query: what the Go code does between two points at   *)
(* which another goroutine can be observed.  A connection that is closed   *)
(* and that nothing refers to any more stands for a connection not yet     *)
(* dialled, so Conn need only be as large as the references that can exist.*)
(***************************************************************************)
EXTENDS Naturals, FiniteSets

CONSTANTS
  Device,      \* device identifiers
  Worker,      \* goroutines of the collection engine
  Writer,      \* goroutines serving a write request
  Admin,       \* goroutines serving a device update or delete
  Conn,        \* protocol.Connection values
  MaxVersion,  \* bound: updates of one device row
  MaxOps,      \* calls a write request may make on its connection
  None         \* nil

Thread == Worker \cup Writer

ASSUME ConnManagerAssumption ==
  /\ Worker \cap Writer = {}
  /\ MaxVersion \in Nat
  /\ MaxOps \in Nat \ {0}
  /\ None \notin Conn
  /\ None \notin Device
  /\ None \notin Thread

VARIABLES
  version, enabled, deleted,             \* the devices table: configuration
                                         \* number, enabled, deleted
  connections, statuses,                 \* Manager.connections, .statuses
  lastOnline, lastOffline,               \* Manager.lastOnline, .lastOffline
  connState, connDev, connVer, user,     \* per connection: its socket, what it
                                         \* was dialled for, who holds its mu
  pc, dev, seen, fresh, held, ops,       \* per thread inside Connection / an op
  adminPc, adminDev, removed,            \* per administrator
  phase, closing                         \* Manager.Close

rowVars   == <<version, enabled, deleted>>
mgrVars   == <<connections, statuses, lastOnline, lastOffline>>
connVars  == <<connState, connDev, connVer, user>>
callVars  == <<pc, dev, seen, fresh, held, ops>>
adminVars == <<adminPc, adminDev, removed>>
downVars  == <<phase, closing>>
vars == <<rowVars, mgrVars, connVars, callVars, adminVars, downVars>>

\* Program counters.  Those of Calling are inside Manager.Connection.
Calling == {"lookup", "load", "setDisabled", "dial", "setDisconnected",
            "markOffline", "publish", "closeLoser"}
PC      == Calling \cup {"idle", "held", "op", "markConnected", "markDisconnected"}
AdminPC == {"idle", "invalidate", "close"}

\* A time stamp only has to be told from the one it replaces: 0 is "never".
Stamp   == 0..2
Restamp(s) == IF s = 1 THEN 2 ELSE 1

Version == 0..MaxVersion
OpsLeft == 0..MaxOps

RowTypeOK ==
  /\ version \in [Device -> Version]
  /\ enabled \in [Device -> BOOLEAN]
  /\ deleted \in [Device -> BOOLEAN]

MgrTypeOK ==
  /\ connections \in [Device -> Conn \cup {None}]
  /\ statuses    \in [Device -> {"", "connected", "disconnected", "disabled"}]
  /\ lastOnline  \in [Device -> Stamp]
  /\ lastOffline \in [Device -> Stamp]

ConnTypeOK ==
  /\ connState \in [Conn -> {"closed", "open", "broken"}]
  /\ connDev   \in [Conn -> Device \cup {None}]
  /\ connVer   \in [Conn -> Version]
  /\ user      \in [Conn -> Thread \cup {None}]

CallTypeOK ==
  /\ pc    \in [Thread -> PC]
  /\ dev   \in [Thread -> Device \cup {None}]
  /\ seen  \in [Thread -> Version]
  /\ fresh \in [Thread -> Conn \cup {None}]
  /\ held  \in [Thread -> Conn \cup {None}]
  /\ ops   \in [Thread -> OpsLeft]

AdminTypeOK ==
  /\ adminPc  \in [Admin -> AdminPC]
  /\ adminDev \in [Admin -> Device \cup {None}]
  /\ removed  \in [Admin -> Conn \cup {None}]

DownTypeOK ==
  /\ phase \in {"up", "closing", "down"}
  /\ closing \subseteq Conn

\* The type invariant: every variable has the Go type it stands for, and a
\* write request never makes more than MaxOps calls on its connection.
TypeOK ==
  /\ RowTypeOK
  /\ MgrTypeOK
  /\ ConnTypeOK
  /\ CallTypeOK
  /\ AdminTypeOK
  /\ DownTypeOK

Init ==
  /\ version     = [d \in Device |-> 0]
  /\ enabled     \in [Device -> BOOLEAN]
  /\ deleted     = [d \in Device |-> FALSE]
  /\ connections = [d \in Device |-> None]
  /\ statuses    = [d \in Device |-> ""]
  /\ lastOnline  = [d \in Device |-> 0]
  /\ lastOffline = [d \in Device |-> 0]
  /\ connState   = [c \in Conn |-> "closed"]
  /\ connDev     = [c \in Conn |-> None]
  /\ connVer     = [c \in Conn |-> 0]
  /\ user        = [c \in Conn |-> None]
  /\ pc          = [t \in Thread |-> "idle"]
  /\ dev         = [t \in Thread |-> None]
  /\ seen        = [t \in Thread |-> 0]
  /\ fresh       = [t \in Thread |-> None]
  /\ held        = [t \in Thread |-> None]
  /\ ops         = [t \in Thread |-> 0]
  /\ adminPc     = [a \in Admin |-> "idle"]
  /\ adminDev    = [a \in Admin |-> None]
  /\ removed     = [a \in Admin |-> None]
  /\ phase       = "up"
  /\ closing     = {}

-----------------------------------------------------------------------------
(* Manager.Connection, step by step.                                       *)

Transition(t, from, to) ==
  /\ pc[t] = from
  /\ pc' = [pc EXCEPT ![t] = to]

\* How many calls the caller may make on the connection it gets: a worker
\* reads once, Execute makes two attempts of a Write and a Read.
BudgetOneMore(t) == IF t \in Worker THEN 1 ELSE MaxOps + 1
Budget(t) == IF t \in Worker THEN 1 ELSE MaxOps

\* A job or a write request for d arrives.  A caller forgets everything of its
\* previous call: the locals of the Go functions.
StartCall(t, d) ==
  /\ phase = "up"
  /\ Transition(t, "idle", "lookup")
  /\ dev'  = [dev  EXCEPT ![t] = d]
  /\ UNCHANGED <<rowVars, mgrVars, connVars, seen, fresh, held, ops, adminVars, downVars>>

\* The read-locked look-up: a connection in the map is returned as it is.
LookupHit(t) ==
  /\ Transition(t, "lookup", "held")
  /\ connections[dev[t]] # None
  /\ held' = [held EXCEPT ![t] = connections[dev[t]]]
  /\ ops'  = [ops  EXCEPT ![t] = Budget(t)]
  /\ UNCHANGED <<rowVars, mgrVars, connVars, dev, seen, fresh, adminVars, downVars>>

LookupMiss(t) ==
  /\ Transition(t, "lookup", "load")
  /\ connections[dev[t]] = None
  /\ UNCHANGED <<rowVars, mgrVars, connVars, dev, seen, fresh, held, ops, adminVars, downVars>>

\* The caller gets an error and is done.
GiveUp(t, from) ==
  /\ Transition(t, from, "idle")
  /\ dev'  = [dev  EXCEPT ![t] = None]
  /\ seen' = [seen EXCEPT ![t] = 0]
  /\ held' = [held EXCEPT ![t] = None]
  /\ ops'  = [ops  EXCEPT ![t] = 0]

\* GetDevice fails (no such row, or the query fails), the protocol is not
\* registered, or the stored configuration is not an object.
LoadFails(t) ==
  /\ GiveUp(t, "load")
  /\ UNCHANGED <<rowVars, mgrVars, connVars, fresh, adminVars, downVars>>

\* GetDevice only returns a row that is not deleted.
LoadEnabled(t) ==
  /\ Transition(t, "load", "dial")
  /\ ~deleted[dev[t]]
  /\ enabled[dev[t]]
  /\ seen' = [seen EXCEPT ![t] = version[dev[t]]]
  /\ UNCHANGED <<rowVars, mgrVars, connVars, dev, fresh, held, ops, adminVars, downVars>>

LoadDisabled(t) ==
  /\ Transition(t, "load", "setDisabled")
  /\ ~deleted[dev[t]]
  /\ ~enabled[dev[t]]
  /\ UNCHANGED <<rowVars, mgrVars, connVars, dev, seen, fresh, held, ops, adminVars, downVars>>

\* setStatus(id, "disabled") and return context.Canceled.
SetDisabled(t) ==
  /\ GiveUp(t, "setDisabled")
  /\ statuses' = [statuses EXCEPT ![dev[t]] = "disabled"]
  /\ UNCHANGED <<rowVars, connections, lastOnline, lastOffline, connVars, fresh,
                 adminVars, downVars>>

\* A connection nothing refers to: the one a successful dial returns.
Unused(c) ==
  /\ connState[c] = "closed"
  /\ \A t \in Thread : held[t] # c

DialOk(t, c) ==
  /\ Transition(t, "dial", "publish")
  /\ Unused(c)
  /\ connState' = [connState EXCEPT ![c] = "open"]
  /\ connDev'   = [connDev   EXCEPT ![c] = dev[t]]
  /\ connVer'   = [connVer   EXCEPT ![c] = seen[t]]
  /\ fresh'     = [fresh     EXCEPT ![t] = c]
  /\ seen'      = [seen      EXCEPT ![t] = 0]
  /\ UNCHANGED <<rowVars, mgrVars, user, dev, held, ops, adminVars, downVars>>

\* The loaded row is not used after the dial.
DialRetries(t) ==
  /\ Transition(t, "dial", "load")
  /\ seen' = [seen EXCEPT ![t] = 0]
  /\ UNCHANGED <<rowVars, mgrVars, connVars, dev, fresh, held, ops, adminVars, downVars>>
DialFails(t) ==
  /\ Transition(t, "dial", "setDisconnected")
  /\ seen' = [seen EXCEPT ![t] = 0]
  /\ UNCHANGED <<rowVars, mgrVars, connVars, dev, fresh, held, ops, adminVars, downVars>>

\* setStatus(id, "disconnected") stamps lastOffline, whatever the status was.
SetDisconnected(t) ==
  /\ Transition(t, "setDisconnected", "markOffline")
  /\ statuses'    = [statuses    EXCEPT ![dev[t]] = "disconnected"]
  /\ lastOffline' = [lastOffline EXCEPT ![dev[t]] = Restamp(@)]
  /\ UNCHANGED <<rowVars, connections, lastOnline, connVars, dev, seen, fresh, held, ops,
                 adminVars, downVars>>

\* markOffline stamps it again, in a second critical section.
MarkOffline(t) ==
  /\ GiveUp(t, "markOffline")
  /\ lastOffline' = [lastOffline EXCEPT ![dev[t]] = Restamp(@)]
  /\ UNCHANGED <<rowVars, connections, statuses, lastOnline, connVars, fresh,
                 adminVars, downVars>>

\* The second look at the map, under the write lock: is the slot still empty?
SlotTakenIgnored(d) == FALSE
SlotTaken(d) == connections[d] # None

\* Install the new connection and return it.
Publish(t) ==
  /\ Transition(t, "publish", "held")
  /\ ~SlotTaken(dev[t])
  /\ connections' = [connections EXCEPT ![dev[t]] = fresh[t]]
  /\ statuses'    = [statuses    EXCEPT ![dev[t]] = "connected"]
  /\ lastOnline'  = [lastOnline  EXCEPT ![dev[t]] = Restamp(@)]
  /\ held'        = [held        EXCEPT ![t] = fresh[t]]
  /\ fresh'       = [fresh       EXCEPT ![t] = None]
  /\ ops'         = [ops         EXCEPT ![t] = Budget(t)]
  /\ UNCHANGED <<rowVars, lastOffline, connVars, dev, seen, adminVars, downVars>>

\* Another caller was faster: keep its connection, unlock, close our own.
LosePublish(t) ==
  /\ Transition(t, "publish", "closeLoser")
  /\ SlotTaken(dev[t])
  /\ held' = [held EXCEPT ![t] = connections[dev[t]]]
  /\ UNCHANGED <<rowVars, mgrVars, connVars, dev, seen, fresh, ops, adminVars, downVars>>

\* connection.Close takes the connection's own mu, so it waits for its user.
\* A closed socket has no peer any more: connDev and connVer are forgotten.
CloseUnlocked(c) == TRUE
CloseAllowed(c)  == user[c] = None

CloseSocket(c) ==
  /\ CloseAllowed(c)
  /\ connState' = [connState EXCEPT ![c] = "closed"]
  /\ connDev'   = [connDev   EXCEPT ![c] = None]
  /\ connVer'   = [connVer   EXCEPT ![c] = 0]
  /\ UNCHANGED user

\* The loser is the connection just dialled, not the one in the map.
Loser(t) == fresh[t]

LeaveLoserOpen(t) ==
  /\ Transition(t, "closeLoser", "held")
  /\ fresh' = [fresh EXCEPT ![t] = None]
  /\ ops'   = [ops   EXCEPT ![t] = Budget(t)]
  /\ UNCHANGED <<rowVars, mgrVars, connVars, dev, seen, held, adminVars, downVars>>
CloseLoser(t) ==
  /\ Transition(t, "closeLoser", "held")
  /\ CloseSocket(Loser(t))
  /\ fresh' = [fresh EXCEPT ![t] = None]
  /\ ops'   = [ops   EXCEPT ![t] = Budget(t)]
  /\ UNCHANGED <<rowVars, mgrVars, dev, seen, held, adminVars, downVars>>

-----------------------------------------------------------------------------
(* What a caller does with the connection.                                 *)

\* Read or Write locks the connection's mu.
BeginOpUnlocked(t) ==
  /\ Transition(t, "held", "op")
  /\ user' = [user EXCEPT ![held[t]] = t]
  /\ UNCHANGED <<rowVars, mgrVars, connState, connDev, connVer, dev, seen, fresh, held, ops,
                 adminVars, downVars>>
BeginOp(t) ==
  /\ Transition(t, "held", "op")
  /\ user[held[t]] = None
  /\ user' = [user EXCEPT ![held[t]] = t]
  /\ UNCHANGED <<rowVars, mgrVars, connState, connDev, connVer, dev, seen, fresh, held, ops,
                 adminVars, downVars>>

\* The call of t on its connection returns and unlocks mu.
Release(t) ==
  /\ pc[t] = "op"
  /\ user' = [user EXCEPT ![held[t]] = None]

\* collect reads once and then marks the device by the outcome.
WorkerReadOk(t) ==
  /\ t \in Worker
  /\ Release(t)
  /\ connState[held[t]] = "open"
  /\ pc'   = [pc   EXCEPT ![t] = "markConnected"]
  /\ held' = [held EXCEPT ![t] = None]
  /\ ops'  = [ops  EXCEPT ![t] = 0]
  /\ UNCHANGED <<rowVars, mgrVars, connState, connDev, connVer, dev, seen, fresh,
                 adminVars, downVars>>

\* A read may fail on any connection (device exception, deadline) and always
\* fails on a broken or closed one.  The connection stays in the map.
WorkerReadFails(t) ==
  /\ t \in Worker
  /\ Release(t)
  /\ pc'   = [pc   EXCEPT ![t] = "markDisconnected"]
  /\ held' = [held EXCEPT ![t] = None]
  /\ ops'  = [ops  EXCEPT ![t] = 0]
  /\ UNCHANGED <<rowVars, mgrVars, connState, connDev, connVer, dev, seen, fresh,
                 adminVars, downVars>>

\* Execute goes on with the same connection: read-back after a write, second
\* attempt after an error or a mismatch.
WriterGoesOn(t) ==
  /\ t \in Writer
  /\ ops[t] > 1
  /\ Release(t)
  /\ pc'  = [pc  EXCEPT ![t] = "held"]
  /\ ops' = [ops EXCEPT ![t] = @ - 1]
  /\ UNCHANGED <<rowVars, mgrVars, connState, connDev, connVer, dev, seen, fresh, held,
                 adminVars, downVars>>

\* Execute returns: the read-back matched or the attempts are used up.
WriterReturns(t) ==
  /\ t \in Writer
  /\ Release(t)
  /\ GiveUp(t, "op")
  /\ UNCHANGED <<rowVars, mgrVars, connState, connDev, connVer, fresh, adminVars, downVars>>

\* MarkConnected does not look at the map of connections.
MarkConnected(t) ==
  /\ GiveUp(t, "markConnected")
  /\ statuses'   = [statuses EXCEPT ![dev[t]] = "connected"]
  /\ lastOnline' = IF statuses[dev[t]] # "connected"
                   THEN [lastOnline EXCEPT ![dev[t]] = Restamp(@)]
                   ELSE lastOnline
  /\ UNCHANGED <<rowVars, connections, lastOffline, connVars, fresh, adminVars, downVars>>

DisconnectedFromConnected(t) ==
  /\ GiveUp(t, "markDisconnected")
  /\ statuses'    = [statuses EXCEPT ![dev[t]] = "disconnected"]
  /\ lastOffline' = IF statuses[dev[t]] = "connected"
                    THEN [lastOffline EXCEPT ![dev[t]] = Restamp(@)]
                    ELSE lastOffline
  /\ UNCHANGED <<rowVars, connections, lastOnline, connVars, fresh, adminVars, downVars>>
MarkDisconnected(t) ==
  /\ GiveUp(t, "markDisconnected")
  /\ statuses'    = [statuses EXCEPT ![dev[t]] = "disconnected"]
  /\ lastOffline' = IF statuses[dev[t]] # "disconnected"
                    THEN [lastOffline EXCEPT ![dev[t]] = Restamp(@)]
                    ELSE lastOffline
  /\ UNCHANGED <<rowVars, connections, lastOnline, connVars, fresh, adminVars, downVars>>

\* The peer, the network or a deadline in mid-frame makes an open connection
\* useless: from now on every call on it fails.
Break(c) ==
  /\ connState[c] = "open"
  /\ connState' = [connState EXCEPT ![c] = "broken"]
  /\ UNCHANGED <<rowVars, mgrVars, connDev, connVer, user, callVars, adminVars, downVars>>

-----------------------------------------------------------------------------
(* Device administration.                                                  *)

\* UpdateDevice commits a new configuration.  MaxVersion bounds the updates.
CommitUpdate(a, d) ==
  /\ phase = "up"
  /\ adminPc[a] = "idle"
  /\ ~deleted[d]
  /\ version[d] < MaxVersion
  /\ version' = [version EXCEPT ![d] = @ + 1]
  /\ enabled' \in {[enabled EXCEPT ![d] = b] : b \in BOOLEAN}
  /\ adminPc'  = [adminPc  EXCEPT ![a] = "invalidate"]
  /\ adminDev' = [adminDev EXCEPT ![a] = d]
  /\ UNCHANGED <<deleted, mgrVars, connVars, callVars, removed, downVars>>

\* DeleteDevice: deleted=TRUE, enabled=FALSE in one transaction.
CommitDelete(a, d) ==
  /\ phase = "up"
  /\ adminPc[a] = "idle"
  /\ ~deleted[d]
  /\ deleted'  = [deleted  EXCEPT ![d] = TRUE]
  /\ enabled'  = [enabled  EXCEPT ![d] = FALSE]
  /\ adminPc'  = [adminPc  EXCEPT ![a] = "invalidate"]
  /\ adminDev' = [adminDev EXCEPT ![a] = d]
  /\ UNCHANGED <<version, mgrVars, connVars, callVars, removed, downVars>>

\* What the device's slot holds once Invalidate has run.
SlotKept(d) == connections[d]
SlotAfterInvalidate(d) == None

\* The critical section of Invalidate.
InvalidateMap(a) ==
  LET d == adminDev[a] IN
  /\ adminPc[a] = "invalidate"
  /\ removed'     = [removed     EXCEPT ![a] = connections[d]]
  /\ connections' = [connections EXCEPT ![d] = SlotAfterInvalidate(d)]
  /\ statuses'    = [statuses    EXCEPT ![d] = "disconnected"]
  /\ lastOffline' = [lastOffline EXCEPT ![d] = Restamp(@)]
  /\ adminPc'     = [adminPc     EXCEPT ![a] = IF connections[d] # None THEN "close" ELSE "idle"]
  /\ adminDev'    = [adminDev    EXCEPT ![a] = None]
  /\ UNCHANGED <<rowVars, lastOnline, connVars, callVars, downVars>>

\* ... and the Close after it, outside the lock.
CloseRemoved(a) ==
  /\ adminPc[a] = "close"
  /\ CloseSocket(removed[a])
  /\ removed'   = [removed   EXCEPT ![a] = None]
  /\ adminPc'   = [adminPc   EXCEPT ![a] = "idle"]
  /\ UNCHANGED <<rowVars, mgrVars, callVars, adminDev, downVars>>

-----------------------------------------------------------------------------
(* The end of main: the HTTP server has shut down and collector.Stop has   *)
(* waited for the workers before connections.Close runs.                   *)

HandlersQuiet == \A a \in Admin : adminPc[a] = "idle"
Quiet ==
  /\ \A t \in Thread : pc[t] = "idle"
  /\ \A a \in Admin : adminPc[a] = "idle"

\* The swap of the map under the lock, then a loop over the old one.
InMap(c) == \E d \in Device : connections[d] = c

CloseManager ==
  /\ phase = "up"
  /\ Quiet
  /\ phase'       = "closing"
  /\ closing'     = {c \in Conn : InMap(c)}
  /\ connections' = [d \in Device |-> None]
  /\ UNCHANGED <<rowVars, statuses, lastOnline, lastOffline, connVars, callVars, adminVars>>

CloseNext(c) ==
  /\ phase = "closing"
  /\ c \in closing
  /\ CloseSocket(c)
  /\ closing' = closing \ {c}
  /\ UNCHANGED <<rowVars, mgrVars, callVars, adminVars, phase>>

ManagerClosed ==
  /\ phase = "closing"
  /\ closing = {}
  /\ phase' = "down"
  /\ UNCHANGED <<rowVars, mgrVars, connVars, callVars, adminVars, closing>>

\* The process is gone; nothing more happens.
Exited == phase = "down" /\ UNCHANGED vars

-----------------------------------------------------------------------------
Load(t) == LoadFails(t) \/ LoadEnabled(t) \/ LoadDisabled(t)
Dial(t) == DialFails(t) \/ \E c \in Conn : DialOk(t, c)
EndOp(t) == \/ WorkerReadOk(t) \/ WorkerReadFails(t)
            \/ WriterGoesOn(t) \/ WriterReturns(t)

\* Every step of t but the arrival of its next job or request and the locking
\* of a connection's mu.
Advance(t) ==
  \/ LookupHit(t) \/ LookupMiss(t)
  \/ Load(t) \/ SetDisabled(t)
  \/ Dial(t) \/ SetDisconnected(t) \/ MarkOffline(t)
  \/ Publish(t) \/ LosePublish(t) \/ CloseLoser(t)
  \/ EndOp(t) \/ MarkConnected(t) \/ MarkDisconnected(t)

Commit(a) == \E d \in Device : CommitUpdate(a, d) \/ CommitDelete(a, d)

Next ==
  \/ \E t \in Thread : \/ \E d \in Device : StartCall(t, d)
                       \/ Advance(t)
                       \/ BeginOp(t)
  \/ \E a \in Admin : Commit(a) \/ InvalidateMap(a) \/ CloseRemoved(a)
  \/ \E c \in Conn : Break(c) \/ CloseNext(c)
  \/ CloseManager \/ ManagerClosed \/ Exited

Spec == Init /\ [][Next]_vars

\* Goroutines that can run do run, every network call has a deadline, and a
\* Go mutex hands itself over first-in first-out once a waiter starves, so a
\* lock that is free again and again is obtained.
Fairness ==
  /\ \A t \in Thread : WF_vars(Advance(t)) /\ SF_vars(BeginOp(t))
  /\ \A a \in Admin : WF_vars(InvalidateMap(a)) /\ SF_vars(CloseRemoved(a))
  /\ \A c \in Conn : WF_vars(CloseNext(c))

FairSpec == Spec /\ Fairness

-----------------------------------------------------------------------------
(* Safety.                                                                 *)

\* A connection in the map is never closed and belongs to the device it is
\* filed under: Connection never hands out a closed socket or another device's
\* one, because Invalidate takes a connection out of the map before closing it
\* and the loser of a dial race is closed without ever being in the map.
InstalledOpen ==
  \A d \in Device : \A c \in Conn :
    connections[d] = c => connState[c] # "closed" /\ connDev[c] = d

\* Who else may be responsible for closing c.
WithDialler(c) == \E t \in Thread : fresh[t] = c
WithAdmin(c)   == \E a \in Admin : removed[a] = c

\* Every socket that is not closed still has someone who will close it: the
\* map (for Invalidate or Manager.Close), the goroutine that has just dialled
\* it, the Invalidate that took it out, or Manager.Close.  Otherwise a save
\* racing a first connection would leak a socket per race.
NoLeak ==
  \A c \in Conn : connState[c] # "closed" =>
    InMap(c) \/ WithDialler(c) \/ WithAdmin(c) \/ c \in closing

\* ... and exactly one, so no connection is closed twice and none is closed
\* by one goroutine while another still publishes it.
SingleOwner ==
  \A c \in Conn :
    /\ \A t, u \in Thread : fresh[t] = c /\ fresh[u] = c => t = u
    /\ \A a, b \in Admin : removed[a] = c /\ removed[b] = c => a = b
    /\ WithDialler(c) => ~InMap(c) /\ ~WithAdmin(c)
    /\ WithAdmin(c) => ~InMap(c)
    /\ c \in closing => ~InMap(c) /\ ~WithDialler(c) /\ ~WithAdmin(c)

\* Nothing is closed under a caller that is in the middle of a Read or Write:
\* Close waits for the connection's mu, whoever calls it.
NoCloseDuringOp ==
  [][\A c \in Conn : connState[c] # "closed" /\ connState'[c] = "closed"
                       => \A t \in Thread : ~(pc[t] = "op" /\ held[t] = c)]_vars

\* A published connection is only ever replaced by way of an empty slot: two
\* callers that dial at the same time never overwrite each other's connection.
NoOverwrite ==
  [][\A d \in Device : connections[d] # None
                         => connections'[d] \in {connections[d], None}]_vars

\* A device whose status is connected (disconnected) has been stamped as online
\* (offline), although status and stamp are written by many goroutines in any
\* order and some of them stamp only when the status is a new one.
StatusStamped ==
  \A d \in Device :
    /\ statuses[d] = "connected" => lastOnline[d] # 0
    /\ statuses[d] = "disconnected" => lastOffline[d] # 0

\* When main has closed the manager no device connection is left open.
NothingLeftOpen == phase = "down" => \A c \in Conn : connState[c] = "closed"

-----------------------------------------------------------------------------
(* The promise of the manager as an abstract specification.                *)

\* The slots are the map, an open socket is one with a peer.
Slot == INSTANCE ConnSlot WITH slot <- connections, owner <- connDev

\* Whatever the locks, the order of callers, saves and the shutdown, each step
\* is one the abstract slots allow: only an open socket of the device goes into
\* its slot and only when that is empty; one call at a time on a connection;
\* only a socket out of its slot that nobody uses is closed.
ImplementsSlots == Slot!Spec

-----------------------------------------------------------------------------
(* Liveness, under Fairness.                                               *)

\* Manager.Connection returns, with a connection or an error.
CallReturns == \A t \in Thread : (pc[t] = "lookup") ~> (pc[t] \notin Calling)

\* A socket that is in no slot is installed or closed in the end: the loser of
\* a dial race, the one a save took out, those of the shutdown.
StrayIsSettled == Slot!StrayIsSettled

-----------------------------------------------------------------------------
(* What the documents promise and the code does not keep.  TLC refutes     *)
(* each formula; the README says which runs do.                            *)

\* "Once a configuration is saved the old connection is invalid and the next
\* read or write connects with the new one": when no save of d is between its
\* commit and its Invalidate, the connection filed under d was dialled with
\* the row as it now is.
ConnectionMatchesRow ==
  \A d \in Device :
    connections[d] # None /\ (\A a \in Admin : adminDev[a] # d) =>
      connVer[connections[d]] = version[d]

\* "Reads and writes of one device are serial": two callers are never in a
\* Read or Write of the same device at the same time.
SerialPerDevice ==
  \A t, u \in Thread :
    t # u /\ pc[t] = "op" /\ pc[u] = "op" => dev[t] # dev[u]

\* What GetDevice and ListDevices of the service show for d.
DisplayedStatus(d) ==
  IF ~enabled[d] THEN "disabled"
  ELSE IF statuses[d] = "" THEN "disconnected" ELSE statuses[d]

\* "connected: the device is enabled and connected to the PLC": a device shown
\* as connected has a connection.
ConnectedHasConnection ==
  phase = "up" =>
    \A d \in Device : DisplayedStatus(d) = "connected" => connections[d] # None

\* "A later collection connects again after a break": a broken connection does
\* not stay in the map for ever, provided jobs for the device keep arriving.
KeepsPolling == \A t \in Worker : \A d \in Device : WF_vars(StartCall(t, d))
PollingSpec == FairSpec /\ KeepsPolling
BrokenIsReplaced ==
  \A d \in Device : \A c \in Conn :
    (connections[d] = c /\ connState[c] = "broken") ~>
       (connections[d] # c \/ connState[c] # "broken")

=============================================================================
