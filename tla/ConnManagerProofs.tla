------------------------- MODULE ConnManagerProofs -------------------------
(***************************************************************************)
(* Machine-checked invariance proofs for ConnManager, for any number of    *)
(* devices, workers, write requests, administrators and connections.       *)
(***************************************************************************)
EXTENDS ConnManager, TLAPS

\* The locals of a caller exist exactly while the code has them.
CallerShape ==
  \A t \in Thread :
    /\ dev[t] = None <=> pc[t] = "idle"
    /\ fresh[t] # None <=> pc[t] \in {"publish", "closeLoser"}
    /\ held[t] # None <=> pc[t] \in {"closeLoser", "held", "op"}

\* ... and those of an administrator.
AdminShape ==
  \A a \in Admin :
    /\ adminDev[a] # None <=> adminPc[a] = "invalidate"
    /\ removed[a] # None <=> adminPc[a] = "close"

\* A connection's mu is held by t exactly while t is in a call on it.
UserShape ==
  \A t \in Thread : \A c \in Conn :
    user[c] = t <=> pc[t] = "op" /\ held[t] = c

\* What a caller has dialled is open and meant for the caller's device; what
\* is waiting to be closed is not closed yet.
OwnedOpen ==
  \A c \in Conn :
    /\ \A t \in Thread : fresh[t] = c => connState[c] # "closed" /\ connDev[c] = dev[t]
    /\ \A a \in Admin : removed[a] = c => connState[c] # "closed"
    /\ c \in closing => connState[c] # "closed"

\* Manager.Close runs when nobody is left to call the manager, and empties it.
ShutdownShape ==
  /\ phase # "up" => Quiet /\ \A d \in Device : connections[d] = None
  /\ phase # "closing" => closing = {}

\* Who owns which connection.
Ownership ==
  /\ OwnedOpen
  /\ InstalledOpen
  /\ SingleOwner
  /\ NoLeak

\* The inductive invariant.
IInv ==
  /\ TypeOK
  /\ CallerShape
  /\ AdminShape
  /\ UserShape
  /\ ShutdownShape
  /\ Ownership

-----------------------------------------------------------------------------
(* Which actions change which group of variables.                         *)

\* Only a commit changes the devices table.
LEMMA RowFrame ==
  ASSUME [Next]_vars
  PROVE  \/ UNCHANGED rowVars
         \/ \E a \in Admin : \E d \in Device : CommitUpdate(a, d)
               \/ CommitDelete(a, d)
<1>1. CASE UNCHANGED vars
  BY <1>1 DEF vars
<1>2. CASE \E t \in Thread : \/ \E d \in Device : StartCall(t, d)
                             \/ Advance(t)
                             \/ BeginOp(t)
  <2>1. PICK t \in Thread : (\E d \in Device : StartCall(t, d)) \/ Advance(t) \/ BeginOp(t)
    BY <1>2
  <2>2. ASSUME NEW d \in Device, StartCall(t, d) PROVE UNCHANGED rowVars
    BY <2>2 DEF StartCall
  <2>3. CASE Advance(t)
    BY <2>3 DEF Advance, Load, LoadDisabled, LoadEnabled, LoadFails, LookupHit, LookupMiss, Dial,
       DialFails, DialOk, EndOp, CloseLoser, CloseSocket, GiveUp, LosePublish, MarkConnected,
       MarkDisconnected, MarkOffline, Publish, Release, SetDisabled, SetDisconnected, Transition,
       WorkerReadFails, WorkerReadOk, WriterGoesOn, WriterReturns
  <2>4. CASE BeginOp(t)
    BY <2>4 DEF BeginOp
  <2>. QED BY <2>1, <2>2, <2>3, <2>4
<1>3. CASE \E a \in Admin : Commit(a) \/ InvalidateMap(a) \/ CloseRemoved(a)
  BY <1>3 DEF Commit, InvalidateMap, CloseRemoved
<1>4. CASE \E c \in Conn : Break(c) \/ CloseNext(c)
  BY <1>4 DEF Break, CloseNext
<1>5. CASE CloseManager \/ ManagerClosed \/ Exited
  BY <1>5 DEF CloseManager, ManagerClosed, Exited, vars
<1>. QED BY <1>1, <1>2, <1>3, <1>4, <1>5 DEF Next

\* The maps of the manager change in its critical sections only.
LEMMA MgrFrame ==
  ASSUME [Next]_vars
  PROVE  \/ UNCHANGED mgrVars
         \/ \E t \in Thread : SetDisabled(t) \/ SetDisconnected(t)
                              \/ MarkOffline(t) \/ Publish(t)
                              \/ MarkConnected(t) \/ MarkDisconnected(t)
         \/ \E a \in Admin : InvalidateMap(a)
         \/ CloseManager
BY DEF Next, Advance, Load, Dial, EndOp, Commit, Exited, vars, rowVars,
   mgrVars, connVars, callVars, adminVars, downVars, BeginOp, Break, Budget,
   CloseAllowed, CloseLoser, CloseNext, CloseRemoved, CloseSocket,
   CommitDelete, CommitUpdate, DialFails, DialOk, GiveUp, LoadDisabled,
   LoadEnabled, LoadFails, LookupHit, LookupMiss, LosePublish, Loser,
   ManagerClosed, Quiet, Release, SlotTaken, StartCall, Transition, Unused,
   WorkerReadFails, WorkerReadOk, WriterGoesOn, WriterReturns

\* What can happen to a connection.
LEMMA ConnFrame ==
  ASSUME [Next]_vars
  PROVE  \/ UNCHANGED connVars
         \/ \E t \in Thread : \E c \in Conn : DialOk(t, c)
         \/ \E t \in Thread : CloseLoser(t) \/ BeginOp(t) \/ WorkerReadOk(t)
                              \/ WorkerReadFails(t) \/ WriterGoesOn(t)
                              \/ WriterReturns(t)
         \/ \E c \in Conn : Break(c) \/ CloseNext(c)
         \/ \E a \in Admin : CloseRemoved(a)
BY DEF Next, Advance, Load, Dial, EndOp, Commit, Exited, vars, rowVars,
   mgrVars, connVars, callVars, adminVars, downVars, Budget, CloseManager,
   CommitDelete, CommitUpdate, DialFails, GiveUp, InMap, InvalidateMap,
   LoadDisabled, LoadEnabled, LoadFails, LookupHit, LookupMiss, LosePublish,
   ManagerClosed, MarkConnected, MarkDisconnected, MarkOffline, Publish,
   Quiet, SetDisabled, SetDisconnected, SlotAfterInvalidate, SlotTaken,
   StartCall, Transition

\* The locals of a call belong to its thread.
LEMMA CallFrame ==
  ASSUME [Next]_vars
  PROVE  \/ UNCHANGED callVars
         \/ \E t \in Thread : \E d \in Device : StartCall(t, d)
         \/ \E t \in Thread : LookupHit(t) \/ LookupMiss(t) \/ LoadFails(t)
                              \/ LoadEnabled(t) \/ LoadDisabled(t)
                              \/ SetDisabled(t) \/ DialFails(t)
                              \/ SetDisconnected(t) \/ MarkOffline(t)
                              \/ Publish(t) \/ LosePublish(t) \/ CloseLoser(t)
                              \/ BeginOp(t) \/ WorkerReadOk(t)
                              \/ WorkerReadFails(t) \/ WriterGoesOn(t)
                              \/ WriterReturns(t) \/ MarkConnected(t)
                              \/ MarkDisconnected(t)
         \/ \E t \in Thread : \E c \in Conn : DialOk(t, c)
BY DEF Next, Advance, Load, Dial, EndOp, Commit, Exited, vars, rowVars,
   mgrVars, connVars, callVars, adminVars, downVars, Break, CloseAllowed,
   CloseManager, CloseNext, CloseRemoved, CloseSocket, CommitDelete,
   CommitUpdate, InMap, InvalidateMap, ManagerClosed, Quiet,
   SlotAfterInvalidate

\* The locals of a save or delete.
LEMMA AdminFrame ==
  ASSUME [Next]_vars
  PROVE  \/ UNCHANGED adminVars
         \/ \E a \in Admin : \E d \in Device : CommitUpdate(a, d)
               \/ CommitDelete(a, d)
         \/ \E a \in Admin : InvalidateMap(a) \/ CloseRemoved(a)
BY DEF Next, Advance, Load, Dial, EndOp, Commit, Exited, vars, rowVars,
   mgrVars, connVars, callVars, adminVars, downVars, BeginOp, Break, Budget,
   CloseAllowed, CloseLoser, CloseManager, CloseNext, CloseSocket, DialFails,
   DialOk, GiveUp, InMap, LoadDisabled, LoadEnabled, LoadFails, LookupHit,
   LookupMiss, LosePublish, Loser, ManagerClosed, MarkConnected,
   MarkDisconnected, MarkOffline, Publish, Quiet, Release, SetDisabled,
   SetDisconnected, SlotTaken, StartCall, Transition, Unused, WorkerReadFails,
   WorkerReadOk, WriterGoesOn, WriterReturns

\* Only Manager.Close moves the shutdown on.
LEMMA DownFrame ==
  ASSUME [Next]_vars
  PROVE  \/ UNCHANGED downVars
         \/ CloseManager \/ ManagerClosed
         \/ \E c \in Conn : CloseNext(c)
BY DEF Next, Advance, Load, Dial, EndOp, Commit, Exited, vars, rowVars,
   mgrVars, connVars, callVars, adminVars, downVars, BeginOp, Break, Budget,
   CloseAllowed, CloseLoser, CloseRemoved, CloseSocket, CommitDelete,
   CommitUpdate, DialFails, DialOk, GiveUp, InvalidateMap, LoadDisabled,
   LoadEnabled, LoadFails, LookupHit, LookupMiss, LosePublish, Loser,
   MarkConnected, MarkDisconnected, MarkOffline, Publish, Release,
   SetDisabled, SetDisconnected, SlotAfterInvalidate, SlotTaken, StartCall,
   Transition, Unused, WorkerReadFails, WorkerReadOk, WriterGoesOn,
   WriterReturns

\* Only a call on the connection takes or releases its mu.
LEMMA UserFrame ==
  ASSUME [Next]_vars
  PROVE  \/ UNCHANGED user
         \/ \E t \in Thread : BeginOp(t) \/ WorkerReadOk(t)
                              \/ WorkerReadFails(t) \/ WriterGoesOn(t)
                              \/ WriterReturns(t)
BY DEF Next, Advance, Load, Dial, EndOp, Commit, Exited, vars, rowVars,
   mgrVars, connVars, callVars, adminVars, downVars, Break, Budget,
   CloseAllowed, CloseLoser, CloseManager, CloseNext, CloseRemoved,
   CloseSocket, CommitDelete, CommitUpdate, DialFails, DialOk, GiveUp, InMap,
   InvalidateMap, LoadDisabled, LoadEnabled, LoadFails, LookupHit, LookupMiss,
   LosePublish, Loser, ManagerClosed, MarkConnected, MarkDisconnected,
   MarkOffline, Publish, Quiet, SetDisabled, SetDisconnected,
   SlotAfterInvalidate, SlotTaken, StartCall, Transition, Unused

\* The actions that open, close or pass on a connection.
LEMMA OwnerFrame ==
  ASSUME [Next]_vars
  PROVE  \/ UNCHANGED <<connections, fresh, removed, closing, connState, connDev>>
         \/ \E t \in Thread : \E c \in Conn : DialOk(t, c)
         \/ \E t \in Thread : Publish(t) \/ CloseLoser(t)
         \/ \E c \in Conn : Break(c) \/ CloseNext(c)
         \/ \E a \in Admin : InvalidateMap(a) \/ CloseRemoved(a)
         \/ CloseManager
BY DEF Next, Advance, Load, Dial, EndOp, Commit, Exited, vars, rowVars,
   mgrVars, connVars, callVars, adminVars, downVars, BeginOp, Budget,
   CommitDelete, CommitUpdate, DialFails, GiveUp, LoadDisabled, LoadEnabled,
   LoadFails, LookupHit, LookupMiss, LosePublish, ManagerClosed,
   MarkConnected, MarkDisconnected, MarkOffline, Release, SetDisabled,
   SetDisconnected, SlotTaken, StartCall, Transition, WorkerReadFails,
   WorkerReadOk, WriterGoesOn, WriterReturns

\* The device of a call changes when the call begins or ends.
LEMMA DevFrame ==
  ASSUME [Next]_vars
  PROVE  \/ UNCHANGED dev
         \/ \E t \in Thread : \E d \in Device : StartCall(t, d)
         \/ \E t \in Thread : LoadFails(t) \/ SetDisabled(t) \/ MarkOffline(t)
                              \/ WriterReturns(t) \/ MarkConnected(t)
                              \/ MarkDisconnected(t)
BY DEF Next, Advance, Load, Dial, EndOp, Commit, Exited, vars, rowVars,
   mgrVars, connVars, callVars, adminVars, downVars, BeginOp, Break, Budget,
   CloseAllowed, CloseLoser, CloseManager, CloseNext, CloseRemoved,
   CloseSocket, CommitDelete, CommitUpdate, DialFails, DialOk, InMap,
   InvalidateMap, LoadDisabled, LoadEnabled, LookupHit, LookupMiss,
   LosePublish, Loser, ManagerClosed, Publish, Quiet, Release,
   SetDisconnected, SlotAfterInvalidate, SlotTaken, Transition, Unused,
   WorkerReadFails, WorkerReadOk, WriterGoesOn

\* Who writes to the map of connections.
LEMMA SlotFrame ==
  ASSUME [Next]_vars
  PROVE  \/ UNCHANGED connections
         \/ \E t \in Thread : Publish(t)
         \/ \E a \in Admin : InvalidateMap(a)
         \/ CloseManager
BY DEF Next, Advance, Load, Dial, EndOp, Commit, Exited, vars, rowVars,
   mgrVars, connVars, callVars, adminVars, downVars, BeginOp, Break, Budget,
   CloseAllowed, CloseLoser, CloseNext, CloseRemoved, CloseSocket,
   CommitDelete, CommitUpdate, DialFails, DialOk, GiveUp, LoadDisabled,
   LoadEnabled, LoadFails, LookupHit, LookupMiss, LosePublish, Loser,
   ManagerClosed, MarkConnected, MarkDisconnected, MarkOffline, Quiet,
   Release, SetDisabled, SetDisconnected, SlotTaken, StartCall, Transition,
   Unused, WorkerReadFails, WorkerReadOk, WriterGoesOn, WriterReturns

\* Who opens, breaks and closes sockets.
LEMMA StateFrame ==
  ASSUME [Next]_vars
  PROVE  \/ UNCHANGED connState
         \/ \E t \in Thread : \E c \in Conn : DialOk(t, c)
         \/ \E t \in Thread : CloseLoser(t)
         \/ \E c \in Conn : Break(c) \/ CloseNext(c)
         \/ \E a \in Admin : CloseRemoved(a)
BY DEF Next, Advance, Load, Dial, EndOp, Commit, Exited, vars, rowVars,
   mgrVars, connVars, callVars, adminVars, downVars, BeginOp, Budget,
   CloseManager, CommitDelete, CommitUpdate, DialFails, GiveUp, InMap,
   InvalidateMap, LoadDisabled, LoadEnabled, LoadFails, LookupHit, LookupMiss,
   LosePublish, ManagerClosed, MarkConnected, MarkDisconnected, MarkOffline,
   Publish, Quiet, Release, SetDisabled, SetDisconnected, SlotAfterInvalidate,
   SlotTaken, StartCall, Transition, WorkerReadFails, WorkerReadOk,
   WriterGoesOn, WriterReturns

-----------------------------------------------------------------------------
(* Types.                                                                  *)

\* The small sets of numbers are closed under what the actions do with them.
LEMMA Numbers ==
  /\ 0 \in Version /\ 0 \in OpsLeft /\ 0 \in Stamp
  /\ \A v \in Version : v < MaxVersion => v + 1 \in Version
  /\ \A n \in OpsLeft : n > 1 => n - 1 \in OpsLeft
  /\ \A t \in Thread : Budget(t) \in OpsLeft
  /\ \A s \in Stamp : Restamp(s) \in Stamp
BY ConnManagerAssumption DEF Version, OpsLeft, Budget, Stamp, Restamp

\* What the end of a call does to the types ...
LEMMA GiveUpType ==
  ASSUME CallTypeOK, NEW t \in Thread, NEW from \in PC, GiveUp(t, from), fresh' = fresh
  PROVE  CallTypeOK'
BY Numbers DEF CallTypeOK, GiveUp, Transition, PC

\* ... and to the shape of a caller.
LEMMA GiveUpShape ==
  ASSUME CallTypeOK, CallerShape, NEW t \in Thread, NEW from \in PC, GiveUp(t, from),
         from \notin {"publish", "closeLoser"}, fresh' = fresh
  PROVE  CallerShape'
BY DEF CallTypeOK, CallerShape, GiveUp, Transition, PC

\* The devices table keeps its type.
LEMMA RowType ==
  ASSUME RowTypeOK, [Next]_vars
  PROVE  RowTypeOK'
<1>1. ASSUME NEW a \in Admin, NEW d \in Device, CommitUpdate(a, d)
      PROVE  RowTypeOK'
  BY <1>1, Numbers, ConnManagerAssumption DEF RowTypeOK, CommitUpdate,
     rowVars
<1>2. ASSUME NEW a \in Admin, NEW d \in Device, CommitDelete(a, d)
      PROVE  RowTypeOK'
  BY <1>2, Numbers, ConnManagerAssumption DEF RowTypeOK, CommitDelete,
     rowVars
<1>3. CASE UNCHANGED rowVars
  BY <1>3 DEF RowTypeOK, rowVars
<1>. QED
  BY <1>1, <1>2, <1>3, RowFrame

\* The maps of the manager keep their types.
LEMMA MgrType ==
  ASSUME MgrTypeOK, CallTypeOK, CallerShape, [Next]_vars
  PROVE 
         MgrTypeOK'
<1>1. ASSUME NEW t \in Thread, SetDisabled(t)
      PROVE  MgrTypeOK'
  BY <1>1, Numbers, ConnManagerAssumption DEF MgrTypeOK, CallTypeOK,
     CallerShape, SetDisabled, GiveUp, Transition, mgrVars
<1>2. ASSUME NEW t \in Thread, SetDisconnected(t)
      PROVE  MgrTypeOK'
  BY <1>2, Numbers, ConnManagerAssumption DEF MgrTypeOK, CallTypeOK,
     CallerShape, SetDisconnected, Transition, mgrVars
<1>3. ASSUME NEW t \in Thread, MarkOffline(t)
      PROVE  MgrTypeOK'
  BY <1>3, Numbers, ConnManagerAssumption DEF MgrTypeOK, CallTypeOK,
     CallerShape, MarkOffline, GiveUp, Transition, mgrVars
<1>4. ASSUME NEW t \in Thread, Publish(t)
      PROVE  MgrTypeOK'
  BY <1>4, Numbers, ConnManagerAssumption DEF MgrTypeOK, CallTypeOK,
     CallerShape, Publish, SlotTaken, Transition, mgrVars
<1>5. ASSUME NEW t \in Thread, MarkConnected(t)
      PROVE  MgrTypeOK'
  BY <1>5, Numbers, ConnManagerAssumption DEF MgrTypeOK, CallTypeOK,
     CallerShape, MarkConnected, GiveUp, Transition, mgrVars
<1>6. ASSUME NEW t \in Thread, MarkDisconnected(t)
      PROVE  MgrTypeOK'
  BY <1>6, Numbers, ConnManagerAssumption DEF MgrTypeOK, CallTypeOK,
     CallerShape, MarkDisconnected, GiveUp, Transition, mgrVars
<1>7. ASSUME NEW a \in Admin, InvalidateMap(a)
      PROVE  MgrTypeOK'
  BY <1>7, Numbers, ConnManagerAssumption DEF MgrTypeOK, CallTypeOK,
     CallerShape, InvalidateMap, SlotAfterInvalidate, mgrVars
<1>8. ASSUME CloseManager
      PROVE  MgrTypeOK'
  BY <1>8, Numbers, ConnManagerAssumption DEF MgrTypeOK, CallTypeOK,
     CallerShape, CloseManager, Quiet, InMap, mgrVars
<1>9. CASE UNCHANGED mgrVars
  BY <1>9 DEF MgrTypeOK, CallTypeOK, CallerShape, mgrVars
<1>. QED
  BY <1>1, <1>2, <1>3, <1>4, <1>5, <1>6, <1>7, <1>8, <1>9, MgrFrame

\* The connections keep their types.
LEMMA ConnType ==
  ASSUME ConnTypeOK, CallTypeOK, CallerShape,
         [Next]_vars
  PROVE  ConnTypeOK'
<1>1. ASSUME NEW t \in Thread, NEW c \in Conn, DialOk(t, c)
      PROVE  ConnTypeOK'
  BY <1>1, Numbers, ConnManagerAssumption DEF ConnTypeOK, CallTypeOK,
     CallerShape, Thread, DialOk, Unused, Transition, connVars
<1>2. ASSUME NEW t \in Thread, CloseLoser(t)
      PROVE  ConnTypeOK'
  BY <1>2, Numbers, ConnManagerAssumption DEF ConnTypeOK, CallTypeOK,
     CallerShape, Thread, CloseLoser, Loser, CloseSocket, CloseAllowed,
     Transition, connVars
<1>3. ASSUME NEW t \in Thread, BeginOp(t)
      PROVE  ConnTypeOK'
  BY <1>3, Numbers, ConnManagerAssumption DEF ConnTypeOK, CallTypeOK,
     CallerShape, Thread, BeginOp, Transition, connVars
<1>4. ASSUME NEW t \in Thread, WorkerReadOk(t) \/ WorkerReadFails(t)
       \/ WriterGoesOn(t) \/ WriterReturns(t)
      PROVE  ConnTypeOK'
  BY <1>4, Numbers, ConnManagerAssumption DEF ConnTypeOK, CallTypeOK,
     CallerShape, Thread, WorkerReadOk, Release, WorkerReadFails,
     WriterGoesOn, WriterReturns, GiveUp, Transition, connVars
<1>5. ASSUME NEW c \in Conn, Break(c)
      PROVE  ConnTypeOK'
  BY <1>5, Numbers, ConnManagerAssumption DEF ConnTypeOK, CallTypeOK,
     CallerShape, Thread, Break, connVars
<1>6. ASSUME NEW a \in Admin, CloseRemoved(a)
      PROVE  ConnTypeOK'
  BY <1>6, Numbers, ConnManagerAssumption DEF ConnTypeOK, CallTypeOK,
     CallerShape, Thread, CloseRemoved, CloseSocket, CloseAllowed, connVars
<1>7. ASSUME NEW c \in Conn, CloseNext(c)
      PROVE  ConnTypeOK'
  BY <1>7, Numbers, ConnManagerAssumption DEF ConnTypeOK, CallTypeOK,
     CallerShape, Thread, CloseNext, CloseSocket, CloseAllowed, Quiet,
     connVars
<1>8. CASE UNCHANGED connVars
  BY <1>8 DEF ConnTypeOK, CallTypeOK, CallerShape, Thread, connVars
<1>. QED
  BY <1>1, <1>2, <1>3, <1>4, <1>5, <1>6, <1>7, <1>8, ConnFrame

\* The locals of the callers keep their types.
LEMMA CallType ==
  ASSUME RowTypeOK, MgrTypeOK, CallTypeOK,
         CallerShape, [Next]_vars
  PROVE  CallTypeOK'
<1>1. ASSUME NEW t \in Thread, NEW d \in Device, StartCall(t, d)
      PROVE  CallTypeOK'
  BY <1>1, Numbers, ConnManagerAssumption DEF RowTypeOK, MgrTypeOK,
     CallTypeOK, CallerShape, Calling, PC, StartCall, Transition, callVars
<1>2. ASSUME NEW t \in Thread, LookupHit(t)
      PROVE  CallTypeOK'
  BY <1>2, Numbers, ConnManagerAssumption DEF RowTypeOK, MgrTypeOK,
     CallTypeOK, CallerShape, Calling, PC, LookupHit, Transition, callVars
<1>3. ASSUME NEW t \in Thread, LookupMiss(t) \/ LoadDisabled(t)
       \/ SetDisconnected(t) \/ BeginOp(t)
      PROVE  CallTypeOK'
  BY <1>3, Numbers, ConnManagerAssumption DEF RowTypeOK, MgrTypeOK,
     CallTypeOK, CallerShape, Calling, PC, LookupMiss, Transition,
     LoadDisabled, SetDisconnected, BeginOp, callVars
<1>4. ASSUME NEW t \in Thread, LoadEnabled(t)
      PROVE  CallTypeOK'
  BY <1>4, Numbers, ConnManagerAssumption DEF RowTypeOK, MgrTypeOK,
     CallTypeOK, CallerShape, Calling, PC, LoadEnabled, Transition, callVars
<1>5. ASSUME NEW t \in Thread, DialFails(t)
      PROVE  CallTypeOK'
  BY <1>5, Numbers, ConnManagerAssumption DEF RowTypeOK, MgrTypeOK,
     CallTypeOK, CallerShape, Calling, PC, DialFails, Transition, callVars
<1>6. ASSUME NEW t \in Thread, LoadFails(t) \/ SetDisabled(t) \/ MarkOffline(t)
       \/ WriterReturns(t) \/ MarkConnected(t) \/ MarkDisconnected(t)
      PROVE  CallTypeOK'
  BY <1>6, GiveUpType DEF LoadFails, SetDisabled, MarkOffline,
     WriterReturns, Release, MarkConnected, MarkDisconnected, callVars, PC,
     Calling
<1>7. ASSUME NEW t \in Thread, NEW c \in Conn, DialOk(t, c)
      PROVE  CallTypeOK'
  BY <1>7, Numbers, ConnManagerAssumption DEF RowTypeOK, MgrTypeOK,
     CallTypeOK, CallerShape, Calling, PC, DialOk, Unused, Transition,
     callVars
<1>8. ASSUME NEW t \in Thread, Publish(t)
      PROVE  CallTypeOK'
  BY <1>8, Numbers, ConnManagerAssumption DEF RowTypeOK, MgrTypeOK,
     CallTypeOK, CallerShape, Calling, PC, Publish, SlotTaken, Transition,
     callVars
<1>9. ASSUME NEW t \in Thread, LosePublish(t)
      PROVE  CallTypeOK'
  BY <1>9, Numbers, ConnManagerAssumption DEF RowTypeOK, MgrTypeOK,
     CallTypeOK, CallerShape, Calling, PC, LosePublish, SlotTaken, Transition,
     callVars
<1>10. ASSUME NEW t \in Thread, CloseLoser(t)
      PROVE  CallTypeOK'
  BY <1>10, Numbers, ConnManagerAssumption DEF RowTypeOK, MgrTypeOK,
     CallTypeOK, CallerShape, Calling, PC, CloseLoser, Loser, CloseSocket,
     CloseAllowed, Transition, callVars
<1>11. ASSUME NEW t \in Thread, WorkerReadOk(t)
      PROVE  CallTypeOK'
  BY <1>11, Numbers, ConnManagerAssumption DEF RowTypeOK, MgrTypeOK,
     CallTypeOK, CallerShape, Calling, PC, WorkerReadOk, Release, callVars
<1>12. ASSUME NEW t \in Thread, WorkerReadFails(t)
      PROVE  CallTypeOK'
  BY <1>12, Numbers, ConnManagerAssumption DEF RowTypeOK, MgrTypeOK,
     CallTypeOK, CallerShape, Calling, PC, WorkerReadFails, Release, callVars
<1>13. ASSUME NEW t \in Thread, WriterGoesOn(t)
      PROVE  CallTypeOK'
  BY <1>13, Numbers, ConnManagerAssumption DEF RowTypeOK, MgrTypeOK,
     CallTypeOK, CallerShape, Calling, PC, WriterGoesOn, Release, callVars
<1>14. CASE UNCHANGED callVars
  BY <1>14 DEF RowTypeOK, MgrTypeOK, CallTypeOK, CallerShape, Calling, PC, callVars
<1>. QED
  BY <1>1, <1>2, <1>3, <1>4, <1>5, <1>6, <1>7, <1>8, <1>9, <1>10, <1>11,
     <1>12, <1>13, <1>14, CallFrame

\* The locals of the administrators keep their types.
LEMMA AdminType ==
  ASSUME MgrTypeOK, AdminTypeOK, AdminShape,
         [Next]_vars
  PROVE  AdminTypeOK'
<1>1. ASSUME NEW a \in Admin, NEW d \in Device, CommitUpdate(a, d)
      PROVE  AdminTypeOK'
  BY <1>1, Numbers, ConnManagerAssumption DEF MgrTypeOK, AdminTypeOK,
     AdminShape, AdminPC, CommitUpdate, adminVars
<1>2. ASSUME NEW a \in Admin, NEW d \in Device, CommitDelete(a, d)
      PROVE  AdminTypeOK'
  BY <1>2, Numbers, ConnManagerAssumption DEF MgrTypeOK, AdminTypeOK,
     AdminShape, AdminPC, CommitDelete, adminVars
<1>3. ASSUME NEW a \in Admin, InvalidateMap(a)
      PROVE  AdminTypeOK'
  BY <1>3, Numbers, ConnManagerAssumption DEF MgrTypeOK, AdminTypeOK,
     AdminShape, AdminPC, InvalidateMap, SlotAfterInvalidate, adminVars
<1>4. ASSUME NEW a \in Admin, CloseRemoved(a)
      PROVE  AdminTypeOK'
  BY <1>4, Numbers, ConnManagerAssumption DEF MgrTypeOK, AdminTypeOK,
     AdminShape, AdminPC, CloseRemoved, CloseSocket, CloseAllowed, adminVars
<1>5. CASE UNCHANGED adminVars
  BY <1>5 DEF MgrTypeOK, AdminTypeOK, AdminShape, AdminPC, adminVars
<1>. QED
  BY <1>1, <1>2, <1>3, <1>4, <1>5, AdminFrame

\* The state of Manager.Close keeps its type.
LEMMA DownType ==
  ASSUME MgrTypeOK, DownTypeOK, [Next]_vars
  PROVE
         DownTypeOK'
<1>1. ASSUME CloseManager
      PROVE  DownTypeOK'
  BY <1>1, Numbers, ConnManagerAssumption DEF MgrTypeOK, DownTypeOK,
     CloseManager, Quiet, InMap, downVars
<1>2. ASSUME NEW c \in Conn, CloseNext(c)
      PROVE  DownTypeOK'
  BY <1>2, Numbers, ConnManagerAssumption DEF MgrTypeOK, DownTypeOK,
     CloseNext, CloseSocket, CloseAllowed, Quiet, downVars
<1>3. ASSUME ManagerClosed
      PROVE  DownTypeOK'
  BY <1>3, Numbers, ConnManagerAssumption DEF MgrTypeOK, DownTypeOK,
     ManagerClosed, downVars
<1>4. CASE UNCHANGED downVars
  BY <1>4 DEF MgrTypeOK, DownTypeOK, downVars
<1>. QED
  BY <1>1, <1>2, <1>3, <1>4, DownFrame

-----------------------------------------------------------------------------
(* Shapes.                                                                 *)

\* A caller has a dialled or a returned connection exactly where the code has one.
LEMMA CallerShapeStep ==
  ASSUME MgrTypeOK, CallTypeOK, CallerShape,
         [Next]_vars
  PROVE  CallerShape'
<1>1. ASSUME NEW t \in Thread, NEW d \in Device, StartCall(t, d)
      PROVE  CallerShape'
  BY <1>1, ConnManagerAssumption DEF MgrTypeOK, CallTypeOK, CallerShape,
     StartCall, Transition, callVars
<1>2. ASSUME NEW t \in Thread, LookupHit(t)
      PROVE  CallerShape'
  BY <1>2, ConnManagerAssumption DEF MgrTypeOK, CallTypeOK, CallerShape,
     LookupHit, Transition, callVars
<1>3. ASSUME NEW t \in Thread, LookupMiss(t) \/ LoadDisabled(t)
       \/ SetDisconnected(t) \/ BeginOp(t)
      PROVE  CallerShape'
  BY ZenonT(60), <1>3, ConnManagerAssumption DEF MgrTypeOK, CallTypeOK, CallerShape,
     LookupMiss, Transition, LoadDisabled, SetDisconnected, BeginOp, callVars
<1>4. ASSUME NEW t \in Thread, LoadEnabled(t)
      PROVE  CallerShape'
  BY <1>4, ConnManagerAssumption DEF MgrTypeOK, CallTypeOK, CallerShape,
     LoadEnabled, Transition, callVars
<1>5. ASSUME NEW t \in Thread, DialFails(t)
      PROVE  CallerShape'
  BY <1>5, ConnManagerAssumption DEF MgrTypeOK, CallTypeOK, CallerShape,
     DialFails, Transition, callVars
<1>6. ASSUME NEW t \in Thread, LoadFails(t) \/ SetDisabled(t) \/ MarkOffline(t)
       \/ WriterReturns(t) \/ MarkConnected(t) \/ MarkDisconnected(t)
      PROVE  CallerShape'
  BY <1>6, GiveUpShape DEF LoadFails, SetDisabled, MarkOffline,
     WriterReturns, Release, MarkConnected, MarkDisconnected, callVars, PC,
     Calling
<1>7. ASSUME NEW t \in Thread, NEW c \in Conn, DialOk(t, c)
      PROVE  CallerShape'
  BY <1>7, ConnManagerAssumption DEF MgrTypeOK, CallTypeOK, CallerShape,
     DialOk, Unused, Transition, callVars
<1>8. ASSUME NEW t \in Thread, Publish(t)
      PROVE  CallerShape'
  BY <1>8, ConnManagerAssumption DEF MgrTypeOK, CallTypeOK, CallerShape,
     Publish, SlotTaken, Transition, callVars
<1>9. ASSUME NEW t \in Thread, LosePublish(t)
      PROVE  CallerShape'
  BY <1>9, ConnManagerAssumption DEF MgrTypeOK, CallTypeOK, CallerShape,
     LosePublish, SlotTaken, Transition, callVars
<1>10. ASSUME NEW t \in Thread, CloseLoser(t)
      PROVE  CallerShape'
  BY <1>10, ConnManagerAssumption DEF MgrTypeOK, CallTypeOK, CallerShape,
     CloseLoser, Loser, CloseSocket, CloseAllowed, Transition, callVars
<1>11. ASSUME NEW t \in Thread, WorkerReadOk(t)
      PROVE  CallerShape'
  BY <1>11, ConnManagerAssumption DEF MgrTypeOK, CallTypeOK, CallerShape,
     WorkerReadOk, Release, callVars
<1>12. ASSUME NEW t \in Thread, WorkerReadFails(t)
      PROVE  CallerShape'
  BY <1>12, ConnManagerAssumption DEF MgrTypeOK, CallTypeOK, CallerShape,
     WorkerReadFails, Release, callVars
<1>13. ASSUME NEW t \in Thread, WriterGoesOn(t)
      PROVE  CallerShape'
  BY <1>13, ConnManagerAssumption DEF MgrTypeOK, CallTypeOK, CallerShape,
     WriterGoesOn, Release, callVars
<1>14. CASE UNCHANGED callVars
  BY <1>14 DEF MgrTypeOK, CallTypeOK, CallerShape, callVars
<1>. QED
  BY <1>1, <1>2, <1>3, <1>4, <1>5, <1>6, <1>7, <1>8, <1>9, <1>10, <1>11,
     <1>12, <1>13, <1>14, CallFrame

\* ... and so has an administrator.
LEMMA AdminShapeStep ==
  ASSUME MgrTypeOK, AdminTypeOK, AdminShape,
         [Next]_vars
  PROVE  AdminShape'
<1>1. ASSUME NEW a \in Admin, NEW d \in Device, CommitUpdate(a, d)
      PROVE  AdminShape'
  BY <1>1, ConnManagerAssumption DEF MgrTypeOK, AdminTypeOK, AdminShape,
     CommitUpdate, adminVars
<1>2. ASSUME NEW a \in Admin, NEW d \in Device, CommitDelete(a, d)
      PROVE  AdminShape'
  BY <1>2, ConnManagerAssumption DEF MgrTypeOK, AdminTypeOK, AdminShape,
     CommitDelete, adminVars
<1>3. ASSUME NEW a \in Admin, InvalidateMap(a)
      PROVE  AdminShape'
  BY <1>3, ConnManagerAssumption DEF MgrTypeOK, AdminTypeOK, AdminShape,
     InvalidateMap, SlotAfterInvalidate, adminVars
<1>4. ASSUME NEW a \in Admin, CloseRemoved(a)
      PROVE  AdminShape'
  BY <1>4, ConnManagerAssumption DEF MgrTypeOK, AdminTypeOK, AdminShape,
     CloseRemoved, CloseSocket, CloseAllowed, adminVars
<1>5. CASE UNCHANGED adminVars
  BY <1>5 DEF MgrTypeOK, AdminTypeOK, AdminShape, adminVars
<1>. QED
  BY <1>1, <1>2, <1>3, <1>4, <1>5, AdminFrame

\* The mu of a connection is held by the thread that is in a call on it.
LEMMA UserShapeStep ==
  ASSUME ConnTypeOK, CallTypeOK, CallerShape,
         UserShape, [Next]_vars
  PROVE  UserShape'
<1>1. ASSUME NEW t \in Thread, NEW d \in Device, StartCall(t, d)
      PROVE  UserShape'
  BY <1>1, ConnManagerAssumption DEF ConnTypeOK, CallTypeOK, CallerShape,
     UserShape, StartCall, Transition, callVars, connVars
<1>2. ASSUME NEW t \in Thread, LookupHit(t)
      PROVE  UserShape'
  BY <1>2, ConnManagerAssumption DEF ConnTypeOK, CallTypeOK, CallerShape,
     UserShape, LookupHit, Transition, callVars, connVars
<1>3. ASSUME NEW t \in Thread, LookupMiss(t) \/ LoadDisabled(t)
       \/ SetDisconnected(t) \/ BeginOp(t)
      PROVE  UserShape'
  BY <1>3, ConnManagerAssumption DEF ConnTypeOK, CallTypeOK, CallerShape,
     UserShape, LookupMiss, Transition, LoadDisabled, SetDisconnected,
     BeginOp, callVars, connVars
<1>4. ASSUME NEW t \in Thread, LoadEnabled(t) \/ DialFails(t)
      PROVE  UserShape'
  BY <1>4, ConnManagerAssumption DEF ConnTypeOK, CallTypeOK, CallerShape,
     UserShape, LoadEnabled, Transition, DialFails, callVars, connVars
<1>5. ASSUME NEW t \in Thread, LoadFails(t) \/ SetDisabled(t) \/ MarkOffline(t)
       \/ MarkConnected(t) \/ MarkDisconnected(t)
      PROVE  UserShape'
  BY <1>5, ConnManagerAssumption DEF ConnTypeOK, CallTypeOK, CallerShape,
     UserShape, LoadFails, GiveUp, Transition, SetDisabled, MarkOffline,
     MarkConnected, MarkDisconnected, callVars, connVars
<1>6. ASSUME NEW t \in Thread, NEW c \in Conn, DialOk(t, c)
      PROVE  UserShape'
  BY <1>6, ConnManagerAssumption DEF ConnTypeOK, CallTypeOK, CallerShape,
     UserShape, DialOk, Unused, Transition, callVars, connVars
<1>7. ASSUME NEW t \in Thread, Publish(t)
      PROVE  UserShape'
  BY <1>7, ConnManagerAssumption DEF ConnTypeOK, CallTypeOK, CallerShape,
     UserShape, Publish, SlotTaken, Transition, callVars, connVars
<1>8. ASSUME NEW t \in Thread, LosePublish(t)
      PROVE  UserShape'
  BY <1>8, ConnManagerAssumption DEF ConnTypeOK, CallTypeOK, CallerShape,
     UserShape, LosePublish, SlotTaken, Transition, callVars, connVars
<1>9. ASSUME NEW t \in Thread, CloseLoser(t)
      PROVE  UserShape'
  BY <1>9, ConnManagerAssumption DEF ConnTypeOK, CallTypeOK, CallerShape,
     UserShape, CloseLoser, Loser, CloseSocket, CloseAllowed, Transition,
     callVars, connVars
<1>10. ASSUME NEW t \in Thread, WorkerReadOk(t)
      PROVE  UserShape'
  BY <1>10, ConnManagerAssumption DEF ConnTypeOK, CallTypeOK, CallerShape,
     UserShape, WorkerReadOk, Release, callVars, connVars
<1>11. ASSUME NEW t \in Thread, WorkerReadFails(t)
      PROVE  UserShape'
  BY <1>11, ConnManagerAssumption DEF ConnTypeOK, CallTypeOK, CallerShape,
     UserShape, WorkerReadFails, Release, callVars, connVars
<1>12. ASSUME NEW t \in Thread, WriterGoesOn(t)
      PROVE  UserShape'
  BY <1>12, ConnManagerAssumption DEF ConnTypeOK, CallTypeOK, CallerShape,
     UserShape, WriterGoesOn, Release, callVars, connVars
<1>13. ASSUME NEW t \in Thread, WriterReturns(t)
      PROVE  UserShape'
  BY <1>13, ConnManagerAssumption DEF ConnTypeOK, CallTypeOK, CallerShape,
     UserShape, WriterReturns, GiveUp, Transition, Release, callVars, connVars
<1>14. CASE UNCHANGED <<callVars, user>>
  BY <1>14 DEF ConnTypeOK, CallTypeOK, CallerShape, UserShape, callVars, connVars
<1>. QED
  BY <1>1, <1>2, <1>3, <1>4, <1>5, <1>6, <1>7, <1>8, <1>9, <1>10, <1>11,
     <1>12, <1>13, <1>14, CallFrame, UserFrame

\* Once Manager.Close has begun nobody is left to move.
LEMMA QuietStays ==
  ASSUME phase # "up", ShutdownShape, [Next]_vars
  PROVE  UNCHANGED <<pc, adminPc>> /\ phase' # "up" /\ connections' = connections
BY ZenonT(60) DEF ShutdownShape, Quiet, Next, Advance, Load, Dial, EndOp, Commit,
  Exited, vars, rowVars, mgrVars, connVars, callVars, adminVars, downVars,
  BeginOp, Break, Budget, CloseAllowed, CloseLoser, CloseManager, CloseNext,
  CloseRemoved, CloseSocket, CommitDelete, CommitUpdate, DialFails, DialOk,
  GiveUp, InMap, InvalidateMap, LoadDisabled, LoadEnabled, LoadFails,
  LookupHit, LookupMiss, LosePublish, Loser, ManagerClosed, MarkConnected,
  MarkDisconnected, MarkOffline, Publish, Quiet, Release, SetDisabled,
  SetDisconnected, SlotAfterInvalidate, SlotTaken, StartCall, Transition,
  Unused, WorkerReadFails, WorkerReadOk, WriterGoesOn, WriterReturns

\* Manager.Close finds everyone done and empties the map.
LEMMA ShutdownShapeStep ==
  ASSUME MgrTypeOK, ShutdownShape, [Next]_vars
  PROVE  ShutdownShape'
<1>1. CASE phase # "up"
  <2>1. (\A d \in Device : connections[d] = None) /\ Quiet
    BY <1>1 DEF ShutdownShape
  <2>2. phase' # "closing" => closing' = {}
    <3>1. ASSUME NEW c \in Conn, CloseNext(c) PROVE phase' # "closing" => closing' = {}
      BY <3>1 DEF CloseNext
    <3>2. ASSUME CloseManager PROVE FALSE
      BY <3>2, <1>1 DEF CloseManager
    <3>3. ASSUME ManagerClosed PROVE closing' = {}
      BY <3>3 DEF ManagerClosed
    <3>4. CASE UNCHANGED downVars
      BY <3>4 DEF downVars, ShutdownShape
    <3>. QED BY <3>1, <3>2, <3>3, <3>4, DownFrame
  <2>. QED BY <1>1, <2>1, <2>2, QuietStays DEF ShutdownShape, Quiet
<1>2. CASE phase = "up"
  <2>1. ASSUME CloseManager PROVE ShutdownShape'
    BY <2>1, <1>2 DEF CloseManager, ShutdownShape, Quiet, callVars, adminVars
  <2>2. ASSUME NEW c \in Conn, CloseNext(c) PROVE FALSE
    BY <2>2, <1>2 DEF CloseNext
  <2>3. ASSUME ManagerClosed PROVE FALSE
    BY <2>3, <1>2 DEF ManagerClosed
  <2>4. CASE UNCHANGED downVars
    BY <2>4, <1>2 DEF downVars, ShutdownShape
  <2>. QED BY <2>1, <2>2, <2>3, <2>4, DownFrame
<1>. QED BY <1>1, <1>2

-----------------------------------------------------------------------------
(* Ownership.                                                              *)

\* ... and that is never between the dial and the publication.
LEMMA DevKept ==
  ASSUME CallTypeOK, CallerShape, [Next]_vars, NEW u \in Thread, fresh[u] # None
  PROVE  dev'[u] = dev[u]
<1>1. ASSUME NEW t \in Thread, NEW d \in Device, StartCall(t, d) PROVE dev'[u] = dev[u]
  BY <1>1 DEF CallTypeOK, CallerShape, StartCall, Transition
<1>2. ASSUME NEW t \in Thread, LoadFails(t) PROVE dev'[u] = dev[u]
  BY <1>2 DEF CallTypeOK, CallerShape, LoadFails, GiveUp, Transition
<1>3. ASSUME NEW t \in Thread, SetDisabled(t) PROVE dev'[u] = dev[u]
  BY <1>3 DEF CallTypeOK, CallerShape, SetDisabled, GiveUp, Transition
<1>4. ASSUME NEW t \in Thread, MarkOffline(t) PROVE dev'[u] = dev[u]
  BY <1>4 DEF CallTypeOK, CallerShape, MarkOffline, GiveUp, Transition
<1>5. ASSUME NEW t \in Thread, WriterReturns(t) PROVE dev'[u] = dev[u]
  BY <1>5 DEF CallTypeOK, CallerShape, WriterReturns, GiveUp, Transition,
     Release
<1>6. ASSUME NEW t \in Thread, MarkConnected(t) PROVE dev'[u] = dev[u]
  BY <1>6 DEF CallTypeOK, CallerShape, MarkConnected, GiveUp, Transition
<1>7. ASSUME NEW t \in Thread, MarkDisconnected(t) PROVE dev'[u] = dev[u]
  BY <1>7 DEF CallTypeOK, CallerShape, MarkDisconnected, GiveUp, Transition
<1>. QED BY <1>1, <1>2, <1>3, <1>4, <1>5, <1>6, <1>7, DevFrame

\* The types of the variables that say who owns what.
OwnerTypes ==
  /\ connections \in [Device -> Conn \cup {None}]
  /\ fresh \in [Thread -> Conn \cup {None}]
  /\ removed \in [Admin -> Conn \cup {None}]
  /\ closing \subseteq Conn
  /\ connState \in [Conn -> {"closed", "open", "broken"}]
  /\ connDev \in [Conn -> Device \cup {None}]
  /\ None \notin Conn

\* No step leaks a connection, gives it a second owner, or closes one that
\* the map still holds.
LEMMA OwnershipStep ==
  ASSUME TypeOK, CallerShape, AdminShape, ShutdownShape, Ownership, [Next]_vars
  PROVE  Ownership'
<1>1. OwnerTypes
  BY ConnManagerAssumption DEF TypeOK, MgrTypeOK, ConnTypeOK, CallTypeOK, AdminTypeOK,
     DownTypeOK, OwnerTypes
<1>2. ASSUME NEW t \in Thread, NEW c \in Conn, DialOk(t, c) PROVE Ownership'
  <2>1. /\ connState[c] = "closed"
        /\ fresh[t] = None
        /\ dev[t] \in Device
    BY <1>2, <1>1 DEF DialOk, Unused, Transition, CallerShape, TypeOK,
       CallTypeOK
  <2>2. /\ fresh' = [fresh EXCEPT ![t] = c]
        /\ connState' = [connState EXCEPT ![c] = "open"]
        /\ connDev' = [connDev EXCEPT ![c] = dev[t]]
        /\ UNCHANGED <<connections, removed, closing, dev>>
    BY <1>2 DEF DialOk, Unused, Transition, rowVars, mgrVars, connVars,
       callVars, adminVars, downVars
  <2>3. OwnedOpen'
    BY <2>1, <2>2, <1>1 DEF Ownership, OwnerTypes, OwnedOpen,
       InstalledOpen, SingleOwner, InMap, WithDialler, WithAdmin
  <2>4. InstalledOpen'
    BY <2>1, <2>2, <1>1 DEF Ownership, OwnerTypes, OwnedOpen,
       InstalledOpen, SingleOwner, InMap, WithDialler, WithAdmin
  <2>5. SingleOwner'
    BY <2>1, <2>2, <1>1 DEF Ownership, OwnerTypes, OwnedOpen,
       InstalledOpen, SingleOwner, InMap, WithDialler, WithAdmin
  <2>6. NoLeak'
    BY <2>1, <2>2, <1>1 DEF Ownership, OwnerTypes, NoLeak, InMap,
       WithDialler, WithAdmin
  <2>. QED BY <2>3, <2>4, <2>5, <2>6 DEF Ownership
<1>3. ASSUME NEW t \in Thread, Publish(t) PROVE Ownership'
  <2>1. /\ fresh[t] \in Conn
        /\ dev[t] \in Device
        /\ connections[dev[t]] = None
    BY <1>3, <1>1 DEF Publish, SlotTaken, Transition, CallerShape, TypeOK,
       CallTypeOK, OwnerTypes
  <2>2. /\ connections' = [connections EXCEPT ![dev[t]] = fresh[t]]
        /\ fresh' = [fresh EXCEPT ![t] = None]
        /\ UNCHANGED <<removed, closing, connState, connDev, dev>>
    BY <1>3 DEF Publish, SlotTaken, Transition, rowVars, mgrVars, connVars,
       callVars, adminVars, downVars
  <2>3. OwnedOpen'
    BY <2>1, <2>2, <1>1 DEF Ownership, OwnerTypes, OwnedOpen,
       InstalledOpen, SingleOwner, InMap, WithDialler, WithAdmin
  <2>4. InstalledOpen'
    BY <2>1, <2>2, <1>1 DEF Ownership, OwnerTypes, OwnedOpen,
       InstalledOpen, SingleOwner, InMap, WithDialler, WithAdmin
  <2>5. SingleOwner'
    BY <2>1, <2>2, <1>1 DEF Ownership, OwnerTypes, OwnedOpen,
       InstalledOpen, SingleOwner, InMap, WithDialler, WithAdmin
  <2>6. NoLeak'
    BY <2>1, <2>2, <1>1 DEF Ownership, OwnerTypes, NoLeak, InMap,
       WithDialler, WithAdmin
  <2>. QED BY <2>3, <2>4, <2>5, <2>6 DEF Ownership
<1>4. ASSUME NEW t \in Thread, CloseLoser(t) PROVE Ownership'
  <2>1. /\ fresh[t] \in Conn
    BY <1>4, <1>1 DEF CloseLoser, Transition, CallerShape, TypeOK,
       CallTypeOK
  <2>2. /\ fresh' = [fresh EXCEPT ![t] = None]
        /\ connState' = [connState EXCEPT ![fresh[t]] = "closed"]
        /\ connDev' = [connDev EXCEPT ![fresh[t]] = None]
        /\ UNCHANGED <<connections, removed, closing, dev>>
    BY <1>4 DEF CloseLoser, Loser, CloseSocket, CloseAllowed, Transition,
       rowVars, mgrVars, connVars, callVars, adminVars, downVars
  <2>3. OwnedOpen'
    BY <2>1, <2>2, <1>1 DEF Ownership, OwnerTypes, OwnedOpen,
       InstalledOpen, SingleOwner, InMap, WithDialler, WithAdmin
  <2>4. InstalledOpen'
    BY <2>1, <2>2, <1>1 DEF Ownership, OwnerTypes, OwnedOpen,
       InstalledOpen, SingleOwner, InMap, WithDialler, WithAdmin
  <2>5. SingleOwner'
    BY <2>1, <2>2, <1>1 DEF Ownership, OwnerTypes, OwnedOpen,
       InstalledOpen, SingleOwner, InMap, WithDialler, WithAdmin
  <2>6. NoLeak'
    BY <2>1, <2>2, <1>1 DEF Ownership, OwnerTypes, NoLeak, InMap,
       WithDialler, WithAdmin
  <2>. QED BY <2>3, <2>4, <2>5, <2>6 DEF Ownership
<1>5. ASSUME NEW c \in Conn, Break(c) PROVE Ownership'
  <2>1. /\ connState[c] = "open"
    BY <1>5, <1>1 DEF Break
  <2>2. /\ connState' = [connState EXCEPT ![c] = "broken"]
        /\ UNCHANGED <<connections, fresh, removed, closing, connDev, dev>>
    BY <1>5 DEF Break, rowVars, mgrVars, connVars, callVars, adminVars,
       downVars
  <2>3. OwnedOpen'
    BY <2>1, <2>2, <1>1 DEF Ownership, OwnerTypes, OwnedOpen,
       InstalledOpen, SingleOwner, InMap, WithDialler, WithAdmin
  <2>4. InstalledOpen'
    BY <2>1, <2>2, <1>1 DEF Ownership, OwnerTypes, OwnedOpen,
       InstalledOpen, SingleOwner, InMap, WithDialler, WithAdmin
  <2>5. SingleOwner'
    BY <2>1, <2>2, <1>1 DEF Ownership, OwnerTypes, OwnedOpen,
       InstalledOpen, SingleOwner, InMap, WithDialler, WithAdmin
  <2>6. NoLeak'
    BY <2>1, <2>2, <1>1 DEF Ownership, OwnerTypes, NoLeak, InMap,
       WithDialler, WithAdmin
  <2>. QED BY <2>3, <2>4, <2>5, <2>6 DEF Ownership
<1>6. ASSUME NEW a \in Admin, InvalidateMap(a) PROVE Ownership'
  <2>1. /\ adminDev[a] \in Device
        /\ removed[a] = None
    BY <1>6, <1>1 DEF InvalidateMap, AdminShape, TypeOK, AdminTypeOK
  <2>2. /\ removed' = [removed EXCEPT ![a] = connections[adminDev[a]]]
        /\ connections' = [connections EXCEPT ![adminDev[a]] = None]
        /\ UNCHANGED <<fresh, closing, connState, connDev, dev>>
    BY <1>6 DEF InvalidateMap, SlotAfterInvalidate, rowVars, mgrVars,
       connVars, callVars, adminVars, downVars
  <2>3. OwnedOpen'
    BY <2>1, <2>2, <1>1 DEF Ownership, OwnerTypes, OwnedOpen,
       InstalledOpen, SingleOwner, InMap, WithDialler, WithAdmin
  <2>4. InstalledOpen'
    BY <2>1, <2>2, <1>1 DEF Ownership, OwnerTypes, OwnedOpen,
       InstalledOpen, SingleOwner, InMap, WithDialler, WithAdmin
  <2>5. SingleOwner'
    BY <2>1, <2>2, <1>1 DEF Ownership, OwnerTypes, OwnedOpen,
       InstalledOpen, SingleOwner, InMap, WithDialler, WithAdmin
  <2>6. NoLeak'
    BY <2>1, <2>2, <1>1 DEF Ownership, OwnerTypes, NoLeak, InMap,
       WithDialler, WithAdmin
  <2>. QED BY <2>3, <2>4, <2>5, <2>6 DEF Ownership
<1>7. ASSUME NEW a \in Admin, CloseRemoved(a) PROVE Ownership'
  <2>1. /\ removed[a] \in Conn
    BY <1>7, <1>1 DEF CloseRemoved, AdminShape, TypeOK, AdminTypeOK
  <2>2. /\ removed' = [removed EXCEPT ![a] = None]
        /\ connState' = [connState EXCEPT ![removed[a]] = "closed"]
        /\ connDev' = [connDev EXCEPT ![removed[a]] = None]
        /\ UNCHANGED <<connections, fresh, closing, dev>>
    BY <1>7 DEF CloseRemoved, CloseSocket, CloseAllowed, rowVars, mgrVars,
       connVars, callVars, adminVars, downVars
  <2>3. OwnedOpen'
    BY <2>1, <2>2, <1>1 DEF Ownership, OwnerTypes, OwnedOpen,
       InstalledOpen, SingleOwner, InMap, WithDialler, WithAdmin
  <2>4. InstalledOpen'
    BY <2>1, <2>2, <1>1 DEF Ownership, OwnerTypes, OwnedOpen,
       InstalledOpen, SingleOwner, InMap, WithDialler, WithAdmin
  <2>5. SingleOwner'
    BY <2>1, <2>2, <1>1 DEF Ownership, OwnerTypes, OwnedOpen,
       InstalledOpen, SingleOwner, InMap, WithDialler, WithAdmin
  <2>6. NoLeak'
    BY <2>1, <2>2, <1>1 DEF Ownership, OwnerTypes, NoLeak, InMap,
       WithDialler, WithAdmin
  <2>. QED BY <2>3, <2>4, <2>5, <2>6 DEF Ownership
<1>8. ASSUME CloseManager PROVE Ownership'
  <2>1. /\ closing = {}
        /\ \A t \in Thread : fresh[t] = None
        /\ \A a \in Admin : removed[a] = None
    BY <1>8, <1>1 DEF CloseManager, Quiet, ShutdownShape, CallerShape,
       AdminShape
  <2>2. /\ closing' = {c \in Conn : \E d \in Device : connections[d] = c}
        /\ connections' = [d \in Device |-> None]
        /\ UNCHANGED <<fresh, removed, connState, connDev, dev>>
    BY <1>8 DEF CloseManager, Quiet, InMap, rowVars, mgrVars, connVars,
       callVars, adminVars, downVars
  <2>3. OwnedOpen'
    BY <2>1, <2>2, <1>1 DEF Ownership, OwnerTypes, OwnedOpen,
       InstalledOpen, SingleOwner, InMap, WithDialler, WithAdmin
  <2>4. InstalledOpen'
    BY <2>1, <2>2, <1>1 DEF Ownership, OwnerTypes, OwnedOpen,
       InstalledOpen, SingleOwner, InMap, WithDialler, WithAdmin
  <2>5. SingleOwner'
    BY <2>1, <2>2, <1>1 DEF Ownership, OwnerTypes, OwnedOpen,
       InstalledOpen, SingleOwner, InMap, WithDialler, WithAdmin
  <2>6. NoLeak'
    BY <2>1, <2>2, <1>1 DEF Ownership, OwnerTypes, NoLeak, InMap,
       WithDialler, WithAdmin
  <2>. QED BY <2>3, <2>4, <2>5, <2>6 DEF Ownership
<1>9. ASSUME NEW c \in Conn, CloseNext(c) PROVE Ownership'
  <2>1. /\ c \in closing
    BY <1>9, <1>1 DEF CloseNext
  <2>2. /\ closing' = closing \ {c}
        /\ connState' = [connState EXCEPT ![c] = "closed"]
        /\ connDev' = [connDev EXCEPT ![c] = None]
        /\ UNCHANGED <<connections, fresh, removed, dev>>
    BY <1>9 DEF CloseNext, CloseSocket, CloseAllowed, Quiet, rowVars,
       mgrVars, connVars, callVars, adminVars, downVars
  <2>3. OwnedOpen'
    BY <2>1, <2>2, <1>1 DEF Ownership, OwnerTypes, OwnedOpen,
       InstalledOpen, SingleOwner, InMap, WithDialler, WithAdmin
  <2>4. InstalledOpen'
    BY <2>1, <2>2, <1>1 DEF Ownership, OwnerTypes, OwnedOpen,
       InstalledOpen, SingleOwner, InMap, WithDialler, WithAdmin
  <2>5. SingleOwner'
    BY <2>1, <2>2, <1>1 DEF Ownership, OwnerTypes, OwnedOpen,
       InstalledOpen, SingleOwner, InMap, WithDialler, WithAdmin
  <2>6. NoLeak'
    BY <2>1, <2>2, <1>1 DEF Ownership, OwnerTypes, NoLeak, InMap,
       WithDialler, WithAdmin
  <2>. QED BY <2>3, <2>4, <2>5, <2>6 DEF Ownership
<1>10. CASE UNCHANGED <<connections, fresh, removed, closing, connState, connDev>>
  <2>1. \A t \in Thread : fresh[t] # None => dev'[t] = dev[t]
    BY DevKept DEF TypeOK
  <2>2. OwnedOpen'
    BY <1>10, <2>1, <1>1 DEF Ownership, OwnerTypes, OwnedOpen
  <2>3. InstalledOpen' /\ SingleOwner' /\ NoLeak'
    BY <1>10 DEF Ownership, InstalledOpen, SingleOwner, NoLeak, InMap, WithDialler, WithAdmin
  <2>. QED BY <2>2, <2>3 DEF Ownership
<1>. QED
  BY <1>2, <1>3, <1>4, <1>5, <1>6, <1>7, <1>8, <1>9, <1>10, OwnerFrame

-----------------------------------------------------------------------------
(* The theorems.                                                           *)

\* Initially nothing is dialled.
LEMMA InitInv == Init => IInv
<1>. SUFFICES ASSUME Init PROVE IInv
  OBVIOUS
<1>1. TypeOK
  <2>1. RowTypeOK
    BY Numbers DEF Init, RowTypeOK
  <2>2. MgrTypeOK
    BY Numbers DEF Init, MgrTypeOK
  <2>3. ConnTypeOK
    BY Numbers DEF Init, ConnTypeOK
  <2>4. CallTypeOK
    BY Numbers DEF Init, CallTypeOK, PC
  <2>5. AdminTypeOK /\ DownTypeOK
    BY DEF Init, AdminTypeOK, DownTypeOK, AdminPC
  <2>. QED BY <2>1, <2>2, <2>3, <2>4, <2>5 DEF TypeOK
<1>2. CallerShape /\ AdminShape /\ ShutdownShape
  BY DEF Init, CallerShape, AdminShape, ShutdownShape
<1>3. UserShape
  BY ConnManagerAssumption DEF Init, UserShape
<1>4. Ownership
  BY ConnManagerAssumption DEF Init, Ownership, OwnedOpen, InstalledOpen, SingleOwner,
     NoLeak, InMap, WithDialler, WithAdmin
<1>. QED BY <1>1, <1>2, <1>3, <1>4 DEF IInv

\* Every step keeps the inductive invariant.
LEMMA StepInv == IInv /\ [Next]_vars => IInv'
<1>. SUFFICES ASSUME IInv, [Next]_vars PROVE IInv'
  OBVIOUS
<1>. USE DEF IInv, TypeOK
<1>1. TypeOK'
  BY RowType, MgrType, ConnType, CallType, AdminType, DownType
<1>2. CallerShape' /\ AdminShape' /\ UserShape'
  BY CallerShapeStep, AdminShapeStep, UserShapeStep
<1>3. ShutdownShape'
  BY ShutdownShapeStep
<1>4. Ownership'
  BY OwnershipStep
<1>. QED BY <1>1, <1>2, <1>3, <1>4

\* IInv is an invariant of every instance of ConnManager.
THEOREM Invariance == Spec => []IInv
BY InitInv, StepInv, PTL DEF Spec

\* Every variable keeps its type; in particular no write request ever makes
\* more than MaxOps calls (writer.go, Execute).
THEOREM TypeCorrect == Spec => []TypeOK
<1>1. IInv => TypeOK
  BY DEF IInv
<1>. QED BY <1>1, Invariance, PTL

\* Manager.Connection never finds a closed connection, nor another device's
\* one, in the map.
THEOREM InstalledConnectionsAreOpen == Spec => []InstalledOpen
<1>1. IInv => InstalledOpen
  BY DEF IInv, Ownership
<1>. QED BY <1>1, Invariance, PTL

\* However calls, saves, deletes and the shutdown interleave, every open
\* socket still has someone who will close it.
THEOREM NoSocketLeaks == Spec => []NoLeak
<1>1. IInv => NoLeak
  BY DEF IInv, Ownership
<1>. QED BY <1>1, Invariance, PTL

\* ... and never two.
THEOREM ConnectionsHaveOneOwner == Spec => []SingleOwner
<1>1. IInv => SingleOwner
  BY DEF IInv, Ownership
<1>. QED BY <1>1, Invariance, PTL

\* After connections.Close at the end of main no device connection is open.
THEOREM ShutdownClosesEverything == Spec => []NothingLeftOpen
<1>1. IInv => NothingLeftOpen
  <2>. SUFFICES ASSUME IInv, phase = "down", NEW c \in Conn PROVE connState[c] = "closed"
    BY DEF NothingLeftOpen
  <2>1. Quiet /\ closing = {} /\ \A d \in Device : connections[d] = None
    BY DEF IInv, ShutdownShape
  <2>2. ~InMap(c)
    BY <2>1, ConnManagerAssumption DEF InMap
  <2>3. ~WithDialler(c) /\ ~WithAdmin(c)
    BY <2>1, ConnManagerAssumption DEF IInv, CallerShape, AdminShape, Quiet, WithDialler, WithAdmin
  <2>. QED BY <2>1, <2>2, <2>3 DEF IInv, Ownership, NoLeak
<1>. QED BY <1>1, Invariance, PTL

\* No step replaces one published connection by another.
THEOREM ConnectionsAreNotOverwritten == Spec => NoOverwrite
<1>1. ASSUME IInv, [Next]_vars, NEW d \in Device, connections[d] # None
       PROVE  connections'[d] \in {connections[d], None}
  <2>1. ASSUME NEW t \in Thread, Publish(t)
         PROVE  connections'[d] \in {connections[d], None}
    BY <1>1, <2>1 DEF Publish, SlotTaken, IInv, TypeOK, MgrTypeOK
  <2>2. ASSUME NEW a \in Admin, InvalidateMap(a)
         PROVE  connections'[d] \in {connections[d], None}
    BY <1>1, <2>2 DEF InvalidateMap, SlotAfterInvalidate, IInv, TypeOK, MgrTypeOK
  <2>3. ASSUME CloseManager
         PROVE  connections'[d] \in {connections[d], None}
    BY <1>1, <2>3 DEF CloseManager
  <2>. QED BY <1>1, <2>1, <2>2, <2>3, SlotFrame
<1>2. IInv /\ [Next]_vars
        => [\A d \in Device : connections[d] # None
                                => connections'[d] \in {connections[d], None}]_vars
  BY <1>1
<1>. QED BY <1>2, Invariance, PTL DEF Spec, NoOverwrite

\* A socket is never closed while a Read or Write is using it.
THEOREM CloseWaitsForUsers == Spec => NoCloseDuringOp
<1>1. ASSUME IInv, [Next]_vars, NEW c \in Conn, connState[c] # "closed",
             connState'[c] = "closed", NEW t \in Thread
       PROVE  ~(pc[t] = "op" /\ held[t] = c)
  <2>1. user[c] = None
    <3>1. ASSUME NEW u \in Thread, CloseLoser(u) PROVE user[c] = None
      BY <1>1, <3>1 DEF CloseLoser, Loser, CloseSocket, CloseAllowed, IInv, TypeOK, ConnTypeOK
    <3>2. ASSUME NEW a \in Admin, CloseRemoved(a) PROVE user[c] = None
      BY <1>1, <3>2 DEF CloseRemoved, CloseSocket, CloseAllowed, IInv, TypeOK, ConnTypeOK
    <3>3. ASSUME NEW x \in Conn, CloseNext(x) PROVE user[c] = None
      BY <1>1, <3>3 DEF CloseNext, CloseSocket, CloseAllowed, IInv, TypeOK, ConnTypeOK
    <3>4. ASSUME NEW u \in Thread, NEW x \in Conn, DialOk(u, x) PROVE FALSE
      BY <1>1, <3>4 DEF DialOk, IInv, TypeOK, ConnTypeOK
    <3>5. ASSUME NEW x \in Conn, Break(x) PROVE FALSE
      BY <1>1, <3>5 DEF Break, IInv, TypeOK, ConnTypeOK
    <3>. QED BY <1>1, <3>1, <3>2, <3>3, <3>4, <3>5, StateFrame
  <2>. QED BY <1>1, <2>1, ConnManagerAssumption DEF IInv, UserShape
<1>2. IInv /\ [Next]_vars
        => [\A c \in Conn : connState[c] # "closed" /\ connState'[c] = "closed"
              => \A t \in Thread : ~(pc[t] = "op" /\ held[t] = c)]_vars
  BY <1>1
<1>. QED BY <1>2, Invariance, PTL DEF Spec, NoCloseDuringOp

-----------------------------------------------------------------------------
\* Every write of a status comes with its stamp, or leaves a stamp that is
\* already there because the status was the same before.
LEMMA StampStep == TypeOK /\ StatusStamped /\ [Next]_vars => StatusStamped'
<1>. SUFFICES ASSUME TypeOK, StatusStamped, [Next]_vars PROVE StatusStamped'
  OBVIOUS
<1>1. \A s : Restamp(s) # 0
  BY DEF Restamp
<1>2. /\ statuses    \in [Device -> {"", "connected", "disconnected", "disabled"}]
      /\ lastOnline  \in [Device -> Stamp]
      /\ lastOffline \in [Device -> Stamp]
  BY DEF TypeOK, MgrTypeOK
<1>3. CASE UNCHANGED mgrVars \/ CloseManager
  BY <1>3 DEF mgrVars, CloseManager, StatusStamped
<1>4. ASSUME NEW t \in Thread, SetDisabled(t) PROVE StatusStamped'
  BY <1>2, <1>4 DEF SetDisabled, StatusStamped
<1>5. ASSUME NEW t \in Thread, SetDisconnected(t) PROVE StatusStamped'
  BY <1>1, <1>2, <1>5 DEF SetDisconnected, StatusStamped
<1>6. ASSUME NEW t \in Thread, MarkOffline(t) PROVE StatusStamped'
  BY <1>1, <1>2, <1>6 DEF MarkOffline, StatusStamped
<1>7. ASSUME NEW t \in Thread, Publish(t) PROVE StatusStamped'
  BY <1>1, <1>2, <1>7 DEF Publish, StatusStamped
<1>8. ASSUME NEW t \in Thread, MarkConnected(t) PROVE StatusStamped'
  BY <1>1, <1>2, <1>8 DEF MarkConnected, StatusStamped
<1>9. ASSUME NEW t \in Thread, MarkDisconnected(t) PROVE StatusStamped'
  BY <1>1, <1>2, <1>9 DEF MarkDisconnected, StatusStamped
<1>10. ASSUME NEW a \in Admin, InvalidateMap(a) PROVE StatusStamped'
  BY <1>1, <1>2, <1>10 DEF InvalidateMap, StatusStamped
<1>. QED BY <1>3, <1>4, <1>5, <1>6, <1>7, <1>8, <1>9, <1>10, MgrFrame

\* The step that makes a device connected (disconnected) writes a new stamp of when
\* it went online (offline).
ChangeStamped ==
  \A d \in Device :
    /\ statuses'[d] = "connected" /\ statuses[d] # "connected"
         => lastOnline'[d] # lastOnline[d]
    /\ statuses'[d] = "disconnected" /\ statuses[d] # "disconnected"
         => lastOffline'[d] # lastOffline[d]

LEMMA ChangeStep == TypeOK /\ [Next]_vars => ChangeStamped
<1>. SUFFICES ASSUME TypeOK, [Next]_vars PROVE ChangeStamped
  OBVIOUS
<1>1. \A s : Restamp(s) # s
  BY DEF Restamp
<1>2. /\ statuses    \in [Device -> {"", "connected", "disconnected", "disabled"}]
      /\ lastOnline  \in [Device -> Stamp]
      /\ lastOffline \in [Device -> Stamp]
  BY DEF TypeOK, MgrTypeOK
<1>3. CASE UNCHANGED mgrVars \/ CloseManager
  BY <1>3 DEF mgrVars, CloseManager, ChangeStamped
<1>4. ASSUME NEW t \in Thread, SetDisabled(t) PROVE ChangeStamped
  BY <1>2, <1>4 DEF SetDisabled, ChangeStamped
<1>5. ASSUME NEW t \in Thread, SetDisconnected(t) PROVE ChangeStamped
  BY <1>1, <1>2, <1>5 DEF SetDisconnected, ChangeStamped
<1>6. ASSUME NEW t \in Thread, MarkOffline(t) PROVE ChangeStamped
  BY <1>2, <1>6 DEF MarkOffline, ChangeStamped
<1>7. ASSUME NEW t \in Thread, Publish(t) PROVE ChangeStamped
  BY <1>1, <1>2, <1>7 DEF Publish, ChangeStamped
<1>8. ASSUME NEW t \in Thread, MarkConnected(t) PROVE ChangeStamped
  BY <1>1, <1>2, <1>8 DEF MarkConnected, ChangeStamped
<1>9. ASSUME NEW t \in Thread, MarkDisconnected(t) PROVE ChangeStamped
  BY <1>1, <1>2, <1>9 DEF MarkDisconnected, ChangeStamped
<1>10. ASSUME NEW a \in Admin, InvalidateMap(a) PROVE ChangeStamped
  BY <1>1, <1>2, <1>10 DEF InvalidateMap, ChangeStamped
<1>. QED BY <1>3, <1>4, <1>5, <1>6, <1>7, <1>8, <1>9, <1>10, MgrFrame

\* Every change of the status to connected or disconnected is stamped in the same
\* critical section, and so a device shown as connected or disconnected has a stamp,
\* however its readers, dials and saves interleave.
THEOREM StatusCarriesStamp == Spec => []StatusStamped /\ [][ChangeStamped]_vars
<1>1. Init => StatusStamped
  BY DEF Init, StatusStamped
<1>2. TypeOK /\ [Next]_vars => [ChangeStamped]_vars
  BY ChangeStep
<1>. QED BY <1>1, <1>2, StampStep, TypeCorrect, PTL DEF Spec

-----------------------------------------------------------------------------
(* The manager implements the abstract slots.                              *)

\* A socket has a peer exactly while it is not closed.
PeerShape == \A c \in Conn : connDev[c] = None <=> connState[c] = "closed"

LEMMA PeerStep == IInv /\ PeerShape /\ [Next]_vars => PeerShape'
<1>. SUFFICES ASSUME IInv, PeerShape, [Next]_vars PROVE PeerShape'
  OBVIOUS
<1>1. OwnerTypes
  BY ConnManagerAssumption DEF IInv, TypeOK, MgrTypeOK, ConnTypeOK, CallTypeOK,
     AdminTypeOK, DownTypeOK, OwnerTypes
<1>2. ASSUME NEW t \in Thread, NEW c \in Conn, DialOk(t, c) PROVE PeerShape'
  <2>1. dev[t] # None
    BY <1>2 DEF IInv, CallerShape, DialOk, Transition
  <2>. QED BY <1>1, <1>2, <2>1 DEF DialOk, OwnerTypes, PeerShape
<1>3. ASSUME NEW c \in Conn, CloseSocket(c) PROVE PeerShape'
  BY <1>1, <1>3 DEF CloseSocket, OwnerTypes, PeerShape
<1>4. ASSUME NEW c \in Conn, Break(c) PROVE PeerShape'
  BY <1>1, <1>4 DEF Break, OwnerTypes, PeerShape
<1>5. ASSUME NEW t \in Thread, CloseLoser(t) PROVE PeerShape'
  <2>1. fresh[t] \in Conn
    BY <1>1, <1>5 DEF CloseLoser, Transition, IInv, CallerShape, OwnerTypes
  <2>. QED BY <1>3, <1>5, <2>1 DEF CloseLoser, Loser
<1>6. ASSUME NEW a \in Admin, CloseRemoved(a) PROVE PeerShape'
  <2>1. removed[a] \in Conn
    BY <1>1, <1>6 DEF CloseRemoved, IInv, AdminShape, OwnerTypes
  <2>. QED BY <1>3, <1>6, <2>1 DEF CloseRemoved
<1>7. ASSUME NEW c \in Conn, CloseNext(c) PROVE PeerShape'
  BY <1>3, <1>7 DEF CloseNext
<1>8. CASE UNCHANGED <<connState, connDev>>
  BY <1>8 DEF PeerShape
<1>9. ASSUME NEW t \in Thread, Publish(t) PROVE UNCHANGED <<connState, connDev>>
  BY <1>9 DEF Publish, connVars
<1>10. ASSUME NEW a \in Admin, InvalidateMap(a) PROVE UNCHANGED <<connState, connDev>>
  BY <1>10 DEF InvalidateMap, connVars
<1>11. CloseManager => UNCHANGED <<connState, connDev>>
  BY DEF CloseManager, connVars
<1>. QED BY <1>2, <1>4, <1>5, <1>6, <1>7, <1>8, <1>9, <1>10, <1>11, OwnerFrame

\* A socket its owner closes is in no slot, and is closed once nobody uses it.
LEMMA SlotClose ==
  ASSUME IInv, NEW c \in Conn, ~InMap(c), CloseSocket(c), UNCHANGED connections
  PROVE  Slot!Close(c)
BY DEF CloseSocket, CloseAllowed, InMap, Slot!Close, Slot!InSlot

\* A step that opens, files, takes out or closes a socket.
LEMMA SlotOwnerStep ==
  ASSUME IInv, PeerShape, [Next]_vars, UNCHANGED user
  PROVE  Slot!Next \/ UNCHANGED <<connections, connDev>>
<1>1. OwnerTypes
  BY ConnManagerAssumption DEF IInv, TypeOK, MgrTypeOK, ConnTypeOK, CallTypeOK,
     AdminTypeOK, DownTypeOK, OwnerTypes
<1>2. ASSUME NEW t \in Thread, NEW c \in Conn, DialOk(t, c) PROVE Slot!Next
  <2>1. dev[t] \in Device
    BY <1>2 DEF IInv, TypeOK, CallTypeOK, CallerShape, DialOk, Transition
  <2>2. connState[c] = "closed" /\ \A u \in Thread : held[u] # c
    BY <1>2 DEF DialOk, Unused
  <2>3. user[c] = None
    BY <2>2 DEF IInv, TypeOK, ConnTypeOK, UserShape
  <2>4. ~Slot!InSlot(c)
    BY <2>2 DEF IInv, Ownership, InstalledOpen, Slot!InSlot
  <2>5. Slot!Dial(c, dev[t])
    BY <1>2, <2>2, <2>3, <2>4 DEF DialOk, PeerShape, Slot!Dial, mgrVars
  <2>. QED BY <2>1, <2>5 DEF Slot!Next
<1>3. ASSUME NEW t \in Thread, Publish(t) PROVE Slot!Next
  <2>1. fresh[t] \in Conn
    BY <1>1, <1>3 DEF Publish, Transition, IInv, CallerShape, OwnerTypes
  <2>2. connDev[fresh[t]] = dev[t] /\ dev[t] # None
    BY <1>3, <2>1 DEF Publish, Transition, IInv, Ownership, OwnedOpen, CallerShape
  <2>3. ~Slot!InSlot(fresh[t])
    BY <2>1 DEF IInv, Ownership, SingleOwner, WithDialler, InMap, Slot!InSlot
  <2>4. Slot!Install(fresh[t])
    BY <1>3, <2>2, <2>3 DEF Publish, SlotTaken, Slot!Install, connVars
  <2>. QED BY <2>1, <2>4 DEF Slot!Next
<1>4. ASSUME NEW c \in Conn, ~InMap(c), CloseSocket(c), UNCHANGED connections
      PROVE  Slot!Next
  BY <1>4, SlotClose DEF Slot!Next
<1>5. ASSUME NEW t \in Thread, CloseLoser(t) PROVE Slot!Next
  <2>1. fresh[t] \in Conn
    BY <1>1, <1>5 DEF CloseLoser, Transition, IInv, CallerShape, OwnerTypes
  <2>2. ~InMap(fresh[t])
    BY <2>1 DEF IInv, Ownership, SingleOwner, WithDialler
  <2>. QED BY <1>4, <1>5, <2>1, <2>2 DEF CloseLoser, Loser, mgrVars
<1>6. ASSUME NEW a \in Admin, CloseRemoved(a) PROVE Slot!Next
  <2>1. removed[a] \in Conn
    BY <1>1, <1>6 DEF CloseRemoved, IInv, AdminShape, OwnerTypes
  <2>2. ~InMap(removed[a])
    BY <2>1 DEF IInv, Ownership, SingleOwner, WithAdmin
  <2>. QED BY <1>4, <1>6, <2>1, <2>2 DEF CloseRemoved, mgrVars
<1>7. ASSUME NEW c \in Conn, CloseNext(c) PROVE Slot!Next
  <2>1. ~InMap(c)
    BY <1>7 DEF CloseNext, IInv, Ownership, SingleOwner
  <2>. QED BY <1>4, <1>7, <2>1 DEF CloseNext, mgrVars
<1>8. ASSUME NEW a \in Admin, InvalidateMap(a) PROVE Slot!Next
  <2>1. connections' = [d \in Device |-> IF d \in {adminDev[a]} THEN None ELSE connections[d]]
    BY <1>1, <1>8 DEF InvalidateMap, SlotAfterInvalidate, OwnerTypes
  <2>2. {adminDev[a]} \in SUBSET Device
    BY <1>8 DEF InvalidateMap, IInv, TypeOK, AdminTypeOK, AdminShape
  <2>3. Slot!Remove({adminDev[a]})
    BY <1>8, <2>1 DEF Slot!Remove, InvalidateMap, connVars
  <2>. QED BY <2>2, <2>3 DEF Slot!Next
<1>9. ASSUME CloseManager PROVE Slot!Next
  <2>1. connections' = [d \in Device |-> IF d \in Device THEN None ELSE connections[d]]
    BY <1>9 DEF CloseManager
  <2>2. Slot!Remove(Device)
    BY <1>9, <2>1 DEF Slot!Remove, CloseManager, connVars
  <2>. QED BY <2>2 DEF Slot!Next
<1>10. ASSUME NEW c \in Conn, Break(c) PROVE UNCHANGED <<connections, connDev>>
  BY <1>10 DEF Break, mgrVars
<1>. QED BY <1>2, <1>3, <1>5, <1>6, <1>7, <1>8, <1>9, <1>10, OwnerFrame

\* A step that takes or releases the mu of a connection.
LEMMA SlotUserStep ==
  ASSUME IInv, [Next]_vars
  PROVE  UNCHANGED user \/ Slot!Next
<1>1. ASSUME NEW t \in Thread, BeginOp(t) PROVE Slot!Next
  <2>1. held[t] \in Conn
    BY <1>1 DEF BeginOp, Transition, IInv, TypeOK, CallTypeOK, CallerShape
  <2>2. Slot!Begin(held[t], t)
    BY <1>1 DEF BeginOp, Slot!Begin, mgrVars
  <2>. QED BY <2>1, <2>2 DEF Slot!Next
<1>2. ASSUME NEW t \in Thread, Release(t), UNCHANGED <<connections, connDev>>
      PROVE  Slot!Next
  <2>1. held[t] \in Conn
    BY <1>2 DEF Release, IInv, TypeOK, CallTypeOK, CallerShape
  <2>2. user[held[t]] = t
    BY <1>2, <2>1 DEF Release, IInv, UserShape
  <2>3. user[held[t]] # None
    BY <2>2, ConnManagerAssumption
  <2>4. Slot!End(held[t])
    BY <1>2, <2>3 DEF Release, Slot!End
  <2>. QED BY <2>1, <2>4 DEF Slot!Next
<1>3. ASSUME NEW t \in Thread, WorkerReadOk(t) \/ WorkerReadFails(t) PROVE Slot!Next
  BY <1>2, <1>3 DEF WorkerReadOk, WorkerReadFails, mgrVars
<1>4. ASSUME NEW t \in Thread, WriterGoesOn(t) \/ WriterReturns(t) PROVE Slot!Next
  BY <1>2, <1>4 DEF WriterGoesOn, WriterReturns, mgrVars
<1>. QED BY <1>1, <1>3, <1>4, UserFrame

\* The connection manager implements ConnSlot: for any number of callers, saves
\* and connections its map, its sockets and their locks only ever make steps the
\* abstract slots allow.
THEOREM ManagerImplementsSlots == Spec => ImplementsSlots
<1>1. Init => PeerShape /\ Slot!Init
  BY ZenonT(60) DEF Init, PeerShape, Slot!Init
<1>2. IInv /\ PeerShape /\ [Next]_vars => [Slot!Next]_(Slot!vars)
  BY SlotOwnerStep, SlotUserStep DEF Slot!vars
<1>. QED BY <1>1, <1>2, PeerStep, Invariance, PTL DEF Spec, ImplementsSlots, Slot!Spec

=============================================================================
