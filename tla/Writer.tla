------------------------------- MODULE Writer -------------------------------
(***************************************************************************)
(* Manual writes: Service.ExecuteWrite (service/platform/service.go) and   *)
(* the write engine under it (engine/writer/writer.go), with the memory of *)
(* one device, the program of its PLC, and saves of the device that        *)
(* replace its connection.                                                 *)
(*                                                                         *)
(* A request makes at most two attempts of a Write and a read-back on one  *)
(* connection and then adds a row to write_logs.  Each call locks the      *)
(* connection's mutex.  A call is one step, except for the Write of a BOOL *)
(* over S7, which reads the byte that holds the bit and writes it back:    *)
(* all BOOL points here are bits of one such byte.                         *)
(***************************************************************************)
EXTENDS Integers

CONSTANTS
  Request,   \* write requests, each made once
  Point,     \* write points of the device, each at an address of its own
  TypeOf,    \* the data_type of each point
  Targets,   \* the values written to each point; REAL counts 0.00005
  PlcPoint,  \* the points whose address the program of the PLC writes, too
  MaxLink,   \* bound: connections of the device, one after the other
  None       \* nobody

MaxAttempts == 2
DataType    == {"BOOL", "INT", "REAL"}
Link        == 1..MaxLink
Value       == {0} \cup UNION {Targets[p] : p \in Point}

ASSUME WriterAssumption ==
  /\ TypeOf \in [Point -> DataType]
  /\ Targets \in [Point -> SUBSET Nat]
  /\ PlcPoint \subseteq Point
  /\ MaxLink \in Nat \ {0}
  /\ None \notin Request \cup Link

VARIABLES
  memory,                  \* what the device holds at each address
  link, open, user,        \* the connection new callers get, the sockets that
                           \* are open, who holds each connection's mu
  pc, point, target,       \* per request: where it is, what it writes
  permitted, via, attempt, \* ... p.WriteEnabled, its connection, its attempt
  byte,                    \* ... buf of the S7 BOOL write
  outcome, answer,         \* ... result of Execute, answer to the client
  log,                     \* write_logs: the row of each request
  landed,                  \* history: did a write of the request take effect
  writtenVia               \* history: the connection that wrote an address last

deviceVars  == <<memory, writtenVia>>
linkVars    == <<link, open>>
inputVars   == <<point, target>>
requestVars == <<pc, permitted, via, attempt, outcome>>
resultVars  == <<answer, log>>
vars == <<deviceVars, linkVars, user, inputVars, requestVars, byte, resultVars, landed>>

PC == {"load", "execute", "connect", "write", "modify", "read", "log", "done"}

TypeOK ==
  /\ memory \in [Point -> Value]
  /\ link \in Link
  /\ open \subseteq Link
  /\ user \in [Link -> Request \cup {None}]
  /\ pc \in [Request -> PC]
  /\ point \in [Request -> Point]
  /\ target \in [Request -> Value]
  /\ permitted \in [Request -> BOOLEAN]
  /\ via \in [Request -> Link \cup {None}]
  /\ attempt \in [Request -> 0..MaxAttempts]
  /\ byte \in [Request -> [Point -> Value]]
  /\ outcome \in [Request -> {"none", "success", "failed"}]
  /\ answer \in [Request -> {"none", "rejected", "success", "failed", "logError"}]
  /\ log \in [Request -> {"none", "success", "failed"}]
  /\ landed \in [Request -> BOOLEAN]
  /\ writtenVia \in [Point -> Link \cup {None}]

EmptyByte == [p \in Point |-> 0]

Init ==
  /\ memory = EmptyByte
  /\ link = 1
  /\ open = {}
  /\ user = [l \in Link |-> None]
  /\ pc = [r \in Request |-> "load"]
  /\ point \in [Request -> Point]
  /\ target \in {f \in [Request -> Value] : \A r \in Request : f[r] \in Targets[point[r]]}
  /\ permitted = [r \in Request |-> FALSE]
  /\ via = [r \in Request |-> None]
  /\ attempt = [r \in Request |-> 0]
  /\ byte = [r \in Request |-> EmptyByte]
  /\ outcome = [r \in Request |-> "none"]
  /\ answer = [r \in Request |-> "none"]
  /\ log = [r \in Request |-> "none"]
  /\ landed = [r \in Request |-> FALSE]
  /\ writtenVia = [p \in Point |-> None]

Transition(r, from, to) ==
  /\ pc[r] = from
  /\ pc' = [pc EXCEPT ![r] = to]

-----------------------------------------------------------------------------
(* ExecuteWrite up to the call of Execute.                                 *)

\* GetPoint does not find the point, the value has the wrong type or the reason
\* is too long: an answer, but no log.
Reject(r) ==
  /\ Transition(r, "load", "done")
  /\ answer' = [answer EXCEPT ![r] = "rejected"]
  /\ UNCHANGED <<deviceVars, linkVars, user, inputVars, permitted, via, attempt,
                 outcome, byte, log, landed>>

\* GetPoint finds the point.  The row is what the last save made of it, so its
\* write_enabled is either.
LoadPoint(r) ==
  /\ Transition(r, "load", "execute")
  /\ permitted' \in {[permitted EXCEPT ![r] = b] : b \in BOOLEAN}
  /\ UNCHANGED <<deviceVars, linkVars, user, inputVars, via, attempt, outcome, byte,
                 resultVars, landed>>

-----------------------------------------------------------------------------
(* Engine.Execute.                                                         *)

\* Execute returns to ExecuteWrite; its locals are gone.
Return(r, result) ==
  /\ pc'      = [pc      EXCEPT ![r] = "log"]
  /\ outcome' = [outcome EXCEPT ![r] = result]
  /\ via'     = [via     EXCEPT ![r] = None]
  /\ attempt' = [attempt EXCEPT ![r] = 0]

Forbid(r) ==
  /\ pc[r] = "execute"
  /\ ~permitted[r]
  /\ Return(r, "failed")
  /\ UNCHANGED <<deviceVars, linkVars, user, inputVars, permitted, byte, resultVars, landed>>

Permit(r) ==
  /\ Transition(r, "execute", "connect")
  /\ permitted[r]
  /\ UNCHANGED <<deviceVars, linkVars, user, inputVars, permitted, via, attempt,
                 outcome, byte, resultVars, landed>>

\* Manager.Connection: the connection in the map, or a new one.
Connect(r) ==
  /\ Transition(r, "connect", "write")
  /\ via'  = [via EXCEPT ![r] = link]
  /\ open' = open \cup {link}
  /\ attempt' = [attempt EXCEPT ![r] = 1]
  /\ UNCHANGED <<deviceVars, link, user, inputVars, permitted, outcome, byte,
                 resultVars, landed>>

ConnectFails(r) ==
  /\ pc[r] = "connect"
  /\ Return(r, "failed")
  /\ UNCHANGED <<deviceVars, linkVars, user, inputVars, permitted, byte, resultVars, landed>>

\* The mutex of the request's connection is free; its socket is open.
Free(r)   == user[via[r]] = None
Usable(r) == via[r] \in open

Bitwise(r) == TypeOf[point[r]] = "BOOL"

\* After an error or a mismatch: the second attempt, or an error for good.
AttemptsForever(r) ==
  /\ pc' = [pc EXCEPT ![r] = "write"]
  /\ UNCHANGED <<via, attempt, outcome>>
OneMoreAttempt(r) == attempt[r] <= MaxAttempts
TriesAgain(r) == attempt[r] < MaxAttempts
NextAttempt(r) ==
  IF TriesAgain(r)
  THEN /\ pc' = [pc EXCEPT ![r] = "write"]
       /\ attempt' = [attempt EXCEPT ![r] = @ + 1]
       /\ UNCHANGED <<via, outcome>>
  ELSE Return(r, "failed")

\* The device takes the value over: at the address, or in the byte as it was
\* read before.
Land(r) ==
  /\ memory' = IF Bitwise(r)
               THEN [p \in Point |-> IF p = point[r] THEN target[r]
                                     ELSE IF TypeOf[p] = "BOOL" THEN byte[r][p]
                                     ELSE memory[p]]
               ELSE [memory EXCEPT ![point[r]] = target[r]]
  /\ writtenVia' = [p \in Point |-> IF memory'[p] # memory[p] THEN via[r]
                                    ELSE writtenVia[p]]
  /\ landed' = [landed EXCEPT ![r] = TRUE]

\* An S7 BOOL write begins: the byte is read, the mutex is kept.
DropsMutex(r) == UNCHANGED user
KeepsMutex(r) == user' = [user EXCEPT ![via[r]] = r]
ReadByte(r) ==
  /\ Transition(r, "write", "modify")
  /\ Bitwise(r)
  /\ Free(r) /\ Usable(r)
  /\ byte' = [byte EXCEPT ![r] = [p \in Point |-> IF TypeOf[p] = "BOOL" THEN memory[p] ELSE 0]]
  /\ KeepsMutex(r)
  /\ UNCHANGED <<deviceVars, linkVars, inputVars, permitted, via, attempt, outcome,
                 resultVars, landed>>

\* ... and ends, with the mutex unlocked; other writes begin and end here.
AtWrite(r) == \/ pc[r] = "write" /\ ~Bitwise(r) /\ Free(r)
              \/ pc[r] = "modify"
Unlock(r) ==
  /\ user' = [user EXCEPT ![via[r]] = None]
  /\ byte' = [byte EXCEPT ![r] = EmptyByte]

WriteOk(r) ==
  /\ AtWrite(r)
  /\ Usable(r)
  /\ Land(r)
  /\ Unlock(r)
  /\ pc' = [pc EXCEPT ![r] = "read"]
  /\ UNCHANGED <<linkVars, inputVars, permitted, via, attempt, outcome, resultVars>>

\* The answer of the device is lost or late, but the write took effect.
WriteUnanswered(r) ==
  /\ AtWrite(r)
  /\ Usable(r)
  /\ Land(r)
  /\ Unlock(r)
  /\ NextAttempt(r)
  /\ UNCHANGED <<linkVars, inputVars, permitted, resultVars>>

\* A failed attempt does not go on to the read-back.
ReadsAnyway(r) ==
  /\ AtWrite(r) \/ (pc[r] = "write" /\ Free(r))
  /\ Unlock(r)
  /\ pc' = [pc EXCEPT ![r] = "read"]
  /\ UNCHANGED <<deviceVars, linkVars, inputVars, permitted, via, attempt, outcome,
                 resultVars, landed>>
WriteFails(r) ==
  /\ AtWrite(r) \/ (pc[r] = "write" /\ Free(r))
  /\ Unlock(r)
  /\ NextAttempt(r)
  /\ UNCHANGED <<deviceVars, linkVars, inputVars, permitted, resultVars, landed>>

\* The drivers round a REAL to three decimals, 20 units of 0.00005; it is
\* compared with a tolerance of 0.0001.
ReadValue(p) == IF TypeOf[p] = "REAL" THEN 20 * ((memory[p] + 10) \div 20) ELSE memory[p]
Distance(a, b) == IF a < b THEN b - a ELSE a - b
CoarseTolerance(p) == IF TypeOf[p] = "REAL" THEN 20 ELSE 0
Tolerance(p) == IF TypeOf[p] = "REAL" THEN 2 ELSE 0
Matches(r) == Distance(ReadValue(point[r]), target[r]) <= Tolerance(point[r])

ReadBackOk(r) ==
  /\ pc[r] = "read"
  /\ Free(r) /\ Usable(r)
  /\ Matches(r)
  /\ Return(r, "success")
  /\ UNCHANGED <<deviceVars, linkVars, user, inputVars, permitted, byte, resultVars, landed>>

\* The read-back fails or returns another value.
ReadBackFails(r) ==
  /\ pc[r] = "read"
  /\ Free(r)
  /\ NextAttempt(r)
  /\ UNCHANGED <<deviceVars, linkVars, user, inputVars, permitted, byte, resultVars, landed>>

-----------------------------------------------------------------------------
(* ExecuteWrite after Execute: the log, then the answer.                   *)

AnswerLogged(r) ==
  /\ Transition(r, "log", "done")
  /\ log'     = [log     EXCEPT ![r] = outcome[r]]
  /\ answer'  = [answer  EXCEPT ![r] = outcome[r]]
  /\ outcome' = [outcome EXCEPT ![r] = "none"]
  /\ UNCHANGED <<deviceVars, linkVars, user, inputVars, permitted, via, attempt, byte,
                 landed>>

\* The INSERT into write_logs fails: an error without a log id, whatever the
\* device has done.
LogFails(r) ==
  /\ Transition(r, "log", "done")
  /\ answer'  = [answer  EXCEPT ![r] = "logError"]
  /\ outcome' = [outcome EXCEPT ![r] = "none"]
  /\ UNCHANGED <<deviceVars, linkVars, user, inputVars, permitted, via, attempt, byte, log,
                 landed>>

-----------------------------------------------------------------------------
(* The others.                                                             *)

\* SaveDevice: Invalidate takes the connection out of the map ...
Invalidate ==
  /\ link < MaxLink
  /\ link' = link + 1
  /\ UNCHANGED <<deviceVars, open, user, inputVars, requestVars, byte, resultVars, landed>>

\* ... and closes it, as soon as its mutex is free.
CloseLink(l) ==
  /\ l \in open
  /\ l # link
  /\ user[l] = None
  /\ open' = open \ {l}
  /\ UNCHANGED <<deviceVars, link, user, inputVars, requestVars, byte, resultVars, landed>>

\* The PLC's own program writes an address.
PlcWrites(p) ==
  /\ memory' \in {[memory EXCEPT ![p] = v] : v \in Targets[p] \cup {0}}
  /\ writtenVia' = [writtenVia EXCEPT ![p] = None]
  /\ UNCHANGED <<linkVars, user, inputVars, requestVars, byte, resultVars, landed>>

Attempt(r) == \/ ReadByte(r) \/ WriteOk(r) \/ WriteUnanswered(r) \/ WriteFails(r)
              \/ ReadBackOk(r) \/ ReadBackFails(r)

Serve(r) == \/ Reject(r) \/ LoadPoint(r)
            \/ Forbid(r) \/ Permit(r)
            \/ Connect(r) \/ ConnectFails(r)
            \/ Attempt(r)
            \/ AnswerLogged(r) \/ LogFails(r)

Next == \/ \E r \in Request : Serve(r)
        \/ \E p \in PlcPoint : PlcWrites(p)
        \/ Invalidate
        \/ \E l \in Link : CloseLink(l)

Spec == Init /\ [][Next]_vars

\* Every call has a deadline and every goroutine runs.
FairSpec == Spec /\ \A r \in Request : WF_vars(Serve(r))

-----------------------------------------------------------------------------
\* What a request is told is what it did, through lost answers, retries, closed
\* sockets and logs that cannot be written: a success means that a write of its
\* own took effect, not merely that the device holds the value, and that the log
\* says so; a rejection means that the device was never touched; and the device
\* is only ever written for a request that found its point writable.
HonestAnswer ==
  \A r \in Request :
    /\ answer[r] = "success" => landed[r] /\ log[r] = "success"
    /\ answer[r] = "failed" => log[r] = "failed"
    /\ answer[r] = "rejected" => ~landed[r] /\ log[r] = "none"
    /\ landed[r] => permitted[r]

\* When a read-back is taken for a success the address holds the target, up to
\* the rounding and the tolerance together for a REAL (0.0005 + 0.0001), exactly
\* otherwise, whoever has written it since.
SuccessIsClose ==
  [][\A r \in Request :
       outcome[r] # "success" /\ outcome'[r] = "success" =>
         Distance(memory[point[r]], target[r])
           <= IF TypeOf[point[r]] = "REAL" THEN 12 ELSE 0]_vars

Steps(r) == pc'[r] # pc[r] \/ attempt'[r] # attempt[r]

\* One BOOL write does not undo another one in the same byte: if a write through
\* one connection changes an address that is not its own, it was not the same
\* connection that set it there.
NoUndoneWrite ==
  [][\A p \in Point : \A r \in Request :
       Steps(r) /\ p # point[r] /\ memory'[p] # memory[p]
         => writtenVia[p] # via[r]]_vars

\* Every write request is answered.
Answered == \A r \in Request : <>(pc[r] = "done")

=============================================================================
