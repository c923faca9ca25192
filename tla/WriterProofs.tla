---------------------------- MODULE WriterProofs ----------------------------
(***************************************************************************)
(* Machine-checked proofs for Writer: for any number of requests, points,  *)
(* targets and connections, what a request is told is what it did, the     *)
(* address holds the target when a write is taken for a success, and no    *)
(* BOOL write undoes another one made through the same connection.         *)
(***************************************************************************)
EXTENDS Writer, TLAPS

\* The typing, with a name for the range that needs arithmetic.
Counts == 0..MaxAttempts
WTypes ==
  /\ memory \in [Point -> Value]
  /\ link \in Link /\ open \subseteq Link
  /\ user \in [Link -> Request \cup {None}]
  /\ pc \in [Request -> PC]
  /\ point \in [Request -> Point]
  /\ target \in [Request -> Value]
  /\ permitted \in [Request -> BOOLEAN]
  /\ via \in [Request -> Link \cup {None}]
  /\ attempt \in [Request -> Counts]
  /\ byte \in [Request -> [Point -> Value]]
  /\ outcome \in [Request -> {"none", "success", "failed"}]
  /\ answer \in [Request -> {"none", "rejected", "success", "failed", "logError"}]
  /\ log \in [Request -> {"none", "success", "failed"}]
  /\ landed \in [Request -> BOOLEAN]
  /\ writtenVia \in [Point -> Link \cup {None}]

LEMMA TypesAreTypeOK == WTypes <=> TypeOK
BY DEF WTypes, TypeOK, Counts

LEMMA Ranges ==
  /\ 0 \in Value /\ 1 \in Link /\ 0 \in Counts /\ 1 \in Counts
  /\ \A p \in Point : Targets[p] \subseteq Value
<1>1. 0 \in Value
  BY Zenon DEF Value
<1>2. ASSUME NEW p \in Point PROVE Targets[p] \subseteq Value
  BY Zenon DEF Value
<1>3. 1 \in Link
  BY SMT, WriterAssumption DEF Link
<1>4. 0 \in Counts /\ 1 \in Counts
  BY SMT DEF Counts, MaxAttempts
<1>. QED BY <1>1, <1>2, <1>3, <1>4

LEMMA TypesInit == Init => WTypes
<1>. SUFFICES ASSUME Init PROVE WTypes
  OBVIOUS
<1>1. EmptyByte \in [Point -> Value]
  BY Ranges DEF EmptyByte
<1>. QED BY <1>1, Ranges DEF Init, WTypes, PC

\* What the end of Execute does to the control variables of its request.
LEMMA ReturnTypes ==
  ASSUME WTypes, NEW r \in Request, NEW result \in {"success", "failed"}, Return(r, result)
  PROVE  /\ pc' \in [Request -> PC]
         /\ via' \in [Request -> Link \cup {None}]
         /\ attempt' \in [Request -> Counts]
         /\ outcome' \in [Request -> {"none", "success", "failed"}]
<1>1. pc' \in [Request -> PC]
  BY DEF Return, WTypes, PC
<1>2. via' \in [Request -> Link \cup {None}]
  BY DEF Return, WTypes
<1>3. attempt' \in [Request -> Counts]
  <2>1. 0 \in Counts
    BY Ranges
  <2>. QED BY <2>1 DEF Return, WTypes
<1>4. outcome' \in [Request -> {"none", "success", "failed"}]
  BY DEF Return, WTypes
<1>. QED BY <1>1, <1>2, <1>3, <1>4

\* What a call on the connection does to the control variables of its request.
LEMMA NextAttemptTypes ==
  ASSUME WTypes, NEW r \in Request, NextAttempt(r)
  PROVE  /\ pc' \in [Request -> PC]
         /\ via' \in [Request -> Link \cup {None}]
         /\ attempt' \in [Request -> Counts]
         /\ outcome' \in [Request -> {"none", "success", "failed"}]
<1>1. CASE TriesAgain(r)
  <2>1. attempt[r] \in 0..2 /\ attempt[r] < 2
    BY <1>1 DEF TriesAgain, Counts, MaxAttempts, WTypes
  <2>2. attempt[r] + 1 \in Counts
    BY <2>1, SMT DEF Counts, MaxAttempts
  <2>3. pc' = [pc EXCEPT ![r] = "write"] /\ attempt' = [attempt EXCEPT ![r] = @ + 1]
        /\ via' = via /\ outcome' = outcome
    BY <1>1 DEF NextAttempt
  <2>4. pc' \in [Request -> PC]
    BY <2>3 DEF WTypes, PC
  <2>5. attempt' \in [Request -> Counts]
    BY <2>2, <2>3 DEF WTypes
  <2>. QED BY <2>3, <2>4, <2>5 DEF WTypes
<1>2. CASE ~TriesAgain(r)
  BY <1>2, ReturnTypes DEF NextAttempt
<1>. QED BY <1>1, <1>2

LEMMA LandTypes ==
  ASSUME WTypes, NEW r \in Request, Land(r), Usable(r)
  PROVE  /\ memory' \in [Point -> Value]
         /\ writtenVia' \in [Point -> Link \cup {None}]
         /\ landed' \in [Request -> BOOLEAN]
<1>1. point[r] \in Point /\ target[r] \in Value /\ byte[r] \in [Point -> Value] /\ via[r] \in Link
  BY DEF WTypes, Usable
<1>2. memory' \in [Point -> Value]
  BY <1>1 DEF WTypes, Land
<1>. QED BY <1>1, <1>2 DEF WTypes, Land

LEMMA UnlockTypes ==
  ASSUME WTypes, NEW r \in Request, Unlock(r)
  PROVE  /\ user' \in [Link -> Request \cup {None}]
         /\ byte' \in [Request -> [Point -> Value]]
<1>1. EmptyByte \in [Point -> Value]
  BY Ranges DEF EmptyByte
<1>. QED BY <1>1 DEF WTypes, Unlock

\* Every step keeps the types.
LEMMA TypesStep == WTypes /\ [Next]_vars => WTypes'
<1>. SUFFICES ASSUME WTypes, [Next]_vars PROVE WTypes'
  OBVIOUS
<1>. USE DEF deviceVars, linkVars, inputVars, requestVars, resultVars
<1>1. ASSUME NEW r \in Request, Reject(r) PROVE WTypes'
  BY <1>1 DEF Reject, Transition, WTypes, PC
<1>2. ASSUME NEW r \in Request, LoadPoint(r) PROVE WTypes'
  BY <1>2 DEF LoadPoint, Transition, WTypes, PC
<1>3. ASSUME NEW r \in Request, Forbid(r) \/ ConnectFails(r) PROVE WTypes'
  <2>1. CASE Forbid(r)
    BY <2>1, ReturnTypes DEF Forbid, WTypes
  <2>2. CASE ConnectFails(r)
    BY <2>2, ReturnTypes DEF ConnectFails, WTypes
  <2>. QED BY <1>3, <2>1, <2>2
<1>4. ASSUME NEW r \in Request, Permit(r) PROVE WTypes'
  BY <1>4 DEF Permit, Transition, WTypes, PC
<1>5. ASSUME NEW r \in Request, Connect(r) PROVE WTypes'
  <2>1. 1 \in Counts
    BY Ranges
  <2>2. attempt' \in [Request -> Counts]
    BY <1>5, <2>1 DEF Connect, WTypes
  <2>3. pc' \in [Request -> PC]
    BY <1>5 DEF Connect, Transition, WTypes, PC
  <2>4. via' \in [Request -> Link \cup {None}] /\ open' \subseteq Link
    BY <1>5 DEF Connect, WTypes
  <2>. QED BY <1>5, <2>2, <2>3, <2>4 DEF Connect, WTypes
<1>6. ASSUME NEW r \in Request, ReadByte(r) PROVE WTypes'
  <2>1. [p \in Point |-> IF TypeOf[p] = "BOOL" THEN memory[p] ELSE 0] \in [Point -> Value]
    BY Ranges DEF WTypes
  <2>. QED BY <1>6, <2>1 DEF ReadByte, KeepsMutex, Transition, WTypes, PC
<1>7. ASSUME NEW r \in Request, WriteOk(r) PROVE WTypes'
  <2>1. pc' \in [Request -> PC] /\ UNCHANGED <<linkVars, inputVars, permitted, via, attempt, outcome, resultVars>>
    BY <1>7 DEF WriteOk, WTypes, PC
  <2>. QED BY <1>7, <2>1, LandTypes, UnlockTypes DEF WriteOk, WTypes
<1>8. ASSUME NEW r \in Request, WriteUnanswered(r) PROVE WTypes'
  BY <1>8, LandTypes, UnlockTypes, NextAttemptTypes DEF WriteUnanswered, WTypes
<1>9. ASSUME NEW r \in Request, WriteFails(r) PROVE WTypes'
  BY <1>9, UnlockTypes, NextAttemptTypes DEF WriteFails, WTypes
<1>10. ASSUME NEW r \in Request, ReadBackOk(r) PROVE WTypes'
  BY <1>10, ReturnTypes DEF ReadBackOk, WTypes
<1>11. ASSUME NEW r \in Request, ReadBackFails(r) PROVE WTypes'
  BY <1>11, NextAttemptTypes DEF ReadBackFails, WTypes
<1>12. ASSUME NEW r \in Request, AnswerLogged(r) \/ LogFails(r) PROVE WTypes'
  <2>1. outcome[r] \in {"none", "success", "failed"}
    BY DEF WTypes
  <2>2. pc' \in [Request -> PC]
    BY <1>12 DEF AnswerLogged, LogFails, Transition, WTypes, PC
  <2>3. CASE AnswerLogged(r)
    BY <2>1, <2>2, <2>3 DEF AnswerLogged, WTypes
  <2>4. CASE LogFails(r)
    BY <2>1, <2>2, <2>4 DEF LogFails, WTypes
  <2>. QED BY <1>12, <2>3, <2>4
<1>13. CASE Invalidate
  BY <1>13, WriterAssumption DEF Invalidate, WTypes, Link
<1>14. ASSUME NEW l \in Link, CloseLink(l) PROVE WTypes'
  BY <1>14 DEF CloseLink, WTypes
<1>15. ASSUME NEW p \in PlcPoint, PlcWrites(p) PROVE WTypes'
  <2>1. PICK v \in Targets[p] \cup {0} : memory' = [memory EXCEPT ![p] = v]
    BY <1>15 DEF PlcWrites
  <2>2. v \in Value
    BY Ranges, WriterAssumption
  <2>. QED BY <1>15, <2>1, <2>2 DEF PlcWrites, WTypes
<1>16. CASE UNCHANGED vars
  BY <1>16 DEF vars, WTypes
<1>. QED BY <1>1, <1>2, <1>3, <1>4, <1>5, <1>6, <1>7, <1>8, <1>9, <1>10, <1>11, <1>12,
            <1>13, <1>14, <1>15, <1>16 DEF Next, Serve, Attempt

\* The state has its types, and no request makes more than MaxAttempts attempts.
THEOREM WriterTypes == Spec => []TypeOK
BY TypesInit, TypesStep, TypesAreTypeOK, PTL DEF Spec

-----------------------------------------------------------------------------
(* What a request is told.                                                 *)

\* HonestAnswer of one request with what each point of ExecuteWrite knows: the
\* device is only touched behind the write_enabled check, a read-back follows a
\* write that took effect, and the row and the answer come last.
Honest(r) ==
  /\ pc[r] = "load" => ~landed[r]
  /\ pc[r] # "done" => answer[r] = "none" /\ log[r] = "none"
  /\ pc[r] \in {"connect", "write", "modify", "read"} \/ landed[r] => permitted[r]
  /\ pc[r] = "read" \/ outcome[r] = "success" => landed[r]
  /\ pc[r] = "log" => outcome[r] \in {"success", "failed"}
  /\ pc[r] # "log" => outcome[r] = "none"
  /\ answer[r] = "success" => landed[r] /\ log[r] = "success"
  /\ answer[r] = "failed" => log[r] = "failed"
  /\ answer[r] = "rejected" => ~landed[r] /\ log[r] = "none"
AllHonest == \A r \in Request : Honest(r)

\* The variables Honest reads of one request.
Same(s) == /\ pc'[s] = pc[s] /\ attempt'[s] = attempt[s]
           /\ permitted'[s] = permitted[s] /\ landed'[s] = landed[s]
           /\ outcome'[s] = outcome[s] /\ answer'[s] = answer[s] /\ log'[s] = log[s]

\* A step serves one request and leaves the others where they are.
LEMMA OthersStay ==
  ASSUME WTypes, NEW r \in Request, Serve(r), NEW s \in Request, s # r
  PROVE  Same(s) /\ via'[s] = via[s] /\ byte'[s] = byte[s]
<1>. USE DEF WTypes, Same, requestVars, resultVars
<1>1. CASE Reject(r) \/ LoadPoint(r) \/ Permit(r) \/ Connect(r)
  BY <1>1 DEF Reject, LoadPoint, Permit, Connect, Transition
<1>2. CASE Forbid(r) \/ ConnectFails(r) \/ ReadBackOk(r)
  BY <1>2 DEF Forbid, ConnectFails, ReadBackOk, Return
<1>3. CASE ReadByte(r)
  BY <1>3 DEF ReadByte, Transition
<1>4. CASE WriteOk(r)
  BY <1>4 DEF WriteOk, Land, Unlock
<1>5. CASE WriteUnanswered(r)
  BY <1>5 DEF WriteUnanswered, Land, Unlock, NextAttempt, Return
<1>6. CASE WriteFails(r) \/ ReadBackFails(r)
  BY <1>6 DEF WriteFails, ReadBackFails, Unlock, NextAttempt, Return
<1>7. CASE AnswerLogged(r) \/ LogFails(r)
  BY <1>7 DEF AnswerLogged, LogFails, Transition
<1>. QED BY <1>1, <1>2, <1>3, <1>4, <1>5, <1>6, <1>7 DEF Serve, Attempt

\* The step of a request keeps its own answer honest.
LEMMA HonestServe ==
  ASSUME WTypes, NEW r \in Request, Honest(r), Serve(r)
  PROVE  Honest(r)'
<1>. USE DEF WTypes, Honest, requestVars, resultVars
<1>1. CASE Reject(r) \/ LoadPoint(r)
  BY <1>1 DEF Reject, LoadPoint, Transition
<1>2. CASE Forbid(r) \/ ConnectFails(r)
  BY <1>2 DEF Forbid, ConnectFails, Return
<1>3. CASE Permit(r) \/ Connect(r)
  BY <1>3 DEF Permit, Connect, Transition
<1>4. CASE ReadByte(r)
  BY <1>4 DEF ReadByte, Transition
<1>5. CASE WriteOk(r)
  BY <1>5 DEF WriteOk, AtWrite, Land
<1>6. CASE WriteUnanswered(r)
  BY <1>6 DEF WriteUnanswered, AtWrite, Land, NextAttempt, Return
<1>7. CASE WriteFails(r)
  BY <1>7 DEF WriteFails, AtWrite, NextAttempt, Return
<1>8. CASE ReadBackOk(r) \/ ReadBackFails(r)
  BY <1>8 DEF ReadBackOk, ReadBackFails, NextAttempt, Return
<1>9. CASE AnswerLogged(r) \/ LogFails(r)
  BY <1>9 DEF AnswerLogged, LogFails, Transition
<1>. QED BY <1>1, <1>2, <1>3, <1>4, <1>5, <1>6, <1>7, <1>8, <1>9 DEF Serve, Attempt

\* The steps that serve no request leave them all where they are.
LEMMA EnvironmentStays ==
  ASSUME [Next]_vars, ~(\E r \in Request : Serve(r)), NEW s \in Request
  PROVE  Same(s) /\ via' = via /\ byte' = byte
BY DEF Next, PlcWrites, Invalidate, CloseLink, vars, Same, requestVars, resultVars

LEMMA HonestStep == WTypes /\ AllHonest /\ [Next]_vars => AllHonest'
<1>. SUFFICES ASSUME WTypes, AllHonest, [Next]_vars, NEW s \in Request PROVE Honest(s)'
  BY DEF AllHonest
<1>1. Same(s) => Honest(s)'
  BY DEF AllHonest, Honest, Same
<1>2. CASE Serve(s)
  BY <1>2, HonestServe DEF AllHonest
<1>3. ASSUME NEW r \in Request, Serve(r), r # s PROVE Honest(s)'
  BY <1>1, <1>3, OthersStay
<1>4. CASE ~(\E r \in Request : Serve(r))
  BY <1>1, <1>4, EnvironmentStays
<1>. QED BY <1>2, <1>3, <1>4

\* What a request is told is what it did, for any number of requests, lost
\* answers, retries, replaced connections and failed inserts.
THEOREM AnswersAreHonest == Spec => []HonestAnswer
<1>1. Init => AllHonest
  BY DEF Init, AllHonest, Honest
<1>2. AllHonest => HonestAnswer
  BY DEF AllHonest, Honest, HonestAnswer
<1>. QED BY <1>1, <1>2, TypesInit, TypesStep, HonestStep, PTL DEF Spec

-----------------------------------------------------------------------------
(* What a success means.                                                   *)

\* The rounding of a REAL moves it by at most 10 units.
LEMMA RoundingIsNear ==
  ASSUME NEW m \in Nat
  PROVE  Distance(20 * ((m + 10) \div 20), m) <= 10
<1> DEFINE q == (m + 10) \div 20
           d == (m + 10) % 20
<1>1. q \in Int /\ d \in 0..19 /\ m + 10 = 20 * q + d
  BY SMT
<1>. HIDE DEF q, d
<1>2. Distance(20 * q, m) <= 10
  BY <1>1, SMT DEF Distance
<1>. QED BY <1>2 DEF q

LEMMA MatchesIsClose ==
  ASSUME WTypes, NEW r \in Request, Matches(r)
  PROVE  Distance(memory[point[r]], target[r])
           <= IF TypeOf[point[r]] = "REAL" THEN 12 ELSE 0
<1>1. PICK m \in Nat, t \in Nat : m = memory[point[r]] /\ t = target[r]
  <2>1. Value \subseteq Nat
    BY WriterAssumption DEF Value
  <2>. QED BY <2>1 DEF WTypes
<1>2. CASE TypeOf[point[r]] = "REAL"
  <2>1. PICK v \in Int : v = 20 * ((m + 10) \div 20)
    BY SMT
  <2>2. Distance(v, t) <= 2
    BY <1>1, <1>2, <2>1, Zenon DEF Matches, ReadValue, Tolerance
  <2>3. Distance(v, m) <= 10
    BY <2>1, RoundingIsNear
  <2>4. Distance(m, t) <= 12
    BY <2>2, <2>3, SMT DEF Distance
  <2>. QED BY <1>1, <1>2, <2>4
<1>3. CASE TypeOf[point[r]] # "REAL"
  BY <1>1, <1>3 DEF Matches, ReadValue, Tolerance
<1>. QED BY <1>2, <1>3

\* Only a read-back that matches is a success.
LEMMA SuccessNeedsMatch ==
  ASSUME WTypes, NEW r \in Request, Serve(r), outcome[r] # "success", outcome'[r] = "success"
  PROVE  Matches(r)
<1>. USE DEF WTypes, requestVars, resultVars
<1>1. CASE Reject(r) \/ LoadPoint(r) \/ Permit(r) \/ Connect(r) \/ ReadByte(r) \/ WriteOk(r)
  BY <1>1 DEF Reject, LoadPoint, Permit, Connect, ReadByte, WriteOk
<1>2. CASE Forbid(r) \/ ConnectFails(r)
  BY <1>2 DEF Forbid, ConnectFails, Return
<1>3. CASE WriteUnanswered(r) \/ WriteFails(r) \/ ReadBackFails(r)
  BY <1>3 DEF WriteUnanswered, WriteFails, ReadBackFails, NextAttempt, Return
<1>4. CASE ReadBackOk(r)
  BY <1>4 DEF ReadBackOk
<1>5. CASE AnswerLogged(r) \/ LogFails(r)
  BY <1>5 DEF AnswerLogged, LogFails
<1>. QED BY <1>1, <1>2, <1>3, <1>4, <1>5 DEF Serve, Attempt

\* When a write is taken for a success the address holds the target up to the
\* rounding and the tolerance, whoever has written it in between.
THEOREM SuccessHoldsTheTarget == Spec => SuccessIsClose
<1>1. ASSUME WTypes, [Next]_vars, NEW r \in Request,
             outcome[r] # "success", outcome'[r] = "success"
      PROVE  Distance(memory[point[r]], target[r])
               <= IF TypeOf[point[r]] = "REAL" THEN 12 ELSE 0
  <2>1. CASE Serve(r)
    BY <1>1, <2>1, SuccessNeedsMatch, MatchesIsClose
  <2>2. ASSUME NEW s \in Request, Serve(s), s # r PROVE FALSE
    BY <1>1, <2>2, OthersStay DEF Same
  <2>3. CASE ~(\E s \in Request : Serve(s))
    BY <1>1, <2>3, EnvironmentStays DEF Same
  <2>. QED BY <2>1, <2>2, <2>3
<1>2. WTypes /\ [Next]_vars
        => [\A r \in Request :
              outcome[r] # "success" /\ outcome'[r] = "success" =>
                Distance(memory[point[r]], target[r])
                  <= IF TypeOf[point[r]] = "REAL" THEN 12 ELSE 0]_vars
  BY <1>1
<1>. QED BY <1>2, TypesInit, TypesStep, PTL DEF Spec, SuccessIsClose

-----------------------------------------------------------------------------
(* Two BOOL writes in one byte.                                            *)

\* Between the two halves of a BOOL write its request holds the mutex of the
\* connection, and a bit that no longer is as it was read has been written by
\* somebody else, not through this connection.
ByteIsFresh(r) ==
  pc[r] = "modify" =>
    /\ Bitwise(r)
    /\ via[r] \in Link
    /\ user[via[r]] = r
    /\ \A p \in Point :
         TypeOf[p] = "BOOL" /\ byte[r][p] # memory[p] => writtenVia[p] # via[r]
Fresh == \A r \in Request : ByteIsFresh(r)

\* A write of another request neither takes the mutex away nor writes through the
\* connection it guards.
LEMMA WriteKeepsFresh ==
  ASSUME WTypes, Fresh, NEW r \in Request, AtWrite(r) \/ (pc[r] = "write" /\ Free(r)),
         NEW s \in Request, s # r, pc[s] = "modify"
  PROVE  via[r] # via[s]
BY WriterAssumption DEF WTypes, Fresh, ByteIsFresh, AtWrite, Free

\* What every step of r other than the end of a write leaves to the requests s
\* that have read the byte.
LEMMA FreshFrame ==
  ASSUME WTypes, Fresh, NEW s \in Request, pc[s] = "modify",
         pc'[s] = pc[s], point' = point, via'[s] = via[s], byte'[s] = byte[s],
         user'[via[s]] = user[via[s]],
         \A p \in Point : \/ memory'[p] = memory[p] /\ writtenVia'[p] = writtenVia[p]
                          \/ writtenVia'[p] # via[s]
  PROVE  ByteIsFresh(s)'
BY DEF Fresh, ByteIsFresh, Bitwise, WTypes

\* What Land writes it writes through the connection of its request.
LEMMA LandLeavesTrace ==
  ASSUME WTypes, NEW r \in Request, Land(r), NEW l, l # via[r], NEW p \in Point
  PROVE  \/ memory'[p] = memory[p] /\ writtenVia'[p] = writtenVia[p]
         \/ writtenVia'[p] # l
BY DEF WTypes, Land

\* The steps of one request keep the bytes of the others fresh.
LEMMA FreshOthers ==
  ASSUME WTypes, Fresh, NEW r \in Request, Serve(r), NEW s \in Request, s # r
  PROVE  ByteIsFresh(s)'
<1>. USE DEF requestVars, resultVars, deviceVars, inputVars, linkVars
<1>1. pc'[s] = pc[s] /\ via'[s] = via[s] /\ byte'[s] = byte[s]
  BY OthersStay DEF Same
<1>2. point' = point
  BY DEF Serve, Attempt, Reject, LoadPoint, Forbid, Permit, Connect, ConnectFails,
         ReadByte, WriteOk, WriteUnanswered, WriteFails, ReadBackOk, ReadBackFails,
         AnswerLogged, LogFails
<1>. SUFFICES ASSUME pc[s] = "modify" PROVE ByteIsFresh(s)'
  BY <1>1 DEF ByteIsFresh
<1>3. CASE WriteOk(r) \/ WriteUnanswered(r) \/ WriteFails(r)
  <2>1. via[r] # via[s]
    BY <1>3, WriteKeepsFresh DEF WriteOk, WriteUnanswered, WriteFails
  <2>2. user'[via[s]] = user[via[s]]
    BY <1>3, <2>1 DEF WriteOk, WriteUnanswered, WriteFails, Unlock, Fresh, ByteIsFresh, WTypes
  <2>3. \A p \in Point : \/ memory'[p] = memory[p] /\ writtenVia'[p] = writtenVia[p]
                         \/ writtenVia'[p] # via[s]
    <3>1. CASE Land(r)
      BY <2>1, <3>1, LandLeavesTrace
    <3>2. CASE UNCHANGED deviceVars
      BY <3>2
    <3>. QED BY <1>3, <3>1, <3>2 DEF WriteOk, WriteUnanswered, WriteFails
  <2>. QED BY <1>1, <1>2, <2>2, <2>3, FreshFrame
<1>4. CASE ReadByte(r)
  <2>1. via[r] # via[s]
    BY <1>4, WriteKeepsFresh DEF ReadByte, Transition
  <2>2. user'[via[s]] = user[via[s]]
    BY <1>4, <2>1 DEF ReadByte, KeepsMutex, Fresh, ByteIsFresh, WTypes
  <2>3. memory' = memory /\ writtenVia' = writtenVia
    BY <1>4 DEF ReadByte
  <2>. QED BY <1>1, <1>2, <2>2, <2>3, FreshFrame
<1>5. CASE ~(WriteOk(r) \/ WriteUnanswered(r) \/ WriteFails(r) \/ ReadByte(r))
  <2>1. memory' = memory /\ writtenVia' = writtenVia /\ user' = user
    BY <1>5 DEF Serve, Attempt, Reject, LoadPoint, Forbid, Permit, Connect, ConnectFails,
                ReadBackOk, ReadBackFails, AnswerLogged, LogFails
  <2>. QED BY <1>1, <1>2, <2>1, FreshFrame
<1>. QED BY <1>3, <1>4, <1>5

\* A request that begins a BOOL write reads a fresh byte; its other steps are not
\* between the two halves of one.
LEMMA FreshOwn ==
  ASSUME WTypes, NEW r \in Request, Serve(r)
  PROVE  ByteIsFresh(r)'
<1>. USE DEF WTypes, PC, requestVars, resultVars, deviceVars, inputVars, linkVars
<1>1. CASE ReadByte(r)
  <2>1. pc[r] = "write" /\ Bitwise(r) /\ via[r] \in Link /\ via' = via
    BY <1>1 DEF ReadByte, Transition, Usable
  <2>2. user'[via[r]] = r /\ Bitwise(r)'
    BY <1>1, <2>1 DEF ReadByte, KeepsMutex, Bitwise
  <2>3. \A p \in Point : TypeOf[p] = "BOOL" => byte'[r][p] = memory'[p]
    BY <1>1 DEF ReadByte
  <2>. QED BY <2>1, <2>2, <2>3 DEF ByteIsFresh
<1>2. CASE ~ReadByte(r)
  <2>1. CASE Reject(r) \/ LoadPoint(r) \/ Permit(r) \/ Connect(r)
    BY <2>1 DEF Reject, LoadPoint, Permit, Connect, Transition, ByteIsFresh
  <2>2. CASE Forbid(r) \/ ConnectFails(r) \/ ReadBackOk(r)
    BY <2>2 DEF Forbid, ConnectFails, ReadBackOk, Return, ByteIsFresh
  <2>3. CASE WriteOk(r)
    BY <2>3 DEF WriteOk, ByteIsFresh
  <2>4. CASE WriteUnanswered(r) \/ WriteFails(r) \/ ReadBackFails(r)
    BY <2>4 DEF WriteUnanswered, WriteFails, ReadBackFails, NextAttempt, Return, ByteIsFresh
  <2>5. CASE AnswerLogged(r) \/ LogFails(r)
    BY <2>5 DEF AnswerLogged, LogFails, Transition, ByteIsFresh
  <2>. QED BY <1>2, <2>1, <2>2, <2>3, <2>4, <2>5 DEF Serve, Attempt
<1>. QED BY <1>1, <1>2

LEMMA FreshStep == WTypes /\ Fresh /\ [Next]_vars => Fresh'
<1>. SUFFICES ASSUME WTypes, Fresh, [Next]_vars, NEW s \in Request PROVE ByteIsFresh(s)'
  BY DEF Fresh
<1>1. CASE Serve(s)
  BY <1>1, FreshOwn
<1>2. ASSUME NEW r \in Request, Serve(r), r # s PROVE ByteIsFresh(s)'
  BY <1>2, FreshOthers
<1>3. CASE ~(\E r \in Request : Serve(r))
  <2>1. Same(s) /\ via' = via /\ byte' = byte
    BY <1>3, EnvironmentStays
  <2>. SUFFICES ASSUME pc[s] = "modify" PROVE ByteIsFresh(s)'
    BY <2>1 DEF Same, ByteIsFresh
  <2>2. via[s] \in Link
    BY DEF Fresh, ByteIsFresh
  <2>3. user' = user /\ point' = point
    BY <1>3 DEF Next, PlcWrites, Invalidate, CloseLink, vars, inputVars
  <2>4. CASE \E p \in PlcPoint : PlcWrites(p)
    <3>1. PICK p \in PlcPoint : PlcWrites(p)
      BY <2>4
    <3>2. PICK v : memory' = [memory EXCEPT ![p] = v]
      BY <3>1 DEF PlcWrites
    <3>3. writtenVia' = [writtenVia EXCEPT ![p] = None]
      BY <3>1 DEF PlcWrites
    <3>4. \A q \in Point : \/ memory'[q] = memory[q] /\ writtenVia'[q] = writtenVia[q]
                           \/ writtenVia'[q] # via[s]
      BY <2>2, <3>2, <3>3, WriterAssumption DEF WTypes
    <3>. QED BY <2>1, <2>3, <3>4, FreshFrame DEF Same
  <2>5. CASE ~(\E p \in PlcPoint : PlcWrites(p))
    <3>1. memory' = memory /\ writtenVia' = writtenVia
      BY <1>3, <2>5 DEF Next, Invalidate, CloseLink, vars, deviceVars
    <3>. QED BY <2>1, <2>3, <3>1, FreshFrame DEF Same
  <2>. QED BY <2>4, <2>5
<1>. QED BY <1>1, <1>2, <1>3

\* A write through one connection changes no address but its own that was last set
\* through the same connection: the mutex makes the two halves of a BOOL write one.
THEOREM BitsAreNotUndone == Spec => NoUndoneWrite
<1>1. ASSUME WTypes, Fresh, [Next]_vars, NEW p \in Point, NEW r \in Request,
             Steps(r), p # point[r], memory'[p] # memory[p]
      PROVE  writtenVia[p] # via[r]
  <2>1. Serve(r)
    <3>1. ASSUME NEW s \in Request, Serve(s), s # r PROVE FALSE
      BY <1>1, <3>1, OthersStay DEF Same, Steps
    <3>2. CASE ~(\E s \in Request : Serve(s))
      BY <1>1, <3>2, EnvironmentStays DEF Same, Steps
    <3>. QED BY <3>1, <3>2
  <2>2. Land(r) /\ AtWrite(r)
    BY <1>1, <2>1
       DEF Serve, Attempt, Reject, LoadPoint, Forbid, Permit, Connect, ConnectFails, ReadByte,
           WriteOk, WriteUnanswered, WriteFails, ReadBackOk, ReadBackFails, AnswerLogged,
           LogFails, deviceVars
  <2>3. Bitwise(r) /\ TypeOf[p] = "BOOL" /\ byte[r][p] # memory[p]
    BY <1>1, <2>2 DEF Land, WTypes
  <2>. QED BY <1>1, <2>2, <2>3 DEF AtWrite, Fresh, ByteIsFresh
<1>2. WTypes /\ Fresh /\ [Next]_vars
        => [\A p \in Point : \A r \in Request :
              Steps(r) /\ p # point[r] /\ memory'[p] # memory[p]
                => writtenVia[p] # via[r]]_vars
  BY <1>1
<1>3. Init => Fresh
  BY DEF Init, Fresh, ByteIsFresh
<1>. QED BY <1>2, <1>3, TypesInit, TypesStep, FreshStep, PTL DEF Spec, NoUndoneWrite

=============================================================================
