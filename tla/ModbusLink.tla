----------------------------- MODULE ModbusLink -----------------------------
(***************************************************************************)
(* One Modbus TCP connection (protocol/modbus/factory.go): Read and Write  *)
(* send a frame and read the answer from the stream of bytes, which also   *)
(* holds what earlier requests left there when their deadline passed.      *)
(*                                                                         *)
(* Collection workers and write requests share the connection; its mutex   *)
(* admits one call at a time, so a single caller that makes any call next  *)
(* stands for all of them.  TCP keeps order and loses nothing, but bytes   *)
(* may come after the deadline: how many are there when it passes is       *)
(* decided then.                                                           *)
(***************************************************************************)
EXTENDS ModbusCodec

CONSTANTS
  UnitId,       \* unit_id of the device
  Order,        \* float32_order of the device
  Address,      \* inputs: addresses of points, as numbers
  Input,        \* inputs: target values by data type
  Content,      \* inputs: words the program of the device stores
  Programmed,   \* addresses the program of the device stores to
  Arrived,      \* inputs: bytes there at a deadline
  Earlier,      \* requests before those looked at, all answered in time
  MaxRequests,  \* bound: requests looked at
  None, Refused \* no answer, or an exception, from the device

ASSUME ModbusLinkAssumption ==
  /\ UnitId \in 1..247
  /\ Order \in Float32Order
  /\ Address \subseteq Nat
  /\ Input["INT"] \subseteq Int16 /\ Input["BOOL"] \subseteq {0, 1} /\ \A b \in Input["REAL"] : b \in Real32
  /\ Content \subseteq Word
  /\ Arrived \subseteq Nat /\ 0 \in Arrived
  /\ Earlier \in Nat /\ MaxRequests \in Nat
  /\ Earlier + MaxRequests <= 65535  \* before the transaction number comes round again

\* A REAL lies at an address and the next one.
Cells == Address \cup {n + 1 : n \in {m \in Address : ~Bit(m)}}

ASSUME NoAnswerAssumption ==
  None # Refused /\ {None, Refused} \cap [Cells -> Word] = {}

VARIABLES
  open,          \* the socket
  txID,          \* connection.txID
  pc, call,      \* where the call is, and what it is
  need,          \* bytes of the body the header announced
  outcome,       \* what the last call returned
  wire,          \* bytes from the device that are not read yet
  inbox,         \* requests the device has not handled yet
  memory,        \* the device's tables: address -> bit or word
  dirty,         \* were there bytes on the wire when the request was sent
  served         \* the device's tables once it had handled this request

callVars   == <<pc, call, need, outcome>>
deviceVars == <<inbox, memory, served>>
vars == <<open, txID, callVars, wire, deviceVars, dirty>>

Reads  == [kind : {"read"}, n : Address, type : DataType]
Writes == UNION {[kind : {"write"}, n : Address, type : {t}, value : Input[t]] : t \in DataType}
Failed == [ok |-> FALSE]

TypeOK ==
  /\ open \in BOOLEAN /\ dirty \in BOOLEAN
  /\ txID \in Earlier..(Earlier + MaxRequests)
  /\ pc \in {"idle", "header", "body"}
  /\ need \in 0..252
  /\ \A i \in 1..Len(wire) : wire[i] \in Byte
  /\ \A i \in 1..Len(inbox) : inbox[i].tx \in (Earlier + 1)..txID
  /\ DOMAIN memory = Cells /\ \A n \in Cells : memory[n] \in Word /\ (Bit(n) => memory[n] \in {0, 1})
  /\ outcome.ok => pc = "idle"

Init ==
  /\ open = TRUE /\ txID = Earlier
  /\ pc = "idle" /\ call = None /\ need = 0 /\ outcome = Failed
  /\ wire = << >> /\ inbox = << >>
  /\ memory = [n \in Cells |-> 0]
  /\ dirty = FALSE /\ served = None

-----------------------------------------------------------------------------
(* The connection.                                                         *)

PDU(c) == IF c.kind = "read" THEN ReadPDU(c.n, c.type)
                             ELSE WritePDU(c.n, c.type, c.value, Order)

Drop(s, k) == SubSeq(s, k + 1, Len(s))

\* The call is remembered for the properties while its success is.
Return(o) ==
  /\ pc' = "idle" /\ outcome' = o /\ need' = 0
  /\ call' = IF o.ok THEN call ELSE None

\* The address does not parse, or the context has ended already.
CallRejected ==
  /\ pc = "idle"
  /\ dirty' = FALSE /\ served' = None
  /\ Return(Failed)
  /\ UNCHANGED <<open, txID, wire, inbox, memory>>

SameID == IF txID = 0 THEN 1 ELSE txID
NextID == (txID + 1) % 65536

Send(c) ==
  /\ pc = "idle" /\ open /\ txID < Earlier + MaxRequests
  /\ ValidAddress(c.n, c.type, c.kind = "write")
  /\ call' = c /\ txID' = NextID
  /\ inbox' = Append(inbox, [tx |-> NextID, frame |-> Frame(NextID, UnitId, PDU(c))])
  /\ pc' = "header" /\ outcome' = Failed /\ need' = 0
  /\ dirty' = (wire # << >>) /\ served' = None
  /\ UNCHANGED <<open, wire, memory>>

\* The socket is closed, or the deadline has passed before the frame is out: the
\* device gets all of a frame or nothing of it.
SendFails ==
  /\ pc = "idle" /\ txID < Earlier + MaxRequests
  /\ txID' = NextID
  /\ dirty' = FALSE /\ served' = None
  /\ Return(Failed)
  /\ UNCHANGED <<open, wire, inbox, memory>>

\* What is left of the stream when a header is not the expected one.
Emptied(s) == << >>
AfterBadHeader(s) == Drop(s, HeaderLength)

ReadHeader ==
  LET h == SubSeq(wire, 1, HeaderLength) IN
  /\ pc = "header" /\ Len(wire) >= HeaderLength
  /\ \/ /\ GoodHeader(h, txID, UnitId)
        /\ wire' = Drop(wire, HeaderLength)
        /\ pc' = "body" /\ need' = BodyLength(h)
        /\ UNCHANGED <<call, outcome>>
     \/ /\ ~GoodHeader(h, txID, UnitId)
        /\ wire' = AfterBadHeader(wire)
        /\ Return(Failed)
  /\ UNCHANGED <<open, txID, deviceVars, dirty>>

\* The end of Read and of Write.
Result(resp) ==
  IF IsException(resp, PDU(call)) THEN Failed
  ELSE IF call.kind = "write"
  THEN [ok |-> GoodWrite(resp, PDU(call))]
  ELSE IF GoodRead(resp, ReadFC(call.n), call.type)
       THEN [ok |-> TRUE, value |-> ReadValue(resp, call.type, Order)]
       ELSE Failed

ReadBody ==
  /\ pc = "body" /\ Len(wire) >= need
  /\ wire' = Drop(wire, need)
  /\ Return(Result(SubSeq(wire, 1, need)))
  /\ UNCHANGED <<open, txID, deviceVars, dirty>>

\* setDeadline: the bytes that have come in time are read and lost.
NoDeadline(k) == FALSE
Expired(k) == k <= Len(wire)
Wanted == IF pc = "header" THEN HeaderLength ELSE need

Timeout(k) ==
  /\ pc # "idle" /\ k < Wanted
  /\ Expired(k)
  /\ wire' = Drop(wire, k)
  /\ Return(Failed)
  /\ UNCHANGED <<open, txID, deviceVars, dirty>>

Close ==
  /\ pc = "idle" /\ open
  /\ open' = FALSE /\ wire' = << >> /\ inbox' = << >>
  /\ dirty' = FALSE
  /\ Return(Failed)
  /\ UNCHANGED <<txID, memory, served>>

-----------------------------------------------------------------------------
(* The device: it handles one request after the other, answers, refuses or *)
(* ignores it, and its program changes its tables.                         *)

Base(fc) == CASE fc \in {1, 5} -> 1
              [] fc = 2 -> 10001
              [] fc \in {3, 6, 16} -> 40001
              [] fc = 4 -> 30001

\* The tables after a data unit, and the answer to it.
Stored(pdu) ==
  LET n == Base(pdu[1]) + Uint16(pdu[2], pdu[3]) IN
  CASE pdu[1] = 5  -> [memory EXCEPT ![n] = IF pdu[4] = 255 THEN 1 ELSE 0]
    [] pdu[1] = 6  -> [memory EXCEPT ![n] = Uint16(pdu[4], pdu[5])]
    [] pdu[1] = 16 -> [memory EXCEPT ![n] = Uint16(pdu[7], pdu[8]), ![n + 1] = Uint16(pdu[9], pdu[10])]
    [] OTHER -> memory
Reply(pdu) ==
  LET n == Base(pdu[1]) + Uint16(pdu[2], pdu[3]) IN
  CASE pdu[1] \in {1, 2} -> <<pdu[1], 1, memory[n]>>
    [] pdu[1] \in {3, 4} /\ pdu[5] = 1 -> <<pdu[1], 2, HighByte(memory[n]), LowByte(memory[n])>>
    [] pdu[1] \in {3, 4} /\ pdu[5] = 2 ->
         <<pdu[1], 4, HighByte(memory[n]), LowByte(memory[n]),
           HighByte(memory[n + 1]), LowByte(memory[n + 1])>>
    [] pdu[1] \in {5, 6} -> pdu
    [] pdu[1] = 16 -> <<16, pdu[2], pdu[3], 0, 2>>

Handled(tx, m) ==
  /\ inbox' = Tail(inbox)
  /\ served' = IF tx = txID /\ pc # "idle" THEN m ELSE served
  /\ UNCHANGED <<open, txID, callVars, dirty>>

DeviceAnswers ==
  /\ inbox # << >>
  /\ LET r == Head(inbox)
         pdu == Drop(r.frame, HeaderLength)
     IN  /\ memory' = Stored(pdu)
         /\ wire' = wire \o Frame(r.tx, UnitId, Reply(pdu))
         /\ Handled(r.tx, memory')

DeviceRefuses ==
  /\ inbox # << >>
  /\ LET r == Head(inbox)
         fc == r.frame[HeaderLength + 1]
     IN  /\ wire' = wire \o Frame(r.tx, UnitId, <<fc + 128, 2>>)
         /\ Handled(r.tx, Refused)
  /\ UNCHANGED memory

DeviceIgnores ==
  /\ inbox # << >>
  /\ Handled(Head(inbox).tx, None)
  /\ UNCHANGED <<wire, memory>>

ProgramStores(n, w) ==
  /\ Bit(n) => w \in {0, 1}
  /\ memory' = [memory EXCEPT ![n] = w]
  /\ UNCHANGED <<open, txID, callVars, wire, inbox, served, dirty>>

-----------------------------------------------------------------------------
Driver == ReadHeader \/ ReadBody \/ \E k \in Arrived : Timeout(k)

Next ==
  \/ CallRejected \/ SendFails
  \/ \E c \in Reads \cup Writes : Send(c)
  \/ Driver
  \/ Close
  \/ DeviceAnswers \/ DeviceRefuses \/ DeviceIgnores
  \/ \E n \in Programmed, w \in Content : ProgramStores(n, w)

Spec == Init /\ [][Next]_vars /\ WF_vars(Driver)

-----------------------------------------------------------------------------
(* Properties.                                                             *)

\* What the order of the letters says: the first byte on the wire is the byte
\* of the value that the first letter names, and so on; and the other way round,
\* for every order undoes itself.
Letters == [ABCD |-> <<1, 2, 3, 4>>, BADC |-> <<2, 1, 4, 3>>,
            CDAB |-> <<3, 4, 1, 2>>, DCBA |-> <<4, 3, 2, 1>>]
BytesAt(m, n) == <<HighByte(m[n]), LowByte(m[n]), HighByte(m[n + 1]), LowByte(m[n + 1])>>
RealAt(m, n)  == LET b == BytesAt(m, n)
                     l == Letters[Order]
                 IN  <<b[l[1]], b[l[2]], b[l[3]], b[l[4]]>>

\* The tables have the value, as it was written; they show it, as it is read.
Holds(m, n, type, value) ==
  CASE type = "BOOL" -> m[n] = value
    [] type = "INT"  -> (m[n] - value) % 65536 = 0
    [] type = "REAL" -> \A i \in 1..4 : BytesAt(m, n)[i] = value[Letters[Order][i]]
Shows(m, n, type, value) ==
  IF type = "REAL" THEN value = Thousandths(RealAt(m, n)) ELSE Holds(m, n, type, value)

\* After a late answer the stream is read from the middle of an answer on, and
\* the last six bytes of it can, with the first byte of the next answer, look
\* like a header: those of the echo of an INT written to 40001, with the unit in
\* front, or the body of an answer with a REAL.  Either way they name a request.
Clash == {256 * UnitId + 6} \cup {256 * fc + 4 : fc \in {3, 4}}

\* What comes after such a header is the rest of the header of the next answer,
\* which looks like the echo of one of these calls, and like nothing else.
Lookalike(c) ==
  /\ c.kind = "write" /\ c.type = "INT" /\ c.n = 40001 /\ c.value \in 3..7
  /\ txID \in Clash

\* A call that succeeds was handled by the device, and its value is what the
\* device holds at that address once it has handled this very request (a REAL that
\* is read: rounded to thousandths): but for lookalikes, no late answer to another
\* request is taken for it.
AnswerIsOwn ==
  outcome.ok /\ ~Lookalike(call) =>
    /\ served \notin {None, Refused}
    /\ IF call.kind = "read" THEN Shows(served, call.n, call.type, outcome.value)
                              ELSE Holds(served, call.n, call.type, call.value)

\* A request sent while bytes of an earlier answer are still to be read does not
\* succeed, whether the header it reads is the old one or a piece of a body,
\* unless it is a lookalike: no read ever does.
DirtyFails == dirty /\ outcome.ok => Lookalike(call)

\* ... and it leaves bytes behind again, if the device answers it: but for those
\* three numbers the connection does not recover while the device answers.
StaysDirty ==
  pc = "idle" /\ dirty /\ served # None /\ txID \notin Clash => wire # << >>

\* A call on a clean stream that succeeds leaves nothing to be read and nothing
\* to be handled.
SuccessDrains == outcome.ok /\ ~dirty => wire = << >> /\ inbox = << >>

\* Every call returns, though the device may never answer: each request sets a
\* deadline for its reads.
CallReturns == pc # "idle" ~> pc = "idle"
=============================================================================
