--------------------------- MODULE S7AddressProofs ---------------------------
(***************************************************************************)
(* Machine-checked proofs about S7Address, for every set of numbers.       *)
(***************************************************************************)
EXTENDS S7Address, TLAPS

\* DB n . m without a bit, which HasBit takes for an address with one.
ShortDB(a) == a.area = "DB" /\ Len(a.parts) = 2

Point == [address : Written, type : DataType, write : BOOLEAN]

LEMMA PartsOf ==
  ASSUME NEW a \in Written
  PROVE  Len(a.parts) \in 1..3 /\ a.area \in Area
<1>1. PICK n \in 1..3 : a.parts \in [1..n -> Number]
  BY DEF Written
<1>2. Len(a.parts) = n
  BY <1>1
<1>. QED BY <1>2 DEF Written

\* The address of a BOOL point has its bit where the driver looks for it,
\* unless it is a data block address without one.
THEOREM BitIsFound ==
  ASSUME NEW a \in Written, NEW write, Valid(a, "BOOL", write), ~ShortDB(a)
  PROVE  Parsed(a).bit \in BitNumber
<1>1. WellFormed(a) /\ HasBit(a)
  BY DEF Valid
<1>2. Len(a.parts) \in 1..3 /\ Len(a.parts) >= 2
  BY <1>1, PartsOf DEF HasBit
<1>3. CASE a.area = "DB"
  <2>1. Len(a.parts) = 3 /\ a.parts[3] \in BitNumber
    BY <1>1, <1>2, <1>3 DEF WellFormed, ShortDB
  <2>. QED BY <1>3, <2>1 DEF Parsed
<1>4. CASE a.area # "DB"
  <2>1. Len(a.parts) = 2 /\ a.parts[2] \in BitNumber
    BY <1>1, <1>2, <1>4 DEF WellFormed
  <2>. QED BY <1>4, <2>1 DEF Parsed
<1>. QED BY <1>3, <1>4

\* The driver has a call for the area of every accepted address, and one that
\* writes for every address accepted for a write point.
THEOREM AcceptedAreaIsServed ==
  ASSUME NEW a \in Written, NEW type, NEW write \in BOOLEAN, Valid(a, type, write)
  PROVE  /\ Parsed(a).area \in ReadableArea
         /\ write => Parsed(a).area \in WritableArea
<1>1. a.area \in Area /\ (write => a.area # "I")
  BY PartsOf DEF Valid
<1>. QED BY <1>1 DEF Parsed, Letter, Area, ReadableArea, WritableArea

\* A number with the width of its type is never read from an address whose
\* letter names another width: INT is not read at MD, nor REAL at MW.
THEOREM WidthAgrees ==
  ASSUME NEW a \in Written, NEW type, NEW write, Valid(a, type, write)
  PROVE  /\ type = "BOOL" => a.area \in {"DB", "M", "I", "Q"}
         /\ type = "INT"  => a.area \notin {"MD", "QD"}
         /\ type = "REAL" => a.area \notin {"MW", "QW"}
<1>1. type = "BOOL" => a.area \in {"DB", "M", "I", "Q"}
  <2>1. SUFFICES ASSUME type = "BOOL", a.area \notin {"DB", "M", "I", "Q"} PROVE FALSE
    OBVIOUS
  <2>2. Len(a.parts) = 1 /\ Len(a.parts) >= 2
    BY <2>1, PartsOf DEF Valid, WellFormed, HasBit, Area
  <2>. QED BY <2>2
<1>. QED BY <1>1 DEF Valid

\* The only saved points whose calls panic are BOOL points with such an address.
PanicIsShortDB ==
  outcome = "panic" => point \in Point /\ point.type = "BOOL" /\ ShortDB(point.address)

THEOREM OnlyShortDBPanics == Spec => []PanicIsShortDB
<1>. DEFINE Inv == /\ PanicIsShortDB
                   /\ point # NoPoint => /\ point \in Point
                                         /\ Valid(point.address, point.type, point.write)
<1>1. Init => Inv
  BY DEF Init, NoPoint, PanicIsShortDB
<1>2. Inv /\ [Next]_vars => Inv'
  <2>. SUFFICES ASSUME Inv, [Next]_vars PROVE Inv'
    OBVIOUS
  <2>1. ASSUME NEW a \in Written, NEW type \in DataType, NEW write \in BOOLEAN,
               SavePoint(a, type, write)
        PROVE  Inv'
    <3>1. CASE Valid(a, type, write)
      <4>1. /\ point' = [address |-> a, type |-> type, write |-> write] /\ outcome' = "saved"
        BY <2>1, <3>1 DEF SavePoint
      <4>2. point' \in Point /\ point'.address = a /\ point'.type = type /\ point'.write = write
        BY <4>1 DEF Point
      <4>. QED BY <3>1, <4>1, <4>2 DEF PanicIsShortDB
    <3>2. CASE ~Valid(a, type, write)
      BY <2>1, <3>2 DEF SavePoint, PanicIsShortDB
    <3>. QED BY <3>1, <3>2
  <2>2. CASE Call
    <3>1. /\ point \in Point /\ Valid(point.address, point.type, point.write) /\ point' = point
      BY <2>2 DEF Call
    <3>2. ASSUME outcome' = "panic" PROVE point.type = "BOOL" /\ ShortDB(point.address)
      <4>1. point.type = "BOOL" /\ Masks = "panic"
        BY <2>2, <3>2 DEF Call
      <4>2. Parsed(point.address).bit < 0
        BY <4>1 DEF Masks
      <4>3. point.address \in Written
        BY <3>1 DEF Point
      <4>4. ShortDB(point.address)
        BY <3>1, <4>1, <4>2, <4>3, BitIsFound DEF BitNumber
      <4>. QED BY <4>1, <4>4
    <3>. QED BY <3>1, <3>2 DEF PanicIsShortDB
  <2>3. CASE UNCHANGED vars
    BY <2>3 DEF vars, PanicIsShortDB
  <2>. QED BY <2>1, <2>2, <2>3 DEF Next
<1>3. Inv => PanicIsShortDB
  OBVIOUS
<1>. QED BY <1>1, <1>2, <1>3, PTL DEF Spec
=============================================================================
