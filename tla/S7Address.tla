----------------------------- MODULE S7Address ------------------------------
(***************************************************************************)
(* S7 addresses: what protocol/driver.go accepts when a point is saved and *)
(* what the driver, protocol/s7/factory.go, makes of it on every call.     *)
(*                                                                         *)
(* An address is the letters in front and the numbers between the dots:    *)
(* DB2.10.0 is [area |-> "DB", parts |-> <<2, 10, 0>>] and MW540 is        *)
(* [area |-> "MW", parts |-> <<540>>].  Numbers have no leading zeros.     *)
(***************************************************************************)
EXTENDS Integers, Sequences

CONSTANTS
  Number,   \* inputs: the numbers of addresses
  MaxInt    \* the largest number strconv.Atoi takes

Area == {"DB", "M", "I", "Q", "MW", "MD", "QW", "QD"}
DataType == {"BOOL", "INT", "REAL"}
Written == [area : Area, parts : UNION {[1..n -> Number] : n \in 1..3}]

BitNumber == 0..7
LastPart(a) == a.parts[Len(a.parts)]

-----------------------------------------------------------------------------
(* ValidateS7Address.                                                      *)

\* s7DB, s7Standard, s7Word.
WellFormed(a) ==
  CASE a.area = "DB" -> Len(a.parts) = 2 \/ (Len(a.parts) = 3 /\ a.parts[3] \in BitNumber)
    [] a.area \in {"M", "I", "Q"} ->
         Len(a.parts) = 1 \/ (Len(a.parts) = 2 /\ a.parts[2] \in BitNumber)
    [] OTHER -> Len(a.parts) = 1

\* The text ends in a dot and one digit up to 7, whatever that number means.
HasBit(a) == Len(a.parts) >= 2 /\ LastPart(a) \in BitNumber
NumericDBZeroSuffix(a) == a.area = "DB" /\ Len(a.parts) = 3 /\ a.parts[3] = 0

Valid(a, type, write) ==
  /\ WellFormed(a)
  /\ type = "BOOL" => HasBit(a)
  /\ type # "BOOL" /\ HasBit(a) => NumericDBZeroSuffix(a)
  /\ type = "INT" => a.area \notin {"MD", "QD"}
  /\ type = "REAL" => a.area \notin {"MW", "QW"}
  /\ write => a.area # "I"

-----------------------------------------------------------------------------
(* parseAddress of the driver.                                             *)

Parses(a) == \A i \in 1..Len(a.parts) : a.parts[i] <= MaxInt

Letter(a) == CASE a.area \in {"M", "MW", "MD"} -> "M"
               [] a.area \in {"Q", "QW", "QD"} -> "Q"
               [] OTHER -> a.area

\* No bit is -1.
Parsed(a) ==
  IF a.area = "DB"
  THEN [area |-> "DB", db |-> a.parts[1], offset |-> a.parts[2],
        bit |-> IF Len(a.parts) = 3 THEN a.parts[3] ELSE -1]
  ELSE [area |-> Letter(a), db |-> 0, offset |-> a.parts[1],
        bit |-> IF Len(a.parts) = 2 THEN a.parts[2] ELSE -1]

\* The areas c.read and c.write have a call for.
ReadableArea == {"DB", "M", "I", "Q"}
WritableArea == {"DB", "M", "Q"}

-----------------------------------------------------------------------------
(* A point is saved; then it is read, or written, again and again.         *)

VARIABLES point, outcome

vars == <<point, outcome>>

NoPoint == [type |-> "none"]

Init == point = NoPoint /\ outcome = "none"

SavePoint(a, type, write) ==
  IF Valid(a, type, write)
  THEN point' = [address |-> a, type |-> type, write |-> write] /\ outcome' = "saved"
  ELSE outcome' = "rejected" /\ UNCHANGED point

\* 1 << bit panics for a negative bit; the byte has been read by then, or the
\* call has failed.
Masks == IF Parsed(point.address).bit < 0 THEN "panic" ELSE "ok"

Call ==
  /\ point # NoPoint
  /\ \/ outcome' = "error"
     \/ /\ Parses(point.address)
        /\ outcome' = IF point.type = "BOOL" THEN Masks ELSE "ok"
  /\ UNCHANGED point

Next ==
  \/ \E a \in Written, type \in DataType, write \in BOOLEAN : SavePoint(a, type, write)
  \/ Call

Spec == Init /\ [][Next]_vars

\* "A BOOL address has three parts, or two for M, I and Q": no call on a saved
\* point panics, for the driver finds the bit it shifts by in the address.
NoPanic == outcome # "panic"
=============================================================================
