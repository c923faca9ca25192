---------------------------- MODULE ModbusCodec ----------------------------
(***************************************************************************)
(* What protocol/modbus/factory.go writes into its frames and makes of     *)
(* what it reads from them: point addresses, the order of the bytes of a   *)
(* REAL, its rounding after a read, 16-bit integers, the application       *)
(* header and the functions.                                               *)
(*                                                                         *)
(* A byte is a number, a REAL is the four bytes of its IEEE 754 form, most *)
(* significant first; a REAL that was read is a number of thousandths.     *)
(***************************************************************************)
EXTENDS Integers, Sequences

Byte  == 0..255
Word  == {w \in Nat : w < 65536}
Int16 == {i \in Int : -32768 <= i /\ i < 32768}
Real32 == [1..4 -> Byte]

DataType == {"BOOL", "INT", "REAL"}
Float32Order == {"ABCD", "BADC", "CDAB", "DCBA"}

HighByte(w) == w \div 256
LowByte(w)  == w % 256
Uint16(h, l) == 256 * h + l

\* uint16(int16(value)) and int16(uint16).
Unwrapped(i) == i
ToWord(i)   == IF i < 0 THEN i + 65536 ELSE i
FromWord(w) == IF w >= 32768 THEN w - 65536 ELSE w

\* fromIEEEBytes and toIEEEBytes.
FromIEEEBytes(b, order) ==
  CASE order = "ABCD" -> b
    [] order = "BADC" -> <<b[2], b[1], b[4], b[3]>>
    [] order = "CDAB" -> <<b[3], b[4], b[1], b[2]>>
    [] order = "DCBA" -> <<b[4], b[3], b[2], b[1]>>
ToIEEEBytes(b, order) ==
  CASE order = "ABCD" -> b
    [] order = "BADC" -> <<b[2], b[1], b[4], b[3]>>
    [] order = "CDAB" -> <<b[3], b[4], b[1], b[2]>>
    [] order = "DCBA" -> <<b[4], b[3], b[2], b[1]>>

\* math.Round(value * 1000) / 1000 of a REAL, as the number of thousandths: the
\* product is exact in 64 bits, and halves go away from zero.  NaN and the
\* infinities stay what they are.
Sign(b)        == IF b[1] >= 128 THEN -1 ELSE 1
Exponent(b)    == 2 * (b[1] % 128) + b[2] \div 128
Significand(b) == 65536 * ((b[2] % 128) + (IF Exponent(b) = 0 THEN 0 ELSE 128))
                  + 256 * b[3] + b[4]

HalfUp(n, d) == (n + d \div 2) \div d

\* A REAL is Significand / 2^(150 - Exponent); from 2^35 on that is less than half
\* a thousandth.
Magnitude(b) ==
  LET shift == 150 - Exponent(b)
      d == 2^shift
      whole == Significand(b) \div d
  IN  IF shift <= 0 THEN 1000 * Significand(b) * 2^(-shift)
      ELSE IF shift >= 35 THEN 0
      ELSE 1000 * whole + HalfUp(1000 * (Significand(b) - d * whole), d)

Thousandths(b) == IF Exponent(b) = 255 THEN b ELSE Sign(b) * Magnitude(b)

-----------------------------------------------------------------------------
(* parseAddress.                                                           *)

\* The four tables by the first digit of their addresses.
Coil(n) == 1 <= n /\ n <= 9999
DiscreteInput(n) == 10001 <= n /\ n <= 19999
InputRegister(n) == 30001 <= n /\ n <= 39999
HoldingRegister(n) == 40001 <= n /\ n <= 49999

Bit(n) == Coil(n) \/ DiscreteInput(n)

ValidAddress(n, type, write) ==
  /\ Bit(n) \/ InputRegister(n) \/ HoldingRegister(n)
  /\ Bit(n) <=> type = "BOOL"
  /\ write => Coil(n) \/ HoldingRegister(n)

ReadFC(n) == CASE Coil(n) -> 1
               [] DiscreteInput(n) -> 2
               [] HoldingRegister(n) -> 3
               [] InputRegister(n) -> 4

ZeroBased(n) == CASE Coil(n) -> n - 1
                  [] DiscreteInput(n) -> n - 10001
                  [] HoldingRegister(n) -> n - 40001
                  [] InputRegister(n) -> n - 30001

-----------------------------------------------------------------------------
(* Protocol data units.                                                    *)

Quantity(type) == IF type = "REAL" THEN 2 ELSE 1

ReadPDU(n, type) ==
  LET z == ZeroBased(n)
      q == Quantity(type)
  IN  <<ReadFC(n), HighByte(z), LowByte(z), HighByte(q), LowByte(q)>>

WritePDU(n, type, value, order) ==
  LET z == ZeroBased(n)
      w == IF type = "BOOL" THEN IF value # 0 THEN 65280 ELSE 0 ELSE ToWord(value)
      b == FromIEEEBytes(value, order)
  IN  IF type = "REAL"
      THEN <<16, HighByte(z), LowByte(z), 0, 2, 4, b[1], b[2], b[3], b[4]>>
      ELSE <<IF type = "BOOL" THEN 5 ELSE 6, HighByte(z), LowByte(z), HighByte(w), LowByte(w)>>

\* A frame: the header with the transaction, and the data unit.
HeaderLength == 7
Frame(tx, unit, pdu) ==
  LET length == Len(pdu) + 1 IN
  <<HighByte(tx), LowByte(tx), 0, 0, HighByte(length), LowByte(length), unit>> \o pdu

\* What request accepts as the header of its answer, and the bytes that follow.
AnyTransaction(h, tx, unit) ==
  Uint16(h[3], h[4]) = 0 /\ h[7] = unit
OwnHeader(h, tx, unit) ==
  Uint16(h[1], h[2]) = tx /\ Uint16(h[3], h[4]) = 0 /\ h[7] = unit
GoodHeader(h, tx, unit) ==
  /\ OwnHeader(h, tx, unit)
  /\ Uint16(h[5], h[6]) \in 2..253
BodyLength(h) == Uint16(h[5], h[6]) - 1

IsException(resp, pdu) == Len(resp) >= 2 /\ resp[1] = pdu[1] + 128

\* What Read accepts as a value of its type.
GoodRead(resp, fc, type) ==
  /\ Len(resp) >= 2 /\ resp[1] = fc /\ Len(resp) = 2 + resp[2]
  /\ CASE type = "BOOL" -> resp[2] >= 1
       [] type = "INT"  -> resp[2] = 2
       [] type = "REAL" -> resp[2] = 4

\* The value of an answer GoodRead accepts.
ReadValue(resp, type, order) ==
  CASE type = "BOOL" -> resp[3] % 2
    [] type = "INT"  -> FromWord(Uint16(resp[3], resp[4]))
    [] type = "REAL" -> Thousandths(ToIEEEBytes(<<resp[3], resp[4], resp[5], resp[6]>>, order))

\* What Write accepts: the echo of what was asked for.
GoodWrite(resp, pdu) ==
  IF pdu[1] = 16
  THEN resp = <<16, pdu[2], pdu[3], 0, 2>>
  ELSE resp = pdu
=============================================================================
