---------------------------- MODULE ModbusProofs ----------------------------
(***************************************************************************)
(* Machine-checked proofs about what the Modbus driver puts into a frame   *)
(* and takes out of one (ModbusCodec), for every value and every address,  *)
(* and about the stream of a connection (ModbusLink), for every unit,      *)
(* input and order of late answers.                                        *)
(***************************************************************************)
EXTENDS ModbusLink, SequenceTheorems, TLAPS

LEMMA WordBytes ==
  ASSUME NEW w \in Word
  PROVE  /\ HighByte(w) \in Byte /\ LowByte(w) \in Byte
         /\ Uint16(HighByte(w), LowByte(w)) = w
BY DEF Word, Byte, HighByte, LowByte, Uint16

LEMMA BytesOfWord ==
  ASSUME NEW h \in Byte, NEW l \in Byte
  PROVE  /\ Uint16(h, l) \in Word
         /\ HighByte(Uint16(h, l)) = h /\ LowByte(Uint16(h, l)) = l
BY DEF Word, Byte, HighByte, LowByte, Uint16

\* A REAL comes back as it was sent, in every order of its bytes.
THEOREM FloatOrderRoundTrip ==
  ASSUME NEW a, NEW b, NEW c, NEW d, NEW order \in Float32Order
  PROVE  ToIEEEBytes(FromIEEEBytes(<<a, b, c, d>>, order), order) = <<a, b, c, d>>
BY DEF Float32Order, ToIEEEBytes, FromIEEEBytes

\* An INT comes back as it was sent, negative ones as well.
THEOREM Int16RoundTrip ==
  ASSUME NEW i \in Int16
  PROVE  ToWord(i) \in Word /\ FromWord(ToWord(i)) = i
<1>1. i \in Int /\ -32768 <= i /\ i <= 32767
  BY DEF Int16
<1>2. CASE i < 0
  BY <1>1, <1>2 DEF Word, ToWord, FromWord
<1>3. CASE ~(i < 0)
  BY <1>1, <1>3 DEF Word, ToWord, FromWord
<1>. QED BY <1>2, <1>3

\* The table an address is in, and its number there.
LEMMA TableOf ==
  ASSUME NEW n \in Nat, NEW t, NEW w \in BOOLEAN, ValidAddress(n, t, w)
  PROVE  /\ w => ReadFC(n) \in {1, 3}
         /\ \/ 1 <= n /\ n <= 9999 /\ ReadFC(n) = 1 /\ ZeroBased(n) = n - 1 /\ t = "BOOL"
            \/ 10001 <= n /\ n <= 19999 /\ ReadFC(n) = 2 /\ ZeroBased(n) = n - 10001 /\ t = "BOOL"
            \/ 30001 <= n /\ n <= 39999 /\ ReadFC(n) = 4 /\ ZeroBased(n) = n - 30001 /\ t # "BOOL"
            \/ 40001 <= n /\ n <= 49999 /\ ReadFC(n) = 3 /\ ZeroBased(n) = n - 40001 /\ t # "BOOL"
<1>1. /\ Coil(n) \/ DiscreteInput(n) \/ InputRegister(n) \/ HoldingRegister(n)
      /\ (Coil(n) \/ DiscreteInput(n)) <=> t = "BOOL"
      /\ w => Coil(n) \/ HoldingRegister(n)
  BY DEF ValidAddress, Bit
<1>2. CASE Coil(n)
  BY <1>1, <1>2 DEF ReadFC, ZeroBased, Coil, DiscreteInput, HoldingRegister, InputRegister
<1>3. CASE DiscreteInput(n)
  BY <1>1, <1>3 DEF ReadFC, ZeroBased, Coil, DiscreteInput, HoldingRegister, InputRegister
<1>4. CASE InputRegister(n)
  BY <1>1, <1>4 DEF ReadFC, ZeroBased, Coil, DiscreteInput, HoldingRegister, InputRegister
<1>5. CASE HoldingRegister(n)
  BY <1>1, <1>5 DEF ReadFC, ZeroBased, Coil, DiscreteInput, HoldingRegister, InputRegister
<1>. QED BY <1>1, <1>2, <1>3, <1>4, <1>5

\* Two addresses of points never name the same bit or register: what the
\* driver asks the device for determines the address.
THEOREM AddressesAreDistinct ==
  ASSUME NEW n \in Nat, NEW m \in Nat, NEW t, NEW u, NEW v \in BOOLEAN, NEW w \in BOOLEAN,
         ValidAddress(n, t, v), ValidAddress(m, u, w),
         ReadFC(n) = ReadFC(m), ZeroBased(n) = ZeroBased(m)
  PROVE  n = m
BY TableOf

\* What is written is read back from where it was written: the read asks for the
\* same table (coils are written with function 5 and read with 1, holding registers
\* with 6 or 16 and 3), for the same two bytes of address in it, which are those of
\* the point, and for as many registers as a REAL was written to.
THEOREM ReadBackFromSameCell ==
  ASSUME NEW n \in Nat, NEW t \in DataType, NEW value, NEW order,
         ValidAddress(n, t, TRUE)
  PROVE  LET w == WritePDU(n, t, value, order)
             r == ReadPDU(n, t)
         IN  /\ \/ w[1] = 5 /\ r[1] = 1
                \/ w[1] \in {6, 16} /\ r[1] = 3
             /\ Base(w[1]) = Base(r[1])
             /\ w[2] = r[2] /\ w[3] = r[3]
             /\ Base(r[1]) + Uint16(r[2], r[3]) = n
             /\ w[1] = 16 => w[4] = r[4] /\ w[5] = r[5]
             /\ w[1] # 16 => r[4] = 0 /\ r[5] = 1
<1>1. \/ t = "BOOL" /\ ReadFC(n) = 1 /\ ZeroBased(n) = n - 1 /\ 1 <= n /\ n <= 9999
      \/ t # "BOOL" /\ ReadFC(n) = 3 /\ ZeroBased(n) = n - 40001 /\ 40001 <= n /\ n <= 49999
  <2>1. \/ Coil(n) /\ t = "BOOL"
        \/ HoldingRegister(n) /\ t # "BOOL"
    BY DEF ValidAddress, Bit, Coil, DiscreteInput, InputRegister, HoldingRegister
  <2>2. CASE Coil(n) /\ t = "BOOL"
    BY <2>2 DEF ReadFC, ZeroBased, Coil, DiscreteInput, HoldingRegister, InputRegister
  <2>3. CASE HoldingRegister(n) /\ t # "BOOL"
    BY <2>3 DEF ReadFC, ZeroBased, Coil, DiscreteInput, HoldingRegister, InputRegister
  <2>. QED BY <2>1, <2>2, <2>3
<1>. DEFINE z == ZeroBased(n)
            w == WritePDU(n, t, value, order)
            r == ReadPDU(n, t)
<1>2. z \in Word
  BY <1>1 DEF Word
<1>. HIDE DEF z
<1>3. Uint16(HighByte(z), LowByte(z)) = z
  BY <1>2, WordBytes
<1>4. /\ r[1] = ReadFC(n) /\ r[2] = HighByte(z) /\ r[3] = LowByte(z)
      /\ r[4] = 0 /\ r[5] = IF t = "REAL" THEN 2 ELSE 1
  BY DEF ReadPDU, Quantity, HighByte, LowByte, z
<1>5. /\ w[1] = (IF t = "REAL" THEN 16 ELSE IF t = "BOOL" THEN 5 ELSE 6)
      /\ w[2] = HighByte(z) /\ w[3] = LowByte(z)
      /\ t = "REAL" => w[4] = 0 /\ w[5] = 2
  BY DEF WritePDU, z
<1>. HIDE DEF w, r
<1>6. CASE t = "BOOL"
  <2>1. w[1] = 5 /\ r[1] = 1 /\ z = n - 1
    BY <1>1, <1>4, <1>5, <1>6 DEF z
  <2>2. Base(r[1]) = 1 /\ Base(w[1]) = 1
    BY <2>1 DEF Base
  <2>3. w[1] # 16 /\ r[4] = 0 /\ r[5] = 1
    BY <1>4, <1>6, <2>1
  <2>4. Base(r[1]) + Uint16(r[2], r[3]) = n
    <3>1. Uint16(r[2], r[3]) = z /\ z \in Int
      BY <1>2, <1>3, <1>4 DEF Word
    <3>2. n = 1 + z
      BY <2>1
    <3>. QED BY <2>2, <3>1, <3>2
  <2>. QED BY <1>4, <1>5, <2>1, <2>2, <2>3, <2>4 DEF w, r
<1>7. CASE t # "BOOL"
  <2>1. w[1] \in {6, 16} /\ r[1] = 3 /\ z = n - 40001
    BY <1>1, <1>4, <1>5, <1>7 DEF z
  <2>2. Base(r[1]) = 40001 /\ Base(w[1]) = 40001
    BY <2>1 DEF Base
  <2>3. w[1] = 16 <=> t = "REAL"
    BY <1>5, <1>7
  <2>4. Base(r[1]) + Uint16(r[2], r[3]) = n
    <3>1. Uint16(r[2], r[3]) = z /\ z \in Int
      BY <1>2, <1>3, <1>4 DEF Word
    <3>. QED BY <2>1, <2>2, <3>1
  <2>. QED BY <1>4, <1>5, <2>1, <2>2, <2>3, <2>4 DEF w, r
<1>. QED BY <1>6, <1>7

\* The seven bytes in front of a data unit.
LEMMA HeaderOf ==
  ASSUME NEW tx \in Word, NEW unit, NEW length \in Word, NEW h,
         h = <<HighByte(tx), LowByte(tx), 0, 0, HighByte(length), LowByte(length), unit>>
  PROVE  /\ Uint16(h[1], h[2]) = tx /\ Uint16(h[3], h[4]) = 0
         /\ Uint16(h[5], h[6]) = length /\ h[7] = unit
BY WordBytes DEF Uint16

\* The header of an answer is accepted by the request it answers and by no
\* other: an answer that is late, but read from its beginning, is refused.
THEOREM HeaderIsOwn ==
  ASSUME NEW tx \in Word, NEW own \in Word, NEW unit, NEW length \in 2..253, NEW h,
         h = <<HighByte(tx), LowByte(tx), 0, 0, HighByte(length), LowByte(length), unit>>
  PROVE  /\ GoodHeader(h, own, unit) <=> tx = own
         /\ BodyLength(h) = length - 1
<1>1. length \in Word
  BY DEF Word
<1>2. /\ Uint16(h[1], h[2]) = tx /\ Uint16(h[3], h[4]) = 0
      /\ Uint16(h[5], h[6]) = length /\ h[7] = unit
  BY <1>1, WordBytes DEF Uint16
<1>. QED BY <1>2 DEF GoodHeader, OwnHeader, BodyLength

\* The device's answer to a read of one register gives the INT it holds.
THEOREM IntIsRead ==
  ASSUME NEW i \in Int16, NEW fc \in {3, 4}, NEW order
  PROVE  LET w == ToWord(i)
             resp == <<fc, 2, HighByte(w), LowByte(w)>>
         IN  GoodRead(resp, fc, "INT") /\ ReadValue(resp, "INT", order) = i
<1>1. ToWord(i) \in Word /\ FromWord(ToWord(i)) = i
  BY Int16RoundTrip
<1>2. Uint16(HighByte(ToWord(i)), LowByte(ToWord(i))) = ToWord(i)
  BY <1>1, WordBytes
<1>. QED BY <1>1, <1>2 DEF GoodRead, ReadValue

LEMMA DivisionFacts ==
  ASSUME NEW m \in Nat, NEW d \in Nat, d > 0
  PROVE  /\ m \div d \in Nat
         /\ d * (m \div d) <= m
         /\ m < d * (m \div d) + d
BY Z3

\* Rounding to thousandths goes to the nearest one, and a half upwards.
LEMMA HalfUpIsNearest ==
  ASSUME NEW n \in Nat, NEW h \in Nat, h > 0
  PROVE  /\ HalfUp(n, 2 * h) \in Nat
         /\ n - h < 2 * h * HalfUp(n, 2 * h)
         /\ 2 * h * HalfUp(n, 2 * h) <= n + h
<1>. DEFINE d == 2 * h
            q == HalfUp(n, d)
<1>1. d \in Nat /\ d > 0 /\ d \div 2 = h
  OBVIOUS
<1>2. q = (n + h) \div d
  BY <1>1 DEF HalfUp
<1>3. n + h \in Nat /\ d \in Int
  BY <1>1
<1>. HIDE DEF d
<1>4. q \in Nat /\ d * q <= n + h /\ n + h < d * q + d
  <2>. HIDE DEF q
  <2>. QED BY <1>1, <1>2, <1>3, DivisionFacts
<1>. HIDE DEF q
<1>5. d = 2 * h
  BY DEF d
<1>6. n - h < d * q
  BY <1>1, <1>4, <1>5
<1>. QED BY <1>4, <1>5, <1>6 DEF q

\* A REAL of a size that needs rounding, between 2^-12 and 2^23 or so, is rounded to
\* a nearest thousandth: off by at most half of one.
LEMMA MagnitudeIsNearest ==
  ASSUME NEW b \in Real32, 150 - Exponent(b) \in 1..34,
         NEW h \in Nat, h > 0, 2^(150 - Exponent(b)) = 2 * h
  PROVE  /\ 1000 * Significand(b) - h < 2 * h * Magnitude(b)
         /\ 2 * h * Magnitude(b) <= 1000 * Significand(b) + h
<1>. DEFINE s == Significand(b)
            d == 2 * h
            whole == s \div d
            part == 1000 * (s - d * whole)
            q == HalfUp(part, d)
<1>1. s \in Nat
  <2>1. b[2] \in 0..255 /\ b[3] \in 0..255 /\ b[4] \in 0..255
    BY DEF Real32, Byte
  <2>2. b[2] % 128 \in 0..127
    BY <2>1
  <2>3. (b[2] % 128) + (IF Exponent(b) = 0 THEN 0 ELSE 128) \in 0..255
    BY <2>2
  <2>4. PICK x \in 0..255 : x = (b[2] % 128) + (IF Exponent(b) = 0 THEN 0 ELSE 128)
    BY <2>3
  <2>5. s = 65536 * x + 256 * b[3] + b[4]
    BY <2>4 DEF Significand
  <2>. HIDE DEF s
  <2>6. x \in Nat /\ b[3] \in Nat /\ b[4] \in Nat
    BY <2>1
  <2>7. 65536 * x \in Nat /\ 256 * b[3] \in Nat
    BY <2>6
  <2>. QED BY <2>5, <2>6, <2>7
<1>. HIDE DEF s
<1>2. d \in Nat /\ d > 0
  OBVIOUS
<1>3. whole \in Nat /\ d * whole <= s
  BY <1>1, <1>2, DivisionFacts
<1>4. Magnitude(b) = 1000 * whole + q
  BY DEF Magnitude, s
<1>. HIDE DEF whole
<1>5. part \in Nat
  <2>1. d * whole \in Nat
    BY <1>2, <1>3
  <2>. QED BY <1>1, <1>3, <2>1
<1>6. q \in Nat /\ part - h < d * q /\ d * q <= part + h
  BY <1>5, HalfUpIsNearest
<1>. HIDE DEF q
<1>7. d * Magnitude(b) = 1000 * (d * whole) + d * q
  BY <1>2, <1>3, <1>4, <1>6
<1>. HIDE DEF d
<1>8. d * whole \in Nat /\ d * q \in Nat
  BY <1>2, <1>3, <1>6
<1>9. part = 1000 * s - 1000 * (d * whole)
  BY <1>1, <1>8
<1>. QED BY <1>1, <1>5, <1>6, <1>7, <1>8, <1>9 DEF d, s

\* ... and of two registers that a REAL was written to, this REAL rounded to
\* thousandths, in every order of its bytes.
THEOREM RealIsRead ==
  ASSUME NEW a, NEW b, NEW c, NEW d, NEW fc \in {3, 4}, NEW order \in Float32Order
  PROVE  LET x == FromIEEEBytes(<<a, b, c, d>>, order)
             resp == <<fc, 4, x[1], x[2], x[3], x[4]>>
         IN  /\ GoodRead(resp, fc, "REAL")
             /\ ReadValue(resp, "REAL", order) = Thousandths(<<a, b, c, d>>)
<1>. DEFINE x == FromIEEEBytes(<<a, b, c, d>>, order)
            resp == <<fc, 4, x[1], x[2], x[3], x[4]>>
<1>1. x = <<x[1], x[2], x[3], x[4]>>
  BY DEF FromIEEEBytes, Float32Order
<1>2. ToIEEEBytes(x, order) = <<a, b, c, d>>
  BY FloatOrderRoundTrip
<1>. HIDE DEF x
<1>3. GoodRead(resp, fc, "REAL")
  BY DEF GoodRead
<1>4. <<resp[3], resp[4], resp[5], resp[6]>> = x
  BY <1>1
<1>5. ReadValue(resp, "REAL", order) = Thousandths(ToIEEEBytes(x, order))
  BY <1>4 DEF ReadValue
<1>. QED BY <1>2, <1>3, <1>5 DEF x

-----------------------------------------------------------------------------
(* Frames.                                                                 *)

LEMMA FrameBytes ==
  ASSUME NEW tx \in Word, NEW unit \in Byte, NEW pdu \in Seq(Byte), Len(pdu) \in 2..10
  PROVE  LET f == Frame(tx, unit, pdu) IN
         /\ f \in Seq(Byte) /\ Len(f) = 7 + Len(pdu)
         /\ f[1] = HighByte(tx) /\ f[2] = LowByte(tx) /\ f[3] = 0 /\ f[4] = 0
         /\ f[5] = 0 /\ f[6] = Len(pdu) + 1 /\ f[7] = unit
         /\ \A i \in 8..Len(f) : f[i] = pdu[i - 7]
<1>. DEFINE l == Len(pdu) + 1
            h == <<HighByte(tx), LowByte(tx), 0, 0, HighByte(l), LowByte(l), unit>>
<1>1. HighByte(l) = 0 /\ LowByte(l) = l /\ l \in Byte
  <2>. HIDE DEF h
  <2>1. \A n \in 2..10 : n + 1 \in 3..11
    OBVIOUS
  <2>2. l \in 3..11
    BY <2>1, Zenon
  <2>. HIDE DEF l
  <2>. QED BY <2>2 DEF HighByte, LowByte, Byte
<1>2. HighByte(tx) \in Byte /\ LowByte(tx) \in Byte /\ 0 \in Byte
  BY WordBytes DEF Byte
<1>3. h \in Seq(Byte) /\ Len(h) = 7
  BY <1>1, <1>2
<1>4. Frame(tx, unit, pdu) = h \o pdu
  BY DEF Frame
<1>5. h[1] = HighByte(tx) /\ h[2] = LowByte(tx) /\ h[3] = 0 /\ h[4] = 0 /\ h[5] = 0 /\ h[6] = l /\ h[7] = unit
  BY <1>1
<1>. HIDE DEF h
<1>6. /\ h \o pdu \in Seq(Byte) /\ Len(h \o pdu) = 7 + Len(pdu)
      /\ \A i \in 1 .. 7 + Len(pdu) : (h \o pdu)[i] = IF i <= 7 THEN h[i] ELSE pdu[i - 7]
  <2>1. /\ h \o pdu \in Seq(Byte) /\ Len(h \o pdu) = Len(h) + Len(pdu)
        /\ \A i \in 1 .. Len(h) + Len(pdu) :
             (h \o pdu)[i] = IF i <= Len(h) THEN h[i] ELSE pdu[i - Len(h)]
    BY <1>3, ConcatProperties, Zenon
  <2>. QED BY <1>3, <2>1
<1>. QED BY <1>4, <1>5, <1>6

LEMMA DropBytes ==
  ASSUME NEW S, NEW s \in Seq(S), NEW k \in 0..Len(s)
  PROVE  /\ Drop(s, k) \in Seq(S) /\ Len(Drop(s, k)) = Len(s) - k
         /\ \A i \in 1..(Len(s) - k) : Drop(s, k)[i] = s[i + k]
<1>1. Len(s) \in Nat /\ k \in Nat /\ \A i \in k + 1 .. Len(s) : s[i] \in S
  BY ElementOfSeq
<1>2. /\ SubSeq(s, k + 1, Len(s)) \in Seq(S)
      /\ Len(SubSeq(s, k + 1, Len(s))) = IF k + 1 <= Len(s) THEN Len(s) - (k + 1) + 1 ELSE 0
      /\ \A i \in 1 .. Len(s) - (k + 1) + 1 : SubSeq(s, k + 1, Len(s))[i] = s[(k + 1) + i - 1]
  BY <1>1, SubSeqProperties
<1>3. ASSUME NEW i \in 1..(Len(s) - k) PROVE SubSeq(s, k + 1, Len(s))[i] = s[i + k]
  <2>1. i \in 1 .. Len(s) - (k + 1) + 1 /\ (k + 1) + i - 1 = i + k
    BY <1>1
  <2>. QED BY <1>2, <2>1
<1>. QED BY <1>1, <1>2, <1>3 DEF Drop

LEMMA PrefixBytes ==
  ASSUME NEW S, NEW s \in Seq(S), NEW k \in 0..Len(s)
  PROVE  /\ SubSeq(s, 1, k) \in Seq(S) /\ Len(SubSeq(s, 1, k)) = k
         /\ \A i \in 1..k : SubSeq(s, 1, k)[i] = s[i]
<1>1. Len(s) \in Nat /\ k \in Nat /\ \A i \in 1 .. k : s[i] \in S
  BY ElementOfSeq
<1>2. /\ SubSeq(s, 1, k) \in Seq(S)
      /\ Len(SubSeq(s, 1, k)) = IF 1 <= k THEN k - 1 + 1 ELSE 0
      /\ \A i \in 1 .. k - 1 + 1 : SubSeq(s, 1, k)[i] = s[1 + i - 1]
  BY <1>1, SubSeqProperties
<1>3. ASSUME NEW i \in 1..k PROVE SubSeq(s, 1, k)[i] = s[i]
  <2>1. i \in 1 .. k - 1 + 1 /\ 1 + i - 1 = i
    BY <1>1
  <2>. QED BY <1>2, <2>1
<1>. QED BY <1>1, <1>2, <1>3

\* The data unit of a frame is the frame without its header.
LEMMA UnitOfFrame ==
  ASSUME NEW tx \in Word, NEW unit \in Byte, NEW pdu \in Seq(Byte), Len(pdu) \in 2..10
  PROVE  Drop(Frame(tx, unit, pdu), HeaderLength) = pdu
<1>. DEFINE f == Frame(tx, unit, pdu)
            d == Drop(f, 7)
<1>1. f \in Seq(Byte) /\ Len(f) = 7 + Len(pdu) /\ \A i \in 8..Len(f) : f[i] = pdu[i - 7]
  BY FrameBytes
<1>. HIDE DEF f
<1>2. 7 \in 0..Len(f) /\ Len(pdu) \in Nat
  BY <1>1
<1>3. d \in Seq(Byte) /\ Len(d) = Len(f) - 7 /\ \A i \in 1..(Len(f) - 7) : d[i] = f[i + 7]
  BY <1>1, <1>2, DropBytes
<1>. HIDE DEF d
<1>4. Len(d) = Len(pdu)
  BY <1>1, <1>2, <1>3
<1>5. ASSUME NEW i \in 1 .. Len(d) PROVE d[i] = pdu[i]
  <2>1. i \in 1..(Len(f) - 7) /\ i + 7 \in 8..Len(f) /\ (i + 7) - 7 = i
    BY <1>1, <1>2, <1>3
  <2>. QED BY <1>1, <1>3, <2>1
<1>6. d = pdu
  BY <1>3, <1>4, <1>5, SeqEqual
<1>. QED BY <1>6 DEF HeaderLength, d, f

-----------------------------------------------------------------------------
(* The stream: which answer each byte of the wire belongs to.              *)

\* The data units a device answers with.
AnswerPDU(p) ==
  /\ p \in Seq(Byte) /\ Len(p) \in 2..6
  /\ \/ Len(p) = 2 /\ p[2] = 2
     \/ Len(p) = 3 /\ p[1] \in {1, 2}
     \/ Len(p) = 4 /\ p[1] \in {3, 4} /\ p[2] = 2
     \/ Len(p) = 6 /\ p[1] \in {3, 4} /\ p[2] = 4
     \/ Len(p) = 5 /\ p[1] = 5 /\ p[4] \in {0, 255} /\ p[5] = 0
     \/ Len(p) = 5 /\ p[1] = 6
     \/ Len(p) = 5 /\ p[1] = 16 /\ p[4] = 0 /\ p[5] = 2

\* An answer is the number of its request and a data unit; its bytes.
IsAnswer(a) == a.tx \in Word /\ AnswerPDU(a.pdu)
Size(a) == 7 + Len(a.pdu)
ByteAt(a, i) ==
  IF i = 1 THEN HighByte(a.tx)
  ELSE IF i = 2 THEN LowByte(a.tx)
  ELSE IF i \in 3..5 THEN 0
  ELSE IF i = 6 THEN Len(a.pdu) + 1
  ELSE IF i = 7 THEN UnitId
  ELSE a.pdu[i - 7]

\* Byte i of w is byte pos[i] of the answer src[i]: the stream is the end of one
\* answer and then whole answers, in the order of their requests.
Layout(w, src, pos) ==
  /\ w \in Seq(Byte)
  /\ \A i \in 1..Len(w) :
       /\ IsAnswer(src[i]) /\ pos[i] \in 1..Size(src[i])
       /\ w[i] = ByteAt(src[i], pos[i])
       /\ \A k \in 0..(Size(src[i]) - pos[i]) :
            i + k <= Len(w) /\ src[i + k] = src[i] /\ pos[i + k] = pos[i] + k
  /\ \A i \in 1..Len(w) : i < Len(w) /\ pos[i] = Size(src[i])
       => pos[i + 1] = 1 /\ src[i].tx < src[i + 1].tx
  /\ \A i, k \in 1..Len(w) : i <= k => src[i].tx <= src[k].tx

LEMMA SizeType ==
  ASSUME NEW a, IsAnswer(a)
  PROVE  Len(a.pdu) \in 2..6 /\ Size(a) \in 9..13
<1>1. Len(a.pdu) \in 2..6
  BY DEF IsAnswer, AnswerPDU
<1>2. \A n \in 2..6 : 7 + n \in 9..13
  OBVIOUS
<1>. QED BY <1>1, <1>2 DEF Size

\* Reading bytes leaves a stream.
Shifted(f, n, k) == [i \in 1..(n - k) |-> f[i + k]]

LEMMA LayoutDrop ==
  ASSUME NEW w, NEW src, NEW pos, Layout(w, src, pos), NEW k \in 0..Len(w)
  PROVE  Layout(Drop(w, k), Shifted(src, Len(w), k), Shifted(pos, Len(w), k))
<1>. DEFINE n == Len(w)
            v == Drop(w, k)
            s == Shifted(src, n, k)
            q == Shifted(pos, n, k)
<1>1. w \in Seq(Byte) /\ n \in Nat /\ k \in Nat /\ k <= n
  BY DEF Layout
<1>2. v \in Seq(Byte) /\ Len(v) = n - k /\ \A i \in 1..(n - k) : v[i] = w[i + k]
  BY <1>1, DropBytes
<1>3. \A i \in 1..(n - k) : i + k \in 1..n /\ s[i] = src[i + k] /\ q[i] = pos[i + k]
  BY <1>1 DEF Shifted
<1>4. /\ \A i \in 1..n :
            /\ IsAnswer(src[i]) /\ pos[i] \in 1..Size(src[i])
            /\ w[i] = ByteAt(src[i], pos[i])
            /\ \A j \in 0..(Size(src[i]) - pos[i]) :
                 i + j <= n /\ src[i + j] = src[i] /\ pos[i + j] = pos[i] + j
      /\ \A i \in 1..n : i < n /\ pos[i] = Size(src[i])
            => pos[i + 1] = 1 /\ src[i].tx < src[i + 1].tx
      /\ \A i, j \in 1..n : i <= j => src[i].tx <= src[j].tx
  BY DEF Layout
<1>. HIDE DEF n, v, s, q
<1>5. ASSUME NEW i \in 1..(n - k)
      PROVE  /\ IsAnswer(s[i]) /\ q[i] \in 1..Size(s[i])
             /\ v[i] = ByteAt(s[i], q[i])
             /\ \A j \in 0..(Size(s[i]) - q[i]) :
                  i + j <= n - k /\ s[i + j] = s[i] /\ q[i + j] = q[i] + j
  <2>1. /\ IsAnswer(s[i]) /\ q[i] \in 1..Size(s[i]) /\ v[i] = ByteAt(s[i], q[i])
    BY <1>2, <1>3, <1>4
  <2>2. ASSUME NEW j \in 0..(Size(s[i]) - q[i])
        PROVE  i + j <= n - k /\ s[i + j] = s[i] /\ q[i + j] = q[i] + j
    <3>1. Size(s[i]) \in Nat /\ q[i] \in Nat
      BY <2>1, SizeType
    <3>2. (i + k) + j <= n /\ src[(i + k) + j] = src[i + k] /\ pos[(i + k) + j] = pos[i + k] + j
      BY <1>3, <1>4
    <3>3. j \in Nat /\ i + j \in 1..(n - k) /\ (i + j) + k = (i + k) + j
      BY <1>1, <3>1, <3>2
    <3>. QED BY <1>3, <3>2, <3>3
  <2>. QED BY <2>1, <2>2
<1>6. ASSUME NEW i \in 1..(n - k), i < n - k, q[i] = Size(s[i])
      PROVE  q[i + 1] = 1 /\ s[i].tx < s[i + 1].tx
  <2>1. i + k < n /\ i + 1 \in 1..(n - k) /\ (i + 1) + k = (i + k) + 1
    BY <1>1, <1>6
  <2>. QED BY <1>3, <1>4, <1>6, <2>1
<1>7. ASSUME NEW i \in 1..(n - k), NEW j \in 1..(n - k), i <= j PROVE s[i].tx <= s[j].tx
  <2>1. i + k <= j + k
    BY <1>1, <1>7
  <2>. QED BY <1>3, <1>4, <2>1
<1>8. Layout(v, s, q)
  BY <1>2, <1>5, <1>6, <1>7 DEF Layout
<1>. QED BY <1>8 DEF n, v, s, q

\* An answer to a later request at the end leaves a stream.
LEMMA LayoutAppend ==
  ASSUME NEW w, NEW src, NEW pos, Layout(w, src, pos),
         NEW a, IsAnswer(a), \A i \in 1..Len(w) : src[i].tx < a.tx,
         NEW f \in Seq(Byte), Len(f) = Size(a), \A i \in 1..Len(f) : f[i] = ByteAt(a, i)
  PROVE  LET n == Len(w) IN
         Layout(w \o f, [i \in 1..(n + Size(a)) |-> IF i <= n THEN src[i] ELSE a],
                        [i \in 1..(n + Size(a)) |-> IF i <= n THEN pos[i] ELSE i - n])
<1>. DEFINE n == Len(w)
            m == Size(a)
            v == w \o f
            s == [i \in 1..(n + m) |-> IF i <= n THEN src[i] ELSE a]
            q == [i \in 1..(n + m) |-> IF i <= n THEN pos[i] ELSE i - n]
<1>1. w \in Seq(Byte) /\ n \in Nat /\ m \in 9..13
  BY SizeType DEF Layout
<1>2. /\ v \in Seq(Byte) /\ Len(v) = n + m
      /\ \A i \in 1..n : v[i] = w[i]
      /\ \A i \in (n + 1)..(n + m) : v[i] = f[i - n]
  <2>1. /\ w \o f \in Seq(Byte) /\ Len(w \o f) = Len(w) + Len(f)
        /\ \A i \in 1 .. Len(w) + Len(f) : (w \o f)[i] = IF i <= Len(w) THEN w[i] ELSE f[i - Len(w)]
    BY <1>1, ConcatProperties, Zenon
  <2>2. /\ v \in Seq(Byte) /\ Len(v) = n + m
        /\ \A i \in 1 .. n + m : v[i] = IF i <= n THEN w[i] ELSE f[i - n]
    BY <2>1
  <2>. HIDE DEF v, n, m
  <2>. QED BY <1>1, <2>2
<1>3. /\ \A i \in 1..n : s[i] = src[i] /\ q[i] = pos[i]
      /\ \A i \in (n + 1)..(n + m) : s[i] = a /\ q[i] = i - n
  BY <1>1
<1>4. /\ \A i \in 1..n :
            /\ IsAnswer(src[i]) /\ pos[i] \in 1..Size(src[i])
            /\ w[i] = ByteAt(src[i], pos[i])
            /\ \A j \in 0..(Size(src[i]) - pos[i]) :
                 i + j <= n /\ src[i + j] = src[i] /\ pos[i + j] = pos[i] + j
      /\ \A i \in 1..n : i < n /\ pos[i] = Size(src[i])
            => pos[i + 1] = 1 /\ src[i].tx < src[i + 1].tx
      /\ \A i, j \in 1..n : i <= j => src[i].tx <= src[j].tx
  BY DEF Layout
<1>5. \A i \in 1..n : src[i].tx < a.tx /\ src[i].tx \in Nat /\ a.tx \in Nat
  BY <1>4 DEF IsAnswer, Word
<1>6. \A i \in 1..m : f[i] = ByteAt(a, i)
  OBVIOUS
<1>7. a.tx \in Nat
  BY DEF IsAnswer, Word
<1>. HIDE DEF n, v, s, q, m
<1>8. ASSUME NEW i \in 1..(n + m)
      PROVE  /\ IsAnswer(s[i]) /\ q[i] \in 1..Size(s[i])
             /\ v[i] = ByteAt(s[i], q[i])
             /\ \A j \in 0..(Size(s[i]) - q[i]) :
                  i + j <= n + m /\ s[i + j] = s[i] /\ q[i + j] = q[i] + j
  <2>1. CASE i <= n
    <3>1. i \in 1..n
      BY <1>1, <2>1
    <3>2. IsAnswer(s[i]) /\ q[i] \in 1..Size(s[i]) /\ v[i] = ByteAt(s[i], q[i])
      BY <1>1, <1>2, <1>3, <1>4, <3>1
    <3>3. ASSUME NEW j \in 0..(Size(s[i]) - q[i])
          PROVE  i + j <= n + m /\ s[i + j] = s[i] /\ q[i + j] = q[i] + j
      <4>1. i + j <= n /\ src[i + j] = src[i] /\ pos[i + j] = pos[i] + j
        BY <1>3, <1>4, <3>1
      <4>2. j \in Nat
        BY <3>2, SizeType
      <4>3. i + j \in 1..n
        BY <1>1, <3>1, <4>1, <4>2
      <4>. QED BY <1>1, <1>3, <3>1, <4>1, <4>3
    <3>. QED BY <3>2, <3>3
  <2>2. CASE ~(i <= n)
    <3>1. i \in (n + 1)..(n + m) /\ i - n \in 1..m
      BY <1>1, <2>2
    <3>2. s[i] = a /\ q[i] = i - n /\ v[i] = f[i - n]
      BY <1>1, <1>2, <1>3, <3>1
    <3>3. IsAnswer(s[i]) /\ q[i] \in 1..Size(s[i]) /\ v[i] = ByteAt(s[i], q[i])
      BY <1>6, <3>1, <3>2 DEF m
    <3>4. ASSUME NEW j \in 0..(m - (i - n))
          PROVE  i + j <= n + m /\ s[i + j] = s[i] /\ q[i + j] = q[i] + j
      <4>1. i + j \in (n + 1)..(n + m) /\ (i + j) - n = (i - n) + j
        BY <1>1, <3>1
      <4>. QED BY <1>1, <1>3, <3>2, <4>1
    <3>. QED BY <3>2, <3>3, <3>4 DEF m
  <2>. QED BY <1>1, <2>1, <2>2
<1>9. ASSUME NEW i \in 1..(n + m), i < n + m, q[i] = Size(s[i])
      PROVE  q[i + 1] = 1 /\ s[i].tx < s[i + 1].tx
  <2>1. CASE i < n
    <3>1. i \in 1..n /\ i + 1 \in 1..n
      BY <1>1, <2>1
    <3>. QED BY <1>3, <1>4, <1>9, <2>1, <3>1
  <2>2. CASE i = n
    <3>1. i \in 1..n /\ i + 1 \in (n + 1)..(n + m) /\ (i + 1) - n = 1
      BY <1>1, <2>2
    <3>. QED BY <1>3, <1>5, <3>1
  <2>3. CASE i > n
    <3>1. i \in (n + 1)..(n + m)
      BY <1>1, <2>3
    <3>2. s[i] = a /\ q[i] = i - n
      BY <1>3, <3>1
    <3>3. i - n = m
      BY <1>9, <3>2 DEF m
    <3>. QED BY <1>1, <1>9, <3>1, <3>3
  <2>. QED BY <1>1, <2>1, <2>2, <2>3
<1>10. ASSUME NEW i \in 1..(n + m), NEW j \in 1..(n + m), i <= j PROVE s[i].tx <= s[j].tx
  <2>1. CASE j <= n
    <3>1. i \in 1..n /\ j \in 1..n
      BY <1>1, <1>10, <2>1
    <3>. QED BY <1>3, <1>4, <1>10, <3>1
  <2>2. CASE i <= n /\ n < j
    <3>1. i \in 1..n /\ j \in (n + 1)..(n + m)
      BY <1>1, <2>2
    <3>. QED BY <1>3, <1>5, <3>1
  <2>3. CASE n < i
    <3>1. i \in (n + 1)..(n + m) /\ j \in (n + 1)..(n + m)
      BY <1>1, <1>10, <2>3
    <3>. QED BY <1>3, <1>7, <3>1
  <2>. QED BY <1>1, <2>1, <2>2, <2>3
<1>11. Layout(v, s, q)
  BY <1>2, <1>8, <1>9, <1>10 DEF Layout
<1>. QED BY <1>11 DEF n, v, s, q, m

LEMMA AnswerBytes ==
  ASSUME NEW a, IsAnswer(a)
  PROVE  /\ ByteAt(a, 1) = HighByte(a.tx) /\ ByteAt(a, 2) = LowByte(a.tx)
         /\ ByteAt(a, 3) = 0 /\ ByteAt(a, 4) = 0 /\ ByteAt(a, 5) = 0
         /\ ByteAt(a, 6) = Len(a.pdu) + 1 /\ ByteAt(a, 6) \in 3..7
         /\ ByteAt(a, 7) = UnitId /\ UnitId \in 1..247
         /\ \A i \in 1..Len(a.pdu) : ByteAt(a, 7 + i) = a.pdu[i]
         /\ \A i \in 1..Size(a) : ByteAt(a, i) \in Byte
<1>1. Len(a.pdu) \in 2..6 /\ Len(a.pdu) + 1 \in 3..7 /\ a.pdu \in Seq(Byte) /\ a.tx \in Word
  <2>1. \A n \in 2..6 : n + 1 \in 3..7
    OBVIOUS
  <2>. QED BY <2>1, SizeType DEF IsAnswer, AnswerPDU
<1>2. UnitId \in 1..247
  BY ModbusLinkAssumption
<1>3. \A i \in 1..Len(a.pdu) : ByteAt(a, 7 + i) = a.pdu[i]
  BY <1>1 DEF ByteAt
<1>4. HighByte(a.tx) \in Byte /\ LowByte(a.tx) \in Byte
  BY <1>1, WordBytes
<1>5. \A i \in 1..Len(a.pdu) : a.pdu[i] \in Byte
  BY <1>1, ElementOfSeq
<1>6. ASSUME NEW i \in 1..Size(a) PROVE ByteAt(a, i) \in Byte
  <2>1. CASE i <= 7
    <3>1. i \in {1, 2, 3, 4, 5, 6, 7}
      BY <1>1, <2>1 DEF Size
    <3>. QED BY <1>1, <1>2, <1>4, <3>1 DEF ByteAt, Byte
  <2>2. CASE i > 7
    <3>1. i - 7 \in 1..Len(a.pdu) /\ ByteAt(a, i) = a.pdu[i - 7]
      BY <1>1, <2>2 DEF ByteAt, Size
    <3>. QED BY <1>5, <3>1
  <2>. QED BY <1>1, <2>1, <2>2 DEF Size
<1>. QED BY <1>1, <1>2, <1>3, <1>6 DEF ByteAt

\* What the seven bytes of a header say when it is accepted.
LEMMA TwoBytes ==
  ASSUME NEW a \in Byte, NEW b \in Byte
  PROVE  /\ Uint16(a, b) = 256 * a + b
         /\ Uint16(a, b) = 0 => a = 0 /\ b = 0
         /\ Uint16(a, b) \in 2..253 => a = 0 /\ b \in 2..253 /\ Uint16(a, b) = b
BY DEF Byte, Uint16

LEMMA HeaderSays ==
  ASSUME NEW h, \A i \in 1..7 : h[i] \in Byte, NEW t, GoodHeader(h, t, UnitId)
  PROVE  /\ t = 256 * h[1] + h[2] /\ h[3] = 0 /\ h[4] = 0 /\ h[5] = 0
         /\ h[6] \in 2..253 /\ h[7] = UnitId /\ BodyLength(h) = h[6] - 1
<1>1. /\ h[1] \in Byte /\ h[2] \in Byte /\ h[3] \in Byte /\ h[4] \in Byte /\ h[5] \in Byte
      /\ h[6] \in Byte
  OBVIOUS
<1>2. /\ Uint16(h[1], h[2]) = t /\ Uint16(h[3], h[4]) = 0 /\ h[7] = UnitId
      /\ Uint16(h[5], h[6]) \in 2..253 /\ BodyLength(h) = Uint16(h[5], h[6]) - 1
  BY Zenon DEF GoodHeader, OwnHeader, BodyLength
<1>3. Uint16(h[1], h[2]) = 256 * h[1] + h[2]
  BY <1>1, TwoBytes
<1>4. h[3] = 0 /\ h[4] = 0
  BY <1>1, <1>2, TwoBytes
<1>5. h[5] = 0 /\ h[6] \in 2..253 /\ Uint16(h[5], h[6]) = h[6]
  BY <1>1, <1>2, TwoBytes
<1>. QED BY <1>2, <1>3, <1>4, <1>5, Zenon

\* A header that begins at byte j of the answer F and may end in the next one, G.
HeaderInside(F, j, G, r, h, t) ==
  /\ IsAnswer(F) /\ j \in 2..Size(F) /\ r = Size(F) - j + 1
  /\ \A i \in 1..7 : i <= r => h[i] = ByteAt(F, j + i - 1)
  /\ r < 7 => IsAnswer(G) /\ G.tx <= t /\ \A i \in 1..7 : r < i => h[i] = ByteAt(G, i - r)

\* It is accepted only when five or six bytes of F are left; and then the body it
\* announces is short or the request has one of three numbers.
LEMMA MisreadHeader ==
  ASSUME NEW F, NEW j, NEW G, NEW r, NEW h, NEW t \in Word,
         HeaderInside(F, j, G, r, h, t), GoodHeader(h, t, UnitId)
  PROVE  /\ r \in {5, 6}
         /\ r = 5 => BodyLength(h) \in 1..5
         /\ r = 6 => BodyLength(h) = 1 \/ t \in Clash
<1>0. /\ IsAnswer(F) /\ j \in 2..Size(F) /\ r = Size(F) - j + 1
      /\ \A i \in 1..7 : i <= r => h[i] = ByteAt(F, j + i - 1)
      /\ r < 7 => IsAnswer(G) /\ G.tx <= t /\ \A i \in 1..7 : r < i => h[i] = ByteAt(G, i - r)
  BY DEF HeaderInside
<1>. USE <1>0
<1>. DEFINE n == Len(F.pdu)
            p == F.pdu
            B(i) == ByteAt(F, i)
            C(i) == ByteAt(G, i)
<1>1. n \in 2..6 /\ Size(F) = 7 + n /\ j \in 2..13 /\ r \in 1..12 /\ j = 8 + n - r
  <2>1. n \in 2..6 /\ Size(F) = 7 + n
    BY SizeType DEF Size
  <2>. HIDE DEF n, p
  <2>. QED BY <2>1
<1>2. /\ B(3) = 0 /\ B(4) = 0 /\ B(5) = 0 /\ B(6) \in 3..7 /\ B(7) = UnitId /\ UnitId \in 1..247
      /\ \A i \in 1..n : B(7 + i) = p[i]
      /\ \A i \in 1..Size(F) : B(i) \in Byte
  BY AnswerBytes
<1>3. r < 7 => /\ C(1) = HighByte(G.tx) /\ C(2) = LowByte(G.tx) /\ C(3) = 0 /\ C(4) = 0
               /\ C(5) = 0 /\ \A i \in 1..Size(G) : C(i) \in Byte
  BY AnswerBytes
<1>4. /\ \A i \in 1..7 : i <= r => h[i] = B(j + i - 1)
      /\ r < 7 => \A i \in 1..7 : r < i => h[i] = C(i - r)
  OBVIOUS
<1>5. \/ n = 2 /\ p[2] = 2
      \/ n = 3 /\ p[1] \in {1, 2}
      \/ n = 4 /\ p[1] \in {3, 4} /\ p[2] = 2
      \/ n = 6 /\ p[1] \in {3, 4} /\ p[2] = 4
      \/ n = 5 /\ p[1] = 5 /\ p[4] \in {0, 255} /\ p[5] = 0
      \/ n = 5 /\ p[1] = 6
      \/ n = 5 /\ p[1] = 16 /\ p[4] = 0 /\ p[5] = 2
  BY DEF IsAnswer, AnswerPDU
<1>6. r < 7 => Size(G) >= 9 /\ IsAnswer(G) /\ G.tx <= t
  BY SizeType
<1>. HIDE DEF B, C, n, p
<1>7. \A i \in 1..7 : h[i] \in Byte
  <2>1. ASSUME NEW i \in 1..7, i <= r PROVE h[i] \in Byte
    <3>1. j + i - 1 \in 1..Size(F)
      BY <1>1, <2>1
    <3>. QED BY <1>2, <1>4, <2>1, <3>1
  <2>2. ASSUME NEW i \in 1..7, r < i PROVE h[i] \in Byte
    <3>1. r < 7 /\ i - r \in 1..9
      BY <1>1, <2>2
    <3>2. i - r \in 1..Size(G)
      <4>1. Size(G) \in Nat /\ Size(G) >= 9
        BY <3>1, SizeType
      <4>. QED BY <3>1, <4>1
    <3>. QED BY <1>3, <1>4, <2>2, <3>1, <3>2
  <2>. QED BY <1>1, <2>1, <2>2
<1>8. /\ t = 256 * h[1] + h[2] /\ h[3] = 0 /\ h[4] = 0 /\ h[5] = 0
      /\ h[6] \in 2..253 /\ h[7] = UnitId /\ BodyLength(h) = h[6] - 1
  BY <1>7, HeaderSays
<1>9. h[1] \in Byte /\ h[2] \in Byte
  BY <1>7
<1>10. r \in {1, 2, 3, 4, 5, 6} \/ r \in 7..12
  BY <1>1
<1>11. CASE r = 1
  <2>1. h[6] = C(5)
    BY <1>4, <1>11
  <2>. QED BY <1>3, <1>8, <1>11, <2>1
<1>12. CASE r = 2
  <2>1. h[7] = C(5)
    BY <1>4, <1>12
  <2>. QED BY <1>2, <1>3, <1>8, <1>12, <2>1
<1>13. CASE r = 3
  <2>1. h[7] = C(4)
    BY <1>4, <1>13
  <2>. QED BY <1>2, <1>3, <1>8, <1>13, <2>1
<1>14. CASE r = 4
  <2>1. h[7] = C(3)
    BY <1>4, <1>14
  <2>. QED BY <1>2, <1>3, <1>8, <1>14, <2>1
<1>15. CASE r = 5
  <2>1. /\ h[1] = B(j) /\ h[3] = B(j + 2) /\ h[5] = B(j + 4) /\ j = 3 + n
        /\ h[6] = C(1) /\ G.tx <= t /\ G.tx \in Word
    BY <1>1, <1>4, <1>6, <1>15 DEF IsAnswer
  <2>2. h[1] <= 6
    <3>1. CASE n = 2
      BY <1>2, <1>8, <2>1, <3>1
    <3>2. CASE n = 3
      <4>1. B(8) = p[1] /\ p[1] \in {1, 2}
        BY <1>2, <1>5, <3>2
      <4>. QED BY <1>8, <2>1, <3>2, <4>1
    <3>3. CASE n = 4
      <4>1. B(9) = p[2] /\ p[2] = 2
        BY <1>2, <1>5, <3>3
      <4>. QED BY <1>8, <2>1, <3>3, <4>1
    <3>4. CASE n = 5
      <4>1. B(8) = p[1] /\ B(12) = p[5] /\ (p[1] \in {5, 6} \/ p[5] = 2)
        BY <1>2, <1>5, <3>4
      <4>. QED BY <1>8, <2>1, <3>4, <4>1
    <3>5. CASE n = 6
      <4>1. B(9) = p[2] /\ p[2] = 4
        BY <1>2, <1>5, <3>5
      <4>. QED BY <1>8, <2>1, <3>5, <4>1
    <3>. QED BY <1>1, <3>1, <3>2, <3>3, <3>4, <3>5
  <2>3. h[6] <= h[1]
    <3>1. h[6] = G.tx \div 256
      BY <1>3, <1>15, <2>1 DEF HighByte
    <3>2. G.tx \in Nat /\ G.tx <= 256 * h[1] + h[2] /\ h[1] \in Nat /\ h[2] \in 0..255
      <4>1. G.tx \in Nat
        BY <2>1 DEF Word
      <4>2. h[1] \in Nat /\ h[2] \in 0..255
        BY <1>9 DEF Byte
      <4>. QED BY <1>8, <2>1, <4>1, <4>2
    <3>. QED BY <3>1, <3>2
  <2>4. h[6] - 1 \in 1..5
    BY <1>8, <1>9, <2>2, <2>3 DEF Byte
  <2>. QED BY <1>8, <1>15, <2>4
<1>16. CASE r = 6
  <2>1. /\ h[1] = B(j) /\ h[2] = B(j + 1) /\ h[3] = B(j + 2) /\ h[6] = B(j + 5) /\ j = 2 + n
    BY <1>1, <1>4, <1>16
  <2>2. h[6] = 2 \/ t \in Clash
    <3>1. CASE n = 2
      BY <1>2, <1>8, <2>1, <3>1
    <3>2. CASE n = 3
      BY <1>2, <1>8, <2>1, <3>2
    <3>3. CASE n = 4
      <4>1. B(8) = p[1] /\ p[1] \in {3, 4}
        BY <1>2, <1>5, <3>3
      <4>. QED BY <1>8, <2>1, <3>3, <4>1
    <3>4. CASE n = 5
      <4>1. B(8) = p[1] /\ B(12) = p[5] /\ (p[1] = 6 \/ p[5] \in {0, 2})
        BY <1>2, <1>5, <3>4
      <4>2. h[1] = UnitId /\ h[2] = p[1] /\ h[6] = p[5]
        BY <1>2, <2>1, <3>4, <4>1
      <4>3. CASE p[1] = 6
        <5>1. t = 256 * UnitId + 6
          BY <1>8, <4>2, <4>3
        <5>. QED BY <5>1 DEF Clash
      <4>4. CASE p[5] \in {0, 2}
        BY <1>8, <4>2, <4>4
      <4>. QED BY <4>1, <4>3, <4>4
    <3>5. CASE n = 6
      <4>1. B(8) = p[1] /\ B(9) = p[2] /\ p[1] \in {3, 4} /\ p[2] = 4
        BY <1>2, <1>5, <3>5
      <4>2. t = 256 * p[1] + 4
        BY <1>8, <2>1, <3>5, <4>1
      <4>. QED BY <4>1, <4>2 DEF Clash
    <3>. QED BY <1>1, <3>1, <3>2, <3>3, <3>4, <3>5
  <2>. QED BY <1>8, <1>16, <2>2
<1>17. CASE r \in 7..12
  <2>1. /\ h[3] = B(j + 2) /\ h[4] = B(j + 3) /\ h[5] = B(j + 4)
        /\ j \in {2, 3, 4, 5, 6, 7} /\ j + 6 <= 7 + n
    BY <1>1, <1>4, <1>17
  <2>2. CASE j \in {2, 3, 4}
    BY <1>2, <1>8, <2>1, <2>2
  <2>3. CASE j = 5
    BY <1>2, <1>8, <2>1, <2>3
  <2>4. CASE j = 6
    <3>1. n \in {5, 6} /\ B(8) = p[1]
      BY <1>1, <1>2, <2>1, <2>4
    <3>2. p[1] \in {3, 4, 5, 6, 16}
      BY <1>5, <3>1
    <3>. QED BY <1>8, <2>1, <2>4, <3>1, <3>2
  <2>5. CASE j = 7
    <3>1. n = 6 /\ B(9) = p[2]
      BY <1>1, <1>2, <2>1, <2>5
    <3>2. p[2] = 4
      BY <1>5, <3>1
    <3>. QED BY <1>8, <2>1, <2>5, <3>1, <3>2
  <2>. QED BY <2>1, <2>2, <2>3, <2>4, <2>5
<1>. QED BY <1>10, <1>11, <1>12, <1>13, <1>14, <1>15, <1>16, <1>17

-----------------------------------------------------------------------------
(* The data units of the calls, and what a device makes of them.           *)

ValidCall(c) == c \in Reads \cup Writes /\ ValidAddress(c.n, c.type, c.kind = "write")
Tables == {m \in [Cells -> Word] : \A n \in Cells : Bit(n) => m[n] \in {0, 1}}

LEMMA CallType ==
  ASSUME NEW c, ValidCall(c)
  PROVE  /\ c.n \in Address /\ c.n \in Nat /\ c.n \in Cells /\ c.type \in DataType
         /\ ~Bit(c.n) => c.n + 1 \in Cells
         /\ c.kind \in {"read", "write"}
         /\ c.kind = "write" => /\ c.value \in Input[c.type]
                                /\ c.type = "BOOL" => c.value \in {0, 1}
                                /\ c.type = "INT" => c.value \in Int16
                                /\ c.type = "REAL" => c.value \in Real32
<1>1. /\ c.n \in Address /\ c.type \in DataType /\ c.kind \in {"read", "write"}
      /\ c.kind = "write" => c.value \in Input[c.type]
  <2>1. CASE c \in Reads
    BY <2>1 DEF Reads
  <2>2. CASE c \in Writes
    <3>1. PICK t \in DataType : c \in [kind : {"write"}, n : Address, type : {t}, value : Input[t]]
      BY <2>2 DEF Writes
    <3>. QED BY <3>1
  <2>. QED BY <2>1, <2>2 DEF ValidCall
<1>2. /\ Address \subseteq Nat
      /\ Input["INT"] \subseteq Int16 /\ Input["BOOL"] \subseteq {0, 1} /\ \A b \in Input["REAL"] : b \in Real32
  BY ModbusLinkAssumption
<1>3. c.n \in Cells /\ (~Bit(c.n) => c.n + 1 \in Cells)
  BY <1>1 DEF Cells
<1>. QED BY <1>1, <1>2, <1>3

\* Where the data unit of a call points to, and what it says.
LEMMA CallUnit ==
  ASSUME NEW c, ValidCall(c), NEW p, p = PDU(c)
  PROVE  /\ p \in Seq(Byte) /\ Len(p) \in {5, 10}
         /\ p[1] \in {1, 2, 3, 4, 5, 6, 16}
         /\ Base(p[1]) + Uint16(p[2], p[3]) = c.n
         /\ c.kind = "read" =>
              /\ Len(p) = 5 /\ p[1] = ReadFC(c.n)
              /\ c.type = "BOOL" => p[1] \in {1, 2} /\ Bit(c.n)
              /\ c.type = "INT"  => p[1] \in {3, 4} /\ p[5] = 1 /\ ~Bit(c.n)
              /\ c.type = "REAL" => p[1] \in {3, 4} /\ p[5] = 2 /\ ~Bit(c.n)
         /\ c.kind = "write" =>
              /\ c.type = "BOOL" => /\ Len(p) = 5 /\ p[1] = 5 /\ Bit(c.n)
                                    /\ p[4] = (IF c.value = 1 THEN 255 ELSE 0) /\ p[5] = 0
              /\ c.type = "INT"  => /\ Len(p) = 5 /\ p[1] = 6 /\ ~Bit(c.n)
                                    /\ p[4] = HighByte(ToWord(c.value)) /\ p[5] = LowByte(ToWord(c.value))
              /\ c.type = "REAL" => /\ Len(p) = 10 /\ p[1] = 16 /\ ~Bit(c.n) /\ ~Bit(c.n + 1)
                                    /\ <<p[7], p[8], p[9], p[10]>> = FromIEEEBytes(c.value, Order)
<1>. DEFINE n == c.n
            z == ZeroBased(n)
            fc == ReadFC(n)
<1>1. /\ n \in Nat /\ c.type \in DataType /\ c.kind \in {"read", "write"}
      /\ c.kind = "write" => /\ c.type = "BOOL" => c.value \in {0, 1}
                             /\ c.type = "INT" => c.value \in Int16
                             /\ c.type = "REAL" => c.value \in Real32
  BY CallType
<1>2. /\ c.kind = "write" => fc \in {1, 3}
      /\ \/ 1 <= n /\ n <= 9999 /\ fc = 1 /\ z = n - 1 /\ c.type = "BOOL"
         \/ 10001 <= n /\ n <= 19999 /\ fc = 2 /\ z = n - 10001 /\ c.type = "BOOL"
         \/ 30001 <= n /\ n <= 39999 /\ fc = 4 /\ z = n - 30001 /\ c.type # "BOOL"
         \/ 40001 <= n /\ n <= 49999 /\ fc = 3 /\ z = n - 40001 /\ c.type # "BOOL"
  <2>. DEFINE v == c.kind = "write"
  <2>1. v \in BOOLEAN /\ ValidAddress(n, c.type, v) /\ n \in Nat
    BY <1>1 DEF ValidCall
  <2>2. v <=> c.kind = "write"
    OBVIOUS
  <2>. HIDE DEF v, n, z, fc
  <2>3. /\ v => ReadFC(n) \in {1, 3}
        /\ \/ 1 <= n /\ n <= 9999 /\ ReadFC(n) = 1 /\ ZeroBased(n) = n - 1 /\ c.type = "BOOL"
           \/ 10001 <= n /\ n <= 19999 /\ ReadFC(n) = 2 /\ ZeroBased(n) = n - 10001 /\ c.type = "BOOL"
           \/ 30001 <= n /\ n <= 39999 /\ ReadFC(n) = 4 /\ ZeroBased(n) = n - 30001 /\ c.type # "BOOL"
           \/ 40001 <= n /\ n <= 49999 /\ ReadFC(n) = 3 /\ ZeroBased(n) = n - 40001 /\ c.type # "BOOL"
    BY <2>1, TableOf
  <2>. QED BY <2>2, <2>3 DEF z, fc
<1>3. z \in Word
  BY <1>1, <1>2 DEF Word
<1>4. /\ Bit(n) <=> c.type = "BOOL"
      /\ c.type = "REAL" => ~Bit(n + 1)
  BY <1>1, <1>2 DEF Bit, Coil, DiscreteInput
<1>5. HighByte(z) \in Byte /\ LowByte(z) \in Byte /\ Uint16(HighByte(z), LowByte(z)) = z
  BY <1>3, WordBytes
<1>6. \A x \in Byte, y \in Byte : Uint16(x, y) \in Int
  BY DEF Byte, Uint16
<1>7. CASE c.kind = "read"
  <2>1. p = <<fc, HighByte(z), LowByte(z), HighByte(Quantity(c.type)), LowByte(Quantity(c.type))>>
    BY <1>7 DEF PDU, ReadPDU
  <2>2. /\ HighByte(Quantity(c.type)) = 0
        /\ LowByte(Quantity(c.type)) = IF c.type = "REAL" THEN 2 ELSE 1
    BY DEF HighByte, LowByte, Quantity
  <2>3. Base(fc) + z = n
    BY <1>1, <1>2 DEF Base
  <2>. HIDE DEF n, z, fc
  <2>4. /\ p[1] = fc /\ p[2] = HighByte(z) /\ p[3] = LowByte(z) /\ Len(p) = 5
        /\ p[4] = 0 /\ p[5] = IF c.type = "REAL" THEN 2 ELSE 1
    BY <2>1, <2>2
  <2>5. fc \in Byte /\ p[4] \in Byte /\ p[5] \in Byte
    BY <1>2, <2>4 DEF Byte
  <2>6. p \in Seq(Byte)
    BY <1>5, <2>1, <2>4, <2>5
  <2>7. fc \in {1, 2, 3, 4} /\ (c.type = "BOOL" => fc \in {1, 2}) /\ (c.type # "BOOL" => fc \in {3, 4})
    BY <1>2
  <2>. QED BY <1>4, <1>5, <1>7, <2>3, <2>4, <2>6, <2>7 DEF n, z, fc
<1>8. CASE c.kind = "write" /\ c.type = "REAL"
  <2>. DEFINE b == FromIEEEBytes(c.value, Order)
  <2>1. p = <<16, HighByte(z), LowByte(z), 0, 2, 4, b[1], b[2], b[3], b[4]>>
    BY <1>8 DEF PDU, WritePDU
  <2>2. /\ b = <<b[1], b[2], b[3], b[4]>>
        /\ b[1] \in Byte /\ b[2] \in Byte /\ b[3] \in Byte /\ b[4] \in Byte
    <3>1. /\ c.value[1] \in Byte /\ c.value[2] \in Byte /\ c.value[3] \in Byte /\ c.value[4] \in Byte
          /\ c.value = <<c.value[1], c.value[2], c.value[3], c.value[4]>>
      BY <1>1, <1>8 DEF Real32
    <3>2. Order \in Float32Order
      BY ModbusLinkAssumption
    <3>. QED BY <3>1, <3>2 DEF FromIEEEBytes, Float32Order
  <2>3. Base(16) + z = n
    BY <1>1, <1>2, <1>8 DEF Base
  <2>. HIDE DEF n, z, fc, b
  <2>4. /\ p[1] = 16 /\ p[2] = HighByte(z) /\ p[3] = LowByte(z) /\ Len(p) = 10
        /\ p[7] = b[1] /\ p[8] = b[2] /\ p[9] = b[3] /\ p[10] = b[4]
    BY <2>1
  <2>5. 16 \in Byte /\ 0 \in Byte /\ 2 \in Byte /\ 4 \in Byte
    BY DEF Byte
  <2>6. p \in Seq(Byte)
    BY <1>5, <2>1, <2>2, <2>5
  <2>7. Base(p[1]) + Uint16(p[2], p[3]) = c.n
    BY <1>5, <2>3, <2>4 DEF n
  <2>8. <<p[7], p[8], p[9], p[10]>> = FromIEEEBytes(c.value, Order)
    BY <2>2, <2>4 DEF b
  <2>. QED BY <1>4, <1>8, <2>4, <2>6, <2>7, <2>8 DEF n
<1>9. CASE c.kind = "write" /\ c.type # "REAL"
  <2>. DEFINE w == IF c.type = "BOOL" THEN IF c.value # 0 THEN 65280 ELSE 0 ELSE ToWord(c.value)
              g == IF c.type = "BOOL" THEN 5 ELSE 6
  <2>1. p = <<g, HighByte(z), LowByte(z), HighByte(w), LowByte(w)>>
    BY <1>9 DEF PDU, WritePDU
  <2>2. w \in Word
    <3>1. CASE c.type = "BOOL"
      BY <3>1 DEF Word
    <3>2. CASE c.type # "BOOL"
      BY <1>1, <1>9, <3>2, Int16RoundTrip DEF DataType
    <3>. QED BY <3>1, <3>2
  <2>3. HighByte(w) \in Byte /\ LowByte(w) \in Byte
    BY <2>2, WordBytes
  <2>4. Base(g) + z = n
    BY <1>1, <1>2, <1>9 DEF Base
  <2>5. c.type = "BOOL" => HighByte(w) = (IF c.value = 1 THEN 255 ELSE 0) /\ LowByte(w) = 0
    <3>1. HighByte(65280) = 255 /\ LowByte(65280) = 0 /\ HighByte(0) = 0 /\ LowByte(0) = 0
      BY DEF HighByte, LowByte
    <3>. QED BY <1>1, <1>9, <3>1
  <2>6. c.type = "INT" => w = ToWord(c.value)
    OBVIOUS
  <2>7. g \in {5, 6} /\ g \in Byte /\ (c.type = "BOOL" => g = 5) /\ (c.type = "INT" => g = 6)
    BY DEF Byte
  <2>. HIDE DEF n, z, fc, w, g
  <2>8. /\ p[1] = g /\ p[2] = HighByte(z) /\ p[3] = LowByte(z) /\ Len(p) = 5
        /\ p[4] = HighByte(w) /\ p[5] = LowByte(w)
    BY <2>1
  <2>9. p \in Seq(Byte)
    BY <1>5, <2>1, <2>3, <2>7
  <2>10. Base(p[1]) + Uint16(p[2], p[3]) = c.n
    BY <1>5, <2>4, <2>8 DEF n
  <2>. QED BY <1>1, <1>4, <1>9, <2>5, <2>6, <2>7, <2>8, <2>9, <2>10 DEF n
<1>. QED BY <1>1, <1>7, <1>8, <1>9

\* An answer that was given from these tables, or with an exception.
AnswerTo(m, c, a) ==
  \/ m = Refused /\ Len(a) = 2 /\ a[1] = PDU(c)[1] + 128
  \/ /\ m \in Tables
     /\ IF c.kind = "read"
        THEN GoodRead(a, ReadFC(c.n), c.type) => Shows(m, c.n, c.type, ReadValue(a, c.type, Order))
        ELSE Holds(m, c.n, c.type, c.value)

LEMMA ReadsHold ==
  ASSUME NEW m \in Tables, NEW c, ValidCall(c), c.kind = "read", NEW p, p = PDU(c),
         NEW a, NEW n, n = c.n,
         p[1] \in {1, 2} => a = <<p[1], 1, m[n]>>,
         p[1] \in {3, 4} /\ p[5] = 1 => a = <<p[1], 2, HighByte(m[n]), LowByte(m[n])>>,
         p[1] \in {3, 4} /\ p[5] = 2 =>
            a = <<p[1], 4, HighByte(m[n]), LowByte(m[n]), HighByte(m[n + 1]), LowByte(m[n + 1])>>
  PROVE  AnswerPDU(a) /\ AnswerTo(m, c, a)
<1>1. /\ p[1] = ReadFC(n) /\ n \in Cells /\ c.type \in DataType
      /\ c.type = "BOOL" => p[1] \in {1, 2} /\ Bit(n)
      /\ c.type = "INT"  => p[1] \in {3, 4} /\ p[5] = 1 /\ ~Bit(n)
      /\ c.type = "REAL" => p[1] \in {3, 4} /\ p[5] = 2 /\ ~Bit(n) /\ n + 1 \in Cells
  BY CallUnit, CallType
<1>2. m[n] \in Word /\ (c.type = "BOOL" => m[n] \in {0, 1}) /\ (c.type = "REAL" => m[n + 1] \in Word)
  BY <1>1 DEF Tables
<1>3. HighByte(m[n]) \in Byte /\ LowByte(m[n]) \in Byte /\ Uint16(HighByte(m[n]), LowByte(m[n])) = m[n]
  BY <1>2, WordBytes
<1>4. c.type = "REAL" => HighByte(m[n + 1]) \in Byte /\ LowByte(m[n + 1]) \in Byte
  BY <1>2, WordBytes
<1>5. 1 \in Byte /\ 2 \in Byte /\ 3 \in Byte /\ 4 \in Byte /\ 0 \in Byte
  BY DEF Byte
<1>6. CASE c.type = "BOOL"
  <2>1. a = <<p[1], 1, m[n]>> /\ m[n] \in {0, 1} /\ p[1] \in {1, 2}
    BY <1>1, <1>2, <1>6
  <2>2. AnswerPDU(a)
    <3>1. a \in Seq(Byte) /\ Len(a) = 3 /\ a[1] \in {1, 2}
      BY <1>5, <2>1
    <3>. QED BY <3>1 DEF AnswerPDU
  <2>3. ReadValue(a, "BOOL", Order) = m[n]
    <3>1. a[3] = m[n] /\ a[3] % 2 = m[n]
      BY <2>1
    <3>. QED BY <3>1 DEF ReadValue
  <2>4. Shows(m, n, "BOOL", ReadValue(a, "BOOL", Order))
    BY <2>3 DEF Holds, Shows
  <2>. QED BY <1>6, <2>2, <2>4 DEF AnswerTo
<1>7. CASE c.type = "INT"
  <2>1. a = <<p[1], 2, HighByte(m[n]), LowByte(m[n])>> /\ p[1] \in {3, 4}
    BY <1>1, <1>7
  <2>2. AnswerPDU(a)
    <3>1. a \in Seq(Byte) /\ Len(a) = 4 /\ a[1] \in {3, 4} /\ a[2] = 2
      BY <1>3, <1>5, <2>1
    <3>. QED BY <3>1 DEF AnswerPDU
  <2>3. ReadValue(a, "INT", Order) = FromWord(m[n])
    <3>1. Uint16(a[3], a[4]) = m[n]
      BY <1>3, <2>1
    <3>. QED BY <3>1 DEF ReadValue
  <2>4. (m[n] - FromWord(m[n])) % 65536 = 0
    BY <1>2 DEF FromWord, Word
  <2>5. Shows(m, n, "INT", ReadValue(a, "INT", Order))
    BY <2>3, <2>4 DEF Holds, Shows
  <2>. QED BY <1>7, <2>2, <2>5 DEF AnswerTo
<1>8. CASE c.type = "REAL"
  <2>. DEFINE b == <<HighByte(m[n]), LowByte(m[n]), HighByte(m[n + 1]), LowByte(m[n + 1])>>
  <2>1. /\ a = <<p[1], 4, b[1], b[2], b[3], b[4]>> /\ p[1] \in {3, 4}
        /\ b[1] \in Byte /\ b[2] \in Byte /\ b[3] \in Byte /\ b[4] \in Byte
        /\ b = <<b[1], b[2], b[3], b[4]>>
    BY <1>1, <1>3, <1>4, <1>8
  <2>2. AnswerPDU(a)
    <3>1. a \in Seq(Byte) /\ Len(a) = 6 /\ a[1] \in {3, 4} /\ a[2] = 4
      BY <1>5, <2>1
    <3>. QED BY <3>1 DEF AnswerPDU
  <2>3. ReadValue(a, "REAL", Order) = Thousandths(ToIEEEBytes(b, Order))
    <3>. HIDE DEF b
    <3>1. <<a[3], a[4], a[5], a[6]>> = b
      BY <2>1
    <3>. QED BY <3>1 DEF ReadValue
  <2>4. ToIEEEBytes(b, Order) = RealAt(m, n)
    <3>1. Order \in Float32Order
      BY ModbusLinkAssumption
    <3>2. b = BytesAt(m, n)
      BY DEF BytesAt
    <3>. HIDE DEF b
    <3>. QED BY <2>1, <3>1, <3>2 DEF ToIEEEBytes, RealAt, Letters, Float32Order
  <2>5. Shows(m, n, "REAL", ReadValue(a, "REAL", Order))
    BY <2>3, <2>4 DEF Shows
  <2>. QED BY <1>8, <2>2, <2>5 DEF AnswerTo
<1>. QED BY <1>1, <1>6, <1>7, <1>8 DEF DataType

LEMMA WritesHold ==
  ASSUME memory \in Tables, NEW c, ValidCall(c), c.kind = "write", NEW p, p = PDU(c)
  PROVE  Stored(p) \in Tables /\ Holds(Stored(p), c.n, c.type, c.value)
<1>. DEFINE n == c.n
            v == c.value
            m == Stored(p)
            f == Base(p[1]) + Uint16(p[2], p[3])
<1>1. /\ n \in Cells /\ c.type \in DataType /\ f = n /\ p[1] \in {1, 2, 3, 4, 5, 6, 16}
      /\ c.type = "BOOL" => /\ p[1] = 5 /\ Bit(n) /\ v \in {0, 1}
                            /\ p[4] = (IF v = 1 THEN 255 ELSE 0)
      /\ c.type = "INT"  => /\ p[1] = 6 /\ ~Bit(n) /\ v \in Int16
                            /\ p[4] = HighByte(ToWord(v)) /\ p[5] = LowByte(ToWord(v))
      /\ c.type = "REAL" => /\ p[1] = 16 /\ ~Bit(n) /\ ~Bit(n + 1) /\ n + 1 \in Cells
                            /\ v \in Real32 /\ n \in Nat
                            /\ <<p[7], p[8], p[9], p[10]>> = FromIEEEBytes(v, Order)
  BY CallUnit, CallType
<1>2. memory \in [Cells -> Word] /\ \A x \in Cells : Bit(x) => memory[x] \in {0, 1}
  BY DEF Tables
<1>3. CASE c.type = "BOOL"
  <2>1. m = [memory EXCEPT ![f] = IF p[4] = 255 THEN 1 ELSE 0]
    BY <1>1, <1>3 DEF Stored
  <2>2. m = [memory EXCEPT ![n] = v] /\ v \in {0, 1} /\ v \in Word
    <3>1. v \in {0, 1} /\ f = n /\ (IF p[4] = 255 THEN 1 ELSE 0) = v
      <4>1. v \in {0, 1} /\ f = n /\ p[4] = IF v = 1 THEN 255 ELSE 0
        BY <1>1, <1>3
      <4>. HIDE DEF f, v
      <4>. QED BY <4>1
    <3>2. v \in Word
      BY <3>1 DEF Word
    <3>. HIDE DEF f, v, m, n
    <3>. QED BY <2>1, <3>1, <3>2
  <2>. HIDE DEF m, n, v, f
  <2>3. m \in [Cells -> Word] /\ m[n] = v /\ \A x \in Cells : x # n => m[x] = memory[x]
    BY <1>1, <1>2, <2>2
  <2>4. m \in Tables
    BY <1>2, <2>2, <2>3 DEF Tables
  <2>5. Holds(m, n, "BOOL", v)
    BY <2>3 DEF Holds
  <2>. QED BY <1>3, <2>4, <2>5 DEF m, n, v
<1>4. CASE c.type = "INT"
  <2>1. m = [memory EXCEPT ![f] = Uint16(p[4], p[5])]
    BY <1>1, <1>4 DEF Stored
  <2>2. ToWord(v) \in Word
    BY <1>1, <1>4, Int16RoundTrip
  <2>3. Uint16(p[4], p[5]) = ToWord(v)
    BY <1>1, <1>4, <2>2, WordBytes
  <2>4. (ToWord(v) - v) % 65536 = 0
    <3>1. v \in Int /\ (ToWord(v) - v = 65536 \/ ToWord(v) - v = 0)
      BY <1>1, <1>4 DEF ToWord, Int16
    <3>. QED BY <3>1
  <2>. HIDE DEF m, n, v, f
  <2>5. m \in [Cells -> Word] /\ m[n] = ToWord(v) /\ \A x \in Cells : x # n => m[x] = memory[x]
    BY <1>1, <1>2, <2>1, <2>2, <2>3
  <2>6. m \in Tables
    BY <1>1, <1>2, <1>4, <2>5 DEF Tables
  <2>7. Holds(m, n, "INT", v)
    BY <2>4, <2>5 DEF Holds
  <2>. QED BY <1>4, <2>6, <2>7 DEF m, n, v
<1>5. CASE c.type = "REAL"
  <2>. DEFINE b == FromIEEEBytes(v, Order)
  <2>1. m = [memory EXCEPT ![f] = Uint16(p[7], p[8]), ![f + 1] = Uint16(p[9], p[10])]
    BY <1>1, <1>5 DEF Stored
  <2>2. /\ b[1] \in Byte /\ b[2] \in Byte /\ b[3] \in Byte /\ b[4] \in Byte
        /\ \A i \in 1..4 : b[i] = v[Letters[Order][i]]
    <3>1. v \in Real32 /\ Order \in Float32Order
      BY <1>1, <1>5, ModbusLinkAssumption
    <3>2. v[1] \in Byte /\ v[2] \in Byte /\ v[3] \in Byte /\ v[4] \in Byte
      BY <3>1 DEF Real32
    <3>. HIDE DEF v
    <3>3. b[1] \in Byte /\ b[2] \in Byte /\ b[3] \in Byte /\ b[4] \in Byte
      BY <3>1, <3>2 DEF FromIEEEBytes, Float32Order
    <3>4. CASE Order = "ABCD"
      <4>1. \A i \in 1..4 : b[i] = v[Letters[Order][i]]
        BY <3>4 DEF FromIEEEBytes, Letters
      <4>. QED BY <3>3, <4>1
    <3>5. CASE Order = "BADC"
      <4>1. \A i \in 1..4 : b[i] = v[Letters[Order][i]]
        BY <3>5 DEF FromIEEEBytes, Letters
      <4>. QED BY <3>3, <4>1
    <3>6. CASE Order = "CDAB"
      <4>1. \A i \in 1..4 : b[i] = v[Letters[Order][i]]
        BY <3>6 DEF FromIEEEBytes, Letters
      <4>. QED BY <3>3, <4>1
    <3>7. CASE Order = "DCBA"
      <4>1. \A i \in 1..4 : b[i] = v[Letters[Order][i]]
        BY <3>7 DEF FromIEEEBytes, Letters
      <4>. QED BY <3>3, <4>1
    <3>. QED BY <3>1, <3>3, <3>4, <3>5, <3>6, <3>7 DEF Float32Order
  <2>3. p[7] = b[1] /\ p[8] = b[2] /\ p[9] = b[3] /\ p[10] = b[4]
    <3>1. <<p[7], p[8], p[9], p[10]>> = b
      BY <1>1, <1>5
    <3>. HIDE DEF b
    <3>. QED BY <3>1
  <2>4. /\ Uint16(b[1], b[2]) \in Word /\ HighByte(Uint16(b[1], b[2])) = b[1]
        /\ LowByte(Uint16(b[1], b[2])) = b[2]
        /\ Uint16(b[3], b[4]) \in Word /\ HighByte(Uint16(b[3], b[4])) = b[3]
        /\ LowByte(Uint16(b[3], b[4])) = b[4]
    BY <2>2, BytesOfWord
  <2>. HIDE DEF m, n, v, f, b
  <2>5. /\ m \in [Cells -> Word] /\ m[n] = Uint16(b[1], b[2]) /\ m[n + 1] = Uint16(b[3], b[4])
        /\ \A x \in Cells : x # n /\ x # n + 1 => m[x] = memory[x]
    <3>1. n # n + 1
      BY <1>1, <1>5
    <3>. QED BY <1>1, <1>2, <1>5, <2>1, <2>3, <2>4, <3>1
  <2>6. m \in Tables
    BY <1>1, <1>2, <1>5, <2>5 DEF Tables
  <2>7. Holds(m, n, "REAL", v)
    <3>1. <<HighByte(m[n]), LowByte(m[n]), HighByte(m[n + 1]), LowByte(m[n + 1])>> = <<b[1], b[2], b[3], b[4]>>
      BY <2>4, <2>5
    <3>2. \A i \in 1..4 : <<b[1], b[2], b[3], b[4]>>[i] = b[i]
      OBVIOUS
    <3>. QED BY <2>2, <3>1, <3>2 DEF Holds, BytesAt
  <2>. QED BY <1>5, <2>6, <2>7 DEF m, n, v
<1>. QED BY <1>1, <1>3, <1>4, <1>5 DEF DataType

LEMMA AnswerOf ==
  ASSUME memory \in Tables, NEW c, ValidCall(c), NEW p, p = PDU(c)
  PROVE  Stored(p) \in Tables /\ AnswerPDU(Reply(p)) /\ AnswerTo(Stored(p), c, Reply(p))
<1>1. /\ p \in Seq(Byte) /\ Len(p) \in {5, 10} /\ p[1] \in {1, 2, 3, 4, 5, 6, 16}
      /\ Base(p[1]) + Uint16(p[2], p[3]) = c.n
      /\ c.type \in DataType /\ c.kind \in {"read", "write"}
  BY CallUnit, CallType
<1>2. CASE c.kind = "read"
  <2>1. p[1] \in {1, 2, 3, 4} /\ (p[1] \in {3, 4} => p[5] \in {1, 2})
    BY <1>1, <1>2, CallUnit DEF DataType
  <2>2. Stored(p) = memory
    BY <2>1 DEF Stored
  <2>3. /\ p[1] \in {1, 2} => Reply(p) = <<p[1], 1, memory[c.n]>>
        /\ p[1] \in {3, 4} /\ p[5] = 1 => Reply(p) = <<p[1], 2, HighByte(memory[c.n]), LowByte(memory[c.n])>>
        /\ p[1] \in {3, 4} /\ p[5] = 2 =>
             Reply(p) = <<p[1], 4, HighByte(memory[c.n]), LowByte(memory[c.n]),
                          HighByte(memory[c.n + 1]), LowByte(memory[c.n + 1])>>
    BY <1>1 DEF Reply
  <2>4. AnswerPDU(Reply(p)) /\ AnswerTo(memory, c, Reply(p))
    BY <1>2, <2>3, ReadsHold
  <2>. QED BY <2>2, <2>4
<1>3. CASE c.kind = "write"
  <2>1. Stored(p) \in Tables /\ AnswerTo(Stored(p), c, Reply(p))
    BY <1>3, WritesHold DEF AnswerTo
  <2>2. CASE c.type = "REAL"
    <3>1. p[1] = 16 /\ Reply(p) = <<16, p[2], p[3], 0, 2>>
      BY <1>3, <2>2, CallUnit DEF Reply
    <3>2. p[2] \in Byte /\ p[3] \in Byte /\ 0 \in Byte /\ 2 \in Byte /\ 16 \in Byte
      <4>1. 0 \in Byte /\ 2 \in Byte /\ 16 \in Byte
        BY DEF Byte
      <4>2. p \in Seq(Byte) /\ 2 \in 1..Len(p) /\ 3 \in 1..Len(p)
        BY <1>1
      <4>3. p[2] \in Byte /\ p[3] \in Byte
        BY <4>2, ElementOfSeq
      <4>. QED BY <4>1, <4>3
    <3>3. Reply(p) \in Seq(Byte) /\ Len(Reply(p)) = 5 /\ Reply(p)[1] = 16 /\ Reply(p)[4] = 0 /\ Reply(p)[5] = 2
      BY <3>1, <3>2
    <3>. QED BY <2>1, <3>3 DEF AnswerPDU
  <2>3. CASE c.type # "REAL"
    <3>1. /\ Len(p) = 5 /\ p[1] \in {5, 6} /\ (p[1] = 5 => p[4] \in {0, 255} /\ p[5] = 0)
      BY <1>1, <1>3, <2>3, CallUnit DEF DataType
    <3>2. Reply(p) = p
      BY <3>1 DEF Reply
    <3>. QED BY <1>1, <2>1, <3>1, <3>2 DEF AnswerPDU
  <2>. QED BY <2>2, <2>3, <2>1
<1>. QED BY <1>1, <1>2, <1>3

LEMMA RefusalOf ==
  ASSUME NEW c, ValidCall(c), NEW a, a = <<PDU(c)[1] + 128, 2>>
  PROVE  AnswerPDU(a) /\ AnswerTo(Refused, c, a)
<1>1. PDU(c)[1] \in {1, 2, 3, 4, 5, 6, 16}
  BY CallUnit
<1>2. PDU(c)[1] + 128 \in Byte /\ 2 \in Byte
  BY <1>1 DEF Byte
<1>3. a \in Seq(Byte) /\ Len(a) = 2 /\ a[1] = PDU(c)[1] + 128 /\ a[2] = 2
  BY <1>2
<1>. QED BY <1>3 DEF AnswerPDU, AnswerTo

-----------------------------------------------------------------------------
(* What a call makes of the bytes it takes for its answer.                 *)

LEMMA OwnResult ==
  ASSUME ValidCall(call), NEW m, NEW a, AnswerTo(m, call, a), Result(a).ok
  PROVE  /\ m \in Tables
         /\ IF call.kind = "read" THEN Shows(m, call.n, call.type, Result(a).value)
                                   ELSE Holds(m, call.n, call.type, call.value)
<1>1. ~IsException(a, PDU(call))
  BY DEF Result, Failed
<1>2. m \in Tables
  BY <1>1 DEF AnswerTo, IsException
<1>3. ~(Len(a) = 2 /\ a[1] = PDU(call)[1] + 128)
  BY <1>1 DEF IsException
<1>4. CASE call.kind = "write"
  BY <1>2, <1>3, <1>4 DEF AnswerTo
<1>5. CASE call.kind # "write"
  <2>1. call.kind = "read"
    BY <1>5, CallType
  <2>2. GoodRead(a, ReadFC(call.n), call.type) /\ Result(a).value = ReadValue(a, call.type, Order)
    BY <1>1, <1>5 DEF Result, Failed
  <2>. QED BY <1>2, <1>3, <2>1, <2>2 DEF AnswerTo
<1>. QED BY <1>4, <1>5

\* Bytes that begin with 0, and a single byte, are no answer.
LEMMA NoResult ==
  ASSUME ValidCall(call), NEW resp, Len(resp) \in Nat, Len(resp) = 1 \/ resp[1] = 0
  PROVE  ~Result(resp).ok
<1>. DEFINE p == PDU(call)
<1>1. p \in Seq(Byte) /\ Len(p) \in {5, 10} /\ p[1] \in {1, 2, 3, 4, 5, 6, 16}
  BY CallUnit
<1>2. ~GoodRead(resp, ReadFC(call.n), call.type) \/ call.kind # "read"
  <2>1. call.kind = "read" => ReadFC(call.n) = p[1]
    BY CallUnit
  <2>. HIDE DEF p
  <2>2. GoodRead(resp, ReadFC(call.n), call.type) => Len(resp) >= 2 /\ resp[1] = ReadFC(call.n)
    BY DEF GoodRead
  <2>3. p[1] # 0
    BY <1>1
  <2>4. Len(resp) >= 2 => Len(resp) # 1
    OBVIOUS
  <2>. QED BY <2>1, <2>2, <2>3, <2>4, Zenon
<1>3. ~GoodWrite(resp, p) \/ call.kind # "write"
  <2>1. CASE p[1] = 16
    <3>. DEFINE e == <<16, p[2], p[3], 0, 2>>
    <3>1. Len(e) # 1 /\ e[1] # 0
      OBVIOUS
    <3>2. GoodWrite(resp, p) => resp = e
      BY <2>1 DEF GoodWrite
    <3>. HIDE DEF e
    <3>. QED BY <3>1, <3>2, Zenon
  <2>2. CASE p[1] # 16
    <3>. HIDE DEF p
    <3>1. GoodWrite(resp, p) => resp = p
      BY <2>2 DEF GoodWrite
    <3>2. Len(resp) = 1 \/ resp[1] = 0
      OBVIOUS
    <3>3. resp = p => Len(p) = 1 \/ p[1] = 0
      BY <3>2
    <3>4. Len(p) # 1 /\ p[1] # 0
      <4>1. \A n \in {5, 10} : n # 1
        OBVIOUS
      <4>2. p[1] # 0
        BY <1>1
      <4>. QED BY <1>1, <4>1, <4>2, Zenon
    <3>. QED BY <3>1, <3>3, <3>4, Zenon
  <2>. QED BY <2>1, <2>2
<1>. HIDE DEF p
<1>4. CASE call.kind = "write"
  BY <1>3, <1>4 DEF Result, Failed, p
<1>5. CASE call.kind = "read"
  BY <1>2, <1>5 DEF Result, Failed
<1>. QED BY <1>4, <1>5, CallType

\* Bytes 2 to 6 of an answer are taken for the echo of a write of 3 to 7 to the
\* first holding register, and for no other answer.
LEMMA MisreadBody ==
  ASSUME ValidCall(call), NEW resp,
         Len(resp) >= 2 => resp[2] = 0,
         Len(resp) >= 3 => resp[3] = 0,
         Len(resp) >= 4 => resp[4] = 0,
         Len(resp) >= 5 => resp[5] \in 3..7,
         Len(resp) \in Nat \ {0}, Result(resp).ok
  PROVE  call.kind = "write" /\ call.type = "INT" /\ call.n = 40001 /\ call.value \in 3..7
<1>. DEFINE p == PDU(call)
<1>1. p \in Seq(Byte) /\ Len(p) \in {5, 10} /\ p[1] \in {1, 2, 3, 4, 5, 6, 16}
  BY CallUnit
<1>2. call.kind = "write"
  <2>1. Result(resp).ok => call.kind = "write" \/ GoodRead(resp, ReadFC(call.n), call.type)
    BY DEF Result, Failed
  <2>2. ~GoodRead(resp, ReadFC(call.n), call.type)
    <3>1. CASE Len(resp) >= 2
      <4>1. resp[2] = 0 /\ call.type \in DataType
        BY <3>1, CallType
      <4>2. CASE call.type = "BOOL"
        BY <4>1, <4>2 DEF GoodRead
      <4>3. CASE call.type = "INT"
        BY <4>1, <4>3 DEF GoodRead
      <4>4. CASE call.type = "REAL"
        BY <4>1, <4>4 DEF GoodRead
      <4>. QED BY <4>1, <4>2, <4>3, <4>4 DEF DataType
    <3>2. CASE ~(Len(resp) >= 2)
      BY <3>2 DEF GoodRead
    <3>. QED BY <3>1, <3>2
  <2>. QED BY <2>1, <2>2
<1>3. GoodWrite(resp, p)
  BY <1>2 DEF Result, Failed
<1>4. call.type \in DataType
  BY CallType
<1>5. CASE call.type = "REAL"
  <2>. DEFINE e == <<16, p[2], p[3], 0, 2>>
  <2>1. Len(e) = 5 /\ e[5] = 2
    OBVIOUS
  <2>2. p[1] = 16 /\ resp = e
    BY <1>2, <1>3, <1>5, CallUnit DEF GoodWrite
  <2>3. Len(resp) = 5 /\ resp[5] = 2
    <3>. HIDE DEF e
    <3>. QED BY <2>1, <2>2
  <2>. QED BY <2>3
<1>6. CASE call.type = "BOOL"
  <2>1. Len(p) = 5 /\ p[1] = 5 /\ p[5] = 0
    BY <1>2, <1>6, CallUnit
  <2>. HIDE DEF p
  <2>2. resp = p
    BY <1>3, <2>1 DEF GoodWrite
  <2>3. Len(resp) = 5 /\ resp[5] = 0
    BY <2>1, <2>2
  <2>. QED BY <2>3
<1>7. CASE call.type = "INT"
  <2>1. /\ Len(p) = 5 /\ p[1] = 6 /\ Base(p[1]) + Uint16(p[2], p[3]) = call.n
        /\ p[4] = HighByte(ToWord(call.value)) /\ p[5] = LowByte(ToWord(call.value))
    BY <1>2, <1>7, CallUnit
  <2>2. resp = p
    BY <1>3, <2>1 DEF GoodWrite
  <2>. HIDE DEF p
  <2>3. p[2] = 0 /\ p[3] = 0 /\ p[4] = 0 /\ p[5] \in 3..7
    <3>1. Len(resp) = 5
      BY <2>1, <2>2
    <3>2. resp[2] = 0 /\ resp[3] = 0 /\ resp[4] = 0 /\ resp[5] \in 3..7
      BY <3>1
    <3>. QED BY <2>2, <3>2
  <2>4. call.n = 40001
    BY <2>1, <2>3 DEF Base, Uint16
  <2>5. call.value \in Int16 /\ ToWord(call.value) \in Word
    BY <1>2, <1>7, CallType, Int16RoundTrip
  <2>6. ToWord(call.value) \in 3..7
    BY <2>1, <2>3, <2>5 DEF HighByte, LowByte, Word
  <2>7. call.value \in 3..7
    BY <2>5, <2>6 DEF ToWord, Int16
  <2>. QED BY <1>2, <1>7, <2>4, <2>7
<1>. QED BY <1>4, <1>5, <1>6, <1>7 DEF DataType

-----------------------------------------------------------------------------
(* The front of the stream.                                                *)

\* What is left of the first answer, and the answer after it.
LEMMA FirstAnswers ==
  ASSUME NEW w, NEW src, NEW pos, Layout(w, src, pos), w # << >>,
         NEW r, r = Size(src[1]) - pos[1] + 1
  PROVE  /\ IsAnswer(src[1]) /\ pos[1] \in 1..Size(src[1]) /\ r \in 1..Len(w)
         /\ \A i \in 1..r : src[i] = src[1] /\ w[i] = ByteAt(src[1], pos[1] + i - 1)
         /\ r < Len(w) => LET G == src[r + 1] IN
              /\ IsAnswer(G) /\ src[1].tx < G.tx /\ r + Size(G) <= Len(w)
              /\ \A i \in 1..Size(G) : src[r + i] = G /\ pos[r + i] = i /\ w[r + i] = ByteAt(G, i)
<1>. DEFINE n == Len(w)
            F == src[1]
            G == src[r + 1]
<1>1. n \in Nat /\ n > 0 /\ 1 \in 1..n
  <2>1. w \in Seq(Byte)
    BY DEF Layout
  <2>. QED BY <2>1, EmptySeq
<1>2. /\ \A i \in 1..n :
            /\ IsAnswer(src[i]) /\ pos[i] \in 1..Size(src[i])
            /\ w[i] = ByteAt(src[i], pos[i])
            /\ \A j \in 0..(Size(src[i]) - pos[i]) :
                 i + j <= n /\ src[i + j] = src[i] /\ pos[i + j] = pos[i] + j
      /\ \A i \in 1..n : i < n /\ pos[i] = Size(src[i])
            => pos[i + 1] = 1 /\ src[i].tx < src[i + 1].tx
  BY DEF Layout
<1>3. IsAnswer(F) /\ pos[1] \in 1..Size(F) /\ Size(F) \in 9..13 /\ pos[1] \in Nat /\ r \in 1..13
  <2>1. IsAnswer(F) /\ pos[1] \in 1..Size(F)
    BY <1>1, <1>2
  <2>2. Size(F) \in 9..13
    BY <2>1, SizeType
  <2>. HIDE DEF F
  <2>3. r = Size(F) - pos[1] + 1
    BY DEF F
  <2>4. \A s \in 9..13 : \A k \in 1..s : k \in Nat /\ s - k + 1 \in 1..13
    OBVIOUS
  <2>. QED BY <2>1, <2>2, <2>3, <2>4, Zenon
<1>. HIDE DEF n, F, G
<1>4. r = Size(F) - pos[1] + 1 /\ \A j \in 0..(Size(F) - pos[1]) : 1 + j <= n /\ src[1 + j] = F /\ pos[1 + j] = pos[1] + j
  BY <1>1, <1>2 DEF F
<1>5. \A i \in 1..r : i \in 1..n /\ src[i] = F /\ pos[i] = pos[1] + i - 1
  <2>1. TAKE i \in 1..r
  <2>2. i - 1 \in 0..(Size(F) - pos[1]) /\ 1 + (i - 1) = i
    BY <1>3, <1>4
  <2>. QED BY <1>1, <1>3, <1>4, <2>2
<1>6. \A i \in 1..r : w[i] = ByteAt(F, pos[1] + i - 1)
  BY <1>2, <1>5
<1>7. r \in 1..n /\ pos[r] = Size(F) /\ src[r] = F
  <2>1. r \in 1..r /\ pos[1] + r - 1 = Size(F)
    BY SMTT(30), <1>3, <1>4
  <2>. QED BY <1>5, <2>1
<1>8. ASSUME r < n
      PROVE  /\ IsAnswer(G) /\ F.tx < G.tx /\ r + Size(G) <= n
             /\ \A i \in 1..Size(G) : src[r + i] = G /\ pos[r + i] = i /\ w[r + i] = ByteAt(G, i)
  <2>1. pos[r + 1] = 1 /\ F.tx < G.tx
    BY <1>2, <1>7, <1>8 DEF G
  <2>2. r + 1 \in 1..n
    BY <1>1, <1>7, <1>8
  <2>3. /\ IsAnswer(G)
        /\ \A j \in 0..(Size(G) - 1) : (r + 1) + j <= n /\ src[(r + 1) + j] = G /\ pos[(r + 1) + j] = 1 + j
    BY <1>2, <2>1, <2>2 DEF G
  <2>4. Size(G) \in 9..13
    BY <2>3, SizeType
  <2>5. ASSUME NEW i \in 1..Size(G)
        PROVE  r + i \in 1..n /\ src[r + i] = G /\ pos[r + i] = i /\ w[r + i] = ByteAt(G, i)
    <3>1. i - 1 \in 0..(Size(G) - 1) /\ (r + 1) + (i - 1) = r + i /\ 1 + (i - 1) = i /\ r + i >= 1 /\ r + i \in Int
      <4>1. r \in Nat /\ Size(G) \in Nat /\ i \in Nat /\ i >= 1 /\ i <= Size(G)
        BY <1>3, <1>7, <2>4
      <4>2. i - 1 \in 0..(Size(G) - 1)
        BY <4>1
      <4>. QED BY <4>1, <4>2
    <3>2. r + i <= n /\ src[r + i] = G /\ pos[r + i] = i
      BY <2>3, <3>1
    <3>3. r + i \in 1..n
      BY <1>1, <3>1, <3>2
    <3>. QED BY <1>2, <3>2, <3>3
  <2>6. r + Size(G) <= n
    BY <1>1, <2>4, <2>5
  <2>. QED BY <2>1, <2>3, <2>5, <2>6
<1>. QED BY <1>3, <1>5, <1>6, <1>7, <1>8 DEF n, F, G

\* A header read from the beginning of an answer is accepted by its own request,
\* and what follows is its data unit.
LEMMA AlignedHeader ==
  ASSUME NEW w, NEW src, NEW pos, Layout(w, src, pos), Len(w) >= 7, pos[1] = 1,
         NEW h, \A i \in 1..7 : h[i] = w[i],
         NEW t \in Word, GoodHeader(h, t, UnitId)
  PROVE  /\ src[1].tx = t /\ BodyLength(h) = Size(src[1]) - 7 /\ BodyLength(h) \in 2..6
         /\ Len(w) >= Size(src[1]) /\ src[8] = src[1] /\ pos[8] = 8
<1>. DEFINE n == Len(w)
            F == src[1]
<1>1. w # << >> /\ w \in Seq(Byte) /\ n \in Nat
  <2>1. w \in Seq(Byte)
    BY DEF Layout
  <2>. QED BY <2>1, EmptySeq
<1>2. IsAnswer(F) /\ Len(F.pdu) \in 2..6 /\ Size(F) = 7 + Len(F.pdu) /\ Size(F) \in 9..13
  BY <1>1, FirstAnswers, SizeType DEF Size
<1>3. Size(F) - pos[1] + 1 = Size(F)
  BY <1>2
<1>4. Size(F) \in 1..n /\ \A i \in 1..Size(F) : src[i] = F /\ w[i] = ByteAt(F, pos[1] + i - 1)
  BY <1>1, <1>3, FirstAnswers
<1>5. \A i \in 1..Size(F) : w[i] = ByteAt(F, i)
  BY <1>2, <1>4
<1>6. \A i \in 1..7 : h[i] = ByteAt(F, i) /\ h[i] \in Byte
  <2>1. \A i \in 1..7 : i \in 1..Size(F)
    BY <1>2
  <2>. QED BY <1>2, <1>5, <2>1, AnswerBytes
<1>7. /\ t = 256 * h[1] + h[2] /\ BodyLength(h) = h[6] - 1
  BY <1>6, HeaderSays
<1>8. h[1] = HighByte(F.tx) /\ h[2] = LowByte(F.tx) /\ h[6] = Len(F.pdu) + 1 /\ F.tx \in Word
  BY <1>2, <1>6, AnswerBytes DEF IsAnswer
<1>9. F.tx = t
  <2>1. Uint16(h[1], h[2]) = F.tx
    BY <1>8, WordBytes
  <2>2. Uint16(h[1], h[2]) = t
    BY <1>7 DEF Uint16
  <2>. QED BY <2>1, <2>2
<1>10. src[8] = F /\ pos[8] = 8
  <2>1. 1 \in 1..n /\ 7 \in 0..(Size(F) - pos[1])
    BY SMTT(30), <1>1, <1>2
  <2>2. src[1 + 7] = src[1] /\ pos[1 + 7] = pos[1] + 7
    BY <2>1 DEF Layout
  <2>. QED BY <2>2
<1>11. BodyLength(h) = Size(F) - 7 /\ BodyLength(h) \in 2..6
  BY <1>2, <1>7, <1>8
<1>. QED BY <1>1, <1>2, <1>4, <1>9, <1>10, <1>11

\* A header read from the middle of one on ends in the next answer, and the body
\* it announces is there.
LEMMA MisalignedHeader ==
  ASSUME NEW w, NEW src, NEW pos, Layout(w, src, pos), Len(w) >= 7, pos[1] # 1,
         NEW t \in Word, \A i \in 1..Len(w) : src[i].tx <= t,
         NEW h, \A i \in 1..7 : h[i] = w[i], GoodHeader(h, t, UnitId)
  PROVE  /\ Len(w) >= 14
         /\ \/ pos[8] = 3 /\ BodyLength(h) \in 1..5
            \/ pos[8] = 2 /\ (BodyLength(h) = 1 \/ t \in Clash)
         /\ BodyLength(h) \in 1..252
<1>. DEFINE n == Len(w)
            F == src[1]
            j == pos[1]
            r == Size(F) - j + 1
            G == src[r + 1]
<1>1. w # << >> /\ w \in Seq(Byte) /\ n \in Nat
  <2>1. w \in Seq(Byte)
    BY DEF Layout
  <2>. QED BY <2>1, EmptySeq
<1>2. /\ IsAnswer(F) /\ j \in 1..Size(F) /\ r \in 1..n
      /\ \A i \in 1..r : w[i] = ByteAt(F, j + i - 1)
      /\ r < n => /\ IsAnswer(G) /\ r + Size(G) <= n
                  /\ \A i \in 1..Size(G) : src[r + i] = G /\ pos[r + i] = i /\ w[r + i] = ByteAt(G, i)
  BY <1>1, FirstAnswers
<1>3. Size(F) \in 9..13
  BY <1>2, SizeType
<1>4. r < n => Size(G) \in 9..13
  BY <1>2, SizeType
<1>5. r = Size(F) - j + 1 /\ j # 1
  OBVIOUS
<1>6. \A i \in 1..n : src[i].tx <= t
  OBVIOUS
<1>. HIDE DEF n, F, j, r, G
<1>7. j \in 2..Size(F) /\ r \in Nat /\ n >= 7
  BY <1>2, <1>3, <1>5 DEF n
<1>8. \A i \in 1..7 : i <= r => h[i] = ByteAt(F, j + i - 1)
  BY SMTT(30), <1>2, <1>7
<1>9. r < 7 => IsAnswer(G) /\ G.tx <= t /\ \A i \in 1..7 : r < i => h[i] = ByteAt(G, i - r)
  <2>. SUFFICES ASSUME r < 7 PROVE IsAnswer(G) /\ G.tx <= t /\ \A i \in 1..7 : r < i => h[i] = ByteAt(G, i - r)
    OBVIOUS
  <2>1. r < n /\ r + 1 \in 1..n /\ Size(G) \in 9..13
    BY <1>1, <1>2, <1>4, <1>7
  <2>2. G.tx <= t
    BY <1>6, <2>1 DEF G
  <2>3. ASSUME NEW i \in 1..7, r < i PROVE h[i] = ByteAt(G, i - r)
    <3>1. i - r \in 1..Size(G) /\ r + (i - r) = i
      BY SMTT(30), <1>2, <1>7, <2>1, <2>3
    <3>2. w[r + (i - r)] = ByteAt(G, i - r)
      BY <1>2, <2>1, <3>1
    <3>. QED BY <3>1, <3>2
  <2>. QED BY <1>2, <2>1, <2>2, <2>3
<1>10. /\ r \in {5, 6}
       /\ r = 5 => BodyLength(h) \in 1..5
       /\ r = 6 => BodyLength(h) = 1 \/ t \in Clash
  <2>1. IsAnswer(F) /\ j \in 2..Size(F) /\ r = Size(F) - j + 1
    BY <1>2, <1>5, <1>7
  <2>2. HeaderInside(F, j, G, r, h, t)
    BY <1>8, <1>9, <2>1 DEF HeaderInside
  <2>. QED BY <2>2, MisreadHeader
<1>11. r < n /\ Size(G) \in 9..13 /\ n >= 14
  <2>1. r < n
    <3>1. r = 5 \/ r = 6
      BY <1>10, Zenon
    <3>2. n >= 7 /\ n \in Nat
      BY <1>1, <1>7
    <3>. QED BY <3>1, <3>2
  <2>2. Size(G) \in 9..13 /\ r + Size(G) <= n
    BY <1>2, <1>4, <2>1
  <2>. QED BY <1>1, <1>10, <2>1, <2>2
<1>12. (r = 5 => pos[8] = 3) /\ (r = 6 => pos[8] = 2)
  <2>1. \A i \in 1..Size(G) : pos[r + i] = i
    BY <1>2, <1>11
  <2>2. 3 \in 1..Size(G) /\ 2 \in 1..Size(G)
    BY <1>11
  <2>3. r = 5 => pos[5 + 3] = 3
    BY <2>1, <2>2
  <2>4. r = 6 => pos[6 + 2] = 2
    BY <2>1, <2>2
  <2>. QED BY <2>3, <2>4
<1>13. BodyLength(h) \in 1..252
  <2>1. \A i \in 1..7 : i \in 1..n /\ w[i] \in Byte
    BY <1>1, <1>7, ElementOfSeq DEF n
  <2>2. \A i \in 1..7 : h[i] \in Byte
    BY <2>1
  <2>3. h[6] \in 2..253 /\ BodyLength(h) = h[6] - 1
    BY <2>2, HeaderSays
  <2>. QED BY <2>3
<1>. QED BY <1>10, <1>11, <1>12, <1>13 DEF n

-----------------------------------------------------------------------------
(* The inductive invariant of a connection.                                *)

\* A request on its way holds the data unit of a call; that of the current
\* number, if a call waits, is that call's.
IsRequest(r, number, state, current) ==
  \E c : /\ ValidCall(c) /\ r.frame = Frame(r.tx, UnitId, PDU(c))
         /\ r.tx = number /\ state # "idle" => c = current

InboxOK ==
  /\ inbox \in Seq([tx : Word, frame : Seq(Byte)])
  /\ \A i \in 1..Len(inbox) : inbox[i].tx \in (Earlier + 1)..txID /\ IsRequest(inbox[i], txID, pc, call)
  /\ \A i, k \in 1..Len(inbox) : i < k => inbox[i].tx < inbox[k].tx

\* The stream holds answers to requests that are not in the inbox any more.  A
\* call that waits for a header has the whole of its own answer before it, if any;
\* one that waits for a body is behind the header of its own answer, or, after
\* late bytes, at the second or third byte of some answer.
StreamOK(src, pos) ==
  /\ Layout(wire, src, pos)
  /\ \A i \in 1..Len(wire) :
       /\ src[i].tx <= txID
       /\ \A k \in 1..Len(inbox) : src[i].tx < inbox[k].tx
       /\ pc # "idle" /\ src[i].tx = txID => AnswerTo(served, call, src[i].pdu)
  /\ pc = "header" =>
       /\ dirty => wire # << >> /\ src[1].tx < txID
       /\ ~dirty /\ wire # << >> => pos[1] = 1
  /\ pc = "body" =>
       /\ wire # << >>
       /\ \/ ~dirty /\ pos[1] = 8 /\ src[1].tx = txID /\ need = Size(src[1]) - 7
          \/ dirty /\ pos[1] = 3 /\ need \in 1..5
          \/ dirty /\ pos[1] = 2 /\ need \in 1..252 /\ (need = 1 \/ txID \in Clash)

Types ==
  /\ open \in BOOLEAN /\ dirty \in BOOLEAN
  /\ txID \in Earlier..(Earlier + MaxRequests)
  /\ pc \in {"idle", "header", "body"}
  /\ need \in 0..252
  /\ memory \in Tables
  /\ outcome.ok => pc = "idle"
  /\ pc # "idle" => ValidCall(call)

\* What was there before the request and the answer to it.
BothWait == pc = "header" /\ dirty /\ served # None => Len(wire) >= 10

Results == AnswerIsOwn /\ DirtyFails /\ StaysDirty /\ SuccessDrains

IInv ==
  /\ Types /\ InboxOK /\ BothWait /\ Results
  /\ \E src, pos : StreamOK(src, pos)

LEMMA LayoutEmpty ==
  ASSUME NEW src, NEW pos
  PROVE  Layout(<< >>, src, pos)
BY DEF Layout

LEMMA EmptyWord ==
  ASSUME NEW S, NEW s \in Seq(S)
  PROVE  Len(s) \in Nat /\ (s = << >> <=> Len(s) = 0)
BY EmptySeq

LEMMA WireType ==
  ASSUME NEW src, NEW pos, StreamOK(src, pos)
  PROVE  /\ wire \in Seq(Byte) /\ Len(wire) \in Nat /\ (wire = << >> <=> Len(wire) = 0)
         /\ \A i \in 1..Len(wire) : IsAnswer(src[i]) /\ src[i].tx \in Nat
<1>1. wire \in Seq(Byte) /\ \A i \in 1..Len(wire) : IsAnswer(src[i])
  BY DEF StreamOK, Layout
<1>2. \A i \in 1..Len(wire) : src[i].tx \in Nat
  BY <1>1 DEF IsAnswer, Word
<1>. QED BY <1>1, <1>2, EmptyWord

LEMMA NumberType ==
  ASSUME Types
  PROVE  /\ txID \in Nat /\ txID \in Word /\ Earlier \in Nat
         /\ txID < Earlier + MaxRequests =>
              NextID = txID + 1 /\ NextID \in Word /\ NextID \in Earlier..(Earlier + MaxRequests)
<1>1. Earlier \in Nat /\ MaxRequests \in Nat /\ Earlier + MaxRequests <= 65535
  BY ModbusLinkAssumption
<1>2. txID \in Earlier..(Earlier + MaxRequests)
  BY DEF Types
<1>. QED BY <1>1, <1>2 DEF NextID, Word

\* The request the device takes next, and those behind it.
LEMMA NextRequest ==
  ASSUME Types, InboxOK, inbox # << >>, inbox' = Tail(inbox), UNCHANGED <<txID, pc, call>>
  PROVE  /\ InboxOK'
         /\ Head(inbox) = inbox[1] /\ 1 \in 1..Len(inbox)
         /\ \A k \in 1..Len(inbox)' : inbox'[k] = inbox[k + 1] /\ inbox[1].tx < inbox'[k].tx
         /\ \A k \in 1..Len(inbox)' : k + 1 \in 1..Len(inbox)
<1>. DEFINE R == [tx : Word, frame : Seq(Byte)]
            t == Tail(inbox)
<1>1. inbox \in Seq(R) /\ Len(inbox) \in Nat /\ Len(inbox) # 0
  BY EmptyWord DEF InboxOK
<1>2. /\ t \in Seq(R) /\ Len(t) = Len(inbox) - 1 /\ \A i \in 1..Len(t) : t[i] = inbox[i + 1]
      /\ Head(inbox) = inbox[1]
  BY <1>1
<1>. HIDE DEF R, t
<1>3. /\ \A i \in 1..Len(inbox) : inbox[i].tx \in (Earlier + 1)..txID /\ IsRequest(inbox[i], txID, pc, call)
      /\ \A i, k \in 1..Len(inbox) : i < k => inbox[i].tx < inbox[k].tx
  BY DEF InboxOK
<1>4. \A k \in 1..Len(t) : k + 1 \in 1..Len(inbox) /\ 1 < k + 1 /\ t[k] = inbox[k + 1]
  BY <1>1, <1>2
<1>5. 1 \in 1..Len(inbox)
  BY <1>1
<1>6. \A k \in 1..Len(t) : inbox[1].tx < t[k].tx
  BY <1>3, <1>4, <1>5
<1>7. \A i, k \in 1..Len(t) : i < k => t[i].tx < t[k].tx
  <2>1. \A i, k \in 1..Len(t) : i < k => i + 1 < k + 1
    OBVIOUS
  <2>. QED BY <1>3, <1>4, <2>1
<1>8. \A i \in 1..Len(t) : t[i].tx \in (Earlier + 1)..txID /\ IsRequest(t[i], txID, pc, call)
  BY <1>3, <1>4
<1>9. inbox' = t /\ txID' = txID /\ pc' = pc /\ call' = call
  BY DEF t
<1>10. InboxOK'
  BY <1>2, <1>7, <1>8, <1>9 DEF InboxOK, R
<1>. QED BY <1>2, <1>4, <1>5, <1>6, <1>9, <1>10

LEMMA StreamDropped ==
  ASSUME NEW src, NEW pos, StreamOK(src, pos), NEW k \in 0..Len(wire), wire' = Drop(wire, k)
  PROVE  /\ wire' \in Seq(Byte) /\ Len(wire') \in Nat /\ Len(wire') = Len(wire) - k
         /\ wire' = << >> <=> Len(wire') = 0
         /\ \E s, q : /\ Layout(wire', s, q)
                      /\ \A i \in 1..Len(wire') :
                           i + k \in 1..Len(wire) /\ s[i] = src[i + k] /\ q[i] = pos[i + k]
<1>. DEFINE n == Len(wire)
            v == Drop(wire, k)
            s == Shifted(src, n, k)
            q == Shifted(pos, n, k)
<1>1. Layout(wire, src, pos) /\ wire \in Seq(Byte) /\ n \in Nat
  BY WireType DEF StreamOK
<1>2. Layout(v, s, q)
  BY <1>1, LayoutDrop
<1>3. v \in Seq(Byte) /\ Len(v) = n - k
  BY <1>1, DropBytes
<1>4. Len(v) \in Nat /\ (v = << >> <=> Len(v) = 0)
  BY <1>3, EmptyWord
<1>5. \A i \in 1..(n - k) : i + k \in 1..n /\ s[i] = src[i + k] /\ q[i] = pos[i + k]
  BY <1>1 DEF Shifted
<1>6. wire' = v
  OBVIOUS
<1>. HIDE DEF v, s, q
<1>7. \A i \in 1..Len(v) : i + k \in 1..n /\ s[i] = src[i + k] /\ q[i] = pos[i + k]
  BY <1>3, <1>5
<1>8. Layout(wire', s, q)
      /\ \A i \in 1..Len(wire') : i + k \in 1..Len(wire) /\ s[i] = src[i + k] /\ q[i] = pos[i + k]
  BY <1>2, <1>6, <1>7, Zenon
<1>9. \E s1, q1 : /\ Layout(wire', s1, q1)
                  /\ \A i \in 1..Len(wire') :
                       i + k \in 1..Len(wire) /\ s1[i] = src[i + k] /\ q1[i] = pos[i + k]
  <2>. WITNESS s, q
  <2>. QED BY <1>8
<1>10. /\ wire' \in Seq(Byte) /\ Len(wire') \in Nat /\ Len(wire') = Len(wire) - k
       /\ wire' = << >> <=> Len(wire') = 0
  BY <1>3, <1>4, <1>6
<1>. QED BY <1>9, <1>10, Zenon

\* A call that returns leaves the stream in order, whatever it has read.
LEMMA ReturnKeepsStream ==
  ASSUME NEW src, NEW pos, StreamOK(src, pos), NEW k \in 0..Len(wire), wire' = Drop(wire, k),
         pc' = "idle", txID' = txID, inbox' = inbox
  PROVE  \E s, q : StreamOK(s, q)'
<1>1. PICK s, q : /\ Layout(wire', s, q)
                  /\ \A i \in 1..Len(wire') :
                       i + k \in 1..Len(wire) /\ s[i] = src[i + k] /\ q[i] = pos[i + k]
  BY StreamDropped
<1>2. \A i \in 1..Len(wire) : src[i].tx <= txID /\ \A j \in 1..Len(inbox) : src[i].tx < inbox[j].tx
  BY DEF StreamOK
<1>3. \A i \in 1..Len(wire') : s[i].tx <= txID /\ \A j \in 1..Len(inbox) : s[i].tx < inbox[j].tx
  BY <1>1, <1>2
<1>4. StreamOK(s, q)'
  BY <1>1, <1>3 DEF StreamOK
<1>. QED BY <1>4

LEMMA ReturnKeepsInbox ==
  ASSUME Types, InboxOK, inbox' = inbox, pc' = "idle", txID' \in txID..(Earlier + MaxRequests)
  PROVE  InboxOK'
<1>1. \A i \in 1..Len(inbox) : inbox[i].tx \in (Earlier + 1)..txID /\ IsRequest(inbox[i], txID, pc, call)
  BY DEF InboxOK
<1>2. \A i \in 1..Len(inbox) : IsRequest(inbox[i], txID', pc', call')
  BY <1>1 DEF IsRequest
<1>3. \A i \in 1..Len(inbox) : inbox[i].tx \in (Earlier + 1)..txID'
  <2>1. txID \in Nat /\ Earlier \in Nat /\ MaxRequests \in Nat
    BY NumberType, ModbusLinkAssumption
  <2>. QED BY <1>1, <2>1
<1>. QED BY <1>2, <1>3 DEF InboxOK

\* Late bytes outlast the body that a misread header announces.
LEMMA LateBytesStay ==
  ASSUME NEW src, NEW pos, StreamOK(src, pos), pc = "body", dirty, txID \notin Clash
  PROVE  need \in Nat /\ need < Len(wire)
<1>1. /\ wire # << >> /\ Layout(wire, src, pos)
      /\ \/ pos[1] = 3 /\ need \in 1..5
         \/ pos[1] = 2 /\ need = 1
  BY DEF StreamOK
<1>2. /\ Size(src[1]) \in 9..13
      /\ Size(src[1]) - pos[1] + 1 \in 1..Len(wire)
  <2>. DEFINE r == Size(src[1]) - pos[1] + 1
  <2>1. IsAnswer(src[1]) /\ r \in 1..Len(wire)
    BY <1>1, FirstAnswers
  <2>. QED BY <2>1, SizeType
<1>3. Len(wire) \in Nat
  BY WireType
<1>. QED BY <1>1, <1>2, <1>3

\* When a call fails, only what it leaves behind has to be looked at.
LEMMA FailureKeepsResults ==
  ASSUME outcome' = Failed, StaysDirty'
  PROVE  Results'
BY DEF Results, AnswerIsOwn, DirtyFails, SuccessDrains, Failed

LEMMA TimeoutKeepsInv ==
  ASSUME IInv, NEW k \in Arrived, Timeout(k)
  PROVE  IInv'
<1>1. PICK src, pos : StreamOK(src, pos)
  BY DEF IInv
<1>2. Types /\ InboxOK /\ BothWait
  BY DEF IInv
<1>3. /\ pc # "idle" /\ k < Wanted /\ k <= Len(wire) /\ wire' = Drop(wire, k)
      /\ pc' = "idle" /\ outcome' = Failed /\ need' = 0
      /\ open' = open /\ txID' = txID /\ inbox' = inbox /\ memory' = memory
      /\ served' = served /\ dirty' = dirty
  BY DEF Timeout, Expired, Return, deviceVars
<1>4. k \in 0..Len(wire) /\ k \in Nat /\ Len(wire) \in Nat
  BY <1>1, <1>3, WireType, ModbusLinkAssumption
<1>5. \E s, q : StreamOK(s, q)'
  BY <1>1, <1>3, <1>4, ReturnKeepsStream
<1>6. InboxOK'
  <2>1. txID' \in txID..(Earlier + MaxRequests)
    BY <1>2, <1>3, NumberType, ModbusLinkAssumption DEF Types
  <2>. QED BY <1>2, <1>3, <2>1, ReturnKeepsInbox
<1>7. Types'
  BY <1>2, <1>3 DEF Types, Failed
<1>8. BothWait'
  BY <1>3 DEF BothWait
<1>9. StaysDirty'
  <2>. SUFFICES ASSUME dirty, served # None, txID \notin Clash PROVE wire' # << >>
    BY <1>3 DEF StaysDirty
  <2>1. CASE pc = "header"
    <3>1. k < 7 /\ Len(wire) >= 10
      BY <1>2, <1>3, <2>1 DEF Wanted, HeaderLength, BothWait
    <3>. QED BY <1>1, <1>3, <1>4, <3>1, StreamDropped
  <2>2. CASE pc = "body"
    <3>1. k < need /\ need \in Nat /\ need < Len(wire)
      BY <1>1, <1>3, <2>2, LateBytesStay DEF Wanted
    <3>. QED BY <1>1, <1>3, <1>4, <3>1, StreamDropped
  <2>. QED BY <1>2, <1>3, <2>1, <2>2 DEF Types
<1>10. Results'
  BY <1>3, <1>9, FailureKeepsResults
<1>. QED BY <1>5, <1>6, <1>7, <1>8, <1>10 DEF IInv

LEMMA ReadHeaderKeepsInv ==
  ASSUME IInv, ReadHeader
  PROVE  IInv'
<1>. DEFINE h == SubSeq(wire, 1, HeaderLength)
<1>1. PICK src, pos : StreamOK(src, pos)
  BY DEF IInv
<1>2. Types /\ InboxOK /\ BothWait /\ Results
  BY DEF IInv
<1>3. /\ pc = "header" /\ Len(wire) >= 7 /\ wire' = Drop(wire, 7)
      /\ open' = open /\ txID' = txID /\ inbox' = inbox /\ memory' = memory
      /\ served' = served /\ dirty' = dirty
  BY DEF ReadHeader, HeaderLength, AfterBadHeader, deviceVars
<1>4. 7 \in 0..Len(wire) /\ Len(wire) \in Nat /\ wire \in Seq(Byte) /\ wire # << >>
  BY <1>1, <1>3, WireType
<1>5. /\ wire' \in Seq(Byte) /\ Len(wire') \in Nat /\ Len(wire') = Len(wire) - 7
      /\ wire' = << >> <=> Len(wire') = 0
  BY <1>1, <1>3, <1>4, StreamDropped
<1>6. CASE ~GoodHeader(h, txID, UnitId)
  <2>1. pc' = "idle" /\ outcome' = Failed /\ need' = 0
    BY <1>6 DEF ReadHeader, Return
  <2>2. \E s, q : StreamOK(s, q)'
    BY <1>1, <1>3, <1>4, <2>1, ReturnKeepsStream
  <2>3. InboxOK'
    <3>1. txID' \in txID..(Earlier + MaxRequests)
      BY <1>2, <1>3, NumberType, ModbusLinkAssumption DEF Types
    <3>. QED BY <1>2, <1>3, <2>1, <3>1, ReturnKeepsInbox
  <2>4. Types' /\ BothWait'
    BY <1>2, <1>3, <2>1 DEF Types, BothWait, Failed
  <2>5. StaysDirty'
    BY <1>2, <1>3, <1>5 DEF StaysDirty, BothWait
  <2>. QED BY <2>1, <2>2, <2>3, <2>4, <2>5, FailureKeepsResults DEF IInv
<1>7. CASE GoodHeader(h, txID, UnitId)
  <2>1. pc' = "body" /\ need' = BodyLength(h) /\ call' = call /\ outcome' = outcome
    BY <1>7 DEF ReadHeader
  <2>2. \A i \in 1..7 : h[i] = wire[i]
    BY <1>4, PrefixBytes DEF HeaderLength
  <2>. HIDE DEF h
  <2>3. txID \in Word /\ txID \in Nat
    BY <1>2, NumberType
  <2>4. /\ Layout(wire, src, pos)
        /\ \A i \in 1..Len(wire) :
             /\ src[i].tx <= txID
             /\ \A k \in 1..Len(inbox) : src[i].tx < inbox[k].tx
             /\ src[i].tx = txID => AnswerTo(served, call, src[i].pdu)
        /\ dirty => src[1].tx < txID
        /\ ~dirty => pos[1] = 1
    BY <1>1, <1>3, <1>4 DEF StreamOK
  <2>5. ~dirty => /\ src[8].tx = txID /\ BodyLength(h) = Size(src[8]) - 7 /\ BodyLength(h) \in 2..6
                  /\ pos[8] = 8 /\ Len(wire) >= 9
    <3>. SUFFICES ASSUME ~dirty
                  PROVE  /\ src[8].tx = txID /\ BodyLength(h) = Size(src[8]) - 7 /\ BodyLength(h) \in 2..6
                         /\ pos[8] = 8 /\ Len(wire) >= 9
      OBVIOUS
    <3>1. /\ src[1].tx = txID /\ BodyLength(h) = Size(src[1]) - 7 /\ BodyLength(h) \in 2..6
          /\ Len(wire) >= Size(src[1]) /\ src[8] = src[1] /\ pos[8] = 8
      BY <1>3, <1>7, <2>2, <2>3, <2>4, AlignedHeader
    <3>2. Size(src[1]) \in 9..13
      BY <1>4, <2>4, FirstAnswers, SizeType
    <3>. QED BY <1>4, <3>1, <3>2
  <2>6. dirty => /\ Len(wire) >= 14 /\ BodyLength(h) \in 1..252
                 /\ \/ pos[8] = 3 /\ BodyLength(h) \in 1..5
                    \/ pos[8] = 2 /\ (BodyLength(h) = 1 \/ txID \in Clash)
    <3>. SUFFICES ASSUME dirty
                  PROVE  /\ Len(wire) >= 14 /\ BodyLength(h) \in 1..252
                         /\ \/ pos[8] = 3 /\ BodyLength(h) \in 1..5
                            \/ pos[8] = 2 /\ (BodyLength(h) = 1 \/ txID \in Clash)
      OBVIOUS
    <3>1. pos[1] # 1
      <4>1. src[1].tx \in Nat /\ src[1].tx < txID
        BY <1>1, <1>4, <2>4, WireType
      <4>2. src[1].tx # txID
        BY <2>3, <4>1
      <4>. QED BY <1>3, <1>7, <2>2, <2>3, <2>4, <4>2, AlignedHeader
    <3>2. \A i \in 1..Len(wire) : src[i].tx <= txID
      BY <2>4
    <3>3. Layout(wire, src, pos) /\ Len(wire) >= 7
      BY <1>3, <2>4
    <3>. QED BY <1>7, <2>2, <2>3, <3>1, <3>2, <3>3, MisalignedHeader
  <2>7. PICK s, q : /\ Layout(wire', s, q)
                    /\ \A i \in 1..Len(wire') :
                         i + 7 \in 1..Len(wire) /\ s[i] = src[i + 7] /\ q[i] = pos[i + 7]
    BY <1>1, <1>3, <1>4, StreamDropped
  <2>8. dirty \in BOOLEAN /\ wire' # << >> /\ s[1] = src[8] /\ q[1] = pos[8]
    <3>1. dirty \in BOOLEAN /\ Len(wire) >= 9
      BY <1>2, <1>4, <2>5, <2>6 DEF Types
    <3>2. 1 \in 1..Len(wire')
      BY <1>4, <1>5, <3>1
    <3>3. s[1] = src[1 + 7] /\ q[1] = pos[1 + 7]
      BY <2>7, <3>2
    <3>. QED BY <1>4, <1>5, <3>1, <3>3
  <2>9. StreamOK(s, q)'
    <3>1. \A i \in 1..Len(wire') :
            /\ s[i].tx <= txID
            /\ \A k \in 1..Len(inbox) : s[i].tx < inbox[k].tx
            /\ s[i].tx = txID => AnswerTo(served, call, s[i].pdu)
      BY <2>4, <2>7
    <3>2. \/ ~dirty /\ q[1] = 8 /\ s[1].tx = txID /\ need' = Size(s[1]) - 7
          \/ dirty /\ q[1] = 3 /\ need' \in 1..5
          \/ dirty /\ q[1] = 2 /\ need' \in 1..252 /\ (need' = 1 \/ txID \in Clash)
      BY <2>1, <2>5, <2>6, <2>8
    <3>. QED BY <1>3, <2>1, <2>7, <2>8, <3>1, <3>2 DEF StreamOK
  <2>10. InboxOK'
    BY <1>2, <1>3, <2>1 DEF InboxOK, IsRequest
  <2>11. Types' /\ BothWait'
    <3>1. need' \in 0..252
      BY <2>1, <2>5, <2>6, <2>8
    <3>2. ~outcome.ok
      BY <1>2, <1>3 DEF Types
    <3>. QED BY <1>2, <1>3, <2>1, <3>1, <3>2 DEF Types, BothWait
  <2>12. Results'
    <3>1. ~outcome.ok
      BY <1>2, <1>3 DEF Types
    <3>. QED BY <2>1, <3>1 DEF Results, AnswerIsOwn, DirtyFails, StaysDirty, SuccessDrains
  <2>. QED BY <2>9, <2>10, <2>11, <2>12 DEF IInv
<1>. QED BY <1>6, <1>7

\* On a clean stream the body that is read is the data unit of the own answer.
LEMMA OwnBody ==
  ASSUME NEW src, NEW pos, StreamOK(src, pos), pc = "body", ~dirty, need <= Len(wire)
  PROVE  /\ need \in 2..6 /\ need = Size(src[1]) - pos[1] + 1 /\ IsAnswer(src[1])
         /\ SubSeq(wire, 1, need) = src[1].pdu
         /\ AnswerTo(served, call, src[1].pdu)
<1>. DEFINE F == src[1]
            p == F.pdu
            v == SubSeq(wire, 1, need)
<1>1. /\ Layout(wire, src, pos) /\ wire # << >> /\ pos[1] = 8 /\ F.tx = txID /\ need = Size(F) - 7
      /\ \A i \in 1..Len(wire) : src[i].tx = txID => AnswerTo(served, call, src[i].pdu)
  BY DEF StreamOK
<1>2. wire \in Seq(Byte) /\ Len(wire) \in Nat /\ 1 \in 1..Len(wire)
  BY <1>1, WireType
<1>3. IsAnswer(F) /\ Size(F) = 7 + Len(p) /\ Len(p) \in 2..6 /\ p \in Seq(Byte)
  <2>1. IsAnswer(F)
    BY <1>1, FirstAnswers
  <2>. QED BY <2>1, SizeType DEF Size, IsAnswer, AnswerPDU
<1>4. need = Len(p) /\ need \in 2..6 /\ need = Size(F) - pos[1] + 1
  BY <1>1, <1>3
<1>5. \A i \in 1..need : wire[i] = ByteAt(F, 8 + i - 1)
  BY <1>1, <1>4, FirstAnswers
<1>6. v \in Seq(Byte) /\ Len(v) = need /\ \A i \in 1..need : v[i] = wire[i]
  <2>1. need \in 0..Len(wire)
    BY <1>2, <1>4
  <2>. QED BY <1>2, <2>1, PrefixBytes
<1>7. AnswerTo(served, call, p)
  BY <1>1, <1>2
<1>. HIDE DEF F, p, v
<1>8. \A i \in 1..Len(p) : ByteAt(F, 7 + i) = p[i]
  BY <1>3, AnswerBytes DEF p
<1>9. \A i \in 1..Len(v) : v[i] = p[i]
  <2>1. \A i \in 1..need : 8 + i - 1 = 7 + i
    BY <1>4
  <2>2. \A i \in 1..need : wire[i] = ByteAt(F, 7 + i)
    BY <1>5, <2>1
  <2>. QED BY <1>4, <1>6, <1>8, <2>2
<1>10. v = p
  BY <1>3, <1>4, <1>6, <1>9, SeqEqual
<1>. QED BY <1>3, <1>4, <1>7, <1>10 DEF F, p, v

\* After late bytes only a lookalike succeeds.
LEMMA MisreadResult ==
  ASSUME NEW src, NEW pos, StreamOK(src, pos), pc = "body", dirty, ValidCall(call), need <= Len(wire),
         Result(SubSeq(wire, 1, need)).ok
  PROVE  Lookalike(call)
<1>. DEFINE F == src[1]
            v == SubSeq(wire, 1, need)
<1>1. /\ Layout(wire, src, pos) /\ wire # << >>
      /\ \/ pos[1] = 3 /\ need \in 1..5
         \/ pos[1] = 2 /\ need \in 1..252 /\ (need = 1 \/ txID \in Clash)
  BY DEF StreamOK
<1>2. wire \in Seq(Byte) /\ Len(wire) \in Nat
  BY WireType
<1>3. IsAnswer(F) /\ Size(F) \in 9..13
  BY <1>1, FirstAnswers, SizeType
<1>4. \A i \in 1 .. Size(F) - pos[1] + 1 : wire[i] = ByteAt(F, pos[1] + i - 1)
  BY <1>1, FirstAnswers
<1>5. need \in 1..252 /\ v \in Seq(Byte) /\ Len(v) = need /\ \A i \in 1..need : v[i] = wire[i]
  <2>. HIDE DEF F, v
  <2>1. need \in 1..252 /\ need \in 0..Len(wire)
    <3>1. need \in 1..5 \/ need \in 1..252
      BY <1>1, Zenon
    <3>2. need \in 1..252
      BY <3>1
    <3>3. need <= Len(wire) /\ Len(wire) \in Nat
      BY <1>2
    <3>4. need \in 0..Len(wire)
      BY <3>2, <3>3
    <3>. QED BY <3>2, <3>4
  <2>. QED BY <1>2, <2>1, PrefixBytes DEF v
<1>6. Result(v).ok
  OBVIOUS
<1>7. /\ ByteAt(F, 3) = 0 /\ ByteAt(F, 4) = 0 /\ ByteAt(F, 5) = 0 /\ ByteAt(F, 6) \in 3..7
  BY <1>3, AnswerBytes
<1>. HIDE DEF F, v
<1>8. CASE pos[1] = 3
  <2>1. 1 \in 1 .. Size(F) - pos[1] + 1 /\ pos[1] + 1 - 1 = 3
    BY <1>3, <1>8
  <2>2. v[1] = 0
    BY <1>4, <1>5, <1>7, <2>1
  <2>. QED BY <1>5, <1>6, <2>2, NoResult
<1>9. CASE pos[1] = 2 /\ need = 1
  BY <1>5, <1>6, <1>9, NoResult
<1>10. CASE pos[1] = 2 /\ txID \in Clash
  <2>1. \A i \in 2..5 : i \in 1 .. Size(F) - pos[1] + 1 /\ pos[1] + i - 1 = i + 1
    BY <1>3, <1>10
  <2>2. \A i \in 2..5 : wire[i] = ByteAt(F, i + 1)
    BY <1>4, <2>1
  <2>3. wire[2] = 0 /\ wire[3] = 0 /\ wire[4] = 0 /\ wire[5] \in 3..7
    <3>1. wire[2] = ByteAt(F, 2 + 1) /\ wire[3] = ByteAt(F, 3 + 1) /\ wire[4] = ByteAt(F, 4 + 1) /\ wire[5] = ByteAt(F, 5 + 1)
      BY <2>2
    <3>. QED BY <1>7, <3>1
  <2>4. /\ Len(v) >= 2 => v[2] = 0
        /\ Len(v) >= 3 => v[3] = 0
        /\ Len(v) >= 4 => v[4] = 0
        /\ Len(v) >= 5 => v[5] \in 3..7
        /\ Len(v) \in Nat \ {0}
    BY <1>5, <2>3
  <2>5. call.kind = "write" /\ call.type = "INT" /\ call.n = 40001 /\ call.value \in 3..7
    BY <1>6, <2>4, MisreadBody
  <2>. QED BY <1>10, <2>5 DEF Lookalike
<1>. QED BY <1>1, <1>8, <1>9, <1>10

LEMMA ReadBodyKeepsInv ==
  ASSUME IInv, ReadBody
  PROVE  IInv'
<1>. DEFINE v == SubSeq(wire, 1, need)
            o == Result(v)
<1>1. PICK src, pos : StreamOK(src, pos)
  BY DEF IInv
<1>2. Types /\ InboxOK
  BY DEF IInv
<1>3. /\ pc = "body" /\ Len(wire) >= need /\ wire' = Drop(wire, need)
      /\ pc' = "idle" /\ outcome' = o /\ need' = 0 /\ call' = IF o.ok THEN call ELSE None
      /\ open' = open /\ txID' = txID /\ inbox' = inbox /\ memory' = memory
      /\ served' = served /\ dirty' = dirty
  BY DEF ReadBody, Return, deviceVars
<1>4. need \in 0..Len(wire) /\ need \in Nat /\ Len(wire) \in Nat /\ need <= Len(wire)
  BY <1>1, <1>2, <1>3, WireType DEF Types
<1>5. /\ wire' \in Seq(Byte) /\ Len(wire') \in Nat /\ Len(wire') = Len(wire) - need
      /\ wire' = << >> <=> Len(wire') = 0
  BY <1>1, <1>3, <1>4, StreamDropped
<1>6. \E s, q : StreamOK(s, q)'
  BY <1>1, <1>3, <1>4, ReturnKeepsStream
<1>7. InboxOK'
  <2>1. txID' \in txID..(Earlier + MaxRequests)
    BY <1>2, <1>3, NumberType, ModbusLinkAssumption DEF Types
  <2>. QED BY <1>2, <1>3, <2>1, ReturnKeepsInbox
<1>. HIDE DEF v, o
<1>8. Types' /\ BothWait'
  BY <1>2, <1>3 DEF Types, BothWait
<1>9. StaysDirty'
  <2>. SUFFICES ASSUME dirty, served # None, txID \notin Clash PROVE wire' # << >>
    BY <1>3 DEF StaysDirty
  <2>1. need < Len(wire)
    BY <1>1, <1>3, LateBytesStay
  <2>. QED BY <1>4, <1>5, <2>1
<1>10. ValidCall(call)
  BY <1>2, <1>3 DEF Types
<1>11. ASSUME o.ok, dirty PROVE Lookalike(call)
  BY <1>1, <1>3, <1>4, <1>10, <1>11, MisreadResult DEF o, v
<1>12. ASSUME o.ok, ~dirty
       PROVE  /\ served \notin {None, Refused}
              /\ IF call.kind = "read" THEN Shows(served, call.n, call.type, o.value)
                                        ELSE Holds(served, call.n, call.type, call.value)
              /\ wire' = << >> /\ inbox = << >>
  <2>1. /\ need \in 2..6 /\ need = Size(src[1]) - pos[1] + 1 /\ IsAnswer(src[1])
        /\ v = src[1].pdu /\ AnswerTo(served, call, src[1].pdu)
    BY <1>1, <1>3, <1>4, <1>12, OwnBody DEF v
  <2>2. /\ served \in Tables
        /\ IF call.kind = "read" THEN Shows(served, call.n, call.type, o.value)
                                  ELSE Holds(served, call.n, call.type, call.value)
    BY <1>10, <1>12, <2>1, OwnResult DEF o
  <2>3. served \notin {None, Refused}
    BY <2>2, NoAnswerAssumption DEF Tables
  <2>4. /\ Layout(wire, src, pos) /\ wire # << >> /\ src[1].tx = txID /\ txID \in Nat
        /\ \A i \in 1..Len(wire) : src[i].tx <= txID /\ \A k \in 1..Len(inbox) : src[i].tx < inbox[k].tx
    BY <1>1, <1>2, <1>3, <1>12, NumberType DEF StreamOK
  <2>5. ~(need < Len(wire))
    <3>. SUFFICES ASSUME need < Len(wire) PROVE FALSE
      OBVIOUS
    <3>1. src[1].tx < src[need + 1].tx /\ IsAnswer(src[need + 1])
      BY <2>1, <2>4, FirstAnswers
    <3>2. need + 1 \in 1..Len(wire) /\ src[need + 1].tx \in Nat
      BY <1>4, <3>1 DEF IsAnswer, Word
    <3>. QED BY <2>4, <3>1, <3>2
  <2>6. wire' = << >>
    BY <1>4, <1>5, <2>5
  <2>7. inbox = << >>
    <3>. SUFFICES ASSUME inbox # << >> PROVE FALSE
      OBVIOUS
    <3>1. 1 \in 1..Len(inbox)
      <4>1. Len(inbox) \in Nat /\ Len(inbox) # 0
        BY <1>2, EmptyWord DEF InboxOK
      <4>. QED BY <4>1
    <3>2. inbox[1].tx \in (Earlier + 1)..txID
      BY <1>2, <3>1 DEF InboxOK
    <3>3. 1 \in 1..Len(wire) /\ Earlier \in Nat
      BY <1>4, <2>1, ModbusLinkAssumption
    <3>4. src[1].tx < inbox[1].tx
      BY <2>4, <3>1, <3>3
    <3>. QED BY <2>4, <3>2, <3>3, <3>4
  <2>. QED BY <2>2, <2>3, <2>6, <2>7
<1>13. Results'
  <2>1. CASE ~o.ok
    BY <1>3, <1>9, <2>1 DEF Results, AnswerIsOwn, DirtyFails, SuccessDrains
  <2>2. CASE o.ok
    <3>1. call' = call
      BY <1>3, <2>2
    <3>2. Lookalike(call)' <=> Lookalike(call)
      BY <1>3, <3>1 DEF Lookalike
    <3>3. DirtyFails'
      BY <1>3, <1>11, <2>2, <3>2 DEF DirtyFails
    <3>4. SuccessDrains'
      BY <1>3, <1>12, <2>2 DEF SuccessDrains
    <3>5. AnswerIsOwn'
      BY <1>3, <1>11, <1>12, <2>2, <3>1, <3>2 DEF AnswerIsOwn
    <3>. QED BY <1>9, <3>3, <3>4, <3>5 DEF Results
  <2>. QED BY <2>1, <2>2
<1>. QED BY <1>6, <1>7, <1>8, <1>13 DEF IInv

LEMMA AnswerFrame ==
  ASSUME NEW a, IsAnswer(a), NEW f, f = Frame(a.tx, UnitId, a.pdu)
  PROVE  f \in Seq(Byte) /\ Len(f) = Size(a) /\ \A i \in 1..Len(f) : f[i] = ByteAt(a, i)
<1>. DEFINE t == a.tx
            p == a.pdu
<1>1. t \in Word /\ p \in Seq(Byte) /\ Len(p) \in 2..6 /\ Size(a) = 7 + Len(p)
  BY SizeType DEF IsAnswer, AnswerPDU, Size
<1>2. f = Frame(t, UnitId, p)
  OBVIOUS
<1>. HIDE DEF t, p
<1>3. Len(p) \in 2..10 /\ UnitId \in Byte
  BY <1>1, ModbusLinkAssumption DEF Byte
<1>4. /\ f \in Seq(Byte) /\ Len(f) = 7 + Len(p)
      /\ f[1] = HighByte(t) /\ f[2] = LowByte(t) /\ f[3] = 0 /\ f[4] = 0
      /\ f[5] = 0 /\ f[6] = Len(p) + 1 /\ f[7] = UnitId
      /\ \A i \in 8..Len(f) : f[i] = p[i - 7]
  BY <1>1, <1>2, <1>3, FrameBytes
<1>5. ASSUME NEW i \in 1..Len(f) PROVE f[i] = ByteAt(a, i)
  <2>1. i \in {1, 2, 3, 4, 5, 6, 7} \/ i \in 8..Len(f)
    <3>1. Len(f) \in Nat
      BY <1>1, <1>4
    <3>. QED BY <3>1
  <2>2. CASE i \in {1, 2, 3, 4, 5, 6, 7}
    BY <1>4, <2>2 DEF ByteAt, t, p
  <2>3. CASE i \in 8..Len(f)
    <3>1. ByteAt(a, i) = p[i - 7]
      BY <2>3 DEF ByteAt, p
    <3>. QED BY <1>4, <2>3, <3>1
  <2>. QED BY <2>1, <2>2, <2>3
<1>. QED BY <1>1, <1>4, <1>5

\* While the device works on a request nothing is said about a call that returned.
LEMMA DeviceKeepsResults ==
  ASSUME IInv, inbox # << >>, UNCHANGED <<txID, callVars, dirty>>,
         pc = "idle" => served' = served, wire # << >> => wire' # << >>
  PROVE  Results'
<1>1. /\ txID' = txID /\ pc' = pc /\ call' = call /\ outcome' = outcome /\ dirty' = dirty
      /\ dirty \in BOOLEAN /\ (outcome.ok => pc = "idle")
      /\ AnswerIsOwn /\ DirtyFails /\ StaysDirty /\ SuccessDrains
  BY DEF callVars, IInv, Types, Results
<1>2. Lookalike(call)' <=> Lookalike(call)
  BY <1>1 DEF Lookalike
<1>3. outcome.ok => dirty /\ Lookalike(call)
  BY <1>1 DEF SuccessDrains, DirtyFails
<1>4. AnswerIsOwn' /\ DirtyFails' /\ SuccessDrains'
  BY <1>1, <1>2, <1>3 DEF AnswerIsOwn, DirtyFails, SuccessDrains
<1>5. StaysDirty'
  BY <1>1 DEF StaysDirty
<1>. QED BY <1>4, <1>5 DEF Results

LEMMA DeviceSends ==
  ASSUME IInv, inbox # << >>, inbox' = Tail(inbox), UNCHANGED <<open, txID, callVars, dirty>>,
         NEW r, r = inbox[1], NEW c, ValidCall(c), r.tx = txID /\ pc # "idle" => c = call,
         NEW P, AnswerPDU(P), NEW m, AnswerTo(m, c, P), memory' \in Tables,
         wire' = wire \o Frame(r.tx, UnitId, P),
         served' = IF r.tx = txID /\ pc # "idle" THEN m ELSE served
  PROVE  IInv'
<1>. DEFINE n == Len(wire)
            a == [tx |-> r.tx, pdu |-> P]
            f == Frame(r.tx, UnitId, P)
<1>1. PICK src, pos : StreamOK(src, pos)
  BY DEF IInv
<1>2. Types /\ InboxOK /\ BothWait
  BY DEF IInv
<1>3. /\ open' = open /\ txID' = txID /\ pc' = pc /\ call' = call /\ need' = need
      /\ outcome' = outcome /\ dirty' = dirty
  BY DEF callVars
<1>4. /\ InboxOK' /\ 1 \in 1..Len(inbox)
      /\ \A k \in 1..Len(inbox') : inbox'[k] = inbox[k + 1] /\ inbox[1].tx < inbox'[k].tx
                                   /\ k + 1 \in 1..Len(inbox)
  BY <1>2, <1>3, NextRequest
<1>5. r.tx \in (Earlier + 1)..txID /\ r.tx \in Nat /\ r.tx \in Word /\ txID \in Nat /\ r.tx <= txID
  <2>1. r.tx \in (Earlier + 1)..txID
    BY <1>2, <1>4 DEF InboxOK
  <2>2. txID \in Nat /\ txID \in Word /\ Earlier \in Nat
    BY <1>2, NumberType
  <2>. QED BY <2>1, <2>2 DEF Word
<1>6. wire \in Seq(Byte) /\ n \in Nat /\ (wire = << >> <=> n = 0) /\ \A i \in 1..n : src[i].tx \in Nat
  BY <1>1, WireType
<1>7. IsAnswer(a) /\ a.tx = r.tx /\ a.pdu = P
  BY <1>5 DEF IsAnswer
<1>8. f \in Seq(Byte) /\ Len(f) = Size(a) /\ \A i \in 1..Len(f) : f[i] = ByteAt(a, i)
  BY <1>7, AnswerFrame
<1>9. Size(a) \in 9..13
  BY <1>7, SizeType
<1>10. wire' = wire \o f
  OBVIOUS
<1>11. /\ Layout(wire, src, pos)
       /\ \A i \in 1..n : src[i].tx <= txID /\ \A k \in 1..Len(inbox) : src[i].tx < inbox[k].tx
  BY <1>1 DEF StreamOK
<1>12. \A i \in 1..n : src[i].tx < r.tx
  BY <1>4, <1>11
<1>. HIDE DEF a, f
<1>13. wire \o f \in Seq(Byte) /\ Len(wire \o f) = n + Size(a)
  <2>1. wire \o f \in Seq(Byte) /\ Len(wire \o f) = Len(wire) + Len(f)
    BY <1>6, <1>8, ConcatProperties, Zenon
  <2>. QED BY <1>8, <2>1
<1>14. \E s, q : /\ Layout(wire', s, q)
                 /\ \A i \in 1..n : s[i] = src[i] /\ q[i] = pos[i]
                 /\ \A i \in (n + 1)..(n + Size(a)) : s[i] = a /\ q[i] = i - n
  <2>. DEFINE s == [i \in 1..(n + Size(a)) |-> IF i <= n THEN src[i] ELSE a]
              q == [i \in 1..(n + Size(a)) |-> IF i <= n THEN pos[i] ELSE i - n]
  <2>1. \A i \in 1..n : src[i].tx < a.tx
    BY <1>7, <1>12
  <2>2. Layout(wire \o f, s, q)
    BY <1>7, <1>8, <1>11, <2>1, LayoutAppend
  <2>3. /\ \A i \in 1..n : s[i] = src[i] /\ q[i] = pos[i]
        /\ \A i \in (n + 1)..(n + Size(a)) : s[i] = a /\ q[i] = i - n
    BY <1>6, <1>9
  <2>. HIDE DEF s, q
  <2>. QED BY <1>10, <2>2, <2>3
<1>15. PICK s, q : /\ Layout(wire', s, q)
                   /\ \A i \in 1..n : s[i] = src[i] /\ q[i] = pos[i]
                   /\ \A i \in (n + 1)..(n + Size(a)) : s[i] = a /\ q[i] = i - n
  BY <1>14
<1>16. wire' # << >> /\ Len(wire') = n + Size(a)
  BY <1>6, <1>9, <1>10, <1>13, EmptyWord
<1>. HIDE DEF n
<1>17. ASSUME NEW i \in 1..(n + Size(a))
       PROVE  /\ s[i].tx <= txID
              /\ \A k \in 1..Len(inbox') : s[i].tx < inbox'[k].tx
              /\ pc # "idle" /\ s[i].tx = txID => AnswerTo(served', call, s[i].pdu)
  <2>1. CASE i <= n
    <3>1. i \in 1..n /\ s[i] = src[i]
      BY <1>6, <1>15, <2>1
    <3>2. src[i].tx < r.tx /\ src[i].tx # txID
      BY <1>5, <1>6, <1>12, <3>1
    <3>. QED BY <1>4, <1>11, <3>1, <3>2
  <2>2. CASE ~(i <= n)
    <3>1. i \in (n + 1)..(n + Size(a))
      BY <1>6, <1>9, <2>2
    <3>2. s[i] = a
      BY <1>15, <3>1
    <3>3. pc # "idle" /\ r.tx = txID => AnswerTo(served', call, P)
      OBVIOUS
    <3>. QED BY <1>4, <1>5, <1>7, <3>2, <3>3
  <2>. QED BY <2>1, <2>2
<1>18. StreamOK(s, q)'
  <2>1. wire # << >> => s[1] = src[1] /\ q[1] = pos[1]
    <3>1. wire # << >> => 1 \in 1..n
      BY <1>6
    <3>. QED BY <1>15, <3>1
  <2>2. wire = << >> => q[1] = 1
    <3>1. wire = << >> => n = 0 /\ 1 \in (n + 1)..(n + Size(a))
      BY <1>6, <1>9
    <3>. QED BY <1>15, <3>1
  <2>3. pc = "header" => /\ dirty => s[1].tx < txID
                         /\ ~dirty => q[1] = 1
    BY <1>1, <2>1, <2>2 DEF StreamOK
  <2>4. pc = "body" =>
          \/ ~dirty /\ q[1] = 8 /\ s[1].tx = txID /\ need = Size(s[1]) - 7
          \/ dirty /\ q[1] = 3 /\ need \in 1..5
          \/ dirty /\ q[1] = 2 /\ need \in 1..252 /\ (need = 1 \/ txID \in Clash)
    BY <1>1, <2>1 DEF StreamOK
  <2>. QED BY <1>3, <1>15, <1>16, <1>17, <2>3, <2>4 DEF StreamOK
<1>19. Types'
  BY <1>2, <1>3 DEF Types
<1>20. BothWait'
  <2>1. pc = "header" /\ dirty => n \in Nat /\ n # 0
    BY <1>1, <1>6 DEF StreamOK
  <2>2. pc = "header" /\ dirty => n + Size(a) >= 10
    BY <1>9, <2>1
  <2>. QED BY <1>3, <1>16, <2>2 DEF BothWait
<1>21. Results'
  BY <1>3, <1>16, DeviceKeepsResults
<1>. QED BY <1>4, <1>18, <1>19, <1>20, <1>21 DEF IInv

\* What the device finds in the next request.
LEMMA RequestRead ==
  ASSUME Types, InboxOK, inbox # << >>, NEW r, r = inbox[1]
  PROVE  /\ Head(inbox) = r
         /\ \E c : /\ ValidCall(c)
                   /\ r.tx = txID /\ pc # "idle" => c = call
                   /\ Drop(r.frame, HeaderLength) = PDU(c)
                   /\ r.frame[HeaderLength + 1] = PDU(c)[1]
<1>1. Len(inbox) \in Nat /\ Len(inbox) # 0 /\ inbox \in Seq([tx : Word, frame : Seq(Byte)])
  BY EmptyWord DEF InboxOK
<1>2. Head(inbox) = r /\ 1 \in 1..Len(inbox)
  BY <1>1
<1>3. IsRequest(r, txID, pc, call) /\ r.tx \in Word
  <2>1. r.tx \in (Earlier + 1)..txID /\ txID \in Word /\ txID \in Nat /\ Earlier \in Nat
    BY <1>2, NumberType DEF InboxOK
  <2>2. r.tx \in Word
    BY <2>1 DEF Word
  <2>. QED BY <1>2, <2>2 DEF InboxOK
<1>4. PICK c : /\ ValidCall(c) /\ r.frame = Frame(r.tx, UnitId, PDU(c))
               /\ r.tx = txID /\ pc # "idle" => c = call
  BY <1>3 DEF IsRequest
<1>. DEFINE p == PDU(c)
<1>5. p \in Seq(Byte) /\ Len(p) \in 2..10 /\ Len(p) \in {5, 10} /\ UnitId \in Byte
  <2>1. p \in Seq(Byte) /\ Len(p) \in {5, 10}
    BY <1>4, CallUnit
  <2>2. \A n \in {5, 10} : n \in 2..10
    OBVIOUS
  <2>3. UnitId \in Byte
    BY ModbusLinkAssumption DEF Byte
  <2>. QED BY <2>1, <2>2, <2>3
<1>6. r.frame = Frame(r.tx, UnitId, p)
  BY <1>4
<1>. HIDE DEF p
<1>7. Drop(r.frame, HeaderLength) = p
  BY <1>3, <1>5, <1>6, UnitOfFrame
<1>8. r.frame[HeaderLength + 1] = p[1]
  <2>1. /\ Len(r.frame) = 7 + Len(p)
        /\ \A i \in 8..Len(r.frame) : r.frame[i] = p[i - 7]
    BY <1>3, <1>5, <1>6, FrameBytes
  <2>2. 8 \in 8..Len(r.frame) /\ 8 - 7 = 1
    <3>1. \A n \in 2..10 : 8 \in 8..(7 + n) /\ 8 - 7 = 1
      OBVIOUS
    <3>. QED BY <1>5, <2>1, <3>1, Zenon
  <2>3. r.frame[8] = p[8 - 7]
    BY <2>1, <2>2
  <2>. QED BY <2>2, <2>3 DEF HeaderLength
<1>. QED BY <1>2, <1>4, <1>7, <1>8 DEF p

LEMMA DeviceAnswersKeepsInv ==
  ASSUME IInv, DeviceAnswers
  PROVE  IInv'
<1>. DEFINE r == inbox[1]
<1>1. Types /\ InboxOK /\ inbox # << >>
  BY DEF IInv, DeviceAnswers
<1>2. Head(inbox) = r
  BY <1>1, RequestRead
<1>3. PICK c : /\ ValidCall(c)
               /\ r.tx = txID /\ pc # "idle" => c = call
               /\ Drop(r.frame, HeaderLength) = PDU(c)
  BY <1>1, RequestRead
<1>. DEFINE p == PDU(c)
<1>4. /\ memory' = Stored(p) /\ wire' = wire \o Frame(r.tx, UnitId, Reply(p))
      /\ inbox' = Tail(inbox) /\ served' = (IF r.tx = txID /\ pc # "idle" THEN Stored(p) ELSE served)
      /\ UNCHANGED <<open, txID, callVars, dirty>>
  BY <1>2, <1>3 DEF DeviceAnswers, Handled
<1>5. memory \in Tables
  BY <1>1 DEF Types
<1>. HIDE DEF p
<1>6. Stored(p) \in Tables /\ AnswerPDU(Reply(p)) /\ AnswerTo(Stored(p), c, Reply(p))
  <2>1. p = PDU(c)
    BY DEF p
  <2>. QED BY <1>3, <1>5, <2>1, AnswerOf
<1>7. memory' \in Tables /\ r = inbox[1]
  BY <1>4, <1>6
<1>. HIDE DEF r
<1>. QED BY <1>1, <1>3, <1>4, <1>6, <1>7, DeviceSends, Zenon

LEMMA DeviceRefusesKeepsInv ==
  ASSUME IInv, DeviceRefuses
  PROVE  IInv'
<1>. DEFINE r == inbox[1]
<1>1. Types /\ InboxOK /\ inbox # << >>
  BY DEF IInv, DeviceRefuses
<1>2. Head(inbox) = r
  BY <1>1, RequestRead
<1>3. PICK c : /\ ValidCall(c)
               /\ r.tx = txID /\ pc # "idle" => c = call
               /\ r.frame[HeaderLength + 1] = PDU(c)[1]
  BY <1>1, RequestRead
<1>. DEFINE P == <<PDU(c)[1] + 128, 2>>
<1>4. /\ memory' = memory /\ wire' = wire \o Frame(r.tx, UnitId, P)
      /\ inbox' = Tail(inbox) /\ served' = (IF r.tx = txID /\ pc # "idle" THEN Refused ELSE served)
      /\ UNCHANGED <<open, txID, callVars, dirty>>
  BY <1>2, <1>3 DEF DeviceRefuses, Handled
<1>5. memory' \in Tables /\ r = inbox[1] /\ P = <<PDU(c)[1] + 128, 2>>
  BY <1>1, <1>4 DEF Types
<1>. HIDE DEF P, r
<1>6. AnswerPDU(P) /\ AnswerTo(Refused, c, P)
  BY <1>3, <1>5, RefusalOf
<1>. QED BY <1>1, <1>3, <1>4, <1>5, <1>6, DeviceSends, Zenon

LEMMA DeviceIgnoresKeepsInv ==
  ASSUME IInv, DeviceIgnores
  PROVE  IInv'
<1>1. PICK src, pos : StreamOK(src, pos)
  BY DEF IInv
<1>2. Types /\ InboxOK /\ BothWait /\ inbox # << >>
  BY DEF IInv, DeviceIgnores
<1>3. /\ inbox' = Tail(inbox) /\ wire' = wire /\ memory' = memory
      /\ open' = open /\ txID' = txID /\ pc' = pc /\ call' = call /\ need' = need
      /\ outcome' = outcome /\ dirty' = dirty
      /\ served' = IF Head(inbox).tx = txID /\ pc # "idle" THEN None ELSE served
  BY DEF DeviceIgnores, Handled, callVars
<1>4. /\ InboxOK' /\ 1 \in 1..Len(inbox)
      /\ \A k \in 1..Len(inbox') : inbox'[k] = inbox[k + 1] /\ inbox[1].tx < inbox'[k].tx
                                   /\ k + 1 \in 1..Len(inbox)
  BY <1>2, <1>3, NextRequest
<1>5. inbox[1].tx \in (Earlier + 1)..txID /\ txID \in Nat /\ Earlier \in Nat
  BY <1>2, <1>4, NumberType DEF InboxOK
<1>6. ASSUME NEW i \in 1..Len(wire)
      PROVE  /\ src[i].tx <= txID /\ src[i].tx # txID
             /\ \A k \in 1..Len(inbox') : src[i].tx < inbox'[k].tx
  <2>1. src[i].tx <= txID /\ \A k \in 1..Len(inbox) : src[i].tx < inbox[k].tx
    BY <1>1 DEF StreamOK
  <2>2. src[i].tx \in Nat
    BY <1>1, WireType
  <2>3. src[i].tx < inbox[1].tx
    BY <1>4, <2>1
  <2>4. src[i].tx # txID
    BY <1>5, <2>2, <2>3
  <2>. QED BY <1>4, <2>1, <2>4
<1>7. StreamOK(src, pos)'
  BY <1>1, <1>3, <1>6 DEF StreamOK
<1>8. Types'
  BY <1>2, <1>3 DEF Types
<1>9. BothWait'
  BY <1>2, <1>3 DEF BothWait
<1>10. Results'
  BY <1>2, <1>3, DeviceKeepsResults DEF callVars
<1>. QED BY <1>4, <1>7, <1>8, <1>9, <1>10 DEF IInv

LEMMA ProgramStoresKeepsInv ==
  ASSUME IInv, NEW n \in Programmed, NEW w \in Content, ProgramStores(n, w)
  PROVE  IInv'
<1>1. PICK src, pos : StreamOK(src, pos)
  BY DEF IInv
<1>2. Types /\ InboxOK /\ BothWait /\ Results
  BY DEF IInv
<1>3. /\ inbox' = inbox /\ wire' = wire /\ memory' = [memory EXCEPT ![n] = w]
      /\ open' = open /\ txID' = txID /\ pc' = pc /\ call' = call /\ need' = need
      /\ outcome' = outcome /\ dirty' = dirty /\ served' = served
      /\ Bit(n) => w \in {0, 1}
  BY DEF ProgramStores, callVars
<1>4. memory' \in Tables
  <2>1. w \in Word
    BY ModbusLinkAssumption
  <2>. QED BY <1>2, <1>3, <2>1 DEF Types, Tables
<1>5. Types' /\ BothWait'
  BY <1>2, <1>3, <1>4 DEF Types, BothWait
<1>6. InboxOK'
  BY <1>2, <1>3 DEF InboxOK
<1>7. StreamOK(src, pos)'
  BY <1>1, <1>3 DEF StreamOK
<1>8. Results'
  BY <1>2, <1>3 DEF Results, AnswerIsOwn, DirtyFails, StaysDirty, SuccessDrains, Lookalike
<1>. QED BY <1>5, <1>6, <1>7, <1>8 DEF IInv

LEMMA SendKeepsInv ==
  ASSUME IInv, NEW c \in Reads \cup Writes, Send(c)
  PROVE  IInv'
<1>. DEFINE e == [tx |-> NextID, frame |-> Frame(NextID, UnitId, PDU(c))]
            R == [tx : Word, frame : Seq(Byte)]
<1>1. PICK src, pos : StreamOK(src, pos)
  BY DEF IInv
<1>2. Types /\ InboxOK
  BY DEF IInv
<1>3. /\ pc = "idle" /\ txID < Earlier + MaxRequests
      /\ call' = c /\ txID' = NextID /\ inbox' = Append(inbox, e)
      /\ pc' = "header" /\ outcome' = Failed /\ need' = 0
      /\ dirty' = (wire # << >>) /\ served' = None
      /\ open' = open /\ wire' = wire /\ memory' = memory
  BY DEF Send
<1>4. ValidCall(c)
  BY DEF Send, ValidCall
<1>5. /\ txID' = txID + 1 /\ NextID = txID + 1 /\ NextID \in Word
      /\ NextID \in Earlier..(Earlier + MaxRequests)
      /\ txID \in Nat /\ Earlier \in Nat /\ txID >= Earlier
  BY <1>2, <1>3, NumberType DEF Types
<1>6. e \in R /\ e.tx = txID + 1 /\ e.frame = Frame(e.tx, UnitId, PDU(c))
  <2>. DEFINE p == PDU(c)
  <2>1. p \in Seq(Byte) /\ Len(p) \in {5, 10}
    BY <1>4, CallUnit
  <2>2. Len(p) \in 2..10 /\ UnitId \in Byte
    <3>1. \A n \in {5, 10} : n \in 2..10
      OBVIOUS
    <3>2. UnitId \in Byte
      BY ModbusLinkAssumption DEF Byte
    <3>. QED BY <2>1, <3>1, <3>2
  <2>. HIDE DEF p
  <2>3. Frame(NextID, UnitId, p) \in Seq(Byte)
    BY <1>5, <2>1, <2>2, FrameBytes
  <2>. QED BY <1>5, <2>3 DEF p
<1>. HIDE DEF e
<1>7. /\ inbox' \in Seq(R) /\ Len(inbox') = Len(inbox) + 1 /\ Len(inbox) \in Nat
      /\ \A i \in 1..Len(inbox) : inbox'[i] = inbox[i]
      /\ inbox'[Len(inbox) + 1] = e
  <2>1. inbox \in Seq(R)
    BY <1>2 DEF InboxOK
  <2>. HIDE DEF R
  <2>. QED BY <1>3, <1>6, <2>1
<1>8. \A i \in 1..Len(inbox) : inbox[i].tx \in (Earlier + 1)..txID /\ IsRequest(inbox[i], txID, pc, call)
  BY <1>2 DEF InboxOK
<1>9. ASSUME NEW i \in 1..Len(inbox')
      PROVE  inbox'[i].tx \in (Earlier + 1)..txID' /\ IsRequest(inbox'[i], txID', pc', call')
  <2>1. CASE i \in 1..Len(inbox)
    <3>1. inbox'[i] = inbox[i] /\ inbox[i].tx \in (Earlier + 1)..txID
      BY <1>7, <1>8, <2>1
    <3>2. inbox[i].tx # txID' /\ inbox[i].tx \in (Earlier + 1)..txID'
      BY <1>5, <3>1
    <3>3. IsRequest(inbox[i], txID, pc, call)
      BY <1>8, <2>1
    <3>4. IsRequest(inbox[i], txID', pc', call')
      BY <3>2, <3>3 DEF IsRequest
    <3>. QED BY <3>1, <3>2, <3>4
  <2>2. CASE i = Len(inbox) + 1
    <3>1. inbox'[i] = e /\ e.tx \in (Earlier + 1)..txID'
      BY <1>5, <1>6, <1>7, <2>2
    <3>2. IsRequest(e, txID', pc', call')
      BY <1>3, <1>4, <1>6 DEF IsRequest
    <3>. QED BY <3>1, <3>2
  <2>. QED BY <1>7, <2>1, <2>2
<1>10. ASSUME NEW i \in 1..Len(inbox'), NEW k \in 1..Len(inbox'), i < k
       PROVE  inbox'[i].tx < inbox'[k].tx
  <2>1. i \in 1..Len(inbox) /\ inbox'[i] = inbox[i]
    BY <1>7, <1>10
  <2>2. CASE k \in 1..Len(inbox)
    BY <1>2, <1>7, <1>10, <2>1, <2>2 DEF InboxOK
  <2>3. CASE k = Len(inbox) + 1
    <3>1. inbox[i].tx \in (Earlier + 1)..txID
      BY <1>8, <2>1
    <3>2. inbox'[k].tx = txID + 1
      BY <1>6, <1>7, <2>3
    <3>. QED BY <1>5, <2>1, <3>1, <3>2
  <2>. QED BY <1>7, <2>2, <2>3
<1>11. InboxOK'
  BY <1>7, <1>9, <1>10 DEF InboxOK, R
<1>12. ASSUME NEW i \in 1..Len(wire)
       PROVE  /\ src[i].tx <= txID' /\ src[i].tx # txID' /\ src[i].tx < txID'
              /\ \A k \in 1..Len(inbox') : src[i].tx < inbox'[k].tx
  <2>1. src[i].tx <= txID /\ \A k \in 1..Len(inbox) : src[i].tx < inbox[k].tx
    BY <1>1 DEF StreamOK
  <2>2. src[i].tx \in Nat
    BY <1>1, WireType
  <2>3. src[i].tx <= txID' /\ src[i].tx # txID' /\ src[i].tx < txID'
    BY <1>5, <2>1, <2>2
  <2>4. ASSUME NEW k \in 1..Len(inbox') PROVE src[i].tx < inbox'[k].tx
    <3>1. CASE k \in 1..Len(inbox)
      BY <1>7, <2>1, <3>1
    <3>2. CASE k = Len(inbox) + 1
      BY <1>5, <1>6, <1>7, <2>3, <3>2
    <3>. QED BY <1>7, <3>1, <3>2
  <2>. QED BY <2>3, <2>4
<1>13. StreamOK(src, pos)'
  <2>1. wire # << >> => 1 \in 1..Len(wire)
    BY <1>1, WireType
  <2>2. wire # << >> => src[1].tx < txID'
    BY <1>12, <2>1
  <2>. QED BY <1>1, <1>3, <1>12, <2>2 DEF StreamOK
<1>14. Types' /\ BothWait'
  BY <1>2, <1>3, <1>4, <1>5 DEF Types, BothWait, Failed
<1>15. Results'
  BY <1>3, FailureKeepsResults DEF StaysDirty
<1>. QED BY <1>11, <1>13, <1>14, <1>15 DEF IInv

LEMMA IdleStepsKeepInv ==
  ASSUME IInv, CallRejected \/ SendFails
  PROVE  IInv'
<1>1. PICK src, pos : StreamOK(src, pos)
  BY DEF IInv
<1>2. Types /\ InboxOK
  BY DEF IInv
<1>3. /\ pc = "idle" /\ pc' = "idle" /\ outcome' = Failed /\ need' = 0
      /\ dirty' = FALSE /\ served' = None
      /\ open' = open /\ wire' = wire /\ inbox' = inbox /\ memory' = memory
  BY DEF CallRejected, SendFails, Return
<1>4. txID' \in txID..(Earlier + MaxRequests) /\ txID' \in Earlier..(Earlier + MaxRequests)
  <2>1. \/ txID' = txID
        \/ txID < Earlier + MaxRequests /\ txID' = NextID
    BY DEF CallRejected, SendFails
  <2>. QED BY <1>2, <2>1, NumberType, ModbusLinkAssumption DEF Types
<1>5. InboxOK'
  BY <1>2, <1>3, <1>4, ReturnKeepsInbox
<1>6. StreamOK(src, pos)'
  <2>1. ASSUME NEW i \in 1..Len(wire)
        PROVE  src[i].tx <= txID' /\ \A k \in 1..Len(inbox) : src[i].tx < inbox[k].tx
    <3>1. src[i].tx <= txID /\ \A k \in 1..Len(inbox) : src[i].tx < inbox[k].tx
      BY <1>1 DEF StreamOK
    <3>2. src[i].tx \in Nat /\ txID \in Nat
      BY <1>1, <1>2, WireType, NumberType
    <3>3. txID' \in Int /\ txID <= txID'
      BY <1>4, <3>2
    <3>. QED BY <3>1, <3>2, <3>3
  <2>. QED BY <1>1, <1>3, <2>1 DEF StreamOK
<1>7. Types' /\ BothWait'
  <2>1. dirty' \in BOOLEAN
    BY <1>3
  <2>2. open \in BOOLEAN /\ memory \in Tables
    BY <1>2 DEF Types
  <2>. QED BY <1>3, <1>4, <2>1, <2>2 DEF Types, BothWait
<1>8. Results'
  BY <1>3, FailureKeepsResults DEF StaysDirty
<1>. QED BY <1>5, <1>6, <1>7, <1>8 DEF IInv

LEMMA NoRequests ==
  ASSUME inbox = << >>
  PROVE  InboxOK
BY DEF InboxOK

LEMMA NoBytes ==
  ASSUME wire = << >>, pc = "idle"
  PROVE  \E src, pos : StreamOK(src, pos)
<1>1. \A src, pos : StreamOK(src, pos)
  BY LayoutEmpty DEF StreamOK
<1>. QED BY <1>1

LEMMA CloseKeepsInv ==
  ASSUME IInv, Close
  PROVE  IInv'
<1>1. Types
  BY DEF IInv
<1>2. /\ pc' = "idle" /\ outcome' = Failed /\ need' = 0 /\ open' = FALSE
      /\ wire' = << >> /\ inbox' = << >> /\ dirty' = FALSE
      /\ txID' = txID /\ memory' = memory /\ served' = served
  BY DEF Close, Return
<1>3. InboxOK'
  BY <1>2 DEF InboxOK
<1>4. \E src, pos : StreamOK(src, pos)'
  <2>1. \A src, pos : StreamOK(src, pos)'
    BY <1>2, LayoutEmpty DEF StreamOK
  <2>. QED BY <2>1
<1>5. Types' /\ BothWait'
  <2>1. dirty' \in BOOLEAN /\ open' \in BOOLEAN
    BY <1>2
  <2>2. txID \in Earlier..(Earlier + MaxRequests) /\ memory \in Tables
    BY <1>1 DEF Types
  <2>. QED BY <1>2, <2>1, <2>2 DEF Types, BothWait
<1>6. Results'
  BY <1>2, FailureKeepsResults DEF StaysDirty
<1>. QED BY <1>3, <1>4, <1>5, <1>6 DEF IInv

LEMMA InitInv ==
  ASSUME Init
  PROVE  IInv
<1>1. /\ pc = "idle" /\ outcome = Failed /\ need = 0 /\ open = TRUE /\ txID = Earlier
      /\ wire = << >> /\ inbox = << >> /\ dirty = FALSE
      /\ memory = [n \in Cells |-> 0]
  BY DEF Init
<1>2. memory \in Tables
  <2>1. 0 \in Word
    BY DEF Word
  <2>. QED BY <1>1, <2>1 DEF Tables
<1>3. Types
  <2>1. open \in BOOLEAN /\ dirty \in BOOLEAN
    BY <1>1
  <2>2. txID \in Earlier..(Earlier + MaxRequests)
    BY <1>1, ModbusLinkAssumption
  <2>. QED BY <1>1, <1>2, <2>1, <2>2 DEF Types
<1>4. BothWait /\ Results
  BY <1>1 DEF BothWait, Results, AnswerIsOwn, DirtyFails, StaysDirty, SuccessDrains, Failed
<1>. QED BY <1>1, <1>3, <1>4, NoRequests, NoBytes DEF IInv

LEMMA StepKeepsInv ==
  ASSUME IInv, [Next]_vars
  PROVE  IInv'
<1>1. CASE CallRejected \/ SendFails
  BY <1>1, IdleStepsKeepInv
<1>2. ASSUME NEW c \in Reads \cup Writes, Send(c) PROVE IInv'
  BY <1>2, SendKeepsInv
<1>3. CASE Driver
  <2>1. CASE ReadHeader
    BY <2>1, ReadHeaderKeepsInv
  <2>2. CASE ReadBody
    BY <2>2, ReadBodyKeepsInv
  <2>3. ASSUME NEW k \in Arrived, Timeout(k) PROVE IInv'
    BY <2>3, TimeoutKeepsInv
  <2>. QED BY <1>3, <2>1, <2>2, <2>3 DEF Driver
<1>4. CASE Close
  BY <1>4, CloseKeepsInv
<1>5. CASE DeviceAnswers
  BY <1>5, DeviceAnswersKeepsInv
<1>6. CASE DeviceRefuses
  BY <1>6, DeviceRefusesKeepsInv
<1>7. CASE DeviceIgnores
  BY <1>7, DeviceIgnoresKeepsInv
<1>8. ASSUME NEW n \in Programmed, NEW w \in Content, ProgramStores(n, w) PROVE IInv'
  BY <1>8, ProgramStoresKeepsInv
<1>9. CASE UNCHANGED vars
  <2>1. PICK src, pos : StreamOK(src, pos)
    BY DEF IInv
  <2>2. /\ open' = open /\ txID' = txID /\ pc' = pc /\ call' = call /\ need' = need
        /\ outcome' = outcome /\ wire' = wire /\ inbox' = inbox /\ memory' = memory
        /\ served' = served /\ dirty' = dirty
    BY <1>9 DEF vars, callVars, deviceVars
  <2>3. StreamOK(src, pos)'
    BY <2>1, <2>2 DEF StreamOK
  <2>4. Types' /\ InboxOK' /\ BothWait'
    BY <2>2 DEF IInv, Types, InboxOK, BothWait
  <2>5. Results'
    BY <2>2 DEF IInv, Results, AnswerIsOwn, DirtyFails, StaysDirty, SuccessDrains, Lookalike
  <2>. QED BY <2>3, <2>4, <2>5 DEF IInv
<1>. QED BY <1>1, <1>2, <1>3, <1>4, <1>5, <1>6, <1>7, <1>8, <1>9 DEF Next

LEMMA InvType ==
  ASSUME IInv
  PROVE  TypeOK
<1>1. PICK src, pos : StreamOK(src, pos)
  BY DEF IInv
<1>2. \A i \in 1..Len(wire) : wire[i] \in Byte
  <2>1. wire \in Seq(Byte)
    BY <1>1, WireType
  <2>. QED BY <2>1, ElementOfSeq
<1>3. \A i \in 1..Len(inbox) : inbox[i].tx \in (Earlier + 1)..txID
  BY DEF IInv, InboxOK
<1>4. memory \in Tables
  BY DEF IInv, Types
<1>5. DOMAIN memory = Cells /\ \A n \in Cells : memory[n] \in Word /\ (Bit(n) => memory[n] \in {0, 1})
  BY <1>4 DEF Tables
<1>. QED BY <1>2, <1>3, <1>5 DEF IInv, Types, TypeOK

LEMMA Invariant == Spec => []IInv
<1>1. Init => IInv
  BY InitInv
<1>2. IInv /\ [Next]_vars => IInv'
  BY StepKeepsInv
<1>. QED BY <1>1, <1>2, PTL DEF Spec

-----------------------------------------------------------------------------
(* The connection, for every unit, every address and input, every order of *)
(* late answers and any number of requests up to 65535.                    *)

\* Every variable of a connection keeps its type.
THEOREM TypeCorrect == Spec => []TypeOK
BY Invariant, InvType, PTL

\* A call that succeeds has the answer the device gave to it, and the value is
\* what the device then held: no late answer is taken for it, but for lookalikes.
THEOREM AnswersAreOwn == Spec => []AnswerIsOwn
<1>1. IInv => AnswerIsOwn
  BY DEF IInv, Results
<1>. QED BY <1>1, Invariant, PTL

\* A request sent while late bytes are unread fails, but for lookalikes.
THEOREM LateBytesFailTheNext == Spec => []DirtyFails
<1>1. IInv => DirtyFails
  BY DEF IInv, Results
<1>. QED BY <1>1, Invariant, PTL

\* ... and leaves bytes unread for the one after it, if the device answers.
THEOREM LateBytesStayForever == Spec => []StaysDirty
<1>1. IInv => StaysDirty
  BY DEF IInv, Results
<1>. QED BY <1>1, Invariant, PTL

\* A call that succeeds on a clean stream leaves it clean, with nothing on the way.
THEOREM SuccessLeavesNothing == Spec => []SuccessDrains
<1>1. IInv => SuccessDrains
  BY DEF IInv, Results
<1>. QED BY <1>1, Invariant, PTL
=============================================================================
