--------------------------- MODULE ModbusParserProofs ---------------------------
(***************************************************************************)
(* For every checksum function, every set of devices and all frames: a hub *)
(* that is in step with the frames on the line stays in step unless it is  *)
(* disturbed, and hands over every frame that it has received in step.     *)
(***************************************************************************)
EXTENDS ModbusParser, SequenceTheorems, TLAPS

(* A number that has 8 bits is a byte and is not changed by their width. *)
LEMMA EightBits ==
  ASSUME NEW n \in Nat, n < 256
  PROVE  n \in Byte /\ n % 256 = n
BY SMT DEF Byte

(* Sums and differences of the lengths of a frame and of its parts. *)
LEMMA Sums ==
  ASSUME NEW h \in 2 .. 3, NEW d \in Nat, d < 252
  PROVE  /\ h + d \in 2 .. 254 /\ d < 256
         /\ 1 \in 1 .. h + d /\ 2 \in 1 .. h + d /\ 1 <= h /\ 2 <= h
         /\ h = 3 => 3 \in 1 .. h + d /\ 3 <= h
BY SMT

LEMMA Differences ==
  ASSUME NEW m \in 2 .. 254, NEW k \in 4 .. m + 2
  PROVE  k - 3 \in Nat /\ k - 3 < 256 /\ 1 + (k - 3) = k - 2
BY SMT

-----------------------------------------------------------------------------
(***************************************************************************)
(* The bytes of a frame                                                    *)
(***************************************************************************)

LEMMA FrameFacts ==
  ASSUME NEW r \in Role, NEW f \in Frames[r]
  PROVE  /\ f.address \in Byte /\ f.function_code \in Byte /\ f.data \in Seq(Byte)
         /\ Len(f.data) \in Nat /\ Len(f.data) < 252
         /\ Crc(Body(r, f)) \in Byte \X Byte
         /\ HasRightLength(r, f) /\ EndsOnce(r, f)
         /\ f # NoFrame
<1>1. f \in Frame /\ Len(f.data) < 252 /\ Crc(Body(r, f)) \in Byte \X Byte
      /\ HasRightLength(r, f) /\ EndsOnce(r, f)
  BY FramesAssumption
<1>2. f.address \in Byte /\ f.function_code \in Byte /\ f.data \in Seq(Byte)
  BY <1>1 DEF Frame
<1>3. Len(f.data) \in Nat
  BY <1>2, LenProperties
<1>4. f # NoFrame
  BY LineAssumption
<1> QED
  BY <1>1, <1>2, <1>3, <1>4

HeaderLen(r, f) == IF HasLength(r, f.function_code) THEN 3 ELSE 2

(* A frame: its header, its data, its checksum. *)
LEMMA HeaderShape ==
  ASSUME NEW r \in Role, NEW f \in Frames[r]
  PROVE  /\ Header(r, f) \in Seq(Byte)
         /\ Len(Header(r, f)) = HeaderLen(r, f)
         /\ Header(r, f)[1] = f.address
         /\ Header(r, f)[2] = f.function_code
         /\ HasLength(r, f.function_code) => Header(r, f)[3] = Len(f.data)
<1>1. Len(f.data) \in Byte
  <2>1. Len(f.data) \in Nat /\ Len(f.data) < 252
    BY FrameFacts
  <2> QED
    BY <2>1, EightBits, Sums
<1>2. CASE HasLength(r, f.function_code)
  <2>1. Header(r, f) = <<f.address, f.function_code, Len(f.data)>>
    BY <1>2 DEF Header
  <2> HIDE DEF Byte
  <2> QED
    BY <1>1, <1>2, <2>1, FrameFacts DEF HeaderLen
<1>3. CASE ~HasLength(r, f.function_code)
  <2>1. Header(r, f) = <<f.address, f.function_code>>
    BY <1>3 DEF Header
  <2> QED
    BY <1>3, <2>1, FrameFacts DEF HeaderLen
<1> QED
  BY <1>2, <1>3

LEMMA BodyShape ==
  ASSUME NEW r \in Role, NEW f \in Frames[r]
  PROVE  /\ Body(r, f) \in Seq(Byte)
         /\ Len(Body(r, f)) = HeaderLen(r, f) + Len(f.data)
         /\ Len(Body(r, f)) \in 2 .. 254
         /\ Body(r, f)[1] = f.address
         /\ Body(r, f)[2] = f.function_code
         /\ HasLength(r, f.function_code) => Body(r, f)[3] = Len(f.data)
         /\ \A i \in 1 .. Len(f.data) : Body(r, f)[HeaderLen(r, f) + i] = f.data[i]
<1> DEFINE h == Header(r, f)
           n == HeaderLen(r, f)
           t == f.data
           d == Len(f.data)
           b == Body(r, f)
<1>1. n \in 2 .. 3 /\ Len(h) = n /\ h \in Seq(Byte)
  BY HeaderShape DEF HeaderLen
<1>2. /\ h[1] = f.address /\ h[2] = f.function_code
      /\ HasLength(r, f.function_code) => n = 3 /\ h[3] = d
  BY HeaderShape DEF HeaderLen
<1>3. t \in Seq(Byte) /\ Len(t) = d /\ d \in Nat /\ d < 252
  BY FrameFacts
<1>4. b = h \o t
  BY DEF Body
<1> HIDE DEF h, n, t, d, b
<1>5. /\ b \in Seq(Byte) /\ Len(b) = n + d
      /\ \A i \in 1 .. n + d : b[i] = IF i <= n THEN h[i] ELSE t[i - n]
  BY <1>1, <1>3, <1>4, ConcatProperties
<1>6. /\ n + d \in 2 .. 254
      /\ 1 \in 1 .. n + d /\ 2 \in 1 .. n + d /\ 1 <= n /\ 2 <= n
      /\ n = 3 => 3 \in 1 .. n + d /\ 3 <= n
  BY <1>1, <1>3, Sums
<1>7. b[1] = f.address /\ b[2] = f.function_code
  BY <1>2, <1>5, <1>6, Zenon
<1>8. HasLength(r, f.function_code) => b[3] = d
  BY <1>2, <1>5, <1>6, Zenon
<1>9. \A i \in 1 .. d : b[n + i] = t[i]
  <2> TAKE i \in 1 .. d
  <2>1. n + i \in 1 .. n + d /\ ~(n + i <= n) /\ (n + i) - n = i
    BY <1>1, <1>3
  <2> QED
    BY <1>5, <2>1, Zenon
<1> QED
  BY <1>5, <1>6, <1>7, <1>8, <1>9, Zenon DEF n, t, d, b

LEMMA BytesShape ==
  ASSUME NEW r \in Role, NEW f \in Frames[r]
  PROVE  /\ Bytes(r, f) \in Seq(Byte)
         /\ Len(Bytes(r, f)) = Len(Body(r, f)) + 2
         /\ \A i \in 1 .. Len(Body(r, f)) : Bytes(r, f)[i] = Body(r, f)[i]
         /\ SubSeq(Bytes(r, f), 1, Len(Body(r, f))) = Body(r, f)
         /\ ChecksumMatches(Bytes(r, f), Len(Body(r, f)))
<1> DEFINE b == Body(r, f)
           c == Crc(b)
           m == Len(b)
<1>1. b \in Seq(Byte) /\ m \in 2 .. 254
  BY BodyShape
<1>2. c \in Byte \X Byte
  BY FrameFacts
<1>3. c = <<c[1], c[2]>> /\ c[1] \in Byte /\ c[2] \in Byte
  BY <1>2
<1>4. c \in Seq(Byte) /\ Len(c) = 2
  <2> DEFINE x == c[1]
             y == c[2]
  <2>1. c = <<x, y>> /\ x \in Byte /\ y \in Byte
    BY <1>3
  <2> HIDE DEF x, y, c
  <2>2. <<x, y>> \in Seq(Byte) /\ Len(<<x, y>>) = 2
    BY <2>1
  <2> QED
    BY <2>1, <2>2
<1>5. /\ b \o c \in Seq(Byte)
      /\ Len(b \o c) = m + 2
      /\ \A i \in 1 .. m + 2 : (b \o c)[i] = IF i <= m THEN b[i] ELSE c[i - m]
  <2> HIDE DEF b, c, m
  <2>1. Len(b) = m
    BY DEF m
  <2>2. /\ b \o c \in Seq(Byte) /\ Len(b \o c) = Len(b) + Len(c)
        /\ \A i \in 1 .. Len(b) + Len(c) :
             (b \o c)[i] = IF i <= Len(b) THEN b[i] ELSE c[i - Len(b)]
    BY <1>1, <1>4, ConcatProperties
  <2> QED
    BY <1>4, <2>1, <2>2, Zenon
<1> DEFINE B == b \o c
<1>6. Bytes(r, f) = B
  BY DEF Bytes
<1> HIDE DEF b, c, m, B
<1>7. m \in Nat /\ m \in 1 .. m + 2 /\ m + 1 \in 1 .. m + 2 /\ m + 2 \in 1 .. m + 2
      /\ ~(m + 1 <= m) /\ ~(m + 2 <= m) /\ (m + 1) - m = 1 /\ (m + 2) - m = 2
  BY <1>1
<1>8. B \in Seq(Byte) /\ Len(B) = m + 2
      /\ \A i \in 1 .. m + 2 : B[i] = IF i <= m THEN b[i] ELSE c[i - m]
  BY <1>5 DEF B
<1>9. \A i \in 1 .. m : B[i] = b[i]
  BY <1>7, <1>8
<1>10. B[m + 1] = c[1] /\ B[m + 2] = c[2]
  BY <1>7, <1>8
<1>11. SubSeq(B, 1, m) = b
  <2>1. 1 \in 1 .. m /\ m \in 1 .. m
    BY <1>1
  <2>2. SubSeq(B, 1, m) = SubSeq(b, 1, m)
    BY <1>1, <1>4, <2>1, SubSeqOfConcat1 DEF B, m
  <2> QED
    BY <1>1, <2>2, SubSeqFull DEF m
<1>12. ChecksumMatches(B, m)
  BY <1>3, <1>10, <1>11 DEF ChecksumMatches, c
<1> QED
  BY <1>6, <1>8, <1>9, <1>11, <1>12 DEF b, m

-----------------------------------------------------------------------------
(***************************************************************************)
(* What parse_modbus_byte_ makes of the first bytes of a frame             *)
(***************************************************************************)

LEMMA PrefixShape ==
  ASSUME NEW B \in Seq(Byte), NEW k \in 1 .. Len(B)
  PROVE  /\ SubSeq(B, 1, k) \in Seq(Byte)
         /\ Len(SubSeq(B, 1, k)) = k
         /\ \A i \in 1 .. k : SubSeq(B, 1, k)[i] = B[i]
         /\ \A n \in 1 .. k - 2 :
              ChecksumMatches(SubSeq(B, 1, k), n) <=> ChecksumMatches(B, n)
<1> DEFINE raw == SubSeq(B, 1, k)
<1>1. Len(B) \in Nat /\ k \in Nat /\ k <= Len(B)
  BY LenProperties
<1>2. \A i \in 1 .. k : B[i] \in Byte
  <2> TAKE i \in 1 .. k
  <2>1. i \in 1 .. Len(B)
    BY <1>1
  <2> QED
    BY <2>1, ElementOfSeq
<1>3. raw \in Seq(Byte) /\ Len(raw) = k /\ \A i \in 1 .. k : raw[i] = B[i]
  <2>1. 1 \in Int /\ k \in Int /\ (IF 1 <= k THEN k - 1 + 1 ELSE 0) = k
    BY <1>1
  <2>2. \A i \in 1 .. k - 1 + 1 : i \in 1 .. k /\ 1 + i - 1 = i
    BY <1>1
  <2>3. /\ raw \in Seq(Byte) /\ Len(raw) = IF 1 <= k THEN k - 1 + 1 ELSE 0
        /\ \A i \in 1 .. k - 1 + 1 : raw[i] = B[1 + i - 1]
    BY <1>2, <2>1, SubSeqProperties
  <2>4. \A i \in 1 .. k : i \in 1 .. k - 1 + 1
    BY <1>1
  <2> HIDE DEF raw
  <2> QED
    BY <2>1, <2>2, <2>3, <2>4
<1>4. \A n \in 1 .. k - 2 : ChecksumMatches(raw, n) <=> ChecksumMatches(B, n)
  <2> TAKE n \in 1 .. k - 2
  <2>1. n \in 1 .. k /\ n + 1 \in 1 .. k /\ n + 2 \in 1 .. k
    BY <1>1
  <2>2. 1 \in 1 .. Len(B) /\ 1 \in 1 .. k - 1 + 1 /\ n \in 1 .. k - 1 + 1
        /\ 1 + 1 - 1 = 1 /\ 1 + n - 1 = n
    BY <1>1, <2>1
  <2>3. SubSeq(raw, 1, n) = SubSeq(B, 1 + 1 - 1, 1 + n - 1)
    BY <2>2, SubSeqOfSubSeq
  <2>4. SubSeq(raw, 1, n) = SubSeq(B, 1, n)
    BY <2>2, <2>3
  <2>5. raw[n + 1] = B[n + 1] /\ raw[n + 2] = B[n + 2]
    BY <1>3, <2>1
  <2> QED
    BY <2>4, <2>5 DEF ChecksumMatches
<1> QED
  BY <1>3, <1>4

(* The kinds of frames exclude each other. *)
LEMMA Kinds ==
  ASSUME NEW r \in Role, NEW code \in Byte
  PROVE  /\ IsUserDefined(code) =>
              ~IsException(code) /\ code \notin FixedLength(r)
                /\ ~IsWriteMultiple(r, code) /\ ~HasLength(r, code)
         /\ IsException(code) =>
              code \notin FixedLength(r) /\ ~IsWriteMultiple(r, code) /\ ~HasLength(r, code)
         /\ code \in FixedLength(r) => ~IsWriteMultiple(r, code) /\ ~HasLength(r, code)
         /\ IsWriteMultiple(r, code) => ~HasLength(r, code)
         /\ \/ IsUserDefined(code) \/ IsException(code) \/ code \in FixedLength(r)
            \/ IsWriteMultiple(r, code) \/ HasLength(r, code)
BY SMT DEF Role, Byte, IsUserDefined, IsException, FixedLength, IsWriteMultiple,
   HasLength, WRITE_MULTIPLE_REGISTERS

(* The hub finds the end of the data as soon as it has the header.         *)
LEMMA EndOfData ==
  ASSUME NEW r \in Role, NEW f \in Frames[r], NEW raw \in Seq(Byte),
         Len(raw) \in 4 .. Len(Bytes(r, f)),
         IsWriteMultiple(r, f.function_code) => Len(raw) > 6,
         \A i \in 1 .. Len(raw) : raw[i] = Bytes(r, f)[i]
  PROVE  /\ raw[2] = f.function_code
         /\ DataEnd(r, raw) = IF IsUserDefined(f.function_code) THEN Len(raw) - 2
                              ELSE Len(Body(r, f))
         /\ DataOffset(r, raw[2]) = IF IsUserDefined(f.function_code) THEN 1
                                    ELSE HeaderLen(r, f)
<1> DEFINE code == f.function_code
           k == Len(raw)
           m == Len(Body(r, f))
           d == Len(f.data)
<1>1. d \in Nat /\ d < 252 /\ code \in Byte /\ HasRightLength(r, f)
  BY FrameFacts
<1>2. m = HeaderLen(r, f) + d /\ m \in 2 .. 254
  BY BodyShape
<1>3. k \in 4 .. m + 2
  BY BytesShape
<1>4. \A i \in 1 .. k : i <= m => raw[i] = Body(r, f)[i]
  <2> TAKE i \in 1 .. k
  <2> HAVE i <= m
  <2>1. i \in 1 .. m
    BY <1>2, <1>3
  <2> QED
    BY <2>1, BytesShape
<1>5. raw[2] = code
  BY <1>2, <1>3, <1>4, BodyShape
<1>6. DataOffset(r, code) = IF IsUserDefined(code) THEN 1 ELSE HeaderLen(r, f)
  BY <1>1, Kinds DEF DataOffset, HeaderLen
<1>7. CASE IsUserDefined(code)
  <2>1. DataLen(r, raw) = (k - 3) % 256
    BY <1>1, <1>5, <1>7, Kinds, Zenon DEF DataLen
  <2>2. (k - 3) % 256 = k - 3 /\ 1 + (k - 3) = k - 2
    BY <1>2, <1>3, Differences, EightBits
  <2> QED
    BY <1>5, <1>6, <1>7, <2>1, <2>2 DEF DataEnd
<1>8. CASE IsException(code)
  <2>1. DataLen(r, raw) = 1 /\ d = 1 /\ HeaderLen(r, f) = 2 /\ ~IsUserDefined(code)
    BY <1>1, <1>5, <1>8, Kinds DEF DataLen, HasRightLength, HeaderLen
  <2> QED
    BY <1>2, <1>5, <1>6, <2>1 DEF DataEnd
<1>9. CASE code \in FixedLength(r)
  <2>1. DataLen(r, raw) = 4 /\ d = 4 /\ HeaderLen(r, f) = 2 /\ ~IsUserDefined(code)
    BY <1>1, <1>5, <1>9, Kinds DEF DataLen, HasRightLength, HeaderLen
  <2> QED
    BY <1>2, <1>5, <1>6, <2>1 DEF DataEnd
<1>10. CASE IsWriteMultiple(r, code)
  <2>1. d >= 5 /\ d = 5 + f.data[5] /\ HeaderLen(r, f) = 2 /\ ~IsUserDefined(code)
    BY <1>1, <1>10, Kinds DEF HasRightLength, HeaderLen
  <2>2. Body(r, f)[7] = f.data[5]
    <3>1. 5 \in 1 .. d /\ 2 + 5 = 7
      BY <1>1, <2>1
    <3> QED
      BY <2>1, <3>1, BodyShape
  <2>3. raw[7] = f.data[5]
    <3>1. 7 \in 1 .. k /\ 7 <= m
      BY <1>1, <1>2, <1>3, <1>10, <2>1
    <3> QED
      BY <1>4, <2>2, <3>1
  <2>4. DataLen(r, raw) = (5 + raw[7]) % 256
    BY <1>1, <1>5, <1>10, Kinds DEF DataLen
  <2>5. d % 256 = d
    <3> HIDE DEF d
    <3>1. d < 256
      BY <1>1
    <3> QED
      BY <1>1, <3>1, EightBits
  <2> QED
    BY <1>2, <1>5, <1>6, <2>1, <2>3, <2>4, <2>5 DEF DataEnd
<1>11. CASE HasLength(r, code)
  <2>1. DataLen(r, raw) = raw[3] /\ HeaderLen(r, f) = 3 /\ ~IsUserDefined(code)
    BY <1>1, <1>5, <1>11, Kinds DEF DataLen, HeaderLen
  <2>2. raw[3] = d
    <3>1. 3 \in 1 .. k /\ 3 <= m
      BY <1>1, <1>2, <1>3, <2>1
    <3> QED
      BY <1>4, <1>11, <3>1, BodyShape
  <2> QED
    BY <1>2, <1>5, <1>6, <2>1, <2>2 DEF DataEnd
<1>12. \/ IsUserDefined(code) \/ IsException(code) \/ code \in FixedLength(r)
       \/ IsWriteMultiple(r, code) \/ HasLength(r, code)
  BY <1>1, Kinds
<1> QED
  BY <1>5, <1>6, <1>7, <1>8, <1>9, <1>10, <1>11, <1>12

LEMMA PrefixFacts ==
  ASSUME NEW r \in Role, NEW f \in Frames[r], NEW k \in 1 .. Len(Bytes(r, f))
  PROVE  /\ SubSeq(Bytes(r, f), 1, k) \in Seq(Byte)
         /\ Len(SubSeq(Bytes(r, f), 1, k)) = k
         /\ \A i \in 1 .. k : SubSeq(Bytes(r, f), 1, k)[i] = Bytes(r, f)[i]
         /\ \A n \in 1 .. k - 2 :
              ChecksumMatches(SubSeq(Bytes(r, f), 1, k), n)
                <=> ChecksumMatches(Bytes(r, f), n)
BY BytesShape, PrefixShape

(* The hub does not take a part of a frame for the whole.                  *)
LEMMA PartsAreIncomplete ==
  ASSUME NEW r \in Role, NEW f \in Frames[r], NEW k \in 1 .. Len(Bytes(r, f)) - 1
  PROVE  IsIncomplete(r, SubSeq(Bytes(r, f), 1, k))
<1> DEFINE B == Bytes(r, f)
           raw == SubSeq(B, 1, k)
           m == Len(Body(r, f))
           code == f.function_code
<1>1. m \in 2 .. 254 /\ Len(B) = m + 2
  BY BodyShape, BytesShape
<1>2. k \in 1 .. m + 1 /\ k \in 1 .. Len(B)
  <2> HIDE DEF m, B
  <2>1. k \in 1 .. Len(B) - 1
    BY DEF B
  <2> QED
    BY <1>1, <2>1
<1>3. /\ raw \in Seq(Byte) /\ Len(raw) = k
      /\ \A i \in 1 .. k : raw[i] = B[i]
      /\ \A n \in 1 .. k - 2 : ChecksumMatches(raw, n) <=> ChecksumMatches(B, n)
  BY <1>2, PrefixFacts
<1>4. CASE k <= 3
  BY <1>3, <1>4 DEF IsIncomplete
<1>5. CASE k > 3
  <2>1. raw[2] = code
    <3>1. 2 \in 1 .. k /\ 2 \in 1 .. m
      <4> HIDE DEF m
      <4> QED BY <1>1, <1>2, <1>5
    <3> QED
      BY <1>3, <3>1, BytesShape, BodyShape
  <2>2. CASE IsWriteMultiple(r, code) /\ k <= 6
    BY <1>3, <2>1, <2>2 DEF IsIncomplete
  <2>3. CASE ~(IsWriteMultiple(r, code) /\ k <= 6)
    <3>1. k \in 4 .. Len(B) /\ (IsWriteMultiple(r, code) => k > 6)
      <4> HIDE DEF m, B
      <4> QED BY <1>1, <1>2, <1>5, <2>3
    <3>2. DataEnd(r, raw) = IF IsUserDefined(code) THEN k - 2 ELSE m
      <4> HIDE DEF raw
      <4> QED BY <1>3, <3>1, EndOfData
    <3>3. CASE IsUserDefined(code)
      <4>1. k - 2 \in 2 .. m - 1 /\ k - 2 \in 1 .. k - 2
        <5> HIDE DEF m
        <5> QED BY <1>1, <1>2, <1>5
      <4>2. EndsOnce(r, f)
        BY FrameFacts
      <4>3. ~ChecksumMatches(B, k - 2)
        BY <3>3, <4>1, <4>2 DEF EndsOnce
      <4>4. ~ChecksumMatches(raw, DataEnd(r, raw))
        <5> HIDE DEF raw, B
        <5>1. DataEnd(r, raw) = k - 2
          BY <3>2, <3>3
        <5> QED
          BY <1>3, <4>1, <4>3, <5>1
      <4> QED
        BY <2>1, <3>3, <4>4 DEF IsIncomplete
    <3>4. CASE ~IsUserDefined(code)
      <4>1. DataEnd(r, raw) = m
        BY <3>2, <3>4
      <4>2. Len(raw) < DataEnd(r, raw) + 2
        <5> HIDE DEF raw, m
        <5> QED BY <1>1, <1>2, <1>3, <4>1
      <4> QED
        BY <4>2 DEF IsIncomplete
    <3> QED
      BY <3>3, <3>4
  <2> QED
    BY <2>2, <2>3
<1> QED
  BY <1>2, <1>4, <1>5

LEMMA HeaderLenRange ==
  ASSUME NEW r, NEW f PROVE HeaderLen(r, f) \in 2 .. 3
BY DEF HeaderLen

(* The data that the devices are given, from the bytes of a frame. *)
LEMMA DataOfWhole ==
  ASSUME NEW r \in Role, NEW f \in Frames[r],
         DataEnd(r, Bytes(r, f)) = Len(Body(r, f)),
         DataOffset(r, Bytes(r, f)[2]) = IF IsUserDefined(f.function_code) THEN 1
                                         ELSE HeaderLen(r, f)
  PROVE  Data(r, Bytes(r, f)) = DataSeen(f)
<1> DEFINE B == Bytes(r, f)
           b == Body(r, f)
           m == Len(b)
           o == DataOffset(r, B[2])
           d == Len(f.data)
           t == f.data
           h == HeaderLen(r, f)
           w == DataSeen(f)
           code == f.function_code
<1>1. /\ t \in Seq(Byte) /\ Len(t) = d /\ d \in Nat /\ d < 252 /\ code \in Byte
      /\ IsUserDefined(code) => d >= 1
  BY FrameFacts DEF EndsOnce
<1>2. /\ b \in Seq(Byte) /\ m = h + d /\ m \in 2 .. 254 /\ h \in 2 .. 3
      /\ b[2] = code /\ \A i \in 1 .. d : b[h + i] = t[i]
  BY BodyShape, HeaderLenRange
<1>3. /\ B \in Seq(Byte) /\ Len(B) = m + 2 /\ SubSeq(B, 1, m) = b
      /\ \A i \in 1 .. m : B[i] = b[i]
  BY BytesShape
<1>4. IsUserDefined(code) => h = 2
  BY <1>1, Kinds DEF HeaderLen
<1>5. o = IF IsUserDefined(code) THEN 1 ELSE h
  OBVIOUS
<1>6. Data(r, B) = SubSeq(B, o + 1, m)
  BY DEF Data
<1>7. w = IF IsUserDefined(code) THEN <<code>> \o t ELSE t
  BY DEF DataSeen
<1> HIDE DEF B, b, m, o, d, t, h, w, code
<1>8. o + 1 \in Int /\ m \in Int /\ o + 1 <= m + 1 /\ o + 1 >= 1
  BY <1>1, <1>2, <1>4, <1>5
<1>9. \A i \in o + 1 .. m : B[i] \in Byte
  <2> TAKE i \in o + 1 .. m
  <2>1. i \in 1 .. Len(B)
    BY <1>2, <1>3, <1>8
  <2> QED
    BY <1>3, <2>1, ElementOfSeq
<1> DEFINE s == SubSeq(B, o + 1, m)
<1>10. /\ s \in Seq(Byte)
       /\ Len(s) = IF o + 1 <= m THEN m - (o + 1) + 1 ELSE 0
       /\ \A i \in 1 .. m - (o + 1) + 1 : s[i] = B[o + 1 + i - 1]
  BY <1>8, <1>9, SubSeqProperties
<1> HIDE DEF s
<1>11. CASE IsUserDefined(code)
  <2>1. h = 2 /\ o = 1 /\ w = <<code>> \o t /\ m = d + 2
    BY <1>1, <1>2, <1>4, <1>5, <1>7, <1>11
  <2>2. /\ w \in Seq(Byte) /\ Len(w) = 1 + d
        /\ \A i \in 1 .. 1 + d : w[i] = IF i <= 1 THEN code ELSE t[i - 1]
    <3>1. <<code>> \in Seq(Byte) /\ Len(<<code>>) = 1 /\ <<code>>[1] = code
      BY <1>1
    <3> DEFINE c == <<code>>
    <3> HIDE DEF c
    <3>2. c \in Seq(Byte) /\ Len(c) = 1 /\ c[1] = code /\ w = c \o t
      BY <2>1, <3>1 DEF c
    <3>3. /\ w \in Seq(Byte) /\ Len(w) = 1 + d
          /\ \A i \in 1 .. 1 + d : w[i] = IF i <= 1 THEN c[i] ELSE t[i - 1]
      <4>1. /\ c \o t \in Seq(Byte) /\ Len(c \o t) = Len(c) + Len(t)
            /\ \A i \in 1 .. Len(c) + Len(t) :
                 (c \o t)[i] = IF i <= Len(c) THEN c[i] ELSE t[i - Len(c)]
        BY <1>1, <3>2, ConcatProperties
      <4> QED
        BY <1>1, <3>2, <4>1, Zenon
    <3>4. \A i \in 1 .. 1 + d : i <= 1 => i = 1
      BY <1>1
    <3> QED
      BY <3>2, <3>3, <3>4
  <2>3. Len(s) = 1 + d
    BY <1>1, <1>10, <2>1
  <2>4. \A i \in 1 .. Len(s) : s[i] = w[i]
    <3> TAKE i \in 1 .. Len(s)
    <3>1. i \in 1 .. 1 + d
      BY <2>3
    <3>2. s[i] = B[i + 1]
      <4>1. i \in 1 .. m - (o + 1) + 1 /\ o + 1 + i - 1 = i + 1
        BY <1>1, <2>1, <3>1
      <4> QED
        BY <1>10, <4>1, Zenon
    <3>3. B[i + 1] = b[i + 1]
      <4>1. i + 1 \in 1 .. m
        BY <1>1, <2>1, <3>1
      <4> QED
        BY <1>3, <4>1, Zenon
    <3>4. CASE i = 1
      <4>1. i + 1 = 2 /\ i <= 1
        BY <3>4
      <4> QED
        BY <1>2, <2>2, <3>1, <3>2, <3>3, <4>1, Zenon
    <3>5. CASE i # 1
      <4>1. i - 1 \in 1 .. d /\ ~(i <= 1) /\ h + (i - 1) = i + 1
        BY <1>1, <2>1, <3>1, <3>5
      <4> QED
        BY <1>2, <2>2, <3>1, <3>2, <3>3, <4>1, Zenon
    <3> QED
      BY <3>4, <3>5
  <2> QED
    BY <1>6, <1>10, <2>2, <2>3, <2>4, SeqEqual DEF s, w, B
<1>12. CASE ~IsUserDefined(code)
  <2>1. o = h /\ w = t
    BY <1>5, <1>7, <1>12
  <2>2. Len(s) = d
    BY <1>1, <1>2, <1>10, <2>1
  <2>3. \A i \in 1 .. Len(s) : s[i] = t[i]
    <3> TAKE i \in 1 .. Len(s)
    <3>1. i \in 1 .. d
      BY <2>2
    <3>2. i \in 1 .. m - (o + 1) + 1 /\ o + 1 + i - 1 = h + i /\ h + i \in 1 .. m
      <4>1. m = h + d /\ h \in 2 .. 3 /\ d \in Nat /\ o = h
        BY <1>1, <1>2, <2>1
      <4> QED
        BY <3>1, <4>1
    <3> QED
      BY <1>2, <1>3, <1>10, <3>1, <3>2, Zenon
  <2> QED
    BY <1>1, <1>6, <1>10, <2>1, <2>2, <2>3, SeqEqual DEF s, w, B
<1> QED
  BY <1>11, <1>12

(* The hub takes a whole frame for what it is.                             *)
LEMMA WholeIsAccepted ==
  ASSUME NEW r \in Role, NEW f \in Frames[r], NEW u \in BOOLEAN
  PROVE  /\ ~IsIncomplete(r, Bytes(r, f))
         /\ IsAccepted(r, u, Bytes(r, f))
         /\ Bytes(r, f)[1] = f.address
         /\ Bytes(r, f)[2] = f.function_code
         /\ Data(r, Bytes(r, f)) = DataSeen(f)
<1> DEFINE B == Bytes(r, f)
           m == Len(Body(r, f))
           code == f.function_code
           d == Len(f.data)
<1>1. m \in 2 .. 254 /\ Len(B) = m + 2 /\ B \in Seq(Byte) /\ ChecksumMatches(B, m)
  BY BodyShape, BytesShape
<1>2. /\ d \in Nat /\ code \in Byte /\ HasRightLength(r, f) /\ EndsOnce(r, f)
      /\ m = HeaderLen(r, f) + d /\ HeaderLen(r, f) \in 2 .. 3
  BY FrameFacts, BodyShape, HeaderLenRange
<1>3. IsWriteMultiple(r, code) => d >= 5
  BY <1>2, Kinds DEF HasRightLength
<1>4. /\ Len(B) \in 4 .. Len(B) /\ ~(Len(B) <= 3)
      /\ IsWriteMultiple(r, code) => Len(B) > 6 /\ ~(Len(B) <= 6)
      /\ ~(Len(B) < m + 2) /\ Len(B) - 2 = m
      /\ 1 \in 1 .. m /\ 2 \in 1 .. m
  <2> HIDE DEF m, B, d, code
  <2> QED
    BY <1>1, <1>2, <1>3
<1>5. B[1] = f.address /\ B[2] = code
  BY <1>4, BytesShape, BodyShape
<1>6. /\ DataEnd(r, B) = IF IsUserDefined(code) THEN Len(B) - 2 ELSE m
      /\ DataOffset(r, B[2]) = IF IsUserDefined(code) THEN 1 ELSE HeaderLen(r, f)
  BY <1>1, <1>4, EndOfData
<1>7. DataEnd(r, B) = m
  BY <1>4, <1>6, Zenon
<1>8. ~IsIncomplete(r, B)
  BY <1>1, <1>4, <1>5, <1>7, Zenon DEF IsIncomplete
<1>9. IsAccepted(r, u, B)
  BY <1>1, <1>7, <1>8, Zenon DEF IsAccepted
<1>10. Data(r, B) = DataSeen(f)
  BY <1>6, <1>7, DataOfWhole
<1> QED
  BY <1>5, <1>8, <1>9, <1>10

-----------------------------------------------------------------------------
(***************************************************************************)
(* Type correctness                                                        *)
(***************************************************************************)

SentType == sent \in IF frame = NoFrame THEN {0} ELSE 0 .. Len(Bytes(role, frame)) - 1

(* The byte that is next, and what the line is after it.                   *)
LEMMA NextByte ==
  ASSUME TypeOK, frame # NoFrame
  PROVE  /\ role \in Role /\ frame \in Frames[role]
         /\ Len(Bytes(role, frame)) \in Nat
         /\ sent \in 0 .. Len(Bytes(role, frame)) - 1
         /\ sent + 1 \in 1 .. Len(Bytes(role, frame))
         /\ Bytes(role, frame)[sent + 1] \in Byte
<1>1. role \in Role /\ frame \in Frames[role]
      /\ sent \in 0 .. Len(Bytes(role, frame)) - 1
  BY DEF TypeOK
<1>2. Bytes(role, frame) \in Seq(Byte)
  BY <1>1, BytesShape
<1>3. Len(Bytes(role, frame)) \in Nat
  BY <1>2, LenProperties
<1> DEFINE n == Len(Bytes(role, frame))
<1>4. sent + 1 \in 1 .. n
  <2> HIDE DEF n
  <2>1. sent \in 0 .. n - 1 /\ n \in Nat
    BY <1>1, <1>3 DEF n
  <2> QED
    BY <2>1
<1>5. Bytes(role, frame)[sent + 1] \in Byte
  BY <1>2, <1>4, ElementOfSeq
<1> QED
  BY <1>1, <1>3, <1>4, <1>5

LEMMA PassByteTyped ==
  ASSUME TypeOK, PassByte, role' = role
  PROVE  /\ frame' \in Frames[role'] \cup {NoFrame}
         /\ SentType'
<1>1. frame # NoFrame
  BY DEF PassByte
<1> DEFINE n == Len(Bytes(role, frame))
<1>2. frame \in Frames[role] /\ n \in Nat /\ sent \in 0 .. n - 1
  BY <1>1, NextByte
<1>3. CASE sent + 1 = n
  BY <1>3 DEF PassByte, SentType
<1>4. CASE sent + 1 # n
  <2>1. sent' = sent + 1 /\ frame' = frame
    BY <1>4 DEF PassByte
  <2>2. sent + 1 \in 0 .. n - 1
    <3> HIDE DEF n
    <3> QED BY <1>2, <1>4
  <2>3. Len(Bytes(role', frame')) = n
    BY <2>1
  <2> QED
    BY <1>1, <1>2, <2>1, <2>2, <2>3 DEF SentType
<1> QED
  BY <1>3, <1>4

LEMMA ParseByteTyped ==
  ASSUME TypeOK, NEW byte \in Byte, ParseByte(byte), role' = role
  PROVE  /\ rx_buffer' \in Seq(Byte)
         /\ rx_buffer' # <<>> => IsIncomplete(role', rx_buffer')
         /\ waiting_for_response' \in IF role' = "CLIENT" THEN Byte ELSE {0}
<1> DEFINE raw == Append(rx_buffer, byte)
<1>1. rx_buffer \in Seq(Byte) /\ waiting_for_response \in IF role = "CLIENT" THEN Byte ELSE {0}
  BY DEF TypeOK
<1>2. raw \in Seq(Byte)
  BY <1>1, AppendProperties
<1>3. rx_buffer' = IF IsIncomplete(role, raw) THEN raw ELSE <<>>
  BY DEF ParseByte
<1>4. waiting_for_response' \in {0, waiting_for_response}
  BY DEF ParseByte
<1>5. 0 \in Byte
  BY EightBits
<1>6. <<>> \in Seq(Byte)
  BY EmptySeq
<1> HIDE DEF raw
<1> QED
  BY <1>1, <1>2, <1>3, <1>4, <1>5, <1>6

LEMMA TypeInit == Init => TypeOK
<1> SUFFICES ASSUME Init PROVE TypeOK
  OBVIOUS
<1>1. 0 \in Byte /\ <<>> \in Seq(Byte)
  BY EightBits, EmptySeq
<1>2. MaxAsked \in Nat /\ MaxFaults \in Nat
  BY LineAssumption
<1>3. 0 \in 0 .. MaxAsked /\ 0 \in 0 .. MaxFaults
  BY <1>2
<1> QED
  BY <1>1, <1>3 DEF Init, TypeOK

LEMMA TypeStep == TypeOK /\ [Next]_vars => TypeOK'
<1> SUFFICES ASSUME TypeOK, [Next]_vars PROVE TypeOK'
  OBVIOUS
<1>1. MaxAsked \in Nat /\ MaxFaults \in Nat /\ Noise \subseteq Byte /\ Devices \in Seq(Byte)
  BY LineAssumption
<1>2. ReceiveByte => TypeOK'
  <2> SUFFICES ASSUME ReceiveByte PROVE TypeOK'
    OBVIOUS
  <2>1. PassByte /\ ParseByte(Bytes(role, frame)[sent + 1]) /\ frame # NoFrame
        /\ role' = role /\ disable_crc' = disable_crc /\ asked' = asked /\ faults' = faults
    BY DEF ReceiveByte, PassByte, Config
  <2>2. Bytes(role, frame)[sent + 1] \in Byte
    BY <2>1, NextByte
  <2> QED
    BY <2>1, <2>2, PassByteTyped, ParseByteTyped, Zenon DEF TypeOK, SentType
<1>3. ClearStaleBytes => TypeOK'
  <2> SUFFICES ASSUME ClearStaleBytes PROVE TypeOK'
    OBVIOUS
  <2>1. <<>> \in Seq(Byte)
    BY EmptySeq
  <2>2. faults' \in 0 .. MaxFaults
    BY <1>1 DEF ClearStaleBytes, TypeOK
  <2> QED
    BY <2>1, <2>2, Zenon DEF ClearStaleBytes, TypeOK, Config
<1>4. StopWaiting => TypeOK'
  <2>1. 0 \in Byte
    BY EightBits
  <2> QED
    BY <2>1 DEF StopWaiting, TypeOK, Config
<1>5. ASSUME NEW a \in {Devices[i] : i \in 1 .. Len(Devices)}, SendNextFrame(a)
      PROVE  TypeOK'
  <2>1. a \in Byte
    BY <1>1, ElementOfSeq
  <2>2. asked' \in 0 .. MaxAsked
    BY <1>1, <1>5 DEF SendNextFrame, TypeOK
  <2>3. faults' \in 0 .. MaxFaults
    BY <1>1, <1>5 DEF SendNextFrame, TypeOK
  <2> QED
    BY <1>5, <2>1, <2>2, <2>3, Zenon DEF SendNextFrame, TypeOK, Config
<1>6. ASSUME NEW f \in Frames[role], BeginFrame(f)
      PROVE  TypeOK'
  <2>1. asked' \in 0 .. MaxAsked
    BY <1>1, <1>6 DEF BeginFrame, TypeOK
  <2>2. role \in Role
    BY DEF TypeOK
  <2>3. f # NoFrame /\ sent = 0
    BY <1>6, <2>2, FrameFacts DEF BeginFrame, TypeOK
  <2>4. 0 \in 0 .. Len(Bytes(role, f)) - 1
    <3> DEFINE m == Len(Body(role, f))
    <3>1. m \in 2 .. 254 /\ Len(Bytes(role, f)) = m + 2
      BY <2>2, BodyShape, BytesShape
    <3> HIDE DEF m
    <3> QED
      BY <3>1
  <2>5. frame' = f /\ sent' = sent /\ role' = role
    BY <1>6 DEF BeginFrame, Config
  <2>6. sent' \in 0 .. Len(Bytes(role', frame')) - 1
    BY <2>3, <2>4, <2>5
  <2> QED
    BY <1>6, <2>1, <2>3, <2>5, <2>6, Zenon DEF BeginFrame, TypeOK, Config
<1>7. NeverAnswer => TypeOK'
  <2> SUFFICES ASSUME NeverAnswer PROVE TypeOK'
    OBVIOUS
  <2>1. asked' \in 0 .. MaxAsked
    BY <1>1 DEF NeverAnswer, TypeOK
  <2> QED
    BY <2>1, Zenon DEF NeverAnswer, TypeOK, Config
<1>8. LoseByte => TypeOK'
  <2> SUFFICES ASSUME LoseByte PROVE TypeOK'
    OBVIOUS
  <2>1. PassByte /\ role' = role
    BY DEF LoseByte, Config
  <2>2. faults' \in 0 .. MaxFaults
    BY <1>1 DEF LoseByte, TypeOK
  <2> QED
    BY <2>1, <2>2, PassByteTyped, Zenon DEF LoseByte, TypeOK, SentType, Config
<1>9. ASSUME NEW byte \in Noise, NoiseByte(byte)
      PROVE  TypeOK'
  <2>1. byte \in Byte /\ ParseByte(byte) /\ role' = role
    BY <1>1, <1>9 DEF NoiseByte, Config
  <2>2. faults' \in 0 .. MaxFaults
    BY <1>1, <1>9 DEF NoiseByte, TypeOK
  <2> QED
    BY <1>9, <2>1, <2>2, ParseByteTyped, Zenon DEF NoiseByte, TypeOK, Config
<1>10. ASSUME NEW byte \in Noise, GarbleByte(byte)
       PROVE  TypeOK'
  <2>1. byte \in Byte /\ PassByte /\ ParseByte(byte) /\ role' = role
    BY <1>1, <1>10 DEF GarbleByte, Config
  <2>2. faults' \in 0 .. MaxFaults
    BY <1>1, <1>10 DEF GarbleByte, TypeOK
  <2> QED
    BY <1>10, <2>1, <2>2, PassByteTyped, ParseByteTyped, Zenon
    DEF GarbleByte, TypeOK, SentType, Config
<1>11. UNCHANGED vars => TypeOK'
  BY DEF vars, TypeOK
<1> QED
  BY <1>2, <1>3, <1>4, <1>5, <1>6, <1>7, <1>8, <1>9, <1>10, <1>11, Zenon DEF Next

(* The members of the hub always have their types, its buffer never holds  *)
(* a frame or what cannot become one, and a server never awaits a response *)
(* (parse_modbus_byte_, clear_rx_buffer_).                                 *)
THEOREM ParserTypeCorrect == Spec => []TypeOK
<1> QED
  BY TypeInit, TypeStep, PTL DEF Spec

-----------------------------------------------------------------------------
(***************************************************************************)
(* A hub in step                                                           *)
(***************************************************************************)

LEMMA BufferAfterByte ==
  ASSUME TypeOK, InStep, frame # NoFrame
  PROVE  Append(rx_buffer, Bytes(role, frame)[sent + 1])
           = SubSeq(Bytes(role, frame), 1, sent + 1)
<1> DEFINE B == Bytes(role, frame)
           n == sent + 1
<1>1. B \in Seq(Byte) /\ n \in 1 .. Len(B) /\ B[n] \in Byte /\ Len(B) \in Nat
      /\ sent \in 0 .. Len(B) - 1
  BY NextByte, BytesShape
<1>2. rx_buffer = SubSeq(B, 1, sent) /\ rx_buffer \in Seq(Byte)
  BY DEF InStep, TypeOK
<1> HIDE DEF B
<1>3. 1 \in 1 .. Len(B) /\ n - 1 = sent
  BY <1>1
<1>4. SubSeq(B, 1, n) = SubSeq(B, 1, n - 1) \o <<B[n]>>
  BY <1>1, <1>3, SubSeqRecursiveSecond
<1>5. Append(rx_buffer, B[n]) = rx_buffer \o <<B[n]>>
  BY <1>1, <1>2, AppendIsConcat
<1> QED
  BY <1>2, <1>3, <1>4, <1>5 DEF B

(* A byte in the middle of a frame is kept. *)
LEMMA MiddleByte ==
  ASSUME TypeOK, InStep, ReceiveByte, sent + 1 # Len(Bytes(role, frame))
  PROVE  InStep' /\ sent' = sent + 1
<1> DEFINE B == Bytes(role, frame)
           raw == SubSeq(B, 1, sent + 1)
<1>1. frame # NoFrame /\ sent' = sent + 1 /\ frame' = frame /\ role' = role
      /\ ParseByte(B[sent + 1])
  BY DEF ReceiveByte, PassByte, Config
<1>2. role \in Role /\ frame \in Frames[role] /\ Len(B) \in Nat /\ sent \in 0 .. Len(B) - 1
  BY <1>1, NextByte
<1>3. sent + 1 \in 1 .. Len(B) - 1
  <2> HIDE DEF B
  <2>1. sent + 1 # Len(B)
    BY DEF B
  <2> QED
    BY <1>2, <2>1
<1>4. IsIncomplete(role, raw)
  BY <1>2, <1>3, PartsAreIncomplete
<1>5. Append(rx_buffer, B[sent + 1]) = raw
  BY <1>1, BufferAfterByte
<1>6. rx_buffer' = raw
  BY <1>1, <1>4, <1>5 DEF ParseByte
<1> QED
  BY <1>1, <1>6 DEF InStep

(* The last byte of a frame makes the hub hand it over. *)
LEMMA LastByte ==
  ASSUME TypeOK, InStep, ReceiveByte, sent + 1 = Len(Bytes(role, frame))
  PROVE  /\ InStep' /\ sent' = 0
         /\ calls' = CallsOf(role, waiting_for_response, frame.address,
                             frame.function_code, DataSeen(frame))
         /\ waiting_for_response' = 0
<1> DEFINE B == Bytes(role, frame)
<1>1. frame # NoFrame /\ sent' = 0 /\ frame' = NoFrame /\ ParseByte(B[sent + 1])
  BY DEF ReceiveByte, PassByte
<1>2. role \in Role /\ frame \in Frames[role] /\ disable_crc \in BOOLEAN
  BY <1>1, NextByte DEF TypeOK
<1>3. Append(rx_buffer, B[sent + 1]) = B
  <2>1. B \in Seq(Byte)
    BY <1>2, BytesShape
  <2>2. SubSeq(B, 1, sent + 1) = B
    BY <2>1, SubSeqFull
  <2> QED
    BY <1>1, <2>2, BufferAfterByte
<1>4. /\ ~IsIncomplete(role, B) /\ IsAccepted(role, disable_crc, B)
      /\ B[1] = frame.address /\ B[2] = frame.function_code
      /\ Data(role, B) = DataSeen(frame)
  BY <1>2, WholeIsAccepted
<1> HIDE DEF B
<1>5. /\ rx_buffer' = <<>> /\ waiting_for_response' = 0
      /\ calls' = CallsOf(role, waiting_for_response, B[1], B[2], Data(role, B))
  BY <1>1, <1>3, <1>4, Zenon DEF ParseByte
<1> QED
  BY <1>1, <1>4, <1>5 DEF InStep

LEMMA StepInStep ==
  ASSUME TypeOK, InStep, [Next]_vars
  PROVE  InStep' \/ faults' > faults
<1>1. faults \in Nat
  BY LineAssumption DEF TypeOK
<1>2. CASE ReceiveByte
  BY <1>2, MiddleByte, LastByte
<1>3. CASE ClearStaleBytes
  <2>1. CASE sent > 0
    BY <1>1, <1>3, <2>1 DEF ClearStaleBytes
  <2>2. CASE ~(sent > 0)
    <3>1. sent = 0
      <4>1. CASE frame = NoFrame
        BY <4>1 DEF TypeOK
      <4>2. CASE frame # NoFrame
        <5> DEFINE n == Len(Bytes(role, frame))
        <5>1. n \in Nat /\ sent \in 0 .. n - 1
          BY <4>2, NextByte
        <5> HIDE DEF n
        <5> QED
          BY <2>2, <5>1
      <4> QED
        BY <4>1, <4>2
    <3>2. sent' = 0 /\ rx_buffer' = <<>>
      BY <1>3, <3>1 DEF ClearStaleBytes
    <3>3. SubSeq(Bytes(role', frame'), 1, 0) = <<>>
      BY SubSeqEmpty
    <3> QED
      BY <3>2, <3>3 DEF InStep
  <2> QED
    BY <2>1, <2>2
<1>4. ASSUME NEW f \in Frames[role], BeginFrame(f)
      PROVE  InStep'
  <2>1. rx_buffer' = <<>> /\ sent' = 0
    BY <1>4 DEF BeginFrame, InStep, TypeOK
  <2>2. SubSeq(Bytes(role', frame'), 1, 0) = <<>>
    BY SubSeqEmpty
  <2> QED
    BY <2>1, <2>2 DEF InStep
<1>5. CASE StopWaiting
  BY <1>5 DEF StopWaiting, InStep, Config
<1>6. ASSUME NEW a, SendNextFrame(a)
      PROVE  InStep'
  BY <1>6 DEF SendNextFrame, InStep, Config
<1>7. CASE NeverAnswer
  BY <1>7 DEF NeverAnswer, InStep, Config
<1>8. CASE LoseByte
  BY <1>1, <1>8 DEF LoseByte
<1>9. ASSUME NEW byte \in Noise, NoiseByte(byte)
      PROVE  faults' > faults
  BY <1>1, <1>9 DEF NoiseByte
<1>10. ASSUME NEW byte \in Noise, GarbleByte(byte)
       PROVE  faults' > faults
  BY <1>1, <1>10 DEF GarbleByte
<1>11. CASE UNCHANGED vars
  BY <1>11 DEF vars, InStep
<1> QED
  BY <1>2, <1>3, <1>4, <1>5, <1>6, <1>7, <1>8, <1>9, <1>10, <1>11, Zenon DEF Next

(* Nothing but a disturbance gets a hub out of step with the frames, of    *)
(* whatever kinds and lengths they are and whatever the checksum function  *)
(* is (parse_modbus_byte_).                                                *)
THEOREM FramingKept == Spec => StaysInStep
<1>1. TypeOK /\ [Next]_vars => [InStep /\ ~InStep' => faults' > faults]_vars
  BY StepInStep
<1> QED
  BY <1>1, ParserTypeCorrect, PTL DEF Spec, StaysInStep

(* Every frame that a hub receives in step is handed over unchanged, at    *)
(* its last byte, and ends the wait for a response (parse_modbus_byte_).   *)
THEOREM FramesHandedOver == Spec => WholeFramesHeard
<1>1. ASSUME TypeOK, InStep, ReceiveByte, sent' = 0
      PROVE  /\ calls' = CallsOf(role, waiting_for_response, frame.address,
                                 frame.function_code, DataSeen(frame))
             /\ waiting_for_response' = 0
  <2>1. CASE sent + 1 = Len(Bytes(role, frame))
    BY <1>1, <2>1, LastByte
  <2>2. CASE sent + 1 # Len(Bytes(role, frame))
    <3>1. sent' = sent + 1
      BY <1>1, <2>2, MiddleByte
    <3>2. sent \in Nat
      <4> DEFINE n == Len(Bytes(role, frame))
      <4>1. n \in Nat /\ sent \in 0 .. n - 1
        BY <1>1, NextByte DEF ReceiveByte, PassByte
      <4> HIDE DEF n
      <4> QED
        BY <4>1
    <3> QED
      BY <1>1, <3>1, <3>2
  <2> QED
    BY <2>1, <2>2
<1>2. TypeOK =>
        [InStep /\ ReceiveByte /\ sent' = 0 =>
           /\ calls' = CallsOf(role, waiting_for_response, frame.address,
                               frame.function_code, DataSeen(frame))
           /\ waiting_for_response' = 0]_vars
  BY <1>1
<1> QED
  BY <1>2, ParserTypeCorrect, PTL DEF WholeFramesHeard

-----------------------------------------------------------------------------
(***************************************************************************)
(* Two hubs                                                                *)
(***************************************************************************)

(* What a hub asks of a server: it reads or writes registers, not more     *)
(* than it may, or sends a user-defined request or one that is an error.   *)
(* It does not send frames whose kinds the server does not know.           *)
HubRequests ==
  \A f \in Frames["SERVER"] :
    /\ ~HasLength("SERVER", f.function_code)
    /\ f.function_code \in (1 .. 4) \cup {WRITE_MULTIPLE_REGISTERS} =>
         Word(f.data, 3) <= MAX_VALUES

LEMMA WordParts ==
  ASSUME NEW h \in Byte, NEW l \in Byte
  PROVE  /\ HighByte(h * 256 + l) = h
         /\ LowByte(h * 256 + l) = l
BY SMT DEF Byte, HighByte, LowByte

LEMMA FourBytes ==
  ASSUME NEW t \in Seq(Byte), Len(t) = 4
  PROVE  /\ t[1] \in Byte /\ t[2] \in Byte /\ t[3] \in Byte /\ t[4] \in Byte
         /\ t = <<t[1], t[2], t[3], t[4]>>
         /\ SubSeq(t, 3, 4) = <<t[3], t[4]>>
<1>1. t[1] \in Byte /\ t[2] \in Byte /\ t[3] \in Byte /\ t[4] \in Byte
  BY ElementOfSeq
<1> DEFINE u == <<t[1], t[2], t[3], t[4]>>
<1>2. u \in Seq(Byte) /\ Len(u) = 4
      /\ u[1] = t[1] /\ u[2] = t[2] /\ u[3] = t[3] /\ u[4] = t[4]
  BY <1>1
<1>3. t = u
  <2> HIDE DEF u
  <2>1. \A i \in 1 .. Len(t) : t[i] = u[i]
    BY <1>2
  <2> QED
    BY <1>2, <2>1, SeqEqual
<1> DEFINE s == SubSeq(t, 3, 4)
           v == <<t[3], t[4]>>
<1>4. s = v
  <2>1. v \in Seq(Byte) /\ Len(v) = 2 /\ v[1] = t[3] /\ v[2] = t[4]
    BY <1>1
  <2>2. \A i \in 3 .. 4 : t[i] \in Byte
    BY <1>1
  <2>3. /\ s \in Seq(Byte) /\ Len(s) = IF 3 <= 4 THEN 4 - 3 + 1 ELSE 0
        /\ \A i \in 1 .. 4 - 3 + 1 : s[i] = t[3 + i - 1]
    BY <2>2, SubSeqProperties
  <2> HIDE DEF s, v
  <2>4. Len(s) = 2 /\ s[1] = t[3] /\ s[2] = t[4]
    <3>1. 1 \in 1 .. 4 - 3 + 1 /\ 2 \in 1 .. 4 - 3 + 1 /\ 3 + 1 - 1 = 3 /\ 3 + 2 - 1 = 4
      OBVIOUS
    <3>2. s[1] = t[3 + 1 - 1] /\ s[2] = t[3 + 2 - 1]
      BY <2>3, <3>1
    <3> QED
      BY <2>3, <3>1, <3>2
  <2>5. \A i \in 1 .. Len(s) : s[i] = v[i]
    BY <2>1, <2>4
  <2> QED
    BY <2>1, <2>3, <2>4, <2>5, SeqEqual
<1> QED
  BY <1>1, <1>3, <1>4

(* A request to write registers: address, number, length, values. *)
LEMMA CountedData ==
  ASSUME NEW t \in Seq(Byte), Len(t) >= 5
  PROVE  /\ t[1] \in Byte /\ t[2] \in Byte /\ t[3] \in Byte /\ t[4] \in Byte
         /\ SubSeq(t, 6, Len(t)) \in Seq(Byte)
         /\ Len(SubSeq(t, 6, Len(t))) = Len(t) - 5
         /\ t = <<t[1], t[2], t[3], t[4], t[5]>> \o SubSeq(t, 6, Len(t))
<1> DEFINE n == Len(t)
           p == SubSeq(t, 6, n)
           u == <<t[1], t[2], t[3], t[4], t[5]>>
<1>1. n \in Nat /\ n >= 5
  BY LenProperties
<1> HIDE DEF n
<1>2. \A i \in 1 .. n : t[i] \in Byte
  BY ElementOfSeq DEF n
<1>3. t[1] \in Byte /\ t[2] \in Byte /\ t[3] \in Byte /\ t[4] \in Byte /\ t[5] \in Byte
  BY <1>1, <1>2
<1>4. /\ p \in Seq(Byte) /\ Len(p) = n - 5
      /\ \A i \in 1 .. n - 5 : p[i] = t[5 + i]
  <2>1. \A i \in 6 .. n : t[i] \in Byte
    BY <1>1, <1>2
  <2>2. /\ p \in Seq(Byte) /\ Len(p) = IF 6 <= n THEN n - 6 + 1 ELSE 0
        /\ \A i \in 1 .. n - 6 + 1 : p[i] = t[6 + i - 1]
    BY <1>1, <2>1, SubSeqProperties
  <2> HIDE DEF p
  <2>3. Len(p) = n - 5
    BY <1>1, <2>2
  <2>4. \A i \in 1 .. n - 5 : i \in 1 .. n - 6 + 1 /\ 6 + i - 1 = 5 + i
    BY <1>1
  <2> QED
    BY <2>2, <2>3, <2>4
<1>5. u \in Seq(Byte) /\ Len(u) = 5 /\ \A i \in 1 .. 5 : u[i] = t[i]
  <2>1. u \in Seq(Byte) /\ Len(u) = 5
    BY <1>3
  <2>2. u[1] = t[1] /\ u[2] = t[2] /\ u[3] = t[3] /\ u[4] = t[4] /\ u[5] = t[5]
    OBVIOUS
  <2> HIDE DEF u
  <2> QED
    BY <2>1, <2>2
<1> HIDE DEF p, u
<1>6. /\ u \o p \in Seq(Byte) /\ Len(u \o p) = 5 + (n - 5)
      /\ \A i \in 1 .. 5 + (n - 5) : (u \o p)[i] = IF i <= 5 THEN u[i] ELSE p[i - 5]
  <2>1. /\ u \o p \in Seq(Byte) /\ Len(u \o p) = Len(u) + Len(p)
        /\ \A i \in 1 .. Len(u) + Len(p) :
             (u \o p)[i] = IF i <= Len(u) THEN u[i] ELSE p[i - Len(u)]
    BY <1>4, <1>5, ConcatProperties
  <2> QED
    BY <1>4, <1>5, <2>1
<1>7. t = u \o p
  <2>1. Len(u \o p) = n /\ \A i \in 1 .. n : i \in 1 .. 5 + (n - 5)
    BY <1>1, <1>6
  <2>2. \A i \in 1 .. n : t[i] = (u \o p)[i]
    <3> TAKE i \in 1 .. n
    <3>1. CASE i <= 5
      BY <1>5, <1>6, <2>1, <3>1
    <3>2. CASE ~(i <= 5)
      <4>1. i - 5 \in 1 .. n - 5 /\ 5 + (i - 5) = i
        BY <1>1, <3>2
      <4> QED
        BY <1>4, <1>6, <2>1, <3>2, <4>1
    <3> QED
      BY <3>1, <3>2
  <2> QED
    BY <1>6, <2>1, <2>2, SeqEqual DEF n
<1> QED
  BY <1>3, <1>4, <1>7 DEF n, p, u

(* ConcatAssociative for bytes. *)
LEMMA Regrouped ==
  ASSUME NEW s \in Seq(Byte), NEW t \in Seq(Byte), NEW u \in Seq(Byte)
  PROVE  (s \o t) \o u = s \o (t \o u)
BY ConcatAssociative

(* Short sequences and their concatenations. *)
LEMMA OneMore ==
  ASSUME NEW a \in Byte, NEW c \in Byte, NEW x \in Byte
  PROVE  <<a, c>> \o <<x>> = <<a, c, x>>
<1> DEFINE s == <<a, c>>
           t == <<x>>
           u == <<a, c, x>>
<1>1. /\ s \in Seq(Byte) /\ t \in Seq(Byte) /\ u \in Seq(Byte)
      /\ Len(s) = 2 /\ Len(t) = 1 /\ Len(u) = 3
      /\ s[1] = a /\ s[2] = c /\ t[1] = x /\ u[1] = a /\ u[2] = c /\ u[3] = x
  OBVIOUS
<1> HIDE DEF s, t, u
<1>2. /\ s \o t \in Seq(Byte) /\ Len(s \o t) = 3
      /\ \A i \in 1 .. 3 : (s \o t)[i] = IF i <= 2 THEN s[i] ELSE t[i - 2]
  <2>1. /\ s \o t \in Seq(Byte) /\ Len(s \o t) = Len(s) + Len(t)
        /\ \A i \in 1 .. Len(s) + Len(t) :
             (s \o t)[i] = IF i <= Len(s) THEN s[i] ELSE t[i - Len(s)]
    BY <1>1, ConcatProperties
  <2> QED
    BY <1>1, <2>1
<1>3. \A i \in 1 .. 3 : u[i] = (s \o t)[i]
  BY <1>1, <1>2
<1>4. u = s \o t
  BY <1>1, <1>2, <1>3, SeqEqual
<1> QED
  BY <1>4 DEF s, t, u

LEMMA TwoAndTwo ==
  ASSUME NEW x \in Byte, NEW y \in Byte, NEW z \in Byte, NEW w \in Byte
  PROVE  <<x, y>> \o <<z, w>> = <<x, y, z, w>>
<1> DEFINE s == <<x, y>>
           t == <<z, w>>
           u == <<x, y, z, w>>
<1>1. /\ s \in Seq(Byte) /\ t \in Seq(Byte) /\ u \in Seq(Byte)
      /\ Len(s) = 2 /\ Len(t) = 2 /\ Len(u) = 4
      /\ s[1] = x /\ s[2] = y /\ t[1] = z /\ t[2] = w
      /\ u[1] = x /\ u[2] = y /\ u[3] = z /\ u[4] = w
  OBVIOUS
<1> HIDE DEF s, t, u
<1>2. /\ s \o t \in Seq(Byte) /\ Len(s \o t) = 4
      /\ \A i \in 1 .. 4 : (s \o t)[i] = IF i <= 2 THEN s[i] ELSE t[i - 2]
  <2>1. /\ s \o t \in Seq(Byte) /\ Len(s \o t) = Len(s) + Len(t)
        /\ \A i \in 1 .. Len(s) + Len(t) :
             (s \o t)[i] = IF i <= Len(s) THEN s[i] ELSE t[i - Len(s)]
    BY <1>1, ConcatProperties
  <2>2. Len(s) + Len(t) = 4
    BY <1>1
  <2> QED
    BY <1>1, <2>1, <2>2, Zenon
<1>3. \A i \in 1 .. 4 : u[i] = (s \o t)[i]
  BY <1>1, <1>2
<1>4. u = s \o t
  BY <1>1, <1>2, <1>3, SeqEqual
<1> QED
  BY <1>4 DEF s, t, u

LEMMA WordIsNat ==
  ASSUME NEW t, t[3] \in Byte, t[4] \in Byte
  PROVE  Word(t, 3) \in Nat
<1> DEFINE h == t[3]
           l == t[4]
<1>1. h \in Nat /\ l \in Nat
  BY DEF Byte
<1>2. Word(t, 3) = h * 256 + l
  BY DEF Word
<1> HIDE DEF h, l
<1> QED
  BY <1>1, <1>2

(* What another hub does, by the kind of the frame. *)
LEMMA HubKinds ==
  ASSUME NEW r \in Role, NEW f, f.function_code \in Byte
  PROVE  LET code == f.function_code
             data == f.data
         IN  /\ IsException(code) =>
                  SentByHub(r, f) = SendRaw(<<f.address, code, data[1]>>)
             /\ r = "CLIENT" /\ HasLength(r, code) =>
                  SentByHub(r, f) = Send("SERVER", f.address, code, 0, 0, data)
             /\ r = "SERVER" /\ code \in 1 .. 4 =>
                  SentByHub(r, f) =
                    Send("CLIENT", f.address, code, Word(data, 1), Word(data, 3), NoPayload)
             /\ r = "SERVER" /\ code = WRITE_SINGLE_REGISTER =>
                  SentByHub(r, f) =
                    Send("CLIENT", f.address, code, Word(data, 1), 1, SubSeq(data, 3, 4))
             /\ IsWriteMultiple(r, code) =>
                  SentByHub(r, f) =
                    Send("CLIENT", f.address, code, Word(data, 1), Word(data, 3),
                         SubSeq(data, 6, Len(data)))
             /\ ~( \/ IsException(code) \/ HasLength(r, code) \/ IsWriteMultiple(r, code)
                   \/ r = "SERVER" /\ code \in 1 .. 4
                   \/ r = "SERVER" /\ code = WRITE_SINGLE_REGISTER )
                => SentByHub(r, f) = SendRaw(<<f.address, code>> \o data)
<1> DEFINE code == f.function_code
           data == f.data
           error == SendError(f.address, code - 128, data[1])
           response == Send("SERVER", f.address, code, 0, 0, data)
           read == Send("CLIENT", f.address, code, Word(data, 1), Word(data, 3), NoPayload)
           write == Send("CLIENT", f.address, code, Word(data, 1), 1, SubSeq(data, 3, 4))
           writes == Send("CLIENT", f.address, code, Word(data, 1), Word(data, 3),
                          SubSeq(data, 6, Len(data)))
           other == SendRaw(<<f.address, code>> \o data)
<1>1. SentByHub(r, f) =
        CASE IsException(code) -> error
          [] r = "CLIENT" /\ HasLength(r, code) -> response
          [] r = "SERVER" /\ code \in 1 .. 4 -> read
          [] r = "SERVER" /\ code = WRITE_SINGLE_REGISTER -> write
          [] IsWriteMultiple(r, code) -> writes
          [] OTHER -> other
  BY DEF SentByHub
<1>2. code \in Byte
  OBVIOUS
<1>3. IsException(code) => error = SendRaw(<<f.address, code, data[1]>>)
  <2> HIDE DEF code
  <2> SUFFICES ASSUME IsException(code)
               PROVE  (IF code - 128 < 128 THEN (code - 128) + 128 ELSE code - 128) = code
    BY Zenon DEF SendError
  <2> QED
    BY <1>2 DEF IsException, Byte
<1> HIDE DEF code, error, response, read, write, writes, other
<1>4. /\ r \in {"CLIENT", "SERVER"}
      /\ IsException(code) => code \notin 1 .. 4 /\ code # WRITE_SINGLE_REGISTER
                                /\ ~IsWriteMultiple(r, code) /\ ~HasLength(r, code)
      /\ code \in 1 .. 4 => code # WRITE_SINGLE_REGISTER /\ ~IsWriteMultiple(r, code)
      /\ code = WRITE_SINGLE_REGISTER => ~IsWriteMultiple(r, code)
      /\ IsWriteMultiple(r, code) => r = "SERVER"
  BY <1>2 DEF Role, Byte, IsException, IsWriteMultiple, HasLength, WRITE_SINGLE_REGISTER,
              WRITE_MULTIPLE_REGISTERS
<1>5. IsException(code) => SentByHub(r, f) = error
  BY <1>1, <1>4
<1>6. r = "CLIENT" /\ HasLength(r, code) => SentByHub(r, f) = response
  BY <1>1, <1>4
<1>7. r = "SERVER" /\ code \in 1 .. 4 => SentByHub(r, f) = read
  BY <1>1, <1>4
<1>8. r = "SERVER" /\ code = WRITE_SINGLE_REGISTER => SentByHub(r, f) = write
  BY <1>1, <1>4
<1>9. IsWriteMultiple(r, code) => SentByHub(r, f) = writes
  BY <1>1, <1>4
<1>10. ~( \/ IsException(code) \/ HasLength(r, code) \/ IsWriteMultiple(r, code)
          \/ r = "SERVER" /\ code \in 1 .. 4
          \/ r = "SERVER" /\ code = WRITE_SINGLE_REGISTER )
       => SentByHub(r, f) = other
  BY <1>1, <1>4
<1> QED
  BY <1>3, <1>5, <1>6, <1>7, <1>8, <1>9, <1>10, Zenon
  DEF code, data, response, read, write, writes, other

(* In a request as in a response, the other hub sends the frame's body.    *)
LEMMA PeerSendsBody ==
  ASSUME HubRequests, NEW r \in Role, NEW f \in Frames[r]
  PROVE  SentByHub(r, f) = {Bytes(r, f)}
<1> DEFINE code == f.function_code
           a == f.address
           t == f.data
           d == Len(t)
<1>1. /\ a \in Byte /\ code \in Byte /\ t \in Seq(Byte) /\ d \in Nat /\ d < 252
      /\ HasRightLength(r, f) /\ EndsOnce(r, f)
  BY FrameFacts
<1>2. Bytes(r, f) = WithCrc(Body(r, f)) /\ Body(r, f) = Header(r, f) \o t
  BY DEF Bytes, Body, WithCrc
<1>3. /\ t # NoPayload
      /\ r \in {"CLIENT", "SERVER"}
      /\ r = "SERVER" => ~HasLength(r, code)
      /\ r = "SERVER" /\ code \in (1 .. 4) \cup {WRITE_MULTIPLE_REGISTERS} =>
           Word(t, 3) <= MAX_VALUES
  BY <1>1, PayloadAssumption DEF HubRequests, Role
<1>4. ~HasLength(r, code) => Body(r, f) = <<a, code>> \o t
  BY <1>2 DEF Header
<1>5. Len(<<a, code>> \o t) = 2 + d /\ <<a, code>> \o t # <<>>
  <2>1. <<a, code>> \in Seq(Byte) /\ Len(<<a, code>>) = 2
    BY <1>1
  <2>2. Len(<<a, code>> \o t) = 2 + d
    BY <1>1, <2>1, ConcatProperties
  <2>3. Len(<<>>) = 0 /\ 2 + d # 0
    BY <1>1
  <2> QED
    BY <2>2, <2>3
<1>6. CASE IsException(code)
  <2>1. d = 1 /\ ~HasLength(r, code)
    BY <1>1, <1>6, Kinds DEF HasRightLength
  <2>2. t = <<t[1]>>
    <3>1. t[1] \in Byte
      BY <1>1, <2>1, ElementOfSeq
    <3>2. <<t[1]>> \in Seq(Byte) /\ Len(<<t[1]>>) = 1 /\ <<t[1]>>[1] = t[1]
      BY <3>1
    <3>3. \A i \in 1 .. d : t[i] = <<t[1]>>[i]
      BY <2>1
    <3> QED
      BY <1>1, <2>1, <3>2, <3>3, SeqEqual
  <2>3. <<a, code>> \o t = <<a, code, t[1]>>
    <3>1. t[1] \in Byte
      BY <1>1, <2>1, ElementOfSeq
    <3>2. <<a, code>> \o <<t[1]>> = <<a, code, t[1]>>
      BY <1>1, <3>1, OneMore
    <3> QED
      BY <2>2, <3>2, Zenon
  <2>4. SentByHub(r, f) = SendRaw(<<a, code, t[1]>>)
    BY <1>1, <1>6, HubKinds
  <2>5. Len(<<a, code, t[1]>>) = 3 /\ <<a, code, t[1]>> # <<>>
    OBVIOUS
  <2>6. SendRaw(<<a, code, t[1]>>) = {WithCrc(<<a, code, t[1]>>)}
    BY <2>5 DEF SendRaw, MAX_FRAME_SIZE
  <2> QED
    BY <1>2, <1>4, <2>1, <2>3, <2>4, <2>6
<1>7. CASE HasLength(r, code)
  <2>1. r = "CLIENT" /\ ~IsException(code)
    BY <1>1, <1>3, <1>7, Kinds
  <2>2. SentByHub(r, f) = Send("SERVER", a, code, 0, 0, t)
    BY <1>1, <1>7, <2>1, HubKinds
  <2> DEFINE b == <<a, code>> \o <<>> \o (<<d>> \o t)
  <2>3. Requested("SERVER", code, 0, 0) = <<>> /\ Payload("SERVER", code, t) = <<d>> \o t
    <3>1. t # NoPayload
      BY <1>3
    <3> HIDE DEF t, code
    <3>2. Payload("SERVER", code, t) = <<d>> \o t
      BY <3>1 DEF Payload
    <3> QED
      BY <3>2 DEF Requested
  <2>4. b = <<a, code, d>> \o t /\ Len(b) = 3 + d
    <3>1. d \in Byte
      BY <1>1, EightBits
    <3>2. <<a, code>> \in Seq(Byte) /\ <<d>> \in Seq(Byte) /\ <<a, code, d>> \in Seq(Byte)
      BY <1>1, <3>1
    <3>3. <<a, code>> \o <<>> = <<a, code>>
      BY <3>2, ConcatEmptySeq
    <3>4. (<<a, code>> \o <<d>>) \o t = <<a, code>> \o (<<d>> \o t)
      BY <1>1, <3>2, Regrouped
    <3>5. <<a, code>> \o <<d>> = <<a, code, d>>
      BY <1>1, <3>1, OneMore
    <3>6. Len(<<a, code, d>> \o t) = 3 + d
      <4>1. Len(<<a, code, d>>) = 3
        OBVIOUS
      <4> QED
        BY <1>1, <3>2, <4>1, ConcatProperties
    <3> QED
      BY <3>3, <3>4, <3>5, <3>6
  <2>5. b = Body(r, f)
    BY <1>2, <1>7, <2>4 DEF Header
  <2>6. Send("SERVER", a, code, 0, 0, t) = {WithCrc(b)}
    <3>1. ~(0 > MAX_VALUES) /\ ~(Len(b) + 2 > MAX_FRAME_SIZE)
      BY <1>1, <2>4 DEF MAX_VALUES, MAX_FRAME_SIZE
    <3> HIDE DEF d, t
    <3> QED
      BY <2>3, <3>1, Zenon DEF Send
  <2> QED
    BY <1>2, <2>2, <2>5, <2>6
<1>8. CASE r = "SERVER" /\ code \in 1 .. 4
  <2>1. d = 4 /\ ~HasLength(r, code) /\ ~IsException(code) /\ Word(t, 3) <= MAX_VALUES
    BY <1>1, <1>3, <1>8, Kinds DEF HasRightLength, FixedLength
  <2>2. SentByHub(r, f) = Send("CLIENT", a, code, Word(t, 1), Word(t, 3), NoPayload)
    BY <1>1, <1>8, HubKinds
  <2>3. Requested("CLIENT", code, Word(t, 1), Word(t, 3)) = t
    <3>1. /\ t[1] \in Byte /\ t[2] \in Byte /\ t[3] \in Byte /\ t[4] \in Byte
          /\ t = <<t[1], t[2], t[3], t[4]>>
      BY <1>1, <2>1, FourBytes
    <3>2. /\ HighByte(Word(t, 1)) = t[1] /\ LowByte(Word(t, 1)) = t[2]
          /\ HighByte(Word(t, 3)) = t[3] /\ LowByte(Word(t, 3)) = t[4]
      BY <3>1, WordParts DEF Word
    <3>3. code \notin {5, 6}
      BY <1>8
    <3>4. Requested("CLIENT", code, Word(t, 1), Word(t, 3))
            = <<HighByte(Word(t, 1)), LowByte(Word(t, 1)),
                HighByte(Word(t, 3)), LowByte(Word(t, 3))>>
      BY <3>3 DEF Requested
    <3> QED
      BY <3>1, <3>2, <3>4
  <2>4. Payload("CLIENT", code, NoPayload) = <<>>
    BY DEF Payload
  <2>5. (<<a, code>> \o t) \o <<>> = <<a, code>> \o t
    <3>1. <<a, code>> \in Seq(Byte)
      BY <1>1
    <3>2. <<a, code>> \o t \in Seq(Byte)
      BY <1>1, <3>1, ConcatProperties
    <3> QED
      BY <3>2, ConcatEmptySeq
  <2>6. ~(Word(t, 3) > MAX_VALUES)
    <3>1. Word(t, 3) \in Nat
      BY <1>1, <2>1, FourBytes, WordIsNat
    <3> QED
      BY <2>1, <3>1 DEF MAX_VALUES
  <2>7. SentByHub(r, f) = {WithCrc(<<a, code>> \o t)}
    <3> HIDE DEF t
    <3> QED
      BY <2>2, <2>3, <2>4, <2>5, <2>6 DEF Send
  <2> QED
    BY <1>2, <1>4, <2>1, <2>7
<1>9. CASE r = "SERVER" /\ code = WRITE_SINGLE_REGISTER
  <2>1. /\ d = 4 /\ ~HasLength(r, code) /\ ~IsException(code)
        /\ code = 6 /\ code \notin 1 .. 4
    BY <1>1, <1>9, Kinds DEF HasRightLength, FixedLength, WRITE_SINGLE_REGISTER
  <2> DEFINE p == SubSeq(t, 3, 4)
  <2>2. SentByHub(r, f) = Send("CLIENT", a, code, Word(t, 1), 1, p)
    BY <1>1, <1>9, HubKinds
  <2>3. /\ t[1] \in Byte /\ t[2] \in Byte /\ t[3] \in Byte /\ t[4] \in Byte
        /\ t = <<t[1], t[2], t[3], t[4]>> /\ p = <<t[3], t[4]>>
    BY <1>1, <2>1, FourBytes
  <2>4. Requested("CLIENT", code, Word(t, 1), 1) = <<t[1], t[2]>>
    <3>1. HighByte(Word(t, 1)) = t[1] /\ LowByte(Word(t, 1)) = t[2]
      BY <2>3, WordParts DEF Word
    <3> QED
      BY <2>1, <3>1 DEF Requested
  <2>5. Payload("CLIENT", code, p) = <<t[3], t[4]>>
    <3>1. <<t[3], t[4]>> \in Seq(Byte) /\ Len(<<t[3], t[4]>>) = 2
      BY <2>3
    <3>2. SubSeq(p, 1, 2) = p
      <4> HIDE DEF p
      <4> QED
        BY <2>3, <3>1, SubSeqFull
    <3>3. p # NoPayload /\ code \notin {15, 16}
      <4> HIDE DEF p, t, code
      <4>1. p \in Seq(Byte)
        BY <2>3, <3>1
      <4> QED
        BY <2>1, <4>1, PayloadAssumption
    <3> HIDE DEF p
    <3> QED
      BY <2>3, <3>2, <3>3 DEF Payload
  <2>6. <<a, code>> \o <<t[1], t[2]>> \o <<t[3], t[4]>> = <<a, code>> \o t
    <3> DEFINE s == <<a, code>>
               u == <<t[1], t[2]>>
               v == <<t[3], t[4]>>
    <3>1. u \o v = t
      BY <2>3, TwoAndTwo, Zenon
    <3>2. s \in Seq(Byte) /\ u \in Seq(Byte) /\ v \in Seq(Byte)
      BY <1>1, <2>3
    <3> HIDE DEF s, u, v, t
    <3>3. (s \o u) \o v = s \o (u \o v)
      BY <3>2, Regrouped
    <3> QED
      BY <3>1, <3>3 DEF s, u, v
  <2>7. ~(1 > MAX_VALUES) /\ ~(Len(<<a, code>> \o t) + 2 > MAX_FRAME_SIZE)
    BY <1>1, <1>5 DEF MAX_VALUES, MAX_FRAME_SIZE
  <2>8. SentByHub(r, f) = {WithCrc(<<a, code>> \o t)}
    <3> HIDE DEF t, p
    <3> QED
      BY <2>2, <2>4, <2>5, <2>6, <2>7, Zenon DEF Send
  <2> QED
    BY <1>2, <1>4, <2>1, <2>8
<1>10. CASE IsWriteMultiple(r, code)
  <2>1. /\ r = "SERVER" /\ code = 16 /\ ~HasLength(r, code) /\ ~IsException(code)
        /\ code \notin 1 .. 4 /\ code # WRITE_SINGLE_REGISTER
        /\ d >= 5 /\ d = 5 + t[5] /\ Word(t, 3) <= MAX_VALUES
    BY <1>1, <1>3, <1>10, Kinds DEF HasRightLength, IsWriteMultiple,
       WRITE_SINGLE_REGISTER, WRITE_MULTIPLE_REGISTERS
  <2> DEFINE p == SubSeq(t, 6, d)
  <2>2. SentByHub(r, f) = Send("CLIENT", a, code, Word(t, 1), Word(t, 3), p)
    BY <1>1, <1>10, HubKinds
  <2>3. /\ t[1] \in Byte /\ t[2] \in Byte /\ t[3] \in Byte /\ t[4] \in Byte
        /\ p \in Seq(Byte) /\ Len(p) = d - 5
        /\ t = <<t[1], t[2], t[3], t[4], t[5]>> \o p
    BY <1>1, <2>1, CountedData
  <2>4. Requested("CLIENT", code, Word(t, 1), Word(t, 3)) = <<t[1], t[2], t[3], t[4]>>
    <3>1. /\ HighByte(Word(t, 1)) = t[1] /\ LowByte(Word(t, 1)) = t[2]
          /\ HighByte(Word(t, 3)) = t[3] /\ LowByte(Word(t, 3)) = t[4]
      BY <2>3, WordParts DEF Word
    <3> QED
      BY <2>1, <3>1 DEF Requested
  <2>5. t[5] \in Byte /\ Len(p) = t[5]
    <3>1. t[5] \in Byte
      BY <1>1, <2>1, ElementOfSeq
    <3> DEFINE n == t[5]
    <3>2. n \in Byte
      BY <3>1
    <3>3. Len(p) = (5 + n) - 5
      BY <2>1, <2>3, Zenon
    <3> HIDE DEF n, p
    <3>4. (5 + n) - 5 = n
      BY <3>2 DEF Byte
    <3>5. Len(p) = n
      BY <3>3, <3>4, Zenon
    <3> QED
      BY <3>1, <3>5 DEF n
  <2>6. Payload("CLIENT", code, p) = <<t[5]>> \o p
    <3>1. p # NoPayload
      BY <2>3, PayloadAssumption
    <3> HIDE DEF p
    <3> QED
      BY <2>1, <2>5, <3>1 DEF Payload
  <2>7. <<a, code>> \o <<t[1], t[2], t[3], t[4]>> \o (<<t[5]>> \o p) = <<a, code>> \o t
    <3> DEFINE u == <<t[1], t[2], t[3], t[4]>>
               v == <<t[5]>>
               x == <<a, code>>
               w == <<t[1], t[2], t[3], t[4], t[5]>>
    <3>1. x \in Seq(Byte) /\ u \in Seq(Byte) /\ v \in Seq(Byte) /\ w = u \o v
      BY <1>1, <2>3, <2>5
    <3>2. t = w \o p
      BY <2>3
    <3> HIDE DEF u, v, x, w, p, t
    <3>3. v \o p \in Seq(Byte)
      BY <2>3, <3>1, ConcatProperties
    <3>4. (x \o u) \o (v \o p) = x \o (u \o (v \o p))
      BY <3>1, <3>3, Regrouped
    <3>5. p \in Seq(Byte)
      BY <2>3
    <3>6. (u \o v) \o p = u \o (v \o p)
      BY <3>1, <3>5, Regrouped
    <3> QED
      BY <3>1, <3>2, <3>4, <3>6 DEF u, v, x
  <2>8. ~(Word(t, 3) > MAX_VALUES) /\ ~(Len(<<a, code>> \o t) + 2 > MAX_FRAME_SIZE)
    <3>1. Word(t, 3) \in Nat
      BY <2>3, WordIsNat
    <3> QED
      BY <1>1, <1>5, <2>1, <3>1 DEF MAX_VALUES, MAX_FRAME_SIZE
  <2>9. SentByHub(r, f) = {WithCrc(<<a, code>> \o t)}
    <3> HIDE DEF t, p
    <3> QED
      BY <2>2, <2>4, <2>6, <2>7, <2>8, Zenon DEF Send
  <2> QED
    BY <1>2, <1>4, <2>1, <2>9
<1>11. CASE ~( \/ IsException(code) \/ HasLength(r, code) \/ IsWriteMultiple(r, code)
               \/ r = "SERVER" /\ code \in 1 .. 4
               \/ r = "SERVER" /\ code = WRITE_SINGLE_REGISTER )
  <2>1. SentByHub(r, f) = SendRaw(<<a, code>> \o t)
    BY <1>1, <1>11, HubKinds
  <2>2. SendRaw(<<a, code>> \o t) = {WithCrc(<<a, code>> \o t)}
    <3>1. ~(Len(<<a, code>> \o t) + 2 > MAX_FRAME_SIZE)
      BY <1>1, <1>5 DEF MAX_FRAME_SIZE
    <3> QED
      BY <1>5, <3>1, Zenon DEF SendRaw
  <2> QED
    BY <1>2, <1>4, <1>11, <2>1, <2>2
<1> QED
  BY <1>6, <1>7, <1>8, <1>9, <1>10, <1>11

(* Every response of a hub in the SERVER role, and every request of one in *)
(* the CLIENT role to read or write no more than 128 registers, is byte    *)
(* for byte the frame that the hub at the other end takes apart, whatever  *)
(* the checksum function is (send, send_raw, send_error and                *)
(* parse_modbus_byte_).                                                    *)
THEOREM HubsUnderstandEachOther ==
  ASSUME HubRequests
  PROVE  Spec => []PeersAgree
<1>1. ASSUME TypeOK PROVE PeersAgree
  <2> SUFFICES ASSUME frame # NoFrame
               PROVE  SentByHub(role, frame) = {Bytes(role, frame)}
    BY DEF PeersAgree
  <2>1. role \in Role /\ frame \in Frames[role]
    BY <1>1 DEF TypeOK
  <2> QED
    BY <2>1, PeerSendsBody
<1> QED
  BY <1>1, ParserTypeCorrect, PTL
=============================================================================
