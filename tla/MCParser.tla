------------------------------- MODULE MCParser -------------------------------
(***************************************************************************)
(* Values of the constants of ModbusParser for the run: real frames with   *)
(* the real checksum.                                                      *)
(***************************************************************************)
EXTENDS ModbusParser, SequencesExt

(* Exclusive or of numbers of 4, 8 and 16 bits. *)
Bit(n, i) == (n \div 2^i) % 2
Xor4 == [a \in 0 .. 15, b \in 0 .. 15 |->
           LET bit(i) == ((Bit(a, i) + Bit(b, i)) % 2) * 2^i
           IN  bit(0) + bit(1) + bit(2) + bit(3)]
Xor8(a, b)  == 16 * Xor4[a \div 16, b \div 16] + Xor4[a % 16, b % 16]
Xor16(a, b) == 256 * Xor8(a \div 256, b \div 256) + Xor8(a % 256, b % 256)

(* crc16 with the polynomial 0xA001 and the initial value 0xFFFF, by table. *)
Shift(c) == IF c % 2 = 1 THEN Xor16(c \div 2, 40961) ELSE c \div 2
CrcTable ==
  [b \in Byte |-> FoldLeft(LAMBDA c, i : Shift(c), b, <<1, 2, 3, 4, 5, 6, 7, 8>>)]

Crc16(s) ==
  LET next(c, byte) == Xor16(c \div 256, CrcTable[Xor8(c % 256, byte)])
      crc == FoldLeft(next, 65535, s)
  IN  <<crc % 256, crc \div 256>>

F(address, code, data) == [address |-> address, function_code |-> code, data |-> data]

(* Responses to a read and a write, of a device registered twice, an       *)
(* exception, a user-defined frame, and a response of an unknown device.   *)
MCFrames ==
  [CLIENT |-> {F(1, 3, <<5, 131>>), F(1, 6, <<0, 3, 0, 1>>), F(2, 131, <<2>>),
               F(2, 65, <<3>>), F(3, 4, <<>>)},
   SERVER |-> {F(1, 3, <<0, 3, 0, 1>>), F(2, 6, <<0, 1, 0, 6>>),
               F(1, 16, <<0, 1, 0, 1, 2, 3, 4>>), F(3, 65, <<3>>), F(2, 132, <<1>>)}]

(* The checksums of the frames are used so often that they have a table. *)
FrameCrcs ==
  LET bodies == UNION {{Body(r, f) : f \in MCFrames[r]} : r \in Role}
  IN  [b \in bodies |-> Crc16(b)]

MCCrc(s) == IF s \in DOMAIN FrameCrcs THEN FrameCrcs[s] ELSE Crc16(s)

MCDevices == <<1, 2, 1>>

MCNoise == {3, 255}
=============================================================================
