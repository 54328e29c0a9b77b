----------------------------- MODULE ModbusFrames -----------------------------
(***************************************************************************)
(* Modbus frames: the bytes of a frame, and how the hub and its devices    *)
(* make frames (Modbus::send, send_raw, ModbusDevice::send_error,          *)
(* ModbusDeviceCommand).                                                   *)
(***************************************************************************)
EXTENDS Naturals, Sequences

CONSTANTS
  Crc(_),      \* crc16: the two checksum bytes for a sequence of bytes
  NoPayload    \* no payload is given

Byte == 0 .. 255

ASSUME PayloadAssumption == NoPayload \notin Seq(Byte)

Role == {"CLIENT", "SERVER"}

READ_HOLDING_REGISTERS   == 3
READ_INPUT_REGISTERS     == 4
WRITE_SINGLE_REGISTER    == 6
WRITE_MULTIPLE_REGISTERS == 16

IsUserDefined(code) == code \in (65 .. 72) \cup (100 .. 110)
IsException(code)   == code >= 128

(* Function codes whose data begin after the function code and have a      *)
(* fixed length: 1-4 read and 5, 6, 15, 16 write coils and registers.      *)
FixedLength(r) == IF r = "SERVER" THEN {1, 2, 3, 4, 6} ELSE {5, 6, 15, 16}

(* The length of a request to write registers is in its 7th byte.          *)
IsWriteMultiple(r, code) == r = "SERVER" /\ code = WRITE_MULTIPLE_REGISTERS

(* All others have their length before their data.                         *)
HasLength(r, code) ==
  /\ ~IsUserDefined(code) /\ ~IsException(code)
  /\ code \notin FixedLength(r) /\ ~IsWriteMultiple(r, code)

(* A frame as its sender sees it. *)
Frame == [address : Byte, function_code : Byte, data : Seq(Byte)]

Header(r, f) ==
  IF HasLength(r, f.function_code)
  THEN <<f.address, f.function_code, Len(f.data)>>
  ELSE <<f.address, f.function_code>>

Body(r, f) == Header(r, f) \o f.data

(* The bytes that it sends. *)
Bytes(r, f) == Body(r, f) \o Crc(Body(r, f))

-----------------------------------------------------------------------------
(***************************************************************************)
(* Making frames.  A request to send that is refused makes none.           *)
(***************************************************************************)

MAX_VALUES     == 128
MAX_FRAME_SIZE == 256

HighByte(n) == n \div 256
LowByte(n)  == n % 256

WithCrc(bytes) == bytes \o Crc(bytes)

Requested(r, code, start_address, number_of_entities) ==
  CASE r = "SERVER" -> <<>>
    [] r = "CLIENT" /\ code \in {5, 6} -> <<HighByte(start_address), LowByte(start_address)>>
    [] OTHER -> <<HighByte(start_address), LowByte(start_address),
                  HighByte(number_of_entities), LowByte(number_of_entities)>>

(* A payload is counted in responses and in requests to write multiple     *)
(* coils or registers.  Of others only two bytes are sent.                 *)
Payload(r, code, payload) ==
  CASE payload = NoPayload -> <<>>
    [] payload # NoPayload /\ (r = "SERVER" \/ code \in {15, 16}) ->
         <<Len(payload)>> \o payload
    [] OTHER -> SubSeq(payload, 1, 2)

(* Faulty variant of Send: the bytes of the address are swapped. *)
SendSwapped(r, address, code, start_address, number_of_entities, payload) ==
  {WithCrc(<<address, code>>
           \o Requested(r, code, LowByte(start_address) * 256 + HighByte(start_address),
                        number_of_entities)
           \o Payload(r, code, payload))}

Send(r, address, code, start_address, number_of_entities, payload) ==
  LET bytes == <<address, code>>
                 \o Requested(r, code, start_address, number_of_entities)
                 \o Payload(r, code, payload)
  IN  IF \/ number_of_entities > MAX_VALUES /\ code <= WRITE_MULTIPLE_REGISTERS
         \/ payload # NoPayload /\ Len(bytes) + 2 > MAX_FRAME_SIZE
      THEN {}
      ELSE {WithCrc(bytes)}

SendRaw(payload) ==
  IF payload = <<>> \/ Len(payload) + 2 > MAX_FRAME_SIZE
  THEN {}
  ELSE {WithCrc(payload)}

SendError(address, code, exception_code) ==
  SendRaw(<<address, IF code < 128 THEN code + 128 ELSE code, exception_code>>)
=============================================================================
