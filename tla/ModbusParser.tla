----------------------------- MODULE ModbusParser -----------------------------
(***************************************************************************)
(* How the Modbus hub finds frames in the bytes it receives                *)
(* (Modbus::receive_and_parse_modbus_bytes_ and parse_modbus_byte_), in    *)
(* both of its roles, on a line that loses, garbles and invents bytes.     *)
(*                                                                         *)
(* A frame on the line has no mark at its beginning or its end: the hub    *)
(* knows them only by counting bytes from the last frame it has parsed, or *)
(* from the last silence.  Bytes are indexed from 1 here, from 0 in the    *)
(* code.                                                                   *)
(***************************************************************************)
EXTENDS ModbusFrames

CONSTANTS
  Devices,    \* devices_: the addresses of the registered devices
  Frames,     \* for each role, the frames that others send
  Noise,      \* the bytes that disturbances make
  NoFrame,    \* nothing is being sent
  MaxFaults,  \* bound: disturbances until the next silence
  MaxRx,      \* bound: unparsed bytes when a frame begins
  MaxAsked    \* bound: requests that are still to be answered

VARIABLES
  role,                  \* CLIENT or SERVER, configured
  disable_crc,           \* frames with a wrong checksum are accepted
  rx_buffer,             \* the bytes not yet parsed
  waiting_for_response,  \* address of a request that was sent, or 0
  calls,                 \* the handlers called for the last byte
  frame,                 \* the frame on the line, or NoFrame
  sent,                  \* how many of its bytes have been sent
  asked,                 \* requests that the others have not answered
  faults                 \* disturbances since the last silence

vars == <<role, disable_crc, rx_buffer, waiting_for_response, calls,
          frame, sent, asked, faults>>

-----------------------------------------------------------------------------
(***************************************************************************)
(* The frames of the others                                                *)
(***************************************************************************)

ChecksumMatches(raw, n) == Crc(SubSeq(raw, 1, n)) = <<raw[n + 1], raw[n + 2]>>

(* The lengths that frames of each kind have.  A user-defined frame must   *)
(* not happen to have a matching checksum before its end.                  *)
HasRightLength(r, f) ==
  CASE IsException(f.function_code) -> Len(f.data) = 1
    [] f.function_code \in FixedLength(r) -> Len(f.data) = 4
    [] IsWriteMultiple(r, f.function_code) ->
         Len(f.data) >= 5 /\ Len(f.data) = 5 + f.data[5]
    [] OTHER -> TRUE

EndsOnce(r, f) ==
  IsUserDefined(f.function_code) =>
    /\ Len(f.data) >= 1
    /\ \A n \in 2 .. Len(Body(r, f)) - 1 : ~ChecksumMatches(Bytes(r, f), n)

(* The 16 bits that begin at byte i. *)
Word(data, i) == data[i] * 256 + data[i + 1]

(* How another hub, whose role is then the other one, sends the frame.     *)
SentByHub(r, f) ==
  LET code == f.function_code
  IN  CASE IsException(code) -> SendError(f.address, code - 128, f.data[1])
        [] r = "CLIENT" /\ HasLength(r, code) ->
             Send("SERVER", f.address, code, 0, 0, f.data)
        [] r = "SERVER" /\ code \in 1 .. 4 ->
             Send("CLIENT", f.address, code, Word(f.data, 1), Word(f.data, 3), NoPayload)
        [] r = "SERVER" /\ code = WRITE_SINGLE_REGISTER ->
             Send("CLIENT", f.address, code, Word(f.data, 1), 1, SubSeq(f.data, 3, 4))
        [] IsWriteMultiple(r, code) ->
             Send("CLIENT", f.address, code, Word(f.data, 1), Word(f.data, 3),
                  SubSeq(f.data, 6, Len(f.data)))
        [] OTHER -> SendRaw(<<f.address, code>> \o f.data)

ASSUME FramesAssumption ==
  \A r \in Role : \A f \in Frames[r] :
    /\ f \in Frame
    /\ Len(f.data) < 252
    /\ Crc(Body(r, f)) \in Byte \X Byte
    /\ HasRightLength(r, f)
    /\ EndsOnce(r, f)

ASSUME LineAssumption ==
  /\ Devices \in Seq(Byte)
  /\ Noise \subseteq Byte
  /\ \A r \in Role : NoFrame \notin Frames[r]
  /\ {MaxFaults, MaxRx, MaxAsked} \subseteq Nat

-----------------------------------------------------------------------------
(***************************************************************************)
(* parse_modbus_byte_, for the bytes in the buffer with the new one        *)
(***************************************************************************)

(* Faulty variant of DataOffset: responses to writes are taken for         *)
(* responses to reads.                                                     *)
DataOffsetOfRead(r, code) == IF IsException(code) THEN 2 ELSE 3

DataOffset(r, code) ==
  CASE IsUserDefined(code) -> 1
    [] HasLength(r, code)  -> 3
    [] OTHER               -> 2

(* data_len is 8 bits wide.  The data of a user-defined frame reach to the *)
(* last two bytes received so far.                                         *)
DataLen(r, raw) ==
  CASE IsUserDefined(raw[2])            -> (Len(raw) - 3) % 256
    [] IsException(raw[2])              -> 1
    [] raw[2] \in FixedLength(r)        -> 4
    [] IsWriteMultiple(r, raw[2])       -> (5 + raw[7]) % 256
    [] OTHER                            -> raw[3]

DataEnd(r, raw) == DataOffset(r, raw[2]) + DataLen(r, raw)

(* Nothing can be said yet: for want of a header, of data or of the        *)
(* checksum, or because a user-defined frame ends only with a checksum     *)
(* that matches.                                                           *)
IsIncomplete(r, raw) ==
  \/ Len(raw) <= 3
  \/ IsWriteMultiple(r, raw[2]) /\ Len(raw) <= 6
  \/ Len(raw) < DataEnd(r, raw) + 2
  \/ IsUserDefined(raw[2]) /\ ~ChecksumMatches(raw, DataEnd(r, raw))

(* Faulty variant of IsAccepted: the checksum is never compared.           *)
IsAcceptedUnchecked(r, unchecked, raw) == ~IsIncomplete(r, raw)

IsAccepted(r, unchecked, raw) ==
  /\ ~IsIncomplete(r, raw)
  /\ unchecked \/ ChecksumMatches(raw, DataEnd(r, raw))

Data(r, raw) == SubSeq(raw, DataOffset(r, raw[2]) + 1, DataEnd(r, raw))

(* The call that a device of the frame's address gets, if any.  A server   *)
(* answers only requests to read or write registers; a client ignores an   *)
(* exception of a device that it has not asked.                            *)
Handler(r, waiting, address, code, data) ==
  CASE r = "SERVER" /\ code \in {READ_HOLDING_REGISTERS, READ_INPUT_REGISTERS} ->
         {[handler |-> "on_modbus_read_registers", function_code |-> code,
           data |-> <<Word(data, 1), Word(data, 3)>>]}
    [] r = "SERVER" /\ code \in {WRITE_SINGLE_REGISTER, WRITE_MULTIPLE_REGISTERS} ->
         {[handler |-> "on_modbus_write_registers", function_code |-> code, data |-> data]}
    [] r = "CLIENT" /\ IsException(code) /\ waiting = address ->
         {[handler |-> "on_modbus_error", function_code |-> code - 128, data |-> data]}
    [] r = "CLIENT" /\ ~IsException(code) ->
         {[handler |-> "on_modbus_data", function_code |-> 0, data |-> data]}
    [] OTHER -> {}

(* Each device of that address gets it. *)
CallsOf(r, waiting, address, code, data) ==
  {i \in 1 .. Len(Devices) : Devices[i] = address}
    \X Handler(r, waiting, address, code, data)

(* Faulty variant of ParseByte: a frame that does not parse stays in the   *)
(* buffer.                                                                 *)
ParseByteKeeping(byte) ==
  LET raw == Append(rx_buffer, byte)
      ok  == IsAccepted(role, disable_crc, raw)
  IN  /\ rx_buffer' = IF ok THEN <<>> ELSE raw
      /\ waiting_for_response' = IF ok THEN 0 ELSE waiting_for_response
      /\ calls' = IF ok
                  THEN CallsOf(role, waiting_for_response, raw[1], raw[2], Data(role, raw))
                  ELSE {}

(* Faulty variant of ParseByte: the wait for a response is over before the *)
(* devices are called.                                                     *)
ParseByteStopFirst(byte) ==
  LET raw == Append(rx_buffer, byte)
      ok  == IsAccepted(role, disable_crc, raw)
  IN  /\ rx_buffer' = IF IsIncomplete(role, raw) THEN raw ELSE <<>>
      /\ waiting_for_response' = IF ok THEN 0 ELSE waiting_for_response
      /\ calls' = IF ok
                  THEN CallsOf(role, 0, raw[1], raw[2], Data(role, raw))
                  ELSE {}

(* A byte completes a frame, shows that there is none, or neither.  Both   *)
(* of the former empty the buffer.  Any frame ends the wait for a          *)
(* response.                                                               *)
ParseByte(byte) ==
  LET raw == Append(rx_buffer, byte)
      ok  == IsAccepted(role, disable_crc, raw)
  IN  /\ rx_buffer' = IF IsIncomplete(role, raw) THEN raw ELSE <<>>
      /\ waiting_for_response' = IF ok THEN 0 ELSE waiting_for_response
      /\ calls' = IF ok
                  THEN CallsOf(role, waiting_for_response, raw[1], raw[2], Data(role, raw))
                  ELSE {}

-----------------------------------------------------------------------------
(***************************************************************************)
(* The hub                                                                 *)
(***************************************************************************)

Init ==
  /\ role \in Role
  /\ disable_crc \in BOOLEAN
  /\ rx_buffer = <<>>
  /\ waiting_for_response = 0
  /\ calls = {}
  /\ frame = NoFrame
  /\ sent = 0
  /\ asked = 0
  /\ faults = 0

Config == <<role, disable_crc>>

(* The next byte of the frame on the line passes. *)
PassByte ==
  LET isLast == sent + 1 = Len(Bytes(role, frame))
  IN  /\ frame # NoFrame
      /\ sent' = IF isLast THEN 0 ELSE sent + 1
      /\ frame' = IF isLast THEN NoFrame ELSE frame

ReceiveByte ==
  /\ PassByte
  /\ ParseByte(Bytes(role, frame)[sent + 1])
  /\ UNCHANGED <<Config, asked, faults>>

(* "timeout after partial response".  It is a disturbance if the frame was *)
(* not yet over, because its sender paused or the main loop came late.     *)
ClearStaleBytes ==
  /\ rx_buffer # <<>>
  /\ sent > 0 => faults < MaxFaults
  /\ rx_buffer' = <<>>
  /\ calls' = {}
  /\ faults' = IF sent > 0 THEN faults + 1 ELSE 0
  /\ UNCHANGED <<Config, waiting_for_response, frame, sent, asked>>

(* "Stop waiting for response" *)
StopWaiting ==
  /\ waiting_for_response # 0
  /\ rx_buffer # <<>> => rx_buffer[1] # waiting_for_response
  /\ waiting_for_response' = 0
  /\ calls' = {}
  /\ UNCHANGED <<Config, rx_buffer, frame, sent, asked, faults>>

(* The line seems silent in the middle of a frame. *)
Interrupts == role = "CLIENT" /\ sent > 0

(* Faulty variant of SendNextFrame: bytes not yet parsed are no reason to  *)
(* wait.                                                                   *)
SendNextFrameAnyway(address) ==
  /\ asked < MaxAsked
  /\ role = "CLIENT" => waiting_for_response = 0
  /\ Interrupts => faults < MaxFaults
  /\ waiting_for_response' = IF role = "CLIENT" THEN address ELSE 0
  /\ calls' = {}
  /\ asked' = asked + 1
  /\ faults' = IF Interrupts THEN faults + 1 ELSE faults
  /\ UNCHANGED <<Config, rx_buffer, frame, sent>>

(* A client sends a request when it awaits neither bytes nor a response    *)
(* and none have come for a while (tx_blocked).  In the middle of a frame  *)
(* that is a disturbance, as in ClearStaleBytes.  To a server others send  *)
(* requests.                                                               *)
SendNextFrame(address) ==
  /\ asked < MaxAsked
  /\ role = "CLIENT" => rx_buffer = <<>> /\ waiting_for_response = 0
  /\ Interrupts => faults < MaxFaults
  /\ waiting_for_response' = IF role = "CLIENT" THEN address ELSE 0
  /\ calls' = {}
  /\ asked' = asked + 1
  /\ faults' = IF Interrupts THEN faults + 1 ELSE faults
  /\ UNCHANGED <<Config, rx_buffer, frame, sent>>

-----------------------------------------------------------------------------
(***************************************************************************)
(* The line (external)                                                     *)
(***************************************************************************)

(* Somebody answers a request, perhaps long after it was sent; or never.   *)
BeginFrame(f) ==
  /\ frame = NoFrame /\ asked > 0
  /\ Len(rx_buffer) <= MaxRx
  /\ frame' = f
  /\ asked' = asked - 1
  /\ calls' = {}
  /\ UNCHANGED <<Config, rx_buffer, waiting_for_response, sent, faults>>

NeverAnswer ==
  /\ asked > 0
  /\ asked' = asked - 1
  /\ calls' = {}
  /\ UNCHANGED <<Config, rx_buffer, waiting_for_response, frame, sent, faults>>

LoseByte ==
  /\ faults < MaxFaults
  /\ faults' = faults + 1
  /\ calls' = {}
  /\ PassByte
  /\ UNCHANGED <<Config, rx_buffer, waiting_for_response, asked>>

NoiseByte(byte) ==
  /\ faults < MaxFaults
  /\ faults' = faults + 1
  /\ ParseByte(byte)
  /\ UNCHANGED <<Config, frame, sent, asked>>

GarbleByte(byte) ==
  /\ faults < MaxFaults
  /\ faults' = faults + 1
  /\ PassByte
  /\ byte # Bytes(role, frame)[sent + 1]
  /\ ParseByte(byte)
  /\ UNCHANGED <<Config, asked>>

-----------------------------------------------------------------------------
Next ==
  \/ ReceiveByte
  \/ ClearStaleBytes
  \/ StopWaiting
  \/ \E a \in {Devices[i] : i \in 1 .. Len(Devices)} : SendNextFrame(a)
  \/ \E f \in Frames[role] : BeginFrame(f)
  \/ NeverAnswer
  \/ LoseByte
  \/ \E byte \in Noise : NoiseByte(byte) \/ GarbleByte(byte)

Spec == Init /\ [][Next]_vars

(* A frame that was begun goes on, and the main loop notices a silence.    *)
FairSpec ==
  Spec /\ WF_<<frame, sent>>(PassByte) /\ WF_vars(sent = 0 /\ ClearStaleBytes)

-----------------------------------------------------------------------------
(***************************************************************************)
(* Properties                                                              *)
(***************************************************************************)

(* The hub never keeps bytes once they are a frame or cannot become one    *)
(* any more, so that all but user-defined frames bound its buffer; and     *)
(* only a client awaits responses (parse_modbus_byte_, clear_rx_buffer_).  *)
TypeOK ==
  /\ role \in Role /\ disable_crc \in BOOLEAN
  /\ rx_buffer \in Seq(Byte)
  /\ rx_buffer # <<>> => IsIncomplete(role, rx_buffer)
  /\ waiting_for_response \in IF role = "CLIENT" THEN Byte ELSE {0}
  /\ frame \in Frames[role] \cup {NoFrame}
  /\ sent \in IF frame = NoFrame THEN {0} ELSE 0 .. Len(Bytes(role, frame)) - 1
  /\ asked \in 0 .. MaxAsked
  /\ faults \in 0 .. MaxFaults

(* What the hub has not parsed is what it has of the frame on the line.    *)
InStep == rx_buffer = IF frame = NoFrame THEN <<>> ELSE SubSeq(Bytes(role, frame), 1, sent)

(* A hub that is in step with the frames gets out of step only by a        *)
(* disturbance: the lengths it reads from function codes and headers are   *)
(* those of the frames, of every kind and however they follow each other   *)
(* (the offsets and lengths of parse_modbus_byte_).                        *)
StaysInStep == [][InStep /\ ~InStep' => faults' > faults]_vars

(* Two hubs understand each other: what send, send_raw and send_error make *)
(* in one role is, byte for byte, the frame that parse_modbus_byte_ takes  *)
(* apart in the other.                                                     *)
PeersAgree == frame # NoFrame => SentByHub(role, frame) = {Bytes(role, frame)}

DataSeen(f) ==
  IF IsUserDefined(f.function_code) THEN <<f.function_code>> \o f.data ELSE f.data

(* When the hub is in step, the last byte of a frame makes it call the     *)
(* devices with the very content of the frame, and ends the wait for a     *)
(* response, not before the exception of a device is compared with it.     *)
WholeFramesHeard ==
  [][InStep /\ ReceiveByte /\ sent' = 0 =>
       /\ calls' = CallsOf(role, waiting_for_response, frame.address,
                           frame.function_code, DataSeen(frame))
       /\ waiting_for_response' = 0]_vars

Heard(r, f) == CallsOf(r, f.address, f.address, f.function_code, DataSeen(f))

(* Whatever bytes are lost, garbled or invented, even if the hub is out of *)
(* step, it never takes anything but a frame for a frame, neither early    *)
(* nor twice nor changed.  Without checksums it promises nothing.          *)
Link == INSTANCE FrameLink WITH
  line  <- IF disable_crc THEN NoFrame ELSE frame,
  calls <- IF disable_crc THEN {} ELSE calls

OnlyFramesHeard == Link!Spec

(* When the disturbances cease, a client is in step again some time and    *)
(* for ever, for it sends no request before it has (tx_blocked, "timeout   *)
(* after partial response").                                               *)
BackInStep == role = "CLIENT" /\ <>[][faults' <= faults]_vars => <>[]InStep
=============================================================================
