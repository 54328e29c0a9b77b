----------------------------- MODULE ModbusHub -----------------------------
(***************************************************************************)
(* The Modbus hub of components/modbus in its CLIENT role, as operators on *)
(* the value of the hub object.  A hub is a record of                      *)
(*                                                                         *)
(*   tx_buffer             frames queued for sending                       *)
(*   waiting_for_response  first byte of the frame whose response is       *)
(*                         awaited, or 0                                   *)
(*   rx_buffer             what was received and not yet parsed            *)
(*   expired               the delays that have run out                    *)
(*                                                                         *)
(* Time is abstracted to which of the three delays that the hub compares   *)
(* with millis() have passed, since their lengths are configuration:       *)
(*                                                                         *)
(*   "gap"      no byte for so long that a partial frame is given up       *)
(*   "quiet"    the bus has been silent long enough to send                *)
(*   "overdue"  send_wait_time has passed since the last frame was sent    *)
(*                                                                         *)
(* A frame on the bus is received whole or in two parts.  Bytes that can   *)
(* no longer become a frame are Junk.  A checksum never matches by chance. *)
(***************************************************************************)
EXTENDS Naturals, Sequences

CONSTANTS
  MODBUS_TX_BUFFER_SIZE,  \* how many frames the hub queues
  NoBytes,                \* an empty UART or receive buffer
  Junk                    \* a receive buffer out of step with the frames

ASSUME TxBufferAssumption == MODBUS_TX_BUFFER_SIZE \in Nat \ {0}
ASSUME BytesAssumption == NoBytes # Junk

Byte == 0 .. 255

Timer == {"gap", "quiet", "overdue"}

Parts == {"whole", "head", "tail"}

Hub(Frame, Chunk) ==
  [tx_buffer            : Seq(Frame),
   waiting_for_response : Byte,
   rx_buffer            : Chunk \cup {NoBytes, Junk},
   expired              : SUBSET Timer]

InitHub ==
  [tx_buffer |-> <<>>, waiting_for_response |-> 0,
   rx_buffer |-> NoBytes, expired |-> {}]

-----------------------------------------------------------------------------

(* Faulty variant of TxBlocked: a response being awaited is no reason. *)
TxBlockedNotWaiting(h, uart) ==
  \/ uart # NoBytes
  \/ h.rx_buffer # NoBytes
  \/ "quiet" \notin h.expired

(* tx_blocked; uart is what the UART holds (available()). *)
TxBlocked(h, uart) ==
  \/ uart # NoBytes
  \/ h.rx_buffer # NoBytes
  \/ h.waiting_for_response # 0
  \/ "quiet" \notin h.expired

(* Faulty variant of ReadyForImmediateSend: unsent frames do not matter. *)
ReadyIfNotBlocked(h, uart) == ~TxBlocked(h, uart)

ReadyForImmediateSend(h, uart) == h.tx_buffer = <<>> /\ ~TxBlocked(h, uart)

(* send and queue_raw_: a frame for more than MAX_VALUES registers is      *)
(* refused, and one that finds the buffer full is dropped.                 *)
MAX_VALUES == 128

(* Faulty variant of Send: one frame too many is queued. *)
SendOneMore(h, number_of_entities, frame) ==
  IF number_of_entities > MAX_VALUES \/ Len(h.tx_buffer) > MODBUS_TX_BUFFER_SIZE
  THEN h
  ELSE [h EXCEPT !.tx_buffer = Append(h.tx_buffer, frame)]

Send(h, number_of_entities, frame) ==
  IF number_of_entities > MAX_VALUES \/ Len(h.tx_buffer) >= MODBUS_TX_BUFFER_SIZE
  THEN h
  ELSE [h EXCEPT !.tx_buffer = Append(h.tx_buffer, frame)]

-----------------------------------------------------------------------------
(***************************************************************************)
(* receive_and_parse_modbus_bytes_ and parse_modbus_byte_                  *)
(***************************************************************************)

(* The bytes received complete a frame and its checksum is right. *)
Completes(h, chunk) ==
  \/ h.rx_buffer = NoBytes /\ chunk.part = "whole"
  \/ /\ h.rx_buffer \notin {NoBytes, Junk}
     /\ chunk = [h.rx_buffer EXCEPT !.part = "tail"]

(* What the receive buffer may hold after the chunk.  A wrong checksum     *)
(* clears it, a missing byte leaves it waiting.                            *)
RxAfter(h, chunk) ==
  CASE Completes(h, chunk) -> {NoBytes}
    [] h.rx_buffer = NoBytes /\ chunk.part = "head" -> {chunk}
    [] OTHER -> {NoBytes, Junk}

(* Any complete frame, whoever it is from, ends the wait for a response:   *)
(* the comparison of the addresses is commented out.                       *)
WaitingAfter(h, chunk) ==
  IF Completes(h, chunk) THEN 0 ELSE h.waiting_for_response

(* All hubs that may result from reading what the UART holds.  Every byte  *)
(* restarts the delays counted from the last byte; the end of the wait     *)
(* makes its delay immaterial.                                             *)
Receive(h, uart) ==
  IF uart = NoBytes
  THEN {h}
  ELSE {[h EXCEPT !.rx_buffer = rx,
                  !.waiting_for_response = WaitingAfter(h, uart),
                  !.expired =
                    h.expired \ IF Completes(h, uart) THEN Timer ELSE {"gap", "quiet"}] :
          rx \in RxAfter(h, uart)}

(* A frame handed to on_modbus_data.  An exception goes to                 *)
(* on_modbus_error, which the Daly component does not override.            *)
Delivers(h, uart) ==
  uart # NoBytes /\ Completes(h, uart) /\ ~uart.frame.exception

-----------------------------------------------------------------------------
(***************************************************************************)
(* The other steps of loop()                                               *)
(***************************************************************************)

(* "timeout after partial response" *)
ClearStaleBytes(h) ==
  IF "gap" \in h.expired
  THEN [h EXCEPT !.rx_buffer = NoBytes, !.expired = h.expired \ {"gap"}]
  ELSE h

(* rx_buffer_[0], if there is one; the first byte of junk can be any.      *)
FirstBytes(h) ==
  CASE h.rx_buffer = NoBytes -> {NoBytes}
    [] h.rx_buffer = Junk -> Byte
    [] OTHER -> {h.rx_buffer.frame.address}

(* "Stop waiting for response": send_wait_time is over, and the receive    *)
(* buffer does not start with the byte awaited.                            *)
WaitForEver(h) == {h}   \* faulty variant of StopWaiting

StopWaiting(h) ==
  IF h.waiting_for_response # 0 /\ "overdue" \in h.expired
  THEN {IF first = h.waiting_for_response
        THEN h
        ELSE [h EXCEPT !.waiting_for_response = 0,
                       !.expired = h.expired \ {"overdue"}] : first \in FirstBytes(h)}
  ELSE {h}

(* send_next_frame_; loop() has just emptied the UART. *)
SendsNextFrame(h) == h.tx_buffer # <<>> /\ ~TxBlocked(h, NoBytes)

SendNextFrame(h) ==
  IF SendsNextFrame(h)
  THEN [h EXCEPT !.tx_buffer = Tail(h.tx_buffer),
                 !.waiting_for_response = Head(h.tx_buffer).address,
                 !.expired = h.expired \ {"quiet", "overdue"}]
  ELSE h

-----------------------------------------------------------------------------
(* The delays that can run out.  The two that only matter while bytes or a *)
(* response are awaited run only then.                                     *)
Running(h) ==
  {t \in Timer \ h.expired :
     /\ t = "gap" => h.rx_buffer # NoBytes
     /\ t = "overdue" => h.waiting_for_response # 0}

Expire(h, t) == [h EXCEPT !.expired = h.expired \cup {t}]
=============================================================================
