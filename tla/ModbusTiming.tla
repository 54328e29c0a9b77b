----------------------------- MODULE ModbusTiming -----------------------------
(***************************************************************************)
(* The clock of the Modbus hub in its CLIENT role: the delays of setup(),  *)
(* loop(), tx_blocked() and send_next_frame_(), against a line on which    *)
(* bytes take time and a UART that hands them over in chunks.              *)
(*                                                                         *)
(* A step of the clock is a millisecond.  loop() is not atomic here: the   *)
(* clock goes on between its parts, each of which reads millis() anew.     *)
(* What the hub compares are differences of 32-bit times, so the variables *)
(* hold those differences: they wrap at Wrap, and at boot they count from  *)
(* 0 as if a byte and a frame had just passed.                             *)
(***************************************************************************)
EXTENDS Naturals

CONSTANTS
  CharTime,         \* 11 bits at the baud rate
  Threshold,        \* rx_full_threshold of the UART
  RxIdle,           \* characters of silence after which it hands over less
  turnaround_delay, \* configured
  send_wait_time,   \* configured
  RequestLen,       \* bytes of a request
  ResponseLens,     \* bytes of the responses
  MaxLatency,       \* bound: time a BMS takes to answer
  Wrap,             \* the range of millis()
  MaxPause,         \* time between two calls of loop()
  Slack             \* time between two parts of loop()

VARIABLES
  flow_control,   \* a pin switches the direction of the line; configured
  mirrors,        \* responses begin with the address of the request
  pc,             \* the part of loop() that is next
  lag,            \* time since the part before it
  queued,         \* a frame waits in tx_buffer_
  rx_size,        \* bytes in rx_buffer_
  waiting_for_response,  \* 0, or the first byte of the request
  last_modbus_byte,      \* time since the last byte, modulo Wrap
  last_send,             \* time since the last frame, modulo Wrap
  last_send_tx_offset,   \* what it took to send
  sending,        \* time until the frame is on the line
  reply,          \* the response on its way
  fifo, quiet,    \* bytes held back by the UART, for how long none came
  uart            \* bytes available to the hub

config == <<flow_control, mirrors>>
clocks == <<last_modbus_byte, last_send>>
line   == <<sending, reply, fifo, quiet, uart>>
hub    == <<queued, rx_size, waiting_for_response, last_send_tx_offset>>
vars   == <<config, pc, lag, clocks, line, hub>>

-----------------------------------------------------------------------------
(***************************************************************************)
(* setup()                                                                 *)
(***************************************************************************)

Larger(a, b) == IF a > b THEN a ELSE b

RX_FULL_THRESHOLD_UNSET         == 0
DEFAULT_LONG_RX_BUFFER_DELAY_MS == 50

frame_delay == Larger(2, (7 * CharTime) \div 2 + 1)

long_rx_buffer_delay ==
  IF Threshold # RX_FULL_THRESHOLD_UNSET
  THEN Threshold * CharTime + 1
  ELSE DEFAULT_LONG_RX_BUFFER_DELAY_MS

(* How long the first bytes of a response of n take to become available.   *)
FirstChunk(n) ==
  CharTime * IF n >= Threshold THEN Threshold ELSE n + RxIdle

(* How long the hub leaves the line to a request that begins with the      *)
(* byte.  One that begins with 0 leaves no trace in waiting_for_response_. *)
WaitTime(byte) ==
  IF byte = 0 THEN frame_delay + turnaround_delay ELSE send_wait_time

(* Times and sizes; every response has bytes. *)
ASSUME SizesAssumption ==
  /\ {CharTime, Threshold, turnaround_delay, send_wait_time, RequestLen, MaxLatency,
      Wrap, MaxPause, Slack} \subseteq Nat
  /\ ResponseLens \subseteq Nat \ {0}

(* The UART hands over a part of a chunk after a silence of at most two    *)
(* characters.  millis() does not wrap while the hub waits, and between    *)
(* two wraps there is time for a round of loop() that no delay blocks.     *)
Round == MaxPause + 4 * Slack
Blocked(offset) == offset + frame_delay + turnaround_delay

ASSUME TimingAssumption ==
  /\ CharTime > 0 /\ Threshold > RxIdle /\ RxIdle \in 1 .. 2 /\ Slack <= 1
  /\ Wrap > CharTime * RequestLen + 1 + send_wait_time + Round
  /\ Wrap > long_rx_buffer_delay + Round
  /\ Wrap > Blocked(0) + Blocked(CharTime * RequestLen + 1) + 2 * Round

-----------------------------------------------------------------------------
NoReply == [due |-> 0, left |-> 0, length |-> 0, prompt |-> FALSE]

Init ==
  /\ flow_control \in BOOLEAN
  /\ mirrors \in BOOLEAN
  /\ pc = "receive" /\ lag = 0
  /\ queued = FALSE
  /\ rx_size = 0
  /\ waiting_for_response = 0
  /\ last_modbus_byte = 0 /\ last_send = 0 /\ last_send_tx_offset = 0
  /\ sending = 0 /\ reply = NoReply
  /\ fifo = 0 /\ quiet = 0 /\ uart = 0

Goto(part) == pc' = part /\ lag' = 0

-----------------------------------------------------------------------------
(***************************************************************************)
(* loop()                                                                  *)
(***************************************************************************)

(* Faulty variant of RxAfter: the buffer is cleared only by the timeout.   *)
RxAfterKeeping == rx_size + uart

(* The bytes are the next ones of a response, complete it or do not parse. *)
RxAfter == IF rx_size + uart < reply.length THEN rx_size + uart ELSE 0

(* receive_and_parse_modbus_bytes_                                         *)
Receive ==
  /\ pc = "receive"
  /\ Goto("timeout")
  /\ IF uart = 0
     THEN UNCHANGED <<rx_size, waiting_for_response, last_modbus_byte>>
     ELSE /\ rx_size' = RxAfter
          /\ waiting_for_response' =
               IF rx_size + uart = reply.length THEN 0 ELSE waiting_for_response
          /\ last_modbus_byte' = 0
  /\ uart' = 0
  /\ UNCHANGED <<config, last_send, sending, reply, fifo, quiet, queued, last_send_tx_offset>>

(* Faulty variant of Timeout: long responses get no more time. *)
TimeoutShort == frame_delay

Timeout ==
  Larger(frame_delay, IF rx_size >= Threshold THEN long_rx_buffer_delay ELSE 0)

(* "timeout after partial response" *)
ClearStaleBytes ==
  /\ pc = "timeout"
  /\ Goto("overdue")
  /\ rx_size' = IF last_modbus_byte > Timeout THEN 0 ELSE rx_size
  /\ UNCHANGED <<config, clocks, line, queued, waiting_for_response, last_send_tx_offset>>

(* Faulty variant of IsOverdue: the buffer is not looked at, but whether a *)
(* byte has come since the request was sent.                               *)
IsOverdueUnheard ==
  /\ waiting_for_response # 0
  /\ last_send > last_send_tx_offset + send_wait_time
  /\ last_modbus_byte > last_send

IsOverdue ==
  /\ waiting_for_response # 0
  /\ last_send > last_send_tx_offset + send_wait_time
  /\ rx_size = 0 \/ ~mirrors

(* "Stop waiting for response" *)
StopWaiting ==
  /\ pc = "overdue"
  /\ Goto("send")
  /\ waiting_for_response' = IF IsOverdue THEN 0 ELSE waiting_for_response
  /\ UNCHANGED <<config, clocks, line, queued, rx_size, last_send_tx_offset>>

(* Faulty variant of TxBlocked: what the UART holds does not matter. *)
TxBlockedByBuffer ==
  \/ rx_size > 0
  \/ waiting_for_response # 0
  \/ last_send < last_send_tx_offset + frame_delay + turnaround_delay
  \/ last_modbus_byte < frame_delay + turnaround_delay

TxBlocked ==
  \/ uart > 0
  \/ rx_size > 0
  \/ waiting_for_response # 0
  \/ last_send < last_send_tx_offset + frame_delay + turnaround_delay
  \/ last_modbus_byte < frame_delay + turnaround_delay

(* A BMS answers with all or with all but the last byte of a response, or  *)
(* never.  While the hub sends, a response of before goes on or is lost.   *)
IsComing == reply.left > 0 \/ fifo > 0 \/ uart > 0

Lost == [reply EXCEPT !.left = 0, !.due = 0, !.prompt = FALSE]

Replies(byte) ==
  {[due |-> (RequestLen + 1) * CharTime + latency, left |-> n - missing, length |-> n,
    prompt |-> latency + FirstChunk(n - missing) <= WaitTime(byte)] :
     latency \in 0 .. MaxLatency, n \in ResponseLens, missing \in 0 .. 1}

(* send_next_frame_.  With a pin it waits until the frame is sent. *)
SendNextFrame(byte) ==
  /\ pc = "send"
  /\ queued /\ ~TxBlocked
  /\ queued' = FALSE
  /\ waiting_for_response' = byte
  /\ sending' = RequestLen * CharTime
  /\ IF flow_control
     THEN Goto("flush") /\ UNCHANGED <<last_send, last_send_tx_offset>>
     ELSE /\ Goto("receive")
          /\ last_send' = 0
          /\ last_send_tx_offset' = RequestLen * CharTime + 1
  /\ reply' \in {Lost} \cup IF IsComing THEN {reply} ELSE Replies(byte)
  /\ UNCHANGED <<config, last_modbus_byte, fifo, quiet, uart, rx_size>>

SendNothing ==
  /\ pc = "send"
  /\ ~queued \/ TxBlocked
  /\ Goto("receive")
  /\ UNCHANGED <<config, clocks, line, hub>>

Flush ==
  /\ pc = "flush"
  /\ sending = 0
  /\ Goto("receive")
  /\ last_send' = 0
  /\ last_send_tx_offset' = 0
  /\ UNCHANGED <<config, last_modbus_byte, line, queued, rx_size, waiting_for_response>>

Loop ==
  Receive \/ ClearStaleBytes \/ StopWaiting \/ SendNothing \/ Flush
    \/ \E byte \in 0 .. 1 : SendNextFrame(byte)

(* A component of the application sends a frame. *)
Enqueue ==
  /\ ~queued
  /\ queued' = TRUE
  /\ UNCHANGED <<config, pc, lag, clocks, line, rx_size, waiting_for_response,
                 last_send_tx_offset>>

-----------------------------------------------------------------------------
(***************************************************************************)
(* Time (external)                                                         *)
(***************************************************************************)

(* A byte of the response is over. *)
Arrives == reply.left > 0 /\ reply.due = 1

ReplyAfter ==
  CASE reply.left = 0 -> reply
    [] reply.left > 0 /\ reply.due > 1 -> [reply EXCEPT !.due = reply.due - 1]
    [] OTHER -> [reply EXCEPT !.left = reply.left - 1,
                              !.due = IF reply.left = 1 THEN 0 ELSE CharTime]

(* The UART holds bytes back until it has Threshold or none come any more. *)
UartAfter ==
  LET held == fifo + IF Arrives THEN 1 ELSE 0
      idle == IF Arrives \/ fifo = 0 THEN 0 ELSE quiet + 1
      hands_over == held >= Threshold \/ idle >= RxIdle * CharTime
  IN  /\ uart' = uart + IF hands_over THEN held ELSE 0
      /\ fifo' = IF hands_over THEN 0 ELSE held
      /\ quiet' = IF hands_over THEN 0 ELSE idle

(* The next part of loop() does not come later than this. *)
Patience ==
  CASE pc = "receive" -> MaxPause
    [] pc = "flush"   -> sending
    [] OTHER          -> Slack

Tick ==
  /\ IF pc = "flush" THEN sending > 0 /\ lag' = 0
                     ELSE lag < Patience /\ lag' = lag + 1
  /\ last_modbus_byte' = (last_modbus_byte + 1) % Wrap
  /\ last_send' = (last_send + 1) % Wrap
  /\ sending' = IF sending = 0 THEN 0 ELSE sending - 1
  /\ reply' = ReplyAfter
  /\ UartAfter
  /\ UNCHANGED <<config, pc, hub>>

Next == Loop \/ Enqueue \/ Tick

Spec == Init /\ [][Next]_vars

(* Time passes, and the main loop goes round. *)
FairSpec == Spec /\ WF_vars(Tick) /\ WF_vars(Loop)

-----------------------------------------------------------------------------
(***************************************************************************)
(* Properties                                                              *)
(***************************************************************************)

(* The hub never has more bytes than were sent, and holds no complete frame. *)
TypeOK ==
  /\ flow_control \in BOOLEAN /\ mirrors \in BOOLEAN /\ queued \in BOOLEAN
  /\ pc \in {"receive", "timeout", "overdue", "send", "flush"}
  /\ lag \in 0 .. Larger(MaxPause, Slack)
  /\ waiting_for_response \in 0 .. 1
  /\ {last_modbus_byte, last_send} \subseteq 0 .. Wrap - 1
  /\ last_send_tx_offset \in {0, RequestLen * CharTime + 1}
  /\ reply.length \in ResponseLens \cup {0}
  /\ rx_size + uart + fifo + reply.left <= reply.length
  /\ rx_size = 0 \/ rx_size < reply.length

(* A response whose bytes follow each other without a pause is never given *)
(* up half-way, however long it is and however the UART divides it: there  *)
(* is nothing more to come when the hub gives up what it has ("to avoid    *)
(* timeouts when the buffer is filling the back half of the response").    *)
NeverCut ==
  [][ClearStaleBytes /\ rx_size > 0 /\ rx_size' = 0 => ~IsComing]_vars

(* The hub never sends into a response that began in time.  In time means  *)
(* that the UART has its first bytes before send_wait_time is over, or for *)
(* a request that begins with 0 before the turnaround delay is (the checks *)
(* of loop() and tx_blocked, with the clock going on between them).        *)
NeverInterrupts ==
  [][\A byte \in 0 .. 1 : SendNextFrame(byte) => ~(reply.prompt /\ IsComing)]_vars

(* Whatever the BMSs do, and although the differences of times wrap, a     *)
(* queued frame is sent some time.                                         *)
FramesSent == queued ~> ~queued
=============================================================================
