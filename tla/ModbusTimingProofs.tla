-------------------------- MODULE ModbusTimingProofs --------------------------
(***************************************************************************)
(* Theorems about the clock of the Modbus hub (ModbusTiming), for all      *)
(* baud rates, UART thresholds, configured delays, response sizes and      *)
(* latencies: the types; that no response without pauses is given up       *)
(* half-way; and that the hub never sends into a response that began in    *)
(* time.  All of them hold however the differences of times wrap: a wrap   *)
(* makes a difference smaller, and the hub waits longer then.              *)
(***************************************************************************)
EXTENDS ModbusTiming, TLAPS

-----------------------------------------------------------------------------
(***************************************************************************)
(* Numbers                                                                 *)
(***************************************************************************)

(* Products, which the provers know little about. *)
LEMMA Products ==
  ASSUME NEW m \in Nat, NEW n \in Nat
  PROVE  /\ m * CharTime \in Nat
         /\ (m + 1) * CharTime = m * CharTime + CharTime
         /\ m <= n => m * CharTime <= n * CharTime
<1>1. CharTime \in Nat
  BY SizesAssumption
<1> QED
  BY <1>1

(* Differences of times wrap. *)
LEMMA Wraps ==
  ASSUME NEW x \in 0 .. Wrap - 1
  PROVE  (x + 1) % Wrap \in 0 .. Wrap - 1 /\ (x + 1) % Wrap <= x + 1
<1>1. Wrap \in Nat \ {0}
  BY SizesAssumption
<1> QED
  BY <1>1

(* The constants. *)
LEMMA Sizes ==
  /\ CharTime \in Nat \ {0} /\ Threshold \in Nat /\ RxIdle \in 1 .. 2 /\ Threshold > RxIdle
  /\ MaxPause \in Nat /\ Slack \in 0 .. 1 /\ Wrap \in Nat /\ MaxLatency \in Nat
  /\ RequestLen \in Nat /\ RequestLen * CharTime \in Nat
  /\ RxIdle * CharTime \in Nat /\ Threshold * CharTime \in Nat
  /\ CharTime <= RxIdle * CharTime
  /\ long_rx_buffer_delay = Threshold * CharTime + 1
  /\ frame_delay \in Nat /\ turnaround_delay \in Nat /\ send_wait_time \in Nat
  /\ \A byte : WaitTime(byte) \in Nat
  /\ ResponseLens \subseteq Nat \ {0}
<1>1. /\ CharTime \in Nat \ {0} /\ Threshold \in Nat /\ RxIdle \in 1 .. 2 /\ Threshold > RxIdle
      /\ MaxPause \in Nat /\ Slack \in 0 .. 1 /\ Wrap \in Nat /\ MaxLatency \in Nat
      /\ RequestLen \in Nat
      /\ turnaround_delay \in Nat /\ send_wait_time \in Nat
      /\ ResponseLens \subseteq Nat \ {0}
  BY SizesAssumption, TimingAssumption
<1>2. /\ RequestLen * CharTime \in Nat
      /\ RxIdle * CharTime \in Nat /\ Threshold * CharTime \in Nat
      /\ CharTime <= RxIdle * CharTime
  <2>1. 1 * CharTime = CharTime /\ 1 \in Nat /\ RxIdle \in Nat /\ 1 <= RxIdle
    BY <1>1
  <2> QED
    BY <1>1, <2>1, Products
<1>3. long_rx_buffer_delay = Threshold * CharTime + 1
  <2>1. Threshold # 0
    BY <1>1
  <2> QED
    BY <2>1 DEF long_rx_buffer_delay, RX_FULL_THRESHOLD_UNSET
<1>4. frame_delay \in Nat
  BY <1>1 DEF frame_delay, Larger
<1>5. \A byte : WaitTime(byte) \in Nat
  BY <1>1, <1>4 DEF WaitTime
<1> QED
  BY <1>1, <1>2, <1>3, <1>4, <1>5

-----------------------------------------------------------------------------
(***************************************************************************)
(* The line                                                                *)
(***************************************************************************)

(* Bytes of a response that the UART does not hand over yet. *)
MoreToCome == reply.left > 0 \/ fifo > 0

Reply == [due : Nat, left : Nat, length : ResponseLens \cup {0}, prompt : BOOLEAN]

(* The bytes of a response follow each other, so that the UART never takes *)
(* the time between two of them for the end.                               *)
LineInv ==
  /\ reply \in Reply
  /\ fifo \in 0 .. Threshold - 1
  /\ quiet \in Nat /\ uart \in Nat /\ rx_size \in Nat /\ sending \in Nat
  /\ reply.left > 0 =>
       /\ reply.due > 0
       /\ reply.due <= CharTime \/ (rx_size = 0 /\ fifo = 0 /\ uart = 0)
  /\ fifo = 0 => quiet = 0
  /\ fifo > 0 /\ reply.left > 0 => quiet + reply.due = CharTime
  /\ fifo > 0 /\ reply.left = 0 => quiet < RxIdle * CharTime

(* The kinds of milliseconds: a byte is still on its way, ... *)
ByteComing ==
  /\ reply.left > 0 /\ reply.due > 1
  /\ reply'.left = reply.left /\ reply'.due = reply.due - 1
  /\ fifo' = fifo /\ uart' = uart
  /\ quiet' = IF fifo = 0 THEN 0 ELSE quiet + 1

(* ... or it is over; the UART holds it back, ... *)
ByteHeld ==
  /\ reply.left > 0 /\ reply.due = 1
  /\ reply'.left = reply.left - 1
  /\ reply'.due = IF reply.left = 1 THEN 0 ELSE CharTime
  /\ fifo + 1 < Threshold /\ fifo' = fifo + 1 /\ uart' = uart
  /\ quiet' = 0

(* ... or has a full chunk; ... *)
ChunkFull ==
  /\ reply.left > 0 /\ reply.due = 1
  /\ reply'.left = reply.left - 1
  /\ reply'.due = IF reply.left = 1 THEN 0 ELSE CharTime
  /\ fifo + 1 = Threshold /\ fifo' = 0 /\ uart' = uart + Threshold
  /\ quiet' = 0

(* ... or the response is over and the UART has handed over all of it, ... *)
LineIdle ==
  /\ reply.left = 0 /\ fifo = 0
  /\ reply'.left = 0 /\ reply'.due = reply.due
  /\ fifo' = 0 /\ uart' = uart
  /\ quiet' = 0

(* ... or waits whether more bytes come, ... *)
Silence ==
  /\ reply.left = 0 /\ fifo > 0 /\ quiet + 1 < RxIdle * CharTime
  /\ reply'.left = 0 /\ reply'.due = reply.due
  /\ fifo' = fifo /\ uart' = uart
  /\ quiet' = quiet + 1

(* ... or has waited long enough. *)
LastChunk ==
  /\ reply.left = 0 /\ fifo > 0 /\ quiet + 1 >= RxIdle * CharTime
  /\ reply'.left = 0 /\ reply'.due = reply.due
  /\ fifo' = 0 /\ uart' = uart + fifo
  /\ quiet' = 0

LEMMA TickKinds ==
  ASSUME LineInv, Tick
  PROVE  /\ ByteComing \/ ByteHeld \/ ChunkFull \/ LineIdle \/ Silence \/ LastChunk
         /\ reply' \in Reply
         /\ reply'.length = reply.length /\ reply'.prompt = reply.prompt
<1>1. /\ reply \in Reply /\ fifo \in 0 .. Threshold - 1 /\ quiet \in Nat /\ uart \in Nat
      /\ reply.left \in Nat /\ reply.due \in Nat
      /\ reply' = ReplyAfter /\ UartAfter
  BY DEF LineInv, Reply, Tick
<1>2. /\ fifo = 0 => quiet = 0
      /\ reply.left > 0 => reply.due > 0
      /\ fifo > 0 /\ reply.left > 0 => quiet + reply.due = CharTime
  BY DEF LineInv
<1> DEFINE held == fifo + IF Arrives THEN 1 ELSE 0
           idle == IF Arrives \/ fifo = 0 THEN 0 ELSE quiet + 1
           hands_over == held >= Threshold \/ idle >= RxIdle * CharTime
<1>3. /\ uart' = uart + IF hands_over THEN held ELSE 0
      /\ fifo' = IF hands_over THEN 0 ELSE held
      /\ quiet' = IF hands_over THEN 0 ELSE idle
  BY <1>1 DEF UartAfter
<1>4. CASE reply.left > 0 /\ reply.due > 1
  <2>1. reply' = [reply EXCEPT !.due = reply.due - 1]
    BY <1>1, <1>4 DEF ReplyAfter
  <2>2. /\ reply' \in Reply
        /\ reply'.left = reply.left /\ reply'.due = reply.due - 1
        /\ reply'.length = reply.length /\ reply'.prompt = reply.prompt
    BY <1>1, <1>4, <2>1 DEF Reply
  <2>3. held = fifo /\ idle = IF fifo = 0 THEN 0 ELSE quiet + 1
    BY <1>1, <1>4 DEF Arrives
  <2>4. idle < CharTime
    BY <1>1, <1>2, <1>4, <2>3, Sizes
  <2>5. ~hands_over
    BY <1>1, <2>3, <2>4, Sizes
  <2> HIDE DEF held, idle, hands_over
  <2> QED
    BY <1>1, <1>3, <1>4, <2>2, <2>3, <2>5 DEF ByteComing
<1>5. CASE reply.left > 0 /\ reply.due = 1
  <2>1. reply' = [reply EXCEPT !.left = reply.left - 1,
                               !.due = IF reply.left = 1 THEN 0 ELSE CharTime]
    BY <1>1, <1>5 DEF ReplyAfter
  <2>2. reply.left - 1 \in Nat /\ (IF reply.left = 1 THEN 0 ELSE CharTime) \in Nat
    BY <1>1, <1>5, Sizes
  <2>3. /\ reply' \in Reply
        /\ reply'.left = reply.left - 1
        /\ reply'.due = IF reply.left = 1 THEN 0 ELSE CharTime
        /\ reply'.length = reply.length /\ reply'.prompt = reply.prompt
    BY <1>1, <2>1, <2>2, Zenon DEF Reply
  <2>4. held = fifo + 1 /\ idle = 0
    BY <1>1, <1>5 DEF Arrives
  <2>5. hands_over <=> fifo + 1 = Threshold
    BY <1>1, <2>4, Sizes
  <2> HIDE DEF held, idle, hands_over
  <2> QED
    BY <1>1, <1>3, <1>5, <2>3, <2>4, <2>5, Sizes DEF ByteHeld, ChunkFull
<1>6. CASE reply.left = 0
  <2>1. reply' = reply
    BY <1>1, <1>6 DEF ReplyAfter
  <2>2. held = fifo /\ idle = IF fifo = 0 THEN 0 ELSE quiet + 1
    BY <1>1, <1>6 DEF Arrives
  <2>3. hands_over <=> fifo > 0 /\ quiet + 1 >= RxIdle * CharTime
    BY <1>1, <2>2, Sizes
  <2> HIDE DEF held, idle, hands_over
  <2> QED
    BY <1>1, <1>3, <1>6, <2>1, <2>2, <2>3, Sizes DEF LineIdle, Silence, LastChunk
<1> QED
  BY <1>1, <1>2, <1>4, <1>5, <1>6

-----------------------------------------------------------------------------
(***************************************************************************)
(* Types                                                                   *)
(***************************************************************************)

(* What TypeOK says of the hub, without sums. *)
LEMMA TypeFields ==
  ASSUME TypeOK, LineInv
  PROVE  /\ reply.left \in Nat /\ reply.due \in Nat /\ reply.prompt \in BOOLEAN
         /\ reply.length \in Nat
         /\ fifo \in Nat /\ fifo < Threshold /\ quiet \in Nat /\ uart \in Nat /\ rx_size \in Nat
         /\ sending \in Nat /\ lag \in Nat
         /\ last_modbus_byte \in 0 .. Wrap - 1 /\ last_modbus_byte \in Nat
         /\ last_send \in 0 .. Wrap - 1 /\ last_send \in Nat
         /\ last_send_tx_offset \in Nat /\ Wrap > 0
<1>1. /\ reply.left \in Nat /\ reply.due \in Nat /\ reply.prompt \in BOOLEAN
      /\ reply.length \in Nat
  <2>1. reply \in Reply
    BY DEF LineInv
  <2>2. ResponseLens \cup {0} \subseteq Nat
    BY Sizes
  <2> QED
    BY <2>1, <2>2 DEF Reply
<1>2. /\ fifo \in Nat /\ fifo < Threshold /\ quiet \in Nat /\ uart \in Nat /\ rx_size \in Nat
      /\ sending \in Nat
  BY Sizes DEF LineInv
<1>3. lag \in Nat
  BY Sizes DEF TypeOK, Larger
<1>4. /\ last_modbus_byte \in 0 .. Wrap - 1 /\ last_modbus_byte \in Nat
      /\ last_send \in 0 .. Wrap - 1 /\ last_send \in Nat
      /\ last_send_tx_offset \in Nat /\ Wrap > 0
  BY Sizes DEF TypeOK
<1> QED
  BY <1>1, <1>2, <1>3, <1>4

LEMMA InitTypes == Init => TypeOK /\ LineInv
<1> SUFFICES ASSUME Init PROVE TypeOK /\ LineInv
  OBVIOUS
<1>1. reply \in Reply /\ reply.left = 0 /\ reply.length = 0
  BY DEF Init, NoReply, Reply
<1>2. LineInv
  BY <1>1, Sizes DEF Init, LineInv
<1>3. 0 \in 0 .. Larger(MaxPause, Slack) /\ 0 \in 0 .. Wrap - 1
  BY Sizes, TimingAssumption DEF Larger, Round
<1>4. rx_size + uart + fifo + reply.left <= reply.length
  BY <1>1 DEF Init
<1>5. /\ rx_size = 0 /\ last_send_tx_offset = 0 /\ last_modbus_byte = 0 /\ last_send = 0
      /\ lag = 0 /\ pc = "receive" /\ queued = FALSE /\ waiting_for_response = 0
      /\ flow_control \in BOOLEAN /\ mirrors \in BOOLEAN
  BY DEF Init
<1>6. /\ lag \in 0 .. Larger(MaxPause, Slack)
      /\ {last_modbus_byte, last_send} \subseteq 0 .. Wrap - 1
  BY <1>3, <1>5
<1>7. /\ reply.length \in ResponseLens \cup {0}
      /\ last_send_tx_offset \in {0, RequestLen * CharTime + 1}
      /\ waiting_for_response \in 0 .. 1
  BY <1>1, <1>5
<1>8. TypeOK
  BY <1>4, <1>5, <1>6, <1>7 DEF TypeOK
<1> QED
  BY <1>2, <1>8

(* A part of loop() begins as soon as the one before it is over. *)
LEMMA GotoType ==
  ASSUME NEW part \in {"receive", "timeout", "overdue", "send", "flush"}, Goto(part)
  PROVE  /\ pc' \in {"receive", "timeout", "overdue", "send", "flush"}
         /\ lag' \in 0 .. Larger(MaxPause, Slack)
BY Sizes DEF Goto, Larger

LEMMA ReceiveTypes ==
  ASSUME TypeOK, LineInv, Receive
  PROVE  TypeOK' /\ LineInv'
<1>1. /\ Goto("timeout") /\ uart' = 0
      /\ UNCHANGED <<config, last_send, sending, reply, fifo, quiet, queued, last_send_tx_offset>>
  BY DEF Receive
<1>2. /\ pc' \in {"receive", "timeout", "overdue", "send", "flush"}
      /\ lag' \in 0 .. Larger(MaxPause, Slack)
  BY <1>1, GotoType
<1>3. CASE uart = 0
  <2>1. UNCHANGED <<rx_size, waiting_for_response, last_modbus_byte>> /\ uart' = uart
    BY <1>1, <1>3 DEF Receive
  <2>2. LineInv'
    BY <1>1, <2>1 DEF LineInv
  <2>3. TypeOK'
    BY <1>1, <1>2, <2>1 DEF TypeOK, config
  <2> QED
    BY <2>2, <2>3
<1>4. CASE uart # 0
  <2>1. /\ rx_size' = RxAfter
        /\ waiting_for_response' =
             IF rx_size + uart = reply.length THEN 0 ELSE waiting_for_response
        /\ last_modbus_byte' = 0
    BY <1>4 DEF Receive
  <2>2. /\ rx_size' \in Nat
        /\ rx_size' + fifo + reply.left <= reply.length
        /\ rx_size' = 0 \/ rx_size' < reply.length
    BY <2>1, TypeFields DEF RxAfter, TypeOK
  <2>3. LineInv'
    BY <1>1, <1>4, <2>2, TypeFields DEF LineInv
  <2>4. last_modbus_byte' \in 0 .. Wrap - 1
    BY <2>1, TypeFields, Sizes
  <2>5. waiting_for_response' \in 0 .. 1
    BY <2>1 DEF TypeOK
  <2>6. rx_size' + uart' + fifo' + reply'.left <= reply'.length
    BY <1>1, <2>2, TypeFields
  <2> QED
    BY <1>1, <1>2, <2>2, <2>3, <2>4, <2>5, <2>6 DEF TypeOK, config
<1> QED
  BY <1>3, <1>4

LEMMA ClearStaleBytesTypes ==
  ASSUME TypeOK, LineInv, ClearStaleBytes
  PROVE  TypeOK' /\ LineInv'
<1>1. /\ Goto("overdue") /\ rx_size' \in {0, rx_size}
      /\ UNCHANGED <<config, clocks, line, queued, waiting_for_response, last_send_tx_offset>>
  BY DEF ClearStaleBytes
<1>2. /\ pc' \in {"receive", "timeout", "overdue", "send", "flush"}
      /\ lag' \in 0 .. Larger(MaxPause, Slack)
  BY <1>1, GotoType
<1>3. /\ rx_size' \in Nat
      /\ rx_size' + uart + fifo + reply.left <= reply.length
      /\ rx_size' = 0 \/ rx_size' < reply.length
  BY <1>1, TypeFields DEF TypeOK
<1>4. LineInv'
  BY <1>1, <1>3 DEF LineInv, line
<1> QED
  BY <1>1, <1>2, <1>3, <1>4 DEF TypeOK, config, clocks, line

LEMMA StopWaitingTypes ==
  ASSUME TypeOK, LineInv, StopWaiting
  PROVE  TypeOK' /\ LineInv'
<1>1. /\ Goto("send") /\ waiting_for_response' \in {0, waiting_for_response}
      /\ UNCHANGED <<config, clocks, line, queued, rx_size, last_send_tx_offset>>
  BY DEF StopWaiting
<1>2. /\ pc' \in {"receive", "timeout", "overdue", "send", "flush"}
      /\ lag' \in 0 .. Larger(MaxPause, Slack)
  BY <1>1, GotoType
<1>3. LineInv'
  BY <1>1 DEF LineInv, line
<1> QED
  BY <1>1, <1>2, <1>3 DEF TypeOK, config, clocks, line

(* The responses that may come after a request. *)
LEMMA RepliesType ==
  ASSUME NEW byte, NEW r \in Replies(byte)
  PROVE  /\ r \in Reply
         /\ r.left <= r.length
         /\ r.due > 0
         /\ \E latency \in 0 .. MaxLatency :
              /\ r.due = (RequestLen + 1) * CharTime + latency
              /\ r.prompt = (latency + FirstChunk(r.left) <= WaitTime(byte))
<1>1. PICK latency \in 0 .. MaxLatency, n \in ResponseLens, missing \in 0 .. 1 :
        r = [due |-> (RequestLen + 1) * CharTime + latency, left |-> n - missing, length |-> n,
             prompt |-> latency + FirstChunk(n - missing) <= WaitTime(byte)]
  BY DEF Replies
<1>2. n \in Nat \ {0} /\ n - missing \in Nat /\ n - missing <= n
  BY Sizes
<1>3. (RequestLen + 1) * CharTime = RequestLen * CharTime + CharTime
  BY Sizes, Products
<1>4. (RequestLen + 1) * CharTime + latency \in Nat \ {0}
  BY <1>3, Sizes
<1> DEFINE intime == latency + FirstChunk(n - missing) <= WaitTime(byte)
<1>5. intime \in BOOLEAN
  OBVIOUS
<1>6. /\ r.due = (RequestLen + 1) * CharTime + latency
      /\ r.left = n - missing /\ r.length = n /\ r.prompt = intime
  BY <1>1
<1> HIDE DEF intime
<1>7. r = [due |-> (RequestLen + 1) * CharTime + latency, left |-> n - missing, length |-> n,
           prompt |-> intime]
  BY <1>1 DEF intime
<1>8. r \in Reply
  BY <1>2, <1>4, <1>5, <1>7 DEF Reply
<1>9. r.prompt = (latency + FirstChunk(r.left) <= WaitTime(byte))
  BY <1>6 DEF intime
<1> QED
  BY <1>2, <1>4, <1>6, <1>8, <1>9

(* The response that may come once the hub has begun to send. *)
LEMMA SendReply ==
  ASSUME TypeOK, LineInv, NEW byte \in 0 .. 1, SendNextFrame(byte)
  PROVE  \/ /\ IsComing /\ reply' = reply
         \/ /\ reply' \in Reply /\ reply'.length = reply.length
            /\ reply'.left = 0 /\ reply'.prompt = FALSE
         \/ /\ ~IsComing /\ reply' \in Replies(byte)
<1>1. reply' = Lost \/ (IsComing /\ reply' = reply) \/ (~IsComing /\ reply' \in Replies(byte))
  BY DEF SendNextFrame
<1>2. /\ Lost \in Reply /\ Lost.length = reply.length
      /\ Lost.left = 0 /\ Lost.prompt = FALSE
  BY DEF Lost, LineInv, Reply
<1> QED
  BY <1>1, <1>2

LEMMA SendNextFrameTypes ==
  ASSUME TypeOK, LineInv, NEW byte \in 0 .. 1, SendNextFrame(byte)
  PROVE  TypeOK' /\ LineInv'
<1>1. /\ queued' = FALSE /\ waiting_for_response' = byte
      /\ sending' = RequestLen * CharTime
      /\ UNCHANGED <<config, last_modbus_byte, fifo, quiet, uart, rx_size>>
      /\ rx_size = 0 /\ uart = 0
  <2>1. ~(uart > 0) /\ ~(rx_size > 0)
    BY DEF SendNextFrame, TxBlocked
  <2> QED
    BY <2>1, TypeFields DEF SendNextFrame
<1>2. /\ pc' \in {"receive", "timeout", "overdue", "send", "flush"}
      /\ lag' \in 0 .. Larger(MaxPause, Slack)
      /\ last_send' \in 0 .. Wrap - 1
      /\ last_send_tx_offset' \in {0, RequestLen * CharTime + 1}
  <2>1. CASE flow_control
    BY <2>1, GotoType DEF SendNextFrame, TypeOK
  <2>2. CASE ~flow_control
    <3>1. 0 \in 0 .. Wrap - 1
      BY TypeFields, Sizes
    <3> QED
      BY <2>2, <3>1, GotoType DEF SendNextFrame
  <2> QED
    BY <2>1, <2>2
<1>3. LineInv' /\ reply'.length \in ResponseLens \cup {0} /\ fifo + reply'.left <= reply'.length
  <2>1. CASE reply' = reply
    <3>1. LineInv'
      BY <1>1, <2>1, Sizes DEF LineInv
    <3> QED
      BY <1>1, <2>1, <3>1, TypeFields DEF TypeOK
  <2>2. CASE reply' \in Reply /\ reply'.length = reply.length /\ reply'.left = 0
    <3>1. fifo > 0 => quiet < RxIdle * CharTime
      BY TypeFields, Sizes DEF LineInv
    <3>2. LineInv'
      BY <1>1, <2>2, <3>1, Sizes DEF LineInv
    <3> QED
      BY <1>1, <2>2, <3>2, TypeFields DEF TypeOK
  <2>3. CASE ~IsComing /\ reply' \in Replies(byte)
    <3>1. fifo = 0 /\ quiet = 0
      BY <2>3, TypeFields DEF IsComing, LineInv
    <3>2. reply' \in Reply /\ reply'.left <= reply'.length /\ reply'.due > 0
      BY <2>3, RepliesType
    <3>3. LineInv'
      BY <1>1, <3>1, <3>2, Sizes DEF LineInv
    <3> QED
      BY <3>1, <3>2, <3>3 DEF Reply
  <2> QED
    BY <2>1, <2>2, <2>3, SendReply
<1>4. rx_size' + uart' + fifo' + reply'.left <= reply'.length
  BY <1>1, <1>3 DEF LineInv, Reply
<1> QED
  BY <1>1, <1>2, <1>3, <1>4 DEF TypeOK, config

LEMMA FlushTypes ==
  ASSUME TypeOK, LineInv, Flush
  PROVE  TypeOK' /\ LineInv'
<1>1. /\ Goto("receive") /\ last_send' = 0 /\ last_send_tx_offset' = 0
      /\ UNCHANGED <<config, last_modbus_byte, line, queued, rx_size, waiting_for_response>>
  BY DEF Flush
<1>2. /\ pc' \in {"receive", "timeout", "overdue", "send", "flush"}
      /\ lag' \in 0 .. Larger(MaxPause, Slack)
  BY <1>1, GotoType
<1>3. LineInv'
  BY <1>1 DEF LineInv, line
<1>4. last_send' \in 0 .. Wrap - 1
  BY <1>1, TypeFields, Sizes
<1> QED
  BY <1>1, <1>2, <1>3, <1>4 DEF TypeOK, config, line

LEMMA OtherTypes ==
  ASSUME TypeOK, LineInv, SendNothing \/ Enqueue \/ UNCHANGED vars
  PROVE  TypeOK' /\ LineInv'
<1>1. UNCHANGED <<config, clocks, line, rx_size, waiting_for_response, last_send_tx_offset>>
  BY DEF SendNothing, Enqueue, vars, hub
<1>2. queued' \in BOOLEAN
  BY DEF SendNothing, Enqueue, vars, hub, TypeOK
<1>3. /\ pc' \in {"receive", "timeout", "overdue", "send", "flush"}
      /\ lag' \in 0 .. Larger(MaxPause, Slack)
  BY GotoType DEF SendNothing, Enqueue, vars, TypeOK
<1>4. LineInv'
  BY <1>1 DEF LineInv, line
<1> QED
  BY <1>1, <1>2, <1>3, <1>4 DEF TypeOK, config, clocks, line

(* A millisecond loses no byte and makes none. *)
LEMMA TickTypes ==
  ASSUME TypeOK, LineInv, Tick
  PROVE  TypeOK' /\ LineInv'
<1>1. /\ last_modbus_byte' = (last_modbus_byte + 1) % Wrap
      /\ last_send' = (last_send + 1) % Wrap
      /\ sending' = IF sending = 0 THEN 0 ELSE sending - 1
      /\ UNCHANGED <<config, pc, hub>>
  BY DEF Tick
<1>2. /\ ByteComing \/ ByteHeld \/ ChunkFull \/ LineIdle \/ Silence \/ LastChunk
      /\ reply' \in Reply
      /\ reply'.length = reply.length
      /\ reply'.left \in Nat /\ reply'.due \in Nat
  BY TickKinds DEF Reply
<1>3. sending' \in Nat
  BY <1>1, TypeFields
<1>4. /\ fifo' \in 0 .. Threshold - 1 /\ quiet' \in Nat /\ uart' \in Nat
      /\ uart' + fifo' + reply'.left = uart + fifo + reply.left
  BY <1>2, TypeFields, Sizes DEF ByteComing, ByteHeld, ChunkFull, LineIdle, Silence, LastChunk
<1>5. /\ reply'.left > 0 =>
           /\ reply'.due > 0
           /\ reply'.due <= CharTime \/ (rx_size = 0 /\ fifo' = 0 /\ uart' = 0)
      /\ fifo' = 0 => quiet' = 0
      /\ fifo' > 0 /\ reply'.left > 0 => quiet' + reply'.due = CharTime
      /\ fifo' > 0 /\ reply'.left = 0 => quiet' < RxIdle * CharTime
  <2>1. /\ reply.left > 0 => reply.due <= CharTime \/ (rx_size = 0 /\ fifo = 0 /\ uart = 0)
        /\ fifo = 0 => quiet = 0
        /\ fifo > 0 /\ reply.left > 0 => quiet + reply.due = CharTime
        /\ fifo > 0 /\ reply.left = 0 => quiet < RxIdle * CharTime
    BY DEF LineInv
  <2>2. CASE ByteComing
    BY <2>1, <2>2, TypeFields, Sizes DEF ByteComing
  <2>3. CASE ByteHeld
    BY <2>1, <2>3, TypeFields, Sizes DEF ByteHeld
  <2>4. CASE ChunkFull
    BY <2>1, <2>4, TypeFields, Sizes DEF ChunkFull
  <2>5. CASE LineIdle \/ Silence \/ LastChunk
    BY <2>1, <2>5, TypeFields, Sizes DEF LineIdle, Silence, LastChunk
  <2> QED
    BY <1>2, <2>2, <2>3, <2>4, <2>5
<1>6. LineInv'
  <2>1. rx_size' \in Nat /\ rx_size' = rx_size
    BY <1>1, TypeFields DEF hub
  <2> QED
    BY <1>2, <1>3, <1>4, <1>5, <2>1 DEF LineInv
<1>7. lag' \in 0 .. Larger(MaxPause, Slack)
  <2>1. CASE pc = "flush"
    BY <2>1, Sizes DEF Tick, Larger
  <2>2. CASE pc # "flush"
    BY <2>2, TypeFields, Sizes DEF Tick, Patience, Larger
  <2> QED
    BY <2>1, <2>2
<1>8. last_modbus_byte' \in 0 .. Wrap - 1 /\ last_send' \in 0 .. Wrap - 1
  BY <1>1, TypeFields, Wraps
<1>9. rx_size' + uart' + fifo' + reply'.left <= reply'.length
  <2>1. rx_size + uart + fifo + reply.left <= reply.length /\ rx_size' = rx_size
    BY <1>1 DEF TypeOK, hub
  <2>2. uart' \in Nat /\ fifo' \in Nat
    BY <1>4, Sizes
  <2> QED
    BY <1>2, <1>4, <2>1, <2>2, TypeFields
<1> QED
  BY <1>1, <1>2, <1>6, <1>7, <1>8, <1>9 DEF TypeOK, config, hub, Reply

LEMMA NextTypes ==
  ASSUME TypeOK, LineInv, [Next]_vars
  PROVE  TypeOK' /\ LineInv'
BY ReceiveTypes, ClearStaleBytesTypes, StopWaitingTypes, SendNextFrameTypes, FlushTypes,
   OtherTypes, TickTypes DEF Next, Loop

(* The hub never has more bytes than the response has, and never keeps a   *)
(* complete one; the differences of times stay below the wrap, and no part *)
(* of loop() is late (receive_and_parse_modbus_bytes_, loop,               *)
(* send_next_frame_).                                                      *)
THEOREM TimingTypeCorrect == Spec => []TypeOK
<1>1. Init => TypeOK /\ LineInv
  BY InitTypes
<1>2. TypeOK /\ LineInv /\ [Next]_vars => (TypeOK /\ LineInv)'
  BY NextTypes
<1> QED
  BY <1>1, <1>2, PTL DEF Spec

-----------------------------------------------------------------------------
(***************************************************************************)
(* No response is given up half-way                                        *)
(***************************************************************************)

(* The silence after which the UART hands over less than a chunk is one    *)
(* character, or a character takes a millisecond.  Otherwise (two slow     *)
(* characters) the end of a response, when it is almost a chunk itself,    *)
(* comes later than long_rx_buffer_delay allows for.                       *)
Brief == RxIdle * CharTime <= CharTime + 1

(* The line's time since the UART handed over bytes, while more come. *)
Since == fifo * CharTime + IF reply.left > 0 THEN CharTime - reply.due ELSE quiet

(* While more comes, the hub has a chunk, or nothing; it had its last byte *)
(* no longer ago than the UART has been collecting.  Between two parts of  *)
(* loop() the UART hands over bytes once at most.                          *)
CutInv ==
  /\ MoreToCome /\ uart > 0 => rx_size + uart >= Threshold
  /\ IsComing /\ rx_size > 0 => rx_size >= Threshold
  /\ rx_size > 0 /\ uart = 0 /\ MoreToCome => last_modbus_byte <= Since
  /\ pc = "timeout" /\ uart > 0 =>
       lag > 0 /\ (rx_size > 0 => last_modbus_byte <= Threshold * CharTime + 1)

(* The line never collects for longer than a chunk takes. *)
LEMMA SinceBound ==
  ASSUME Brief, TypeOK, LineInv, MoreToCome,
         reply.left > 0 => reply.due <= CharTime
  PROVE  /\ fifo * CharTime \in Nat
         /\ fifo * CharTime + CharTime <= Threshold * CharTime
         /\ Since \in Nat /\ Since <= Threshold * CharTime
<1>1. /\ fifo \in Nat /\ fifo + 1 \in Nat /\ fifo + 1 <= Threshold /\ Threshold \in Nat
  BY TypeFields, Sizes
<1>2. /\ fifo * CharTime \in Nat
      /\ fifo * CharTime + CharTime <= Threshold * CharTime
  BY <1>1, Products
<1>3. CASE reply.left > 0
  BY <1>2, <1>3, TypeFields, Sizes DEF Since
<1>4. CASE reply.left = 0
  <2>1. quiet < RxIdle * CharTime
    BY <1>4, TypeFields DEF MoreToCome, LineInv
  <2> QED
    BY <1>2, <1>4, <2>1, TypeFields, Sizes DEF Since, Brief
<1> QED
  BY <1>2, <1>3, <1>4, TypeFields

(* What the hub has begun to receive it gives up only when nothing comes.  *)
LEMMA CutNothing ==
  ASSUME Brief, TypeOK, LineInv, CutInv, pc = "timeout", rx_size > 0,
         last_modbus_byte > Timeout
  PROVE  ~IsComing
<1> SUFFICES ASSUME IsComing PROVE FALSE
  OBVIOUS
<1>1. rx_size >= Threshold
  BY DEF CutInv
<1>2. Timeout >= Threshold * CharTime + 1
  BY <1>1, Sizes DEF Timeout, Larger
<1>3. last_modbus_byte > Threshold * CharTime + 1
  BY <1>1, <1>2, TypeFields, Sizes DEF Timeout, Larger
<1>4. CASE uart > 0
  BY <1>3, <1>4, TypeFields, Sizes DEF CutInv
<1>5. CASE uart = 0
  <2>1. MoreToCome
    BY <1>5 DEF IsComing, MoreToCome
  <2>2. last_modbus_byte <= Since
    BY <1>5, <2>1 DEF CutInv
  <2>3. reply.left > 0 => reply.due <= CharTime
    BY TypeFields DEF LineInv
  <2>4. Since \in Nat /\ Since <= Threshold * CharTime
    BY <2>1, <2>3, SinceBound
  <2> QED
    BY <1>3, <2>2, <2>4, TypeFields, Sizes
<1> QED
  BY <1>4, <1>5, TypeFields

LEMMA InitCut == Init => CutInv
BY DEF Init, CutInv, IsComing, MoreToCome, NoReply

LEMMA ReceiveCut ==
  ASSUME Brief, TypeOK, LineInv, CutInv, Receive
  PROVE  CutInv'
<1>1. uart' = 0 /\ pc' = "timeout" /\ UNCHANGED <<reply, fifo, quiet>>
  BY DEF Receive, Goto
<1>2. CASE uart = 0
  BY <1>1, <1>2 DEF Receive, CutInv, IsComing, MoreToCome, Since
<1>3. CASE uart > 0
  <2>1. rx_size' \in {0, rx_size + uart} /\ last_modbus_byte' = 0
    BY <1>3 DEF Receive, RxAfter
  <2>2. MoreToCome /\ rx_size' > 0 => rx_size' >= Threshold
    BY <1>3, <2>1, TypeFields, Sizes DEF CutInv
  <2>3. MoreToCome => last_modbus_byte' <= Since'
    <3>1. reply.left > 0 => reply.due <= CharTime
      BY <1>3, TypeFields DEF LineInv
    <3>2. Since' = Since
      BY <1>1 DEF Since
    <3> QED
      BY <2>1, <3>1, <3>2, SinceBound
  <2> QED
    BY <1>1, <2>2, <2>3 DEF CutInv, IsComing, MoreToCome
<1> QED
  BY <1>2, <1>3, TypeFields

LEMMA ClearStaleBytesCut ==
  ASSUME Brief, TypeOK, LineInv, CutInv, ClearStaleBytes
  PROVE  CutInv'
<1>1. /\ pc = "timeout" /\ pc' = "overdue"
      /\ rx_size' = IF last_modbus_byte > Timeout THEN 0 ELSE rx_size
      /\ UNCHANGED <<reply, fifo, quiet, uart, last_modbus_byte>>
  BY DEF ClearStaleBytes, Goto, line, clocks
<1>2. CASE rx_size' = rx_size
  BY <1>1, <1>2 DEF CutInv, IsComing, MoreToCome, Since
<1>3. CASE rx_size' # rx_size
  <2>1. rx_size > 0 /\ last_modbus_byte > Timeout /\ rx_size' = 0
    BY <1>1, <1>3, TypeFields
  <2>2. ~IsComing
    BY <1>1, <2>1, CutNothing
  <2> QED
    BY <1>1, <2>1, <2>2 DEF CutInv, IsComing, MoreToCome
<1> QED
  BY <1>2, <1>3

(* The hub sends only when it has no bytes, and the UART none. *)
LEMMA SendNextFrameCut ==
  ASSUME TypeOK, LineInv, NEW byte \in 0 .. 1, SendNextFrame(byte)
  PROVE  CutInv'
<1>1. uart' = uart /\ rx_size' = rx_size /\ ~(uart > 0) /\ ~(rx_size > 0)
  BY DEF SendNextFrame, TxBlocked
<1> QED
  BY <1>1, TypeFields DEF CutInv

LEMMA OtherCut ==
  ASSUME CutInv, StopWaiting \/ SendNothing \/ Flush \/ Enqueue \/ UNCHANGED vars
  PROVE  CutInv'
<1>1. UNCHANGED <<line, last_modbus_byte, rx_size>>
  BY DEF StopWaiting, SendNothing, Flush, Enqueue, vars, hub, clocks
<1>2. pc' = "timeout" => pc = "timeout" /\ lag' = lag
  BY DEF StopWaiting, SendNothing, Flush, Enqueue, vars, Goto
<1> QED
  BY <1>1, <1>2 DEF CutInv, line, IsComing, MoreToCome, Since

(* While the UART hands over nothing, it collects for a millisecond more.  *)
LEMMA TickSince ==
  ASSUME TypeOK, LineInv, Tick, MoreToCome, uart' = 0
  PROVE  uart = 0 /\ Since' = Since + 1
<1>1. /\ ByteComing \/ ByteHeld \/ ChunkFull \/ LineIdle \/ Silence \/ LastChunk
      /\ fifo * CharTime \in Nat /\ (fifo + 1) * CharTime = fifo * CharTime + CharTime
  BY TickKinds, TypeFields, Products
<1>2. (fifo = 0 => quiet = 0) /\ uart \in Nat
  BY TypeFields DEF LineInv
<1>3. CASE ByteComing
  BY <1>1, <1>2, <1>3, TypeFields, Sizes DEF ByteComing, Since
<1>4. CASE ByteHeld
  BY <1>1, <1>2, <1>4, TypeFields, Sizes DEF ByteHeld, Since
<1>5. CASE Silence
  BY <1>1, <1>2, <1>5, TypeFields, Sizes DEF Silence, Since
<1>6. CASE ChunkFull \/ LineIdle \/ LastChunk
  BY <1>2, <1>6, TypeFields, Sizes DEF ChunkFull, LineIdle, LastChunk, MoreToCome
<1> QED
  BY <1>1, <1>3, <1>4, <1>5, <1>6

LEMMA TickCut ==
  ASSUME Brief, TypeOK, LineInv, CutInv, Tick
  PROVE  CutInv'
<1>1. /\ ByteComing \/ ByteHeld \/ ChunkFull \/ LineIdle \/ Silence \/ LastChunk
      /\ rx_size' = rx_size /\ pc' = pc
      /\ last_modbus_byte' \in 0 .. Wrap - 1 /\ last_modbus_byte' <= last_modbus_byte + 1
  BY TickKinds, TypeFields, Wraps DEF Tick, hub
<1>2. MoreToCome' \/ uart' # uart => MoreToCome
  BY <1>1, TypeFields DEF ByteComing, ByteHeld, ChunkFull, LineIdle, Silence, LastChunk,
                          MoreToCome
<1>3. MoreToCome' /\ uart' > 0 => rx_size' + uart' >= Threshold
  <2>1. CASE ChunkFull
    BY <1>1, <2>1, TypeFields, Sizes DEF ChunkFull
  <2>2. CASE uart' = uart
    BY <1>1, <1>2, <2>2 DEF CutInv
  <2>3. CASE LastChunk
    BY <2>3, TypeFields DEF LastChunk, MoreToCome
  <2> QED
    BY <1>1, <2>1, <2>2, <2>3 DEF ByteComing, ByteHeld, LineIdle, Silence
<1>4. IsComing' /\ rx_size' > 0 => rx_size' >= Threshold
  <2>1. IsComing' => IsComing
    BY <1>2 DEF IsComing, MoreToCome
  <2> QED
    BY <1>1, <2>1 DEF CutInv
<1>5. rx_size' > 0 /\ uart' = 0 /\ MoreToCome' => last_modbus_byte' <= Since'
  <2> SUFFICES ASSUME rx_size' > 0, uart' = 0, MoreToCome'
               PROVE  last_modbus_byte' <= Since'
    OBVIOUS
  <2>1. uart = 0 /\ Since' = Since + 1 /\ MoreToCome /\ rx_size > 0
    BY <1>1, <1>2, TickSince
  <2>2. last_modbus_byte <= Since
    BY <2>1 DEF CutInv
  <2>3. Since \in Nat
    <3>1. reply.left > 0 => reply.due <= CharTime
      BY <2>1, TypeFields DEF LineInv
    <3> QED
      BY <2>1, <3>1, SinceBound
  <2> QED
    BY <1>1, <2>1, <2>2, <2>3, TypeFields
<1>6. pc' = "timeout" /\ uart' > 0 =>
        lag' > 0 /\ (rx_size' > 0 => last_modbus_byte' <= Threshold * CharTime + 1)
  <2> SUFFICES ASSUME pc' = "timeout", uart' > 0
               PROVE  lag' > 0 /\ (rx_size' > 0 => last_modbus_byte' <= Threshold * CharTime + 1)
    OBVIOUS
  <2>1. lag < Slack /\ lag' = lag + 1 /\ pc = "timeout"
    BY <1>1 DEF Tick, Patience
  <2>2. uart = 0
    BY <2>1, TypeFields, Sizes DEF CutInv
  <2>3. MoreToCome
    BY <1>2, <2>2
  <2>4. rx_size > 0 => last_modbus_byte <= Threshold * CharTime
    <3> SUFFICES ASSUME rx_size > 0 PROVE last_modbus_byte <= Threshold * CharTime
      OBVIOUS
    <3>1. last_modbus_byte <= Since
      BY <2>2, <2>3 DEF CutInv
    <3>2. reply.left > 0 => reply.due <= CharTime
      BY TypeFields DEF LineInv
    <3>3. Since \in Nat /\ Since <= Threshold * CharTime
      BY <2>3, <3>2, SinceBound
    <3> QED
      BY <3>1, <3>3, TypeFields, Sizes
  <2> QED
    BY <1>1, <2>1, <2>4, TypeFields, Sizes
<1> QED
  BY <1>3, <1>4, <1>5, <1>6 DEF CutInv

LEMMA NextCut ==
  ASSUME Brief, TypeOK, LineInv, CutInv, [Next]_vars
  PROVE  CutInv'
BY ReceiveCut, ClearStaleBytesCut, SendNextFrameCut, OtherCut, TickCut DEF Next, Loop

(* A response whose bytes follow each other without a pause is never given *)
(* up half-way, of whatever size and for whatever threshold of the UART,   *)
(* at every baud rate for which the UART is Brief (long_rx_buffer_delay_   *)
(* in setup() and the timeout of loop()).                                  *)
THEOREM ResponsesNeverCut ==
  ASSUME Brief
  PROVE  Spec => NeverCut
<1>1. Init => TypeOK /\ LineInv /\ CutInv
  BY InitTypes, InitCut
<1>2. TypeOK /\ LineInv /\ CutInv /\ [Next]_vars => (TypeOK /\ LineInv /\ CutInv)'
  BY NextTypes, NextCut
<1>3. /\ TypeOK /\ LineInv /\ CutInv /\ [Next]_vars
      => [ClearStaleBytes /\ rx_size > 0 /\ rx_size' = 0 => ~IsComing]_vars
  <2> SUFFICES ASSUME TypeOK, LineInv, CutInv, ClearStaleBytes, rx_size > 0, rx_size' = 0
               PROVE  ~IsComing
    OBVIOUS
  <2>1. pc = "timeout" /\ last_modbus_byte > Timeout
    BY DEF ClearStaleBytes
  <2> QED
    BY <2>1, CutNothing
<1> QED
  BY <1>1, <1>2, <1>3, PTL DEF Spec, NeverCut

-----------------------------------------------------------------------------
(***************************************************************************)
(* No response that began in time is sent into                             *)
(***************************************************************************)

(* Time until the UART hands over the next bytes of the response. *)
ToCome ==
  CASE fifo + reply.left >= Threshold -> reply.due + (Threshold - fifo - 1) * CharTime
    [] fifo + reply.left < Threshold /\ reply.left > 0 ->
         reply.due + (reply.left - 1) * CharTime + RxIdle * CharTime
    [] OTHER -> RxIdle * CharTime - quiet

(* They come before the hub stops waiting. *)
Deadline ==
  IF pc = "flush" THEN ToCome <= sending + WaitTime(waiting_for_response)
  ELSE last_send + ToCome <= last_send_tx_offset + WaitTime(waiting_for_response)

(* As long as the hub has nothing of a response that began in time.        *)
InterruptInv == reply.prompt /\ MoreToCome /\ rx_size = 0 /\ uart = 0 => Deadline

(* ToCome without its products. *)
LEMMA ToComeParts ==
  ASSUME TypeOK, LineInv
  PROVE  /\ fifo + reply.left >= Threshold =>
              /\ reply.left > 0
              /\ (Threshold - fifo - 1) * CharTime \in Nat
              /\ ToCome = reply.due + (Threshold - fifo - 1) * CharTime
         /\ fifo + reply.left < Threshold /\ reply.left > 0 =>
              /\ (reply.left - 1) * CharTime \in Nat
              /\ ToCome = reply.due + (reply.left - 1) * CharTime + RxIdle * CharTime
         /\ reply.left = 0 => ToCome = RxIdle * CharTime - quiet
<1>1. /\ reply.left \in Nat /\ fifo \in Nat /\ fifo < Threshold /\ Threshold \in Nat
  BY TypeFields, Sizes
<1>2. ASSUME fifo + reply.left >= Threshold
      PROVE  /\ reply.left > 0
             /\ (Threshold - fifo - 1) * CharTime \in Nat
             /\ ToCome = reply.due + (Threshold - fifo - 1) * CharTime
  <2>1. Threshold - fifo - 1 \in Nat /\ reply.left > 0
    BY <1>1, <1>2
  <2>2. (Threshold - fifo - 1) * CharTime \in Nat
    BY <2>1, Products
  <2>3. ~(fifo + reply.left < Threshold)
    BY <1>1, <1>2
  <2> QED
    BY <1>2, <2>1, <2>2, <2>3 DEF ToCome
<1>3. ASSUME fifo + reply.left < Threshold, reply.left > 0
      PROVE  /\ (reply.left - 1) * CharTime \in Nat
             /\ ToCome = reply.due + (reply.left - 1) * CharTime + RxIdle * CharTime
  <2>1. reply.left - 1 \in Nat
    BY <1>1, <1>3
  <2>2. (reply.left - 1) * CharTime \in Nat
    BY <2>1, Products
  <2>3. ~(fifo + reply.left >= Threshold)
    BY <1>1, <1>3
  <2> QED
    BY <1>3, <2>2, <2>3 DEF ToCome
<1>4. ASSUME reply.left = 0 PROVE ToCome = RxIdle * CharTime - quiet
  <2>1. ~(fifo + reply.left >= Threshold) /\ ~(reply.left > 0)
    BY <1>1, <1>4
  <2> QED
    BY <2>1 DEF ToCome
<1> QED
  BY <1>2, <1>3, <1>4

LEMMA ToComeBound ==
  ASSUME TypeOK, LineInv, MoreToCome
  PROVE  ToCome \in Nat \ {0}
<1>1. CASE reply.left > 0
  <2>1. reply.due > 0
    BY <1>1 DEF LineInv
  <2> QED
    BY <1>1, <2>1, ToComeParts, TypeFields, Sizes
<1>2. CASE reply.left = 0
  <2>1. quiet < RxIdle * CharTime
    BY <1>2, TypeFields DEF LineInv, MoreToCome
  <2> QED
    BY <1>2, <2>1, ToComeParts, TypeFields, Sizes
<1> QED
  BY <1>1, <1>2, TypeFields

(* A millisecond in which the UART hands over nothing. *)
LEMMA TickToCome ==
  ASSUME TypeOK, LineInv, Tick, MoreToCome, uart' = uart
  PROVE  ToCome' = ToCome - 1
<1>1. TypeOK' /\ LineInv'
  BY TickTypes
<1>2. /\ ByteComing \/ ByteHeld \/ ChunkFull \/ LineIdle \/ Silence \/ LastChunk
  BY TickKinds
<1>3. /\ fifo' + reply'.left >= Threshold =>
           ToCome' = reply'.due + (Threshold - fifo' - 1) * CharTime
      /\ fifo' + reply'.left < Threshold /\ reply'.left > 0 =>
           ToCome' = reply'.due + (reply'.left - 1) * CharTime + RxIdle * CharTime
      /\ reply'.left = 0 => ToCome' = RxIdle * CharTime - quiet'
  <2>1. /\ fifo' \in Nat /\ fifo' < Threshold /\ reply'.left \in Nat
    BY <1>1, Sizes DEF LineInv, Reply
  <2> QED
    BY <2>1, Sizes DEF ToCome
<1>4. CASE ByteComing
  BY <1>3, <1>4, ToComeParts, TypeFields, Sizes DEF ByteComing
<1>5. CASE ByteHeld
  <2>1. /\ reply.left > 0 /\ reply.due = 1 /\ fifo + 1 < Threshold
        /\ reply'.left = reply.left - 1 /\ fifo' = fifo + 1 /\ quiet' = 0
        /\ reply'.due = IF reply.left = 1 THEN 0 ELSE CharTime
    BY <1>5 DEF ByteHeld
  <2>2. CASE fifo + reply.left >= Threshold
    <3>1. /\ Threshold - fifo - 2 \in Nat /\ reply.left # 1
          /\ Threshold - fifo - 2 + 1 = Threshold - fifo - 1
          /\ Threshold - fifo' - 1 = Threshold - fifo - 2
          /\ fifo' + reply'.left >= Threshold
      BY <2>1, <2>2, TypeFields, Sizes
    <3>2. (Threshold - fifo - 1) * CharTime = (Threshold - fifo - 2) * CharTime + CharTime
      BY <3>1, Products
    <3>3. (Threshold - fifo - 2) * CharTime \in Nat
      BY <3>1, Products
    <3>4. ToCome' = CharTime + (Threshold - fifo - 2) * CharTime
      BY <1>3, <2>1, <3>1
    <3>5. ToCome = 1 + (Threshold - fifo - 1) * CharTime
      BY <2>1, <2>2, ToComeParts
    <3> QED
      BY <3>2, <3>3, <3>4, <3>5, Sizes
  <2>3. CASE fifo + reply.left < Threshold /\ reply.left > 1
    <3>1. /\ reply.left - 2 \in Nat /\ reply.left - 2 + 1 = reply.left - 1
          /\ reply'.left - 1 = reply.left - 2 /\ reply'.left > 0 /\ reply.left # 1
          /\ fifo' + reply'.left < Threshold
      BY <2>1, <2>3, TypeFields, Sizes
    <3>2. (reply.left - 1) * CharTime = (reply.left - 2) * CharTime + CharTime
      BY <3>1, Products
    <3>3. (reply.left - 2) * CharTime \in Nat
      BY <3>1, Products
    <3>4. ToCome' = CharTime + (reply.left - 2) * CharTime + RxIdle * CharTime
      BY <1>3, <2>1, <3>1
    <3>5. ToCome = 1 + (reply.left - 1) * CharTime + RxIdle * CharTime
      BY <2>1, <2>3, ToComeParts
    <3> QED
      BY <3>2, <3>3, <3>4, <3>5, Sizes
  <2>4. CASE fifo + reply.left < Threshold /\ reply.left = 1
    <3>1. (reply.left - 1) * CharTime = 0
      BY <2>4, Sizes
    <3>2. ToCome = 1 + 0 + RxIdle * CharTime
      BY <2>1, <2>4, <3>1, ToComeParts
    <3>3. ToCome' = RxIdle * CharTime - 0
      BY <1>3, <2>1, <2>4
    <3> QED
      BY <3>2, <3>3, Sizes
  <2> QED
    BY <2>1, <2>2, <2>3, <2>4, TypeFields, Sizes
<1>6. CASE Silence
  BY <1>3, <1>6, ToComeParts, TypeFields, Sizes DEF Silence
<1>7. CASE ChunkFull \/ LineIdle \/ LastChunk
  BY <1>7, TypeFields, Sizes DEF ChunkFull, LineIdle, LastChunk, MoreToCome
<1> QED
  BY <1>2, <1>4, <1>5, <1>6, <1>7

LEMMA InitInterrupt == Init => InterruptInv
BY DEF Init, InterruptInv, NoReply

(* A response that has begun ends, or there is more of it in the buffer. *)
LEMMA ReceiveInterrupt ==
  ASSUME TypeOK, LineInv, InterruptInv, Receive
  PROVE  InterruptInv'
<1>1. /\ pc = "receive" /\ pc' = "timeout"
      /\ UNCHANGED <<reply, fifo, quiet, last_send, last_send_tx_offset>>
  BY DEF Receive, Goto
<1>2. CASE uart = 0
  <2>1. UNCHANGED <<rx_size, waiting_for_response>> /\ uart' = uart
    BY <1>2 DEF Receive
  <2> QED
    BY <1>1, <2>1 DEF InterruptInv, MoreToCome, Deadline, ToCome
<1>3. CASE uart > 0
  <2>1. rx_size' = IF rx_size + uart < reply.length THEN rx_size + uart ELSE 0
    BY <1>3 DEF Receive, RxAfter
  <2>2. rx_size' = 0 => ~MoreToCome
    BY <1>3, <2>1, TypeFields DEF TypeOK, MoreToCome
  <2>3. MoreToCome' = MoreToCome
    BY <1>1 DEF MoreToCome
  <2> QED
    BY <2>2, <2>3 DEF InterruptInv
<1> QED
  BY <1>2, <1>3, TypeFields

LEMMA ClearStaleBytesInterrupt ==
  ASSUME Brief, TypeOK, LineInv, CutInv, InterruptInv, ClearStaleBytes
  PROVE  InterruptInv'
<1>1. /\ pc = "timeout" /\ pc' = "overdue"
      /\ rx_size' = IF last_modbus_byte > Timeout THEN 0 ELSE rx_size
      /\ UNCHANGED <<reply, fifo, quiet, uart, last_send, last_send_tx_offset,
                     waiting_for_response>>
  BY DEF ClearStaleBytes, Goto, line, clocks
<1>2. CASE rx_size' = rx_size
  BY <1>1, <1>2 DEF InterruptInv, MoreToCome, Deadline, ToCome
<1>3. CASE rx_size' # rx_size
  <2>1. rx_size > 0 /\ last_modbus_byte > Timeout
    BY <1>1, <1>3, TypeFields
  <2>2. ~IsComing
    BY <1>1, <2>1, CutNothing
  <2>3. ~MoreToCome'
    BY <1>1, <2>2 DEF IsComing, MoreToCome
  <2> QED
    BY <2>3 DEF InterruptInv
<1> QED
  BY <1>2, <1>3

(* What comes in time is not overdue. *)
LEMMA StopWaitingInterrupt ==
  ASSUME TypeOK, LineInv, InterruptInv, StopWaiting
  PROVE  InterruptInv'
<1>1. /\ pc = "overdue" /\ pc' = "send"
      /\ waiting_for_response' = IF IsOverdue THEN 0 ELSE waiting_for_response
      /\ UNCHANGED <<reply, fifo, quiet, uart, rx_size, last_send, last_send_tx_offset>>
  BY DEF StopWaiting, Goto, line, clocks
<1>2. CASE ~IsOverdue
  BY <1>1, <1>2 DEF InterruptInv, MoreToCome, Deadline, ToCome
<1>3. CASE IsOverdue
  <2> SUFFICES ASSUME reply.prompt, MoreToCome, rx_size = 0, uart = 0 PROVE FALSE
    BY <1>1 DEF InterruptInv, MoreToCome
  <2>1. last_send + ToCome <= last_send_tx_offset + WaitTime(waiting_for_response)
    BY <1>1 DEF InterruptInv, Deadline
  <2>2. /\ last_send > last_send_tx_offset + send_wait_time
        /\ WaitTime(waiting_for_response) = send_wait_time
    BY <1>3 DEF IsOverdue, WaitTime
  <2>3. ToCome \in Nat \ {0}
    BY ToComeBound
  <2> QED
    BY <2>1, <2>2, <2>3, TypeFields, Sizes
<1> QED
  BY <1>2, <1>3

(* The checks of tx_blocked. *)
LEMMA SendsIntoNothing ==
  ASSUME TypeOK, LineInv, InterruptInv, NEW byte \in 0 .. 1, SendNextFrame(byte)
  PROVE  ~(reply.prompt /\ IsComing)
<1> SUFFICES ASSUME reply.prompt, IsComing PROVE FALSE
  OBVIOUS
<1>1. /\ pc = "send" /\ ~(uart > 0) /\ ~(rx_size > 0) /\ waiting_for_response = 0
      /\ ~(last_send < last_send_tx_offset + frame_delay + turnaround_delay)
  BY DEF SendNextFrame, TxBlocked
<1>2. uart = 0 /\ rx_size = 0 /\ MoreToCome
  BY <1>1, TypeFields DEF IsComing, MoreToCome
<1>3. last_send + ToCome <= last_send_tx_offset + (frame_delay + turnaround_delay)
  BY <1>1, <1>2 DEF InterruptInv, Deadline, WaitTime
<1>4. ToCome \in Nat \ {0}
  BY <1>2, ToComeBound
<1> QED
  BY <1>1, <1>3, <1>4, TypeFields, Sizes

(* The first bytes of a response to come in time. *)
LEMMA NewToCome ==
  ASSUME TypeOK, LineInv, TypeOK', LineInv', NEW byte \in 0 .. 1, reply' \in Replies(byte),
         fifo' = 0, reply'.prompt, reply'.left > 0
  PROVE  ToCome' \in Nat /\ ToCome' <= RequestLen * CharTime + WaitTime(byte)
<1> DEFINE left == reply'.left
<1>1. left \in Nat \ {0} /\ reply'.due \in Nat
  BY DEF LineInv, Reply
<1>2. PICK latency \in 0 .. MaxLatency :
        /\ reply'.due = (RequestLen + 1) * CharTime + latency
        /\ reply'.prompt = (latency + FirstChunk(left) <= WaitTime(byte))
  BY RepliesType
<1>3. /\ latency \in Nat /\ latency + FirstChunk(left) <= WaitTime(byte)
      /\ reply'.due = RequestLen * CharTime + CharTime + latency
  <2>1. latency \in Nat
    BY Sizes
  <2>2. latency + FirstChunk(left) <= WaitTime(byte)
    BY <1>2, Zenon
  <2>3. (RequestLen + 1) * CharTime = RequestLen * CharTime + CharTime
    BY Products, Sizes
  <2> QED
    BY <1>2, <2>1, <2>2, <2>3
<1>4. /\ fifo' + left >= Threshold =>
           ToCome' = reply'.due + (Threshold - 0 - 1) * CharTime
      /\ ~(fifo' + left >= Threshold) =>
           ToCome' = reply'.due + (left - 1) * CharTime + RxIdle * CharTime
  BY <1>1, Sizes DEF ToCome
<1> HIDE DEF left
<1>5. CASE left >= Threshold
  <2>1. FirstChunk(left) = Threshold * CharTime
    BY <1>5, Sizes DEF FirstChunk
  <2>2. /\ Threshold - 0 - 1 \in Nat /\ Threshold - 0 - 1 + 1 = Threshold
    BY Sizes
  <2>3. /\ Threshold * CharTime = (Threshold - 0 - 1) * CharTime + CharTime
        /\ (Threshold - 0 - 1) * CharTime \in Nat
    BY <2>2, Products
  <2>4. ToCome' = reply'.due + (Threshold - 0 - 1) * CharTime
    BY <1>1, <1>4, <1>5
  <2> QED
    BY <1>3, <2>1, <2>3, <2>4, Sizes
<1>6. CASE ~(left >= Threshold)
  <2>1. FirstChunk(left) = CharTime * (left + RxIdle)
    BY <1>6 DEF FirstChunk
  <2>2. CharTime * (left + RxIdle) = left * CharTime + RxIdle * CharTime
    BY <1>1, Sizes
  <2>3. /\ left - 1 \in Nat /\ left - 1 + 1 = left
    BY <1>1
  <2>4. /\ left * CharTime = (left - 1) * CharTime + CharTime
        /\ (left - 1) * CharTime \in Nat
    BY <2>3, Products
  <2>5. ToCome' = reply'.due + (left - 1) * CharTime + RxIdle * CharTime
    BY <1>1, <1>4, <1>6
  <2> QED
    BY <1>3, <2>1, <2>2, <2>4, <2>5, Sizes
<1> QED
  BY <1>5, <1>6

LEMMA SendNextFrameInterrupt ==
  ASSUME TypeOK, LineInv, InterruptInv, NEW byte \in 0 .. 1, SendNextFrame(byte)
  PROVE  InterruptInv'
<1> SUFFICES ASSUME reply'.prompt, MoreToCome'
             PROVE  Deadline'
  BY DEF InterruptInv
<1>1. /\ waiting_for_response' = byte /\ sending' = RequestLen * CharTime
      /\ UNCHANGED <<fifo, quiet, uart, rx_size>>
  BY DEF SendNextFrame
<1>2. ~(reply.prompt /\ IsComing)
  BY SendsIntoNothing
<1>3. ~IsComing /\ reply' \in Replies(byte)
  BY <1>2, SendReply
<1>4. fifo' = 0 /\ reply'.left > 0
  BY <1>1, <1>3, TypeFields DEF IsComing, MoreToCome
<1>5. TypeOK' /\ LineInv'
  BY SendNextFrameTypes
<1>6. ToCome' \in Nat /\ ToCome' <= RequestLen * CharTime + WaitTime(byte)
  BY <1>3, <1>4, <1>5, NewToCome
<1>7. CASE flow_control
  <2>1. pc' = "flush"
    BY <1>7 DEF SendNextFrame, Goto
  <2> QED
    BY <1>1, <1>6, <2>1 DEF Deadline
<1>8. CASE ~flow_control
  <2>1. pc' = "receive" /\ last_send' = 0 /\ last_send_tx_offset' = RequestLen * CharTime + 1
    BY <1>8 DEF SendNextFrame, Goto
  <2>2. last_send' + ToCome' <= last_send_tx_offset' + WaitTime(byte)
    BY <1>6, <2>1, Sizes
  <2> QED
    BY <1>1, <2>1, <2>2 DEF Deadline
<1> QED
  BY <1>7, <1>8

LEMMA FlushInterrupt ==
  ASSUME TypeOK, LineInv, InterruptInv, Flush
  PROVE  InterruptInv'
<1>1. /\ pc = "flush" /\ pc' = "receive" /\ sending = 0
      /\ last_send' = 0 /\ last_send_tx_offset' = 0
      /\ UNCHANGED <<reply, fifo, quiet, uart, rx_size, waiting_for_response>>
  BY DEF Flush, Goto, line
<1>2. ToCome' = ToCome /\ MoreToCome' = MoreToCome
      /\ WaitTime(waiting_for_response)' = WaitTime(waiting_for_response)
  BY <1>1 DEF ToCome, MoreToCome, WaitTime
<1>3. CASE MoreToCome
  BY <1>1, <1>2, <1>3, ToComeBound, Sizes DEF InterruptInv, Deadline
<1>4. CASE ~MoreToCome
  BY <1>2, <1>4 DEF InterruptInv
<1> QED
  BY <1>3, <1>4

LEMMA OtherInterrupt ==
  ASSUME InterruptInv, SendNothing \/ Enqueue \/ UNCHANGED vars
  PROVE  InterruptInv'
<1>1. UNCHANGED <<line, clocks, rx_size, waiting_for_response, last_send_tx_offset>>
  BY DEF SendNothing, Enqueue, vars, hub
<1>2. pc' = "flush" <=> pc = "flush"
  BY DEF SendNothing, Enqueue, vars, Goto
<1> QED
  BY <1>1, <1>2 DEF InterruptInv, line, clocks, MoreToCome, Deadline, ToCome, WaitTime

(* Every millisecond brings the bytes nearer, and the end of the wait. *)
LEMMA TickInterrupt ==
  ASSUME TypeOK, LineInv, InterruptInv, Tick
  PROVE  InterruptInv'
<1> SUFFICES ASSUME reply'.prompt, MoreToCome', rx_size' = 0, uart' = 0
             PROVE  Deadline'
  BY DEF InterruptInv
<1>1. /\ ByteComing \/ ByteHeld \/ ChunkFull \/ LineIdle \/ Silence \/ LastChunk
      /\ reply'.prompt = reply.prompt
      /\ UNCHANGED <<pc, rx_size, waiting_for_response, last_send_tx_offset>>
      /\ sending' = IF sending = 0 THEN 0 ELSE sending - 1
      /\ last_send' \in Nat /\ last_send' <= last_send + 1
  <2>1. /\ ByteComing \/ ByteHeld \/ ChunkFull \/ LineIdle \/ Silence \/ LastChunk
        /\ reply'.prompt = reply.prompt
    BY TickKinds
  <2>2. /\ UNCHANGED <<pc, rx_size, waiting_for_response, last_send_tx_offset>>
        /\ sending' = IF sending = 0 THEN 0 ELSE sending - 1
        /\ last_send' = (last_send + 1) % Wrap
    BY DEF Tick, hub
  <2>3. last_send' \in Nat /\ last_send' <= last_send + 1
    <3>1. last_send' \in 0 .. Wrap - 1 /\ last_send' <= last_send + 1
      BY <2>2, TypeFields, Wraps
    <3> QED
      BY <3>1, Sizes
  <2> QED
    BY <2>1, <2>2, <2>3
<1>2. uart = 0 /\ MoreToCome
  BY <1>1, TypeFields, Sizes DEF ByteComing, ByteHeld, ChunkFull, LineIdle, Silence, LastChunk,
                                 MoreToCome
<1>3. ToCome' = ToCome - 1 /\ ToCome \in Nat \ {0}
  BY <1>2, TickToCome, ToComeBound
<1>4. Deadline
  BY <1>1, <1>2 DEF InterruptInv
<1> DEFINE wait == WaitTime(waiting_for_response)
<1>5. wait \in Nat /\ wait' = wait
  BY <1>1, Sizes DEF WaitTime
<1>6. CASE pc = "flush"
  <2>1. sending > 0 /\ ToCome <= sending + wait
    BY <1>4, <1>6 DEF Tick, Deadline
  <2> HIDE DEF wait
  <2>2. ToCome' <= sending' + wait'
    BY <1>1, <1>3, <1>5, <2>1, TypeFields
  <2> QED
    BY <1>1, <1>6, <2>2 DEF Deadline, wait
<1>7. CASE pc # "flush"
  <2>1. last_send + ToCome <= last_send_tx_offset + wait
    BY <1>4, <1>7 DEF Deadline
  <2> HIDE DEF wait
  <2>2. last_send' + ToCome' <= last_send_tx_offset' + wait'
    BY <1>1, <1>3, <1>5, <2>1, TypeFields
  <2> QED
    BY <1>1, <1>7, <2>2 DEF Deadline, wait
<1> QED
  BY <1>6, <1>7

LEMMA NextInterrupt ==
  ASSUME Brief, TypeOK, LineInv, CutInv, InterruptInv, [Next]_vars
  PROVE  InterruptInv'
BY ReceiveInterrupt, ClearStaleBytesInterrupt, StopWaitingInterrupt, SendNextFrameInterrupt,
   FlushInterrupt, OtherInterrupt, TickInterrupt DEF Next, Loop

(* The hub never sends into a response that began in time, whatever the    *)
(* threshold of the UART and the configured delays, with and without a pin *)
(* that switches the direction; Brief, because a response that is given up *)
(* half-way is one the hub no longer waits for (loop, tx_blocked,          *)
(* send_next_frame_).                                                      *)
THEOREM ResponsesNeverInterrupted ==
  ASSUME Brief
  PROVE  Spec => NeverInterrupts
<1>1. Init => TypeOK /\ LineInv /\ CutInv /\ InterruptInv
  BY InitTypes, InitCut, InitInterrupt
<1>2. /\ TypeOK /\ LineInv /\ CutInv /\ InterruptInv /\ [Next]_vars
      => (TypeOK /\ LineInv /\ CutInv /\ InterruptInv)'
  BY NextTypes, NextCut, NextInterrupt
<1>3. /\ TypeOK /\ LineInv /\ CutInv /\ InterruptInv /\ [Next]_vars
      => [\A byte \in 0 .. 1 : SendNextFrame(byte) => ~(reply.prompt /\ IsComing)]_vars
  BY SendsIntoNothing
<1> QED
  BY <1>1, <1>2, <1>3, PTL DEF Spec, NeverInterrupts
=============================================================================
