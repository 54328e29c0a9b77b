---------------------------- MODULE DalyBusProofs ----------------------------
(***************************************************************************)
(* Theorems about DalyBus: the types, that the hub never holds two frames  *)
(* of the components, and that requests leave only when answered, for all  *)
(* numbers of BMSs, switches and polled registers, all sizes of the hub's  *)
(* buffer, and whatever the BMSs, the line and other users do.             *)
(***************************************************************************)
EXTENDS DalyBus, CommandQueueLemmas

-----------------------------------------------------------------------------
(***************************************************************************)
(* Requests as the components make them                                    *)
(***************************************************************************)

(* Switches write 0 or 1 to the registers they show, and only the block of *)
(* the control registers reaches one of these.                             *)
RightItem ==
  {item \in QueueItem :
     /\ item.cmd = MODBUS_CMD_WRITE_SINGLE_REGISTER =>
          item.register_address \in InputRegisters /\ item.data \in 0 .. 1
     /\ item.cmd = MODBUS_CMD_READ_HOLDING_REGISTERS =>
          /\ item.register_address \in Nat /\ item.data \in Nat
          /\ \/ item.register_address = DALY_MODBUS_ADDR_CHG_MOS_CONTROL
             \/ item.register_address + item.data <= DALY_MODBUS_ADDR_CHG_MOS_CONTROL}

RightQueue ==
  [prio_queue     : Seq(RightItem),
   non_prio_queue : Seq(RightItem),
   pending_item   : RightItem \cup {NoItem}]

(* A queue of right requests is a queue. *)
LEMMA RightQueueFields ==
  ASSUME NEW c \in RightQueue
  PROVE  /\ c \in Queue
         /\ c.prio_queue \in Seq(RightItem)
         /\ c.non_prio_queue \in Seq(RightItem)
         /\ c.pending_item \in RightItem \cup {NoItem}
<1>1. RightItem \subseteq QueueItem
  BY DEF RightItem
<1>2. /\ c.prio_queue \in Seq(RightItem)
      /\ c.non_prio_queue \in Seq(RightItem)
      /\ c.pending_item \in RightItem \cup {NoItem}
  BY DEF RightQueue
<1>3. c.prio_queue \in Seq(QueueItem) /\ c.non_prio_queue \in Seq(QueueItem)
  BY <1>1, <1>2
<1>4. c = [prio_queue |-> c.prio_queue, non_prio_queue |-> c.non_prio_queue,
           pending_item |-> c.pending_item]
  BY DEF RightQueue
<1> QED
  BY <1>1, <1>2, <1>3, <1>4 DEF Queue

(* An update replaces a request by the one with the same key. *)
LEMMA SetDataRight ==
  ASSUME NEW q \in Seq(RightItem), NEW item \in RightItem
  PROVE  SetData(q, item) \in Seq(RightItem)
<1> DEFINE s == SetData(q, item)
<1>1. ASSUME NEW i \in 1 .. Len(q)
      PROVE  s[i] \in RightItem
  <2>1. q[i] \in RightItem
    OBVIOUS
  <2>2. s[i] = IF FirstMatch(q, i, item) THEN [q[i] EXCEPT !.data = item.data] ELSE q[i]
    BY DEF SetData
  <2>3. CASE FirstMatch(q, i, item)
    <3>1. /\ q[i].daly_address = item.daly_address
          /\ q[i].cmd = item.cmd
          /\ q[i].register_address = item.register_address
      BY <2>3 DEF FirstMatch, KeyEquals
    <3>2. q[i] \in QueueItem /\ item \in QueueItem
      BY <2>1 DEF RightItem
    <3>3. [q[i] EXCEPT !.data = item.data] = item
      BY <3>1, <3>2 DEF QueueItem
    <3> QED
      BY <2>2, <2>3, <3>3
  <2>4. CASE ~FirstMatch(q, i, item)
    BY <2>1, <2>2, <2>4
  <2> QED
    BY <2>3, <2>4
<1>2. s = [i \in 1 .. Len(q) |-> s[i]] /\ Len(q) \in Nat
  BY DEF SetData
<1> QED
  BY <1>1, <1>2

(* add_or_update with a right request. *)
LEMMA AddOrUpdateRight ==
  ASSUME NEW c \in RightQueue, NEW prioritize \in BOOLEAN, NEW item \in RightItem
  PROVE  AddOrUpdate(c, prioritize, item) \in RightQueue
<1>1. c.prio_queue \in Seq(RightItem) /\ c.non_prio_queue \in Seq(RightItem)
  BY RightQueueFields
<1>2. /\ SetData(c.prio_queue, item) \in Seq(RightItem)
      /\ SetData(c.non_prio_queue, item) \in Seq(RightItem)
      /\ Append(c.prio_queue, item) \in Seq(RightItem)
      /\ Append(c.non_prio_queue, item) \in Seq(RightItem)
  BY <1>1, SetDataRight
<1>3. \A s \in Seq(RightItem) :
        /\ [c EXCEPT !.prio_queue = s] \in RightQueue
        /\ [c EXCEPT !.non_prio_queue = s] \in RightQueue
  BY DEF RightQueue
<1> QED
  BY <1>2, <1>3, Zenon DEF AddOrUpdate

(* try_get_to_send. *)
LEMMA TryGetToSendRight ==
  ASSUME NEW c \in RightQueue, NEW addr
  PROVE  /\ Requeue(c) \in RightQueue
         /\ TryGetToSend(c, addr) \in RightQueue
         /\ CanTake(Requeue(c), addr) => TryGetToSend(c, addr).pending_item \in RightItem
         /\ ~CanTake(Requeue(c), addr) => TryGetToSend(c, addr).pending_item = NoItem
<1> DEFINE r == Requeue(c)
<1>1. r \in RightQueue /\ r.pending_item = NoItem
  <2>1. CASE c.pending_item = NoItem
    BY <2>1 DEF Requeue
  <2>2. CASE c.pending_item # NoItem
    <3> DEFINE d == AddOrUpdate(c, FALSE, c.pending_item)
    <3>1. d \in RightQueue
      BY <2>2, RightQueueFields, AddOrUpdateRight
    <3>2. r = [d EXCEPT !.pending_item = NoItem]
      BY <2>2 DEF Requeue
    <3> HIDE DEF d, r
    <3> QED
      BY <3>1, <3>2 DEF RightQueue
  <2> QED
    BY <2>1, <2>2
<1>2. CASE CanTake(r, addr)
  <2> HIDE DEF r
  <2> DEFINE d == TakeFront(r)
             p == r.prio_queue
             n == r.non_prio_queue
  <2>1. p \in Seq(RightItem) /\ n \in Seq(RightItem)
    BY <1>1, RightQueueFields
  <2>2. CASE p # <<>>
    <3>1. Head(p) \in RightItem /\ Tail(p) \in Seq(RightItem)
      BY <2>1, <2>2
    <3>2. d = [r EXCEPT !.prio_queue = Tail(p), !.pending_item = Head(p)]
      BY <2>2 DEF TakeFront
    <3> HIDE DEF p
    <3>3. d \in RightQueue /\ d.pending_item \in RightItem
      BY <1>1, <3>1, <3>2 DEF RightQueue
    <3> QED
      BY <1>1, <1>2, <3>3 DEF TryGetToSend, r
  <2>3. CASE p = <<>>
    <3>1. n # <<>>
      BY <1>2, <2>3 DEF CanTake
    <3>2. Head(n) \in RightItem /\ Tail(n) \in Seq(RightItem)
      BY <2>1, <3>1
    <3>3. d = [r EXCEPT !.non_prio_queue = Tail(n), !.pending_item = Head(n)]
      BY <2>3 DEF TakeFront
    <3> HIDE DEF n
    <3>4. d \in RightQueue /\ d.pending_item \in RightItem
      BY <1>1, <3>2, <3>3 DEF RightQueue
    <3> QED
      BY <1>1, <1>2, <3>4 DEF TryGetToSend, r
  <2> QED
    BY <2>2, <2>3
<1>3. CASE ~CanTake(r, addr)
  BY <1>1, <1>3 DEF TryGetToSend
<1> QED
  BY <1>1, <1>2, <1>3

(* pop_pending. *)
LEMMA PopPendingRight ==
  ASSUME NEW c \in RightQueue, NEW addr, CanPop(c, addr)
  PROVE  /\ PopPending(c, addr) \in RightQueue
         /\ PopPending(c, addr).pending_item = NoItem
BY DEF PopPending, RightQueue

(* The requests of update(), update_fast() and the switches are right.     *)
LEMMA ItemsAreRight ==
  ASSUME NEW a \in Address
  PROVE  /\ \A i \in 1 .. 5 : IsPolled(UpdateItems(a)[i]) => UpdateItems(a)[i] \in RightItem
         /\ ReadItem(a, DALY_MODBUS_ADDR_VOLT, 2) \in RightItem
         /\ \A reg \in InputRegisters, value \in 0 .. 1 : WriteItem(a, reg, value) \in RightItem
<1> DEFINE IsRight(reg, count) ==
             /\ reg \in Nat /\ count \in Nat
             /\ \/ reg = DALY_MODBUS_ADDR_CHG_MOS_CONTROL
                \/ reg + count <= DALY_MODBUS_ADDR_CHG_MOS_CONTROL
<1>1. ASSUME NEW reg \in Register, NEW count \in Data, IsRight(reg, count)
      PROVE  ReadItem(a, reg, count) \in RightItem
  BY <1>1 DEF ReadItem, RightItem, QueueItem, Cmd, MODBUS_CMD_READ_HOLDING_REGISTERS,
              MODBUS_CMD_WRITE_SINGLE_REGISTER
<1>2. ASSUME NEW reg \in InputRegisters, NEW value \in 0 .. 1
      PROVE  WriteItem(a, reg, value) \in RightItem
  <2>1. value \in Data /\ reg \in Register
    BY InstallationAssumption
  <2> QED
    BY <2>1 DEF WriteItem, RightItem, QueueItem, Cmd, MODBUS_CMD_READ_HOLDING_REGISTERS,
                MODBUS_CMD_WRITE_SINGLE_REGISTER
<1>3. ASSUME NEW reg, NEW count \in Data, IsRight(reg, count), IsPolled(ReadItem(a, reg, count))
      PROVE  ReadItem(a, reg, count) \in RightItem
  <2>1. reg \in Register
    BY <1>3, InstallationAssumption DEF IsPolled, ReadItem
  <2> QED
    BY <1>1, <1>3, <2>1
<1>4. CellSensors[a] \in Data /\ CellSensors[a] \in 0 .. 48 /\ {24, 21, 7, 2} \subseteq Data
  BY InstallationAssumption
<1>7. /\ IsRight(DALY_MODBUS_ADDR_CELL_VOLT_1, CellSensors[a])
      /\ IsRight(DALY_MODBUS_ADDR_CELL_TEMP_1, 24)
      /\ IsRight(DALY_MODBUS_ADDR_CHG_DSCHG_STATUS, 21)
      /\ IsRight(DALY_MODBUS_ADDR_BMS_TYPE_2_ERR_00_01, 7)
      /\ IsRight(DALY_MODBUS_ADDR_CHG_MOS_CONTROL, 2)
      /\ IsRight(DALY_MODBUS_ADDR_VOLT, 2)
  BY <1>4 DEF DALY_MODBUS_ADDR_CELL_VOLT_1, DALY_MODBUS_ADDR_CELL_TEMP_1,
              DALY_MODBUS_ADDR_CHG_DSCHG_STATUS, DALY_MODBUS_ADDR_BMS_TYPE_2_ERR_00_01,
              DALY_MODBUS_ADDR_CHG_MOS_CONTROL, DALY_MODBUS_ADDR_VOLT
<1> HIDE DEF IsRight
<1>5. ASSUME NEW i \in 1 .. 5, IsPolled(UpdateItems(a)[i])
      PROVE  UpdateItems(a)[i] \in RightItem
  <2>1. \/ UpdateItems(a)[i] = ReadItem(a, DALY_MODBUS_ADDR_CELL_VOLT_1, CellSensors[a])
        \/ UpdateItems(a)[i] = ReadItem(a, DALY_MODBUS_ADDR_CELL_TEMP_1, 24)
        \/ UpdateItems(a)[i] = ReadItem(a, DALY_MODBUS_ADDR_CHG_DSCHG_STATUS, 21)
        \/ UpdateItems(a)[i] = ReadItem(a, DALY_MODBUS_ADDR_BMS_TYPE_2_ERR_00_01, 7)
        \/ UpdateItems(a)[i] = ReadItem(a, DALY_MODBUS_ADDR_CHG_MOS_CONTROL, 2)
    BY DEF UpdateItems
  <2> QED
    BY <1>3, <1>4, <1>5, <1>7, <2>1
<1>6. DALY_MODBUS_ADDR_VOLT \in Register /\ InputRegisters \subseteq Register
  BY InstallationAssumption
<1> QED
  BY <1>1, <1>2, <1>4, <1>5, <1>6, <1>7

(* What a step that only asks for something does to the queue. *)
OnlyAsks(c, d) ==
  /\ d \in RightQueue
  /\ KeysUnique(d)
  /\ d.pending_item = c.pending_item
  /\ QueuedKeys(c) \subseteq QueuedKeys(d)

(* A block of update() adds at most its request. *)
LEMMA PollAsks ==
  ASSUME NEW c \in RightQueue, KeysUnique(c),
         NEW item, IsPolled(item) => item \in RightItem
  PROVE  OnlyAsks(c, Poll(c, item))
<1>1. CASE IsPolled(item)
  <2>1. Poll(c, item) = AddOrUpdate(c, FALSE, item)
    BY <1>1 DEF Poll
  <2>2. item \in RightItem /\ item \in QueueItem /\ c \in Queue
    BY <1>1, RightQueueFields DEF RightItem
  <2> QED
    BY <2>1, <2>2, AddOrUpdateRight, AddOrUpdateEffect DEF OnlyAsks
<1>2. CASE ~IsPolled(item)
  BY <1>2 DEF Poll, OnlyAsks
<1> QED
  BY <1>1, <1>2

(* update() only asks. *)
LEMMA UpdateAsks ==
  ASSUME NEW a \in Address, queue \in RightQueue, KeysUnique(queue), Update(a)
  PROVE  OnlyAsks(queue, queue')
<1> DEFINE block == UpdateItems(a)
           c1 == Poll(queue, block[1])
           c2 == Poll(c1, block[2])
           c3 == Poll(c2, block[3])
           c4 == Poll(c3, block[4])
           c5 == Poll(c4, block[5])
<1>1. queue' = c5
  BY DEF Update
<1>2. /\ IsPolled(block[1]) => block[1] \in RightItem
      /\ IsPolled(block[2]) => block[2] \in RightItem
      /\ IsPolled(block[3]) => block[3] \in RightItem
      /\ IsPolled(block[4]) => block[4] \in RightItem
      /\ IsPolled(block[5]) => block[5] \in RightItem
  <2>1. \A i \in 1 .. 5 : IsPolled(block[i]) => block[i] \in RightItem
    BY ItemsAreRight
  <2> HIDE DEF block
  <2> QED
    BY <2>1
<1>3. \A c, item :
        c \in RightQueue /\ KeysUnique(c) /\ (IsPolled(item) => item \in RightItem)
          => OnlyAsks(c, Poll(c, item))
  BY PollAsks
<1> HIDE DEF block
<1>4. OnlyAsks(queue, c1)
  BY <1>2, <1>3, Zenon
<1> HIDE DEF c1
<1>5. c1 \in RightQueue /\ KeysUnique(c1)
  BY <1>4 DEF OnlyAsks
<1>6. OnlyAsks(c1, c2)
  BY <1>2, <1>3, <1>5, Zenon
<1> HIDE DEF c2
<1>7. c2 \in RightQueue /\ KeysUnique(c2)
  BY <1>6 DEF OnlyAsks
<1>8. OnlyAsks(c2, c3)
  BY <1>2, <1>3, <1>7, Zenon
<1> HIDE DEF c3
<1>9. c3 \in RightQueue /\ KeysUnique(c3)
  BY <1>8 DEF OnlyAsks
<1>10. OnlyAsks(c3, c4)
  BY <1>2, <1>3, <1>9, Zenon
<1> HIDE DEF c4
<1>11. c4 \in RightQueue /\ KeysUnique(c4)
  BY <1>10 DEF OnlyAsks
<1>12. OnlyAsks(c4, c5)
  BY <1>2, <1>3, <1>11, Zenon
<1> HIDE DEF c5
<1> QED
  BY <1>1, <1>4, <1>6, <1>8, <1>10, <1>12 DEF OnlyAsks

(* So do update_fast() and a user. *)
LEMMA AddingAsks ==
  ASSUME NEW prioritize \in BOOLEAN, NEW item \in RightItem,
         queue \in RightQueue, KeysUnique(queue),
         queue' = AddOrUpdate(queue, prioritize, item)
  PROVE  OnlyAsks(queue, queue')
<1>1. queue \in Queue /\ item \in QueueItem
  BY RightQueueFields DEF RightItem
<1> QED
  BY <1>1, AddOrUpdateRight, AddOrUpdateEffect DEF OnlyAsks

-----------------------------------------------------------------------------
(***************************************************************************)
(* The hub                                                                 *)
(***************************************************************************)

AnyHub == Hub(Frame, Chunk)

(* The fields of a hub. *)
LEMMA HubFields ==
  ASSUME NEW h \in AnyHub
  PROVE  /\ h.tx_buffer \in Seq(Frame)
         /\ h.waiting_for_response \in Byte
         /\ h.rx_buffer \in Chunk \cup {NoBytes, Junk}
         /\ h.expired \in SUBSET Timer
BY DEF AnyHub, Hub

(* Receiving changes everything but the transmit buffer. *)
LEMMA ReceiveEffect ==
  ASSUME NEW h \in AnyHub, NEW chunk \in Chunk \cup {NoBytes}, NEW g \in Receive(h, chunk)
  PROVE  g \in AnyHub /\ g.tx_buffer = h.tx_buffer
<1>1. CASE chunk = NoBytes
  BY <1>1 DEF Receive
<1>2. CASE chunk # NoBytes
  <2>1. PICK rx \in RxAfter(h, chunk) :
          g = [h EXCEPT !.rx_buffer = rx,
                        !.waiting_for_response = WaitingAfter(h, chunk),
                        !.expired = h.expired \
                            IF Completes(h, chunk) THEN Timer ELSE {"gap", "quiet"}]
    BY <1>2 DEF Receive
  <2>2. rx \in Chunk \cup {NoBytes, Junk}
    BY <1>2 DEF RxAfter
  <2>3. WaitingAfter(h, chunk) \in Byte
    BY HubFields DEF WaitingAfter, Byte
  <2>4. h.expired \ (IF Completes(h, chunk) THEN Timer ELSE {"gap", "quiet"}) \in SUBSET Timer
    BY HubFields
  <2> QED
    BY <2>1, <2>2, <2>3, <2>4 DEF AnyHub, Hub
<1> QED
  BY <1>1, <1>2

(* So do the timeouts of loop(). *)
LEMMA TimeoutsEffect ==
  ASSUME NEW h \in AnyHub, NEW g \in StopWaiting(ClearStaleBytes(h))
  PROVE  g \in AnyHub /\ g.tx_buffer = h.tx_buffer
<1> DEFINE c == ClearStaleBytes(h)
<1>1. c \in AnyHub /\ c.tx_buffer = h.tx_buffer
  BY HubFields DEF ClearStaleBytes, AnyHub, Hub
<1> HIDE DEF c
<1>2. \/ g = c
      \/ g = [c EXCEPT !.waiting_for_response = 0, !.expired = c.expired \ {"overdue"}]
  BY DEF StopWaiting, c
<1>3. c.expired \ {"overdue"} \in SUBSET Timer /\ 0 \in Byte
  BY <1>1, HubFields DEF Byte
<1>4. [c EXCEPT !.waiting_for_response = 0, !.expired = c.expired \ {"overdue"}] \in AnyHub
  BY <1>1, <1>3 DEF AnyHub, Hub
<1>5. [c EXCEPT !.waiting_for_response = 0,
                !.expired = c.expired \ {"overdue"}].tx_buffer = c.tx_buffer
  BY <1>1 DEF AnyHub, Hub
<1> QED
  BY <1>1, <1>2, <1>4, <1>5, Zenon

(* Sending removes the first frame of the transmit buffer, or none. *)
LEMMA SendNextFrameEffect ==
  ASSUME NEW h \in AnyHub
  PROVE  /\ SendNextFrame(h) \in AnyHub
         /\ SendsNextFrame(h) =>
              h.tx_buffer # <<>> /\ SendNextFrame(h).tx_buffer = Tail(h.tx_buffer)
         /\ ~SendsNextFrame(h) => SendNextFrame(h) = h
<1>1. CASE SendsNextFrame(h)
  <2>1. h.tx_buffer # <<>>
    BY <1>1 DEF SendsNextFrame
  <2>2. Tail(h.tx_buffer) \in Seq(Frame) /\ Head(h.tx_buffer) \in Frame
    BY <2>1, HubFields
  <2>3. Head(h.tx_buffer).address \in Byte
    BY <2>2 DEF Frame
  <2>4. h.expired \ {"quiet", "overdue"} \in SUBSET Timer
    BY HubFields
  <2>5. SendNextFrame(h) =
          [h EXCEPT !.tx_buffer = Tail(h.tx_buffer),
                    !.waiting_for_response = Head(h.tx_buffer).address,
                    !.expired = h.expired \ {"quiet", "overdue"}]
    BY <1>1 DEF SendNextFrame
  <2> QED
    BY <1>1, <2>1, <2>2, <2>3, <2>4, <2>5 DEF AnyHub, Hub
<1>2. CASE ~SendsNextFrame(h)
  BY <1>2 DEF SendNextFrame
<1> QED
  BY <1>1, <1>2

(* Handing over a frame appends it, or drops it. *)
LEMMA SendEffect ==
  ASSUME NEW h \in AnyHub, Len(h.tx_buffer) <= MODBUS_TX_BUFFER_SIZE,
         NEW count, NEW frame \in Frame
  PROVE  /\ Send(h, count, frame) \in AnyHub
         /\ Len(Send(h, count, frame).tx_buffer) <= MODBUS_TX_BUFFER_SIZE
         /\ Send(h, count, frame).tx_buffer \in {h.tx_buffer, Append(h.tx_buffer, frame)}
<1>1. CASE count > MAX_VALUES \/ Len(h.tx_buffer) >= MODBUS_TX_BUFFER_SIZE
  BY <1>1 DEF Send
<1>2. CASE ~(count > MAX_VALUES \/ Len(h.tx_buffer) >= MODBUS_TX_BUFFER_SIZE)
  <2>1. /\ Append(h.tx_buffer, frame) \in Seq(Frame)
        /\ Len(Append(h.tx_buffer, frame)) = Len(h.tx_buffer) + 1
        /\ Len(h.tx_buffer) \in Nat
    BY HubFields
  <2>2. Len(h.tx_buffer) + 1 <= MODBUS_TX_BUFFER_SIZE
    BY <1>2, <2>1, TxBufferAssumption
  <2>3. Send(h, count, frame) = [h EXCEPT !.tx_buffer = Append(h.tx_buffer, frame)]
    BY <1>2 DEF Send
  <2> QED
    BY <2>1, <2>2, <2>3 DEF AnyHub, Hub
<1> QED
  BY <1>1, <1>2

-----------------------------------------------------------------------------
(***************************************************************************)
(* The frames of the components in the transmit buffer                     *)
(***************************************************************************)

RightFrame == [address : Byte, item : RightItem \cup {NoItem}]

(* OneOwnFrame, of a pending request and a transmit buffer. *)
OwnIn(tx) == {i \in 1 .. Len(tx) : tx[i].item # NoItem}

OneIn(pending, tx) ==
  /\ \A i, j \in OwnIn(tx) : i = j
  /\ pending # NoItem => \A i \in OwnIn(tx) : tx[i].item = pending

(* A right frame is a frame. *)
LEMMA RightFrames == RightFrame \subseteq Frame
BY DEF RightFrame, Frame, RightItem

(* Sending the first frame leaves at most the others. *)
LEMMA OneInTail ==
  ASSUME NEW tx \in Seq(RightFrame), tx # <<>>, NEW pending, OneIn(pending, tx)
  PROVE  OneIn(pending, Tail(tx))
<1>1. /\ Len(tx) \in Nat \ {0}
      /\ Len(Tail(tx)) = Len(tx) - 1
      /\ \A i \in 1 .. Len(tx) - 1 : Tail(tx)[i] = tx[i + 1]
  OBVIOUS
<1>2. \A i \in OwnIn(Tail(tx)) : i \in Nat /\ i + 1 \in OwnIn(tx) /\ Tail(tx)[i] = tx[i + 1]
  BY <1>1 DEF OwnIn
<1>3. ASSUME NEW i \in OwnIn(Tail(tx)), NEW j \in OwnIn(Tail(tx))
      PROVE  i = j
  <2>1. i + 1 = j + 1
    BY <1>2 DEF OneIn
  <2> QED
    BY <1>2, <2>1
<1>4. pending # NoItem => \A i \in OwnIn(Tail(tx)) : Tail(tx)[i].item = pending
  BY <1>2, Zenon DEF OneIn
<1> QED
  BY <1>3, <1>4 DEF OneIn

(* A frame of another user is not counted. *)
LEMMA OneInOther ==
  ASSUME NEW tx \in Seq(RightFrame), NEW pending, OneIn(pending, tx)
  PROVE  OneIn(pending, Append(tx, OtherRequest))
<1>1. /\ Len(tx) \in Nat
      /\ Len(Append(tx, OtherRequest)) = Len(tx) + 1
      /\ \A i \in 1 .. Len(tx) : Append(tx, OtherRequest)[i] = tx[i]
      /\ Append(tx, OtherRequest)[Len(tx) + 1] = OtherRequest
  OBVIOUS
<1>2. OtherRequest.item = NoItem
  BY DEF OtherRequest
<1>3. \A i \in 1 .. Len(tx) + 1 : i \in 1 .. Len(tx) \/ i = Len(tx) + 1
  BY <1>1
<1>4. \A i \in OwnIn(Append(tx, OtherRequest)) :
        i \in OwnIn(tx) /\ Append(tx, OtherRequest)[i] = tx[i]
  BY <1>1, <1>2, <1>3 DEF OwnIn
<1> QED
  BY <1>4 DEF OneIn

(* An answered request may still be in the buffer; nothing is pending. *)
LEMMA OneInAnswered ==
  ASSUME NEW tx, NEW pending, OneIn(pending, tx)
  PROVE  OneIn(NoItem, tx)
BY DEF OneIn

(* The first frame in an empty buffer is that of the pending request. *)
LEMMA OneInFirst ==
  ASSUME NEW frame \in RightFrame
  PROVE  OneIn(frame.item, <<frame>>) /\ \A pending : OneIn(pending, <<>>)
BY DEF OneIn, OwnIn

-----------------------------------------------------------------------------
(***************************************************************************)
(* The line                                                                *)
(***************************************************************************)

(* The addresses of frames are bytes. *)
LEMMA AddressesAreBytes ==
  ASSUME NEW a \in Address
  PROVE  RequestAddress(a) \in Byte /\ ResponseAddress(a) \in Byte
<1>1. a \in 0 .. 255
  BY InstallationAssumption DEF Byte
<1>2. (a + 128) % 256 \in 0 .. 255 /\ (a + 80) % 256 \in 0 .. 255
  BY <1>1
<1> QED
  BY <1>2 DEF RequestAddress, ResponseAddress, Byte

(* The parts of an answer. *)
LEMMA SentType ==
  ASSUME NEW item \in RightItem, NEW reaction, control \in [Address -> ControlValues]
  PROVE  Sent(item, reaction) \in Seq(Chunk)
<1>1. item \in QueueItem /\ item.daly_address \in Address
  BY DEF RightItem, QueueItem
<1>2. ResponseAddress(item.daly_address) \in Byte
  BY <1>1, AddressesAreBytes
<1>3. control[item.daly_address] \in ControlValues /\ Off \in ControlValues
  BY <1>1 DEF Off, ControlValues
<1>4. Answer(item, reaction) \in Response
  BY <1>1, <1>2, <1>3 DEF Answer, Response
<1> DEFINE parts == CASE reaction \in {"answer", "rejected"} -> <<"whole">>
                      [] reaction = "split"                  -> <<"head", "tail">>
                      [] reaction = "truncated"              -> <<"head">>
                      [] OTHER                               -> <<>>
<1>5. parts \in Seq(Parts)
  <2>1. /\ <<"whole">> \in Seq(Parts) /\ <<"head", "tail">> \in Seq(Parts)
        /\ <<"head">> \in Seq(Parts) /\ <<>> \in Seq(Parts)
    BY DEF Parts
  <2> QED
    BY <2>1, Zenon
<1>6. Sent(item, reaction) =
        [i \in 1 .. Len(parts) |-> [part |-> parts[i], frame |-> Answer(item, reaction)]]
  BY DEF Sent
<1> HIDE DEF parts
<1>7. Len(parts) \in Nat /\ \A i \in 1 .. Len(parts) : parts[i] \in Parts
  BY <1>5
<1>8. \A i \in 1 .. Len(parts) : [part |-> parts[i], frame |-> Answer(item, reaction)] \in Chunk
  BY <1>4, <1>7 DEF Chunk
<1> QED
  BY <1>6, <1>7, <1>8

(* What a frame that is sent does to the line and to its BMS. *)
LEMMA TransmitType ==
  ASSUME NEW frame \in RightFrame,
         control \in [Address -> ControlValues],
         wire \in [Address -> Seq(Chunk)],
         Transmit(frame)
  PROVE  /\ control' \in [Address -> ControlValues]
         /\ wire' \in [Address -> Seq(Chunk)]
<1>1. CASE frame.item = NoItem
  BY <1>1 DEF Transmit
<1>2. CASE frame.item # NoItem
  <2> DEFINE item == frame.item
             a == item.daly_address
  <2>1. item \in RightItem
    BY <1>2 DEF RightFrame
  <2>2. a \in Address
    BY <2>1 DEF RightItem, QueueItem
  <2>3. PICK reaction :
          /\ control' = ControlAfter(a, item, reaction)
          /\ wire' = IF Len(wire[a]) + Len(Sent(item, reaction)) <= MaxOnWire
                     THEN [wire EXCEPT ![a] = wire[a] \o Sent(item, reaction)]
                     ELSE wire
    BY <1>2 DEF Transmit
  <2>4. wire[a] \o Sent(item, reaction) \in Seq(Chunk)
    BY <2>1, <2>2, SentType
  <2>5. ControlAfter(a, item, reaction) \in [Address -> ControlValues]
    <3>1. CASE /\ item.cmd = MODBUS_CMD_WRITE_SINGLE_REGISTER
               /\ item.register_address \in ControlRegisters
               /\ Executed(reaction)
      <4>1. item.data \in 0 .. 1
        BY <2>1, <3>1 DEF RightItem
      <4>2. ControlAfter(a, item, reaction) =
              [control EXCEPT ![a] = [control[a] EXCEPT ![item.register_address] = item.data]]
        BY <3>1 DEF ControlAfter
      <4>3. [control[a] EXCEPT ![item.register_address] = item.data] \in ControlValues
        BY <2>2, <4>1 DEF ControlValues
      <4> QED
        BY <4>2, <4>3
    <3>2. CASE ~(/\ item.cmd = MODBUS_CMD_WRITE_SINGLE_REGISTER
                 /\ item.register_address \in ControlRegisters
                 /\ Executed(reaction))
      BY <3>2 DEF ControlAfter
    <3> QED
      BY <3>1, <3>2
  <2> HIDE DEF item, a
  <2> QED
    BY <2>2, <2>3, <2>4, <2>5
<1> QED
  BY <1>1, <1>2

-----------------------------------------------------------------------------
(***************************************************************************)
(* on_modbus_data                                                          *)
(***************************************************************************)

(* Published states are states. *)
LEMMA PublishedType ==
  ASSUME NEW old \in [InputRegisters -> SwitchState], NEW request, NEW resp
  PROVE  Published(old, request, resp) \in [InputRegisters -> SwitchState]
<1>1. \A reg \in InputRegisters :
        (IF EnoughData(request, WordCount(resp) * 2) /\ HasRegister(request, reg)
         THEN IF GetRegister(request, resp, reg) > 0 THEN "on" ELSE "off"
         ELSE old[reg]) \in SwitchState
  BY Zenon DEF SwitchState
<1> QED
  BY <1>1, Zenon DEF Published

(* A response makes at most the pending request leave, and then it is from *)
(* the BMS of that request.                                                *)
LEMMA OnModbusDataEffect ==
  ASSUME queue \in RightQueue, KeysUnique(queue), OnModbusData
  PROVE  /\ queue' \in RightQueue
         /\ KeysUnique(queue')
         /\ queue'.pending_item \in {queue.pending_item, NoItem}
         /\ \A k \in Keys(queue) \ Keys(queue') :
              Delivers(hub, uart) /\ uart.frame.address = ResponseAddress(k[1])
<1> DEFINE a == CHOOSE x \in Address : GetsData(x)
<1>1. CASE (\E x \in Address : GetsData(x)) /\ CanPop(queue, a)
  <2>1. a \in Address /\ GetsData(a)
    BY <1>1, Zenon
  <2>2. queue' = PopPending(queue, a)
    BY <1>1, Zenon DEF OnModbusData
  <2> HIDE DEF a
  <2>3. queue \in Queue
    BY RightQueueFields
  <2>4. /\ queue' \in RightQueue
        /\ queue'.pending_item = NoItem
    BY <1>1, <2>2, PopPendingRight
  <2>5. /\ KeysUnique(queue')
        /\ QueuedKeys(queue') = QueuedKeys(queue)
    BY <1>1, <2>1, <2>2, <2>3, PopPendingEffect
  <2>6. PendingKeys(queue) = {KeyOf(queue.pending_item)}
    BY <1>1 DEF PendingKeys, CanPop
  <2>7. \A k \in Keys(queue) \ Keys(queue') : k = KeyOf(queue.pending_item)
    BY <2>5, <2>6 DEF Keys
  <2>8. KeyOf(queue.pending_item)[1] = a
    BY <1>1 DEF KeyOf, CanPop
  <2>9. Delivers(hub, uart) /\ uart.frame.address = ResponseAddress(a)
    BY <2>1 DEF GetsData
  <2> QED
    BY <2>4, <2>5, <2>7, <2>8, <2>9
<1>2. CASE ~((\E x \in Address : GetsData(x)) /\ CanPop(queue, a))
  <2>1. queue' = queue
    BY <1>2, Zenon DEF OnModbusData, PopPending
  <2> QED
    BY <2>1
<1> QED
  BY <1>1, <1>2

(* The switches keep states. *)
LEMMA OnModbusDataSwitches ==
  ASSUME switch_state \in [Address -> [InputRegisters -> SwitchState]], OnModbusData
  PROVE  switch_state' \in [Address -> [InputRegisters -> SwitchState]]
<1>1. \A a \in Address :
        /\ switch_state[a] \in [InputRegisters -> SwitchState]
        /\ Published(switch_state[a], queue.pending_item, uart.frame)
             \in [InputRegisters -> SwitchState]
  BY PublishedType
<1> QED
  BY <1>1, Zenon DEF OnModbusData

-----------------------------------------------------------------------------
(***************************************************************************)
(* The invariant                                                           *)
(***************************************************************************)

(* The control registers of a BMS keep their type because switches only    *)
(* order 0 or 1, wherever the order is on its way; and that two frames of  *)
(* the components never meet in the hub needs that the one that is there   *)
(* is that of the pending request.                                         *)
BusInv ==
  /\ TypeOK
  /\ queue \in RightQueue
  /\ KeysUnique(queue)
  /\ hub.tx_buffer \in Seq(RightFrame)
  /\ OneIn(queue.pending_item, hub.tx_buffer)

(* At first there are no requests, frames or bytes. *)
LEMMA InitInv == Init => BusInv
<1> SUFFICES ASSUME Init PROVE BusInv
  OBVIOUS
<1>1. /\ queue.prio_queue = <<>> /\ queue.non_prio_queue = <<>>
      /\ queue.pending_item = NoItem
      /\ queue \in RightQueue
  BY DEF Init, EmptyQueue, RightQueue
<1>2. KeysUnique(queue)
  BY <1>1 DEF KeysUnique, Distinct
<1>3. queue \in Queue
  BY <1>1, RightQueueFields
<1>4. /\ hub.tx_buffer = <<>>
      /\ hub \in Hub(Frame, Chunk)
  BY DEF Init, InitHub, Hub, Byte
<1>5. Len(hub.tx_buffer) <= MODBUS_TX_BUFFER_SIZE
  BY <1>4, TxBufferAssumption
<1>6. hub.tx_buffer \in Seq(RightFrame)
  BY <1>4
<1>7. OneIn(queue.pending_item, hub.tx_buffer)
  BY <1>4 DEF OneIn, OwnIn
<1>8. uart \in Chunk \cup {NoBytes} /\ wire \in [Address -> Seq(Chunk)]
  BY DEF Init
<1>9. control \in [Address -> ControlValues]
  BY DEF Init, Off, ControlValues
<1>10. switch_state \in [Address -> [InputRegisters -> SwitchState]]
  BY DEF Init, SwitchState
<1> QED
  BY <1>1, <1>2, <1>3, <1>4, <1>5, <1>6, <1>7, <1>8, <1>9, <1>10 DEF BusInv, TypeOK

(* A step that changes nothing but the queue, and there only asks. *)
LEMMA AskingKeepsInv ==
  ASSUME BusInv, OnlyAsks(queue, queue'), UNCHANGED <<hub, uart, wire, control, switch_state>>
  PROVE  BusInv'
<1>1. queue' \in RightQueue /\ KeysUnique(queue') /\ queue'.pending_item = queue.pending_item
  BY DEF OnlyAsks
<1>2. queue' \in Queue
  BY <1>1, RightQueueFields
<1> QED
  BY <1>1, <1>2 DEF BusInv, TypeOK

(* loop() of the hub: it receives, gives up, and sends at most one frame.  *)
LEMMA ModbusLoopInv ==
  ASSUME BusInv, ModbusLoop
  PROVE  BusInv'
<1>1. OnModbusData /\ uart' = NoBytes
  BY DEF ModbusLoop
<1>10. PICK received \in Receive(hub, uart) :
        \E h \in StopWaiting(ClearStaleBytes(received)) :
          /\ hub' = SendNextFrame(h)
          /\ IF SendsNextFrame(h)
             THEN Transmit(Head(h.tx_buffer))
             ELSE UNCHANGED <<wire, control>>
  BY DEF ModbusLoop
<1>2. PICK h \in StopWaiting(ClearStaleBytes(received)) :
        /\ hub' = SendNextFrame(h)
        /\ IF SendsNextFrame(h)
           THEN Transmit(Head(h.tx_buffer))
           ELSE UNCHANGED <<wire, control>>
  BY <1>10
<1>3. /\ hub \in AnyHub /\ uart \in Chunk \cup {NoBytes}
      /\ Len(hub.tx_buffer) <= MODBUS_TX_BUFFER_SIZE
      /\ hub.tx_buffer \in Seq(RightFrame)
      /\ OneIn(queue.pending_item, hub.tx_buffer)
      /\ wire \in [Address -> Seq(Chunk)] /\ control \in [Address -> ControlValues]
  BY DEF BusInv, TypeOK, AnyHub
<1>4. h \in AnyHub /\ h.tx_buffer = hub.tx_buffer
  BY <1>2, <1>3, ReceiveEffect, TimeoutsEffect
<1>5. /\ queue' \in RightQueue /\ queue' \in Queue /\ KeysUnique(queue')
      /\ queue'.pending_item \in {queue.pending_item, NoItem}
  BY <1>1, OnModbusDataEffect, RightQueueFields DEF BusInv
<1>6. OneIn(queue'.pending_item, h.tx_buffer)
  BY <1>3, <1>4, <1>5, OneInAnswered
<1>7. switch_state' \in [Address -> [InputRegisters -> SwitchState]]
  BY <1>1, OnModbusDataSwitches DEF BusInv, TypeOK
<1>8. /\ hub' \in AnyHub
      /\ Len(hub'.tx_buffer) <= MODBUS_TX_BUFFER_SIZE
      /\ hub'.tx_buffer \in Seq(RightFrame)
      /\ OneIn(queue'.pending_item, hub'.tx_buffer)
      /\ wire' \in [Address -> Seq(Chunk)] /\ control' \in [Address -> ControlValues]
  <2>1. CASE SendsNextFrame(h)
    <3>1. /\ hub' \in AnyHub
          /\ h.tx_buffer # <<>>
          /\ hub'.tx_buffer = Tail(h.tx_buffer)
      BY <1>2, <1>4, <2>1, SendNextFrameEffect
    <3>2. h.tx_buffer \in Seq(RightFrame)
      BY <1>3, <1>4
    <3>3. /\ Head(h.tx_buffer) \in RightFrame
          /\ Tail(h.tx_buffer) \in Seq(RightFrame)
          /\ Len(Tail(h.tx_buffer)) = Len(h.tx_buffer) - 1
          /\ Len(h.tx_buffer) \in Nat
      BY <3>1, <3>2
    <3>4. Len(Tail(h.tx_buffer)) <= MODBUS_TX_BUFFER_SIZE
      BY <1>3, <1>4, <3>3, TxBufferAssumption
    <3>5. OneIn(queue'.pending_item, Tail(h.tx_buffer))
      BY <1>6, <3>1, <3>2, OneInTail
    <3>6. Transmit(Head(h.tx_buffer))
      BY <1>2, <2>1
    <3>7. wire' \in [Address -> Seq(Chunk)] /\ control' \in [Address -> ControlValues]
      BY <1>3, <3>3, <3>6, TransmitType
    <3> QED
      BY <3>1, <3>3, <3>4, <3>5, <3>7
  <2>2. CASE ~SendsNextFrame(h)
    <3>1. hub' = h
      BY <1>2, <1>4, <2>2, SendNextFrameEffect
    <3>2. UNCHANGED <<wire, control>>
      BY <1>2, <2>2
    <3> QED
      BY <1>3, <1>4, <1>6, <3>1, <3>2
  <2> QED
    BY <2>1, <2>2
<1>9. uart' \in Chunk \cup {NoBytes}
  BY <1>1
<1> QED
  BY <1>5, <1>7, <1>8, <1>9 DEF BusInv, TypeOK, AnyHub

(* loop() of a component: the buffer is empty when it hands over a frame.  *)
LEMMA BmsLoopInv ==
  ASSUME BusInv, NEW a \in Address, BmsLoop(a)
  PROVE  BusInv'
<1>1. /\ hub \in AnyHub
      /\ Len(hub.tx_buffer) <= MODBUS_TX_BUFFER_SIZE
      /\ queue \in RightQueue /\ queue \in Queue /\ KeysUnique(queue)
  BY RightQueueFields DEF BusInv, TypeOK, AnyHub
<1>2. hub.tx_buffer = <<>>
  BY DEF BmsLoop, ReadyForImmediateSend
<1>3. queue' = TryGetToSend(queue, a)
  BY DEF BmsLoop
<1>4. /\ queue' \in RightQueue /\ queue' \in Queue /\ KeysUnique(queue')
      /\ CanTake(Requeue(queue), a) => queue'.pending_item \in RightItem
  BY <1>1, <1>3, TryGetToSendRight, TryGetToSendEffect
<1>5. /\ hub' \in AnyHub
      /\ Len(hub'.tx_buffer) <= MODBUS_TX_BUFFER_SIZE
      /\ hub'.tx_buffer \in Seq(RightFrame)
      /\ OneIn(queue'.pending_item, hub'.tx_buffer)
  <2>1. CASE CanTake(Requeue(queue), a)
    <3> DEFINE item == queue'.pending_item
               frame == RequestFrame(item)
    <3>1. hub' = Send(hub, NumberOfEntities(item), frame)
      BY <2>1 DEF BmsLoop
    <3>2. item \in RightItem
      BY <1>4, <2>1
    <3> HIDE DEF item
    <3>3. item.daly_address \in Address
      BY <3>2 DEF RightItem, QueueItem
    <3>4. frame \in RightFrame /\ frame.item = item
      BY <3>2, <3>3, AddressesAreBytes DEF RequestFrame, RightFrame
    <3>5. frame \in Frame
      BY <3>4, RightFrames
    <3> HIDE DEF frame
    <3>6. /\ hub' \in AnyHub
          /\ Len(hub'.tx_buffer) <= MODBUS_TX_BUFFER_SIZE
          /\ hub'.tx_buffer \in {hub.tx_buffer, Append(hub.tx_buffer, frame)}
      BY <1>1, <3>1, <3>5, SendEffect
    <3>7. Append(hub.tx_buffer, frame) = <<frame>>
      BY <1>2
    <3>8. hub'.tx_buffer \in {<<>>, <<frame>>}
      BY <1>2, <3>6, <3>7
    <3>9. <<>> \in Seq(RightFrame) /\ <<frame>> \in Seq(RightFrame)
      BY <3>4
    <3>10. OneIn(item, <<frame>>) /\ OneIn(item, <<>>)
      BY <3>4, OneInFirst
    <3> QED
      BY <3>6, <3>8, <3>9, <3>10 DEF item
  <2>2. CASE ~CanTake(Requeue(queue), a)
    <3>1. hub' = hub
      BY <2>2 DEF BmsLoop
    <3>2. <<>> \in Seq(RightFrame) /\ OneIn(queue'.pending_item, <<>>)
      BY DEF OneIn, OwnIn
    <3> QED
      BY <1>1, <1>2, <3>1, <3>2
  <2> QED
    BY <2>1, <2>2
<1> QED
  BY <1>4, <1>5 DEF BmsLoop, BusInv, TypeOK, AnyHub

(* Every step keeps the invariant. *)
LEMMA NextInv == BusInv /\ [Next]_vars => BusInv'
<1> SUFFICES ASSUME BusInv, [Next]_vars
             PROVE  BusInv'
  OBVIOUS
<1>1. /\ queue \in RightQueue /\ KeysUnique(queue)
      /\ hub \in AnyHub /\ hub.tx_buffer \in Seq(RightFrame)
      /\ Len(hub.tx_buffer) <= MODBUS_TX_BUFFER_SIZE
      /\ OneIn(queue.pending_item, hub.tx_buffer)
      /\ wire \in [Address -> Seq(Chunk)]
  BY DEF BusInv, TypeOK, AnyHub
<1>2. CASE ModbusLoop
  BY <1>2, ModbusLoopInv
<1>3. ASSUME NEW a \in Address, Update(a)
      PROVE  BusInv'
  <2>1. OnlyAsks(queue, queue')
    BY <1>1, <1>3, UpdateAsks
  <2> QED
    BY <1>3, <2>1, AskingKeepsInv DEF Update
<1>4. ASSUME NEW a \in Address, UpdateFast(a)
      PROVE  BusInv'
  <2>1. OnlyAsks(queue, queue')
    BY <1>1, <1>4, ItemsAreRight, AddingAsks DEF UpdateFast
  <2> QED
    BY <1>4, <2>1, AskingKeepsInv DEF UpdateFast
<1>5. ASSUME NEW a \in Address, BmsLoop(a)
      PROVE  BusInv'
  BY <1>5, BmsLoopInv
<1>6. ASSUME NEW a \in Address, Arrive(a)
      PROVE  BusInv'
  <2>1. wire[a] \in Seq(Chunk) /\ wire[a] # <<>>
    BY <1>1, <1>6 DEF Arrive
  <2>2. Head(wire[a]) \in Chunk /\ Tail(wire[a]) \in Seq(Chunk)
    BY <2>1
  <2>3. uart' \in Chunk /\ wire' \in [Address -> Seq(Chunk)]
    BY <1>1, <1>6, <2>2 DEF Arrive
  <2> QED
    BY <1>6, <2>3 DEF Arrive, BusInv, TypeOK
<1>7. ASSUME NEW a \in Address, NEW reg \in InputRegisters, NEW value \in 0 .. 1,
             WriteState(a, reg, value)
      PROVE  BusInv'
  <2>1. OnlyAsks(queue, queue')
    BY <1>1, <1>7, ItemsAreRight, AddingAsks DEF WriteState
  <2> QED
    BY <1>7, <2>1, AskingKeepsInv DEF WriteState
<1>8. ASSUME NEW timer \in Timer, Elapse(timer)
      PROVE  BusInv'
  <2>1. hub.expired \cup {timer} \in SUBSET Timer
    BY <1>1, HubFields
  <2>2. hub' = [hub EXCEPT !.expired = hub.expired \cup {timer}]
    BY <1>8 DEF Elapse, Expire
  <2>3. hub' \in AnyHub /\ hub'.tx_buffer = hub.tx_buffer
    BY <1>1, <2>1, <2>2 DEF AnyHub, Hub
  <2> QED
    BY <1>8, <2>3 DEF Elapse, BusInv, TypeOK, AnyHub
<1>9. CASE OtherSends
  <2>1. OtherRequest \in RightFrame
    BY DEF OtherRequest, RightFrame, Byte
  <2>2. OtherRequest \in Frame
    BY <2>1, RightFrames
  <2>3. hub' = Send(hub, 1, OtherRequest)
    BY <1>9 DEF OtherSends
  <2>4. /\ hub' \in AnyHub
        /\ Len(hub'.tx_buffer) <= MODBUS_TX_BUFFER_SIZE
        /\ hub'.tx_buffer \in {hub.tx_buffer, Append(hub.tx_buffer, OtherRequest)}
    BY <1>1, <2>2, <2>3, SendEffect
  <2>5. Append(hub.tx_buffer, OtherRequest) \in Seq(RightFrame)
    BY <1>1, <2>1
  <2>6. OneIn(queue.pending_item, Append(hub.tx_buffer, OtherRequest))
    BY <1>1, OneInOther
  <2>7. hub'.tx_buffer \in Seq(RightFrame) /\ OneIn(queue.pending_item, hub'.tx_buffer)
    BY <1>1, <2>4, <2>5, <2>6
  <2> QED
    BY <1>9, <2>4, <2>7 DEF OtherSends, BusInv, TypeOK, AnyHub
<1>10. CASE OtherAnswers
  <2>1. Off \in ControlValues /\ 1 \in Byte
    BY DEF Off, ControlValues, Byte
  <2>2. OtherResponse \in Response
    BY <2>1 DEF OtherResponse, Response
  <2>3. uart' \in Chunk
    BY <1>10, <2>2 DEF OtherAnswers, Chunk, Parts
  <2> QED
    BY <1>10, <2>3 DEF OtherAnswers, BusInv, TypeOK
<1>11. CASE UNCHANGED vars
  BY <1>11 DEF vars, BusInv, TypeOK
<1> QED
  BY <1>2, <1>3, <1>4, <1>5, <1>6, <1>7, <1>8, <1>9, <1>10, <1>11 DEF Next

-----------------------------------------------------------------------------
(***************************************************************************)
(* Theorems                                                                *)
(***************************************************************************)

(* Every reachable state satisfies the invariant. *)
THEOREM BusInvariant == Spec => []BusInv
<1> QED
  BY InitInv, NextInv, PTL DEF Spec

(* All state keeps its type: in particular the transmit buffer never holds *)
(* more than MODBUS_TX_BUFFER_SIZE frames (queue_raw_), and a BMS's        *)
(* control registers never get another value than the 0 and 1 that         *)
(* write_state orders.                                                     *)
THEOREM BusTypeCorrect == Spec => []TypeOK
<1>1. BusInv => TypeOK
  BY DEF BusInv
<1> QED
  BY <1>1, BusInvariant, PTL

(* The hub never holds two frames of the components, and the one it holds  *)
(* is that of the pending request (ready_for_immediate_send in loop).      *)
THEOREM OneOwnFrameKept == Spec => []OneOwnFrame
<1>1. BusInv => OneOwnFrame
  BY DEF BusInv, OneOwnFrame, OwnFrames, OneIn, OwnIn
<1> QED
  BY <1>1, BusInvariant, PTL

(* A request is kept until the hub has parsed a response with the address  *)
(* of its BMS (pop_pending, try_get_to_send, add_or_update).               *)
THEOREM NoRequestLost == Spec => RequestsKept
<1> DEFINE Kept == \A k \in Keys(queue) \ Keys(queue') :
                     /\ Delivers(hub, uart)
                     /\ uart.frame.address = ResponseAddress(k[1])
<1>1. BusInv /\ [Next]_vars => [Kept]_vars
  <2> SUFFICES ASSUME BusInv, Next
               PROVE  Kept
    OBVIOUS
  <2>1. queue \in RightQueue /\ KeysUnique(queue) /\ queue \in Queue
    BY RightQueueFields DEF BusInv
  <2>2. CASE OnlyAsks(queue, queue')
    <3>1. PendingKeys(queue') = PendingKeys(queue)
      BY <2>2 DEF OnlyAsks, PendingKeys
    <3>2. Keys(queue) \subseteq Keys(queue')
      BY <2>2, <3>1 DEF OnlyAsks, Keys
    <3> QED
      BY <3>2
  <2>3. CASE ModbusLoop
    BY <2>1, <2>3, OnModbusDataEffect DEF ModbusLoop
  <2>4. ASSUME NEW a \in Address, Update(a)
        PROVE  Kept
    BY <2>1, <2>2, <2>4, UpdateAsks
  <2>5. ASSUME NEW a \in Address, UpdateFast(a)
        PROVE  Kept
    BY <2>1, <2>2, <2>5, ItemsAreRight, AddingAsks DEF UpdateFast
  <2>6. ASSUME NEW a \in Address, NEW reg \in InputRegisters, NEW value \in 0 .. 1,
               WriteState(a, reg, value)
        PROVE  Kept
    BY <2>1, <2>2, <2>6, ItemsAreRight, AddingAsks DEF WriteState
  <2>7. ASSUME NEW a \in Address, BmsLoop(a)
        PROVE  Kept
    <3>1. queue' = TryGetToSend(queue, a)
      BY <2>7 DEF BmsLoop
    <3>2. Keys(queue) = QueuedKeys(queue) \cup PendingKeys(queue)
      BY DEF Keys
    <3>3. Keys(queue') = QueuedKeys(queue') \cup PendingKeys(queue')
      BY DEF Keys
    <3>4. CASE CanTake(Requeue(queue), a)
      BY <2>1, <3>1, <3>2, <3>3, <3>4, TryGetToSendEffect
    <3>5. CASE ~CanTake(Requeue(queue), a)
      BY <2>1, <3>1, <3>2, <3>3, <3>5, TryGetToSendEffect
    <3> QED
      BY <3>4, <3>5
  <2>8. CASE UNCHANGED queue
    BY <2>8 DEF Keys, QueuedKeys, PendingKeys
  <2>9. (\/ \E a \in Address : Arrive(a)
         \/ \E timer \in Timer : Elapse(timer)
         \/ OtherSends \/ OtherAnswers) => UNCHANGED queue
    BY DEF Arrive, Elapse, OtherSends, OtherAnswers
  <2> HIDE DEF Kept
  <2> QED
    BY <2>3, <2>4, <2>5, <2>6, <2>7, <2>8, <2>9 DEF Next
<1> QED
  BY <1>1, BusInvariant, PTL DEF Spec, RequestsKept
=============================================================================
