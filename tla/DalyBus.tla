------------------------------ MODULE DalyBus ------------------------------
(***************************************************************************)
(* Several Daly BMSs on one Modbus: the daly_hkms_bms components with      *)
(* their switches and shared command queue (CommandQueue), the hub         *)
(* (ModbusHub), the bus and the batteries.                                 *)
(*                                                                         *)
(* One thread runs the scheduled callbacks and all loop() methods, so each *)
(* of those is one action.  The order in which the application calls them  *)
(* is left open.  Bytes, delays and users are independent of that thread.  *)
(***************************************************************************)
EXTENDS CommandQueue, ModbusHub

CONSTANTS
  InputRegisters,  \* the registers of the switches each BMS has
  CellSensors,     \* cell_voltage_sensors_max_ of each BMS
  Polled,          \* bound: the blocks of update() that an instance keeps
  HasFast,         \* the BMSs with an update_interval_fast
  Reactions,       \* what each BMS, and the bus, may do with a request
  Timely,          \* a BMS answers at once or never
  OtherTraffic,    \* the hub has other users, and the bus other devices
  MaxOnWire        \* bound: parts of responses of one BMS on the wire

(* Addresses are 8 bits wide, switches write the registers they show, and  *)
(* the requests of update(), update_fast() and the switches are requests.  *)
ASSUME InstallationAssumption ==
  /\ Address \subseteq Byte
  /\ InputRegisters \subseteq
       Register \cap {DALY_MODBUS_ADDR_CHG_MOS_CONTROL, DALY_MODBUS_ADDR_DSCHG_MOS_CONTROL}
  /\ Polled \cup {DALY_MODBUS_ADDR_VOLT} \subseteq Register
  /\ {CellSensors[a] : a \in Address} \cup {0, 1, 2, 7, 21, 24} \subseteq Data
  /\ CellSensors \in [Address -> 0 .. 48]

VARIABLES
  queue,         \* the command queue of this Modbus
  hub,           \* the Modbus hub
  uart,          \* received by the UART, not yet read by the hub
  wire,          \* for each BMS, what it has sent and the UART has not got
  control,       \* for each BMS, the values of its control registers
  switch_state   \* for each BMS, the published states of its switches

vars == <<queue, hub, uart, wire, control, switch_state>>

-----------------------------------------------------------------------------
(***************************************************************************)
(* Addresses, registers and frames                                         *)
(***************************************************************************)

ControlRegisters == {DALY_MODBUS_ADDR_CHG_MOS_CONTROL, DALY_MODBUS_ADDR_DSCHG_MOS_CONTROL}

(* Addresses are uint8_t, and so are their sums. *)
RequestAddress(a)  == (a + 128) % 256
ResponseAddress(a) == (a + 80) % 256

ReadItem(a, reg, count) ==
  [daly_address |-> a, cmd |-> MODBUS_CMD_READ_HOLDING_REGISTERS,
   register_address |-> reg, data |-> count]

WriteItem(a, reg, value) ==
  [daly_address |-> a, cmd |-> MODBUS_CMD_WRITE_SINGLE_REGISTER,
   register_address |-> reg, data |-> value]

ControlValues == [ControlRegisters -> 0 .. 1]
Off == [r \in ControlRegisters |-> 0]

(* A frame to send; NoItem stands for what another user of the hub asks    *)
(* another device.                                                         *)
Frame == [address : Byte, item : QueueItem \cup {NoItem}]

OtherRequest == [address |-> 1, item |-> NoItem]

(* A frame received: the request it answers and, where that read the       *)
(* control registers, their values.                                        *)
Response ==
  [address : Byte, exception : BOOLEAN, item : QueueItem \cup {NoItem},
   values : ControlValues]

OtherResponse ==
  [address |-> 1, exception |-> FALSE, item |-> NoItem, values |-> Off]

Chunk == [part : Parts, frame : Response]

ASSUME ChunkAssumption == NoBytes \notin Chunk /\ Junk \notin Chunk

SwitchState == {"unknown", "off", "on"}

TypeOK ==
  /\ queue \in Queue
  /\ hub \in Hub(Frame, Chunk)
  /\ Len(hub.tx_buffer) <= MODBUS_TX_BUFFER_SIZE
  /\ uart \in Chunk \cup {NoBytes}
  /\ wire \in [Address -> Seq(Chunk)]
  /\ control \in [Address -> ControlValues]
  /\ switch_state \in [Address -> [InputRegisters -> SwitchState]]

Init ==
  /\ queue = EmptyQueue
  /\ hub = InitHub
  /\ uart = NoBytes
  /\ wire = [a \in Address |-> <<>>]
  /\ control = [a \in Address |-> Off]
  /\ switch_state = [a \in Address |-> [r \in InputRegisters |-> "unknown"]]

-----------------------------------------------------------------------------
(***************************************************************************)
(* Requests                                                                *)
(***************************************************************************)

(* The blocks that update() asks for, in its order. *)
UpdateItems(a) ==
  <<ReadItem(a, DALY_MODBUS_ADDR_CELL_VOLT_1, CellSensors[a]),
    ReadItem(a, DALY_MODBUS_ADDR_CELL_TEMP_1, 24),
    ReadItem(a, DALY_MODBUS_ADDR_CHG_DSCHG_STATUS, 21),
    ReadItem(a, DALY_MODBUS_ADDR_BMS_TYPE_2_ERR_00_01, 7),
    ReadItem(a, DALY_MODBUS_ADDR_CHG_MOS_CONTROL, 2)>>

IsPolled(item) == item.register_address \in Polled /\ item.data > 0

Poll(c, item) == IF IsPolled(item) THEN AddOrUpdate(c, FALSE, item) ELSE c

Update(a) ==
  /\ LET block == UpdateItems(a)
     IN  queue' = Poll(Poll(Poll(Poll(Poll(queue,
                    block[1]), block[2]), block[3]), block[4]), block[5])
  /\ UNCHANGED <<hub, uart, wire, control, switch_state>>

UpdateFast(a) ==
  /\ a \in HasFast
  /\ queue' = AddOrUpdate(queue, TRUE, ReadItem(a, DALY_MODBUS_ADDR_VOLT, 2))
  /\ UNCHANGED <<hub, uart, wire, control, switch_state>>

(* A user toggles a switch: write_state and write_register.  The new state *)
(* is published when the BMS has confirmed it.                             *)
WriteState(a, reg, value) ==
  /\ queue' = AddOrUpdate(queue, TRUE, WriteItem(a, reg, value))
  /\ UNCHANGED <<hub, uart, wire, control, switch_state>>

-----------------------------------------------------------------------------
(***************************************************************************)
(* DalyHkmsBmsComponent::loop                                              *)
(***************************************************************************)

RequestFrame(item) ==
  [address |-> RequestAddress(item.daly_address), item |-> item]

NumberOfEntities(item) ==
  IF item.cmd = MODBUS_CMD_READ_HOLDING_REGISTERS THEN item.data ELSE 1

BmsLoop(a) ==
  /\ ReadyForImmediateSend(hub, uart)
  /\ queue' = TryGetToSend(queue, a)
  /\ hub' = IF CanTake(Requeue(queue), a)
            THEN Send(hub, NumberOfEntities(queue'.pending_item),
                      RequestFrame(queue'.pending_item))
            ELSE hub
  /\ UNCHANGED <<uart, wire, control, switch_state>>

-----------------------------------------------------------------------------
(***************************************************************************)
(* DalyHkmsBmsComponent::on_modbus_data, for the request it has popped     *)
(***************************************************************************)

(* The data of a response as 16-bit words: the registers read, or the      *)
(* register written and its value.  A register that is not a control       *)
(* register holds some measurement, here its own address.                  *)
WordCount(resp) ==
  IF resp.item.cmd = MODBUS_CMD_READ_HOLDING_REGISTERS THEN resp.item.data ELSE 2

WordAt(resp, k) ==
  LET reg == resp.item.register_address + k
  IN  CASE resp.item.cmd = MODBUS_CMD_WRITE_SINGLE_REGISTER ->
             IF k = 0 THEN resp.item.register_address ELSE resp.item.data
        [] resp.item.cmd = MODBUS_CMD_READ_HOLDING_REGISTERS /\ reg \in ControlRegisters ->
             resp.values[reg]
        [] OTHER -> reg

(* Faulty variant of GetRegister: the register address in the response to  *)
(* a write is not skipped.                                                 *)
GetRegisterNoSkip(request, resp, reg) == WordAt(resp, reg - request.register_address)

GetRegister(request, resp, reg) == WordAt(resp, reg - RegisterOffset(request))

(* The states of a BMS's switches after the response; handle_update. *)
Published(old, request, resp) ==
  [reg \in InputRegisters |->
     IF EnoughData(request, WordCount(resp) * 2) /\ HasRegister(request, reg)
     THEN IF GetRegister(request, resp, reg) > 0 THEN "on" ELSE "off"
     ELSE old[reg]]

(* The component whose device address the frame has gets it, and ignores   *)
(* it unless the pending request is its own.                               *)
GetsData(a) ==
  /\ Delivers(hub, uart)
  /\ uart.frame.address = ResponseAddress(a)

OnModbusData ==
  /\ queue' = IF \E a \in Address : GetsData(a)
              THEN PopPending(queue, CHOOSE a \in Address : GetsData(a))
              ELSE queue
  /\ switch_state' =
       [a \in Address |->
          IF GetsData(a) /\ CanPop(queue, a)
          THEN Published(switch_state[a], queue.pending_item, uart.frame)
          ELSE switch_state[a]]

-----------------------------------------------------------------------------
(***************************************************************************)
(* The batteries (external): what happens to a request that was sent       *)
(***************************************************************************)

Executed(reaction) == reaction \in {"answer", "split", "truncated", "answer_lost"}

ControlAfter(a, item, reaction) ==
  IF /\ item.cmd = MODBUS_CMD_WRITE_SINGLE_REGISTER
     /\ item.register_address \in ControlRegisters
     /\ Executed(reaction)
  THEN [control EXCEPT ![a][item.register_address] = item.data]
  ELSE control

Answer(item, reaction) ==
  [address |-> ResponseAddress(item.daly_address),
   exception |-> reaction = "rejected",
   item |-> item,
   values |-> IF item.register_address = DALY_MODBUS_ADDR_CHG_MOS_CONTROL
                 /\ item.cmd = MODBUS_CMD_READ_HOLDING_REGISTERS
              THEN control[item.daly_address] ELSE Off]

Sent(item, reaction) ==
  LET parts == CASE reaction \in {"answer", "rejected"} -> <<"whole">>
                 [] reaction = "split"                  -> <<"head", "tail">>
                 [] reaction = "truncated"              -> <<"head">>
                 [] OTHER                               -> <<>>
  IN  [i \in 1 .. Len(parts) |-> [part |-> parts[i], frame |-> Answer(item, reaction)]]

(* A frame of another user is answered in OtherAnswers. *)
Transmit(frame) ==
  IF frame.item = NoItem
  THEN UNCHANGED <<wire, control>>
  ELSE LET a == frame.item.daly_address
       IN  \E reaction \in Reactions[a] :
             /\ control' = ControlAfter(a, frame.item, reaction)
             /\ wire' = IF Len(wire[a]) + Len(Sent(frame.item, reaction)) <= MaxOnWire
                        THEN [wire EXCEPT ![a] = wire[a] \o Sent(frame.item, reaction)]
                        ELSE wire

-----------------------------------------------------------------------------
(***************************************************************************)
(* Modbus::loop                                                            *)
(***************************************************************************)
ModbusLoop ==
  /\ OnModbusData
  /\ uart' = NoBytes
  /\ \E received \in Receive(hub, uart) :
       \E h \in StopWaiting(ClearStaleBytes(received)) :
         /\ hub' = SendNextFrame(h)
         /\ IF SendsNextFrame(h)
            THEN Transmit(Head(h.tx_buffer))
            ELSE UNCHANGED <<wire, control>>

-----------------------------------------------------------------------------
(***************************************************************************)
(* The bus and the clock                                                   *)
(***************************************************************************)
Arrive(a) ==
  /\ uart = NoBytes
  /\ wire[a] # <<>>
  /\ uart' = Head(wire[a])
  /\ wire' = [wire EXCEPT ![a] = Tail(wire[a])]
  /\ UNCHANGED <<queue, hub, control, switch_state>>

SomethingComing == uart # NoBytes \/ \E a \in Address : wire[a] # <<>>

(* If the BMSs are timely, no delay that waits for bytes runs out while    *)
(* some are on their way.                                                  *)
Elapse(timer) ==
  /\ timer \in Running(hub)
  /\ Timely /\ timer # "quiet" => ~SomethingComing
  /\ hub' = Expire(hub, timer)
  /\ UNCHANGED <<queue, uart, wire, control, switch_state>>

OtherSends ==
  /\ OtherTraffic
  /\ hub' = Send(hub, 1, OtherRequest)
  /\ UNCHANGED <<queue, uart, wire, control, switch_state>>

OtherAnswers ==
  /\ OtherTraffic
  /\ uart = NoBytes
  /\ uart' = [part |-> "whole", frame |-> OtherResponse]
  /\ UNCHANGED <<queue, hub, wire, control, switch_state>>

-----------------------------------------------------------------------------
Next ==
  \/ ModbusLoop
  \/ \E a \in Address : Update(a) \/ UpdateFast(a) \/ BmsLoop(a) \/ Arrive(a)
  \/ \E a \in Address, reg \in InputRegisters, value \in 0 .. 1 : WriteState(a, reg, value)
  \/ \E timer \in Timer : Elapse(timer)
  \/ OtherSends
  \/ OtherAnswers

Spec == Init /\ [][Next]_vars

(* The main loop calls every component again and again and the interval    *)
(* timers fire; time passes and bytes on the wire arrive.  Users and other *)
(* traffic owe nothing.                                                    *)
Fairness ==
  /\ WF_vars(ModbusLoop)
  /\ \A a \in Address : WF_vars(BmsLoop(a)) /\ WF_vars(Update(a)) /\ WF_vars(Arrive(a))
  /\ \A timer \in Timer : WF_vars(Elapse(timer))

FairSpec == Spec /\ Fairness

(* As much of it as the hub needs on its own. *)
HubFairness == WF_vars(ModbusLoop) /\ \A timer \in Timer : WF_vars(Elapse(timer))

HubFairSpec == Spec /\ HubFairness

-----------------------------------------------------------------------------
(***************************************************************************)
(* Safety                                                                  *)
(***************************************************************************)

(* The parts of responses that the hub has not read yet. *)
Coming ==
  (UNION {{wire[a][i] : i \in 1 .. Len(wire[a])} : a \in Address})
    \cup ({uart} \ {NoBytes})

(* A response does not say which request it answers, so a component takes  *)
(* any response of its BMS for that to the pending request.  That is right *)
(* because, with timely BMSs and no other traffic, whatever is on its way  *)
(* answers the pending request, and the hub waits for what is coming: no   *)
(* request is sent, requeued or given up while the answer to one before it *)
(* may still be parsed (loop, tx_blocked, try_get_to_send, pop_pending).   *)
AnswersArePending ==
  /\ \A c \in Coming :
       /\ c.frame.item = queue.pending_item
       /\ hub.waiting_for_response = RequestAddress(c.frame.item.daly_address)
  /\ hub.rx_buffer \notin {NoBytes, Junk} =>
       hub.rx_buffer.frame.item = queue.pending_item

OwnFrames == {i \in 1 .. Len(hub.tx_buffer) : hub.tx_buffer[i].item # NoItem}

(* However other users fill the hub and whenever late responses come, the  *)
(* hub never holds two frames of the components: all but one request wait  *)
(* in the command queue, where priorities count, and a request that is     *)
(* still to be sent is not sent twice (ready_for_immediate_send in loop).  *)
OneOwnFrame ==
  /\ \A i, j \in OwnFrames : i = j
  /\ queue.pending_item # NoItem =>
       \A i \in OwnFrames : hub.tx_buffer[i].item = queue.pending_item

Keys(c) == QueuedKeys(c) \cup PendingKeys(c)

(* Whatever is lost, late or garbled, a request is kept until the hub has  *)
(* parsed a response of its own BMS: no other BMS, device or exception     *)
(* makes it leave, nor does sending it in vain (pop_pending,               *)
(* try_get_to_send, parse_modbus_byte_).                                   *)
RequestsKept ==
  [][\A k \in Keys(queue) \ Keys(queue') :
       /\ Delivers(hub, uart)
       /\ uart.frame.address = ResponseAddress(k[1])]_vars

Orders(c) ==
  {item \in {c.prio_queue[i] : i \in 1 .. Len(c.prio_queue)}
             \cup {c.non_prio_queue[i] : i \in 1 .. Len(c.non_prio_queue)}
             \cup ({c.pending_item} \ {NoItem}) :
     item.cmd = MODBUS_CMD_WRITE_SINGLE_REGISTER}

(* A published switch state is the state of the BMS, unless an order of a  *)
(* user for that switch is still on its way: neither lost, garbled nor     *)
(* rejected orders, nor the polls of the same registers, leave a switch    *)
(* wrong (on_modbus_data, handle_update).                                  *)
SwitchesTrue ==
  \A a \in Address, reg \in InputRegisters :
    \/ switch_state[a][reg] = "unknown"
    \/ switch_state[a][reg] = IF control[a][reg] > 0 THEN "on" ELSE "off"
    \/ \E order \in Orders(queue) :
         order.daly_address = a /\ order.register_address = reg

(* The BMS has executed the order, or a user gives another one. *)
IsSettled(order) ==
  \/ control[order.daly_address][order.register_address] = order.data
  \/ \E value \in 0 .. 1 :
       WriteState(order.daly_address, order.register_address, value)

(* The order a user gave last for a switch is the one that is kept: until  *)
(* the BMS has executed it, only another order of a user replaces it.      *)
(* Requests that were sent but not answered go back to the queue and must  *)
(* not undo it (add_or_update, try_get_to_send).                           *)
OrdersKept ==
  [][\A order \in Orders(queue) \ Orders(queue') : IsSettled(order)]_vars

(* "fast requests always have priority" (README.md:50): no read of         *)
(* update_fast waits among the normal requests.                            *)
FastHasPriority ==
  \A i \in 1 .. Len(queue.non_prio_queue) :
    queue.non_prio_queue[i].register_address # DALY_MODBUS_ADDR_VOLT

(* "if we didn't do a send, we ignore the data" (daly_hkms_bms.cpp:143): a *)
(* response is never taken for that to a request which is still unsent.    *)
DataOnlyAfterSend ==
  [][\A i \in OwnFrames :
       hub.tx_buffer[i].item = queue.pending_item =>
         queue'.pending_item = queue.pending_item]_vars

-----------------------------------------------------------------------------
(***************************************************************************)
(* Liveness                                                                *)
(***************************************************************************)

NoMoreTraffic == <>[][~OtherSends /\ ~OtherAnswers]_vars

(* Whatever BMSs do with requests, and however late they answer, the hub   *)
(* is again and again free for the next request (the timeouts of loop),    *)
(* once other users and devices leave it alone, whether or not the         *)
(* components ever run.                                                    *)
HubRecovers == NoMoreTraffic => []<>ReadyForImmediateSend(hub, uart)

Healthy == {a \in Address : Reactions[a] = {"answer"}}

(* OrdersKept for the BMSs that always answer in time: no fault of another *)
(* BMS on the same line, nor polls and fast reads, undo or drop an order   *)
(* (Modbus::tx_blocked, add_or_update, try_get_to_send).                   *)
HealthyOrdersKept ==
  [][\A order \in Orders(queue) \ Orders(queue') :
       order.daly_address \in Healthy => IsSettled(order)]_vars

NoMoreOrders ==
  <>[][\A a \in Address, reg \in InputRegisters, value \in 0 .. 1 :
         ~WriteState(a, reg, value)]_vars

NoMoreFastReads == <>[][\A a \in Address : ~UpdateFast(a)]_vars

IsAnswered(item) ==
  PendingKeys(queue) = {KeyOf(item)} /\ queue'.pending_item = NoItem

(* A BMS that never answers does not keep the others from being polled,    *)
(* although its requests are retried for ever (the place of the retries in *)
(* try_get_to_send), once the prioritized requests cease: these may starve *)
(* the polls, as README.md:50 warns.                                       *)
PollsServed ==
  NoMoreOrders /\ NoMoreFastReads =>
    \A a \in Healthy :
      \A i \in 1 .. 5 :
        IsPolled(UpdateItems(a)[i]) => []<><<IsAnswered(UpdateItems(a)[i])>>_vars

(* When the users have stopped toggling, every order for a BMS that        *)
(* answers has been confirmed some time, even if fast reads keep coming    *)
(* and another BMS is silent.                                              *)
OrdersServed ==
  NoMoreOrders =>
    \A a \in Healthy : <>[](\A order \in Orders(queue) : order.daly_address # a)
=============================================================================
