------------------------- MODULE DalyBusOrderProofs -------------------------
(***************************************************************************)
(* Theorems about the orders of users and what the switches show, from the *)
(* result of DalyBusTimelyProofs that a response answers the pending       *)
(* request: the orders for a healthy BMS stay until it has executed them,  *)
(* and a switch without an order shows the state of its BMS.               *)
(***************************************************************************)
EXTENDS DalyBusTimelyProofs

-----------------------------------------------------------------------------
(***************************************************************************)
(* Orders in the queue                                                     *)
(***************************************************************************)

ItemsIn(q) == {q[i] : i \in 1 .. Len(q)}

(* Orders, in parts. *)
LEMMA OrderParts ==
  ASSUME NEW c \in Queue, NEW x
  PROVE  x \in Orders(c) <=>
           /\ x.cmd = MODBUS_CMD_WRITE_SINGLE_REGISTER
           /\ \/ x \in ItemsIn(c.prio_queue)
              \/ x \in ItemsIn(c.non_prio_queue)
              \/ x = c.pending_item /\ x # NoItem
BY DEF Orders, ItemsIn

(* An order is a request. *)
LEMMA OrderType ==
  ASSUME NEW c \in Queue, NEW x \in Orders(c)
  PROVE  x \in QueueItem
<1>1. /\ \A i \in 1 .. Len(c.prio_queue) : c.prio_queue[i] \in QueueItem
      /\ \A i \in 1 .. Len(c.non_prio_queue) : c.non_prio_queue[i] \in QueueItem
      /\ c.pending_item \in QueueItem \cup {NoItem}
  BY DEF Queue
<1> QED
  BY <1>1, OrderParts DEF ItemsIn

(* Changing one queue and then forgetting the pending request or not.      *)
LEMMA ItemsInSeqs ==
  ASSUME NEW q \in Seq(QueueItem), NEW item \in QueueItem, NEW x \in ItemsIn(q)
  PROVE  /\ KeyOf(x) # KeyOf(item) => x \in ItemsIn(SetData(q, item))
         /\ x \in ItemsIn(Append(q, item))
         /\ q # <<>> /\ (x = Head(q) \/ x \in ItemsIn(Tail(q)))
<1>1. PICK i \in 1 .. Len(q) : x = q[i]
  BY DEF ItemsIn
<1>2. x \in QueueItem
  BY <1>1
<1>3. ASSUME KeyOf(x) # KeyOf(item)
      PROVE  x \in ItemsIn(SetData(q, item))
  <2>1. ~FirstMatch(q, i, item)
    BY <1>1, <1>2, <1>3, KeyEqualsKeyOf DEF FirstMatch
  <2>2. SetData(q, item)[i] = x /\ i \in 1 .. Len(SetData(q, item))
    BY <1>1, <2>1, SetDataKeepsKeys DEF SetData
  <2> QED
    BY <2>2 DEF ItemsIn
<1>4. x \in ItemsIn(Append(q, item))
  <2>1. i \in 1 .. Len(Append(q, item)) /\ Append(q, item)[i] = x
    BY <1>1
  <2> QED
    BY <2>1 DEF ItemsIn
<1>5. q # <<>> /\ (x = Head(q) \/ x \in ItemsIn(Tail(q)))
  <2>1. /\ q # <<>> /\ Head(q) = q[1]
        /\ Len(Tail(q)) = Len(q) - 1 /\ Len(q) \in Nat
        /\ \A j \in 1 .. Len(q) - 1 : Tail(q)[j] = q[j + 1]
    BY <1>1
  <2>2. CASE i = 1
    BY <1>1, <2>1, <2>2
  <2>3. CASE i # 1
    <3>1. i - 1 \in 1 .. Len(Tail(q)) /\ Tail(q)[i - 1] = x
      BY <1>1, <2>1, <2>3
    <3> QED
      BY <2>1, <3>1 DEF ItemsIn
  <2> QED
    BY <2>2, <2>3
<1> QED
  BY <1>3, <1>4, <1>5

(* add_or_update replaces no order but one with the key of the request.    *)
LEMMA AddKeepsOthers ==
  ASSUME NEW c \in Queue, NEW prioritize \in BOOLEAN, NEW item \in QueueItem, KeysUnique(c),
         NEW x \in Orders(c), KeyOf(x) # KeyOf(item)
  PROVE  x \in Orders(AddOrUpdate(c, prioritize, item))
<1> DEFINE d == AddOrUpdate(c, prioritize, item)
<1>1. c.prio_queue \in Seq(QueueItem) /\ c.non_prio_queue \in Seq(QueueItem)
  BY QueueFields
<1>2. d \in Queue /\ d.pending_item = c.pending_item
  BY AddOrUpdateEffect
<1>3. /\ d.prio_queue \in
           {c.prio_queue, SetData(c.prio_queue, item), Append(c.prio_queue, item)}
      /\ d.non_prio_queue \in
           {c.non_prio_queue, SetData(c.non_prio_queue, item), Append(c.non_prio_queue, item)}
  <2>1. \A s : /\ [c EXCEPT !.prio_queue = s].prio_queue = s
               /\ [c EXCEPT !.prio_queue = s].non_prio_queue = c.non_prio_queue
               /\ [c EXCEPT !.non_prio_queue = s].non_prio_queue = s
               /\ [c EXCEPT !.non_prio_queue = s].prio_queue = c.prio_queue
    BY DEF Queue
  <2>2. \/ d = [c EXCEPT !.prio_queue = SetData(c.prio_queue, item)]
        \/ d = [c EXCEPT !.non_prio_queue = SetData(c.non_prio_queue, item)]
        \/ d = [c EXCEPT !.prio_queue = Append(c.prio_queue, item)]
        \/ d = [c EXCEPT !.non_prio_queue = Append(c.non_prio_queue, item)]
    BY DEF AddOrUpdate
  <2> HIDE DEF d
  <2> QED
    BY <2>1, <2>2
<1> HIDE DEF d
<1>4. x \in ItemsIn(c.prio_queue) => x \in ItemsIn(d.prio_queue)
  BY <1>1, <1>3, ItemsInSeqs
<1>5. x \in ItemsIn(c.non_prio_queue) => x \in ItemsIn(d.non_prio_queue)
  BY <1>1, <1>3, ItemsInSeqs
<1>6. x \in Orders(d)
  BY <1>2, <1>4, <1>5, OrderParts
<1> QED
  BY <1>6 DEF d

(* A request that reads replaces no order. *)
LEMMA ReadKeepsOrders ==
  ASSUME NEW c \in Queue, NEW prioritize \in BOOLEAN, NEW item \in QueueItem, KeysUnique(c),
         item.cmd = MODBUS_CMD_READ_HOLDING_REGISTERS
  PROVE  Orders(c) \subseteq Orders(AddOrUpdate(c, prioritize, item))
<1> SUFFICES ASSUME NEW x \in Orders(c)
             PROVE  x \in Orders(AddOrUpdate(c, prioritize, item))
  OBVIOUS
<1>1. x.cmd = MODBUS_CMD_WRITE_SINGLE_REGISTER
  BY OrderParts
<1>2. KeyOf(x) # KeyOf(item)
  BY <1>1 DEF KeyOf, MODBUS_CMD_READ_HOLDING_REGISTERS, MODBUS_CMD_WRITE_SINGLE_REGISTER
<1> QED
  BY <1>2, AddKeepsOthers

(* update() reads. *)
LEMMA UpdateKeepsOrders ==
  ASSUME NEW a \in Address, queue \in RightQueue, KeysUnique(queue), Update(a)
  PROVE  Orders(queue) \subseteq Orders(queue')
<1> DEFINE block == UpdateItems(a)
           Reads(item) == IsPolled(item) => item \in RightItem
                            /\ item.cmd = MODBUS_CMD_READ_HOLDING_REGISTERS
           c1 == Poll(queue, block[1])
           c2 == Poll(c1, block[2])
           c3 == Poll(c2, block[3])
           c4 == Poll(c3, block[4])
           c5 == Poll(c4, block[5])
<1>1. queue' = c5
  BY DEF Update
<1>2. Reads(block[1]) /\ Reads(block[2]) /\ Reads(block[3]) /\ Reads(block[4]) /\ Reads(block[5])
  <2>1. \A i \in 1 .. 5 : IsPolled(block[i]) => block[i] \in RightItem
    BY ItemsAreRight
  <2>2. /\ block[1].cmd = MODBUS_CMD_READ_HOLDING_REGISTERS
        /\ block[2].cmd = MODBUS_CMD_READ_HOLDING_REGISTERS
        /\ block[3].cmd = MODBUS_CMD_READ_HOLDING_REGISTERS
        /\ block[4].cmd = MODBUS_CMD_READ_HOLDING_REGISTERS
        /\ block[5].cmd = MODBUS_CMD_READ_HOLDING_REGISTERS
    BY DEF UpdateItems, ReadItem
  <2> HIDE DEF block
  <2> QED
    BY <2>1, <2>2
<1>3. ASSUME NEW c \in RightQueue, KeysUnique(c), NEW item, Reads(item)
      PROVE  /\ Poll(c, item) \in RightQueue /\ KeysUnique(Poll(c, item))
             /\ Orders(c) \subseteq Orders(Poll(c, item))
  <2>1. Poll(c, item) \in RightQueue /\ KeysUnique(Poll(c, item))
    BY <1>3, PollAsks DEF OnlyAsks
  <2>2. CASE IsPolled(item)
    <3>1. c \in Queue /\ item \in QueueItem
      BY <1>3, <2>2, RightQueueFields DEF RightItem
    <3> QED
      BY <1>3, <2>1, <2>2, <3>1, ReadKeepsOrders DEF Poll
  <2>3. CASE ~IsPolled(item)
    BY <2>1, <2>3 DEF Poll
  <2> QED
    BY <2>2, <2>3
<1> HIDE DEF block, Reads
<1>4. c1 \in RightQueue /\ KeysUnique(c1) /\ Orders(queue) \subseteq Orders(c1)
  BY <1>2, <1>3
<1> HIDE DEF c1
<1>5. c2 \in RightQueue /\ KeysUnique(c2) /\ Orders(c1) \subseteq Orders(c2)
  BY <1>2, <1>3, <1>4
<1> HIDE DEF c2
<1>6. c3 \in RightQueue /\ KeysUnique(c3) /\ Orders(c2) \subseteq Orders(c3)
  BY <1>2, <1>3, <1>5
<1> HIDE DEF c3
<1>7. c4 \in RightQueue /\ KeysUnique(c4) /\ Orders(c3) \subseteq Orders(c4)
  BY <1>2, <1>3, <1>6
<1> HIDE DEF c4
<1>8. Orders(c4) \subseteq Orders(c5)
  BY <1>2, <1>3, <1>7
<1> HIDE DEF c5
<1> QED
  BY <1>1, <1>4, <1>5, <1>6, <1>7, <1>8

(* try_get_to_send replaces no order but one with the key of the request   *)
(* that was pending.                                                       *)
LEMMA TryKeepsOthers ==
  ASSUME NEW c \in Queue, NEW addr \in Address, KeysUnique(c),
         NEW x \in Orders(c), c.pending_item # NoItem => KeyOf(x) # KeyOf(c.pending_item)
  PROVE  x \in Orders(TryGetToSend(c, addr))
<1> DEFINE r == Requeue(c)
           d == TakeFront(r)
<1>1. r \in Queue /\ KeysUnique(r)
  BY RequeueEffect
<1>2. x \in Orders(r)
  <2>1. CASE c.pending_item = NoItem
    BY <2>1 DEF Requeue
  <2>2. CASE c.pending_item # NoItem
    <3> DEFINE e == AddOrUpdate(c, FALSE, c.pending_item)
    <3>1. c.pending_item \in QueueItem
      BY <2>2, QueueFields
    <3>2. e \in Queue /\ e.pending_item = c.pending_item /\ x \in Orders(e)
      BY <2>2, <3>1, AddOrUpdateEffect, AddKeepsOthers
    <3>3. r = [e EXCEPT !.pending_item = NoItem]
      BY <2>2 DEF Requeue
    <3> HIDE DEF e, r
    <3>4. r.prio_queue = e.prio_queue /\ r.non_prio_queue = e.non_prio_queue
      BY <3>2, <3>3 DEF Queue
    <3>5. x # e.pending_item
      BY <2>2, <3>2
    <3> QED
      BY <1>1, <3>2, <3>4, <3>5, OrderParts
  <2> QED
    BY <2>1, <2>2
<1>3. r.pending_item = NoItem
  BY RequeueEffect
<1> HIDE DEF r
<1>4. CASE CanTake(r, addr)
  <2>1. d \in Queue
    BY <1>1, <1>4, TakeFrontEffect
  <2>2. r.prio_queue \in Seq(QueueItem) /\ r.non_prio_queue \in Seq(QueueItem)
    BY <1>1, QueueFields
  <2>3. CASE r.prio_queue # <<>>
    <3>1. d = [r EXCEPT !.prio_queue = Tail(r.prio_queue), !.pending_item = Head(r.prio_queue)]
      BY <2>3 DEF TakeFront
    <3>2. /\ d.prio_queue = Tail(r.prio_queue) /\ d.non_prio_queue = r.non_prio_queue
          /\ d.pending_item = Head(r.prio_queue)
      BY <1>1, <3>1 DEF Queue
    <3>3. d.pending_item # NoItem
      BY <2>2, <2>3, <3>2, NoItemAssumption
    <3>4. x \in ItemsIn(r.prio_queue) => x = d.pending_item \/ x \in ItemsIn(d.prio_queue)
      BY <2>2, <3>2, ItemsInSeqs, OrderType, <1>1, <1>2
    <3> HIDE DEF d
    <3>5. x \in Orders(d)
      BY <1>1, <1>2, <1>3, <2>1, <3>2, <3>3, <3>4, OrderParts
    <3> QED
      BY <1>4, <3>5 DEF TryGetToSend, r, d
  <2>4. CASE r.prio_queue = <<>>
    <3>1. d = [r EXCEPT !.non_prio_queue = Tail(r.non_prio_queue),
                        !.pending_item = Head(r.non_prio_queue)]
      BY <2>4 DEF TakeFront
    <3>2. /\ d.prio_queue = r.prio_queue /\ d.non_prio_queue = Tail(r.non_prio_queue)
          /\ d.pending_item = Head(r.non_prio_queue)
      BY <1>1, <3>1 DEF Queue
    <3>3. d.pending_item # NoItem
      BY <1>4, <2>2, <2>4, <3>2, NoItemAssumption DEF CanTake
    <3>4. x \in ItemsIn(r.non_prio_queue) => x = d.pending_item \/ x \in ItemsIn(d.non_prio_queue)
      BY <2>2, <3>2, ItemsInSeqs, OrderType, <1>1, <1>2
    <3> HIDE DEF d
    <3>5. x \in Orders(d)
      BY <1>1, <1>2, <1>3, <2>1, <3>2, <3>3, <3>4, OrderParts
    <3> QED
      BY <1>4, <3>5 DEF TryGetToSend, r, d
  <2> QED
    BY <2>3, <2>4
<1>5. CASE ~CanTake(r, addr)
  BY <1>2, <1>5 DEF TryGetToSend, r
<1> QED
  BY <1>4, <1>5

(* pop_pending removes the pending request only. *)
LEMMA PopKeepsOthers ==
  ASSUME NEW c \in Queue, NEW addr \in Address, NEW x \in Orders(c), KeysUnique(c),
         x \notin Orders(PopPending(c, addr))
  PROVE  x = c.pending_item
<1>1. CanPop(c, addr)
  BY DEF PopPending
<1>2. /\ PopPending(c, addr) \in Queue
      /\ PopPending(c, addr).prio_queue = c.prio_queue
      /\ PopPending(c, addr).non_prio_queue = c.non_prio_queue
  BY <1>1, PopPendingEffect DEF PopPending, Queue
<1> QED
  BY <1>2, OrderParts

(* The orders for a switch, by their key. *)
OrderKey(a, reg) == <<a, MODBUS_CMD_WRITE_SINGLE_REGISTER, reg>>

IsOrdered(c, a, reg) ==
  \E order \in Orders(c) : order.daly_address = a /\ order.register_address = reg

LEMMA OrderedKeys ==
  ASSUME NEW c \in Queue, NEW a, NEW reg
  PROVE  IsOrdered(c, a, reg) <=> OrderKey(a, reg) \in Keys(c)
<1>1. \A x : KeyOf(x) = OrderKey(a, reg) <=>
               /\ x.daly_address = a
               /\ x.cmd = MODBUS_CMD_WRITE_SINGLE_REGISTER
               /\ x.register_address = reg
  BY DEF KeyOf, OrderKey
<1>2. \A q : OrderKey(a, reg) \in KeysIn(q) <=> \E x \in ItemsIn(q) : KeyOf(x) = OrderKey(a, reg)
  BY DEF KeysIn, ItemsIn
<1>3. OrderKey(a, reg) \in PendingKeys(c) <=>
        c.pending_item # NoItem /\ KeyOf(c.pending_item) = OrderKey(a, reg)
  BY DEF PendingKeys
<1> QED
  BY <1>1, <1>2, <1>3, OrderParts DEF IsOrdered, Keys, QueuedKeys

-----------------------------------------------------------------------------
(***************************************************************************)
(* The orders for a healthy BMS                                            *)
(***************************************************************************)

LosesSettled ==
  \A order \in Orders(queue) \ Orders(queue') :
    order.daly_address \in Healthy => IsSettled(order)

(* No step loses an order of a healthy BMS before it is executed.          *)
LEMMA HealthyStep ==
  ASSUME Alone, TimelyInv, HealthyInv, Next
  PROVE  LosesSettled
<1> DEFINE item == queue.pending_item
<1>1. /\ BusInv /\ OneOnItsWay
      /\ queue \in RightQueue /\ queue \in Queue /\ KeysUnique(queue)
  BY RightQueueFields DEF TimelyInv, OneOnItsWay, BusInv
<1>2. ASSUME NEW a \in Address, Update(a)
      PROVE  LosesSettled
  BY <1>1, <1>2, UpdateKeepsOrders DEF LosesSettled
<1>3. ASSUME NEW a \in Address, UpdateFast(a)
      PROVE  LosesSettled
  <2> DEFINE read == ReadItem(a, DALY_MODBUS_ADDR_VOLT, 2)
  <2>1. read \in QueueItem /\ read.cmd = MODBUS_CMD_READ_HOLDING_REGISTERS
    BY ItemsAreRight DEF RightItem, ReadItem
  <2> HIDE DEF read
  <2>2. queue' = AddOrUpdate(queue, TRUE, read)
    BY <1>3 DEF UpdateFast, read
  <2> QED
    BY <1>1, <2>1, <2>2, ReadKeepsOrders DEF LosesSettled
<1>4. ASSUME NEW a \in Address, NEW reg \in InputRegisters, NEW value \in 0 .. 1,
             WriteState(a, reg, value)
      PROVE  LosesSettled
  <2> DEFINE new == WriteItem(a, reg, value)
  <2>1. new \in QueueItem /\ KeyOf(new) = OrderKey(a, reg)
    BY ItemsAreRight DEF RightItem, WriteItem, KeyOf, OrderKey
  <2> HIDE DEF new
  <2>2. queue' = AddOrUpdate(queue, TRUE, new)
    BY <1>4 DEF WriteState, new
  <2>3. ASSUME NEW order \in Orders(queue) \ Orders(queue')
        PROVE  IsSettled(order)
    <3>1. KeyOf(order) = KeyOf(new)
      BY <1>1, <2>1, <2>2, <2>3, AddKeepsOthers
    <3>2. order.daly_address = a /\ order.register_address = reg
      BY <2>1, <3>1 DEF KeyOf, OrderKey
    <3> QED
      BY <1>4, <3>2 DEF IsSettled
  <2> QED
    BY <2>3 DEF LosesSettled
<1>5. ASSUME NEW a \in Address, BmsLoop(a)
      PROVE  LosesSettled
  <2>1. queue' = TryGetToSend(queue, a) /\ ~IsHealthyOrder(item)
    BY <1>1, <1>5, ComingBlocks DEF BmsLoop
  <2>2. ASSUME NEW order \in Orders(queue), order.daly_address \in Healthy, item # NoItem
        PROVE  KeyOf(order) # KeyOf(item)
    <3>1. order.cmd = MODBUS_CMD_WRITE_SINGLE_REGISTER
      BY <1>1, <2>2, OrderParts
    <3> QED
      BY <2>1, <2>2, <3>1 DEF IsHealthyOrder, KeyOf
  <2> QED
    BY <1>1, <2>1, <2>2, TryKeepsOthers DEF LosesSettled
<1>6. CASE ModbusLoop
  <2>1. CASE queue' = queue
    BY <2>1 DEF LosesSettled
  <2>2. CASE Ends
    <3>1. PICK f \in Response :
            /\ item \in RightItem
            /\ Answers(f, item)
            /\ queue' = IF f.exception THEN queue ELSE PopPending(queue, item.daly_address)
      BY <2>2 DEF Ends
    <3>2. ASSUME NEW order \in Orders(queue) \ Orders(queue')
          PROVE  IsSettled(order)
      <4>1. /\ ~f.exception
            /\ order \in Orders(queue)
            /\ order \notin Orders(PopPending(queue, item.daly_address))
        BY <3>1, <3>2
      <4>2. order.cmd = MODBUS_CMD_WRITE_SINGLE_REGISTER
        BY <1>1, <4>1, OrderParts
      <4>3. order = item
        BY <1>1, <3>1, <4>1, PopKeepsOthers DEF RightItem, QueueItem
      <4> QED
        BY <3>1, <4>1, <4>2, <4>3 DEF Answers, IsSettled
    <3> QED
      BY <3>2 DEF LosesSettled
  <2>3. Sends \/ Idles \/ Follows => queue' = queue
    BY DEF Sends, Idles, Follows
  <2> QED
    BY <1>1, <1>6, <2>1, <2>2, <2>3, LoopSteps
<1>7. (\/ \E a \in Address : Arrive(a)
       \/ \E timer \in Timer : Elapse(timer)) => queue' = queue
  BY DEF Arrive, Elapse
<1>8. queue' = queue => LosesSettled
  BY DEF LosesSettled
<1>9. ~OtherSends /\ ~OtherAnswers
  BY DEF Alone, OtherSends, OtherAnswers
<1> QED
  BY <1>2, <1>3, <1>4, <1>5, <1>6, <1>7, <1>8, <1>9 DEF Next

(* No fault of another BMS on the same line, nor polls and fast reads, undo *)
(* or drop an order for a BMS that answers in time (tx_blocked,            *)
(* add_or_update, try_get_to_send).                                        *)
THEOREM HealthyOrdersStay ==
  ASSUME Alone, MaxOnWire >= 1
  PROVE  Spec => HealthyOrdersKept
<1>1. Init => TimelyInv /\ HealthyInv
  BY InitTimely
<1>2. TimelyInv /\ HealthyInv /\ [Next]_vars => (TimelyInv /\ HealthyInv)'
  BY NextTimely
<1>3. TimelyInv /\ HealthyInv /\ [Next]_vars =>
        [\A order \in Orders(queue) \ Orders(queue') :
           order.daly_address \in Healthy => IsSettled(order)]_vars
  BY HealthyStep DEF LosesSettled
<1> QED
  BY <1>1, <1>2, <1>3, PTL DEF Spec, HealthyOrdersKept

-----------------------------------------------------------------------------
(***************************************************************************)
(* What the switches show                                                  *)
(***************************************************************************)

(* With both switches of a BMS, the response to a write of the one would   *)
(* be taken to hold the other, too (RegisterOffset).                       *)
OneKindOfSwitch == ~(ControlRegisters \subseteq InputRegisters)

Shown(a, reg) == IF control[a][reg] > 0 THEN "on" ELSE "off"

IsTrue(a, reg) ==
  \/ switch_state[a][reg] = "unknown"
  \/ switch_state[a][reg] = Shown(a, reg)
  \/ OrderKey(a, reg) \in Keys(queue)

(* SwitchesTrue in terms of keys. *)
LEMMA SwitchesTrueKeys ==
  ASSUME queue \in Queue
  PROVE  SwitchesTrue <=> \A a \in Address, reg \in InputRegisters : IsTrue(a, reg)
<1>1. \A a, reg : IsOrdered(queue, a, reg) <=> OrderKey(a, reg) \in Keys(queue)
  BY OrderedKeys
<1> QED
  BY <1>1 DEF SwitchesTrue, IsTrue, Shown, IsOrdered

(* A request changes the control registers only as it orders. *)
LEMMA TransmitControl ==
  ASSUME NEW item \in RightItem, control \in [Address -> ControlValues],
         Transmit(RequestFrame(item)), NEW a \in Address, NEW reg \in InputRegisters,
         control'[a][reg] # control[a][reg]
  PROVE  KeyOf(item) = OrderKey(a, reg)
<1> DEFINE b == item.daly_address
<1>1. item # NoItem /\ b \in Address /\ item.register_address \in Register
  BY NoItemAssumption DEF RightItem, QueueItem
<1>2. PICK reaction \in Reactions[b] : control' = ControlAfter(b, item, reaction)
  BY <1>1 DEF Transmit, RequestFrame
<1>3. /\ item.cmd = MODBUS_CMD_WRITE_SINGLE_REGISTER
      /\ item.register_address \in ControlRegisters
      /\ control' = [control EXCEPT ![b][item.register_address] = item.data]
  BY <1>2 DEF ControlAfter
<1>4. reg \in ControlRegisters
  BY InstallationAssumption DEF ControlRegisters
<1>5. b = a /\ item.register_address = reg
  BY <1>1, <1>3, <1>4 DEF ControlValues
<1> QED
  BY <1>3, <1>5 DEF KeyOf, OrderKey

(* The answer to a read of the control registers shows them as they are,   *)
(* and no other read reaches a switch.                                     *)
LEMMA ReadShows ==
  ASSUME NEW item \in RightItem, item.cmd = MODBUS_CMD_READ_HOLDING_REGISTERS,
         NEW f \in Response, Answers(f, item),
         NEW reg \in InputRegisters, HasRegister(item, reg)
  PROVE  GetRegister(item, f, reg) = control[item.daly_address][reg]
<1>1. reg \in ControlRegisters /\ reg \in {289, 290}
  BY InstallationAssumption
     DEF ControlRegisters, DALY_MODBUS_ADDR_CHG_MOS_CONTROL, DALY_MODBUS_ADDR_DSCHG_MOS_CONTROL
<1>2. /\ RegisterOffset(item) = item.register_address
      /\ RegisterCount(item) = item.data
  BY DEF RegisterOffset, RegisterCount
<1>3. /\ item.register_address \in Nat /\ item.data \in Nat
      /\ item.register_address = 289 \/ item.register_address + item.data <= 289
  BY DEF RightItem, DALY_MODBUS_ADDR_CHG_MOS_CONTROL
<1>4. item.register_address = 289
  BY <1>1, <1>2, <1>3 DEF HasRegister
<1>5. f.item = item /\ f.values = control[item.daly_address]
  BY <1>4 DEF Answers, DALY_MODBUS_ADDR_CHG_MOS_CONTROL
<1>6. 289 + (reg - 289) = reg
  BY <1>1
<1>7. GetRegister(item, f, reg) = WordAt(f, reg - 289)
  BY <1>2, <1>4 DEF GetRegister
<1>8. WordAt(f, reg - 289) = f.values[reg]
  BY <1>1, <1>4, <1>5, <1>6
     DEF WordAt, MODBUS_CMD_READ_HOLDING_REGISTERS, MODBUS_CMD_WRITE_SINGLE_REGISTER
<1> QED
  BY <1>5, <1>7, <1>8

(* The confirmation of an order shows what the BMS has executed.           *)
LEMMA WriteShows ==
  ASSUME OneKindOfSwitch,
         NEW item \in RightItem, item.cmd = MODBUS_CMD_WRITE_SINGLE_REGISTER,
         NEW f \in Response, Answers(f, item), ~f.exception,
         NEW reg \in InputRegisters
  PROVE  /\ HasRegister(item, reg) <=> reg = item.register_address
         /\ EnoughData(item, WordCount(f) * 2)
         /\ reg = item.register_address =>
              GetRegister(item, f, reg) = control[item.daly_address][reg]
<1>1. reg \in {289, 290} /\ item.register_address \in {289, 290}
  BY InstallationAssumption
     DEF RightItem, DALY_MODBUS_ADDR_CHG_MOS_CONTROL, DALY_MODBUS_ADDR_DSCHG_MOS_CONTROL
<1>2. reg = item.register_address
  BY <1>1 DEF OneKindOfSwitch, ControlRegisters, RightItem,
              DALY_MODBUS_ADDR_CHG_MOS_CONTROL, DALY_MODBUS_ADDR_DSCHG_MOS_CONTROL
<1>3. /\ RegisterOffset(item) = item.register_address - 1
      /\ RegisterCount(item) = 2
  BY <1>1 DEF RegisterOffset, RegisterCount,
              MODBUS_CMD_READ_HOLDING_REGISTERS, MODBUS_CMD_WRITE_SINGLE_REGISTER
<1>4. HasRegister(item, reg)
  BY <1>1, <1>2, <1>3 DEF HasRegister
<1>5. f.item = item /\ control[item.daly_address][reg] = item.data
  BY <1>2 DEF Answers
<1>6. EnoughData(item, WordCount(f) * 2)
  BY <1>3, <1>5 DEF EnoughData, WordCount,
                    MODBUS_CMD_READ_HOLDING_REGISTERS, MODBUS_CMD_WRITE_SINGLE_REGISTER
<1>7. GetRegister(item, f, reg) = item.data
  <2>1. reg - RegisterOffset(item) = 1
    BY <1>1, <1>2, <1>3
  <2>2. f.item.cmd = MODBUS_CMD_WRITE_SINGLE_REGISTER /\ f.item.data = item.data
    BY <1>5
  <2>3. WordAt(f, 1) = item.data
    BY <2>2 DEF WordAt, MODBUS_CMD_READ_HOLDING_REGISTERS, MODBUS_CMD_WRITE_SINGLE_REGISTER
  <2> QED
    BY <2>1, <2>3 DEF GetRegister
<1> QED
  BY <1>2, <1>4, <1>5, <1>6, <1>7

(* The switches of a BMS after the answer to its request. *)
LEMMA PublishedShows ==
  ASSUME OneKindOfSwitch, NEW item \in RightItem,
         NEW f \in Response, Answers(f, item), ~f.exception,
         NEW old, NEW reg \in InputRegisters
  PROVE  \/ Published(old, item, f)[reg] = Shown(item.daly_address, reg)
         \/ /\ Published(old, item, f)[reg] = old[reg]
            /\ KeyOf(item) # OrderKey(item.daly_address, reg)
<1> DEFINE published == IF EnoughData(item, WordCount(f) * 2) /\ HasRegister(item, reg)
                        THEN IF GetRegister(item, f, reg) > 0 THEN "on" ELSE "off"
                        ELSE old[reg]
<1>1. Published(old, item, f)[reg] = published
  BY DEF Published
<1>2. item.cmd \in Cmd
  BY DEF RightItem, QueueItem
<1>3. CASE item.cmd = MODBUS_CMD_READ_HOLDING_REGISTERS
  <2>1. KeyOf(item) # OrderKey(item.daly_address, reg)
    BY <1>3 DEF KeyOf, OrderKey, MODBUS_CMD_READ_HOLDING_REGISTERS,
                MODBUS_CMD_WRITE_SINGLE_REGISTER
  <2>2. HasRegister(item, reg) => GetRegister(item, f, reg) = control[item.daly_address][reg]
    BY <1>3, ReadShows
  <2> QED
    BY <1>1, <2>1, <2>2 DEF Shown
<1>4. CASE item.cmd = MODBUS_CMD_WRITE_SINGLE_REGISTER
  <2>1. /\ HasRegister(item, reg) <=> reg = item.register_address
        /\ EnoughData(item, WordCount(f) * 2)
        /\ reg = item.register_address =>
             GetRegister(item, f, reg) = control[item.daly_address][reg]
    BY <1>4, WriteShows
  <2>2. CASE reg = item.register_address
    BY <1>1, <2>1, <2>2 DEF Shown
  <2>3. CASE reg # item.register_address
    BY <1>1, <2>1, <2>3 DEF KeyOf, OrderKey
  <2> QED
    BY <2>2, <2>3
<1> QED
  BY <1>2, <1>3, <1>4 DEF Cmd

(* loop() of the hub keeps the switches true. *)
LEMMA ModbusLoopSwitches ==
  ASSUME Alone, OneKindOfSwitch, BusInv, OneOnItsWay, ModbusLoop,
         NEW a \in Address, NEW reg \in InputRegisters, IsTrue(a, reg)
  PROVE  IsTrue(a, reg)'
<1> DEFINE item == queue.pending_item
<1>1. /\ control \in [Address -> ControlValues]
      /\ queue \in Queue /\ queue \in RightQueue /\ KeysUnique(queue)
  BY RightQueueFields DEF BusInv, TypeOK
<1>2. CASE Sends
  <2>1. /\ item \in RightItem /\ Transmit(RequestFrame(item))
        /\ queue' = queue /\ switch_state' = switch_state
    BY <1>2 DEF Sends
  <2>2. CASE control'[a][reg] = control[a][reg]
    BY <2>1, <2>2 DEF IsTrue, Shown
  <2>3. CASE control'[a][reg] # control[a][reg]
    <3>1. KeyOf(item) = OrderKey(a, reg)
      BY <1>1, <2>1, <2>3, TransmitControl
    <3>2. item # NoItem
      BY <2>1, NoItemAssumption DEF RightItem
    <3>3. OrderKey(a, reg) \in Keys(queue)
      BY <3>1, <3>2 DEF Keys, PendingKeys
    <3> QED
      BY <2>1, <3>3 DEF IsTrue
  <2> QED
    BY <2>2, <2>3
<1>3. CASE Idles \/ Follows
  BY <1>3 DEF Idles, Follows, IsTrue, Shown
<1>4. CASE Ends
  <2>1. PICK f \in Response :
          /\ Answers(f, item) /\ item \in RightItem
          /\ control' = control
          /\ queue' = IF f.exception THEN queue ELSE PopPending(queue, item.daly_address)
          /\ switch_state' =
               [b \in Address |->
                  IF b = item.daly_address /\ ~f.exception
                  THEN Published(switch_state[b], item, f) ELSE switch_state[b]]
    BY <1>4 DEF Ends
  <2>2. item # NoItem /\ item.daly_address \in Address
    BY <2>1, NoItemAssumption DEF RightItem, QueueItem
  <2>3. CASE f.exception
    BY <2>1, <2>3 DEF IsTrue, Shown
  <2>4. CASE ~f.exception
    <3>1. CanPop(queue, item.daly_address)
      BY <2>2 DEF CanPop
    <3>2. Keys(queue) \ {KeyOf(item)} \subseteq Keys(queue')
      BY <1>1, <2>1, <2>2, <2>4, <3>1, PopPendingEffect DEF Keys, PendingKeys
    <3>3. CASE a = item.daly_address
      <4>1. switch_state'[a] = Published(switch_state[a], item, f)
        BY <2>1, <2>4, <3>3
      <4>2. \/ switch_state'[a][reg] = Shown(a, reg)
            \/ /\ switch_state'[a][reg] = switch_state[a][reg]
               /\ KeyOf(item) # OrderKey(a, reg)
        BY <2>1, <2>4, <3>3, <4>1, PublishedShows
      <4>3. Shown(a, reg)' = Shown(a, reg)
        BY <2>1 DEF Shown
      <4> QED
        BY <3>2, <4>2, <4>3 DEF IsTrue
    <3>4. CASE a # item.daly_address
      <4>1. switch_state'[a] = switch_state[a]
        BY <2>1, <3>4
      <4>2. KeyOf(item) # OrderKey(a, reg)
        BY <3>4 DEF KeyOf, OrderKey
      <4> QED
        BY <2>1, <3>2, <4>1, <4>2 DEF IsTrue, Shown
    <3> QED
      BY <3>3, <3>4
  <2> QED
    BY <2>3, <2>4
<1> QED
  BY <1>2, <1>3, <1>4, LoopSteps

(* So does every step. *)
LEMMA NextSwitches ==
  ASSUME Alone, OneKindOfSwitch, TimelyInv, SwitchesTrue, [Next]_vars
  PROVE  SwitchesTrue'
<1>1. /\ BusInv /\ OneOnItsWay /\ BusInv'
      /\ queue \in RightQueue /\ queue \in Queue /\ KeysUnique(queue)
      /\ queue' \in Queue
  BY NextTimely, RightQueueFields DEF TimelyInv, OneOnItsWay, BusInv, TypeOK
<1>2. \A a \in Address, reg \in InputRegisters : IsTrue(a, reg)
  BY <1>1, SwitchesTrueKeys
<1>3. (\A a \in Address, reg \in InputRegisters : IsTrue(a, reg)') => SwitchesTrue'
  <2>1. \A a, reg : IsOrdered(queue', a, reg) <=> OrderKey(a, reg) \in Keys(queue')
    BY <1>1, OrderedKeys
  <2> QED
    BY <2>1 DEF SwitchesTrue, IsTrue, Shown, IsOrdered
<1> SUFFICES ASSUME NEW a \in Address, NEW reg \in InputRegisters
             PROVE  IsTrue(a, reg)'
  BY <1>3
<1>4. ASSUME UNCHANGED <<control, switch_state>>, Keys(queue) \subseteq Keys(queue')
      PROVE  IsTrue(a, reg)'
  BY <1>2, <1>4 DEF IsTrue, Shown
<1>5. CASE OnlyAsks(queue, queue') /\ UNCHANGED <<hub, uart, wire, control, switch_state>>
  <2>1. Keys(queue) \subseteq Keys(queue')
    BY <1>5 DEF OnlyAsks, Keys, PendingKeys
  <2> QED
    BY <1>4, <1>5, <2>1
<1>6. ASSUME NEW b \in Address, BmsLoop(b)
      PROVE  IsTrue(a, reg)'
  <2>1. queue' = TryGetToSend(queue, b) /\ UNCHANGED <<control, switch_state>>
    BY <1>6 DEF BmsLoop
  <2>2. Keys(queue) \subseteq Keys(queue')
    <3>1. CASE CanTake(Requeue(queue), b)
      BY <1>1, <2>1, <3>1, TryGetToSendEffect DEF Keys
    <3>2. CASE ~CanTake(Requeue(queue), b)
      BY <1>1, <2>1, <3>2, TryGetToSendEffect DEF Keys
    <3> QED
      BY <3>1, <3>2
  <2> QED
    BY <1>4, <2>1, <2>2
<1>7. CASE ModbusLoop
  BY <1>1, <1>2, <1>7, ModbusLoopSwitches
<1>8. (\/ \E b \in Address : Arrive(b)
       \/ \E timer \in Timer : Elapse(timer)
       \/ UNCHANGED vars) => UNCHANGED <<queue, control, switch_state>>
  BY DEF Arrive, Elapse, vars
<1>9. UNCHANGED <<queue, control, switch_state>> => IsTrue(a, reg)'
  BY <1>4
<1>10. ~OtherSends /\ ~OtherAnswers
  BY DEF Alone, OtherSends, OtherAnswers
<1> QED
  BY <1>1, <1>5, <1>6, <1>7, <1>8, <1>9, <1>10, AskingSteps

(* A published switch state is the state of the BMS, or an order for that  *)
(* switch is still on its way, whatever orders and polls are lost, garbled *)
(* or rejected: when a BMS has one of the two switches, the response to a  *)
(* request shows the state of a control register after that request        *)
(* (on_modbus_data, handle_update).                                        *)
THEOREM SwitchesStayTrue ==
  ASSUME Alone, OneKindOfSwitch
  PROVE  Spec => []SwitchesTrue
<1>1. Init => TimelyInv /\ SwitchesTrue
  <2>1. Init => \A a \in Address, reg \in InputRegisters : switch_state[a][reg] = "unknown"
    BY DEF Init
  <2> QED
    BY <2>1, InitTimely DEF SwitchesTrue
<1>2. TimelyInv /\ SwitchesTrue /\ [Next]_vars => (TimelyInv /\ SwitchesTrue)'
  BY NextTimely, NextSwitches
<1> QED
  BY <1>1, <1>2, PTL DEF Spec
=============================================================================
