------------------------- MODULE DalyBusTimelyProofs -------------------------
(***************************************************************************)
(* DalyBus when the BMSs are timely and have the Modbus to themselves: a   *)
(* response answers the pending request, for all numbers of BMSs, switches *)
(* and polled registers, all sizes of the hub's buffer, and all faults of  *)
(* the BMSs.                                                               *)
(***************************************************************************)
EXTENDS DalyBusProofs

(* What the runs for these properties have in common.  The address of a    *)
(* request must leave a trace in waiting_for_response.                     *)
Alone == Timely /\ ~OtherTraffic /\ 128 \notin Address

-----------------------------------------------------------------------------
(***************************************************************************)
(* What is on its way                                                      *)
(***************************************************************************)

Piece(part, f) == [part |-> part, frame |-> f]

Whole(f) == Piece("whole", f)
First(f) == Piece("head", f)
Rest(f)  == Piece("tail", f)

(* What the only BMS that sends has sent, and what the UART and the hub    *)
(* have of it.                                                             *)
Stage(a, sent, received, unparsed) ==
  /\ wire = [b \in Address |-> IF b = a THEN sent ELSE <<>>]
  /\ uart = received
  /\ hub.rx_buffer = unparsed

Silent ==
  /\ wire = [b \in Address |-> <<>>]
  /\ uart = NoBytes
  /\ hub.rx_buffer = NoBytes

WholeComes(a, f) ==
  \/ Stage(a, <<Whole(f)>>, NoBytes, NoBytes)
  \/ Stage(a, <<>>, Whole(f), NoBytes)

PartsCome(a, f) ==
  \/ Stage(a, <<First(f), Rest(f)>>, NoBytes, NoBytes)
  \/ Stage(a, <<Rest(f)>>, First(f), NoBytes)
  \/ Stage(a, <<Rest(f)>>, NoBytes, First(f))
  \/ Stage(a, <<>>, Rest(f), First(f))

PartComes(a, f) ==
  \/ Stage(a, <<First(f)>>, NoBytes, NoBytes)
  \/ Stage(a, <<>>, First(f), NoBytes)

(* Nothing more comes. *)
Broken(a, f) == Stage(a, <<>>, NoBytes, First(f))

Comes(a, f) == WholeComes(a, f) \/ PartsCome(a, f) \/ PartComes(a, f)

(* The frame answers the request and tells the truth about what it asks.   *)
Answers(f, item) ==
  LET a == item.daly_address
  IN  /\ f \in Response
      /\ f.item = item
      /\ f.address = ResponseAddress(a)
      /\ item.cmd = MODBUS_CMD_WRITE_SINGLE_REGISTER /\ ~f.exception =>
           control[a][item.register_address] = item.data
      /\ /\ item.cmd = MODBUS_CMD_READ_HOLDING_REGISTERS
         /\ item.register_address = DALY_MODBUS_ADDR_CHG_MOS_CONTROL
         => f.values = control[a]

(* While a response comes, none of the delays that would end the wait for  *)
(* it runs out.                                                            *)
Waiting(a) ==
  /\ hub.waiting_for_response = RequestAddress(a)
  /\ hub.expired \cap {"gap", "overdue"} = {}

(* Nothing is on its way, and a frame in the hub is that of the pending    *)
(* request; or a response to the pending request is on its way.            *)
NothingComes ==
  /\ Silent
  /\ \/ hub.tx_buffer = <<>>
     \/ /\ queue.pending_item # NoItem
        /\ hub.tx_buffer = <<RequestFrame(queue.pending_item)>>

AnswerComes ==
  LET item == queue.pending_item
      a == item.daly_address
  IN  /\ hub.tx_buffer = <<>>
      /\ item # NoItem
      /\ \E f \in Response :
           /\ Answers(f, item)
           /\ (Comes(a, f) /\ Waiting(a)) \/ Broken(a, f)

TimelyInv == BusInv /\ (NothingComes \/ AnswerComes)

(* The order of a healthy BMS is sent, or its confirmation is coming.      *)
IsHealthyOrder(item) ==
  /\ item # NoItem
  /\ item.cmd = MODBUS_CMD_WRITE_SINGLE_REGISTER
  /\ item.daly_address \in Healthy

HealthyInv ==
  LET item == queue.pending_item
  IN  IsHealthyOrder(item) =>
        \/ hub.tx_buffer # <<>>
        \/ \E f \in Response :
             Answers(f, item) /\ ~f.exception /\ WholeComes(item.daly_address, f)

-----------------------------------------------------------------------------
(***************************************************************************)
(* Pieces and stages                                                       *)
(***************************************************************************)

(* Pieces of responses are received as such. *)
LEMMA Pieces ==
  ASSUME NEW f \in Response
  PROVE  /\ Whole(f) \in Chunk /\ First(f) \in Chunk /\ Rest(f) \in Chunk
         /\ Whole(f) \notin {NoBytes, Junk}
         /\ First(f) \notin {NoBytes, Junk}
         /\ Rest(f) \notin {NoBytes, Junk}
         /\ Whole(f).frame = f /\ First(f).frame = f /\ Rest(f).frame = f
         /\ Whole(f).part = "whole" /\ First(f).part = "head" /\ Rest(f).part = "tail"
         /\ Rest(f) = [First(f) EXCEPT !.part = "tail"]
<1>1. /\ Whole(f) \in Chunk /\ First(f) \in Chunk /\ Rest(f) \in Chunk
      /\ Whole(f).frame = f /\ First(f).frame = f /\ Rest(f).frame = f
      /\ Whole(f).part = "whole" /\ First(f).part = "head" /\ Rest(f).part = "tail"
      /\ Rest(f) = [First(f) EXCEPT !.part = "tail"]
  BY DEF Whole, First, Rest, Piece, Chunk, Parts
<1> QED
  BY <1>1, ChunkAssumption

(* The wire of the one BMS that sends, and the others'. *)
LEMMA StageWires ==
  ASSUME NEW a \in Address, NEW sent, NEW received, NEW unparsed,
         Stage(a, sent, received, unparsed)
  PROVE  wire[a] = sent /\ \A b \in Address \ {a} : wire[b] = <<>>
BY DEF Stage

(* What comes next leaves the wire for the UART. *)
LEMMA ArriveStage ==
  ASSUME NEW a \in Address, NEW b \in Address, NEW sent, NEW received, NEW unparsed,
         Stage(a, sent, received, unparsed), Arrive(b)
  PROVE  /\ received = NoBytes /\ sent # <<>>
         /\ Stage(a, Tail(sent), Head(sent), unparsed)'
<1>1. b = a /\ wire[a] = sent /\ sent # <<>>
  BY StageWires DEF Arrive
<1>2. wire' = [c \in Address |-> IF c = a THEN Tail(sent) ELSE <<>>]
  BY <1>1 DEF Arrive, Stage
<1>3. uart' = Head(sent) /\ hub' = hub /\ uart = NoBytes
  BY <1>1 DEF Arrive
<1> QED
  BY <1>1, <1>2, <1>3 DEF Stage

(* A response that comes goes on coming. *)
LEMMA ArriveComes ==
  ASSUME NEW a \in Address, NEW b \in Address, NEW f \in Response, Arrive(b)
  PROVE  /\ WholeComes(a, f) => WholeComes(a, f)'
         /\ Comes(a, f) => Comes(a, f)'
         /\ ~Broken(a, f)
<1> DEFINE n == NoBytes
           w == Whole(f)
           h == First(f)
           t == Rest(f)
<1>1. w # n /\ h # n /\ t # n
  BY Pieces
<1>2. /\ Tail(<<w>>) = <<>> /\ Head(<<w>>) = w
      /\ Tail(<<h>>) = <<>> /\ Head(<<h>>) = h
      /\ Tail(<<t>>) = <<>> /\ Head(<<t>>) = t
      /\ Tail(<<h, t>>) = <<t>> /\ Head(<<h, t>>) = h
  OBVIOUS
<1>3. \A sent, received, unparsed :
        Stage(a, sent, received, unparsed) =>
          /\ received = n /\ sent # <<>>
          /\ Stage(a, Tail(sent), Head(sent), unparsed)'
  BY ArriveStage
<1> HIDE DEF n, w, h, t
<1>4. WholeComes(a, f) => WholeComes(a, f)'
  BY <1>1, <1>2, <1>3, Zenon DEF WholeComes, n, w
<1>5. PartsCome(a, f) => PartsCome(a, f)'
  BY <1>1, <1>2, <1>3, Zenon DEF PartsCome, n, h, t
<1>6. PartComes(a, f) => PartComes(a, f)'
  BY <1>1, <1>2, <1>3, Zenon DEF PartComes, n, h
<1>7. ~Broken(a, f)
  BY <1>3, Zenon DEF Broken
<1> QED
  BY <1>4, <1>5, <1>6, <1>7, Zenon DEF Comes

(* A response that comes whole is the one that comes. *)
LEMMA SameStage ==
  ASSUME NEW a \in Address, NEW f \in Response, NEW g \in Response,
         WholeComes(a, g), WholeComes(a, f) \/ PartsCome(a, f)
  PROVE  f = g
<1>1. /\ Whole(f) # NoBytes /\ First(f) # NoBytes /\ Rest(f) # NoBytes
      /\ Whole(g) # NoBytes /\ Whole(g) # First(f) /\ Whole(g) # Rest(f)
      /\ Whole(f).frame = f /\ Whole(g).frame = g
  BY Pieces
<1>2. \/ wire[a] = <<Whole(g)>> /\ uart = NoBytes
      \/ wire[a] = <<>> /\ uart = Whole(g)
  BY DEF WholeComes, Stage
<1>3. CASE WholeComes(a, f)
  <2>1. \/ wire[a] = <<Whole(f)>> /\ uart = NoBytes
        \/ wire[a] = <<>> /\ uart = Whole(f)
    BY <1>3 DEF WholeComes, Stage
  <2>2. Whole(f) = Whole(g)
    BY <1>1, <1>2, <2>1
  <2> QED
    BY <1>1, <2>2
<1>4. CASE PartsCome(a, f)
  <2>1. \/ wire[a] = <<First(f), Rest(f)>> /\ uart = NoBytes
        \/ wire[a] = <<Rest(f)>> /\ uart \in {First(f), NoBytes}
        \/ wire[a] = <<>> /\ uart = Rest(f)
    BY <1>4 DEF PartsCome, Stage
  <2> QED
    BY <1>1, <1>2, <2>1
<1> QED
  BY <1>3, <1>4

(* While a response comes, something is coming. *)
LEMMA ComesSomething ==
  ASSUME NEW a \in Address, NEW f \in Response, Comes(a, f)
  PROVE  SomethingComing
<1>1. \A sent, received, unparsed : Stage(a, sent, received, unparsed) =>
        wire[a] = sent /\ uart = received
  BY StageWires DEF Stage
<1>2. /\ <<Whole(f)>> # <<>> /\ <<First(f), Rest(f)>> # <<>> /\ <<First(f)>> # <<>>
      /\ <<Rest(f)>> # <<>>
      /\ Whole(f) # NoBytes /\ First(f) # NoBytes /\ Rest(f) # NoBytes
  BY Pieces
<1> QED
  BY <1>1, <1>2, Zenon DEF Comes, WholeComes, PartsCome, PartComes, SomethingComing

-----------------------------------------------------------------------------
(***************************************************************************)
(* The hub                                                                 *)
(***************************************************************************)

(* Without bytes nothing is received. *)
LEMMA ReceiveNothing ==
  ASSUME NEW h, NEW g \in Receive(h, NoBytes)
  PROVE  g = h
BY DEF Receive

(* The end of a frame leaves the hub idle. *)
LEMMA ReceiveEnd ==
  ASSUME NEW h \in AnyHub, NEW chunk \in Chunk, Completes(h, chunk), NEW g \in Receive(h, chunk)
  PROVE  /\ g \in AnyHub
         /\ g.tx_buffer = h.tx_buffer
         /\ g.rx_buffer = NoBytes
         /\ g.expired = {}
<1>1. chunk # NoBytes
  BY ChunkAssumption
<1>2. g = [h EXCEPT !.rx_buffer = NoBytes,
                    !.waiting_for_response = 0,
                    !.expired = h.expired \ Timer]
  <2>1. ~(h.rx_buffer = NoBytes /\ chunk.part = "head")
    BY DEF Completes
  <2>2. RxAfter(h, chunk) = {NoBytes} /\ WaitingAfter(h, chunk) = 0
    BY <2>1 DEF RxAfter, WaitingAfter
  <2> QED
    BY <1>1, <2>2 DEF Receive
<1>3. h.expired \ Timer = {} /\ 0 \in Byte
  BY HubFields DEF Byte
<1> QED
  BY <1>2, <1>3 DEF AnyHub, Hub

(* The first part of one is kept. *)
LEMMA ReceiveFirst ==
  ASSUME NEW h \in AnyHub, NEW chunk \in Chunk, chunk.part = "head", h.rx_buffer = NoBytes,
         NEW g \in Receive(h, chunk)
  PROVE  /\ g \in AnyHub
         /\ g.tx_buffer = h.tx_buffer
         /\ g.rx_buffer = chunk
         /\ g.waiting_for_response = h.waiting_for_response
         /\ g.expired \subseteq h.expired
<1>1. chunk # NoBytes
  BY ChunkAssumption
<1>2. ~Completes(h, chunk)
  BY DEF Completes
<1>3. g = [h EXCEPT !.rx_buffer = chunk,
                    !.waiting_for_response = h.waiting_for_response,
                    !.expired = h.expired \ {"gap", "quiet"}]
  BY <1>1, <1>2 DEF Receive, RxAfter, WaitingAfter
<1>4. h.expired \ {"gap", "quiet"} \in SUBSET Timer
  BY HubFields
<1> QED
  BY <1>3, <1>4, HubFields DEF AnyHub, Hub

(* Delays that are not over change nothing. *)
LEMMA TimeoutsIdle ==
  ASSUME NEW h \in AnyHub, h.expired \cap {"gap", "overdue"} = {},
         NEW g \in StopWaiting(ClearStaleBytes(h))
  PROVE  g = h
<1>1. ClearStaleBytes(h) = h
  BY DEF ClearStaleBytes
<1> QED
  BY <1>1 DEF StopWaiting

(* Those that are may end what was received, and the wait. *)
LEMMA TimeoutsKeep ==
  ASSUME NEW h \in AnyHub, NEW g \in StopWaiting(ClearStaleBytes(h))
  PROVE  /\ g \in AnyHub /\ g.tx_buffer = h.tx_buffer
         /\ g.rx_buffer \in {h.rx_buffer, NoBytes}
         /\ "gap" \notin g.expired
<1> DEFINE c == ClearStaleBytes(h)
<1>1. /\ c \in AnyHub
      /\ c.rx_buffer \in {h.rx_buffer, NoBytes}
      /\ "gap" \notin c.expired
  BY HubFields DEF ClearStaleBytes, AnyHub, Hub
<1> HIDE DEF c
<1>2. \/ g = c
      \/ g = [c EXCEPT !.waiting_for_response = 0, !.expired = c.expired \ {"overdue"}]
  BY DEF StopWaiting, c
<1>3. g.rx_buffer = c.rx_buffer /\ "gap" \notin g.expired
  BY <1>1, <1>2 DEF AnyHub, Hub
<1> QED
  BY <1>1, <1>3, TimeoutsEffect

(* Sending begins the wait for the response. *)
LEMMA SendingWaits ==
  ASSUME NEW h \in AnyHub, SendsNextFrame(h), "gap" \notin h.expired
  PROVE  LET g == SendNextFrame(h)
         IN  /\ g.waiting_for_response = Head(h.tx_buffer).address
             /\ g.expired \cap {"gap", "overdue"} = {}
             /\ g.rx_buffer = h.rx_buffer
<1>1. SendNextFrame(h) =
        [h EXCEPT !.tx_buffer = Tail(h.tx_buffer),
                  !.waiting_for_response = Head(h.tx_buffer).address,
                  !.expired = h.expired \ {"quiet", "overdue"}]
  BY DEF SendNextFrame
<1> QED
  BY <1>1 DEF AnyHub, Hub

-----------------------------------------------------------------------------
(***************************************************************************)
(* The line                                                                *)
(***************************************************************************)

(* The addresses of frames tell BMSs apart, and 0 is none. *)
LEMMA AddressesDiffer ==
  ASSUME Alone, NEW a \in Address, NEW b \in Address
  PROVE  /\ RequestAddress(a) # 0
         /\ ResponseAddress(a) = ResponseAddress(b) => a = b
<1>1. a \in 0 .. 255 /\ b \in 0 .. 255 /\ a # 128
  BY InstallationAssumption DEF Byte, Alone
<1>2. (a + 128) % 256 # 0
  BY <1>1
<1>3. (a + 80) % 256 = (b + 80) % 256 => a = b
  BY <1>1
<1> QED
  BY <1>2, <1>3 DEF RequestAddress, ResponseAddress

(* What a BMS does with a request that reaches it while the line is silent.*)
LEMMA TransmitEffect ==
  ASSUME NEW item \in RightItem,
         control \in [Address -> ControlValues],
         wire = [b \in Address |-> <<>>],
         Transmit(RequestFrame(item))
  PROVE  LET a == item.daly_address
             Sends(sent) == wire' = [b \in Address |-> IF b = a THEN sent ELSE <<>>]
         IN  /\ \/ Sends(<<>>)
                \/ \E f \in Response :
                     /\ Answers(f, item)'
                     /\ Sends(<<Whole(f)>>) \/ Sends(<<First(f), Rest(f)>>) \/ Sends(<<First(f)>>)
             /\ a \in Healthy /\ MaxOnWire >= 1 =>
                  \E f \in Response :
                    Answers(f, item)' /\ ~f.exception /\ Sends(<<Whole(f)>>)
<1> DEFINE a == item.daly_address
           Sends(sent) == wire' = [b \in Address |-> IF b = a THEN sent ELSE <<>>]
<1>1. item \in QueueItem /\ a \in Address /\ item # NoItem
  BY NoItemAssumption DEF RightItem, QueueItem
<1>2. PICK reaction \in Reactions[a] :
        /\ control' = ControlAfter(a, item, reaction)
        /\ wire' = IF Len(wire[a]) + Len(Sent(item, reaction)) <= MaxOnWire
                   THEN [wire EXCEPT ![a] = wire[a] \o Sent(item, reaction)]
                   ELSE wire
  BY <1>1 DEF Transmit, RequestFrame
<1>3. /\ Sent(item, reaction) \in Seq(Chunk)
      /\ wire[a] = <<>>
  BY <1>1, SentType
<1>4. \/ Sends(<<>>)
      \/ Sends(Sent(item, reaction))
  BY <1>1, <1>2, <1>3
<1>5. a \in Healthy /\ MaxOnWire >= 1 /\ Len(Sent(item, reaction)) = 1 =>
        Sends(Sent(item, reaction))
  BY <1>1, <1>2, <1>3
<1> PICK f : f = Answer(item, reaction)
  OBVIOUS
<1>6. f \in Response
  <2>1. ResponseAddress(a) \in Byte
    BY <1>1, AddressesAreBytes
  <2>2. control[a] \in ControlValues /\ Off \in ControlValues
    BY <1>1 DEF Off, ControlValues
  <2> QED
    BY <1>1, <2>1, <2>2 DEF Answer, Response
<1>7. \/ /\ reaction \in {"answer", "rejected"}
         /\ Sent(item, reaction) = <<Whole(f)>>
      \/ /\ reaction = "split"
         /\ Sent(item, reaction) = <<First(f), Rest(f)>>
      \/ /\ reaction = "truncated"
         /\ Sent(item, reaction) = <<First(f)>>
      \/ /\ reaction \notin {"answer", "rejected", "split", "truncated"}
         /\ Sent(item, reaction) = <<>>
  BY DEF Sent, Whole, First, Rest, Piece
<1>8. ASSUME reaction \in {"answer", "rejected", "split", "truncated"}
      PROVE  Answers(f, item)'
  <2>1. /\ f.item = item
        /\ f.address = ResponseAddress(a)
        /\ f.exception = (reaction = "rejected")
    BY DEF Answer
  <2>2. ASSUME item.cmd = MODBUS_CMD_WRITE_SINGLE_REGISTER, reaction # "rejected"
        PROVE  control'[a][item.register_address] = item.data
    <3>1. item.register_address \in ControlRegisters
      BY <2>2, InstallationAssumption DEF RightItem, ControlRegisters
    <3>2. control' = [control EXCEPT ![a][item.register_address] = item.data]
      BY <1>2, <1>8, <2>2, <3>1 DEF ControlAfter, Executed
    <3>3. control[a] \in [ControlRegisters -> 0 .. 1]
      BY <1>1 DEF ControlValues
    <3> QED
      BY <1>1, <3>1, <3>2, <3>3
  <2>3. ASSUME item.cmd = MODBUS_CMD_READ_HOLDING_REGISTERS,
               item.register_address = DALY_MODBUS_ADDR_CHG_MOS_CONTROL
        PROVE  f.values = control'[a]
    <3>1. control' = control
      BY <1>2, <2>3 DEF ControlAfter, MODBUS_CMD_READ_HOLDING_REGISTERS,
                        MODBUS_CMD_WRITE_SINGLE_REGISTER
    <3> QED
      BY <2>3, <3>1 DEF Answer
  <2> QED
    BY <1>6, <2>1, <2>2, <2>3 DEF Answers
<1>9. ASSUME a \in Healthy
      PROVE  reaction = "answer" /\ ~f.exception
  BY <1>2, <1>9 DEF Healthy, Answer
<1>10. \/ Sends(<<>>)
       \/ \E g \in Response :
            /\ Answers(g, item)'
            /\ Sends(<<Whole(g)>>) \/ Sends(<<First(g), Rest(g)>>) \/ Sends(<<First(g)>>)
  <2> HIDE DEF Sends
  <2> QED
    BY <1>4, <1>6, <1>7, <1>8
<1>11. a \in Healthy /\ MaxOnWire >= 1 =>
         \E g \in Response : Answers(g, item)' /\ ~g.exception /\ Sends(<<Whole(g)>>)
  <2>1. ASSUME a \in Healthy
        PROVE  Sent(item, reaction) = <<Whole(f)>> /\ Len(Sent(item, reaction)) = 1
    BY <1>7, <1>9, <2>1
  <2> HIDE DEF Sends
  <2> QED
    BY <1>5, <1>6, <1>8, <1>9, <2>1
<1> QED
  BY <1>10, <1>11

-----------------------------------------------------------------------------
(***************************************************************************)
(* The steps                                                               *)
(***************************************************************************)

OneOnItsWay == NothingComes \/ AnswerComes

(* Steps that leave the hub, the line and what is pending alone.           *)
LEMMA AskingKeepsAnswers ==
  ASSUME UNCHANGED <<hub, uart, wire, control>>, queue'.pending_item = queue.pending_item
  PROVE  /\ OneOnItsWay => OneOnItsWay'
         /\ HealthyInv => HealthyInv'
<1>1. \A a, sent, received, unparsed :
        Stage(a, sent, received, unparsed) <=> Stage(a, sent, received, unparsed)'
  BY DEF Stage
<1>2. \A f, item : Answers(f, item) <=> Answers(f, item)'
  BY DEF Answers
<1>3. \A a, f : /\ Comes(a, f) <=> Comes(a, f)'
                /\ WholeComes(a, f) <=> WholeComes(a, f)'
                /\ Broken(a, f) <=> Broken(a, f)'
  BY <1>1, Zenon DEF Comes, WholeComes, PartsCome, PartComes, Broken
<1>4. \A a : Waiting(a) <=> Waiting(a)'
  BY DEF Waiting
<1>5. NothingComes => NothingComes'
  BY DEF NothingComes, Silent
<1>6. AnswerComes => AnswerComes'
  BY <1>2, <1>3, <1>4 DEF AnswerComes
<1>7. HealthyInv => HealthyInv'
  BY <1>2, <1>3 DEF HealthyInv
<1> QED
  BY <1>5, <1>6, <1>7 DEF OneOnItsWay

(* A piece arrives. *)
LEMMA ArriveKeepsAnswers ==
  ASSUME BusInv, OneOnItsWay, NEW b \in Address, Arrive(b)
  PROVE  /\ OneOnItsWay'
         /\ HealthyInv => HealthyInv'
<1> DEFINE item == queue.pending_item
           a == item.daly_address
<1>1. /\ hub' = hub /\ control' = control /\ queue' = queue
      /\ wire[b] # <<>>
  BY DEF Arrive
<1>2. ~NothingComes
  BY <1>1 DEF NothingComes, Silent
<1>3. AnswerComes
  BY <1>2 DEF OneOnItsWay
<1>4. a \in Address
  BY <1>3, RightQueueFields DEF AnswerComes, BusInv, RightItem, QueueItem
<1>5. \A f : Answers(f, item) => Answers(f, item)'
  BY <1>1 DEF Answers
<1>6. Waiting(a) => Waiting(a)'
  BY <1>1 DEF Waiting
<1>7. AnswerComes'
  <2>1. PICK f \in Response :
          /\ Answers(f, item)
          /\ (Comes(a, f) /\ Waiting(a)) \/ Broken(a, f)
    BY <1>3 DEF AnswerComes
  <2>2. Comes(a, f)' /\ Waiting(a)'
    BY <1>1, <1>4, <1>6, <2>1, ArriveComes
  <2> QED
    BY <1>1, <1>3, <1>5, <2>1, <2>2 DEF AnswerComes
<1>8. ASSUME HealthyInv
      PROVE  HealthyInv'
  <2>1. CASE IsHealthyOrder(item)
    <3>1. hub.tx_buffer = <<>>
      BY <1>3 DEF AnswerComes
    <3>2. PICK f \in Response : Answers(f, item) /\ ~f.exception /\ WholeComes(a, f)
      BY <1>8, <2>1, <3>1 DEF HealthyInv
    <3>3. WholeComes(a, f)'
      BY <1>1, <1>4, <3>2, ArriveComes
    <3> QED
      BY <1>1, <1>5, <3>2, <3>3 DEF HealthyInv
  <2>2. CASE ~IsHealthyOrder(item)
    BY <1>1, <2>2 DEF HealthyInv, IsHealthyOrder
  <2> QED
    BY <2>1, <2>2
<1> QED
  BY <1>7, <1>8 DEF OneOnItsWay

(* A delay runs out. *)
LEMMA ElapseKeepsAnswers ==
  ASSUME Alone, BusInv, OneOnItsWay, NEW timer \in Timer, Elapse(timer)
  PROVE  /\ OneOnItsWay'
         /\ HealthyInv => HealthyInv'
<1> DEFINE item == queue.pending_item
           a == item.daly_address
<1>1. /\ uart' = uart /\ wire' = wire /\ control' = control /\ queue' = queue
      /\ hub' = [hub EXCEPT !.expired = hub.expired \cup {timer}]
      /\ timer # "quiet" => ~SomethingComing
  BY DEF Elapse, Expire, Alone
<1>2. /\ hub'.tx_buffer = hub.tx_buffer
      /\ hub'.rx_buffer = hub.rx_buffer
      /\ hub'.waiting_for_response = hub.waiting_for_response
      /\ hub'.expired = hub.expired \cup {timer}
  BY <1>1 DEF BusInv, TypeOK, Hub
<1>3. \A b, sent, received, unparsed :
        Stage(b, sent, received, unparsed) => Stage(b, sent, received, unparsed)'
  BY <1>1, <1>2 DEF Stage
<1>4. \A b, f : /\ Comes(b, f) => Comes(b, f)'
                /\ WholeComes(b, f) => WholeComes(b, f)'
                /\ Broken(b, f) => Broken(b, f)'
  BY <1>3, Zenon DEF Comes, WholeComes, PartsCome, PartComes, Broken
<1>5. \A f : Answers(f, item) => Answers(f, item)'
  BY <1>1 DEF Answers
<1>6. ASSUME NothingComes
      PROVE  OneOnItsWay'
  BY <1>1, <1>2, <1>6 DEF NothingComes, Silent, OneOnItsWay
<1>7. ASSUME AnswerComes
      PROVE  OneOnItsWay'
  <2>1. PICK f \in Response :
          /\ Answers(f, item)
          /\ (Comes(a, f) /\ Waiting(a)) \/ Broken(a, f)
    BY <1>7 DEF AnswerComes
  <2>2. a \in Address
    BY <1>7, RightQueueFields DEF AnswerComes, BusInv, RightItem, QueueItem
  <2>3. Comes(a, f) /\ Waiting(a) => Waiting(a)'
    BY <1>1, <1>2, <2>2, ComesSomething DEF Waiting
  <2> QED
    BY <1>1, <1>2, <1>4, <1>5, <1>7, <2>1, <2>3 DEF AnswerComes, OneOnItsWay
<1>8. HealthyInv => HealthyInv'
  BY <1>1, <1>2, <1>4, <1>5 DEF HealthyInv, IsHealthyOrder
<1> QED
  BY <1>6, <1>7, <1>8 DEF OneOnItsWay

(* While a response comes, no component may send. *)
LEMMA ComingBlocks ==
  ASSUME Alone, BusInv, OneOnItsWay, ReadyForImmediateSend(hub, uart)
  PROVE  /\ NothingComes /\ hub.tx_buffer = <<>>
         /\ HealthyInv => ~IsHealthyOrder(queue.pending_item)
<1> DEFINE item == queue.pending_item
           a == item.daly_address
<1>1. /\ hub.tx_buffer = <<>> /\ uart = NoBytes /\ hub.rx_buffer = NoBytes
      /\ hub.waiting_for_response = 0
  BY DEF ReadyForImmediateSend, TxBlocked
<1>2. ~AnswerComes
  <2> SUFFICES ASSUME AnswerComes PROVE FALSE
    OBVIOUS
  <2>1. PICK f \in Response : (Comes(a, f) /\ Waiting(a)) \/ Broken(a, f)
    BY DEF AnswerComes
  <2>2. a \in Address
    BY RightQueueFields DEF AnswerComes, BusInv, RightItem, QueueItem
  <2>3. ~Waiting(a)
    BY <1>1, <2>2, AddressesDiffer DEF Waiting
  <2>4. ~Broken(a, f)
    BY <1>1, Pieces DEF Broken, Stage
  <2> QED
    BY <2>1, <2>3, <2>4
<1>3. ASSUME HealthyInv, IsHealthyOrder(item)
      PROVE  FALSE
  <2>1. PICK f \in Response : WholeComes(a, f)
    BY <1>1, <1>3 DEF HealthyInv
  <2>2. a \in Address
    BY <1>3 DEF IsHealthyOrder, Healthy
  <2>3. Comes(a, f)
    BY <2>1 DEF Comes
  <2>4. NothingComes
    BY <1>2 DEF OneOnItsWay
  <2>5. ~SomethingComing
    BY <2>4 DEF NothingComes, Silent, SomethingComing
  <2> QED
    BY <2>2, <2>3, <2>5, ComesSomething
<1> QED
  BY <1>1, <1>2, <1>3 DEF OneOnItsWay

(* A component hands over a request. *)
LEMMA BmsLoopKeepsAnswers ==
  ASSUME Alone, BusInv, OneOnItsWay, NEW a \in Address, BmsLoop(a)
  PROVE  OneOnItsWay' /\ HealthyInv'
<1> DEFINE item == queue'.pending_item
<1>1. /\ NothingComes /\ hub.tx_buffer = <<>>
      /\ uart' = uart /\ wire' = wire /\ control' = control
      /\ queue' = TryGetToSend(queue, a)
  BY ComingBlocks DEF BmsLoop
<1>2. hub \in AnyHub /\ Len(hub.tx_buffer) = 0 /\ MODBUS_TX_BUFFER_SIZE \in Nat \ {0}
  BY <1>1, TxBufferAssumption DEF BusInv, TypeOK, AnyHub
<1>3. CASE CanTake(Requeue(queue), a)
  <2>1. /\ hub' = Send(hub, NumberOfEntities(item), RequestFrame(item))
        /\ item \in RightItem
    BY <1>1, <1>3, TryGetToSendRight DEF BmsLoop, BusInv
  <2>2. item # NoItem
    BY <2>1, NoItemAssumption DEF RightItem
  <2>3. hub' \in {hub, [hub EXCEPT !.tx_buffer = Append(hub.tx_buffer, RequestFrame(item))]}
    BY <2>1 DEF Send
  <2>4. Append(hub.tx_buffer, RequestFrame(item)) = <<RequestFrame(item)>>
    BY <1>1
  <2>5. /\ hub'.rx_buffer = hub.rx_buffer
        /\ hub'.tx_buffer \in {<<>>, <<RequestFrame(item)>>}
    BY <1>1, <1>2, <2>3, <2>4 DEF AnyHub, Hub
  <2>6. OneOnItsWay'
    BY <1>1, <2>2, <2>5 DEF NothingComes, Silent, OneOnItsWay
  <2>7. ASSUME IsHealthyOrder(item)
        PROVE  hub'.tx_buffer # <<>>
    <3>1. NumberOfEntities(item) = 1
      BY <2>7 DEF IsHealthyOrder, NumberOfEntities, MODBUS_CMD_READ_HOLDING_REGISTERS,
                  MODBUS_CMD_WRITE_SINGLE_REGISTER
    <3>2. hub' = [hub EXCEPT !.tx_buffer = <<RequestFrame(item)>>]
      BY <1>2, <2>1, <2>4, <3>1 DEF Send, MAX_VALUES
    <3>3. hub'.tx_buffer = <<RequestFrame(item)>>
      BY <1>2, <3>2 DEF AnyHub, Hub
    <3> QED
      BY <3>3
  <2> QED
    BY <2>6, <2>7 DEF HealthyInv, IsHealthyOrder
<1>4. CASE ~CanTake(Requeue(queue), a)
  <2>1. hub' = hub /\ item = NoItem
    BY <1>1, <1>4, TryGetToSendRight DEF BmsLoop, BusInv
  <2> QED
    BY <1>1, <2>1 DEF NothingComes, Silent, OneOnItsWay, HealthyInv, IsHealthyOrder
<1> QED
  BY <1>3, <1>4

-----------------------------------------------------------------------------
(***************************************************************************)
(* loop() of the hub                                                       *)
(***************************************************************************)

(* The kinds of steps it makes.  It sends the request it has, ... *)
Sends ==
  LET item == queue.pending_item
  IN  /\ NothingComes /\ item \in RightItem
      /\ Transmit(RequestFrame(item))
      /\ Waiting(item.daly_address)'
      /\ uart' = NoBytes /\ hub'.rx_buffer = NoBytes /\ hub'.tx_buffer = <<>>
      /\ UNCHANGED <<queue, switch_state>>

(* ... or has nothing to do, ... *)
Idles ==
  /\ NothingComes
  /\ hub'.rx_buffer = NoBytes /\ hub'.tx_buffer = hub.tx_buffer
  /\ UNCHANGED <<queue, uart, wire, control, switch_state>>

(* ... or receives what does not yet end a response, or gives it up, ...   *)
Follows ==
  /\ AnswerComes
  /\ hub'.tx_buffer = <<>>
  /\ NothingComes' \/ AnswerComes'
  /\ \A f \in Response : WholeComes(queue.pending_item.daly_address, f) =>
       WholeComes(queue.pending_item.daly_address, f)'
  /\ UNCHANGED <<queue, control, switch_state>>

(* ... or receives the end of a response, which the component of its BMS   *)
(* gets unless it is an exception.                                         *)
Ends ==
  LET item == queue.pending_item
      a == item.daly_address
  IN  \E f \in Response :
        /\ Answers(f, item)
        /\ item \in RightItem
        /\ Silent' /\ hub'.tx_buffer = <<>>
        /\ control' = control
        /\ WholeComes(a, f) \/ PartsCome(a, f)
        /\ queue' = IF f.exception THEN queue ELSE PopPending(queue, a)
        /\ switch_state' =
             [b \in Address |->
                IF b = a /\ ~f.exception
                THEN Published(switch_state[b], item, f) ELSE switch_state[b]]

(* Without a complete frame no component gets data. *)
LEMMA NoDelivery ==
  ASSUME BusInv, OnModbusData, ~Delivers(hub, uart)
  PROVE  queue' = queue /\ switch_state' = switch_state
<1>1. \A a \in Address : ~GetsData(a)
  BY DEF GetsData
<1>2. queue' = queue
  BY <1>1 DEF OnModbusData
<1>3. switch_state' = [a \in Address |-> switch_state[a]]
  BY <1>1 DEF OnModbusData
<1>4. switch_state \in [Address -> [InputRegisters -> SwitchState]]
  BY DEF BusInv, TypeOK
<1> QED
  BY <1>2, <1>3, <1>4

(* An answer goes to the component that has asked. *)
LEMMA Delivery ==
  ASSUME Alone, BusInv, OnModbusData, NEW f \in Response, uart # NoBytes, uart.frame = f,
         queue.pending_item # NoItem, Answers(f, queue.pending_item), Completes(hub, uart)
  PROVE  LET item == queue.pending_item
             a == item.daly_address
         IN  /\ queue' = IF f.exception THEN queue ELSE PopPending(queue, a)
             /\ switch_state' =
                  [b \in Address |->
                     IF b = a /\ ~f.exception
                     THEN Published(switch_state[b], item, f) ELSE switch_state[b]]
<1> DEFINE item == queue.pending_item
           a == item.daly_address
<1>1. a \in Address
  BY RightQueueFields DEF BusInv, RightItem, QueueItem
<1>2. Delivers(hub, uart) <=> ~f.exception
  BY DEF Delivers
<1>3. f.address = ResponseAddress(a)
  BY DEF Answers
<1>4. \A b \in Address : GetsData(b) <=> b = a /\ ~f.exception
  BY <1>1, <1>2, <1>3, AddressesDiffer DEF GetsData
<1>5. \A b \in Address : CanPop(queue, b) <=> b = a
  BY DEF CanPop
<1>6. ~f.exception => (CHOOSE b \in Address : GetsData(b)) = a
  BY <1>1, <1>4
<1>7. queue' = IF f.exception THEN queue ELSE PopPending(queue, a)
  <2>1. (\E b \in Address : GetsData(b)) <=> ~f.exception
    BY <1>1, <1>4
  <2>2. queue' = IF \E b \in Address : GetsData(b)
                 THEN PopPending(queue, CHOOSE b \in Address : GetsData(b))
                 ELSE queue
    BY DEF OnModbusData
  <2> HIDE DEF a
  <2> QED
    BY <1>6, <2>1, <2>2, Zenon
<1>8. switch_state' =
        [b \in Address |->
           IF GetsData(b) /\ CanPop(queue, b)
           THEN Published(switch_state[b], item, uart.frame) ELSE switch_state[b]]
  BY DEF OnModbusData
<1>9. \A b \in Address : GetsData(b) /\ CanPop(queue, b) <=> b = a /\ ~f.exception
  BY <1>4, <1>5
<1> HIDE DEF item, a
<1>10. switch_state' =
        [b \in Address |->
           IF b = a /\ ~f.exception
           THEN Published(switch_state[b], item, f) ELSE switch_state[b]]
  BY <1>8, <1>9
<1> QED
  BY <1>7, <1>10 DEF item, a

(* Which of them it makes. *)
LEMMA LoopSteps ==
  ASSUME Alone, BusInv, OneOnItsWay, ModbusLoop
  PROVE  Sends \/ Idles \/ Follows \/ Ends
<1> DEFINE item == queue.pending_item
           a == item.daly_address
<1>1. OnModbusData /\ uart' = NoBytes
  BY DEF ModbusLoop
<1>2. PICK r \in Receive(hub, uart) :
        \E g \in StopWaiting(ClearStaleBytes(r)) :
          /\ hub' = SendNextFrame(g)
          /\ IF SendsNextFrame(g)
             THEN Transmit(Head(g.tx_buffer))
             ELSE UNCHANGED <<wire, control>>
  BY DEF ModbusLoop
<1>3. PICK h \in StopWaiting(ClearStaleBytes(r)) :
        /\ hub' = SendNextFrame(h)
        /\ IF SendsNextFrame(h)
           THEN Transmit(Head(h.tx_buffer))
           ELSE UNCHANGED <<wire, control>>
  BY <1>2
<1>4. /\ hub \in AnyHub /\ uart \in Chunk \cup {NoBytes} /\ queue \in RightQueue
      /\ item \in RightItem \cup {NoItem}
  BY RightQueueFields DEF BusInv, TypeOK, AnyHub
<1>5. r \in AnyHub /\ r.tx_buffer = hub.tx_buffer
  BY <1>2, <1>4, ReceiveEffect
<1>6. /\ h \in AnyHub /\ h.tx_buffer = hub.tx_buffer
      /\ h.rx_buffer \in {r.rx_buffer, NoBytes}
      /\ "gap" \notin h.expired
  BY <1>3, <1>5, TimeoutsKeep
<1>7. h.tx_buffer = <<>> => hub' = h /\ UNCHANGED <<wire, control>>
  BY <1>3 DEF SendsNextFrame, SendNextFrame
<1>8. ASSUME NothingComes
      PROVE  Sends \/ Idles
  <2>1. uart = NoBytes /\ hub.rx_buffer = NoBytes
    BY <1>8 DEF NothingComes, Silent
  <2>2. h.rx_buffer = NoBytes
    BY <1>2, <1>6, <2>1, ReceiveNothing
  <2>3. queue' = queue /\ switch_state' = switch_state
    BY <1>1, <2>1, NoDelivery DEF Delivers
  <2>4. CASE SendsNextFrame(h)
    <3>1. h.tx_buffer # <<>>
      BY <2>4 DEF SendsNextFrame
    <3>2. item # NoItem /\ h.tx_buffer = <<RequestFrame(item)>>
      BY <1>6, <1>8, <3>1 DEF NothingComes
    <3>3. Head(h.tx_buffer) = RequestFrame(item) /\ Tail(h.tx_buffer) = <<>>
      BY <3>2
    <3>4. Transmit(RequestFrame(item))
      BY <1>3, <2>4, <3>3
    <3>5. /\ hub'.tx_buffer = <<>>
          /\ hub'.rx_buffer = NoBytes
          /\ hub'.waiting_for_response = RequestFrame(item).address
          /\ hub'.expired \cap {"gap", "overdue"} = {}
      BY <1>3, <1>6, <2>2, <2>4, <3>3, SendNextFrameEffect, SendingWaits
    <3>6. Waiting(a)'
      BY <2>3, <3>5 DEF Waiting, RequestFrame
    <3> QED
      BY <1>1, <1>4, <1>8, <2>3, <3>2, <3>4, <3>5, <3>6 DEF Sends
  <2>5. CASE ~SendsNextFrame(h)
    <3>1. hub' = h /\ UNCHANGED <<wire, control>>
      BY <1>3, <2>5 DEF SendNextFrame
    <3> QED
      BY <1>1, <1>6, <1>8, <2>1, <2>2, <2>3, <3>1 DEF Idles
  <2> QED
    BY <2>4, <2>5
<1>9. ASSUME AnswerComes
      PROVE  Follows \/ Ends
  <2>1. /\ hub.tx_buffer = <<>> /\ item # NoItem
        /\ hub' = h /\ hub'.tx_buffer = <<>> /\ UNCHANGED <<wire, control>>
    BY <1>6, <1>7, <1>9 DEF AnswerComes
  <2>2. PICK f \in Response :
          /\ Answers(f, item)
          /\ (Comes(a, f) /\ Waiting(a)) \/ Broken(a, f)
    BY <1>9 DEF AnswerComes
  <2>3. a \in Address /\ item \in RightItem
    BY <1>4, <2>1 DEF RightItem, QueueItem
  <2>5. ASSUME uart = NoBytes, Waiting(a)
        PROVE  Follows
    <3>1. hub' = hub
      BY <1>2, <1>3, <1>5, <2>1, <2>5, ReceiveNothing, TimeoutsIdle DEF Waiting
    <3>2. queue' = queue /\ switch_state' = switch_state
      BY <1>1, <2>5, NoDelivery DEF Delivers
    <3>3. AnswerComes' /\ \A g \in Response : WholeComes(a, g) => WholeComes(a, g)'
      <4>1. OneOnItsWay'
        BY <1>1, <1>9, <2>1, <2>5, <3>1, <3>2, AskingKeepsAnswers DEF OneOnItsWay
      <4>2. uart' = uart /\ wire' = wire
        BY <1>1, <2>1, <2>5
      <4>3. \A b, sent, received, unparsed :
              Stage(b, sent, received, unparsed) <=> Stage(b, sent, received, unparsed)'
        BY <3>1, <4>2 DEF Stage
      <4>4. \A b, g : /\ Comes(b, g) <=> Comes(b, g)'
                      /\ WholeComes(b, g) <=> WholeComes(b, g)'
                      /\ Broken(b, g) <=> Broken(b, g)'
        BY <4>3, Zenon DEF Comes, WholeComes, PartsCome, PartComes, Broken
      <4>5. Answers(f, item)' /\ Waiting(a)'
        BY <2>1, <2>2, <2>5, <3>1, <3>2 DEF Answers, Waiting
      <4> QED
        BY <2>1, <2>2, <3>2, <4>4, <4>5 DEF AnswerComes
    <3> QED
      BY <1>9, <2>1, <3>2, <3>3 DEF Follows
  <2>6. ASSUME Broken(a, f)
        PROVE  Follows
    <3>1. uart = NoBytes /\ hub.rx_buffer = First(f) /\ wire = [b \in Address |-> <<>>]
      BY <2>3, <2>6 DEF Broken, Stage
    <3>2. queue' = queue /\ switch_state' = switch_state
      BY <1>1, <3>1, NoDelivery DEF Delivers
    <3>3. hub'.rx_buffer \in {First(f), NoBytes}
      BY <1>2, <1>6, <2>1, <3>1, ReceiveNothing
    <3>4. Answers(f, item)'
      BY <2>1, <2>2, <3>2 DEF Answers
    <3>5. NothingComes' \/ AnswerComes'
      <4>1. CASE hub'.rx_buffer = NoBytes
        BY <1>1, <2>1, <3>1, <4>1 DEF NothingComes, Silent
      <4>2. CASE hub'.rx_buffer = First(f)
        <5>1. Broken(a, f)'
          BY <1>1, <2>1, <2>6, <3>2, <4>2 DEF Broken, Stage
        <5> QED
          BY <2>1, <3>2, <3>4, <5>1 DEF AnswerComes
      <4> QED
        BY <3>3, <4>1, <4>2
    <3>6. \A g \in Response : ~WholeComes(a, g)
      BY <3>1, Pieces DEF WholeComes, Stage
    <3> QED
      BY <1>9, <2>1, <3>2, <3>5, <3>6 DEF Follows
  <2>7. ASSUME Waiting(a), uart = First(f), hub.rx_buffer = NoBytes,
               wire = [b \in Address |-> IF b = a THEN <<Rest(f)>> ELSE <<>>]
                 \/ wire = [b \in Address |-> <<>>]
        PROVE  Follows
    <3>1. /\ uart \in Chunk /\ uart.part = "head" /\ uart # NoBytes
      BY <2>7, Pieces
    <3>2. ~Completes(hub, uart)
      BY <2>7, <3>1 DEF Completes
    <3>3. queue' = queue /\ switch_state' = switch_state
      BY <1>1, <3>2, NoDelivery DEF Delivers
    <3>4. /\ r.rx_buffer = First(f)
          /\ r.waiting_for_response = hub.waiting_for_response
          /\ r.expired \subseteq hub.expired
      BY <1>2, <1>4, <2>7, <3>1, ReceiveFirst
    <3>5. hub' = r
      BY <1>3, <1>5, <2>1, <2>7, <3>4, TimeoutsIdle DEF Waiting
    <3>6. Answers(f, item)' /\ Waiting(a)'
      BY <2>1, <2>2, <2>7, <3>3, <3>4, <3>5 DEF Answers, Waiting
    <3>7. Comes(a, f)' \/ Broken(a, f)'
      BY <1>1, <2>1, <2>7, <3>3, <3>4, <3>5 DEF Comes, PartsCome, Broken, Stage
    <3>8. AnswerComes'
      BY <2>1, <3>3, <3>6, <3>7 DEF AnswerComes
    <3>9. \A g \in Response : ~WholeComes(a, g)
      BY <2>7, <3>1, Pieces DEF WholeComes, Stage
    <3> QED
      BY <1>9, <2>1, <3>3, <3>8, <3>9 DEF Follows
  <2>8. ASSUME uart.frame = f, uart # NoBytes, Completes(hub, uart),
               wire = [b \in Address |-> <<>>],
               WholeComes(a, f) \/ PartsCome(a, f)
        PROVE  Ends
    <3>1. /\ r.rx_buffer = NoBytes /\ r.expired = {}
      BY <1>2, <1>4, <2>8, ReceiveEnd
    <3>2. hub' = r
      BY <1>3, <1>5, <2>1, <3>1, TimeoutsIdle
    <3>3. Silent'
      BY <1>1, <2>1, <2>8, <3>1, <3>2 DEF Silent
    <3>4. /\ queue' = IF f.exception THEN queue ELSE PopPending(queue, a)
          /\ switch_state' =
               [b \in Address |->
                  IF b = a /\ ~f.exception
                  THEN Published(switch_state[b], item, f) ELSE switch_state[b]]
      BY <1>1, <2>1, <2>2, <2>8, Delivery
    <3> QED
      BY <2>1, <2>2, <2>3, <2>8, <3>3, <3>4 DEF Ends
  <2>9. Whole(f) # NoBytes /\ First(f) # NoBytes /\ Rest(f) # NoBytes
    BY Pieces
  <2>10. CASE Stage(a, <<>>, Whole(f), NoBytes)
    <3>1. uart = Whole(f) /\ hub.rx_buffer = NoBytes /\ wire = [b \in Address |-> <<>>]
      BY <2>3, <2>10 DEF Stage
    <3>2. Completes(hub, uart)
      BY <3>1, Pieces DEF Completes
    <3>3. WholeComes(a, f)
      BY <2>10 DEF WholeComes
    <3> QED
      BY <2>8, <2>9, <3>1, <3>2, <3>3, Pieces
  <2>11. CASE Stage(a, <<>>, Rest(f), First(f))
    <3>1. uart = Rest(f) /\ hub.rx_buffer = First(f) /\ wire = [b \in Address |-> <<>>]
      BY <2>3, <2>11 DEF Stage
    <3>2. Completes(hub, uart)
      BY <3>1, Pieces DEF Completes
    <3>3. PartsCome(a, f)
      BY <2>11 DEF PartsCome
    <3> QED
      BY <2>8, <2>9, <3>1, <3>2, <3>3, Pieces
  <2>12. CASE Comes(a, f) /\ Waiting(a) /\ uart # NoBytes
              /\ ~Stage(a, <<>>, Whole(f), NoBytes) /\ ~Stage(a, <<>>, Rest(f), First(f))
    <3>1. Stage(a, <<Rest(f)>>, First(f), NoBytes) \/ Stage(a, <<>>, First(f), NoBytes)
      BY <2>12 DEF Comes, WholeComes, PartsCome, PartComes, Stage
    <3> QED
      BY <2>3, <2>7, <2>12, <3>1 DEF Stage
  <2> QED
    BY <2>2, <2>5, <2>6, <2>10, <2>11, <2>12
<1> QED
  BY <1>8, <1>9 DEF OneOnItsWay

(* After each of them one response at most is on its way. *)
LEMMA ModbusLoopKeepsAnswers ==
  ASSUME Alone, BusInv, OneOnItsWay, ModbusLoop
  PROVE  /\ OneOnItsWay'
         /\ MaxOnWire >= 1 /\ HealthyInv => HealthyInv'
<1> DEFINE item == queue.pending_item
           a == item.daly_address
           Sent1(sent) == wire' = [b \in Address |-> IF b = a THEN sent ELSE <<>>]
<1>1. CASE Sends
  <2>1. /\ NothingComes /\ item \in RightItem
        /\ Transmit(RequestFrame(item))
        /\ Waiting(a)'
        /\ uart' = NoBytes /\ hub'.rx_buffer = NoBytes /\ hub'.tx_buffer = <<>>
        /\ queue' = queue
    BY <1>1 DEF Sends
  <2>2. item # NoItem /\ a \in Address
    BY <2>1, NoItemAssumption DEF RightItem, QueueItem
  <2>3. control \in [Address -> ControlValues] /\ wire = [b \in Address |-> <<>>]
    BY <2>1 DEF BusInv, TypeOK, NothingComes, Silent
  <2>4. /\ \/ Sent1(<<>>)
           \/ \E f \in Response :
                /\ Answers(f, item)'
                /\ Sent1(<<Whole(f)>>) \/ Sent1(<<First(f), Rest(f)>>) \/ Sent1(<<First(f)>>)
        /\ a \in Healthy /\ MaxOnWire >= 1 =>
             \E f \in Response :
               Answers(f, item)' /\ ~f.exception /\ Sent1(<<Whole(f)>>)
    BY <2>1, <2>3, TransmitEffect
  <2>5. \A sent : Sent1(sent) <=> Stage(a, sent, NoBytes, NoBytes)'
    BY <2>1 DEF Stage
  <2>6. \A f \in Response : Sent1(<<Whole(f)>>) => WholeComes(a, f)'
    BY <2>1, <2>5 DEF WholeComes
  <2>7. \A f \in Response :
          Sent1(<<Whole(f)>>) \/ Sent1(<<First(f), Rest(f)>>) \/ Sent1(<<First(f)>>)
            => Comes(a, f)'
    BY <2>1, <2>5 DEF Comes, WholeComes, PartsCome, PartComes
  <2>8. Sent1(<<>>) => NothingComes'
    BY <2>1 DEF NothingComes, Silent
  <2>9. ASSUME NEW f \in Response, Answers(f, item)', Comes(a, f)'
        PROVE  AnswerComes'
    BY <2>1, <2>2, <2>9 DEF AnswerComes
  <2>10. OneOnItsWay'
    BY <2>4, <2>7, <2>8, <2>9 DEF OneOnItsWay
  <2>11. MaxOnWire >= 1 => HealthyInv'
    BY <2>1, <2>4, <2>6 DEF HealthyInv, IsHealthyOrder
  <2> QED
    BY <2>10, <2>11
<1>2. CASE Idles
  <2>1. /\ NothingComes
        /\ hub'.rx_buffer = NoBytes /\ hub'.tx_buffer = hub.tx_buffer
        /\ UNCHANGED <<queue, uart, wire, control, switch_state>>
    BY <1>2 DEF Idles
  <2>2. NothingComes'
    BY <2>1 DEF NothingComes, Silent
  <2>3. ASSUME HealthyInv, IsHealthyOrder(item)
        PROVE  hub.tx_buffer # <<>>
    <3>1. a \in Address
      BY <2>3 DEF IsHealthyOrder, Healthy
    <3>2. ~SomethingComing
      BY <2>1 DEF NothingComes, Silent, SomethingComing
    <3>3. \A f \in Response : ~WholeComes(a, f)
      BY <3>1, <3>2, ComesSomething DEF Comes
    <3> QED
      BY <2>3, <3>3 DEF HealthyInv
  <2>4. HealthyInv => HealthyInv'
    BY <2>1, <2>3 DEF HealthyInv, IsHealthyOrder
  <2> QED
    BY <2>2, <2>4 DEF OneOnItsWay
<1>3. CASE Follows
  <2>1. /\ hub.tx_buffer = <<>>
        /\ NothingComes' \/ AnswerComes'
        /\ \A f \in Response : WholeComes(a, f) => WholeComes(a, f)'
        /\ queue' = queue /\ control' = control
    BY <1>3 DEF Follows, AnswerComes
  <2>2. \A f : Answers(f, item) => Answers(f, item)'
    BY <2>1 DEF Answers
  <2>3. HealthyInv => HealthyInv'
    BY <2>1, <2>2 DEF HealthyInv, IsHealthyOrder
  <2> QED
    BY <2>1, <2>3 DEF OneOnItsWay
<1>4. CASE Ends
  <2>1. PICK f \in Response :
          /\ item \in RightItem
          /\ Silent' /\ hub'.tx_buffer = <<>>
          /\ WholeComes(a, f) \/ PartsCome(a, f)
          /\ queue' = IF f.exception THEN queue ELSE PopPending(queue, a)
    BY <1>4 DEF Ends
  <2>2. OneOnItsWay'
    BY <2>1 DEF OneOnItsWay, NothingComes
  <2>3. item # NoItem /\ a \in Address
    BY <2>1, NoItemAssumption DEF RightItem, QueueItem
  <2>4. CASE ~f.exception
    <3>1. queue'.pending_item = NoItem
      BY <2>1, <2>3, <2>4 DEF PopPending, CanPop, BusInv, RightQueue
    <3> QED
      BY <2>2, <3>1 DEF HealthyInv, IsHealthyOrder
  <2>5. CASE f.exception
    <3>1. queue' = queue
      BY <2>1, <2>5
    <3>2. ASSUME HealthyInv, IsHealthyOrder(item)
          PROVE  FALSE
      <4>1. hub.tx_buffer = <<>>
        <5>1. Comes(a, f)
          BY <2>1 DEF Comes
        <5>2. SomethingComing
          BY <2>3, <5>1, ComesSomething
        <5>3. ~NothingComes
          BY <5>2 DEF NothingComes, Silent, SomethingComing
        <5> QED
          BY <5>3 DEF OneOnItsWay, AnswerComes
      <4>2. PICK g \in Response : ~g.exception /\ WholeComes(a, g)
        BY <3>2, <4>1 DEF HealthyInv
      <4>3. f = g
        BY <2>1, <2>3, <4>2, SameStage
      <4> QED
        BY <2>5, <4>2, <4>3
    <3> QED
      BY <2>2, <3>1, <3>2 DEF HealthyInv, IsHealthyOrder
  <2> QED
    BY <2>4, <2>5
<1> QED
  BY <1>1, <1>2, <1>3, <1>4, LoopSteps

-----------------------------------------------------------------------------
(***************************************************************************)
(* The invariants                                                          *)
(***************************************************************************)

(* At first nothing is on its way. *)
LEMMA InitTimely == Init => TimelyInv /\ HealthyInv
<1> SUFFICES ASSUME Init PROVE TimelyInv /\ HealthyInv
  OBVIOUS
<1>1. BusInv
  BY InitInv
<1>2. NothingComes
  BY DEF Init, InitHub, NothingComes, Silent
<1>3. queue.pending_item = NoItem
  BY DEF Init, EmptyQueue
<1> QED
  BY <1>1, <1>2, <1>3 DEF TimelyInv, HealthyInv, IsHealthyOrder

(* Steps that ask change neither what is on its way nor what is pending.   *)
LEMMA AskingSteps ==
  ASSUME BusInv, Next
  PROVE  \/ OnlyAsks(queue, queue') /\ UNCHANGED <<hub, uart, wire, control, switch_state>>
         \/ \E a \in Address : BmsLoop(a) \/ Arrive(a)
         \/ ModbusLoop
         \/ \E timer \in Timer : Elapse(timer)
         \/ OtherSends \/ OtherAnswers
<1>1. queue \in RightQueue /\ KeysUnique(queue)
  BY DEF BusInv
<1>2. ASSUME NEW a \in Address, Update(a)
      PROVE  OnlyAsks(queue, queue') /\ UNCHANGED <<hub, uart, wire, control, switch_state>>
  BY <1>1, <1>2, UpdateAsks DEF Update
<1>3. ASSUME NEW a \in Address, UpdateFast(a)
      PROVE  OnlyAsks(queue, queue') /\ UNCHANGED <<hub, uart, wire, control, switch_state>>
  BY <1>1, <1>3, ItemsAreRight, AddingAsks DEF UpdateFast
<1>4. ASSUME NEW a \in Address, NEW reg \in InputRegisters, NEW value \in 0 .. 1,
             WriteState(a, reg, value)
      PROVE  OnlyAsks(queue, queue') /\ UNCHANGED <<hub, uart, wire, control, switch_state>>
  BY <1>1, <1>4, ItemsAreRight, AddingAsks DEF WriteState
<1> QED
  BY <1>2, <1>3, <1>4 DEF Next

(* Every step keeps both invariants. *)
LEMMA NextTimely ==
  ASSUME Alone, TimelyInv, [Next]_vars
  PROVE  /\ TimelyInv'
         /\ MaxOnWire >= 1 /\ HealthyInv => HealthyInv'
<1>1. BusInv /\ OneOnItsWay
  BY DEF TimelyInv, OneOnItsWay
<1>2. BusInv'
  BY <1>1, NextInv
<1> SUFFICES /\ OneOnItsWay'
             /\ MaxOnWire >= 1 /\ HealthyInv => HealthyInv'
  BY <1>2 DEF TimelyInv, OneOnItsWay
<1>3. CASE OnlyAsks(queue, queue') /\ UNCHANGED <<hub, uart, wire, control, switch_state>>
  BY <1>1, <1>3, AskingKeepsAnswers DEF OnlyAsks
<1>4. ASSUME NEW a \in Address, BmsLoop(a)
      PROVE  OneOnItsWay' /\ HealthyInv'
  BY <1>1, <1>4, BmsLoopKeepsAnswers
<1>5. ASSUME NEW a \in Address, Arrive(a)
      PROVE  OneOnItsWay' /\ (HealthyInv => HealthyInv')
  BY <1>1, <1>5, ArriveKeepsAnswers
<1>6. CASE ModbusLoop
  BY <1>1, <1>6, ModbusLoopKeepsAnswers
<1>7. ASSUME NEW timer \in Timer, Elapse(timer)
      PROVE  OneOnItsWay' /\ (HealthyInv => HealthyInv')
  BY <1>1, <1>7, ElapseKeepsAnswers
<1>8. ~OtherSends /\ ~OtherAnswers
  BY DEF Alone, OtherSends, OtherAnswers
<1>9. CASE UNCHANGED vars
  <2>1. UNCHANGED <<hub, uart, wire, control>> /\ queue'.pending_item = queue.pending_item
    BY <1>9 DEF vars
  <2> QED
    BY <1>1, <2>1, AskingKeepsAnswers
<1> QED
  BY <1>1, <1>3, <1>4, <1>5, <1>6, <1>7, <1>8, <1>9, AskingSteps

(* What comes is a part of the one response on its way.                    *)
LEMMA OneOnItsWayIsPending ==
  ASSUME BusInv, OneOnItsWay
  PROVE  AnswersArePending
<1> DEFINE item == queue.pending_item
           a == item.daly_address
<1>1. CASE NothingComes
  <2>1. Coming = {} /\ hub.rx_buffer = NoBytes
    BY <1>1 DEF NothingComes, Silent, Coming
  <2> QED
    BY <2>1 DEF AnswersArePending
<1>2. CASE AnswerComes
  <2>1. PICK f \in Response :
          /\ Answers(f, item)
          /\ (Comes(a, f) /\ Waiting(a)) \/ Broken(a, f)
    BY <1>2 DEF AnswerComes
  <2>2. a \in Address /\ f.item = item
    BY <1>2, <2>1, RightQueueFields DEF AnswerComes, Answers, BusInv, RightItem, QueueItem
  <2>3. /\ hub.rx_buffer \in {NoBytes, First(f)}
        /\ uart \in {NoBytes, Whole(f), First(f), Rest(f)}
        /\ \/ wire[a] = <<>>
           \/ wire[a] = <<Whole(f)>>
           \/ wire[a] = <<First(f), Rest(f)>>
           \/ wire[a] = <<First(f)>>
           \/ wire[a] = <<Rest(f)>>
    BY <2>1, <2>2, StageWires
       DEF Comes, WholeComes, PartsCome, PartComes, Broken, Stage
  <2>4. \A b \in Address \ {a} : wire[b] = <<>>
    BY <2>1, <2>2, StageWires DEF Comes, WholeComes, PartsCome, PartComes, Broken
  <2>5. \A i \in 1 .. Len(wire[a]) : wire[a][i] \in {Whole(f), First(f), Rest(f)}
    BY <2>3
  <2>6. Coming \subseteq {Whole(f), First(f), Rest(f)}
    <3>1. \A b \in Address : \A i \in 1 .. Len(wire[b]) : wire[b][i] \in {Whole(f), First(f), Rest(f)}
      <4>1. \A b \in Address \ {a} : \A i \in 1 .. Len(wire[b]) : FALSE
        BY <2>4
      <4> QED
        BY <2>5, <4>1
    <3> QED
      BY <2>3, <3>1 DEF Coming
  <2>7. Coming # {} => Waiting(a)
    <3>1. Broken(a, f) => Coming = {}
      BY <2>2 DEF Broken, Stage, Coming
    <3> QED
      BY <2>1, <3>1
  <2> QED
    BY <2>2, <2>3, <2>6, <2>7, Pieces DEF AnswersArePending, Waiting
<1> QED
  BY <1>1, <1>2 DEF OneOnItsWay

-----------------------------------------------------------------------------
(***************************************************************************)
(* Theorems                                                                *)
(***************************************************************************)

(* When the BMSs are timely and have the Modbus to themselves, never more  *)
(* is on its way than one response to the pending request.                 *)
THEOREM TimelyInvariant ==
  ASSUME Alone
  PROVE  Spec => []TimelyInv
<1>1. Init => TimelyInv
  BY InitTimely
<1>2. TimelyInv /\ [Next]_vars => TimelyInv'
  BY NextTimely
<1> QED
  BY <1>1, <1>2, PTL DEF Spec

(* Then a component that takes a response of its BMS for that to the       *)
(* pending request is right: no request is sent, requeued or given up      *)
(* while the answer to one before it may still be parsed (loop,            *)
(* tx_blocked, try_get_to_send, pop_pending).                              *)
THEOREM AnswersPaired ==
  ASSUME Alone
  PROVE  Spec => []AnswersArePending
<1>1. TimelyInv => AnswersArePending
  BY OneOnItsWayIsPending DEF TimelyInv, OneOnItsWay
<1> QED
  BY <1>1, TimelyInvariant, PTL
=============================================================================
