# A TLA+ model of the Daly HKMS BMS component

`src/components` holds two ESPHome components: `daly_hkms_bms`, which polls
battery management systems (BMSs) and switches their MOSFETs, and a patched
`modbus`, the hub through which all components on one RS485 line talk. The
models here state what the two promise together, check it with TLC on small
installations and prove part of it with TLAPS for all of them.

## 1. The system

| part | state | operations | talks to |
|---|---|---|---|
| command queue (`daly_hkms_bms_queue.*`) | `prio_queue_`, `non_prio_queue_`, `pending_item_`; one object per Modbus | `add_or_update`, `try_get_to_send`, `pop_pending` | called by all BMS components on that Modbus |
| BMS component, requests (`daly_hkms_bms.cpp`) | its address, sensors, intervals | `setup`, `update`, `update_fast`, `write_register`, `loop` | queue; hub (`ready_for_immediate_send`, `send`) |
| BMS component, responses (`on_modbus_data`) | what the sensors show | decode one response | called by the hub; queue (`pop_pending`); switches |
| alarm status (`DalyHkmsStatus`) | 14 bytes of bit fields | has_warnings, has_errors, alerts, alarm levels | part of `on_modbus_data` |
| switches (`switch/`) | the published state | `write_state`, `handle_update` | `write_register`; called by `on_modbus_data` |
| Modbus hub, client (`modbus.*`) | `tx_buffer_`, `rx_buffer_`, `waiting_for_response_`, three times | `setup`, `loop`, `tx_blocked`, `send`, `send_raw`, `parse_modbus_byte_` | UART; `on_modbus_data`, `on_modbus_error` of every device with the address of the frame |
| Modbus hub, server | the same | parsing of requests, answers by `send` and `send_error` | `on_modbus_read_registers`, `on_modbus_write_registers`; not used by this component |
| Python code generation | | | build time only |

A request goes `update()`/switch -> command queue -> `loop()` -> transmit
buffer of the hub -> wire; the response goes wire -> UART -> receive buffer of
the hub -> `on_modbus_data()` -> `pop_pending()` -> sensors and switches.

What is hard:

* **Matching.** A response carries neither the request nor the register it is
  about, and its address (0x50 + n) is not that of the request (0x80 + n). The
  patched hub therefore forwards every frame and stops waiting at any of them.
  That a response belongs to the pending request is only a matter of timing.
* **Retries.** A request that is still pending when somebody may send again was
  not answered and goes back into the queue, through the operation that also
  updates the data of queued requests.
* **One queue, many callers.** Components on one line share the queue; a request
  is only taken by its own component, and only from the front.
* **Timeouts** of partial frames, of the bus and of the response, and bytes that
  come late, in pieces or not at all, from a UART with a FIFO, while a clock of
  32 bits wraps and goes on between the parts of `loop()`.
* **Framing.** A Modbus frame has no mark at its end. Where it ends follows from
  its function code, the hub's role and length bytes, or from silence.
* **Decoding** with hand-written windows, guards and lists of bits.

No state is persisted, and everything but the UART, the clock, the BMSs and the
users runs in one thread: there are no crashes to recover from and no data races.

What makes each part correct: the queue holds a request once, keeps the order,
and loses a request only to its answer; the hub becomes free again and hands on
only what belongs to somebody, as it was sent; it leaves the line to responses; at most one request is with the hub and every
response is taken for the right request; a switch shows the state of its BMS and
the user's last order wins; polls and orders are served eventually; no read of a
response is out of bounds, and what is shown is consistent.
`PROJECT.json` lists the hazards at their lines.

## 2. Modules

| module | models | kind |
|---|---|---|
| `DalyRegisters` | register addresses, the window of registers a response is taken to hold | operators |
| `CommandQueue` | the queue object: `AddOrUpdate`, `TryGetToSend`, `PopPending` | operators on a record |
| `RequestTable` | what the queue promises: a set of waiting requests and at most one sent | abstract specification |
| `DalyHkmsCommandQueue` | the queue with callers in any order; implements `RequestTable` | state machine |
| `ModbusHub` | the hub in its client role, with whole frames and open delays | operators on a record |
| `DalyBus` | components, queue, switches, hub, UART, wire, BMSs | state machine; composes `CommandQueue` and `ModbusHub` |
| `ModbusFrames` | the bytes of frames: `send`, `send_raw`, `send_error` | operators |
| `ModbusParser` | `parse_modbus_byte_` in both roles, byte by byte, on a line with faults; implements `FrameLink` | state machine |
| `FrameLink` | what devices may rely on: a frame is handed over once, as it was sent, or not at all | abstract specification |
| `ModbusTiming` | the delays of the hub, the UART's chunks and the time bytes take | state machine |
| `BmsStatus` | the alarm registers and what is made of them | operators |
| `BmsResponse` | `on_modbus_data`: what sensors show after any sequence of responses | state machine |
| `CommandQueueLemmas` | what the queue's operators do, for the next two modules | proofs |
| `CommandQueueProofs` | theorems about the queue | proofs |
| `DalyBusProofs`, `DalyBusTimelyProofs`, `DalyBusOrderProofs` | theorems about the bus: under any conditions, with timely BMSs, about orders and switches | proofs |
| `BmsResponseProofs`, `ModbusParserProofs`, `ModbusTimingProofs` | theorems about these modules | proofs |
| `MCQueue`, `MCBus`, `MCResponse`, `MCParser`, `MCTiming` | values of constants for TLC | |

The hub is modelled three times, since frames with their payloads, bytes and
milliseconds in one state machine are out of reach. `DalyBus` needs of it which
frames are where, `ModbusParser` what bytes become, `ModbusTiming` how long
everything takes; each leaves open what the others are about.

### How they correspond to the code

*Queue.* The record's fields are the members without the underscore.
`try_get_to_send` is `Requeue` (its first `if`) followed by `TakeFront` when
`CanTake`; `add_or_update` searches the two queues in the code's order and
updates the first match. The static map of instances is not modelled: components
on different hubs share nothing.

*Hub.* `rx_buffer` holds nothing, the first part of a frame, or `Junk` (bytes
that are no prefix of the next frame). A frame arrives whole or in two parts. The
delays the hub compares with `millis()` are a set `expired` of those that have
passed: `gap` (partial frame given up), `quiet` (free to send; frame delay and
turnaround), `overdue` (`send_wait_time`). Which delay passes when is left open,
so every configuration of their lengths is covered. `Receive`, `ClearStaleBytes`,
`StopWaiting` and `SendNextFrame` are the steps of `loop()`, in its order.

*Bus.* One action per entry of the main thread: `ModbusLoop` (`Modbus::loop` with
all of `on_modbus_data` it calls), `BmsLoop(a)`, `Update(a)`, `UpdateFast(a)`,
`WriteState(a, reg, value)`. `Arrive`, `Elapse`, `OtherSends` and `OtherAnswers`
are the environment. A BMS reacts to a request, when it is sent, with one of
`Reactions[a]`: it answers, in one piece (`answer`) or two (`split`), the end is
lost (`truncated`), the response or the request is lost (`answer_lost`,
`request_lost`), or it rejects (`rejected`: an exception, which the component
never sees). With `Timely` the delays that wait for bytes do not pass while bytes
are under way; without it responses come at any later time. A response carries
the item it answers, which only the properties and the BMS's own data use: the
code cannot see it.

*Parser.* `ParseByte` is `parse_modbus_byte_` with the clearing of the buffer and
the calls it makes: `DataOffset` and `DataLen` are its chain of conditions on
role and function code, `IsIncomplete` its early returns of `true`, `IsAccepted`
the checksum. `calls` are the handlers called for the last byte, one for each
device registered with the address. Bytes of `Frames[role]` pass one after the
other (`PassByte`) and are received, lost or garbled; `Noise` comes in between.
Which silences the hub sees is left open: `ClearStaleBytes` and `StopWaiting` may
happen whenever their conditions on the buffer hold, and `SendNextFrame` whenever
nothing is unparsed or awaited. In the middle of a frame a silence that is long
enough for `ClearStaleBytes` or `tx_blocked` is a disturbance and counts as a fault.
Bytes are indexed from 1,
from 0 in the code. That the checksum is the CRC of Modbus is a constant,
`Crc`: the run takes the real one.

*Timing.* A step of `Tick` is a millisecond; the parts of `loop()` are actions of
their own, in its order (`pc`), between which time may pass, as each calls
`millis()` anew. `last_send_` and `last_modbus_byte_` are kept as the differences
the code computes, modulo `Wrap`. The bytes of a response are counted, not looked
at; a response may break off one byte early. The UART holds bytes back until it has
`Threshold` of them or none has come for `RxIdle` characters. The request begins with
0 (the address of `daly_address` 128) or something else; a response begins with the
request's address (`mirrors`) or not, as those of Daly BMSs.

*Responses.* `BmsResponse` gives `on_modbus_data` the request `pop_pending`
returned and any sequence of words, of any length. Sensors that show one scaled
register are represented by the cell voltages and the temperatures (with their
offset and the value for a missing probe); what relates several registers, i.e.
power, status, balancing and the alarms, is modelled in full. The text of alerts
is abstracted to the set of field and level.

## 3. What is checked

`tlc -config X.cfg M` in this directory; every run below ends within three minutes.

| run | property | what it shows |
|---|---|---|
| `queue` | `TypeOK`, `UniqueKeys` | no request is queued twice, over both queues |
| | `NoOvertaking` | requests of one priority keep their order, also when asked for again or requeued |
| | `ImplementsTable` | refinement of `RequestTable` |
| `bus_timely` | `AnswersArePending` | what is on its way always answers the pending request |
| | `SwitchesTrue` | a published switch state is the BMS's, unless an order for it is on its way |
| `bus_faulty` | `TypeOK` | the bound of the transmit buffer, among all else |
| | `OneOwnFrame` | at most one frame of the components is at the hub, and it is that of the pending request |
| | `RequestsKept` | a request only leaves when the hub has parsed a frame of its own BMS |
| | `HubRecovers` | the hub always becomes free again |
| `bus_silent` | `PollsServed` | a silent BMS does not starve the polls of another one |
| | `OrdersServed` | nor the orders for it |
| | `HealthyOrdersKept` | nor do its faults undo an order for the other one |
| `parser` | `TypeOK` | no more bytes are kept than may become a frame |
| | `PeersAgree` | two hubs, in the two roles, understand each other's frames |
| | `StaysInStep` | only a disturbance puts the hub out of step with the frames |
| | `WholeFramesHeard` | a frame that is followed from its beginning is handed over as it was sent |
| | `OnlyFramesHeard` | refinement of `FrameLink`: nothing else is handed over, whatever the line does |
| | `BackInStep` | after disturbances the client gets in step again for good |
| `timing` | `TypeOK` | no complete frame stays in the buffer, and no bytes are made up |
| | `NeverCut` | no response that comes without a pause is given up half-way |
| | `NeverInterrupts` | the hub never sends into a response that begins in time |
| | `FramesSent` | every queued frame is sent some time, also when the clock wraps |
| `response` | `InBounds` | no read beyond the response |
| | `PowerConsistent` | the three powers and the status agree |
| | `ErrorsExplained` | has_errors and the alerts agree, and neither forgets a flag that is named an error |

Runs in which the code does not do what its comments or its README say:

| run | property | what happens |
|---|---|---|
| `stale_order` | `OrdersKept` | the response to "on" is lost, the user says "off", and the requeue of "on" overwrites "off" (`daly_hkms_bms_queue.cpp:49`) |
| `fast_priority` | `FastHasPriority` | an unanswered fast read loses its priority (`daly_hkms_bms_queue.cpp:49`, `README.md:50`) |
| `wrong_switch` | `SwitchesTrue` | the window of a write begins one register early, so an order for the discharge switch publishes "on" for the charge switch (`daly_hkms_bms.cpp:163`) |
| `late_answer` | `DataOnlyAfterSend` | a late response is taken for the answer to a request that is not yet sent (`daly_hkms_bms.cpp:143`) |
| `alarm_warning` | `AlarmsWarned` | discharge undertemperature and temperature difference never set has_warnings (`daly_hkms_bms.cpp:388`) |

`SwitchesTrue` is also in a passing run, for it holds with one switch per BMS. Of
`OrdersKept` the part that does hold is `HealthyOrdersKept`, for the BMSs that
always answer in time.

Two things the timing model shows about the margins of the code:

* `tx_blocked` looks at the bytes that are available, not at those in the UART's
  FIFO. So a response is only safe if its first *chunk* is available before
  `send_wait_time` ends; and since no Daly response begins with the address of
  its request, the test of `loop` that would prolong the wait
  (`modbus.cpp:63`) never does. `NeverInterrupts` therefore speaks of responses
  that are prompt in this sense. For a request that begins with 0 the hub does not
  wait for a response at all, and only the frame and turnaround delays protect it.
* `NeverCut` needs the UART to hand over the end of a response after at most
  two characters of silence, and at most a millisecond between two parts
  of `loop()` (`TimingAssumption`): with more, the end of a response that is longer
  than the threshold comes after `long_rx_buffer_delay`. Two characters are only
  short enough when a character takes a millisecond, as in the run. The delay is
  `Threshold * CharTime + 1`, but an end of `Threshold - 1` bytes is available
  `(Threshold - 1 + RxIdle) * CharTime` after the chunk before it: with two idle
  characters of two milliseconds each, a threshold of 4 and a response of 7
  bytes TLC finds a `NeverCut` violation. The comment at `modbus.cpp:46` claims
  the delay avoids this. The proofs have the condition, `Brief`.

### Bounds

* Two BMSs in the runs about their interaction, one where a single one shows the
  behaviour. A third would only add another address at the front of a queue.
* `Polled`: of the five blocks of `update()` one or two are kept. The blocks
  differ for the queue and the hub only in their keys; `BmsResponse` covers
  their content.
* `MODBUS_TX_BUFFER_SIZE = 2` (15 in the code): other traffic fills it, and since
  the components wait for an empty buffer, what counts is empty, not empty, full.
* `MaxOnWire` bounds the parts of late responses of one BMS: a response whose parts
  would exceed it is lost as a whole, which a real line may do as well. It is 2 where
  responses are split (`bus_timely`, `bus_faulty`). In `bus_faulty` one BMS shows all
  faults, late and in any combination, and the other is silent, so that its requests
  are pending when late responses of the first come.
* `queue`: two addresses, one register with both commands, two values, which
  makes four keys and sequences of all lengths that unique keys allow.
* `parser`: five frames in each role with their real checksums, one for each way
  in which `parse_modbus_byte_` finds a length (fixed, counted, exception,
  user-defined, write of multiple registers), among them an empty one, one of an
  address no device has, and one of a device that is registered twice. Two requests
  may wait to be answered, so a response may come when nobody waits, and two
  faults, with the bytes 3 (a read) and 255 (whose length makes `data_len`
  wrap), may hit one frame or two in a row. `MaxRx` bounds the bytes that
  are left over when a frame begins: enough for any header, read and counted wrongly.
* `timing`: one byte takes one millisecond. The threshold of five is below the long
  responses of nine bytes and above the short ones of two, so a response comes in
  one chunk or two, with and without the long delay. `Wrap` (28) is just longer than
  `TimingAssumption` demands, so the clock wraps everywhere; the 32 bits of
  the code are far more than this for every configuration.
* `response`: the blocks of `update()` and `update_fast()` and a write, each
  answered with responses of 0, 1, 2, 7, 20, 21 and 24 words, among them one per
  kind of alarm bit (the theorem is about all bits). One cell, and 18 balancing bits, which are in two
  registers; no property is about their values, which stay off in this run.

### Fairness

`bus_silent` assumes weak fairness of `ModbusLoop`, `BmsLoop`, `Update` (the
application calls every `loop()` and fires every interval), of `Arrive` (bytes sent
reach the UART) and `Elapse` (time passes). Nothing is assumed of users, of fast
reads, of BMSs or other traffic. `PollsServed` and `OrdersServed` further assume, in
the formula, that users stop toggling, and `PollsServed` that fast reads stop: both
have priority over polls for ever, as the README of the component warns.

`bus_faulty` assumes only `ModbusLoop` and `Elapse` fair: the hub becomes free by
itself, even if the components or the bytes on the wire stop. `HubRecovers` assumes,
in the formula, that other users and devices become quiet some time.

`parser` assumes that the bytes of a frame go on until its end and that
`loop()` notices a silence that lasts (`ClearStaleBytes` between frames). That
disturbances cease is in the formula of `BackInStep`. It is stated for the
client, which by itself keeps silent until it is in step; a server
depends on the pauses of its clients. `timing` assumes that the clock and the
main loop go on.

## 4. What is proved

`tlapm M.tla` for each of the modules named here.

* `CommandQueueProofs`, `InvariantQueue`: `Spec => []QueueInv`, where `QueueInv`
  says that the members of the queue have their types and that the keys are
  unique. The second needs the first, and both are inductive together:
  `AddOrUpdate` keeps the keys of the queues unless it appends one that neither
  has, and `TryGetToSend` is `Requeue`, an `AddOrUpdate` of the pending item,
  followed by removing a front. `TypeCorrect` (`TypeOK`) and `KeysStayUnique`
  (`UniqueKeys`) follow.
* `QueueImplementsTable` (`ImplementsTable`): a step of the queue maps to `Ask`
  (or a stutter), `GiveUp` or `Send`, or `Answered`. It needs the unique keys: that
  the front's key disappears from the set of waiting requests when it is taken
  is only true when it was there once. The effects of the three operations are
  lemmas of `CommandQueueLemmas`, which `DalyBusProofs` uses too.
* `OrderKept` (`NoOvertaking`): `Ordered` says of two states of the queue that no
  request of the one is further back in the other, or in the other deque.
  `AddOrUpdate` and the removal of a front satisfy it; `TryGetToSend` does both,
  and `Ordered` is transitive there because a requeue only adds keys. A request
  has one place in its deque because keys are unique (`QueueInv`).
* `DalyBusProofs`, `BusInvariant`: `Spec => []BusInv`. Types alone are not inductive:
  a battery's control register keeps 0 or 1 only because no order carries anything
  else, so `BusInv` says this of orders wherever they are: in the queues, pending,
  and in the transmit buffer. `BusTypeCorrect` (`TypeOK`) includes the bound of the
  transmit buffer. `OneOwnFrameKept` (`OneOwnFrame`): a component hands over a
  frame only to an empty buffer, and from then on only answers and losses can
  change what is pending, to nothing; with something else pending there would
  be a second frame, or one of a request that is not pending. `NoRequestLost`
  (`RequestsKept`): `on_modbus_data` is the only operation that removes a key
  from queues and pending request together. `BusInv` also says of every request
  on its way what `RightItem` does: a write is one of a switch, with 0 or 1, and
  a read begins at the first control register or ends before it. The next two
  modules use this.
* `DalyBusTimelyProofs`, `AnswersPaired` (`AnswersArePending`): with `Timely` BMSs
  alone on the line. The property says too little of where things are to
  be inductive. `TimelyInv` says that either nothing comes (wire, UART and receive
  buffer are empty, and a frame in the transmit buffer is that of the pending
  request), or one response that answers the pending request, truthfully, is in
  one of the stages a response goes through, whole, split or broken off: on the
  wire, half in the UART, half in the receive buffer, and so on. While bytes come,
  the hub waits for them, and neither the delay of a partial frame nor that of the
  response passes. A step of `loop()` sends the first (`Sends`), moves the response
  to the next stage (`Follows`), hands it over or gives it up (`Ends`), or does nothing
  (`Idles`).
* `DalyBusOrderProofs`, `HealthyOrdersStay` (`HealthyOrdersKept`): while an order of a
  healthy BMS is pending, its request is still in the transmit buffer or its
  answer, whole and no exception, is on its way (`HealthyInv`). A component asks the
  queue for something to send only when neither is the case, so such an order is
  never requeued over a newer one. `SwitchesStayTrue` (`SwitchesTrue`): a response tells
  the truth about the control registers when it is parsed, since nothing but
  the next request changes them, and that is only sent when nothing comes. It shows
  the control register that was written or those that were read, and of what lies
  around them no switch (`RightItem`, `OneKindOfSwitch`). And a register only changes while the order for it is pending.
* `ModbusParserProofs`: `ParserTypeCorrect` (`TypeOK`), `FramingKept`
  (`StaysInStep`) and `FramesHandedOver` (`WholeFramesHeard`). The core are two
  lemmas about a frame of right length and any beginning of it: the parser
  finds it incomplete exactly until its last byte, and then accepts it with its
  own data. The lemmas go through the kinds of frames one by one.
  `HubsUnderstandEachOther` (`PeersAgree`): from `send`, `send_raw` and `send_error`
  the same bytes follow as from the frame, by cases over what a device asks or
  answers. The checksum is that of the bytes before it, on both sides.
* `ModbusTimingProofs`: `TimingTypeCorrect` (`TypeOK`) needs `LineInv`, which relates
  the byte that is coming, the UART's FIFO and the silence. A millisecond is one of
  six kinds (`TickKinds`: a byte is coming, held back, fills a chunk, ...).
  `ResponsesNeverCut` (`NeverCut`): `CutInv` says that while more comes the hub has at least
  a chunk or nothing, and that it received its last byte no longer ago than the
  UART has been collecting (`Since`), which in each of the cases is below the
  timeout in force. `ResponsesNeverInterrupted` (`NeverInterrupts`): while the first
  chunk of a prompt response is still to come, the time until it is there (`ToCome`)
  is at most what is left of the wait (`Deadline`); afterwards the hub has bytes,
  which it keeps because of `CutInv`. The wrap of the clock does not matter for these two:
  it makes differences smaller, so the hub waits longer.
* `BmsResponseProofs`, `ReadsInBounds` (`InBounds`): from the inductive invariant
  that the request of the last response is one of `RequestsAssumption`. Windows are
  intervals, so the registers in the middle of a block are received when its ends
  are; the size check covers the window; the register of a write is the second of
  its window. `PowersAgree` (`PowerConsistent`) is inductive once the two directions'
  powers are known to be natural numbers (`ShownInv`), which needs the lemma
  behind `ReadsInBounds`: the registers shown are words of the response. What follows the powers
  (balancing, alarms) changes neither them nor the status.
  `ErrorsAlwaysExplained` (`ErrorsExplained`): the lists of levels and of flags have no
  name in common, so an alert with the name of an error flag is that flag; levels are numbers,
  so one above 1 is in the list of alerts, which takes those above 0. Every flag of
  `DalyHkmsStatus` is one of the states (`StateFlags`) or in the list of has_errors
  (`ErrorFlags`), and none is both (`NamedFlagsAreErrors`).

They hold for all sets of addresses, registers, values, requests, responses,
switches and frames, all numbers of sensors, devices and faults, and all
checksum functions. Assumed are:

* `NoItemAssumption`, `BytesAssumption`: the values for "nothing pending", "no bytes"
  and "junk" are no requests and differ.
* `ChunkAssumption`, `PayloadAssumption`: the same of parts of frames and of
  "no payload".
* `TxBufferAssumption`: the transmit buffer has room for a frame.
* `InstallationAssumption`: addresses are bytes, the switches are those of
  the two control registers, and what components ask for is a request.
* `RequestsAssumption`, `ResponsesAssumption` and the two after them: words are 16 bits
  wide, numbers of cells are at most 48, and nobody writes
  register 0, which would make the window begin at register 65535.
* `BlocksAssumption`: a request for the status is one for the power, as the
  comment at `daly_hkms_bms_registers.h:44` demands and the blocks of `update()` do.
* `FramesAssumption`: the frames that others send have the lengths of their kind,
  fewer than 252 bytes of data (for `data_len` has 8 bits), and a user-defined frame
  does not match its checksum before its end.
* `LineAssumption`: the devices, the noise and the bounds have their types.
* `SizesAssumption`, `TimingAssumption`: sizes and times are natural numbers; the
  clock does not wrap while the hub waits, and is read at least every `Slack`. The
  UART has a threshold, greater than its idle time in characters.

Some theorems have hypotheses of their own:

* `Alone` (`DalyBusTimelyProofs`, `DalyBusOrderProofs`): `Timely`, no `OtherTraffic`,
  as in the runs, and no BMS with `daly_address` 128, whose requests begin with 0.
  The hub does not know that it waits for the answer to one of these, and the claim of
  `AnswersArePending` that it does is false. Without the first two it is false as
  well: that is the run `late_answer`.
* `MaxOnWire >= 1` (`HealthyOrdersStay`): with no room on the wire at all every answer is lost.
* `OneKindOfSwitch` (`SwitchesStayTrue`): with both kinds it is false, run `wrong_switch`.
* `HubRequests` (`HubsUnderstandEachOther`): the requests a server gets are for
  registers, at most 128 of them, or are user-defined or exceptions. `send` refuses more, and
  a server misreads the lengths of writes of coils (section 5).
* `Brief` (`ResponsesNeverCut`, `ResponsesNeverInterrupted`): the idle time of the UART is
  at most a character and a millisecond. It is false otherwise (section 3).

Only model-checked: `OnlyFramesHeard`, which depends on the checksum of the very bytes
that a fault makes, and the liveness properties (`HubRecovers`,
`PollsServed`, `OrdersServed`, `BackInStep`, `FramesSent`), which are out of the prover's
reach. The runs that end in a violation are counterexamples and need no proof.

## 5. What is not modelled

* `dump_config` and logging, which change nothing, and the Python that runs at
  build time, whose results are the constants of the models.
* Sensors that show one scaled register, other than cell voltages and temperatures.
* Requests that a server gets to write coils (function codes 5 and 15) or that
  another server on its line answers. `parse_modbus_byte_` has no case for their
  lengths in the server role, and what it makes of them is left to the silence that
  follows; `Frames` contains only frames it is made for.
* A UART without a threshold (`RX_FULL_THRESHOLD_UNSET`, e.g. on USB), for which
  `long_rx_buffer_delay_ms_` is 50 ms (`modbus.cpp:37`): the definition has this case, but
  `TimingAssumption` excludes it, for when such a UART hands over bytes is not in the code.
* Two components with the same BMS address, and parity or framing errors, which
  the UART reports to nobody.
* A checksum never matches by chance in `ModbusHub`, and `disable_crc` is off there;
  `ModbusParser` has both.

## 6. Plan

Done in this order: queue, its abstraction and proofs; hub and bus; responses;
parser with proofs; timing; proofs about the bus; proofs about answers, orders and
switches, the timing, two hubs, and the alarms. Left:

1. The part of `OnlyFramesHeard` that does not depend on the checksum: every frame
   handed over has a matching checksum and its kind's length, whatever the line does.
2. A safety core of `HubRecovers`: a state of the hub that blocks sending
   always has one of the delays of `loop()` running.
