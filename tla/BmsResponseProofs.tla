------------------------- MODULE BmsResponseProofs -------------------------
(***************************************************************************)
(* on_modbus_data never reads beyond the response, the powers and the      *)
(* status it shows agree, and so do has_errors and the list of alerts:     *)
(* proofs for every set of requests and responses and every number of      *)
(* sensors.                                                                *)
(***************************************************************************)
EXTENDS BmsResponse, TLAPS

LOCAL INSTANCE Functions

(* 16-bit words are natural numbers. *)
LEMMA WordsAreNatural == Word \subseteq Nat
BY SMT DEF Word

(* What RequestsAssumption says of each request. *)
RightRequest(request) ==
  /\ request.cmd \in Cmd
  /\ request.register_address \in Word
  /\ request.data \in Word
  /\ request.cmd = MODBUS_CMD_WRITE_SINGLE_REGISTER => request.register_address # 0

(* The window of a request begins and ends at a natural number. *)
LEMMA WindowIsNatural ==
  ASSUME NEW request, RightRequest(request)
  PROVE  RegisterOffset(request) \in Nat /\ RegisterCount(request) \in Nat
<1>1. request.register_address \in Nat /\ request.data \in Nat
  BY WordsAreNatural DEF RightRequest
<1>2. RegisterOffset(request) \in Nat
  BY <1>1 DEF RegisterOffset
<1>3. RegisterCount(request) \in Nat
  BY <1>1 DEF RegisterCount
<1> QED
  BY <1>2, <1>3

(* Both bytes of a register in the window are in a response that passes    *)
(* the check of its size.                                                  *)
LEMMA WindowIsReceived ==
  ASSUME NEW request, RightRequest(request), NEW size \in Nat, NEW reg \in Nat,
         EnoughData(request, size), HasRegister(request, reg)
  PROVE  /\ (reg - RegisterOffset(request)) * 2 >= 0
         /\ (reg - RegisterOffset(request)) * 2 + 1 < size
<1> DEFINE offset == RegisterOffset(request)
           count  == RegisterCount(request)
<1>1. offset \in Nat /\ count \in Nat
  BY WindowIsNatural
<1>2. reg >= offset /\ reg < offset + count /\ size >= count * 2
  BY DEF HasRegister, EnoughData
<1> HIDE DEF offset, count
<1>3. (reg - offset) * 2 >= 0 /\ (reg - offset) * 2 + 1 < size
  BY <1>1, <1>2
<1> QED
  BY <1>3 DEF offset, count

(* A window is an interval: what is between two of its registers is in it. *)
LEMMA WindowIsInterval ==
  ASSUME NEW request, RightRequest(request), NEW low \in Nat, NEW high \in Nat,
         HasRegister(request, low), HasRegister(request, high),
         NEW reg \in low .. high
  PROVE  HasRegister(request, reg)
<1> DEFINE offset == RegisterOffset(request)
           count  == RegisterCount(request)
<1>1. offset \in Nat /\ count \in Nat
  BY WindowIsNatural
<1>2. low >= offset /\ high < offset + count
  BY DEF HasRegister
<1> HIDE DEF offset, count
<1>3. reg >= offset /\ reg < offset + count
  BY <1>1, <1>2
<1> QED
  BY <1>3 DEF HasRegister, offset, count

(* The register that was written is the second of its window. *)
LEMMA WrittenIsInWindow ==
  ASSUME NEW request, RightRequest(request),
         request.cmd = MODBUS_CMD_WRITE_SINGLE_REGISTER
  PROVE  HasRegister(request, request.register_address)
<1> DEFINE reg == request.register_address
<1>1. reg \in Nat /\ reg # 0
  BY WordsAreNatural DEF RightRequest
<1>2. request.cmd # MODBUS_CMD_READ_HOLDING_REGISTERS
  BY DEF MODBUS_CMD_READ_HOLDING_REGISTERS, MODBUS_CMD_WRITE_SINGLE_REGISTER
<1>3. RegisterOffset(request) = reg - 1 /\ RegisterCount(request) = 2
  BY <1>1, <1>2 DEF RegisterOffset, RegisterCount
<1> HIDE DEF reg
<1>4. reg >= reg - 1 /\ reg < (reg - 1) + 2
  BY <1>1
<1> QED
  BY <1>3, <1>4 DEF HasRegister, reg

(* Register addresses are natural numbers. *)
LEMMA SingleRegistersAreNatural == SingleRegisters \subseteq Nat
<1>1. {DALY_MODBUS_ADDR_CELL_VOLT_1 + i : i \in 0 .. Cells - 1} \subseteq Nat
  BY CellsAssumption DEF DALY_MODBUS_ADDR_CELL_VOLT_1
<1>2. {DALY_MODBUS_ADDR_CELL_TEMP_1 + i : i \in 0 .. 7} \subseteq Nat
  BY DEF DALY_MODBUS_ADDR_CELL_TEMP_1
<1>3. (DALY_MODBUS_ADDR_VOLT .. 70) \ {59} \subseteq Nat
  BY DEF DALY_MODBUS_ADDR_VOLT
<1>4. {DALY_MODBUS_ADDR_CHG_DSCHG_STATUS, 75, 76, DALY_MODBUS_ADDR_BALANCE_STATUS,
       78, 82, 83, 84, 89, 90, 91} \subseteq Nat
  BY DEF DALY_MODBUS_ADDR_CHG_DSCHG_STATUS, DALY_MODBUS_ADDR_BALANCE_STATUS
<1>5. InputRegisters \subseteq Nat
  BY InputsAssumption, WordsAreNatural
<1> QED
  BY <1>1, <1>2, <1>3, <1>4, <1>5, Zenon DEF SingleRegisters

(* Every register that is read is in the window, also the ones between the *)
(* first and the last of a block, that no guard mentions.                  *)
LEMMA ReadsAreInWindow ==
  ASSUME NEW request, RightRequest(request), NEW reg \in Reads(request)
  PROVE  reg \in Nat /\ HasRegister(request, reg)
<1>1. CASE reg \in {r \in SingleRegisters : HasRegister(request, r)}
  BY <1>1, SingleRegistersAreNatural
<1>2. CASE HasStatus(request) /\ reg \in 109 .. 115
  <2>1. HasRegister(request, 109) /\ HasRegister(request, 115)
    BY <1>2 DEF HasStatus, DALY_MODBUS_ADDR_BMS_TYPE_2_ERR_00_01,
                DALY_MODBUS_ADDR_BMS_TYPE_2_ERR_12_13
  <2> QED
    BY <1>2, <2>1, WindowIsInterval
<1>3. CASE HasPower(request)
           /\ reg \in {DALY_MODBUS_ADDR_POWER, DALY_MODBUS_ADDR_CHG_DSCHG_STATUS}
  BY <1>3 DEF HasPower, DALY_MODBUS_ADDR_POWER, DALY_MODBUS_ADDR_CHG_DSCHG_STATUS
<1>4. CASE HasBalancePerCell(request) /\ reg \in 79 .. 81
  <2>1. HasRegister(request, 79) /\ HasRegister(request, 81)
    BY <1>4 DEF HasBalancePerCell, DALY_MODBUS_ADDR_BALANCE_STATUS_PER_CELL_01_TO_16,
                DALY_MODBUS_ADDR_BALANCE_STATUS_PER_CELL_33_TO_48
  <2> QED
    BY <1>4, <2>1, WindowIsInterval
<1>5. CASE request.cmd = MODBUS_CMD_WRITE_SINGLE_REGISTER
           /\ reg = request.register_address
  BY <1>5, WrittenIsInWindow, WordsAreNatural DEF RightRequest
<1>6. \/ reg \in {r \in SingleRegisters : HasRegister(request, r)}
      \/ HasStatus(request) /\ reg \in 109 .. 115
      \/ HasPower(request)
           /\ reg \in {DALY_MODBUS_ADDR_POWER, DALY_MODBUS_ADDR_CHG_DSCHG_STATUS}
      \/ HasBalancePerCell(request) /\ reg \in 79 .. 81
      \/ request.cmd = MODBUS_CMD_WRITE_SINGLE_REGISTER /\ reg = request.register_address
  BY Zenon DEF Reads
<1> QED
  BY <1>1, <1>2, <1>3, <1>4, <1>5, <1>6, Zenon

-----------------------------------------------------------------------------
(* What the last response was taken for is a request that was pending.     *)
LastRight ==
  last # NoResponse => RightRequest(last.request) /\ last.size \in Nat

(* Every response is taken for the answer to a request that was pending,   *)
(* and has a size (on_modbus_data, after pop_pending).                     *)
THEOREM LastIsRight == Spec => []LastRight
<1>1. Init => LastRight
  BY DEF Init, LastRight
<1>2. LastRight /\ [Next]_vars => LastRight'
  <2> SUFFICES ASSUME LastRight, [Next]_vars PROVE LastRight'
    OBVIOUS
  <2>1. CASE Next
    <3>1. PICK request \in Requests, words \in Responses : OnModbusData(request, words)
      BY <2>1 DEF Next
    <3>2. last' = [request |-> request, size |-> 2 * Len(words)]
      BY <3>1 DEF OnModbusData
    <3>3. RightRequest(request)
      BY <3>1, RequestsAssumption DEF RightRequest
    <3>4. Len(words) \in Nat
      BY <3>1, ResponsesAssumption
    <3>5. 2 * Len(words) \in Nat
      BY <3>4
    <3> QED
      BY <3>2, <3>3, <3>5 DEF LastRight, NoResponse
  <2>2. CASE UNCHANGED vars
    BY <2>2 DEF vars, LastRight, NoResponse
  <2> QED
    BY <2>1, <2>2
<1> QED
  BY <1>1, <1>2, PTL DEF Spec

(* No response, of whatever size and to whatever request it is taken to be *)
(* the answer, makes the handler read beyond its bytes: the size check and *)
(* the has_register guards of on_modbus_data are enough.                   *)
THEOREM ReadsInBounds == Spec => []InBounds
<1>1. LastRight => InBounds
  <2> SUFFICES ASSUME LastRight, last # NoResponse, EnoughData(last.request, last.size),
                      NEW reg \in Reads(last.request)
               PROVE  /\ (reg - RegisterOffset(last.request)) * 2 >= 0
                      /\ (reg - RegisterOffset(last.request)) * 2 + 1 < last.size
    BY DEF InBounds
  <2>1. RightRequest(last.request) /\ last.size \in Nat
    BY DEF LastRight
  <2>2. reg \in Nat /\ HasRegister(last.request, reg)
    BY <2>1, ReadsAreInWindow
  <2> QED
    BY <2>1, <2>2, WindowIsReceived
<1> QED
  BY <1>1, LastIsRight, PTL

-----------------------------------------------------------------------------
(***************************************************************************)
(* The powers and the status                                               *)
(***************************************************************************)

ShownFields ==
  {"cell_voltage", "temperature", "power", "charge_power", "discharge_power", "status",
   "balancing", "has_warnings", "has_errors", "alerts", "alarm_level"}

PowerAndStatus(s) == <<s.power, s.charge_power, s.discharge_power, s.status>>

(* The parts of on_modbus_data that show neither power, status nor alarms. *)
LEMMA OthersKeep ==
  ASSUME NEW s, DOMAIN s = ShownFields, NEW request, NEW words, NEW v, NEW w
  PROVE  /\ LET d == [s EXCEPT !.cell_voltage = v, !.temperature = w]
            IN  DOMAIN d = ShownFields /\ PowerAndStatus(d) = PowerAndStatus(s)
         /\ LET d == ShowBalancing(s, request, words)
            IN  DOMAIN d = ShownFields /\ PowerAndStatus(d) = PowerAndStatus(s)
<1>1. \A x : LET d == [s EXCEPT !.balancing = x]
             IN  DOMAIN d = ShownFields /\ PowerAndStatus(d) = PowerAndStatus(s)
  BY DEF ShownFields, PowerAndStatus
<1>2. LET d == ShowBalancing(s, request, words)
      IN  DOMAIN d = ShownFields /\ PowerAndStatus(d) = PowerAndStatus(s)
  BY <1>1, Zenon DEF ShowBalancing
<1>3. LET d == [s EXCEPT !.cell_voltage = v, !.temperature = w]
      IN  DOMAIN d = ShownFields /\ PowerAndStatus(d) = PowerAndStatus(s)
  BY DEF ShownFields, PowerAndStatus
<1> QED
  BY <1>2, <1>3

(* Neither do the alarms. *)
LEMMA AlarmsKeep ==
  ASSUME NEW s, DOMAIN s = ShownFields, NEW request, NEW words
  PROVE  LET d == ShowAlarms(s, request, words)
         IN  DOMAIN d = ShownFields /\ PowerAndStatus(d) = PowerAndStatus(s)
<1>1. \A d, warnings, errors, alerts, levels :
        d = [s EXCEPT !.has_warnings = warnings, !.has_errors = errors,
                      !.alerts = alerts, !.alarm_level = levels] =>
          DOMAIN d = ShownFields /\ PowerAndStatus(d) = PowerAndStatus(s)
  BY DEF ShownFields, PowerAndStatus
<1>2. CASE HasStatus(request)
  <2> DEFINE status == Status([i \in 1 .. 7 |-> GetRegister(request, words, 108 + i)])
             d == ShowAlarms(s, request, words)
  <2>1. d = [s EXCEPT !.has_warnings = HasWarnings(status), !.has_errors = HasErrors(status),
                      !.alerts = Alerts(status), !.alarm_level = AlarmLevels(status)]
    BY <1>2 DEF ShowAlarms
  <2> HIDE DEF status, d
  <2>2. DOMAIN d = ShownFields /\ PowerAndStatus(d) = PowerAndStatus(s)
    BY <1>1, <2>1, Zenon
  <2> QED
    BY <2>2, Zenon DEF d
<1>3. CASE ~HasStatus(request)
  BY <1>3 DEF ShowAlarms
<1> QED
  BY <1>2, <1>3

ConsistentPower(s) ==
  /\ s.power = s.charge_power - s.discharge_power
  /\ s.charge_power >= 0 /\ s.discharge_power >= 0
  /\ s.charge_power > 0 => s.status = "Charging" /\ s.discharge_power = 0
  /\ s.discharge_power > 0 => s.status = "Discharging" /\ s.charge_power = 0

(* The switch over the status and the text that follows it. *)
LEMMA PowerShown ==
  ASSUME NEW s, DOMAIN s = ShownFields, ConsistentPower(s),
         s.charge_power \in Nat, s.discharge_power \in Nat,
         NEW request, NEW words,
         HasRegister(request, DALY_MODBUS_ADDR_CHG_DSCHG_STATUS) <=> HasPower(request),
         HasPower(request) =>
           /\ GetRegister(request, words, DALY_MODBUS_ADDR_POWER) \in Nat
           /\ GetRegister(request, words, DALY_MODBUS_ADDR_CHG_DSCHG_STATUS) \in Nat
  PROVE  LET d == ShowStatusText(ShowPower(s, request, words), request, words)
         IN  /\ DOMAIN d = ShownFields
             /\ ConsistentPower(d)
             /\ d.charge_power \in Nat /\ d.discharge_power \in Nat
<1> DEFINE power == GetRegister(request, words, DALY_MODBUS_ADDR_POWER)
           state == GetRegister(request, words, DALY_MODBUS_ADDR_CHG_DSCHG_STATUS)
           e == ShowPower(s, request, words)
           d == ShowStatusText(e, request, words)
<1>1. CASE ~HasPower(request) \/ state \notin 0 .. 2
  <2>1. e = s
    BY <1>1 DEF ShowPower
  <2>2. d = s
    BY <1>1, <2>1 DEF ShowStatusText
  <2> QED
    BY <2>2
<1>2. CASE HasPower(request) /\ state \in 0 .. 2
  <2>1. d = [e EXCEPT !.status = StatusText[state + 1]]
    BY <1>2 DEF ShowStatusText
  <2>2. /\ state = 0 => StatusText[state + 1] = "Stationary"
        /\ state = 1 => StatusText[state + 1] = "Charging"
        /\ state = 2 => StatusText[state + 1] = "Discharging"
    BY DEF StatusText
  <2>3. /\ state = 0 => e = [s EXCEPT !.power = 0, !.charge_power = 0, !.discharge_power = 0]
        /\ state = 1 => e = [s EXCEPT !.power = power, !.charge_power = power,
                                      !.discharge_power = 0]
        /\ state = 2 => e = [s EXCEPT !.power = -power, !.charge_power = 0,
                                      !.discharge_power = power]
    BY <1>2 DEF ShowPower
  <2>4. power \in Nat
    BY <1>2
  <2> HIDE DEF power, state, e, d
  <2>5. \A p, c, q :
          e = [s EXCEPT !.power = p, !.charge_power = c, !.discharge_power = q] =>
            /\ DOMAIN d = ShownFields
            /\ d.power = p /\ d.charge_power = c /\ d.discharge_power = q
            /\ d.status = StatusText[state + 1]
    BY <2>1 DEF ShownFields
  <2>6. /\ DOMAIN d = ShownFields
        /\ ConsistentPower(d)
        /\ d.charge_power \in Nat /\ d.discharge_power \in Nat
    <3>1. CASE state = 0
      <4>1. e = [s EXCEPT !.power = 0, !.charge_power = 0, !.discharge_power = 0]
        BY <2>3, <3>1, Zenon
      <4>2. /\ DOMAIN d = ShownFields
            /\ d.power = 0 /\ d.charge_power = 0 /\ d.discharge_power = 0
            /\ d.status = StatusText[state + 1]
        BY <2>5, <4>1, Zenon
      <4> QED
        BY <4>2 DEF ConsistentPower
    <3>2. CASE state = 1
      <4>1. e = [s EXCEPT !.power = power, !.charge_power = power, !.discharge_power = 0]
        BY <2>3, <3>2, Zenon
      <4>2. /\ DOMAIN d = ShownFields
            /\ d.power = power /\ d.charge_power = power /\ d.discharge_power = 0
            /\ d.status = StatusText[state + 1]
        BY <2>5, <4>1, Zenon
      <4>3. d.status = "Charging"
        BY <2>2, <3>2, <4>2, Zenon
      <4> QED
        BY <2>4, <4>2, <4>3 DEF ConsistentPower
    <3>3. CASE state = 2
      <4>1. e = [s EXCEPT !.power = -power, !.charge_power = 0, !.discharge_power = power]
        BY <2>3, <3>3, Zenon
      <4>2. /\ DOMAIN d = ShownFields
            /\ d.power = -power /\ d.charge_power = 0 /\ d.discharge_power = power
            /\ d.status = StatusText[state + 1]
        BY <2>5, <4>1, Zenon
      <4>3. d.status = "Discharging"
        BY <2>2, <3>3, <4>2, Zenon
      <4> QED
        BY <2>4, <4>2, <4>3 DEF ConsistentPower
    <3> QED
      BY <1>2, <3>1, <3>2, <3>3 DEF state
  <2> QED
    BY <2>6, Zenon DEF d, e
<1> QED
  BY <1>1, <1>2

(* What is shown, with what makes PowerConsistent inductive: the powers of *)
(* the two directions are numbers.                                         *)
ShownInv ==
  /\ DOMAIN shown = ShownFields
  /\ ConsistentPower(shown)
  /\ shown.charge_power \in Nat /\ shown.discharge_power \in Nat

(* The same of two values that show the same. *)
LEMMA SamePower ==
  ASSUME NEW s, NEW d, PowerAndStatus(d) = PowerAndStatus(s),
         ConsistentPower(s), s.charge_power \in Nat, s.discharge_power \in Nat
  PROVE  ConsistentPower(d) /\ d.charge_power \in Nat /\ d.discharge_power \in Nat
<1>1. /\ d.power = s.power /\ d.charge_power = s.charge_power
      /\ d.discharge_power = s.discharge_power /\ d.status = s.status
  BY DEF PowerAndStatus
<1> QED
  BY <1>1 DEF ConsistentPower

(* A word of the window is a number. *)
LEMMA WordInWindow ==
  ASSUME NEW request, RightRequest(request), NEW words \in Seq(Word), NEW reg \in Nat,
         EnoughData(request, 2 * Len(words)), HasRegister(request, reg)
  PROVE  GetRegister(request, words, reg) \in Nat
<1> DEFINE offset == RegisterOffset(request)
           n == Len(words)
<1>1. offset \in Nat /\ n \in Nat
  BY WindowIsNatural
<1>2. (reg - offset) * 2 >= 0 /\ (reg - offset) * 2 + 1 < 2 * n
  BY <1>1, WindowIsReceived
<1> HIDE DEF offset, n
<1>3. reg - offset + 1 \in 1 .. n
  BY <1>1, <1>2
<1>4. \A i \in 1 .. n : words[i] \in Word
  BY DEF n
<1>5. words[reg - offset + 1] \in Word
  BY <1>3, <1>4
<1> QED
  BY <1>5, WordsAreNatural DEF GetRegister, offset

(* A response keeps power and status consistent. *)
LEMMA ResponseKeepsShown ==
  ASSUME ShownInv, NEW request \in Requests, NEW words \in Responses,
         EnoughData(request, 2 * Len(words))
  PROVE  LET d == Shown(shown, request, words)
         IN  /\ DOMAIN d = ShownFields
             /\ ConsistentPower(d)
             /\ d.charge_power \in Nat /\ d.discharge_power \in Nat
<1> DEFINE s1 == [shown EXCEPT !.cell_voltage = CellVoltages(shown, request, words),
                               !.temperature  = Temperatures(shown, request, words)]
           s2 == ShowPower(s1, request, words)
           s3 == ShowStatusText(s2, request, words)
           s4 == ShowBalancing(s3, request, words)
           s5 == ShowAlarms(s4, request, words)
<1>1. RightRequest(request) /\ words \in Seq(Word)
  BY RequestsAssumption, ResponsesAssumption DEF RightRequest
<1>2. HasPower(request) =>
        /\ GetRegister(request, words, DALY_MODBUS_ADDR_POWER) \in Nat
        /\ GetRegister(request, words, DALY_MODBUS_ADDR_CHG_DSCHG_STATUS) \in Nat
  <2>1. DALY_MODBUS_ADDR_POWER \in Nat /\ DALY_MODBUS_ADDR_CHG_DSCHG_STATUS \in Nat
    BY DEF DALY_MODBUS_ADDR_POWER, DALY_MODBUS_ADDR_CHG_DSCHG_STATUS
  <2> QED
    BY <1>1, <2>1, WordInWindow DEF HasPower
<1>3. HasRegister(request, DALY_MODBUS_ADDR_CHG_DSCHG_STATUS) <=> HasPower(request)
  BY BlocksAssumption DEF HasPower
<1>4. /\ DOMAIN s1 = ShownFields /\ ConsistentPower(s1)
      /\ s1.charge_power \in Nat /\ s1.discharge_power \in Nat
  <2>1. DOMAIN s1 = ShownFields /\ PowerAndStatus(s1) = PowerAndStatus(shown)
    BY OthersKeep DEF ShownInv
  <2> HIDE DEF s1
  <2> QED
    BY <2>1, SamePower DEF ShownInv
<1> HIDE DEF s1
<1>5. /\ DOMAIN s3 = ShownFields /\ ConsistentPower(s3)
      /\ s3.charge_power \in Nat /\ s3.discharge_power \in Nat
  BY <1>2, <1>3, <1>4, PowerShown
<1> HIDE DEF s3
<1>6. DOMAIN s4 = ShownFields /\ PowerAndStatus(s4) = PowerAndStatus(s3)
  BY <1>5, OthersKeep
<1> HIDE DEF s4
<1>7. DOMAIN s5 = ShownFields /\ PowerAndStatus(s5) = PowerAndStatus(s4)
  BY <1>6, AlarmsKeep
<1> HIDE DEF s5
<1>8. /\ ConsistentPower(s5)
      /\ s5.charge_power \in Nat /\ s5.discharge_power \in Nat
  <2>1. PowerAndStatus(s5) = PowerAndStatus(s3)
    BY <1>6, <1>7
  <2> QED
    BY <1>5, <2>1, SamePower
<1>9. Shown(shown, request, words) = s5
  BY Zenon DEF Shown, s1, s2, s3, s4, s5
<1> QED
  BY <1>7, <1>8, <1>9, Zenon

(* Power, charge power, discharge power and status always tell the same    *)
(* story, whatever responses come for whatever requests, as long as status *)
(* and power are read together as update() does (on_modbus_data).          *)
THEOREM PowersAgree == Spec => []PowerConsistent
<1>1. Init => ShownInv
  <2> SUFFICES ASSUME Init PROVE ShownInv
    OBVIOUS
  <2>1. DOMAIN shown = ShownFields
    BY DEF Init, InitShown, ShownFields
  <2>2. shown.power = 0 /\ shown.charge_power = 0 /\ shown.discharge_power = 0
    BY DEF Init, InitShown
  <2> QED
    BY <2>1, <2>2 DEF ShownInv, ConsistentPower
<1>2. ShownInv /\ [Next]_vars => ShownInv'
  <2> SUFFICES ASSUME ShownInv, [Next]_vars PROVE ShownInv'
    OBVIOUS
  <2>1. CASE Next
    <3>1. PICK request \in Requests, words \in Responses : OnModbusData(request, words)
      BY <2>1 DEF Next
    <3>2. CASE EnoughData(request, 2 * Len(words))
      <4> DEFINE d == Shown(shown, request, words)
      <4>1. shown' = d
        BY <3>1, <3>2 DEF OnModbusData
      <4>2. /\ DOMAIN d = ShownFields /\ ConsistentPower(d)
            /\ d.charge_power \in Nat /\ d.discharge_power \in Nat
        BY <3>2, ResponseKeepsShown
      <4> HIDE DEF d
      <4> QED
        BY <4>1, <4>2 DEF ShownInv, ConsistentPower
    <3>3. CASE ~EnoughData(request, 2 * Len(words))
      <4>1. shown' = shown
        BY <3>1, <3>3 DEF OnModbusData
      <4> QED
        BY <4>1 DEF ShownInv, ConsistentPower
    <3> QED
      BY <3>2, <3>3
  <2>2. CASE UNCHANGED vars
    BY <2>2 DEF vars, ShownInv, ConsistentPower
  <2> QED
    BY <2>1, <2>2
<1>3. ShownInv => PowerConsistent
  BY DEF ShownInv, ConsistentPower, PowerConsistent
<1> QED
  BY <1>1, <1>2, <1>3, PTL DEF Spec

-----------------------------------------------------------------------------
(***************************************************************************)
(* The alarms                                                              *)
(***************************************************************************)

(* The eight rows of two level fields. *)
LevelNames ==
  {"lvl_cell_ovp", "lvl_cell_uvp", "lvl_cell_volt_diff", "lvl_chg_overtemp",
   "lvl_chg_undertemp", "lvl_dschg_overtemp", "lvl_dschg_undertemp", "lvl_temp_diff",
   "lvl_total_ovp", "lvl_total_uvp", "lvl_chg_ocp", "lvl_dschg_ocp", "lvl_soc_low",
   "lvl_soh_low", "lvl_mos_overtemp", "lvl_thermal_runaway"}

LEMMA RowsOfLevels ==
  /\ Len(LevelRows) = 8
  /\ \A b \in 1 .. 8 : /\ Len(LevelRows[b]) = 2
                       /\ LevelRows[b][1] \in LevelNames /\ LevelRows[b][2] \in LevelNames
<1>1. Len(LevelRows) = 8
  BY DEF LevelRows
<1>2. \A b \in 1 .. 8 : Len(LevelRows[b]) = 2
  BY DEF LevelRows
<1>3. \A b \in 1 .. 8 : LevelRows[b][1] \in LevelNames /\ LevelRows[b][2] \in LevelNames
  BY DEF LevelRows, LevelNames
<1> QED
  BY <1>1, <1>2, <1>3

LEMMA RowsOfFlags ==
  /\ Len(FlagRows) = 14
  /\ \A b \in 1 .. 14 : \A j \in 1 .. Len(FlagRows[b]) : FlagRows[b][j] \in ErrorFlags \cup StateFlags
<1>1. Len(FlagRows) = 14
  BY DEF FlagRows
<1>2. ASSUME NEW b \in 1 .. 14, NEW j \in 1 .. Len(FlagRows[b])
      PROVE  FlagRows[b][j] \in ErrorFlags \cup StateFlags
  <2>1. CASE b = 1
    BY <2>1 DEF FlagRows, ErrorFlags, StateFlags
  <2>2. CASE b = 2
    BY <2>2 DEF FlagRows, ErrorFlags, StateFlags
  <2>3. CASE b = 3
    BY <2>3 DEF FlagRows, ErrorFlags, StateFlags
  <2>4. CASE b = 4
    BY <2>4 DEF FlagRows, ErrorFlags, StateFlags
  <2>5. CASE b = 5
    BY <2>5 DEF FlagRows, ErrorFlags, StateFlags
  <2>6. CASE b = 6
    BY <2>6 DEF FlagRows, ErrorFlags, StateFlags
  <2>7. CASE b = 7
    BY <2>7 DEF FlagRows, ErrorFlags, StateFlags
  <2>8. CASE b = 8
    BY <2>8 DEF FlagRows, ErrorFlags, StateFlags
  <2>9. CASE b = 9
    BY <2>9 DEF FlagRows, ErrorFlags, StateFlags
  <2>10. CASE b = 10
    BY <2>10 DEF FlagRows, ErrorFlags, StateFlags
  <2>11. CASE b = 11
    BY <2>11 DEF FlagRows, ErrorFlags, StateFlags
  <2>12. CASE b = 12
    BY <2>12 DEF FlagRows, ErrorFlags, StateFlags
  <2>13. CASE b = 13
    BY <2>13 DEF FlagRows, ErrorFlags, StateFlags
  <2>14. CASE b = 14
    BY <2>14 DEF FlagRows, ErrorFlags, StateFlags
  <2> QED
    BY <2>1, <2>2, <2>3, <2>4, <2>5, <2>6, <2>7, <2>8, <2>9, <2>10, <2>11, <2>12, <2>13, <2>14
<1> QED
  BY <1>1, <1>2

(* The flags that are in the list of has_errors are the ones that are      *)
(* named so.                                                               *)
LEMMA NamedFlagsAreErrors ==
  /\ FlagFields \subseteq ErrorFlags \cup StateFlags
  /\ ErrorFlags \cap StateFlags = {}
<1>1. ASSUME NEW f \in FlagFields PROVE f \in ErrorFlags \cup StateFlags
  <2>1. PICK b \in 1 .. Len(FlagRows) : f \in Range(FlagRows[b])
    BY Zenon DEF FlagFields
  <2>2. PICK j \in DOMAIN FlagRows[b] : f = FlagRows[b][j]
    BY <2>1, Zenon DEF Range
  <2>3. b \in 1 .. 14 /\ DOMAIN FlagRows[b] = 1 .. Len(FlagRows[b])
    BY RowsOfFlags DEF FlagRows
  <2> QED
    BY <2>2, <2>3, RowsOfFlags
<1>2. ErrorFlags \cap StateFlags = {}
  BY DEF ErrorFlags, StateFlags
<1> QED
  BY <1>1, <1>2

(* No level is a flag. *)
LEMMA LevelsAreNoFlags == LevelFields \cap FlagFields = {}
<1>1. ASSUME NEW f \in LevelFields PROVE f \in LevelNames
  BY RowsOfLevels DEF LevelFields, Range
<1>2. (ErrorFlags \cup StateFlags) \cap LevelNames = {}
  BY DEF ErrorFlags, StateFlags, LevelNames
<1> QED
  BY <1>1, <1>2, NamedFlagsAreErrors

(* Every level field has its place. *)
LEMMA LevelPlace ==
  ASSUME NEW f \in LevelFields
  PROVE  LevelAt[f] \in (0 .. 7) \X {0, 3}
<1> DEFINE Place(at) == LET row == LevelRows[at[1] + 1]
                        IN  \E j \in 1 .. Len(row) : row[j] = f /\ at[2] = 3 * (j - 1)
<1>1. PICK b \in 1 .. Len(LevelRows) : f \in Range(LevelRows[b])
  BY Zenon DEF LevelFields
<1>2. PICK j \in DOMAIN LevelRows[b] : f = LevelRows[b][j]
  BY <1>1, Zenon DEF Range
<1>3. b \in 1 .. 8 /\ Len(LevelRows[b]) = 2 /\ DOMAIN LevelRows[b] = 1 .. 2
  BY RowsOfLevels DEF LevelRows
<1>4. <<b - 1, 3 * (j - 1)>> \in (0 .. 7) \X {0, 3}
  BY <1>2, <1>3
<1>5. Place(<<b - 1, 3 * (j - 1)>>)
  <2>1. (b - 1) + 1 = b
    BY <1>3
  <2>2. j \in 1 .. Len(LevelRows[b])
    BY <1>3
  <2> QED
    BY <1>2, <2>1, <2>2
<1>6. LevelAt[f] = CHOOSE at \in (0 .. 7) \X {0, 3} : Place(at)
  BY DEF LevelAt
<1> HIDE DEF Place
<1> QED
  BY <1>4, <1>5, <1>6, Zenon

(* A level is a number. *)
LEMMA LevelIsNatural ==
  ASSUME NEW registers, \A i \in 1 .. 7 : registers[i] \in Nat, NEW f \in LevelFields
  PROVE  Status(registers).level[f] \in Nat
<1> DEFINE byte == LevelAt[f][1]
           bit  == LevelAt[f][2]
           value == StatusByte(registers, byte)
<1>1. byte \in 0 .. 7 /\ bit \in {0, 3}
  BY LevelPlace
<1>2. Status(registers).level[f] = Field(registers, LevelAt[f], 3)
  BY Zenon DEF Status
<1>3. Field(registers, LevelAt[f], 3) = (value \div 2 ^ bit) % 2 ^ 3
  BY DEF Field
<1> HIDE DEF byte, bit
<1>4. value \in Nat
  <2> DEFINE register == registers[byte \div 2 + 1]
  <2>1. byte \div 2 + 1 \in 1 .. 7
    BY <1>1
  <2>2. register \in Nat
    BY <2>1
  <2>3. value = IF byte % 2 = 0 THEN register % 256 ELSE register \div 256
    BY DEF StatusByte
  <2> HIDE DEF register, value
  <2> QED
    BY <2>2, <2>3
<1> HIDE DEF value
<1>5. 2 ^ 3 = 8 /\ 2 ^ bit \in {1, 8}
  <2>1. 2 ^ 3 = 8 /\ 2 ^ 0 = 1
    OBVIOUS
  <2>2. CASE bit = 0
    BY <2>1, <2>2, Zenon
  <2>3. CASE bit = 3
    BY <2>1, <2>3, Zenon
  <2> QED
    BY <1>1, <2>2, <2>3, Zenon
<1>6. (value \div 2 ^ bit) % 8 \in Nat
  <2>1. CASE 2 ^ bit = 1
    BY <1>4, <2>1
  <2>2. CASE 2 ^ bit = 8
    BY <1>4, <2>2
  <2> QED
    BY <1>5, <2>1, <2>2
<1> QED
  BY <1>2, <1>3, <1>5, <1>6, Zenon

(* The flags that are named errors. *)
NamedErrors == FlagFields \ StateFlags

(* What ErrorsExplained says of a value of the sensors. *)
Explained(errors, alerts) ==
  /\ errors =>
       \E alert \in alerts :
         \/ alert[1] \in NamedErrors
         \/ alert[1] \notin {"lvl_soc_low", "lvl_soh_low"} /\ alert[2] > 1
  /\ (\E alert \in alerts : alert[1] \in NamedErrors) => errors

(* The lists of has_errors and of the alerts agree. *)
LEMMA StatusExplained ==
  ASSUME NEW registers, \A i \in 1 .. 7 : registers[i] \in Nat
  PROVE  Explained(HasErrors(Status(registers)), Alerts(Status(registers)))
<1> DEFINE status == Status(registers)
<1>1. \A f \in LevelFields : status.level[f] \in Nat
  BY LevelIsNatural
<1>2. status.flags \subseteq FlagFields
  BY DEF Status
<1>3. /\ ErrorLevels \subseteq LevelFields
      /\ \A f \in ErrorLevels : f \notin {"lvl_soc_low", "lvl_soh_low"}
  BY DEF ErrorLevels, WarningLevels
<1>4. \A f \in LevelFields : status.level[f] > 0 => <<f, status.level[f]>> \in Alerts(status)
  BY Zenon DEF Alerts
<1>5. \A f \in status.flags : <<f, 1>> \in Alerts(status)
  BY Zenon DEF Alerts
<1>6. \A alert \in Alerts(status) :
        \/ alert[1] \in LevelFields
        \/ alert[1] \in status.flags
  <2> TAKE alert \in Alerts(status)
  <2>1. \/ \E f \in LevelFields : alert = <<f, status.level[f]>>
        \/ \E f \in status.flags : alert = <<f, 1>>
    BY Zenon DEF Alerts
  <2> QED
    BY <2>1
<1> HIDE DEF status
<1>7. ASSUME HasErrors(status)
      PROVE  \E alert \in Alerts(status) :
               \/ alert[1] \in NamedErrors
               \/ alert[1] \notin {"lvl_soc_low", "lvl_soh_low"} /\ alert[2] > 1
  <2>1. CASE \E f \in ErrorLevels : status.level[f] > 1
    <3>1. PICK f \in ErrorLevels : status.level[f] > 1
      BY <2>1
    <3>2. f \in LevelFields /\ status.level[f] > 0
      BY <1>1, <1>3, <3>1
    <3>3. <<f, status.level[f]>> \in Alerts(status)
      BY <1>4, <3>2
    <3> QED
      BY <1>3, <3>1, <3>3
  <2>2. CASE \E f \in status.flags : f \in ErrorFlags
    <3>1. PICK f \in status.flags : f \in ErrorFlags
      BY <2>2
    <3>2. <<f, 1>> \in Alerts(status)
      BY <1>5
    <3>3. f \in NamedErrors
      BY <1>2, <3>1, NamedFlagsAreErrors DEF NamedErrors
    <3> QED
      BY <3>2, <3>3
  <2>3. \/ \E f \in ErrorLevels : status.level[f] > 1
        \/ \E f \in status.flags : f \in ErrorFlags
    BY <1>7 DEF HasErrors
  <2> QED
    BY <2>1, <2>2, <2>3
<1>8. ASSUME NEW alert \in Alerts(status), alert[1] \in NamedErrors
      PROVE  HasErrors(status)
  <2>1. alert[1] \notin LevelFields /\ alert[1] \in ErrorFlags
    BY <1>8, LevelsAreNoFlags, NamedFlagsAreErrors DEF NamedErrors
  <2>2. alert[1] \in status.flags
    BY <1>6, <2>1
  <2> QED
    BY <2>1, <2>2 DEF HasErrors
<1> QED
  BY <1>7, <1>8 DEF Explained, status

(* The parts of on_modbus_data that show no alarms. *)
LEMMA OthersKeepAlarms ==
  ASSUME NEW s, DOMAIN s = ShownFields, NEW request, NEW words, NEW v, NEW w
  PROVE  /\ LET d == [s EXCEPT !.cell_voltage = v, !.temperature = w]
            IN  DOMAIN d = ShownFields /\ d.has_errors = s.has_errors /\ d.alerts = s.alerts
         /\ LET d == ShowPower(s, request, words)
            IN  DOMAIN d = ShownFields /\ d.has_errors = s.has_errors /\ d.alerts = s.alerts
         /\ LET d == ShowStatusText(s, request, words)
            IN  DOMAIN d = ShownFields /\ d.has_errors = s.has_errors /\ d.alerts = s.alerts
         /\ LET d == ShowBalancing(s, request, words)
            IN  DOMAIN d = ShownFields /\ d.has_errors = s.has_errors /\ d.alerts = s.alerts
<1> DEFINE Same(d) == DOMAIN d = ShownFields /\ d.has_errors = s.has_errors
                       /\ d.alerts = s.alerts
<1>1. /\ Same(s)
      /\ Same([s EXCEPT !.cell_voltage = v, !.temperature = w])
      /\ \A x : Same([s EXCEPT !.balancing = x])
      /\ \A x : Same([s EXCEPT !.status = x])
      /\ \A d, p, c, q :
           d = [s EXCEPT !.power = p, !.charge_power = c, !.discharge_power = q] => Same(d)
  BY DEF ShownFields
<1> HIDE DEF Same
<1>2. Same(ShowPower(s, request, words))
  <2> DEFINE power == GetRegister(request, words, DALY_MODBUS_ADDR_POWER)
             state == GetRegister(request, words, DALY_MODBUS_ADDR_CHG_DSCHG_STATUS)
             e == ShowPower(s, request, words)
  <2>1. e = CASE ~HasPower(request) -> s
              [] HasPower(request) /\ state = 0 ->
                   [s EXCEPT !.power = 0, !.charge_power = 0, !.discharge_power = 0]
              [] HasPower(request) /\ state = 1 ->
                   [s EXCEPT !.power = power, !.charge_power = power, !.discharge_power = 0]
              [] HasPower(request) /\ state = 2 ->
                   [s EXCEPT !.power = -power, !.charge_power = 0, !.discharge_power = power]
              [] OTHER -> s
    BY DEF ShowPower
  <2> HIDE DEF power, state, e
  <2>2. \/ e = s
        \/ e = [s EXCEPT !.power = 0, !.charge_power = 0, !.discharge_power = 0]
        \/ e = [s EXCEPT !.power = power, !.charge_power = power, !.discharge_power = 0]
        \/ e = [s EXCEPT !.power = -power, !.charge_power = 0, !.discharge_power = power]
    BY <2>1
  <2>3. \A p, c, q :
          e = [s EXCEPT !.power = p, !.charge_power = c, !.discharge_power = q] => Same(e)
    BY <1>1, Zenon
  <2>4. Same(e)
    <3>1. CASE e = s
      BY <1>1, <3>1, Zenon
    <3>2. CASE e = [s EXCEPT !.power = 0, !.charge_power = 0, !.discharge_power = 0]
      BY <2>3, <3>2, Zenon
    <3>3. CASE e = [s EXCEPT !.power = power, !.charge_power = power, !.discharge_power = 0]
      BY <2>3, <3>3, Zenon
    <3>4. CASE e = [s EXCEPT !.power = -power, !.charge_power = 0, !.discharge_power = power]
      BY <2>3, <3>4, Zenon
    <3> QED
      BY <2>2, <3>1, <3>2, <3>3, <3>4, Zenon
  <2> QED
    BY <2>4, Zenon DEF e
<1>3. Same(ShowStatusText(s, request, words))
  BY <1>1, Zenon DEF ShowStatusText
<1>4. Same(ShowBalancing(s, request, words))
  BY <1>1, Zenon DEF ShowBalancing
<1> QED
  BY <1>1, <1>2, <1>3, <1>4, Zenon DEF Same

(* The registers of the status are numbers, those between the two that the *)
(* code asks has_register for included.                                    *)
LEMMA StatusIsNatural ==
  ASSUME NEW request, RightRequest(request), NEW words \in Seq(Word),
         EnoughData(request, 2 * Len(words)), HasStatus(request), NEW i \in 1 .. 7
  PROVE  GetRegister(request, words, 108 + i) \in Nat
<1>1. HasRegister(request, 109) /\ HasRegister(request, 115)
  BY DEF HasStatus, DALY_MODBUS_ADDR_BMS_TYPE_2_ERR_00_01,
         DALY_MODBUS_ADDR_BMS_TYPE_2_ERR_12_13
<1>2. 108 + i \in 109 .. 115 /\ 108 + i \in Nat
  OBVIOUS
<1>3. HasRegister(request, 108 + i)
  BY <1>1, <1>2, WindowIsInterval
<1> QED
  BY <1>2, <1>3, WordInWindow

(* The alarms are shown together. *)
LEMMA AlarmsShown ==
  ASSUME NEW s, DOMAIN s = ShownFields, Explained(s.has_errors, s.alerts),
         NEW request, RightRequest(request), NEW words \in Seq(Word),
         EnoughData(request, 2 * Len(words))
  PROVE  LET d == ShowAlarms(s, request, words)
         IN  DOMAIN d = ShownFields /\ Explained(d.has_errors, d.alerts)
<1>1. CASE HasStatus(request)
  <2> DEFINE registers == [i \in 1 .. 7 |-> GetRegister(request, words, 108 + i)]
             status == Status(registers)
             errors == HasErrors(status)
             alerts == Alerts(status)
             d == ShowAlarms(s, request, words)
  <2>1. \A i \in 1 .. 7 : registers[i] \in Nat
    BY <1>1, StatusIsNatural
  <2>2. d = [s EXCEPT !.has_warnings = HasWarnings(status), !.has_errors = errors,
                      !.alerts = alerts, !.alarm_level = AlarmLevels(status)]
    BY <1>1 DEF ShowAlarms
  <2> HIDE DEF registers
  <2>3. Explained(errors, alerts)
    BY <2>1, StatusExplained
  <2> HIDE DEF status, errors, alerts, d
  <2>4. DOMAIN d = ShownFields /\ d.has_errors = errors /\ d.alerts = alerts
    BY <2>2 DEF ShownFields
  <2>5. DOMAIN d = ShownFields /\ Explained(d.has_errors, d.alerts)
    BY <2>3, <2>4, Zenon
  <2> QED
    BY <2>5, Zenon DEF d
<1>2. CASE ~HasStatus(request)
  BY <1>2 DEF ShowAlarms
<1> QED
  BY <1>1, <1>2

(* What is shown of the alarms, with the sensors there are. *)
AlarmsInv ==
  /\ DOMAIN shown = ShownFields
  /\ Explained(shown.has_errors, shown.alerts)

(* A response keeps the errors explained. *)
LEMMA ResponseKeepsAlarms ==
  ASSUME AlarmsInv, NEW request \in Requests, NEW words \in Responses,
         EnoughData(request, 2 * Len(words))
  PROVE  LET d == Shown(shown, request, words)
         IN  DOMAIN d = ShownFields /\ Explained(d.has_errors, d.alerts)
<1> DEFINE s1 == [shown EXCEPT !.cell_voltage = CellVoltages(shown, request, words),
                               !.temperature  = Temperatures(shown, request, words)]
           s2 == ShowPower(s1, request, words)
           s3 == ShowStatusText(s2, request, words)
           s4 == ShowBalancing(s3, request, words)
           s5 == ShowAlarms(s4, request, words)
           Same(d) == /\ DOMAIN d = ShownFields
                      /\ d.has_errors = shown.has_errors /\ d.alerts = shown.alerts
<1>1. RightRequest(request) /\ words \in Seq(Word)
  BY RequestsAssumption, ResponsesAssumption DEF RightRequest
<1>2. Same(s1)
  BY OthersKeepAlarms DEF AlarmsInv
<1> HIDE DEF s1
<1>3. Same(s2)
  BY <1>2, OthersKeepAlarms
<1> HIDE DEF s2
<1>4. Same(s3)
  BY <1>3, OthersKeepAlarms
<1> HIDE DEF s3
<1>5. Same(s4)
  BY <1>4, OthersKeepAlarms
<1> HIDE DEF s4
<1>6. DOMAIN s4 = ShownFields /\ Explained(s4.has_errors, s4.alerts)
  BY <1>5, Zenon DEF AlarmsInv
<1>7. DOMAIN s5 = ShownFields /\ Explained(s5.has_errors, s5.alerts)
  BY <1>1, <1>6, AlarmsShown
<1> HIDE DEF s5
<1>8. Shown(shown, request, words) = s5
  BY Zenon DEF Shown, s1, s2, s3, s4, s5
<1> QED
  BY <1>7, <1>8, Zenon

(* has_errors is never on without an alert that says why and always with   *)
(* one for a flag that is named an error, whatever responses come: every   *)
(* such flag of DalyHkmsStatus, wherever in the registers it is, is in     *)
(* both lists of the code (on_modbus_data).                                *)
THEOREM ErrorsAlwaysExplained == Spec => []ErrorsExplained
<1>1. Init => AlarmsInv
  <2> SUFFICES ASSUME Init PROVE AlarmsInv
    OBVIOUS
  <2>1. DOMAIN shown = ShownFields
    BY DEF Init, InitShown, ShownFields
  <2>2. shown.has_errors = FALSE /\ shown.alerts = {}
    BY DEF Init, InitShown
  <2> QED
    BY <2>1, <2>2 DEF AlarmsInv, Explained
<1>2. AlarmsInv /\ [Next]_vars => AlarmsInv'
  <2> SUFFICES ASSUME AlarmsInv, [Next]_vars PROVE AlarmsInv'
    OBVIOUS
  <2>1. CASE Next
    <3>1. PICK request \in Requests, words \in Responses : OnModbusData(request, words)
      BY <2>1 DEF Next
    <3>2. CASE EnoughData(request, 2 * Len(words))
      <4> DEFINE d == Shown(shown, request, words)
      <4>1. shown' = d
        BY <3>1, <3>2 DEF OnModbusData
      <4>2. DOMAIN d = ShownFields /\ Explained(d.has_errors, d.alerts)
        BY <3>2, ResponseKeepsAlarms
      <4> HIDE DEF d
      <4> QED
        BY <4>1, <4>2 DEF AlarmsInv, Explained
    <3>3. CASE ~EnoughData(request, 2 * Len(words))
      <4>1. shown' = shown
        BY <3>1, <3>3 DEF OnModbusData
      <4> QED
        BY <4>1 DEF AlarmsInv, Explained
    <3> QED
      BY <3>2, <3>3
  <2>2. CASE UNCHANGED vars
    BY <2>2 DEF vars, AlarmsInv, Explained
  <2> QED
    BY <2>1, <2>2
<1>3. AlarmsInv => ErrorsExplained
  BY DEF AlarmsInv, Explained, NamedErrors, ErrorsExplained
<1> QED
  BY <1>1, <1>2, <1>3, PTL DEF Spec
=============================================================================
