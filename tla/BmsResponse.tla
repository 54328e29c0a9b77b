---------------------------- MODULE BmsResponse ----------------------------
(***************************************************************************)
(* on_modbus_data of one BMS: what its sensors show after responses, and   *)
(* which registers of a response are looked at to find out.  A response is *)
(* the sequence of its 16-bit words.  It need not be the one to the pending*)
(* request (see DataOnlyAfterSend of DalyBus), nor of the size asked for.  *)
(*                                                                         *)
(* Sensors that show one register, scaled, are represented by the cell     *)
(* voltages and the temperatures.  All sensors are configured; one that is *)
(* not does not influence the others.                                      *)
(***************************************************************************)
EXTENDS DalyRegisters, BmsStatus

CONSTANTS
  Cells,           \* cell_voltage_sensors_max_
  Balancers,       \* cell_balancing_sensors_max_
  InputRegisters,  \* the registers of the switches
  Requests,        \* the requests that may be pending
  Responses,       \* for each of them, the responses that may come
  Unavailable      \* what a temperature sensor shows for a missing probe

(* A write to register 0 is left out: its response would be taken to begin *)
(* at register 65535.                                                      *)
ASSUME RequestsAssumption ==
  \A request \in Requests :
    /\ request.cmd \in Cmd
    /\ request.register_address \in Word
    /\ request.data \in Word
    /\ request.cmd = MODBUS_CMD_WRITE_SINGLE_REGISTER => request.register_address # 0

ASSUME CellsAssumption == Cells \in 0 .. 48 /\ Balancers \in 0 .. 48

ASSUME InputsAssumption == InputRegisters \subseteq Word

ASSUME ResponsesAssumption == \A words \in Responses : words \in Seq(Word)

VARIABLES
  last,   \* the request and the size in bytes of the last response
  shown   \* what the sensors show

vars == <<last, shown>>

-----------------------------------------------------------------------------
(***************************************************************************)
(* Access to the response                                                  *)
(***************************************************************************)

(* The word of a register that the response is taken to hold. *)
GetRegister(request, words, reg) == words[reg - RegisterOffset(request) + 1]

HasStatus(request) ==
  /\ HasRegister(request, DALY_MODBUS_ADDR_BMS_TYPE_2_ERR_00_01)
  /\ HasRegister(request, DALY_MODBUS_ADDR_BMS_TYPE_2_ERR_12_13)

HasPower(request) ==
  /\ HasRegister(request, DALY_MODBUS_ADDR_POWER)
  /\ HasRegister(request, DALY_MODBUS_ADDR_CHG_DSCHG_STATUS)

(* update() asks for the status and the power in one block. *)
ASSUME BlocksAssumption ==
  \A request \in Requests :
    HasRegister(request, DALY_MODBUS_ADDR_CHG_DSCHG_STATUS) => HasPower(request)

HasBalancePerCell(request) ==
  /\ HasRegister(request, DALY_MODBUS_ADDR_BALANCE_STATUS_PER_CELL_01_TO_16)
  /\ HasRegister(request, DALY_MODBUS_ADDR_BALANCE_STATUS_PER_CELL_33_TO_48)

(* The registers that sensors of one register and the switches look at. *)
SingleRegisters ==
  {DALY_MODBUS_ADDR_CELL_VOLT_1 + i : i \in 0 .. Cells - 1}
    \cup {DALY_MODBUS_ADDR_CELL_TEMP_1 + i : i \in 0 .. 7}
    \cup ((DALY_MODBUS_ADDR_VOLT .. 70) \ {59})
    \cup {DALY_MODBUS_ADDR_CHG_DSCHG_STATUS, 75, 76, DALY_MODBUS_ADDR_BALANCE_STATUS,
          78, 82, 83, 84, 89, 90, 91}
    \cup InputRegisters

(* Every register that the handler reads for a request, by the guard it    *)
(* reads it under; the last for its message after a write.                 *)
Reads(request) ==
  {reg \in SingleRegisters : HasRegister(request, reg)}
    \cup (IF HasStatus(request) THEN 109 .. 115 ELSE {})
    \cup (IF HasPower(request)
          THEN {DALY_MODBUS_ADDR_POWER, DALY_MODBUS_ADDR_CHG_DSCHG_STATUS} ELSE {})
    \cup (IF HasBalancePerCell(request) THEN 79 .. 81 ELSE {})
    \cup (IF request.cmd = MODBUS_CMD_WRITE_SINGLE_REGISTER
          THEN {request.register_address} ELSE {})

-----------------------------------------------------------------------------
(***************************************************************************)
(* What is published                                                       *)
(***************************************************************************)

InitShown ==
  [cell_voltage |-> [i \in 1 .. Cells |-> Unavailable],
   temperature  |-> [i \in 1 .. 8 |-> Unavailable],
   power |-> 0, charge_power |-> 0, discharge_power |-> 0,
   status |-> "unknown",
   balancing |-> [i \in 1 .. Balancers |-> FALSE],
   has_warnings |-> FALSE, has_errors |-> FALSE,
   alerts |-> {}, alarm_level |-> AlarmLevels(Status(<<0, 0, 0, 0, 0, 0, 0>>))]

CellVoltages(s, request, words) ==
  [i \in 1 .. Cells |->
     IF HasRegister(request, DALY_MODBUS_ADDR_CELL_VOLT_1 + i - 1)
     THEN GetRegister(request, words, DALY_MODBUS_ADDR_CELL_VOLT_1 + i - 1)
     ELSE s.cell_voltage[i]]

Temperatures(s, request, words) ==
  [i \in 1 .. 8 |->
     LET reg == DALY_MODBUS_ADDR_CELL_TEMP_1 + i - 1
     IN  CASE ~HasRegister(request, reg) -> s.temperature[i]
           [] HasRegister(request, reg) /\ GetRegister(request, words, reg) = 255 -> Unavailable
           [] OTHER -> GetRegister(request, words, reg) - 40]

(* Faulty variant of ShowPower: the power of the other direction is kept.  *)
ShowPowerKeeping(s, request, words) ==
  LET power == GetRegister(request, words, DALY_MODBUS_ADDR_POWER)
      state == GetRegister(request, words, DALY_MODBUS_ADDR_CHG_DSCHG_STATUS)
  IN  CASE ~HasPower(request) -> s
        [] HasPower(request) /\ state = 1 -> [s EXCEPT !.power = power, !.charge_power = power]
        [] HasPower(request) /\ state = 2 ->
             [s EXCEPT !.power = -power, !.discharge_power = power]
        [] OTHER -> s

ShowPower(s, request, words) ==
  LET power == GetRegister(request, words, DALY_MODBUS_ADDR_POWER)
      state == GetRegister(request, words, DALY_MODBUS_ADDR_CHG_DSCHG_STATUS)
  IN  CASE ~HasPower(request) -> s
        [] HasPower(request) /\ state = 0 ->
             [s EXCEPT !.power = 0, !.charge_power = 0, !.discharge_power = 0]
        [] HasPower(request) /\ state = 1 ->
             [s EXCEPT !.power = power, !.charge_power = power, !.discharge_power = 0]
        [] HasPower(request) /\ state = 2 ->
             [s EXCEPT !.power = -power, !.charge_power = 0, !.discharge_power = power]
        [] OTHER -> s

StatusText == <<"Stationary", "Charging", "Discharging">>

ShowStatusText(s, request, words) ==
  IF /\ HasRegister(request, DALY_MODBUS_ADDR_CHG_DSCHG_STATUS)
     /\ GetRegister(request, words, DALY_MODBUS_ADDR_CHG_DSCHG_STATUS) \in 0 .. 2
  THEN [s EXCEPT !.status =
          StatusText[GetRegister(request, words, DALY_MODBUS_ADDR_CHG_DSCHG_STATUS) + 1]]
  ELSE s

(* Bit k - 1 of the 16 bits of the register for cell k. *)
ShowBalancing(s, request, words) ==
  IF HasBalancePerCell(request)
  THEN [s EXCEPT !.balancing =
          [k \in 1 .. Balancers |->
             LET reg == DALY_MODBUS_ADDR_BALANCE_STATUS_PER_CELL_01_TO_16 + (k - 1) \div 16
             IN  (GetRegister(request, words, reg) \div 2 ^ ((k - 1) % 16)) % 2 = 1]]
  ELSE s

ShowAlarms(s, request, words) ==
  IF HasStatus(request)
  THEN LET status == Status([i \in 1 .. 7 |-> GetRegister(request, words, 108 + i)])
       IN  [s EXCEPT !.has_warnings = HasWarnings(status),
                     !.has_errors   = HasErrors(status),
                     !.alerts       = Alerts(status),
                     !.alarm_level  = AlarmLevels(status)]
  ELSE s

(* The five blocks of a response are different registers, and so are what  *)
(* they show; the order of the code is kept.                               *)
Shown(s, request, words) ==
  LET s1 == [s EXCEPT !.cell_voltage = CellVoltages(s, request, words),
                      !.temperature  = Temperatures(s, request, words)]
      s2 == ShowPower(s1, request, words)
      s3 == ShowStatusText(s2, request, words)
      s4 == ShowBalancing(s3, request, words)
  IN  ShowAlarms(s4, request, words)

-----------------------------------------------------------------------------
(***************************************************************************)
(* The handler, for the request that pop_pending has returned              *)
(***************************************************************************)
NoResponse == [request |-> <<>>, size |-> 0]

Init == last = NoResponse /\ shown = InitShown

OnModbusData(request, words) ==
  /\ last' = [request |-> request, size |-> 2 * Len(words)]
  /\ shown' = IF EnoughData(request, 2 * Len(words))
              THEN Shown(shown, request, words)
              ELSE shown

Next == \E request \in Requests : \E words \in Responses : OnModbusData(request, words)

Spec == Init /\ [][Next]_vars

-----------------------------------------------------------------------------

(* Whatever response is taken for that to a request, only bytes that it    *)
(* has are read: the check of the size and the guards of all reads, also   *)
(* those that read more registers than they ask has_register for, are      *)
(* enough (on_modbus_data).                                                *)
InBounds ==
  last # NoResponse /\ EnoughData(last.request, last.size) =>
    \A reg \in Reads(last.request) :
      LET first == (reg - RegisterOffset(last.request)) * 2
      IN  first >= 0 /\ first + 1 < last.size

(* The three powers and the status always tell the same story ("positive   *)
(* when charging, negative when discharging", "always positive",           *)
(* README.md:89-91), also after a response with a status nobody knows.     *)
PowerConsistent ==
  /\ shown.power = shown.charge_power - shown.discharge_power
  /\ shown.charge_power >= 0 /\ shown.discharge_power >= 0
  /\ shown.charge_power > 0 => shown.status = "Charging" /\ shown.discharge_power = 0
  /\ shown.discharge_power > 0 => shown.status = "Discharging" /\ shown.charge_power = 0

(* has_errors is never on without an alert that says why, and is on when   *)
(* there is an alert for a flag that DalyHkmsStatus names an error: the    *)
(* lists of has_errors and of the alerts have all flags of that            *)
(* declaration, and SoC and SoH are never errors (on_modbus_data).         *)
ErrorsExplained ==
  LET named == FlagFields \ StateFlags
  IN  /\ shown.has_errors =>
           \E alert \in shown.alerts :
             \/ alert[1] \in named
             \/ alert[1] \notin {"lvl_soc_low", "lvl_soh_low"} /\ alert[2] > 1
      /\ (\E alert \in shown.alerts : alert[1] \in named) => shown.has_errors

(* "BMS warning status" (README.md:165): has_warnings is on whenever an    *)
(* alarm level that has a sensor is not 0.                                 *)
AlarmsWarned ==
  \A f \in DOMAIN shown.alarm_level :
    shown.alarm_level[f] > 0 => shown.has_warnings
=============================================================================
