----------------------------- MODULE BmsStatus -----------------------------
(***************************************************************************)
(* The alarm registers of a BMS (DalyHkmsStatus) and what is made of them: *)
(* has_warnings, has_errors and the list of alerts.  Level fields have     *)
(* three bits, flags one.  A byte holds at most two levels, in its low     *)
(* bits, and flags in its high bits.                                       *)
(***************************************************************************)
EXTENDS Integers, Sequences

LOCAL INSTANCE Functions
LOCAL INSTANCE FiniteSets

(* The level fields of bytes 0 to 7, from the lowest bits up. *)
LevelRows ==
  <<<<"lvl_cell_ovp", "lvl_cell_uvp">>,
    <<"lvl_cell_volt_diff", "lvl_chg_overtemp">>,
    <<"lvl_chg_undertemp", "lvl_dschg_overtemp">>,
    <<"lvl_dschg_undertemp", "lvl_temp_diff">>,
    <<"lvl_total_ovp", "lvl_total_uvp">>,
    <<"lvl_chg_ocp", "lvl_dschg_ocp">>,
    <<"lvl_soc_low", "lvl_soh_low">>,
    <<"lvl_mos_overtemp", "lvl_thermal_runaway">>>>

(* The flags of bytes 0 to 13, up to the highest bit. *)
FlagRows ==
  <<<<"smart_charger_connected", "err_smart_charger_connection">>,
    <<"smart_discharger_connected", "err_smart_discharger_connection">>,
    <<"err_chg_mos_temp_high", "err_chg_mos_temp_detect">>,
    <<"err_dschg_mos_temp_high", "err_dschg_mos_temp_detect">>,
    <<"err_short_circuit", "upgrade_sign">>,
    <<"err_chg_undervoltage", "err_dschg_overvoltage">>,
    <<"parallel_comm", "err_parallel_comm">>,
    <<>>, <<>>, <<>>, <<>>,
    <<"err_afe_chip", "err_afe_comm", "err_afe_sampling", "err_volt_detect",
      "err_volt_detect_disconnected", "err_volt_total_detect", "err_curr_detect",
      "err_temp_detect">>,
    <<"err_temp_disconnected", "err_eeprom", "err_flash", "err_rtc",
      "err_chg_mos", "err_dschg_mos", "err_prechg_mos", "err_prechg">>,
    <<"chg_mos_off_bus", "dschg_mos_off_bus", "chg_mos_off_switch",
      "dschg_mos_off_switch", "fan_active", "heating_active",
      "current_limit_active", "err_heating">>>>

LevelFields == UNION {Range(LevelRows[b]) : b \in 1 .. Len(LevelRows)}
FlagFields  == UNION {Range(FlagRows[b])  : b \in 1 .. Len(FlagRows)}

(* Where a field is: its byte, counted from 0, and its lowest bit. *)
LevelAt == [f \in LevelFields |->
  CHOOSE at \in (0 .. 7) \X {0, 3} :
    LET row == LevelRows[at[1] + 1]
    IN  \E j \in 1 .. Len(row) : row[j] = f /\ at[2] = 3 * (j - 1)]

FlagAt == [f \in FlagFields |->
  CHOOSE at \in (0 .. 13) \X (0 .. 7) :
    LET row == FlagRows[at[1] + 1]
    IN  \E j \in 1 .. Len(row) : row[j] = f /\ at[2] = 8 - Len(row) + j - 1]

(* Byte b of the status: registers are stored low byte first. *)
StatusByte(registers, b) ==
  LET register == registers[b \div 2 + 1]
  IN  IF b % 2 = 0 THEN register % 256 ELSE register \div 256

Field(registers, at, width) ==
  (StatusByte(registers, at[1]) \div 2 ^ at[2]) % 2 ^ width

(* The status in the seven registers from ERR_00_01 to ERR_12_13. *)
Status(registers) ==
  [level |-> [f \in LevelFields |-> Field(registers, LevelAt[f], 3)],
   flags |-> {f \in FlagFields : Field(registers, FlagAt[f], 1) = 1}]

-----------------------------------------------------------------------------
(* The levels that count for has_warnings; SoC and SoH are never errors.   *)
WarningLevels == LevelFields \ {"lvl_dschg_undertemp", "lvl_temp_diff"}
ErrorLevels   == WarningLevels \ {"lvl_soc_low", "lvl_soh_low"}

(* The flags that count for has_errors. *)
ErrorFlags ==
  {"err_smart_charger_connection", "err_smart_discharger_connection",
   "err_chg_mos_temp_high", "err_chg_mos_temp_detect",
   "err_dschg_mos_temp_high", "err_dschg_mos_temp_detect",
   "err_short_circuit", "err_chg_undervoltage", "err_dschg_overvoltage",
   "err_parallel_comm",
   "err_afe_chip", "err_afe_comm", "err_afe_sampling", "err_volt_detect",
   "err_volt_detect_disconnected", "err_volt_total_detect", "err_curr_detect",
   "err_temp_detect", "err_temp_disconnected", "err_eeprom", "err_flash", "err_rtc",
   "err_chg_mos", "err_dschg_mos", "err_prechg_mos", "err_prechg", "err_heating"}

(* The flags that tell of a state; DalyHkmsStatus names all others err_.   *)
StateFlags ==
  {"smart_charger_connected", "smart_discharger_connected", "upgrade_sign",
   "parallel_comm", "chg_mos_off_bus", "dschg_mos_off_bus", "chg_mos_off_switch",
   "dschg_mos_off_switch", "fan_active", "heating_active", "current_limit_active"}

(* Faulty variant of HasErrors: a flag is forgotten. *)
HasErrorsForgetsOne(status) ==
  \/ \E f \in ErrorLevels : status.level[f] > 1
  \/ status.flags \cap (ErrorFlags \ {"err_heating"}) # {}

(* Faulty variant of HasErrors: every level that warns can be an error. *)
HasErrorsAllLevels(status) ==
  \/ \E f \in WarningLevels : status.level[f] > 1
  \/ status.flags \cap ErrorFlags # {}

HasErrors(status) ==
  \/ \E f \in ErrorLevels : status.level[f] > 1
  \/ status.flags \cap ErrorFlags # {}

HasWarnings(status) ==
  \/ \E f \in WarningLevels : status.level[f] > 0
  \/ HasErrors(status)

(* The list of alerts: levels that are not 0 and all flags. *)
Alerts(status) ==
  {<<f, status.level[f]>> : f \in {g \in LevelFields : status.level[g] > 0}}
    \cup {<<f, 1>> : f \in status.flags}

(* The levels that have a sensor: all but thermal runaway. *)
AlarmLevels(status) ==
  [f \in LevelFields \ {"lvl_thermal_runaway"} |-> status.level[f]]
=============================================================================
