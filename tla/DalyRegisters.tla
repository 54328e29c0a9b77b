--------------------------- MODULE DalyRegisters ---------------------------
(***************************************************************************)
(* The Modbus commands and BMS registers of the protocol                   *)
(* (daly_hkms_bms_registers.h), and the registers that a response is taken *)
(* to hold (the beginning of on_modbus_data).                              *)
(***************************************************************************)
EXTENDS Naturals

MODBUS_CMD_READ_HOLDING_REGISTERS == 3
MODBUS_CMD_WRITE_SINGLE_REGISTER  == 6

Cmd == {MODBUS_CMD_READ_HOLDING_REGISTERS, MODBUS_CMD_WRITE_SINGLE_REGISTER}

DALY_MODBUS_ADDR_CELL_VOLT_1                      == 0
DALY_MODBUS_ADDR_CELL_TEMP_1                      == 48
DALY_MODBUS_ADDR_VOLT                             == 56
DALY_MODBUS_ADDR_CURR                             == 57
DALY_MODBUS_ADDR_CELL_TEMP_DIFF                   == 71
DALY_MODBUS_ADDR_CHG_DSCHG_STATUS                 == 72
DALY_MODBUS_ADDR_BALANCE_STATUS                   == 77
DALY_MODBUS_ADDR_BALANCE_STATUS_PER_CELL_01_TO_16 == 79
DALY_MODBUS_ADDR_BALANCE_STATUS_PER_CELL_33_TO_48 == 81
DALY_MODBUS_ADDR_POWER                            == 88
DALY_MODBUS_ADDR_HEATING_TEMP                     == 92
DALY_MODBUS_ADDR_BMS_TYPE_2_ERR_00_01             == 109
DALY_MODBUS_ADDR_BMS_TYPE_2_ERR_12_13             == 115
DALY_MODBUS_ADDR_CHG_MOS_CONTROL                  == 289
DALY_MODBUS_ADDR_DSCHG_MOS_CONTROL                == 290

(* The values of a register, a register address and a count of registers.  *)
Word == 0 .. 65535

(* The response to a write is taken for a read from the register before.   *)
(* Registers are uint16_t (there is none before 0), their sums are int.    *)
RegisterOffset(request) ==
  CASE request.cmd = MODBUS_CMD_READ_HOLDING_REGISTERS -> request.register_address
    [] request.cmd # MODBUS_CMD_READ_HOLDING_REGISTERS /\ request.register_address = 0 -> 65535
    [] OTHER -> request.register_address - 1

RegisterCount(request) ==
  IF request.cmd = MODBUS_CMD_READ_HOLDING_REGISTERS THEN request.data ELSE 2

(* Faulty variant of EnoughData: registers are taken for bytes. *)
EnoughDataInBytes(request, size) == size >= RegisterCount(request)

(* size is that of the data of the response, in bytes. *)
EnoughData(request, size) == size >= RegisterCount(request) * 2

HasRegister(request, reg) ==
  /\ reg >= RegisterOffset(request)
  /\ reg < RegisterOffset(request) + RegisterCount(request)
=============================================================================
