----------------------------- MODULE MCResponse -----------------------------
(***************************************************************************)
(* Requests and responses for BmsResponse: every block that update() and   *)
(* update_fast() ask for and a write, each answered with each response, so *)
(* also with those of other requests, shorter and longer ones.             *)
(***************************************************************************)
EXTENDS BmsResponse

MCInputRegisters == {DALY_MODBUS_ADDR_CHG_MOS_CONTROL, DALY_MODBUS_ADDR_DSCHG_MOS_CONTROL}

Request(cmd, reg, data) ==
  [cmd |-> cmd, register_address |-> reg, data |-> data]

MCRequests ==
  {Request(3, DALY_MODBUS_ADDR_CELL_VOLT_1, 1),
   Request(3, DALY_MODBUS_ADDR_CELL_TEMP_1, 24),
   Request(3, DALY_MODBUS_ADDR_CHG_DSCHG_STATUS, 21),
   Request(3, DALY_MODBUS_ADDR_BMS_TYPE_2_ERR_00_01, 7),
   Request(3, DALY_MODBUS_ADDR_VOLT, 2),
   Request(6, DALY_MODBUS_ADDR_CHG_MOS_CONTROL, 1)}

Zeros(n) == [i \in 1 .. n |-> 0]

(* A status that charges or discharges, or is unknown. *)
StatusWords(state, power) ==
  [Zeros(21) EXCEPT ![1] = state, ![17] = power]

(* Levels and flags of each kind: a level 1 and 2 that can be an error, a  *)
(* flag that is none, ones that are, the last of them included; the levels *)
(* without error or warning.                                               *)
AlarmWords ==
  {[Zeros(7) EXCEPT ![at[1]] = 2 ^ at[2]] :
     at \in {<<1, 0>>, <<1, 4>>, <<1, 6>>, <<1, 7>>, <<2, 8>>, <<4, 0>>, <<4, 4>>,
             <<6, 8>>, <<7, 12>>, <<7, 15>>}}

(* A temperature of 25 degrees and a missing probe. *)
TemperatureWords == [Zeros(24) EXCEPT ![1] = 65, ![8] = 255]

MCResponses ==
  {StatusWords(0, 7), StatusWords(1, 5), StatusWords(2, 5), StatusWords(3, 7)}
    \cup AlarmWords
    \cup {TemperatureWords, <<>>, <<1>>, <<289, 1>>, Zeros(20)}
=============================================================================
