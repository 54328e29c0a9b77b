------------------------------- MODULE MCBus -------------------------------
(***************************************************************************)
(* Values of the constants of DalyBus for the runs.                        *)
(***************************************************************************)
EXTENDS DalyBus, TLC

OneBms  == {1}
TwoBmss == {1, 2}

MCRegister == {0, 48, 56, 72, 109, 289, 290}
MCData     == {0, 1, 2, 7, 16, 21, 24}

NoCells == [a \in Address |-> 0]

ChargeSwitch == {DALY_MODBUS_ADDR_CHG_MOS_CONTROL}
BothSwitches == ControlRegisters
NoSwitches   == {}

ControlBlock == {DALY_MODBUS_ADDR_CHG_MOS_CONTROL}
StatusBlock  == {DALY_MODBUS_ADDR_CHG_DSCHG_STATUS}
TwoBlocks    == ControlBlock \cup StatusBlock
NoBlocks     == {}

Nobody == {}

AllAnswer  == [a \in Address |-> {"answer"}]
AllFaults  == [a \in Address |->
                 {"answer", "split", "truncated", "answer_lost", "request_lost", "rejected"}]
OneSilent  == [a \in Address |->
                 IF a = 2 THEN {"request_lost", "answer_lost", "truncated", "rejected"}
                 ELSE {"answer"}]
FaultyAndSilent == [a \in Address |->
                      IF a = 2 THEN {"request_lost"} ELSE AllFaults[a]]
AnswerOrNot == [a \in Address |-> {"answer", "answer_lost", "request_lost"}]
AnswerOrSplit == [a \in Address |-> {"answer", "split"}]
=============================================================================
