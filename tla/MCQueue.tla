------------------------------ MODULE MCQueue ------------------------------
(***************************************************************************)
(* The command queue shared by two BMSs, with a read and a write request   *)
(* each: four keys, so every order of both queues and every combination    *)
(* with a pending request occurs.                                          *)
(***************************************************************************)
EXTENDS DalyHkmsCommandQueue

MCAddress  == {1, 2}
MCRegister == {289}       \* DALY_MODBUS_ADDR_CHG_MOS_CONTROL, 0x121
MCData     == {0, 1}
=============================================================================
