------------------------------- MODULE MCTiming -------------------------------
(***************************************************************************)
(* Values of the constants of ModbusTiming for the run.                    *)
(***************************************************************************)
EXTENDS ModbusTiming

ShortAndLong == {2, 9}
=============================================================================
