------------------------------- MODULE FrameLink -------------------------------
(***************************************************************************)
(* What the devices of a Modbus may rely on when the hub parses bytes: a   *)
(* frame that somebody sends is handed over as it was sent, once and when  *)
(* it is complete, or not at all.                                          *)
(***************************************************************************)
CONSTANTS
  Frames,     \* for each role of the hub, the frames that others send
  Heard(_,_), \* the calls that hand over a frame, in a role
  NoFrame

VARIABLES role, line, calls

Init == line = NoFrame /\ calls = {}

BeginFrame(f) ==
  /\ line = NoFrame
  /\ line' = f
  /\ calls' = {}

(* Some devices do not want it: those of other addresses, for example.     *)
Deliver ==
  /\ line # NoFrame
  /\ line' = NoFrame
  /\ calls' = Heard(role, line)

Lose ==
  /\ line' \in {line, NoFrame}
  /\ calls' = {}

Next == role' = role /\ (Deliver \/ Lose \/ \E f \in Frames[role] : BeginFrame(f))

Spec == Init /\ [][Next]_<<role, line, calls>>
=============================================================================
