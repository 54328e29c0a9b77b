---------------------------- MODULE RequestTable ----------------------------
(***************************************************************************)
(* What the command queue promises, without its queues: a set of requests  *)
(* that wait, at most one request that is with the device, and a request   *)
(* that leaves only when it has been answered.                             *)
(***************************************************************************)
CONSTANT Key  \* the requests, by what identifies them

VARIABLES
  waiting,  \* the requests that have been asked for and wait to be sent
  sent      \* the request that has been sent, as a set: {} or {k}

vars == <<waiting, sent>>

Init == waiting = {} /\ sent = {}

(* Asking again for what waits changes nothing; asking again for what has  *)
(* been sent makes it wait a second time.                                  *)
Ask(k) ==
  /\ waiting' = waiting \cup {k}
  /\ UNCHANGED sent

(* Sending is allowed while an earlier request is unanswered: that one     *)
(* waits again, and may be the one that is chosen.                         *)
Send(k) ==
  /\ k \in waiting \cup sent
  /\ sent' = {k}
  /\ waiting' = (waiting \cup sent) \ {k}

GiveUp ==
  /\ waiting' = waiting \cup sent
  /\ sent' = {}

Answered ==
  /\ sent' = {}
  /\ UNCHANGED waiting

Next ==
  \/ \E k \in Key : Ask(k) \/ Send(k)
  \/ GiveUp
  \/ Answered

Spec == Init /\ [][Next]_vars
=============================================================================
