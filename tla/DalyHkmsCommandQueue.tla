------------------------ MODULE DalyHkmsCommandQueue ------------------------
(***************************************************************************)
(* DalyHkmsCommandQueue as a state machine.  Its callers are the components*)
(* of one Modbus: timers and users add requests, loop() takes one to send, *)
(* on_modbus_data() takes the pending one.  Here they call in any order,   *)
(* so that what holds does not depend on how they are scheduled; DalyBus   *)
(* has the callers.                                                        *)
(***************************************************************************)
EXTENDS CommandQueue

VARIABLE queue

(* get_for_modbus creates the queue empty; all callers share it. *)
Init == queue = EmptyQueue

AddOrUpdateItem(prioritize, item) == queue' = AddOrUpdate(queue, prioritize, item)

TryGetToSendFor(addr) == queue' = TryGetToSend(queue, addr)

PopPendingFor(addr) ==
  /\ CanPop(queue, addr)
  /\ queue' = PopPending(queue, addr)

Next ==
  \/ \E prioritize \in BOOLEAN, item \in QueueItem : AddOrUpdateItem(prioritize, item)
  \/ \E addr \in Address : TryGetToSendFor(addr)
  \/ \E addr \in Address : PopPendingFor(addr)

Spec == Init /\ [][Next]_queue

-----------------------------------------------------------------------------

(* Every member of the queue has its type. *)
TypeOK == queue \in Queue

(* However often components ask and requests are retried, no request is    *)
(* queued twice, not even once in each of the two queues: this is what     *)
(* bounds the two deques (add_or_update, also as called by try_get_to_send *)
(* for the pending item).                                                  *)
UniqueKeys == KeysUnique(queue)

(* The place of a request in a queue, 0 when it is not there. *)
Place(q, k) ==
  IF k \in KeysIn(q) THEN CHOOSE i \in 1 .. Len(q) : KeyOf(q[i]) = k ELSE 0

(* Nothing overtakes within a priority: a request that stays in its queue  *)
(* never moves back in it, neither by an update of its data nor by the     *)
(* requeue of an unanswered one; and it never changes its queue.           *)
NoOvertaking ==
  [][/\ \A k \in KeysIn(queue.prio_queue) :
          /\ k \in KeysIn(queue'.prio_queue) =>
               Place(queue'.prio_queue, k) <= Place(queue.prio_queue, k)
          /\ k \notin KeysIn(queue'.non_prio_queue)
     /\ \A k \in KeysIn(queue.non_prio_queue) :
          /\ k \in KeysIn(queue'.non_prio_queue) =>
               Place(queue'.non_prio_queue, k) <= Place(queue.non_prio_queue, k)
          /\ k \notin KeysIn(queue'.prio_queue)]_queue

(* The queue is the request table: no sequence of calls loses a request    *)
(* that was asked for, or hands out one that was not, and only pop_pending *)
(* makes a request leave.                                                  *)
Table ==
  INSTANCE RequestTable WITH
    Key <- Address \X Cmd \X Register,
    waiting <- QueuedKeys(queue),
    sent <- PendingKeys(queue)

ImplementsTable == Table!Spec
=============================================================================
