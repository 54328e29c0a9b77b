---------------------------- MODULE CommandQueue ----------------------------
(***************************************************************************)
(* The request queue that all daly_hkms_bms components on one Modbus share *)
(* (daly_hkms_bms_queue.h, daly_hkms_bms_queue.cpp), as operators on the   *)
(* value of the queue object.  A queue is a record of its three members:   *)
(*                                                                         *)
(*   prio_queue      requests sent before all others (writes, fast reads)  *)
(*   non_prio_queue  the other requests                                    *)
(*   pending_item    the request handed to the Modbus hub and not yet      *)
(*                   answered, or NoItem                                   *)
(*                                                                         *)
(* DalyHkmsCommandQueue is the queue as a state machine of its own; DalyBus*)
(* uses the same operators inside the component that calls them.           *)
(***************************************************************************)
EXTENDS DalyRegisters, Sequences

CONSTANTS
  Address,   \* the BMS addresses ("board numbers") of the components
  Register,  \* the register addresses requests are about
  Data,      \* the values of QueueItem.data: a register count or a value
  NoItem     \* pending_item_ without a value

QueueItem ==
  [daly_address : Address, cmd : Cmd, register_address : Register, data : Data]

ASSUME NoItemAssumption == NoItem \notin QueueItem

Queue ==
  [prio_queue     : Seq(QueueItem),
   non_prio_queue : Seq(QueueItem),
   pending_item   : QueueItem \cup {NoItem}]

EmptyQueue ==
  [prio_queue |-> <<>>, non_prio_queue |-> <<>>, pending_item |-> NoItem]

-----------------------------------------------------------------------------
(***************************************************************************)
(* add_or_update                                                           *)
(***************************************************************************)

(* The identity of a request: everything but its data. *)
KeyOf(item) == <<item.daly_address, item.cmd, item.register_address>>

KeyEquals(x, y) ==
  /\ x.daly_address = y.daly_address
  /\ x.cmd = y.cmd
  /\ x.register_address = y.register_address

HasKey(q, item) == \E i \in 1 .. Len(q) : KeyEquals(q[i], item)

(* std::find_if stops at the first match, and only that one gets new data. *)
FirstMatch(q, i, item) ==
  /\ KeyEquals(q[i], item)
  /\ \A j \in 1 .. Len(q) : j < i => ~KeyEquals(q[j], item)

(* Faulty variants of SetData: the data is added instead of replaced; the  *)
(* updated request goes to the back.                                       *)
SetDataAdds(q, item) ==
  [i \in 1 .. Len(q) |->
     IF FirstMatch(q, i, item) THEN [q[i] EXCEPT !.data = @ + item.data] ELSE q[i]]

SetDataMovesBack(q, item) ==
  Append(SelectSeq(q, LAMBDA x : ~KeyEquals(x, item)), item)

SetData(q, item) ==
  [i \in 1 .. Len(q) |->
     IF FirstMatch(q, i, item) THEN [q[i] EXCEPT !.data = item.data] ELSE q[i]]

(* Faulty variants of AddOrUpdate: only the queue that the request belongs *)
(* to is searched; prioritized requests are put in front.                  *)
AddOrUpdateSearchesOne(c, prioritize, item) ==
  CASE prioritize /\ HasKey(c.prio_queue, item) ->
         [c EXCEPT !.prio_queue = SetData(c.prio_queue, item)]
    [] ~prioritize /\ HasKey(c.non_prio_queue, item) ->
         [c EXCEPT !.non_prio_queue = SetData(c.non_prio_queue, item)]
    [] OTHER ->
         IF prioritize
         THEN [c EXCEPT !.prio_queue = Append(c.prio_queue, item)]
         ELSE [c EXCEPT !.non_prio_queue = Append(c.non_prio_queue, item)]

AddOrUpdateInFront(c, prioritize, item) ==
  CASE HasKey(c.prio_queue, item) ->
         [c EXCEPT !.prio_queue = SetData(c.prio_queue, item)]
    [] ~HasKey(c.prio_queue, item) /\ HasKey(c.non_prio_queue, item) ->
         [c EXCEPT !.non_prio_queue = SetData(c.non_prio_queue, item)]
    [] OTHER ->
         IF prioritize
         THEN [c EXCEPT !.prio_queue = <<item>> \o c.prio_queue]
         ELSE [c EXCEPT !.non_prio_queue = Append(c.non_prio_queue, item)]

AddOrUpdate(c, prioritize, item) ==
  CASE HasKey(c.prio_queue, item) ->
         [c EXCEPT !.prio_queue = SetData(c.prio_queue, item)]
    [] ~HasKey(c.prio_queue, item) /\ HasKey(c.non_prio_queue, item) ->
         [c EXCEPT !.non_prio_queue = SetData(c.non_prio_queue, item)]
    [] OTHER ->
         IF prioritize
         THEN [c EXCEPT !.prio_queue = Append(c.prio_queue, item)]
         ELSE [c EXCEPT !.non_prio_queue = Append(c.non_prio_queue, item)]

-----------------------------------------------------------------------------
(***************************************************************************)
(* try_get_to_send, in its two halves, and pop_pending                     *)
(***************************************************************************)

(* Faulty variants of Requeue: the request is forgotten, or keeps priority.*)
RequeueForgets(c) == [c EXCEPT !.pending_item = NoItem]

RequeueWithPriority(c) ==
  IF c.pending_item = NoItem
  THEN c
  ELSE [AddOrUpdate(c, TRUE, c.pending_item) EXCEPT !.pending_item = NoItem]

(* A request still pending when somebody may send was not answered: it goes*)
(* back into the queue, without priority.                                  *)
Requeue(c) ==
  IF c.pending_item = NoItem
  THEN c
  ELSE [AddOrUpdate(c, FALSE, c.pending_item) EXCEPT !.pending_item = NoItem]

(* Only the front of the non-empty queue of the higher priority is looked  *)
(* at, and only the component it belongs to may take it.                   *)
CanTake(c, addr) ==
  IF c.prio_queue # <<>>
  THEN Head(c.prio_queue).daly_address = addr
  ELSE c.non_prio_queue # <<>> /\ Head(c.non_prio_queue).daly_address = addr

TakeFront(c) ==
  IF c.prio_queue # <<>>
  THEN [c EXCEPT !.prio_queue = Tail(c.prio_queue),
                 !.pending_item = Head(c.prio_queue)]
  ELSE [c EXCEPT !.non_prio_queue = Tail(c.non_prio_queue),
                 !.pending_item = Head(c.non_prio_queue)]

(* The queue after a call of try_get_to_send; the call returns an item,    *)
(* which is then the pending one, exactly when CanTake(Requeue(c), addr).  *)
TryGetToSend(c, addr) ==
  IF CanTake(Requeue(c), addr) THEN TakeFront(Requeue(c)) ELSE Requeue(c)

(* Faulty variant of CanPop: any response is taken for the answer. *)
CanPopAny(c, addr) == c.pending_item # NoItem

(* pop_pending returns an item exactly when the pending one is addr's. *)
CanPop(c, addr) ==
  c.pending_item # NoItem /\ c.pending_item.daly_address = addr

PopPending(c, addr) ==
  IF CanPop(c, addr) THEN [c EXCEPT !.pending_item = NoItem] ELSE c

-----------------------------------------------------------------------------
(***************************************************************************)
(* What the properties speak about.                                        *)
(***************************************************************************)

KeysIn(q) == {KeyOf(q[i]) : i \in 1 .. Len(q)}

QueuedKeys(c) == KeysIn(c.prio_queue) \cup KeysIn(c.non_prio_queue)

PendingKeys(c) == IF c.pending_item = NoItem THEN {} ELSE {KeyOf(c.pending_item)}

(* No two requests of a queue have the same key. *)
Distinct(q) ==
  \A i, j \in 1 .. Len(q) : KeyEquals(q[i], q[j]) => i = j

(* No two requests have the same key, over both queues. *)
KeysUnique(c) ==
  /\ Distinct(c.prio_queue)
  /\ Distinct(c.non_prio_queue)
  /\ \A i \in 1 .. Len(c.prio_queue) : ~HasKey(c.non_prio_queue, c.prio_queue[i])
=============================================================================
