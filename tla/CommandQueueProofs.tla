------------------------ MODULE CommandQueueProofs ------------------------
(***************************************************************************)
(* Theorems about DalyHkmsCommandQueue, for any sets of addresses,         *)
(* registers and data: the types, the uniqueness of requests, that the     *)
(* queue implements RequestTable, and that requests keep their order.      *)
(***************************************************************************)
EXTENDS DalyHkmsCommandQueue, CommandQueueLemmas

-----------------------------------------------------------------------------
(***************************************************************************)
(* The invariant                                                           *)
(***************************************************************************)

(* Uniqueness is what makes it inductive: after an update the one request  *)
(* with the key has the new data, and taking it leaves none behind.        *)
QueueInv == TypeOK /\ UniqueKeys

(* The empty queue satisfies the invariant. *)
LEMMA InitInv == Init => QueueInv
<1> SUFFICES ASSUME Init PROVE QueueInv
  OBVIOUS
<1>1. queue \in Queue
  BY DEF Init, EmptyQueue, Queue
<1>2. queue.prio_queue = <<>> /\ queue.non_prio_queue = <<>>
  BY DEF Init, EmptyQueue
<1>3. KeysUnique(queue)
  BY <1>2 DEF KeysUnique, Distinct
<1> QED
  BY <1>1, <1>3 DEF QueueInv, TypeOK, UniqueKeys

(* Every call preserves the invariant. *)
LEMMA NextInv == QueueInv /\ [Next]_queue => QueueInv'
<1> SUFFICES ASSUME QueueInv, [Next]_queue PROVE QueueInv'
  OBVIOUS
<1>1. queue \in Queue /\ KeysUnique(queue)
  BY DEF QueueInv, TypeOK, UniqueKeys
<1>2. ASSUME NEW prioritize \in BOOLEAN, NEW item \in QueueItem,
             AddOrUpdateItem(prioritize, item)
      PROVE  QueueInv'
  BY <1>1, <1>2, AddOrUpdateEffect DEF AddOrUpdateItem, QueueInv, TypeOK, UniqueKeys
<1>3. ASSUME NEW addr \in Address, TryGetToSendFor(addr)
      PROVE  QueueInv'
  BY <1>1, <1>3, TryGetToSendEffect DEF TryGetToSendFor, QueueInv, TypeOK, UniqueKeys
<1>4. ASSUME NEW addr \in Address, PopPendingFor(addr)
      PROVE  QueueInv'
  BY <1>1, <1>4, PopPendingEffect DEF PopPendingFor, QueueInv, TypeOK, UniqueKeys
<1>5. CASE UNCHANGED queue
  BY <1>1, <1>5 DEF QueueInv, TypeOK, UniqueKeys
<1> QED
  BY <1>2, <1>3, <1>4, <1>5 DEF Next

THEOREM InvariantQueue == Spec => []QueueInv
BY InitInv, NextInv, PTL DEF Spec

(* Whatever the components do with the queue, its members keep their       *)
(* types (add_or_update, try_get_to_send, pop_pending).                    *)
THEOREM TypeCorrect == Spec => []TypeOK
<1>1. QueueInv => TypeOK
  BY DEF QueueInv
<1> QED
  BY <1>1, InvariantQueue, PTL

(* Whatever the components do with the queue, no request is in it twice:   *)
(* add_or_update, as a component calls it and as try_get_to_send calls it  *)
(* for the unanswered request, finds the one that is there.                *)
THEOREM KeysStayUnique == Spec => []UniqueKeys
<1>1. QueueInv => UniqueKeys
  BY DEF QueueInv
<1> QED
  BY <1>1, InvariantQueue, PTL

-----------------------------------------------------------------------------
(***************************************************************************)
(* Order                                                                   *)
(***************************************************************************)

(* No request of r that was in q is behind its place in q. *)
NotBack(q, r) ==
  \A i \in 1 .. Len(q), j \in 1 .. Len(r) : KeyOf(q[i]) = KeyOf(r[j]) => j <= i

(* From c to d no request goes back in its queue, or to the other one. *)
Ordered(c, d) ==
  /\ NotBack(c.prio_queue, d.prio_queue)
  /\ NotBack(c.non_prio_queue, d.non_prio_queue)
  /\ KeysIn(c.prio_queue) \cap KeysIn(d.non_prio_queue) = {}
  /\ KeysIn(c.non_prio_queue) \cap KeysIn(d.prio_queue) = {}

(* None of the operations on a queue puts a request back. *)
LEMMA NotBackBasics ==
  ASSUME NEW q \in Seq(QueueItem), Distinct(q)
  PROVE  /\ NotBack(q, q)
         /\ \A item \in QueueItem : NotBack(q, SetData(q, item))
         /\ \A item \in QueueItem : KeyOf(item) \notin KeysIn(q) => NotBack(q, Append(q, item))
         /\ q # <<>> => NotBack(q, Tail(q))
<1>1. /\ Len(q) \in Nat
      /\ \A i, j \in 1 .. Len(q) : KeyOf(q[i]) = KeyOf(q[j]) => i = j
  BY DistinctKeys
<1>2. NotBack(q, q)
  BY <1>1 DEF NotBack
<1>3. ASSUME NEW item \in QueueItem
      PROVE  NotBack(q, SetData(q, item))
  <2>1. /\ Len(SetData(q, item)) = Len(q)
        /\ \A i \in 1 .. Len(q) : KeyOf(SetData(q, item)[i]) = KeyOf(q[i])
    BY SetDataKeepsKeys
  <2> QED
    BY <1>1, <2>1 DEF NotBack
<1>4. ASSUME NEW item \in QueueItem, KeyOf(item) \notin KeysIn(q)
      PROVE  NotBack(q, Append(q, item))
  <2> DEFINE r == Append(q, item)
  <2>1. /\ Len(r) = Len(q) + 1
        /\ \A i \in 1 .. Len(q) : r[i] = q[i]
        /\ r[Len(q) + 1] = item
    OBVIOUS
  <2>2. \A i \in 1 .. Len(q) : KeyOf(q[i]) # KeyOf(item)
    BY <1>4 DEF KeysIn
  <2>3. \A j \in 1 .. Len(q) + 1 : j \in 1 .. Len(q) \/ j = Len(q) + 1
    BY <1>1
  <2> HIDE DEF r
  <2>4. ASSUME NEW i \in 1 .. Len(q), NEW j \in 1 .. Len(r), KeyOf(q[i]) = KeyOf(r[j])
        PROVE  j <= i
    <3>1. j \in 1 .. Len(q)
      BY <2>1, <2>2, <2>3, <2>4
    <3>2. KeyOf(q[i]) = KeyOf(q[j])
      BY <2>1, <2>4, <3>1
    <3>3. i = j
      BY <1>1, <3>1, <3>2
    <3> QED
      BY <1>1, <3>3
  <2> QED
    BY <2>4 DEF NotBack, r
<1>5. ASSUME q # <<>>
      PROVE  NotBack(q, Tail(q))
  <2>1. /\ Len(q) \in Nat \ {0}
        /\ Len(Tail(q)) = Len(q) - 1
        /\ \A j \in 1 .. Len(q) - 1 : Tail(q)[j] = q[j + 1]
    BY <1>5
  <2>2. ASSUME NEW i \in 1 .. Len(q), NEW j \in 1 .. Len(Tail(q)),
               KeyOf(q[i]) = KeyOf(Tail(q)[j])
        PROVE  j <= i
    <3>1. j + 1 \in 1 .. Len(q) /\ Tail(q)[j] = q[j + 1]
      BY <2>1
    <3>2. i = j + 1
      BY <1>1, <2>2, <3>1
    <3> QED
      BY <2>1, <3>2
  <2> QED
    BY <2>2 DEF NotBack
<1> QED
  BY <1>2, <1>3, <1>4, <1>5

(* Asking for a request keeps the order and only adds. *)
LEMMA AddOrUpdateOrdered ==
  ASSUME NEW c \in Queue, KeysUnique(c), NEW prioritize \in BOOLEAN, NEW item \in QueueItem
  PROVE  LET d == AddOrUpdate(c, prioritize, item)
         IN  /\ Ordered(c, d)
             /\ KeysIn(c.prio_queue) \subseteq KeysIn(d.prio_queue)
             /\ KeysIn(c.non_prio_queue) \subseteq KeysIn(d.non_prio_queue)
<1> DEFINE d == AddOrUpdate(c, prioritize, item)
           p == c.prio_queue
           n == c.non_prio_queue
<1>1. /\ p \in Seq(QueueItem) /\ n \in Seq(QueueItem)
      /\ Distinct(p) /\ Distinct(n)
      /\ KeysIn(p) \cap KeysIn(n) = {}
  BY QueueFields, KeysUniqueKeys
<1>2. /\ HasKey(p, item) <=> KeyOf(item) \in KeysIn(p)
      /\ HasKey(n, item) <=> KeyOf(item) \in KeysIn(n)
  BY <1>1, HasKeyKeysIn
<1>3. /\ NotBack(p, p) /\ NotBack(n, n)
      /\ NotBack(p, SetData(p, item)) /\ NotBack(n, SetData(n, item))
      /\ KeyOf(item) \notin KeysIn(p) => NotBack(p, Append(p, item))
      /\ KeyOf(item) \notin KeysIn(n) => NotBack(n, Append(n, item))
  BY <1>1, NotBackBasics
<1>4. /\ KeysIn(SetData(p, item)) = KeysIn(p)
      /\ KeysIn(SetData(n, item)) = KeysIn(n)
      /\ KeysIn(Append(p, item)) = KeysIn(p) \cup {KeyOf(item)}
      /\ KeysIn(Append(n, item)) = KeysIn(n) \cup {KeyOf(item)}
  BY <1>1, SetDataKeysIn, KeysInAppend
<1>5. \A s : /\ [c EXCEPT !.prio_queue = s].prio_queue = s
             /\ [c EXCEPT !.prio_queue = s].non_prio_queue = n
             /\ [c EXCEPT !.non_prio_queue = s].prio_queue = p
             /\ [c EXCEPT !.non_prio_queue = s].non_prio_queue = s
  BY DEF Queue
<1>6. CASE HasKey(p, item)
  <2>1. d.prio_queue = SetData(p, item) /\ d.non_prio_queue = n
    BY <1>5, <1>6 DEF AddOrUpdate
  <2> HIDE DEF d, p, n
  <2> QED
    BY <1>1, <1>3, <1>4, <2>1 DEF Ordered, d, p, n
<1>7. CASE ~HasKey(p, item) /\ HasKey(n, item)
  <2>1. d.prio_queue = p /\ d.non_prio_queue = SetData(n, item)
    BY <1>5, <1>7 DEF AddOrUpdate
  <2> HIDE DEF d, p, n
  <2> QED
    BY <1>1, <1>3, <1>4, <2>1 DEF Ordered, d, p, n
<1>8. CASE ~HasKey(p, item) /\ ~HasKey(n, item) /\ prioritize
  <2>1. d.prio_queue = Append(p, item) /\ d.non_prio_queue = n
    BY <1>5, <1>8 DEF AddOrUpdate
  <2> HIDE DEF d, p, n
  <2> QED
    BY <1>1, <1>2, <1>3, <1>4, <1>8, <2>1 DEF Ordered, d, p, n
<1>9. CASE ~HasKey(p, item) /\ ~HasKey(n, item) /\ ~prioritize
  <2>1. d.prio_queue = p /\ d.non_prio_queue = Append(n, item)
    BY <1>5, <1>9 DEF AddOrUpdate
  <2> HIDE DEF d, p, n
  <2> QED
    BY <1>1, <1>2, <1>3, <1>4, <1>9, <2>1 DEF Ordered, d, p, n
<1> QED
  BY <1>6, <1>7, <1>8, <1>9

(* So does taking the front of a queue. *)
LEMMA TakeFrontOrdered ==
  ASSUME NEW c \in Queue, KeysUnique(c), NEW addr, CanTake(c, addr)
  PROVE  Ordered(c, TakeFront(c))
<1> DEFINE d == TakeFront(c)
           p == c.prio_queue
           n == c.non_prio_queue
<1>1. /\ p \in Seq(QueueItem) /\ n \in Seq(QueueItem)
      /\ Distinct(p) /\ Distinct(n)
      /\ KeysIn(p) \cap KeysIn(n) = {}
  BY QueueFields, KeysUniqueKeys
<1>2. NotBack(p, p) /\ NotBack(n, n)
  BY <1>1, NotBackBasics
<1>3. CASE p # <<>>
  <2>1. d.prio_queue = Tail(p) /\ d.non_prio_queue = n
    BY <1>3 DEF TakeFront, Queue
  <2>2. NotBack(p, Tail(p)) /\ KeysIn(Tail(p)) \subseteq KeysIn(p)
    BY <1>1, <1>3, NotBackBasics, KeysInTail
  <2> HIDE DEF d, p, n
  <2> QED
    BY <1>1, <1>2, <2>1, <2>2 DEF Ordered, d, p, n
<1>4. CASE p = <<>>
  <2>1. n # <<>>
    BY <1>4 DEF CanTake
  <2>2. d.prio_queue = p /\ d.non_prio_queue = Tail(n)
    BY <1>4 DEF TakeFront, Queue
  <2>3. NotBack(n, Tail(n)) /\ KeysIn(Tail(n)) \subseteq KeysIn(n)
    BY <1>1, <2>1, NotBackBasics, KeysInTail
  <2> HIDE DEF d, p, n
  <2> QED
    BY <1>1, <1>2, <2>2, <2>3 DEF Ordered, d, p, n
<1> QED
  BY <1>3, <1>4

(* Steps that only add, and then one that keeps the order, keep it. *)
LEMMA OrderedTrans ==
  ASSUME NEW c \in Queue, NEW r \in Queue, NEW d \in Queue,
         Ordered(c, r), Ordered(r, d),
         KeysIn(c.prio_queue) \subseteq KeysIn(r.prio_queue),
         KeysIn(c.non_prio_queue) \subseteq KeysIn(r.non_prio_queue)
  PROVE  Ordered(c, d)
<1>1. ASSUME NEW q \in Seq(QueueItem), NEW s \in Seq(QueueItem), NEW t \in Seq(QueueItem),
             NotBack(q, s), NotBack(s, t), KeysIn(q) \subseteq KeysIn(s)
      PROVE  NotBack(q, t)
  <2> SUFFICES ASSUME NEW i \in 1 .. Len(q), NEW j \in 1 .. Len(t), KeyOf(q[i]) = KeyOf(t[j])
               PROVE  j <= i
    BY DEF NotBack
  <2>1. PICK m \in 1 .. Len(s) : KeyOf(s[m]) = KeyOf(q[i])
    <3>1. KeyOf(q[i]) \in KeysIn(q)
      BY DEF KeysIn
    <3>2. KeyOf(q[i]) \in KeysIn(s)
      BY <1>1, <3>1
    <3> QED
      BY <3>2 DEF KeysIn
  <2>2. m <= i
    BY <1>1, <2>1 DEF NotBack
  <2>3. j <= m
    BY <1>1, <2>1 DEF NotBack
  <2> QED
    BY <2>2, <2>3
<1>2. /\ c.prio_queue \in Seq(QueueItem) /\ c.non_prio_queue \in Seq(QueueItem)
      /\ r.prio_queue \in Seq(QueueItem) /\ r.non_prio_queue \in Seq(QueueItem)
      /\ d.prio_queue \in Seq(QueueItem) /\ d.non_prio_queue \in Seq(QueueItem)
  BY QueueFields
<1>3. /\ NotBack(c.prio_queue, d.prio_queue)
      /\ NotBack(c.non_prio_queue, d.non_prio_queue)
  BY <1>1, <1>2 DEF Ordered
<1> QED
  BY <1>3 DEF Ordered

(* try_get_to_send: the unanswered request joins, a front leaves. *)
LEMMA TryGetToSendOrdered ==
  ASSUME NEW c \in Queue, KeysUnique(c), NEW addr \in Address
  PROVE  Ordered(c, TryGetToSend(c, addr))
<1> DEFINE r == Requeue(c)
           d == TryGetToSend(c, addr)
<1>1. r \in Queue /\ KeysUnique(r) /\ d \in Queue
  BY RequeueEffect, TryGetToSendEffect
<1>2. /\ Ordered(c, r)
      /\ KeysIn(c.prio_queue) \subseteq KeysIn(r.prio_queue)
      /\ KeysIn(c.non_prio_queue) \subseteq KeysIn(r.non_prio_queue)
  <2>1. CASE c.pending_item = NoItem
    <3>1. r = c
      BY <2>1 DEF Requeue
    <3> QED
      BY <3>1, QueueFields, KeysUniqueKeys, NotBackBasics DEF Ordered
  <2>2. CASE c.pending_item # NoItem
    <3> DEFINE a == AddOrUpdate(c, FALSE, c.pending_item)
    <3>1. c.pending_item \in QueueItem
      BY <2>2, QueueFields
    <3>2. /\ Ordered(c, a) /\ a \in Queue
          /\ KeysIn(c.prio_queue) \subseteq KeysIn(a.prio_queue)
          /\ KeysIn(c.non_prio_queue) \subseteq KeysIn(a.non_prio_queue)
      BY <3>1, AddOrUpdateOrdered, AddOrUpdateEffect
    <3>3. r = [a EXCEPT !.pending_item = NoItem]
      BY <2>2 DEF Requeue
    <3> HIDE DEF a, r
    <3>4. r.prio_queue = a.prio_queue /\ r.non_prio_queue = a.non_prio_queue
      BY <3>2, <3>3 DEF Queue
    <3> QED
      BY <3>2, <3>4 DEF Ordered
  <2> QED
    BY <2>1, <2>2
<1>3. CASE CanTake(r, addr)
  <2>1. d = TakeFront(r)
    BY <1>3 DEF TryGetToSend
  <2> HIDE DEF r, d
  <2>2. Ordered(r, d)
    BY <1>1, <1>3, <2>1, TakeFrontOrdered
  <2> QED
    BY <1>1, <1>2, <2>2, OrderedTrans DEF d
<1>4. CASE ~CanTake(r, addr)
  BY <1>2, <1>4 DEF TryGetToSend
<1> QED
  BY <1>3, <1>4

(* Places are the positions of keys. *)
LEMMA PlaceOf ==
  ASSUME NEW q \in Seq(QueueItem), NEW k \in KeysIn(q)
  PROVE  Place(q, k) \in 1 .. Len(q) /\ KeyOf(q[Place(q, k)]) = k
<1>1. \E i \in 1 .. Len(q) : KeyOf(q[i]) = k
  BY DEF KeysIn
<1>2. Place(q, k) = CHOOSE i \in 1 .. Len(q) : KeyOf(q[i]) = k
  BY DEF Place
<1> QED
  BY <1>1, <1>2, Zenon

LEMMA PlaceNotBack ==
  ASSUME NEW q \in Seq(QueueItem), NEW r \in Seq(QueueItem), NotBack(q, r),
         NEW k \in KeysIn(q), k \in KeysIn(r)
  PROVE  Place(r, k) <= Place(q, k)
BY PlaceOf DEF NotBack

(* Requests of one priority are taken in the order in which they were      *)
(* asked for: no update and no requeue puts a request behind a later one,  *)
(* or into the other queue (add_or_update, try_get_to_send).               *)
THEOREM OrderKept == Spec => NoOvertaking
<1> DEFINE InOrder ==
      /\ \A k \in KeysIn(queue.prio_queue) :
           /\ k \in KeysIn(queue'.prio_queue) =>
                Place(queue'.prio_queue, k) <= Place(queue.prio_queue, k)
           /\ k \notin KeysIn(queue'.non_prio_queue)
      /\ \A k \in KeysIn(queue.non_prio_queue) :
           /\ k \in KeysIn(queue'.non_prio_queue) =>
                Place(queue'.non_prio_queue, k) <= Place(queue.non_prio_queue, k)
           /\ k \notin KeysIn(queue'.prio_queue)
<1>1. QueueInv /\ QueueInv' /\ [Next]_queue => [InOrder]_queue
  <2> SUFFICES ASSUME QueueInv, QueueInv', Next
               PROVE  InOrder
    OBVIOUS
  <2>1. queue \in Queue /\ KeysUnique(queue) /\ queue' \in Queue
    BY DEF QueueInv, TypeOK, UniqueKeys
  <2>2. Ordered(queue, queue')
    <3>1. ASSUME NEW prioritize \in BOOLEAN, NEW item \in QueueItem,
                 AddOrUpdateItem(prioritize, item)
          PROVE  Ordered(queue, queue')
      BY <2>1, <3>1, AddOrUpdateOrdered DEF AddOrUpdateItem
    <3>2. ASSUME NEW addr \in Address, TryGetToSendFor(addr)
          PROVE  Ordered(queue, queue')
      BY <2>1, <3>2, TryGetToSendOrdered DEF TryGetToSendFor
    <3>3. ASSUME NEW addr \in Address, PopPendingFor(addr)
          PROVE  Ordered(queue, queue')
      <4>1. /\ queue'.prio_queue = queue.prio_queue
            /\ queue'.non_prio_queue = queue.non_prio_queue
        BY <2>1, <3>3 DEF PopPendingFor, PopPending, Queue
      <4> QED
        BY <2>1, <4>1, QueueFields, KeysUniqueKeys, NotBackBasics DEF Ordered
    <3> QED
      BY <3>1, <3>2, <3>3 DEF Next
  <2>3. /\ queue.prio_queue \in Seq(QueueItem) /\ queue.non_prio_queue \in Seq(QueueItem)
        /\ queue'.prio_queue \in Seq(QueueItem) /\ queue'.non_prio_queue \in Seq(QueueItem)
    BY <2>1, QueueFields
  <2> QED
    BY <2>2, <2>3, PlaceNotBack DEF Ordered
<1> QED
  BY <1>1, InvariantQueue, PTL DEF Spec, NoOvertaking

-----------------------------------------------------------------------------
(***************************************************************************)
(* Refinement                                                              *)
(***************************************************************************)

(* The key of a request is a key of the table. *)
LEMMA KeyOfType ==
  ASSUME NEW item \in QueueItem
  PROVE  KeyOf(item) \in Address \X Cmd \X Register
BY DEF KeyOf, QueueItem

(* The table only knows keys. *)
LEMMA QueuedKeysType ==
  ASSUME NEW c \in Queue
  PROVE  QueuedKeys(c) \cup PendingKeys(c) \subseteq Address \X Cmd \X Register
BY QueueFields, KeysInType, KeyOfType DEF QueuedKeys, PendingKeys

(* The empty queue is the empty table. *)
LEMMA InitTable == Init => Table!Init
BY DEF Init, EmptyQueue, Table!Init, QueuedKeys, PendingKeys, KeysIn

(* Every call is a step of the table or a stutter. *)
LEMMA NextTable == QueueInv /\ [Next]_queue => [Table!Next]_(Table!vars)
<1> SUFFICES ASSUME QueueInv, [Next]_queue PROVE [Table!Next]_(Table!vars)
  OBVIOUS
<1>1. queue \in Queue /\ KeysUnique(queue)
  BY DEF QueueInv, TypeOK, UniqueKeys
(* A component asks. *)
<1>2. ASSUME NEW prioritize \in BOOLEAN, NEW item \in QueueItem,
             AddOrUpdateItem(prioritize, item)
      PROVE  Table!Next
  <2>1. /\ QueuedKeys(queue') = QueuedKeys(queue) \cup {KeyOf(item)}
        /\ PendingKeys(queue') = PendingKeys(queue)
    BY <1>1, <1>2, AddOrUpdateEffect DEF AddOrUpdateItem, PendingKeys
  <2>2. Table!Ask(KeyOf(item))
    BY <2>1 DEF Table!Ask
  <2> QED
    BY <2>2, KeyOfType DEF Table!Next
(* A component that may send takes a request, or finds another's in front. *)
<1>3. ASSUME NEW addr \in Address, TryGetToSendFor(addr)
      PROVE  Table!Next
  <2> DEFINE k == KeyOf(queue'.pending_item)
  <2>1. CASE CanTake(Requeue(queue), addr)
    <3>1. /\ k \in QueuedKeys(queue) \cup PendingKeys(queue)
          /\ PendingKeys(queue') = {k}
          /\ QueuedKeys(queue') = (QueuedKeys(queue) \cup PendingKeys(queue)) \ {k}
      BY <1>1, <1>3, <2>1, TryGetToSendEffect DEF TryGetToSendFor
    <3> HIDE DEF k
    <3>2. Table!Send(k)
      BY <3>1 DEF Table!Send
    <3>3. k \in Address \X Cmd \X Register
      BY <1>1, <3>1, QueuedKeysType
    <3> QED
      BY <3>2, <3>3 DEF Table!Next
  <2>2. CASE ~CanTake(Requeue(queue), addr)
    <3>1. /\ PendingKeys(queue') = {}
          /\ QueuedKeys(queue') = QueuedKeys(queue) \cup PendingKeys(queue)
      BY <1>1, <1>3, <2>2, TryGetToSendEffect DEF TryGetToSendFor
    <3> QED
      BY <3>1 DEF Table!GiveUp, Table!Next
  <2> QED
    BY <2>1, <2>2
(* A component has its answer. *)
<1>4. ASSUME NEW addr \in Address, PopPendingFor(addr)
      PROVE  Table!Next
  <2>1. /\ QueuedKeys(queue') = QueuedKeys(queue)
        /\ PendingKeys(queue') = {}
    BY <1>1, <1>4, PopPendingEffect DEF PopPendingFor
  <2> QED
    BY <2>1 DEF Table!Answered, Table!Next
<1>5. CASE UNCHANGED queue
  BY <1>5 DEF Table!vars
<1> QED
  BY <1>2, <1>3, <1>4, <1>5 DEF Next

(* The command queue is a table of requests: none is lost or made up, at   *)
(* most one is with the device, and a request leaves only when it is       *)
(* answered (add_or_update, try_get_to_send, pop_pending).                 *)
THEOREM QueueImplementsTable == Spec => ImplementsTable
<1>1. Spec => Table!Spec
  BY InitTable, NextTable, InvariantQueue, PTL DEF Spec, Table!Spec
<1> QED
  BY <1>1 DEF ImplementsTable
=============================================================================
