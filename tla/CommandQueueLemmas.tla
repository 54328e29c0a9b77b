------------------------ MODULE CommandQueueLemmas ------------------------
(***************************************************************************)
(* What the operations of CommandQueue do, for any sets of addresses,      *)
(* registers and data.  The lemmas follow the operators from SetData up to *)
(* TryGetToSend; the theorems about the queue alone and about the bus rest *)
(* on them.                                                                *)
(***************************************************************************)
EXTENDS CommandQueue, TLAPS

-----------------------------------------------------------------------------
(***************************************************************************)
(* Sequences of requests                                                   *)
(***************************************************************************)

(* The types of the fields that make a key. *)
LEMMA KeyFields ==
  ASSUME NEW item \in QueueItem
  PROVE  /\ item.daly_address \in Address
         /\ item.cmd \in Cmd
         /\ item.register_address \in Register
         /\ item.data \in Data
BY DEF QueueItem

(* key_equals compares keys. *)
LEMMA KeyEqualsKeyOf ==
  ASSUME NEW x \in QueueItem, NEW y \in QueueItem
  PROVE  KeyEquals(x, y) <=> KeyOf(x) = KeyOf(y)
BY DEF KeyEquals, KeyOf, QueueItem

(* An update replaces data and nothing else. *)
LEMMA SetDataKeepsKeys ==
  ASSUME NEW q \in Seq(QueueItem), NEW item \in QueueItem
  PROVE  /\ SetData(q, item) \in Seq(QueueItem)
         /\ Len(SetData(q, item)) = Len(q)
         /\ \A i \in 1 .. Len(q) : KeyOf(SetData(q, item)[i]) = KeyOf(q[i])
<1> DEFINE s == SetData(q, item)
<1>1. ASSUME NEW i \in 1 .. Len(q)
      PROVE  s[i] \in QueueItem /\ KeyOf(s[i]) = KeyOf(q[i])
  <2>1. q[i] \in QueueItem
    OBVIOUS
  <2>2. s[i] = IF FirstMatch(q, i, item) THEN [q[i] EXCEPT !.data = item.data] ELSE q[i]
    BY DEF SetData
  <2>3. [q[i] EXCEPT !.data = item.data] \in QueueItem
    BY <2>1 DEF QueueItem
  <2>4. KeyOf([q[i] EXCEPT !.data = item.data]) = KeyOf(q[i])
    BY <2>1 DEF QueueItem, KeyOf
  <2> QED
    BY <2>1, <2>2, <2>3, <2>4
<1>2. s \in Seq(QueueItem) /\ Len(s) = Len(q)
  <2>1. Len(q) \in Nat
    OBVIOUS
  <2>2. s = [i \in 1 .. Len(q) |-> s[i]]
    BY DEF SetData
  <2> QED
    BY <1>1, <2>1, <2>2
<1> QED
  BY <1>1, <1>2

(* ... so an update leaves the set of keys alone. *)
LEMMA SetDataKeysIn ==
  ASSUME NEW q \in Seq(QueueItem), NEW item \in QueueItem
  PROVE  KeysIn(SetData(q, item)) = KeysIn(q)
BY SetDataKeepsKeys DEF KeysIn

(* What push_back does to the keys. *)
LEMMA KeysInAppend ==
  ASSUME NEW q \in Seq(QueueItem), NEW item \in QueueItem
  PROVE  KeysIn(Append(q, item)) = KeysIn(q) \cup {KeyOf(item)}
<1>1. /\ Len(Append(q, item)) = Len(q) + 1
      /\ \A i \in 1 .. Len(q) : Append(q, item)[i] = q[i]
      /\ Append(q, item)[Len(q) + 1] = item
  OBVIOUS
<1> QED
  BY <1>1 DEF KeysIn

(* The keys of a queue are those of its front and of the rest. *)
LEMMA KeysInTail ==
  ASSUME NEW q \in Seq(QueueItem), q # <<>>
  PROVE  KeysIn(q) = KeysIn(Tail(q)) \cup {KeyOf(Head(q))}
<1>1. /\ Len(q) \in Nat \ {0}
      /\ Len(Tail(q)) = Len(q) - 1
      /\ \A i \in 1 .. Len(q) - 1 : Tail(q)[i] = q[i + 1]
      /\ Head(q) = q[1]
  OBVIOUS
<1>2. \A i \in 2 .. Len(q) : i - 1 \in 1 .. Len(q) - 1 /\ q[i] = Tail(q)[i - 1]
  BY <1>1
<1>3. KeysIn(Tail(q)) = {KeyOf(q[i]) : i \in 2 .. Len(q)}
  BY <1>1, <1>2 DEF KeysIn
<1>4. 1 .. Len(q) = {1} \cup 2 .. Len(q)
  BY <1>1
<1>5. KeysIn(q) \subseteq KeysIn(Tail(q)) \cup {KeyOf(q[1])}
  BY <1>3, <1>4 DEF KeysIn
<1>6. KeysIn(Tail(q)) \subseteq KeysIn(q)
  BY <1>3, <1>4 DEF KeysIn
<1>7. KeyOf(q[1]) \in KeysIn(q)
  BY <1>1 DEF KeysIn
<1> QED
  BY <1>1, <1>5, <1>6, <1>7

(* Searching a queue is asking whether it has the key. *)
LEMMA HasKeyKeysIn ==
  ASSUME NEW q \in Seq(QueueItem), NEW item \in QueueItem
  PROVE  HasKey(q, item) <=> KeyOf(item) \in KeysIn(q)
BY KeyEqualsKeyOf DEF HasKey, KeysIn

(* The keys of requests are keys. *)
LEMMA KeysInType ==
  ASSUME NEW q \in Seq(QueueItem)
  PROVE  KeysIn(q) \subseteq Address \X Cmd \X Register
<1>1. \A i \in 1 .. Len(q) : q[i] \in QueueItem
  OBVIOUS
<1>2. \A item \in QueueItem : KeyOf(item) \in Address \X Cmd \X Register
  BY DEF KeyOf, QueueItem
<1> QED
  BY <1>1, <1>2 DEF KeysIn

(* Distinct in terms of keys. *)
LEMMA DistinctKeys ==
  ASSUME NEW q \in Seq(QueueItem)
  PROVE  Distinct(q) <=> \A i, j \in 1 .. Len(q) : KeyOf(q[i]) = KeyOf(q[j]) => i = j
<1>1. \A i \in 1 .. Len(q) : q[i] \in QueueItem
  OBVIOUS
<1> QED
  BY <1>1, KeyEqualsKeyOf DEF Distinct

(* An update keeps keys distinct. *)
LEMMA DistinctSetData ==
  ASSUME NEW q \in Seq(QueueItem), NEW item \in QueueItem, Distinct(q)
  PROVE  Distinct(SetData(q, item))
BY SetDataKeepsKeys, DistinctKeys

(* So does appending a request with a new key. *)
LEMMA DistinctAppend ==
  ASSUME NEW q \in Seq(QueueItem), NEW item \in QueueItem,
         Distinct(q), KeyOf(item) \notin KeysIn(q)
  PROVE  Distinct(Append(q, item))
<1>1. /\ Append(q, item) \in Seq(QueueItem)
      /\ Len(q) \in Nat
      /\ Len(Append(q, item)) = Len(q) + 1
      /\ \A i \in 1 .. Len(q) : Append(q, item)[i] = q[i]
      /\ Append(q, item)[Len(q) + 1] = item
  OBVIOUS
<1>2. \A i \in 1 .. Len(q) : KeyOf(q[i]) # KeyOf(item)
  BY DEF KeysIn
<1>3. \A i \in 1 .. Len(q) + 1 : i \in 1 .. Len(q) \/ i = Len(q) + 1
  BY <1>1
<1>4. \A i, j \in 1 .. Len(q) : KeyOf(q[i]) = KeyOf(q[j]) => i = j
  BY DistinctKeys
<1>5. \A i, j \in 1 .. Len(q) + 1 :
        KeyOf(Append(q, item)[i]) = KeyOf(Append(q, item)[j]) => i = j
  BY <1>1, <1>2, <1>3, <1>4
<1> QED
  BY <1>1, <1>5, DistinctKeys

(* And so does removing the front. *)
LEMMA DistinctTail ==
  ASSUME NEW q \in Seq(QueueItem), q # <<>>, Distinct(q)
  PROVE  /\ Distinct(Tail(q))
         /\ KeyOf(Head(q)) \notin KeysIn(Tail(q))
<1>1. /\ Tail(q) \in Seq(QueueItem)
      /\ Len(q) \in Nat \ {0}
      /\ Len(Tail(q)) = Len(q) - 1
      /\ \A i \in 1 .. Len(q) - 1 : Tail(q)[i] = q[i + 1]
      /\ Head(q) = q[1]
  OBVIOUS
<1>2. \A i, j \in 1 .. Len(q) : KeyOf(q[i]) = KeyOf(q[j]) => i = j
  BY DistinctKeys
<1>3. \A i \in 1 .. Len(Tail(q)) : i + 1 \in 1 .. Len(q) /\ i + 1 # 1
  BY <1>1
<1>4. \A i, j \in 1 .. Len(Tail(q)) : KeyOf(Tail(q)[i]) = KeyOf(Tail(q)[j]) => i = j
  BY <1>1, <1>2, <1>3
<1>5. Distinct(Tail(q))
  BY <1>1, <1>4, DistinctKeys
<1>6. KeyOf(Head(q)) \notin KeysIn(Tail(q))
  BY <1>1, <1>2, <1>3 DEF KeysIn
<1> QED
  BY <1>5, <1>6

-----------------------------------------------------------------------------
(***************************************************************************)
(* The operations on the queue                                             *)
(***************************************************************************)

(* The types of the three members. *)
LEMMA QueueFields ==
  ASSUME NEW c \in Queue
  PROVE  /\ c.prio_queue \in Seq(QueueItem)
         /\ c.non_prio_queue \in Seq(QueueItem)
         /\ c.pending_item \in QueueItem \cup {NoItem}
BY DEF Queue

(* KeysUnique in terms of keys: the two queues have none in common. *)
LEMMA KeysUniqueKeys ==
  ASSUME NEW c \in Queue
  PROVE  KeysUnique(c) <=>
           /\ Distinct(c.prio_queue)
           /\ Distinct(c.non_prio_queue)
           /\ KeysIn(c.prio_queue) \cap KeysIn(c.non_prio_queue) = {}
<1>1. \A i \in 1 .. Len(c.prio_queue) :
        /\ c.prio_queue[i] \in QueueItem
        /\ HasKey(c.non_prio_queue, c.prio_queue[i])
             <=> KeyOf(c.prio_queue[i]) \in KeysIn(c.non_prio_queue)
  BY QueueFields, HasKeyKeysIn
<1>2. (\A i \in 1 .. Len(c.prio_queue) : ~HasKey(c.non_prio_queue, c.prio_queue[i]))
        <=> KeysIn(c.prio_queue) \cap KeysIn(c.non_prio_queue) = {}
  BY <1>1 DEF KeysIn
<1> QED
  BY <1>2 DEF KeysUnique

(* Replacing one of the two queues. *)
LEMMA WithPrioQueue ==
  ASSUME NEW c \in Queue, NEW s \in Seq(QueueItem), KeysUnique(c),
         Distinct(s), KeysIn(s) \cap KeysIn(c.non_prio_queue) = {}
  PROVE  LET d == [c EXCEPT !.prio_queue = s]
         IN  /\ d \in Queue
             /\ KeysUnique(d)
             /\ d.pending_item = c.pending_item
             /\ QueuedKeys(d) = KeysIn(s) \cup KeysIn(c.non_prio_queue)
<1> DEFINE d == [c EXCEPT !.prio_queue = s]
<1>1. /\ d \in Queue
      /\ d.prio_queue = s
      /\ d.non_prio_queue = c.non_prio_queue
      /\ d.pending_item = c.pending_item
  BY DEF Queue
<1>2. Distinct(c.non_prio_queue)
  BY KeysUniqueKeys
<1> HIDE DEF d
<1>3. KeysUnique(d)
  BY <1>1, <1>2, KeysUniqueKeys
<1>4. QueuedKeys(d) = KeysIn(s) \cup KeysIn(c.non_prio_queue)
  BY <1>1 DEF QueuedKeys
<1> QED
  BY <1>1, <1>3, <1>4 DEF d

(* The same for the other queue. *)
LEMMA WithNonPrioQueue ==
  ASSUME NEW c \in Queue, NEW s \in Seq(QueueItem), KeysUnique(c),
         Distinct(s), KeysIn(c.prio_queue) \cap KeysIn(s) = {}
  PROVE  LET d == [c EXCEPT !.non_prio_queue = s]
         IN  /\ d \in Queue
             /\ KeysUnique(d)
             /\ d.pending_item = c.pending_item
             /\ QueuedKeys(d) = KeysIn(c.prio_queue) \cup KeysIn(s)
<1> DEFINE d == [c EXCEPT !.non_prio_queue = s]
<1>1. /\ d \in Queue
      /\ d.prio_queue = c.prio_queue
      /\ d.non_prio_queue = s
      /\ d.pending_item = c.pending_item
  BY DEF Queue
<1>2. Distinct(c.prio_queue)
  BY KeysUniqueKeys
<1> HIDE DEF d
<1>3. KeysUnique(d)
  BY <1>1, <1>2, KeysUniqueKeys
<1>4. QueuedKeys(d) = KeysIn(c.prio_queue) \cup KeysIn(s)
  BY <1>1 DEF QueuedKeys
<1> QED
  BY <1>1, <1>3, <1>4 DEF d

(* add_or_update adds the key, once, and leaves the pending request. *)
LEMMA AddOrUpdateEffect ==
  ASSUME NEW c \in Queue, NEW prioritize \in BOOLEAN, NEW item \in QueueItem,
         KeysUnique(c)
  PROVE  /\ AddOrUpdate(c, prioritize, item) \in Queue
         /\ KeysUnique(AddOrUpdate(c, prioritize, item))
         /\ AddOrUpdate(c, prioritize, item).pending_item = c.pending_item
         /\ QueuedKeys(AddOrUpdate(c, prioritize, item)) = QueuedKeys(c) \cup {KeyOf(item)}
<1>1. /\ c.prio_queue \in Seq(QueueItem) /\ c.non_prio_queue \in Seq(QueueItem)
      /\ Distinct(c.prio_queue) /\ Distinct(c.non_prio_queue)
      /\ KeysIn(c.prio_queue) \cap KeysIn(c.non_prio_queue) = {}
  BY QueueFields, KeysUniqueKeys
<1>2. /\ HasKey(c.prio_queue, item) <=> KeyOf(item) \in KeysIn(c.prio_queue)
      /\ HasKey(c.non_prio_queue, item) <=> KeyOf(item) \in KeysIn(c.non_prio_queue)
  BY <1>1, HasKeyKeysIn
<1>3. CASE HasKey(c.prio_queue, item)
  <2>1. AddOrUpdate(c, prioritize, item) = [c EXCEPT !.prio_queue = SetData(c.prio_queue, item)]
    BY <1>3 DEF AddOrUpdate
  <2>2. /\ SetData(c.prio_queue, item) \in Seq(QueueItem)
        /\ Distinct(SetData(c.prio_queue, item))
        /\ KeysIn(SetData(c.prio_queue, item)) = KeysIn(c.prio_queue)
    BY <1>1, SetDataKeepsKeys, DistinctSetData, SetDataKeysIn
  <2> QED
    BY <1>1, <1>2, <1>3, <2>1, <2>2, WithPrioQueue DEF QueuedKeys
<1>4. CASE ~HasKey(c.prio_queue, item) /\ HasKey(c.non_prio_queue, item)
  <2>1. AddOrUpdate(c, prioritize, item) = [c EXCEPT !.non_prio_queue = SetData(c.non_prio_queue, item)]
    BY <1>4 DEF AddOrUpdate
  <2>2. /\ SetData(c.non_prio_queue, item) \in Seq(QueueItem)
        /\ Distinct(SetData(c.non_prio_queue, item))
        /\ KeysIn(SetData(c.non_prio_queue, item)) = KeysIn(c.non_prio_queue)
    BY <1>1, SetDataKeepsKeys, DistinctSetData, SetDataKeysIn
  <2> QED
    BY <1>1, <1>2, <1>4, <2>1, <2>2, WithNonPrioQueue DEF QueuedKeys
<1>5. CASE ~HasKey(c.prio_queue, item) /\ ~HasKey(c.non_prio_queue, item) /\ prioritize
  <2>1. AddOrUpdate(c, prioritize, item) = [c EXCEPT !.prio_queue = Append(c.prio_queue, item)]
    BY <1>5 DEF AddOrUpdate
  <2>2. /\ Append(c.prio_queue, item) \in Seq(QueueItem)
        /\ Distinct(Append(c.prio_queue, item))
        /\ KeysIn(Append(c.prio_queue, item)) = KeysIn(c.prio_queue) \cup {KeyOf(item)}
    BY <1>1, <1>2, <1>5, DistinctAppend, KeysInAppend
  <2>3. KeysIn(Append(c.prio_queue, item)) \cap KeysIn(c.non_prio_queue) = {}
    BY <1>1, <1>2, <1>5, <2>2
  <2>4. KeysIn(Append(c.prio_queue, item)) \cup KeysIn(c.non_prio_queue)
          = QueuedKeys(c) \cup {KeyOf(item)}
    BY <2>2 DEF QueuedKeys
  <2> QED
    BY <2>1, <2>2, <2>3, <2>4, WithPrioQueue
<1>6. CASE ~HasKey(c.prio_queue, item) /\ ~HasKey(c.non_prio_queue, item) /\ ~prioritize
  <2>1. AddOrUpdate(c, prioritize, item) = [c EXCEPT !.non_prio_queue = Append(c.non_prio_queue, item)]
    BY <1>6 DEF AddOrUpdate
  <2>2. /\ Append(c.non_prio_queue, item) \in Seq(QueueItem)
        /\ Distinct(Append(c.non_prio_queue, item))
        /\ KeysIn(Append(c.non_prio_queue, item)) = KeysIn(c.non_prio_queue) \cup {KeyOf(item)}
    BY <1>1, <1>2, <1>6, DistinctAppend, KeysInAppend
  <2>3. KeysIn(c.prio_queue) \cap KeysIn(Append(c.non_prio_queue, item)) = {}
    BY <1>1, <1>2, <1>6, <2>2
  <2>4. KeysIn(c.prio_queue) \cup KeysIn(Append(c.non_prio_queue, item))
          = QueuedKeys(c) \cup {KeyOf(item)}
    BY <2>2 DEF QueuedKeys
  <2> QED
    BY <2>1, <2>2, <2>3, <2>4, WithNonPrioQueue
<1> QED
  BY <1>3, <1>4, <1>5, <1>6

(* The unanswered request waits again, and is no longer pending. *)
LEMMA RequeueEffect ==
  ASSUME NEW c \in Queue, KeysUnique(c)
  PROVE  /\ Requeue(c) \in Queue
         /\ KeysUnique(Requeue(c))
         /\ Requeue(c).pending_item = NoItem
         /\ QueuedKeys(Requeue(c)) = QueuedKeys(c) \cup PendingKeys(c)
<1>1. CASE c.pending_item = NoItem
  BY <1>1 DEF Requeue, PendingKeys
<1>2. CASE c.pending_item # NoItem
  <2> DEFINE d == AddOrUpdate(c, FALSE, c.pending_item)
  <2>1. c.pending_item \in QueueItem
    BY <1>2, QueueFields
  <2>2. /\ d \in Queue /\ KeysUnique(d)
        /\ QueuedKeys(d) = QueuedKeys(c) \cup {KeyOf(c.pending_item)}
    BY <2>1, AddOrUpdateEffect
  <2> DEFINE r == [d EXCEPT !.pending_item = NoItem]
  <2>3. Requeue(c) = r
    BY <1>2 DEF Requeue
  <2> HIDE DEF d
  <2>4. /\ r \in Queue
        /\ r.prio_queue = d.prio_queue
        /\ r.non_prio_queue = d.non_prio_queue
        /\ r.pending_item = NoItem
    BY <2>2 DEF Queue
  <2> QED
    BY <1>2, <2>2, <2>3, <2>4 DEF KeysUnique, QueuedKeys, PendingKeys
<1> QED
  BY <1>1, <1>2

(* The front of a queue becomes the pending request, and nothing else. *)
LEMMA TakeFrontEffect ==
  ASSUME NEW c \in Queue, NEW addr \in Address, KeysUnique(c), CanTake(c, addr)
  PROVE  /\ TakeFront(c) \in Queue
         /\ KeysUnique(TakeFront(c))
         /\ TakeFront(c).pending_item \in QueueItem
         /\ KeyOf(TakeFront(c).pending_item) \in QueuedKeys(c)
         /\ QueuedKeys(TakeFront(c)) = QueuedKeys(c) \ {KeyOf(TakeFront(c).pending_item)}
<1> DEFINE d == TakeFront(c)
           p == c.prio_queue
           n == c.non_prio_queue
<1>1. /\ p \in Seq(QueueItem) /\ n \in Seq(QueueItem)
      /\ Distinct(p) /\ Distinct(n)
      /\ KeysIn(p) \cap KeysIn(n) = {}
  BY QueueFields, KeysUniqueKeys
<1>2. CASE p # <<>>
  <2>1. /\ Head(p) \in QueueItem
        /\ Tail(p) \in Seq(QueueItem)
    BY <1>1, <1>2
  <2>2. /\ d.prio_queue = Tail(p)
        /\ d.non_prio_queue = n
        /\ d.pending_item = Head(p)
        /\ d \in Queue
    BY <1>2, <2>1 DEF TakeFront, Queue
  <2>3. /\ KeysIn(p) = KeysIn(Tail(p)) \cup {KeyOf(Head(p))}
        /\ Distinct(Tail(p))
        /\ KeyOf(Head(p)) \notin KeysIn(Tail(p))
    BY <1>1, <1>2, KeysInTail, DistinctTail
  <2>4. KeysUnique(d)
    BY <1>1, <2>2, <2>3, KeysUniqueKeys
  <2> QED
    BY <1>1, <2>1, <2>2, <2>3, <2>4 DEF QueuedKeys
<1>3. CASE p = <<>>
  <2>1. n # <<>>
    BY <1>3 DEF CanTake
  <2>2. /\ Head(n) \in QueueItem
        /\ Tail(n) \in Seq(QueueItem)
    BY <1>1, <2>1
  <2>3. /\ d.prio_queue = p
        /\ d.non_prio_queue = Tail(n)
        /\ d.pending_item = Head(n)
        /\ d \in Queue
    BY <1>3, <2>2 DEF TakeFront, Queue
  <2>4. /\ KeysIn(n) = KeysIn(Tail(n)) \cup {KeyOf(Head(n))}
        /\ Distinct(Tail(n))
        /\ KeyOf(Head(n)) \notin KeysIn(Tail(n))
    BY <1>1, <2>1, KeysInTail, DistinctTail
  <2>5. KeysUnique(d)
    BY <1>1, <2>3, <2>4, KeysUniqueKeys
  <2> QED
    BY <1>1, <2>2, <2>3, <2>4, <2>5 DEF QueuedKeys
<1> QED
  BY <1>2, <1>3

(* pop_pending touches the pending request only. *)
LEMMA PopPendingEffect ==
  ASSUME NEW c \in Queue, NEW addr \in Address, CanPop(c, addr), KeysUnique(c)
  PROVE  /\ PopPending(c, addr) \in Queue
         /\ KeysUnique(PopPending(c, addr))
         /\ QueuedKeys(PopPending(c, addr)) = QueuedKeys(c)
         /\ PendingKeys(PopPending(c, addr)) = {}
<1> DEFINE d == PopPending(c, addr)
<1>1. /\ d \in Queue
      /\ d.prio_queue = c.prio_queue
      /\ d.non_prio_queue = c.non_prio_queue
      /\ d.pending_item = NoItem
  BY DEF PopPending, Queue
<1> QED
  BY <1>1 DEF KeysUnique, QueuedKeys, PendingKeys

(* try_get_to_send, seen from outside: the queue either gives up what was  *)
(* pending or makes one of the requests it knows the pending one.          *)
LEMMA TryGetToSendEffect ==
  ASSUME NEW c \in Queue, NEW addr \in Address, KeysUnique(c)
  PROVE  LET d == TryGetToSend(c, addr)
             k == KeyOf(d.pending_item)
         IN  /\ d \in Queue
             /\ KeysUnique(d)
             /\ CanTake(Requeue(c), addr) =>
                  /\ k \in QueuedKeys(c) \cup PendingKeys(c)
                  /\ PendingKeys(d) = {k}
                  /\ QueuedKeys(d) = (QueuedKeys(c) \cup PendingKeys(c)) \ {k}
             /\ ~CanTake(Requeue(c), addr) =>
                  /\ PendingKeys(d) = {}
                  /\ QueuedKeys(d) = QueuedKeys(c) \cup PendingKeys(c)
<1> DEFINE r == Requeue(c)
<1>1. /\ r \in Queue /\ KeysUnique(r)
      /\ r.pending_item = NoItem
      /\ QueuedKeys(r) = QueuedKeys(c) \cup PendingKeys(c)
  BY RequeueEffect
<1>2. CASE CanTake(r, addr)
  <2>1. TryGetToSend(c, addr) = TakeFront(r)
    BY <1>2 DEF TryGetToSend
  <2> HIDE DEF r
  <2>2. /\ TakeFront(r) \in Queue
        /\ KeysUnique(TakeFront(r))
        /\ TakeFront(r).pending_item \in QueueItem
        /\ KeyOf(TakeFront(r).pending_item) \in QueuedKeys(r)
        /\ QueuedKeys(TakeFront(r)) = QueuedKeys(r) \ {KeyOf(TakeFront(r).pending_item)}
    BY <1>1, <1>2, TakeFrontEffect
  <2>3. PendingKeys(TakeFront(r)) = {KeyOf(TakeFront(r).pending_item)}
    BY <2>2, NoItemAssumption DEF PendingKeys
  <2> QED
    BY <1>1, <1>2, <2>1, <2>2, <2>3 DEF r
<1>3. CASE ~CanTake(r, addr)
  <2>1. TryGetToSend(c, addr) = r
    BY <1>3 DEF TryGetToSend
  <2>2. PendingKeys(r) = {}
    BY <1>1 DEF PendingKeys
  <2> QED
    BY <1>1, <1>3, <2>1, <2>2
<1> QED
  BY <1>2, <1>3

=============================================================================
