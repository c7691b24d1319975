------------------------------- MODULE TuyaQueue ------------------------------
(***************************************************************************)
(* The queue of include/utilities/src/tuya_queue.c: items copied into heap *)
(* nodes on a tuya_list, a length and a count of free places, behind one   *)
(* mutex.  A section between QUEUE_LOCK and QUEUE_UNLOCK is one step; the  *)
(* allocation and the copy before the lock are a step of their own.        *)
(* peek, traverse and the *_num functions read this state and change none. *)
(***************************************************************************)
EXTENDS TuyaList

CONSTANTS Threads,
          Lengths,     \* queue_len values
          Items,       \* heap blocks for QUEUE_ITEM_T
          Values,      \* contents of an item
          Drainer,     \* the consumer of DrainSpec
          MaxBatch,    \* bound on the num of get_batch and delete_batch
          head, None   \* the list head; "no value"

VARIABLES
    queue_len, queue_free,   \* queue_len is 0 while there is no queue
    l,                       \* list pointers
    data,                    \* content of each allocated item, None when free
    pc, item, policy,        \* per thread: step, its new item, where it goes
    count,                   \* delete_batch: rounds left
    batch                    \* the items get_batch copied before the deletion

vars == <<queue_len, queue_free, l, data, pc, item, policy, count, batch>>
locals == <<item, policy, count, batch>>

Init ==
    /\ queue_len = 0 /\ queue_free = 0
    /\ l = [next |-> [x \in Items \cup {head} |-> x],
            prev |-> [x \in Items \cup {head} |-> x]]
    /\ data = [i \in Items |-> None]
    /\ pc = [t \in Threads |-> "idle"]
    /\ item = [t \in Threads |-> None]
    /\ policy = [t \in Threads |-> "back"]
    /\ count = [t \in Threads |-> 0]
    /\ batch = [t \in Threads |-> <<>>]

Alive == queue_len # 0
Linked == Chain(l, head, Cardinality(Items))
Contents == [k \in DOMAIN Linked |-> data[Linked[k]]]

-------------------------------------------------------------------------------
tuya_queue_create(n) ==
    /\ ~Alive
    /\ queue_len' = n /\ queue_free' = n
    /\ l' = INIT_LIST_HEAD(l, head)
    /\ UNCHANGED <<data, pc, locals>>

(* __enqueue up to the lock. *)
NewItem(t, v, p) ==
    /\ pc[t] = "idle" /\ Alive
    /\ \E i \in Items :
         /\ data[i] = None
         /\ data' = [data EXCEPT ![i] = v]
         /\ item' = [item EXCEPT ![t] = i]
         /\ l' = INIT_LIST_HEAD(l, i)
    /\ policy' = [policy EXCEPT ![t] = p]
    /\ pc' = [pc EXCEPT ![t] = "enqueue"]
    /\ UNCHANGED <<queue_len, queue_free, count, batch>>

tuya_queue_input(t, v) == NewItem(t, v, "back")
tuya_queue_input_instant(t, v) == NewItem(t, v, "front")

(* __enqueue under the lock: link the item, or free it when full. *)
enqueue(t) ==
    /\ pc[t] = "enqueue"
    /\ IF queue_free > 0
       THEN /\ l' = IF policy[t] = "back" THEN tuya_list_add_tail(l, item[t], head)
                    ELSE tuya_list_add(l, item[t], head)
            /\ queue_free' = queue_free - 1
            /\ UNCHANGED data
       ELSE /\ data' = [data EXCEPT ![item[t]] = None]
            /\ UNCHANGED <<l, queue_free>>
    /\ pc' = [pc EXCEPT ![t] = "idle"]
    /\ item' = [item EXCEPT ![t] = None]
    /\ policy' = [policy EXCEPT ![t] = "back"]
    /\ UNCHANGED <<queue_len, count, batch>>

(* The removal of the first item under the lock, when there is one. *)
Unlink ==
    /\ queue_free < queue_len
    /\ l' = tuya_list_del(l, l.next[head])
    /\ data' = [data EXCEPT ![l.next[head]] = None]
    /\ queue_free' = queue_free + 1

tuya_queue_output(t) ==
    /\ pc[t] = "idle" /\ Alive
    /\ Unlink
    /\ UNCHANGED <<queue_len, pc, locals>>

(* The loop takes every item out, after which the head is its own          *)
(* neighbour again.                                                        *)
ClearItems ==
    /\ l' = INIT_LIST_HEAD(l, head)
    /\ data' = [i \in Items |-> IF \E k \in DOMAIN Linked : Linked[k] = i
                                THEN None ELSE data[i]]

tuya_queue_clear(t) ==
    /\ pc[t] = "idle" /\ Alive
    /\ ClearItems
    /\ queue_free' = queue_len
    /\ UNCHANGED <<queue_len, pc, locals>>

(* The caller releases a queue that no other thread uses. *)
tuya_queue_release(t) ==
    /\ Alive /\ \A u \in Threads : pc[u] = "idle"
    /\ ClearItems
    /\ queue_len' = 0 /\ queue_free' = 0
    /\ UNCHANGED <<pc, locals>>

(* The loop of get_batch over the list q: positions below start are        *)
(* counted in index, then up to num items are copied and counted.          *)
GetBatch(q, start, num) ==
    LET copied == {k \in DOMAIN q : k > start /\ k <= start + num}
        index == IF Len(q) < start THEN Len(q) ELSE start
    IN  [items |-> [k \in 1..Cardinality(copied) |-> q[start + k]],
         ok |-> index = start /\ Cardinality(copied) = num]

(* A consumer reads the first num items and then deletes that many. *)
tuya_queue_get_batch(t, num) ==
    /\ pc[t] = "idle" /\ Alive
    /\ GetBatch(Contents, 0, num).ok
    /\ batch' = [batch EXCEPT ![t] = GetBatch(Contents, 0, num).items]
    /\ count' = [count EXCEPT ![t] = num]
    /\ pc' = [pc EXCEPT ![t] = "delete"]
    /\ UNCHANGED <<queue_len, queue_free, l, data, item, policy>>

DeleteStarts(t, num) ==
    /\ pc[t] = "idle" /\ Alive
    /\ count' = [count EXCEPT ![t] = num]
    /\ pc' = [pc EXCEPT ![t] = "delete"]
    /\ UNCHANGED <<queue_len, queue_free, l, data, item, policy, batch>>

(* One round of delete_batch, which locks for each item: it ends after num *)
(* rounds or at the first that finds the queue empty.                      *)
tuya_queue_delete_batch(t) ==
    /\ pc[t] = "delete"
    /\ \/ count[t] > 0 /\ Unlink /\ count' = [count EXCEPT ![t] = @ - 1]
          /\ UNCHANGED <<pc, batch>>
       \/ /\ count[t] = 0 \/ queue_free = queue_len
          /\ count' = [count EXCEPT ![t] = 0] /\ batch' = [batch EXCEPT ![t] = <<>>]
          /\ pc' = [pc EXCEPT ![t] = "idle"]
          /\ UNCHANGED <<l, data, queue_free>>
    /\ UNCHANGED <<queue_len, item, policy>>

-------------------------------------------------------------------------------
Produce(t) ==
    \/ \E v \in Values : tuya_queue_input(t, v)
    \/ enqueue(t)

Drain(t) ==
    \/ \E num \in 1..MaxBatch : tuya_queue_get_batch(t, num)
    \/ tuya_queue_delete_batch(t)

Next ==
    \/ \E n \in Lengths : tuya_queue_create(n)
    \/ \E t \in Threads :
         \/ Produce(t) \/ Drain(t)
         \/ \E v \in Values : tuya_queue_input_instant(t, v)
         \/ tuya_queue_output(t) \/ tuya_queue_clear(t) \/ tuya_queue_release(t)
         \/ \E num \in 1..MaxBatch : DeleteStarts(t, num)

Spec == Init /\ [][Next]_vars

(* The thread Drainer drains; the others append. *)
DrainNext ==
    \/ \E n \in Lengths : tuya_queue_create(n)
    \/ \E t \in Threads : IF t = Drainer THEN Drain(t) ELSE Produce(t)

DrainSpec == Init /\ [][DrainNext]_vars

-------------------------------------------------------------------------------
(* Properties *)

Held == {item[t] : t \in Threads} \ {None}

(* Type invariant. *)
TypeOK ==
    /\ queue_len \in Lengths \cup {0} /\ queue_free \in 0..queue_len
    /\ l.next \in [Items \cup {head} -> Items \cup {head}]
    /\ l.prev \in [Items \cup {head} -> Items \cup {head}]
    /\ data \in [Items -> Values \cup {None}]
    /\ pc \in [Threads -> {"idle", "enqueue", "delete"}]
    /\ item \in [Threads -> Items \cup {None}]
    /\ policy \in [Threads -> {"back", "front"}]
    /\ count \in [Threads -> 0..MaxBatch]
    /\ \A t \in Threads : batch[t] \in Seq(Values)

(* queue_free, on which enqueue and output decide, and the linked list     *)
(* agree: a place is free exactly when the list is that much shorter than  *)
(* queue_len, so output never takes the head for an item.                  *)
FreeCountAgrees == Len(Linked) = queue_len - queue_free

(* Every allocated item is on the list or held by one enqueue in progress: *)
(* a full queue, clear, delete_batch and release free exactly what they    *)
(* take out.                                                               *)
ItemsOwned ==
    /\ {i \in Items : data[i] # None} = {Linked[k] : k \in DOMAIN Linked} \cup Held
    /\ \A k \in DOMAIN Linked : Linked[k] \notin Held

(* get_batch succeeds exactly when num items follow position start, and    *)
(* then returns them: what its two counters decide is what the slice is.   *)
BatchIsSlice ==
    \A start \in 0..(MaxBatch + 1), num \in 1..MaxBatch :
        LET r == GetBatch(Contents, start, num) IN
        /\ r.ok <=> start + num <= Len(Contents)
        /\ r.ok => r.items = SubSeq(Contents, start + 1, start + num)

Deque == INSTANCE BoundedDeque WITH q <- Contents, cap <- queue_len
(* The queue is a bounded deque for its callers: items are never lost,     *)
(* duplicated or reordered, and never more than queue_len are accepted.    *)
ImplementsDeque == Deque!Spec

(* A consumer that reads n items with get_batch and then calls             *)
(* delete_batch(n) deletes the items it read, although each deletion locks *)
(* separately, as long as the other threads only append.                   *)
DeletesWhatWasRead ==
    \A t \in Threads : pc[t] = "delete" =>
        LET rest == SubSeq(batch[t], Len(batch[t]) - count[t] + 1, Len(batch[t]))
        IN  /\ Len(Contents) >= count[t]
            /\ SubSeq(Contents, 1, count[t]) = rest
===============================================================================
