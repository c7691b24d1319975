----------------------------- MODULE TuyaRingbuf ------------------------------
(***************************************************************************)
(* The byte ring of include/utilities/src/tuya_ringbuf.c, used by one      *)
(* caller at a time.  in and out are positions in buff; one byte always    *)
(* stays unused, so that in = out means empty.  Every call is one step; a  *)
(* call that returns 0 changes nothing.  len is 0 while there is no ring.  *)
(***************************************************************************)
EXTENDS Integers, Sequences

CONSTANTS Lens,     \* lengths a ring may be created with
          Bytes,
          MaxCall   \* bound on the len argument of a call

ASSUME RingbufAssumption == Lens \subseteq Nat \ {0} /\ MaxCall \in Nat

VARIABLES in, out, len, buff,
          xfer      \* the bytes the last call copied from or to its caller

vars == <<in, out, len, buff, xfer>>

GET_MIN(x, y) == IF x < y THEN x ELSE y

Init == in = 0 /\ out = 0 /\ len = 0 /\ buff = <<>> /\ xfer = <<>>

-------------------------------------------------------------------------------
FreeSize(i, o, n) ==
    (IF i = o THEN n ELSE IF o > i THEN o - i ELSE n - (i - o)) - 1

UsedSize(i, o, n) ==
    IF i = o THEN 0 ELSE IF i > o THEN i - o ELSE n - (o - i)

tuya_ring_buff_free_size_get == FreeSize(in, out, len)
tuya_ring_buff_used_size_get == UsedSize(in, out, len)

MovedWithoutWrap(p, n) ==
    LET tmp_len == GET_MIN(len - p, n)
        rest == n - tmp_len
    IN  IF rest > 0 THEN rest ELSE p + tmp_len

(* A position moved on by n bytes the way the calls do it: to the end of   *)
(* the buffer, then to the beginning, then the loopback check.             *)
Moved(p, n) ==
    LET tmp_len == GET_MIN(len - p, n)
        rest == n - tmp_len
        pos == IF rest > 0 THEN rest ELSE p + tmp_len
    IN  IF pos >= len THEN 0 ELSE pos

StoredAtFront(s) ==
    LET tmp_len == GET_MIN(len - in, Len(s)) IN
    [i \in 0..(len - 1) |->
        IF in <= i /\ i < in + tmp_len THEN s[i - in + 1]
        ELSE IF i < Len(s) - tmp_len THEN s[i + 1]
        ELSE buff[i]]

(* The two memcpy calls of a write of s. *)
Stored(s) ==
    LET tmp_len == GET_MIN(len - in, Len(s)) IN
    [i \in 0..(len - 1) |->
        IF in <= i /\ i < in + tmp_len THEN s[i - in + 1]
        ELSE IF i < Len(s) - tmp_len THEN s[tmp_len + i + 1]
        ELSE buff[i]]

(* The two memcpy calls of a read or peek of n bytes. *)
Copied(n) ==
    LET tmp_len == GET_MIN(len - out, n) IN
    [k \in 1..n |-> IF k <= tmp_len THEN buff[out + k - 1]
                    ELSE buff[k - tmp_len - 1]]

-------------------------------------------------------------------------------
tuya_ring_buff_create(n) ==
    /\ len = 0
    /\ len' = n /\ in' = 0 /\ out' = 0
    /\ \E b \in Bytes : buff' = [i \in 0..(n - 1) |-> b]   \* not initialised
    /\ UNCHANGED xfer

tuya_ring_buff_free ==
    /\ len # 0
    /\ len' = 0 /\ in' = 0 /\ out' = 0 /\ buff' = <<>>
    /\ UNCHANGED xfer

tuya_ring_buff_reset ==
    /\ len # 0
    /\ in' = 0 /\ out' = 0
    /\ UNCHANGED <<len, buff, xfer>>

tuya_ring_buff_write(data) ==
    LET n == GET_MIN(tuya_ring_buff_free_size_get, Len(data))
        s == SubSeq(data, 1, n)
    IN
    /\ len # 0 /\ n # 0
    /\ buff' = Stored(s)
    /\ in' = Moved(in, n)
    /\ xfer' = s
    /\ UNCHANGED <<out, len>>

tuya_ring_buff_read(want) ==
    LET n == GET_MIN(tuya_ring_buff_used_size_get, want) IN
    /\ len # 0 /\ n # 0
    /\ xfer' = Copied(n)
    /\ out' = Moved(out, n)
    /\ UNCHANGED <<in, len, buff>>

tuya_ring_buff_discard(want) ==
    LET n == GET_MIN(tuya_ring_buff_used_size_get, want) IN
    /\ len # 0 /\ n # 0
    /\ out' = Moved(out, n)
    /\ UNCHANGED <<in, len, buff, xfer>>

tuya_ring_buff_peek(want) ==
    LET n == GET_MIN(tuya_ring_buff_used_size_get, want) IN
    /\ len # 0 /\ n # 0
    /\ xfer' = Copied(n)
    /\ UNCHANGED <<in, out, len, buff>>

Next ==
    \/ \E n \in Lens : tuya_ring_buff_create(n)
    \/ tuya_ring_buff_free \/ tuya_ring_buff_reset
    \/ \E k \in 1..MaxCall :
         \/ \E data \in [1..k -> Bytes] : tuya_ring_buff_write(data)
         \/ tuya_ring_buff_read(k) \/ tuya_ring_buff_discard(k)
         \/ tuya_ring_buff_peek(k)

Spec == Init /\ [][Next]_vars

-------------------------------------------------------------------------------
(* Properties *)

(* Type invariant. *)
TypeOK ==
    /\ len \in Lens \cup {0} /\ in \in Nat /\ out \in Nat
    /\ buff \in [0..(len - 1) -> Bytes]
    /\ xfer \in Seq(Bytes)

(* Both positions stay inside the buffer after every wrap, and the two     *)
(* size functions, computed by different cases, always share out exactly   *)
(* the bytes the ring can hold: neither is negative and none is counted    *)
(* twice.                                                                  *)
SizesComplementary ==
    len # 0 =>
        /\ in < len /\ out < len
        /\ tuya_ring_buff_free_size_get \in 0..(len - 1)
        /\ tuya_ring_buff_used_size_get \in 0..(len - 1)
        /\ tuya_ring_buff_free_size_get + tuya_ring_buff_used_size_get = len - 1

Fifo == INSTANCE ByteFifo WITH
    q <- Copied(tuya_ring_buff_used_size_get),
    room <- IF len = 0 THEN 0 ELSE len - 1

(* The ring implements the byte channel ByteFifo: reads, peeks and         *)
(* discards see the written bytes in order, through every position of the  *)
(* wrap-around, and a write never touches unread bytes.                    *)
ImplementsByteFifo == Fifo!Spec
===============================================================================
