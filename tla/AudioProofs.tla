----------------------------- MODULE AudioProofs ------------------------------
(* The ring buffer, and keyword spotting and voice detection on top of it, *)
(* for every ring, chunk, frame and buffer length.                         *)
EXTENDS TklKws, TklVad, TLAPS

-------------------------------------------------------------------------------

(* An element of a sequence over S is in S. *)
LEMMA SeqElement ==
    ASSUME NEW S, NEW s \in Seq(S), NEW i \in 1..Len(s)
    PROVE  s[i] \in S
  OBVIOUS

(* The empty sequence, and what is not empty. *)
LEMMA SeqEmpty ==
    ASSUME NEW S
    PROVE  /\ <<>> \in Seq(S) /\ Len(<<>>) = 0
           /\ \A s \in Seq(S) : s # <<>> => Len(s) \in Nat \ {0}
  OBVIOUS

(* A sequence is a function on 1 .. its length. *)
LEMMA SeqTyped ==
    ASSUME NEW S, NEW s \in Seq(S)
    PROVE  Len(s) \in Nat /\ s \in [1..Len(s) -> S] /\ DOMAIN s = 1..Len(s)
  OBVIOUS

(* Sequences are equal when their elements are. *)
LEMMA SeqSame ==
    ASSUME NEW S, NEW s \in Seq(S), NEW t \in Seq(S),
           Len(s) = Len(t), \A i \in 1..Len(s) : s[i] = t[i]
    PROVE  s = t
  OBVIOUS

(* Two sequences one behind the other. *)
LEMMA SeqJoined ==
    ASSUME NEW S, NEW s \in Seq(S), NEW t \in Seq(S)
    PROVE  /\ s \o t \in Seq(S) /\ Len(s \o t) = Len(s) + Len(t)
           /\ \A i \in 1..(Len(s) + Len(t)) :
                (s \o t)[i] = IF i <= Len(s) THEN s[i] ELSE t[i - Len(s)]
  OBVIOUS

(* A part of a sequence. *)
LEMMA SeqPart ==
    ASSUME NEW S, NEW s, NEW m \in Int, NEW n \in Int, \A i \in m..n : s[i] \in S
    PROVE  /\ SubSeq(s, m, n) \in Seq(S)
           /\ Len(SubSeq(s, m, n)) = IF m <= n THEN n - m + 1 ELSE 0
           /\ \A i \in 1..(n - m + 1) : SubSeq(s, m, n)[i] = s[m + i - 1]
  OBVIOUS
(* The ring's positions and sizes, and that it implements ByteFifo, for    *)
(* every length and every call.                                            *)

(* The positions between calls: the part of the state the sizes depend on. *)
Positions ==
    /\ len \in Nat /\ in \in Nat /\ out \in Nat
    /\ len # 0 => in < len /\ out < len

(* The loopback check keeps a position that moves by at most the bytes     *)
(* between it and itself, going round, inside the buffer.                  *)
LEMMA MovedInside ==
    ASSUME len \in Nat \ {0}, NEW p \in 0..(len - 1), NEW n \in 0..(len - 1)
    PROVE  Moved(p, n) \in 0..(len - 1)
<1>1. CASE len - p < n
  <2>1. GET_MIN(len - p, n) = len - p
    BY <1>1 DEF GET_MIN
  <2>2. Moved(p, n) = IF n - (len - p) >= len THEN 0 ELSE n - (len - p)
    BY <1>1, <2>1 DEF Moved
  <2> QED
    BY <1>1, <2>2
<1>2. CASE ~(len - p < n)
  <2>1. GET_MIN(len - p, n) = n
    BY <1>2 DEF GET_MIN
  <2>2. Moved(p, n) = IF p + n >= len THEN 0 ELSE p + n
    BY <2>1 DEF Moved
  <2> QED
    BY <1>2, <2>2
<1> QED
  BY <1>1, <1>2

(* The two size functions of a ring whose positions are inside it.         *)
LEMMA SizeRanges ==
    ASSUME NEW n \in Nat \ {0}, NEW i \in 0..(n - 1), NEW o \in 0..(n - 1)
    PROVE  /\ FreeSize(i, o, n) \in 0..(n - 1)
           /\ UsedSize(i, o, n) \in 0..(n - 1)
           /\ FreeSize(i, o, n) + UsedSize(i, o, n) = n - 1
BY DEF FreeSize, UsedSize

(* The smaller of an available size and a requested one is within both.    *)
LEMMA MinRange ==
    ASSUME NEW x \in Nat, NEW y \in Nat, NEW z \in Nat, x <= z
    PROVE  GET_MIN(x, y) \in 0..z /\ GET_MIN(x, y) \in Nat
BY DEF GET_MIN

(* Every call keeps the positions inside the buffer.                       *)
LEMMA PositionsStep == Positions /\ [Next]_vars => Positions'
<1> SUFFICES ASSUME Positions, [Next]_vars PROVE Positions'
  OBVIOUS
<1> USE DEF Positions
<1>1. ASSUME NEW n \in Lens, tuya_ring_buff_create(n) PROVE Positions'
  BY <1>1, RingbufAssumption DEF tuya_ring_buff_create
<1>2. CASE tuya_ring_buff_free
  BY <1>2 DEF tuya_ring_buff_free
<1>3. CASE tuya_ring_buff_reset
  BY <1>3 DEF tuya_ring_buff_reset
<1>4. ASSUME NEW k \in 1..MaxCall, NEW data \in [1..k -> Bytes],
             tuya_ring_buff_write(data)
      PROVE  Positions'
  <2> DEFINE n == GET_MIN(tuya_ring_buff_free_size_get, Len(data))
  <2>1. len \in Nat \ {0} /\ in \in 0..(len - 1) /\ out \in 0..(len - 1)
    BY <1>4 DEF tuya_ring_buff_write
  <2>2. Len(data) \in Nat
    BY RingbufAssumption
  <2>3. tuya_ring_buff_free_size_get \in 0..(len - 1)
    BY <2>1, SizeRanges DEF tuya_ring_buff_free_size_get
  <2>4. n \in 0..(len - 1)
    BY <2>1, <2>2, <2>3 DEF GET_MIN
  <2>5. in' = Moved(in, n) /\ len' = len /\ out' = out
    BY <1>4 DEF tuya_ring_buff_write
  <2>6. in' \in 0..(len - 1)
    BY <2>1, <2>4, <2>5, MovedInside
  <2> QED
    BY <2>1, <2>5, <2>6
<1>5. ASSUME NEW k \in 1..MaxCall, tuya_ring_buff_read(k) \/ tuya_ring_buff_discard(k)
      PROVE  Positions'
  <2> DEFINE n == GET_MIN(tuya_ring_buff_used_size_get, k)
  <2>1. len \in Nat \ {0} /\ in \in 0..(len - 1) /\ out \in 0..(len - 1)
    BY <1>5 DEF tuya_ring_buff_read, tuya_ring_buff_discard
  <2>2. k \in Nat
    BY RingbufAssumption
  <2>3. tuya_ring_buff_used_size_get \in 0..(len - 1)
    BY <2>1, SizeRanges DEF tuya_ring_buff_used_size_get
  <2>4. n \in 0..(len - 1)
    BY <2>1, <2>2, <2>3, MinRange
  <2>5. out' = Moved(out, n) /\ len' = len /\ in' = in
    BY <1>5 DEF tuya_ring_buff_read, tuya_ring_buff_discard
  <2>6. out' \in 0..(len - 1)
    BY <2>1, <2>4, <2>5, MovedInside
  <2> QED
    BY <2>1, <2>5, <2>6
<1>6. ASSUME NEW k \in 1..MaxCall, tuya_ring_buff_peek(k) PROVE Positions'
  BY <1>6 DEF tuya_ring_buff_peek
<1>7. CASE UNCHANGED vars
  BY <1>7 DEF vars
<1> QED
  BY <1>1, <1>2, <1>3, <1>4, <1>5, <1>6, <1>7 DEF Next

(* For rings of any length and calls of any size, in and out stay inside   *)
(* the buffer and the free and used sizes share out len - 1 bytes.         *)
THEOREM SizesAlwaysComplementary == Spec => []SizesComplementary
<1>1. Init => Positions
  BY DEF Init, Positions
<1>2. Positions => SizesComplementary
  <2> SUFFICES ASSUME Positions, len # 0 PROVE SizesComplementary
    BY DEF SizesComplementary
  <2>1. len \in Nat \ {0} /\ in \in 0..(len - 1) /\ out \in 0..(len - 1)
    BY DEF Positions
  <2> QED
    BY <2>1, SizeRanges DEF SizesComplementary, tuya_ring_buff_free_size_get,
                            tuya_ring_buff_used_size_get
<1> QED
  BY <1>1, <1>2, PositionsStep, PTL DEF Spec

-------------------------------------------------------------------------------
(* Wrapping a position that is at most one round past the end. *)
Wrapped(p) == IF p < len THEN p ELSE p - len
(* The place of the k-th unread byte. *)
At(k) == Wrapped(out + k - 1)
Used == tuya_ring_buff_used_size_get

RingInv ==
    /\ TypeOK /\ Positions
    /\ len = 0 => in = 0 /\ out = 0

(* Types of the state while there is a ring. *)
LEMMA RingTyped ==
    ASSUME RingInv, len # 0
    PROVE  /\ len \in Nat \ {0} /\ in \in 0..(len - 1) /\ out \in 0..(len - 1)
           /\ Used \in 0..(len - 1) /\ tuya_ring_buff_free_size_get = len - 1 - Used
           /\ in = At(Used + 1)
           /\ buff \in [0..(len - 1) -> Bytes]
  <1>1. len \in Nat \ {0} /\ in \in 0..(len - 1) /\ out \in 0..(len - 1)
    BY DEF RingInv, Positions
  <1>2. /\ Used \in 0..(len - 1)
        /\ tuya_ring_buff_free_size_get \in 0..(len - 1)
        /\ tuya_ring_buff_free_size_get + Used = len - 1
    BY <1>1, SizeRanges DEF tuya_ring_buff_free_size_get, tuya_ring_buff_used_size_get, Used
  <1>3. tuya_ring_buff_free_size_get = len - 1 - Used
    BY <1>1, <1>2
  <1>4. in = At(Used + 1)
    BY <1>1 DEF At, Wrapped, Used, tuya_ring_buff_used_size_get, UsedSize
  <1> QED
    BY <1>1, <1>2, <1>3, <1>4 DEF RingInv, TypeOK

(* Moving a position wraps it once. *)
LEMMA MovedWraps ==
    ASSUME len \in Nat \ {0}, NEW p \in 0..(len - 1), NEW n \in 0..(len - 1)
    PROVE  Moved(p, n) = Wrapped(p + n)
  <1>1. CASE len - p < n
    BY <1>1 DEF Moved, GET_MIN, Wrapped
  <1>2. CASE ~(len - p < n)
    BY <1>2 DEF Moved, GET_MIN, Wrapped
  <1> QED
    BY <1>1, <1>2

(* The two copies of a read give the unread bytes in order. *)
LEMMA CopiedInOrder ==
    ASSUME len \in Nat \ {0}, out \in 0..(len - 1),
           buff \in [0..(len - 1) -> Bytes], NEW n \in 0..(len - 1)
    PROVE  /\ Copied(n) = [k \in 1..n |-> buff[At(k)]]
           /\ \A k \in 1..n : At(k) \in 0..(len - 1)
           /\ Copied(n) \in Seq(Bytes) /\ Len(Copied(n)) = n
  <1>1. \A k \in 1..n : At(k) \in 0..(len - 1)
    BY DEF At, Wrapped
  <1>2. \A k \in 1..n :
           At(k) = IF k <= GET_MIN(len - out, n) THEN out + k - 1
                   ELSE k - GET_MIN(len - out, n) - 1
    BY DEF At, Wrapped, GET_MIN
  <1>3. Copied(n) = [k \in 1..n |-> buff[At(k)]]
    BY <1>2 DEF Copied
  <1> QED
    BY <1>1, <1>3

(* A write takes the bytes of its caller that fit. *)
LEMMA WrittenPart ==
    ASSUME RingInv, len # 0, NEW k \in 1..MaxCall, NEW data \in [1..k -> Bytes]
    PROVE  LET n == GET_MIN(tuya_ring_buff_free_size_get, Len(data))
               s == SubSeq(data, 1, n)
           IN  /\ n \in 0..(len - 1) /\ n <= tuya_ring_buff_free_size_get
               /\ s \in Seq(Bytes) /\ Len(s) = n /\ s \in [1..n -> Bytes]
               /\ Len(s) <= tuya_ring_buff_free_size_get
  <1> DEFINE n == GET_MIN(tuya_ring_buff_free_size_get, Len(data))
  <1>1. data \in Seq(Bytes) /\ Len(data) = k /\ k \in Nat
    BY RingbufAssumption
  <1>2. n \in 0..(len - 1) /\ n <= tuya_ring_buff_free_size_get /\ n <= k
    BY <1>1, RingTyped DEF GET_MIN
  <1> HIDE DEF n
  <1> DEFINE s == SubSeq(data, 1, n)
  <1>3. s = [i \in 1..n |-> data[i]]
    BY <1>1, <1>2
  <1> HIDE DEF s
  <1>4. s \in Seq(Bytes) /\ Len(s) = n /\ s \in [1..n -> Bytes]
    BY <1>1, <1>2, <1>3
  <1> QED
    BY Zenon, <1>2, <1>4 DEF n, s

(* The two copies of a write put its bytes behind the unread ones and      *)
(* leave those alone.                                                      *)
LEMMA StoredBehind ==
    ASSUME RingInv, len # 0, NEW s \in Seq(Bytes),
           Len(s) <= tuya_ring_buff_free_size_get
    PROVE  /\ Stored(s) \in [0..(len - 1) -> Bytes]
           /\ \A k \in 1..Used : Stored(s)[At(k)] = buff[At(k)]
           /\ \A k \in 1..Len(s) : Stored(s)[At(Used + k)] = s[k]
  <1> DEFINE n == Len(s)
             tmp == GET_MIN(len - in, n)
  <1>1. /\ len \in Nat \ {0} /\ in \in 0..(len - 1) /\ out \in 0..(len - 1)
        /\ Used \in 0..(len - 1) /\ n \in Nat /\ n <= len - 1 - Used
        /\ in = At(Used + 1) /\ buff \in [0..(len - 1) -> Bytes]
    BY RingTyped
  <1>2. tmp \in 0..n /\ tmp <= len - in /\ (tmp < n => tmp = len - in)
    BY <1>1 DEF GET_MIN
  <1>3. Stored(s) = [i \in 0..(len - 1) |->
                       IF in <= i /\ i < in + tmp THEN s[i - in + 1]
                       ELSE IF i < n - tmp THEN s[tmp + i + 1] ELSE buff[i]]
    BY DEF Stored
  <1> HIDE DEF tmp
  <1>4. Stored(s) \in [0..(len - 1) -> Bytes]
    <2>1. \A i \in 0..(len - 1) :
            /\ in <= i /\ i < in + tmp => s[i - in + 1] \in Bytes
            /\ i < n - tmp => s[tmp + i + 1] \in Bytes
      BY SMTT(30), <1>1, <1>2
    <2> QED
      BY <1>1, <1>3, <2>1
  <1>5. \A k \in 1..Used : /\ At(k) \in 0..(len - 1)
                           /\ ~(in <= At(k) /\ At(k) < in + tmp)
                           /\ ~(At(k) < n - tmp)
    BY <1>1, <1>2 DEF At, Wrapped
  <1>6. \A k \in 1..n : /\ At(Used + k) \in 0..(len - 1)
                        /\ k <= tmp => At(Used + k) = in + k - 1
                        /\ k > tmp => At(Used + k) = k - tmp - 1
    BY <1>1, <1>2 DEF At, Wrapped
  <1>7. \A k \in 1..Used : Stored(s)[At(k)] = buff[At(k)]
    BY <1>3, <1>5
  <1>8. \A i \in 0..(len - 1) :
          /\ in <= i /\ i < in + tmp => Stored(s)[i] = s[i - in + 1]
          /\ i < in /\ i < n - tmp => Stored(s)[i] = s[tmp + i + 1]
    BY <1>1, <1>2, <1>3
  <1>9. ASSUME NEW k \in 1..n PROVE Stored(s)[At(Used + k)] = s[k]
    <2>1. CASE k <= tmp
      <3>1. At(Used + k) = in + k - 1
        BY <2>1, <1>6
      <3>2. /\ in + k - 1 \in 0..(len - 1)
            /\ in <= in + k - 1 /\ in + k - 1 < in + tmp /\ (in + k - 1) - in + 1 = k
        BY SMTT(30), <2>1, <1>1, <1>2
      <3> QED
        BY <3>1, <3>2, <1>8
    <2>2. CASE ~(k <= tmp)
      <3>1. /\ At(Used + k) = k - tmp - 1 /\ k - tmp - 1 \in 0..(len - 1)
            /\ k - tmp - 1 < in /\ k - tmp - 1 < n - tmp
            /\ tmp + (k - tmp - 1) + 1 = k
        BY <2>2, <1>1, <1>2, <1>6 DEF At, Wrapped
      <3> QED
        BY <3>1, <1>8
    <2> QED
      BY <2>1, <2>2
  <1> QED
    BY <1>4, <1>7, <1>9

(* Every call keeps the types; with the positions this is inductive. *)
LEMMA RingStep == RingInv /\ [Next]_vars => RingInv'
  <1> SUFFICES ASSUME RingInv, [Next]_vars PROVE RingInv'
    OBVIOUS
  <1>p. Positions'
    BY PositionsStep DEF RingInv
  <1>1. ASSUME NEW n \in Lens, tuya_ring_buff_create(n) PROVE RingInv'
    BY <1>1, <1>p, RingbufAssumption DEF tuya_ring_buff_create, RingInv, TypeOK
  <1>2. CASE tuya_ring_buff_free
    BY <1>2, <1>p DEF tuya_ring_buff_free, RingInv, TypeOK
  <1>3. CASE tuya_ring_buff_reset
    BY <1>3, <1>p DEF tuya_ring_buff_reset, RingInv, TypeOK
  <1>4. ASSUME NEW k \in 1..MaxCall, NEW data \in [1..k -> Bytes],
               tuya_ring_buff_write(data)
        PROVE  RingInv'
    <2> DEFINE n == GET_MIN(tuya_ring_buff_free_size_get, Len(data))
               s == SubSeq(data, 1, n)
    <2>1. /\ len # 0 /\ buff' = Stored(s) /\ xfer' = s /\ len' = len
          /\ in' = Moved(in, n) /\ out' = out
      BY <1>4 DEF tuya_ring_buff_write
    <2>2. s \in Seq(Bytes) /\ Len(s) <= tuya_ring_buff_free_size_get
      BY <2>1, WrittenPart
    <2>3. buff' \in [0..(len - 1) -> Bytes]
      BY Zenon, <2>1, <2>2, StoredBehind
    <2> QED
      BY Zenon, <2>1, <2>2, <2>3, <1>p DEF RingInv, TypeOK, Positions
  <1>5. ASSUME NEW k \in 1..MaxCall,
               tuya_ring_buff_read(k) \/ tuya_ring_buff_peek(k)
        PROVE  RingInv'
    <2> DEFINE n == GET_MIN(tuya_ring_buff_used_size_get, k)
    <2>1. /\ len # 0 /\ xfer' = Copied(n) /\ UNCHANGED <<in, len, buff>>
      BY <1>5 DEF tuya_ring_buff_read, tuya_ring_buff_peek
    <2>2. n \in 0..(len - 1)
      BY <2>1, RingTyped, RingbufAssumption DEF GET_MIN, Used
    <2>3. xfer' \in Seq(Bytes)
      BY Zenon, <2>1, <2>2, RingTyped, CopiedInOrder
    <2> QED
      BY <2>1, <2>3, <1>p DEF RingInv, TypeOK, Positions
  <1>6. ASSUME NEW k \in 1..MaxCall, tuya_ring_buff_discard(k) PROVE RingInv'
    BY <1>6, <1>p DEF tuya_ring_buff_discard, RingInv, TypeOK, Positions
  <1>7. CASE UNCHANGED vars
    BY <1>7 DEF vars, RingInv, TypeOK, Positions
  <1> QED
    BY <1>1, <1>2, <1>3, <1>4, <1>5, <1>6, <1>7 DEF Next

-------------------------------------------------------------------------------
(* The ring implements the byte channel. *)

(* The unread bytes, as the ring would hand them out. *)
ContentsOk ==
    /\ Used \in Nat
    /\ Copied(Used) \in Seq(Bytes) /\ Len(Copied(Used)) = Used
    /\ Copied(Used) = [k \in 1..Used |-> buff[At(k)]]
    /\ Used = 0 => Copied(Used) = <<>>

(* Between calls the unread bytes are well-defined. *)
LEMMA Contents == RingInv => ContentsOk
  <1> SUFFICES ASSUME RingInv PROVE ContentsOk
    OBVIOUS
  <1>1. CASE len = 0
    <2>1. Used = 0
      BY <1>1 DEF RingInv, Used, tuya_ring_buff_used_size_get, UsedSize
    <2>2. Copied(0) = <<>> /\ Copied(0) = [k \in 1..0 |-> buff[At(k)]]
      BY DEF Copied
    <2>3. Copied(Used) = <<>>
      BY Zenon, <2>1, <2>2
    <2>5. Copied(Used) \in Seq(Bytes) /\ Len(Copied(Used)) = 0
      BY <2>3
    <2>4. Copied(Used) = [k \in 1..Used |-> buff[At(k)]]
      BY <2>1, <2>2
    <2> QED
      BY <2>1, <2>3, <2>4, <2>5 DEF ContentsOk
  <1>2. CASE len # 0
    <2>1. /\ Used \in Nat /\ Copied(Used) \in Seq(Bytes) /\ Len(Copied(Used)) = Used
          /\ Copied(Used) = [k \in 1..Used |-> buff[At(k)]]
      BY <1>2, RingTyped, CopiedInOrder
    <2> QED
      BY <2>1 DEF ContentsOk
  <1> QED
    BY <1>1, <1>2

(* The same after a call. *)
LEMMA ContentsAfter == RingInv' => ContentsOk'
  BY Contents, PTL

(* A write appends what it stores. *)
LEMMA WriteAppends ==
    ASSUME RingInv, RingInv', NEW k \in 1..MaxCall, NEW data \in [1..k -> Bytes],
           tuya_ring_buff_write(data)
    PROVE  /\ Len(xfer') \in 1..(len - 1 - Used)
           /\ xfer' \in [1..Len(xfer') -> Bytes]
           /\ Copied(Used)' = Copied(Used) \o xfer'
           /\ len' = len /\ len # 0
  <1> DEFINE n == GET_MIN(tuya_ring_buff_free_size_get, Len(data))
             s == SubSeq(data, 1, n)
  <1>1. /\ len # 0 /\ n # 0 /\ buff' = Stored(s) /\ in' = Moved(in, n)
        /\ xfer' = s /\ out' = out /\ len' = len
    BY DEF tuya_ring_buff_write
  <1>2. /\ n \in 0..(len - 1) /\ n <= tuya_ring_buff_free_size_get
        /\ s \in Seq(Bytes) /\ Len(s) = n /\ s \in [1..n -> Bytes]
    BY <1>1, WrittenPart
  <1> HIDE DEF n, s
  <1>3. /\ len \in Nat \ {0} /\ in \in 0..(len - 1) /\ out \in 0..(len - 1)
        /\ Used \in 0..(len - 1) /\ n <= len - 1 - Used /\ in = At(Used + 1)
    BY <1>1, <1>2, RingTyped
  <1>4. in' = Wrapped(in + n)
    BY <1>1, <1>2, <1>3, MovedWraps
  <1>5. Used' = Used + n
    BY <1>1, <1>2, <1>3, <1>4
       DEF Wrapped, Used, tuya_ring_buff_used_size_get, UsedSize
  <1>6. \A i : At(i)' = At(i)
    BY <1>1 DEF At, Wrapped
  <1>7. /\ \A i \in 1..Used : buff'[At(i)] = buff[At(i)]
        /\ \A i \in 1..n : buff'[At(Used + i)] = s[i]
    BY Zenon, <1>1, <1>2, StoredBehind
  <1>8. Copied(Used)' = [i \in 1..(Used + n) |-> buff'[At(i)]]
    <2>1. Copied(Used)' = [i \in 1..Used |-> buff[At(i)]]'
      BY Zenon, ContentsAfter DEF ContentsOk
    <2> QED
      BY <2>1, <1>5, <1>6
  <1> DEFINE q == Copied(Used)
  <1>9. /\ q \in Seq(Bytes) /\ Len(q) = Used
        /\ \A i \in 1..Used : q[i] = buff[At(i)]
        /\ q' \in Seq(Bytes) /\ Len(q') = Used + n
        /\ \A i \in 1..(Used + n) : q'[i] = buff'[At(i)]
    BY Zenon, <1>5, <1>8, Contents, ContentsAfter DEF ContentsOk
  <1> HIDE DEF q
  <1>10. /\ q \o s \in Seq(Bytes) /\ Len(q \o s) = Used + n
         /\ \A i \in 1..(Used + n) :
              (q \o s)[i] = IF i <= Used THEN q[i] ELSE s[i - Used]
    BY ZenonT(30), <1>2, <1>9, SeqJoined
  <1>11. ASSUME NEW i \in 1..(Used + n) PROVE q'[i] = (q \o s)[i]
    <2>1. CASE i <= Used
      <3>1. i \in 1..Used
        BY <2>1, <1>3
      <3> QED
        BY Zenon, <2>1, <3>1, <1>7, <1>9, <1>10
    <2>2. CASE ~(i <= Used)
      <3>1. i - Used \in 1..n /\ Used + (i - Used) = i
        BY <2>2, <1>2, <1>3
      <3>2. buff'[At(Used + (i - Used))] = s[i - Used]
        BY <3>1, <1>7
      <3>3. buff'[At(i)] = s[i - Used]
        BY <3>1, <3>2
      <3> QED
        BY Zenon, <2>2, <3>3, <1>9, <1>10
    <2> QED
      BY Zenon, <2>1, <2>2
  <1>12. q' = q \o s
    BY Zenon, <1>9, <1>10, <1>11, SeqSame
  <1> QED
    BY <1>1, <1>2, <1>3, <1>12 DEF q

(* A read or a peek returns the oldest bytes. *)
LEMMA CopiesPrefix ==
    ASSUME RingInv, len # 0, NEW n \in 1..Used
    PROVE  Copied(n) = SubSeq(Copied(Used), 1, n)
  <1>1. /\ Used \in 0..(len - 1) /\ n \in 0..(len - 1) /\ len \in Nat
        /\ Copied(Used) \in Seq(Bytes) /\ Len(Copied(Used)) = Used
        /\ Copied(Used) = [k \in 1..Used |-> buff[At(k)]]
    BY RingTyped, Contents DEF ContentsOk
  <1>2. Copied(n) = [k \in 1..n |-> buff[At(k)]]
    BY Zenon, <1>1, RingTyped, CopiedInOrder
  <1>3. SubSeq(Copied(Used), 1, n) = [k \in 1..n |-> Copied(Used)[k]]
    BY <1>1
  <1>4. \A k \in 1..n : Copied(Used)[k] = buff[At(k)]
    BY <1>1
  <1> QED
    BY Zenon, <1>2, <1>3, <1>4

(* A read or a discard removes them. *)
LEMMA OutRemoves ==
    ASSUME RingInv, RingInv', len # 0, NEW n \in 1..Used, out' = Moved(out, n),
           UNCHANGED <<in, len, buff>>
    PROVE  Copied(Used)' = SubSeq(Copied(Used), n + 1, Used)
  <1>1. /\ Used \in 0..(len - 1) /\ n \in 0..(len - 1) /\ len \in Nat \ {0}
        /\ in \in 0..(len - 1) /\ out \in 0..(len - 1)
        /\ Copied(Used) \in Seq(Bytes) /\ Len(Copied(Used)) = Used
        /\ Copied(Used) = [k \in 1..Used |-> buff[At(k)]]
    BY RingTyped, Contents DEF ContentsOk
  <1>2. out' = Wrapped(out + n)
    BY <1>1, MovedWraps
  <1>3. Used' = Used - n
    BY <1>1, <1>2 DEF Wrapped, Used, tuya_ring_buff_used_size_get, UsedSize
  <1>4. \A k \in 1..(Used - n) : At(k)' = At(k + n)
    BY <1>1, <1>2 DEF At, Wrapped
  <1>5. Copied(Used)' = [k \in 1..(Used - n) |-> buff[At(k + n)]]
    <2>1. Copied(Used)' = [k \in 1..Used |-> buff[At(k)]]'
      BY Zenon, ContentsAfter DEF ContentsOk
    <2> QED
      BY <2>1, <1>3, <1>4
  <1>6. SubSeq(Copied(Used), n + 1, Used)
          = [k \in 1..(Used - n) |-> Copied(Used)[k + n]]
    BY <1>1
  <1>7. \A k \in 1..(Used - n) : Copied(Used)[k + n] = buff[At(k + n)]
    BY <1>1
  <1> QED
    BY Zenon, <1>5, <1>6, <1>7

(* A call is a step of the byte channel, or leaves it alone. *)
LEMMA ByteFifoStep == RingInv /\ RingInv' /\ [Next]_vars => [Fifo!Next]_(Fifo!vars)
  <1> SUFFICES ASSUME RingInv, RingInv', [Next]_vars
               PROVE  [Fifo!Next]_(Fifo!vars)
    OBVIOUS
  <1> DEFINE q == Copied(Used)
             room == IF len = 0 THEN 0 ELSE len - 1
  <1>q. /\ Used \in Nat /\ q \in Seq(Bytes) /\ Len(q) = Used
        /\ (Used = 0)' => q' = <<>>
    BY Contents, ContentsAfter DEF ContentsOk
  <1>z. len' \in Nat /\ (in' = out' => (Used = 0)')
    BY Zenon DEF RingInv, Positions, Used, tuya_ring_buff_used_size_get, UsedSize
  <1>1. ASSUME NEW n \in Lens, tuya_ring_buff_create(n) PROVE Fifo!Create
    <2>1. room = 0 /\ room' \in Nat /\ UNCHANGED xfer /\ q' = <<>>
      BY <1>1, <1>q, <1>z DEF tuya_ring_buff_create
    <2> QED
      BY <2>1 DEF Fifo!Create, Used
  <1>2. CASE tuya_ring_buff_free
    <2>1. room' = 0 /\ UNCHANGED xfer /\ q' = <<>>
      BY <1>2, <1>q, <1>z DEF tuya_ring_buff_free
    <2>2. Fifo!Free
      BY <2>1 DEF Fifo!Free, Used
    <2> QED
      BY <2>2 DEF Fifo!Next
  <1>3. CASE tuya_ring_buff_reset
    <2>1. UNCHANGED <<room, xfer>> /\ q' = <<>>
      BY <1>3, <1>q, <1>z DEF tuya_ring_buff_reset
    <2>2. Fifo!Reset
      BY <2>1 DEF Fifo!Reset, Used
    <2> QED
      BY <2>2 DEF Fifo!Next
  <1>4. ASSUME NEW k \in 1..MaxCall, NEW data \in [1..k -> Bytes],
               tuya_ring_buff_write(data)
        PROVE  Fifo!Write
    <2>1. /\ Len(xfer') \in 1..(room - Len(q)) /\ xfer' \in [1..Len(xfer') -> Bytes]
          /\ q' = q \o xfer' /\ UNCHANGED room
      BY Zenon, <1>4, <1>q, WriteAppends
    <2> QED
      BY Zenon, <2>1 DEF Fifo!Write, Used
  <1>5. ASSUME NEW k \in 1..MaxCall, NEW n, n = GET_MIN(Used, k), n # 0
        PROVE  n \in 1..Used
    BY <1>5, <1>q, RingbufAssumption DEF GET_MIN
  <1>6. ASSUME NEW k \in 1..MaxCall, tuya_ring_buff_read(k) PROVE Fifo!Read
    <2> DEFINE n == GET_MIN(Used, k)
    <2>1. /\ len # 0 /\ n # 0 /\ xfer' = Copied(n) /\ out' = Moved(out, n)
          /\ UNCHANGED <<in, len, buff>>
      BY <1>6 DEF tuya_ring_buff_read, Used
    <2>2. n \in 1..Used
      BY <2>1, <1>5
    <2> HIDE DEF n
    <2>3. /\ xfer' = SubSeq(q, 1, n) /\ q' = SubSeq(q, n + 1, Len(q))
          /\ n \in 1..Len(q) /\ UNCHANGED room
      BY <2>1, <2>2, <1>q, CopiesPrefix, OutRemoves
    <2> QED
      BY <2>3 DEF Fifo!Read, Fifo!Prefix, Used
  <1>7. ASSUME NEW k \in 1..MaxCall, tuya_ring_buff_discard(k) PROVE Fifo!Discard
    <2> DEFINE n == GET_MIN(Used, k)
    <2>1. /\ len # 0 /\ n # 0 /\ out' = Moved(out, n)
          /\ UNCHANGED <<in, len, buff, xfer>>
      BY <1>7 DEF tuya_ring_buff_discard, Used
    <2>2. n \in 1..Used
      BY <2>1, <1>5
    <2> HIDE DEF n
    <2>3. /\ q' = SubSeq(q, n + 1, Len(q))
          /\ n \in 1..Len(q) /\ UNCHANGED <<room, xfer>>
      BY <2>1, <2>2, <1>q, OutRemoves
    <2> QED
      BY <2>3 DEF Fifo!Discard, Used
  <1>8. ASSUME NEW k \in 1..MaxCall, tuya_ring_buff_peek(k) PROVE Fifo!Peek
    <2> DEFINE n == GET_MIN(Used, k)
    <2>1. /\ len # 0 /\ n # 0 /\ xfer' = Copied(n)
          /\ UNCHANGED <<in, out, len, buff>>
      BY <1>8 DEF tuya_ring_buff_peek, Used
    <2>2. n \in 1..Used
      BY <2>1, <1>5
    <2> HIDE DEF n
    <2>3. xfer' = SubSeq(q, 1, n) /\ n \in 1..Len(q)
      BY <2>1, <2>2, <1>q, CopiesPrefix
    <2>4. UNCHANGED <<q, room>>
      BY Zenon, <2>1 DEF Copied, Used, tuya_ring_buff_used_size_get
    <2> QED
      BY <2>3, <2>4 DEF Fifo!Peek, Fifo!Prefix, Used
  <1>9. CASE UNCHANGED vars
    <2>1. UNCHANGED <<q, room, xfer>>
      BY <1>9 DEF vars, Copied, Used, tuya_ring_buff_used_size_get
    <2> QED
      BY <2>1 DEF Fifo!vars, Used
  <1> QED
    BY <1>1, <1>2, <1>3, <1>4, <1>6, <1>7, <1>8, <1>9 DEF Next, Fifo!Next

(* For rings of every length and calls of every size, the ring buffer is a *)
(* bounded first-in first-out byte channel: reads, peeks and discards see  *)
(* the written bytes in order and a write never touches unread ones.       *)
THEOREM RingImplementsByteFifo == Spec => ImplementsByteFifo
  <1>1. Init => RingInv
    BY DEF Init, RingInv, TypeOK, Positions
  <1>2. Init => Fifo!Init
    <2> SUFFICES ASSUME Init PROVE Fifo!Init
      OBVIOUS
    <2>1. Used = 0 /\ len = 0 /\ xfer = <<>>
      BY DEF Init, Used, tuya_ring_buff_used_size_get, UsedSize
    <2>2. Copied(Used) = <<>>
      BY <1>1, <2>1, Contents DEF ContentsOk
    <2> QED
      BY <2>1, <2>2 DEF Fifo!Init, Used
  <1>3. RingInv /\ RingInv' /\ [Next]_vars => [Fifo!Step]_(Fifo!vars)
    BY ByteFifoStep DEF Fifo!Step
  <1> QED
    BY <1>1, <1>2, <1>3, RingStep, PTL DEF Spec, ImplementsByteFifo, Fifo!Spec

-------------------------------------------------------------------------------
(* Keyword spotting. *)

(* Consecutively numbered cells. *)
Chain(s) == \A k \in 1..(Len(s) - 1) : s[k + 1] = NextCell(s[k])

(* The cell the next read starts with. *)
Upcoming == IF queue = <<>> THEN cell ELSE queue[1]

(* Without a ring, or with neither task nor callback, nothing is under way;*)
(* the task ends the process only once a deinit has run.                   *)
KwsControl ==
    /\ len = 0 => queue = <<>> /\ task = "none" /\ ~feed
    /\ task = "none" /\ ~feed => queue = <<>> /\ writer = "idle"
    /\ task = "none" <=> kws_thread = "null"
    /\ task # "none" => (module = "null" <=> kws_thread = "freed")
    /\ task = "crashed" => module = "null" /\ writer = "idle" /\ ~feed

(* What a side has still to copy fits, wherever the other one is; the      *)
(* positions are at the two ends of the buffer only while a chunk is       *)
(* processed, so the task never takes an empty ring for a full one.        *)
KwsRing ==
    /\ len # 0 => buff \in [0..(len - 1) -> Bytes]
    /\ writer = "write" => wlen + Len(queue) < len
    /\ writer = "rest" => in = len /\ wlen > 0 /\ wlen + Len(queue) < len
    /\ len # 0 /\ in = len /\ out = 0 => task \in {"process", "crashed"}
    /\ task = "read" => Len(queue) >= MODEL_CHUNK_SIZE
    /\ task = "rest" => out = len /\ rlen > 0 /\ rlen <= Len(queue)

(* Queue and chunk are runs of consecutive cells, the chunk before the     *)
(* queue and the queue before the next cell written.                       *)
KwsChunk ==
    /\ Chain(queue)
    /\ queue # <<>> => cell = NextCell(queue[Len(queue)])
    /\ task = "rest" => xfer # <<>> /\ Len(xfer) + rlen = MODEL_CHUNK_SIZE
    /\ task \in {"readWrap", "process"} => Len(xfer) = MODEL_CHUNK_SIZE
    /\ task \in {"rest", "readWrap", "process"} =>
         Chain(xfer) /\ Upcoming = NextCell(xfer[Len(xfer)])

(* The inductive invariant of keyword spotting.                            *)
KwsInv == KwsTypeOK /\ UnreadKept /\ KwsControl /\ KwsRing /\ KwsChunk

(* The numbers of cells.                                                   *)
Cells == 0..(KWS_RING_BUFF_LEN + 1)

(* The cells of a write are numbered on from its first. *)
LEMMA CellsInOrder ==
    ASSUME NEW c \in Cells, NEW n \in 0..KWS_RING_BUFF_LEN
    PROVE  /\ CellsFrom(c, n) \in Seq(Cells) /\ Len(CellsFrom(c, n)) = n
           /\ Numbered(c + n) \in Cells
           /\ \A k \in 1..n : CellsFrom(c, n)[k] = Numbered(c + k - 1)
           /\ Chain(CellsFrom(c, n))
           /\ n > 0 => /\ CellsFrom(c, n)[1] = c
                       /\ NextCell(CellsFrom(c, n)[n]) = Numbered(c + n)
           /\ n = 0 => Numbered(c + n) = c
  <1>1. \A k \in 0..n : /\ Numbered(c + k) \in Cells
                        /\ k # 0 => NextCell(Numbered(c + k - 1)) = Numbered(c + k)
    BY KwsAssumption DEF Cells, Numbered, NextCell
  <1>2. \A k \in 1..n : Numbered(c + k - 1) \in Cells
    BY <1>1, KwsAssumption DEF Cells, Numbered
  <1>3. CellsFrom(c, n) \in Seq(Cells) /\ Len(CellsFrom(c, n)) = n
    BY <1>2, KwsAssumption DEF CellsFrom
  <1>4. \A k \in 1..n : CellsFrom(c, n)[k] = Numbered(c + k - 1)
    BY DEF CellsFrom
  <1>5. Chain(CellsFrom(c, n))
    <2>1. ASSUME NEW k \in 1..(n - 1)
          PROVE  CellsFrom(c, n)[k + 1] = NextCell(CellsFrom(c, n)[k])
      <3>1. k \in 1..n /\ k + 1 \in 1..n /\ k \in 0..n /\ k # 0 /\ c + (k + 1) - 1 = c + k
        BY KwsAssumption DEF Cells
      <3> QED
        BY <3>1, <1>1, <1>4
    <2> QED
      BY <2>1, <1>3 DEF Chain
  <1>6. n = 0 => Numbered(c + n) = c
    BY KwsAssumption DEF Numbered, Cells
  <1>7. ASSUME n > 0
        PROVE  /\ CellsFrom(c, n)[1] = c
               /\ NextCell(CellsFrom(c, n)[n]) = Numbered(c + n)
    <2>1. Numbered(c + 1 - 1) = c /\ 1 \in 1..n /\ n \in 1..n /\ n \in 0..n /\ n # 0
      BY <1>7, KwsAssumption DEF Cells, Numbered
    <2> QED
      BY <2>1, <1>1, <1>4
  <1> QED
    BY <1>1, <1>3, <1>4, <1>5, <1>6, <1>7

(* Two runs of consecutive cells that follow each other make one. *)
LEMMA ChainJoined ==
    ASSUME NEW s \in Seq(Cells), NEW t \in Seq(Cells), Chain(s), Chain(t),
           s # <<>> /\ t # <<>> => t[1] = NextCell(s[Len(s)])
    PROVE  /\ Chain(s \o t) /\ s \o t \in Seq(Cells)
           /\ Len(s \o t) = Len(s) + Len(t)
           /\ \A k \in 1..Len(s) : (s \o t)[k] = s[k]
           /\ \A k \in 1..Len(t) : (s \o t)[Len(s) + k] = t[k]
  <1>1. /\ s \o t \in Seq(Cells) /\ Len(s \o t) = Len(s) + Len(t)
        /\ Len(s) \in Nat /\ Len(t) \in Nat
        /\ \A i \in 1..(Len(s) + Len(t)) :
             (s \o t)[i] = IF i <= Len(s) THEN s[i] ELSE t[i - Len(s)]
    BY SeqJoined, SeqTyped
  <1>2. \A k \in 1..Len(s) : (s \o t)[k] = s[k]
    BY <1>1
  <1>3. ASSUME NEW k \in 1..Len(t) PROVE (s \o t)[Len(s) + k] = t[k]
    <2>1. Len(s) + k \in 1..(Len(s) + Len(t)) /\ ~(Len(s) + k <= Len(s))
             /\ Len(s) + k - Len(s) = k
      BY <1>1
    <2> QED
      BY <2>1, <1>1
  <1>4. ASSUME NEW k \in 1..(Len(s) + Len(t) - 1)
        PROVE  (s \o t)[k + 1] = NextCell((s \o t)[k])
    <2>1. CASE k < Len(s)
      <3>1. k \in 1..Len(s) /\ k + 1 \in 1..Len(s) /\ k \in 1..(Len(s) - 1)
        BY <2>1, <1>1
      <3> QED
        BY <3>1, <1>2 DEF Chain
    <2>2. CASE k = Len(s)
      <3>1. k \in 1..Len(s) /\ 1 \in 1..Len(t) /\ s # <<>> /\ t # <<>>
        BY <2>2, <1>1
      <3>2. (s \o t)[k] = s[Len(s)]
        BY <2>2, <3>1, <1>2
      <3>3. (s \o t)[k + 1] = t[1]
        BY <2>2, <3>1, <1>3
      <3> QED
        BY <3>1, <3>2, <3>3
    <2>3. CASE k > Len(s)
      <3> DEFINE j == k - Len(s)
      <3>1. j \in 1..Len(t) /\ j + 1 \in 1..Len(t) /\ j \in 1..(Len(t) - 1)
            /\ k = Len(s) + j /\ k + 1 = Len(s) + (j + 1)
        BY <2>3, <1>1
      <3> HIDE DEF j
      <3>2. (s \o t)[k] = t[j] /\ (s \o t)[k + 1] = t[j + 1]
        BY Zenon, <3>1, <1>3
      <3> QED
        BY Zenon, <3>1, <3>2 DEF Chain
    <2> QED
      BY <2>1, <2>2, <2>3, <1>1
  <1>5. Chain(s \o t)
    BY <1>1, <1>4 DEF Chain
  <1> QED
    BY Zenon, <1>1, <1>2, <1>3, <1>5

(* A run of consecutive cells cut in two. *)
LEMMA ChainCut ==
    ASSUME NEW s \in Seq(Cells), Chain(s), NEW n \in 1..Len(s)
    PROVE  /\ SubSeq(s, 1, n) \in Seq(Cells) /\ Len(SubSeq(s, 1, n)) = n
           /\ \A k \in 1..n : SubSeq(s, 1, n)[k] = s[k]
           /\ SubSeq(s, n + 1, Len(s)) \in Seq(Cells)
           /\ Len(SubSeq(s, n + 1, Len(s))) = Len(s) - n
           /\ \A k \in 1..(Len(s) - n) : SubSeq(s, n + 1, Len(s))[k] = s[n + k]
           /\ Chain(SubSeq(s, 1, n)) /\ Chain(SubSeq(s, n + 1, Len(s)))
           /\ n < Len(s) => SubSeq(s, n + 1, Len(s))[1] = NextCell(SubSeq(s, 1, n)[n])
  <1>1. Len(s) \in Nat /\ \A k \in 1..Len(s) : s[k] \in Cells
    BY SeqElement, SeqTyped
  <1> DEFINE a == SubSeq(s, 1, n)
             b == SubSeq(s, n + 1, Len(s))
  <1>2. /\ a \in Seq(Cells) /\ Len(a) = n /\ \A k \in 1..n : a[k] = s[k]
    <2>1. \A k \in 1..n : s[k] \in Cells
      BY <1>1
    <2> QED
      BY <2>1, SeqPart
  <1>3. /\ b \in Seq(Cells) /\ Len(b) = Len(s) - n
        /\ \A k \in 1..(Len(s) - n) : b[k] = s[n + k]
    <2>1. \A k \in (n + 1)..Len(s) : s[k] \in Cells
      BY <1>1
    <2> QED
      BY <1>1, <2>1, SeqPart
  <1> HIDE DEF a, b
  <1>4. Chain(a)
    BY <1>1, <1>2 DEF Chain
  <1>5. Chain(b)
    <2>1. ASSUME NEW k \in 1..(Len(b) - 1) PROVE b[k + 1] = NextCell(b[k])
      <3>1. /\ k \in 1..(Len(s) - n) /\ k + 1 \in 1..(Len(s) - n)
            /\ n + k \in 1..(Len(s) - 1) /\ n + (k + 1) = (n + k) + 1
        BY <1>1, <1>3
      <3>2. b[k] = s[n + k] /\ b[k + 1] = s[n + (k + 1)]
        BY Zenon, <3>1, <1>3
      <3>3. b[k + 1] = s[(n + k) + 1]
        BY Zenon, <3>1, <3>2
      <3> QED
        BY Zenon, <3>1, <3>2, <3>3 DEF Chain
    <2> QED
      BY Zenon, <2>1 DEF Chain
  <1>6. ASSUME n < Len(s) PROVE b[1] = NextCell(a[n])
    <2>1. n \in 1..(Len(s) - 1) /\ 1 \in 1..(Len(s) - n) /\ n \in 1..n
      BY <1>1, <1>6
    <2>2. b[1] = s[n + 1] /\ a[n] = s[n]
      BY Zenon, <2>1, <1>2, <1>3
    <2> QED
      BY Zenon, <2>1, <2>2 DEF Chain
  <1> QED
    BY Zenon, <1>2, <1>3, <1>4, <1>5, <1>6 DEF a, b

-------------------------------------------------------------------------------
(* Types of the state while there is a ring. *)
LEMMA KwsTyped ==
    ASSUME KwsInv, len # 0
    PROVE  /\ len = KWS_RING_BUFF_LEN /\ len \in Nat \ {0}
           /\ in \in 0..len /\ out \in 0..len /\ wlen \in Nat
           /\ cell \in Cells /\ queue \in Seq(Cells) /\ xfer \in Seq(Cells)
           /\ Len(queue) \in 0..(len - 1) /\ Chain(queue)
           /\ buff \in [0..(len - 1) -> Cells]
           /\ Place(in) = Place(out + Len(queue))
           /\ in = len => writer \in {"rest", "wrap"} \/ task = "crashed"
           /\ out = len => task \in {"rest", "readWrap", "crashed"}
  <1>1. /\ len = KWS_RING_BUFF_LEN /\ len \in Nat \ {0}
        /\ in \in 0..len /\ out \in 0..len /\ wlen \in Nat
        /\ in = len => writer \in {"rest", "wrap"} \/ task = "crashed"
        /\ out = len => task \in {"rest", "readWrap", "crashed"}
    BY KwsAssumption DEF KwsInv, KwsTypeOK
  <1>2. cell \in Cells /\ queue \in Seq(Cells) /\ xfer \in Seq(Cells)
    BY KwsAssumption DEF KwsInv, KwsTypeOK, Cells
  <1>3. buff \in [0..(len - 1) -> Cells]
    BY KwsAssumption DEF KwsInv, KwsRing, Cells
  <1>4. Len(queue) \in 0..(len - 1) /\ Place(in) = Place(out + Len(queue))
    BY <1>1, <1>2, SeqTyped DEF KwsInv, UnreadKept
  <1> QED
    BY Zenon, <1>1, <1>2, <1>3, <1>4 DEF KwsInv, KwsChunk

(* Places are counted on from one another. *)
LEMMA PlaceSteps ==
    ASSUME len \in Nat \ {0}, NEW x \in Nat, NEW j \in Nat, x + j < 2 * len
    PROVE  /\ Place(Place(x) + j) = Place(x + j)
           /\ Place(x) + j < len => Place(x + j) = Place(x) + j
  BY DEF Place

(* What the writer computes as free is free, wherever the task is. *)
LEMMA FreeIsFree ==
    ASSUME KwsInv, len # 0, in < len
    PROVE  tuya_ring_buff_free_size_get = len - 1 - Len(queue)
  BY KwsTyped DEF tuya_ring_buff_free_size_get, FreeSize, Place

(* What the task computes as used is unread, wherever the writer is: it    *)
(* computes it only once the writer has left the end of the ring.          *)
LEMMA UsedIsUnread ==
    ASSUME KwsInv, len # 0, task \in {"check", "read"}
    PROVE  out < len /\ tuya_ring_buff_used_size_get = Len(queue)
  <1>1. out < len /\ (in = len => out # 0)
    BY KwsTyped DEF KwsInv, KwsRing
  <1> QED
    BY SMTT(30), <1>1, KwsTyped DEF tuya_ring_buff_used_size_get, UsedSize, Place

(* Cells written at the end of the unread ones join them. *)
LEMMA CellsAppended ==
    ASSUME KwsInv, len # 0, NEW n \in Nat, Len(queue) + n < len,
           Place(in) + n <= len, in' = Place(in) + n,
           UNCHANGED <<out, len>>,
           buff' = [i \in 0..(len - 1) |->
                      IF Place(in) <= i /\ i < Place(in) + n
                      THEN CellsFrom(cell, n)[i - Place(in) + 1] ELSE buff[i]],
           cell' = Numbered(cell + n), queue' = queue \o CellsFrom(cell, n)
    PROVE  /\ UnreadKept' /\ buff' \in [0..(len - 1) -> Cells]
           /\ cell' \in Cells /\ queue' \in Seq(Cells)
           /\ Len(queue') = Len(queue) + n /\ Chain(queue)'
           /\ queue' # <<>> => cell' = NextCell(queue'[Len(queue')])
           /\ Upcoming' = Upcoming
  <1> DEFINE s == CellsFrom(cell, n)
             p == Place(in)
  <1>1. /\ len = KWS_RING_BUFF_LEN /\ len \in Nat \ {0}
        /\ in \in 0..len /\ out \in 0..len
        /\ cell \in Cells /\ queue \in Seq(Cells)
        /\ Len(queue) \in 0..(len - 1) /\ Chain(queue)
        /\ buff \in [0..(len - 1) -> Cells] /\ p = Place(out + Len(queue))
    BY Zenon, KwsTyped
  <1>2. /\ n \in 0..KWS_RING_BUFF_LEN /\ p \in 0..(len - 1)
    BY <1>1 DEF Place
  <1>3. /\ s \in Seq(Cells) /\ Len(s) = n /\ cell' \in Cells /\ Chain(s)
        /\ n > 0 => s[1] = cell /\ NextCell(s[n]) = cell'
        /\ n = 0 => cell' = cell
    BY Zenon, <1>1, <1>2, CellsInOrder
  <1>4. queue # <<>> => cell = NextCell(queue[Len(queue)])
    BY Zenon DEF KwsInv, KwsChunk
  <1>0. queue' = queue \o s /\ buff' = [i \in 0..(len - 1) |->
                      IF p <= i /\ i < p + n THEN s[i - p + 1] ELSE buff[i]]
    BY Zenon
  <1> HIDE DEF s
  <1>5. s # <<>> => n > 0
    BY <1>3
  <1>6. /\ Chain(queue') /\ queue' \in Seq(Cells) /\ Len(queue') = Len(queue) + n
        /\ \A k \in 1..Len(queue) : queue'[k] = queue[k]
        /\ \A k \in 1..n : queue'[Len(queue) + k] = s[k]
    <2>1. queue # <<>> /\ s # <<>> => s[1] = NextCell(queue[Len(queue)])
      BY Zenon, <1>3, <1>4, <1>5
    <2>2. /\ Chain(queue \o s) /\ queue \o s \in Seq(Cells)
          /\ Len(queue \o s) = Len(queue) + Len(s)
          /\ \A k \in 1..Len(queue) : (queue \o s)[k] = queue[k]
          /\ \A k \in 1..Len(s) : (queue \o s)[Len(queue) + k] = s[k]
      BY Zenon, <1>1, <1>3, <2>1, ChainJoined
    <2> QED
      BY Zenon, <2>2, <1>0, <1>3
  <1>7. queue' # <<>> => cell' = NextCell(queue'[Len(queue')])
    <2>1. CASE n > 0
      <3>1. queue'[Len(queue')] = s[n]
        BY <2>1, <1>6
      <3> QED
        BY Zenon, <2>1, <3>1, <1>3
    <2>2. CASE n = 0
      <3>1. Len(queue') = Len(queue) /\ cell' = cell
        BY <2>2, <1>1, <1>3, <1>6
      <3>2. queue' # <<>> => queue # <<>> /\ Len(queue) \in 1..Len(queue)
        BY <3>1, <1>1, <1>6
      <3> QED
        BY Zenon, <3>1, <3>2, <1>4, <1>6
    <2> QED
      BY <2>1, <2>2
  <1>8. Upcoming' = Upcoming
    <2>1. CASE queue # <<>>
      <3>1. 1 \in 1..Len(queue) /\ queue' # <<>>
        BY <2>1, <1>1, <1>6
      <3> QED
        BY Zenon, <2>1, <3>1, <1>6 DEF Upcoming
    <2>2. CASE queue = <<>> /\ n > 0
      <3>1. 1 \in 1..n /\ Len(queue) + 1 = 1 /\ queue' # <<>>
        BY <2>2, <1>1, <1>6
      <3>2. queue'[1] = s[1]
        BY Zenon, <3>1, <1>6
      <3> QED
        BY Zenon, <2>2, <3>1, <3>2, <1>3 DEF Upcoming
    <2>3. CASE queue = <<>> /\ n = 0
      <3>1. queue' = <<>> /\ cell' = cell
        BY <2>3, <1>1, <1>3, <1>6
      <3> QED
        BY Zenon, <2>3, <3>1 DEF Upcoming
    <2> QED
      BY <2>1, <2>2, <2>3, <1>2
  <1>9. buff' \in [0..(len - 1) -> Cells]
    <2>1. \A i \in 0..(len - 1) : p <= i /\ i < p + n => s[i - p + 1] \in Cells
      BY <1>2, <1>3
    <2> HIDE DEF p
    <2> QED
      BY Zenon, <1>0, <1>1, <2>1
  <1>10. UnreadKept'
    <2>1. Len(queue') < len
      BY <1>1, <1>6
    <2>2. \A x : Place(x)' = Place(x)
      BY Zenon DEF Place
    <2>3. Place(in') = Place(out + Len(queue'))
      <3>0. out + Len(queue) \in Nat /\ out + Len(queue) + n < 2 * len
        BY <1>1, <1>2
      <3>1. Place(Place(out + Len(queue)) + n) = Place(out + Len(queue) + n)
        BY Zenon, <3>0, <1>1, PlaceSteps
      <3> QED
        BY <3>1, <1>1, <1>6
    <2>4. ASSUME NEW k \in 1..Len(queue')
          PROVE  buff'[Place(out + k - 1)] = queue'[k]
      <3>1. CASE k <= Len(queue)
        <4>1. /\ k \in 1..Len(queue) /\ Place(out + k - 1) \in 0..(len - 1)
              /\ ~(p <= Place(out + k - 1) /\ Place(out + k - 1) < p + n)
          BY SMTT(30), <3>1, <1>1, <1>2, <1>6 DEF Place
        <4>2. buff[Place(out + k - 1)] = queue[k]
          BY Zenon, <4>1 DEF KwsInv, UnreadKept
        <4> HIDE DEF p
        <4>3. buff'[Place(out + k - 1)] = buff[Place(out + k - 1)]
          BY Zenon, <4>1, <1>0
        <4> QED
          BY Zenon, <4>1, <4>2, <4>3, <1>6
      <3>2. CASE ~(k <= Len(queue))
        <4> DEFINE j == k - Len(queue)
        <4>0. /\ j \in 1..n /\ k = Len(queue) + j /\ j - 1 \in 0..len
              /\ out + k - 1 = out + Len(queue) + (j - 1) /\ p + (j - 1) < len
              /\ p + j - 1 \in 0..(len - 1) /\ p <= p + j - 1 /\ p + j - 1 < p + n
              /\ (p + j - 1) - p + 1 = j /\ p + j - 1 = p + (j - 1)
              /\ Len(queue) + (j - 1) < len
          BY SMTT(30), <3>2, <1>1, <1>2, <1>6
        <4>a. /\ Place(out + Len(queue)) + (j - 1) < len /\ j - 1 \in Nat
              /\ out + Len(queue) \in Nat /\ out + Len(queue) + (j - 1) < 2 * len
          BY SMTT(30), <4>0, <1>1
        <4> HIDE DEF j
        <4>b. Place(out + Len(queue) + (j - 1)) = Place(out + Len(queue)) + (j - 1)
          BY Zenon, <4>0, <4>a, <1>1, PlaceSteps
        <4>1. Place(out + k - 1) = p + j - 1
          BY Zenon, <4>0, <4>b, <1>1
        <4> HIDE DEF p, j
        <4>2. buff'[p + j - 1] = s[j]
          BY Zenon, <4>0, <1>0
        <4> QED
          BY Zenon, <4>0, <4>1, <4>2, <1>6
      <3> QED
        BY Zenon, <3>1, <3>2
    <2> QED
      BY Zenon, <2>1, <2>2, <2>3, <2>4 DEF UnreadKept
  <1> QED
    BY Zenon, <1>3, <1>6, <1>7, <1>8, <1>9, <1>10 DEF Chain

(* A function on 1..n is a sequence. *)
LEMMA FunctionIsSeq ==
    ASSUME NEW S, NEW n \in Nat, NEW f \in [1..n -> S]
    PROVE  f \in Seq(S) /\ Len(f) = n
  OBVIOUS

(* Cells read at the beginning of the unread ones leave them: the copy     *)
(* holds them, and the next read goes on behind them.                      *)
LEMMA CellsRemoved ==
    ASSUME KwsInv, len # 0, NEW n \in 1..Len(queue), Place(out) + n <= len,
           out' = Place(out) + n, UNCHANGED <<in, len, buff, cell>>,
           queue' = SubSeq(queue, n + 1, Len(queue)),
           NEW s, s = [k \in 1..n |-> buff[Place(out) + k - 1]]
    PROVE  /\ UnreadKept' /\ queue' \in Seq(Cells) /\ Len(queue') = Len(queue) - n
           /\ s \in Seq(Cells) /\ Len(s) = n /\ Chain(s) /\ Chain(queue)'
           /\ s[1] = Upcoming
           /\ queue' # <<>> => cell' = NextCell(queue'[Len(queue')])
           /\ Upcoming' = NextCell(s[n])
  <1> DEFINE p == Place(out)
  <1>1. /\ len \in Nat \ {0} /\ in \in 0..len /\ out \in 0..len
        /\ cell \in Cells /\ queue \in Seq(Cells)
        /\ Len(queue) \in 0..(len - 1) /\ Chain(queue)
        /\ buff \in [0..(len - 1) -> Cells] /\ Place(in) = Place(out + Len(queue))
    BY Zenon, KwsTyped
  <1>2. \A k \in 1..Len(queue) : buff[Place(out + k - 1)] = queue[k]
    BY Zenon DEF KwsInv, UnreadKept
  <1>3. p \in 0..(len - 1)
    BY <1>1 DEF Place
  <1>4. \A k \in 1..n : Place(out + k - 1) = p + k - 1
    BY <1>1 DEF Place
  <1>5. \A k \in 1..n : buff[p + k - 1] = queue[k]
    <2>1. \A k \in 1..n : k \in 1..Len(queue)
      BY <1>1
    <2> QED
      BY Zenon, <2>1, <1>2, <1>4
  <1>6. \A k \in 1..n : s[k] = queue[k]
    <2> HIDE DEF p
    <2> QED
      BY Zenon, <1>5 DEF p
  <1>7. /\ SubSeq(queue, 1, n) \in Seq(Cells) /\ Len(SubSeq(queue, 1, n)) = n
        /\ \A k \in 1..n : SubSeq(queue, 1, n)[k] = queue[k]
        /\ queue' \in Seq(Cells) /\ Len(queue') = Len(queue) - n
        /\ \A k \in 1..(Len(queue) - n) : queue'[k] = queue[n + k]
        /\ Chain(SubSeq(queue, 1, n)) /\ Chain(queue')
        /\ n < Len(queue) => queue'[1] = NextCell(SubSeq(queue, 1, n)[n])
    BY Zenon, <1>1, ChainCut
  <1>8. s \in Seq(Cells) /\ Len(s) = n
    <2>1. \A k \in 1..n : p + k - 1 \in 0..(len - 1)
      BY SMTT(30), <1>1, <1>3
    <2> HIDE DEF p
    <2>2. \A k \in 1..n : buff[p + k - 1] \in Cells
      BY Zenon, <1>1, <2>1
    <2>3. s = [k \in 1..n |-> buff[p + k - 1]]
      BY DEF p
    <2>4. n \in Nat
      BY <1>1
    <2>5. [k \in 1..n |-> buff[p + k - 1]] \in [1..n -> Cells]
      BY Zenon, <2>2
    <2>6. s \in [1..n -> Cells]
      BY Zenon, <2>3, <2>5
    <2> QED
      BY Zenon, <2>4, <2>6, FunctionIsSeq
  <1>9. s = SubSeq(queue, 1, n)
    BY <1>6, <1>7, <1>8, SeqSame
  <1>10. Chain(s)
    BY Zenon, <1>7, <1>9
  <1>11. s[1] = Upcoming
    <2>1. queue # <<>> /\ 1 \in 1..n
      BY <1>1
    <2> QED
      BY Zenon, <2>1, <1>6 DEF Upcoming
  <1>12. queue' # <<>> => cell' = NextCell(queue'[Len(queue')])
    <2>1. queue # <<>> => cell = NextCell(queue[Len(queue)])
      BY Zenon DEF KwsInv, KwsChunk
    <2> SUFFICES ASSUME queue' # <<>> PROVE cell' = NextCell(queue'[Len(queue')])
      BY Zenon
    <2>2. /\ Len(queue) - n \in 1..(Len(queue) - n) /\ queue # <<>>
          /\ n + (Len(queue) - n) = Len(queue)
      BY <1>1, <1>7
    <2>3. queue'[Len(queue')] = queue[Len(queue)]
      BY Zenon, <2>2, <1>7
    <2> QED
      BY Zenon, <2>1, <2>2, <2>3
  <1>13. Upcoming' = NextCell(s[n])
    <2>1. CASE n < Len(queue)
      <3>0. Len(queue') # 0
        BY SMTT(30), <2>1, <1>1, <1>7
      <3>1. queue' # <<>>
        BY Zenon, <3>0, SeqEmpty
      <3> QED
        BY Zenon, <2>1, <3>1, <1>7, <1>9 DEF Upcoming
    <2>2. CASE n = Len(queue)
      <3>1. queue' = <<>> /\ queue # <<>> /\ n \in 1..n
        BY <2>2, <1>1, <1>7
      <3>2. cell = NextCell(queue[n])
        BY Zenon, <2>2, <3>1 DEF KwsInv, KwsChunk
      <3> QED
        BY Zenon, <3>1, <3>2, <1>6 DEF Upcoming
    <2> QED
      BY <2>1, <2>2, <1>1
  <1>14. UnreadKept'
    <2>0. Len(queue) - n < len
      BY <1>1
    <2>1. Len(queue') < len
      BY Zenon, <2>0, <1>7
    <2>2. \A x : Place(x)' = Place(x)
      BY DEF Place
    <2>3. \A k \in 0..(Len(queue) - n) : Place(out' + k) = Place(out + n + k)
      BY <1>1 DEF Place
    <2>4. Place(in) = Place(out' + Len(queue'))
      <3>1. Len(queue) - n \in 0..(Len(queue) - n)
               /\ out + n + (Len(queue) - n) = out + Len(queue)
        BY <1>1
      <3> QED
        BY Zenon, <3>1, <2>3, <1>1, <1>7
    <2>5. ASSUME NEW k \in 1..Len(queue')
          PROVE  buff[Place(out' + k - 1)] = queue'[k]
      <3>1. /\ k \in 1..(Len(queue) - n) /\ k - 1 \in 0..(Len(queue) - n)
            /\ n + k \in 1..Len(queue) /\ out + n + (k - 1) = out + (n + k) - 1
            /\ out' + (k - 1) = out' + k - 1
        BY SMTT(30), <1>1, <1>3, <1>7
      <3>2. Place(out' + k - 1) = Place(out + (n + k) - 1)
        BY Zenon, <3>1, <2>3
      <3> QED
        BY Zenon, <3>1, <3>2, <1>2, <1>7
    <2> QED
      BY Zenon, <2>1, <2>2, <2>4, <2>5 DEF UnreadKept
  <1> QED
    BY Zenon, <1>7, <1>8, <1>10, <1>11, <1>12, <1>13, <1>14 DEF Chain

(* Control steps that touch neither ring nor cells. *)
LEMMA KwsRingUntouched ==
    ASSUME KwsInv, UNCHANGED <<in, out, len, buff, xfer, cell, queue>>
    PROVE  /\ UnreadKept' /\ Upcoming' = Upcoming
           /\ Chain(queue)' = Chain(queue) /\ Chain(xfer)' = Chain(xfer)
  BY Zenon DEF KwsInv, UnreadKept, Place, Upcoming, Chain

(* Every step of the driver, of the task and of init and deinit keeps it. *)
LEMMA KwsStep ==
    ASSUME SleepOutlastsWrite
    PROVE  KwsInv /\ [KwsNext]_kwsvars => KwsInv'
  <1> SUFFICES ASSUME KwsInv, [KwsNext]_kwsvars PROVE KwsInv'
    OBVIOUS
  <1> USE DEF ctx
  <1>t. KwsTypeOK /\ KwsControl /\ KwsRing /\ KwsChunk /\ UnreadKept
    BY DEF KwsInv
  <1>b. Bytes = Cells
    BY KwsAssumption DEF Cells
  <1>r. rlen \in Nat /\ MODEL_CHUNK_SIZE \in Nat \ {0}
    BY <1>t, KwsAssumption DEF KwsTypeOK
  <1>1. CASE tkl_kws_init
    <2>1. queue = <<>> /\ writer = "idle" /\ Len(queue) = 0
      BY Zenon, <1>1, <1>t DEF tkl_kws_init, KwsControl
    <2>a. /\ len' = KWS_RING_BUFF_LEN /\ in' = 0 /\ out' = 0
          /\ UNCHANGED <<xfer, writer, wlen, rlen, cell, queue>>
      BY Zenon, <1>1 DEF tkl_kws_init
    <2>b. /\ module' \in {"null", "up"} /\ kws_thread' \in {kws_thread, "held"}
          /\ feed' \in BOOLEAN /\ task' \in {task, "wrap"}
      BY Zenon, <1>1, <1>t DEF tkl_kws_init, KwsTypeOK
    <2>2. KwsTypeOK'
      BY <2>a, <2>b, <1>t, KwsAssumption DEF KwsTypeOK
    <2>3. UnreadKept'
      BY <1>1, <2>1, KwsAssumption DEF tkl_kws_init, UnreadKept, Place
    <2>4. KwsControl'
      BY Zenon, <1>1, <2>1, <1>t, KwsAssumption DEF tkl_kws_init, KwsControl, KwsTypeOK
    <2>5. KwsRing'
      BY <1>1, <2>1, <1>t, KwsAssumption DEF tkl_kws_init, KwsRing, KwsTypeOK
    <2>6. KwsChunk'
      BY <1>1, <2>1, <1>t DEF tkl_kws_init, KwsChunk, Chain
    <2> QED
      BY <2>2, <2>3, <2>4, <2>5, <2>6 DEF KwsInv
  <1>2. CASE tkl_kws_deinit
    <2>1. UNCHANGED <<in, out, len, buff, xfer, cell, queue>>
      BY Zenon, <1>2 DEF tkl_kws_deinit
    <2>2. KwsTypeOK'
      BY Zenon, <1>2, <1>t DEF tkl_kws_deinit, Crash, KwsTypeOK
    <2>4. KwsControl'
      <3>1. CASE kws_thread = "null"
        <4>1. /\ task = "none" /\ UNCHANGED <<kws_thread, feed, writer, task, len, queue>>
          BY Zenon, <3>1, <1>2, <1>t DEF tkl_kws_deinit, KwsControl
        <4> QED
          BY Zenon, <4>1, <1>t DEF KwsControl
      <3>2. CASE kws_thread # "null" /\ Crash
        BY Zenon, <3>2, <1>2, <1>t DEF tkl_kws_deinit, Crash, KwsControl
      <3>3. CASE kws_thread # "null" /\ UNCHANGED <<feed, writer, task>>
        BY Zenon, <3>3, <1>2, <1>t DEF tkl_kws_deinit, KwsControl
      <3> QED
        BY Zenon, <3>1, <3>2, <3>3, <1>2 DEF tkl_kws_deinit
    <2>5. KwsRing'
      BY Zenon, <1>2, <1>t DEF tkl_kws_deinit, Crash, KwsRing
    <2>6. KwsChunk'
      BY Zenon, <1>2, <2>1, <1>t, KwsRingUntouched DEF tkl_kws_deinit, Crash, KwsChunk
    <2> QED
      BY Zenon, <2>1, <2>2, <2>4, <2>5, <2>6, KwsRingUntouched DEF KwsInv
  <1>3. ASSUME NEW n \in Frames, tkl_kws_process(n) PROVE KwsInv'
    <2>1. UNCHANGED <<in, out, len, buff, xfer, cell, queue>>
      BY Zenon, <1>3 DEF tkl_kws_process
    <2>0. len # 0 /\ task # "crashed" /\ n \in Nat
      BY Zenon, <1>3, <1>t, KwsAssumption DEF tkl_kws_process, KwsControl
    <2>a. in < len /\ Len(queue) \in Nat /\ len \in Nat
      BY <1>3, <2>0, KwsTyped DEF tkl_kws_process
    <2>b. n + Len(queue) < len
      BY <1>3, <2>0, <2>a, FreeIsFree DEF tkl_kws_process
    <2>2. KwsTypeOK'
      BY Zenon, <1>3, <2>0, <2>a, <1>t DEF tkl_kws_process, KwsTypeOK
    <2>4. KwsControl'
      BY Zenon, <1>3, <2>0, <1>t DEF tkl_kws_process, KwsControl
    <2>5. KwsRing'
      BY Zenon, <1>3, <2>a, <2>b, <1>t DEF tkl_kws_process, KwsRing
    <2>6. KwsChunk'
      BY Zenon, <1>3, <2>1, <1>t, KwsRingUntouched DEF tkl_kws_process, KwsChunk
    <2> QED
      BY Zenon, <2>1, <2>2, <2>4, <2>5, <2>6, KwsRingUntouched DEF KwsInv
  <1>4. CASE WriteLinear
    <2> DEFINE n == GET_MIN(tuya_ring_buff_free_size_get, wlen)
               tmp_len == GET_MIN(len - in, n)
    <2>0. /\ len # 0 /\ task # "crashed" /\ wlen + Len(queue) < len
          /\ writer = "write"
      BY Zenon, <1>4, <1>t DEF WriteLinear, KwsControl, KwsRing, KwsTypeOK
    <2>1. /\ len \in Nat \ {0} /\ in \in 0..(len - 1) /\ wlen \in Nat
          /\ Len(queue) \in Nat /\ cell \in Cells /\ len = KWS_RING_BUFF_LEN
          /\ DOMAIN buff = 0..(len - 1)
      BY <2>0, KwsTyped
    <2>2. n = wlen
      BY <2>0, <2>1, FreeIsFree DEF GET_MIN
    <2>3. /\ tmp_len \in 0..wlen /\ in + tmp_len <= len
          /\ tmp_len < wlen => in + tmp_len = len
          /\ tmp_len + Len(queue) < len
      BY SMTT(30), <2>0, <2>1, <2>2 DEF GET_MIN
    <2>4. /\ in' = in + tmp_len /\ wlen' = n - tmp_len
          /\ cell' = Numbered(cell + tmp_len)
          /\ queue' = queue \o CellsFrom(cell, tmp_len)
          /\ writer' = IF n > tmp_len THEN "rest" ELSE "wrap"
          /\ buff' = [i \in DOMAIN buff |->
                        IF in <= i /\ i < in + tmp_len
                        THEN CellsFrom(cell, n)[i - in + 1] ELSE buff[i]]
          /\ UNCHANGED <<out, len, xfer, ctx, task, rlen>>
      BY Zenon, <1>4 DEF WriteLinear
    <2> HIDE DEF n, tmp_len
    <2>5. ASSUME NEW i \in 0..(len - 1), in <= i, i < in + tmp_len
          PROVE  CellsFrom(cell, n)[i - in + 1] = CellsFrom(cell, tmp_len)[i - in + 1]
      BY SMTT(30), <2>1, <2>2, <2>3, <2>5 DEF CellsFrom
    <2>7. Place(in) = in /\ tmp_len \in Nat /\ Len(queue) + tmp_len < len
          /\ Place(in) + tmp_len <= len /\ in' = Place(in) + tmp_len
      <3>1. in < len /\ tmp_len \in Nat /\ Len(queue) + tmp_len < len
        BY SMTT(30), <2>1, <2>3
      <3>2. Place(in) = in
        BY Zenon, <3>1 DEF Place
      <3> QED
        BY Zenon, <2>3, <2>4, <3>1, <3>2
    <2>6. buff' = [i \in 0..(len - 1) |->
                     IF Place(in) <= i /\ i < Place(in) + tmp_len
                     THEN CellsFrom(cell, tmp_len)[i - Place(in) + 1] ELSE buff[i]]
      BY Zenon, <2>1, <2>4, <2>5, <2>7
    <2>8. /\ UnreadKept' /\ buff' \in [0..(len - 1) -> Cells]
          /\ cell' \in Cells /\ queue' \in Seq(Cells)
          /\ Len(queue') = Len(queue) + tmp_len /\ Chain(queue)'
          /\ queue' # <<>> => cell' = NextCell(queue'[Len(queue')])
          /\ Upcoming' = Upcoming
      BY Zenon, <2>0, <2>4, <2>6, <2>7, CellsAppended
    <2>9. KwsTypeOK'
      BY SMTT(30), <2>0, <2>1, <2>2, <2>3, <2>4, <2>8, <1>t, <1>b DEF KwsTypeOK
    <2>10. KwsControl'
      BY Zenon, <2>0, <2>4, <1>t DEF KwsControl
    <2>11. KwsRing'
      <3>1. in' = len /\ out = 0 => FALSE
        <4>1. out = 0 => Place(in) = Place(Len(queue))
          BY <2>0, KwsTyped
        <4>2. Place(in) = in /\ Place(Len(queue)) = Len(queue)
          BY <2>0, <2>1 DEF Place
        <4>3. out = 0 => in = Len(queue)
          BY Zenon, <4>1, <4>2
        <4>4. in' = in + tmp_len
          BY Zenon, <2>4
        <4> QED
          BY <4>3, <4>4, <2>1, <2>3
      <3>2. (len # 0 => buff \in [0..(len - 1) -> Bytes])'
        BY Zenon, <2>4, <2>8, <1>b
      <3>3. /\ wlen' + Len(queue') < len /\ Len(queue') >= Len(queue)
            /\ writer' = "rest" => in' = len /\ wlen' > 0
            /\ writer' \in {"rest", "wrap"}
        BY SMTT(30), <2>0, <2>1, <2>2, <2>3, <2>4, <2>8
      <3> QED
        BY SMTT(30), <3>1, <3>2, <3>3, <2>1, <2>3, <2>4, <2>8, <1>t, <1>r DEF KwsRing
    <2>12. KwsChunk'
      BY Zenon, <2>4, <2>8, <1>t DEF KwsChunk, Chain
    <2> QED
      BY SMTT(30), <2>8, <2>9, <2>10, <2>11, <2>12 DEF KwsInv
  <1>5. CASE WriteRest
    <2>0. /\ len # 0 /\ task # "crashed" /\ wlen + Len(queue) < len
          /\ in = len /\ wlen > 0 /\ writer = "rest"
      BY Zenon, <1>5, <1>t DEF WriteRest, KwsControl, KwsRing, KwsTypeOK
    <2>1. /\ len \in Nat \ {0} /\ wlen \in Nat
          /\ Len(queue) \in Nat /\ cell \in Cells /\ len = KWS_RING_BUFF_LEN
          /\ DOMAIN buff = 0..(len - 1)
      BY <2>0, KwsTyped
    <2>2. Place(in) = 0
      BY SMTT(30), <2>0, <2>1 DEF Place
    <2>4. /\ in' = wlen /\ wlen' = 0
          /\ cell' = Numbered(cell + wlen)
          /\ queue' = queue \o CellsFrom(cell, wlen)
          /\ writer' = "wrap"
          /\ buff' = [i \in DOMAIN buff |->
                        IF i < wlen THEN CellsFrom(cell, wlen)[i + 1] ELSE buff[i]]
          /\ UNCHANGED <<out, len, xfer, ctx, task, rlen>>
      BY Zenon, <1>5 DEF WriteRest
    <2>7. /\ Len(queue) + wlen < len /\ Place(in) + wlen <= len
          /\ in' = Place(in) + wlen
      BY <2>0, <2>1, <2>2, <2>4
    <2>6. buff' = [i \in 0..(len - 1) |->
                     IF Place(in) <= i /\ i < Place(in) + wlen
                     THEN CellsFrom(cell, wlen)[i - Place(in) + 1] ELSE buff[i]]
      BY <2>1, <2>2, <2>4
    <2>8. /\ UnreadKept' /\ buff' \in [0..(len - 1) -> Cells]
          /\ cell' \in Cells /\ queue' \in Seq(Cells)
          /\ Len(queue') = Len(queue) + wlen /\ Chain(queue)'
          /\ queue' # <<>> => cell' = NextCell(queue'[Len(queue')])
          /\ Upcoming' = Upcoming
      BY Zenon, <2>0, <2>1, <2>4, <2>6, <2>7, CellsAppended
    <2>9. KwsTypeOK'
      BY <2>0, <2>1, <2>4, <2>8, <1>t, <1>b DEF KwsTypeOK
    <2>10. KwsControl'
      BY Zenon, <2>0, <2>4, <1>t DEF KwsControl
    <2>11. KwsRing'
      <3>2. (len # 0 => buff \in [0..(len - 1) -> Bytes])'
        BY Zenon, <2>4, <2>8, <1>b
      <3> QED
        BY SMTT(30), <3>2, <2>0, <2>1, <2>4, <2>8, <1>t, <1>r DEF KwsRing
    <2>12. KwsChunk'
      BY Zenon, <2>4, <2>8, <1>t DEF KwsChunk, Chain
    <2> QED
      BY Zenon, <2>8, <2>9, <2>10, <2>11, <2>12 DEF KwsInv
  <1>6. CASE WriteWrap
    <2>0. /\ len # 0 /\ task # "crashed" /\ writer = "wrap"
      BY Zenon, <1>6, <1>t DEF WriteWrap, KwsControl, KwsTypeOK
    <2>1. len \in Nat \ {0} /\ in \in 0..len
      BY Zenon, <2>0, KwsTyped
    <2>2. /\ in' \in 0..(len - 1) /\ Place(in') = Place(in) /\ writer' = "idle"
          /\ UNCHANGED <<out, len, buff, xfer, ctx, wlen, task, rlen, cell, queue>>
      BY <1>6, <2>1 DEF WriteWrap, Place
    <2>3. UnreadKept'
      BY Zenon, <2>2, <1>t DEF UnreadKept, Place
    <2>4. KwsTypeOK'
      BY <2>0, <2>1, <2>2, <1>t DEF KwsTypeOK
    <2>5. KwsControl'
      BY Zenon, <2>0, <2>2, <1>t DEF KwsControl
    <2>6. KwsRing'
      BY <2>1, <2>2, <1>t DEF KwsRing
    <2>7. KwsChunk'
      BY Zenon, <2>2, <1>t DEF KwsChunk, Chain, Upcoming
    <2> QED
      BY <2>3, <2>4, <2>5, <2>6, <2>7 DEF KwsInv
  <1>7. CASE tkl_thread_wrap_func \/ TaskProcess
    <2>1. UNCHANGED <<in, out, len, buff, xfer, module, kws_thread, wlen, rlen, cell,
    queue>>
      BY Zenon, <1>7 DEF tkl_thread_wrap_func, TaskProcess
    <2>2. /\ task \in {"wrap", "process"}
          /\ \/ task' = "check" /\ UNCHANGED <<feed, writer>>
                /\ (task = "process" => writer \notin {"rest", "wrap"})
             \/ Crash /\ kws_thread = "freed" /\ module = "null"
      <3>1. CASE tkl_thread_wrap_func
        BY Zenon, <3>1, <1>t DEF tkl_thread_wrap_func, KwsControl
      <3>2. CASE TaskProcess
        BY Zenon, <3>2, <1>t DEF TaskProcess, KwsControl
      <3> QED
        BY Zenon, <3>1, <3>2, <1>7
    <2>4. KwsTypeOK'
      BY Zenon, <2>1, <2>2, <1>t DEF Crash, KwsTypeOK
    <2>5. KwsControl'
      BY Zenon, <2>1, <2>2, <1>t DEF Crash, KwsControl
    <2>6. KwsRing'
      BY Zenon, <2>1, <2>2, <1>t DEF Crash, KwsRing, KwsTypeOK
    <2>7. KwsChunk'
      BY Zenon, <2>1, <2>2, <1>t, KwsRingUntouched DEF Crash, KwsChunk
    <2> QED
      BY Zenon, <2>1, <2>4, <2>5, <2>6, <2>7, KwsRingUntouched DEF KwsInv
  <1>8. CASE TaskCheck
    <2>0. /\ len # 0 /\ task = "check" /\ task' = "read"
          /\ UNCHANGED <<in, out, len, buff, xfer, ctx, writer, wlen, rlen, cell, queue>>
          /\ tuya_ring_buff_used_size_get >= MODEL_CHUNK_SIZE
      BY Zenon, <1>8, <1>t DEF TaskCheck, KwsControl
    <2>1. Len(queue) >= MODEL_CHUNK_SIZE
      BY Zenon, <2>0, UsedIsUnread
    <2>4. KwsTypeOK'
      BY Zenon, <2>0, <1>t DEF KwsTypeOK
    <2>5. KwsControl'
      BY Zenon, <2>0, <1>t DEF KwsControl
    <2>6. KwsRing'
      BY Zenon, <2>0, <2>1, <1>t DEF KwsRing
    <2>7. KwsChunk'
      BY Zenon, <2>0, <1>t, KwsRingUntouched DEF KwsChunk
    <2> QED
      BY Zenon, <2>0, <2>4, <2>5, <2>6, <2>7, KwsRingUntouched DEF KwsInv
  <1>9. CASE ReadLinear
    <2> DEFINE n == GET_MIN(tuya_ring_buff_used_size_get, MODEL_CHUNK_SIZE)
               tmp_len == GET_MIN(len - out, n)
    <2>0. len # 0 /\ task = "read" /\ MODEL_CHUNK_SIZE <= Len(queue)
      BY Zenon, <1>9, <1>t DEF ReadLinear, KwsControl, KwsRing
    <2>1. /\ len \in Nat \ {0} /\ out \in 0..(len - 1) /\ in \in 0..len
          /\ Len(queue) \in Nat /\ MODEL_CHUNK_SIZE \in Nat \ {0}
      BY <2>0, KwsTyped, KwsAssumption
    <2>2. n = MODEL_CHUNK_SIZE
      BY <2>0, <2>1, UsedIsUnread DEF GET_MIN
    <2>3. /\ tmp_len \in 1..MODEL_CHUNK_SIZE /\ out + tmp_len <= len
          /\ tmp_len < MODEL_CHUNK_SIZE => out + tmp_len = len
          /\ tmp_len \in 1..Len(queue)
      BY SMTT(30), <2>0, <2>1, <2>2 DEF GET_MIN
    <2>4. /\ xfer' = [k \in 1..tmp_len |-> buff[out + k - 1]]
          /\ out' = out + tmp_len /\ rlen' = n - tmp_len
          /\ queue' = SubSeq(queue, tmp_len + 1, Len(queue))
          /\ task' = IF n > tmp_len THEN "rest" ELSE "readWrap"
          /\ UNCHANGED <<in, len, buff, ctx, writer, wlen, cell>>
      BY Zenon, <1>9 DEF ReadLinear
    <2> HIDE DEF n, tmp_len
    <2>5. Place(out) = out
      BY <2>1 DEF Place
    <2>6. /\ Place(out) + tmp_len <= len /\ out' = Place(out) + tmp_len
          /\ xfer' = [k \in 1..tmp_len |-> buff[Place(out) + k - 1]]
      BY Zenon, <2>3, <2>4, <2>5
    <2>8. /\ UnreadKept' /\ queue' \in Seq(Cells) /\ Len(queue') = Len(queue) - tmp_len
          /\ xfer' \in Seq(Cells) /\ Len(xfer') = tmp_len /\ Chain(xfer') /\ Chain(queue)'
          /\ queue' # <<>> => cell' = NextCell(queue'[Len(queue')])
          /\ Upcoming' = NextCell(xfer'[tmp_len])
      BY Zenon, <2>0, <2>3, <2>4, <2>6, CellsRemoved
    <2>9. KwsTypeOK'
      BY SMTT(30), <2>0, <2>1, <2>2, <2>3, <2>4, <2>8, <1>t, <1>b DEF KwsTypeOK
    <2>10. KwsControl'
      BY Zenon, <2>0, <2>4, <1>t DEF KwsControl
    <2>a. /\ writer = "write" => wlen + Len(queue') < len
          /\ writer = "rest" => wlen + Len(queue') < len
          /\ out' # 0 /\ task' \in {"rest", "readWrap"}
          /\ task' = "rest" => out' = len /\ rlen' > 0 /\ rlen' <= Len(queue')
          /\ task' = "rest" => tmp_len + rlen' = MODEL_CHUNK_SIZE
          /\ task' = "readWrap" => tmp_len = MODEL_CHUNK_SIZE
      <3>1. writer \in {"write", "rest"} => wlen + Len(queue) < len
        BY <1>t DEF KwsRing
      <3>2. wlen \in Nat
        BY Zenon, <1>t DEF KwsTypeOK
      <3> QED
        BY SMTT(30), <3>1, <3>2, <2>0, <2>1, <2>2, <2>3, <2>4, <2>8
    <2>11. KwsRing'
      BY Zenon, <2>a, <2>4, <1>t DEF KwsRing
    <2>12. KwsChunk'
      <3>1. xfer' # <<>>
        BY <2>3, <2>8
      <3> QED
        BY Zenon, <3>1, <2>4, <2>8, <2>a, <1>t DEF KwsChunk, Chain
    <2> QED
      BY Zenon, <2>8, <2>9, <2>10, <2>11, <2>12 DEF KwsInv
  <1>10. CASE ReadRest
    <2> DEFINE s == [k \in 1..rlen |-> buff[k - 1]]
    <2>0. /\ len # 0 /\ task = "rest" /\ out = len /\ rlen > 0 /\ rlen <= Len(queue)
          /\ xfer # <<>> /\ Len(xfer) + rlen = MODEL_CHUNK_SIZE
          /\ Chain(xfer) /\ Upcoming = NextCell(xfer[Len(xfer)])
      BY Zenon, <1>10, <1>t DEF ReadRest, KwsControl, KwsRing, KwsChunk
    <2>1. /\ len \in Nat \ {0} /\ in \in 0..len /\ xfer \in Seq(Cells)
          /\ Len(queue) \in 0..(len - 1) /\ MODEL_CHUNK_SIZE \in Nat \ {0} /\ rlen \in Nat
      BY <2>0, <1>t, KwsTyped, KwsAssumption DEF KwsTypeOK
    <2>3. rlen \in 1..Len(queue) /\ Place(out) = 0 /\ 0 + rlen <= len
      BY <2>0, <2>1 DEF Place
    <2>4. /\ xfer' = xfer \o s /\ out' = rlen /\ rlen' = 0
          /\ queue' = SubSeq(queue, rlen + 1, Len(queue))
          /\ task' = "readWrap"
          /\ UNCHANGED <<in, len, buff, ctx, writer, wlen, cell>>
      BY Zenon, <1>10 DEF ReadRest
    <2>5. s = [k \in 1..rlen |-> buff[0 + k - 1]]
      BY <2>1
    <2> HIDE DEF s
    <2>6. /\ Place(out) + rlen <= len /\ out' = Place(out) + rlen
          /\ s = [k \in 1..rlen |-> buff[Place(out) + k - 1]]
      BY SMTT(30), <2>1, <2>3, <2>4, <2>5
    <2>8. /\ UnreadKept' /\ queue' \in Seq(Cells) /\ Len(queue') = Len(queue) - rlen
          /\ s \in Seq(Cells) /\ Len(s) = rlen /\ Chain(s) /\ Chain(queue)'
          /\ s[1] = Upcoming
          /\ queue' # <<>> => cell' = NextCell(queue'[Len(queue')])
          /\ Upcoming' = NextCell(s[rlen])
      BY Zenon, <2>0, <2>3, <2>4, <2>6, CellsRemoved
    <2>b. xfer # <<>> /\ s # <<>> => s[1] = NextCell(xfer[Len(xfer)])
      BY Zenon, <2>0, <2>8
    <2>7. /\ Chain(xfer \o s) /\ xfer \o s \in Seq(Cells)
          /\ Len(xfer \o s) = Len(xfer) + Len(s)
          /\ \A k \in 1..Len(s) : (xfer \o s)[Len(xfer) + k] = s[k]
      BY Zenon, <2>0, <2>1, <2>b, <2>8, ChainJoined
    <2>a. /\ xfer' \in Seq(Cells) /\ Len(xfer') = MODEL_CHUNK_SIZE /\ Chain(xfer')
          /\ xfer'[Len(xfer')] = s[rlen]
      <3>1. rlen \in 1..Len(s) /\ Len(xfer) + rlen = Len(xfer \o s)
        BY <2>3, <2>7, <2>8
      <3> QED
        BY Zenon, <3>1, <2>0, <2>4, <2>7, <2>8
    <2>9. KwsTypeOK'
      BY SMTT(30), <2>0, <2>1, <2>3, <2>4, <2>8, <2>a, <1>t, <1>b DEF KwsTypeOK
    <2>10. KwsControl'
      BY Zenon, <2>0, <2>4, <1>t DEF KwsControl
    <2>11. KwsRing'
      <3>1. writer \in {"write", "rest"} => wlen + Len(queue) < len
        BY <1>t DEF KwsRing
      <3>2. wlen \in Nat
        BY <1>t DEF KwsTypeOK
      <3>3. /\ writer \in {"write", "rest"} => wlen + Len(queue') < len
            /\ out' # 0
        BY <3>1, <3>2, <2>1, <2>3, <2>4, <2>8
      <3> QED
        BY Zenon, <3>3, <2>4, <1>t DEF KwsRing
    <2>12. KwsChunk'
      BY Zenon, <2>4, <2>8, <2>a, <1>t DEF KwsChunk, Chain
    <2> QED
      BY Zenon, <2>8, <2>9, <2>10, <2>11, <2>12 DEF KwsInv
  <1>11. CASE ReadWrap
    <2>0. /\ len # 0 /\ task = "readWrap"
      BY Zenon, <1>11, <1>t DEF ReadWrap, KwsControl
    <2>1. len \in Nat \ {0} /\ out \in 0..len /\ Len(queue) \in 0..(len - 1)
          /\ Place(in) = Place(out + Len(queue))
      BY Zenon, <2>0, KwsTyped
    <2>2. /\ out' = Place(out) /\ task' = "process"
          /\ UNCHANGED <<in, len, buff, xfer, ctx, writer, wlen, rlen, cell, queue>>
      BY <1>11, <2>1 DEF ReadWrap, Place
    <2>3. UnreadKept'
      <3>1. \A k \in 0..Len(queue) : Place(out' + k) = Place(out + k)
        BY <2>1, <2>2 DEF Place
      <3>2. \A x : Place(x)' = Place(x)
        BY Zenon, <2>2 DEF Place
      <3>3. Place(in) = Place(out' + Len(queue))
        BY <2>1, <3>1
      <3>4. ASSUME NEW k \in 1..Len(queue) PROVE buff[Place(out' + k - 1)] = queue[k]
        <4>1. /\ k - 1 \in 0..Len(queue) /\ out + (k - 1) = out + k - 1
              /\ out' + (k - 1) = out' + k - 1
          BY <2>1, <2>2 DEF Place
        <4>2. Place(out' + k - 1) = Place(out + k - 1)
          BY Zenon, <4>1, <3>1
        <4> QED
          BY Zenon, <4>2, <2>0, <1>t DEF UnreadKept
      <3> QED
        BY <3>2, <3>3, <3>4, <2>1, <2>2 DEF UnreadKept
    <2>4. KwsTypeOK'
      BY <2>0, <2>1, <2>2, <1>t DEF KwsTypeOK, Place
    <2>5. KwsControl'
      BY Zenon, <2>0, <2>2, <1>t DEF KwsControl
    <2>6. KwsRing'
      BY Zenon, <2>0, <2>1, <2>2, <1>t DEF KwsRing
    <2>7. KwsChunk'
      BY Zenon, <2>0, <2>2, <1>t DEF KwsChunk, Chain, Upcoming
    <2> QED
      BY <2>3, <2>4, <2>5, <2>6, <2>7 DEF KwsInv
  <1>12. CASE UNCHANGED kwsvars
    <2>1. UNCHANGED <<in, out, len, buff, xfer, cell, queue>>
      BY Zenon, <1>12 DEF kwsvars
    <2>2. UNCHANGED <<module, kws_thread, feed, writer, wlen, task, rlen>>
      BY Zenon, <1>12 DEF kwsvars
    <2>3. /\ UnreadKept' /\ Upcoming' = Upcoming
          /\ Chain(queue)' = Chain(queue) /\ Chain(xfer)' = Chain(xfer)
      BY Zenon, <2>1, KwsRingUntouched
    <2>4. KwsTypeOK'
      BY <2>1, <2>2, <1>t DEF KwsTypeOK
    <2>5. KwsControl'
      BY Zenon, <2>1, <2>2, <1>t DEF KwsControl
    <2>6. KwsRing'
      BY Zenon, <2>1, <2>2, <1>t DEF KwsRing
    <2>7. KwsChunk'
      BY Zenon, <2>1, <2>2, <2>3, <1>t DEF KwsChunk
    <2> QED
      BY Zenon, <2>3, <2>4, <2>5, <2>6, <2>7 DEF KwsInv
  <1> QED
    BY <1>1, <1>2, <1>3, <1>4, <1>5, <1>6, <1>7, <1>8, <1>9, <1>10, <1>11, <1>12
       DEF KwsNext, Writing, Task

(* KwsInv gives the properties. *)
LEMMA KwsInvImplies == KwsInv => ChunksConsecutive
  <1> SUFFICES ASSUME KwsInv PROVE ChunksConsecutive
    OBVIOUS
  <1>1. ChunkWhole
    BY Zenon DEF KwsInv, KwsChunk, ChunkWhole, Chain, Upcoming
  <1> QED
    BY <1>1 DEF KwsInv, KwsControl, CrashOnlyAfterDeinit, ChunksConsecutive

(* It holds before the first tkl_kws_init. *)
LEMMA KwsStart == KwsInit => KwsInv
  <1> SUFFICES ASSUME KwsInit PROVE KwsInv
    OBVIOUS
  <1>1. KwsTypeOK
    <2>1. 0 \in Bytes /\ 0 \in 0..MODEL_CHUNK_SIZE
      BY KwsAssumption
    <2>2. <<>> \in Seq(Bytes)
      OBVIOUS
    <2>3. in \in 0..len /\ out \in 0..len /\ wlen \in Nat /\ rlen \in 0..MODEL_CHUNK_SIZE
      BY <2>1 DEF KwsInit, Init
    <2> QED
      BY Zenon, <2>1, <2>2, <2>3 DEF KwsInit, Init, KwsTypeOK
  <1>2. UnreadKept /\ KwsControl /\ KwsRing
    BY Zenon DEF KwsInit, Init, UnreadKept, KwsControl, KwsRing
  <1>3. KwsChunk
    BY DEF KwsInit, Init, KwsChunk, Chain
  <1> QED
    BY <1>1, <1>2, <1>3 DEF KwsInv

(* For every ring, chunk and call length: the driver and the task share    *)
(* the ring of tkl_kws without a lock, and the module is still given whole *)
(* chunks of consecutive cells and the process ends only after a deinit,   *)
(* when processing and sleep outlast a ring write.                         *)
THEOREM KwsChunksConsecutive ==
    ASSUME SleepOutlastsWrite
    PROVE  KwsSpec => []ChunksConsecutive
  BY KwsStart, KwsStep, KwsInvImplies, PTL DEF KwsSpec

-------------------------------------------------------------------------------
(* The three lengths agree; between calls at most one frame is left over,  *)
(* and inside the detector more than one frame and at most two.            *)
Leftover ==
    /\ lens \in [Streams -> Nat]
    /\ lens["mic"] = lens["ref"] /\ lens["out"] = lens["ref"]
    /\ ~busy => lens["ref"] <= AEC_VAD_FRAME_SIZE
    /\ busy => /\ lens["ref"] > AEC_VAD_FRAME_SIZE
               /\ lens["ref"] <= 2 * AEC_VAD_FRAME_SIZE
    /\ ~dropped

(* A call of at most one frame, started with at most one frame left over,  *)
(* does not meet the test that discards, and leaves at most one frame.     *)
LEMMA LeftoverStep ==
    ASSUME \A n \in Calls : n <= AEC_VAD_FRAME_SIZE
    PROVE  Leftover /\ [VadNext]_vadvars => Leftover'
<1> SUFFICES ASSUME Leftover, [VadNext]_vadvars PROVE Leftover'
  OBVIOUS
<1> USE VadAssumption DEF Leftover, Streams
<1>1. CASE tkl_vad_init \/ tkl_vad_deinit \/ tkl_vad_start \/ tkl_vad_stop
  BY <1>1 DEF tkl_vad_init, tkl_vad_deinit, tkl_vad_start, tkl_vad_stop
<1>2. ASSUME NEW n \in Calls, ProcessDiscard(n) PROVE Leftover'
  BY <1>2 DEF ProcessDiscard, Discards
<1>3. ASSUME NEW n \in Calls, ProcessStore(n) PROVE Leftover'
  <2>1. /\ n \in Nat /\ n <= AEC_VAD_FRAME_SIZE
        /\ lens["ref"] \in Nat /\ lens["ref"] <= AEC_VAD_FRAME_SIZE
    BY Zenon, <1>3 DEF ProcessStore
  <2>2. /\ lens' \in [Streams -> Nat]
        /\ \A s \in Streams : lens'[s] = lens["ref"] + n
        /\ ~dropped'
    BY <1>3, <2>1 DEF ProcessStore
  <2>3. busy' = (lens["ref"] + n > AEC_VAD_FRAME_SIZE)
    BY Zenon, <1>3 DEF ProcessStore
  <2>4. CASE lens["ref"] + n > AEC_VAD_FRAME_SIZE
    <3>1. busy'
      BY Zenon, <2>3, <2>4
    <3> QED
      BY <2>1, <2>2, <2>4, <3>1
  <2>5. CASE ~(lens["ref"] + n > AEC_VAD_FRAME_SIZE)
    <3>1. ~busy'
      BY Zenon, <2>3, <2>5
    <3> QED
      BY <2>1, <2>2, <2>5, <3>1
  <2> QED
    BY Zenon, <2>4, <2>5
<1>4. CASE aec_vad_process
  BY <1>4 DEF aec_vad_process
<1>5. CASE UNCHANGED vadvars
  BY Zenon, <1>5 DEF vadvars
<1> QED
  BY Zenon, <1>1, <1>2, <1>3, <1>4, <1>5 DEF VadNext, tkl_vad_process

(* When no driver call is longer than a frame, tkl_vad never discards      *)
(* audio, whatever the frame length and however init and deinit come       *)
(* between the calls.                                                      *)
THEOREM VadDiscardsNothing ==
    ASSUME \A n \in Calls : n <= AEC_VAD_FRAME_SIZE
    PROVE  VadSpec => []NothingDiscarded
<1>1. VadInit => Leftover
  BY VadAssumption DEF VadInit, Leftover, Streams
<1>2. Leftover /\ [VadNext]_vadvars => Leftover'
  BY Zenon, LeftoverStep
<1>3. Leftover => NothingDiscarded
  BY Zenon DEF Leftover, NothingDiscarded
<1> QED
  BY <1>1, <1>2, <1>3, PTL DEF VadSpec

-------------------------------------------------------------------------------
(* The three lengths agree, so the test of the reference stream alone, by  *)
(* which the detector is run, speaks for all of them.                      *)
Inside ==
    /\ lens \in [Streams -> 0..AEC_VAD_RING_BUFF_LEN]
    /\ lens["mic"] = lens["ref"] /\ lens["out"] = lens["ref"]
    /\ busy => lens["ref"] > AEC_VAD_FRAME_SIZE

(* A call of any length keeps the streams equal and inside the buffers.    *)
LEMMA InsideStep == Inside /\ [VadNext]_vadvars => Inside'
<1> SUFFICES ASSUME Inside, [VadNext]_vadvars PROVE Inside'
  OBVIOUS
<1> USE VadAssumption DEF Inside, Streams
<1>1. CASE tkl_vad_init \/ tkl_vad_deinit \/ tkl_vad_start \/ tkl_vad_stop
  BY <1>1 DEF tkl_vad_init, tkl_vad_deinit, tkl_vad_start, tkl_vad_stop
<1>2. ASSUME NEW n \in Calls, ProcessDiscard(n) PROVE Inside'
  BY Zenon, <1>2 DEF ProcessDiscard
<1>3. ASSUME NEW n \in Calls, ProcessStore(n) PROVE Inside'
  <2>1. n \in Nat /\ lens["ref"] \in Nat /\ lens["ref"] + n <= AEC_VAD_RING_BUFF_LEN
    BY <1>3 DEF ProcessStore, Discards
  <2>2. /\ lens' \in [Streams -> 0..AEC_VAD_RING_BUFF_LEN]
        /\ \A s \in Streams : lens'[s] = lens["ref"] + n
    BY <1>3, <2>1 DEF ProcessStore
  <2>3. busy' = (lens["ref"] + n > AEC_VAD_FRAME_SIZE)
    BY Zenon, <1>3 DEF ProcessStore
  <2>4. busy' => lens'["ref"] > AEC_VAD_FRAME_SIZE
    <3>1. lens'["ref"] = lens["ref"] + n
      BY Zenon, <2>2
    <3> QED
      BY Zenon, <2>3, <3>1
  <2> QED
    BY Zenon, <2>2, <2>4
<1>4. CASE aec_vad_process
  <2>1. lens["ref"] > AEC_VAD_FRAME_SIZE /\ lens["ref"] \in 0..AEC_VAD_RING_BUFF_LEN
    BY Zenon, <1>4 DEF aec_vad_process
  <2> QED
    BY <1>4, <2>1 DEF aec_vad_process
<1>5. CASE UNCHANGED vadvars
  BY Zenon, <1>5 DEF vadvars
<1> QED
  BY Zenon, <1>1, <1>2, <1>3, <1>4, <1>5 DEF VadNext, tkl_vad_process

(* Only a detection that exists is fed. *)
Ready == VadTypeOK /\ (vad_feed => handle = Handles)

(* No call registers the callback without all three handles. *)
LEMMA ReadyStep == Inside /\ Inside' /\ Ready /\ [VadNext]_vadvars => Ready'
<1> SUFFICES ASSUME Inside, Inside', Ready, [VadNext]_vadvars PROVE Ready'
  OBVIOUS
<1>1. lens' \in [Streams -> Nat]
  BY VadAssumption DEF Inside
<1>2. CASE tkl_vad_init
  <2>1. /\ handle' \subseteq Handles /\ vad_feed' \in BOOLEAN
        /\ vad_feed' => handle' = Handles
    BY Zenon, <1>2 DEF tkl_vad_init
  <2>2. flag' \in BOOLEAN /\ busy' \in BOOLEAN /\ dropped' \in BOOLEAN
    BY Zenon, <1>2 DEF tkl_vad_init, Ready, VadTypeOK
  <2> QED
    BY Zenon, <1>1, <2>1, <2>2 DEF Ready, VadTypeOK
<1>3. CASE tkl_vad_deinit
  <2>1. handle' \subseteq Handles /\ vad_feed' = FALSE
    BY Zenon, <1>3 DEF tkl_vad_deinit
  <2>2. flag' \in BOOLEAN /\ busy' \in BOOLEAN /\ dropped' \in BOOLEAN
    BY Zenon, <1>3 DEF tkl_vad_deinit, Ready, VadTypeOK
  <2> QED
    BY Zenon, <1>1, <2>1, <2>2 DEF Ready, VadTypeOK
<1>4. CASE tkl_vad_start \/ tkl_vad_stop
  <2>1. UNCHANGED <<handle, vad_feed>>
    BY Zenon, <1>4 DEF tkl_vad_start, tkl_vad_stop
  <2>2. flag' \in BOOLEAN /\ busy' \in BOOLEAN /\ dropped' \in BOOLEAN
    BY Zenon, <1>4 DEF tkl_vad_start, tkl_vad_stop, Ready, VadTypeOK
  <2> QED
    BY Zenon, <1>1, <2>1, <2>2 DEF Ready, VadTypeOK
<1>5. ASSUME NEW n \in Calls, ProcessDiscard(n) PROVE Ready'
  BY Zenon, <1>1, <1>5 DEF Ready, VadTypeOK, ProcessDiscard
<1>6. ASSUME NEW n \in Calls, ProcessStore(n) PROVE Ready'
  <2>1. busy' \in BOOLEAN
    BY <1>6 DEF ProcessStore
  <2> QED
    BY Zenon, <1>1, <1>6, <2>1 DEF Ready, VadTypeOK, ProcessStore
<1>7. CASE aec_vad_process
  <2>1. flag' \in BOOLEAN
    BY Zenon, <1>7 DEF Ready, VadTypeOK, aec_vad_process
  <2> QED
    BY Zenon, <1>1, <1>7, <2>1 DEF Ready, VadTypeOK, aec_vad_process
<1>8. CASE UNCHANGED vadvars
  BY Zenon, <1>8 DEF Ready, VadTypeOK, vadvars
<1> QED
  BY Zenon, <1>2, <1>3, <1>4, <1>5, <1>6, <1>7, <1>8 DEF VadNext, tkl_vad_process

(* Whatever lengths the driver calls back with, __tkl_vad_process copies   *)
(* nothing past the end of a buffer, and takes a frame only off buffers    *)
(* that hold more than one.                                                *)
THEOREM VadStaysInsideBuffers == VadSpec => []StreamsInsideBuffers
<1>0. VadInit => Inside
  BY VadAssumption DEF VadInit, Inside, Streams
<1>1. VadInit => Ready
  <2>1. VadInit => lens \in [Streams -> Nat]
    BY DEF VadInit
  <2> QED
    BY Zenon, <2>1 DEF VadInit, Ready, VadTypeOK
<1>2. Inside /\ [VadNext]_vadvars => Inside'
  BY InsideStep
<1>3. Inside /\ Inside' /\ Ready /\ [VadNext]_vadvars => Ready'
  BY ReadyStep
<1>4. Inside /\ Ready => StreamsInsideBuffers
  BY Zenon DEF Inside, Ready, StreamsInsideBuffers, Streams
<1> QED
  BY <1>0, <1>1, <1>2, <1>3, <1>4, PTL DEF VadSpec
===============================================================================
