---------------------------- MODULE PortsProofs -----------------------------
(***************************************************************************)
(* Proofs about the I2C bus, the SPI port and the camera.                  *)
(***************************************************************************)
EXTENDS TklI2c, TklSpi, TklCameraV4l2, TLAPS

-----------------------------------------------------------------------------
(* An element of a sequence over S is in S. *)
LEMMA SeqElement ==
    ASSUME NEW S, NEW s \in Seq(S), NEW i \in 1..Len(s)
    PROVE  s[i] \in S
  OBVIOUS

(* The empty sequence, and what is not empty. *)
LEMMA SeqEmpty ==
    ASSUME NEW S
    PROVE  /\ <<>> \in Seq(S) /\ Len(<<>>) = 0
           /\ \A s \in Seq(S) : s # <<>> => Len(s) \in Nat \ {0}
  OBVIOUS

(* A sequence is a function on 1 .. its length. *)
LEMMA SeqTyped ==
    ASSUME NEW S, NEW s \in Seq(S)
    PROVE  Len(s) \in Nat /\ s \in [1..Len(s) -> S] /\ DOMAIN s = 1..Len(s)
  OBVIOUS

(* Two sequences one behind the other. *)
LEMMA SeqJoined ==
    ASSUME NEW S, NEW s \in Seq(S), NEW t \in Seq(S)
    PROVE  /\ s \o t \in Seq(S) /\ Len(s \o t) = Len(s) + Len(t)
           /\ \A i \in 1..(Len(s) + Len(t)) :
                (s \o t)[i] = IF i <= Len(s) THEN s[i] ELSE t[i - Len(s)]
  OBVIOUS

(* The first element and the rest. *)
LEMMA SeqTail ==
    ASSUME NEW S, NEW s \in Seq(S), s # <<>>
    PROVE  /\ Head(s) \in S /\ Tail(s) \in Seq(S)
           /\ Len(Tail(s)) = Len(s) - 1
           /\ \A i \in 1..Len(Tail(s)) : Tail(s)[i] = s[i + 1]
  OBVIOUS

(* A sequence with one more element. *)
LEMMA SeqAppended ==
    ASSUME NEW S, NEW s \in Seq(S), NEW e \in S
    PROVE  /\ Append(s, e) \in Seq(S) /\ Append(s, e) # <<>>
           /\ Len(Append(s, e)) = Len(s) + 1
           /\ \A i \in 1..Len(s) : Append(s, e)[i] = s[i]
           /\ Append(s, e)[Len(s) + 1] = e
  <1>1. Len(Append(s, e)) = Len(s) + 1 /\ Len(s) \in Nat /\ Len(<<>>) = 0
    OBVIOUS
  <1> QED
    BY <1>1

-----------------------------------------------------------------------------
(* I2C *)

(* The first three for any number of callers, addresses and sizes.  The    *)
(* bytes on the bus belong to calls made so far, and the pending write is  *)
(* one that has not been on the bus, with the length its caller was told.  *)
Bounds == MaxCalls \in Nat /\ MaxTransfer \in Nat /\ PENDING_MAX \in Nat

Transaction == [by : Callers, op : {"probe", "read", "write", "rdwr"},
                to : Addrs \cup {0}, for : Addrs, msg : Nat, len : Nat, owed : Nat]

Typed ==
    /\ wire \in Seq(Transaction)
    /\ calls \in 0..MaxCalls
    /\ counted \in [1..MaxCalls -> Nat]
    /\ owed \in [Callers -> [msg : Nat, addr : Addrs \cup {0}]]
    /\ slave \in Addrs \cup {0}
    /\ pending \in [valid : BOOLEAN, addr : Addrs \cup {0}, len : Nat, msg : 0..MaxCalls]

OnBus ==
    /\ \A i \in 1..Len(wire) : wire[i].msg <= calls
    /\ SentAtMostOnce /\ CountedBytesAreSent /\ ReachesOwnDevice

PendingFresh ==
    pending.valid =>
        /\ pending.msg \in 1..calls
        /\ pending.len = counted[pending.msg]
        /\ \A i \in 1..Len(wire) : wire[i].msg # pending.msg

Bus == Typed /\ OnBus /\ PendingFresh

(* A transaction may follow when it carries no message, or one that has    *)
(* not been on the bus, of the length that was counted.                    *)
Follows(e) ==
    /\ e.to = e.for
    /\ e.msg \in 0..(calls + 1)
    /\ e.msg # 0 => /\ e.len = counted'[e.msg]
                    /\ \A i \in 1..Len(wire) : wire[i].msg # e.msg

(* The step of a call on the bus: nothing, or one transaction. *)
LEMMA BusStep ==
    ASSUME Bounds, Typed, OnBus, NEW e \in Transaction,
           calls' = calls + 1, \A m \in 1..calls : counted'[m] = counted[m],
           \/ wire' = wire
           \/ wire' = Append(wire, e) /\ Follows(e)
    PROVE  /\ wire' \in Seq(Transaction) /\ OnBus'
           /\ \A i \in 1..Len(wire') : \/ i \in 1..Len(wire) /\ wire'[i] = wire[i]
                                       \/ wire' = Append(wire, e) /\ wire'[i] = e
<1> USE DEF Typed
<1>1. /\ wire' \in Seq(Transaction) /\ Len(wire) \in Nat /\ Len(wire') \in Nat
      /\ \A i \in 1..Len(wire') :
            \/ i \in 1..Len(wire) /\ wire'[i] = wire[i]
            \/ /\ i = Len(wire) + 1 /\ wire'[i] = e /\ Follows(e)
               /\ wire' = Append(wire, e)
  <2>1. CASE wire' = wire
    BY <2>1
  <2>2. CASE wire' = Append(wire, e) /\ Follows(e)
    BY <2>2
  <2> QED
    BY <2>1, <2>2
<1>2. calls \in Nat /\ \A i \in 1..Len(wire) : wire[i] \in Transaction
  BY DEF Bounds
<1>3. \A i \in 1..Len(wire) : wire[i].msg \in Nat /\ wire[i].msg <= calls
  <2>1. \A x \in Transaction : x.msg \in Nat
    BY DEF Transaction
  <2> QED
    BY <1>2, <2>1 DEF OnBus
<1>4. \A i \in 1..Len(wire') : wire'[i].msg <= calls'
  <2> TAKE i \in 1..Len(wire')
  <2>1. CASE i \in 1..Len(wire) /\ wire'[i] = wire[i]
    BY <1>2, <1>3, <2>1
  <2>2. CASE wire'[i] = e /\ Follows(e)
    BY <1>2, <2>2 DEF Follows
  <2> QED
    BY Zenon, <1>1, <2>1, <2>2
<1>5. SentAtMostOnce'
  <2> SUFFICES ASSUME NEW i \in 1..Len(wire'), NEW j \in 1..Len(wire'),
                      wire'[i].msg # 0, wire'[i].msg = wire'[j].msg
               PROVE  i = j
    BY DEF SentAtMostOnce
  <2>1. CASE i \in 1..Len(wire) /\ j \in 1..Len(wire)
    <3>1. wire'[i] = wire[i] /\ wire'[j] = wire[j]
      BY <1>1, <2>1
    <3> QED
      BY <2>1, <3>1 DEF OnBus, SentAtMostOnce
  <2>2. CASE i \in 1..Len(wire) /\ j \notin 1..Len(wire)
    <3>1. wire'[i] = wire[i] /\ wire'[j] = e /\ Follows(e)
      BY <1>1, <2>2
    <3> QED
      BY <2>2, <3>1 DEF Follows
  <2>3. CASE i \notin 1..Len(wire) /\ j \in 1..Len(wire)
    <3>1. wire'[j] = wire[j] /\ wire'[i] = e /\ Follows(e)
      BY <1>1, <2>3
    <3> QED
      BY <2>3, <3>1 DEF Follows
  <2>4. CASE i \notin 1..Len(wire) /\ j \notin 1..Len(wire)
    BY <1>1, <2>4
  <2> QED
    BY <2>1, <2>2, <2>3, <2>4
<1>6. CountedBytesAreSent'
  <2> SUFFICES ASSUME NEW i \in 1..Len(wire'), wire'[i].msg # 0
               PROVE  wire'[i].len = counted'[wire'[i].msg]
    BY DEF CountedBytesAreSent
  <2>1. CASE i \in 1..Len(wire)
    <3>1. wire'[i] = wire[i]
      BY <1>1, <2>1
    <3>2. wire[i].msg \in 1..calls
      BY <1>2, <1>3, <2>1, <3>1
    <3>3. wire[i].len = counted[wire[i].msg]
      BY Zenon, <2>1, <3>1 DEF OnBus, CountedBytesAreSent
    <3> QED
      BY Zenon, <3>1, <3>2, <3>3
  <2>2. CASE i \notin 1..Len(wire)
    BY <1>1, <2>2 DEF Follows
  <2> QED
    BY <2>1, <2>2
<1>7. ReachesOwnDevice'
  BY <1>1 DEF OnBus, ReachesOwnDevice, Follows
<1> QED
  BY <1>1, <1>4, <1>5, <1>6, <1>7 DEF OnBus

(* Transactions without a pending message leave the pending write alone. *)
LEMMA PendingKept ==
    ASSUME Bounds, Bus, NEW e \in Transaction,
           UNCHANGED pending,
           calls' = calls + 1, \A m \in 1..calls : counted'[m] = counted[m],
           e.msg \in {0, calls + 1},
           \A i \in 1..Len(wire') : \/ i \in 1..Len(wire) /\ wire'[i] = wire[i]
                                    \/ wire'[i] = e
    PROVE  PendingFresh'
<1> SUFFICES ASSUME pending.valid
             PROVE  /\ pending.msg \in 1..calls' /\ pending.len = counted'[pending.msg]
                    /\ \A i \in 1..Len(wire') : wire'[i].msg # pending.msg
  BY DEF PendingFresh
<1>1. calls \in Nat
  BY DEF Bounds, Bus, Typed
<1>2. /\ pending.msg \in 1..calls /\ pending.len = counted[pending.msg]
      /\ \A i \in 1..Len(wire) : wire[i].msg # pending.msg
  BY DEF Bus, PendingFresh
<1>3. pending.msg \in 1..calls' /\ e.msg # pending.msg
  BY <1>1, <1>2
<1> QED
  BY Zenon, <1>2, <1>3

(* What a call puts on the bus. *)
Entry(c, op, to, for, msg, len) ==
    [by |-> c, op |-> op, to |-> to, for |-> for, msg |-> msg, len |-> len,
     owed |-> IF owed[c].addr = for THEN owed[c].msg ELSE 0]

(* An entry is a transaction, with the fields it was given. *)
LEMMA EntryFields ==
    ASSUME Typed, NEW c \in Callers, NEW op \in {"probe", "read", "write", "rdwr"},
           NEW to \in Addrs \cup {0}, NEW for \in Addrs, NEW msg \in Nat, NEW len \in Nat
    PROVE  LET e == Entry(c, op, to, for, msg, len)
           IN  /\ e \in Transaction /\ e.to = to /\ e.for = for
               /\ e.msg = msg /\ e.len = len
               /\ OnWire(c, op, to, for, msg, len) => wire' = Append(wire, e)
<1>1. owed[c].msg \in Nat
  BY DEF Typed
<1> QED
  BY <1>1 DEF Entry, Transaction, OnWire

(* Every call is counted, whatever it remembers. *)
LEMMA CalledTyped ==
    ASSUME Bounds, Typed, NEW c \in Callers,
           NEW r \in [msg : Nat, addr : Addrs \cup {0}], Called(c, r)
    PROVE  /\ calls \in Nat /\ calls + 1 \in 1..MaxCalls
           /\ calls' = calls + 1 /\ calls' \in 0..MaxCalls
           /\ owed' \in [Callers -> [msg : Nat, addr : Addrs \cup {0}]]
<1>1. /\ calls \in Nat /\ calls + 1 \in 1..MaxCalls
      /\ calls' = calls + 1 /\ calls' \in 0..MaxCalls
  BY DEF Bounds, Typed, Called
<1>2. Nothing \in [msg : Nat, addr : Addrs \cup {0}]
  BY DEF Nothing
<1> QED
  BY <1>1, <1>2 DEF Called

(* A probe, a write or a plain read leaves the pending write where it is,  *)
(* a combined transfer takes it.                                           *)
LEMMA CallKeepsBus ==
    ASSUME Bounds, Bus, NEW c \in Callers, NEW a \in Addrs, NEW size \in 0..MaxTransfer,
           \/ Probe(c, a) \/ SendPending(c, a, size) \/ SendNow(c, a, size)
           \/ ReceiveCombined(c, a, size) \/ ReceivePlain(c, a, size)
    PROVE  Bus'
<1>0. /\ Typed /\ OnBus /\ PendingFresh /\ size \in Nat
      /\ Nothing \in [msg : Nat, addr : Addrs \cup {0}]
  BY DEF Bus, Bounds, Nothing
<1>1. CASE Probe(c, a)
  <2> DEFINE e == Entry(c, "probe", a, a, 0, 0)
  <2>1. /\ calls' = calls + 1 /\ calls' \in 0..MaxCalls /\ calls \in Nat
        /\ owed' \in [Callers -> [msg : Nat, addr : Addrs \cup {0}]]
    BY <1>0, <1>1, CalledTyped DEF Probe
  <2>2. /\ UNCHANGED <<pending, counted>> /\ slave' \in Addrs \cup {0}
        /\ wire' = wire \/ OnWire(c, "probe", a, a, 0, 0)
    BY <1>0, <1>1 DEF Probe, prv_set_slave, Typed
  <2>3. /\ e \in Transaction /\ e.to = a /\ e.for = a /\ e.msg = 0 /\ e.len = 0
        /\ OnWire(c, "probe", a, a, 0, 0) => wire' = Append(wire, e)
    BY <1>0, EntryFields
  <2> HIDE DEF e
  <2>4. wire' = wire \/ (wire' = Append(wire, e) /\ Follows(e))
    BY <2>1, <2>2, <2>3 DEF Follows
  <2>5. /\ wire' \in Seq(Transaction) /\ OnBus'
        /\ \A i \in 1..Len(wire') : \/ i \in 1..Len(wire) /\ wire'[i] = wire[i]
                                    \/ wire'[i] = e
    BY <1>0, <2>1, <2>2, <2>3, <2>4, BusStep
  <2>6. PendingFresh'
    BY <2>1, <2>2, <2>3, <2>5, PendingKept
  <2>7. Typed'
    BY <1>0, <2>1, <2>2, <2>5 DEF Typed
  <2> QED
    BY <2>5, <2>6, <2>7 DEF Bus
<1>2. CASE SendPending(c, a, size)
  <2>1. KeptLen(size) \in Nat
    BY <1>0 DEF KeptLen, Bounds
  <2>2. [msg |-> calls + 1, addr |-> a] \in [msg : Nat, addr : Addrs \cup {0}]
    BY <1>0 DEF Typed, Bounds
  <2>3. /\ calls' = calls + 1 /\ calls' \in 0..MaxCalls /\ calls + 1 \in 1..MaxCalls
        /\ owed' \in [Callers -> [msg : Nat, addr : Addrs \cup {0}]] /\ calls \in Nat
    BY <1>0, <1>2, <2>2, CalledTyped DEF SendPending
  <2>4. /\ UNCHANGED <<slave, wire>>
        /\ pending' = [valid |-> TRUE, addr |-> a, len |-> KeptLen(size), msg |-> calls + 1]
        /\ counted' = [counted EXCEPT ![calls + 1] = KeptLen(size)]
    BY <1>2 DEF SendPending
  <2>5. /\ counted' \in [1..MaxCalls -> Nat] /\ counted'[calls + 1] = KeptLen(size)
        /\ \A m \in 1..calls : counted'[m] = counted[m]
    BY <1>0, <2>1, <2>3, <2>4 DEF Typed
  <2>6. Typed'
    BY <1>0, <2>1, <2>3, <2>4, <2>5 DEF Typed
  <2>7. OnBus'
    <3>1. PICK e : e \in Transaction
      BY <1>0, EntryFields
    <3> QED
      BY <1>0, <2>3, <2>4, <2>5, <3>1, BusStep
  <2>8. \A i \in 1..Len(wire) : wire[i].msg # calls + 1
    BY <1>0, <2>3 DEF OnBus
  <2>9. PendingFresh'
    BY <2>3, <2>4, <2>5, <2>8 DEF PendingFresh
  <2> QED
    BY <2>6, <2>7, <2>9 DEF Bus
<1>3. CASE SendNow(c, a, size)
  <2>1. /\ calls' = calls + 1 /\ calls' \in 0..MaxCalls /\ calls + 1 \in 1..MaxCalls
        /\ owed' \in [Callers -> [msg : Nat, addr : Addrs \cup {0}]] /\ calls \in Nat
    BY <1>0, <1>3, CalledTyped DEF SendNow
  <2>2. /\ UNCHANGED pending /\ slave' \in Addrs \cup {0}
        /\ counted' = [counted EXCEPT ![calls + 1] = last_count']
    BY <1>0, <1>3 DEF SendNow, prv_set_slave, Typed
  <2>3. PICK wr \in Nat : /\ last_count' = wr
                          /\ wire' = wire \/ OnWire(c, "write", a, a, calls + 1, wr)
    <3>1. \/ \E wr \in 0..size : /\ OnWire(c, "write", a, a, calls + 1, wr)
                                 /\ last_count' = wr
          \/ last_count' = 0 /\ wire' = wire
      BY <1>3 DEF SendNow, prv_set_slave
    <3> QED
      BY <1>0, <3>1
  <2> DEFINE e == Entry(c, "write", a, a, calls + 1, wr)
  <2>4. /\ counted' \in [1..MaxCalls -> Nat] /\ counted'[calls + 1] = wr
        /\ \A m \in 1..calls : counted'[m] = counted[m]
    BY <1>0, <2>1, <2>2, <2>3 DEF Typed
  <2>5. \A i \in 1..Len(wire) : wire[i].msg # calls + 1
    BY <1>0, <2>1 DEF OnBus
  <2>6. /\ e \in Transaction /\ e.to = a /\ e.for = a /\ e.msg = calls + 1 /\ e.len = wr
        /\ OnWire(c, "write", a, a, calls + 1, wr) => wire' = Append(wire, e)
    <3>1. owed[c].msg \in Nat
      BY <1>0 DEF Typed
    <3> QED
      BY <2>1, <3>1 DEF Entry, Transaction, OnWire
  <2> HIDE DEF e
  <2>7. wire' = wire \/ (wire' = Append(wire, e) /\ Follows(e))
    BY <2>1, <2>3, <2>4, <2>5, <2>6 DEF Follows
  <2>8. /\ wire' \in Seq(Transaction) /\ OnBus'
        /\ \A i \in 1..Len(wire') : \/ i \in 1..Len(wire) /\ wire'[i] = wire[i]
                                    \/ wire'[i] = e
    BY <1>0, <2>1, <2>4, <2>6, <2>7, BusStep
  <2>9. PendingFresh'
    BY <2>1, <2>2, <2>4, <2>6, <2>8, PendingKept
  <2>10. Typed'
    BY <1>0, <2>1, <2>2, <2>4, <2>8 DEF Typed
  <2> QED
    BY <2>8, <2>9, <2>10 DEF Bus
<1>4. CASE ReceiveCombined(c, a, size)
  <2> DEFINE e == Entry(c, "rdwr", a, a, pending.msg, pending.len)
  <2>1. /\ calls' = calls + 1 /\ calls' \in 0..MaxCalls /\ calls \in Nat
        /\ owed' \in [Callers -> [msg : Nat, addr : Addrs \cup {0}]]
    BY <1>0, <1>4, CalledTyped DEF ReceiveCombined
  <2>2. /\ UNCHANGED <<slave, counted>> /\ pending.valid
        /\ pending' = [pending EXCEPT !.valid = FALSE, !.len = 0]
        /\ wire' = wire \/ OnWire(c, "rdwr", a, a, pending.msg, pending.len)
    BY <1>4 DEF ReceiveCombined
  <2>3. pending.msg \in Nat /\ pending.len \in Nat
    BY <1>0 DEF Typed, Bounds
  <2>4. /\ e \in Transaction /\ e.to = a /\ e.for = a
        /\ e.msg = pending.msg /\ e.len = pending.len
        /\ OnWire(c, "rdwr", a, a, pending.msg, pending.len) => wire' = Append(wire, e)
    <3>1. owed[c].msg \in Nat
      BY <1>0 DEF Typed
    <3> QED
      BY <2>3, <3>1 DEF Entry, Transaction, OnWire
  <2> HIDE DEF e
  <2>5. wire' = wire \/ (wire' = Append(wire, e) /\ Follows(e))
    BY <1>0, <2>1, <2>2, <2>4 DEF Follows, PendingFresh
  <2>6. wire' \in Seq(Transaction) /\ OnBus'
    BY <1>0, <2>1, <2>2, <2>4, <2>5, BusStep
  <2>7. Typed' /\ ~pending'.valid
    BY Zenon, <1>0, <2>1, <2>2, <2>6 DEF Typed
  <2> QED
    BY <2>6, <2>7 DEF Bus, PendingFresh
<1>5. CASE ReceivePlain(c, a, size)
  <2>1. /\ calls' = calls + 1 /\ calls' \in 0..MaxCalls /\ calls \in Nat
        /\ owed' \in [Callers -> [msg : Nat, addr : Addrs \cup {0}]]
    BY <1>0, <1>5, CalledTyped DEF ReceivePlain
  <2>2. UNCHANGED <<pending, counted>> /\ slave' \in Addrs \cup {0}
    BY <1>0, <1>5 DEF ReceivePlain, prv_set_slave, Typed
  <2>3. PICK rd \in Nat : wire' = wire \/ OnWire(c, "read", a, a, 0, rd)
    <3>1. (\E rd \in 0..size : OnWire(c, "read", a, a, 0, rd)) \/ wire' = wire
      BY <1>5 DEF ReceivePlain, prv_set_slave
    <3> QED
      BY <1>0, <3>1
  <2> DEFINE e == Entry(c, "read", a, a, 0, rd)
  <2>4. /\ e \in Transaction /\ e.to = a /\ e.for = a /\ e.msg = 0 /\ e.len = rd
        /\ OnWire(c, "read", a, a, 0, rd) => wire' = Append(wire, e)
    <3>1. Typed /\ 0 \in Nat /\ a \in Addrs \cup {0}
      BY <1>0
    <3>2. "read" \in {"probe", "read", "write", "rdwr"}
      OBVIOUS
    <3> QED
      BY <3>1, <3>2, EntryFields
  <2> HIDE DEF e
  <2>5. wire' = wire \/ (wire' = Append(wire, e) /\ Follows(e))
    BY <2>1, <2>3, <2>4 DEF Follows
  <2>6. /\ wire' \in Seq(Transaction) /\ OnBus'
        /\ \A i \in 1..Len(wire') : \/ i \in 1..Len(wire) /\ wire'[i] = wire[i]
                                    \/ wire'[i] = e
    BY SMTT(30), <1>0, <2>1, <2>2, <2>4, <2>5, BusStep
  <2>7. PendingFresh'
    BY <2>1, <2>2, <2>4, <2>6, PendingKept
  <2>8. Typed'
    BY <1>0, <2>1, <2>2, <2>6 DEF Typed
  <2> QED
    BY <2>6, <2>7, <2>8 DEF Bus
<1> QED
  BY <1>1, <1>2, <1>3, <1>4, <1>5

(* A caller that is owed its pending write has it in the context, and what *)
(* it read of the device it wrote to was read with that write.             *)
Owing ==
    /\ I2cTypeOK /\ RegisterReadCombined
    /\ \A c \in Callers : owed[c].msg # 0 =>
          /\ initialized /\ pending.valid
          /\ pending.msg = owed[c].msg /\ pending.addr = owed[c].addr

(* A transaction that is combined if it had to be keeps all of them so. *)
LEMMA CombinedKept ==
    ASSUME RegisterReadCombined, wire \in Seq(Transaction), NEW e,
           wire' = wire \/ wire' = Append(wire, e),
           e.op \in {"read", "rdwr"} /\ e.owed # 0 => e.msg = e.owed
    PROVE  RegisterReadCombined'
<1>1. \A i \in 1..Len(wire') : wire'[i] = e \/ (i \in 1..Len(wire) /\ wire'[i] = wire[i])
  BY SeqAppended, SeqTyped
<1> QED
  BY <1>1 DEF RegisterReadCombined

(* What is on the bus after a transaction, and what its caller was owed. *)
LEMMA EntryOwed ==
    ASSUME NEW c, NEW op, NEW to, NEW for, NEW msg, NEW len,
           NEW e, e = Entry(c, op, to, for, msg, len)
    PROVE  /\ e.op = op /\ e.msg = msg
           /\ e.owed # 0 => owed[c].addr = for /\ e.owed = owed[c].msg
           /\ OnWire(c, op, to, for, msg, len) => wire' = Append(wire, e)
BY DEF Entry, OnWire

(* A call keeps what each caller is owed. *)
LEMMA CallKeepsOwing ==
    ASSUME Bus, Owing, NEW c \in Callers, NEW a \in Addrs, NEW size \in 0..MaxTransfer,
           \/ Probe(c, a) \/ SendPending(c, a, size) \/ SendNow(c, a, size)
           \/ ReceiveCombined(c, a, size) \/ ReceivePlain(c, a, size)
    PROVE  Owing'
<1>0. /\ wire \in Seq(Transaction) /\ RegisterReadCombined /\ I2cTypeOK
      /\ MaxTransfer \in Nat /\ PENDING_MAX \in Nat /\ size \in Nat /\ size <= MaxTransfer
  BY I2cAssumption DEF Bus, Typed, Owing
<1>1. calls' \in 0..MaxCalls /\ initialized' = initialized /\ initialized /\ calls \in Nat
  BY I2cAssumption, <1>0 DEF Called, Probe, SendPending, SendNow, ReceiveCombined,
     ReceivePlain,
     I2cTypeOK
<1>2. ASSUME Called(c, Nothing), slave' \in {slave, a},
             last_count' \in 0..MaxTransfer,
             pending' = pending \/ pending' = [pending EXCEPT !.valid = FALSE, !.len = 0],
             RegisterReadCombined'
      PROVE  Owing'
  <2>1. \A d \in Callers : owed'[d].msg = 0
    BY <1>2 DEF Called, Nothing
  <2>2. pending' \in [valid : BOOLEAN, addr : Addrs \cup {0},
                    len : 0..PENDING_MAX, msg : 0..MaxCalls]
    <3>1. 0 \in 0..PENDING_MAX
      BY <1>0
    <3> QED
      BY Zenon, <1>0, <1>2, <3>1 DEF I2cTypeOK
  <2>3. I2cTypeOK'
    BY <1>0, <1>1, <1>2, <2>2 DEF I2cTypeOK
  <2> QED
    BY <1>2, <2>1, <2>3 DEF Owing
<1>3. CASE Probe(c, a)
  <2>1. /\ Called(c, Nothing) /\ last_count' = 0 /\ slave' \in {slave, a} /\ pending' = pending
        /\ wire' = wire \/ OnWire(c, "probe", a, a, 0, 0)
    BY <1>3 DEF Probe, prv_set_slave
  <2>2. PICK e : e = Entry(c, "probe", a, a, 0, 0)
    OBVIOUS
  <2>e. e.op = "probe" /\ (OnWire(c, "probe", a, a, 0, 0) => wire' = Append(wire, e))
    BY <2>2, EntryOwed
  <2>3. wire' = wire \/ wire' = Append(wire, e)
    BY <2>1, <2>e
  <2>4. RegisterReadCombined'
    BY <1>0, <2>3, <2>e, CombinedKept
  <2> QED
    BY <1>0, <1>2, <2>1, <2>4
<1>4. CASE SendPending(c, a, size)
  <2>1. /\ Called(c, [msg |-> calls + 1, addr |-> a]) /\ slave' = slave /\ wire' = wire
        /\ pending' = [valid |-> TRUE, addr |-> a, len |-> KeptLen(size), msg |-> calls + 1]
        /\ last_count' = KeptLen(size)
    BY <1>4 DEF SendPending
  <2>2. KeptLen(size) \in 0..PENDING_MAX /\ KeptLen(size) \in 0..MaxTransfer
    BY <1>0 DEF KeptLen
  <2>3. calls' = calls + 1
    BY <2>1 DEF Called
  <2>4. pending' \in [valid : BOOLEAN, addr : Addrs \cup {0},
                    len : 0..PENDING_MAX, msg : 0..MaxCalls]
    BY <1>1, <2>1, <2>2, <2>3
  <2>5. I2cTypeOK'
    BY <1>0, <1>1, <2>1, <2>2, <2>4 DEF I2cTypeOK
  <2>6. RegisterReadCombined'
    BY SMTT(30), <1>0, <2>1 DEF RegisterReadCombined
  <2>7. \A d \in Callers : owed'[d].msg # 0 => owed'[d] = [msg |-> calls + 1, addr |-> a]
    BY <2>1 DEF Called, Nothing
  <2>8. pending'.valid /\ pending'.msg = calls + 1 /\ pending'.addr = a
    BY <2>1
  <2>9. \A d \in Callers : owed'[d].msg # 0 =>
          /\ initialized' /\ pending'.valid
          /\ pending'.msg = owed'[d].msg /\ pending'.addr = owed'[d].addr
    BY <1>1, <2>7, <2>8
  <2> QED
    BY SMTT(30), <2>5, <2>6, <2>9 DEF Owing
<1>5. CASE SendNow(c, a, size)
  <2>1. PICK wr \in 0..size :
          /\ Called(c, Nothing) /\ last_count' = wr
          /\ slave' \in {slave, a} /\ pending' = pending
          /\ wire' = wire \/ OnWire(c, "write", slave', a, calls + 1, wr)
    BY <1>0, <1>5 DEF SendNow, prv_set_slave
  <2>2. PICK e : e = Entry(c, "write", slave', a, calls + 1, wr)
    OBVIOUS
  <2>e. /\ e.op = "write"
        /\ OnWire(c, "write", slave', a, calls + 1, wr) => wire' = Append(wire, e)
    BY SMTT(30), <2>2, EntryOwed
  <2>3. wire' = wire \/ wire' = Append(wire, e)
    BY <2>1, <2>e
  <2>4. RegisterReadCombined'
    BY <1>0, <2>3, <2>e, CombinedKept
  <2>5. last_count' \in 0..MaxTransfer
    BY <1>0, <2>1
  <2> QED
    BY <1>2, <2>1, <2>4, <2>5
<1>6. CASE ReceiveCombined(c, a, size)
  <2>1. /\ Called(c, Nothing) /\ last_count' \in {0, size} /\ slave' = slave
        /\ pending' = [pending EXCEPT !.valid = FALSE, !.len = 0]
        /\ wire' = wire \/ OnWire(c, "rdwr", a, a, pending.msg, pending.len)
    BY <1>6 DEF ReceiveCombined
  <2>2. PICK e : e = Entry(c, "rdwr", a, a, pending.msg, pending.len)
    OBVIOUS
  <2>e. /\ e.msg = pending.msg /\ (e.owed # 0 => e.owed = owed[c].msg)
        /\ OnWire(c, "rdwr", a, a, pending.msg, pending.len) => wire' = Append(wire, e)
    BY SMTT(30), <2>2, EntryOwed
  <2>3. wire' = wire \/ wire' = Append(wire, e)
    BY <2>1, <2>e
  <2>4. e.owed # 0 => e.msg = e.owed
    BY <2>e DEF Owing
  <2>5. RegisterReadCombined'
    BY <1>0, <2>3, <2>4, CombinedKept
  <2>6. last_count' \in 0..MaxTransfer
    BY <1>0, <2>1
  <2> QED
    BY <1>2, <2>1, <2>5, <2>6
<1>7. CASE ReceivePlain(c, a, size)
  <2>1. PICK rd \in 0..size :
          /\ Called(c, Nothing) /\ last_count' = rd
          /\ slave' \in {slave, a} /\ pending' = pending
          /\ wire' = wire \/ OnWire(c, "read", slave', a, 0, rd)
    BY <1>0, <1>7 DEF ReceivePlain, prv_set_slave
  <2>2. PICK e : e = Entry(c, "read", slave', a, 0, rd)
    OBVIOUS
  <2>e. /\ e.owed # 0 => owed[c].addr = a /\ e.owed = owed[c].msg
        /\ OnWire(c, "read", slave', a, 0, rd) => wire' = Append(wire, e)
    BY SMTT(30), <2>2, EntryOwed
  <2>3. wire' = wire \/ wire' = Append(wire, e)
    BY <2>1, <2>e
  <2>4. ~(pending.valid /\ pending.addr = a)
    BY <1>7 DEF ReceivePlain
  <2>5. e.owed = 0
    BY <2>4, <2>e DEF Owing
  <2>6. RegisterReadCombined'
    BY <1>0, <2>3, <2>5, CombinedKept
  <2>7. last_count' \in 0..MaxTransfer
    BY <1>0, <2>1
  <2> QED
    BY <1>2, <2>1, <2>6, <2>7
<1> QED
  BY <1>3, <1>4, <1>5, <1>6, <1>7

(* With any callers on a port, a message is on the bus at most once, with  *)
(* the bytes its caller was told of, every transaction reaches the device  *)
(* it is for, and a pending send goes out with the receive that follows.   *)
THEOREM I2cPendingWritePaired == I2cSpec => []PendingWritePaired
<1>a. Bounds
  BY I2cAssumption DEF Bounds
<1>1. I2cInit => Bus /\ Owing
  <2> SUFFICES ASSUME I2cInit PROVE Bus /\ Owing
    OBVIOUS
  <2>1. Bus
    BY <1>a DEF I2cInit, Bus, Typed, OnBus, PendingFresh, Bounds, NoPending, Nothing,
         SentAtMostOnce, CountedBytesAreSent, ReachesOwnDevice
  <2>2. Owing
    <3>1. I2cTypeOK
      <4>1. 0 \in 0..PENDING_MAX /\ 0 \in 0..MaxCalls /\ 0 \in 0..MaxTransfer
        BY <1>a DEF Bounds
      <4> QED
        BY Zenon, <4>1 DEF I2cInit, I2cTypeOK, NoPending
    <3>2. RegisterReadCombined /\ \A c \in Callers : owed[c].msg = 0
      BY DEF I2cInit, RegisterReadCombined, Nothing
    <3> QED
      BY <3>1, <3>2 DEF Owing
  <2> QED
    BY <2>1, <2>2
<1>2. Bus /\ Owing /\ [I2cNext]_i2c => Bus' /\ Owing'
  <2> SUFFICES ASSUME Bus, Owing, [I2cNext]_i2c PROVE Bus' /\ Owing'
    OBVIOUS
  <2>1. CASE tkl_i2c_init \/ tkl_i2c_deinit
    <3>1. /\ UNCHANGED <<wire, calls, counted>> /\ slave' = 0 /\ pending' = NoPending
          /\ last_count' = 0 /\ initialized' \in BOOLEAN
          /\ \/ owed' = owed /\ ~initialized
             \/ owed' = [c \in Callers |-> Nothing]
      BY Zenon, <2>1 DEF tkl_i2c_init, tkl_i2c_deinit
    <3>2. Typed' /\ ~pending'.valid
      BY <1>a, <3>1 DEF Bus, Typed, Bounds, NoPending, Nothing
    <3>3. OnBus'
      BY <3>1 DEF Bus, OnBus, SentAtMostOnce, CountedBytesAreSent, ReachesOwnDevice
    <3>4. I2cTypeOK'
      BY <1>a, <3>1 DEF Owing, I2cTypeOK, Bounds, NoPending
    <3>5. RegisterReadCombined'
      BY <3>1 DEF Owing, RegisterReadCombined
    <3>6. \A c \in Callers : owed'[c].msg = 0
      BY <3>1 DEF Owing, Nothing
    <3> QED
      BY <3>2, <3>3, <3>4, <3>5, <3>6 DEF Bus, PendingFresh, Owing
  <2>2. ASSUME NEW c \in Callers, NEW a \in Addrs, Probe(c, a) PROVE Bus' /\ Owing'
    <3>1. 0 \in 0..MaxTransfer
      BY <1>a DEF Bounds
    <3> QED
      BY <1>a, <2>2, <3>1, CallKeepsBus, CallKeepsOwing
  <2>3. ASSUME NEW c \in Callers, NEW a \in Addrs, NEW size \in 1..MaxTransfer,
               \/ SendPending(c, a, size) \/ SendNow(c, a, size)
               \/ ReceiveCombined(c, a, size) \/ ReceivePlain(c, a, size)
        PROVE  Bus' /\ Owing'
    <3>1. size \in 0..MaxTransfer
      BY <1>a DEF Bounds
    <3> QED
      BY <1>a, <2>3, <3>1, CallKeepsBus, CallKeepsOwing
  <2>4. CASE UNCHANGED i2c
    <3>1. Bus'
      BY <2>4 DEF i2c, Bus, Typed, OnBus, PendingFresh, SentAtMostOnce,
                CountedBytesAreSent, ReachesOwnDevice
    <3>2. Owing'
      BY <2>4 DEF i2c, Owing, I2cTypeOK, RegisterReadCombined
    <3> QED
      BY <3>1, <3>2
  <2> QED
    BY <2>1, <2>2, <2>3, <2>4 DEF I2cNext
<1>3. Bus /\ Owing => PendingWritePaired
  BY DEF Bus, OnBus, Owing, PendingWritePaired
<1> QED
  BY <1>1, <1>2, <1>3, PTL DEF I2cSpec

-----------------------------------------------------------------------------
(* SPI *)

(* The SPI port for any callers, descriptors and configurations.  The      *)
(* file of an initialized port is open and set as ctx->cfg says.           *)
SpiInv ==
    /\ spi_ctx \in [initialized : BOOLEAN, fd : Nat, last_count : 0..(2 * MaxSize),
                    cfg : {spi_ctx.cfg}]
    /\ ClosedFileUnused
    /\ spi_ctx.initialized => files[spi_ctx.fd] = prv_apply_cfg(spi_ctx.cfg)
    /\ \A c \in SpiCallers : pc[c].size \in 0..(2 * MaxSize)
    /\ DOMAIN pc = SpiCallers

(* Counting leaves the rest of the context alone. *)
LEMMA OnlyCounted ==
    ASSUME SpiInv, NEW n \in 0..(2 * MaxSize), spi_ctx' = [spi_ctx EXCEPT !.last_count = n]
    PROVE  /\ spi_ctx'.initialized = spi_ctx.initialized /\ spi_ctx'.fd = spi_ctx.fd
           /\ spi_ctx'.last_count = n /\ spi_ctx'.cfg = spi_ctx.cfg
           /\ spi_ctx' \in [initialized : BOOLEAN, fd : Nat, last_count : 0..(2 * MaxSize),
                            cfg : {spi_ctx'.cfg}]
BY DEF SpiInv

(* A transfer on the port's own descriptor uses what is open and agreed.   *)
LEMMA OwnTransfer ==
    ASSUME SpiInv, spi_ctx.initialized, UNCHANGED files,
           Transfer(spi_ctx.fd, prv_apply_cfg(spi_ctx.cfg)),
           NEW n \in 0..(2 * MaxSize), spi_ctx' = [spi_ctx EXCEPT !.last_count = n],
           \A c \in SpiCallers : pc'[c].size \in 0..(2 * MaxSize),
           DOMAIN pc' = SpiCallers
    PROVE  SpiInv'
<1>1. /\ spi_ctx'.initialized = spi_ctx.initialized /\ spi_ctx'.fd = spi_ctx.fd
      /\ spi_ctx'.last_count = n /\ spi_ctx'.cfg = spi_ctx.cfg
      /\ spi_ctx' \in [initialized : BOOLEAN, fd : Nat, last_count : 0..(2 * MaxSize),
                       cfg : {spi_ctx'.cfg}]
  BY Zenon, OnlyCounted
<1>2. DOMAIN files = {spi_ctx.fd} /\ files[spi_ctx.fd] = prv_apply_cfg(spi_ctx.cfg)
  BY DEF SpiInv, ClosedFileUnused, SpiTypeOK
<1>3. used'.open = TRUE /\ used'.settings = used'.wanted
  BY Zenon, <1>2 DEF Transfer
<1> QED
  BY <1>1, <1>2, <1>3 DEF SpiInv, ClosedFileUnused,
      SpiTypeOK, UsesOpenFile, SettingsAgree

(* Every step of the SPI driver keeps its invariant. *)
LEMMA SpiStep == SpiInv /\ [SpiNext]_spi => SpiInv'
<1> SUFFICES ASSUME SpiInv, [SpiNext]_spi PROVE SpiInv'
  OBVIOUS
<1> USE SpiAssumption
<1>0. /\ MaxSize \in Nat /\ Fds \subseteq Nat
      /\ spi_ctx.last_count \in 0..(2 * MaxSize)
  BY DEF SpiAssumption, SpiInv, ClosedFileUnused, SpiTypeOK
<1>1. CASE UNCHANGED spi \/ InitRefused
  BY <1>1 DEF InitRefused, spi, SpiInv, ClosedFileUnused,
      SpiTypeOK, UsesOpenFile, SettingsAgree
<1>2. ASSUME NEW cfg \in SpiCfgs, tkl_spi_init(cfg) PROVE SpiInv'
  <2>1. PICK f \in Fds :
           /\ files' = With(f, prv_apply_cfg(cfg))
           /\ spi_ctx' = [initialized |-> TRUE, fd |-> f, last_count |-> 0, cfg |-> cfg]
    BY Zenon, <1>2 DEF tkl_spi_init
  <2>2. ~spi_ctx.initialized /\ UNCHANGED <<pc, used>>
    BY <1>2 DEF tkl_spi_init
  <2>3. DOMAIN files' = {f} /\ files'[f] = prv_apply_cfg(cfg)
    BY <2>1, <2>2 DEF With, SpiInv, ClosedFileUnused, SpiTypeOK
  <2>4. /\ spi_ctx'.initialized = TRUE /\ spi_ctx'.fd = f /\ spi_ctx'.last_count = 0
        /\ spi_ctx'.cfg = cfg /\ 0 \in 0..(2 * MaxSize) /\ f \in Nat
    BY <1>0, <2>1
  <2>5. spi_ctx' \in [initialized : BOOLEAN, fd : Nat, last_count : 0..(2 * MaxSize),
                      cfg : {spi_ctx'.cfg}]
    BY <2>1, <2>4
  <2> QED
    BY <2>2, <2>3, <2>4, <2>5 DEF SpiInv, ClosedFileUnused,
        SpiTypeOK, UsesOpenFile, SettingsAgree
<1>3. CASE tkl_spi_deinit
  <2>1. spi_ctx.initialized /\ files' = Without(spi_ctx.fd) /\ spi_ctx' = Zeroed
        /\ UNCHANGED <<pc, used>>
    BY <1>3 DEF tkl_spi_deinit
  <2>2. DOMAIN files' = {}
    BY <2>1 DEF Without, SpiInv, ClosedFileUnused, SpiTypeOK
  <2>3. /\ spi_ctx'.initialized = FALSE /\ spi_ctx'.last_count = 0
        /\ 0 \in 0..(2 * MaxSize)
        /\ spi_ctx' \in [initialized : BOOLEAN, fd : Nat, last_count : 0..(2 * MaxSize),
                         cfg : {spi_ctx'.cfg}]
    BY <1>0, <2>1 DEF Zeroed
  <2> QED
    BY <2>1, <2>2, <2>3 DEF SpiInv, ClosedFileUnused,
        SpiTypeOK, UsesOpenFile, SettingsAgree
<1>4. ASSUME NEW c \in SpiCallers, NEW bytes \in 0..(2 * MaxSize), Message(c, bytes)
      PROVE  SpiInv'
  <2>1. PICK n \in {0, bytes} : spi_ctx' = [spi_ctx EXCEPT !.last_count = n]
    BY <1>4 DEF Message
  <2>2. n \in 0..(2 * MaxSize)
    BY <1>0, <2>1
  <2>3. /\ spi_ctx.initialized /\ UNCHANGED <<files, pc>>
        /\ Transfer(spi_ctx.fd, prv_apply_cfg(spi_ctx.cfg))
    BY <1>4 DEF Message
  <2>4. DOMAIN pc' = SpiCallers /\ \A d \in SpiCallers : pc'[d].size \in 0..(2 * MaxSize)
    BY <2>3 DEF SpiInv
  <2> QED
    BY <2>1, <2>2, <2>3, <2>4, OwnTransfer
<1>5. ASSUME NEW size \in 0..(2 * MaxSize), SendOrRecv(size), UNCHANGED files,
             DOMAIN pc' = SpiCallers, \A d \in SpiCallers : pc'[d].size \in 0..(2 * MaxSize)
      PROVE  SpiInv'
  <2>1. CASE ~spi_ctx.initialized
    BY <1>5, <2>1 DEF SendOrRecv, SpiInv, ClosedFileUnused,
        SpiTypeOK, UsesOpenFile, SettingsAgree
  <2>2. CASE spi_ctx.initialized
    <3>1. PICK n \in 0..size : spi_ctx' = [spi_ctx EXCEPT !.last_count = n]
      BY <1>5, <2>2 DEF SendOrRecv
    <3>2. n \in 0..(2 * MaxSize)
      BY <1>0, <3>1
    <3>3. Transfer(spi_ctx.fd, prv_apply_cfg(spi_ctx.cfg))
      BY <1>5, <2>2 DEF SendOrRecv
    <3> QED
      BY <1>5, <2>2, <3>1, <3>2, <3>3, OwnTransfer
  <2> QED
    BY <2>1, <2>2
<1>6. ASSUME NEW c \in SpiCallers, OneSided(c) PROVE SpiInv'
  <2>1. pc[c].size \in 0..(2 * MaxSize) /\ SendOrRecv(pc[c].size) /\ UNCHANGED files
    BY <1>6 DEF OneSided, SpiInv
  <2>2. DOMAIN pc' = SpiCallers /\ \A d \in SpiCallers : pc'[d].size \in 0..(2 * MaxSize)
    BY <1>0, <1>6 DEF OneSided, SpiInv, Idle
  <2> QED
    BY <1>5, <2>1, <2>2
<1>7. ASSUME NEW c \in SpiCallers, NEW m \in 0..MaxSize, tkl_spi_send_recv(c,
m) PROVE SpiInv'
  <2>1. m \in 0..(2 * MaxSize) /\ SendOrRecv(m) /\ UNCHANGED <<files, pc>>
    BY <1>0, <1>7 DEF tkl_spi_send_recv
  <2>2. DOMAIN pc' = SpiCallers /\ \A d \in SpiCallers : pc'[d].size \in 0..(2 * MaxSize)
    BY <2>1 DEF SpiInv
  <2> QED
    BY <1>5, <2>1, <2>2
<1>8. ASSUME NEW c \in SpiCallers, NEW m \in 0..MaxSize, tkl_spi_transfer(c,
m) PROVE SpiInv'
  <2>1. m \in 0..(2 * MaxSize) /\ Message(c, m)
    BY <1>0, <1>8 DEF tkl_spi_transfer
  <2> QED
    BY <1>4, <2>1
<1>9. ASSUME NEW c \in SpiCallers, NEW m \in 0..MaxSize, NEW n \in 0..MaxSize,
             tkl_spi_transfer_with_length(c, m, n)
      PROVE  SpiInv'
  <2>0. m + n \in 0..(2 * MaxSize)
    BY <1>0
  <2>1. CASE Message(c, m + n)
    BY <1>4, <2>0, <2>1
  <2>2. CASE /\ spi_ctx.initialized
             /\ spi_ctx' = [spi_ctx EXCEPT !.last_count = 0]
             /\ pc' = [pc EXCEPT ![c] =
                  IF m + n = 0 THEN Idle
                  ELSE [at |-> "one_sided", size |-> m + n, fd |-> spi_ctx.fd]]
             /\ UNCHANGED <<files, used>>
    <3>1. DOMAIN pc' = SpiCallers /\ \A d \in SpiCallers : pc'[d].size \in 0..(2 * MaxSize)
      BY <1>0, <2>0, <2>2 DEF SpiInv, Idle
    <3>2. /\ spi_ctx'.initialized = spi_ctx.initialized /\ spi_ctx'.fd = spi_ctx.fd
          /\ spi_ctx'.last_count = 0 /\ spi_ctx'.cfg = spi_ctx.cfg /\ 0 \in 0..(2 * MaxSize)
          /\ spi_ctx' \in [initialized : BOOLEAN, fd : Nat, last_count : 0..(2 * MaxSize),
                           cfg : {spi_ctx'.cfg}]
      <4>1. 0 \in 0..(2 * MaxSize)
        BY <1>0
      <4> QED
        BY Zenon, <2>2, <4>1, OnlyCounted
    <3> QED
      BY <2>2, <3>1, <3>2 DEF SpiInv, ClosedFileUnused,
          SpiTypeOK, UsesOpenFile, SettingsAgree
  <2> QED
    BY <1>9, <2>1, <2>2 DEF tkl_spi_transfer_with_length
<1> QED
  BY <1>1, <1>2, <1>3, <1>6, <1>7, <1>8, <1>9 DEF SpiNext

(* For any callers and configurations, also when the port is closed and    *)
(* reopened in the gap of a one-sided transfer, no transfer uses a closed  *)
(* descriptor or settings other than those of its file.                    *)
THEOREM SpiClosedFileUnused == SpiSpec => []ClosedFileUnused
<1>1. SpiInit => SpiInv
  <2> SUFFICES ASSUME SpiInit PROVE SpiInv
    OBVIOUS
  <2>1. MaxSize \in Nat /\ 0 \in 0..(2 * MaxSize)
    BY SpiAssumption DEF SpiAssumption
  <2>2. /\ spi_ctx.initialized = FALSE /\ spi_ctx.last_count = 0
        /\ spi_ctx \in [initialized : BOOLEAN, fd : Nat, last_count : 0..(2 * MaxSize),
                        cfg : {spi_ctx.cfg}]
    BY <2>1 DEF SpiInit, Zeroed
  <2>3. DOMAIN files = {} /\ used.open = TRUE /\ used.settings = used.wanted
    BY DEF SpiInit
  <2>4. DOMAIN pc = SpiCallers /\ \A d \in SpiCallers : pc[d].size \in 0..(2 * MaxSize)
    BY <2>1 DEF SpiInit, Idle
  <2> QED
    BY <2>1, <2>2, <2>3, <2>4 DEF SpiInv, ClosedFileUnused,
        SpiTypeOK, UsesOpenFile, SettingsAgree
<1>2. SpiInv => ClosedFileUnused
  BY DEF SpiInv
<1> QED
  BY <1>1, <1>2, SpiStep, PTL DEF SpiSpec

-----------------------------------------------------------------------------
(* Camera *)

(* The camera's buffers for any buffer count.  The context has buffers     *)
(* exactly while it streams, and the application holds none otherwise.     *)
CameraInv ==
    /\ ctx \in [allocated : BOOLEAN, streaming : BOOLEAN, buffers : BOOLEAN, num : Nat]
    /\ kernel \in [streaming : BOOLEAN, count : Nat, queued : SUBSET Nat]
    /\ BuffersAccountedFor
    /\ ctx.buffers <=> ctx.streaming
    /\ ~ctx.streaming => held = {}
    /\ ctx.streaming => ctx.allocated

(* Stopping a context without buffers, or with buffers that are mapped     *)
(* from the first one on, leaves nothing mapped and nothing held.          *)
LEMMA StopReleases ==
    ASSUME CameraAssumption, CameraInv,
           NEW c \in [allocated : BOOLEAN, streaming : BOOLEAN, buffers : BOOLEAN,
           num : Nat],
           NEW k \in [streaming : BOOLEAN, count : Nat, queued : SUBSET Nat],
           NEW m \in SUBSET Nat,
           Stop(c, k, m), UNCHANGED file, c.allocated, ctx.allocated,
           c.streaming <=> k.streaming,
           c.buffers => m \subseteq 0..(c.num - 1),
           ~c.buffers => m = {}
    PROVE  CameraInv'
<1>1. ctx' = [c EXCEPT !.streaming = FALSE, !.buffers = FALSE, !.num = 0]
  BY DEF Stop
<1>2. /\ ctx' \in [allocated : BOOLEAN, streaming : BOOLEAN, buffers : BOOLEAN, num : Nat]
      /\ ctx'.allocated = c.allocated /\ ctx'.streaming = FALSE
      /\ ctx'.buffers = FALSE /\ ctx'.num = 0
  BY Zenon, <1>1
<1>3. /\ kernel' \in [streaming : BOOLEAN, count : Nat, queued : SUBSET Nat]
      /\ kernel'.streaming = FALSE
  BY Zenon DEF Stop, StreamOff
<1>4. mapped' = {} /\ held' = {}
  BY DEF Stop
<1> QED
  BY <1>2, <1>3, <1>4 DEF CameraInv, BuffersAccountedFor, CameraTypeOK,
     MappedWhileStreaming, EachBufferOnce, CameraAssumption

(* A closed camera. *)
LEMMA NothingOpen ==
    /\ NoCamera \in [allocated : BOOLEAN, streaming : BOOLEAN, buffers : BOOLEAN, num : Nat]
    /\ NoCamera.allocated = FALSE /\ NoCamera.streaming = FALSE
    /\ NoCamera.buffers = FALSE /\ NoCamera.num = 0
    /\ Quiet \in [streaming : BOOLEAN, count : Nat, queued : SUBSET Nat]
    /\ Quiet.streaming = FALSE
<1>1. {} \in SUBSET Nat
  OBVIOUS
<1> QED
  BY <1>1 DEF NoCamera, Quiet

(* Every step of the camera keeps its invariant. *)
LEMMA CameraStep == CameraInv /\ [CameraNext]_camera => CameraInv'
<1> SUFFICES ASSUME CameraInv, [CameraNext]_camera PROVE CameraInv'
  OBVIOUS
<1> USE CameraAssumption
<1> DEFINE Ctx == [allocated : BOOLEAN, streaming : BOOLEAN, buffers : BOOLEAN, num : Nat]
           Kernel == [streaming : BOOLEAN, count : Nat, queued : SUBSET Nat]
<1>0. /\ ctx \in Ctx /\ kernel \in Kernel
      /\ file <=> ctx.allocated
      /\ ctx.num \in 0..BufferCount /\ (ctx.buffers <=> ctx.num > 0)
      /\ (ctx.streaming <=> kernel.streaming) /\ (ctx.buffers <=> ctx.streaming)
      /\ mapped = IF ctx.streaming THEN 0..(ctx.num - 1) ELSE {}
      /\ ctx.streaming => /\ kernel.queued \cup held = 0..(ctx.num - 1)
                          /\ kernel.queued \cap held = {}
      /\ ~ctx.streaming => held = {}
      /\ ctx.streaming => ctx.allocated
      /\ BufferCount \in Nat
  BY DEF CameraInv, BuffersAccountedFor, CameraTypeOK, MappedWhileStreaming,
         EachBufferOnce, CameraAssumption
<1>b. (ctx.streaming <=> ctx.num > 0) /\ ctx.num \in Nat
  BY <1>0
<1>1. CASE tkl_camera_v4l2_open
  <2>1. ~ctx.allocated /\ file' = TRUE /\ UNCHANGED <<mapped, kernel, held>> /\ ctx' = Fresh
    BY <1>1 DEF tkl_camera_v4l2_open
  <2>2. ctx' \in Ctx /\ ctx'.allocated = TRUE /\ ctx'.streaming = FALSE
        /\ ctx'.buffers = FALSE /\ ctx'.num = 0
    BY Zenon, <2>1 DEF Fresh, NoCamera
  <2> QED
    <3>1. ~ctx.streaming /\ mapped' = {} /\ held' = {}
      BY <1>0, <2>1
    <3>2. BuffersAccountedFor'
      BY <1>0, <2>1, <2>2, <3>1 DEF BuffersAccountedFor,
         CameraTypeOK, MappedWhileStreaming, EachBufferOnce
    <3> QED
      BY <1>0, <2>1, <2>2, <3>1, <3>2 DEF CameraInv
<1>2. CASE StartRefused
  <2>1. kernel' \in Kernel /\ kernel'.streaming = FALSE
    <3>1. \A n \in 0..BufferCount : Requested(n) \in Kernel /\ Requested(n).streaming = FALSE
      BY <1>0 DEF Requested
    <3>2. /\ ~kernel.streaming
          /\ kernel' = kernel \/ \E n \in 0..BufferCount : kernel' = Requested(n)
      BY <1>0, <1>2 DEF StartRefused
    <3> QED
      BY <1>0, <3>1, <3>2
  <2> QED
    BY <1>0, <1>2, <2>1 DEF StartRefused, CameraInv, BuffersAccountedFor,
       CameraTypeOK, MappedWhileStreaming, EachBufferOnce
<1>3. CASE tkl_camera_v4l2_start
  <2> DEFINE Filled(n) == [ctx EXCEPT !.buffers = TRUE, !.num = n]
             Queued(n, i) == [Requested(n) EXCEPT !.queued = 0..(i - 1)]
  <2>1. PICK n \in 2..BufferCount :
           \/ \E i \in 0..n, more \in {0, 1} :
                 Stop(Filled(n), Queued(n, i),
                      mapped \cup 0..(i - 1 + (IF i < n THEN more ELSE 0)))
           \/ /\ ctx' = [Filled(n) EXCEPT !.streaming = TRUE]
              /\ mapped' = mapped \cup 0..(n - 1)
              /\ kernel' = [Queued(n, n) EXCEPT !.streaming = TRUE]
              /\ UNCHANGED held
    BY Zenon, <1>3 DEF tkl_camera_v4l2_start
  <2>2. ctx.allocated /\ ~ctx.streaming /\ ~kernel.streaming /\ UNCHANGED file
    BY <1>3 DEF tkl_camera_v4l2_start
  <2>3. mapped = {} /\ held = {} /\ n \in Nat /\ n > 0 /\ n <= BufferCount
    BY <1>0, <2>2
  <2>4. /\ Filled(n) \in Ctx /\ Filled(n).allocated /\ ~Filled(n).streaming
        /\ Filled(n).buffers /\ Filled(n).num = n
    BY Zenon, <1>0, <2>2, <2>3
  <2>5. ASSUME NEW i \in 0..n
        PROVE  /\ Queued(n, i) \in Kernel /\ Queued(n, i).streaming = FALSE
               /\ Queued(n, i).queued = 0..(i - 1)
    <3>1. 0..(i - 1) \in SUBSET Nat
      BY <2>3
    <3>2. PICK k : k = Requested(n)
      OBVIOUS
    <3>3. k \in Kernel /\ k.streaming = FALSE
      BY <2>3, <3>2 DEF Requested
    <3>4. Queued(n, i) = [k EXCEPT !.queued = 0..(i - 1)]
      BY <3>2
    <3> QED
      BY <3>1, <3>3, <3>4
  <2>6. CASE \E i \in 0..n, more \in {0, 1} :
                 Stop(Filled(n), Queued(n, i),
                      mapped \cup 0..(i - 1 + (IF i < n THEN more ELSE 0)))
    <3>1. PICK i \in 0..n, more \in {0, 1} :
                 Stop(Filled(n), Queued(n, i),
                      mapped \cup 0..(i - 1 + (IF i < n THEN more ELSE 0)))
      BY Zenon, <2>6
    <3>2. PICK m : m = mapped \cup 0..(i - 1 + (IF i < n THEN more ELSE 0))
      BY Zenon
    <3>3. m \in SUBSET Nat /\ m \subseteq 0..(n - 1)
      BY <2>3, <3>2
    <3>4. PICK r : r = Filled(n)
      OBVIOUS
    <3>5. PICK k : k = Queued(n, i)
      BY Zenon
    <3>6. /\ Stop(r, k, m) /\ r \in Ctx /\ k \in Kernel
          /\ r.allocated /\ (r.streaming <=> k.streaming)
          /\ r.buffers /\ r.num = n
      BY <2>4, <2>5, <3>1, <3>2, <3>4, <3>5
    <3> QED
      BY <2>2, <3>3, <3>6, StopReleases
  <2>7. CASE /\ ctx' = [Filled(n) EXCEPT !.streaming = TRUE]
             /\ mapped' = mapped \cup 0..(n - 1)
             /\ kernel' = [Queued(n, n) EXCEPT !.streaming = TRUE]
             /\ UNCHANGED held
    <3>1. /\ ctx' \in Ctx /\ ctx'.allocated /\ ctx'.streaming = TRUE
          /\ ctx'.buffers = TRUE /\ ctx'.num = n
      BY Zenon, <2>4, <2>7
    <3>2. kernel' \in Kernel /\ kernel'.streaming = TRUE /\ kernel'.queued = 0..(n - 1)
      <4>1. n \in 0..n
        BY <2>3
      <4>2. PICK k : k = Queued(n, n)
        BY Zenon
      <4>3. k \in Kernel /\ k.queued = 0..(n - 1) /\ kernel' = [k EXCEPT !.streaming = TRUE]
        BY <2>5, <2>7, <4>1, <4>2
      <4> QED
        BY Zenon, <4>3
    <3>3. mapped' = 0..(n - 1) /\ held' = {} /\ file' = ctx.allocated
      BY <1>0, <2>2, <2>3, <2>7
    <3> QED
      BY <2>2, <2>3, <3>1, <3>2, <3>3 DEF CameraInv, BuffersAccountedFor,
         CameraTypeOK, MappedWhileStreaming, EachBufferOnce
  <2> QED
    BY Zenon, <2>1, <2>6, <2>7
<1>4. CASE tkl_camera_v4l2_stop
  <2>1. mapped \in SUBSET Nat
    BY <1>0
  <2> QED
    BY <1>0, <1>4, <2>1, StopReleases DEF tkl_camera_v4l2_stop
<1>5. CASE tkl_camera_v4l2_close
  <2>1. mapped' = {}
    BY <1>0, <1>5 DEF tkl_camera_v4l2_close
  <2>2. ctx' = NoCamera /\ kernel' = Quiet /\ held' = {} /\ file' = FALSE
    BY <1>5 DEF tkl_camera_v4l2_close
  <2> QED
    <3>1. BuffersAccountedFor'
      BY <1>0, <2>1, <2>2, NothingOpen DEF BuffersAccountedFor, CameraTypeOK,
         MappedWhileStreaming, EachBufferOnce
    <3> QED
      BY <2>2, <3>1, NothingOpen DEF CameraInv
<1>6. CASE tkl_camera_v4l2_dequeue
  <2>1. PICK i \in kernel.queued :
          /\ kernel' = [kernel EXCEPT !.queued = @ \ {i}]
          /\ held' = IF i >= ctx.num THEN held ELSE held \cup {i}
    BY Zenon, <1>6 DEF tkl_camera_v4l2_dequeue
  <2>2. ctx.streaming /\ UNCHANGED <<ctx, file, mapped>>
    BY <1>6 DEF tkl_camera_v4l2_dequeue
  <2>3. i \in 0..(ctx.num - 1) /\ held' = held \cup {i}
    BY <1>0, <2>1, <2>2
  <2>4. kernel' \in Kernel /\ kernel'.streaming = kernel.streaming
        /\ kernel'.queued = kernel.queued \ {i}
    BY <1>0, <2>1
  <2> QED
    BY SMTT(30), <1>0, <2>2, <2>3, <2>4 DEF CameraInv, BuffersAccountedFor, CameraTypeOK,
       MappedWhileStreaming, EachBufferOnce
<1>7. ASSUME NEW i \in 0..BufferCount, tkl_camera_v4l2_queue(i) PROVE CameraInv'
  <2>1. kernel' \in Kernel /\ kernel'.streaming = kernel.streaming
        /\ kernel'.queued = kernel.queued \cup {i} /\ held' = held \ {i}
    BY <1>0, <1>7 DEF tkl_camera_v4l2_queue
  <2>2. ctx.streaming /\ i \in 0..(ctx.num - 1) /\ UNCHANGED <<ctx, file, mapped>>
    <3>1. i < ctx.num /\ UNCHANGED <<ctx, file, mapped>>
      BY Zenon, <1>7 DEF tkl_camera_v4l2_queue
    <3>2. i \in Nat
      BY CameraAssumption DEF CameraAssumption
    <3> QED
      BY <1>b, <3>1, <3>2
  <2> QED
    BY <1>0, <2>1, <2>2 DEF CameraInv, BuffersAccountedFor, CameraTypeOK,
       MappedWhileStreaming, EachBufferOnce
<1>8. CASE UNCHANGED camera
  BY <1>8 DEF camera, CameraInv, BuffersAccountedFor, CameraTypeOK,
     MappedWhileStreaming, EachBufferOnce
<1> QED
  BY <1>1, <1>2, <1>3, <1>4, <1>5, <1>6, <1>7, <1>8 DEF CameraNext

(* Through every order of start, stop, close and failures half-way, for    *)
(* any number of buffers, none stays mapped, is lost or is shared.         *)
THEOREM CameraBuffersAccountedFor == CameraSpec => []BuffersAccountedFor
<1>1. CameraInit => CameraInv
  <2> SUFFICES ASSUME CameraInit PROVE CameraInv
    OBVIOUS
  <2>1. ctx = NoCamera /\ file = FALSE /\ mapped = {} /\ kernel = Quiet /\ held = {}
    BY DEF CameraInit
  <2>2. BuffersAccountedFor
    BY <2>1, NothingOpen, CameraAssumption DEF CameraAssumption, BuffersAccountedFor,
       CameraTypeOK, MappedWhileStreaming, EachBufferOnce
  <2> QED
    BY <2>1, <2>2, NothingOpen DEF CameraInv
<1>2. CameraInv => BuffersAccountedFor
  BY DEF CameraInv
<1> QED
  BY <1>1, <1>2, CameraStep, PTL DEF CameraSpec
=============================================================================
