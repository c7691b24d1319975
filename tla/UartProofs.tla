----------------------------- MODULE UartProofs -----------------------------
(***************************************************************************)
(* Proofs about the UART ports and their receive threads.                  *)
(***************************************************************************)
EXTENDS TklUart, TLAPS

-----------------------------------------------------------------------------
(* A function on 1 .. n is a sequence of length n. *)
LEMMA FunctionIsSeq ==
    ASSUME NEW S, NEW n \in Nat, NEW f \in [1..n -> S]
    PROVE  f \in Seq(S) /\ Len(f) = n
  OBVIOUS

(* An element of a sequence over S is in S. *)
LEMMA SeqElement ==
    ASSUME NEW S, NEW s \in Seq(S), NEW i \in 1..Len(s)
    PROVE  s[i] \in S
  OBVIOUS

(* The empty sequence, and what is not empty. *)
LEMMA SeqEmpty ==
    ASSUME NEW S
    PROVE  /\ <<>> \in Seq(S) /\ Len(<<>>) = 0
           /\ \A s \in Seq(S) : s # <<>> => Len(s) \in Nat \ {0}
  OBVIOUS

(* A sequence is a function on 1 .. its length. *)
LEMMA SeqTyped ==
    ASSUME NEW S, NEW s \in Seq(S)
    PROVE  Len(s) \in Nat /\ s \in [1..Len(s) -> S] /\ DOMAIN s = 1..Len(s)
  OBVIOUS

(* Two sequences one behind the other. *)
LEMMA SeqJoined ==
    ASSUME NEW S, NEW s \in Seq(S), NEW t \in Seq(S)
    PROVE  /\ s \o t \in Seq(S) /\ Len(s \o t) = Len(s) + Len(t)
           /\ \A i \in 1..(Len(s) + Len(t)) :
                (s \o t)[i] = IF i <= Len(s) THEN s[i] ELSE t[i - Len(s)]
  OBVIOUS

(* The first element and the rest. *)
LEMMA SeqTail ==
    ASSUME NEW S, NEW s \in Seq(S), s # <<>>
    PROVE  /\ Head(s) \in S /\ Tail(s) \in Seq(S)
           /\ Len(Tail(s)) = Len(s) - 1
           /\ \A i \in 1..Len(Tail(s)) : Tail(s)[i] = s[i + 1]
  OBVIOUS

(* Bytes of a session in the order in which they came, those of one        *)
(* sequence before those of another, and up to a number.                   *)
Ascending(s) == \A i \in 1..Len(s) : \A j \in 1..Len(s) : i < j => s[i] < s[j]
Before(s, t) == \A i \in 1..Len(s) : \A j \in 1..Len(t) : s[i] < t[j]
UpTo(s, n) == \A i \in 1..Len(s) : s[i] <= n

(* What the application has, what the receive thread has taken and what is *)
(* still on the line, of a session in which n bytes arrived.               *)
InOrder(g, b, l, n) ==
    /\ g \in Seq(Nat) /\ b \in Seq(Nat) /\ l \in Seq(Seq(Nat)) /\ n \in Nat
    /\ Ascending(g) /\ Ascending(b) /\ Before(g, b) /\ UpTo(g, n) /\ UpTo(b, n)
    /\ \A k \in 1..Len(l) : /\ Ascending(l[k]) /\ UpTo(l[k], n)
                            /\ Before(g, l[k]) /\ Before(b, l[k])
    /\ \A j \in 1..Len(l) : \A k \in 1..Len(l) : j < k => Before(l[j], l[k])

(* Two runs of bytes, one before the other, joined. *)
LEMMA Joined ==
    ASSUME NEW s \in Seq(Nat), NEW t \in Seq(Nat), NEW n \in Nat,
           Ascending(s), Ascending(t), Before(s, t), UpTo(s, n), UpTo(t, n)
    PROVE  /\ s \o t \in Seq(Nat) /\ Ascending(s \o t) /\ UpTo(s \o t, n)
           /\ \A u \in Seq(Nat) : Before(s, u) /\ Before(t, u) => Before(s \o t, u)
<1> DEFINE j == s \o t
<1>1. /\ j \in Seq(Nat) /\ Len(s) \in Nat /\ Len(t) \in Nat
      /\ Len(j) = Len(s) + Len(t)
      /\ \A i \in 1..(Len(s) + Len(t)) : j[i] = IF i <= Len(s) THEN s[i] ELSE t[i - Len(s)]
  BY SeqJoined, SeqTyped
<1>2. \A i \in 1..Len(j) : \/ i \in 1..Len(s) /\ j[i] = s[i]
                           \/ /\ i > Len(s) /\ i - Len(s) \in 1..Len(t)
                              /\ j[i] = t[i - Len(s)]
  BY <1>1
<1>6. \A i \in 1..Len(s) : j[i] = s[i]
  BY <1>1
<1>7. \A i \in 1..Len(j) : i > Len(s) =>
        i - Len(s) \in 1..Len(t) /\ j[i] = t[i - Len(s)]
  BY <1>1
<1> HIDE DEF j
<1>3. UpTo(j, n)
  BY Zenon, <1>2 DEF UpTo
<1>4. \A u \in Seq(Nat) : Before(s, u) /\ Before(t, u) => Before(j, u)
  BY Zenon, <1>2 DEF Before
<1>5. Ascending(j)
  <2> SUFFICES ASSUME NEW i \in 1..Len(j), NEW k \in 1..Len(j), i < k PROVE j[i] < j[k]
    BY DEF Ascending
  <2>1. CASE i \in 1..Len(s) /\ k \in 1..Len(s)
    <3>1. j[i] = s[i] /\ j[k] = s[k]
      BY <1>6, <2>1
    <3> QED
      BY <2>1, <3>1 DEF Ascending
  <2>2. CASE i \in 1..Len(s) /\ k > Len(s)
    <3>1. j[i] = s[i] /\ j[k] = t[k - Len(s)] /\ k - Len(s) \in 1..Len(t)
      BY Zenon, <1>6, <1>7, <2>2
    <3> QED
      BY <2>2, <3>1 DEF Before
  <2>3. CASE i > Len(s) /\ k > Len(s)
    <3>1. j[i] = t[i - Len(s)] /\ j[k] = t[k - Len(s)]
          /\ i - Len(s) \in 1..Len(t) /\ k - Len(s) \in 1..Len(t)
      BY Zenon, <1>7, <2>3
    <3>2. i - Len(s) < k - Len(s)
      BY <1>1
    <3> QED
      BY Zenon, <3>1, <3>2 DEF Ascending
  <2> QED
    BY <1>1, <2>1, <2>2, <2>3
<1> QED
  BY <1>1, <1>3, <1>4, <1>5 DEF j

(* The first byte of a sequence, and the others. *)
LEMMA Split ==
    ASSUME NEW s \in Seq(Nat), s # <<>>, Ascending(s), NEW n \in Nat, UpTo(s, n)
    PROVE  LET h == <<Head(s)>>
               t == Tail(s)
           IN  /\ h \in Seq(Nat) /\ Ascending(h) /\ UpTo(h, n)
               /\ t \in Seq(Nat) /\ Ascending(t) /\ UpTo(t, n) /\ Before(h, t)
               /\ \A u \in Seq(Nat) : /\ Before(s, u) => Before(h, u) /\ Before(t, u)
                                      /\ Before(u, s) => Before(u, h) /\ Before(u, t)
<1> DEFINE t == Tail(s)
           h == <<Head(s)>>
<1>1. /\ t \in Seq(Nat) /\ Len(s) \in Nat /\ Len(s) > 0 /\ Len(t) = Len(s) - 1
      /\ \A i \in 1..Len(t) : t[i] = s[i + 1] /\ i + 1 \in 1..Len(s)
      /\ Head(s) = s[1] /\ s[1] \in Nat
  BY SeqTail, SeqTyped, SeqEmpty
<1>2. h \in Seq(Nat) /\ Len(h) = 1 /\ h[1] = s[1] /\ 1 \in 1..Len(s)
  BY <1>1
<1>3. \A i \in 1..Len(h) : i = 1
  BY <1>2
<1> HIDE DEF t, h
<1>4. Ascending(h) /\ UpTo(h, n)
  BY <1>1, <1>2, <1>3 DEF Ascending, UpTo
<1>5. Ascending(t)
  <2> SUFFICES ASSUME NEW i \in 1..Len(t), NEW k \in 1..Len(t), i < k PROVE t[i] < t[k]
    BY DEF Ascending
  <2>1. /\ t[i] = s[i + 1] /\ t[k] = s[k + 1] /\ i + 1 < k + 1
        /\ i + 1 \in 1..Len(s) /\ k + 1 \in 1..Len(s)
    <3>1. /\ t[i] = s[i + 1] /\ t[k] = s[k + 1]
          /\ i + 1 \in 1..Len(s) /\ k + 1 \in 1..Len(s)
      BY Zenon, <1>1
    <3>2. i + 1 < k + 1
      OBVIOUS
    <3> QED
      BY <3>1, <3>2
  <2> QED
    BY <2>1 DEF Ascending
<1>6. Before(h, t)
  <2> SUFFICES ASSUME NEW k \in 1..Len(t) PROVE s[1] < t[k]
    BY <1>2, <1>3 DEF Before
  <2>1. t[k] = s[k + 1] /\ k + 1 \in 1..Len(s) /\ 1 < k + 1
    BY <1>1
  <2> QED
    BY <1>2, <2>1 DEF Ascending
<1>8. UpTo(t, n)
  BY Zenon, <1>1 DEF UpTo
<1>7. \A u \in Seq(Nat) : /\ Before(s, u) => Before(h, u) /\ Before(t, u)
                          /\ Before(u, s) => Before(u, h) /\ Before(u, t)
  BY Zenon, <1>1, <1>2, <1>3 DEF Before
<1> QED
  BY <1>1, <1>2, <1>4, <1>5, <1>6, <1>7, <1>8 DEF h, t

(* Nothing is in order with everything. *)
LEMMA NothingInOrder ==
    /\ <<>> \in Seq(Nat) /\ <<>> \in Seq(Seq(Nat)) /\ Ascending(<<>>)
    /\ \A n \in Nat : UpTo(<<>>, n)
    /\ \A s : Before(<<>>, s) /\ Before(s, <<>>)
BY SeqEmpty DEF Ascending, UpTo, Before

(* Nothing received is in order. *)
LEMMA EmptyInOrder == InOrder(<<>>, <<>>, <<>>, 0)
BY NothingInOrder, SeqEmpty DEF InOrder

(* A closed line. *)
LEMMA LineClosed ==
    ASSUME NEW g, NEW b, NEW l, NEW n, InOrder(g, b, l, n)
    PROVE  InOrder(g, b, <<>>, n)
BY NothingInOrder, SeqEmpty DEF InOrder

(* The first chunk of the line leaves it. *)
LEMMA ChunkTaken ==
    ASSUME NEW g, NEW b, NEW l, NEW n, InOrder(g, b, l, n), l # <<>>, b = <<>>
    PROVE  /\ InOrder(g, Head(l), Tail(l), n)
           /\ InOrder(g \o Head(l), <<>>, Tail(l), n)
<1> DEFINE h == Head(l)
           t == Tail(l)
<1>1. /\ t \in Seq(Seq(Nat)) /\ Len(l) \in Nat /\ Len(l) > 0 /\ Len(t) = Len(l) - 1
      /\ \A i \in 1..Len(t) : t[i] = l[i + 1] /\ i + 1 \in 1..Len(l)
      /\ h = l[1] /\ l[1] \in Seq(Nat) /\ 1 \in 1..Len(l)
  <2>1. l \in Seq(Seq(Nat))
    BY DEF InOrder
  <2>2. /\ t \in Seq(Seq(Nat)) /\ Len(t) = Len(l) - 1
        /\ \A i \in 1..Len(t) : t[i] = l[i + 1]
        /\ h \in Seq(Nat) /\ Len(l) \in Nat /\ Len(l) > 0
    BY <2>1, SeqTail, SeqTyped, SeqEmpty
  <2>3. h = l[1]
    BY <2>1
  <2> QED
    BY <2>2, <2>3
<1> HIDE DEF h, t
<1>2. \A k \in 1..Len(t) : t[k] \in Seq(Nat) /\ Ascending(t[k]) /\ UpTo(t[k], n)
                           /\ Before(g, t[k]) /\ Before(h, t[k])
  <2> TAKE k \in 1..Len(t)
  <2>1. t[k] = l[k + 1] /\ k + 1 \in 1..Len(l) /\ 1 < k + 1
    BY <1>1
  <2>2. t[k] \in Seq(Nat)
    BY <1>1, SeqElement
  <2> QED
    BY <1>1, <2>1, <2>2 DEF InOrder
<1>3. \A i \in 1..Len(t) : \A k \in 1..Len(t) : i < k => Before(t[i], t[k])
  <2> SUFFICES ASSUME NEW i \in 1..Len(t), NEW k \in 1..Len(t), i < k
               PROVE  Before(t[i], t[k])
    OBVIOUS
  <2>1. /\ t[i] = l[i + 1] /\ t[k] = l[k + 1] /\ i + 1 < k + 1
        /\ i + 1 \in 1..Len(l) /\ k + 1 \in 1..Len(l)
    BY <1>1
  <2> QED
    BY Zenon, <2>1 DEF InOrder
<1>4. /\ h \in Seq(Nat) /\ Ascending(h) /\ UpTo(h, n) /\ Before(g, h)
      /\ g \in Seq(Nat) /\ Ascending(g) /\ UpTo(g, n) /\ n \in Nat
  BY <1>1 DEF InOrder
<1>5. /\ g \o h \in Seq(Nat) /\ Ascending(g \o h) /\ UpTo(g \o h, n)
      /\ \A u \in Seq(Nat) : Before(g, u) /\ Before(h, u) => Before(g \o h, u)
  BY <1>4, Joined
<1>6. InOrder(g, h, t, n)
  BY Zenon, <1>1, <1>2, <1>3, <1>4 DEF InOrder
<1>7. InOrder(g \o h, <<>>, t, n)
  BY Zenon, <1>1, <1>2, <1>3, <1>4, <1>5, NothingInOrder DEF InOrder
<1> QED
  BY <1>6, <1>7 DEF h, t

(* The first byte the thread has leaves it, read or not. *)
LEMMA ByteTaken ==
    ASSUME NEW g, NEW b, NEW l, NEW n, InOrder(g, b, l, n), b # <<>>
    PROVE  /\ InOrder(g, Tail(b), l, n)
           /\ InOrder(Append(g, Head(b)), Tail(b), l, n)
<1> DEFINE h == <<Head(b)>>
           t == Tail(b)
<1>1. /\ b \in Seq(Nat) /\ Ascending(b) /\ n \in Nat /\ UpTo(b, n)
      /\ g \in Seq(Nat) /\ Ascending(g) /\ UpTo(g, n) /\ Before(g, b)
  BY DEF InOrder
<1>2. /\ h \in Seq(Nat) /\ Ascending(h) /\ UpTo(h, n)
      /\ t \in Seq(Nat) /\ Ascending(t) /\ UpTo(t, n) /\ Before(h, t)
      /\ \A u \in Seq(Nat) : /\ Before(b, u) => Before(h, u) /\ Before(t, u)
                             /\ Before(u, b) => Before(u, h) /\ Before(u, t)
  BY Zenon, <1>1, Split
<1>3. Append(g, Head(b)) = g \o h
  BY <1>1
<1>4. \A k \in 1..Len(l) : /\ l[k] \in Seq(Nat) /\ Ascending(l[k]) /\ UpTo(l[k], n)
                           /\ Before(g, l[k]) /\ Before(b, l[k])
  <2>1. l \in Seq(Seq(Nat))
    BY DEF InOrder
  <2>2. \A k \in 1..Len(l) : l[k] \in Seq(Nat)
    BY <2>1, SeqElement
  <2> QED
    BY Zenon, <2>2 DEF InOrder
<1> HIDE DEF h, t
<1>5. /\ g \o h \in Seq(Nat) /\ Ascending(g \o h) /\ UpTo(g \o h, n)
      /\ \A u \in Seq(Nat) : Before(g, u) /\ Before(h, u) => Before(g \o h, u)
  BY <1>1, <1>2, Joined
<1>6. InOrder(g, t, l, n)
  BY <1>1, <1>2, <1>4 DEF InOrder
<1>7. InOrder(g \o h, t, l, n)
  BY <1>1, <1>2, <1>4, <1>5 DEF InOrder
<1> QED
  BY Zenon, <1>3, <1>6, <1>7 DEF t

(* A chunk arrives. *)
LEMMA ChunkArrived ==
    ASSUME NEW g, NEW b, NEW l, NEW n, InOrder(g, b, l, n), NEW m \in 1..2
    PROVE  InOrder(g, b, Append(l, [i \in 1..m |-> n + i]), n + m)
<1> DEFINE c == [i \in 1..m |-> n + i]
           a == Append(l, c)
<1>1. /\ n \in Nat /\ n + m \in Nat /\ n <= n + m /\ m \in Nat
      /\ l \in Seq(Seq(Nat)) /\ g \in Seq(Nat) /\ b \in Seq(Nat)
  BY DEF InOrder
<1>2. c \in Seq(Nat) /\ Len(c) = m
  <2>1. c \in [1..m -> Nat]
    BY <1>1
  <2> QED
    BY <1>1, <2>1, FunctionIsSeq
<1>3. \A i \in 1..Len(c) : c[i] = n + i
  BY <1>2
<1>4. a \in Seq(Seq(Nat)) /\ Len(l) \in Nat /\ Len(a) = Len(l) + 1
      /\ \A k \in 1..Len(a) : \/ k \in 1..Len(l) /\ a[k] = l[k] /\ a[k] \in Seq(Nat)
                              \/ k = Len(l) + 1 /\ a[k] = c
  BY <1>1, <1>2
<1> HIDE DEF c, a
<1>5. Ascending(c) /\ UpTo(c, n + m)
  BY <1>1, <1>2, <1>3 DEF Ascending, UpTo
<1>6. \A s \in Seq(Nat) : UpTo(s, n) => UpTo(s, n + m) /\ Before(s, c)
  <2> TAKE s \in Seq(Nat)
  <2> HAVE UpTo(s, n)
  <2>1. \A i \in 1..Len(s) : s[i] \in Nat /\ s[i] <= n
    BY SeqElement DEF UpTo
  <2>2. UpTo(s, n + m)
    BY <1>1, <2>1 DEF UpTo
  <2>3. Before(s, c)
    <3> SUFFICES ASSUME NEW i \in 1..Len(s), NEW k \in 1..Len(c) PROVE s[i] < c[k]
      BY DEF Before
    <3>1. s[i] \in Nat /\ s[i] <= n /\ c[k] = n + k /\ k \in 1..m
      BY <1>2, <1>3, <2>1
    <3> QED
      BY <1>1, <3>1
  <2> QED
    BY <2>2, <2>3
<1>7. \A k \in 1..Len(a) : /\ Ascending(a[k]) /\ UpTo(a[k], n + m)
                           /\ Before(g, a[k]) /\ Before(b, a[k])
  BY Zenon, <1>1, <1>4, <1>5, <1>6 DEF InOrder
<1>8. \A j \in 1..Len(a) : \A k \in 1..Len(a) : j < k => Before(a[j], a[k])
  <2> SUFFICES ASSUME NEW j \in 1..Len(a), NEW k \in 1..Len(a), j < k
               PROVE  Before(a[j], a[k])
    OBVIOUS
  <2>1. j \in 1..Len(l) /\ a[j] = l[j] /\ a[j] \in Seq(Nat)
    BY <1>4
  <2>2. UpTo(a[j], n)
    BY <2>1 DEF InOrder
  <2>3. CASE k \in 1..Len(l) /\ a[k] = l[k]
    BY <2>1, <2>3 DEF InOrder
  <2>4. CASE a[k] = c
    BY <1>6, <2>1, <2>2, <2>4
  <2> QED
    BY <1>4, <2>3, <2>4
<1> QED
  BY Zenon, <1>1, <1>4, <1>6, <1>7, <1>8 DEF InOrder, a, c

Places == {"none", "select", "bytes", "callback", "ended"}

UartShape ==
    /\ inited \in [Ports -> BOOLEAN] /\ open \in [Ports -> BOOLEAN]
    /\ rx_cb \in [Ports -> BOOLEAN]
    /\ thread \in [Ports -> [at : Places, buf : Seq(Nat)]]
    /\ readchar \in [Ports -> Nat] /\ sent \in [Ports -> Nat]
    /\ line \in [Ports -> Seq(Seq(Nat))] /\ got \in [Ports -> Seq(Nat)]
    /\ joining \in Ports \cup {-1}

(* A receive thread has bytes only while it hands them over; the byte the  *)
(* callback is to read is the first of them.                               *)
Holds(p) ==
    /\ thread[p].at \notin {"bytes", "callback"} \/ Kind(p) # "udp" => thread[p].buf = <<>>
    /\ thread[p].at = "bytes" => Kind(p) = "udp"
    /\ thread[p].at = "callback" /\ Kind(p) = "udp" =>
         thread[p].buf # <<>> /\ readchar[p] = Head(thread[p].buf)

BytesInOrder(p) == InOrder(got[p], thread[p].buf, line[p], sent[p])

UartInv ==
    /\ UartShape /\ UartTypeOK /\ NoThreadAfterDeinit
    /\ \A p \in Ports : Holds(p) /\ BytesInOrder(p)

(* No port has the number of an unused entry. *)
LEMMA PortNumbers == -1 \notin Ports /\ \A p \in Ports : p \in Int /\ p # -1
BY UartAssumption

(* A receive thread calls back with its own port, or reads a tty. *)
LEMMA CalledPort ==
    ASSUME NEW p \in Opened, CallbackPort(p) \in Ports
    PROVE  /\ Kind(p) = "udp" => CallbackPort(p) = p
           /\ Kind(p) # "udp" => Kind(CallbackPort(p)) # "udp"
BY UartAssumption DEF Opened, CallbackPort, Kind

(* A step that changes nothing keeps the invariant. *)
LEMMA UartStutters ==
    ASSUME UartInv, UNCHANGED uart
    PROVE  UartInv'
<1>1. UartShape'
  BY DEF UartInv, uart, UartShape
<1>2. UartTypeOK' /\ NoThreadAfterDeinit'
  BY DEF UartInv, uart, UartTypeOK, NoThreadAfterDeinit
<1>3. \A p \in Ports : Holds(p)'
  BY DEF UartInv, uart, Holds, Kind
<1>4. \A p \in Ports : BytesInOrder(p)'
  BY DEF UartInv, uart, BytesInOrder
<1> QED
  BY <1>1, <1>2, <1>3, <1>4 DEF UartInv

(* Every step keeps the invariant. *)
LEMMA UartStep == UartInv /\ [UartNext]_uart => UartInv'
<1> SUFFICES ASSUME UartInv, [UartNext]_uart PROVE UartInv'
  OBVIOUS
<1>s. UartShape
  BY DEF UartInv
<1>t. UartTypeOK
  BY DEF UartInv
<1>n. NoThreadAfterDeinit
  BY DEF UartInv
<1>0. CASE UNCHANGED uart
  BY <1>0, UartStutters
<1> SUFFICES ASSUME NEW p \in Opened,
                    \/ Arrive(p) \/ tkl_uart_init(p) \/ tkl_uart_rx_irq_cb_reg(p)
                    \/ tkl_uart_deinit(p) \/ DeinitJoin(p) \/ Thread(p)
             PROVE  UartInv'
  BY <1>0 DEF UartNext
<1> p \in Ports
  BY DEF Opened
<1>p. p # -1
  BY PortNumbers
<1>o. \A q \in Ports : InOrder(got[q], thread[q].buf, line[q], sent[q])
  BY DEF UartInv, BytesInOrder
<1>h. \A q \in Ports : Holds(q)
  BY DEF UartInv
<1>e. <<>> \in Seq(Nat) /\ <<>> \in Seq(Seq(Nat)) /\ 0 \in Nat
  BY SeqEmpty
<1>1. CASE Arrive(p)
  <2>1. PICK m \in 1..2 :
          /\ sent' = [sent EXCEPT ![p] = @ + m]
          /\ line' = [line EXCEPT ![p] = Append(@, [i \in 1..m |-> sent[p] + i])]
    BY Zenon, <1>1 DEF Arrive
  <2>2. UNCHANGED <<inited, open, rx_cb, thread, readchar, joining, got>>
    BY <1>1 DEF Arrive
  <2>3. InOrder(got[p], thread[p].buf, Append(line[p], [i \in 1..m |-> sent[p] + i]),
  sent[p] + m)
    BY Zenon, <1>o, ChunkArrived
  <2>4. Append(line[p], [i \in 1..m |-> sent[p] + i]) \in Seq(Seq(Nat)) /\ sent[p] + m \in Nat
    BY <2>3 DEF InOrder
  <2>5. UartShape'
    BY Zenon, <1>s, <2>1, <2>2, <2>4 DEF UartShape
  <2>6. \A q \in Ports : BytesInOrder(q)'
    BY Zenon, <1>s, <1>o, <2>1, <2>2, <2>3 DEF BytesInOrder, UartShape
  <2>7. UartTypeOK' /\ NoThreadAfterDeinit'
    BY <1>t, <1>n, <2>2 DEF UartTypeOK, NoThreadAfterDeinit
  <2>8. \A q \in Ports : Holds(q)'
    BY <1>h, <2>2 DEF Holds, Kind
  <2> QED
    BY <2>5, <2>6, <2>7, <2>8 DEF UartInv
<1>2. CASE tkl_uart_init(p)
  <2>1. UartShape'
    BY Zenon, <1>s, <1>2, <1>e DEF UartShape, tkl_uart_init, Places
  <2>2. thread'[p] = [at |-> "select", buf |-> <<>>] /\ line'[p] = <<>> /\ got'[p] = <<>>
        /\ sent'[p] = 0 /\ inited'[p] /\ open'[p]
    BY <1>s, <1>2 DEF UartShape, tkl_uart_init
  <2>3. \A q \in Ports \ {p} : thread'[q] = thread[q] /\ line'[q] = line[q] /\ got'[q] = got[q]
        /\ sent'[q] = sent[q] /\ inited'[q] = inited[q] /\ open'[q] = open[q]
    BY <1>s, <1>2 DEF UartShape, tkl_uart_init
  <2>4. readchar' = readchar /\ joining = -1 /\ joining' = -1
    BY <1>2 DEF tkl_uart_init
  <2>5. \A q \in Ports : BytesInOrder(q)'
    BY <1>o, <2>2, <2>3, EmptyInOrder DEF BytesInOrder
  <2>6. \A q \in Ports : Holds(q)'
    BY <1>h, <2>2, <2>3, <2>4 DEF Holds, Kind
  <2>7. UartTypeOK' /\ NoThreadAfterDeinit'
    BY <1>t, <1>n, <2>2, <2>3, <2>4 DEF UartTypeOK, NoThreadAfterDeinit
  <2> QED
    BY <2>1, <2>5, <2>6, <2>7 DEF UartInv
<1>3. CASE tkl_uart_rx_irq_cb_reg(p)
  <2>1. UartShape'
    BY Zenon, <1>s, <1>3 DEF UartShape, tkl_uart_rx_irq_cb_reg
  <2>2. UNCHANGED <<inited, open, thread, readchar, joining, line, sent, got>>
    BY <1>3 DEF tkl_uart_rx_irq_cb_reg
  <2>3. UartTypeOK' /\ NoThreadAfterDeinit'
    BY <1>t, <1>n, <2>2 DEF UartTypeOK, NoThreadAfterDeinit
  <2>4. \A q \in Ports : Holds(q)'
    BY <1>h, <2>2 DEF Holds, Kind
  <2>5. \A q \in Ports : BytesInOrder(q)'
    BY <1>o, <2>2 DEF BytesInOrder
  <2> QED
    BY <2>1, <2>3, <2>4, <2>5 DEF UartInv
<1>4. CASE tkl_uart_deinit(p)
  <2>1. joining' = p
    BY <1>4 DEF tkl_uart_deinit, Opened
  <2>2. UartShape'
    BY SMTT(30), <1>s, <1>4, <1>e, <2>1 DEF UartShape, tkl_uart_deinit, Closed
  <2>3. /\ line'[p] = <<>> /\ ~inited'[p] /\ ~open'[p] /\ inited[p] /\ joining = -1
        /\ \A q \in Ports \ {p} : line'[q] = line[q] /\ inited'[q] = inited[q]
        /\ \A q \in Ports \ {p} : open'[q] = open[q]
    BY <1>s, <1>4 DEF UartShape, tkl_uart_deinit, Closed
  <2>4. UNCHANGED <<rx_cb, thread, readchar, sent, got>>
    BY <1>4 DEF tkl_uart_deinit, Closed
  <2>5. \A q \in Ports : BytesInOrder(q)'
    BY Zenon, <1>o, <2>3, <2>4, LineClosed DEF BytesInOrder
  <2>6. \A q \in Ports : Holds(q)'
    BY <1>h, <2>4 DEF Holds, Kind
  <2>7. UartTypeOK'
    BY Zenon, <1>t, <1>p, <2>1, <2>3, <2>4 DEF UartTypeOK
  <2>8. NoThreadAfterDeinit'
    BY <1>n, <2>1, <2>3, <2>4, PortNumbers DEF NoThreadAfterDeinit
  <2> QED
    BY <2>2, <2>5, <2>6, <2>7, <2>8 DEF UartInv
<1>5. CASE DeinitJoin(p)
  <2>1. UartShape'
    BY Zenon, <1>s, <1>5, <1>e DEF UartShape, DeinitJoin, NoThread, Places
  <2>2. thread'[p] = [at |-> "none", buf |-> <<>>] /\ thread[p].at = "ended" /\ joining = p
        /\ joining' = -1 /\ \A q \in Ports \ {p} : thread'[q] = thread[q]
    BY <1>s, <1>5 DEF UartShape, DeinitJoin, NoThread
  <2>3. UNCHANGED <<inited, open, rx_cb, readchar, line, sent, got>>
    BY <1>5 DEF DeinitJoin
  <2>h. thread[p].buf = <<>>
    BY <1>h, <2>2 DEF Holds
  <2>4. \A q \in Ports : BytesInOrder(q)'
    BY <1>o, <2>2, <2>3, <2>h DEF BytesInOrder
  <2>5. \A q \in Ports : Holds(q)'
    BY <1>h, <2>2, <2>3 DEF Holds, Kind
  <2>6. UartTypeOK' /\ NoThreadAfterDeinit'
    BY SMTT(30), <1>t, <1>n, <1>p, <2>2, <2>3 DEF UartTypeOK, NoThreadAfterDeinit
  <2> QED
    BY <2>1, <2>4, <2>5, <2>6 DEF UartInv
<1>6. CASE Thread(p)
  <2>0. inited' = inited /\ open' = open /\ rx_cb' = rx_cb /\ joining' = joining /\ sent' = sent
    BY <1>6 DEF Thread, Cancelled, uart_irq_handler, udp_irq_handler, UdpByte, UdpDone,
       Callback
  <2>a. ASSUME NEW at \in Places, Goes(p, at)
        PROVE  /\ thread' \in [Ports -> [at : Places, buf : Seq(Nat)]]
               /\ thread'[p].at = at /\ thread'[p].buf = thread[p].buf
               /\ \A q \in Ports \ {p} : thread'[q] = thread[q]
    BY Zenon, <1>s, <2>a DEF Goes, UartShape
  <2>t. ASSUME /\ thread'[p].at \in Places /\ thread'[p].at # "none" /\ thread[p].at # "none"
               /\ \A q \in Ports \ {p} : thread'[q] = thread[q]
        PROVE  UartTypeOK' /\ NoThreadAfterDeinit'
    BY <1>t, <1>n, <2>0, <2>t DEF UartTypeOK, NoThreadAfterDeinit, Places
  <2>1. CASE Cancelled(p) \/ uart_irq_handler(p) \/ UdpDone(p)
    <3>1. PICK at \in {"select", "ended", "callback"} :
            /\ Goes(p, at) /\ thread[p].at \in {"select", "bytes"} /\ thread[p].buf = <<>>
            /\ at = "callback" => Kind(p) # "udp"
      BY SMTT(30), <1>h, <2>1 DEF Cancelled, uart_irq_handler, UdpDone, Ready, Holds
    <3>2. UNCHANGED <<readchar, line, got>>
      BY <2>1 DEF Cancelled, uart_irq_handler, UdpDone
    <3>3. at \in Places
      BY DEF Places
    <3>4. /\ thread' \in [Ports -> [at : Places, buf : Seq(Nat)]]
          /\ thread'[p].at = at /\ thread'[p].buf = <<>>
          /\ \A q \in Ports \ {p} : thread'[q] = thread[q]
      BY <2>a, <3>1, <3>3
    <3>5. UartShape'
      BY Zenon, <1>s, <2>0, <3>2, <3>4 DEF UartShape
    <3>6. \A q \in Ports : Holds(q)'
      BY Zenon, <1>h, <3>1, <3>2, <3>4 DEF Holds, Kind
    <3>6o. \A q \in Ports : BytesInOrder(q)'
      BY Zenon, <1>o, <2>0, <3>1, <3>2, <3>4 DEF BytesInOrder
    <3>t. UartTypeOK' /\ NoThreadAfterDeinit'
      BY <2>t, <3>1, <3>3, <3>4
    <3> QED
      BY <3>5, <3>6, <3>6o, <3>t DEF UartInv
  <2>2. CASE udp_irq_handler(p) /\ line[p] = <<>>
    <3>1. UNCHANGED uart
      BY <2>0, <2>2 DEF udp_irq_handler, uart
    <3> QED
      BY <3>1, UartStutters
  <2>3. CASE udp_irq_handler(p) /\ line[p] # <<>>
    <3>1. /\ thread' = [thread EXCEPT ![p] = [at |-> "bytes", buf |-> Head(line[p])]]
          /\ line' = [line EXCEPT ![p] = Tail(@)] /\ thread[p].at = "select" /\ Kind(p) = "udp"
          /\ UNCHANGED <<readchar, got>>
      BY Zenon, <2>3 DEF udp_irq_handler, Ready
    <3>h. thread[p].buf = <<>>
      BY <1>h, <3>1 DEF Holds
    <3>2. InOrder(got[p], Head(line[p]), Tail(line[p]), sent[p])
      BY <1>o, <2>3, <3>h, ChunkTaken
    <3>3. Head(line[p]) \in Seq(Nat) /\ Tail(line[p]) \in Seq(Seq(Nat))
      BY <3>2 DEF InOrder
    <3>4. UartShape'
      BY Zenon, <1>s, <2>0, <3>1, <3>3 DEF UartShape, Places
    <3>5. thread'[p] = [at |-> "bytes", buf |-> Head(line[p])] /\ line'[p] = Tail(line[p])
          /\ \A q \in Ports \ {p} : thread'[q] = thread[q] /\ line'[q] = line[q]
      BY <1>s, <3>1 DEF UartShape
    <3>r. readchar' = readchar /\ got' = got /\ Kind(p) = "udp"
      BY <3>1
    <3>6. \A q \in Ports : Holds(q)'
      BY <1>h, <3>5, <3>r DEF Holds, Kind
    <3>6o. \A q \in Ports : BytesInOrder(q)'
      BY <1>o, <2>0, <3>2, <3>5, <3>r DEF BytesInOrder
    <3>7. thread'[p].at = "bytes"
      BY SMTT(30), <3>5
    <3>t. UartTypeOK' /\ NoThreadAfterDeinit'
      BY <2>t, <3>1, <3>5, <3>7 DEF Places
    <3> QED
      BY <3>4, <3>6, <3>6o, <3>t DEF UartInv
  <2>4. CASE UdpByte(p) /\ rx_cb[p]
    <3>1. Goes(p, "callback") /\ readchar' = [readchar EXCEPT ![p] = Head(thread[p].buf)]
          /\ thread[p].at = "bytes" /\ thread[p].buf # <<>> /\ UNCHANGED <<line, got>>
      BY <2>4 DEF UdpByte
    <3>2. thread[p].buf \in Seq(Nat) /\ Head(thread[p].buf) \in Nat
      <4>1. thread[p].buf \in Seq(Nat)
        BY <1>s DEF UartShape
      <4> QED
        BY <3>1, <4>1, SeqTail
    <3>3. "callback" \in Places
      BY DEF Places
    <3>4. /\ thread' \in [Ports -> [at : Places, buf : Seq(Nat)]]
          /\ thread'[p].at = "callback" /\ thread'[p].buf = thread[p].buf
          /\ \A q \in Ports \ {p} : thread'[q] = thread[q]
      BY SMTT(30), <2>a, <3>1, <3>3
    <3>5. UartShape'
      BY Zenon, <1>s, <2>0, <3>1, <3>2, <3>4 DEF UartShape
    <3>6. readchar'[p] = Head(thread[p].buf)
             /\ \A q \in Ports \ {p} : readchar'[q] = readchar[q]
      BY <1>s, <3>1 DEF UartShape
    <3>7. \A q \in Ports : Holds(q)'
      BY <1>h, <3>1, <3>4, <3>6 DEF Holds, Kind
    <3>7o. \A q \in Ports : BytesInOrder(q)'
      BY Zenon, <1>o, <2>0, <3>1, <3>4 DEF BytesInOrder
    <3>t. UartTypeOK' /\ NoThreadAfterDeinit'
      BY SMTT(30), <2>t, <3>1, <3>3, <3>4
    <3> QED
      BY <3>5, <3>7, <3>7o, <3>t DEF UartInv
  <2>5. CASE UdpByte(p) /\ ~rx_cb[p]
    <3>1. thread' = [thread EXCEPT ![p].buf = Tail(@)]
          /\ readchar' = [readchar EXCEPT ![p] = Head(thread[p].buf)]
          /\ thread[p].at = "bytes" /\ thread[p].buf # <<>> /\ UNCHANGED <<line, got>>
      BY <2>5 DEF UdpByte
    <3>2. InOrder(got[p], Tail(thread[p].buf), line[p], sent[p])
      BY <1>o, <3>1, ByteTaken
    <3>3. thread[p].buf \in Seq(Nat) /\ Head(thread[p].buf) \in Nat
             /\ Tail(thread[p].buf) \in Seq(Nat)
      <4>1. thread[p].buf \in Seq(Nat)
        BY <1>s DEF UartShape
      <4> QED
        BY <3>1, <4>1, SeqTail
    <3>4. /\ thread' \in [Ports -> [at : Places, buf : Seq(Nat)]]
          /\ thread'[p].at = "bytes" /\ thread'[p].buf = Tail(thread[p].buf)
          /\ \A q \in Ports \ {p} : thread'[q] = thread[q]
      BY Zenon, <1>s, <3>1, <3>3 DEF UartShape
    <3>5. UartShape'
      BY Zenon, <1>s, <2>0, <3>1, <3>3, <3>4 DEF UartShape
    <3>6. \A q \in Ports \ {p} : readchar'[q] = readchar[q]
      BY <1>s, <3>1 DEF UartShape
    <3>7. \A q \in Ports : Holds(q)'
      BY <1>h, <3>1, <3>4, <3>6 DEF Holds, Kind
    <3>7o. \A q \in Ports : BytesInOrder(q)'
      BY <1>o, <2>0, <3>1, <3>2, <3>4 DEF BytesInOrder
    <3>t. UartTypeOK' /\ NoThreadAfterDeinit'
      BY <2>t, <3>1, <3>4 DEF Places
    <3> QED
      BY <3>5, <3>7, <3>7o, <3>t DEF UartInv
  <2>6. CASE Callback(p) /\ Kind(p) = "udp"
    <3>1. CallbackPort(p) \in Ports /\ CallbackPort(p) = p
      BY <2>6, UartAssumption DEF CallbackPort, Opened, Kind
    <3>2. /\ thread' = [thread EXCEPT ![p] = [at |-> "bytes", buf |-> Tail(thread[p].buf)]]
          /\ thread[p].at = "callback" /\ UNCHANGED <<line, readchar>>
          /\ got' = [got EXCEPT ![p] = Append(@, readchar[p])]
      BY SMTT(30), <2>6, <3>1 DEF Callback, tkl_uart_read
    <3>3. thread[p].buf # <<>> /\ readchar[p] = Head(thread[p].buf)
      BY SMTT(30), <1>h, <2>6, <3>2 DEF Holds
    <3>4. InOrder(Append(got[p], readchar[p]), Tail(thread[p].buf), line[p], sent[p])
      BY Zenon, <1>o, <3>3, ByteTaken
    <3>5. Append(got[p], readchar[p]) \in Seq(Nat) /\ Tail(thread[p].buf) \in Seq(Nat)
      BY <3>4 DEF InOrder
    <3>6. UartShape'
      BY Zenon, <1>s, <2>0, <3>2, <3>5 DEF UartShape, Places
    <3>7. /\ thread'[p] = [at |-> "bytes", buf |-> Tail(thread[p].buf)]
          /\ got'[p] = Append(got[p], readchar[p])
          /\ \A q \in Ports \ {p} : thread'[q] = thread[q] /\ got'[q] = got[q]
      BY <1>s, <3>2 DEF UartShape
    <3>8. thread'[p].at = "bytes" /\ thread'[p].buf = Tail(thread[p].buf)
      BY <3>7
    <3>r. readchar' = readchar /\ line' = line /\ Kind(p) = "udp"
      BY <2>6, <3>2
    <3>9. \A q \in Ports : Holds(q)'
      BY <1>h, <3>7, <3>8, <3>r DEF Holds, Kind
    <3>9o. \A q \in Ports : BytesInOrder(q)'
      BY Zenon, <1>o, <2>0, <3>4, <3>7, <3>8, <3>r DEF BytesInOrder
    <3>t. UartTypeOK' /\ NoThreadAfterDeinit'
      BY <2>t, <3>2, <3>7, <3>8 DEF Places
    <3> QED
      BY <3>6, <3>9, <3>9o, <3>t DEF UartInv
  <2>7. CASE Callback(p) /\ Kind(p) # "udp"
    <3> DEFINE q == CallbackPort(p)
    <3>1. /\ thread' = [thread EXCEPT ![p] = [at |-> "select", buf |-> <<>>]]
          /\ thread[p].at = "callback" /\ readchar' = readchar
      BY Zenon, <2>7 DEF Callback
    <3>2. thread[p].buf = <<>>
      BY <1>h, <2>7 DEF Holds
    <3>3. \/ UNCHANGED <<got, line>>
          \/ /\ q \in Ports /\ Kind(q) # "udp" /\ line[q] # <<>>
             /\ got' = [got EXCEPT ![q] = @ \o Head(line[q])]
             /\ line' = [line EXCEPT ![q] = Tail(@)]
      BY Zenon, <2>7, CalledPort DEF Callback, tkl_uart_read
    <3> HIDE DEF q
    <3>4. /\ thread' \in [Ports -> [at : Places, buf : Seq(Nat)]]
          /\ thread'[p].at = "select" /\ \A r \in Ports : thread'[r].buf = thread[r].buf
          /\ \A r \in Ports \ {p} : thread'[r] = thread[r]
      BY <1>s, <1>e, <3>1, <3>2 DEF UartShape, Places
    <3>5. /\ got' \in [Ports -> Seq(Nat)] /\ line' \in [Ports -> Seq(Seq(Nat))]
          /\ \A r \in Ports : InOrder(got'[r], thread[r].buf, line'[r], sent[r])
      <4>1. CASE UNCHANGED <<got, line>>
        BY <1>s, <1>o, <4>1 DEF UartShape
      <4>2. CASE /\ q \in Ports /\ Kind(q) # "udp" /\ line[q] # <<>>
                 /\ got' = [got EXCEPT ![q] = @ \o Head(line[q])]
                 /\ line' = [line EXCEPT ![q] = Tail(@)]
        <5>1. thread[q].buf = <<>>
          BY <1>h, <4>2 DEF Holds
        <5>2. InOrder(got[q] \o Head(line[q]), thread[q].buf, Tail(line[q]), sent[q])
          BY <1>o, <4>2, <5>1, ChunkTaken
        <5>3. got[q] \o Head(line[q]) \in Seq(Nat) /\ Tail(line[q]) \in Seq(Seq(Nat))
          BY SMTT(30), <5>2 DEF InOrder
        <5>4. /\ got'[q] = got[q] \o Head(line[q]) /\ line'[q] = Tail(line[q])
              /\ \A r \in Ports \ {q} : got'[r] = got[r] /\ line'[r] = line[r]
          BY Zenon, <1>s, <4>2 DEF UartShape
        <5>5. got' \in [Ports -> Seq(Nat)] /\ line' \in [Ports -> Seq(Seq(Nat))]
          BY Zenon, <1>s, <4>2, <5>3 DEF UartShape
        <5> QED
          BY Zenon, <1>o, <5>2, <5>4, <5>5
      <4> QED
        BY Zenon, <3>3, <4>1, <4>2
    <3>6. UartShape'
      BY Zenon, <1>s, <2>0, <3>1, <3>4, <3>5 DEF UartShape
    <3>r. readchar' = readchar /\ Kind(p) # "udp" /\ sent' = sent
      BY <2>0, <2>7, <3>1
    <3>7. \A r \in Ports : Holds(r)'
      BY SMTT(30), <1>h, <3>2, <3>4, <3>r DEF Holds, Kind
    <3>7o. \A r \in Ports : BytesInOrder(r)'
      BY <3>4, <3>5, <3>r DEF BytesInOrder
    <3>8. UartTypeOK' /\ NoThreadAfterDeinit'
      BY <2>t, <3>1, <3>4 DEF Places
    <3> QED
      BY <3>6, <3>7, <3>7o, <3>8 DEF UartInv
  <2> QED
    BY SMTT(30), <1>6, <2>1, <2>2, <2>3, <2>4, <2>5, <2>6, <2>7 DEF Thread
<1> QED
  BY <1>1, <1>2, <1>3, <1>4, <1>5, <1>6

(* For any ports in either build: after tkl_uart_deinit has returned no    *)
(* receive thread of the port runs, and the application reads the bytes of *)
(* a session in the order in which they came, none of them twice.          *)
THEOREM UartClosedPortUnused == UartSpec => []ClosedPortUnused
<1>1. UartInit => UartInv
  <2> SUFFICES ASSUME UartInit PROVE UartInv
    OBVIOUS
  <2>1. UartShape
    BY SeqEmpty DEF UartInit, UartShape, Places, NoThread
  <2>2. \A p \in Ports : Holds(p) /\ BytesInOrder(p)
    BY Zenon, EmptyInOrder DEF UartInit, Holds, BytesInOrder, NoThread
  <2>3. UartTypeOK /\ NoThreadAfterDeinit
    BY DEF UartInit, UartTypeOK, NoThreadAfterDeinit, NoThread
  <2> QED
    BY <2>1, <2>2, <2>3 DEF UartInv
<1>2. UartInv => ClosedPortUnused
  <2> SUFFICES ASSUME UartInv PROVE NoByteTwice
    BY DEF UartInv, ClosedPortUnused
  <2>1. \A p \in Ports : Ascending(got[p])
    BY Zenon DEF UartInv, BytesInOrder, InOrder
  <2> QED
    BY <2>1 DEF NoByteTwice, Ascending
<1> QED
  BY <1>1, <1>2, UartStep, PTL DEF UartSpec
=============================================================================
