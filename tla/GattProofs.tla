------------------------------ MODULE GattProofs ------------------------------
(***************************************************************************)
(* The attribute handles of tkl_bluetooth for any list of services: every  *)
(* handle the application was given leads back to the characteristic it    *)
(* was given for.                                                          *)
(***************************************************************************)
EXTENDS TklBleGatt, WellFoundedInduction, TLAPS

-------------------------------------------------------------------------------

(* An element of a sequence over S is in S. *)
LEMMA SeqElement ==
    ASSUME NEW S, NEW s \in Seq(S), NEW i \in 1..Len(s)
    PROVE  s[i] \in S
  OBVIOUS

(* The empty sequence, and what is not empty. *)
LEMMA SeqEmpty ==
    ASSUME NEW S
    PROVE  /\ <<>> \in Seq(S) /\ Len(<<>>) = 0
           /\ \A s \in Seq(S) : s # <<>> => Len(s) \in Nat \ {0}
  OBVIOUS

(* A sequence is a function on 1 .. its length. *)
LEMMA SeqTyped ==
    ASSUME NEW S, NEW s \in Seq(S)
    PROVE  Len(s) \in Nat /\ s \in [1..Len(s) -> S] /\ DOMAIN s = 1..Len(s)
  OBVIOUS

(* A sequence with one element replaced. *)
LEMMA SeqExcept ==
    ASSUME NEW S, NEW s \in Seq(S), NEW i \in 1..Len(s), NEW e \in S
    PROVE  /\ [s EXCEPT ![i] = e] \in Seq(S)
           /\ Len([s EXCEPT ![i] = e]) = Len(s)
           /\ \A j \in 1..Len(s) : [s EXCEPT ![i] = e][j] = IF j = i THEN e ELSE s[j]
  OBVIOUS

(* Sequences are equal when their elements are. *)
LEMMA SeqSame ==
    ASSUME NEW S, NEW s \in Seq(S), NEW t \in Seq(S),
           Len(s) = Len(t), \A i \in 1..Len(s) : s[i] = t[i]
    PROVE  s = t
  OBVIOUS

(* Two sequences one behind the other. *)
LEMMA SeqJoined ==
    ASSUME NEW S, NEW s \in Seq(S), NEW t \in Seq(S)
    PROVE  /\ s \o t \in Seq(S) /\ Len(s \o t) = Len(s) + Len(t)
           /\ \A i \in 1..(Len(s) + Len(t)) :
                (s \o t)[i] = IF i <= Len(s) THEN s[i] ELSE t[i - Len(s)]
  OBVIOUS

(* The first element and the rest. *)
LEMMA SeqTail ==
    ASSUME NEW S, NEW s \in Seq(S), s # <<>>
    PROVE  /\ Head(s) \in S /\ Tail(s) \in Seq(S)
           /\ Len(Tail(s)) = Len(s) - 1
           /\ \A i \in 1..Len(Tail(s)) : Tail(s)[i] = s[i + 1]
  OBVIOUS

(* A sequence with one more element. *)
LEMMA SeqAppended ==
    ASSUME NEW S, NEW s \in Seq(S), NEW e \in S
    PROVE  /\ Append(s, e) \in Seq(S) /\ Append(s, e) # <<>>
           /\ Len(Append(s, e)) = Len(s) + 1
           /\ \A i \in 1..Len(s) : Append(s, e)[i] = s[i]
           /\ Append(s, e)[Len(s) + 1] = e
  <1>1. Len(Append(s, e)) = Len(s) + 1 /\ Len(s) \in Nat /\ Len(<<>>) = 0
    OBVIOUS
  <1> QED
    BY <1>1
(* Bluetooth services and their handles. *)

(* Handles grow with either count, and the service can be told from one. *)
LEMMA IndexGrows ==
    ASSUME NEW n \in Nat, NEW s \in Nat
    PROVE  /\ CharIndex(n, s) \in Nat
           /\ \A k \in 0..(n - 1) : CharIndex(k, s) < CharIndex(n, s)
           /\ CharIndex(n, s) <= CharIndex(n, s + 1)
<1>1. PICK b \in Nat \ {0} : b = Base
  BY GattAssumption
<1>2. s * b \in Nat /\ (s + 1) * b = s * b + b
  OBVIOUS
<1> QED
  BY <1>1, <1>2 DEF CharIndex

(* Dividing an index by Base gives its service back, while n < Base. *)
LEMMA IndexService ==
    ASSUME NEW n \in Nat, NEW s \in Nat, n < Base
    PROVE  CharIndex(n, s) \div Base = s
<1>1. PICK b \in Nat \ {0} : b = Base
  BY GattAssumption
<1>2. (n + s * b) \div b = s
  BY <1>1
<1> QED
  BY <1>1, <1>2 DEF CharIndex

(* The loops over a table find the first entry that matches. *)
LEMMA FirstExists ==
    ASSUME NEW I, I \subseteq Nat, I # {}
    PROVE  First(I) \in I
<1>1. \E x \in I : \A y \in I : ~(<<y, x>> \in OpToRel(<, Nat))
  BY NatLessThanWellFounded, WFMin
<1>2. \E x \in I : \A y \in I : x <= y
  <2>1. \A x, y \in Nat : y < x => <<y, x>> \in OpToRel(<, Nat)
    BY DEF OpToRel
  <2>2. PICK x \in I : \A y \in I : ~(y < x)
    BY <1>1, <2>1
  <2> QED
    BY <2>2
<1> QED
  BY Zenon, <1>2 DEF First

(* What the lookup of a characteristic's UUID by index returns. *)
LEMMA FoundChar ==
    ASSUME NEW h, char_map \in Seq([uuid : Chars, index : Nat])
    PROVE  \/ /\ _get_char_uuid_by_char_index(h) = Nothing
              /\ \A k \in 1..Len(char_map) : char_map[k].index # h
           \/ \E k \in 1..Len(char_map) :
                 /\ char_map[k].index = h
                 /\ _get_char_uuid_by_char_index(h) = <<char_map[k].uuid>>
<1> DEFINE I == {k \in 1..Len(char_map) : char_map[k].index = h}
<1>1. I \subseteq Nat
  BY SeqTyped
<1>2. CASE I = {}
  BY Zenon, <1>2, SeqTyped DEF _get_char_uuid_by_char_index, First
<1>3. CASE I # {}
  <2>1. First(I) \in I
    BY Zenon, <1>1, <1>3, FirstExists
  <2>2. _get_char_uuid_by_char_index(h) = <<char_map[First(I)].uuid>>
    <3>1. First(I) # 0
      BY <2>1
    <3>2. DOMAIN char_map = 1..Len(char_map)
      BY SeqTyped
    <3> QED
      BY Zenon, <3>1, <3>2 DEF _get_char_uuid_by_char_index
  <2> QED
    BY Zenon, <2>1, <2>2
<1> QED
  BY <1>2, <1>3

(* What the lookup of a service's UUID by characteristic index returns. *)
LEMMA FoundServ ==
    ASSUME NEW h, serv_map \in Seq([uuid : Servs, index : Nat])
    PROVE  \/ /\ _get_serv_uuid_by_char_index(h) = Nothing
              /\ \A k \in 1..Len(serv_map) : ~(serv_map[k].index = h \div Base)
           \/ \E k \in 1..Len(serv_map) :
                 /\ serv_map[k].index = h \div Base
                 /\ _get_serv_uuid_by_char_index(h) = <<serv_map[k].uuid>>
<1> DEFINE I == {k \in 1..Len(serv_map) : serv_map[k].index = h \div Base}
<1>1. I \subseteq Nat
  BY SeqTyped
<1>2. CASE I = {}
  BY Zenon, <1>2, SeqTyped DEF _get_serv_uuid_by_char_index, First
<1>3. CASE I # {}
  <2>1. First(I) \in I
    BY Zenon, <1>1, <1>3, FirstExists
  <2>2. _get_serv_uuid_by_char_index(h) = <<serv_map[First(I)].uuid>>
    <3>1. First(I) # 0
      BY <2>1
    <3>2. DOMAIN serv_map = 1..Len(serv_map)
      BY SeqTyped
    <3> QED
      BY Zenon, <3>1, <3>2 DEF _get_serv_uuid_by_char_index
  <2> QED
    BY <2>1, <2>2
<1> QED
  BY <1>2, <1>3

(* What the lookup of an index by UUID returns. *)
LEMMA FoundIndex ==
    ASSUME NEW c, char_map \in Seq([uuid : Chars, index : Nat])
    PROVE  \/ /\ _get_char_index_by_uuid(c) = NoHandle
              /\ \A k \in 1..Len(char_map) : ~(char_map[k].uuid = c)
           \/ \E k \in 1..Len(char_map) :
                 /\ char_map[k].uuid = c
                 /\ _get_char_index_by_uuid(c) = char_map[k].index
<1> DEFINE I == {k \in 1..Len(char_map) : char_map[k].uuid = c}
<1>1. I \subseteq Nat
  BY SeqTyped
<1>2. CASE I = {}
  BY Zenon, <1>2, SeqTyped DEF _get_char_index_by_uuid, First
<1>3. CASE I # {}
  <2>1. First(I) \in I
    BY Zenon, <1>1, <1>3, FirstExists
  <2>2. _get_char_index_by_uuid(c) = char_map[First(I)].index
    <3>1. First(I) # 0
      BY <2>1
    <3>2. DOMAIN char_map = 1..Len(char_map)
      BY SeqTyped
    <3> QED
      BY <3>1, <3>2 DEF _get_char_index_by_uuid
  <2> QED
    BY Zenon, <2>1, <2>2
<1> QED
  BY <1>2, <1>3

-------------------------------------------------------------------------------
Service == [uuid : Servs, chars : Seq(Chars)]

GattShape ==
    /\ serv_map \in Seq([uuid : Servs, index : Nat]) /\ Len(serv_map) <= MAX_SERVS
    /\ char_map \in Seq([uuid : Chars, index : Nat]) /\ Len(char_map) <= MAX_CHARS
    /\ todo \in Seq(Service) /\ open \in BOOLEAN /\ (open => todo # <<>>)
    /\ app \in [servs : SUBSET Servs, chars : SUBSET (Servs \X Chars)]
    /\ given \subseteq [handle : Nat, serv : Servs, char : Chars, n : Nat, s : Nat]

(* The services are numbered as they come; the handles in char_map grow. *)
Tables ==
    /\ \A k \in 1..Len(serv_map) : serv_map[k].index = k - 1
    /\ \A k \in 1..Len(char_map) : char_map[k].index <= CharIndex(k - 1, Len(serv_map))
    /\ \A i, j \in 1..Len(char_map) : i < j => char_map[i].index < char_map[j].index
    /\ \A k \in 1..Len(char_map) : \E g \in given :
          g.handle = char_map[k].index /\ g.char = char_map[k].uuid

(* Where a handle that was given is found: the n-th entry of char_map, and *)
(* the s-th of serv_map once its service is complete.                      *)
CharEntry(g) ==
    /\ g.n <= MAX_CHARS
    /\ g.n = MAX_CHARS => g.handle = NoHandle
    /\ g.n < MAX_CHARS => /\ g.n < Len(char_map) /\ g.handle = CharIndex(g.n, g.s)
                          /\ char_map[g.n + 1] = [uuid |-> g.char, index |-> g.handle]

ServEntry(g) ==
    /\ g.s <= Len(serv_map)
    /\ g.s < Len(serv_map) => serv_map[g.s + 1].uuid = g.serv
    /\ g.s = Len(serv_map) /\ g.s < MAX_SERVS => open /\ Head(todo).uuid = g.serv

Given ==
    /\ \A g \in given : CharEntry(g) /\ ServEntry(g)
    /\ \A g, h \in given : g.n = h.n /\ g.n < MAX_CHARS => g = h
    /\ \A p \in app.chars : \E g \in given : p = <<g.serv, g.char>>

GattInv == GattShape /\ Tables /\ Given /\ NotifiesNoOther /\ EventFits

(* Both tables start empty. *)
LEMMA GattStarts == GattInit => GattInv
<1> SUFFICES ASSUME GattInit PROVE GattInv
  OBVIOUS
<1>1. GattShape
  <2>1. /\ serv_map = <<>> /\ char_map = <<>> /\ todo = <<>> /\ given = {} /\ open = FALSE
        /\ app = [servs |-> {}, chars |-> {}] /\ Len(<<>>) = 0
    BY DEF GattInit
  <2>2. open \in BOOLEAN
    BY Zenon, <2>1
  <2>3. app \in [servs : SUBSET Servs, chars : SUBSET (Servs \X Chars)]
    BY <2>1
  <2>4. /\ serv_map \in Seq([uuid : Servs, index : Nat])
           /\ char_map \in Seq([uuid : Chars, index : Nat])
        /\ todo \in Seq(Service)
    BY <2>1, SeqEmpty
  <2> QED
    BY <2>1, <2>2, <2>3, <2>4, GattAssumption DEF GattShape
<1>2. Tables /\ Given
  BY DEF GattInit, Tables, Given
<1>3. NotifiesNoOther /\ EventFits
  BY DEF GattInit, NotifiesNoOther, EventFits
<1> QED
  BY <1>1, <1>2, <1>3 DEF GattInv

(* The next free place is within the table. *)
LEMMA NextSpot == ASSUME NEW a \in Nat, NEW b \in Nat, a < b PROVE a + 1 \in 1..b
OBVIOUS

(* The two lookups of Target, joined. *)
LEMMA Two == ASSUME NEW a, NEW b PROVE <<a>> \o <<b>> = <<a, b>> /\ Len(<<a, b>>) = 2
<1> DEFINE S == {a, b}
<1>1. <<a>> \in Seq(S) /\ <<b>> \in Seq(S) /\ <<a, b>> \in Seq(S)
  OBVIOUS
<1>2. Len(<<a>>) = 1 /\ Len(<<b>>) = 1 /\ Len(<<a, b>>) = 2
  OBVIOUS
<1>3. /\ <<a>> \o <<b>> \in Seq(S) /\ Len(<<a>> \o <<b>>) = 2
      /\ (<<a>> \o <<b>>)[1] = a /\ (<<a>> \o <<b>>)[2] = b
  BY <1>1, <1>2, SeqJoined
<1>4. \A i \in 1..2 : (<<a>> \o <<b>>)[i] = <<a, b>>[i]
  BY <1>3
<1>5. <<a>> \o <<b>> = <<a, b>>
  BY Zenon, <1>1, <1>2, <1>3, <1>4, SeqSame
<1> QED
  BY <1>2, <1>5

(* A lookup returns a sequence of no or of one element. *)
LEMMA AtMostOne ==
    ASSUME NEW S, NEW a, a = <<>> \/ \E u \in S : a = <<u>>
    PROVE  a \in Seq(S) /\ Len(a) \in {0, 1} /\ (a = <<>> => Len(a) = 0)
<1>1. CASE a = <<>>
  BY <1>1, SeqEmpty
<1>2. ASSUME NEW u \in S, a = <<u>> PROVE a \in Seq(S) /\ Len(a) = 1
  BY <1>2
<1> QED
  BY <1>1, <1>2

(* Two lookups that give two elements together both found one. *)
LEMMA BothFound ==
    ASSUME NEW S, NEW a, NEW b, Len(a \o b) = 2,
           a = <<>> \/ \E u \in S : a = <<u>>, b = <<>> \/ \E u \in S : b = <<u>>
    PROVE  a # <<>> /\ b # <<>>
<1>1. /\ a \in Seq(S) /\ Len(a) \in {0, 1} /\ (a = <<>> => Len(a) = 0)
      /\ b \in Seq(S) /\ Len(b) \in {0, 1} /\ (b = <<>> => Len(b) = 0)
  BY AtMostOne
<1>2. Len(a) + Len(b) = 2
  BY <1>1, SeqJoined
<1>3. PICK x \in {0, 1} : x = Len(a)
  BY <1>1
<1>4. PICK y \in {0, 1} : y = Len(b)
  BY <1>1
<1>5. x = 1 /\ y = 1
  BY SMTT(30), <1>2, <1>3, <1>4
<1> QED
  BY <1>1, <1>3, <1>4, <1>5

(* The fields of a table's entry. *)
LEMMA EntryTyped ==
    ASSUME NEW U, NEW t \in Seq([uuid : U, index : Nat]), NEW k \in 1..Len(t)
    PROVE  t[k] \in [uuid : U, index : Nat] /\ t[k].index \in Nat /\ t[k].uuid \in U
<1>1. t[k] \in [uuid : U, index : Nat]
  BY Zenon, SeqElement
<1> QED
  BY <1>1

(* The entry of char_map that belongs to a handle. *)
LEMMA EntryGiven ==
    ASSUME GattInv, NEW g \in given, g.handle # NoHandle
    PROVE  /\ g.n \in Nat /\ g.s \in Nat /\ g.n < MAX_CHARS /\ g.n < Len(char_map)
           /\ g.handle = CharIndex(g.n, g.s)
           /\ char_map[g.n + 1].index = g.handle /\ char_map[g.n + 1].uuid = g.char
<1>1. g \in [handle : Nat, serv : Servs, char : Chars, n : Nat, s : Nat]
  BY DEF GattInv, GattShape
<1>2. CharEntry(g)
  BY DEF GattInv, Given
<1>3. g.n \in Nat /\ g.s \in Nat /\ MAX_CHARS \in Nat
  BY <1>1, GattAssumption
<1>4. g.n < MAX_CHARS
  BY <1>2, <1>3 DEF CharEntry
<1> QED
  BY <1>2, <1>3, <1>4 DEF CharEntry

(* No two characteristics have a handle in common. *)
LEMMA OneHandle ==
    ASSUME GattInv, NEW g \in given, NEW h \in given,
           g.handle = h.handle, g.handle # NoHandle
    PROVE  g = h
<1>1. /\ g.n \in Nat /\ h.n \in Nat /\ g.n < Len(char_map) /\ h.n < Len(char_map)
      /\ g.n < MAX_CHARS
      /\ char_map[g.n + 1].index = g.handle /\ char_map[h.n + 1].index = h.handle
  BY EntryGiven
<1>2. Len(char_map) \in Nat
  BY SeqTyped DEF GattInv, GattShape
<1>3. \A i, j \in 1..Len(char_map) : i < j => char_map[i].index < char_map[j].index
  BY DEF GattInv, Tables
<1>4. \A i \in 1..Len(char_map) : char_map[i].index \in Nat
  BY Zenon, EntryTyped DEF GattInv, GattShape
<1>5. g.n = h.n
  <2>1. g.n + 1 \in 1..Len(char_map) /\ h.n + 1 \in 1..Len(char_map)
    BY <1>1, <1>2
  <2>2. \A i, j \in 1..Len(char_map) : char_map[i].index = char_map[j].index => i = j
    BY <1>2, <1>3, <1>4
  <2>3. g.n + 1 = h.n + 1
    BY Zenon, <1>1, <2>1, <2>2
  <2> QED
    BY <1>1, <2>3
<1> QED
  BY <1>1, <1>5 DEF GattInv, Given

(* Notifying reaches the characteristic the handle was given for. *)
LEMMA Reaches ==
    ASSUME GattInv, todo = <<>>, NEW g \in given,
           g.n < Base, g.s < MAX_SERVS, <<g.serv, g.char>> \in app.chars,
           g.handle # NoHandle
    PROVE  Target(g.handle) = <<g.serv, g.char>>
<1>0. /\ serv_map \in Seq([uuid : Servs, index : Nat]) /\ Len(serv_map) \in Nat
      /\ char_map \in Seq([uuid : Chars, index : Nat]) /\ Len(char_map) \in Nat
      /\ Len(serv_map) <= MAX_SERVS /\ ~open
  BY SeqTyped DEF GattInv, GattShape
<1>1. /\ g.n \in Nat /\ g.s \in Nat /\ g.n < Len(char_map) /\ g.handle = CharIndex(g.n, g.s)
      /\ char_map[g.n + 1].index = g.handle /\ char_map[g.n + 1].uuid = g.char
  BY EntryGiven
<1>2. g.s < Len(serv_map) /\ serv_map[g.s + 1].uuid = g.serv
  BY SMTT(30), <1>0, <1>1, GattAssumption DEF GattInv, Given, ServEntry
<1>3. g.handle \div Base = g.s
  BY Zenon, <1>0, <1>1, IndexService
<1>4. _get_serv_uuid_by_char_index(g.handle) = <<g.serv>>
  <2>1. \A k \in 1..Len(serv_map) : serv_map[k].index = k - 1
    BY DEF GattInv, Tables
  <2>2. g.s + 1 \in 1..Len(serv_map)
    BY Zenon, <1>0, <1>1, <1>2, NextSpot
  <2>5. serv_map[g.s + 1].index = g.handle \div Base
    BY <1>1, <1>3, <2>1, <2>2
  <2>3. PICK k \in 1..Len(serv_map) :
             /\ serv_map[k].index = g.handle \div Base
             /\ _get_serv_uuid_by_char_index(g.handle) = <<serv_map[k].uuid>>
    BY Zenon, <1>0, <2>2, <2>5, FoundServ
  <2>4. k = g.s + 1
    BY SMTT(30), <1>0, <1>1, <1>3, <2>1, <2>3
  <2> QED
    BY <1>2, <2>3, <2>4
<1>5. _get_char_uuid_by_char_index(g.handle) = <<g.char>>
  <2>1. \A i, j \in 1..Len(char_map) : i < j => char_map[i].index < char_map[j].index
    BY DEF GattInv, Tables
  <2>2. g.n + 1 \in 1..Len(char_map)
    BY Zenon, <1>0, <1>1, NextSpot
  <2>3. PICK k \in 1..Len(char_map) :
             /\ char_map[k].index = g.handle
             /\ _get_char_uuid_by_char_index(g.handle) = <<char_map[k].uuid>>
    BY Zenon, <1>0, <1>1, <2>2, FoundChar
  <2>4. \A i \in 1..Len(char_map) : char_map[i].index \in Nat
    BY Zenon, <1>0, EntryTyped
  <2>5. k = g.n + 1
    <3>1. char_map[k].index = char_map[g.n + 1].index
      BY <1>1, <2>3
    <3>2. \A i, j \in 1..Len(char_map) : char_map[i].index = char_map[j].index => i = j
      BY SMTT(30), <1>0, <2>1, <2>4
    <3> QED
      BY <2>2, <3>1, <3>2
  <2> QED
    BY <1>1, <2>3, <2>5
<1>6. <<g.serv>> \o <<g.char>> = <<g.serv, g.char>> /\ Len(<<g.serv, g.char>>) = 2
  BY Two
<1> QED
  BY Zenon, <1>4, <1>5, <1>6 DEF Target

(* The inductive invariant gives the property. *)
LEMMA GattInvImplies == GattInv => HandlesReachTheirOwn
<1> SUFFICES ASSUME GattInv PROVE HandlesReachTheirOwn
  OBVIOUS
<1>1. HandlesDiffer
  BY OneHandle DEF HandlesDiffer
<1>2. ReachesItsOwn
  BY Reaches DEF ReachesItsOwn
<1> QED
  BY <1>1, <1>2 DEF HandlesReachTheirOwn, GattInv

(* What a notification sends belongs to a handle that was given. *)
LEMMA TargetGiven ==
    ASSUME GattInv, NEW h, Target(h) # Nothing
    PROVE  \E g \in given : /\ g.handle = h
                            /\ Target(h) = <<g.serv, g.char>> \/ ~InOneService(g.char)
<1> DEFINE a == _get_serv_uuid_by_char_index(h)
           b == _get_char_uuid_by_char_index(h)
<1>0. /\ serv_map \in Seq([uuid : Servs, index : Nat])
      /\ char_map \in Seq([uuid : Chars, index : Nat])
  BY DEF GattInv, GattShape
<1>1. Len(a \o b) = 2 /\ a \o b \in app.chars /\ Target(h) = a \o b
  BY DEF Target
<1>2. a = Nothing \/ \E u \in Servs : a = <<u>>
  BY Zenon, <1>0, FoundServ, EntryTyped
<1>3. b = Nothing \/ \E c \in Chars : b = <<c>>
  BY Zenon, <1>0, FoundChar, EntryTyped
<1> DEFINE S == Servs \cup Chars
<1>7. a # Nothing /\ b # Nothing
  <2>1. a = <<>> \/ \E u \in S : a = <<u>>
    BY <1>2 DEF Nothing
  <2>2. b = <<>> \/ \E u \in S : b = <<u>>
    BY <1>3 DEF Nothing
  <2> QED
    BY <1>1, <2>1, <2>2, BothFound DEF Nothing
<1>8. PICK u \in Servs : a = <<u>>
  BY <1>2, <1>7
<1>9. PICK k \in 1..Len(char_map) : char_map[k].index = h /\ b = <<char_map[k].uuid>>
  BY Zenon, <1>0, <1>7, FoundChar
<1>10. Target(h) = <<u, char_map[k].uuid>>
  BY Zenon, <1>1, <1>8, <1>9, Two
<1>11. PICK g \in given : g.handle = h /\ g.char = char_map[k].uuid
  BY Zenon, <1>9 DEF GattInv, Tables
<1>12. PICK f \in given : Target(h) = <<f.serv, f.char>>
  BY Zenon, <1>1 DEF GattInv, Given
<1>13. f.serv = u /\ f.char = g.char
  BY <1>10, <1>11, <1>12
<1>14. InOneService(g.char) => g.serv = u
  BY <1>13 DEF InOneService
<1> QED
  BY <1>10, <1>11, <1>14

(* What was said of a notification or an event stays true. *)
LEMMA SaidStays ==
    ASSUME given \subseteq given'
    PROVE  /\ NotifiesNoOther /\ UNCHANGED notified => NotifiesNoOther'
           /\ EventFits /\ UNCHANGED event => EventFits'
<1>1. \A c : InOneService(c)' => InOneService(c)
  BY DEF InOneService
<1>2. NotifiesNoOther /\ UNCHANGED notified => NotifiesNoOther'
  BY <1>1 DEF NotifiesNoOther, Nothing
<1>3. EventFits /\ UNCHANGED event => EventFits'
  BY DEF EventFits, Nothing, NoHandle
<1> QED
  BY <1>2, <1>3

(* The steps that leave the tables alone. *)
LEMMA TablesUntouched ==
    ASSUME GattInv, UNCHANGED <<serv_map, char_map, given>>,
           app'.chars \subseteq app.chars, GattShape',
           open => open' /\ Head(todo').uuid = Head(todo).uuid
    PROVE  Tables' /\ Given'
<1>1. Tables'
  BY DEF GattInv, Tables
<1>2. \A g \in given : CharEntry(g)' /\ ServEntry(g)'
  BY Zenon DEF GattInv, Given, CharEntry, ServEntry
<1> QED
  BY <1>1, <1>2 DEF GattInv, Given

(* A characteristic is added to the tables. *)
LEMMA CharAdded ==
    ASSUME GattInv, NEW u \in Servs, NEW c \in Chars, open, Head(todo).uuid = u,
           open', Head(todo').uuid = u, _add_char_info(c), UNCHANGED serv_map,
           given' = given \cup {[handle |-> HandleFor, serv |-> u, char |-> c,
                                 n |-> Len(char_map), s |-> Len(serv_map)]},
           app'.chars = app.chars \cup {<<u, c>>}
    PROVE  /\ Tables' /\ Given' /\ Len(char_map') <= MAX_CHARS
           /\ char_map' \in Seq([uuid : Chars, index : Nat])
           /\ given' \subseteq [handle : Nat, serv : Servs, char : Chars, n : Nat, s : Nat]
<1> DEFINE N == Len(char_map)
           S == Len(serv_map)
           entry == [uuid |-> c, index |-> HandleFor]
<1>0. /\ char_map \in Seq([uuid : Chars, index : Nat]) /\ N \in Nat /\ N <= MAX_CHARS
      /\ S \in Nat /\ S <= MAX_SERVS /\ MAX_CHARS \in Nat
      /\ given \subseteq [handle : Nat, serv : Servs, char : Chars, n : Nat, s : Nat]
  BY Zenon, SeqTyped, GattAssumption DEF GattInv, GattShape
<1>1. HandleFor \in Nat /\ entry \in [uuid : Chars, index : Nat]
  BY <1>0, IndexGrows DEF HandleFor, NoHandle
<1>2. PICK new : /\ given' = given \cup {new} /\ new.char = c /\ new.handle = HandleFor
                 /\ new.n = N /\ new.s = S /\ new.serv = u
                 /\ new \in [handle : Nat, serv : Servs, char : Chars, n : Nat, s : Nat]
  <2> DEFINE it == [handle |-> HandleFor, serv |-> u, char |-> c, n |-> N, s |-> S]
  <2>1. it \in [handle : Nat, serv : Servs, char : Chars, n : Nat, s : Nat]
    BY Zenon, <1>0, <1>1
  <2>2. it.char = c /\ it.handle = HandleFor /\ it.n = N /\ it.s = S /\ it.serv = u
    BY Zenon
  <2>3. given' = given \cup {it}
    OBVIOUS
  <2> HIDE DEF it
  <2> QED
    BY Zenon, <2>1, <2>2, <2>3
<1>3. given' \subseteq [handle : Nat, serv : Servs, char : Chars, n : Nat, s : Nat]
  BY Zenon, <1>0, <1>2
<1>4. \A g \in given : g.n \in Nat /\ g.s \in Nat
  BY Zenon, <1>0
<1>5. \A g \in given' : ServEntry(g)'
  <2>1. \A g \in given : ServEntry(g)'
    BY Zenon DEF GattInv, Given, ServEntry
  <2>2. ServEntry(new)'
    BY <1>0, <1>2 DEF ServEntry
  <2> QED
    BY Zenon, <1>2, <2>1, <2>2
<1>6. \A p \in app'.chars : \E g \in given' : p = <<g.serv, g.char>>
  BY Zenon, <1>2 DEF GattInv, Given
<1>7. CASE N < MAX_CHARS
  <2>1. char_map' = Append(char_map, entry) /\ HandleFor = CharIndex(N, S)
    BY Zenon, <1>7 DEF _add_char_info, HandleFor
  <2>2. /\ char_map' \in Seq([uuid : Chars, index : Nat]) /\ Len(char_map') = N + 1
        /\ char_map'[N + 1] = entry /\ \A k \in 1..N : char_map'[k] = char_map[k]
    BY <1>0, <1>1, <2>1, SeqAppended
  <2>3. \A k \in 1..Len(char_map') : k \in 1..N \/ k = N + 1
    BY <1>0, <2>2
  <2>4. \A k \in 1..N : char_map[k].index <= CharIndex(k - 1, S) /\ char_map[k].index \in Nat
    BY Zenon, <1>0, EntryTyped DEF GattInv, Tables
  <2>5. \A k \in 1..N : char_map[k].index < HandleFor
    <3> SUFFICES ASSUME NEW k \in 1..N PROVE char_map[k].index < HandleFor
      BY Zenon
    <3>1. k - 1 \in 0..(N - 1) /\ k - 1 \in Nat
      BY <1>0
    <3>2. CharIndex(k - 1, S) < CharIndex(N, S) /\ CharIndex(k - 1, S) \in Nat
             /\ CharIndex(N, S) \in Nat
      BY Zenon, <1>0, <3>1, IndexGrows
    <3> QED
      BY <2>1, <2>4, <3>2
  <2>6. Tables'
    <3>1. \A k \in 1..Len(char_map') : char_map'[k].index <= CharIndex(k - 1, S)
      <4>1. (N + 1) - 1 = N /\ HandleFor <= CharIndex(N, S)
        BY <1>0, <1>1, <2>1
      <4>2. char_map'[N + 1].index = HandleFor
        BY <2>2
      <4>3. ASSUME NEW k \in 1..Len(char_map') PROVE char_map'[k].index <= CharIndex(k - 1, S)
        <5>1. CASE k \in 1..N
          BY Zenon, <2>2, <2>4, <5>1
        <5>2. CASE k = N + 1
          BY Zenon, <4>1, <4>2, <5>2
        <5> QED
          BY Zenon, <2>3, <5>1, <5>2
      <4> QED
        BY Zenon, <4>3
    <3>2. \A i, j \in 1..Len(char_map') : i < j => char_map'[i].index < char_map'[j].index
      <4> SUFFICES ASSUME NEW i \in 1..Len(char_map'), NEW j \in 1..Len(char_map'), i < j
                   PROVE  char_map'[i].index < char_map'[j].index
        BY Zenon
      <4>1. i \in 1..N
        BY <1>0, <2>2
      <4>2. CASE j \in 1..N
        BY Zenon, <2>2, <4>1, <4>2 DEF GattInv, Tables
      <4>3. CASE j = N + 1
        BY <2>2, <2>5, <4>1, <4>3
      <4> QED
        BY Zenon, <2>3, <4>2, <4>3
    <3>3. \A k \in 1..Len(char_map') : \E g \in given' :
             g.handle = char_map'[k].index /\ g.char = char_map'[k].uuid
      <4> SUFFICES ASSUME NEW k \in 1..Len(char_map')
                   PROVE  \E g \in given' : g.handle = char_map'[k].index
                      /\ g.char = char_map'[k].uuid
        BY Zenon
      <4>1. CASE k \in 1..N
        <5>1. PICK g \in given : g.handle = char_map[k].index /\ g.char = char_map[k].uuid
          BY Zenon, <4>1 DEF GattInv, Tables
        <5> QED
          BY Zenon, <1>2, <2>2, <4>1, <5>1
      <4>2. CASE k = N + 1
        <5>1. char_map'[k].index = HandleFor /\ char_map'[k].uuid = c
          BY <2>2, <4>2
        <5> QED
          BY Zenon, <1>2, <5>1
      <4> QED
        BY Zenon, <2>3, <4>1, <4>2
    <3> QED
      BY Zenon, <3>1, <3>2, <3>3 DEF GattInv, Tables
  <2>7. \A g \in given' : CharEntry(g)'
    <3>1. ASSUME NEW g \in given PROVE CharEntry(g)'
      <4>1. CharEntry(g) /\ g.n \in Nat
        BY Zenon, <1>4 DEF GattInv, Given
      <4>2. g.n < N => g.n + 1 \in 1..N
        BY Zenon, <1>0, <4>1, NextSpot
      <4>3. Len(char_map') = N + 1 /\ (g.n < N => char_map'[g.n + 1] = char_map[g.n + 1])
        BY Zenon, <2>2, <4>2
      <4> QED
        BY SMTT(30), <1>0, <4>1, <4>3 DEF CharEntry
    <3>2. CharEntry(new)'
      BY <1>0, <1>2, <1>7, <2>1, <2>2 DEF CharEntry
    <3> QED
      BY Zenon, <1>2, <3>1, <3>2
  <2>8. \A g, h \in given' : g.n = h.n /\ g.n < MAX_CHARS => g = h
    <3>1. \A g \in given : g.n < MAX_CHARS => g.n < N
      BY Zenon DEF GattInv, Given, CharEntry
    <3>2. \A g \in given : g.n = N => ~(g.n < MAX_CHARS)
      BY <1>0, <3>1
    <3>3. \A g, h \in given : g.n = h.n /\ g.n < MAX_CHARS => g = h
      BY Zenon DEF GattInv, Given
    <3> QED
      BY Zenon, <1>2, <3>2, <3>3
  <2> QED
    BY <1>0, <1>3, <1>5, <1>6, <1>7, <2>2, <2>6, <2>7, <2>8 DEF Given
<1>8. CASE ~(N < MAX_CHARS)
  <2>1. char_map' = char_map /\ HandleFor = NoHandle /\ N = MAX_CHARS
    BY <1>0, <1>8 DEF _add_char_info, HandleFor
  <2>2. Tables'
    <3>1. \A k \in 1..Len(char_map') : \E g \in given' :
             g.handle = char_map'[k].index /\ g.char = char_map'[k].uuid
      BY Zenon, <1>2, <2>1 DEF GattInv, Tables
    <3> QED
      BY Zenon, <2>1, <3>1 DEF GattInv, Tables
  <2>3. \A g \in given' : CharEntry(g)'
    <3>1. \A g \in given : CharEntry(g)'
      BY Zenon, <2>1 DEF GattInv, Given, CharEntry
    <3>2. CharEntry(new)'
      BY <1>0, <1>2, <2>1 DEF CharEntry, NoHandle
    <3> QED
      BY <1>2, <3>1, <3>2
  <2>4. \A g, h \in given' : g.n = h.n /\ g.n < MAX_CHARS => g = h
    <3>1. ~(new.n < MAX_CHARS)
      BY Zenon, <1>2, <1>8
    <3>2. \A g, h \in given : g.n = h.n /\ g.n < MAX_CHARS => g = h
      BY DEF GattInv, Given
    <3> QED
      BY Zenon, <1>2, <3>1, <3>2
  <2> QED
    BY Zenon, <1>0, <1>3, <1>5, <1>6, <2>1, <2>2, <2>3, <2>4 DEF Given
<1> QED
  BY <1>7, <1>8

(* Adding a characteristic keeps the invariant. *)
LEMMA AddCharStep == ASSUME GattInv, AddChar PROVE GattInv'
<1> DEFINE u == Head(todo).uuid
           cs == Head(todo).chars
           rest == [uuid |-> u, chars |-> Tail(cs)]
<1>1. todo \in Seq(Service) /\ todo # <<>> /\ open \in BOOLEAN /\ open
  BY DEF GattInv, GattShape, AddChar
<1>2. Head(todo) \in Service
  BY <1>1, SeqTail
<1>3. u \in Servs /\ cs \in Seq(Chars) /\ cs # <<>>
  BY <1>2 DEF Service, AddChar
<1>4. Head(cs) \in Chars /\ Tail(cs) \in Seq(Chars)
  BY <1>3, SeqTail
<1>5. rest \in Service /\ 1 \in 1..Len(todo)
  BY <1>1, <1>3, <1>4, SeqTyped, SeqEmpty DEF Service
<1>6. todo' = [todo EXCEPT ![1] = rest]
         /\ UNCHANGED <<serv_map, published, open, adds, notified, event>>
  BY DEF AddChar
<1>7. todo' \in Seq(Service) /\ todo' # <<>> /\ todo'[1] = rest
  <2>2. \A t : t = [todo EXCEPT ![1] = rest] =>
                t \in Seq(Service) /\ Len(t) = Len(todo) /\ t[1] = rest
    <3> HIDE DEF rest
    <3> QED
      BY <1>1, <1>5, SeqExcept
  <2>1. todo' \in Seq(Service) /\ Len(todo') = Len(todo) /\ todo'[1] = rest
    BY Zenon, <1>6, <2>2
  <2> QED
    BY <1>5, <2>1
<1>8. Head(todo').uuid = u
  <2>1. \A t \in Seq(Service) : t # <<>> => Head(t) = t[1]
    OBVIOUS
  <2> QED
    BY <1>7, <2>1
<1>9. CASE UNCHANGED <<app, char_map, given>>
  <2>1. GattShape'
    BY Zenon, <1>6, <1>7, <1>9 DEF GattInv, GattShape
  <2>2. Tables' /\ Given'
    BY <1>1, <1>6, <1>8, <1>9, <2>1, TablesUntouched
  <2>3. NotifiesNoOther' /\ EventFits'
    BY <1>6, <1>9, SaidStays DEF GattInv
  <2> QED
    BY <2>1, <2>2, <2>3 DEF GattInv
<1>10. CASE /\ app' = [app EXCEPT !.chars = @ \union {<<u, Head(cs)>>}]
            /\ _add_char_info(Head(cs))
            /\ given' = given \union {[handle |-> HandleFor, serv |-> u, char |-> Head(cs),
                                       n |-> Len(char_map), s |-> Len(serv_map)]}
  <2>1. app \in [servs : SUBSET Servs, chars : SUBSET (Servs \X Chars)]
    BY DEF GattInv, GattShape
  <2>2. /\ app'.chars = app.chars \cup {<<u, Head(cs)>>}
        /\ app' \in [servs : SUBSET Servs, chars : SUBSET (Servs \X Chars)]
    BY <1>3, <1>4, <1>10, <2>1
  <2>3. open' /\ UNCHANGED serv_map
    BY <1>1, <1>6
  <2>4. /\ Tables' /\ Given' /\ Len(char_map') <= MAX_CHARS
        /\ char_map' \in Seq([uuid : Chars, index : Nat])
        /\ given' \subseteq [handle : Nat, serv : Servs, char : Chars, n : Nat, s : Nat]
    BY Zenon, <1>1, <1>3, <1>4, <1>8, <1>10, <2>2, <2>3, CharAdded
  <2>5. GattShape'
    BY Zenon, <1>6, <1>7, <2>2, <2>4 DEF GattInv, GattShape
  <2>6. NotifiesNoOther' /\ EventFits'
    BY <1>6, <1>10, SaidStays DEF GattInv
  <2> QED
    BY <2>4, <2>5, <2>6 DEF GattInv
<1> QED
  BY <1>9, <1>10 DEF AddChar

(* A service that is complete takes its place in serv_map. *)
LEMMA CloseServiceStep == ASSUME GattInv, CloseService PROVE GattInv'
<1> DEFINE N == Len(char_map)
           S == Len(serv_map)
           u == Head(todo).uuid
           entry == [uuid |-> u, index |-> S]
<1>0. /\ serv_map \in Seq([uuid : Servs, index : Nat]) /\ S \in Nat /\ S <= MAX_SERVS
      /\ char_map \in Seq([uuid : Chars, index : Nat]) /\ N \in Nat /\ MAX_SERVS \in Nat
      /\ given \subseteq [handle : Nat, serv : Servs, char : Chars, n : Nat, s : Nat]
  BY SeqTyped, GattAssumption DEF GattInv, GattShape
<1>1. todo \in Seq(Service) /\ todo # <<>>
  BY DEF GattInv, GattShape, CloseService
<1>2. Head(todo) \in Service /\ Tail(todo) \in Seq(Service)
  BY <1>1, SeqTail
<1>3. u \in Servs
  BY <1>2 DEF Service
<1>4. /\ open' = FALSE /\ todo' = Tail(todo) /\ _add_serv_info(u)
      /\ UNCHANGED <<char_map, app, adds, given, notified, event>>
  BY DEF CloseService
<1>5. NotifiesNoOther' /\ EventFits'
  BY <1>4, SaidStays DEF GattInv
<1>6. \A g \in given : g.n \in Nat /\ g.s \in Nat
  BY <1>0
<1>7. \A g \in given : CharEntry(g)'
  BY Zenon, <1>4 DEF GattInv, Given, CharEntry
<1>8. open' \in BOOLEAN /\ ~open'
  BY Zenon, <1>4
<1>9. CASE S < MAX_SERVS
  <2>1. serv_map' = Append(serv_map, entry) /\ entry \in [uuid : Servs, index : Nat]
    BY Zenon, <1>0, <1>3, <1>4, <1>9 DEF _add_serv_info
  <2>2. /\ serv_map' \in Seq([uuid : Servs, index : Nat]) /\ Len(serv_map') = S + 1
        /\ serv_map'[S + 1] = entry /\ \A k \in 1..S : serv_map'[k] = serv_map[k]
    BY <1>0, <2>1, SeqAppended
  <2>3. GattShape'
    BY <1>0, <1>2, <1>4, <1>8, <1>9, <2>2 DEF GattInv, GattShape
  <2>4. Tables'
    <3>1. ASSUME NEW k \in 1..Len(serv_map') PROVE serv_map'[k].index = k - 1
      <4>1. CASE k \in 1..S
        BY Zenon, <2>2, <4>1 DEF GattInv, Tables
      <4>2. CASE k = S + 1
        BY <1>0, <2>2, <4>2
      <4> QED
        BY <1>0, <2>2, <4>1, <4>2
    <3>2. ASSUME NEW k \in 1..N PROVE char_map[k].index <= CharIndex(k - 1, S + 1)
      <4>1. k - 1 \in Nat /\ S + 1 \in Nat
        BY <1>0
      <4>2. /\ CharIndex(k - 1, S) <= CharIndex(k - 1, S + 1)
            /\ CharIndex(k - 1, S) \in Nat /\ CharIndex(k - 1, S + 1) \in Nat
        BY Zenon, <1>0, <4>1, IndexGrows
      <4>3. char_map[k].index <= CharIndex(k - 1, S) /\ char_map[k].index \in Nat
        BY <1>0, EntryTyped DEF GattInv, Tables
      <4> QED
        BY <4>2, <4>3
    <3> QED
      BY Zenon, <1>4, <2>2, <3>1, <3>2 DEF GattInv, Tables
  <2>5. ASSUME NEW g \in given PROVE ServEntry(g)'
    <3>1. ServEntry(g) /\ g.s \in Nat
      BY <1>6 DEF GattInv, Given
    <3>2. CASE g.s < S
      <4>1. g.s + 1 \in 1..S
        BY Zenon, <1>0, <3>1, <3>2, NextSpot
      <4>2. serv_map'[g.s + 1].uuid = g.serv
        BY Zenon, <2>2, <3>1, <3>2, <4>1 DEF ServEntry
      <4>3. Len(serv_map') = S + 1
        BY <2>2
      <4> QED
        BY <1>0, <3>1, <3>2, <4>2, <4>3 DEF ServEntry
    <3>3. CASE g.s = S
      <4>1. u = g.serv
        BY <1>9, <3>1, <3>3 DEF ServEntry
      <4>2. serv_map'[g.s + 1].uuid = g.serv
        BY <2>2, <3>3, <4>1
      <4>3. Len(serv_map') = S + 1
        BY <2>2
      <4> QED
        BY <1>0, <3>1, <3>3, <4>2, <4>3 DEF ServEntry
    <3> QED
      BY <1>0, <3>1, <3>2, <3>3 DEF ServEntry
  <2>6. Given'
    BY Zenon, <1>4, <1>7, <2>5 DEF GattInv, Given
  <2> QED
    BY <1>5, <2>3, <2>4, <2>6 DEF GattInv
<1>10. CASE ~(S < MAX_SERVS)
  <2>1. serv_map' = serv_map /\ S = MAX_SERVS
    BY <1>0, <1>4, <1>10 DEF _add_serv_info
  <2>2. GattShape'
    BY Zenon, <1>2, <1>4, <1>8, <2>1 DEF GattInv, GattShape
  <2>3. Tables'
    BY Zenon, <1>4, <2>1 DEF GattInv, Tables
  <2>4. \A g \in given : ServEntry(g)'
    BY <1>0, <1>6, <2>1 DEF GattInv, Given, ServEntry
  <2>5. Given'
    BY Zenon, <1>4, <1>7, <2>4 DEF GattInv, Given
  <2> QED
    BY <1>5, <2>2, <2>3, <2>5 DEF GattInv
<1> QED
  BY <1>9, <1>10

(* So does every step. *)
LEMMA GattStep == GattInv /\ [GattNext]_gattVars => GattInv'
<1> SUFFICES ASSUME GattInv, [GattNext]_gattVars PROVE GattInv'
  OBVIOUS
<1>0. todo \in Seq(Service) /\ open \in BOOLEAN /\ (open => todo # <<>>)
  BY DEF GattInv, GattShape
<1>1. CASE \E o \in Offers : AddGatt(o)
  <2>1. PICK o \in Offers : AddGatt(o)
    BY <1>1
  <2>2. /\ todo' = o /\ o \in Seq(Service) /\ app' = [servs |-> {}, chars |-> {}] /\ ~open
        /\ UNCHANGED <<serv_map, char_map, open, given, notified, event>>
    BY Zenon, <1>0, <2>1, GattAssumption DEF AddGatt, Service
  <2>3. /\ app' \in [servs : SUBSET Servs, chars : SUBSET (Servs \X Chars)]
        /\ app'.chars \subseteq app.chars
    BY Zenon, <2>2
  <2>4. GattShape'
    BY Zenon, <2>2, <2>3 DEF GattInv, GattShape
  <2>5. Tables' /\ Given'
    BY Zenon, <2>2, <2>3, <2>4, TablesUntouched
  <2>6. NotifiesNoOther' /\ EventFits'
    BY <2>2, SaidStays DEF GattInv
  <2> QED
    BY <2>4, <2>5, <2>6 DEF GattInv
<1>2. CASE AddService
  <2>1. todo # <<>> /\ ~open /\ UNCHANGED <<serv_map, char_map, given, notified, event>>
    BY <1>2 DEF AddService
  <2>2. Head(todo) \in Service /\ Tail(todo) \in Seq(Service)
    BY <1>0, <2>1, SeqTail
  <2>3. app \in [servs : SUBSET Servs, chars : SUBSET (Servs \X Chars)]
    BY DEF GattInv, GattShape
  <2>4. /\ app' \in [servs : SUBSET Servs, chars : SUBSET (Servs \X Chars)]
        /\ app'.chars = app.chars
    BY <1>2, <2>2, <2>3 DEF AddService, Service
  <2>5. todo' \in Seq(Service) /\ (open' => todo' # <<>>)
    BY <1>0, <1>2, <2>1, <2>2 DEF AddService
  <2>6. open' \in BOOLEAN
    BY Zenon, <1>0, <1>2 DEF AddService
  <2>7. GattShape'
    BY <2>1, <2>4, <2>5, <2>6 DEF GattInv, GattShape
  <2>8. Tables' /\ Given'
    BY <2>1, <2>4, <2>7, TablesUntouched
  <2>9. NotifiesNoOther' /\ EventFits'
    BY <2>1, SaidStays DEF GattInv
  <2> QED
    BY <2>7, <2>8, <2>9 DEF GattInv
<1>3. ASSUME NEW h, bluez_inc_gatt_value_notify(h) PROVE GattInv'
  <2>1. /\ notified' = [handle |-> h, sent |-> Target(h)]
        /\ UNCHANGED <<serv_map, char_map, app, todo, open, given, event>>
    BY <1>3 DEF bluez_inc_gatt_value_notify
  <2>2. GattShape' /\ Tables' /\ Given'
    BY Zenon, <2>1, TablesUntouched DEF GattInv, GattShape
  <2>3. EventFits'
    BY <2>1, SaidStays DEF GattInv
  <2>4. NotifiesNoOther'
    <3>1. notified'.handle = h /\ notified'.sent = Target(h)
      BY <2>1
    <3>2. CASE Target(h) = Nothing
      <4>1. notified'.sent = Nothing'
        BY <3>1, <3>2 DEF Nothing
      <4> QED
        BY <4>1 DEF NotifiesNoOther
    <3>3. CASE Target(h) # Nothing
      <4>1. PICK g \in given :
             g.handle = h /\ (Target(h) = <<g.serv, g.char>> \/ ~InOneService(g.char))
        BY <3>3, TargetGiven
      <4>2. InOneService(g.char)' => InOneService(g.char)
        BY <2>1 DEF InOneService
      <4> QED
        <5>1. g \in given' /\ g.handle = notified'.handle
          <6>1. given' = given
            BY <2>1
          <6> QED
            BY Zenon, <3>1, <4>1, <6>1
        <5>2. notified'.sent = <<g.serv, g.char>> \/ ~InOneService(g.char)'
          BY Zenon, <3>1, <4>1, <4>2
        <5> QED
          BY <5>1, <5>2 DEF NotifiesNoOther
    <3> QED
      BY <3>2, <3>3
  <2> QED
    BY <2>2, <2>3, <2>4 DEF GattInv
<1>4. ASSUME NEW p, on_local_char_access(p) PROVE GattInv'
  <2>1. /\ event' = [char |-> p[2], handle |-> _get_char_index_by_uuid(p[2])]
        /\ UNCHANGED <<serv_map, char_map, app, todo, open, given, notified>>
    BY Zenon, <1>4 DEF on_local_char_access
  <2>2. GattShape' /\ Tables' /\ Given'
    BY Zenon, <2>1, TablesUntouched DEF GattInv, GattShape
  <2>3. NotifiesNoOther'
    BY <2>1, SaidStays DEF GattInv
  <2>4. EventFits'
    <3>1. event'.handle = _get_char_index_by_uuid(p[2]) /\ event'.char = p[2]
      BY <2>1
    <3>2. CASE _get_char_index_by_uuid(p[2]) = NoHandle
      BY <3>1, <3>2 DEF EventFits, NoHandle
    <3>3. CASE _get_char_index_by_uuid(p[2]) # NoHandle
      <4>1. PICK k \in 1..Len(char_map) :
                 char_map[k].uuid = p[2] /\ _get_char_index_by_uuid(p[2]) = char_map[k].index
        BY Zenon, <3>3, FoundIndex DEF GattInv, GattShape
      <4>2. PICK g \in given : g.handle = char_map[k].index /\ g.char = char_map[k].uuid
        BY DEF GattInv, Tables
      <4> QED
        BY Zenon, <2>1, <3>1, <4>1, <4>2 DEF EventFits
    <3> QED
      BY <3>2, <3>3
  <2> QED
    BY <2>2, <2>3, <2>4 DEF GattInv
<1>5. CASE UNCHANGED gattVars
  BY SMTT(30), <1>5 DEF gattVars, GattInv, GattShape, Tables, Given, CharEntry, ServEntry,
              NotifiesNoOther, EventFits, InOneService
<1> QED
  BY <1>1, <1>2, <1>3, <1>4, <1>5, AddCharStep, CloseServiceStep DEF GattNext

(* Handles stay unique and reach the characteristic they were given for,   *)
(* and events carry a handle given for their characteristic, for every     *)
(* size of the two tables and every sequence of services added.            *)
THEOREM GattHandlesReachTheirOwn == GattSpec => []HandlesReachTheirOwn
  BY GattStarts, GattStep, GattInvImplies, PTL DEF GattSpec
====
