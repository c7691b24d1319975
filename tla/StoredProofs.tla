----------------------------- MODULE StoredProofs -----------------------------
(* The flash file and the OTA download for every layout, image and pack    *)
(* length.                                                                 *)
EXTENDS TklFlash, TklOta, TLAPS

(* The only caller: seek and transfer are separate calls on one FILE, so   *)


(* nothing is promised to two callers.                                     *)
c1 == CHOOSE c \in Callers : TRUE
OneCaller == Callers = {c1}

Me == pc[c1]

(* What a page of a file holds, a value written to it or not yet. *)
In(f, p) == IF p < Len(f.data) THEN f.data[p + 1] ELSE Hole
WrittenFor(p, v) == \E t \in AllTypes : p \in PagesOf(t) /\ \E k \in 1..writes : v = <<t, k>>
Expected(p, v) ==
    /\ v \in {acked[p], Hole} \cup begun[p]
    /\ acked[p] # FF => v # Hole

(* What pages and files hold.                                              *)
Values == ({"0xff", "zero"} \cup AllTypes) \X Nat
Files == [exists : BOOLEAN, data : Seq(Values)]

(* The caller is between the seek and the return of a write.               *)
Writing == Me.at \in {"fwrite", "fflush", "fsync"}

FlashSteps == {"idle", "open", "create", "fill", "fread", "fwrite", "fflush", "fsync"}
FlashCalls == [Callers -> [at : FlashSteps, page : Nat, val : Values]]

(* The disk is never ahead of the cache, and complete unless a crash has   *)
(* cut the first fill.                                                     *)
FlashShape ==
    /\ cache \in Files /\ disk \in Files /\ Len(cache.data) <= FILE_PAGES
    /\ pc \in FlashCalls
    /\ ~cache.exists => cache.data = <<>>
    /\ ~disk.exists => disk.data = <<>>
    /\ s_flash_file \in BOOLEAN /\ cut \in BOOLEAN /\ writes \in Nat
    /\ pos \in 0..FILE_PAGES
    /\ disk.exists => cache.exists
    /\ Len(disk.data) <= Len(cache.data)
    /\ cache.exists /\ ~disk.exists => Me.at = "fill"
    /\ s_flash_file => cache.exists
    /\ ~cut /\ disk.exists => Len(disk.data) = FILE_PAGES

(* What the caller works on: it writes where it has sought, and data waits *)
(* in the stdio buffer only before its flush.                              *)
FlashCall ==
    /\ Me.at \in {"open", "create"} => ~s_flash_file
    /\ Me.at = "create" => ~cache.exists
    /\ Me.at = "open" => cache.exists
    /\ Me.at = "fill" \/ Writing \/ Me.at = "fread" => s_flash_file
    /\ Me.at = "fill" => /\ ~disk.exists /\ pos = Me.page /\ Len(cache.data) = pos
                         /\ \A i \in 1..pos : cache.data[i] = FF
    /\ Writing => /\ Me.page \in Pages /\ Me.val \in begun[Me.page]
                  /\ Me.at = "fwrite" => pos = Me.page
    /\ buf = IF Me.at = "fflush" THEN <<Me.page, Me.val>> ELSE <<>>
    /\ Me.at = "fsync" => In(cache, Me.page) = Me.val

(* Every page, in the cache and on the disk, holds what was acknowledged   *)
(* or a value of a write begun since, written for its own partition.       *)
FlashPages ==
    /\ DOMAIN acked = Pages /\ DOMAIN begun = Pages
    /\ \A p \in Pages : /\ acked[p] = FF \/ WrittenFor(p, acked[p])
                        /\ \A v \in begun[p] : WrittenFor(p, v)
                        /\ Expected(p, In(cache, p)) /\ Expected(p, In(disk, p))
    /\ ~disk.exists => \A p \in Pages : acked[p] = FF /\ begun[p] = {}

(* The inductive invariant of the flash file.                              *)
FlashInv == FlashShape /\ FlashCall /\ FlashPages

(* A function on 1..n is a sequence. *)
LEMMA FunctionIsSeq ==
    ASSUME NEW S, NEW n \in Nat, NEW f \in [1..n -> S]
    PROVE  f \in Seq(S) /\ Len(f) = n
  OBVIOUS

(* The partitions lie in the file, one behind the other. *)
LEMMA PartitionsApart ==
    ASSUME NEW t \in AllTypes
    PROVE  /\ PagesOf(t) \subseteq Pages
           /\ \A u \in AllTypes : \A p \in PagesOf(t) : p \in PagesOf(u) => u = t
  BY FlashAssumption DEF AllTypes, PagesOf, Partition, Pages

(* Written values, unwritten pages and holes can be told apart. *)
LEMMA MarksDiffer ==
    /\ FF \in Values /\ Hole \in Values /\ FF # Hole
    /\ \A t \in AllTypes : \A k \in Nat :
          <<t, k>> \in Values /\ <<t, k>> # FF /\ <<t, k>> # Hole
  BY DEF FF, Hole, Values, AllTypes

(* A page put into a file changes that page only. *)
LEMMA PutContent ==
    ASSUME NEW f \in Files, NEW page \in Pages, NEW v \in Values, Len(f.data) <= FILE_PAGES
    PROVE  /\ Put(f, page, v) \in Files /\ Put(f, page, v).exists
           /\ Len(Put(f, page, v).data) = IF page < Len(f.data) THEN Len(f.data) ELSE page + 1
           /\ \A p \in Pages : In(Put(f, page, v), p) = IF p = page THEN v ELSE In(f, p)
  <1> DEFINE old == f.data
             n == IF page < Len(old) THEN Len(old) ELSE page + 1
             e(i) == IF i = page + 1 THEN v ELSE IF i <= Len(old) THEN old[i] ELSE Hole
             d == [i \in 1..n |-> e(i)]
  <1>1. old \in Seq(Values) /\ Len(old) \in Nat
    BY DEF Files
  <1>2. n \in Nat /\ page \in Nat /\ Len(old) <= n /\ page < n
    BY <1>1, FlashAssumption DEF Pages
  <1>3. \A i \in 1..n : e(i) \in Values
    BY <1>1, <1>2, MarksDiffer
  <1>4. Put(f, page, v) = [exists |-> TRUE, data |-> d]
    BY DEF Put
  <1> HIDE DEF e, n, old
  <1>5. d \in [1..n -> Values]
    BY Zenon, <1>3
  <1>6. d \in Seq(Values) /\ Len(d) = n
    BY Zenon, <1>2, <1>5, FunctionIsSeq
  <1>7. ASSUME NEW p \in Pages
        PROVE  In([exists |-> TRUE, data |-> d], p) = IF p = page THEN v ELSE In(f, p)
    <2>0. p \in Nat
      BY FlashAssumption DEF Pages
    <2>1. CASE p < n
      <3>1. p + 1 \in 1..n /\ d[p + 1] = e(p + 1)
        BY <2>0, <2>1, <1>2
      <3>2. e(p + 1) = IF p = page THEN v ELSE In(f, p)
        BY <2>0, <1>1, <1>2 DEF e, In, old
      <3> QED
        BY Zenon, <2>1, <3>1, <3>2, <1>6 DEF In
    <2>2. CASE ~(p < n)
      <3>1. In(f, p) = Hole /\ p # page
        BY <2>0, <2>2, <1>1, <1>2 DEF In, old
      <3> QED
        BY Zenon, <2>2, <3>1, <1>6 DEF In
    <2> QED
      BY <2>1, <2>2
  <1>8. Len(d) = IF page < Len(f.data) THEN Len(f.data) ELSE page + 1
    BY Zenon, <1>6 DEF n, old
  <1>9. [exists |-> TRUE, data |-> d] \in Files
    BY <1>6 DEF Files
  <1> HIDE DEF d
  <1>10. Put(f, page, v).exists /\ Put(f, page, v).data = d
    BY <1>4
  <1>11. \A p \in Pages : In(Put(f, page, v), p) = IF p = page THEN v ELSE In(f, p)
    BY Zenon, <1>4, <1>7
  <1> QED
    BY Zenon, <1>4, <1>8, <1>9, <1>10, <1>11

(* Of every page a crash leaves the synced or the cached content. *)
LEMMA SurvivorContent ==
    ASSUME cache \in Files, disk \in Files, Len(disk.data) <= Len(cache.data),
           Len(cache.data) <= FILE_PAGES, FileSurvives
    PROVE  /\ cache' = disk' /\ disk' \in Files
           /\ Len(disk.data) <= Len(disk'.data) /\ Len(disk'.data) <= Len(cache.data)
           /\ disk' = disk \/ (disk'.exists /\ cache.exists)
           /\ \A p \in Pages : In(disk', p) \in {In(disk, p), In(cache, p)}
  <1> DEFINE f == disk'
  <1>0. cache' = disk'
    BY DEF FileSurvives
  <1>1. /\ cache.data \in Seq(Values) /\ Len(cache.data) \in Nat
        /\ disk.data \in Seq(Values) /\ Len(disk.data) \in Nat
    BY DEF Files
  <1>2. CASE f = disk
    BY <1>0, <1>1, <1>2
  <1>3. CASE f # disk
    <2> DEFINE both == IF Len(disk.data) < Len(cache.data) THEN Len(disk.data)
                       ELSE Len(cache.data)
               changed == {i \in 1..Len(cache.data) :
                              i <= Len(disk.data) => disk.data[i] # cache.data[i]}
    <2>a. /\ cache.exists
          /\ \E n \in both..Len(cache.data) : \E new \in SUBSET changed : f = Left(n, new)
      BY Zenon, <1>3 DEF FileSurvives
    <2>b. both = Len(disk.data)
      BY <1>1
    <2> HIDE DEF both, changed
    <2>1. PICK n \in both..Len(cache.data), new \in SUBSET changed : f = Left(n, new)
      BY Zenon, <2>a
    <2> HIDE DEF f
    <2> DEFINE d == [i \in 1..n |-> IF i \in new \/ i > Len(disk.data)
                                    THEN cache.data[i] ELSE disk.data[i]]
    <2>2. n \in Nat /\ Len(disk.data) <= n /\ n <= Len(cache.data)
      BY <1>1, <2>b
    <2>3. d \in [1..n -> Values]
      <3>1. \A i \in 1..n : (IF i \in new \/ i > Len(disk.data)
                             THEN cache.data[i] ELSE disk.data[i]) \in Values
        BY <1>1, <2>2
      <3> QED
        BY Zenon, <3>1
    <2>4. \A i \in 1..n : d[i] = cache.data[i] \/ (i <= Len(disk.data) /\ d[i] = disk.data[i])
      BY <1>1, <2>2
    <2>5. f = [exists |-> TRUE, data |-> d]
      BY Zenon, <2>1 DEF Left
    <2> HIDE DEF d
    <2>6. d \in Seq(Values) /\ Len(d) = n
      BY Zenon, <2>2, <2>3, FunctionIsSeq
    <2>7. ASSUME NEW p \in Pages PROVE In(f, p) \in {In(disk, p), In(cache, p)}
      <3>0. p \in Nat
        BY FlashAssumption DEF Pages
      <3>1. CASE p < n
        <4>1. p + 1 \in 1..n /\ In(f, p) = d[p + 1] /\ p < Len(cache.data)
          BY <3>0, <3>1, <2>2, <2>5, <2>6 DEF In
        <4>2. In(cache, p) = cache.data[p + 1]
          BY <4>1 DEF In
        <4>3. p + 1 <= Len(disk.data) => In(disk, p) = disk.data[p + 1]
          BY <3>0, <1>1 DEF In
        <4> QED
          BY <4>1, <4>2, <4>3, <2>4
      <3>2. CASE ~(p < n)
        BY <3>0, <3>2, <1>1, <2>2, <2>5, <2>6 DEF In
      <3> QED
        BY <3>1, <3>2
    <2> QED
      BY Zenon, <2>a, <2>2, <2>5, <2>6, <2>7, <1>0 DEF Files, f
  <1> QED
    BY <1>2, <1>3

-------------------------------------------------------------------------------
(* What FlashInv says of the caller and the buffer, spelt out. *)
LEMMA FlashTyped ==
    ASSUME OneCaller, FlashInv
    PROVE  /\ cache \in Files /\ disk \in Files
           /\ Len(cache.data) \in 0..FILE_PAGES /\ Len(disk.data) \in 0..Len(cache.data)
           /\ FILE_PAGES \in Nat /\ pos \in 0..FILE_PAGES
           /\ Me.at \in FlashSteps
           /\ Me.page \in Nat /\ Me.val \in Values
           /\ Me.at # "fflush" => buf = <<>> /\ Flushed = cache
           /\ Me.at = "fflush" => Flushed = Put(cache, Me.page, Me.val)
  <1>1. /\ cache \in Files /\ disk \in Files /\ FILE_PAGES \in Nat /\ pos \in 0..FILE_PAGES
    BY FlashAssumption DEF FlashInv, FlashShape
  <1>2. Len(cache.data) \in 0..FILE_PAGES /\ Len(disk.data) \in 0..Len(cache.data)
    <2>1. Len(cache.data) \in Nat /\ Len(disk.data) \in Nat
      BY <1>1 DEF Files
    <2> QED
      BY <1>1, <2>1 DEF FlashInv, FlashShape
  <1>3. /\ Me.at \in FlashSteps
        /\ Me.page \in Nat /\ Me.val \in Values
    BY DEF OneCaller, FlashInv, FlashShape, FlashCalls, Me
  <1>4. Me.at # "fflush" => buf = <<>>
    BY DEF FlashInv, FlashCall
  <1>5. Me.at = "fflush" => buf = <<Me.page, Me.val>>
    BY DEF FlashInv, FlashCall
  <1>6. <<Me.page, Me.val>> # <<>> /\ <<Me.page, Me.val>>[1] = Me.page
        /\ <<Me.page, Me.val>>[2] = Me.val
    OBVIOUS
  <1> QED
    BY Zenon, <1>1, <1>2, <1>3, <1>4, <1>5, <1>6 DEF Flushed

(* The caller moves on inside its call. *)
LEMMA FlashGoes ==
    ASSUME OneCaller, FlashInv, NEW at \in FlashSteps,
           Goes(c1, at)
    PROVE  /\ pc' \in FlashCalls
           /\ Me'.at = at /\ Me'.page = Me.page /\ Me'.val = Me.val
  BY DEF OneCaller, FlashInv, FlashShape, FlashCalls, Goes, Me

(* The caller starts or ends a call. *)
LEMMA FlashSets ==
    ASSUME OneCaller, FlashInv, NEW at \in FlashSteps,
           NEW page \in Nat, NEW val \in Values,
           pc' = [pc EXCEPT ![c1] = [at |-> at, page |-> page, val |-> val]]
    PROVE  /\ pc' \in FlashCalls
           /\ Me'.at = at /\ Me'.page = page /\ Me'.val = val
  BY DEF OneCaller, FlashInv, FlashShape, FlashCalls, Me

(* Steps that leave the file and the histories alone. *)
LEMMA FlashPagesUntouched ==
    ASSUME FlashInv, UNCHANGED <<cache, disk, writes, acked, begun>>
    PROVE  FlashPages'
  BY DEF FlashInv, FlashPages, WrittenFor, Expected, In

(* What LooksForFile leaves. *)
LEMMA FlashLooksForFile ==
    ASSUME OneCaller, FlashInv, LooksForFile(c1)
    PROVE  FlashInv'
  <1>t. FlashShape /\ FlashCall /\ FlashPages
    BY DEF FlashInv
  <1> DEFINE at == IF cache.exists THEN "open" ELSE "create"
  <1>1. /\ Me.at = "idle" /\ ~s_flash_file /\ Goes(c1, at)
        /\ UNCHANGED <<s_flash_file, pos, buf, cache, disk, history>>
    BY DEF LooksForFile, Me
  <1>2. /\ pc' \in FlashCalls
        /\ Me'.at = at
    BY <1>1, FlashGoes DEF FlashSteps
  <1>3. FlashShape'
    BY <1>1, <1>2, <1>t DEF FlashShape, history
  <1>4. FlashCall'
    BY <1>1, <1>2, <1>t DEF FlashCall, Writing, history
  <1> QED
    BY <1>1, <1>3, <1>4, FlashPagesUntouched DEF FlashInv, history

(* What OpensFile leaves. *)
LEMMA FlashOpensFile ==
    ASSUME OneCaller, FlashInv, OpensFile(c1)
    PROVE  FlashInv'
  <1>t. FlashShape /\ FlashCall /\ FlashPages
    BY DEF FlashInv
  <1>1. /\ Me.at = "open" /\ s_flash_file' = TRUE /\ pos' = 0 /\ buf' = <<>>
        /\ Goes(c1, "idle") /\ UNCHANGED <<cache, disk, history>>
    BY DEF OpensFile, Me
  <1>2. /\ pc' \in FlashCalls
        /\ Me'.at = "idle"
    BY <1>1, FlashGoes DEF FlashSteps
  <1>3. FlashShape'
    BY <1>1, <1>2, <1>t, FlashAssumption DEF FlashShape, FlashCall, history
  <1>4. FlashCall'
    BY <1>1, <1>2, <1>t DEF FlashCall, Writing, history
  <1> QED
    BY <1>1, <1>3, <1>4, FlashPagesUntouched DEF FlashInv, history

(* What CreatesFile leaves. *)
LEMMA FlashCreatesFile ==
    ASSUME OneCaller, FlashInv, CreatesFile(c1)
    PROVE  FlashInv'
  <1>t. FlashShape /\ FlashCall /\ FlashPages
    BY DEF FlashInv
  <1>f. FF \in Values /\ Hole \in Values /\ FF # Hole
    BY MarksDiffer
  <1>1. /\ Me.at = "create" /\ s_flash_file' = TRUE /\ pos' = 0 /\ buf' = <<>>
        /\ cache' = [exists |-> TRUE, data |-> <<>>]
        /\ pc' = [pc EXCEPT ![c1] = [at |-> "fill", page |-> 0, val |-> FF]]
        /\ UNCHANGED <<disk, history>>
    BY DEF CreatesFile, Me
  <1>2. /\ pc' \in FlashCalls
        /\ Me'.at = "fill" /\ Me'.page = 0
    BY Zenon, <1>1, <1>f, FlashSets DEF FlashSteps
  <1>5. ~cache.exists /\ ~disk.exists /\ disk.data = <<>> /\ cache.data = <<>>
    BY Zenon, <1>1, <1>t DEF FlashCall, FlashShape
  <1>6. cache' \in Files /\ cache'.exists /\ cache'.data = <<>> /\ Len(<<>>) = 0
    BY <1>1 DEF Files
  <1>3. FlashShape'
    BY <1>1, <1>2, <1>5, <1>6, <1>t, FlashAssumption DEF FlashShape, history
  <1>4. FlashCall'
    BY <1>1, <1>2, <1>5, <1>6, <1>t DEF FlashCall, Writing, history
  <1>7. \A p : In(cache', p) = In(cache, p)
    BY <1>5, <1>6 DEF In
  <1>8. FlashPages'
    BY <1>1, <1>7, <1>t DEF FlashPages, WrittenFor, Expected, history, In
  <1> QED
    BY <1>3, <1>4, <1>8 DEF FlashInv

(* What flash_file_init leaves. *)
LEMMA FlashFills ==
    ASSUME OneCaller, FlashInv, flash_file_init(c1) /\ Me.page < FILE_PAGES
    PROVE  FlashInv'
  <1>t. FlashShape /\ FlashCall /\ FlashPages
    BY DEF FlashInv
  <1>f. FF \in Values /\ Hole \in Values /\ FF # Hole
    BY MarksDiffer
  <1>1. /\ Me.at = "fill" /\ cache' = Put(cache, pos, FF)
        /\ buf' = <<>> /\ pos' = pos + 1
        /\ pc' = [pc EXCEPT ![c1].page = @ + 1]
        /\ UNCHANGED <<disk, s_flash_file, history>>
    BY FlashTyped DEF flash_file_init, Me
  <1>2. /\ pc' \in FlashCalls
        /\ Me'.at = "fill" /\ Me'.page = Me.page + 1
    BY <1>1, <1>t DEF OneCaller, FlashShape, FlashCalls, FlashSteps, Me
  <1>3. /\ ~disk.exists /\ pos = Me.page /\ Len(cache.data) = pos
        /\ \A i \in 1..pos : cache.data[i] = FF
        /\ s_flash_file /\ disk.data = <<>>
    BY <1>1, <1>t DEF FlashCall, FlashShape
  <1>4. pos \in Pages /\ pos \in Nat /\ cache \in Files /\ FILE_PAGES \in Nat
    BY <1>3, FlashTyped DEF Pages
  <1>5. /\ cache' \in Files /\ cache'.exists /\ Len(cache'.data) = pos + 1
        /\ \A p \in Pages : In(cache', p) = IF p = pos THEN FF ELSE In(cache, p)
    <2>1. Len(cache.data) <= FILE_PAGES
      BY FlashTyped
    <2> QED
      BY <2>1, <1>1, <1>3, <1>4, <1>f, PutContent
  <1>6. FlashShape'
    BY <1>1, <1>2, <1>3, <1>4, <1>5, <1>t DEF FlashShape, history
  <1>7. \A i \in 1..(pos + 1) : cache'.data[i] = FF
    <2>1. ASSUME NEW i \in 1..(pos + 1) PROVE cache'.data[i] = FF
      <3>1. i - 1 \in Pages /\ i - 1 < Len(cache'.data) /\ (i - 1) + 1 = i
        BY <1>3, <1>4, <1>5 DEF Pages
      <3>2. In(cache', i - 1) = cache'.data[i]
        BY <3>1 DEF In
      <3>3. i - 1 # pos => In(cache, i - 1) = FF
        BY <3>1, <1>3, <1>4 DEF In
      <3> QED
        BY <3>1, <3>2, <3>3, <1>5
    <2> QED
      BY <2>1
  <1>8. FlashCall'
    BY <1>1, <1>2, <1>3, <1>5, <1>7, <1>t DEF FlashCall, Writing, history
  <1>9. FlashPages'
    <2>1. ASSUME NEW p \in Pages
          PROVE  /\ (acked[p] = FF \/ WrittenFor(p, acked[p]))'
                 /\ (\A v \in begun[p] : WrittenFor(p, v))'
                 /\ Expected(p, In(cache, p))' /\ Expected(p, In(disk, p))'
      <3>1. acked[p] = FF /\ begun[p] = {}
        BY Zenon, <1>3, <1>t DEF FlashPages
      <3>2. Expected(p, In(cache, p)) /\ Expected(p, In(disk, p))
        BY <1>t DEF FlashPages
      <3> QED
        BY Zenon, <3>1, <3>2, <1>1, <1>5 DEF Expected, In, history
    <2> QED
      BY <2>1, <1>1, <1>t DEF FlashPages, history
  <1> QED
    BY <1>6, <1>8, <1>9 DEF FlashInv

(* What flash_file_init leaves. *)
LEMMA FlashFilled ==
    ASSUME OneCaller, FlashInv, flash_file_init(c1) /\ ~(Me.page < FILE_PAGES)
    PROVE  FlashInv'
  <1>t. FlashShape /\ FlashCall /\ FlashPages
    BY DEF FlashInv
  <1>f. FF \in Values /\ Hole \in Values /\ FF # Hole
    BY MarksDiffer
  <1>1. /\ Me.at = "fill" /\ cache' = cache /\ disk' = cache /\ buf' = <<>>
        /\ pc' = [pc EXCEPT ![c1] = Idle]
        /\ UNCHANGED <<pos, s_flash_file, history>>
    BY FlashTyped DEF flash_file_init, Me
  <1>2. pc' \in FlashCalls /\ Me'.at = "idle"
    BY Zenon, <1>1, <1>f, FlashSets DEF FlashSteps, Idle
  <1>3. /\ ~disk.exists /\ pos = Me.page /\ Len(cache.data) = pos
        /\ s_flash_file /\ cache.exists
    BY Zenon, <1>1, <1>t DEF FlashCall, FlashShape
  <1>4. Len(cache.data) = FILE_PAGES
    BY <1>3, FlashTyped
  <1>5. FlashShape'
    BY Zenon, <1>1, <1>2, <1>3, <1>4, FlashTyped, <1>t DEF FlashShape, history
  <1>6. FlashCall'
    BY Zenon, <1>1, <1>2, <1>t DEF FlashCall, Writing, history
  <1>7. FlashPages'
    BY Zenon, <1>1, <1>3, <1>t DEF FlashPages, WrittenFor, Expected, In, history
  <1> QED
    BY <1>5, <1>6, <1>7 DEF FlashInv

(* What ReadSeek leaves. *)
LEMMA FlashReadSeek ==
    ASSUME OneCaller, FlashInv,
           NEW type \in AllTypes, NEW page \in PagesOf(type), ReadSeek(c1, page)
    PROVE  FlashInv'
  <1>t. FlashShape /\ FlashCall /\ FlashPages
    BY DEF FlashInv
  <1>f. FF \in Values /\ Hole \in Values /\ FF # Hole
    BY MarksDiffer
  <1>1. /\ Me.at = "idle" /\ s_flash_file /\ cache' = cache /\ buf' = <<>> /\ pos' = page
        /\ pc' = [pc EXCEPT ![c1] = [at |-> "fread", page |-> page, val |-> FF]]
        /\ UNCHANGED <<s_flash_file, disk, crashes, cut, writes, acked, begun>>
    BY FlashTyped DEF ReadSeek, Seek, Me
  <1>0. page \in Pages /\ page \in 0..FILE_PAGES /\ page \in Nat
    BY PartitionsApart, FlashAssumption DEF Pages
  <1>2. pc' \in FlashCalls /\ Me'.at = "fread"
    BY Zenon, <1>0, <1>1, <1>f, FlashSets DEF FlashSteps
  <1>3. FlashShape'
    BY Zenon, <1>0, <1>1, <1>2, <1>t DEF FlashShape
  <1>4. FlashCall'
    BY Zenon, <1>1, <1>2, <1>t DEF FlashCall, Writing
  <1> QED
    BY <1>1, <1>3, <1>4, FlashPagesUntouched DEF FlashInv

(* What tkl_flash_read leaves. *)
LEMMA FlashReads ==
    ASSUME OneCaller, FlashInv, tkl_flash_read(c1)
    PROVE  FlashInv'
  <1>t. FlashShape /\ FlashCall /\ FlashPages
    BY DEF FlashInv
  <1>f. FF \in Values /\ Hole \in Values /\ FF # Hole
    BY MarksDiffer
  <1>1. /\ Me.at = "fread" /\ pos' = (IF pos < Len(cache.data) THEN pos + 1 ELSE pos)
        /\ pc' = [pc EXCEPT ![c1] = Idle]
        /\ UNCHANGED <<s_flash_file, buf, cache, disk, history>>
    BY FlashTyped DEF tkl_flash_read, Me
  <1>2. pc' \in FlashCalls /\ Me'.at = "idle"
    BY Zenon, <1>1, <1>f, FlashSets DEF FlashSteps, Idle
  <1>0. pos' \in 0..FILE_PAGES
    BY <1>1, FlashTyped
  <1>3. FlashShape'
    BY Zenon, <1>0, <1>1, <1>2, <1>t DEF FlashShape, history
  <1>4. FlashCall'
    BY Zenon, <1>1, <1>2, <1>t DEF FlashCall, Writing, history
  <1> QED
    BY <1>1, <1>3, <1>4, FlashPagesUntouched DEF FlashInv, history

(* What WriteSeek leaves. *)
LEMMA FlashWriteSeek ==
    ASSUME OneCaller, FlashInv,
           NEW type \in AllTypes, NEW page \in PagesOf(type), WriteSeek(c1, type, page)
    PROVE  FlashInv'
  <1>t. FlashShape /\ FlashCall /\ FlashPages
    BY DEF FlashInv
  <1>v. PICK val : val = <<type, writes + 1>>
    BY Zenon
  <1>1. /\ Me.at = "idle" /\ s_flash_file /\ cache' = cache /\ buf' = <<>> /\ pos' = page
        /\ writes' = writes + 1
        /\ pc' = [pc EXCEPT ![c1] = [at |-> "fwrite", page |-> page, val |-> val]]
        /\ begun' = [begun EXCEPT ![page] = @ \cup {val}]
        /\ UNCHANGED <<s_flash_file, disk, crashes, cut, acked>>
    BY Zenon, <1>v, FlashTyped DEF WriteSeek, Seek, Me
  <1>0. /\ page \in Pages /\ page \in 0..FILE_PAGES /\ page \in Nat /\ writes \in Nat
        /\ val \in Values /\ val # FF /\ val # Hole
    BY <1>v, PartitionsApart, MarksDiffer, <1>t, FlashAssumption DEF Pages, FlashShape
  <1>w. WrittenFor(page, val)'
    <2>1. writes + 1 \in 1..writes'
      BY <1>0, <1>1
    <2> QED
      BY Zenon, <2>1, <1>v DEF WrittenFor
  <1>2. pc' \in FlashCalls /\ Me'.at = "fwrite" /\ Me'.page = page /\ Me'.val = val
    BY Zenon, <1>0, <1>1, FlashSets DEF FlashSteps
  <1>3. FlashShape'
    BY <1>0, <1>1, <1>2, <1>t DEF FlashShape
  <1>5. /\ DOMAIN begun' = Pages
        /\ \A p \in Pages : begun'[p] = IF p = page THEN begun[p] \cup {val} ELSE begun[p]
    BY Zenon, <1>0, <1>1, <1>t DEF FlashPages
  <1>4. FlashCall'
    BY Zenon, <1>0, <1>1, <1>2, <1>5, <1>t DEF FlashCall, Writing
  <1>6. ~(~disk.exists)
    BY Zenon, <1>1, <1>t DEF FlashShape
  <1>7. \A p, v : WrittenFor(p, v) => WrittenFor(p, v)'
    BY SMTT(30), <1>0, <1>1 DEF WrittenFor
  <1>8. FlashPages'
    <2>1. ASSUME NEW p \in Pages
          PROVE  /\ (acked[p] = FF \/ WrittenFor(p, acked[p]))'
                 /\ (\A v \in begun[p] : WrittenFor(p, v))'
                 /\ Expected(p, In(cache, p))' /\ Expected(p, In(disk, p))'
      <3>1. /\ acked[p] = FF \/ WrittenFor(p, acked[p])
            /\ \A v \in begun[p] : WrittenFor(p, v)
            /\ Expected(p, In(cache, p)) /\ Expected(p, In(disk, p))
        BY Zenon, <1>t DEF FlashPages
      <3>2. (acked[p] = FF \/ WrittenFor(p, acked[p]))'
        BY Zenon, <3>1, <1>1, <1>7
      <3>3. (\A v \in begun[p] : WrittenFor(p, v))'
        <4>1. ASSUME NEW v \in begun'[p] PROVE WrittenFor(p, v)'
          <5>1. v \in begun[p] \/ (p = page /\ v = val)
            BY Zenon, <4>1, <1>5
          <5> QED
            BY Zenon, <5>1, <3>1, <1>7, <1>w
        <4> QED
          BY Zenon, <4>1
      <3>4. Expected(p, In(cache, p))' /\ Expected(p, In(disk, p))'
        <4>1. In(cache, p)' = In(cache, p) /\ In(disk, p)' = In(disk, p)
          BY Zenon, <1>1 DEF In
        <4>2. begun[p] \subseteq begun'[p] /\ acked'[p] = acked[p]
          BY Zenon, <1>1, <1>5
        <4> QED
          BY Zenon, <3>1, <4>1, <4>2 DEF Expected
      <3> QED
        BY Zenon, <3>2, <3>3, <3>4
    <2> QED
      BY Zenon, <2>1, <1>1, <1>5, <1>6, <1>t DEF FlashPages
  <1> QED
    BY <1>3, <1>4, <1>8 DEF FlashInv

(* What WriteData leaves. *)
LEMMA FlashWriteData ==
    ASSUME OneCaller, FlashInv, WriteData(c1)
    PROVE  FlashInv'
  <1>t. FlashShape /\ FlashCall /\ FlashPages
    BY DEF FlashInv
  <1>1. /\ Me.at = "fwrite" /\ cache' = cache /\ buf' = <<pos, Me.val>> /\ pos' = pos + 1
        /\ Goes(c1, "fflush") /\ UNCHANGED <<s_flash_file, disk, history>>
    BY Zenon, FlashTyped DEF WriteData, Me
  <1>2. pc' \in FlashCalls /\ Me'.at = "fflush" /\ Me'.page = Me.page /\ Me'.val = Me.val
    BY Zenon, <1>1, FlashGoes DEF FlashSteps
  <1>0. Me.page \in Pages /\ pos = Me.page
    BY Zenon, <1>1, <1>t DEF FlashCall, Writing
  <1>5. pos + 1 \in 0..FILE_PAGES
    BY <1>0, FlashAssumption DEF Pages
  <1>3. FlashShape'
    BY Zenon, <1>1, <1>2, <1>5, <1>t DEF FlashShape, history
  <1>4. FlashCall'
    BY Zenon, <1>0, <1>1, <1>2, <1>t DEF FlashCall, Writing, history
  <1> QED
    BY <1>1, <1>3, <1>4, FlashPagesUntouched DEF FlashInv, history

(* What WriteFlush leaves. *)
LEMMA FlashWriteFlush ==
    ASSUME OneCaller, FlashInv, WriteFlush(c1)
    PROVE  FlashInv'
  <1>t. FlashShape /\ FlashCall /\ FlashPages
    BY DEF FlashInv
  <1>1. /\ Me.at = "fflush" /\ cache' = Put(cache, Me.page, Me.val) /\ buf' = <<>>
        /\ Goes(c1, "fsync") /\ UNCHANGED <<s_flash_file, pos, disk, history>>
    BY Zenon, FlashTyped DEF WriteFlush, Me
  <1>2. pc' \in FlashCalls /\ Me'.at = "fsync" /\ Me'.page = Me.page /\ Me'.val = Me.val
    BY Zenon, <1>1, FlashGoes DEF FlashSteps
  <1>0. /\ Me.page \in Pages /\ Me.val \in begun[Me.page] /\ Me.val \in Values
        /\ cache \in Files /\ Len(cache.data) <= FILE_PAGES /\ s_flash_file
        /\ cache.exists /\ disk.exists
    BY Zenon, <1>1, <1>t, FlashTyped DEF FlashCall, FlashShape, Writing
  <1>3. /\ cache' \in Files /\ cache'.exists
        /\ Len(cache'.data) = (IF Me.page < Len(cache.data) THEN Len(cache.data)
                                ELSE Me.page + 1)
        /\ \A p \in Pages : In(cache', p) = IF p = Me.page THEN Me.val ELSE In(cache, p)
    BY SMTT(30), <1>0, <1>1, PutContent
  <1>4. Len(cache'.data) <= FILE_PAGES /\ Len(disk.data) <= Len(cache'.data)
    BY <1>0, <1>3, FlashTyped DEF Pages
  <1>5. FlashShape'
    BY Zenon, <1>0, <1>1, <1>2, <1>3, <1>4, <1>t DEF FlashShape, history
  <1>6. FlashCall'
    BY Zenon, <1>0, <1>1, <1>2, <1>3, <1>t DEF FlashCall, Writing, history
  <1>7. FlashPages'
    <2>1. WrittenFor(Me.page, Me.val)
      BY Zenon, <1>0, <1>t DEF FlashPages
    <2>2. Me.val # Hole
      BY <2>1, <1>t, MarksDiffer DEF WrittenFor, FlashShape
    <2>3. ASSUME NEW p \in Pages
          PROVE  /\ (acked[p] = FF \/ WrittenFor(p, acked[p]))'
                 /\ (\A v \in begun[p] : WrittenFor(p, v))'
                 /\ Expected(p, In(cache, p))' /\ Expected(p, In(disk, p))'
      <3>1. /\ acked[p] = FF \/ WrittenFor(p, acked[p])
            /\ \A v \in begun[p] : WrittenFor(p, v)
            /\ Expected(p, In(cache, p)) /\ Expected(p, In(disk, p))
        BY Zenon, <1>t DEF FlashPages
      <3>2. /\ (acked[p] = FF \/ WrittenFor(p, acked[p]))'
            /\ (\A v \in begun[p] : WrittenFor(p, v))'
        BY Zenon, <3>1, <1>1 DEF WrittenFor, history
      <3>3. Expected(p, In(disk, p))'
        BY Zenon, <3>1, <1>1 DEF Expected, In, history
      <3>4. Expected(p, In(cache, p))'
        BY Zenon, <3>1, <2>2, <1>0, <1>1, <1>3 DEF Expected, history
      <3> QED
        BY Zenon, <3>2, <3>3, <3>4
    <2>4. DOMAIN acked' = Pages /\ DOMAIN begun' = Pages /\ disk'.exists
      BY Zenon, <1>0, <1>1, <1>t DEF FlashPages, history
    <2> QED
      BY Zenon, <2>3, <2>4 DEF FlashPages
  <1> QED
    BY <1>5, <1>6, <1>7 DEF FlashInv

(* What WriteSync leaves. *)
LEMMA FlashWriteSync ==
    ASSUME OneCaller, FlashInv, WriteSync(c1)
    PROVE  FlashInv'
  <1>t. FlashShape /\ FlashCall /\ FlashPages
    BY DEF FlashInv
  <1>f. FF \in Values /\ Hole \in Values /\ FF # Hole
    BY MarksDiffer
  <1>1. /\ Me.at = "fsync" /\ disk' = cache
        /\ acked' = [acked EXCEPT ![Me.page] = Me.val]
        /\ begun' = [begun EXCEPT ![Me.page] = {}]
        /\ pc' = [pc EXCEPT ![c1] = Idle]
        /\ UNCHANGED <<s_flash_file, pos, buf, cache, writes, crashes, cut>>
    BY DEF WriteSync, Returns, Me
  <1>2. pc' \in FlashCalls /\ Me'.at = "idle"
    BY Zenon, <1>1, <1>f, FlashSets DEF FlashSteps, Idle
  <1>0. /\ Me.page \in Pages /\ Me.val \in begun[Me.page]
        /\ s_flash_file /\ cache.exists /\ disk.exists /\ In(cache, Me.page) = Me.val
    BY Zenon, <1>1, <1>t DEF FlashCall, FlashShape, Writing
  <1>3. ~cut => Len(cache.data) = FILE_PAGES
    BY <1>0, <1>t, FlashTyped DEF FlashShape
  <1>5. FlashShape'
    <2>1. /\ cache \in Files /\ Len(cache.data) <= FILE_PAGES
          /\ Len(cache.data) <= Len(cache.data) /\ pos \in 0..FILE_PAGES
      BY FlashTyped
    <2> QED
      BY Zenon, <2>1, <1>0, <1>1, <1>2, <1>3, <1>t DEF FlashShape
  <1>6. FlashCall'
    BY Zenon, <1>1, <1>2, <1>t DEF FlashCall, Writing
  <1>7. FlashPages'
    <2>1. WrittenFor(Me.page, Me.val)
      BY Zenon, <1>0, <1>t DEF FlashPages
    <2>2. Me.val # Hole
      BY <2>1, <1>t, MarksDiffer DEF WrittenFor, FlashShape
    <2>4. /\ DOMAIN acked' = Pages /\ DOMAIN begun' = Pages
          /\ \A p \in Pages : /\ acked'[p] = IF p = Me.page THEN Me.val ELSE acked[p]
                              /\ begun'[p] = IF p = Me.page THEN {} ELSE begun[p]
      BY Zenon, <1>0, <1>1, <1>t DEF FlashPages
    <2>5. \A p, v : WrittenFor(p, v)' = WrittenFor(p, v)
      BY <1>1 DEF WrittenFor
    <2>3. ASSUME NEW p \in Pages
          PROVE  /\ (acked[p] = FF \/ WrittenFor(p, acked[p]))'
                 /\ (\A v \in begun[p] : WrittenFor(p, v))'
                 /\ Expected(p, In(cache, p))' /\ Expected(p, In(disk, p))'
      <3>1. /\ acked[p] = FF \/ WrittenFor(p, acked[p])
            /\ \A v \in begun[p] : WrittenFor(p, v)
            /\ Expected(p, In(cache, p))
        BY Zenon, <1>t DEF FlashPages
      <3>2. /\ (acked[p] = FF \/ WrittenFor(p, acked[p]))'
            /\ (\A v \in begun[p] : WrittenFor(p, v))'
        BY Zenon, <3>1, <2>1, <2>4, <2>5
      <3>3. Expected(p, In(cache, p))'
        <4>1. In(cache, p)' = In(cache, p)
          BY Zenon, <1>1 DEF In
        <4> QED
          BY Zenon, <3>1, <2>2, <2>4, <1>0, <4>1 DEF Expected
      <3>4. Expected(p, In(disk, p))'
        BY Zenon, <3>3, <1>1 DEF Expected, In
      <3> QED
        BY Zenon, <3>2, <3>3, <3>4
    <2> QED
      <3>1. disk'.exists
        BY <1>0, <1>1
      <3> QED
        BY Zenon, <2>3, <2>4, <3>1 DEF FlashPages
  <1> QED
    BY <1>5, <1>6, <1>7 DEF FlashInv

(* What FlashCrash leaves. *)
LEMMA FlashCrashes ==
    ASSUME OneCaller, FlashInv, FlashCrash
    PROVE  FlashInv'
  <1>t. FlashShape /\ FlashCall /\ FlashPages
    BY DEF FlashInv
  <1>f. FF \in Values /\ Hole \in Values /\ FF # Hole
    BY MarksDiffer
  <1>1. /\ FileSurvives /\ s_flash_file' = FALSE /\ pos' = 0 /\ buf' = <<>>
        /\ cut' = (cut \/ \E c \in Callers : pc[c].at = "fill")
        /\ pc' = [c \in Callers |-> Idle]
        /\ UNCHANGED <<writes, acked, begun>>
    BY Zenon DEF FlashCrash
  <1>2. pc' \in FlashCalls /\ Me'.at = "idle"
    BY Zenon, <1>1, <1>f DEF OneCaller, FlashCalls, FlashSteps, Idle, Me
  <1>3. /\ cache' = disk' /\ disk' \in Files
        /\ Len(disk.data) <= Len(disk'.data) /\ Len(disk'.data) <= Len(cache.data)
        /\ disk' = disk \/ (disk'.exists /\ cache.exists)
        /\ \A p \in Pages : In(disk', p) \in {In(disk, p), In(cache, p)}
    BY Zenon, <1>1, <1>t, SurvivorContent DEF FlashShape
  <1>4. ~cut' => ~cut /\ Me.at # "fill" /\ cut' \in BOOLEAN
    BY Zenon, <1>1 DEF OneCaller, Me
  <1>5. ~cut' /\ disk'.exists => Len(disk'.data) = FILE_PAGES
    BY <1>3, <1>4, <1>t, FlashTyped DEF FlashShape
  <1>6. cut' \in BOOLEAN
    BY Zenon, <1>1, <1>t DEF FlashShape
  <1>7. /\ ~disk'.exists => disk'.data = <<>>
        /\ Len(disk'.data) \in Nat /\ Len(disk'.data) <= FILE_PAGES
    BY <1>3, <1>t, FlashTyped DEF FlashShape, Files
  <1>8. FlashShape'
    <2>1. 0 \in 0..FILE_PAGES /\ FALSE \in BOOLEAN /\ writes \in Nat
      BY <1>t, FlashAssumption DEF FlashShape
    <2>2. /\ cache' \in Files /\ Len(cache'.data) <= FILE_PAGES
          /\ Len(disk'.data) <= Len(cache'.data)
      BY <1>3, <1>7
    <2> QED
      BY Zenon, <2>1, <2>2, <1>1, <1>2, <1>3, <1>5, <1>6, <1>7 DEF FlashShape
  <1>9. FlashCall'
    BY Zenon, <1>1, <1>2 DEF FlashCall, Writing
  <1>10. FlashPages'
    <2>1. ASSUME NEW p \in Pages
          PROVE  Expected(p, In(cache, p))' /\ Expected(p, In(disk, p))'
      <3>1. Expected(p, In(cache, p)) /\ Expected(p, In(disk, p))
        BY Zenon, <1>t DEF FlashPages
      <3>2. Expected(p, In(disk', p))
        BY <3>1, <1>3
      <3> QED
        BY Zenon, <3>2, <1>1, <1>3 DEF Expected, In
    <2>2. ~disk'.exists => ~disk.exists
      BY Zenon, <1>3
    <2> QED
      BY SMTT(30), <2>1, <2>2, <1>1, <1>t DEF FlashPages, WrittenFor
  <1> QED
    BY <1>8, <1>9, <1>10 DEF FlashInv

(* Every step of the only caller, and every crash, keeps the invariant. *)
LEMMA FlashStep ==
    ASSUME OneCaller
    PROVE  FlashInv /\ [FlashNext]_flashvars => FlashInv'
  <1> SUFFICES ASSUME FlashInv, [FlashNext]_flashvars PROVE FlashInv'
    OBVIOUS
  <1>t. FlashShape /\ FlashCall /\ FlashPages
    BY DEF FlashInv
  <1>f. FF \in Values /\ Hole \in Values /\ FF # Hole
    BY MarksDiffer
  <1>1. CASE LooksForFile(c1)
    BY <1>1, FlashLooksForFile
  <1>2. CASE OpensFile(c1)
    BY <1>2, FlashOpensFile
  <1>3. CASE CreatesFile(c1)
    BY <1>3, FlashCreatesFile
  <1>4. CASE flash_file_init(c1) /\ Me.page < FILE_PAGES
    BY <1>4, FlashFills
  <1>5. CASE flash_file_init(c1) /\ ~(Me.page < FILE_PAGES)
    BY <1>5, FlashFilled
  <1>6. ASSUME NEW type \in AllTypes, NEW page \in PagesOf(type), ReadSeek(c1, page)
        PROVE  FlashInv'
    BY <1>6, FlashReadSeek
  <1>7. CASE tkl_flash_read(c1)
    BY <1>7, FlashReads
  <1>8. ASSUME NEW type \in AllTypes, NEW page \in PagesOf(type), WriteSeek(c1, type, page)
        PROVE  FlashInv'
    BY <1>8, FlashWriteSeek
  <1>9. CASE WriteData(c1)
    BY <1>9, FlashWriteData
  <1>10. CASE WriteFlush(c1)
    BY <1>10, FlashWriteFlush
  <1>11. CASE WriteSync(c1)
    BY <1>11, FlashWriteSync
  <1>12. CASE FlashCrash
    BY <1>12, FlashCrashes
  <1>13. CASE UNCHANGED flashvars
    BY Zenon, <1>13, <1>t, FlashPagesUntouched
       DEF flashvars, FlashInv, FlashShape, FlashCall, Writing, In, Me
  <1> QED
    <2>1. CASE FlashNext
      BY Zenon, <2>1, FlashAssumption,
         <1>1, <1>2, <1>3, <1>4, <1>5, <1>6, <1>7, <1>8, <1>9, <1>10, <1>11, <1>12
         DEF OneCaller, FlashNext
    <2> QED
      BY <2>1, <1>13

(* The invariant holds before the file exists. *)
LEMMA FlashStart ==
    ASSUME OneCaller
    PROVE  FlashInit => FlashInv
  <1> SUFFICES ASSUME FlashInit PROVE FlashInv
    OBVIOUS
  <1>1. FlashShape
    <2>1. NoFile \in Files /\ ~NoFile.exists /\ NoFile.data = <<>> /\ Len(<<>>) = 0
      BY DEF NoFile, Files
    <2>2. pc \in FlashCalls
      BY Zenon, MarksDiffer DEF FlashInit, FlashCalls, FlashSteps, Idle
    <2>3. 0 \in 0..FILE_PAGES /\ 0 <= FILE_PAGES /\ 0 <= 0 /\ 0 \in Nat
      BY FlashAssumption
    <2>4. s_flash_file \in BOOLEAN /\ cut \in BOOLEAN
      BY Zenon DEF FlashInit
    <2> QED
      BY Zenon, <2>1, <2>2, <2>3, <2>4 DEF FlashInit, FlashShape
  <1>2. FlashCall
    BY Zenon DEF OneCaller, FlashInit, NoFile, FlashCall, Writing, Idle, Me
  <1>3. FlashPages
    <2>1. cache.data = <<>> /\ disk.data = <<>> /\ Len(<<>>) = 0
      BY DEF FlashInit, NoFile
    <2>2. \A p \in Pages : In(cache, p) = Hole /\ In(disk, p) = Hole
      BY <2>1, FlashAssumption DEF In, Pages
    <2> QED
      BY Zenon, <2>2 DEF FlashInit, FlashPages, Expected
  <1> QED
    BY <1>1, <1>2, <1>3 DEF FlashInv

(* The invariant gives what is promised. *)
LEMMA FlashInvImplies ==
    ASSUME OneCaller
    PROVE  FlashInv => AckedKept
  <1> SUFFICES ASSUME FlashInv PROVE AckedKept
    OBVIOUS
  <1>1. FlashTypeOK
    BY FlashTyped DEF OneCaller, FlashTypeOK, FlashInv, Me
  <1>2. \A p \in Pages : Content(p) = In(cache, p) /\ Expected(p, Content(p))
    BY Zenon DEF FlashInv, FlashPages, Content, In
  <1>3. PagesKept
    BY Zenon, <1>2 DEF PagesKept, Expected
  <1>4. PartitionsSeparate
    <2> SUFFICES ASSUME NEW type \in AllTypes, NEW p \in PagesOf(type)
                 PROVE  Content(p) \in {FF, Hole} \/ Content(p)[1] = type
      BY DEF PartitionsSeparate
    <2>1. p \in Pages
      BY SMTT(30), PartitionsApart
    <2>2. Content(p) \in {FF, Hole} \/ WrittenFor(p, Content(p))
      BY Zenon, <2>1, <1>2 DEF Expected, FlashInv, FlashPages
    <2>3. WrittenFor(p, Content(p)) => Content(p)[1] = type
      BY PartitionsApart DEF WrittenFor
    <2> QED
      BY <2>2, <2>3
  <1>5. PartitionsReadable
    <2> SUFFICES ASSUME Settled, ~cut, NEW type \in AllTypes, NEW p \in PagesOf(type)
                 PROVE  p < Len(cache.data)
      BY DEF PartitionsReadable
    <2>1. Me.at # "fill" /\ cache.exists /\ disk.exists
      BY Zenon DEF OneCaller, Settled, FlashInv, FlashShape, Me
    <2>2. Len(cache.data) = FILE_PAGES
      BY <2>1, FlashTyped DEF FlashInv, FlashShape
    <2>3. p \in Pages
      BY PartitionsApart
    <2> QED
      BY <2>2, <2>3, FlashAssumption DEF Pages
  <1> QED
    BY <1>1, <1>3, <1>4, <1>5 DEF AckedKept

(* For every partition table that fits the file, one caller, and crashes   *)
(* anywhere in its calls: what tkl_flash_write acknowledged is kept, in    *)
(* its own partition, and the pages are readable unless the first fill was *)
(* cut off.                                                                *)
THEOREM FlashKeepsAcked ==
    ASSUME OneCaller
    PROVE  FlashSpec => []AckedKept
  BY FlashStart, FlashStep, FlashInvImplies, PTL DEF FlashSpec

-------------------------------------------------------------------------------
(* FileMatchesProgress for every image, pack lengths and rest kept: the    *)
(* bytes written never run ahead of the offset.                            *)
Written ==
    /\ offset \in 0..TotalLen
    /\ state \in {"idle", "loading", "loaded"}
    /\ file \in Seq(Nat) /\ Len(file) <= TotalLen
    /\ state # "idle" => s_upgrade_fd = "open" /\ Len(file) <= offset
    /\ state # "idle" /\ ~short => file = [i \in 1..offset |-> i]

(* What fwrite appends to the image up to o is the image up to o + k. *)
LEMMA AppendImage ==
    ASSUME NEW o \in Nat, NEW k \in Nat
    PROVE  /\ [i \in 1..k |-> o + i] \in Seq(Nat)
           /\ Len([i \in 1..k |-> o + i]) = k
           /\ [i \in 1..o |-> i] \o [i \in 1..k |-> o + i] = [i \in 1..(o + k) |-> i]
<1> DEFINE s == [i \in 1..o |-> i]
           t == [i \in 1..k |-> o + i]
<1>1. s \in Seq(Nat) /\ Len(s) = o
  OBVIOUS
<1>2. t \in Seq(Nat) /\ Len(t) = k
  OBVIOUS
<1>3. /\ s \o t \in Seq(Nat) /\ Len(s \o t) = o + k
      /\ \A i \in 1..(o + k) : (s \o t)[i] = IF i <= o THEN s[i] ELSE t[i - o]
  BY <1>1, <1>2
<1>4. \A i \in 1..(o + k) : (s \o t)[i] = i
  <2> TAKE i \in 1..(o + k)
  <2>1. CASE i <= o
    BY <1>3, <2>1
  <2>2. CASE ~(i <= o)
    <3>1. i - o \in 1..k
      BY <2>2
    <3> QED
      BY <1>3, <2>2, <3>1
  <2> QED
    BY <2>1, <2>2
<1>5. s \o t = [i \in 1..(o + k) |-> i]
  BY <1>3, <1>4
<1> QED
  BY <1>2, <1>5

(* A pack keeps the invariant: only a whole write moves the image on. *)
LEMMA PackKeepsWritten ==
    ASSUME NEW len \in PackLens, Written, tkl_ota_data_process(len)
    PROVE  Written'
<1> DEFINE last == offset + len = TotalLen
           n == WriteLen(len, last)
<1>1. /\ offset \in Nat /\ len \in Nat /\ KEEP \in Nat /\ TotalLen \in Nat
      /\ len >= KEEP /\ offset + len <= TotalLen
      /\ state = "loading" /\ s_upgrade_fd = "open" /\ s_upgrade_fd' = "open"
      /\ file \in Seq(Nat) /\ Len(file) <= offset
      /\ state' \in {"loading", "loaded"}
  BY OtaAssumption DEF Written, tkl_ota_data_process
<1>2. n \in Nat /\ offset' = offset + n /\ offset + n <= TotalLen
  <2>1. offset' = IF last THEN TotalLen ELSE offset + len - KEEP
    BY DEF tkl_ota_data_process
  <2> QED
    BY <1>1, <2>1 DEF WriteLen
<1>3. PICK k \in 0..n : /\ file' = file \o [i \in 1..k |-> offset + i]
                        /\ short' = (short \/ k < n)
  BY Zenon DEF tkl_ota_data_process
<1>4. /\ [i \in 1..k |-> offset + i] \in Seq(Nat)
      /\ Len([i \in 1..k |-> offset + i]) = k
      /\ [i \in 1..offset |-> i] \o [i \in 1..k |-> offset + i]
            = [i \in 1..(offset + k) |-> i]
  BY <1>1, <1>2, AppendImage
<1>5. file' \in Seq(Nat) /\ Len(file') = Len(file) + k
  BY <1>1, <1>3, <1>4
<1>6. ~short' => file' = [i \in 1..offset' |-> i]
  <2> HAVE ~short'
  <2>1. ~short /\ k = n
    <3>1. ~short /\ ~(k < n)
      BY <1>3, Zenon
    <3>2. k \in 0..n
      OBVIOUS
    <3> QED
      BY <1>2, <3>1, <3>2
  <2>2. file = [i \in 1..offset |-> i]
    BY <1>1, <2>1 DEF Written
  <2> QED
    BY Zenon, <1>2, <1>3, <1>4, <2>1, <2>2
<1>7. offset' \in 0..TotalLen /\ Len(file') <= offset' /\ Len(file') <= TotalLen
  <2> HIDE DEF n
  <2> QED
    BY <1>1, <1>2, <1>5
<1> QED
  BY Zenon, <1>1, <1>5, <1>6, <1>7 DEF Written

(* Whatever the length of the image, of the packs and of the rest a pack   *)
(* keeps back, and wherever an fwrite falls short or a download is given   *)
(* up, the file matches the progress.                                      *)
THEOREM OtaFileMatchesProgress == OtaSpec => []FileMatchesProgress
<1>1. OtaInit => Written
  BY OtaAssumption DEF OtaInit, Written
<1>2. Written /\ [OtaNext]_ota => Written'
  <2> SUFFICES ASSUME Written, [OtaNext]_ota PROVE Written'
    OBVIOUS
  <2>1. ASSUME NEW opened \in BOOLEAN, tkl_ota_start_notify(opened) PROVE Written'
    BY <2>1, OtaAssumption DEF tkl_ota_start_notify, Written
  <2>2. ASSUME NEW len \in PackLens, tkl_ota_data_process(len) PROVE Written'
    BY <2>2, PackKeepsWritten
  <2>3. CASE tkl_ota_end_notify
    BY Zenon, <2>3 DEF tkl_ota_end_notify, Written
  <2>4. CASE UNCHANGED ota
    BY Zenon, <2>4 DEF ota, Written
  <2> QED
    BY <2>1, <2>2, <2>3, <2>4 DEF OtaNext
<1>3. Written => FileMatchesProgress
  BY DEF Written, FileMatchesProgress
<1> QED
  BY <1>1, <1>2, <1>3, PTL DEF OtaSpec
===============================================================================
