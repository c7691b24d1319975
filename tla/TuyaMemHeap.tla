----------------------------- MODULE TuyaMemHeap ------------------------------
(***************************************************************************)
(* The heaps of include/utilities/src/tuya_mem_heap.c: regions of memory   *)
(* cut into blocks, each with a size header and a state byte (the "dog")   *)
(* at its end, and an address-ordered list of the free blocks.             *)
(*                                                                         *)
(* Addresses and block sizes are counted in units of MEM_ALIGN_NUM bytes   *)
(* (8 on Linux); requests and regions are given in bytes.  blk[a] is the   *)
(* size word of the block at unit a, 0 where no block starts, and dog[a]   *)
(* the state byte of the block that ends with unit a, "data" elsewhere.  A *)
(* free list is the sequence of its blocks.  Everything between            *)
(* enter_critical and exit_critical is one step, except the walk of        *)
(* MEM_HeapStatus, which gives the critical section up on the way.         *)
(* MEM_ASSERT and MEM_DEBUG_FREE_FILL are compiled out; a request of size  *)
(* 0 and a NULL argument change nothing.                                   *)
(*                                                                         *)
(* On top of them tuyaos_adapter/src/tkl_memory.c: one heap of             *)
(* MAX_HEAP_SIZE bytes, created by the first tkl_system_malloc.            *)
(* s_heap_handle is read and written outside s_heap_mutex, so the test in  *)
(* tkl_system_malloc, the creation and the store are separate steps.       *)
(***************************************************************************)
EXTENDS Integers, FiniteSets, SequencesExt

CONSTANTS Threads,
          MEM_HEAP_LIST_NUM,   \* heap slots
          Regions,             \* memory for heaps: records [base, size]
          Sizes,               \* request sizes in bytes
          DebugSizes,          \* request sizes of debug_malloc
          MaxUnit,             \* every region lies below this unit
          CanDelete,           \* whether heaps are deleted
          MaxFreeSize,         \* bound: no heap is created above this free size
          Starters             \* tkl_memory: threads that may call before the heap exists

MEM_ALIGN_NUM == 8
MEM_BLOCK_MIN_SIZE == 24
MEM_BLOCK_HEAD_SIZE == 1
MEM_HEAP_MIN_SIZE == 4
FIT_FIND_DEPTH == 3
LEAK_SIZE == 32               \* sizeof(MEM_DbgLeak_t)

Units == 0..MaxUnit
Heaps == 1..MEM_HEAP_LIST_NUM
ALIGN_UP(x) == (x + MEM_ALIGN_NUM - 1) \div MEM_ALIGN_NUM
ALIGN_DOWN(x) == x \div MEM_ALIGN_NUM

VARIABLES
    mem_heap_list,                \* base, size, free_list, free, free_watermark
    s_heap_free_size, s_heap_free_size_watermark,
    blk, dog,                     \* memory: size words and state bytes
    leak,                         \* blocks that carry a leak record
    live,                         \* pointers callers hold: their block
    want,                         \* bytes promised for each live block
    call,                         \* each thread's call in progress
    critical,                     \* the thread inside the critical section
    s_heap_handle,                \* tkl_memory: its heap, 0 is NULL
    boot                          \* per thread: what remains of __heap_init

heapvars == <<mem_heap_list, s_heap_free_size, s_heap_free_size_watermark>>
memvars == <<blk, dog, leak>>
vars == <<mem_heap_list, s_heap_free_size, s_heap_free_size_watermark,
          blk, dog, leak, live, want, call, critical>>
tklvars == <<s_heap_handle, boot>>
allvars == <<vars, tklvars>>

NoHeap == [base |-> 0, size |-> 0, free_list |-> <<>>,
           free |-> 0, free_watermark |-> 0]

(* op: what the call does next.  h: its handle, 0 for "any heap".  idx:    *)
(* the heap it looks at.  n: bytes asked for.  p, q: old and new block of  *)
(* a realloc, or thisBlockp and freeBlockp of a status walk; 0 is NULL.    *)
Idle == [op |-> "idle", h |-> 0, idx |-> 0, n |-> 0, p |-> 0, q |-> 0,
         dbg |-> FALSE]

Init ==
    /\ mem_heap_list = [i \in Heaps |-> NoHeap]
    /\ s_heap_free_size = 0 /\ s_heap_free_size_watermark = 0
    /\ blk = [a \in Units |-> 0]
    /\ dog = [a \in Units |-> "data"]
    /\ leak = {} /\ live = {} /\ want = [a \in Units |-> 0]
    /\ call = [t \in Threads |-> Idle]
    /\ critical = {}

-------------------------------------------------------------------------------
(* Block arithmetic *)

Heap(i) == mem_heap_list[i]
Low(h) == ALIGN_UP(h.base)
Top(h) == ALIGN_DOWN(h.base + h.size)
Bytes(u) == u * MEM_ALIGN_NUM

(* Room for n bytes, the state byte and the header. *)
BlockSize(n) == ALIGN_UP((IF n < 4 THEN 4 ELSE n) + 1) + MEM_BLOCK_HEAD_SIZE

(* MEM_AllocateDebug asks for the aligned size plus the leak record. *)
DebugRequest(n) == Bytes(ALIGN_UP(n)) + LEAK_SIZE

FirstFitStrict(fl, size) ==
    LET fits == {i \in DOMAIN fl : blk[fl[i]] > size}
    IN  IF fits = {} THEN 0 ELSE CHOOSE i \in fits : \A j \in fits : i <= j

FirstFit(fl, size) ==
    LET fits == {i \in DOMAIN fl : blk[fl[i]] >= size}
    IN  IF fits = {} THEN 0 ELSE CHOOSE i \in fits : \A j \in fits : i <= j

(* The anti-fragment search: from the first fit on, a later block that     *)
(* still fits and is not larger is preferred, at most FIT_FIND_DEPTH times.*)
BestFit(fl, size) ==
    LET i == FirstFit(fl, size)
        Better(acc, j) ==
            IF /\ acc[2] < FIT_FIND_DEPTH
               /\ blk[fl[j]] >= size /\ blk[fl[j]] <= blk[fl[acc[1]]]
            THEN <<j, acc[2] + 1>> ELSE acc
    IN  IF i = 0 THEN 0
        ELSE FoldLeft(Better, <<i, 0>>,
                      [k \in 1..(Len(fl) - i) |-> i + k])[1]

(* The block carved from the end of a free one, or the whole free block    *)
(* when what would remain is too small.                                    *)
mem_chunk_get(fl, size) ==
    LET i == BestFit(fl, size)
        b == fl[i]
        rest == blk[b] - size
    IN  IF rest >= MEM_HEAP_MIN_SIZE
        THEN [block |-> b + rest, size |-> size, free_list |-> fl,
              blk |-> [blk EXCEPT ![b] = rest, ![b + rest] = size],
              dog |-> [dog EXCEPT ![b + rest - 1] = "free",
                                  ![b + rest + size - 1] = "use"]]
        ELSE [block |-> b, size |-> blk[b], free_list |-> RemoveAt(fl, i),
              blk |-> blk, dog |-> [dog EXCEPT ![b + blk[b] - 1] = "use"]]

InsertFreeForwardOnly(fl, f) ==
    LET at == Cardinality({i \in DOMAIN fl : fl[i] < f})
        before == SubSeq(fl, 1, at)
        after == SubSeq(fl, at + 1, Len(fl))
        next == IF after # <<>> /\ f + blk[f] = Head(after)
                THEN <<Head(after)>> ELSE <<>>
        run == <<f>> \o next
        size == FoldLeft(LAMBDA acc, b : acc + blk[b], 0, run)
    IN  [free_list |-> before \o <<f>> \o SubSeq(after, Len(next) + 1, Len(after)),
         blk |-> [a \in Units |-> IF a = f THEN size
                                  ELSE IF a \in ToSet(run) THEN 0 ELSE blk[a]],
         dog |-> [a \in Units |-> IF a = f + blk[f] - 1 THEN "free" ELSE dog[a]]]

(* MEM_Deallocate's work on the list: put block f at its place by address  *)
(* and merge it with the neighbours it touches into one block.  Storing    *)
(* f's next pointer replaces the state byte of a block of two units: the   *)
(* pointer is its second unit, whose last byte the state byte is.          *)
InsertFree(fl, f) ==
    LET at == Cardinality({i \in DOMAIN fl : fl[i] < f})
        before == SubSeq(fl, 1, at)
        after == SubSeq(fl, at + 1, Len(fl))
        pre == IF before # <<>> /\ Last(before) + blk[Last(before)] = f
               THEN <<Last(before)>> ELSE <<>>
        next == IF after # <<>> /\ f + blk[f] = Head(after)
                THEN <<Head(after)>> ELSE <<>>
        run == pre \o <<f>> \o next
        size == FoldLeft(LAMBDA acc, b : acc + blk[b], 0, run)
        end == Head(run) + size - 1
    IN  [free_list |-> SubSeq(before, 1, at - Len(pre)) \o <<Head(run)>>
                         \o SubSeq(after, Len(next) + 1, Len(after)),
         blk |-> [a \in Units |-> IF a = Head(run) THEN size
                                  ELSE IF a \in ToSet(run) THEN 0 ELSE blk[a]],
         dog |-> [a \in Units |->
                    IF a = end /\ next = <<>>
                    THEN IF blk[f] = 2 THEN "data" ELSE "free"
                    ELSE IF a \in Head(run)..(end - 1) THEN "data" ELSE dog[a]]]

-------------------------------------------------------------------------------
(* Heap creation and deletion *)

Least(S) == CHOOSE i \in S : \A j \in S : i <= j
Lower(a, b) == IF a > b THEN b ELSE a

(* mem_heap_init: one free block; the global watermark restarts. *)
mem_heap_init(i, r) ==
    LET u == ALIGN_UP(r.base)
        size == ALIGN_DOWN(r.base + r.size) - u
    IN  /\ size >= MEM_HEAP_MIN_SIZE
        /\ mem_heap_list' = [mem_heap_list EXCEPT ![i] =
             [base |-> r.base, size |-> r.size, free_list |-> <<u>>,
              free |-> size, free_watermark |-> size]]
        /\ s_heap_free_size' = s_heap_free_size + size
        /\ s_heap_free_size_watermark' = s_heap_free_size'
        /\ blk' = [blk EXCEPT ![u] = size]
        /\ dog' = [dog EXCEPT ![u + size - 1] = "free"]

MEM_HeapCreate(r) ==
    /\ critical = {} /\ s_heap_free_size <= MaxFreeSize
    /\ \A i \in Heaps : Heap(i).base # r.base     \* the caller's memory is unused
    /\ LET empty == {i \in Heaps : Heap(i).size = 0}
       IN  empty # {} /\ mem_heap_init(Least(empty), r)
    /\ UNCHANGED <<leak, live, want, call, critical>>

Inside(i, a) == Low(Heap(i)) <= a /\ a < Top(Heap(i))

(* A caller deletes a heap nobody uses any more and has its memory back. *)
MEM_HeapDelete(i) ==
    /\ CanDelete /\ critical = {} /\ Heap(i).size # 0
    /\ \A t \in Threads : call[t] = Idle
    /\ \A a \in live : ~Inside(i, a)
    /\ mem_heap_list' = [mem_heap_list EXCEPT ![i] = NoHeap]
    /\ blk' = [a \in Units |-> IF Inside(i, a) THEN 0 ELSE blk[a]]
    /\ dog' = [a \in Units |-> IF Inside(i, a) THEN "data" ELSE dog[a]]
    /\ UNCHANGED <<s_heap_free_size, s_heap_free_size_watermark, leak,
                   live, want, call, critical>>

-------------------------------------------------------------------------------
(* malloc, calloc and their debug forms; realloc *)

(* Blocks a realloc in progress works on: no other call is made on them. *)
Busy == UNION {{call[t].p, call[t].q} :
                 t \in {u \in Threads : call[u].op \notin {"walk", "output"}}}
Enter(t, c) == call' = [call EXCEPT ![t] = c]

(* The call c goes to its heap, or starts looking through the list. *)
Dispatch(c) ==
    IF c.h = 0 THEN [c EXCEPT !.op = "scan", !.idx = 1]
    ELSE [c EXCEPT !.op = "alloc", !.idx = c.h]

tuya_mem_heap_malloc(t, h, n, debug) ==
    /\ call[t] = Idle
    /\ Enter(t, Dispatch([Idle EXCEPT !.h = h, !.n = n, !.dbg = debug]))
    /\ UNCHANGED <<heapvars, memvars, live, want, critical>>

(* realloc of a pointer the caller owns: in place when the block is large  *)
(* enough (the caller's data may then replace a leak record).              *)
(* debug_realloc always moves.                                             *)
tuya_mem_heap_realloc(t, h, p, n, debug) ==
    /\ call[t] = Idle /\ p \in live \ Busy
    /\ IF ~debug /\ BlockSize(n) <= blk[p]
       THEN /\ want' = [want EXCEPT ![p] = n]
            /\ leak' = IF n + LEAK_SIZE < Bytes(blk[p] - MEM_BLOCK_HEAD_SIZE)
                       THEN leak ELSE leak \ {p}
            /\ UNCHANGED call
       ELSE /\ Enter(t, Dispatch([Idle EXCEPT !.h = h, !.n = n, !.p = p,
                                              !.dbg = debug]))
            /\ UNCHANGED <<want, leak>>
    /\ UNCHANGED <<heapvars, blk, dog, live, critical>>

(* One round of the loop over the heaps, which reads size and free without *)
(* entering the critical section.                                          *)
ScanHeap(t) ==
    LET c == call[t] IN
    /\ c.op = "scan"
    /\ IF c.idx > MEM_HEAP_LIST_NUM \/ (c.idx \in Heaps /\ Heap(c.idx).size = 0)
       THEN Enter(t, Idle)
       ELSE IF Bytes(Heap(c.idx).free) > c.n + MEM_BLOCK_MIN_SIZE
            THEN Enter(t, [c EXCEPT !.op = "alloc"])
            ELSE Enter(t, [c EXCEPT !.idx = c.idx + 1])
    /\ UNCHANGED <<heapvars, memvars, live, want, critical>>

Request(c) == IF c.dbg THEN DebugRequest(c.n) ELSE c.n

(* The block of chunk g leaves the heap: free sizes and watermarks. *)
TakeChunk(i, g) ==
    LET free == Heap(i).free - g.size IN
    /\ mem_heap_list' = [mem_heap_list EXCEPT
         ![i].free_list = g.free_list, ![i].free = free,
         ![i].free_watermark = Lower(Heap(i).free_watermark, free)]
    /\ s_heap_free_size' = s_heap_free_size - g.size
    /\ s_heap_free_size_watermark' =
         Lower(s_heap_free_size_watermark, s_heap_free_size')
    /\ blk' = g.blk /\ dog' = g.dog

MEM_Allocate(t) ==
    LET c == call[t]
        i == c.idx
        size == BlockSize(Request(c))
        g == mem_chunk_get(Heap(i).free_list, size)
    IN
    /\ c.op = "alloc" /\ critical = {}
    /\ IF BestFit(Heap(i).free_list, size) # 0
       THEN /\ TakeChunk(i, g)
            /\ leak' = IF c.dbg THEN leak \cup {g.block} ELSE leak
            /\ live' = live \cup {g.block}
            /\ want' = [want EXCEPT ![g.block] = c.n]
            /\ Enter(t, IF c.p = 0 THEN Idle
                        ELSE [c EXCEPT !.op = "copy", !.q = g.block])
       ELSE /\ Enter(t, IF c.h = 0 THEN [c EXCEPT !.op = "scan", !.idx = i + 1]
                        ELSE Idle)
            /\ UNCHANGED <<heapvars, memvars, live, want>>
    /\ UNCHANGED critical

-------------------------------------------------------------------------------
(* free *)

(* The heaps tuya_mem_heap_free looks at, up to the first unused slot, and *)
(* the one among them whose memory the pointer lies in.                    *)
Holders(p) ==
    {i \in Heaps : /\ \A j \in 1..i : Heap(j).size # 0
                   /\ Bytes(p + MEM_BLOCK_HEAD_SIZE) > Heap(i).base
                   /\ Bytes(p + MEM_BLOCK_HEAD_SIZE) < Heap(i).base + Heap(i).size}

MEM_Deallocate(i, p) ==
    LET r == InsertFree(Heap(i).free_list, p) IN
    IF dog[p + blk[p] - 1] = "use"
    THEN /\ mem_heap_list' = [mem_heap_list EXCEPT
              ![i].free_list = r.free_list, ![i].free = @ + blk[p]]
         /\ s_heap_free_size' = s_heap_free_size + blk[p]
         /\ blk' = r.blk /\ dog' = r.dog
         /\ UNCHANGED s_heap_free_size_watermark
    ELSE UNCHANGED <<heapvars, blk, dog>>

tuya_mem_heap_free(h, p) ==
    /\ critical = {}
    /\ IF h # 0 THEN MEM_Deallocate(h, p)
       ELSE IF Holders(p) # {} THEN MEM_Deallocate(Least(Holders(p)), p)
            ELSE UNCHANGED <<heapvars, blk, dog>>
    /\ live' = live \ {p}
    /\ leak' = leak \ {p}
    /\ want' = [want EXCEPT ![p] = 0]

Free(t, h, p) ==
    /\ call[t] = Idle /\ p \in live \ Busy
    /\ tuya_mem_heap_free(h, p)
    /\ UNCHANGED <<call, critical>>

(* The end of realloc: copy, then free the old block. *)
ReallocCopy(t) ==
    LET c == call[t] IN
    /\ c.op = "copy"
    /\ tuya_mem_heap_free(c.h, c.p)
    /\ Enter(t, Idle)
    /\ UNCHANGED critical

-------------------------------------------------------------------------------
(* diagnose: MEM_HeapStatus walks the blocks in address order beside the   *)
(* free list.                                                              *)

FirstFree(i) == IF Heap(i).free_list = <<>> THEN 0 ELSE Head(Heap(i).free_list)

NextFreeStuck(i, b) == b

(* next of a free block; for a block that left the list meanwhile, what    *)
(* its caller wrote there: taken as NULL.                                  *)
NextFree(i, b) ==
    LET fl == Heap(i).free_list
        later == {k \in DOMAIN fl : k > 1 /\ fl[k - 1] = b}
    IN  IF later = {} THEN 0 ELSE fl[Least(later)]

Diagnose(t, h, i) ==
    /\ critical = {} /\ Heap(i).size # 0
    /\ Enter(t, [Idle EXCEPT !.op = "walk", !.h = h, !.idx = i,
                             !.p = Low(Heap(i)), !.q = FirstFree(i)])
    /\ critical' = {t}
    /\ UNCHANGED <<heapvars, memvars, live, want>>

tuya_mem_heap_diagnose(t, h) ==
    call[t] = Idle /\ Diagnose(t, h, IF h = 0 THEN 1 ELSE h)

(* One block of the walk.  Where no block starts (the walk went astray     *)
(* while it was outside the critical section) there is no state byte.      *)
WalkBlock(t) ==
    LET c == call[t]
        a == c.p
        tag == IF blk[a] = 0 THEN "data" ELSE dog[a + blk[a] - 1]
        Report(r) == Enter(t, [c EXCEPT !.op = r, !.p = 0, !.q = 0])
                         /\ critical' = {}
    IN
    /\ c.op = "walk"
    /\ IF a >= Top(Heap(c.idx))
       THEN Report(IF a = Top(Heap(c.idx)) /\ c.q = 0 THEN "valid"
                   ELSE "damaged")
       ELSE CASE tag = "use" /\ a = c.q -> Report("damaged")
              [] tag = "use" /\ a # c.q /\ a \in leak ->
                   Enter(t, [c EXCEPT !.op = "output", !.n = blk[a]]) /\ critical' = {}
              [] tag = "use" /\ a # c.q /\ a \notin leak ->
                   /\ Enter(t, [c EXCEPT !.p = a + blk[a]])
                   /\ UNCHANGED critical
              [] tag = "free" /\ a = c.q ->
                   /\ Enter(t, [c EXCEPT !.p = a + blk[a],
                                         !.q = NextFree(c.idx, a)])
                   /\ UNCHANGED critical
              [] OTHER -> Report("damaged")
    /\ UNCHANGED <<heapvars, memvars, live, want>>

(* Back from dbg_output, inside the critical section again: the walk goes  *)
(* on from the size word of the block it was at.  If that block was merged *)
(* meanwhile the word is still in memory, until a caller's data hides it.  *)
WalkResume(t) ==
    LET c == call[t] IN
    /\ c.op = "output" /\ critical = {}
    /\ \/ /\ Enter(t, [c EXCEPT !.op = "walk", !.n = 0, !.p = c.p +
                                   (IF blk[c.p] # 0 THEN blk[c.p] ELSE c.n)])
          /\ critical' = {t}
       \/ /\ blk[c.p] = 0
          /\ Enter(t, [c EXCEPT !.op = "damaged", !.n = 0, !.p = 0, !.q = 0])
          /\ UNCHANGED critical
    /\ UNCHANGED <<heapvars, memvars, live, want>>

(* The report is printed; with handle 0 the next heap follows. *)
WalkReported(t) ==
    LET c == call[t]
        j == c.idx + 1
    IN
    /\ c.op \in {"valid", "damaged"}
    /\ IF c.h = 0 /\ j \in Heaps /\ (j \in Heaps => Heap(j).size # 0)
       THEN Diagnose(t, 0, j)
       ELSE /\ Enter(t, Idle)
            /\ UNCHANGED <<heapvars, memvars, live, want, critical>>

-------------------------------------------------------------------------------
(* The handle a caller may pass for a pointer: 0 or the heap it came from. *)
Handles(p) == {0} \cup {i \in Heaps : Heap(i).size # 0 /\ Inside(i, p)}
Created == {i \in Heaps : Heap(i).size # 0}

Alloc(t) ==
    \/ \E h \in Created \cup {0}, n \in Sizes : tuya_mem_heap_malloc(t, h, n, FALSE)
    \/ \E h \in Created \cup {0}, n \in DebugSizes :
         tuya_mem_heap_malloc(t, h, n, TRUE)
    \/ \E p \in live : \E h \in Handles(p) :
         \/ \E n \in Sizes : tuya_mem_heap_realloc(t, h, p, n, FALSE)
         \/ \E n \in DebugSizes : tuya_mem_heap_realloc(t, h, p, n, TRUE)

Next ==
    \/ \E r \in Regions : MEM_HeapCreate(r)
    \/ \E i \in Heaps : MEM_HeapDelete(i)
    \/ \E t \in Threads :
         \/ Alloc(t) \/ ScanHeap(t) \/ MEM_Allocate(t)
         \/ \E p \in live : \E h \in Handles(p) : Free(t, h, p)
         \/ ReallocCopy(t)
         \/ \E h \in Created \cup {0} : tuya_mem_heap_diagnose(t, h)
         \/ WalkBlock(t) \/ WalkResume(t) \/ WalkReported(t)

Spec == Init /\ [][Next]_vars

-------------------------------------------------------------------------------
(* tkl_memory.c. *)

(* step: "none", "create", "store" or "malloc"; heap: the slot created, 0  *)
(* when malloc or tuya_mem_heap_create failed; n: bytes tkl_system_malloc  *)
(* was asked for.                                                          *)
NoBoot == [step |-> "none", heap |-> 0, n |-> 0]

TklInit == Init /\ s_heap_handle = 0 /\ boot = [t \in Threads |-> NoBoot]

tkl_system_malloc(t, n) ==
    /\ boot[t] = NoBoot /\ call[t] = Idle
    /\ IF s_heap_handle = 0
       THEN /\ boot' = [boot EXCEPT ![t] =
                          [NoBoot EXCEPT !.step = "create", !.n = n]]
            /\ UNCHANGED <<vars, s_heap_handle>>
       ELSE /\ tuya_mem_heap_malloc(t, s_heap_handle, n, FALSE)
            /\ UNCHANGED tklvars

(* __heap_init: memory from the C library, then tuya_mem_heap_create.  The *)
(* handle stays as it is when either fails.                                *)
heap_init(t) ==
    /\ boot[t].step = "create"
    /\ \/ /\ \E r \in Regions : MEM_HeapCreate(r)
          /\ boot' = [boot EXCEPT ![t].step = "store", ![t].heap =
                        CHOOSE i \in Heaps : mem_heap_list'[i] # Heap(i)]
       \/ boot' = [boot EXCEPT ![t].step = "malloc"] /\ UNCHANGED vars
    /\ UNCHANGED s_heap_handle

StoreHandle(t) ==
    /\ boot[t].step = "store"
    /\ s_heap_handle' = boot[t].heap
    /\ boot' = [boot EXCEPT ![t].step = "malloc"]
    /\ UNCHANGED vars

(* The second half of tkl_system_malloc reads the handle again. *)
MallocAfterInit(t) ==
    /\ boot[t].step = "malloc"
    /\ tuya_mem_heap_malloc(t, s_heap_handle, boot[t].n, FALSE)
    /\ boot' = [boot EXCEPT ![t] = NoBoot]
    /\ UNCHANGED s_heap_handle

(* calloc, realloc and free pass the handle on, NULL or not. *)
tkl_system_calloc(t, n) ==
    /\ boot[t] = NoBoot
    /\ tuya_mem_heap_malloc(t, s_heap_handle, n, FALSE)
    /\ UNCHANGED tklvars

tkl_system_realloc(t, p, n) ==
    /\ boot[t] = NoBoot
    /\ tuya_mem_heap_realloc(t, s_heap_handle, p, n, FALSE)
    /\ UNCHANGED tklvars

tkl_system_free(t, p) ==
    /\ boot[t] = NoBoot
    /\ Free(t, s_heap_handle, p)
    /\ UNCHANGED tklvars

MayCall(t) == s_heap_handle # 0 \/ t \in Starters

TklNext == \E t \in Threads :
    \/ /\ MayCall(t)
       /\ \E n \in Sizes : \/ tkl_system_malloc(t, n) \/ tkl_system_calloc(t, n)
                           \/ \E p \in live : tkl_system_realloc(t, p, n)
    \/ heap_init(t) \/ StoreHandle(t) \/ MallocAfterInit(t)
    \/ \E p \in live : tkl_system_free(t, p)
    \/ (ScanHeap(t) \/ MEM_Allocate(t) \/ ReallocCopy(t)) /\ UNCHANGED tklvars

TklSpec == TklInit /\ [][TklNext]_allvars

-------------------------------------------------------------------------------
(* Properties *)

FreeBlocks(i) == ToSet(Heap(i).free_list)
UsedBlocks(i) == {a \in live : Inside(i, a)}
Extent(a) == a..(a + blk[a] - 1)
SumSizes(S) == FoldSet(LAMBDA a, acc : acc + blk[a], 0, S)

(* Type invariant. *)
TypeOK ==
    /\ \A i \in Heaps : /\ Heap(i).free \in Nat /\ Heap(i).free_watermark \in Nat
                        /\ Heap(i).free_list \in Seq(Units)
                        /\ Heap(i).size # 0 =>
                             \E r \in Regions : /\ r.base = Heap(i).base
                                               /\ r.size = Heap(i).size
    /\ s_heap_free_size \in Nat /\ s_heap_free_size_watermark \in Nat
    /\ blk \in [Units -> Units]
    /\ dog \in [Units -> {"data", "use", "free"}]
    /\ leak \subseteq live /\ live \subseteq Units
    /\ want \in [Units -> {0} \cup Sizes \cup DebugSizes]
    /\ critical \in SUBSET Threads /\ Cardinality(critical) <= 1
    /\ \A t \in Threads : call[t].op \in {"idle", "scan", "alloc", "copy",
                              "walk", "output", "valid", "damaged"}

(* The blocks on the free list and the blocks callers hold tile the heap:  *)
(* through every split, merge and realloc each unit of the region belongs  *)
(* to exactly one of them.  No memory is lost and none is handed out twice.*)
BlocksTileHeap ==
    \A i \in Created : \A u \in Low(Heap(i))..(Top(Heap(i)) - 1) :
        Cardinality({a \in FreeBlocks(i) \cup UsedBlocks(i) : u \in Extent(a)}) = 1

(* MEM_Deallocate keeps the free list in address order and leaves no two   *)
(* adjacent free blocks; no used block is tagged free nor a free one used. *)
FreeListCoalesced ==
    \A i \in Created :
        LET fl == Heap(i).free_list IN
        /\ \A k \in 1..(Len(fl) - 1) : fl[k] + blk[fl[k]] < fl[k + 1]
        /\ \A a \in FreeBlocks(i) : dog[a + blk[a] - 1] # "use"
        /\ \A a \in UsedBlocks(i) : dog[a + blk[a] - 1] = "use"

(* heap->free, kept by additions and subtractions, is the size of what is  *)
(* on the free list, and the watermark is never above it.                  *)
FreeCounted ==
    \A i \in Created : /\ Heap(i).free = SumSizes(FreeBlocks(i))
                      /\ Heap(i).free_watermark <= Heap(i).free

(* s_heap_free_size, which handle 0 reports, is the sum over all heaps.    *)
TotalFreeCounted ==
    s_heap_free_size = FoldSet(LAMBDA i, acc : acc + Heap(i).free, 0, Heaps)

(* The bytes a caller was promised fit between the header and the state    *)
(* byte, with the leak record behind them for a debug allocation, and the  *)
(* copy made by realloc ends below the state byte of the new block.        *)
CallerDataInsideBlock ==
    /\ \A a \in live :
         LET tail == IF a \in leak THEN LEAK_SIZE + 1 ELSE 1
         IN  want[a] + tail <= Bytes(blk[a] - MEM_BLOCK_HEAD_SIZE)
    /\ \A t \in Threads :
         call[t].op = "copy" /\ ~call[t].dbg => blk[call[t].p] < blk[call[t].q]

(* What every walk over the blocks and every caller relies on. *)
HeapWellFormed == BlocksTileHeap /\ FreeListCoalesced /\ CallerDataInsideBlock

(* malloc does not fail while a block that fits is free: a thread inside   *)
(* MEM_Allocate gives up on heap i only when nothing there is large enough.*)
NullOnly ==
    \A t \in Threads : LET c == call[t] IN
        c.op = "alloc" /\ call'[t] # c /\ live' = live =>
            \A a \in FreeBlocks(c.idx) : blk[a] < BlockSize(Request(c))

(* MEM_HeapStatus calls an intact heap valid: diagnose does not print      *)
(* "MEM MNG DAMAGED".                                                      *)
DiagnoseTruthful == \A t \in Threads : call[t].op # "damaged"

(* The pointers handed out by tkl_system_malloc, calloc and realloc belong *)
(* to the one heap that s_heap_handle names, which is where                *)
(* tkl_system_free will return them.                                       *)
LiveInHandleHeap ==
    s_heap_handle # 0 => \A a \in live : Inside(s_heap_handle, a)
===============================================================================
