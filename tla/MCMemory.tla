------------------------------- MODULE MCMemory -------------------------------
(***************************************************************************)
(* Memory management for TLC.  A behaviour is in one of four scenarios:    *)
(*   one   one aligned heap, created and deleted, with small blocks        *)
(*   two   two heaps, one off the alignment, with debug allocations        *)
(*   walk  one heap, requests of at least 8 bytes, and the status walk     *)
(*   boot  tkl_memory, whose first allocation creates the heap             *)
(***************************************************************************)
EXTENDS Integers, TLC

CONSTANTS Threads,
          First, Second   \* the threads of boot; First allocates first

VARIABLES scenario, mem_heap_list, s_heap_free_size, s_heap_free_size_watermark,
          blk, dog, leak, live, want, call, critical, s_heap_handle, boot

heap == <<mem_heap_list, s_heap_free_size, s_heap_free_size_watermark,
          blk, dog, leak, live, want, call, critical>>
tkl == <<s_heap_handle, boot>>
all == <<scenario, heap, tkl>>

Low12 == [base |-> 8, size |-> 96]
High5 == [base |-> 130, size |-> 46]
BootRegions == {[base |-> 8, size |-> 80], [base |-> 96, size |-> 80]}

One == INSTANCE TuyaMemHeap WITH
    MEM_HEAP_LIST_NUM <- 1, Regions <- {Low12}, MaxUnit <- 13, MaxFreeSize <- 12,
    Sizes <- {4, 24}, DebugSizes <- {}, CanDelete <- TRUE, Starters <- {}
Two == INSTANCE TuyaMemHeap WITH
    MEM_HEAP_LIST_NUM <- 2, Regions <- {Low12, High5}, MaxUnit <- 23,
    MaxFreeSize <- 12, Sizes <- {24}, DebugSizes <- {5}, CanDelete <- FALSE,
    Starters <- {}
Walk == INSTANCE TuyaMemHeap WITH
    MEM_HEAP_LIST_NUM <- 1, Regions <- {Low12}, MaxUnit <- 13, MaxFreeSize <- 12,
    Sizes <- {8, 40}, DebugSizes <- {}, CanDelete <- TRUE, Starters <- {}
Boot == INSTANCE TuyaMemHeap WITH
    MEM_HEAP_LIST_NUM <- 2, Regions <- BootRegions, MaxUnit <- 22,
    MaxFreeSize <- 22, Sizes <- {8, 24}, DebugSizes <- {}, CanDelete <- FALSE,
    Threads <- {First, Second}, Starters <- {First}

NoTkl == s_heap_handle = 0 /\ boot = {}

MemoryInit ==
    \/ scenario = "one" /\ One!Init /\ NoTkl
    \/ scenario = "two" /\ Two!Init /\ NoTkl
    \/ scenario = "walk" /\ Walk!Init /\ NoTkl
    \/ scenario = "boot" /\ Boot!TklInit

MemoryNext ==
    \/ scenario = "one" /\ One!Next /\ UNCHANGED <<scenario, tkl>>
    \/ scenario = "two" /\ Two!Next /\ UNCHANGED <<scenario, tkl>>
    \/ scenario = "walk" /\ Walk!Next /\ UNCHANGED <<scenario, tkl>>
    \/ scenario = "boot" /\ Boot!TklNext /\ UNCHANGED scenario

MemorySpec == MemoryInit /\ [][MemoryNext]_all

(* One heap that serves requests of 4 bytes. *)
Small == INSTANCE TuyaMemHeap WITH
    MEM_HEAP_LIST_NUM <- 1, Regions <- {Low12}, MaxUnit <- 13, MaxFreeSize <- 12,
    Sizes <- {4}, DebugSizes <- {}, CanDelete <- FALSE, Starters <- {}
SmallSpec ==
    /\ scenario = "small" /\ Small!Init /\ NoTkl
    /\ [][Small!Next /\ UNCHANGED <<scenario, tkl>>]_all

Symmetry == Permutations(Threads)

In(s, P) == scenario = s => P

(* Through every split, merge and realloc of tuya_mem_heap and through the *)
(* entry points of tkl_memory, free and used blocks tile every heap, the   *)
(* free list is ordered and merged, and the bytes promised to a caller lie *)
(* between header and state byte.  heap->free is the size of what is on    *)
(* the free list, and s_heap_free_size the sum over all heaps as long as   *)
(* none is deleted.  Every pointer of tkl_memory is in the heap            *)
(* s_heap_handle names.                                                    *)
HeapWellFormed ==
    /\ In("one", One!TypeOK /\ One!HeapWellFormed /\ One!FreeCounted)
    /\ In("two", Two!TypeOK /\ Two!HeapWellFormed /\ Two!FreeCounted /\ Two!TotalFreeCounted)
    /\ In("walk", Walk!TypeOK /\ Walk!HeapWellFormed /\ Walk!FreeCounted)
    /\ In("boot", /\ Boot!TypeOK /\ Boot!HeapWellFormed /\ Boot!LiveInHandleHeap
                  /\ Boot!FreeCounted /\ Boot!TotalFreeCounted)

(* malloc fails only when no block of the heap it looks at is large enough.*)
NullOnlyWhenNothingFits ==
    [][/\ In("one", One!NullOnly) /\ In("two", Two!NullOnly)
       /\ In("walk", Walk!NullOnly) /\ In("boot", Boot!NullOnly)]_all

(* tuya_mem_heap_diagnose calls an intact heap valid, whatever the other   *)
(* thread does during the walk; without leak records and with no request   *)
(* below 8 bytes.                                                          *)
DiagnoseTruthful == In("walk", Walk!DiagnoseTruthful)

(* tuya_mem_heap_diagnose calls an intact heap valid after small requests. *)
SmallBlocksDiagnosed == Small!DiagnoseTruthful
===============================================================================
