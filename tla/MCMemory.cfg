CONSTANTS
    Threads = {t1, t2}
    First = First
    Second = Second
SPECIFICATION MemorySpec
SYMMETRY Symmetry
INVARIANTS HeapWellFormed 
 
