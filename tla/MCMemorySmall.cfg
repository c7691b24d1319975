CONSTANTS
    Threads = {t1}
    First = First
    Second = Second
SPECIFICATION SmallSpec
INVARIANT SmallBlocksDiagnosed
