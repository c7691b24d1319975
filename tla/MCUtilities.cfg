CONSTANTS
    Lens = {1, 2, 4}
    Bytes = {x, y}
    MaxCall = 4
    Nodes = {n1, n2, n3}
    Heads = {h1, h2}
    head = head
    t1 = t1
    t2 = t2
    t3 = t3
    Values = {v1, v2}
    NULL = NULL
    a = a
    b = b
    c = c
    b1 = b1
    b2 = b2
    MaxBatch = 2
    MaxRefs = 3
    Chars = {48, 57, 64, 65, 90, 97}
    Octets = {0, 10, 159, 255}
    MaxChars = 2
    MaxLen = 4
    WordBits = 7
SPECIFICATION UtilitiesSpec
SYMMETRY Symmetry
 
PROPERTIES TraversalExact ImplementsAbstractions ImplementsByteFifo
