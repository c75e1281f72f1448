SPECIFICATION Spec
CONSTANTS
    n1 = n1
    n2 = n2
    n3 = n3
    a = a
    b = b
    c = c
    Head0 = head
    Null = null
    Node <- MCNodes3
    Pusher <- ABC
    Popper <- ABC
SYMMETRY AllSymmetry
INVARIANTS
    TailIsLast
PROPERTIES
    IsFifo
