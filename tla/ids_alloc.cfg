SPECIFICATION Spec
CONSTANTS
    c1 = c1
    c2 = c2
    Clients = {c1, c2}
    W = 2
    InitSize = 1
    MaxSize = 4
SYMMETRY Symmetry
INVARIANT TypeOK
PROPERTIES Packed RefinesIdPool
