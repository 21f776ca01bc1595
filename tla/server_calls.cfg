\* One server, its owner and its execute, in a process that may die and start
\* again: two types, three nodes and sockets.
CONSTANTS
    Types = {y1, y2}
    Handlers = {h1, h2}
    Nodes = {n1, n2, n3}
    Sockets = {s1, s2, s3}
    NULL = NULL
SYMMETRY ServerSymmetry
SPECIFICATION Spec
INVARIANTS
    TypeOK
    LookupRight
    UniqueListener
CHECK_DEADLOCK FALSE
