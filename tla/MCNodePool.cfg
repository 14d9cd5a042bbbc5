\* Two nodes and two dispatch goroutines.
SPECIFICATION Spec
CONSTANTS
    Node = {n1, n2}
    NoNode = NoNode
    Goroutine = {g1, g2}
    Report = {0, 1}
SYMMETRY Symmetry
INVARIANTS
    TypeOK
    LoadBound
    HeardIsHealthy
    ClosesOnlyGone
PROPERTIES
    KeepsTheLiving
    OnlyStaleCopiesLeak
