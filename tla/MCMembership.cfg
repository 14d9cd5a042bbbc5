\* One worker, which may crash, stop and start again, and its master.
SPECIFICATION FairSpec
CONSTANTS
    Node = {w1}
INVARIANTS
    TypeOK
    GhostsAreLate
PROPERTIES
    ComesBack
    GoneLeaves
