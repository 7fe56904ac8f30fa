SPECIFICATION Spec
CONSTANTS
    Rows = 2
    MaxTasks = 2
    CacheSize = 1
    QSize = 2
    Kinds <- MCKinds
    Workers = {w1, w2, w3}
SYMMETRY MCWorkers
INVARIANTS AssertionsHold RowHeldOnce ScanCovers
PROPERTIES ImplementsWindows
