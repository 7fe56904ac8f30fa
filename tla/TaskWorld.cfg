SPECIFICATION Spec
CONSTANTS
    Workers = {w1, w2, w3}
    Fluids = {f1, f2, f3}
    BlockerSize = 2
INVARIANTS SyncCoversFrame
PROPERTIES SyncReturns
CHECK_DEADLOCK FALSE
