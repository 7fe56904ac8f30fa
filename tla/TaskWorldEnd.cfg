SPECIFICATION Spec
CONSTANTS
    Workers = {w1, w2, w3}
    Fluids = {f1}
    BlockerSize = 2
INVARIANTS TerminateJoins
CHECK_DEADLOCK FALSE
