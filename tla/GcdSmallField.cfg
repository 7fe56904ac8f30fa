SPECIFICATION Spec
CONSTANTS
    Rows = 3
    NumQueues = 2
    Fns = {0}
    Deps <- MCDeps
    AddWhileRunning = FALSE
INVARIANTS RunsOnlyRows
