SPECIFICATION Spec
CONSTANTS
    Rows = 4
    NumQueues = 2
    Fns = {0}
    Deps <- MCDeps
    AddWhileRunning = TRUE
INVARIANTS WaitCoversFrame
