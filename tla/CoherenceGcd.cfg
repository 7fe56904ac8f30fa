SPECIFICATION Spec
CONSTANTS
    Rows = 4
    NumQueues = 3
    Fns = {0}
    Deps <- MCDeps
    AddWhileRunning = FALSE
INVARIANTS TypeOK RunsOnlyRows WaitCoversFrame OnlyAddedTasksRun
PROPERTIES ImplementsPipeline FrameCompletes
