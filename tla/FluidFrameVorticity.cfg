SPECIFICATION FSpec
CONSTANTS
    Rows = 8
    AdvectDist = 3
    OutRows = 4
    PressureAccuracy = 2
    ViscosityAccuracy = 2
    MaxTasks = 21
    Fns <- MCFns
    Deps <- MCDeps
    Configs <- VorticityConfigs
INVARIANTS ConflictsOrdered
