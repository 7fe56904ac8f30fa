SPECIFICATION MCSpec
CONSTANTS
    Rows = 7
    AdvectDist = 2
    OutRows = 4
    PressureAccuracy = 2
    ViscosityAccuracy = 2
    MaxTasks = 21
    Fns <- MCFns
    Deps <- MCDeps
    Configs <- OrderedConfigs
INVARIANTS
    FTypeOK
    ConflictsOrdered
    DistancesDeclared
    WindowsDeclared
