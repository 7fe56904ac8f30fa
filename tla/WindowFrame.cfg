SPECIFICATION WFSpec
CONSTANTS
    Rows = 7
    AdvectDist = 2
    OutRows = 4
    PressureAccuracy = 2
    ViscosityAccuracy = 2
    MaxTasks = 21
    Kinds <- MCKinds
    Configs <- MCConfigs
INVARIANTS WindowsOrdered
