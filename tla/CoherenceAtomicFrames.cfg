SPECIFICATION Spec
CONSTANTS
    Rows = 3
    MaxTasks = 2
    CacheSize = 1
    QSize = 2
    Kinds <- MCKinds
    Workers = {w1, w2}
PROPERTIES FrameCompletes
