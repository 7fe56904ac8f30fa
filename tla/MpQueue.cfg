SPECIFICATION QueueSpec
CONSTANTS
    Threads = {t1, t2, t3}
    Items = {a, b}
    NoItem = NoItem
    MaxSize = 2
    MaxSpurious = 2
INVARIANTS QueueTypeOK CountsCoverStalled NoLostWakeup NoMutualStall
PROPERTIES ImplementsFifo PopServed PushServed
CHECK_DEADLOCK FALSE
