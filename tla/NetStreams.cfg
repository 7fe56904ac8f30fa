SPECIFICATION Spec
CONSTANTS
    Sizes = {1, 2}
    Header = 1
    OutSize = 5
    InSize = 6
    MaxMessages = 4
    MaxWire = 1
INVARIANTS SentIntact ReadIntact
PROPERTIES Delivered FreeReturns
CHECK_DEADLOCK FALSE
