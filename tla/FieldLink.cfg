SPECIFICATION Spec
CONSTANTS
    MaxFrames = 2
    MaxWire = 1
    MaxSpurious = 1
    Retry = 2
    Unread = 1
    Slots = 3
    MaxReplies = 1
INVARIANTS BuffersApart
CHECK_DEADLOCK FALSE
PROPERTIES FramesForward FrameShown
