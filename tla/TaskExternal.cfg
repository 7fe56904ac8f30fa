SPECIFICATION Spec
CONSTANTS
    Threads = {t1, t2, t3}
    Width = 3
    Height = 3
    FluidCount = 2
    Styles = {2, 3}
    MaxLaunches = 2
INVARIANTS
    NoRace
    OutputComplete
    LockedWhileRunning
PROPERTIES
    LocksRestored
    LaunchReturns
CHECK_DEADLOCK FALSE
