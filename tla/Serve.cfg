SPECIFICATION FairSpec
CONSTANTS
    Conns = {c1, c2}
CHECK_DEADLOCK FALSE
INVARIANTS
    ExitStatusIsTrue
PROPERTIES
    SignalEndsProcess
