SPECIFICATION Spec
CONSTANTS
    Requesters = {"ws"}
    Override = 0
    QueueLen = 1
INVARIANTS
    ModeIsWhole
PROPERTY
    WakesForWork
