SPECIFICATION Spec
CONSTANTS
    Conns = {c1, c2}
    FDs <- TwoFDs
    Scripts <- EveryKind
    SigpipeFatal = TRUE
    MaxStarts = 2
    MaxStops = 1
    Free = Free
INVARIANTS TypeOK SocketFileGone BufferOwnership Monitored BlockedByDuplicate OneRequestServed
PROPERTIES NoFreshDrop ImplementsReplyService
SYMMETRY ConnSymmetry
CHECK_DEADLOCK FALSE
