SPECIFICATION OneStopsSpec
CONSTANTS
    Conns = {c1, c2, c3}
    FDs <- TwoFDs
    Scripts <- Unfinished
    SigpipeFatal = FALSE
    MaxStarts = 1
    MaxStops = 0
    Free = Free
PROPERTIES NoHeadOfLineBlocking
CHECK_DEADLOCK FALSE
