SPECIFICATION FairSpec
CONSTANTS
    Conns = {c1, c2}
    FDs <- OneFD
    Scripts <- WithoutRefusals
    SigpipeFatal = FALSE
    MaxStarts = 1
    MaxStops = 1
    Free = Free
PROPERTIES EveryConnectionServed StopHonoured ZombiesReaped
CHECK_DEADLOCK FALSE
