SPECIFICATION FairSpec
CONSTANTS
    Sessions = {s1}
    Auths = {"user"}
    MaxOut = 1
    SigpipeFatal = FALSE
PROPERTIES SessionEnds
CHECK_DEADLOCK FALSE
