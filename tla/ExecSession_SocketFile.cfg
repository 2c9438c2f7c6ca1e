SPECIFICATION LeavingSpec
CONSTANTS
    Sessions = {s1}
    Auths = {"root"}
    MaxOut = 1
    SigpipeFatal = FALSE
INVARIANTS SocketFileStays
CHECK_DEADLOCK FALSE
