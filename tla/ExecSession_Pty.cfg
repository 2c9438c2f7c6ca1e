SPECIFICATION Spec
CONSTANTS
    Sessions = {s1}
    Auths = {"root"}
    MaxOut = 1
    SigpipeFatal = FALSE
INVARIANTS PtyReceived
CHECK_DEADLOCK FALSE
