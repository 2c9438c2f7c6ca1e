SPECIFICATION MixedSpec
CONSTANTS
    Sessions = {s1, s2}
    Auths = {"root", "user"}
    MaxOut = 1
    SigpipeFatal = TRUE
PROPERTIES RootSessionEnds ChildGoneClientReleased
CHECK_DEADLOCK FALSE
