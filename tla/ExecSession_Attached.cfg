SPECIFICATION Spec
CONSTANTS
    Sessions = {s1}
    Auths = {"root"}
    MaxOut = 1
    SigpipeFatal = FALSE
PROPERTIES AttachedNotKilled
CHECK_DEADLOCK FALSE
