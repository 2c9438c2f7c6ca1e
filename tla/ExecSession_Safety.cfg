SPECIFICATION BoundedSpec
CONSTANTS
    Sessions = {s1, s2}
    Auths = {"root", "user"}
    MaxOut = 2
    SigpipeFatal = FALSE
INVARIANTS TypeOK ShellGate OutputInOrder RootOutputComplete KillAfterExec
PROPERTIES ImplementsTerminalSession
SYMMETRY SessionSymmetry
CHECK_DEADLOCK FALSE
