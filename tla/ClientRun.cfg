SPECIFICATION Spec
CONSTANTS
    Texts <- MCTexts
    Length <- MCLength
    Garbled = "garbled"
    MaxPasswordLen = 6
    MaxLength = 40
    Caller = "marek"
    Arguments <- MCArguments
    Lines <- MCLines
    Offers <- MCOffers
    SessionTime = 2
    Processes = 2
    RunsPerProcess = 2
    MaxClock = 3
    None = None
INVARIANTS TypeOK RequestFaithful AskedWithinOffer TerminalRestored
PROPERTIES RememberedInTime DaemonAwaitedBriefly
CHECK_DEADLOCK FALSE
