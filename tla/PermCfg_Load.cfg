SPECIFICATION OneVariedSpec
CONSTANTS
    Files <- Loaded
    MaxLines = 3
    Names <- LoadNames
    Words <- LoadWords
    Items <- LoadItems
    Groups <- LoadGroups
    Accounts <- MCAccounts
    Matches <- LoadMatches
    NoName = ""
    NoConfig = NoConfig
    Confs <- LoadConfsets
    Comments <- LoadComments
    NoWord = ""
    NoEntry = NoEntry
    Garbage <- LoadGarbage
    IntMax = 131071
    MapOrder <- LoadOrder
    Commands <- MCCommands
    Patterns <- MCPatterns
    Canonical <- MCCanonical
    NoCommand = NoCommand
    Minutes <- MCMinutes
    TimesOfGroups <- MCTimesOfGroups
    NoNumber = NoNumber
    NoBlock = NoBlock
    NoTime = NoTime
INVARIANTS TypeOK NoListIsLoaded AllOrNothing ModeFromOwnGroup LoadTypeOK
    TimeoutOrigin SettingsFromOwnBlock AbortsOnBadNumbers SpellingKeepsTimeout
    SpellingIrrelevant RangesAreCircular
CHECK_DEADLOCK FALSE
