SPECIFICATION DocSpec
CONSTANTS
    Files <- Shipped
    MaxLines = 3
    Names <- LoadNames
    Words <- LoadWords
    Items <- MCDocItems
    Groups <- LoadGroups
    Accounts <- MCDocAccounts
    Matches <- LoadMatches
    NoName = ""
    NoConfig = NoConfig
    Confs <- MCDocConfs
    Comments <- LoadComments
    NoWord = ""
    NoEntry = NoEntry
    Garbage <- LoadGarbage
    IntMax = 131071
    MapOrder <- LoadOrder
    Commands <- MCCommands
    Patterns <- MCPatterns
    Canonical <- MCCanonical
    NoCommand = NoCommand
    Minutes <- MCMinutes
    TimesOfGroups <- MCTimesOfGroups
    NoNumber = NoNumber
    NoBlock = NoBlock
    NoTime = NoTime
INVARIANTS RulesOfTheManual
