SPECIFICATION FairSpec
CONSTANTS
    Clients = {c1, c2}
    Minis = {c2}
    Answers = {look, fix}
    Final = {fix}
    Files <- MCFiles
    NoConf = NoConf
    NoEntry = NoEntry
    NoCost = NoCost
    NoHeader = NoHeader
    MaxMessages = 2
    MaxAttempt = 1
    MaxStarts = 2
    MaxRuns = 1
    MaxFaults = 1
INVARIANTS  SingleFlight 
PROPERTY EveryRequestAnswered
CHECK_DEADLOCK FALSE
