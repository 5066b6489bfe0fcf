\* One session, no failed writes: what the bot promises about its bets.
SPECIFICATION FairSpec
CONSTANTS
    NoPosition = NoPosition
    NoOrder = NoOrder
    NoAsk = NoAsk
    StartBankroll = 8
    KellyDivisor = 2
    MaxPosition = 2
    MaxExposure = 3
    MinBet = 1
    MinEntryPrice = 45
    MaxEntryPrice = 55
    DrawdownLimit = 25
    HaltCooldown = 1
    Asks = {50}
    ModelProbs = {99}
    MaxBets = 2
    MaxRestarts = 0
    MaxTime = 5
    NumWindows = 2
    WindowLen = 2
    MaxExpiry = 1
    MinExpiry = 1
    ExpiryGrace = 0
    Lookahead = 2
    Winners = {"Up", "Down"}
    UnlockedReads = FALSE
    DBFails = FALSE
PROPERTIES LedgerSpec PositionsSettle HaltLasts
CHECK_DEADLOCK FALSE
