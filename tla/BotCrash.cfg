\* A crash at any step, failing writes and a failing query after a restart: what
\* the trade log keeps.  Bets on either side, of which Up wins.
SPECIFICATION Spec
CONSTANTS
    NoPosition = NoPosition
    NoOrder = NoOrder
    NoAsk = NoAsk
    StartBankroll = 8
    KellyDivisor = 2
    MaxPosition = 2
    MaxExposure = 3
    MinBet = 1
    MinEntryPrice = 45
    MaxEntryPrice = 55
    DrawdownLimit = 25
    HaltCooldown = 1
    Asks = {50, 55}
    ModelProbs = {99}
    MaxBets = 2
    MaxRestarts = 1
    MaxTime = 4
    NumWindows = 2
    WindowLen = 2
    MaxExpiry = 1
    MinExpiry = 1
    ExpiryGrace = 0
    Lookahead = 2
    Winners = {"Up"}
    UnlockedReads = TRUE
    DBFails = TRUE
INVARIANTS TypeOK BankrollSaved OpenPositionLogged LoneRowSettlesOwnTrade
PROPERTIES RiskManagerSpec
CHECK_DEADLOCK FALSE
