SPECIFICATION Spec
CONSTANTS
    Slugs = {m1, m2, m3}
    NoPosition = NoPosition
    NoOrder = NoOrder
    NoAsk = NoAsk
    StartBankroll = 100
    KellyDivisor = 4
    MaxPosition = 20
    MaxExposure = 50
    MinBet = 1
    MinEntryPrice = 45
    MaxEntryPrice = 55
    DrawdownLimit = 25
    HaltCooldown = 2
    Asks = {50, 60}
    ModelProbs = {50, 90}
    MaxBets = 6
    MaxRestarts = 1
    MaxTime = 3
SYMMETRY MarketSymmetry
INVARIANTS TypeOK ExposureWithinLimit DrawdownBreaker LossBounded
PROPERTIES NoBetWhileHalted
CHECK_DEADLOCK FALSE
