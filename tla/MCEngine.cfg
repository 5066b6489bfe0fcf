\* The default thresholds; prices and books change between any two readings.
SPECIFICATION Spec
CONSTANTS
    Slopes <- MCSlopes
    Tanh <- MCTanh
    Sigmoid <- MCSigmoid
    Books <- MCBooks
    Volumes = {0, 1}
    NoWrite = NoWrite
    NoOrder = NoOrder
    MinDataPoints = 2
    MaxMomentum = 50
    MinConfidence = 20
    MinEdge = 5
    MaxEdge = 10
    MaxModelProb = 80
    MinEntryPrice = 45
    MaxEntryPrice = 55
INVARIANTS TypeOK FollowsModel NotOverconfident ClaimCapped PriceWasOffered
