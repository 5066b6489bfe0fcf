\* Failures of both directions, of dials and of subscriptions, and shutdown.
SPECIFICATION Spec
CONSTANTS
    NoConn = NoConn
    MinBackoff = 1
    MaxBackoff = 3
    MaxConns = 3
    MaxFailures = 2
INVARIANTS TypeOK ReadsSubscribed NoLeakedConnection OneWriter HealthyIsPinged
PROPERTIES OldPingersEnd Recovers
CHECK_DEADLOCK FALSE
