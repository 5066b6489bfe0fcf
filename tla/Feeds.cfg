\* Windows of three rotation intervals, one fault in the streams.
SPECIFICATION Spec
CONSTANTS
    WindowLen = 3
    Lookahead = 3
    MaxLate = 1
    MaxTime = 8
    MaxFaults = 1
INVARIANTS TypeOK KnownAhead EventsMatch SubscribedOnce NoneForgotten
