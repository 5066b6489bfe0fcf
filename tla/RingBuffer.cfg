\* Four slots: filled, exactly full, and wrapped, with unparsed timestamps.
SPECIFICATION Spec
CONSTANTS
    Cap = 4
    Values = {1, 2, 3}
    MaxStamp = 2
INVARIANTS TypeOK SlopeFollowsTrend RecentSinceExact
PROPERTIES RecentSpec
