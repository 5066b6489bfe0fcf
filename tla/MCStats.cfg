\* Every list of up to four trades, of five entries and two amounts.
SPECIFICATION Spec
CONSTANTS
    Entries <- MCEntries
    Payoffs = {1, 2}
    MinEntryPrice = 45
    MinExpiry = 30
    MaxExpiry = 270
    MaxTrades = 4
INVARIANTS TypeOK MaxDrawdownExact StreaksExact CalibrationComplete ReportsAgree
CHECK_DEADLOCK FALSE
