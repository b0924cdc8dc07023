SPECIFICATION Spec
CONSTANTS
    Txs = {d1, d2, w1}
    Withdrawals = {w1}
    Deliveries = {h1, h2}
    NoEvent = NoEvent
    Limit = 1
    Genesis = 0
    Overlap = FALSE
    MaxDeliveries = 4
    MaxCrashes = 1
CHECK_DEADLOCK FALSE
CONSTRAINT MCBound
SYMMETRY MCSymmetry
INVARIANTS TypeOK AppliedAtMostOnce BalanceExplained RecordedIsApplied WithinDailyLimit
