SPECIFICATION Spec
CONSTANTS
    Txs = {d1}
    Withdrawals = {}
    Deliveries = {h1, h2}
    NoEvent = NoEvent
    Limit = 1
    Genesis = 0
    Overlap = TRUE
    MaxDeliveries = 2
    MaxCrashes = 0
CHECK_DEADLOCK FALSE
INVARIANT AppliedAtMostOnce
