SPECIFICATION FairSpec
CONSTANTS
    alice = alice
    bob = bob
    one = one
    two = two
    three = three
    r1 = r1
    r2 = r2
    NaN = NaN
    Nobody = Nobody
    Accounts = {alice, bob}
    Calls = {one, two, three}
    Reviews = {r1, r2}
    Menu <- MCMenu
    Initial <- MCInitial
    MaxFaults = 1
CHECK_DEADLOCK FALSE
INVARIANTS TypeOK BalanceExplained LossesAreWholeLegs JournalFollowsRecord
PROPERTY CallsEnd
