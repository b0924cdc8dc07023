SPECIFICATION Spec
CONSTANTS
    alice = alice
    bob = bob
    one = one
    two = two
    three = three
    r1 = r1
    r2 = r2
    NaN = NaN
    Nobody = Nobody
    Accounts = {alice, bob}
    Calls = {one}
    Reviews = {r1}
    Menu <- ReviewMenu
    Initial <- MCInitial
    MaxFaults = 0
CHECK_DEADLOCK FALSE
INVARIANT ApprovalIsExact
