SPECIFICATION FairSpec
CONSTANTS
    alice = alice
    bob = bob
    ai = ai
    Users <- MCUsers
    AI = ai
    Requests = {r1, r2}
    NoRequest = NoRequest
    NoUser = NoUser
    Amounts = {2}
    Fee = 1
    Cap = 6
    Genesis <- MCGenesis
    MaxJobs = 3
CHECK_DEADLOCK FALSE
INVARIANTS TypeOK CopyIsCurrent SupplyWithinCap
PROPERTIES ImplementsLedger EveryJobEnds
