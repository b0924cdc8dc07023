SPECIFICATION FairSpec
CONSTANTS
    alice = alice
    bob = bob
    ai = ai
    stripe = stripe
    momo = momo
    NoFac = NoFac
    Users <- MCUsers
    AI = ai
    N = 4
    Menu <- DirectMenu
    Genesis <- MCGenesis
    Fee = 1
    BridgeStates = {FALSE}
    MaxFaults = 1
    MaxFlips = 0
    MaxCancels = 1
CHECK_DEADLOCK FALSE
INVARIANTS TypeOK BookAgreesWithTrades EveryUnitExplained NothingOfferedIsLeft
PROPERTIES CancelIsFinal CallsEnd
