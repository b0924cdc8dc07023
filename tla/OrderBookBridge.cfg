SPECIFICATION Spec
CONSTANTS
    alice = alice
    bob = bob
    ai = ai
    stripe = stripe
    momo = momo
    NoFac = NoFac
    Users <- MCUsers
    AI = ai
    N = 3
    Menu <- BridgeMenu
    Genesis <- MCGenesis
    Fee = 1
    BridgeStates = {TRUE, FALSE}
    MaxFaults = 1
    MaxFlips = 1
    MaxCancels = 0
CHECK_DEADLOCK FALSE
INVARIANT EveryUnitExplained
