SPECIFICATION Spec
CONSTANTS
    alice = alice
    bob = bob
    ai = ai
    stripe = stripe
    momo = momo
    NoFac = NoFac
    Users <- MCUsers
    AI = ai
    N = 4
    Menu <- DirectMenu
    Genesis <- MCGenesis
    Fee = 1
    BridgeStates = {FALSE}
    MaxFaults = 1
    MaxFlips = 0
    MaxCancels = 0
CHECK_DEADLOCK FALSE
INVARIANT RollbackIsComplete
