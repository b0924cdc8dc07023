SPECIFICATION Spec
CONSTANTS
    alice = alice
    bob = bob
    ai = ai
    stripe = stripe
    momo = momo
    NoFac = NoFac
    Users <- MCUsers
    AI = ai
    N = 3
    Menu <- BridgeMenu
    Genesis <- MCGenesis
    Fee = 1
    BridgeStates = {TRUE, FALSE}
    MaxFaults = 0
    MaxFlips = 0
    MaxCancels = 0
CHECK_DEADLOCK FALSE
INVARIANT NoDoubleFill
