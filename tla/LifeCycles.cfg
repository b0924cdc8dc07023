\* One order and four calls on it; one ride with two calls at a time; two
\* subscriptions and two desks; two token pairs; two codes; a workflow of two
\* steps with two runs and a cancel; one user's membership and four requests;
\* two rows of one natural key and four requests, for each kind of table; one
\* plugin with four calls and one fault;
\* two versions of a model for two shards; one user, two requests and two deployments
\* of the terms of service.
SPECIFICATION Spec
SYMMETRY Alike
CONSTANTS
    o1 = o1
    c1 = c1
    c2 = c2
    c3 = c3
    c4 = c4
    d1 = d1
    d2 = d2
    Nobody = Nobody
    NoDriver = NoDriver
    NoSub = NoSub
    NoPair = NoPair
    NoEntry = NoEntry
    Orders = {o1}
    Clerks = {c1, c2, c3, c4}
    Jobs <- OrderJobs
    Begun = {"none", "CONFIRMED", "READY_FOR_PICKUP", "DELIVERED"}
    Items = 2
    MaxBreaks = 1
    Slots = {s1, s2}
    Drivers = {d1, d2}
    Menus <- RideMenus
    MaxTries = 2
    MaxPins = 4
    MaxStale = 1
    MaxRewards = 2
    Subs = {s1, s2}
    Desks = {d1, d2}
    MaxMonths = 2
    MaxUndone = 1
    Pairs = {s1, s2}
    Visits = {d1, d2}
    Tries = {s1, s2}
    MaxCodes = 2
    MaxAttempts = 2
    MaxWrong = 3
    Runs = {s1, s2}
    Cancels = {d1}
    Steps = 2
    MaxCrashes = 1
    Users = {u1}
    Members = {m1, m2, m3, m4}
    MaxStops = 1
    Ids = {e1, e2}
    Calls = {c1, c2, c3, c4}
    PluginAsks <- PluginMenu
    MaxFaults = 1
    Models = {m1}
    Versions = {v1, v2}
    Shards = {"driver", "all"}
    Hashes = {h1, h2}
    MaxSigned = 4
    Sessions = {c1, c2}
    Releases <- Builds
    MaxDeploys = 2
\* A part stops when its calls have all been made or a bound is reached.
CHECK_DEADLOCK FALSE
INVARIANTS TypeOK RecordsFollow OneHolder CountersExplained ChargesHaveReason SecretsAdmitOnce
