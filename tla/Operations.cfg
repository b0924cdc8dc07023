\* Three facilitators, one unregistered, and four bridge or netting calls with
\* one fault; two trades with two webhooks; two ticks of the AI participant;
\* two readers of a cached balance that changes twice; one request to each rule;
\* two indexed entities; three sockets of two users and one message; two inferences
\* and one status change with two failures; the features of one entity with three
\* calls and one fault.
SPECIFICATION Spec
CONSTANTS
    fx = fx
    fy = fy
    fz = fz
    c1 = c1
    c2 = c2
    c3 = c3
    c4 = c4
    a1 = a1
    a2 = a2
    b1 = b1
    u1 = u1
    u2 = u2
    Nobody = Nobody
    NoRow = NoRow
    Anywhere = Anywhere
    Empty = Empty
    NoAnswer = NoAnswer
    NoHint = NoHint
    NoTags = NoTags
    Nothing = Nothing
    NoText = NoText
    NoCopy = NoCopy
    Facs = {fx, fy, fz}
    Calls = {c1, c2, c3, c4}
    Menu <- BridgeMenu
    Initial <- Cash
    Reserve = 6
    Deviation = 2
    Spread = 1
    MaxFaults = 1
    Trades = {t1, t2}
    Cross = {t2}
    Hooks = {h1, h2}
    Ticks = {1, 2}
    Venues = {v1}
    PerMinute = 2
    MaxOpen = 2
    MaxPlaced = 2
    MaxRevivals = 1
    Readers = {r1, r2}
    Changes = 2
    Words = {w1, w2}
    Goods = {e1, e2}
    Others = {o1, o2}
    Entities = {e1, e2}
    MaxDocs = 2
    MaxSaves = 3
    Sockets = {a1, a2, b1}
    Users = {u1, u2}
    Owner <- SocketOwners
    Members = {u1}
    Letters = {l1}
    MaxEvents = 1
    MaxSends = 2
    Jobs = {j1, j2}
    Admins = {d1}
    Steps = 1
    MaxBreaks = 2
    Edits = {3}
    FeatureAsks <- FeatureMenu
    Pipelines = {"user_activity", "unknown"}
\* A part stops when its calls have all been made.
CHECK_DEADLOCK FALSE
INVARIANTS TypeOK CashKept DoneOnce AnswersTrue AdviceFits
PROPERTIES RecordsSettle
