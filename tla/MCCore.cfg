\* Small values for each piece: a terminal ring smaller than the seqs, a filter
\* smaller than the set of keys, a rate that earns two thirds of a byte per clock
\* unit, a length field of one, two and three bytes.
SPECIFICATION CoreSpec
CONSTANTS
    MaxSeq = 3
    InitialB = 3
    InitialY = 4
    ClampB = 2
    ClampY = 5
    FrameBytes = {1, 2}
    Deltas <- MCDeltas
    MaxViolations = 2
    Settlers = {p1, p2, p3}
    Flushers = {f1, f2, f3}
    MaxRecovered = 4
    None = None
    ManagerSeqs = 2
    ManagerB = 2
    ManagerY = 3
    ManagerBytes = {2}
    RingCap = 1
    Levels = {"durable", "released"}
    Forcers = {r1, r2}
    Conns = {c1, c2}
    Agents = {a1}
    Calls = {k1, k2}
    IdOf <- MCIdOf
    MaxSeen = 2
    Group = 2
    MaxVarintLen = 3
    VarintMax = 5
    Types = {1}
    Payloads <- MCPayloads
    Limit = 2
    WriteLimit = 3
    Deadlines = {"idle"}
    MaxFrames = 2
    MaxTimeouts = 1
    Deliveries = {1, 2, 4, 6, 7}
    Keys = {1, 2, 3}
    KeyOf <- MCKeyOf
    Empty = 0
    Cap = 2
    TTL = 1
    MaxTime = 2
    Rates = {0, 2}
    Second = 3
    Sizes = {1, 2}
    MaxClock = 5
    MaxCalls = 4
    MaxSent = 2
    MaxRead = 2
    AckQueue = 1
INVARIANTS  NonceFresh NeverForgotten
INVARIANTS EvictionSafe WaitersKept  RouteIsLatest ConnectedIsClosed
INVARIANTS VarintExact  FilterKept RateKept 
PROPERTY EpochsIncrease
SYMMETRY MCSymmetry
CHECK_DEADLOCK FALSE
