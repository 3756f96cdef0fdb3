CONSTANTS
    MaxSeq = 2
    InitialB = 2
    InitialY = 2
    FrameBytes = {1, 2}
    RingCap = 2
    Levels = {"accepted", "durable", "rejected", "released"}
    None = None
    Forcers = {r1}
    ClampB = 4
    ClampY = 8
    Deltas = {}
    MaxViolations = 2
    AckModes = {"durable"}
    Closing = {"durable"}
SPECIFICATION FairFlowSpec
PROPERTY DrainComplete
CHECK_DEADLOCK FALSE
