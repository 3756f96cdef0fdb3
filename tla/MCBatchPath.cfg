CONSTANTS
    MaxSeq = 2
    InitialB = 2
    InitialY = 2
    FrameBytes = {1}
    RingCap = 2
    Levels = {"accepted", "durable", "rejected", "released"}
    None = None
    Forcers = {Reaper, Closer}
    Reaper = Reaper
    Closer = Closer
    Workers = {w1}
    SinkWorkers = {k1}
    QueueCap = 1
    SinkMaxBytes = 2
    SinkOutcomes = {"durable"}
    Modes <- MCModes
    MaxFrames = 2
    Loop = Loop
SPECIFICATION PathSpec
INVARIANTS CreditConserved OneOutcome
INVARIANTS SinkOnce NoFalseAck QueuedBalanced SettledAtEnd
 
CHECK_DEADLOCK FALSE
