CONSTANTS
    MaxSeq = 1
    InitialB = 1
    InitialY = 2
    FrameBytes = {1}
    RingCap = 2
    Levels = {"accepted", "durable", "rejected", "released"}
    None = None
    Forcers = {Reaper, Closer}
    Reaper = Reaper
    Closer = Closer
    Workers = {w1}
    SinkWorkers = {k1}
    QueueCap = 1
    SinkMaxBytes = 2
    SinkOutcomes = {"durable"}
    Modes <- MCLiveModes
    MaxFrames = 1
    Loop = Loop
SPECIFICATION PathSpec
INVARIANT AcceptedFirst
CHECK_DEADLOCK FALSE
