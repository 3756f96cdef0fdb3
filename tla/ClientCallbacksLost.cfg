\* One batch whose RESULT comes while Close drains.
SPECIFICATION CallbackSpec
CONSTANTS
    MaxSent = 1
    MaxRead = 1
    AckQueue = 2
INVARIANT ResultsReported
CHECK_DEADLOCK FALSE
