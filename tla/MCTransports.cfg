\* Two writers, of which one can be cancelled, against two closers; two data
\* streams and the datagram goroutine on a channel of one.
SPECIFICATION TransportsSpec
CONSTANTS
    Writers = {handle, sink}
    Cancellable = {handle}
    Closers = {abort, conn}
    Streams = {s1, s2}
    Datagrams = TRUE
    Capacity <- MCCapacity
    MaxFrames = 2
    MaxWrites = 2
INVARIANTS StreamIntact FramesHandedOver
PROPERTY WaitsEnd
CHECK_DEADLOCK FALSE
