\* Two calls of Run and two connections for one slot; two Starts of both
\* versions; one Close of each.
SPECIFICATION ServersSpec
CONSTANTS
    Runs = {r1, r2}
    Conns = {c1, c2}
    MaxConns = 1
    MaxCloses = 1
    None = None
    Starts = {s1, s2}
    Kinds = {"v1", "ntls"}
INVARIANT ResourcesReturned
PROPERTIES CancelEndsRun StartEnds
CHECK_DEADLOCK FALSE
