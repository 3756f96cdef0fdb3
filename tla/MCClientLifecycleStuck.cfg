CONSTANTS
    Connects = {k1, k2}
    Closes = {c1}
    Sends = {s1}
    Clients <- MCNtlsFacade
    None = None
SPECIFICATION FairClientSpec
PROPERTY CloseConverges
CHECK_DEADLOCK FALSE
