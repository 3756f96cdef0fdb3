CONSTANTS
    Connects = {k1, k2}
    Closes = {c1, c2}
    Sends = {s1}
    Clients <- MCClients
    None = None
SPECIFICATION FairClientSpec
INVARIANT ConnectCloseSafe
PROPERTIES LoopsEnd CloseConverges
CHECK_DEADLOCK FALSE
