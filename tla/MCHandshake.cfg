\* Two batches of every size class on one connection, with a session that
\* expires on the way.
SPECIFICATION Spec
CONSTANTS
    Configs <- MCConfigs
    Policies <- MCPolicies
    AgentTokens <- MCTokens
    Sizes = {1, 3, 5, 7}
    DictMin = 1
    ZstdMin = 4
    MaxPlain = 6
    HardFrame = 16
    MaxDict = 5
    TTL = 1
    MaxTime = 3
    MaxSeq = 2
    None = None
INVARIANTS SessionAgreed 
PROPERTY SetupCompletes
CHECK_DEADLOCK FALSE
