------------------------------ MODULE MCServers ------------------------------
(* The servers for TLC: one version's server by itself, or the facade over  *)
(* the servers of both versions.  A behaviour chooses one of the two at the *)
(* start, and the other never moves.                                        *)
EXTENDS ServerLifecycle

CONSTANTS
    Starts, Kinds

VARIABLES
    level,
    initFails, started, servers, start, sub, ports, ended, failed, facadeCloses, closed

Facade == INSTANCE ServerFacade WITH open <- ports, cancelled <- ended, closes <- facadeCloses

facade == <<initFails, started, servers, start, sub, ports, ended, failed, facadeCloses, closed>>

ServersInit ==
    /\ level \in {"server", "facade"}
    /\ Init /\ Facade!Init
    /\ level = "facade" \/ initFails = {}

LifeNext == level = "server" /\ Next /\ UNCHANGED <<level, facade>>
FacadeNext == level = "facade" /\ Facade!Next /\ UNCHANGED <<level, lifeVars>>

ServersNext == LifeNext \/ FacadeNext

ServersSpec ==
    /\ ServersInit /\ [][ServersNext]_<<level, lifeVars, facade>>
    /\ level = "server" => LifeFairness
    /\ level = "facade" => Facade!FacadeFairness

-----------------------------------------------------------------------------
(* When one version fails to listen, or when a Close finds every version    *)
(* running, Start returns and leaves no listener open (Start's errgroup and *)
(* clean-up, the facade's Close).                                           *)
StartEnds == Facade!FailureEndsStart /\ Facade!CloseEndsStart
=============================================================================
