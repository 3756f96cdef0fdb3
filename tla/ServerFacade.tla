----------------------------- MODULE ServerFacade ----------------------------
(***************************************************************************)
(* The facade server (server.go): Start builds one sub-server per enabled   *)
(* version under mu, runs them in an errgroup and cleans up when one of     *)
(* them fails; Close closes the sub-servers the facade refers to at that    *)
(* moment.  A sub-server is what ServerLifecycle shows of it to a caller:   *)
(* it enters Run, listens or fails, and leaves when its context ends or     *)
(* its listener is closed.                                                  *)
(***************************************************************************)
EXTENDS Naturals, FiniteSets

CONSTANTS Starts,     \* calls of Start
          Kinds,      \* enabled versions
          MaxCloses,  \* bound on calls of Close
          None

VARIABLES initFails,  \* versions whose NewServer rejects the configuration
          started,
          servers,    \* v1Server, ntlsServer: the Start that made each
          start,      \* where each Start is
          sub,        \* where each sub-server of each Start is
          open,       \* listeners that are open
          cancelled,  \* Starts whose group context has ended
          failed,     \* Starts whose group has an error
          closes,
          closed      \* history: Starts all of whose servers ran when Close came

facadeVars == <<initFails, started, servers, start, sub, open, cancelled, failed, closes, closed>>

Init ==
  /\ initFails \in SUBSET Kinds
  /\ started = FALSE
  /\ servers = [k \in Kinds |-> None]
  /\ start = [s \in Starts |-> "idle"]
  /\ sub = [s \in Starts |-> [k \in Kinds |-> "none"]]
  /\ open = {} /\ cancelled = {} /\ failed = {}
  /\ closes = 0 /\ closed = {}

Go(s, pc) == start' = [start EXCEPT ![s] = pc]
SubGo(s, k, pc) == sub' = [sub EXCEPT ![s][k] = pc]

-----------------------------------------------------------------------------
(* Start.                                                                 *)

StartRefused(s) ==
  /\ start[s] = "idle" /\ started
  /\ Go(s, "refused")
  /\ UNCHANGED <<initFails, started, servers, sub, open, cancelled, failed, closes, closed>>

(* An initialisation fails under mu.  v1 goes first; when ntls fails the    *)
(* v1 server made before it is dropped (it never ran, its Close does        *)
(* nothing) and started is taken back.                                      *)
StartInitFails(s) ==
  /\ start[s] = "idle" /\ ~started
  /\ initFails # {}
  /\ servers' = IF "v1" \in initFails THEN servers ELSE [servers EXCEPT !["v1"] = None]
  /\ Go(s, "refused")
  /\ UNCHANGED <<initFails, started, sub, open, cancelled, failed, closes, closed>>

(* initV1Server and initNTLSServer: new servers replace the ones the        *)
(* facade referred to.                                                      *)
InitServers(s) == servers' = [k \in Kinds |-> s]

StartLaunches(s) ==
  /\ start[s] = "idle" /\ ~started
  /\ initFails = {}
  /\ started' = TRUE
  /\ InitServers(s)
  /\ sub' = [sub EXCEPT ![s] = [k \in Kinds |-> "new"]]
  /\ Go(s, "waiting")
  /\ UNCHANGED <<initFails, open, cancelled, failed, closes, closed>>

(* g.Wait returns when every sub-server has.                              *)
StartWaited(s) ==
  /\ start[s] = "waiting"
  /\ \A k \in Kinds : sub[s][k] = "done"
  /\ Go(s, IF s \in failed THEN "failed" ELSE "returned")
  /\ cancelled' = cancelled \cup {s}
  /\ UNCHANGED <<initFails, started, servers, sub, open, failed, closes, closed>>

StartUnstarts(s) ==
  /\ start[s] = "failed"
  /\ started' = FALSE
  /\ Go(s, "cleanup")
  /\ UNCHANGED <<initFails, servers, sub, open, cancelled, failed, closes, closed>>

-----------------------------------------------------------------------------
(* Close, by the user or by the clean-up of a failed Start.               *)

Running(s, k) == s # None /\ sub[s][k] = "running"

(* Mutant: only the first sub-server is closed.                           *)
CloseServersFirst ==
  /\ open' = open \ {<<servers[k], k>> : k \in {j \in Kinds : j = "v1" /\ Running(servers[j], j)}}
  /\ started' = FALSE

(* A sub-server that has not got as far as running is left alone.         *)
CloseServers ==
  /\ open' = open \ {<<servers[k], k>> : k \in {j \in Kinds : Running(servers[j], j)}}
  /\ started' = FALSE

StartCleansUp(s) ==
  /\ start[s] = "cleanup"
  /\ CloseServers
  /\ Go(s, "returned")
  /\ UNCHANGED <<initFails, servers, sub, cancelled, failed, closes, closed>>

Close ==
  /\ closes < MaxCloses
  /\ closes' = closes + 1
  /\ CloseServers
  /\ closed' = closed \cup {s \in Starts : \A k \in Kinds : servers[k] = s /\ Running(s, k)}
  /\ UNCHANGED <<initFails, servers, start, sub, cancelled, failed>>

(* The caller's context ends.                                             *)
Cancel(s) ==
  /\ start[s] = "waiting" /\ s \notin cancelled
  /\ cancelled' = cancelled \cup {s}
  /\ UNCHANGED <<initFails, started, servers, start, sub, open, failed, closes, closed>>

-----------------------------------------------------------------------------
(* The sub-servers in the errgroup.                                       *)

SubEnters(s, k) ==
  /\ sub[s][k] = "new"
  /\ SubGo(s, k, "starting")
  /\ UNCHANGED <<initFails, started, servers, start, open, cancelled, failed, closes, closed>>

SubListens(s, k) ==
  /\ sub[s][k] = "starting"
  /\ SubGo(s, k, "running")
  /\ open' = open \cup {<<s, k>>}
  /\ UNCHANGED <<initFails, started, servers, start, cancelled, failed, closes, closed>>

(* The first error ends the context of the group.                         *)
SubListenFails(s, k) ==
  /\ sub[s][k] = "starting"
  /\ SubGo(s, k, "done")
  /\ failed' = failed \cup {s}
  /\ cancelled' = cancelled \cup {s}
  /\ UNCHANGED <<initFails, started, servers, start, open, closes, closed>>

SubLeaves(s, k) ==
  /\ sub[s][k] = "running"
  /\ s \in cancelled \/ <<s, k>> \notin open
  /\ SubGo(s, k, "done")
  /\ UNCHANGED <<initFails, started, servers, start, open, cancelled, failed, closes, closed>>

(* Run's watcher closes the listener when the context ends.               *)
SubWatcher(s, k) ==
  /\ s \in cancelled /\ <<s, k>> \in open
  /\ open' = open \ {<<s, k>>}
  /\ UNCHANGED <<initFails, started, servers, start, sub, cancelled, failed, closes, closed>>

SubStep(s, k) ==
  \/ SubEnters(s, k) \/ SubListens(s, k) \/ SubListenFails(s, k)
  \/ SubLeaves(s, k) \/ SubWatcher(s, k)

StartStep(s) == StartWaited(s) \/ StartUnstarts(s) \/ StartCleansUp(s)

Next ==
  \/ \E s \in Starts : StartRefused(s) \/ StartInitFails(s) \/ StartLaunches(s)
                       \/ StartStep(s) \/ Cancel(s)
  \/ \E s \in Starts, k \in Kinds : SubStep(s, k)
  \/ Close

FacadeSpec == Init /\ [][Next]_facadeVars

(* Goroutines that are ready run.  Nobody has to call Start or Close, or    *)
(* end a context.                                                           *)
FacadeFairness ==
  /\ \A s \in Starts : WF_facadeVars(StartStep(s))
  /\ \A s \in Starts, k \in Kinds : WF_facadeVars(SubStep(s, k))

FairFacadeSpec == FacadeSpec /\ FacadeFairness

-----------------------------------------------------------------------------
(* When one version fails to listen, the others are taken down with it:     *)
(* Start returns and leaves no listener open (server.go:142-174), whatever  *)
(* other Starts and Closes do meanwhile.                                    *)
FailureEndsStart ==
  \A s \in Starts :
    s \in failed ~> start[s] = "returned" /\ \A k \in Kinds : <<s, k>> \notin open

(* A Close that finds every version running ends the Start that runs them   *)
(* and frees their ports (server.go:194-218).                               *)
CloseEndsStart ==
  \A s \in Starts :
    s \in closed ~> start[s] = "returned" /\ \A k \in Kinds : <<s, k>> \notin open

(* "Close gracefully shuts down all version servers" (server.go:193): when  *)
(* the last call was a Close, nothing starts to listen any more.            *)
NothingListensAfterClose ==
  [][~started /\ ~started' => open' \subseteq open]_facadeVars
=============================================================================
