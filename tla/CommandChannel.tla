--------------------------- MODULE CommandChannel ---------------------------
(***************************************************************************)
(* Operator commands over the sessions of module Sessions:                  *)
(* CommandRegistry.SendCommand with its table of waiting callers, the       *)
(* COMMAND and COMMAND_ACK frames of each connection, the client's          *)
(* dispatchCommand with its set of seen ids, and resolve.  Calls is the set *)
(* of calls of SendCommand; IdOf gives the command id each one carries.     *)
(***************************************************************************)
EXTENDS Sessions

CONSTANTS
    Calls, IdOf,
    MaxSeen,  \* size at which seenCommands is emptied (256 in the code)
    MaxFrames \* bound: copies of a COMMAND frame on a connection

Ids == {IdOf[k] : k \in Calls}

ASSUME CommandConstantsOK ==
    MaxSeen \in Nat \ {0} /\ MaxFrames \in Nat \ {0} /\ None \notin Calls

VARIABLES
    call,     \* where each call of SendCommand is
    via,      \* the handler it found
    pending,  \* command id -> the call whose channel waits for the ACK
    ackCh,    \* ACKs put into the channel of each call
    cmds,     \* COMMAND frames under way to the client of each connection
    acks,     \* COMMAND_ACK frames under way to the server
    seen,     \* seenCommands of the client of each connection
    running,  \* command handlers running in each client
    executed  \* history: how often each command was executed per connection

callVars == <<call, via, pending, ackCh>>
wireVars == <<cmds, acks, seen, running, executed>>
commandVars == <<sessionVars, callVars, wireVars>>

CommandInit ==
    /\ Init
    /\ call = [k \in Calls |-> "idle"] /\ via = [k \in Calls |-> None]
    /\ pending = [i \in Ids |-> None] /\ ackCh = [k \in Calls |-> <<>>]
    /\ cmds = [c \in Conns |-> <<>>] /\ acks = [c \in Conns |-> <<>>]
    /\ seen = [c \in Conns |-> {}] /\ running = [c \in Conns |-> [i \in Ids |-> 0]]
    /\ executed = [c \in Conns |-> [i \in Ids |-> 0]]

Up(c) == pc[c] = "ready"
CallGoes(k, l) == call' = [call EXCEPT ![k] = l]

-----------------------------------------------------------------------------
(* SendCommand.                                                             *)

(* Look the agent up; its handler may be replaced or end from here on. *)
SendCommand(k, a) ==
    /\ call[k] = "idle"
    /\ CallGoes(k, IF byAgent[a] = None THEN "failed" ELSE "found")
    /\ via' = [via EXCEPT ![k] = byAgent[a]]
    /\ UNCHANGED <<sessionVars, pending, ackCh, wireVars>>

(* A fresh channel replaces whatever waits under the same id. *)
SendCommandWaits(k) ==
    /\ call[k] = "found" /\ CallGoes(k, "send")
    /\ pending' = [pending EXCEPT ![IdOf[k]] = k]
    /\ UNCHANGED <<sessionVars, via, ackCh, wireVars>>

(* sendCommand writes the frame, or fails on a dead connection. *)
sendCommand(k) ==
    /\ call[k] = "send"
    /\ \/ /\ Up(via[k]) /\ Len(cmds[via[k]]) < MaxFrames
          /\ cmds' = [cmds EXCEPT ![via[k]] = Append(@, IdOf[k])]
          /\ CallGoes(k, "wait")
       \/ ~Up(via[k]) /\ CallGoes(k, "drop_failed") /\ UNCHANGED cmds
    /\ UNCHANGED <<sessionVars, via, pending, ackCh, acks, seen, running, executed>>

(* The select: an ACK, the timeout or the context. *)
SendCommandEnds(k) ==
    /\ call[k] = "wait"
    /\ \/ ackCh[k] # <<>>
          /\ CallGoes(k, IF ackCh[k][1].ok THEN "drop_ok" ELSE "drop_failed")
       \/ CallGoes(k, "drop_failed")
    /\ UNCHANGED <<sessionVars, via, pending, ackCh, wireVars>>

(* The deferred delete, of whatever waits under the id. *)
SendCommandReturns(k) ==
    /\ call[k] \in {"drop_ok", "drop_failed"}
    /\ CallGoes(k, IF call[k] = "drop_ok" THEN "ok" ELSE "failed")
    /\ pending' = [pending EXCEPT ![IdOf[k]] = None]
    /\ UNCHANGED <<sessionVars, via, ackCh, wireVars>>

-----------------------------------------------------------------------------
(* The client of connection c.                                              *)

ClientRest == UNCHANGED <<sessionVars, callVars>>

(* dispatchCommand: a known id is dropped without an answer; a new one is   *)
(* noted, and a set that grew past its limit is emptied, the new id with    *)
(* it.                                                                      *)
dispatchCommand(c) ==
    /\ cmds[c] # <<>>
    /\ LET i == Head(cmds[c])
           now == seen[c] \cup {i} IN
       IF i \in seen[c] THEN UNCHANGED <<seen, running>>
       ELSE /\ seen' = [seen EXCEPT ![c] = IF Cardinality(now) > MaxSeen THEN {} ELSE now]
            /\ running' = [running EXCEPT ![c][i] = @ + 1]
    /\ cmds' = [cmds EXCEPT ![c] = Tail(@)]
    /\ UNCHANGED <<acks, executed>> /\ ClientRest

(* Mutant: the answer is sent before the handler is called. *)
CommandAcksFirst(c, i, ok) ==
    /\ running[c][i] > 0
    /\ acks' = [acks EXCEPT ![c] = Append(@, [id |-> i, ok |-> ok])]
    /\ running' = [running EXCEPT ![c][i] = @ - 1]
    /\ UNCHANGED <<cmds, seen, executed>> /\ ClientRest

(* The handler returns or panics and the ACK is written; on a dead          *)
(* connection it is lost.                                                   *)
CommandDone(c, i, ok) ==
    /\ running[c][i] > 0
    /\ executed' = [executed EXCEPT ![c][i] = @ + 1]
    /\ acks' = IF Up(c) THEN [acks EXCEPT ![c] = Append(@, [id |-> i, ok |-> ok])] ELSE acks
    /\ running' = [running EXCEPT ![c][i] = @ - 1]
    /\ UNCHANGED <<cmds, seen>> /\ ClientRest

-----------------------------------------------------------------------------
(* resolve, in the control loop of connection c.                            *)

(* Mutant: the entry stays in the table. *)
resolveKeeps(c) ==
    /\ Up(c) /\ acks[c] # <<>>
    /\ LET a == Head(acks[c]) IN
       ackCh' = IF pending[a.id] = None THEN ackCh
                ELSE [ackCh EXCEPT ![pending[a.id]] = Append(@, a)]
    /\ acks' = [acks EXCEPT ![c] = Tail(@)]
    /\ UNCHANGED <<sessionVars, call, via, pending, cmds, seen, running, executed>>

(* The waiter is taken out under the lock and then gets its one ACK. *)
resolve(c) ==
    /\ Up(c) /\ acks[c] # <<>>
    /\ LET a == Head(acks[c]) IN
       /\ ackCh' = IF pending[a.id] = None THEN ackCh
                   ELSE [ackCh EXCEPT ![pending[a.id]] = Append(@, a)]
       /\ pending' = [pending EXCEPT ![a.id] = None]
    /\ acks' = [acks EXCEPT ![c] = Tail(@)]
    /\ UNCHANGED <<sessionVars, call, via, cmds, seen, running, executed>>

(* Frames on a connection that is gone are lost. *)
WireLost(c) ==
    /\ ~Up(c) /\ (cmds[c] # <<>> \/ acks[c] # <<>>)
    /\ cmds' = [cmds EXCEPT ![c] = <<>>] /\ acks' = [acks EXCEPT ![c] = <<>>]
    /\ UNCHANGED <<seen, running, executed>> /\ ClientRest

CallStep(k) ==
    \/ \E a \in Agents : SendCommand(k, a)
    \/ SendCommandWaits(k) \/ sendCommand(k) \/ SendCommandEnds(k) \/ SendCommandReturns(k)

WireStep(c) ==
    \/ dispatchCommand(c) \/ resolve(c) \/ WireLost(c)
    \/ \E i \in Ids, ok \in BOOLEAN : CommandDone(c, i, ok)

CommandNext ==
    \/ SessionNext /\ UNCHANGED <<callVars, wireVars>>
    \/ \E k \in Calls : CallStep(k)
    \/ \E c \in Conns : WireStep(c)

CommandSpec == CommandInit /\ [][CommandNext]_commandVars

-----------------------------------------------------------------------------
(* The table of waiters: the channel of a call gets at most one ACK, so     *)
(* that resolve never blocks the control loop on a full channel, also with  *)
(* two calls under one id, duplicate frames and reconnects; and nothing     *)
(* stays in the table when no call is under way.                            *)
WaitersKept ==
    /\ \A k \in Calls : Len(ackCh[k]) <= 1
    /\ (\A k \in Calls : call[k] \in {"idle", "found", "ok", "failed"}) =>
         \A i \in Ids : pending[i] = None

(* SendCommand reports success only if some client ran the command to its   *)
(* end.                                                                     *)
SuccessIsReal ==
    \A k \in Calls : call[k] = "ok" => \E c \in Conns : executed[c][IdOf[k]] > 0

(* "Commands are idempotent by command_id: repeated frames of one id are    *)
(* removed": a client runs a command at most once.                          *)
CommandOnce == \A c \in Conns, i \in Ids : executed[c][i] <= 1
=============================================================================
