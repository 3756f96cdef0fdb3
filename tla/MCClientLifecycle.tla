-------------------------- MODULE MCClientLifecycle --------------------------
(* The clients of both bindings for TLC. *)
EXTENDS ClientLifecycle

(* Both clients by themselves, and the v1 client behind the facade. *)
MCClients == [binding : {"v1", "ntls"}, facade : {FALSE}]
                \cup {[binding |-> "v1", facade |-> TRUE]}

(* The ntls client behind the facade. *)
MCNtlsFacade == {[binding |-> "ntls", facade |-> TRUE]}
=============================================================================
