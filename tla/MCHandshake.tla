---------------------------- MODULE MCHandshake -----------------------------
(* Configurations and policies of Handshake for TLC. *)
EXTENDS Handshake

PolicyOf(profile, caps, ack, credit, limit, dict) ==
    [profile |-> profile, caps |-> caps, ack |-> ack, creditB |-> credit, creditY |-> credit,
     frame |-> limit.frame, batch |-> limit.batch, dict |-> [id |-> dict, len |-> dict]]

(* All that can be negotiated, with a dictionary; zstd_dict supported but   *)
(* no dictionary; the other profile; and one that Validate refuses.         *)
MCPolicies ==
    {PolicyOf("intl", KnownCaps, "durable", 4, [frame |-> 10, batch |-> 4], 2),
     PolicyOf("intl", {"datagram", "zstd_dict"}, "accepted_only", 4, [frame |-> 10, batch |-> 6], 0),
     PolicyOf("gm", {"cbor", "zstd_dict"}, "accepted_only", 4, [frame |-> 10, batch |-> 6], 3),
     PolicyOf("intl", {"cbor"}, "durable", 0, [frame |-> 10, batch |-> 6], 0)}

ConfigOf(profile, token, caps, datagram) ==
    [profile |-> profile, agent |-> "a", token |-> token, caps |-> caps, datagram |-> datagram]

(* Both tokens of the agent, and one that is not; a transport without       *)
(* datagrams; and a configuration that NewClientCore refuses.               *)
MCConfigs ==
    {ConfigOf("intl", "t1", {"datagram", "cbor", "dual_integrity", "zstd_dict"}, TRUE),
     ConfigOf("intl", "t2", {"datagram", "zstd_dict", "control_commands"}, FALSE),
     ConfigOf("gm", "t2", {"cbor", "zstd_dict"}, FALSE),
     ConfigOf("intl", "t3", {"cbor"}, FALSE),
     ConfigOf("intl", "t1", {"unknown"}, FALSE)}

MCTokens == [a \in {"a"} |-> {"t1", "t2"}]
=============================================================================
