------------------------------ MODULE Handshake ------------------------------
(***************************************************************************)
(* One connection from HELLO to the first envelopes: Handshake and          *)
(* encodeAndSeal of the client (internal/protocol/client.go), handleHello   *)
(* and decodeAndValidate of the server (handler.go, handler_batch.go), and  *)
(* what they compute with: the policy's negotiation, the token proof, the   *)
(* key schedule and the envelope (core).                                    *)
(*                                                                          *)
(* Cryptography is symbolic: a derived value is the record of what it was   *)
(* derived from, so two values are equal exactly when their inputs are.     *)
(* Each side keeps its own copy of everything that was negotiated.          *)
(***************************************************************************)
EXTENDS Integers, Sequences, FiniteSets

CONSTANTS
    Configs,      \* client configurations
    Policies,     \* server policies
    AgentTokens,  \* the tokens of each agent (TokenValidator)
    Sizes,        \* sizes of encoded batches
    DictMin, ZstdMin, \* dictCompressMinBytes, zstdCompressMinBytes
    MaxPlain,     \* MaxDecompressedSize
    HardFrame,    \* core.MaxFrameBytes
    MaxDict,      \* MaxZstdDictBytes
    TTL, MaxTime, \* DefaultSessionTTL; bound on the clock
    MaxSeq,       \* bound on the batches sent
    None

ASSUME HandshakeAssumption == TTL \in Nat /\ MaxPlain \in Nat /\ Sizes \subseteq Nat

VARIABLES
    cfg, policy,  \* of this connection
    client,       \* Handshake: new, hello, Ready, Closed
    cKeys, cCaps, cCodec, cSess, frameLimit,
    zdict,        \* the client's dictionary
    seq,          \* SeqGenerator
    seal,         \* the encodeAndSeal in progress, under sendMu
    sealFailed,   \* some encodeAndSeal failed after it had taken a seq
    server,       \* handleHello: Handshaking, acked, dict, Ready, Ended
    sKeys, sCaps, sCodec, sSess,
    up, down,     \* control frames
    data,         \* BATCH and DGRAM frames on their way, in no order
    opened,       \* what the server made of them
    now,
    lost          \* the connection was given up by an outside cause

clientVars == <<client, cKeys, cCaps, cCodec, cSess, frameLimit, zdict, seq, seal, sealFailed>>
serverVars == <<server, sKeys, sCaps, sCodec, sSess>>
handshakeVars == <<cfg, policy, clientVars, serverVars, up, down, data, opened, now, lost>>

-----------------------------------------------------------------------------
(* Configuration.                                                           *)

Profiles == {"intl", "gm"}
AckModes == {"accepted_only", "durable"}
KnownCaps ==
    {"trace_context", "datagram", "cbor", "dual_integrity", "zstd_dict", "control_commands"}

FilterUnknownCaps(caps) == caps \ KnownCaps

(* NewClientCore and ServerPolicy.Validate refuse the rest. *)
NewClientCore(c) ==
    c.agent # "" /\ c.token # "" /\ c.profile \in Profiles /\ FilterUnknownCaps(c.caps) = {}

(* Mutant: credits are not looked at. *)
ValidateNoCredits(p) ==
    /\ p.profile \in Profiles /\ p.ack \in AckModes
    /\ p.frame > 0 /\ p.batch > 0 /\ p.frame <= HardFrame
    /\ p.dict.len > 0 => p.dict.len <= MaxDict /\ p.dict.id # 0

Validate(p) ==
    /\ p.profile \in Profiles /\ p.ack \in AckModes
    /\ p.creditB > 0 /\ p.creditY > 0
    /\ p.frame > 0 /\ p.batch > 0 /\ p.frame <= HardFrame
    /\ p.dict.len > 0 => p.dict.len <= MaxDict /\ p.dict.id # 0

(* The handler's dictionary, registered when it is created. *)
ServerDict == IF policy.dict.len > 0 /\ policy.dict.id # 0 THEN policy.dict ELSE None

Negotiate(caps) == policy.caps \cap caps

(* handleHello: without a dictionary zstd_dict is taken out. *)
Selected(caps) ==
    IF policy.dict.len = 0 THEN Negotiate(caps) \ {"zstd_dict"} ELSE Negotiate(caps)

CodecFor(selected) == IF "cbor" \in selected THEN "cbor" ELSE "proto"

-----------------------------------------------------------------------------
(* The key schedule.                                                        *)

GenerateEphemeral(p, side) == [curve |-> p, side |-> side]

(* A peer's key must be of the curve of the profile. *)
EphemeralOK(p, eph) == eph.curve = p
DeriveZZ(p, side, peer) == [curve |-> p, sides |-> {side, peer.side}]

(* HELLO without its proof, and HELLO_ACK without its finished. *)
TranscriptHello(p, hello) == [profile |-> p, hello |-> [hello EXCEPT !.proof = None]]
TranscriptFull(p, hello, ack) ==
    [profile |-> p, hello |-> [hello EXCEPT !.proof = None], ack |-> [ack EXCEPT !.finished = None]]

TokenProof(p, token, th) == [hash |-> p, key |-> token, msg |-> th]

pskCK(p, zz, th, proof) == [profile |-> p, zz |-> zz, th |-> th, proof |-> proof]

(* The split gives the AEAD key, the handshake key and the nonce prefix,    *)
(* each a function of ck.                                                   *)
DeriveSessionKeysWithCaps(p, zz, th, proof, caps) ==
    [profile |-> p, ck |-> pskCK(p, zz, th, proof),
     dual |-> IF "dual_integrity" \in caps THEN pskCK(p, zz, th, proof) ELSE None]

NoKeys == [profile |-> "", ck |-> None, dual |-> None]

FinishedMAC(keys, thFull) == [key |-> keys.ck, msg |-> thFull]

(* Any token of the agent will do. *)
VerifyTokenProof(p, agent, th, proof) ==
    \E t \in AgentTokens[agent] : TokenProof(p, t, th) = proof

-----------------------------------------------------------------------------
(* The envelope.                                                            *)

envelopeAD(type, session, s, comp, profile) ==
    [type |-> type, session |-> session, seq |-> s, comp |-> comp, profile |-> profile]

compress(comp, plain, dict) ==
    [comp |-> comp, dict |-> IF comp = "zstd_dict" THEN dict ELSE None, plain |-> plain]

dualMAC(profile, key, ad, text) == [hash |-> profile, key |-> key, ad |-> ad, text |-> text]

(* AEAD under the client's key with the nonce of s; the outer MAC if there  *)
(* is a key for it.                                                         *)
SealEnvelope(type, session, s, comp, keys, dict, plain) ==
    LET ad == envelopeAD(type, session, s, comp, keys.profile)
        text == [key |-> keys.ck, nonce |-> s, ad |-> ad, text |-> compress(comp, plain, dict)]
    IN  [seq |-> s, comp |-> comp, text |-> text,
         mac |-> IF keys.dual = None THEN None ELSE dualMAC(keys.profile, keys.dual, ad, text)]

MACOpens(keys, ad, env) ==
    env.mac = IF keys.dual = None THEN None ELSE dualMAC(keys.profile, keys.dual, ad, env.text)

(* Decompression is bounded, and needs the dictionary of the compression. *)
decompress(comp, text, dict) ==
    /\ comp = "zstd_dict" => dict # None /\ dict = text.dict
    /\ comp # "none" => text.plain.size <= MaxPlain

OpenEnvelope(type, session, keys, dict, env) ==
    LET ad == envelopeAD(type, session, env.seq, env.comp, keys.profile) IN
    /\ MACOpens(keys, ad, env)
    /\ env.text.key = keys.ck /\ env.text.nonce = env.seq /\ env.text.ad = ad
    /\ decompress(env.comp, env.text.text, dict)

-----------------------------------------------------------------------------
(* The client's side of the handshake.                                      *)

Init ==
    /\ cfg \in {c \in Configs : NewClientCore(c)}
    /\ policy \in {p \in Policies : Validate(p)}
    /\ client = "new" /\ cKeys = NoKeys /\ cCaps = {} /\ cCodec = "proto" /\ cSess = None
    /\ frameLimit = HardFrame /\ zdict = None /\ seq = 0 /\ seal = None /\ sealFailed = FALSE
    /\ server = "Handshaking" /\ sKeys = NoKeys /\ sCaps = {} /\ sCodec = "proto" /\ sSess = None
    /\ up = <<>> /\ down = <<>> /\ data = {} /\ opened = {}
    /\ now = 1 /\ lost = FALSE

HelloBody ==
    [profile |-> cfg.profile, agent |-> cfg.agent, caps |-> cfg.caps,
     eph |-> GenerateEphemeral(cfg.profile, "client"), proof |-> None]
Hello ==
    [HelloBody EXCEPT !.proof =
        TokenProof(cfg.profile, cfg.token, TranscriptHello(cfg.profile, HelloBody))]

SendHello ==
    /\ client = "new" /\ client' = "hello"
    /\ up' = Append(up, Hello)
    /\ UNCHANGED <<cfg, policy, cKeys, cCaps, cCodec, cSess, frameLimit, zdict, seq, seal,
                   sealFailed, serverVars, down, data, opened, now, lost>>

ValidateHelloAck(a) ==
    /\ a.sess.ack \in AckModes /\ a.sess.creditB # 0 /\ a.sess.creditY # 0
    /\ a.sess.frame # 0 /\ a.sess.batch # 0 /\ a.finished # None /\ a.sess.expiry > 0

deriveKeys(a) ==
    DeriveSessionKeysWithCaps(cfg.profile, DeriveZZ(cfg.profile, "client", a.eph),
        TranscriptHello(cfg.profile, Hello), Hello.proof, a.caps)

AckOK(a) ==
    /\ ValidateHelloAck(a) /\ EphemeralOK(cfg.profile, a.eph)
    /\ FinishedMAC(deriveKeys(a), TranscriptFull(cfg.profile, Hello, a)) = a.finished

Received(type) == down # <<>> /\ Head(down).type = type

(* HELLO_ACK: checked, then everything in it is stored. *)
HandshakeAck ==
    LET a == Head(down).ack IN
    /\ client = "hello" /\ Received("HELLO_ACK") /\ AckOK(a)
    /\ client' = "Ready" /\ down' = Tail(down)
    /\ cKeys' = deriveKeys(a)
    /\ cCaps' = a.caps /\ cCodec' = CodecFor(a.caps) /\ cSess' = a.sess
    /\ frameLimit' = IF a.sess.frame < HardFrame THEN a.sess.frame ELSE HardFrame
    /\ UNCHANGED <<cfg, policy, zdict, seq, seal, sealFailed, serverVars, up, data, opened,
                   now, lost>>

(* HELLO_NAK, or an HELLO_ACK that does not check. *)
HandshakeFails ==
    /\ client = "hello" /\ down # <<>>
    /\ ~(Received("HELLO_ACK") /\ AckOK(Head(down).ack))
    /\ client' = "Closed" /\ down' = Tail(down)
    /\ UNCHANGED <<cfg, policy, cKeys, cCaps, cCodec, cSess, frameLimit, zdict, seq, seal,
                   sealFailed, serverVars, up, data, opened, now, lost>>

-----------------------------------------------------------------------------
(* handleHello.                                                             *)

ValidateHello(h) ==
    h.agent # "" /\ h.profile \in Profiles /\ EphemeralOK(h.profile, h.eph) /\ h.proof # None

Nak == [type |-> "HELLO_NAK"]

(* A HELLO that does not validate, or of another profile than the policy's, *)
(* ends the connection.                                                     *)
HelloRefused ==
    /\ server = "Handshaking" /\ up # <<>>
    /\ ~ValidateHello(Head(up)) \/ Head(up).profile # policy.profile
    /\ server' = "Ended" /\ up' = Tail(up) /\ down' = Append(down, Nak)
    /\ UNCHANGED <<cfg, policy, clientVars, sKeys, sCaps, sCodec, sSess, data, opened, now, lost>>

(* Mutant: the codec is that of the policy's capabilities. *)
HelloTakenPolicyCodec(h) ==
    /\ server = "Handshaking" /\ up # <<>>
    /\ ValidateHello(h) /\ h.profile = policy.profile
    /\ sCaps' = Selected(h.caps) /\ sCodec' = CodecFor(policy.caps)
    /\ up' = Tail(up)

HelloTaken(h) ==
    /\ server = "Handshaking" /\ up # <<>>
    /\ ValidateHello(h) /\ h.profile = policy.profile
    /\ sCaps' = Selected(h.caps) /\ sCodec' = CodecFor(Selected(h.caps))
    /\ up' = Tail(up)

Proven(h) ==
    VerifyTokenProof(h.profile, h.agent, TranscriptHello(h.profile, h), h.proof)

(* No token matches: a NAK, and the connection stays. The capabilities and  *)
(* the codec are stored by then.                                            *)
HelloUnproven ==
    LET h == Head(up) IN
        /\ HelloTaken(h) /\ ~Proven(h)
        /\ down' = Append(down, Nak)
        /\ UNCHANGED <<cfg, policy, clientVars, server, sKeys, sSess, data, opened, now, lost>>

deriveServerKeys(h, caps) ==
    DeriveSessionKeysWithCaps(h.profile, DeriveZZ(h.profile, "server", h.eph),
        TranscriptHello(h.profile, h), h.proof, caps)

Session ==
    [id |-> "session", ack |-> policy.ack, creditB |-> policy.creditB, creditY |-> policy.creditY,
     frame |-> policy.frame, batch |-> policy.batch, expiry |-> now + TTL]

HelloAck(h, keys, caps) ==
    LET a == [eph |-> GenerateEphemeral(h.profile, "server"), caps |-> caps, sess |-> Session,
              finished |-> None]
    IN  [a EXCEPT !.finished = FinishedMAC(keys, TranscriptFull(h.profile, h, a))]

(* Keys, session and expiry are stored before the ACK is written. *)
HelloProven ==
    LET h == Head(up) IN
        /\ HelloTaken(h) /\ Proven(h)
        /\ sKeys' = deriveServerKeys(h, Selected(h.caps)) /\ sSess' = Session
        /\ \/ /\ server' = "acked" /\ lost' = lost
              /\ down' = Append(down, [type |-> "HELLO_ACK",
                                       ack |-> HelloAck(h, sKeys', Selected(h.caps))])
           \/ server' = "Ended" /\ lost' = TRUE /\ down' = down
        /\ UNCHANGED <<cfg, policy, clientVars, data, opened, now>>

maybeSendDict ==
    /\ server = "acked"
    /\ \/ /\ server' = "dict" /\ lost' = lost
          /\ down' = IF "zstd_dict" \in sCaps /\ ServerDict # None
                     THEN Append(down, [type |-> "DICT", dict |-> policy.dict]) ELSE down
       \/ /\ "zstd_dict" \in sCaps /\ server' = "Ended" /\ lost' = TRUE /\ down' = down
    /\ UNCHANGED <<cfg, policy, clientVars, sKeys, sCaps, sCodec, sSess, up, data, opened, now>>

(* Ready, unless the redirect checker sends the client elsewhere. *)
HelloDone ==
    /\ server = "dict"
    /\ \/ server' = "Ready" /\ UNCHANGED <<down, lost>>
       \/ server' = "Ended" /\ down' = Append(down, [type |-> "REDIRECT"]) /\ lost' = TRUE
    /\ UNCHANGED <<cfg, policy, clientVars, sKeys, sCaps, sCodec, sSess, up, data, opened, now>>

-----------------------------------------------------------------------------
(* The session.                                                             *)

(* A frame longer than the negotiated limit is a read error, which tears    *)
(* the session down (fatalTeardown). An encoded DICT is longer than its     *)
(* dictionary.                                                              *)
Fits(dict) == dict.len < frameLimit

handleDict ==
    /\ client = "Ready" /\ Received("DICT") /\ down' = Tail(down)
    /\ LET d == Head(down).dict IN
       \/ Fits(d) /\ client' = client
          /\ zdict' = IF "zstd_dict" \in cCaps /\ d.len <= MaxDict THEN d ELSE zdict
       \/ ~Fits(d) /\ client' = "Closed" /\ UNCHANGED zdict
    /\ UNCHANGED <<cfg, policy, cKeys, cCaps, cCodec, cSess, frameLimit, seq, seal, sealFailed,
                   serverVars, up, data, opened, now, lost>>

(* A redirect only calls the application; frames of the handshake are       *)
(* skipped.                                                                 *)
readOther ==
    /\ client = "Ready" /\ down # <<>> /\ ~Received("DICT") /\ down' = Tail(down)
    /\ UNCHANGED <<cfg, policy, clientVars, serverVars, up, data, opened, now, lost>>

(* Mutant: the capability stands for the dictionary. *)
pickCompressionByCap(size) ==
    IF size > DictMin /\ "zstd_dict" \in cCaps THEN "zstd_dict"
    ELSE IF size >= ZstdMin THEN "zstd" ELSE "none"

pickCompression(size) ==
    IF size > DictMin /\ zdict # None /\ "zstd_dict" \in cCaps THEN "zstd_dict"
    ELSE IF size >= ZstdMin THEN "zstd" ELSE "none"

FrameType(datagram) ==
    IF datagram /\ cfg.datagram /\ "datagram" \in cCaps THEN "DGRAM" ELSE "BATCH"

(* encodeAndSeal, first half: a seq is taken and the compression chosen;    *)
(* SendDatagram falls back to a BATCH.                                      *)
encodeAndSeal(size, datagram) ==
    /\ client = "Ready" /\ now <= cSess.expiry /\ seal = None /\ seq < MaxSeq
    /\ seq' = seq + 1
    /\ seal' = [type |-> FrameType(datagram), seq |-> seq', comp |-> pickCompression(size),
                plain |-> [seq |-> seq', size |-> size, codec |-> cCodec]]
    /\ UNCHANGED <<cfg, policy, client, cKeys, cCaps, cCodec, cSess, frameLimit, zdict, sealFailed,
                   serverVars, up, down, data, opened, now, lost>>

(* Second half: keys and dictionary are loaded, the envelope sealed and the *)
(* frame written, unless the connection is closed by then.                  *)
WriteSealed ==
    /\ seal # None /\ seal' = None
    /\ \/ seal.comp = "zstd_dict" /\ zdict = None /\ sealFailed' = TRUE /\ data' = data
       \/ /\ ~(seal.comp = "zstd_dict" /\ zdict = None) /\ sealFailed' = sealFailed
          /\ data' = IF client # "Ready" THEN data ELSE
                data \cup {[type |-> seal.type, env |->
                    SealEnvelope(seal.type, cSess.id, seal.seq, seal.comp, cKeys, zdict, seal.plain)]}
    /\ UNCHANGED <<cfg, policy, client, cKeys, cCaps, cCodec, cSess, frameLimit, zdict, seq,
                   serverVars, up, down, opened, now, lost>>

decodeAndValidate(f) ==
    IF sKeys = NoKeys THEN "internal"
    ELSE IF now > sSess.expiry THEN "server_draining"
    ELSE IF ~OpenEnvelope(f.type, sSess.id, sKeys, ServerDict, f.env) THEN "envelope_open_failed"
    ELSE IF f.env.text.text.plain.size > policy.batch THEN "batch_too_large"
    ELSE IF f.env.text.text.plain.seq # f.env.seq THEN "batch_invalid"
    ELSE "ok"

(* makeEvent: Decoded is there if the payload is of the handler's codec. *)
decodeSignalBatch(plain) == plain.codec = sCodec

(* processBatch and processDatagram, up to the event the sink is handed. *)
ProcessFrame(f) ==
    /\ server = "Ready" /\ f \in data
    /\ data' = data \ {f}
    /\ opened' = opened \cup {[frame |-> f, code |-> decodeAndValidate(f),
                               decoded |-> decodeSignalBatch(f.env.text.text.plain)]}
    /\ UNCHANGED <<cfg, policy, clientVars, serverVars, up, down, now, lost>>

-----------------------------------------------------------------------------
(* The rest of the world.                                                   *)

(* Datagrams may be lost; other frames only with the connection. *)
FrameLost(f) ==
    /\ f \in data /\ (f.type = "DGRAM" \/ server = "Ended")
    /\ data' = data \ {f}
    /\ UNCHANGED <<cfg, policy, clientVars, serverVars, up, down, opened, now, lost>>

(* A failed read or write, a cancelled context, Close: both sides may stop  *)
(* at any time.                                                             *)
ClientStops ==
    /\ client # "Closed" /\ client' = "Closed" /\ lost' = TRUE
    /\ UNCHANGED <<cfg, policy, cKeys, cCaps, cCodec, cSess, frameLimit, zdict, seq, seal,
                   sealFailed, serverVars, up, down, data, opened, now>>

ServerStops ==
    /\ server # "Ended" /\ server' = "Ended" /\ lost' = TRUE
    /\ UNCHANGED <<cfg, policy, clientVars, sKeys, sCaps, sCodec, sSess, up, down, data, opened, now>>

Tick ==
    /\ now < MaxTime /\ now' = now + 1
    /\ UNCHANGED <<cfg, policy, clientVars, serverVars, up, down, data, opened, lost>>

Next ==
    \/ SendHello \/ HandshakeAck \/ HandshakeFails
    \/ HelloRefused \/ HelloUnproven \/ HelloProven \/ maybeSendDict \/ HelloDone
    \/ handleDict \/ readOther
    \/ \E size \in Sizes, datagram \in BOOLEAN : encodeAndSeal(size, datagram)
    \/ WriteSealed
    \/ \E f \in data : ProcessFrame(f) \/ FrameLost(f)
    \/ ClientStops \/ ServerStops \/ Tick

(* Each side reads and answers its control frames. *)
Fairness ==
    /\ WF_handshakeVars(SendHello) /\ WF_handshakeVars(HandshakeAck)
    /\ WF_handshakeVars(HandshakeFails)
    /\ WF_handshakeVars(HelloRefused) /\ WF_handshakeVars(HelloUnproven)
    /\ WF_handshakeVars(HelloProven) /\ WF_handshakeVars(maybeSendDict)
    /\ WF_handshakeVars(HelloDone)
    /\ WF_handshakeVars(handleDict) /\ WF_handshakeVars(readOther)

Spec == Init /\ [][Next]_handshakeVars /\ Fairness

-----------------------------------------------------------------------------
(* Properties.                                                              *)

Compatible == policy.profile = cfg.profile /\ cfg.token \in AgentTokens[cfg.agent]

(* A client that holds keys agrees with its server on everything that both  *)
(* sides keep a copy of: the keys, the capabilities (all of them offered    *)
(* and supported), the codec, the session with its limits, credits and      *)
(* expiry; and its token is one of its agent's. A server that took a HELLO  *)
(* but could not prove it has no keys.                                      *)
SessionAgreed ==
    /\ cKeys # NoKeys =>
        /\ Compatible
        /\ cKeys = sKeys /\ cCaps = sCaps /\ cCodec = sCodec /\ cSess = sSess
        /\ cCaps \subseteq cfg.caps \cap policy.caps
    /\ sKeys # NoKeys => Compatible

(* Whatever the client sends after its handshake, with or without the       *)
(* dictionary having arrived, the server can open and decode, unless the    *)
(* session expired on the way or the batch is over a limit; and sealing     *)
(* never fails, so no seq is lost to it.                                    *)
EnvelopesOpen ==
    /\ ~sealFailed
    /\ \A o \in opened :
        LET plain == o.frame.env.text.text.plain IN
        /\ o.decoded
        /\ \/ o.code = "ok"
           \/ o.code = "server_draining" /\ now > sSess.expiry
           \/ o.code = "envelope_open_failed" /\ plain.size > MaxPlain
           \/ o.code = "batch_too_large" /\ plain.size > policy.batch

(* On a connection that lasts, a client the policy and the tokens allow     *)
(* ends Ready, with the dictionary if zstd_dict was selected ("DICT right   *)
(* after HELLO_ACK"), and any other client ends closed.                     *)
SetupCompletes ==
    [](~lost) => <>[](IF Compatible
                      THEN client = "Ready" /\ ("zstd_dict" \in cCaps => zdict = policy.dict)
                      ELSE client = "Closed")

=============================================================================
