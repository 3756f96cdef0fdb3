--------------------------- MODULE HandshakeProofs ---------------------------
(***************************************************************************)
(* SessionAgreed and EnvelopesOpen of Handshake, for all configurations,    *)
(* policies and token tables.                                               *)
(*                                                                          *)
(* The invariant says what each frame on the way is in terms of the         *)
(* server's copy of the session: the one HELLO, an ACK made from the stored *)
(* keys, a DICT of the policy's dictionary, an envelope sealed with the     *)
(* server's own keys, session and dictionary. Agreement of the two sides    *)
(* is then what reading an ACK establishes, and nothing changes either copy *)
(* afterwards.                                                              *)
(***************************************************************************)
EXTENDS Handshake, TLAPS

(* The server took the HELLO and stored keys and session for it. *)
Established ==
    /\ Compatible /\ cfg.profile \in Profiles /\ server # "Handshaking"
    /\ sCaps = Selected(cfg.caps) /\ sCodec = CodecFor(sCaps)
    /\ sKeys = deriveServerKeys(Hello, sCaps)
    /\ sSess.expiry \in Int

Agreed ==
    Established /\ cKeys = sKeys /\ cCaps = sCaps /\ cCodec = sCodec /\ cSess = sSess

TheAck ==
    LET a == [eph |-> GenerateEphemeral(cfg.profile, "server"), caps |-> sCaps, sess |-> sSess,
              finished |-> None]
    IN  [a EXCEPT !.finished = FinishedMAC(sKeys, TranscriptFull(cfg.profile, Hello, a))]

DownFrames ==
    {Nak, [type |-> "REDIRECT"]}
    \cup {f \in {[type |-> "DICT", dict |-> policy.dict]} : ServerDict # None}
    \cup {f \in {[type |-> "HELLO_ACK", ack |-> TheAck]} : Established}

Comps == {"none", "zstd", "zstd_dict"}
Plains == {p \in [seq : Nat, size : Sizes, codec : {"cbor", "proto"}] : p.codec = sCodec}

SealedFrame(type, comp, plain) ==
    [type |-> type,
     env |-> SealEnvelope(type, sSess.id, plain.seq, comp, sKeys, ServerDict, plain)]

DataFrames ==
    {SealedFrame(type, comp, plain) : type \in {"BATCH", "DGRAM"},
        comp \in {c \in Comps : c = "zstd_dict" => ServerDict # None}, plain \in Plains}

ControlInv ==
    /\ up \in {<<>>, <<Hello>>} /\ (client = "new" => up = <<>>)
    /\ down \in Seq(DownFrames)
    /\ server = "Handshaking" => sKeys = NoKeys
    /\ sKeys # NoKeys => Established
    /\ cKeys # NoKeys \/ client = "Ready" => Agreed
    /\ now \in Int

SealInv ==
    /\ zdict # None => zdict = ServerDict
    /\ seq \in Nat
    /\ seal # None =>
        /\ Agreed
        /\ seal.type \in {"BATCH", "DGRAM"} /\ seal.comp \in Comps /\ seal.plain \in Plains
        /\ seal.seq = seal.plain.seq
        /\ seal.comp = "zstd_dict" => zdict # None
    /\ ~sealFailed

DataInv ==
    /\ data # {} => Established
    /\ data \subseteq DataFrames

OpenedInv ==
    \A o \in opened :
        /\ Established /\ o.decoded
        /\ \/ o.code = "ok"
           \/ o.code = "server_draining" /\ now > sSess.expiry
           \/ o.code = "envelope_open_failed" /\ o.frame.env.text.text.plain.size > MaxPlain
           \/ o.code = "batch_too_large" /\ o.frame.env.text.text.plain.size > policy.batch

-----------------------------------------------------------------------------
(* Steps that leave the server's copy of the session alone.                 *)

ServerKept ==
    /\ UNCHANGED <<cfg, policy, sKeys, sCaps, sCodec, sSess>>
    /\ server # "Handshaking" => server' # "Handshaking"

ClientKept == UNCHANGED <<cKeys, cCaps, cCodec, cSess>>

(* Hello depends on the configuration alone. *)
LEMMA HelloKept == cfg' = cfg => Hello' = Hello
  BY DEF Hello, HelloBody

(* What is established stays so. *)
LEMMA EstablishedKept == ServerKept /\ Established => Established'
  BY HelloKept DEF ServerKept, Established, Compatible, Selected, Negotiate, CodecFor, deriveServerKeys,
     DeriveSessionKeysWithCaps, DeriveZZ, TranscriptHello

(* ... on both sides. *)
LEMMA AgreedKept == ServerKept /\ ClientKept /\ Agreed => Agreed'
  BY EstablishedKept DEF ServerKept, ClientKept, Agreed

(* Frames on their way keep their meaning. *)
LEMMA FramesKept ==
  ASSUME ServerKept
  PROVE  DownFrames \subseteq DownFrames' /\ DataFrames' = DataFrames /\ Plains' = Plains
         /\ ServerDict' = ServerDict
<1>1. ServerDict' = ServerDict
  BY DEF ServerKept, ServerDict
<1>2. TheAck' = TheAck
  BY HelloKept DEF ServerKept, TheAck
<1>3. Plains' = Plains
  BY DEF ServerKept, Plains
<1>4. DataFrames' = DataFrames
  BY <1>1, <1>3 DEF ServerKept, DataFrames, SealedFrame
<1>5. DownFrames \subseteq DownFrames'
  BY <1>1, <1>2, EstablishedKept DEF ServerKept, DownFrames
<1> QED BY <1>1, <1>3, <1>4, <1>5

-----------------------------------------------------------------------------
(* The two ends of the key schedule and of the envelope.                    *)

(* Client and server derive the same keys: the shared secret is that of the *)
(* two ephemeral keys, whichever side computes it.                          *)
LEMMA SameKeys ==
  ASSUME NEW a, a.eph = GenerateEphemeral(cfg.profile, "server"), a.caps = sCaps
  PROVE  deriveKeys(a) = deriveServerKeys(Hello, sCaps)
<1>1. Hello.profile = cfg.profile /\ Hello.eph = GenerateEphemeral(cfg.profile, "client")
  BY DEF Hello, HelloBody
<1>2. DeriveZZ(cfg.profile, "client", a.eph) = DeriveZZ(cfg.profile, "server", Hello.eph)
  BY <1>1 DEF DeriveZZ, GenerateEphemeral
<1> QED BY <1>1, <1>2 DEF deriveKeys, deriveServerKeys

(* A HELLO that is proven carries a token of the agent: the proof is a MAC  *)
(* under the token.                                                         *)
LEMMA ProvenToken == Proven(Hello) => cfg.token \in AgentTokens[cfg.agent]
<1>1. Hello.profile = cfg.profile /\ Hello.agent = cfg.agent
  BY DEF Hello, HelloBody
<1>2. Hello.proof.key = cfg.token
  BY DEF Hello, HelloBody, TokenProof
<1>3. ASSUME Proven(Hello) PROVE cfg.token \in AgentTokens[cfg.agent]
  <2>1. PICK t \in AgentTokens[cfg.agent] :
            TokenProof(cfg.profile, t, TranscriptHello(cfg.profile, Hello)) = Hello.proof
    BY <1>1, <1>3 DEF Proven, VerifyTokenProof
  <2>2. t = cfg.token
    BY <1>2, <2>1 DEF TokenProof
  <2> QED BY <2>1, <2>2
<1> QED BY <1>3

(* An envelope sealed with the server's keys, session and dictionary opens  *)
(* there, unless it decompresses to more than the limit.                    *)
LEMMA SealedOpens ==
  ASSUME NEW type, NEW comp \in Comps, NEW plain \in Plains,
         comp = "zstd_dict" => ServerDict # None
  PROVE  LET f == SealedFrame(type, comp, plain) IN
         /\ f.env.text.text.plain = plain /\ f.env.seq = plain.seq /\ f.type = type
         /\ OpenEnvelope(f.type, sSess.id, sKeys, ServerDict, f.env)
            \/ plain.size > MaxPlain
<1> DEFINE f == SealedFrame(type, comp, plain)
           ad == envelopeAD(type, sSess.id, plain.seq, comp, sKeys.profile)
<1>1. /\ f.type = type /\ f.env.seq = plain.seq /\ f.env.comp = comp
      /\ f.env.text.text = compress(comp, plain, ServerDict)
      /\ f.env.text.key = sKeys.ck /\ f.env.text.nonce = plain.seq /\ f.env.text.ad = ad
      /\ f.env.mac = IF sKeys.dual = None THEN None
                     ELSE dualMAC(sKeys.profile, sKeys.dual, ad, f.env.text)
  BY DEF SealedFrame, SealEnvelope
<1>2. f.env.text.text.plain = plain
      /\ (comp = "zstd_dict" => f.env.text.text.dict = ServerDict)
  BY <1>1 DEF compress
<1>3. plain.size \in Nat /\ MaxPlain \in Nat
  BY HandshakeAssumption DEF Plains
<1>4. plain.size <= MaxPlain \/ plain.size > MaxPlain
  BY <1>3
<1>5. decompress(comp, f.env.text.text, ServerDict) \/ plain.size > MaxPlain
  BY <1>2, <1>4 DEF decompress
<1>6. MACOpens(sKeys, ad, f.env)
  BY <1>1 DEF MACOpens
<1>7. OpenEnvelope(f.type, sSess.id, sKeys, ServerDict, f.env) \/ plain.size > MaxPlain
  BY <1>1, <1>5, <1>6 DEF OpenEnvelope
<1> QED BY <1>1, <1>2, <1>7

-----------------------------------------------------------------------------
(* ControlInv.                                                              *)

(* A new connection. *)
LEMMA ControlInit == Init => ControlInv
  BY DEF Init, ControlInv

(* A sequence over a set is one over a larger set. *)
LEMMA SeqMonotone ==
  ASSUME NEW S, NEW T, S \subseteq T, NEW s \in Seq(S)
  PROVE  s \in Seq(T)
  OBVIOUS

(* A step that leaves both copies of the session alone, sends at most       *)
(* frames it may send and makes no client Ready.                            *)
LEMMA ControlQuiet ==
  ASSUME ControlInv, ServerKept, ClientKept,
         up' \in {up, <<>>}, down' \in Seq(DownFrames'), now' \in Int,
         client' = "new" => client = "new", client' = "Ready" => client = "Ready",
         server' = "Handshaking" => server = "Handshaking"
  PROVE  ControlInv'
<1>1. up' \in {<<>>, <<Hello'>>} /\ (client' = "new" => up' = <<>>)
  BY HelloKept DEF ControlInv, ServerKept
<1>2. sKeys' # NoKeys => Established'
  BY EstablishedKept DEF ControlInv, ServerKept
<1>3. cKeys' # NoKeys \/ client' = "Ready" => Agreed'
  BY AgreedKept DEF ControlInv, ClientKept
<1>4. server' = "Handshaking" => sKeys' = NoKeys
  BY DEF ControlInv, ServerKept
<1> QED BY <1>1, <1>2, <1>3, <1>4 DEF ControlInv

(* What the server writes. *)
LEMMA DownKept ==
  ASSUME ControlInv, ServerKept
  PROVE  /\ down \in Seq(DownFrames')
         /\ down # <<>> => Tail(down) \in Seq(DownFrames') /\ Head(down) \in DownFrames
         /\ \A f \in DownFrames' : Append(down, f) \in Seq(DownFrames')
<1>1. down \in Seq(DownFrames')
  BY FramesKept, SeqMonotone DEF ControlInv
<1>2. down # <<>> => Tail(down) \in Seq(DownFrames') /\ Head(down) \in DownFrames
  BY <1>1 DEF ControlInv
<1>3. \A f \in DownFrames' : Append(down, f) \in Seq(DownFrames')
  BY <1>1
<1> QED BY <1>1, <1>2, <1>3

(* The actions that leave the control channel and both sessions alone. *)
DataStep ==
    \/ \E size \in Sizes, datagram \in BOOLEAN : encodeAndSeal(size, datagram)
    \/ WriteSealed
    \/ \E f \in data : ProcessFrame(f) \/ FrameLost(f)
    \/ ClientStops \/ ServerStops \/ Tick
    \/ UNCHANGED handshakeVars

(* What happens to sealed frames leaves the control channel alone. *)
LEMMA ControlData == ControlInv /\ DataStep => ControlInv'
<1> SUFFICES ASSUME ControlInv, DataStep PROVE ControlInv'
  OBVIOUS
<1>1. /\ ServerKept /\ ClientKept /\ up' = up /\ down' = down
      /\ now' \in {now, now + 1} /\ client' \in {client, "Closed"}
      /\ server' \in {server, "Ended"}
  BY DEF DataStep, encodeAndSeal, WriteSealed, ProcessFrame, FrameLost, ClientStops, ServerStops,
         Tick, handshakeVars, clientVars, serverVars, ServerKept, ClientKept
<1>2. now' \in Int
  BY <1>1 DEF ControlInv
<1> QED BY <1>1, <1>2, ControlQuiet, DownKept

(* A HELLO_ACK on its way is the one the server sent for its session. *)
LEMMA TheAckFrame ==
  ASSUME NEW f \in DownFrames, f.type = "HELLO_ACK"
  PROVE  Established /\ f.ack = TheAck
<1>1. f \in {g \in {[type |-> "HELLO_ACK", ack |-> TheAck]} : Established}
  BY DEF DownFrames, Nak
<1> QED BY <1>1

(* Every step of the handshake and of DICT keeps the control channel. *)
LEMMA ControlStep == ControlInv /\ [Next]_handshakeVars => ControlInv'
<1> SUFFICES ASSUME ControlInv, [Next]_handshakeVars PROVE ControlInv'
  OBVIOUS
<1>1. CASE DataStep
  BY <1>1, ControlData
<1>2. CASE SendHello
  <2>1. ServerKept /\ ClientKept /\ down' = down /\ now' = now /\ server' = server
    BY <1>2 DEF SendHello, serverVars, ServerKept, ClientKept
  <2>2. up' = <<Hello>> /\ client' = "hello" /\ Hello' = Hello
    BY <1>2, HelloKept DEF SendHello, ControlInv
  <2>3. (sKeys' # NoKeys => Established') /\ (cKeys' # NoKeys => Agreed')
    BY <2>1, EstablishedKept, AgreedKept DEF ControlInv, ServerKept, ClientKept
  <2>4. down' \in Seq(DownFrames')
    BY <2>1, DownKept
  <2> QED BY <2>1, <2>2, <2>3, <2>4 DEF ControlInv, ServerKept
<1>3. CASE HandshakeAck
  <2>1. ServerKept /\ down # <<>> /\ down' = Tail(down) /\ up' = up /\ now' = now
        /\ server' = server /\ client' = "Ready"
    BY <1>3 DEF HandshakeAck, Received, serverVars, ServerKept
  <2>2. Head(down) \in DownFrames /\ down' \in Seq(DownFrames')
    BY <2>1, DownKept
  <2>3. Established /\ Head(down).ack = TheAck
    <3>1. Head(down).type = "HELLO_ACK"
      BY <1>3 DEF HandshakeAck, Received
    <3> QED BY <2>2, <3>1, TheAckFrame
  <2>4. TheAck.eph = GenerateEphemeral(cfg.profile, "server") /\ TheAck.caps = sCaps
        /\ TheAck.sess = sSess
    BY DEF TheAck
  <2>5. cKeys' = sKeys /\ cCaps' = sCaps /\ cCodec' = sCodec /\ cSess' = sSess
    BY <1>3, <2>3, <2>4, SameKeys DEF HandshakeAck, Established
  <2>6. Agreed'
    BY <2>1, <2>3, <2>5, EstablishedKept DEF Agreed, ServerKept
  <2>7. up' \in {<<>>, <<Hello'>>}
    BY <2>1, HelloKept DEF ControlInv, ServerKept
  <2> QED BY <2>1, <2>2, <2>6, <2>7 DEF ControlInv, Agreed, Established, ServerKept
<1>4. CASE HandshakeFails
  BY <1>4, ControlQuiet, DownKept
     DEF HandshakeFails, serverVars, ServerKept, ClientKept, ControlInv
<1>5. CASE HelloRefused
  <2>1. ServerKept /\ ClientKept /\ now' = now /\ client' = client /\ server' = "Ended"
        /\ down' = Append(down, Nak)
    BY <1>5 DEF HelloRefused, clientVars, ServerKept, ClientKept
  <2>2. up' = <<>>
    <3>1. up = <<Hello>> /\ up' = Tail(up)
      BY <1>5 DEF HelloRefused, ControlInv
    <3> QED BY <3>1
  <2>3. down' \in Seq(DownFrames')
    BY <2>1, DownKept DEF DownFrames, Nak
  <2> QED BY <2>1, <2>2, <2>3, ControlQuiet DEF ControlInv
<1>6. CASE HelloUnproven \/ HelloProven
  <2>1. /\ server = "Handshaking" /\ sKeys = NoKeys /\ ~Established /\ ~Agreed
        /\ up = <<Hello>> /\ Head(up) = Hello /\ HelloTaken(Hello)
    <3>1. up # <<>> /\ server = "Handshaking" /\ HelloTaken(Head(up))
      BY <1>6 DEF HelloUnproven, HelloProven, HelloTaken
    <3>2. up = <<Hello>> /\ sKeys = NoKeys
      BY <3>1 DEF ControlInv
    <3>3. ~Established /\ ~Agreed
      BY <3>1 DEF Established, Agreed
    <3> QED BY <3>1, <3>2, <3>3
  <2>2. cKeys = NoKeys /\ client # "Ready"
    BY <2>1 DEF ControlInv
  <2>3. /\ UNCHANGED <<cfg, policy, client, cKeys, cCaps, cCodec, cSess, now>>
        /\ Hello' = Hello /\ up' = <<>> /\ policy.profile = cfg.profile
        /\ cfg.profile \in Profiles
        /\ sCaps' = Selected(cfg.caps) /\ sCodec' = CodecFor(sCaps')
    <3>1. Hello.profile = cfg.profile /\ Hello.caps = cfg.caps /\ Tail(<<Hello>>) = <<>>
      BY DEF Hello, HelloBody
    <3>2. UNCHANGED <<cfg, policy, client, cKeys, cCaps, cCodec, cSess, now>>
      BY <1>6 DEF HelloUnproven, HelloProven, clientVars
    <3> QED BY <2>1, <3>1, <3>2, HelloKept DEF HelloTaken, ValidateHello
  <2>4. DownFrames \subseteq {Nak, [type |-> "REDIRECT"]}
            \cup {f \in {[type |-> "DICT", dict |-> policy.dict]} : ServerDict # None}
    BY <2>1 DEF DownFrames
  <2>5. DownFrames \subseteq DownFrames' /\ Nak \in DownFrames'
    BY <2>3, <2>4 DEF DownFrames, ServerDict, Nak
  <2>6. down \in Seq(DownFrames')
    BY <2>5, SeqMonotone DEF ControlInv
  <2>7. CASE HelloUnproven
    <3>1. down' = Append(down, Nak) /\ server' = server /\ sKeys' = NoKeys
      BY <2>1, <2>7 DEF HelloUnproven
    <3>2. down' \in Seq(DownFrames')
      BY <2>5, <2>6, <3>1
    <3> QED BY <2>1, <2>2, <2>3, <3>1, <3>2 DEF ControlInv
  <2>8. CASE HelloProven
    <3>1. sKeys' = deriveServerKeys(Hello, sCaps') /\ sSess' = Session /\ Proven(Hello)
          /\ server' # "Handshaking"
      BY <2>1, <2>3, <2>8 DEF HelloProven, Hello, HelloBody
    <3>2. Session.expiry \in Int /\ Session.expiry = now + TTL
      BY HandshakeAssumption DEF Session, ControlInv
    <3>3. Established'
      BY <2>3, <3>1, <3>2, ProvenToken DEF Established, Compatible, Selected, Negotiate, CodecFor,
         deriveServerKeys, DeriveSessionKeysWithCaps, DeriveZZ, TranscriptHello
    <3>4. HelloAck(Hello, sKeys', sCaps') = TheAck'
      BY <2>3, <3>1 DEF HelloAck, TheAck, Hello, HelloBody
    <3>5. down' \in {down, Append(down, [type |-> "HELLO_ACK", ack |-> TheAck'])}
      BY <2>1, <2>3, <2>8, <3>4 DEF HelloProven, Hello, HelloBody
    <3>6. [type |-> "HELLO_ACK", ack |-> TheAck'] \in DownFrames'
      BY <3>3 DEF DownFrames
    <3>7. down' \in Seq(DownFrames')
      BY <2>6, <3>5, <3>6
    <3> QED BY <2>2, <2>3, <3>1, <3>3, <3>7 DEF ControlInv
  <2> QED BY <1>6, <2>7, <2>8
<1>7. CASE maybeSendDict
  <2>1. ServerKept /\ ClientKept /\ now' = now /\ client' = client /\ up' = up
        /\ server' # "Handshaking"
    BY <1>7 DEF maybeSendDict, clientVars, ServerKept, ClientKept
  <2>2. ServerDict # None => [type |-> "DICT", dict |-> policy.dict] \in DownFrames'
    BY <2>1, FramesKept DEF DownFrames
  <2>3. down' = down
        \/ (down' = Append(down, [type |-> "DICT", dict |-> policy.dict]) /\ ServerDict # None)
    BY <1>7 DEF maybeSendDict
  <2>4. down' \in Seq(DownFrames')
    BY <2>1, <2>2, <2>3, DownKept
  <2> QED BY <2>1, <2>4, ControlQuiet DEF ControlInv
<1>8. CASE HelloDone
  <2>1. ServerKept /\ ClientKept /\ now' = now /\ client' = client /\ up' = up
        /\ server' # "Handshaking" /\ down' \in {down, Append(down, [type |-> "REDIRECT"])}
    BY <1>8 DEF HelloDone, clientVars, ServerKept, ClientKept
  <2>2. [type |-> "REDIRECT"] \in DownFrames'
    BY DEF DownFrames
  <2> QED BY <2>1, <2>2, ControlQuiet, DownKept DEF ControlInv
<1>9. CASE handleDict \/ readOther
  <2>1. ServerKept /\ ClientKept /\ now' = now /\ client' \in {client, "Closed"} /\ up' = up
        /\ server' = server /\ down # <<>> /\ down' = Tail(down)
    BY <1>9 DEF handleDict, readOther, Received, clientVars, serverVars, ServerKept, ClientKept
  <2> QED BY <2>1, ControlQuiet, DownKept DEF ControlInv
<1> QED BY <1>1, <1>2, <1>3, <1>4, <1>5, <1>6, <1>7, <1>8, <1>9 DEF Next, DataStep

-----------------------------------------------------------------------------
(* Sealing and opening.                                                     *)

SessionInv == ControlInv /\ SealInv /\ DataInv /\ OpenedInv

(* The server's copy of the session changes only while nothing depends on   *)
(* it: no frame is sealed, on its way or opened.                            *)
LEMMA HelloAlone ==
  ASSUME SessionInv, HelloUnproven \/ HelloProven
  PROVE  SealInv' /\ DataInv' /\ OpenedInv'
<1>1. ~Established /\ ~Agreed /\ policy' = policy
  BY DEF HelloUnproven, HelloProven, HelloTaken, Established, Agreed
<1>2. data = {} /\ opened = {} /\ seal = None /\ UNCHANGED <<data, opened, seal, zdict, seq, sealFailed>>
  BY <1>1 DEF SessionInv, SealInv, DataInv, OpenedInv, HelloUnproven, HelloProven, HelloTaken, clientVars
<1>3. ServerDict' = ServerDict
  BY <1>1 DEF ServerDict
<1> QED BY <1>2, <1>3 DEF SessionInv, SealInv, DataInv, OpenedInv

(* A step that leaves both copies of the session alone keeps what was       *)
(* sealed and opened before.                                                *)
LEMMA DataQuiet ==
  ASSUME SessionInv, ServerKept, ClientKept, now' \in Int, now' >= now,
         data' \subseteq data, opened' = opened,
         UNCHANGED <<seq, seal, sealFailed>>,
         zdict' = zdict \/ (zdict' = ServerDict /\ ServerDict # None)
  PROVE  SealInv' /\ DataInv' /\ OpenedInv'
<1>1. SealInv'
  <2>1. zdict' # None => zdict' = ServerDict'
    BY FramesKept DEF SessionInv, SealInv
  <2>2. seal' # None => Agreed'
    BY AgreedKept DEF SessionInv, SealInv
  <2> QED BY <2>1, <2>2, FramesKept DEF SessionInv, SealInv
<1>2. DataInv'
  BY EstablishedKept, FramesKept DEF SessionInv, DataInv
<1>3. OpenedInv'
  <2> SUFFICES ASSUME NEW o \in opened
               PROVE  /\ Established' /\ o.decoded
                      /\ \/ o.code = "ok"
                         \/ o.code = "server_draining" /\ now' > sSess.expiry
                         \/ o.code = "envelope_open_failed" /\ o.frame.env.text.text.plain.size > MaxPlain
                         \/ o.code = "batch_too_large" /\ o.frame.env.text.text.plain.size > policy.batch
    BY DEF OpenedInv, ServerKept
  <2>1. Established /\ Established'
    BY EstablishedKept DEF SessionInv, OpenedInv
  <2>2. now > sSess.expiry => now' > sSess.expiry
    <3>1. sSess.expiry \in Int
      BY <2>1 DEF Established
    <3>2. now \in Int
      BY DEF SessionInv, ControlInv
    <3> QED BY <3>1, <3>2
  <2>3. /\ o.decoded
        /\ \/ o.code = "ok"
           \/ o.code = "server_draining" /\ now > sSess.expiry
           \/ o.code = "envelope_open_failed" /\ o.frame.env.text.text.plain.size > MaxPlain
           \/ o.code = "batch_too_large" /\ o.frame.env.text.text.plain.size > policy.batch
    BY DEF SessionInv, OpenedInv
  <2> QED BY <2>1, <2>2, <2>3
<1> QED BY <1>1, <1>2, <1>3

(* A sealed frame that is processed. *)
LEMMA ProcessKept ==
  ASSUME SessionInv, NEW f \in data, ProcessFrame(f)
  PROVE  SealInv' /\ DataInv' /\ OpenedInv'
<1>1. ServerKept /\ ClientKept /\ data' = data \ {f} /\ now' = now
      /\ UNCHANGED <<seq, seal, sealFailed, zdict, policy, sSess>>
  BY DEF ProcessFrame, clientVars, serverVars, ServerKept, ClientKept
<1>2. Established /\ Established'
  BY <1>1, EstablishedKept DEF SessionInv, DataInv
<1>3. SealInv'
  BY <1>1, AgreedKept, FramesKept DEF SessionInv, SealInv
<1>4. DataInv'
  BY <1>1, <1>2, FramesKept DEF SessionInv, DataInv
<1>5. PICK type \in {"BATCH", "DGRAM"}, comp \in {c \in Comps : c = "zstd_dict" => ServerDict # None},
           plain \in Plains : f = SealedFrame(type, comp, plain)
  BY DEF SessionInv, DataInv, DataFrames
<1>6. /\ f.env.text.text.plain = plain /\ f.env.seq = plain.seq
      /\ OpenEnvelope(f.type, sSess.id, sKeys, ServerDict, f.env) \/ plain.size > MaxPlain
  <2>1. comp \in Comps /\ (comp = "zstd_dict" => ServerDict # None)
    OBVIOUS
  <2>2. LET g == SealedFrame(type, comp, plain) IN
        /\ g.env.text.text.plain = plain /\ g.env.seq = plain.seq
        /\ OpenEnvelope(g.type, sSess.id, sKeys, ServerDict, g.env) \/ plain.size > MaxPlain
    BY <2>1, SealedOpens
  <2> QED BY <1>5, <2>2
<1>7. f.env.text.text.plain.codec = sCodec
  BY <1>6 DEF Plains
<1> DEFINE code == decodeAndValidate(f)
<1>8. \/ code = "ok"
      \/ code = "server_draining" /\ now > sSess.expiry
      \/ code = "envelope_open_failed" /\ plain.size > MaxPlain
      \/ code = "batch_too_large" /\ plain.size > policy.batch
  <2>1. sKeys # NoKeys
    <3>1. sKeys.profile = cfg.profile /\ cfg.profile # ""
      BY <1>2 DEF Established, deriveServerKeys, DeriveSessionKeysWithCaps, Hello, HelloBody, Profiles
    <3>2. NoKeys.profile = ""
      BY DEF NoKeys
    <3> QED BY <3>1, <3>2
  <2> QED BY <1>6, <2>1 DEF decodeAndValidate
<1> DEFINE new == [frame |-> f, code |-> code, decoded |-> f.env.text.text.plain.codec = sCodec]
<1>9. new.code = code /\ new.decoded /\ new.frame.env.text.text.plain = plain
  BY <1>6, <1>7
<1>10. opened' = opened \cup {new}
  BY DEF ProcessFrame, decodeSignalBatch
<1>11. OpenedInv'
  <2> HIDE DEF code, new
  <2> QED BY <1>1, <1>2, <1>8, <1>9, <1>10 DEF SessionInv, OpenedInv
<1> QED BY <1>3, <1>4, <1>11

(* A batch that begins to be sealed: it has the compression the dictionary  *)
(* allows.                                                                  *)
LEMMA EncodeKept ==
  ASSUME SessionInv, NEW size \in Sizes, NEW datagram \in BOOLEAN, encodeAndSeal(size, datagram)
  PROVE  SealInv' /\ DataInv' /\ OpenedInv'
<1>1. ServerKept /\ ClientKept /\ now' = now /\ data' = data /\ opened' = opened
      /\ UNCHANGED <<sealFailed, zdict, policy, sSess>> /\ seq' = seq + 1 /\ client = "Ready"
  BY DEF encodeAndSeal, serverVars, ServerKept, ClientKept
<1>2. Agreed /\ Agreed' /\ Plains' = Plains /\ ServerDict' = ServerDict
  <2>1. Agreed
    BY <1>1 DEF SessionInv, ControlInv
  <2> QED BY <1>1, <2>1, AgreedKept, FramesKept
<1>3. seq' \in Nat
  <2>1. seq \in Nat
    BY DEF SessionInv, SealInv
  <2> QED BY <1>1, <2>1
<1> DEFINE plain == [seq |-> seq', size |-> size, codec |-> cCodec]
<1>4. plain \in Plains /\ plain.seq = seq'
  BY <1>2, <1>3 DEF Plains, Agreed, Established, CodecFor
<1>5. FrameType(datagram) \in {"BATCH", "DGRAM"}
  BY DEF FrameType
<1>6. pickCompression(size) \in Comps /\ (pickCompression(size) = "zstd_dict" => zdict # None)
  BY DEF pickCompression, Comps
<1>7. seal'.type \in {"BATCH", "DGRAM"} /\ seal'.comp \in Comps /\ seal'.plain \in Plains
      /\ seal'.seq = seal'.plain.seq /\ (seal'.comp = "zstd_dict" => zdict # None)
  BY <1>4, <1>5, <1>6 DEF encodeAndSeal
<1>8. SealInv'
  BY <1>1, <1>2, <1>3, <1>7 DEF SessionInv, SealInv
<1>9. DataInv' /\ OpenedInv'
  BY <1>1, EstablishedKept, FramesKept DEF SessionInv, DataInv, OpenedInv
<1> QED BY <1>8, <1>9

(* The frame that is written is one sealed with the server's own values. *)
LEMMA WriteKept ==
  ASSUME SessionInv, WriteSealed
  PROVE  SealInv' /\ DataInv' /\ OpenedInv'
<1>1. ServerKept /\ ClientKept /\ now' = now /\ opened' = opened /\ seal # None /\ seal' = None
      /\ UNCHANGED <<zdict, seq, policy, sSess>>
  BY DEF WriteSealed, serverVars, ServerKept, ClientKept
<1>2. Agreed /\ ~(seal.comp = "zstd_dict" /\ zdict = None)
  BY <1>1 DEF SessionInv, SealInv
<1>3. SealInv'
  <2>1. ~sealFailed'
    BY <1>2 DEF WriteSealed, SessionInv, SealInv
  <2>2. ServerDict' = ServerDict
    BY <1>1, FramesKept
  <2> QED BY <1>1, <2>1, <2>2 DEF SessionInv, SealInv
<1>4. seal.comp = "zstd_dict" => zdict = ServerDict /\ ServerDict # None
  BY <1>2 DEF SessionInv, SealInv
<1>5. compress(seal.comp, seal.plain, zdict) = compress(seal.comp, seal.plain, ServerDict)
  BY <1>4 DEF compress
<1> DEFINE f == [type |-> seal.type, env |->
                 SealEnvelope(seal.type, cSess.id, seal.seq, seal.comp, cKeys, zdict, seal.plain)]
<1>6. f = SealedFrame(seal.type, seal.comp, seal.plain)
  BY <1>1, <1>2, <1>5 DEF SealedFrame, SealEnvelope, Agreed, SessionInv, SealInv
<1>7. f \in DataFrames
  <2> HIDE DEF f
  <2>1. seal.type \in {"BATCH", "DGRAM"} /\ seal.plain \in Plains
        /\ seal.comp \in {c \in Comps : c = "zstd_dict" => ServerDict # None}
    BY <1>1, <1>4 DEF SessionInv, SealInv
  <2> QED BY <1>6, <2>1 DEF DataFrames
<1>8. data' \subseteq data \cup {f}
  BY <1>2 DEF WriteSealed
<1>9. DataInv'
  <2> HIDE DEF f
  <2> QED BY <1>1, <1>2, <1>7, <1>8, EstablishedKept, FramesKept DEF SessionInv, DataInv, Agreed
<1>10. OpenedInv'
  BY <1>1, EstablishedKept DEF SessionInv, OpenedInv
<1> QED BY <1>3, <1>9, <1>10

(* The client's copy is written while nothing has been sealed with it. *)
LEMMA AckKept ==
  ASSUME SessionInv, HandshakeAck
  PROVE  SealInv' /\ DataInv' /\ OpenedInv'
<1>1. ServerKept /\ now' = now /\ UNCHANGED <<data, opened, seq, seal, sealFailed, zdict, policy, sSess>>
  BY DEF HandshakeAck, serverVars, ServerKept
<1>2. Agreed'
  BY ControlStep DEF SessionInv, ControlInv, HandshakeAck, Next
<1>3. SealInv'
  BY <1>1, <1>2, FramesKept DEF SessionInv, SealInv
<1>4. DataInv' /\ OpenedInv'
  BY <1>1, EstablishedKept, FramesKept DEF SessionInv, DataInv, OpenedInv
<1> QED BY <1>3, <1>4

(* ... and every step keeps what was sealed and opened. *)
LEMMA SessionStep == SessionInv /\ [Next]_handshakeVars => SessionInv'
<1> SUFFICES ASSUME SessionInv, [Next]_handshakeVars PROVE SealInv' /\ DataInv' /\ OpenedInv'
  BY ControlStep DEF SessionInv
<1>0. now \in Int /\ now >= now /\ now + 1 \in Int /\ now + 1 >= now
  BY DEF SessionInv, ControlInv
<1>1. CASE \E size \in Sizes, datagram \in BOOLEAN : encodeAndSeal(size, datagram)
  BY <1>1, EncodeKept
<1>2. CASE WriteSealed
  BY <1>2, WriteKept
<1>3. CASE \E f \in data : ProcessFrame(f)
  BY <1>3, ProcessKept
<1>4. CASE HandshakeAck
  BY <1>4, AckKept
<1>5. CASE HelloUnproven \/ HelloProven
  BY <1>5, HelloAlone
<1>6. CASE handleDict
  <2>1. ServerKept /\ ClientKept /\ UNCHANGED <<now, data, opened, seq, seal, sealFailed>>
    BY <1>6 DEF handleDict, serverVars, ServerKept, ClientKept
  <2>2. Head(down) \in DownFrames /\ Head(down).type = "DICT"
    BY <1>6, <2>1, DownKept DEF handleDict, Received, SessionInv
  <2>3. ServerDict # None /\ Head(down).dict = policy.dict
    BY <2>2 DEF DownFrames, Nak
  <2>4. ServerDict = policy.dict
    BY <2>3 DEF ServerDict
  <2>5. zdict' = zdict \/ (zdict' = ServerDict /\ ServerDict # None)
    BY <1>6, <2>3, <2>4 DEF handleDict
  <2> QED BY <1>0, <2>1, <2>5, DataQuiet
<1>7. CASE \/ SendHello \/ HandshakeFails \/ HelloRefused \/ maybeSendDict \/ HelloDone \/ readOther
           \/ (\E f \in data : FrameLost(f)) \/ ClientStops \/ ServerStops \/ Tick
           \/ UNCHANGED handshakeVars
  <2>1. ServerKept /\ ClientKept /\ UNCHANGED <<opened, seq, seal, sealFailed, zdict>>
        /\ data' \subseteq data /\ now' \in {now, now + 1}
    BY <1>7 DEF SendHello, HandshakeFails, HelloRefused, maybeSendDict, HelloDone, readOther, FrameLost,
       ClientStops, ServerStops, Tick, handshakeVars, clientVars, serverVars, ServerKept, ClientKept
  <2> QED BY <1>0, <2>1, DataQuiet
<1> QED BY <1>1, <1>2, <1>3, <1>4, <1>5, <1>6, <1>7 DEF Next

-----------------------------------------------------------------------------
(* The theorems.                                                            *)

(* Nothing has been sealed on a new connection. *)
LEMMA SessionInit == Init => SessionInv
<1> SUFFICES ASSUME Init PROVE SessionInv
  OBVIOUS
<1>1. ~sealFailed /\ zdict = None /\ seal = None /\ data = {} /\ opened = {} /\ seq = 0
  BY DEF Init
<1>2. SealInv
  BY <1>1 DEF SealInv
<1>3. DataInv /\ OpenedInv
  BY <1>1 DEF DataInv, OpenedInv
<1> QED BY ControlInit, <1>2, <1>3 DEF SessionInv

(* The invariant from which both theorems follow. *)
LEMMA SessionAlways == Spec => []SessionInv
  BY SessionInit, SessionStep, PTL DEF Spec

(* A client that holds keys agrees with its server on all that was          *)
(* negotiated, and its token is one of its agent's.                         *)
THEOREM SidesAgree == Spec => []SessionAgreed
<1>1. SessionInv => SessionAgreed
  BY DEF SessionInv, ControlInv, SessionAgreed, Agreed, Established, Selected, Negotiate
<1> QED BY <1>1, SessionAlways, PTL

(* What the client seals the server opens and decodes, unless it expired or *)
(* is over a limit, and no seal fails.                                      *)
THEOREM EveryEnvelopeOpens == Spec => []EnvelopesOpen
<1>1. SessionInv => EnvelopesOpen
  BY DEF SessionInv, SealInv, OpenedInv, EnvelopesOpen
<1> QED BY <1>1, SessionAlways, PTL

=============================================================================
