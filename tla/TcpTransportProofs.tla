------------------------- MODULE TcpTransportProofs -------------------------
(* Proofs about TcpTransport for any number of writers and closers: the     *)
(* write token keeps frames apart, a broken write ends the stream, and a    *)
(* full channel loses nothing.                                              *)
EXTENDS TcpTransport, FiniteSetTheorems, TLAPS

Holders == {w \in Writers : writer[w] \in {"holds", "breaking"}}

WriteTypeOK ==
    /\ writeSem \in {0, 1}
    /\ writer \in [Writers -> {"idle", "waits", "holds", "breaking"}]
    /\ half \in BOOLEAN /\ desync \in BOOLEAN /\ connOpen \in BOOLEAN

(* The token is in one place; and while the connection is open, half a      *)
(* frame on it belongs to the writer that is about to close it.             *)
WriteInv ==
    /\ WriteTypeOK
    /\ \A v, w \in Holders : v = w
    /\ writeSem = 1 => Holders = {}
    /\ half /\ connOpen => \E w \in Writers : writer[w] = "breaking"
    /\ ~desync

LEMMA WriteInit == Init => WriteInv
BY DEF Init, WriteInv, WriteTypeOK, Holders

LEMMA WriteStep == WriteInv /\ [Next]_tcpVars => WriteInv'
<1> SUFFICES ASSUME WriteInv, [Next]_tcpVars PROVE WriteInv'
    OBVIOUS
<1> USE DEF WriteInv, WriteTypeOK, Holders
<1>1. ASSUME NEW w \in Writers, SendFrame(w) PROVE WriteInv'
    BY <1>1 DEF SendFrame, WriterGoes
<1>2. ASSUME NEW w \in Writers, SendAcquires(w) PROVE WriteInv'
    BY <1>2 DEF SendAcquires, WriterGoes
<1>3. ASSUME NEW w \in Writers, SendWrites(w) PROVE WriteInv'
    BY <1>3 DEF SendWrites, WriterGoes
<1>4. ASSUME NEW w \in Writers, SendFails(w) PROVE WriteInv'
    BY <1>4 DEF SendFails, WriterGoes
<1>5. ASSUME NEW w \in Writers, SendBreaks(w) PROVE WriteInv'
    <2>1. connOpen' \in BOOLEAN /\ ~connOpen'
        BY <1>5 DEF SendBreaks
    <2>2. Holders' = {} /\ writeSem = 0
        BY <1>5 DEF SendBreaks, WriterGoes
    <2> QED
        BY <1>5, <2>1, <2>2 DEF SendBreaks, WriterGoes
<1>6. ASSUME NEW w \in Writers, CtxEnds(w) PROVE WriteInv'
    BY <1>6 DEF CtxEnds
<1>7. ASSUME NEW c \in Closers, Close(c) \/ CloserStep(c) PROVE WriteInv'
    <2>1. writeSem' \in {0, writeSem} /\ UNCHANGED <<writer, half, desync>>
        BY <1>7 DEF Close, CloserStep, CloseDrains, CloseShuts, CloseRest
    <2>2. UNCHANGED connOpen \/ connOpen' = FALSE
        BY <1>7 DEF Close, CloserStep, CloseDrains, CloseShuts
    <2>3. CASE UNCHANGED connOpen
        BY <2>1, <2>3
    <2>4. CASE connOpen' = FALSE
        <3>1. connOpen' \in BOOLEAN /\ ~connOpen'
            BY <2>4
        <3> QED
            BY <2>1, <3>1
    <2> QED
        BY <2>2, <2>3, <2>4
<1>8. CASE UNCHANGED <<writeVars, connOpen>>
    BY <1>8 DEF writeVars
<1>9. ASSUME NEW k \in Kinds, \/ Recv(k) \/ RecvEnds(k, TRUE) \/ RecvEnds(k, FALSE)
                              \/ ReadFrame(k)
      PROVE UNCHANGED <<writeVars, connOpen>>
    BY <1>9 DEF Recv, RecvEnds, ReadFrame, ReadRest
<1>10. ReadFails \/ Dispatch \/ UNCHANGED tcpVars => UNCHANGED <<writeVars, connOpen>>
    BY DEF ReadFails, Dispatch, ReadRest, tcpVars
<1> QED
    BY <1>1, <1>2, <1>3, <1>4, <1>5, <1>6, <1>7, <1>8, <1>9, <1>10
    DEF Next, WriterStep, ReaderStep

LEMMA WriteInvariant == TcpSpec => []WriteInv
BY WriteInit, WriteStep, PTL DEF TcpSpec

(* Whatever writers, cancellations and Close do in any order, at most one   *)
(* goroutine has the token of writeSem, and no frame is written after half  *)
(* a frame (SendFrame, Close).                                              *)
THEOREM WriterAlone == TcpSpec => []StreamIntact
<1>1. ASSUME WriteInv PROVE StreamIntact
    <2> USE <1>1 DEF WriteInv, WriteTypeOK
    <2>1. Holders = {} \/ \E w \in Writers : Holders = {w}
        BY DEF Holders
    <2>2. Cardinality(Holders) \in {0, 1} /\ (Holders # {} => Cardinality(Holders) = 1)
        BY <2>1, FS_EmptySet, FS_Singleton
    <2>3. CASE Holders = {}
        BY <2>3, FS_EmptySet DEF StreamIntact, OneWriter, NoDesync, Holders
    <2>4. CASE Holders # {}
        <3>1. writeSem = 0 /\ Cardinality(Holders) = 1
            BY <2>4, <2>2
        <3> QED
            BY <3>1 DEF StreamIntact, OneWriter, NoDesync, Holders
    <2> QED
        BY <2>3, <2>4
<1> QED
    BY <1>1, WriteInvariant, PTL

-----------------------------------------------------------------------------
ReadInv ==
    /\ arrived \in Nat /\ received \in Nat
    /\ ch \in [Kinds -> Nat]
    /\ reader \in Kinds \cup {"reads", "ended"}
    /\ closed \in BOOLEAN
    /\ NoFrameLost

LEMMA ReadStep == ReadInv /\ [Next]_tcpVars => ReadInv'
<1> SUFFICES ASSUME ReadInv, [Next]_tcpVars PROVE ReadInv'
    OBVIOUS
<1> USE DEF ReadInv, NoFrameLost, Kinds
<1>1. ASSUME NEW k \in Kinds, ReadFrame(k) PROVE ReadInv'
    BY <1>1 DEF ReadFrame, ReadRest, closeVars
<1>2. CASE ReadFails
    BY <1>2 DEF ReadFails, ReadRest, closeVars
<1>3. CASE Dispatch
    BY <1>3 DEF Dispatch, ReadRest, closeVars
<1>4. ASSUME NEW k \in Kinds, Recv(k) PROVE ReadInv'
    BY <1>4 DEF Recv, ReadRest, closeVars
<1>5. ASSUME NEW k \in Kinds, RecvEnds(k, TRUE) \/ RecvEnds(k, FALSE) PROVE ReadInv'
    BY <1>5 DEF RecvEnds, ReadRest, closeVars
<1>6. ASSUME NEW w \in Writers, SendFrame(w) \/ WriterStep(w) \/ CtxEnds(w)
      PROVE UNCHANGED <<closed, readVars>>
    BY <1>6 DEF SendFrame, WriterStep, SendAcquires, SendWrites, SendFails, SendBreaks, CtxEnds,
                WriterRest, closeVars
<1>7. ASSUME NEW c \in Closers, Close(c) \/ CloserStep(c)
      PROVE closed' \in {closed, TRUE} /\ UNCHANGED readVars
    BY <1>7 DEF Close, CloserStep, CloseDrains, CloseShuts, CloseRest
<1>8. UNCHANGED tcpVars => UNCHANGED <<closed, readVars>>
    BY DEF tcpVars, closeVars
<1>9. CASE closed' \in {closed, TRUE} /\ UNCHANGED readVars
    BY <1>9 DEF readVars
<1> QED
    BY <1>1, <1>2, <1>3, <1>4, <1>5, <1>6, <1>7, <1>8, <1>9 DEF Next, ReaderStep

(* Until Close, every frame readLoop has read is in a channel, with the     *)
(* loops, or in the hands of readLoop: back pressure loses none (readLoop,  *)
(* RecvControlFrame, RecvDataFrame).                                        *)
THEOREM NothingDropped == TcpSpec => []NoFrameLost
<1>1. Init => ReadInv
    <2> SUFFICES ASSUME Init PROVE ReadInv
        OBVIOUS
    <2>1. closed \in BOOLEAN
        BY DEF Init
    <2>2. ch \in [Kinds -> Nat] /\ ch["control"] = 0 /\ ch["data"] = 0
        BY DEF Init, Kinds
    <2>3. reader = "reads" /\ reader \notin Kinds
        BY DEF Init, Kinds
    <2> QED
        BY <2>1, <2>2, <2>3 DEF Init, ReadInv, NoFrameLost
<1>2. ReadInv => NoFrameLost
    BY DEF ReadInv
<1> QED
    BY <1>1, <1>2, ReadStep, PTL DEF TcpSpec
=============================================================================
