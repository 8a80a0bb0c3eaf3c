----------------------------- MODULE NoiseChannel -----------------------------
(***************************************************************************)
(* One direction of a tunnel's connection (internal/protocol/noise.go and  *)
(* wire.go): a Noise NK handshake, writers of the control stream that take *)
(* turns under a mutex and write a frame as two Writes, Writes cut into    *)
(* chunks that are sealed with one nonce after the other, and a reader     *)
(* that puts the frames together again.  yamux carries the control stream  *)
(* among others over the NoiseConn.                                        *)
(***************************************************************************)
EXTENDS SequencesExt, FiniteSetsExt

CONSTANTS Writers,    \* of the control stream
          Other,      \* the writer of yamux's other streams and pings
          Frames,
          Length,     \* of each frame: CompressBody and Marshal are behind it
          MaxFrame,   \* 16 MiB
          MaxChunk,
          MaxRead,    \* the most that yamux asks for at once
          LastPing,   \* a bound: pings are sent before that many messages
          Free,       \* a mutex that nobody holds
          Garbled     \* a frame that nobody sent

ASSUME ChannelAssumption ==
    /\ Length \in [Frames -> Nat \ {0}] /\ Other \notin Writers \cup Frames /\ Garbled \notin Frames
    /\ {MaxFrame, MaxChunk, MaxRead} \subseteq Nat \ {0} /\ Free \notin Writers \cup {Other}

VARIABLES link,       \* "dialled", "asked", "answered", "up" or "down"
          ctrlMu, writeMu,
          writes,     \* per writer, the Writes it has to do, the first one begun
          sealed,     \* per writer, the chunk it encrypted, with its nonce
          sendNonce, recvNonce,
          wire, readBuf,
          inbox,      \* what ReadFrame has of the control stream
          sent, received

channelVars == <<link, ctrlMu, writeMu, writes, sealed, sendNonce, recvNonce, wire,
                 readBuf, inbox, sent, received>>

Byte(f, i) == [frame |-> f, at |-> i]   \* byte 0 is the length

Bytes(f) == [i \in 1..Length[f] |-> Byte(f, i)]

ChannelInit ==
    /\ link = "dialled" /\ ctrlMu = Free /\ writeMu = Free
    /\ writes = [w \in Writers \cup {Other} |-> <<>>]
    /\ sealed = [w \in Writers \cup {Other} |-> <<>>]
    /\ sendNonce = 0 /\ recvNonce = 0
    /\ wire = <<>> /\ readBuf = <<>> /\ inbox = <<>> /\ sent = <<>> /\ received = <<>>

\* ClientHandshake writes msg1 for the key it was given; ServerHandshake fails on
\* it unless the key is its own, and writes msg2; the client reads that.
Handshake ==
    /\ \/ link = "dialled" /\ link' = "asked"
       \/ link = "asked" /\ link' \in {"answered", "down"}
       \/ link = "answered" /\ link' = "up"
    /\ UNCHANGED <<ctrlMu, writeMu, writes, sealed, sendNonce, recvNonce, wire, readBuf,
                   inbox, sent, received>>

Break ==
    /\ link # "down" /\ link' = "down"
    /\ UNCHANGED <<ctrlMu, writeMu, writes, sealed, sendNonce, recvNonce, wire, readBuf,
                   inbox, sent, received>>

Fresh(f) == f \notin Range(sent)

\* A frame that is too large is an error before the first byte; no caller looks.
Oversized(f) == Length[f] > MaxFrame

\* Mutant: the mutex is only released after a write.
BeginOrStick(w, f) ==
    /\ link = "up" /\ ctrlMu = Free /\ Fresh(f)
    /\ ctrlMu' = w
    /\ IF Oversized(f) THEN UNCHANGED <<writes, sent>>
       ELSE /\ writes' = [writes EXCEPT ![w] = <<<<Byte(f, 0)>>, Bytes(f)>>]
            /\ sent' = Append(sent, f)
    /\ UNCHANGED <<link, writeMu, sealed, sendNonce, recvNonce, wire, readBuf, inbox, received>>

\* Mutant: nobody waits for the mutex.
BeginAtOnce(w, f) ==
    /\ link = "up" /\ writes[w] = <<>> /\ Fresh(f) /\ ~Oversized(f)
    /\ writes' = [writes EXCEPT ![w] = <<<<Byte(f, 0)>>, Bytes(f)>>]
    /\ sent' = Append(sent, f)
    /\ UNCHANGED <<link, ctrlMu, writeMu, sealed, sendNonce, recvNonce, wire, readBuf, inbox,
                   received>>

\* writeFrame takes ctrlMu; WriteFrame then writes the length and the body.
WriteFrame(w, f) ==
    /\ link = "up" /\ ctrlMu = Free /\ Fresh(f)
    /\ IF Oversized(f) THEN UNCHANGED <<ctrlMu, writes, sent>>
       ELSE /\ ctrlMu' = w
            /\ writes' = [writes EXCEPT ![w] = <<<<Byte(f, 0)>>, Bytes(f)>>]
            /\ sent' = Append(sent, f)
    /\ UNCHANGED <<link, writeMu, sealed, sendNonce, recvNonce, wire, readBuf, inbox, received>>

\* Another stream's data, or a ping.
WriteOther ==
    /\ link = "up" /\ writes[Other] = <<>> /\ sendNonce < LastPing
    /\ writes' = [writes EXCEPT ![Other] = <<<<Byte(Other, 1)>>>>]
    /\ UNCHANGED <<link, ctrlMu, writeMu, sealed, sendNonce, recvNonce, wire, readBuf, inbox,
                   sent, received>>

Seal(w) ==
    /\ sealed' = [sealed EXCEPT ![w] =
           <<[nonce |-> sendNonce,
              bytes |-> SubSeq(writes[w][1], 1, Min({MaxChunk, Len(writes[w][1])}))]>>]
    /\ sendNonce' = sendNonce + 1

\* Mutant: Write does not hold writeMu.
EncryptAtOnce(w) ==
    /\ link = "up" /\ writes[w] # <<>> /\ sealed[w] = <<>>
    /\ Seal(w)
    /\ UNCHANGED <<link, ctrlMu, writeMu, writes, recvNonce, wire, readBuf, inbox, sent, received>>

\* Write, up to writeRaw: the next chunk is encrypted.
Encrypt(w) ==
    /\ link = "up" /\ writes[w] # <<>> /\ sealed[w] = <<>>
    /\ writeMu \in {Free, w} /\ writeMu' = w
    /\ Seal(w)
    /\ UNCHANGED <<link, ctrlMu, writes, recvNonce, wire, readBuf, inbox, sent, received>>

\* writeRaw, and the end of Write and of WriteFrame, or the next round of the loop.
WriteRaw(w) ==
    /\ link = "up" /\ sealed[w] # <<>>
    /\ LET rest == SubSeq(writes[w][1], Len(sealed[w][1].bytes) + 1, Len(writes[w][1]))
       IN /\ writes' = [writes EXCEPT ![w] = IF rest = <<>> THEN Tail(@)
                                             ELSE <<rest>> \o Tail(@)]
          /\ writeMu' = IF rest = <<>> /\ writeMu = w THEN Free ELSE writeMu
    /\ ctrlMu' = IF writes'[w] = <<>> /\ ctrlMu = w THEN Free ELSE ctrlMu
    /\ wire' = Append(wire, sealed[w][1])
    /\ sealed' = [sealed EXCEPT ![w] = <<>>]
    /\ UNCHANGED <<link, sendNonce, recvNonce, readBuf, inbox, sent, received>>

\* yamux hands on what belongs to the control stream.  What is sealed together is of
\* one Write, and so of one stream.
OfControl(bytes) == IF \E b \in Range(bytes) : b.frame = Other THEN <<>> ELSE bytes

Take(bytes, n) ==
    /\ inbox' = inbox \o OfControl(SubSeq(bytes, 1, Min({n, Len(bytes)})))
    /\ readBuf' = SubSeq(bytes, n + 1, Len(bytes))

\* Read(p) with len(p) = n: what is left of a message before the next one, whose
\* nonce must be the next.
Read(n) ==
    /\ link = "up"
    /\ \/ readBuf # <<>> /\ Take(readBuf, n) /\ UNCHANGED <<wire, recvNonce, link>>
       \/ /\ readBuf = <<>> /\ wire # <<>>
          /\ wire' = Tail(wire)
          /\ IF wire[1].nonce = recvNonce
             THEN /\ Take(wire[1].bytes, n)
                  /\ recvNonce' = recvNonce + 1 /\ UNCHANGED link
             ELSE link' = "down" /\ UNCHANGED <<recvNonce, inbox, readBuf>>
    /\ UNCHANGED <<ctrlMu, writeMu, writes, sealed, sendNonce, sent, received>>

\* The first byte tells the length; what follows is unmarshalled.
ReadFrame ==
    /\ link = "up" /\ inbox # <<>>
    /\ LET f == inbox[1].frame IN
        /\ Len(inbox) > Length[f]
        /\ received' = Append(received,
               IF SubSeq(inbox, 1, Length[f] + 1) = <<Byte(f, 0)>> \o Bytes(f) THEN f ELSE Garbled)
        /\ inbox' = SubSeq(inbox, Length[f] + 2, Len(inbox))
    /\ UNCHANGED <<link, ctrlMu, writeMu, writes, sealed, sendNonce, recvNonce, wire, readBuf, sent>>

\* What goroutines do without being asked.
ChannelRuns == \/ \E w \in Writers \cup {Other} : Encrypt(w) \/ WriteRaw(w)
               \/ \E n \in 1..MaxRead : Read(n)
               \/ ReadFrame

ChannelNext == \/ Handshake \/ Break \/ WriteOther \/ ChannelRuns
               \/ \E w \in Writers, f \in Frames : WriteFrame(w, f)

ChannelSpec == ChannelInit /\ [][ChannelNext]_channelVars
-----------------------------------------------------------------------------
\* Whatever is interleaved on one connection, its messages leave in the order of
\* their nonces: else the next Decrypt fails, and the tunnel with it.
NoncesInOrder == \A i \in DOMAIN wire : wire[i].nonce = recvNonce + i - 1

Fifo == INSTANCE FrameFIFO

\* Frames of concurrent writers do not mix, however their Writes are cut into
\* chunks and whatever the reader asks for at a time.
ImplementsFrameFIFO == Fifo!FifoSpec

\* While the connection lasts a sent frame arrives, and the mutex is passed on even
\* by a writer whose frame was refused: again and again nothing is under way.
FramesArrive == []<>(link = "up" => (ctrlMu = Free /\ sent = received))
=============================================================================
