--------------------------- MODULE Connection_proofs ---------------------------
(***************************************************************************)
(* What goes through a tunnel's connection, for any number of writers,     *)
(* frames and bytes: a visitor gets the whole of an answer, the sealed     *)
(* messages leave in the order of their nonces, and the frames in them     *)
(* arrive whole and in the order in which they were sent.  And when neither*)
(* can go on by itself, it is because it has done all that it had to do.   *)
(***************************************************************************)
EXTENDS NoiseChannel, StreamProxy, TLAPS

-----------------------------------------------------------------------------
(* A connection that is passed through.                                    *)

Loops == AtServer \cup AtClient

ProxyTypeOK ==
    /\ stage \in {"none", "opened", "accepted", "refused"}
    /\ data \in [Links -> Nat]
    /\ copying \subseteq Loops
    /\ wrote \in Nat

\* What the service wrote is on its way to the visitor.
BytesAreKept == data["out1"] + data["out2"] + data["out3"] = wrote

\* Nobody broke the connection off so far; once that is over, it is for good.
Undisturbed == session = "up" /\ "in1" \notin eof /\ "service" \notin cut /\ "hijack" \notin cut

NothingIsCut == Undisturbed => cut \cap {"in2", "out2", "out3"} = {}

UntilAccepted ==
    Undisturbed /\ stage \in {"none", "opened"} =>
        eof = {} /\ cut = {} /\ copying \cap AtClient = {} /\ wrote = 0
            /\ (stage = "opened" => "serverIn" \in copying)

\* The end of the answer comes from the service over the four loops in turn: each that
\* ended had handed everything on, and the loop for the other direction follows.
EndsInTurn ==
    Undisturbed /\ stage = "accepted" =>
        /\ "clientOut" \notin copying => data["out1"] = 0 /\ "out1" \in eof
        /\ "clientIn" \notin copying => "clientOut" \notin copying
        /\ "out2" \in eof \/ {"in3", "out1"} \cap cut # {} => "clientOut" \notin copying
        /\ "out3" \in eof => data["out2"] = 0 /\ "out2" \in eof /\ "serverOut" \notin copying
        /\ "in1" \in cut => "out3" \in eof
        /\ "serverIn" \notin copying \/ "in2" \in eof => "out3" \in eof

ProxyInv == ProxyTypeOK /\ BytesAreKept /\ NothingIsCut /\ UntilAccepted /\ EndsInTurn

LEMMA LoopsAndLinks ==
  ASSUME NEW g \in Loops
  PROVE  \/ g = "serverIn" /\ From[g] = "in1" /\ To[g] = "in2"
         \/ g = "clientIn" /\ From[g] = "in2" /\ To[g] = "in3"
         \/ g = "clientOut" /\ From[g] = "out1" /\ To[g] = "out2"
         \/ g = "serverOut" /\ From[g] = "out2" /\ To[g] = "out3"
BY DEF Loops, AtServer, AtClient, From, To

LEMMA MoveKeepsProxy ==
  ASSUME ProxyInv, NEW g \in Loops, Move(g)
  PROVE  ProxyInv'
<1> USE DEF ProxyInv, ProxyTypeOK, Links
<1>1. UNCHANGED <<stage, session, eof, cut, copying, stuck, wrote>>
  BY DEF Move
<1>2. /\ g \in copying /\ data[From[g]] > 0
      /\ data' = [data EXCEPT ![From[g]] = @ - 1, ![To[g]] = @ + 1]
  BY DEF Move
<1>3. data' \in [Links -> Nat] /\ BytesAreKept'
  BY <1>1, <1>2, LoopsAndLinks DEF BytesAreKept
<1>4. EndsInTurn'
  BY <1>1, <1>2, LoopsAndLinks DEF EndsInTurn, Undisturbed
<1> QED BY <1>1, <1>3, <1>4 DEF NothingIsCut, UntilAccepted, Undisturbed

LEMMA EndKeepsProxy ==
  ASSUME ProxyInv, NEW g \in Loops, CopyEnds(g)
  PROVE  ProxyInv'
<1> USE DEF ProxyInv, ProxyTypeOK, Links
<1>1. /\ g \in copying /\ Ends(g) /\ copying' = copying \ {g}
      /\ (g \in AtServer /\ ServerCloses(g)) \/ (g \in AtClient /\ ClientCloses(g))
      /\ UNCHANGED <<stage, session, data, wrote>>
  BY DEF CopyEnds
<1>2. ProxyTypeOK' /\ BytesAreKept'
  BY <1>1 DEF BytesAreKept
<1>3. /\ eof \subseteq eof' /\ cut \subseteq cut'
      /\ "in1" \in eof' => "in1" \in eof
      /\ \A l \in {"in2", "out2", "out3", "service", "hijack"} : l \in cut' => l \in cut
  BY <1>1 DEF ServerCloses, ClientCloses
<1>4. Undisturbed' => Undisturbed
  BY <1>1, <1>3 DEF Undisturbed
<1>5. NothingIsCut'
  BY <1>3, <1>4 DEF NothingIsCut
<1>6. UntilAccepted'
  BY <1>1, <1>4, LoopsAndLinks DEF UntilAccepted, Ends, NothingIsCut, AtServer, AtClient, ServerCloses, ClientCloses
<1>7. EndsInTurn'
  <2> SUFFICES ASSUME Undisturbed, stage = "accepted" PROVE EndsInTurn'
    BY <1>1, <1>4 DEF EndsInTurn
  <2>0. cut \cap {"in2", "out2", "out3"} = {} /\ "in1" \notin eof
    BY DEF NothingIsCut, Undisturbed
  <2>1. CASE g = "serverIn"
    BY <1>1, <2>0, <2>1, LoopsAndLinks DEF Ends, EndsInTurn, ServerCloses, AtServer, AtClient
  <2>2. CASE g = "serverOut"
    BY <1>1, <2>0, <2>2, LoopsAndLinks DEF Ends, EndsInTurn, ServerCloses, AtServer, AtClient
  <2>3. CASE g = "clientIn"
    BY <1>1, <2>0, <2>3, LoopsAndLinks DEF Ends, EndsInTurn, ClientCloses, AtServer, AtClient
  <2>4. CASE g = "clientOut"
    BY <1>1, <2>0, <2>4, LoopsAndLinks DEF Ends, EndsInTurn, ClientCloses, AtServer, AtClient
  <2> QED BY <2>1, <2>2, <2>3, <2>4 DEF Loops, AtServer, AtClient
<1> QED BY <1>2, <1>5, <1>6, <1>7

LEMMA ProxyStep ==
  ASSUME ProxyInv, [ProxyNext]_proxyVars
  PROVE  ProxyInv'
<1> USE DEF ProxyInv, ProxyTypeOK, Links
<1>1. ASSUME NEW request \in {0, 1}, Open(request) PROVE ProxyInv'
  <2>1. UNCHANGED <<session, stuck, wrote>> /\ stage = "none"
    BY <1>1 DEF Open
  <2>2. CASE /\ session = "up" /\ stage' = "opened"
             /\ data' = [data EXCEPT !["in2"] = request]
             /\ copying' = AtServer /\ UNCHANGED <<eof, cut>>
    <3>1. ProxyTypeOK' /\ BytesAreKept'
      BY <2>1, <2>2 DEF BytesAreKept, Loops
    <3>2. NothingIsCut' /\ UntilAccepted' /\ EndsInTurn'
      BY <2>1, <2>2 DEF NothingIsCut, UntilAccepted, EndsInTurn, Undisturbed, AtServer, AtClient
    <3> QED BY <3>1, <3>2
  <2>3. CASE session # "up" /\ stage' = "refused" /\ UNCHANGED <<data, copying>>
    BY <2>1, <2>3 DEF BytesAreKept, NothingIsCut, UntilAccepted, EndsInTurn, Undisturbed
  <2> QED BY <1>1, <2>2, <2>3 DEF Open
<1>2. CASE AcceptStream
  BY <1>2 DEF AcceptStream, BytesAreKept, NothingIsCut, UntilAccepted, EndsInTurn, Undisturbed,
     Loops, AtServer, AtClient
<1>3. CASE StreamOpenTimeout \/ SessionBreaks
  BY <1>3 DEF StreamOpenTimeout, SessionBreaks, BytesAreKept, NothingIsCut, UntilAccepted,
     EndsInTurn, Undisturbed
<1>4. CASE Visitor
  <2>1. BytesAreKept' /\ ProxyTypeOK'
    BY <1>4 DEF Visitor, BytesAreKept
  <2>2. CASE "in1" \in eof'
    BY <2>1, <2>2 DEF NothingIsCut, UntilAccepted, EndsInTurn, Undisturbed
  <2>3. CASE UNCHANGED <<eof, cut>> /\ data' = [data EXCEPT !["in1"] = @ + 1]
    BY <1>4, <2>1, <2>3 DEF Visitor, NothingIsCut, UntilAccepted, EndsInTurn, Undisturbed
  <2> QED BY <1>4, <2>2, <2>3 DEF Visitor
<1>5. CASE Service
  <2>1. BytesAreKept' /\ ProxyTypeOK'
    BY <1>5 DEF Service, BytesAreKept
  <2>2. NothingIsCut' /\ UntilAccepted'
    BY <1>5 DEF Service, NothingIsCut, UntilAccepted, Undisturbed
  <2>3. EndsInTurn'
    BY <1>5 DEF Service, EndsInTurn, Undisturbed
  <2> QED BY <2>1, <2>2, <2>3
<1>6. CASE UNCHANGED proxyVars
  BY <1>6 DEF proxyVars, BytesAreKept, NothingIsCut, UntilAccepted, EndsInTurn, Undisturbed
<1>7. CASE HijackFails
  BY <1>7 DEF HijackFails, BytesAreKept, NothingIsCut, UntilAccepted, EndsInTurn, Undisturbed
<1> QED BY <1>1, <1>2, <1>3, <1>4, <1>5, <1>6, <1>7, MoveKeepsProxy, EndKeepsProxy
        DEF ProxyNext, ProxyRuns, handleConn, handleWebSocketProxy, Loops

LEMMA ProxyInvariance == ProxySpec => []ProxyInv
<1>1. ProxyInit => ProxyInv
  BY DEF ProxyInit, ProxyInv, ProxyTypeOK, BytesAreKept, NothingIsCut, UntilAccepted, EndsInTurn,
     Undisturbed, Links, Loops, AtServer, AtClient
<1> QED BY <1>1, ProxyStep, PTL DEF ProxySpec

\* A visitor that stays gets the whole of an answer whose end the service marks,
\* whatever the order in which the four loops move bytes and end.
THEOREM AnswerArrivesWhole == ProxySpec => []WholeAnswer
<1>1. ProxyInv => WholeAnswer
  BY DEF ProxyInv, ProxyTypeOK, BytesAreKept, EndsInTurn, Undisturbed, WholeAnswer, Links
<1> QED BY <1>1, ProxyInvariance, PTL

\* No guard of ProxyRuns holds: no loop has anything to move or a reason to end, and no
\* stream waits to be accepted or given up.
LoopsRest ==
    /\ \A g \in copying : ~Ends(g) /\ ~(data[From[g]] > 0 /\ {From[g], To[g]} \cap cut = {})
    /\ ~(stage = "opened" /\ session = "up")

SomebodyLeft == ({"in1", "out1"} \cap eof # {} /\ TCPForward) \/ session # "up"

\* Where a loop ended the next link is closed, and so are both of the client's sides
\* behind its first loop.
ClosesGoRound ==
    /\ stage = "none" => copying = {}
    /\ stage # "accepted" => copying \cap AtClient = {}
    /\ session # "up" => {"in2", "out2"} \subseteq cut
    /\ stage = "refused" /\ copying # {} => "out2" \in eof
    /\ stage \in {"opened", "accepted"} \/ copying # {} =>
          /\ "serverIn" \notin copying => "in2" \in eof
          /\ "serverOut" \notin copying => "in1" \in cut
    /\ stage = "accepted" /\ ~(AtClient \subseteq copying) => "out2" \in eof /\ "out1" \in cut

LEMMA ClosesStep ==
  ASSUME ProxyInv, ClosesGoRound, [ProxyNext]_proxyVars
  PROVE  ClosesGoRound'
<1> USE DEF ClosesGoRound, AtServer, AtClient
<1>1. ASSUME NEW request \in {0, 1}, Open(request) PROVE ClosesGoRound'
  BY <1>1 DEF Open
<1>2. CASE AcceptStream
  BY <1>2 DEF AcceptStream
<1>3. ASSUME NEW g \in Loops, Move(g) PROVE ClosesGoRound'
  BY <1>3 DEF Move
<1>4. ASSUME NEW g \in Loops, CopyEnds(g) PROVE ClosesGoRound'
  <2>1. CASE g \in AtServer
    BY <1>4, <2>1 DEF CopyEnds, ServerCloses, ProxyInv, ProxyTypeOK
  <2>2. CASE g \in AtClient
    BY <1>4, <2>2 DEF CopyEnds, ClientCloses, ProxyInv, ProxyTypeOK
  <2> QED BY <2>1, <2>2 DEF Loops
<1>5. CASE StreamOpenTimeout \/ SessionBreaks
  BY <1>5 DEF StreamOpenTimeout, SessionBreaks
<1>6. CASE Visitor
  BY <1>6 DEF Visitor
<1>7. CASE Service
  BY <1>7 DEF Service
<1>8. CASE UNCHANGED proxyVars
  BY <1>8 DEF proxyVars
<1>9. CASE HijackFails
  BY <1>9 DEF HijackFails
<1> QED BY <1>1, <1>2, <1>3, <1>4, <1>5, <1>6, <1>7, <1>8, <1>9
        DEF ProxyNext, ProxyRuns, handleConn, handleWebSocketProxy, Loops

\* When somebody left and nothing can run, no loop is left copying: there is no way
\* round in which the loops wait for each other, whoever left first and however.
THEOREM NoLoopIsLeftCopying == ProxySpec => [](LoopsRest /\ SomebodyLeft => copying = {})
<1>1. ProxyInit => ClosesGoRound
  BY DEF ProxyInit, ClosesGoRound, AtServer, AtClient
<1>2. ProxyInv /\ ClosesGoRound /\ [ProxyNext]_proxyVars => ClosesGoRound'
  BY ClosesStep
<1>3. ASSUME ProxyInv, ClosesGoRound, LoopsRest, SomebodyLeft PROVE copying = {}
  <2>1. ASSUME NEW g \in copying PROVE /\ From[g] \notin cut /\ From[g] \notin eof
    <3>1. /\ g \in Loops /\ From[g] \in Links /\ data[From[g]] \in Nat
      BY <1>3, LoopsAndLinks DEF ProxyInv, ProxyTypeOK, Links
    <3>2. /\ From[g] \notin cut /\ ~(data[From[g]] = 0 /\ From[g] \in eof)
          /\ ~(data[From[g]] > 0 /\ To[g] \in cut)
          /\ ~(data[From[g]] > 0 /\ {From[g], To[g]} \cap cut = {})
      BY <1>3, <2>1 DEF LoopsRest, Ends
    <3>3. ~(data[From[g]] > 0)
      BY Zenon, <3>2
    <3> QED BY <3>1, <3>2, <3>3
  <2>2. /\ "serverIn" \in copying => "in1" \notin eof /\ "in1" \notin cut
        /\ "clientIn" \in copying => "in2" \notin eof /\ "in2" \notin cut
        /\ "clientOut" \in copying => "out1" \notin eof /\ "out1" \notin cut
        /\ "serverOut" \in copying => "out2" \notin eof /\ "out2" \notin cut
    BY <2>1 DEF From
  <2>3. copying \subseteq {"serverIn", "serverOut", "clientIn", "clientOut"}
        /\ stage \in {"none", "opened", "accepted", "refused"}
    BY <1>3 DEF ProxyInv, ProxyTypeOK, Loops, AtServer, AtClient
  <2>4. CASE session # "up"
    BY <1>3, <2>2, <2>3, <2>4 DEF ClosesGoRound, AtClient
  <2>5. CASE session = "up"
    <3>1. {"in1", "out1"} \cap eof # {} /\ stage # "opened"
      BY <1>3, <2>5 DEF SomebodyLeft, LoopsRest
    <3>2. CASE stage = "accepted"
      BY <1>3, <2>2, <2>3, <3>1, <3>2 DEF ClosesGoRound, AtClient
    <3>3. CASE stage = "refused"
      BY <1>3, <2>2, <2>3, <3>3 DEF ClosesGoRound, AtClient
    <3> QED BY <1>3, <2>3, <3>1, <3>2, <3>3 DEF ClosesGoRound
  <2> QED BY <2>4, <2>5
<1> QED BY <1>1, <1>2, <1>3, ProxyInvariance, PTL DEF ProxySpec
-----------------------------------------------------------------------------
(* The encrypted connection: what its parts are.                           *)

AllWriters == Writers \cup {Other}
ControlByte == [frame : Frames, at : Nat]
OtherByte == [frame : {Other}, at : Nat]
AnyByte == ControlByte \cup OtherByte
Message == [nonce : Nat, bytes : Seq(AnyByte)]

\* What a writer hands to one Write.
BytesOf(w) == IF w = Other THEN OtherByte ELSE ControlByte
Written(w) == Seq(BytesOf(w)) \ {<<>>}

OneStream(bytes) == bytes \in Seq(ControlByte) \/ bytes \in Seq(OtherByte)

ChannelTypeOK ==
    /\ ctrlMu \in Writers \cup {Free}
    /\ DOMAIN writes = AllWriters /\ writes = [w \in AllWriters |-> writes[w]]
    /\ \A w \in AllWriters : writes[w] \in Seq(Written(w)) /\ Len(writes[w]) <= 2
    /\ sealed \in [AllWriters -> {<<>>} \cup {<<m>> : m \in Message}]
    /\ sendNonce \in Nat /\ recvNonce \in Nat
    /\ wire \in Seq(Message) /\ \A i \in 1..Len(wire) : OneStream(wire[i].bytes)
    /\ readBuf \in Seq(AnyByte) /\ OneStream(readBuf)
    /\ inbox \in Seq(ControlByte)
    /\ sent \in Seq(Frames) /\ received \in Seq(Frames \cup {Garbled})

\* The mutex of the control stream is held by the writer that has something to write.
WritersTakeTurns == \A w \in Writers : writes[w] # <<>> <=> ctrlMu = w

\* What is encrypted is the beginning of what its writer writes.
SealedIsBeginning ==
    \A w \in AllWriters : sealed[w] # <<>> =>
        writes[w] # <<>> /\ \E n \in 1..Len(writes[w][1]) :
                                sealed[w][1].bytes = SubSeq(writes[w][1], 1, n)

\* Who has encrypted a message holds writeMu until it is on the wire.
NonceIsNext ==
    /\ \A w \in AllWriters : sealed[w] # <<>> =>
          /\ writeMu = w
          /\ sealed[w][1].nonce = recvNonce + Len(wire)
          /\ sendNonce = recvNonce + Len(wire) + 1
    /\ (\A w \in AllWriters : sealed[w] = <<>>) => sendNonce = recvNonce + Len(wire)

ChannelInv == /\ ChannelTypeOK /\ WritersTakeTurns /\ SealedIsBeginning
              /\ NonceIsNext /\ NoncesInOrder

LEMMA MinOfTwo ==
  ASSUME NEW a \in Int, NEW b \in Int
  PROVE  Min({a, b}) = IF a <= b THEN a ELSE b
BY DEF Min

LEMMA HasFirst ==
  ASSUME NEW S, NEW s \in Seq(S), s # <<>>
  PROVE  Len(s) \in Nat \ {0} /\ s[1] \in S /\ Tail(s) \in Seq(S) /\ Len(Tail(s)) = Len(s) - 1
OBVIOUS

LEMMA ControlPart ==
  ASSUME NEW bytes, OneStream(bytes)
  PROVE  /\ OfControl(bytes) \in Seq(ControlByte)
         /\ OfControl(bytes) = IF bytes \in Seq(ControlByte) THEN bytes ELSE <<>>
<1>1. /\ \A b \in ControlByte : b.frame # Other
      /\ \A b \in OtherByte : b.frame = Other
  BY ChannelAssumption DEF ControlByte, OtherByte
<1>2. CASE bytes \in Seq(ControlByte)
  <2>1. ASSUME NEW b \in Range(bytes) PROVE b.frame # Other
    <3>1. PICK i \in DOMAIN bytes : b = bytes[i]
      BY DEF Range
    <3>2. bytes[i] \in ControlByte
      BY <1>2
    <3> QED BY <1>1, <3>1, <3>2
  <2> QED BY <1>2, <2>1 DEF OfControl
<1>3. CASE bytes \in Seq(OtherByte) /\ bytes \notin Seq(ControlByte)
  <2>1. bytes # <<>>
    BY <1>3
  <2>2. 1 \in DOMAIN bytes /\ bytes[1] \in OtherByte
    BY <1>3, <2>1
  <2>3. \E b \in Range(bytes) : b.frame = Other
    BY <1>1, <2>2 DEF Range
  <2> QED BY <1>3, <2>3 DEF OfControl
<1> QED BY <1>2, <1>3 DEF OneStream

LEMMA ByteKinds ==
  /\ ControlByte \subseteq AnyByte /\ OtherByte \subseteq AnyByte
  /\ \A w \in AllWriters : BytesOf(w) \subseteq AnyByte
  /\ \A w \in AllWriters : BytesOf(w) \in {ControlByte, OtherByte}
  /\ \A w \in Writers : BytesOf(w) = ControlByte
BY ChannelAssumption DEF AnyByte, BytesOf

\* The Write that a writer is at.
LEMMA FirstWrite ==
  ASSUME ChannelTypeOK, NEW w \in AllWriters, writes[w] # <<>>
  PROVE  /\ writes[w] \in Seq(Written(w)) /\ Len(writes[w]) \in 1..2
         /\ writes[w][1] \in Written(w) /\ writes[w][1] \in Seq(BytesOf(w))
         /\ Len(writes[w][1]) \in Nat \ {0}
         /\ Tail(writes[w]) \in Seq(Written(w)) /\ Len(Tail(writes[w])) = Len(writes[w]) - 1
<1>1. writes[w] \in Seq(Written(w)) /\ Len(writes[w]) <= 2
  BY DEF ChannelTypeOK
<1>2. /\ Len(writes[w]) \in Nat \ {0} /\ writes[w][1] \in Written(w)
      /\ Tail(writes[w]) \in Seq(Written(w)) /\ Len(Tail(writes[w])) = Len(writes[w]) - 1
  BY <1>1, HasFirst
<1>3. writes[w][1] \in Seq(BytesOf(w)) /\ writes[w][1] # <<>>
  BY <1>2 DEF Written
<1>4. Len(writes[w][1]) \in Nat \ {0}
  BY <1>3, HasFirst
<1>5. Len(writes[w]) \in 1..2
  <2> DEFINE l == Len(writes[w])
  <2>1. l <= 2
    BY <1>1
  <2>2. l \in Nat \ {0}
    BY <1>2
  <2> HIDE DEF l
  <2>3. l \in 1..2
    BY <2>1, <2>2
  <2> QED BY <2>3 DEF l
<1> QED BY <1>1, <1>2, <1>3, <1>4, <1>5

\* Cutting a sequence in two.
LEMMA CutInTwo ==
  ASSUME NEW S, NEW s \in Seq(S), NEW n \in 0..Len(s)
  PROVE  /\ SubSeq(s, 1, n) \in Seq(S) /\ Len(SubSeq(s, 1, n)) = n
         /\ \A j \in 1..n : SubSeq(s, 1, n)[j] = s[j]
         /\ SubSeq(s, n + 1, Len(s)) \in Seq(S) /\ Len(SubSeq(s, n + 1, Len(s))) = Len(s) - n
         /\ \A j \in 1..Len(s) - n : SubSeq(s, n + 1, Len(s))[j] = s[n + j]
OBVIOUS

LEMMA EncryptKeepsChannel ==
  ASSUME ChannelInv, NEW w \in AllWriters, Encrypt(w)
  PROVE  ChannelInv'
<1> USE DEF ChannelInv
<1>1. /\ writes[w] # <<>> /\ sealed[w] = <<>> /\ writeMu \in {Free, w} /\ writeMu' = w
      /\ UNCHANGED <<link, ctrlMu, writes, recvNonce, wire, readBuf, inbox, sent, received>>
      /\ sendNonce' = sendNonce + 1
  BY DEF Encrypt, Seal
<1> DEFINE first == writes[w][1]
           n == Min({MaxChunk, Len(first)})
           chunk == SubSeq(first, 1, n)
<1>2. first \in Seq(BytesOf(w)) /\ Len(first) \in Nat \ {0}
  BY <1>1, FirstWrite
<1>3. n \in 1..Len(first)
  BY <1>2, MinOfTwo, ChannelAssumption
<1>4. sealed' = [sealed EXCEPT ![w] = <<[nonce |-> sendNonce, bytes |-> chunk]>>]
  BY DEF Encrypt, Seal
<1> HIDE DEF first, n
<1>5. chunk \in Seq(BytesOf(w))
  BY <1>2, <1>3
<1>6. chunk \in Seq(AnyByte)
  BY <1>5, ByteKinds
<1> HIDE DEF chunk
<1>7. [nonce |-> sendNonce, bytes |-> chunk] \in Message
  BY <1>6 DEF Message, ChannelTypeOK
<1>8. ChannelTypeOK' /\ WritersTakeTurns' /\ NoncesInOrder'
  BY <1>1, <1>4, <1>7 DEF ChannelTypeOK, WritersTakeTurns, NoncesInOrder
<1>9. SealedIsBeginning'
  BY <1>1, <1>3, <1>4 DEF ChannelTypeOK, SealedIsBeginning, chunk, first
<1>10. \A x \in AllWriters : sealed[x] = <<>>
  BY <1>1, ChannelAssumption DEF NonceIsNext, AllWriters
<1>11. NonceIsNext'
  BY <1>1, <1>4, <1>10 DEF NonceIsNext, ChannelTypeOK
<1> QED BY <1>8, <1>9, <1>11

LEMMA WriteRawKeepsChannel ==
  ASSUME ChannelInv, NEW w \in AllWriters, WriteRaw(w)
  PROVE  ChannelInv'
<1> USE DEF ChannelInv
<1> DEFINE first == writes[w][1]
           rest == SubSeq(first, Len(sealed[w][1].bytes) + 1, Len(first))
<1>1. /\ sealed[w] # <<>>
      /\ writes' = [writes EXCEPT ![w] = IF rest = <<>> THEN Tail(@) ELSE <<rest>> \o Tail(@)]
      /\ writeMu' = IF rest = <<>> /\ writeMu = w THEN Free ELSE writeMu
      /\ ctrlMu' = IF writes'[w] = <<>> /\ ctrlMu = w THEN Free ELSE ctrlMu
      /\ wire' = Append(wire, sealed[w][1])
      /\ sealed' = [sealed EXCEPT ![w] = <<>>]
      /\ UNCHANGED <<link, sendNonce, recvNonce, readBuf, inbox, sent, received>>
  BY DEF WriteRaw
<1>2. writes[w] # <<>>
  BY <1>1 DEF SealedIsBeginning
<1>3. PICK n \in 1..Len(first) : sealed[w][1].bytes = SubSeq(first, 1, n)
  BY <1>1 DEF SealedIsBeginning
<1>4. /\ writes[w] \in Seq(Written(w)) /\ Len(writes[w]) \in 1..2
      /\ first \in Seq(BytesOf(w)) /\ Len(first) \in Nat \ {0}
  BY <1>2, FirstWrite
<1>5. /\ SubSeq(first, 1, n) \in Seq(BytesOf(w)) /\ Len(SubSeq(first, 1, n)) = n
      /\ SubSeq(first, n + 1, Len(first)) \in Seq(BytesOf(w))
  <2> HIDE DEF first
  <2> QED BY <1>3, <1>4
<1>6. rest \in Seq(BytesOf(w))
  BY <1>3, <1>5
<1> HIDE DEF rest
<1>7. rest # <<>> => rest \in Written(w)
  BY <1>6 DEF Written
<1>8. OneStream(sealed[w][1].bytes) /\ sealed[w][1] \in Message
  <2>1. OneStream(sealed[w][1].bytes)
    BY <1>3, <1>5, ByteKinds DEF OneStream
  <2>2. sealed[w] \in {<<m>> : m \in Message}
    BY <1>1 DEF ChannelTypeOK
  <2> QED BY <2>1, <2>2
<1>9. /\ writes'[w] = IF rest = <<>> THEN Tail(writes[w]) ELSE <<rest>> \o Tail(writes[w])
      /\ \A x \in AllWriters \ {w} : writes'[x] = writes[x]
      /\ DOMAIN writes' = AllWriters /\ writes' = [x \in AllWriters |-> writes'[x]]
  <2> DEFINE next == IF rest = <<>> THEN Tail(writes[w]) ELSE <<rest>> \o Tail(writes[w])
  <2>1. writes' = [writes EXCEPT ![w] = next] /\ DOMAIN writes = AllWriters
    BY <1>1 DEF ChannelTypeOK
  <2> HIDE DEF next
  <2>2. /\ DOMAIN writes' = AllWriters /\ writes' = [x \in AllWriters |-> writes'[x]]
        /\ writes'[w] = next /\ \A x \in AllWriters \ {w} : writes'[x] = writes[x]
    BY <2>1
  <2> QED BY <2>2 DEF next
<1>10. Tail(writes[w]) \in Seq(Written(w)) /\ Len(Tail(writes[w])) \in 0..1
  <2>1. /\ Tail(writes[w]) \in Seq(Written(w)) /\ Len(Tail(writes[w])) = Len(writes[w]) - 1
        /\ Len(writes[w]) \in 1..2
    BY <1>2, FirstWrite
  <2> QED BY <2>1
<1>11. writes'[w] \in Seq(Written(w)) /\ Len(writes'[w]) <= 2
  <2>1. CASE rest = <<>>
    BY <1>9, <1>10, <2>1
  <2>2. CASE rest # <<>>
    <3>1. writes'[w] = <<rest>> \o Tail(writes[w]) /\ rest \in Written(w)
      BY <1>7, <1>9, <2>2
    <3> HIDE DEF first
    <3> QED BY <1>10, <3>1
  <2> QED BY <2>1, <2>2
<1>12. wire \in Seq(Message) /\ wire' \in Seq(Message) /\ Len(wire') = Len(wire) + 1
       /\ wire'[Len(wire) + 1] = sealed[w][1] /\ \A i \in 1..Len(wire) : wire'[i] = wire[i]
  BY <1>1, <1>8 DEF ChannelTypeOK
<1>13. \A i \in 1..Len(wire') : OneStream(wire'[i].bytes)
  <2> SUFFICES ASSUME NEW i \in 1..Len(wire') PROVE OneStream(wire'[i].bytes)
    OBVIOUS
  <2>1. CASE i = Len(wire) + 1
    BY <1>8, <1>12, <2>1
  <2>2. CASE i # Len(wire) + 1
    <3>1. Len(wire) \in Nat
      BY <1>12
    <3>2. i \in 1..Len(wire)
      BY <1>12, <2>2, <3>1
    <3> QED BY <1>12, <3>2 DEF ChannelTypeOK
  <2> QED BY <2>1, <2>2
<1>14. ctrlMu' \in Writers \cup {Free}
  BY <1>1 DEF ChannelTypeOK
<1>15. sealed' \in [AllWriters -> {<<>>} \cup {<<m>> : m \in Message}]
  BY <1>1 DEF ChannelTypeOK
<1>16. ChannelTypeOK'
  <2>1. \A x \in AllWriters : writes'[x] \in Seq(Written(x)) /\ Len(writes'[x]) <= 2
    BY <1>9, <1>11 DEF ChannelTypeOK
  <2> QED BY <1>1, <1>9, <1>12, <1>13, <1>14, <1>15, <2>1 DEF ChannelTypeOK
<1>17. WritersTakeTurns'
  <2>1. ASSUME NEW x \in Writers PROVE writes'[x] # <<>> <=> ctrlMu' = x
    <3>1. CASE x = w
      BY <1>1, <1>2, <3>1, ChannelAssumption DEF WritersTakeTurns
    <3>2. CASE x # w
      BY <1>1, <1>2, <1>9, <3>2, ChannelAssumption DEF WritersTakeTurns, AllWriters
    <3> QED BY <3>1, <3>2
  <2> QED BY <2>1 DEF WritersTakeTurns
<1>18. /\ \A x \in AllWriters : sealed'[x] = <<>>
       /\ sealed[w][1].nonce = recvNonce + Len(wire) /\ sendNonce = recvNonce + Len(wire) + 1
  <2>1. /\ writeMu = w /\ sealed[w][1].nonce = recvNonce + Len(wire)
        /\ sendNonce = recvNonce + Len(wire) + 1
    BY <1>1 DEF NonceIsNext
  <2>2. \A x \in AllWriters \ {w} : sealed[x] = <<>>
    BY <2>1 DEF NonceIsNext
  <2>3. \A x \in AllWriters : sealed'[x] = IF x = w THEN <<>> ELSE sealed[x]
    BY <1>1 DEF ChannelTypeOK
  <2> QED BY <2>1, <2>2, <2>3
<1>19. SealedIsBeginning'
  BY <1>18 DEF SealedIsBeginning
<1>20. Len(wire) \in Nat /\ recvNonce \in Nat
  BY <1>12 DEF ChannelTypeOK
<1>21. NonceIsNext'
  BY <1>1, <1>12, <1>18, <1>20 DEF NonceIsNext
<1>22. NoncesInOrder'
  <2> SUFFICES ASSUME NEW i \in 1..Len(wire) + 1 PROVE wire'[i].nonce = recvNonce + i - 1
    BY <1>1, <1>12 DEF NoncesInOrder
  <2>1. CASE i = Len(wire) + 1
    BY <1>12, <1>18, <1>20, <2>1
  <2>2. CASE i # Len(wire) + 1
    <3>1. i \in 1..Len(wire) /\ i \in DOMAIN wire
      BY <1>12, <1>20, <2>2
    <3> QED BY <1>12, <3>1 DEF NoncesInOrder
  <2> QED BY <2>1, <2>2
<1> QED BY <1>16, <1>17, <1>19, <1>21, <1>22

\* A frame is a byte of length and the bytes of its body.
LEMMA FrameIsWritten ==
  ASSUME NEW f \in Frames, NEW w \in Writers
  PROVE  /\ <<Byte(f, 0)>> \in Written(w) /\ Bytes(f) \in Written(w)
         /\ Len(Bytes(f)) = Length[f] /\ Length[f] \in Nat \ {0}
         /\ \A i \in 1..Length[f] : Bytes(f)[i] = Byte(f, i)
         /\ <<<<Byte(f, 0)>>, Bytes(f)>> \in Seq(Written(w))
         /\ Len(<<<<Byte(f, 0)>>, Bytes(f)>>) = 2
<1>1. Length[f] \in Nat \ {0} /\ w # Other
  BY ChannelAssumption
<1>2. \A i \in Nat : Byte(f, i) \in ControlByte
  BY DEF Byte, ControlByte
<1>3. BytesOf(w) = ControlByte
  BY <1>1 DEF BytesOf
<1>4. <<Byte(f, 0)>> \in Written(w)
  BY <1>2, <1>3 DEF Written
<1>5. /\ Bytes(f) \in Seq(ControlByte) /\ Len(Bytes(f)) = Length[f]
      /\ \A i \in 1..Length[f] : Bytes(f)[i] = Byte(f, i)
  BY <1>1, <1>2 DEF Bytes
<1>6. Bytes(f) \in Written(w)
  BY <1>1, <1>3, <1>5 DEF Written
<1> QED BY <1>1, <1>4, <1>5, <1>6

LEMMA WriteFrameKeepsChannel ==
  ASSUME ChannelInv, NEW w \in Writers, NEW f \in Frames, WriteFrame(w, f)
  PROVE  ChannelInv'
<1> USE DEF ChannelInv
<1>1. ctrlMu = Free
      /\ UNCHANGED <<link, writeMu, sealed, sendNonce, recvNonce, wire, readBuf, inbox, received>>
  BY DEF WriteFrame
<1>2. CASE UNCHANGED <<ctrlMu, writes, sent>>
  BY <1>1, <1>2 DEF ChannelTypeOK, WritersTakeTurns, SealedIsBeginning, NonceIsNext, NoncesInOrder
<1>3. CASE /\ ctrlMu' = w
           /\ writes' = [writes EXCEPT ![w] = <<<<Byte(f, 0)>>, Bytes(f)>>]
           /\ sent' = Append(sent, f)
  <2> DEFINE new == <<<<Byte(f, 0)>>, Bytes(f)>>
  <2>1. w \in AllWriters /\ new \in Seq(Written(w)) /\ Len(new) = 2
    BY FrameIsWritten DEF AllWriters
  <2> HIDE DEF new
  <2>2. new # <<>>
    BY <2>1
  <2>3. /\ DOMAIN writes' = AllWriters /\ writes' = [x \in AllWriters |-> writes'[x]]
        /\ writes'[w] = new /\ \A x \in AllWriters \ {w} : writes'[x] = writes[x]
    BY <1>3, <2>1 DEF ChannelTypeOK, new
  <2>4. writes[w] = <<>> /\ \A x \in Writers : writes[x] = <<>>
    BY <1>1, ChannelAssumption DEF WritersTakeTurns
  <2>5. sent' \in Seq(Frames) /\ ctrlMu' \in Writers \cup {Free}
    BY <1>3 DEF ChannelTypeOK
  <2>6. ASSUME NEW x \in AllWriters PROVE writes'[x] \in Seq(Written(x)) /\ Len(writes'[x]) <= 2
    <3>1. CASE x = w
      <4>1. writes'[w] \in Seq(Written(w)) /\ Len(writes'[w]) = 2
        BY <2>1, <2>3
      <4>2. Len(writes'[w]) <= 2
        BY <4>1
      <4> QED BY <3>1, <4>1, <4>2, Zenon
    <3>2. CASE x # w
      <4>1. writes[x] \in Seq(Written(x)) /\ Len(writes[x]) <= 2
        BY DEF ChannelTypeOK
      <4> QED BY <2>3, <3>2, <4>1
    <3> QED BY <3>1, <3>2
  <2>7. ChannelTypeOK'
    BY <1>1, <2>3, <2>5, <2>6 DEF ChannelTypeOK
  <2>8. WritersTakeTurns'
    BY <1>3, <2>2, <2>3, <2>4, ChannelAssumption DEF WritersTakeTurns, AllWriters
  <2>9. SealedIsBeginning'
    <3> SUFFICES ASSUME NEW x \in AllWriters, sealed[x] # <<>> PROVE writes'[x] = writes[x]
      BY <1>1 DEF SealedIsBeginning
    <3>1. x # w
      BY <2>4 DEF SealedIsBeginning
    <3> QED BY <2>3, <3>1
  <2>10. NonceIsNext' /\ NoncesInOrder'
    BY <1>1 DEF NonceIsNext, NoncesInOrder
  <2> QED BY <2>7, <2>8, <2>9, <2>10
<1> QED BY <1>2, <1>3 DEF WriteFrame

LEMMA WriteOtherKeepsChannel ==
  ASSUME ChannelInv, WriteOther
  PROVE  ChannelInv'
<1> USE DEF ChannelInv
<1> DEFINE new == <<<<Byte(Other, 1)>>>>
<1>1. /\ writes[Other] = <<>> /\ writes' = [writes EXCEPT ![Other] = new]
      /\ UNCHANGED <<link, ctrlMu, writeMu, sealed, sendNonce, recvNonce, wire, readBuf, inbox,
                     sent, received>>
  BY DEF WriteOther
<1>2. new \in Seq(Written(Other)) /\ Len(new) = 1 /\ Other \in AllWriters
  <2>1. <<Byte(Other, 1)>> \in Written(Other)
    BY DEF Written, BytesOf, OtherByte, Byte
  <2> QED BY <2>1 DEF AllWriters
<1> HIDE DEF new
<1>3. /\ DOMAIN writes' = AllWriters /\ writes' = [x \in AllWriters |-> writes'[x]]
      /\ writes'[Other] = new /\ \A x \in AllWriters \ {Other} : writes'[x] = writes[x]
  BY <1>1, <1>2 DEF ChannelTypeOK
<1>4. ASSUME NEW x \in AllWriters PROVE writes'[x] \in Seq(Written(x)) /\ Len(writes'[x]) <= 2
  <2>1. CASE x = Other
    <3>1. writes'[Other] \in Seq(Written(Other)) /\ Len(writes'[Other]) = 1
      BY <1>2, <1>3
    <3>2. Len(writes'[Other]) <= 2
      BY <3>1
    <3> QED BY <2>1, <3>1, <3>2, Zenon
  <2>2. CASE x # Other
    <3>1. writes[x] \in Seq(Written(x)) /\ Len(writes[x]) <= 2
      BY DEF ChannelTypeOK
    <3> QED BY <1>3, <2>2, <3>1
  <2> QED BY <2>1, <2>2
<1>5. ChannelTypeOK'
  BY <1>1, <1>3, <1>4 DEF ChannelTypeOK
<1>6. WritersTakeTurns'
  BY <1>1, <1>3, ChannelAssumption DEF WritersTakeTurns, AllWriters
<1>7. SealedIsBeginning'
  BY <1>1, <1>3 DEF SealedIsBeginning
<1>8. NonceIsNext' /\ NoncesInOrder'
  BY <1>1 DEF NonceIsNext, NoncesInOrder
<1> QED BY <1>5, <1>6, <1>7, <1>8

\* What Read hands on and what it keeps of one stream's bytes.
LEMMA TakenParts ==
  ASSUME NEW bytes, OneStream(bytes), NEW n \in Nat \ {0}
  PROVE  LET first == SubSeq(bytes, 1, Min({n, Len(bytes)}))
             rest == SubSeq(bytes, n + 1, Len(bytes))
         IN /\ OneStream(rest) /\ rest \in Seq(AnyByte)
            /\ OfControl(first) \in Seq(ControlByte) /\ OfControl(rest) \in Seq(ControlByte)
            /\ \E m \in 0..Len(OfControl(bytes)) :
                  /\ OfControl(first) = SubSeq(OfControl(bytes), 1, m)
                  /\ OfControl(rest) = SubSeq(OfControl(bytes), m + 1, Len(OfControl(bytes)))
<1> DEFINE first == SubSeq(bytes, 1, Min({n, Len(bytes)}))
           rest == SubSeq(bytes, n + 1, Len(bytes))
           k == Min({n, Len(bytes)})
<1>1. Len(bytes) \in Nat /\ k \in 0..Len(bytes) /\ (n <= Len(bytes) => k = n)
      /\ (n > Len(bytes) => k = Len(bytes))
  <2>1. Len(bytes) \in Nat
    BY DEF OneStream
  <2> QED BY <2>1, MinOfTwo
<1>2. ASSUME NEW B, bytes \in Seq(B)
      PROVE  /\ first \in Seq(B) /\ Len(first) = k /\ rest \in Seq(B)
             /\ rest = SubSeq(bytes, k + 1, Len(bytes))
  <2> HIDE DEF k
  <2>1. SubSeq(bytes, 1, k) \in Seq(B) /\ Len(SubSeq(bytes, 1, k)) = k
    BY <1>1, <1>2
  <2>2. rest = SubSeq(bytes, k + 1, Len(bytes))
    <3>1. CASE n <= Len(bytes)
      BY <1>1, <3>1
    <3>2. CASE n > Len(bytes)
      BY <1>1, <1>2, <3>2
    <3> QED BY <1>1, <3>1, <3>2
  <2>3. SubSeq(bytes, k + 1, Len(bytes)) \in Seq(B)
    BY <1>1, <1>2
  <2> QED BY <2>1, <2>2, <2>3 DEF k
<1> HIDE DEF first, rest, k
<1>3. CASE bytes \in Seq(ControlByte)
  <2>1. first \in Seq(ControlByte) /\ rest \in Seq(ControlByte)
    BY <1>2, <1>3
  <2>2. OfControl(first) = first /\ OfControl(rest) = rest /\ OfControl(bytes) = bytes
    BY <1>3, <2>1, ControlPart DEF OneStream
  <2>3. rest \in Seq(AnyByte)
    BY <2>1, ByteKinds
  <2> QED BY <1>1, <1>2, <1>3, <2>1, <2>2, <2>3 DEF OneStream, first, rest, k
<1>4. CASE bytes \in Seq(OtherByte) /\ bytes \notin Seq(ControlByte)
  <2>1. first \in Seq(OtherByte) /\ rest \in Seq(OtherByte)
    BY <1>2, <1>4
  <2>2. ASSUME NEW s \in Seq(OtherByte) PROVE OfControl(s) = <<>>
    <3>1. CASE s = <<>>
      BY <3>1, ControlPart DEF OneStream
    <3>2. CASE s # <<>>
      <4>1. s[1] \in OtherByte
        BY <3>2, HasFirst
      <4>2. s \notin Seq(ControlByte)
        BY <3>2, <4>1, HasFirst, ChannelAssumption DEF OtherByte, ControlByte
      <4> QED BY <4>2, ControlPart DEF OneStream
    <3> QED BY <3>1, <3>2
  <2>3. OfControl(first) = <<>> /\ OfControl(rest) = <<>> /\ OfControl(bytes) = <<>>
    BY <1>4, <2>1, <2>2
  <2>4. rest \in Seq(AnyByte)
    BY <2>1, ByteKinds
  <2>5. /\ SubSeq(OfControl(bytes), 1, 0) = <<>> /\ 0 \in 0..Len(OfControl(bytes))
        /\ SubSeq(OfControl(bytes), 0 + 1, Len(OfControl(bytes))) = <<>>
        /\ <<>> \in Seq(ControlByte)
    BY <2>3
  <2> QED BY <2>1, <2>3, <2>4, <2>5 DEF OneStream, first, rest
<1> QED BY <1>3, <1>4 DEF OneStream

\* What Read does: it goes on with a message, or opens the next, whose nonce is right.
ReadsMore(n) ==
    /\ readBuf # <<>> /\ Take(readBuf, n) /\ UNCHANGED <<wire, recvNonce>>

OpensNext(n) ==
    /\ readBuf = <<>> /\ wire # <<>> /\ wire' = Tail(wire)
    /\ Take(wire[1].bytes, n) /\ recvNonce' = recvNonce + 1

LEMMA ReadSucceeds ==
  ASSUME ChannelInv, NEW n \in 1..MaxRead, Read(n)
  PROVE  /\ ReadsMore(n) \/ OpensNext(n)
         /\ UNCHANGED <<ctrlMu, writeMu, writes, sealed, sendNonce, sent, received>>
<1>1. CASE readBuf # <<>>
  BY <1>1 DEF Read, ReadsMore
<1>2. CASE readBuf = <<>>
  <2>1. wire # <<>> /\ wire \in Seq(Message)
    BY <1>2 DEF Read, ChannelInv, ChannelTypeOK
  <2>2. 1 \in DOMAIN wire /\ recvNonce \in Nat
    BY <2>1 DEF ChannelInv, ChannelTypeOK
  <2>3. wire[1].nonce = recvNonce
    BY <2>2 DEF ChannelInv, NoncesInOrder
  <2> QED BY <1>2, <2>1, <2>3 DEF Read, OpensNext
<1> QED BY <1>1, <1>2

LEMMA ReadKeepsChannel ==
  ASSUME ChannelInv, NEW n \in 1..MaxRead, Read(n)
  PROVE  ChannelInv'
<1> USE DEF ChannelInv
<1>0. n \in Nat \ {0}
  BY ChannelAssumption
<1>1. /\ ReadsMore(n) \/ OpensNext(n)
      /\ UNCHANGED <<ctrlMu, writeMu, writes, sealed, sendNonce, sent, received>>
  BY ReadSucceeds
<1>2. ASSUME NEW bytes, OneStream(bytes), Take(bytes, n)
      PROVE  readBuf' \in Seq(AnyByte) /\ OneStream(readBuf') /\ inbox' \in Seq(ControlByte)
  <2> DEFINE first == SubSeq(bytes, 1, Min({n, Len(bytes)}))
             rest == SubSeq(bytes, n + 1, Len(bytes))
  <2>1. /\ OneStream(rest) /\ rest \in Seq(AnyByte)
        /\ OfControl(first) \in Seq(ControlByte)
    BY <1>0, <1>2, TakenParts
  <2>2. inbox' = inbox \o OfControl(first) /\ readBuf' = rest
    BY <1>2 DEF Take
  <2>3. inbox \in Seq(ControlByte)
    BY DEF ChannelTypeOK
  <2> HIDE DEF first, rest
  <2>4. inbox' \in Seq(ControlByte)
    BY <2>1, <2>2, <2>3
  <2> QED BY <2>1, <2>2, <2>4
<1>3. CASE ReadsMore(n)
  <2>1. readBuf' \in Seq(AnyByte) /\ OneStream(readBuf') /\ inbox' \in Seq(ControlByte)
    BY <1>2, <1>3 DEF ReadsMore, ChannelTypeOK
  <2>2. ChannelTypeOK'
    BY <1>1, <1>3, <2>1 DEF ReadsMore, ChannelTypeOK
  <2>3. WritersTakeTurns' /\ SealedIsBeginning' /\ NonceIsNext' /\ NoncesInOrder'
    BY <1>1, <1>3 DEF ReadsMore, WritersTakeTurns, SealedIsBeginning, NonceIsNext, NoncesInOrder
  <2> QED BY <2>2, <2>3
<1>4. CASE OpensNext(n)
  <2>1. wire \in Seq(Message) /\ wire # <<>> /\ wire' = Tail(wire) /\ recvNonce' = recvNonce + 1
    BY <1>4 DEF OpensNext, ChannelTypeOK
  <2>2. /\ Len(wire) \in Nat \ {0} /\ wire' \in Seq(Message) /\ Len(wire') = Len(wire) - 1
        /\ \A i \in 1..Len(wire) - 1 : wire'[i] = wire[i + 1]
    BY <2>1
  <2>3. OneStream(wire[1].bytes)
    BY <2>2 DEF ChannelTypeOK
  <2>4. readBuf' \in Seq(AnyByte) /\ OneStream(readBuf') /\ inbox' \in Seq(ControlByte)
    BY <1>2, <1>4, <2>3 DEF OpensNext
  <2>5. ASSUME NEW i \in 1..Len(wire') PROVE OneStream(wire'[i].bytes)
    <3>1. i + 1 \in 1..Len(wire) /\ wire'[i] = wire[i + 1]
      BY <2>2
    <3> QED BY <3>1 DEF ChannelTypeOK
  <2>6. recvNonce \in Nat /\ recvNonce' \in Nat
    BY <2>1 DEF ChannelTypeOK
  <2>7. ChannelTypeOK'
    BY <1>1, <2>2, <2>4, <2>5, <2>6 DEF ChannelTypeOK
  <2>8. WritersTakeTurns' /\ SealedIsBeginning'
    BY <1>1 DEF WritersTakeTurns, SealedIsBeginning
  <2>9. recvNonce' + Len(wire') = recvNonce + Len(wire)
    BY <2>1, <2>2, <2>6
  <2>10. NonceIsNext'
    BY <1>1, <2>9 DEF NonceIsNext
  <2>11. NoncesInOrder'
    <3> SUFFICES ASSUME NEW i \in 1..Len(wire') PROVE wire'[i].nonce = recvNonce + 1 + i - 1
      BY <2>1, <2>2 DEF NoncesInOrder
    <3>1. i + 1 \in DOMAIN wire /\ wire'[i] = wire[i + 1]
      BY <2>1, <2>2
    <3>2. wire[i + 1].nonce = recvNonce + (i + 1) - 1
      BY <3>1 DEF NoncesInOrder
    <3> QED BY <2>6, <3>1, <3>2
  <2> QED BY <2>7, <2>8, <2>10, <2>11
<1> QED BY <1>1, <1>3, <1>4

LEMMA ReadFrameKeepsChannel ==
  ASSUME ChannelInv, ReadFrame
  PROVE  ChannelInv'
<1> USE DEF ChannelInv
<1> DEFINE f == inbox[1].frame
<1>1. /\ inbox # <<>> /\ Len(inbox) > Length[f]
      /\ inbox' = SubSeq(inbox, Length[f] + 2, Len(inbox))
      /\ received' \in {Append(received, f), Append(received, Garbled)}
      /\ UNCHANGED <<link, ctrlMu, writeMu, writes, sealed, sendNonce, recvNonce, wire, readBuf, sent>>
  BY DEF ReadFrame
<1>2. inbox \in Seq(ControlByte) /\ f \in Frames
  <2>1. inbox \in Seq(ControlByte) /\ inbox[1] \in ControlByte
    BY <1>1, HasFirst DEF ChannelTypeOK
  <2> QED BY <2>1 DEF ControlByte
<1>3. Length[f] \in Nat
  BY <1>2, ChannelAssumption
<1> HIDE DEF f
<1>4. inbox' \in Seq(ControlByte)
  BY <1>1, <1>2, <1>3
<1>5. received' \in Seq(Frames \cup {Garbled})
  <2>1. received \in Seq(Frames \cup {Garbled})
    BY DEF ChannelTypeOK
  <2>2. f \in Frames \cup {Garbled} /\ Garbled \in Frames \cup {Garbled}
    BY <1>2
  <2>3. \A x \in Frames \cup {Garbled} : Append(received, x) \in Seq(Frames \cup {Garbled})
    BY <2>1
  <2> QED BY <1>1, <2>2, <2>3, Zenon
<1>6. ChannelTypeOK'
  BY <1>1, <1>4, <1>5 DEF ChannelTypeOK
<1>7. WritersTakeTurns' /\ SealedIsBeginning' /\ NonceIsNext' /\ NoncesInOrder'
  BY <1>1 DEF WritersTakeTurns, SealedIsBeginning, NonceIsNext, NoncesInOrder
<1> QED BY <1>6, <1>7

LEMMA ChannelStep ==
  ASSUME ChannelInv, [ChannelNext]_channelVars
  PROVE  ChannelInv'
<1>1. CASE Handshake \/ Break \/ UNCHANGED channelVars
  <2>1. UNCHANGED <<ctrlMu, writeMu, writes, sealed, sendNonce, recvNonce, wire, readBuf,
                    inbox, sent, received>>
    BY <1>1 DEF Handshake, Break, channelVars
  <2> QED BY <2>1 DEF ChannelInv, ChannelTypeOK, WritersTakeTurns, SealedIsBeginning,
          NonceIsNext, NoncesInOrder
<1> QED BY <1>1, WriteOtherKeepsChannel, EncryptKeepsChannel, WriteRawKeepsChannel,
        ReadKeepsChannel, ReadFrameKeepsChannel, WriteFrameKeepsChannel
        DEF ChannelNext, ChannelRuns, AllWriters

LEMMA ChannelInvariance == ChannelSpec => []ChannelInv
<1>1. ChannelInit => ChannelInv
  <2> SUFFICES ASSUME ChannelInit PROVE ChannelInv
    OBVIOUS
  <2>1. ChannelTypeOK
    <3>1. \A w \in AllWriters : <<>> \in Seq(Written(w)) /\ Len(<<>>) <= 2
      OBVIOUS
    <3> QED BY <3>1 DEF ChannelInit, ChannelTypeOK, AllWriters, OneStream
  <2>2. WritersTakeTurns /\ SealedIsBeginning /\ NonceIsNext /\ NoncesInOrder
    BY ChannelAssumption DEF ChannelInit, WritersTakeTurns, SealedIsBeginning, NonceIsNext,
       NoncesInOrder, AllWriters
  <2> QED BY <2>1, <2>2 DEF ChannelInv
<1> QED BY <1>1, ChannelStep, PTL DEF ChannelSpec

\* The reader always finds the nonce that it counts to on the next message: no
\* interleaving of writers makes Decrypt fail.
THEOREM MessagesAreInOrder == ChannelSpec => []NoncesInOrder
BY ChannelInvariance, PTL DEF ChannelInv
-----------------------------------------------------------------------------
(* The frames.  All that was ever sent on the control stream is one sequence *)
(* of bytes, str, in which each part of the connection has a place: off[k]   *)
(* tells where the k-th frame begins, at[m] where the m-th message on the    *)
(* wire does.                                                                *)

Lies(str, p, bytes) == /\ p + Len(bytes) <= Len(str)
                       /\ \A j \in 1..Len(bytes) : bytes[j] = str[p + j]

FrameBytes(f) == <<Byte(f, 0)>> \o Bytes(f)

FramesLie(str, off) ==
    /\ off \in Seq(Nat) /\ Len(off) = Len(sent) + 1 /\ off[Len(sent) + 1] = Len(str)
    /\ \A k \in 1..Len(sent) : /\ Lies(str, off[k], FrameBytes(sent[k]))
                               /\ off[k + 1] = off[k] + Len(FrameBytes(sent[k]))

\* From r on, the reader has what it needs for the next frames; what is before p
\* has left the wire.
ReaderIsAt(str, r, p) ==
    /\ Lies(str, r, inbox) /\ Lies(str, r + Len(inbox), OfControl(readBuf))
    /\ p = r + Len(inbox) + Len(OfControl(readBuf))

Carried(str, at, messages) ==
    /\ at \in Seq(Nat) /\ Len(at) = Len(messages) + 1
    /\ \A m \in 1..Len(messages) :
          /\ Lies(str, at[m], OfControl(messages[m].bytes))
          /\ at[m + 1] = at[m] + Len(OfControl(messages[m].bytes))

\* From q on, the writer that holds the mutex has the end of the last frame to write.
WriterIsAt(str, q) ==
    /\ ctrlMu = Free => q = Len(str)
    /\ ctrlMu # Free =>
          /\ Lies(str, q, writes[ctrlMu][1])
          /\ Len(writes[ctrlMu]) = 1 => q + Len(writes[ctrlMu][1]) = Len(str)
          /\ Len(writes[ctrlMu]) = 2 =>
                /\ Lies(str, q + Len(writes[ctrlMu][1]), writes[ctrlMu][2])
                /\ q + Len(writes[ctrlMu][1]) + Len(writes[ctrlMu][2]) = Len(str)

Streamed(str, off, at) ==
    /\ Len(received) <= Len(sent)
    /\ FramesLie(str, off)
    /\ ReaderIsAt(str, off[Len(received) + 1], at[1])
    /\ Carried(str, at, wire)
    /\ WriterIsAt(str, at[Len(wire) + 1])

FramesInStream == \E str \in Seq(ControlByte), off \in Seq(Nat), at \in Seq(Nat) :
                      Streamed(str, off, at)

LEMMA OneAfterTheOther ==
  ASSUME NEW S, NEW a \in Seq(S), NEW b \in Seq(S)
  PROVE  /\ a \o b \in Seq(S) /\ Len(a \o b) = Len(a) + Len(b)
         /\ \A j \in 1..Len(a) : (a \o b)[j] = a[j]
         /\ \A j \in 1..Len(b) : (a \o b)[Len(a) + j] = b[j]
OBVIOUS

LEMMA SameSequence ==
  ASSUME NEW S, NEW a \in Seq(S), NEW b \in Seq(S), Len(a) = Len(b),
         \A j \in 1..Len(a) : a[j] = b[j]
  PROVE  a = b
OBVIOUS

\* What lies in a stream still does when the stream goes on.
LEMMA LiesInLonger ==
  ASSUME NEW str \in Seq(ControlByte), NEW more \in Seq(ControlByte), NEW p \in Nat,
         NEW bytes \in Seq(ControlByte), Lies(str, p, bytes)
  PROVE  Lies(str \o more, p, bytes)
BY DEF Lies

LEMMA LiesAtEnd ==
  ASSUME NEW str \in Seq(ControlByte), NEW more \in Seq(ControlByte)
  PROVE  Lies(str \o more, Len(str), more) /\ Len(str \o more) = Len(str) + Len(more)
BY DEF Lies

\* Two parts that follow each other are one, and one is two.
LEMMA LiesTogether ==
  ASSUME NEW str \in Seq(ControlByte), NEW p \in Nat, NEW a \in Seq(ControlByte),
         NEW b \in Seq(ControlByte), Lies(str, p, a), Lies(str, p + Len(a), b)
  PROVE  Lies(str, p, a \o b)
<1>1. a \o b \in Seq(ControlByte) /\ Len(a \o b) = Len(a) + Len(b)
  OBVIOUS
<1>2. ASSUME NEW j \in 1..Len(a) + Len(b) PROVE (a \o b)[j] = str[p + j]
  <2>1. CASE j <= Len(a)
    BY <2>1 DEF Lies
  <2>2. CASE j > Len(a)
    <3>1. j - Len(a) \in 1..Len(b) /\ (p + Len(a)) + (j - Len(a)) = p + j
          /\ (a \o b)[j] = b[j - Len(a)]
      BY <2>2
    <3> QED BY <3>1 DEF Lies
  <2> QED BY <2>1, <2>2
<1> QED BY <1>1, <1>2 DEF Lies

LEMMA LiesInParts ==
  ASSUME NEW str \in Seq(ControlByte), NEW p \in Nat, NEW s \in Seq(ControlByte),
         Lies(str, p, s), NEW n \in 0..Len(s)
  PROVE  /\ Lies(str, p, SubSeq(s, 1, n)) /\ Lies(str, p + n, SubSeq(s, n + 1, Len(s)))
         /\ SubSeq(s, 1, n) \in Seq(ControlByte) /\ Len(SubSeq(s, 1, n)) = n
         /\ SubSeq(s, n + 1, Len(s)) \in Seq(ControlByte)
         /\ Len(SubSeq(s, n + 1, Len(s))) = Len(s) - n
<1> DEFINE a == SubSeq(s, 1, n)
           b == SubSeq(s, n + 1, Len(s))
<1>1. /\ a \in Seq(ControlByte) /\ Len(a) = n /\ \A j \in 1..n : a[j] = s[j]
      /\ b \in Seq(ControlByte) /\ Len(b) = Len(s) - n /\ \A j \in 1..Len(s) - n : b[j] = s[n + j]
  BY CutInTwo
<1> HIDE DEF a, b
<1>2. /\ p + Len(s) <= Len(str) /\ Len(s) \in Nat /\ Len(str) \in Nat
      /\ \A j \in 1..Len(s) : s[j] = str[p + j]
  BY DEF Lies
<1>3. Lies(str, p, a)
  BY <1>1, <1>2 DEF Lies
<1>4. ASSUME NEW j \in 1..Len(b) PROVE b[j] = str[(p + n) + j]
  <2>1. n + j \in 1..Len(s) /\ p + (n + j) = (p + n) + j
    BY <1>1, <1>2
  <2> QED BY <1>1, <1>2, <2>1
<1>5. Lies(str, p + n, b)
  <2>1. (p + n) + Len(b) <= Len(str)
    BY <1>1, <1>2
  <2> QED BY <1>4, <2>1 DEF Lies
<1> QED BY <1>1, <1>3, <1>5 DEF a, b

LEMMA FrameHasBytes ==
  ASSUME NEW f \in Frames
  PROVE  /\ Length[f] \in Nat \ {0}
         /\ <<Byte(f, 0)>> \in Seq(ControlByte) /\ Len(<<Byte(f, 0)>>) = 1
         /\ Bytes(f) \in Seq(ControlByte) /\ Len(Bytes(f)) = Length[f]
         /\ FrameBytes(f) \in Seq(ControlByte) /\ Len(FrameBytes(f)) = Length[f] + 1
         /\ \A j \in 1..Length[f] + 1 : FrameBytes(f)[j] = Byte(f, j - 1)
<1>1. Length[f] \in Nat \ {0}
  BY ChannelAssumption
<1>2. \A i \in Nat : Byte(f, i) \in ControlByte
  BY DEF Byte, ControlByte
<1>3. /\ Bytes(f) \in Seq(ControlByte) /\ Len(Bytes(f)) = Length[f]
      /\ \A i \in 1..Length[f] : Bytes(f)[i] = Byte(f, i)
  BY <1>1, <1>2 DEF Bytes
<1>4. <<Byte(f, 0)>> \in Seq(ControlByte) /\ Len(<<Byte(f, 0)>>) = 1 /\ <<Byte(f, 0)>>[1] = Byte(f, 0)
  BY <1>2
<1> DEFINE head == <<Byte(f, 0)>>
           body == Bytes(f)
<1> HIDE DEF head, body
<1>5. /\ head \in Seq(ControlByte) /\ Len(head) = 1 /\ head[1] = Byte(f, 0)
      /\ body \in Seq(ControlByte) /\ Len(body) = Length[f]
      /\ \A i \in 1..Length[f] : body[i] = Byte(f, i)
  BY <1>3, <1>4 DEF head, body
<1>6. /\ head \o body \in Seq(ControlByte) /\ Len(head \o body) = Len(head) + Len(body)
      /\ \A j \in 1..Len(head) : (head \o body)[j] = head[j]
      /\ \A j \in 1..Len(body) : (head \o body)[Len(head) + j] = body[j]
  <2>1. head \in Seq(ControlByte) /\ body \in Seq(ControlByte)
    BY <1>5
  <2> QED BY <2>1, OneAfterTheOther
<1>7. ASSUME NEW j \in 1..Length[f] + 1 PROVE (head \o body)[j] = Byte(f, j - 1)
  <2>1. CASE j = 1
    BY <1>5, <1>6, <2>1
  <2>2. CASE j # 1
    <3>1. j - 1 \in 1..Length[f] /\ 1 + (j - 1) = j
      BY <1>1, <2>2
    <3>2. (head \o body)[1 + (j - 1)] = body[j - 1]
      BY <1>5, <1>6, <3>1
    <3> QED BY <1>5, <3>1, <3>2
  <2> QED BY <2>1, <2>2
<1>8. Len(head \o body) = Length[f] + 1
  <2>1. 1 + Length[f] = Length[f] + 1
    BY <1>1
  <2> QED BY <1>5, <1>6, <2>1
<1> QED BY <1>1, <1>3, <1>4, <1>6, <1>7, <1>8 DEF head, body, FrameBytes

\* Where the parts of the connection are.
LEMMA Places ==
  ASSUME ChannelInv, NEW str \in Seq(ControlByte), NEW off, NEW at, Streamed(str, off, at)
  PROVE  /\ off \in Seq(Nat) /\ Len(off) = Len(sent) + 1
         /\ at \in Seq(Nat) /\ Len(at) = Len(wire) + 1
         /\ Len(sent) \in Nat /\ Len(received) \in Nat /\ Len(wire) \in Nat
         /\ Len(received) <= Len(sent)
         /\ off[Len(received) + 1] \in Nat /\ at[1] \in Nat /\ at[Len(wire) + 1] \in Nat
         /\ inbox \in Seq(ControlByte) /\ OfControl(readBuf) \in Seq(ControlByte)
         /\ \A m \in 1..Len(wire) : OfControl(wire[m].bytes) \in Seq(ControlByte)
<1>1. /\ off \in Seq(Nat) /\ Len(off) = Len(sent) + 1
      /\ at \in Seq(Nat) /\ Len(at) = Len(wire) + 1 /\ Len(received) <= Len(sent)
  BY DEF Streamed, FramesLie, Carried
<1>2. Len(sent) \in Nat /\ Len(received) \in Nat /\ Len(wire) \in Nat
  BY DEF ChannelInv, ChannelTypeOK
<1>3. /\ Len(received) + 1 \in 1..Len(off) /\ 1 \in 1..Len(at) /\ Len(wire) + 1 \in 1..Len(at)
  BY <1>1, <1>2
<1>4. off[Len(received) + 1] \in Nat /\ at[1] \in Nat /\ at[Len(wire) + 1] \in Nat
  BY <1>1, <1>3
<1>5. inbox \in Seq(ControlByte) /\ OneStream(readBuf)
      /\ \A m \in 1..Len(wire) : OneStream(wire[m].bytes)
  BY DEF ChannelInv, ChannelTypeOK
<1>6. OfControl(readBuf) \in Seq(ControlByte)
      /\ \A m \in 1..Len(wire) : OfControl(wire[m].bytes) \in Seq(ControlByte)
  BY <1>5, ControlPart
<1> QED BY <1>1, <1>2, <1>4, <1>5, <1>6

LEMMA WriteFrameStreams ==
  ASSUME ChannelInv, FramesInStream, NEW w \in Writers, NEW f \in Frames, WriteFrame(w, f)
  PROVE  FramesInStream' /\ [sent' = Append(sent, f) /\ UNCHANGED received]_<<sent, received>>
<1>1. PICK str \in Seq(ControlByte), off \in Seq(Nat), at \in Seq(Nat) : Streamed(str, off, at)
  BY DEF FramesInStream
<1>2. ctrlMu = Free /\ UNCHANGED <<wire, readBuf, inbox, received>>
  BY DEF WriteFrame
<1>3. CASE UNCHANGED <<ctrlMu, writes, sent>>
  <2>1. Streamed(str, off, at)'
    BY <1>1, <1>2, <1>3 DEF Streamed, FramesLie, ReaderIsAt, Carried, WriterIsAt
  <2> QED BY <1>2, <1>3, <2>1 DEF FramesInStream
<1>4. CASE /\ ctrlMu' = w
           /\ writes' = [writes EXCEPT ![w] = <<<<Byte(f, 0)>>, Bytes(f)>>]
           /\ sent' = Append(sent, f)
  <2> DEFINE head == <<Byte(f, 0)>>
             body == Bytes(f)
             more == FrameBytes(f)
             longer == str \o more
             ends == Append(off, Len(longer))
  <2>0. /\ head \in Seq(ControlByte) /\ Len(head) = 1
        /\ body \in Seq(ControlByte) /\ Len(body) = Length[f] /\ Length[f] \in Nat
        /\ more \in Seq(ControlByte) /\ Len(more) = Length[f] + 1 /\ more = head \o body
    BY FrameHasBytes DEF FrameBytes
  <2>1. writes'[w] = <<head, body>>
    BY <1>4 DEF ChannelInv, ChannelTypeOK, AllWriters
  <2> HIDE DEF head, body, more
  <2>2. /\ longer \in Seq(ControlByte) /\ Len(longer) = Len(str) + Len(more) /\ Len(str) \in Nat
        /\ Lies(longer, Len(str), more)
        /\ \A p \in Nat, bytes \in Seq(ControlByte) :
              Lies(str, p, bytes) => Lies(longer, p, bytes)
    <3>1. /\ longer \in Seq(ControlByte) /\ Len(longer) = Len(str) + Len(more)
          /\ Lies(longer, Len(str), more)
      BY <2>0, LiesAtEnd, OneAfterTheOther
    <3>2. ASSUME NEW p \in Nat, NEW bytes \in Seq(ControlByte), Lies(str, p, bytes)
          PROVE  Lies(longer, p, bytes)
      BY <2>0, <3>2, LiesInLonger
    <3> QED BY <3>1, <3>2
  <2> HIDE DEF longer
  <2>3. /\ off \in Seq(Nat) /\ Len(off) = Len(sent) + 1 /\ off[Len(sent) + 1] = Len(str)
        /\ at \in Seq(Nat) /\ Len(at) = Len(wire) + 1 /\ at[Len(wire) + 1] = Len(str)
        /\ Len(received) <= Len(sent) /\ Len(sent) \in Nat /\ Len(received) \in Nat
        /\ sent \in Seq(Frames)
    <3>1. sent \in Seq(Frames)
      BY DEF ChannelInv, ChannelTypeOK
    <3> QED BY <1>1, <1>2, <3>1, Places DEF Streamed, FramesLie, WriterIsAt
  <2>4. /\ ends \in Seq(Nat) /\ Len(ends) = Len(sent) + 2 /\ ends[Len(sent) + 2] = Len(longer)
        /\ \A k \in 1..Len(sent) + 1 : ends[k] = off[k]
    <3>1. Len(longer) \in Nat
      BY <2>2
    <3> HIDE DEF longer
    <3> QED BY <2>3, <3>1
  <2> HIDE DEF ends
  <2>5. /\ Len(sent') = Len(sent) + 1 /\ sent'[Len(sent) + 1] = f
        /\ \A k \in 1..Len(sent) : sent'[k] = sent[k] /\ sent[k] \in Frames
    BY <1>4, <2>3
  <2>6. FramesLie(longer, ends)'
    <3>1. ASSUME NEW k \in 1..Len(sent)
          PROVE  /\ Lies(longer, ends[k], FrameBytes(sent[k]))
                 /\ ends[k + 1] = ends[k] + Len(FrameBytes(sent[k]))
      <4>1. k \in 1..Len(sent) + 1 /\ k + 1 \in 1..Len(sent) + 1 /\ k \in 1..Len(off)
        BY <2>3
      <4>2. off[k] \in Nat /\ FrameBytes(sent[k]) \in Seq(ControlByte)
        <5>1. off[k] \in Nat
          BY <2>3, <4>1
        <5>2. sent[k] \in Frames
          BY <2>5
        <5> QED BY <5>1, <5>2, FrameHasBytes
      <4>3. Lies(str, off[k], FrameBytes(sent[k])) /\ off[k + 1] = off[k] + Len(FrameBytes(sent[k]))
        BY <1>1 DEF Streamed, FramesLie
      <4> QED BY <2>2, <2>4, <4>1, <4>2, <4>3
    <3>2. /\ Lies(longer, ends[Len(sent) + 1], FrameBytes(f))
          /\ ends[(Len(sent) + 1) + 1] = ends[Len(sent) + 1] + Len(FrameBytes(f))
      <4>1. ends[Len(sent) + 1] = Len(str) /\ (Len(sent) + 1) + 1 = Len(sent) + 2
        <5>1. Len(sent) + 1 \in 1..Len(sent) + 1 /\ (Len(sent) + 1) + 1 = Len(sent) + 2
          BY <2>3
        <5> QED BY <2>3, <2>4, <5>1
      <4> QED BY <2>2, <2>4, <4>1 DEF more
    <3>3. ASSUME NEW k \in 1..Len(sent')
          PROVE  /\ Lies(longer, ends[k], FrameBytes(sent'[k]))
                 /\ ends[k + 1] = ends[k] + Len(FrameBytes(sent'[k]))
      <4>1. CASE k = Len(sent) + 1
        BY <2>5, <3>2, <4>1
      <4>2. CASE k # Len(sent) + 1
        <5>1. k \in 1..Len(sent)
          BY <2>3, <2>5, <4>2
        <5> QED BY <2>5, <3>1, <5>1
      <4> QED BY <4>1, <4>2
    <3>4. Len(ends) = Len(sent') + 1 /\ ends[Len(sent') + 1] = Len(longer)
      BY <2>3, <2>4, <2>5
    <3> QED BY <2>4, <3>3, <3>4 DEF FramesLie
  <2>7. ends[Len(received') + 1] = off[Len(received) + 1]
    BY <1>2, <2>3, <2>4
  <2>8. ReaderIsAt(longer, off[Len(received) + 1], at[1])'
    <3> DEFINE r == off[Len(received) + 1]
    <3>1. /\ r \in Nat /\ inbox \in Seq(ControlByte) /\ OfControl(readBuf) \in Seq(ControlByte)
          /\ ReaderIsAt(str, r, at[1])
      BY <1>1, Places DEF Streamed
    <3>2. UNCHANGED r
      BY <1>2
    <3> HIDE DEF r
    <3>3. r + Len(inbox) \in Nat
      BY <3>1
    <3>4. Lies(longer, r, inbox) /\ Lies(longer, r + Len(inbox), OfControl(readBuf))
      BY <2>2, <3>1, <3>3 DEF ReaderIsAt
    <3>5. ReaderIsAt(longer, r, at[1])'
      BY <1>2, <3>1, <3>2, <3>4 DEF ReaderIsAt
    <3> QED BY <3>5 DEF r
  <2>9. Carried(longer, at, wire)'
    <3> SUFFICES ASSUME NEW m \in 1..Len(wire) PROVE Lies(longer, at[m], OfControl(wire[m].bytes))
      BY <1>1, <1>2 DEF Streamed, Carried
    <3>1. at[m] \in Nat /\ OfControl(wire[m].bytes) \in Seq(ControlByte)
      <4>1. at[m] \in Nat
        BY <2>3
      <4> QED BY <1>1, <4>1, Places
    <3> QED BY <1>1, <2>2, <3>1 DEF Streamed, Carried
  <2>10. WriterIsAt(longer, at[Len(wire) + 1])'
    <3>1. ctrlMu' # Free /\ ctrlMu' = w /\ at[Len(wire') + 1] = Len(str)
      BY <1>2, <1>4, <2>3, ChannelAssumption
    <3>2. Len(writes'[w]) = 2 /\ writes'[w][1] = head /\ writes'[w][2] = body
      BY <2>1
    <3>3. /\ more = head \o body /\ Lies(longer, Len(str), head)
          /\ Lies(longer, Len(str) + Len(head), body)
      <4>1. SubSeq(more, 1, 1) = head /\ SubSeq(more, 1 + 1, Len(more)) = body
        BY <2>0
      <4>2. 1 \in 0..Len(more)
        BY <2>0
      <4>3. /\ Lies(longer, Len(str), SubSeq(more, 1, 1))
            /\ Lies(longer, Len(str) + 1, SubSeq(more, 1 + 1, Len(more)))
        BY <2>0, <2>2, <4>2, LiesInParts
      <4> QED BY <2>0, <4>1, <4>3
    <3>4. Len(str) + Len(head) + Len(body) = Len(longer)
      <4> DEFINE n == Length[f]
                 l == Len(str)
      <4>1. /\ n \in Nat /\ l \in Nat /\ Len(head) = 1 /\ Len(body) = n
            /\ Len(longer) = l + (n + 1)
        BY <2>0, <2>2
      <4> HIDE DEF n, l
      <4>2. l + Len(head) + Len(body) = Len(longer)
        BY <4>1
      <4> QED BY <4>2 DEF l
    <3> QED BY <3>1, <3>2, <3>3, <3>4 DEF WriterIsAt
  <2>11. Len(received') <= Len(sent')
    BY <1>2, <2>3, <2>5
  <2>12. Streamed(longer, ends, at)'
    BY <2>6, <2>7, <2>8, <2>9, <2>10, <2>11, <1>2 DEF Streamed
  <2> QED BY <1>2, <1>4, <2>2, <2>3, <2>4, <2>12 DEF FramesInStream
<1> QED BY <1>3, <1>4 DEF WriteFrame

\* What does not touch the control stream's bytes.
LEMMA WriteOtherStreams ==
  ASSUME ChannelInv, FramesInStream, WriteOther
  PROVE  FramesInStream' /\ UNCHANGED <<sent, received>>
<1>1. PICK str \in Seq(ControlByte), off \in Seq(Nat), at \in Seq(Nat) : Streamed(str, off, at)
  BY DEF FramesInStream
<1>2. /\ UNCHANGED <<ctrlMu, wire, readBuf, inbox, sent, received>>
      /\ \A x \in Writers : writes'[x] = writes[x]
  BY ChannelAssumption DEF WriteOther, ChannelInv, ChannelTypeOK, AllWriters
<1>3. ctrlMu # Free => writes'[ctrlMu] = writes[ctrlMu]
  BY <1>2 DEF ChannelInv, ChannelTypeOK
<1>4. WriterIsAt(str, at[Len(wire) + 1])'
  BY <1>1, <1>2, <1>3 DEF Streamed, WriterIsAt
<1>5. Streamed(str, off, at)'
  BY <1>1, <1>2, <1>4 DEF Streamed, FramesLie, ReaderIsAt, Carried
<1> QED BY <1>2, <1>5 DEF FramesInStream

LEMMA EncryptStreams ==
  ASSUME ChannelInv, FramesInStream, NEW w \in AllWriters, Encrypt(w)
  PROVE  FramesInStream' /\ UNCHANGED <<sent, received>>
<1>1. PICK str \in Seq(ControlByte), off \in Seq(Nat), at \in Seq(Nat) : Streamed(str, off, at)
  BY DEF FramesInStream
<1>2. UNCHANGED <<ctrlMu, writes, wire, readBuf, inbox, sent, received>>
  BY DEF Encrypt
<1>3. Streamed(str, off, at)'
  BY <1>1, <1>2 DEF Streamed, FramesLie, ReaderIsAt, Carried, WriterIsAt
<1> QED BY <1>2, <1>3 DEF FramesInStream

\* A message that goes on the wire takes its place after the others.
LEMMA SentAfterTheOthers ==
  ASSUME NEW str \in Seq(ControlByte), NEW at \in Seq(Nat), NEW messages \in Seq(Message),
         Carried(str, at, messages), NEW m \in Message, NEW q \in Nat,
         q = at[Len(messages) + 1], Lies(str, q, OfControl(m.bytes)),
         NEW n \in Nat, n = Len(OfControl(m.bytes)),
         NEW ends, ends = Append(at, q + n), NEW more, more = Append(messages, m)
  PROVE  Carried(str, ends, more)
<1> DEFINE l == Len(messages)
<1>1. l \in Nat /\ Len(at) = l + 1 /\ q + n \in Nat
  BY DEF Carried
<1>2. Len(more) = l + 1 /\ more[l + 1] = m /\ \A k \in 1..l : more[k] = messages[k]
  BY <1>1
<1>3. /\ ends \in Seq(Nat) /\ Len(ends) = l + 2 /\ ends[l + 2] = q + n
      /\ \A k \in 1..l + 1 : ends[k] = at[k]
  <2> HIDE DEF l
  <2>1. Len(at) \in Nat
    BY <1>1
  <2> QED BY <1>1
<1>4. /\ Lies(str, q, OfControl(m.bytes)) /\ q = at[l + 1]
      /\ \A k \in 1..l : /\ Lies(str, at[k], OfControl(messages[k].bytes))
                         /\ at[k + 1] = at[k] + Len(OfControl(messages[k].bytes))
  BY DEF Carried
<1> HIDE DEF l
<1>5. /\ l + 1 \in 1..l + 1 /\ (l + 1) + 1 = l + 2 /\ 1 \in 1..l + 1
      /\ \A k \in 1..l : k \in 1..l + 1 /\ k + 1 \in 1..l + 1
      /\ \A k \in 1..l + 1 : k = l + 1 \/ k \in 1..l
  BY <1>1
<1>6. ASSUME NEW k \in 1..Len(more)
      PROVE  /\ Lies(str, ends[k], OfControl(more[k].bytes))
             /\ ends[k + 1] = ends[k] + Len(OfControl(more[k].bytes))
  <2>1. CASE k = l + 1
    BY <1>2, <1>3, <1>4, <1>5, <2>1
  <2>2. CASE k \in 1..l
    BY <1>2, <1>3, <1>4, <1>5, <2>2
  <2> QED BY <1>2, <1>5, <2>1, <2>2
<1>7. Len(ends) = Len(more) + 1
  BY <1>2, <1>3, <1>5
<1> QED BY <1>3, <1>6, <1>7 DEF Carried

LEMMA OneOrTwo ==
  ASSUME NEW S, NEW s \in Seq(S), Len(s) \in 1..2
  PROVE  /\ Len(s) = 1 => Tail(s) = <<>>
         /\ Len(s) = 2 => Len(Tail(s)) = 1 /\ Tail(s)[1] = s[2] /\ Tail(s) # <<>>
         /\ \A x \in S : /\ Len(<<x>> \o Tail(s)) = Len(s) /\ (<<x>> \o Tail(s))[1] = x
                         /\ Len(s) = 2 => (<<x>> \o Tail(s))[2] = s[2]
                         /\ <<x>> \o Tail(s) # <<>>
OBVIOUS

LEMMA WriteRawStreams ==
  ASSUME ChannelInv, FramesInStream, NEW w \in AllWriters, WriteRaw(w)
  PROVE  FramesInStream' /\ UNCHANGED <<sent, received>>
<1>1. PICK str \in Seq(ControlByte), off \in Seq(Nat), at \in Seq(Nat) : Streamed(str, off, at)
  BY DEF FramesInStream
<1> DEFINE first == writes[w][1]
           rest == SubSeq(first, Len(sealed[w][1].bytes) + 1, Len(first))
<1>2. /\ sealed[w] # <<>>
      /\ writes' = [writes EXCEPT ![w] = IF rest = <<>> THEN Tail(@) ELSE <<rest>> \o Tail(@)]
      /\ ctrlMu' = IF writes'[w] = <<>> /\ ctrlMu = w THEN Free ELSE ctrlMu
      /\ wire' = Append(wire, sealed[w][1])
      /\ UNCHANGED <<readBuf, inbox, sent, received>>
  BY DEF WriteRaw
<1>3. writes[w] # <<>>
  BY <1>2 DEF ChannelInv, SealedIsBeginning
<1>4. /\ writes[w] \in Seq(Written(w)) /\ Len(writes[w]) \in 1..2
      /\ first \in Seq(BytesOf(w)) /\ Len(first) \in Nat \ {0}
  BY <1>3, FirstWrite DEF ChannelInv
<1>5. PICK q \in Nat : q = at[Len(wire) + 1]
  BY <1>1, Places
<1>6. WriterIsAt(str, q) /\ Carried(str, at, wire) /\ sealed[w][1] \in Message
  <2>1. sealed[w] \in {<<m>> : m \in Message}
    BY <1>2 DEF ChannelInv, ChannelTypeOK
  <2> QED BY <1>1, <1>5, <2>1 DEF Streamed
<1>7. PICK m \in Message : m = sealed[w][1]
  BY <1>6
<1>8. PICK n \in 1..Len(first) : m.bytes = SubSeq(first, 1, n)
  BY <1>2, <1>7 DEF ChannelInv, SealedIsBeginning
<1>9. n \in Nat \ {0} /\ Len(m.bytes) = n /\ m.bytes \in Seq(BytesOf(w))
  BY <1>4, <1>8, CutInTwo
<1>10. ASSUME NEW k \in Nat, k = Len(OfControl(m.bytes)), Lies(str, q, OfControl(m.bytes)),
              NEW p, p = q + k, WriterIsAt(str, p)'
       PROVE  FramesInStream'
  <2>0. PICK ends : ends = Append(at, q + k)
    OBVIOUS
  <2>1. /\ Carried(str, ends, wire') /\ ends \in Seq(Nat) /\ ends[1] = at[1]
        /\ ends[Len(wire') + 1] = q + k
    <3>1. wire' = Append(wire, m) /\ wire \in Seq(Message)
      BY <1>2, <1>7 DEF ChannelInv, ChannelTypeOK
    <3>2. /\ str \in Seq(ControlByte) /\ at \in Seq(Nat)
          /\ Carried(str, at, wire) /\ m \in Message /\ q \in Nat
          /\ q = at[Len(wire) + 1] /\ Lies(str, q, OfControl(m.bytes))
          /\ k \in Nat /\ k = Len(OfControl(m.bytes))
      BY <1>5, <1>6, <1>7, <1>10
    <3>3. Carried(str, ends, wire')
      BY <2>0, <3>1, <3>2, SentAfterTheOthers
    <3> DEFINE l == Len(wire)
    <3>4. l \in Nat /\ Len(at) = l + 1 /\ at \in Seq(Nat) /\ q + k \in Nat /\ Len(wire') = l + 1
      <4>1. Len(at) = l + 1 /\ at \in Seq(Nat)
        BY <1>6 DEF Carried
      <4>2. l \in Nat /\ Len(wire') = l + 1
        BY <3>1
      <4>3. q + k \in Nat
        BY <3>2
      <4> QED BY <4>1, <4>2, <4>3
    <3> HIDE DEF l
    <3>5. /\ ends \in Seq(Nat) /\ ends[1] = at[1] /\ ends[(l + 1) + 1] = q + k
      BY <2>0, <3>4
    <3> QED BY <3>3, <3>4, <3>5
  <2>2. WriterIsAt(str, ends[Len(wire) + 1])'
    BY <1>10, <2>1 DEF WriterIsAt
  <2>3. Streamed(str, off, ends)'
    <3>1. Len(received') <= Len(sent') /\ FramesLie(str, off)'
      BY <1>1, <1>2 DEF Streamed, FramesLie
    <3>2. ReaderIsAt(str, off[Len(received) + 1], ends[1])'
      BY <1>1, <1>2, <2>1 DEF Streamed, ReaderIsAt
    <3> QED BY <2>1, <2>2, <3>1, <3>2 DEF Streamed
  <2> QED BY <2>1, <2>3 DEF FramesInStream
<1>11. CASE w = Other
  <2>1. OfControl(m.bytes) = <<>>
    <3>1. m.bytes \in Seq(OtherByte) /\ m.bytes # <<>>
      BY <1>9, <1>11 DEF BytesOf
    <3>2. m.bytes[1] \in OtherByte
      BY <3>1, HasFirst
    <3>3. m.bytes \notin Seq(ControlByte)
      BY <3>1, <3>2, HasFirst, ChannelAssumption DEF OtherByte, ControlByte
    <3> QED BY <3>1, <3>3, ControlPart DEF OneStream
  <2>2. Len(OfControl(m.bytes)) = 0 /\ Lies(str, q, OfControl(m.bytes))
    <3>1. WriterIsAt(str, q) => q + 0 <= Len(str)
      <4>1. CASE ctrlMu = Free
        BY <1>1, <4>1 DEF WriterIsAt
      <4>2. CASE ctrlMu # Free
        <5>1. ctrlMu \in Writers /\ writes[ctrlMu] # <<>> /\ ctrlMu \in AllWriters
          BY <4>2 DEF ChannelInv, ChannelTypeOK, WritersTakeTurns, AllWriters
        <5>2. Len(writes[ctrlMu][1]) \in Nat
          BY <5>1, FirstWrite DEF ChannelInv
        <5>3. Len(str) \in Nat /\ (WriterIsAt(str, q) => q + Len(writes[ctrlMu][1]) <= Len(str))
          <6>1. WriterIsAt(str, q) => Lies(str, q, writes[ctrlMu][1])
            BY <4>2 DEF WriterIsAt
          <6>2. Len(str) \in Nat
            BY <1>1
          <6> QED BY <6>1, <6>2 DEF Lies
        <5> QED BY <5>2, <5>3
      <4> QED BY <4>1, <4>2
    <3> QED BY <1>6, <2>1, <3>1 DEF Lies
  <2>3. ctrlMu # Other
    BY ChannelAssumption DEF ChannelInv, ChannelTypeOK
  <2>4. /\ ctrlMu' = ctrlMu
        /\ ctrlMu # Free => writes'[ctrlMu] = writes[ctrlMu]
    <3>1. ctrlMu # Free => ctrlMu \in AllWriters \ {Other}
      BY <2>3 DEF ChannelInv, ChannelTypeOK, AllWriters
    <3>2. DOMAIN writes = AllWriters
      BY DEF ChannelInv, ChannelTypeOK
    <3> QED BY <1>2, <1>11, <2>3, <3>1, <3>2
  <2>5. WriterIsAt(str, q)'
    BY <1>6, <2>4 DEF WriterIsAt
  <2>6. q + 0 = q
    OBVIOUS
  <2> QED BY <1>2, <1>10, <2>2, <2>5, <2>6
<1>12. CASE w \in Writers
  <2>1. ctrlMu = w /\ ctrlMu # Free
    BY <1>3, <1>12, ChannelAssumption DEF ChannelInv, WritersTakeTurns
  <2>2. BytesOf(w) = ControlByte /\ first \in Seq(ControlByte) /\ m.bytes \in Seq(ControlByte)
    BY <1>4, <1>9, <1>12, ByteKinds
  <2>3. OfControl(m.bytes) = m.bytes
    BY <2>2, ControlPart DEF OneStream
  <2>4. Lies(str, q, first)
    BY <1>6, <2>1 DEF WriterIsAt
  <2>5. rest = SubSeq(first, n + 1, Len(first))
    BY <1>7, <1>9
  <2> HIDE DEF rest
  <2>6. /\ Lies(str, q, m.bytes) /\ Lies(str, q + n, rest)
        /\ rest \in Seq(ControlByte) /\ Len(rest) = Len(first) - n
    <3>1. n \in 0..Len(first)
      BY <1>4
    <3> HIDE DEF first
    <3> QED BY <1>1, <1>5, <1>8, <2>2, <2>4, <2>5, <3>1, LiesInParts
  <2>7. /\ writes'[w] = IF rest = <<>> THEN Tail(writes[w]) ELSE <<rest>> \o Tail(writes[w])
        /\ ctrlMu' = IF writes'[w] = <<>> THEN Free ELSE w
    <3> DEFINE next == IF rest = <<>> THEN Tail(writes[w]) ELSE <<rest>> \o Tail(writes[w])
    <3>1. DOMAIN writes = AllWriters /\ writes' = [writes EXCEPT ![w] = next]
      BY <1>2 DEF ChannelInv, ChannelTypeOK
    <3> HIDE DEF next
    <3>2. writes'[w] = next
      BY <3>1
    <3> QED BY <1>2, <2>1, <3>2 DEF next
  <2> DEFINE second == writes[w][2]
  <2>8. /\ Len(str) \in Nat
        /\ Len(writes[w]) = 1 => q + Len(first) = Len(str)
        /\ Len(writes[w]) = 2 => /\ Lies(str, q + Len(first), second)
                                 /\ q + Len(first) + Len(second) = Len(str)
                                 /\ Len(second) \in Nat
    <3>1. Len(writes[w]) = 2 => second \in Written(w)
      BY <1>4
    <3>2. Len(writes[w]) = 2 => Len(second) \in Nat
      BY <3>1 DEF Written
    <3>3. Len(str) \in Nat
      BY <1>1
    <3>4. /\ Len(writes[w]) = 1 => q + Len(first) = Len(str)
          /\ Len(writes[w]) = 2 => /\ Lies(str, q + Len(first), second)
                                   /\ q + Len(first) + Len(second) = Len(str)
      BY <1>6, <2>1 DEF WriterIsAt
    <3> QED BY <3>2, <3>3, <3>4
  <2>9. /\ Len(writes[w]) = 1 => Tail(writes[w]) = <<>>
        /\ Len(writes[w]) = 2 =>
              Len(Tail(writes[w])) = 1 /\ Tail(writes[w])[1] = second /\ Tail(writes[w]) # <<>>
        /\ rest \in Written(w) =>
              /\ Len(<<rest>> \o Tail(writes[w])) = Len(writes[w])
              /\ (<<rest>> \o Tail(writes[w]))[1] = rest
              /\ Len(writes[w]) = 2 => (<<rest>> \o Tail(writes[w]))[2] = second
              /\ <<rest>> \o Tail(writes[w]) # <<>>
    <3> HIDE DEF rest
    <3>1. writes[w] \in Seq(Written(w)) /\ Len(writes[w]) \in 1..2
      BY <1>4
    <3>2. /\ Len(writes[w]) = 1 => Tail(writes[w]) = <<>>
          /\ Len(writes[w]) = 2 =>
               Len(Tail(writes[w])) = 1 /\ Tail(writes[w])[1] = second /\ Tail(writes[w]) # <<>>
      BY <3>1, OneOrTwo
    <3>3. ASSUME NEW x \in Written(w)
          PROVE  /\ Len(<<x>> \o Tail(writes[w])) = Len(writes[w])
                 /\ (<<x>> \o Tail(writes[w]))[1] = x
                 /\ Len(writes[w]) = 2 => (<<x>> \o Tail(writes[w]))[2] = second
                 /\ <<x>> \o Tail(writes[w]) # <<>>
      BY <3>1, OneOrTwo
    <3> QED BY <3>2, <3>3, Zenon
  <2>10. rest # <<>> => rest \in Written(w)
    BY <2>2, <2>6 DEF Written
  <2> HIDE DEF first, second
  <2>11. WriterIsAt(str, q + n)'
    <3>1. CASE rest = <<>>
      <4>1. n = Len(first) /\ writes'[w] = Tail(writes[w])
        BY <1>4, <2>6, <2>7, <3>1
      <4>2. CASE Len(writes[w]) = 1
        <5>1. writes'[w] = <<>> /\ ctrlMu' = Free
          BY <2>7, <2>9, <4>1, <4>2, Zenon
        <5> QED BY <2>8, <4>1, <4>2, <5>1 DEF WriterIsAt
      <4>3. CASE Len(writes[w]) = 2
        <5>1. Len(writes'[w]) = 1 /\ writes'[w][1] = second
          BY <2>9, <4>1, <4>3, Zenon
        <5>2. ctrlMu' = w
          BY <2>7, <2>9, <4>1, <4>3, Zenon
        <5> QED BY <2>1, <2>8, <4>1, <4>3, <5>1, <5>2 DEF WriterIsAt
      <4> QED BY <1>4, <4>2, <4>3
    <3>2. CASE rest # <<>>
      <4>1. /\ writes'[w] = <<rest>> \o Tail(writes[w])
            /\ (q + n) + Len(rest) = q + Len(first)
        BY <1>4, <1>9, <2>6, <2>7, <3>2
      <4>2. Len(writes'[w]) = Len(writes[w]) /\ writes'[w][1] = rest
        BY <2>9, <2>10, <3>2, <4>1, Zenon
      <4>3. ctrlMu' = w
        BY <2>7, <2>9, <2>10, <3>2, <4>1, Zenon
      <4>4. Len(writes[w]) = 2 => writes'[w][2] = second
        BY <2>9, <2>10, <3>2, <4>1, Zenon
      <4>5. Len(writes[w]) = 1 => (q + n) + Len(rest) = Len(str)
        BY <2>8, <4>1
      <4>6. Len(writes[w]) = 2 => /\ Lies(str, (q + n) + Len(rest), second)
                                  /\ (q + n) + Len(rest) + Len(second) = Len(str)
        BY <2>8, <4>1
      <4> QED BY <2>1, <2>6, <4>2, <4>3, <4>4, <4>5, <4>6 DEF WriterIsAt
    <3> QED BY <3>1, <3>2
  <2>12. n = Len(OfControl(m.bytes)) /\ n \in Nat /\ Lies(str, q, OfControl(m.bytes))
    BY <1>9, <2>3, <2>6
  <2> QED BY <1>2, <1>10, <2>12, <2>11
<1> QED BY <1>2, <1>11, <1>12 DEF AllWriters

LEMMA ReadStreams ==
  ASSUME ChannelInv, FramesInStream, NEW n \in 1..MaxRead, Read(n)
  PROVE  FramesInStream' /\ UNCHANGED <<sent, received>>
<1>1. PICK str \in Seq(ControlByte), off \in Seq(Nat), at \in Seq(Nat) : Streamed(str, off, at)
  BY DEF FramesInStream
<1>2. /\ ReadsMore(n) \/ OpensNext(n)
      /\ UNCHANGED <<ctrlMu, writes, sent, received>>
  BY ReadSucceeds
<1>3. PICK r \in Nat : r = off[Len(received) + 1]
  BY <1>1, Places
<1>4. /\ Lies(str, r, inbox) /\ Lies(str, r + Len(inbox), OfControl(readBuf))
      /\ at[1] = r + Len(inbox) + Len(OfControl(readBuf))
      /\ inbox \in Seq(ControlByte) /\ n \in Nat \ {0}
      /\ Carried(str, at, wire) /\ wire \in Seq(Message) /\ at \in Seq(Nat)
  <2>1. n \in Nat \ {0}
    BY ChannelAssumption
  <2>2. inbox \in Seq(ControlByte) /\ wire \in Seq(Message)
    BY DEF ChannelInv, ChannelTypeOK
  <2> QED BY <1>1, <1>3, <2>1, <2>2 DEF Streamed, ReaderIsAt
<1>5. ASSUME NEW bytes, OneStream(bytes), Lies(str, r + Len(inbox), OfControl(bytes)), Take(bytes, n)
      PROVE  /\ Lies(str, r, inbox') /\ Lies(str, r + Len(inbox'), OfControl(readBuf'))
             /\ r + Len(inbox') + Len(OfControl(readBuf')) = r + Len(inbox) + Len(OfControl(bytes))
  <2> DEFINE c == OfControl(bytes)
             taken == OfControl(SubSeq(bytes, 1, Min({n, Len(bytes)})))
             rest == OfControl(SubSeq(bytes, n + 1, Len(bytes)))
  <2>1. inbox' = inbox \o taken /\ OfControl(readBuf') = rest
    BY <1>5 DEF Take
  <2>2. PICK m \in 0..Len(c) : taken = SubSeq(c, 1, m) /\ rest = SubSeq(c, m + 1, Len(c))
    BY <1>4, <1>5, TakenParts
  <2>3. PICK p \in Nat : p = r + Len(inbox)
    BY <1>4
  <2>4. c \in Seq(ControlByte) /\ Lies(str, p, c)
    BY <1>5, <2>3, ControlPart
  <2> HIDE DEF c, taken, rest
  <2>5. /\ Lies(str, p, taken) /\ Lies(str, p + m, rest)
        /\ taken \in Seq(ControlByte) /\ Len(taken) = m
        /\ rest \in Seq(ControlByte) /\ Len(rest) = Len(c) - m
    <3>1. /\ Lies(str, p, SubSeq(c, 1, m)) /\ Lies(str, p + m, SubSeq(c, m + 1, Len(c)))
          /\ SubSeq(c, 1, m) \in Seq(ControlByte) /\ Len(SubSeq(c, 1, m)) = m
          /\ SubSeq(c, m + 1, Len(c)) \in Seq(ControlByte)
          /\ Len(SubSeq(c, m + 1, Len(c))) = Len(c) - m
      BY <2>4, LiesInParts
    <3> QED BY <2>2, <3>1, Zenon
  <2>6. Lies(str, r, inbox \o taken)
    BY <1>4, <2>3, <2>5, LiesTogether
  <2>7. inbox \o taken \in Seq(ControlByte) /\ Len(inbox \o taken) = Len(inbox) + Len(taken)
    <3>1. inbox \in Seq(ControlByte) /\ taken \in Seq(ControlByte)
      BY <1>4, <2>5
    <3> QED BY <3>1, OneAfterTheOther
  <2>8. PICK x \in Nat, y \in Nat, z \in Nat, t \in Nat :
           x = Len(inbox) /\ y = Len(c) /\ z = Len(inbox \o taken) /\ t = Len(rest)
    <3>1. inbox \in Seq(ControlByte) /\ c \in Seq(ControlByte) /\ rest \in Seq(ControlByte)
          /\ inbox \o taken \in Seq(ControlByte)
      BY <1>4, <2>4, <2>5, <2>7
    <3>2. \A s \in Seq(ControlByte) : Len(s) \in Nat
      OBVIOUS
    <3> QED BY <3>1, <3>2, Zenon
  <2>9. z = x + m /\ t = y - m /\ p = r + x /\ m \in Nat
    <3>1. m \in Nat
      BY <2>4
    <3> QED BY <2>3, <2>5, <2>8, <2>7, <3>1, Zenon
  <2>10. r + z = p + m /\ r + z + t = r + x + y
    BY <2>9
  <2>11. /\ Lies(str, r, inbox \o taken) /\ Lies(str, r + Len(inbox \o taken), rest)
         /\ r + Len(inbox \o taken) + Len(rest) = r + Len(inbox) + Len(c)
    BY <2>5, <2>6, <2>8, <2>10, Zenon
  <2> QED BY <2>1, <2>11, Zenon DEF c
<1>6. ASSUME NEW ends \in Seq(Nat), Carried(str, ends, wire'),
             ends[Len(wire') + 1] = at[Len(wire) + 1],
             Lies(str, r, inbox'), Lies(str, r + Len(inbox'), OfControl(readBuf')),
             ends[1] = r + Len(inbox') + Len(OfControl(readBuf'))
      PROVE  FramesInStream'
  <2>1. Len(received') <= Len(sent') /\ FramesLie(str, off)'
    BY <1>1, <1>2 DEF Streamed, FramesLie
  <2>2. ReaderIsAt(str, off[Len(received) + 1], ends[1])'
    BY <1>2, <1>3, <1>6 DEF ReaderIsAt
  <2>3. WriterIsAt(str, ends[Len(wire) + 1])'
    BY <1>1, <1>2, <1>6 DEF Streamed, WriterIsAt
  <2>4. Streamed(str, off, ends)'
    BY <1>6, <2>1, <2>2, <2>3 DEF Streamed
  <2> QED BY <2>4 DEF FramesInStream
<1>7. CASE ReadsMore(n)
  <2>1. Take(readBuf, n) /\ wire' = wire /\ OneStream(readBuf)
    BY <1>7 DEF ReadsMore, ChannelInv, ChannelTypeOK
  <2>2. /\ Lies(str, r, inbox') /\ Lies(str, r + Len(inbox'), OfControl(readBuf'))
        /\ at[1] = r + Len(inbox') + Len(OfControl(readBuf'))
    BY <1>4, <1>5, <2>1
  <2> QED BY <1>2, <1>4, <1>6, <2>1, <2>2
<1>8. CASE OpensNext(n)
  <2>1. /\ readBuf = <<>> /\ wire # <<>> /\ wire' = Tail(wire) /\ Take(wire[1].bytes, n)
    BY <1>8 DEF OpensNext
  <2> DEFINE l == Len(wire)
             bytes == wire[1].bytes
  <2>2. /\ l \in Nat \ {0} /\ Len(wire') = l - 1 /\ Len(at) = l + 1
        /\ \A k \in 1..l - 1 : wire'[k] = wire[k + 1]
    BY <1>4, <2>1 DEF Carried
  <2>3. OneStream(bytes)
    BY <2>2 DEF ChannelInv, ChannelTypeOK
  <2>4. OfControl(readBuf) = <<>>
    BY <2>1 DEF OfControl, Range
  <2>5. /\ at[1] = r + Len(inbox) /\ Lies(str, r + Len(inbox), OfControl(bytes))
        /\ at[2] = at[1] + Len(OfControl(bytes))
    <3>1. at[1] = r + Len(inbox)
      BY <1>4, <2>4
    <3>2. 1 \in 1..Len(wire)
      BY <2>2
    <3>3. Lies(str, at[1], OfControl(bytes)) /\ at[1 + 1] = at[1] + Len(OfControl(bytes))
      BY <1>4, <3>2 DEF Carried
    <3> QED BY <3>1, <3>3
  <2>6. PICK ends \in Seq(Nat) : /\ Len(ends) = l /\ \A k \in 1..l : ends[k] = at[k + 1]
    <3>1. Tail(at) \in Seq(Nat) /\ Len(Tail(at)) = l /\ \A k \in 1..l : Tail(at)[k] = at[k + 1]
      BY <1>4, <2>2
    <3> QED BY <3>1
  <2>7. /\ ends[1] = at[2] /\ ends[Len(wire') + 1] = at[l + 1]
    <3> HIDE DEF l
    <3>1. 1 \in 1..l /\ 1 + 1 = 2 /\ Len(wire') + 1 = l /\ l \in 1..l
      BY <2>2
    <3> QED BY <2>6, <3>1
  <2>8. /\ Lies(str, r, inbox') /\ Lies(str, r + Len(inbox'), OfControl(readBuf'))
        /\ ends[1] = r + Len(inbox') + Len(OfControl(readBuf'))
    BY <1>5, <2>1, <2>3, <2>5, <2>7
  <2>9. Carried(str, ends, wire')
    <3>1. ASSUME NEW k \in 1..Len(wire')
          PROVE  /\ Lies(str, ends[k], OfControl(wire'[k].bytes))
                 /\ ends[k + 1] = ends[k] + Len(OfControl(wire'[k].bytes))
      <4>1. /\ k \in 1..l /\ k + 1 \in 1..l /\ k \in 1..l - 1
        BY <2>2
      <4>2. ends[k] = at[k + 1] /\ ends[k + 1] = at[(k + 1) + 1] /\ wire'[k] = wire[k + 1]
        BY <2>2, <2>6, <4>1
      <4>3. /\ Lies(str, at[k + 1], OfControl(wire[k + 1].bytes))
            /\ at[(k + 1) + 1] = at[k + 1] + Len(OfControl(wire[k + 1].bytes))
        BY <1>4, <4>1 DEF Carried
      <4> QED BY <4>2, <4>3
    <3>2. Len(ends) = Len(wire') + 1
      BY <2>2, <2>6
    <3> QED BY <2>6, <3>1, <3>2 DEF Carried
  <2> QED BY <1>2, <1>6, <2>7, <2>8, <2>9
<1> QED BY <1>2, <1>7, <1>8

\* The reader takes the next frame that was sent, and all of it.
LEMMA ReadFrameStreams ==
  ASSUME ChannelInv, FramesInStream, ReadFrame
  PROVE  FramesInStream' /\ Fifo!Receive
<1>1. PICK str \in Seq(ControlByte), off \in Seq(Nat), at \in Seq(Nat) : Streamed(str, off, at)
  BY DEF FramesInStream
<1>2. PICK k \in Nat \ {0} : k = Len(received) + 1
  BY <1>1, Places
<1>3. PICK r \in Nat : r = off[k]
  BY <1>1, <1>2, Places
<1>4. /\ Lies(str, r, inbox) /\ Lies(str, r + Len(inbox), OfControl(readBuf))
      /\ at[1] = r + Len(inbox) + Len(OfControl(readBuf))
      /\ FramesLie(str, off) /\ Len(received) <= Len(sent) /\ Len(sent) \in Nat
      /\ Carried(str, at, wire) /\ WriterIsAt(str, at[Len(wire) + 1])
  <2>1. Streamed(str, off, at) /\ r = off[Len(received) + 1]
    BY <1>1, <1>2, <1>3
  <2>2. Len(sent) \in Nat
    BY DEF ChannelInv, ChannelTypeOK
  <2> QED BY <2>1, <2>2 DEF Streamed, ReaderIsAt
<1>5. /\ inbox \in Seq(ControlByte) /\ inbox # <<>> /\ sent \in Seq(Frames)
      /\ received \in Seq(Frames \cup {Garbled})
      /\ UNCHANGED <<ctrlMu, writes, wire, readBuf, sent>>
  BY DEF ReadFrame, ChannelInv, ChannelTypeOK
<1>6. Len(inbox) \in Nat \ {0} /\ Len(str) \in Nat /\ r + Len(inbox) <= Len(str)
      /\ \A j \in 1..Len(inbox) : inbox[j] = str[r + j]
  BY <1>1, <1>4, <1>5, HasFirst DEF Lies
<1>7. k \in 1..Len(sent)
  <2>1. k <= Len(sent) + 1
    BY <1>2, <1>4, <1>5
  <2>2. k # Len(sent) + 1
    <3>1. off[Len(sent) + 1] = Len(str)
      BY <1>4 DEF FramesLie
    <3>2. r # Len(str)
      BY <1>6
    <3> QED BY <1>3, <3>1, <3>2
  <2> DEFINE l == Len(sent)
  <2>3. k \in Nat \ {0} /\ l \in Nat /\ k <= l + 1 /\ k # l + 1
    BY <1>4, <2>1, <2>2
  <2> HIDE DEF l
  <2>4. k \in 1..l
    BY <2>3
  <2> QED BY <2>4 DEF l
<1>8. PICK f \in Frames : f = sent[k]
  BY <1>5, <1>7
<1>9. /\ Lies(str, r, FrameBytes(f)) /\ off[k + 1] = r + Len(FrameBytes(f))
  BY <1>3, <1>4, <1>7, <1>8 DEF FramesLie
<1>10. PICK n \in Nat \ {0} : n = Length[f]
  BY FrameHasBytes
<1>11. /\ FrameBytes(f) \in Seq(ControlByte) /\ Len(FrameBytes(f)) = n + 1
       /\ \A j \in 1..n + 1 : FrameBytes(f)[j] = Byte(f, j - 1)
  BY <1>10, FrameHasBytes
<1>12. \A j \in 1..n + 1 : str[r + j] = FrameBytes(f)[j]
  BY <1>9, <1>11 DEF Lies
<1>13. inbox[1].frame = f
  <2>1. 1 \in 1..n + 1 /\ 1 \in 1..Len(inbox) /\ 1 - 1 = 0
    BY <1>6
  <2>2. inbox[1] = Byte(f, 0)
    BY <1>6, <1>11, <1>12, <2>1
  <2> QED BY <2>2 DEF Byte
<1>14. /\ Len(inbox) > n /\ inbox' = SubSeq(inbox, n + 2, Len(inbox))
       /\ received' = Append(received,
              IF SubSeq(inbox, 1, n + 1) = FrameBytes(f) THEN f ELSE Garbled)
  BY <1>10, <1>13 DEF ReadFrame, FrameBytes
<1>15. n + 1 \in 0..Len(inbox)
  BY <1>6, <1>14
<1>16. SubSeq(inbox, 1, n + 1) = FrameBytes(f)
  <2>1. /\ SubSeq(inbox, 1, n + 1) \in Seq(ControlByte) /\ Len(SubSeq(inbox, 1, n + 1)) = n + 1
        /\ \A j \in 1..n + 1 : SubSeq(inbox, 1, n + 1)[j] = inbox[j]
    BY <1>5, <1>15, CutInTwo
  <2>2. \A j \in 1..n + 1 : SubSeq(inbox, 1, n + 1)[j] = FrameBytes(f)[j]
    BY <1>6, <1>12, <1>15, <2>1
  <2> QED BY <1>11, <2>1, <2>2, SameSequence
<1>17. received' = Append(received, sent[k])
  BY <1>8, <1>14, <1>16
<1>18. Fifo!Receive
  BY <1>2, <1>4, <1>5, <1>7, <1>17 DEF Fifo!Receive
<1>19. Len(received') = k /\ Len(received') <= Len(sent')
  BY <1>2, <1>5, <1>7, <1>14
<1>20. PICK s \in Nat : s = r + (n + 1) /\ s = off[k + 1]
  BY <1>9, <1>11
<1>21. /\ Lies(str, s, inbox') /\ Len(inbox') = Len(inbox) - (n + 1)
       /\ s + Len(inbox') = r + Len(inbox)
  <2>1. /\ Lies(str, r + (n + 1), SubSeq(inbox, (n + 1) + 1, Len(inbox)))
        /\ Len(SubSeq(inbox, (n + 1) + 1, Len(inbox))) = Len(inbox) - (n + 1)
    <3>1. PICK d \in 0..Len(inbox) : d = n + 1
      BY <1>15
    <3>2. str \in Seq(ControlByte) /\ inbox \in Seq(ControlByte) /\ Lies(str, r, inbox)
      BY <1>1, <1>4, <1>5
    <3>3. /\ Lies(str, r + d, SubSeq(inbox, d + 1, Len(inbox)))
          /\ Len(SubSeq(inbox, d + 1, Len(inbox))) = Len(inbox) - d
      BY <3>2, LiesInParts
    <3> QED BY <3>1, <3>3
  <2>2. (n + 1) + 1 = n + 2
    OBVIOUS
  <2>3. Lies(str, s, inbox') /\ Len(inbox') = Len(inbox) - (n + 1)
    BY <1>14, <1>20, <2>1, <2>2
  <2> QED BY <1>6, <1>20, <2>3
<1>22. ReaderIsAt(str, off[Len(received) + 1], at[1])'
  <2>1. off[Len(received') + 1] = s
    BY <1>19, <1>20
  <2> QED BY <1>4, <1>5, <1>21, <2>1 DEF ReaderIsAt
<1>23. FramesLie(str, off)' /\ WriterIsAt(str, at[Len(wire) + 1])'
  BY <1>4, <1>5 DEF FramesLie, WriterIsAt
<1>24. Streamed(str, off, at)'
  BY <1>4, <1>5, <1>19, <1>22, <1>23 DEF Streamed
<1> QED BY <1>18, <1>24 DEF FramesInStream

LEMMA StreamStep ==
  ASSUME ChannelInv, FramesInStream, [ChannelNext]_channelVars
  PROVE  /\ FramesInStream'
         /\ [(\E f \in Frames : Fifo!Send(f)) \/ Fifo!Receive]_<<sent, received>>
<1>1. CASE Handshake \/ Break \/ UNCHANGED channelVars
  <2>1. UNCHANGED <<ctrlMu, writes, wire, readBuf, inbox, sent, received>>
    BY <1>1 DEF Handshake, Break, channelVars
  <2>2. PICK str \in Seq(ControlByte), off \in Seq(Nat), at \in Seq(Nat) : Streamed(str, off, at)
    BY DEF FramesInStream
  <2>3. Streamed(str, off, at)'
    BY <2>1, <2>2 DEF Streamed, FramesLie, ReaderIsAt, WriterIsAt
  <2> QED BY <2>1, <2>2, <2>3 DEF FramesInStream
<1>2. CASE WriteOther
  BY <1>2, WriteOtherStreams
<1>3. ASSUME NEW w \in Writers \cup {Other}, Encrypt(w) \/ WriteRaw(w)
      PROVE  FramesInStream' /\ UNCHANGED <<sent, received>>
  BY <1>3, EncryptStreams, WriteRawStreams DEF AllWriters
<1>4. ASSUME NEW n \in 1..MaxRead, Read(n)
      PROVE  FramesInStream' /\ UNCHANGED <<sent, received>>
  BY <1>4, ReadStreams
<1>5. CASE ReadFrame
  BY <1>5, ReadFrameStreams
<1>6. ASSUME NEW w \in Writers, NEW f \in Frames, WriteFrame(w, f)
      PROVE  /\ FramesInStream'
             /\ [(\E g \in Frames : Fifo!Send(g)) \/ Fifo!Receive]_<<sent, received>>
  BY <1>6, WriteFrameStreams DEF Fifo!Send
<1> QED BY <1>1, <1>2, <1>3, <1>4, <1>5, <1>6 DEF ChannelNext, ChannelRuns

LEMMA StreamStarts ==
  ASSUME ChannelInit
  PROVE  FramesInStream /\ Fifo!FifoInit
<1>1. Streamed(<<>>, <<0>>, <<0>>)
  BY DEF ChannelInit, Streamed, FramesLie, ReaderIsAt, Carried, WriterIsAt, Lies, OfControl, Range
<1>2. /\ <<>> \in Seq(ControlByte) /\ <<0>> \in Seq(Nat)
  OBVIOUS
<1> QED BY <1>1, <1>2 DEF FramesInStream, ChannelInit, Fifo!FifoInit

\* The frames of the control stream arrive whole, once and in the order in which
\* their writers got the mutex, however the bytes are cut, sealed and read: the
\* connection implements the FIFO of frames that client and server count on.
THEOREM ConnectionIsFrameFIFO == ChannelSpec => ImplementsFrameFIFO
<1>1. ChannelInit => FramesInStream /\ Fifo!FifoInit
  BY StreamStarts
<1>2. /\ ChannelInv /\ FramesInStream /\ [ChannelNext]_channelVars
      => /\ FramesInStream'
         /\ [(\E f \in Frames : Fifo!Send(f)) \/ Fifo!Receive]_<<sent, received>>
  BY StreamStep
<1> QED BY <1>1, <1>2, ChannelInvariance, PTL DEF ChannelSpec, ImplementsFrameFIFO, Fifo!FifoSpec
-----------------------------------------------------------------------------
(* What is under way when nothing can run.                                 *)

\* Nobody has a guard of ChannelRuns: there is no chunk to put on the wire, each writer
\* waits for another's mutex, and the reader has no byte to read and no whole frame.
AtRest ==
    /\ \A w \in AllWriters : sealed[w] = <<>> /\ (writes[w] # <<>> => writeMu \notin {Free, w})
    /\ readBuf = <<>> /\ wire = <<>>
    /\ inbox # <<>> => Len(inbox) <= Length[inbox[1].frame]

\* Only a writer in the middle of a Write holds writeMu.
MutexIsUsed == writeMu # Free => writeMu \in AllWriters /\ writes[writeMu] # <<>>

\* What was received is the beginning of what was sent.
ReceivedInOrder ==
    /\ sent \in Seq(Frames) /\ received \in Seq(Frames) /\ Len(received) <= Len(sent)
    /\ \A k \in 1..Len(received) : received[k] = sent[k]

LEMMA MutexStaysUsed ==
  ASSUME ChannelInv, MutexIsUsed, [ChannelNext]_channelVars
  PROVE  MutexIsUsed'
<1>1. /\ writes = [w \in AllWriters |-> writes[w]] /\ DOMAIN writes = AllWriters
      /\ Writers \subseteq AllWriters /\ Other \in AllWriters
  BY Zenon DEF ChannelInv, ChannelTypeOK, AllWriters
<1>2. ASSUME NEW w \in AllWriters, Encrypt(w) PROVE MutexIsUsed'
  BY Zenon, <1>2 DEF Encrypt, MutexIsUsed
<1>3. ASSUME NEW w \in AllWriters, WriteRaw(w) PROVE MutexIsUsed'
  <2>1. writeMu = w
    BY Zenon, <1>3 DEF WriteRaw, ChannelInv, NonceIsNext
  <2> DEFINE rest == SubSeq(writes[w][1], Len(sealed[w][1].bytes) + 1, Len(writes[w][1]))
  <2>2. /\ writes' = [writes EXCEPT ![w] = IF rest = <<>> THEN Tail(@) ELSE <<rest>> \o Tail(@)]
        /\ writeMu' = IF rest = <<>> /\ writeMu = w THEN Free ELSE writeMu
        /\ sealed[w] # <<>>
    BY Zenon, <1>3 DEF WriteRaw
  <2>3. writes[w] # <<>>
    BY Zenon, <2>2 DEF ChannelInv, SealedIsBeginning
  <2>4. Tail(writes[w]) \in Seq(Written(w))
    BY <2>3, FirstWrite DEF ChannelInv
  <2> HIDE DEF rest
  <2>5. <<rest>> \o Tail(writes[w]) # <<>>
    <3>1. PICK t \in Seq(Written(w)) : t = Tail(writes[w])
      BY Zenon, <2>4
    <3>2. Len(<<rest>> \o t) = Len(t) + 1 /\ Len(t) \in Nat
      OBVIOUS
    <3>3. <<rest>> \o t # <<>>
      BY <3>2
    <3> QED BY Zenon, <3>1, <3>3
  <2>6. CASE rest = <<>>
    BY Zenon, <2>1, <2>2, <2>6 DEF MutexIsUsed
  <2>7. CASE rest # <<>>
    <3>1. writeMu' = w /\ writes'[w] = <<rest>> \o Tail(writes[w])
      BY Zenon, <1>1, <2>1, <2>2, <2>7
    <3> QED BY Zenon, <2>5, <3>1 DEF MutexIsUsed
  <2> QED BY Zenon, <2>6, <2>7
<1>4. ASSUME NEW w \in AllWriters, NEW todo, todo # <<>>, UNCHANGED writeMu,
             writes' = writes \/ writes' = [writes EXCEPT ![w] = todo]
      PROVE  MutexIsUsed'
  BY Zenon, <1>1, <1>4 DEF MutexIsUsed
<1>5. ASSUME NEW w \in Writers, NEW f \in Frames, WriteFrame(w, f) PROVE MutexIsUsed'
  <2>1. <<<<Byte(f, 0)>>, Bytes(f)>> # <<>>
    OBVIOUS
  <2>2. w \in AllWriters /\ UNCHANGED writeMu
    BY Zenon, <1>1, <1>5 DEF WriteFrame
  <2>3. writes' = writes \/ writes' = [writes EXCEPT ![w] = <<<<Byte(f, 0)>>, Bytes(f)>>]
    BY Zenon, <1>5 DEF WriteFrame
  <2> QED BY Zenon, <1>4, <2>1, <2>2, <2>3
<1>6. CASE WriteOther
  <2>1. <<<<Byte(Other, 1)>>>> # <<>>
    OBVIOUS
  <2> QED BY Zenon, <1>1, <1>4, <1>6, <2>1 DEF WriteOther
<1>7. CASE Handshake \/ Break \/ ReadFrame \/ (\E n \in 1..MaxRead : Read(n)) \/ UNCHANGED channelVars
  <2>1. UNCHANGED <<writes, writeMu>>
    BY Zenon, <1>7 DEF Handshake, Break, ReadFrame, Read, channelVars
  <2> QED BY Zenon, <2>1 DEF MutexIsUsed
<1> QED BY Zenon, <1>2, <1>3, <1>5, <1>6, <1>7 DEF ChannelNext, ChannelRuns, AllWriters

LEMMA ReceivedStaysInOrder ==
  ASSUME ReceivedInOrder, [(\E f \in Frames : Fifo!Send(f)) \/ Fifo!Receive]_<<sent, received>>
  PROVE  ReceivedInOrder'
<1>1. ASSUME NEW f \in Frames, Fifo!Send(f) PROVE ReceivedInOrder'
  BY <1>1 DEF Fifo!Send, ReceivedInOrder
<1>2. ASSUME Fifo!Receive PROVE ReceivedInOrder'
  BY <1>2 DEF Fifo!Receive, ReceivedInOrder
<1>3. ASSUME UNCHANGED <<sent, received>> PROVE ReceivedInOrder'
  BY <1>3 DEF ReceivedInOrder
<1> QED BY Zenon, <1>1, <1>2, <1>3

\* When nothing can run, no frame is half way, be it in a writer's hands, on the wire
\* or in the reader's buffers, and nobody has the mutex of the control stream.
THEOREM NothingIsLeftBehind == ChannelSpec => [](AtRest => ctrlMu = Free /\ sent = received)
<1>1. ChannelInit => MutexIsUsed /\ ReceivedInOrder
  BY DEF ChannelInit, MutexIsUsed, ReceivedInOrder
<1>2. ChannelInv /\ MutexIsUsed /\ [ChannelNext]_channelVars => MutexIsUsed'
  BY Zenon, MutexStaysUsed
<1>3. ReceivedInOrder /\ [(\E f \in Frames : Fifo!Send(f)) \/ Fifo!Receive]_<<sent, received>>
      => ReceivedInOrder'
  BY Zenon, ReceivedStaysInOrder
<1>4. /\ ChannelInv /\ FramesInStream /\ [ChannelNext]_channelVars
      => /\ FramesInStream'
         /\ [(\E f \in Frames : Fifo!Send(f)) \/ Fifo!Receive]_<<sent, received>>
  BY StreamStep
<1>5. ChannelInit => FramesInStream
  BY StreamStarts
<1>6. ASSUME ChannelInv, MutexIsUsed, ReceivedInOrder, FramesInStream, AtRest
      PROVE  ctrlMu = Free /\ sent = received
  <2>1. \A w \in AllWriters : writes[w] = <<>>
    BY Zenon, <1>6 DEF AtRest, MutexIsUsed
  <2>2. ctrlMu = Free
    BY Zenon, <1>6, <2>1 DEF ChannelInv, ChannelTypeOK, WritersTakeTurns, AllWriters
  <2>3. PICK str \in Seq(ControlByte), off \in Seq(Nat), at \in Seq(Nat) : Streamed(str, off, at)
    BY Zenon, <1>6 DEF FramesInStream
  <2>4. /\ Len(off) = Len(sent) + 1 /\ Len(sent) \in Nat /\ Len(received) \in Nat
        /\ Len(received) <= Len(sent) /\ off[Len(received) + 1] \in Nat
        /\ inbox \in Seq(ControlByte)
    BY Zenon, <1>6, <2>3, Places
  <2>5. PICK r \in Nat : r = off[Len(received) + 1]
    BY Zenon, <2>4
  <2>6. wire = <<>> /\ readBuf = <<>> /\ OfControl(readBuf) = <<>>
    <3>1. OfControl(<<>>) = <<>>
      BY DEF OfControl
    <3> QED BY Zenon, <1>6, <3>1 DEF AtRest
  <2>7. r + Len(inbox) = Len(str)
    <3>1. /\ at[1] = r + Len(inbox) + Len(OfControl(readBuf))
          /\ at[Len(wire) + 1] = Len(str)
      BY Zenon, <2>2, <2>3, <2>5 DEF Streamed, ReaderIsAt, WriterIsAt
    <3>2. Len(<<>>) = 0
      OBVIOUS
    <3>3. at[0 + 1] = Len(str) /\ at[1] = r + Len(inbox) + 0
      BY Zenon, <2>6, <3>1, <3>2
    <3>4. Len(inbox) \in Nat
      BY <2>4
    <3> QED BY <3>3, <3>4
  <2>8. ASSUME Len(received) < Len(sent) PROVE FALSE
    <3>1. PICK k \in 1..Len(sent) : k = Len(received) + 1
      BY <2>4, <2>8
    <3>2. Lies(str, r, FrameBytes(sent[k])) /\ Lies(str, r, inbox)
      BY Zenon, <2>3, <2>5, <3>1 DEF Streamed, FramesLie, ReaderIsAt
    <3>3. PICK f \in Frames : f = sent[k]
      BY <1>6, <3>1 DEF ReceivedInOrder
    <3>4. PICK n \in Nat \ {0} : n = Length[f]
      BY Zenon, FrameHasBytes
    <3>5. Len(FrameBytes(f)) = n + 1 /\ FrameBytes(f)[1] = Byte(f, 0)
      <4>1. Len(FrameBytes(f)) = n + 1 /\ \A j \in 1..n + 1 : FrameBytes(f)[j] = Byte(f, j - 1)
        BY Zenon, <3>4, FrameHasBytes
      <4>2. 1 \in 1..n + 1 /\ 1 - 1 = 0
        OBVIOUS
      <4>3. FrameBytes(f)[1] = Byte(f, 1 - 1)
        BY Zenon, <4>1, <4>2
      <4> QED BY <4>1, <4>2, <4>3
    <3>6. PICK m \in Nat : m = Len(inbox)
      BY <2>4
    <3>7. PICK l \in Nat : l = Len(str)
      BY <2>3
    <3>8. r + (n + 1) <= l
      BY Zenon, <3>2, <3>3, <3>5, <3>7 DEF Lies
    <3>9. r + m = l
      BY Zenon, <2>7, <3>6, <3>7
    <3>10. m >= n + 1 /\ 1 \in 1..m /\ 1 \in 1..n + 1
      BY <3>8, <3>9
    <3>11. inbox[1] = str[r + 1] /\ FrameBytes(f)[1] = str[r + 1]
      BY Zenon, <3>2, <3>3, <3>5, <3>6, <3>10 DEF Lies
    <3>12. inbox[1].frame = f
      BY <3>5, <3>11 DEF Byte
    <3>13. inbox # <<>>
      BY <3>6, <3>10
    <3>14. m <= n
      BY Zenon, <1>6, <3>4, <3>6, <3>12, <3>13 DEF AtRest
    <3> QED BY <3>10, <3>14
  <2>9. Len(received) = Len(sent)
    BY <2>4, <2>8
  <2>10. sent = received
    <3>1. /\ received \in Seq(Frames) /\ sent \in Seq(Frames)
          /\ \A k \in 1..Len(received) : received[k] = sent[k]
      BY Zenon, <1>6 DEF ReceivedInOrder
    <3> QED BY Zenon, <2>9, <3>1, SameSequence
  <2> QED BY <2>2, <2>10
<1> QED BY <1>1, <1>2, <1>3, <1>4, <1>5, <1>6, ChannelInvariance, PTL DEF ChannelSpec
=============================================================================
