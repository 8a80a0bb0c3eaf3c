------------------------------ MODULE StreamProxy ------------------------------
(***************************************************************************)
(* A connection that the server passes through: a TCP proxy's              *)
(* (server/tcp_proxy.go), or a WebSocket or event stream's (server.go,     *)
(* handleWebSocketProxy).  Two copy loops at the server and two at the     *)
(* client join the visitor's socket, a yamux stream and the local          *)
(* service's socket.  A link is one direction of one of the three; its     *)
(* bytes are counted.                                                      *)
(***************************************************************************)
EXTENDS Integers

CONSTANTS TCPForward,   \* whether the client was started with --tcp
          MaxSend       \* a bound: bytes that an end sends

ASSUME ProxyAssumption == TCPForward \in BOOLEAN /\ MaxSend \in Nat

VARIABLES stage,     \* of the yamux stream: "none", "opened", "accepted" or "refused"
          session,   \* "up", "broken" by the network, or "timedOut" by yamux
          data,      \* bytes in each link that were not taken out
          eof,       \* links whose writer closed
          cut,       \* links on which reads and writes fail; "service" when it left, and
                     \* "hijack" when the visitor's connection could not be had
          copying,   \* copy loops that run
          stuck,     \* loops of the client that wait for ever to say they are done
          wrote      \* bytes that the local service sent

proxyVars == <<stage, session, data, eof, cut, copying, stuck, wrote>>

Links == {"in1", "in2", "in3", "out1", "out2", "out3"}   \* visitor to service and back
From == [serverIn |-> "in1", clientIn |-> "in2", clientOut |-> "out1", serverOut |-> "out2"]
To == [serverIn |-> "in2", clientIn |-> "in3", clientOut |-> "out2", serverOut |-> "out3"]
AtServer == {"serverIn", "serverOut"}
AtClient == {"clientIn", "clientOut"}

ProxyInit ==
    /\ stage = "none" /\ session = "up" /\ data = [l \in Links |-> 0]
    /\ eof = {} /\ cut = {} /\ copying = {} /\ stuck = {} /\ wrote = 0

\* A stream is opened, which does not wait for the client, and its marker written;
\* else the visitor's connection is closed.
Open(request) ==
    /\ stage = "none"
    /\ \/ /\ session = "up" /\ stage' = "opened"
          /\ data' = [data EXCEPT !["in2"] = request]
          /\ copying' = AtServer /\ UNCHANGED <<eof, cut>>
       \/ /\ session # "up" /\ stage' = "refused"
          /\ eof' = eof \cup {"out3"} /\ cut' = cut \cup {"in1"} /\ UNCHANGED <<data, copying>>
    /\ UNCHANGED <<session, stuck, wrote>>

handleConn == Open(0)

\* As for every request over HTTP/2: the stream is closed behind its marker, and the
\* visitor gets an error.
HijackFails ==
    /\ stage = "none" /\ session = "up" /\ stage' = "opened"
    /\ eof' = eof \cup {"in2", "out3"} /\ cut' = cut \cup {"in1", "hijack"}
    /\ UNCHANGED <<session, data, copying, stuck, wrote>>

\* The request, read by the HTTP server, is written anew.
handleWebSocketProxy == Open(1) \/ HijackFails

\* acceptTCPStreams, which only a client with --tcp runs, and proxyTCP's dial.
AcceptStream ==
    /\ TCPForward /\ stage = "opened" /\ session = "up"
    /\ \/ /\ stage' = "accepted" /\ copying' = copying \cup AtClient
          /\ UNCHANGED eof
       \/ stage' = "refused" /\ eof' = eof \cup {"out2"} /\ UNCHANGED copying
    /\ UNCHANGED <<session, data, cut, stuck, wrote>>

\* io.Copy moves what it reads.
Move(g) ==
    /\ g \in copying /\ data[From[g]] > 0 /\ {From[g], To[g]} \cap cut = {}
    /\ data' = [data EXCEPT ![From[g]] = @ - 1, ![To[g]] = @ + 1]
    /\ UNCHANGED <<stage, session, eof, cut, copying, stuck, wrote>>

\* Mutant: the end of the input is looked at before what came with it.
EndsEarly(g) == From[g] \in eof \cup cut

\* io.Copy returns when the input ended, or a read or a write fails.
Ends(g) ==
    \/ From[g] \in cut
    \/ data[From[g]] = 0 /\ From[g] \in eof
    \/ data[From[g]] > 0 /\ To[g] \in cut

\* Mutant: the stream is not closed behind the visitor.
KeepStream(g) == g = "serverIn" /\ UNCHANGED <<eof, cut, stuck>>

\* The server half-closes the stream behind the visitor, and closes the visitor's
\* connection behind the stream.
ServerCloses(g) ==
    /\ \/ g = "serverIn" /\ eof' = eof \cup {"in2"} /\ UNCHANGED cut
       \/ g = "serverOut" /\ eof' = eof \cup {"out3"} /\ cut' = cut \cup {"in1"}
    /\ UNCHANGED stuck

\* proxyTCP returns behind the first loop, closing both connections; the second
\* then finds nobody who listens.
ClientCloses(g) ==
    \/ /\ AtClient \subseteq copying
       /\ eof' = eof \cup {"in3", "out2"} /\ cut' = cut \cup {"in3", "out1"} /\ UNCHANGED stuck
    \/ /\ ~(AtClient \subseteq copying)
       /\ stuck' = stuck \cup {g} /\ UNCHANGED <<eof, cut>>

CopyEnds(g) ==
    /\ g \in copying /\ Ends(g)
    /\ copying' = copying \ {g}
    /\ (g \in AtServer /\ ServerCloses(g)) \/ (g \in AtClient /\ ClientCloses(g))
    /\ UNCHANGED <<stage, session, data, wrote>>

\* yamux: a stream that is not accepted in 75 seconds ends the session it is of,
\* even if it was closed meanwhile.  A client that accepts does so in time.
StreamOpenTimeout ==
    /\ ~TCPForward /\ stage = "opened" /\ session = "up"
    /\ session' = "timedOut" /\ cut' = cut \cup {"in2", "out2"}
    /\ UNCHANGED <<stage, data, eof, copying, stuck, wrote>>

SessionBreaks ==
    /\ session = "up"
    /\ session' = "broken" /\ cut' = cut \cup {"in2", "out2"}
    /\ UNCHANGED <<stage, data, eof, copying, stuck, wrote>>

\* The visitor sends, closes its side, or closes at all.
Visitor ==
    /\ stage # "none" /\ "in1" \notin eof \cup cut
    /\ \/ data["in1"] + data["in2"] + data["in3"] < MaxSend
          /\ data' = [data EXCEPT !["in1"] = @ + 1] /\ UNCHANGED <<eof, cut>>
       \/ eof' = eof \cup {"in1"} /\ cut' \in {cut, cut \cup {"out3"}} /\ UNCHANGED data
    /\ UNCHANGED <<stage, session, copying, stuck, wrote>>

\* The local service sends, closes its side, or closes at all.
Service ==
    /\ stage = "accepted" /\ "out1" \notin eof \cup cut
    /\ \/ wrote < MaxSend /\ wrote' = wrote + 1
          /\ data' = [data EXCEPT !["out1"] = @ + 1] /\ UNCHANGED <<eof, cut>>
       \/ eof' = eof \cup {"out1"} /\ cut' \in {cut, cut \cup {"in3", "service"}}
          /\ UNCHANGED <<data, wrote>>
    /\ UNCHANGED <<stage, session, copying, stuck>>

ProxyRuns == \/ AcceptStream \/ StreamOpenTimeout
             \/ \E g \in AtServer \cup AtClient : Move(g) \/ CopyEnds(g)

ProxyNext == handleConn \/ handleWebSocketProxy \/ ProxyRuns \/ SessionBreaks \/ Visitor \/ Service

ProxySpec == ProxyInit /\ [][ProxyNext]_proxyVars
-----------------------------------------------------------------------------
\* A visitor that was passed through and keeps its connection open gets all of an
\* answer whose end the service marks by closing its side, though four loops take it
\* there and close behind each other.  (One that closes its side first does not:
\* proxyTCP returns behind the first loop.)
WholeAnswer ==
    ("out3" \in eof /\ stage = "accepted" /\ session = "up"
        /\ "in1" \notin eof /\ {"service", "hijack"} \cap cut = {})
    => data["out3"] = wrote

\* Whoever leaves first, no loop is left copying: the close goes all the way
\* round, over half-closed streams and sockets.
CopiesEnd ==
    []<>((({"in1", "out1"} \cap eof # {} /\ TCPForward) \/ session # "up") => copying = {})

\* README.md:195: "SSE/streaming -- pass-through without buffering (Vercel AI SDK,
\* Ollama compatible)", as of `pie connect --ollama`: unless the network breaks or
\* the visitor leaves, the client takes the stream up.
StreamIsPassedThrough ==
    (stage = "opened" /\ "hijack" \notin cut) ~> (stage # "opened" \/ "in1" \in eof \/ session = "broken")
=============================================================================
