---------------------------- MODULE Client_proofs ----------------------------
(***************************************************************************)
(* What surrounds the server, for any number of clients, requests, users   *)
(* and commands: a client that is told to stop takes up one more request   *)
(* at most, a request gets one true answer, a login reaches the server,    *)
(* the account file stays consistent, and where nothing can run the        *)
(* clients are online and the requests over.                               *)
(***************************************************************************)
EXTENDS ClientTunnels, Forwarder, ServerSetup, ClientFiles, TLAPS

-----------------------------------------------------------------------------
(* The clients of one process.                                             *)

Phases == {"new", "dialling", "greeting", "checking", "reading", "waiting", "ended"}

ClientsTypeOK ==
    /\ phase \in [ClientIDs -> Phases]
    /\ cancelled \in SUBSET ClientIDs
    /\ late \in [ClientIDs -> Nat]
    /\ running \in [Ports -> ClientIDs \cup {NoClient}]

\* A late request brings the client to the check of its context, and so to its end.
LateClientStops ==
    \A i \in ClientIDs :
        /\ i \notin cancelled => late[i] = 0
        /\ late[i] # 0 => late[i] = 1 /\ phase[i] \in {"checking", "ended"}

ClientsInv == ClientsTypeOK /\ LateClientStops

\* What each step of a client does, as far as the invariant sees it: it moves on,
\* and counts a request at most, for which it sat reading.
ClientMoves(i) ==
    \E p \in Phases \ {"new"} :
        /\ phase[i] # "new" /\ phase' = [phase EXCEPT ![i] = p]
        /\ \/ late' = late /\ (phase[i] = "checking" /\ i \in cancelled => p = "ended")
                           /\ phase[i] # "ended"
           \/ /\ phase[i] = "reading" /\ p = "checking"
              /\ late' = [late EXCEPT ![i] = IF i \in cancelled THEN @ + 1 ELSE @]
        /\ UNCHANGED <<cancelled, running>>

LEMMA ClientStepsMove ==
  ASSUME NEW i \in ClientIDs, ClientRuns(i) \/ TakeRequest(i) \/ Fail(i)
  PROVE  ClientMoves(i)
<1> USE DEF ClientMoves, Phases, Enter, Returned
<1>1. CASE Dial(i)
  BY <1>1 DEF Dial
<1>2. CASE Greet(i)
  BY <1>2 DEF Greet
<1>3. CASE Check(i)
  BY <1>3 DEF Check
<1>4. CASE Evicted(i)
  BY <1>4 DEF Evicted
<1>5. CASE Retry(i)
  BY <1>5 DEF Retry
<1>6. CASE TakeRequest(i)
  BY <1>6 DEF TakeRequest
<1>7. CASE Fail(i)
  BY <1>7 DEF Fail
<1> QED BY <1>1, <1>2, <1>3, <1>4, <1>5, <1>6, <1>7 DEF ClientRuns

LEMMA ClientsStep ==
  ASSUME ClientsInv, [ClientsNext]_clientsVars
  PROVE  ClientsInv'
<1> USE ClientsAssumption DEF ClientsInv, ClientsTypeOK, LateClientStops, Asked
<1>1. ASSUME NEW i \in ClientIDs, ClientMoves(i) PROVE ClientsInv'
  <2>1. ClientsTypeOK'
    BY <1>1 DEF ClientMoves, Phases
  <2>2. LateClientStops'
    BY <1>1 DEF ClientMoves, Phases
  <2> QED BY <2>1, <2>2
<1>2. ASSUME NEW p \in Ports, Connect(p) PROVE ClientsInv'
  BY <1>2 DEF Connect, Launch, Enter, Phases
<1>3. ASSUME NEW p \in Ports, Disconnect(p) PROVE ClientsInv'
  BY <1>3 DEF Disconnect, Phases
<1>4. CASE UNCHANGED clientsVars
  BY <1>4 DEF clientsVars
<1> QED BY <1>1, <1>2, <1>3, <1>4, ClientStepsMove DEF ClientsNext

LEMMA ClientsInvariance == ClientsSpec => []ClientsInv
<1>1. ClientsInit => ClientsInv
  BY DEF ClientsInit, ClientsInv, ClientsTypeOK, LateClientStops, Asked, Phases
<1> QED BY <1>1, ClientsStep, PTL DEF ClientsSpec

\* A client whose context is cancelled takes up one more request at most, however its
\* dials, reads and waits fall.
THEOREM CancelledClientStops == ClientsSpec => []LateRequestIsLast
<1>1. ASSUME ClientsInv, NEW i \in ClientIDs PROVE late[i] <= 1
  BY <1>1 DEF ClientsInv, ClientsTypeOK, LateClientStops
<1>2. ClientsInv => LateRequestIsLast
  BY <1>1 DEF LateRequestIsLast
<1> QED BY <1>2, ClientsInvariance, PTL

\* No client has a step of its own to take.
ClientsRest ==
    \A i \in ClientIDs : /\ phase[i] \notin {"dialling", "greeting", "checking", "waiting"}
                         /\ phase[i] = "reading" => holder[wants[i]] = i

\* Run ends for a cancelled context only, whatever fails.
OnlyCancelledEnd == \A i \in ClientIDs : phase[i] = "ended" => i \in cancelled

\* Where no client has a step to take, each that was not told to stop is online under its
\* name.  Two clients that want one name evict each other for ever: they never come to rest.
THEOREM RestingClientsAreOnline ==
  ClientsSpec => [](ClientsRest =>
                       /\ \A i \in ClientIDs : Asked(i) => holder[wants[i]] = i
                       /\ \A i, j \in ClientIDs :
                             Asked(i) /\ Asked(j) /\ i # j => wants[i] # wants[j])
<1>1. ClientsInit => OnlyCancelledEnd
  BY DEF ClientsInit, OnlyCancelledEnd
<1>2. ClientsInv /\ OnlyCancelledEnd /\ [ClientsNext]_clientsVars => OnlyCancelledEnd'
  <2> SUFFICES ASSUME ClientsInv, OnlyCancelledEnd, [ClientsNext]_clientsVars
               PROVE  OnlyCancelledEnd'
    OBVIOUS
  <2> USE DEF ClientsInv, ClientsTypeOK, OnlyCancelledEnd, Enter, Returned
  <2>1. ASSUME NEW i \in ClientIDs, Dial(i) \/ Greet(i) \/ Check(i) PROVE OnlyCancelledEnd'
    BY <2>1 DEF Dial, Greet, Check
  <2>2. ASSUME NEW i \in ClientIDs, Evicted(i) \/ Retry(i) \/ TakeRequest(i) \/ Fail(i)
        PROVE  OnlyCancelledEnd'
    BY <2>2 DEF Evicted, Retry, TakeRequest, Fail
  <2>3. ASSUME NEW p \in Ports, Connect(p) \/ Disconnect(p) PROVE OnlyCancelledEnd'
    BY <2>3 DEF Connect, Launch, Disconnect
  <2>4. CASE UNCHANGED clientsVars
    BY <2>4 DEF clientsVars
  <2> QED BY <2>1, <2>2, <2>3, <2>4 DEF ClientsNext, ClientRuns
<1>3. ASSUME ClientsInv, OnlyCancelledEnd, ClientsRest
      PROVE  /\ \A i \in ClientIDs : Asked(i) => holder[wants[i]] = i
             /\ \A i, j \in ClientIDs :
                   Asked(i) /\ Asked(j) /\ i # j => wants[i] # wants[j]
  <2>1. ASSUME NEW i \in ClientIDs, Asked(i) PROVE holder[wants[i]] = i
    BY <1>3, <2>1 DEF ClientsInv, ClientsTypeOK, Phases, OnlyCancelledEnd, ClientsRest, Asked
  <2> QED BY <2>1
<1> QED BY <1>1, <1>2, <1>3, ClientsInvariance, PTL DEF ClientsSpec

-----------------------------------------------------------------------------
(* A client's requests.                                                    *)

Kinds == {"unauthorized", "error", "page", "answer"}

ForwarderTypeOK ==
    /\ handler \in [Arrivals -> {"none", "checking", "asking", "reading", "over"}]
    /\ granted \in SUBSET Arrivals /\ endless \in SUBSET Arrivals
    /\ service \in [Arrivals -> {"unasked", "asked", "sending", "ended", "broke"}]
    /\ size \in [Arrivals -> Nat]
    /\ frames \in [Arrivals -> Seq(Kinds)]

\* The service is asked by a handler that let the request through, and by no other,
\* and the frame that ends the handler is true.
OneTrueFrame(q) ==
    /\ handler[q] \in {"none", "checking"} => service[q] = "unasked"
    /\ handler[q] # "over" => frames[q] = <<>>
    /\ handler[q] = "over" => frames[q] = <<>> \/ \E kind \in Kinds : frames[q] = <<kind>>
    /\ service[q] # "unasked" \/ handler[q] \in {"asking", "reading"}
          => (PasswordSet => q \in granted)
    /\ handler[q] = "over" /\ frames[q] \in {<<>>, <<"answer">>} =>
           service[q] = "ended" \/ size[q] >= MaxBody
    /\ frames[q] = <<"unauthorized">> => service[q] = "unasked"

ForwarderInv == ForwarderTypeOK /\ \A q \in Arrivals : OneTrueFrame(q)

\* A step of one handler or of its service leaves the others alone.
LEMMA OtherRequestsStay ==
  ASSUME ForwarderInv, NEW q \in Arrivals,
         TakeUp(q) \/ HandlerRuns(q) \/ Serve(q)
  PROVE  \A r \in Arrivals \ {q} :
            /\ handler'[r] = handler[r] /\ service'[r] = service[r] /\ size'[r] = size[r]
            /\ frames'[r] = frames[r] /\ (r \in granted => r \in granted')
<1> USE DEF ForwarderInv, ForwarderTypeOK, WriteAnswer
<1>1. CASE TakeUp(q) \/ Serve(q)
  BY <1>1 DEF TakeUp, Serve
<1>2. CASE CheckRequest(q) \/ Do(q)
  BY <1>2 DEF CheckRequest, Do
<1>3. CASE DoReturns(q) \/ ReadBody(q) \/ Timeout(q)
  BY <1>3 DEF DoReturns, ReadBody, Timeout
<1> QED BY <1>1, <1>2, <1>3 DEF HandlerRuns

LEMMA ForwarderStep ==
  ASSUME ForwarderInv, [ForwarderNext]_forwarderVars
  PROVE  ForwarderInv'
<1> USE ForwarderAssumption DEF ForwarderInv, ForwarderTypeOK
<1>1. ASSUME NEW q \in Arrivals, TakeUp(q) PROVE ForwarderTypeOK' /\ OneTrueFrame(q)'
  BY <1>1 DEF TakeUp, OneTrueFrame, Kinds
<1>2. ASSUME NEW q \in Arrivals, NEW kind \in Kinds, WriteAnswer(q, kind), handler[q] # "over",
             UNCHANGED <<granted, endless, service, size>>, OneTrueFrame(q),
             kind = "answer" => (service[q] = "ended" \/ size[q] >= MaxBody),
             kind = "unauthorized" => service[q] = "unasked"
      PROVE  ForwarderTypeOK' /\ OneTrueFrame(q)'
  <2>1. frames[q] = <<>>
    BY <1>2 DEF OneTrueFrame
  <2>2. CASE frames' = [frames EXCEPT ![q] = Append(@, kind)]
    <3>1. Append(frames[q], kind) = <<kind>> /\ <<kind>> \in Seq(Kinds) /\ <<kind>> # <<>>
      BY <1>2, <2>1
    <3>2. ForwarderTypeOK' /\ frames'[q] = <<kind>> /\ handler'[q] = "over"
      BY <1>2, <2>2, <3>1 DEF WriteAnswer
    <3>3. \A k \in Kinds : <<k>>[1] = k
      OBVIOUS
    <3>4. (kind # "answer" => frames'[q] # <<"answer">>)
          /\ (kind # "unauthorized" => frames'[q] # <<"unauthorized">>)
      BY <3>2, <3>3 DEF Kinds
    <3>5. service'[q] = service[q] /\ size'[q] = size[q] /\ granted' = granted
      BY <1>2
    <3> QED BY <1>2, <3>1, <3>2, <3>4, <3>5 DEF OneTrueFrame
  <2>3. CASE kind = "answer" /\ UNCHANGED frames
    <3>1. ForwarderTypeOK' /\ frames'[q] = <<>> /\ handler'[q] = "over"
      BY <1>2, <2>1, <2>3 DEF WriteAnswer
    <3>2. service'[q] = service[q] /\ size'[q] = size[q] /\ granted' = granted
      BY <1>2
    <3>3. <<"unauthorized">> # <<>>
      OBVIOUS
    <3> QED BY <1>2, <2>3, <3>1, <3>2, <3>3 DEF OneTrueFrame
  <2> QED BY <1>2, <2>2, <2>3 DEF WriteAnswer
<1>3. ASSUME NEW q \in Arrivals, NEW to \in {"asking", "reading"}, OneTrueFrame(q),
             handler' = [handler EXCEPT ![q] = to], handler[q] # "over",
             PasswordSet => q \in granted,
             \/ UNCHANGED service
             \/ service' = [service EXCEPT ![q] = "asked"],
             UNCHANGED <<granted, endless, size, frames>>
      PROVE  ForwarderTypeOK' /\ OneTrueFrame(q)'
  <2>1. frames'[q] = <<>> /\ handler'[q] = to /\ to # "over" /\ granted' = granted
    BY <1>3 DEF OneTrueFrame
  <2>2. ForwarderTypeOK'
    BY <1>3
  <2>3. <<"unauthorized">> # <<>>
    OBVIOUS
  <2> QED BY <1>3, <2>1, <2>2, <2>3 DEF OneTrueFrame
<1>4. ASSUME NEW q \in Arrivals, CheckRequest(q) PROVE ForwarderTypeOK' /\ OneTrueFrame(q)'
  <2>1. OneTrueFrame(q) /\ service[q] = "unasked" /\ handler[q] = "checking"
    BY <1>4 DEF CheckRequest, OneTrueFrame
  <2>2. CASE WriteAnswer(q, "unauthorized") \/ WriteAnswer(q, "error")
    BY <1>2, <1>4, <2>1, <2>2 DEF CheckRequest, Kinds
  <2>3. CASE ~(WriteAnswer(q, "unauthorized") \/ WriteAnswer(q, "error"))
    BY <1>3, <1>4, <2>1, <2>3 DEF CheckRequest
  <2> QED BY <2>2, <2>3
<1>5. ASSUME NEW q \in Arrivals, Do(q) \/ DoReturns(q)
      PROVE  ForwarderTypeOK' /\ OneTrueFrame(q)'
  <2>1. OneTrueFrame(q) /\ handler[q] = "asking"
    BY <1>5 DEF Do, DoReturns
  <2>2. CASE WriteAnswer(q, "page")
    <3>1. UNCHANGED <<granted, endless, size, service>>
      <4>1. handler'[q] = "over"
        BY <2>2 DEF WriteAnswer
      <4> QED BY <1>5, <2>1, <4>1 DEF Do, DoReturns
    <3> QED BY <1>2, <2>1, <2>2, <3>1 DEF Kinds
  <2>3. CASE handler'[q] = "reading"
    BY <1>3, <1>5, <2>1, <2>3 DEF Do, DoReturns, WriteAnswer, OneTrueFrame
  <2>4. CASE UNCHANGED handler
    <3>1. service' = [service EXCEPT ![q] = "asked"] /\ UNCHANGED <<granted, endless, size, frames>>
      BY <1>5, <2>1, <2>4 DEF Do, DoReturns, WriteAnswer
    <3> QED BY <2>1, <2>4, <3>1 DEF OneTrueFrame
  <2> QED BY <1>5, <2>1, <2>2, <2>3, <2>4 DEF Do, DoReturns
<1>6. ASSUME NEW q \in Arrivals, ReadBody(q) \/ Timeout(q)
      PROVE  ForwarderTypeOK' /\ OneTrueFrame(q)'
  <2>1. OneTrueFrame(q) /\ handler[q] # "over" /\ UNCHANGED <<granted, endless, service, size>>
    BY <1>6 DEF ReadBody, Timeout
  <2>2. \E kind \in Kinds :
          /\ WriteAnswer(q, kind) /\ kind # "unauthorized"
          /\ kind = "answer" => (service[q] = "ended" \/ size[q] >= MaxBody)
    BY <1>6 DEF ReadBody, Timeout, Kinds
  <2> QED BY <1>2, <2>1, <2>2
<1>7. ASSUME NEW q \in Arrivals, Serve(q) PROVE ForwarderTypeOK' /\ OneTrueFrame(q)'
  <2>1. OneTrueFrame(q) /\ service[q] \in {"asked", "sending"}
    BY <1>7 DEF Serve
  <2>2. ForwarderTypeOK'
    <3>1. service' \in [Arrivals -> {"unasked", "asked", "sending", "ended", "broke"}]
      BY <1>7 DEF Serve
    <3>2. size' \in [Arrivals -> Nat]
      <4>1. size[q] + 1 \in Nat
        OBVIOUS
      <4> QED BY <1>7, <4>1 DEF Serve
    <3> QED BY <1>7, <3>1, <3>2 DEF Serve
  <2>3. /\ service'[q] # "unasked" /\ (service[q] = "ended" => service'[q] = "ended")
        /\ size[q] >= MaxBody => size'[q] >= MaxBody
    <3>1. size'[q] \in {size[q], size[q] + 1} /\ size[q] \in Nat /\ MaxBody \in Nat
      BY <1>7 DEF Serve
    <3>2. service'[q] \in {"sending", "ended", "broke"}
      BY <1>7 DEF Serve
    <3> QED BY <2>1, <3>1, <3>2
  <2>4. UNCHANGED <<handler, granted, frames>>
    BY <1>7 DEF Serve
  <2> QED BY <2>1, <2>2, <2>3, <2>4 DEF OneTrueFrame
<1>8. ASSUME NEW q \in Arrivals, TakeUp(q) \/ HandlerRuns(q) \/ Serve(q) PROVE ForwarderInv'
  <2>1. ForwarderTypeOK' /\ OneTrueFrame(q)'
    BY <1>1, <1>3, <1>4, <1>5, <1>6, <1>7, <1>8 DEF HandlerRuns
  <2>2. ASSUME NEW r \in Arrivals \ {q} PROVE OneTrueFrame(r)'
    BY <1>8, <2>2, OtherRequestsStay DEF OneTrueFrame
  <2> QED BY <2>1, <2>2
<1>9. CASE UNCHANGED forwarderVars
  BY <1>9 DEF forwarderVars, OneTrueFrame
<1> QED BY <1>8, <1>9 DEF ForwarderNext

LEMMA ForwarderInvariance == ForwarderSpec => []ForwarderInv
<1>1. ForwarderInit => ForwarderInv
  BY DEF ForwarderInit, ForwarderInv, ForwarderTypeOK, OneTrueFrame, Kinds
<1> QED BY <1>1, ForwarderStep, PTL DEF ForwarderSpec

\* A request has one frame at most, none only when the service's answer could not be
\* framed, and the frame is true of what the local service did.
THEOREM OneTrueAnswerAlways == ForwarderSpec => []OneTrueAnswer
<1>1. ForwarderSpec => []ForwarderInv
  BY ForwarderInvariance
<1>2. ForwarderInv => OneTrueAnswer
  <2>1. \A kind : Len(<<kind>>) = 1 /\ Len(<<>>) = 0
    OBVIOUS
  <2> SUFFICES ASSUME ForwarderInv, NEW q \in Arrivals
               PROVE  /\ Len(frames[q]) <= (IF handler[q] = "over" THEN 1 ELSE 0)
                      /\ handler[q] = "over" /\ frames[q] \in {<<>>, <<"answer">>} =>
                             service[q] = "ended" \/ size[q] >= MaxBody
                      /\ frames[q] = <<"unauthorized">> => service[q] = "unasked"
                      /\ service[q] # "unasked" => (PasswordSet => q \in granted)
    BY DEF OneTrueAnswer
  <2>2. OneTrueFrame(q) /\ handler[q] \in {"none", "checking", "asking", "reading", "over"}
    BY DEF ForwarderInv, ForwarderTypeOK
  <2>3. Len(frames[q]) <= (IF handler[q] = "over" THEN 1 ELSE 0)
    <3>1. CASE handler[q] # "over"
      BY <2>1, <2>2, <3>1 DEF OneTrueFrame
    <3>2. CASE handler[q] = "over"
      <4>1. Len(frames[q]) = 0 \/ Len(frames[q]) = 1
        BY <2>1, <2>2, <3>2 DEF OneTrueFrame
      <4>2. (IF handler[q] = "over" THEN 1 ELSE 0) = 1
        BY <3>2
      <4> HIDE DEF ForwarderInv
      <4>3. \A n : (n = 0 \/ n = 1) => n <= 1
        OBVIOUS
      <4> QED BY <4>1, <4>2, <4>3
    <3> QED BY <3>1, <3>2
  <2> QED BY <2>2, <2>3 DEF OneTrueFrame
<1> QED BY <1>1, <1>2, PTL

\* The handler of a request has no step to take: it is not at its check, it waits for a
\* service that says nothing, and its timer, if it has one, is not running.
HandlerRests(q) ==
    /\ handler[q] # "checking"
    /\ handler[q] = "asking" => service[q] \notin {"unasked", "sending", "ended", "broke"}
    /\ handler[q] = "reading" => service[q] \notin {"ended", "broke"} /\ size[q] < MaxBody
    /\ handler[q] \in {"asking", "reading"} => q \in endless \/ service[q] \notin {"asked", "sending"}

\* Only an answer that began is read.
ReadsAreOfAnswers == \A q \in Arrivals : handler[q] = "reading" => service[q] \notin {"unasked", "asked"}

\* A handler that cannot go on is through, or waits for a stream: there is no state of a
\* service in which neither its answer nor its failure nor the timer ends Do or the reading
\* of the body.
THEOREM OnlyStreamsWait ==
  ForwarderSpec => [](\A q \in Arrivals :
      HandlerRests(q) => handler[q] \in {"none", "over"} \/ q \in endless)
<1>1. ForwarderInit => ReadsAreOfAnswers
  BY DEF ForwarderInit, ReadsAreOfAnswers
<1>2. ForwarderInv /\ ReadsAreOfAnswers /\ [ForwarderNext]_forwarderVars => ReadsAreOfAnswers'
  <2> SUFFICES ASSUME ForwarderInv, ReadsAreOfAnswers, [ForwarderNext]_forwarderVars
               PROVE  ReadsAreOfAnswers'
    OBVIOUS
  <2> USE DEF ForwarderInv, ForwarderTypeOK, ReadsAreOfAnswers, WriteAnswer
  <2>1. ASSUME NEW q \in Arrivals, TakeUp(q) \/ CheckRequest(q) PROVE ReadsAreOfAnswers'
    BY <2>1 DEF TakeUp, CheckRequest
  <2>2. ASSUME NEW q \in Arrivals, Do(q) \/ DoReturns(q) PROVE ReadsAreOfAnswers'
    BY <2>2 DEF Do, DoReturns
  <2>3. ASSUME NEW q \in Arrivals, ReadBody(q) \/ Timeout(q) PROVE ReadsAreOfAnswers'
    BY <2>3 DEF ReadBody, Timeout
  <2>4. ASSUME NEW q \in Arrivals, Serve(q) PROVE ReadsAreOfAnswers'
    BY <2>4 DEF Serve
  <2>5. CASE UNCHANGED forwarderVars
    BY <2>5 DEF forwarderVars
  <2> QED BY <2>1, <2>2, <2>3, <2>4, <2>5 DEF ForwarderNext, HandlerRuns
<1>3. ASSUME ForwarderInv, ReadsAreOfAnswers, NEW q \in Arrivals, HandlerRests(q)
      PROVE  handler[q] \in {"none", "over"} \/ q \in endless
  <2>1. CASE handler[q] \in {"asking", "reading"}
    BY <1>3, <2>1 DEF ForwarderInv, ForwarderTypeOK, ReadsAreOfAnswers, HandlerRests
  <2> QED BY <1>3, <2>1 DEF ForwarderInv, ForwarderTypeOK, HandlerRests
<1>4. ForwarderInv /\ ReadsAreOfAnswers =>
         \A q \in Arrivals : HandlerRests(q) => handler[q] \in {"none", "over"} \/ q \in endless
  BY <1>3
<1> QED BY <1>1, <1>2, <1>4, ForwarderInvariance, PTL DEF ForwarderSpec

-----------------------------------------------------------------------------
(* The server's key and addresses.                                         *)

Modes == {"auto", "cloudflare", "manual", "none"}

KeyTypeOK ==
    /\ front \in {"free", "nginx", "other"}
    /\ config \in Modes \cup {"absent"} /\ mode \in Modes
    /\ saved \in BOOLEAN /\ stale \in BOOLEAN
    /\ wizard = "starting" => config \in Modes

\* The file still has what the wizard showed and wrote, and a server that started behind
\* the last one has its key from the file.
KeyIsKept ==
    /\ saved => displayed \in ServerKeys /\ keyFile = displayed
    /\ serving # NoKey /\ ~stale => GoodKey /\ serving = keyFile

KeyInv == KeyTypeOK /\ KeyIsKept

\* A server that starts takes the good key that is there; one that makes a key does so
\* when there was none to keep.
LEMMA LoadKeepsKey ==
  ASSUME KeyIsKept, NEW m, StartServer(m), UNCHANGED <<displayed, saved>>
  PROVE  KeyIsKept' /\ mode' \in {m, mode} /\ stale' \in {FALSE, stale}
<1> USE KeyAssumption DEF KeyIsKept, GoodKey
<1>1. PICK key \in ServerKeys \cup {NoKey} :
          /\ loadOrCreateKey(key)
          /\ IF serving = NoKey THEN serving' = key /\ mode' = m /\ stale' = FALSE
             ELSE UNCHANGED <<serving, mode, stale>>
  BY DEF StartServer
<1>2. CASE GoodKey
  BY <1>1, <1>2 DEF loadOrCreateKey
<1>3. CASE ~GoodKey
  <2>1. ~saved /\ (serving = NoKey \/ stale)
    BY <1>3
  <2>2. \E k \in ServerKeys : \/ keyFile' = k /\ key = k
                              \/ keyFile' = "torn" /\ key = NoKey
    BY <1>1, <1>3 DEF loadOrCreateKey
  <2> QED BY <1>1, <2>1, <2>2
<1> QED BY <1>2, <1>3

LEMMA KeyStep ==
  ASSUME KeyInv, [KeyNext]_keyVars
  PROVE  KeyInv'
<1> USE DEF KeyInv, KeyTypeOK, Modes
<1>1. CASE SetupBegins \/ SetupAborts
  <2>1. /\ UNCHANGED <<keyFile, front, config, mode, displayed, saved>>
        /\ wizard' \in {"asking", "idle"}
    BY <1>1 DEF SetupBegins, SetupAborts
  <2>2. CASE serving' = NoKey /\ stale' \in BOOLEAN
    BY <2>1, <2>2 DEF KeyIsKept, GoodKey
  <2>3. CASE serving' = serving /\ stale' = stale
    BY <2>1, <2>3 DEF KeyIsKept, GoodKey
  <2>4. \/ serving' = NoKey /\ stale' \in BOOLEAN
        \/ serving' = serving /\ stale' = stale
    BY <1>1 DEF SetupBegins, SetupAborts
  <2> QED BY <2>2, <2>3, <2>4
<1>2. CASE SetupKey
  <2>1. UNCHANGED <<front, config, serving, mode>> /\ stale' = (serving # NoKey)
    BY <1>2 DEF SetupKey
  <2>2. PICK k \in ServerKeys : displayed' = k /\ saved' = (keyFile' = k)
    BY <1>2 DEF SetupKey
  <2>3. wizard' = "saving"
    BY <1>2 DEF SetupKey
  <2> QED BY <2>1, <2>2, <2>3 DEF KeyIsKept
<1>3. CASE SetupConfig
  <2>1. \A a \in Answers : a.front \in {"free", "nginx", "other"} /\ a.mode \in Modes
    BY DEF Answers, wizardCloudflare, wizardManualCert
  <2>2. stale' = (serving # NoKey)
    BY <1>3 DEF SetupConfig
  <2> QED BY <1>3, <2>1, <2>2 DEF SetupConfig, KeyIsKept, GoodKey
<1>4. CASE SetupService
  <2>1. /\ wizard' = "idle" /\ config \in Modes
        /\ UNCHANGED <<front, config, displayed, saved>>
    BY <1>4 DEF SetupService
  <2>2. CASE StartServer(config)
    BY <2>1, <2>2, LoadKeepsKey
  <2>3. CASE UNCHANGED <<keyFile, serving, mode, stale, made>>
    BY <2>1, <2>3 DEF KeyIsKept, GoodKey
  <2> QED BY <1>4, <2>2, <2>3 DEF SetupService
<1>5. CASE ServerStarts
  <2>1. UNCHANGED <<front, config, wizard, displayed, saved>>
    BY <1>5 DEF ServerStarts
  <2>2. PICK m \in {"none"} \cup (IF config = "absent" THEN {} ELSE {config}) : StartServer(m)
    BY <1>5 DEF ServerStarts
  <2>3. m \in Modes
    BY <2>2
  <2> QED BY <2>1, <2>2, <2>3, LoadKeepsKey
<1>6. CASE ServerStops
  BY <1>6 DEF ServerStops, KeyIsKept, GoodKey
<1>7. ASSUME NEW u \in Users, Login(u) PROVE KeyInv'
  BY <1>7 DEF Login, KeyIsKept, GoodKey
<1>8. CASE UNCHANGED keyVars
  BY <1>8 DEF keyVars, KeyIsKept, GoodKey
<1> QED BY <1>1, <1>2, <1>3, <1>4, <1>5, <1>6, <1>7, <1>8 DEF KeyNext

\* Whoever has the key that the last setup wrote reaches every server that is started
\* behind it.
THEOREM LoginReachesEveryServer == KeySpec => []LoginReachesServer
<1>1. KeyInit => KeyInv
  BY KeyAssumption DEF KeyInit, KeyInv, KeyTypeOK, Modes, KeyIsKept, GoodKey
<1>2. ASSUME KeyInv, front # "other", serving # NoKey
      PROVE  resolveHTTPAddrFromAccount \in ApiBases
  BY <1>2 DEF KeyInv, KeyTypeOK, resolveHTTPAddrFromAccount, ApiBases
<1>3. KeyInv => LoginReachesServer
  BY <1>2 DEF KeyInv, KeyIsKept, LoginReachesServer
<1> QED BY <1>1, <1>3, KeyStep, PTL DEF KeySpec

-----------------------------------------------------------------------------
(* The account file.                                                       *)

Files == [active : Accounts \cup {Empty}, accounts : SUBSET Accounts]

\* What ActiveIsKnown says of the file, said of any copy of it.
Consistent(f) == IF f.accounts = {} THEN f.active = Empty ELSE f.active \in f.accounts

FilesInv ==
    /\ file = Corrupt \/ (file \in Files /\ Consistent(file))
    /\ copy \in [Commands -> Files]
    /\ \A c \in Commands : Consistent(copy[c])

\* Each change of a copy keeps it consistent.
LEMMA ChangesKeepConsistent ==
  ASSUME NEW f \in Files, Consistent(f), NEW a \in Accounts
  PROVE  /\ AddAccount(f, a) \in Files /\ Consistent(AddAccount(f, a))
         /\ \A left \in RemoveAccount(f, a) : left \in Files /\ Consistent(left)
         /\ a \in f.accounts => SetActive(f, a) \in Files /\ Consistent(SetActive(f, a))
<1> USE DEF Files, Consistent
<1>1. AddAccount(f, a) \in Files /\ Consistent(AddAccount(f, a))
  BY DEF AddAccount
<1>2. ASSUME NEW left \in RemoveAccount(f, a) PROVE left \in Files /\ Consistent(left)
  <2>1. PICK n : /\ left = [active |-> n, accounts |-> f.accounts \ {a}]
                 /\ n \in IF f.active # a THEN {f.active}
                          ELSE IF f.accounts \ {a} = {} THEN {Empty} ELSE f.accounts \ {a}
    BY <1>2 DEF RemoveAccount
  <2> QED BY <2>1, FilesAssumption
<1>3. a \in f.accounts => SetActive(f, a) \in Files /\ Consistent(SetActive(f, a))
  BY DEF SetActive
<1> QED BY <1>1, <1>2, <1>3

LEMMA FilesStep ==
  ASSUME FilesInv, [FilesNext]_filesVars
  PROVE  FilesInv'
<1> USE DEF FilesInv
<1>1. NoAccounts \in Files /\ Consistent(NoAccounts)
  BY DEF NoAccounts, Files, Consistent
<1>2. ASSUME NEW c \in Commands, NEW f \in Files, Consistent(f),
             copy' = [copy EXCEPT ![c] = f], UNCHANGED file
      PROVE  FilesInv'
  BY <1>2
<1>3. ASSUME NEW c \in Commands, LoadClient(c) PROVE FilesInv'
  BY <1>2, <1>3 DEF LoadClient
<1>4. ASSUME NEW c \in Commands, login(c) \/ logout(c) \/ accountUse(c) PROVE FilesInv'
  <2>1. copy[c] \in Files /\ Consistent(copy[c]) /\ UNCHANGED file
    BY <1>4 DEF login, logout, accountUse
  <2>2. \E f \in Files : Consistent(f) /\ copy' = [copy EXCEPT ![c] = f]
    <3>1. CASE login(c)
      BY <2>1, <3>1, ChangesKeepConsistent DEF login
    <3>2. CASE logout(c)
      <4>1. PICK a \in copy[c].accounts : \E left \in RemoveAccount(copy[c], a) :
                copy' = [copy EXCEPT ![c] = left]
        BY <3>2 DEF logout
      <4>2. a \in Accounts
        BY <2>1 DEF Files
      <4> QED BY <2>1, <4>1, <4>2, ChangesKeepConsistent
    <3>3. CASE accountUse(c)
      <4>1. PICK a \in copy[c].accounts : copy' = [copy EXCEPT ![c] = SetActive(copy[c], a)]
        BY <3>3 DEF accountUse
      <4>2. a \in Accounts
        BY <2>1 DEF Files
      <4> QED BY <2>1, <4>1, <4>2, ChangesKeepConsistent
    <3> QED BY <1>4, <3>1, <3>2, <3>3
  <2> QED BY <1>2, <2>1, <2>2
<1>5. ASSUME NEW c \in Commands, connect(c) \/ connectEnds(c) \/ Quit(c) PROVE FilesInv'
  BY <1>5 DEF connect, connectEnds, Quit
<1>6. ASSUME NEW c \in Commands, Truncate(c) \/ WriteBack(c) PROVE FilesInv'
  <2>1. file' \in {NoAccounts, copy[c], Corrupt} /\ UNCHANGED copy
    BY <1>6 DEF Truncate, WriteBack
  <2> QED BY <1>1, <2>1
<1>7. CASE Repair
  BY <1>1, <1>7 DEF Repair
<1>8. CASE UNCHANGED filesVars
  BY <1>8 DEF filesVars
<1> QED BY <1>3, <1>4, <1>5, <1>6, <1>7, <1>8 DEF FilesNext

\* Whatever commands interleave or are killed, a file that can be read has an active
\* account if it has any.
THEOREM ActiveIsAlwaysKnown == FilesSpec => []ActiveIsKnown
<1>1. FilesInit => FilesInv
  BY DEF FilesInit, FilesInv, NoAccounts, Files, Consistent
<1>2. FilesInv => ActiveIsKnown
  BY DEF FilesInv, ActiveIsKnown, Consistent
<1> QED BY <1>1, <1>2, FilesStep, PTL DEF FilesSpec
=============================================================================
