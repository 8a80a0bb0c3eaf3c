------------------------------- MODULE Forwarder -------------------------------
(***************************************************************************)
(* What a client does with a request (internal/client/tunnel.go,           *)
(* handleRequestSafe; forwarder.go): a goroutine per request checks the    *)
(* tunnel's password, asks the local service, reads its answer up to a     *)
(* limit, and writes a frame.                                              *)
(***************************************************************************)
EXTENDS Sequences, Naturals

CONSTANTS Arrivals,    \* requests
          PasswordSet, \* --auth
          MaxBody      \* 10 MB; 1 MB of a stream

ASSUME ForwarderAssumption == PasswordSet \in BOOLEAN /\ MaxBody \in Nat \ {0}

VARIABLES handler,   \* of each request: "none", "checking", "asking", "reading" or "over"
          granted,   \* requests with the password in a header, query or cookie
          endless,   \* those that accept a stream: no timeout
          service,   \* what it did of each: "unasked", "asked", "sending", "ended" or "broke"
          size,      \* of the answer so far
          frames     \* written for each

forwarderVars == <<handler, granted, endless, service, size, frames>>

ForwarderInit ==
    /\ handler = [q \in Arrivals |-> "none"] /\ granted = {} /\ endless = {}
    /\ service = [q \in Arrivals |-> "unasked"] /\ size = [q \in Arrivals |-> 0]
    /\ frames = [q \in Arrivals |-> <<>>]

TakeUp(q) ==
    /\ handler[q] = "none" /\ handler' = [handler EXCEPT ![q] = "checking"]
    /\ granted' \in {granted, granted \cup {q}} /\ endless' \in {endless, endless \cup {q}}
    /\ UNCHANGED <<service, size, frames>>

\* WriteFrame, whose error is ignored: headers of the service that are no UTF-8, or that
\* make the frame too large, end the request without a frame.
WriteAnswer(q, kind) ==
    /\ \/ frames' = [frames EXCEPT ![q] = Append(@, kind)]
       \/ kind = "answer" /\ UNCHANGED frames
    /\ handler' = [handler EXCEPT ![q] = "over"]

\* checkAuth, DecompressBody and NewRequest: each may be the end of it.
CheckRequest(q) ==
    /\ handler[q] = "checking"
    /\ IF PasswordSet /\ q \notin granted THEN WriteAnswer(q, "unauthorized")
       ELSE \/ WriteAnswer(q, "error")
            \/ handler' = [handler EXCEPT ![q] = "asking"] /\ UNCHANGED frames
    /\ UNCHANGED <<granted, endless, service, size>>

\* Do sends the request, if there is a service.
Do(q) ==
    /\ handler[q] = "asking" /\ service[q] = "unasked"
    /\ \/ service' = [service EXCEPT ![q] = "asked"] /\ UNCHANGED <<handler, frames>>
       \/ WriteAnswer(q, "page") /\ UNCHANGED service
    /\ UNCHANGED <<granted, endless, size>>

\* Do returns: with headers, or with an error, which the sender gets as a page.
DoReturns(q) ==
    /\ handler[q] = "asking"
    /\ \/ /\ service[q] \in {"sending", "ended"}
          /\ handler' = [handler EXCEPT ![q] = "reading"] /\ UNCHANGED frames
       \/ service[q] = "broke" /\ WriteAnswer(q, "page")
    /\ UNCHANGED <<granted, endless, service, size>>

\* Mutant: what ReadAll got is passed on with its error ignored.
PassOn(q) ==
    /\ handler[q] = "reading"
    /\ (service[q] \in {"ended", "broke"} \/ size[q] > MaxBody) /\ WriteAnswer(q, "answer")
    /\ UNCHANGED <<granted, endless, service, size>>

\* ReadAll of a LimitReader: it does not see that there is more.
ReadBody(q) ==
    /\ handler[q] = "reading"
    /\ \/ (service[q] = "ended" \/ size[q] >= MaxBody) /\ WriteAnswer(q, "answer")
       \/ service[q] = "broke" /\ size[q] < MaxBody /\ WriteAnswer(q, "error")
    /\ UNCHANGED <<granted, endless, service, size>>

\* Mutant: only Do has a timeout.
TimeoutOfDo(q) ==
    /\ handler[q] = "asking" /\ q \notin endless /\ service[q] = "asked"
    /\ WriteAnswer(q, "page")
    /\ UNCHANGED <<granted, endless, service, size>>

\* http.Client's Timeout runs until the body was read.
Timeout(q) ==
    /\ handler[q] \in {"asking", "reading"} /\ q \notin endless /\ service[q] \in {"asked", "sending"}
    /\ WriteAnswer(q, IF handler[q] = "asking" THEN "page" ELSE "error")
    /\ UNCHANGED <<granted, endless, service, size>>

\* The local service.
Serve(q) ==
    /\ service[q] \in {"asked", "sending"}
    /\ \/ service' = [service EXCEPT ![q] = "sending"] /\ size[q] <= MaxBody
          /\ size' = [size EXCEPT ![q] = @ + 1]
       \/ \E s \in {"ended", "broke"} : service' = [service EXCEPT ![q] = s] /\ UNCHANGED size
    /\ UNCHANGED <<handler, granted, endless, frames>>

HandlerRuns(q) == CheckRequest(q) \/ Do(q) \/ DoReturns(q) \/ ReadBody(q) \/ Timeout(q)

ForwarderNext == \E q \in Arrivals : TakeUp(q) \/ HandlerRuns(q) \/ Serve(q)

ForwarderSpec == ForwarderInit /\ [][ForwarderNext]_forwarderVars
-----------------------------------------------------------------------------
\* A request gets one frame at most, as the relay counts on, and none only when it was
\* the service's answer that could not be framed.  The frame is true: what is passed on
\* as the service's answer is all of it, or as much as the limit lets through, and 401
\* means that the service never saw the request.
OneTrueAnswer ==
    \A q \in Arrivals :
        /\ Len(frames[q]) <= (IF handler[q] = "over" THEN 1 ELSE 0)
        /\ handler[q] = "over" /\ frames[q] \in {<<>>, <<"answer">>} =>
               service[q] = "ended" \/ size[q] >= MaxBody
        /\ frames[q] = <<"unauthorized">> => service[q] = "unasked"
        /\ service[q] # "unasked" => (PasswordSet => q \in granted)

\* A silent service does not hold up a request that has a timeout.  Those that accept a
\* stream have none, and of them nothing is said here.
HandlerAnswers ==
    []<>(\A q \in Arrivals : (handler[q] # "none" /\ q \notin endless) => handler[q] = "over")

\* What forwarder.go:83 says of an answer that is a stream: "read with a reasonable
\* limit but don't hang forever on streams", and forwarder.go:87: "read available data
\* with timeout, don't wait for EOF".
StreamsDoNotHang ==
    \A q \in Arrivals : (handler[q] = "reading" /\ service[q] = "sending") ~> (handler[q] = "over")
=============================================================================
