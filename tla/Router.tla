-------------------------------- MODULE Router --------------------------------
(***************************************************************************)
(* The router of the HTTP server at work: names become tunnels through the *)
(* API or through a client's hello, visitors come to their URLs, and the   *)
(* commands and the MCP tools call the API at the server's own host.  What *)
(* the rate limiter refuses does not come this far.                        *)
(***************************************************************************)
EXTENDS ApiCalls

CONSTANTS HostNames,   \* names that somebody may want for a tunnel
          Words,       \* the names and ids that the calls are about
          MaxTunnels,  \* how many the model lets be there at once
          NoRequest

ASSUME NamesAssumption == HostNames \subseteq Seq(STRING)

VARIABLES created,  \* the names of tunnels that came through the API
          greeted,  \* the names of tunnels that a client's hello asked for
          request   \* the one being routed, with the tunnel and the handlers that it is for

routerVars == <<created, greeted, request>>

RouterInit == created = {} /\ greeted = {} /\ request = NoRequest

\* Routing keeps nothing, so the model looks at one request at a time and changes the
\* tunnels in between.
BetweenRequests == request = NoRequest

MayAdd == BetweenRequests /\ Cardinality(created \cup greeted) < MaxTunnels

handleTunnelCreate(name) ==
    /\ MayAdd /\ isValidSubdomain(name)
    /\ created' = created \cup {name} /\ UNCHANGED <<greeted, request>>

\* The listener takes any name but the empty one, for which it makes one up.
Hello(name) ==
    /\ MayAdd /\ name # <<>>
    /\ greeted' = greeted \cup {name} /\ UNCHANGED <<created, request>>

handleTunnelDelete(name) ==
    /\ BetweenRequests
    /\ created' = created \ {name} /\ greeted' = greeted \ {name}
    /\ UNCHANGED request

\* On the standard port or on another.
PortSuffixes == {<<>>, <<":", "8">>}

Url(name) == name \o <<".">> \o Domain

\* A visitor may ask a tunnel what others ask the API and the dashboard, a webhook is
\* posted, and a request may have a token in its query and a session's cookie.
Visits ==
    [call : UNION {{<<"GET", "api", "traces", w>>, <<"GET", "ui", w>>, <<"POST", w>>} : w \in Words},
     upgrade : BOOLEAN, sse : BOOLEAN, token : BOOLEAN, session : BOOLEAN]

VisitOf(name, port, v) ==
    [host |-> Url(name) \o port, call |-> v.call, upgrade |-> v.upgrade, sse |-> v.sse,
     token |-> v.token, session |-> v.session,
     name |-> name, for |-> {"handleWebhook", "handleWebSocketProxy"}]

CallOf(a, port) ==
    [host |-> Domain \o port, call |-> a.call, upgrade |-> FALSE, sse |-> FALSE,
     token |-> FALSE, session |-> FALSE, name |-> <<>>, for |-> {a.for}]

Visit(name) ==
    /\ BetweenRequests
    /\ \E port \in PortSuffixes, v \in Visits : request' = VisitOf(name, port, v)
    /\ UNCHANGED <<created, greeted>>

CallApi(name, id) ==
    /\ BetweenRequests
    /\ \E a \in ApiCallsOf(name, id), port \in PortSuffixes : request' = CallOf(a, port)
    /\ UNCHANGED <<created, greeted>>

Routed == request # NoRequest /\ request' = NoRequest /\ UNCHANGED <<created, greeted>>

RouterNext ==
    \/ \E name \in HostNames : handleTunnelCreate(name) \/ Hello(name)
    \/ \E name \in created \cup greeted : handleTunnelDelete(name) \/ Visit(name)
    \/ \E name \in Words, id \in Words : CallApi(name, id)
    \/ Routed

RouterSpec == RouterInit /\ [][RouterNext]_routerVars
-----------------------------------------------------------------------------
\* autocert asks a certificate for the URL of every tunnel that the API made.  A visitor
\* of a tunnel whose name has neither dot nor colon, which the API makes sure of and the
\* listener does not, is taken to that tunnel, on any port and whatever is asked, and
\* never to the API; only below /ui/ the dashboard's access check may answer in its
\* place.  And a call, even with names and ids that are words of the API's own paths,
\* reaches the handler that it is for, no other pattern matching it.  Of the names with
\* a dot or a colon, which the listener takes all the same, nothing is said: the visitor
\* of "a.b" gets the API.
RoutingIsSound ==
    /\ \A name \in created : IsLabel(name) /\ HostPolicy(Url(name))
    /\ request # NoRequest =>
           LET handler == dashAuth(request)
           IN /\ IsLabel(request.name) =>
                    /\ extractSubdomain(request.host) = request.name
                    /\ handler \in request.for \/ (handler = "dashAuth" /\ BelowUI(request.call))
              /\ request.name = <<>> =>
                    /\ extractSubdomain(request.host) = <<>>
                    /\ handler \in request.for /\ Matching(request.call) = request.for
=============================================================================
