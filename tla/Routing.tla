------------------------------- MODULE Routing -------------------------------
(***************************************************************************)
(* Where an HTTP request goes (internal/server/server.go): through the     *)
(* rate limiter and the dashboard's access check, whatever its host, then  *)
(* by host to a tunnel or to the API.  Hosts and names are sequences of    *)
(* characters, and a path is the sequence of its parts.                    *)
(***************************************************************************)
EXTENDS SequencesExt, FiniteSets, Integers

CONSTANTS Domain,      \* the server's
          Alphabet,    \* letters and digits in lower case
          MaxLabel,    \* 63
          LocalHosts   \* "localhost" and "127.0.0.1"

\* The domain has no port, and a letter is neither a dot nor a colon.
ASSUME RoutingAssumption ==
    /\ Domain \in Seq(STRING) /\ ~Contains(Domain, ":")
    /\ {".", ":"} \cap Alphabet = {} /\ MaxLabel \in Nat

UnderDomain(host) == IsSuffix(<<".">> \o Domain, host)

LabelOf(host) == SubSeq(host, 1, Len(host) - Len(Domain) - 1)

\* The host without its port, if any.
Bare(host) == IF Contains(host, ":") THEN SubSeq(host, 1, SelectLastInSeq(host, LAMBDA c : c = ":") - 1)
              ELSE host

\* Mutant: the port stays on.
subdomainWithPort(host) ==
    IF UnderDomain(host) /\ ~Contains(LabelOf(host), ".") THEN LabelOf(host) ELSE <<>>

\* Empty for the server itself and for every host that is no tunnel's.
extractSubdomain(host) ==
    IF UnderDomain(Bare(host)) /\ ~Contains(LabelOf(Bare(host)), ".")
    THEN LabelOf(Bare(host)) ELSE <<>>

\* The hosts that autocert asks certificates for.
HostPolicy(host) == host = Domain \/ (UnderDomain(host) /\ ~Contains(LabelOf(host), "."))

isValidSubdomain(name) ==
    /\ Len(name) \in 1..MaxLabel
    /\ \A i \in DOMAIN name : name[i] \in Alphabet \/ (name[i] = "-" /\ i \in 2..(Len(name) - 1))

\* The patterns of the mux, "*" for a wildcard.
Patterns ==
    [handleRequestList |-> <<"GET", "api", "tunnels", "*", "requests">>,
     handleRequestGet |-> <<"GET", "api", "tunnels", "*", "requests", "*">>,
     handleRequestGetGlobal |-> <<"GET", "api", "requests", "*">>,
     handleReplay |-> <<"POST", "api", "tunnels", "*", "requests", "*", "replay">>,
     handleTunnelStatus |-> <<"GET", "api", "tunnels", "*", "status">>,
     handlePipelineTraces |-> <<"GET", "api", "pipelines", "*", "traces">>,
     handleTraceTimeline |-> <<"GET", "api", "traces", "*">>,
     handleSetPipelineRules |-> <<"POST", "api", "pipeline-rules">>,
     handleOverview |-> <<"GET", "api", "overview">>,
     handleTunnelCreate |-> <<"POST", "api", "admin", "tunnels">>,
     handleTunnelList |-> <<"GET", "api", "admin", "tunnels">>,
     handleTunnelDelete |-> <<"DELETE", "api", "admin", "tunnels", "*">>]

Matching(call) ==
    {h \in DOMAIN Patterns : /\ Len(Patterns[h]) = Len(call)
                             /\ \A i \in DOMAIN call : Patterns[h][i] \in {"*", call[i]}}

\* The mux of the API: everything below /ui, and whatever a pattern matches.
Mux(call) ==
    IF Len(call) > 1 /\ call[1] = "GET" /\ call[2] = "ui" THEN "handleUI"
    ELSE IF call = <<"GET", "healthz">> THEN "healthz"
    ELSE IF Matching(call) = {} THEN "404" ELSE CHOOSE h \in Matching(call) : TRUE

\* subdomainRouter: a WebSocket or an SSE request becomes a stream of its own.
subdomainRouter(r) ==
    IF extractSubdomain(r.host) = <<>> THEN Mux(r.call)
    ELSE IF r.upgrade \/ r.sse THEN "handleWebSocketProxy" ELSE "handleWebhook"

BelowUI(call) == Len(call) > 2 /\ call[2] = "ui"

\* The dashboard's middleware stands before the router, whatever the host: below /ui/ it
\* redeems a token or asks for a session, unless the host begins like a local one.
dashAuth(r) ==
    IF /\ BelowUI(r.call) /\ ~\E local \in LocalHosts : IsPrefix(local, r.host)
       /\ r.token \/ ~r.session
    THEN "dashAuth" ELSE subdomainRouter(r)

\* The names that routing by host can tell.
IsLabel(name) == name # <<>> /\ ~Contains(name, ".") /\ ~Contains(name, ":")
-----------------------------------------------------------------------------
\* A name without dots and colons, of which isValidSubdomain makes sure and the listener
\* does not, gives a URL that autocert asks a certificate for and that is routed to that
\* name, on any port.
RoutedAsCreated(names) ==
    \A name \in names : IsLabel(name) =>
        LET url == name \o <<".">> \o Domain
        IN /\ HostPolicy(url)
           /\ \A port \in {<<>>, <<":", "8">>} : extractSubdomain(url \o port) = name
=============================================================================
