------------------------------- MODULE MCParts -------------------------------
(***************************************************************************)
(* What surrounds the tunnels and the relay, each on a small instance: the *)
(* server's tables, a tunnel's encrypted connection, a stream that is      *)
(* passed through, the clients of one process, a client's requests, the    *)
(* server's key and addresses, the account file, `pie up`, the server's    *)
(* end, and the relay of one webhook, for what it ends in.  They share     *)
(* nothing but the clock: a behaviour exercises one of them and leaves the *)
(* others as they began.                                                   *)
(***************************************************************************)
EXTENDS WebhookTracing, RequestLog, RateLimiter, DashboardAuth, DashboardReads, Router,
        NoiseChannel, StreamProxy, ClientTunnels, Forwarder, ServerSetup, ClientFiles, UpPlan,
        ServerShutdown

CONSTANTS t1, t2, h1, h2, a1, a2, r1, r2, b1, b2, b3, b4, k1, k2, s1, s2, w1, w2, fox, i1, i2, n1,
          d1, d2, d3, q1, q2, u1, u2, f1, f2, f3, c1, c2, x1, x2, v1, NoConn,
          Parts   \* that a run is about

VARIABLE part   \* the one that moves

\* The relay's state: its variables' names are other parts' too.
VARIABLES hub, standing, sessionsOpen, pending, atClient, toServer, reader, tunnelRows, pc,
          tunnelRow, sessionOf, channel, answered, record, reply

relayVars == <<hub, standing, sessionsOpen, pending, atClient, toServer, reader, tunnelRows, pc,
               tunnelRow, sessionOf, channel, answered, record, reply>>

\* One webhook, and two connections of which one replaces the other.
Outcome == INSTANCE Relay WITH
    Conns <- {c1, c2}, Names <- {fox}, Hooks <- {h1}, Replays <- {},
    NameOf <- [r \in {h1} |-> fox], StoreFaults <- FALSE,
    open <- sessionsOpen, tunnels <- tunnelRows, session <- sessionOf, answer <- answered

vars == <<part, tracingVars, limiterVars, authVars, readVars, logVars, routerVars, channelVars,
          proxyVars, clientsVars, forwarderVars, keyVars, filesVars, upVars, shutdownVars,
          relayVars>>

Init ==
    /\ part \in Parts
    /\ TracingInit /\ LimiterInit /\ AuthInit /\ ReadsInit /\ LogInit /\ RouterInit
    /\ ChannelInit /\ ProxyInit /\ ClientsInit /\ ForwarderInit /\ KeyInit /\ FilesInit
    /\ UpInit /\ ShutdownInit /\ Outcome!Init

\* How long each part that looks at the clock needs to pass its windows and expiries.
Horizon == [tracker |-> 5, tracing |-> 0, limiter |-> 2, auth |-> 3, log |-> 1]

Part(moving) ==
    /\ part = moving /\ UNCHANGED part
    /\ moving \notin DOMAIN Horizon => UNCHANGED now
    /\ moving # "tracing" => UNCHANGED hookVars
    /\ moving \notin {"tracing", "tracker"} => UNCHANGED <<activeTraces, issued, given>>
    /\ moving # "limiter" => UNCHANGED <<visitors, bucket, asking, answer>>
    /\ moving # "auth" => UNCHANGED <<tokens, sessions, links, cookie, opened, born, shown>>
    /\ moving # "log" => UNCHANGED <<table, stored, seen>>
    /\ moving # "reads" => UNCHANGED readVars
    /\ moving # "routing" => UNCHANGED routerVars
    /\ moving # "channel" => UNCHANGED channelVars
    /\ moving # "proxy" => UNCHANGED proxyVars
    /\ moving # "clients" => UNCHANGED clientsVars
    /\ moving # "forwarder" => UNCHANGED forwarderVars
    /\ moving # "setup" => UNCHANGED keyVars
    /\ moving # "files" => UNCHANGED filesVars
    /\ moving # "up" => UNCHANGED upVars
    /\ moving # "shutdown" => UNCHANGED shutdownVars
    /\ moving # "outcome" => UNCHANGED relayVars

TimedNext ==
    /\ \/ Part("tracker") /\ TrackerNext
       \/ Part("tracing") /\ TracingNext
       \/ Part("limiter") /\ LimiterNext
       \/ Part("auth") /\ AuthNext
       \/ Part("log") /\ LogNext
    /\ now' <= Horizon[part]

Next == \/ TimedNext
        \/ Part("reads") /\ ReadsNext
        \/ Part("routing") /\ RouterNext
        \/ Part("channel") /\ ChannelNext
        \/ Part("proxy") /\ ProxyNext
        \/ Part("clients") /\ ClientsNext
        \/ Part("forwarder") /\ ForwarderNext
        \/ Part("setup") /\ KeyNext
        \/ Part("files") /\ FilesNext
        \/ Part("up") /\ UpNext
        \/ Part("shutdown") /\ ShutdownNext
        \/ Part("outcome") /\ Outcome!Next

\* The cleanup loops never end, and neither does pie logs --follow; goroutines go on,
\* and every client is one of its own.  Of the others, one part's only are there.
Spec ==
    /\ Init /\ [][Next]_vars
    /\ WF_vars(\/ Part("tracker") /\ TrackerCleanup
               \/ Part("auth") /\ AuthCleanup
               \/ Part("log") /\ Poll
               \/ Part("channel") /\ ChannelRuns
               \/ Part("proxy") /\ ProxyRuns
               \/ Part("forwarder") /\ \E q \in Arrivals : HandlerRuns(q))
    /\ \A i \in ClientIDs : WF_vars(Part("clients") /\ ClientRuns(i))
    /\ Outcome!Fairness

\* Of the relay: every webhook that the server took is answered, or the server died, or
\* the webhook is being written to an open session for ever.
EveryRequestEnds == Outcome!EveryRequestEnds

\* Of the relay: a stored row does not stay pending, unless the server died, the store
\* failed, or the webhook is being written for ever.
NoRowStaysPending == Outcome!NoRowStaysPending
-----------------------------------------------------------------------------
Body == [id |-> "", version |-> "", model |-> "", request_id |-> "", status |-> "",
         payload |-> FALSE, call_id |-> "", object |-> "", method |-> ""]
Hook == [tunnel |-> t1, trace |-> "", pipeline |-> "", step |-> "", path |-> <<"/", "in">>,
         webhookID |-> FALSE, falSignature |-> FALSE, empty |-> FALSE, body |-> Body]

\* A job of Replicate, one of RunPod with the same id that a rule may place, plain
\* webhooks of two tunnels that only a rule places, and one with headers.
MCMessages ==
    {[Hook EXCEPT !.path = <<"/", "cb">>, !.body.id = "j1", !.body.version = "v"],
     [Hook EXCEPT !.tunnel = t2, !.body.id = "j1", !.body.status = "COMPLETED"],
     [Hook EXCEPT !.empty = TRUE],
     [Hook EXCEPT !.empty = TRUE, !.tunnel = t2],
     [Hook EXCEPT !.trace = "replicate:j1", !.pipeline = "p"]}

MCRuleSets == {<<[prefix |-> <<"/", "out">>, pipeline |-> "", step |-> ""],
                 [prefix |-> <<"/", "in">>, pipeline |-> "p", step |-> ""]>>}

\* Up to three characters, of which the API takes two; with a dot, a colon, a hyphen or
\* a prefix that is a local host's.
MCNames == {<<>>} \cup [1..1 -> {"a", "-", "."}] \cup [1..2 -> {"a", "-", ".", ":"}]
           \cup {<<"a", x, "a">> : x \in {"a", "-", ".", ":"}}

MCLocalHosts == {<<"a", "a">>}

MCWords == {"a", "requests", "status", "tunnels", "admin"}

MCPipelines == {"replicate", "runpod", "p"}

MCDomain == <<"d">>

\* A frame in one chunk, one in two, and one that is too large.
MCLength == [f \in {f1, f2, f3} |-> IF f = f1 THEN 1 ELSE IF f = f2 THEN 3 ELSE 5]

\* Two clients want one name.
MCWishes == {[i \in {d1, d2, d3} |-> IF i = d3 THEN "b" ELSE "a"]}

Step(name, path) == [name |-> name, webhook |-> path, forward |-> "3000", subdomain |-> Missing]

\* The example of `pie up --help`, one without tunnels, and incomplete ones.
MCPlans ==
    LET api == [api |-> [subdomain |-> "myapi", forward |-> "3000"],
                frontend |-> [subdomain |-> "myapp", forward |-> "5173"]]
        gen == [name |-> "image-gen", steps |-> <<Step("sdxl", "/replicate"), Step("upscale", "/fal")>>]
        alone == [gen EXCEPT !.steps[1].subdomain = "hooks"]
        full == [server |-> "host:9443", key |-> "k", tunnels |-> api, pipeline |-> gen]
    IN {full, [full EXCEPT !.tunnels = <<>>, !.pipeline = alone],
        [full EXCEPT !.pipeline.steps[2].webhook = Missing],
        [full EXCEPT !.pipeline = Missing], [full EXCEPT !.key = Missing]}
=============================================================================
