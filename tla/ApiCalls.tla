------------------------------- MODULE ApiCalls -------------------------------
(***************************************************************************)
(* What the commands and the MCP tools ask of the server's API: each call, *)
(* and the handler that it is for.  Their printing is left out.            *)
(***************************************************************************)
EXTENDS Routing

Ask(method, path, handler) == [call |-> <<method, "api">> \o path, for |-> handler]
GetOf(path, handler) == Ask("GET", path, handler)

pieStatus == {GetOf(<<"overview">>, "handleOverview")}

pieLogs(name) == {GetOf(<<"tunnels", name, "requests">>, "handleRequestList")}

pieTraces(name) == {GetOf(<<"tunnels", name, "requests">>, "handleRequestList")}

pieInspect(id) == {GetOf(<<"requests", id>>, "handleRequestGetGlobal")}

\* Without a subdomain it looks the request up, and gives up.
pieReplay(name, id) ==
    {IF name = "" THEN GetOf(<<"requests", id>>, "handleRequestGetGlobal")
     ELSE Ask("POST", <<"tunnels", name, "requests", id, "replay">>, "handleReplay")}

pieTunnelCreate == {Ask("POST", <<"admin", "tunnels">>, "handleTunnelCreate")}
pieTunnelList == {GetOf(<<"admin", "tunnels">>, "handleTunnelList")}
pieTunnelDelete(name) == {Ask("DELETE", <<"admin", "tunnels", name>>, "handleTunnelDelete")}

pieUp == {Ask("POST", <<"pipeline-rules">>, "handleSetPipelineRules")}

\* The tools of `pie mcp` that are not about tunnels of its own.
tools(name, id) ==
    {GetOf(<<"overview">>, "handleOverview"),
     GetOf(<<"admin", "tunnels">>, "handleTunnelList"),
     GetOf(<<"tunnels", name, "status">>, "handleTunnelStatus"),
     GetOf(<<"tunnels", name, "requests">>, "handleRequestList"),
     GetOf(<<"requests", id>>, "handleRequestGetGlobal"),
     Ask("POST", <<"tunnels", name, "requests", id, "replay">>, "handleReplay"),
     GetOf(<<"pipelines", id, "traces">>, "handlePipelineTraces"),
     GetOf(<<"traces", id>>, "handleTraceTimeline"),
     Ask("POST", <<"admin", "tunnels">>, "handleTunnelCreate"),
     Ask("DELETE", <<"admin", "tunnels", name>>, "handleTunnelDelete")}

ApiCallsOf(name, id) ==
    pieStatus \cup pieLogs(name) \cup pieTraces(name) \cup pieInspect(id) \cup pieReplay(name, id)
    \cup pieTunnelCreate \cup pieTunnelList \cup pieTunnelDelete(name) \cup pieUp \cup tools(name, id)
-----------------------------------------------------------------------------
\* Each call reaches the handler that it is for, and no other pattern matches it, even
\* with names and ids that are words of the API's own paths.
CallsReachTheirHandlers(names, ids) ==
    \A name \in names, id \in ids : \A a \in ApiCallsOf(name, id) :
        Mux(a.call) = a.for /\ Matching(a.call) = {a.for}
=============================================================================
