---------------------------- MODULE MCReconnect ----------------------------
(***************************************************************************)
(* The listener with a history variable: the name in the last AuthOK that  *)
(* each client read.                                                       *)
(***************************************************************************)
EXTENDS MCTunnelListener

VARIABLE assigned

HistoryInit == Init /\ assigned = [cl \in Clients |-> NoName]

HistoryNext ==
    /\ Next
    /\ assigned' = [cl \in Clients |->
           IF conn[cl] # NoConn /\ peer[conn[cl]] = "waiting" /\ peer'[conn[cl]] = "ready"
           THEN sub[conn[cl]]
           ELSE assigned[cl]]

HistorySpec == HistoryInit /\ [][HistoryNext]_<<vars, assigned>>

\* What CHANGELOG.md:48 says of a client: "Reconnect preserves assigned
\* subdomain".  The client remembers the assigned name only if it asked for none.
ReconnectPreservesSubdomain ==
    [][\A cl \in Clients : assigned[cl] # NoName => assigned'[cl] = assigned[cl]]_assigned
=============================================================================
