----------------------------- MODULE ClientTunnels -----------------------------
(***************************************************************************)
(* Clients of one process (internal/client/tunnel.go, Run and connect):    *)
(* each dials, says which name it wants, reads frames until its connection *)
(* ends, and tries again until its context is cancelled, which it only     *)
(* looks at between these steps.  `pie mcp` starts and cancels them by     *)
(* port (internal/mcp/tunnel.go).                                          *)
(***************************************************************************)
EXTENDS Integers

CONSTANTS ClientIDs, Ports, TunnelNames,
          Wishes,        \* what the clients' cfg.Subdomain may be
          NoClient,      \* nobody
          MaxFailures    \* a bound: dials and connections that fail by themselves

ASSUME ClientsAssumption ==
    /\ Wishes \subseteq [ClientIDs -> TunnelNames]
    /\ NoClient \notin ClientIDs /\ MaxFailures \in Nat

VARIABLES phase,       \* of each client: "new", "dialling", "greeting", "checking",
                       \* "reading", "waiting" or "ended"
          wants,       \* of each client, cfg.Subdomain
          cancelled,   \* clients whose context is
          late,        \* per client, the requests it took up after that
          running,     \* by port, the client in tunnelManager.tunnels
          holder,      \* by name, the client whose session the server's hub has
          failures

clientsVars == <<phase, wants, cancelled, late, running, holder, failures>>

ClientsInit ==
    /\ phase = [i \in ClientIDs |-> "new"] /\ wants \in Wishes
    /\ cancelled = {} /\ late = [i \in ClientIDs |-> 0]
    /\ running = [p \in Ports |-> NoClient]
    /\ holder = [n \in TunnelNames |-> NoClient] /\ failures = 0

Enter(i, p) == phase' = [phase EXCEPT ![i] = p]

\* The client's connection closes behind it, and the server forgets it.
HangUp(i) == holder' = [n \in TunnelNames |-> IF holder[n] = i THEN NoClient ELSE holder[n]]

\* Mutant: Run gives up on an error.
GiveUp(i) == Enter(i, "ended")

\* Run, behind connect: it ends if the context is cancelled, else waits.
Returned(i) == Enter(i, IF i \in cancelled THEN "ended" ELSE "waiting")

\* DialContext, which a cancelled context fails; handshake and hello follow.
Dial(i) ==
    /\ phase[i] = "dialling"
    /\ Enter(i, IF i \in cancelled THEN "ended" ELSE "greeting")
    /\ UNCHANGED <<wants, cancelled, late, running, holder, failures>>

\* AuthOk: the server has registered the session, and evicted the one before it.
Greet(i) ==
    /\ phase[i] = "greeting"
    /\ holder' = [holder EXCEPT ![wants[i]] = i] /\ Enter(i, "checking")
    /\ UNCHANGED <<wants, cancelled, late, running, failures>>

\* The server is not there, or the connection breaks, in any step that uses it.
Fail(i) ==
    /\ phase[i] \in {"dialling", "greeting", "reading"} /\ failures < MaxFailures
    /\ failures' = failures + 1 /\ HangUp(i) /\ Returned(i)
    /\ UNCHANGED <<wants, cancelled, late, running>>

\* Mutant: the main loop does not look at the context.
ReadOn(i) ==
    /\ phase[i] = "checking" /\ Enter(i, "reading")
    /\ UNCHANGED <<wants, cancelled, late, running, holder, failures>>

\* The main loop looks at the context, then reads.
Check(i) ==
    /\ phase[i] = "checking"
    /\ \/ i \in cancelled /\ HangUp(i) /\ Returned(i)
       \/ i \notin cancelled /\ Enter(i, "reading") /\ UNCHANGED holder
    /\ UNCHANGED <<wants, cancelled, late, running, failures>>

\* A request arrives, and a goroutine handles it.
TakeRequest(i) ==
    /\ phase[i] = "reading" /\ holder[wants[i]] = i
    /\ late' = [late EXCEPT ![i] = IF i \in cancelled THEN @ + 1 ELSE @]
    /\ Enter(i, "checking")
    /\ UNCHANGED <<wants, cancelled, running, holder, failures>>

\* The read fails: the session was evicted.
Evicted(i) ==
    /\ phase[i] = "reading" /\ holder[wants[i]] # i
    /\ Returned(i)
    /\ UNCHANGED <<wants, cancelled, late, running, holder, failures>>

\* The back-off ends, or the context does.
Retry(i) ==
    /\ phase[i] = "waiting"
    /\ Enter(i, IF i \in cancelled THEN "ended" ELSE "dialling")
    /\ UNCHANGED <<wants, cancelled, late, running, holder, failures>>

Launch(i) == phase[i] = "new" /\ Enter(i, "dialling")

\* tunnelManager.connect, under its mutex.  Run does not return by itself, so the
\* look at errCh finds nothing.
Connect(p) ==
    /\ running[p] = NoClient
    /\ \E i \in ClientIDs : Launch(i) /\ running' = [running EXCEPT ![p] = i]
    /\ UNCHANGED <<wants, cancelled, late, holder, failures>>

\* tunnelManager.disconnect.
Disconnect(p) ==
    /\ running[p] # NoClient
    /\ cancelled' = cancelled \cup {running[p]}
    /\ running' = [running EXCEPT ![p] = NoClient]
    /\ UNCHANGED <<phase, wants, late, holder, failures>>

\* What a client does without being asked.
ClientRuns(i) == Dial(i) \/ Greet(i) \/ Check(i) \/ Evicted(i) \/ Retry(i)

ClientsNext == \/ \E i \in ClientIDs : ClientRuns(i) \/ TakeRequest(i) \/ Fail(i)
               \/ \E p \in Ports : Connect(p) \/ Disconnect(p)

ClientsSpec == ClientsInit /\ [][ClientsNext]_clientsVars
-----------------------------------------------------------------------------
Asked(i) == phase[i] # "new" /\ i \notin cancelled

\* A client that was told to stop takes up one more request at most: the one for
\* which it sat reading when its context was cancelled.  Until a frame comes it stays
\* online, though `disconnect` has forgotten it and active_tunnels does not list it.
LateRequestIsLast == \A i \in ClientIDs : late[i] <= 1

\* After the last failure every client that was not told to stop is online for good,
\* unless two of them want one name.
ClientsComeBack ==
    <>[]((\A i, j \in ClientIDs : Asked(i) /\ Asked(j) /\ i # j => wants[i] # wants[j])
         => \A i \in ClientIDs : Asked(i) => holder[wants[i]] = i)
=============================================================================
