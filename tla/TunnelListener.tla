--------------------------- MODULE TunnelListener ---------------------------
(***************************************************************************)
(* One handleConn goroutine per accepted connection                        *)
(* (internal/server/tunnel_listener.go), the hub they share, the tunnels   *)
(* table, and the clients' reconnect loops (internal/client/tunnel.go).    *)
(*                                                                         *)
(* A client dials, is assigned a subdomain, and is registered in the hub;  *)
(* a later registration under the same subdomain replaces it.  Links break *)
(* silently, either end may notice first, the store may fail, tunnels may  *)
(* be deleted under a live session and the server may restart.             *)
(*                                                                         *)
(* A connection that is over on both sides, and that no handler still has  *)
(* to close, is a fresh one again: nothing bounds the reconnections.       *)
(***************************************************************************)
EXTENDS Hub

CONSTANTS Clients,
          NoName,          \* "": the server picks a name
          Generated,     \* what generateSubdomain may return
          Suffixes,      \* a name to the names "<name>-<4 letters>"
          Configured,    \* the subdomain each client is started with
          StoreFaults,   \* whether a SQLite call may fail for its own reasons
          AdminOps       \* what is done to tunnels through the API

ASSUME NamesAssumption ==
    /\ NoName \notin Names
    /\ Generated \subseteq Names
    /\ Suffixes \in [Names -> SUBSET Names]
    /\ Configured \in [Clients -> Names \cup {NoName}]

VARIABLES rows,      \* subdomains that have a row in the tunnels table
          pc,        \* where each handleConn is
          sub,       \* the name a connection asked for, then the one it has
          open,      \* connections whose yamux session is open at the server
          toClose,   \* Register's local: the session it still has to close
          peer,      \* the client's end of each connection
          conn,      \* the connection each client's connect() is on
          want       \* Config.Subdomain of each client

serverVars == <<rows, pc, sub, open, toClose>>
clientVars == <<peer, conn, want>>
vars == <<hub, serverVars, clientVars>>

PCs == {"idle", "handshake", "hello", "lookup", "create", "suffixed", "welcome",
        "register", "closeOld", "reading", "unregister"}

\* The AuthOK frame is written and the connection is not yet closed.
Welcomed == {"register", "closeOld", "reading", "unregister"}

\* Between Register's swap and Unregister.
Registered == {"closeOld", "reading", "unregister"}

TypeOK ==
    /\ HubType
    /\ rows \subseteq Names
    /\ pc \in [Conns -> PCs]
    /\ sub \in [Conns -> Names \cup {NoName}]
    /\ open \subseteq Conns
    /\ toClose \in [Conns -> Conns \cup {NoConn}]
    /\ peer \in [Conns -> {"down", "waiting", "ready"}]
    /\ conn \in [Clients -> Conns \cup {NoConn}]
    /\ want \in [Clients -> Names \cup {NoName}]

Init ==
    /\ hub = EmptyHub
    /\ rows = {}
    /\ pc = [c \in Conns |-> "idle"]
    /\ sub = [c \in Conns |-> NoName]
    /\ open = {}
    /\ toClose = [c \in Conns |-> NoConn]
    /\ peer = [c \in Conns |-> "down"]
    /\ conn = [cl \in Clients |-> NoConn]
    /\ want = Configured
-----------------------------------------------------------------------------
(***************************************************************************)
(* The client's reconnect loop.                                            *)
(***************************************************************************)

Unused(c) == /\ pc[c] = "idle"
             /\ peer[c] = "down"
             /\ \A d \in Conns : toClose[d] # c

\* connect(): TCP, then the hello with the subdomain the client wants.
Dial(cl) ==
    /\ conn[cl] = NoConn
    /\ \E c \in Conns :
        /\ Unused(c)
        /\ conn' = [conn EXCEPT ![cl] = c]
        /\ pc' = [pc EXCEPT ![c] = "handshake"]
        /\ sub' = [sub EXCEPT ![c] = want[cl]]
        /\ peer' = [peer EXCEPT ![c] = "waiting"]
    /\ UNCHANGED <<hub, rows, open, toClose, want>>

\* The AuthOK arrives; only a client that asked for no name keeps this one.
ReadAuthOK(cl) ==
    /\ conn[cl] # NoConn
    /\ LET c == conn[cl] IN
        /\ peer[c] = "waiting"
        /\ pc[c] \in Welcomed
        /\ peer' = [peer EXCEPT ![c] = "ready"]
        /\ want' = [want EXCEPT ![cl] = IF @ = NoName THEN sub[c] ELSE @]
    /\ UNCHANGED <<hub, serverVars, conn>>

\* connect() returns: the deferred closes drop the client's end.
Disconnect(cl) ==
    /\ conn[cl] # NoConn
    /\ peer' = [peer EXCEPT ![conn[cl]] = "down"]
    /\ conn' = [conn EXCEPT ![cl] = NoConn]
    /\ UNCHANGED <<hub, serverVars, want>>

\* The server's end is closed, or there never was a session after the handshake.
ServerEndClosed(c) == c \notin open /\ pc[c] # "handshake"

\* The client finds its connection closed by the server.
NoticeClose(cl) == conn[cl] # NoConn /\ ServerEndClosed(conn[cl]) /\ Disconnect(cl)
-----------------------------------------------------------------------------
(***************************************************************************)
(* handleConn.                                                             *)
(***************************************************************************)

Goto(c, from, to) == pc[c] = from /\ pc' = [pc EXCEPT ![c] = to]

\* handleConn returns: its deferred sess.Close and raw.Close, its locals gone.
Return(c, from) ==
    /\ Goto(c, from, "idle")
    /\ open' = open \ {c}
    /\ sub' = [sub EXCEPT ![c] = NoName]

\* Mutant: without keepalive, only the server's own end is noticed.
NeverMissed(c) == c \notin open

\* A blocking read of this connection fails: by FIN, reset or keepalive.
Broken(c) == peer[c] = "down" \/ c \notin open

\* Noise, then yamux.Server; it fails on a bad peer or on the 10 s deadline.
Handshake(c) ==
    /\ \/ /\ Goto(c, "handshake", "hello")
          /\ open' = open \cup {c}
          /\ UNCHANGED sub
       \/ Return(c, "handshake")
    /\ UNCHANGED <<hub, rows, toClose, clientVars>>

\* Mutant: an empty subdomain is not replaced by a generated one.
TakeHelloAsIs(c) ==
    /\ Goto(c, "hello", "lookup")
    /\ UNCHANGED <<hub, rows, sub, open, toClose, clientVars>>

\* The control stream and its hello frame, and the choice of a name.  A first frame that
\* is no hello ends the handler, whether the connection lives or not.
ReadHello(c) ==
    /\ \/ /\ c \in open
          /\ Goto(c, "hello", "lookup")
          /\ \E n \in IF sub[c] = NoName THEN Generated ELSE {sub[c]} :
                sub' = [sub EXCEPT ![c] = n]
          /\ UNCHANGED open
       \/ Return(c, "hello")
    /\ UNCHANGED <<hub, rows, toClose, clientVars>>

\* TunnelBySubdomain; any error, not only a missing row, leads to TunnelCreate.
Lookup(c) ==
    /\ \/ sub[c] \in rows /\ Goto(c, "lookup", "welcome")
       \/ (sub[c] \notin rows \/ StoreFaults) /\ Goto(c, "lookup", "create")
    /\ UNCHANGED <<hub, rows, sub, open, toClose, clientVars>>

\* TunnelCreate succeeds when no row has the name (it is UNIQUE).
InsertRow(n) == n \notin rows /\ rows' = rows \cup {n}
InsertFails(n) == (n \in rows \/ StoreFaults) /\ UNCHANGED rows

\* Mutant: the suffixed name is not given a row of its own.
CreateOnce(c) ==
    /\ Goto(c, "create", "welcome")
    /\ \/ InsertRow(sub[c]) /\ UNCHANGED sub
       \/ /\ InsertFails(sub[c])
          /\ \E n \in Suffixes[sub[c]] : sub' = [sub EXCEPT ![c] = n]
    /\ UNCHANGED <<hub, open, toClose, clientVars>>

\* The first TunnelCreate; when it fails the name gets a random suffix.
Create(c) ==
    /\ \/ /\ InsertRow(sub[c])
          /\ Goto(c, "create", "welcome")
          /\ UNCHANGED sub
       \/ /\ InsertFails(sub[c])
          /\ Goto(c, "create", "suffixed")
          /\ \E n \in Suffixes[sub[c]] : sub' = [sub EXCEPT ![c] = n]
    /\ UNCHANGED <<hub, open, toClose, clientVars>>

\* The second one; when it fails the client is sent an AuthError.
CreateSuffixed(c) ==
    /\ \/ /\ InsertRow(sub[c])
          /\ Goto(c, "suffixed", "welcome")
          /\ UNCHANGED <<sub, open>>
       \/ InsertFails(sub[c]) /\ Return(c, "suffixed")
    /\ UNCHANGED <<hub, toClose, clientVars>>

\* Mutant: the AuthOK is all a client gets.
WelcomeOnly(c) ==
    /\ Goto(c, "welcome", "reading")
    /\ UNCHANGED <<hub, rows, sub, open, toClose, clientVars>>

\* TunnelTouch and the AuthOK, both with their errors ignored.
Welcome(c) ==
    /\ Goto(c, "welcome", "register")
    /\ UNCHANGED <<hub, rows, sub, open, toClose, clientVars>>

\* Mutant: the replaced session is not remembered.
RegisterOver(c) ==
    /\ Goto(c, "register", "reading")
    /\ Install(sub[c], c)
    /\ UNCHANGED <<rows, sub, open, toClose, clientVars>>

\* hub.Register up to its unlock.
Register(c) ==
    /\ Goto(c, "register", IF IsOnline(sub[c]) THEN "closeOld" ELSE "reading")
    /\ toClose' = [toClose EXCEPT ![c] = hub[sub[c]]]
    /\ Install(sub[c], c)
    /\ UNCHANGED <<rows, sub, open, clientVars>>

\* Mutant: the replaced session is left to its client.
CloseNothing(c) ==
    /\ Goto(c, "closeOld", "reading")
    /\ toClose' = [toClose EXCEPT ![c] = NoConn]
    /\ UNCHANGED <<hub, rows, sub, open, clientVars>>

\* The rest of hub.Register: the replaced session is closed outside the lock.
CloseOld(c) ==
    /\ Goto(c, "closeOld", "reading")
    /\ open' = open \ {toClose[c]}
    /\ toClose' = [toClose EXCEPT ![c] = NoConn]
    /\ UNCHANGED <<hub, rows, sub, clientVars>>

\* The read loop ends.
ReadFails(c) ==
    /\ Broken(c)
    /\ Goto(c, "reading", "unregister")
    /\ UNCHANGED <<hub, rows, sub, open, toClose, clientVars>>

\* Mutant: the session stays in the hub.
LeaveRegistered(c) ==
    /\ Return(c, "unregister")
    /\ UNCHANGED <<hub, rows, toClose, clientVars>>

\* The deferred calls, hub.Unregister first.
Leave(c) ==
    /\ Return(c, "unregister")
    /\ Unregister(sub[c], c)
    /\ UNCHANGED <<rows, toClose, clientVars>>

Handler(c) ==
    \/ Handshake(c) \/ ReadHello(c) \/ Lookup(c) \/ Create(c) \/ CreateSuffixed(c)
    \/ Welcome(c) \/ Register(c) \/ CloseOld(c) \/ ReadFails(c) \/ Leave(c)
-----------------------------------------------------------------------------
(***************************************************************************)
(* The environment of the handlers.                                        *)
(***************************************************************************)

\* The server's yamux keepalive gives the connection up.
KeepaliveFails(c) ==
    /\ c \in open
    /\ open' = open \ {c}
    /\ UNCHANGED <<hub, rows, pc, sub, toClose, clientVars>>

\* The API's handleTunnelCreate and handleTunnelDelete: the hub is not asked.
ApiCreate(n) ==
    /\ "create" \in AdminOps
    /\ InsertRow(n)
    /\ UNCHANGED <<hub, pc, sub, open, toClose, clientVars>>

ApiDelete(n) ==
    /\ "delete" \in AdminOps
    /\ n \in rows
    /\ rows' = rows \ {n}
    /\ UNCHANGED <<hub, pc, sub, open, toClose, clientVars>>

\* The server stops and starts again: only the tunnels table survives.
Restart ==
    /\ hub' = EmptyHub
    /\ pc' = [c \in Conns |-> "idle"]
    /\ sub' = [c \in Conns |-> NoName]
    /\ open' = {}
    /\ toClose' = [c \in Conns |-> NoConn]
    /\ UNCHANGED <<rows, clientVars>>

Next ==
    \/ \E cl \in Clients : Dial(cl) \/ ReadAuthOK(cl) \/ Disconnect(cl)
    \/ \E c \in Conns : Handler(c) \/ KeepaliveFails(c)
    \/ \E n \in Names : ApiCreate(n) \/ ApiDelete(n)
    \/ Restart

\* Handlers are goroutines, none of whose steps waits for another handler, and
\* reads of a broken connection fail by yamux's keepalive at the latest.  A
\* client's read of a closed connection fails too.  Whether a client dials,
\* breaks, or outlives its server is its own affair.
Fairness ==
    /\ \A c \in Conns : WF_vars(Handler(c))
    /\ \A cl \in Clients : WF_vars(NoticeClose(cl))

Spec == Init /\ [][Next]_vars /\ Fairness
-----------------------------------------------------------------------------
(***************************************************************************)
(* Properties.                                                             *)
(***************************************************************************)

\* The hub maps a name to a session only while that session's handler is
\* between its Register and its Unregister, and under that handler's own name:
\* no webhook is ever handed to a session nobody reads from.
HolderServes ==
    \A n \in Names : IsOnline(n) => /\ sub[hub[n]] = n
                                    /\ pc[hub[n]] \in Registered

\* A session that lost its name is closed, or some handler is about to close it
\* (Register closes outside the lock): no takeover leaves two live sessions
\* under one name behind, whatever the order of registrations and departures.
SupersededIsClosing ==
    \A c \in Conns :
        pc[c] \in {"closeOld", "reading"} /\ hub[sub[c]] # c
            => c \notin open \/ \E d \in Conns : toClose[d] = c

\* As long as nobody deletes tunnels, a name is online only with a row in the
\* store, which is what handleWebhook looks up first: races between connections
\* for one name, suffixes and store faults never register a name without a row.
OnlineHasRow ==
    "delete" \in AdminOps \/ \A n \in Names : IsOnline(n) => n \in rows

\* What each connection is to the directory.
Standing == [c \in Conns |-> IF \E n \in Names : hub[n] = c THEN "holding"
                            ELSE IF pc[c] \in Registered THEN "evicted"
                            ELSE "out"]

Directory == INSTANCE NameDirectory WITH holder <- hub, standing <- Standing

\* The listener implements the directory: a takeover evicts at once and no
\* handler's Unregister disturbs the session that replaced its own.
ImplementsDirectory == Directory!DirSafety

\* It implements its liveness too: an evicted session ends, whoever its client
\* is, though nothing but the handler that replaced it ever closes it.
EvictedEnds == Directory!DirFairness

\* A client that vanished without a word does not stay online: its session
\* leaves the hub even if nobody takes its name.
GhostLeaves ==
    \A c \in Conns : (peer[c] = "down") ~> (\A n \in Names : hub[n] # c)

\* A client that was told its URL is soon served under it, unless its
\* connection ends: the AuthOK comes before the registration, never instead.
WelcomedIsServed ==
    \A cl \in Clients, c \in Conns :
        conn[cl] = c /\ peer[c] = "ready"
            ~> conn[cl] # c \/ \E n \in Names : sub[c] = n /\ IsOnline(n)

\* What the comment at tunnel_listener.go:127 says of a connection that asks for
\* a name: "Subdomain taken by another session" makes it take a suffixed one,
\* so a name passes on only when its session's client is gone.
TakenNameIsNotReassigned ==
    [][\A n \in Names : IsOnline(n) /\ hub'[n] \notin {hub[n], NoConn}
            => peer[hub[n]] = "down"]_vars
=============================================================================
