-------------------------------- MODULE Relay --------------------------------
(***************************************************************************)
(* The way of a request through the server: handleWebhook and handleReplay *)
(* (internal/server/server.go, api.go), noiseSession.SendRequest and the   *)
(* session's read loop (tunnel_listener.go), the client's request handlers *)
(* (internal/client/tunnel.go) and the request's row (store/store.go).     *)
(*                                                                         *)
(* Sessions come, are replaced and go as the name directory says, which    *)
(* the tunnel listener implements.  Each request is one HTTP request that  *)
(* arrives once; a connection that is over serves again as a fresh one.    *)
(***************************************************************************)
EXTENDS Hub

CONSTANTS Hooks,        \* requests that arrive on a tunnel's public URL
          Replays,      \* requests that the API sends again
          NameOf,       \* the subdomain of each
          StoreFaults,  \* whether a SQLite call may fail for its own reasons
          Nothing       \* no answer

Requests == Hooks \cup Replays

ASSUME RequestsAssumption == /\ Hooks \cap Replays = {}
                             /\ NameOf \in [Requests -> Names]

\* What a client writes back: a Response (of any status: also its 401, and
\* its 502 page when the local service is down) or a ForwardError.
Answers == [id : Requests, kind : {"response", "error"}]

ASSUME NothingAssumption == Nothing \notin Answers

VARIABLES standing,  \* of each connection, in the directory
          open,      \* connections whose session is open at the server
          pending,   \* noiseSession.pending: the ids each session waits for
          atClient,  \* requests written to a connection and not answered
          toServer,  \* answers written to a connection and not read
          reader,    \* the answer a read loop is about to put in its channel
          tunnels,   \* subdomains that have a row
          pc,        \* where the handler of each request is
          tunnelRow, \* what became of the row a handler looked up
          session,   \* the session a handler got from the hub
          channel,   \* the handler's channel, of capacity 1
          answer,    \* what SendRequest returned
          record,    \* the status in each request's row
          reply      \* what the sender was told

sessionVars == <<hub, standing, open>>
linkVars == <<pending, atClient, toServer, reader>>
handlerVars == <<pc, tunnelRow, session, channel, answer>>
storeVars == <<tunnels, record>>
vars == <<sessionVars, linkVars, handlerVars, storeVars, reply>>

Directory == INSTANCE NameDirectory WITH holder <- hub

PCs == {"start", "insert", "get", "write", "wait", "unlist", "settle", "reply",
        "done", "dead"}

\* The handler has returned, or the server died under it.
Over == {"done", "dead"}

TypeOK ==
    /\ HubType
    /\ standing \in [Conns -> {"out", "holding", "evicted"}]
    /\ open \subseteq Conns
    /\ pending \in [Conns -> SUBSET Requests]
    /\ atClient \in [Conns -> SUBSET Requests]
    /\ toServer \in [Conns -> SUBSET Answers]
    /\ reader \in [Conns -> Answers \cup {Nothing}]
    /\ tunnels \subseteq Names
    /\ pc \in [Requests -> PCs]
    /\ tunnelRow \in [Requests -> {"unknown", "there", "deleted"}]
    /\ session \in [Requests -> Conns \cup {NoConn}]
    /\ channel \in [Requests -> {"empty", "response", "error"}]
    /\ answer \in [Requests -> {"none", "response", "error"}]
    /\ record \in [Requests -> {"absent", "pending", "forwarded", "timeout", "gone"}]
    /\ reply \in [Requests -> {"none", "refused", "timeout", "response", "error"}]

Init ==
    /\ Directory!DirInit
    /\ open = {}
    /\ pending = [c \in Conns |-> {}]
    /\ atClient = [c \in Conns |-> {}]
    /\ toServer = [c \in Conns |-> {}]
    /\ reader = [c \in Conns |-> Nothing]
    /\ tunnels = {}
    /\ pc = [r \in Requests |-> "start"]
    /\ tunnelRow = [r \in Requests |-> "unknown"]
    /\ session = [r \in Requests |-> NoConn]
    /\ channel = [r \in Requests |-> "empty"]
    /\ answer = [r \in Requests |-> "none"]
    /\ record = [r \in Requests |-> "absent"]
    /\ reply = [r \in Requests |-> "none"]
-----------------------------------------------------------------------------
(***************************************************************************)
(* Sessions, as the directory and the network make them come and go.       *)
(***************************************************************************)

Fresh(c) == /\ c \notin open
            /\ \A r \in Requests : session[r] = c => pc[r] \in Over

Attach(c, n) ==
    /\ Fresh(c)
    /\ Directory!Attach(c, n)
    /\ open' = open \cup {c}
    /\ atClient' = [atClient EXCEPT ![c] = {}]
    /\ toServer' = [toServer EXCEPT ![c] = {}]
    /\ pending' = [pending EXCEPT ![c] = {}]
    /\ UNCHANGED <<reader, handlerVars, storeVars, reply>>

\* The session closes: replaced, given up by the keepalive, or its client gone.
\* A client that vanishes unnoticed is one that answers no more.
Break(c) ==
    /\ c \in open
    /\ open' = open \ {c}
    /\ UNCHANGED <<hub, standing, linkVars, handlerVars, storeVars, reply>>

\* The read loop fails and handleConn returns: not while it is stuck in a send.
Leave(c) ==
    /\ c \notin open
    /\ reader[c] = Nothing
    /\ \/ \E n \in Names : hub[n] = c /\ Directory!Detach(n)
       \/ Directory!Retire(c)
    /\ UNCHANGED <<open, linkVars, handlerVars, storeVars, reply>>

\* The read loop takes an answer and looks up its channel; late ones are dropped.
ReadAnswer(c) ==
    /\ standing[c] # "out"
    /\ reader[c] = Nothing
    /\ \E a \in toServer[c] :
        /\ toServer' = [toServer EXCEPT ![c] = @ \ {a}]
        /\ reader' = [reader EXCEPT ![c] = IF a.id \in pending[c] THEN a ELSE Nothing]
    /\ UNCHANGED <<sessionVars, pending, atClient, handlerVars, storeVars, reply>>

\* Mutant: for a ForwardError the channel gets nil.
DeliverNil(c) ==
    /\ reader[c] # Nothing
    /\ channel[reader[c].id] = "empty"
    /\ channel' = [channel EXCEPT ![reader[c].id] = IF reader[c].kind = "error" THEN "none"
                                                    ELSE reader[c].kind]
    /\ reader' = [reader EXCEPT ![c] = Nothing]
    /\ UNCHANGED <<sessionVars, pending, atClient, toServer, pc, tunnelRow, session, answer,
                   storeVars, reply>>

\* It sends it: a ForwardError becomes a response of status 502.
Deliver(c) ==
    /\ reader[c] # Nothing
    /\ channel[reader[c].id] = "empty"
    /\ channel' = [channel EXCEPT ![reader[c].id] = reader[c].kind]
    /\ reader' = [reader EXCEPT ![c] = Nothing]
    /\ UNCHANGED <<sessionVars, pending, atClient, toServer, pc, tunnelRow, session, answer,
                   storeVars, reply>>

\* Mutant: no return after the ForwardError, so a Response follows it.
AnswerTwice(c, r) ==
    /\ r \in atClient[c]
    /\ atClient' = [atClient EXCEPT ![c] = @ \ {r}]
    /\ toServer' = [toServer EXCEPT ![c] =
                        @ \cup {[id |-> r, kind |-> k] : k \in {"error", "response"}}]
    /\ UNCHANGED <<sessionVars, pending, reader, handlerVars, storeVars, reply>>

\* handleRequestSafe, one goroutine per request: it writes one frame at most (the error
\* of a frame that cannot be written is ignored) and returns.
Answer(c, r) ==
    /\ r \in atClient[c]
    /\ atClient' = [atClient EXCEPT ![c] = @ \ {r}]
    /\ \E k \in {"response", "error"} :
            toServer' = [toServer EXCEPT ![c] = @ \cup {[id |-> r, kind |-> k]}]
    /\ UNCHANGED <<sessionVars, pending, reader, handlerVars, storeVars, reply>>
-----------------------------------------------------------------------------
(***************************************************************************)
(* The handler of a request.                                               *)
(***************************************************************************)

Goto(r, from, to) == pc[r] = from /\ pc' = [pc EXCEPT ![r] = to]

\* The sender gets an error before anything was stored.
Refuse(r, from) ==
    /\ Goto(r, from, "done")
    /\ reply' = [reply EXCEPT ![r] = "refused"]

\* handleWebhook looks its tunnel up and reads the body.  A failing store is a
\* missing tunnel, and any body may be too large.
LookupTunnel(r) ==
    /\ r \in Hooks
    /\ \/ /\ NameOf[r] \in tunnels
          /\ Goto(r, "start", "insert")
          /\ tunnelRow' = [tunnelRow EXCEPT ![r] = "there"]
          /\ UNCHANGED reply
       \/ /\ Refuse(r, "start")
          /\ UNCHANGED tunnelRow
    /\ UNCHANGED <<sessionVars, linkVars, session, channel, answer, storeVars>>

\* RequestInsert.  Only one pooled SQLite connection checks foreign keys, so a
\* row may be stored for a tunnel that was deleted in the meantime.
Insert(r) ==
    /\ \/ /\ Goto(r, "insert", "get")
          /\ record' = [record EXCEPT ![r] = "pending"]
          /\ UNCHANGED reply
       \/ /\ (tunnelRow[r] = "deleted" \/ StoreFaults)
          /\ Refuse(r, "insert")
          /\ UNCHANGED record
    /\ UNCHANGED <<sessionVars, linkVars, tunnelRow, session, channel, answer, tunnels>>

\* handleReplay reads the original, which may be gone, and asks whether the
\* client is online.
CheckReplay(r) ==
    /\ r \in Replays
    /\ \/ IsOnline(NameOf[r]) /\ Goto(r, "start", "get") /\ UNCHANGED reply
       \/ Refuse(r, "start")
    /\ UNCHANGED <<sessionVars, linkVars, tunnelRow, session, channel, answer, storeVars>>

\* Mutant: the request is written before its channel is listed.
GetOnly(r) ==
    /\ Goto(r, "get", IF IsOnline(NameOf[r]) THEN "write" ELSE "settle")
    /\ session' = [session EXCEPT ![r] = hub[NameOf[r]]]
    /\ UNCHANGED <<sessionVars, linkVars, tunnelRow, channel, answer, storeVars, reply>>

\* hub.Get, and pending.Store in that session, which is used from here on
\* whatever becomes of it.
Get(r) ==
    /\ Goto(r, "get", IF IsOnline(NameOf[r]) THEN "write" ELSE "settle")
    /\ session' = [session EXCEPT ![r] = hub[NameOf[r]]]
    /\ pending' = [c \in Conns |-> IF c = hub[NameOf[r]] THEN pending[c] \cup {r} ELSE pending[c]]
    /\ UNCHANGED <<sessionVars, atClient, toServer, reader, tunnelRow, channel, answer, storeVars,
                   reply>>

\* Mutant: a failed write returns before the deferred Delete is set up.
WriteOrReturn(r) ==
    /\ \/ /\ session[r] \in open
          /\ Goto(r, "write", "wait")
          /\ atClient' = [atClient EXCEPT ![session[r]] = @ \cup {r}]
       \/ Goto(r, "write", "settle") /\ UNCHANGED atClient
    /\ UNCHANGED <<sessionVars, pending, toServer, reader, tunnelRow, session, channel, answer,
                   storeVars, reply>>

\* WriteFrame, which fails on a closed session, and on an open one when the frame is too
\* large or has a header that cannot be marshalled.
Write(r) ==
    /\ \/ /\ session[r] \in open
          /\ Goto(r, "write", "wait")
          /\ atClient' = [atClient EXCEPT ![session[r]] = @ \cup {r}]
       \/ Goto(r, "write", "unlist") /\ UNCHANGED atClient
    /\ UNCHANGED <<sessionVars, pending, toServer, reader, tunnelRow, session, channel, answer,
                   storeVars, reply>>

\* Mutant: no timeout.
WaitForever(r) ==
    /\ channel[r] # "empty"
    /\ Goto(r, "wait", "unlist")
    /\ answer' = [answer EXCEPT ![r] = channel[r]]
    /\ channel' = [channel EXCEPT ![r] = "empty"]
    /\ UNCHANGED <<sessionVars, linkVars, tunnelRow, session, storeVars, reply>>

\* The select: the channel or the request's time to live.
Wait(r) ==
    /\ Goto(r, "wait", "unlist")
    /\ \/ /\ channel[r] # "empty"
          /\ answer' = [answer EXCEPT ![r] = channel[r]]
          /\ channel' = [channel EXCEPT ![r] = "empty"]
       \/ UNCHANGED <<answer, channel>>
    /\ UNCHANGED <<sessionVars, linkVars, tunnelRow, session, storeVars, reply>>

\* The deferred pending.Delete.
Unlist(r) ==
    /\ Goto(r, "unlist", "settle")
    /\ pending' = [pending EXCEPT ![session[r]] = @ \ {r}]
    /\ UNCHANGED <<sessionVars, atClient, toServer, reader, tunnelRow, session, channel, answer,
                   storeVars, reply>>

\* Mutant: a missing answer is recorded like any other.
SettleForwarded(r) ==
    /\ Goto(r, "settle", "reply")
    /\ record' = [record EXCEPT ![r] = IF @ = "pending" THEN "forwarded" ELSE @]
    /\ UNCHANGED <<sessionVars, linkVars, tunnelRow, session, channel, answer, tunnels, reply>>

\* Mutant: a missing answer is not recorded.
SettleAnswered(r) ==
    /\ Goto(r, "settle", "reply")
    /\ record' = [record EXCEPT ![r] = IF @ # "pending" \/ answer[r] = "none" THEN @
                                       ELSE "forwarded"]
    /\ UNCHANGED <<sessionVars, linkVars, tunnelRow, session, channel, answer, tunnels, reply>>

\* RequestSetResponse or RequestSetTimeout, of a row that may be gone, with the
\* error ignored; a replay has no row.
Settle(r) ==
    /\ Goto(r, "settle", "reply")
    /\ \/ record' = [record EXCEPT ![r] = IF @ # "pending" THEN @
                                          ELSE IF answer[r] = "none" THEN "timeout"
                                          ELSE "forwarded"]
       \/ StoreFaults /\ UNCHANGED record
    /\ UNCHANGED <<sessionVars, linkVars, tunnelRow, session, channel, answer, tunnels, reply>>

Reply(r) ==
    /\ Goto(r, "reply", "done")
    /\ reply' = [reply EXCEPT ![r] = IF answer[r] = "none" THEN "timeout" ELSE answer[r]]
    /\ answer' = [answer EXCEPT ![r] = "none"]
    /\ UNCHANGED <<sessionVars, linkVars, tunnelRow, session, channel, storeVars>>

Handler(r) == \/ LookupTunnel(r) \/ Insert(r) \/ CheckReplay(r) \/ Get(r) \/ Write(r)
              \/ Wait(r) \/ Unlist(r) \/ Settle(r) \/ Reply(r)
-----------------------------------------------------------------------------
(***************************************************************************)
(* The store's other users, and the end of the server.                     *)
(***************************************************************************)

\* TunnelCreate, by the listener or the API.
CreateTunnel(n) ==
    /\ n \notin tunnels
    /\ tunnels' = tunnels \cup {n}
    /\ UNCHANGED <<sessionVars, linkVars, handlerVars, record, reply>>

\* TunnelDelete removes the tunnel's row and the requests of that row.
DeleteTunnel(n) ==
    /\ n \in tunnels
    /\ tunnels' = tunnels \ {n}
    /\ LET ofRow == {r \in Requests : NameOf[r] = n /\ tunnelRow[r] = "there"} IN
        /\ tunnelRow' = [r \in Requests |-> IF r \in ofRow THEN "deleted" ELSE tunnelRow[r]]
        /\ record' = [r \in Requests |-> IF r \in ofRow /\ record[r] # "absent" THEN "gone"
                                         ELSE record[r]]
    /\ UNCHANGED <<sessionVars, linkVars, pc, session, channel, answer, reply>>

\* RequestPrune: retention may be shorter than a request's time to live.
Prune(r) ==
    /\ record[r] # "absent"
    /\ record' = [record EXCEPT ![r] = "gone"]
    /\ UNCHANGED <<sessionVars, linkVars, handlerVars, tunnels, reply>>

\* The server dies and comes back: the store is all that is left.
Restart ==
    /\ Directory!Reset
    /\ open' = {}
    /\ pending' = [c \in Conns |-> {}]
    /\ atClient' = [c \in Conns |-> {}]
    /\ toServer' = [c \in Conns |-> {}]
    /\ reader' = [c \in Conns |-> Nothing]
    /\ pc' = [r \in Requests |-> IF pc[r] \in {"start", "done"} THEN pc[r] ELSE "dead"]
    /\ session' = [r \in Requests |-> NoConn]
    /\ channel' = [r \in Requests |-> "empty"]
    /\ answer' = [r \in Requests |-> "none"]
    /\ UNCHANGED <<tunnelRow, storeVars, reply>>

Next ==
    \/ \E c \in Conns : \/ \E n \in Names : Attach(c, n)
                        \/ Break(c) \/ Leave(c) \/ ReadAnswer(c) \/ Deliver(c)
                        \/ \E r \in Requests : Answer(c, r)
    \/ \E r \in Requests : Handler(r) \/ Prune(r)
    \/ \E n \in Names : CreateTunnel(n) \/ DeleteTunnel(n)
    \/ Restart

\* WriteFrame waits for ctrlMu and for the room that the client's yamux gives, without
\* a deadline: the timer of the request starts behind it.
Writing(r) == pc[r] = "write" /\ session[r] \in open

\* A request that arrived is handled by a goroutine of its own, whose timer
\* fires.  Clients and networks promise nothing, be it to take what is written.
Fairness == \A r \in Requests : WF_vars(pc[r] # "start" /\ ~Writing(r) /\ Handler(r))

Spec == Init /\ [][Next]_vars /\ Fairness
-----------------------------------------------------------------------------
(***************************************************************************)
(* Properties.                                                             *)
(***************************************************************************)

\* A read loop never waits for room in a channel: one stuck send would stop
\* every answer of that tunnel, and its handler could not even leave the hub.
ReaderNeverBlocks ==
    \A c \in Conns : reader[c] # Nothing => channel[reader[c].id] = "empty"

\* An answer on its way is for a request that its session lists, or that was
\* given up: the read loop never drops what a handler still waits for.
AnswerFindsItsChannel ==
    \A c \in Conns : \A a \in toServer[c] :
        pc[a.id] \in {"write", "wait"} => a.id \in pending[c]

\* A session lists a request only while its handler is inside SendRequest, on
\* that session: neither failing writes nor takeovers nor restarts leak one.
NoPendingLeak ==
    \A c \in Conns : \A r \in pending[c] :
        pc[r] \in {"write", "wait", "unlist"} /\ session[r] = c

\* The rows and replies of webhooks follow the ledger: a row is settled once,
\* late answers change nothing, and the sender is told what the row says.
HookRecord == [r \in Hooks |-> record[r]]
HookReply == [r \in Hooks |-> reply[r]]

Ledger == INSTANCE RequestLedger WITH
    Requests <- Hooks, record <- HookRecord, reply <- HookReply

ImplementsLedger == Ledger!LedgerSpec

\* Every request that the server took is answered, or the server died, or the request
\* is being written to an open session for ever.
EveryRequestEnds == \A r \in Requests : (pc[r] # "start") ~> (pc[r] \in Over \/ Writing(r))

\* A stored row does not stay pending, unless the server died, the store failed, or the
\* request is being written for ever.
NoRowStaysPending ==
    \A r \in Hooks : (record[r] = "pending")
                        ~> (record[r] # "pending" \/ pc[r] = "dead" \/ Writing(r))

\* What store.go:219 says: "TunnelDelete removes a tunnel and its requests".
DeletedTunnelHasNoRequests ==
    \A r \in Hooks : tunnelRow[r] = "deleted" => record[r] \in {"absent", "gone"}
=============================================================================
