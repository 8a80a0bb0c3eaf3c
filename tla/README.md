# pipepie in TLA+

pipepie is a self-hosted tunnel: a server with public subdomains, clients behind
NATs that connect to it and forward webhooks to a local port, a SQLite database
that keeps every webhook, and a dashboard.  This directory holds TLA+ modules of
it, TLC configurations, and TLAPS proofs.  Paths below are relative to `src/`,
those of packages to `src/internal/`, and `listener` is short for
`server/tunnel_listener.go`.

## The system

| component | state | operations | talks to | hard about it |
|---|---|---|---|---|
| **Hub** `server/hub.go` | subdomain → session | Register, Unregister, Get, IsOnline, SendRequest | handlers of connections and of HTTP requests, through one RWMutex | the replaced session is closed after the unlock; Unregister of a session that was replaced |
| **Tunnel listener** listener `handleConn` | one goroutine per connection: handshake, hello, name, rows, session, read loop | accept … return | hub, store, client, yamux | races for a name; failing store; half-open links; the AuthOK before the registration |
| **Request relay** `server.go:407`, `api.go:144`, `listener:220` | one goroutine per HTTP request: row id, channel, timer; per session: `pending` | handleWebhook, handleReplay, SendRequest, read loop | hub, store, client | late, lost and doubled answers; sessions replaced under a request; the row against the reply |
| **Store** `store/store.go` | tunnels, requests | create/delete tunnels, insert/settle/prune requests, traces, statistics | everything on the server | a pool of connections with one PRAGMA'd; callers that ignore errors |
| **Pipelines** `server/pipeline.go`, `providers.go`, `server.go:425-489` | (tunnel, pipeline) → trace, last seen; the rules | Correlate, cleanup, DetectProvider, posting rules | handleWebhook, API | window and eviction boundaries; rules replaced without a lock; order of precedence |
| **Trace queries** `store/store.go:328-480`, `cmd/traces.go`, `cmd/logs.go` | none of their own | PipelineTraces, TraceTimeline, pages, the follow loop | store | two views of one trace; pages that cut it short |
| **HTTP routing** `server/server.go`, `dashboard_auth.go:84` | none | the dashboard's middleware, subdomainRouter, extractSubdomain, HostPolicy, mux | everything with a URL | names and ids that are words of the API; names that the listener takes unseen |
| **Rate limiter** `server/ratelimit.go` | address → bucket, last seen | getLimiter, Allow, cleanup | HTTP | eviction of a bucket in use |
| **Dashboard auth** `server/dashboard_auth.go` | tokens, sessions with expiries | GenerateToken, RedeemToken, ValidSession, cleanup | listener, HTTP | one-time use, expiry |
| **Dashboard API reads** `server/api.go` | none | overview, list, status, requests | store, hub | reads one after the other under change |
| **Wire protocol** `protocol/` | nonces, two mutexes, buffers | handshake, frames, chunks | listener, client | nonces in the order of messages, frames that do not mix |
| **TCP/WebSocket proxy** `server/tcp_proxy.go`, `server.go:351`, `client/tunnel.go:228` | pairs of copies | open, accept, copy, close | hub, client | half-closes; streams nobody accepts |
| **Client** `client/tunnel.go`, `mcp/tunnel.go` | remembered subdomain, back-off; port → running client | Run, connect; the MCP tools' connect, disconnect | listener | reconnects; cancellation that is looked at between frames |
| **Forwarder** `client/forwarder.go` | one goroutine per request | checkAuth, Forward, Timeout | local port | slow, silent or endless services |
| **Client configuration** `config/`, `cmd/connect.go`, `login.go`, `up.go` | YAML files | load, change, save; derive tunnels and rules | server, client | lost and torn updates; JSON keys named twice |
| **Setup, start and end** `setup/`, `server/server.go:85-240`, `cmd/server.go`, `cmd/status.go` | key file, configuration, nginx, service | wizard, loadOrCreateKey, Run, Close, the address the commands find | systemd, nginx, client | a new key under running clients; torn files; the end of the process |
| UI, display, doctor, update, version, generated code | — | — | — | I/O, formatting, libraries |

What makes each of them correct, in a sentence: the hub never maps a name to a session
that nobody reads from, and a takeover leaves one live session; a name that is
online has a row; a client that was told its URL is served and a client that is
gone is not; an awaited answer is never dropped and a read loop never stops; every
request ends, its row is settled once and agrees with what the sender was told;
the webhooks of one job are one trace, a trace is of one pipeline, and a failure is
not hidden by a later step; eviction from a table is not seen from outside; a link
to the dashboard works once; frames arrive whole and in order; a stream's answer is
complete and its loops end; a cancelled client stops; a login reaches the server.

## Modules

```
the core: one session table, one store
  NameDirectory  <-implements-  TunnelListener --extends--> Hub
        ^                             ^ MCTunnelListener <- MCReconnect
        | its actions are Relay's     | TunnelListener_proofs
        | environment
      Relay --extends--> Hub     Relay -implements-> RequestLedger
        ^ MCRelay, Relay_proofs

the server's tables
  WebhookTracing --extends--> PipelineTracker -implements-> Correlator
    |   ^ WebhookTracing_proofs*    ^ PipelineTracker_proofs
    +--extends--> ProviderDetection, TraceQueries <-extends-- RequestLog
  RateLimiter -implements-> TokenBucket
    ^ RateLimiter_proofs
  DashboardAuth, DashboardReads, Router --extends--> ApiCalls --extends--> Routing
    ^ Dashboard_proofs (all three)
  all that have a clock extend Clock; * and of RequestLog

what surrounds the server
  NoiseChannel -implements-> FrameFIFO
  NoiseChannel, StreamProxy                                 ^ Connection_proofs
  ClientTunnels, Forwarder, ServerSetup, ClientFiles        ^ Client_proofs
  UpPlan, ServerShutdown

MCParts extends all of the last two groups, and has an instance of Relay
```

The modules of the last two groups share at most the clock, as their parts of the program
share none of their data.  MCParts therefore lets one part move in a
behaviour (variable `part`): the states of the parts add up instead of multiplying,
and no interleaving is lost that a property could tell.  Its part "outcome" is a small instance of
the relay, with variables of its own, for what becomes of a webhook in the end.

### The core

**Hub** has the table and its three operations, each one critical section.

**TunnelListener** has one handler per connection (`pc`), the connection's name
(`sub`), the set of `open` yamux sessions, Register's local (`toClose`), the
tunnels table (`rows`) and the clients' ends (`peer`, `conn`, `want`).  ReadHello returns for a
first frame that cannot be read or is no Auth, whatever the peer is.

| action | code |
|---|---|
| Dial, ReadAuthOK, Disconnect, NoticeClose | `client/tunnel.go` connect, Run |
| Handshake, ReadHello | listener:78-119 |
| Lookup, Create, CreateSuffixed | listener:121-137 with TunnelBySubdomain, TunnelCreate |
| Welcome | TunnelTouch and AuthOK, listener:139-147 |
| Register, CloseOld | `hub.go:37-52`, up to the unlock and after it |
| ReadFails, Leave | the read loop's end and the deferred Unregister, Close, Close |
| KeepaliveFails | yamux gives the peer up (external) |
| ApiCreate, ApiDelete | `api.go:21-43, 76-82` |
| Restart | the process dies: everything but the table is gone |

Each store call and each lock region is a step of its own; what lies between two of
them touches only locals.  A connection that is over on both ends, and that no
handler still has to close, becomes a fresh one: the number of reconnects is not
bounded, only the connections alive at once.

**NameDirectory** is what the listener and the hub promise: a newcomer takes the
name at once, the former holder is evicted, never disturbs the name again and
ends.  `ImplementsDirectory` and `EvictedEnds` are its safety and its fairness
under the mapping `holder <- hub`, `standing <- Standing`.

**Relay** has one handler per HTTP request: webhooks (`Hooks`) and replays.

| action | code |
|---|---|
| LookupTunnel, Insert | `server.go:407-489`, with their early returns |
| CheckReplay | `api.go:144-169` |
| Get | `hub.go:77-83` and `pending.Store` |
| Write, Wait, Unlist | listener:221-239: WriteFrame, the select, the deferred Delete |
| Settle, Reply | `server.go:504-521` |
| ReadAnswer, Deliver | the read loop: `pending.Load`, then the send |
| Answer | `handleRequestSafe` of the client |
| CreateTunnel, DeleteTunnel, Prune | `store.go` |
| Attach, Break, Leave, Restart | sessions come and go as NameDirectory's actions |

Because the listener implements NameDirectory, the relay uses its actions for the
hub instead of the handlers' twelve steps.  A session may break at any time after it
attached, which includes the close by whoever replaced it.  Write may fail on an open session, as
WriteFrame refuses a frame that is too large or cannot be marshalled, and it may wait for ever:
`Writing` names the handlers that wait, which nothing but the end of their session helps.

**RequestLedger** is what store and sender see: stored, settled once, replied to in
agreement with the row.  `ImplementsLedger` maps it to the webhooks' rows.

### The server's tables

**PipelineTracker** has the table of active traces over a clock: Correlate is
`Continue` or `Start`, one step each because it runs under the tracker's lock;
`TrackerCleanup` is one round of the eviction loop.  Rounds are a minute apart in the
code; in the model one may happen whenever something is stale, which includes every
spacing.  `given` records what the last webhook of each key was told and when, which
is what **Correlator**, a specification without a table, is about.  Both are about a tunnel and a
pipeline, as the code's key is; that two comments speak of the tunnel alone is the run tunnel_trace.

**WebhookTracing** is what handleWebhook does between the lookup of the tunnel and the
insert: `Placed` is the chain of headers, rules, provider and path; `Place` reads the
rules, without the lock that the code does not take either, and asks the tracker,
and `Stored` is what the insert makes of it: a webhook without a trace has no step either.
RequestInsert and Settle are later steps of the handler; PostRules and RulesPosted are
the two ends of the assignment in handleSetPipelineRules, between which a reader may
get the length of one slice with the array of the other (`Views`).
**ProviderDetection** has the seven detectors over the fields that they look at, in
their order.  **TraceQueries** has the queries over the requests table as operators.  The
queries order rows by `created_at`, which is in seconds; rows of one second come in any order, so
`PipelineTraces` and `RequestPages` are the sets of answers that are possible.  PipelineTraces lists
the traces with one query and reads the steps of each with another: its arguments are the table that was
listed and the tables that the steps may have been read from.
**RequestLog** is `pie logs --follow` against a table that grows and is pruned; rows are in the order
of their arrival, so that those which pruning takes are the first ones.

**RateLimiter** has the visitors' table, the bucket objects, and the requests between
getLimiter and Allow, which hold a bucket that the cleanup may evict meanwhile.
**TokenBucket** is the promise to one address, as if nothing were evicted.

**DashboardAuth** follows a token from the tunnel connection that asks for it over
the link to the browser's cookie; **DashboardReads** takes every read of a handler
(`IsOnline`, `Get`, statistics, count, page) as a step, while rows and sessions change.
The requests table is a set of rows there, numbered in the order of their arrival,
which is all that the pages' order depends on.

**Routing** has the router as operators over hosts and paths, and **ApiCalls** every
call that a command or an MCP tool makes, with the handler it is meant for.  `dashAuth` is the
middleware that stands before the router, whatever the host: it answers below `/ui/`.  **Router** is
all this at work: names become tunnels through the API, which looks at them, or through a client's
hello, which takes them as they are; they are deleted; visitors ask a tunnel for webhooks, streams and the
API's and the dashboard's own paths, and commands send requests.

### What surrounds the server

**NoiseChannel** is one direction of a connection: `WriteFrame` takes `ctrlMu` and has two
Writes to do, `Encrypt` and `WriteRaw` are the two halves of NoiseConn.Write under
`writeMu`, `Read` is NoiseConn.Read with its buffer, ReadFrame puts frames together.
Bytes are known by the frame they are of and their place in it, so that mixed frames
are seen.  **FrameFIFO** is what the writers of frames count on.

**StreamProxy** has the six links between visitor, server, client and service as counts
of bytes, and the four io.Copy loops; handleConn and handleWebSocketProxy open, and
AcceptStream is acceptTCPStreams with the dial.  A visitor's connection that cannot be hijacked, as none
of HTTP/2 can, gets an error, behind which the stream is closed (`HijackFails`).

**ClientTunnels** has the clients of one `pie mcp`: Run's phases, the context that is
looked at in `Check`, `Dial` and `Retry` only, the map by port, and of the server the
hub alone, as NameDirectory promises it.

**Forwarder** has one goroutine per request against a local service that may be absent,
silent, endless or broken.  An answer that WriteFrame refuses is one that nobody gets, as the error is
ignored.

**ServerSetup** is the story of a server's key and addresses: the wizard (SetupBegins,
SetupKey, SetupConfig, SetupService), a server that is started by hand or by systemd
(loadOrCreateKey, Run), `pie login`, and the address that the commands find.  The wizard may fail to
stop the old server, which goes on with the old key; `stale` says that there is such a one.
**ServerShutdown** is the race between Close and main.

**ClientFiles** has the commands that load, change and save `config.yaml`; **UpPlan** is
`pie up` from the file's checks to the rules that the server decodes.

## Runs

A definition marked *Mutant* in a module is a plausible bug of the definition after it;
put in its place it makes TLC find a property violated (`PROJECT.json`, "mutants").

| run | instance | shows |
|---|---|---|
| listener_safety | 3 connections, 2 clients (one asks for `fox`, one for nothing), 2 names, store faults, API creations | TypeOK, HolderServes, SupersededIsClosing, OnlineHasRow, ImplementsDirectory |
| listener_liveness | 2 connections, API deletions | EvictedEnds, GhostLeaves, WelcomedIsServed |
| relay_safety | 2 connections, 1 webhook, 1 replay, store faults | TypeOK, ReaderNeverBlocks, AnswerFindsItsChannel, NoPendingLeak, ImplementsLedger |
| parts | MCParts, one part at a time | tracing: TraceTellsPipeline, JobKeepsItsTrace, FailureIsSticky, ViewsAgree; tracker: ImplementsCorrelator, SilentTraceIsEvicted; log: FollowedIsPrinted; limiter: ImplementsTokenBucket; auth: LinkIsOneTime, PageNeedsLiveSession, ExpiredIsForgotten; reads: AnswerAddsUp; routing: RoutingIsSound; channel: NoncesInOrder, ImplementsFrameFIFO, FramesArrive; proxy: WholeAnswer, CopiesEnd; clients: LateRequestIsLast, ClientsComeBack; forwarder: OneTrueAnswer, HandlerAnswers; setup: LoginReachesServer; files: ActiveIsKnown; outcome: EveryRequestEnds, NoRowStaysPending |
| reconnect | 3 connections | **violated**: `CHANGELOG.md:48` "Reconnect preserves assigned subdomain" |
| takeover | 3 connections | **violated**: listener:127 "Subdomain taken by another session" |
| orphan | 2 connections, 1 webhook | **violated**: `store.go:219` "TunnelDelete removes a tunnel and its requests" |
| sse | part proxy, client without `--tcp` | **violated**: `README.md:195` "SSE/streaming — pass-through without buffering" |
| up_rules | part up, 5 files | **violated**: `config/config.go:154` "PipelineRules returns path→step rules for the server to auto-match incoming webhooks." |
| shutdown | part shutdown, 2 requests | **violated**: `server/server.go:139` "Close cleanly shuts down the server and store." |
| tunnel_trace | part tracker | **violated**: `server/pipeline.go:36` "If there's an active trace for this tunnel within the TTL, returns the same trace_id." |
| streams | part forwarder | **violated**: `client/forwarder.go:83` "don't hang forever on streams", and `:88` "read available data with timeout, don't wait for EOF" |

The violated runs show what the code does against what it says:
a client that lost a race for its name comes back under the other one; a name in use
passes to the newcomer, with no suffix; a webhook's row may be inserted after its
tunnel was deleted; a stream for a client without `--tcp` is never accepted, and costs
the tunnel its session after 75 seconds; the rules of `pie up` lose their fields for want
of JSON tags; the process ends before Close has closed the store; webhooks of two pipelines of one tunnel
get two traces, however close they are; a stream that a service goes on sending is read to its end or limit,
with no timeout, and nothing of it is passed on before.

### Bounds

*Core.*  Three connections let one name be held, taken over and left at the same
time; two names let a suffixed name be free or taken; the generated name equals the
configured one, since collisions are the interesting case.  In the relay two
connections let the session be replaced under a request, and one webhook with one
replay share its channels and its reader.  Rows, handlers and channels are finite by
themselves.  `"delete" \in AdminOps` and `StoreFaults` are constants, so that a
property can be stated for the environment it holds in: OnlineHasRow holds without API
deletions, NoRowStaysPending without failing stores.  A ledger without store faults,
which is stricter, is not checked of its own: what it adds is NoRowStaysPending.

*The server's tables.*  The clock stops at the `Horizon` of the part that moves (at most `MaxTime`):
5 for the tracker, whose window is 2, so that an entry is refreshed, closed and evicted; 2 for the
limiter, past its idle time of 1; 3 for the auth tables, past their lives of 1 and 2; 1 for the log,
so that rows are of different seconds and pruned; 0 for tracing, where rows of one second are the
hard case for the queries and the tracker has its own part.  Two handlers and two rows (`MaxRows`)
make a trace of two steps; the five messages have one job at two providers, two plain webhooks of
two tunnels that only a rule places, and one whose headers forge another's trace; one set of two
rules makes torn reads possible from and to none.  A page of 1 (`Limit`) and two requests
(`MaxLogged`) fill it; two addresses, two callers and `RPS = Burst = 2` empty a bucket. Two tokens,
two sessions and two browsers race.  A name may be deleted and come back with another of two ids,
and one request (`MaxRequests`) be of either. One tunnel at a time (`MaxTunnels`) has a name of up
to two of a letter, a hyphen, a dot and a colon, or of three that begin and end with the letter,
under `MaxLabel` 2, since routing keeps nothing and looks at no other tunnel; and all calls whose
name and id are one of five words, four of which are the API's own.

*What surrounds it.*  Frames of length 1, 3 and 5 under `MaxFrame` 4, `MaxChunk` 2 and `MaxRead` 2 are
one chunk, several, and refused; `LastPing` caps what other streams send.  Three
clients on two ports, two of which want one name, evict each other; two failures
(`MaxFailures`) break what works.  Each end of a stream sends up to 2 bytes (`MaxSend`)
over three links; a body limit of 2 is reached and passed by a service.  Two keys
are an old one, of a wizard or of a server's, and the one that replaces it.  Two commands and
two account names interleave.  Five plans are the one of `pie up --help`, a pipeline
alone, tunnels alone, and two that lack a field that is asked for.

The relay of one webhook, with two connections that replace each other and a store that
does not fail by itself, has every reply, timeout, deletion, pruning and restart in it.

Deadlock is checked in the listener's and relay's runs.  It is not in those of MCParts
(`CHECK_DEADLOCK FALSE`): the clock, the fresh ids and the requests of a part are
used up there, and a process that has ended stays so.

### Fairness

Handlers are goroutines and the scheduler runs them: weak fairness of each handler's next step.  A
read from a broken link fails at the latest when yamux's keepalive gives up (30 s interval,
`listener:89` uses the default configuration), so ReadFails is part of that assumption.  A write to
an open session is not: nothing in the code ends one that waits for a client which answers pings and
reads nothing (`Writing`).  A client's read of a closed session fails (NoticeClose). The timer of
SendRequest fires.  Nothing is assumed of clients, networks, administrators or restarts: a client
need never answer, and a server that crashed is the exception in EveryRequestEnds and
NoRowStaysPending, as is a write that waits for ever.

In MCParts the cleanup loops and the polling of `pie logs --follow` are fair, as they
are loops without an exit.  What a goroutine does by itself is fair:
ChannelRuns, ProxyRuns (with yamux's timer), HandlerRuns (with http.Client's timer), and
ClientRuns for each client of its own, since one that is evicted for ever must not
stand for the others.  Visitors, services, networks and users are not: they may stop at
any time.  That clients come back is for good (`<>[]`) after the last of `MaxFailures`
failures.

## What the code does that no property says

Met while modelling.  No document says otherwise, so they are no findings; of a cancelled client, which
comments can be read against, the item says what they are.

- The limiter's eviction is invisible only with a margin: a request that got its
  bucket before the eviction and takes its token `MaxHold` later needs
  `RPS * (IdleLimit + 1 - MaxHold) >= Burst`, which LimiterAssumption states.  With 100
  requests per second, a burst of 200 and three minutes of idle time the code has it.
- The dashboard's middleware precedes subdomainRouter, so a tunnel's own `/ui/` path asks
  for a session too, and a visitor with a token in the query redeems it there (RoutingIsSound's exception).
- The listener accepts names in a hello that `isValidSubdomain` refuses through the API.  Of those with a
  dot or a colon RoutingIsSound says nothing: the visitor of `a.b` is taken to the API.
- A step of `pie up` without a subdomain gets that of some tunnel, and then two clients
  of one process evict each other; ClientsComeBack is for names that differ.
- `disconnect` of an MCP tunnel cancels a context that a quiet client does not look at
  before its next frame: until then it is online and serves one more request
  (LateRequestIsLast is the bound), while the tools' list omits it.  `mcp/tunnel.go:95` says of
  Disconnect that it stops a tunnel, `:110` of List that it returns all active tunnels, and the tools'
  descriptions speak of what is "currently connected": whether a cancelled client is still one is a matter
  of words, and there is no property of it here.
- The rows of requests that waited when the server died stay pending: nothing settles them at the next start.
- Rules may be torn while they are replaced, as nothing locks them; TraceTellsPipeline holds over torn ones.
- `pie logs --follow` prints a request once, and not again when its status changes.
- The wizard ignores that it could not stop the old server: that one keeps its key and the ports.
- proxyTCP returns when the first of its loops ends, so that a visitor who closes
  its side first may lose the rest of the answer, and the second loop waits for ever
  on an unbuffered channel (`stuck`).
- The forwarder cuts bodies at its limit without a word, and answers that cannot be framed are dropped: the
  relay's timeout ends the request.
- An error of LoadClient is a nil pointer to some commands.
- The commands take any HTTPS answer for the server's, so a stranger on :443 hides the
  API on :8080 (the exception in LoginReachesServer); `--tls-cache` is read by nobody.
- A save of `config.yaml` takes back what another command saved meanwhile; ActiveIsKnown
  shows that the file stays consistent over it.
- A tunnel that is deleted while it is online stays in the hub without a row.

## What is proved

The theorems hold for all values of the constants that the named assumptions of the
modules allow: any sets of connections, clients, names, requests, frames and so on, finite or
not (but for the subdomains of `ReadsAssumption`), and all lengths, limits and times.  A
component's own specification (`ClientsSpec`, `TracingSpec`, ...) is what MCParts
checks of the part, without fairness.  The assumptions say

- of null values that they are not among the values (`NoConnAssumption` and its like);
- *Relay, Hub*: names have suffixes in Names; webhooks and replays are disjoint;
- `ChannelAssumption`: frames have a length, and chunks and reads a positive limit;
- `AuthAssumption`, `TrackerAssumption`: lives and windows are numbers;
- `LimiterAssumption`: an address is forgotten only after its bucket has filled up,
  `RPS * (IdleLimit + 1 - MaxHold) >= Burst`, which the code's 100, 200 and three minutes
  satisfy (see above);
- `TracingAssumption`: the tracker's ids begin with `tr-`, so that none is a job's id, which has
  a provider and a colon in it; no provider has a colon in its name;
- `RowsAssumption`, `LogAssumption`, `NamesAssumption`: the bounds of the tables, pages and retention are
  numbers, and names are sequences of strings, the characters;
- `RoutingAssumption`: the domain has no port, and no letter is a dot or a colon.  Nothing checks the
  domain that the operator gives; under one with a port no host would be a tunnel's.

**The listener** (`TunnelListener_proofs`).  The inductive invariant `IInv` adds to the
properties that a handler past the hello has a name (`PlacedHasName`), that only a handler
between Register's two halves has a session to close, never its own (`OnlyRegisterCloses`),
and that a handler past the creation has a row unless tunnels are deleted
(`WelcomedHasRow`).  It gives TypeCorrect, HolderServesAlways, NoLiveSessionLeftBehind,
OnlineAlwaysHasRow and ListenerImplementsDirectory (one case per action: Register is
Attach, Leave is Detach or Retire, Restart is Reset, everything else stutters).  RestIsInOrder follows
from SupersededIsClosing and HolderServes where every handler is over or reads from a live client, and
from `SessionsHaveHandlers` for the clients that are connected.

**The relay** (`Relay_proofs`).  HolderServes-like facts do not suffice, because the read loop
blocks only if two answers meet.  `OneAnswer` places the single answer of a request: at the
client, on its way, at the read loop or in the channel, never twice;
`TracesFollowSession` ties it to the session its handler uses.  They give
ReadLoopsNeverBlock, NoAwaitedAnswerDropped and PendingNeverLeaks.  A second
invariant, `RowsFollowHandlers`, says what a webhook's row may be at each pc, and
gives RelayImplementsLedger, and, with what a step may do to one webhook (`StepOfHook`),
RepliedRowsAreSettled.

**Pipelines** (`PipelineTracker_proofs`).  The table agrees with `given` or has forgotten an
entry that is older than two windows (`TableAgrees`), so the table and the correlator see
the same open windows; every step is one of the correlator or a stutter
(TrackerImplementsCorrelator).

**Webhooks and traces** (`WebhookTracing_proofs`).  Rows do not say for which key their trace was
issued, and the table that knew may have evicted it or died with the server.  `TracingInv`
therefore says that there is an owner of every issued trace, a tunnel and a pipeline:
each entry of the table is its trace's owner (`Owns`), and each row, and what each handler is
about to insert, has a trace of its own place or that of its provider's job
(`RightlyPlaced`).  A step that issues a trace extends the owners, no other changes them.
`PlacedBy` is the lemma about headers, rules and providers; it rests on
`SeenWasPosted`: even a torn slice of rules has posted rules only.  The theorems are
TracesTellTheirPipeline and JobsKeepTheirTraces.

*Failures and views.*  FailureIsSticky is about a step, and a step may settle, prune or forget rows:
that it leaves a failed one failed while it stays in the table needs `RowsInv`: an id is one row's
(`RowsOnce`), and a handler that waits for its answer has a row that is pending or gone, and that no
other handler waits for (`HooksWait`).  So a row that has failed stays so (FailedStays).  There are
never more rows than a query for all of them asks for (`RoomLeft`, RowsFit), so no trace is left out
of its answers (FewIDs).  The other half is about the queries alone.  The list is read from the
table before or after the step, and so are the steps of each trace, and the failed row is in both:
its trace is among those listed, and has a summary in each answer (TraceHasSummary,
AnswerHasFailed), which says failed whichever of the rows of one second comes first or last
(SummaryIs, FailedStatus). That there is an answer at all is TracesAreAnswered.  What is possible is
defined by the least and greatest times of finite sets of rows; that these exist is the least number
principle (LeastOf), which needs no induction of its own: the library proves that `<` on the
naturals is well-founded, and that a well-founded relation has minimal elements in every set. 
FailedTracesStayFailed and TwoViewsAgree follow.  An earlier form of the queries sorted sequences of
rows by their time; the attempt to prove it showed that it fixed an order for rows of one second
which the code leaves open.

*The log.*  PollMissesOnlyPushedOut: a page of every size exists (`PagesExist`), and a row than
which less than a page of rows is as recent is in all of them (`RecentIsInPage`, by cardinalities).
So when no possible page has anything new to print, what was not printed was pushed out.

**The limiter** (`RateLimiter_proofs`).  A bucket is one address's alone (`BucketsAreOwn`), and a
request that is between getLimiter and Allow holds the bucket that the table has for
its address (`HeldIsKept`), since nobody is held for as long as an address has to be idle;
the last token was taken soon after the address was last seen (`TakenWhenSeen`).  So what
is evicted is a full bucket, and LimiterIsBuckets follows step by step.

**The dashboard** (`Dashboard_proofs`).  A redeemed token is out of the table and is not generated
again (`RedeemedIsGone`), each session is of a token of its own (`OneSessionEach`), and the
expiries are those of the births (`TokensExpireInTime`, `SessionsExpireInTime`): LinkOpensOneSession
and PageIsProtected.  For AnswersAddUp, the handler that is reading has statistics
of listed rows only (`StatsAreOfRows`), a row has no status from a response that it did not
get, and who is in the hub has been witnessed; that the successes and errors of a tunnel are
at most its rows is a fact about cardinalities of disjoint sets.  *Routes:* LabelsAreRouted is about
the URLs of names of any length over any characters but the dot and the colon, from what a suffix, a
concatenation and the last colon of a host are (`EndsWith`, `HostOfName`, `PortIsCutOff`), and
CallsAreHandled about the patterns, for all names and ids (CallsMatch).  The names that the API accepts are
among the first (ValidIsLabel, AcceptedAreLabels); those of a hello are when they have neither character, and
only of such the theorem speaks.  With the invariant that tunnels have names that the API accepted or a hello
gave, and that requests come from visitors or commands (`RouterInv`), and since the middleware takes only what
is below `/ui/` for itself, where no command goes, they give RoutesAreSound.

**The connection** (`Connection_proofs`).  *Proxy:* the bytes in the three links back to the visitor
are those that the service wrote (`BytesAreKept`), and the four loops end in turn, each with
an empty link behind it (`EndsInTurn`), unless somebody broke the stream off: AnswerArrivesWhole.
*Channel:* the holder of `ctrlMu` alone has frames to write (`WritersTakeTurns`), what is
sealed is the beginning of what its writer has to write (`SealedIsBeginning`), and who has
sealed a message has `writeMu` and its nonce is the next of the wire (`NonceIsNext`):
MessagesAreInOrder.  That is not enough for ConnectionIsFrameFIFO: frames are cut into chunks,
chunks into reads, and other streams' bytes are in between.  `FramesInStream` says that all
that was ever written to the control stream is one sequence of bytes, in which frame k
begins at `off[k]` (`FramesLie`) and message m of the wire at `at[m]` (`Carried`); the reader's
buffer and the wire are the rest of it (`ReaderIsAt`), and a writer in the middle of a frame stands
at its end (`WriterIsAt`).  Then what the reader puts together is the next frame, and every
step is a Send, a Receive or a stutter of FrameFIFO.

*At rest.*  Two theorems are about the states in which neither side can go on by itself, with the
guards written out (`LoopsRest`, `AtRest`).  NoLoopIsLeftCopying: where a loop ended the next
link is closed (`ClosesGoRound`), so the loops cannot wait for each other in a circle once somebody left.
NothingIsLeftBehind: who holds `writeMu` is in the middle of a Write (`MutexIsUsed`), and with
`FramesInStream` a reader without a whole frame has received all that was sent.

**The client's side** (`Client_proofs`).  A late request brings the client to the check of its context
(`LateClientStops`): CancelledClientStops.  Run ends for a cancelled context
only (`OnlyCancelledEnd`): RestingClientsAreOnline, by which two clients that want one name never come
to rest.  The service is asked only by
handlers that let the request through (`OneTrueFrame`): OneTrueAnswerAlways; and only answers that
began are read (`ReadsAreOfAnswers`), so that OnlyStreamsWait.  What is shown and
saved is the key file's until another is made, and a server that is not `stale` has the file's
(`KeyIsKept`): LoginReachesEveryServer.  Every command's copy is
as consistent as the file (`FilesInv`): ActiveIsAlwaysKnown.

*Only model-checked:*

- liveness, for which the prover has no rules of fairness and ENABLED: EvictedEnds, GhostLeaves,
  WelcomedIsServed, EveryRequestEnds, NoRowStaysPending, SilentTraceIsEvicted, FollowedIsPrinted,
  ExpiredIsForgotten, FramesArrive, ClientsComeBack, CopiesEnd, HandlerAnswers.

Of nine of these the safety half is proved: that where those that could go on by themselves have no step
to take, the right thing has happened.  The theorems write the guards of those steps out, as there is no
ENABLED.

| property | safety half | where nothing can run |
|---|---|---|
| EvictedEnds, GhostLeaves, WelcomedIsServed | RestIsInOrder | nobody is evicted, absent or unserved |
| NoRowStaysPending | RepliedRowsAreSettled | a handler that replied left no pending row |
| FollowedIsPrinted | PollMissesOnlyPushedOut | what was not printed was pushed out |
| FramesArrive | NothingIsLeftBehind | what was sent is received |
| CopiesEnd | NoLoopIsLeftCopying | no loop of a stream that somebody left is copying |
| ClientsComeBack | RestingClientsAreOnline | every client that was not told to stop is online |
| HandlerAnswers | OnlyStreamsWait | every request is over, or accepts a stream |

That something does happen as long as it can is the fairness, and stays with TLC.  Of the other three there
is no such half to prove: the steps of a request's handler have no guard but their place
(EveryRequestEnds), and the guard of a cleanup is the property (SilentTraceIsEvicted, ExpiredIsForgotten).

The eight violated properties are counterexamples and need no proof.

## Not modelled

The contents of requests, headers and bodies, and their compression; Noise's
cryptography, TLS and the issue of certificates, which are libraries'; formatting,
logging, the terminal display and the static UI; the doctor, whose checks read the
machine once and print; updates and the version check, which call package hosts; the
generated protocol buffers; the schema's migration and the scanning of rows;
RequestSetError and TCPProxyClient, which have no caller; the MCP protocol, which is a
library's.

WriteFrame to the client is one step in Relay, which may fail or never be taken: a session that closes half
way through it is one that closes before or after (NoiseChannel has its steps).  The
limiter, the access check and the trace of a webhook do not appear in Relay: they
refuse it before it starts or choose data of its row.  That a user who is asked to
stop nginx does so is assumed in ServerSetup.  In ClientFiles an account is its name.

## Plan

The model is at its breadth, and each safety property of the runs and each safety half of a liveness
property has its theorem or its reason above.  What is left is liveness itself, should the prover come to
have rules of fairness: the theorems about states at rest are the part of those proofs that is about
this code.
