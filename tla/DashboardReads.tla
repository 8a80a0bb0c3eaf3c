--------------------------- MODULE DashboardReads ---------------------------
(***************************************************************************)
(* The read-only handlers of the API (internal/server/api.go).  Each makes *)
(* several reads, of the store and of the hub, while tunnels are created   *)
(* and deleted, sessions come and go, and requests are inserted, settled   *)
(* and pruned.                                                             *)
(***************************************************************************)
EXTENDS SequencesExt, Integers

CONSTANTS Subdomains,
          TunnelIDs,    \* uuids, and so fresh
          Sessions,
          NoID,         \* no row, or an id not asked for
          Nobody,       \* no session
          NotReading,
          MaxRequests,  \* how many rows the model inserts
          DefaultLimit  \* 50 rows of a list

ASSUME ReadsAssumption ==
    /\ IsFiniteSet(Subdomains) /\ NoID \notin TunnelIDs /\ DefaultLimit \in Nat

VARIABLES tunnels,   \* of each subdomain, the id of its row
          spent,     \* ids that had a row
          requests,  \* the rows of the requests table: which request, of which tunnel, status and resp_status
          arrived,   \* how many requests there have been
          online,    \* the hub: of each subdomain, the session
          reading,   \* the handler: what it lists, has still to read, and has read
          witness    \* since the handler began, who was in the hub by subdomain

readVars == <<tunnels, spent, requests, arrived, online, reading, witness>>

ReadsInit ==
    /\ tunnels = [s \in Subdomains |-> NoID] /\ spent = {}
    /\ requests = {} /\ arrived = 0
    /\ online = [s \in Subdomains |-> Nobody]
    /\ reading = NotReading
    /\ witness = [s \in Subdomains |-> {Nobody}]
-----------------------------------------------------------------------------
TunnelRow(s) ==
    /\ \/ /\ tunnels[s] = NoID
          /\ \E id \in TunnelIDs \ spent :
              tunnels' = [tunnels EXCEPT ![s] = id] /\ spent' = spent \cup {id}
          /\ UNCHANGED requests
       \/ /\ tunnels[s] # NoID
          /\ tunnels' = [tunnels EXCEPT ![s] = NoID]
          /\ requests' = {r \in requests : r.tunnel # tunnels[s]}
          /\ UNCHANGED spent
    /\ UNCHANGED <<arrived, online, reading, witness>>

\* handleWebhook looked the tunnel up before, so that it may be gone.
InsertRow(id) ==
    /\ arrived < MaxRequests /\ arrived' = arrived + 1
    /\ requests' = requests \cup {[n |-> arrived, tunnel |-> id, status |-> "pending", resp |-> 0]}
    /\ UNCHANGED <<tunnels, spent, online, reading, witness>>

\* A request is settled once, by the handler that inserted it.
SettleRow(r) ==
    /\ r.status = "pending"
    /\ \E settled \in {[r EXCEPT !.status = "forwarded", !.resp = 200],
                       [r EXCEPT !.status = "forwarded", !.resp = 500],
                       [r EXCEPT !.status = "timeout"]} :
           requests' = (requests \ {r}) \cup {settled}
    /\ UNCHANGED <<tunnels, spent, arrived, online, reading, witness>>

PruneRow ==
    /\ \E r \in requests : (\A q \in requests : r.n <= q.n) /\ requests' = requests \ {r}
    /\ UNCHANGED <<tunnels, spent, arrived, online, reading, witness>>

Come(s, new) ==
    /\ new # online[s]
    /\ online' = [online EXCEPT ![s] = new]
    /\ witness' = [witness EXCEPT ![s] = @ \cup {new}]
    /\ UNCHANGED <<tunnels, spent, requests, arrived, reading>>
-----------------------------------------------------------------------------
RowsOf(id) == {r \in requests : r.tunnel = id}

Failed(r) == r.status \in {"failed", "timeout"} \/ r.resp >= 400

\* Mutant: whatever was forwarded succeeded.
WasForwarded(r) == r.status = "forwarded"

\* resp_status is NULL, here 0, until there is a response.
Succeeded(r) == r.resp # 0 /\ r.resp < 400

TunnelRequestStats ==
    [id \in TunnelIDs |-> [total |-> Cardinality(RowsOf(id)),
                           success |-> Cardinality({r \in RowsOf(id) : Succeeded(r)}),
                           errors |-> Cardinality({r \in RowsOf(id) : Failed(r)})]]

TunnelLastRequest == {r.tunnel : r \in requests}

TunnelRows == {t \in [sub : Subdomains, id : TunnelIDs] : tunnels[t.sub] = t.id}

\* The rows, in the order of created_at, which does not matter to what is read.
TunnelList == SetToSeq(TunnelRows)

\* The rows of a page: the newest.
RequestList(id, limit) ==
    {r \in RowsOf(id) : Cardinality({q \in RowsOf(id) : q.n > r.n}) < limit}

\* The reads of each handler after its first, in order.
HubReads(list) ==
    [k \in 1..2 * Len(list) |-> <<IF k % 2 = 1 THEN "IsOnline" ELSE "Get", list[(k + 1) \div 2]>>]

Begin(list, reads) ==
    /\ reading' = [list |-> list, reads |-> reads, got |-> <<>>]
    /\ witness' = [s \in Subdomains |-> {online[s]}]
    /\ UNCHANGED <<tunnels, spent, requests, arrived, online>>

handleTunnelList == Begin(TunnelList, HubReads(TunnelList))

handleOverview ==
    Begin(TunnelList, <<<<"Stats", NoID>>, <<"Last", NoID>>>> \o HubReads(TunnelList))

handleTunnelStatus(s) ==
    LET t == [sub |-> s, id |-> NoID]
    IN Begin(<<t>>, <<<<"Get", t>>, <<"IsOnline", t>>>>)

\* A limit that is missing or out of range is the default.
handleRequestList(s, limit) ==
    LET t == [sub |-> s, id |-> tunnels[s], limit |-> IF limit \in 1..100 THEN limit ELSE DefaultLimit]
    IN tunnels[s] # NoID /\ Begin(<<t>>, <<<<"Count", t>>, <<"Page", t>>, <<"IsOnline", t>>>>)

\* What a read finds now.
Found(read) ==
    LET about == read[2]
    IN CASE read[1] = "IsOnline" -> online[about.sub] # Nobody
         [] read[1] = "Get" -> online[about.sub]
         [] read[1] = "Stats" -> TunnelRequestStats
         [] read[1] = "Last" -> TunnelLastRequest
         [] read[1] = "Count" -> Cardinality(RowsOf(about.id))
         [] read[1] = "Page" -> RequestList(about.id, about.limit)

\* The next read.
NextRead ==
    LET read == Head(reading.reads)
    IN /\ reading # NotReading /\ reading.reads # <<>>
       /\ reading' = [reading EXCEPT !.reads = Tail(@),
              !.got = [r \in DOMAIN @ \cup {read} |-> IF r = read THEN Found(read) ELSE @[r]]]
       /\ UNCHANGED <<tunnels, spent, requests, arrived, online, witness>>

\* The handler writes its answer.
Respond ==
    /\ reading # NotReading /\ reading.reads = <<>>
    /\ reading' = NotReading
    /\ UNCHANGED <<tunnels, spent, requests, arrived, online, witness>>

ReadsNext ==
    \/ \E s \in Subdomains : \/ TunnelRow(s)
                             \/ \E new \in Sessions \cup {Nobody} : Come(s, new)
    \/ \E id \in spent : InsertRow(id)
    \/ \E r \in requests : SettleRow(r)
    \/ PruneRow
    \/ /\ reading = NotReading
       /\ \/ handleTunnelList \/ handleOverview
          \/ \E s \in Subdomains : \/ handleTunnelStatus(s)
                                   \/ \E limit \in 0..1 : handleRequestList(s, limit)
    \/ NextRead \/ Respond

ReadsSpec == ReadsInit /\ [][ReadsNext]_readVars
-----------------------------------------------------------------------------
\* However the tables change under a handler, what it answers adds up: of each
\* tunnel listed, the successes and the errors are different requests of its own, a
\* connection it shows was there while it read, and a page is of one tunnel.
AnswerAddsUp ==
    reading # NotReading => \A read \in DOMAIN reading.got :
        LET value == reading.got[read]
        IN CASE read[1] = "Stats" ->
                    \A i \in DOMAIN reading.list :
                        LET st == value[reading.list[i].id] IN st.success + st.errors <= st.total
             [] read[1] = "Get" -> value \in witness[read[2].sub]
             [] read[1] = "IsOnline" -> \E s \in witness[read[2].sub] : value = (s # Nobody)
             [] read[1] = "Page" -> \A r \in value : r.tunnel = read[2].id
             [] OTHER -> TRUE
=============================================================================
