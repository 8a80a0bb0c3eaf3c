----------------------------- MODULE Relay_proofs -----------------------------
(***************************************************************************)
(* The relay's safety, for any number of connections, names and requests:  *)
(* its types, that no read loop ever blocks, that no awaited answer is     *)
(* dropped, that no session leaks a pending entry, that what the store and *)
(* the senders see is a behaviour of the ledger, and that a handler that   *)
(* replied leaves no row pending.                                          *)
(***************************************************************************)
EXTENDS Relay, TLAPS

\* The frame of the request is written.
Sent == {"wait", "unlist", "settle", "reply", "done"}

\* A request leaves traces only on its handler's session, and only once sent.
TracesFollowSession ==
    \A c \in Conns :
        /\ \A r \in atClient[c] : session[r] = c /\ pc[r] \in Sent
        /\ \A a \in toServer[c] : session[a.id] = c /\ pc[a.id] \in Sent
        /\ reader[c] # Nothing => session[reader[c].id] = c /\ pc[reader[c].id] \in Sent

ChannelsFollowSending == \A r \in Requests : channel[r] # "empty" => pc[r] \in Sent

\* One request yields one answer: it is at the client, on its way, at the read
\* loop or in the channel, never in two of these places.
OneAnswer ==
    \A c \in Conns :
        /\ \A r \in atClient[c] :
            /\ channel[r] = "empty"
            /\ \A a \in toServer[c] : a.id # r
            /\ reader[c] # Nothing => reader[c].id # r
        /\ \A a \in toServer[c] :
            /\ channel[a.id] = "empty"
            /\ \A b \in toServer[c] : a.id = b.id => a = b
            /\ reader[c] # Nothing => reader[c].id # a.id
        /\ reader[c] # Nothing => channel[reader[c].id] = "empty"

OutsideNobodyReads == \A c \in Conns : standing[c] = "out" => reader[c] = Nothing

\* A handler inside SendRequest is listed by its session.
SendersAreListed ==
    \A r \in Requests :
        pc[r] \in {"write", "wait", "unlist"} => session[r] \in Conns /\ r \in pending[session[r]]

IInv == /\ TypeOK
        /\ TracesFollowSession
        /\ ChannelsFollowSending
        /\ OneAnswer
        /\ OutsideNobodyReads
        /\ SendersAreListed
        /\ NoPendingLeak

USE NoConnAssumption, RequestsAssumption, NothingAssumption

LEMMA AnswerFields == \A a \in Answers : a.id \in Requests /\ a.kind \in {"response", "error"}
  BY DEF Answers

LEMMA InitIInv == Init => IInv
  BY DEF Init, Directory!DirInit, IInv, TypeOK, HubType, PCs, TracesFollowSession,
         ChannelsFollowSending, OneAnswer, OutsideNobodyReads, SendersAreListed, NoPendingLeak

\* The invariant's parts do not depend on the store or on replies.
LEMMA StoreStep ==
  ASSUME IInv, TypeOK', UNCHANGED <<sessionVars, linkVars, pc, session, channel>>
  PROVE  IInv'
  BY DEF IInv, sessionVars, linkVars, TracesFollowSession, ChannelsFollowSending, OneAnswer,
         OutsideNobodyReads, SendersAreListed, NoPendingLeak

\* A handler's step outside SendRequest moves one pc, from one unsent state to
\* another, or from one state after SendRequest to the next.
LEMMA OutsideStep ==
  ASSUME IInv, TypeOK', NEW r \in Requests, NEW to \in PCs,
         pc' = [pc EXCEPT ![r] = to],
         pc[r] \notin {"write", "wait", "unlist"}, to \notin {"write", "wait", "unlist"},
         pc[r] \in Sent => to \in Sent,
         UNCHANGED <<standing, linkVars, session, channel>>
  PROVE  IInv'
<1> USE DEF IInv, TypeOK, linkVars, Answers
<1>1. TracesFollowSession' /\ ChannelsFollowSending'
  BY DEF TracesFollowSession, ChannelsFollowSending
<1>2. OneAnswer' /\ OutsideNobodyReads'
  BY DEF OneAnswer, OutsideNobodyReads
<1>3. SendersAreListed' /\ NoPendingLeak'
  BY DEF SendersAreListed, NoPendingLeak
<1> QED BY <1>1, <1>2, <1>3

-----------------------------------------------------------------------------
\* A fresh connection starts with nothing on it; no handler still uses it.
LEMMA AttachStep ==
  ASSUME IInv, NEW c \in Conns, NEW n \in Names, Attach(c, n)
  PROVE  IInv'
<1> USE DEF IInv, TypeOK, HubType, Attach, Fresh, Over, handlerVars, storeVars, Answers
<1>1. standing[c] = "out" /\ reader[c] = Nothing
  BY DEF Directory!Attach, OutsideNobodyReads
<1>2. \A d \in Conns : standing'[d] \in {"out", "holding", "evicted"}
  BY DEF Directory!Attach
<1>3. TypeOK'
  BY <1>2 DEF Directory!Attach
<1>4. TracesFollowSession'
  BY <1>1 DEF TracesFollowSession
<1>5. ChannelsFollowSending'
  BY DEF ChannelsFollowSending
<1>6. OneAnswer'
  BY <1>1 DEF OneAnswer
<1>7. OutsideNobodyReads'
  BY <1>1 DEF OutsideNobodyReads, Directory!Attach
<1>8. SendersAreListed'
  BY DEF SendersAreListed
<1>9. NoPendingLeak'
  BY DEF NoPendingLeak
<1> QED BY <1>3, <1>4, <1>5, <1>6, <1>7, <1>8, <1>9

LEMMA BreakStep ==
  ASSUME IInv, NEW c \in Conns, Break(c)
  PROVE  IInv'
<1> USE DEF IInv, TypeOK, HubType, Break, handlerVars, storeVars, linkVars
<1>1. TypeOK'
  OBVIOUS
<1> QED BY <1>1 DEF TracesFollowSession, ChannelsFollowSending, OneAnswer, OutsideNobodyReads,
                    SendersAreListed, NoPendingLeak

LEMMA LeaveStep ==
  ASSUME IInv, NEW c \in Conns, Leave(c)
  PROVE  IInv'
<1> USE DEF IInv, TypeOK, HubType, Leave, handlerVars, storeVars, linkVars
<1>1. /\ hub' \in [Names -> Conns \cup {NoConn}]
      /\ standing' = [standing EXCEPT ![c] = "out"]
  BY DEF Directory!Detach, Directory!Retire
<1>2. TypeOK'
  BY <1>1
<1>3. OutsideNobodyReads'
  BY <1>1 DEF OutsideNobodyReads
<1> QED BY <1>2, <1>3 DEF TracesFollowSession, ChannelsFollowSending, OneAnswer,
                          SendersAreListed, NoPendingLeak

LEMMA ReadAnswerStep ==
  ASSUME IInv, NEW c \in Conns, ReadAnswer(c)
  PROVE  IInv'
<1> USE DEF IInv, TypeOK, HubType, sessionVars, handlerVars, storeVars
<1>1. PICK a \in toServer[c] :
         /\ toServer' = [toServer EXCEPT ![c] = @ \ {a}]
         /\ reader' = [reader EXCEPT ![c] = IF a.id \in pending[c] THEN a ELSE Nothing]
  BY DEF ReadAnswer
<1>2. /\ standing[c] # "out" /\ reader[c] = Nothing
      /\ UNCHANGED <<hub, standing, open, pending, atClient, pc, tunnelRow, session, channel,
                     answer, tunnels, record, reply>>
  BY DEF ReadAnswer
<1>3. a \in Answers /\ a.id \in Requests
  BY AnswerFields
<1>4. TypeOK'
  BY <1>1, <1>2, <1>3
<1>5. TracesFollowSession' /\ ChannelsFollowSending'
  BY <1>1, <1>2, <1>3 DEF TracesFollowSession, ChannelsFollowSending
<1>6. OneAnswer'
  BY <1>1, <1>2, <1>3 DEF OneAnswer, TracesFollowSession
<1>7. OutsideNobodyReads' /\ SendersAreListed' /\ NoPendingLeak'
  BY <1>1, <1>2 DEF OutsideNobodyReads, SendersAreListed, NoPendingLeak
<1> QED BY <1>4, <1>5, <1>6, <1>7

\* The one answer of a request moves into its channel.
LEMMA DeliverStep ==
  ASSUME IInv, NEW c \in Conns, Deliver(c)
  PROVE  IInv'
<1> USE DEF IInv, TypeOK, HubType, Deliver, sessionVars, storeVars
<1>1. reader[c] \in Answers /\ reader[c].id \in Requests
      /\ reader[c].kind \in {"response", "error"}
  BY AnswerFields
<1>2. TypeOK'
  BY <1>1
<1>3. TracesFollowSession' /\ ChannelsFollowSending'
  BY <1>1 DEF TracesFollowSession, ChannelsFollowSending
<1>4. OneAnswer'
  BY <1>1 DEF OneAnswer, TracesFollowSession
<1>5. OutsideNobodyReads' /\ SendersAreListed' /\ NoPendingLeak'
  BY DEF OutsideNobodyReads, SendersAreListed, NoPendingLeak
<1> QED BY <1>2, <1>3, <1>4, <1>5

LEMMA AnswerStep ==
  ASSUME IInv, NEW c \in Conns, NEW r \in Requests, Answer(c, r)
  PROVE  IInv'
<1> USE DEF IInv, TypeOK, HubType, sessionVars, storeVars, handlerVars
<1>1. PICK k \in {"response", "error"} :
         toServer' = [toServer EXCEPT ![c] = @ \cup {[id |-> r, kind |-> k]}]
  BY DEF Answer
<1>2. /\ r \in atClient[c] /\ atClient' = [atClient EXCEPT ![c] = @ \ {r}]
      /\ UNCHANGED <<hub, standing, open, pending, reader, pc, tunnelRow, session, channel,
                     answer, tunnels, record, reply>>
  BY DEF Answer
<1>3. [id |-> r, kind |-> k] \in Answers
  BY DEF Answers
<1>4. TypeOK'
  BY <1>1, <1>2, <1>3
<1>5. TracesFollowSession' /\ ChannelsFollowSending'
  BY <1>1, <1>2 DEF TracesFollowSession, ChannelsFollowSending
<1>6. OneAnswer'
  BY <1>1, <1>2 DEF OneAnswer
<1>7. OutsideNobodyReads' /\ SendersAreListed' /\ NoPendingLeak'
  BY <1>2 DEF OutsideNobodyReads, SendersAreListed, NoPendingLeak
<1> QED BY <1>4, <1>5, <1>6, <1>7
-----------------------------------------------------------------------------
\* A request that gets a session has left no trace yet.
LEMMA GetStep ==
  ASSUME IInv, NEW r \in Requests, Get(r)
  PROVE  IInv'
<1> USE DEF IInv, TypeOK, HubType, Goto, Get, sessionVars, storeVars, PCs, IsOnline
<1>1. NameOf[r] \in Names
  OBVIOUS
<1>2. TypeOK'
  BY <1>1
<1>3. TracesFollowSession'
  BY AnswerFields DEF TracesFollowSession, Sent
<1>4. ChannelsFollowSending'
  BY DEF ChannelsFollowSending, Sent
<1>5. OneAnswer' /\ OutsideNobodyReads'
  BY DEF OneAnswer, OutsideNobodyReads
<1>6. SendersAreListed'
  BY <1>1 DEF SendersAreListed
<1>7. NoPendingLeak'
  BY <1>1 DEF NoPendingLeak
<1> QED BY <1>2, <1>3, <1>4, <1>5, <1>6, <1>7

\* Nothing of the request is anywhere before it is written.
LEMMA WriteStep ==
  ASSUME IInv, NEW r \in Requests, Write(r)
  PROVE  IInv'
<1> USE DEF IInv, TypeOK, HubType, Goto, sessionVars, storeVars, PCs
<1>1. /\ pc[r] = "write" /\ session[r] \in Conns
      /\ pc' \in [Requests -> PCs] /\ pc'[r] \in {"wait", "unlist"}
      /\ \A q \in Requests \ {r} : pc'[q] = pc[q]
      /\ UNCHANGED <<hub, standing, open, pending, toServer, reader, tunnelRow, session, channel,
                     answer, tunnels, record, reply>>
  BY DEF Write, SendersAreListed
<1>2. /\ atClient' \in [Conns -> SUBSET Requests]
      /\ \A d \in Conns : \A q \in atClient'[d] : q \in atClient[d] \/ (q = r /\ d = session[r])
  <2>1. CASE atClient' = [atClient EXCEPT ![session[r]] = @ \cup {r}]
    BY <1>1, <2>1
  <2>2. CASE UNCHANGED atClient
    BY <2>2
  <2> QED BY <2>1, <2>2 DEF Write
<1>3. TypeOK'
  BY <1>1, <1>2
<1>4. TracesFollowSession' /\ ChannelsFollowSending'
  <2>1. \A q \in Requests : pc[q] \in Sent \/ q = r => pc'[q] \in Sent
    BY <1>1 DEF Sent
  <2>2. \A d \in Conns : \A a \in toServer[d] : a.id \in Requests
    BY AnswerFields
  <2>3. \A d \in Conns : reader[d] # Nothing => reader[d].id \in Requests
    BY AnswerFields
  <2> QED BY <1>1, <1>2, <2>1, <2>2, <2>3 DEF TracesFollowSession, ChannelsFollowSending
<1>5. OneAnswer'
  <2>1. /\ channel[r] = "empty"
        /\ \A d \in Conns : /\ \A a \in toServer[d] : a.id # r
                            /\ reader[d] # Nothing => reader[d].id # r
    BY <1>1 DEF TracesFollowSession, ChannelsFollowSending, Sent
  <2> QED BY <1>1, <1>2, <2>1 DEF OneAnswer
<1>6. OutsideNobodyReads' /\ SendersAreListed' /\ NoPendingLeak'
  BY <1>1 DEF OutsideNobodyReads, SendersAreListed, NoPendingLeak
<1> QED BY <1>3, <1>4, <1>5, <1>6

LEMMA WaitStep ==
  ASSUME IInv, NEW r \in Requests, Wait(r)
  PROVE  IInv'
<1> USE DEF IInv, TypeOK, HubType, Goto, sessionVars, linkVars, storeVars, PCs
<1>1. /\ pc[r] = "wait" /\ pc' = [pc EXCEPT ![r] = "unlist"]
      /\ channel' \in [Requests -> {"empty", "response", "error"}]
      /\ answer' \in [Requests -> {"none", "response", "error"}]
      /\ \A q \in Requests : channel'[q] \in {channel[q], "empty"}
      /\ UNCHANGED <<hub, standing, open, pending, atClient, toServer, reader, tunnelRow, session,
                     tunnels, record, reply>>
  BY DEF Wait
<1>2. TypeOK'
  BY <1>1
<1>3. TracesFollowSession' /\ ChannelsFollowSending'
  BY <1>1, AnswerFields DEF TracesFollowSession, ChannelsFollowSending, Sent
<1>4. OneAnswer'
  BY <1>1, AnswerFields DEF OneAnswer
<1>5. OutsideNobodyReads' /\ SendersAreListed' /\ NoPendingLeak'
  BY <1>1 DEF OutsideNobodyReads, SendersAreListed, NoPendingLeak
<1> QED BY <1>2, <1>3, <1>4, <1>5

LEMMA UnlistStep ==
  ASSUME IInv, NEW r \in Requests, Unlist(r)
  PROVE  IInv'
<1> USE DEF IInv, TypeOK, HubType, Goto, Unlist, sessionVars, storeVars, PCs
<1>1. TypeOK'
  OBVIOUS
<1>2. TracesFollowSession' /\ ChannelsFollowSending'
  BY AnswerFields DEF TracesFollowSession, ChannelsFollowSending, Sent
<1>3. OneAnswer' /\ OutsideNobodyReads'
  BY DEF OneAnswer, OutsideNobodyReads
<1>4. SendersAreListed'
  BY DEF SendersAreListed
<1>5. NoPendingLeak'
  BY DEF NoPendingLeak
<1> QED BY <1>1, <1>2, <1>3, <1>4, <1>5
-----------------------------------------------------------------------------
\* Every handler's step keeps the invariant.
LEMMA HandlerStep ==
  ASSUME IInv, NEW r \in Requests, Handler(r)
  PROVE  IInv'
<1> USE DEF IInv, TypeOK, HubType, Goto, Refuse, sessionVars, linkVars, storeVars, PCs, Sent
<1>1. CASE LookupTunnel(r)
  <2>1. TypeOK' /\ \E to \in {"insert", "done"} : pc' = [pc EXCEPT ![r] = to]
    BY <1>1 DEF LookupTunnel
  <2> QED BY <1>1, <2>1, OutsideStep DEF LookupTunnel
<1>2. CASE Insert(r)
  <2>1. TypeOK' /\ \E to \in {"get", "done"} : pc' = [pc EXCEPT ![r] = to]
    BY <1>2 DEF Insert
  <2> QED BY <1>2, <2>1, OutsideStep DEF Insert
<1>3. CASE CheckReplay(r)
  <2>1. TypeOK' /\ \E to \in {"get", "done"} : pc' = [pc EXCEPT ![r] = to]
    BY <1>3 DEF CheckReplay
  <2> QED BY <1>3, <2>1, OutsideStep DEF CheckReplay
<1>4. CASE Settle(r)
  <2>1. TypeOK' /\ pc' = [pc EXCEPT ![r] = "reply"]
    BY <1>4 DEF Settle
  <2> QED BY <1>4, <2>1, OutsideStep DEF Settle
<1>5. CASE Reply(r)
  <2>1. TypeOK' /\ pc' = [pc EXCEPT ![r] = "done"]
    BY <1>5 DEF Reply
  <2> QED BY <1>5, <2>1, OutsideStep DEF Reply
<1> QED BY <1>1, <1>2, <1>3, <1>4, <1>5, GetStep, WriteStep, WaitStep, UnlistStep DEF Handler

LEMMA EnvironmentStep ==
  ASSUME IInv,
         \/ \E r \in Requests : Prune(r)
         \/ \E n \in Names : CreateTunnel(n) \/ DeleteTunnel(n)
         \/ Restart
         \/ UNCHANGED vars
  PROVE  IInv'
<1> USE DEF IInv, TypeOK, HubType, handlerVars
<1>1. ASSUME NEW r \in Requests, Prune(r) PROVE IInv'
  <2>1. TypeOK'
    BY <1>1 DEF Prune, sessionVars, linkVars
  <2> QED BY <1>1, <2>1, StoreStep DEF Prune
<1>2. ASSUME NEW n \in Names, CreateTunnel(n) \/ DeleteTunnel(n) PROVE IInv'
  <2>1. CASE CreateTunnel(n)
    <3>1. TypeOK'
      BY <2>1 DEF CreateTunnel, sessionVars, linkVars
    <3> QED BY <2>1, <3>1, StoreStep DEF CreateTunnel
  <2>2. CASE DeleteTunnel(n)
    <3>1. TypeOK'
      BY <2>2 DEF DeleteTunnel, sessionVars, linkVars
    <3> QED BY <2>2, <3>1, StoreStep DEF DeleteTunnel
  <2> QED BY <1>2, <2>1, <2>2
<1>3. CASE Restart
  BY <1>3 DEF Restart, Directory!Reset, storeVars, PCs, TracesFollowSession,
              ChannelsFollowSending, OneAnswer, OutsideNobodyReads, SendersAreListed,
              NoPendingLeak
<1>4. CASE UNCHANGED vars
  <2>1. TypeOK'
    BY <1>4 DEF vars, sessionVars, linkVars, storeVars
  <2> QED BY <1>4, <2>1, StoreStep DEF vars
<1> QED BY <1>1, <1>2, <1>3, <1>4

\* The strengthened invariant is one of the relay.
THEOREM Invariance == Spec => []IInv
<1>1. IInv /\ [Next]_vars => IInv'
  <2> SUFFICES ASSUME IInv, [Next]_vars PROVE IInv'
    OBVIOUS
  <2>1. ASSUME NEW c \in Conns, NEW n \in Names, Attach(c, n) PROVE IInv'
    BY <2>1, AttachStep
  <2>2. ASSUME NEW c \in Conns, NEW r \in Requests, Answer(c, r) PROVE IInv'
    BY <2>2, AnswerStep
  <2>3. ASSUME NEW c \in Conns, Break(c) \/ Leave(c) \/ ReadAnswer(c) \/ Deliver(c)
        PROVE  IInv'
    BY <2>3, BreakStep, LeaveStep, ReadAnswerStep, DeliverStep
  <2>4. ASSUME NEW r \in Requests, Handler(r) PROVE IInv'
    BY <2>4, HandlerStep
  <2>5. CASE \/ \E r \in Requests : Prune(r)
             \/ \E n \in Names : CreateTunnel(n) \/ DeleteTunnel(n)
             \/ Restart
             \/ UNCHANGED vars
    BY <2>5, EnvironmentStep
  <2> QED BY <2>1, <2>2, <2>3, <2>4, <2>5 DEF Next
<1> QED BY <1>1, InitIInv, PTL DEF Spec

\* Every variable keeps its type.
THEOREM TypeCorrect == Spec => []TypeOK
  BY Invariance, PTL DEF IInv

\* The channel a read loop sends to has room: a client writes one answer per
\* request, and an answer is in one place at a time.
THEOREM ReadLoopsNeverBlock == Spec => []ReaderNeverBlocks
<1>1. IInv => ReaderNeverBlocks
  BY DEF IInv, OneAnswer, ReaderNeverBlocks
<1> QED BY <1>1, Invariance, PTL

\* An answer that arrives finds its channel as long as its handler waits.
THEOREM NoAwaitedAnswerDropped == Spec => []AnswerFindsItsChannel
<1>1. IInv => AnswerFindsItsChannel
  BY AnswerFields DEF IInv, TypeOK, TracesFollowSession, SendersAreListed, AnswerFindsItsChannel
<1> QED BY <1>1, Invariance, PTL

\* A session lists no request whose handler has left SendRequest.
THEOREM PendingNeverLeaks == Spec => []NoPendingLeak
  BY Invariance, PTL DEF IInv
-----------------------------------------------------------------------------
(***************************************************************************)
(* The ledger.                                                             *)
(***************************************************************************)

\* What SendRequest's caller will tell the sender.
Told(r) == IF answer[r] = "none" THEN "timeout" ELSE answer[r]

\* A webhook's row and reply follow its handler.
RowFollows(r) ==
    /\ pc[r] \in {"start", "insert"} => record[r] = "absent"
    /\ pc[r] \in {"get", "write", "wait", "unlist", "settle"} => record[r] \in {"pending", "gone"}
    /\ pc[r] = "reply" => record[r] # "absent" /\ Ledger!Agrees(record[r], Told(r))
    /\ pc[r] # "done" => reply[r] = "none"

RowsFollowHandlers == \A r \in Hooks : RowFollows(r)

LedgerStep == [Ledger!LedgerNext]_(Ledger!ledgerVars)

LEMMA HooksAreRequests == \A r \in Hooks : r \in Requests
  BY DEF Requests

LEMMA InitLedger == Init => RowsFollowHandlers /\ Ledger!LedgerInit
  BY DEF Init, RowsFollowHandlers, RowFollows, Requests, Ledger!LedgerInit, HookRecord, HookReply

LEMMA HookTables ==
  /\ \A r \in Hooks : HookRecord[r] = record[r] /\ HookReply[r] = reply[r]
  /\ HookRecord' = [r \in Hooks |-> record'[r]]
  /\ HookReply' = [r \in Hooks |-> reply'[r]]
  /\ HookRecord = [r \in Hooks |-> record[r]]
  /\ HookReply = [r \in Hooks |-> reply[r]]
  BY DEF HookRecord, HookReply

\* Steps that change neither rows nor replies are stutters of the ledger.
LEMMA SameTables ==
  ASSUME \A r \in Hooks : record'[r] = record[r] /\ reply'[r] = reply[r]
  PROVE  LedgerStep
<1>1. HookRecord' = HookRecord /\ HookReply' = HookReply
  BY HookTables
<1> QED BY <1>1 DEF LedgerStep, Ledger!ledgerVars

\* A step of one request alone.
LEMMA OneRow ==
  ASSUME RowsFollowHandlers, NEW r \in Requests,
         \A q \in Requests \ {r} : /\ pc'[q] = pc[q] /\ answer'[q] = answer[q]
                                   /\ record'[q] = record[q] /\ reply'[q] = reply[q],
         r \in Hooks => RowFollows(r)'
  PROVE  RowsFollowHandlers'
<1>1. ASSUME NEW q \in Hooks, q # r PROVE RowFollows(q)'
  <2>1. /\ pc'[q] = pc[q] /\ answer'[q] = answer[q]
        /\ record'[q] = record[q] /\ reply'[q] = reply[q]
    BY <1>1, HooksAreRequests
  <2>2. RowFollows(q)
    BY DEF RowsFollowHandlers
  <2> QED BY <2>1, <2>2 DEF RowFollows, Told, Ledger!Agrees
<1> QED BY <1>1 DEF RowsFollowHandlers

LEMMA OneEntry ==
  ASSUME NEW r \in Hooks,
         \A q \in Hooks \ {r} : record'[q] = record[q] /\ reply'[q] = reply[q]
  PROVE  /\ HookRecord' = [HookRecord EXCEPT ![r] = record'[r]]
         /\ HookReply' = [HookReply EXCEPT ![r] = reply'[r]]
  BY HookTables

\* The sender is refused, the row is stored, settled, or replied from.
LEMMA RefuseImplements ==
  ASSUME TypeOK, RowsFollowHandlers, NEW r \in Requests,
         pc[r] \in {"start", "insert"}, pc' = [pc EXCEPT ![r] = "done"],
         reply' = [reply EXCEPT ![r] = "refused"], UNCHANGED <<record, answer>>
  PROVE  RowsFollowHandlers' /\ LedgerStep
<1>1. /\ \A q \in Requests \ {r} : pc'[q] = pc[q] /\ reply'[q] = reply[q]
      /\ pc'[r] = "done" /\ reply'[r] = "refused"
  BY DEF TypeOK
<1>2. RowsFollowHandlers'
  BY <1>1, OneRow DEF RowFollows
<1>3. CASE r \in Hooks
  <2>1. record[r] = "absent" /\ reply[r] = "none"
    BY <1>3 DEF RowsFollowHandlers, RowFollows
  <2>2. HookReply' = [HookReply EXCEPT ![r] = "refused"] /\ HookRecord' = HookRecord
    BY <1>1, <1>3, OneEntry, HookTables, HooksAreRequests
  <2>3. Ledger!Refuse(r)
    BY <1>3, <2>1, <2>2, HookTables DEF Ledger!Refuse
  <2> QED BY <1>2, <1>3, <2>3 DEF LedgerStep, Ledger!LedgerNext
<1>4. CASE r \notin Hooks
  BY <1>1, <1>2, <1>4, SameTables, HooksAreRequests
<1> QED BY <1>2, <1>3, <1>4

LEMMA StoreImplements ==
  ASSUME TypeOK, RowsFollowHandlers, NEW r \in Requests,
         pc[r] = "insert", pc' = [pc EXCEPT ![r] = "get"],
         record' = [record EXCEPT ![r] = "pending"], UNCHANGED <<reply, answer>>
  PROVE  RowsFollowHandlers' /\ LedgerStep
<1>1. /\ \A q \in Requests \ {r} : pc'[q] = pc[q] /\ record'[q] = record[q]
      /\ pc'[r] = "get" /\ record'[r] = "pending"
  BY DEF TypeOK, PCs
<1>2. r \in Hooks => record[r] = "absent" /\ reply[r] = "none"
  BY DEF RowsFollowHandlers, RowFollows
<1>3. RowsFollowHandlers'
  BY <1>1, <1>2, OneRow DEF RowFollows
<1>4. CASE r \in Hooks
  <2>1. HookRecord' = [HookRecord EXCEPT ![r] = "pending"] /\ HookReply' = HookReply
    BY <1>1, <1>4, OneEntry, HookTables, HooksAreRequests
  <2>2. Ledger!Store(r)
    BY <1>2, <1>4, <2>1, HookTables DEF Ledger!Store
  <2> QED BY <1>3, <1>4, <2>2 DEF LedgerStep, Ledger!LedgerNext
<1>5. CASE r \notin Hooks
  BY <1>1, <1>3, <1>5, SameTables, HooksAreRequests
<1> QED BY <1>3, <1>4, <1>5

LEMMA SettleImplements ==
  ASSUME TypeOK, RowsFollowHandlers, NEW r \in Requests, Settle(r)
  PROVE  RowsFollowHandlers' /\ LedgerStep
<1>1. /\ pc[r] = "settle" /\ pc'[r] = "reply"
      /\ \A q \in Requests \ {r} : pc'[q] = pc[q] /\ record'[q] = record[q]
      /\ UNCHANGED <<reply, answer>>
      /\ answer[r] \in {"none", "response", "error"}
      /\ \/ record'[r] = IF record[r] # "pending" THEN record[r]
                         ELSE IF answer[r] = "none" THEN "timeout" ELSE "forwarded"
         \/ StoreFaults /\ record'[r] = record[r]
  BY DEF Settle, Goto, TypeOK, PCs
<1>2. r \in Hooks => record[r] \in {"pending", "gone"} /\ reply[r] = "none"
  BY <1>1 DEF RowsFollowHandlers, RowFollows
<1>3. r \in Hooks => RowFollows(r)'
  BY <1>1, <1>2 DEF RowFollows, Told, Ledger!Agrees, Ledger!Answered
<1>4. RowsFollowHandlers'
  BY <1>1, <1>3, OneRow
<1>5. CASE r \in Hooks /\ record'[r] # record[r]
  <2>1. record[r] = "pending" /\ record'[r] \in {"forwarded", "timeout"}
    BY <1>1, <1>2, <1>5
  <2>2. HookRecord' = [HookRecord EXCEPT ![r] = record'[r]] /\ HookReply' = HookReply
    BY <1>1, <1>5, OneEntry, HookTables, HooksAreRequests
  <2>3. Ledger!Settle(r)
    BY <1>2, <1>5, <2>1, <2>2, HookTables DEF Ledger!Settle
  <2> QED BY <1>4, <1>5, <2>3 DEF LedgerStep, Ledger!LedgerNext
<1>6. CASE r \notin Hooks \/ record'[r] = record[r]
  BY <1>1, <1>4, <1>6, SameTables, HooksAreRequests
<1> QED BY <1>4, <1>5, <1>6

LEMMA ReplyImplements ==
  ASSUME TypeOK, RowsFollowHandlers, NEW r \in Requests, Reply(r)
  PROVE  RowsFollowHandlers' /\ LedgerStep
<1>1. /\ pc[r] = "reply" /\ pc'[r] = "done" /\ reply'[r] = Told(r)
      /\ \A q \in Requests \ {r} : pc'[q] = pc[q] /\ reply'[q] = reply[q] /\ answer'[q] = answer[q]
      /\ UNCHANGED record
  BY DEF Reply, Goto, TypeOK, PCs, storeVars, Told
<1>2. Told(r) \in {"timeout", "response", "error"}
  BY DEF TypeOK, Told
<1>3. RowsFollowHandlers'
  BY <1>1, OneRow DEF RowFollows
<1>4. CASE r \in Hooks
  <2>1. record[r] # "absent" /\ Ledger!Agrees(record[r], Told(r)) /\ reply[r] = "none"
    BY <1>1, <1>4 DEF RowsFollowHandlers, RowFollows
  <2>2. HookReply' = [HookReply EXCEPT ![r] = Told(r)] /\ HookRecord' = HookRecord
    BY <1>1, <1>4, OneEntry, HookTables, HooksAreRequests
  <2>3. Ledger!Reply(r)
    BY <1>2, <1>4, <2>1, <2>2, HookTables DEF Ledger!Reply, Ledger!Answered
  <2> QED BY <1>3, <1>4, <2>3 DEF LedgerStep, Ledger!LedgerNext
<1>5. CASE r \notin Hooks
  BY <1>1, <1>3, <1>5, SameTables, HooksAreRequests
<1> QED BY <1>3, <1>4, <1>5

\* Looking up, waiting and sending change neither rows nor replies.
LEMMA SilentImplements ==
  ASSUME TypeOK, RowsFollowHandlers, NEW r \in Requests, UNCHANGED <<record, reply>>,
         \A q \in Requests \ {r} : pc'[q] = pc[q] /\ answer'[q] = answer[q],
         r \in Hooks =>
            \/ pc[r] = "start" /\ pc'[r] = "insert"
            \/ /\ pc[r] \in {"get", "write", "wait", "unlist"}
               /\ pc'[r] \in {"write", "wait", "unlist", "settle"}
  PROVE  RowsFollowHandlers' /\ LedgerStep
<1>1. RowsFollowHandlers'
  BY OneRow DEF RowsFollowHandlers, RowFollows
<1> QED BY <1>1, SameTables

LEMMA HandlerImplements ==
  ASSUME TypeOK, RowsFollowHandlers, NEW r \in Requests, Handler(r)
  PROVE  RowsFollowHandlers' /\ LedgerStep
<1> USE DEF TypeOK, PCs, Goto, Refuse, storeVars
<1>1. CASE LookupTunnel(r)
  <2>1. CASE Refuse(r, "start")
    BY <1>1, <2>1, RefuseImplements DEF LookupTunnel
  <2>2. CASE Goto(r, "start", "insert") /\ UNCHANGED reply
    BY <1>1, <2>2, SilentImplements DEF LookupTunnel
  <2> QED BY <1>1, <2>1, <2>2 DEF LookupTunnel
<1>2. CASE Insert(r)
  <2>1. CASE Refuse(r, "insert") /\ UNCHANGED record
    BY <1>2, <2>1, RefuseImplements DEF Insert
  <2>2. CASE /\ Goto(r, "insert", "get")
             /\ record' = [record EXCEPT ![r] = "pending"] /\ UNCHANGED reply
    BY <1>2, <2>2, StoreImplements DEF Insert
  <2> QED BY <1>2, <2>1, <2>2 DEF Insert
<1>3. CASE CheckReplay(r)
  <2>1. CASE Refuse(r, "start")
    BY <1>3, <2>1, RefuseImplements DEF CheckReplay
  <2>2. CASE Goto(r, "start", "get") /\ UNCHANGED reply
    BY <1>3, <2>2, SilentImplements DEF CheckReplay
  <2> QED BY <1>3, <2>1, <2>2 DEF CheckReplay
<1>4. CASE Get(r) \/ Write(r) \/ Wait(r) \/ Unlist(r)
  <2>1. /\ pc[r] \in {"get", "write", "wait", "unlist"}
        /\ pc'[r] \in {"write", "wait", "unlist", "settle"}
        /\ \A q \in Requests \ {r} : pc'[q] = pc[q] /\ answer'[q] = answer[q]
        /\ UNCHANGED <<record, reply>>
    BY <1>4 DEF Get, Write, Wait, Unlist
  <2> QED BY <2>1, SilentImplements
<1> QED BY <1>1, <1>2, <1>3, <1>4, SettleImplements, ReplyImplements DEF Handler
-----------------------------------------------------------------------------
\* Rows are removed behind their handlers' backs.
LEMMA RemoveImplements ==
  ASSUME TypeOK, RowsFollowHandlers, UNCHANGED <<pc, answer, reply>>,
         \A r \in Hooks : \/ record'[r] = record[r]
                          \/ record[r] # "absent" /\ record'[r] = "gone"
  PROVE  RowsFollowHandlers' /\ LedgerStep
<1>1. RowsFollowHandlers'
  BY DEF RowsFollowHandlers, RowFollows, Told, Ledger!Agrees
<1>2. HookReply' = HookReply
  BY HookTables
<1> DEFINE R == {r \in Hooks : record'[r] # record[r]}
<1>3. R \in SUBSET {r \in Hooks : HookRecord[r] # "absent"}
  BY HookTables
<1>4. HookRecord' = [r \in Hooks |-> IF r \in R THEN "gone" ELSE HookRecord[r]]
  BY HookTables
<1>5. Ledger!Remove
  BY <1>2, <1>3, <1>4 DEF Ledger!Remove
<1> QED BY <1>1, <1>5 DEF LedgerStep, Ledger!LedgerNext

LEMMA EnvironmentImplements ==
  ASSUME TypeOK, RowsFollowHandlers,
         \/ \E r \in Requests : Prune(r)
         \/ \E n \in Names : CreateTunnel(n) \/ DeleteTunnel(n)
         \/ Restart
         \/ UNCHANGED <<pc, answer, record, reply>>
  PROVE  RowsFollowHandlers' /\ LedgerStep
<1> USE HooksAreRequests DEF TypeOK, handlerVars
<1>1. ASSUME NEW r \in Requests, Prune(r) PROVE RowsFollowHandlers' /\ LedgerStep
  BY <1>1, RemoveImplements DEF Prune
<1>2. ASSUME NEW n \in Names, DeleteTunnel(n) PROVE RowsFollowHandlers' /\ LedgerStep
  BY <1>2, RemoveImplements DEF DeleteTunnel
<1>3. ASSUME NEW n \in Names, CreateTunnel(n) PROVE RowsFollowHandlers' /\ LedgerStep
  BY <1>3, RemoveImplements DEF CreateTunnel
<1>4. CASE Restart
  <2>1. /\ \A r \in Requests : \/ pc'[r] = pc[r] /\ pc[r] \in {"start", "done"}
                               \/ pc'[r] = "dead" /\ pc[r] # "done"
        /\ UNCHANGED <<record, reply>>
    BY <1>4 DEF Restart, storeVars
  <2>2. RowsFollowHandlers'
    BY <2>1 DEF RowsFollowHandlers, RowFollows
  <2> QED BY <2>1, <2>2, SameTables
<1>5. CASE UNCHANGED <<pc, answer, record, reply>>
  BY <1>5, RemoveImplements
<1> QED BY <1>1, <1>2, <1>3, <1>4, <1>5

LEMMA RowsFollowStep ==
  TypeOK /\ RowsFollowHandlers /\ [Next]_vars => RowsFollowHandlers' /\ LedgerStep
<1> SUFFICES ASSUME TypeOK, RowsFollowHandlers, [Next]_vars
             PROVE  RowsFollowHandlers' /\ LedgerStep
  OBVIOUS
<1>1. CASE \E r \in Requests : Handler(r)
  BY <1>1, HandlerImplements
<1>2. CASE \/ \E r \in Requests : Prune(r)
           \/ \E n \in Names : CreateTunnel(n) \/ DeleteTunnel(n)
           \/ Restart
           \/ UNCHANGED <<pc, answer, record, reply>>
  BY <1>2, EnvironmentImplements
<1>3. CASE \E c \in Conns : \/ \E n \in Names : Attach(c, n)
                            \/ Break(c) \/ Leave(c) \/ ReadAnswer(c) \/ Deliver(c)
                            \/ \E r \in Requests : Answer(c, r)
  <2>1. UNCHANGED <<pc, answer, record, reply>>
    BY <1>3 DEF Attach, Break, Leave, ReadAnswer, Deliver, Answer, handlerVars, storeVars
  <2> QED BY <2>1, EnvironmentImplements
<1>4. CASE UNCHANGED vars
  BY <1>2, <1>4 DEF vars, handlerVars, storeVars
<1> QED BY <1>1, <1>2, <1>3, <1>4 DEF Next

\* The rows and replies of webhooks are a behaviour of the ledger: each row is
\* settled at most once, and no sender is told anything but what its row says.
THEOREM RelayImplementsLedger == Spec => ImplementsLedger
<1>1. TypeOK /\ RowsFollowHandlers /\ [Next]_vars => RowsFollowHandlers' /\ LedgerStep
  BY RowsFollowStep
<1>2. Init => RowsFollowHandlers /\ Ledger!LedgerInit
  BY InitLedger
<1>3. Spec => Ledger!LedgerInit /\ [][Ledger!LedgerNext]_(Ledger!ledgerVars)
  BY <1>1, <1>2, TypeCorrect, PTL DEF Spec, LedgerStep
<1> QED BY <1>3 DEF ImplementsLedger, Ledger!LedgerSpec
-----------------------------------------------------------------------------
(***************************************************************************)
(* The part of NoRowStaysPending that needs no fairness: a handler that is *)
(* past its settling leaves no pending row behind.                         *)
(***************************************************************************)

RowsSettle ==
    ~StoreFaults => \A r \in Hooks : pc[r] \in {"reply", "done"} => record[r] # "pending"

\* What a step may do to one webhook: leave its handler alone or store or
\* remove its row, end it before a row was stored, reply, or settle the row.
StepOfHook(r) ==
    \/ pc'[r] = pc[r] /\ record'[r] \in {record[r], "gone"}
    \/ pc'[r] \notin {"reply", "done"}
    \/ pc[r] \in {"start", "insert", "reply"} /\ record'[r] = record[r]
    \/ pc[r] = "settle" /\ (~StoreFaults => record'[r] # "pending")

LEMMA HandlerOfHook ==
  ASSUME TypeOK, NEW q \in Requests, Handler(q), NEW r \in Hooks
  PROVE  StepOfHook(r)
<1> USE HooksAreRequests DEF TypeOK, PCs, Goto, Refuse, storeVars, StepOfHook
<1>1. CASE LookupTunnel(q)
  BY <1>1 DEF LookupTunnel
<1>2. CASE Insert(q)
  BY <1>2 DEF Insert
<1>3. CASE CheckReplay(q)
  BY <1>3 DEF CheckReplay
<1>4. CASE Get(q) \/ Write(q) \/ Wait(q) \/ Unlist(q)
  <2>1. /\ pc' = [pc EXCEPT ![q] = pc'[q]] /\ pc'[q] \in {"write", "wait", "unlist", "settle"}
        /\ UNCHANGED record
    BY <1>4 DEF Get, Write, Wait, Unlist
  <2> QED BY <2>1
<1>5. CASE Settle(q)
  BY <1>5 DEF Settle
<1>6. CASE Reply(q)
  BY <1>6 DEF Reply
<1> QED BY <1>1, <1>2, <1>3, <1>4, <1>5, <1>6 DEF Handler

LEMMA AnyStepOfHook ==
  ASSUME TypeOK, [Next]_vars, NEW r \in Hooks
  PROVE  StepOfHook(r)
<1> USE HooksAreRequests DEF TypeOK, StepOfHook
<1>1. CASE \E q \in Requests : Handler(q)
  BY <1>1, HandlerOfHook
<1>2. CASE \E q \in Requests : Prune(q)
  BY <1>2 DEF Prune, handlerVars
<1>3. CASE \E n \in Names : CreateTunnel(n) \/ DeleteTunnel(n)
  BY <1>3 DEF CreateTunnel, DeleteTunnel, handlerVars
<1>4. CASE Restart
  BY <1>4 DEF Restart, storeVars
<1>5. CASE \E c \in Conns : \/ \E n \in Names : Attach(c, n)
                            \/ Break(c) \/ Leave(c) \/ ReadAnswer(c) \/ Deliver(c)
                            \/ \E q \in Requests : Answer(c, q)
  <2>1. UNCHANGED <<pc, record>>
    BY <1>5 DEF Attach, Break, Leave, ReadAnswer, Deliver, Answer, handlerVars, storeVars
  <2> QED BY <2>1
<1>6. CASE UNCHANGED vars
  BY <1>6 DEF vars, handlerVars, storeVars
<1> QED BY <1>1, <1>2, <1>3, <1>4, <1>5, <1>6 DEF Next

\* Whatever is looked up late, timed out, replaced, deleted or pruned, a handler
\* that replied leaves its row settled or removed unless the store failed: what
\* stays pending belongs to a handler that goes on, or that a restart ended.
THEOREM RepliedRowsAreSettled == Spec => []RowsSettle
<1>1. Init => RowsSettle
  BY DEF Init, RowsSettle, Requests
<1>2. ASSUME TypeOK, RowsFollowHandlers, RowsSettle, [Next]_vars PROVE RowsSettle'
  <2> SUFFICES ASSUME ~StoreFaults, NEW r \in Hooks, pc'[r] \in {"reply", "done"}
               PROVE  record'[r] # "pending"
    BY DEF RowsSettle
  <2>1. StepOfHook(r)
    BY <1>2, AnyStepOfHook
  <2>2. RowFollows(r) /\ (pc[r] \in {"reply", "done"} => record[r] # "pending")
    BY <1>2 DEF RowsFollowHandlers, RowsSettle
  <2> QED BY <2>1, <2>2 DEF StepOfHook, RowFollows
<1>3. Init => RowsFollowHandlers
  BY InitLedger
<1>4. TypeOK /\ RowsFollowHandlers /\ [Next]_vars => RowsFollowHandlers'
  BY RowsFollowStep
<1> QED BY <1>1, <1>2, <1>3, <1>4, TypeCorrect, PTL DEF Spec
=============================================================================
