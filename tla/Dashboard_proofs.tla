--------------------------- MODULE Dashboard_proofs ---------------------------
(***************************************************************************)
(* The dashboard, for any number of links, browsers and requests: a link   *)
(* opens one session and in time, a page needs a session that lives, and   *)
(* what the API answers adds up, however long it runs.  And the API's      *)
(* routes: a created name is reached, and a call finds its handler.        *)
(***************************************************************************)
EXTENDS DashboardAuth, DashboardReads, Router, FiniteSetTheorems, SequenceTheorems, TLAPS

-----------------------------------------------------------------------------
(* Access.                                                                 *)

Openings == [token : TokenIDs, at : Nat]

AuthTypeOK ==
    /\ now \in Nat
    /\ tokens \in [TokenIDs -> Nat \cup {None}]
    /\ sessions \in [SessionIDs -> Nat \cup {None}]
    /\ links \subseteq TokenIDs
    /\ cookie \in [Browsers -> SessionIDs \cup {None}]
    /\ opened \in [SessionIDs -> Openings \cup {None}]
    /\ born \in [TokenIDs -> Nat \cup {None}]
    /\ shown \in [Browsers -> [session : SessionIDs, at : Nat] \cup {None}]

\* A token in the table expires when it should.
TokensExpireInTime ==
    \A t \in TokenIDs : tokens[t] # None => born[t] # None /\ tokens[t] = born[t] + TokenTTL

\* A token that was redeemed was so in time and left the table; that its birth is
\* known means that it is not generated again.
RedeemedIsGone ==
    \A s \in SessionIDs : opened[s] # None =>
        LET t == opened[s].token
        IN born[t] # None /\ tokens[t] = None /\ opened[s].at <= born[t] + TokenTTL

OneSessionEach ==
    \A r, s \in SessionIDs :
        opened[r] # None /\ opened[s] # None /\ opened[r].token = opened[s].token => r = s

SessionsExpireInTime ==
    \A s \in SessionIDs : sessions[s] # None =>
        opened[s] # None /\ sessions[s] = opened[s].at + SessionTTL

AuthInv == /\ AuthTypeOK /\ TokensExpireInTime /\ RedeemedIsGone
           /\ OneSessionEach /\ SessionsExpireInTime

LEMMA AskKeepsAuth ==
  ASSUME AuthInv, AskForToken
  PROVE  AuthInv'
<1> USE AuthAssumption DEF AuthInv, AuthTypeOK, Openings
<1>1. PICK t \in TokenIDs : GenerateToken(t) /\ links' \in {links, links \cup {t}}
  BY DEF AskForToken
<1>2. now + TokenTTL \in Nat
  OBVIOUS
<1>3. AuthTypeOK'
  BY <1>1, <1>2 DEF AskForToken, GenerateToken
<1>4. TokensExpireInTime'
  BY <1>1, <1>2 DEF AskForToken, GenerateToken, TokensExpireInTime
<1>5. RedeemedIsGone'
  BY <1>1, <1>2 DEF AskForToken, GenerateToken, RedeemedIsGone
<1>6. OneSessionEach' /\ SessionsExpireInTime'
  BY DEF AskForToken, OneSessionEach, SessionsExpireInTime
<1> QED BY <1>3, <1>4, <1>5, <1>6

LEMMA RedeemKeepsAuth ==
  ASSUME AuthInv, NEW b \in Browsers, NEW t \in TokenIDs, RedeemToken(b, t)
  PROVE  AuthInv'
<1> USE AuthAssumption DEF AuthInv, AuthTypeOK, Openings
<1>1. CASE ~Redeemable(t)
  <2>1. /\ tokens' = [tokens EXCEPT ![t] = None]
        /\ UNCHANGED <<now, sessions, links, cookie, opened, born, shown>>
    BY <1>1 DEF RedeemToken
  <2>2. AuthTypeOK'
    BY <2>1
  <2>3. TokensExpireInTime' /\ RedeemedIsGone'
    BY <2>1 DEF TokensExpireInTime, RedeemedIsGone
  <2>4. OneSessionEach' /\ SessionsExpireInTime'
    BY <2>1 DEF OneSessionEach, SessionsExpireInTime
  <2> QED BY <2>2, <2>3, <2>4
<1>2. CASE Redeemable(t)
  <2>1. PICK s \in SessionIDs :
           /\ opened[s] = None
           /\ sessions' = [sessions EXCEPT ![s] = now + SessionTTL]
           /\ opened' = [opened EXCEPT ![s] = [token |-> t, at |-> now]]
           /\ cookie' = [cookie EXCEPT ![b] = s]
    BY <1>2 DEF RedeemToken
  <2>2. tokens' = [tokens EXCEPT ![t] = None] /\ UNCHANGED <<now, links, born, shown>>
    BY DEF RedeemToken
  <2>3. born[t] # None /\ now <= born[t] + TokenTTL
    BY <1>2 DEF Redeemable, TokensExpireInTime
  <2>4. now + SessionTTL \in Nat /\ [token |-> t, at |-> now] \in Openings
    OBVIOUS
  <2>5. [token |-> t, at |-> now] # None
    BY <2>4
  <2>6. \A r \in SessionIDs : opened[r] # None => opened[r].token # t
    BY <1>2 DEF Redeemable, RedeemedIsGone
  <2>7. AuthTypeOK'
    BY <2>1, <2>2, <2>4
  <2>8. TokensExpireInTime'
    BY <2>2 DEF TokensExpireInTime
  <2>9. RedeemedIsGone'
    BY <2>1, <2>2, <2>3, <2>5 DEF RedeemedIsGone
  <2>10. OneSessionEach'
    BY <2>1, <2>5, <2>6 DEF OneSessionEach
  <2>11. SessionsExpireInTime'
    BY <2>1, <2>4, <2>5 DEF SessionsExpireInTime
  <2> QED BY <2>7, <2>8, <2>9, <2>10, <2>11
<1> QED BY <1>1, <1>2

LEMMA AuthStep ==
  ASSUME AuthInv, [AuthNext]_authVars
  PROVE  AuthInv'
<1> USE AuthAssumption DEF AuthInv, AuthTypeOK
<1>1. ASSUME NEW b \in Browsers, Browse(b) PROVE AuthInv'
  <2>1. PICK ui, localhost \in BOOLEAN, t \in links \cup {None} : Middleware(b, ui, localhost, t)
    BY <1>1 DEF Browse
  <2>2. CASE t # None /\ RedeemToken(b, t)
    BY <2>1, <2>2, RedeemKeepsAuth
  <2>3. CASE UNCHANGED authVars
    BY <2>3 DEF authVars, TokensExpireInTime, RedeemedIsGone, OneSessionEach, SessionsExpireInTime
  <2>4. CASE /\ ValidSession(cookie[b])
             /\ shown' = [shown EXCEPT ![b] = [session |-> cookie[b], at |-> now]]
             /\ UNCHANGED <<now, tokens, sessions, links, cookie, opened, born>>
    <3>1. cookie[b] \in SessionIDs
      BY <2>4 DEF ValidSession
    <3>2. AuthTypeOK'
      BY <2>4, <3>1
    <3> QED BY <2>4, <3>2 DEF TokensExpireInTime, RedeemedIsGone, OneSessionEach, SessionsExpireInTime
  <2> QED BY <2>1, <2>2, <2>3, <2>4 DEF Middleware
<1>2. CASE AuthCleanup \/ AuthRestart
  <2>1. UNCHANGED <<now, links, cookie, opened, born, shown>>
    BY <1>2 DEF AuthCleanup, AuthRestart
  <2>2. /\ tokens' \in [TokenIDs -> Nat \cup {None}]
        /\ \A t \in TokenIDs : tokens'[t] \in {tokens[t], None}
    BY <1>2 DEF AuthCleanup, AuthRestart, WithoutExpired
  <2>3. /\ sessions' \in [SessionIDs -> Nat \cup {None}]
        /\ \A s \in SessionIDs : sessions'[s] \in {sessions[s], None}
    BY <1>2 DEF AuthCleanup, AuthRestart, WithoutExpired
  <2>4. AuthTypeOK'
    BY <2>1, <2>2, <2>3
  <2>5. TokensExpireInTime' /\ OneSessionEach' /\ SessionsExpireInTime'
    BY <2>1, <2>2, <2>3 DEF TokensExpireInTime, OneSessionEach, SessionsExpireInTime
  <2>6. RedeemedIsGone'
    BY <2>1, <2>2 DEF RedeemedIsGone, Openings
  <2> QED BY <2>4, <2>5, <2>6
<1>3. CASE AuthTick \/ UNCHANGED authVars
  <2>1. now' \in Nat /\ UNCHANGED <<tokens, sessions, links, cookie, opened, born, shown>>
    BY <1>3 DEF AuthTick, Tick, authVars
  <2> QED BY <2>1 DEF TokensExpireInTime, RedeemedIsGone, OneSessionEach, SessionsExpireInTime
<1> QED BY <1>1, <1>2, <1>3, AskKeepsAuth DEF AuthNext

LEMMA AuthInvariance == AuthSpec => []AuthInv
<1>1. AuthInit => AuthInv
  BY AuthAssumption DEF AuthInit, AuthInv, AuthTypeOK, TokensExpireInTime, RedeemedIsGone,
     OneSessionEach, SessionsExpireInTime, Openings
<1> QED BY <1>1, AuthStep, PTL DEF AuthSpec

\* A dashboard link opens one session and in its five minutes, whoever follows it how
\* often, and whatever the cleanup loop and restarts do in between.
THEOREM LinkOpensOneSession == AuthSpec => []LinkIsOneTime
<1>1. AuthInv => LinkIsOneTime
  BY DEF AuthInv, RedeemedIsGone, OneSessionEach, LinkIsOneTime
<1> QED BY <1>1, AuthInvariance, PTL

\* A protected page is only ever shown to a browser whose own session lives.
THEOREM PageIsProtected == AuthSpec => PageNeedsLiveSession
<1>1. ASSUME AuthInv, AuthNext, NEW b \in Browsers, shown'[b] # shown[b]
      PROVE  LET s == shown'[b].session
             IN opened[s] # None /\ now < opened[s].at + SessionTTL /\ s = cookie[b]
  <2>1. PICK v \in Browsers : Browse(v)
    BY <1>1 DEF AuthNext, AskForToken, AuthCleanup, AuthTick, AuthRestart
  <2>2. /\ ValidSession(cookie[v])
        /\ shown' = [shown EXCEPT ![v] = [session |-> cookie[v], at |-> now]]
    BY <1>1, <2>1 DEF Browse, Middleware, RedeemToken, authVars
  <2>3. v = b /\ shown'[b].session = cookie[b]
    BY <1>1, <2>2 DEF AuthInv, AuthTypeOK
  <2> QED BY <1>1, <2>2, <2>3 DEF AuthInv, AuthTypeOK, SessionsExpireInTime, ValidSession
<1>2. AuthInv /\ [AuthNext]_authVars =>
         [\A b \in Browsers : shown'[b] # shown[b] =>
             LET s == shown'[b].session
             IN opened[s] # None /\ now < opened[s].at + SessionTTL /\ s = cookie[b]]_shown
  BY <1>1 DEF authVars
<1> QED BY <1>2, AuthInvariance, PTL DEF PageNeedsLiveSession, AuthSpec
-----------------------------------------------------------------------------
(* What the API answers.                                                   *)

Rows == [n : Nat, tunnel : TunnelIDs, status : {"pending", "forwarded", "timeout"}, resp : Nat]
Listed == [sub : Subdomains, id : TunnelIDs]
Asked == [sub : Subdomains, id : {NoID}]
Paged == [sub : Subdomains, id : TunnelIDs, limit : Nat]
Lists == Seq(Listed \cup Asked \cup Paged)

OfStats == <<"Stats", NoID>>
PossibleReads == ({"IsOnline", "Get"} \X (Listed \cup Asked \cup Paged))
                 \cup {OfStats, <<"Last", NoID>>} \cup ({"Count", "Page"} \X Paged)

ReadsTypeOK ==
    /\ tunnels \in [Subdomains -> TunnelIDs \cup {NoID}]
    /\ spent \subseteq TunnelIDs
    /\ requests \subseteq Rows /\ IsFiniteSet(requests)
    /\ arrived \in Nat
    /\ witness \in [Subdomains -> SUBSET (Sessions \cup {Nobody})]
    /\ online \in [Subdomains -> Sessions \cup {Nobody}]

ReadingOK ==
    reading # NotReading =>
        /\ reading = [list |-> reading.list, reads |-> reading.reads, got |-> reading.got]
        /\ reading.list \in Lists
        /\ reading.reads \in Seq(PossibleReads)
        /\ DOMAIN reading.got \subseteq PossibleReads

\* Only the overview asks for the statistics, of the rows that it lists.
StatsAreOfRows ==
    (reading # NotReading /\ (OfStats \in Range(reading.reads) \/ OfStats \in DOMAIN reading.got))
        => reading.list \in Seq(Listed)

\* A request that timed out has no status of a response.
TimedOutHasNone == \A r \in requests : r.status # "forwarded" => r.resp = 0

OnlineIsWitnessed == \A s \in Subdomains : online[s] \in witness[s]

\* AnswerAddsUp for one read.
AddsUp(list, read, value, witnessed) ==
    CASE read[1] = "Stats" ->
             \A i \in DOMAIN list :
                 LET st == value[list[i].id] IN st.success + st.errors <= st.total
      [] read[1] = "Get" -> value \in witnessed[read[2].sub]
      [] read[1] = "IsOnline" -> \E s \in witnessed[read[2].sub] : value = (s # Nobody)
      [] read[1] = "Page" -> \A r \in value : r.tunnel = read[2].id
      [] OTHER -> TRUE

ReadsInv == /\ ReadsTypeOK /\ ReadingOK /\ StatsAreOfRows
            /\ TimedOutHasNone /\ OnlineIsWitnessed /\ AnswerAddsUp

\* Two kinds of a finite set's elements that exclude each other are together no more
\* than all.
LEMMA DisjointCounts ==
  ASSUME NEW S, IsFiniteSet(S), NEW A \in SUBSET S, NEW B \in SUBSET S, A \cap B = {}
  PROVE  Cardinality(A) + Cardinality(B) <= Cardinality(S)
<1>1. IsFiniteSet(A) /\ IsFiniteSet(B)
  BY FS_Subset
<1>2. Cardinality(A) \in Nat /\ Cardinality(B) \in Nat
  BY <1>1, FS_CardinalityType
<1>3. Cardinality(A \cup B) = Cardinality(A) + Cardinality(B) - Cardinality(A \cap B)
  BY <1>1, FS_Union
<1>4. Cardinality(A \cap B) = 0
  BY FS_EmptySet
<1>5. Cardinality(A \cup B) <= Cardinality(S)
  BY FS_Subset
<1> QED BY <1>2, <1>3, <1>4, <1>5

\* A response is a success or an error: the statistics count no request twice.
LEMMA StatsAddUp ==
  ASSUME ReadsInv, NEW id \in TunnelIDs
  PROVE  LET st == TunnelRequestStats[id] IN st.success + st.errors <= st.total
<1> DEFINE good == {r \in RowsOf(id) : Succeeded(r)}
           bad == {r \in RowsOf(id) : Failed(r)}
<1>1. IsFiniteSet(RowsOf(id))
  BY FS_Subset DEF ReadsInv, ReadsTypeOK, RowsOf
<1>2. ASSUME NEW r \in requests, Succeeded(r), Failed(r) PROVE FALSE
  <2>1. r.status = "forwarded"
    BY <1>2 DEF Succeeded, ReadsInv, TimedOutHasNone
  <2>2. r.resp \in Nat
    BY DEF ReadsInv, ReadsTypeOK, Rows
  <2> QED BY <1>2, <2>1, <2>2 DEF Succeeded, Failed
<1>3. good \cap bad = {}
  BY <1>2 DEF RowsOf
<1>4. Cardinality(good) + Cardinality(bad) <= Cardinality(RowsOf(id))
  <2> HIDE DEF good, bad
  <2>1. good \in SUBSET RowsOf(id) /\ bad \in SUBSET RowsOf(id)
    BY DEF good, bad
  <2> QED BY <1>1, <1>3, <2>1, DisjointCounts
<1> QED BY <1>4 DEF TunnelRequestStats

LEMMA SequenceOfSet ==
  ASSUME NEW S, IsFiniteSet(S)
  PROVE  SetToSeq(S) \in Seq(S)
<1>1. Cardinality(S) \in Nat /\ \E f \in [1..Cardinality(S) -> S] : IsInjective(f)
  BY FS_CardinalityType DEF ExistsBijection, Bijection, Injection
<1>2. SetToSeq(S) \in [1..Cardinality(S) -> S]
  BY <1>1, Zenon DEF SetToSeq
<1> QED BY <1>1, <1>2

LEMMA TunnelListIsOfRows ==
  ASSUME ReadsInv
  PROVE  TunnelList \in Seq(Listed)
<1> DEFINE subOf == [t \in TunnelRows |-> t.sub]
<1>1. subOf \in Injection(TunnelRows, Subdomains)
  BY DEF Injection, IsInjective, TunnelRows
<1>2. IsFiniteSet(TunnelRows)
  <2> HIDE DEF subOf
  <2> QED BY <1>1, FS_Injection, ReadsAssumption
<1>3. TunnelList \in Seq(TunnelRows)
  BY <1>2, SequenceOfSet DEF TunnelList
<1>4. TunnelRows \subseteq Listed
  BY DEF TunnelRows, Listed
<1> QED BY <1>3, <1>4

LEMMA HubReadsArePossible ==
  ASSUME NEW list \in Seq(Listed)
  PROVE  /\ HubReads(list) \in Seq(PossibleReads)
         /\ OfStats \notin Range(HubReads(list))
<1>1. Len(list) \in Nat /\ DOMAIN list = 1..Len(list)
  OBVIOUS
<1>2. ASSUME NEW k \in 1..2 * Len(list)
      PROVE  HubReads(list)[k] \in {"IsOnline", "Get"} \X Listed
  <2>1. (k + 1) \div 2 \in 1..Len(list)
    BY <1>1
  <2>2. list[(k + 1) \div 2] \in Listed
    BY <2>1
  <2> QED BY <2>2 DEF HubReads
<1>3. HubReads(list) \in Seq({"IsOnline", "Get"} \X Listed)
  BY <1>1, <1>2 DEF HubReads
<1>4. {"IsOnline", "Get"} \X Listed \subseteq PossibleReads \ {OfStats}
  BY DEF PossibleReads, OfStats
<1>5. HubReads(list) \in Seq(PossibleReads \ {OfStats})
  BY <1>3, <1>4
<1> HIDE DEF HubReads
<1> QED BY <1>5 DEF Range

\* While a handler is not reading or goes on with the same reading, the rows and the
\* sessions may change in their types.
LEMMA TablesChange ==
  ASSUME ReadsInv, ReadsTypeOK', TimedOutHasNone', UNCHANGED reading,
         \A s \in Subdomains : witness[s] \subseteq witness'[s] /\ online'[s] \in witness'[s]
  PROVE  ReadsInv'
<1>1. ReadingOK' /\ StatsAreOfRows' /\ OnlineIsWitnessed'
  BY DEF ReadsInv, ReadingOK, StatsAreOfRows, OnlineIsWitnessed
<1>2. AnswerAddsUp'
  <2>1. ASSUME reading # NotReading, NEW read \in DOMAIN reading.got,
               read[1] \in {"IsOnline", "Get"}
        PROVE  read[2].sub \in Subdomains
    BY <2>1 DEF ReadsInv, ReadingOK, PossibleReads, OfStats, Listed, Asked, Paged
  <2> QED BY <2>1 DEF ReadsInv, AnswerAddsUp
<1> QED BY <1>1, <1>2 DEF ReadsInv

\* A response makes a row one with its status.
LEMMA ForwardedRow ==
  ASSUME NEW r \in Rows, NEW resp \in Nat,
         NEW settled, settled = [r EXCEPT !.status = "forwarded", !.resp = resp]
  PROVE  settled \in Rows /\ settled.status = "forwarded"
<1>1. settled.status = "forwarded"
  BY DEF Rows
<1> QED BY <1>1 DEF Rows

LEMMA RowsKeepReads ==
  ASSUME ReadsInv,
         \/ \E s \in Subdomains : TunnelRow(s)
         \/ \E id \in spent : InsertRow(id)
         \/ \E r \in requests : SettleRow(r)
         \/ PruneRow
  PROVE  ReadsInv'
<1> USE DEF ReadsInv, ReadsTypeOK, Rows
<1>1. /\ UNCHANGED <<reading, online, witness>>
      /\ \A s \in Subdomains : witness[s] \subseteq witness'[s] /\ online'[s] \in witness'[s]
  BY DEF TunnelRow, InsertRow, SettleRow, PruneRow, OnlineIsWitnessed
<1>2. ASSUME NEW s \in Subdomains, TunnelRow(s) PROVE ReadsTypeOK' /\ TimedOutHasNone'
  <2>1. tunnels' \in [Subdomains -> TunnelIDs \cup {NoID}] /\ spent' \subseteq TunnelIDs
    BY <1>2 DEF TunnelRow
  <2>2. requests' \in SUBSET requests /\ UNCHANGED arrived
    BY <1>2 DEF TunnelRow
  <2>3. IsFiniteSet(requests')
    BY <2>2, FS_Subset
  <2> QED BY <1>1, <2>1, <2>2, <2>3 DEF TimedOutHasNone
<1>3. ASSUME NEW id \in spent, InsertRow(id) PROVE ReadsTypeOK' /\ TimedOutHasNone'
  <2> DEFINE new == [n |-> arrived, tunnel |-> id, status |-> "pending", resp |-> 0]
  <2>1. requests' = requests \cup {new} /\ new \in Rows /\ arrived' \in Nat
    BY <1>3 DEF InsertRow
  <2>2. IsFiniteSet(requests')
    BY <2>1, FS_AddElement
  <2> QED BY <1>1, <1>3, <2>1, <2>2 DEF InsertRow, TimedOutHasNone
<1>4. ASSUME NEW r \in requests, SettleRow(r) PROVE ReadsTypeOK' /\ TimedOutHasNone'
  <2>1. PICK settled \in {[r EXCEPT !.status = "forwarded", !.resp = 200],
                          [r EXCEPT !.status = "forwarded", !.resp = 500],
                          [r EXCEPT !.status = "timeout"]} :
           requests' = (requests \ {r}) \cup {settled}
    BY <1>4 DEF SettleRow
  <2>2. r \in Rows /\ r.resp = 0
    BY <1>4 DEF SettleRow, TimedOutHasNone
  <2>3. settled \in Rows /\ (settled.status # "forwarded" => settled.resp = 0)
    <3>1. ASSUME NEW resp \in Nat, settled = [r EXCEPT !.status = "forwarded", !.resp = resp]
          PROVE  settled \in Rows /\ settled.status = "forwarded"
      <4> HIDE DEF Rows
      <4>1. r \in Rows
        BY <2>2
      <4> QED BY <3>1, <4>1, ForwardedRow
    <3>2. ASSUME settled = [r EXCEPT !.status = "timeout"]
          PROVE  settled \in Rows /\ settled.resp = 0
      <4>1. settled = [n |-> r.n, tunnel |-> r.tunnel, status |-> "timeout", resp |-> r.resp]
        BY <2>2, <3>2
      <4> QED BY <2>2, <4>1
    <3>3. 200 \in Nat /\ 500 \in Nat
      OBVIOUS
    <3> QED BY Zenon, <2>1, <3>1, <3>2, <3>3
  <2>4. IsFiniteSet(requests \ {r})
    BY FS_RemoveElement
  <2>5. IsFiniteSet(requests')
    BY <2>1, <2>4, FS_AddElement
  <2> QED BY <1>1, <1>4, <2>1, <2>3, <2>5 DEF SettleRow, TimedOutHasNone
<1>5. ASSUME PruneRow PROVE ReadsTypeOK' /\ TimedOutHasNone'
  <2>1. requests' \in SUBSET requests /\ UNCHANGED <<tunnels, spent, arrived>>
    BY <1>5 DEF PruneRow
  <2>2. IsFiniteSet(requests')
    BY <2>1, FS_Subset
  <2>3. TimedOutHasNone'
    BY <2>1 DEF TimedOutHasNone
  <2>4. requests' \subseteq Rows
    BY <2>1
  <2>5. UNCHANGED <<tunnels, spent, arrived, online, witness>>
    BY <1>5 DEF PruneRow
  <2>6. ReadsTypeOK'
    BY <2>2, <2>4, <2>5
  <2> QED BY <2>3, <2>6
<1>6. ReadsTypeOK' /\ TimedOutHasNone'
  BY <1>2, <1>3, <1>4, <1>5
<1> QED BY <1>1, <1>6, TablesChange

LEMMA ComeKeepsReads ==
  ASSUME ReadsInv, NEW s \in Subdomains, NEW new \in Sessions \cup {Nobody}, Come(s, new)
  PROVE  ReadsInv'
<1> USE DEF ReadsInv, ReadsTypeOK
<1>1. ReadsTypeOK' /\ TimedOutHasNone' /\ UNCHANGED reading
  BY DEF Come, TimedOutHasNone
<1>2. \A x \in Subdomains : witness[x] \subseteq witness'[x] /\ online'[x] \in witness'[x]
  BY DEF Come, OnlineIsWitnessed
<1> QED BY <1>1, <1>2, TablesChange

LEMMA BeginKeepsReads ==
  ASSUME ReadsInv, NEW list \in Lists, NEW reads \in Seq(PossibleReads), Begin(list, reads),
         OfStats \in Range(reads) => list \in Seq(Listed)
  PROVE  ReadsInv'
<1> USE DEF ReadsInv, Begin
<1>1. ReadsTypeOK' /\ TimedOutHasNone' /\ OnlineIsWitnessed'
  BY DEF ReadsTypeOK, TimedOutHasNone, OnlineIsWitnessed
<1>2. reading' = [list |-> list, reads |-> reads, got |-> <<>>] /\ DOMAIN reading'.got = {}
  OBVIOUS
<1>3. ReadingOK' /\ StatsAreOfRows' /\ AnswerAddsUp'
  BY <1>2 DEF ReadingOK, StatsAreOfRows, AnswerAddsUp
<1> QED BY <1>1, <1>3

LEMMA HandlersKeepReads ==
  ASSUME ReadsInv,
         \/ handleTunnelList \/ handleOverview
         \/ \E s \in Subdomains : \/ handleTunnelStatus(s)
                                  \/ \E limit \in 0..1 : handleRequestList(s, limit)
  PROVE  ReadsInv'
<1>1. TunnelList \in Seq(Listed) /\ TunnelList \in Lists
  BY TunnelListIsOfRows DEF Lists
<1>2. HubReads(TunnelList) \in Seq(PossibleReads)
  BY <1>1, HubReadsArePossible
<1>3. CASE handleTunnelList
  BY <1>1, <1>2, <1>3, BeginKeepsReads DEF handleTunnelList
<1>4. CASE handleOverview
  <2>1. <<OfStats, <<"Last", NoID>>>> \in Seq(PossibleReads)
    BY DEF PossibleReads
  <2>2. <<OfStats, <<"Last", NoID>>>> \o HubReads(TunnelList) \in Seq(PossibleReads)
    BY <1>2, <2>1
  <2> QED BY <1>1, <1>4, <2>2, BeginKeepsReads DEF handleOverview, OfStats
<1>5. ASSUME NEW s \in Subdomains, handleTunnelStatus(s) PROVE ReadsInv'
  <2> DEFINE t == [sub |-> s, id |-> NoID]
             reads == <<<<"Get", t>>, <<"IsOnline", t>>>>
  <2>1. t \in Asked /\ <<t>> \in Lists
    BY DEF Asked, Lists
  <2>2. reads \in Seq(PossibleReads) /\ OfStats \notin Range(reads)
    BY <2>1 DEF PossibleReads, Range, OfStats
  <2> QED BY <1>5, <2>1, <2>2, BeginKeepsReads DEF handleTunnelStatus
<1>6. ASSUME NEW s \in Subdomains, NEW limit \in 0..1, handleRequestList(s, limit) PROVE ReadsInv'
  <2> DEFINE t == [sub |-> s, id |-> tunnels[s],
                   limit |-> IF limit \in 1..100 THEN limit ELSE DefaultLimit]
             reads == <<<<"Count", t>>, <<"Page", t>>, <<"IsOnline", t>>>>
  <2>1. t \in Paged /\ <<t>> \in Lists
    BY <1>6, ReadsAssumption DEF Paged, Lists, handleRequestList, ReadsInv, ReadsTypeOK
  <2>2. reads \in Seq(PossibleReads) /\ OfStats \notin Range(reads)
    BY <2>1 DEF PossibleReads, Range, OfStats
  <2> QED BY <1>6, <2>1, <2>2, BeginKeepsReads DEF handleRequestList
<1> QED BY <1>3, <1>4, <1>5, <1>6

LEMMA ReadKeepsReads ==
  ASSUME ReadsInv, NextRead
  PROVE  ReadsInv'
<1> DEFINE read == Head(reading.reads)
           about == read[2]
           value == Found(read)
<1>1. /\ reading # NotReading /\ reading.reads # <<>>
      /\ reading = [list |-> reading.list, reads |-> reading.reads, got |-> reading.got]
      /\ reading.reads \in Seq(PossibleReads) /\ DOMAIN reading.got \subseteq PossibleReads
      /\ UNCHANGED <<tunnels, spent, requests, arrived, online, witness>>
  BY DEF NextRead, ReadsInv, ReadingOK
<1>2. /\ reading' = [reading EXCEPT !.reads = Tail(@),
             !.got = [r \in DOMAIN @ \cup {read} |-> IF r = read THEN value ELSE @[r]]]
      /\ read[1] = "IsOnline" => value = (online[about.sub] # Nobody)
      /\ read[1] = "Get" => value = online[about.sub]
      /\ read[1] = "Stats" => value = TunnelRequestStats
      /\ read[1] = "Page" => value = RequestList(about.id, about.limit)
  BY DEF NextRead, Found
<1>3. /\ read \in PossibleReads /\ Tail(reading.reads) \in Seq(PossibleReads)
      /\ read \in Range(reading.reads) /\ Range(Tail(reading.reads)) \subseteq Range(reading.reads)
  BY <1>1 DEF Range
<1>4. /\ reading'.list = reading.list /\ reading'.reads = Tail(reading.reads)
      /\ reading'.got = [r \in DOMAIN reading.got \cup {read} |->
                            IF r = read THEN value ELSE reading.got[r]]
      /\ reading' = [list |-> reading'.list, reads |-> reading'.reads, got |-> reading'.got]
  BY <1>1, <1>2
<1>5. /\ DOMAIN reading'.got = DOMAIN reading.got \cup {read} /\ reading'.got[read] = value
      /\ \A r \in DOMAIN reading.got \ {read} : reading'.got[r] = reading.got[r]
  BY <1>4
<1>6. ReadsTypeOK' /\ TimedOutHasNone' /\ OnlineIsWitnessed'
  BY <1>1 DEF ReadsInv, ReadsTypeOK, TimedOutHasNone, OnlineIsWitnessed
<1>7. ReadingOK' /\ StatsAreOfRows'
  BY <1>1, <1>3, <1>4, <1>5 DEF ReadsInv, ReadingOK, StatsAreOfRows
<1>8. read[1] \in {"IsOnline", "Get"} => about.sub \in Subdomains
  BY <1>3 DEF PossibleReads, OfStats, Listed, Asked, Paged
<1>9. read[1] = "Stats" => \A i \in DOMAIN reading.list :
          LET st == value[reading.list[i].id] IN st.success + st.errors <= st.total
  <2> SUFFICES ASSUME read[1] = "Stats", NEW i \in DOMAIN reading.list
               PROVE  LET st == TunnelRequestStats[reading.list[i].id]
                      IN st.success + st.errors <= st.total
    BY <1>2
  <2>1. read = OfStats
    BY <1>3 DEF PossibleReads, OfStats
  <2>2. reading.list \in Seq(Listed)
    BY <1>1, <1>3, <2>1 DEF ReadsInv, StatsAreOfRows
  <2>3. reading.list[i] \in Listed
    BY <2>2
  <2>4. reading.list[i].id \in TunnelIDs
    BY <2>3 DEF Listed
  <2> QED BY <2>4, StatsAddUp
<1>10. read[1] = "Get" => value \in witness[about.sub]
  BY <1>2, <1>8 DEF ReadsInv, OnlineIsWitnessed
<1>11. read[1] = "IsOnline" => \E s \in witness[about.sub] : value = (s # Nobody)
  BY <1>2, <1>8 DEF ReadsInv, OnlineIsWitnessed
<1>12. read[1] = "Page" => \A r \in value : r.tunnel = about.id
  BY <1>2 DEF RequestList, RowsOf
<1>13. AnswerAddsUp'
  <2> SUFFICES ASSUME NEW x \in DOMAIN reading'.got
               PROVE  AddsUp(reading.list, x, reading'.got[x], witness)
    BY <1>1, <1>4 DEF AnswerAddsUp, AddsUp
  <2>1. CASE x = read
    <3> DEFINE rd == read
    <3>1. AddsUp(reading.list, rd, value, witness)
      <4> HIDE DEF read, value
      <4> QED BY <1>9, <1>10, <1>11, <1>12 DEF AddsUp
    <3> QED BY <1>5, <2>1, <3>1
  <2>2. CASE x # read
    BY <1>1, <1>5, <2>2 DEF ReadsInv, AnswerAddsUp, AddsUp
  <2> QED BY <2>1, <2>2
<1> QED BY <1>6, <1>7, <1>13 DEF ReadsInv

LEMMA ReadsStep ==
  ASSUME ReadsInv, [ReadsNext]_readVars
  PROVE  ReadsInv'
<1>1. CASE Respond
  BY <1>1 DEF Respond, ReadsInv, ReadsTypeOK, ReadingOK, StatsAreOfRows, TimedOutHasNone,
     OnlineIsWitnessed, AnswerAddsUp
<1>2. CASE UNCHANGED readVars
  BY <1>2 DEF readVars, ReadsInv, ReadsTypeOK, ReadingOK, StatsAreOfRows, TimedOutHasNone,
     OnlineIsWitnessed, AnswerAddsUp
<1> QED BY <1>1, <1>2, RowsKeepReads, ComeKeepsReads, HandlersKeepReads, ReadKeepsReads DEF ReadsNext

LEMMA ReadsInvariance == ReadsSpec => []ReadsInv
<1>1. ReadsInit => ReadsInv
  BY FS_EmptySet DEF ReadsInit, ReadsInv, ReadsTypeOK, ReadingOK, StatsAreOfRows,
     TimedOutHasNone, OnlineIsWitnessed, AnswerAddsUp
<1> QED BY <1>1, ReadsStep, PTL DEF ReadsSpec

\* However tunnels, sessions and requests change between the reads of a handler, its
\* answer adds up.
THEOREM AnswersAddUp == ReadsSpec => []AnswerAddsUp
BY ReadsInvariance, PTL DEF ReadsInv

-----------------------------------------------------------------------------
(* Routes.                                                                 *)

\* What is in a concatenation, by its indexes.
LEMMA Joined ==
  ASSUME NEW S, NEW a \in Seq(S), NEW b \in Seq(S), NEW ab, ab = a \o b,
         NEW m, m = Len(a), NEW n, n = Len(b)
  PROVE  /\ ab \in Seq(S) /\ m \in Nat /\ n \in Nat /\ Len(ab) = m + n
         /\ \A i \in 1..m : ab[i] = a[i]
         /\ \A i \in m + 1..m + n : ab[i] = b[i - m]
         /\ SubSeq(ab, 1, m) = a
<1>1. /\ ab \in Seq(S) /\ m \in Nat /\ n \in Nat /\ Len(ab) = m + n
      /\ \A i \in 1..m : ab[i] = a[i]
  OBVIOUS
<1>2. \A i \in m + 1..m + n : ab[i] = b[i - m]
  OBVIOUS
<1>3. SubSeq(ab, 1, m) = a
  <2>1. SubSeq(ab, 1, m) = [i \in 1..m |-> ab[i]]
    BY <1>1
  <2>2. a = [i \in 1..m |-> a[i]]
    OBVIOUS
  <2> QED BY <1>1, <2>1, <2>2
<1> QED BY <1>1, <1>2, <1>3

\* A concatenation ends with its second half.
LEMMA EndsWith ==
  ASSUME NEW S, NEW a \in Seq(S), NEW b \in Seq(S), NEW ab, ab = a \o b
  PROVE  IsSuffix(b, ab)
<1>0. PICK m, n : m = Len(a) /\ n = Len(b)
  OBVIOUS
<1>1. /\ ab \in Seq(S) /\ m \in Nat /\ n \in Nat /\ Len(ab) = m + n
      /\ \A i \in m + 1..m + n : ab[i] = b[i - m]
  BY <1>0, Joined
<1>2. /\ Reverse(b) = [i \in 1..n |-> b[n - i + 1]]
      /\ Reverse(ab) = [i \in 1..m + n |-> ab[m + n - i + 1]]
  BY <1>0, <1>1 DEF Reverse
<1>3. \A i \in 1..n : ab[m + n - i + 1] = b[n - i + 1]
  <2> SUFFICES ASSUME NEW i \in 1..n PROVE ab[m + n - i + 1] = b[n - i + 1]
    OBVIOUS
  <2>1. PICK j \in m + 1..m + n : j = m + n - i + 1 /\ j - m = n - i + 1
    BY <1>1
  <2>2. ab[j] = b[j - m]
    BY <1>1
  <2> QED BY <2>1, <2>2
<1>4. PICK r : r = Reverse(b)
  OBVIOUS
<1>5. PICK s : s = Reverse(ab)
  OBVIOUS
<1>6. /\ r = [i \in 1..n |-> b[n - i + 1]] /\ Len(r) = n
      /\ s = [i \in 1..m + n |-> ab[m + n - i + 1]] /\ Len(s) = m + n
  BY <1>1, <1>2, <1>4, <1>5
<1>7. \A i \in 1..n : r[i] = s[i]
  <2> SUFFICES ASSUME NEW i \in 1..n PROVE r[i] = s[i]
    OBVIOUS
  <2>1. i \in 1..m + n
    BY <1>1
  <2>2. r[i] = b[n - i + 1] /\ s[i] = ab[m + n - i + 1]
    BY <1>6, <2>1
  <2> QED BY <1>3, <2>2
<1>8. SubSeq(r, 1, n) = [i \in 1..n |-> r[i]] /\ SubSeq(s, 1, n) = [i \in 1..n |-> s[i]]
  BY <1>1, <1>6
<1>9. Len(r) <= Len(s) /\ SubSeq(r, 1, Len(r)) = SubSeq(s, 1, Len(r))
  <2>1. [i \in 1..n |-> r[i]] = [i \in 1..n |-> s[i]]
    BY <1>7
  <2>2. SubSeq(r, 1, n) = SubSeq(s, 1, n)
    BY Zenon, <1>8, <2>1
  <2>3. n <= m + n
    BY <1>1
  <2> QED BY Zenon, <1>6, <2>2, <2>3
<1> QED BY <1>4, <1>5, <1>9 DEF IsSuffix, IsPrefix

\* The host of a name without dots and colons, cut into the name, the dot and the domain.
LEMMA HostOfName ==
  ASSUME NEW Chars, NEW name \in Seq(Chars), IsLabel(name),
         NEW url, url = name \o <<".">> \o Domain
  PROVE  /\ url \in Seq(Chars \cup STRING \cup {".", ":", "8"})
         /\ UnderDomain(url) /\ LabelOf(url) = name
         /\ ~Contains(name, ".") /\ ~Contains(url, ":")
<1> DEFINE Letters == Chars \cup STRING \cup {".", ":", "8"}
<1>1. Domain \in Seq(Letters) /\ name \in Seq(Letters) /\ <<".">> \in Seq(Letters)
  <2>1. Domain \in Seq(STRING)
    BY Zenon, RoutingAssumption
  <2>2. Domain \in Seq(Letters)
    BY <2>1
  <2>3. name \in Seq(Letters)
    OBVIOUS
  <2>4. "." \in Letters
    OBVIOUS
  <2> HIDE DEF Letters
  <2>5. <<".">> \in Seq(Letters)
    BY <2>4
  <2> QED BY <2>2, <2>3, <2>5
<1>2. PICK n \in Nat, d \in Nat : n = Len(name) /\ d = Len(Domain)
  BY <1>1
<1>3. PICK dotted : dotted = <<".">> \o Domain
  OBVIOUS
<1>4. PICK label : label = name \o <<".">>
  OBVIOUS
<1>5. /\ dotted \in Seq(Letters) /\ Len(dotted) = d + 1 /\ dotted[1] = "."
      /\ \A i \in 2..d + 1 : dotted[i] = Domain[i - 1]
  BY <1>1, <1>2, <1>3
<1>6. /\ label \in Seq(Letters) /\ Len(label) = n + 1 /\ label[n + 1] = "."
      /\ \A i \in 1..n : label[i] = name[i]
  BY <1>1, <1>2, <1>4
<1> HIDE DEF Letters
<1>7. /\ url \in Seq(Letters) /\ Len(url) = n + 1 + d
      /\ \A i \in 1..n + 1 : url[i] = label[i]
      /\ \A i \in n + 2..n + 1 + d : url[i] = Domain[i - (n + 1)]
  BY <1>1, <1>2, <1>4, <1>6
<1>8. url = name \o dotted
  <2>1. (name \o <<".">>) \o Domain = name \o (<<".">> \o Domain)
    BY <1>1, ConcatAssociative
  <2> QED BY Zenon, <1>3, <2>1
<1>9. UnderDomain(url)
  <2>1. IsSuffix(dotted, url)
    BY <1>1, <1>5, <1>8, EndsWith
  <2> QED BY Zenon, <1>3, <2>1 DEF UnderDomain
<1>10. LabelOf(url) = name
  <2>1. SubSeq(url, 1, n) = name
    BY <1>1, <1>2, <1>5, <1>8, Joined
  <2>2. n = Len(url) - Len(Domain) - 1
    BY <1>2, <1>7
  <2> QED BY Zenon, <1>2, <2>1, <2>2 DEF LabelOf
<1>11. ASSUME NEW i \in 1..n PROVE name[i] # "." /\ name[i] # ":"
  BY <1>2 DEF IsLabel, Contains
<1>12. ~Contains(name, ".")
  BY Zenon DEF IsLabel
<1>13. ASSUME NEW i \in 1..n + 1 + d PROVE url[i] # ":"
  <2>1. CASE i \in 1..n
    BY <1>6, <1>7, <1>11, <2>1
  <2>2. CASE i = n + 1
    BY <1>6, <1>7, <2>2
  <2>3. CASE i \in n + 2..n + 1 + d
    <3>1. PICK j \in 1..d : j = i - (n + 1)
      BY <2>3
    <3>2. url[i] = Domain[j]
      BY <1>7, <2>3, <3>1
    <3>3. Domain[j] # ":"
      BY Zenon, <1>2, <3>1, RoutingAssumption DEF Contains
    <3> QED BY <3>2, <3>3
  <2>4. i \in 1..n \/ i = n + 1 \/ i \in n + 2..n + 1 + d
    BY <1>2
  <2> QED BY <2>1, <2>2, <2>3, <2>4
<1>14. ~Contains(url, ":")
  BY Zenon, <1>7, <1>13 DEF Contains
<1> QED BY <1>2, <1>7, <1>9, <1>10, <1>12, <1>14 DEF Letters

\* What follows the colon is cut off, and a host without one stays as it is.
LEMMA PortIsCutOff ==
  ASSUME NEW Letters, {":", "8"} \subseteq Letters, NEW url \in Seq(Letters), ~Contains(url, ":")
  PROVE  Bare(url \o <<>>) = url /\ Bare(url \o <<":", "8">>) = url
<1>1. Bare(url \o <<>>) = url
  <2>1. url \o <<>> = url
    OBVIOUS
  <2> QED BY Zenon, <2>1 DEF Bare
<1>2. PICK n \in Nat : n = Len(url)
  OBVIOUS
<1>3. PICK host : host = url \o <<":", "8">>
  OBVIOUS
<1>4. /\ Len(host) = n + 2 /\ host[n + 1] = ":" /\ host[n + 2] = "8"
      /\ \A i \in 1..n : host[i] = url[i]
  BY <1>2, <1>3
<1>5. \A i \in 1..n : host[i] # ":"
  BY Zenon, <1>2, <1>4 DEF Contains
<1>6. {i \in 1..n + 2 : host[i] = ":"} = {n + 1}
  <2>1. ASSUME NEW i \in 1..n + 2 PROVE host[i] = ":" <=> i = n + 1
    <3>1. i \in 1..n \/ i = n + 1 \/ i = n + 2
      OBVIOUS
    <3> QED BY <1>4, <1>5, <3>1
  <2> QED BY <2>1
<1>7. Max({n + 1}) = n + 1
  BY DEF Max
<1>8. SelectLastInSeq(host, LAMBDA c : c = ":") = n + 1
  BY Zenon, <1>4, <1>6, <1>7 DEF SelectLastInSeq
<1>9. Contains(host, ":")
  BY <1>4 DEF Contains
<1>10. SubSeq(host, 1, n) = url
  <2>1. <<":", "8">> \in Seq(Letters)
    OBVIOUS
  <2>2. PICK k : k = Len(<<":", "8">>)
    OBVIOUS
  <2>3. /\ url \in Seq(Letters) /\ <<":", "8">> \in Seq(Letters) /\ host = url \o <<":", "8">>
        /\ n = Len(url) /\ k = Len(<<":", "8">>)
    BY Zenon, <1>2, <1>3, <2>1, <2>2
  <2> QED BY <2>3, Joined
<1> QED BY <1>1, <1>3, <1>8, <1>9, <1>10 DEF Bare

\* What handleTunnelCreate accepts is neither empty nor has a dot or a colon.
LEMMA ValidIsLabel ==
  ASSUME NEW Chars, NEW name \in Seq(Chars), isValidSubdomain(name)
  PROVE  IsLabel(name)
<1>1. {".", ":"} \cap Alphabet = {}
  BY Zenon, RoutingAssumption
<1>2. \A i \in 1..Len(name) : name[i] \in Alphabet \/ name[i] = "-"
  BY DEF isValidSubdomain
<1>3. \A i \in 1..Len(name) : name[i] # "." /\ name[i] # ":"
  BY <1>1, <1>2
<1>4. ~Contains(name, ".") /\ ~Contains(name, ":")
  BY <1>3 DEF Contains
<1>5. Len(name) # 0
  BY DEF isValidSubdomain
<1> QED BY <1>4, <1>5 DEF IsLabel

\* A name without dots and colons, whatever its length and characters, gives a URL that
\* autocert asks a certificate for and that subdomainRouter takes to that name, with and
\* without a port.
THEOREM LabelsAreRouted == ASSUME NEW Chars PROVE RoutedAsCreated(Seq(Chars))
<1> SUFFICES ASSUME NEW name \in Seq(Chars), IsLabel(name), NEW url,
                    url = name \o <<".">> \o Domain
             PROVE  /\ HostPolicy(url)
                    /\ extractSubdomain(url \o <<>>) = name
                    /\ extractSubdomain(url \o <<":", "8">>) = name
  BY DEF RoutedAsCreated
<1>1. /\ url \in Seq(Chars \cup STRING \cup {".", ":", "8"})
      /\ UnderDomain(url) /\ LabelOf(url) = name
      /\ ~Contains(name, ".") /\ ~Contains(url, ":")
  BY Zenon, HostOfName
<1>2. Bare(url \o <<>>) = url /\ Bare(url \o <<":", "8">>) = url
  <2> DEFINE Letters == Chars \cup STRING \cup {".", ":", "8"}
  <2>1. {":", "8"} \subseteq Letters /\ url \in Seq(Letters)
    BY <1>1
  <2> HIDE DEF Letters
  <2> QED BY Zenon, <1>1, <2>1, PortIsCutOff
<1> QED BY Zenon, <1>1, <1>2 DEF HostPolicy, extractSubdomain

\* A call of the API that one pattern matches goes to that pattern's handler.
LEMMA OneMatch ==
  ASSUME NEW call, NEW h, call[2] = "api" /\ Len(call) > 2 /\ Matching(call) = {h}
  PROVE  Mux(call) = h
<1>1. call # <<"GET", "healthz">>
  <2>1. <<"GET", "healthz">>[2] = "healthz"
    OBVIOUS
  <2> QED BY <2>1
<1>2. (CHOOSE g \in Matching(call) : TRUE) = h /\ Matching(call) # {}
  OBVIOUS
<1>3. "api" # "ui"
  OBVIOUS
<1> QED BY Zenon, <1>1, <1>2, <1>3 DEF Mux

\* A call is below /api, and one pattern matches it.
LEMMA CallsMatch ==
  ASSUME NEW name, NEW id, NEW a \in ApiCallsOf(name, id)
  PROVE  Mux(a.call) = a.for /\ Matching(a.call) = {a.for} /\ a.call[2] = "api"
<1>1. ASSUME NEW b, b = Ask("GET", <<"tunnels", name, "requests">>, "handleRequestList")
      PROVE  Mux(b.call) = b.for /\ Matching(b.call) = {b.for} /\ b.call[2] = "api"
  <2>1. b.for = "handleRequestList" /\ b.call = <<"GET", "api", "tunnels", name, "requests">>
    <3>1. b = [call |-> <<"GET", "api">> \o <<"tunnels", name, "requests">>, for |-> "handleRequestList"]
      BY Zenon, <1>1 DEF Ask
    <3>2. PICK call : call = <<"GET", "api", "tunnels", name, "requests">>
      OBVIOUS
    <3>3. call = <<"GET", "api">> \o <<"tunnels", name, "requests">>
      BY <3>2
    <3> QED BY Zenon, <3>1, <3>2, <3>3
  <2>2. /\ DOMAIN b.call = 1..5 /\ Len(b.call) = 5 /\ Len(b.call) > 2
        /\ b.call[1] = "GET" /\ b.call[2] = "api" /\ b.call[3] = "tunnels" /\ b.call[4] = name /\ b.call[5] = "requests"
    BY <2>1
  <2>3. Matching(b.call) = {"handleRequestList"}
    BY <2>2 DEF Matching, Patterns
  <2>4. b.call[2] = "api" /\ Len(b.call) > 2 /\ Matching(b.call) = {"handleRequestList"}
    BY Zenon, <2>2, <2>3
  <2>5. Mux(b.call) = "handleRequestList"
    BY Zenon, <2>4, OneMatch
  <2> QED BY Zenon, <2>1, <2>2, <2>3, <2>5
<1>2. ASSUME NEW b, b = Ask("GET", <<"requests", id>>, "handleRequestGetGlobal")
      PROVE  Mux(b.call) = b.for /\ Matching(b.call) = {b.for} /\ b.call[2] = "api"
  <2>1. b.for = "handleRequestGetGlobal" /\ b.call = <<"GET", "api", "requests", id>>
    <3>1. b = [call |-> <<"GET", "api">> \o <<"requests", id>>, for |-> "handleRequestGetGlobal"]
      BY Zenon, <1>2 DEF Ask
    <3>2. PICK call : call = <<"GET", "api", "requests", id>>
      OBVIOUS
    <3>3. call = <<"GET", "api">> \o <<"requests", id>>
      BY <3>2
    <3> QED BY Zenon, <3>1, <3>2, <3>3
  <2>2. /\ DOMAIN b.call = 1..4 /\ Len(b.call) = 4 /\ Len(b.call) > 2
        /\ b.call[1] = "GET" /\ b.call[2] = "api" /\ b.call[3] = "requests" /\ b.call[4] = id
    BY <2>1
  <2>3. Matching(b.call) = {"handleRequestGetGlobal"}
    BY <2>2 DEF Matching, Patterns
  <2>4. b.call[2] = "api" /\ Len(b.call) > 2 /\ Matching(b.call) = {"handleRequestGetGlobal"}
    BY Zenon, <2>2, <2>3
  <2>5. Mux(b.call) = "handleRequestGetGlobal"
    BY Zenon, <2>4, OneMatch
  <2> QED BY Zenon, <2>1, <2>2, <2>3, <2>5
<1>3. ASSUME NEW b, b = Ask("POST", <<"tunnels", name, "requests", id, "replay">>, "handleReplay")
      PROVE  Mux(b.call) = b.for /\ Matching(b.call) = {b.for} /\ b.call[2] = "api"
  <2>1. b.for = "handleReplay" /\ b.call = <<"POST", "api", "tunnels", name, "requests", id, "replay">>
    <3>1. b = [call |-> <<"POST", "api">> \o <<"tunnels", name, "requests", id, "replay">>, for |-> "handleReplay"]
      BY Zenon, <1>3 DEF Ask
    <3>2. PICK call : call = <<"POST", "api", "tunnels", name, "requests", id, "replay">>
      OBVIOUS
    <3>3. call = <<"POST", "api">> \o <<"tunnels", name, "requests", id, "replay">>
      BY <3>2
    <3> QED BY Zenon, <3>1, <3>2, <3>3
  <2>2. /\ DOMAIN b.call = 1..7 /\ Len(b.call) = 7 /\ Len(b.call) > 2
        /\ b.call[1] = "POST" /\ b.call[2] = "api" /\ b.call[3] = "tunnels" /\ b.call[4] = name /\ b.call[5] = "requests" /\ b.call[6] = id /\ b.call[7] = "replay"
    BY <2>1
  <2>3. Matching(b.call) = {"handleReplay"}
    BY <2>2 DEF Matching, Patterns
  <2>4. b.call[2] = "api" /\ Len(b.call) > 2 /\ Matching(b.call) = {"handleReplay"}
    BY Zenon, <2>2, <2>3
  <2>5. Mux(b.call) = "handleReplay"
    BY Zenon, <2>4, OneMatch
  <2> QED BY Zenon, <2>1, <2>2, <2>3, <2>5
<1>4. ASSUME NEW b, b = Ask("GET", <<"tunnels", name, "status">>, "handleTunnelStatus")
      PROVE  Mux(b.call) = b.for /\ Matching(b.call) = {b.for} /\ b.call[2] = "api"
  <2>1. b.for = "handleTunnelStatus" /\ b.call = <<"GET", "api", "tunnels", name, "status">>
    <3>1. b = [call |-> <<"GET", "api">> \o <<"tunnels", name, "status">>, for |-> "handleTunnelStatus"]
      BY Zenon, <1>4 DEF Ask
    <3>2. PICK call : call = <<"GET", "api", "tunnels", name, "status">>
      OBVIOUS
    <3>3. call = <<"GET", "api">> \o <<"tunnels", name, "status">>
      BY <3>2
    <3> QED BY Zenon, <3>1, <3>2, <3>3
  <2>2. /\ DOMAIN b.call = 1..5 /\ Len(b.call) = 5 /\ Len(b.call) > 2
        /\ b.call[1] = "GET" /\ b.call[2] = "api" /\ b.call[3] = "tunnels" /\ b.call[4] = name /\ b.call[5] = "status"
    BY <2>1
  <2>3. Matching(b.call) = {"handleTunnelStatus"}
    BY <2>2 DEF Matching, Patterns
  <2>4. b.call[2] = "api" /\ Len(b.call) > 2 /\ Matching(b.call) = {"handleTunnelStatus"}
    BY Zenon, <2>2, <2>3
  <2>5. Mux(b.call) = "handleTunnelStatus"
    BY Zenon, <2>4, OneMatch
  <2> QED BY Zenon, <2>1, <2>2, <2>3, <2>5
<1>5. ASSUME NEW b, b = Ask("GET", <<"pipelines", id, "traces">>, "handlePipelineTraces")
      PROVE  Mux(b.call) = b.for /\ Matching(b.call) = {b.for} /\ b.call[2] = "api"
  <2>1. b.for = "handlePipelineTraces" /\ b.call = <<"GET", "api", "pipelines", id, "traces">>
    <3>1. b = [call |-> <<"GET", "api">> \o <<"pipelines", id, "traces">>, for |-> "handlePipelineTraces"]
      BY Zenon, <1>5 DEF Ask
    <3>2. PICK call : call = <<"GET", "api", "pipelines", id, "traces">>
      OBVIOUS
    <3>3. call = <<"GET", "api">> \o <<"pipelines", id, "traces">>
      BY <3>2
    <3> QED BY Zenon, <3>1, <3>2, <3>3
  <2>2. /\ DOMAIN b.call = 1..5 /\ Len(b.call) = 5 /\ Len(b.call) > 2
        /\ b.call[1] = "GET" /\ b.call[2] = "api" /\ b.call[3] = "pipelines" /\ b.call[4] = id /\ b.call[5] = "traces"
    BY <2>1
  <2>3. Matching(b.call) = {"handlePipelineTraces"}
    BY <2>2 DEF Matching, Patterns
  <2>4. b.call[2] = "api" /\ Len(b.call) > 2 /\ Matching(b.call) = {"handlePipelineTraces"}
    BY Zenon, <2>2, <2>3
  <2>5. Mux(b.call) = "handlePipelineTraces"
    BY Zenon, <2>4, OneMatch
  <2> QED BY Zenon, <2>1, <2>2, <2>3, <2>5
<1>6. ASSUME NEW b, b = Ask("GET", <<"traces", id>>, "handleTraceTimeline")
      PROVE  Mux(b.call) = b.for /\ Matching(b.call) = {b.for} /\ b.call[2] = "api"
  <2>1. b.for = "handleTraceTimeline" /\ b.call = <<"GET", "api", "traces", id>>
    <3>1. b = [call |-> <<"GET", "api">> \o <<"traces", id>>, for |-> "handleTraceTimeline"]
      BY Zenon, <1>6 DEF Ask
    <3>2. PICK call : call = <<"GET", "api", "traces", id>>
      OBVIOUS
    <3>3. call = <<"GET", "api">> \o <<"traces", id>>
      BY <3>2
    <3> QED BY Zenon, <3>1, <3>2, <3>3
  <2>2. /\ DOMAIN b.call = 1..4 /\ Len(b.call) = 4 /\ Len(b.call) > 2
        /\ b.call[1] = "GET" /\ b.call[2] = "api" /\ b.call[3] = "traces" /\ b.call[4] = id
    BY <2>1
  <2>3. Matching(b.call) = {"handleTraceTimeline"}
    BY <2>2 DEF Matching, Patterns
  <2>4. b.call[2] = "api" /\ Len(b.call) > 2 /\ Matching(b.call) = {"handleTraceTimeline"}
    BY Zenon, <2>2, <2>3
  <2>5. Mux(b.call) = "handleTraceTimeline"
    BY Zenon, <2>4, OneMatch
  <2> QED BY Zenon, <2>1, <2>2, <2>3, <2>5
<1>7. ASSUME NEW b, b = Ask("POST", <<"pipeline-rules">>, "handleSetPipelineRules")
      PROVE  Mux(b.call) = b.for /\ Matching(b.call) = {b.for} /\ b.call[2] = "api"
  <2>1. b.for = "handleSetPipelineRules" /\ b.call = <<"POST", "api", "pipeline-rules">>
    <3>1. b = [call |-> <<"POST", "api">> \o <<"pipeline-rules">>, for |-> "handleSetPipelineRules"]
      BY Zenon, <1>7 DEF Ask
    <3>2. PICK call : call = <<"POST", "api", "pipeline-rules">>
      OBVIOUS
    <3>3. call = <<"POST", "api">> \o <<"pipeline-rules">>
      BY <3>2
    <3> QED BY Zenon, <3>1, <3>2, <3>3
  <2>2. /\ DOMAIN b.call = 1..3 /\ Len(b.call) = 3 /\ Len(b.call) > 2
        /\ b.call[1] = "POST" /\ b.call[2] = "api" /\ b.call[3] = "pipeline-rules"
    BY <2>1
  <2>3. Matching(b.call) = {"handleSetPipelineRules"}
    BY <2>2 DEF Matching, Patterns
  <2>4. b.call[2] = "api" /\ Len(b.call) > 2 /\ Matching(b.call) = {"handleSetPipelineRules"}
    BY Zenon, <2>2, <2>3
  <2>5. Mux(b.call) = "handleSetPipelineRules"
    BY Zenon, <2>4, OneMatch
  <2> QED BY Zenon, <2>1, <2>2, <2>3, <2>5
<1>8. ASSUME NEW b, b = Ask("GET", <<"overview">>, "handleOverview")
      PROVE  Mux(b.call) = b.for /\ Matching(b.call) = {b.for} /\ b.call[2] = "api"
  <2>1. b.for = "handleOverview" /\ b.call = <<"GET", "api", "overview">>
    <3>1. b = [call |-> <<"GET", "api">> \o <<"overview">>, for |-> "handleOverview"]
      BY Zenon, <1>8 DEF Ask
    <3>2. PICK call : call = <<"GET", "api", "overview">>
      OBVIOUS
    <3>3. call = <<"GET", "api">> \o <<"overview">>
      BY <3>2
    <3> QED BY Zenon, <3>1, <3>2, <3>3
  <2>2. /\ DOMAIN b.call = 1..3 /\ Len(b.call) = 3 /\ Len(b.call) > 2
        /\ b.call[1] = "GET" /\ b.call[2] = "api" /\ b.call[3] = "overview"
    BY <2>1
  <2>3. Matching(b.call) = {"handleOverview"}
    BY <2>2 DEF Matching, Patterns
  <2>4. b.call[2] = "api" /\ Len(b.call) > 2 /\ Matching(b.call) = {"handleOverview"}
    BY Zenon, <2>2, <2>3
  <2>5. Mux(b.call) = "handleOverview"
    BY Zenon, <2>4, OneMatch
  <2> QED BY Zenon, <2>1, <2>2, <2>3, <2>5
<1>9. ASSUME NEW b, b = Ask("POST", <<"admin", "tunnels">>, "handleTunnelCreate")
      PROVE  Mux(b.call) = b.for /\ Matching(b.call) = {b.for} /\ b.call[2] = "api"
  <2>1. b.for = "handleTunnelCreate" /\ b.call = <<"POST", "api", "admin", "tunnels">>
    <3>1. b = [call |-> <<"POST", "api">> \o <<"admin", "tunnels">>, for |-> "handleTunnelCreate"]
      BY Zenon, <1>9 DEF Ask
    <3>2. PICK call : call = <<"POST", "api", "admin", "tunnels">>
      OBVIOUS
    <3>3. call = <<"POST", "api">> \o <<"admin", "tunnels">>
      BY <3>2
    <3> QED BY Zenon, <3>1, <3>2, <3>3
  <2>2. /\ DOMAIN b.call = 1..4 /\ Len(b.call) = 4 /\ Len(b.call) > 2
        /\ b.call[1] = "POST" /\ b.call[2] = "api" /\ b.call[3] = "admin" /\ b.call[4] = "tunnels"
    BY <2>1
  <2>3. Matching(b.call) = {"handleTunnelCreate"}
    BY <2>2 DEF Matching, Patterns
  <2>4. b.call[2] = "api" /\ Len(b.call) > 2 /\ Matching(b.call) = {"handleTunnelCreate"}
    BY Zenon, <2>2, <2>3
  <2>5. Mux(b.call) = "handleTunnelCreate"
    BY Zenon, <2>4, OneMatch
  <2> QED BY Zenon, <2>1, <2>2, <2>3, <2>5
<1>10. ASSUME NEW b, b = Ask("GET", <<"admin", "tunnels">>, "handleTunnelList")
      PROVE  Mux(b.call) = b.for /\ Matching(b.call) = {b.for} /\ b.call[2] = "api"
  <2>1. b.for = "handleTunnelList" /\ b.call = <<"GET", "api", "admin", "tunnels">>
    <3>1. b = [call |-> <<"GET", "api">> \o <<"admin", "tunnels">>, for |-> "handleTunnelList"]
      BY Zenon, <1>10 DEF Ask
    <3>2. PICK call : call = <<"GET", "api", "admin", "tunnels">>
      OBVIOUS
    <3>3. call = <<"GET", "api">> \o <<"admin", "tunnels">>
      BY <3>2
    <3> QED BY Zenon, <3>1, <3>2, <3>3
  <2>2. /\ DOMAIN b.call = 1..4 /\ Len(b.call) = 4 /\ Len(b.call) > 2
        /\ b.call[1] = "GET" /\ b.call[2] = "api" /\ b.call[3] = "admin" /\ b.call[4] = "tunnels"
    BY <2>1
  <2>3. Matching(b.call) = {"handleTunnelList"}
    BY <2>2 DEF Matching, Patterns
  <2>4. b.call[2] = "api" /\ Len(b.call) > 2 /\ Matching(b.call) = {"handleTunnelList"}
    BY Zenon, <2>2, <2>3
  <2>5. Mux(b.call) = "handleTunnelList"
    BY Zenon, <2>4, OneMatch
  <2> QED BY Zenon, <2>1, <2>2, <2>3, <2>5
<1>11. ASSUME NEW b, b = Ask("DELETE", <<"admin", "tunnels", name>>, "handleTunnelDelete")
      PROVE  Mux(b.call) = b.for /\ Matching(b.call) = {b.for} /\ b.call[2] = "api"
  <2>1. b.for = "handleTunnelDelete" /\ b.call = <<"DELETE", "api", "admin", "tunnels", name>>
    <3>1. b = [call |-> <<"DELETE", "api">> \o <<"admin", "tunnels", name>>, for |-> "handleTunnelDelete"]
      BY Zenon, <1>11 DEF Ask
    <3>2. PICK call : call = <<"DELETE", "api", "admin", "tunnels", name>>
      OBVIOUS
    <3>3. call = <<"DELETE", "api">> \o <<"admin", "tunnels", name>>
      BY <3>2
    <3> QED BY Zenon, <3>1, <3>2, <3>3
  <2>2. /\ DOMAIN b.call = 1..5 /\ Len(b.call) = 5 /\ Len(b.call) > 2
        /\ b.call[1] = "DELETE" /\ b.call[2] = "api" /\ b.call[3] = "admin" /\ b.call[4] = "tunnels" /\ b.call[5] = name
    BY <2>1
  <2>3. Matching(b.call) = {"handleTunnelDelete"}
    BY <2>2 DEF Matching, Patterns
  <2>4. b.call[2] = "api" /\ Len(b.call) > 2 /\ Matching(b.call) = {"handleTunnelDelete"}
    BY Zenon, <2>2, <2>3
  <2>5. Mux(b.call) = "handleTunnelDelete"
    BY Zenon, <2>4, OneMatch
  <2> QED BY Zenon, <2>1, <2>2, <2>3, <2>5
<1>12. a \in {Ask("GET", <<"tunnels", name, "requests">>, "handleRequestList"),
             Ask("GET", <<"requests", id>>, "handleRequestGetGlobal"),
             Ask("POST", <<"tunnels", name, "requests", id, "replay">>, "handleReplay"),
             Ask("GET", <<"tunnels", name, "status">>, "handleTunnelStatus"),
             Ask("GET", <<"pipelines", id, "traces">>, "handlePipelineTraces"),
             Ask("GET", <<"traces", id>>, "handleTraceTimeline"),
             Ask("POST", <<"pipeline-rules">>, "handleSetPipelineRules"),
             Ask("GET", <<"overview">>, "handleOverview"),
             Ask("POST", <<"admin", "tunnels">>, "handleTunnelCreate"),
             Ask("GET", <<"admin", "tunnels">>, "handleTunnelList"),
             Ask("DELETE", <<"admin", "tunnels", name>>, "handleTunnelDelete")}
  BY Zenon DEF ApiCallsOf, GetOf, pieStatus, pieLogs, pieTraces, pieInspect, pieReplay,
               pieTunnelCreate, pieTunnelList, pieTunnelDelete, pieUp, tools
<1> QED BY Zenon, <1>1, <1>2, <1>3, <1>4, <1>5, <1>6, <1>7, <1>8, <1>9, <1>10, <1>11, <1>12

\* The mux takes every call of the commands and of the MCP tools to the one handler
\* that it is for, whatever the name and the id in its path, be they words of the
\* API's own paths.
THEOREM CallsAreHandled == \A names, ids : CallsReachTheirHandlers(names, ids)
BY Zenon, CallsMatch DEF CallsReachTheirHandlers

\* The server's own host is no tunnel's, with and without a port.
LEMMA OwnHostIsNoTunnels ==
  ASSUME NEW port \in PortSuffixes
  PROVE  extractSubdomain(Domain \o port) = <<>>
<1>1. Domain \in Seq(STRING) /\ ~Contains(Domain, ":")
  BY Zenon, RoutingAssumption
<1>2. /\ {":", "8"} \subseteq STRING \cup {":", "8"}
      /\ Domain \in Seq(STRING \cup {":", "8"})
  BY <1>1
<1>3. Bare(Domain \o port) = Domain
  <2>1. Bare(Domain \o <<>>) = Domain /\ Bare(Domain \o <<":", "8">>) = Domain
    BY Zenon, <1>1, <1>2, PortIsCutOff
  <2>2. port = <<>> \/ port = <<":", "8">>
    BY Zenon DEF PortSuffixes
  <2> QED BY Zenon, <2>1, <2>2
<1>4. ~UnderDomain(Domain)
  <2>1. PICK tail : tail = <<".">> \o Domain
    OBVIOUS
  <2>2. Len(tail) = Len(Domain) + 1 /\ Len(Domain) \in Nat
    BY <1>1, <2>1
  <2>3. Len(Reverse(tail)) = Len(Domain) + 1 /\ Len(Reverse(Domain)) = Len(Domain)
    BY <2>2 DEF Reverse
  <2>4. ~(Len(Reverse(tail)) <= Len(Reverse(Domain)))
    BY <2>2, <2>3
  <2> QED BY Zenon, <2>1, <2>4 DEF UnderDomain, IsSuffix, IsPrefix
<1> QED BY Zenon, <1>3, <1>4 DEF extractSubdomain

\* The API accepted a tunnel's name or the listener took it, and the last request was made
\* by a visitor of a tunnel, which may be gone by now, or by a command.
Accepted == {name \in HostNames : isValidSubdomain(name)}
Wanted == {name \in HostNames : name # <<>>}

IsVisit(r) ==
    \E name \in Wanted, port \in PortSuffixes, v \in Visits : r = VisitOf(name, port, v)

IsCall(r) ==
    \E name \in Words, id \in Words : \E a \in ApiCallsOf(name, id), port \in PortSuffixes : r = CallOf(a, port)

RouterInv ==
    /\ created \subseteq Accepted /\ greeted \subseteq Wanted
    /\ request = NoRequest \/ IsVisit(request) \/ IsCall(request)

LEMMA AcceptedAreLabels == \A name \in Accepted : name \in Wanted /\ IsLabel(name)
<1> SUFFICES ASSUME NEW name \in Accepted PROVE name \in Wanted /\ IsLabel(name)
  OBVIOUS
<1>1. name \in Seq(STRING) /\ isValidSubdomain(name) /\ name \in HostNames
  BY Zenon, NamesAssumption DEF Accepted
<1>2. IsLabel(name)
  BY Zenon, <1>1, ValidIsLabel
<1> QED BY Zenon, <1>1, <1>2 DEF Wanted, IsLabel

LEMMA RouterInvariant == RouterSpec => []RouterInv
<1>1. RouterInit => RouterInv
  BY Zenon DEF RouterInit, RouterInv
<1>2. RouterInv /\ [RouterNext]_routerVars => RouterInv'
  <2> SUFFICES ASSUME RouterInv, [RouterNext]_routerVars PROVE RouterInv'
    OBVIOUS
  <2>1. ASSUME NEW name \in HostNames, handleTunnelCreate(name) PROVE RouterInv'
    BY Zenon, <2>1 DEF handleTunnelCreate, RouterInv, Accepted
  <2>2. ASSUME NEW name \in HostNames, Hello(name) PROVE RouterInv'
    BY Zenon, <2>2 DEF Hello, RouterInv, Wanted
  <2>3. ASSUME NEW name, handleTunnelDelete(name) PROVE RouterInv'
    BY Zenon, <2>3 DEF handleTunnelDelete, RouterInv
  <2>4. ASSUME NEW name \in created \cup greeted, Visit(name) PROVE RouterInv'
    <3>1. name \in Wanted
      BY Zenon, <2>4, AcceptedAreLabels DEF RouterInv
    <3>2. IsVisit(request') /\ created' = created /\ greeted' = greeted
      BY Zenon, <2>4, <3>1 DEF Visit, IsVisit
    <3> QED BY Zenon, <3>2 DEF RouterInv
  <2>5. ASSUME NEW name \in Words, NEW id \in Words, CallApi(name, id) PROVE RouterInv'
    <3>1. IsCall(request') /\ created' = created /\ greeted' = greeted
      BY Zenon, <2>5 DEF CallApi, IsCall
    <3> QED BY Zenon, <3>1 DEF RouterInv
  <2>6. CASE Routed
    BY Zenon, <2>6 DEF Routed, RouterInv
  <2>7. CASE UNCHANGED routerVars
    BY Zenon, <2>7 DEF routerVars, RouterInv
  <2> QED BY Zenon, <2>1, <2>2, <2>3, <2>4, <2>5, <2>6, <2>7 DEF RouterNext
<1> QED BY <1>1, <1>2, PTL DEF RouterSpec

\* A visitor of a tunnel whose name is a label reaches it, or the access check below /ui/.
LEMMA VisitorsReachTheirTunnel ==
  ASSUME NEW r, IsVisit(r)
  PROVE  /\ r.name # <<>>
         /\ IsLabel(r.name) =>
                /\ extractSubdomain(r.host) = r.name
                /\ dashAuth(r) \in r.for \/ (dashAuth(r) = "dashAuth" /\ BelowUI(r.call))
<1>1. PICK name \in Wanted, port \in PortSuffixes, v \in Visits : r = VisitOf(name, port, v)
  BY Zenon DEF IsVisit
<1>2. name \in Seq(STRING) /\ name # <<>>
  BY Zenon, NamesAssumption DEF Wanted
<1>3. /\ r.host = Url(name) \o port /\ r.name = name
      /\ r.for = {"handleWebhook", "handleWebSocketProxy"}
  BY Zenon, <1>1 DEF VisitOf
<1>4. ASSUME IsLabel(name) PROVE extractSubdomain(Url(name) \o port) = name
  BY Zenon, <1>2, <1>4, LabelsAreRouted DEF RoutedAsCreated, PortSuffixes, Url
<1>5. ASSUME IsLabel(name) PROVE subdomainRouter(r) \in r.for
  BY Zenon, <1>2, <1>3, <1>4, <1>5 DEF subdomainRouter
<1> QED BY Zenon, <1>2, <1>3, <1>4, <1>5 DEF dashAuth

\* A call reaches the handler that it is for: the access check does not look below /api.
LEMMA CallersReachTheirHandler ==
  ASSUME NEW r, IsCall(r)
  PROVE  /\ r.name = <<>>
         /\ extractSubdomain(r.host) = <<>>
         /\ dashAuth(r) \in r.for
         /\ Matching(r.call) = r.for
<1>1. PICK name \in Words, id \in Words : \E a \in ApiCallsOf(name, id), port \in PortSuffixes : r = CallOf(a, port)
  BY Zenon DEF IsCall
<1>2. PICK a \in ApiCallsOf(name, id), port \in PortSuffixes : r = CallOf(a, port)
  BY Zenon, <1>1
<1>3. Mux(a.call) = a.for /\ Matching(a.call) = {a.for} /\ a.call[2] = "api"
  BY Zenon, <1>2, CallsMatch
<1>4. r.host = Domain \o port /\ r.call = a.call /\ r.name = <<>> /\ r.for = {a.for}
  BY Zenon, <1>2 DEF CallOf
<1>5. extractSubdomain(r.host) = <<>>
  BY Zenon, <1>4, OwnHostIsNoTunnels
<1>6. ~BelowUI(r.call)
  <2>1. "api" # "ui"
    OBVIOUS
  <2> QED BY Zenon, <1>3, <1>4, <2>1 DEF BelowUI
<1> QED BY Zenon, <1>3, <1>4, <1>5, <1>6 DEF subdomainRouter, dashAuth

\* Whatever tunnels come through the API and through the listener and are deleted, and
\* whatever visitors and commands ask: the API's names are labels that get certificates,
\* a visitor of a label reaches its tunnel or the access check below /ui/, and a call
\* reaches its handler.
THEOREM RoutesAreSound == RouterSpec => []RoutingIsSound
<1>1. ASSUME RouterInv PROVE RoutingIsSound
  <2>1. ASSUME NEW name \in created PROVE IsLabel(name) /\ HostPolicy(Url(name))
    <3>1. name \in Seq(STRING) /\ IsLabel(name)
      BY Zenon, <1>1, NamesAssumption, AcceptedAreLabels DEF RouterInv, Accepted
    <3> QED BY Zenon, <3>1, LabelsAreRouted DEF RoutedAsCreated, Url
  <2>2. ASSUME IsVisit(request)
        PROVE  /\ request.name # <<>>
               /\ IsLabel(request.name) =>
                    /\ extractSubdomain(request.host) = request.name
                    /\ \/ dashAuth(request) \in request.for
                       \/ dashAuth(request) = "dashAuth" /\ BelowUI(request.call)
    BY Zenon, <2>2, VisitorsReachTheirTunnel
  <2>3. ASSUME IsCall(request)
        PROVE  /\ ~IsLabel(request.name)
               /\ extractSubdomain(request.host) = <<>>
               /\ dashAuth(request) \in request.for
               /\ Matching(request.call) = request.for
    BY Zenon, <2>3, CallersReachTheirHandler DEF IsLabel
  <2> QED BY Zenon, <1>1, <2>1, <2>2, <2>3 DEF RouterInv, RoutingIsSound
<1> QED BY <1>1, RouterInvariant, PTL
=============================================================================
