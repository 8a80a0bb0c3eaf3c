------------------------ MODULE TunnelListener_proofs ------------------------
(***************************************************************************)
(* The tunnel listener's safety, for any sets of clients, connections and  *)
(* names: its types, what the hub maps to, that a takeover leaves no live  *)
(* session behind, that what is online has a row, that the listener        *)
(* implements the directory, and that where no goroutine can go on nobody  *)
(* is evicted, absent or unserved.                                         *)
(***************************************************************************)
EXTENDS TunnelListener, TLAPS

\* A handler past the hello has a real name.
Placed == {"lookup", "create", "suffixed", "welcome", "register"} \cup Registered

PlacedHasName == \A c \in Conns : pc[c] \in Placed => sub[c] \in Names

\* Only a handler inside hub.Register has a session to close, never its own.
OnlyRegisterCloses ==
    \A c \in Conns : toClose[c] # NoConn => pc[c] = "closeOld" /\ toClose[c] # c

\* A name that was found or created keeps its row while nobody deletes it.
WelcomedHasRow ==
    "delete" \notin AdminOps =>
        \A c \in Conns : pc[c] \in {"welcome"} \cup Welcomed => sub[c] \in rows

IInv == /\ TypeOK
        /\ PlacedHasName
        /\ HolderServes
        /\ OnlyRegisterCloses
        /\ SupersededIsClosing
        /\ WelcomedHasRow

USE NoConnAssumption, NamesAssumption

LEMMA InitIInv == Init => IInv
  BY DEF Init, IInv, TypeOK, HubType, EmptyHub, PCs, PlacedHasName, Placed, Registered,
         HolderServes, IsOnline, OnlyRegisterCloses, SupersededIsClosing, WelcomedHasRow,
         Welcomed

\* The steps of a client and of the keepalive touch no name and no handler,
\* except that a dialled connection's handler starts.
LEMMA ClientStep ==
  ASSUME IInv, NEW cl \in Clients, Dial(cl) \/ ReadAuthOK(cl) \/ Disconnect(cl)
  PROVE  IInv'
<1> USE DEF IInv, TypeOK, HubType, PCs, serverVars, Welcomed
<1>1. CASE Dial(cl)
  <2>1. PICK c \in Conns :
            /\ Unused(c)
            /\ pc' = [pc EXCEPT ![c] = "handshake"]
            /\ sub' = [sub EXCEPT ![c] = want[cl]]
            /\ peer' = [peer EXCEPT ![c] = "waiting"]
            /\ conn' = [conn EXCEPT ![cl] = c]
            /\ UNCHANGED <<hub, rows, open, toClose, want>>
    BY <1>1 DEF Dial
  <2>2. pc[c] = "idle"
    BY <2>1 DEF Unused
  <2>3. TypeOK'
    BY <2>1
  <2>4. PlacedHasName' /\ OnlyRegisterCloses' /\ WelcomedHasRow'
    BY <2>1, <2>2 DEF PlacedHasName, Placed, Registered, OnlyRegisterCloses, WelcomedHasRow
  <2>5. HolderServes'
    BY <2>1, <2>2 DEF HolderServes, IsOnline, Registered
  <2>6. SupersededIsClosing'
    BY <2>1, <2>2 DEF SupersededIsClosing
  <2> QED BY <2>3, <2>4, <2>5, <2>6
<1>2. CASE ReadAuthOK(cl) \/ Disconnect(cl)
  <2>1. UNCHANGED <<hub, rows, pc, sub, open, toClose>>
    BY <1>2 DEF ReadAuthOK, Disconnect
  <2>2. CASE ReadAuthOK(cl)
    <3>1. conn[cl] \in Conns /\ sub[conn[cl]] \in Names
      BY <2>2 DEF ReadAuthOK, PlacedHasName, Placed, Registered
    <3>2. TypeOK'
      BY <2>1, <2>2, <3>1 DEF ReadAuthOK
    <3> QED BY <2>1, <3>2 DEF PlacedHasName, HolderServes, IsOnline, OnlyRegisterCloses,
                              SupersededIsClosing, WelcomedHasRow
  <2>3. CASE Disconnect(cl)
    <3>1. TypeOK'
      BY <2>1, <2>3 DEF Disconnect
    <3> QED BY <2>1, <3>1 DEF PlacedHasName, HolderServes, IsOnline, OnlyRegisterCloses,
                              SupersededIsClosing, WelcomedHasRow
  <2> QED BY <1>2, <2>2, <2>3
<1> QED BY <1>1, <1>2

\* Up to the AuthOK a handler changes its own pc, name and session, and adds rows.
LEMMA PlacingStep ==
  ASSUME IInv, NEW c \in Conns,
         \/ Handshake(c) \/ ReadHello(c) \/ Lookup(c) \/ Create(c)
         \/ CreateSuffixed(c) \/ Welcome(c)
  PROVE  IInv'
<1> USE DEF IInv, TypeOK, HubType, PCs, clientVars, Goto, Return
<1>1. /\ pc[c] \notin Registered /\ pc'[c] \in PCs \ Registered
      /\ pc' \in [Conns -> PCs]
      /\ sub' \in [Conns -> Names \cup {NoName}]
      /\ open' \subseteq Conns
      /\ \A d \in Conns \ {c} : pc'[d] = pc[d] /\ sub'[d] = sub[d] /\ (d \in open' <=> d \in open)
      /\ rows \subseteq rows' /\ rows' \subseteq Names
      /\ UNCHANGED <<hub, toClose, peer, conn, want>>
  <2>1. CASE Handshake(c)
    BY <2>1 DEF Handshake, Registered
  <2>2. CASE ReadHello(c)
    BY <2>2 DEF ReadHello, Registered
  <2>3. CASE Lookup(c)
    BY <2>3 DEF Lookup, Registered
  <2>4. CASE Create(c)
    BY <2>4 DEF Create, InsertRow, InsertFails, PlacedHasName, Placed, Registered
  <2>5. CASE CreateSuffixed(c)
    BY <2>5 DEF CreateSuffixed, InsertRow, InsertFails, PlacedHasName, Placed, Registered
  <2>6. CASE Welcome(c)
    BY <2>6 DEF Welcome, Registered
  <2> QED BY <2>1, <2>2, <2>3, <2>4, <2>5, <2>6
<1>3. TypeOK'
  BY <1>1
<1>4. PlacedHasName'
  <2>1. pc'[c] \in Placed => sub'[c] \in Names
    BY DEF Handshake, ReadHello, Lookup, Create, CreateSuffixed, Welcome,
           PlacedHasName, Placed, Registered
  <2> QED BY <1>1, <2>1 DEF PlacedHasName
<1>5. HolderServes'
  BY <1>1 DEF HolderServes, IsOnline
<1>6. OnlyRegisterCloses'
  BY <1>1 DEF OnlyRegisterCloses, Registered
<1>7. SupersededIsClosing'
  BY <1>1 DEF SupersededIsClosing, Registered
<1>8. WelcomedHasRow'
  <2>1. "delete" \notin AdminOps /\ pc'[c] \in {"welcome"} \cup Welcomed => sub'[c] \in rows'
    BY DEF Handshake, ReadHello, Lookup, Create, CreateSuffixed, Welcome, InsertRow,
           InsertFails, WelcomedHasRow, Welcomed, PlacedHasName, Placed, Registered
  <2> QED BY <1>1, <2>1 DEF WelcomedHasRow
<1> QED BY <1>3, <1>4, <1>5, <1>6, <1>7, <1>8

\* hub.Register: the session it replaces is the one it is about to close.
LEMMA RegisterStep ==
  ASSUME IInv, NEW c \in Conns, Register(c)
  PROVE  IInv'
<1> USE DEF IInv, TypeOK, HubType, PCs, clientVars, Goto, Register, Install, IsOnline
<1>1. sub[c] \in Names /\ toClose[c] = NoConn /\ pc[c] = "register"
  BY DEF PlacedHasName, Placed, OnlyRegisterCloses
<1>2. hub[sub[c]] # c
  BY <1>1 DEF HolderServes, Registered
<1>3. TypeOK'
  BY <1>1
<1>4. PlacedHasName'
  BY DEF PlacedHasName, Placed, Registered
<1>5. HolderServes'
  BY <1>1 DEF HolderServes, Registered
<1>6. OnlyRegisterCloses'
  BY <1>1, <1>2 DEF OnlyRegisterCloses
<1>7. SupersededIsClosing'
  <2> SUFFICES ASSUME NEW d \in Conns, pc'[d] \in {"closeOld", "reading"},
                      hub'[sub'[d]] # d, d \in open'
               PROVE  \E e \in Conns : toClose'[e] = d
    BY DEF SupersededIsClosing
  <2>1. d # c /\ pc'[d] = pc[d] /\ sub[d] \in Names
    BY <1>1 DEF PlacedHasName, Placed, Registered
  <2>2. CASE hub[sub[d]] = d
    BY <1>1, <2>1, <2>2
  <2>3. CASE hub[sub[d]] # d
    BY <1>1, <2>1, <2>3 DEF SupersededIsClosing
  <2> QED BY <2>2, <2>3
<1>8. WelcomedHasRow'
  BY DEF WelcomedHasRow, Welcomed
<1> QED BY <1>3, <1>4, <1>5, <1>6, <1>7, <1>8

LEMMA CloseOldStep ==
  ASSUME IInv, NEW c \in Conns, CloseOld(c)
  PROVE  IInv'
<1> USE DEF IInv, TypeOK, HubType, PCs, clientVars, Goto, CloseOld
<1>1. TypeOK'
  OBVIOUS
<1>2. PlacedHasName' /\ OnlyRegisterCloses' /\ WelcomedHasRow'
  BY DEF PlacedHasName, Placed, Registered, OnlyRegisterCloses, WelcomedHasRow, Welcomed
<1>3. HolderServes'
  BY DEF HolderServes, IsOnline, Registered
<1>4. SupersededIsClosing'
  BY DEF SupersededIsClosing
<1> QED BY <1>1, <1>2, <1>3, <1>4

LEMMA ReadFailsStep ==
  ASSUME IInv, NEW c \in Conns, ReadFails(c)
  PROVE  IInv'
<1> USE DEF IInv, TypeOK, HubType, PCs, clientVars, Goto, ReadFails
<1>1. TypeOK'
  OBVIOUS
<1>2. PlacedHasName' /\ OnlyRegisterCloses' /\ WelcomedHasRow'
  BY DEF PlacedHasName, Placed, Registered, OnlyRegisterCloses, WelcomedHasRow, Welcomed
<1>3. HolderServes'
  BY DEF HolderServes, IsOnline, Registered
<1>4. SupersededIsClosing'
  BY DEF SupersededIsClosing
<1> QED BY <1>1, <1>2, <1>3, <1>4

\* hub.Unregister takes out the handler's own session or none.
LEMMA LeaveStep ==
  ASSUME IInv, NEW c \in Conns, Leave(c)
  PROVE  IInv'
<1> USE DEF IInv, TypeOK, HubType, PCs, clientVars, Goto, Return, Leave, Unregister
<1>1. sub[c] \in Names /\ pc[c] = "unregister" /\ toClose[c] = NoConn
  BY DEF PlacedHasName, Placed, Registered, OnlyRegisterCloses
<1>2. TypeOK'
  BY <1>1
<1>3. PlacedHasName' /\ OnlyRegisterCloses' /\ WelcomedHasRow'
  BY <1>1 DEF PlacedHasName, Placed, Registered, OnlyRegisterCloses, WelcomedHasRow, Welcomed
<1>4. HolderServes'
  BY <1>1 DEF HolderServes, IsOnline, Registered
<1>5. SupersededIsClosing'
  BY <1>1 DEF SupersededIsClosing
<1> QED BY <1>2, <1>3, <1>4, <1>5

LEMMA EnvironmentStep ==
  ASSUME IInv,
         \/ \E c \in Conns : KeepaliveFails(c)
         \/ \E n \in Names : ApiCreate(n) \/ ApiDelete(n)
         \/ Restart
  PROVE  IInv'
<1> USE DEF IInv, TypeOK, HubType, PCs, clientVars
<1>1. ASSUME NEW c \in Conns, KeepaliveFails(c) PROVE IInv'
  <2> USE <1>1 DEF KeepaliveFails
  <2>1. TypeOK'
    OBVIOUS
  <2>2. PlacedHasName' /\ OnlyRegisterCloses' /\ WelcomedHasRow' /\ HolderServes'
    BY DEF PlacedHasName, OnlyRegisterCloses, WelcomedHasRow, HolderServes, IsOnline
  <2>3. SupersededIsClosing'
    BY DEF SupersededIsClosing
  <2> QED BY <2>1, <2>2, <2>3
<1>2. ASSUME NEW n \in Names, ApiCreate(n) \/ ApiDelete(n) PROVE IInv'
  <2> USE <1>2 DEF ApiCreate, ApiDelete, InsertRow
  <2>1. TypeOK'
    OBVIOUS
  <2>2. PlacedHasName' /\ OnlyRegisterCloses' /\ HolderServes'
    BY DEF PlacedHasName, OnlyRegisterCloses, HolderServes, IsOnline
  <2>3. SupersededIsClosing' /\ WelcomedHasRow'
    BY DEF SupersededIsClosing, WelcomedHasRow
  <2> QED BY <2>1, <2>2, <2>3
<1>3. CASE Restart
  <2> USE <1>3 DEF Restart, EmptyHub
  <2>1. TypeOK'
    OBVIOUS
  <2>2. PlacedHasName' /\ OnlyRegisterCloses' /\ WelcomedHasRow'
    BY DEF PlacedHasName, Placed, Registered, OnlyRegisterCloses, WelcomedHasRow, Welcomed
  <2>3. HolderServes' /\ SupersededIsClosing'
    BY DEF HolderServes, IsOnline, SupersededIsClosing
  <2> QED BY <2>1, <2>2, <2>3
<1> QED BY <1>1, <1>2, <1>3

LEMMA StutterStep == IInv /\ UNCHANGED vars => IInv'
  BY DEF IInv, vars, serverVars, clientVars, TypeOK, HubType, PlacedHasName, HolderServes,
         IsOnline, OnlyRegisterCloses, SupersededIsClosing, WelcomedHasRow

\* The strengthened invariant is one of the listener.
THEOREM Invariance == Spec => []IInv
<1>1. IInv /\ [Next]_vars => IInv'
  <2> SUFFICES ASSUME IInv, [Next]_vars PROVE IInv'
    OBVIOUS
  <2>1. ASSUME NEW cl \in Clients, Dial(cl) \/ ReadAuthOK(cl) \/ Disconnect(cl)
        PROVE  IInv'
    BY <2>1, ClientStep
  <2>2. ASSUME NEW c \in Conns, Handler(c)
        PROVE  IInv'
    BY <2>2, PlacingStep, RegisterStep, CloseOldStep, ReadFailsStep, LeaveStep DEF Handler
  <2>3. CASE \/ \E c \in Conns : KeepaliveFails(c)
             \/ \E n \in Names : ApiCreate(n) \/ ApiDelete(n)
             \/ Restart
    BY <2>3, EnvironmentStep
  <2>4. CASE UNCHANGED vars
    BY <2>4, StutterStep
  <2> QED BY <2>1, <2>2, <2>3, <2>4 DEF Next
<1> QED BY <1>1, InitIInv, PTL DEF Spec

\* Every variable keeps its type.
THEOREM TypeCorrect == Spec => []TypeOK
  BY Invariance, PTL DEF IInv

\* The hub never maps a name to a session that nobody reads from: an entry's
\* handler is between its Register and its Unregister, for that name.
THEOREM HolderServesAlways == Spec => []HolderServes
  BY Invariance, PTL DEF IInv

\* However registrations, departures and restarts interleave, a session that
\* lost its name is closed or about to be closed by the handler that took it.
THEOREM NoLiveSessionLeftBehind == Spec => []SupersededIsClosing
  BY Invariance, PTL DEF IInv

\* What is online can be found in the store, if tunnels are never deleted.
THEOREM OnlineAlwaysHasRow == Spec => []OnlineHasRow
<1>1. IInv => OnlineHasRow
  BY DEF IInv, TypeOK, HubType, HolderServes, IsOnline, WelcomedHasRow, Welcomed, Registered,
         OnlineHasRow
<1> QED BY <1>1, Invariance, PTL
-----------------------------------------------------------------------------
\* Steps that change neither the hub nor who is registered are invisible to
\* the directory.
LEMMA Invisible ==
  ASSUME UNCHANGED hub, \A d \in Conns : pc'[d] \in Registered <=> pc[d] \in Registered
  PROVE  UNCHANGED Directory!dirVars
  BY DEF Standing, Directory!dirVars

\* A holder has no other name.
LEMMA HolderStands ==
  ASSUME IInv, NEW c \in Conns, NEW n \in Names, hub[n] = c
  PROVE  n = sub[c] /\ Standing[c] = "holding"
  BY DEF IInv, HolderServes, IsOnline, Standing

LEMMA RegisterAttaches ==
  ASSUME IInv, IInv', NEW c \in Conns, Register(c)
  PROVE  Directory!Attach(c, sub[c])
<1> USE DEF IInv, TypeOK, HubType, Goto, Register, Install, IsOnline
<1>1. sub[c] \in Names /\ pc[c] = "register"
  BY DEF PlacedHasName, Placed
<1>2. hub' = [hub EXCEPT ![sub[c]] = c] /\ hub[sub[c]] # c
  BY <1>1 DEF HolderServes, Registered
<1>3. Standing[c] = "out"
  BY <1>1 DEF HolderServes, Standing, Registered
<1>4. \A d \in Conns : Standing'[d] = CASE d = c           -> "holding"
                                        [] d = hub[sub[c]] -> "evicted"
                                        [] OTHER           -> Standing[d]
  <2> SUFFICES ASSUME NEW d \in Conns
               PROVE  Standing'[d] = CASE d = c           -> "holding"
                                       [] d = hub[sub[c]] -> "evicted"
                                       [] OTHER           -> Standing[d]
    OBVIOUS
  <2>1. CASE d = c
    <3>1. hub'[sub[c]] = c
      BY <1>1
    <3>2. Standing'[c] = "holding"
      BY <1>1, <3>1 DEF Standing
    <3> QED BY <1>2, <2>1, <3>2
  <2>2. CASE d # c /\ d = hub[sub[c]]
    <3>1. pc'[d] \in Registered
      BY <1>1, <2>2 DEF HolderServes
    <3>2. \A n \in Names : hub'[n] # d
      BY <1>1, <2>2 DEF HolderServes
    <3> QED BY <2>2, <3>1, <3>2 DEF Standing
  <2>3. CASE d # c /\ d # hub[sub[c]]
    <3>1. pc'[d] = pc[d] /\ \A n \in Names : hub'[n] = d <=> hub[n] = d
      BY <1>1, <2>3
    <3> QED BY <2>3, <3>1 DEF Standing
  <2> QED BY <2>1, <2>2, <2>3
<1> QED BY <1>1, <1>2, <1>3, <1>4 DEF Directory!Attach, Standing

\* A handler's Unregister frees its own name, or changes no name at all.
LEMMA LeaveDetachesOrRetires ==
  ASSUME IInv, NEW c \in Conns, Leave(c)
  PROVE  Directory!Detach(sub[c]) \/ Directory!Retire(c)
<1> USE DEF IInv, TypeOK, HubType, PCs, Goto, Return, Leave, Unregister
<1>1. sub[c] \in Names /\ pc[c] = "unregister"
  BY DEF PlacedHasName, Placed, Registered
<1>2. \A n \in Names : hub'[n] # c
  BY <1>1 DEF HolderServes, IsOnline
<1>3. \A d \in Conns : Standing'[d] = IF d = c THEN "out" ELSE Standing[d]
  <2> SUFFICES ASSUME NEW d \in Conns
               PROVE  Standing'[d] = IF d = c THEN "out" ELSE Standing[d]
    OBVIOUS
  <2>1. CASE d = c
    BY <1>2, <2>1 DEF Standing, Registered
  <2>2. CASE d # c
    <3>1. pc'[d] = pc[d] /\ \A n \in Names : hub'[n] = d <=> hub[n] = d
      BY <1>1, <2>2
    <3> QED BY <2>2, <3>1 DEF Standing
  <2> QED BY <2>1, <2>2
<1>4. CASE hub[sub[c]] = c
  <2>1. hub' = [hub EXCEPT ![sub[c]] = NoConn] /\ hub[sub[c]] # NoConn
    BY <1>1, <1>4
  <2>2. /\ Standing = [d \in Conns |-> Standing[d]]
        /\ Standing' = [d \in Conns |-> Standing'[d]]
    BY DEF Standing
  <2>3. Standing' = [Standing EXCEPT ![hub[sub[c]]] = "out"]
    BY <1>3, <1>4, <2>2
  <2> QED BY <2>1, <2>3 DEF Directory!Detach
<1>5. CASE hub[sub[c]] # c
  <2>1. Standing[c] = "evicted"
    BY <1>1, <1>5 DEF HolderServes, IsOnline, Standing, Registered
  <2> QED BY <1>3, <1>5, <2>1 DEF Directory!Retire, Standing
<1> QED BY <1>4, <1>5

\* The listener implements the directory: one holder per name, an immediate
\* takeover, and no handler that disturbs its successor.
THEOREM ListenerImplementsDirectory == Spec => ImplementsDirectory
<1>1. Init => Directory!DirInit
  BY DEF Init, EmptyHub, Standing, Registered, Directory!DirInit
<1>2. IInv /\ IInv' /\ [Next]_vars => [Directory!DirNext]_(Directory!dirVars)
  <2> SUFFICES ASSUME IInv, IInv', [Next]_vars
               PROVE  [Directory!DirNext]_(Directory!dirVars)
    OBVIOUS
  <2> USE DEF IInv, TypeOK, Goto, Return, serverVars, clientVars
  <2>1. ASSUME NEW cl \in Clients, Dial(cl) \/ ReadAuthOK(cl) \/ Disconnect(cl)
        PROVE  UNCHANGED Directory!dirVars
    BY <2>1, Invisible DEF Dial, Unused, ReadAuthOK, Disconnect, Registered
  <2>2. ASSUME NEW c \in Conns, \/ Handshake(c) \/ ReadHello(c) \/ Lookup(c) \/ Create(c)
                                \/ CreateSuffixed(c) \/ Welcome(c)
        PROVE  UNCHANGED Directory!dirVars
    BY <2>2, Invisible DEF Handshake, ReadHello, Lookup, Create, CreateSuffixed, Welcome,
                           Registered
  <2>3. ASSUME NEW c \in Conns, CloseOld(c) \/ ReadFails(c)
        PROVE  UNCHANGED Directory!dirVars
    BY <2>3, Invisible DEF CloseOld, ReadFails, Registered
  <2>4. ASSUME NEW c \in Conns, Register(c)
        PROVE  Directory!DirNext
    <3>1. sub[c] \in Names
      BY <2>4 DEF Register, PlacedHasName, Placed
    <3> QED BY <2>4, <3>1, RegisterAttaches DEF Directory!DirNext
  <2>5. ASSUME NEW c \in Conns, Leave(c)
        PROVE  Directory!DirNext
    <3>1. sub[c] \in Names
      BY <2>5 DEF Leave, PlacedHasName, Placed, Registered
    <3> QED BY <2>5, <3>1, LeaveDetachesOrRetires DEF Directory!DirNext
  <2>6. ASSUME NEW c \in Conns, KeepaliveFails(c)
        PROVE  UNCHANGED Directory!dirVars
    BY <2>6, Invisible DEF KeepaliveFails
  <2>7. ASSUME NEW n \in Names, ApiCreate(n) \/ ApiDelete(n)
        PROVE  UNCHANGED Directory!dirVars
    BY <2>7, Invisible DEF ApiCreate, ApiDelete
  <2>8. CASE Restart
    BY <2>8 DEF Restart, EmptyHub, Standing, Registered, Directory!Reset, Directory!DirNext
  <2>9. CASE UNCHANGED vars
    BY <2>9, Invisible DEF vars
  <2> QED BY <2>1, <2>2, <2>3, <2>4, <2>5, <2>6, <2>7, <2>8, <2>9 DEF Next, Handler
<1> QED BY <1>1, <1>2, Invariance, PTL DEF Spec, ImplementsDirectory, Directory!DirSafety
-----------------------------------------------------------------------------
(***************************************************************************)
(* The parts of EvictedEnds, GhostLeaves and WelcomedIsServed that need no *)
(* fairness: where no goroutine can go on, all is in order.                *)
(***************************************************************************)

\* No handler can take a step: each is over or waits for its live client's next frame.
HandlersRest == \A c \in Conns : \/ pc[c] = "idle"
                                 \/ pc[c] = "reading" /\ ~Broken(c)

\* No client has a close to notice.
ClientsRest == \A cl \in Clients : conn[cl] # NoConn => ~ServerEndClosed(conn[cl])

\* A session is its handler's: there is none before the handshake or after the return.
SessionsHaveHandlers == \A c \in open : pc[c] \notin {"idle", "handshake"}

LEMMA SessionsStep == IInv /\ SessionsHaveHandlers /\ [Next]_vars => SessionsHaveHandlers'
<1> SUFFICES ASSUME IInv, SessionsHaveHandlers, [Next]_vars PROVE SessionsHaveHandlers'
  OBVIOUS
<1> USE DEF IInv, TypeOK, SessionsHaveHandlers, Goto, Return, clientVars, serverVars
<1>1. ASSUME NEW cl \in Clients, Dial(cl) PROVE SessionsHaveHandlers'
  BY <1>1 DEF Dial, Unused
<1>2. ASSUME NEW cl \in Clients, ReadAuthOK(cl) \/ Disconnect(cl) PROVE SessionsHaveHandlers'
  BY <1>2 DEF ReadAuthOK, Disconnect
<1>3. ASSUME NEW c \in Conns, Handler(c) PROVE SessionsHaveHandlers'
  <2>1. \A d \in Conns \ {c} : pc'[d] = pc[d] /\ (d \in open' => d \in open)
    BY <1>3 DEF Handler, Handshake, ReadHello, Lookup, Create, CreateSuffixed, Welcome,
                Register, CloseOld, ReadFails, Leave
  <2>2. pc'[c] = "idle" => c \notin open'
    BY <1>3 DEF Handler, Handshake, ReadHello, Lookup, Create, CreateSuffixed, Welcome,
                Register, CloseOld, ReadFails, Leave
  <2>3. pc'[c] # "handshake"
    BY <1>3 DEF Handler, Handshake, ReadHello, Lookup, Create, CreateSuffixed, Welcome,
                Register, CloseOld, ReadFails, Leave
  <2>4. open' \subseteq Conns
    BY <1>3 DEF Handler, Handshake, ReadHello, Lookup, Create, CreateSuffixed, Welcome,
                Register, CloseOld, ReadFails, Leave
  <2> QED BY <2>1, <2>2, <2>3, <2>4
<1>4. ASSUME NEW c \in Conns, KeepaliveFails(c) PROVE SessionsHaveHandlers'
  BY <1>4 DEF KeepaliveFails
<1>5. ASSUME NEW n \in Names, ApiCreate(n) \/ ApiDelete(n) PROVE SessionsHaveHandlers'
  BY <1>5 DEF ApiCreate, ApiDelete
<1>6. CASE Restart
  BY <1>6 DEF Restart
<1>7. CASE UNCHANGED vars
  BY <1>7 DEF vars
<1> QED BY <1>1, <1>2, <1>3, <1>4, <1>5, <1>6, <1>7 DEF Next

\* Where the handlers rest nobody is evicted and still there, and nobody is online whose
\* client is gone; where the clients have noticed every close too, each that is connected
\* is online under its name.  So there is no state in which an evicted session, a ghost or
\* an unserved client is left to itself.
THEOREM RestIsInOrder ==
  Spec => [](HandlersRest =>
                /\ \A c \in Conns : Standing[c] # "evicted"
                /\ \A n \in Names : IsOnline(n) => peer[hub[n]] # "down"
                /\ ClientsRest => \A cl \in Clients : conn[cl] # NoConn =>
                                      /\ sub[conn[cl]] \in Names
                                      /\ hub[sub[conn[cl]]] = conn[cl])
<1>1. Init => SessionsHaveHandlers
  BY DEF Init, SessionsHaveHandlers
<1>2. ASSUME IInv, SessionsHaveHandlers, HandlersRest
      PROVE  /\ \A c \in Conns : Standing[c] # "evicted"
             /\ \A n \in Names : IsOnline(n) => peer[hub[n]] # "down"
             /\ ClientsRest => \A cl \in Clients : conn[cl] # NoConn =>
                                   /\ sub[conn[cl]] \in Names
                                   /\ hub[sub[conn[cl]]] = conn[cl]
  <2>1. ASSUME NEW c \in Conns, pc[c] # "idle"
        PROVE  sub[c] \in Names /\ hub[sub[c]] = c
    <3>1. pc[c] = "reading" /\ ~Broken(c)
      BY <1>2, <2>1 DEF HandlersRest
    <3>2. sub[c] \in Names
      BY <1>2, <3>1 DEF IInv, PlacedHasName, Placed, Registered
    <3>3. \A d \in Conns : toClose[d] # c
      BY <1>2 DEF IInv, OnlyRegisterCloses, HandlersRest
    <3> QED BY <1>2, <3>1, <3>2, <3>3 DEF IInv, SupersededIsClosing, Broken
  <2>2. ASSUME NEW c \in Conns, Standing[c] = "evicted" PROVE FALSE
    <3>1. pc[c] \in Registered /\ ~\E n \in Names : hub[n] = c
      BY <2>2 DEF Standing
    <3> QED BY <2>1, <3>1 DEF Registered
  <2>3. ASSUME NEW n \in Names, IsOnline(n) PROVE peer[hub[n]] # "down"
    <3>1. hub[n] \in Conns /\ pc[hub[n]] \in Registered
      BY <1>2, <2>3 DEF IInv, TypeOK, HubType, HolderServes, IsOnline
    <3> QED BY <1>2, <3>1 DEF HandlersRest, Registered, Broken
  <2>4. ASSUME ClientsRest, NEW cl \in Clients, conn[cl] # NoConn
        PROVE  sub[conn[cl]] \in Names /\ hub[sub[conn[cl]]] = conn[cl]
    <3>1. conn[cl] \in Conns
      BY <1>2, <2>4 DEF IInv, TypeOK
    <3>2. conn[cl] \in open \/ pc[conn[cl]] = "handshake"
      BY <2>4 DEF ClientsRest, ServerEndClosed
    <3>3. pc[conn[cl]] # "idle"
      BY <1>2, <3>2 DEF SessionsHaveHandlers
    <3> QED BY <2>1, <3>1, <3>3
  <2> QED BY <2>2, <2>3, <2>4
<1> QED BY <1>1, <1>2, SessionsStep, Invariance, PTL DEF Spec
=============================================================================
