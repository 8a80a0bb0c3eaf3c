---------------------------- MODULE NameDirectory ----------------------------
(***************************************************************************)
(* What the tunnel listener and the hub promise together, without          *)
(* handlers, locks or sockets: a name has at most one holder; a newcomer   *)
(* under a held name takes it at once and evicts the holder; an evicted    *)
(* connection never disturbs the name again and is sooner or later gone.   *)
(***************************************************************************)
CONSTANTS Conns, Names, NoConn

VARIABLES holder,   \* who holds each name
          standing  \* what each connection is to the directory

dirVars == <<holder, standing>>

DirInit ==
    /\ holder = [n \in Names |-> NoConn]
    /\ standing = [c \in Conns |-> "out"]

\* c takes the name n, whoever holds it.
Attach(c, n) ==
    /\ standing[c] = "out"
    /\ holder' = [holder EXCEPT ![n] = c]
    /\ standing' = [d \in Conns |-> CASE d = c         -> "holding"
                                      [] d = holder[n] -> "evicted"
                                      [] OTHER         -> standing[d]]

\* The holder of n gives it up.
Detach(n) ==
    /\ holder[n] # NoConn
    /\ standing' = [standing EXCEPT ![holder[n]] = "out"]
    /\ holder' = [holder EXCEPT ![n] = NoConn]

\* An evicted connection ends; no name changes hands.
Retire(c) ==
    /\ standing[c] = "evicted"
    /\ standing' = [standing EXCEPT ![c] = "out"]
    /\ UNCHANGED holder

\* The server restarts.
Reset ==
    /\ holder' = [n \in Names |-> NoConn]
    /\ standing' = [c \in Conns |-> "out"]

DirNext ==
    \/ \E c \in Conns, n \in Names : Attach(c, n)
    \/ \E n \in Names : Detach(n)
    \/ \E c \in Conns : Retire(c)
    \/ Reset

DirSafety == DirInit /\ [][DirNext]_dirVars

DirFairness == \A c \in Conns : WF_dirVars(Retire(c))
=============================================================================
