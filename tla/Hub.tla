-------------------------------- MODULE Hub --------------------------------
(***************************************************************************)
(* The server's table of tunnel sessions (internal/server/hub.go).  It     *)
(* maps a subdomain to the session that serves it.  Every operation runs   *)
(* under Hub.mu, so each is one step; what its callers do before and after *)
(* (closing the replaced session, writing to the one they got) is theirs.  *)
(* A session is named by the connection it lives on.                       *)
(***************************************************************************)

CONSTANTS Conns,    \* connections, and so sessions
          Names,    \* subdomains
          NoConn    \* "nil": no session

ASSUME NoConnAssumption == NoConn \notin Conns

VARIABLE hub        \* Hub.sessions

HubType == hub \in [Names -> Conns \cup {NoConn}]

EmptyHub == [n \in Names |-> NoConn]

IsOnline(n) == hub[n] # NoConn

\* The swap of Register: the caller closes the session that was there.
Install(n, c) == hub' = [hub EXCEPT ![n] = c]

\* Mutant: without the identity check.
UnregisterAnyone(n, c) == hub' = [hub EXCEPT ![n] = NoConn]

\* Only the session that holds the name gives it up.
Unregister(n, c) == hub' = IF hub[n] = c THEN [hub EXCEPT ![n] = NoConn] ELSE hub
=============================================================================
