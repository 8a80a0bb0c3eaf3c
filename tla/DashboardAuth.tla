---------------------------- MODULE DashboardAuth ----------------------------
(***************************************************************************)
(* Access to the dashboard (internal/server/dashboard_auth.go): `pie       *)
(* dashboard` asks for a token over a tunnel connection, a browser redeems *)
(* it for a session cookie, a cleanup loop forgets what expired.           *)
(***************************************************************************)
EXTENDS Clock

CONSTANTS TokenIDs, SessionIDs,  \* random, and so fresh
          Browsers,
          None,                  \* no expiry, token or cookie
          TokenTTL, SessionTTL   \* five minutes and a day

ASSUME AuthAssumption ==
    /\ TokenTTL \in Nat /\ SessionTTL \in Nat
    /\ None \notin Nat \cup [token : TokenIDs, at : Nat]

VARIABLES tokens,     \* expiry of each token in the table
          sessions,   \* expiry of each session in the table
          links,      \* the tokens that users were given
          cookie,     \* of each browser
          opened,     \* per session, the token it was opened with, and when
          born,       \* when each token was generated
          shown       \* per browser, the session by which it got a protected page, and when

authVars == <<now, tokens, sessions, links, cookie, opened, born, shown>>

AuthInit ==
    /\ now = 0
    /\ tokens = [t \in TokenIDs |-> None] /\ sessions = [s \in SessionIDs |-> None]
    /\ links = {} /\ cookie = [b \in Browsers |-> None]
    /\ opened = [s \in SessionIDs |-> None] /\ born = [t \in TokenIDs |-> None]
    /\ shown = [b \in Browsers |-> None]

GenerateToken(t) ==
    /\ born[t] = None
    /\ tokens' = [tokens EXCEPT ![t] = now + TokenTTL]
    /\ born' = [born EXCEPT ![t] = now]

\* pie dashboard connects like a client and asks; a webhook that reaches its
\* generated name first is taken for the answer, and the token is lost.
AskForToken ==
    /\ \E t \in TokenIDs : GenerateToken(t) /\ links' \in {links, links \cup {t}}
    /\ UNCHANGED <<now, sessions, cookie, opened, shown>>

Redeemable(t) == tokens[t] # None /\ now <= tokens[t]

\* Mutant: the token is left in the table.
RedeemAgain(b, t) ==
    /\ Redeemable(t)
    /\ \E s \in SessionIDs :
        /\ opened[s] = None
        /\ sessions' = [sessions EXCEPT ![s] = now + SessionTTL]
        /\ opened' = [opened EXCEPT ![s] = [token |-> t, at |-> now]]
        /\ cookie' = [cookie EXCEPT ![b] = s]
    /\ UNCHANGED <<now, tokens, links, born, shown>>

\* RedeemToken, under the lock; the browser follows the redirect with its cookie.
RedeemToken(b, t) ==
    /\ tokens' = [tokens EXCEPT ![t] = None]
    /\ \/ /\ Redeemable(t)
          /\ \E s \in SessionIDs :
              /\ opened[s] = None
              /\ sessions' = [sessions EXCEPT ![s] = now + SessionTTL]
              /\ opened' = [opened EXCEPT ![s] = [token |-> t, at |-> now]]
              /\ cookie' = [cookie EXCEPT ![b] = s]
       \/ ~Redeemable(t) /\ UNCHANGED <<sessions, opened, cookie>>
    /\ UNCHANGED <<now, links, born, shown>>

\* Mutant: whatever is in the table is valid.
KnownSession(s) == s # None /\ sessions[s] # None

ValidSession(s) == s # None /\ sessions[s] # None /\ now < sessions[s]

\* The middleware: only /ui/ is protected, and not on localhost; a token in the
\* query is looked at before the cookie.
Middleware(b, ui, localhost, t) ==
    \/ (~ui \/ localhost) /\ UNCHANGED authVars
    \/ ui /\ ~localhost /\ t # None /\ RedeemToken(b, t)
    \/ /\ ui /\ ~localhost /\ t = None
       /\ ValidSession(cookie[b])
       /\ shown' = [shown EXCEPT ![b] = [session |-> cookie[b], at |-> now]]
       /\ UNCHANGED <<now, tokens, sessions, links, cookie, opened, born>>

Browse(b) ==
    \E ui, localhost \in BOOLEAN, t \in links \cup {None} :
        Middleware(b, ui, localhost, t)

\* Mutant: only what expires now is forgotten.
WithoutExpiring(expiry) ==
    [k \in DOMAIN expiry |-> IF expiry[k] # None /\ now = expiry[k] THEN None ELSE expiry[k]]

WithoutExpired(expiry) ==
    [k \in DOMAIN expiry |-> IF expiry[k] # None /\ now > expiry[k] THEN None ELSE expiry[k]]

\* A round of the cleanup loop, which may come at any time.
AuthCleanup ==
    /\ tokens' = WithoutExpired(tokens) /\ sessions' = WithoutExpired(sessions)
    /\ <<tokens, sessions>>' # <<tokens, sessions>>
    /\ UNCHANGED <<now, links, cookie, opened, born, shown>>

AuthTick == Tick /\ UNCHANGED <<tokens, sessions, links, cookie, opened, born, shown>>

\* Tables are in memory.
AuthRestart ==
    /\ tokens' = [t \in TokenIDs |-> None] /\ sessions' = [s \in SessionIDs |-> None]
    /\ UNCHANGED <<now, links, cookie, opened, born, shown>>

AuthNext == \/ AskForToken \/ AuthCleanup \/ AuthTick \/ AuthRestart
            \/ \E b \in Browsers : Browse(b)

AuthSpec == AuthInit /\ [][AuthNext]_authVars
-----------------------------------------------------------------------------
\* "The generated link is one-time use and expires in 5 minutes"
\* (cmd/dashboard.go:33): whoever follows it how often, and whenever the cleanup
\* runs, it opens one session, in time.
LinkIsOneTime ==
    \A s \in SessionIDs : opened[s] # None =>
        /\ opened[s].at <= born[opened[s].token] + TokenTTL
        /\ \A r \in SessionIDs \ {s} : opened[r] # None => opened[r].token # opened[s].token

\* A protected page is only shown to a browser whose session was opened less than a
\* day before, and since the server was started that has it.
PageNeedsLiveSession ==
    [][\A b \in Browsers : shown'[b] # shown[b] =>
          LET s == shown'[b].session
          IN opened[s] # None /\ now < opened[s].at + SessionTTL /\ s = cookie[b]]_shown

\* What expired does not stay in memory: again and again nothing expired is there.
ExpiredIsForgotten ==
    LET Expired(expiry) == expiry # None /\ now > expiry
    IN []<>(/\ \A t \in TokenIDs : ~Expired(tokens[t])
            /\ \A s \in SessionIDs : ~Expired(sessions[s]))
=============================================================================
