------------------------------ MODULE ServerSetup ------------------------------
(***************************************************************************)
(* A server's key and addresses: the wizard of `pie setup`                 *)
(* (internal/setup/setup.go) stops the server, writes a new key whatever   *)
(* was there, then the configuration, and starts the service; a server     *)
(* that finds no good key makes one (server.go, loadOrCreateKey), and      *)
(* listens as its configuration says (cmd/server.go; Run); `pie login`     *)
(* keeps the key that the wizard showed, and the other commands try        *)
(* addresses (cmd/status.go).  The server is always started in the         *)
(* wizard's directory.                                                     *)
(***************************************************************************)
EXTENDS FiniteSets

CONSTANTS ServerKeys,     \* random, and so fresh
          Users,
          NoKey           \* no file, no server or no account

ASSUME KeyAssumption == NoKey \notin ServerKeys /\ "torn" \notin ServerKeys

VARIABLES keyFile,    \* NoKey, a key, or "torn": not two lines of 64 digits
          front,      \* who has port 443 else: "free", "nginx" set up for us, or "other"
          config,     \* the configuration's TLS mode, or "absent"
          wizard,     \* "idle", "asking", "saving" or "starting"
          serving,    \* the key of the server that runs
          mode,       \* its TLS mode
          stale,      \* whether one runs that started before the last key or configuration was written
          displayed,  \* the last key that the wizard showed
          saved,      \* whether that was written
          pinned,     \* by user, the key of the active account
          made        \* keys made so far

keyVars == <<keyFile, front, config, wizard, serving, mode, stale, displayed, saved, pinned, made>>

KeyInit ==
    /\ keyFile = NoKey /\ front = "free" /\ config = "absent" /\ wizard = "idle"
    /\ serving = NoKey /\ mode = "none" /\ stale = FALSE /\ displayed = NoKey /\ saved = FALSE
    /\ pinned = [u \in Users |-> NoKey] /\ made = {}

\* Run tries to stop the server before its first question, and does not look at the
\* errors of systemctl and pkill: a server that is not its user's goes on.
SetupBegins ==
    /\ wizard = "idle" /\ wizard' = "asking"
    /\ serving' \in {NoKey, serving} /\ stale' = (stale /\ serving' # NoKey)
    /\ UNCHANGED <<keyFile, front, config, mode, displayed, saved, pinned, made>>

\* A question is aborted, or the configuration cannot be written.
SetupAborts ==
    /\ wizard # "idle" /\ wizard' = "idle"
    /\ UNCHANGED <<keyFile, front, config, serving, mode, stale, displayed, saved, pinned, made>>

\* The key, behind the questions.  WriteFile truncates, then writes; Run does not
\* look at its error, and shows the key in any case.
SetupKey ==
    /\ wizard = "asking" /\ wizard' = "saving"
    /\ \E k \in ServerKeys \ made :
        /\ made' = made \cup {k} /\ displayed' = k
        /\ keyFile' \in {k, keyFile, "torn"} /\ saved' = (keyFile' = k)
    /\ stale' = (serving # NoKey) /\ UNCHANGED <<front, config, serving, mode, pinned>>

\* Without a token, or with a certificate that does not load, there is no TLS.  A
\* wildcard certificate that is not issued changes nothing.
wizardCloudflare == {"cloudflare", "none"}
wizardManualCert == {"manual", "none"}

\* Port 443 is free, or nginx was asked to leave it: then the TLS mode is chosen.
\* Else nginx is set up to pass on to :8080, if its test succeeds, or a stranger stays.
Answers ==
    LET chosen == {"auto", "none"} \cup wizardCloudflare \cup wizardManualCert
    IN {[front |-> "free", mode |-> m] : m \in chosen}
       \cup {[front |-> f, mode |-> "none"] : f \in {"nginx", "other"}}

\* The questions' outcome is written, and nginx's part of it.
SetupConfig ==
    /\ wizard = "saving" /\ wizard' = "starting"
    /\ \E a \in Answers : front' = a.front /\ config' = a.mode
    /\ stale' = (serving # NoKey) /\ UNCHANGED <<keyFile, serving, mode, displayed, saved, pinned, made>>

\* Mutant: the file's end is counted as a line of its own, and no key is good.
NeverGood == FALSE

GoodKey == keyFile \in ServerKeys

\* A good key is used; else one is made and written.
loadOrCreateKey(key) ==
    \/ GoodKey /\ key = keyFile /\ UNCHANGED <<keyFile, made>>
    \/ ~GoodKey /\ \E k \in ServerKeys \ made :
           /\ made' = made \cup {k}
           /\ \/ keyFile' = k /\ key = k
              \/ keyFile' = "torn" /\ key = NoKey

\* The key comes before the ports, which another server that runs has taken.
StartServer(m) ==
    \E key \in ServerKeys \cup {NoKey} :
        /\ loadOrCreateKey(key)
        /\ IF serving = NoKey THEN serving' = key /\ mode' = m /\ stale' = FALSE
           ELSE UNCHANGED <<serving, mode, stale>>

\* The unit is written and started with the configuration, unless it runs already, or
\* the user is told to.
SetupService ==
    /\ wizard = "starting" /\ wizard' = "idle"
    /\ StartServer(config) \/ UNCHANGED <<keyFile, serving, mode, stale, made>>
    /\ UNCHANGED <<front, config, displayed, saved, pinned>>

\* By hand, with or without the configuration, or by systemd after a crash; the wizard
\* does not keep anybody from it.
ServerStarts ==
    /\ \E m \in {"none"} \cup (IF config = "absent" THEN {} ELSE {config}) : StartServer(m)
    /\ UNCHANGED <<front, config, wizard, displayed, saved, pinned>>

ServerStops ==
    /\ serving # NoKey /\ serving' = NoKey /\ stale' = FALSE
    /\ UNCHANGED <<keyFile, front, config, wizard, mode, displayed, saved, pinned, made>>

\* With the key that the wizard showed.
Login(u) ==
    /\ displayed # NoKey /\ pinned' = [pinned EXCEPT ![u] = displayed]
    /\ UNCHANGED <<keyFile, front, config, wizard, serving, mode, stale, displayed, saved, made>>

KeyNext == \/ SetupBegins \/ SetupAborts \/ SetupKey \/ SetupConfig \/ SetupService
           \/ ServerStarts \/ ServerStops
           \/ \E u \in Users : Login(u)

KeySpec == KeyInit /\ [][KeyNext]_keyVars
-----------------------------------------------------------------------------
\* Where the API is: Run listens on :443 for TLS and on :8080 without, and nginx
\* passes on what comes to its :443.
ApiBases == IF serving = NoKey THEN {}
            ELSE IF mode # "none" THEN {"https://:443"}
            ELSE {"http://:8080"} \cup (IF front = "nginx" THEN {"https://:443"} ELSE {})

\* The first one where /healthz gets any answer.
resolveHTTPAddrFromAccount ==
    IF front # "free" \/ "https://:443" \in ApiBases \/ "http://:8080" \notin ApiBases
    THEN "https://:443" ELSE "http://:8080"

\* Who has the key that the last setup showed and wrote reaches every server that is
\* started behind it, over crashes and aborted wizards, and wherever else servers are
\* started meanwhile: the handshake agrees on the key, and the commands find the API
\* unless a stranger has :443.  Of a server that the wizard could not stop, or that was
\* started before the wizard was through, nothing is said: it keeps the old key.
LoginReachesServer ==
    \A u \in Users : (saved /\ pinned[u] = displayed /\ serving # NoKey /\ ~stale) =>
        /\ pinned[u] = serving
        /\ front # "other" => resolveHTTPAddrFromAccount \in ApiBases
=============================================================================
