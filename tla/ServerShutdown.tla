---------------------------- MODULE ServerShutdown ----------------------------
(***************************************************************************)
(* How the server stops on a signal (cmd/server.go, server.go): a          *)
(* goroutine calls Close, which shuts the HTTP server down and closes the  *)
(* store, while the main goroutine comes back from Run as soon as the      *)
(* listener is closed, and ends the process.                               *)
(***************************************************************************)
EXTENDS FiniteSets

CONSTANT InFlight   \* requests

VARIABLES main,      \* "serving" or "returned"
          closer,    \* "waiting", "shutting", "closing" or "closed"
          handled,   \* of each request: "none", "running" or "answered"
          storeOpen,
          exited

shutdownVars == <<main, closer, handled, storeOpen, exited>>

ShutdownInit ==
    /\ main = "serving" /\ closer = "waiting" /\ handled = [q \in InFlight |-> "none"]
    /\ storeOpen = TRUE /\ exited = FALSE

Accept(q) ==
    /\ ~exited /\ closer = "waiting" /\ handled[q] = "none"
    /\ handled' = [handled EXCEPT ![q] = "running"]
    /\ UNCHANGED <<main, closer, storeOpen, exited>>

Finish(q) ==
    /\ ~exited /\ handled[q] = "running"
    /\ handled' = [handled EXCEPT ![q] = "answered"]
    /\ UNCHANGED <<main, closer, storeOpen, exited>>

\* The signal's goroutine calls Close, and Shutdown closes the listener.
Signal ==
    /\ ~exited /\ closer = "waiting" /\ closer' = "shutting"
    /\ UNCHANGED <<main, handled, storeOpen, exited>>

\* ListenAndServe returns ErrServerClosed, and so do Run and the command.
RunReturns ==
    /\ ~exited /\ main = "serving" /\ closer # "waiting" /\ main' = "returned"
    /\ UNCHANGED <<closer, handled, storeOpen, exited>>

\* Shutdown returns when no request runs, or after five seconds.
Shutdown ==
    /\ ~exited /\ closer = "shutting" /\ closer' = "closing"
    /\ UNCHANGED <<main, handled, storeOpen, exited>>

StoreClose ==
    /\ ~exited /\ closer = "closing" /\ closer' = "closed" /\ storeOpen' = FALSE
    /\ UNCHANGED <<main, handled, exited>>

\* main.main ends, or os.Exit is called.
Exit ==
    /\ ~exited /\ (main = "returned" \/ closer = "closed")
    /\ exited' = TRUE
    /\ UNCHANGED <<main, closer, handled, storeOpen>>

ShutdownNext == \/ Signal \/ RunReturns \/ Shutdown \/ StoreClose \/ Exit
                \/ \E q \in InFlight : Accept(q) \/ Finish(q)
-----------------------------------------------------------------------------
\* server.go:139: "Close cleanly shuts down the server and store."  The process that
\* called it ends with its store closed.
StoreIsClosed == exited => ~storeOpen
=============================================================================
