--------------------------- MODULE PipelineTracker ---------------------------
(***************************************************************************)
(* The table of active traces (internal/server/pipeline.go): handleWebhook *)
(* correlates a webhook of a pipeline under the tracker's lock, a cleanup  *)
(* goroutine evicts idle traces under the same lock, and time passes.      *)
(***************************************************************************)
EXTENDS Clock

CONSTANTS Tunnels, Pipelines,
          Traces,   \* what generateTraceID may return, random and so fresh
          NoTrace,  \* no entry
          TTL       \* correlationTTL

Keys == Tunnels \X Pipelines

Entry == [traceID : Traces, lastSeen : Nat]

ASSUME TrackerAssumption == TTL \in Nat \ {0} /\ NoTrace \notin Entry

VARIABLES activeTraces,  \* by tunnel and pipeline
          issued,        \* the ids that generateTraceID returned
          given          \* what the last webhook of each key was given, and when,
                         \* since the server was started

trackerVars == <<now, activeTraces, issued, given>>

TrackerInit ==
    /\ now = 0
    /\ activeTraces = [k \in Keys |-> NoTrace]
    /\ issued = {}
    /\ given = [k \in Keys |-> NoTrace]

Active(k) == activeTraces[k] # NoTrace

Idle(k) == now - activeTraces[k].lastSeen

\* The answer to a webhook of this key.
Give(k, id) == given' = [given EXCEPT ![k] = [traceID |-> id, lastSeen |-> now]]

\* Mutant: the entry is not refreshed.
ContinueUnseen(k) ==
    /\ Active(k) /\ Idle(k) < TTL
    /\ Give(k, activeTraces[k].traceID)
    /\ UNCHANGED <<now, activeTraces, issued>>

\* The entry is within its window: it is refreshed.
Continue(k) ==
    /\ Active(k) /\ Idle(k) < TTL
    /\ activeTraces' = [activeTraces EXCEPT ![k] =
                            [traceID |-> activeTraces[k].traceID, lastSeen |-> now]]
    /\ Give(k, activeTraces[k].traceID)
    /\ UNCHANGED <<now, issued>>

\* There is none, or it is too old.
Start(k) ==
    /\ ~(Active(k) /\ Idle(k) < TTL)
    /\ \E id \in Traces \ issued :
        /\ activeTraces' = [activeTraces EXCEPT ![k] = [traceID |-> id, lastSeen |-> now]]
        /\ issued' = issued \cup {id}
        /\ Give(k, id)
    /\ UNCHANGED now

Correlate(t, p) == LET key == <<t, p>> IN Continue(key) \/ Start(key)

\* Mutant: the operands of Sub are swapped.
StaleInFuture(k) == Active(k) /\ activeTraces[k].lastSeen - now > 2 * TTL

Stale(k) == Active(k) /\ Idle(k) > 2 * TTL

\* A round of the cleanup loop.  Rounds are a minute apart; here one may happen
\* at any time.
TrackerCleanup ==
    /\ \E k \in Keys : Stale(k)
    /\ activeTraces' = [k \in Keys |-> IF Stale(k) THEN NoTrace ELSE activeTraces[k]]
    /\ UNCHANGED <<now, issued, given>>

TrackerTick == Tick /\ UNCHANGED <<activeTraces, issued, given>>

\* The server restarts with an empty table.
TrackerRestart ==
    /\ activeTraces' = [k \in Keys |-> NoTrace]
    /\ given' = [k \in Keys |-> NoTrace]
    /\ UNCHANGED <<now, issued>>

TrackerNext == \/ \E t \in Tunnels, p \in Pipelines : Correlate(t, p)
        \/ TrackerCleanup \/ TrackerTick \/ TrackerRestart

\* The cleanup loop never ends.
TrackerSpec == TrackerInit /\ [][TrackerNext]_trackerVars /\ WF_trackerVars(TrackerCleanup)
-----------------------------------------------------------------------------
\* Eviction is invisible: the traces that webhooks get are those of a correlator that
\* remembers every webhook of each tunnel and pipeline.
Corr == INSTANCE Correlator

ImplementsCorrelator == Corr!CorrSpec

\* What Correlate's comment says: "If there's an active trace for this tunnel within the
\* TTL, returns the same trace_id."  Of two webhooks of a tunnel in one window, whatever
\* their pipelines, both get the same trace.  Correlate's key has the pipeline in it.
OneTracePerTunnel ==
    \A t \in Tunnels : \A p, q \in Pipelines :
        LET one == given[<<t, p>>]
            other == given[<<t, q>>]
        IN one # NoTrace /\ other # NoTrace /\ one.lastSeen <= other.lastSeen
             /\ other.lastSeen - one.lastSeen < TTL => one.traceID = other.traceID

\* A pipeline that falls silent does not keep its entry for ever: again and again
\* no entry is stale.
SilentTraceIsEvicted == []<>(\A k \in Keys : ~(Active(k) /\ Idle(k) > 2 * TTL))
=============================================================================
