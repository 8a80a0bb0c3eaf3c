------------------------------ MODULE Correlator ------------------------------
(***************************************************************************)
(* What correlating webhooks promises, without a table and its eviction:   *)
(* a webhook joins the trace of the webhook of its key before it if that   *)
(* was less than a window ago, and else starts one that no other ever had. *)
(***************************************************************************)
EXTENDS Integers

CONSTANTS Keys,     \* what correlated webhooks have in common
          Traces,   \* trace ids
          NoTrace,  \* no webhook yet
          TTL       \* the correlation window

VARIABLES now,
          given,   \* of each key, the last webhook's trace and time
          issued   \* the ids given out so far

corrVars == <<now, given, issued>>

CorrInit ==
    /\ now = 0
    /\ given = [k \in Keys |-> NoTrace]
    /\ issued = {}

InWindow(k) == given[k] # NoTrace /\ now - given[k].lastSeen < TTL

Join(k) ==
    /\ InWindow(k)
    /\ given' = [given EXCEPT ![k] = [traceID |-> given[k].traceID, lastSeen |-> now]]
    /\ UNCHANGED <<now, issued>>

Begin(k) ==
    /\ ~InWindow(k)
    /\ \E id \in Traces \ issued :
        /\ given' = [given EXCEPT ![k] = [traceID |-> id, lastSeen |-> now]]
        /\ issued' = issued \cup {id}
    /\ UNCHANGED now

Pass == now' = now + 1 /\ UNCHANGED <<given, issued>>

\* The server restarts, which closes every window.
Forget == given' = [k \in Keys |-> NoTrace] /\ UNCHANGED <<now, issued>>

CorrNext == (\E k \in Keys : Join(k) \/ Begin(k)) \/ Pass \/ Forget

CorrSpec == CorrInit /\ [][CorrNext]_corrVars
=============================================================================
