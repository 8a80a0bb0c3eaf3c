------------------------ MODULE PipelineTracker_proofs ------------------------
(***************************************************************************)
(* The tracker implements the correlator, for any window, any tunnels and  *)
(* pipelines, and however long it runs: an entry that cleanup evicts is    *)
(* always one whose window has closed.                                     *)
(***************************************************************************)
EXTENDS PipelineTracker, TLAPS

TrackerTypeOK ==
    /\ now \in Nat
    /\ activeTraces \in [Keys -> Entry \cup {NoTrace}]
    /\ issued \subseteq Traces
    /\ given \in [Keys -> Entry \cup {NoTrace}]

\* The table has the last webhook of each key, unless that was long ago.
TableAgrees ==
    \A k \in Keys : \/ activeTraces[k] = given[k]
                    \/ /\ ~Active(k)
                       /\ now - given[k].lastSeen > 2 * TTL

IInv == TrackerTypeOK /\ TableAgrees

USE TrackerAssumption

LEMMA InitIInv == TrackerInit => IInv
  BY DEF TrackerInit, IInv, TrackerTypeOK, TableAgrees

\* The two agree on whether a key's window is open, and on its trace.
LEMMA SameWindow ==
  ASSUME IInv, NEW k \in Keys
  PROVE  /\ (Active(k) /\ Idle(k) < TTL) <=> Corr!InWindow(k)
         /\ Corr!InWindow(k) => activeTraces[k] = given[k]
<1>1. CASE activeTraces[k] = given[k]
  BY <1>1 DEF Active, Idle, Corr!InWindow
<1>2. CASE ~Active(k) /\ given[k] # NoTrace /\ now - given[k].lastSeen > 2 * TTL
  <2>1. given[k].lastSeen \in Nat /\ now \in Nat
    BY <1>2 DEF IInv, TrackerTypeOK, Entry
  <2>2. ~(now - given[k].lastSeen < TTL)
    BY <1>2, <2>1
  <2> QED BY <1>2, <2>2 DEF Corr!InWindow
<1>3. CASE ~Active(k) /\ given[k] = NoTrace
  BY <1>3 DEF Corr!InWindow
<1> QED BY <1>1, <1>2, <1>3 DEF IInv, TableAgrees

\* A webhook's step, whose entry goes into the table and to the sender.
LEMMA EntryStep ==
  ASSUME IInv, NEW k \in Keys, NEW id \in Traces,
         activeTraces' = [activeTraces EXCEPT ![k] = [traceID |-> id, lastSeen |-> now]],
         Give(k, id), issued' \subseteq Traces, UNCHANGED now
  PROVE  IInv'
<1>1. [traceID |-> id, lastSeen |-> now] \in Entry
  BY DEF IInv, TrackerTypeOK, Entry
<1>2. TrackerTypeOK'
  BY <1>1 DEF IInv, TrackerTypeOK, Give
<1>3. TableAgrees'
  BY DEF IInv, TrackerTypeOK, TableAgrees, Active, Give
<1> QED BY <1>2, <1>3 DEF IInv

LEMMA ContinueStep ==
  ASSUME IInv, NEW k \in Keys, Continue(k)
  PROVE  IInv' /\ Corr!Join(k)
<1>1. activeTraces[k] \in Entry /\ activeTraces[k].traceID \in Traces
  BY DEF IInv, TrackerTypeOK, Continue, Active, Entry
<1>2. IInv'
  BY <1>1, EntryStep DEF Continue, IInv, TrackerTypeOK
<1>3. Corr!InWindow(k) /\ activeTraces[k] = given[k]
  BY SameWindow DEF Continue
<1> QED BY <1>2, <1>3 DEF Continue, Give, Corr!Join

LEMMA StartStep ==
  ASSUME IInv, NEW k \in Keys, Start(k)
  PROVE  IInv' /\ Corr!Begin(k)
<1>1. PICK id \in Traces \ issued :
        /\ activeTraces' = [activeTraces EXCEPT ![k] = [traceID |-> id, lastSeen |-> now]]
        /\ issued' = issued \cup {id}
        /\ Give(k, id)
  BY DEF Start
<1>2. IInv'
  BY <1>1, EntryStep DEF Start, IInv, TrackerTypeOK
<1>3. ~Corr!InWindow(k)
  BY SameWindow DEF Start
<1> QED BY <1>1, <1>2, <1>3 DEF Start, Give, Corr!Begin

\* Only an entry whose window is closed is evicted.
LEMMA CleanupStep ==
  ASSUME IInv, TrackerCleanup
  PROVE  IInv' /\ UNCHANGED Corr!corrVars
<1>1. TrackerTypeOK'
  BY DEF IInv, TrackerTypeOK, TrackerCleanup
<1>2. ASSUME NEW k \in Keys
      PROVE  \/ activeTraces'[k] = given'[k]
             \/ activeTraces'[k] = NoTrace /\ now' - given'[k].lastSeen > 2 * TTL
  <2>1. CASE Stale(k)
    <3>1. activeTraces[k] = given[k] /\ now - given[k].lastSeen > 2 * TTL
      BY <2>1 DEF Stale, Idle, IInv, TableAgrees
    <3> QED BY <2>1, <3>1 DEF TrackerCleanup
  <2>2. CASE ~Stale(k)
    BY <2>2 DEF TrackerCleanup, IInv, TableAgrees, Active
  <2> QED BY <2>1, <2>2
<1>3. TableAgrees'
  BY <1>2 DEF TableAgrees, Active
<1> QED BY <1>1, <1>3 DEF IInv, TrackerCleanup, Corr!corrVars

LEMMA TickStep ==
  ASSUME IInv, TrackerTick
  PROVE  IInv' /\ Corr!Pass
<1>1. TrackerTypeOK'
  BY DEF IInv, TrackerTypeOK, TrackerTick, Tick
<1>2. ASSUME NEW k \in Keys
      PROVE  \/ activeTraces'[k] = given'[k]
             \/ activeTraces'[k] = NoTrace /\ now' - given'[k].lastSeen > 2 * TTL
  <2>1. CASE given[k] = NoTrace \/ activeTraces[k] = given[k]
    BY <2>1 DEF TrackerTick, Tick, IInv, TableAgrees, Active
  <2>2. CASE given[k] \in Entry /\ ~Active(k) /\ now - given[k].lastSeen > 2 * TTL
    <3>1. given[k].lastSeen \in Nat /\ now \in Nat
      BY <2>2 DEF IInv, TrackerTypeOK, Entry
    <3> QED BY <2>2, <3>1 DEF TrackerTick, Tick, Active
  <2> QED BY <2>1, <2>2 DEF IInv, TrackerTypeOK, TableAgrees
<1>3. TableAgrees'
  BY <1>2 DEF TableAgrees, Active
<1> QED BY <1>1, <1>3 DEF IInv, TrackerTick, Tick, Corr!Pass

LEMMA RestartStep ==
  ASSUME IInv, TrackerRestart
  PROVE  IInv' /\ Corr!Forget
<1>1. TrackerTypeOK' /\ TableAgrees'
  BY DEF IInv, TrackerTypeOK, TableAgrees, TrackerRestart
<1> QED BY <1>1 DEF IInv, TrackerRestart, Corr!Forget

\* TrackerCleanup changes no trace that a webhook is given: every step of the tracker
\* is one of the correlator or a stutter.
THEOREM TrackerImplementsCorrelator == TrackerSpec => ImplementsCorrelator
<1>1. TrackerInit => IInv /\ Corr!CorrInit
  BY InitIInv DEF TrackerInit, Corr!CorrInit
<1>2. IInv /\ [TrackerNext]_trackerVars => IInv' /\ [Corr!CorrNext]_(Corr!corrVars)
  <2> SUFFICES ASSUME IInv, [TrackerNext]_trackerVars
               PROVE  IInv' /\ [Corr!CorrNext]_(Corr!corrVars)
    OBVIOUS
  <2>1. ASSUME NEW t \in Tunnels, NEW p \in Pipelines, Correlate(t, p)
        PROVE  IInv' /\ [Corr!CorrNext]_(Corr!corrVars)
    <3>1. <<t, p>> \in Keys
      BY DEF Keys
    <3>2. Continue(<<t, p>>) \/ Start(<<t, p>>)
      BY <2>1 DEF Correlate
    <3>3. IInv' /\ (Corr!Join(<<t, p>>) \/ Corr!Begin(<<t, p>>))
      BY <3>1, <3>2, ContinueStep, StartStep
    <3> QED BY <3>1, <3>3 DEF Corr!CorrNext
  <2>2. CASE TrackerCleanup
    BY <2>2, CleanupStep
  <2>3. CASE TrackerTick
    BY <2>3, TickStep DEF Corr!CorrNext
  <2>4. CASE TrackerRestart
    BY <2>4, RestartStep DEF Corr!CorrNext
  <2>5. CASE UNCHANGED trackerVars
    BY <2>5 DEF trackerVars, IInv, TrackerTypeOK, TableAgrees, Active, Corr!corrVars
  <2> QED BY <2>1, <2>2, <2>3, <2>4, <2>5 DEF TrackerNext
<1>3. TrackerSpec => Corr!CorrInit /\ [][Corr!CorrNext]_(Corr!corrVars)
  BY <1>1, <1>2, PTL DEF TrackerSpec
<1> QED BY <1>3 DEF ImplementsCorrelator, Corr!CorrSpec
=============================================================================
