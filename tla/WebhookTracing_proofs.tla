-------------------------- MODULE WebhookTracing_proofs --------------------------
(***************************************************************************)
(* Where webhooks are placed, for any webhooks, rules and traces, any      *)
(* number of handlers and rows: a trace belongs to one pipeline, and a     *)
(* job's webhooks to one trace.  Then what the queries say of the rows: a  *)
(* trace that failed stays failed, and the API and pie traces agree.       *)
(***************************************************************************)
EXTENDS WebhookTracing, RequestLog, FiniteSetTheorems, TLAPS

\* A sequence, of whatever it may be.
IsSequence(s) == \E S : s \in Seq(S)

TracingTypeOK ==
    /\ activeTraces \in [Keys -> Entry \cup {NoTrace}]
    /\ given \in [Keys -> Entry \cup {NoTrace}]
    /\ now \in Nat /\ issued \subseteq Traces
    /\ {rules, posted} \subseteq RuleSets \cup {<<>>}
    /\ hooks = [h \in Handlers |-> hooks[h]]
    /\ IsSequence(rows) /\ inserted \in Nat

NoRuleFits(m) == \A r \in RuleSets : \A k \in DOMAIN r : ~IsPrefix(r[k].prefix, m.path)

\* What is true of a row, or of what a handler is about to insert: its trace is an
\* issued one, whose owner is the tunnel and pipeline that it was issued for, or
\* that of the provider's job; and nothing else than the job gives it its trace
\* when no header and no rule does.
RightlyPlaced(x, owner, ids) ==
    LET match == DetectProvider(x.msg)
    IN /\ x.msg \in Messages
       /\ ~FromHeader(x) /\ x.trace # "" =>
             \/ x.trace \in ids /\ owner[x.trace] = <<x.tunnel, x.pipeline>>
             \/ x.trace = JobTrace(match) /\ x.pipeline = match.provider
       /\ x.msg.pipeline = "" /\ ~FromHeader(x) /\ NoRuleFits(x.msg) /\ match.job # ""
             => x.trace = JobTrace(match)

\* The table of active traces has each trace under its owner.
Owns(owner, ids, entries) ==
    \A k \in Keys : entries[k] # NoTrace => entries[k].traceID \in ids /\ owner[entries[k].traceID] = k

\* What handlers are about to insert is rightly placed, and so is every row.
HooksPlaced(owner, ids, pending) ==
    \A h \in Handlers : pending[h] # Idle0 /\ pending[h].id = 0
                        => RightlyPlaced(pending[h], owner, ids)

IsRow(x) == x = [id |-> x.id, tunnel |-> x.tunnel, msg |-> x.msg, pipeline |-> x.pipeline,
                 step |-> x.step, trace |-> x.trace, created |-> x.created, status |-> x.status]

RowsPlaced(owner, ids, requests) ==
    \A i \in DOMAIN requests : IsRow(requests[i]) /\ RightlyPlaced(requests[i], owner, ids)

\* Every issued trace has had one owner ever since.
TracingInv ==
    /\ TracingTypeOK
    /\ \E owner \in [issued -> Keys] :
          /\ Owns(owner, issued, activeTraces)
          /\ HooksPlaced(owner, issued, hooks)
          /\ RowsPlaced(owner, issued, rows)

-----------------------------------------------------------------------------
\* What the assumption says of a webhook.
LEMMA MessageFacts ==
  ASSUME NEW m \in Messages
  PROVE  /\ m.tunnel \in Tunnels
         /\ m.pipeline \in Pipelines \cup {""}
         /\ DetectProvider(m).provider \in Pipelines \cup {""}
         /\ JobTrace(DetectProvider(m)) \notin Traces /\ JobTrace(DetectProvider(m)) # ""
BY Zenon, TracingAssumption

\* Posted rules, and the ones before any were posted.
LEMMA PostedRules ==
  ASSUME NEW r \in RuleSets \cup {<<>>}
  PROVE  /\ r \in Seq(Rule) /\ Len(r) \in Nat /\ DOMAIN r = 1..Len(r)
         /\ \A i \in DOMAIN r : \E s \in RuleSets : \E k \in DOMAIN s : r[i] = s[k]
<1>1. RuleSets \subseteq Seq(Rule)
  BY Zenon, TracingAssumption
<1>2. r \in Seq(Rule)
  <2>1. <<>> \in Seq(Rule)
    OBVIOUS
  <2> QED BY Zenon, <1>1, <2>1
<1>3. Len(r) \in Nat /\ DOMAIN r = 1..Len(r)
  BY <1>2
<1>4. CASE r = <<>>
  BY <1>2, <1>3, <1>4
<1>5. CASE r \in RuleSets
  BY <1>2, <1>3, <1>5
<1> QED BY <1>4, <1>5

\* A rule that a handler sees was posted, though perhaps not where it sees it.
LEMMA SeenWasPosted ==
  ASSUME TracingTypeOK, NEW view \in Views
  PROVE  \A i \in DOMAIN view : \E r \in RuleSets : \E k \in DOMAIN r : view[i] = r[k]
<1>1. rules \in RuleSets \cup {<<>>} /\ posted \in RuleSets \cup {<<>>}
  BY DEF TracingTypeOK
<1>2. CASE view = rules
  BY <1>1, <1>2, PostedRules
<1>3. CASE \E array \in {rules, posted}, len \in {Len(rules), Len(posted)} :
             \E garbage \in UNION {ToSet(r) : r \in RuleSets} :
                view = [i \in 1..len |-> IF i <= Len(array) THEN array[i] ELSE garbage]
  <2>1. PICK array \in {rules, posted}, len \in {Len(rules), Len(posted)} :
          \E garbage \in UNION {ToSet(r) : r \in RuleSets} :
                view = [i \in 1..len |-> IF i <= Len(array) THEN array[i] ELSE garbage]
    BY <1>3
  <2>2. PICK garbage \in UNION {ToSet(r) : r \in RuleSets} :
                view = [i \in 1..len |-> IF i <= Len(array) THEN array[i] ELSE garbage]
    BY <2>1
  <2>3. array \in RuleSets \cup {<<>>} /\ len \in Nat
    BY <1>1, <2>1, PostedRules
  <2>4. PICK r \in RuleSets : garbage \in ToSet(r)
    BY <2>2
  <2>5. \E k \in DOMAIN r : garbage = r[k]
    BY <2>4 DEF ToSet
  <2> SUFFICES ASSUME NEW i \in DOMAIN view
               PROVE  \E s \in RuleSets : \E k \in DOMAIN s : view[i] = s[k]
    OBVIOUS
  <2>6. i \in 1..len /\ view[i] = IF i <= Len(array) THEN array[i] ELSE garbage
    BY <2>2
  <2>7. CASE i <= Len(array)
    <3>1. i \in DOMAIN array
      <4>1. DOMAIN array = 1..Len(array) /\ Len(array) \in Nat
        BY <2>3, PostedRules
      <4> QED BY <2>3, <2>6, <2>7, <4>1
    <3>2. \E s \in RuleSets : \E k \in DOMAIN s : array[i] = s[k]
      BY <2>3, <3>1, PostedRules
    <3> QED BY <2>6, <2>7, <3>2
  <2>8. CASE ~(i <= Len(array))
    BY <2>4, <2>5, <2>6, <2>8
  <2> QED BY <2>7, <2>8
<1>4. (view = rules) \/ \E array \in {rules, posted}, len \in {Len(rules), Len(posted)} :
             \E garbage \in UNION {ToSet(r) : r \in RuleSets} :
                view = [i \in 1..len |-> IF i <= Len(array) THEN array[i] ELSE garbage]
  BY DEF Views
<1> QED BY <1>2, <1>3, <1>4

\* The rules leave the trace to the headers, and place only what one of them fits.
LEMMA RuledBy ==
  ASSUME TracingTypeOK, NEW m \in Messages, NEW view \in Views, NEW ruled,
         ruled = FromRules(FromHeaders(m), m, view)
  PROVE  \E pipeline, step :
            /\ pipeline \in Pipelines \cup {""}
            /\ ruled = [pipeline |-> pipeline, step |-> step, trace |-> m.trace]
            /\ m.pipeline = "" /\ NoRuleFits(m) => pipeline = ""
<1> DEFINE Matches(i) == IsPrefix(view[i].prefix, m.path)
           first == {i \in DOMAIN view : Matches(i) /\ \A j \in 1..i - 1 : ~Matches(j)}
           rule == view[CHOOSE i \in first : TRUE]
           headers == [pipeline |-> m.pipeline, step |-> m.step, trace |-> m.trace]
<1>1. CASE m.pipeline # "" \/ first = {}
  <2>1. ruled = headers
    <3>1. FromHeaders(m) = headers /\ headers.pipeline = m.pipeline
      BY DEF FromHeaders
    <3> QED BY Zenon, <1>1, <3>1 DEF FromRules
  <2> QED BY <2>1, MessageFacts, <1>1
<1>2. CASE m.pipeline = "" /\ first # {}
  <2>1. ruled = [headers EXCEPT !.pipeline = rule.pipeline, !.step = rule.step]
    <3>1. FromHeaders(m) = headers /\ headers.pipeline = m.pipeline
      BY DEF FromHeaders
    <3> QED BY Zenon, <1>2, <3>1 DEF FromRules
  <2>2. PICK i \in first : i = CHOOSE j \in first : TRUE
    BY Zenon, <1>2
  <2>3. i \in DOMAIN view /\ IsPrefix(view[i].prefix, m.path) /\ rule = view[i]
    BY Zenon, <2>2
  <2>4. PICK r \in RuleSets : \E k \in DOMAIN r : rule = r[k]
    BY <2>3, SeenWasPosted
  <2>5. PICK k \in DOMAIN r : rule = r[k]
    BY <2>4
  <2>6. rule \in Rule
    BY <2>5, PostedRules
  <2>7. ~NoRuleFits(m)
    BY Zenon, <2>3, <2>5 DEF NoRuleFits
  <2> HIDE DEF rule
  <2>8. rule.pipeline \in Pipelines \cup {""}
    BY <2>6 DEF Rule
  <2>9. ruled = [pipeline |-> rule.pipeline, step |-> rule.step, trace |-> m.trace]
    BY <2>1
  <2> QED BY <2>7, <2>8, <2>9
<1> QED BY <1>1, <1>2

\* What the headers, the rules and the provider make of a webhook.
LEMMA PlacedBy ==
  ASSUME TracingTypeOK, NEW m \in Messages, NEW view \in Views, NEW place,
         place = Placed(m, view)
  PROVE  /\ place.pipeline \in Pipelines \cup {""}
         /\ m.trace # "" => place.trace = m.trace
         /\ m.trace = "" => \/ place.trace = ""
                            \/ /\ place.trace = JobTrace(DetectProvider(m))
                               /\ place.pipeline = DetectProvider(m).provider
         /\ m.trace = "" /\ m.pipeline = "" /\ NoRuleFits(m) /\ DetectProvider(m).job # ""
            => place.trace = JobTrace(DetectProvider(m))
<1> DEFINE match == DetectProvider(m)
           ruled == FromRules(FromHeaders(m), m, view)
           provided == FromProvider(ruled, m)
<1>1. PICK pipeline, step :
            /\ pipeline \in Pipelines \cup {""}
            /\ ruled = [pipeline |-> pipeline, step |-> step, trace |-> m.trace]
            /\ m.pipeline = "" /\ NoRuleFits(m) => pipeline = ""
  BY RuledBy
<1> HIDE DEF ruled
<1>2. ruled.pipeline = pipeline /\ ruled.trace = m.trace
  BY <1>1
<1> DEFINE step2 == IF match.model = "" THEN match.step ELSE match.step \o ":" \o match.model
           trace2 == IF match.job # "" /\ m.trace = "" THEN JobTrace(match) ELSE m.trace
<1>3. \/ provided = ruled /\ (pipeline # "" \/ match = NoMatch)
      \/ /\ provided = [pipeline |-> match.provider, step |-> step2, trace |-> trace2]
         /\ pipeline = "" /\ match # NoMatch
  BY Zenon, <1>2 DEF FromProvider
<1>4. match.job # "" => match # NoMatch
  <2>1. NoMatch.job = ""
    BY DEF NoMatch
  <2> QED BY Zenon, <2>1
<1> HIDE DEF match, provided, step2
<1>5. match.provider \in Pipelines \cup {""}
  BY MessageFacts DEF match
<1>6. PICK pipeline3, step3, trace3 :
        /\ pipeline3 \in Pipelines \cup {""}
        /\ provided = [pipeline |-> pipeline3, step |-> step3, trace |-> trace3]
        /\ m.trace # "" => trace3 = m.trace
        /\ m.trace = "" => trace3 = "" \/ (trace3 = JobTrace(match) /\ pipeline3 = match.provider)
        /\ m.trace = "" /\ m.pipeline = "" /\ NoRuleFits(m) /\ match.job # ""
           => trace3 = JobTrace(match)
  <2>1. CASE provided = ruled /\ (pipeline # "" \/ match = NoMatch)
    <3>1. provided = [pipeline |-> pipeline, step |-> step, trace |-> m.trace]
      BY <1>1, <2>1
    <3>2. ~(m.pipeline = "" /\ NoRuleFits(m) /\ match.job # "")
      BY Zenon, <1>1, <1>4, <2>1
    <3>3. pipeline \in Pipelines \cup {""}
      BY <1>1
    <3> QED BY Zenon, <3>1, <3>2, <3>3
  <2>2. CASE /\ provided = [pipeline |-> match.provider, step |-> step2, trace |-> trace2]
             /\ pipeline = "" /\ match # NoMatch
    BY <1>5, <2>2
  <2> QED BY <1>3, <2>1, <2>2
<1>7. PICK named : named = Named(provided, m) /\ (place = named \/ place = [named EXCEPT !.step = ""])
  <2>1. place = Stored(Named(provided, m))
    BY Zenon DEF Placed, provided, ruled
  <2> QED BY Zenon, <2>1 DEF Stored
<1>8. place.pipeline = pipeline3 /\ place.trace = trace3
  <2>1. PICK step4 : named = [pipeline |-> pipeline3, step |-> step4, trace |-> trace3]
    <3>1. \/ named = provided
          \/ \E step4 : named = [provided EXCEPT !.step = step4]
      BY Zenon, <1>7 DEF Named
    <3>2. ASSUME NEW step4
          PROVE  [[pipeline |-> pipeline3, step |-> step3, trace |-> trace3] EXCEPT !.step = step4]
                     = [pipeline |-> pipeline3, step |-> step4, trace |-> trace3]
      OBVIOUS
    <3> QED BY Zenon, <1>6, <3>1, <3>2
  <2>2. CASE place = named
    BY <2>1, <2>2
  <2>3. CASE place = [named EXCEPT !.step = ""]
    BY <2>1, <2>3
  <2> QED BY Zenon, <1>7, <2>2, <2>3
<1> QED BY <1>6, <1>8 DEF match
-----------------------------------------------------------------------------
LEMMA MappedSequence ==
  ASSUME NEW s, IsSequence(s), NEW f, f = [i \in DOMAIN s |-> f[i]]
  PROVE  IsSequence(f)
<1>1. Len(s) \in Nat /\ DOMAIN s = 1..Len(s)
  BY DEF IsSequence
<1> DEFINE S == {f[i] : i \in DOMAIN s}
<1>2. f = [i \in 1..Len(s) |-> f[i]] /\ \A i \in 1..Len(s) : f[i] \in S
  BY <1>1
<1> HIDE DEF S
<1>3. f \in Seq(S)
  BY <1>1, <1>2
<1> QED BY <1>3 DEF IsSequence

\* Where something is placed depends on four of its fields.
LEMMA SamePlace ==
  ASSUME NEW owner, NEW ids, NEW x, NEW y, RightlyPlaced(x, owner, ids),
         y.msg = x.msg, y.tunnel = x.tunnel, y.pipeline = x.pipeline, y.trace = x.trace
  PROVE  RightlyPlaced(y, owner, ids)
BY Zenon DEF RightlyPlaced, FromHeader

\* An issued trace keeps its owner when others are issued.
LEMMA StaysPlaced ==
  ASSUME NEW owner, NEW ids, NEW owner2, NEW ids2, ids \subseteq ids2,
         \A id \in ids : owner2[id] = owner[id]
  PROVE  /\ \A x : RightlyPlaced(x, owner, ids) => RightlyPlaced(x, owner2, ids2)
         /\ HooksPlaced(owner, ids, hooks) => HooksPlaced(owner2, ids2, hooks)
         /\ RowsPlaced(owner, ids, rows) => RowsPlaced(owner2, ids2, rows)
<1>1. ASSUME NEW x, RightlyPlaced(x, owner, ids) PROVE RightlyPlaced(x, owner2, ids2)
  BY Zenon, <1>1 DEF RightlyPlaced
<1> QED BY Zenon, <1>1 DEF HooksPlaced, RowsPlaced

\* What is inserted after Placed, with a correlated trace when it has none.
LEMMA PlacedRightly ==
  ASSUME TracingTypeOK, NEW m \in Messages, NEW view \in Views, NEW place,
         place = Placed(m, view), NEW owner, NEW ids, NEW x,
         x.msg = m, x.tunnel = m.tunnel, x.pipeline = place.pipeline,
         \/ x.trace = place.trace /\ ~(place.pipeline # "" /\ place.trace = "")
         \/ /\ place.pipeline # "" /\ place.trace = ""
            /\ x.trace \in ids /\ owner[x.trace] = <<m.tunnel, place.pipeline>>
  PROVE  RightlyPlaced(x, owner, ids)
<1>1. JobTrace(DetectProvider(m)) # ""
  BY MessageFacts
<1>2. /\ m.trace # "" => place.trace = m.trace
      /\ m.trace = "" => \/ place.trace = ""
                         \/ /\ place.trace = JobTrace(DetectProvider(m))
                            /\ place.pipeline = DetectProvider(m).provider
      /\ (m.trace = "" /\ m.pipeline = "" /\ NoRuleFits(m) /\ DetectProvider(m).job # "")
         => place.trace = JobTrace(DetectProvider(m))
  BY PlacedBy
<1> QED BY Zenon, <1>1, <1>2 DEF RightlyPlaced, FromHeader

\* A handler takes a webhook, inserts its row or is done.
LEMMA HandlerStep ==
  ASSUME TracingTypeOK, NEW owner, NEW ids, HooksPlaced(owner, ids, hooks),
         NEW h \in Handlers, NEW x, hooks' = [hooks EXCEPT ![h] = x],
         (x # Idle0 /\ x.id = 0) => RightlyPlaced(x, owner, ids)
  PROVE  HooksPlaced(owner, ids, hooks') /\ hooks' = [g \in Handlers |-> hooks'[g]]
<1>1. hooks = [g \in Handlers |-> hooks[g]]
  BY DEF TracingTypeOK
<1>2. hooks' = [g \in Handlers |-> IF g = h THEN x ELSE hooks[g]]
  BY <1>1
<1>3. \A g \in Handlers : hooks'[g] = IF g = h THEN x ELSE hooks[g]
  BY <1>2
<1>4. hooks' = [g \in Handlers |-> hooks'[g]]
  BY <1>2
<1> QED BY Zenon, <1>3, <1>4 DEF HooksPlaced
-----------------------------------------------------------------------------
\* The trace that the tracker gives a webhook's key is that key's own.
LEMMA CorrelateStep ==
  ASSUME TracingTypeOK, NEW owner \in [issued -> Keys], Owns(owner, issued, activeTraces),
         NEW k \in Keys, Continue(k) \/ Start(k)
  PROVE  /\ activeTraces' \in [Keys -> Entry \cup {NoTrace}]
         /\ given' \in [Keys -> Entry \cup {NoTrace}]
         /\ now' = now /\ issued \subseteq issued' /\ issued' \subseteq Traces
         /\ \E owner2 \in [issued' -> Keys] :
              /\ \A id \in issued : owner2[id] = owner[id]
              /\ Owns(owner2, issued', activeTraces')
              /\ given'[k].traceID \in issued' /\ owner2[given'[k].traceID] = k
<1>0. /\ activeTraces \in [Keys -> Entry \cup {NoTrace}]
      /\ given \in [Keys -> Entry \cup {NoTrace}]
      /\ now \in Nat /\ issued \subseteq Traces
  BY DEF TracingTypeOK
<1>1. ASSUME NEW id \in Traces, NEW ids, NEW owner2, ids \subseteq Traces, id \in ids,
             activeTraces' = [activeTraces EXCEPT ![k] = [traceID |-> id, lastSeen |-> now]],
             Give(k, id), issued \subseteq ids, owner2[id] = k,
             \A other \in issued : owner2[other] = owner[other]
      PROVE  /\ activeTraces' \in [Keys -> Entry \cup {NoTrace}]
             /\ given' \in [Keys -> Entry \cup {NoTrace}]
             /\ given'[k].traceID = id
             /\ Owns(owner2, ids, activeTraces')
  <2> DEFINE entry == [traceID |-> id, lastSeen |-> now]
  <2>1. entry \in Entry /\ entry.traceID = id
    BY <1>0 DEF Entry
  <2>2. activeTraces' = [activeTraces EXCEPT ![k] = entry] /\ given' = [given EXCEPT ![k] = entry]
    BY <1>1 DEF Give
  <2> HIDE DEF entry
  <2>3. /\ activeTraces' \in [Keys -> Entry \cup {NoTrace}]
        /\ given' \in [Keys -> Entry \cup {NoTrace}]
        /\ given'[k] = entry
        /\ \A l \in Keys : activeTraces'[l] = IF l = k THEN entry ELSE activeTraces[l]
    BY <1>0, <2>1, <2>2
  <2>4. Owns(owner2, ids, activeTraces')
    BY Zenon, <1>1, <2>1, <2>3 DEF Owns
  <2> QED BY <2>1, <2>3, <2>4
<1>2. CASE Continue(k)
  <2> DEFINE id == activeTraces[k].traceID
  <2>1. /\ activeTraces' = [activeTraces EXCEPT ![k] = [traceID |-> id, lastSeen |-> now]]
        /\ Give(k, id) /\ now' = now /\ issued' = issued
    BY <1>2 DEF Continue
  <2>2. id \in issued /\ owner[id] = k /\ id \in Traces
    BY <1>0, <1>2 DEF Continue, Active, Owns
  <2> HIDE DEF id
  <2>3. /\ activeTraces' \in [Keys -> Entry \cup {NoTrace}]
        /\ given' \in [Keys -> Entry \cup {NoTrace}]
        /\ given'[k].traceID = id
        /\ Owns(owner, issued, activeTraces')
    BY <1>0, <1>1, <2>1, <2>2
  <2> QED BY <1>0, <2>1, <2>2, <2>3
<1>3. CASE Start(k)
  <2>1. PICK id \in Traces \ issued :
          /\ activeTraces' = [activeTraces EXCEPT ![k] = [traceID |-> id, lastSeen |-> now]]
          /\ issued' = issued \cup {id} /\ Give(k, id) /\ now' = now
    BY <1>3 DEF Start
  <2> DEFINE owner2 == [other \in issued' |-> IF other = id THEN k ELSE owner[other]]
  <2>2. /\ owner2 \in [issued' -> Keys] /\ owner2[id] = k
        /\ \A other \in issued : owner2[other] = owner[other]
        /\ issued \subseteq issued' /\ id \in issued' /\ issued' \subseteq Traces
    BY <1>0, <2>1
  <2> HIDE DEF owner2
  <2>3. /\ activeTraces' \in [Keys -> Entry \cup {NoTrace}]
        /\ given' \in [Keys -> Entry \cup {NoTrace}]
        /\ given'[k].traceID = id
        /\ Owns(owner2, issued', activeTraces')
    BY <1>1, <2>1, <2>2
  <2> QED BY <2>1, <2>2, <2>3
<1> QED BY <1>2, <1>3

LEMMA PlaceStep ==
  ASSUME TracingInv, NEW h \in Handlers, NEW m \in Messages, Place(h, m)
  PROVE  TracingInv'
<1>1. TracingTypeOK
  BY DEF TracingInv
<1>2. PICK owner \in [issued -> Keys] :
        /\ Owns(owner, issued, activeTraces)
        /\ HooksPlaced(owner, issued, hooks)
        /\ RowsPlaced(owner, issued, rows)
  BY DEF TracingInv
<1>3. PICK view \in Views :
        LET place == Placed(m, view)
            Insert(trace) == hooks' = [hooks EXCEPT ![h] =
                                [id |-> 0, tunnel |-> m.tunnel, msg |-> m, pipeline |-> place.pipeline,
                                 step |-> place.step, trace |-> trace]]
        IN IF place.pipeline # "" /\ place.trace = ""
           THEN /\ Correlate(m.tunnel, place.pipeline)
                /\ Insert(given'[<<m.tunnel, place.pipeline>>].traceID)
           ELSE Insert(place.trace) /\ UNCHANGED trackerVars
  BY Zenon DEF Place
<1>4. UNCHANGED <<rules, posted, rows, inserted>>
  BY Zenon DEF Place
<1> DEFINE place == Placed(m, view)
           Hook(trace) == [id |-> 0, tunnel |-> m.tunnel, msg |-> m, pipeline |-> place.pipeline,
                           step |-> place.step, trace |-> trace]
<1>5. ASSUME NEW trace
      PROVE  /\ Hook(trace).msg = m /\ Hook(trace).tunnel = m.tunnel
             /\ Hook(trace).pipeline = place.pipeline /\ Hook(trace).trace = trace
  OBVIOUS
<1>6. ASSUME NEW owner2 \in [issued' -> Keys], NEW trace,
             issued \subseteq issued', issued' \subseteq Traces, now' = now,
             \A id \in issued : owner2[id] = owner[id], Owns(owner2, issued', activeTraces'),
             activeTraces' \in [Keys -> Entry \cup {NoTrace}],
             given' \in [Keys -> Entry \cup {NoTrace}],
             hooks' = [hooks EXCEPT ![h] = Hook(trace)],
             \/ trace = place.trace /\ ~(place.pipeline # "" /\ place.trace = "")
             \/ /\ place.pipeline # "" /\ place.trace = ""
                /\ trace \in issued' /\ owner2[trace] = <<m.tunnel, place.pipeline>>
      PROVE  TracingInv'
  <2> DEFINE hook == Hook(trace)
  <2>1. hook.msg = m /\ hook.tunnel = m.tunnel /\ hook.pipeline = place.pipeline
        /\ hook.trace = trace
    BY <1>5
  <2> HIDE DEF hook
  <2>2. RightlyPlaced(hook, owner2, issued')
    <3> HIDE DEF place
    <3>1. place = Placed(m, view)
      BY DEF place
    <3> QED BY Zenon, <1>1, <1>6, <2>1, <3>1, PlacedRightly
  <2>3. HooksPlaced(owner2, issued', hooks) /\ RowsPlaced(owner2, issued', rows)
    BY Zenon, <1>2, <1>6, StaysPlaced
  <2>4. HooksPlaced(owner2, issued', hooks') /\ hooks' = [g \in Handlers |-> hooks'[g]]
    <3>1. hooks' = [hooks EXCEPT ![h] = hook]
      BY <1>6 DEF hook
    <3> QED BY Zenon, <1>1, <2>2, <2>3, <3>1, HandlerStep
  <2>5. RowsPlaced(owner2, issued', rows')
    BY <1>4, <2>3
  <2>6. TracingTypeOK'
    BY <1>1, <1>4, <1>6, <2>4 DEF TracingTypeOK
  <2> QED BY <1>6, <2>4, <2>5, <2>6 DEF TracingInv
<1> HIDE DEF Hook
<1>7. CASE place.pipeline # "" /\ place.trace = ""
  <2> DEFINE k == <<m.tunnel, place.pipeline>>
  <2>1. k \in Keys
    <3>1. place.pipeline \in Pipelines \cup {""}
      BY <1>1, PlacedBy
    <3> QED BY <1>7, <3>1, MessageFacts DEF Keys
  <2>2. (Continue(k) \/ Start(k)) /\ hooks' = [hooks EXCEPT ![h] = Hook(given'[k].traceID)]
    BY Zenon, <1>3, <1>7 DEF Correlate, Hook
  <2> HIDE DEF k
  <2>3. /\ activeTraces' \in [Keys -> Entry \cup {NoTrace}]
        /\ given' \in [Keys -> Entry \cup {NoTrace}]
        /\ now' = now /\ issued \subseteq issued' /\ issued' \subseteq Traces
        /\ \E owner2 \in [issued' -> Keys] :
              /\ \A id \in issued : owner2[id] = owner[id]
              /\ Owns(owner2, issued', activeTraces')
              /\ given'[k].traceID \in issued' /\ owner2[given'[k].traceID] = k
    BY Zenon, <1>1, <1>2, <2>1, <2>2, CorrelateStep
  <2>4. PICK owner2 \in [issued' -> Keys] :
              /\ \A id \in issued : owner2[id] = owner[id]
              /\ Owns(owner2, issued', activeTraces')
              /\ given'[k].traceID \in issued' /\ owner2[given'[k].traceID] = k
    BY <2>3
  <2>5. k = <<m.tunnel, place.pipeline>>
    BY DEF k
  <2> HIDE DEF place
  <2> QED BY Zenon, <1>6, <1>7, <2>2, <2>3, <2>4, <2>5
<1>8. CASE ~(place.pipeline # "" /\ place.trace = "")
  <2>1. hooks' = [hooks EXCEPT ![h] = Hook(place.trace)] /\ UNCHANGED trackerVars
    BY Zenon, <1>3, <1>8 DEF Hook
  <2>2. /\ now' = now /\ activeTraces' = activeTraces /\ issued' = issued /\ given' = given
    BY <2>1 DEF trackerVars
  <2>3. /\ activeTraces' \in [Keys -> Entry \cup {NoTrace}]
        /\ given' \in [Keys -> Entry \cup {NoTrace}]
        /\ issued' \subseteq Traces /\ issued \subseteq issued'
        /\ owner \in [issued' -> Keys] /\ Owns(owner, issued', activeTraces')
    BY <1>1, <1>2, <2>2 DEF TracingTypeOK
  <2> HIDE DEF place
  <2> QED BY Zenon, <1>6, <1>8, <2>1, <2>2, <2>3
<1> QED BY <1>7, <1>8

LEMMA InsertStep ==
  ASSUME TracingInv, NEW h \in Handlers, RequestInsert(h)
  PROVE  TracingInv'
<1>1. TracingTypeOK
  BY DEF TracingInv
<1>2. PICK owner \in [issued -> Keys] :
        /\ Owns(owner, issued, activeTraces)
        /\ HooksPlaced(owner, issued, hooks)
        /\ RowsPlaced(owner, issued, rows)
  BY DEF TracingInv
<1> DEFINE hook == hooks[h]
           row == [id |-> inserted + 1, tunnel |-> hook.tunnel, msg |-> hook.msg,
                   pipeline |-> hook.pipeline, step |-> hook.step, trace |-> hook.trace,
                   created |-> now, status |-> "pending"]
           waits == [id |-> inserted + 1]
<1>3. /\ hook # Idle0 /\ hook.id = 0
      /\ rows' = Append(rows, row) /\ hooks' = [hooks EXCEPT ![h] = waits]
      /\ inserted' = inserted + 1
      /\ UNCHANGED <<trackerVars, rules, posted>>
  BY Zenon DEF RequestInsert
<1>4. UNCHANGED <<now, activeTraces, issued, given, rules, posted>>
  BY <1>3 DEF trackerVars
<1>5. RightlyPlaced(hook, owner, issued)
  BY Zenon, <1>2, <1>3 DEF HooksPlaced
<1> HIDE DEF hook
<1>6. IsRow(row) /\ RightlyPlaced(row, owner, issued)
  <2>1. /\ row.msg = hook.msg /\ row.tunnel = hook.tunnel
        /\ row.pipeline = hook.pipeline /\ row.trace = hook.trace
    OBVIOUS
  <2>2. IsRow(row)
    BY DEF IsRow
  <2> HIDE DEF row
  <2> QED BY Zenon, <1>5, <2>1, <2>2, SamePlace
<1>7. waits.id # 0 /\ inserted' \in Nat
  BY <1>1, <1>3 DEF TracingTypeOK
<1> HIDE DEF row, waits
<1>8. HooksPlaced(owner, issued, hooks') /\ hooks' = [g \in Handlers |-> hooks'[g]]
  <2>1. (waits # Idle0 /\ waits.id = 0) => RightlyPlaced(waits, owner, issued)
    BY Zenon, <1>7
  <2> QED BY Zenon, <1>1, <1>2, <1>3, <2>1, HandlerStep
<1>9. /\ IsSequence(rows')
      /\ \A i \in DOMAIN rows' : (i \in DOMAIN rows /\ rows'[i] = rows[i]) \/ rows'[i] = row
  <2>1. IsSequence(rows)
    BY <1>1 DEF TracingTypeOK
  <2>2. PICK S : rows \in Seq(S)
    BY <2>1 DEF IsSequence
  <2>3. rows \in Seq(S \cup {row}) /\ row \in S \cup {row} /\ rows' = Append(rows, row)
    BY <1>3, <2>2
  <2> QED BY <2>3 DEF IsSequence
<1>10. RowsPlaced(owner, issued, rows')
  BY Zenon, <1>2, <1>6, <1>9 DEF RowsPlaced
<1>11. TracingTypeOK'
  BY <1>1, <1>4, <1>7, <1>8, <1>9 DEF TracingTypeOK
<1> QED BY <1>2, <1>4, <1>8, <1>10, <1>11 DEF TracingInv

\* A row is settled where it is.
LEMMA SettleStep ==
  ASSUME TracingInv, NEW h \in Handlers, Settle(h)
  PROVE  TracingInv'
<1>1. TracingTypeOK
  BY DEF TracingInv
<1>2. PICK owner \in [issued -> Keys] :
        /\ Owns(owner, issued, activeTraces)
        /\ HooksPlaced(owner, issued, hooks)
        /\ RowsPlaced(owner, issued, rows)
  BY DEF TracingInv
<1>3. PICK status \in {"forwarded", "timeout"} :
        rows' = [i \in DOMAIN rows |-> IF rows[i].id = hooks[h].id
                                       THEN [rows[i] EXCEPT !.status = status] ELSE rows[i]]
  BY Zenon DEF Settle
<1>4. /\ hooks' = [hooks EXCEPT ![h] = Idle0]
      /\ UNCHANGED <<now, activeTraces, issued, given, rules, posted, inserted>>
  BY DEF Settle, trackerVars
<1>5. HooksPlaced(owner, issued, hooks') /\ hooks' = [g \in Handlers |-> hooks'[g]]
  BY Zenon, <1>1, <1>2, <1>4, HandlerStep
<1>6. ASSUME NEW i \in DOMAIN rows
      PROVE  IsRow(rows'[i]) /\ RightlyPlaced(rows'[i], owner, issued)
  <2>1. IsRow(rows[i]) /\ RightlyPlaced(rows[i], owner, issued)
    BY Zenon, <1>2 DEF RowsPlaced
  <2> DEFINE row == rows[i]
             settled == [id |-> row.id, tunnel |-> row.tunnel, msg |-> row.msg,
                         pipeline |-> row.pipeline, step |-> row.step, trace |-> row.trace,
                         created |-> row.created, status |-> status]
  <2>2. rows'[i] = row \/ rows'[i] = [row EXCEPT !.status = status]
    BY Zenon, <1>3
  <2> HIDE DEF row
  <2>3. [row EXCEPT !.status = status] = settled
    <3>1. row = [id |-> row.id, tunnel |-> row.tunnel, msg |-> row.msg,
                 pipeline |-> row.pipeline, step |-> row.step, trace |-> row.trace,
                 created |-> row.created, status |-> row.status]
      BY Zenon, <2>1 DEF IsRow, row
    <3>2. [row EXCEPT !.status = status]
          = [[id |-> row.id, tunnel |-> row.tunnel, msg |-> row.msg,
              pipeline |-> row.pipeline, step |-> row.step, trace |-> row.trace,
              created |-> row.created, status |-> row.status] EXCEPT !.status = status]
      BY Zenon, <3>1
    <3>3. [[id |-> row.id, tunnel |-> row.tunnel, msg |-> row.msg,
              pipeline |-> row.pipeline, step |-> row.step, trace |-> row.trace,
              created |-> row.created, status |-> row.status] EXCEPT !.status = status] = settled
      OBVIOUS
    <3> QED BY Zenon, <3>2, <3>3
  <2>4. /\ settled.msg = row.msg /\ settled.tunnel = row.tunnel
        /\ settled.pipeline = row.pipeline /\ settled.trace = row.trace
        /\ IsRow(settled)
    BY DEF IsRow
  <2> HIDE DEF settled
  <2>5. RightlyPlaced(settled, owner, issued)
    BY Zenon, <2>1, <2>4, SamePlace DEF row
  <2> QED BY Zenon, <2>1, <2>2, <2>3, <2>4, <2>5 DEF row
<1>7. DOMAIN rows' = DOMAIN rows /\ rows' = [i \in DOMAIN rows |-> rows'[i]]
  <2> DEFINE new(i) == IF rows[i].id = hooks[h].id
                       THEN [rows[i] EXCEPT !.status = status] ELSE rows[i]
  <2>1. rows' = [i \in DOMAIN rows |-> new(i)]
    BY Zenon, <1>3
  <2> HIDE DEF new
  <2> QED BY <2>1
<1>8. RowsPlaced(owner, issued, rows')
  BY Zenon, <1>6, <1>7 DEF RowsPlaced
<1>9. IsSequence(rows')
  <2>1. IsSequence(rows)
    BY <1>1 DEF TracingTypeOK
  <2> QED BY Zenon, <1>7, <2>1, MappedSequence
<1>10. TracingTypeOK'
  BY <1>1, <1>4, <1>5, <1>9 DEF TracingTypeOK
<1> QED BY <1>2, <1>4, <1>5, <1>8, <1>10 DEF TracingInv

\* Pruning leaves rows that were there.
LEMMA PruneStep ==
  ASSUME TracingInv, PruneFirst
  PROVE  TracingInv'
<1>1. TracingTypeOK
  BY DEF TracingInv
<1>2. PICK owner \in [issued -> Keys] :
        /\ Owns(owner, issued, activeTraces)
        /\ HooksPlaced(owner, issued, hooks)
        /\ RowsPlaced(owner, issued, rows)
  BY DEF TracingInv
<1>3. /\ rows # <<>> /\ rows' = Tail(rows)
      /\ UNCHANGED <<now, activeTraces, issued, given, rules, posted, hooks, inserted>>
  BY DEF PruneFirst, trackerVars
<1>4. IsSequence(rows') /\ \A i \in DOMAIN rows' : \E j \in DOMAIN rows : rows'[i] = rows[j]
  <2>1. IsSequence(rows)
    BY <1>1 DEF TracingTypeOK
  <2>2. PICK S : rows \in Seq(S)
    BY <2>1 DEF IsSequence
  <2>3. /\ rows' \in Seq(S) /\ Len(rows') = Len(rows) - 1
        /\ Len(rows) \in Nat /\ DOMAIN rows = 1..Len(rows)
    BY <1>3, <2>2
  <2>4. ASSUME NEW i \in DOMAIN rows' PROVE \E j \in DOMAIN rows : rows'[i] = rows[j]
    <3>1. i \in 1..Len(rows) - 1 /\ i + 1 \in 1..Len(rows) /\ rows'[i] = rows[i + 1]
      BY <1>3, <2>2, <2>3
    <3> QED BY <2>3, <3>1
  <2> QED BY <2>3, <2>4 DEF IsSequence
<1>5. RowsPlaced(owner, issued, rows')
  BY Zenon, <1>2, <1>4 DEF RowsPlaced
<1>6. TracingTypeOK'
  BY <1>1, <1>3, <1>4 DEF TracingTypeOK
<1> QED BY <1>2, <1>3, <1>5, <1>6 DEF TracingInv

\* The rows outlive the server, whose table begins empty.
LEMMA RestartStep ==
  ASSUME TracingInv, TracingRestart
  PROVE  TracingInv'
<1>1. TracingTypeOK
  BY DEF TracingInv
<1>2. PICK owner \in [issued -> Keys] :
        /\ Owns(owner, issued, activeTraces)
        /\ HooksPlaced(owner, issued, hooks)
        /\ RowsPlaced(owner, issued, rows)
  BY DEF TracingInv
<1>3. /\ activeTraces' = [k \in Keys |-> NoTrace] /\ given' = [k \in Keys |-> NoTrace]
      /\ hooks' = [h \in Handlers |-> Idle0] /\ rules' = <<>> /\ posted' = <<>>
      /\ UNCHANGED <<now, issued, rows, inserted>>
  BY DEF TracingRestart, TrackerRestart
<1>4. Owns(owner, issued, activeTraces') /\ HooksPlaced(owner, issued, hooks')
  BY <1>3 DEF Owns, HooksPlaced
<1>5. TracingTypeOK'
  <2>1. {rules', posted'} \subseteq RuleSets \cup {<<>>} /\ hooks' = [h \in Handlers |-> hooks'[h]]
    BY <1>3
  <2>2. /\ activeTraces' \in [Keys -> Entry \cup {NoTrace}]
        /\ given' \in [Keys -> Entry \cup {NoTrace}]
    BY <1>3
  <2> QED BY <1>1, <1>3, <2>1, <2>2 DEF TracingTypeOK
<1> QED BY <1>2, <1>3, <1>4, <1>5 DEF TracingInv

\* Eviction leaves no trace to another owner, rules no row to another place.
LEMMA OtherSteps ==
  ASSUME TracingInv,
         \/ (TrackerCleanup \/ TrackerTick) /\ UNCHANGED hookVars
         \/ \E r \in RuleSets : PostRules(r)
         \/ RulesPosted
         \/ UNCHANGED tracingVars
  PROVE  TracingInv'
<1>1. TracingTypeOK
  BY DEF TracingInv
<1>2. PICK owner \in [issued -> Keys] :
        /\ Owns(owner, issued, activeTraces)
        /\ HooksPlaced(owner, issued, hooks)
        /\ RowsPlaced(owner, issued, rows)
  BY DEF TracingInv
<1>3. CASE TrackerCleanup /\ UNCHANGED hookVars
  <2>1. /\ activeTraces' = [k \in Keys |-> IF Stale(k) THEN NoTrace ELSE activeTraces[k]]
        /\ UNCHANGED <<now, issued, given, rules, posted, hooks, rows, inserted>>
    BY <1>3 DEF TrackerCleanup, hookVars
  <2>2. \A k \in Keys : activeTraces'[k] # NoTrace => activeTraces'[k] = activeTraces[k]
    BY <2>1
  <2>3. Owns(owner, issued, activeTraces')
    BY Zenon, <1>2, <2>2 DEF Owns
  <2>4. TracingTypeOK'
    BY <1>1, <2>1 DEF TracingTypeOK
  <2> QED BY <1>2, <2>1, <2>3, <2>4 DEF TracingInv
<1>4. CASE TrackerTick /\ UNCHANGED hookVars
  <2>1. /\ now' = now + 1
        /\ UNCHANGED <<activeTraces, issued, given, rules, posted, hooks, rows, inserted>>
    BY <1>4 DEF TrackerTick, Tick, hookVars
  <2>2. TracingTypeOK'
    BY <1>1, <2>1 DEF TracingTypeOK
  <2> QED BY <1>2, <2>1, <2>2 DEF TracingInv
<1>5. ASSUME NEW r \in RuleSets, PostRules(r) PROVE TracingInv'
  <2>1. posted' = r /\ UNCHANGED <<now, activeTraces, issued, given, rules, hooks, rows, inserted>>
    BY <1>5 DEF PostRules, trackerVars
  <2>2. TracingTypeOK'
    BY <1>1, <2>1 DEF TracingTypeOK
  <2> QED BY <1>2, <2>1, <2>2 DEF TracingInv
<1>6. CASE RulesPosted
  <2>1. /\ rules' = posted
        /\ UNCHANGED <<now, activeTraces, issued, given, posted, hooks, rows, inserted>>
    BY <1>6 DEF RulesPosted, trackerVars
  <2>2. TracingTypeOK'
    BY <1>1, <2>1 DEF TracingTypeOK
  <2> QED BY <1>2, <2>1, <2>2 DEF TracingInv
<1>7. CASE UNCHANGED tracingVars
  <2>1. UNCHANGED <<now, activeTraces, issued, given, rules, posted, hooks, rows, inserted>>
    BY <1>7 DEF tracingVars, trackerVars, hookVars
  <2>2. TracingTypeOK'
    BY <1>1, <2>1 DEF TracingTypeOK
  <2> QED BY <1>2, <2>1, <2>2 DEF TracingInv
<1> QED BY <1>3, <1>4, <1>5, <1>6, <1>7

LEMMA TracingInvariant == TracingSpec => []TracingInv
<1>1. TracingInit => TracingInv
  <2> SUFFICES ASSUME TracingInit PROVE TracingInv
    OBVIOUS
  <2>1. /\ now = 0 /\ activeTraces = [k \in Keys |-> NoTrace] /\ issued = {}
        /\ given = [k \in Keys |-> NoTrace] /\ rules = <<>> /\ posted = <<>>
        /\ hooks = [h \in Handlers |-> Idle0] /\ rows = <<>> /\ inserted = 0
    BY DEF TracingInit, TrackerInit
  <2>2. IsSequence(rows)
    <3>1. rows \in Seq({})
      BY <2>1
    <3> QED BY <3>1 DEF IsSequence
  <2>3. TracingTypeOK
    <3>1. hooks = [h \in Handlers |-> hooks[h]]
      BY <2>1
    <3> QED BY <2>1, <2>2, <3>1 DEF TracingTypeOK
  <2> DEFINE owner == [id \in issued |-> CHOOSE k \in Keys : TRUE]
  <2>4. owner \in [issued -> Keys]
    BY <2>1
  <2> HIDE DEF owner
  <2>5. /\ Owns(owner, issued, activeTraces) /\ HooksPlaced(owner, issued, hooks)
        /\ RowsPlaced(owner, issued, rows)
    BY <2>1 DEF Owns, HooksPlaced, RowsPlaced
  <2> QED BY <2>3, <2>4, <2>5 DEF TracingInv
<1>2. TracingInv /\ [TracingNext]_tracingVars => TracingInv'
  BY PlaceStep, InsertStep, SettleStep, PruneStep, RestartStep, OtherSteps DEF TracingNext
<1> QED BY <1>1, <1>2, PTL DEF TracingSpec

\* A trace tells its pipeline whatever rules are posted, and however often the server
\* restarts: an issued one, because nobody else ever gets it; a job's, because its id
\* has the provider's name in it.
THEOREM TracesTellTheirPipeline == TracingSpec => []TraceTellsPipeline
<1>1. TracingInv => TraceTellsPipeline
  <2> SUFFICES ASSUME TracingInv, NEW i \in DOMAIN rows, NEW j \in DOMAIN rows,
                      rows[i].trace = rows[j].trace, rows[i].trace # "",
                      ~FromHeader(rows[i]), ~FromHeader(rows[j])
               PROVE  /\ rows[i].pipeline = rows[j].pipeline
                      /\ rows[i].trace \in issued => rows[i].tunnel = rows[j].tunnel
    BY Zenon DEF TraceTellsPipeline
  <2>1. PICK owner \in [issued -> Keys] : RowsPlaced(owner, issued, rows)
    BY DEF TracingInv
  <2> DEFINE x == rows[i]
             y == rows[j]
             Job(row) == JobTrace(DetectProvider(row.msg))
  <2>2. /\ x.msg \in Messages /\ y.msg \in Messages
        /\ \/ x.trace \in issued /\ owner[x.trace] = <<x.tunnel, x.pipeline>>
           \/ x.trace = Job(x) /\ x.pipeline = DetectProvider(x.msg).provider
        /\ \/ y.trace \in issued /\ owner[y.trace] = <<y.tunnel, y.pipeline>>
           \/ y.trace = Job(y) /\ y.pipeline = DetectProvider(y.msg).provider
    <3>1. RightlyPlaced(rows[i], owner, issued) /\ RightlyPlaced(rows[j], owner, issued)
      BY Zenon, <2>1 DEF RowsPlaced
    <3> QED BY Zenon, <3>1 DEF RightlyPlaced
  <2>3. Job(x) \notin issued /\ Job(y) \notin issued
    BY Zenon, <2>2, MessageFacts DEF TracingInv, TracingTypeOK
  <2>4. Job(x) = Job(y) => DetectProvider(x.msg).provider = DetectProvider(y.msg).provider
    BY Zenon, <2>2, TracingAssumption
  <2> HIDE DEF x, y, Job
  <2>5. x.trace = y.trace
    BY DEF x, y
  <2>6. /\ x.pipeline = y.pipeline
        /\ x.trace \in issued => x.tunnel = y.tunnel
    <3>1. CASE x.trace \in issued
      <4>1. <<x.tunnel, x.pipeline>> = <<y.tunnel, y.pipeline>>
        BY Zenon, <2>2, <2>3, <2>5, <3>1
      <4> QED BY <4>1
    <3>2. CASE x.trace \notin issued
      BY Zenon, <2>2, <2>3, <2>4, <2>5, <3>2
    <3> QED BY <3>1, <3>2
  <2> QED BY <2>6 DEF x, y
<1> QED BY <1>1, TracingInvariant, PTL

\* "same job = same trace" (server.go:447) for any number of webhooks, over any time
\* and any restarts: the id is of the webhook alone, and nothing else is put in its
\* place unless a header or a rule does.
THEOREM JobsKeepTheirTraces == TracingSpec => []JobKeepsItsTrace
<1>1. TracingInv => JobKeepsItsTrace
  <2> DEFINE Job(row) == [provider |-> DetectProvider(row.msg).provider,
                          job |-> DetectProvider(row.msg).job]
             Unplaced(row) == /\ row.msg.pipeline = "" /\ ~FromHeader(row)
                              /\ NoRuleFits(row.msg)
  <2> SUFFICES ASSUME TracingInv, NEW i \in DOMAIN rows, NEW j \in DOMAIN rows,
                      Unplaced(rows[i]), Unplaced(rows[j]),
                      Job(rows[i]) = Job(rows[j]), Job(rows[i]).job # ""
               PROVE  rows[i].trace = rows[j].trace
    BY Zenon DEF JobKeepsItsTrace, NoRuleFits
  <2>1. PICK owner \in [issued -> Keys] : RowsPlaced(owner, issued, rows)
    BY DEF TracingInv
  <2> DEFINE match(k) == DetectProvider(rows[k].msg)
  <2>2. /\ match(i).provider = match(j).provider /\ match(i).job = match(j).job
        /\ match(i).job # ""
    OBVIOUS
  <2>3. ASSUME NEW k \in {i, j}
        PROVE  rows[k].trace = match(k).provider \o ":" \o match(k).job
    <3>1. k \in DOMAIN rows /\ Unplaced(rows[k]) /\ match(k).job # ""
      BY <2>2
    <3> QED BY Zenon, <2>1, <3>1 DEF RowsPlaced, RightlyPlaced, JobTrace
  <2> HIDE DEF match
  <2> QED BY Zenon, <2>2, <2>3
<1> QED BY <1>1, TracingInvariant, PTL
-----------------------------------------------------------------------------
\* The principle of the least number, from the well-foundedness of < on Nat.
LEMMA LeastOf ==
  ASSUME NEW C \in SUBSET Nat, C # {}
  PROVE  \E m \in C : \A c \in C : m <= c
<1> DEFINE Less == {p \in Nat \X Nat : p[1] < p[2]}
<1>1. IsWellFoundedOn(Less, Nat)
  BY NatLessThanWellFounded DEF OpToRel
<1>2. PICK m \in C : \A c \in C : ~(<<c, m>> \in Less)
  <2> HIDE DEF Less
  <2> QED BY <1>1, WFMin
<1>3. ASSUME NEW c \in C PROVE m <= c
  <2>1. c \in Nat /\ m \in Nat
    OBVIOUS
  <2>2. ~(c < m)
    BY <1>2, <2>1
  <2> QED BY <2>1, <2>2
<1> QED BY <1>3

\* Steps have a first and a last one.
LEMMA FirstAndLast ==
  ASSUME NEW steps, steps # {}, NEW bound \in Nat, \A row \in steps : row.created \in 0..bound
  PROVE  Earliest(steps) # {} /\ Latest(steps) # {}
<1>1. Earliest(steps) # {}
  <2> DEFINE C == {row.created : row \in steps}
  <2>1. C \in SUBSET Nat /\ C # {}
    OBVIOUS
  <2>2. PICK m \in C : \A c \in C : m <= c
    <3> HIDE DEF C
    <3> QED BY <2>1, LeastOf
  <2>3. PICK row \in steps : row.created = m
    OBVIOUS
  <2> QED BY <2>2, <2>3 DEF Earliest
<1>2. Latest(steps) # {}
  <2> DEFINE C == {bound - row.created : row \in steps}
  <2>1. C \in SUBSET Nat /\ C # {}
    OBVIOUS
  <2>2. PICK m \in C : \A c \in C : m <= c
    <3> HIDE DEF C
    <3> QED BY <2>1, LeastOf
  <2>3. PICK row \in steps : bound - row.created = m
    OBVIOUS
  <2>4. ASSUME NEW r \in steps PROVE row.created >= r.created
    BY <2>2, <2>3
  <2> QED BY <2>4 DEF Latest
<1> QED BY <1>1, <1>2

LEMMA SummaryFields ==
  ASSUME NEW listed, NEW p, NEW t, NEW pipeline, NEW status, NEW finished
  PROVE  /\ Summary(listed, p, t, pipeline, status, finished).trace = t
         /\ Summary(listed, p, t, pipeline, status, finished).status = status
BY Zenon DEF Summary

\* A trace of the list has a summary, whatever became of its steps.
LEMMA TraceHasSummary ==
  ASSUME NEW listed, NEW source, NEW p, NEW t, NEW bound \in Nat,
         \A row \in TraceTimeline(source, t) : row.created \in 0..bound
  PROVE  TraceOf(listed, source, p, t) # {}
<1>1. CASE TraceTimeline(source, t) = {}
  <2>1. TraceOf(listed, source, p, t) = {Unread(listed, p, t)}
    BY Zenon, <1>1 DEF TraceOf
  <2> QED BY Zenon, <2>1
<1>2. CASE TraceTimeline(source, t) # {}
  <2>1. TraceOf(listed, source, p, t) =
            {Summary(listed, p, t, ends[1].pipeline, StatusOf(TraceTimeline(source, t)), {ends[2].created}) :
                ends \in Earliest(TraceTimeline(source, t)) \X Latest(TraceTimeline(source, t))}
    BY Zenon, <1>2 DEF TraceOf
  <2>2. PICK ends : ends \in Earliest(TraceTimeline(source, t)) \X Latest(TraceTimeline(source, t))
    <3>1. Earliest(TraceTimeline(source, t)) # {} /\ Latest(TraceTimeline(source, t)) # {}
      BY Zenon, <1>2, FirstAndLast
    <3>2. PICK first, last : first \in Earliest(TraceTimeline(source, t)) /\ last \in Latest(TraceTimeline(source, t))
      BY Zenon, <3>1
    <3>3. <<first, last>> \in Earliest(TraceTimeline(source, t)) \X Latest(TraceTimeline(source, t))
      BY SMT, <3>2
    <3> QED BY Zenon, <3>3
  <2> QED BY Zenon, <2>1, <2>2
<1> QED BY Zenon, <1>1, <1>2

\* Every summary of a trace names it, and has the status of the steps that were read.
LEMMA SummaryIs ==
  ASSUME NEW listed, NEW source, NEW p, NEW t, NEW s \in TraceOf(listed, source, p, t)
  PROVE  s.trace = t /\ (TraceTimeline(source, t) # {} => s.status = StatusOf(TraceTimeline(source, t)))
<1>1. CASE TraceTimeline(source, t) = {}
  <2>1. TraceOf(listed, source, p, t) = {Unread(listed, p, t)}
    BY Zenon, <1>1 DEF TraceOf
  <2>2. s = Summary(listed, p, t, "", "", {})
    BY Zenon, <2>1 DEF Unread
  <2>3. PICK x, y, z : s = Summary(listed, p, t, x, y, z)
    BY Zenon, <2>2
  <2>4. s.trace = t
    BY SMT, <2>3, SummaryFields
  <2> QED BY Zenon, <1>1, <2>4
<1>2. CASE TraceTimeline(source, t) # {}
  <2>1. TraceOf(listed, source, p, t) =
            {Summary(listed, p, t, ends[1].pipeline, StatusOf(TraceTimeline(source, t)), {ends[2].created}) :
                ends \in Earliest(TraceTimeline(source, t)) \X Latest(TraceTimeline(source, t))}
    BY Zenon, <1>2 DEF TraceOf
  <2>2. PICK ends : s = Summary(listed, p, t, ends[1].pipeline, StatusOf(TraceTimeline(source, t)),
                                {ends[2].created})
    BY Zenon, <2>1
  <2>3. PICK x, y, z : s = Summary(listed, p, t, x, y, z) /\ y = StatusOf(TraceTimeline(source, t))
    BY Zenon, <2>2
  <2>4. s.trace = t /\ s.status = y
    BY SMT, <2>3, SummaryFields
  <2> QED BY Zenon, <2>3, <2>4
<1> QED BY Zenon, <1>1, <1>2

LEMMA SummaryNamesTrace ==
  ASSUME NEW listed, NEW source, NEW p, NEW t, NEW s \in TraceOf(listed, source, p, t)
  PROVE  s.trace = t
BY SMT, SummaryIs

LEMMA SummaryHasStatus ==
  ASSUME NEW listed, NEW source, NEW p, NEW t, NEW s \in TraceOf(listed, source, p, t),
         NEW row \in TraceTimeline(source, t)
  PROVE  s.status = StatusOf(TraceTimeline(source, t))
BY SMT, SummaryIs

LEMMA FailedStatus ==
  ASSUME NEW steps, NEW row \in steps, row.status = "timeout"
  PROVE  StatusOf(steps) = "failed"
BY Zenon DEF StatusOf

LEMMA FailedSummary ==
  ASSUME NEW listed, NEW source, NEW p, NEW t, NEW s \in TraceOf(listed, source, p, t),
         NEW row \in TraceTimeline(source, t), row.status = "timeout"
  PROVE  s.status = "failed"
<1>1. s.status = StatusOf(TraceTimeline(source, t))
  BY SMT, SummaryHasStatus
<1>2. StatusOf(TraceTimeline(source, t)) = "failed"
  BY Zenon, FailedStatus
<1> QED BY Zenon, <1>1, <1>2

LEMMA SequenceFacts ==
  ASSUME NEW s, IsSequence(s)
  PROVE  Len(s) \in Nat /\ DOMAIN s = 1..Len(s)
BY DEF IsSequence

LEMMA Interval ==
  ASSUME NEW n \in Nat
  PROVE  IsFiniteSet(1..n) /\ Cardinality(1..n) = n
<1>1. 1 \in Int /\ n \in Int /\ (IF 1 > n THEN 0 ELSE n - 1 + 1) = n
  OBVIOUS
<1> QED BY Zenon, <1>1, FS_Interval

\* The ids of a pipeline's traces are not more than the rows.
LEMMA FewIDs ==
  ASSUME NEW entries, IsSequence(entries), NEW p
  PROVE  /\ IsFiniteSet(TraceIDs(entries, p))
         /\ Cardinality(TraceIDs(entries, p)) \in Nat
         /\ Cardinality(TraceIDs(entries, p)) <= Len(entries)
<1>1. PICK n \in Nat : n = Len(entries) /\ DOMAIN entries = 1..n
  BY Zenon, SequenceFacts
<1> DEFINE ids == TraceIDs(entries, p)
<1> DEFINE D == {i \in 1..n : entries[i].pipeline = p /\ entries[i].trace # ""}
           f == [i \in D |-> entries[i].trace]
<1>2. IsFiniteSet(D) /\ Cardinality(D) \in Nat /\ Cardinality(D) <= n
  <2>1. IsFiniteSet(1..n) /\ Cardinality(1..n) = n
    BY Zenon, Interval
  <2>2. D \in SUBSET (1..n)
    OBVIOUS
  <2> HIDE DEF D
  <2>3. IsFiniteSet(D) /\ Cardinality(D) <= Cardinality(1..n)
    BY Zenon, <2>1, <2>2, FS_Subset
  <2>4. Cardinality(D) \in Nat
    BY <2>3, FS_CardinalityType
  <2> QED BY <2>1, <2>3, <2>4
<1>3. ids = {entries[i].trace : i \in D}
  BY <1>1 DEF TraceIDs, ToSet
<1> HIDE DEF ids
<1>4. f \in Surjection(D, ids)
  <2> HIDE DEF D
  <2>1. f \in [D -> ids]
    BY <1>3
  <2>2. \A id \in ids : \E i \in D : f[i] = id
    BY <1>3
  <2> QED BY <2>1, <2>2 DEF Surjection
<1> HIDE DEF D, f
<1>5. IsFiniteSet(ids) /\ Cardinality(ids) <= Cardinality(D)
  BY Zenon, <1>2, <1>4, FS_Surjection
<1>6. Cardinality(ids) \in Nat
  BY <1>5, FS_CardinalityType
<1>7. Cardinality(ids) <= n
  BY <1>2, <1>5, <1>6
<1> QED BY Zenon, <1>1, <1>5, <1>6, <1>7 DEF ids

LEMMA NoMoreThanLimit ==
  ASSUME NEW entries, IsSequence(entries), NEW p, NEW limit \in Nat, Len(entries) <= limit
  PROVE  IsFiniteSet(TraceIDs(entries, p)) /\ Cardinality(TraceIDs(entries, p)) <= limit
<1>1. PICK m, n : m = Len(entries) /\ n = Cardinality(TraceIDs(entries, p))
  BY Zenon
<1>2. IsFiniteSet(TraceIDs(entries, p)) /\ n \in Nat /\ n <= m
  BY Zenon, <1>1, FewIDs
<1>3. m \in Nat /\ m <= limit
  BY Zenon, <1>1, SequenceFacts
<1>4. n <= limit
  BY <1>2, <1>3
<1> QED BY Zenon, <1>1, <1>2, <1>4

LEMMA MinOfTwo ==
  ASSUME NEW m \in Nat, NEW n \in Nat, n <= m
  PROVE  Min({m, n}) = n
<1>1. n \in {m, n} /\ \A y \in {m, n} : n =< y
  OBVIOUS
<1>2. \A x \in {m, n} : (\A y \in {m, n} : x =< y) => x = n
  OBVIOUS
<1>3. \E x \in {m, n} : \A y \in {m, n} : x =< y
  BY <1>1
<1> QED BY Zenon, <1>2, <1>3 DEF Min

Summaries(listed, tables, p) ==
    UNION {UNION {TraceOf(listed, source, p, t) : t \in TraceIDs(listed, p)} : source \in tables}
Shown(answer) == {s.trace : s \in answer}
OncePerTrace(answer) == \A s, u \in answer : s.trace = u.trace => s = u

LEMMA SummaryOfOne ==
  ASSUME NEW listed, NEW tables, NEW p, NEW s \in Summaries(listed, tables, p)
  PROVE  /\ s.trace \in TraceIDs(listed, p)
         /\ \E source \in tables : s \in TraceOf(listed, source, p, s.trace)
<1>1. PICK source \in tables, t \in TraceIDs(listed, p) : s \in TraceOf(listed, source, p, t)
  BY SMT DEF Summaries
<1>2. s.trace = t
  BY Zenon, <1>1, SummaryNamesTrace
<1> QED BY Zenon, <1>1, <1>2

LEMMA ShownAreIDs ==
  ASSUME NEW listed, NEW tables, NEW p, NEW answer \in SUBSET Summaries(listed, tables, p)
  PROVE  Shown(answer) \in SUBSET TraceIDs(listed, p)
BY SMT, SummaryOfOne DEF Shown

\* The answers to a query whose limit is no less than the traces are those with all of
\* them.
LEMMA AnswersShowAll ==
  ASSUME NEW listed, NEW tables, NEW p, NEW limit \in Nat,
         IsFiniteSet(TraceIDs(listed, p)), Cardinality(TraceIDs(listed, p)) <= limit
  PROVE  \A answer : answer \in PipelineTraces(listed, tables, p, limit) <=>
            /\ answer \in SUBSET Summaries(listed, tables, p)
            /\ OncePerTrace(answer)
            /\ Shown(answer) = TraceIDs(listed, p)
<1>1. PICK ids : ids = TraceIDs(listed, p)
  BY Zenon
<1>2. Min({limit, Cardinality(ids)}) = Cardinality(ids)
  <2>1. Cardinality(ids) \in Nat /\ Cardinality(ids) <= limit
    BY <1>1, FS_CardinalityType
  <2> QED BY Zenon, <2>1, MinOfTwo
<1>3. TAKE answer
<1>4. ASSUME answer \in SUBSET Summaries(listed, tables, p) PROVE Shown(answer) \in SUBSET ids
  BY Zenon, <1>1, <1>4, ShownAreIDs
<1>5. answer \in PipelineTraces(listed, tables, p, limit) <=>
         /\ answer \in SUBSET Summaries(listed, tables, p)
         /\ OncePerTrace(answer)
         /\ Cardinality(Shown(answer)) = Cardinality(ids)
         /\ \A s \in answer, t \in ids \ Shown(answer) : s.started >= Started(listed, p, t)
  BY Zenon, <1>1, <1>2 DEF PipelineTraces, Summaries, Shown, OncePerTrace
<1>6. ASSUME Shown(answer) \in SUBSET ids, Cardinality(Shown(answer)) = Cardinality(ids)
      PROVE  Shown(answer) = ids
  BY Zenon, <1>1, <1>6, FS_Subset
<1> QED BY Zenon, <1>1, <1>4, <1>5, <1>6

LEMMA EachHasSummary ==
  ASSUME NEW listed, NEW source, NEW p, NEW bound \in Nat,
         \A i \in DOMAIN source : source[i].created \in 0..bound, NEW t
  PROVE  TraceOf(listed, source, p, t) # {}
<1>1. ToSet(source) = {source[i] : i \in DOMAIN source}
  BY Zenon DEF ToSet
<1>2. \A r \in TraceTimeline(source, t) : r.created \in 0..bound
  BY <1>1 DEF TraceTimeline
<1> QED BY Zenon, <1>2, TraceHasSummary

LEMMA OneOfEach ==
  ASSUME NEW listed, NEW tables, NEW source \in tables, NEW p,
         \A t \in TraceIDs(listed, p) : TraceOf(listed, source, p, t) # {}
  PROVE  \E answer : /\ answer \in SUBSET Summaries(listed, tables, p)
                     /\ OncePerTrace(answer)
                     /\ Shown(answer) = TraceIDs(listed, p)
<1> DEFINE Pick(t) == CHOOSE s \in TraceOf(listed, source, p, t) : TRUE
           answer == {Pick(t) : t \in TraceIDs(listed, p)}
<1>1. ASSUME NEW t \in TraceIDs(listed, p) PROVE Pick(t) \in TraceOf(listed, source, p, t)
  BY Zenon
<1> HIDE DEF Pick
<1>2. ASSUME NEW t \in TraceIDs(listed, p) PROVE Pick(t).trace = t
  BY Zenon, <1>1, SummaryNamesTrace
<1>3. answer \in SUBSET Summaries(listed, tables, p)
  BY SMT, <1>1 DEF Summaries
<1>4. OncePerTrace(answer)
  <2>1. ASSUME NEW s \in answer, NEW u \in answer, s.trace = u.trace PROVE s = u
    <3>1. PICK x \in TraceIDs(listed, p) : s = Pick(x)
      BY Zenon
    <3>2. PICK y \in TraceIDs(listed, p) : u = Pick(y)
      BY Zenon
    <3>3. x = y
      BY Zenon, <1>2, <2>1, <3>1, <3>2
    <3> QED BY Zenon, <3>1, <3>2, <3>3
  <2> HIDE DEF answer
  <2> QED BY Zenon, <2>1 DEF OncePerTrace
<1>5. Shown(answer) = TraceIDs(listed, p)
  <2>1. ASSUME NEW s \in answer PROVE s.trace \in TraceIDs(listed, p)
    BY Zenon, <1>2
  <2>2. ASSUME NEW t \in TraceIDs(listed, p) PROVE \E s \in answer : s.trace = t
    BY Zenon, <1>2
  <2> HIDE DEF answer
  <2> QED BY Zenon, <2>1, <2>2 DEF Shown
<1> HIDE DEF answer
<1> QED BY Zenon, <1>3, <1>4, <1>5

\* A query whose limit is no less than the listed rows has an answer.
LEMMA TracesAreAnswered ==
  ASSUME NEW listed, IsSequence(listed), NEW p, NEW limit \in Nat, Len(listed) <= limit,
         NEW tables, NEW source \in tables,
         NEW bound \in Nat, \A i \in DOMAIN source : source[i].created \in 0..bound
  PROVE  PipelineTraces(listed, tables, p, limit) # {}
<1>1. \A t \in TraceIDs(listed, p) : TraceOf(listed, source, p, t) # {}
  BY Zenon, EachHasSummary
<1>2. IsFiniteSet(TraceIDs(listed, p)) /\ Cardinality(TraceIDs(listed, p)) <= limit
  BY Zenon, NoMoreThanLimit
<1>3. \E answer : /\ answer \in SUBSET Summaries(listed, tables, p)
                  /\ OncePerTrace(answer)
                  /\ Shown(answer) = TraceIDs(listed, p)
  BY Zenon, <1>1, OneOfEach
<1> QED BY Zenon, <1>2, <1>3, AnswersShowAll

HasFailed(answer, trace) == \E s \in answer : s.trace = trace /\ s.status = "failed"

\* A row of the table is a failed step of the trace.
FailsIn(source, id) == \E i \in DOMAIN source : source[i].trace = id /\ source[i].status = "timeout"

\* Every such answer has a listed trace as failed, if a failed step is in every table
\* from which its steps may be read.
LEMMA AnswerHasFailed ==
  ASSUME NEW listed, IsSequence(listed), NEW limit \in Nat, Len(listed) <= limit,
         NEW p, NEW id, id # "", NEW j \in DOMAIN listed, listed[j].pipeline = p, listed[j].trace = id,
         NEW tables, \A source \in tables : FailsIn(source, id)
  PROVE  \A answer \in PipelineTraces(listed, tables, p, limit) : HasFailed(answer, id)
<1> TAKE answer \in PipelineTraces(listed, tables, p, limit)
<1>1. listed[j] \in ToSet(listed)
  BY Zenon DEF ToSet
<1>2. id \in TraceIDs(listed, p)
  BY Zenon, <1>1 DEF TraceIDs
<1>3. IsFiniteSet(TraceIDs(listed, p)) /\ Cardinality(TraceIDs(listed, p)) <= limit
  BY Zenon, NoMoreThanLimit
<1>4. answer \in SUBSET Summaries(listed, tables, p) /\ Shown(answer) = TraceIDs(listed, p)
  BY Zenon, <1>3, AnswersShowAll
<1>5. PICK s \in answer : s.trace = id
  BY Zenon, <1>2, <1>4 DEF Shown
<1>6. PICK source \in tables : s \in TraceOf(listed, source, p, id)
  BY Zenon, <1>4, <1>5, SummaryOfOne
<1>7. PICK i \in DOMAIN source : source[i].trace = id /\ source[i].status = "timeout"
  BY Zenon DEF FailsIn
<1>8. source[i] \in TraceTimeline(source, id)
  BY Zenon, <1>7 DEF TraceTimeline, ToSet
<1>9. s.status = "failed"
  BY Zenon, <1>6, <1>7, <1>8, FailedSummary
<1> QED BY Zenon, <1>5, <1>9 DEF HasFailed
-----------------------------------------------------------------------------
\* Who waits for an answer to the row it inserted, and who is about to insert one.
Waiting(pending) == {h \in Handlers : pending[h] # Idle0 /\ pending[h].id # 0}
Inserting(pending) == {h \in Handlers : pending[h] # Idle0 /\ pending[h].id = 0}

\* No more rows than were inserted, each with an id of its own.
RowsOnce(requests, n, clock) ==
    /\ Len(requests) <= n
    /\ \A i \in DOMAIN requests : requests[i].id \in 1..n /\ requests[i].created \in 0..clock
    /\ \A i, j \in DOMAIN requests : requests[i].id = requests[j].id => requests[i] = requests[j]

\* Whom a handler waits for nobody else does, and the row is still pending.
HooksWait(pending, requests, n) ==
    \A h \in Waiting(pending) :
        /\ pending[h].id \in 1..n
        /\ \A i \in DOMAIN requests : requests[i].id = pending[h].id => requests[i].status = "pending"
        /\ \A g \in Waiting(pending) : pending[g].id = pending[h].id => g = h

RoomLeft(pending, n) ==
    /\ IsFiniteSet(Inserting(pending))
    /\ n + Cardinality(Inserting(pending)) <= MaxRows

RowsInv ==
    /\ RowsOnce(rows, inserted, now)
    /\ HooksWait(hooks, rows, inserted)
    /\ RoomLeft(hooks, inserted)

\* What each operation does to the rows and to the handlers.
LEMMA Inserted ==
  ASSUME TracingTypeOK, NEW h \in Handlers, RequestInsert(h)
  PROVE  \E row : /\ row.id = inserted + 1 /\ row.created = now /\ row.status = "pending"
                  /\ Len(rows') = Len(rows) + 1
                  /\ DOMAIN rows \subseteq DOMAIN rows'
                  /\ \A i \in DOMAIN rows : rows'[i] = rows[i]
                  /\ \A i \in DOMAIN rows' : i \in DOMAIN rows \/ rows'[i] = row
<1>1. PICK row : /\ row.id = inserted + 1 /\ row.created = now /\ row.status = "pending"
                 /\ rows' = Append(rows, row)
  <2> DEFINE row == [id |-> inserted + 1, tunnel |-> hooks[h].tunnel, msg |-> hooks[h].msg,
                     pipeline |-> hooks[h].pipeline, step |-> hooks[h].step,
                     trace |-> hooks[h].trace, created |-> now, status |-> "pending"]
  <2>1. rows' = Append(rows, row)
    BY Zenon DEF RequestInsert
  <2>2. row.id = inserted + 1 /\ row.created = now /\ row.status = "pending"
    OBVIOUS
  <2> HIDE DEF row
  <2> QED BY Zenon, <2>1, <2>2
<1>2. IsSequence(rows)
  BY DEF TracingTypeOK
<1>3. PICK S : rows \in Seq(S)
  BY <1>2 DEF IsSequence
<1>4. /\ Len(rows') = Len(rows) + 1
      /\ DOMAIN rows \subseteq DOMAIN rows'
      /\ \A i \in DOMAIN rows : rows'[i] = rows[i]
      /\ \A i \in DOMAIN rows' : i \in DOMAIN rows \/ rows'[i] = row
  <2>1. rows \in Seq(S \cup {row}) /\ row \in S \cup {row} /\ rows' = Append(rows, row)
    BY <1>1, <1>3
  <2> QED BY <2>1
<1> QED BY Zenon, <1>1, <1>4

LEMMA Settled ==
  ASSUME TracingInv, NEW h \in Handlers, Settle(h)
  PROVE  /\ Len(rows') = Len(rows) /\ DOMAIN rows' = DOMAIN rows
         /\ \A i \in DOMAIN rows :
               /\ rows'[i].id = rows[i].id /\ rows'[i].created = rows[i].created
               /\ rows'[i].trace = rows[i].trace /\ rows'[i].pipeline = rows[i].pipeline
               /\ rows[i].id # hooks[h].id => rows'[i] = rows[i]
               /\ \A j \in DOMAIN rows : rows[i] = rows[j] => rows'[i] = rows'[j]
<1>1. TracingTypeOK
  BY DEF TracingInv
<1>2. \A i \in DOMAIN rows : IsRow(rows[i])
  BY Zenon DEF TracingInv, RowsPlaced
<1>3. PICK status :
        rows' = [i \in DOMAIN rows |-> IF rows[i].id = hooks[h].id
                                       THEN [rows[i] EXCEPT !.status = status] ELSE rows[i]]
  BY Zenon DEF Settle
<1> DEFINE New(row) == IF row.id = hooks[h].id THEN [row EXCEPT !.status = status] ELSE row
<1>4. rows' = [i \in DOMAIN rows |-> New(rows[i])]
  BY Zenon, <1>3
<1>5. ASSUME NEW row, IsRow(row)
      PROVE  /\ New(row).id = row.id /\ New(row).created = row.created
             /\ New(row).trace = row.trace /\ New(row).pipeline = row.pipeline
             /\ row.id # hooks[h].id => New(row) = row
  BY <1>5 DEF IsRow
<1> HIDE DEF New
<1>6. DOMAIN rows' = DOMAIN rows /\ \A i \in DOMAIN rows : rows'[i] = New(rows[i])
  BY <1>4
<1>7. Len(rows') = Len(rows)
  <2>1. IsSequence(rows) /\ IsSequence(rows')
    <3>1. IsSequence(rows)
      BY <1>1 DEF TracingTypeOK
    <3>2. rows' = [i \in DOMAIN rows |-> rows'[i]]
      BY <1>4
    <3> QED BY Zenon, <3>1, <3>2, MappedSequence
  <2>2. PICK m, n : m = Len(rows) /\ n = Len(rows')
    BY Zenon
  <2>3. m \in Nat /\ n \in Nat /\ DOMAIN rows = 1..m /\ DOMAIN rows' = 1..n
    BY Zenon, <2>1, <2>2, SequenceFacts
  <2>4. m = n
    <3>1. 1..m = 1..n
      BY Zenon, <1>6, <2>3
    <3> QED BY <2>3, <3>1
  <2> QED BY Zenon, <2>2, <2>4
<1>8. ASSUME NEW i \in DOMAIN rows
      PROVE  /\ rows'[i].id = rows[i].id /\ rows'[i].created = rows[i].created
             /\ rows'[i].trace = rows[i].trace /\ rows'[i].pipeline = rows[i].pipeline
             /\ rows[i].id # hooks[h].id => rows'[i] = rows[i]
  <2>1. PICK row : row = rows[i] /\ rows'[i] = New(row) /\ IsRow(row)
    BY Zenon, <1>2, <1>6
  <2> QED BY Zenon, <1>5, <2>1
<1>9. \A i, j \in DOMAIN rows : rows[i] = rows[j] => rows'[i] = rows'[j]
  BY Zenon, <1>6
<1> QED BY Zenon, <1>6, <1>7, <1>8, <1>9

LEMMA Pruned ==
  ASSUME TracingTypeOK, PruneFirst
  PROVE  /\ Len(rows') = Len(rows) - 1
         /\ \A i \in DOMAIN rows' : \E j \in DOMAIN rows : rows'[i] = rows[j]
<1>1. rows # <<>> /\ rows' = Tail(rows)
  BY DEF PruneFirst
<1>2. IsSequence(rows)
  BY DEF TracingTypeOK
<1>3. PICK S : rows \in Seq(S)
  BY <1>2 DEF IsSequence
<1>4. /\ rows' \in Seq(S) /\ Len(rows') = Len(rows) - 1
      /\ Len(rows) \in Nat /\ DOMAIN rows = 1..Len(rows)
  BY <1>1, <1>3
<1>5. ASSUME NEW i \in DOMAIN rows' PROVE \E j \in DOMAIN rows : rows'[i] = rows[j]
  <2>1. i \in 1..Len(rows) - 1 /\ i + 1 \in 1..Len(rows) /\ rows'[i] = rows[i + 1]
    BY <1>1, <1>3, <1>4
  <2> QED BY <1>4, <2>1
<1> QED BY Zenon, <1>4, <1>5

LEMMA HandlerChanges ==
  ASSUME TracingTypeOK, NEW h \in Handlers, NEW x, hooks' = [hooks EXCEPT ![h] = x]
  PROVE  \A g \in Handlers : hooks'[g] = IF g = h THEN x ELSE hooks[g]
<1>1. hooks = [g \in Handlers |-> hooks[g]]
  BY DEF TracingTypeOK
<1> QED BY <1>1

\* A handler that takes a webhook takes a place among those about to insert.
LEMMA RoomToPlace ==
  ASSUME TracingTypeOK, RoomLeft(hooks, inserted), NEW h \in Handlers, NEW x, x.id = 0,
         inserted + Cardinality(Inserting(hooks)) < MaxRows, hooks[h] = Idle0,
         hooks' = [hooks EXCEPT ![h] = x]
  PROVE  RoomLeft(hooks', inserted)
<1>1. \A g \in Handlers : hooks'[g] = IF g = h THEN x ELSE hooks[g]
  BY Zenon, HandlerChanges
<1>2. PICK S, T : S = Inserting(hooks) /\ T = Inserting(hooks')
  BY Zenon
<1>3. T \in SUBSET (S \cup {h}) /\ h \notin S
  BY Zenon, <1>1, <1>2 DEF Inserting
<1>4. IsFiniteSet(S) /\ inserted + Cardinality(S) < MaxRows
  BY Zenon, <1>2 DEF RoomLeft
<1>5. PICK U : U = S \cup {h}
  BY Zenon
<1>6. IsFiniteSet(U) /\ Cardinality(U) = Cardinality(S) + 1
  BY Zenon, <1>3, <1>4, <1>5, FS_AddElement
<1>7. IsFiniteSet(T) /\ Cardinality(T) <= Cardinality(U)
  BY Zenon, <1>3, <1>5, <1>6, FS_Subset
<1>8. inserted + Cardinality(T) <= MaxRows
  <2>1. PICK s, u, v : s = Cardinality(S) /\ u = Cardinality(U) /\ v = Cardinality(T)
    BY Zenon
  <2>2. s \in Nat /\ u \in Nat /\ v \in Nat
    BY Zenon, <1>4, <1>6, <1>7, <2>1, FS_CardinalityType
  <2>3. inserted \in Nat /\ MaxRows \in Nat /\ u = s + 1 /\ v <= u /\ inserted + s < MaxRows
    BY Zenon, <1>4, <1>6, <1>7, <2>1, RowsAssumption DEF TracingTypeOK
  <2>4. inserted + v <= MaxRows
    BY <2>2, <2>3
  <2> QED BY Zenon, <2>1, <2>4
<1> QED BY Zenon, <1>2, <1>7, <1>8 DEF RoomLeft

\* One that inserts its row gives the place up.
LEMMA RoomToInsert ==
  ASSUME TracingTypeOK, RoomLeft(hooks, inserted), NEW h \in Inserting(hooks), NEW x, x.id # 0,
         hooks' = [hooks EXCEPT ![h] = x]
  PROVE  RoomLeft(hooks', inserted + 1)
<1>1. \A g \in Handlers : hooks'[g] = IF g = h THEN x ELSE hooks[g]
  BY Zenon, HandlerChanges DEF Inserting
<1>2. PICK S, T : S = Inserting(hooks) /\ T = Inserting(hooks')
  BY Zenon
<1>3. T = S \ {h}
  BY Zenon, <1>1, <1>2 DEF Inserting
<1>4. IsFiniteSet(S) /\ inserted + Cardinality(S) <= MaxRows
  BY Zenon, <1>2 DEF RoomLeft
<1>5. IsFiniteSet(T) /\ Cardinality(T) = Cardinality(S) - 1
  BY Zenon, <1>2, <1>3, <1>4, FS_RemoveElement
<1>6. inserted + 1 + Cardinality(T) <= MaxRows
  <2>1. PICK s, v : s = Cardinality(S) /\ v = Cardinality(T)
    BY Zenon
  <2>2. s \in Nat /\ v \in Nat
    BY Zenon, <1>4, <1>5, <2>1, FS_CardinalityType
  <2>3. inserted \in Nat /\ MaxRows \in Nat /\ v = s - 1 /\ inserted + s <= MaxRows
    BY Zenon, <1>4, <1>5, <2>1, RowsAssumption DEF TracingTypeOK
  <2>4. inserted + 1 + v <= MaxRows
    BY <2>2, <2>3
  <2> QED BY Zenon, <2>1, <2>4
<1> QED BY Zenon, <1>2, <1>5, <1>6 DEF RoomLeft

\* Nobody else than those that were about to insert still is.
LEMMA RoomKept ==
  ASSUME TracingTypeOK, RoomLeft(hooks, inserted), Inserting(hooks') \in SUBSET Inserting(hooks)
  PROVE  RoomLeft(hooks', inserted)
<1>1. PICK S, T : S = Inserting(hooks) /\ T = Inserting(hooks')
  BY Zenon
<1>2. IsFiniteSet(S) /\ inserted + Cardinality(S) <= MaxRows
  BY Zenon, <1>1 DEF RoomLeft
<1>3. IsFiniteSet(T) /\ Cardinality(T) <= Cardinality(S)
  BY Zenon, <1>1, <1>2, FS_Subset
<1>4. inserted + Cardinality(T) <= MaxRows
  <2>1. PICK s, v : s = Cardinality(S) /\ v = Cardinality(T)
    BY Zenon
  <2>2. s \in Nat /\ v \in Nat
    BY Zenon, <1>2, <1>3, <2>1, FS_CardinalityType
  <2>3. inserted \in Nat /\ MaxRows \in Nat /\ v <= s /\ inserted + s <= MaxRows
    BY Zenon, <1>2, <1>3, <2>1, RowsAssumption DEF TracingTypeOK
  <2>4. inserted + v <= MaxRows
    BY <2>2, <2>3
  <2> QED BY Zenon, <2>1, <2>4
<1> QED BY Zenon, <1>1, <1>3, <1>4 DEF RoomLeft
-----------------------------------------------------------------------------
LEMMA PlaceRows ==
  ASSUME TracingTypeOK, RowsInv, NEW h \in Handlers, NEW m \in Messages, Place(h, m)
  PROVE  RowsInv'
<1>1. now' = now /\ rows' = rows /\ inserted' = inserted
  BY DEF Place, Correlate, Continue, Start, trackerVars
<1>2. PICK x : x.id = 0 /\ hooks' = [hooks EXCEPT ![h] = x]
  <2> DEFINE Hook(place, trace) == [id |-> 0, tunnel |-> m.tunnel, msg |-> m,
                                    pipeline |-> place.pipeline, step |-> place.step,
                                    trace |-> trace]
  <2>1. PICK place, trace : hooks' = [hooks EXCEPT ![h] = Hook(place, trace)]
    BY Zenon DEF Place
  <2>2. Hook(place, trace).id = 0
    OBVIOUS
  <2> HIDE DEF Hook
  <2> QED BY Zenon, <2>1, <2>2
<1>3. hooks[h] = Idle0 /\ inserted + Cardinality(Inserting(hooks)) < MaxRows
  BY Zenon DEF Place, Inserting
<1>4. RoomLeft(hooks', inserted)
  BY Zenon, <1>2, <1>3, RoomToPlace DEF RowsInv
<1>5. \A g \in Waiting(hooks') : g \in Waiting(hooks) /\ hooks'[g] = hooks[g]
  <2>1. \A g \in Handlers : hooks'[g] = IF g = h THEN x ELSE hooks[g]
    BY Zenon, <1>2, HandlerChanges
  <2> QED BY Zenon, <1>2, <2>1 DEF Waiting
<1>6. HooksWait(hooks', rows, inserted)
  BY Zenon, <1>5 DEF RowsInv, HooksWait
<1> QED BY Zenon, <1>1, <1>4, <1>6 DEF RowsInv

LEMMA InsertRows ==
  ASSUME TracingTypeOK, RowsInv, NEW h \in Handlers, RequestInsert(h)
  PROVE  RowsInv'
<1>1. PICK row : /\ row.id = inserted + 1 /\ row.created = now /\ row.status = "pending"
                 /\ Len(rows') = Len(rows) + 1
                 /\ DOMAIN rows \subseteq DOMAIN rows'
                 /\ \A i \in DOMAIN rows : rows'[i] = rows[i]
                 /\ \A i \in DOMAIN rows' : i \in DOMAIN rows \/ rows'[i] = row
  BY Zenon, Inserted
<1>2. /\ inserted' = inserted + 1 /\ now' = now
      /\ hooks' = [hooks EXCEPT ![h] = [id |-> inserted + 1]]
      /\ h \in Inserting(hooks)
  BY DEF RequestInsert, trackerVars, Inserting
<1>3. inserted \in Nat /\ now \in Nat
  BY DEF TracingTypeOK
<1>4. PICK x : x = [id |-> inserted + 1]
  BY Zenon
<1>5. x.id = inserted + 1 /\ x.id # 0
  BY <1>3, <1>4
<1>6. hooks' = [hooks EXCEPT ![h] = x]
  BY Zenon, <1>2, <1>4
<1>7. RoomLeft(hooks', inserted')
  BY Zenon, <1>2, <1>5, <1>6, RoomToInsert DEF RowsInv
<1>8. \A i \in DOMAIN rows : rows[i].id \in 1..inserted /\ rows[i].created \in 0..now
  BY Zenon DEF RowsInv, RowsOnce
<1>9. RowsOnce(rows', inserted', now')
  <2>1. Len(rows') <= inserted'
    <3>1. PICK n : n = Len(rows)
      BY Zenon
    <3>2. n \in Nat /\ n <= inserted
      BY Zenon, <3>1, SequenceFacts DEF TracingTypeOK, RowsInv, RowsOnce
    <3>3. n + 1 <= inserted + 1
      BY <1>3, <3>2
    <3> QED BY Zenon, <1>1, <1>2, <3>1, <3>3
  <2>2. ASSUME NEW i \in DOMAIN rows' PROVE rows'[i].id \in 1..inserted' /\ rows'[i].created \in 0..now'
    <3>1. inserted + 1 \in 1..inserted + 1 /\ 1..inserted \subseteq 1..inserted + 1 /\ now \in 0..now
      BY <1>3
    <3>2. CASE i \in DOMAIN rows
      BY Zenon, <1>1, <1>2, <1>8, <3>1, <3>2
    <3>3. CASE rows'[i] = row
      BY Zenon, <1>1, <1>2, <3>1, <3>3
    <3> QED BY Zenon, <1>1, <3>2, <3>3
  <2>3. ASSUME NEW i \in DOMAIN rows', NEW j \in DOMAIN rows', rows'[i].id = rows'[j].id
        PROVE  rows'[i] = rows'[j]
    <3>1. \A k \in DOMAIN rows : rows'[k].id # inserted + 1
      <4>1. inserted + 1 \notin 1..inserted
        BY <1>3
      <4> QED BY Zenon, <1>1, <1>8, <4>1
    <3>2. CASE i \in DOMAIN rows /\ j \in DOMAIN rows
      BY Zenon, <1>1, <2>3, <3>2 DEF RowsInv, RowsOnce
    <3>3. CASE i \notin DOMAIN rows \/ j \notin DOMAIN rows
      BY Zenon, <1>1, <2>3, <3>1, <3>3
    <3> QED BY <3>2, <3>3
  <2> QED BY Zenon, <2>1, <2>2, <2>3 DEF RowsOnce
<1>10. HooksWait(hooks', rows', inserted')
  <2>1. \A g \in Handlers : hooks'[g] = IF g = h THEN x ELSE hooks[g]
    BY Zenon, <1>6, HandlerChanges
  <2>2. \A g \in Waiting(hooks') : IF g = h THEN hooks'[g].id = inserted + 1
                                            ELSE g \in Waiting(hooks) /\ hooks'[g] = hooks[g]
    BY Zenon, <1>5, <2>1 DEF Waiting
  <2>3. \A g \in Waiting(hooks) : hooks[g].id \in 1..inserted /\ hooks[g].id # inserted + 1
    <3>1. inserted + 1 \notin 1..inserted
      BY <1>3
    <3> QED BY Zenon, <3>1 DEF RowsInv, HooksWait
  <2>4. inserted + 1 \in 1..inserted + 1 /\ 1..inserted \subseteq 1..inserted + 1
        /\ inserted + 1 \notin 1..inserted
    BY <1>3
  <2>5. ASSUME NEW g \in Waiting(hooks')
        PROVE  /\ hooks'[g].id \in 1..inserted'
               /\ \A f \in Waiting(hooks') : hooks'[f].id = hooks'[g].id => f = g
    <3>1. hooks'[g].id \in 1..inserted'
      BY Zenon, <1>2, <2>2, <2>3, <2>4
    <3>2. ASSUME NEW f \in Waiting(hooks'), hooks'[f].id = hooks'[g].id PROVE f = g
      <4>1. CASE f = h \/ g = h
        BY Zenon, <2>2, <2>3, <3>2, <4>1
      <4>2. CASE f # h /\ g # h
        BY Zenon, <2>2, <3>2, <4>2 DEF RowsInv, HooksWait
      <4> QED BY <4>1, <4>2
    <3> QED BY Zenon, <3>1, <3>2
  <2>6. ASSUME NEW g \in Waiting(hooks'), NEW i \in DOMAIN rows', rows'[i].id = hooks'[g].id
        PROVE  rows'[i].status = "pending"
    <3>1. CASE rows'[i] = row
      BY Zenon, <1>1, <3>1
    <3>2. CASE i \in DOMAIN rows
      <4>1. g # h
        BY Zenon, <1>1, <1>8, <2>2, <2>4, <2>6, <3>2
      <4>2. rows'[i] = rows[i] /\ g \in Waiting(hooks) /\ hooks'[g] = hooks[g]
        BY Zenon, <1>1, <2>2, <3>2, <4>1
      <4>3. rows[i].id = hooks[g].id
        BY Zenon, <2>6, <4>2
      <4>4. rows[i].status = "pending"
        BY Zenon, <3>2, <4>2, <4>3 DEF RowsInv, HooksWait
      <4> QED BY Zenon, <4>2, <4>4
    <3> QED BY Zenon, <1>1, <3>1, <3>2
  <2> QED BY Zenon, <2>5, <2>6 DEF HooksWait
<1> QED BY Zenon, <1>7, <1>9, <1>10 DEF RowsInv

LEMMA SettleRows ==
  ASSUME TracingInv, RowsInv, NEW h \in Handlers, Settle(h)
  PROVE  RowsInv'
<1>1. /\ Len(rows') = Len(rows) /\ DOMAIN rows' = DOMAIN rows
      /\ \A i \in DOMAIN rows :
            /\ rows'[i].id = rows[i].id /\ rows'[i].created = rows[i].created
            /\ rows[i].id # hooks[h].id => rows'[i] = rows[i]
            /\ \A j \in DOMAIN rows : rows[i] = rows[j] => rows'[i] = rows'[j]
  BY Zenon, Settled
<1>2. /\ inserted' = inserted /\ now' = now /\ h \in Waiting(hooks)
      /\ hooks' = [hooks EXCEPT ![h] = Idle0]
  BY DEF Settle, trackerVars, Waiting
<1>3. \A g \in Handlers : hooks'[g] = IF g = h THEN Idle0 ELSE hooks[g]
  BY Zenon, <1>2, HandlerChanges DEF TracingInv
<1>4. RoomLeft(hooks', inserted')
  <2>1. Inserting(hooks') \in SUBSET Inserting(hooks)
    BY Zenon, <1>3 DEF Inserting
  <2> QED BY Zenon, <1>2, <2>1, RoomKept DEF TracingInv, RowsInv
<1>5. RowsOnce(rows', inserted', now')
  <2>1. Len(rows') <= inserted'
    BY Zenon, <1>1, <1>2 DEF RowsInv, RowsOnce
  <2>2. ASSUME NEW i \in DOMAIN rows' PROVE rows'[i].id \in 1..inserted' /\ rows'[i].created \in 0..now'
    <3>1. rows[i].id \in 1..inserted /\ rows[i].created \in 0..now
      BY Zenon, <1>1 DEF RowsInv, RowsOnce
    <3> QED BY Zenon, <1>1, <1>2, <3>1
  <2>3. ASSUME NEW i \in DOMAIN rows', NEW j \in DOMAIN rows', rows'[i].id = rows'[j].id
        PROVE  rows'[i] = rows'[j]
    <3>1. i \in DOMAIN rows /\ j \in DOMAIN rows /\ rows[i].id = rows[j].id
      BY Zenon, <1>1, <2>3
    <3>2. rows[i] = rows[j]
      BY Zenon, <3>1 DEF RowsInv, RowsOnce
    <3> QED BY Zenon, <1>1, <3>1, <3>2
  <2> QED BY Zenon, <2>1, <2>2, <2>3 DEF RowsOnce
<1>6. HooksWait(hooks', rows', inserted')
  <2>1. \A g \in Waiting(hooks') : g # h /\ g \in Waiting(hooks) /\ hooks'[g] = hooks[g]
    BY Zenon, <1>3 DEF Waiting
  <2>2. \A g \in Waiting(hooks') : hooks'[g].id # hooks[h].id
    BY Zenon, <1>2, <2>1 DEF RowsInv, HooksWait
  <2>3. ASSUME NEW g \in Waiting(hooks')
        PROVE  /\ hooks'[g].id \in 1..inserted'
               /\ \A f \in Waiting(hooks') : hooks'[f].id = hooks'[g].id => f = g
    BY Zenon, <1>2, <2>1 DEF RowsInv, HooksWait
  <2>4. ASSUME NEW g \in Waiting(hooks'), NEW i \in DOMAIN rows', rows'[i].id = hooks'[g].id
        PROVE  rows'[i].status = "pending"
    <3>1. i \in DOMAIN rows /\ rows[i].id = hooks[g].id /\ rows[i].id # hooks[h].id
      BY Zenon, <1>1, <2>1, <2>2, <2>4
    <3>2. rows[i].status = "pending"
      BY Zenon, <2>1, <3>1 DEF RowsInv, HooksWait
    <3> QED BY Zenon, <1>1, <3>1, <3>2
  <2> QED BY Zenon, <2>3, <2>4 DEF HooksWait
<1> QED BY Zenon, <1>4, <1>5, <1>6 DEF RowsInv

LEMMA PruneRows ==
  ASSUME TracingTypeOK, RowsInv, PruneFirst
  PROVE  RowsInv'
<1>1. /\ Len(rows') = Len(rows) - 1
      /\ \A i \in DOMAIN rows' : \E j \in DOMAIN rows : rows'[i] = rows[j]
  BY Zenon, Pruned
<1>2. UNCHANGED <<now, hooks, inserted>>
  BY DEF PruneFirst, trackerVars
<1>3. Len(rows') <= inserted
  <2>1. PICK n : n = Len(rows)
    BY Zenon
  <2>2. n \in Nat /\ inserted \in Nat /\ n <= inserted
    BY Zenon, <2>1, SequenceFacts DEF TracingTypeOK, RowsInv, RowsOnce
  <2>3. n - 1 <= inserted
    BY <2>2
  <2> QED BY Zenon, <1>1, <2>1, <2>3
<1>4. RowsOnce(rows', inserted, now)
  <2>1. ASSUME NEW i \in DOMAIN rows', NEW j \in DOMAIN rows', rows'[i].id = rows'[j].id
        PROVE  rows'[i] = rows'[j]
    <3>1. PICK k \in DOMAIN rows : rows'[i] = rows[k]
      BY Zenon, <1>1
    <3>2. PICK l \in DOMAIN rows : rows'[j] = rows[l]
      BY Zenon, <1>1
    <3> QED BY Zenon, <2>1, <3>1, <3>2 DEF RowsInv, RowsOnce
  <2>2. \A i \in DOMAIN rows' : rows'[i].id \in 1..inserted /\ rows'[i].created \in 0..now
    BY Zenon, <1>1 DEF RowsInv, RowsOnce
  <2> QED BY Zenon, <1>3, <2>1, <2>2 DEF RowsOnce
<1>5. HooksWait(hooks, rows', inserted)
  <2>1. ASSUME NEW h \in Waiting(hooks), NEW i \in DOMAIN rows', rows'[i].id = hooks[h].id
        PROVE  rows'[i].status = "pending"
    <3>1. PICK j \in DOMAIN rows : rows'[i] = rows[j]
      BY Zenon, <1>1
    <3>2. rows[j].status = "pending"
      BY Zenon, <2>1, <3>1 DEF RowsInv, HooksWait
    <3> QED BY Zenon, <3>1, <3>2
  <2> QED BY Zenon, <2>1 DEF RowsInv, HooksWait
<1> QED BY <1>2, <1>4, <1>5 DEF RowsInv

\* A restart ends the handlers, and leaves what they did not answer pending for ever.
LEMMA RestartRows ==
  ASSUME TracingTypeOK, RowsInv, TracingRestart
  PROVE  RowsInv'
<1>1. hooks' = [h \in Handlers |-> Idle0] /\ UNCHANGED <<now, rows, inserted>>
  BY DEF TracingRestart, TrackerRestart
<1>2. Inserting(hooks') = {} /\ Waiting(hooks') = {}
  BY <1>1 DEF Inserting, Waiting
<1>3. Inserting(hooks') \in SUBSET Inserting(hooks)
  BY Zenon, <1>2
<1>4. RoomLeft(hooks', inserted)
  BY Zenon, <1>3, RoomKept DEF RowsInv
<1>5. HooksWait(hooks', rows, inserted)
  BY Zenon, <1>2 DEF HooksWait
<1> QED BY Zenon, <1>1, <1>4, <1>5 DEF RowsInv

LEMMA OtherRows ==
  ASSUME TracingTypeOK, RowsInv,
         \/ (TrackerCleanup \/ TrackerTick) /\ UNCHANGED hookVars
         \/ \E r \in RuleSets : PostRules(r)
         \/ RulesPosted
         \/ UNCHANGED tracingVars
  PROVE  RowsInv'
<1>1. UNCHANGED <<hooks, rows, inserted>> /\ (now' = now \/ now' = now + 1)
  BY DEF TrackerCleanup, TrackerTick, Tick, PostRules, RulesPosted, trackerVars, hookVars, tracingVars
<1>2. 0..now \subseteq 0..now'
  <2>1. now \in Nat
    BY DEF TracingTypeOK
  <2> QED BY <1>1, <2>1
<1>3. RowsOnce(rows, inserted, now')
  BY Zenon, <1>2 DEF RowsInv, RowsOnce
<1> QED BY Zenon, <1>1, <1>3 DEF RowsInv

LEMMA RowsInvariant == TracingSpec => []RowsInv
<1>1. TracingInit => RowsInv
  <2> SUFFICES ASSUME TracingInit PROVE RowsInv
    OBVIOUS
  <2>1. hooks = [h \in Handlers |-> Idle0] /\ rows = <<>> /\ inserted = 0
    BY DEF TracingInit
  <2>2. Inserting(hooks) = {} /\ Waiting(hooks) = {}
    BY <2>1 DEF Inserting, Waiting
  <2>3. RoomLeft(hooks, inserted)
    <3>1. IsFiniteSet(Inserting(hooks)) /\ Cardinality(Inserting(hooks)) = 0
      BY Zenon, <2>2, FS_EmptySet
    <3>2. 0 + 0 <= MaxRows
      BY RowsAssumption
    <3> QED BY Zenon, <2>1, <3>1, <3>2 DEF RoomLeft
  <2>4. RowsOnce(rows, inserted, now)
    BY <2>1 DEF RowsOnce
  <2>5. HooksWait(hooks, rows, inserted)
    BY Zenon, <2>2 DEF HooksWait
  <2> QED BY Zenon, <2>3, <2>4, <2>5 DEF RowsInv
<1>2. TracingInv /\ RowsInv /\ [TracingNext]_tracingVars => RowsInv'
  <2> SUFFICES ASSUME TracingInv, RowsInv, [TracingNext]_tracingVars PROVE RowsInv'
    OBVIOUS
  <2>1. TracingTypeOK
    BY Zenon DEF TracingInv
  <2> QED BY <2>1, PlaceRows, InsertRows, SettleRows, PruneRows, RestartRows, OtherRows DEF TracingNext
<1> QED BY <1>1, <1>2, TracingInvariant, PTL DEF TracingSpec

\* A row that failed stays as it is while it is there: nobody waits for it.
LEMMA FailedStays ==
  ASSUME TracingInv, RowsInv, [TracingNext]_tracingVars, rows' # rows,
         NEW i \in DOMAIN rows, rows[i].status = "timeout",
         NEW j \in DOMAIN rows', rows'[j].id = rows[i].id
  PROVE  /\ rows'[j].status = "timeout" /\ rows'[j].trace = rows[i].trace
         /\ rows'[j].pipeline = rows[i].pipeline
<1>1. TracingTypeOK /\ inserted \in Nat
  BY DEF TracingInv, TracingTypeOK
<1>2. rows[i].id \in 1..inserted
  BY Zenon DEF RowsInv, RowsOnce
<1>3. ASSUME NEW k \in DOMAIN rows, rows[k].id = rows[i].id PROVE rows[k] = rows[i]
  BY Zenon, <1>3 DEF RowsInv, RowsOnce
<1>4. ASSUME NEW h \in Handlers, RequestInsert(h) PROVE rows'[j] = rows[i]
  <2>1. PICK row : /\ row.id = inserted + 1
                   /\ \A k \in DOMAIN rows : rows'[k] = rows[k]
                   /\ \A k \in DOMAIN rows' : k \in DOMAIN rows \/ rows'[k] = row
    BY Zenon, <1>1, <1>4, Inserted
  <2>2. inserted + 1 \notin 1..inserted
    BY <1>1
  <2>3. j \in DOMAIN rows /\ rows'[j] = rows[j]
    BY Zenon, <1>2, <2>1, <2>2
  <2>4. rows[j].id = rows[i].id
    BY Zenon, <2>3
  <2> QED BY Zenon, <1>3, <2>3, <2>4
<1>5. ASSUME NEW h \in Handlers, Settle(h) PROVE rows'[j] = rows[i]
  <2>1. j \in DOMAIN rows /\ rows'[j].id = rows[j].id /\ (rows[j].id # hooks[h].id => rows'[j] = rows[j])
    BY Zenon, <1>5, Settled
  <2>2. rows[j].id = rows[i].id
    BY Zenon, <2>1
  <2>3. rows[j] = rows[i]
    BY Zenon, <1>3, <2>1, <2>2
  <2>4. h \in Waiting(hooks)
    BY Zenon, <1>5 DEF Settle, Waiting
  <2>5. rows[i].id = hooks[h].id => rows[i].status = "pending"
    BY Zenon, <2>4 DEF RowsInv, HooksWait
  <2>6. "timeout" # "pending"
    OBVIOUS
  <2> QED BY Zenon, <2>1, <2>3, <2>5, <2>6
<1>6. CASE PruneFirst
  <2>1. PICK k \in DOMAIN rows : rows'[j] = rows[k]
    BY Zenon, <1>1, <1>6, Pruned
  <2>2. rows[k].id = rows[i].id
    BY Zenon, <2>1
  <2>3. rows'[j] = rows[i]
    BY Zenon, <1>3, <2>1, <2>2
  <2> QED BY Zenon, <2>3
<1>7. \/ \E h \in Handlers : RequestInsert(h) \/ Settle(h)
      \/ PruneFirst
  BY DEF TracingNext, Place, PostRules, RulesPosted, TracingRestart, hookVars, tracingVars
<1> QED BY Zenon, <1>4, <1>5, <1>6, <1>7

\* There are no more rows than may be.
LEMMA RowsFit ==
  ASSUME NEW entries, IsSequence(entries), NEW n \in Nat, NEW clock, RowsOnce(entries, n, clock),
         NEW pending, RoomLeft(pending, n)
  PROVE  Len(entries) <= MaxRows
<1>1. PICK S, m : S = Inserting(pending) /\ m = Len(entries)
  BY Zenon
<1>2. IsFiniteSet(S) /\ n + Cardinality(S) <= MaxRows
  BY Zenon, <1>1 DEF RoomLeft
<1>3. PICK c \in Nat : c = Cardinality(S)
  BY Zenon, <1>2, FS_CardinalityType
<1>4. n + c <= MaxRows
  BY Zenon, <1>2, <1>3
<1>5. m \in Nat /\ m <= n
  BY Zenon, <1>1, SequenceFacts DEF RowsOnce
<1>6. MaxRows \in Nat
  BY Zenon, RowsAssumption
<1>7. m <= MaxRows
  BY <1>3, <1>4, <1>5, <1>6
<1> QED BY Zenon, <1>1, <1>7

Answered(listed, tables, p, id) ==
    LET answers == PipelineTraces(listed, tables, p, MaxRows)
    IN answers # {} /\ \A answer \in answers : HasFailed(answer, id)

LEMMA FailedIsAnswered ==
  ASSUME NEW listed, IsSequence(listed), NEW n \in Nat, NEW clock, RowsOnce(listed, n, clock),
         NEW pending, RoomLeft(pending, n),
         NEW p, NEW id, id # "", NEW j \in DOMAIN listed, listed[j].pipeline = p, listed[j].trace = id,
         NEW tables, \A source \in tables : FailsIn(source, id), NEW one \in tables,
         NEW bound \in Nat, \A i \in DOMAIN one : one[i].created \in 0..bound
  PROVE  Answered(listed, tables, p, id)
<1>1. Len(listed) <= MaxRows /\ MaxRows \in Nat
  BY Zenon, RowsFit, RowsAssumption
<1>2. PipelineTraces(listed, tables, p, MaxRows) # {}
  BY Zenon, <1>1, TracesAreAnswered
<1>3. \A answer \in PipelineTraces(listed, tables, p, MaxRows) : HasFailed(answer, id)
  BY Zenon, <1>1, AnswerHasFailed
<1> QED BY Zenon, <1>2, <1>3 DEF Answered

\* A trace that failed stays failed to every query that may show all traces, while the
\* step that failed is in the table: no late step of the pipeline, no restart and no
\* pruning of others revives it, whatever rows share a second and change while the
\* query reads them.
THEOREM FailedTracesStayFailed == TracingSpec => FailureIsSticky
<1> DEFINE Sticky(i) ==
             \A listed \in {rows, rows'} :
                LET answers == PipelineTraces(listed, {rows, rows'}, rows[i].pipeline, MaxRows)
                IN /\ answers # {}
                   /\ \A answer \in answers : \E s \in answer :
                         s.trace = rows[i].trace /\ s.status = "failed"
           Stays == \A i \in DOMAIN rows :
             /\ rows[i].status = "timeout" /\ rows[i].trace # "" /\ rows[i].pipeline # ""
             /\ \E j \in DOMAIN rows' : rows'[j].id = rows[i].id
             => Sticky(i)
<1>1. TracingInv /\ RowsInv /\ TracingInv' /\ RowsInv' /\ [TracingNext]_tracingVars => [Stays]_rows
  <2> SUFFICES ASSUME TracingInv, RowsInv, TracingInv', RowsInv', [TracingNext]_tracingVars,
                      rows' # rows, NEW i \in DOMAIN rows,
                      rows[i].status = "timeout", rows[i].trace # "",
                      NEW j \in DOMAIN rows', rows'[j].id = rows[i].id
               PROVE  Sticky(i)
    BY Zenon
  <2>1. /\ rows'[j].status = "timeout" /\ rows'[j].trace = rows[i].trace
        /\ rows'[j].pipeline = rows[i].pipeline
    BY Zenon, FailedStays
  <2>2. PICK before, after, p, id : before = rows /\ after = rows' /\ p = rows[i].pipeline /\ id = rows[i].trace
    BY Zenon
  <2>3. PICK clock, n, m, waiting, waiting2, clock2 :
            /\ clock = now /\ n = inserted /\ m = inserted' /\ waiting = hooks /\ waiting2 = hooks'
            /\ clock2 = now'
    BY Zenon
  <2>4. /\ IsSequence(before) /\ clock \in Nat /\ n \in Nat /\ RowsOnce(before, n, clock)
        /\ RoomLeft(waiting, n)
    BY Zenon, <2>2, <2>3 DEF TracingInv, TracingTypeOK, RowsInv
  <2>5. /\ IsSequence(after) /\ m \in Nat /\ RowsOnce(after, m, clock2) /\ RoomLeft(waiting2, m)
    BY Zenon, <2>2, <2>3 DEF TracingInv, TracingTypeOK, RowsInv
  <2>6. /\ i \in DOMAIN before /\ before[i].pipeline = p /\ before[i].trace = id /\ id # ""
        /\ j \in DOMAIN after /\ after[j].pipeline = p /\ after[j].trace = id
    BY Zenon, <2>1, <2>2
  <2>7. \A source \in {before, after} : FailsIn(source, id)
    <3>1. FailsIn(before, id) /\ FailsIn(after, id)
      BY Zenon, <2>1, <2>2, <2>6 DEF FailsIn
    <3> QED BY Zenon, <3>1
  <2>8. \A k \in DOMAIN before : before[k].created \in 0..clock
    BY Zenon, <2>4 DEF RowsOnce
  <2>9. PICK tables : tables = {before, after} /\ before \in tables
    BY Zenon
  <2>10. Answered(before, tables, p, id)
    BY Zenon, <2>4, <2>6, <2>7, <2>8, <2>9, FailedIsAnswered
  <2>11. Answered(after, tables, p, id)
    BY Zenon, <2>4, <2>5, <2>6, <2>7, <2>8, <2>9, FailedIsAnswered
  <2> QED BY Zenon, <2>2, <2>9, <2>10, <2>11 DEF Answered, HasFailed
<1> QED BY <1>1, TracingInvariant, RowsInvariant, PTL DEF TracingSpec, FailureIsSticky

\* A page of one tunnel and the whole table agree on what failed, though the page may
\* cut a trace short, and of a trace that is wholly in the page both say the same: in
\* every state, for every page of every size.
THEOREM TwoViewsAgree == TracingSpec => []ViewsAgree
<1>1. ASSUME NEW t, NEW limit, NEW page \in RequestPages(rows, t, limit), NEW id \in DOMAIN CliTraces(page)
      PROVE  LET steps == TraceTimeline(rows, id)
                 failed == StatusOf(steps) = "failed"
             IN /\ CliTraces(page)[id] = "FAILED" => failed
                /\ steps \subseteq page /\ failed => CliTraces(page)[id] = "FAILED"
  <2>1. page \subseteq ToSet(rows)
    BY Zenon DEF RequestPages
  <2>2. CliTraces(page)[id] = "FAILED" <=> \E row \in page : row.trace = id /\ row.status = "timeout"
    BY Zenon DEF CliTraces
  <2>3. \A steps : StatusOf(steps) = "failed" <=> \E row \in steps : row.status = "timeout"
    BY DEF StatusOf
  <2>4. \A row : row \in TraceTimeline(rows, id) <=> row \in ToSet(rows) /\ row.trace = id
    BY Zenon DEF TraceTimeline
  <2> QED BY Zenon, <2>1, <2>2, <2>3, <2>4
<1>2. ViewsAgree
  BY Zenon, <1>1 DEF ViewsAgree
<1> QED BY <1>2, PTL
-----------------------------------------------------------------------------
(* What pie logs prints.                                                   *)

\* The rows of one tunnel, of which a page is a part.
RowsOf(entries, t) == {row \in ToSet(entries) : row.tunnel = t}

\* A page without one of the rows that are left, and with the last of them.
LEMMA NextPage ==
  ASSUME NEW mine, IsFiniteSet(mine), NEW bound \in Nat, \A row \in mine : row.created \in 0..bound,
         NEW page \in SUBSET mine, NEW m \in Nat \ {0}, Cardinality(page) = m - 1,
         m - 1 < Cardinality(mine),
         \A row \in page, left \in mine \ page : left.created <= row.created
  PROVE  \E new \in SUBSET mine :
            Cardinality(new) = m /\ \A row \in new, left \in mine \ new : left.created <= row.created
<1>1. IsFiniteSet(page)
  BY Zenon, FS_Subset
<1>2. mine \ page # {}
  <2>1. page # mine
    <3>1. PICK c : c = Cardinality(mine)
      BY Zenon
    <3>2. m - 1 < c
      BY Zenon, <3>1
    <3>3. c \in Nat
      BY Zenon, <3>1, FS_CardinalityType
    <3>4. m - 1 # c
      BY <3>2, <3>3
    <3> QED BY Zenon, <3>1, <3>4
  <2> QED BY Zenon, <2>1
<1>3. PICK last : last \in Latest(mine \ page)
  <2>1. \A row \in mine \ page : row.created \in 0..bound
    BY Zenon
  <2> QED BY Zenon, <1>2, <2>1, FirstAndLast
<1>4. last \in mine /\ last \notin page /\ \A left \in mine \ page : last.created >= left.created
  BY Zenon, <1>3 DEF Latest
<1>5. PICK new : new = page \cup {last}
  BY Zenon
<1>6. Cardinality(new) = m
  <2>1. Cardinality(new) = Cardinality(page) + 1
    BY Zenon, <1>1, <1>4, <1>5, FS_AddElement
  <2>2. (m - 1) + 1 = m
    OBVIOUS
  <2> QED BY Zenon, <2>1, <2>2
<1>7. ASSUME NEW row \in new, NEW left \in mine \ new PROVE left.created <= row.created
  <2>1. left \in mine \ page /\ (row \in page \/ row = last)
    BY Zenon, <1>5, <1>7
  <2>2. CASE row \in page
    BY Zenon, <2>1, <2>2
  <2>3. CASE row = last
    <3>1. PICK a \in 0..bound, b \in 0..bound : a = last.created /\ b = left.created
      BY Zenon, <1>4, <2>1
    <3>2. a >= b
      BY Zenon, <1>4, <2>1, <3>1
    <3>3. b <= a
      BY <3>2
    <3> QED BY Zenon, <2>3, <3>1, <3>3
  <2> QED BY Zenon, <2>1, <2>2, <2>3
<1>8. new \in SUBSET mine
  BY Zenon, <1>4, <1>5
<1> QED BY Zenon, <1>6, <1>7, <1>8

\* There is a page of every size, of a finite table.
LEMMA PagesExist ==
  ASSUME NEW entries, IsFiniteSet(ToSet(entries)), NEW bound \in Nat,
         \A row \in ToSet(entries) : row.created \in 0..bound, NEW t, NEW limit \in Nat
  PROVE  RequestPages(entries, t, limit) # {}
<1> DEFINE mine == RowsOf(entries, t)
<1>1. /\ IsFiniteSet(mine) /\ \A row \in mine : row.created \in 0..bound
  <2>1. mine \in SUBSET ToSet(entries)
    BY Zenon DEF RowsOf
  <2>2. IsFiniteSet(mine)
    BY Zenon, <2>1, FS_Subset
  <2> QED BY Zenon, <2>1, <2>2
<1>2. PICK c \in Nat : c = Cardinality(mine)
  BY Zenon, <1>1, FS_CardinalityType
<1>3. \A k, page : page \in RequestPages(entries, t, k) <=>
          /\ page \in SUBSET mine /\ Cardinality(page) = Min({k, c})
          /\ \A row \in page, left \in mine \ page : left.created <= row.created
  BY Zenon, <1>2 DEF RequestPages, RowsOf
<1> HIDE DEF mine
<1>4. SUFFICES ASSUME RequestPages(entries, t, limit) = {} PROVE FALSE
  OBVIOUS
<1>5. PICK C : C = {k \in Nat : RequestPages(entries, t, k) = {}}
  BY Zenon
<1>6. C \in SUBSET Nat /\ limit \in C
  BY Zenon, <1>4, <1>5
<1>7. PICK m \in C : \A k \in C : m <= k
  BY Zenon, <1>6, LeastOf
<1>8. m \in Nat /\ \A page : page \notin RequestPages(entries, t, m)
  BY Zenon, <1>5, <1>7
<1>9. m # 0
  <2>1. SUFFICES ASSUME m = 0 PROVE FALSE
    OBVIOUS
  <2>2. 0 <= c /\ 0 \in Nat
    OBVIOUS
  <2>3. Min({m, c}) = 0
    <3>1. {c, 0} = {m, c}
      BY Zenon, <2>1
    <3> QED BY Zenon, <2>2, <3>1, MinOfTwo
  <2>4. Cardinality({}) = 0 /\ {} \in SUBSET mine
    BY Zenon, FS_EmptySet
  <2>5. {} \in RequestPages(entries, t, m)
    BY Zenon, <1>3, <2>3, <2>4
  <2> QED BY Zenon, <1>8, <2>5
<1>10. m - 1 \in Nat /\ ~(m <= m - 1)
  BY <1>8, <1>9
<1>11. PICK page : page \in RequestPages(entries, t, m - 1)
  <2>1. m - 1 \notin C
    BY Zenon, <1>7, <1>10
  <2> QED BY Zenon, <1>5, <1>10, <2>1
<1>12. /\ page \in SUBSET mine /\ Cardinality(page) = Min({m - 1, c})
       /\ \A row \in page, left \in mine \ page : left.created <= row.created
  BY Zenon, <1>3, <1>11
<1>13. CASE c <= m - 1
  <2>1. c <= m
    BY <1>8, <1>13
  <2>2. Min({m - 1, c}) = c /\ Min({m, c}) = c
    BY Zenon, <1>8, <1>10, <1>13, <2>1, MinOfTwo
  <2> QED BY Zenon, <1>3, <1>8, <1>12, <2>2
<1>14. CASE m - 1 < c
  <2>1. m - 1 <= c /\ m <= c /\ m \in Nat \ {0}
    BY <1>8, <1>9, <1>14
  <2>2. {c, m - 1} = {m - 1, c} /\ {c, m} = {m, c}
    BY Zenon
  <2>3. Min({m - 1, c}) = m - 1 /\ Min({m, c}) = m
    BY Zenon, <1>8, <1>10, <2>1, <2>2, MinOfTwo
  <2>4. Cardinality(page) = m - 1
    BY Zenon, <1>12, <2>3
  <2>5. PICK new \in SUBSET mine :
            Cardinality(new) = m /\ \A row \in new, left \in mine \ new : left.created <= row.created
    <3>1. m - 1 < Cardinality(mine)
      BY Zenon, <1>2, <1>14
    <3>2. \A row \in page, left \in mine \ page : left.created <= row.created
      BY Zenon, <1>12
    <3>3. IsFiniteSet(mine) /\ (\A row \in mine : row.created \in 0..bound) /\ page \in SUBSET mine
      BY Zenon, <1>1, <1>12
    <3>4. bound \in Nat
      BY Zenon
    <3> QED BY SMT, <2>1, <2>4, <3>1, <3>2, <3>3, <3>4, NextPage
  <2> QED BY Zenon, <1>3, <1>8, <2>3, <2>5
<1>15. c <= m - 1 \/ m - 1 < c
  BY <1>10
<1> QED BY Zenon, <1>13, <1>14, <1>15

\* A row than which few are more recent is in every page.
LEMMA RecentIsInPage ==
  ASSUME NEW entries, IsFiniteSet(ToSet(entries)), NEW t, NEW limit \in Nat,
         NEW row \in RowsOf(entries, t),
         NEW recent, recent = {r \in ToSet(entries) : r.created >= row.created},
         Cardinality(recent) <= limit,
         \A r \in ToSet(entries) : r.created \in Nat,
         NEW page \in RequestPages(entries, t, limit)
  PROVE  row \in page
<1> DEFINE mine == RowsOf(entries, t)
<1>1. SUFFICES ASSUME row \notin page PROVE FALSE
  OBVIOUS
<1>2. mine \in SUBSET ToSet(entries) /\ recent \in SUBSET ToSet(entries)
  BY Zenon DEF RowsOf
<1>3. IsFiniteSet(mine) /\ IsFiniteSet(recent)
  BY Zenon, <1>2, FS_Subset
<1>4. PICK c \in Nat, k \in Nat, n \in Nat :
          c = Cardinality(mine) /\ k = Cardinality(recent) /\ n = Cardinality(page)
  <2>1. IsFiniteSet(page)
    BY Zenon, <1>3, FS_Subset DEF RequestPages, RowsOf
  <2> QED BY Zenon, <1>3, <2>1, FS_CardinalityType
<1>5. /\ page \in SUBSET mine /\ n = Min({limit, c})
      /\ \A r \in page, left \in mine \ page : left.created <= r.created
  BY Zenon, <1>4 DEF RequestPages, RowsOf
<1>6. row \in mine \ page
  BY Zenon, <1>1
<1>7. page \in SUBSET (recent \ {row})
  <2>1. ASSUME NEW r \in page PROVE r \in recent \ {row}
    <3>1. r \in ToSet(entries) /\ row \in ToSet(entries) /\ row.created <= r.created
      BY Zenon, <1>2, <1>5, <1>6
    <3>2. PICK a \in Nat, b \in Nat : a = row.created /\ b = r.created
      BY Zenon, <3>1
    <3>3. a <= b
      BY Zenon, <3>1, <3>2
    <3>4. b >= a
      BY <3>3
    <3> QED BY Zenon, <1>1, <3>1, <3>2, <3>4
  <2> QED BY Zenon, <2>1
<1>8. row \in recent
  <2>1. row \in ToSet(entries)
    BY Zenon, <1>2
  <2>2. PICK a \in Nat : a = row.created
    BY Zenon, <2>1
  <2>3. a >= a
    OBVIOUS
  <2> QED BY Zenon, <2>1, <2>2, <2>3
<1>9. n <= k - 1
  <2>1. IsFiniteSet(recent \ {row}) /\ Cardinality(recent \ {row}) = Cardinality(recent) - 1
    BY Zenon, <1>3, <1>8, FS_RemoveElement
  <2>2. Cardinality(page) <= Cardinality(recent \ {row})
    BY Zenon, <1>7, <2>1, FS_Subset
  <2> QED BY Zenon, <1>4, <2>1, <2>2
<1>10. n < c
  <2>1. IsFiniteSet(mine \ {row}) /\ Cardinality(mine \ {row}) = Cardinality(mine) - 1
    BY Zenon, <1>3, <1>6, FS_RemoveElement
  <2>2. page \in SUBSET (mine \ {row})
    BY Zenon, <1>1, <1>5
  <2>3. Cardinality(page) <= Cardinality(mine \ {row})
    BY Zenon, <2>1, <2>2, FS_Subset
  <2>4. n <= c - 1
    BY Zenon, <1>4, <2>1, <2>3
  <2> QED BY <2>4
<1>11. k <= limit
  BY Zenon, <1>4
<1>12. CASE c <= limit
  <2>1. n = c
    BY Zenon, <1>5, <1>12, MinOfTwo
  <2> QED BY <1>10, <2>1
<1>13. CASE limit <= c
  <2>1. {limit, c} = {c, limit}
    BY Zenon
  <2>2. n = limit
    BY Zenon, <1>5, <1>13, <2>1, MinOfTwo
  <2> QED BY <1>9, <1>11, <2>2
<1>14. c <= limit \/ limit <= c
  OBVIOUS
<1> QED BY Zenon, <1>12, <1>13, <1>14

LEMMA FiniteRange ==
  ASSUME NEW S, NEW s \in Seq(S)
  PROVE  IsFiniteSet(ToSet(s))
<1>1. PICK n \in Nat : n = Len(s) /\ DOMAIN s = 1..n
  OBVIOUS
<1>2. [i \in 1..n |-> s[i]] \in Surjection(1..n, ToSet(s))
  BY <1>1 DEF Surjection, ToSet
<1>3. IsFiniteSet(1..n)
  BY Zenon, Interval
<1> QED BY Zenon, <1>2, <1>3, FS_Surjection

Logged(clock) == [id : Nat, tunnel : {"followed"}, created : 0..clock,
                  status : {"pending", "forwarded", "timeout"}]

LEMMA LoggedRows ==
  ASSUME NEW clock \in Nat
  PROVE  /\ \A n \in Nat : [id |-> n + 1, tunnel |-> "followed", created |-> clock,
                           status |-> "pending"] \in Logged(clock)
         /\ \A row \in Logged(clock) : /\ row.tunnel = "followed" /\ row.created \in 0..clock
                                       /\ row.created \in Nat
                                       /\ [row EXCEPT !.status = "forwarded"] \in Logged(clock)
                                       /\ [row EXCEPT !.status = "timeout"] \in Logged(clock)
<1>1. ASSUME NEW n \in Nat
      PROVE  [id |-> n + 1, tunnel |-> "followed", created |-> clock, status |-> "pending"] \in Logged(clock)
  <2>1. n + 1 \in Nat /\ clock \in 0..clock
    OBVIOUS
  <2>2. "followed" \in {"followed"} /\ "pending" \in {"pending", "forwarded", "timeout"}
    OBVIOUS
  <2> QED BY <2>1, <2>2 DEF Logged
<1>2. ASSUME NEW row \in Logged(clock), NEW status \in {"forwarded", "timeout"}
      PROVE  /\ row.tunnel = "followed" /\ row.created \in 0..clock
             /\ row.created \in Nat
             /\ [row EXCEPT !.status = status] \in Logged(clock)
  BY DEF Logged
<1>3. "forwarded" \in {"forwarded", "timeout"} /\ "timeout" \in {"forwarded", "timeout"}
  OBVIOUS
<1> QED BY Zenon, <1>1, <1>2, <1>3

LogTypeOK == now \in Nat /\ stored \in Nat /\ table \in Seq(Logged(now))

LEMMA LogStep ==
  ASSUME LogTypeOK, [LogNext]_logVars
  PROVE  LogTypeOK'
<1> USE DEF LogTypeOK
<1>1. CASE Store
  <2>1. [id |-> stored + 1, tunnel |-> "followed", created |-> now, status |-> "pending"] \in Logged(now)
    BY Zenon, LoggedRows
  <2> QED BY <1>1, <2>1 DEF Store
<1>2. CASE SetStatus
  <2>1. PICK i \in DOMAIN table, status \in {"forwarded", "timeout"} :
            table' = [table EXCEPT ![i].status = status] /\ UNCHANGED <<now, stored>>
    BY <1>2 DEF SetStatus
  <2>2. table[i] \in Logged(now)
    OBVIOUS
  <2>3. [table[i] EXCEPT !.status = status] \in Logged(now)
    BY Zenon, <2>1, <2>2, LoggedRows
  <2> QED BY <2>1, <2>3
<1>3. CASE RequestPrune
  <2>1. PICK n \in DOMAIN table : table' = SubSeq(table, n + 1, Len(table)) /\ UNCHANGED <<now, stored>>
    BY <1>3 DEF RequestPrune
  <2> QED BY <2>1
<1>4. CASE LogTick
  <2>1. now' = now + 1 /\ UNCHANGED <<table, stored>>
    BY <1>4 DEF LogTick, Tick
  <2>2. Logged(now) \subseteq Logged(now + 1)
    BY DEF Logged
  <2>3. table \in Seq(Logged(now + 1))
    BY <2>2
  <2> QED BY <2>1, <2>3
<1>5. CASE Poll \/ UNCHANGED logVars
  BY <1>5 DEF Poll, logVars
<1> QED BY <1>1, <1>2, <1>3, <1>4, <1>5 DEF LogNext

\* When no page that the server may send has a row to print, every row was printed or was
\* pushed out: what polls cannot find is no more than what FollowedIsPrinted excuses, for
\* any number of rows, of rows in one second, and of rows in a page.
THEOREM PollMissesOnlyPushedOut ==
  LogSpec => []((\A page \in RequestPages(table, "followed", Limit) :
                     \A row \in page : row.id \in DOMAIN seen) => PrintedOrPushedOut)
<1>1. LogInit => LogTypeOK
  BY DEF LogInit, LogTypeOK
<1>2. LogTypeOK /\ [LogNext]_logVars => LogTypeOK'
  BY LogStep
<1>3. ASSUME LogTypeOK, NEW row \in ToSet(table),
             \A page \in RequestPages(table, "followed", Limit) : \A r \in page : r.id \in DOMAIN seen,
             ~(Cardinality(AsRecent(row)) > Limit)
      PROVE  row.id \in DOMAIN seen
  <2>1. \A r \in ToSet(table) : r.tunnel = "followed" /\ r.created \in 0..now /\ r.created \in Nat
    <3>1. \A r \in ToSet(table) : r \in Logged(now)
      BY <1>3 DEF LogTypeOK, ToSet
    <3> QED BY Zenon, <1>3, <3>1, LoggedRows DEF LogTypeOK
  <2>2. IsFiniteSet(ToSet(table))
    BY Zenon, <1>3, FiniteRange DEF LogTypeOK
  <2>3. Limit \in Nat /\ now \in Nat
    BY Zenon, <1>3, LogAssumption DEF LogTypeOK
  <2>4. PICK recent : recent = AsRecent(row)
    BY Zenon
  <2>5. Cardinality(recent) <= Limit
    <3>1. recent \in SUBSET ToSet(table)
      BY Zenon, <2>4 DEF AsRecent
    <3>2. PICK c \in Nat : c = Cardinality(recent)
      BY Zenon, <2>2, <3>1, FS_Subset, FS_CardinalityType
    <3>3. ~(c > Limit)
      BY Zenon, <1>3, <2>4, <3>2
    <3>4. c <= Limit
      BY <2>3, <3>3
    <3> QED BY Zenon, <3>2, <3>4
  <2>6. PICK page : page \in RequestPages(table, "followed", Limit)
    <3>1. \A r \in ToSet(table) : r.created \in 0..now
      BY Zenon, <2>1
    <3> QED BY Zenon, <2>2, <2>3, <3>1, PagesExist
  <2>7. row \in RowsOf(table, "followed")
    BY Zenon, <2>1 DEF RowsOf
  <2>8. \A r \in ToSet(table) : r.created \in Nat
    BY Zenon, <2>1
  <2>9. row \in page
    BY Zenon, <2>2, <2>3, <2>4, <2>5, <2>6, <2>7, <2>8, RecentIsInPage DEF AsRecent
  <2> QED BY Zenon, <1>3, <2>6, <2>9
<1>4. ASSUME LogTypeOK, \A page \in RequestPages(table, "followed", Limit) :
                            \A row \in page : row.id \in DOMAIN seen
      PROVE  PrintedOrPushedOut
  BY Zenon, <1>3, <1>4 DEF PrintedOrPushedOut
<1> QED BY <1>1, <1>2, <1>4, PTL DEF LogSpec
=============================================================================
