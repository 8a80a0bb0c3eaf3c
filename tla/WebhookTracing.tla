--------------------------- MODULE WebhookTracing ---------------------------
(***************************************************************************)
(* How handleWebhook (server.go) puts a webhook into a pipeline and a      *)
(* trace: headers, else path rules that may be replaced meanwhile, else    *)
(* the provider's message, else correlation by time.  The row is inserted  *)
(* after that and settled later.                                           *)
(***************************************************************************)
EXTENDS PipelineTracker, ProviderDetection, TraceQueries

CONSTANTS Messages,   \* webhooks: tunnel, headers, path as a sequence of parts, body
          RuleSets,   \* what may be posted as pipeline rules
          Handlers,   \* goroutines of handleWebhook
          Idle0,      \* a handler with no webhook
          MaxRows     \* how many webhooks the model inserts

VARIABLES rules,      \* Server.cfg.PipelineRules
          posted,     \* the rules being assigned to it, or the same
          hooks,      \* what each handler is about to insert, or the id it waits for
          rows,       \* the requests table
          inserted    \* how many rows there have been

hookVars == <<rules, posted, hooks, rows, inserted>>
tracingVars == <<trackerVars, hookVars>>

TracingInit ==
    /\ TrackerInit
    /\ rules = <<>> /\ posted = <<>>
    /\ hooks = [h \in Handlers |-> Idle0]
    /\ rows = <<>> /\ inserted = 0
-----------------------------------------------------------------------------
\* The handler reads the slice without a lock: while it is assigned the length
\* and the array may be those of different rules.  Past the shorter array there
\* is some other memory, here whatever rules were ever posted (a fault there is a
\* restart).
Views ==
    LET Torn(array, len) ==
            {[i \in 1..len |-> IF i <= Len(array) THEN array[i] ELSE garbage] :
                garbage \in UNION {ToSet(r) : r \in RuleSets}}
    IN IF rules = posted THEN {rules}
       ELSE UNION {Torn(array, len) : array \in {rules, posted}, len \in {Len(rules), Len(posted)}}

\* A row's place: pipeline, step and trace.
FromHeaders(m) == [pipeline |-> m.pipeline, step |-> m.step, trace |-> m.trace]

\* Only the first matching rule counts, even one without a pipeline.
FromRules(place, m, view) ==
    LET Matches(i) == IsPrefix(view[i].prefix, m.path)
        first == {i \in DOMAIN view : Matches(i) /\ \A j \in 1..i - 1 : ~Matches(j)}
        rule == view[CHOOSE i \in first : TRUE]
    IN IF place.pipeline # "" \/ first = {} THEN place
       ELSE [place EXCEPT !.pipeline = rule.pipeline, !.step = rule.step]

JobTrace(match) == match.provider \o ":" \o match.job

\* A rule as it is posted.
Rule == [prefix : Seq(STRING), pipeline : Pipelines \cup {""}, step : STRING]

ASSUME RowsAssumption == MaxRows \in Nat

\* The tracker has an entry for every pipeline.  Its ids begin with "tr-", those of
\* jobs with a provider and a colon, which no provider's name has in it.
ASSUME TracingAssumption ==
    /\ RuleSets \subseteq Seq(Rule)
    /\ \A m \in Messages :
          /\ m.tunnel \in Tunnels
          /\ {m.pipeline, DetectProvider(m).provider} \subseteq Pipelines \cup {""}
          /\ JobTrace(DetectProvider(m)) \notin Traces \cup {""}
    /\ \A m, n \in Messages : JobTrace(DetectProvider(m)) = JobTrace(DetectProvider(n))
                              => DetectProvider(m).provider = DetectProvider(n).provider

\* Mutant: the job id alone.
FromBareJob(place, m) ==
    LET match == DetectProvider(m)
    IN IF place.pipeline # "" \/ match = NoMatch THEN place
       ELSE [pipeline |-> match.provider,
             step |-> match.step,
             trace |-> IF place.trace = "" THEN match.job ELSE place.trace]

\* Mutant: the job id is left to correlation.
FromProviderOnly(place, m) ==
    LET match == DetectProvider(m)
    IN IF place.pipeline # "" \/ match = NoMatch THEN place
       ELSE [pipeline |-> match.provider, step |-> match.step, trace |-> place.trace]

FromProvider(place, m) ==
    LET match == DetectProvider(m)
    IN IF place.pipeline # "" \/ match = NoMatch THEN place
       ELSE [pipeline |-> match.provider,
             step |-> IF match.model = "" THEN match.step ELSE match.step \o ":" \o match.model,
             trace |-> IF match.job # "" /\ place.trace = "" THEN JobTrace(match) ELSE place.trace]

\* The last part of the path names a step of a pipeline that has no name.
Named(place, m) ==
    IF place.step # "" \/ place.pipeline = "" THEN place
    ELSE LET parts == SelectSeq(m.path, LAMBDA part : part # "/")
         IN [place EXCEPT !.step = IF parts = <<>> THEN "" ELSE Last(parts)]

\* Of a webhook with neither pipeline nor trace no step is stored.
Stored(place) ==
    IF place.pipeline = "" /\ place.trace = "" THEN [place EXCEPT !.step = ""] ELSE place

Placed(m, view) == Stored(Named(FromProvider(FromRules(FromHeaders(m), m, view), m), m))

Place(h, m) ==
    /\ hooks[h] = Idle0
    /\ inserted + Cardinality({g \in Handlers : hooks[g] # Idle0 /\ hooks[g].id = 0}) < MaxRows
    /\ \E view \in Views :
        LET place == Placed(m, view)
            Insert(trace) == hooks' = [hooks EXCEPT ![h] =
                                [id |-> 0, tunnel |-> m.tunnel, msg |-> m, pipeline |-> place.pipeline,
                                 step |-> place.step, trace |-> trace]]
        IN IF place.pipeline # "" /\ place.trace = ""
           THEN /\ Correlate(m.tunnel, place.pipeline)
                /\ Insert(given'[<<m.tunnel, place.pipeline>>].traceID)
           ELSE Insert(place.trace) /\ UNCHANGED trackerVars
    /\ UNCHANGED <<rules, posted, rows, inserted>>

RequestInsert(h) ==
    /\ hooks[h] # Idle0 /\ hooks[h].id = 0
    /\ LET hook == hooks[h]
       IN rows' = Append(rows,
              [id |-> inserted + 1, tunnel |-> hook.tunnel, msg |-> hook.msg,
               pipeline |-> hook.pipeline, step |-> hook.step, trace |-> hook.trace,
               created |-> now, status |-> "pending"])
    /\ inserted' = inserted + 1
    /\ hooks' = [hooks EXCEPT ![h] = [id |-> inserted + 1]]
    /\ UNCHANGED <<trackerVars, rules, posted>>

\* RequestSetResponse or RequestSetTimeout; there is nothing to update in a
\* table from which the row was pruned.
Settle(h) ==
    /\ hooks[h] # Idle0 /\ hooks[h].id # 0
    /\ \E status \in {"forwarded", "timeout"} :
        rows' = [i \in DOMAIN rows |-> IF rows[i].id = hooks[h].id
                                       THEN [rows[i] EXCEPT !.status = status] ELSE rows[i]]
    /\ hooks' = [hooks EXCEPT ![h] = Idle0]
    /\ UNCHANGED <<trackerVars, rules, posted, inserted>>

\* handleSetPipelineRules: the assignment begins, and is visible to all.
PostRules(r) ==
    /\ rules = posted /\ posted' = r /\ r # rules
    /\ UNCHANGED <<trackerVars, rules, hooks, rows, inserted>>

RulesPosted ==
    /\ rules # posted /\ rules' = posted
    /\ UNCHANGED <<trackerVars, posted, hooks, rows, inserted>>

\* RequestPrune: the oldest rows go.
PruneFirst ==
    /\ rows # <<>>
    /\ rows' = Tail(rows)
    /\ UNCHANGED <<trackerVars, rules, posted, hooks, inserted>>

\* The server dies with its rules, its table of traces and its handlers.
TracingRestart ==
    /\ TrackerRestart
    /\ rules' = <<>> /\ posted' = <<>>
    /\ hooks' = [h \in Handlers |-> Idle0]
    /\ UNCHANGED <<rows, inserted>>

TracingNext ==
    \/ \E h \in Handlers : \/ \E m \in Messages : Place(h, m)
                           \/ RequestInsert(h)
                           \/ Settle(h)
    \/ \E r \in RuleSets : PostRules(r)
    \/ RulesPosted \/ PruneFirst \/ TracingRestart
    \/ (TrackerCleanup \/ TrackerTick) /\ UNCHANGED hookVars

TracingSpec == TracingInit /\ [][TracingNext]_tracingVars
-----------------------------------------------------------------------------
FromHeader(row) == row.msg.trace # ""

\* A trace tells its pipeline, and a generated one its tunnel too, unless its id
\* came in a header: whichever rules, detectors and restarts placed the rows,
\* PipelineTraces never shows a step under the pipeline of another.
TraceTellsPipeline ==
    \A i, j \in DOMAIN rows :
        /\ rows[i].trace = rows[j].trace /\ rows[i].trace # ""
        /\ ~FromHeader(rows[i]) /\ ~FromHeader(rows[j])
        => /\ rows[i].pipeline = rows[j].pipeline
           /\ rows[i].trace \in issued => rows[i].tunnel = rows[j].tunnel

\* Webhooks of one job that no header and no rule placed are in one trace, however
\* long the job takes and whether or not the server restarts in between ("same
\* job = same trace", server.go:447).
JobKeepsItsTrace ==
    \A i, j \in DOMAIN rows :
        LET Job(row) == [provider |-> DetectProvider(row.msg).provider,
                         job |-> DetectProvider(row.msg).job]
            Unplaced(row) == /\ row.msg.pipeline = "" /\ ~FromHeader(row)
                             /\ \A r \in RuleSets : \A k \in DOMAIN r :
                                    ~IsPrefix(r[k].prefix, row.msg.path)
        IN /\ Unplaced(rows[i]) /\ Unplaced(rows[j])
           /\ Job(rows[i]) = Job(rows[j]) /\ Job(rows[i]).job # ""
           => rows[i].trace = rows[j].trace

\* A trace with a failed step is failed to PipelineTraces while the step is in the
\* table: the late steps of a pipeline do not revive it, nor does a change of the rows
\* between the query for the list and those for the steps.
FailureIsSticky ==
    [][\A i \in DOMAIN rows :
        /\ rows[i].status = "timeout" /\ rows[i].trace # "" /\ rows[i].pipeline # ""
        /\ \E j \in DOMAIN rows' : rows'[j].id = rows[i].id
        => \A listed \in {rows, rows'} :
              LET answers == PipelineTraces(listed, {rows, rows'}, rows[i].pipeline, MaxRows)
              IN /\ answers # {}
                 /\ \A answer \in answers : \E s \in answer :
                       s.trace = rows[i].trace /\ s.status = "failed"]_rows

\* Asked of the same rows, what pie traces finds failed in a page of a tunnel's requests
\* is failed to the API too, though a page may cut a trace short and a trace span
\* several tunnels; and of a trace that a page has the whole of, both say the same.
ViewsAgree ==
    \A t \in Tunnels, limit \in 1..MaxRows : \A page \in RequestPages(rows, t, limit) :
        LET traces == CliTraces(page)
        IN \A id \in DOMAIN traces :
              LET steps == TraceTimeline(rows, id)
                  failed == StatusOf(steps) = "failed"
              IN /\ traces[id] = "FAILED" => failed
                 /\ steps \subseteq page /\ failed => traces[id] = "FAILED"
=============================================================================
