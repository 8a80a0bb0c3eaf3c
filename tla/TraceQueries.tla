---------------------------- MODULE TraceQueries ----------------------------
(***************************************************************************)
(* What the store derives from the requests table (store.go, Pipeline      *)
(* traces and RequestList), and what `pie traces` derives from a list.  A  *)
(* table is the sequence of its rows, oldest first.  The queries order by  *)
(* created, which is in seconds: of rows of one second, any may be first.  *)
(***************************************************************************)
EXTENDS SequencesExt, FiniteSetsExt, Integers

TraceTimeline(requests, t) == {row \in ToSet(requests) : row.trace = t}

\* Mutant: without the break, a pending step hides a failed one.
StatusOfLast(steps) ==
    CASE \E row \in steps : row.status = "pending" -> "running"
      [] \E row \in steps : row.status = "timeout" -> "failed"
      [] OTHER -> "completed"

\* A failed step ends the loop over the steps, whatever the others are.
StatusOf(steps) ==
    IF \E row \in steps : row.status = "timeout" THEN "failed"
    ELSE IF \E row \in steps : row.status = "pending" THEN "running" ELSE "completed"

Earliest(steps) == {row \in steps : \A r \in steps : row.created <= r.created}
Latest(steps) == {row \in steps : \A r \in steps : row.created >= r.created}

Started(requests, p, t) ==
    Min({row.created : row \in {r \in TraceTimeline(requests, t) : r.pipeline = p}})

Summary(listed, p, t, pipeline, status, finished) ==
    [trace |-> t, pipeline |-> pipeline, status |-> status,
     started |-> Started(listed, p, t), finished |-> finished]

\* What is known of a trace from the list of a pipeline's traces: no step of it.
Unread(listed, p, t) == Summary(listed, p, t, "", "", {})

\* Mutant: a trace is as its last step.
LastOf(listed, requests, p, t) ==
    {Summary(listed, p, t, "", StatusOf({last}), {}) : last \in Latest(TraceTimeline(requests, t))}

\* The first step names the trace's pipeline: its steps may be in several.  When all were
\* pruned meanwhile, nothing more is known.
TraceOf(listed, requests, p, t) ==
    LET steps == TraceTimeline(requests, t)
    IN IF steps = {} THEN {Unread(listed, p, t)}
       ELSE {Summary(listed, p, t, ends[1].pipeline, StatusOf(steps), {ends[2].created}) :
                ends \in Earliest(steps) \X Latest(steps)}

TraceIDs(requests, p) ==
    {row.trace : row \in {r \in ToSet(requests) : r.pipeline = p /\ r.trace # ""}}

\* What may be answered.  One query lists up to limit traces of pipeline p such that none
\* left out started later, and one more for each reads its steps, between which the
\* rows change: tables are those that these may see.
PipelineTraces(listed, tables, p, limit) ==
    LET ids == TraceIDs(listed, p)
    IN {answer \in SUBSET UNION {UNION {TraceOf(listed, table, p, t) : t \in ids} : table \in tables} :
          LET shown == {s.trace : s \in answer}
          IN /\ \A s, u \in answer : s.trace = u.trace => s = u
             /\ Cardinality(shown) = Min({limit, Cardinality(ids)})
             /\ \A s \in answer, t \in ids \ shown : s.started >= Started(listed, p, t)}

\* Mutant: the oldest rows instead of the newest.
OldestPages(requests, t, limit) ==
    LET mine == {row \in ToSet(requests) : row.tunnel = t}
    IN {page \in SUBSET mine :
          /\ Cardinality(page) = Min({limit, Cardinality(mine)})
          /\ \A row \in page, left \in mine \ page : left.created >= row.created}

\* The pages that RequestList may return: up to limit rows of the tunnel such that
\* none left out is newer.
RequestPages(requests, t, limit) ==
    LET mine == {row \in ToSet(requests) : row.tunnel = t}
    IN {page \in SUBSET mine :
          /\ Cardinality(page) = Min({limit, Cardinality(mine)})
          /\ \A row \in page, left \in mine \ page : left.created <= row.created}

\* The traces that `pie traces` finds in a page: whether each failed.
CliTraces(page) ==
    [t \in {row.trace : row \in page} \ {""} |->
        IF \E row \in page : row.trace = t /\ row.status = "timeout" THEN "FAILED" ELSE "OK"]
=============================================================================
