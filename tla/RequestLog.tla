----------------------------- MODULE RequestLog -----------------------------
(***************************************************************************)
(* `pie logs --follow` (cmd/logs.go): it polls the newest page of a        *)
(* tunnel's requests and prints those it has not seen, while requests are  *)
(* inserted, settled and pruned.                                           *)
(***************************************************************************)
EXTENDS Clock, TraceQueries

CONSTANTS Limit,      \* the size of a page
          Retention,
          MaxLogged   \* how many requests the model inserts

ASSUME LogAssumption == {Limit, Retention, MaxLogged} \subseteq Nat

VARIABLES table,   \* the tunnel's requests, oldest first
          stored,  \* how many there have been
          seen     \* what was printed: by id, the status shown

logVars == <<now, table, stored, seen>>

LogInit == now = 0 /\ table = <<>> /\ stored = 0 /\ seen = [id \in {} |-> ""]

Store ==
    /\ stored < MaxLogged /\ stored' = stored + 1
    /\ table' = Append(table, [id |-> stored + 1, tunnel |-> "followed",
                               created |-> now, status |-> "pending"])
    /\ UNCHANGED <<now, seen>>

SetStatus ==
    /\ \E i \in DOMAIN table, status \in {"forwarded", "timeout"} :
        table[i].status = "pending" /\ table' = [table EXCEPT ![i].status = status]
    /\ UNCHANGED <<now, stored, seen>>

\* A round of the retention loop, which may come at any time.  The rows before the
\* cutoff are the first ones.
RequestPrune ==
    /\ \E n \in DOMAIN table :
        /\ table[n].created < now - Retention
        /\ n < Len(table) => table[n + 1].created >= now - Retention
        /\ table' = SubSeq(table, n + 1, Len(table))
    /\ UNCHANGED <<now, stored, seen>>

\* printRequests: a row that was printed while pending is not printed again.
Poll ==
    /\ \E page \in RequestPages(table, "followed", Limit) :
        LET unseen == {row \in page : row.id \notin DOMAIN seen}
        IN /\ unseen # {}
           /\ seen' = seen @@ [id \in {row.id : row \in unseen} |->
                                 (CHOOSE row \in unseen : row.id = id).status]
    /\ UNCHANGED <<now, table, stored>>

LogTick == Tick /\ UNCHANGED <<table, stored, seen>>

LogNext == Store \/ SetStatus \/ RequestPrune \/ Poll \/ LogTick

LogSpec == LogInit /\ [][LogNext]_logVars
-----------------------------------------------------------------------------
AsRecent(row) == {r \in ToSet(table) : r.created >= row.created}

\* Every request in the table was printed, but for those that a full page of requests as
\* recent pushed out between two polls.
PrintedOrPushedOut ==
    \A row \in ToSet(table) : row.id \in DOMAIN seen \/ Cardinality(AsRecent(row)) > Limit

\* Again and again pie logs has printed all that it can find.
FollowedIsPrinted == []<>PrintedOrPushedOut
=============================================================================
