-------------------------- MODULE ProviderDetection --------------------------
(***************************************************************************)
(* Which AI service sent a webhook (internal/server/providers.go).  A      *)
(* message is what the detectors look at: two signature headers and the    *)
(* JSON fields of the body, "" when absent.  Only fields that reach the    *)
(* row are kept: the match's status and duration are logged or unused.     *)
(***************************************************************************)
EXTENDS SequencesExt

CONSTANTS Numbers,   \* ids that are JSON numbers or null, not strings
          BatchIDs   \* ids that start with "batch_"

NoMatch == [provider |-> "", job |-> "", step |-> "", model |-> ""]

\* Unmarshal fails on an id that is not a string, and finds "" when there is none.
StringID(b) == b.id \notin Numbers \cup {""}

RunPodStatuses == {"COMPLETED", "FAILED", "IN_PROGRESS", "IN_QUEUE", "CANCELLED"}

ModalStatuses == {"success", "failure", "pending"}

Match(provider, job, step, model) ==
    [provider |-> provider, job |-> job, step |-> step, model |-> model]

\* A signed webhook needs an id, an unsigned one a version too, which then also
\* stands for a missing model.
detectReplicate(m) ==
    IF StringID(m.body) /\ (m.webhookID \/ m.body.version # "")
    THEN Match("replicate", m.body.id, "replicate",
               IF m.body.model = "" /\ ~m.webhookID THEN m.body.version ELSE m.body.model)
    ELSE NoMatch

detectFal(m) ==
    IF m.body.request_id # "" /\ (m.falSignature \/ m.body.status # "" \/ m.body.payload)
    THEN Match("fal", m.body.request_id, "fal", "")
    ELSE NoMatch

detectRunPod(m) ==
    IF StringID(m.body) /\ m.body.status \in RunPodStatuses
    THEN Match("runpod", m.body.id, "runpod", "")
    ELSE NoMatch

detectModal(m) ==
    IF m.body.call_id # "" /\ m.body.status \in ModalStatuses
    THEN Match("modal", m.body.call_id, "modal", "")
    ELSE NoMatch

detectOpenAI(m) ==
    IF StringID(m.body) /\ (m.body.object = "batch" \/ m.body.id \in BatchIDs)
    THEN Match("openai", m.body.id, "openai", m.body.model)
    ELSE NoMatch

\* JSON-RPC 2.0.  The id is printed, so that a notification, which has none, is
\* job "<nil>".
detectMCP(m) ==
    IF m.body.method # ""
    THEN Match("mcp", IF m.body.id = "" THEN "<nil>" ELSE m.body.id, m.body.method, "")
    ELSE NoMatch

PathProviders == {"replicate", "fal", "runpod", "modal",
                  "openai", "anthropic", "huggingface", "stability"}

\* The map of prefixes is ranged over in any order, but no prefix is one of another.
detectByPath(m) ==
    LET named == {p \in PathProviders : IsPrefix(<<"/", p>>, m.path)}
        p == CHOOSE p \in named : TRUE
        job == IF StringID(m.body) THEN m.body.id ELSE m.body.request_id
    IN IF named # {} THEN Match(p, job, p, "") ELSE NoMatch

\* The first detector that recognises the message.
DetectProvider(m) ==
    LET found == SelectSeq(<<detectReplicate(m), detectFal(m), detectRunPod(m), detectModal(m),
                             detectOpenAI(m), detectMCP(m), detectByPath(m)>>,
                           LAMBDA match : match # NoMatch)
    IN IF m.empty \/ found = <<>> THEN NoMatch ELSE Head(found)
=============================================================================
