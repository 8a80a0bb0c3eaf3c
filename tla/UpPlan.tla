-------------------------------- MODULE UpPlan --------------------------------
(***************************************************************************)
(* `pie up` (cmd/up.go, internal/config/config.go): pipepie.yaml is        *)
(* checked, its tunnels and its pipeline's steps become clients, and two   *)
(* seconds later its pipeline's rules are posted to the server, once.      *)
(***************************************************************************)
EXTENDS SequencesExt

CONSTANTS Plans,     \* what pipepie.yaml may hold
          Missing    \* a field that is not there

VARIABLES plan,      \* the file
          up,        \* "start", "failed", "loaded" or "running"
          rulesSent, \* whether the rules were sent
          clients,   \* what runs: tunnels by name, steps by position
          plain,     \* ports where the API is spoken without TLS
          taken      \* the rules that the server has, or Missing

upVars == <<plan, up, rulesSent, clients, plain, taken>>

UpInit ==
    /\ plan = Missing /\ up = "start" /\ rulesSent = FALSE
    /\ clients = Missing /\ plain = {} /\ taken = Missing

validate(f) ==
    /\ Missing \notin {f.server, f.key}
    /\ DOMAIN f.tunnels # {} \/ f.pipeline # Missing
    /\ \A n \in DOMAIN f.tunnels : Missing \notin {f.tunnels[n].subdomain, f.tunnels[n].forward}
    /\ f.pipeline # Missing =>
          /\ f.pipeline.name # Missing /\ f.pipeline.steps # <<>>
          /\ \A s \in Range(f.pipeline.steps) : Missing \notin {s.name, s.webhook, s.forward}

\* A step without a subdomain gets that of some tunnel, and is left out if a tunnel
\* has that for its name.
StepTunnel(f, s) ==
    LET subs == IF s.subdomain # Missing THEN {s.subdomain}
                ELSE {f.tunnels[n].subdomain : n \in DOMAIN f.tunnels}
    IN {[subdomain |-> sub, forward |-> s.forward] : sub \in subs \ DOMAIN f.tunnels}

StepsOf(f) == IF f.pipeline = Missing THEN <<>> ELSE f.pipeline.steps

\* The iteration over the tunnels may begin anywhere, for each step anew.
ResolvedTunnels(f) ==
    LET placed == {i \in DOMAIN StepsOf(f) : StepTunnel(f, StepsOf(f)[i]) # {}}
        options == UNION {StepTunnel(f, StepsOf(f)[i]) : i \in placed}
    IN {[tunnels |-> f.tunnels, steps |-> chosen] :
           chosen \in {g \in [placed -> options] :
                          \A i \in placed : g[i] \in StepTunnel(f, StepsOf(f)[i])}}

PipelineRules(f) ==
    [i \in DOMAIN StepsOf(f) |->
        [PathPrefix |-> StepsOf(f)[i].webhook, PipelineID |-> f.pipeline.name,
         StepName |-> StepsOf(f)[i].name]]

\* A server with TLS listens on 443, and redirects or refuses on 80.
Load ==
    /\ up = "start" /\ plan' \in Plans /\ plain' \in {{}, {"8080"}}
    /\ up' = IF validate(plan') THEN "loaded" ELSE "failed"
    /\ UNCHANGED <<rulesSent, clients, taken>>

\* The clients start, without waiting for the rules.
StartClients ==
    /\ up = "loaded" /\ up' = "running" /\ clients' \in ResolvedTunnels(plan)
    /\ UNCHANGED <<plan, rulesSent, plain, taken>>

\* json.Marshal of a rule: its keys are the fields' names, for want of tags.
Marshalled(rule) == rule

Field(object, key) == IF key \in DOMAIN object THEN object[key] ELSE Missing

\* Decode of handleSetPipelineRules: keys match up to the case of their letters.
Decoded(object) == [PathPrefix |-> Field(object, "path_prefix"),
                    PipelineID |-> Field(object, "pipeline_id"),
                    StepName |-> Field(object, "step_name")]

\* The goroutine that sleeps, then posts to each of three ports until one says 200.
SendRules ==
    /\ up \in {"loaded", "running"} /\ PipelineRules(plan) # <<>>
    /\ rulesSent = FALSE /\ rulesSent' = TRUE
    /\ taken' = IF {"443", "8080", "80"} \cap plain = {} THEN taken
                ELSE [i \in DOMAIN PipelineRules(plan) |->
                         Decoded(Marshalled(PipelineRules(plan)[i]))]
    /\ UNCHANGED <<plan, up, clients, plain>>

UpNext == Load \/ StartClients \/ SendRules
-----------------------------------------------------------------------------
\* config.go:154: "PipelineRules returns path->step rules for the server to auto-match
\* incoming webhooks."  What the server takes for its rules is what the file says.
RulesArriveAsWritten == taken # Missing => taken = PipelineRules(plan)
=============================================================================
