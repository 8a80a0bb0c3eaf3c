---------------------------- MODULE RequestLedger ----------------------------
(***************************************************************************)
(* What the server promises about the requests it stores, without hub,     *)
(* sessions or clients: a stored request is pending until it is settled,   *)
(* once and for all, and the sender's reply agrees with the settled row.   *)
(***************************************************************************)
CONSTANTS Requests, StoreFaults

VARIABLES record,  \* the row of each request
          reply    \* what the sender of each request was told

ledgerVars == <<record, reply>>

LedgerInit ==
    /\ record = [r \in Requests |-> "absent"]
    /\ reply = [r \in Requests |-> "none"]

Answered == {"response", "error"}

\* A row agrees with a reply; a deleted one agrees with any.  Only a failing
\* store leaves the row behind the reply.
Agrees(rec, told) ==
    \/ rec = "gone"
    \/ rec = "forwarded" /\ told \in Answered
    \/ rec = "timeout" /\ told = "timeout"
    \/ rec = "pending" /\ StoreFaults

\* The sender is told off before anything is stored.
Refuse(r) ==
    /\ record[r] = "absent" /\ reply[r] = "none"
    /\ reply' = [reply EXCEPT ![r] = "refused"]
    /\ UNCHANGED record

Store(r) ==
    /\ record[r] = "absent" /\ reply[r] = "none"
    /\ record' = [record EXCEPT ![r] = "pending"]
    /\ UNCHANGED reply

Settle(r) ==
    /\ record[r] = "pending" /\ reply[r] = "none"
    /\ \E s \in {"forwarded", "timeout"} : record' = [record EXCEPT ![r] = s]
    /\ UNCHANGED reply

Reply(r) ==
    /\ record[r] # "absent" /\ reply[r] = "none"
    /\ \E told \in Answered \cup {"timeout"} :
            /\ Agrees(record[r], told)
            /\ reply' = [reply EXCEPT ![r] = told]
    /\ UNCHANGED record

\* The tunnel is deleted, or rows older than the retention are.
Remove ==
    /\ \E R \in SUBSET {r \in Requests : record[r] # "absent"} :
            record' = [r \in Requests |-> IF r \in R THEN "gone" ELSE record[r]]
    /\ UNCHANGED reply

LedgerNext ==
    \/ \E r \in Requests : Refuse(r) \/ Store(r) \/ Settle(r) \/ Reply(r)
    \/ Remove

LedgerSpec == LedgerInit /\ [][LedgerNext]_ledgerVars
=============================================================================
