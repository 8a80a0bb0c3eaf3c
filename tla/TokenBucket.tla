----------------------------- MODULE TokenBucket -----------------------------
(***************************************************************************)
(* What the rate limiter promises each address: a bucket that starts full, *)
(* fills with time, and is emptied by the requests that get through.       *)
(***************************************************************************)
EXTENDS Integers

CONSTANTS Addrs, RPS, Burst

VARIABLES now, level, answer

bucketVars == <<now, level, answer>>

BucketInit ==
    /\ now = 0
    /\ level = [a \in Addrs |-> Burst]
    /\ answer = [a \in Addrs |-> 0]

Admit(a) ==
    /\ level[a] >= 1
    /\ level' = [level EXCEPT ![a] = @ - 1]
    /\ answer' = [answer EXCEPT ![a] = 200]
    /\ UNCHANGED now

Refuse(a) ==
    /\ level[a] < 1
    /\ answer' = [answer EXCEPT ![a] = 429]
    /\ UNCHANGED <<now, level>>

Refill ==
    /\ now' = now + 1
    /\ level' = [a \in Addrs |-> IF level[a] + RPS < Burst THEN level[a] + RPS ELSE Burst]
    /\ UNCHANGED answer

BucketSpec == BucketInit /\ [][(\E a \in Addrs : Admit(a) \/ Refuse(a)) \/ Refill]_bucketVars
=============================================================================
