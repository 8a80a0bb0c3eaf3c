----------------------------- MODULE RateLimiter -----------------------------
(***************************************************************************)
(* The limiter in front of every HTTP request (internal/server/            *)
(* ratelimit.go): a table of token buckets by address, which a cleanup     *)
(* loop evicts when idle.  A request gets its bucket under the table's     *)
(* lock and takes a token from it after the unlock.  Buckets refill per    *)
(* unit of time; the library's are continuous.                             *)
(***************************************************************************)
EXTENDS Clock, FiniteSets

CONSTANTS Addrs,       \* addresses
          Callers,     \* requests being handled
          Buckets,     \* rate.Limiter objects
          Nothing,     \* no bucket, or no request
          RPS, Burst,
          IdleLimit,   \* three minutes
          MaxHold      \* how long a request may be held up in Allow

\* A bucket is full again before it may be evicted, though a request that was seen
\* before may take a token as late as MaxHold.
ASSUME LimiterAssumption ==
    /\ RPS \in Nat /\ Burst \in Nat \ {0} /\ IdleLimit \in Nat /\ MaxHold \in 0..IdleLimit
    /\ RPS * (IdleLimit + 1 - MaxHold) >= Burst
    /\ Nothing \notin [bucket : Buckets, lastSeen : Nat]
                    \cup [addr : Addrs, bucket : Buckets, since : Nat]
    /\ IsFiniteSet(Addrs) /\ IsFiniteSet(Callers)
    /\ Cardinality(Buckets) >= Cardinality(Addrs) + Cardinality(Callers)

VARIABLES visitors,   \* by address, the bucket and lastSeen
          bucket,     \* the tokens of each and when they were counted
          asking,     \* what a request in Allow holds: address, bucket and since when
          answer      \* by address, what the last one was told

limiterVars == <<now, visitors, bucket, asking, answer>>

LimiterInit ==
    /\ now = 0
    /\ visitors = [a \in Addrs |-> Nothing]
    /\ bucket = [b \in Buckets |-> [tokens |-> Burst, last |-> 0]]
    /\ asking = [r \in Callers |-> Nothing]
    /\ answer = [a \in Addrs |-> 0]

\* The first address of X-Forwarded-For, else the peer's.
extractIP(forwarded, remote) == IF forwarded = <<>> THEN remote ELSE forwarded[1]

InUse == {visitors[a].bucket : a \in {x \in Addrs : visitors[x] # Nothing}}
         \cup {asking[r].bucket : r \in {x \in Callers : asking[x] # Nothing}}

getLimiter(r, a) ==
    /\ asking[r] = Nothing
    /\ LET fresh == CHOOSE b \in Buckets : b \notin InUse   \* NewLimiter
           b == IF visitors[a] = Nothing THEN fresh ELSE visitors[a].bucket
       IN /\ IF visitors[a] # Nothing THEN UNCHANGED bucket
             ELSE bucket' = [bucket EXCEPT ![b] = [tokens |-> Burst, last |-> now]]
          /\ visitors' = [visitors EXCEPT ![a] = [bucket |-> b, lastSeen |-> now]]
          /\ asking' = [asking EXCEPT ![r] = [addr |-> a, bucket |-> b, since |-> now]]
    /\ UNCHANGED <<now, answer>>

Arrive(r) == \E forwarded \in {<<>>} \cup {<<a>> : a \in Addrs}, remote \in Addrs :
                 getLimiter(r, extractIP(forwarded, remote))

Tokens(b) == LET filled == bucket[b].tokens + RPS * (now - bucket[b].last)
             IN IF filled < Burst THEN filled ELSE Burst

\* Limiter.Allow, under the limiter's own lock, and what the middleware does with it.
Allow(r) ==
    /\ asking[r] # Nothing
    /\ LET a == asking[r].addr
           b == asking[r].bucket
       IN \/ /\ Tokens(b) >= 1
             /\ bucket' = [bucket EXCEPT ![b] = [tokens |-> Tokens(b) - 1, last |-> now]]
             /\ answer' = [answer EXCEPT ![a] = 200]
          \/ /\ Tokens(b) < 1
             /\ answer' = [answer EXCEPT ![a] = 429]
             /\ UNCHANGED bucket
    /\ asking' = [asking EXCEPT ![r] = Nothing]
    /\ UNCHANGED <<now, visitors>>

\* Mutant: an address is idle at once.
IdleSoon(a) == visitors[a] # Nothing /\ now - visitors[a].lastSeen > 0

IdleTooLong(a) == visitors[a] # Nothing /\ now - visitors[a].lastSeen > IdleLimit

\* A round of the cleanup loop, which may come at any time.
LimiterCleanup ==
    /\ \E a \in Addrs : IdleTooLong(a)
    /\ visitors' = [a \in Addrs |-> IF IdleTooLong(a) THEN Nothing ELSE visitors[a]]
    /\ UNCHANGED <<now, bucket, asking, answer>>

LimiterTick ==
    /\ \A r \in Callers : asking[r] # Nothing => now - asking[r].since < MaxHold
    /\ Tick /\ UNCHANGED <<visitors, bucket, asking, answer>>

LimiterNext == \/ \E r \in Callers : Arrive(r) \/ Allow(r)
               \/ LimiterCleanup \/ LimiterTick

LimiterSpec == LimiterInit /\ [][LimiterNext]_limiterVars
-----------------------------------------------------------------------------
\* What the limiter promises, as if no bucket were ever evicted: the
\* requests that each address gets through, and those refused, are those of a bucket
\* of its own which fills by RPS up to Burst.
Bucket == INSTANCE TokenBucket WITH
    level <- [a \in Addrs |-> IF visitors[a] = Nothing THEN Burst ELSE Tokens(visitors[a].bucket)]

ImplementsTokenBucket == Bucket!BucketSpec
=============================================================================
