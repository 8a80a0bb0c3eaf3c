-------------------------- MODULE RateLimiter_proofs --------------------------
(***************************************************************************)
(* The limiter implements a bucket of tokens for each address, for any     *)
(* number of addresses and requests and any rate, although it forgets      *)
(* addresses and counts a token after it let go of its table.              *)
(***************************************************************************)
EXTENDS RateLimiter, FiniteSetTheorems, TLAPS

Visitors == [bucket : Buckets, lastSeen : Nat]
Requests == [addr : Addrs, bucket : Buckets, since : Nat]

LimiterTypeOK ==
    /\ now \in Nat
    /\ visitors \in [Addrs -> Visitors \cup {Nothing}]
    /\ bucket \in [Buckets -> [tokens : 0..Burst, last : Nat]]
    /\ asking \in [Callers -> Requests \cup {Nothing}]
    /\ answer \in [Addrs -> Nat]

\* Addresses do not share a bucket.
BucketsAreOwn ==
    \A a, c \in Addrs :
        visitors[a] # Nothing /\ visitors[c] # Nothing /\ visitors[a].bucket = visitors[c].bucket
            => a = c

\* A request in Allow holds the bucket that the table has for its address: it is not
\* held long enough for the address to become idle.
HeldIsKept ==
    \A r \in Callers : asking[r] # Nothing =>
        LET a == asking[r].addr
        IN /\ visitors[a] # Nothing /\ visitors[a].bucket = asking[r].bucket
           /\ asking[r].since <= visitors[a].lastSeen /\ now <= asking[r].since + MaxHold

\* The last token of an address was taken soon after it was last seen.
TakenWhenSeen ==
    \A a \in Addrs : visitors[a] # Nothing =>
        /\ visitors[a].lastSeen <= now
        /\ bucket[visitors[a].bucket].last <= now
        /\ bucket[visitors[a].bucket].last <= visitors[a].lastSeen + MaxHold

LimiterInv == LimiterTypeOK /\ BucketsAreOwn /\ HeldIsKept /\ TakenWhenSeen

Level == [a \in Addrs |-> IF visitors[a] = Nothing THEN Burst ELSE Tokens(visitors[a].bucket)]

-----------------------------------------------------------------------------
(* Tokens.                                                                 *)

LEMMA TimesGrows ==
  ASSUME NEW r \in Nat, NEW x \in Nat, NEW y \in Nat, x <= y
  PROVE  r * x \in Nat /\ r * y \in Nat /\ r * x <= r * y
<1>1. PICK d \in Nat : y = x + d
  BY y - x \in Nat
<1>2. r * x \in Nat /\ r * d \in Nat /\ r * (x + d) = r * x + r * d
  OBVIOUS
<1> QED BY <1>1, <1>2

LEMMA TokensType ==
  ASSUME LimiterInv, NEW b \in Buckets, bucket[b].last <= now
  PROVE  /\ RPS * (now - bucket[b].last) \in Nat
         /\ Tokens(b) \in 0..Burst
<1> USE LimiterAssumption DEF LimiterInv, LimiterTypeOK
<1>1. now - bucket[b].last \in Nat /\ bucket[b].tokens \in 0..Burst
  OBVIOUS
<1>2. RPS * (now - bucket[b].last) \in Nat
  BY <1>1, TimesGrows
<1> QED BY <1>1, <1>2 DEF Tokens

\* A bucket that the cleanup loop evicts is full again.
LEMMA IdleIsFull ==
  ASSUME LimiterInv, NEW a \in Addrs, IdleTooLong(a)
  PROVE  Tokens(visitors[a].bucket) = Burst
<1> USE LimiterAssumption DEF LimiterInv, LimiterTypeOK, Visitors
<1> DEFINE b == visitors[a].bucket
<1>1. b \in Buckets /\ visitors[a].lastSeen \in Nat
  BY DEF IdleTooLong
<1>2. /\ IdleLimit + 1 - MaxHold \in Nat /\ now - bucket[b].last \in Nat
      /\ IdleLimit + 1 - MaxHold <= now - bucket[b].last
  BY <1>1 DEF IdleTooLong, TakenWhenSeen
<1>3. /\ RPS * (IdleLimit + 1 - MaxHold) \in Nat /\ RPS * (now - bucket[b].last) \in Nat
      /\ RPS * (IdleLimit + 1 - MaxHold) <= RPS * (now - bucket[b].last)
  BY <1>2, TimesGrows
<1>4. bucket[b].tokens \in 0..Burst
  BY <1>1
<1> QED BY <1>3, <1>4 DEF Tokens

-----------------------------------------------------------------------------
(* The invariant.                                                          *)

\* There is always a bucket for a new address: NewLimiter makes one.
LEMMA FreshBucket ==
  ASSUME LimiterInv, NEW r \in Callers, asking[r] = Nothing
  PROVE  \E b \in Buckets : b \notin InUse
<1> USE LimiterAssumption DEF LimiterInv, LimiterTypeOK, Visitors, Requests
<1> DEFINE seen == {a \in Addrs : visitors[a] # Nothing}
           held == {x \in Callers : asking[x] # Nothing}
           ofSeen == {visitors[a].bucket : a \in seen}
           ofHeld == {asking[x].bucket : x \in held}
           fSeen == [a \in seen |-> visitors[a].bucket]
           fHeld == [x \in held |-> asking[x].bucket]
<1>1. /\ IsFiniteSet(seen) /\ Cardinality(seen) <= Cardinality(Addrs)
      /\ Cardinality(seen) \in Nat /\ Cardinality(Addrs) \in Nat
  BY FS_Subset, FS_CardinalityType
<1>2. IsFiniteSet(Callers \ {r}) /\ Cardinality(Callers \ {r}) = Cardinality(Callers) - 1
  BY FS_RemoveElement
<1>3. held \in SUBSET (Callers \ {r})
  OBVIOUS
<1>4. /\ IsFiniteSet(held) /\ Cardinality(held) <= Cardinality(Callers) - 1
      /\ Cardinality(held) \in Nat /\ Cardinality(Callers) \in Nat
  BY <1>2, <1>3, FS_Subset, FS_CardinalityType
<1>5. fSeen \in Surjection(seen, ofSeen) /\ fHeld \in Surjection(held, ofHeld)
  BY DEF Surjection
<1>6. InUse = ofSeen \cup ofHeld
  BY DEF InUse
<1> HIDE DEF seen, held, ofSeen, ofHeld, fSeen, fHeld
<1>7. /\ IsFiniteSet(ofSeen) /\ Cardinality(ofSeen) <= Cardinality(seen)
      /\ IsFiniteSet(ofHeld) /\ Cardinality(ofHeld) <= Cardinality(held)
  BY <1>1, <1>4, <1>5, FS_Surjection
<1>8. /\ Cardinality(ofSeen) \in Nat /\ Cardinality(ofHeld) \in Nat
      /\ IsFiniteSet(ofSeen \cap ofHeld) /\ Cardinality(ofSeen \cap ofHeld) \in Nat
  BY <1>7, FS_CardinalityType, FS_Intersection
<1>9. /\ IsFiniteSet(InUse) /\ Cardinality(InUse) \in Nat
      /\ Cardinality(InUse) < Cardinality(Addrs) + Cardinality(Callers)
  <2>1. IsFiniteSet(InUse)
        /\ Cardinality(InUse) = Cardinality(ofSeen) + Cardinality(ofHeld) - Cardinality(ofSeen \cap ofHeld)
    BY <1>6, <1>7, FS_Union
  <2>2. Cardinality(InUse) \in Nat
    BY <2>1, FS_CardinalityType
  <2> QED BY <1>1, <1>4, <1>7, <1>8, <2>1, <2>2
<1>10. ASSUME Buckets \subseteq InUse PROVE FALSE
  <2>1. IsFiniteSet(Buckets) /\ Cardinality(Buckets) <= Cardinality(InUse)
    BY <1>9, <1>10, FS_Subset
  <2>2. Cardinality(Buckets) \in Nat
    BY <2>1, FS_CardinalityType
  <2> QED BY <1>1, <1>4, <1>9, <2>1, <2>2
<1> QED BY <1>10

\* What a request gets: the bucket of its address, which is new and full if it had none.
LEMMA GetLimiterStep ==
  ASSUME LimiterInv, NEW r \in Callers, Arrive(r)
  PROVE  LimiterInv' /\ Level' = Level
<1> USE LimiterAssumption DEF LimiterInv, LimiterTypeOK, Visitors, Requests
<1>1. PICK a \in Addrs : getLimiter(r, a)
  <2>1. PICK forwarded \in {<<>>} \cup {<<a>> : a \in Addrs}, remote \in Addrs :
            getLimiter(r, extractIP(forwarded, remote))
    BY DEF Arrive
  <2>2. extractIP(forwarded, remote) \in Addrs
    BY DEF extractIP
  <2> QED BY <2>1, <2>2
<1> DEFINE fresh == CHOOSE x \in Buckets : x \notin InUse
           b == IF visitors[a] = Nothing THEN fresh ELSE visitors[a].bucket
<1>2. fresh \in Buckets /\ fresh \notin InUse
  BY <1>1, FreshBucket DEF getLimiter
<1>3. \A c \in Addrs : visitors[c] # Nothing => visitors[c].bucket # fresh
  BY <1>2 DEF InUse
<1>4. /\ asking[r] = Nothing
      /\ visitors' = [visitors EXCEPT ![a] = [bucket |-> b, lastSeen |-> now]]
      /\ asking' = [asking EXCEPT ![r] = [addr |-> a, bucket |-> b, since |-> now]]
      /\ IF visitors[a] # Nothing THEN bucket' = bucket
         ELSE bucket' = [bucket EXCEPT ![b] = [tokens |-> Burst, last |-> now]]
      /\ UNCHANGED <<now, answer>>
  BY <1>1 DEF getLimiter
<1> HIDE DEF fresh
<1>5. b \in Buckets /\ (visitors[a] # Nothing => b = visitors[a].bucket)
      /\ (visitors[a] = Nothing => b = fresh)
  BY <1>2
<1> HIDE DEF b
<1>6. /\ [bucket |-> b, lastSeen |-> now] \in Visitors
      /\ [addr |-> a, bucket |-> b, since |-> now] \in Requests
      /\ [bucket |-> b, lastSeen |-> now] # Nothing
      /\ [addr |-> a, bucket |-> b, since |-> now] # Nothing
  BY <1>5
<1>7. LimiterTypeOK'
  BY <1>4, <1>5, <1>6
<1>8. /\ visitors'[a] = [bucket |-> b, lastSeen |-> now]
      /\ \A c \in Addrs \ {a} : /\ visitors'[c] = visitors[c]
                                /\ visitors[c] # Nothing => visitors[c].bucket # b
      /\ \A c \in Addrs \ {a} : visitors[c] # Nothing =>
             bucket'[visitors[c].bucket] = bucket[visitors[c].bucket]
  BY <1>3, <1>4, <1>5 DEF BucketsAreOwn
<1>9. BucketsAreOwn'
  BY <1>6, <1>8 DEF BucketsAreOwn
<1>10. HeldIsKept'
  BY <1>4, <1>5, <1>6, <1>8 DEF HeldIsKept, TakenWhenSeen
<1>11. bucket'[b].last <= now /\ bucket'[b].last \in Nat
  BY <1>4, <1>5 DEF TakenWhenSeen
<1>12. TakenWhenSeen'
  BY <1>4, <1>6, <1>8, <1>11 DEF TakenWhenSeen
<1>13. ASSUME NEW c \in Addrs PROVE Level'[c] = Level[c]
  <2>1. CASE c # a
    BY <1>4, <1>8, <2>1 DEF Level, Tokens
  <2>2. CASE c = a /\ visitors[a] # Nothing
    BY <1>4, <1>5, <1>6, <1>8, <2>2 DEF Level, Tokens
  <2>3. CASE c = a /\ visitors[a] = Nothing
    <3>1. bucket'[b] = [tokens |-> Burst, last |-> now] /\ now' = now
      BY <1>4, <1>5, <2>3
    <3>2. now' - bucket'[b].last = 0 /\ RPS * 0 = 0 /\ bucket'[b].tokens + 0 = Burst
      BY <3>1
    <3>3. visitors'[a].bucket = b /\ visitors'[a] # Nothing
      BY <1>6, <1>8
    <3>4. Level'[a] = Burst
      BY <3>2, <3>3 DEF Level, Tokens
    <3> QED BY <2>3, <3>4 DEF Level
  <2> QED BY <2>1, <2>2, <2>3
<1> QED BY <1>7, <1>9, <1>10, <1>12, <1>13 DEF Level

\* A request takes a token from the bucket that its address still has, or is refused.
LEMMA AllowStep ==
  ASSUME LimiterInv, NEW r \in Callers, Allow(r)
  PROVE  /\ LimiterInv'
         /\ \E a \in Addrs : Bucket!Admit(a) \/ Bucket!Refuse(a)
<1> USE LimiterAssumption DEF LimiterInv, LimiterTypeOK, Visitors, Requests
<1>1. PICK a \in Addrs, b \in Buckets :
         /\ asking[r].addr = a /\ asking[r].bucket = b
         /\ visitors[a] # Nothing /\ visitors[a].bucket = b
         /\ now <= visitors[a].lastSeen + MaxHold /\ visitors[a].lastSeen \in Nat
  <2>1. /\ asking[r] # Nothing /\ asking[r].addr \in Addrs /\ asking[r].bucket \in Buckets
        /\ asking[r].since \in Nat
    BY DEF Allow
  <2>2. LET a == asking[r].addr
        IN /\ visitors[a] # Nothing /\ visitors[a].bucket = asking[r].bucket
           /\ asking[r].since <= visitors[a].lastSeen /\ now <= asking[r].since + MaxHold
    BY <2>1 DEF HeldIsKept
  <2>3. visitors[asking[r].addr].lastSeen \in Nat
    BY <2>1, <2>2
  <2> QED BY <2>1, <2>2, <2>3
<1>2. /\ asking' = [asking EXCEPT ![r] = Nothing] /\ UNCHANGED <<now, visitors>>
      /\ \/ /\ Tokens(b) >= 1
            /\ bucket' = [bucket EXCEPT ![b] = [tokens |-> Tokens(b) - 1, last |-> now]]
            /\ answer' = [answer EXCEPT ![a] = 200]
         \/ /\ Tokens(b) < 1
            /\ answer' = [answer EXCEPT ![a] = 429]
            /\ UNCHANGED bucket
  BY <1>1 DEF Allow
<1>3. bucket[b].last <= now /\ Tokens(b) \in 0..Burst
  BY <1>1, TokensType DEF TakenWhenSeen
<1>4. HeldIsKept' /\ BucketsAreOwn'
  BY <1>2 DEF HeldIsKept, BucketsAreOwn
<1>5. CASE Tokens(b) < 1
  <2>1. LimiterTypeOK' /\ TakenWhenSeen'
    BY <1>1, <1>2, <1>3, <1>5 DEF TakenWhenSeen
  <2>2. Level[a] = Tokens(b)
    BY <1>1 DEF Level
  <2>3. Bucket!Refuse(a)
    BY <1>1, <1>2, <1>3, <1>5, <2>2 DEF Bucket!Refuse, Level, Tokens
  <2> QED BY <1>1, <1>4, <2>1, <2>3
<1>6. CASE Tokens(b) >= 1
  <2>1. /\ bucket' = [bucket EXCEPT ![b] = [tokens |-> Tokens(b) - 1, last |-> now]]
        /\ answer' = [answer EXCEPT ![a] = 200]
    BY <1>2, <1>3, <1>6
  <2>2. Tokens(b) - 1 \in 0..Burst
    BY <1>3, <1>6
  <2>3. LimiterTypeOK'
    BY <1>1, <1>2, <2>1, <2>2
  <2>4. TakenWhenSeen'
    <3> SUFFICES ASSUME NEW c \in Addrs, visitors[c] # Nothing
                 PROVE  LET last == bucket'[visitors[c].bucket].last
                        IN last <= now /\ last <= visitors[c].lastSeen + MaxHold
      BY <1>2 DEF TakenWhenSeen
    <3>1. CASE c = a
      BY <1>1, <2>1, <3>1
    <3>2. CASE c # a
      <4>1. visitors[c].bucket # b
        BY <1>1, <3>2 DEF BucketsAreOwn
      <4>2. bucket'[visitors[c].bucket] = bucket[visitors[c].bucket]
        BY <1>1, <2>1, <4>1
      <4> QED BY <4>2 DEF TakenWhenSeen
    <3> QED BY <3>1, <3>2
  <2>5. ASSUME NEW c \in Addrs PROVE Level'[c] = [Level EXCEPT ![a] = @ - 1][c]
    <3>1. CASE c = a
      <4>1. now' - bucket'[b].last = 0 /\ RPS * 0 = 0 /\ bucket'[b].tokens = Tokens(b) - 1
        BY <1>1, <1>2, <2>1
      <4>2. Level'[a] = Tokens(b) - 1
        BY <1>1, <1>2, <1>3, <4>1 DEF Level, Tokens
      <4>3. Level[a] = Tokens(b)
        BY <1>1 DEF Level
      <4> QED BY <3>1, <4>2, <4>3 DEF Level
    <3>2. CASE c # a
      <4>1. visitors[c] # Nothing => bucket'[visitors[c].bucket] = bucket[visitors[c].bucket]
        BY <1>1, <2>1, <3>2 DEF BucketsAreOwn
      <4>2. Level'[c] = Level[c]
        BY <1>2, <4>1 DEF Level, Tokens
      <4> QED BY <3>2, <4>2 DEF Level
    <3> QED BY <3>1, <3>2
  <2>6. Level' = [Level EXCEPT ![a] = @ - 1]
    BY <2>5 DEF Level
  <2>7. Level[a] >= 1
    BY <1>1, <1>6 DEF Level
  <2>8. Bucket!Admit(a)
    <3>1. Level[a] >= 1 /\ answer' = [answer EXCEPT ![a] = 200] /\ UNCHANGED now
      BY <1>2, <2>1, <2>7
    <3> QED BY <2>6, <3>1, Zenon DEF Bucket!Admit, Level
  <2>9. LimiterInv'
    BY <1>4, <2>3, <2>4
  <2> QED BY <2>8, <2>9
<1> QED BY <1>3, <1>5, <1>6

LEMMA CleanupStep ==
  ASSUME LimiterInv, LimiterCleanup
  PROVE  LimiterInv' /\ Level' = Level
<1> USE LimiterAssumption DEF LimiterInv, LimiterTypeOK, Visitors, Requests
<1>1. /\ visitors' = [a \in Addrs |-> IF IdleTooLong(a) THEN Nothing ELSE visitors[a]]
      /\ UNCHANGED <<now, bucket, asking, answer>>
  BY DEF LimiterCleanup
<1>2. \A a \in Addrs : visitors'[a] # Nothing => visitors'[a] = visitors[a]
  BY <1>1
<1>3. LimiterTypeOK' /\ BucketsAreOwn' /\ TakenWhenSeen'
  BY <1>1, <1>2 DEF BucketsAreOwn, TakenWhenSeen
<1>4. ASSUME NEW r \in Callers, asking[r] # Nothing PROVE ~IdleTooLong(asking[r].addr)
  <2> DEFINE a == asking[r].addr
  <2>1. a \in Addrs /\ asking[r].since \in Nat
    BY <1>4
  <2>2. /\ visitors[a] # Nothing /\ asking[r].since <= visitors[a].lastSeen
        /\ now <= asking[r].since + MaxHold
    BY <1>4 DEF HeldIsKept
  <2>3. visitors[a].lastSeen \in Nat
    BY <2>1, <2>2
  <2> QED BY <2>1, <2>2, <2>3 DEF IdleTooLong
<1>5. HeldIsKept'
  <2> SUFFICES ASSUME NEW r \in Callers, asking[r] # Nothing
               PROVE  visitors'[asking[r].addr] = visitors[asking[r].addr]
    BY <1>1 DEF HeldIsKept
  <2>1. asking[r].addr \in Addrs
    OBVIOUS
  <2> QED BY <1>1, <1>4, <2>1
<1>6. ASSUME NEW a \in Addrs PROVE Level'[a] = Level[a]
  <2>1. CASE IdleTooLong(a)
    BY <1>1, <2>1, IdleIsFull DEF Level, IdleTooLong
  <2>2. CASE ~IdleTooLong(a)
    BY <1>1, <2>2 DEF Level, Tokens
  <2> QED BY <2>1, <2>2
<1> QED BY <1>3, <1>5, <1>6 DEF Level

LEMMA TickStep ==
  ASSUME LimiterInv, LimiterTick
  PROVE  LimiterInv' /\ Bucket!Refill
<1> USE LimiterAssumption DEF LimiterInv, LimiterTypeOK, Visitors, Requests
<1>1. /\ now' = now + 1 /\ now' \in Nat
      /\ UNCHANGED <<visitors, bucket, asking, answer>>
      /\ \A r \in Callers : asking[r] # Nothing => now - asking[r].since < MaxHold
  BY DEF LimiterTick, Tick
<1>2. LimiterTypeOK' /\ BucketsAreOwn' /\ TakenWhenSeen'
  BY <1>1 DEF BucketsAreOwn, TakenWhenSeen
<1>3. HeldIsKept'
  BY <1>1 DEF HeldIsKept
<1>4. ASSUME NEW a \in Addrs
      PROVE  Level'[a] = IF Level[a] + RPS < Burst THEN Level[a] + RPS ELSE Burst
  <2>1. CASE visitors[a] = Nothing
    BY <1>1, <2>1 DEF Level
  <2>2. CASE visitors[a] # Nothing
    <3> DEFINE b == visitors[a].bucket
               n == now - bucket[b].last
    <3>1. b \in Buckets /\ bucket[b].tokens \in 0..Burst /\ n \in Nat /\ RPS * n \in Nat
      BY <2>2, TokensType DEF TakenWhenSeen
    <3>2. RPS * (n + 1) = RPS * n + RPS /\ now' - bucket[b].last = n + 1
      BY <1>1, <3>1
    <3>3. Level[a] = (IF bucket[b].tokens + RPS * n < Burst THEN bucket[b].tokens + RPS * n ELSE Burst)
      BY <2>2 DEF Level, Tokens
    <3>4. Level'[a] = IF bucket[b].tokens + RPS * (n + 1) < Burst
                      THEN bucket[b].tokens + RPS * (n + 1) ELSE Burst
      BY <1>1, <2>2, <3>2 DEF Level, Tokens
    <3> HIDE DEF b, n
    <3> QED BY <3>1, <3>2, <3>3, <3>4
  <2> QED BY <2>1, <2>2
<1>5. Bucket!Refill
  BY <1>1, <1>4 DEF Bucket!Refill, Level
<1> QED BY <1>2, <1>3, <1>5

LEMMA LimiterStep ==
  ASSUME LimiterInv, [LimiterNext]_limiterVars
  PROVE  /\ LimiterInv'
         /\ [(\E a \in Addrs : Bucket!Admit(a) \/ Bucket!Refuse(a)) \/ Bucket!Refill]_(Bucket!bucketVars)
<1>1. ASSUME Level' = Level, now' = now, answer' = answer
      PROVE  UNCHANGED Bucket!bucketVars
  BY <1>1 DEF Bucket!bucketVars, Level
<1>2. ASSUME NEW r \in Callers, Arrive(r) PROVE LimiterInv' /\ UNCHANGED Bucket!bucketVars
  BY <1>1, <1>2, GetLimiterStep DEF Arrive, getLimiter
<1>3. CASE LimiterCleanup
  BY <1>1, <1>3, CleanupStep DEF LimiterCleanup
<1>4. CASE UNCHANGED limiterVars
  <2>1. LimiterInv'
    BY <1>4 DEF limiterVars, LimiterInv, LimiterTypeOK, BucketsAreOwn, HeldIsKept, TakenWhenSeen
  <2>2. Level' = Level
    BY <1>4 DEF limiterVars, Level, Tokens
  <2> QED BY <1>1, <1>4, <2>1, <2>2 DEF limiterVars
<1> QED BY <1>2, <1>3, <1>4, AllowStep, TickStep DEF LimiterNext

LEMMA LimiterStart == LimiterInit => LimiterInv /\ Bucket!BucketInit
BY LimiterAssumption DEF LimiterInit, LimiterInv, LimiterTypeOK, BucketsAreOwn, HeldIsKept,
   TakenWhenSeen, Bucket!BucketInit

\* Each address is admitted and refused as by a bucket of its own that is never evicted,
\* whatever the cleanup loop forgets and however long requests are held up.
THEOREM LimiterIsBuckets == LimiterSpec => ImplementsTokenBucket
<1>1. LimiterInit => Bucket!BucketInit
  BY LimiterStart
<1>2. LimiterSpec => []LimiterInv
  BY LimiterStart, LimiterStep, PTL DEF LimiterSpec
<1>3. LimiterInv /\ [LimiterNext]_limiterVars =>
        [(\E a \in Addrs : Bucket!Admit(a) \/ Bucket!Refuse(a)) \/ Bucket!Refill]_(Bucket!bucketVars)
  BY LimiterStep
<1> QED BY <1>1, <1>2, <1>3, PTL DEF LimiterSpec, ImplementsTokenBucket, Bucket!BucketSpec
=============================================================================
