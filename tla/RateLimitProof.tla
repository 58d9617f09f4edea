--------------------------- MODULE RateLimitProof ---------------------------
(***************************************************************************)
(* Proofs about the rate limiter, for any number of threads, clients and   *)
(* buckets, any limit and any durations that satisfy IdleAssumption.       *)
(***************************************************************************)
EXTENDS RateWindow, TLAPS

\* Multiplication by a natural number is monotone.
LEMMA MulMono ==
  ASSUME NEW a \in Nat, NEW x \in Int, NEW y \in Int, x >= y
  PROVE  a * x >= a * y
  OBVIOUS

LEMMA MulSucc == \A a \in Nat, m \in Int : a * (m + 1) = a * m + a
  OBVIOUS

LEMMA MulZero == \A a \in Nat : a * 0 = 0
  OBVIOUS

\* The key of a known address is a key of the cache (bucket_key).
LEMMA KeyOfClient == \A c \in Clients : BucketKey(c) \in Keys
  BY DEF Keys

LEMMA AnyClientType == AnyClient \in Clients
  BY ClientsAssumption DEF AnyClient

\* The burst is a number of token units.
LEMMA CapacityType == ASSUME per_minute \in Nat PROVE Capacity \in Nat
  BY TimeAssumption DEF Capacity

\* A refill (check_limit) leaves between nothing and a burst, and never less
\* than was there.
LEMMA RefilledType ==
  ASSUME TypeOK, NEW b \in Buckets, NEW at \in Nat
  PROVE  Refilled(b, at) \in Nat /\ Refilled(b, at) <= Capacity
  <1>1. per_minute \in Nat /\ Capacity \in Nat
    BY LimitsAssumption, CapacityType DEF TypeOK
  <1>2. tokens[b] \in Nat /\ updated[b] \in Nat
    BY DEF TypeOK
  <1>3. \A e \in Nat : per_minute * e \in Nat
    BY <1>1
  <1> QED
    BY <1>1, <1>2, <1>3 DEF Refilled, AtMost

\* The instants passed to check_limit do not run backwards, so the saturating
\* subtraction of duration_since never bites.
LEMMA RefilledAt ==
  ASSUME TypeOK, NEW b \in Buckets, NEW at \in Nat, at >= updated[b]
  PROVE  Refilled(b, at) = AtMost(tokens[b] + per_minute * (at - updated[b]), Capacity)
  BY LimitsAssumption DEF Refilled, TypeOK

\* Retry-After is at least one second (check_limit).
LEMMA RetrySecsType ==
  ASSUME per_minute \in Nat \ {0}, NEW avail \in Nat
  PROVE  RetrySecs(avail) \in Nat
  <1>1. per_minute * Second \in Nat \ {0}
    BY TimeAssumption
  <1>2. (Minute - avail + per_minute * Second - 1) \in Int
    BY <1>1, TimeAssumption
  <1>3. (Minute - avail + per_minute * Second - 1) \div (per_minute * Second) \in Int
    BY <1>1, <1>2
  <1> QED
    BY <1>3 DEF RetrySecs

-----------------------------------------------------------------------------
\* Type correctness.

LEMMA TypeInit == Init => TypeOK
  BY AnyClientType, BucketsAssumption DEF Init, TypeOK

LEMMA TypeStep == TypeOK /\ BucketInv /\ [Next]_vars => TypeOK'
  <1> SUFFICES ASSUME TypeOK, BucketInv, [Next]_vars PROVE TypeOK'
    OBVIOUS
  <1>0. per_minute \in Nat /\ Capacity \in Nat
    BY LimitsAssumption, CapacityType DEF TypeOK
  <1>1. ASSUME NEW t \in Threads, NEW c \in Clients, CheckDisabled(t, c)
        PROVE  TypeOK'
    BY <1>1 DEF CheckDisabled, vars, cacheVars, bucketVars, threadVars, TypeOK
  <1>2. ASSUME NEW t \in Threads, NEW c \in Clients, GetHit(t, c)
        PROVE  TypeOK'
    <2>1. hits[BucketKey(c)] \in Buckets
      BY <1>2, KeyOfClient DEF GetHit, Live, TypeOK
    <2> QED
      BY <1>2, <2>1, KeyOfClient DEF GetHit, Fetch, bucketVars, TypeOK
  <1>3. ASSUME NEW t \in Threads, NEW c \in Clients, GetInit(t, c)
        PROVE  TypeOK'
    BY <1>3, <1>0, KeyOfClient DEF GetInit, Fetch, TypeOK
  <1>4. ASSUME NEW t \in Threads, CheckLimit(t)
        PROVE  /\ held[t] \in Buckets
               /\ Refilled(held[t], InstantUnderLock(t)) \in Nat
               /\ tokens' \in [Buckets -> Nat] /\ updated' \in [Buckets -> Nat]
               /\ held' \in [Threads -> Buckets \cup {NoBucket}]
               /\ ip' \in [Threads -> Clients] /\ since' \in [Threads -> Nat]
               /\ UNCHANGED <<per_minute, now, hits, used, evicted>>
    <2>1. held[t] \in Buckets
      BY <1>4 DEF CheckLimit, TypeOK
    <2>2. now \in Nat
      BY DEF TypeOK
    <2>3. Refilled(held[t], now) \in Nat
      BY <2>1, <2>2, RefilledType
    <2>4. Remaining(held[t], Refilled(held[t], now)) \in Nat
      BY <2>3, TimeAssumption DEF Remaining
    <2> QED
      BY <1>4, <2>1, <2>2, <2>3, <2>4, AnyClientType
      DEF CheckLimit, InstantUnderLock, cacheVars, TypeOK
  <1>5. ASSUME NEW t \in Threads, Admit(t)
        PROVE  TypeOK'
    BY <1>4, <1>5 DEF Admit, TypeOK
  <1>6. ASSUME NEW t \in Threads, Reject(t)
        PROVE  TypeOK'
    <2>1. per_minute \in Nat \ {0}
      BY <1>0, <1>6 DEF Reject, CheckLimit, BucketInv, ClockOK
    <2>2. Refilled(held[t], InstantUnderLock(t)) \in Nat
      BY <1>4, <1>6 DEF Reject
    <2>3. RetrySecs(Refilled(held[t], InstantUnderLock(t))) \in Nat
      BY <2>1, <2>2, RetrySecsType
    <2>4. now + RetrySecs(Refilled(held[t], InstantUnderLock(t))) * Second \in Nat
      BY <2>3, TimeAssumption DEF TypeOK
    <2> QED
      BY <1>4, <1>6, <2>4 DEF Reject, TypeOK
  <1>7. ASSUME NEW k \in Keys, Evict(k)
        PROVE  TypeOK'
    BY <1>7 DEF Evict, bucketVars, threadVars, TypeOK
  <1>8. ASSUME NEW k \in Keys, ExpireIdle(k)
        PROVE  TypeOK'
    BY <1>8 DEF ExpireIdle, bucketVars, threadVars, TypeOK
  <1>9. CASE Tick
    BY <1>9 DEF Tick, cacheVars, bucketVars, threadVars, TypeOK
  <1>10. CASE UNCHANGED vars
    BY <1>10 DEF vars, cacheVars, bucketVars, threadVars, TypeOK
  <1> QED
    BY <1>1, <1>2, <1>3, <1>5, <1>6, <1>7, <1>8, <1>9, <1>10 DEF Next

-----------------------------------------------------------------------------
\* The bucket invariant.

LEMMA BucketInvInit == Init => BucketInv
  <1> SUFFICES ASSUME Init PROVE BucketInv
    OBVIOUS
  <1>1. per_minute \in Nat /\ Capacity \in Nat
    BY LimitsAssumption, CapacityType DEF Init
  <1> QED
    BY <1>1, BucketsAssumption
    DEF Init, BucketInv, ClockOK, OneOwner, HeldIsCached, StampNearAccess

\* A fetched entry is renewed, so it is live while any thread holds its bucket.
LEMMA HeldIsLive ==
  ASSUME TypeOK, BucketInv, NEW t \in Threads,
         held[t] # NoBucket, BucketKey(ip[t]) \notin evicted
  PROVE  /\ BucketKey(ip[t]) \in Keys
         /\ Live(BucketKey(ip[t]))
         /\ hits[BucketKey(ip[t])] = held[t]
  <1> DEFINE k == BucketKey(ip[t])
  <1>1. k \in Keys
    BY KeyOfClient DEF TypeOK
  <1>2. hits[k] = held[t] /\ since[t] <= used[k] /\ now - since[t] <= MaxStall
    BY DEF BucketInv, HeldIsCached, ClockOK
  <1>3. now < used[k] + TimeToIdle
    BY <1>1, <1>2, IdleAssumption, TimeAssumption DEF TypeOK
  <1>4. ~(now >= used[k] + TimeToIdle)
    BY <1>1, <1>3, TimeAssumption DEF TypeOK
  <1> QED
    BY <1>1, <1>2, <1>4 DEF Live, Expired

\* What get_with does to the invariant, whichever bucket b it returns.
LEMMA FetchClock ==
  ASSUME TypeOK, BucketInv, NEW t \in Threads, NEW c \in Clients,
         NEW b \in Buckets, Fetch(t, c, b)
  PROVE  /\ \A k \in Keys : used'[k] <= now'
         /\ \A s \in Threads : held'[s] # NoBucket =>
              /\ per_minute' # 0
              /\ since'[s] <= now'
              /\ now' - since'[s] <= MaxStall
  <1>1. BucketKey(c) \in Keys /\ now \in Nat /\ now' = now
    BY KeyOfClient DEF TypeOK, Fetch
  <1>2. \A k \in Keys : used'[k] <= now'
    BY <1>1 DEF Fetch, TypeOK, BucketInv, ClockOK
  <1>3. \A s \in Threads : since'[s] = IF s = t THEN now ELSE since[s]
    BY DEF Fetch, TypeOK
  <1>4. \A s \in Threads : s # t => held'[s] = held[s]
    BY DEF Fetch, TypeOK
  <1>5. per_minute' = per_minute /\ per_minute # 0
    BY DEF Fetch
  <1>6. now - now <= MaxStall
    BY <1>1, TimeAssumption
  <1> QED
    BY <1>1, <1>2, <1>3, <1>4, <1>5, <1>6 DEF BucketInv, ClockOK

LEMMA BucketInvStep == TypeOK /\ BucketInv /\ [Next]_vars => BucketInv'
  <1> SUFFICES ASSUME TypeOK, BucketInv, [Next]_vars PROVE BucketInv'
    OBVIOUS
  <1>0. per_minute \in Nat /\ Capacity \in Nat
    BY LimitsAssumption, CapacityType DEF TypeOK
  <1> USE DEF BucketInv
  <1>1. ASSUME NEW t \in Threads, NEW c \in Clients, CheckDisabled(t, c)
        PROVE  BucketInv'
    BY <1>1 DEF CheckDisabled, vars, cacheVars, bucketVars, threadVars, ClockOK,
                OneOwner, HeldIsCached, StampNearAccess, Capacity
  <1>2. ASSUME NEW t \in Threads, NEW c \in Clients, GetHit(t, c)
        PROVE  BucketInv'
    <2> DEFINE key == BucketKey(c)
    <2>1. key \in Keys /\ hits[key] \in Buckets /\ Fetch(t, c, hits[key])
      BY <1>2, KeyOfClient DEF GetHit, Live, TypeOK
    <2>2. UNCHANGED <<per_minute, now, hits, tokens, updated, evicted>>
      BY <1>2 DEF GetHit, Fetch, bucketVars
    <2>3. ClockOK'
      BY <2>1, <2>2, FetchClock DEF ClockOK, Capacity
    <2>4. \A s \in Threads : s # t => ip'[s] = ip[s] /\ held'[s] = held[s] /\ since'[s] = since[s]
      BY <2>1 DEF Fetch, TypeOK
    <2>5. ip'[t] = c /\ held'[t] = hits[key] /\ since'[t] = now /\ used'[key] = now
      BY <2>1 DEF Fetch, TypeOK
    <2>6. \A k \in Keys : used'[k] >= used[k]
      BY <2>1 DEF Fetch, TypeOK, ClockOK
    <2>7. OneOwner'
      BY <2>1, <2>2, <2>4, <2>5 DEF OneOwner
    <2>8. HeldIsCached'
      <3> SUFFICES ASSUME NEW s \in Threads, held'[s] # NoBucket,
                          BucketKey(ip'[s]) \notin evicted'
                   PROVE  /\ hits'[BucketKey(ip'[s])] = held'[s]
                          /\ since'[s] <= used'[BucketKey(ip'[s])]
        BY DEF HeldIsCached
      <3>1. CASE s = t
        BY <3>1, <2>1, <2>2, <2>5 DEF TypeOK
      <3>2. CASE s # t
        <4>1. BucketKey(ip[s]) \in Keys /\ ip'[s] = ip[s]
          BY <3>2, <2>4, KeyOfClient DEF TypeOK
        <4>2. used'[BucketKey(ip[s])] >= used[BucketKey(ip[s])]
          BY <4>1, <2>6
        <4>3. used' \in [Keys -> Nat]
          BY <2>1 DEF Fetch, TypeOK
        <4> QED
          BY <3>2, <4>1, <4>2, <4>3, <2>2, <2>4 DEF HeldIsCached, TypeOK
      <3> QED
        BY <3>1, <3>2
    <2>9. StampNearAccess'
      <3> SUFFICES ASSUME NEW k \in Keys \ evicted, hits[k] # NoBucket
                   PROVE  updated[hits[k]] <= used'[k] + MaxStall
        BY <2>2 DEF StampNearAccess
      <3>1. used' \in [Keys -> Nat]
        BY <2>1 DEF Fetch, TypeOK
      <3>2. updated[hits[k]] \in Nat /\ used[k] \in Nat /\ used'[k] \in Nat
        BY <3>1 DEF TypeOK
      <3> QED
        BY <2>6, <3>2, TimeAssumption DEF StampNearAccess
    <2> QED
      BY <2>3, <2>7, <2>8, <2>9
  <1>3. ASSUME NEW t \in Threads, NEW c \in Clients, GetInit(t, c)
        PROVE  BucketInv'
    <2> DEFINE key == BucketKey(c)
    <2>1. key \in Keys
      BY KeyOfClient
    <2>2. PICK b \in Buckets :
            /\ Free(b)
            /\ Fetch(t, c, b)
            /\ hits' = [hits EXCEPT ![key] = b]
            /\ tokens' = [tokens EXCEPT ![b] = Capacity]
            /\ updated' = [updated EXCEPT ![b] = now]
      BY <1>3 DEF GetInit
    <2>3. UNCHANGED <<per_minute, now, evicted>> /\ Capacity' = Capacity
      BY <2>2 DEF Fetch, Capacity
    <2>4. ClockOK'
      BY <2>2, <2>3, <1>0, FetchClock DEF ClockOK, TypeOK
    <2>5. \A s \in Threads : s # t => ip'[s] = ip[s] /\ held'[s] = held[s] /\ since'[s] = since[s]
      BY <2>2 DEF Fetch, TypeOK
    <2>6. ip'[t] = c /\ held'[t] = b /\ since'[t] = now /\ used'[key] = now
      BY <2>1, <2>2 DEF Fetch, TypeOK
    <2>7. \A k \in Keys : /\ hits'[k] = IF k = key THEN b ELSE hits[k]
                          /\ used'[k] = IF k = key THEN now ELSE used[k]
      BY <2>1, <2>2 DEF Fetch, TypeOK
    <2>8. OneOwner'
      BY <2>1, <2>2, <2>5, <2>6, <2>7 DEF OneOwner, Free
    <2>9. \A s \in Threads : s # t /\ held[s] # NoBucket /\ BucketKey(ip[s]) \notin evicted
            => BucketKey(ip[s]) # key
      BY <1>3, HeldIsLive DEF GetInit
    <2>10. HeldIsCached'
      <3> SUFFICES ASSUME NEW s \in Threads, held'[s] # NoBucket,
                          BucketKey(ip'[s]) \notin evicted'
                   PROVE  /\ hits'[BucketKey(ip'[s])] = held'[s]
                          /\ since'[s] <= used'[BucketKey(ip'[s])]
        BY DEF HeldIsCached
      <3>1. CASE s = t
        BY <3>1, <2>1, <2>6, <2>7 DEF TypeOK
      <3>2. CASE s # t
        <4>1. BucketKey(ip[s]) \in Keys /\ ip'[s] = ip[s]
          BY <3>2, <2>5, KeyOfClient DEF TypeOK
        <4> QED
          BY <3>2, <4>1, <2>3, <2>5, <2>7, <2>9 DEF HeldIsCached
      <3> QED
        BY <3>1, <3>2
    <2>11. StampNearAccess'
      <3> SUFFICES ASSUME NEW k \in Keys \ evicted, hits'[k] # NoBucket
                   PROVE  updated'[hits'[k]] <= used'[k] + MaxStall
        BY <2>3 DEF StampNearAccess
      <3>1. CASE k = key
        BY <3>1, <2>2, <2>7, TimeAssumption DEF TypeOK
      <3>2. CASE k # key
        <4>1. hits[k] # b /\ hits'[k] = hits[k] /\ used'[k] = used[k]
          BY <3>2, <2>2, <2>7 DEF Free
        <4>2. hits[k] \in Buckets /\ updated'[hits[k]] = updated[hits[k]]
          BY <4>1, <2>2 DEF TypeOK
        <4> QED
          BY <4>1, <4>2 DEF StampNearAccess
      <3> QED
        BY <3>1, <3>2
    <2> QED
      BY <2>4, <2>8, <2>10, <2>11
  <1>4. ASSUME NEW t \in Threads, CheckLimit(t)
        PROVE  BucketInv'
    <2> DEFINE b == held[t]
    <2>1. b \in Buckets /\ now \in Nat
      BY <1>4 DEF CheckLimit, TypeOK
    <2>2. UNCHANGED <<per_minute, now, hits, used, evicted>> /\ Capacity' = Capacity
      BY <1>4 DEF CheckLimit, cacheVars, Capacity
    <2>3. Refilled(b, now) \in Nat /\ Refilled(b, now) <= Capacity
      BY <2>1, RefilledType
    <2>4. Remaining(b, Refilled(b, now)) <= Capacity
      BY <1>0, <2>3, TimeAssumption DEF Remaining
    <2>5. \A x \in Buckets :
            /\ updated'[x] = IF x = b THEN now ELSE updated[x]
            /\ tokens'[x] = IF x = b THEN Remaining(b, Refilled(b, now)) ELSE tokens[x]
      BY <1>4, <2>1 DEF CheckLimit, InstantUnderLock, TypeOK
    <2>6. \A s \in Threads : held'[s] # NoBucket =>
            s # t /\ held'[s] = held[s] /\ ip'[s] = ip[s] /\ since'[s] = since[s]
      BY <1>4 DEF CheckLimit, TypeOK
    <2>7. ClockOK'
      BY <2>1, <2>2, <2>4, <2>5, <2>6 DEF ClockOK
    <2>8. OneOwner'
      BY <2>2, <2>6 DEF OneOwner
    <2>9. HeldIsCached'
      BY <2>2, <2>6 DEF HeldIsCached
    <2>10. StampNearAccess'
      <3> SUFFICES ASSUME NEW k \in Keys \ evicted, hits[k] # NoBucket
                   PROVE  updated'[hits[k]] <= used[k] + MaxStall
        BY <2>2 DEF StampNearAccess
      <3>1. hits[k] \in Buckets
        BY DEF TypeOK
      <3>2. CASE hits[k] = b
        <4>1. k = BucketKey(ip[t])
          BY <3>2, <2>1, BucketsAssumption DEF OneOwner
        <4>2. since[t] <= used[k] /\ now - since[t] <= MaxStall
          BY <4>1, <2>1, BucketsAssumption DEF HeldIsCached, ClockOK
        <4> QED
          BY <3>1, <3>2, <4>2, <2>5, TimeAssumption DEF TypeOK
      <3>3. CASE hits[k] # b
        BY <3>1, <3>3, <2>5 DEF StampNearAccess
      <3> QED
        BY <3>2, <3>3
    <2> QED
      BY <2>7, <2>8, <2>9, <2>10
  <1>5. ASSUME NEW k \in Keys, Evict(k)
        PROVE  BucketInv'
    <2>1. /\ UNCHANGED <<per_minute, now, used, tokens, updated, held, ip, since>>
          /\ Capacity' = Capacity /\ evicted' = evicted \cup {k}
          /\ \A l \in Keys : hits'[l] = IF l = k THEN NoBucket ELSE hits[l]
      BY <1>5 DEF Evict, bucketVars, threadVars, Capacity, TypeOK
    <2>2. \A t \in Threads : BucketKey(ip[t]) \in Keys
      BY KeyOfClient DEF TypeOK
    <2> QED
      BY <2>1, <2>2 DEF ClockOK, OneOwner, HeldIsCached, StampNearAccess
  <1>6. ASSUME NEW k \in Keys, ExpireIdle(k)
        PROVE  BucketInv'
    <2>1. /\ UNCHANGED <<per_minute, now, used, tokens, updated, held, ip, since, evicted>>
          /\ Capacity' = Capacity
          /\ \A l \in Keys : hits'[l] = IF l = k THEN NoBucket ELSE hits[l]
      BY <1>6 DEF ExpireIdle, bucketVars, threadVars, Capacity, TypeOK
    <2>2. \A t \in Threads : held[t] # NoBucket /\ BucketKey(ip[t]) \notin evicted
            => BucketKey(ip[t]) \in Keys /\ BucketKey(ip[t]) # k
      BY <1>6, HeldIsLive DEF ExpireIdle, Live
    <2> QED
      BY <2>1, <2>2 DEF ClockOK, OneOwner, HeldIsCached, StampNearAccess
  <1>7. CASE Tick
    <2>1. /\ UNCHANGED <<per_minute, hits, used, tokens, updated, held, ip, since, evicted>>
          /\ now' = now + 1 /\ Capacity' = Capacity
      BY <1>7 DEF Tick, cacheVars, bucketVars, threadVars, Capacity
    <2>2. ClockOK'
      <3>1. \A x \in Buckets : updated[x] <= now + 1 /\ tokens[x] <= Capacity
        BY DEF ClockOK, TypeOK
      <3>2. \A k \in Keys : used[k] <= now + 1
        BY DEF ClockOK, TypeOK
      <3>3. \A t \in Threads : held[t] # NoBucket =>
              since[t] <= now + 1 /\ (now + 1) - since[t] <= MaxStall
        BY <1>7, TimeAssumption DEF Tick, ClockOK, TypeOK
      <3> QED
        BY <2>1, <3>1, <3>2, <3>3 DEF ClockOK
    <2> QED
      BY <2>1, <2>2 DEF OneOwner, HeldIsCached, StampNearAccess
  <1>8. CASE UNCHANGED vars
    BY <1>8 DEF vars, cacheVars, bucketVars, threadVars, ClockOK, OneOwner,
                HeldIsCached, StampNearAccess, Capacity
  <1> QED
    BY <1>1, <1>2, <1>3, <1>4, <1>5, <1>6, <1>7, <1>8 DEF Next, Admit, Reject

\* Every reachable state of check and the cache is well typed.
THEOREM RateLimitTypeOK == Spec => []TypeOK
  <1>1. Init => TypeOK /\ BucketInv
    BY TypeInit, BucketInvInit
  <1>2. TypeOK /\ BucketInv /\ [Next]_vars => (TypeOK /\ BucketInv)'
    BY TypeStep, BucketInvStep
  <1> QED
    BY <1>1, <1>2, PTL DEF Spec

\* A thread that has passed get_with locks the bucket the cache still offers,
\* and a bucket that idles out is full, unless the key was evicted for capacity.
THEOREM BucketsCoherent == Spec => []BucketInv
  <1>1. Init => TypeOK /\ BucketInv
    BY TypeInit, BucketInvInit
  <1>2. TypeOK /\ BucketInv /\ [Next]_vars => (TypeOK /\ BucketInv)'
    BY TypeStep, BucketInvStep
  <1> QED
    BY <1>1, <1>2, PTL DEF Spec

-----------------------------------------------------------------------------
\* What each step does to the potential of a key.

\* The potential of a key is between nothing and a burst.
LEMMA PotentialType ==
  ASSUME TypeOK, NEW k \in Keys
  PROVE  Potential(k) \in Nat /\ Potential(k) <= Capacity
  <1>1. Capacity \in Nat
    BY LimitsAssumption, CapacityType DEF TypeOK
  <1>2. now \in Nat /\ (Live(k) => hits[k] \in Buckets)
    BY DEF Live, TypeOK
  <1> QED
    BY <1>1, <1>2, RefilledType DEF Potential

\* A refill up to the instant of the last one changes nothing.
LEMMA RefillNow ==
  ASSUME TypeOK, NEW b \in Buckets, updated[b] = now, tokens[b] <= Capacity
  PROVE  Refilled(b, now) = tokens[b]
  <1>1. per_minute \in Nat /\ Capacity \in Nat /\ now \in Nat /\ tokens[b] \in Nat
    BY LimitsAssumption, CapacityType DEF TypeOK
  <1>2. now - updated[b] = 0 /\ per_minute * 0 = 0
    BY <1>1
  <1> QED
    BY <1>1, <1>2 DEF Refilled, AtMost

\* A cache hit gives and takes nothing.
LEMMA PotentialGetHit ==
  ASSUME TypeOK, NEW t \in Threads, NEW c \in Clients, GetHit(t, c)
  PROVE  \A k \in Keys : Potential(k)' = Potential(k)
  <1>1. UNCHANGED <<per_minute, now, hits, tokens, updated>>
    BY DEF GetHit, Fetch, bucketVars
  <1>2. BucketKey(c) \in Keys
    BY KeyOfClient
  <1>3. \A k \in Keys : used'[k] = IF k = BucketKey(c) THEN now ELSE used[k]
    BY <1>2 DEF GetHit, Fetch, TypeOK
  <1>4. ~(now >= now + TimeToIdle)
    BY IdleAssumption, TimeAssumption DEF TypeOK
  <1>5. \A k \in Keys : Live(k)' = Live(k)
    BY <1>1, <1>3, <1>4 DEF Live, Expired, GetHit
  <1>6. Capacity' = Capacity
    BY <1>1 DEF Capacity
  <1>7. \A b : Refilled(b, now)' = Refilled(b, now)
    BY <1>1, <1>6 DEF Refilled
  <1> QED
    BY <1>1, <1>5, <1>6, <1>7 DEF Potential

\* A new bucket is as full as the one it replaces would be.
LEMMA PotentialGetInit ==
  ASSUME TypeOK, TypeOK', NEW t \in Threads, NEW c \in Clients, GetInit(t, c)
  PROVE  \A k \in Keys : Potential(k)' = Potential(k)
  <1> DEFINE key == BucketKey(c)
  <1>1. PICK b \in Buckets :
          /\ Free(b)
          /\ Fetch(t, c, b)
          /\ hits' = [hits EXCEPT ![key] = b]
          /\ tokens' = [tokens EXCEPT ![b] = Capacity]
          /\ updated' = [updated EXCEPT ![b] = now]
    BY DEF GetInit
  <1>2. key \in Keys /\ per_minute' = per_minute /\ now' = now /\ Capacity' = Capacity
    BY <1>1, KeyOfClient DEF Fetch, Capacity
  <1>3. Potential(key)' = Potential(key)
    <2>1. Potential(key) = Capacity
      BY DEF GetInit, Potential
    <2>2. hits'[key] = b /\ used'[key] = now
      BY <1>1, <1>2 DEF Fetch, TypeOK
    <2>3. ~(now >= now + TimeToIdle)
      BY IdleAssumption, TimeAssumption DEF TypeOK
    <2>4. Live(key)'
      BY <1>2, <2>2, <2>3, BucketsAssumption DEF Live, Expired
    <2>5. Capacity \in Nat
      BY LimitsAssumption, CapacityType DEF TypeOK
    <2>6. updated'[b] = now' /\ tokens'[b] = Capacity
      BY <1>1, <1>2 DEF TypeOK
    <2>7. now' - updated'[b] = 0 /\ per_minute' * 0 = 0 /\ now' >= updated'[b]
      BY <2>6, <1>2, LimitsAssumption DEF TypeOK
    <2>8. Refilled(b, now)' = Capacity
      BY <2>5, <2>6, <2>7, <1>2 DEF Refilled, AtMost
    <2> QED
      BY <2>1, <2>2, <2>4, <2>8 DEF Potential
  <1>4. ASSUME NEW k \in Keys, k # key PROVE Potential(k)' = Potential(k)
    <2>1. hits'[k] = hits[k] /\ used'[k] = used[k] /\ hits[k] # b
      BY <1>1, <1>2, <1>4 DEF Fetch, TypeOK, Free
    <2>2. Live(k)' = Live(k)
      BY <1>2, <2>1 DEF Live, Expired
    <2>3. hits[k] \in Buckets => Refilled(hits[k], now)' = Refilled(hits[k], now)
      BY <1>1, <1>2, <2>1 DEF Refilled, TypeOK
    <2>4. Live(k) => hits[k] \in Buckets
      BY DEF Live, TypeOK
    <2> QED
      BY <1>2, <2>1, <2>2, <2>3, <2>4 DEF Potential
  <1> QED
    BY <1>3, <1>4

\* check_limit spends from the key of its own request, and from no other.
LEMMA PotentialCheckLimit ==
  ASSUME TypeOK, TypeOK', BucketInv, BucketInv', NEW t \in Threads, CheckLimit(t),
         NEW key \in Keys, key = BucketKey(ip[t])
  PROVE  /\ key \notin evicted =>
              /\ Potential(key) = Refilled(held[t], now)
              /\ Potential(key)' = Remaining(held[t], Refilled(held[t], now))
         /\ \A k \in Keys : k # key => Potential(k)' = Potential(k)
  <1>0. PICK b \in Buckets : b = held[t] /\ b # NoBucket
    BY DEF CheckLimit, TypeOK
  <1>1. now \in Nat
    BY DEF TypeOK
  <1>2. UNCHANGED <<per_minute, now, hits, used, evicted>> /\ Capacity' = Capacity
    BY DEF CheckLimit, cacheVars, Capacity
  <1>3. \A k \in Keys : Live(k)' = Live(k)
    BY <1>2 DEF Live, Expired
  <1>4. /\ tokens' = [tokens EXCEPT ![b] = Remaining(b, Refilled(b, now))]
        /\ updated' = [updated EXCEPT ![b] = now]
    BY <1>0 DEF CheckLimit, InstantUnderLock
  <1>5. ASSUME key \notin evicted
        PROVE  /\ Potential(key) = Refilled(b, now)
               /\ Potential(key)' = Remaining(b, Refilled(b, now))
    <2>1. Live(key) /\ hits[key] = b
      BY <1>0, <1>5, HeldIsLive
    <2>2. tokens'[b] = Remaining(b, Refilled(b, now)) /\ updated'[b] = now'
      BY <1>1, <1>2, <1>4 DEF TypeOK
    <2>3. tokens'[b] <= Capacity'
      BY <1>1 DEF BucketInv, ClockOK
    <2>4. Refilled(b, now)' = tokens'[b]
      <3>1. /\ per_minute' \in Nat /\ Capacity' \in Nat /\ now' \in Nat
            /\ tokens'[b] \in Nat
        BY <1>1, <1>2, LimitsAssumption, CapacityType DEF TypeOK
      <3>2. now' - updated'[b] = 0
        BY <3>1, <2>2
      <3>3. per_minute' * 0 = 0
        BY <3>1, MulZero
      <3> QED
        BY <2>2, <2>3, <3>1, <3>2, <3>3 DEF Refilled, AtMost
    <2> QED
      BY <1>2, <1>3, <2>1, <2>2, <2>4, <1>1 DEF Potential
  <1>6. ASSUME NEW k \in Keys, k # key PROVE Potential(k)' = Potential(k)
    <2>1. hits[k] # b
      BY <1>0, <1>6 DEF BucketInv, OneOwner
    <2>2. hits[k] \in Buckets => Refilled(hits[k], now)' = Refilled(hits[k], now)
      BY <1>2, <1>4, <2>1 DEF Refilled, TypeOK
    <2>3. Live(k) => hits[k] \in Buckets
      BY DEF Live, TypeOK
    <2> QED
      BY <1>2, <1>3, <2>2, <2>3 DEF Potential
  <1>7. /\ key \notin evicted =>
             /\ Potential(key) = Refilled(b, now)
             /\ Potential(key)' = Remaining(b, Refilled(b, now))
        /\ \A k \in Keys : k # key => Potential(k)' = Potential(k)
    BY <1>5, <1>6
  <1> QED
    BY <1>0, <1>7

\* Dropping an entry changes the potential of that key only, and not even
\* that one's when the entry had idled out.
LEMMA PotentialDrop ==
  ASSUME TypeOK, NEW k \in Keys, hits' = [hits EXCEPT ![k] = NoBucket],
         UNCHANGED <<per_minute, now, used, tokens, updated>>
  PROVE  /\ \A l \in Keys : l # k => Potential(l)' = Potential(l)
         /\ Expired(k) => Potential(k)' = Potential(k)
  <1>1. \A l \in Keys : hits'[l] = IF l = k THEN NoBucket ELSE hits[l]
    BY DEF TypeOK
  <1>2. Capacity' = Capacity
    BY DEF Capacity
  <1>3. \A b : Refilled(b, now)' = Refilled(b, now)
    BY <1>2 DEF Refilled
  <1>4. \A l \in Keys : l # k => Live(l)' = Live(l)
    BY <1>1 DEF Live, Expired
  <1>5. ~Live(k)'
    BY <1>1 DEF Live
  <1> QED
    BY <1>1, <1>2, <1>3, <1>4, <1>5 DEF Potential, Live

\* In one tick every key earns per_minute units up to the burst, also when
\* its bucket idles out in that very tick.
LEMMA PotentialTick ==
  ASSUME TypeOK, BucketInv, Tick, NEW k \in Keys \ evicted
  PROVE  Potential(k)' = AtMost(Potential(k) + per_minute, Capacity)
  <1>1. /\ UNCHANGED <<per_minute, hits, used, tokens, updated>>
        /\ now' = now + 1 /\ Capacity' = Capacity
    BY DEF Tick, cacheVars, bucketVars, Capacity
  <1>2. per_minute \in Nat /\ Capacity \in Nat /\ now \in Nat /\ used[k] \in Nat
    BY LimitsAssumption, CapacityType DEF TypeOK
  <1>3. CASE ~Live(k)
    <2>1. ~Live(k)'
      BY <1>1, <1>2, <1>3, TimeAssumption DEF Live, Expired
    <2> QED
      BY <1>1, <1>2, <1>3, <2>1 DEF Potential, AtMost
  <1>4. CASE Live(k)
    <2>1. PICK b \in Buckets : b = hits[k] /\ b # NoBucket
      BY <1>4 DEF Live, TypeOK
    <2> DEFINE x == tokens[b] + per_minute * (now - updated[b])
    <2>2. tokens[b] \in Nat /\ updated[b] \in Nat /\ updated[b] <= now
      BY <2>1 DEF TypeOK, BucketInv, ClockOK
    <2>3. x \in Int
      BY <1>2, <2>2
    <2>4. per_minute * (now + 1 - updated[b]) = per_minute * (now - updated[b]) + per_minute
      BY <1>2, <2>2
    <2>5. Refilled(b, now) = AtMost(x, Capacity)
      BY <2>2, <1>2 DEF Refilled
    <2>6. Refilled(b, now)' = AtMost(x + per_minute, Capacity)
      <3>1. now + 1 >= updated[b]
        BY <1>2, <2>2
      <3>3. PICK at \in Nat : at = now + 1
        BY <1>2
      <3>4. Refilled(b, at) = AtMost(tokens[b] + per_minute * (at - updated[b]), Capacity)
        BY <3>1, <3>3, RefilledAt
      <3>5. tokens[b] + per_minute * (at - updated[b]) = x + per_minute
        <4>1. PICK m \in Int : m = now - updated[b]
          BY <1>2, <2>2
        <4>2. at - updated[b] = m + 1
          BY <1>2, <2>2, <3>3, <4>1
        <4>3. per_minute * (m + 1) = per_minute * m + per_minute
          BY <1>2, MulSucc
        <4>4. per_minute * m \in Int
          BY <1>2
        <4> QED
          BY <1>2, <2>2, <4>1, <4>2, <4>3, <4>4
      <3>6. Refilled(b, now)' = Refilled(b, at)
        BY <1>1, <3>3 DEF Refilled
      <3> HIDE DEF x
      <3> QED
        BY <3>4, <3>5, <3>6, Zenon
    <2>7. CASE Live(k)'
      <3>1. Potential(k) = AtMost(x, Capacity)
        BY <1>4, <2>1, <2>5 DEF Potential
      <3>2. Potential(k)' = AtMost(x + per_minute, Capacity)
        BY <1>1, <2>1, <2>6, <2>7 DEF Potential
      <3> HIDE DEF x
      <3> QED
        BY <1>2, <2>3, <3>1, <3>2 DEF AtMost
    <2>8. CASE ~Live(k)'
      <3>1. now + 1 >= used[k] + TimeToIdle
        BY <1>1, <2>1, <2>8 DEF Live, Expired
      <3>2. updated[b] <= used[k] + MaxStall
        BY <2>1 DEF BucketInv, StampNearAccess
      <3>3. now + 1 - updated[b] >= Minute
        BY <3>1, <3>2, <1>2, <2>2, IdleAssumption, TimeAssumption
      <3>4. per_minute * (now + 1 - updated[b]) >= Capacity
        BY <3>3, <1>2, <2>2, MulMono, TimeAssumption DEF Capacity
      <3>5. x + per_minute >= Capacity
        BY <3>4, <2>4, <1>2, <2>2
      <3>6. Potential(k) = AtMost(x, Capacity)
        BY <1>4, <2>1, <2>5 DEF Potential
      <3>7. Potential(k)' = Capacity
        BY <1>1, <2>8 DEF Potential
      <3> HIDE DEF x
      <3> QED
        BY <1>2, <2>3, <3>5, <3>6, <3>7 DEF AtMost
    <2> QED
      BY <2>7, <2>8
  <1> QED
    BY <1>3, <1>4

-----------------------------------------------------------------------------
\* The rate bound.

\* Addresses the README counts as one client share a key (bucket_key).
LEMMA SameClientSameKey ==
  ASSUME NEW a \in Clients, NEW b \in Clients, SameClient(a, b)
  PROVE  BucketKey(a) = BucketKey(b)
  BY ClientsAssumption DEF SameClient, BucketKey, AddressKinds

LEMMA WindowStepIsStep == [WNext]_wvars => [Next]_vars
  BY DEF WNext, wvars, OpenWindow, Count, Quiet, Next

LEMMA WTypeStep == WTypeOK /\ TypeOK' /\ [WNext]_wvars => WTypeOK'
  <1> SUFFICES ASSUME WTypeOK, TypeOK', [WNext]_wvars PROVE WTypeOK'
    OBVIOUS
  <1>1. now \in Nat /\ now' \in Nat /\ now' >= now
    <2>1. now' = now \/ now' = now + 1
      BY DEF WNext, wvars, vars, OpenWindow, Count, Quiet, CheckDisabled, GetHit,
             GetInit, Fetch, Admit, Reject, CheckLimit, Evict, ExpireIdle, Tick
    <2> QED
      BY <2>1 DEF WTypeOK, TypeOK
  <1>2. ASSUME NEW c \in Clients, OpenWindow(c) PROVE WTypeOK'
    BY <1>1, <1>2 DEF OpenWindow, vars, WTypeOK
  <1>3. ASSUME NEW t \in Threads, Count(t) PROVE WTypeOK'
    BY <1>1, <1>3 DEF Count, WTypeOK
  <1>4. CASE UNCHANGED winVars
    BY <1>1, <1>4 DEF winVars, WTypeOK
  <1> QED
    BY <1>2, <1>3, <1>4 DEF WNext, Quiet, wvars

LEMMA BudgetStep ==
  WTypeOK /\ BucketInv /\ WithinBudget /\ [WNext]_wvars => WithinBudget'
  <1> SUFFICES ASSUME WTypeOK, BucketInv, WithinBudget, [WNext]_wvars,
                      win_ip' # NoClient, BucketKey(win_ip') \notin evicted'
               PROVE  win_count' * Minute + Potential(BucketKey(win_ip))'
                        <= Capacity' + per_minute' * (now' - win_start')
    BY DEF WithinBudget
  <1>1. TypeOK /\ TypeOK' /\ BucketInv'
    BY WindowStepIsStep, TypeStep, BucketInvStep DEF WTypeOK
  <1>2. WTypeOK'
    BY <1>1, WTypeStep
  <1>3. PICK k \in Keys : k = BucketKey(win_ip')
    BY <1>2, KeyOfClient DEF WTypeOK
  <1> SUFFICES win_count' * Minute + Potential(k)'
                 <= Capacity' + per_minute' * (now' - win_start')
    BY <1>3
  <1>4. /\ per_minute \in Nat /\ now \in Nat /\ Capacity \in Nat
        /\ win_start \in Nat /\ win_count \in Nat /\ Minute \in Nat
        /\ Potential(k) \in Nat /\ Potential(k) <= Capacity
    BY <1>1, LimitsAssumption, CapacityType, PotentialType, TimeAssumption
    DEF WTypeOK, TypeOK
  <1>5. per_minute' = per_minute /\ Capacity' = Capacity
    BY DEF WNext, wvars, vars, OpenWindow, Count, Quiet, CheckDisabled, GetHit,
           GetInit, Fetch, Admit, Reject, CheckLimit, Evict, ExpireIdle, Tick, Capacity
  <1>6. evicted \subseteq evicted'
    BY DEF WNext, wvars, vars, OpenWindow, Count, Quiet, CheckDisabled, GetHit,
           GetInit, Fetch, Admit, Reject, CheckLimit, Evict, ExpireIdle, Tick
  <1>7. k \notin evicted
    BY <1>3, <1>6
  <1>8. ASSUME NEW c \in Clients, OpenWindow(c)
        PROVE  win_count' * Minute + Potential(k)'
                 <= Capacity' + per_minute' * (now' - win_start')
    <2>1. win_count' = 0 /\ win_start' = now /\ now' = now
      BY <1>8 DEF OpenWindow, vars
    <2>2. Potential(k)' = Potential(k)
      BY <1>8 DEF OpenWindow, vars, cacheVars, bucketVars, Potential, Live, Expired,
                  Refilled, Capacity
    <2>3. 0 * Minute = 0 /\ per_minute * (now - now) = 0
      BY <1>4
    <2> QED
      BY <1>4, <1>5, <2>1, <2>2, <2>3
  <1>9. ASSUME UNCHANGED win_ip
        PROVE  win_count * Minute + Potential(k)
                 <= Capacity + per_minute * (now - win_start)
    BY <1>3, <1>7, <1>9 DEF WithinBudget
  <1>10. ASSUME NEW t \in Threads, Count(t)
         PROVE  win_count' * Minute + Potential(k)'
                  <= Capacity' + per_minute' * (now' - win_start')
    <2>1. CheckLimit(t) /\ Refilled(held[t], now) >= Minute
      BY <1>10 DEF Count, Admit, InstantUnderLock
    <2>2. PICK key \in Keys : key = BucketKey(ip[t])
      BY <1>1, KeyOfClient DEF TypeOK
    <2>3. /\ key \notin evicted =>
               /\ Potential(key) = Refilled(held[t], now)
               /\ Potential(key)' = Remaining(held[t], Refilled(held[t], now))
          /\ \A l \in Keys : l # key => Potential(l)' = Potential(l)
      BY <1>1, <2>1, <2>2, PotentialCheckLimit
    <2>4. k = key => Potential(k) >= Minute /\ Potential(k)' = Potential(k) - Minute
      BY <1>7, <2>1, <2>3 DEF Remaining
    <2>5. now' = now /\ UNCHANGED <<win_ip, win_start>>
      BY <1>10, <2>1 DEF Count, CheckLimit
    <2>6. CASE win_count' = win_count + 1 /\ SameClient(ip[t], win_ip)
      <3>1. k = key
        BY <1>1, <1>2, <1>3, <2>2, <2>5, <2>6, SameClientSameKey DEF TypeOK, WTypeOK
      <3>2. (win_count + 1) * Minute = win_count * Minute + Minute
        BY <1>4
      <3>3. win_count * Minute \in Int /\ per_minute * (now - win_start) \in Int
        BY <1>4
      <3> QED
        BY <1>4, <1>5, <1>9, <2>4, <2>5, <2>6, <3>1, <3>2, <3>3
    <2>7. CASE win_count' = win_count
      <3>1. Potential(k)' \in Int /\ Potential(k)' <= Potential(k)
        BY <1>4, <2>3, <2>4
      <3>2. win_count * Minute \in Int /\ per_minute * (now - win_start) \in Int
        BY <1>4
      <3> QED
        BY <1>4, <1>5, <1>9, <2>5, <2>7, <3>1, <3>2
    <2> QED
      BY <1>10, <2>6, <2>7 DEF Count
  <1>11. ASSUME UNCHANGED winVars, now' = now, Potential(k)' = Potential(k)
         PROVE  win_count' * Minute + Potential(k)'
                  <= Capacity' + per_minute' * (now' - win_start')
    BY <1>5, <1>9, <1>11 DEF winVars
  <1>12. ASSUME NEW t \in Threads, NEW c \in Clients, CheckDisabled(t, c)
         PROVE  now' = now /\ Potential(k)' = Potential(k)
    BY <1>12 DEF CheckDisabled, vars, cacheVars, bucketVars, Potential, Live, Expired,
                 Refilled, Capacity
  <1>13. ASSUME NEW t \in Threads, NEW c \in Clients, GetHit(t, c)
         PROVE  now' = now /\ Potential(k)' = Potential(k)
    <2>1. now' = now
      BY <1>13 DEF GetHit, Fetch
    <2> QED
      BY <1>1, <1>13, <2>1, PotentialGetHit
  <1>14. ASSUME NEW t \in Threads, NEW c \in Clients, GetInit(t, c)
         PROVE  now' = now /\ Potential(k)' = Potential(k)
    <2>1. now' = now
      BY <1>14 DEF GetInit, Fetch
    <2> QED
      BY <1>1, <1>14, <2>1, PotentialGetInit
  <1>15. ASSUME NEW t \in Threads, Reject(t)
         PROVE  now' = now /\ Potential(k)' = Potential(k)
    <2>1. CheckLimit(t) /\ Refilled(held[t], now) < Minute /\ now' = now
      BY <1>15 DEF Reject, CheckLimit, InstantUnderLock
    <2>2. PICK key \in Keys : key = BucketKey(ip[t])
      BY <1>1, KeyOfClient DEF TypeOK
    <2>3. /\ key \notin evicted =>
               /\ Potential(key) = Refilled(held[t], now)
               /\ Potential(key)' = Remaining(held[t], Refilled(held[t], now))
          /\ \A l \in Keys : l # key => Potential(l)' = Potential(l)
      BY <1>1, <2>1, <2>2, PotentialCheckLimit
    <2>4. key \notin evicted => Refilled(held[t], now) \in Nat
      BY <1>1, <2>3, PotentialType
    <2>5. key \notin evicted => ~(Refilled(held[t], now) >= Minute)
      BY <1>4, <2>1, <2>4
    <2> QED
      BY <1>7, <2>1, <2>3, <2>5 DEF Remaining
  <1>16. ASSUME NEW l \in Keys, Evict(l) \/ ExpireIdle(l)
         PROVE  now' = now /\ Potential(k)' = Potential(k)
    <2>1. /\ hits' = [hits EXCEPT ![l] = NoBucket]
          /\ UNCHANGED <<per_minute, now, used, tokens, updated>>
      BY <1>16 DEF Evict, ExpireIdle, bucketVars
    <2>2. l # k \/ Expired(l)
      BY <1>3, <1>16 DEF Evict, ExpireIdle
    <2> QED
      BY <1>1, <2>1, <2>2, PotentialDrop
  <1>17. ASSUME Tick, UNCHANGED winVars
         PROVE  win_count' * Minute + Potential(k)'
                  <= Capacity' + per_minute' * (now' - win_start')
    <2>1. Potential(k)' = AtMost(Potential(k) + per_minute, Capacity) /\ now' = now + 1
      BY <1>1, <1>7, <1>17, PotentialTick DEF Tick
    <2>2. Potential(k)' \in Int /\ Potential(k)' <= Potential(k) + per_minute
      BY <1>4, <2>1 DEF AtMost
    <2>3. PICK m \in Int : m = now - win_start
      BY <1>4
    <2>4. now' - win_start' = m + 1 /\ win_count' = win_count /\ win_ip' = win_ip
      BY <1>4, <1>17, <2>1, <2>3 DEF winVars
    <2>5. per_minute * (m + 1) = per_minute * m + per_minute /\ per_minute * m \in Int
      BY <1>4, MulSucc
    <2>6. win_count * Minute \in Int
      BY <1>4
    <2>7. win_count * Minute + Potential(k) <= Capacity + per_minute * m
      BY <1>9, <2>3, <2>4
    <2> QED
      BY <1>4, <1>5, <2>2, <2>4, <2>5, <2>6, <2>7
  <1>18. CASE UNCHANGED wvars
    <2>1. /\ now' = now /\ UNCHANGED winVars
          /\ UNCHANGED <<per_minute, hits, used, tokens, updated>>
      BY <1>18 DEF wvars, vars, cacheVars, bucketVars
    <2>2. Potential(k)' = Potential(k)
      BY <2>1 DEF Potential, Live, Expired, Refilled, Capacity
    <2> QED
      BY <1>11, <2>1, <2>2
  <1> QED
    BY <1>8, <1>10, <1>11, <1>12, <1>13, <1>14, <1>15, <1>16, <1>17, <1>18
    DEF WNext, Quiet

\* RateLimit::check keeps every client, in every window of time, within one
\* burst plus the sustained rate, unless its key was evicted for capacity.
THEOREM RateBounded == WSpec => []RateBound
  <1> DEFINE I == WTypeOK /\ BucketInv /\ WithinBudget
  <1>1. WInit => I
    BY TypeInit, BucketInvInit DEF WInit, Init, WTypeOK, WithinBudget
  <1>2. I /\ [WNext]_wvars => I'
    <2> SUFFICES ASSUME I, [WNext]_wvars PROVE I'
      OBVIOUS
    <2>1. TypeOK /\ [Next]_vars
      BY WindowStepIsStep DEF WTypeOK
    <2>2. TypeOK' /\ BucketInv'
      BY <2>1, TypeStep, BucketInvStep
    <2> QED
      BY <2>2, WTypeStep, BudgetStep
  <1>3. I => RateBound
    <2> SUFFICES ASSUME I, win_ip # NoClient, BucketKey(win_ip) \notin evicted
                 PROVE  WithinRate
      BY DEF RateBound
    <2>1. PICK k \in Keys : k = BucketKey(win_ip)
      BY KeyOfClient DEF WTypeOK
    <2>2. Potential(k) \in Nat
      BY PotentialType DEF WTypeOK
    <2>3. win_count * Minute + Potential(k) <= Capacity + per_minute * (now - win_start)
      BY <2>1 DEF WithinBudget
    <2>4. /\ per_minute \in Nat /\ now \in Nat /\ Capacity \in Nat
          /\ win_start \in Nat /\ win_count \in Nat /\ Minute \in Nat
      BY LimitsAssumption, CapacityType, TimeAssumption DEF WTypeOK, TypeOK
    <2>5. win_count * Minute \in Int /\ per_minute * (now - win_start) \in Int
      BY <2>4
    <2> QED
      BY <2>2, <2>3, <2>4, <2>5 DEF WithinRate
  <1> QED
    BY <1>1, <1>2, <1>3, PTL DEF WSpec

-----------------------------------------------------------------------------
\* The limiter implements the ideal one.

LEMMA DivBounds ==
  ASSUME NEW n \in Int, NEW d \in Nat \ {0}
  PROVE  n \div d \in Int /\ (n \div d) * d <= n /\ n < (n \div d) * d + d
  OBVIOUS

LEMMA MulMod == ASSUME NEW n \in Nat, NEW d \in Nat \ {0} PROVE (n * d) % d = 0
  OBVIOUS

\* Adding the divisor less one before dividing rounds up.
LEMMA CeilDiv ==
  ASSUME NEW n \in Nat \ {0}, NEW d \in Nat \ {0}, NEW q \in Int,
         q = (n + d - 1) \div d
  PROVE  q >= 1 /\ q * d >= n /\ (q - 1) * d < n
  <1>1. q * d <= n + d - 1 /\ n + d - 1 < q * d + d
    BY DivBounds
  <1>2. q * d \in Int
    OBVIOUS
  <1>3. q >= 1
    BY <1>1, <1>2
  <1>4. (q - 1) * d = q * d - d
    OBVIOUS
  <1> QED
    BY <1>1, <1>2, <1>3, <1>4

\* Retry-After is the first whole second at which the refill reaches a token,
\* and never more than a minute and a second away.
LEMMA RetrySecsExact ==
  ASSUME per_minute \in Nat \ {0}, NEW avail \in Nat, avail < Minute,
         NEW q \in Int, q = RetrySecs(avail)
  PROVE  /\ q >= 1
         /\ avail + per_minute * (q * Second) >= Minute
         /\ avail + per_minute * (q * Second - Second) < Minute
         /\ q * Second <= Minute + Second
  <1>1. PICK d \in Nat \ {0} : d = per_minute * Second
    BY TimeAssumption
  <1>2. PICK n \in Nat \ {0} : n = Minute - avail
    BY TimeAssumption
  <1>3. PICK c \in Int : c = (n + d - 1) \div d
    BY <1>1, <1>2
  <1>4. c >= 1 /\ c * d >= n /\ (c - 1) * d < n
    BY <1>3, CeilDiv
  <1>5. q = c
    BY <1>1, <1>2, <1>3, <1>4, TimeAssumption DEF RetrySecs
  <1>6. per_minute * (q * Second) = q * d
    BY <1>1, TimeAssumption
  <1>7. per_minute * (q * Second - Second) = (q - 1) * d
    BY <1>1, TimeAssumption
  <1>8. PICK m \in Nat : m = (q - 1) * Second
    BY <1>4, <1>5, TimeAssumption
  <1>9. per_minute * m >= m
    <2>1. m * per_minute >= m * 1
      BY MulMono
    <2> QED
      BY <2>1
  <1>10. per_minute * m = (q - 1) * d /\ q * Second = m + Second
    BY <1>1, <1>8, TimeAssumption
  <1>11. q * d \in Int /\ (q - 1) * d \in Int
    OBVIOUS
  <1>12. q * Second <= Minute + Second
    BY <1>2, <1>4, <1>5, <1>9, <1>10, <1>11, TimeAssumption
  <1> QED
    BY <1>2, <1>4, <1>5, <1>6, <1>7, <1>11, <1>12, TimeAssumption

\* The level the ideal limiter sees.
Level == [k \in Keys |-> IF k \in evicted THEN Capacity ELSE Potential(k)]

LEMMA IdealInit == Init => Ideal!Init
  <1> SUFFICES ASSUME Init PROVE Ideal!Init
    OBVIOUS
  <1>1. \A k \in Keys : ~Live(k)
    BY DEF Init, Live
  <1> QED
    BY <1>1 DEF Init, Ideal!Init, Ideal!Burst, Potential, Capacity

\* A step that leaves every potential alone is invisible.
LEMMA IdealStutter ==
  ASSUME TypeOK, UNCHANGED <<per_minute, now, evicted, retry_at>>,
         \A k \in Keys \ evicted : Potential(k)' = Potential(k)
  PROVE  UNCHANGED Ideal!vars
  <1>1. Capacity' = Capacity
    BY DEF Capacity
  <1> QED
    BY <1>1 DEF Ideal!vars

\* A check of a key the cache has evicted is an answer to a forgotten key.
LEMMA IdealForgotten ==
  ASSUME TypeOK, NEW key \in Keys, key \in evicted,
         UNCHANGED <<per_minute, now, evicted>>,
         \A k \in Keys : k # key => Potential(k)' = Potential(k),
         NEW at \in Ideal!Answers, retry_at' = [retry_at EXCEPT ![key] = at]
  PROVE  Ideal!Next
  <1>1. Level' = Level
    BY DEF Level, Capacity
  <1>2. Ideal!AnswerForgotten(key)
    BY <1>1 DEF Ideal!AnswerForgotten, Level
  <1> QED
    BY <1>2 DEF Ideal!Next

LEMMA IdealStep ==
  ASSUME TypeOK, TypeOK', BucketInv, BucketInv', [Next]_vars
  PROVE  [Ideal!Next]_(Ideal!vars)
  <1>0. /\ per_minute \in Nat /\ now \in Nat /\ Capacity \in Nat
        /\ Minute \in Nat \ {0} /\ Second \in Nat \ {0}
    BY LimitsAssumption, CapacityType, TimeAssumption DEF TypeOK
  <1>1. ASSUME NEW t \in Threads, NEW c \in Clients, CheckDisabled(t, c)
        PROVE  UNCHANGED Ideal!vars
    <2>1. /\ UNCHANGED <<per_minute, now, evicted, retry_at>>
          /\ \A k \in Keys : Potential(k)' = Potential(k)
      BY <1>1 DEF CheckDisabled, vars, cacheVars, bucketVars, Potential, Live,
                  Expired, Refilled, Capacity
    <2> QED
      BY <2>1, IdealStutter
  <1>2. ASSUME NEW t \in Threads, NEW c \in Clients, GetHit(t, c)
        PROVE  UNCHANGED Ideal!vars
    <2>1. UNCHANGED <<per_minute, now, evicted, retry_at>>
      BY <1>2 DEF GetHit, Fetch
    <2> QED
      BY <1>2, <2>1, PotentialGetHit, IdealStutter
  <1>3. ASSUME NEW t \in Threads, NEW c \in Clients, GetInit(t, c)
        PROVE  UNCHANGED Ideal!vars
    <2>1. UNCHANGED <<per_minute, now, evicted, retry_at>>
      BY <1>3 DEF GetInit, Fetch
    <2> QED
      BY <1>3, <2>1, PotentialGetInit, IdealStutter
  <1>4. ASSUME NEW t \in Threads, Admit(t)
        PROVE  Ideal!Next
    <2>1. PICK key \in Keys : key = BucketKey(ip[t])
      BY KeyOfClient DEF TypeOK
    <2>2. /\ CheckLimit(t) /\ Refilled(held[t], now) >= Minute
          /\ retry_at' = [retry_at EXCEPT ![key] = 0]
          /\ UNCHANGED <<per_minute, now, evicted>>
      BY <1>4, <2>1 DEF Admit, CheckLimit, InstantUnderLock
    <2>3. /\ key \notin evicted =>
               /\ Potential(key) = Refilled(held[t], now)
               /\ Potential(key)' = Remaining(held[t], Refilled(held[t], now))
          /\ \A l \in Keys : l # key => Potential(l)' = Potential(l)
      BY <2>1, <2>2, PotentialCheckLimit
    <2>4. CASE key \in evicted
      <3>1. 0 \in Ideal!Answers
        BY <1>0 DEF Ideal!Answers
      <3> QED
        BY <2>2, <2>3, <2>4, <3>1, IdealForgotten
    <2>5. CASE key \notin evicted
      <3>1. Potential(key) >= Minute /\ Potential(key)' = Potential(key) - Minute
        BY <2>2, <2>3, <2>5 DEF Remaining
      <3>2. Level' = [Level EXCEPT ![key] = @ - Minute]
        BY <2>2, <2>3, <2>5, <3>1 DEF Level, Capacity
      <3>3. Level[key] >= Minute
        BY <2>5, <3>1 DEF Level
      <3>4. Ideal!Admit(key)
        BY <2>2, <3>2, <3>3 DEF Ideal!Admit, Level
      <3> QED
        BY <2>5, <3>4 DEF Ideal!Next
    <2> QED
      BY <2>4, <2>5
  <1>5. ASSUME NEW t \in Threads, Reject(t)
        PROVE  Ideal!Next
    <2>1. PICK key \in Keys : key = BucketKey(ip[t])
      BY KeyOfClient DEF TypeOK
    <2>2. held[t] \in Buckets /\ per_minute \in Nat \ {0}
      BY <1>0, <1>5 DEF Reject, CheckLimit, TypeOK, BucketInv, ClockOK
    <2>3. PICK avail \in Nat : avail = Refilled(held[t], now)
      BY <1>0, <2>2, RefilledType
    <2>4. PICK q \in Int : q = RetrySecs(avail)
      BY <2>2, RetrySecsType
    <2>5. /\ CheckLimit(t) /\ avail < Minute
          /\ retry_at' = [retry_at EXCEPT ![key] = now + q * Second]
          /\ UNCHANGED <<per_minute, now, evicted>>
      BY <1>5, <2>1, <2>3, <2>4 DEF Reject, CheckLimit, InstantUnderLock
    <2>6. /\ q >= 1
          /\ avail + per_minute * (q * Second) >= Minute
          /\ avail + per_minute * (q * Second - Second) < Minute
          /\ q * Second <= Minute + Second
      BY <2>2, <2>4, <2>5, RetrySecsExact
    <2>7. PICK w \in Nat : w = q * Second
      BY <1>0, <2>6
    <2>8. w >= Second
      <3>1. Second * q >= Second * 1
        BY <1>0, <2>6, MulMono
      <3> QED
        BY <1>0, <2>7, <3>1
    <2>9. w % Second = 0
      BY <1>0, <2>6, <2>7, MulMod
    <2>10. now + w \in Ideal!Answers
      BY <1>0, <2>6, <2>7 DEF Ideal!Answers
    <2>11. /\ key \notin evicted =>
                /\ Potential(key) = Refilled(held[t], now)
                /\ Potential(key)' = Remaining(held[t], Refilled(held[t], now))
           /\ \A l \in Keys : l # key => Potential(l)' = Potential(l)
      BY <2>1, <2>5, PotentialCheckLimit
    <2>12. CASE key \in evicted
      BY <2>5, <2>7, <2>10, <2>11, <2>12, IdealForgotten
    <2>13. CASE key \notin evicted
      <3>1. Potential(key) = avail /\ Potential(key)' = avail
        BY <1>0, <2>3, <2>5, <2>11, <2>13 DEF Remaining
      <3>2. Level' = Level /\ Level[key] = avail
        BY <2>5, <2>11, <2>13, <3>1 DEF Level, Capacity
      <3>3. /\ now + w > now
            /\ (now + w) - now = w
            /\ (now + w) - Second - now = w - Second
        BY <1>0, <2>8
      <3>4. Ideal!FirstSecond(key, now + w)
        BY <2>6, <2>7, <2>9, <3>2, <3>3 DEF Ideal!FirstSecond, Level
      <3>5. Ideal!Reject(key)
        BY <2>5, <2>7, <2>10, <3>2, <3>4 DEF Ideal!Reject, Level
      <3> QED
        BY <2>13, <3>5 DEF Ideal!Next
    <2> QED
      BY <2>12, <2>13
  <1>6. ASSUME NEW k \in Keys, Evict(k)
        PROVE  Ideal!Next
    <2>1. /\ hits' = [hits EXCEPT ![k] = NoBucket] /\ evicted' = evicted \cup {k}
          /\ UNCHANGED <<per_minute, now, used, tokens, updated, retry_at>>
      BY <1>6 DEF Evict, bucketVars
    <2>2. \A l \in Keys : l # k => Potential(l)' = Potential(l)
      BY <2>1, PotentialDrop
    <2>3. Level' = [Level EXCEPT ![k] = Capacity]
      BY <2>1, <2>2 DEF Level, Capacity
    <2>4. Ideal!Forget(k)
      BY <2>1, <2>3 DEF Ideal!Forget, Ideal!Burst, Level, Capacity
    <2> QED
      BY <2>4 DEF Ideal!Next
  <1>7. ASSUME NEW k \in Keys, ExpireIdle(k)
        PROVE  UNCHANGED Ideal!vars
    <2>1. /\ hits' = [hits EXCEPT ![k] = NoBucket] /\ Expired(k)
          /\ UNCHANGED <<per_minute, now, used, tokens, updated, evicted, retry_at>>
      BY <1>7 DEF ExpireIdle, bucketVars
    <2> QED
      BY <2>1, PotentialDrop, IdealStutter
  <1>8. CASE Tick
    <2>1. now' = now + 1 /\ UNCHANGED <<per_minute, evicted, retry_at>> /\ Capacity' = Capacity
      BY <1>8 DEF Tick, Capacity
    <2>2. \A k \in Keys \ evicted :
            Potential(k)' = AtMost(Potential(k) + per_minute, Capacity)
      BY <1>8, PotentialTick
    <2>3. \A k \in Keys : Potential(k) \in Nat
      BY PotentialType
    <2>4. Level' = [k \in Keys |->
                      IF k \in evicted \/ Level[k] + per_minute > Capacity
                      THEN Capacity ELSE Level[k] + per_minute]
      BY <1>0, <2>1, <2>2, <2>3 DEF Level, AtMost
    <2>5. Ideal!Tick
      BY <2>1, <2>4 DEF Ideal!Tick, Ideal!Burst, Level, Capacity
    <2> QED
      BY <2>5 DEF Ideal!Next
  <1>9. CASE UNCHANGED vars
    <2>1. /\ UNCHANGED <<per_minute, now, evicted, retry_at>>
          /\ \A k \in Keys : Potential(k)' = Potential(k)
      BY <1>9 DEF vars, cacheVars, bucketVars, Potential, Live, Expired, Refilled,
                  Capacity
    <2> QED
      BY <2>1, IdealStutter
  <1> QED
    BY <1>1, <1>2, <1>3, <1>4, <1>5, <1>6, <1>7, <1>8, <1>9 DEF Next

\* The cached, concurrent limiter answers every key that was never evicted
\* exactly as one eternal, exact bucket for that key would.
THEOREM LimiterImplementsIdeal == Spec => ImplementsIdeal
  <1>1. Init => TypeOK /\ BucketInv /\ Ideal!Init
    BY TypeInit, BucketInvInit, IdealInit
  <1>2. TypeOK /\ BucketInv /\ [Next]_vars => (TypeOK /\ BucketInv)'
    BY TypeStep, BucketInvStep
  <1>3. TypeOK /\ BucketInv /\ (TypeOK /\ BucketInv)' /\ [Next]_vars
          => [Ideal!Next]_(Ideal!vars)
    BY IdealStep
  <1> QED
    BY <1>1, <1>2, <1>3, PTL DEF Spec, ImplementsIdeal, Ideal!Spec

-----------------------------------------------------------------------------
\* What Retry-After promises, from the ideal limiter.

LEMMA MulNeg == ASSUME NEW p \in Nat, NEW d \in Int, d <= 0 PROVE p * d \in Int /\ p * d <= 0
  OBVIOUS

LEMMA MulLess ==
  ASSUME NEW p \in Nat, NEW a \in Int, NEW b \in Int, p * a < p * b
  PROVE  a < b
  OBVIOUS

LEMMA MulPred == ASSUME NEW p \in Nat, NEW d \in Int PROVE p * (d - 1) = p * d - p /\ p * d \in Int
  OBVIOUS

\* Until a key is admitted again, its level and what it earns by the time it was
\* told to return are worth a token.
EarnedByThen ==
  \A k \in Keys \ evicted :
    retry_at[k] # 0 =>
      /\ per_minute # 0
      /\ Level[k] >= Minute \/ Level[k] + per_minute * (retry_at[k] - now) >= Minute

\* A step of the ideal limiter keeps the promises it has given, and a key that is
\* rejected again is told to return less than a second later than before.
LEMMA PromiseStep ==
  ASSUME TypeOK, TypeOK', EarnedByThen, [Ideal!Next]_(Ideal!vars)
  PROVE  /\ EarnedByThen'
         /\ \A k \in Keys \ evicted' :
              retry_at[k] # 0 /\ retry_at'[k] # 0 => retry_at'[k] < retry_at[k] + Second
  <1>0. /\ per_minute \in Nat /\ now \in Nat /\ Capacity \in Nat
        /\ Minute \in Nat \ {0} /\ Second \in Nat \ {0}
    BY LimitsAssumption, CapacityType, TimeAssumption DEF TypeOK
  <1>1. \A k \in Keys : Level[k] \in Nat /\ retry_at[k] \in Nat /\ retry_at'[k] \in Nat
    BY <1>0, PotentialType DEF Level, TypeOK
  <1>2. ASSUME NEW k \in Keys, k \notin evicted, Ideal!Admit(k)
        PROVE  /\ EarnedByThen'
               /\ \A l \in Keys \ evicted' :
                    retry_at[l] # 0 /\ retry_at'[l] # 0 => retry_at'[l] < retry_at[l] + Second
    <2>1. /\ Level' = [Level EXCEPT ![k] = @ - Minute] /\ retry_at' = [retry_at EXCEPT ![k] = 0]
          /\ UNCHANGED <<per_minute, now, evicted>>
      BY <1>2 DEF Ideal!Admit, Level
    <2>2. \A l \in Keys : l # k => Level'[l] = Level[l] /\ retry_at'[l] = retry_at[l]
      BY <2>1 DEF TypeOK, Level
    <2>3. retry_at'[k] = 0
      BY <2>1 DEF TypeOK
    <2> QED
      BY <1>0, <1>1, <2>1, <2>2, <2>3 DEF EarnedByThen
  <1>3. ASSUME NEW k \in Keys, k \notin evicted, Ideal!Reject(k)
        PROVE  /\ EarnedByThen'
               /\ \A l \in Keys \ evicted' :
                    retry_at[l] # 0 /\ retry_at'[l] # 0 => retry_at'[l] < retry_at[l] + Second
    <2>1. PICK at \in Int : Ideal!FirstSecond(k, at) /\ retry_at' = [retry_at EXCEPT ![k] = at]
      <3>1. \E at \in Ideal!Answers :
              Ideal!FirstSecond(k, at) /\ retry_at' = [retry_at EXCEPT ![k] = at]
        BY <1>3 DEF Ideal!Reject
      <3>2. Ideal!Answers \subseteq Int
        BY <1>0 DEF Ideal!Answers
      <3> QED
        BY <3>1, <3>2
    <2>2. Level' = Level /\ Level[k] < Minute /\ UNCHANGED <<per_minute, now, evicted>>
      BY <1>3 DEF Ideal!Reject, Level
    <2>3. /\ at > now
          /\ Level[k] + per_minute * (at - now) >= Minute
          /\ Level[k] + per_minute * (at - Second - now) < Minute
      BY <2>1 DEF Ideal!FirstSecond, Level
    <2>4. retry_at'[k] = at /\ \A l \in Keys : l # k => retry_at'[l] = retry_at[l]
      BY <2>1 DEF TypeOK
    <2>5. per_minute # 0
      <3>1. \A d \in Int : 0 * d = 0
        OBVIOUS
      <3>2. at - now \in Int
        BY <1>0, <2>1
      <3> QED
        BY <1>0, <1>1, <2>2, <2>3, <3>1, <3>2
    <2>6. EarnedByThen'
      BY <2>2, <2>3, <2>4, <2>5 DEF EarnedByThen
    <2>7. retry_at[k] # 0 => at < retry_at[k] + Second
      <3> SUFFICES ASSUME retry_at[k] # 0 PROVE at < retry_at[k] + Second
        OBVIOUS
      <3>1. Level[k] + per_minute * (retry_at[k] - now) >= Minute
        BY <1>0, <1>1, <1>3, <2>2 DEF EarnedByThen
      <3>2. PICK x \in Int, y \in Int : x = at - Second - now /\ y = retry_at[k] - now
        BY <1>0, <1>1, <2>1
      <3>3. per_minute * x \in Int /\ per_minute * y \in Int
        BY <1>0, <3>2
      <3>4. per_minute * x < per_minute * y
        BY <1>0, <1>1, <2>3, <3>1, <3>2, <3>3
      <3>5. x < y
        BY <1>0, <3>4, MulLess
      <3> QED
        BY <1>0, <1>1, <3>2, <3>5
    <2> QED
      BY <1>0, <1>1, <2>4, <2>6, <2>7
  <1>4. ASSUME NEW k \in Keys, Ideal!Forget(k)
        PROVE  /\ EarnedByThen'
               /\ \A l \in Keys \ evicted' :
                    retry_at[l] # 0 /\ retry_at'[l] # 0 => retry_at'[l] < retry_at[l] + Second
    <2>1. /\ Level' = [Level EXCEPT ![k] = Ideal!Burst] /\ evicted' = evicted \cup {k}
          /\ UNCHANGED <<per_minute, now, retry_at>>
      BY <1>4 DEF Ideal!Forget, Level
    <2>2. \A l \in Keys : l # k => Level'[l] = Level[l]
      BY <2>1 DEF Level
    <2> QED
      BY <1>0, <1>1, <2>1, <2>2 DEF EarnedByThen
  <1>5. ASSUME NEW k \in Keys, Ideal!AnswerForgotten(k)
        PROVE  /\ EarnedByThen'
               /\ \A l \in Keys \ evicted' :
                    retry_at[l] # 0 /\ retry_at'[l] # 0 => retry_at'[l] < retry_at[l] + Second
    <2>1. /\ k \in evicted /\ Level' = Level /\ UNCHANGED <<per_minute, now, evicted>>
          /\ \E at : retry_at' = [retry_at EXCEPT ![k] = at]
      BY <1>5 DEF Ideal!AnswerForgotten, Level
    <2>2. \A l \in Keys : l # k => retry_at'[l] = retry_at[l]
      BY <2>1 DEF TypeOK
    <2> QED
      BY <1>0, <1>1, <2>1, <2>2 DEF EarnedByThen
  <1>6. ASSUME Ideal!Tick
        PROVE  /\ EarnedByThen'
               /\ \A l \in Keys \ evicted' :
                    retry_at[l] # 0 /\ retry_at'[l] # 0 => retry_at'[l] < retry_at[l] + Second
    <2>1. now' = now + 1 /\ UNCHANGED <<per_minute, evicted, retry_at>>
      BY <1>6 DEF Ideal!Tick
    <2>2. \A k \in Keys \ evicted :
            Level'[k] = IF Level[k] + per_minute > Capacity THEN Capacity ELSE Level[k] + per_minute
      BY <1>6 DEF Ideal!Tick, Ideal!Burst, Level, Capacity
    <2>3. ASSUME NEW k \in Keys \ evicted, retry_at[k] # 0
          PROVE  /\ per_minute # 0
                 /\ Level'[k] >= Minute \/ Level'[k] + per_minute * (retry_at[k] - (now + 1)) >= Minute
      <3>1. per_minute # 0 /\ (Level[k] >= Minute \/ Level[k] + per_minute * (retry_at[k] - now) >= Minute)
        BY <2>3 DEF EarnedByThen
      <3>2. Capacity >= Minute
        <4>1. Minute * per_minute >= Minute * 1
          BY <1>0, <3>1, MulMono
        <4> QED
          BY <1>0, <4>1 DEF Capacity
      <3>3. PICK d \in Int : d = retry_at[k] - now
        BY <1>0, <1>1
      <3>4. per_minute * (d - 1) = per_minute * d - per_minute /\ per_minute * d \in Int
        BY <1>0, MulPred
      <3>5. retry_at[k] - (now + 1) = d - 1
        BY <1>0, <1>1, <3>3
      <3> QED
        BY <1>0, <1>1, <2>2, <3>1, <3>2, <3>3, <3>4, <3>5
    <2>4. EarnedByThen'
      BY <2>1, <2>3 DEF EarnedByThen
    <2> QED
      BY <1>0, <1>1, <2>1, <2>4
  <1>7. ASSUME UNCHANGED Ideal!vars
        PROVE  /\ EarnedByThen'
               /\ \A l \in Keys \ evicted' :
                    retry_at[l] # 0 /\ retry_at'[l] # 0 => retry_at'[l] < retry_at[l] + Second
    <2>1. Level' = Level /\ UNCHANGED <<per_minute, now, evicted, retry_at>>
      BY <1>7 DEF Ideal!vars, Level
    <2> QED
      BY <1>0, <1>1, <2>1 DEF EarnedByThen
  <1> QED
    BY <1>2, <1>3, <1>4, <1>5, <1>6, <1>7 DEF Ideal!Next

LEMMA PromiseInvariant ==
  Spec => [](TypeOK /\ BucketInv /\ EarnedByThen)
  <1>1. Init => TypeOK /\ BucketInv /\ EarnedByThen
    BY TypeInit, BucketInvInit DEF Init, EarnedByThen
  <1>2. TypeOK /\ BucketInv /\ EarnedByThen /\ [Next]_vars => (TypeOK /\ BucketInv /\ EarnedByThen)'
    BY TypeStep, BucketInvStep, IdealStep, PromiseStep
  <1> QED
    BY <1>1, <1>2, PTL DEF Spec

\* check_limit: a client that comes back when Retry-After told it to finds a token,
\* unless another request of its key was admitted meanwhile or its key was evicted.
THEOREM RetryAfterIsKept == Spec => []RetryAfterKept
  <1>1. TypeOK /\ EarnedByThen => RetryAfterKept
    <2> SUFFICES ASSUME TypeOK, EarnedByThen, NEW k \in Keys \ evicted, retry_at[k] # 0,
                        now >= retry_at[k]
                 PROVE  Potential(k) >= Minute
      BY DEF RetryAfterKept
    <2>1. per_minute \in Nat /\ now \in Nat /\ retry_at[k] \in Nat /\ Minute \in Nat
      BY LimitsAssumption, TimeAssumption DEF TypeOK
    <2>2. Potential(k) \in Nat /\ Level[k] = Potential(k)
      BY PotentialType DEF Level
    <2>3. PICK d \in Int : d = retry_at[k] - now
      BY <2>1
    <2>4. per_minute * d \in Int /\ per_minute * d <= 0
      BY <2>1, <2>3, MulNeg
    <2> QED
      BY <2>1, <2>2, <2>3, <2>4 DEF EarnedByThen
  <1> QED
    BY <1>1, PromiseInvariant, PTL

\* check_limit: a rejected client that asks again is never put off by a second or more.
THEOREM NeverPostponed == Spec => NoPostponement
  <1>1. TypeOK /\ BucketInv /\ EarnedByThen /\ [Next]_vars
        => [\A k \in Keys \ evicted' :
              retry_at[k] # 0 /\ retry_at'[k] # 0 => retry_at'[k] < retry_at[k] + Second]_vars
    BY TypeStep, BucketInvStep, IdealStep, PromiseStep
  <1> QED
    BY <1>1, PromiseInvariant, PTL DEF Spec, NoPostponement
=============================================================================
