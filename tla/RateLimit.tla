----------------------------- MODULE RateLimit -----------------------------
(***************************************************************************)
(* The per-client rate limiter of src/ratelimit.rs: one token bucket per   *)
(* client key, kept in a moka cache that forgets idle keys and evicts keys *)
(* above its capacity.  Request threads run RateLimit::check concurrently: *)
(* they fetch the bucket from the cache in one step and lock, refill and   *)
(* take in a later one, so the bucket a thread locks may no longer be the  *)
(* cached one.                                                             *)
(*                                                                         *)
(* Time is a count of ticks.  Tokens are counted in units of 1/Minute of a *)
(* token, so that `elapsed * limit / 60` is per_minute units for each tick *)
(* and stays an integer; rounding of f64 is not modelled.                  *)
(***************************************************************************)
EXTENDS Integers, FiniteSets

CONSTANTS
  Threads,      \* worker threads that run requests
  Clients,      \* resolved client addresses, records [kind, net, host]
  Limits,       \* the values of RATE_LIMIT_PER_MINUTE considered
  Buckets,      \* identities of Arc<Mutex<TokenBucket>> allocations
  NoBucket,     \* "no bucket": nothing cached or nothing held
  Second,       \* ticks in a second, the unit of Retry-After
  Minute,       \* ticks in a minute, the span over which a bucket fills
  TimeToIdle,   \* time_to_idle of the cache, in ticks
  MaxCapacity,  \* max_capacity of the cache, in keys
  MaxStall,     \* longest pause of a thread between get_with and the lock
  MaxNow        \* bound on the clock

AddressKinds == {"v4", "mapped", "v6", "text"}

ASSUME ClientsAssumption ==
  /\ Clients # {}
  /\ \A c \in Clients : /\ c = [kind |-> c.kind, net |-> c.net, host |-> c.host]
                        /\ c.kind \in AddressKinds
ASSUME LimitsAssumption == Limits \subseteq Nat
ASSUME BucketsAssumption == NoBucket \notin Buckets
ASSUME TimeAssumption ==
  /\ Second \in Nat \ {0} /\ Minute \in Nat \ {0}
  /\ MaxStall \in Nat /\ MaxNow \in Nat
  /\ TimeToIdle \in Nat /\ MaxCapacity \in Nat
\* 120 s against 60 s: a thread may stall for a minute before it matters.
ASSUME IdleAssumption == TimeToIdle >= Minute + MaxStall

VARIABLES
  per_minute,   \* RateLimit::per_minute, fixed when the service starts
  now,          \* Instant::now()
  hits,         \* cache: key -> the bucket cached under it, or NoBucket
  used,         \* cache: key -> the last access moka has recorded
  tokens,       \* TokenBucket::tokens of every bucket
  updated,      \* TokenBucket::updated of every bucket
  held,         \* bucket a thread got from the cache and has yet to lock
  ip,           \* address that thread serves
  since,        \* when it fetched the bucket
  evicted,      \* history: keys evicted for capacity since the start
  retry_at      \* history: when the last 429 told the key to return; 0: none

cacheVars == <<hits, used>>
bucketVars == <<tokens, updated>>
threadVars == <<held, ip, since>>
vars == <<per_minute, now, cacheVars, bucketVars, threadVars, evicted, retry_at>>

-----------------------------------------------------------------------------
\* Keys.

\* Slip: every address its own key, as if bucket_key returned its argument.
RawKey(a) == a

\* bucket_key: to_canonical folds an IPv4-mapped address into the IPv4 one, an
\* IPv6 address loses its host half, and text that is no address is its own key.
BucketKey(a) ==
  IF a.kind = "v6" THEN [kind |-> "v6", net |-> a.net, host |-> 0]
  ELSE IF a.kind = "mapped" THEN [kind |-> "v4", net |-> a.net, host |-> a.host]
  ELSE a

Keys == {BucketKey(c) : c \in Clients}

-----------------------------------------------------------------------------
\* The token bucket.

AtMost(a, b) == IF a <= b THEN a ELSE b

\* `f64::from(limit)`: the burst.
Capacity == per_minute * Minute

\* Slip: the refill forgets `.min(limit)`.
UncappedRefill(b, at) == tokens[b] + per_minute * (at - updated[b])

\* `(tokens + elapsed * refill_rate).min(limit)`; duration_since saturates at 0.
Refilled(b, at) ==
  LET elapsed == IF at >= updated[b] THEN at - updated[b] ELSE 0
  IN  AtMost(tokens[b] + per_minute * elapsed, Capacity)

\* Slip: the wait is rounded down.
FloorRetrySecs(avail) ==
  LET secs == (Minute - avail) \div (per_minute * Second)
  IN  IF secs >= 1 THEN secs ELSE 1

\* `((1.0 - tokens) / refill_rate).ceil().max(1.0)`, in seconds.
RetrySecs(avail) ==
  LET rate == per_minute * Second
      secs == (Minute - avail + rate - 1) \div rate
  IN  IF secs >= 1 THEN secs ELSE 1

\* Slip: the instant was read before the thread waited for the lock.
InstantBeforeLock(t) == since[t]

\* The `Instant::now()` that check passes to check_limit, read under the lock.
InstantUnderLock(t) == now

-----------------------------------------------------------------------------
\* The cache.

\* Slip: buckets are dropped before they can have refilled.
ExpiredEarly(k) == hits[k] # NoBucket /\ now >= used[k] + Minute \div 2

\* moka reports an entry idle for time_to_idle as absent, removed or not.
Expired(k) == hits[k] # NoBucket /\ now >= used[k] + TimeToIdle

Live(k) == hits[k] # NoBucket /\ ~Expired(k)

Entries == {k \in Keys : hits[k] # NoBucket}

\* An allocation nothing refers to.
Free(b) == (\A k \in Keys : hits[k] # b) /\ (\A t \in Threads : held[t] # b)

\* Placeholder in `ip` of a thread that is between two checks.
AnyClient == CHOOSE c \in Clients : TRUE

-----------------------------------------------------------------------------
Init ==
  /\ per_minute \in Limits
  /\ now = 0
  /\ hits = [k \in Keys |-> NoBucket]
  /\ used = [k \in Keys |-> 0]
  /\ tokens = [b \in Buckets |-> 0]
  /\ updated = [b \in Buckets |-> 0]
  /\ held = [t \in Threads |-> NoBucket]
  /\ ip = [t \in Threads |-> AnyClient]
  /\ since = [t \in Threads |-> 0]
  /\ evicted = {}
  /\ retry_at = [k \in Keys |-> 0]

\* check with a limit of 0: no bucket is created, every request passes.
CheckDisabled(t, c) ==
  /\ per_minute = 0
  /\ UNCHANGED vars

Fetch(t, c, b) ==
  /\ per_minute # 0
  /\ held[t] = NoBucket
  /\ held' = [held EXCEPT ![t] = b]
  /\ ip' = [ip EXCEPT ![t] = c]
  /\ since' = [since EXCEPT ![t] = now]
  /\ used' = [used EXCEPT ![BucketKey(c)] = now]
  /\ UNCHANGED <<per_minute, now, evicted, retry_at>>

\* get_with finds the key: the thread shares the cached bucket.
GetHit(t, c) ==
  /\ Live(BucketKey(c))
  /\ Fetch(t, c, hits[BucketKey(c)])
  /\ UNCHANGED <<hits, bucketVars>>

\* get_with runs its initializer, once per key however many threads miss:
\* TokenBucket::new(per_minute, Instant::now()).
GetInit(t, c) ==
  /\ ~Live(BucketKey(c))
  /\ \E b \in Buckets :
       /\ Free(b)
       /\ Fetch(t, c, b)
       /\ hits' = [hits EXCEPT ![BucketKey(c)] = b]
       /\ tokens' = [tokens EXCEPT ![b] = Capacity]
       /\ updated' = [updated EXCEPT ![b] = now]

\* Slip: a rejection also costs what the client has earned since the last one.
ForfeitOnReject(b, avail) == IF avail >= Minute THEN avail - Minute ELSE 0

\* The tokens check_limit leaves: one less when there was one to take.
Remaining(b, avail) == IF avail >= Minute THEN avail - Minute ELSE avail

\* lock and check_limit: refill, remember the instant, take one token or not.
CheckLimit(t) ==
  LET b == held[t]
      avail == Refilled(b, InstantUnderLock(t))
  IN  /\ b # NoBucket
      /\ tokens' = [tokens EXCEPT ![b] = Remaining(b, avail)]
      /\ updated' = [updated EXCEPT ![b] = InstantUnderLock(t)]
      /\ held' = [held EXCEPT ![t] = NoBucket]
      /\ ip' = [ip EXCEPT ![t] = AnyClient]
      /\ since' = [since EXCEPT ![t] = 0]
      /\ UNCHANGED <<per_minute, now, cacheVars, evicted>>

\* check returns None: the request goes on to the next layer.
Admit(t) ==
  /\ CheckLimit(t)
  /\ Refilled(held[t], InstantUnderLock(t)) >= Minute
  /\ retry_at' = [retry_at EXCEPT ![BucketKey(ip[t])] = 0]

\* check returns Some(secs): 429 with Retry-After.
Reject(t) ==
  LET avail == Refilled(held[t], InstantUnderLock(t))
  IN  /\ CheckLimit(t)
      /\ avail < Minute
      /\ retry_at' = [retry_at EXCEPT ![BucketKey(ip[t])] =
                        now + RetrySecs(avail) * Second]

\* moka above its capacity drops whichever entry its policy picks.
Evict(k) ==
  /\ hits[k] # NoBucket
  /\ Cardinality(Entries) > MaxCapacity
  /\ hits' = [hits EXCEPT ![k] = NoBucket]
  /\ evicted' = evicted \cup {k}
  /\ UNCHANGED <<per_minute, now, used, bucketVars, threadVars, retry_at>>

\* moka's housekeeping removes an entry that has been idle too long.
ExpireIdle(k) ==
  /\ Expired(k)
  /\ hits' = [hits EXCEPT ![k] = NoBucket]
  /\ UNCHANGED <<per_minute, now, used, bucketVars, threadVars, evicted, retry_at>>

Tick ==
  /\ now < MaxNow
  /\ \A t \in Threads : held[t] # NoBucket => now - since[t] < MaxStall
  /\ now' = now + 1
  /\ UNCHANGED <<per_minute, cacheVars, bucketVars, threadVars, evicted, retry_at>>

Next ==
  \/ \E t \in Threads : \/ \E c \in Clients : \/ CheckDisabled(t, c)
                                              \/ GetHit(t, c)
                                              \/ GetInit(t, c)
                        \/ Admit(t)
                        \/ Reject(t)
  \/ \E k \in Keys : Evict(k) \/ ExpireIdle(k)
  \/ Tick

Spec == Init /\ [][Next]_vars

-----------------------------------------------------------------------------
TypeOK ==
  /\ per_minute \in Limits
  /\ now \in Nat
  /\ hits \in [Keys -> Buckets \cup {NoBucket}]
  /\ used \in [Keys -> Nat]
  /\ tokens \in [Buckets -> Nat]
  /\ updated \in [Buckets -> Nat]
  /\ held \in [Threads -> Buckets \cup {NoBucket}]
  /\ ip \in [Threads -> Clients]
  /\ since \in [Threads -> Nat]
  /\ evicted \subseteq Keys
  /\ retry_at \in [Keys -> Nat]

\* What the key could spend now: the content of its bucket refilled up to this
\* instant, or a whole burst when the next request would start a new bucket.
Potential(k) == IF Live(k) THEN Refilled(hits[k], now) ELSE Capacity

-----------------------------------------------------------------------------
\* Invariants.

\* No instant recorded anywhere lies in the future, no bucket holds more than a
\* burst, and no thread has been between get_with and the lock for too long.
ClockOK ==
  /\ \A b \in Buckets : updated[b] <= now /\ tokens[b] <= Capacity
  /\ \A k \in Keys : used[k] <= now
  /\ \A t \in Threads : held[t] # NoBucket =>
       /\ per_minute # 0
       /\ since[t] <= now
       /\ now - since[t] <= MaxStall

\* Each bucket belongs to one key: nobody takes tokens from another client.
OneOwner ==
  /\ \A k, l \in Keys : hits[k] # NoBucket /\ hits[k] = hits[l] => k = l
  /\ \A t \in Threads, k \in Keys :
       held[t] # NoBucket /\ hits[k] = held[t] => k = BucketKey(ip[t])

\* A thread about to lock a bucket holds the one the cache still offers to
\* everybody else, unless the key was evicted: idle expiry cannot split a client
\* over two buckets, because the fetch itself has renewed the entry.
HeldIsCached ==
  \A t \in Threads :
    held[t] # NoBucket /\ BucketKey(ip[t]) \notin evicted =>
      /\ hits[BucketKey(ip[t])] = held[t]
      /\ since[t] <= used[BucketKey(ip[t])]

\* The last refill of a cached bucket is at most MaxStall later than the last
\* access the cache knows of, so an entry that idles out holds a full bucket.
StampNearAccess ==
  \A k \in Keys \ evicted :
    hits[k] # NoBucket => updated[hits[k]] <= used[k] + MaxStall

\* No thread that passed get_with before its key lost its bucket can spend from
\* a second one: the four facts together, which are inductive.
BucketInv == ClockOK /\ OneOwner /\ HeldIsCached /\ StampNearAccess

\* A client that waits as long as Retry-After said finds a token, unless
\* another request of the same key was admitted in between.
RetryAfterKept ==
  \A k \in Keys \ evicted :
    retry_at[k] # 0 /\ now >= retry_at[k] => Potential(k) >= Minute

\* A rejected client that keeps asking is not pushed back: each new answer
\* names a time less than a second after the one it already had.
NoPostponement ==
  [][\A k \in Keys \ evicted' :
       retry_at[k] # 0 /\ retry_at'[k] # 0 => retry_at'[k] < retry_at[k] + Second]_vars

-----------------------------------------------------------------------------
\* The ideal limiter: one exact bucket for each key, for ever.  A key that
\* was evicted for capacity is forgotten there and promised nothing.
Ideal == INSTANCE ClientRate WITH
  level <- [k \in Keys |-> IF k \in evicted THEN Capacity ELSE Potential(k)],
  forgotten <- evicted

\* The cached, idle-expiring, lazily refilled buckets that threads fetch and
\* lock in separate steps answer every key that was never evicted exactly as the
\* ideal limiter does: the same admissions, the same rejections and a
\* Retry-After that is the first whole second at which a token is there.
ImplementsIdeal == Ideal!Spec
=============================================================================
