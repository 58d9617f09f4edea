---------------------------- MODULE MCRateLimit ----------------------------
(* Instances of the rate limiter for TLC. *)
EXTENDS RateLimit, TLC

V4 == [kind |-> "v4", net |-> 1, host |-> 1]
Mapped == [kind |-> "mapped", net |-> 1, host |-> 1]
V6a == [kind |-> "v6", net |-> 1, host |-> 1]
V6b == [kind |-> "v6", net |-> 1, host |-> 2]

\* Two hosts of one IPv6 /64.
OneNet == {V6a, V6b}

\* An IPv4 client as two kinds of socket see it and an IPv6 client: two keys
\* that compete for room in the cache.
Rivals == {V4, Mapped, V6a}

MCLimits == {0, 1, 3}

OneLimit == {1}

\* Limiting switched off, and one token.
OffOrOne == {0, 1}

MCSymmetry == Permutations(Buckets) \cup Permutations(Threads)

\* States that differ only in the content of dropped buckets are one state.
MCView ==
  <<per_minute, now, cacheVars, threadVars, evicted, retry_at,
    [b \in Buckets |-> IF Free(b) THEN <<>> ELSE <<tokens[b], updated[b]>>]>>
=============================================================================
