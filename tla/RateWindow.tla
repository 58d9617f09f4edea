----------------------------- MODULE RateWindow -----------------------------
(***************************************************************************)
(* An observer of the rate limiter: it picks one client and one moment and *)
(* counts the requests of that client that are admitted from then on.      *)
(***************************************************************************)
EXTENDS RateLimit

CONSTANTS
  NoClient,     \* "no window yet"
  MaxCount      \* bound on the counter, which saturates there

VARIABLES
  win_ip,       \* the client observed, NoClient before the window opens
  win_start,    \* when the window opened
  win_count     \* admissions of that client since

winVars == <<win_ip, win_start, win_count>>

ASSUME WindowAssumption == NoClient \notin Clients /\ MaxCount \in Nat

\* The README's unit of limiting: one IPv4 address (however the socket spells
\* it) or one IPv6 /64.
SameClient(a, b) ==
  \/ a = b
  \/ /\ {a.kind, b.kind} \subseteq {"v4", "mapped"}
     /\ a.net = b.net /\ a.host = b.host
  \/ a.kind = "v6" /\ b.kind = "v6" /\ a.net = b.net

WInit ==
  /\ Init
  /\ win_ip = NoClient /\ win_start = 0 /\ win_count = 0

OpenWindow(c) ==
  /\ per_minute # 0
  /\ win_ip = NoClient
  /\ win_ip' = c /\ win_start' = now /\ win_count' = 0
  /\ UNCHANGED vars

\* An admission seen by the observer.
Count(t) ==
  /\ Admit(t)
  /\ win_count' = IF win_ip # NoClient /\ SameClient(ip[t], win_ip)
                     /\ win_count < MaxCount
                  THEN win_count + 1 ELSE win_count
  /\ UNCHANGED <<win_ip, win_start>>

\* Every other step of the limiter.
Quiet ==
  /\ \/ \E t \in Threads : \/ \E c \in Clients : \/ CheckDisabled(t, c)
                                                 \/ GetHit(t, c)
                                                 \/ GetInit(t, c)
                           \/ Reject(t)
     \/ \E k \in Keys : Evict(k) \/ ExpireIdle(k)
     \/ Tick
  /\ UNCHANGED winVars

WNext ==
  \/ \E c \in Clients : OpenWindow(c)
  \/ \E t \in Threads : Count(t)
  \/ Quiet

wvars == <<vars, winVars>>

WSpec == WInit /\ [][WNext]_wvars

-----------------------------------------------------------------------------
WTypeOK ==
  /\ TypeOK
  /\ win_ip \in Clients \cup {NoClient}
  /\ win_start \in Nat /\ win_start <= now
  /\ win_count \in Nat

\* In a window of any length that opens at any time, one client gets at most a
\* burst plus what the documented rate earns in that time.
WithinRate ==
  win_count * Minute <= Capacity + per_minute * (now - win_start)

\* What the client took and what it could still take never exceed what it has
\* been given: the inductive form of RateBound.
WithinBudget ==
  (win_ip # NoClient /\ BucketKey(win_ip) \notin evicted) =>
    win_count * Minute + Potential(BucketKey(win_ip))
      <= Capacity + per_minute * (now - win_start)

\* check never admits more than the burst plus the sustained rate, whichever
\* threads serve the requests, whichever addresses of its /64 the client rotates
\* through and however often its bucket idles out of the cache, as long as
\* the cache did not evict the key for lack of room.
RateBound ==
  (win_ip # NoClient /\ BucketKey(win_ip) \notin evicted) => WithinRate

\* README: RATE_LIMIT_PER_MINUTE is the "token-bucket burst and sustained
\* requests per client per minute (an IPv4 address or an IPv6 `/64`)", without
\* the reservation for evicted keys.
DocumentedRate == win_ip # NoClient => WithinRate
=============================================================================
