# Verification of proxpulse-judge

proxpulse-judge is a small HTTP service (Rust, axum, tokio) that tells a proxy
checker what the far end of a proxy looks like: the exit address, its location
and type, and whether the proxy hides its user. This directory holds TLA+
models of its logic, the TLC configurations that check them on small instances,
and TLAPS proofs of the results that matter most for every size.

Paths below are relative to the repository root (`src/app.rs` is the Rust
file). `PROJECT.json` maps every definition to the lines it models.

## 1. Inventory

| Component | State | Operations | Interacts with |
|---|---|---|---|
| Rate limiter `src/ratelimit.rs` | moka cache key -> `Arc<Mutex<TokenBucket>>` | `bucket_key`, `check`, `check_limit`; idle expiry, eviction | first layer that may reject |
| Request pipeline `src/app.rs`, `src/metrics.rs` | semaphores `concurrency` and `rdns_sem`, `ptr_cache`, counters, one task per request | `metrics_mw`, `rate_limit_mw`, `concurrency_mw`, `timeout_mw`, handlers, `maybe_rdns` and its blocking task | limiter, resolver, clients that go away |
| Connections `src/server.rs`, `src/main.rs` | connection permits, one task per connection, shutdown signal | accept loop, `accept_error`, drain, `shutdown_grace` | hyper, clients, SIGTERM |
| Client address and verdict `src/logic.rs`, `src/app.rs` | none (a function of one request) | `client_ip`, `pre_edge_xff`, `proxy_view`, `anonymity_level` | hops in front of the service |
| Configuration `src/config.rs` | none | `from_lookup` and its parsers | decides which headers are trusted |
| Geo pool `src/geo.rs` | up to three databases in memory | `open`, `lookup`, `verify` | files of `GEO_DIR` |
| Container scripts `scripts/` | files of `GEO_DIR`, a temporary directory | `docker-entrypoint.sh`, `download-dbip.sh`, `download-geolite2.sh` | service start, cron, kills |
| Signed answers `src/sign.rs`, `src/app.rs` | the key, fixed or drawn at start-up | `message`, `sign`, `valid_nonce`, `judge`, `key` | the checker, and the proxy between them |
| IP classification `src/logic.rs`, `src/app.rs` | keyword tables, `ptr_cache` | `classify_ip`, `ip_type`, the policy of `maybe_rdns` | geo data and reverse DNS |
| Metrics text, response headers, access log, health check | - | formatting and I/O | - |

What makes the system correct, and what is hard about it:

- **Limiter.** Fetching a bucket from the cache and locking it are two steps;
  in between other threads take tokens, the entry may idle out or be evicted,
  and a second bucket for the client may appear. No client may get more than
  the documented rate, and `Retry-After` must be kept.
- **Pipeline.** A request may be dropped at any await, with a permit already
  assigned to it; a lookup outlives the request that started it; four timeouts
  are nested. No permit may be lost or doubled; 503 and 504 must be deserved;
  an address that is slow to resolve must not
  be looked up again and again.
- **Connections.** Shutdown may come in any state of the loop, also while all
  permits are used by idle connections or while the loop sleeps after an error.
  It must end, and must not cut off a request that was in flight. Clients that
  send headers slowly must not keep connections.
- **Verdict.** The service must separate what the checked proxy sent from what
  its own hops added, in five deployments, although both write to the same
  headers. The address must be the true peer and no leak may be hidden.
- **Configuration, databases, scripts.** A typo must not change what is
  trusted; a failing download, a kill between two renames or two scripts at
  once must not stop the service or make it load a broken database; one
  failing database must not spoil what the others know.

- **Signed answers.** The answer travels through the very proxy that is being
  checked, which may alter the query, swap, keep and replay answers; the key may
  change with a restart. What is accepted must be the judge's answer to this
  check, and an honest answer must be accepted.
- **Classification.** Lookups of one address overlap and end in any order, a
  cached name ends, requests give up. Reverse DNS may decide only where no
  organisation is known, with a name that is fresh, and the signals must say why.

The full list, with lines and the properties that cover each item, is
`hazards` in `PROJECT.json`.

## 2. Modules

| Module | Models | Checked by | Proved in |
|---|---|---|---|
| `ClientRate` | abstract limiter: one exact, eternal bucket per key | (refined by `RateLimit`) | |
| `RateLimit` | `src/ratelimit.rs` | `rate_pressure`, `rate_window` | `RateLimitProof` |
| `RateWindow` | `RateLimit` and an observer that counts one client's admissions | `rate_window`, `rate_evicted` | `RateLimitProof` |
| `Admission` | abstract gate: who is inside, waits, is refused | (refined by `Pipeline`) | |
| `Pipeline` | layers, handlers and `maybe_rdns` of `src/app.rs`, counters of `src/metrics.rs` | `pipeline`, `pipeline_slow` | `PipelineProof`, `AdmissionProof` |
| `Connections` | `src/server.rs`, limits and signal of `src/main.rs` | `connections` | `ConnectionsProof` |
| `Verdict` | `src/logic.rs` (address, chain, anonymity), `proxy_view` and `judge` of `src/app.rs` | `verdict`, `verdict_reveal` | `VerdictProof` |
| `Config` | `src/config.rs` | through `Service` | through `ServiceProof` |
| `Geo` | `src/geo.rs` | through `Service` | through `ServiceProof` |
| `Service` | composes `Config`, `Geo`, `main` and the scripts | `service`, `service_lost` | `ServiceProof` |
| `Signed` | `src/sign.rs`, `judge` and `key` of `src/app.rs`, the checker and the proxy | `signed` | `SignedProof` |
| `IpType` | `classify_ip` of `src/logic.rs`, `is_public_ip`, `maybe_rdns` and `ip_type` of `src/app.rs` | `iptype` | `IpTypeProof` |

`MC*` modules give the constants values. Definitions whose comment begins with
"Slip:" are plausible mistakes in the definition that follows; `mutants` in
`PROJECT.json` says which property notices which slip. They are not part of
any specification.

### RateLimit

A thread runs `check` in two actions: `GetHit` or `GetInit` (moka's
`get_with`, with the recorded access that renews the entry) and `Admit` or
`Reject` (lock, `check_limit`). `ExpireIdle` and `Evict` are the cache's own
steps. Tokens are counted in units of 1/`Minute`, so that refilling is exact;
the rounding of `f64` is not modelled. `MaxStall` bounds the time between
`get_with` and the lock; the code's 120 s against 60 s allow a stall of one
minute (`IdleAssumption`). A key that moka evicted for lack of room is recorded
in `evicted`: the properties promise nothing for it, and `rate_evicted` shows
what happens to it. `retry_at` is history: what the last 429 said.

### Pipeline

One action per stretch between two awaits. `granted` holds the waiters to whom
a semaphore has assigned a permit that they have not yet seen: a request
dropped there gives the permit back (`Owned`). Which waiter is served first is
left open (tokio is FIFO), so what is shown holds for every order. `Disconnect`
drops a request at any await, without counting it in the metrics. The lookup
task owns its permit and goes through `StoreAnswer` and `ReturnLookup`, whatever
becomes of the request. The limiter's verdict is left open here (`RateLimited`
may happen to any request). Timers count down in ticks, and time does not pass
while a task is ready. `timeout_mw` polls the handler before its own timer, so an
answer that is there wins. When an inner timer and the outer one run out in one
tick either may be the first (`DeadlinePassed`): the outer one was armed a little
earlier, and tokio rounds. So `NoGatewayTimeout` asks for a tick to spare.
`maybe_rdns` looks into the cache (`RecheckHit`, `RecheckMiss`) and spawns
(`SpawnLookup`) in separate steps: there is no await in between, but the blocking
thread of another request may insert its answer there. `asked` is history: who has
looked an address up since its last answer lapsed.

A probe passes both limits before it awaits anything, so in the model it is
answered at once (`ServeMonitoring`); there is no property about that. It still
needs one of the connections of `Connections`, where nothing exempts it.

`Admission` is what all this promises to a request, without timers, tasks and
grants: it is out, waiting, inside, refused or ended. `Place` maps a request of
`Pipeline` to its place there; a request with a granted permit it has not yet
seen is already inside. A permit that is dropped while somebody waits must be
one step with the waiter's entry (`HandOver`), so a wakeup that is lost breaks the
refinement.

### Connections

The acceptor's states are the awaits of `serve`. Connections begin and end
requests as clients like. Of the application they contain the two waits that
`shutdown_grace` must outlast: `queued` (`concurrency_mw`, 503 when `QueueOver`) and
`handled` (`timeout_mw`, 504 when `HandlerOver`); when a permit comes (`Admit`) is
left open, the last instant included. `inflight` is history: the requests that
the drain found and that are neither answered nor abandoned yet.
hyper is reduced to when the headers of a request begin, are complete or are
late (`header_read_timeout`) and when it is answered. A connection on which no
byte of a request has come is assumed to stay as long as its client likes: the
code sets no idle timeout, and nothing in the repository says that hyper does.

### Verdict

A header is a sequence of lines, a line a sequence of tokens, a token an
address in a plain, dressed (port, brackets, IPv4-mapped) or quoted (inside
other text) form, or a word, or empty. `Send` is the checked proxy's choice,
`Forward` a hop of the deployment, external and modelled from the README and
the example configurations, and `Judge` the handler. `Supported` states what the
README asks of a deployment; TLC checks that the five modelled ones satisfy it.
Telltale and infrastructure headers are represented by one or two members of
their tables.

### Config, Geo, Service

`Config` and `Geo` are operators without state. A setting is a class of texts; a
database file is absent, a stub, corrupt (does not open), damaged (opens but
does not verify) or good, and names the kinds of its `database_type`. `Service`
runs the scripts step by step, for two runners (entrypoint and cron) with
a temporary directory each; cron may run either script. `env.cron` says whether
the program is there to validate with: both scripts skip the check without it,
as a host-only run does. `ScriptFails` stands for every error exit and for a
kill, `Kill` for the container's end; both can come between any two steps. The
download may deliver good, damaged or corrupt databases independently.

### Signed

A text is a sequence of symbols, the line feed being one of them, and a
signature is the pair of the key and the message it was made from: only `Judge`
makes one. The proxy is `Judge`'s free choice of nonce and `direct_ip` (except a
nonce nobody has sent yet) and `Deliver`'s free choice of a body and of any
signature ever made. The checker does what the README's "Signed answers" asks:
it fetches the key directly, and once more when a verification fails. Either
`SIGNING_KEY` is set and replicas share it, or there is one process whose every
start draws a new key.

### IpType

A text is a sequence of words and separators; words that contain a keyword as
a part ("ghost", "shaws") are words of their own. `Keywords`, `Note` and
`ClassifyIp` are `classify_ip` in its order of precedence. Requests go through
`maybe_rdns` as in `Pipeline`, with permits and timers reduced to "may get one"
and "may give up"; what `Pipeline` leaves out is here: which name is cached, by
which lookup and when. `told` is history, everything the resolver ever said. When
lookups overlap, a request gets its own lookup's answer although a later one may be in
the cache: `NameFresh` asks for an answer of that address within the hour, not for the
latest.

## 3. Runs

| Run | Instance | Properties | Shows |
|---|---|---|---|
| `rate_window` | two hosts of one /64, 2 threads, limits 0, 1, 3, minute of 4 ticks, 12 ticks | `RateBound`, `RetryAfterKept`, `NoPostponement`, `ImplementsIdeal` | burst plus sustained rate bounds every window; the cached concurrent limiter is the ideal one; waiting as told works; asking again does not push the client back |
| `rate_pressure` | two keys, one of them seen as IPv4 and as mapped address, room for one, limits 0 and 1 | `BucketInv`, `ImplementsIdeal` | an eviction harms nobody but the evicted |
| `rate_evicted` | two keys, room for one | `DocumentedRate` | **violated**: see findings |
| `pipeline` | 3 requests, 2 addresses, 2 permits of each kind; the waits of a lookup fit into the request timeout with a tick to spare | `LookupsBounded`, `LookupsPerAddress`, `NoIdlePermit`, `NoGatewayTimeout`, `BusyOnlyWhenFull`, `ImplementsAdmission` | nobody waits beside a free permit; lookups and their repetition are bounded; 503 and 504 are deserved; the abstract gate |
| `pipeline_slow` | 3 requests, 1 permit of each kind, `RDNS_TIMEOUT` above `REQUEST_TIMEOUT`, a resolver that may never answer | `PermitAccounting`, `MetricsAgree`, `AnswerInTime`, `EveryRequestEnds`, `AnswerEventuallyCached` | permits and counters, with 504; every request ends in time |
| `connections` | 3 clients, 2 permits | `SlotAccounting`, `InFlightDrained`, `SlowHeadersEnd`, `ShutdownReturns`, `ProcessExits` | accept loop, slow headers and shutdown |
| `verdict` | 5 deployments, two exits, thousands of header maps | `ExitResolved`, `VerdictCorrect`, `OnlySentEchoed` | address, verdict and echo |
| `verdict_reveal` | as `verdict` | `RevealedIsNotElite` | **violated** |
| `service` | 19 environments, 4 directories, 2 cron runs, a kill or a failing bind | `TypeOK`, `ConfigSound`, `PoolSound`, `LookupSound`, `EditionsSurvive`, `ValidConfigServes` | start-up, scripts, lookups |
| `service_lost` | as `service` | `DatabasesSurvive` | **violated** |
| `signed` | 2 checks, 2 replicas, 1 restart, altered nonces and addresses, some with line feeds | `SignedInv`, `Genuine`, `Fresh`, `HonestVerified` | what a checker may conclude from a signature |
| `iptype` | 3 requests, a public and a private address, 13 organisations, 3 answers of the resolver, 2 ticks of cache | `TypeInv`, `OrganisationDecides`, `NameFresh`, `SignalsExplain` | when a name counts, which, and why |

The type invariants of `RateLimit`, `RateWindow`, `Pipeline` and `Connections` are
not in the table: they are proved (section 5), so no run repeats them.

Why the bounds suffice. *Limiter*: the clock runs for more than two idle
times, so a bucket is created, emptied, dropped and created again, and two
threads can hold it across each of these; three buckets let an old one be held
while a new one is cached. *Pipeline*: with three requests and two permits one
queues while two are served; three could look one address up three times, and the two
lookup permits let only two do so, side by side or the second after the answer to the
first; both can outlive their requests, and then the third finds no permit. In
`pipeline_slow` one permit of each kind makes every second request wait for either, and
504 is sent. *Connections*:
three clients on two permits fill the server and leave one in the backlog, and
they return for ever, so the run is no bounded scenario; the queue's wait and the
grace beyond the request timeout are equal, as in the code, so a request that is
admitted in the last instant needs all of the grace. *Verdict*: chains of
up to three entries of the proxy plus those of up to three hops contain every
order of leak, exit and stranger; a fourth entry repeats one of them. *Service*:
a kill and two cron runs let a second script meet the debris of the first, and
a damaged database that was there before is told apart from one a script brings.
*Signed*: two checks are what a replay or a swap needs; the values that reach the
judge include the pairs of nonce and address whose concatenations collide if a
line feed is let through. *IpType*: with three requests two lookups overlap while
a third request asks the cache; the clock passes the life of an entry.
The theorems of section 5 do away with the bounds where they apply.

Deadlock is checked in the limiter's runs only: elsewhere each request or check is
served once, the process ends, or the service simply goes on serving.

## 4. Fairness

- `Pipeline`: weak fairness of `Step(r)` and `Tick`: tokio polls a task that is
  ready, and the clock runs. Nothing is assumed of clients. The resolver's
  fairness (`FairResolver`) is a hypothesis of `AnswerEventuallyCached` alone:
  `EveryRequestEnds` holds with a resolver that never answers.
- `Connections`: weak fairness of the acceptor and the clock, of `concurrency_mw` and
  `timeout_mw` answering when their time is up, and of hyper's header timer firing; none
  of permits, clients and connections; strong fairness of `LeaveLoop`, because `tokio::select!` polls its
  branches in random order: clients that keep both branches ready cannot win for
  ever, yet no fixed number of rounds bounds the wait. `ProcessExits` has the
  resolver's fairness as a hypothesis, since dropping the runtime waits for
  blocking tasks.
- `Service`: a started entrypoint, script or program goes on (curl's
  `--max-time` and `timeout 600` bound the script), and Docker restarts the
  container (`restart: unless-stopped`). No download need ever succeed.

## 5. Proofs

All are checked by TLAPS for every value of the constants that satisfies the
named assumptions.

The type invariant and all safety and action properties of the passing runs, the two
refinements included, are theorems.

**RateLimitProof** (assumes `TimeToIdle >= Minute + MaxStall`, limits natural
numbers, any sets of threads, clients and buckets).
`BucketsCoherent` is the core: `BucketInv` is `ClockOK`, `OneOwner`,
`HeldIsCached` and `StampNearAccess`, inductive together with `TypeOK`. The
argument: a fetch renews the entry, so an entry cannot idle out under a thread
that stalls at most `MaxStall`, hence the thread's bucket is the cached one; and
a bucket is stamped at most `MaxStall` after the last access the cache knows,
so one that idles out has had a full minute to refill, and replacing it by a new
full bucket changes nothing. From this, `RateBounded` follows with the stronger
`WithinBudget` (taken plus still available never exceeds what was given), and
`LimiterImplementsIdeal` by the mapping that sends each key to the potential of
its bucket; `Retry-After` is part of the abstract state. `RetryAfterIsKept` and
`NeverPostponed` are then proved of the ideal limiter, whose steps the real one's
are: `EarnedByThen` says that a key's level plus what it earns until the time it
was told is worth a token. It holds until the key is admitted again, and rounding
up in `retry_after` is what makes both ends of it meet.

**PipelineProof** (any finite set of requests, at least one permit of each
kind, any durations). `PipelineInvariant` proves `TypeOK`, `RequestInv` (what each
program point implies for task, grant and timers) and `PermitAccounting` (free
permits plus holders, counted with `Cardinality`, are the total) inductive. From it:
`LookupsAreBounded`, since running lookups are among the holders; `NoPermitIdles`,
since a permit goes back to the semaphore only if nobody waits; and the action
property `RefusedOnlyWhenFull`, which combines the last two.
`AnsweredInTime` needs `TimeSpent` (a request's age and what is left of the timers it
is under never exceed the queue's wait plus the request timeout), and
`NoGatewayTimeouts` needs `DeadlineCovers` (if `RdnsWait + RdnsTimeout < RequestTimeout`,
the request timer has more left than the waits of `maybe_rdns` still to come, since
`timeout_mw` starts its clock when the permit is in hand). `MetricsAlwaysAgree` adds
`StatusInv`, `ResponseCounts` and `LookupCounts`: each counter is the cardinality of
a set of requests that a step changes by at most one member. `LookupsPerAddressBounded`
needs `LookingInv`: as long as an address has no answer in the cache, whoever has
looked it up still runs the lookup and so holds a permit; and once it has one, those
who have and those who still may (they looked before the answer came and hold a
permit since) are together `RdnsMax` at most.

**ConnectionsProof** (any finite set of clients, `GraceExtra >= QueueWait`).
`ConnectionsInvariant` proves `TypeOK` and `SlotAccounting` inductive; from it
`InFlightAreDrained` by `TimerInv` (a timer never exceeds what it was set to) and
`DrainInv`: during the drain a request of `inflight` is queued or handled, and the
grace has more left than the request's timer, plus a whole `RequestTimeout` if it is
still queued. No time passes over a 503 or 504 that is due, so this lasts until the
request is answered, and when the grace is over there is no such request. The assumption is the
code's 5 s = 5 s, and the two timeouts are what makes it enough: without the one
of the queue (`PatientQueue`) the property fails.

**AdmissionProof** (the assumptions of PipelineProof).
`PipelineImplementsAdmission`: under `Places`, every step of `Pipeline` is a step of
`Admission` or none. It rests on `PermitAccounting` (no free permit means the gate is
full) and `NoIdlePermit` (who waits, waits because it is full); the case that needs care
is a holder that ends, whose permit `DropPermits` hands to a waiter of its choice
in the same step (`HolderEnds`).

**VerdictProof** (any set of supported deployments, so any number of hops behind a CDN;
any headers made of the modelled tokens, with any number of lines and entries).
`VerdictInvariant` is the way of the headers: `Placed` says who the sender on the
connection is, `Carried` that `X-Forwarded-For`, joined, is what the proxy sent followed
by one entry per hop (`Added`), that `CF-Connecting-IP` is the exit's once a CDN was
passed, and that any other header either is the proxy's, untouched, or is of a hop
that wrote it (`OthersSurvive`). What `Judge` computes is then a matter of three
cases - no hop, one edge, a CDN - in which `pre_edge_xff` gives back what the proxy
sent (`PreEdgeIsSent`), or behind a CDN all of it but the entries with the proxy's
own exit address (the exception that `verdict_reveal` reports), because no entry after the CDN's names an
exit, so that the last occurrence of the client is the CDN's own (`CdnEntryIsNext`).
`ExitAlwaysResolved`, `OnlySentIsEchoed` and `VerdictAlwaysCorrect` follow.
The module first proves the laws of `Only` (the `filter` of `split_xff`,
`normalize_chain` and `retain`) and of `FlattenSeq` (the joining of header lines)
that this needs, by induction: the library's induction theorems take a predicate as
a parameter, so induction is done on sets instead (`LeastNumber`, `UpTo`,
`AllSequences`), from the well-foundedness of the natural numbers. A function
defined by recursion exists and is unique by `RunExists` and `RunUnique`.

**ServiceProof** (any environments, any contents of the directory before the first
start, any results of the databases, any number of script runs and kills). `ServiceInv` is
inductive: `ConfigRead` (a serving program's configuration is that of an environment
that is not rejected), `ScriptsInv` and `TmpInv` (which files a script's directory holds
at each step), `Checked` (a script past its check holds what `Verify` accepts) and
`FilesClean` (no script has brought a damaged file). The point is that a check of the
pool a directory gives says something about each file moved out of it (`PassedIsGood`):
a script's directory never holds two files for the same kind at once. From it
`PoolAlwaysSound`, `ConfigAlwaysSound` and `EditionsAlwaysSurvive`; `LookupAlwaysSound`
holds of `Lookup` for all databases and results.

**SignedProof** (a nonce is not empty and holds no line feed, nor does the checker's
address; texts otherwise arbitrary). `MessageInjective`: two messages are equal only if
their fields are, provided the first two hold no line feed; proved from the first
line feed of a concatenation. `SignedInvariant` is inductive (what is signed, what was
delivered and what was accepted); `AcceptedIsGenuine` and `AcceptedIsFresh` follow with
`MessageInjective`, and `HonestIsVerified` from the fact that replicas differ in nothing
if there are several.

**IpTypeProof** (a cache entry lives for some time; organisations and names are
sequences of symbols). `TypeInvariant` proves `TypeInv` and `NameFresh` inductive: a
cache entry was told by the resolver at its time (`CacheTold`), and whoever is on the
way to a lookup needs one and holds an answer of this very instant (`OnTheWay`).
`OrganisationAlwaysDecides` adds that a blank text contains no keyword.
`SignalsAlwaysExplain` adds `NamesKnown` and two facts about `ClassifyIp`: each listed
keyword is a part of a text (`KeywordsArePresent`), and the lists and the note
determine the type (`ReasonsDecide`), although `ClassifyIp` also looks at the
texts.

Only model-checked: liveness (`EveryRequestEnds`, `AnswerEventuallyCached`,
`SlowHeadersEnd`, `ShutdownReturns`, `ProcessExits`, `ValidConfigServes`), which needs
fairness and `ENABLED` and is beyond the prover, and the three violated properties.

## 6. Findings

- **Capacity eviction resets a client's limit** (`rate_evicted`). Above 100,000
  keys moka drops buckets in use and the client starts with a full one; the
  README states the limit without reservation.
- **A proxy that forwards its own exit address is "elite" behind Cloudflare**
  (`verdict_reveal`), because `pre_edge_xff` drops every entry equal to the
  client; the README calls any entry revealing. Behind Caddy the same proxy is
  "anonymous". For the same reason `/headers` and `/judge` do not echo these entries,
  although the README says that they echo the headers as the proxy sent them.
- **`--check-geo` passes if one of two downloads is no database**
  (`service_lost`). `verify` looks at what could be opened; the rest is skipped
  with a warning, and `download-dbip.sh` then replaces the good file. The
  entrypoint does not repair it, since the file is larger than 1 KiB.

Noted while modelling, not checked by a run: only finished lookups are cached, so a
request that comes while a lookup of its address still runs repeats it, and the comment
in `maybe_rdns` ("the next request should not repeat a slow/absent lookup") holds as
far as `LookupsPerAddress` says; the later of two answers replaces the
earlier one even if it is a failure, which then hides the name for an hour; and a
request that finds no permit in time does not look at the cache again, although
another lookup may have filled it. The comment of `pre_edge_xff` says
the chain is cut at the first client entry, the code cuts at the last, and
`VerdictCorrect` (its mutant cuts at the first) shows that the code is right.
`TRUST_CF` is not read when `TRUST_PROXY` is off, so a misspelt or non-Unicode value
of it does not stop startup, although README and CHANGELOG make no exception.
`DocumentedInvalid` says what they call invalid: `ValidConfigServes` promises nothing
for such an environment, and by the last part of `ConfigSound` no header is trusted in
one that serves all the same.
An `X-Forwarded-For` entry that contains the direct address inside other text is
not counted as a leak, unlike the same text in another header; `Leaks` in
`Verdict` follows the code there. `docker stop` kills after 10 s by default,
less than the 25 s of `shutdown_grace`. With `RDNS_TIMEOUT` within 0.1 s of
`REQUEST_TIMEOUT` or above (the code accepts up to 60) a slow resolver costs the whole
answer (504), as `NoGatewayTimeout` then promises nothing. A kill between the two renames of
`download-dbip.sh` on an empty volume leaves a city database without an ASN
database, which the entrypoint never completes.

## 7. Not modelled

- The MMDB format, Ed25519, base64, hyper and moka internals, the resolver:
  external, modelled by how the code uses them.
- Rounding of `f64` in the token bucket; FIFO order of semaphores (the models
  allow every order).
- Character-level matching (`clean_host`, `ip_in_text`): represented by what is
  found in a token.
- The whole keyword tables of `classify_ip` (some members stand for each), the
  attributions of the geo pool, the text of `/metrics`, response headers, the access
  log, `--healthcheck`: formatting and one-shot I/O that decide nothing.
- The kill timer of the deployment (`docker stop`), and hyper's treatment of
  connections that never send a byte and of HTTP/2.

## 8. Plan

Done so far, in this order: limiter with its abstraction and proofs; pipeline
and proofs; connections and proofs; verdict; configuration, databases and
scripts; signed answers and proofs; classification and proofs; the abstract gate
and its refinement proof; header timeout; `download-geolite2.sh`; proofs of all
remaining safety and action properties, of `Verdict` and `Service` among them.

Next, most important first:

1. An abstract specification of `Verdict` (a judge that sees what the proxy sent) and
   of `Service` (files are replaced only by verified ones), with refinement proofs
   from the invariants that are there.
2. The composition of `RateLimit` and `Pipeline`: rejected requests hold no
   permit.
3. The months of the DB-IP databases, and attributions.
