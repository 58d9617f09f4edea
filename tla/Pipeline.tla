------------------------------ MODULE Pipeline ------------------------------
(***************************************************************************)
(* The request pipeline of src/app.rs: metrics, rate limit, concurrency    *)
(* limit, request timeout, handler, and the reverse-DNS lookup that the    *)
(* /type and /judge handlers may wait for.  A request is an asynchronous   *)
(* task: between two awaits it runs on, at an await its client may go away *)
(* and the task is dropped with everything it owns.  A lookup runs on a    *)
(* thread of its own, owns its permit and cannot be stopped.               *)
(*                                                                         *)
(* Each request is served once.  Timers count down in ticks; time does not *)
(* pass while some task is ready to run.  Which waiter a semaphore serves  *)
(* first is left open, and so is the verdict of the rate limiter, which    *)
(* has a module of its own.                                                *)
(***************************************************************************)
EXTENDS Integers, FiniteSets

CONSTANTS
  Requests,
  Ips,             \* addresses the requests come from
  Nameless,        \* the public ones without a known ASN organisation
  MaxConcurrency,  \* MAX_CONCURRENCY
  RdnsMax,         \* RDNS_MAX_CONCURRENT
  QueueWait,       \* the 5 s of concurrency_mw
  RequestTimeout,  \* REQUEST_TIMEOUT
  RdnsWait,        \* the 100 ms of maybe_rdns
  RdnsTimeout      \* rdns_timeout; 0 turns lookups off

ASSUME RequestsAssumption == IsFiniteSet(Requests)
ASSUME IpsAssumption == Nameless \subseteq Ips /\ Ips # {}
ASSUME PermitsAssumption == MaxConcurrency \in Nat \ {0} /\ RdnsMax \in Nat \ {0}
ASSUME DurationsAssumption ==
  /\ QueueWait \in Nat \ {0} /\ RequestTimeout \in Nat \ {0}
  /\ RdnsWait \in Nat \ {0} /\ RdnsTimeout \in Nat

VARIABLES
  pc,        \* where the request is
  path,      \* "monitoring", "plain" or "typed" (/type and /judge)
  ip,        \* the client address resolved for it
  status,    \* status of the response, 0 before there is one
  timer,     \* what is left of the innermost timeout it waits under
  deadline,  \* what is left of timeout_mw
  age,       \* ticks since the request arrived
  cfree,     \* free permits of `concurrency`
  rfree,     \* free permits of `rdns_sem`
  granted,   \* waiters a permit has been assigned to, not polled yet
  task,      \* the blocking lookup a request has spawned
  cached,    \* addresses ptr_cache has an answer for
  asked,     \* history: who has looked its address up since the last answer lapsed
  metrics    \* the counters of src/metrics.rs

requestVars == <<path, ip>>
vars == <<pc, path, ip, status, timer, deadline, age, cfree, rfree, granted,
          task, cached, asked, metrics>>

\* idle: not arrived; queued: awaits `concurrency`; handler: in the handler;
\* waiting: awaits `rdns_sem`; permitted: has that permit; missed: has looked into
\* the cache again, in vain; lookup: awaits the JoinHandle; done: answered; gone:
\* dropped because the client went away.
States == {"idle", "queued", "handler", "waiting", "permitted", "missed",
           "lookup", "done", "gone"}
Awaits == {"queued", "waiting", "lookup"}
Ended == {"done", "gone"}

\* A lookup that has stored its answer keeps its permit until it returns.
TaskStates == {"none", "running", "stored", "returned"}

Counters == {"requests", "responses_4xx", "responses_5xx", "rate_limited",
             "rdns_lookups", "rdns_timeouts", "rdns_skipped"}

\* is_monitoring: /healthz, /readyz and /metrics.
IsMonitoring(p) == p = "monitoring"

-----------------------------------------------------------------------------
\* Semaphores.

ConcWaiters == {r \in Requests : pc[r] = "queued" /\ r \notin granted}
RdnsWaiters == {r \in Requests : pc[r] = "waiting" /\ r \notin granted}

\* Slip: the permit is put back without waking anybody.
LostWakeup(free, waiters) == {[free |-> free + 1, to |-> {}]}

\* Dropping a permit hands it to some waiter, or back to the semaphore.
GiveBack(free, waiters) ==
  IF waiters = {} THEN {[free |-> free + 1, to |-> {}]}
  ELSE {[free |-> free, to |-> {w}] : w \in waiters}

Keep(free) == {[free |-> free, to |-> {}]}

\* Request r stops waiting and drops the permits it owns.
DropPermits(r, owned) ==
  \E c \in IF "conc" \in owned THEN GiveBack(cfree, ConcWaiters \ {r}) ELSE Keep(cfree) :
  \E d \in IF "rdns" \in owned THEN GiveBack(rfree, RdnsWaiters \ {r}) ELSE Keep(rfree) :
    /\ cfree' = c.free
    /\ rfree' = d.free
    /\ granted' = (granted \ {r}) \cup c.to \cup d.to

-----------------------------------------------------------------------------
\* Counters and responses.

Bump(m, names) == [n \in Counters |-> IF n \in names THEN m[n] + 1 ELSE m[n]]

\* Slip: only successful responses are counted.
CountSuccesses(code) == IF code < 400 THEN {"requests"} ELSE {}

\* metrics_mw: what one finished response adds.
MetricsMw(code) ==
  {"requests"} \cup (IF code \in 400..499 THEN {"responses_4xx"} ELSE {})
               \cup (IF code \in 500..599 THEN {"responses_5xx"} ELSE {})

\* The response leaves through the outer layers; `events` were counted on the way.
\* 200 stands for every success.
Respond(r, code, events) ==
  /\ pc' = [pc EXCEPT ![r] = "done"]
  /\ status' = [status EXCEPT ![r] = code]
  /\ timer' = [timer EXCEPT ![r] = 0]
  /\ deadline' = [deadline EXCEPT ![r] = 0]
  /\ metrics' = Bump(Bump(metrics, events), MetricsMw(code))
  /\ UNCHANGED <<requestVars, age>>

-----------------------------------------------------------------------------
Init ==
  /\ pc = [r \in Requests |-> "idle"]
  /\ path \in [Requests -> {"monitoring", "plain", "typed"}]
  /\ ip \in [Requests -> Ips]
  /\ status = [r \in Requests |-> 0]
  /\ timer = [r \in Requests |-> 0]
  /\ deadline = [r \in Requests |-> 0]
  /\ age = [r \in Requests |-> 0]
  /\ cfree = MaxConcurrency
  /\ rfree = RdnsMax
  /\ granted = {}
  /\ task = [r \in Requests |-> "none"]
  /\ cached = {}
  /\ asked = {}
  /\ metrics = [n \in Counters |-> 0]

\* A probe passes both limits; /metrics may answer 401 to a wrong token.
ServeMonitoring(r) ==
  /\ pc[r] = "idle" /\ IsMonitoring(path[r])
  /\ \E code \in {200, 401} : Respond(r, code, {})
  /\ UNCHANGED <<cfree, rfree, granted, task, cached, asked>>

\* rate_limit_mw: rejected before anything else happens to the request.
RateLimited(r) ==
  /\ pc[r] = "idle" /\ ~IsMonitoring(path[r])
  /\ Respond(r, 429, {"rate_limited"})
  /\ UNCHANGED <<cfree, rfree, granted, task, cached, asked>>

\* Slip: timeout_mw is laid around concurrency_mw.
SinceArrival(r) == RequestTimeout - age[r]

\* timeout_mw is the innermost layer: its clock starts when the permit is in hand.
TimeToServe(r) == RequestTimeout

\* concurrency_mw: take a free permit or start to wait for one.
Arrive(r) ==
  /\ pc[r] = "idle" /\ ~IsMonitoring(path[r])
  /\ IF cfree > 0
     THEN /\ pc' = [pc EXCEPT ![r] = "handler"]
          /\ cfree' = cfree - 1
          /\ deadline' = [deadline EXCEPT ![r] = TimeToServe(r)]
          /\ UNCHANGED timer
     ELSE /\ pc' = [pc EXCEPT ![r] = "queued"]
          /\ timer' = [timer EXCEPT ![r] = QueueWait]
          /\ UNCHANGED <<cfree, deadline>>
  /\ UNCHANGED <<requestVars, status, age, rfree, granted, task, cached, asked, metrics>>

\* The permit has come: timeout_mw starts its clock.
Dequeue(r) ==
  /\ pc[r] = "queued" /\ r \in granted
  /\ pc' = [pc EXCEPT ![r] = "handler"]
  /\ granted' = granted \ {r}
  /\ timer' = [timer EXCEPT ![r] = 0]
  /\ deadline' = [deadline EXCEPT ![r] = TimeToServe(r)]
  /\ UNCHANGED <<requestVars, status, age, cfree, rfree, task, cached, asked, metrics>>

\* 503: no permit within QueueWait.
Busy(r) ==
  /\ pc[r] = "queued" /\ r \notin granted /\ timer[r] = 0
  /\ Respond(r, 503, {})
  /\ UNCHANGED <<cfree, rfree, granted, task, cached, asked>>

\* A handler that never awaits; 404 stands for the router's own errors too.
HandlePlain(r) ==
  /\ pc[r] = "handler" /\ path[r] # "typed"
  /\ \E code \in {200, 404} : Respond(r, code, {})
  /\ DropPermits(r, {"conc"})
  /\ UNCHANGED <<task, cached, asked>>

\* maybe_rdns: lookups off, organisation known, not a public address.
NoLookup(r) == RdnsTimeout = 0 \/ ip[r] \notin Nameless

\* maybe_rdns returns without a lookup.
HandleTyped(r) ==
  /\ pc[r] = "handler" /\ path[r] = "typed"
  /\ NoLookup(r) \/ ip[r] \in cached
  /\ Respond(r, 200, {})
  /\ DropPermits(r, {"conc"})
  /\ UNCHANGED <<task, cached, asked>>

\* The cache has no answer: take a lookup permit or wait RdnsWait for one.
AcquireRdns(r) ==
  /\ pc[r] = "handler" /\ path[r] = "typed"
  /\ ~NoLookup(r) /\ ip[r] \notin cached
  /\ IF rfree > 0
     THEN /\ pc' = [pc EXCEPT ![r] = "permitted"]
          /\ rfree' = rfree - 1
          /\ UNCHANGED timer
     ELSE /\ pc' = [pc EXCEPT ![r] = "waiting"]
          /\ timer' = [timer EXCEPT ![r] = RdnsWait]
          /\ UNCHANGED rfree
  /\ UNCHANGED <<requestVars, status, deadline, age, cfree, granted, task, cached, asked, metrics>>

GotRdnsPermit(r) ==
  /\ pc[r] = "waiting" /\ r \in granted
  /\ pc' = [pc EXCEPT ![r] = "permitted"]
  /\ granted' = granted \ {r}
  /\ timer' = [timer EXCEPT ![r] = 0]
  /\ UNCHANGED <<requestVars, status, deadline, age, cfree, rfree, task, cached, asked, metrics>>

\* No lookup permit within RdnsWait: answer without a name.
SkipRdns(r) ==
  /\ pc[r] = "waiting" /\ r \notin granted /\ timer[r] = 0
  /\ Respond(r, 200, {"rdns_skipped"})
  /\ DropPermits(r, {"conc"})
  /\ UNCHANGED <<task, cached, asked>>

\* Slip: the second look at the cache is missing.
NoRecheck(r) == FALSE

\* The second look at the cache, with the permit in hand.
AnsweredMeanwhile(r) == ip[r] \in cached

RecheckHit(r) ==
  /\ pc[r] = "permitted" /\ AnsweredMeanwhile(r)
  /\ Respond(r, 200, {})
  /\ DropPermits(r, {"conc", "rdns"})
  /\ UNCHANGED <<task, cached, asked>>

\* No answer yet; the blocking thread of another request may insert one from here on.
RecheckMiss(r) ==
  /\ pc[r] = "permitted" /\ ~AnsweredMeanwhile(r)
  /\ pc' = [pc EXCEPT ![r] = "missed"]
  /\ UNCHANGED <<requestVars, status, timer, deadline, age, cfree, rfree, granted,
                 task, cached, asked, metrics>>

\* spawn_blocking: the permit moves into the task.
SpawnLookup(r) ==
  /\ pc[r] = "missed"
  /\ pc' = [pc EXCEPT ![r] = "lookup"]
  /\ task' = [task EXCEPT ![r] = "running"]
  /\ asked' = asked \cup {r}
  /\ timer' = [timer EXCEPT ![r] = RdnsTimeout]
  /\ metrics' = Bump(metrics, {"rdns_lookups"})
  /\ UNCHANGED <<requestVars, status, deadline, age, cfree, rfree, granted, cached>>

LookupAnswered(r) ==
  /\ pc[r] = "lookup" /\ task[r] = "returned"
  /\ Respond(r, 200, {})
  /\ DropPermits(r, {"conc"})
  /\ UNCHANGED <<task, cached, asked>>

\* Slip: the request kept the permit, and drops it when it gives up.
PermitWithRequest(r) == IF pc[r] = "lookup" /\ task[r] # "returned" THEN {"rdns"} ELSE {}

\* The permit is inside the blocking task: giving up drops no lookup permit.
GiveUpDrops(r) == {}

\* Slip: giving up aborts the lookup.
AbortOnGiveUp(r) == IF pc[r] = "lookup" THEN [task EXCEPT ![r] = "returned"] ELSE task

\* Dropping the JoinHandle only detaches the task.
TaskAfterGiveUp(r) == task

\* The answer takes longer than rdns_timeout: respond without it.
LookupTimedOut(r) ==
  /\ pc[r] = "lookup" /\ task[r] # "returned" /\ timer[r] = 0
  /\ Respond(r, 200, {"rdns_timeouts"})
  /\ DropPermits(r, {"conc"} \cup GiveUpDrops(r))
  /\ task' = TaskAfterGiveUp(r)
  /\ UNCHANGED <<cached, asked>>

\* Slip: the outer timeout never fires.
NoDeadline(r) == FALSE

\* timeout(REQUEST_TIMEOUT, ..) polls the handler first, so it gives up only
\* when the handler is not ready to go on.  When an inner timer ends in the same
\* tick either of the two may be the first: the outer one was armed a little earlier.
DeadlinePassed(r) ==
  /\ deadline[r] = 0
  /\ \/ pc[r] = "waiting" /\ r \notin granted
     \/ pc[r] = "lookup" /\ task[r] # "returned"

\* 504: the handler is dropped where it stands.
RequestTimedOut(r) ==
  /\ DeadlinePassed(r)
  /\ Respond(r, 504, {})
  /\ DropPermits(r, {"conc"} \cup GiveUpDrops(r))
  /\ task' = TaskAfterGiveUp(r)
  /\ UNCHANGED <<cached, asked>>

\* Slip: a dropped waiter forgets the permit that was already on its way.
OwnedAfterPoll(r) == IF pc[r] = "queued" THEN {} ELSE {"conc"}

\* What a request that is dropped at an await owns, the permit included that was
\* assigned to it and that it has not yet seen.
Owned(r) ==
  (IF pc[r] # "queued" \/ r \in granted THEN {"conc"} ELSE {}) \cup
  (IF pc[r] = "waiting" /\ r \in granted THEN {"rdns"} ELSE {})

\* The client goes away and hyper drops the request: nothing is counted.
Disconnect(r) ==
  /\ pc[r] \in Awaits
  /\ pc' = [pc EXCEPT ![r] = "gone"]
  /\ timer' = [timer EXCEPT ![r] = 0]
  /\ deadline' = [deadline EXCEPT ![r] = 0]
  /\ DropPermits(r, Owned(r) \cup GiveUpDrops(r))
  /\ task' = TaskAfterGiveUp(r)
  /\ UNCHANGED <<requestVars, status, age, cached, asked, metrics>>

\* The resolver answers or fails: either result is cached for an hour.
StoreAnswer(r) ==
  /\ task[r] = "running"
  /\ task' = [task EXCEPT ![r] = "stored"]
  /\ cached' = cached \cup {ip[r]}
  /\ UNCHANGED <<pc, requestVars, status, timer, deadline, age, cfree, rfree,
                 granted, asked, metrics>>

\* The blocking task returns and drops its permit.
ReturnLookup(r) ==
  /\ task[r] = "stored"
  /\ task' = [task EXCEPT ![r] = "returned"]
  /\ \E d \in GiveBack(rfree, RdnsWaiters) :
       rfree' = d.free /\ granted' = granted \cup d.to
  /\ UNCHANGED <<pc, requestVars, status, timer, deadline, age, cfree, cached, asked, metrics>>

\* time_to_live or capacity takes an answer out of ptr_cache.
ForgetAnswer(a) ==
  /\ a \in cached
  /\ cached' = cached \ {a}
  /\ asked' = {r \in asked : ip[r] # a}
  /\ UNCHANGED <<pc, requestVars, status, timer, deadline, age, cfree, rfree,
                 granted, task, metrics>>

\* The runtime has something to run for r before it would wait.
Ready(r) ==
  \/ pc[r] \in {"handler", "permitted", "missed"}
  \/ pc[r] \in {"queued", "waiting"} /\ (r \in granted \/ timer[r] = 0)
  \/ pc[r] = "lookup" /\ (task[r] = "returned" \/ timer[r] = 0)
  \/ DeadlinePassed(r)

\* Slip: the timers are built and never armed.
Frozen(n) == n

\* One tick off a timer.
Less(n) == IF n > 0 THEN n - 1 ELSE 0

\* Bound: ages are counted up to one beyond what AnswerInTime allows.
AgeCap == QueueWait + RequestTimeout + 1

Tick ==
  /\ \E r \in Requests : pc[r] \in Awaits
  /\ \A r \in Requests : ~Ready(r)
  /\ timer' = [r \in Requests |-> Less(timer[r])]
  /\ deadline' = [r \in Requests |-> Less(deadline[r])]
  /\ age' = [r \in Requests |-> IF pc[r] \in Awaits /\ age[r] < AgeCap THEN age[r] + 1 ELSE age[r]]
  /\ UNCHANGED <<pc, requestVars, status, cfree, rfree, granted, task, cached, asked, metrics>>

\* What the runtime does for r as soon as it can.
Step(r) ==
  \/ Dequeue(r) \/ Busy(r) \/ HandlePlain(r) \/ HandleTyped(r) \/ AcquireRdns(r)
  \/ GotRdnsPermit(r) \/ SkipRdns(r) \/ RecheckHit(r) \/ RecheckMiss(r)
  \/ SpawnLookup(r) \/ LookupAnswered(r) \/ LookupTimedOut(r) \/ RequestTimedOut(r)

Next ==
  \/ \E r \in Requests : \/ ServeMonitoring(r) \/ RateLimited(r) \/ Arrive(r)
                         \/ Step(r) \/ Disconnect(r)
                         \/ StoreAnswer(r) \/ ReturnLookup(r)
  \/ \E a \in Ips : ForgetAnswer(a)
  \/ Tick

Spec == Init /\ [][Next]_vars

\* The runtime polls what is ready and the clock runs.  Nothing is assumed of
\* clients, and of the resolver only in FairResolver.
Fairness == WF_vars(Tick) /\ \A r \in Requests : WF_vars(Step(r))
FairResolver == \A r \in Requests : WF_vars(StoreAnswer(r)) /\ WF_vars(ReturnLookup(r))

LiveSpec == Spec /\ Fairness

-----------------------------------------------------------------------------
TypeOK ==
  /\ pc \in [Requests -> States]
  /\ path \in [Requests -> {"monitoring", "plain", "typed"}]
  /\ ip \in [Requests -> Ips]
  /\ status \in [Requests -> {0, 200, 401, 404, 429, 503, 504}]
  /\ timer \in [Requests -> Nat]
  /\ deadline \in [Requests -> Nat]
  /\ age \in [Requests -> Nat]
  /\ cfree \in Nat /\ rfree \in Nat
  /\ granted \subseteq Requests
  /\ task \in [Requests -> TaskStates]
  /\ cached \subseteq Ips
  /\ asked \subseteq Requests
  /\ metrics \in [Counters -> Nat]

Working == {"handler", "waiting", "permitted", "missed", "lookup"}
Running == {r \in Requests : task[r] \in {"running", "stored"}}

ConcHolders == {r \in Requests : pc[r] \in Working \/ (pc[r] = "queued" /\ r \in granted)}
RdnsHolders == {r \in Requests : \/ pc[r] \in {"permitted", "missed"}
                                 \/ pc[r] = "waiting" /\ r \in granted
                                 \/ task[r] \in {"running", "stored"}}

\* A permit is only on its way to a waiter, and a request spawns at most one
\* lookup, which may outlive it.
RequestInv ==
  \A r \in Requests :
    /\ r \in granted => pc[r] \in {"queued", "waiting"}
    /\ task[r] # "none" => pc[r] \in {"lookup", "done", "gone"}
    /\ pc[r] = "lookup" => task[r] # "none"

\* However requests end (answered, timed out while their lookup runs on, dropped
\* while a permit was on its way to them), every permit is held by exactly one
\* owner or free: none is lost and none is invented.
PermitAccounting ==
  /\ cfree + Cardinality(ConcHolders) = MaxConcurrency
  /\ rfree + Cardinality(RdnsHolders) = RdnsMax

\* maybe_rdns: "This bounds the number of real blocking lookups (and their
\* threads) to the semaphore, even when callers give up early."
LookupsBounded == Cardinality(Running) <= RdnsMax

\* A waiter is never left waiting beside a free permit.
NoIdlePermit ==
  /\ ConcWaiters # {} => cfree = 0
  /\ RdnsWaiters # {} => rfree = 0

\* 503 is sent only while MAX_CONCURRENCY requests are being served, never
\* because a permit was lost or is on its way to nobody.
BusyOnlyWhenFull ==
  [][\A r \in Requests : status[r] = 0 /\ status'[r] = 503
       => Cardinality(ConcHolders) = MaxConcurrency]_vars

\* No request is unanswered after the queue's wait and the request timeout, also
\* when the resolver never answers.
AnswerInTime == \A r \in Requests : age[r] <= QueueWait + RequestTimeout

\* As long as the two waits of maybe_rdns fit into REQUEST_TIMEOUT with a tick to
\* spare, a slow resolver costs the name and never the whole answer, however long
\* the request had to queue.  (The spare tick stands for what runs between the
\* arming of the outer timer and of the inner ones, and for their rounding.)
NoGatewayTimeout ==
  RdnsWait + RdnsTimeout < RequestTimeout => \A r \in Requests : status[r] # 504

Asking(a) == {r \in asked : ip[r] = a}

\* "Cache the eventual answer even if the request timed out: the next request
\* should not repeat a slow/absent lookup."  Requests that give up may repeat it while
\* it runs, and one may be about to start it when the answer is stored; but until the
\* answer lapses an address is looked up RDNS_MAX_CONCURRENT times at most.
LookupsPerAddress == \A a \in Ips : Cardinality(Asking(a)) <= RdnsMax

Answered(codes) == Cardinality({r \in Requests : status[r] \in codes})

\* Each answered request is counted once and under its own status, a dropped
\* one not at all; each lookup once, and no lookup counts as both timed out and
\* skipped.
MetricsAgree ==
  /\ metrics["requests"] = Cardinality({r \in Requests : pc[r] = "done"})
  /\ metrics["responses_4xx"] = Answered({401, 404, 429})
  /\ metrics["responses_5xx"] = Answered({503, 504})
  /\ metrics["rate_limited"] = Answered({429})
  /\ metrics["rdns_lookups"] = Cardinality({r \in Requests : task[r] # "none"})
  /\ metrics["rdns_timeouts"] <= metrics["rdns_lookups"]
  /\ metrics["rdns_lookups"] + metrics["rdns_skipped"] <=
       Cardinality({r \in Requests : path[r] = "typed" /\ ip[r] \in Nameless})

\* Every request that has arrived is answered or dropped, even if the resolver
\* never returns.
EveryRequestEnds ==
  \A r \in Requests : (pc[r] # "idle") ~> (pc[r] \in Ended)

\* "Cache the eventual answer even if the request timed out": a lookup
\* that was started fills the cache whatever becomes of its request, if the
\* resolver answers.
AnswerEventuallyCached ==
  FairResolver => \A r \in Requests : (task[r] = "running") ~> (ip[r] \in cached)

\* Where concurrency_mw has a request: a permit that is on its way to a waiter is the
\* waiter's already.
Place(r) ==
  CASE pc[r] = "idle" -> "out"
    [] r \in ConcHolders -> "inside"
    [] pc[r] = "queued" /\ r \notin granted -> "waiting"
    [] pc[r] = "done" /\ status[r] = 503 -> "refused"
    [] OTHER -> "ended"

Places == [r \in Requests |-> Place(r)]

Gate == INSTANCE Admission WITH place <- Places

\* The layers implement the abstract gate: whatever is dropped, times out or disconnects
\* at whichever await, places are never exceeded, a freed one goes to a waiter in
\* the same step, and who comes late waits or is refused only because of a full house.
ImplementsAdmission == Gate!Spec
=============================================================================
