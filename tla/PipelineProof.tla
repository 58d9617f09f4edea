--------------------------- MODULE PipelineProof ---------------------------
(***************************************************************************)
(* Proofs about the request pipeline, for any number of requests and       *)
(* permits and any durations: both semaphores account for every permit,    *)
(* every request is answered in time and under its own status, and the     *)
(* counters agree with what happened.                                      *)
(***************************************************************************)
EXTENDS Pipeline, FiniteSetTheorems, TLAPS

\* Taking a permit adds a holder, dropping one removes a holder.
LEMMA CardinalityAdd ==
  ASSUME NEW S, IsFiniteSet(S), NEW w, w \notin S
  PROVE  Cardinality(S \cup {w}) = Cardinality(S) + 1
  BY FS_AddElement

LEMMA CardinalityRemove ==
  ASSUME NEW S, IsFiniteSet(S), NEW r \in S
  PROVE  IsFiniteSet(S \ {r}) /\ Cardinality(S \ {r}) = Cardinality(S) - 1
  BY FS_RemoveElement

\* A permit that passes from r to w leaves the number of holders alone.
LEMMA CardinalitySwap ==
  ASSUME NEW S, IsFiniteSet(S), NEW r \in S, NEW w, w \notin S
  PROVE  Cardinality((S \ {r}) \cup {w}) = Cardinality(S)
  <1>1. IsFiniteSet(S \ {r}) /\ Cardinality(S \ {r}) = Cardinality(S) - 1
    BY CardinalityRemove
  <1>2. Cardinality((S \ {r}) \cup {w}) = Cardinality(S \ {r}) + 1
    BY <1>1, CardinalityAdd
  <1>3. Cardinality(S) \in Nat
    BY FS_CardinalityType
  <1> QED
    BY <1>1, <1>2, <1>3

LEMMA HoldersFinite ==
  /\ IsFiniteSet(ConcHolders) /\ Cardinality(ConcHolders) \in Nat
  /\ IsFiniteSet(RdnsHolders) /\ Cardinality(RdnsHolders) \in Nat
  <1>1. ConcHolders \subseteq Requests /\ RdnsHolders \subseteq Requests
    BY DEF ConcHolders, RdnsHolders
  <1> QED
    BY <1>1, RequestsAssumption, FS_Subset, FS_CardinalityType

\* What dropping a permit may come to.
Passed(free, freeNext, waiters, to) ==
  \/ to = {} /\ freeNext = free + 1
  \/ (\E w \in waiters : to = {w}) /\ freeNext = free

\* The permits r owns itself, not through its task.
Owner(r, owned) ==
  /\ "conc" \in owned <=> r \in ConcHolders
  /\ "rdns" \in owned <=> (pc[r] \in {"permitted", "missed"} \/ (pc[r] = "waiting" /\ r \in granted))

\* A step that ends request r and drops what it owns keeps the accounts.
LEMMA EndStep ==
  ASSUME TypeOK, RequestInv, PermitAccounting,
         NEW r \in Requests, NEW owned, Owner(r, owned),
         NEW end \in Ended, pc' = [pc EXCEPT ![r] = end],
         DropPermits(r, owned), task' = task
  PROVE  RequestInv' /\ PermitAccounting' /\ cfree' \in Nat /\ rfree' \in Nat
         /\ granted' \subseteq Requests
  <1>1. PICK C \in SUBSET (ConcWaiters \ {r}), D \in SUBSET (RdnsWaiters \ {r}) :
           /\ granted' = (granted \ {r}) \cup C \cup D
           /\ IF "conc" \in owned THEN Passed(cfree, cfree', ConcWaiters \ {r}, C) ELSE C = {} /\ cfree' = cfree
           /\ IF "rdns" \in owned THEN Passed(rfree, rfree', RdnsWaiters \ {r}, D) ELSE D = {} /\ rfree' = rfree
    <2>1. PICK c \in IF "conc" \in owned THEN GiveBack(cfree, ConcWaiters \ {r}) ELSE Keep(cfree),
               d \in IF "rdns" \in owned THEN GiveBack(rfree, RdnsWaiters \ {r}) ELSE Keep(rfree) :
            cfree' = c.free /\ rfree' = d.free /\ granted' = (granted \ {r}) \cup c.to \cup d.to
      BY DEF DropPermits
    <2>2. /\ c.to \subseteq ConcWaiters \ {r}
          /\ IF "conc" \in owned THEN Passed(cfree, c.free, ConcWaiters \ {r}, c.to) ELSE c.to = {} /\ c.free = cfree
      BY DEF GiveBack, Keep, Passed
    <2>3. /\ d.to \subseteq RdnsWaiters \ {r}
          /\ IF "rdns" \in owned THEN Passed(rfree, d.free, RdnsWaiters \ {r}, d.to) ELSE d.to = {} /\ d.free = rfree
      BY DEF GiveBack, Keep, Passed
    <2> QED
      BY <2>1, <2>2, <2>3
  <1>2. \A s \in Requests : s # r => pc'[s] = pc[s]
    BY DEF TypeOK
  <1>3. pc'[r] \in Ended /\ r \notin granted' /\ r \notin C /\ r \notin D
    BY <1>1 DEF TypeOK
  <1>4. \A s \in C : s \in Requests /\ pc[s] = "queued" /\ s \notin granted /\ s \notin ConcHolders
    BY <1>1 DEF ConcWaiters, ConcHolders, Working
  <1>5. \A s \in D : s \in Requests /\ pc[s] = "waiting" /\ s \notin granted
    BY <1>1 DEF RdnsWaiters
  <1>6. \A s \in D : s \notin RdnsHolders
    BY <1>5 DEF RdnsHolders, RequestInv
  <1>7. RequestInv'
    BY <1>1, <1>2, <1>3, <1>4, <1>5 DEF RequestInv, Ended
  <1>8. ConcHolders' = (ConcHolders \ {r}) \cup C
    BY <1>1, <1>2, <1>3, <1>4, <1>5 DEF ConcHolders, Working, Ended
  <1>9. RdnsHolders' = IF "rdns" \in owned THEN (RdnsHolders \ {r}) \cup D ELSE RdnsHolders
    <2>1. ASSUME NEW s \in Requests, s # r
          PROVE  s \in RdnsHolders' <=> s \in RdnsHolders \/ s \in D
      BY <1>1, <1>2, <1>4, <1>5, <2>1 DEF RdnsHolders
    <2>2. r \in RdnsHolders' <=> task[r] \in {"running", "stored"}
      BY <1>3 DEF RdnsHolders, Ended
    <2>3. "rdns" \in owned => task[r] = "none" /\ r \in RdnsHolders
      BY DEF Owner, RequestInv, RdnsHolders, TypeOK
    <2>4. "rdns" \notin owned => (r \in RdnsHolders <=> task[r] \in {"running", "stored"})
      BY DEF Owner, RdnsHolders
    <2>5. RdnsHolders \subseteq Requests /\ RdnsHolders' \subseteq Requests
      BY DEF RdnsHolders
    <2>6. CASE "rdns" \in owned
      BY <2>1, <2>2, <2>3, <2>5, <2>6, <1>3, <1>5
    <2>7. CASE "rdns" \notin owned
      BY <2>1, <2>2, <2>4, <2>5, <2>7, <1>1
    <2> QED
      BY <2>6, <2>7
  <1>10. cfree' \in Nat /\ cfree' + Cardinality(ConcHolders') = MaxConcurrency
    <2>1. CASE "conc" \notin owned
      <3>1. ConcHolders' = ConcHolders /\ cfree' = cfree
        BY <1>1, <1>8, <2>1 DEF Owner
      <3> QED
        BY <3>1 DEF PermitAccounting, TypeOK
    <2>2. CASE "conc" \in owned /\ C = {} /\ cfree' = cfree + 1
      <3>1. ConcHolders' = ConcHolders \ {r} /\ r \in ConcHolders
        BY <1>8, <2>2 DEF Owner
      <3>2. Cardinality(ConcHolders') = Cardinality(ConcHolders) - 1
        BY <3>1, HoldersFinite, CardinalityRemove
      <3> QED
        BY <2>2, <3>2, HoldersFinite, PermitsAssumption DEF PermitAccounting, TypeOK
    <2>3. ASSUME "conc" \in owned, NEW w \in ConcWaiters \ {r}, C = {w}, cfree' = cfree
          PROVE  cfree' \in Nat /\ cfree' + Cardinality(ConcHolders') = MaxConcurrency
      <3>1. ConcHolders' = (ConcHolders \ {r}) \cup {w} /\ r \in ConcHolders /\ w \notin ConcHolders
        BY <1>4, <1>8, <2>3 DEF Owner
      <3>2. Cardinality(ConcHolders') = Cardinality(ConcHolders)
        BY <3>1, HoldersFinite, CardinalitySwap
      <3> QED
        BY <2>3, <3>2 DEF PermitAccounting, TypeOK
    <2> QED
      BY <1>1, <2>1, <2>2, <2>3 DEF Passed
  <1>11. rfree' \in Nat /\ rfree' + Cardinality(RdnsHolders') = RdnsMax
    <2>1. CASE "rdns" \notin owned
      <3>1. RdnsHolders' = RdnsHolders /\ rfree' = rfree
        BY <1>1, <1>9, <2>1
      <3> QED
        BY <3>1 DEF PermitAccounting, TypeOK
    <2>0. "rdns" \in owned => r \in RdnsHolders
      BY DEF Owner, RdnsHolders
    <2>2. CASE "rdns" \in owned /\ D = {} /\ rfree' = rfree + 1
      <3>1. RdnsHolders' = RdnsHolders \ {r} /\ r \in RdnsHolders
        BY <1>9, <2>0, <2>2
      <3>2. Cardinality(RdnsHolders') = Cardinality(RdnsHolders) - 1
        BY <3>1, HoldersFinite, CardinalityRemove
      <3> QED
        BY <2>2, <3>2, HoldersFinite, PermitsAssumption DEF PermitAccounting, TypeOK
    <2>3. ASSUME "rdns" \in owned, NEW w \in RdnsWaiters \ {r}, D = {w}, rfree' = rfree
          PROVE  rfree' \in Nat /\ rfree' + Cardinality(RdnsHolders') = RdnsMax
      <3>1. RdnsHolders' = (RdnsHolders \ {r}) \cup {w} /\ r \in RdnsHolders /\ w \notin RdnsHolders
        BY <1>6, <1>9, <2>0, <2>3
      <3>2. Cardinality(RdnsHolders') = Cardinality(RdnsHolders)
        BY <3>1, HoldersFinite, CardinalitySwap
      <3> QED
        BY <2>3, <3>2 DEF PermitAccounting, TypeOK
    <2> QED
      BY <1>1, <2>1, <2>2, <2>3 DEF Passed
  <1>12. granted' \subseteq Requests
    BY <1>1, <1>4, <1>5 DEF TypeOK
  <1> QED
    BY <1>7, <1>10, <1>11, <1>12 DEF PermitAccounting

\* metrics_mw and the other counters only ever grow.
LEMMA BumpType ==
  ASSUME NEW m \in [Counters -> Nat], NEW names
  PROVE  Bump(m, names) \in [Counters -> Nat]
  BY DEF Bump

\* What Respond leaves well typed.
LEMMA RespondType ==
  ASSUME TypeOK, NEW r \in Requests, NEW code \in {200, 401, 404, 429, 503, 504},
         NEW events, Respond(r, code, events)
  PROVE  /\ pc' \in [Requests -> States] /\ pc' = [pc EXCEPT ![r] = "done"]
         /\ status' \in [Requests -> {0, 200, 401, 404, 429, 503, 504}]
         /\ timer' \in [Requests -> Nat] /\ deadline' \in [Requests -> Nat]
         /\ metrics' \in [Counters -> Nat]
         /\ UNCHANGED <<path, ip, age>>
  <1>1. Bump(metrics, events) \in [Counters -> Nat]
    BY BumpType DEF TypeOK
  <1>2. metrics' \in [Counters -> Nat]
    BY <1>1, BumpType DEF Respond
  <1> QED
    BY <1>2 DEF Respond, TypeOK, States, requestVars

\* Request r is answered and drops the permits it owns.
LEMMA AnswerStep ==
  ASSUME TypeOK, RequestInv, PermitAccounting,
         NEW r \in Requests, NEW owned, Owner(r, owned),
         NEW code \in {200, 401, 404, 429, 503, 504}, NEW events,
         Respond(r, code, events), DropPermits(r, owned), task' = task, cached' = cached, asked' = asked
  PROVE  TypeOK' /\ RequestInv' /\ PermitAccounting'
  <1>1. /\ pc' \in [Requests -> States] /\ pc' = [pc EXCEPT ![r] = "done"]
        /\ status' \in [Requests -> {0, 200, 401, 404, 429, 503, 504}]
        /\ timer' \in [Requests -> Nat] /\ deadline' \in [Requests -> Nat]
        /\ metrics' \in [Counters -> Nat]
        /\ UNCHANGED <<path, ip, age>>
    BY RespondType
  <1>2. RequestInv' /\ PermitAccounting' /\ cfree' \in Nat /\ rfree' \in Nat
        /\ granted' \subseteq Requests
    BY <1>1, EndStep DEF Ended
  <1> QED
    BY <1>1, <1>2 DEF TypeOK

\* The same when r owns no permit and none moves.
LEMMA RefuseStep ==
  ASSUME TypeOK, RequestInv, PermitAccounting, NEW r \in Requests,
         r \notin granted, pc[r] \in {"idle", "queued"}, 
         NEW code \in {200, 401, 404, 429, 503, 504}, NEW events,
         Respond(r, code, events), UNCHANGED <<cfree, rfree, granted, task, cached, asked>>
  PROVE  TypeOK' /\ RequestInv' /\ PermitAccounting'
  <1>1. /\ pc' \in [Requests -> States] /\ pc' = [pc EXCEPT ![r] = "done"]
        /\ status' \in [Requests -> {0, 200, 401, 404, 429, 503, 504}]
        /\ timer' \in [Requests -> Nat] /\ deadline' \in [Requests -> Nat]
        /\ metrics' \in [Counters -> Nat]
        /\ UNCHANGED <<path, ip, age>>
    BY RespondType
  <1>2. pc'[r] = "done" /\ \A s \in Requests : s # r => pc'[s] = pc[s]
    BY <1>1 DEF TypeOK
  <1>3. ConcHolders' = ConcHolders /\ RdnsHolders' = RdnsHolders
    BY <1>2 DEF ConcHolders, RdnsHolders, Working
  <1>4. PermitAccounting'
    BY <1>3 DEF PermitAccounting
  <1>5. RequestInv'
    BY <1>2 DEF RequestInv
  <1>6. TypeOK'
    BY <1>1 DEF TypeOK
  <1> QED
    BY <1>4, <1>5, <1>6

LEMMA PipelineStep ==
  ASSUME TypeOK, RequestInv, PermitAccounting, [Next]_vars
  PROVE  TypeOK' /\ RequestInv' /\ PermitAccounting'
  <1>1. ASSUME NEW r \in Requests, ServeMonitoring(r)
        PROVE  TypeOK' /\ RequestInv' /\ PermitAccounting'
    BY <1>1, RefuseStep DEF ServeMonitoring, RequestInv
  <1>2. ASSUME NEW r \in Requests, RateLimited(r)
        PROVE  TypeOK' /\ RequestInv' /\ PermitAccounting'
    BY <1>2, RefuseStep DEF RateLimited, RequestInv
  <1>3. ASSUME NEW r \in Requests, Busy(r)
        PROVE  TypeOK' /\ RequestInv' /\ PermitAccounting'
    BY <1>3, RefuseStep DEF Busy
  <1>4. ASSUME NEW r \in Requests, HandlePlain(r)
        PROVE  TypeOK' /\ RequestInv' /\ PermitAccounting'
    <2>1. Owner(r, {"conc"})
      BY <1>4 DEF HandlePlain, Owner, ConcHolders, Working
    <2> QED
      BY <1>4, <2>1, AnswerStep DEF HandlePlain
  <1>5. ASSUME NEW r \in Requests, HandleTyped(r)
        PROVE  TypeOK' /\ RequestInv' /\ PermitAccounting'
    <2>1. Owner(r, {"conc"})
      BY <1>5 DEF HandleTyped, Owner, ConcHolders, Working
    <2> QED
      BY <1>5, <2>1, AnswerStep DEF HandleTyped
  <1>6. ASSUME NEW r \in Requests, SkipRdns(r)
        PROVE  TypeOK' /\ RequestInv' /\ PermitAccounting'
    <2>1. Owner(r, {"conc"})
      BY <1>6 DEF SkipRdns, Owner, ConcHolders, Working
    <2> QED
      BY <1>6, <2>1, AnswerStep DEF SkipRdns
  <1>7. ASSUME NEW r \in Requests, RecheckHit(r)
        PROVE  TypeOK' /\ RequestInv' /\ PermitAccounting'
    <2>1. Owner(r, {"conc", "rdns"})
      BY <1>7 DEF RecheckHit, Owner, ConcHolders, Working
    <2> QED
      BY <1>7, <2>1, AnswerStep DEF RecheckHit
  <1>8. ASSUME NEW r \in Requests, LookupAnswered(r)
        PROVE  TypeOK' /\ RequestInv' /\ PermitAccounting'
    <2>1. Owner(r, {"conc"})
      BY <1>8 DEF LookupAnswered, Owner, ConcHolders, Working
    <2> QED
      BY <1>8, <2>1, AnswerStep DEF LookupAnswered
  <1>9. ASSUME NEW r \in Requests, LookupTimedOut(r)
        PROVE  TypeOK' /\ RequestInv' /\ PermitAccounting'
    <2>1. Owner(r, {"conc"} \cup GiveUpDrops(r))
      BY <1>9 DEF LookupTimedOut, Owner, ConcHolders, Working, GiveUpDrops, TaskAfterGiveUp
    <2> QED
      BY <1>9, <2>1, AnswerStep DEF LookupTimedOut, GiveUpDrops, TaskAfterGiveUp
  <1>10. ASSUME NEW r \in Requests, RequestTimedOut(r)
        PROVE  TypeOK' /\ RequestInv' /\ PermitAccounting'
    <2>1. Owner(r, {"conc"} \cup GiveUpDrops(r))
      BY <1>10 DEF RequestTimedOut, Owner, ConcHolders, Working, DeadlinePassed, GiveUpDrops, TaskAfterGiveUp
    <2> QED
      BY <1>10, <2>1, AnswerStep DEF RequestTimedOut, DeadlinePassed, GiveUpDrops, TaskAfterGiveUp
  <1>11. ASSUME NEW r \in Requests, Disconnect(r)
         PROVE  TypeOK' /\ RequestInv' /\ PermitAccounting'
    <2>1. Owner(r, Owned(r) \cup GiveUpDrops(r))
      BY <1>11 DEF Disconnect, Awaits, Owner, Owned, GiveUpDrops, ConcHolders, Working
    <2>2. /\ pc' = [pc EXCEPT ![r] = "gone"] /\ task' = task
          /\ DropPermits(r, Owned(r) \cup GiveUpDrops(r))
      BY <1>11 DEF Disconnect, TaskAfterGiveUp
    <2>3. RequestInv' /\ PermitAccounting' /\ cfree' \in Nat /\ rfree' \in Nat
          /\ granted' \subseteq Requests
      BY <2>1, <2>2, EndStep DEF Ended
    <2>4. TypeOK'
      BY <1>11, <2>2, <2>3 DEF Disconnect, TypeOK, States, requestVars
    <2> QED
      BY <2>3, <2>4
  <1>12. ASSUME NEW r \in Requests, Arrive(r)
         PROVE  TypeOK' /\ RequestInv' /\ PermitAccounting'
    <2>1. r \notin granted /\ task[r] = "none" /\ r \notin ConcHolders
      BY <1>12 DEF Arrive, RequestInv, TypeOK, ConcHolders, Working
    <2>2. CASE cfree > 0
      <3>1. /\ pc' = [pc EXCEPT ![r] = "handler"] /\ cfree' = cfree - 1
            /\ deadline' = [deadline EXCEPT ![r] = RequestTimeout]
            /\ UNCHANGED <<timer, path, ip, status, age, rfree, granted, task, cached, asked, metrics>>
        BY <1>12, <2>2 DEF Arrive, requestVars, TimeToServe
      <3>2. pc'[r] = "handler" /\ \A s \in Requests : s # r => pc'[s] = pc[s]
        BY <3>1 DEF TypeOK
      <3>3. ConcHolders' = ConcHolders \cup {r} /\ RdnsHolders' = RdnsHolders
        BY <1>12, <2>1, <3>1, <3>2 DEF Arrive, ConcHolders, RdnsHolders, Working
      <3>4. Cardinality(ConcHolders') = Cardinality(ConcHolders) + 1
        BY <2>1, <3>3, HoldersFinite, CardinalityAdd
      <3>5. PermitAccounting'
        BY <3>1, <3>3, <3>4, HoldersFinite, PermitsAssumption DEF PermitAccounting, TypeOK
      <3>6. RequestInv'
        BY <2>1, <3>1, <3>2 DEF RequestInv
      <3>7. TypeOK'
        BY <2>2, <3>1, DurationsAssumption DEF TypeOK, States
      <3> QED
        BY <3>5, <3>6, <3>7
    <2>3. CASE ~(cfree > 0)
      <3>1. /\ pc' = [pc EXCEPT ![r] = "queued"]
            /\ timer' = [timer EXCEPT ![r] = QueueWait]
            /\ UNCHANGED <<cfree, deadline, path, ip, status, age, rfree, granted, task, cached, asked, metrics>>
        BY <1>12, <2>3 DEF Arrive, requestVars
      <3>2. pc'[r] = "queued" /\ \A s \in Requests : s # r => pc'[s] = pc[s]
        BY <3>1 DEF TypeOK
      <3>3. ConcHolders' = ConcHolders /\ RdnsHolders' = RdnsHolders
        BY <1>12, <2>1, <3>1, <3>2 DEF Arrive, ConcHolders, RdnsHolders, Working
      <3>4. PermitAccounting'
        BY <3>1, <3>3 DEF PermitAccounting
      <3>5. RequestInv'
        BY <2>1, <3>1, <3>2 DEF RequestInv
      <3>6. TypeOK'
        BY <3>1, DurationsAssumption DEF TypeOK, States
      <3> QED
        BY <3>4, <3>5, <3>6
    <2> QED
      BY <2>2, <2>3
  <1>13. ASSUME NEW r \in Requests, Dequeue(r)
         PROVE  TypeOK' /\ RequestInv' /\ PermitAccounting'
    <2>1. pc'[r] = "handler" /\ \A s \in Requests : s # r => pc'[s] = pc[s]
      BY <1>13 DEF Dequeue, TypeOK
    <2>2. task[r] = "none"
      BY <1>13 DEF Dequeue, RequestInv, TypeOK
    <2>3. ConcHolders' = ConcHolders /\ RdnsHolders' = RdnsHolders
      BY <1>13, <2>1 DEF Dequeue, ConcHolders, RdnsHolders, Working
    <2>4. PermitAccounting'
      BY <1>13, <2>3 DEF Dequeue, PermitAccounting
    <2>5. RequestInv'
      BY <1>13, <2>1, <2>2 DEF Dequeue, RequestInv
    <2>6. TypeOK'
      BY <1>13, DurationsAssumption DEF Dequeue, TimeToServe, TypeOK, States, requestVars
    <2> QED
      BY <2>4, <2>5, <2>6
  <1>14. ASSUME NEW r \in Requests, AcquireRdns(r)
         PROVE  TypeOK' /\ RequestInv' /\ PermitAccounting'
    <2>1. r \notin granted /\ task[r] = "none" /\ r \notin RdnsHolders
      BY <1>14 DEF AcquireRdns, RequestInv, TypeOK, RdnsHolders
    <2>2. CASE rfree > 0
      <3>1. /\ pc' = [pc EXCEPT ![r] = "permitted"] /\ rfree' = rfree - 1
            /\ UNCHANGED <<timer, path, ip, status, deadline, age, cfree, granted, task, cached, asked, metrics>>
        BY <1>14, <2>2 DEF AcquireRdns, requestVars
      <3>2. pc'[r] = "permitted" /\ \A s \in Requests : s # r => pc'[s] = pc[s]
        BY <3>1 DEF TypeOK
      <3>3. RdnsHolders' = RdnsHolders \cup {r} /\ ConcHolders' = ConcHolders
        BY <1>14, <2>1, <3>1, <3>2 DEF AcquireRdns, ConcHolders, RdnsHolders, Working
      <3>4. Cardinality(RdnsHolders') = Cardinality(RdnsHolders) + 1
        BY <2>1, <3>3, HoldersFinite, CardinalityAdd
      <3>5. PermitAccounting'
        BY <3>1, <3>3, <3>4, HoldersFinite, PermitsAssumption DEF PermitAccounting, TypeOK
      <3>6. RequestInv'
        BY <2>1, <3>1, <3>2 DEF RequestInv
      <3>7. TypeOK'
        BY <2>2, <3>1 DEF TypeOK, States
      <3> QED
        BY <3>5, <3>6, <3>7
    <2>3. CASE ~(rfree > 0)
      <3>1. /\ pc' = [pc EXCEPT ![r] = "waiting"]
            /\ timer' = [timer EXCEPT ![r] = RdnsWait]
            /\ UNCHANGED <<rfree, path, ip, status, deadline, age, cfree, granted, task, cached, asked, metrics>>
        BY <1>14, <2>3 DEF AcquireRdns, requestVars
      <3>2. pc'[r] = "waiting" /\ \A s \in Requests : s # r => pc'[s] = pc[s]
        BY <3>1 DEF TypeOK
      <3>3. RdnsHolders' = RdnsHolders /\ ConcHolders' = ConcHolders
        BY <1>14, <2>1, <3>1, <3>2 DEF AcquireRdns, ConcHolders, RdnsHolders, Working
      <3>4. PermitAccounting'
        BY <3>1, <3>3 DEF PermitAccounting
      <3>5. RequestInv'
        BY <2>1, <3>1, <3>2 DEF RequestInv
      <3>6. TypeOK'
        BY <3>1, DurationsAssumption DEF TypeOK, States
      <3> QED
        BY <3>4, <3>5, <3>6
    <2> QED
      BY <2>2, <2>3
  <1>15. ASSUME NEW r \in Requests, GotRdnsPermit(r)
         PROVE  TypeOK' /\ RequestInv' /\ PermitAccounting'
    <2>1. pc'[r] = "permitted" /\ \A s \in Requests : s # r => pc'[s] = pc[s]
      BY <1>15 DEF GotRdnsPermit, TypeOK
    <2>2. task[r] = "none"
      BY <1>15 DEF GotRdnsPermit, RequestInv, TypeOK
    <2>3. ConcHolders' = ConcHolders /\ RdnsHolders' = RdnsHolders
      BY <1>15, <2>1 DEF GotRdnsPermit, ConcHolders, RdnsHolders, Working
    <2>4. PermitAccounting'
      BY <1>15, <2>3 DEF GotRdnsPermit, PermitAccounting
    <2>5. RequestInv'
      BY <1>15, <2>1, <2>2 DEF GotRdnsPermit, RequestInv
    <2>6. TypeOK'
      BY <1>15 DEF GotRdnsPermit, TypeOK, States, requestVars
    <2> QED
      BY <2>4, <2>5, <2>6
  <1>16. ASSUME NEW r \in Requests, SpawnLookup(r)
         PROVE  TypeOK' /\ RequestInv' /\ PermitAccounting'
    <2>1. /\ pc'[r] = "lookup" /\ task'[r] = "running"
          /\ \A s \in Requests : s # r => pc'[s] = pc[s] /\ task'[s] = task[s]
      BY <1>16 DEF SpawnLookup, TypeOK
    <2>2. ConcHolders' = ConcHolders /\ RdnsHolders' = RdnsHolders
      BY <1>16, <2>1 DEF SpawnLookup, ConcHolders, RdnsHolders, Working
    <2>3. PermitAccounting'
      BY <1>16, <2>2 DEF SpawnLookup, PermitAccounting
    <2>4. RequestInv'
      BY <1>16, <2>1 DEF SpawnLookup, RequestInv
    <2>5. metrics' \in [Counters -> Nat]
      BY <1>16, BumpType DEF SpawnLookup, TypeOK
    <2>6. TypeOK'
      BY <1>16, <2>5, DurationsAssumption DEF SpawnLookup, TypeOK, States, TaskStates, requestVars
    <2> QED
      BY <2>3, <2>4, <2>6
  <1>17. ASSUME NEW r \in Requests, StoreAnswer(r)
         PROVE  TypeOK' /\ RequestInv' /\ PermitAccounting'
    <2>1. task'[r] = "stored" /\ \A s \in Requests : s # r => task'[s] = task[s]
      BY <1>17 DEF StoreAnswer, TypeOK
    <2>2. ConcHolders' = ConcHolders /\ RdnsHolders' = RdnsHolders
      BY <1>17, <2>1 DEF StoreAnswer, ConcHolders, RdnsHolders
    <2>3. PermitAccounting'
      BY <1>17, <2>2 DEF StoreAnswer, PermitAccounting
    <2>4. RequestInv'
      BY <1>17, <2>1 DEF StoreAnswer, RequestInv
    <2>5. TypeOK'
      BY <1>17 DEF StoreAnswer, TypeOK, TaskStates, requestVars
    <2> QED
      BY <2>3, <2>4, <2>5
  <1>18. ASSUME NEW r \in Requests, ReturnLookup(r)
         PROVE  TypeOK' /\ RequestInv' /\ PermitAccounting'
    <2>1. PICK D \in SUBSET RdnsWaiters :
            granted' = granted \cup D /\ Passed(rfree, rfree', RdnsWaiters, D)
      <3>1. PICK d \in GiveBack(rfree, RdnsWaiters) :
              rfree' = d.free /\ granted' = granted \cup d.to
        BY <1>18 DEF ReturnLookup
      <3>2. d.to \subseteq RdnsWaiters /\ Passed(rfree, d.free, RdnsWaiters, d.to)
        BY DEF GiveBack, Passed
      <3> QED
        BY <3>1, <3>2
    <2>2. task[r] = "stored" /\ task'[r] = "returned" /\ \A s \in Requests : s # r => task'[s] = task[s]
      BY <1>18 DEF ReturnLookup, TypeOK
    <2>3. UNCHANGED <<pc, path, ip, status, timer, deadline, age, cfree, cached, asked, metrics>>
      BY <1>18 DEF ReturnLookup, requestVars
    <2>4. \A s \in D : /\ s \in Requests /\ pc[s] = "waiting" /\ s \notin granted
                       /\ task[s] = "none" /\ s \notin RdnsHolders /\ s # r
      BY <2>1, <2>2 DEF RdnsWaiters, RequestInv, TypeOK, RdnsHolders
    <2>5. RequestInv'
      BY <2>1, <2>2, <2>3, <2>4 DEF RequestInv
    <2>6. ConcHolders' = ConcHolders
      BY <2>1, <2>3, <2>4 DEF ConcHolders, Working
    <2>7. r \in RdnsHolders /\ RdnsHolders' = (RdnsHolders \ {r}) \cup D
      <3>1. pc[r] \in {"lookup", "done", "gone"}
        BY <2>2 DEF RequestInv
      <3> QED
        BY <2>1, <2>2, <2>3, <2>4, <3>1 DEF RdnsHolders
    <2>8. rfree' \in Nat /\ rfree' + Cardinality(RdnsHolders') = RdnsMax
      <3>1. CASE D = {} /\ rfree' = rfree + 1
        <4>1. Cardinality(RdnsHolders') = Cardinality(RdnsHolders) - 1
          <5>1. RdnsHolders' = RdnsHolders \ {r}
            BY <2>7, <3>1
          <5> QED
            BY <2>7, <5>1, HoldersFinite, CardinalityRemove
        <4> QED
          BY <3>1, <4>1, HoldersFinite, PermitsAssumption DEF PermitAccounting, TypeOK
      <3>2. ASSUME NEW w \in RdnsWaiters, D = {w}, rfree' = rfree
            PROVE  rfree' \in Nat /\ rfree' + Cardinality(RdnsHolders') = RdnsMax
        <4>1. Cardinality(RdnsHolders') = Cardinality(RdnsHolders)
          <5>1. RdnsHolders' = (RdnsHolders \ {r}) \cup {w} /\ w \notin RdnsHolders
            BY <2>4, <2>7, <3>2
          <5> QED
            BY <2>7, <5>1, HoldersFinite, CardinalitySwap
        <4> QED
          BY <3>2, <4>1 DEF PermitAccounting, TypeOK
      <3> QED
        BY <2>1, <3>1, <3>2 DEF Passed
    <2>9. PermitAccounting'
      BY <2>3, <2>6, <2>8 DEF PermitAccounting
    <2>10. TypeOK'
      BY <1>18, <2>1, <2>3, <2>4, <2>8 DEF ReturnLookup, TypeOK, TaskStates
    <2> QED
      BY <2>5, <2>9, <2>10
  <1>19. ASSUME NEW a \in Ips, ForgetAnswer(a)
         PROVE  TypeOK' /\ RequestInv' /\ PermitAccounting'
    <2>1. UNCHANGED <<pc, path, ip, status, timer, deadline, age, cfree, rfree, granted, task, metrics>>
      BY <1>19 DEF ForgetAnswer, requestVars
    <2>2. TypeOK' /\ RequestInv'
      BY <1>19, <2>1 DEF ForgetAnswer, TypeOK, RequestInv
    <2>3. PermitAccounting'
      BY <2>1 DEF PermitAccounting, ConcHolders, RdnsHolders
    <2> QED
      BY <2>2, <2>3
  <1>20. CASE Tick
    <2>1. UNCHANGED <<pc, path, ip, status, cfree, rfree, granted, task, cached, asked, metrics>>
      BY <1>20 DEF Tick, requestVars
    <2>2. TypeOK'
      BY <1>20, <2>1, DurationsAssumption DEF Tick, TypeOK, Less, AgeCap
    <2>3. RequestInv'
      BY <2>1 DEF RequestInv
    <2>4. PermitAccounting'
      BY <2>1 DEF PermitAccounting, ConcHolders, RdnsHolders
    <2> QED
      BY <2>2, <2>3, <2>4
  <1>21. CASE UNCHANGED vars
    <2>1. TypeOK' /\ RequestInv'
      BY <1>21 DEF vars, requestVars, TypeOK, RequestInv
    <2>2. PermitAccounting'
      BY <1>21 DEF vars, PermitAccounting, ConcHolders, RdnsHolders
    <2> QED
      BY <2>1, <2>2
  <1>22. ASSUME NEW r \in Requests, RecheckMiss(r)
         PROVE  TypeOK' /\ RequestInv' /\ PermitAccounting'
    <2>1. pc'[r] = "missed" /\ \A s \in Requests : s # r => pc'[s] = pc[s]
      BY <1>22 DEF RecheckMiss, TypeOK
    <2>2. ConcHolders' = ConcHolders /\ RdnsHolders' = RdnsHolders
      BY <1>22, <2>1 DEF RecheckMiss, ConcHolders, RdnsHolders, Working
    <2>3. PermitAccounting'
      BY <1>22, <2>2 DEF RecheckMiss, PermitAccounting
    <2>4. RequestInv'
      BY <1>22, <2>1 DEF RecheckMiss, RequestInv
    <2>5. TypeOK'
      BY <1>22 DEF RecheckMiss, TypeOK, States, requestVars
    <2> QED
      BY <2>3, <2>4, <2>5
  <1> QED
    BY <1>1, <1>2, <1>3, <1>4, <1>5, <1>6, <1>7, <1>8, <1>9, <1>10, <1>11, <1>12, <1>13,
       <1>14, <1>15, <1>16, <1>17, <1>18, <1>19, <1>20, <1>21, <1>22 DEF Next, Step

\* At the start both semaphores are full and nobody holds a permit.
LEMMA PipelineInit ==
  ASSUME Init
  PROVE  TypeOK /\ RequestInv /\ PermitAccounting
  <1>1. TypeOK
    BY PermitsAssumption DEF Init, TypeOK, States, TaskStates
  <1>2. RequestInv
    BY DEF Init, RequestInv
  <1>3. ConcHolders = {} /\ RdnsHolders = {}
    BY DEF Init, ConcHolders, RdnsHolders, Working
  <1>4. PermitAccounting
    BY <1>3, FS_EmptySet, PermitsAssumption DEF Init, PermitAccounting
  <1> QED
    BY <1>1, <1>2, <1>4

\* The inductive invariant: the accounts balance because a permit is only ever
\* on its way to a waiter and a lookup has left its request behind or not.
THEOREM PipelineInvariant == Spec => [](TypeOK /\ RequestInv /\ PermitAccounting)
  <1>1. Init => TypeOK /\ RequestInv /\ PermitAccounting
    BY PipelineInit
  <1>2. TypeOK /\ RequestInv /\ PermitAccounting /\ [Next]_vars
        => (TypeOK /\ RequestInv /\ PermitAccounting)'
    BY PipelineStep
  <1> QED
    BY <1>1, <1>2, PTL DEF Spec

\* Every reachable state of the pipeline is well typed: no permit count and no
\* timer goes below zero.
THEOREM PipelineTypeOK == Spec => []TypeOK
  BY PipelineInvariant, PTL

\* concurrency_mw and maybe_rdns: however requests end, every permit has exactly
\* one owner or is free.
THEOREM PermitsAccounted == Spec => []PermitAccounting
  BY PipelineInvariant, PTL

\* maybe_rdns: never more than RDNS_MAX_CONCURRENT blocking lookups run, those
\* included whose request was answered or dropped long ago.
THEOREM LookupsAreBounded == Spec => []LookupsBounded
  <1>1. TypeOK /\ PermitAccounting => LookupsBounded
    <2> SUFFICES ASSUME TypeOK, PermitAccounting
                 PROVE  Cardinality(Running) <= RdnsMax
      BY DEF LookupsBounded
    <2>1. Running \subseteq RdnsHolders
      BY DEF Running, RdnsHolders
    <2>2. Cardinality(Running) <= Cardinality(RdnsHolders) /\ IsFiniteSet(Running)
      BY <2>1, HoldersFinite, FS_Subset
    <2>3. Cardinality(Running) \in Nat
      BY <2>2, FS_CardinalityType
    <2> QED
      BY <2>2, <2>3, HoldersFinite, PermitsAssumption DEF PermitAccounting, TypeOK
  <1> QED
    BY <1>1, PipelineInvariant, PTL

\* A step that adds no waiter and frees no permit leaves none idle.
LEMMA NoNewWaiter ==
  ASSUME NoIdlePermit, cfree' = cfree, rfree' = rfree,
         ConcWaiters' \subseteq ConcWaiters, RdnsWaiters' \subseteq RdnsWaiters
  PROVE  NoIdlePermit'
  BY DEF NoIdlePermit

\* A request that ends hands each permit it drops to a waiter, if there is one.
LEMMA EndLeavesNoIdlePermit ==
  ASSUME TypeOK, NoIdlePermit, NEW r \in Requests, NEW owned, NEW end \in Ended,
         pc' = [pc EXCEPT ![r] = end], DropPermits(r, owned)
  PROVE  NoIdlePermit'
  <1>1. PICK c \in IF "conc" \in owned THEN GiveBack(cfree, ConcWaiters \ {r}) ELSE Keep(cfree),
             d \in IF "rdns" \in owned THEN GiveBack(rfree, RdnsWaiters \ {r}) ELSE Keep(rfree) :
          cfree' = c.free /\ rfree' = d.free /\ granted' = (granted \ {r}) \cup c.to \cup d.to
    BY DEF DropPermits
  <1>2. c.free = cfree \/ ConcWaiters \ {r} = {}
    BY DEF GiveBack, Keep
  <1>3. d.free = rfree \/ RdnsWaiters \ {r} = {}
    BY DEF GiveBack, Keep
  <1>4. pc'[r] \notin {"queued", "waiting"} /\ \A s \in Requests : s # r => pc'[s] = pc[s]
    BY DEF TypeOK, Ended
  <1>5. ConcWaiters' \subseteq ConcWaiters \ {r} /\ RdnsWaiters' \subseteq RdnsWaiters \ {r}
    BY <1>1, <1>4 DEF ConcWaiters, RdnsWaiters
  <1> QED
    BY <1>1, <1>2, <1>3, <1>5 DEF NoIdlePermit

LEMMA NoIdlePermitStep ==
  ASSUME TypeOK, RequestInv, NoIdlePermit, [Next]_vars
  PROVE  NoIdlePermit'
  <1>1. ASSUME NEW r \in Requests, ServeMonitoring(r) \/ RateLimited(r) \/ Busy(r)
        PROVE  NoIdlePermit'
    <2>1. pc' = [pc EXCEPT ![r] = "done"] /\ UNCHANGED <<cfree, rfree, granted>>
      BY <1>1 DEF ServeMonitoring, RateLimited, Busy, Respond
    <2>2. ConcWaiters' \subseteq ConcWaiters /\ RdnsWaiters' \subseteq RdnsWaiters
      BY <2>1 DEF ConcWaiters, RdnsWaiters, TypeOK
    <2> QED
      BY <2>1, <2>2, NoNewWaiter
  <1>2. ASSUME NEW r \in Requests,
               \/ HandlePlain(r) \/ HandleTyped(r) \/ SkipRdns(r) \/ RecheckHit(r)
               \/ LookupAnswered(r) \/ LookupTimedOut(r) \/ RequestTimedOut(r)
        PROVE  NoIdlePermit'
    <2>1. pc' = [pc EXCEPT ![r] = "done"] /\ \E owned : DropPermits(r, owned)
      BY <1>2 DEF HandlePlain, HandleTyped, SkipRdns, RecheckHit, LookupAnswered,
                  LookupTimedOut, RequestTimedOut, Respond
    <2> QED
      BY <2>1, EndLeavesNoIdlePermit DEF Ended
  <1>3. ASSUME NEW r \in Requests, Disconnect(r)
        PROVE  NoIdlePermit'
    <2>1. pc' = [pc EXCEPT ![r] = "gone"] /\ \E owned : DropPermits(r, owned)
      BY <1>3 DEF Disconnect
    <2> QED
      BY <2>1, EndLeavesNoIdlePermit DEF Ended
  <1>4. ASSUME NEW r \in Requests, Arrive(r)
        PROVE  NoIdlePermit'
    <2>1. rfree' = rfree /\ granted' = granted /\ RdnsWaiters' \subseteq RdnsWaiters
      BY <1>4 DEF Arrive, RdnsWaiters, TypeOK
    <2>2. CASE cfree > 0
      <3>1. ConcWaiters' \subseteq ConcWaiters /\ ConcWaiters = {}
        BY <1>4, <2>2 DEF Arrive, ConcWaiters, TypeOK, NoIdlePermit
      <3> QED
        BY <2>1, <3>1 DEF NoIdlePermit
    <2>3. CASE ~(cfree > 0)
      <3>1. cfree' = 0
        BY <1>4, <2>3 DEF Arrive, TypeOK
      <3> QED
        BY <2>1, <3>1 DEF NoIdlePermit
    <2> QED
      BY <2>2, <2>3
  <1>5. ASSUME NEW r \in Requests, AcquireRdns(r)
        PROVE  NoIdlePermit'
    <2>1. cfree' = cfree /\ granted' = granted /\ ConcWaiters' \subseteq ConcWaiters
      BY <1>5 DEF AcquireRdns, ConcWaiters, TypeOK
    <2>2. CASE rfree > 0
      <3>1. RdnsWaiters' \subseteq RdnsWaiters /\ RdnsWaiters = {}
        BY <1>5, <2>2 DEF AcquireRdns, RdnsWaiters, TypeOK, NoIdlePermit
      <3> QED
        BY <2>1, <3>1 DEF NoIdlePermit
    <2>3. CASE ~(rfree > 0)
      <3>1. rfree' = 0
        BY <1>5, <2>3 DEF AcquireRdns, TypeOK
      <3> QED
        BY <2>1, <3>1 DEF NoIdlePermit
    <2> QED
      BY <2>2, <2>3
  <1>6. ASSUME NEW r \in Requests, Dequeue(r) \/ GotRdnsPermit(r)
        PROVE  NoIdlePermit'
    <2>1. /\ UNCHANGED <<cfree, rfree>> /\ granted' = granted \ {r}
          /\ pc'[r] \notin {"queued", "waiting"} /\ \A s \in Requests : s # r => pc'[s] = pc[s]
      BY <1>6 DEF Dequeue, GotRdnsPermit, TypeOK
    <2>2. ConcWaiters' \subseteq ConcWaiters /\ RdnsWaiters' \subseteq RdnsWaiters
      BY <2>1 DEF ConcWaiters, RdnsWaiters
    <2> QED
      BY <2>1, <2>2, NoNewWaiter
  <1>7. ASSUME NEW r \in Requests, RecheckMiss(r) \/ SpawnLookup(r)
        PROVE  NoIdlePermit'
    <2>1. /\ UNCHANGED <<cfree, rfree, granted>>
          /\ pc'[r] \notin {"queued", "waiting"} /\ \A s \in Requests : s # r => pc'[s] = pc[s]
      BY <1>7 DEF RecheckMiss, SpawnLookup, TypeOK
    <2>2. ConcWaiters' \subseteq ConcWaiters /\ RdnsWaiters' \subseteq RdnsWaiters
      BY <2>1 DEF ConcWaiters, RdnsWaiters
    <2> QED
      BY <2>1, <2>2, NoNewWaiter
  <1>8. ASSUME NEW r \in Requests, ReturnLookup(r)
        PROVE  NoIdlePermit'
    <2>1. PICK d \in GiveBack(rfree, RdnsWaiters) :
            rfree' = d.free /\ granted' = granted \cup d.to
      BY <1>8 DEF ReturnLookup
    <2>2. d.free = rfree \/ RdnsWaiters = {}
      BY DEF GiveBack
    <2>3. ConcWaiters' \subseteq ConcWaiters /\ RdnsWaiters' \subseteq RdnsWaiters /\ cfree' = cfree
      BY <1>8, <2>1 DEF ReturnLookup, ConcWaiters, RdnsWaiters
    <2> QED
      BY <2>1, <2>2, <2>3 DEF NoIdlePermit
  <1>9. CASE \/ \E r \in Requests : StoreAnswer(r)
             \/ \E a \in Ips : ForgetAnswer(a)
             \/ Tick \/ UNCHANGED vars
    <2>1. UNCHANGED <<pc, cfree, rfree, granted>>
      BY <1>9 DEF StoreAnswer, ForgetAnswer, Tick, vars
    <2> QED
      BY <2>1 DEF NoIdlePermit, ConcWaiters, RdnsWaiters
  <1> QED
    BY <1>1, <1>2, <1>3, <1>4, <1>5, <1>6, <1>7, <1>8, <1>9 DEF Next, Step

\* concurrency_mw and maybe_rdns: nobody waits beside a free permit, because a
\* dropped permit goes to a waiter first.
THEOREM NoPermitIdles == Spec => []NoIdlePermit
  <1>1. Init => NoIdlePermit
    BY DEF Init, NoIdlePermit, ConcWaiters, RdnsWaiters
  <1>2. TypeOK /\ RequestInv /\ NoIdlePermit /\ [Next]_vars => NoIdlePermit'
    BY NoIdlePermitStep
  <1> QED
    BY <1>1, <1>2, PipelineInvariant, PTL DEF Spec

\* concurrency_mw: a request is refused with 503 only while MAX_CONCURRENCY
\* others hold a permit.
THEOREM RefusedOnlyWhenFull == Spec => BusyOnlyWhenFull
  <1>1. ASSUME TypeOK, PermitAccounting, NoIdlePermit, [Next]_vars,
               NEW r \in Requests, status[r] = 0, status'[r] = 503
        PROVE  Cardinality(ConcHolders) = MaxConcurrency
    <2>1. Busy(r)
      <3>1. \A s \in Requests : \A code, events :
              Respond(s, code, events) => r = s /\ code = 503
        BY <1>1 DEF Respond, TypeOK
      <3>2. status' # status
        BY <1>1
      <3>3. PICK s \in Requests : ServeMonitoring(s) \/ RateLimited(s) \/ Step(s)
        BY <1>1, <3>2 DEF Next, vars, Arrive, Disconnect, StoreAnswer, ReturnLookup,
                          ForgetAnswer, Tick
      <3>4. ~ServeMonitoring(s) /\ ~RateLimited(s)
        BY <3>1 DEF ServeMonitoring, RateLimited
      <3>5. ~HandlePlain(s) /\ ~HandleTyped(s) /\ ~SkipRdns(s) /\ ~RecheckHit(s)
        BY <3>1 DEF HandlePlain, HandleTyped, SkipRdns, RecheckHit
      <3>6. ~LookupAnswered(s) /\ ~LookupTimedOut(s) /\ ~RequestTimedOut(s)
        BY <3>1 DEF LookupAnswered, LookupTimedOut, RequestTimedOut
      <3>7. ~Dequeue(s) /\ ~AcquireRdns(s) /\ ~GotRdnsPermit(s) /\ ~RecheckMiss(s)
            /\ ~SpawnLookup(s)
        BY <3>2 DEF Dequeue, AcquireRdns, GotRdnsPermit, RecheckMiss, SpawnLookup
      <3>8. Busy(s)
        BY <3>3, <3>4, <3>5, <3>6, <3>7 DEF Step
      <3> QED
        BY <3>1, <3>8 DEF Busy
    <2>2. r \in ConcWaiters
      BY <2>1 DEF Busy, ConcWaiters
    <2> QED
      BY <1>1, <2>2, HoldersFinite, PermitsAssumption DEF NoIdlePermit, PermitAccounting
  <1>2. TypeOK /\ PermitAccounting /\ NoIdlePermit /\ [Next]_vars
        => [\A r \in Requests : status[r] = 0 /\ status'[r] = 503
              => Cardinality(ConcHolders) = MaxConcurrency]_vars
    BY <1>1
  <1> QED
    BY <1>2, PipelineInvariant, NoPermitIdles, PTL DEF Spec, BusyOnlyWhenFull

-----------------------------------------------------------------------------
\* Time.

\* With the two waits and a tick to spare inside REQUEST_TIMEOUT, what is left of
\* the outer timeout exceeds what the handler may still wait for.
DeadlineCovers ==
  RdnsWait + RdnsTimeout < RequestTimeout =>
    \A r \in Requests :
      /\ pc[r] = "handler" => deadline[r] > RdnsWait + RdnsTimeout
      /\ pc[r] = "waiting" => deadline[r] > timer[r] + RdnsTimeout
      /\ pc[r] \in {"permitted", "missed"} => deadline[r] > RdnsTimeout
      /\ pc[r] = "lookup" => deadline[r] > timer[r]
      /\ status[r] # 504

\* What a request has waited and what it may still wait add up to no more than
\* the queue's wait and the request timeout.
TimeSpent ==
  \A r \in Requests :
    /\ pc[r] = "idle" => age[r] = 0
    /\ pc[r] = "queued" => age[r] + timer[r] <= QueueWait
    /\ pc[r] \in Working => age[r] + deadline[r] <= QueueWait + RequestTimeout
    /\ age[r] <= QueueWait + RequestTimeout

\* What a step does to a request that it is not about.
LEMMA OthersAfterRespond ==
  ASSUME TypeOK, NEW r \in Requests, NEW code, NEW events, Respond(r, code, events)
  PROVE  /\ pc'[r] = "done" /\ status'[r] = code /\ age' = age
         /\ \A s \in Requests \ {r} :
              /\ pc'[s] = pc[s] /\ status'[s] = status[s]
              /\ timer'[s] = timer[s] /\ deadline'[s] = deadline[s]
  BY DEF Respond, TypeOK

\* An answer other than 504 disturbs neither.
LEMMA AnswerKeepsTime ==
  ASSUME TypeOK, DeadlineCovers, TimeSpent, NEW r \in Requests, NEW code, NEW events,
         code = 504 => ~(RdnsWait + RdnsTimeout < RequestTimeout),
         Respond(r, code, events)
  PROVE  DeadlineCovers' /\ TimeSpent'
  <1>1. /\ pc'[r] = "done" /\ status'[r] = code /\ age' = age
        /\ \A s \in Requests \ {r} :
             /\ pc'[s] = pc[s] /\ status'[s] = status[s]
             /\ timer'[s] = timer[s] /\ deadline'[s] = deadline[s]
    BY OthersAfterRespond
  <1>2. DeadlineCovers'
    BY <1>1 DEF DeadlineCovers
  <1>3. TimeSpent'
    BY <1>1 DEF TimeSpent, Working
  <1> QED
    BY <1>2, <1>3

\* Time passes only while nobody can run: each waiting request is under a timer
\* and, in the handler, a deadline that have not run out.
LEMMA TickKeepsTime ==
  ASSUME TypeOK, DeadlineCovers, TimeSpent, Tick
  PROVE  DeadlineCovers' /\ TimeSpent'
  <1>1. pc' = pc /\ status' = status
    BY DEF Tick
  <1>2. ASSUME NEW r \in Requests
        PROVE  /\ timer'[r] = Less(timer[r]) /\ deadline'[r] = Less(deadline[r])
               /\ age'[r] = IF pc[r] \in Awaits /\ age[r] < AgeCap THEN age[r] + 1 ELSE age[r]
               /\ timer[r] \in Nat /\ deadline[r] \in Nat /\ age[r] \in Nat
    BY DEF Tick, TypeOK
  <1>3. ASSUME NEW r \in Requests
        PROVE  /\ pc[r] \notin {"handler", "permitted", "missed"}
               /\ pc[r] \in {"queued", "waiting", "lookup"} => timer[r] # 0
               /\ pc[r] \in {"waiting", "lookup"} => deadline[r] # 0
    BY DEF Tick, Ready, DeadlinePassed
  <1>4. DeadlineCovers'
    <2> SUFFICES ASSUME RdnsWait + RdnsTimeout < RequestTimeout, NEW r \in Requests
                 PROVE  /\ pc[r] = "handler" => deadline'[r] > RdnsWait + RdnsTimeout
                        /\ pc[r] = "waiting" => deadline'[r] > timer'[r] + RdnsTimeout
                        /\ pc[r] \in {"permitted", "missed"} => deadline'[r] > RdnsTimeout
                        /\ pc[r] = "lookup" => deadline'[r] > timer'[r]
                        /\ status[r] # 504
      BY <1>1 DEF DeadlineCovers
    <2> QED
      BY <1>2, <1>3, DurationsAssumption DEF DeadlineCovers, Less
  <1>5. TimeSpent'
    <2> SUFFICES ASSUME NEW r \in Requests
                 PROVE  /\ pc[r] = "idle" => age'[r] = 0
                        /\ pc[r] = "queued" => age'[r] + timer'[r] <= QueueWait
                        /\ pc[r] \in Working => age'[r] + deadline'[r] <= QueueWait + RequestTimeout
                        /\ age'[r] <= QueueWait + RequestTimeout
      BY <1>1 DEF TimeSpent, Working
    <2> QED
      BY <1>2, <1>3, DurationsAssumption DEF TimeSpent, Less, Working, Awaits
  <1> QED
    BY <1>4, <1>5

LEMMA TimeStep ==
  ASSUME TypeOK, RequestInv, DeadlineCovers, TimeSpent, [Next]_vars
  PROVE  DeadlineCovers' /\ TimeSpent'
  <1>1. ASSUME NEW r \in Requests,
               \/ ServeMonitoring(r) \/ RateLimited(r) \/ Busy(r) \/ HandlePlain(r)
               \/ HandleTyped(r) \/ SkipRdns(r) \/ RecheckHit(r) \/ LookupAnswered(r)
               \/ LookupTimedOut(r)
        PROVE  DeadlineCovers' /\ TimeSpent'
    <2>1. PICK code, events : code # 504 /\ Respond(r, code, events)
      BY <1>1 DEF ServeMonitoring, RateLimited, Busy, HandlePlain, HandleTyped, SkipRdns,
                  RecheckHit, LookupAnswered, LookupTimedOut
    <2> QED
      BY <2>1, AnswerKeepsTime
  <1>2. ASSUME NEW r \in Requests, RequestTimedOut(r)
        PROVE  DeadlineCovers' /\ TimeSpent'
    <2>1. ~(RdnsWait + RdnsTimeout < RequestTimeout)
      <3>1. deadline[r] = 0 /\ timer[r] \in Nat /\ pc[r] \in {"waiting", "lookup"}
        BY <1>2 DEF RequestTimedOut, DeadlinePassed, TypeOK
      <3> QED
        BY <3>1, DurationsAssumption DEF DeadlineCovers
    <2> QED
      BY <1>2, <2>1, AnswerKeepsTime DEF RequestTimedOut
  <1>3. ASSUME NEW r \in Requests,
               \/ Arrive(r) \/ Dequeue(r) \/ AcquireRdns(r) \/ GotRdnsPermit(r)
               \/ RecheckMiss(r) \/ SpawnLookup(r) \/ Disconnect(r)
        PROVE  DeadlineCovers' /\ TimeSpent'
    <2>1. /\ age' = age /\ status' = status
          /\ \A s \in Requests \ {r} : /\ pc'[s] = pc[s] /\ timer'[s] = timer[s]
                                       /\ deadline'[s] = deadline[s]
      BY <1>3 DEF Arrive, Dequeue, AcquireRdns, GotRdnsPermit, RecheckMiss, SpawnLookup, Disconnect, TypeOK
    <2>2. timer[r] \in Nat /\ deadline[r] \in Nat /\ age[r] \in Nat
      BY DEF TypeOK
    <2>3. RdnsWait + RdnsTimeout < RequestTimeout =>
            /\ pc'[r] = "handler" => deadline'[r] > RdnsWait + RdnsTimeout
            /\ pc'[r] = "waiting" => deadline'[r] > timer'[r] + RdnsTimeout
            /\ pc'[r] \in {"permitted", "missed"} => deadline'[r] > RdnsTimeout
            /\ pc'[r] = "lookup" => deadline'[r] > timer'[r]
      <3>1. CASE Arrive(r) \/ Dequeue(r)
        BY <3>1, DurationsAssumption DEF Arrive, Dequeue, TimeToServe, TypeOK
      <3>2. CASE AcquireRdns(r) \/ GotRdnsPermit(r)
        BY <2>2, <3>2, DurationsAssumption DEF AcquireRdns, GotRdnsPermit, TypeOK, DeadlineCovers
      <3>3. CASE RecheckMiss(r) \/ SpawnLookup(r) \/ Disconnect(r)
        BY <2>2, <3>3, DurationsAssumption DEF RecheckMiss, SpawnLookup, Disconnect, TypeOK, DeadlineCovers
      <3> QED
        BY <1>3, <3>1, <3>2, <3>3
    <2>4. /\ pc'[r] # "idle"
          /\ pc'[r] = "queued" => age[r] + timer'[r] <= QueueWait
          /\ pc'[r] \in Working => age[r] + deadline'[r] <= QueueWait + RequestTimeout
      <3>1. CASE Arrive(r)
        BY <2>2, <3>1, DurationsAssumption DEF Arrive, TimeToServe, TypeOK, TimeSpent, Working
      <3>2. CASE Dequeue(r)
        BY <2>2, <3>2, DurationsAssumption DEF Dequeue, TimeToServe, TypeOK, TimeSpent, Working
      <3>3. CASE AcquireRdns(r) \/ GotRdnsPermit(r)
        BY <2>2, <3>3 DEF AcquireRdns, GotRdnsPermit, TypeOK, TimeSpent, Working
      <3>4. CASE RecheckMiss(r) \/ SpawnLookup(r) \/ Disconnect(r)
        BY <2>2, <3>4 DEF RecheckMiss, SpawnLookup, Disconnect, TypeOK, TimeSpent, Working
      <3> QED
        BY <1>3, <3>1, <3>2, <3>3, <3>4
    <2>5. DeadlineCovers'
      BY <2>1, <2>3 DEF DeadlineCovers
    <2>6. TimeSpent'
      BY <2>1, <2>4 DEF TimeSpent
    <2> QED
      BY <2>5, <2>6
  <1>4. CASE \/ \E r \in Requests : StoreAnswer(r) \/ ReturnLookup(r)
             \/ \E a \in Ips : ForgetAnswer(a)
             \/ UNCHANGED vars
    <2>1. UNCHANGED <<pc, status, timer, deadline, age>>
      BY <1>4 DEF StoreAnswer, ReturnLookup, ForgetAnswer, vars
    <2> QED
      BY <2>1 DEF DeadlineCovers, TimeSpent
  <1> QED
    BY <1>1, <1>2, <1>3, <1>4, TickKeepsTime DEF Next, Step

\* The two facts hold at the start and are kept by every step.
LEMMA TimeInvariant == Spec => [](DeadlineCovers /\ TimeSpent)
  <1>1. Init => DeadlineCovers /\ TimeSpent
    BY DurationsAssumption DEF Init, DeadlineCovers, TimeSpent, Working
  <1>2. TypeOK /\ RequestInv /\ DeadlineCovers /\ TimeSpent /\ [Next]_vars
        => (DeadlineCovers /\ TimeSpent)'
    BY TimeStep
  <1> QED
    BY <1>1, <1>2, PipelineInvariant, PTL DEF Spec

\* maybe_rdns inside timeout_mw inside concurrency_mw: if the two waits of a lookup
\* fit into REQUEST_TIMEOUT with a tick to spare, a slow resolver never turns an
\* answer into a 504, however long the request had to queue.
THEOREM NoGatewayTimeouts == Spec => []NoGatewayTimeout
  <1>1. DeadlineCovers => NoGatewayTimeout
    BY DEF DeadlineCovers, NoGatewayTimeout
  <1> QED
    BY <1>1, TimeInvariant, PTL

\* concurrency_mw and timeout_mw: nobody waits longer than the queue's wait and
\* REQUEST_TIMEOUT together, whatever the resolver does.
THEOREM AnsweredInTime == Spec => []AnswerInTime
  <1>1. TimeSpent => AnswerInTime
    BY DEF TimeSpent, AnswerInTime
  <1> QED
    BY <1>1, TimeInvariant, PTL

-----------------------------------------------------------------------------
\* Counters.

\* No step changes what was asked and by whom.
LEMMA RequestKept ==
  ASSUME [Next]_vars
  PROVE  path' = path /\ ip' = ip
  <1>1. \A r, code, events : Respond(r, code, events) => path' = path /\ ip' = ip
    BY DEF Respond, requestVars
  <1>2. ASSUME NEW r \in Requests, ServeMonitoring(r) \/ RateLimited(r) \/ Step(r)
        PROVE  path' = path /\ ip' = ip
    <2>1. CASE \E code, events : Respond(r, code, events)
      BY <1>1, <2>1
    <2>2. CASE \/ Dequeue(r) \/ AcquireRdns(r) \/ GotRdnsPermit(r)
               \/ RecheckMiss(r) \/ SpawnLookup(r)
      BY <2>2 DEF Dequeue, AcquireRdns, GotRdnsPermit, RecheckMiss, SpawnLookup, requestVars
    <2> QED
      BY <1>2, <2>1, <2>2 DEF Step, ServeMonitoring, RateLimited, Busy, HandlePlain, HandleTyped,
           SkipRdns, RecheckHit, LookupAnswered, LookupTimedOut, RequestTimedOut
  <1>3. CASE \/ \E r \in Requests : Arrive(r) \/ Disconnect(r) \/ StoreAnswer(r) \/ ReturnLookup(r)
             \/ \E a \in Ips : ForgetAnswer(a)
             \/ Tick \/ UNCHANGED vars
    BY <1>3 DEF Arrive, Disconnect, StoreAnswer, ReturnLookup, ForgetAnswer, Tick, vars, requestVars
  <1> QED
    BY <1>2, <1>3 DEF Next

Done == {r \in Requests : pc[r] = "done"}
With(codes) == {r \in Requests : status[r] \in codes}
LookedUp == {r \in Requests : task[r] # "none"}
Typed == {r \in Requests : path[r] = "typed" /\ ip[r] \in Nameless}

\* Requests that were answered after their lookup, or in place of one.
LookedUpAnswered == {r \in LookedUp : pc[r] = "done"}
PastLookup == {r \in Typed : pc[r] = "done" \/ task[r] # "none"}

\* A request has a status exactly if it was answered, and only a request that
\* maybe_rdns resolves is where maybe_rdns waits.
StatusInv ==
  \A r \in Requests :
    /\ status[r] = 0 <=> pc[r] # "done"
    /\ pc[r] \in {"waiting", "permitted", "missed", "lookup"} => r \in Typed
    /\ task[r] # "none" => r \in Typed

\* The counters of metrics_mw and rate_limit_mw, and those of maybe_rdns.
ResponseCounts ==
  /\ metrics["requests"] = Cardinality(Done)
  /\ metrics["responses_4xx"] = Cardinality(With({401, 404, 429}))
  /\ metrics["responses_5xx"] = Cardinality(With({503, 504}))
  /\ metrics["rate_limited"] = Cardinality(With({429}))

LookupCounts ==
  /\ metrics["rdns_lookups"] = Cardinality(LookedUp)
  /\ metrics["rdns_timeouts"] <= Cardinality(LookedUpAnswered)
  /\ metrics["rdns_lookups"] + metrics["rdns_skipped"] <= Cardinality(PastLookup)

\* Sets of requests are finite; one more request is one more, and a set that
\* grows does not count less.
LEMMA CountSets ==
  ASSUME NEW S \in SUBSET Requests
  PROVE  IsFiniteSet(S) /\ Cardinality(S) \in Nat
  BY RequestsAssumption, FS_Subset, FS_CardinalityType

LEMMA CountMore ==
  ASSUME NEW S \in SUBSET Requests, NEW T \in SUBSET Requests, S \subseteq T
  PROVE  Cardinality(S) <= Cardinality(T)
  BY CountSets, FS_Subset

LEMMA CountOne ==
  ASSUME NEW S \in SUBSET Requests, NEW r \in Requests, r \notin S
  PROVE  Cardinality(S \cup {r}) = Cardinality(S) + 1
  BY CountSets, CardinalityAdd

\* What an answer does to a set of statuses.
LEMMA WithAfterRespond ==
  ASSUME TypeOK, NEW r \in Requests, status[r] = 0, NEW code, NEW events,
         Respond(r, code, events), NEW codes, 0 \notin codes
  PROVE  Cardinality(With(codes)') = Cardinality(With(codes)) + (IF code \in codes THEN 1 ELSE 0)
  <1>1. With(codes)' = IF code \in codes THEN With(codes) \cup {r} ELSE With(codes)
    BY OthersAfterRespond DEF With
  <1>2. r \notin With(codes) /\ With(codes) \in SUBSET Requests
    BY DEF With
  <1>3. Cardinality(With(codes)) \in Nat
    BY <1>2, CountSets
  <1> QED
    BY <1>1, <1>2, <1>3, CountOne

LEMMA RespondCounts ==
  ASSUME TypeOK, StatusInv, ResponseCounts, NEW r \in Requests, pc[r] # "done",
         NEW code \in {200, 401, 404, 429, 503, 504}, NEW events, Respond(r, code, events),
         events \cap {"requests", "responses_4xx", "responses_5xx"} = {},
         "rate_limited" \in events <=> code = 429
  PROVE  ResponseCounts'
  <1>1. status[r] = 0
    BY DEF StatusInv
  <1>2. Done' = Done \cup {r} /\ r \notin Done /\ Done \in SUBSET Requests
    BY OthersAfterRespond DEF Done
  <1>3. Cardinality(Done') = Cardinality(Done) + 1
    BY <1>2, CountOne
  <1>4. /\ Cardinality(With({401, 404, 429})') =
             Cardinality(With({401, 404, 429})) + (IF code \in {401, 404, 429} THEN 1 ELSE 0)
        /\ Cardinality(With({503, 504})') =
             Cardinality(With({503, 504})) + (IF code \in {503, 504} THEN 1 ELSE 0)
        /\ Cardinality(With({429})') =
             Cardinality(With({429})) + (IF code \in {429} THEN 1 ELSE 0)
    BY <1>1, WithAfterRespond
  <1>5. \A n \in Counters : metrics[n] \in Nat
    BY DEF TypeOK
  <1>6. \A n \in Counters :
          metrics'[n] = (IF n \in events THEN metrics[n] + 1 ELSE metrics[n])
                          + (IF n \in MetricsMw(code) THEN 1 ELSE 0)
    BY <1>5 DEF Respond, Bump
  <1>7. /\ "requests" \in MetricsMw(code)
        /\ "responses_4xx" \in MetricsMw(code) <=> code \in {401, 404, 429}
        /\ "responses_5xx" \in MetricsMw(code) <=> code \in {503, 504}
        /\ "rate_limited" \notin MetricsMw(code)
    BY DEF MetricsMw
  <1>8. {"requests", "responses_4xx", "responses_5xx", "rate_limited"} \subseteq Counters
    BY DEF Counters
  <1>9. /\ metrics'["requests"] = metrics["requests"] + 1
        /\ metrics'["responses_4xx"] = metrics["responses_4xx"] + (IF code \in {401, 404, 429} THEN 1 ELSE 0)
        /\ metrics'["responses_5xx"] = metrics["responses_5xx"] + (IF code \in {503, 504} THEN 1 ELSE 0)
        /\ metrics'["rate_limited"] = metrics["rate_limited"] + (IF code \in {429} THEN 1 ELSE 0)
    BY <1>5, <1>6, <1>7, <1>8
  <1> QED
    BY <1>3, <1>4, <1>9 DEF ResponseCounts

\* What an answer does to the counters of maybe_rdns.
LEMMA RespondLookupCounts ==
  ASSUME TypeOK, StatusInv, LookupCounts, NEW r \in Requests, pc[r] # "done",
         NEW code, NEW events, Respond(r, code, events), task' = task,
         "rdns_lookups" \notin events,
         "rdns_timeouts" \in events => task[r] # "none",
         "rdns_skipped" \in events => r \in Typed /\ task[r] = "none"
  PROVE  LookupCounts'
  <1>1. LookedUp' = LookedUp
    BY DEF LookedUp
  <1>2. Typed' = Typed
    BY DEF Typed, Respond, requestVars
  <1>3. LookedUpAnswered' = IF task[r] # "none" THEN LookedUpAnswered \cup {r} ELSE LookedUpAnswered
    BY <1>1, OthersAfterRespond DEF LookedUpAnswered, LookedUp
  <1>4. PastLookup' = IF r \in Typed THEN PastLookup \cup {r} ELSE PastLookup
    BY <1>2, OthersAfterRespond DEF PastLookup, Typed
  <1>5. r \notin LookedUpAnswered /\ (task[r] = "none" => r \notin PastLookup)
    BY DEF LookedUpAnswered, PastLookup
  <1>6. LookedUpAnswered \in SUBSET Requests /\ PastLookup \in SUBSET Requests
    BY DEF LookedUpAnswered, LookedUp, PastLookup, Typed
  <1>7. /\ Cardinality(LookedUpAnswered \cup {r}) = Cardinality(LookedUpAnswered) + 1
        /\ task[r] = "none" => Cardinality(PastLookup \cup {r}) = Cardinality(PastLookup) + 1
        /\ Cardinality(PastLookup) <= Cardinality(PastLookup \cup {r})
    BY <1>5, <1>6, CountOne, CountMore
  <1>8. /\ Cardinality(LookedUpAnswered) \in Nat /\ Cardinality(PastLookup) \in Nat
        /\ Cardinality(PastLookup \cup {r}) \in Nat
    BY <1>6, CountSets
  <1>9. \A n \in {"rdns_lookups", "rdns_timeouts", "rdns_skipped"} :
          /\ metrics[n] \in Nat
          /\ metrics'[n] = IF n \in events THEN metrics[n] + 1 ELSE metrics[n]
    BY DEF Respond, Bump, MetricsMw, Counters, TypeOK
  <1>10. metrics'["rdns_lookups"] = Cardinality(LookedUp')
    BY <1>1, <1>9 DEF LookupCounts
  <1>11. metrics'["rdns_timeouts"] <= Cardinality(LookedUpAnswered')
    BY <1>3, <1>7, <1>8, <1>9 DEF LookupCounts
  <1>12. metrics'["rdns_lookups"] + metrics'["rdns_skipped"] <= Cardinality(PastLookup')
    BY <1>4, <1>7, <1>8, <1>9 DEF LookupCounts
  <1> QED
    BY <1>10, <1>11, <1>12 DEF LookupCounts

LEMMA StatusStep ==
  ASSUME TypeOK, RequestInv, StatusInv, [Next]_vars
  PROVE  StatusInv'
  <1>0. Typed' = Typed
    BY RequestKept DEF Typed
  <1>1. ASSUME NEW r \in Requests,
               \/ ServeMonitoring(r) \/ RateLimited(r) \/ Busy(r) \/ HandlePlain(r)
               \/ HandleTyped(r) \/ SkipRdns(r) \/ RecheckHit(r) \/ LookupAnswered(r)
               \/ LookupTimedOut(r) \/ RequestTimedOut(r)
        PROVE  StatusInv'
    <2>1. task' = task /\ \E code, events : code # 0 /\ Respond(r, code, events)
      BY <1>1 DEF ServeMonitoring, RateLimited, Busy, HandlePlain, HandleTyped, SkipRdns,
           RecheckHit, LookupAnswered, LookupTimedOut, RequestTimedOut, TaskAfterGiveUp
    <2> QED
      BY <1>0, <2>1, OthersAfterRespond DEF StatusInv
  <1>2. ASSUME NEW r \in Requests,
               \/ Arrive(r) \/ Dequeue(r) \/ AcquireRdns(r) \/ GotRdnsPermit(r)
               \/ RecheckMiss(r) \/ SpawnLookup(r) \/ Disconnect(r)
        PROVE  StatusInv'
    <2>1. status' = status /\ \A s \in Requests \ {r} : pc'[s] = pc[s] /\ task'[s] = task[s]
      BY <1>2 DEF Arrive, Dequeue, AcquireRdns, GotRdnsPermit, RecheckMiss, SpawnLookup, Disconnect,
                  TaskAfterGiveUp, TypeOK
    <2>2. pc[r] # "done" /\ pc'[r] # "done"
      BY <1>2 DEF Arrive, Dequeue, AcquireRdns, GotRdnsPermit, RecheckMiss, SpawnLookup, Disconnect, Awaits, TypeOK
    <2>3. /\ pc'[r] \in {"waiting", "permitted", "missed", "lookup"} => r \in Typed
          /\ task'[r] # "none" => r \in Typed
      <3>1. CASE Arrive(r) \/ Dequeue(r) \/ Disconnect(r)
        BY <3>1 DEF Arrive, Dequeue, Disconnect, TaskAfterGiveUp, StatusInv, TypeOK
      <3>2. CASE AcquireRdns(r)
        BY <3>2 DEF AcquireRdns, NoLookup, StatusInv, TypeOK, Typed
      <3>3. CASE GotRdnsPermit(r) \/ RecheckMiss(r) \/ SpawnLookup(r)
        BY <3>3 DEF GotRdnsPermit, RecheckMiss, SpawnLookup, StatusInv, TypeOK
      <3> QED
        BY <1>2, <3>1, <3>2, <3>3
    <2> QED
      BY <1>0, <2>1, <2>2, <2>3 DEF StatusInv
  <1>3. ASSUME NEW r \in Requests, StoreAnswer(r) \/ ReturnLookup(r)
        PROVE  StatusInv'
    <2>1. /\ pc' = pc /\ status' = status /\ task[r] # "none"
          /\ \A s \in Requests \ {r} : task'[s] = task[s]
      BY <1>3 DEF StoreAnswer, ReturnLookup, TypeOK
    <2> QED
      BY <1>0, <2>1 DEF StatusInv
  <1>4. CASE (\E a \in Ips : ForgetAnswer(a)) \/ Tick \/ UNCHANGED vars
    BY <1>0, <1>4 DEF ForgetAnswer, Tick, vars, StatusInv
  <1> QED
    BY <1>1, <1>2, <1>3, <1>4 DEF Next, Step

\* Steps that answer nobody and start no lookup leave the counters alone.
LEMMA CountsKept ==
  ASSUME ResponseCounts, LookupCounts, path' = path, ip' = ip, status' = status, metrics' = metrics,
         \A r \in Requests : /\ pc'[r] = "done" <=> pc[r] = "done"
                             /\ task'[r] = "none" <=> task[r] = "none"
  PROVE  ResponseCounts' /\ LookupCounts'
  <1>1. /\ Done' = Done /\ LookedUp' = LookedUp /\ Typed' = Typed
        /\ \A codes : With(codes)' = With(codes)
    BY DEF Done, LookedUp, Typed, With
  <1>2. LookedUpAnswered' = LookedUpAnswered /\ PastLookup' = PastLookup
    BY <1>1 DEF LookedUpAnswered, PastLookup, Typed, LookedUp
  <1> QED
    BY <1>1, <1>2 DEF ResponseCounts, LookupCounts

LEMMA CountsStep ==
  ASSUME TypeOK, RequestInv, StatusInv, ResponseCounts, LookupCounts, [Next]_vars
  PROVE  ResponseCounts' /\ LookupCounts'
  <1>1. ASSUME NEW r \in Requests,
               \/ ServeMonitoring(r) \/ Busy(r) \/ HandlePlain(r) \/ HandleTyped(r)
               \/ RecheckHit(r) \/ LookupAnswered(r) \/ RequestTimedOut(r)
        PROVE  ResponseCounts' /\ LookupCounts'
    <2>1. PICK code \in {200, 401, 404, 503, 504} : Respond(r, code, {})
      BY <1>1 DEF ServeMonitoring, Busy, HandlePlain, HandleTyped, RecheckHit, LookupAnswered,
                  RequestTimedOut
    <2>2. pc[r] # "done" /\ task' = task
      BY <1>1 DEF ServeMonitoring, Busy, HandlePlain, HandleTyped, RecheckHit, LookupAnswered,
                  RequestTimedOut, DeadlinePassed, TaskAfterGiveUp
    <2> QED
      BY <2>1, <2>2, RespondCounts, RespondLookupCounts
  <1>2. ASSUME NEW r \in Requests, RateLimited(r)
        PROVE  ResponseCounts' /\ LookupCounts'
    BY <1>2, RespondCounts, RespondLookupCounts DEF RateLimited
  <1>3. ASSUME NEW r \in Requests, SkipRdns(r)
        PROVE  ResponseCounts' /\ LookupCounts'
    <2>1. r \in Typed /\ task[r] = "none" /\ pc[r] # "done" /\ task' = task
      BY <1>3 DEF SkipRdns, StatusInv, RequestInv
    <2> QED
      BY <1>3, <2>1, RespondCounts, RespondLookupCounts DEF SkipRdns
  <1>4. ASSUME NEW r \in Requests, LookupTimedOut(r)
        PROVE  ResponseCounts' /\ LookupCounts'
    <2>1. task[r] # "none" /\ pc[r] # "done" /\ task' = task
      BY <1>4 DEF LookupTimedOut, RequestInv, TaskAfterGiveUp
    <2> QED
      BY <1>4, <2>1, RespondCounts, RespondLookupCounts DEF LookupTimedOut
  <1>5. ASSUME NEW r \in Requests, SpawnLookup(r)
        PROVE  ResponseCounts' /\ LookupCounts'
    <2>1. /\ pc[r] = "missed" /\ task[r] = "none" /\ r \in Typed
          /\ pc'[r] = "lookup" /\ task'[r] = "running" /\ status' = status
          /\ path' = path /\ ip' = ip
          /\ \A s \in Requests \ {r} : pc'[s] = pc[s] /\ task'[s] = task[s]
      BY <1>5 DEF SpawnLookup, RequestInv, StatusInv, TypeOK, requestVars
    <2>2. /\ Done' = Done /\ Typed' = Typed /\ \A codes : With(codes)' = With(codes)
          /\ LookedUp' = LookedUp \cup {r} /\ r \notin LookedUp
      BY <2>1 DEF Done, Typed, With, LookedUp
    <2>3. /\ LookedUpAnswered' = LookedUpAnswered
          /\ PastLookup' = PastLookup \cup {r} /\ r \notin PastLookup
      BY <2>1, <2>2 DEF LookedUpAnswered, LookedUp, PastLookup, Typed
    <2>4. LookedUp \in SUBSET Requests /\ PastLookup \in SUBSET Requests
      BY DEF LookedUp, PastLookup, Typed
    <2>5. /\ Cardinality(LookedUp') = Cardinality(LookedUp) + 1
          /\ Cardinality(PastLookup') = Cardinality(PastLookup) + 1
      BY <2>2, <2>3, <2>4, CountOne
    <2>6. /\ \A n \in Counters : metrics[n] \in Nat
          /\ \A n \in Counters : metrics'[n] = IF n = "rdns_lookups" THEN metrics[n] + 1 ELSE metrics[n]
      BY <1>5 DEF SpawnLookup, Bump, TypeOK
    <2>7. Cardinality(LookedUp) \in Nat /\ Cardinality(PastLookup) \in Nat
      BY <2>4, CountSets
    <2>8. ResponseCounts'
      BY <2>2, <2>6 DEF ResponseCounts, Counters
    <2>9. LookupCounts'
      BY <2>3, <2>5, <2>6, <2>7 DEF LookupCounts, Counters
    <2> QED
      BY <2>8, <2>9
  <1>6. ASSUME NEW r \in Requests,
               \/ Arrive(r) \/ Dequeue(r) \/ AcquireRdns(r) \/ GotRdnsPermit(r)
               \/ RecheckMiss(r) \/ Disconnect(r)
        PROVE  ResponseCounts' /\ LookupCounts'
    <2>1. status' = status /\ metrics' = metrics /\ task' = task
      BY <1>6 DEF Arrive, Dequeue, AcquireRdns, GotRdnsPermit, RecheckMiss, Disconnect, TaskAfterGiveUp
    <2>2. \A s \in Requests : pc'[s] = "done" <=> pc[s] = "done"
      BY <1>6 DEF Arrive, Dequeue, AcquireRdns, GotRdnsPermit, RecheckMiss, Disconnect, Awaits, TypeOK
    <2> QED
      BY <2>1, <2>2, CountsKept, RequestKept
  <1>7. ASSUME NEW r \in Requests, StoreAnswer(r) \/ ReturnLookup(r)
        PROVE  ResponseCounts' /\ LookupCounts'
    <2>1. status' = status /\ metrics' = metrics /\ pc' = pc
      BY <1>7 DEF StoreAnswer, ReturnLookup
    <2>2. \A s \in Requests : task'[s] = "none" <=> task[s] = "none"
      BY <1>7 DEF StoreAnswer, ReturnLookup, TypeOK
    <2> QED
      BY <2>1, <2>2, CountsKept, RequestKept
  <1>8. CASE (\E a \in Ips : ForgetAnswer(a)) \/ Tick \/ UNCHANGED vars
    <2>1. UNCHANGED <<status, metrics, pc, task>>
      BY <1>8 DEF ForgetAnswer, Tick, vars
    <2> QED
      BY <2>1, CountsKept, RequestKept
  <1> QED
    BY <1>1, <1>2, <1>3, <1>4, <1>5, <1>6, <1>7, <1>8 DEF Next, Step

\* metrics_mw, rate_limit_mw and maybe_rdns: every answered request is counted once
\* and under its own status, a dropped one never, every lookup once; and at most one
\* of lookup and skip is counted for a request.
THEOREM MetricsAlwaysAgree == Spec => []MetricsAgree
  <1>1. Init => StatusInv /\ ResponseCounts /\ LookupCounts
    <2> SUFFICES ASSUME Init PROVE StatusInv /\ ResponseCounts /\ LookupCounts
      OBVIOUS
    <2>1. StatusInv
      BY DEF Init, StatusInv
    <2>2. /\ Done = {} /\ LookedUp = {} /\ LookedUpAnswered = {} /\ PastLookup = {}
          /\ \A codes : 0 \notin codes => With(codes) = {}
      BY DEF Init, Done, LookedUp, LookedUpAnswered, PastLookup, Typed, With
    <2>3. \A n \in Counters : metrics[n] = 0
      BY DEF Init
    <2>4. ResponseCounts
      BY <2>2, <2>3, FS_EmptySet DEF ResponseCounts, Counters
    <2>5. LookupCounts
      BY <2>2, <2>3, FS_EmptySet DEF LookupCounts, Counters
    <2> QED
      BY <2>1, <2>4, <2>5
  <1>2. TypeOK /\ RequestInv /\ StatusInv /\ ResponseCounts /\ LookupCounts /\ [Next]_vars
        => (StatusInv /\ ResponseCounts /\ LookupCounts)'
    BY StatusStep, CountsStep
  <1>3. TypeOK /\ ResponseCounts /\ LookupCounts => MetricsAgree
    <2> SUFFICES ASSUME TypeOK, ResponseCounts, LookupCounts PROVE MetricsAgree
      OBVIOUS
    <2>1. LookedUpAnswered \subseteq LookedUp /\ LookedUp \in SUBSET Requests
      BY DEF LookedUpAnswered, LookedUp
    <2>2. Cardinality(LookedUpAnswered) <= Cardinality(LookedUp)
      BY <2>1, CountMore
    <2>3. PastLookup \subseteq Typed /\ Typed \in SUBSET Requests
      BY DEF PastLookup, Typed
    <2>4. Cardinality(PastLookup) <= Cardinality(Typed)
      BY <2>3, CountMore
    <2>5. /\ Cardinality(LookedUpAnswered) \in Nat /\ Cardinality(LookedUp) \in Nat
          /\ Cardinality(PastLookup) \in Nat /\ Cardinality(Typed) \in Nat
      BY <2>1, <2>3, CountSets
    <2>6. \A n \in Counters : metrics[n] \in Nat
      BY DEF TypeOK
    <2>7. /\ metrics["rdns_timeouts"] <= metrics["rdns_lookups"]
          /\ metrics["rdns_lookups"] + metrics["rdns_skipped"] <= Cardinality(Typed)
      BY <2>2, <2>4, <2>5, <2>6 DEF LookupCounts, Counters
    <2> QED
      BY <2>7 DEF MetricsAgree, Answered, ResponseCounts, LookupCounts, Done, With, LookedUp, Typed
  <1> QED
    BY <1>1, <1>2, <1>3, PipelineInvariant, PTL DEF Spec

-----------------------------------------------------------------------------
\* Lookups of one address.

\* Who has looked an address up since its last answer lapsed, or is about to.
Looking(a) == {r \in Requests : ip[r] = a /\ (r \in asked \/ pc[r] = "missed")}

\* While an address has no answer in the cache, each lookup of it is still running
\* and so holds a permit; once it has one, no request starts to look it up.
LookingInv ==
  \A a \in Ips :
    /\ a \notin cached => \A r \in Asking(a) : task[r] = "running"
    /\ Cardinality(Looking(a)) <= RdnsMax

\* After a step that leaves a without an answer in the cache the semaphore bounds
\* its lookups.
LEMMA UnansweredBounded ==
  ASSUME TypeOK', PermitAccounting', NEW a \in Ips, \A r \in Asking(a)' : task'[r] = "running"
  PROVE  Cardinality(Looking(a)') <= RdnsMax
  <1>1. Looking(a)' \subseteq RdnsHolders' /\ Looking(a)' \in SUBSET Requests /\ RdnsHolders' \in SUBSET Requests
    BY DEF Looking, Asking, RdnsHolders
  <1>2. /\ Cardinality(Looking(a)') <= Cardinality(RdnsHolders')
        /\ Cardinality(Looking(a)') \in Nat /\ Cardinality(RdnsHolders') \in Nat
    BY <1>1, CountMore, CountSets
  <1> QED
    BY <1>2, PermitsAssumption DEF PermitAccounting, TypeOK

\* What each step does to the lookups of address a.
LEMMA LookingMoves ==
  ASSUME TypeOK, LookingInv, NEW a \in Ips, [Next]_vars
  PROVE  /\ a \notin cached' => \A r \in Asking(a)' : task'[r] = "running"
         /\ a \in cached' => Looking(a)' \subseteq Looking(a)
  <1>0. ip' = ip /\ (a \notin cached => \A r \in Asking(a) : task[r] = "running")
    BY RequestKept DEF LookingInv
  <1>1. ASSUME asked' = asked, cached' = cached, task' = task, NEW r \in Requests,
               pc'[r] # "missed" \/ ip[r] \notin cached,
               \A s \in Requests \ {r} : pc'[s] = pc[s]
        PROVE  /\ a \notin cached' => \A s \in Asking(a)' : task'[s] = "running"
               /\ a \in cached' => Looking(a)' \subseteq Looking(a)
    BY <1>0, <1>1 DEF Asking, Looking
  <1>2. ASSUME NEW r \in Requests,
               \/ ServeMonitoring(r) \/ RateLimited(r) \/ Busy(r) \/ HandlePlain(r)
               \/ HandleTyped(r) \/ SkipRdns(r) \/ RecheckHit(r) \/ LookupAnswered(r)
               \/ LookupTimedOut(r) \/ RequestTimedOut(r)
        PROVE  /\ a \notin cached' => \A s \in Asking(a)' : task'[s] = "running"
               /\ a \in cached' => Looking(a)' \subseteq Looking(a)
    <2>1. /\ asked' = asked /\ cached' = cached /\ task' = task
          /\ \E code, events : Respond(r, code, events)
      BY <1>2 DEF ServeMonitoring, RateLimited, Busy, HandlePlain, HandleTyped, SkipRdns,
           RecheckHit, LookupAnswered, LookupTimedOut, RequestTimedOut, TaskAfterGiveUp
    <2>2. pc'[r] # "missed" /\ \A s \in Requests \ {r} : pc'[s] = pc[s]
      BY <2>1, OthersAfterRespond
    <2> QED
      BY <1>1, <2>1, <2>2
  <1>3. ASSUME NEW r \in Requests,
               \/ Arrive(r) \/ Dequeue(r) \/ AcquireRdns(r) \/ GotRdnsPermit(r)
               \/ RecheckMiss(r) \/ Disconnect(r)
        PROVE  /\ a \notin cached' => \A s \in Asking(a)' : task'[s] = "running"
               /\ a \in cached' => Looking(a)' \subseteq Looking(a)
    <2>1. asked' = asked /\ cached' = cached /\ task' = task
      BY <1>3 DEF Arrive, Dequeue, AcquireRdns, GotRdnsPermit, RecheckMiss, Disconnect, TaskAfterGiveUp
    <2>2. /\ pc'[r] # "missed" \/ ip[r] \notin cached
          /\ \A s \in Requests \ {r} : pc'[s] = pc[s]
      BY <1>3 DEF Arrive, Dequeue, AcquireRdns, GotRdnsPermit, RecheckMiss, Disconnect,
                  AnsweredMeanwhile, TypeOK
    <2> QED
      BY <1>1, <2>1, <2>2
  <1>4. ASSUME NEW r \in Requests, SpawnLookup(r)
        PROVE  /\ a \notin cached' => \A s \in Asking(a)' : task'[s] = "running"
               /\ a \in cached' => Looking(a)' \subseteq Looking(a)
    <2>1. /\ pc[r] = "missed" /\ pc'[r] = "lookup" /\ task'[r] = "running"
          /\ asked' = asked \cup {r} /\ cached' = cached
          /\ \A s \in Requests \ {r} : pc'[s] = pc[s] /\ task'[s] = task[s]
      BY <1>4 DEF SpawnLookup, TypeOK
    <2> QED
      BY <1>0, <2>1 DEF Asking, Looking, TypeOK
  <1>5. ASSUME NEW r \in Requests, StoreAnswer(r) \/ ReturnLookup(r)
        PROVE  /\ a \notin cached' => \A s \in Asking(a)' : task'[s] = "running"
               /\ a \in cached' => Looking(a)' \subseteq Looking(a)
    <2>1. /\ asked' = asked /\ pc' = pc /\ cached \subseteq cached'
          /\ task[r] = "running" => ip[r] \in cached'
          /\ \A s \in Requests \ {r} : task'[s] = task[s]
      BY <1>5 DEF StoreAnswer, ReturnLookup, TypeOK
    <2> QED
      BY <1>0, <2>1 DEF Asking, Looking, TypeOK
  <1>6. ASSUME NEW b \in Ips, ForgetAnswer(b)
        PROVE  /\ a \notin cached' => \A s \in Asking(a)' : task'[s] = "running"
               /\ a \in cached' => Looking(a)' \subseteq Looking(a)
    BY <1>0, <1>6 DEF ForgetAnswer, Asking, Looking
  <1>7. CASE Tick \/ UNCHANGED vars
    BY <1>0, <1>7 DEF Tick, vars, Asking, Looking
  <1> QED
    BY <1>2, <1>3, <1>4, <1>5, <1>6, <1>7 DEF Next, Step

LEMMA LookingStep ==
  ASSUME TypeOK, TypeOK', PermitAccounting', LookingInv, [Next]_vars
  PROVE  LookingInv'
  <1> SUFFICES ASSUME NEW a \in Ips
               PROVE  /\ a \notin cached' => \A r \in Asking(a)' : task'[r] = "running"
                      /\ Cardinality(Looking(a)') <= RdnsMax
    BY DEF LookingInv
  <1>1. /\ a \notin cached' => \A r \in Asking(a)' : task'[r] = "running"
        /\ a \in cached' => Looking(a)' \subseteq Looking(a)
    BY LookingMoves
  <1>2. CASE a \notin cached'
    BY <1>1, <1>2, UnansweredBounded
  <1>3. CASE a \in cached'
    <2>1. Looking(a) \in SUBSET Requests /\ Looking(a)' \in SUBSET Requests
      BY DEF Looking
    <2>2. Cardinality(Looking(a)') <= Cardinality(Looking(a)) /\ Cardinality(Looking(a)) <= RdnsMax
      BY <1>1, <1>3, <2>1, CountMore DEF LookingInv
    <2> QED
      BY <1>1, <2>1, <2>2, CountSets, PermitsAssumption
  <1> QED
    BY <1>1, <1>2, <1>3

\* maybe_rdns: until its answer lapses an address is looked up RDNS_MAX_CONCURRENT
\* times at most, those included whose request gave up or looked into the cache just
\* before the answer was stored.
THEOREM LookupsPerAddressBounded == Spec => []LookupsPerAddress
  <1>1. Init => LookingInv
    <2> SUFFICES ASSUME Init, NEW a \in Ips
                 PROVE  (\A r \in Asking(a) : task[r] = "running") /\ Cardinality(Looking(a)) <= RdnsMax
      BY DEF LookingInv
    <2>1. Asking(a) = {} /\ Looking(a) = {}
      BY DEF Init, Asking, Looking
    <2> QED
      BY <2>1, FS_EmptySet, PermitsAssumption
  <1>2. TypeOK /\ TypeOK' /\ PermitAccounting' /\ LookingInv /\ [Next]_vars => LookingInv'
    BY LookingStep
  <1>3. TypeOK /\ LookingInv => LookupsPerAddress
    <2> SUFFICES ASSUME TypeOK, LookingInv, NEW a \in Ips PROVE Cardinality(Asking(a)) <= RdnsMax
      BY DEF LookupsPerAddress
    <2>1. Asking(a) \subseteq Looking(a) /\ Asking(a) \in SUBSET Requests /\ Looking(a) \in SUBSET Requests
      BY DEF Asking, Looking, TypeOK
    <2>2. Cardinality(Asking(a)) <= Cardinality(Looking(a)) /\ Cardinality(Looking(a)) <= RdnsMax
      BY <2>1, CountMore DEF LookingInv
    <2> QED
      BY <2>1, <2>2, CountSets, PermitsAssumption
  <1> QED
    BY <1>1, <1>2, <1>3, PipelineInvariant, PTL DEF Spec
=============================================================================
