---------------------------- MODULE AdmissionProof ----------------------------
(***************************************************************************)
(* The layers of src/app.rs implement the abstract gate of Admission, for  *)
(* every number of requests and permits.  Each action is matched with a    *)
(* step of the gate or with none.                                          *)
(***************************************************************************)
EXTENDS PipelineProof

LEMMA PlaceOf ==
  ASSUME TypeOK, NEW r \in Requests
  PROVE  /\ Place(r) = "out" <=> pc[r] = "idle"
         /\ Place(r) = "inside" <=> r \in ConcHolders
         /\ Place(r) = "waiting" <=> r \in ConcWaiters
BY DEF Place, ConcHolders, ConcWaiters, Working, TypeOK, States

LEMMA EndedPlace ==
  ASSUME TypeOK', NEW r \in Requests, pc'[r] \in Ended
  PROVE  Place(r)' = IF pc'[r] = "done" /\ status'[r] = 503 THEN "refused" ELSE "ended"
BY DEF Place, ConcHolders, Working, Ended

\* A request keeps its place while it stays where it is and no place is handed to it.
LEMMA SamePlace ==
  ASSUME NEW s \in Requests, pc'[s] = pc[s], status'[s] = status[s],
         pc[s] = "queued" => (s \in granted' <=> s \in granted)
  PROVE  Place(s)' = Place(s)
BY DEF Place, ConcHolders, Working

LEMMA OnePlaceMoves ==
  ASSUME NEW r \in Requests, NEW to, Place(r)' = to,
         \A s \in Requests \ {r} : Place(s)' = Place(s)
  PROVE  Places' = [Places EXCEPT ![r] = to]
BY DEF Places

LEMMA TwoPlacesMove ==
  ASSUME NEW r \in Requests, NEW w \in Requests, r # w,
         Place(r)' = "ended", Place(w)' = "inside",
         \A s \in Requests \ {r, w} : Place(s)' = Place(s)
  PROVE  Places' = [Places EXCEPT ![r] = "ended", ![w] = "inside"]
BY DEF Places

LEMMA NoPlaceMoves ==
  ASSUME \A s \in Requests : Place(s)' = Place(s)
  PROVE  Places' = Places
BY DEF Places

LEMMA GateCardinality == ASSUME NEW S PROVE Gate!Cardinality(S) = Cardinality(S)
BY DEF Cardinality, Gate!Cardinality, IsFiniteSet, Gate!IsFiniteSet

\* The gate's sets are the holders and the waiters of `concurrency`, and it is full
\* when no permit is free.
LEMMA GateSets ==
  ASSUME TypeOK, PermitAccounting
  PROVE  /\ Gate!Inside = ConcHolders
         /\ Gate!Waiting = ConcWaiters
         /\ Gate!Full <=> cfree = 0
<1>1. Gate!Inside = ConcHolders
  BY PlaceOf DEF Gate!Inside, Places, ConcHolders
<1>2. Gate!Waiting = ConcWaiters
  BY PlaceOf DEF Gate!Waiting, Places, ConcWaiters
<1>3. Gate!Full <=> cfree = 0
  BY <1>1, GateCardinality, HoldersFinite, PermitsAssumption DEF Gate!Full, PermitAccounting, TypeOK
<1> QED BY <1>1, <1>2, <1>3

\* A holder ends: its place goes to a waiter, if there is one.
LEMMA HolderEnds ==
  ASSUME TypeOK, TypeOK', PermitAccounting, NEW r \in ConcHolders, r \in Requests,
         NEW owned, "conc" \in owned, DropPermits(r, owned),
         pc'[r] \in Ended, pc'[r] = "done" => status'[r] # 503,
         \A s \in Requests \ {r} : pc'[s] = pc[s],
         \A s \in Requests \ {r} : status'[s] = status[s]
  PROVE  Gate!Next
<1>1. PICK c \in GiveBack(cfree, ConcWaiters \ {r}),
           d \in IF "rdns" \in owned THEN GiveBack(rfree, RdnsWaiters \ {r}) ELSE Keep(rfree) :
        granted' = (granted \ {r}) \cup c.to \cup d.to
  BY DEF DropPermits
<1>2. r \notin ConcWaiters
  BY DEF ConcHolders, ConcWaiters, Working
<1>3. d.to \subseteq RdnsWaiters
  BY DEF GiveBack, Keep
<1>4. \A s \in d.to : pc[s] # "queued"
  BY <1>3 DEF RdnsWaiters
<1>5. Place(r)' = "ended" /\ Place(r) = "inside"
  BY EndedPlace, PlaceOf DEF TypeOK
<1>6. \A s \in Requests \ {r} : pc'[s] = pc[s]
  OBVIOUS
<1>7. CASE ConcWaiters = {}
  <2>1. c.to = {}
    BY <1>7 DEF GiveBack
  <2>2. \A s \in Requests \ {r} : Place(s)' = Place(s)
    BY <1>1, <1>4, <1>6, <2>1, SamePlace
  <2>3. Places' = [Places EXCEPT ![r] = "ended"]
    BY <1>5, <2>2, OnePlaceMoves
  <2>4. Gate!Leave(r)
    BY <1>5, <1>7, <2>3, GateSets DEF Gate!Leave, Gate!Move, Places
  <2> QED BY <2>4 DEF Gate!Next
<1>8. CASE ConcWaiters # {}
  <2>1. PICK w \in ConcWaiters : c.to = {w}
    BY <1>2, <1>8 DEF GiveBack
  <2>2. w \in Requests /\ w # r /\ pc[w] = "queued" /\ Place(w) = "waiting"
    BY <1>2, PlaceOf DEF ConcWaiters
  <2>3. \A s \in Requests \ {r, w} : Place(s)' = Place(s)
    BY <1>1, <1>4, <1>6, <2>1, SamePlace
  <2>4. w \in granted' /\ pc'[w] = "queued"
    BY <1>1, <1>6, <2>1, <2>2
  <2>5. Place(w)' = "inside"
    BY <2>2, <2>4 DEF Place, ConcHolders
  <2>6. Places' = [Places EXCEPT ![r] = "ended", ![w] = "inside"]
    BY <1>5, <2>2, <2>3, <2>5, TwoPlacesMove
  <2>7. Gate!HandOver(r, w)
    BY <1>5, <2>2, <2>6 DEF Gate!HandOver, Places
  <2> QED BY <2>2, <2>7 DEF Gate!Next
<1> QED BY <1>7, <1>8

\* What Respond does to the places: only the answered request's may change.
LEMMA RespondPlaces ==
  ASSUME TypeOK, NEW r \in Requests, NEW code, NEW events, Respond(r, code, events)
  PROVE  /\ pc' = [pc EXCEPT ![r] = "done"] /\ status'[r] = code
         /\ \A s \in Requests \ {r} : pc'[s] = pc[s] /\ status'[s] = status[s]
BY DEF Respond, TypeOK

LEMMA GateStep ==
  ASSUME TypeOK, TypeOK', RequestInv, PermitAccounting, NoIdlePermit, [Next]_vars
  PROVE  [Gate!Next]_Places
<1>1. ASSUME NEW r \in Requests, ServeMonitoring(r) \/ RateLimited(r)
      PROVE  Gate!Next
  <2>1. PICK code, events : code \in {200, 401, 429} /\ Respond(r, code, events)
    BY <1>1 DEF ServeMonitoring, RateLimited
  <2>2. pc[r] = "idle" /\ granted' = granted
    BY <1>1 DEF ServeMonitoring, RateLimited
  <2>3. Place(r) = "out" /\ Place(r)' = "ended"
    BY <2>1, <2>2, RespondPlaces, PlaceOf, EndedPlace DEF Ended, TypeOK
  <2>4. \A s \in Requests \ {r} : Place(s)' = Place(s)
    BY <2>1, <2>2, RespondPlaces, SamePlace
  <2>5. Gate!Bypass(r)
    BY <2>3, <2>4, OnePlaceMoves DEF Gate!Bypass, Gate!Move, Places
  <2> QED BY <2>5 DEF Gate!Next
<1>2. ASSUME NEW r \in Requests, Arrive(r)
      PROVE  Gate!Next
  <2>1. /\ pc[r] = "idle" /\ granted' = granted /\ status' = status
        /\ \A s \in Requests \ {r} : pc'[s] = pc[s]
    BY <1>2 DEF Arrive, TypeOK
  <2>2. Place(r) = "out" /\ \A s \in Requests \ {r} : Place(s)' = Place(s)
    BY <2>1, PlaceOf, SamePlace
  <2>3. r \notin granted
    BY <2>1 DEF RequestInv
  <2>4. CASE cfree > 0
    <3>1. pc'[r] = "handler"
      BY <1>2, <2>4 DEF Arrive, TypeOK
    <3>2. Place(r)' = "inside"
      BY <3>1 DEF Place, ConcHolders, Working
    <3>3. Gate!Enter(r)
      BY <2>2, <2>4, <3>2, OnePlaceMoves, GateSets DEF Gate!Enter, Gate!Move, Places
    <3> QED BY <3>3 DEF Gate!Next
  <2>5. CASE ~(cfree > 0)
    <3>1. pc'[r] = "queued" /\ cfree = 0
      BY <1>2, <2>5 DEF Arrive, TypeOK
    <3>2. Place(r)' = "waiting"
      BY <2>1, <2>3, <3>1 DEF Place, ConcHolders, Working
    <3>3. Gate!Queue(r)
      BY <2>2, <3>1, <3>2, OnePlaceMoves, GateSets DEF Gate!Queue, Gate!Move, Places
    <3> QED BY <3>3 DEF Gate!Next
  <2> QED BY <2>4, <2>5
<1>3. ASSUME NEW r \in Requests, Busy(r)
      PROVE  Gate!Next
  <2>1. r \in ConcWaiters /\ granted' = granted /\ Respond(r, 503, {})
    BY <1>3 DEF Busy, ConcWaiters
  <2>2. cfree = 0
    BY <2>1 DEF NoIdlePermit
  <2>3. Place(r) = "waiting" /\ Place(r)' = "refused"
    BY <2>1, RespondPlaces, PlaceOf, EndedPlace DEF Ended, TypeOK
  <2>4. \A s \in Requests \ {r} : Place(s)' = Place(s)
    BY <2>1, RespondPlaces, SamePlace
  <2>5. Gate!Refuse(r)
    BY <2>2, <2>3, <2>4, OnePlaceMoves, GateSets DEF Gate!Refuse, Gate!Move, Places
  <2> QED BY <2>5 DEF Gate!Next
<1>4. ASSUME NEW r \in Requests,
             \/ HandlePlain(r) \/ HandleTyped(r) \/ SkipRdns(r) \/ RecheckHit(r)
             \/ LookupAnswered(r) \/ LookupTimedOut(r) \/ RequestTimedOut(r)
      PROVE  Gate!Next
  <2>1. PICK code, events : code \in {200, 404, 504} /\ Respond(r, code, events)
    BY <1>4 DEF HandlePlain, HandleTyped, SkipRdns, RecheckHit, LookupAnswered,
                LookupTimedOut, RequestTimedOut
  <2>2. PICK owned : "conc" \in owned /\ DropPermits(r, owned)
    BY <1>4 DEF HandlePlain, HandleTyped, SkipRdns, RecheckHit, LookupAnswered,
                LookupTimedOut, RequestTimedOut
  <2>3. r \in ConcHolders
    BY <1>4 DEF HandlePlain, HandleTyped, SkipRdns, RecheckHit, LookupAnswered,
                LookupTimedOut, RequestTimedOut, DeadlinePassed, ConcHolders, Working
  <2>4. /\ pc'[r] = "done" /\ status'[r] # 503
        /\ \A s \in Requests \ {r} : pc'[s] = pc[s]
        /\ \A s \in Requests \ {r} : status'[s] = status[s]
    BY <2>1, RespondPlaces DEF TypeOK
  <2>5. pc'[r] \in Ended /\ (pc'[r] = "done" => status'[r] # 503)
    BY <2>4 DEF Ended
  <2> QED BY <2>2, <2>3, <2>4, <2>5, HolderEnds
<1>5. ASSUME NEW r \in Requests, Disconnect(r)
      PROVE  Gate!Next
  <2>1. /\ pc' = [pc EXCEPT ![r] = "gone"] /\ status' = status /\ pc[r] \in Awaits
        /\ DropPermits(r, Owned(r))
    BY <1>5 DEF Disconnect, GiveUpDrops
  <2>2. CASE r \in ConcHolders
    <3>1. "conc" \in Owned(r)
      BY <2>1, <2>2 DEF Owned, ConcHolders, Working
    <3>2. /\ pc'[r] \in Ended /\ (pc'[r] = "done" => status'[r] # 503)
          /\ \A s \in Requests \ {r} : pc'[s] = pc[s]
          /\ \A s \in Requests \ {r} : status'[s] = status[s]
      BY <2>1 DEF Ended, TypeOK
    <3> QED BY <2>1, <2>2, <3>1, <3>2, HolderEnds
  <2>3. CASE r \notin ConcHolders
    <3>1. r \in ConcWaiters /\ Owned(r) = {}
      BY <2>1, <2>3 DEF Owned, ConcHolders, ConcWaiters, Working, Awaits
    <3>2. granted' = granted \ {r}
      BY <2>1, <3>1 DEF DropPermits, Keep
    <3>3. Place(r) = "waiting" /\ Place(r)' = "ended"
      BY <2>1, <3>1, PlaceOf, EndedPlace DEF Ended, TypeOK
    <3>4. \A s \in Requests \ {r} : pc'[s] = pc[s]
      BY <2>1 DEF TypeOK
    <3>5. \A s \in Requests \ {r} : Place(s)' = Place(s)
      BY <2>1, <3>2, <3>4, SamePlace
    <3>6. Gate!Abandon(r)
      BY <3>3, <3>5, OnePlaceMoves DEF Gate!Abandon, Gate!Move, Places
    <3> QED BY <3>6 DEF Gate!Next
  <2> QED BY <2>2, <2>3
<1>6. ASSUME NEW r \in Requests,
             \/ Dequeue(r) \/ AcquireRdns(r) \/ GotRdnsPermit(r)
             \/ RecheckMiss(r) \/ SpawnLookup(r)
      PROVE  Places' = Places
  <2>1. /\ status' = status /\ \A s \in Requests \ {r} : pc'[s] = pc[s]
        /\ \A s \in Requests \ {r} : s \in granted' <=> s \in granted
        /\ pc'[r] \in Working
    BY <1>6 DEF Dequeue, AcquireRdns, GotRdnsPermit, RecheckMiss, SpawnLookup, TypeOK, Working
  <2>2. r \in ConcHolders /\ Place(r)' = "inside"
    BY <1>6, <2>1 DEF Dequeue, AcquireRdns, GotRdnsPermit, RecheckMiss, SpawnLookup, Place, ConcHolders, Working
  <2>3. \A s \in Requests \ {r} : Place(s)' = Place(s)
    BY <2>1, SamePlace
  <2> QED BY <2>2, <2>3, PlaceOf, NoPlaceMoves
<1>7. ASSUME NEW r \in Requests, ReturnLookup(r)
      PROVE  Places' = Places
  <2>1. PICK d \in GiveBack(rfree, RdnsWaiters) : granted' = granted \cup d.to
    BY <1>7 DEF ReturnLookup
  <2>2. \A s \in d.to : pc[s] # "queued"
    BY DEF GiveBack, RdnsWaiters
  <2>3. pc' = pc /\ status' = status
    BY <1>7 DEF ReturnLookup
  <2> QED BY <2>1, <2>2, <2>3, SamePlace, NoPlaceMoves
<1>8. CASE \/ \E r \in Requests : StoreAnswer(r)
           \/ \E a \in Ips : ForgetAnswer(a)
           \/ Tick \/ UNCHANGED vars
  <2>1. UNCHANGED <<pc, status, granted>>
    BY <1>8 DEF StoreAnswer, ForgetAnswer, Tick, vars
  <2> QED BY <2>1, SamePlace, NoPlaceMoves
<1> QED BY <1>1, <1>2, <1>3, <1>4, <1>5, <1>6, <1>7, <1>8 DEF Next, Step

\* concurrency_mw with everything around it implements the abstract gate.
THEOREM PipelineImplementsAdmission == Spec => ImplementsAdmission
<1>1. Init => Gate!Init
  <2> SUFFICES ASSUME Init PROVE Gate!Init
    OBVIOUS
  <2>1. TypeOK /\ \A r \in Requests : pc[r] = "idle"
    BY PipelineInit DEF Init
  <2>2. \A r \in Requests : Place(r) = "out"
    BY <2>1, PlaceOf
  <2> QED BY <2>2 DEF Gate!Init, Places
<1>2. /\ TypeOK /\ RequestInv /\ PermitAccounting /\ NoIdlePermit /\ [Next]_vars /\ TypeOK'
      => [Gate!Next]_Places
  BY GateStep
<1> QED
  BY <1>1, <1>2, PipelineInvariant, NoPermitIdles, PTL DEF Spec, ImplementsAdmission, Gate!Spec
=============================================================================
