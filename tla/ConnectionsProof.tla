-------------------------- MODULE ConnectionsProof --------------------------
(***************************************************************************)
(* Proofs about the accept loop, for any number of clients, connections    *)
(* and any durations with GraceExtra >= QueueWait.                         *)
(***************************************************************************)
EXTENDS Connections, FiniteSetTheorems, TLAPS

LEMMA AcceptedFinite ==
  IsFiniteSet(Accepted) /\ Cardinality(Accepted) \in Nat
  <1>1. Accepted \subseteq Clients
    BY DEF Accepted
  <1> QED
    BY <1>1, ClientsAssumption, FS_Subset, FS_CardinalityType

\* A step that opens or closes no connection moves permits only between the
\* semaphore and the acceptor's hand.
LEMMA SameConnections ==
  ASSUME TypeOK, SlotAccounting, Accepted' = Accepted,
         free' + InHand' = free + InHand
  PROVE  SlotAccounting'
  BY AcceptedFinite DEF SlotAccounting, InHand, TypeOK

LEMMA ConnectionsStep ==
  ASSUME TypeOK, SlotAccounting, [Next]_vars
  PROVE  TypeOK' /\ SlotAccounting'
  <1> USE LimitsAssumption DEF TypeOK, AcceptorStates, ConnStates
  <1>1. CASE AcquirePermit
    <2>1. Accepted' = Accepted /\ free' + InHand' = free + InHand
      BY <1>1 DEF AcquirePermit, Accepted, InHand
    <2> QED
      BY <1>1, <2>1, SameConnections DEF AcquirePermit
  <1>2. ASSUME NEW c \in Clients, Accept(c)
        PROVE  TypeOK' /\ SlotAccounting'
    <2>1. c \notin Accepted /\ Accepted' = Accepted \cup {c}
      BY <1>2 DEF Accept, Accepted
    <2>2. Cardinality(Accepted') = Cardinality(Accepted) + 1
      BY <2>1, AcceptedFinite, FS_AddElement
    <2>3. SlotAccounting'
      BY <1>2, <2>2, AcceptedFinite DEF Accept, SlotAccounting, InHand
    <2> QED
      BY <1>2, <2>3 DEF Accept
  <1>3. ASSUME NEW c \in Clients, AcceptAborted(c)
        PROVE  TypeOK' /\ SlotAccounting'
    <2>1. Accepted' = Accepted /\ free' + InHand' = free + InHand
      BY <1>3 DEF AcceptAborted, Accepted, InHand, DropPermit
    <2> QED
      BY <1>3, <2>1, SameConnections DEF AcceptAborted, DropPermit
  <1>4. CASE AcceptFails
    <2>1. Accepted' = Accepted /\ free' + InHand' = free + InHand
      BY <1>4 DEF AcceptFails, Accepted, InHand
    <2> QED
      BY <1>4, <2>1, SameConnections DEF AcceptFails
  <1>5. CASE BackoffOver
    <2>1. Accepted' = Accepted /\ free' + InHand' = free + InHand
      BY <1>5 DEF BackoffOver, Accepted, InHand, DropPermit
    <2> QED
      BY <1>5, <2>1, SameConnections DEF BackoffOver, DropPermit
  <1>6. CASE LeaveLoop
    <2>1. Accepted' = Accepted
      BY <1>6 DEF LeaveLoop, Accepted
    <2>2. free' + InHand' = free + InHand
      BY <1>6 DEF LeaveLoop, ShutdownSeen, InHand, DropPermit
    <2>3. SlotAccounting'
      BY <2>1, <2>2, SameConnections
    <2> QED
      BY <1>6, <2>3 DEF LeaveLoop, DropPermit, Grace
  <1>7. CASE GiveUp
    <2>1. Accepted' = {} /\ InHand' = 0
      BY <1>7 DEF GiveUp, Accepted, InHand
    <2>2. SlotAccounting'
      BY <1>7, <2>1, FS_EmptySet DEF GiveUp, SlotAccounting
    <2> QED
      BY <1>7, <2>2 DEF GiveUp
  <1>8. ASSUME NEW c \in Clients, Close(c) \/ CutOff(c)
        PROVE  TypeOK' /\ SlotAccounting'
    <2>1. c \in Accepted /\ Accepted' = Accepted \ {c}
      BY <1>8 DEF Close, CutOff, HeadersLate, ConnectionEnds, Accepted
    <2>2. Cardinality(Accepted') = Cardinality(Accepted) - 1
      BY <2>1, AcceptedFinite, FS_RemoveElement
    <2>3. SlotAccounting'
      BY <1>8, <2>2, AcceptedFinite DEF Close, CutOff, ConnectionEnds, SlotAccounting, InHand
    <2> QED
      BY <1>8, <2>3 DEF Close, CutOff, ConnectionEnds
  <1>9. ASSUME NEW c \in Clients, ReadHeaders(c) \/ Begin(c) \/ Admit(c) \/ Answer(c)
        PROVE  TypeOK' /\ SlotAccounting'
    <2>1. Accepted' = Accepted /\ free' + InHand' = free + InHand
      BY <1>9 DEF ReadHeaders, Begin, Admit, Answer, Accepted, InHand
    <2>2. SlotAccounting'
      BY <2>1, SameConnections
    <2>3. CASE Begin(c)
      BY <2>2, <2>3 DEF Begin
    <2>4. CASE Answer(c)
      BY <2>2, <2>4 DEF Answer
    <2>5. CASE ReadHeaders(c)
      BY <2>2, <2>5 DEF ReadHeaders
    <2>6. CASE Admit(c)
      BY <2>2, <2>6 DEF Admit
    <2> QED
      BY <1>9, <2>3, <2>4, <2>5, <2>6
  <1>10. ASSUME NEW c \in Clients, Connect(c) \/ StartLookup(c) \/ LookupReturns(c)
         PROVE  TypeOK' /\ SlotAccounting'
    <2>1. Accepted' = Accepted /\ free' + InHand' = free + InHand
      BY <1>10 DEF Connect, StartLookup, LookupReturns, Accepted, InHand
    <2> QED
      BY <1>10, <2>1, SameConnections DEF Connect, StartLookup, LookupReturns
  <1>11. CASE Drained \/ Exit \/ Signal \/ UNCHANGED vars
    <2>1. Accepted' = Accepted /\ free' + InHand' = free + InHand
      BY <1>11 DEF Drained, Exit, Signal, vars, Accepted, InHand
    <2>2. signal' \in BOOLEAN
      BY <1>11, Zenon DEF Drained, Exit, Signal, vars
    <2> QED
      BY <1>11, <2>1, <2>2, SameConnections DEF Drained, Exit, Signal, vars
  <1>12. CASE Tick
    <2>1. Accepted' = Accepted /\ free' + InHand' = free + InHand
      BY <1>12 DEF Tick, Accepted, InHand
    <2> QED
      BY <1>12, <2>1, SameConnections DEF Tick, Less
  <1> QED
    BY <1>1, <1>2, <1>3, <1>4, <1>5, <1>6, <1>7, <1>8, <1>9, <1>10, <1>11, <1>12
    DEF Next, Acceptor

\* The inductive invariant: permits are accounted for in well-typed states.
THEOREM ConnectionsInvariant == Spec => [](TypeOK /\ SlotAccounting)
  <1>1. Init => TypeOK /\ SlotAccounting
    <2> SUFFICES ASSUME Init PROVE TypeOK /\ SlotAccounting
      OBVIOUS
    <2>0. signal \in BOOLEAN
      BY ZenonT(20) DEF Init
    <2>1. TypeOK
      BY <2>0, LimitsAssumption DEF Init, TypeOK, AcceptorStates, ConnStates
    <2>2. Accepted = {} /\ InHand = 0
      BY DEF Init, Accepted, InHand
    <2>3. SlotAccounting
      BY <2>2, FS_EmptySet, LimitsAssumption DEF Init, SlotAccounting
    <2> QED
      BY <2>1, <2>3
  <1>2. TypeOK /\ SlotAccounting /\ [Next]_vars => (TypeOK /\ SlotAccounting)'
    BY ConnectionsStep
  <1> QED
    BY <1>1, <1>2, PTL DEF Spec

\* serve(): at most MAX_CONNECTIONS are open at once, and no way through the loop
\* loses a permit.
THEOREM SlotsAccounted == Spec => []SlotAccounting
  BY ConnectionsInvariant, PTL

\* Requests in flight at the drain are still in the application, and what is left of
\* shutdown_grace exceeds what they may still take there.
DrainInv ==
  \A c \in inflight :
    /\ conn[c] \in {"queued", "handled"}
    /\ conn[c] = "queued" => left[c] + RequestTimeout < wait
    /\ conn[c] = "handled" => left[c] < wait
    /\ acceptor = "drain"

\* The longest either request timer may run.
TimerInv ==
  \A c \in Clients :
    /\ conn[c] = "queued" => left[c] <= QueueWait
    /\ conn[c] = "handled" => left[c] <= RequestTimeout

LEMMA TimerStep ==
  ASSUME TypeOK, TimerInv, [Next]_vars
  PROVE  TimerInv'
  <1> USE LimitsAssumption DEF TypeOK, TimerInv
  <1>1. ASSUME NEW c \in Clients,
               \/ Connect(c) \/ Accept(c) \/ AcceptAborted(c) \/ StartLookup(c) \/ LookupReturns(c)
        PROVE  TimerInv'
    BY <1>1 DEF Connect, Accept, AcceptAborted, StartLookup, LookupReturns
  <1>2. ASSUME NEW c \in Clients, ReadHeaders(c) \/ Begin(c) \/ Admit(c) \/ Answer(c)
        PROVE  TimerInv'
    BY <1>2 DEF ReadHeaders, Begin, Admit, Answer
  <1>3. ASSUME NEW c \in Clients, Close(c) \/ CutOff(c)
        PROVE  TimerInv'
    BY <1>3 DEF Close, CutOff, ConnectionEnds
  <1>4. CASE Acceptor \/ AcceptFails \/ Signal \/ LeaveLoop \/ UNCHANGED vars
    BY <1>4 DEF Acceptor, AcquirePermit, BackoffOver, Drained, GiveUp, Exit, AcceptFails, Signal,
                LeaveLoop, vars
  <1>5. CASE Tick
    BY <1>5 DEF Tick, Less
  <1> QED
    BY <1>1, <1>2, <1>3, <1>4, <1>5 DEF Next

LEMMA DrainStep ==
  ASSUME TypeOK, TimerInv, DrainInv, [Next]_vars
  PROVE  DrainInv'
  <1> USE LimitsAssumption DEF TypeOK, DrainInv
  <1>1. ASSUME NEW c \in Clients,
               \/ Connect(c) \/ Accept(c) \/ AcceptAborted(c) \/ StartLookup(c) \/ LookupReturns(c)
        PROVE  DrainInv'
    BY <1>1 DEF Connect, Accept, AcceptAborted, StartLookup, LookupReturns, Looping
  <1>2. ASSUME NEW c \in Clients, ReadHeaders(c) \/ Begin(c)
        PROVE  DrainInv'
    BY <1>2 DEF ReadHeaders, Begin
  <1>3. ASSUME NEW c \in Clients, Admit(c)
        PROVE  DrainInv'
    <2>1. c \in inflight => RequestTimeout < wait
      BY <1>3 DEF Admit
    <2> QED
      BY <1>3, <2>1 DEF Admit
  <1>4. ASSUME NEW c \in Clients, Answer(c) \/ Close(c) \/ CutOff(c)
        PROVE  DrainInv'
    BY <1>4 DEF Answer, Close, CutOff, ConnectionEnds
  <1>5. CASE LeaveLoop
    <2>1. /\ acceptor' = "drain" /\ wait' = Grace /\ left' = left
          /\ inflight' = {c \in Clients : BegunBefore(c)}
          /\ \A c \in Clients : BegunBefore(c) => conn'[c] = conn[c]
      BY <1>5 DEF LeaveLoop, BegunBefore
    <2>2. ASSUME NEW c \in Clients, BegunBefore(c)
          PROVE  /\ conn[c] = "queued" => left[c] + RequestTimeout < Grace
                 /\ conn[c] = "handled" => left[c] < Grace
      BY <2>2 DEF BegunBefore, Grace, TimerInv
    <2>3. \A c \in Clients : BegunBefore(c) => conn[c] \in {"queued", "handled"}
      BY DEF BegunBefore
    <2> QED
      BY <2>1, <2>2, <2>3
  <1>6. CASE Drained
    BY <1>6 DEF Drained, Accepted
  <1>7. CASE GiveUp
    BY <1>7 DEF GiveUp
  <1>8. CASE Tick
    <2>1. ASSUME NEW c \in inflight
          PROVE  /\ wait' = wait - 1 /\ left'[c] = left[c] - 1 /\ left[c] \in Nat /\ wait \in Nat
      <3>1. wait # 0 /\ left[c] # 0
        BY <1>8 DEF Tick, Due, QueueOver, HandlerOver
      <3> QED
        BY <1>8, <3>1 DEF Tick, Less
    <2>2. conn' = conn /\ acceptor' = acceptor /\ inflight' = inflight
      BY <1>8 DEF Tick
    <2>3. ASSUME NEW c \in inflight
          PROVE  /\ conn[c] = "queued" => left'[c] + RequestTimeout < wait'
                 /\ conn[c] = "handled" => left'[c] < wait'
      <3>1. /\ conn[c] = "queued" => left[c] + RequestTimeout < wait
            /\ conn[c] = "handled" => left[c] < wait
        OBVIOUS
      <3> QED
        BY <2>1, <3>1
    <2> QED
      BY <2>2, <2>3
  <1>9. CASE AcquirePermit \/ BackoffOver \/ AcceptFails \/ Exit \/ Signal \/ UNCHANGED vars
    BY <1>9 DEF AcquirePermit, BackoffOver, AcceptFails, Exit, Signal, vars
  <1> QED
    BY <1>1, <1>2, <1>3, <1>4, <1>5, <1>6, <1>7, <1>8, <1>9 DEF Next, Acceptor

\* main: REQUEST_TIMEOUT + 5 s outlasts the queue's wait and the request timeout of
\* every request that was in the application before the drain, so none of them is
\* left when the grace is over.
THEOREM InFlightAreDrained == Spec => InFlightDrained
  <1>1. Init => TimerInv /\ DrainInv
    <2>1. Init => inflight = {} /\ \A c \in Clients : conn[c] = "away"
      BY DEF Init
    <2> QED
      BY <2>1 DEF TimerInv, DrainInv
  <1>2. TypeOK /\ TimerInv /\ DrainInv /\ [Next]_vars => (TimerInv /\ DrainInv)'
    BY TimerStep, DrainStep
  <1>3. TypeOK /\ DrainInv /\ [Next]_vars => [GiveUp => inflight = {}]_vars
    <2>1. ASSUME TypeOK, DrainInv, wait = 0, NEW c \in inflight
          PROVE  FALSE
      <3>1. left[c] \in Nat /\ RequestTimeout \in Nat
        BY <2>1, LimitsAssumption DEF TypeOK
      <3>2. left[c] + RequestTimeout < 0 \/ left[c] < 0
        BY <2>1 DEF DrainInv
      <3> QED
        BY <3>1, <3>2
    <2> QED
      BY <2>1 DEF GiveUp, GraceOver
  <1> QED
    BY <1>1, <1>2, <1>3, ConnectionsInvariant, PTL DEF Spec, InFlightDrained
=============================================================================
