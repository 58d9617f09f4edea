----------------------------- MODULE Connections -----------------------------
(***************************************************************************)
(* The accept loop and the graceful shutdown of src/server.rs, with the    *)
(* limits and the signal of src/main.rs.  The acceptor is one task; each   *)
(* connection is a task of its own that owns a permit.  Clients come, go   *)
(* and come back as they like.  What hyper does inside a connection is     *)
(* reduced to when a request's headers begin and are complete and when it  *)
(* is answered; the application to the two waits of src/app.rs that a      *)
(* request goes through, for a permit and under the request timeout.       *)
(*                                                                         *)
(* Timers count down in ticks.  Time does not pass while a timer that has  *)
(* run out, or the shutdown signal, has not been acted upon.               *)
(***************************************************************************)
EXTENDS Integers, FiniteSets

CONSTANTS
  Clients,         \* at most one connection each
  MaxConnections,  \* MAX_CONNECTIONS
  HeaderTimeout,   \* HEADER_READ_TIMEOUT
  QueueWait,       \* the 5 s of concurrency_mw
  RequestTimeout,  \* REQUEST_TIMEOUT
  GraceExtra,      \* the 5 s main adds to REQUEST_TIMEOUT
  Backoff          \* the 1 s of accept_error

ASSUME ClientsAssumption == IsFiniteSet(Clients)
ASSUME LimitsAssumption ==
  /\ MaxConnections \in Nat \ {0}
  /\ HeaderTimeout \in Nat
  /\ QueueWait \in Nat \ {0} /\ RequestTimeout \in Nat \ {0} /\ Backoff \in Nat
  /\ GraceExtra \in Nat /\ GraceExtra >= QueueWait

VARIABLES
  acceptor,  \* where serve() is
  signal,    \* ctrl-c or SIGTERM has been received
  free,      \* free permits of `connections`
  conn,      \* what each client's connection is doing
  left,      \* ticks the headers or the request may stay where they are
  wait,      \* what is left of the acceptor's sleep or of shutdown_grace
  lookups,   \* clients whose request left a reverse lookup running
  inflight   \* history: requests that the drain found and that are not over yet

vars == <<acceptor, signal, free, conn, left, wait, lookups, inflight>>

\* acquire: selects on a permit; accept: has it, selects on listener.accept();
\* backoff: sleeps in accept_error; drain: awaits graceful.shutdown();
\* returned: serve() is over, the runtime is shut down; exited: no process.
AcceptorStates == {"acquire", "accept", "backoff", "drain", "returned", "exited"}
Looping == {"acquire", "accept", "backoff"}

\* backlog: not accepted yet; open: idle, or a response on its way; reading: a
\* part of the headers has come; queued: a request in concurrency_mw; handled: one
\* under timeout_mw; closing: answered for the last time.
ConnStates == {"away", "backlog", "open", "reading", "queued", "handled", "closing"}
Accepted == {c \in Clients : conn[c] \in {"open", "reading", "queued", "handled", "closing"}}

\* shutdown_grace
Grace == RequestTimeout + GraceExtra

Init ==
  /\ acceptor = "acquire"
  /\ signal = FALSE
  /\ free = MaxConnections
  /\ conn = [c \in Clients |-> "away"]
  /\ left = [c \in Clients |-> 0]
  /\ wait = 0
  /\ lookups = {}
  /\ inflight = {}

-----------------------------------------------------------------------------
\* The acceptor.

\* The kernel queues a client while the listener is open.
Connect(c) ==
  /\ acceptor \in Looping /\ conn[c] = "away"
  /\ conn' = [conn EXCEPT ![c] = "backlog"]
  /\ UNCHANGED <<acceptor, signal, free, left, wait, lookups, inflight>>

AcquirePermit ==
  /\ acceptor = "acquire" /\ free > 0
  /\ acceptor' = "accept"
  /\ free' = free - 1
  /\ UNCHANGED <<signal, conn, left, wait, lookups, inflight>>

\* The permit moves into the connection's task.
Accept(c) ==
  /\ acceptor = "accept" /\ conn[c] = "backlog"
  /\ acceptor' = "acquire"
  /\ conn' = [conn EXCEPT ![c] = "open"]
  /\ UNCHANGED <<signal, free, left, wait, lookups, inflight>>

\* Slip: the permit is leaked when accept fails.
LeakPermit == free

\* `continue` and `break` drop the permit the loop still holds.
DropPermit == free + 1

\* accept_error returns at once for a connection that failed on its own.
AcceptAborted(c) ==
  /\ acceptor = "accept" /\ conn[c] = "backlog"
  /\ acceptor' = "acquire"
  /\ free' = DropPermit
  /\ conn' = [conn EXCEPT ![c] = "away"]
  /\ UNCHANGED <<signal, left, wait, lookups, inflight>>

\* Any other error: the client stays in the backlog, the loop sleeps with the
\* permit in hand and does not look at the shutdown signal.
AcceptFails ==
  /\ acceptor = "accept" /\ \E c \in Clients : conn[c] = "backlog"
  /\ acceptor' = "backoff"
  /\ wait' = Backoff
  /\ UNCHANGED <<signal, free, conn, left, lookups, inflight>>

BackoffOver ==
  /\ acceptor = "backoff" /\ wait = 0
  /\ acceptor' = "acquire"
  /\ free' = DropPermit
  /\ UNCHANGED <<signal, conn, left, wait, lookups, inflight>>

Signal ==
  /\ ~signal /\ acceptor \in Looping
  /\ signal' = TRUE
  /\ UNCHANGED <<acceptor, free, conn, left, wait, lookups, inflight>>

\* Slip: only the second select watches the signal.
SeenWhileAccepting == acceptor = "accept"

\* The awaits that are in a select with the shutdown signal.
ShutdownSeen == acceptor \in {"acquire", "accept"}

\* A request that was in the application before the tick of the drain.
BegunBefore(c) == conn[c] = "handled" \/ (conn[c] = "queued" /\ left[c] < QueueWait)

\* Either select may take the shutdown branch: the loop is left, the listener
\* closed with its backlog, and every connection told to finish.
LeaveLoop ==
  /\ signal /\ ShutdownSeen
  /\ acceptor' = "drain"
  /\ free' = IF acceptor = "accept" THEN DropPermit ELSE free
  /\ conn' = [c \in Clients |-> IF conn[c] = "backlog" THEN "away" ELSE conn[c]]
  /\ wait' = Grace
  /\ inflight' = {c \in Clients : BegunBefore(c)}
  /\ UNCHANGED <<signal, left, lookups>>

\* Every connection has ended.
Drained ==
  /\ acceptor = "drain" /\ Accepted = {}
  /\ acceptor' = "returned"
  /\ wait' = 0
  /\ UNCHANGED <<signal, free, conn, left, lookups, inflight>>

\* Slip: graceful.shutdown() is awaited without a timeout.
NeverOver == FALSE

GraceOver == wait = 0

\* "graceful shutdown timed out; dropping remaining connections": serve returns,
\* main ends and the runtime drops the tasks with their permits.
GiveUp ==
  /\ acceptor = "drain" /\ Accepted # {} /\ GraceOver
  /\ acceptor' = "returned"
  /\ free' = MaxConnections
  /\ conn' = [c \in Clients |-> "away"]
  /\ left' = [c \in Clients |-> 0]
  /\ inflight' = {}
  /\ UNCHANGED <<signal, wait, lookups>>

\* Dropping the runtime waits for the blocking lookups that still run.
Exit ==
  /\ acceptor = "returned" /\ lookups = {}
  /\ acceptor' = "exited"
  /\ UNCHANGED <<signal, free, conn, left, wait, lookups, inflight>>

-----------------------------------------------------------------------------
\* The connections.

\* Slip: the timer of the header timeout is never armed.
Unarmed(c) == FALSE

\* header_read_timeout has run out.
HeadersLate(c) == conn[c] = "reading" /\ left[c] = 0

\* The first bytes of a request: header_read_timeout starts.  During the drain
\* too: hyper closes idle connections but lets one finish whose request was
\* being read.
ReadHeaders(c) ==
  /\ conn[c] = "open"
  /\ conn' = [conn EXCEPT ![c] = "reading"]
  /\ left' = [left EXCEPT ![c] = HeaderTimeout]
  /\ UNCHANGED <<acceptor, signal, free, wait, lookups, inflight>>

\* The headers are complete in time: the wait for a permit begins.
Begin(c) ==
  /\ conn[c] = "reading" /\ ~HeadersLate(c)
  /\ conn' = [conn EXCEPT ![c] = "queued"]
  /\ left' = [left EXCEPT ![c] = QueueWait]
  /\ UNCHANGED <<acceptor, signal, free, wait, lookups, inflight>>

\* A permit has come, at once or as late as in the last instant.
Admit(c) ==
  /\ conn[c] = "queued"
  /\ conn' = [conn EXCEPT ![c] = "handled"]
  /\ left' = [left EXCEPT ![c] = RequestTimeout]
  /\ UNCHANGED <<acceptor, signal, free, wait, lookups, inflight>>

StartLookup(c) ==
  /\ conn[c] = "handled"
  /\ lookups' = lookups \cup {c}
  /\ UNCHANGED <<acceptor, signal, free, conn, left, wait, inflight>>

LookupReturns(c) ==
  /\ c \in lookups
  /\ lookups' = lookups \ {c}
  /\ UNCHANGED <<acceptor, signal, free, conn, left, wait, inflight>>

\* Slip: concurrency_mw waits for its permit without a timeout.
PatientQueue(c) == FALSE

\* 503 is due.
QueueOver(c) == conn[c] = "queued" /\ left[c] = 0

\* 504 is due.
HandlerOver(c) == conn[c] = "handled" /\ left[c] = 0

\* The application answers: past the queue (429, a probe), with 503, with what the
\* handler says or with 504.  Keep-alive ends with the loop.
Answer(c) ==
  /\ conn[c] \in {"queued", "handled"}
  /\ conn' = [conn EXCEPT ![c] = IF acceptor = "drain" THEN "closing" ELSE "open"]
  /\ left' = [left EXCEPT ![c] = 0]
  /\ inflight' = inflight \ {c}
  /\ UNCHANGED <<acceptor, signal, free, wait, lookups>>

\* The connection's task ends, with an error or not, and drops its permit.
ConnectionEnds(c) ==
  /\ conn' = [conn EXCEPT ![c] = "away"]
  /\ left' = [left EXCEPT ![c] = 0]
  /\ free' = free + 1
  /\ inflight' = inflight \ {c}
  /\ UNCHANGED <<acceptor, signal, wait, lookups>>

\* The client hangs up, also in the middle of a request, or hyper closes at the
\* end of keep-alive.
Close(c) == c \in Accepted /\ ConnectionEnds(c)

\* The headers are not complete in time.
CutOff(c) == HeadersLate(c) /\ ConnectionEnds(c)

-----------------------------------------------------------------------------
\* What the runtime does before it lets time pass.
Due ==
  \/ acceptor \in {"backoff", "drain"} /\ wait = 0
  \/ signal /\ ShutdownSeen
  \/ \E c \in Clients : HeadersLate(c) \/ QueueOver(c) \/ HandlerOver(c)

\* One tick off a timer.
Less(n) == IF n > 0 THEN n - 1 ELSE 0

Tick ==
  /\ ~Due /\ acceptor \notin {"returned", "exited"}
  /\ wait' = Less(wait)
  /\ left' = [c \in Clients |-> Less(left[c])]
  /\ UNCHANGED <<acceptor, signal, free, conn, lookups, inflight>>

Acceptor == AcquirePermit \/ BackoffOver \/ Drained \/ GiveUp \/ Exit

Next ==
  \/ Acceptor \/ AcceptFails \/ Signal \/ LeaveLoop \/ Tick
  \/ \E c \in Clients : \/ Connect(c) \/ Accept(c) \/ AcceptAborted(c)
                        \/ ReadHeaders(c) \/ Begin(c) \/ CutOff(c) \/ Admit(c)
                        \/ StartLookup(c) \/ LookupReturns(c) \/ Answer(c) \/ Close(c)

Spec == Init /\ [][Next]_vars

\* select! picks a ready branch at random, so the shutdown branch cannot lose
\* for ever against clients that keep coming (strong fairness).  The rest of
\* the acceptor runs when it can, the clock runs, concurrency_mw and timeout_mw
\* answer when their time is up and hyper's timer fires.  Nothing is assumed of
\* clients, nor that a queued request gets its permit.
Fairness ==
  /\ WF_vars(Acceptor) /\ SF_vars(LeaveLoop) /\ WF_vars(Tick)
  /\ \A c \in Clients : /\ WF_vars((QueueOver(c) \/ HandlerOver(c)) /\ Answer(c))
                        /\ WF_vars(CutOff(c))

LiveSpec == Spec /\ Fairness

\* The resolver gives up at some time.
FairResolver == \A c \in Clients : WF_vars(LookupReturns(c))

-----------------------------------------------------------------------------
TypeOK ==
  /\ acceptor \in AcceptorStates
  /\ signal \in BOOLEAN
  /\ free \in Nat
  /\ conn \in [Clients -> ConnStates]
  /\ left \in [Clients -> Nat]
  /\ wait \in Nat
  /\ lookups \subseteq Clients
  /\ inflight \subseteq Clients

InHand == IF acceptor \in {"accept", "backoff"} THEN 1 ELSE 0

\* Every connection permit is free, in the acceptor's hand or owned by one open
\* connection, through aborted and failed accepts, backoff and shutdown.  So
\* at most MAX_CONNECTIONS are open, and failed accepts never use them up.
SlotAccounting == free + InHand + Cardinality(Accepted) = MaxConnections

\* shutdown_grace is REQUEST_TIMEOUT + 5 s: when it ends, every request that was in
\* the application before the drain has been answered or abandoned by its client,
\* also one that spent the 5 s in the queue, got its permit in the last instant and
\* then took all of REQUEST_TIMEOUT.  (A request of the drain's own tick may be
\* cut off, and so may a response that the client is still reading.)
InFlightDrained == [][GiveUp => inflight = {}]_vars

\* Idle, slow and returning clients cannot keep serve() from returning.
ShutdownReturns == signal ~> acceptor \in {"returned", "exited"}

\* header_read_timeout, "slowloris guard": whoever has begun to send headers
\* completes them or loses the connection and its permit, before, during and after
\* the signal, however slowly the client goes on.
SlowHeadersEnd == \A c \in Clients : conn[c] = "reading" ~> conn[c] # "reading"

\* The process goes away, provided that the resolver gives up.
ProcessExits == FairResolver => (signal ~> acceptor = "exited")
=============================================================================
