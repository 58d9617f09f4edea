------------------------------ MODULE Admission ------------------------------
(***************************************************************************)
(* What concurrency_mw of src/app.rs promises: at most MaxConcurrency      *)
(* requests are inside at a time; who finds the service full waits; a      *)
(* place that becomes free goes to a waiter at once, if there is one; and  *)
(* nobody is refused unless the service is full at that moment.            *)
(***************************************************************************)
EXTENDS Naturals, FiniteSets

CONSTANTS Requests, MaxConcurrency

VARIABLE place  \* of each request: out, waiting, inside, refused or ended

Inside == {r \in Requests : place[r] = "inside"}
Waiting == {r \in Requests : place[r] = "waiting"}
Full == Cardinality(Inside) = MaxConcurrency

Init == place = [r \in Requests |-> "out"]

Move(r, from, to) == place[r] = from /\ place' = [place EXCEPT ![r] = to]

\* Rejected by the rate limiter, or a probe, which needs no place.
Bypass(r) == Move(r, "out", "ended")

Enter(r) == ~Full /\ Move(r, "out", "inside")
Queue(r) == Full /\ Move(r, "out", "waiting")
Refuse(r) == Full /\ Move(r, "waiting", "refused")
Abandon(r) == Move(r, "waiting", "ended")
Leave(r) == Waiting = {} /\ Move(r, "inside", "ended")

HandOver(r, w) ==
  /\ place[r] = "inside" /\ place[w] = "waiting"
  /\ place' = [place EXCEPT ![r] = "ended", ![w] = "inside"]

Next ==
  \/ \E r \in Requests : \/ Bypass(r) \/ Enter(r) \/ Queue(r)
                         \/ Refuse(r) \/ Abandon(r) \/ Leave(r)
  \/ \E r, w \in Requests : HandOver(r, w)

Spec == Init /\ [][Next]_place
=============================================================================
