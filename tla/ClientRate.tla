----------------------------- MODULE ClientRate -----------------------------
(***************************************************************************)
(* What the rate limiter promises: each client key owns one bucket that    *)
(* fills continuously up to a burst, an admission takes one token, and a   *)
(* rejection names the first whole second at which the client may succeed. *)
(* No cache, no locks, no lazily computed refill.  Nothing is promised to  *)
(* a forgotten key.                                                        *)
(***************************************************************************)
EXTENDS Integers

CONSTANTS Keys, Limits, Second, Minute

VARIABLES per_minute, now, level, forgotten, retry_at

vars == <<per_minute, now, level, forgotten, retry_at>>

Burst == per_minute * Minute

Init ==
  /\ per_minute \in Limits
  /\ now = 0
  /\ level = [k \in Keys |-> Burst]
  /\ forgotten = {}
  /\ retry_at = [k \in Keys |-> 0]

Admit(k) ==
  /\ level[k] >= Minute
  /\ level' = [level EXCEPT ![k] = @ - Minute]
  /\ retry_at' = [retry_at EXCEPT ![k] = 0]
  /\ UNCHANGED <<per_minute, now, forgotten>>

\* No bucket needs longer than a minute to earn a token.
Answers == 0 .. now + Minute + Second

\* A whole number of seconds from now: at that moment the bucket holds a token
\* if nobody takes one before, and a second earlier it does not.
FirstSecond(k, at) ==
  /\ at > now
  /\ (at - now) % Second = 0
  /\ level[k] + per_minute * (at - now) >= Minute
  /\ level[k] + per_minute * (at - Second - now) < Minute

Reject(k) ==
  /\ level[k] < Minute
  /\ \E at \in Answers : FirstSecond(k, at) /\ retry_at' = [retry_at EXCEPT ![k] = at]
  /\ UNCHANGED <<per_minute, now, level, forgotten>>

Tick ==
  /\ now' = now + 1
  /\ level' = [k \in Keys |-> IF k \in forgotten \/ level[k] + per_minute > Burst
                              THEN Burst ELSE level[k] + per_minute]
  /\ UNCHANGED <<per_minute, forgotten, retry_at>>

Forget(k) ==
  /\ forgotten' = forgotten \cup {k}
  /\ level' = [level EXCEPT ![k] = Burst]
  /\ UNCHANGED <<per_minute, now, retry_at>>

\* A forgotten key may be told anything.
AnswerForgotten(k) ==
  /\ k \in forgotten
  /\ \E at \in Answers : retry_at' = [retry_at EXCEPT ![k] = at]
  /\ UNCHANGED <<per_minute, now, level, forgotten>>

Next ==
  \/ \E k \in Keys : \/ k \notin forgotten /\ (Admit(k) \/ Reject(k))
                     \/ Forget(k) \/ AnswerForgotten(k)
  \/ Tick

Spec == Init /\ [][Next]_vars
=============================================================================
