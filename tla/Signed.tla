-------------------------------- MODULE Signed --------------------------------
(***************************************************************************)
(* Signed answers: sign.rs, and the judge and key handlers of src/app.rs.  *)
(* A checker holds the judge's key, asks /judge through a checked proxy    *)
(* and verifies what comes back.  The proxy may change the query on its    *)
(* way and deliver any body with any signature the judge ever made; only   *)
(* the key it cannot touch, since /key is fetched directly.  The checker   *)
(* does what the README's "Signed answers" asks of it.                     *)
(*                                                                         *)
(* A text is a sequence of symbols.  A signature is modelled by the key    *)
(* and the message it was made from: nobody but the owner of a key makes   *)
(* one (Ed25519).  SIGNING_KEY is FixedKey; keys drawn at start-up are     *)
(* numbered, since no two are the same.                                    *)
(***************************************************************************)
EXTENDS Naturals, Sequences, FiniteSets

CONSTANTS
  Symbols,     \* what texts are made of
  Checks,      \* the checks of a run
  NonceOf,     \* the random nonce of each check
  Direct,      \* the direct_ip the checker sends
  Spellings,   \* the texts that normalize_host takes for the checker's address
  Nonces,      \* nonce values that may reach the judge, the checks' own included
  Directs,     \* and direct_ip values, Direct included
  Bodies,      \* bodies that may reach the checker
  NonceChars,  \* the symbols of [A-Za-z0-9_-]
  NonceLen,    \* the lengths of a nonce: 8 to 64
  Replicas,    \* processes behind the judge's address
  MaxRestarts, \* bound: restarts of a process
  MaxAnswers   \* bound: answers of the judge

LF == "LF"
SignatureContext == <<"proxpulse-judge-v1", LF>>

FixedKey == 0
NoKey == MaxRestarts + 2
Keys == 0..MaxRestarts + 1

VARIABLES
  key,     \* the signing key of each running replica
  drawn,   \* keys drawn so far
  held,    \* the key the checker verifies with
  state,   \* of a check: idle, asked, answered, again, ok, modified, none
  answer,  \* body and signature the checker got
  made     \* every answer of the judge, with its query and the checks begun by then

vars == <<key, drawn, held, state, answer, made>>

\* Neither the range check nor the character check of a nonce lets a line feed through.
ValidNonce(n) == Len(n) \in NonceLen /\ \A i \in 1..Len(n) : n[i] \in NonceChars

NoLineFeed(t) == \A i \in 1..Len(t) : t[i] # LF

ASSUME NoncesAssumption ==
  /\ NonceOf \in [Checks -> Nonces]
  /\ \A c \in Checks : ValidNonce(NonceOf[c])
  /\ \A c, d \in Checks : c # d => NonceOf[c] # NonceOf[d]

ASSUME TextsAssumption ==
  /\ LF \in Symbols /\ LF \notin NonceChars /\ 0 \notin NonceLen
  /\ {"proxpulse-judge-v1", "elite", "transparent"} \subseteq Symbols
  /\ \A t \in Nonces \cup Directs \cup Bodies : t \in Seq(Symbols)
  /\ Direct \in Directs /\ NoLineFeed(Direct)

ASSUME BoundsAssumption == MaxRestarts \in Nat /\ MaxAnswers \in Nat /\ Replicas # {}

-----------------------------------------------------------------------------
\* sign.rs

\* A text, a line feed, and what follows.
Line(text, rest) == text \o (<<LF>> \o rest)

\* Slip: the challenge is left out of the message.
UnboundMessage(challenge, direct_ip, body) == SignatureContext \o Line(direct_ip, body)

\* message
Message(challenge, direct_ip, body) ==
  SignatureContext \o Line(challenge, Line(direct_ip, body))

Sign(k, challenge, direct_ip, body) == [key |-> k, msg |-> Message(challenge, direct_ip, body)]

\* The checker's side: Ed25519 verification of a delivered answer.
Verifies(k, c, a) == a.sig = Sign(k, NonceOf[c], Direct, a.body)

-----------------------------------------------------------------------------
\* The judge handler.

\* Slip: every direct_ip is signed as it came.
AnyDirect(d) == d

\* direct_raw: a value with a line feed counts as absent.
DirectRaw(d) == IF NoLineFeed(d) THEN d ELSE <<>>

\* Slip: a nonce is not looked at.
AnyChallenge(n) == n

Challenge(n) == IF ValidNonce(n) THEN n ELSE <<>>

\* The body, of which only the verdict matters: `leak` says that the client's address
\* is among the request's headers (Verdict models how the level is found).
Body(direct_ip, leak) == <<IF leak /\ direct_ip \in Spellings THEN "transparent" ELSE "elite">>

\* Slip: the signature covers the parsed address, not the text that was sent.
ParsedDirect(k, n, d, leak) ==
  LET body == Body(DirectRaw(d), leak)
      parsed == IF d \in Spellings THEN CHOOSE s \in Spellings : s # Direct ELSE <<>>
  IN  [body |-> body, sig |-> Sign(k, Challenge(n), parsed, body)]

\* judge, with the key of its replica
JudgeAnswer(k, n, d, leak) ==
  LET body == Body(DirectRaw(d), leak)
  IN  [body |-> body, sig |-> Sign(k, Challenge(n), DirectRaw(d), body)]

-----------------------------------------------------------------------------
\* SIGNING_KEY is set, or there is a single replica (README); from_seed_b64, generate.
Init ==
  /\ \/ \E R \in SUBSET Replicas \ {{}} : key = [r \in R |-> FixedKey]
     \/ \E r \in Replicas : key = [q \in {r} |-> 1]
  /\ drawn = 1
  /\ held = NoKey
  /\ state = [c \in Checks |-> "idle"]
  /\ answer = [c \in Checks |-> [body |-> <<>>, sig |-> [key |-> NoKey, msg |-> <<>>]]]
  /\ made = {}

Begun == {c \in Checks : state[c] # "idle"}

\* A replica restarts: its key is the seed's, or a new one.
Restart(r) ==
  /\ drawn <= MaxRestarts
  /\ drawn' = drawn + 1
  /\ key' = [key EXCEPT ![r] = IF @ = FixedKey THEN FixedKey ELSE drawn + 1]
  /\ UNCHANGED <<held, state, answer, made>>

\* GET /key when a run begins.
FetchKey(r) ==
  /\ held = NoKey
  /\ held' = key[r]
  /\ UNCHANGED <<key, drawn, state, answer, made>>

Ask(c) ==
  /\ held # NoKey /\ state[c] = "idle"
  /\ state' = [state EXCEPT ![c] = "asked"]
  /\ UNCHANGED <<key, drawn, held, answer, made>>

\* A request reaches a replica, its query as it was sent or not.  Nobody but the
\* checker knows a nonce that was not yet sent.
Judge(r, n, d, leak) ==
  /\ Begun # {} /\ \A c \in Checks \ Begun : n # NonceOf[c]
  /\ Cardinality(made) < MaxAnswers
  /\ made' = made \cup {[nonce |-> n, direct |-> d, leak |-> leak, begun |-> Begun,
                         got |-> JudgeAnswer(key[r], n, d, leak)]}
  /\ UNCHANGED <<key, drawn, held, state, answer>>

\* Something comes back through the proxy.
Deliver(c) ==
  /\ state[c] = "asked"
  /\ \E m \in made, body \in Bodies :
       answer' = [answer EXCEPT ![c] = [body |-> body, sig |-> m.got.sig]]
  /\ state' = [state EXCEPT ![c] = "answered"]
  /\ UNCHANGED <<key, drawn, held, made>>

\* No answer in time, or one without a signature.
NoAnswer(c) ==
  /\ state[c] = "asked"
  /\ state' = [state EXCEPT ![c] = "none"]
  /\ UNCHANGED <<key, drawn, held, answer, made>>

\* Slip: the first failure is final.
FailAtOnce(c) ==
  /\ state[c] = "answered"
  /\ state' = [state EXCEPT ![c] = IF Verifies(held, c, answer[c]) THEN "ok" ELSE "modified"]
  /\ UNCHANGED <<key, drawn, held, answer, made>>

VerifyAnswer(c) ==
  /\ state[c] = "answered"
  /\ state' = [state EXCEPT ![c] = IF Verifies(held, c, answer[c]) THEN "ok" ELSE "again"]
  /\ UNCHANGED <<key, drawn, held, answer, made>>

\* "fetch it once more and verify again, because the judge may have restarted"
VerifyAgain(c, r) ==
  /\ state[c] = "again"
  /\ held' = key[r]
  /\ state' = [state EXCEPT ![c] = IF Verifies(key[r], c, answer[c]) THEN "ok" ELSE "modified"]
  /\ UNCHANGED <<key, drawn, answer, made>>

Next ==
  \/ \E r \in DOMAIN key : Restart(r) \/ FetchKey(r)
  \/ \E r \in DOMAIN key, n \in Nonces, d \in Directs, leak \in BOOLEAN : Judge(r, n, d, leak)
  \/ \E c \in Checks : Ask(c) \/ Deliver(c) \/ NoAnswer(c) \/ VerifyAnswer(c)
  \/ \E c \in Checks, r \in DOMAIN key : VerifyAgain(c, r)

Spec == Init /\ [][Next]_vars

-----------------------------------------------------------------------------
TypeOK ==
  /\ DOMAIN key \in SUBSET Replicas /\ key \in [DOMAIN key -> Keys]
  /\ drawn \in 1..MaxRestarts + 1
  /\ held \in Keys \cup {NoKey}
  /\ state \in [Checks -> {"idle", "asked", "answered", "again", "ok", "modified", "none"}]
  /\ answer \in [Checks -> [body : Seq(Symbols),
                           sig : [key : Keys \cup {NoKey}, msg : Seq(Symbols)]]]
  /\ \A m \in made : /\ m.nonce \in Nonces /\ m.direct \in Directs /\ m.leak \in BOOLEAN
                     /\ m.got.sig \in [key : Keys, msg : Seq(Symbols)]

\* Replicas share the fixed key; every answer is signed over the fields it was computed
\* from, and with a nonce only once that nonce's check has begun; what a check got carries
\* one of these signatures, and was accepted for its own nonce, address and body only.
SignedInv ==
  /\ TypeOK
  /\ \A r, q \in DOMAIN key : r # q => key[r] = FixedKey
  /\ \A m \in made :
       /\ m.got.body = Body(DirectRaw(m.direct), m.leak)
       /\ m.got.sig.msg = Message(Challenge(m.nonce), DirectRaw(m.direct), m.got.body)
       /\ \A c \in Checks : m.nonce = NonceOf[c] => c \in m.begun
  /\ \A c \in Checks :
       /\ state[c] \in {"answered", "again", "ok", "modified"} =>
            \E m \in made : m.got.sig = answer[c].sig
       /\ state[c] = "ok" => answer[c].sig.msg = Message(NonceOf[c], Direct, answer[c].body)

\* sign.rs: "a rewritten or replayed answer fails verification".  An accepted body is
\* the one the judge gave to this check's nonce and direct_ip: the query cannot have lost
\* or changed either, no part of one field can pass for a part of another, and the
\* verdict was reached against the checker's own address.
Genuine ==
  \A c \in Checks : state[c] = "ok" =>
    \E m \in made : /\ m.nonce = NonceOf[c] /\ DirectRaw(m.direct) = Direct
                    /\ answer[c].body = Body(Direct, m.leak)

\* An accepted signature was made after its check began: none is used a second time.
Fresh ==
  \A c \in Checks : state[c] = "ok" => \E m \in made : m.got.sig = answer[c].sig /\ c \in m.begun

\* The judge's answer to the query the checker sent.
Unaltered(c) ==
  \E m \in made : m.nonce = NonceOf[c] /\ m.direct = Direct /\ m.got = answer[c]

\* README: "after a failed verification, fetch it once more and verify again".  An
\* answer nobody touched is not reported as modified, for all restarts before it was
\* signed and however many replicas share a fixed key.
HonestVerified ==
  [][\A c \in Checks : state[c] # "modified" /\ state'[c] = "modified" /\ Unaltered(c)
       => \A r \in DOMAIN key : answer[c].sig.key # key[r]]_vars
=============================================================================
