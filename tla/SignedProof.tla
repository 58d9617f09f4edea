------------------------------ MODULE SignedProof ------------------------------
(***************************************************************************)
(* Signed answers for every set of texts, checks and replicas: a message   *)
(* determines the fields it was put together from, so an accepted answer   *)
(* is the judge's answer to the very query of the check.                   *)
(***************************************************************************)
EXTENDS Signed, TLAPS, SequenceTheorems

\* A line feed ends a text that has none: what stands before and after it is determined.
LEMMA SplitAtLineFeed ==
  ASSUME NEW S, LF \in S,
         NEW a \in Seq(S), NEW x \in Seq(S), NEW b \in Seq(S), NEW y \in Seq(S),
         NoLineFeed(a), NoLineFeed(b),
         Line(a, x) = Line(b, y)
  PROVE  a = b /\ x = y
<1> DEFINE u == <<LF>> \o x
           v == <<LF>> \o y
<1>1. <<LF>> \in Seq(S) /\ Len(<<LF>>) = 1 /\ <<LF>>[1] = LF
  OBVIOUS
<1>2. /\ u \in Seq(S) /\ Len(u) = 1 + Len(x) /\ u[1] = LF
      /\ v \in Seq(S) /\ Len(v) = 1 + Len(y) /\ v[1] = LF
  BY <1>1
<1> HIDE DEF u, v
<1>3. a \o u = b \o v
  BY DEF u, v, Line
<1>4. /\ \A i \in 1..Len(a) : (a \o u)[i] = a[i]
      /\ (a \o u)[Len(a) + 1] = LF
      /\ \A i \in 1..Len(b) : (b \o v)[i] = b[i]
      /\ (b \o v)[Len(b) + 1] = LF
  BY <1>2
<1>5. Len(a) \in Nat /\ Len(b) \in Nat
  OBVIOUS
<1>6. ~(Len(a) < Len(b))
  <2> SUFFICES ASSUME Len(a) < Len(b) PROVE FALSE
    OBVIOUS
  <2>1. Len(a) + 1 \in 1..Len(b)
    BY <1>5
  <2>2. b[Len(a) + 1] = LF
    BY <2>1, <1>3, <1>4
  <2> QED BY <2>1, <2>2 DEF NoLineFeed
<1>7. ~(Len(b) < Len(a))
  <2> SUFFICES ASSUME Len(b) < Len(a) PROVE FALSE
    OBVIOUS
  <2>1. Len(b) + 1 \in 1..Len(a)
    BY <1>5
  <2>2. a[Len(b) + 1] = LF
    BY <2>1, <1>3, <1>4
  <2> QED BY <2>1, <2>2 DEF NoLineFeed
<1>8. Len(a) = Len(b)
  BY <1>5, <1>6, <1>7
<1>9. a = b
  <2>1. \A i \in 1..Len(a) : a[i] = b[i]
    BY <1>3, <1>4, <1>8
  <2> QED BY <2>1, <1>8, SeqEqual
<1>10. u = v
  BY <1>2, <1>3, <1>9, ConcatSimplifications
<1>11. x = y
  BY <1>1, <1>10, ConcatSimplifications DEF u, v
<1> QED BY <1>9, <1>11

LEMMA LineIsText ==
  ASSUME NEW s \in Seq(Symbols), NEW t \in Seq(Symbols)
  PROVE  Line(s, t) \in Seq(Symbols)
<1>1. <<LF>> \in Seq(Symbols)
  BY TextsAssumption
<1> QED BY <1>1, ConcatProperties DEF Line

LEMMA ContextCancels ==
  ASSUME NEW t \in Seq(Symbols), NEW u \in Seq(Symbols),
         SignatureContext \o t = SignatureContext \o u
  PROVE  t = u
<1>1. SignatureContext \in Seq(Symbols)
  BY TextsAssumption DEF SignatureContext
<1> QED BY <1>1, ConcatSimplifications

\* message: the signed bytes determine nonce, direct_ip and body, because only the body
\* may contain a line feed.
THEOREM MessageInjective ==
  ASSUME NEW n1 \in Seq(Symbols), NEW d1 \in Seq(Symbols), NEW b1 \in Seq(Symbols),
         NEW n2 \in Seq(Symbols), NEW d2 \in Seq(Symbols), NEW b2 \in Seq(Symbols),
         NoLineFeed(n1), NoLineFeed(n2), NoLineFeed(d1), NoLineFeed(d2),
         Message(n1, d1, b1) = Message(n2, d2, b2)
  PROVE  n1 = n2 /\ d1 = d2 /\ b1 = b2
<1>1. LF \in Symbols
  BY TextsAssumption
<1>2. Line(d1, b1) \in Seq(Symbols) /\ Line(d2, b2) \in Seq(Symbols)
  BY LineIsText
<1>3. Line(n1, Line(d1, b1)) \in Seq(Symbols) /\ Line(n2, Line(d2, b2)) \in Seq(Symbols)
  BY <1>2, LineIsText
<1>4. Line(n1, Line(d1, b1)) = Line(n2, Line(d2, b2))
  BY <1>3, ContextCancels DEF Message
<1>5. n1 = n2 /\ Line(d1, b1) = Line(d2, b2)
  BY <1>1, <1>2, <1>4, SplitAtLineFeed
<1>6. d1 = d2 /\ b1 = b2
  BY <1>1, <1>5, SplitAtLineFeed
<1> QED BY <1>5, <1>6

-----------------------------------------------------------------------------
\* What the judge signs has no line feed before the body.
LEMMA SignedFields ==
  ASSUME NEW n \in Nonces, NEW d \in Directs, NEW leak \in BOOLEAN
  PROVE  /\ Challenge(n) \in Seq(Symbols) /\ NoLineFeed(Challenge(n))
         /\ DirectRaw(d) \in Seq(Symbols) /\ NoLineFeed(DirectRaw(d))
         /\ Body(d, leak) \in Seq(Symbols)
         /\ Body(DirectRaw(d), leak) \in Seq(Symbols)
<1>1. n \in Seq(Symbols) /\ d \in Seq(Symbols)
  BY TextsAssumption
<1>2. Challenge(n) \in Seq(Symbols) /\ NoLineFeed(Challenge(n))
  BY <1>1, TextsAssumption DEF Challenge, ValidNonce, NoLineFeed
<1>3. DirectRaw(d) \in Seq(Symbols) /\ NoLineFeed(DirectRaw(d))
  BY <1>1 DEF DirectRaw, NoLineFeed
<1>4. <<"elite">> \in Seq(Symbols) /\ <<"transparent">> \in Seq(Symbols)
  BY TextsAssumption
<1>5. /\ Body(d, leak) \in {<<"elite">>, <<"transparent">>}
      /\ Body(DirectRaw(d), leak) \in {<<"elite">>, <<"transparent">>}
  BY DEF Body
<1> QED BY <1>2, <1>3, <1>4, <1>5

LEMMA MessageIsText ==
  ASSUME NEW n \in Seq(Symbols), NEW d \in Seq(Symbols), NEW b \in Seq(Symbols)
  PROVE  Message(n, d, b) \in Seq(Symbols)
<1>1. Line(n, Line(d, b)) \in Seq(Symbols)
  BY LineIsText
<1>2. SignatureContext \in Seq(Symbols)
  BY TextsAssumption DEF SignatureContext
<1> QED BY <1>1, <1>2, ConcatProperties DEF Message

LEMMA NonceFields ==
  ASSUME NEW c \in Checks
  PROVE  /\ NonceOf[c] \in Seq(Symbols) /\ NoLineFeed(NonceOf[c])
         /\ NonceOf[c] # <<>>
         /\ Direct \in Seq(Symbols) /\ NoLineFeed(Direct)
<1>1. NonceOf[c] \in Nonces /\ ValidNonce(NonceOf[c])
  BY NoncesAssumption
<1>2. NonceOf[c] \in Seq(Symbols)
  BY <1>1, TextsAssumption
<1>3. NoLineFeed(NonceOf[c])
  BY <1>1, TextsAssumption DEF ValidNonce, NoLineFeed
<1>4. Len(NonceOf[c]) # 0
  BY <1>1, TextsAssumption DEF ValidNonce
<1> QED BY <1>2, <1>3, <1>4, TextsAssumption

LEMMA SignedInit == Init => SignedInv
<1> SUFFICES ASSUME Init PROVE SignedInv
  OBVIOUS
<1>1. DOMAIN key \in SUBSET Replicas /\ key \in [DOMAIN key -> Keys]
  <2>1. CASE \E R \in SUBSET Replicas \ {{}} : key = [r \in R |-> FixedKey]
    BY <2>1, BoundsAssumption DEF Keys, FixedKey
  <2>2. CASE \E r \in Replicas : key = [q \in {r} |-> 1]
    BY <2>2, BoundsAssumption DEF Keys
  <2> QED BY <2>1, <2>2 DEF Init
<1>2. TypeOK
  BY <1>1, BoundsAssumption DEF Init, TypeOK, Keys
<1>3. \A r, q \in DOMAIN key : r # q => key[r] = FixedKey
  BY DEF Init
<1> QED BY <1>2, <1>3 DEF Init, SignedInv

KeyShared == \A r, q \in DOMAIN key : r # q => key[r] = FixedKey

\* The judge's answers, and what the checks made of them.
AnswersOK ==
  \A m \in made :
    /\ m.got.body = Body(DirectRaw(m.direct), m.leak)
    /\ m.got.sig.msg = Message(Challenge(m.nonce), DirectRaw(m.direct), m.got.body)
    /\ \A c \in Checks : m.nonce = NonceOf[c] => c \in m.begun

Carries(c) == \E m \in made : m.got.sig = answer[c].sig

ChecksOK ==
  \A c \in Checks :
    /\ state[c] \in {"answered", "again", "ok", "modified"} => Carries(c)
    /\ state[c] = "ok" => answer[c].sig.msg = Message(NonceOf[c], Direct, answer[c].body)

LEMMA SignedStep == SignedInv /\ [Next]_vars => SignedInv'
<1> SUFFICES ASSUME TypeOK, KeyShared, AnswersOK, ChecksOK, [Next]_vars
             PROVE  TypeOK' /\ KeyShared' /\ AnswersOK' /\ ChecksOK'
  BY DEF SignedInv, KeyShared, AnswersOK, ChecksOK, Carries
<1>0. KeyShared'
  <2>1. CASE UNCHANGED key
    BY <2>1 DEF KeyShared
  <2>2. CASE \E r \in DOMAIN key : Restart(r)
    <3>1. PICK r \in DOMAIN key : Restart(r)
      BY <2>2
    <3>2. DOMAIN key' = DOMAIN key /\ \A q \in DOMAIN key : q # r => key'[q] = key[q]
      BY <3>1 DEF Restart, TypeOK
    <3>3. key[r] = FixedKey => key'[r] = FixedKey
      BY <3>1 DEF Restart, TypeOK
    <3> QED BY <3>2, <3>3 DEF KeyShared
  <2> QED BY <2>1, <2>2
    DEF Next, vars, FetchKey, Ask, Judge, Deliver, NoAnswer, VerifyAnswer, VerifyAgain
<1>1. ASSUME NEW r \in DOMAIN key, Restart(r) PROVE TypeOK' /\ AnswersOK' /\ ChecksOK'
  <2>1. TypeOK'
    <3>1. DOMAIN key' = DOMAIN key /\ drawn' \in 1..MaxRestarts + 1
      BY <1>1, BoundsAssumption DEF Restart, TypeOK
    <3>2. key' \in [DOMAIN key -> Keys]
      BY <1>1, BoundsAssumption DEF Restart, TypeOK, Keys, FixedKey
    <3> QED BY <1>1, <3>1, <3>2 DEF Restart, TypeOK
  <2> QED BY <1>1, <2>1 DEF Restart, AnswersOK, ChecksOK, Carries
<1>2. ASSUME NEW r \in DOMAIN key, FetchKey(r) PROVE TypeOK' /\ AnswersOK' /\ ChecksOK'
  <2>1. TypeOK'
    BY <1>2 DEF FetchKey, TypeOK
  <2> QED BY <1>2, <2>1 DEF FetchKey, AnswersOK, ChecksOK, Carries
<1>3. ASSUME NEW c \in Checks, Ask(c) PROVE TypeOK' /\ AnswersOK' /\ ChecksOK'
  <2>1. TypeOK'
    BY <1>3 DEF Ask, TypeOK
  <2> QED BY <1>3, <2>1 DEF Ask, TypeOK, AnswersOK, ChecksOK, Carries
<1>4. ASSUME NEW r \in DOMAIN key, NEW n \in Nonces, NEW d \in Directs, NEW leak \in BOOLEAN,
             Judge(r, n, d, leak)
      PROVE  TypeOK' /\ AnswersOK' /\ ChecksOK'
  <2>1. PICK m : /\ m = [nonce |-> n, direct |-> d, leak |-> leak, begun |-> Begun,
                         got |-> JudgeAnswer(key[r], n, d, leak)]
                 /\ made' = made \cup {m}
    BY <1>4 DEF Judge
  <2>2. /\ m.nonce = n /\ m.direct = d /\ m.leak = leak
        /\ m.got.body = Body(DirectRaw(d), leak)
        /\ m.got.sig.msg = Message(Challenge(n), DirectRaw(d), Body(DirectRaw(d), leak))
    BY <2>1 DEF JudgeAnswer, Sign
  <2>3. \A c \in Checks : m.nonce = NonceOf[c] => c \in m.begun
    BY <1>4, <2>1 DEF Judge
  <2>4. TypeOK'
    <3>1. Message(Challenge(n), DirectRaw(d), Body(DirectRaw(d), leak)) \in Seq(Symbols)
      BY SignedFields, MessageIsText
    <3>2. m.got.sig \in [key : Keys, msg : Seq(Symbols)]
      BY <2>1, <3>1 DEF JudgeAnswer, Sign, TypeOK
    <3> QED BY <1>4, <2>1, <2>2, <3>2 DEF Judge, TypeOK
  <2>5. AnswersOK'
    BY <2>1, <2>2, <2>3 DEF AnswersOK
  <2>6. ChecksOK'
    BY <1>4, <2>1 DEF Judge, ChecksOK, Carries
  <2> QED BY <2>4, <2>5, <2>6
<1>5. ASSUME NEW c \in Checks, Deliver(c) PROVE TypeOK' /\ AnswersOK' /\ ChecksOK'
  <2>1. PICK m \in made, body \in Bodies :
          answer' = [answer EXCEPT ![c] = [body |-> body, sig |-> m.got.sig]]
    BY <1>5 DEF Deliver
  <2>2. body \in Seq(Symbols)
    BY TextsAssumption
  <2>3. TypeOK'
    BY <1>5, <2>1, <2>2 DEF Deliver, TypeOK
  <2>4. AnswersOK'
    BY <1>5 DEF Deliver, AnswersOK
  <2>5. ChecksOK'
    BY <1>5, <2>1 DEF Deliver, TypeOK, ChecksOK, Carries
  <2> QED BY <2>3, <2>4, <2>5
<1>6. ASSUME NEW c \in Checks, NoAnswer(c) PROVE TypeOK' /\ AnswersOK' /\ ChecksOK'
  <2>1. TypeOK'
    BY <1>6 DEF NoAnswer, TypeOK
  <2> QED BY <1>6, <2>1 DEF NoAnswer, TypeOK, AnswersOK, ChecksOK, Carries
<1>7. ASSUME NEW c \in Checks, VerifyAnswer(c) PROVE TypeOK' /\ AnswersOK' /\ ChecksOK'
  <2>1. TypeOK' /\ AnswersOK'
    BY <1>7 DEF VerifyAnswer, TypeOK, AnswersOK
  <2>2. Verifies(held, c, answer[c])
          => answer[c].sig.msg = Message(NonceOf[c], Direct, answer[c].body)
    BY DEF Verifies, Sign
  <2> QED BY <1>7, <2>1, <2>2 DEF VerifyAnswer, TypeOK, ChecksOK, Carries
<1>8. ASSUME NEW c \in Checks, NEW r \in DOMAIN key, VerifyAgain(c, r)
      PROVE  TypeOK' /\ AnswersOK' /\ ChecksOK'
  <2>1. TypeOK' /\ AnswersOK'
    BY <1>8 DEF VerifyAgain, TypeOK, AnswersOK
  <2>2. Verifies(key[r], c, answer[c])
          => answer[c].sig.msg = Message(NonceOf[c], Direct, answer[c].body)
    BY DEF Verifies, Sign
  <2> QED BY <1>8, <2>1, <2>2 DEF VerifyAgain, TypeOK, ChecksOK, Carries
<1>9. CASE UNCHANGED vars
  <2>1. TypeOK'
    BY <1>9 DEF vars, TypeOK
  <2>2. AnswersOK'
    BY <1>9 DEF vars, AnswersOK
  <2>3. ChecksOK'
    BY <1>9 DEF vars, ChecksOK, Carries
  <2> QED BY <1>0, <2>1, <2>2, <2>3
<1> QED BY <1>0, <1>1, <1>2, <1>3, <1>4, <1>5, <1>6, <1>7, <1>8, <1>9 DEF Next

\* The inductive invariant: what was signed, and what checks accept.
THEOREM SignedInvariant == Spec => []SignedInv
BY SignedInit, SignedStep, PTL DEF Spec

\* The answer behind an accepted signature has the fields of the check.
LEMMA AcceptedFields ==
  ASSUME SignedInv, NEW c \in Checks, state[c] = "ok",
         NEW m \in made, m.got.sig = answer[c].sig
  PROVE  /\ m.nonce = NonceOf[c] /\ DirectRaw(m.direct) = Direct
         /\ answer[c].body = Body(Direct, m.leak)
<1>1. /\ m.nonce \in Nonces /\ m.direct \in Directs /\ m.leak \in BOOLEAN
      /\ m.got.body = Body(DirectRaw(m.direct), m.leak)
      /\ answer[c].body \in Seq(Symbols)
  BY DEF SignedInv, TypeOK
<1>2. Message(Challenge(m.nonce), DirectRaw(m.direct), m.got.body)
        = Message(NonceOf[c], Direct, answer[c].body)
  BY DEF SignedInv
<1>3. /\ Challenge(m.nonce) \in Seq(Symbols) /\ NoLineFeed(Challenge(m.nonce))
      /\ DirectRaw(m.direct) \in Seq(Symbols) /\ NoLineFeed(DirectRaw(m.direct))
      /\ m.got.body \in Seq(Symbols)
  BY <1>1, SignedFields
<1>4. /\ NonceOf[c] \in Seq(Symbols) /\ NoLineFeed(NonceOf[c]) /\ NonceOf[c] # <<>>
      /\ Direct \in Seq(Symbols) /\ NoLineFeed(Direct)
  BY NonceFields
<1>5. /\ Challenge(m.nonce) = NonceOf[c] /\ DirectRaw(m.direct) = Direct
      /\ m.got.body = answer[c].body
  BY <1>1, <1>2, <1>3, <1>4, MessageInjective
<1> QED BY <1>1, <1>4, <1>5 DEF Challenge

\* sign.rs, "a rewritten or replayed answer fails verification", for every instance.
THEOREM AcceptedIsGenuine == Spec => []Genuine
<1>1. SignedInv => Genuine
  <2> SUFFICES ASSUME SignedInv, NEW c \in Checks, state[c] = "ok"
               PROVE  \E m \in made : /\ m.nonce = NonceOf[c] /\ DirectRaw(m.direct) = Direct
                                      /\ answer[c].body = Body(Direct, m.leak)
    BY DEF Genuine
  <2>1. PICK m \in made : m.got.sig = answer[c].sig
    BY DEF SignedInv
  <2> QED BY <2>1, AcceptedFields
<1> QED BY <1>1, SignedInvariant, PTL

\* An accepted signature was made after its check began, for every instance.
THEOREM AcceptedIsFresh == Spec => []Fresh
<1>1. SignedInv => Fresh
  <2> SUFFICES ASSUME SignedInv, NEW c \in Checks, state[c] = "ok"
               PROVE  \E m \in made : m.got.sig = answer[c].sig /\ c \in m.begun
    BY DEF Fresh
  <2>1. PICK m \in made : m.got.sig = answer[c].sig
    BY DEF SignedInv
  <2>2. m.nonce = NonceOf[c]
    BY <2>1, AcceptedFields
  <2> QED BY <2>1, <2>2 DEF SignedInv
<1> QED BY <1>1, SignedInvariant, PTL

\* The second look at /key suffices, for every number of restarts and replicas: only a
\* restart after the signing makes an untouched answer look modified.
THEOREM HonestIsVerified == Spec => HonestVerified
<1> DEFINE A == \A c \in Checks : state[c] # "modified" /\ state'[c] = "modified" /\ Unaltered(c)
                  => \A r \in DOMAIN key : answer[c].sig.key # key[r]
<1>1. SignedInv /\ [Next]_vars => [A]_vars
  <2> SUFFICES ASSUME SignedInv, Next, NEW c \in Checks,
                      state[c] # "modified", state'[c] = "modified", Unaltered(c),
                      NEW q \in DOMAIN key, answer[c].sig.key = key[q]
               PROVE  FALSE
    OBVIOUS
  <2>1. PICK r \in DOMAIN key : VerifyAgain(c, r)
    BY DEF Next, Restart, FetchKey, Judge, Ask, Deliver, NoAnswer, VerifyAnswer, VerifyAgain,
           SignedInv, TypeOK
  <2>2. key[q] = key[r]
    BY DEF SignedInv
  <2>3. PICK m \in made : m.nonce = NonceOf[c] /\ m.direct = Direct /\ m.got = answer[c]
    BY DEF Unaltered
  <2>4. Challenge(m.nonce) = NonceOf[c] /\ DirectRaw(m.direct) = Direct
    BY <2>3, NoncesAssumption, TextsAssumption DEF Challenge, DirectRaw
  <2>5. answer[c].sig.msg = Message(NonceOf[c], Direct, answer[c].body)
    BY <2>3, <2>4 DEF SignedInv
  <2>6. answer[c].sig = [key |-> key[r], msg |-> Message(NonceOf[c], Direct, answer[c].body)]
    BY <2>2, <2>5 DEF SignedInv, TypeOK
  <2>7. Verifies(key[r], c, answer[c])
    BY <2>6 DEF Verifies, Sign
  <2> QED BY <2>1, <2>7 DEF VerifyAgain, SignedInv, TypeOK
<1>2. Spec => [][A]_vars
  BY <1>1, SignedInvariant, PTL DEF Spec
<1> QED BY <1>2 DEF HonestVerified
=============================================================================
